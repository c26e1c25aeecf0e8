--------------------------- MODULE MCContainment ---------------------------
(* Instances of Containment for TLC.                                       *)
EXTENDS Containment

CONSTANTS a1, a10, a2, host

\* 10.0.0.1 occurs in 10.0.0.10.
MCPartOf == {<<a1, a10>>}
MCDefaultTtl == [k \in Kinds |-> 2]
=============================================================================
