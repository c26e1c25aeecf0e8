------------------------- MODULE MCEvidenceLocker -------------------------
(* Instances of EvidenceLocker for TLC.                                    *)
EXTENDS EvidenceLocker, TLC

CONSTANTS s1, s2, a1, b1, b2, d1, d2

TwoServers == {s1, s2}
OneAlert == {a1}
TwoBundles == {b1, b2}
TwoDetails == {d1, d2}

Symmetry == Permutations(TwoServers) \cup Permutations(TwoBundles)
              \cup Permutations(TwoDetails)
=============================================================================
