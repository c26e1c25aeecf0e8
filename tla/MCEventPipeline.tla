-------------------------- MODULE MCEventPipeline --------------------------
(* Instances of EventPipeline for TLC.                                     *)
EXTENDS EventPipeline

\* The first detector fires on odd events, the second on every one; only the
\* second asks for an action.
MCFires == {r \in Results : r[2] = 2 \/ r[1] % 2 = 1}
MCActs == {r \in MCFires : r[2] = 2}
MCSigmaMatch == {e \in Events : e = 1}
=============================================================================
