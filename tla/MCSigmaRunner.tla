-------------------------- MODULE MCSigmaRunner --------------------------
(* Instances of SigmaRunner for TLC.                                       *)
EXTENDS SigmaRunner, TLC

CONSTANTS w1, w2

OneWorker == {w1}
TwoWorkers == {w1, w2}
WorkerSymmetry == Permutations({w1, w2})

\* The first rule needs two events in one second, the second fires on one,
\* with a timeframe of zero.
RuleCount == [r \in Rules |-> IF r = 1 THEN 2 ELSE 1]
RuleTimeframe == [r \in Rules |-> IF r = 1 THEN 1 ELSE 0]
RuleCooldown == [r \in Rules |-> 1]
=============================================================================
