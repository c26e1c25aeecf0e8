-------------------------- MODULE MCSshBruteforce --------------------------
(* Instances of SshBruteforce for TLC.                                     *)
EXTENDS SshBruteforce, TLC

CONSTANTS w1, w2

OneWorker == {w1}
TwoWorkers == {w1, w2}
WorkerSymmetry == Permutations({w1, w2})
=============================================================================
