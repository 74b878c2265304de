---------------------------- MODULE MCRunService ----------------------------
(* RunService for TLC: exponential backoff from a base of one clock tick.  *)
EXTENDS RunService, TLC

MCDelay == ExponentialBackoff(1)

Symmetry == Permutations(RunIds) \cup Permutations(Workers) \cup Permutations(Clients)
=============================================================================
