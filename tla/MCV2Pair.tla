------------------------------ MODULE MCV2Pair ------------------------------
(* V2Pair for TLC: arms that fail, stop in the prefix, or complete on one  *)
(* of two recordings and resolve the task or not.                          *)
EXTENDS V2Pair

Arm(completed, replay, generated, resolves) ==
  [completed |-> completed, replay |-> replay, generated |-> generated, resolves |-> resolves]

MCExecutions == {Arm(FALSE, 1, TRUE, FALSE), Arm(TRUE, 1, FALSE, FALSE), Arm(TRUE, 1, TRUE, FALSE),
                 Arm(TRUE, 1, TRUE, TRUE), Arm(TRUE, 2, TRUE, FALSE)}
=============================================================================
