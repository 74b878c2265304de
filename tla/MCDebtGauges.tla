---------------------------- MODULE MCDebtGauges ----------------------------
(* DebtGauges for TLC: executions of a run may differ in outputs, in seats  *)
(* and in the decisions that are flagged.                                   *)
EXTENDS DebtGauges, TLC

CONSTANTS s1, s2, x, y, d1

Ran(seats, steps, flagged, denied) ==
  [status |-> "completed", seats |-> seats, steps |-> steps,
   flagged |-> flagged, denied |-> denied]

MCRecords == {Ran({s1}, x, {d1}, {}),      \* as first executed
              Ran({s2}, x, {d1}, {}),      \* another seat declared
              Ran({s1}, y, {}, {d1})}      \* another output and verdict

\* A v1 attestation by a seat that only an older script declared.
MCLegacy == {[seat |-> s2, decision |-> "accept", clears |-> {d1},
              digest |-> run_subject_digest(r, Ran({s1}, x, {d1}, {}), 1)] : r \in Runs}
=============================================================================
