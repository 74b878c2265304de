------------------------------ MODULE MCChains ------------------------------
(* The chains of stages that prepare pairs and act on their outcomes, for   *)
(* TLC: Protocol v2 (Preparation), Protocol v1 (V1Chain) and Phase 3        *)
(* (Interventions).                                                         *)
(*                                                                         *)
(* They share no state: a behaviour is of one chain, chosen at the start,   *)
(* and the others stay as they began.  One run checks them all.             *)
EXTENDS Interventions, Preparation, V1Chain

-----------------------------------------------------------------------------
(* Protocol v2: two tasks, rows that lack a level or a prefix, that compete *)
(* for one identity or for one task, and trajectories whose risk depends on *)
(* the prefix.                                                              *)

Row(pair, task, prefix, risk) ==
  [pair |-> pair, task |-> task, role |-> "failure_target", supported |-> TRUE, prefix |-> prefix,
   status |-> "eligible", risk |-> risk, rank |-> Missing]
Weak(row) == [row EXCEPT !.supported = FALSE, !.status = Missing]

MCCandidateFiles ==
  {<<Row("p1", "t1", 4, Missing), [Row("p2", "t2", 5, Missing) EXCEPT !.rank = 1]>>,
   <<Weak(Row("p1", "t1", 4, Missing)), Row("p1", "t1", Missing, Missing)>>,
   <<Row("p1", "t1", 4, Missing), Row("p2", "t1", 5, "low")>>,
   <<[Row("p1", "t1", 4, Missing) EXCEPT !.role = "success_sentinel"], Row("p2", "t1", 5, Missing)>>,
   <<[Row("p1", "t1", 4, Missing) EXCEPT !.status = "ineligible"]>>}

Pytests(n) == [i \in 1..n |-> {"pytest"}]
MCTrajectories == <<Pytests(6), <<{}, {}, {"temp_path"}, {}, {"git_stash"}>>>>

V1Row(diverged) == [family |-> "v1", completed |-> TRUE, no_uplift |-> TRUE, diverged |-> diverged]
MCOutcomes == {[passed |-> TRUE, supports_revision |-> TRUE, rows |-> {V1Row(d)}] : d \in BOOLEAN}

MCRoots == <<1>>

-----------------------------------------------------------------------------
(* Protocol v1: three pairs, two of them of one task *)

MCPairs == {"p1", "p2", "p3"}
MCTaskOf == [p \in MCPairs |-> IF p \in {"p1", "p2"} THEN "t1" ELSE p]
MCClasses == {"behavior_diverged_but_target_failure_persisted",
            "target_fixed_but_regression_not_controlled", "other"}

Ref(p, role) == [pair |-> p, role |-> role, eligible |-> TRUE, risk_allowed |-> TRUE]
MCRefLists ==
  {<<Ref("p2", "failure_target"), Ref("p3", "failure_target")>>,
   <<Ref("p3", "failure_target"), Ref("p1", "success_sentinel")>>,
   <<[Ref("p1", "failure_target") EXCEPT !.eligible = FALSE],
     [Ref("p3", "failure_target") EXCEPT !.risk_allowed = FALSE]>>}

-----------------------------------------------------------------------------
(* Phase 3: families that share a task, reasons that qualify for several policies, ties *)

Diagnosed(task, family, outcome, score, prefix, reasons) ==
  [task |-> task, family |-> family, outcome |-> outcome, score |-> score, prefix |-> prefix,
   reasons |-> reasons, streak |-> prefix, state_class |-> TRUE]
Loop == "loop_or_duplicate_pattern"
Gap == "validation_gap_after_edit"
Streak == "same_action_family_streak"

DiagnosedFiles ==
  {<<Diagnosed(1, 1, "failure", 9, 1, {Gap, Loop}), Diagnosed(2, 1, "failure", 8, 2, {Gap}),
     Diagnosed(2, 1, "failure", 7, 1, {Gap, Loop})>>,
   <<Diagnosed(1, 1, "failure", 5, 1, {Loop, Streak}), Diagnosed(2, 1, "success", 9, 0, {Streak})>>,
   <<Diagnosed(1, 1, "failure", 5, 2, {Gap}), Diagnosed(1, 1, "failure", 5, 2, {Gap})>>}

Rep(file, payload, resolved, applied, empty) ==
  [file |-> file, payload |-> payload, resolved |-> resolved, applied |-> applied, empty |-> empty]
MCArmReports ==
  {Rep(TRUE, TRUE, TRUE, TRUE, FALSE), Rep(TRUE, TRUE, FALSE, TRUE, FALSE),
   Rep(FALSE, FALSE, FALSE, FALSE, TRUE), Rep(FALSE, FALSE, FALSE, FALSE, FALSE)}

MCQuotas == [failure_target |-> 2, success_sentinel |-> 1]
MCPerFamily == [failure_target |-> 1, success_sentinel |-> 1]

-----------------------------------------------------------------------------
(* One of the three *)

VARIABLE part

chains_vars == <<part, prep_vars, v1_vars, vars>>

PrepStill == /\ PrepInit
             /\ candidates = CHOOSE file \in CandidateFiles : TRUE
             /\ outcomes = CHOOSE found \in Outcomes : TRUE
Phase3Still == /\ Init
               /\ rows = CHOOSE file \in Files : TRUE

ChainsInit == /\ V1ChainInit
              /\ \/ part = "v2"     /\ PrepInit  /\ Phase3Still
                 \/ part = "v1"     /\ PrepStill /\ Phase3Still
                 \/ part = "phase3" /\ PrepStill /\ Init

ChainsNext == \/ part = "v2"     /\ PrepNext    /\ UNCHANGED <<part, v1_vars, vars>>
              \/ part = "v1"     /\ V1ChainNext /\ UNCHANGED <<part, prep_vars, vars>>
              \/ part = "phase3" /\ Next        /\ UNCHANGED <<part, prep_vars, v1_vars>>

ChainsSpec == ChainsInit /\ [][ChainsNext]_chains_vars
=============================================================================
