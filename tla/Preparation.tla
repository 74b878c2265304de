---------------------------- MODULE Preparation ----------------------------
(***************************************************************************)
(* The stages before a Protocol v2 pair is executed: replay material is    *)
(* made from a baseline trajectory (intervention/protocol_v2_pair_inputs), *)
(* the dry run derives the prescription from v1 outcomes                   *)
(* (protocol_v2_dry_run), the fresh-candidate gate selects failure targets *)
(* no official evaluation has seen (protocol_v2_fresh_candidates), and the *)
(* planned preflight admits one of them (protocol_v2_planned_preflight).   *)
(* Each stage is a process that reads the files of the ones before and     *)
(* writes its own one by one; it may die in between, and evaluations of    *)
(* other pairs end meanwhile.                                              *)
(*                                                                         *)
(* A candidate row's prefix, policy, status and risk may be missing        *)
(* (Missing); an action of a trajectory is the set of risk patterns it     *)
(* matches.  Trajectories have numbers; 0 is a missing file.               *)
(***************************************************************************)
EXTENDS Integers, Sequences, FiniteSets, SequencesExt, Functions

CONSTANTS CandidateFiles, \* what the candidate files may hold: sequences of rows
          Trajectories,   \* the trajectories of every task, in the order they are made
          Outcomes,     \* what the v1 batch outcomes may be
          Roots,        \* directories for pair inputs, in the order they are given
          TargetPairs,  \* target_pair_count
          Missing,      \* a field a row does not have
          MaxCalls, MaxStageDeaths, MaxEvaluations    \* bounds

NoPair == ""

VARIABLES candidates,   \* the candidate rows
          traj,         \* task -> numbers of the trajectories found for it
          inputs,       \* root, task -> the pair inputs written there
          outcomes,     \* v1 batch outcomes: the report and its rows
          dry,          \* the dry-run report
          used,         \* (pair, task) of every completed official evaluation on disk
          mismatch,     \* (pair, task) of every replay mismatch audit on disk
          list,         \* ..._candidates.jsonl: rows, and what was known when they were selected
          freshReport,  \* ..._fresh_candidate_set_report.json
          admitted,     \* the planned-preflight directory
          stage,        \* the stage at work, one at a time
          calls, stage_deaths

prep_vars == <<candidates, traj, inputs, outcomes, dry, used, mismatch, list, freshReport, admitted,
               stage, calls, stage_deaths>>

Tasks == DOMAIN traj
Idle == [pc |-> "idle"]

NoInputs == [config |-> 0, replay |-> 0, prefix |-> 0, risk |-> Missing]
NoList == [rows |-> << >>, used |-> {}, mismatch |-> {}]
NoFresh == [passed |-> FALSE, decision |-> "none", pairs |-> << >>, grounds |-> {}]
NoAdmission == [ready |-> FALSE, row |-> << >>, config |-> 0, known |-> {}, grounds |-> {}]

PrepInit == /\ candidates \in CandidateFiles
            /\ traj \in [{candidates[i].task : i \in DOMAIN candidates} -> {{1}}]
            /\ inputs = [r \in Range(Roots) |-> [t \in Tasks |-> NoInputs]]
            /\ outcomes \in Outcomes
            /\ dry = [passed |-> FALSE, targets |-> {}]
            /\ used = {} /\ mismatch = {}
            /\ list = NoList /\ freshReport = NoFresh /\ admitted = NoAdmission
            /\ stage = Idle
            /\ calls = 0 /\ stage_deaths = 0

Call == stage.pc = "idle" /\ calls < MaxCalls /\ calls' = calls + 1

-----------------------------------------------------------------------------
(* The world outside: evaluations end, audits are filed, baselines rerun   *)

\* A completed official evaluation is found by its pair and its task; older
\* summaries leave the pair out.
evaluate_pair ==
  /\ Cardinality(used) + Cardinality(mismatch) < MaxEvaluations
  /\ \E row \in Range(candidates) : \E pair \in {row.pair, NoPair} :
        \/ used' = used \cup {<<pair, row.task>>} /\ UNCHANGED mismatch
        \/ mismatch' = mismatch \cup {<<pair, row.task>>} /\ UNCHANGED used
  /\ UNCHANGED <<candidates, traj, inputs, outcomes, dry, list, freshReport, admitted,
                 stage, calls, stage_deaths>>

\* A baseline is recorded again, over the old trajectory or beside it.
rerun_baseline(t) ==
  LET next == CHOOSE n \in 1..(Len(Trajectories) + 1) :
                 n \notin traj[t] /\ \A m \in traj[t] : m < n
  IN  /\ \A m \in traj[t] : m < Len(Trajectories)
      /\ traj' \in {[traj EXCEPT ![t] = {next}], [traj EXCEPT ![t] = @ \cup {next}]}
      /\ UNCHANGED <<candidates, inputs, outcomes, dry, used, mismatch, list, freshReport,
                     admitted, stage, calls, stage_deaths>>

-----------------------------------------------------------------------------
(* protocol_v2_pair_inputs                                                 *)

\* _replay_determinism_screen
replay_determinism_screen(actions) ==
  LET count(pattern) == Cardinality({i \in DOMAIN actions : pattern \in actions[i]})
      high   == count("git_stash") > 0 \/ count("empty_action") > 0
      medium == count("pytest") >= 5 \/ count("network_or_install") > 0
      any    == \E i \in DOMAIN actions : actions[i] # {}
  IN  CASE high                        -> "high"
        [] ~high /\ medium             -> "medium"
        [] ~high /\ ~medium /\ any     -> "low"
        [] ~high /\ ~medium /\ ~any    -> "no_known"

Prefix(n, prefix) == SubSeq(Trajectories[n], 1, prefix)

\* A row is materialized only with a prefix, one trajectory of its task and at
\* least as many actions in it; anything else raises and is listed as a failure.
materialize_start(row, root) ==
  /\ Call
  /\ row.prefix # Missing
  /\ \E n \in traj[row.task] :
        /\ traj[row.task] = {n} /\ row.prefix <= Len(Trajectories[n])
        /\ stage' = [pc |-> "config", task |-> row.task, root |-> root, n |-> n, prefix |-> row.prefix]
  /\ UNCHANGED <<candidates, traj, inputs, outcomes, dry, used, mismatch, list, freshReport,
                 admitted, stage_deaths>>

materialize_config ==
  /\ stage.pc = "config"
  /\ inputs' = [inputs EXCEPT ![stage.root][stage.task].config = stage.n]
  /\ stage' = [stage EXCEPT !.pc = "replay"]
  /\ UNCHANGED <<candidates, traj, outcomes, dry, used, mismatch, list, freshReport, admitted,
                 calls, stage_deaths>>

\* the replay actions, then the candidate
materialize_replay ==
  /\ stage.pc = "replay"
  /\ inputs' = [inputs EXCEPT ![stage.root][stage.task] =
                   [@ EXCEPT !.replay = stage.n, !.prefix = stage.prefix]]
  /\ stage' = [stage EXCEPT !.pc = "input_report"]
  /\ UNCHANGED <<candidates, traj, outcomes, dry, used, mismatch, list, freshReport, admitted,
                 calls, stage_deaths>>

\* Mutant: the actions before the last one are screened.
input_report_Short == replay_determinism_screen(Prefix(stage.n, stage.prefix - 1))
input_report == replay_determinism_screen(Prefix(stage.n, stage.prefix))

materialize_report ==
  /\ stage.pc = "input_report"
  /\ inputs' = [inputs EXCEPT ![stage.root][stage.task].risk = input_report]
  /\ stage' = Idle
  /\ UNCHANGED <<candidates, traj, outcomes, dry, used, mismatch, list, freshReport, admitted,
                 calls, stage_deaths>>

-----------------------------------------------------------------------------
(* protocol_v2_dry_run                                                     *)

\* Mutant: any completed v1 pair will do.
target_rows_Any(rows) == {row \in rows : row.completed}
\* _target_rows: completed v1 pairs that changed behaviour without uplift.
target_rows(rows) ==
  {row \in rows : row.family = "v1" /\ row.completed /\ row.no_uplift /\ row.diverged}

dry_run ==
  /\ Call
  /\ dry' = [passed  |-> /\ outcomes.passed /\ outcomes.supports_revision
                         /\ target_rows(outcomes.rows) # {},
             targets |-> target_rows(outcomes.rows)]
  /\ UNCHANGED <<candidates, traj, inputs, outcomes, used, mismatch, list, freshReport, admitted,
                 stage, stage_deaths>>

-----------------------------------------------------------------------------
(* protocol_v2_fresh_candidates                                            *)

\* Mutant: an evaluation of the task under another pair is overlooked.
is_used_PairOnly(row, seen) ==
  \/ <<row.pair, row.task>> \in seen
  \/ \E u \in seen : u[1] # NoPair /\ u[1] = row.pair
\* _is_used: by the pair or by the task.
is_used(row, seen) ==
  \/ <<row.pair, row.task>> \in seen
  \/ \E u \in seen : u[1] # NoPair /\ u[1] = row.pair
  \/ \E u \in seen : u[2] = row.task

candidate_quality(row) ==
  <<IF row.role = "failure_target" THEN 1 ELSE 0, IF row.supported THEN 1 ELSE 0,
    IF row.prefix # Missing THEN 1 ELSE 0, IF row.status = "eligible" THEN 1 ELSE 0>>

Identity(row) == <<row.pair, row.task>>

\* Of two rows with one identity the better, the earlier of equals.
Better(rows, i, j) ==
  LET q == candidate_quality(rows[i])  r == candidate_quality(rows[j])
  IN  \/ \E k \in 1..4 : q[k] > r[k] /\ \A m \in 1..(k - 1) : q[m] = r[m]
      \/ q = r /\ i < j

\* _coalesced_rows: the best row of each identity, in the order the identities
\* come up; what it lacks is taken from the next best row that has it.
coalesced_rows(rows) ==
  LET first == {i \in DOMAIN rows : \A j \in 1..(i - 1) : Identity(rows[j]) # Identity(rows[i])}
      group(i) == {j \in DOMAIN rows : Identity(rows[j]) = Identity(rows[i])}
      value(i, field) ==
        LET having == {j \in group(i) : rows[j][field] # Missing}
        IN  IF having = {} THEN Missing
            ELSE rows[CHOOSE j \in having : \A k \in having \ {j} : Better(rows, j, k)][field]
      merged(i) == [field \in DOMAIN rows[i] |-> value(i, field)]
      order == SetToSortSeq(first, LAMBDA i, j : i < j)
  IN  [n \in DOMAIN order |-> merged(order[n])]

\* _rank_key: ranked rows first, the others as they come.
ByRank(rows) ==
  LET key(i) == IF rows[i].rank = Missing THEN 10000 + i ELSE rows[i].rank
      order == SetToSortSeq(DOMAIN rows, LAMBDA i, j : key(i) < key(j) \/ (key(i) = key(j) /\ i < j))
  IN  [n \in DOMAIN order |-> rows[order[n]]]

\* _materialized_inputs: the first root that has any of the files.
materialized_root(task) ==
  LET having == {i \in DOMAIN Roots : /\ task \in Tasks
                                      /\ \/ inputs[Roots[i]][task].config # 0
                                         \/ inputs[Roots[i]][task].replay # 0}
  IN  IF having = {} THEN 0 ELSE Roots[CHOOSE i \in having : \A j \in having : i <= j]

\* _replay_risk_level: the row's own level counts before the input report's.
replay_risk_level(row, root) == IF row.risk # Missing THEN row.risk ELSE inputs[root][row.task].risk

Allowed == {"no_known", "low"}

\* The exclusions, in the order they are tried.
Selected(row) ==
  LET root == materialized_root(row.task)
  IN  /\ row.role = "failure_target"
      /\ row.status \in {Missing, "eligible"}
      /\ ~is_used(row, used) /\ ~is_used(row, mismatch)
      /\ root # 0 /\ inputs[root][row.task].replay # 0 /\ inputs[root][row.task].config # 0
      /\ replay_risk_level(row, root) \in Allowed

\* _safe_candidate
Candidate(row) == [pair |-> row.pair, task |-> row.task, role |-> row.role, own |-> row.risk,
                   root |-> materialized_root(row.task), seen |-> inputs[materialized_root(row.task)][row.task]]

\* Of the first n rows the selected, in their order.
Chosen(rows, n) ==
  LET chosen[k \in 0..n] ==
        IF k = 0 THEN << >>
        ELSE IF k \in DOMAIN rows /\ Selected(rows[k])
          THEN Append(chosen[k - 1], Candidate(rows[k])) ELSE chosen[k - 1]
  IN  chosen[n]

\* Coalescing leaves no more rows than there were.
select_protocol_v2_fresh_candidates ==
  Chosen(ByRank(coalesced_rows(candidates)), Len(candidates))

\* protocol_v2_fresh_candidate_report: its own scan.  A batch short of the target
\* passes, as limited.
fresh_candidate_report(rows) ==
  [passed   |-> rows # << >> /\ dry.passed /\ TargetPairs > 0,
   decision |-> IF rows = << >> THEN "blocked"
                ELSE IF Len(rows) >= TargetPairs THEN "ready" ELSE "limited",
   pairs    |-> [i \in DOMAIN rows |-> <<rows[i].pair, rows[i].task>>],
   grounds  |-> dry.targets]

fresh_scan ==
  /\ Call
  /\ stage' = [pc |-> "scanned",
             list |-> [rows |-> select_protocol_v2_fresh_candidates, used |-> used,
                       mismatch |-> mismatch]]
  /\ UNCHANGED <<candidates, traj, inputs, outcomes, dry, used, mismatch, list, freshReport,
                 admitted, stage_deaths>>

fresh_rescan ==
  /\ stage.pc = "scanned"
  /\ stage' = [pc |-> "list", list |-> stage.list,
             report |-> fresh_candidate_report(select_protocol_v2_fresh_candidates)]
  /\ UNCHANGED <<candidates, traj, inputs, outcomes, dry, used, mismatch, list, freshReport,
                 admitted, calls, stage_deaths>>

\* The list is written whatever the gates say.
fresh_write_list ==
  /\ stage.pc = "list"
  /\ list' = stage.list
  /\ stage' = [stage EXCEPT !.pc = "fresh_report"]
  /\ UNCHANGED <<candidates, traj, inputs, outcomes, dry, used, mismatch, freshReport, admitted,
                 calls, stage_deaths>>

fresh_write_report ==
  /\ stage.pc = "fresh_report"
  /\ freshReport' = stage.report
  /\ stage' = Idle
  /\ UNCHANGED <<candidates, traj, inputs, outcomes, dry, used, mismatch, list, admitted, calls,
                 stage_deaths>>

-----------------------------------------------------------------------------
(* protocol_v2_planned_preflight                                           *)

\* The gates on the candidate set, the candidate, and the material it points to;
\* which protocol steps have a hook action is fixed.
preflight_gates(row) ==
  /\ freshReport.passed /\ freshReport.decision \in {"ready", "limited"}
  /\ row.role = "failure_target"
  /\ inputs[row.root][row.task].replay # 0 /\ inputs[row.root][row.task].prefix > 0
  /\ inputs[row.root][row.task].config # 0

\* The first listed row, or the first of the task asked for; if there is none the
\* preflight is blocked, and so reported.
Listed(wanted) == {i \in DOMAIN list.rows : wanted \in {Missing, list.rows[i].task}}

preflight_load(wanted) ==
  /\ Call
  /\ stage' =
       IF Listed(wanted) = {}
       THEN [pc |-> "configs", row |-> << >>, ready |-> FALSE, config |-> 0, known |-> {},
             grounds |-> freshReport.grounds]
       ELSE LET row == list.rows[CHOOSE i \in Listed(wanted) : \A j \in Listed(wanted) : i <= j]
            IN  [pc |-> "configs", row |-> row, ready |-> preflight_gates(row),
                 config |-> inputs[row.root][row.task].config,
                 known |-> list.used \cup list.mismatch, grounds |-> freshReport.grounds]
  /\ UNCHANGED <<candidates, traj, inputs, outcomes, dry, used, mismatch, list, freshReport,
                 admitted, stage_deaths>>

\* candidate, hook mapping and both runtime configs: before the verdict.
preflight_configs ==
  /\ stage.pc = "configs"
  /\ admitted' = [admitted EXCEPT !.config = IF stage.config # 0 THEN stage.config ELSE @]
  /\ stage' = [stage EXCEPT !.pc = "preflight_report"]
  /\ UNCHANGED <<candidates, traj, inputs, outcomes, dry, used, mismatch, list, freshReport,
                 calls, stage_deaths>>

preflight_report ==
  /\ stage.pc = "preflight_report"
  /\ admitted' = [ready |-> stage.ready, row |-> stage.row, config |-> admitted.config,
                  known |-> stage.known, grounds |-> stage.grounds]
  /\ stage' = Idle
  /\ UNCHANGED <<candidates, traj, inputs, outcomes, dry, used, mismatch, list, freshReport,
                 calls, stage_deaths>>

-----------------------------------------------------------------------------
\* The stage dies between two writes.
die == /\ stage.pc # "idle" /\ stage_deaths < MaxStageDeaths
       /\ stage' = Idle /\ stage_deaths' = stage_deaths + 1
       /\ UNCHANGED <<candidates, traj, inputs, outcomes, dry, used, mismatch, list, freshReport,
                      admitted, calls>>

PrepNext == \/ evaluate_pair \/ (\E t \in Tasks : rerun_baseline(t))
            \/ (\E row \in Range(candidates), root \in Range(Roots) : materialize_start(row, root))
            \/ materialize_config \/ materialize_replay \/ materialize_report
            \/ dry_run
            \/ fresh_scan \/ fresh_rescan \/ fresh_write_list \/ fresh_write_report
            \/ (\E wanted \in Tasks \cup {Missing} : preflight_load(wanted))
            \/ preflight_configs \/ preflight_report
            \/ die

PrepSpec == PrepInit /\ [][PrepNext]_prep_vars
-----------------------------------------------------------------------------
(* Properties *)

\* clinic README: completed historical task/pair rows cannot re-enter as fresh
\* targets.  Whoever dies where, and however old the list: a pair that the
\* preflight admits was, when it was selected, of no evaluated and no mismatching
\* pair or task, under whichever of its pair ids.
AdmittedWasFresh ==
  admitted.ready =>
     /\ admitted.row.role = "failure_target"
     /\ \A u \in admitted.known : /\ u[2] # admitted.row.task
                                  /\ u[1] # NoPair => u[1] # admitted.row.pair

\* A pair is admitted only in the wake of a v1 pair whose behaviour changed
\* without uplift: the dry run behind the set's report found one.
AdmissionIsGrounded ==
  admitted.ready =>
     \E row \in admitted.grounds : row.family = "v1" /\ row.completed /\ row.no_uplift /\ row.diverged

\* What an admitted pair replays is of low risk, by the actions themselves, if
\* its level is that of its inputs, these are still the ones it was selected with,
\* and nobody died or is at work over them.
AdmittedReplayIsScreened ==
  LET row == admitted.row
      now == inputs[row.root][row.task]
  IN  admitted.ready /\ row.own = Missing /\ row.seen = now /\ stage.pc = "idle" /\ stage_deaths = 0 =>
         replay_determinism_screen(Prefix(now.replay, now.prefix)) \in Allowed
=============================================================================
