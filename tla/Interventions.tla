---------------------------- MODULE Interventions ----------------------------
(***************************************************************************)
(* Paired interventions on whole trajectories (phases 3.12 to 3.19), before *)
(* replayed prefixes.  Diagnosed trajectories become pairs                  *)
(* (intervention/planner.py); a batch of their arms is run and resumed      *)
(* (runner.py), with the static-prefix hook in each (hooks.py); official    *)
(* reports give each pair an outcome (evaluator.py); from the summary of    *)
(* the pairs the closed loop (attribution.py, closed_loop.py), the          *)
(* stability gate (stability.py) and the batch-3 readiness gate             *)
(* (batch_readiness.py, with the dry run of the live-feature hook) decide   *)
(* what may be done next.  The three are functions of files, evaluated in   *)
(* the properties on whatever is on disk.                                   *)
(*                                                                         *)
(* Tasks and families are numbers, in the order of their names.             *)
(***************************************************************************)
EXTENDS Integers, Sequences, FiniteSets, SequencesExt

CONSTANTS Files,                 \* diagnosed rows a package may be made of
          ROLE_POLICY_QUOTAS, MAX_PER_FAMILY,   \* role -> number: 6 and 2, 4 and 2
          CallLimit,             \* per_arm_model_call_limit, 0 for none
          ArmReports,            \* what an official evaluation may leave of an arm
          MainTarget, MinPairs, MaxPairs,       \* 4, 4 and 8
          None,
          MaxSteps, MaxDeaths    \* bounds

VARIABLES rows,      \* the diagnosed trajectories
          pairs,     \* the package
          done,      \* <<pair, arm>> -> what its completed run left
          run,       \* the arm running
          summary,   \* pair summaries, in the order of evaluation
          deaths

vars == <<rows, pairs, done, run, summary, deaths>>

Roles == {"failure_target", "success_sentinel"}
ROLE_OUTCOME == [failure_target |-> "failure", success_sentinel |-> "success"]
Policies == <<"insert_validation_checkpoint", "break_recurrence_and_replan",
              "error_observation_recovery", "same_action_escape">>
required_reason ==
  [insert_validation_checkpoint |-> "validation_gap_after_edit",
   break_recurrence_and_replan |-> "loop_or_duplicate_pattern",
   error_observation_recovery |-> "error_streak_or_error_observation",
   same_action_escape |-> "same_action_family_streak"]

-----------------------------------------------------------------------------
(* The planner *)

\* Of two rows of a slot, a comes first; in order of the file if they are alike.
_sort_key(records, a, b) ==
  LET r == records[a] s == records[b]
  IN \/ r.score > s.score
     \/ r.score = s.score /\ r.family < s.family
     \/ r.score = s.score /\ r.family = s.family /\ r.task < s.task
     \/ /\ r.score = s.score /\ r.family = s.family /\ r.task = s.task
        /\ r.prefix < s.prefix \/ (r.prefix = s.prefix /\ a < b)
FirstOf(records, candidates) ==
  CHOOSE i \in candidates : \A j \in candidates \ {i} : _sort_key(records, i, j)

\* A selection is a sequence of [row, role, policy].
used_tasks(records, selected) == {records[selected[k].row].task : k \in DOMAIN selected}
family_counts(records, selected, role, family) ==
  Cardinality({k \in DOMAIN selected :
                 selected[k].role = role /\ records[selected[k].row].family = family})

\* The rows of a slot, and those of them whose task is free when its selection begins.
Slot(records, role, policy) ==
  {i \in DOMAIN records : /\ records[i].outcome = ROLE_OUTCOME[role]
                          /\ required_reason[policy] \in records[i].reasons}
candidate_records(records, role, policy, selected) ==
  {i \in Slot(records, role, policy) : records[i].task \notin used_tasks(records, selected)}

\* The first pass keeps to the cap of a family and does not look at the tasks it
\* uses itself; the second fills the quota with tasks not yet used.
X_second_pass_reuses(records, pass, selected, role, i) ==
  pass = "capped" => family_counts(records, selected, role, records[i].family) < MAX_PER_FAMILY[role]
MayTake(records, pass, selected, role, i) ==
  IF pass = "capped"
  THEN family_counts(records, selected, role, records[i].family) < MAX_PER_FAMILY[role]
  ELSE records[i].task \notin used_tasks(records, selected)

\* A pass goes through all candidates, and takes some until the selection is full.
TakeNext(records, pass, role, policy, full, s) ==
  LET i == FirstOf(records, s.left)
  IN  [taken |-> IF Len(s.taken) < full /\ MayTake(records, pass, s.taken, role, i)
                 THEN Append(s.taken, [row |-> i, role |-> role, policy |-> policy]) ELSE s.taken,
       left |-> s.left \ {i}]
Pass(records, pass, role, policy, full, selected, candidates) ==
  LET after[n \in 0..Cardinality(candidates)] ==
        IF n = 0 THEN [taken |-> selected, left |-> candidates]
        ELSE TakeNext(records, pass, role, policy, full, after[n - 1])
  IN  after[Cardinality(candidates)].taken

select_records(records, role, policy, selected) ==
  LET full == Len(selected) + ROLE_POLICY_QUOTAS[role]
      candidates == candidate_records(records, role, policy, selected)
      capped == Pass(records, "capped", role, policy, full, selected, candidates)
  IN  Pass(records, "free", role, policy, full, capped, candidates)

\* Every policy of one role, then every policy of the other.
Slots == [k \in 1..8 |-> [role |-> IF k <= 4 THEN "failure_target" ELSE "success_sentinel",
                          policy |-> Policies[IF k <= 4 THEN k ELSE k - 4]]]
build_pairs(records) ==
  LET built[k \in 0..8] ==
        IF k = 0 THEN << >>
        ELSE select_records(records, Slots[k].role, Slots[k].policy, built[k - 1])
  IN  built[8]

Trigger(p) == rows[pairs[p].row].prefix
arm_rows == [k \in 1..(2 * Len(pairs)) |->
               <<(k + 1) \div 2, IF k % 2 = 1 THEN "control" ELSE "intervention">>]

Init == /\ rows \in Files
        /\ pairs = << >>
        /\ done = << >>
        /\ run = [pc |-> "idle"]
        /\ summary = << >>
        /\ deaths = 0

build_package_rows == /\ pairs = << >> /\ build_pairs(rows) # << >>
                      /\ pairs' = build_pairs(rows)
                      /\ UNCHANGED <<rows, done, run, summary, deaths>>

-----------------------------------------------------------------------------
(* The hooks *)

\* Of a bridge row: only a treated arm, only at its trigger, only once.
X_should_inject_again(arm, trigger, step, injected) == arm = "intervention" /\ step = trigger
_should_inject_at_step(arm, trigger, step, injected) ==
  ~injected /\ arm = "intervention" /\ step = trigger

\* The cases of the dry run: before the trigger, at it, at it again.
dry_run_phase315_row(arm, trigger) ==
  IF arm = "control" THEN ~_should_inject_at_step(arm, trigger, trigger, FALSE)
  ELSE /\ ~_should_inject_at_step(arm, trigger, IF trigger > 0 THEN trigger - 1 ELSE 0, FALSE)
       /\ _should_inject_at_step(arm, trigger, trigger, FALSE)
       /\ ~_should_inject_at_step(arm, trigger, trigger, TRUE)

POLICY_REQUIRED_REASON_CODES ==
  [required_reason EXCEPT !.insert_validation_checkpoint = {@},
     !.break_recurrence_and_replan = {@, "recurrence_spike", "same_action_family_streak"},
     !.error_observation_recovery = {@}, !.same_action_escape = {@}]
candidate_required_reason_overlap(row, policy) ==
  POLICY_REQUIRED_REASON_CODES[policy] \cap row.reasons

candidate_reference_streak(row) == Max({1, Min({row.streak, 4})})

Recurrent == {"recurrence_spike", "loop_or_duplicate_pattern"}
derive_live_trigger_step(row, policy) ==
  LET overlap == candidate_required_reason_overlap(row, policy)
      least == IF "same_action_family_streak" \in overlap THEN 1
               ELSE IF overlap \cap Recurrent # {} THEN 2 ELSE 3
  IN Min({Max({least, candidate_reference_streak(row)}), Max({1, row.prefix})})

\* The last step of the synthetic window.
synthetic_feature_window(row, policy) ==
  LET trigger == derive_live_trigger_step(row, policy)
  IN Min({Max({trigger + 1, 3}), Max({1, row.prefix, trigger + 1})})

\* The policies against repetition wait for the signature, the others for nothing.
live_predicate_matches(row, policy, step) ==
  LET overlap == candidate_required_reason_overlap(row, policy)
      signature(reasons) == overlap \cap reasons # {}
                            /\ step >= derive_live_trigger_step(row, policy)
  IN CASE policy = "break_recurrence_and_replan" ->
            row.state_class /\ signature(Recurrent \cup {"same_action_family_streak"})
       [] policy = "same_action_escape" -> signature({"same_action_family_streak"})
       [] OTHER -> overlap # {}

\* The steps at which the live-feature hook injects over the window: the first match.
dry_run_phase316_candidate(row, policy) ==
  LET matches == {s \in 1..synthetic_feature_window(row, policy) :
                    live_predicate_matches(row, policy, s)}
  IN IF matches = {} THEN {} ELSE {Min(matches)}

-----------------------------------------------------------------------------
(* A batch *)

completed_resumable_state_keys == DOMAIN done
filter_pending_arms ==
  {k \in DOMAIN arm_rows : arm_rows[k] \notin completed_resumable_state_keys}

trigger_reachable_under_call_limit(trigger) == CallLimit = 0 \/ trigger <= CallLimit

\* The first arm that is pending is started, from the beginning.
start_arm == /\ run.pc = "idle" /\ filter_pending_arms # {}
             /\ run' = [pc |-> "runs", arm |-> arm_rows[Min(filter_pending_arms)], step |-> 0,
                        calls |-> 0, hits |-> << >>]
             /\ UNCHANGED <<rows, pairs, done, summary, deaths>>

\* The hook sees every query; the model's answer is an action, which adds a step, or is
\* not understood, and the query is made again.  The call over the limit ends the run.
on_model_query ==
  /\ run.pc = "runs" /\ run.step <= MaxSteps /\ run.calls <= MaxSteps
  /\ CallLimit = 0 \/ run.calls <= CallLimit
  /\ LET trigger == Trigger(run.arm[1])
         hit == _should_inject_at_step(run.arm[2], trigger, run.step, run.hits # << >>)
     IN \E understood \in BOOLEAN :
          run' = [run EXCEPT !.hits = IF hit THEN Append(@, run.step) ELSE @,
                             !.calls = @ + 1, !.step = IF understood THEN @ + 1 ELSE @]
  /\ UNCHANGED <<rows, pairs, done, summary, deaths>>

complete_arm == /\ run.pc = "runs" /\ run.calls > 0
                /\ done' = [a \in DOMAIN done \cup {run.arm} |->
                              IF a = run.arm THEN [hits |-> run.hits, step |-> run.step]
                              ELSE done[a]]
                /\ run' = [pc |-> "idle"]
                /\ UNCHANGED <<rows, pairs, summary, deaths>>

\* A run that dies leaves no completed event.
arm_dies == /\ run.pc = "runs" /\ deaths < MaxDeaths
            /\ deaths' = deaths + 1
            /\ run' = [pc |-> "idle"]
            /\ UNCHANGED <<rows, pairs, done, summary>>

-----------------------------------------------------------------------------
(* Evaluation *)

\* A missing report of an empty patch counts as unresolved.
summarize_official_report(r) ==
  IF r.file THEN [completed |-> r.payload, resolved |-> IF r.payload THEN r.resolved ELSE None,
                  applied |-> r.payload /\ r.applied]
  ELSE [completed |-> r.empty, resolved |-> IF r.empty THEN FALSE ELSE None, applied |-> FALSE]

effect_summary(control, intervention) ==
  IF control = None \/ intervention = None THEN "pending_or_incomplete"
  ELSE IF control = intervention THEN IF control THEN "both_resolved" ELSE "both_unresolved"
  ELSE IF intervention THEN "intervention_only" ELSE "control_only"

\* A row of the pair summary: attributable when the message was injected once.
PairSummary(p, control, intervention) ==
  LET once == Len(done[<<p, "intervention">>].hits) = 1
      c == summarize_official_report(control)
      t == summarize_official_report(intervention)
  IN [pair |-> p, scope |-> IF once THEN "main" ELSE "secondary",
      once |-> once, eligible |-> once,
      label |-> IF once THEN effect_summary(c.resolved, t.resolved)
                ELSE "secondary_audit_no_treatment_attribution",
      control |-> c.resolved, intervention |-> t.resolved,
      completed |-> c.completed /\ t.completed, applied |-> c.applied /\ t.applied]

\* Pairs are evaluated in the order of the plan, while later arms are still run.
evaluate ==
  /\ LET p == Len(summary) + 1
     IN /\ p \in DOMAIN pairs /\ {<<p, "control">>, <<p, "intervention">>} \subseteq DOMAIN done
        /\ \E control, intervention \in ArmReports :
             summary' = Append(summary, PairSummary(p, control, intervention))
  /\ UNCHANGED <<rows, pairs, done, run, deaths>>

Next == \/ build_package_rows \/ start_arm \/ on_model_query \/ complete_arm \/ arm_dies
        \/ evaluate

Spec == Init /\ [][Next]_vars

-----------------------------------------------------------------------------
(* Attribution *)

MAIN_LABELS == {"both_resolved", "both_unresolved", "intervention_only", "control_only"}

X_any_label(row) ==
  IF row.scope = "main" /\ row.once /\ row.eligible THEN "main_treatment"
  ELSE IF row.scope = "secondary" /\ ~row.once THEN "trigger_miss" ELSE "invalid"
classify_pair_summary(row) ==
  IF row.scope = "main" /\ row.once /\ row.eligible /\ row.label \in MAIN_LABELS
  THEN "main_treatment"
  ELSE IF row.scope = "secondary" /\ ~row.once
          /\ row.label = "secondary_audit_no_treatment_attribution" THEN "trigger_miss"
  ELSE "invalid"

\* Rows by scope (split_pair_rows) and by class (_main_rows), and how many have a label.
MainScope(s) == {i \in DOMAIN s : s[i].scope = "main"}
MainClass(s) == {i \in DOMAIN s : classify_pair_summary(s[i]) = "main_treatment"}
Labelled(s, main, label) == Cardinality({i \in main : s[i].label = label})

\* Counts of the rows in main scope, classified or not.
attribute_pair_summaries(s) ==
  LET main == MainScope(s)
  IN [pairs |-> Len(s), main |-> Cardinality(main),
      positive |-> Labelled(s, main, "intervention_only"),
      negative |-> Labelled(s, main, "control_only"),
      delta |-> Cardinality({i \in main : s[i].intervention = TRUE})
                - Cardinality({i \in main : s[i].control = TRUE}),
      invalid |-> Cardinality({i \in DOMAIN s : classify_pair_summary(s[i]) = "invalid"})]

allow_continue_batch2(a) == a.main >= 1 /\ a.negative <= a.positive

closed_loop_ready(s) ==
  LET a == attribute_pair_summaries(s)
  IN a.main > 0 /\ a.invalid = 0 /\ a.delta >= 0 /\ build_pairs(rows) # << >>

-----------------------------------------------------------------------------
(* Stability and readiness *)

stability_gates(s) ==
  LET a == attribute_pair_summaries(s)
  IN /\ \A i \in DOMAIN s : s[i].completed
     /\ Len(s) \in MinPairs..MaxPairs
     /\ a.invalid = 0
     /\ MainClass(s) # {} /\ \A i \in MainClass(s) : s[i].applied
     /\ Labelled(s, MainClass(s), "control_only") = 0
     /\ a.delta >= 0

\* By the gates no pair is negative, so that the review is never asked for.
stability_decision(s) ==
  IF ~stability_gates(s) THEN "blocked"
  ELSE IF Cardinality(MainClass(s)) < MainTarget THEN "probe_needs_more_main_pairs"
  ELSE IF Labelled(s, MainClass(s), "control_only") > Labelled(s, MainClass(s), "intervention_only")
    THEN "negative_risk_review_required"
  ELSE "small_batch_ready_for_expansion"

allow_next_small_batch(s) ==
  /\ stability_gates(s)
  /\ Labelled(s, MainClass(s), "intervention_only") >= Labelled(s, MainClass(s), "control_only")

\* From a stability report of s and the dry run of the live-feature hook on the
\* candidates: with the reports made elsewhere in order, as many injections as rows.
Injections ==
  UNION {{<<p, step>> : step \in dry_run_phase316_candidate(rows[pairs[p].row], pairs[p].policy)} :
           p \in DOMAIN pairs}
readiness_gates(s) ==
  /\ allow_next_small_batch(s)
  /\ pairs # << >>
  /\ Cardinality(Injections) = Len(pairs)

-----------------------------------------------------------------------------
(* Properties *)

\* The package: no slot exceeds its quota or stays short while a task it could take is
\* free, and no task is paired under two slots, so that an arm of one policy is never
\* also evidence for another (planner.py: select_records, build_pairs).
PlanIsFair ==
  LET of(role, policy) == {k \in DOMAIN pairs : pairs[k].role = role /\ pairs[k].policy = policy}
      tasks == {rows[pairs[k].row].task : k \in DOMAIN pairs}
  IN /\ pairs # << >> => \A r \in Roles, c \in Range(Policies) :
          /\ Cardinality(of(r, c)) <= ROLE_POLICY_QUOTAS[r]
          /\ Cardinality(of(r, c)) < ROLE_POLICY_QUOTAS[r] =>
               \A i \in Slot(rows, r, c) : rows[i].task \in tasks
     /\ \A j, k \in DOMAIN pairs : j # k =>
          /\ pairs[j].row # pairs[k].row
          /\ rows[pairs[j].row].task = rows[pairs[k].row].task =>
               pairs[j].role = pairs[k].role /\ pairs[j].policy = pairs[k].policy

\* However queries are repeated and runs die and start again, a control arm is never
\* injected, a treated arm exactly once and at its trigger if it gets there, as the dry
\* run of its row says, and never if the plan calls its trigger out of reach (hooks.py:
\* StaticPrefixHook; runner.py: trigger_reachable_under_call_limit).
HooksFireOnTime ==
  LET InOrder(a, r, queried) ==
        /\ r.hits = IF a[2] = "intervention" /\ queried > Trigger(a[1])
                    THEN <<Trigger(a[1])>> ELSE r.hits
        /\ r.hits # << >> => /\ r.hits = <<Trigger(a[1])>> /\ a[2] = "intervention"
                             /\ trigger_reachable_under_call_limit(Trigger(a[1]))
                             /\ Trigger(a[1]) > 0 => dry_run_phase315_row(a[2], Trigger(a[1]))
  IN /\ \A a \in DOMAIN done : InOrder(a, done[a], done[a].step)
     /\ run.pc = "runs" => InOrder(run.arm, run, run.step)

\* What may be continued rests on pairs that were treated, evaluated and did no net harm,
\* counted by label or by outcome alike; stability allows no more than the closed loop;
\* and a candidate passes the readiness gate only if its live hook fires, for the
\* policies against repetition not before the derived step (closed_loop.py:
\* closed_loop_gates, stability.py: stability_gates, batch_readiness.py: readiness_gates).
ReadyIsTreated ==
  \A n \in 1..Len(summary) :
    LET s == SubSeq(summary, 1, n)
        treated == {i \in DOMAIN s : Len(done[<<s[i].pair, "intervention">>].hits) = 1}
        uplift == {i \in treated : s[i].intervention = TRUE /\ s[i].control = FALSE}
        harm == {i \in treated : s[i].control = TRUE /\ s[i].intervention = FALSE}
    IN /\ closed_loop_ready(s) =>
            /\ treated # {} /\ \A i \in treated : None \notin {s[i].control, s[i].intervention}
            /\ Cardinality(harm) <= Cardinality(uplift)
            /\ allow_continue_batch2(attribute_pair_summaries(s))
       /\ allow_next_small_batch(s) => harm = {} /\ closed_loop_ready(s)
       /\ stability_decision(s) # "negative_risk_review_required"
       /\ readiness_gates(s) => \A p \in DOMAIN pairs :
            LET row == rows[pairs[p].row]
            IN \E step \in dry_run_phase316_candidate(row, pairs[p].policy) :
                 pairs[p].policy \in {"break_recurrence_and_replan", "same_action_escape"} =>
                   step = derive_live_trigger_step(row, pairs[p].policy)
=============================================================================
