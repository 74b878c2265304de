------------------------------ MODULE V1Chain ------------------------------
(***************************************************************************)
(* The stages before a Protocol v1 pair is executed.  Pairs whose official *)
(* evaluation showed no uplift are diagnosed; a plan prescribes constraints *)
(* for each (intervention/protocol_v1); the dry run checks the plan         *)
(* (protocol_v1_dry_run), the adapter preflight checks that an adapter can  *)
(* enforce it (adapters/sweagent_protocol_v1_preflight), the hook preflight *)
(* tries the constraint hook on scripted actions                            *)
(* (protocol_v1_hook_preflight), and the fresh-candidate gate selects pairs *)
(* that were not diagnosed (protocol_v1_fresh_candidates).                  *)
(*                                                                         *)
(* Every stage is a command on files: it reads the plan as it is now and    *)
(* the report of the stage before, whatever plan that was made of.  What is *)
(* wrong with a row or with the plan's head is a set of faults.             *)
(***************************************************************************)
EXTENDS Integers, Sequences, FiniteSets, SequencesExt

CONSTANTS Pairs, TaskOf,     \* pair ids and the task of each
          Classes,           \* no_uplift_classification of a diagnosed pair
          RefLists,          \* what the eligible-refs file may hold
          V1TargetPairs,     \* target_pair_count
          MaxRows, MaxFaults \* bounds: diagnosed pairs; faults a plan is given by hand

VARIABLES diagnosis,   \* no-uplift diagnosis: rows [pair, class]
          plan,        \* the plan file
          v1_dry, adapter, hook,  \* the reports of the three stages
          fresh        \* the fresh-candidate report; cleared when its inputs change

v1_vars == <<diagnosis, plan, v1_dry, adapter, hook, fresh>>

-----------------------------------------------------------------------------
(* The prescriptions *)

PRESCRIPTION_CONSTRAINTS ==
  [targeted_failure_oracle |->
     {"materialize_prefix_observed_failure", "block_edit_until_failure_reproduced_or_explained",
      "require_post_patch_target_recheck"},
   regression_guarded_patch_validation |->
     {"require_post_patch_target_recheck", "require_post_patch_guard_recheck",
      "block_submit_on_guard_regression"}]

NO_UPLIFT_CLASSIFICATION_TO_PRESCRIPTION ==
  [behavior_diverged_but_target_failure_persisted |-> "targeted_failure_oracle",
   target_fixed_but_regression_not_controlled |-> "regression_guarded_patch_validation"]

\* "protocol" is anything from_dict raises on: an executable key, another version,
\* trigger or action type, a constraint unknown or missing, a guard switched on.
RowFaults == {"protocol", "hash", "same_pair_eligible", "oracle_source", "no_analysis_tests"}
HeadFaults == {"decision", "pair_count", "positive_claim"}

Valid(row) == "protocol" \notin row.faults
Free(p, fault) == \A i \in DOMAIN p.rows : fault \notin p.rows[i].faults

NoPlan == [rows |-> << >>, faults |-> {"decision"}]
NoReport == [passed |-> FALSE, same |-> FALSE]
NoAdapterReport == [passed |-> FALSE, config |-> FALSE, same |-> FALSE]
NoV1Fresh == [decision |-> "none", passed |-> FALSE, rows |-> {}]

V1ChainInit == /\ diagnosis = << >>
               /\ plan = NoPlan
               /\ v1_dry = NoReport /\ adapter = NoAdapterReport /\ hook = NoReport
               /\ fresh = NoV1Fresh

\* same: the report was made of the plan as it stands, from reports that were too.
PlanChanged == /\ v1_dry' = [v1_dry EXCEPT !.same = FALSE]
               /\ adapter' = [adapter EXCEPT !.same = FALSE]
               /\ hook' = [hook EXCEPT !.same = FALSE]
               /\ fresh' = NoV1Fresh

\* Another evaluated pair is diagnosed.
diagnose == /\ Len(diagnosis) < MaxRows
            /\ \E p \in Pairs \ {diagnosis[i].pair : i \in DOMAIN diagnosis}, c \in Classes :
                  diagnosis' = Append(diagnosis, [pair |-> p, class |-> c])
            /\ fresh' = NoV1Fresh
            /\ UNCHANGED <<plan, v1_dry, adapter, hook>>

\* A row of a class without a prescription raises and no plan is written.
build_protocol_v1_plan ==
  /\ \A i \in DOMAIN diagnosis :
        diagnosis[i].class \in DOMAIN NO_UPLIFT_CLASSIFICATION_TO_PRESCRIPTION
  /\ plan' = [rows |-> [i \in DOMAIN diagnosis |->
                 [pair |-> diagnosis[i].pair, faults |-> {},
                  prescription |-> NO_UPLIFT_CLASSIFICATION_TO_PRESCRIPTION[diagnosis[i].class]]],
              faults |-> {}]
  /\ PlanChanged
  /\ UNCHANGED diagnosis

\* The plan is a file a person may edit before the next command.
FaultCount(p) == Cardinality(p.faults)
                 + FoldLeft(LAMBDA n, row : n + Cardinality(row.faults), 0, p.rows)
edit_plan ==
  /\ FaultCount(plan) < MaxFaults
  /\ \/ \E i \in DOMAIN plan.rows, f \in RowFaults :
           plan' = [plan EXCEPT !.rows[i].faults = @ \cup {f}]
     \/ \E f \in HeadFaults : plan' = [plan EXCEPT !.faults = @ \cup {f}]
  /\ plan' # plan
  /\ PlanChanged
  /\ UNCHANGED diagnosis

-----------------------------------------------------------------------------
(* Dry run and adapter preflight *)

HeadIsExpected(p) == p.faults = {} /\ p.rows # << >>

\* The row gates; a row from_dict refuses fails its hash gate too.
protocol_v1_dry_run_gates(p) ==
  HeadIsExpected(p) /\ \A f \in RowFaults : Free(p, f)

write_protocol_v1_dry_run_evidence ==
  /\ v1_dry' = [passed |-> protocol_v1_dry_run_gates(plan), same |-> TRUE]
  /\ UNCHANGED <<diagnosis, plan, adapter, hook, fresh>>

\* Neither the hash nor the analysis tests are looked at again.
X_dry_ignored_gates(p, d, config) ==
  HeadIsExpected(p) /\ config /\ \A f \in {"protocol", "same_pair_eligible", "oracle_source"} : Free(p, f)
sweagent_protocol_v1_preflight_gates(p, d, config) ==
  /\ d.passed
  /\ HeadIsExpected(p)
  /\ config
  /\ \A f \in {"protocol", "same_pair_eligible", "oracle_source"} : Free(p, f)

\* The RunSingle config may be missing (gate run_single_config_exists).
write_sweagent_protocol_v1_preflight_evidence ==
  /\ \E config \in BOOLEAN :
        adapter' = [passed |-> sweagent_protocol_v1_preflight_gates(plan, v1_dry, config),
                    config |-> config, same |-> v1_dry.same]
  /\ UNCHANGED <<diagnosis, plan, v1_dry, hook, fresh>>

-----------------------------------------------------------------------------
(* The constraint hook on a script of actions *)

\* seen: the flags of the runtime state that are set, "failed" (failure_materialized),
\* "patched", "target" and "guard" (rechecked after the patch), "regressed".
Hook(seen, blocked) == [seen |-> seen, blocked |-> blocked]
HookStart == Hook({}, << >>)

\* The constraint that blocks an action, or "" when it is allowed.
_block_reason(constraints, seen, family) ==
  LET Unless(c, flag) == c \in constraints /\ flag \notin seen
  IN IF family = "edit" /\ Unless("block_edit_until_failure_reproduced_or_explained", "failed")
       THEN "block_edit_until_failure_reproduced_or_explained"
     ELSE IF family # "submit" \/ "patched" \notin seen THEN ""
     ELSE IF Unless("require_post_patch_target_recheck", "target")
       THEN "require_post_patch_target_recheck"
     ELSE IF Unless("require_post_patch_guard_recheck", "guard")
       THEN "require_post_patch_guard_recheck"
     ELSE IF "block_submit_on_guard_regression" \in constraints /\ "regressed" \in seen
       THEN "block_submit_on_guard_regression"
     ELSE ""

before_action(constraints, s, family) ==
  LET reason == _block_reason(constraints, s.seen, family)
  IN IF reason = "" THEN s ELSE Hook(s.seen, Append(s.blocked, reason))

\* What is seen after an observation.
\* result: "failure", "regression" (a failure as well) or "passed".
Noted(seen, family, result) ==
  seen
  \cup (IF family = "edit" THEN {"patched"} ELSE {})
  \cup (IF family \in {"target", "guard"} /\ result # "passed" THEN {"failed"} ELSE {})
  \cup (IF family \in {"target", "guard"} /\ "patched" \in seen THEN {family} ELSE {})
  \cup (IF family = "guard" /\ result = "regression" THEN {"regressed"} ELSE {})
X_after_action_no_recheck(s, family, result) ==
  Hook(Noted(s.seen, family, result)
       \cup (IF family \in {"target", "guard"} /\ "patched" \in s.seen THEN {"target", "guard"} ELSE {}),
       s.blocked)
after_action(s, family, result) == Hook(Noted(s.seen, family, result), s.blocked)

Try(family) == [after |-> FALSE, family |-> family, result |-> "passed"]
Do(family, result) == [after |-> TRUE, family |-> family, result |-> result]

harness_step(constraints, s, e) ==
  IF e.after THEN after_action(s, e.family, e.result) ELSE before_action(constraints, s, e.family)

_targeted_harness ==
  <<Try("edit"), Try("target"), Do("target", "failure"), Try("edit"), Do("edit", "passed"),
    Try("submit"), Try("target"), Do("target", "passed"), Try("submit")>>
_regression_harness ==
  <<Try("edit"), Do("edit", "passed"), Try("submit"), Try("target"), Do("target", "passed"),
    Try("submit"), Try("guard"), Do("guard", "regression"), Try("submit")>>

\* The hook after the first n steps of a harness.
Hooked(constraints, harness, n) ==
  LET hooked[k \in 0..n] ==
        IF k = 0 THEN HookStart ELSE harness_step(constraints, hooked[k - 1], harness[k])
  IN  hooked[n]

\* The constraints the hook of a prescription blocks on, in order.
Blocked ==
  [name \in DOMAIN PRESCRIPTION_CONSTRAINTS |->
     LET harness == IF name = "targeted_failure_oracle" THEN _targeted_harness ELSE _regression_harness
     IN  Hooked(PRESCRIPTION_CONSTRAINTS[name], harness, Len(harness)).blocked]

\* An invalid row has no hook.
protocol_v1_hook_preflight_events(row) ==
  IF Valid(row) THEN Blocked[row.prescription] ELSE << >>

\* The blocks on a constraint, each by its row and its place among the events of the row.
Blocks(p, constraint) ==
  UNION {LET events == protocol_v1_hook_preflight_events(p.rows[i])
         IN  {<<i, k>> : k \in {j \in DOMAIN events : events[j] = constraint}} : i \in DOMAIN p.rows}
_event_count(p, constraint) == Cardinality(Blocks(p, constraint))

\* Counts over all rows against counts of prescriptions; the events of an
\* invalid row do not say that official identifiers are invisible.
protocol_v1_hook_preflight_gates(p, a) ==
  LET Prescribed(name) == Cardinality({i \in DOMAIN p.rows : p.rows[i].prescription = name})
  IN /\ a.passed
     /\ "decision" \notin p.faults
     /\ p.rows # << >>
     /\ _event_count(p, "block_edit_until_failure_reproduced_or_explained")
          >= Prescribed("targeted_failure_oracle")
     /\ _event_count(p, "require_post_patch_target_recheck") >= Len(p.rows)
     /\ _event_count(p, "require_post_patch_guard_recheck")
          >= Prescribed("regression_guarded_patch_validation")
     /\ _event_count(p, "block_submit_on_guard_regression")
          >= Prescribed("regression_guarded_patch_validation")
     /\ \A i \in DOMAIN p.rows : Valid(p.rows[i])

write_protocol_v1_hook_preflight_evidence ==
  /\ hook' = [passed |-> protocol_v1_hook_preflight_gates(plan, adapter), same |-> adapter.same]
  /\ UNCHANGED <<diagnosis, plan, v1_dry, adapter, fresh>>

-----------------------------------------------------------------------------
(* The fresh-candidate gate *)

\* Pairs and tasks named by the plan or by the diagnosis.
UsedPairs == {plan.rows[i].pair : i \in DOMAIN plan.rows}
             \cup {diagnosis[i].pair : i \in DOMAIN diagnosis}
_is_used(row) == row.pair \in UsedPairs \/ TaskOf[row.pair] \in {TaskOf[p] : p \in UsedPairs}

select_protocol_v1_fresh_candidates(refs) ==
  SelectSeq(refs, LAMBDA row : row.eligible /\ row.risk_allowed /\ ~_is_used(row))

\* ready: the pool report has the expected decision and counts these refs.
protocol_v1_fresh_candidate_report(refs, ready) ==
  LET rows == select_protocol_v1_fresh_candidates(refs)
      targets == SelectSeq(rows, LAMBDA row : row.role = "failure_target")
  IN [passed |-> rows # << >> /\ ready,
      rows |-> Range(rows),
      decision |-> IF rows = << >> THEN "blocked_no_fresh_candidates"
                   ELSE IF Len(targets) >= V1TargetPairs THEN "ready_for_full_batch"
                   ELSE "ready_limited"]

write_protocol_v1_fresh_candidate_evidence ==
  /\ \E refs \in RefLists, ready \in BOOLEAN :
        fresh' = protocol_v1_fresh_candidate_report(refs, ready)
  /\ UNCHANGED <<diagnosis, plan, v1_dry, adapter, hook>>

V1ChainNext == \/ diagnose \/ build_protocol_v1_plan \/ edit_plan
               \/ write_protocol_v1_dry_run_evidence
               \/ write_sweagent_protocol_v1_preflight_evidence
               \/ write_protocol_v1_hook_preflight_evidence
               \/ write_protocol_v1_fresh_candidate_evidence

V1ChainSpec == V1ChainInit /\ [][V1ChainNext]_v1_vars

-----------------------------------------------------------------------------
(* Properties *)

\* What the three stages promise of a plan: its rows are valid, hashed and bounded,
\* and the hook was seen to block, for that very row, on every constraint of its
\* prescription that can block.
Prepared(p) ==
  /\ p.faults = {} /\ p.rows # << >>
  /\ \A i \in DOMAIN p.rows :
       /\ p.rows[i].faults = {}
       /\ PRESCRIPTION_CONSTRAINTS[p.rows[i].prescription]
            \ {"materialize_prefix_observed_failure"}
          \subseteq Range(protocol_v1_hook_preflight_events(p.rows[i]))

\* A hook preflight that passes at the end of a chain made of one plan means that the
\* whole plan is prepared, although each stage looks at some of the gates only, trusts
\* the report it is given for the rest and counts blocked actions over all rows
\* (protocol_v1_hook_preflight.py: protocol_v1_hook_preflight_gates).
PassedChainIsPrepared == hook.passed /\ hook.same => Prepared(plan)

\* And no later stage refuses what the dry run accepted, although its gates are
\* other ones: the plan that is built of a diagnosis passes the dry run; of a plan
\* that did, the adapter preflight fails for want of a config and for nothing else,
\* and a hook preflight made from one that passed passes too.
StageAgrees ==
  /\ build_protocol_v1_plan /\ diagnosis # << >> => protocol_v1_dry_run_gates(plan')
  /\ write_sweagent_protocol_v1_preflight_evidence /\ v1_dry.same /\ v1_dry.passed =>
        adapter'.passed = adapter'.config
  /\ write_protocol_v1_hook_preflight_evidence /\ adapter.same /\ adapter.passed => hook'.passed
NoStageDisagrees == [][StageAgrees]_v1_vars
=============================================================================
