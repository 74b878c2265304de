----------------------------- MODULE LiveSingle -----------------------------
(***************************************************************************)
(* One live-single arm of Protocol v1 or v2: run_sweagent_protocol_v1_live_ *)
(* single and ..._v2_... (clinic adapters/) with the model that replays a  *)
(* recorded prefix and then delegates to the live one                      *)
(* (intervention/hybrid_runner.py) and the hook that judges every action   *)
(* (intervention/protocol_v1_hook.py, protocol_v2_hook.py).  SWE-agent     *)
(* itself is external: it queries the model, may ask again when an output  *)
(* holds no action it can parse, calls the hook before and after each      *)
(* action, and may swallow what a hook raises.                             *)
(***************************************************************************)
EXTENDS Naturals, Sequences, FiniteSets

CONSTANTS Specs,        \* [protocol, arm, execute, ack, config, replay, allow_empty, observe,
                        \*  steps, limit]
          Swallows      \* may SWE-agent swallow the hook's exception?

\* spec.limit bounds the queries of a run, as SWE-agent's call limit does.

VARIABLES spec, live_pc,
          model,        \* [query_count, events]: HybridReplayGenerationModel
          live_hook,         \* ProtocolV2RuntimeState and audit_events
          act,          \* the action SWE-agent is at, and whether the live model made it
          run_error, constraint_block_event, run_single_started, attached,
          log,          \* actions executed, with what was observed
          arm_report

live_vars == <<spec, live_pc, model, live_hook, act, run_error, constraint_block_event,
               run_single_started, attached, log, arm_report>>

-----------------------------------------------------------------------------
(* The token tests, on classes of commands.  A command may be of several   *)
(* classes: apply_patch with a test run behind it, grep in a test log,     *)
(* pytest on a regression test.                                            *)

Actions == {"submit", "edit", "check", "other", "edit_check"} \cup
           (IF spec.protocol = "v1" THEN {"guard", "check_guard"} ELSE {"broaden", "check_broaden"})

IsSubmit(a) == a = "submit"
IsEdit(a) == a \in {"edit", "edit_check"}
IsCheck(a) == a \in {"check", "edit_check", "check_broaden", "check_guard"}
IsGuard(a) == a \in {"guard", "check_guard"}
IsBroadening(a) == a \in {"broaden", "check_broaden"}

action_family(a) == CASE IsSubmit(a)     -> "submit"
                      [] IsEdit(a)       -> "source_edit"
                      [] IsGuard(a)      -> "guard_check"
                      [] IsCheck(a) /\ ~IsGuard(a) -> "target_check"
                      [] IsBroadening(a) /\ ~IsCheck(a) -> "context_broadening"
                      [] OTHER           -> "other"

HookInit == [failed |-> FALSE, broadened |-> FALSE, patched |-> FALSE, rechecked |-> FALSE,
             guarded |-> FALSE, regressed |-> FALSE,
             family |-> "none", streak |-> 0, index |-> 0, events |-> << >>]

\* The constraints of the prescription that an action violates: those of v1, ...
Violates_v1(h, a) ==
  LET violated(c) ==
        CASE c = "block_edit_until_failure_reproduced_or_explained" -> IsEdit(a) /\ ~h.failed
          [] c = "require_post_patch_target_recheck" -> IsSubmit(a) /\ h.patched /\ ~h.rechecked
          [] c = "require_post_patch_guard_recheck" -> IsSubmit(a) /\ h.patched /\ ~h.guarded
          [] c = "block_submit_on_guard_regression" -> IsSubmit(a) /\ h.patched /\ h.regressed
          [] OTHER -> FALSE      \* materialize_prefix_observed_failure is not the hook's
  IN  {c \in spec.steps : violated(c)}

\* ... and those of v2.
Violates_v2(h, a) ==
  LET violated(c) ==
        CASE c = "interrupt_repeated_failure_loop" ->
               action_family(a) = h.family /\ h.streak >= 3 /\ ~IsBroadening(a)
          [] c = "require_explicit_failure_reproduction" -> IsEdit(a) /\ ~h.failed
          [] c = "require_alternative_hypothesis_before_next_patch" -> IsEdit(a) /\ ~h.broadened
          [] c = "require_targeted_post_patch_recheck" ->
               IsSubmit(a) /\ h.patched /\ ~h.rechecked
  IN  {c \in spec.steps : violated(c)}

Violates(h, a) == IF spec.protocol = "v1" THEN Violates_v1(h, a) ELSE Violates_v2(h, a)

in_replay_prefix(h) == h.index < Len(spec.replay)

blocked(h, a) == ~in_replay_prefix(h) /\ Violates(h, a) # {} /\ ~spec.observe

would_have_blocked(h, a) == ~in_replay_prefix(h) /\ Violates(h, a) # {} /\ spec.observe

before_action(h, a) ==
  [h EXCEPT !.events = Append(@, [event |-> "before", blocked |-> blocked(h, a),
                                  would |-> would_have_blocked(h, a)]),
            !.index = @ + 1]

Observed == [event |-> "after", blocked |-> FALSE, would |-> FALSE]

\* Mutant: a clean guard check takes an earlier regression back.
after_action_v1_Clears(h, a, seen) ==
  LET patched == h.patched \/ IsEdit(a)
  IN  [h EXCEPT !.failed = @ \/ (IsCheck(a) /\ seen.failing),
                !.patched = patched,
                !.rechecked = @ \/ (patched /\ IsCheck(a) /\ ~IsGuard(a)),
                !.guarded = @ \/ (patched /\ IsGuard(a)),
                !.regressed = IF IsGuard(a) THEN seen.regression ELSE @,
                !.events = Append(@, Observed)]

after_action_v1(h, a, seen) ==
  LET patched == h.patched \/ IsEdit(a)
  IN  [h EXCEPT !.failed = @ \/ (IsCheck(a) /\ seen.failing),
                !.patched = patched,
                !.rechecked = @ \/ (patched /\ IsCheck(a) /\ ~IsGuard(a)),
                !.guarded = @ \/ (patched /\ IsGuard(a)),
                !.regressed = @ \/ (IsGuard(a) /\ seen.regression),
                !.events = Append(@, Observed)]

\* Mutant: a failure counts whatever action showed it.
after_action_v2_AnyFailure(h, a, seen) ==
  [h EXCEPT !.streak = IF action_family(a) = h.family THEN @ + 1 ELSE 1,
            !.family = action_family(a),
            !.failed = @ \/ seen.failing,
            !.broadened = @ \/ ((h.failed \/ seen.failing) /\ IsBroadening(a)),
            !.patched = @ \/ IsEdit(a),
            !.rechecked = @ \/ ((h.patched \/ IsEdit(a)) /\ IsCheck(a)),
            !.events = Append(@, Observed)]

after_action_v2(h, a, seen) ==
  LET failed == h.failed \/ (IsCheck(a) /\ seen.failing)
  IN  [h EXCEPT !.streak = IF action_family(a) = h.family THEN @ + 1 ELSE 1,
                !.family = action_family(a),
                !.failed = failed,
                !.broadened = @ \/ (failed /\ IsBroadening(a)),
                !.patched = @ \/ IsEdit(a),
                !.rechecked = @ \/ ((h.patched \/ IsEdit(a)) /\ IsCheck(a)),
                !.events = Append(@, Observed)]

after_action(h, a, seen) ==
  IF spec.protocol = "v1" THEN after_action_v1(h, a, seen) ELSE after_action_v2(h, a, seen)

-----------------------------------------------------------------------------
NoLiveReport == [decision |-> "none", passed |-> FALSE, allow |-> FALSE]
NoAction == [cmd |-> "none", live |-> FALSE]

\* Only v2 has arms that start with the first query.
replay_ready == Len(spec.replay) > 0 \/ (spec.protocol = "v2" /\ spec.allow_empty)
should_run == spec.execute /\ spec.ack /\ spec.config /\ replay_ready

hook_attached == attached /\ spec.arm = "treatment"

LiveInit == /\ spec \in Specs
            /\ live_pc = "start"
            /\ model = [query_count |-> 0, events |-> << >>]
            /\ live_hook = HookInit
            /\ act = NoAction
            /\ run_error = FALSE /\ constraint_block_event = FALSE
            /\ run_single_started = FALSE /\ attached = FALSE
            /\ log = << >>
            /\ arm_report = NoLiveReport

\* The spec does not call for a run, or nothing allows one.
skip_live_run == /\ live_pc = "start" /\ ~should_run
                 /\ live_pc' = "report"
                 /\ UNCHANGED <<spec, model, live_hook, act, run_error, constraint_block_event,
                                run_single_started, attached, log, arm_report>>

\* RunSingle could not be built from the config, or has no agent to hook.
factory_fails == /\ live_pc = "start" /\ should_run
                 /\ run_error' = TRUE /\ live_pc' = "report"
                 /\ UNCHANGED <<spec, model, live_hook, act, constraint_block_event,
                                run_single_started, attached, log, arm_report>>

attach == /\ live_pc = "start" /\ should_run
          /\ attached' = TRUE /\ run_single_started' = TRUE /\ live_pc' = "running"
          /\ UNCHANGED <<spec, model, live_hook, act, run_error, constraint_block_event, log,
                         arm_report>>

next_phase == IF model.query_count < Len(spec.replay) THEN "replay" ELSE "generation"

asked(m, phase) == [query_count |-> m.query_count + 1, events |-> Append(m.events, phase)]

\* HybridReplayGenerationModel.query
query ==
  /\ live_pc = "running" /\ model.query_count < spec.limit
  /\ \E a \in Actions :
        /\ next_phase = "replay" => a = spec.replay[model.query_count + 1]
        /\ act' = [cmd |-> a, live |-> next_phase = "generation"]
  /\ model' = asked(model, next_phase)
  /\ live_pc' = "queried"
  /\ UNCHANGED <<spec, live_hook, run_error, constraint_block_event, run_single_started, attached,
                 log, arm_report>>

\* The provider raises, or SWE-agent does.
run_fails == /\ live_pc \in {"running", "queried", "started"}
             /\ run_error' = TRUE /\ live_pc' = "report"
             /\ UNCHANGED <<spec, model, live_hook, act, constraint_block_event,
                            run_single_started, attached, log, arm_report>>

\* SWE-agent finds no action in the output and queries again.
requery == /\ live_pc = "queried"
           /\ live_pc' = "running"
           /\ UNCHANGED <<spec, model, live_hook, act, run_error, constraint_block_event,
                          run_single_started, attached, log, arm_report>>

\* on_action_started, in an arm without the hook.
action_started_control == /\ live_pc = "queried" /\ ~hook_attached
                          /\ live_pc' = "started"
                          /\ UNCHANGED <<spec, model, live_hook, act, run_error, constraint_block_event,
                                         run_single_started, attached, log, arm_report>>

on_action_started ==
  /\ live_pc = "queried" /\ hook_attached /\ ~blocked(live_hook, act.cmd)
  /\ live_hook' = before_action(live_hook, act.cmd)
  /\ live_pc' = "started"
  /\ UNCHANGED <<spec, model, act, run_error, constraint_block_event, run_single_started,
                 attached, log, arm_report>>

\* ProtocolV1ConstraintViolation or ProtocolV2ConstraintViolation reaches the adapter, ...
constraint_violation ==
  /\ live_pc = "queried" /\ hook_attached /\ blocked(live_hook, act.cmd)
  /\ live_hook' = before_action(live_hook, act.cmd)
  /\ constraint_block_event' = TRUE
  /\ live_pc' = "report"
  /\ UNCHANGED <<spec, model, act, run_error, run_single_started, attached, log, arm_report>>

\* ... or SWE-agent swallows it and ends the run.
constraint_swallowed ==
  /\ live_pc = "queried" /\ hook_attached /\ blocked(live_hook, act.cmd) /\ Swallows
  /\ live_hook' = before_action(live_hook, act.cmd)
  /\ live_pc' = "report"
  /\ UNCHANGED <<spec, model, act, run_error, constraint_block_event, run_single_started,
                 attached, log, arm_report>>

\* What the tests on an observation find; only guard actions are asked for regressions.
Observations == [failing : BOOLEAN,
                 regression : IF IsGuard(act.cmd) THEN BOOLEAN ELSE {FALSE}]

\* on_action_executed; a submit ends the run.
on_action_executed ==
  /\ live_pc = "started"
  /\ \E seen \in Observations :
        /\ live_hook' = IF hook_attached THEN after_action(live_hook, act.cmd, seen) ELSE live_hook
        /\ log' = Append(log, [cmd |-> act.cmd, seen |-> seen, live |-> act.live,
                               place |-> model.query_count])
  /\ live_pc' = IF IsSubmit(act.cmd) THEN "report" ELSE "running"
  /\ UNCHANGED <<spec, model, act, run_error, constraint_block_event, run_single_started,
                 attached, arm_report>>

\* Exit without a submission (cost or step limit).
run_exits == /\ live_pc = "running" /\ model.query_count > 0
             /\ live_pc' = "report"
             /\ UNCHANGED <<spec, model, live_hook, act, run_error, constraint_block_event,
                            run_single_started, attached, log, arm_report>>

gates ==
  /\ spec.execute => replay_ready /\ spec.ack /\ run_single_started /\ attached /\ spec.config
  /\ spec.config
  /\ spec.execute /\ spec.arm = "treatment" => hook_attached /\ live_hook.events # << >>
  /\ ~run_error

decision ==
  CASE ~spec.execute                             -> "planned_no_run"
    [] spec.execute /\ ~spec.ack                 -> "blocked_needs_ack"
    [] spec.execute /\ spec.ack /\ ~spec.config  -> "blocked_missing_config"
    [] spec.execute /\ spec.ack /\ spec.config /\ ~replay_ready -> "blocked_missing_replay_actions"
    [] should_run /\ run_error                   -> "run_failed"
    [] should_run /\ ~run_error /\ constraint_block_event -> "constraint_blocked"
    [] should_run /\ ~run_error /\ ~constraint_block_event -> "run_completed"

\* Mutant: a blocked arm may be paired.
arm_complete_Blocked == spec.execute /\ run_single_started /\ ~run_error
live_arm_complete == spec.execute /\ run_single_started /\ ~run_error /\ ~constraint_block_event

write_live_report ==
  /\ live_pc = "report"
  /\ arm_report' = [decision |-> decision, passed |-> gates, allow |-> live_arm_complete /\ gates]
  /\ live_pc' = "done"
  /\ UNCHANGED <<spec, model, live_hook, act, run_error, constraint_block_event,
                 run_single_started, attached, log>>

LiveNext == \/ skip_live_run \/ factory_fails \/ attach \/ query \/ run_fails \/ requery
            \/ action_started_control \/ on_action_started \/ constraint_violation
            \/ constraint_swallowed \/ on_action_executed \/ run_exits \/ write_live_report

LiveSpec == LiveInit /\ [][LiveNext]_live_vars
-----------------------------------------------------------------------------
(* Properties *)

Enforcing == hook_attached /\ ~spec.observe

\* The constraints of the protocols, read off the actions executed so far.
Shown(past, n) == \E j \in 1..n : IsCheck(past[j].cmd) /\ past[j].seen.failing
Patched(past) == \E j \in 1..Len(past) : IsEdit(past[j].cmd)
\* an action of a class C is the first patch or comes after it
Rechecked(past, C(_)) ==
  \E e, k \in 1..Len(past) : e <= k /\ IsEdit(past[e].cmd) /\ C(past[k].cmd)

Meets(s, c, past, a) ==
  LET n == Len(past)
      IsTarget(x) == IsCheck(x) /\ (s.protocol = "v1" => ~IsGuard(x))
      submits == IsSubmit(a) /\ Patched(past)
  IN  CASE c \in {"block_edit_until_failure_reproduced_or_explained",
                  "require_explicit_failure_reproduction"} -> IsEdit(a) => Shown(past, n)
        [] c = "require_alternative_hypothesis_before_next_patch" ->
             IsEdit(a) => \E j \in 1..n : IsBroadening(past[j].cmd) /\ Shown(past, j)
        [] c = "interrupt_repeated_failure_loop" ->
             ~IsBroadening(a) /\ n >= 3 =>
                \E j \in (n - 2)..n : action_family(past[j].cmd) # action_family(a)
        [] c \in {"require_post_patch_target_recheck", "require_targeted_post_patch_recheck"} ->
             submits => Rechecked(past, IsTarget)
        [] c = "require_post_patch_guard_recheck" -> submits => Rechecked(past, IsGuard)
        [] c = "block_submit_on_guard_regression" ->
             submits => \A j \in 1..n : ~(IsGuard(past[j].cmd) /\ past[j].seen.regression)
        [] OTHER -> TRUE

Permitted(s, past, a) == \A c \in s.steps : Meets(s, c, past, a)
Before(i) == SubSeq(log, 1, i - 1)

\* clinic README: the treatment arm replays the prefix, then the hook enforces
\* its constraints on post-replay generation.  While every output so far held an
\* action, so that the hook counts as the model does, no action of the live
\* model escapes them.
GenerationIsConstrained ==
  Enforcing /\ (\A i \in 1..Len(log) : log[i].place = i) =>
     \A i \in 1..Len(log) : log[i].live => Permitted(spec, Before(i), log[i].cmd)

\* The flags the hook keeps say of the past what the constraints ask of it, no
\* more and no less: the i-th action is blocked, or would have been, exactly if
\* it is past the prefix and the actions executed before it do not permit it.
\* (The hook sees action i in the event before it, number 2 * i - 1.)
JudgedOnThePast ==
  hook_attached =>
     \A i \in 1..(Len(log) + 1) : 2 * i - 1 <= Len(live_hook.events) =>
        LET event == live_hook.events[2 * i - 1]
            cmd == IF i <= Len(log) THEN log[i].cmd ELSE act.cmd
            bars == i > Len(spec.replay) /\ ~Permitted(spec, Before(i), cmd)
        IN  event.blocked = (bars /\ ~spec.observe) /\ event.would = (bars /\ spec.observe)

\* What an arm that is allowed into pair assembly guarantees.  Its model replayed
\* the whole prefix before it was delegated to; the hook saw a treatment arm and no
\* control arm.  It may hide a block that SWE-agent swallowed (BlockIsReported): then
\* the block was the end of the run, and the action it forbade was not executed.
AssemblyIsSound ==
  arm_report.allow =>
     /\ \A i \in 1..Len(model.events) : (model.events[i] = "replay") <=> (i <= Len(spec.replay))
     /\ (spec.arm = "treatment") <=> (live_hook.events # << >>)
     /\ \A i \in 1..Len(live_hook.events) :
           live_hook.events[i].blocked =>
              Swallows /\ i = Len(live_hook.events) /\ i = 2 * Len(log) + 1
     /\ arm_report.decision = "run_completed"

\* The adapters' BOUNDARY: "A constraint block is reported as hook enforcement".
\* An arm in which the hook blocked an action is not reported as completed.
BlockIsReported ==
  arm_report.decision = "run_completed" =>
     \A i \in 1..Len(live_hook.events) : ~live_hook.events[i].blocked
=============================================================================
