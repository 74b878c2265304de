---------------------------- MODULE CapsulePair ----------------------------
(***************************************************************************)
(* A Protocol v0 pair with state capsules (Phases 5 and 6).  The preflight *)
(* (adapters/sweagent_live_preflight.py) executes a control arm and then a *)
(* treatment arm on one SWE-agent configuration                            *)
(* (sweagent_live.py, with the hook of intervention/hybrid_runner.py),     *)
(* assembles the pair (sweagent_live_pair.py), and the Phase 6 evaluation  *)
(* (sweagent_phase6_official_eval.py, sweagent_official_pair.py) labels it.*)
(* Each is a command writing its files one by one; it may die between two, *)
(* and the operator may repeat any of them, the commands of single arms    *)
(* that the preflight plans included, on the same directories.             *)
(*                                                                         *)
(* A capsule is the state it fingerprints.  An execution of an arm is a    *)
(* record; files refer to it by its number, 0 is a missing file.  A patch  *)
(* is the execution that wrote it.  Commands run one at a time.            *)
(***************************************************************************)
EXTENDS Integers, Sequences, FiniteSets

CONSTANTS Candidates,   \* candidate rows: [policy, gap, streak, reasons]
          States,       \* what a capsule may fingerprint
          None,
          Replay,       \* replay actions of the pair
          Endings,      \* [error, submits]: how a run may end
          MaxQueries, MaxExecutions, MaxDeaths, MaxEvaluations    \* bounds

Arms == {"control", "treatment"}

VARIABLES ex,           \* the executions so far (history)
          planned,      \* the candidate whose protocol and features are planned
          native,       \* the patch in the native output directory of the configuration
          dirs,         \* arm -> what its directory holds
          pair,         \* the pair directory
          preflight,    \* decision of live_hook_preflight_report.json
          oe,           \* output and harness directories of the evaluation
          command,         \* the command at work
          deaths, evaluations

capsule_vars == <<ex, planned, native, dirs, pair, preflight, oe, command, deaths, evaluations>>

NoCommand == [pc |-> "idle"]
NoDir == [patch |-> 0, files |-> 0, capsule |-> 0, events |-> 0, report |-> 0, sha |-> 0]
NoPair == [decision |-> "none", fork |-> FALSE, injected |-> FALSE,
           of |-> [a \in Arms |-> 0], whole |-> FALSE]
NoLog == [patch |-> 0, applied |-> FALSE, resolved |-> FALSE]
NoEval == [predictions |-> [a \in Arms |-> 0], logs |-> [a \in Arms |-> NoLog],
           report |-> [decision |-> "none"], summary |-> << >>, official |-> [decision |-> "none"]]

CapsuleInit == /\ ex = << >> /\ planned = None /\ native = 0
               /\ dirs = [a \in Arms |-> NoDir]
               /\ pair = NoPair /\ preflight = "none" /\ oe = NoEval
               /\ command = NoCommand /\ deaths = 0 /\ evaluations = 0

-----------------------------------------------------------------------------
(* Trigger                                                                 *)

candidate_features(c) ==
  [error_streak              |-> IF "error_streak_or_error_observation" \in c.reasons THEN 1 ELSE 0,
   validation_gap_after_edit |-> c.gap,
   same_action_family_streak |-> c.streak,
   duplicate_state_ratio     |->    \* in percent
     IF c.reasons \cap {"recurrence_spike", "loop_or_duplicate_pattern"} # {} THEN 75 ELSE 0]

\* A policy that is not known becomes break_recurrence_and_replan.
candidate_protocol(c) ==
  CASE c.policy = "insert_validation_checkpoint" -> [feature |-> "validation_gap_after_edit", least |-> 1]
    [] c.policy = "error_observation_recovery" -> [feature |-> "error_streak", least |-> 1]
    [] c.policy = "same_action_escape" -> [feature |-> "same_action_family_streak", least |-> 2]
    [] OTHER -> [feature |-> "duplicate_state_ratio", least |-> 50]

evaluate_trigger(protocol, features) ==
  protocol.feature \in DOMAIN features /\ features[protocol.feature] >= protocol.least

triggers(c) == evaluate_trigger(candidate_protocol(c), candidate_features(c))

-----------------------------------------------------------------------------
(* One arm: run_sweagent_live_single                                       *)

begin(a, by, reference, c) ==
  [pc |-> "query", arm |-> a, by |-> by, reference |-> reference, trigger |-> triggers(c),
   query |-> 0, capsule |-> None, injected |-> {}]

\* HybridReplayGenerationModel.next_phase
generating(run) == run.query >= Replay

verify_fork_equivalence(reference, capsule) == reference = None \/ capsule = reference

\* Mutant: a treatment whose trigger hits is injected in whatever state.
on_model_query_AnyFork(run, state) ==
  IF ~generating(run) \/ run.capsule # None THEN run
  ELSE [run EXCEPT !.capsule = state,
          !.injected = @ \cup (IF run.arm = "treatment" /\ run.trigger THEN {run.query} ELSE {})]
\* CapsuleMaterializationHook.on_model_query, before every query to the model
on_model_query(run, state) ==
  LET inject == /\ run.arm = "treatment" /\ run.trigger
                /\ verify_fork_equivalence(run.reference, state)
                /\ run.injected = {}
  IN  IF ~generating(run) \/ run.capsule # None THEN run
      ELSE [run EXCEPT !.capsule = state, !.injected = @ \cup (IF inject THEN {run.query} ELSE {})]

\* The agent, in some state, queries the model, which replays or delegates.
query ==
  /\ command.pc = "query" /\ command.query < Replay + MaxQueries
  /\ \E state \in States :
        command' = [on_model_query(command, state) EXCEPT !.query = @ + 1]
  /\ UNCHANGED <<ex, planned, native, dirs, pair, preflight, oe, deaths, evaluations>>

\* RunSingle.run returns or raises, at any point; a patch it submits is written
\* to the native directory.
run_done ==
  /\ command.pc = "query"
  /\ \E e \in Endings :
        /\ ex' = Append(ex, [arm |-> command.arm, reference |-> command.reference, trigger |-> command.trigger,
                             capsule |-> command.capsule, injected |-> command.injected,
                             error |-> e.error])
        /\ native' = IF e.submits THEN Len(ex) + 1 ELSE native
  /\ command' = [pc |-> "archive", arm |-> command.arm, by |-> command.by]
  /\ UNCHANGED <<planned, dirs, pair, preflight, oe, deaths, evaluations>>

Run(n) == ex[n]
Last == ex[Len(ex)]
passed(n) == n # 0 /\ ~Run(n).error /\ Run(n).capsule # None

write(next, dir) == /\ dirs' = [dirs EXCEPT ![command.arm] = dir]
                    /\ command' = [command EXCEPT !.pc = next]
                    /\ UNCHANGED <<ex, planned, native, pair, preflight, oe, deaths, evaluations>>
dir == dirs[command.arm]

\* _archive_native_patch_artifacts: of a run that did not raise, and only what
\* the native directory holds
archive == /\ command.pc = "archive"
           /\ write("files", IF ~Last.error /\ native # 0 THEN [dir EXCEPT !.patch = native] ELSE dir)

\* protocol, replay actions, features
write_files == command.pc = "files" /\ write("capsule", [dir EXCEPT !.files = Len(ex)])

\* only if the hook materialized one; an earlier one stays
write_capsule ==
  /\ command.pc = "capsule"
  /\ write("events", IF Last.capsule # None THEN [dir EXCEPT !.capsule = Len(ex)] ELSE dir)

write_events == command.pc = "events" /\ write("report", [dir EXCEPT !.events = Len(ex)])

\* The report names the hash of the archived patch, if the run did not raise.
write_report ==
  /\ command.pc = "report"
  /\ write("reported", [dir EXCEPT !.report = Len(ex), !.sha = IF Last.error THEN 0 ELSE dir.patch])

arm_reported ==
  /\ command.pc = "reported"
  /\ command' = IF command.by = "operator" THEN NoCommand
             ELSE IF ~passed(dir.report) \/ dirs["control"].capsule = 0
                  THEN [pc |-> "conclude", ready |-> FALSE]
             ELSE IF command.arm = "control"
                  THEN begin("treatment", "preflight", Run(dirs["control"].capsule).capsule, planned)
             ELSE [pc |-> "pair", by |-> "preflight"]
  /\ UNCHANGED <<ex, planned, native, dirs, pair, preflight, oe, deaths, evaluations>>

\* A command of commands.json: a treatment needs the control's capsule file.
live_single(a) ==
  /\ command.pc = "idle" /\ planned # None /\ Len(ex) < MaxExecutions
  /\ a = "treatment" => dirs["control"].capsule # 0
  /\ command' = begin(a, "operator",
                   IF a = "control" THEN None ELSE Run(dirs["control"].capsule).capsule, planned)
  /\ UNCHANGED <<ex, planned, native, dirs, pair, preflight, oe, deaths, evaluations>>

-----------------------------------------------------------------------------
(* The pair: run_sweagent_live_pair                                        *)

\* Artifacts there, arms completed, the treatment referred to the control's
\* capsule, capsules equal, the hook saw them equal, one injection.
live_pair_gates ==
  LET c == dirs["control"]  t == dirs["treatment"]
  IN  /\ \A a \in Arms : /\ dirs[a].files # 0 /\ dirs[a].capsule # 0 /\ dirs[a].events # 0
                         /\ passed(dirs[a].report)
      /\ Run(t.report).reference = Run(c.capsule).capsule
      /\ Run(t.capsule).capsule = Run(c.capsule).capsule
      /\ Run(t.events).reference # None /\ Run(t.events).capsule = Run(t.events).reference
      /\ Cardinality(Run(t.report).injected) = 1

\* fork_equivalence of the report
fork_equivalence ==
  /\ \A a \in Arms : dirs[a].files # 0 /\ dirs[a].capsule # 0 /\ dirs[a].events # 0 /\ dirs[a].report # 0
  /\ Run(dirs["treatment"].capsule).capsule = Run(dirs["control"].capsule).capsule

\* protocol_check_report: the trigger of the treatment's protocol and features
\* stands for an injection
effect_label(outcomes) ==
  IF ~fork_equivalence THEN "state_mismatch_no_attribution"
  ELSE IF ~Run(dirs["treatment"].files).trigger THEN "secondary_audit_no_treatment_attribution"
  ELSE outcomes

\* Called for directories without a report it is blocked; these calls are left out.
live_pair_start ==
  /\ command.pc = "idle" /\ \A a \in Arms : dirs[a].report # 0
  /\ command' = [pc |-> "pair", by |-> "operator"]
  /\ UNCHANGED <<ex, planned, native, dirs, pair, preflight, oe, deaths, evaluations>>

\* No call died between the capsule and the report of an arm (history).
Whole == \A a \in Arms : dirs[a].capsule = dirs[a].report

live_pair_report ==
  /\ command.pc = "pair"
  /\ pair' = [pair EXCEPT !.decision = IF live_pair_gates THEN "ready" ELSE "blocked",
                          !.fork = fork_equivalence,
                          !.of = [a \in Arms |-> dirs[a].report], !.whole = Whole]
  /\ command' = [command EXCEPT !.pc = "pair_summary"]
  /\ UNCHANGED <<ex, planned, native, dirs, preflight, oe, deaths, evaluations>>

live_pair_summary ==
  /\ command.pc = "pair_summary"
  /\ pair' = [pair EXCEPT !.injected = dirs["treatment"].report # 0
                                       /\ Cardinality(Run(dirs["treatment"].report).injected) = 1]
  /\ command' = IF command.by = "operator" THEN NoCommand
             ELSE [pc |-> "conclude", ready |-> pair.decision = "ready"]
  /\ UNCHANGED <<ex, planned, native, dirs, preflight, oe, deaths, evaluations>>

-----------------------------------------------------------------------------
(* run_sweagent_live_hook_preflight                                        *)

\* Every call is for the same candidate row.  A gate fails or the call only plans: blocked, planned_no_run
preflight_planned(c) ==
  /\ command.pc = "idle" /\ planned \in {None, c}
  /\ planned' = c /\ preflight' = "not_run"
  /\ UNCHANGED <<ex, native, dirs, pair, oe, command, deaths, evaluations>>

preflight_execute(c) ==
  /\ command.pc = "idle" /\ Len(ex) + 2 <= MaxExecutions
  /\ planned \in {None, c} /\ planned' = c
  /\ command' = begin("control", "preflight", None, c)
  /\ UNCHANGED <<ex, native, dirs, pair, preflight, oe, deaths, evaluations>>

preflight_report ==
  /\ command.pc = "conclude"
  /\ preflight' = IF command.ready THEN "ready" ELSE "run_incomplete"
  /\ command' = NoCommand
  /\ UNCHANGED <<ex, planned, native, dirs, pair, oe, deaths, evaluations>>

-----------------------------------------------------------------------------
(* run_sweagent_phase6_official_eval                                       *)

\* Loads the reports and writes the predictions.  Without them it is blocked; these
\* calls are left out.
eval_start ==
  /\ command.pc = "idle" /\ evaluations < MaxEvaluations /\ evaluations' = evaluations + 1
  /\ \A a \in Arms : dirs[a].report # 0
  /\ LET predicted == \A a \in Arms : dirs[a].patch # 0
     IN  \E run, ack \in BOOLEAN :
           /\ command' = [pc |-> "control_eval", run |-> run, ack |-> ack, predicted |-> predicted,
                       failed |-> FALSE]
           /\ oe' = IF predicted THEN [oe EXCEPT !.predictions = [a \in Arms |-> dirs[a].patch]] ELSE oe
  /\ UNCHANGED <<ex, planned, native, dirs, pair, preflight, deaths>>

Logs(patch) == {log \in [patch : {patch}, applied : BOOLEAN, resolved : BOOLEAN] :
                  log.resolved => log.applied}

\* The harness leaves a report of the prediction, or none and may say so, or skips
\* an instance it has a report of.
run_official_eval(a) ==
  /\ command.pc = (IF a = "control" THEN "control_eval" ELSE "treatment_eval")
  /\ \/ /\ command.run /\ command.ack /\ command.predicted
        /\ \E log \in {oe.logs[a]} \cup Logs(oe.predictions[a]),
              failed \in BOOLEAN :
              /\ failed => log = oe.logs[a]
              /\ oe' = [oe EXCEPT !.logs[a] = log]
              /\ command' = [command EXCEPT !.failed = @ \/ failed,
                            !.pc = IF a = "control" THEN "treatment_eval" ELSE "import"]
     \/ /\ ~(command.run /\ command.ack /\ command.predicted)
        /\ command' = [command EXCEPT !.pc = "import"] /\ oe' = oe
  /\ UNCHANGED <<ex, planned, native, dirs, pair, preflight, deaths, evaluations>>

official_completed == command.predicted /\ \A a \in Arms : oe.logs[a].patch # 0

\* _patch_info: no hash in the report matches any patch
sha_matches(a) == dirs[a].sha \in {0, dirs[a].patch}

eval_gates ==
  /\ preflight = "ready" /\ pair.decision = "ready"
  /\ command.predicted /\ \A a \in Arms : sha_matches(a)
  /\ command.run \/ official_completed => command.ack
  /\ ~command.failed
  /\ pair.fork

\* _effect_label of the arms' harness reports
outcome_label(logs) ==
  LET resolved(a) == logs[a].resolved
  IN  IF \E a \in Arms : logs[a].patch = 0 THEN "pending_or_incomplete"
      ELSE CASE resolved("control") /\ resolved("treatment") -> "both_resolved"
             [] ~resolved("control") /\ resolved("treatment") -> "intervention_only_resolved"
             [] resolved("control") /\ ~resolved("treatment") -> "control_only_resolved"
             [] ~resolved("control") /\ ~resolved("treatment") -> "both_unresolved"

\* The pair is audited again, with the outcomes, when these are complete.
final_pair == official_completed /\ eval_gates

\* Mutant: the audit with the outcomes decides nothing.
eval_decision_Audit ==
  IF ~eval_gates THEN "blocked"
  ELSE IF final_pair THEN "outcome_label_ready"
  ELSE IF command.run THEN "pending_or_failed" ELSE "ready_pending_official_eval"
eval_decision ==
  IF ~eval_gates THEN "blocked"
  ELSE IF final_pair /\ live_pair_gates THEN "outcome_label_ready"
  ELSE IF command.run THEN "pending_or_failed" ELSE "ready_pending_official_eval"

eval_label ==
  IF final_pair THEN effect_label(outcome_label(oe.logs))
  ELSE IF command.predicted THEN outcome_label(oe.logs) ELSE "pending_or_incomplete"

eval_report ==
  /\ command.pc = "import"
  /\ oe' = [oe EXCEPT !.report =
       [decision |-> eval_decision, passed |-> eval_gates, label |-> eval_label,
        started |-> command.run \/ official_completed,
        of |-> [a \in Arms |-> dirs[a].report], whole |-> Whole,
        arms |-> IF command.predicted
                 THEN [a \in Arms |-> [log |-> oe.logs[a], prediction |-> oe.predictions[a]]]
                 ELSE << >>]]
  /\ command' = [pc |-> "eval_summary", final |-> final_pair,
              row |-> IF ~command.predicted THEN << >>
                      ELSE << [logs |-> oe.logs,
                               eligible |-> /\ official_completed /\ pair.injected
                                            /\ \A a \in Arms : oe.logs[a].applied] >>]
  /\ UNCHANGED <<ex, planned, native, dirs, pair, preflight, deaths, evaluations>>

eval_summary ==
  /\ command.pc = "eval_summary"
  /\ oe' = [oe EXCEPT !.summary = command.row]
  /\ command' = IF command.final THEN [pc |-> "official_pair"] ELSE NoCommand
  /\ UNCHANGED <<ex, planned, native, dirs, pair, preflight, deaths, evaluations>>

-----------------------------------------------------------------------------
(* run_sweagent_official_pair                                              *)

official_pair_start ==
  /\ command.pc = "idle" /\ oe.report.decision # "none"
  /\ command' = [pc |-> "official_pair"]
  /\ UNCHANGED <<ex, planned, native, dirs, pair, preflight, oe, deaths, evaluations>>

\* The report passed, both arms completed and applied, its hashes are those of
\* the files, and the row agrees with it.
official_pair_gates ==
  /\ oe.report.passed /\ oe.report.started /\ oe.summary # << >> /\ oe.report.arms # << >>
  /\ \A a \in Arms : LET arm == oe.report.arms[a]
                     IN  /\ arm.log.patch # 0 /\ arm.log.applied
                         /\ arm.log = oe.logs[a] /\ arm.prediction = oe.predictions[a]
  /\ outcome_label(oe.summary[1].logs) = outcome_label([a \in Arms |-> oe.report.arms[a].log])
  /\ oe.summary[1].eligible

official_pair ==
  /\ command.pc = "official_pair"
  /\ oe' = [oe EXCEPT !.official =
       [decision |-> IF official_pair_gates THEN "outcome_label_ready" ELSE "blocked",
        label    |-> IF oe.summary = << >> THEN "pending_or_incomplete"
                     ELSE outcome_label(oe.summary[1].logs),
        of       |-> oe.report.of, logs |-> oe.logs]]
  /\ command' = NoCommand
  /\ UNCHANGED <<ex, planned, native, dirs, pair, preflight, deaths, evaluations>>

\* A command dies between two writes.
command_dies == /\ command # NoCommand /\ deaths < MaxDeaths
                /\ deaths' = deaths + 1 /\ command' = NoCommand
                /\ UNCHANGED <<ex, planned, native, dirs, pair, preflight, oe, evaluations>>

-----------------------------------------------------------------------------
Arm == \/ query \/ run_done \/ archive \/ write_files \/ write_capsule \/ write_events
       \/ write_report \/ arm_reported

Pair == live_pair_start \/ live_pair_report \/ live_pair_summary

Eval == \/ eval_start \/ eval_report \/ eval_summary \/ official_pair_start \/ official_pair
        \/ \E a \in Arms : run_official_eval(a)

CapsuleNext == \/ Arm \/ Pair \/ Eval \/ preflight_report \/ command_dies
               \/ \E c \in Candidates : preflight_planned(c) \/ preflight_execute(c)
               \/ \E a \in Arms : live_single(a)

CapsuleSpec == CapsuleInit /\ [][CapsuleNext]_capsule_vars
-----------------------------------------------------------------------------
(* Properties *)

\* hybrid_runner.py, README.md ("only for treatment arms whose capsule equivalence
\* gate passes"): whatever the states, requeries and ends of the runs, a run is
\* injected once at most, at its first generation query, in the state of the
\* control's capsule, when the protocol triggers.
InjectedAtTheFork ==
  \A n \in 1..Len(ex) : ex[n].injected # {} =>
    /\ ex[n].arm = "treatment" /\ ex[n].trigger /\ ex[n].injected = {Replay}
    /\ ex[n].reference \in States /\ ex[n].capsule = ex[n].reference

\* Two completed arms in one state, the treatment injected there.
Comparable(of) ==
  LET c == of["control"]  t == of["treatment"]
  IN  /\ c # 0 /\ t # 0 /\ Run(c).arm = "control" /\ Run(t).arm = "treatment"
      /\ ~Run(c).error /\ ~Run(t).error
      /\ Run(t).capsule = Run(c).capsule /\ Run(t).injected # {}

\* A pair that waits for its evaluation compares executions that can be compared,
\* although the two arms may be executed again one without the other; and so does a
\* label found ready, although the evaluation reads the arms again.
LabelIsComparable ==
  /\ pair.decision = "ready" /\ pair.whole => Comparable(pair.of)
  /\ oe.report.decision = "outcome_label_ready" /\ oe.report.whole => Comparable(oe.report.of)
=============================================================================
