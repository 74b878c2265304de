------------------------------- MODULE V2Pair -------------------------------
(***************************************************************************)
(* One pair of a Protocol v2 batch, from its preflight to its outcome      *)
(* label.  The files under the evidence root are the only state:           *)
(* infer_pair_state reads the pair's progress off them                     *)
(* (orchestration/state_inference.py), advance_batch assembles the pair    *)
(* offline (orchestration/batch_runner.py with                             *)
(* adapters/sweagent_protocol_v2_pair.py), and the operator, prompted by   *)
(* it, executes the arms (LiveSingle), archives their patches, runs the    *)
(* official evaluation (adapters/sweagent_protocol_v2_official_eval.py)    *)
(* and clears what failed.  Each of these processes may die between two    *)
(* writes or in one, which leaves a file that does not parse.              *)
(*                                                                         *)
(* An execution of an arm is a record; files refer to it by its number     *)
(* where the code keeps its content or its hash.  0 is a missing file, -1  *)
(* a report cut short.                                                     *)
(***************************************************************************)
EXTENDS Integers, Sequences, FiniteSets

CONSTANTS Executions,   \* [completed, replay, generated, resolves]: what an arm's run may be
          MaxExecutions, MaxCrashes    \* bounds

Arms == {"control", "treatment"}
Torn == -1

VARIABLES ex,           \* the executions so far (history)
          preflight,    \* protocol_v2_planned_preflight_report: none, ready or blocked
          arms,         \* arm -> [files, report, patch] of its directory
          live,         \* the live-single process
          pair,         \* the live-pair directory
          orch,         \* the orchestrator process
          oe,           \* the official-eval directory, the harness logs in it
          eval,         \* the official-eval process
          crashes

vars == <<ex, preflight, arms, live, pair, orch, oe, eval, crashes>>

Idle == [pc |-> "idle"]

NoArm == [files |-> 0, report |-> 0, patch |-> 0]
NoPair == [archive |-> [a \in Arms |-> 0], report |-> "none", summary |-> "none"]
Report(decision, passed, completed) ==
  [decision |-> decision, passed |-> passed, completed |-> completed]
NoScorecard == [written |-> FALSE, completed |-> FALSE, uplift |-> FALSE]
NoEval == [logs |-> [a \in Arms |-> 0], report |-> Report("none", FALSE, FALSE),
           scorecard |-> NoScorecard]

Init == /\ ex = << >>
        /\ preflight = "none"
        /\ arms = [a \in Arms |-> NoArm]
        /\ live = Idle
        /\ pair = NoPair
        /\ orch = Idle
        /\ oe = NoEval
        /\ eval = Idle
        /\ crashes = 0

\* A write that the death of its process may cut short.
Write(cut, process, done) ==
  IF cut THEN crashes < MaxCrashes /\ crashes' = crashes + 1 /\ process = Idle
  ELSE crashes' = crashes /\ process = done

-----------------------------------------------------------------------------
(* infer_pair_state: most advanced first                                   *)

Run(n) == ex[n]
arm_complete(a) == arms[a].report # Torn /\ Run(arms[a].report).completed
                   /\ Run(arms[a].report).arm = a

official_eval_state ==
  IF oe.report.completed \/ oe.report.passed
  THEN "official_eval_complete" ELSE "failed_official_eval"

\* A report that does not parse has no decision.
pair_state == CASE pair.report = "ready"   -> "awaiting_official_eval_authorization"
                [] pair.report = "blocked" -> "failed_pair_assembly"
                [] pair.report = "torn"    -> "pair_assembled"

arm_state(a) == CASE a = "treatment" -> IF arm_complete(a) THEN "treatment_complete"
                                        ELSE "failed_treatment"
                  [] a = "control" -> IF arm_complete(a) THEN "awaiting_treatment_authorization"
                                      ELSE "failed_control"

preflight_state == CASE preflight = "none"    -> "pending"
                     [] preflight = "ready"   -> "awaiting_control_authorization"
                     [] preflight = "blocked" -> "failed_preflight"

infer_pair_state ==
  IF oe.report.decision # "none" THEN official_eval_state
  ELSE IF pair.report # "none" THEN pair_state
  ELSE IF arms["treatment"].report # 0 THEN arm_state("treatment")
  ELSE IF arms["control"].report # 0 THEN arm_state("control")
  ELSE preflight_state

-----------------------------------------------------------------------------
(* The operator                                                            *)

run_preflight ==
  /\ infer_pair_state \in {"pending", "failed_preflight"}
  /\ preflight' \in {"ready", "blocked"}
  /\ UNCHANGED <<ex, arms, live, pair, orch, oe, eval, crashes>>

\* An execution of arm a that goes as run.
ArmRun(a, run) == [f \in {"arm"} \cup DOMAIN run |-> IF f = "arm" THEN a ELSE run[f]]

\* The prompted command; a second one is not started while one runs.
live_start(a) ==
  /\ live.pc = "idle" /\ Len(ex) < MaxExecutions
  /\ infer_pair_state = IF a = "control" THEN "awaiting_control_authorization"
                        ELSE "awaiting_treatment_authorization"
  /\ \E run \in Executions : ex' = Append(ex, ArmRun(a, run))
  /\ live' = [pc |-> "ran", arm |-> a]
  /\ UNCHANGED <<preflight, arms, pair, orch, oe, eval, crashes>>

\* protocol, replay actions and events; then the report
live_files ==
  /\ live.pc = "ran"
  /\ arms' = [arms EXCEPT ![live.arm].files = Len(ex)]
  /\ live' = [pc |-> "filed", arm |-> live.arm]
  /\ UNCHANGED <<ex, preflight, pair, orch, oe, eval, crashes>>

live_report ==
  /\ live.pc = "filed"
  /\ \E cut \in BOOLEAN :
        /\ Write(cut, live', Idle)
        /\ arms' = [arms EXCEPT ![live.arm].report = IF cut THEN Torn ELSE Len(ex)]
  /\ UNCHANGED <<ex, preflight, pair, orch, oe, eval>>

\* Where the adapters look for the patch only the operator puts it: here, the
\* one of the execution the arm reports.
archive_patch(a) ==
  /\ arms[a].report \notin {0, Torn}
  /\ arms[a].patch # arms[a].report
  /\ arms' = [arms EXCEPT ![a].patch = arms[a].report]
  /\ UNCHANGED <<ex, preflight, live, pair, orch, oe, eval, crashes>>

\* clear_control_artifacts_and_retry, clear_treatment_artifacts_and_retry
clear_arm(a) ==
  /\ infer_pair_state = IF a = "control" THEN "failed_control" ELSE "failed_treatment"
  /\ arms' = [arms EXCEPT ![a] = NoArm]
  /\ UNCHANGED <<ex, preflight, live, pair, orch, oe, eval, crashes>>

\* clear_pair_artifacts_and_retry, with the arms that are to be executed again
clear_pair ==
  /\ infer_pair_state = "failed_pair_assembly" /\ eval.pc = "idle"
  /\ pair' = NoPair
  /\ \E again \in {{}, {"treatment"}, Arms} :
        arms' = [a \in Arms |-> IF a \in again THEN NoArm ELSE arms[a]]
  /\ UNCHANGED <<ex, preflight, live, orch, oe, eval, crashes>>

\* investigate_official_eval_failure
clear_eval ==
  /\ infer_pair_state = "failed_official_eval" /\ eval.pc = "idle"
  /\ oe' = NoEval
  /\ UNCHANGED <<ex, preflight, arms, live, pair, orch, eval, crashes>>

-----------------------------------------------------------------------------
(* The orchestrator: advance_batch                                         *)

\* All other states prompt the operator or do nothing.
assembles(state) == state = "treatment_complete"

\* run_sweagent_protocol_v2_live_pair loads reports and events; a report that
\* does not parse raises, which advance_batch logs.
advance_load ==
  /\ orch.pc = "idle" /\ assembles(infer_pair_state)
  /\ \A a \in Arms : arms[a].report # Torn
  /\ orch' = [pc |-> "loaded", arms |-> arms]
  /\ UNCHANGED <<ex, preflight, arms, live, pair, oe, eval, crashes>>

\* Mutant: copied without looking whether it is there, which raises.
assemble_copy_Unchecked ==
  /\ orch.pc = "loaded" /\ \A a \in Arms : arms[a].patch # 0
  /\ pair' = [pair EXCEPT !.archive = [a \in Arms |-> arms[a].patch]]
  /\ orch' = [pc |-> "copied", arms |-> orch.arms]
  /\ UNCHANGED <<ex, preflight, arms, live, oe, eval, crashes>>
\* _copy_patch for the patches that are there
assemble_copy ==
  /\ orch.pc = "loaded"
  /\ pair' = [pair EXCEPT !.archive =
       [a \in Arms |-> IF arms[a].patch # 0 THEN arms[a].patch ELSE pair.archive[a]]]
  /\ orch' = [pc |-> "copied", arms |-> orch.arms]
  /\ UNCHANGED <<ex, preflight, arms, live, oe, eval, crashes>>

\* Mutant: the arms need not have replayed the same actions.
pair_gates_AnyReplay(loaded) ==
  /\ \A a \in Arms : /\ loaded[a].report # 0 /\ loaded[a].files # 0
                     /\ Run(loaded[a].report).completed /\ Run(loaded[a].report).arm = a
                     /\ Run(loaded[a].files).generated
                     /\ pair.archive[a] # 0
  /\ Run(loaded["control"].files).arm = "control" /\ Run(loaded["treatment"].files).arm = "treatment"
\* The gates: reports and events present, arms completed, same replay prefix and
\* protocol, generation started, hook in the treatment alone, patches archived.
pair_gates(loaded) ==
  /\ \A a \in Arms : /\ loaded[a].report # 0 /\ loaded[a].files # 0
                     /\ Run(loaded[a].report).completed /\ Run(loaded[a].report).arm = a
                     /\ Run(loaded[a].files).generated
                     /\ pair.archive[a] # 0
  /\ \A a, b \in Arms : Run(loaded[a].files).replay = Run(loaded[b].files).replay
  /\ Run(loaded["control"].files).arm = "control" /\ Run(loaded["treatment"].files).arm = "treatment"

assembled(gates) == IF gates THEN "ready" ELSE "blocked"

assemble_report ==
  /\ orch.pc = "copied"
  /\ LET content == assembled(pair_gates(orch.arms))
     IN  \E cut \in BOOLEAN :
           /\ Write(cut, orch', [pc |-> "reported", eligible |-> content = "ready"])
           /\ pair' = [pair EXCEPT !.report = IF cut THEN "torn" ELSE content]
  /\ UNCHANGED <<ex, preflight, arms, live, oe, eval>>

assemble_summary ==
  /\ orch.pc = "reported"
  /\ pair' = [pair EXCEPT !.summary = IF orch.eligible THEN "eligible" ELSE "ineligible"]
  /\ orch' = Idle
  /\ UNCHANGED <<ex, preflight, arms, live, oe, eval, crashes>>

-----------------------------------------------------------------------------
(* run_sweagent_protocol_v2_official_eval                                  *)

\* Started when it is prompted, with any flags: reads the pair and writes the
\* predictions.  A torn pair report prompts too, and raises.
eval_start ==
  /\ eval.pc = "idle" /\ infer_pair_state = "awaiting_official_eval_authorization"
  /\ \E run, ack \in BOOLEAN :
        eval' = [pc |-> "control", run |-> run, ack |-> ack, pair |-> pair, failed |-> FALSE,
                 predicted |-> pair.summary # "none" /\ \A a \in Arms : pair.archive[a] # 0]
  /\ UNCHANGED <<ex, preflight, arms, live, pair, orch, oe, crashes>>

\* The harness runs an arm's prediction and leaves its report, or none, or
\* skips an instance it has a report of.
run_official_eval(a) ==
  /\ eval.pc = a
  /\ \/ /\ eval.run /\ eval.ack /\ eval.predicted
        /\ \E log \in {oe.logs[a], eval.pair.archive[a]}, failed \in BOOLEAN :
              /\ oe' = [oe EXCEPT !.logs[a] = log]
              /\ eval' = [eval EXCEPT !.failed = @ \/ failed,
                            !.pc = IF a = "control" THEN "treatment" ELSE "ran"]
     \/ /\ ~(eval.run /\ eval.ack /\ eval.predicted)
        /\ eval' = [eval EXCEPT !.pc = "ran"] /\ oe' = oe
  /\ UNCHANGED <<ex, preflight, arms, live, pair, orch, crashes>>

\* Mutant: one evaluated arm is enough.
official_completed_Any == eval.predicted /\ \E a \in Arms : oe.logs[a] # 0
official_completed == eval.predicted /\ \A a \in Arms : oe.logs[a] # 0

eval_gates ==
  /\ eval.pair.report = "ready" /\ eval.predicted
  /\ eval.run \/ official_completed => eval.ack
  /\ ~eval.failed
  /\ eval.pair.summary = "eligible"

eval_decision ==
  CASE ~eval_gates                       -> "blocked"
    [] eval_gates /\ official_completed  -> "outcome_label_ready"
    [] eval_gates /\ ~official_completed -> IF eval.run THEN "pending_or_failed"
                                            ELSE "ready_pending_official_eval"

\* _effect_label: intervention_only_resolved
uplift == /\ \A a \in Arms : oe.logs[a] # 0
          /\ ~Run(oe.logs["control"]).resolves /\ Run(oe.logs["treatment"]).resolves

eval_report ==
  /\ eval.pc = "ran"
  /\ \E cut \in BOOLEAN :
        /\ Write(cut, eval', [pc |-> "reported", scorecard |->
                    [written |-> TRUE, completed |-> official_completed, uplift |-> uplift]])
        /\ oe' = [oe EXCEPT !.report = IF cut THEN Report("torn", FALSE, FALSE)
                                       ELSE Report(eval_decision, eval_gates, official_completed)]
  /\ UNCHANGED <<ex, preflight, arms, live, pair, orch>>

eval_scorecard ==
  /\ eval.pc = "reported"
  /\ oe' = [oe EXCEPT !.scorecard = eval.scorecard]
  /\ eval' = Idle
  /\ UNCHANGED <<ex, preflight, arms, live, pair, orch, crashes>>

\* A process dies between two writes.
crash ==
  /\ crashes < MaxCrashes /\ crashes' = crashes + 1
  /\ \/ live.pc # "idle" /\ live' = Idle /\ UNCHANGED <<orch, eval>>
     \/ orch.pc # "idle" /\ orch' = Idle /\ UNCHANGED <<live, eval>>
     \/ eval.pc # "idle" /\ eval' = Idle /\ UNCHANGED <<live, orch>>
  /\ UNCHANGED <<ex, preflight, arms, pair, oe>>

-----------------------------------------------------------------------------
Clear == (\E a \in Arms : clear_arm(a)) \/ clear_pair \/ clear_eval

Operator == \/ run_preflight \/ live_files \/ live_report \/ Clear
            \/ \E a \in Arms : live_start(a) \/ archive_patch(a)

Orchestrator == advance_load \/ assemble_copy \/ assemble_report \/ assemble_summary

OfficialEval == \/ eval_start \/ eval_report \/ eval_scorecard
                \/ \E a \in Arms : run_official_eval(a)

Next == Operator \/ Orchestrator \/ OfficialEval \/ crash

\* The orchestrator is run again and again.
Spec == Init /\ [][Next]_vars /\ WF_vars(Orchestrator)

-----------------------------------------------------------------------------
(* Properties *)

\* BOUNDARY of the pair adapters: a label compares two completed arms that
\* replayed the same prefix, one with the hook, and the evaluation is of what
\* these arms wrote, whatever died or was cleared and done again on the way.
LabelIsEarned ==
  oe.report.decision = "outcome_label_ready" =>
    /\ \A a \in Arms : /\ oe.logs[a] = pair.archive[a] /\ oe.logs[a] = arms[a].report
                       /\ Run(oe.logs[a]).arm = a /\ Run(oe.logs[a]).completed
                       /\ Run(oe.logs[a]).generated
    /\ \A a, b \in Arms : Run(oe.logs[a]).replay = Run(oe.logs[b]).replay

\* A scorecard that batch outcomes will count (it looks at no report's decision)
\* rests on a harness report of each arm's archived patch.
ScorecardIsEvidenced ==
  oe.scorecard.completed =>
    \A a \in Arms : oe.logs[a] # 0 /\ oe.logs[a] = pair.archive[a] /\ Run(oe.logs[a]).arm = a

\* A pair whose arms are there is decided, assembled or blocked.
AssemblyIsDecided ==
  infer_pair_state = "treatment_complete" ~> infer_pair_state # "treatment_complete"

\* state_inference.py: "Passed = both arm evals completed successfully".
CompleteIsEvaluated ==
  infer_pair_state = "official_eval_complete" => \A a \in Arms : oe.logs[a] # 0
=============================================================================
