------------------------------- MODULE V1Pair -------------------------------
(***************************************************************************)
(* One pair of Protocol v1, from its arms to its outcome label             *)
(* (adapters/sweagent_protocol_v1_pair.py,                                 *)
(* sweagent_protocol_v1_official_eval.py).  The commands are those of      *)
(* Protocol v2 with other gates; but nothing infers a state from the files *)
(* and prompts: the operator starts them, and executes arms again over what*)
(* their directories hold, in any order.  What the operator does keep is   *)
(* the order of the commands: one at a time, no arm runs under a pair      *)
(* report, nothing is assembled under an evaluation, and a pair is taken   *)
(* back with what was made of it.                                          *)
(*                                                                         *)
(* An execution has one field more: whether an event of it is a block.     *)
(***************************************************************************)
EXTENDS V2Pair

\* The operator executes an arm, whatever its directory holds.
V1_live_start(a) ==
  /\ live.pc = "idle" /\ Len(ex) < MaxExecutions /\ pair.report = "none" /\ orch.pc = "idle"
  /\ \E run \in Executions : ex' = Append(ex, ArmRun(a, run))
  /\ live' = [pc |-> "ran", arm |-> a]
  /\ UNCHANGED <<preflight, arms, pair, orch, oe, eval, crashes>>

V1_archive_patch(a) == pair.report = "none" /\ orch.pc = "idle" /\ archive_patch(a)

\* Reports and events are loaded; a report that does not parse raises.  The
\* operator may supply outcomes, with or without saying where they are from.
V1_load(outcomes) ==
  /\ live.pc = "idle" /\ orch.pc = "idle" /\ eval.pc = "idle" /\ oe = NoEval
  /\ pair.report # "ready" /\ \E a \in Arms : arms[a].report # 0
  /\ \A a \in Arms : arms[a].report # Torn
  /\ orch' = [pc |-> "loaded", arms |-> arms, outcomes |-> outcomes]
  /\ UNCHANGED <<ex, preflight, arms, live, pair, oe, eval, crashes>>

V1_copy ==
  /\ orch.pc = "loaded"
  /\ pair' = [pair EXCEPT !.archive =
       [a \in Arms |-> IF arms[a].patch # 0 THEN arms[a].patch ELSE pair.archive[a]]]
  /\ orch' = [orch EXCEPT !.pc = "copied"]
  /\ UNCHANGED <<ex, preflight, arms, live, oe, eval, crashes>>

\* Mutant: an arm the hook blocked makes a pair if its run went on.
V1_pair_gates_Blocked(loaded, outcomes) ==
  /\ pair_gates(loaded)
  /\ Run(loaded["control"].report).replay = Run(loaded["treatment"].report).replay
  /\ outcomes # "unsourced"
\* The gates of Protocol v2, with the replays of the reports as well, and no block
\* in the treatment's events (a block its report names did not complete).
V1_pair_gates(loaded, outcomes) ==
  /\ pair_gates(loaded)
  /\ Run(loaded["control"].report).replay = Run(loaded["treatment"].report).replay
  /\ ~Run(loaded["treatment"].files).blocked
  /\ outcomes # "unsourced"

V1_assembled(loaded, outcomes) ==
  CASE ~V1_pair_gates(loaded, outcomes)                     -> "blocked"
    [] V1_pair_gates(loaded, outcomes) /\ outcomes = "none" -> "ready"
    [] V1_pair_gates(loaded, outcomes) /\ outcomes # "none" -> "outcome_label_ready"

V1_report ==
  /\ orch.pc = "copied"
  /\ LET content == V1_assembled(orch.arms, orch.outcomes)
     IN  \E cut \in BOOLEAN :
           /\ Write(cut, orch', [pc |-> "reported", eligible |-> content # "blocked"])
           /\ pair' = [pair EXCEPT !.report = IF cut THEN "torn" ELSE content]
  /\ UNCHANGED <<ex, preflight, arms, live, oe, eval>>

V1_pair_summary == assemble_summary

V1_eval_gates == eval_gates

V1_eval_decision ==
  IF ~V1_eval_gates THEN "blocked"
  ELSE IF official_completed THEN "outcome_label_ready"
  ELSE IF eval.run THEN "pending_or_failed" ELSE "ready_pending_official_eval"

\* Started on any pair report that parses.
V1_eval_start ==
  /\ eval.pc = "idle" /\ orch.pc = "idle" /\ pair.report \notin {"none", "torn"}
  /\ \E run, ack \in BOOLEAN :
        eval' = [pc |-> "control", run |-> run, ack |-> ack, pair |-> pair, failed |-> FALSE,
                 predicted |-> pair.summary # "none" /\ \A a \in Arms : pair.archive[a] # 0]
  /\ UNCHANGED <<ex, preflight, arms, live, pair, orch, oe, crashes>>

V1_eval_report ==
  /\ eval.pc = "ran"
  /\ \E cut \in BOOLEAN :
        /\ Write(cut, eval', [pc |-> "reported", scorecard |->
                    [written |-> TRUE, completed |-> official_completed, uplift |-> uplift]])
        /\ oe' = [oe EXCEPT !.report = IF cut THEN Report("torn", FALSE, FALSE)
                             ELSE Report(V1_eval_decision, V1_eval_gates, official_completed)]
  /\ UNCHANGED <<ex, preflight, arms, live, pair, orch>>

\* As in Protocol v2, of either arm.
V1_run_official_eval(a) == run_official_eval(a)

V1_eval_scorecard == eval_scorecard

\* The operator takes the pair back, and the evaluation made of it.
V1_clear ==
  /\ orch.pc = "idle" /\ eval.pc = "idle" /\ <<pair, oe>> # <<NoPair, NoEval>>
  /\ pair' = NoPair /\ oe' = NoEval
  /\ UNCHANGED <<ex, preflight, arms, live, orch, eval, crashes>>

V1_Next ==
  \/ live_files \/ live_report \/ V1_clear \/ crash
  \/ \E a \in Arms : V1_live_start(a) \/ V1_archive_patch(a) \/ V1_run_official_eval(a)
  \/ \E outcomes \in {"none", "sourced", "unsourced"} : V1_load(outcomes)
  \/ V1_copy \/ V1_report \/ V1_pair_summary
  \/ V1_eval_start \/ V1_eval_report \/ V1_eval_scorecard

V1_Spec == Init /\ [][V1_Next]_vars
-----------------------------------------------------------------------------
\* No execution of an arm died between its files and its report, and the operator
\* archived its patch (which no command compares with the report).
V1_whole == \A a \in Arms : arms[a].files = arms[a].report /\ arms[a].patch = arms[a].report

\* BOUNDARY of the v1 evaluation: it turns "one Protocol v1 live pair into an
\* outcome-backed" artifact.  Though arms are executed again over the files of
\* earlier executions and commands die on the way, a label is of the patches the
\* pair archived of its two arms, each of a completed execution, of one recording,
\* and the treatment's was never blocked.
V1LabelIsEarned ==
  oe.report.decision = "outcome_label_ready" /\ V1_whole =>
    /\ \A a \in Arms : /\ oe.logs[a] = pair.archive[a]
                       /\ Run(oe.logs[a]).arm = a /\ Run(oe.logs[a]).completed
    /\ Run(oe.logs["control"]).replay = Run(oe.logs["treatment"]).replay
    /\ ~Run(oe.logs["treatment"]).blocked
=============================================================================
