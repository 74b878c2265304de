------------------------------ MODULE RouteB1 ------------------------------
(***************************************************************************)
(* The Route B1 probe: live arms (clinic adapters/sweagent_b1_live.py, with *)
(* the hook of intervention/protocol_b1_hook.py), the cells made of their   *)
(* reports and the official labels (intervention/route_b1_cells.py), and    *)
(* the preregistered decision (intervention/route_b1_decision.py).          *)
(*                                                                         *)
(* An arm is a process per cell and writes into a directory of its own.    *)
(* SWE-agent, the container and the official evaluation are external.  A   *)
(* patch and a label carry the number of the execution they are of, and     *)
(* whether that ended cleanly.                                             *)
(***************************************************************************)
EXTENDS Naturals, FiniteSets

CONSTANTS Cells,           \* [anchor, arm, rep]
          MaxB1Executions,   \* bound: executions of arms, all cells together
          MaxKills,        \* bound: deaths of an arm's process
          MaxParallel      \* bound: arms under way at once

ASSUME CellsAssumption == \A c \in Cells : c.arm \in {"control", "treatment"}
ASSUME BoundsAssumption == MaxB1Executions \in Nat /\ MaxKills \in Nat /\ MaxParallel \in Nat

VARIABLES pc,       \* of the arm's process, per cell
          execs,    \* per cell, how often it was executed
          started,  \* executions, all cells together
          hook,     \* ProtocolB1InjectionHook of a run
          run,      \* locals of run_sweagent_b1_live_single once the run is over
          report,   \* b1_live_arm_report.json
          patch,    \* b1_live_arm.patch
          label,    \* the cell's row of the resolved labels
          kills,
          leaked,   \* history: executions whose capture overlapped the official test or the fix
          shown     \* history: executions whose agent was given the payload

history == <<leaked, shown>>
b1_vars == <<pc, execs, started, hook, run, report, patch, label, kills, history>>

Treated(c) == c.arm = "treatment"

-----------------------------------------------------------------------------
(* The hook.  A capture that fails leaves the issue's steps alone, which    *)
(* were scanned before the run: it does not leak.                          *)

NoHook == [attempted |-> FALSE, injected_count |-> 0, findings |-> FALSE]

\* ProtocolB1InjectionHook(...) in the adapter names no injector.
injector == "none"

capture(h, leak) == [h EXCEPT !.attempted = TRUE, !.findings = leak,
                              !.injected_count = IF leak THEN @ ELSE @ + 1]

\* Mutant: a capture is tried again at the next query.
maybe_capture_and_inject_Again(h, leak) ==
  IF h.injected_count = 0 THEN capture(h, leak) ELSE h
maybe_capture_and_inject(h, leak) ==
  IF h.injected_count = 0 /\ ~h.attempted THEN capture(h, leak) ELSE h

-----------------------------------------------------------------------------
NoRun == [exec |-> 0, pre_leak |-> FALSE, capture_leak |-> FALSE, count |-> 0,
          exit_ok |-> TRUE, submission |-> "none"]
NoReport == [state |-> "none", exec |-> 0, count |-> 0, leak |-> FALSE, exit_ok |-> TRUE]
TornReport == [state |-> "torn", exec |-> 0, count |-> 0, leak |-> FALSE, exit_ok |-> TRUE]
NoPatch == [exec |-> 0, clean |-> FALSE, resolves |-> FALSE]
NoLabel == [there |-> FALSE, exec |-> 0, clean |-> FALSE, resolved |-> FALSE]

B1Init == /\ pc = [c \in Cells |-> "idle"]
          /\ execs = [c \in Cells |-> 0] /\ started = 0
          /\ hook = [c \in Cells |-> NoHook]
          /\ run = [c \in Cells |-> NoRun]
          /\ report = [c \in Cells |-> NoReport]
          /\ patch = [c \in Cells |-> NoPatch]
          /\ label = [c \in Cells |-> NoLabel]
          /\ kills = 0
          /\ leaked = {} /\ shown = {}

-----------------------------------------------------------------------------
(* run_sweagent_b1_live_single.                                            *)

mayBegin(c) == pc[c] = "idle" /\ Cardinality({d \in Cells : pc[d] # "idle"}) < MaxParallel

\* No run: not asked for, not acknowledged, no config, or a treatment payload
\* that the scan before the run finds leaking (or missing).
skip_run(c, leak) ==
  /\ mayBegin(c)
  /\ leak => Treated(c)
  /\ run' = [run EXCEPT ![c] = [NoRun EXCEPT !.pre_leak = leak]]
  /\ pc' = [pc EXCEPT ![c] = "over"]
  /\ UNCHANGED <<execs, started, hook, report, patch, label, kills, history>>

\* A RunSingle that cannot be built is a start followed by run_raises.
start(c) ==
  /\ mayBegin(c) /\ started < MaxB1Executions
  /\ execs' = [execs EXCEPT ![c] = @ + 1]
  /\ started' = started + 1
  /\ pc' = [pc EXCEPT ![c] = "running"]
  /\ UNCHANGED <<hook, run, report, patch, label, kills, history>>

\* The agent queries the model, any number of times; leak is what the scan of
\* the capture would find this time.
on_model_query(c, leak) ==
  LET after == maybe_capture_and_inject(hook[c], leak)
      captured == after # hook[c]
      injected == after.injected_count > hook[c].injected_count
  IN  /\ pc[c] = "running" /\ Treated(c)
      /\ hook' = [hook EXCEPT ![c] = after]
      /\ leaked' = IF captured /\ leak THEN leaked \cup {<<c, execs[c]>>} ELSE leaked
      /\ shown' = IF injected /\ injector # "none" THEN shown \cup {<<c, execs[c]>>} ELSE shown
      /\ UNCHANGED <<pc, execs, started, run, report, patch, label, kills>>

\* run_single.run() returns, of itself or with an error that SWE-agent
\* swallowed into its exit status; what the hook found is read now.
run_returns(c, exit_ok, submission) ==
  /\ pc[c] = "running"
  /\ run' = [run EXCEPT ![c] = [exec |-> execs[c], pre_leak |-> FALSE,
                                capture_leak |-> hook[c].findings,
                                count |-> hook[c].injected_count,
                                exit_ok |-> exit_ok, submission |-> submission]]
  /\ pc' = [pc EXCEPT ![c] = "over"] /\ hook' = [hook EXCEPT ![c] = NoHook]
  /\ UNCHANGED <<execs, started, report, patch, label, kills, history>>

\* It raises: no exit status, no submission, and the findings stay unread.
run_raises(c) ==
  /\ pc[c] = "running"
  /\ run' = [run EXCEPT ![c] = [NoRun EXCEPT !.exec = execs[c], !.count = hook[c].injected_count]]
  /\ pc' = [pc EXCEPT ![c] = "over"] /\ hook' = [hook EXCEPT ![c] = NoHook]
  /\ UNCHANGED <<execs, started, report, patch, label, kills, history>>

\* A patch is archived if there was a submission; an older one stays.
archive(c) ==
  /\ pc[c] = "over"
  /\ patch' = IF run[c].submission = "none" THEN patch
              ELSE [patch EXCEPT ![c] = [exec |-> run[c].exec, clean |-> run[c].exit_ok,
                                         resolves |-> run[c].submission = "resolves"]]
  /\ pc' = [pc EXCEPT ![c] = "archived"]
  /\ UNCHANGED <<execs, started, hook, run, report, label, kills, history>>

write_report(c) ==
  /\ pc[c] = "archived"
  /\ report' = [report EXCEPT ![c] = [state |-> "whole", exec |-> run[c].exec,
                                      count |-> run[c].count,
                                      leak |-> run[c].pre_leak \/ run[c].capture_leak,
                                      exit_ok |-> run[c].exit_ok]]
  /\ pc' = [pc EXCEPT ![c] = "idle"] /\ run' = [run EXCEPT ![c] = NoRun]
  /\ UNCHANGED <<execs, started, hook, patch, label, kills, history>>

\* The process dies, perhaps with the report half written.
die(c) ==
  /\ pc[c] # "idle" /\ kills < MaxKills
  /\ kills' = kills + 1
  /\ \/ UNCHANGED report
     \/ pc[c] = "archived" /\ report' = [report EXCEPT ![c] = TornReport]
  /\ pc' = [pc EXCEPT ![c] = "idle"]
  /\ hook' = [hook EXCEPT ![c] = NoHook] /\ run' = [run EXCEPT ![c] = NoRun]
  /\ UNCHANGED <<execs, started, patch, label, history>>

\* The official evaluation of the patch that is in the arm's directory.
evaluate(c) ==
  /\ patch[c].exec > 0
  /\ label' = [label EXCEPT ![c] = [there |-> TRUE, exec |-> patch[c].exec,
                                    clean |-> patch[c].clean,
                                    resolved |-> patch[c].resolves]]
  /\ UNCHANGED <<pc, execs, started, hook, run, report, patch, kills, history>>

Arm(c) == \/ \E leak \in BOOLEAN : skip_run(c, leak) \/ on_model_query(c, leak)
          \/ start(c)
          \/ \E exit_ok \in BOOLEAN, submission \in {"none", "fails", "resolves"} :
                run_returns(c, exit_ok, submission)
          \/ run_raises(c) \/ archive(c) \/ write_report(c) \/ die(c)

B1Next == \E c \in Cells : Arm(c) \/ evaluate(c)

B1Spec == B1Init /\ [][B1Next]_b1_vars

-----------------------------------------------------------------------------
(* Cells and decision, of the files as they are.  The cells command fails   *)
(* on a torn report; an arm without a label is left out.                   *)

b1_assembled == {c \in Cells : report[c].state = "whole" /\ label[c].there}

\* Mutant: a crashed run is not told from a failed one.
run_ok_Always(c) == TRUE
run_ok(c) == report[c].exit_ok

\* Injected once, leak-clean and at the trigger: the one count says the first and the last.
valid(c) == Treated(c) /\ report[c].count = 1 /\ ~report[c].leak

Usable(anchor, arm) == {c \in b1_assembled : c.anchor = anchor /\ c.arm = arm /\ run_ok(c)}

anchor_verdict(anchor) ==
  LET controls == Usable(anchor, "control")
      treated == {c \in Usable(anchor, "treatment") : valid(c)}
  IN  IF controls = {} \/ \E c \in controls : label[c].resolved THEN "not_deterministic_fail"
      ELSE IF \E c \in controls : report[c].count # 0 THEN "control_contaminated"
      ELSE IF treated = {} THEN "not_counted"
      ELSE IF \E c \in treated : label[c].resolved THEN "signal_of_life" ELSE "no_uplift"

Anchors == {c.anchor : c \in Cells}

route_b1_decision ==
  LET verdicts == {anchor_verdict(a) : a \in Anchors}
  IN  IF \E c \in Cells : report[c].state = "torn" THEN "no_cells"
      ELSE IF "signal_of_life" \in verdicts THEN "signal_of_life"
      ELSE IF "no_uplift" \in verdicts THEN "futility_null"
      ELSE "inconclusive"

-----------------------------------------------------------------------------
(* Properties.                                                             *)

Submissions == {"none", "fails", "resolves"}
Executed == Cells \X Nat

\* Types, with what bounds a hook and a report: at most one injection, and
\* only of a payload that was captured (protocol_b1_hook.py:67).
TypeOK ==
  /\ pc \in [Cells -> {"idle", "running", "over", "archived"}]
  /\ execs \in [Cells -> Nat] /\ started \in Nat /\ kills \in Nat
  /\ hook \in [Cells -> [attempted : BOOLEAN, injected_count : {0, 1}, findings : BOOLEAN]]
  /\ run \in [Cells -> [exec : Nat, pre_leak : BOOLEAN, capture_leak : BOOLEAN, count : {0, 1},
                        exit_ok : BOOLEAN, submission : Submissions]]
  /\ report \in [Cells -> [state : {"none", "torn", "whole"}, exec : Nat, count : {0, 1},
                           leak : BOOLEAN, exit_ok : BOOLEAN]]
  /\ patch \in [Cells -> [exec : Nat, clean : BOOLEAN, resolves : BOOLEAN]]
  /\ label \in [Cells -> [there : BOOLEAN, exec : Nat, clean : BOOLEAN, resolved : BOOLEAN]]
  /\ leaked \subseteq Executed /\ shown \subseteq Executed

\* A treatment report that passes for valid is of an execution whose capture
\* did not leak, also if the run raised before the adapter read the hook's
\* findings (sweagent_b1_live.py:285, protocol_b1_hook.py:101).
LeakIsVoid ==
  \A c \in Cells : report[c].state = "whole" /\ valid(c) => <<c, report[c].exec>> \notin leaked

\* Every label used is of the execution that the report is of.
Consistent == \A c \in b1_assembled : label[c].exec = report[c].exec

\* What the runs behind the labels did, crashed and leaking ones left out.
Evidence(anchor, arm) ==
  {c \in b1_assembled : /\ c.anchor = anchor /\ c.arm = arm
                     /\ label[c].clean /\ <<c, label[c].exec>> \notin leaked}

ControlFails(anchor) == /\ Evidence(anchor, "control") # {}
                        /\ \A c \in Evidence(anchor, "control") : ~label[c].resolved

\* When reports and labels are of the same executions the decision rests on
\* what those did: a signal on a treatment run that resolved what every
\* control run failed, a null on a treatment run that counts, and no crashed
\* run passes for a failed one (route_b1_decision.py:124).
VerdictIsOfTheRuns ==
  Consistent =>
    /\ route_b1_decision = "signal_of_life" =>
         \E a \in Anchors : ControlFails(a) /\ \E c \in Evidence(a, "treatment") : label[c].resolved
    /\ route_b1_decision = "futility_null" =>
         \E a \in Anchors : ControlFails(a) /\ Evidence(a, "treatment") # {}

\* The docstring of sweagent_b1_live.py: the treatment injects the
\* reproduction once, so a rep that counts as treated was shown it.
CountedRepSawPayload ==
  \A c \in b1_assembled : valid(c) => <<c, report[c].exec>> \in shown

-----------------------------------------------------------------------------
(* The inductive invariant of LeakIsVoid: an execution that leaked injects *)
(* nothing, wherever its count is by now.                                  *)

\* A history knows no execution that has not begun; a cell's report and
\* locals are of earlier executions than the one that runs.
HistoryIsPast ==
  /\ \A e \in leaked : e[2] <= execs[e[1]]
  /\ \A c \in Cells : /\ run[c].exec <= execs[c] /\ report[c].exec <= execs[c]
                      /\ pc[c] = "running" => execs[c] > report[c].exec

HookRemembers ==
  \A c \in Cells : pc[c] = "running" /\ <<c, execs[c]>> \in leaked =>
                     hook[c].attempted /\ hook[c].injected_count = 0

LocalsRemember ==
  \A c \in Cells : pc[c] \in {"over", "archived"} /\ <<c, run[c].exec>> \in leaked =>
                     run[c].count = 0

ReportRemembers ==
  \A c \in Cells : report[c].state = "whole" /\ <<c, report[c].exec>> \in leaked =>
                     report[c].count = 0

IInv == TypeOK /\ HistoryIsPast /\ HookRemembers /\ LocalsRemember /\ ReportRemembers
=============================================================================
