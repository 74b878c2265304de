------------------------------ MODULE Executor ------------------------------
(***************************************************************************)
(* The runtime loop (aro_runtime/executor.py, execute_script) with its     *)
(* policy engine, tools and trace file, and replay of that file            *)
(* (aro_runtime/replay.py).  Events are flushed to the file one by one, so *)
(* a process that dies leaves any prefix of them.                          *)
(*                                                                         *)
(* Steps are numbered from 1.  Tools are read_file, write_file,            *)
(* apply_patch and shell; run_tests, web_fetch and summarize only read, as *)
(* read_file does.  A digest is the value digested.                        *)
(***************************************************************************)
EXTENDS Naturals, Sequences

CONSTANTS Scripts,      \* scripts, sequences of [tool, path, ref]
          Policies,     \* bundles, [rules, default]
          Workspaces    \* functions from paths to contents

VARIABLES script, policy, ws0,   \* what the run was started with
          st,                    \* locals of execute_script
          todo,                  \* events of the present step, not yet flushed
          trace,                 \* the trace file
          pc

exec_vars == <<script, policy, ws0, st, todo, trace, pc>>

NoContent == "absent"
NoOutput == "no output"

-----------------------------------------------------------------------------
(* _resolve_args, PolicyEngine.evaluate, TOOLS *)

RefOk(step, outputs) ==
  step.ref # 0 => step.ref <= Len(outputs) /\ outputs[step.ref] # NoOutput

Args(step, outputs) ==
  [tool |-> step.tool, path |-> step.path,
   content |-> IF step.ref = 0 THEN "text" ELSE outputs[step.ref]]

Matches(rule, args) == args.tool \in rule.tools /\ args.content \notin rule.unless

\* First matching rule, 0 if none.
RuleFor(pol, args) ==
  LET M == {i \in 1..Len(pol.rules) : Matches(pol.rules[i], args)}
  IN  IF M = {} THEN 0 ELSE CHOOSE i \in M : \A j \in M : i <= j

Verdict(pol, args) == IF RuleFor(pol, args) = 0 THEN pol.default
                      ELSE pol.rules[RuleFor(pol, args)].action

KnownTools == {"read_file", "write_file", "apply_patch", "shell"}

ToolOk(args, ws) == CASE args.tool = "read_file"   -> ws[args.path] # NoContent
                      [] args.tool = "apply_patch" -> ws[args.path] = "bug"
                      [] OTHER                     -> TRUE

Output(args, ws) == IF args.tool = "read_file" THEN ws[args.path] ELSE args.tool

Effect(args, ws) ==
  CASE args.tool = "write_file"  -> [ws EXCEPT ![args.path] = args.content]
    [] args.tool = "apply_patch" -> [ws EXCEPT ![args.path] = "fixed"]
    [] OTHER                     -> ws

-----------------------------------------------------------------------------
(* One iteration of the loop, from the locals s to the locals it leaves.   *)

Start(ws) == [ws |-> ws, outputs |-> << >>, steps |-> << >>, decisions |-> << >>,
              signals |-> << >>, evidence |-> << >>, artifacts |-> << >>, failed |-> FALSE]

StepRecord(input, output, error) == [input |-> input, output |-> output, error |-> error]

\* The step could not resolve its arguments.
RefError(s, step) ==
  [s EXCEPT !.outputs = Append(@, NoOutput), !.failed = TRUE,
            !.steps = Append(@, StepRecord(step, NoOutput, "ref"))]

\* The policy's part: a decision if a rule matched, a signal unless it allows.
Judged(pol, s, args) ==
  LET i == Len(s.steps) + 1
      rule == RuleFor(pol, args)
  IN  IF rule = 0 THEN s
      ELSE [s EXCEPT
              !.decisions = Append(@, [step |-> i, rule |-> rule, decision |-> Verdict(pol, args)]),
              !.signals = IF Verdict(pol, args) = "allow" THEN @ ELSE Append(@, i)]

Blocked(s, args) ==
  [s EXCEPT !.outputs = Append(@, NoOutput),
            !.steps = Append(@, StepRecord(args, NoOutput, "blocked"))]

Failed(s, args) ==
  [s EXCEPT !.outputs = Append(@, NoOutput), !.failed = TRUE,
            !.steps = Append(@, StepRecord(args, NoOutput, "tool"))]

Done(s, args) ==
  LET i == Len(s.steps) + 1
      out == Output(args, s.ws)
  IN  [s EXCEPT !.outputs = Append(@, out), !.ws = Effect(args, s.ws),
                !.steps = Append(@, StepRecord(args, out, "none")),
                !.evidence = Append(@, [step |-> i, digest |-> out]),
                !.artifacts = IF args.tool = "write_file"
                              THEN Append(@, [step |-> i, digest |-> args.content]) ELSE @]

\* Mutant: a denied step is recorded, and executed all the same.
Permitted_Always(verdict) == TRUE
Permitted(verdict) == verdict # "deny"

Iterate(pol, s, step) ==
  IF ~RefOk(step, s.outputs) THEN RefError(s, step)
  ELSE LET args == Args(step, s.outputs)
           judged == Judged(pol, s, args)
       IN  IF ~Permitted(Verdict(pol, args)) THEN Blocked(judged, args)
           ELSE IF ToolOk(args, s.ws) THEN Done(judged, args)
           ELSE Failed(judged, args)

\* What escapes the loop: a denial by the bundle's default reads rule.id of no
\* rule, and TOOLS has no such tool.
Escapes(pol, s, step) ==
  RefOk(step, s.outputs) /\
  LET args == Args(step, s.outputs)
  IN  IF Permitted(Verdict(pol, args)) THEN args.tool \notin KnownTools
                                       ELSE RuleFor(pol, args) = 0

\* The events of an iteration from s to t, in the order of the code.
New(old, new, type) ==
  IF Len(new) > Len(old) THEN <<[type |-> type, payload |-> new[Len(new)]]>> ELSE << >>

\* Mutants: the step is logged before what it rests on; no artifact event.
EventsOf_StepFirst(s, t) ==
  New(s.steps, t.steps, "step") \o
  New(s.decisions, t.decisions, "policy_decision") \o New(s.signals, t.signals, "risk_signal")
  \o New(s.evidence, t.evidence, "evidence") \o New(s.artifacts, t.artifacts, "artifact")
EventsOf_NoArtifact(s, t) ==
  New(s.decisions, t.decisions, "policy_decision") \o New(s.signals, t.signals, "risk_signal")
  \o New(s.evidence, t.evidence, "evidence") \o New(s.steps, t.steps, "step")
EventsOf(s, t) ==
  New(s.decisions, t.decisions, "policy_decision") \o New(s.signals, t.signals, "risk_signal")
  \o New(s.evidence, t.evidence, "evidence") \o New(s.artifacts, t.artifacts, "artifact")
  \o New(s.steps, t.steps, "step")

-----------------------------------------------------------------------------
(* load_trace and replay_trace *)

NoEvents == [steps |-> << >>, decisions |-> << >>, signals |-> << >>, evidence |-> << >>,
             artifacts |-> << >>]

\* What a line of the file adds to the record.
Read(rec, line) ==
  CASE line.type = "step"            -> [rec EXCEPT !.steps = Append(@, line.payload)]
    [] line.type = "policy_decision" -> [rec EXCEPT !.decisions = Append(@, line.payload)]
    [] line.type = "risk_signal"     -> [rec EXCEPT !.signals = Append(@, line.payload)]
    [] line.type = "evidence"        -> [rec EXCEPT !.evidence = Append(@, line.payload)]
    [] line.type = "artifact"        -> [rec EXCEPT !.artifacts = Append(@, line.payload)]
    [] OTHER                         -> rec

\* What load_trace makes of a file it can read.
Loaded(tr) ==
  LET read[k \in 0..Len(tr)] == IF k = 0 THEN NoEvents ELSE Read(read[k - 1], tr[k])
  IN  read[Len(tr)]

\* Mutant: the workspace the run has used already.
ReplayWorkspace_Used(ws, s) == s.ws
ReplayWorkspace(ws, s) == ws

\* The locals after n iterations of the loop.
Executed(steps, pol, ws, n) ==
  LET run[k \in 0..n] == IF k = 0 THEN Start(ws) ELSE Iterate(pol, run[k - 1], steps[k])
  IN  run[n]

\* execute_script again, the header's script and policy on a fresh workspace.
Fresh(n) == Executed(script, policy, ReplayWorkspace(ws0, st), n)

DecisionAt(decisions, i) == {[rule |-> d.rule, decision |-> d.decision] :
                               d \in {decisions[k] : k \in {j \in 1..Len(decisions) :
                                                              decisions[j].step = i}}}

Divergences(tr) ==
  LET rec == Loaded(tr)
      new == Fresh(Len(script))
      both == 1..Len(rec.steps)
  IN  {<<i, "extra_step">> : i \in (Len(rec.steps) + 1)..Len(new.steps)}
      \cup {<<i, "input_digest">> : i \in {j \in both : rec.steps[j].input # new.steps[j].input}}
      \cup {<<i, "output_digest">> : i \in {j \in both : rec.steps[j].output # new.steps[j].output}}
      \cup {<<i, "error">> : i \in {j \in both : rec.steps[j].error # new.steps[j].error}}
      \cup {<<i, "policy_decision">> : i \in {j \in both :
              DecisionAt(rec.decisions, j) # DecisionAt(new.decisions, j)}}

-----------------------------------------------------------------------------
ExecInit ==
  /\ script \in Scripts /\ policy \in Policies /\ ws0 \in Workspaces
  /\ st = Start(ws0)
  /\ todo = <<[type |-> "run_start", payload |-> "header"]>>
  /\ trace = << >>              \* opened with mode "w"
  /\ pc = "running"

\* writer.event: one line, flushed.
event == /\ pc # "crashed" /\ todo # << >>
         /\ trace' = Append(trace, Head(todo))
         /\ todo' = Tail(todo)
         /\ UNCHANGED <<script, policy, ws0, st, pc>>

Next_i == Len(st.steps) + 1

iterate ==
  /\ pc = "running" /\ todo = << >> /\ Len(st.steps) < Len(script)
  /\ ~Escapes(policy, st, script[Next_i])
  /\ st' = Iterate(policy, st, script[Next_i])
  /\ todo' = EventsOf(st, st')
  /\ UNCHANGED <<script, policy, ws0, trace, pc>>

\* The policy's events still go out; neither the step's nor the end of the run follow.
escape ==
  /\ pc = "running" /\ todo = << >> /\ Len(st.steps) < Len(script)
  /\ Escapes(policy, st, script[Next_i])
  /\ st' = Judged(policy, st, Args(script[Next_i], st.outputs))
  /\ todo' = EventsOf(st, st')
  /\ pc' = "escaped"
  /\ UNCHANGED <<script, policy, ws0, trace>>

run_end ==
  /\ pc = "running" /\ todo = << >> /\ Len(st.steps) = Len(script)
  /\ todo' = <<[type |-> "run_end", payload |-> IF st.failed THEN "failed" ELSE "completed"]>>
  /\ pc' = "ending"
  /\ UNCHANGED <<script, policy, ws0, st, trace>>

crash == /\ pc \in {"running", "ending"} /\ todo # << >>
         /\ pc' = "crashed"
         /\ UNCHANGED <<script, policy, ws0, st, todo, trace>>

\* The worker executes the run again, also when it died on the way out of the loop: the
\* file is truncated.
execute_again ==
  /\ pc \in {"crashed", "escaped"}
  /\ st' = Start(ws0) /\ trace' = << >> /\ pc' = "running"
  /\ todo' = <<[type |-> "run_start", payload |-> "header"]>>
  /\ UNCHANGED <<script, policy, ws0>>

ExecNext == event \/ iterate \/ escape \/ run_end \/ crash \/ execute_again

ExecSpec == ExecInit /\ [][ExecNext]_exec_vars
-----------------------------------------------------------------------------
(* Properties *)

Ended == pc = "ending" /\ todo = << >>

\* What the store saves of a run.
Record(s) == [steps |-> s.steps, decisions |-> s.decisions, signals |-> s.signals,
              evidence |-> s.evidence, artifacts |-> s.artifacts]

\* The finished trace file holds the whole record that is saved in the store.
TraceIsRecord == Ended => Loaded(trace) = Record(st)

\* However the file is cut off by a crash: a step it shows is shown with the
\* policy decision it was let through or blocked by, with the risk signal, and
\* with evidence of its output and artifact.
CutTraceIsSound ==
  LET rec == Loaded(trace)
      shown == Len(rec.steps)
      Keeps(part, whole) ==
        /\ Len(part) <= Len(whole) /\ \A i \in 1..Len(part) : part[i] = whole[i]
        /\ \A i \in 1..Len(whole) : whole[i].step <= shown => i <= Len(part)
  IN  /\ Keeps(rec.decisions, st.decisions)
      /\ Keeps(rec.evidence, st.evidence) /\ Keeps(rec.artifacts, st.artifacts)
      /\ \A i \in 1..Len(st.signals) : st.signals[i] <= shown => i <= Len(rec.signals)

\* Replay finds every step a crash has cut off, and nothing else: as far as the
\* trace goes it is reproduced, and a finished one without divergence.
ReplayFindsTheCut ==
  trace # << >> /\ (\A i \in 1..Len(script) : ~Escapes(policy, Fresh(i - 1), script[i])) =>
     Divergences(trace) =
       {<<i, "extra_step">> : i \in (Len(Loaded(trace).steps) + 1)..Len(script)}

\* A file in the workspace differs from what the run was given only if a step
\* that was not denied says so, and its evidence is on record.
ChangesAreAccounted ==
  \A p \in DOMAIN ws0 :
     st.ws[p] # ws0[p] =>
        \E i \in 1..Len(st.steps) :
           /\ st.steps[i].input.path = p /\ st.steps[i].error = "none"
           /\ \A k \in 1..Len(st.decisions) :
                 st.decisions[k].step = i => st.decisions[k].decision # "deny"
           /\ \E k \in 1..Len(st.evidence) : st.evidence[k].step = i
=============================================================================
