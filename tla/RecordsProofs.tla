--------------------------- MODULE RecordsProofs ---------------------------
(* Proofs about what is recorded and relied on later: the snapshots of agent *)
(* state (StateSnapshot), the capsules of a Phase 6 pair (CapsulePair), the  *)
(* protocol documents (Protocols) and the outcomes of a batch (Outcomes).    *)
EXTENDS StateSnapshot, CapsulePair, Protocols, Outcomes, FiniteSetTheorems, TLAPS

-----------------------------------------------------------------------------
(* Snapshots.  For any files, contents and number of operations: a restore   *)
(* that returns is proved.  IInv says what the verification and the proof    *)
(* have established of the files they have been through.                     *)

LEMMA InitIInv == Init => IInv
<1> SUFFICES ASSUME Init PROVE IInv
  OBVIOUS
<1>1. stored \in [Files -> Contents \cup {Absent}]
  BY DEF Init
<1>2. manifest \in [there : BOOLEAN, hash : [Files -> Contents],
                   origin : [Files -> Contents], quiet : BOOLEAN]
  BY DEF Init
<1>3. TypeOK
  BY <1>1, <1>2 DEF Init, TypeOK, Idle, OtherProc
<1>4. ManifestIsAMoment
  BY DEF Init, ManifestIsAMoment
<1>5. ProofSoFar
  BY DEF Init, ProofSoFar, Idle
<1>6. QED
  BY <1>3, <1>4, <1>5 DEF IInv

\* take_snapshot: the files hashed so far are as they were when it began, if
\* the agent left them alone.
LEMMA TakeKeepsIInv == IInv /\ Take => IInv'
<1> SUFFICES ASSUME IInv, Take PROVE IInv'
  OBVIOUS
<1> USE DEF IInv, TypeOK, ManifestIsAMoment, ProofSoFar
<1>1. CASE take_begin
  <2>1. proc' \in TakeProc
    BY <1>1 DEF take_begin, Begin, TakeProc
  <2>2. QED
    BY <1>1, <2>1 DEF take_begin, Begin, TakeProc
<1>2. ASSUME NEW f \in Files, take_copy(f) PROVE IInv'
  <2>1. proc \in TakeProc /\ proc' \in HashProc
    BY <1>2 DEF take_copy, TakeProc, HashProc, RestoreProc, OtherProc
  <2>2. QED
    BY <1>2, <2>1 DEF take_copy, TakeProc, HashProc
<1>3. CASE take_hash
  <2>1. proc \in HashProc /\ proc' \in TakeProc
    BY <1>3 DEF take_hash, TakeProc, HashProc, RestoreProc, OtherProc
  <2>2. QED
    BY <1>3, <2>1 DEF take_hash, TakeProc, HashProc
<1>4. CASE take_manifest
  <2>1. proc \in TakeProc
    BY <1>4 DEF take_manifest, TakeProc, HashProc, RestoreProc, OtherProc
  <2>2. quiet => proc.hash = proc.origin
    BY <1>4, <2>1 DEF take_manifest, TakeProc
  <2>3. QED
    BY <1>4, <2>1, <2>2 DEF take_manifest, Idle, OtherProc, TakeProc
<1>5. QED
  BY <1>1, <1>2, <1>3, <1>4 DEF Take

\* restore_snapshot: the files proved so far are as the manifest has them.
LEMMA RestoreKeepsIInv == IInv /\ Restore => IInv'
<1> SUFFICES ASSUME IInv, Restore PROVE IInv'
  OBVIOUS
<1> USE DEF IInv, TypeOK, ManifestIsAMoment, ProofSoFar
<1>1. CASE restore_begin
  <2>1. proc' \in RestoreProc
    BY <1>1 DEF restore_begin, Begin, RestoreProc
  <2>2. QED
    BY <1>1, <2>1 DEF restore_begin, Begin, RestoreProc
<1>2. CASE restore_return
  BY <1>2 DEF restore_return, Idle, OtherProc
<1>3. ASSUME NEW f \in Files, restore_verify(f) PROVE IInv'
  <2>1. proc \in RestoreProc /\ proc' \in RestoreProc \cup OtherProc
    BY <1>3 DEF restore_verify, TakeProc, HashProc, RestoreProc, OtherProc, Idle
  <2>2. QED
    BY <1>3, <2>1 DEF restore_verify, RestoreProc, OtherProc, Idle
<1>4. ASSUME NEW f \in Files, restore_copy(f) PROVE IInv'
  <2>1. proc \in RestoreProc /\ proc' \in RestoreProc
    BY <1>4 DEF restore_copy, TakeProc, HashProc, RestoreProc, OtherProc
  <2>2. live' \in [Files -> Contents]
    BY <1>4 DEF restore_copy
  <2>3. QED
    BY <1>4, <2>1, <2>2 DEF restore_copy, RestoreProc
<1>5. ASSUME NEW f \in Files, restore_prove(f) PROVE IInv'
  <2>1. proc \in RestoreProc /\ proc' \in RestoreProc \cup OtherProc
    BY <1>5 DEF restore_prove, TakeProc, HashProc, RestoreProc, OtherProc, Idle
  <2>2. ProofSoFar'
    <3>1. CASE ~Restored(f)
      BY <1>5, <3>1 DEF restore_prove, Idle
    <3>2. CASE Restored(f) /\ proc.todo = {f}
      <4>1. quiet => live = manifest.hash
        BY <1>5, <3>2 DEF restore_prove, Restored
      <4>2. QED
        BY <1>5, <3>2, <4>1 DEF restore_prove
    <3>3. CASE Restored(f) /\ proc.todo # {f}
      BY <1>5, <3>3 DEF restore_prove, Restored
    <3>4. QED
      BY <3>1, <3>2, <3>3
  <2>3. QED
    BY <1>5, <2>1, <2>2 DEF restore_prove
<1>6. QED
  BY <1>1, <1>2, <1>3, <1>4, <1>5 DEF Restore

\* A write of the agent ends the quiet; damage to a copy touches nothing that
\* has been established.
LEMMA OthersKeepIInv == IInv /\ (agent_write \/ damage \/ die \/ UNCHANGED vars) => IInv'
<1> SUFFICES ASSUME IInv, agent_write \/ damage \/ die \/ UNCHANGED vars PROVE IInv'
  OBVIOUS
<1> USE DEF IInv, TypeOK, ManifestIsAMoment, ProofSoFar
<1>1. CASE agent_write
  <2>1. live' \in [Files -> Contents]
    BY <1>1 DEF agent_write
  <2>2. quiet' = FALSE /\ writes' \in Nat /\ UNCHANGED <<stored, manifest, proc, ops>>
    BY <1>1 DEF agent_write
  <2>3. TypeOK'
    BY <2>1, <2>2
  <2>4. ManifestIsAMoment' /\ ProofSoFar'
    BY <2>2
  <2>5. QED
    BY <2>3, <2>4
<1>2. CASE damage
  <2>1. stored' \in [Files -> Contents \cup {Absent}]
    BY <1>2 DEF damage
  <2>2. QED
    BY <1>2, <2>1 DEF damage
<1>3. CASE die
  BY <1>3 DEF die, Idle, OtherProc
<1>4. CASE UNCHANGED vars
  BY <1>4 DEF vars
<1>5. QED
  BY <1>1, <1>2, <1>3, <1>4

LEMMA NextKeepsIInv == IInv /\ [Next]_vars => IInv'
  BY TakeKeepsIInv, RestoreKeepsIInv, OthersKeepIInv DEF Next

LEMMA IInvAlways == Spec => []IInv
  BY InitIInv, NextKeepsIInv, PTL DEF Spec

\* Type correctness of snapshots, of any files and contents.
THEOREM SnapshotTypeCorrect == Spec => []TypeOK
<1>1. IInv => TypeOK
  BY DEF IInv
<1>2. QED
  BY IInvAlways, <1>1, PTL

\* restore_snapshot returns only when the live files are, all of them, what the
\* agent had when the snapshot was taken.
THEOREM RestoreProved == Spec => []RestoreIsProved
<1>1. IInv => RestoreIsProved
  BY DEF IInv, ManifestIsAMoment, ProofSoFar, RestoreIsProved
<1>2. QED
  BY IInvAlways, <1>1, PTL

-----------------------------------------------------------------------------
(* The capsule pair, for any candidates, states and endings, any number of   *)
(* replay actions, and without bound on the executions, the evaluations and  *)
(* the deaths of commands.                                                   *)

\* A capsule that is missing is of no state, and a recording has a length.
Recorded == /\ None \notin States /\ Replay \in Nat
            /\ \A e \in Endings : e.error \in BOOLEAN

Capsules == States \cup {None}
Execution == [arm : Arms, reference : Capsules, trigger : BOOLEAN, capsule : Capsules,
              injected : SUBSET Nat, error : BOOLEAN]
Directory == [patch : Nat, files : Nat, capsule : Nat, events : Nat, report : Nat, sha : Nat]

Writing == {"archive", "files", "capsule", "events", "report", "reported"}
Querying == [pc : {"query"}, arm : Arms, by : {"operator", "preflight"}, reference : Capsules,
             trigger : BOOLEAN, query : Nat, capsule : Capsules, injected : SUBSET Nat]

-----------------------------------------------------------------------------
(* The invariant.                                                          *)

\* An execution, or a run under way, is injected only as InjectedAtTheFork has
\* it; a treatment always refers to a capsule, which the control materialized.
Forked(run) ==
  /\ run.injected # {} => /\ run.arm = "treatment" /\ run.trigger /\ run.injected = {Replay}
                          /\ run.capsule = run.reference
  /\ run.arm = "treatment" => run.reference \in States

RunsAreForked == ex \in Seq(Execution) /\ \A n \in 1..Len(ex) : Forked(ex[n])

\* What a directory holds is of executions of its arm; a capsule file is of one
\* that materialized a capsule.
FilesAreOfArm ==
  /\ dirs \in [Arms -> Directory] /\ native \in Nat
  /\ \A a \in Arms :
       /\ dirs[a].report # 0 => dirs[a].report \in 1..Len(ex) /\ ex[dirs[a].report].arm = a
       /\ dirs[a].capsule # 0 => /\ dirs[a].capsule \in 1..Len(ex)
                                 /\ ex[dirs[a].capsule].capsule \in States

\* Until a run has its capsule it was not injected, and has not gone past the
\* first query that generates.
ProcIsForked ==
  /\ command.pc = "query" =>
       /\ command \in Querying /\ Forked(command)
       /\ command.capsule = None => command.injected = {} /\ command.query <= Replay
  /\ command.pc \in Writing =>
       /\ command \in [pc : Writing, arm : Arms, by : {"operator", "preflight"}]
       /\ ex # << >> /\ Last.arm = command.arm
  /\ command.pc \in {"pair", "pair_summary"} => DOMAIN command = {"pc", "by"}
  /\ command.pc \in {"control_eval", "treatment_eval", "import"} =>
       DOMAIN command = {"pc", "run", "ack", "predicted", "failed"}

\* Of executions that have been.
Past(of) == \A a \in Arms : of[a] \in 0..Len(ex)

PairIsComparable ==
  /\ DOMAIN pair = {"decision", "fork", "injected", "of", "whole"}
  /\ pair.decision = "ready" /\ pair.whole => Past(pair.of) /\ Comparable(pair.of)

EvalIsComparable ==
  /\ DOMAIN oe = {"predictions", "logs", "report", "summary", "official"}
  /\ oe.report.decision = "outcome_label_ready" /\ oe.report.whole =>
       Past(oe.report.of) /\ Comparable(oe.report.of)

CInv == RunsAreForked /\ FilesAreOfArm /\ ProcIsForked /\ PairIsComparable /\ EvalIsComparable

-----------------------------------------------------------------------------
(* The invariant, action by action                                         *)

LEMMA InitCInv == ASSUME Recorded PROVE CapsuleInit => CInv
<1> SUFFICES ASSUME CapsuleInit PROVE CInv
  OBVIOUS
<1>1. RunsAreForked /\ FilesAreOfArm
  BY DEF CapsuleInit, RunsAreForked, FilesAreOfArm, NoDir, Directory
<1>2. ProcIsForked
  BY DEF CapsuleInit, ProcIsForked, NoCommand, Writing
<1>3. PairIsComparable /\ EvalIsComparable
  BY DEF CapsuleInit, PairIsComparable, EvalIsComparable, NoPair, NoEval
<1>4. QED
  BY <1>1, <1>2, <1>3 DEF CInv

LEMMA TriggerIsBoolean == \A c : triggers(c) \in BOOLEAN
  BY DEF triggers, evaluate_trigger

\* A run begins without capsule, before its first query; a treatment does with
\* the state of the control's capsule.
LEMMA BeginIsForked ==
  ASSUME Recorded, NEW a \in Arms, NEW by \in {"operator", "preflight"}, NEW reference \in Capsules,
         NEW c, a = "treatment" => reference \in States, command' = begin(a, by, reference, c)
  PROVE  ProcIsForked'
<1> DEFINE trigger == triggers(c)
<1>1. trigger \in BOOLEAN
  BY TriggerIsBoolean
<1>2. command' = [pc |-> "query", arm |-> a, by |-> by, reference |-> reference, trigger |-> trigger,
               query |-> 0, capsule |-> None, injected |-> {}]
  BY DEF begin
<1> HIDE DEF trigger
<1>3. command' \in Querying /\ command'.injected = {} /\ command'.query = 0
      /\ command'.arm = a /\ command'.reference = reference
  BY <1>1, <1>2 DEF Querying, Capsules
<1>4. Forked(command')
  BY <1>3 DEF Forked
<1>5. command'.pc = "query"
  BY <1>2
<1>6. QED
  BY <1>3, <1>4, <1>5 DEF Recorded, ProcIsForked, Writing, Forked

\* A query of the model injects at the fork or not at all.
LEMMA QueryIsForked ==
  ASSUME Recorded, NEW run \in Querying, Forked(run), NEW state \in States,
         run.capsule = None => run.injected = {} /\ run.query <= Replay
  PROVE  LET after == [on_model_query(run, state) EXCEPT !.query = @ + 1]
         IN  /\ after \in Querying /\ Forked(after)
             /\ after.capsule = None => after.injected = {} /\ after.query <= Replay
<1> DEFINE after == [on_model_query(run, state) EXCEPT !.query = @ + 1]
<1>1. CASE ~generating(run) \/ run.capsule # None
  <2>1. after = [run EXCEPT !.query = @ + 1]
    BY <1>1 DEF on_model_query
  <2>2. /\ after \in Querying /\ after.query = run.query + 1 /\ after.capsule = run.capsule
        /\ after.injected = run.injected /\ after.arm = run.arm /\ after.trigger = run.trigger
        /\ after.reference = run.reference
    BY <2>1 DEF Querying
  <2>3. run.query \in Nat /\ Replay \in Nat
    BY DEF Querying, Recorded
  <2>4. after.capsule = None => after.query <= Replay
    BY <1>1, <2>2, <2>3 DEF generating
  <2> HIDE DEF after
  <2>5. QED
    BY <2>2, <2>4 DEF Forked, after
<1>2. CASE generating(run) /\ run.capsule = None
  <2> DEFINE inject == /\ run.arm = "treatment" /\ run.trigger
                       /\ verify_fork_equivalence(run.reference, state)
                       /\ run.injected = {}
             injected == run.injected \cup (IF inject THEN {run.query} ELSE {})
  <2>1. after = [[run EXCEPT !.capsule = state, !.injected = injected] EXCEPT !.query = @ + 1]
    BY <1>2 DEF on_model_query
  <2>2. run.query = Replay /\ run.injected = {}
    BY <1>2 DEF generating, Querying, Recorded
  <2>3. injected = IF inject THEN {Replay} ELSE {}
    BY <2>2
  <2>4. inject => run.arm = "treatment" /\ run.trigger /\ state = run.reference
    BY DEF verify_fork_equivalence, Forked, Recorded
  <2>5. injected \in SUBSET Nat
    BY <2>3 DEF Recorded
  <2> HIDE DEF injected, inject
  <2> DEFINE materialized == [run EXCEPT !.capsule = state, !.injected = injected]
  <2>6. /\ materialized \in Querying /\ materialized.capsule = state
         /\ materialized.injected = injected /\ materialized.arm = run.arm
         /\ materialized.trigger = run.trigger /\ materialized.reference = run.reference
    BY <2>5 DEF Querying, Capsules
  <2>7. after = [materialized EXCEPT !.query = @ + 1]
    BY <2>1
  <2> HIDE DEF materialized, after
  <2>8. /\ after \in Querying /\ after.capsule = state
        /\ after.injected = injected /\ after.arm = run.arm /\ after.trigger = run.trigger
        /\ after.reference = run.reference
    BY <2>6, <2>7 DEF Querying
  <2>9. after.capsule # None
    BY <2>8 DEF Recorded
  <2>10. Forked(after)
    BY <2>3, <2>4, <2>8 DEF Forked
  <2>11. QED
    BY <2>8, <2>9, <2>10 DEF after
<1>3. QED
  BY <1>1, <1>2

\* Executions that have been stay what they were.
LEMMA PastIsKept ==
  ASSUME ex \in Seq(Execution), NEW e \in Execution, ex' = Append(ex, e), NEW of, Past(of)
  PROVE  Past(of)' /\ (Comparable(of) => Comparable(of)')
<1>1. /\ Len(ex) \in Nat /\ Len(ex') = Len(ex) + 1
      /\ \A n \in 1..Len(ex) : ex'[n] = ex[n]
  OBVIOUS
<1>2. Past(of)'
  BY <1>1 DEF Past
<1>3. Comparable(of) => /\ of["control"] \in 1..Len(ex) /\ of["treatment"] \in 1..Len(ex)
  BY <1>1 DEF Comparable, Past, Arms
<1>4. ASSUME Comparable(of) PROVE Comparable(of)'
  BY <1>1, <1>3, <1>4 DEF Comparable, Run
<1>5. QED
  BY <1>2, <1>4

\* What does not depend on the command at work.
Recordings == RunsAreForked /\ FilesAreOfArm
Reports == PairIsComparable /\ EvalIsComparable

LEMMA RecordingsFrame ==
  ASSUME Recordings, UNCHANGED <<ex, native, dirs>> PROVE Recordings'
  BY DEF Recordings, RunsAreForked, FilesAreOfArm, Forked

LEMMA ReportsFrame ==
  ASSUME Reports, UNCHANGED <<ex, pair, oe>> PROVE Reports'
  BY DEF Reports, PairIsComparable, EvalIsComparable, Past, Comparable, Run

LEMMA QueryKeeps == ASSUME Recorded, CInv, query PROVE CInv'
<1>1. UNCHANGED <<ex, native, dirs, pair, oe>> /\ command.pc = "query"
  BY DEF query
<1>2. PICK state \in States : command' = [on_model_query(command, state) EXCEPT !.query = @ + 1]
  BY DEF query
<1>3. /\ command' \in Querying /\ Forked(command')
      /\ command'.capsule = None => command'.injected = {} /\ command'.query <= Replay
  BY <1>1, <1>2, QueryIsForked DEF CInv, ProcIsForked
<1>4. ProcIsForked'
  <2>1. command'.pc = "query"
    BY <1>3 DEF Querying
  <2>2. Forked(command)'
    BY <1>3 DEF Forked
  <2>3. QED
    BY <1>3, <2>1, <2>2 DEF ProcIsForked, Writing
<1>5. QED
  BY <1>1, <1>4, RecordingsFrame, ReportsFrame DEF CInv, Recordings, Reports

\* What is recorded of a run is what its hook did.
LEMMA RunDoneKeeps == ASSUME Recorded, CInv, run_done PROVE CInv'
<1>1. /\ command.pc = "query" /\ UNCHANGED <<dirs, pair, oe>>
      /\ command' = [pc |-> "archive", arm |-> command.arm, by |-> command.by]
  BY DEF run_done
<1>2. PICK e \in Endings :
         ex' = Append(ex, [arm |-> command.arm, reference |-> command.reference, trigger |-> command.trigger,
                           capsule |-> command.capsule, injected |-> command.injected, error |-> e.error])
  BY DEF run_done
<1> DEFINE r == [arm |-> command.arm, reference |-> command.reference, trigger |-> command.trigger,
                 capsule |-> command.capsule, injected |-> command.injected, error |-> e.error]
<1>3. command \in Querying /\ Forked(command)
  BY <1>1 DEF CInv, ProcIsForked
<1>4. /\ r \in Execution /\ r.arm = command.arm /\ r.reference = command.reference
      /\ r.trigger = command.trigger /\ r.capsule = command.capsule /\ r.injected = command.injected
  BY <1>3 DEF Recorded, Querying, Execution
<1>5. ex' = Append(ex, r)
  BY <1>2
<1> HIDE DEF r
<1>6. ex \in Seq(Execution)
  BY DEF CInv, RunsAreForked
<1>7. /\ ex' \in Seq(Execution) /\ Len(ex) \in Nat /\ Len(ex') = Len(ex) + 1 /\ ex' # << >>
      /\ ex'[Len(ex')] = r /\ \A n \in 1..Len(ex) : n \in 1..Len(ex') /\ ex'[n] = ex[n]
  BY <1>4, <1>5, <1>6
<1>8. Forked(r)
  BY <1>3, <1>4 DEF Forked
<1>9. RunsAreForked'
  <2>1. SUFFICES ASSUME NEW n \in 1..Len(ex') PROVE Forked(ex'[n])
    BY <1>7 DEF RunsAreForked, Forked
  <2>2. CASE n \in 1..Len(ex)
    BY <1>7, <2>2 DEF CInv, RunsAreForked
  <2>3. CASE n = Len(ex')
    BY <1>7, <1>8, <2>3
  <2>4. QED
    BY <1>7, <2>2, <2>3
<1>10. FilesAreOfArm'
  <2>1. native' \in Nat
    BY <1>7 DEF run_done, CInv, FilesAreOfArm
  <2>2. QED
    BY <1>1, <1>7, <2>1 DEF CInv, FilesAreOfArm
<1>11. ProcIsForked'
  <2>1. /\ command' \in [pc : Writing, arm : Arms, by : {"operator", "preflight"}]
        /\ command'.pc = "archive" /\ command'.arm = command.arm
    BY <1>1, <1>3 DEF Writing, Querying
  <2>2. Last'.arm = command'.arm
    BY <1>4, <1>7, <2>1 DEF Last
  <2>3. QED
    BY <1>7, <2>1, <2>2 DEF ProcIsForked, Writing
<1>12. PairIsComparable' /\ EvalIsComparable'
  BY <1>1, <1>4, <1>5, <1>6, PastIsKept DEF CInv, PairIsComparable, EvalIsComparable
<1>13. QED
  BY <1>9, <1>10, <1>11, <1>12 DEF CInv

\* A write of an arm: into its own directory, of the execution that is done.
LEMMA WriteKeeps ==
  ASSUME CInv, command.pc \in Writing, NEW next \in Writing, NEW d \in Directory,
         UNCHANGED <<ex, native, pair, oe>>, dirs' = [dirs EXCEPT ![command.arm] = d],
         command' = [command EXCEPT !.pc = next],
         d.report \in {dir.report, Len(ex)},
         d.capsule = dir.capsule \/ (d.capsule = Len(ex) /\ Last.capsule \in States)
  PROVE  CInv'
<1>1. /\ command \in [pc : Writing, arm : Arms, by : {"operator", "preflight"}]
      /\ ex # << >> /\ Last.arm = command.arm
  BY DEF CInv, ProcIsForked
<1>2. ex \in Seq(Execution) /\ dirs \in [Arms -> Directory] /\ native \in Nat
  BY DEF CInv, RunsAreForked, FilesAreOfArm
<1>3. Len(ex) \in 1..Len(ex) /\ ex[Len(ex)].arm = command.arm
  BY <1>1, <1>2 DEF Last
<1>4. \A a \in Arms : dirs'[a] = IF a = command.arm THEN d ELSE dirs[a]
  BY <1>2
<1>5. FilesAreOfArm'
  <2>1. dirs' \in [Arms -> Directory] /\ native' \in Nat
    BY <1>2
  <2>2. ASSUME NEW a \in Arms
        PROVE  /\ dirs'[a].report # 0 => dirs'[a].report \in 1..Len(ex) /\ ex[dirs'[a].report].arm = a
               /\ dirs'[a].capsule # 0 => /\ dirs'[a].capsule \in 1..Len(ex)
                                          /\ ex[dirs'[a].capsule].capsule \in States
    BY <1>3, <1>4 DEF CInv, FilesAreOfArm, dir, Last
  <2>3. QED
    BY <2>1, <2>2 DEF FilesAreOfArm
<1>6. RunsAreForked'
  BY DEF CInv, RunsAreForked, Forked
<1>7. ProcIsForked'
  <2>1. /\ command' \in [pc : Writing, arm : Arms, by : {"operator", "preflight"}]
        /\ command'.pc = next /\ command'.arm = command.arm
    BY <1>1
  <2>2. QED
    BY <1>1, <2>1 DEF ProcIsForked, Writing, Last
<1>8. QED
  BY <1>5, <1>6, <1>7, ReportsFrame DEF CInv, Reports

LEMMA ArmWritesKeep ==
  ASSUME CInv, archive \/ write_files \/ write_capsule \/ write_events \/ write_report
  PROVE  CInv'
<1>1. command.pc \in Writing
  BY DEF archive, write_files, write_capsule, write_events, write_report, Writing
<1>2. /\ dir \in Directory /\ native \in Nat /\ Len(ex) \in Nat
      /\ ex[Len(ex)] \in Execution /\ UNCHANGED <<ex, native, pair, oe>>
  BY <1>1 DEF CInv, ProcIsForked, FilesAreOfArm, RunsAreForked, dir, archive, write_files,
              write_capsule, write_events, write_report, write
<1>3. \A d \in Directory, next \in Writing :
        /\ dirs' = [dirs EXCEPT ![command.arm] = d] /\ command' = [command EXCEPT !.pc = next]
        /\ d.report \in {dir.report, Len(ex)}
        /\ d.capsule = dir.capsule \/ (d.capsule = Len(ex) /\ Last.capsule \in States)
        => CInv'
  BY <1>1, <1>2, WriteKeeps
<1>4. /\ "files" \in Writing /\ "capsule" \in Writing /\ "events" \in Writing
      /\ "report" \in Writing /\ "reported" \in Writing
  BY DEF Writing
<1>5. CASE archive
  <2> DEFINE d == IF ~Last.error /\ native # 0 THEN [dir EXCEPT !.patch = native] ELSE dir
  <2>1. dirs' = [dirs EXCEPT ![command.arm] = d] /\ command' = [command EXCEPT !.pc = "files"]
    BY <1>5 DEF archive, write
  <2>2. d \in Directory /\ d.report = dir.report /\ d.capsule = dir.capsule
    <3>1. CASE ~Last.error /\ native # 0
      BY <1>2, <3>1 DEF Directory
    <3>2. CASE ~(~Last.error /\ native # 0)
      BY <1>2, <3>2
    <3>3. QED
      BY <3>1, <3>2
  <2> HIDE DEF d
  <2>3. QED
    BY <1>3, <1>4, <2>1, <2>2
<1>6. CASE write_files
  <2> DEFINE d == [dir EXCEPT !.files = Len(ex)]
  <2>1. dirs' = [dirs EXCEPT ![command.arm] = d] /\ command' = [command EXCEPT !.pc = "capsule"]
    BY <1>6 DEF write_files, write
  <2>2. d \in Directory /\ d.report = dir.report /\ d.capsule = dir.capsule
    BY <1>2 DEF Directory
  <2> HIDE DEF d
  <2>3. QED
    BY <1>3, <1>4, <2>1, <2>2
<1>7. CASE write_capsule
  <2> DEFINE d == [dir EXCEPT !.capsule = Len(ex)]
  <2>1. /\ dirs' = [dirs EXCEPT ![command.arm] = IF Last.capsule # None THEN d ELSE dir]
        /\ command' = [command EXCEPT !.pc = "events"]
    BY <1>7 DEF write_capsule, write
  <2>2. Last.capsule \in Capsules
    BY <1>2 DEF Last, Execution
  <2>3. d \in Directory /\ d.report = dir.report /\ d.capsule = Len(ex)
    BY <1>2 DEF Directory
  <2> HIDE DEF d
  <2>4. CASE Last.capsule # None
    <3>1. /\ dirs' = [dirs EXCEPT ![command.arm] = d] /\ command' = [command EXCEPT !.pc = "events"]
          /\ Last.capsule \in States
      BY <2>1, <2>2, <2>4 DEF Capsules
    <3>2. QED
      BY <1>3, <1>4, <2>3, <3>1
  <2>5. CASE Last.capsule = None
    <3>1. dirs' = [dirs EXCEPT ![command.arm] = dir] /\ command' = [command EXCEPT !.pc = "events"]
      BY <2>1, <2>5
    <3>2. QED
      BY <1>2, <1>3, <1>4, <3>1
  <2>6. QED
    BY <2>4, <2>5
<1>8. CASE write_events
  <2> DEFINE d == [dir EXCEPT !.events = Len(ex)]
  <2>1. dirs' = [dirs EXCEPT ![command.arm] = d] /\ command' = [command EXCEPT !.pc = "report"]
    BY <1>8 DEF write_events, write
  <2>2. d \in Directory /\ d.report = dir.report /\ d.capsule = dir.capsule
    BY <1>2 DEF Directory
  <2> HIDE DEF d
  <2>3. QED
    BY <1>3, <1>4, <2>1, <2>2
<1>9. CASE write_report
  <2> DEFINE sha == IF Last.error THEN 0 ELSE dir.patch
             d == [dir EXCEPT !.report = Len(ex), !.sha = sha]
  <2>1. dirs' = [dirs EXCEPT ![command.arm] = d] /\ command' = [command EXCEPT !.pc = "reported"]
    BY <1>9 DEF write_report, write
  <2>2. sha \in Nat
    BY <1>2 DEF Directory
  <2> HIDE DEF sha
  <2>3. d \in Directory /\ d.report = Len(ex) /\ d.capsule = dir.capsule
    BY <1>2, <2>2 DEF Directory
  <2> HIDE DEF d
  <2>4. QED
    BY <1>3, <1>4, <2>1, <2>3
<1>10. QED
  BY <1>5, <1>6, <1>7, <1>8, <1>9

\* A command that begins, or goes on to its next part.
LEMMA ControlCapsuleIsState ==
  ASSUME CInv, dirs["control"].capsule # 0
  PROVE  Run(dirs["control"].capsule).capsule \in States
  BY DEF CInv, FilesAreOfArm, Run, Arms

LEMMA ArmReportedKeeps == ASSUME Recorded, CInv, arm_reported PROVE CInv'
<1>1. UNCHANGED <<ex, native, dirs, pair, oe>>
  BY DEF arm_reported
<1>2. ProcIsForked'
  <2>1. CASE command' = NoCommand
    BY <2>1 DEF ProcIsForked, NoCommand, Writing
  <2>2. CASE command' = [pc |-> "conclude", ready |-> FALSE]
    BY <2>2 DEF ProcIsForked, Writing
  <2>3. CASE /\ dirs["control"].capsule # 0
             /\ command' = begin("treatment", "preflight", Run(dirs["control"].capsule).capsule, planned)
    BY <2>3, ControlCapsuleIsState, BeginIsForked DEF Arms, Capsules
  <2>4. CASE command' = [pc |-> "pair", by |-> "preflight"]
    BY <2>4 DEF ProcIsForked, Writing
  <2>5. QED
    BY <2>1, <2>2, <2>3, <2>4 DEF arm_reported
<1>3. QED
  BY <1>1, <1>2, RecordingsFrame, ReportsFrame DEF CInv, Recordings, Reports

LEMMA CommandsKeep ==
  ASSUME Recorded, CInv,
         \/ \E a \in Arms : live_single(a)
         \/ \E c \in Candidates : preflight_planned(c) \/ preflight_execute(c)
         \/ live_pair_start \/ preflight_report \/ official_pair_start \/ command_dies \/ UNCHANGED capsule_vars
  PROVE  CInv'
<1>1. UNCHANGED <<ex, native, dirs, pair, oe>>
  BY DEF live_single, preflight_planned, preflight_execute, live_pair_start, preflight_report,
         official_pair_start, command_dies, capsule_vars
<1>2. ProcIsForked'
  <2>1. ASSUME NEW a \in Arms, live_single(a) PROVE ProcIsForked'
    <3> DEFINE reference == IF a = "control" THEN None ELSE Run(dirs["control"].capsule).capsule
    <3>1. command' = begin(a, "operator", reference, planned)
      BY <2>1 DEF live_single
    <3>2. a = "treatment" => reference \in States
      BY <2>1, ControlCapsuleIsState DEF live_single
    <3>3. reference \in Capsules
      BY <3>2 DEF Arms, Capsules
    <3> HIDE DEF reference
    <3>4. QED
      BY <3>1, <3>2, <3>3, BeginIsForked
  <2>2. ASSUME NEW c \in Candidates, preflight_execute(c) PROVE ProcIsForked'
    <3>1. command' = begin("control", "preflight", None, c)
      BY <2>2 DEF preflight_execute
    <3>2. QED
      BY <3>1, BeginIsForked DEF Arms, Capsules
  <2>3. CASE command' = command
    BY <1>1, <2>3 DEF CInv, ProcIsForked, Forked, Last
  <2>4. CASE command' \in {NoCommand, [pc |-> "official_pair"]}
    BY <2>4 DEF ProcIsForked, NoCommand, Writing
  <2>5. CASE command' = [pc |-> "pair", by |-> "operator"]
    BY <2>5 DEF ProcIsForked, Writing
  <2>6. QED
    BY <2>1, <2>2, <2>3, <2>4, <2>5 DEF preflight_planned, live_pair_start, preflight_report,
       official_pair_start, command_dies, capsule_vars
<1>3. QED
  BY <1>1, <1>2, RecordingsFrame, ReportsFrame DEF CInv, Recordings, Reports

-----------------------------------------------------------------------------
(* The pair and its evaluation                                             *)

\* The gates look at files; where none of them is of another execution than the
\* report beside it, what they found equal is the state of the reported runs.
LEMMA GatesCompare ==
  ASSUME CInv, live_pair_gates, Whole
  PROVE  LET of == [a \in Arms |-> dirs[a].report] IN Past(of) /\ Comparable(of)
<1> DEFINE of == [a \in Arms |-> dirs[a].report]
<1>1. \A a \in Arms : /\ dirs[a].report # 0 /\ dirs[a].capsule = dirs[a].report
                      /\ ~Run(dirs[a].report).error
  BY DEF live_pair_gates, passed, Whole
<1>2. \A a \in Arms : dirs[a].report \in 1..Len(ex) /\ ex[dirs[a].report].arm = a
  BY <1>1 DEF CInv, FilesAreOfArm
<1>3. Run(dirs["treatment"].report).capsule = Run(dirs["control"].report).capsule
  BY <1>1 DEF live_pair_gates, Arms
<1>4. Run(dirs["treatment"].report).injected # {}
  BY FS_EmptySet DEF live_pair_gates
<1>5. Past(of)
  <2>1. Len(ex) \in Nat
    BY DEF CInv, RunsAreForked
  <2>2. QED
    BY <1>2, <2>1 DEF Past
<1>6. of["control"] = dirs["control"].report /\ of["treatment"] = dirs["treatment"].report
  BY DEF Arms
<1> HIDE DEF of
<1>7. Comparable(of)
  BY <1>1, <1>2, <1>3, <1>4, <1>6 DEF Comparable, Run, Arms
<1>8. QED
  BY <1>5, <1>7 DEF of

LEMMA PairReportKeeps == ASSUME CInv, live_pair_report PROVE CInv'
<1> DEFINE of == [a \in Arms |-> dirs[a].report]
<1>1. /\ UNCHANGED <<ex, native, dirs, oe>> /\ command.pc = "pair" /\ command' = [command EXCEPT !.pc = "pair_summary"]
      /\ pair' = [pair EXCEPT !.decision = IF live_pair_gates THEN "ready" ELSE "blocked",
                              !.fork = fork_equivalence, !.of = of, !.whole = Whole]
  BY DEF live_pair_report
<1>2. ProcIsForked'
  <2>1. DOMAIN command' = {"pc", "by"} /\ command'.pc = "pair_summary"
    BY <1>1 DEF CInv, ProcIsForked
  <2>2. QED
    BY <2>1 DEF ProcIsForked, Writing
<1>3. /\ DOMAIN pair' = {"decision", "fork", "injected", "of", "whole"}
      /\ pair'.of = of /\ (pair'.whole <=> Whole) /\ (pair'.decision = "ready" <=> live_pair_gates)
  BY <1>1 DEF CInv, PairIsComparable
<1>4. live_pair_gates /\ Whole => Past(of) /\ Comparable(of)
  BY GatesCompare
<1> HIDE DEF of
<1>5. PairIsComparable'
  <2>1. ASSUME pair'.decision = "ready", pair'.whole PROVE Past(pair'.of) /\ Comparable(pair'.of)
    BY <1>3, <1>4, <2>1
  <2>2. QED
    BY <1>1, <1>3, <2>1 DEF PairIsComparable, Past, Comparable, Run
<1>6. EvalIsComparable'
  BY <1>1 DEF CInv, EvalIsComparable, Past, Comparable, Run
<1>7. QED
  BY <1>1, <1>2, <1>5, <1>6, RecordingsFrame DEF CInv, Recordings

LEMMA PairSummaryKeeps == ASSUME CInv, live_pair_summary PROVE CInv'
<1>1. UNCHANGED <<ex, native, dirs, oe>>
  BY DEF live_pair_summary
<1>2. /\ DOMAIN pair' = DOMAIN pair /\ pair'.of = pair.of /\ pair'.whole = pair.whole
      /\ pair'.decision = pair.decision
  BY DEF live_pair_summary, CInv, PairIsComparable
<1>3. ProcIsForked'
  <2>1. command' = NoCommand \/ command' = [pc |-> "conclude", ready |-> pair.decision = "ready"]
    BY DEF live_pair_summary
  <2>2. QED
    BY <2>1 DEF ProcIsForked, NoCommand, Writing
<1>4. PairIsComparable' /\ EvalIsComparable'
  BY <1>1, <1>2 DEF CInv, PairIsComparable, EvalIsComparable, Past, Comparable, Run
<1>5. QED
  BY <1>1, <1>3, <1>4, RecordingsFrame DEF CInv, Recordings

\* An evaluation that does not report leaves the report as it was.
LEMMA EvalFrame ==
  ASSUME CInv, UNCHANGED <<ex, native, dirs, pair>>, ProcIsForked',
         DOMAIN oe' = DOMAIN oe, oe'.report = oe.report
  PROVE  CInv'
<1>1. PairIsComparable' /\ EvalIsComparable'
  BY DEF CInv, PairIsComparable, EvalIsComparable, Past, Comparable, Run
<1>2. QED
  BY <1>1, RecordingsFrame DEF CInv, Recordings

EvalFields == {"pc", "run", "ack", "predicted", "failed"}

LEMMA EvalStartKeeps == ASSUME CInv, eval_start PROVE CInv'
<1>1. UNCHANGED <<ex, native, dirs, pair>>
  BY DEF eval_start
<1> DEFINE predicted == \A a \in Arms : dirs[a].patch # 0
<1>2. PICK run \in BOOLEAN, ack \in BOOLEAN :
         /\ command' = [pc |-> "control_eval", run |-> run, ack |-> ack, predicted |-> predicted,
                     failed |-> FALSE]
         /\ oe' = IF predicted THEN [oe EXCEPT !.predictions = [a \in Arms |-> dirs[a].patch]] ELSE oe
  BY DEF eval_start
<1> HIDE DEF predicted
<1>3. DOMAIN oe' = DOMAIN oe /\ oe'.report = oe.report
  BY <1>2 DEF CInv, EvalIsComparable
<1>4. ProcIsForked'
  BY <1>2 DEF ProcIsForked, Writing
<1>5. QED
  BY <1>1, <1>3, <1>4, EvalFrame

LEMMA RunEvalKeeps == ASSUME CInv, NEW a \in Arms, run_official_eval(a) PROVE CInv'
<1>1. UNCHANGED <<ex, native, dirs, pair>>
  BY DEF run_official_eval
<1>2. DOMAIN command = EvalFields
  BY DEF run_official_eval, CInv, ProcIsForked, EvalFields
<1>3. /\ DOMAIN oe' = DOMAIN oe /\ oe'.report = oe.report
      /\ DOMAIN command' = EvalFields /\ command'.pc \in {"treatment_eval", "import"}
  <2>1. CASE command.run /\ command.ack /\ command.predicted
    <3>1. PICK log, failed :
             /\ oe' = [oe EXCEPT !.logs[a] = log]
             /\ command' = [command EXCEPT !.failed = @ \/ failed,
                           !.pc = IF a = "control" THEN "treatment_eval" ELSE "import"]
      BY <2>1 DEF run_official_eval
    <3>2. DOMAIN oe' = DOMAIN oe /\ oe'.report = oe.report
      BY <3>1 DEF CInv, EvalIsComparable
    <3>3. DOMAIN command' = EvalFields /\ command'.pc \in {"treatment_eval", "import"}
      BY <1>2, <3>1 DEF EvalFields
    <3>4. QED
      BY <3>2, <3>3
  <2>2. CASE ~(command.run /\ command.ack /\ command.predicted)
    <3>1. command' = [command EXCEPT !.pc = "import"] /\ oe' = oe
      BY <2>2 DEF run_official_eval
    <3>2. QED
      BY <1>2, <3>1 DEF EvalFields
  <2>3. QED
    BY <2>1, <2>2
<1>4. ProcIsForked'
  BY <1>3 DEF ProcIsForked, Writing, EvalFields
<1>5. QED
  BY <1>1, <1>3, <1>4, EvalFrame

\* A label is ready only of a pair that was audited again.
LEMMA EvalReportKeeps == ASSUME CInv, eval_report PROVE CInv'
<1> DEFINE of == [a \in Arms |-> dirs[a].report]
<1>1. UNCHANGED <<ex, native, dirs, pair>> /\ command'.pc = "eval_summary"
  BY DEF eval_report
<1>2. /\ DOMAIN oe' = DOMAIN oe /\ oe'.report.decision = eval_decision
      /\ oe'.report.of = of /\ oe'.report.whole = Whole
  BY DEF eval_report, CInv, EvalIsComparable
<1>3. eval_decision = "outcome_label_ready" => live_pair_gates
  BY DEF eval_decision
<1>4. live_pair_gates /\ Whole => Past(of) /\ Comparable(of)
  BY GatesCompare
<1> HIDE DEF of
<1>5. ProcIsForked'
  BY <1>1 DEF ProcIsForked, Writing
<1>6. EvalIsComparable'
  <2>1. ASSUME oe'.report.decision = "outcome_label_ready", oe'.report.whole
        PROVE  Past(oe'.report.of) /\ Comparable(oe'.report.of)
    BY <1>2, <1>3, <1>4, <2>1
  <2>2. QED
    BY <1>1, <1>2, <2>1 DEF CInv, EvalIsComparable, Past, Comparable, Run
<1>7. PairIsComparable'
  BY <1>1 DEF CInv, PairIsComparable, Past, Comparable, Run
<1>8. QED
  BY <1>1, <1>5, <1>6, <1>7, RecordingsFrame DEF CInv, Recordings

LEMMA EvalEndKeeps == ASSUME CInv, eval_summary \/ official_pair PROVE CInv'
<1>1. UNCHANGED <<ex, native, dirs, pair>>
  BY DEF eval_summary, official_pair
<1>2. DOMAIN oe' = DOMAIN oe /\ oe'.report = oe.report
  BY DEF eval_summary, official_pair, CInv, EvalIsComparable
<1>3. command' \in {NoCommand, [pc |-> "official_pair"]}
  BY DEF eval_summary, official_pair
<1>4. ProcIsForked'
  BY <1>3 DEF ProcIsForked, NoCommand, Writing
<1>5. QED
  BY <1>1, <1>2, <1>4, EvalFrame

-----------------------------------------------------------------------------
LEMMA NextKeepsCInv == ASSUME Recorded PROVE CInv /\ [CapsuleNext]_capsule_vars => CInv'
<1> SUFFICES ASSUME CInv, [CapsuleNext]_capsule_vars PROVE CInv'
  OBVIOUS
<1>1. CASE Arm
  BY <1>1, QueryKeeps, RunDoneKeeps, ArmWritesKeep, ArmReportedKeeps DEF Arm
<1>2. CASE Pair
  BY <1>2, CommandsKeep, PairReportKeeps, PairSummaryKeeps DEF Pair
<1>3. CASE Eval
  BY <1>3, EvalStartKeeps, EvalReportKeeps, EvalEndKeeps, CommandsKeep, RunEvalKeeps DEF Eval
<1>4. CASE \/ preflight_report \/ command_dies \/ UNCHANGED capsule_vars
           \/ \E c \in Candidates : preflight_planned(c) \/ preflight_execute(c)
           \/ \E a \in Arms : live_single(a)
  BY <1>4, CommandsKeep
<1>5. QED
  BY <1>1, <1>2, <1>3, <1>4 DEF CapsuleNext

\* An execution is injected once at most, at the first query that generates, in
\* the state of the control's capsule: for any states the agents go through, any
\* candidates, and however often commands are repeated or die.
THEOREM RunsAreInjectedAtTheFork == ASSUME Recorded PROVE CapsuleSpec => []InjectedAtTheFork
<1>1. CInv => InjectedAtTheFork
  BY DEF CInv, RunsAreForked, Forked, InjectedAtTheFork
<1>2. CapsuleInit => CInv
  BY InitCInv
<1>3. CInv /\ [CapsuleNext]_capsule_vars => CInv'
  BY NextKeepsCInv
<1>4. QED
  BY <1>1, <1>2, <1>3, PTL DEF CapsuleSpec

\* A pair found ready, and a label found ready, are of two completed executions in
\* one state, of which the treatment was injected there, although the arms are
\* executed again one without the other.
THEOREM LabelsAreComparable == ASSUME Recorded PROVE CapsuleSpec => []LabelIsComparable
<1>1. CInv => LabelIsComparable
  BY DEF CInv, PairIsComparable, EvalIsComparable, LabelIsComparable
<1>2. CapsuleInit => CInv
  BY InitCInv
<1>3. CInv /\ [CapsuleNext]_capsule_vars => CInv'
  BY NextKeepsCInv
<1>4. QED
  BY <1>1, <1>2, <1>3, PTL DEF CapsuleSpec

-----------------------------------------------------------------------------
(* The protocol documents, for any number of edits by hand.                  *)

Kinds == {"exact", "default", "flag", "text", "sources", "subset", "superset", "same_set"}
Fixed == {"exact", "default", "flag"}
Free == {"predicates", "evidence_sources", "payload_fields", "steps", "forbidden_categories"}
Document(name) == [DOMAIN KindOf[name] -> Written]

\* What from_dict takes another text for.
Replaced(f) == {"absent", "null"} \cup
               (IF f = "forbidden_categories" THEN {"reordered"} ELSE {})

\* What loads and has its defaults filled in.
CleanDoc(name, doc) ==
  /\ DOMAIN doc = DOMAIN KindOf[name] /\ doc = [f \in DOMAIN KindOf[name] |-> doc[f]]
  /\ \A f \in DOMAIN KindOf[name] : doc[f] \in accepted(KindOf[name][f]) \ Replaced(f)

Pieced(payload) == payload.steps \cup payload.traceback \subseteq Pieces

B1Arm == [pc |-> live_arm.pc, doc |-> live_arm.doc, refs |-> live_arm.refs,
          issue |-> live_arm.issue, payload |-> live_arm.payload, injected |-> live_arm.injected]

ArmIsClean ==
  \/ live_arm = NoLive
  \/ /\ live_arm.pc = "b1" /\ live_arm = B1Arm /\ CleanDoc("B1", live_arm.doc)
     /\ live_arm.issue \in Issues /\ live_arm.payload = build_b1_payload(live_arm.issue)
     /\ live_arm.injected = FALSE
  \/ /\ live_arm.pc = "queried" /\ CleanDoc("B1", live_arm.doc) /\ Pieced(live_arm.payload)
     /\ live_arm.injected => b1_payload_leak_scan(live_arm.payload, live_arm.refs) = {}
  \/ /\ live_arm.pc = "v2" /\ CleanDoc("v2", live_arm.doc) /\ live_arm.injected = FALSE

PInv == /\ docs = [name \in Names |-> docs[name]]
        /\ \A name \in Names : docs[name] \in Document(name)
        /\ ArmIsClean

\* The two protocols.
LEMMA NamesAre == Names = {"B1", "v2"}
BY DEF Names, KindOf

\* Every field is read in one of eight ways, and only five have any freedom.
LEMMA KindFacts ==
  ASSUME NEW name \in Names, NEW f \in DOMAIN KindOf[name]
  PROVE  KindOf[name][f] \in Kinds /\ (f \notin Free => KindOf[name][f] \in Fixed)
<1>1. CASE name = "B1"
  BY <1>1 DEF KindOf, Kinds, Fixed, Free
<1>2. CASE name = "v2"
  BY <1>2 DEF KindOf, Kinds, Fixed, Free
<1> QED
  BY <1>1, <1>2, NamesAre

\* What each way accepts.
LEMMA AcceptedFacts ==
  ASSUME NEW kind \in Kinds, NEW v \in accepted(kind)
  PROVE  /\ v \in Written /\ v \notin {"token", "executable"}
         /\ "right" \in accepted(kind)
         /\ kind \in Fixed /\ v \notin {"absent", "null"} => v = "right"
<1>1. CASE kind = "exact"
  BY <1>1 DEF accepted, Written, Fixed
<1>2. CASE kind = "default"
  BY <1>2 DEF accepted, Written, Fixed
<1>3. CASE kind = "flag"
  BY <1>3 DEF accepted, Written, Fixed
<1>4. CASE kind = "text"
  BY <1>4 DEF accepted, Written, Fixed
<1>5. CASE kind = "sources"
  BY <1>5 DEF accepted, Written, Fixed
<1>6. CASE kind = "subset"
  BY <1>6 DEF accepted, Written, Fixed
<1>7. CASE kind = "superset"
  BY <1>7 DEF accepted, Written, Fixed
<1>8. CASE kind = "same_set"
  BY <1>8 DEF accepted, Written, Fixed
<1> QED
  BY <1>1, <1>2, <1>3, <1>4, <1>5, <1>6, <1>7, <1>8 DEF Kinds

\* A document that loads is clean once its defaults are filled in.
LEMMA LoadedIsClean ==
  ASSUME NEW name \in Names, NEW doc \in Document(name),
         \A f \in DOMAIN doc : doc[f] \in accepted(KindOf[name][f])
  PROVE  CleanDoc(name, from_dict(doc))
<1> DEFINE D == DOMAIN KindOf[name]
           full(f) == IF doc[f] \in Replaced(f) THEN "right" ELSE doc[f]
<1>1. DOMAIN doc = D
  BY DEF Document
<1>2. from_dict(doc) = [f \in D |-> full(f)]
  BY <1>1 DEF from_dict, Replaced
<1>3. ASSUME NEW f \in D PROVE full(f) \in accepted(KindOf[name][f]) \ Replaced(f)
  <2>1. KindOf[name][f] \in Kinds
    BY KindFacts
  <2>2. doc[f] \in accepted(KindOf[name][f])
    BY <1>1
  <2>3. "right" \in accepted(KindOf[name][f])
    BY <2>1, <2>2, AcceptedFacts
  <2>4. "right" \notin Replaced(f)
    BY DEF Replaced
  <2> QED
    BY <2>2, <2>3, <2>4
<1> HIDE DEF full, D
<1> QED
  BY <1>2, <1>3 DEF CleanDoc, D

\* The template needs no defaults.
LEMMA TemplateIsClean ==
  ASSUME NEW name \in Names
  PROVE  CleanDoc(name, template(name)) /\ template(name) \in Document(name)
<1>1. ASSUME NEW f \in DOMAIN KindOf[name] PROVE "right" \in accepted(KindOf[name][f])
  BY KindFacts DEF accepted, Kinds
<1>2. \A f : "right" \notin Replaced(f)
  BY DEF Replaced
<1> QED
  BY <1>1, <1>2 DEF CleanDoc, template, Document, Written

\* And it is written out as it was loaded, with the template's guards.
LEMMA CleanFacts ==
  ASSUME NEW name \in Names, NEW doc, CleanDoc(name, doc)
  PROVE  /\ from_dict(doc) = doc
         /\ \A f \in DOMAIN doc : /\ doc[f] \in accepted(KindOf[name][f])
                                  /\ doc[f] \notin {"token", "executable"}
                                  /\ f \notin Free => doc[f] = "right"
<1>1. DOMAIN doc = DOMAIN KindOf[name] /\ doc = [f \in DOMAIN KindOf[name] |-> doc[f]]
      /\ \A f \in DOMAIN KindOf[name] : doc[f] \in accepted(KindOf[name][f]) \ Replaced(f)
  BY DEF CleanDoc
<1>2. from_dict(doc) = doc
  BY <1>1 DEF from_dict, Replaced
<1>3. ASSUME NEW f \in DOMAIN doc
      PROVE  /\ doc[f] \in accepted(KindOf[name][f])
             /\ doc[f] \notin {"token", "executable"}
             /\ f \notin Free => doc[f] = "right"
  <2>1. KindOf[name][f] \in Kinds /\ (f \notin Free => KindOf[name][f] \in Fixed)
    BY <1>1, KindFacts
  <2>2. doc[f] \in accepted(KindOf[name][f]) \ Replaced(f)
    BY <1>1
  <2>3. doc[f] \notin {"absent", "null"}
    BY <2>2 DEF Replaced
  <2> QED
    BY <2>1, <2>2, <2>3, AcceptedFacts
<1> QED
  BY <1>2, <1>3

\* The payload of an issue, and what its script adds, are of the pieces it holds.
LEMMA PayloadIsPieced ==
  ASSUME NEW issue \in Issues, NEW printed \in One
  PROVE  Pieced(attach_captured_traceback(build_b1_payload(issue), issue, printed))
<1>1. issue.code \subseteq Pieces /\ issue.text \subseteq Pieces /\ printed \subseteq Pieces
  BY DEF Issues, One, Pieces
<1> QED
  BY <1>1 DEF Pieced, attach_captured_traceback, build_b1_payload, extract_issue_reproduction_steps

\* A live arm has loaded its protocol, whatever is edited before and after.
LEMMA PInvAlways == ProtocolSpec => []PInv
<1>1. ProtocolInit => PInv
  BY TemplateIsClean DEF ProtocolInit, PInv, ArmIsClean
<1>2. PInv /\ [ProtocolNext]_protocol_vars => PInv'
  <2> SUFFICES ASSUME PInv, [ProtocolNext]_protocol_vars PROVE PInv'
    OBVIOUS
  <2>0. /\ UNCHANGED live_arm => ArmIsClean'
        /\ UNCHANGED docs => /\ docs' = [name \in Names |-> docs'[name]]
                             /\ \A name \in Names : docs'[name] \in Document(name)
    BY DEF PInv, ArmIsClean, B1Arm
  <2>1. CASE edit
    <3>1. CASE docs' = docs
      BY <2>0, <2>1, <3>1 DEF PInv, edit
    <3>2. ASSUME NEW n \in Names, NEW field \in DOMAIN docs[n], NEW value \in Written,
                 docs' = [docs EXCEPT ![n][field] = value]
          PROVE  PInv'
      <4>1. docs[n] \in Document(n)
        BY DEF PInv
      <4>2. [docs[n] EXCEPT ![field] = value] \in Document(n)
        BY <4>1 DEF Document
      <4>3. docs' = [docs EXCEPT ![n] = [docs[n] EXCEPT ![field] = value]]
        BY <3>2
      <4>4. docs' = [name \in Names |-> docs'[name]]
            /\ \A name \in Names : docs'[name] \in Document(name)
        BY <4>2, <4>3 DEF PInv
      <4> QED
        BY <2>0, <2>1, <4>4 DEF PInv, edit
    <3> QED
      BY <2>1, <3>1, <3>2 DEF edit
  <2>2. ASSUME NEW a, NEW b, NEW c, write_plan(a, b, c) PROVE PInv'
    <3>1. docs' = [docs EXCEPT !["B1"] = template("B1")] /\ UNCHANGED live_arm
      BY <2>2 DEF write_plan
    <3>2. "B1" \in Names /\ template("B1") \in Document("B1")
      BY NamesAre, TemplateIsClean
    <3>3. docs' = [name \in Names |-> docs'[name]] /\ \A name \in Names : docs'[name] \in Document(name)
      BY <3>1, <3>2 DEF PInv
    <3> QED
      BY <2>0, <3>1, <3>3 DEF PInv
  <2>3. ASSUME NEW gold, antileak_preflight(gold) PROVE PInv'
    BY <2>0, <2>3 DEF PInv, antileak_preflight
  <2>4. ASSUME NEW given \in BOOLEAN, NEW refs \in BOOLEAN, NEW issue \in Issues,
               route_b1_live_arm(given, refs, issue)
        PROVE  PInv'
    <3>1. UNCHANGED docs
      BY <2>4 DEF route_b1_live_arm
    <3> DEFINE doc == IF given THEN from_dict(docs["B1"]) ELSE template("B1")
    <3>2. CleanDoc("B1", doc)
      <4>1. "B1" \in Names /\ docs["B1"] \in Document("B1")
        BY NamesAre DEF PInv
      <4>2. CASE given
        <5>1. \A f \in DOMAIN docs["B1"] : docs["B1"][f] \in accepted(KindOf["B1"][f])
          BY <2>4, <4>2 DEF route_b1_live_arm, loads_b1
        <5> QED
          BY <4>1, <4>2, <5>1, LoadedIsClean
      <4>3. CASE ~given
        BY <4>1, <4>3, TemplateIsClean
      <4> QED
        BY <4>2, <4>3
    <3>3. live_arm' = [pc |-> "b1", doc |-> doc, refs |-> refs, issue |-> issue,
                       payload |-> build_b1_payload(issue), injected |-> FALSE]
      BY <2>4 DEF route_b1_live_arm
    <3> HIDE DEF doc
    <3>4. ArmIsClean'
      BY <3>2, <3>3 DEF ArmIsClean, B1Arm
    <3> QED
      BY <2>0, <3>1, <3>4 DEF PInv
  <2>5. ASSUME NEW printed \in One, b1_on_model_query(printed) PROVE PInv'
    <3> DEFINE payload == attach_captured_traceback(live_arm.payload, live_arm.issue, printed)
               leak == b1_payload_leak_scan(payload, live_arm.refs)
    <3>1. live_arm.pc = "b1" /\ UNCHANGED docs
          /\ live_arm' = [live_arm EXCEPT !.pc = "queried", !.payload = payload, !.injected = leak = {}]
      BY <2>5 DEF b1_on_model_query
    <3>2. live_arm = B1Arm /\ CleanDoc("B1", live_arm.doc) /\ live_arm.issue \in Issues
          /\ live_arm.payload = build_b1_payload(live_arm.issue)
      BY <3>1 DEF PInv, ArmIsClean, NoLive
    <3>3. Pieced(payload)
      BY <3>2, PayloadIsPieced
    <3> HIDE DEF payload
    <3>4. /\ live_arm'.pc = "queried" /\ live_arm'.doc = live_arm.doc /\ live_arm'.payload = payload
          /\ live_arm'.refs = live_arm.refs /\ live_arm'.injected = (leak = {})
      BY <3>1, <3>2 DEF B1Arm
    <3>5. ArmIsClean'
      BY <3>2, <3>3, <3>4 DEF ArmIsClean
    <3> QED
      BY <2>0, <3>1, <3>5 DEF PInv
  <2>6. CASE protocol_v2_command
    <3>1. "v2" \in Names /\ docs["v2"] \in Document("v2") /\ UNCHANGED docs
      BY <2>6, NamesAre DEF PInv, protocol_v2_command
    <3>2. \A f \in DOMAIN docs["v2"] : docs["v2"][f] \in accepted(KindOf["v2"][f])
      BY <2>6 DEF protocol_v2_command, loads_v2
    <3>3. CleanDoc("v2", from_dict(docs["v2"]))
      BY <3>1, <3>2, LoadedIsClean
    <3>4. live_arm' = [pc |-> "v2", doc |-> from_dict(docs["v2"]), refs |-> FALSE, injected |-> FALSE]
      BY <2>6 DEF protocol_v2_command
    <3>5. ArmIsClean'
      BY <3>3, <3>4 DEF ArmIsClean
    <3> QED
      BY <2>0, <3>1, <3>5 DEF PInv
  <2>7. CASE live_over
    BY <2>0, <2>7 DEF live_over, PInv, ArmIsClean
  <2>8. CASE UNCHANGED protocol_vars
    BY <2>0, <2>8 DEF protocol_vars, PInv
  <2> QED
    BY <2>1, <2>2, <2>3, <2>4, <2>5, <2>6, <2>7, <2>8 DEF ProtocolNext
<1> QED
  BY <1>1, <1>2, PTL DEF ProtocolSpec

\* protocol_b1.py: "the gold patch / oracle / official-eval outcome structurally forbidden".
\* However the files were edited, a live arm runs under a protocol that loads to itself, with
\* the template's guards and no word of the oracle.  What it injects holds no such word, and,
\* if the arm was given the task's gold row, no official test id and no added line of test or
\* fix but one the issue may share; without the row these are not excluded (from_dict,
\* b1_payload_leak_scan).
THEOREM LiveArmsAreClean == ProtocolSpec => []LiveIsClean
<1>1. PInv => LiveIsClean
  <2> SUFFICES ASSUME PInv, live_arm.pc # "none" PROVE LiveIsClean
    BY DEF LiveIsClean
  <2> DEFINE name == IF live_arm.pc = "v2" THEN "v2" ELSE "B1"
  <2>1. CleanDoc(name, live_arm.doc) /\ name \in Names
    BY NamesAre DEF PInv, ArmIsClean, NoLive
  <2> HIDE DEF name
  <2>2. /\ from_dict(live_arm.doc) = live_arm.doc
        /\ \A f \in DOMAIN live_arm.doc : /\ live_arm.doc[f] \in accepted(KindOf[name][f])
                                          /\ live_arm.doc[f] \notin {"token", "executable"}
                                          /\ f \notin Free => live_arm.doc[f] = "right"
    BY <2>1, CleanFacts
  <2>3. IF live_arm.pc = "v2" THEN loads_v2(live_arm.doc) ELSE loads_b1(live_arm.doc)
    BY <2>2 DEF loads_v2, loads_b1, name
  <2>4. ASSUME live_arm.injected
        PROVE  (live_arm.payload.steps \cup live_arm.payload.traceback)
                 \subseteq (IF live_arm.refs THEN {"shared_line"} ELSE Pieces \ {"token"})
    <3>1. /\ Pieced(live_arm.payload)
          /\ b1_payload_leak_scan(live_arm.payload, live_arm.refs) = {}
      BY <2>4 DEF PInv, ArmIsClean, NoLive
    <3> QED
      BY <3>1 DEF Pieced, b1_payload_leak_scan, Forbidden
  <2> QED
    BY <2>2, <2>3, <2>4 DEF LiveIsClean, Free
<1> QED
  BY <1>1, PInvAlways, PTL

-----------------------------------------------------------------------------
(* The outcomes of a batch.  A count is the cardinality of a set of rows, so *)
(* that one label that ranks lower takes a row out of the positive ones or   *)
(* adds one to the negative ones, whatever the size of the batch.            *)

Summaries == [replayed : BOOLEAN, hook_events : Nat]
\* Evidence has the fields that scorecards and live summaries have.
OfPairs ==
  PairEvidence \subseteq
    [card : [label : STRING, completed : BOOLEAN, official : BOOLEAN, unclaimed : BOOLEAN],
     summary_by_report : Summaries \cup {NoSummary}, summary_by_path : Summaries \cup {NoSummary},
     in_fresh_list : BOOLEAN]

\* The rows that carry one of the labels.
RowsWith(rows, labels) == {i \in DOMAIN rows : rows[i].label \in labels}

\* The same rows but for the label of row i, which ranks lower.
Fared(worse, rows, i) ==
  /\ i \in DOMAIN rows /\ DOMAIN worse = DOMAIN rows
  /\ Rank(worse[i].label) < Rank(rows[i].label)
  /\ \A j \in DOMAIN rows : j # i => worse[j].label = rows[j].label

LEMMA RowsAreFinite ==
  ASSUME NEW n \in Nat, NEW rows, DOMAIN rows = 1..n, NEW labels
  PROVE  IsFiniteSet(RowsWith(rows, labels))
<1>1. IsFiniteSet(1..n)
  BY FS_Interval
<1>2. RowsWith(rows, labels) \subseteq 1..n
  BY DEF RowsWith
<1> QED
  BY <1>1, <1>2, FS_Subset

LEMMA RanksOf ==
  ASSUME NEW a, NEW b, Rank(a) < Rank(b)
  PROVE  a # POSITIVE_LABEL /\ b # NEGATIVE_LABEL
BY DEF Rank, POSITIVE_LABEL, NEGATIVE_LABEL

\* A pair that fares worse is never counted as positive, nor was it as negative.
LEMMA WorseCounts ==
  ASSUME NEW n \in Nat, NEW rows, DOMAIN rows = 1..n, NEW worse, NEW i, Fared(worse, rows, i)
  PROVE  /\ Labelled(worse, DOMAIN worse, {POSITIVE_LABEL}) \in Nat
         /\ Labelled(rows, DOMAIN rows, {POSITIVE_LABEL}) \in Nat
         /\ Labelled(worse, DOMAIN worse, {NEGATIVE_LABEL}) \in Nat
         /\ Labelled(rows, DOMAIN rows, {NEGATIVE_LABEL}) \in Nat
         /\ Labelled(worse, DOMAIN worse, {POSITIVE_LABEL}) <= Labelled(rows, DOMAIN rows, {POSITIVE_LABEL})
         /\ Labelled(rows, DOMAIN rows, {NEGATIVE_LABEL}) <= Labelled(worse, DOMAIN worse, {NEGATIVE_LABEL})
<1>1. worse[i].label # POSITIVE_LABEL /\ rows[i].label # NEGATIVE_LABEL
  BY RanksOf DEF Fared
<1>2. RowsWith(worse, {POSITIVE_LABEL}) \subseteq RowsWith(rows, {POSITIVE_LABEL})
  BY <1>1 DEF Fared, RowsWith
<1>3. RowsWith(rows, {NEGATIVE_LABEL}) \subseteq RowsWith(worse, {NEGATIVE_LABEL})
  BY <1>1 DEF Fared, RowsWith
<1>4. DOMAIN worse = 1..n
  BY DEF Fared
<1>5. /\ IsFiniteSet(RowsWith(worse, {POSITIVE_LABEL})) /\ IsFiniteSet(RowsWith(rows, {POSITIVE_LABEL}))
      /\ IsFiniteSet(RowsWith(worse, {NEGATIVE_LABEL})) /\ IsFiniteSet(RowsWith(rows, {NEGATIVE_LABEL}))
  BY <1>4, RowsAreFinite
<1>6. \A r, l : Labelled(r, DOMAIN r, l) = Cardinality(RowsWith(r, l))
  BY DEF Labelled, RowsWith
<1>7. /\ Cardinality(RowsWith(worse, {POSITIVE_LABEL})) <= Cardinality(RowsWith(rows, {POSITIVE_LABEL}))
      /\ Cardinality(RowsWith(rows, {NEGATIVE_LABEL})) <= Cardinality(RowsWith(worse, {NEGATIVE_LABEL}))
  BY <1>2, <1>3, <1>5, FS_Subset
<1>8. /\ Cardinality(RowsWith(worse, {POSITIVE_LABEL})) \in Nat
      /\ Cardinality(RowsWith(rows, {NEGATIVE_LABEL})) \in Nat
      /\ Cardinality(RowsWith(rows, {POSITIVE_LABEL})) \in Nat
      /\ Cardinality(RowsWith(worse, {NEGATIVE_LABEL})) \in Nat
  BY <1>5, FS_CardinalityType
<1> QED
  BY <1>6, <1>7, <1>8

\* What the v1 report says, by the counts.
LEMMA V1Is ==
  ASSUME NEW pairs, DOMAIN pairs = 1..Len(pairs), Len(pairs) \in Nat, NEW target
  PROVE  LET rows == load_protocol_v1_outcome_rows(pairs)
             gates == protocol_v1_batch_outcomes_gates(rows, target)
             met == Len(pairs) >= target
             pos == Labelled(rows, DOMAIN rows, {POSITIVE_LABEL})
             neg == Labelled(rows, DOMAIN rows, {NEGATIVE_LABEL})
             none == Labelled(rows, DOMAIN rows, NO_UPLIFT_LABELS)
             report == protocol_v1_batch_outcomes_report(pairs, target)
         IN /\ report.decision = IF ~gates THEN "blocked"
                 ELSE IF ~met THEN IF none = Len(pairs) THEN "underpowered_no_uplift_observed"
                                   ELSE "underpowered_continue_sampling"
                 ELSE IF neg > pos THEN "negative_risk_review_required"
                 ELSE IF pos = 0 THEN "no_uplift_needs_prescription_revision"
                 ELSE "ready_for_next_small_batch"
            /\ report.policy.more = (gates /\ ~met /\ neg = 0)
            /\ report.policy.stability = (gates /\ met /\ pos > 0)
<1>1. Len(load_protocol_v1_outcome_rows(pairs)) = Len(pairs)
  BY DEF load_protocol_v1_outcome_rows
<1> QED
  BY <1>1 DEF protocol_v1_batch_outcomes_report, protocol_v1_batch_outcomes_summary,
       protocol_v1_batch_outcomes_decision, protocol_v1_batch_outcomes_continuation_policy

\* What the v2 report says.
LEMMA V2Is ==
  ASSUME NEW pairs, DOMAIN pairs = 1..Len(pairs), Len(pairs) \in Nat, NEW target
  PROVE  LET rows == load_protocol_v2_outcome_rows(pairs)
             gates == protocol_v2_batch_outcomes_gates(rows, target)
             fresh == Stratum(rows, "v2_strict_fresh")
             met == Cardinality(fresh) >= target
             pos == Labelled(rows, DOMAIN rows, {POSITIVE_LABEL})
             neg == Labelled(rows, DOMAIN rows, {NEGATIVE_LABEL})
             none == Labelled(rows, fresh, NO_UPLIFT_LABELS)
             report == protocol_v2_batch_outcomes_report(pairs, target)
         IN /\ report.decision = IF ~gates THEN "blocked"
                 ELSE IF ~met THEN IF none = Cardinality(fresh) THEN "underpowered_no_uplift_observed"
                                   ELSE "underpowered_continue_sampling"
                 ELSE IF neg > pos THEN "negative_risk_review_required"
                 ELSE IF pos = 0 THEN "no_uplift_needs_prescription_revision"
                 ELSE "ready_for_next_small_batch"
            /\ report.policy.more = (gates /\ ~met /\ neg = 0)
BY DEF protocol_v2_batch_outcomes_report, protocol_v2_batch_outcomes_summary,
       protocol_v2_batch_outcomes_decision, protocol_v2_batch_outcomes_continuation_policy

\* What a batch becomes when a pair of it fares worse.
Relabelled(pairs, i, l) == [pairs EXCEPT ![i].card.label = l]

LEMMA RelabelledIs ==
  ASSUME OfPairs, NEW pairs \in Seq(PairEvidence), NEW i \in DOMAIN pairs, NEW l,
         Rank(l) < Rank(pairs[i].card.label)
  PROVE  LET worse == Relabelled(pairs, i, l) IN
         /\ DOMAIN worse = DOMAIN pairs /\ Len(worse) = Len(pairs)
         /\ worse[i].card.label = l
         /\ \A j \in DOMAIN pairs :
              /\ j # i => worse[j] = pairs[j]
              /\ worse[j].card.completed = pairs[j].card.completed
              /\ worse[j].card.official = pairs[j].card.official
              /\ worse[j].card.unclaimed = pairs[j].card.unclaimed
              /\ worse[j].summary_by_report = pairs[j].summary_by_report
              /\ worse[j].summary_by_path = pairs[j].summary_by_path
              /\ worse[j].in_fresh_list = pairs[j].in_fresh_list
<1> DEFINE e == pairs[i]
<1> DEFINE w == [e EXCEPT !.card = [e.card EXCEPT !.label = l]]
<1>1. Relabelled(pairs, i, l) = [pairs EXCEPT ![i] = w]
  BY Zenon DEF Relabelled
<1>2. e \in [card : [label : STRING, completed : BOOLEAN, official : BOOLEAN, unclaimed : BOOLEAN],
     summary_by_report : Summaries \cup {NoSummary}, summary_by_path : Summaries \cup {NoSummary},
     in_fresh_list : BOOLEAN]
  BY DEF OfPairs
<1>3. /\ w.card.label = l /\ w.card.completed = e.card.completed /\ w.card.official = e.card.official
      /\ w.card.unclaimed = e.card.unclaimed /\ w.summary_by_report = e.summary_by_report
      /\ w.summary_by_path = e.summary_by_path /\ w.in_fresh_list = e.in_fresh_list
  BY <1>2
<1> HIDE DEF w
<1>4. [pairs EXCEPT ![i] = w] = [j \in DOMAIN pairs |-> IF j = i THEN w ELSE pairs[j]]
  OBVIOUS
<1>5. /\ DOMAIN pairs = 1..Len(pairs) /\ Len(pairs) \in Nat
  OBVIOUS
<1>6. Len([pairs EXCEPT ![i] = w]) = Len(pairs)
  BY <1>4, <1>5
<1> QED
  BY <1>1, <1>3, <1>4, <1>6


\* A lower label changes neither the gates nor, in v2, the strata.
LEMMA WorseV1 ==
  ASSUME OfPairs, NEW pairs \in Seq(PairEvidence), NEW i \in DOMAIN pairs, NEW l, NEW target,
         Rank(l) < Rank(pairs[i].card.label)
  PROVE  LET rows == load_protocol_v1_outcome_rows(pairs)
             worse == load_protocol_v1_outcome_rows(Relabelled(pairs, i, l))
         IN /\ Fared(worse, rows, i)
            /\ DOMAIN rows = 1..Len(pairs) /\ Len(pairs) \in Nat
            /\ protocol_v1_batch_outcomes_gates(worse, target)
                 <=> protocol_v1_batch_outcomes_gates(rows, target)
<1> DEFINE rows == load_protocol_v1_outcome_rows(pairs)
           worse == load_protocol_v1_outcome_rows(Relabelled(pairs, i, l))
<1>1. /\ DOMAIN rows = DOMAIN pairs /\ DOMAIN worse = DOMAIN pairs
      /\ DOMAIN pairs = 1..Len(pairs) /\ Len(pairs) \in Nat
  BY RelabelledIs DEF load_protocol_v1_outcome_rows
<1>2. /\ rows[i].label = pairs[i].card.label /\ worse[i].label = l
      /\ \A j \in DOMAIN pairs : j # i => worse[j] = rows[j]
  BY RelabelledIs DEF load_protocol_v1_outcome_rows, _normalize_protocol_v1_pair,
       _resolve_live_pair_summary
<1>3. \A j \in DOMAIN pairs :
         /\ worse[j].completed = rows[j].completed /\ worse[j].official = rows[j].official
         /\ worse[j].unclaimed = rows[j].unclaimed /\ worse[j].replayed = rows[j].replayed
         /\ worse[j].hooked = rows[j].hooked
  BY RelabelledIs DEF load_protocol_v1_outcome_rows, _normalize_protocol_v1_pair,
       _resolve_live_pair_summary
<1>4. worse # << >> /\ rows # << >>
  BY <1>1
<1> HIDE DEF rows, worse
<1>5. Fared(worse, rows, i)
  BY <1>1, <1>2 DEF Fared
<1>6. protocol_v1_batch_outcomes_gates(worse, target)
        <=> protocol_v1_batch_outcomes_gates(rows, target)
  BY <1>1, <1>3, <1>4 DEF protocol_v1_batch_outcomes_gates
<1> QED
  BY <1>1, <1>5, <1>6 DEF rows, worse

LEMMA WorseV2 ==
  ASSUME OfPairs, NEW pairs \in Seq(PairEvidence), NEW i \in DOMAIN pairs, NEW l, NEW target,
         Rank(l) < Rank(pairs[i].card.label)
  PROVE  LET rows == load_protocol_v2_outcome_rows(pairs)
             worse == load_protocol_v2_outcome_rows(Relabelled(pairs, i, l))
         IN /\ Fared(worse, rows, i)
            /\ DOMAIN rows = 1..Len(pairs) /\ Len(pairs) \in Nat
            /\ Stratum(worse, "v2_strict_fresh") = Stratum(rows, "v2_strict_fresh")
            /\ protocol_v2_batch_outcomes_gates(worse, target)
                 <=> protocol_v2_batch_outcomes_gates(rows, target)
<1> DEFINE rows == load_protocol_v2_outcome_rows(pairs)
           worse == load_protocol_v2_outcome_rows(Relabelled(pairs, i, l))
<1>1. /\ DOMAIN rows = DOMAIN pairs /\ DOMAIN worse = DOMAIN pairs
      /\ DOMAIN pairs = 1..Len(pairs) /\ Len(pairs) \in Nat
  BY RelabelledIs DEF load_protocol_v2_outcome_rows
<1>2. /\ rows[i].label = pairs[i].card.label /\ worse[i].label = l
      /\ \A j \in DOMAIN pairs : j # i => worse[j] = rows[j]
  BY RelabelledIs DEF load_protocol_v2_outcome_rows, _normalize_protocol_v2_pair
<1>3. \A j \in DOMAIN pairs :
         /\ worse[j].completed = rows[j].completed /\ worse[j].official = rows[j].official
         /\ worse[j].unclaimed = rows[j].unclaimed /\ worse[j].lineage = rows[j].lineage
  BY RelabelledIs DEF load_protocol_v2_outcome_rows, _normalize_protocol_v2_pair
<1>4. worse # << >> /\ rows # << >>
  BY <1>1
<1> HIDE DEF rows, worse
<1>5. Fared(worse, rows, i)
  BY <1>1, <1>2 DEF Fared
<1>6. protocol_v2_batch_outcomes_gates(worse, target)
        <=> protocol_v2_batch_outcomes_gates(rows, target)
  BY <1>1, <1>3, <1>4 DEF protocol_v2_batch_outcomes_gates
<1>7. Stratum(worse, "v2_strict_fresh") = Stratum(rows, "v2_strict_fresh")
  BY <1>1, <1>3 DEF Stratum
<1> QED
  BY <1>1, <1>5, <1>6, <1>7 DEF rows, worse

LEMMA WorseIsNoBetter ==
  ASSUME OfPairs, NEW pairs \in Seq(PairEvidence), NEW target
  PROVE  WorseIsNeverBetter(pairs, target)
<1> SUFFICES ASSUME NEW i \in DOMAIN pairs, NEW l \in PairLabels, Rank(l) < Rank(pairs[i].card.label)
             PROVE  LET worse == Relabelled(pairs, i, l)
                        v1 == protocol_v1_batch_outcomes_report(pairs, target)
                        v1_worse == protocol_v1_batch_outcomes_report(worse, target)
                    IN /\ NoBetter(v1_worse, v1)
                       /\ NoBetter(protocol_v2_batch_outcomes_report(worse, target),
                                   protocol_v2_batch_outcomes_report(pairs, target))
                       /\ v1_worse.policy.stability => v1.policy.stability
  BY Zenon DEF WorseIsNeverBetter, Relabelled
<1> DEFINE worse == Relabelled(pairs, i, l)
<1>1. /\ DOMAIN worse = DOMAIN pairs /\ Len(worse) = Len(pairs)
      /\ DOMAIN pairs = 1..Len(pairs) /\ Len(pairs) \in Nat
  BY RelabelledIs
<1> HIDE DEF worse
<1>2. /\ NoBetter(protocol_v1_batch_outcomes_report(worse, target),
                  protocol_v1_batch_outcomes_report(pairs, target))
      /\ protocol_v1_batch_outcomes_report(worse, target).policy.stability
           => protocol_v1_batch_outcomes_report(pairs, target).policy.stability
  <2> DEFINE r == load_protocol_v1_outcome_rows(pairs)
             w == load_protocol_v1_outcome_rows(worse)
             pos(x) == Labelled(x, DOMAIN x, {POSITIVE_LABEL})
             neg(x) == Labelled(x, DOMAIN x, {NEGATIVE_LABEL})
             gates(x) == protocol_v1_batch_outcomes_gates(x, target)
  <2>1. Fared(w, r, i) /\ DOMAIN r = 1..Len(pairs) /\ (gates(w) <=> gates(r))
    BY WorseV1 DEF worse
  <2>2. /\ pos(w) \in Nat /\ pos(r) \in Nat /\ neg(w) \in Nat /\ neg(r) \in Nat
        /\ pos(w) <= pos(r) /\ neg(r) <= neg(w)
    BY <1>1, <2>1, WorseCounts
  <2>3. /\ protocol_v1_batch_outcomes_report(worse, target).decision = "ready_for_next_small_batch"
             <=> gates(w) /\ Len(pairs) >= target /\ ~(neg(w) > pos(w)) /\ pos(w) # 0
        /\ protocol_v1_batch_outcomes_report(worse, target).policy.more
             <=> gates(w) /\ ~(Len(pairs) >= target) /\ neg(w) = 0
        /\ protocol_v1_batch_outcomes_report(worse, target).policy.stability
             <=> gates(w) /\ Len(pairs) >= target /\ pos(w) > 0
    BY <1>1, V1Is
  <2>4. /\ protocol_v1_batch_outcomes_report(pairs, target).decision = "ready_for_next_small_batch"
             <=> gates(r) /\ Len(pairs) >= target /\ ~(neg(r) > pos(r)) /\ pos(r) # 0
        /\ protocol_v1_batch_outcomes_report(pairs, target).policy.more
             <=> gates(r) /\ ~(Len(pairs) >= target) /\ neg(r) = 0
        /\ protocol_v1_batch_outcomes_report(pairs, target).policy.stability
             <=> gates(r) /\ Len(pairs) >= target /\ pos(r) > 0
    BY <1>1, V1Is
  <2> HIDE DEF r, w, pos, neg, gates
  <2> QED
    BY <2>1, <2>2, <2>3, <2>4 DEF NoBetter
<1>3. NoBetter(protocol_v2_batch_outcomes_report(worse, target),
               protocol_v2_batch_outcomes_report(pairs, target))
  <2> DEFINE r == load_protocol_v2_outcome_rows(pairs)
             w == load_protocol_v2_outcome_rows(worse)
             pos(x) == Labelled(x, DOMAIN x, {POSITIVE_LABEL})
             neg(x) == Labelled(x, DOMAIN x, {NEGATIVE_LABEL})
             gates(x) == protocol_v2_batch_outcomes_gates(x, target)
             met(x) == Cardinality(Stratum(x, "v2_strict_fresh")) >= target
  <2>1. Fared(w, r, i) /\ DOMAIN r = 1..Len(pairs) /\ (gates(w) <=> gates(r)) /\ (met(w) <=> met(r))
    BY WorseV2 DEF worse
  <2>2. /\ pos(w) \in Nat /\ pos(r) \in Nat /\ neg(w) \in Nat /\ neg(r) \in Nat
        /\ pos(w) <= pos(r) /\ neg(r) <= neg(w)
    BY <1>1, <2>1, WorseCounts
  <2>3. /\ protocol_v2_batch_outcomes_report(worse, target).decision = "ready_for_next_small_batch"
             <=> gates(w) /\ met(w) /\ ~(neg(w) > pos(w)) /\ pos(w) # 0
        /\ protocol_v2_batch_outcomes_report(worse, target).policy.more
             <=> gates(w) /\ ~met(w) /\ neg(w) = 0
    BY <1>1, V2Is
  <2>4. /\ protocol_v2_batch_outcomes_report(pairs, target).decision = "ready_for_next_small_batch"
             <=> gates(r) /\ met(r) /\ ~(neg(r) > pos(r)) /\ pos(r) # 0
        /\ protocol_v2_batch_outcomes_report(pairs, target).policy.more
             <=> gates(r) /\ ~met(r) /\ neg(r) = 0
    BY <1>1, V2Is
  <2> HIDE DEF r, w, pos, neg, gates, met
  <2> QED
    BY <2>1, <2>2, <2>3, <2>4 DEF NoBetter
<1> QED
  BY <1>2, <1>3 DEF worse

LEMMA BothAgree ==
  ASSUME OfPairs, NEW pairs \in Seq(PairEvidence), NEW target
  PROVE  ProtocolsAgree(pairs, target)
<1> SUFFICES ASSUME \A i \in DOMAIN pairs :
                      /\ pairs[i].in_fresh_list
                      /\ _normalize_protocol_v1_pair(pairs[i]).replayed
                      /\ _normalize_protocol_v1_pair(pairs[i]).hooked
             PROVE  /\ protocol_v1_batch_outcomes_report(pairs, target).decision
                         = protocol_v2_batch_outcomes_report(pairs, target).decision
                    /\ protocol_v1_batch_outcomes_report(pairs, target).policy.more
                         = protocol_v2_batch_outcomes_report(pairs, target).policy.more
  BY DEF ProtocolsAgree
<1> DEFINE r1 == load_protocol_v1_outcome_rows(pairs)
           r2 == load_protocol_v2_outcome_rows(pairs)
           n == Len(pairs)
<1>1. n \in Nat /\ DOMAIN pairs = 1..n /\ DOMAIN r1 = 1..n /\ DOMAIN r2 = 1..n
  BY DEF load_protocol_v1_outcome_rows, load_protocol_v2_outcome_rows
<1>2. \A i \in 1..n : /\ r1[i].replayed /\ r1[i].hooked /\ r2[i].lineage = "v2_strict_fresh"
  BY <1>1 DEF load_protocol_v1_outcome_rows, load_protocol_v2_outcome_rows,
       _normalize_protocol_v2_pair
<1>3. \A i \in 1..n : /\ r1[i].label = r2[i].label /\ r1[i].completed = r2[i].completed
                      /\ r1[i].official = r2[i].official /\ r1[i].unclaimed = r2[i].unclaimed
  BY <1>1 DEF load_protocol_v1_outcome_rows, load_protocol_v2_outcome_rows,
       _normalize_protocol_v2_pair, _normalize_protocol_v1_pair
<1>4. r1 # << >> <=> r2 # << >>
  <2>1. CASE n = 0
    <3>1. r1 = << >> /\ r2 = << >>
      BY <1>1, <2>1 DEF load_protocol_v1_outcome_rows, load_protocol_v2_outcome_rows
    <3> QED
      BY <3>1
  <2>2. CASE n # 0
    BY <1>1, <2>2
  <2> QED
    BY <2>1, <2>2
<1> HIDE DEF r1, r2, n
<1>5. protocol_v1_batch_outcomes_gates(r1, target) <=> protocol_v2_batch_outcomes_gates(r2, target)
  BY <1>1, <1>2, <1>3, <1>4 DEF protocol_v1_batch_outcomes_gates, protocol_v2_batch_outcomes_gates
<1>6. \A l : Labelled(r1, DOMAIN r1, l) = Labelled(r2, DOMAIN r2, l)
  <2> SUFFICES ASSUME NEW l PROVE Labelled(r1, DOMAIN r1, l) = Labelled(r2, DOMAIN r2, l)
    OBVIOUS
  <2>1. {i \in DOMAIN r1 : r1[i].label \in l} = {i \in DOMAIN r2 : r2[i].label \in l}
    BY <1>1, <1>3
  <2> QED
    BY <2>1 DEF Labelled
<1>7. Stratum(r2, "v2_strict_fresh") = 1..n /\ DOMAIN r2 = 1..n
  BY <1>1, <1>2 DEF Stratum
<1>8. Cardinality(1..n) = n
  BY <1>1, FS_Interval
<1> DEFINE gates == protocol_v2_batch_outcomes_gates(r2, target)
           none == Labelled(r2, DOMAIN r2, NO_UPLIFT_LABELS)
           pos == Labelled(r2, DOMAIN r2, {POSITIVE_LABEL})
           neg == Labelled(r2, DOMAIN r2, {NEGATIVE_LABEL})
           said == IF ~gates THEN "blocked"
                 ELSE IF ~(n >= target) THEN IF none = n THEN "underpowered_no_uplift_observed"
                                   ELSE "underpowered_continue_sampling"
                 ELSE IF neg > pos THEN "negative_risk_review_required"
                 ELSE IF pos = 0 THEN "no_uplift_needs_prescription_revision"
                 ELSE "ready_for_next_small_batch"
<1>9. /\ protocol_v1_batch_outcomes_report(pairs, target).decision = said
      /\ protocol_v1_batch_outcomes_report(pairs, target).policy.more
           = (gates /\ ~(n >= target) /\ neg = 0)
  BY <1>1, <1>5, <1>6, V1Is DEF r1, n
<1>10. /\ protocol_v2_batch_outcomes_report(pairs, target).decision = said
       /\ protocol_v2_batch_outcomes_report(pairs, target).policy.more
           = (gates /\ ~(n >= target) /\ neg = 0)
  BY <1>1, <1>7, <1>8, V2Is DEF r2, n
<1> QED
  BY <1>9, <1>10

\* protocol_v1_batch_outcomes.py, protocol_v2_batch_outcomes.py, for any evidence and target.
\* The two copies of the rule decide a batch alike if all of its pairs are fresh and have
\* replay and hook in order; of other batches nothing is said, and the copies differ on some.
\* In any batch, a pair that fares worse makes no decision ready and opens neither more pairs
\* nor a stability claim.
THEOREM BatchRuleAlways ==
  ASSUME OfPairs
  PROVE  OutcomesSpec => []BatchRuleHolds
<1> DEFINE Inv == batch \in Seq(PairEvidence)
<1>1. OutcomesInit => Inv
  BY DEF OutcomesInit
<1>2. Inv /\ [add_pair]_batch => Inv'
  BY DEF add_pair
<1>3. Inv => BatchRuleHolds
  BY BothAgree, WorseIsNoBetter DEF BatchRuleHolds
<1> QED
  BY <1>1, <1>2, <1>3, PTL DEF OutcomesSpec
=============================================================================
