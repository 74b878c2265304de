------------------------- MODULE PreparationProofs -------------------------
(* Proofs about Preparation, for any candidate files, trajectories, v1      *)
(* outcomes and directories, whichever stage dies and however often, and    *)
(* about Evidence, for any places, dataset and labels, and about V1Chain,   *)
(* for any pairs and any edits of the plan.                                 *)
(*                                                                         *)
(* What a stage reads was made by an earlier one, maybe long ago: the       *)
(* invariant says of every file, and of the records a stage carries between *)
(* its writes, what its reader relies on.                                   *)
EXTENDS Preparation, Evidence, V1Chain,
        SequenceTheorems, FiniteSetTheorems, WellFoundedInduction, TLAPS

\* A candidate file holds a list, and the directories are listed.
Listable == /\ \A file \in CandidateFiles : Len(file) \in Nat
            /\ DOMAIN Roots \subseteq Nat

-----------------------------------------------------------------------------
(* Induction.                                                              *)

LEMMA LeastNumber ==
  ASSUME NEW T \in SUBSET Nat, T # {}
  PROVE  \E n \in T : \A m \in T : n <= m
<1> DEFINE R == OpToRel(<, Nat)
<1>1. \A x, y \in Nat : <<y, x>> \in R <=> y < x
  BY DEF OpToRel
<1>2. IsWellFoundedOn(R, Nat)
  BY NatLessThanWellFounded
<1> HIDE DEF R
<1>3. \E x \in T : \A y \in T : ~(<<y, x>> \in R)
  BY <1>2, WFMin
<1>4. PICK n \in T : \A y \in T : ~(<<y, n>> \in R)
  BY <1>3
<1>5. \A m \in T : ~(m < n)
  BY <1>1, <1>4
<1> QED
  BY <1>5

LEMMA Induction ==
  ASSUME NEW S, 0 \in S, \A n \in Nat : n \in S => n + 1 \in S
  PROVE  Nat \subseteq S
<1> DEFINE T == Nat \ S
<1>0. T \in SUBSET Nat
  OBVIOUS
<1>1. ASSUME T # {}
      PROVE  FALSE
  <2> HIDE DEF T
  <2>1. PICK n \in T : \A m \in T : n <= m
    BY <1>0, <1>1, LeastNumber
  <2>2. n # 0 /\ n \in Nat
    BY <2>1 DEF T
  <2>3. n - 1 \in Nat /\ n - 1 \notin T
    BY <2>1, <2>2
  <2>4. n - 1 \in S
    BY <2>3 DEF T
  <2>5. (n - 1) + 1 = n
    BY <2>2
  <2> QED
    BY <2>1, <2>3, <2>4, <2>5 DEF T
<1> QED
  BY <1>1

-----------------------------------------------------------------------------
(* What is chosen was selected.                                            *)

\* The list after row k, from the list before it: picks holds the rows that
\* are selected, made(k) what is listed of them.
Grown(s, picks, made, k) == IF k \in picks THEN Append(s, made[k]) ELSE s

Grows(f, picks, made, n) ==
  f = [k \in 0..n |-> IF k = 0 THEN << >> ELSE Grown(f[k - 1], picks, made, k)]

\* A recursive definition that looks one number back defines something.
LEMMA GrowthExists ==
  ASSUME NEW picks, NEW made, NEW n \in Nat
  PROVE  \E f : Grows(f, picks, made, n)
<1> DEFINE S == {m \in Nat : \E f : Grows(f, picks, made, m)}
<1>1. 0 \in S
  <2> DEFINE f == [k \in 0..0 |-> << >>]
  <2>1. Grows(f, picks, made, 0)
    BY DEF Grows
  <2> QED
    BY <2>1
<1>2. ASSUME NEW m \in Nat, NEW f, Grows(f, picks, made, m)
      PROVE  \E g : Grows(g, picks, made, m + 1)
  <2> DEFINE g == [k \in 0..m + 1 |-> IF k <= m THEN f[k] ELSE Grown(f[m], picks, made, m + 1)]
             h == [k \in 0..m + 1 |-> IF k = 0 THEN << >> ELSE Grown(g[k - 1], picks, made, k)]
  <2>1. ASSUME NEW k \in 0..m + 1
        PROVE  g[k] = h[k]
    <3>1. CASE k = 0
      BY <1>2, <3>1 DEF Grows
    <3>2. CASE k \in 1..m
      <4>1. g[k] = f[k] /\ g[k - 1] = f[k - 1]
        BY <3>2
      <4>2. f[k] = Grown(f[k - 1], picks, made, k)
        BY <1>2, <3>2 DEF Grows
      <4> QED
        BY <3>2, <4>1, <4>2
    <3>3. CASE k = m + 1
      <4>1. g[k] = Grown(f[m], picks, made, m + 1) /\ g[k - 1] = f[m]
        BY <3>3
      <4> QED
        BY <3>3, <4>1
    <3> QED
      BY <3>1, <3>2, <3>3
  <2>2. g = h
    BY <2>1
  <2>3. Grows(g, picks, made, m + 1)
    BY <2>2 DEF Grows
  <2> QED
    BY <2>3
<1>3. \A m \in Nat : m \in S => m + 1 \in S
  BY <1>2
<1> HIDE DEF S
<1>4. Nat \subseteq S
  BY <1>1, <1>3, Induction
<1> QED
  BY <1>4 DEF S

\* Everything in the list was picked.
LEMMA GrownOfPicks ==
  ASSUME NEW picks, NEW made, NEW C, NEW n \in Nat, NEW f, Grows(f, picks, made, n),
         \A k \in picks : made[k] \in C
  PROVE  f[n] \in Seq(C)
<1> DEFINE S == {k \in Nat : k <= n => f[k] \in Seq(C)}
<1>1. 0 \in S
  <2>1. f[0] = << >>
    BY DEF Grows
  <2> QED
    BY <2>1, EmptySeq
<1>2. ASSUME NEW k \in Nat, k \in S
      PROVE  k + 1 \in S
  <2> SUFFICES ASSUME k + 1 <= n
               PROVE  f[k + 1] \in Seq(C)
    OBVIOUS
  <2>1. k + 1 \in 0..n /\ k + 1 # 0 /\ (k + 1) - 1 = k
    OBVIOUS
  <2>2. f[k + 1] = Grown(f[k], picks, made, k + 1)
    BY <2>1 DEF Grows
  <2>3. f[k] \in Seq(C)
    BY <1>2
  <2>4. CASE k + 1 \in picks
    BY <2>2, <2>3, <2>4, AppendProperties DEF Grown
  <2>5. CASE k + 1 \notin picks
    BY <2>2, <2>3, <2>5 DEF Grown
  <2> QED
    BY <2>4, <2>5
<1> HIDE DEF S
<1>3. Nat \subseteq S
  BY <1>1, <1>2, Induction
<1> QED
  BY <1>3 DEF S

\* A listed row is of no pair and no task of those known, its inputs are there,
\* and if it has no risk level of its own, theirs is allowed.
RowSound(row, known, tasks) ==
  /\ row.role = "failure_target"
  /\ \A u \in known : /\ u[2] # row.task
                      /\ u[1] # NoPair => u[1] # row.pair
  /\ row.root \in Range(Roots) /\ row.task \in tasks
  /\ row.seen.replay # 0
  /\ row.own = Missing => row.seen.risk \in Allowed

LEMMA SelectedIsSound ==
  ASSUME Listable, NEW row, Selected(row)
  PROVE  RowSound(Candidate(row), used \cup mismatch, Tasks)
<1> DEFINE c == Candidate(row)
           root == materialized_root(row.task)
<1>1. /\ c.role = row.role /\ c.task = row.task /\ c.pair = row.pair
      /\ c.own = row.risk /\ c.root = root /\ c.seen = inputs[root][row.task]
  BY DEF Candidate
<1>2. row.role = "failure_target" /\ ~is_used(row, used) /\ ~is_used(row, mismatch)
  BY DEF Selected
<1>3. \A u \in used \cup mismatch : u[2] # row.task /\ (u[1] # NoPair => u[1] # row.pair)
  BY <1>2 DEF is_used
<1>4. root # 0 /\ inputs[root][row.task].replay # 0 /\ replay_risk_level(row, root) \in Allowed
  BY DEF Selected
<1>5. row.risk = Missing => inputs[root][row.task].risk \in Allowed
  BY <1>4 DEF replay_risk_level
<1>6. root \in Range(Roots) /\ row.task \in Tasks
  <2> DEFINE having == {i \in DOMAIN Roots : /\ row.task \in Tasks
                                             /\ \/ inputs[Roots[i]][row.task].config # 0
                                                \/ inputs[Roots[i]][row.task].replay # 0}
  <2>1. root = IF having = {} THEN 0 ELSE Roots[CHOOSE i \in having : \A j \in having : i <= j]
    BY DEF materialized_root
  <2>2. having # {}
    BY <1>4, <2>1
  <2>3. having \subseteq DOMAIN Roots /\ row.task \in Tasks
    BY <2>2
  <2> HIDE DEF having
  <2>4. having \in SUBSET Nat
    BY <2>3 DEF Listable
  <2>5. \E i \in having : \A j \in having : i <= j
    BY <2>2, <2>4, LeastNumber
  <2>6. PICK i \in having : root = Roots[i]
    BY <2>1, <2>2, <2>5
  <2> QED
    BY <2>3, <2>6 DEF Range
<1> HIDE DEF c, root
<1>7. RowSound(c, used \cup mismatch, Tasks)
  BY <1>1, <1>2, <1>3, <1>4, <1>5, <1>6 DEF RowSound
<1> QED
  BY <1>7 DEF c

\* The list as the scan makes it, for whatever rows it goes through.
Scans(f, rows, n) ==
  f = [k \in 0..n |->
         IF k = 0 THEN << >>
         ELSE IF k \in DOMAIN rows /\ Selected(rows[k])
           THEN Append(f[k - 1], Candidate(rows[k])) ELSE f[k - 1]]

LEMMA ChosenAreSelected ==
  ASSUME NEW rows, NEW n \in Nat,
         NEW C, \A k \in DOMAIN rows : Selected(rows[k]) => Candidate(rows[k]) \in C
  PROVE  Chosen(rows, n) \in Seq(C)
<1> DEFINE picks == {k \in DOMAIN rows : Selected(rows[k])}
           made == [k \in picks |-> Candidate(rows[k])]
<1>1. ASSUME NEW f
      PROVE  Grows(f, picks, made, n) <=> Scans(f, rows, n)
  <2> DEFINE g == [k \in 0..n |-> IF k = 0 THEN << >> ELSE Grown(f[k - 1], picks, made, k)]
             h == [k \in 0..n |->
                     IF k = 0 THEN << >>
                     ELSE IF k \in DOMAIN rows /\ Selected(rows[k])
                       THEN Append(f[k - 1], Candidate(rows[k])) ELSE f[k - 1]]
  <2>1. ASSUME NEW k \in 0..n
        PROVE  g[k] = h[k]
    BY DEF Grown
  <2>2. g = h
    BY <2>1
  <2> QED
    BY <2>2 DEF Grows, Scans
<1> DEFINE f == CHOOSE g : Scans(g, rows, n)
<1>2. \A k \in picks : made[k] \in C
  OBVIOUS
<1>3. Chosen(rows, n) = f[n]
  BY DEF Chosen, Scans
<1> HIDE DEF picks, made
<1>4. \E g : Scans(g, rows, n)
  BY <1>1, GrowthExists
<1>5. Scans(f, rows, n)
  BY <1>4
<1> HIDE DEF f
<1>6. f[n] \in Seq(C)
  BY <1>1, <1>2, <1>5, GrownOfPicks
<1> QED
  BY <1>3, <1>6

\* A list, all of whose rows are sound for what it says was known.
ListSound(made, tasks) ==
  \E C : made.rows \in Seq(C) /\ \A row \in C : RowSound(row, made.used \cup made.mismatch, tasks)

LEMMA SelectionIsSound ==
  ASSUME Listable, candidates \in CandidateFiles
  PROVE  ListSound([rows |-> select_protocol_v2_fresh_candidates, used |-> used,
                    mismatch |-> mismatch], Tasks)
<1> DEFINE rows == ByRank(coalesced_rows(candidates))
           C == {Candidate(rows[k]) : k \in {j \in DOMAIN rows : Selected(rows[j])}}
<1>1. Len(candidates) \in Nat
  BY DEF Listable
<1>2. \A row \in C : RowSound(row, used \cup mismatch, Tasks)
  BY SelectedIsSound
<1>3. \A k \in DOMAIN rows : Selected(rows[k]) => Candidate(rows[k]) \in C
  OBVIOUS
<1>4. select_protocol_v2_fresh_candidates = Chosen(rows, Len(candidates))
  BY DEF select_protocol_v2_fresh_candidates
<1> HIDE DEF rows, C
<1>5. Chosen(rows, Len(candidates)) \in Seq(C)
  BY <1>1, <1>3, ChosenAreSelected
<1> QED
  BY <1>2, <1>4, <1>5 DEF ListSound

\* The row the preflight takes up is one of the list.
LEMMA FirstListed ==
  ASSUME ListSound(list, Tasks), NEW wanted, Listed(wanted) # {}
  PROVE  RowSound(list.rows[CHOOSE i \in Listed(wanted) : \A j \in Listed(wanted) : i <= j],
                  list.used \cup list.mismatch, Tasks)
<1>1. PICK C : /\ list.rows \in Seq(C)
               /\ \A row \in C : RowSound(row, list.used \cup list.mismatch, Tasks)
  BY DEF ListSound
<1>2. Listed(wanted) \subseteq DOMAIN list.rows /\ DOMAIN list.rows \subseteq Nat
  BY <1>1, LenProperties DEF Listed
<1>3. PICK first \in Listed(wanted) : \A j \in Listed(wanted) : first <= j
  BY <1>2, LeastNumber
<1> DEFINE i == CHOOSE k \in Listed(wanted) : \A j \in Listed(wanted) : k <= j
<1>4. i \in Listed(wanted)
  BY <1>3
<1> HIDE DEF i
<1>5. list.rows[i] \in C
  BY <1>1, <1>2, <1>4, ElementOfSeq, LenProperties
<1>6. RowSound(list.rows[i], list.used \cup list.mismatch, Tasks)
  BY <1>1, <1>5
<1> QED
  BY <1>6 DEF i

-----------------------------------------------------------------------------
(* The invariant: every file, and every record a stage carries, is what its *)
(* reader takes it for.                                                     *)

Grounded(rows) == \E row \in rows : row.family = "v1" /\ row.completed /\ row.no_uplift /\ row.diverged

ReportSound(report) == report.passed => Grounded(report.grounds)

AdmissionSound(a, tasks) == a.ready => RowSound(a.row, a.known, tasks) /\ Grounded(a.grounds)

AdmittedShape ==
  admitted = [ready |-> admitted.ready, row |-> admitted.row, config |-> admitted.config,
              known |-> admitted.known, grounds |-> admitted.grounds]

\* A stage at work holds what its remaining writes need.
Materializes(s) ==
  /\ s.pc \in {"config", "replay", "input_report"}
  /\ s = [pc |-> s.pc, task |-> s.task, root |-> s.root, n |-> s.n, prefix |-> s.prefix]
Scanned(s, tasks) ==
  /\ s.pc = "scanned"
  /\ ListSound(s.list, tasks)
Reports(s, tasks) ==
  /\ s.pc \in {"list", "fresh_report"}
  /\ s = [pc |-> s.pc, list |-> s.list, report |-> s.report]
  /\ ListSound(s.list, tasks) /\ ReportSound(s.report)
Preflights(s, tasks) ==
  /\ s.pc \in {"configs", "preflight_report"}
  /\ s = [pc |-> s.pc, row |-> s.row, ready |-> s.ready, config |-> s.config, known |-> s.known,
          grounds |-> s.grounds]
  /\ AdmissionSound(s, tasks)

StageSound(s, tasks) == s = Idle \/ Materializes(s) \/ Scanned(s, tasks) \/ Reports(s, tasks) \/ Preflights(s, tasks)

PInv == /\ candidates \in CandidateFiles
        /\ dry.passed => Grounded(dry.targets)
        /\ ListSound(list, Tasks)
        /\ ReportSound(freshReport)
        /\ AdmittedShape /\ AdmissionSound(admitted, Tasks)
        /\ StageSound(stage, Tasks)

LEMMA InitIsSound == PrepInit => PInv
<1> SUFFICES ASSUME PrepInit
             PROVE  PInv
  OBVIOUS
<1>1. candidates \in CandidateFiles /\ ~dry.passed /\ StageSound(stage, Tasks)
  BY DEF PrepInit, StageSound
<1>2. ListSound(list, Tasks)
  <2>1. << >> \in Seq({})
    BY EmptySeq
  <2>2. list.rows = << >>
    BY DEF PrepInit, NoList
  <2>3. list.rows \in Seq({}) /\ \A row \in {} : RowSound(row, list.used \cup list.mismatch, Tasks)
    BY <2>1, <2>2
  <2> QED
    BY <2>3 DEF ListSound
<1>3. ReportSound(freshReport)
  BY DEF PrepInit, NoFresh, ReportSound
<1>4. AdmittedShape /\ AdmissionSound(admitted, Tasks)
  BY DEF PrepInit, NoAdmission, AdmittedShape, AdmissionSound
<1> QED
  BY <1>1, <1>2, <1>3, <1>4 DEF PInv

\* The tasks are those of the candidate files, that nobody changes.
LEMMA TasksStay == [PrepNext]_prep_vars => Tasks' = Tasks
<1> SUFFICES ASSUME [PrepNext]_prep_vars
             PROVE  DOMAIN traj' = DOMAIN traj
  BY DEF Tasks
<1>1. CASE \E t \in Tasks : rerun_baseline(t)
  BY <1>1 DEF rerun_baseline
<1>2. CASE UNCHANGED traj
  BY <1>2
<1> QED
  BY <1>1, <1>2 DEF PrepNext, prep_vars, evaluate_pair, materialize_start, materialize_config,
       materialize_replay, materialize_report, dry_run, fresh_scan, fresh_rescan, fresh_write_list,
       fresh_write_report, preflight_load, preflight_configs, preflight_report, die

\* The actions that leave the files alone that the invariant is about.
FilesStay == UNCHANGED <<candidates, dry, list, freshReport, admitted>>

LEMMA FilesStaySound ==
  ASSUME PInv, Tasks' = Tasks, FilesStay, StageSound(stage', Tasks')
  PROVE  PInv'
<1>1. /\ (candidates \in CandidateFiles)' /\ (dry.passed => Grounded(dry.targets))'
      /\ AdmittedShape'
  BY DEF PInv, FilesStay, AdmittedShape
<1>2. ListSound(list, Tasks)' /\ ReportSound(freshReport)' /\ AdmissionSound(admitted, Tasks)'
  BY DEF PInv, FilesStay
<1> QED
  BY <1>1, <1>2 DEF PInv

LEMMA MaterialKeepsInv ==
  ASSUME PInv, Tasks' = Tasks,
         \/ \E row \in Range(candidates), root \in Range(Roots) : materialize_start(row, root)
         \/ materialize_config \/ materialize_replay \/ materialize_report
  PROVE  PInv'
<1>1. CASE \E row \in Range(candidates), root \in Range(Roots) : materialize_start(row, root)
  <2>1. PICK row \in Range(candidates), root \in Range(Roots) : materialize_start(row, root)
    BY <1>1
  <2>2. FilesStay
    BY <2>1 DEF materialize_start, FilesStay
  <2>3. PICK n : stage' = [pc |-> "config", task |-> row.task, root |-> root, n |-> n,
                           prefix |-> row.prefix]
    BY <2>1 DEF materialize_start
  <2>4. Materializes(stage')
    BY <2>3 DEF Materializes
  <2> QED
    BY <2>2, <2>4, FilesStaySound DEF StageSound
<1>2. CASE materialize_config \/ materialize_replay
  <2>1. FilesStay
    BY <1>2 DEF materialize_config, materialize_replay, FilesStay
  <2>2. Materializes(stage)
    BY <1>2 DEF PInv, StageSound, Idle, Scanned, Reports, Preflights, materialize_config,
                materialize_replay
  <2>3. PICK pc \in {"replay", "input_report"} : stage' = [stage EXCEPT !.pc = pc]
    BY <1>2 DEF materialize_config, materialize_replay
  <2>4. stage' = [pc |-> pc, task |-> stage.task, root |-> stage.root, n |-> stage.n,
                  prefix |-> stage.prefix]
    BY <2>2, <2>3 DEF Materializes
  <2>5. Materializes(stage')
    BY <2>4 DEF Materializes
  <2> QED
    BY <2>1, <2>5, FilesStaySound DEF StageSound
<1>3. CASE materialize_report
  <2>1. FilesStay /\ stage' = Idle
    BY <1>3 DEF materialize_report, FilesStay
  <2> QED
    BY <2>1, FilesStaySound DEF StageSound
<1> QED
  BY <1>1, <1>2, <1>3

LEMMA DryRunKeepsInv ==
  ASSUME PInv, Tasks' = Tasks, dry_run
  PROVE  PInv'
<1>1. dry'.passed => Grounded(dry'.targets)
  <2> SUFFICES ASSUME dry'.passed
               PROVE  Grounded(dry'.targets)
    OBVIOUS
  <2>1. dry'.targets = target_rows(outcomes.rows) /\ target_rows(outcomes.rows) # {}
    BY DEF dry_run
  <2> QED
    BY <2>1 DEF target_rows, Grounded
<1>2. UNCHANGED <<candidates, list, freshReport, admitted, stage>>
  BY DEF dry_run
<1>3. ListSound(list, Tasks)' /\ ReportSound(freshReport)' /\ AdmissionSound(admitted, Tasks)' /\ StageSound(stage, Tasks)'
  BY <1>2 DEF PInv
<1>4. (candidates \in CandidateFiles)' /\ AdmittedShape'
  BY <1>2 DEF PInv, AdmittedShape
<1> QED
  BY <1>1, <1>3, <1>4 DEF PInv

LEMMA FreshKeepsInv ==
  ASSUME Listable, PInv, Tasks' = Tasks,
         fresh_scan \/ fresh_rescan \/ fresh_write_list \/ fresh_write_report
  PROVE  PInv'
<1> DEFINE selection == [rows |-> select_protocol_v2_fresh_candidates, used |-> used,
                         mismatch |-> mismatch]
<1>1. CASE fresh_scan
  <2>1. FilesStay
    BY <1>1 DEF fresh_scan, FilesStay
  <2>2. ListSound(selection, Tasks)
    BY SelectionIsSound DEF PInv
  <2>3. stage' = [pc |-> "scanned", list |-> selection]
    BY <1>1 DEF fresh_scan
  <2> HIDE DEF selection
  <2>4. Scanned(stage', Tasks')
    BY <2>2, <2>3 DEF Scanned
  <2> QED
    BY <2>1, <2>4, FilesStaySound DEF StageSound
<1>2. CASE fresh_rescan
  <2> DEFINE report == fresh_candidate_report(select_protocol_v2_fresh_candidates)
  <2>1. FilesStay
    BY <1>2 DEF fresh_rescan, FilesStay
  <2>2. Scanned(stage, Tasks)
    BY <1>2 DEF PInv, StageSound, Idle, Materializes, Reports, Preflights, fresh_rescan
  <2>3. ReportSound(report)
    BY DEF PInv, ReportSound, fresh_candidate_report
  <2>4. stage' = [pc |-> "list", list |-> stage.list, report |-> report]
    BY <1>2 DEF fresh_rescan
  <2> HIDE DEF report
  <2>5. /\ stage'.pc = "list" /\ stage'.list = stage.list /\ stage'.report = report
        /\ stage' = [pc |-> stage'.pc, list |-> stage'.list, report |-> stage'.report]
    BY <2>4
  <2>6. Reports(stage', Tasks')
    BY <2>2, <2>3, <2>5 DEF Reports, Scanned
  <2> QED
    BY <2>1, <2>6, FilesStaySound DEF StageSound
<1>3. CASE fresh_write_list
  <2>1. /\ UNCHANGED <<candidates, dry, freshReport, admitted>>
        /\ list' = stage.list /\ stage' = [stage EXCEPT !.pc = "fresh_report"]
    BY <1>3 DEF fresh_write_list
  <2>2. Reports(stage, Tasks)
    BY <1>3 DEF PInv, StageSound, Idle, Materializes, Scanned, Preflights, fresh_write_list
  <2>3. stage' = [pc |-> "fresh_report", list |-> stage.list, report |-> stage.report]
    BY <2>1, <2>2 DEF Reports
  <2>4. /\ stage'.pc = "fresh_report" /\ stage'.list = stage.list /\ stage'.report = stage.report
        /\ stage' = [pc |-> stage'.pc, list |-> stage'.list, report |-> stage'.report]
    BY <2>3
  <2>5. Reports(stage', Tasks')
    BY <2>2, <2>4 DEF Reports
  <2>6. ListSound(list, Tasks)' /\ ReportSound(freshReport)' /\ AdmissionSound(admitted, Tasks)'
    BY <2>1, <2>2 DEF PInv, Reports
  <2>7. (candidates \in CandidateFiles)' /\ AdmittedShape' /\ (dry.passed => Grounded(dry.targets))'
    BY <2>1 DEF PInv, AdmittedShape
  <2> QED
    BY <2>5, <2>6, <2>7 DEF PInv, StageSound
<1>4. CASE fresh_write_report
  <2>1. /\ UNCHANGED <<candidates, dry, list, admitted>>
        /\ freshReport' = stage.report /\ stage' = Idle
    BY <1>4 DEF fresh_write_report
  <2>2. Reports(stage, Tasks)
    BY <1>4 DEF PInv, StageSound, Idle, Materializes, Scanned, Preflights, fresh_write_report
  <2>3. ListSound(list, Tasks)' /\ ReportSound(freshReport)' /\ AdmissionSound(admitted, Tasks)'
    BY <2>1, <2>2 DEF PInv, Reports
  <2>4. (candidates \in CandidateFiles)' /\ AdmittedShape' /\ (dry.passed => Grounded(dry.targets))'
    BY <2>1 DEF PInv, AdmittedShape
  <2> QED
    BY <2>1, <2>3, <2>4 DEF PInv, StageSound
<1> QED
  BY <1>1, <1>2, <1>3, <1>4

\* What passes the gates is sound, whatever became of the candidates since.
LEMMA LoadedIsSound ==
  ASSUME PInv, Tasks' = Tasks, NEW wanted, preflight_load(wanted)
  PROVE  Preflights(stage', Tasks')
<1>1. CASE Listed(wanted) = {}
  <2>1. stage' = [pc |-> "configs", row |-> << >>, ready |-> FALSE, config |-> 0, known |-> {},
                  grounds |-> freshReport.grounds]
    BY <1>1 DEF preflight_load
  <2>2. ~stage'.ready
    BY <2>1
  <2> QED
    BY <2>1, <2>2 DEF Preflights, AdmissionSound
<1>2. CASE Listed(wanted) # {}
  <2> DEFINE row == list.rows[CHOOSE i \in Listed(wanted) : \A j \in Listed(wanted) : i <= j]
             known == list.used \cup list.mismatch
             ready == preflight_gates(row)
             config == inputs[row.root][row.task].config
             grounds == freshReport.grounds
  <2>1. stage' = [pc |-> "configs", row |-> row, ready |-> ready, config |-> config,
                  known |-> known, grounds |-> grounds]
    BY <1>2 DEF preflight_load
  <2>2. RowSound(row, known, Tasks)
    BY <1>2, FirstListed DEF PInv
  <2>3. ready => Grounded(grounds)
    BY DEF PInv, ReportSound, preflight_gates
  <2> HIDE DEF row, known, ready, config, grounds
  <2>4. /\ stage'.pc = "configs" /\ stage'.row = row /\ stage'.known = known
        /\ stage'.grounds = grounds /\ stage'.ready = ready
        /\ stage' = [pc |-> stage'.pc, row |-> stage'.row, ready |-> stage'.ready,
                     config |-> stage'.config, known |-> stage'.known, grounds |-> stage'.grounds]
    BY <2>1
  <2>5. AdmissionSound(stage', Tasks')
    BY <2>2, <2>3, <2>4 DEF AdmissionSound
  <2> QED
    BY <2>4, <2>5 DEF Preflights
<1> QED
  BY <1>1, <1>2

LEMMA PreflightKeepsInv ==
  ASSUME PInv, Tasks' = Tasks, (\E wanted \in Tasks \cup {Missing} : preflight_load(wanted))
               \/ preflight_configs \/ preflight_report
  PROVE  PInv'
<1>1. CASE \E wanted \in Tasks \cup {Missing} : preflight_load(wanted)
  <2>1. PICK wanted \in Tasks \cup {Missing} : preflight_load(wanted)
    BY <1>1
  <2>2. FilesStay
    BY <2>1 DEF preflight_load, FilesStay
  <2>3. Preflights(stage', Tasks')
    BY <2>1, LoadedIsSound
  <2> QED
    BY <2>2, <2>3, FilesStaySound DEF StageSound
<1>2. CASE preflight_configs
  <2>1. /\ UNCHANGED <<candidates, dry, list, freshReport>>
        /\ stage' = [stage EXCEPT !.pc = "preflight_report"]
        /\ \E config : admitted' = [admitted EXCEPT !.config = config]
    BY <1>2 DEF preflight_configs
  <2>2. Preflights(stage, Tasks)
    BY <1>2 DEF PInv, StageSound, Idle, Materializes, Scanned, Reports, preflight_configs
  <2>3. /\ stage'.pc = "preflight_report" /\ stage'.row = stage.row /\ stage'.known = stage.known
        /\ stage'.grounds = stage.grounds /\ stage'.ready = stage.ready
        /\ stage' = [pc |-> stage'.pc, row |-> stage'.row, ready |-> stage'.ready,
                     config |-> stage'.config, known |-> stage'.known, grounds |-> stage'.grounds]
    BY <2>1, <2>2 DEF Preflights
  <2>4. Preflights(stage', Tasks')
    BY <2>2, <2>3 DEF Preflights, AdmissionSound
  <2>5. AdmittedShape' /\ AdmissionSound(admitted', Tasks')
    <3>1. PICK config : admitted' = [admitted EXCEPT !.config = config]
      BY <2>1
    <3>2. admitted' = [ready |-> admitted.ready, row |-> admitted.row, config |-> config,
                       known |-> admitted.known, grounds |-> admitted.grounds]
      BY <3>1 DEF PInv, AdmittedShape
    <3> QED
      BY <3>2 DEF PInv, AdmittedShape, AdmissionSound
  <2>6. ListSound(list, Tasks)' /\ ReportSound(freshReport)'
    BY <2>1 DEF PInv
  <2>7. (candidates \in CandidateFiles)' /\ (dry.passed => Grounded(dry.targets))'
    BY <2>1 DEF PInv
  <2> QED
    BY <2>4, <2>5, <2>6, <2>7 DEF PInv, StageSound
<1>3. CASE preflight_report
  <2>1. /\ UNCHANGED <<candidates, dry, list, freshReport>> /\ stage' = Idle
        /\ admitted' = [ready |-> stage.ready, row |-> stage.row, config |-> admitted.config,
                        known |-> stage.known, grounds |-> stage.grounds]
    BY <1>3 DEF preflight_report
  <2>2. AdmissionSound(stage, Tasks)
    BY <1>3 DEF PInv, StageSound, Idle, Materializes, Scanned, Reports, Preflights, preflight_report
  <2>3. AdmittedShape' /\ AdmissionSound(admitted', Tasks')
    BY <2>1, <2>2 DEF AdmittedShape, AdmissionSound
  <2>4. ListSound(list, Tasks)' /\ ReportSound(freshReport)'
    BY <2>1 DEF PInv
  <2>5. (candidates \in CandidateFiles)' /\ (dry.passed => Grounded(dry.targets))'
    BY <2>1 DEF PInv
  <2> QED
    BY <2>1, <2>3, <2>4, <2>5 DEF PInv, StageSound
<1> QED
  BY <1>1, <1>2, <1>3

LEMMA StepKeepsInv ==
  ASSUME Listable, PInv, [PrepNext]_prep_vars
  PROVE  PInv'
<1>0. Tasks' = Tasks
  BY TasksStay
<1>1. CASE evaluate_pair \/ \E t \in Tasks : rerun_baseline(t)
  <2>1. FilesStay /\ stage' = stage
    BY <1>1 DEF evaluate_pair, rerun_baseline, FilesStay
  <2> QED
    BY <1>0, <2>1, FilesStaySound DEF PInv
<1>2. CASE (\E row \in Range(candidates), root \in Range(Roots) : materialize_start(row, root))
           \/ materialize_config \/ materialize_replay \/ materialize_report
  BY <1>0, <1>2, MaterialKeepsInv
<1>3. CASE dry_run
  BY <1>0, <1>3, DryRunKeepsInv
<1>4. CASE fresh_scan \/ fresh_rescan \/ fresh_write_list \/ fresh_write_report
  BY <1>0, <1>4, FreshKeepsInv
<1>5. CASE (\E wanted \in Tasks \cup {Missing} : preflight_load(wanted))
           \/ preflight_configs \/ preflight_report
  BY <1>0, <1>5, PreflightKeepsInv
<1>6. CASE die
  <2>1. FilesStay /\ stage' = Idle
    BY <1>6 DEF die, FilesStay
  <2> QED
    BY <1>0, <2>1, FilesStaySound DEF StageSound
<1>7. CASE UNCHANGED prep_vars
  <2>1. FilesStay /\ stage' = stage
    BY <1>7 DEF prep_vars, FilesStay
  <2> QED
    BY <1>0, <2>1, FilesStaySound DEF PInv
<1> QED
  BY <1>1, <1>2, <1>3, <1>4, <1>5, <1>6, <1>7 DEF PrepNext

-----------------------------------------------------------------------------
(* The second invariant: until a stage dies, a directory no stage is at work *)
(* over holds the replay actions its risk level is of.                      *)

IsFolder(x) == x = [config |-> x.config, replay |-> x.replay, prefix |-> x.prefix, risk |-> x.risk]

Folders(f, R, T) ==
  f = [r \in R |-> [t \in T |-> [config |-> f[r][t].config, replay |-> f[r][t].replay,
                                 prefix |-> f[r][t].prefix, risk |-> f[r][t].risk]]]

InputsShape == Folders(inputs, Range(Roots), Tasks)

\* f with made at one place
Put(f, R, T, a, b, made) == [r \in R |-> [t \in T |-> IF r = a /\ t = b THEN made ELSE f[r][t]]]

Screened(made) ==
  made.replay = 0 \/ made.risk = replay_determinism_screen(Prefix(made.replay, made.prefix))

Writing(s) == s.pc \in {"config", "replay", "input_report"}
WritingAt(s, r, t) == Writing(s) /\ s.root = r /\ s.task = t

ReplayWritten ==
  \A r \in Range(Roots), t \in Tasks :
     WritingAt(stage, r, t) /\ stage.pc = "input_report" =>
        inputs[r][t].replay = stage.n /\ inputs[r][t].prefix = stage.prefix

OthersScreened ==
  \A r \in Range(Roots), t \in Tasks : WritingAt(stage, r, t) \/ Screened(inputs[r][t])

SInv == /\ stage_deaths \in Nat
        /\ InputsShape
        /\ ReplayWritten
        /\ stage_deaths = 0 => OthersScreened

LEMMA InitIsScreened == PrepInit => SInv
<1> SUFFICES ASSUME PrepInit
             PROVE  SInv
  OBVIOUS
<1>1. inputs = [r \in Range(Roots) |-> [t \in Tasks |-> NoInputs]] /\ stage = Idle /\ stage_deaths = 0
  BY DEF PrepInit
<1>2. InputsShape
  BY <1>1 DEF InputsShape, Folders, NoInputs
<1>3. ReplayWritten
  BY <1>1 DEF ReplayWritten, WritingAt, Writing, Idle
<1>4. OthersScreened
  BY <1>1 DEF OthersScreened, Screened, NoInputs
<1> QED
  BY <1>1, <1>2, <1>3, <1>4 DEF SInv

\* A step that writes no inputs, of a stage that was writing none.
LEMMA InputsStayScreened ==
  ASSUME SInv, Tasks' = Tasks, inputs' = inputs, stage_deaths' \in {stage_deaths, stage_deaths + 1},
         \/ stage' = stage /\ stage_deaths' = stage_deaths
         \/ ~Writing(stage) /\ stage'.pc # "input_report"
         \/ stage' = Idle /\ stage_deaths' = stage_deaths + 1
  PROVE  SInv'
<1>1. stage_deaths' \in Nat /\ (stage_deaths' = 0 => stage_deaths = 0 /\ stage_deaths' = stage_deaths)
  BY DEF SInv
<1>2. InputsShape'
  BY DEF SInv, InputsShape
<1>3. CASE stage' = stage /\ stage_deaths' = stage_deaths
  <2>1. ReplayWritten' /\ (OthersScreened => OthersScreened')
    BY <1>3 DEF SInv, ReplayWritten, OthersScreened
  <2> QED
    BY <1>1, <1>2, <1>3, <2>1 DEF SInv
<1>4. CASE ~Writing(stage) /\ stage'.pc # "input_report"
  <2>1. ReplayWritten' /\ (OthersScreened => OthersScreened')
    BY <1>4 DEF ReplayWritten, OthersScreened, WritingAt
  <2> QED
    BY <1>1, <1>2, <2>1 DEF SInv
<1>5. CASE stage' = Idle /\ stage_deaths' = stage_deaths + 1
  <2>1. ReplayWritten'
    BY <1>5 DEF ReplayWritten, WritingAt, Writing, Idle
  <2>2. stage_deaths' # 0
    BY <1>5 DEF SInv
  <2> QED
    BY <1>1, <1>2, <2>1, <2>2 DEF SInv
<1> QED
  BY <1>3, <1>4, <1>5

\* A step that writes some of the inputs the stage is at work over.
LEMMA OneInputWritten ==
  ASSUME SInv, Tasks' = Tasks, stage_deaths' = stage_deaths,
         NEW a, NEW b, NEW made,
         a \in Range(Roots) /\ b \in Tasks => IsFolder(made),
         Writing(stage), stage.root = a, stage.task = b,
         inputs' = Put(inputs, Range(Roots), Tasks, a, b, made),
         \/ /\ Writing(stage') /\ stage'.root = a /\ stage'.task = b
            /\ a \in Range(Roots) /\ b \in Tasks /\ stage'.pc = "input_report" =>
                  made.replay = stage'.n /\ made.prefix = stage'.prefix
         \/ /\ ~Writing(stage')
            /\ a \in Range(Roots) /\ b \in Tasks => Screened(made)
  PROVE  SInv'
<1>0. ASSUME NEW r \in Range(Roots), NEW t \in Tasks
      PROVE  /\ inputs'[r][t] = IF r = a /\ t = b THEN made ELSE inputs[r][t]
             /\ IsFolder(inputs[r][t])
  BY DEF SInv, InputsShape, Folders, IsFolder, Put
<1>1. InputsShape'
  <2>1. ASSUME NEW r \in Range(Roots), NEW t \in Tasks
        PROVE  IsFolder(inputs'[r][t])
    BY <1>0
  <2> DEFINE g == [r \in Range(Roots) |-> [t \in Tasks |-> inputs'[r][t]]]
             h == [r \in Range(Roots) |-> [t \in Tasks |->
                     [config |-> inputs'[r][t].config, replay |-> inputs'[r][t].replay,
                      prefix |-> inputs'[r][t].prefix, risk |-> inputs'[r][t].risk]]]
  <2>2. inputs' = g
    BY DEF Put
  <2>3. ASSUME NEW r \in Range(Roots)
        PROVE  g[r] = h[r]
    BY <2>1 DEF IsFolder
  <2>4. g = h
    BY <2>3
  <2> HIDE DEF g
  <2>5. inputs' = h
    BY <2>2, <2>4
  <2> QED
    BY <2>5 DEF InputsShape, Folders
<1>2. ReplayWritten'
  <2>1. ASSUME NEW r \in Range(Roots), NEW t \in Tasks, WritingAt(stage', r, t),
               stage'.pc = "input_report"
        PROVE  inputs'[r][t].replay = stage'.n /\ inputs'[r][t].prefix = stage'.prefix
    <3>1. r = a /\ t = b
      BY <2>1 DEF WritingAt
    <3> QED
      BY <1>0, <2>1, <3>1 DEF WritingAt
  <2> QED
    BY <2>1 DEF ReplayWritten
<1>3. OthersScreened => OthersScreened'
  <2>1. ASSUME OthersScreened, NEW r \in Range(Roots), NEW t \in Tasks
        PROVE  WritingAt(stage', r, t) \/ Screened(inputs'[r][t])
    <3>1. CASE r = a /\ t = b
      BY <1>0, <3>1 DEF WritingAt
    <3>2. CASE ~(r = a /\ t = b)
      BY <1>0, <2>1, <3>2 DEF WritingAt, OthersScreened
    <3> QED
      BY <3>1, <3>2
  <2> QED
    BY <2>1 DEF OthersScreened
<1> QED
  BY <1>1, <1>2, <1>3 DEF SInv

Grid(f, R, T) == f = [r \in R |-> [t \in T |-> f[r][t]]]
Nested(f, a, b, d) == [f EXCEPT ![a] = [f[a] EXCEPT ![b] = d]]

LEMMA OneCell ==
  ASSUME NEW R, NEW T, NEW f, Grid(f, R, T), NEW a, NEW b, NEW d
  PROVE  Nested(f, a, b, d) = Put(f, R, T, a, b, d)
<1>0. f = [r \in R |-> [t \in T |-> f[r][t]]]
  BY DEF Grid
<1> DEFINE g == [f EXCEPT ![a] = [f[a] EXCEPT ![b] = d]]
           h == [r \in R |-> [t \in T |-> IF r = a /\ t = b THEN d ELSE f[r][t]]]
<1>1. ASSUME NEW r \in R
      PROVE  g[r] = h[r]
  <2>1. CASE r = a
    <3>1. f[a] = [t \in T |-> f[a][t]] /\ g[r] = [f[a] EXCEPT ![b] = d]
      BY <1>0, <2>1
    <3>2. [f[a] EXCEPT ![b] = d] = [t \in T |-> IF t = b THEN d ELSE f[a][t]]
      BY <3>1
    <3> QED
      BY <2>1, <3>1, <3>2
  <2>2. CASE r # a
    <3>1. f[r] = [t \in T |-> f[r][t]] /\ g[r] = f[r]
      BY <1>0, <2>2
    <3>2. h[r] = [t \in T |-> f[r][t]]
      BY <2>2
    <3> QED
      BY <3>1, <3>2
  <2> QED
    BY <2>1, <2>2
<1>2. g = [r \in R |-> g[r]] /\ h = [r \in R |-> h[r]]
  BY <1>0
<1> QED
  BY <1>1, <1>2 DEF Put, Nested

LEMMA OneRecord ==
  ASSUME NEW x, NEW n, NEW m,
         IsFolder(x)
  PROVE  /\ [x EXCEPT !.config = n] =
              [config |-> n, replay |-> x.replay, prefix |-> x.prefix, risk |-> x.risk]
         /\ [x EXCEPT !.replay = n, !.prefix = m] =
              [config |-> x.config, replay |-> n, prefix |-> m, risk |-> x.risk]
         /\ [x EXCEPT !.risk = n] =
              [config |-> x.config, replay |-> x.replay, prefix |-> x.prefix, risk |-> n]
<1>1. [x EXCEPT !.config = n] =
        [config |-> n, replay |-> x.replay, prefix |-> x.prefix, risk |-> x.risk]
  BY DEF IsFolder
<1>2. [x EXCEPT !.risk = n] =
        [config |-> x.config, replay |-> x.replay, prefix |-> x.prefix, risk |-> n]
  BY DEF IsFolder
<1>3. [x EXCEPT !.replay = n, !.prefix = m] =
        [config |-> x.config, replay |-> n, prefix |-> m, risk |-> x.risk]
  <2> DEFINE y == [x EXCEPT !.replay = n]
  <2>1. y = [config |-> x.config, replay |-> n, prefix |-> x.prefix, risk |-> x.risk]
    BY DEF IsFolder
  <2> HIDE DEF y
  <2>2. [y EXCEPT !.prefix = m] = [config |-> x.config, replay |-> n, prefix |-> m, risk |-> x.risk]
    BY <2>1
  <2> QED
    BY <2>2 DEF y
<1> QED
  BY <1>1, <1>2, <1>3

LEMMA MaterialKeepsScreen ==
  ASSUME PInv, SInv, Tasks' = Tasks, materialize_config \/ materialize_replay \/ materialize_report
  PROVE  SInv'
<1> DEFINE a == stage.root
           b == stage.task
           old == inputs[a][b]
<1>1. Materializes(stage) /\ Writing(stage)
  BY DEF PInv, StageSound, Idle, Scanned, Reports, Preflights, Writing, materialize_config,
         materialize_replay, materialize_report
<1>2. stage_deaths' = stage_deaths
  BY DEF materialize_config, materialize_replay, materialize_report
<1>3. Grid(inputs, Range(Roots), Tasks)
  BY DEF SInv, InputsShape, Folders, Grid
<1>4. ASSUME a \in Range(Roots), b \in Tasks
      PROVE  IsFolder(old)
  <2>1. \A r \in Range(Roots), t \in Tasks : IsFolder(inputs[r][t])
    BY DEF SInv, InputsShape, Folders, IsFolder
  <2> QED
    BY <1>4, <2>1
<1>5. CASE materialize_config
  <2> DEFINE made == [old EXCEPT !.config = stage.n]
  <2>1. inputs' = Nested(inputs, a, b, made)
    BY <1>5, Zenon DEF materialize_config, Nested
  <2>2. ASSUME a \in Range(Roots), b \in Tasks
        PROVE  IsFolder(made)
    <3>1. made = [config |-> stage.n, replay |-> old.replay, prefix |-> old.prefix, risk |-> old.risk]
      BY <1>4, <2>2, OneRecord, Zenon
    <3> QED
      BY <3>1 DEF IsFolder
  <2>3. stage' = [pc |-> "replay", task |-> b, root |-> a, n |-> stage.n, prefix |-> stage.prefix]
    BY <1>1, <1>5 DEF materialize_config, Materializes
  <2>4. Writing(stage') /\ stage'.root = a /\ stage'.task = b /\ stage'.pc # "input_report"
    BY <2>3 DEF Writing
  <2> HIDE DEF made
  <2>5. inputs' = Put(inputs, Range(Roots), Tasks, a, b, made)
    BY <1>3, <2>1, OneCell
  <2> QED
    BY <1>1, <1>2, <2>2, <2>4, <2>5, OneInputWritten
<1>6. CASE materialize_replay
  <2> DEFINE made == [old EXCEPT !.replay = stage.n, !.prefix = stage.prefix]
  <2>1. inputs' = Nested(inputs, a, b, made)
    BY <1>6, Zenon DEF materialize_replay, Nested
  <2>2. ASSUME a \in Range(Roots), b \in Tasks
        PROVE  IsFolder(made) /\ made.replay = stage.n /\ made.prefix = stage.prefix
    <3>1. IsFolder(old)
      BY <1>4, <2>2
    <3> HIDE DEF old
    <3>2. made = [config |-> old.config, replay |-> stage.n, prefix |-> stage.prefix, risk |-> old.risk]
      BY <3>1, OneRecord, Zenon
    <3> QED
      BY <3>2 DEF IsFolder
  <2>3. stage' = [pc |-> "input_report", task |-> b, root |-> a, n |-> stage.n, prefix |-> stage.prefix]
    BY <1>1, <1>6 DEF materialize_replay, Materializes
  <2>4. /\ Writing(stage') /\ stage'.root = a /\ stage'.task = b
        /\ stage'.n = stage.n /\ stage'.prefix = stage.prefix
    BY <2>3 DEF Writing
  <2> HIDE DEF made
  <2>5. inputs' = Put(inputs, Range(Roots), Tasks, a, b, made)
    BY <1>3, <2>1, OneCell
  <2> QED
    BY <1>1, <1>2, <2>2, <2>4, <2>5, OneInputWritten
<1>7. CASE materialize_report
  <2> DEFINE made == [old EXCEPT !.risk = input_report]
  <2>1. inputs' = Nested(inputs, a, b, made)
    BY <1>7, Zenon DEF materialize_report, Nested
  <2>2. stage.pc = "input_report" /\ stage' = Idle
    BY <1>7 DEF materialize_report
  <2>3. ASSUME a \in Range(Roots), b \in Tasks
        PROVE  IsFolder(made) /\ Screened(made)
    <3>1. made = [config |-> old.config, replay |-> old.replay, prefix |-> old.prefix,
                  risk |-> input_report]
      BY <1>4, <2>3, OneRecord, Zenon
    <3>2. old.replay = stage.n /\ old.prefix = stage.prefix
      BY <1>1, <2>2, <2>3 DEF SInv, ReplayWritten, WritingAt
    <3> QED
      BY <3>1, <3>2 DEF IsFolder, Screened, input_report
  <2>4. ~Writing(stage')
    BY <2>2 DEF Writing, Idle
  <2> HIDE DEF made
  <2>5. inputs' = Put(inputs, Range(Roots), Tasks, a, b, made)
    BY <1>3, <2>1, OneCell
  <2> QED
    BY <1>1, <1>2, <2>3, <2>4, <2>5, OneInputWritten
<1> QED
  BY <1>5, <1>6, <1>7

LEMMA StepKeepsScreen ==
  ASSUME PInv, SInv, [PrepNext]_prep_vars
  PROVE  SInv'
<1>0. Tasks' = Tasks
  BY TasksStay
<1>1. CASE evaluate_pair \/ (\E t \in Tasks : rerun_baseline(t)) \/ dry_run \/ UNCHANGED prep_vars
  <2>1. inputs' = inputs /\ stage' = stage /\ stage_deaths' = stage_deaths
    BY <1>1 DEF evaluate_pair, rerun_baseline, dry_run, prep_vars
  <2> QED
    BY <1>0, <2>1, InputsStayScreened
<1>2. CASE \/ \E row \in Range(candidates), root \in Range(Roots) : materialize_start(row, root)
           \/ \E wanted \in Tasks \cup {Missing} : preflight_load(wanted)
  <2>1. inputs' = inputs /\ stage_deaths' = stage_deaths /\ stage.pc = "idle"
    BY <1>2 DEF materialize_start, preflight_load, Call
  <2>2. stage'.pc \in {"config", "configs"}
    BY <1>2 DEF materialize_start, preflight_load
  <2> QED
    BY <1>0, <2>1, <2>2, InputsStayScreened DEF Writing
<1>3. CASE materialize_config \/ materialize_replay \/ materialize_report
  BY <1>0, <1>3, MaterialKeepsScreen
<1>4. CASE fresh_scan \/ fresh_rescan \/ fresh_write_list \/ fresh_write_report
           \/ preflight_configs \/ preflight_report
  <2>1. inputs' = inputs /\ stage_deaths' = stage_deaths
    BY <1>4 DEF fresh_scan, fresh_rescan, fresh_write_list, fresh_write_report, preflight_configs,
                preflight_report
  <2>2. ~Writing(stage)
    BY <1>4 DEF Writing, Call, fresh_scan, fresh_rescan, fresh_write_list, fresh_write_report,
                preflight_configs, preflight_report
  <2>3. stage'.pc # "input_report"
    <3>1. CASE fresh_scan \/ fresh_rescan \/ fresh_write_report \/ preflight_report
      BY <3>1 DEF fresh_scan, fresh_rescan, fresh_write_report, preflight_report, Idle
    <3>2. CASE fresh_write_list \/ preflight_configs
      <4>1. Reports(stage, Tasks) \/ Preflights(stage, Tasks)
        BY <3>2 DEF PInv, StageSound, Idle, Materializes, Scanned, fresh_write_list, preflight_configs
      <4>2. PICK pc \in {"fresh_report", "preflight_report"} : stage' = [stage EXCEPT !.pc = pc]
        BY <3>2 DEF fresh_write_list, preflight_configs
      <4> QED
        BY <4>1, <4>2 DEF Reports, Preflights
    <3> QED
      BY <1>4, <3>1, <3>2
  <2> QED
    BY <1>0, <2>1, <2>2, <2>3, InputsStayScreened
<1>5. CASE die
  <2>1. inputs' = inputs /\ stage' = Idle /\ stage_deaths' = stage_deaths + 1
    BY <1>5 DEF die
  <2> QED
    BY <1>0, <2>1, InputsStayScreened
<1> QED
  BY <1>1, <1>2, <1>3, <1>4, <1>5 DEF PrepNext

LEMMA PrepInvariant == ASSUME Listable PROVE PrepSpec => [](PInv /\ SInv)
<1>1. PrepInit => PInv /\ SInv
  BY InitIsSound, InitIsScreened
<1>2. PInv /\ SInv /\ [PrepNext]_prep_vars => PInv' /\ SInv'
  BY StepKeepsInv, StepKeepsScreen
<1> QED
  BY <1>1, <1>2, PTL DEF PrepSpec

-----------------------------------------------------------------------------
(* The theorems.                                                           *)

\* A pair the planned preflight admits was, when the fresh-candidate gate
\* selected it, of no evaluated and no mismatching pair or task: an old list, a
\* death between two writes or an evaluation that ends meanwhile changes nothing.
THEOREM AdmittedPairsWereFresh == ASSUME Listable PROVE PrepSpec => []AdmittedWasFresh
<1>1. PInv /\ SInv => AdmittedWasFresh
  BY DEF PInv, AdmissionSound, RowSound, AdmittedWasFresh
<1> QED
  BY <1>1, PrepInvariant, PTL

\* The planned preflight admits a pair only after a dry run that found a completed
\* v1 pair whose behaviour changed without uplift, and it says which.
THEOREM AdmissionsAreGrounded == ASSUME Listable PROVE PrepSpec => []AdmissionIsGrounded
<1>1. PInv /\ SInv => AdmissionIsGrounded
  BY DEF PInv, AdmissionSound, Grounded, AdmissionIsGrounded
<1> QED
  BY <1>1, PrepInvariant, PTL

\* What an admitted pair replays is of low risk by the actions themselves, when
\* the level is that of its inputs, these are still the ones it was selected with,
\* and no stage died or is at work: the screen is of the actions that lie there.
THEOREM AdmittedReplaysAreScreened == ASSUME Listable PROVE PrepSpec => []AdmittedReplayIsScreened
<1>1. PInv /\ SInv => AdmittedReplayIsScreened
  <2> DEFINE row == admitted.row
             now == inputs[row.root][row.task]
  <2> SUFFICES ASSUME PInv, SInv, admitted.ready, row.own = Missing, row.seen = now,
                      stage.pc = "idle", stage_deaths = 0
               PROVE  replay_determinism_screen(Prefix(now.replay, now.prefix)) \in Allowed
    BY DEF AdmittedReplayIsScreened
  <2>1. /\ row.root \in Range(Roots) /\ row.task \in Tasks
        /\ now.replay # 0 /\ now.risk \in Allowed
    BY DEF PInv, AdmissionSound, RowSound
  <2>2. Screened(now)
    BY <2>1 DEF SInv, OthersScreened, WritingAt, Writing
  <2> QED
    BY <2>1, <2>2 DEF Screened
<1> QED
  BY <1>1, PrepInvariant, PTL

-----------------------------------------------------------------------------
(* Evidence.  The index lists every task with evidence on the root: one that *)
(* a report hides is the task of that report.  What is planned, and what is  *)
(* harvested after that, is outside of what the plan knew.                   *)

\* Places and dataset are lists.
Listings == /\ DOMAIN Places = 1..Len(Places) /\ Len(Places) \in Nat
            /\ Len(Dataset) \in Nat /\ MaxInstances \in Nat

\* The instances kept as the plan goes through the dataset.
Keeps(f, excluded, n) ==
  f = [k \in 0..n |->
         IF k = 0 THEN << >>
         ELSE IF k \in DOMAIN Dataset /\ Dataset[k] \notin excluded
           THEN Append(f[k - 1], Dataset[k]) ELSE f[k - 1]]

\* What the plan goes through is a list of instances that are not excluded.
LEMMA EligibleAreNew ==
  ASSUME NEW excluded, NEW n \in Nat
  PROVE  \E C : Eligible(excluded, n) \in Seq(C) /\ C \cap excluded = {}
<1> DEFINE picks == {k \in DOMAIN Dataset : Dataset[k] \notin excluded}
           made == [k \in picks |-> Dataset[k]]
           C == {Dataset[k] : k \in picks}
<1>1. ASSUME NEW f
      PROVE  Grows(f, picks, made, n) <=> Keeps(f, excluded, n)
  <2> DEFINE g == [k \in 0..n |-> IF k = 0 THEN << >> ELSE Grown(f[k - 1], picks, made, k)]
             h == [k \in 0..n |->
                     IF k = 0 THEN << >>
                     ELSE IF k \in DOMAIN Dataset /\ Dataset[k] \notin excluded
                       THEN Append(f[k - 1], Dataset[k]) ELSE f[k - 1]]
  <2>1. ASSUME NEW k \in 0..n
        PROVE  g[k] = h[k]
    BY DEF Grown
  <2>2. g = h
    BY <2>1
  <2> QED
    BY <2>2 DEF Grows, Keeps
<1> DEFINE f == CHOOSE g : Keeps(g, excluded, n)
<1>2. (\A k \in picks : made[k] \in C) /\ C \cap excluded = {}
  OBVIOUS
<1>3. Eligible(excluded, n) = f[n]
  BY DEF Eligible, Keeps
<1> HIDE DEF picks, made, C
<1>4. \E g : Keeps(g, excluded, n)
  BY <1>1, GrowthExists
<1>5. Keeps(f, excluded, n)
  BY <1>4
<1> HIDE DEF f
<1>6. f[n] \in Seq(C)
  BY <1>1, <1>2, <1>5, GrownOfPicks
<1> QED
  BY <1>2, <1>3, <1>6

\* _scan_for_eval_report_dirs: of the reports of one task and stratum the first is listed.
LEMMA IndexListsAllSeen ==
  ASSUME Listings
  PROVE  Seen \subseteq IndexedTasks(scan_evidence_root)
<1> DEFINE scanned == scan_eval_reports(report_at)
           rows == [i \in scanned |-> IndexRow(i)]
           done == {rows[i].task : i \in {k \in scanned : rows[k].status = "official_eval_completed"}}
<1>1. \A i \in DOMAIN Places : IndexRow(i).task = Places[i].task
  BY DEF IndexRow
<1>2. \A i \in scanned : rows[i].task = Places[i].task /\ i \in DOMAIN Places
  BY <1>1 DEF scan_eval_reports
<1>3. /\ scan_evidence_root.reports = rows
      /\ scan_evidence_root.inputs = _scan_materialized_not_executed(done)
  BY DEF scan_evidence_root
<1> HIDE DEF rows, scanned, done
<1>4. DOMAIN rows = scanned
  BY DEF rows
<1>5. \A i \in scanned : Places[i].task \in IndexedTasks(scan_evidence_root)
  BY <1>2, <1>3, <1>4 DEF IndexedTasks
<1>6. ASSUME NEW t \in materialized
      PROVE  t \in IndexedTasks(scan_evidence_root)
  <2>1. CASE t \in done
    <3>1. PICK i \in scanned : t = rows[i].task
      BY <2>1 DEF done
    <3> QED
      BY <1>2, <1>5, <3>1
  <2>2. CASE t \notin done
    <3> DEFINE row == [task |-> t, stratum |-> "v2_strict_fresh", label |-> "",
                       status |-> "materialized_not_executed", manifest |-> "none"]
    <3>1. row \in _scan_materialized_not_executed(done)
      BY <2>2 DEF _scan_materialized_not_executed
    <3>2. row.task = t
      OBVIOUS
    <3> HIDE DEF row
    <3> QED
      BY <1>3, <3>1, <3>2 DEF IndexedTasks
  <2> QED
    BY <2>1, <2>2
<1>7. ASSUME NEW i \in DOMAIN Places, report_at[i] # NoFile
      PROVE  Places[i].task \in IndexedTasks(scan_evidence_root)
  <2>1. CASE i \in scanned
    BY <1>5, <2>1
  <2>2. CASE i \notin scanned
    <3> DEFINE Same(j) == /\ report_at[j] # NoFile /\ report_at[j].parses
                          /\ Places[j].task = Places[i].task
                          /\ _classify_stratum(Places[j]) = _classify_stratum(Places[i])
               T == {j \in DOMAIN Places : Same(j)}
    <3>1. report_at[i].parses
      BY <1>7, <2>2 DEF scanned, scan_eval_reports
    <3>2. i \in T
      BY <1>7, <3>1
    <3>3. T \in SUBSET Nat
      BY DEF Listings
    <3>4. PICK j \in T : \A k \in T : j <= k
      BY <3>2, <3>3, LeastNumber
    <3>5. ~Hidden(report_at, j)
      <4> SUFFICES ASSUME NEW k \in 1..(j - 1), report_at[k] # NoFile, report_at[k].parses,
                          Places[k].task = Places[j].task,
                          _classify_stratum(Places[k]) = _classify_stratum(Places[j])
                   PROVE  FALSE
        BY DEF Hidden
      <4>1. j \in 1..Len(Places) /\ Len(Places) \in Nat
        BY DEF Listings
      <4>2. k \in DOMAIN Places /\ ~(j <= k)
        BY <4>1 DEF Listings
      <4>3. k \in T
        BY <4>2
      <4> QED
        BY <3>4, <4>2, <4>3
    <3>6. j \in scanned
      BY <3>5 DEF scanned, scan_eval_reports
    <3>7. Places[j].task = Places[i].task
      OBVIOUS
    <3> QED
      BY <1>5, <3>6, <3>7
  <2> QED
    BY <2>1, <2>2
<1> QED
  BY <1>6, <1>7 DEF Seen

\* A list of tasks none of which is known.
Unseen(tasks, known) == \E C : tasks \in Seq(C) /\ C \cap known = {}

LEMMA UnseenList ==
  ASSUME NEW tasks, NEW known, Unseen(tasks, known)
  PROVE  /\ \A n \in Nat : Unseen(SubSeq(tasks, 1, IF Len(tasks) < n THEN Len(tasks) ELSE n), known)
         /\ tasks # << >> => Unseen(Tail(tasks), known) /\ Head(tasks) \notin known
<1>1. PICK C : tasks \in Seq(C) /\ C \cap known = {}
  BY DEF Unseen
<1>2. ASSUME NEW n \in Nat
      PROVE  SubSeq(tasks, 1, IF Len(tasks) < n THEN Len(tasks) ELSE n) \in Seq(C)
  <2>1. Len(tasks) \in Nat
    BY <1>1, LenProperties
  <2>2. (IF Len(tasks) < n THEN Len(tasks) ELSE n) \in 1 - 1 .. Len(tasks)
    BY <2>1
  <2> QED
    BY <1>1, <2>1, <2>2, SubSeqProperties
<1>3. tasks # << >> => Tail(tasks) \in Seq(C) /\ Head(tasks) \in C
  BY <1>1, HeadTailProperties
<1> QED
  BY <1>1, <1>2, <1>3 DEF Unseen

EvInv ==
  /\ evidence_index # NoFile => evidence_index.seen \subseteq IndexedTasks(evidence_index.rows)
  /\ Unseen(target_plan.selected, target_plan.known)
  /\ target_plan.decision = "plan_blocked_lite300_exclusion_degraded" => target_plan.selected = << >>
  /\ harvest = [pc |-> harvest.pc, todo |-> harvest.todo, candidates |-> harvest.candidates,
                known |-> harvest.known]
  /\ Unseen(harvest.todo, harvest.known)
  /\ harvest.candidates \cap harvest.known = {}
  /\ harvested.candidates \cap harvested.known = {}

LEMMA NothingIsUnseen == ASSUME NEW known PROVE Unseen(<< >>, known)
<1>1. << >> \in Seq({}) /\ {} \cap known = {}
  BY EmptySeq
<1> QED
  BY <1>1 DEF Unseen

\* What is planned is known neither to the index, and so not to the root it was made of,
\* nor to the Lite300 report.
LEMMA PlanIsUnseen ==
  ASSUME Listings, EvInv, write_fresh_target_harvest_plan
  PROVE  /\ Unseen(target_plan'.selected, target_plan'.known)
         /\ target_plan'.decision = "plan_blocked_lite300_exclusion_degraded"
              => target_plan'.selected = << >>
<1> DEFINE excluded == IndexedTasks(evidence_index.rows) \cup lite300
           eligible == Eligible(excluded, Len(Dataset))
           n == IF Len(eligible) < MaxInstances THEN Len(eligible) ELSE MaxInstances
<1>1. /\ target_plan'.decision = harvest_plan(lite300).decision
      /\ target_plan'.selected = harvest_plan(lite300).selected
      /\ target_plan'.known = evidence_index.seen \cup (IF lite300 = NoFile THEN {} ELSE lite300)
  BY DEF write_fresh_target_harvest_plan
<1>2. evidence_index.seen \subseteq IndexedTasks(evidence_index.rows)
  BY DEF write_fresh_target_harvest_plan, EvInv
<1>3. CASE lite300 = NoFile
  <2>1. target_plan'.selected = << >>
    BY <1>1, <1>3 DEF harvest_plan
  <2> QED
    BY <2>1, NothingIsUnseen
<1>4. CASE lite300 # NoFile
  <2>1. /\ target_plan'.decision = "plan_ready"
        /\ target_plan'.selected = SubSeq(eligible, 1, n)
    BY <1>1, <1>4 DEF harvest_plan
  <2>2. PICK C : eligible \in Seq(C) /\ C \cap excluded = {}
    BY EligibleAreNew DEF Listings
  <2>3. C \cap target_plan'.known = {}
    BY <1>1, <1>2, <1>4, <2>2
  <2> HIDE DEF eligible
  <2>4. Unseen(eligible, target_plan'.known)
    BY <2>2, <2>3 DEF Unseen
  <2>5. Unseen(SubSeq(eligible, 1, n), target_plan'.known)
    BY <2>4, UnseenList DEF Listings
  <2> QED
    BY <2>1, <2>5
<1> QED
  BY <1>3, <1>4

LEMMA EvInvAlways ==
  ASSUME Listings
  PROVE  EvidenceSpec => []EvInv
<1>1. EvidenceInit => EvInv
  BY NothingIsUnseen DEF EvidenceInit, EvInv, NoPlanYet, NoHarvest, NoHarvested
<1>2. ASSUME EvInv, [EvidenceNext]_evidence_vars
      PROVE  EvInv'
  <2> USE <1>2
  <2>0. ASSUME UNCHANGED <<evidence_index, target_plan, harvest, harvested>>
        PROVE  EvInv'
    BY <2>0 DEF EvInv, Unseen, IndexedTasks
  <2>1. CASE evaluate
    BY <2>0, <2>1 DEF evaluate, harvest_state
  <2>2. CASE prepare
    BY <2>0, <2>2 DEF prepare, harvest_state
  <2>3. CASE write_evidence_index
    <3>1. evidence_index'.rows = scan_evidence_root /\ evidence_index'.seen = Seen
      BY <2>3 DEF write_evidence_index
    <3>2. evidence_index'.seen \subseteq IndexedTasks(evidence_index'.rows)
      BY <3>1, IndexListsAllSeen
    <3>3. UNCHANGED <<target_plan, harvest, harvested>>
      BY <2>3 DEF write_evidence_index, harvest_state
    <3> QED
      BY <3>2, <3>3 DEF EvInv, Unseen, IndexedTasks
  <2>4. CASE write_fresh_target_harvest_plan
    <3>1. UNCHANGED <<evidence_index, harvest, harvested>>
      BY <2>4 DEF write_fresh_target_harvest_plan
    <3>2. /\ Unseen(target_plan'.selected, target_plan'.known)
          /\ target_plan'.decision = "plan_blocked_lite300_exclusion_degraded"
               => target_plan'.selected = << >>
      BY <2>4, PlanIsUnseen
    <3> QED
      BY <3>1, <3>2 DEF EvInv, Unseen, IndexedTasks
  <2>5. CASE run_fresh_target_harvest
    <3>1. UNCHANGED <<evidence_index, target_plan, harvested>>
      BY <2>5 DEF run_fresh_target_harvest
    <3>2. harvest' = [pc |-> "running", todo |-> target_plan.selected, candidates |-> {},
                      known |-> target_plan.known]
      BY <2>5 DEF run_fresh_target_harvest, NoHarvest
    <3> QED
      BY <3>1, <3>2 DEF EvInv, Unseen, IndexedTasks
  <2>6. CASE harvest_instance
    <3>1. UNCHANGED <<evidence_index, target_plan, harvested>> /\ harvest.todo # << >>
      BY <2>6 DEF harvest_instance
    <3>2. PICK unresolved \in BOOLEAN :
            harvest' = [harvest EXCEPT
                     !.todo = Tail(@),
                     !.candidates = IF unresolved THEN @ \cup {Head(harvest.todo)} ELSE @]
      BY <2>6 DEF harvest_instance
    <3>3. harvest' = [pc |-> harvest.pc, todo |-> Tail(harvest.todo),
                      candidates |-> IF unresolved THEN harvest.candidates \cup {Head(harvest.todo)}
                                     ELSE harvest.candidates,
                      known |-> harvest.known]
      BY <3>2 DEF EvInv
    <3>4. Unseen(Tail(harvest.todo), harvest.known) /\ Head(harvest.todo) \notin harvest.known
      BY <3>1, UnseenList DEF EvInv
    <3> QED
      BY <3>1, <3>3, <3>4 DEF EvInv, Unseen, IndexedTasks
  <2>7. CASE harvest_ends
    <3>1. UNCHANGED <<evidence_index, target_plan>> /\ harvest' = NoHarvest
      BY <2>7 DEF harvest_ends
    <3>2. \/ harvested' = harvested
          \/ harvested'.candidates = harvest.candidates /\ harvested'.known = harvest.known
      BY <2>7 DEF harvest_ends
    <3>3. Unseen(harvest'.todo, harvest'.known) /\ harvest'.candidates = {}
      BY <3>1, NothingIsUnseen DEF NoHarvest
    <3>4. harvested'.candidates \cap harvested'.known = {}
      BY <3>2 DEF EvInv
    <3> QED
      BY <3>1, <3>3, <3>4 DEF EvInv, Unseen, IndexedTasks, NoHarvest
  <2>8. CASE lite300_changes
    BY <2>0, <2>8 DEF lite300_changes
  <2>9. CASE UNCHANGED evidence_vars
    BY <2>0, <2>9 DEF evidence_vars, harvest_state
  <2> QED
    BY <2>1, <2>2, <2>3, <2>4, <2>5, <2>6, <2>7, <2>8, <2>9 DEF EvidenceNext
<1> QED
  BY <1>1, <1>2, PTL DEF EvidenceSpec

\* fresh_target_harvest.py: "Contamination exclusion is a hard gate".  For any trees, any
\* reports in them, torn, hidden or of a killed evaluation, and however old the index and
\* the plan are: no harvested target has evidence on the root the index was made of or is
\* in the Lite300 report, and without that report nothing is selected.
THEOREM HarvestsAreUnseen ==
  ASSUME Listings
  PROVE  EvidenceSpec => []HarvestIsUnseen
<1>1. EvInv => HarvestIsUnseen
  BY DEF EvInv, HarvestIsUnseen
<1> QED
  BY <1>1, EvInvAlways, PTL

-----------------------------------------------------------------------------
(* Protocol v1.  Counts over all rows are enough because the hook of each    *)
(* prescription blocks on every constraint of it: one row cannot make up for *)
(* another.                                                                  *)

\* The states of the hook along a harness.
HookRuns(f, constraints, harness, n) ==
  f = [k \in 0..n |->
         IF k = 0 THEN HookStart ELSE harness_step(constraints, f[k - 1], harness[k])]

\* The function of states that Hooked is a value of exists.
LEMMA HookRunExists ==
  ASSUME NEW constraints, NEW harness, NEW n \in Nat
  PROVE  \E f : HookRuns(f, constraints, harness, n)
<1> DEFINE S == {m \in Nat : \E f : HookRuns(f, constraints, harness, m)}
<1>1. 0 \in S
  <2> DEFINE f == [k \in 0..0 |-> HookStart]
  <2>1. HookRuns(f, constraints, harness, 0)
    BY DEF HookRuns
  <2> QED
    BY <2>1
<1>2. ASSUME NEW m \in Nat, NEW f, HookRuns(f, constraints, harness, m)
      PROVE  \E g : HookRuns(g, constraints, harness, m + 1)
  <2> DEFINE g == [k \in 0..m + 1 |->
                     IF k <= m THEN f[k] ELSE harness_step(constraints, f[m], harness[m + 1])]
             h == [k \in 0..m + 1 |->
                     IF k = 0 THEN HookStart ELSE harness_step(constraints, g[k - 1], harness[k])]
  <2>1. ASSUME NEW k \in 0..m + 1
        PROVE  g[k] = h[k]
    <3>1. CASE k = 0
      BY <1>2, <3>1 DEF HookRuns
    <3>2. CASE k \in 1..m
      <4>1. g[k] = f[k] /\ g[k - 1] = f[k - 1]
        BY <3>2
      <4>2. f[k] = harness_step(constraints, f[k - 1], harness[k])
        BY <1>2, <3>2 DEF HookRuns
      <4> QED
        BY <3>2, <4>1, <4>2
    <3>3. CASE k = m + 1
      <4>1. g[k] = harness_step(constraints, f[m], harness[m + 1]) /\ g[k - 1] = f[m]
        BY <3>3
      <4> QED
        BY <3>3, <4>1
    <3> QED
      BY <3>1, <3>2, <3>3
  <2>2. g = h
    BY <2>1
  <2>3. HookRuns(g, constraints, harness, m + 1)
    BY <2>2 DEF HookRuns
  <2> QED
    BY <2>3
<1>3. \A m \in Nat : m \in S => m + 1 \in S
  BY <1>2
<1> HIDE DEF S
<1>4. Nat \subseteq S
  BY <1>1, <1>3, Induction
<1> QED
  BY <1>4 DEF S

\* The states of the hook, from the start, one per step of the harness.
LEMMA HookedSteps ==
  ASSUME NEW constraints, NEW harness, NEW n \in Nat
  PROVE  \E f : /\ f[0] = HookStart
                /\ \A k \in 1..n : f[k] = harness_step(constraints, f[k - 1], harness[k])
                /\ Hooked(constraints, harness, n) = f[n]
<1> DEFINE f == CHOOSE g : HookRuns(g, constraints, harness, n)
<1>1. Hooked(constraints, harness, n) = f[n]
  BY DEF Hooked, HookRuns
<1>2. HookRuns(f, constraints, harness, n)
  BY HookRunExists
<1> HIDE DEF f
<1>3. f[0] = HookStart /\ \A k \in 1..n : f[k] = harness_step(constraints, f[k - 1], harness[k])
  BY <1>2 DEF HookRuns
<1> QED
  BY <1>1, <1>3

ToFail == "block_edit_until_failure_reproduced_or_explained"
ToTarget == "require_post_patch_target_recheck"
ToGuard == "require_post_patch_guard_recheck"
NoRegression == "block_submit_on_guard_regression"

\* Blocks so far and one more.
LEMMA AppendOne == \A a, b : Append(<<a>>, b) = <<a, b>>
<1> SUFFICES ASSUME NEW a, NEW b PROVE Append(<<a>>, b) = <<a, b>>
  OBVIOUS
<1>1. <<a>> \in Seq({a, b}) /\ <<a, b>> \in Seq({a, b})
  OBVIOUS
<1> DEFINE s == Append(<<a>>, b)
<1>2. s \in Seq({a, b}) /\ Len(s) = 2 /\ s[1] = a /\ s[2] = b
  BY <1>1, AppendProperties
<1> HIDE DEF s
<1>3. s = <<a, b>>
  BY <1>1, <1>2, SeqEqual
<1> QED
  BY <1>3 DEF s

\* The same of two blocks.
LEMMA AppendTwo == \A a, b, c : Append(<<a, b>>, c) = <<a, b, c>>
<1> SUFFICES ASSUME NEW a, NEW b, NEW c PROVE Append(<<a, b>>, c) = <<a, b, c>>
  OBVIOUS
<1>1. <<a, b>> \in Seq({a, b, c}) /\ <<a, b, c>> \in Seq({a, b, c})
  OBVIOUS
<1> DEFINE s == Append(<<a, b>>, c)
<1>2. s \in Seq({a, b, c}) /\ Len(s) = 3 /\ s[1] = a /\ s[2] = b /\ s[3] = c
  BY <1>1, AppendProperties
<1> HIDE DEF s
<1>3. s = <<a, b, c>>
  BY <1>1, <1>2, SeqEqual
<1> QED
  BY <1>3 DEF s

\* An action that is allowed leaves the hook as it was (before_action).
LEMMA AllowedStep ==
  ASSUME NEW c, NEW seen, NEW blocked, NEW family, _block_reason(c, seen, family) = ""
  PROVE  harness_step(c, Hook(seen, blocked), Try(family)) = Hook(seen, blocked)
BY DEF harness_step, before_action, Try, Hook

\* One that is not is recorded under its reason.
LEMMA BlockedStep ==
  ASSUME NEW c, NEW seen, NEW blocked, NEW family, _block_reason(c, seen, family) # ""
  PROVE  harness_step(c, Hook(seen, blocked), Try(family))
           = Hook(seen, Append(blocked, _block_reason(c, seen, family)))
BY DEF harness_step, before_action, Try, Hook

\* An observation is noted (after_action).
LEMMA DoStep ==
  ASSUME NEW c, NEW seen, NEW blocked, NEW family, NEW result
  PROVE  harness_step(c, Hook(seen, blocked), Do(family, result))
           = Hook(Noted(seen, family, result), blocked)
BY DEF harness_step, after_action, Do, Hook

\* The targeted harness is blocked on an early edit, then on an unchecked submit.
LEMMA TargetedIsBlocked ==
  Blocked["targeted_failure_oracle"] = <<ToFail, ToTarget>>
<1> DEFINE c == PRESCRIPTION_CONSTRAINTS["targeted_failure_oracle"]
           h == _targeted_harness
<1>1. c = {"materialize_prefix_observed_failure", ToFail, ToTarget}
  BY DEF PRESCRIPTION_CONSTRAINTS, ToFail, ToTarget, ToGuard, NoRegression
<1>2. Blocked["targeted_failure_oracle"] = Hooked(c, h, 9).blocked
  BY DEF Blocked, PRESCRIPTION_CONSTRAINTS, _targeted_harness
<1>3. /\ h[1] = Try("edit")
      /\ h[2] = Try("target")
      /\ h[3] = Do("target", "failure")
      /\ h[4] = Try("edit")
      /\ h[5] = Do("edit", "passed")
      /\ h[6] = Try("submit")
      /\ h[7] = Try("target")
      /\ h[8] = Do("target", "passed")
      /\ h[9] = Try("submit")
  BY DEF _targeted_harness
<1> HIDE DEF c, h
<1>4. PICK f : /\ f[0] = HookStart
               /\ \A k \in 1..9 : f[k] = harness_step(c, f[k - 1], h[k])
               /\ Hooked(c, h, 9) = f[9]
  BY HookedSteps
<1>5. f[0] = Hook({}, << >>)
  BY <1>4 DEF HookStart
<1>6. f[1] = Hook({}, <<ToFail>>)
  <2>1. f[1] = harness_step(c, f[0], Try("edit"))
    BY <1>3, <1>4
  <2>2. _block_reason(c, {}, "edit") = ToFail
    BY <1>1 DEF _block_reason, ToFail, ToTarget, ToGuard, NoRegression
  <2>3. Append(<< >>, ToFail) = <<ToFail>>
    BY AppendOne, AppendTwo
  <2>4. ToFail # ""
    BY DEF ToFail
  <2> QED
    BY <1>5, <2>1, <2>2, <2>3, <2>4, BlockedStep
<1>7. f[2] = Hook({}, <<ToFail>>)
  <2>1. f[2] = harness_step(c, f[1], Try("target"))
    BY <1>3, <1>4
  <2>2. _block_reason(c, {}, "target") = ""
    BY <1>1 DEF _block_reason, ToFail, ToTarget, ToGuard, NoRegression
  <2> QED
    BY <1>6, <2>1, <2>2, AllowedStep
<1>8. f[3] = Hook({"failed"}, <<ToFail>>)
  <2>1. f[3] = harness_step(c, f[2], Do("target", "failure"))
    BY <1>3, <1>4
  <2>2. Noted({}, "target", "failure") = {"failed"}
    BY DEF Noted
  <2> QED
    BY <1>7, <2>1, <2>2, DoStep
<1>9. f[4] = Hook({"failed"}, <<ToFail>>)
  <2>1. f[4] = harness_step(c, f[3], Try("edit"))
    BY <1>3, <1>4
  <2>2. _block_reason(c, {"failed"}, "edit") = ""
    BY <1>1 DEF _block_reason, ToFail, ToTarget, ToGuard, NoRegression
  <2> QED
    BY <1>8, <2>1, <2>2, AllowedStep
<1>10. f[5] = Hook({"failed", "patched"}, <<ToFail>>)
  <2>1. f[5] = harness_step(c, f[4], Do("edit", "passed"))
    BY <1>3, <1>4
  <2>2. Noted({"failed"}, "edit", "passed") = {"failed", "patched"}
    BY DEF Noted
  <2> QED
    BY <1>9, <2>1, <2>2, DoStep
<1>11. f[6] = Hook({"failed", "patched"}, <<ToFail, ToTarget>>)
  <2>1. f[6] = harness_step(c, f[5], Try("submit"))
    BY <1>3, <1>4
  <2>2. _block_reason(c, {"failed", "patched"}, "submit") = ToTarget
    BY <1>1 DEF _block_reason, ToFail, ToTarget, ToGuard, NoRegression
  <2>3. Append(<<ToFail>>, ToTarget) = <<ToFail, ToTarget>>
    BY AppendOne, AppendTwo
  <2>4. ToTarget # ""
    BY DEF ToTarget
  <2> QED
    BY <1>10, <2>1, <2>2, <2>3, <2>4, BlockedStep
<1>12. f[7] = Hook({"failed", "patched"}, <<ToFail, ToTarget>>)
  <2>1. f[7] = harness_step(c, f[6], Try("target"))
    BY <1>3, <1>4
  <2>2. _block_reason(c, {"failed", "patched"}, "target") = ""
    BY <1>1 DEF _block_reason, ToFail, ToTarget, ToGuard, NoRegression
  <2> QED
    BY <1>11, <2>1, <2>2, AllowedStep
<1>13. f[8] = Hook({"failed", "patched", "target"}, <<ToFail, ToTarget>>)
  <2>1. f[8] = harness_step(c, f[7], Do("target", "passed"))
    BY <1>3, <1>4
  <2>2. Noted({"failed", "patched"}, "target", "passed") = {"failed", "patched", "target"}
    BY DEF Noted
  <2> QED
    BY <1>12, <2>1, <2>2, DoStep
<1>14. f[9] = Hook({"failed", "patched", "target"}, <<ToFail, ToTarget>>)
  <2>1. f[9] = harness_step(c, f[8], Try("submit"))
    BY <1>3, <1>4
  <2>2. _block_reason(c, {"failed", "patched", "target"}, "submit") = ""
    BY <1>1 DEF _block_reason, ToFail, ToTarget, ToGuard, NoRegression
  <2> QED
    BY <1>13, <2>1, <2>2, AllowedStep
<1> QED
  BY <1>2, <1>4, <1>14 DEF Hook

\* The regression harness is blocked on three submits, each for another reason.
LEMMA RegressionIsBlocked ==
  Blocked["regression_guarded_patch_validation"] = <<ToTarget, ToGuard, NoRegression>>
<1> DEFINE c == PRESCRIPTION_CONSTRAINTS["regression_guarded_patch_validation"]
           h == _regression_harness
<1>1. c = {ToTarget, ToGuard, NoRegression}
  BY DEF PRESCRIPTION_CONSTRAINTS, ToFail, ToTarget, ToGuard, NoRegression
<1>2. Blocked["regression_guarded_patch_validation"] = Hooked(c, h, 9).blocked
  BY DEF Blocked, PRESCRIPTION_CONSTRAINTS, _regression_harness
<1>3. /\ h[1] = Try("edit")
      /\ h[2] = Do("edit", "passed")
      /\ h[3] = Try("submit")
      /\ h[4] = Try("target")
      /\ h[5] = Do("target", "passed")
      /\ h[6] = Try("submit")
      /\ h[7] = Try("guard")
      /\ h[8] = Do("guard", "regression")
      /\ h[9] = Try("submit")
  BY DEF _regression_harness
<1> HIDE DEF c, h
<1>4. PICK f : /\ f[0] = HookStart
               /\ \A k \in 1..9 : f[k] = harness_step(c, f[k - 1], h[k])
               /\ Hooked(c, h, 9) = f[9]
  BY HookedSteps
<1>5. f[0] = Hook({}, << >>)
  BY <1>4 DEF HookStart
<1>6. f[1] = Hook({}, << >>)
  <2>1. f[1] = harness_step(c, f[0], Try("edit"))
    BY <1>3, <1>4
  <2>2. _block_reason(c, {}, "edit") = ""
    BY <1>1 DEF _block_reason, ToFail, ToTarget, ToGuard, NoRegression
  <2> QED
    BY <1>5, <2>1, <2>2, AllowedStep
<1>7. f[2] = Hook({"patched"}, << >>)
  <2>1. f[2] = harness_step(c, f[1], Do("edit", "passed"))
    BY <1>3, <1>4
  <2>2. Noted({}, "edit", "passed") = {"patched"}
    BY DEF Noted
  <2>3. harness_step(c, Hook({}, << >>), Do("edit", "passed"))
          = Hook(Noted({}, "edit", "passed"), << >>)
    BY DoStep
  <2> QED
    BY <1>6, <2>1, <2>2, <2>3, Zenon
<1>8. f[3] = Hook({"patched"}, <<ToTarget>>)
  <2>1. f[3] = harness_step(c, f[2], Try("submit"))
    BY <1>3, <1>4
  <2>2. _block_reason(c, {"patched"}, "submit") = ToTarget
    BY <1>1 DEF _block_reason, ToFail, ToTarget, ToGuard, NoRegression
  <2>3. Append(<< >>, ToTarget) = <<ToTarget>>
    BY AppendOne, AppendTwo
  <2>4. ToTarget # ""
    BY DEF ToTarget
  <2> QED
    BY <1>7, <2>1, <2>2, <2>3, <2>4, BlockedStep
<1>9. f[4] = Hook({"patched"}, <<ToTarget>>)
  <2>1. f[4] = harness_step(c, f[3], Try("target"))
    BY <1>3, <1>4
  <2>2. _block_reason(c, {"patched"}, "target") = ""
    BY <1>1 DEF _block_reason, ToFail, ToTarget, ToGuard, NoRegression
  <2> QED
    BY <1>8, <2>1, <2>2, AllowedStep
<1>10. f[5] = Hook({"patched", "target"}, <<ToTarget>>)
  <2>1. f[5] = harness_step(c, f[4], Do("target", "passed"))
    BY <1>3, <1>4
  <2>2. Noted({"patched"}, "target", "passed") = {"patched", "target"}
    BY DEF Noted
  <2> QED
    BY <1>9, <2>1, <2>2, DoStep
<1>11. f[6] = Hook({"patched", "target"}, <<ToTarget, ToGuard>>)
  <2>1. f[6] = harness_step(c, f[5], Try("submit"))
    BY <1>3, <1>4
  <2>2. _block_reason(c, {"patched", "target"}, "submit") = ToGuard
    BY <1>1 DEF _block_reason, ToFail, ToTarget, ToGuard, NoRegression
  <2>3. Append(<<ToTarget>>, ToGuard) = <<ToTarget, ToGuard>>
    BY AppendOne, AppendTwo
  <2>4. ToGuard # ""
    BY DEF ToGuard
  <2> QED
    BY <1>10, <2>1, <2>2, <2>3, <2>4, BlockedStep
<1>12. f[7] = Hook({"patched", "target"}, <<ToTarget, ToGuard>>)
  <2>1. f[7] = harness_step(c, f[6], Try("guard"))
    BY <1>3, <1>4
  <2>2. _block_reason(c, {"patched", "target"}, "guard") = ""
    BY <1>1 DEF _block_reason, ToFail, ToTarget, ToGuard, NoRegression
  <2> QED
    BY <1>11, <2>1, <2>2, AllowedStep
<1>13. f[8] = Hook({"patched", "target", "failed", "guard", "regressed"}, <<ToTarget, ToGuard>>)
  <2>1. f[8] = harness_step(c, f[7], Do("guard", "regression"))
    BY <1>3, <1>4
  <2>2. Noted({"patched", "target"}, "guard", "regression") = {"patched", "target", "failed", "guard", "regressed"}
    BY DEF Noted
  <2> QED
    BY <1>12, <2>1, <2>2, DoStep
<1>14. f[9] = Hook({"patched", "target", "failed", "guard", "regressed"}, <<ToTarget, ToGuard, NoRegression>>)
  <2>1. f[9] = harness_step(c, f[8], Try("submit"))
    BY <1>3, <1>4
  <2>2. _block_reason(c, {"patched", "target", "failed", "guard", "regressed"}, "submit") = NoRegression
    BY <1>1 DEF _block_reason, ToFail, ToTarget, ToGuard, NoRegression
  <2>3. Append(<<ToTarget, ToGuard>>, NoRegression) = <<ToTarget, ToGuard, NoRegression>>
    BY AppendOne, AppendTwo
  <2>4. NoRegression # ""
    BY DEF NoRegression
  <2> QED
    BY <1>13, <2>1, <2>2, <2>3, <2>4, BlockedStep
<1> QED
  BY <1>2, <1>4, <1>14 DEF Hook

Targeted == "targeted_failure_oracle"
Guarded == "regression_guarded_patch_validation"

V1Rows == [pair : Pairs, faults : SUBSET RowFaults, prescription : {Targeted, Guarded}]
Plans == [rows : Seq(V1Rows), faults : SUBSET HeadFaults]

\* A row of a plan has been blocked on a constraint.
IsBlocked(row, constraint) ==
  \E k \in 1..3 : /\ k \in DOMAIN protocol_v1_hook_preflight_events(row)
                  /\ protocol_v1_hook_preflight_events(row)[k] = constraint

\* A valid row is blocked on every constraint of its prescription that can block.
LEMMA EventsOfRow ==
  ASSUME NEW row \in V1Rows, Valid(row)
  PROVE  /\ DOMAIN protocol_v1_hook_preflight_events(row) \subseteq 1..3
         /\ row.prescription = Targeted => /\ IsBlocked(row, ToFail)
                                           /\ IsBlocked(row, ToTarget)
         /\ row.prescription = Guarded => /\ IsBlocked(row, ToTarget)
                                          /\ IsBlocked(row, ToGuard)
                                          /\ IsBlocked(row, NoRegression)
<1> DEFINE e == protocol_v1_hook_preflight_events(row)
<1>1. CASE row.prescription = Targeted
  <2>1. e = <<ToFail, ToTarget>>
    BY <1>1, TargetedIsBlocked DEF protocol_v1_hook_preflight_events, Targeted
  <2>2. DOMAIN e = 1..2 /\ e[1] = ToFail /\ e[2] = ToTarget
    BY <2>1
  <2> HIDE DEF e
  <2>3. DOMAIN e \subseteq 1..3 /\ 1 \in 1..3 /\ 2 \in 1..3 /\ 1 \in DOMAIN e /\ 2 \in DOMAIN e
    BY <2>2
  <2> QED
    BY <1>1, <2>2, <2>3 DEF IsBlocked, e, Targeted, Guarded
<1>2. CASE row.prescription = Guarded
  <2>1. e = <<ToTarget, ToGuard, NoRegression>>
    BY <1>2, RegressionIsBlocked DEF protocol_v1_hook_preflight_events, Guarded
  <2>2. DOMAIN e = 1..3 /\ e[1] = ToTarget /\ e[2] = ToGuard /\ e[3] = NoRegression
    BY <2>1
  <2> HIDE DEF e
  <2>3. DOMAIN e \subseteq 1..3 /\ 1 \in 1..3 /\ 2 \in 1..3 /\ 3 \in 1..3
    BY <2>2
  <2> QED
    BY <1>2, <2>2, <2>3 DEF IsBlocked, e, Targeted, Guarded
<1> QED
  BY <1>1, <1>2 DEF V1Rows

\* Rows blocked on a constraint are counted once each at least.
LEMMA CountAtLeast ==
  ASSUME NEW p \in Plans, NEW constraint, NEW S \in SUBSET DOMAIN p.rows,
         \A i \in DOMAIN p.rows : Valid(p.rows[i]),
         \A i \in S : IsBlocked(p.rows[i], constraint)
  PROVE  /\ Cardinality(S) \in Nat /\ _event_count(p, constraint) \in Nat
         /\ _event_count(p, constraint) >= Cardinality(S)
<1> DEFINE E(i) == protocol_v1_hook_preflight_events(p.rows[i])
           B == Blocks(p, constraint)
           n == Len(p.rows)
           At(i) == CHOOSE k \in 1..3 : k \in DOMAIN E(i) /\ E(i)[k] = constraint
           f == [i \in S |-> <<i, At(i)>>]
<1>1. n \in Nat /\ DOMAIN p.rows = 1..n /\ \A i \in 1..n : p.rows[i] \in V1Rows
  BY DEF Plans
<1>2. \A i \in 1..n : DOMAIN E(i) \subseteq 1..3
  BY <1>1, EventsOfRow
<1>3. \A x : x \in B <=> (\E i \in 1..n : \E k \in DOMAIN E(i) : x = <<i, k>> /\ E(i)[k] = constraint)
  BY <1>1 DEF Blocks
<1>4. B \subseteq (1..n) \X (1..3)
  BY <1>2, <1>3
<1>5. IsFiniteSet(B)
  <2>1. IsFiniteSet(1..n) /\ IsFiniteSet(1..3)
    <3>1. \A m \in Nat : IsFiniteSet(1..m)
      BY FS_Interval
    <3> QED
      BY <1>1, <3>1
  <2>2. IsFiniteSet((1..n) \X (1..3))
    BY <2>1, FS_Product
  <2> QED
    BY <1>4, <2>2, FS_Subset
<1>6. \A i \in S : At(i) \in DOMAIN E(i) /\ E(i)[At(i)] = constraint
  BY DEF IsBlocked
<1> HIDE DEF At, B
<1>7. \A i \in S : f[i] \in B
  BY <1>1, <1>3, <1>6
<1>8. f \in Injection(S, B)
  BY <1>7 DEF Injection, IsInjective
<1> HIDE DEF f
<1>9. Cardinality(S) <= Cardinality(B) /\ IsFiniteSet(S)
  BY <1>5, <1>8, FS_Injection
<1>10. Cardinality(S) \in Nat /\ Cardinality(B) \in Nat
  BY <1>5, <1>9, FS_CardinalityType
<1> QED
  BY <1>9, <1>10 DEF _event_count, B

\* A plan that passes the dry run passes the hook preflight: its counts are of rows.
LEMMA DryRunIsEnough ==
  ASSUME NEW p \in Plans, NEW a, a.passed, protocol_v1_dry_run_gates(p)
  PROVE  protocol_v1_hook_preflight_gates(p, a)
<1> DEFINE n == Len(p.rows)
           Of(name) == {i \in DOMAIN p.rows : p.rows[i].prescription = name}
<1>1. n \in Nat /\ DOMAIN p.rows = 1..n /\ \A i \in 1..n : p.rows[i] \in V1Rows
  BY DEF Plans
<1>2. p.rows # << >> /\ p.faults = {} /\ \A i \in DOMAIN p.rows : Valid(p.rows[i])
  BY DEF protocol_v1_dry_run_gates, HeadIsExpected, Free, Valid, RowFaults
<1>3. \A i \in DOMAIN p.rows : IsBlocked(p.rows[i], ToTarget)
  BY <1>1, <1>2, EventsOfRow DEF V1Rows
<1>4. \A i \in Of(Targeted) : IsBlocked(p.rows[i], ToFail)
  BY <1>1, <1>2, EventsOfRow
<1>5. \A i \in Of(Guarded) : IsBlocked(p.rows[i], ToGuard) /\ IsBlocked(p.rows[i], NoRegression)
  BY <1>1, <1>2, EventsOfRow
<1>6. _event_count(p, ToFail) >= Cardinality(Of(Targeted))
  BY <1>2, <1>4, CountAtLeast
<1>7. _event_count(p, ToGuard) >= Cardinality(Of(Guarded))
  BY <1>2, <1>5, CountAtLeast
<1>8. _event_count(p, NoRegression) >= Cardinality(Of(Guarded))
  BY <1>2, <1>5, CountAtLeast
<1>9. _event_count(p, ToTarget) >= n
  <2>1. _event_count(p, ToTarget) >= Cardinality(1..n)
    BY <1>1, <1>2, <1>3, CountAtLeast
  <2>2. Cardinality(1..n) = n
    <3>1. \A m \in Nat : Cardinality(1..m) = m
      BY FS_Interval
    <3> QED
      BY <1>1, <3>1
  <2> QED
    BY <2>1, <2>2
<1> HIDE DEF n
<1> QED
  BY <1>2, <1>6, <1>7, <1>8, <1>9
  DEF protocol_v1_hook_preflight_gates, ToFail, ToTarget, ToGuard, NoRegression, Targeted, Guarded, n

\* What the stages pass on: a report of the plan as it stands, that passed, tells
\* that the dry run would pass.
Passed(x) == x.passed /\ x.same => protocol_v1_dry_run_gates(plan)
V1Inv ==
  /\ diagnosis \in Seq([pair : Pairs, class : Classes])
  /\ plan \in Plans
  /\ v1_dry \in [passed : BOOLEAN, same : BOOLEAN]
  /\ adapter \in [passed : BOOLEAN, config : BOOLEAN, same : BOOLEAN]
  /\ hook \in [passed : BOOLEAN, same : BOOLEAN]
  /\ Passed(v1_dry) /\ Passed(adapter) /\ Passed(hook)

\* No report is there at first.
LEMMA V1InitIsSound == V1ChainInit => V1Inv
<1> SUFFICES ASSUME V1ChainInit PROVE V1Inv
  OBVIOUS
<1>1. << >> \in Seq(V1Rows) /\ << >> \in Seq([pair : Pairs, class : Classes])
  OBVIOUS
<1>2. plan \in Plans
  BY <1>1 DEF V1ChainInit, NoPlan, Plans, HeadFaults
<1> QED
  BY <1>1, <1>2 DEF V1ChainInit, V1Inv, NoReport, NoAdapterReport, Passed

\* After a change of the plan no report is of it.
LEMMA NewPlanKeepsInv ==
  ASSUME V1Inv, PlanChanged, UNCHANGED diagnosis, plan' \in Plans
  PROVE  V1Inv'
<1>1. /\ v1_dry' = [passed |-> v1_dry.passed, same |-> FALSE]
      /\ adapter' = [passed |-> adapter.passed, config |-> adapter.config, same |-> FALSE]
      /\ hook' = [passed |-> hook.passed, same |-> FALSE]
  BY DEF PlanChanged, V1Inv
<1>2. /\ v1_dry' \in [passed : BOOLEAN, same : BOOLEAN]
      /\ adapter' \in [passed : BOOLEAN, config : BOOLEAN, same : BOOLEAN]
      /\ hook' \in [passed : BOOLEAN, same : BOOLEAN]
  BY <1>1 DEF V1Inv
<1>3. Passed(v1_dry)' /\ Passed(adapter)' /\ Passed(hook)'
  BY <1>1 DEF Passed
<1> QED
  BY <1>2, <1>3 DEF V1Inv

\* A plan built from a diagnosis is well-formed and, if not empty, passes the dry run.
LEMMA BuiltPlan ==
  ASSUME V1Inv, build_protocol_v1_plan
  PROVE  plan' \in Plans /\ (diagnosis # << >> => protocol_v1_dry_run_gates(plan'))
<1> DEFINE n == Len(diagnosis)
           row(i) == [pair |-> diagnosis[i].pair, faults |-> {},
                      prescription |-> NO_UPLIFT_CLASSIFICATION_TO_PRESCRIPTION[diagnosis[i].class]]
           r == [i \in DOMAIN diagnosis |-> row(i)]
<1>1. n \in Nat /\ DOMAIN diagnosis = 1..n
      /\ \A i \in 1..n : diagnosis[i] \in [pair : Pairs, class : Classes]
  <2>1. diagnosis \in Seq([pair : Pairs, class : Classes])
    BY DEF V1Inv
  <2>2. \A S : diagnosis \in Seq(S) => /\ n \in Nat /\ DOMAIN diagnosis = 1..n
                                       /\ \A i \in 1..n : diagnosis[i] \in S
    OBVIOUS
  <2> QED
    BY <2>1, <2>2
<1>2. \A c \in DOMAIN NO_UPLIFT_CLASSIFICATION_TO_PRESCRIPTION :
         NO_UPLIFT_CLASSIFICATION_TO_PRESCRIPTION[c] \in {Targeted, Guarded}
  BY DEF NO_UPLIFT_CLASSIFICATION_TO_PRESCRIPTION, Targeted, Guarded
<1>3. \A i \in 1..n : row(i) \in V1Rows
  BY <1>1, <1>2 DEF build_protocol_v1_plan, V1Rows
<1>4. plan' = [rows |-> r, faults |-> {}]
  BY DEF build_protocol_v1_plan
<1> HIDE DEF n
<1>5. r \in [1..n -> V1Rows]
  <2> HIDE DEF row
  <2> QED
    BY <1>1, <1>3
<1>6. r \in Seq(V1Rows) /\ DOMAIN r = 1..n /\ Len(r) = n /\ \A i \in 1..n : r[i].faults = {}
  <2>1. \A i \in 1..n : r[i].faults = {}
    BY <1>1
  <2> HIDE DEF r
  <2> QED
    BY <1>1, <1>5, <2>1
<1>7. plan' \in Plans
  BY <1>4, <1>6 DEF Plans, HeadFaults
<1>8. ASSUME diagnosis # << >> PROVE protocol_v1_dry_run_gates(plan')
  <2>1. n # 0
    BY <1>8 DEF V1Inv, n
  <2> HIDE DEF r
  <2>2. r # << >>
    BY <1>6, <2>1
  <2> QED
    BY <1>4, <1>6, <2>2 DEF protocol_v1_dry_run_gates, HeadIsExpected, Free
<1> QED
  BY <1>7, <1>8

\* An edit only adds faults.
LEMMA EditedPlan ==
  ASSUME V1Inv, edit_plan
  PROVE  plan' \in Plans
<1>1. plan = [rows |-> plan.rows, faults |-> plan.faults]
      /\ plan.rows \in Seq(V1Rows) /\ plan.faults \in SUBSET HeadFaults
  BY DEF V1Inv, Plans
<1>2. ASSUME NEW i \in DOMAIN plan.rows, NEW f \in RowFaults,
             plan' = [plan EXCEPT !.rows[i].faults = @ \cup {f}]
      PROVE  plan' \in Plans
  <2> DEFINE old == plan.rows
             new == [old[i] EXCEPT !.faults = @ \cup {f}]
  <2>1. old[i] \in V1Rows
    BY <1>1
  <2>2. new \in V1Rows
    BY <2>1 DEF V1Rows
  <2>3. [old EXCEPT ![i] = new] \in Seq(V1Rows)
    BY <1>1, <2>2
  <2>4. plan' = [plan EXCEPT !.rows = [old EXCEPT ![i] = new]]
    BY <1>2, Zenon
  <2> HIDE DEF old, new
  <2> QED
    BY <1>1, <2>3, <2>4 DEF Plans
<1>3. ASSUME NEW f \in HeadFaults, plan' = [plan EXCEPT !.faults = @ \cup {f}]
      PROVE  plan' \in Plans
  BY <1>1, <1>3 DEF Plans
<1> QED
  BY <1>2, <1>3 DEF edit_plan

\* Every stage keeps the invariant; one that passes passed on what the one before found.
LEMMA V1StepKeepsInv ==
  ASSUME V1Inv, [V1ChainNext]_v1_vars
  PROVE  V1Inv'
<1>1. CASE diagnose
  <2>1. diagnosis' \in Seq([pair : Pairs, class : Classes])
    BY <1>1 DEF diagnose, V1Inv
  <2> QED
    BY <1>1, <2>1 DEF diagnose, V1Inv, Passed
<1>2. CASE build_protocol_v1_plan
  BY <1>2, BuiltPlan, NewPlanKeepsInv DEF build_protocol_v1_plan
<1>3. CASE edit_plan
  BY <1>3, EditedPlan, NewPlanKeepsInv DEF edit_plan
<1>4. CASE write_protocol_v1_dry_run_evidence
  <2>1. v1_dry' \in [passed : BOOLEAN, same : BOOLEAN]
    BY <1>4 DEF write_protocol_v1_dry_run_evidence, protocol_v1_dry_run_gates, HeadIsExpected
  <2>2. Passed(v1_dry)'
    BY <1>4 DEF write_protocol_v1_dry_run_evidence, Passed
  <2> QED
    BY <1>4, <2>1, <2>2 DEF write_protocol_v1_dry_run_evidence, V1Inv, Passed
<1>5. CASE write_sweagent_protocol_v1_preflight_evidence
  <2>1. PICK config \in BOOLEAN :
           adapter' = [passed |-> sweagent_protocol_v1_preflight_gates(plan, v1_dry, config),
                       config |-> config, same |-> v1_dry.same]
    BY <1>5 DEF write_sweagent_protocol_v1_preflight_evidence
  <2>2. adapter' \in [passed : BOOLEAN, config : BOOLEAN, same : BOOLEAN]
    BY <2>1 DEF V1Inv, sweagent_protocol_v1_preflight_gates
  <2>3. Passed(adapter)'
    BY <1>5, <2>1 DEF V1Inv, Passed, sweagent_protocol_v1_preflight_gates,
                      write_sweagent_protocol_v1_preflight_evidence
  <2> QED
    BY <1>5, <2>2, <2>3 DEF write_sweagent_protocol_v1_preflight_evidence, V1Inv, Passed
<1>6. CASE write_protocol_v1_hook_preflight_evidence
  <2>1. hook' = [passed |-> protocol_v1_hook_preflight_gates(plan, adapter), same |-> adapter.same]
    BY <1>6 DEF write_protocol_v1_hook_preflight_evidence
  <2>2. hook' \in [passed : BOOLEAN, same : BOOLEAN]
    BY <2>1 DEF V1Inv, protocol_v1_hook_preflight_gates
  <2>3. Passed(hook)'
    BY <1>6, <2>1 DEF V1Inv, Passed, protocol_v1_hook_preflight_gates,
                      write_protocol_v1_hook_preflight_evidence
  <2> QED
    BY <1>6, <2>2, <2>3 DEF write_protocol_v1_hook_preflight_evidence, V1Inv, Passed
<1>7. CASE write_protocol_v1_fresh_candidate_evidence \/ UNCHANGED v1_vars
  BY <1>7 DEF write_protocol_v1_fresh_candidate_evidence, v1_vars, V1Inv, Passed
<1> QED
  BY <1>1, <1>2, <1>3, <1>4, <1>5, <1>6, <1>7 DEF V1ChainNext

\* The invariant of the v1 chain.
LEMMA V1InvAlways == V1ChainSpec => []V1Inv
  BY V1InitIsSound, V1StepKeepsInv, PTL DEF V1ChainSpec

\* The dry run accepts prepared plans only.
LEMMA GatedIsPrepared ==
  ASSUME NEW p \in Plans, protocol_v1_dry_run_gates(p)
  PROVE  Prepared(p)
<1>1. p.faults = {} /\ p.rows # << >>
      /\ \A i \in DOMAIN p.rows : p.rows[i] \in V1Rows /\ Valid(p.rows[i]) /\ p.rows[i].faults = {}
  <2>1. p.faults = {} /\ p.rows # << >> /\ \A i \in DOMAIN p.rows, f \in RowFaults : f \notin p.rows[i].faults
    BY DEF protocol_v1_dry_run_gates, HeadIsExpected, Free
  <2>2. \A i \in DOMAIN p.rows : p.rows[i] \in V1Rows
    BY DEF Plans
  <2>3. \A i \in DOMAIN p.rows : p.rows[i].faults = {}
    BY <2>1, <2>2 DEF V1Rows
  <2> QED
    BY <2>1, <2>2, <2>3 DEF Valid
<1>2. ASSUME NEW row \in V1Rows, Valid(row)
      PROVE  PRESCRIPTION_CONSTRAINTS[row.prescription] \ {"materialize_prefix_observed_failure"}
               \subseteq Range(protocol_v1_hook_preflight_events(row))
  <2>1. \A c : IsBlocked(row, c) => c \in Range(protocol_v1_hook_preflight_events(row))
    BY DEF IsBlocked, Range
  <2>2. row.prescription = Targeted \/ row.prescription = Guarded
    BY DEF V1Rows
  <2>3. \A c \in PRESCRIPTION_CONSTRAINTS[row.prescription] \ {"materialize_prefix_observed_failure"} :
           IsBlocked(row, c)
    BY <1>2, <2>2, EventsOfRow
    DEF PRESCRIPTION_CONSTRAINTS, ToFail, ToTarget, ToGuard, NoRegression, Targeted, Guarded
  <2> QED
    BY <2>1, <2>3
<1> QED
  BY <1>1, <1>2 DEF Prepared

\* PassedChainIsPrepared for any pairs, classes and number of rows and edits: a hook
\* preflight that passes at the end of a chain made of one plan has seen every row
\* blocked on every constraint of its prescription that can block
\* (protocol_v1_hook_preflight.py: protocol_v1_hook_preflight_gates).
THEOREM PassedChainsArePrepared == V1ChainSpec => []PassedChainIsPrepared
<1>1. V1Inv => PassedChainIsPrepared
  BY GatedIsPrepared DEF V1Inv, Passed, PassedChainIsPrepared
<1> QED
  BY <1>1, V1InvAlways, PTL

\* NoStageDisagrees, for any pairs, classes and number of rows and edits: a plan
\* built of a diagnosis passes the dry run, the adapter preflight refuses nothing
\* the dry run accepted but for want of a config, and the hook preflight nothing the
\* adapter preflight accepted (protocol_v1.py: build_protocol_v1_plan;
\* sweagent_protocol_v1_preflight.py: sweagent_protocol_v1_preflight_gates;
\* protocol_v1_hook_preflight.py: _event_count).
THEOREM StagesNeverDisagree == V1ChainSpec => NoStageDisagrees
<1>1. ASSUME V1Inv, [V1ChainNext]_v1_vars PROVE [StageAgrees]_v1_vars
  <2>1. ASSUME write_protocol_v1_hook_preflight_evidence, adapter.same, adapter.passed
        PROVE  hook'.passed
    <3>1. hook'.passed = protocol_v1_hook_preflight_gates(plan, adapter)
      BY <2>1 DEF write_protocol_v1_hook_preflight_evidence
    <3>2. plan \in Plans /\ protocol_v1_dry_run_gates(plan)
      BY <1>1, <2>1 DEF V1Inv, Passed
    <3> QED
      BY <2>1, <3>1, <3>2, DryRunIsEnough
  <2>2. ASSUME write_sweagent_protocol_v1_preflight_evidence, v1_dry.same, v1_dry.passed
        PROVE  adapter'.passed = adapter'.config
    <3>1. PICK config \in BOOLEAN :
             adapter' = [passed |-> sweagent_protocol_v1_preflight_gates(plan, v1_dry, config),
                         config |-> config, same |-> v1_dry.same]
      BY <2>2 DEF write_sweagent_protocol_v1_preflight_evidence
    <3>2. protocol_v1_dry_run_gates(plan)
      BY <1>1, <2>2 DEF V1Inv, Passed
    <3>3. HeadIsExpected(plan) /\ \A f \in RowFaults : Free(plan, f)
      BY <3>2 DEF protocol_v1_dry_run_gates
    <3>4. sweagent_protocol_v1_preflight_gates(plan, v1_dry, config) = config
      BY <2>2, <3>3 DEF sweagent_protocol_v1_preflight_gates, RowFaults
    <3> QED
      BY <3>1, <3>4
  <2>3. ASSUME build_protocol_v1_plan, diagnosis # << >>
        PROVE  protocol_v1_dry_run_gates(plan')
    BY <1>1, <2>3, BuiltPlan
  <2> QED
    BY <2>1, <2>2, <2>3 DEF StageAgrees
<1> QED
  BY <1>1, V1InvAlways, PTL DEF V1ChainSpec, NoStageDisagrees
=============================================================================
