--------------------------- MODULE ExecutorProofs ---------------------------
(* Proofs about Executor, for any scripts, any bundles and any workspaces,  *)
(* and however often an execution dies and is started over.                 *)
(*                                                                         *)
(* The loop and the reading of a trace are recursive functions.  What they  *)
(* compute is proved by induction, for which the least-number principle is  *)
(* taken from WellFoundedInduction.                                         *)
EXTENDS Executor, SequenceTheorems, WellFoundedInduction, TLAPS

\* Some sequence, of whatever elements.
AnySeq(s) == \E S : s \in Seq(S)

\* Scripts are lists of steps, workspaces map paths to contents.
Given == /\ \A s \in Scripts : AnySeq(s)
         /\ \A ws \in Workspaces : ws = [p \in DOMAIN ws |-> ws[p]]

-----------------------------------------------------------------------------
(* Induction.                                                              *)

LEMMA LeastNumber ==
  ASSUME NEW T \in SUBSET Nat, T # {}
  PROVE  \E n \in T : \A m \in T : n <= m
<1> DEFINE R == OpToRel(<, Nat)
<1>1. \A x, y \in Nat : <<y, x>> \in R <=> y < x
  BY DEF OpToRel
<1>2. IsWellFoundedOn(R, Nat)
  BY NatLessThanWellFounded
<1> HIDE DEF R
<1>3. \E x \in T : \A y \in T : ~(<<y, x>> \in R)
  BY <1>2, WFMin
<1>4. PICK n \in T : \A y \in T : ~(<<y, n>> \in R)
  BY <1>3
<1>5. \A m \in T : ~(m < n)
  BY <1>1, <1>4
<1> QED
  BY <1>5

LEMMA Induction ==
  ASSUME NEW S, 0 \in S, \A n \in Nat : n \in S => n + 1 \in S
  PROVE  Nat \subseteq S
<1> DEFINE T == Nat \ S
<1>0. T \in SUBSET Nat
  OBVIOUS
<1>1. ASSUME T # {}
      PROVE  FALSE
  <2> HIDE DEF T
  <2>1. PICK n \in T : \A m \in T : n <= m
    BY <1>0, <1>1, LeastNumber
  <2>2. n # 0 /\ n \in Nat
    BY <2>1 DEF T
  <2>3. n - 1 \in Nat /\ n - 1 \notin T
    BY <2>1, <2>2
  <2>4. n - 1 \in S
    BY <2>3 DEF T
  <2>5. (n - 1) + 1 = n
    BY <2>2
  <2> QED
    BY <2>1, <2>3, <2>4, <2>5 DEF T
<1> QED
  BY <1>1

-----------------------------------------------------------------------------
(* Sequences.                                                              *)

LEMMA EmptyIsSeq == AnySeq(<< >>) /\ Len(<< >>) = 0
  BY EmptySeq DEF AnySeq

\* Two sequences are sequences of elements of one set.
LEMMA OneSet ==
  ASSUME NEW s, NEW t, AnySeq(s), AnySeq(t), NEW x
  PROVE  \E S : s \in Seq(S) /\ t \in Seq(S) /\ x \in S
<1>1. PICK A : s \in Seq(A)
  BY DEF AnySeq
<1>2. PICK B : t \in Seq(B)
  BY DEF AnySeq
<1> DEFINE S == A \cup B \cup {x}
<1>3. A \subseteq S /\ B \subseteq S /\ x \in S
  OBVIOUS
<1> HIDE DEF S
<1>4. s \in Seq(S) /\ t \in Seq(S)
  BY <1>1, <1>2, <1>3, SeqMonotonic
<1> QED
  BY <1>3, <1>4

LEMMA Appended ==
  ASSUME NEW s, AnySeq(s), NEW x
  PROVE  /\ AnySeq(Append(s, x)) /\ Len(s) \in Nat /\ Len(Append(s, x)) = Len(s) + 1
         /\ \A i \in 1..Len(s) : Append(s, x)[i] = s[i]
         /\ Append(s, x)[Len(s) + 1] = x
         /\ \A i \in 1..Len(s) + 1 : i \in 1..Len(s) \/ i = Len(s) + 1
<1>1. PICK S : s \in Seq(S) /\ x \in S
  BY OneSet, EmptyIsSeq
<1>2. Append(s, x) \in Seq(S)
  BY <1>1, AppendProperties
<1> QED
  BY <1>1, <1>2, AppendProperties, LenProperties DEF AnySeq

LEMMA Concatenated ==
  ASSUME NEW s, NEW t, AnySeq(s), AnySeq(t)
  PROVE  /\ AnySeq(s \o t) /\ s \o << >> = s /\ << >> \o s = s
         /\ \A x : s \o Append(t, x) = Append(s \o t, x) /\ s \o <<x>> = Append(s, x)
         /\ \A i \in 1..Len(s \o t) : (\E j \in 1..Len(s) : (s \o t)[i] = s[j])
                                      \/ (\E j \in 1..Len(t) : (s \o t)[i] = t[j])
<1>0. ASSUME NEW x
      PROVE  s \o Append(t, x) = Append(s \o t, x) /\ s \o <<x>> = Append(s, x)
  <2>1. PICK S : s \in Seq(S) /\ t \in Seq(S) /\ x \in S
    BY OneSet
  <2>2. <<x>> \in Seq(S)
    BY <2>1
  <2>3. Append(t, x) = t \o <<x>> /\ Append(s, x) = s \o <<x>>
    BY <2>1, AppendIsConcat
  <2>4. s \o t \in Seq(S)
    BY <2>1, ConcatProperties
  <2>5. Append(s \o t, x) = (s \o t) \o <<x>>
    BY <2>1, <2>4, AppendIsConcat
  <2> QED
    BY <2>1, <2>2, <2>3, <2>5, ConcatAssociative
<1>1. PICK S : s \in Seq(S) /\ t \in Seq(S)
  BY OneSet
<1>2. s \o t \in Seq(S) /\ s \o << >> = s /\ << >> \o s = s
  BY <1>1, ConcatProperties, ConcatEmptySeq
<1>3. ASSUME NEW i \in 1..Len(s \o t)
      PROVE  (\E j \in 1..Len(s) : (s \o t)[i] = s[j]) \/ (\E j \in 1..Len(t) : (s \o t)[i] = t[j])
  <2>1. /\ Len(s \o t) = Len(s) + Len(t) /\ Len(s) \in Nat /\ Len(t) \in Nat
        /\ (s \o t)[i] = IF i <= Len(s) THEN s[i] ELSE t[i - Len(s)]
    BY <1>1, <1>3, ConcatProperties, LenProperties
  <2>2. CASE i <= Len(s)
    BY <2>1, <2>2
  <2>3. CASE ~(i <= Len(s))
    <3>1. i - Len(s) \in 1..Len(t)
      BY <2>1, <2>3
    <3> QED
      BY <2>1, <2>3, <3>1
  <2> QED
    BY <2>2, <2>3
<1> QED
  BY <1>0, <1>2, <1>3 DEF AnySeq

LEMMA Regrouped ==
  ASSUME NEW s, NEW t, NEW u, AnySeq(s), AnySeq(t), AnySeq(u)
  PROVE  s \o (t \o u) = (s \o t) \o u
<1>1. PICK A : s \in Seq(A) /\ t \in Seq(A)
  BY OneSet
<1>2. PICK B : u \in Seq(B)
  BY DEF AnySeq
<1> DEFINE S == A \cup B
<1>3. A \subseteq S /\ B \subseteq S
  OBVIOUS
<1> HIDE DEF S
<1>4. s \in Seq(S) /\ t \in Seq(S) /\ u \in Seq(S)
  BY <1>1, <1>2, <1>3, SeqMonotonic
<1> QED
  BY <1>4, ConcatAssociative

-----------------------------------------------------------------------------
(* load_trace, line by line.                                               *)

Reads(f, tr, n) == f = [k \in 0..n |-> IF k = 0 THEN NoEvents ELSE Read(f[k - 1], tr[k])]

\* A recursive definition that looks one number back defines something.
LEMMA ReadingExists ==
  ASSUME NEW tr, NEW n \in Nat
  PROVE  \E f : Reads(f, tr, n)
<1> DEFINE S == {m \in Nat : \E f : Reads(f, tr, m)}
<1>1. 0 \in S
  <2> DEFINE f == [k \in 0..0 |-> NoEvents]
  <2>1. Reads(f, tr, 0)
    BY DEF Reads
  <2> QED
    BY <2>1
<1>2. ASSUME NEW m \in Nat, NEW f, Reads(f, tr, m)
      PROVE  \E g : Reads(g, tr, m + 1)
  <2> DEFINE g == [k \in 0..m + 1 |-> IF k <= m THEN f[k] ELSE Read(f[m], tr[m + 1])]
             h == [k \in 0..m + 1 |-> IF k = 0 THEN NoEvents ELSE Read(g[k - 1], tr[k])]
  <2>1. ASSUME NEW k \in 0..m + 1
        PROVE  g[k] = h[k]
    <3>1. CASE k = 0
      BY <1>2, <3>1 DEF Reads
    <3>2. CASE k \in 1..m
      <4>1. g[k] = f[k] /\ g[k - 1] = f[k - 1]
        BY <3>2
      <4>2. f[k] = Read(f[k - 1], tr[k])
        BY <1>2, <3>2 DEF Reads
      <4> QED
        BY <3>2, <4>1, <4>2
    <3>3. CASE k = m + 1
      <4>1. g[k] = Read(f[m], tr[m + 1]) /\ g[k - 1] = f[m]
        BY <3>3
      <4> QED
        BY <3>3, <4>1
    <3> QED
      BY <3>1, <3>2, <3>3
  <2>2. g = h
    BY <2>1
  <2>3. Reads(g, tr, m + 1)
    BY <2>2 DEF Reads
  <2> QED
    BY <2>3
<1>3. \A m \in Nat : m \in S => m + 1 \in S
  BY <1>2
<1> HIDE DEF S
<1>4. Nat \subseteq S
  BY <1>1, <1>3, Induction
<1> QED
  BY <1>4 DEF S

\* Files that agree on their first n lines are read alike so far.
LEMMA ReadingAgrees ==
  ASSUME NEW f, NEW g, NEW tr, NEW q, NEW n \in Nat, NEW m \in Nat, n <= m,
         Reads(f, tr, n), Reads(g, q, m), \A k \in 1..n : tr[k] = q[k]
  PROVE  f[n] = g[n]
<1> DEFINE S == {k \in Nat : k <= n => f[k] = g[k]}
<1>1. 0 \in S
  BY DEF Reads
<1>2. ASSUME NEW k \in Nat, k \in S
      PROVE  k + 1 \in S
  <2> SUFFICES ASSUME k + 1 <= n
               PROVE  f[k + 1] = g[k + 1]
    OBVIOUS
  <2>1. k + 1 \in 0..n /\ k + 1 \in 0..m /\ k + 1 # 0 /\ (k + 1) - 1 = k /\ k + 1 \in 1..n
    OBVIOUS
  <2>2. f[k + 1] = Read(f[k], tr[k + 1]) /\ g[k + 1] = Read(g[k], q[k + 1])
    BY <2>1 DEF Reads
  <2> QED
    BY <1>2, <2>1, <2>2
<1> HIDE DEF S
<1>3. Nat \subseteq S
  BY <1>1, <1>2, Induction
<1> QED
  BY <1>3 DEF S

LEMMA LoadedIsRead ==
  ASSUME NEW tr, AnySeq(tr)
  PROVE  \E f : Reads(f, tr, Len(tr)) /\ Loaded(tr) = f[Len(tr)]
<1> DEFINE f == CHOOSE g : Reads(g, tr, Len(tr))
<1>1. Len(tr) \in Nat
  BY LenProperties DEF AnySeq
<1>2. Reads(f, tr, Len(tr))
  BY <1>1, ReadingExists
<1>3. Loaded(tr) = f[Len(tr)]
  BY DEF Loaded, Reads
<1> QED
  BY <1>2, <1>3

\* A line more is read on top of what the file held.
LEMMA LoadedAppend ==
  ASSUME NEW tr, AnySeq(tr), NEW line
  PROVE  Loaded(Append(tr, line)) = Read(Loaded(tr), line)
<1> DEFINE q == Append(tr, line)
           n == Len(tr)
<1>1. /\ AnySeq(q) /\ n \in Nat /\ Len(q) = n + 1 /\ q[n + 1] = line
      /\ \A k \in 1..n : tr[k] = q[k]
  BY Appended
<1>2. PICK f : Reads(f, tr, n) /\ Loaded(tr) = f[n]
  BY LoadedIsRead
<1> HIDE DEF q
<1>3. PICK g : Reads(g, q, n + 1) /\ Loaded(q) = g[n + 1]
  BY <1>1, LoadedIsRead
<1>4. f[n] = g[n]
  <2>1. n <= n + 1 /\ n + 1 \in Nat
    BY <1>1
  <2> QED
    BY <1>1, <1>2, <1>3, <2>1, ReadingAgrees
<1>5. g[n + 1] = Read(g[n], q[n + 1])
  <2>1. n + 1 \in 0..n + 1 /\ n + 1 # 0 /\ (n + 1) - 1 = n
    BY <1>1
  <2> QED
    BY <1>3, <2>1 DEF Reads
<1> QED
  BY <1>1, <1>2, <1>3, <1>4, <1>5 DEF q

LEMMA LoadedEmpty == Loaded(<< >>) = NoEvents
<1>1. PICK f : Reads(f, << >>, 0) /\ Loaded(<< >>) = f[0]
  BY EmptyIsSeq, LoadedIsRead
<1> QED
  BY <1>1 DEF Reads

-----------------------------------------------------------------------------
(* execute_script, step by step.                                           *)

Runs(f, steps, pol, ws, n) ==
  f = [k \in 0..n |-> IF k = 0 THEN Start(ws) ELSE Iterate(pol, f[k - 1], steps[k])]

LEMMA RunExists ==
  ASSUME NEW steps, NEW pol, NEW ws, NEW n \in Nat
  PROVE  \E f : Runs(f, steps, pol, ws, n)
<1> DEFINE S == {m \in Nat : \E f : Runs(f, steps, pol, ws, m)}
<1>1. 0 \in S
  <2> DEFINE f == [k \in 0..0 |-> Start(ws)]
  <2>1. Runs(f, steps, pol, ws, 0)
    BY DEF Runs
  <2> QED
    BY <2>1
<1>2. ASSUME NEW m \in Nat, NEW f, Runs(f, steps, pol, ws, m)
      PROVE  \E g : Runs(g, steps, pol, ws, m + 1)
  <2> DEFINE g == [k \in 0..m + 1 |-> IF k <= m THEN f[k] ELSE Iterate(pol, f[m], steps[m + 1])]
             h == [k \in 0..m + 1 |->
                     IF k = 0 THEN Start(ws) ELSE Iterate(pol, g[k - 1], steps[k])]
  <2>1. ASSUME NEW k \in 0..m + 1
        PROVE  g[k] = h[k]
    <3>1. CASE k = 0
      BY <1>2, <3>1 DEF Runs
    <3>2. CASE k \in 1..m
      <4>1. g[k] = f[k] /\ g[k - 1] = f[k - 1]
        BY <3>2
      <4>2. f[k] = Iterate(pol, f[k - 1], steps[k])
        BY <1>2, <3>2 DEF Runs
      <4> QED
        BY <3>2, <4>1, <4>2
    <3>3. CASE k = m + 1
      <4>1. g[k] = Iterate(pol, f[m], steps[m + 1]) /\ g[k - 1] = f[m]
        BY <3>3
      <4> QED
        BY <3>3, <4>1
    <3> QED
      BY <3>1, <3>2, <3>3
  <2>2. g = h
    BY <2>1
  <2>3. Runs(g, steps, pol, ws, m + 1)
    BY <2>2 DEF Runs
  <2> QED
    BY <2>3
<1>3. \A m \in Nat : m \in S => m + 1 \in S
  BY <1>2
<1> HIDE DEF S
<1>4. Nat \subseteq S
  BY <1>1, <1>3, Induction
<1> QED
  BY <1>4 DEF S

LEMMA RunIsUnique ==
  ASSUME NEW f, NEW g, NEW steps, NEW pol, NEW ws, NEW n \in Nat, NEW m \in Nat, n <= m,
         Runs(f, steps, pol, ws, n), Runs(g, steps, pol, ws, m)
  PROVE  f[n] = g[n]
<1> DEFINE S == {k \in Nat : k <= n => f[k] = g[k]}
<1>1. 0 \in S
  BY DEF Runs
<1>2. ASSUME NEW k \in Nat, k \in S
      PROVE  k + 1 \in S
  <2> SUFFICES ASSUME k + 1 <= n
               PROVE  f[k + 1] = g[k + 1]
    OBVIOUS
  <2>1. k + 1 \in 0..n /\ k + 1 \in 0..m /\ k + 1 # 0 /\ (k + 1) - 1 = k
    OBVIOUS
  <2>2. /\ f[k + 1] = Iterate(pol, f[k], steps[k + 1])
        /\ g[k + 1] = Iterate(pol, g[k], steps[k + 1])
    BY <2>1 DEF Runs
  <2> QED
    BY <1>2, <2>1, <2>2
<1> HIDE DEF S
<1>3. Nat \subseteq S
  BY <1>1, <1>2, Induction
<1> QED
  BY <1>3 DEF S

LEMMA ExecutedRuns ==
  ASSUME NEW steps, NEW pol, NEW ws, NEW n \in Nat
  PROVE  \E f : Runs(f, steps, pol, ws, n) /\ Executed(steps, pol, ws, n) = f[n]
<1> DEFINE f == CHOOSE g : Runs(g, steps, pol, ws, n)
<1>1. Runs(f, steps, pol, ws, n)
  BY RunExists
<1>2. Executed(steps, pol, ws, n) = f[n]
  BY DEF Executed, Runs
<1> QED
  BY <1>1, <1>2

\* The loop starts from nothing, and goes on from where it was.
LEMMA ExecutedSteps ==
  ASSUME NEW steps, NEW pol, NEW ws
  PROVE  /\ Executed(steps, pol, ws, 0) = Start(ws)
         /\ \A n \in Nat : Executed(steps, pol, ws, n + 1) =
                              Iterate(pol, Executed(steps, pol, ws, n), steps[n + 1])
<1>1. Executed(steps, pol, ws, 0) = Start(ws)
  <2>1. PICK f : Runs(f, steps, pol, ws, 0) /\ Executed(steps, pol, ws, 0) = f[0]
    BY ExecutedRuns
  <2> QED
    BY <2>1 DEF Runs
<1>2. ASSUME NEW n \in Nat
      PROVE  Executed(steps, pol, ws, n + 1) =
                Iterate(pol, Executed(steps, pol, ws, n), steps[n + 1])
  <2>1. PICK f : Runs(f, steps, pol, ws, n) /\ Executed(steps, pol, ws, n) = f[n]
    BY ExecutedRuns
  <2>2. n + 1 \in Nat /\ n <= n + 1 /\ n + 1 \in 0..n + 1 /\ n + 1 # 0 /\ (n + 1) - 1 = n
    OBVIOUS
  <2>3. PICK g : Runs(g, steps, pol, ws, n + 1) /\ Executed(steps, pol, ws, n + 1) = g[n + 1]
    BY <2>2, ExecutedRuns
  <2>4. f[n] = g[n]
    BY <2>1, <2>2, <2>3, RunIsUnique
  <2>5. g[n + 1] = Iterate(pol, g[n], steps[n + 1])
    BY <2>2, <2>3 DEF Runs
  <2> QED
    BY <2>1, <2>3, <2>4, <2>5
<1> QED
  BY <1>1, <1>2

-----------------------------------------------------------------------------
(* One iteration.                                                          *)

Locals(s) ==
  /\ s = [ws |-> s.ws, outputs |-> s.outputs, steps |-> s.steps, decisions |-> s.decisions,
          signals |-> s.signals, evidence |-> s.evidence, artifacts |-> s.artifacts,
          failed |-> s.failed]
  /\ AnySeq(s.steps) /\ AnySeq(s.decisions) /\ AnySeq(s.signals)
  /\ AnySeq(s.evidence) /\ AnySeq(s.artifacts)

\* At most one item more, of step i.
Adds(old, new, i) == new = old \/ \E x : x.step = i /\ new = Append(old, x)
AddsSignal(old, new, i) == new = old \/ new = Append(old, i)

LEMMA StartLocals == ASSUME NEW ws PROVE Locals(Start(ws))
  BY EmptyIsSeq DEF Start, Locals

LEMMA JudgedAdds ==
  ASSUME NEW pol, NEW s, NEW args, Locals(s)
  PROVE  LET t == Judged(pol, s, args)
             i == Len(s.steps) + 1
         IN  /\ Locals(t) /\ t.steps = s.steps /\ t.ws = s.ws
             /\ t.evidence = s.evidence /\ t.artifacts = s.artifacts
             /\ t.decisions = s.decisions \/
                \E x : /\ x.step = i /\ x.decision = Verdict(pol, args)
                       /\ t.decisions = Append(s.decisions, x)
             /\ AddsSignal(s.signals, t.signals, i)
<1> DEFINE t == Judged(pol, s, args)
           i == Len(s.steps) + 1
           rule == RuleFor(pol, args)
           x == [step |-> i, rule |-> rule, decision |-> Verdict(pol, args)]
           signals == IF Verdict(pol, args) = "allow" THEN s.signals ELSE Append(s.signals, i)
<1>1. CASE rule = 0
  BY <1>1 DEF Judged, AddsSignal
<1>2. CASE rule # 0
  <2>1. t = [s EXCEPT !.decisions = Append(s.decisions, x), !.signals = signals]
    BY <1>2 DEF Judged
  <2>2. AnySeq(Append(s.decisions, x)) /\ AnySeq(signals)
    BY Appended DEF Locals
  <2>3. x.step = i /\ x.decision = Verdict(pol, args)
    OBVIOUS
  <2>4. AddsSignal(s.signals, signals, i)
    BY DEF AddsSignal
  <2> HIDE DEF t, i, x, signals
  <2>5. t = [ws |-> s.ws, outputs |-> s.outputs, steps |-> s.steps,
             decisions |-> Append(s.decisions, x), signals |-> signals,
             evidence |-> s.evidence, artifacts |-> s.artifacts, failed |-> s.failed]
    BY <2>1 DEF Locals
  <2>6. Locals(t)
    BY <2>2, <2>5 DEF Locals
  <2>7. /\ t.steps = s.steps /\ t.ws = s.ws /\ t.evidence = s.evidence
        /\ t.artifacts = s.artifacts /\ t.decisions = Append(s.decisions, x)
        /\ t.signals = signals
    BY <2>5
  <2> QED
    BY <2>3, <2>4, <2>6, <2>7 DEF t, i
<1> QED
  BY <1>1, <1>2

\* Blocked, failed or with an unresolved reference: no evidence, nothing written.
Fruitless(s, t, record) ==
  t = [ws |-> s.ws, outputs |-> t.outputs, steps |-> Append(s.steps, record),
       decisions |-> s.decisions, signals |-> s.signals, evidence |-> s.evidence,
       artifacts |-> s.artifacts, failed |-> t.failed]

LEMMA FruitlessAdds ==
  ASSUME NEW s, NEW t, NEW record, Locals(s), Fruitless(s, t, record)
  PROVE  /\ Locals(t) /\ t.steps = Append(s.steps, record)
         /\ t.ws = s.ws /\ t.decisions = s.decisions /\ t.signals = s.signals
         /\ t.evidence = s.evidence /\ t.artifacts = s.artifacts
<1>1. AnySeq(Append(s.steps, record))
  BY Appended DEF Locals
<1>2. /\ t.steps = Append(s.steps, record)
      /\ t.ws = s.ws /\ t.decisions = s.decisions /\ t.signals = s.signals
      /\ t.evidence = s.evidence /\ t.artifacts = s.artifacts
  BY DEF Fruitless
<1>3. Locals(t)
  BY <1>1, <1>2 DEF Locals, Fruitless
<1> QED
  BY <1>2, <1>3

LEMMA DoneAdds ==
  ASSUME NEW s, NEW args, Locals(s)
  PROVE  LET t == Done(s, args)
             i == Len(s.steps) + 1
         IN  /\ Locals(t)
             /\ t.steps = Append(s.steps, StepRecord(args, Output(args, s.ws), "none"))
             /\ t.ws = Effect(args, s.ws) /\ t.decisions = s.decisions /\ t.signals = s.signals
             /\ \E x : x.step = i /\ t.evidence = Append(s.evidence, x)
             /\ Adds(s.artifacts, t.artifacts, i)
<1> DEFINE t == Done(s, args)
           i == Len(s.steps) + 1
           out == Output(args, s.ws)
           record == StepRecord(args, out, "none")
           x == [step |-> i, digest |-> out]
           artifacts == IF args.tool = "write_file"
                        THEN Append(s.artifacts, [step |-> i, digest |-> args.content])
                        ELSE s.artifacts
<1>1. t = [s EXCEPT !.outputs = Append(s.outputs, out), !.ws = Effect(args, s.ws),
                    !.steps = Append(s.steps, record), !.evidence = Append(s.evidence, x),
                    !.artifacts = artifacts]
  BY DEF Done
<1>2. /\ AnySeq(Append(s.steps, record)) /\ AnySeq(Append(s.evidence, x))
      /\ AnySeq(artifacts)
  BY Appended DEF Locals
<1>3. x.step = i /\ Adds(s.artifacts, artifacts, i)
  BY DEF Adds
<1> HIDE DEF t, i, out, record, x, artifacts
<1>4. t = [ws |-> Effect(args, s.ws), outputs |-> Append(s.outputs, out),
           steps |-> Append(s.steps, record), decisions |-> s.decisions,
           signals |-> s.signals, evidence |-> Append(s.evidence, x),
           artifacts |-> artifacts, failed |-> s.failed]
  BY <1>1 DEF Locals
<1>5. Locals(t)
  BY <1>2, <1>4 DEF Locals
<1>6. /\ t.steps = Append(s.steps, record) /\ t.ws = Effect(args, s.ws)
      /\ t.decisions = s.decisions /\ t.signals = s.signals
      /\ t.evidence = Append(s.evidence, x) /\ t.artifacts = artifacts
  BY <1>4
<1> QED
  BY <1>3, <1>5, <1>6 DEF t, i, record, out

\* An iteration records one step, and what belongs to it.
Iterated(s, t) ==
  /\ Locals(t) /\ \E x : t.steps = Append(s.steps, x)
  /\ Adds(s.decisions, t.decisions, Len(s.steps) + 1)
  /\ AddsSignal(s.signals, t.signals, Len(s.steps) + 1)
  /\ Adds(s.evidence, t.evidence, Len(s.steps) + 1)
  /\ Adds(s.artifacts, t.artifacts, Len(s.steps) + 1)

\* The same of a step that is left before it is recorded.
Went(s, t) ==
  /\ Locals(t) /\ (t.steps = s.steps \/ \E x : t.steps = Append(s.steps, x))
  /\ Adds(s.decisions, t.decisions, Len(s.steps) + 1)
  /\ AddsSignal(s.signals, t.signals, Len(s.steps) + 1)
  /\ Adds(s.evidence, t.evidence, Len(s.steps) + 1)
  /\ Adds(s.artifacts, t.artifacts, Len(s.steps) + 1)

LEMMA IterateAdds ==
  ASSUME NEW pol, NEW s, NEW step, Locals(s)
  PROVE  Iterated(s, Iterate(pol, s, step))
<1> DEFINE t == Iterate(pol, s, step)
           args == Args(step, s.outputs)
           j == Judged(pol, s, args)
<1>1. CASE ~RefOk(step, s.outputs)
  <2> DEFINE record == StepRecord(step, NoOutput, "ref")
             outputs == Append(s.outputs, NoOutput)
  <2>1. t = [s EXCEPT !.outputs = outputs, !.failed = TRUE, !.steps = Append(s.steps, record)]
    BY <1>1 DEF Iterate, RefError
  <2> HIDE DEF t, record, outputs
  <2>f. Fruitless(s, t, record)
    BY <2>1 DEF Locals, Fruitless
  <2>2. /\ Locals(t) /\ t.steps = Append(s.steps, record)
        /\ t.decisions = s.decisions /\ t.signals = s.signals
        /\ t.evidence = s.evidence /\ t.artifacts = s.artifacts
    BY <2>f, FruitlessAdds
  <2>3. Iterated(s, t)
    BY <2>2 DEF Iterated, Adds, AddsSignal
  <2> QED
    BY <2>3 DEF t
<1>2. CASE RefOk(step, s.outputs)
  <2>1. /\ Locals(j) /\ j.steps = s.steps
        /\ j.evidence = s.evidence /\ j.artifacts = s.artifacts
        /\ Adds(s.decisions, j.decisions, Len(s.steps) + 1)
        /\ AddsSignal(s.signals, j.signals, Len(s.steps) + 1)
    BY JudgedAdds DEF Adds
  <2>2. CASE ~Permitted(Verdict(pol, args))
    <3> DEFINE record == StepRecord(args, NoOutput, "blocked")
               outputs == Append(j.outputs, NoOutput)
    <3>1. t = [j EXCEPT !.outputs = outputs, !.steps = Append(j.steps, record)]
      BY <1>2, <2>2 DEF Iterate, Blocked
    <3> HIDE DEF t, j, record, outputs
    <3>2. Fruitless(j, t, record)
      BY <2>1, <3>1 DEF Locals, Fruitless
    <3>3. /\ Locals(t) /\ t.steps = Append(j.steps, record)
          /\ t.decisions = j.decisions /\ t.signals = j.signals
          /\ t.evidence = j.evidence /\ t.artifacts = j.artifacts
      BY <2>1, <3>2, FruitlessAdds
    <3>4. Iterated(s, t)
      BY <2>1, <3>3 DEF Iterated, Adds
    <3> QED
      BY <3>4 DEF t
  <2>3. CASE Permitted(Verdict(pol, args)) /\ ~ToolOk(args, s.ws)
    <3> DEFINE record == StepRecord(args, NoOutput, "tool")
               outputs == Append(j.outputs, NoOutput)
    <3>1. t = [j EXCEPT !.outputs = outputs, !.failed = TRUE, !.steps = Append(j.steps, record)]
      BY <1>2, <2>3 DEF Iterate, Failed
    <3> HIDE DEF t, j, record, outputs
    <3>f. Fruitless(j, t, record)
      BY <2>1, <3>1 DEF Locals, Fruitless
    <3>2. /\ Locals(t) /\ t.steps = Append(j.steps, record)
          /\ t.decisions = j.decisions /\ t.signals = j.signals
          /\ t.evidence = j.evidence /\ t.artifacts = j.artifacts
      BY <2>1, <3>f, FruitlessAdds
    <3>3. Iterated(s, t)
      BY <2>1, <3>2 DEF Iterated, Adds
    <3> QED
      BY <3>3 DEF t
  <2>4. CASE Permitted(Verdict(pol, args)) /\ ToolOk(args, s.ws)
    <3>1. t = Done(j, args)
      BY <1>2, <2>4 DEF Iterate
    <3> HIDE DEF t, j
    <3>2. /\ Locals(t) /\ t.steps = Append(j.steps, StepRecord(args, Output(args, j.ws), "none"))
          /\ t.decisions = j.decisions /\ t.signals = j.signals
          /\ (\E x : x.step = Len(j.steps) + 1 /\ t.evidence = Append(j.evidence, x))
          /\ Adds(j.artifacts, t.artifacts, Len(j.steps) + 1)
      BY <2>1, <3>1, DoneAdds
    <3>3. Adds(s.evidence, t.evidence, Len(s.steps) + 1)
      BY <2>1, <3>2 DEF Adds
    <3>4. Iterated(s, t)
      BY <2>1, <3>2, <3>3 DEF Iterated
    <3> QED
      BY <3>4 DEF t
  <2> QED
    BY <2>2, <2>3, <2>4
<1> QED
  BY <1>1, <1>2

-----------------------------------------------------------------------------
(* The events of an iteration, read back.                                  *)

Shaped(rec) ==
  /\ rec = [steps |-> rec.steps, decisions |-> rec.decisions, signals |-> rec.signals,
            evidence |-> rec.evidence, artifacts |-> rec.artifacts]
  /\ AnySeq(rec.steps) /\ AnySeq(rec.decisions) /\ AnySeq(rec.signals)
  /\ AnySeq(rec.evidence) /\ AnySeq(rec.artifacts)

\* An event of step i, other than the step itself.
Piece(e, i) == \/ e.type \in {"policy_decision", "evidence", "artifact"} /\ e.payload.step = i
               \/ e.type = "risk_signal" /\ e.payload = i
Pieces(F, i) == AnySeq(F) /\ \A k \in 1..Len(F) : Piece(F[k], i)

StepEvent(x) == [type |-> "step", payload |-> x]

\* A list that grew by one gives one event, one that did not gives none.
LEMMA NewIs ==
  ASSUME NEW old, NEW new, NEW type, AnySeq(old)
  PROVE  /\ new = old => New(old, new, type) = << >>
         /\ \A x : new = Append(old, x) =>
               New(old, new, type) = <<[type |-> type, payload |-> x]>>
<1>1. Len(old) \in Nat
  BY Appended
<1>2. ASSUME NEW x, new = Append(old, x)
      PROVE  New(old, new, type) = <<[type |-> type, payload |-> x]>>
  <2>1. Len(new) = Len(old) + 1 /\ new[Len(new)] = x
    BY <1>2, Appended
  <2> QED
    BY <1>1, <2>1 DEF New
<1> QED
  BY <1>1, <1>2 DEF New

LEMMA OneIsSeq == ASSUME NEW e PROVE AnySeq(<<e>>) /\ Len(<<e>>) = 1 /\ <<e>>[1] = e
<1>1. <<e>> \in Seq({e})
  OBVIOUS
<1> QED
  BY <1>1 DEF AnySeq

\* What is read after the events of a list that grew, or not.
ReadAs(q, e, old, new, type) ==
  /\ AnySeq(e) /\ AnySeq(q \o e)
  /\ \/ new = old /\ Loaded(q \o e) = Loaded(q)
     \/ \E x : /\ new = Append(old, x)
               /\ Loaded(q \o e) = Read(Loaded(q), [type |-> type, payload |-> x])

LEMMA ReadNew ==
  ASSUME NEW q, AnySeq(q), NEW old, NEW new, AnySeq(old), NEW type,
         new = old \/ \E x : new = Append(old, x)
  PROVE  ReadAs(q, New(old, new, type), old, new, type)
<1>1. CASE new = old
  <2>1. New(old, new, type) = << >>
    BY <1>1, NewIs
  <2> QED
    BY <1>1, <2>1, EmptyIsSeq, Concatenated DEF ReadAs
<1>2. CASE \E x : new = Append(old, x)
  <2>1. PICK x : new = Append(old, x)
    BY <1>2
  <2> DEFINE e == [type |-> type, payload |-> x]
  <2>2. New(old, new, type) = <<e>>
    BY <2>1, NewIs
  <2> HIDE DEF e
  <2>3. q \o <<e>> = Append(q, e) /\ AnySeq(<<e>>) /\ AnySeq(Append(q, e))
    BY OneIsSeq, Concatenated, Appended
  <2>4. Loaded(Append(q, e)) = Read(Loaded(q), e)
    BY LoadedAppend
  <2> QED
    BY <2>1, <2>2, <2>3, <2>4 DEF e, ReadAs
<1> QED
  BY <1>1, <1>2

Known(a, b, c, d, e) ==
  [steps |-> a, decisions |-> b, signals |-> c, evidence |-> d, artifacts |-> e]

LEMMA ReadByType ==
  ASSUME NEW q, NEW ev, NEW a, NEW b, NEW c, NEW d, NEW e, Loaded(q) = Known(a, b, c, d, e), NEW n
  PROVE  /\ ReadAs(q, ev, a, n, "step") => Loaded(q \o ev) = Known(n, b, c, d, e)
         /\ ReadAs(q, ev, b, n, "policy_decision") => Loaded(q \o ev) = Known(a, n, c, d, e)
         /\ ReadAs(q, ev, c, n, "risk_signal") => Loaded(q \o ev) = Known(a, b, n, d, e)
         /\ ReadAs(q, ev, d, n, "evidence") => Loaded(q \o ev) = Known(a, b, c, n, e)
         /\ ReadAs(q, ev, e, n, "artifact") => Loaded(q \o ev) = Known(a, b, c, d, n)
<1>1. ReadAs(q, ev, a, n, "step") => Loaded(q \o ev) = Known(n, b, c, d, e)
  BY DEF ReadAs, Read, Known
<1>2. ReadAs(q, ev, b, n, "policy_decision") => Loaded(q \o ev) = Known(a, n, c, d, e)
  BY DEF ReadAs, Read, Known
<1>3. ReadAs(q, ev, c, n, "risk_signal") => Loaded(q \o ev) = Known(a, b, n, d, e)
  BY DEF ReadAs, Read, Known
<1>4. ReadAs(q, ev, d, n, "evidence") => Loaded(q \o ev) = Known(a, b, c, n, e)
  BY DEF ReadAs, Read, Known
<1>5. ReadAs(q, ev, e, n, "artifact") => Loaded(q \o ev) = Known(a, b, c, d, n)
  BY DEF ReadAs, Read, Known
<1> QED
  BY <1>1, <1>2, <1>3, <1>4, <1>5

\* The events of an iteration bring the record read so far to the new locals'.
LEMMA EventsAreRead ==
  ASSUME NEW q, AnySeq(q), NEW s, NEW t, Locals(s), Went(s, t), Loaded(q) = Record(s)
  PROVE  AnySeq(EventsOf(s, t)) /\ Loaded(q \o EventsOf(s, t)) = Record(t)
<1> DEFINE e1 == New(s.decisions, t.decisions, "policy_decision")
           e2 == New(s.signals, t.signals, "risk_signal")
           e3 == New(s.evidence, t.evidence, "evidence")
           e4 == New(s.artifacts, t.artifacts, "artifact")
           e5 == New(s.steps, t.steps, "step")
           q1 == q \o e1
           q2 == q1 \o e2
           q3 == q2 \o e3
           q4 == q3 \o e4
           f2 == e1 \o e2
           f3 == f2 \o e3
           f4 == f3 \o e4
           f5 == f4 \o e5
<1>g. /\ t.decisions = s.decisions \/ \E x : t.decisions = Append(s.decisions, x)
      /\ t.signals = s.signals \/ \E x : t.signals = Append(s.signals, x)
      /\ t.evidence = s.evidence \/ \E x : t.evidence = Append(s.evidence, x)
      /\ t.artifacts = s.artifacts \/ \E x : t.artifacts = Append(s.artifacts, x)
      /\ t.steps = s.steps \/ \E x : t.steps = Append(s.steps, x)
  BY DEF Went, Adds, AddsSignal
<1>s. /\ AnySeq(s.steps) /\ AnySeq(s.decisions) /\ AnySeq(s.signals)
      /\ AnySeq(s.evidence) /\ AnySeq(s.artifacts)
  BY DEF Locals
<1>f. EventsOf(s, t) = f5
  BY DEF EventsOf
<1>n. /\ \A p : AnySeq(p) => ReadAs(p, e1, s.decisions, t.decisions, "policy_decision")
      /\ \A p : AnySeq(p) => ReadAs(p, e2, s.signals, t.signals, "risk_signal")
      /\ \A p : AnySeq(p) => ReadAs(p, e3, s.evidence, t.evidence, "evidence")
      /\ \A p : AnySeq(p) => ReadAs(p, e4, s.artifacts, t.artifacts, "artifact")
      /\ \A p : AnySeq(p) => ReadAs(p, e5, s.steps, t.steps, "step")
  BY <1>g, <1>s, ReadNew
<1> HIDE DEF e1, e2, e3, e4, e5, f2, f3, f4, f5, q1, q2, q3, q4
<1>0. Loaded(q) = Known(s.steps, s.decisions, s.signals, s.evidence, s.artifacts)
  BY DEF Record, Known
<1>1. /\ AnySeq(e1) /\ AnySeq(q1)
      /\ Loaded(q1) = Known(s.steps, t.decisions, s.signals, s.evidence, s.artifacts)
  <2>1. ReadAs(q, e1, s.decisions, t.decisions, "policy_decision")
    BY <1>n
  <2>2. AnySeq(e1) /\ AnySeq(q \o e1)
    BY <2>1 DEF ReadAs
  <2>3. Loaded(q \o e1) = Known(s.steps, t.decisions, s.signals, s.evidence, s.artifacts)
    BY <2>1, <1>0, ReadByType
  <2> QED
    BY <2>2, <2>3 DEF q1
<1>2. /\ AnySeq(e2) /\ AnySeq(q2)
      /\ Loaded(q2) = Known(s.steps, t.decisions, t.signals, s.evidence, s.artifacts)
  <2>1. ReadAs(q1, e2, s.signals, t.signals, "risk_signal")
    BY <1>1, <1>n
  <2>2. AnySeq(e2) /\ AnySeq(q1 \o e2)
    BY <2>1 DEF ReadAs
  <2>3. Loaded(q1 \o e2) = Known(s.steps, t.decisions, t.signals, s.evidence, s.artifacts)
    BY <2>1, <1>1, ReadByType
  <2> QED
    BY <2>2, <2>3 DEF q2
<1>3. /\ AnySeq(e3) /\ AnySeq(q3)
      /\ Loaded(q3) = Known(s.steps, t.decisions, t.signals, t.evidence, s.artifacts)
  <2>1. ReadAs(q2, e3, s.evidence, t.evidence, "evidence")
    BY <1>2, <1>n
  <2>2. AnySeq(e3) /\ AnySeq(q2 \o e3)
    BY <2>1 DEF ReadAs
  <2>3. Loaded(q2 \o e3) = Known(s.steps, t.decisions, t.signals, t.evidence, s.artifacts)
    BY <2>1, <1>2, ReadByType
  <2> QED
    BY <2>2, <2>3 DEF q3
<1>4. /\ AnySeq(e4) /\ AnySeq(q4)
      /\ Loaded(q4) = Known(s.steps, t.decisions, t.signals, t.evidence, t.artifacts)
  <2>1. ReadAs(q3, e4, s.artifacts, t.artifacts, "artifact")
    BY <1>3, <1>n
  <2>2. AnySeq(e4) /\ AnySeq(q3 \o e4)
    BY <2>1 DEF ReadAs
  <2>3. Loaded(q3 \o e4) = Known(s.steps, t.decisions, t.signals, t.evidence, t.artifacts)
    BY <2>1, <1>3, ReadByType
  <2> QED
    BY <2>2, <2>3 DEF q4
<1>5. /\ AnySeq(e5)
      /\ Loaded(q4 \o e5) = Known(t.steps, t.decisions, t.signals, t.evidence, t.artifacts)
  <2>1. ReadAs(q4, e5, s.steps, t.steps, "step")
    BY <1>4, <1>n
  <2>2. AnySeq(e5) /\ AnySeq(q4 \o e5)
    BY <2>1 DEF ReadAs
  <2>3. Loaded(q4 \o e5) = Known(t.steps, t.decisions, t.signals, t.evidence, t.artifacts)
    BY <2>1, <1>4, ReadByType
  <2> QED
    BY <2>2, <2>3
<1>6. AnySeq(f2) /\ q \o f2 = q2
  BY <1>1, <1>2, Concatenated, Regrouped DEF f2, q2, q1
<1>7. AnySeq(f3) /\ q \o f3 = q3
  <2>1. AnySeq(f2 \o e3)
    BY <1>6, <1>3, Concatenated
  <2>0. AnySeq(q) /\ AnySeq(f2) /\ AnySeq(e3)
    BY <1>6, <1>3
  <2>2. q \o (f2 \o e3) = (q \o f2) \o e3
    BY <2>0, Regrouped
  <2> QED
    BY <1>6, <1>3, <2>1, <2>2 DEF f3, q3
<1>8. AnySeq(f4) /\ q \o f4 = q4
  <2>1. AnySeq(f3 \o e4)
    BY <1>7, <1>4, Concatenated
  <2>0. AnySeq(q) /\ AnySeq(f3) /\ AnySeq(e4)
    BY <1>7, <1>4
  <2>2. q \o (f3 \o e4) = (q \o f3) \o e4
    BY <2>0, Regrouped
  <2> QED
    BY <1>7, <1>4, <2>1, <2>2 DEF f4, q4
<1>9. AnySeq(f5) /\ q \o f5 = q4 \o e5
  <2>1. AnySeq(f4 \o e5)
    BY <1>8, <1>5, Concatenated
  <2>0. AnySeq(q) /\ AnySeq(f4) /\ AnySeq(e5)
    BY <1>8, <1>5
  <2>2. q \o (f4 \o e5) = (q \o f4) \o e5
    BY <2>0, Regrouped
  <2> QED
    BY <1>8, <1>5, <2>1, <2>2 DEF f5
<1> QED
  BY <1>5, <1>f, <1>9 DEF Record, Known

-----------------------------------------------------------------------------
(* What a record that has grown keeps.                                     *)

\* All of the items of part, and after them only items of steps beyond n.
Grown(part, whole, n) ==
  /\ Len(part) \in Nat /\ Len(whole) \in Nat /\ Len(part) <= Len(whole)
  /\ \A k \in 1..Len(part) : part[k] = whole[k]
  /\ \A k \in 1..Len(whole) : k > Len(part) => whole[k].step \in Nat /\ whole[k].step > n

GrownSignals(part, whole, n) ==
  /\ Len(part) \in Nat /\ Len(whole) \in Nat /\ Len(part) <= Len(whole)
  /\ \A k \in 1..Len(whole) : k > Len(part) => whole[k] \in Nat /\ whole[k] > n

LEMMA NotGrown ==
  ASSUME NEW s, AnySeq(s), NEW n PROVE Grown(s, s, n) /\ GrownSignals(s, s, n)
<1>1. Len(s) \in Nat
  BY Appended
<1> QED
  BY <1>1 DEF Grown, GrownSignals

LEMMA GrownByOne ==
  ASSUME NEW part, NEW whole, AnySeq(whole), NEW n \in Nat, NEW i \in Nat, i > n
  PROVE  /\ Grown(part, whole, n) =>
               \A x : x.step = i => Grown(part, Append(whole, x), n)
         /\ GrownSignals(part, whole, n) => GrownSignals(part, Append(whole, i), n)
<1>1. ASSUME Grown(part, whole, n), NEW x, x.step = i
      PROVE  Grown(part, Append(whole, x), n)
  <2> DEFINE w == Append(whole, x)
  <2>1. /\ Len(whole) \in Nat /\ Len(w) = Len(whole) + 1 /\ w[Len(whole) + 1] = x
        /\ \A k \in 1..Len(whole) : w[k] = whole[k]
        /\ \A k \in 1..Len(whole) + 1 : k \in 1..Len(whole) \/ k = Len(whole) + 1
    BY Appended
  <2> HIDE DEF w
  <2>2. \A k \in 1..Len(part) : part[k] = w[k]
    BY <1>1, <2>1 DEF Grown
  <2>3. ASSUME NEW k \in 1..Len(w), k > Len(part)
        PROVE  w[k].step \in Nat /\ w[k].step > n
    BY <1>1, <2>1, <2>3 DEF Grown
  <2> QED
    BY <1>1, <2>1, <2>2, <2>3 DEF Grown, w
<1>2. ASSUME GrownSignals(part, whole, n)
      PROVE  GrownSignals(part, Append(whole, i), n)
  <2> DEFINE w == Append(whole, i)
  <2>1. /\ Len(whole) \in Nat /\ Len(w) = Len(whole) + 1 /\ w[Len(whole) + 1] = i
        /\ \A k \in 1..Len(whole) : w[k] = whole[k]
        /\ \A k \in 1..Len(whole) + 1 : k \in 1..Len(whole) \/ k = Len(whole) + 1
    BY Appended
  <2> HIDE DEF w
  <2>3. ASSUME NEW k \in 1..Len(w), k > Len(part)
        PROVE  w[k] \in Nat /\ w[k] > n
    BY <1>2, <2>1, <2>3 DEF GrownSignals
  <2> QED
    BY <1>2, <2>1, <2>3 DEF GrownSignals, w
<1> QED
  BY <1>1, <1>2

\* What was kept twice over was kept.
LEMMA GrownTwice ==
  ASSUME NEW a, NEW b, NEW c, NEW n \in Nat, NEW m \in Nat, n <= m,
         Grown(a, b, n), Grown(b, c, m)
  PROVE  Grown(a, c, n)
<1>1. \A k \in 1..Len(a) : a[k] = c[k]
  BY DEF Grown
<1>2. ASSUME NEW k \in 1..Len(c), k > Len(a)
      PROVE  c[k].step \in Nat /\ c[k].step > n
  <2>1. CASE k <= Len(b)
    BY <1>2, <2>1 DEF Grown
  <2>2. CASE k > Len(b)
    <3>1. c[k].step \in Nat /\ c[k].step > m
      BY <2>2 DEF Grown
    <3> QED
      BY <3>1
  <2> QED
    BY <2>1, <2>2 DEF Grown
<1> QED
  BY <1>1, <1>2 DEF Grown

\* The decision of a step that was recorded stays what it was.
LEMMA DecisionStays ==
  ASSUME NEW part, NEW whole, NEW n \in Nat, Grown(part, whole, n), NEW j \in 1..n
  PROVE  DecisionAt(part, j) = DecisionAt(whole, j)
<1> DEFINE D(s) == {s[k] : k \in {l \in 1..Len(s) : s[l].step = j}}
<1>1. ASSUME NEW k \in 1..Len(whole), whole[k].step = j
      PROVE  k \in 1..Len(part)
  BY <1>1 DEF Grown
<1>2. 1..Len(part) \subseteq 1..Len(whole) /\ \A k \in 1..Len(part) : part[k] = whole[k]
  BY DEF Grown
<1>3. D(part) = D(whole)
  BY <1>1, <1>2
<1> QED
  BY <1>3 DEF DecisionAt

-----------------------------------------------------------------------------
(* What a file read short of some events of step i keeps of the record.    *)

Extends(r, t, n) ==
  /\ Shaped(t) /\ t.steps = r.steps
  /\ Grown(r.decisions, t.decisions, n) /\ GrownSignals(r.signals, t.signals, n)
  /\ Grown(r.evidence, t.evidence, n) /\ Grown(r.artifacts, t.artifacts, n)

LEMMA ReadShaped ==
  ASSUME NEW rec, Shaped(rec), NEW line
  PROVE  Shaped(Read(rec, line))
<1> DEFINE x == line.payload
           t == Read(rec, line)
<1>1. /\ AnySeq(Append(rec.steps, x)) /\ AnySeq(Append(rec.decisions, x))
      /\ AnySeq(Append(rec.signals, x)) /\ AnySeq(Append(rec.evidence, x))
      /\ AnySeq(Append(rec.artifacts, x))
  BY Appended DEF Shaped
<1>2. \/ t = [rec EXCEPT !.steps = Append(rec.steps, x)]
      \/ t = [rec EXCEPT !.decisions = Append(rec.decisions, x)]
      \/ t = [rec EXCEPT !.signals = Append(rec.signals, x)]
      \/ t = [rec EXCEPT !.evidence = Append(rec.evidence, x)]
      \/ t = [rec EXCEPT !.artifacts = Append(rec.artifacts, x)]
      \/ t = rec
  BY DEF Read
<1> HIDE DEF x, t
<1>3. Shaped(t)
  BY <1>1, <1>2 DEF Shaped
<1> QED
  BY <1>3 DEF t

LEMMA ReadExtends ==
  ASSUME NEW r, NEW t, NEW n \in Nat, Extends(r, t, n), NEW i \in Nat, i > n,
         NEW e, Piece(e, i)
  PROVE  Extends(r, Read(t, e), n)
<1> DEFINE x == e.payload
           u == Read(t, e)
<1>0. /\ Shaped(u) /\ AnySeq(t.decisions) /\ AnySeq(t.signals) /\ AnySeq(t.evidence)
      /\ AnySeq(t.artifacts)
  BY ReadShaped DEF Extends, Shaped
<1>1. CASE e.type = "policy_decision"
  <2>1. u = [t EXCEPT !.decisions = Append(t.decisions, x)] /\ x.step = i
    BY <1>1 DEF Read, Piece
  <2>2. Grown(r.decisions, Append(t.decisions, x), n)
    BY <1>0, <2>1, GrownByOne DEF Extends
  <2> HIDE DEF u, x
  <2>3. /\ u.steps = t.steps /\ u.decisions = Append(t.decisions, x) /\ u.signals = t.signals
        /\ u.evidence = t.evidence /\ u.artifacts = t.artifacts
    BY <2>1 DEF Extends, Shaped
  <2> QED
    BY <1>0, <2>2, <2>3 DEF Extends, u
<1>2. CASE e.type = "evidence"
  <2>1. u = [t EXCEPT !.evidence = Append(t.evidence, x)] /\ x.step = i
    BY <1>2 DEF Read, Piece
  <2>2. Grown(r.evidence, Append(t.evidence, x), n)
    BY <1>0, <2>1, GrownByOne DEF Extends
  <2> HIDE DEF u, x
  <2>3. /\ u.steps = t.steps /\ u.decisions = t.decisions /\ u.signals = t.signals
        /\ u.evidence = Append(t.evidence, x) /\ u.artifacts = t.artifacts
    BY <2>1 DEF Extends, Shaped
  <2> QED
    BY <1>0, <2>2, <2>3 DEF Extends, u
<1>3. CASE e.type = "artifact"
  <2>1. u = [t EXCEPT !.artifacts = Append(t.artifacts, x)] /\ x.step = i
    BY <1>3 DEF Read, Piece
  <2>2. Grown(r.artifacts, Append(t.artifacts, x), n)
    BY <1>0, <2>1, GrownByOne DEF Extends
  <2> HIDE DEF u, x
  <2>3. /\ u.steps = t.steps /\ u.decisions = t.decisions /\ u.signals = t.signals
        /\ u.evidence = t.evidence /\ u.artifacts = Append(t.artifacts, x)
    BY <2>1 DEF Extends, Shaped
  <2> QED
    BY <1>0, <2>2, <2>3 DEF Extends, u
<1>4. CASE e.type = "risk_signal" /\ x = i
  <2>1. u = [t EXCEPT !.signals = Append(t.signals, i)]
    BY <1>4 DEF Read
  <2>2. GrownSignals(r.signals, Append(t.signals, i), n)
    BY <1>0, GrownByOne DEF Extends
  <2> HIDE DEF u, x
  <2>3. /\ u.steps = t.steps /\ u.decisions = t.decisions
        /\ u.signals = Append(t.signals, i)
        /\ u.evidence = t.evidence /\ u.artifacts = t.artifacts
    BY <2>1 DEF Extends, Shaped
  <2> QED
    BY <1>0, <2>2, <2>3 DEF Extends, u
<1> QED
  BY <1>1, <1>2, <1>3, <1>4 DEF Piece

\* What is left of the events of a step, its own event excluded.
LEMMA Shown ==
  ASSUME NEW q, AnySeq(q), Shaped(Loaded(q)), NEW i \in Nat, NEW n \in Nat, i > n,
         NEW F, Pieces(F, i)
  PROVE  AnySeq(q \o F) /\ Extends(Loaded(q), Loaded(q \o F), n)
<1> DEFINE S == {l \in Nat : \A G : Pieces(G, i) /\ Len(G) = l =>
                                  AnySeq(q \o G) /\ Extends(Loaded(q), Loaded(q \o G), n)}
<1>1. 0 \in S
  <2> SUFFICES ASSUME NEW G, Pieces(G, i), Len(G) = 0
               PROVE  AnySeq(q \o G) /\ Extends(Loaded(q), Loaded(q \o G), n)
    OBVIOUS
  <2>1. G = << >>
    BY EmptySeq DEF Pieces, AnySeq
  <2>2. q \o G = q
    BY <2>1, EmptyIsSeq, Concatenated
  <2>3. Extends(Loaded(q), Loaded(q), n)
    BY NotGrown DEF Extends, Shaped
  <2> QED
    BY <2>2, <2>3
<1>2. ASSUME NEW l \in Nat, l \in S
      PROVE  l + 1 \in S
  <2> SUFFICES ASSUME NEW G, Pieces(G, i), Len(G) = l + 1
               PROVE  AnySeq(q \o G) /\ Extends(Loaded(q), Loaded(q \o G), n)
    OBVIOUS
  <2>1. PICK T : G \in Seq(T)
    BY DEF Pieces, AnySeq
  <2>2. G # << >>
    BY EmptyIsSeq
  <2>3. PICK H \in Seq(T), e \in T : G = Append(H, e)
    BY <2>1, <2>2, SequenceEmptyOrAppend
  <2>4. AnySeq(H)
    BY <2>3 DEF AnySeq
  <2>5. Len(H) \in Nat /\ Len(G) = Len(H) + 1 /\ G[Len(H) + 1] = e /\ \A k \in 1..Len(H) : G[k] = H[k]
    BY <2>3, <2>4, Appended
  <2>6. Pieces(H, i) /\ Piece(e, i) /\ Len(H) = l
    BY <2>4, <2>5 DEF Pieces
  <2>7. AnySeq(q \o H) /\ Extends(Loaded(q), Loaded(q \o H), n)
    BY <1>2, <2>6
  <2>8. q \o G = Append(q \o H, e)
    BY <2>3, <2>4, Concatenated
  <2>9. AnySeq(q \o G) /\ Loaded(q \o G) = Read(Loaded(q \o H), e)
    BY <2>7, <2>8, Appended, LoadedAppend
  <2> QED
    BY <2>6, <2>7, <2>9, ReadExtends
<1> HIDE DEF S
<1>3. Nat \subseteq S
  BY <1>1, <1>2, Induction
<1>4. Len(F) \in Nat
  BY Appended DEF Pieces
<1> QED
  BY <1>3, <1>4 DEF S

-----------------------------------------------------------------------------
(* The events of an iteration are those of one step, its own last.         *)

LEMMA NewPieces ==
  ASSUME NEW old, NEW new, AnySeq(old), NEW i, NEW type
  PROVE  /\ type \in {"policy_decision", "evidence", "artifact"} /\ Adds(old, new, i) =>
               Pieces(New(old, new, type), i)
         /\ AddsSignal(old, new, i) => Pieces(New(old, new, "risk_signal"), i)
<1>1. Pieces(<< >>, i)
  BY EmptyIsSeq DEF Pieces
<1>2. ASSUME NEW e, Piece(e, i)
      PROVE  Pieces(<<e>>, i)
  BY <1>2, OneIsSeq DEF Pieces
<1>3. ASSUME type \in {"policy_decision", "evidence", "artifact"}, Adds(old, new, i)
      PROVE  Pieces(New(old, new, type), i)
  <2>1. CASE new = old
    BY <1>1, <2>1, NewIs
  <2>2. CASE \E x : x.step = i /\ new = Append(old, x)
    <3>1. PICK x : x.step = i /\ new = Append(old, x)
      BY <2>2
    <3> DEFINE e == [type |-> type, payload |-> x]
    <3>2. Piece(e, i)
      BY <1>3, <3>1 DEF Piece
    <3>3. New(old, new, type) = <<e>>
      BY <3>1, NewIs
    <3> HIDE DEF e
    <3> QED
      BY <1>2, <3>2, <3>3
  <2> QED
    BY <1>3, <2>1, <2>2 DEF Adds
<1>4. ASSUME AddsSignal(old, new, i)
      PROVE  Pieces(New(old, new, "risk_signal"), i)
  <2>1. CASE new = old
    BY <1>1, <2>1, NewIs
  <2>2. CASE new = Append(old, i)
    <3> DEFINE e == [type |-> "risk_signal", payload |-> i]
    <3>2. Piece(e, i)
      BY DEF Piece
    <3>3. New(old, new, "risk_signal") = <<e>>
      BY <2>2, NewIs
    <3> HIDE DEF e
    <3> QED
      BY <1>2, <3>2, <3>3
  <2> QED
    BY <1>4, <2>1, <2>2 DEF AddsSignal
<1> QED
  BY <1>3, <1>4

LEMMA PiecesJoined ==
  ASSUME NEW F, NEW G, NEW i, Pieces(F, i), Pieces(G, i)
  PROVE  Pieces(F \o G, i)
<1>1. AnySeq(F) /\ AnySeq(G)
  BY DEF Pieces
<1>2. AnySeq(F \o G)
  BY <1>1, Concatenated
<1>3. \A k \in 1..Len(F \o G) : (\E j \in 1..Len(F) : (F \o G)[k] = F[j])
                                \/ (\E j \in 1..Len(G) : (F \o G)[k] = G[j])
  BY <1>1, Concatenated
<1> QED
  BY <1>2, <1>3 DEF Pieces

LEMMA EventsAreOfTheStep ==
  ASSUME NEW s, NEW t, Locals(s), Iterated(s, t)
  PROVE  \E F, x : EventsOf(s, t) = Append(F, StepEvent(x)) /\ Pieces(F, Len(s.steps) + 1)
<1> DEFINE i == Len(s.steps) + 1
           e1 == New(s.decisions, t.decisions, "policy_decision")
           e2 == New(s.signals, t.signals, "risk_signal")
           e3 == New(s.evidence, t.evidence, "evidence")
           e4 == New(s.artifacts, t.artifacts, "artifact")
           F == e1 \o e2 \o e3 \o e4
<1>1. Pieces(e1, i) /\ Pieces(e2, i) /\ Pieces(e3, i) /\ Pieces(e4, i)
  BY NewPieces DEF Iterated, Locals
<1>2. PICK x : t.steps = Append(s.steps, x)
  BY DEF Iterated
<1>3. New(s.steps, t.steps, "step") = <<StepEvent(x)>>
  BY <1>2, NewIs DEF Locals, StepEvent
<1>4. EventsOf(s, t) = F \o <<StepEvent(x)>>
  BY <1>3 DEF EventsOf
<1> HIDE DEF e1, e2, e3, e4, i
<1>5. Pieces(e1 \o e2, i)
  BY <1>1, PiecesJoined
<1>6. Pieces((e1 \o e2) \o e3, i)
  BY <1>1, <1>5, PiecesJoined
<1>7. Pieces(F, i)
  BY <1>1, <1>6, PiecesJoined
<1>8. F \o <<StepEvent(x)>> = Append(F, StepEvent(x))
  BY <1>7, EmptyIsSeq, Concatenated DEF Pieces
<1> QED
  BY <1>4, <1>7, <1>8 DEF i

-----------------------------------------------------------------------------
(* An execution, further on.                                               *)

Ahead(s, t, n) ==
  /\ Locals(t) /\ Len(t.steps) \in Nat /\ n <= Len(t.steps)
  /\ \A k \in 1..n : t.steps[k] = s.steps[k]
  /\ Grown(s.decisions, t.decisions, n)

LEMMA IteratedAhead ==
  ASSUME NEW s, NEW t, NEW u, NEW n \in Nat, Ahead(s, t, n), Iterated(t, u)
  PROVE  Ahead(s, u, n) /\ Len(u.steps) = Len(t.steps) + 1
<1>1. PICK x : u.steps = Append(t.steps, x)
  BY DEF Iterated
<1>2. Len(u.steps) = Len(t.steps) + 1 /\ \A k \in 1..Len(t.steps) : u.steps[k] = t.steps[k]
  BY <1>1, Appended DEF Ahead, Locals
<1>3. \A k \in 1..n : u.steps[k] = s.steps[k]
  BY <1>2 DEF Ahead
<1>4. Grown(s.decisions, u.decisions, n)
  <2>1. Len(t.steps) + 1 \in Nat /\ Len(t.steps) + 1 > n
    BY DEF Ahead
  <2> DEFINE i == Len(t.steps) + 1
  <2> HIDE DEF i
  <2>2. Adds(t.decisions, u.decisions, i) /\ AnySeq(t.decisions) /\ Grown(s.decisions, t.decisions, n)
    BY DEF Iterated, Ahead, Locals, i
  <2>3. i \in Nat /\ i > n
    BY <2>1 DEF i
  <2>4. \A y : y.step = i => Grown(s.decisions, Append(t.decisions, y), n)
    BY <2>2, <2>3, GrownByOne
  <2> QED
    BY <2>2, <2>4 DEF Adds
<1> QED
  BY <1>2, <1>3, <1>4 DEF Ahead, Iterated

LEMMA ExecutionGrows ==
  ASSUME NEW steps, NEW pol, NEW ws, NEW n \in Nat
  PROVE  /\ Locals(Executed(steps, pol, ws, n)) /\ Len(Executed(steps, pol, ws, n).steps) = n
         /\ \A m \in Nat : n <= m =>
               Ahead(Executed(steps, pol, ws, n), Executed(steps, pol, ws, m), n)
<1> DEFINE E(m) == Executed(steps, pol, ws, m)
           S == {m \in Nat : Locals(E(m)) /\ Len(E(m).steps) = m}
           T == {d \in Nat : Ahead(E(n), E(n + d), n)}
<1>0. E(0) = Start(ws) /\ \A m \in Nat : E(m + 1) = Iterate(pol, E(m), steps[m + 1])
  BY ExecutedSteps
<1> HIDE DEF E
<1>1. \A m \in Nat : Locals(E(m)) => Iterated(E(m), E(m + 1))
  BY <1>0, IterateAdds
<1>2. 0 \in S
  BY <1>0, StartLocals, EmptyIsSeq DEF Start
<1>3. ASSUME NEW m \in Nat, m \in S
      PROVE  m + 1 \in S
  <2>1. Iterated(E(m), E(m + 1)) /\ AnySeq(E(m).steps) /\ Len(E(m).steps) = m
    BY <1>1, <1>3 DEF Locals
  <2>2. PICK x : E(m + 1).steps = Append(E(m).steps, x)
    BY <2>1 DEF Iterated
  <2>3. Len(E(m + 1).steps) = m + 1
    BY <2>1, <2>2, Appended
  <2> QED
    BY <2>1, <2>3 DEF Iterated
<1> HIDE DEF S
<1>4. Nat \subseteq S
  BY <1>2, <1>3, Induction
<1>5. \A m \in Nat : Locals(E(m)) /\ Len(E(m).steps) = m
  BY <1>4 DEF S
<1>6. 0 \in T
  <2>1. Grown(E(n).decisions, E(n).decisions, n)
    BY <1>5, NotGrown DEF Locals
  <2>2. Ahead(E(n), E(n), n)
    BY <1>5, <2>1 DEF Ahead
  <2>3. n + 0 = n
    OBVIOUS
  <2> QED
    BY <2>2, <2>3
<1>7. ASSUME NEW d \in Nat, d \in T
      PROVE  d + 1 \in T
  <2>1. n + d \in Nat /\ (n + d) + 1 = n + (d + 1)
    OBVIOUS
  <2>2. Iterated(E(n + d), E((n + d) + 1)) /\ Ahead(E(n), E(n + d), n)
    BY <1>1, <1>5, <1>7, <2>1
  <2>3. Ahead(E(n), E((n + d) + 1), n)
    BY <2>2, IteratedAhead
  <2> QED
    BY <2>1, <2>3
<1> HIDE DEF T
<1>8. Nat \subseteq T
  BY <1>6, <1>7, Induction
<1>9. ASSUME NEW m \in Nat, n <= m
      PROVE  Ahead(E(n), E(m), n)
  <2>1. m - n \in Nat /\ n + (m - n) = m
    BY <1>9
  <2>2. m - n \in T
    BY <1>8, <2>1
  <2>3. Ahead(E(n), E(n + (m - n)), n)
    BY <2>2 DEF T
  <2> QED
    BY <2>1, <2>3
<1> QED
  BY <1>5, <1>9 DEF E

-----------------------------------------------------------------------------
(* What an iteration does to the workspace.                                *)

\* A change of the workspace is on record as the step's, which was let through.
Changes(s, t) ==
  \/ t.ws = s.ws
  \/ \E args, y, z :
        /\ t.ws = Effect(args, s.ws)
        /\ t.steps = Append(s.steps, y) /\ y.input = args /\ y.error = "none"
        /\ t.evidence = Append(s.evidence, z) /\ z.step = Len(s.steps) + 1
        /\ \/ t.decisions = s.decisions
           \/ \E x : /\ x.decision # "deny" /\ t.decisions = Append(s.decisions, x)

LEMMA IterateChanges ==
  ASSUME NEW pol, NEW s, NEW step, Locals(s)
  PROVE  Changes(s, Iterate(pol, s, step))
<1> DEFINE t == Iterate(pol, s, step)
           args == Args(step, s.outputs)
           j == Judged(pol, s, args)
<1>0. /\ Locals(j) /\ j.steps = s.steps /\ j.ws = s.ws /\ j.evidence = s.evidence
      /\ j.decisions = s.decisions \/
            \E x : x.decision = Verdict(pol, args) /\ j.decisions = Append(s.decisions, x)
  BY JudgedAdds
<1>1. CASE ~RefOk(step, s.outputs)
  <2>1. t.ws = s.ws
    BY <1>1 DEF Iterate, RefError, Locals
  <2> QED
    BY <2>1 DEF Changes
<1>2. CASE RefOk(step, s.outputs) /\ ~Permitted(Verdict(pol, args))
  <2>1. t = Blocked(j, args)
    BY <1>2 DEF Iterate
  <2> HIDE DEF t, j
  <2>2. t.ws = s.ws
    BY <1>0, <2>1 DEF Blocked, Locals
  <2> QED
    BY <2>2 DEF Changes, t
<1>3. CASE RefOk(step, s.outputs) /\ Permitted(Verdict(pol, args)) /\ ~ToolOk(args, s.ws)
  <2>1. t = Failed(j, args)
    BY <1>3 DEF Iterate
  <2> HIDE DEF t, j
  <2>2. t.ws = s.ws
    BY <1>0, <2>1 DEF Failed, Locals
  <2> QED
    BY <2>2 DEF Changes, t
<1>4. CASE RefOk(step, s.outputs) /\ Permitted(Verdict(pol, args)) /\ ToolOk(args, s.ws)
  <2>1. t = Done(j, args)
    BY <1>4 DEF Iterate
  <2>2. Verdict(pol, args) # "deny"
    BY <1>4 DEF Permitted
  <2> DEFINE y == StepRecord(args, Output(args, j.ws), "none")
  <2>3. y.input = args /\ y.error = "none"
    BY DEF StepRecord
  <2> HIDE DEF t, j, args, y
  <2>4. /\ t.steps = Append(j.steps, y)
        /\ t.ws = Effect(args, j.ws) /\ t.decisions = j.decisions
        /\ \E z : z.step = Len(j.steps) + 1 /\ t.evidence = Append(j.evidence, z)
    BY <1>0, <2>1, DoneAdds DEF y
  <2>5. \/ t.decisions = s.decisions
        \/ \E x : x.decision # "deny" /\ t.decisions = Append(s.decisions, x)
    BY <1>0, <2>2, <2>4
  <2>6. Changes(s, t)
    BY <1>0, <2>3, <2>4, <2>5 DEF Changes
  <2> QED
    BY <2>6 DEF t
<1> QED
  BY <1>1, <1>2, <1>3, <1>4

\* ChangesAreAccounted of the locals s.
Accounted(ws, s) ==
  \A p \in DOMAIN ws :
     s.ws[p] # ws[p] =>
        \E i \in 1..Len(s.steps) :
           /\ s.steps[i].input.path = p /\ s.steps[i].error = "none"
           /\ \A k \in 1..Len(s.decisions) :
                 s.decisions[k].step = i => s.decisions[k].decision # "deny"
           /\ \E k \in 1..Len(s.evidence) : s.evidence[k].step = i

\* What makes it inductive: nothing is decided of a step that is still to come.
Accounts(ws, s) ==
  /\ Accounted(ws, s) /\ s.ws = [p \in DOMAIN ws |-> s.ws[p]]
  /\ \A k \in 1..Len(s.decisions) : s.decisions[k].step \in 1..Len(s.steps)

OnlyFile(ws, to, path) ==
  /\ to = [p \in DOMAIN ws |-> to[p]]
  /\ \A p \in DOMAIN ws : p # path => to[p] = ws[p]

LEMMA EffectOnFile ==
  ASSUME NEW ws, OnlyFile(ws, ws, "none"), NEW args
  PROVE  OnlyFile(ws, Effect(args, ws), args.path)
  BY DEF Effect, OnlyFile

LEMMA IterateAccounts ==
  ASSUME NEW ws, NEW s, NEW t, Locals(s), Iterated(s, t), Changes(s, t), Accounts(ws, s)
  PROVE  Accounts(ws, t)
<1> DEFINE n == Len(s.steps)
<1>1. PICK y : t.steps = Append(s.steps, y)
  BY DEF Iterated
<1>2. /\ n \in Nat /\ Len(t.steps) = n + 1 /\ t.steps[n + 1] = y
      /\ \A k \in 1..n : t.steps[k] = s.steps[k]
  BY <1>1, Appended DEF Locals
<1>3. /\ Len(s.decisions) \in Nat
      /\ \/ t.decisions = s.decisions
         \/ \E x : /\ x.step = n + 1 /\ t.decisions = Append(s.decisions, x)
                   /\ Len(t.decisions) = Len(s.decisions) + 1
                   /\ t.decisions[Len(s.decisions) + 1] = x
                   /\ \A k \in 1..Len(s.decisions) : t.decisions[k] = s.decisions[k]
  BY Appended DEF Iterated, Adds, Locals
<1>4. /\ Len(s.evidence) \in Nat
      /\ \/ t.evidence = s.evidence
         \/ \E x : /\ x.step = n + 1 /\ t.evidence = Append(s.evidence, x)
                   /\ Len(t.evidence) = Len(s.evidence) + 1
                   /\ t.evidence[Len(s.evidence) + 1] = x
                   /\ \A k \in 1..Len(s.evidence) : t.evidence[k] = s.evidence[k]
  BY Appended DEF Iterated, Adds, Locals
<1> HIDE DEF n
<1>5. \A k \in 1..Len(t.decisions) :
         \/ k \in 1..Len(s.decisions) /\ t.decisions[k] = s.decisions[k]
         \/ t.decisions[k].step = n + 1 /\ t.decisions # s.decisions /\ k = Len(s.decisions) + 1
  BY <1>3
<1>6. \A k \in 1..Len(s.decisions) : s.decisions[k].step \in 1..n
  BY DEF Accounts, n
<1>7. ASSUME NEW k \in 1..Len(t.decisions)
      PROVE  t.decisions[k].step \in 1..(n + 1)
  <2>1. 1..n \subseteq 1..(n + 1) /\ n + 1 \in 1..(n + 1)
    BY <1>2
  <2> QED
    BY <1>5, <1>6, <2>1
<1>8. \A k \in 1..Len(s.evidence) : k \in 1..Len(t.evidence) /\ t.evidence[k] = s.evidence[k]
  BY <1>4
<1>9. /\ t.ws = [p \in DOMAIN ws |-> t.ws[p]]
      /\ \A p \in DOMAIN ws : t.ws[p] # s.ws[p] =>
            /\ t.steps[n + 1].input.path = p /\ t.steps[n + 1].error = "none"
            /\ \A k \in 1..Len(t.decisions) :
                  t.decisions[k].step = n + 1 => t.decisions[k].decision # "deny"
            /\ \E k \in 1..Len(t.evidence) : t.evidence[k].step = n + 1
  <2>0. s.ws = [p \in DOMAIN ws |-> s.ws[p]]
    BY DEF Accounts
  <2>1. CASE t.ws = s.ws
    BY <2>0, <2>1
  <2>2. ASSUME NEW args, NEW w, NEW z,
               t.ws = Effect(args, s.ws),
               t.steps = Append(s.steps, w), w.input = args, w.error = "none",
               t.evidence = Append(s.evidence, z), z.step = n + 1,
               \/ t.decisions = s.decisions
               \/ \E x : x.decision # "deny" /\ t.decisions = Append(s.decisions, x)
        PROVE  <1>9
    <3>1. DOMAIN s.ws = DOMAIN ws /\ s.ws = [p \in DOMAIN s.ws |-> s.ws[p]]
      BY <2>0
    <3>2. OnlyFile(s.ws, t.ws, args.path)
      <4>1. OnlyFile(s.ws, s.ws, "none")
        BY <3>1 DEF OnlyFile
      <4> QED
        BY <2>2, <4>1, EffectOnFile
    <3>3. t.steps[n + 1] = w
      BY <2>2, Appended DEF n, Locals
    <3>4. /\ Len(s.evidence) + 1 \in 1..Len(t.evidence)
          /\ t.evidence[Len(s.evidence) + 1].step = n + 1
      BY <2>2, Appended DEF Locals
    <3>5. ASSUME NEW k \in 1..Len(t.decisions), t.decisions[k].step = n + 1
          PROVE  t.decisions[k].decision # "deny"
      <4>1. n \in Nat /\ ~(n + 1 \in 1..n)
        BY <1>2
      <4>2. k = Len(s.decisions) + 1 /\ t.decisions # s.decisions
        BY <1>5, <1>6, <3>5, <4>1
      <4>3. PICK x : x.decision # "deny" /\ t.decisions = Append(s.decisions, x)
        BY <2>2, <4>2
      <4> QED
        BY <4>2, <4>3, Appended DEF Locals
    <3> QED
      BY <2>2, <3>1, <3>2, <3>3, <3>4, <3>5 DEF OnlyFile
  <2> QED
    BY <2>1, <2>2 DEF Changes, n
<1>10. ASSUME NEW p \in DOMAIN ws, t.ws[p] # ws[p]
       PROVE  \E i \in 1..Len(t.steps) :
                 /\ t.steps[i].input.path = p /\ t.steps[i].error = "none"
                 /\ \A k \in 1..Len(t.decisions) :
                       t.decisions[k].step = i => t.decisions[k].decision # "deny"
                 /\ \E k \in 1..Len(t.evidence) : t.evidence[k].step = i
  <2>1. CASE t.ws[p] # s.ws[p]
    BY <1>2, <1>9, <2>1
  <2>2. CASE t.ws[p] = s.ws[p]
    <3>1. PICK i \in 1..n :
             /\ s.steps[i].input.path = p /\ s.steps[i].error = "none"
             /\ \A k \in 1..Len(s.decisions) :
                   s.decisions[k].step = i => s.decisions[k].decision # "deny"
             /\ \E k \in 1..Len(s.evidence) : s.evidence[k].step = i
      BY <1>10, <2>2 DEF Accounts, Accounted, n
    <3>2. i \in 1..Len(t.steps) /\ t.steps[i] = s.steps[i] /\ i # n + 1
      BY <1>2
    <3>3. \A k \in 1..Len(t.decisions) :
             t.decisions[k].step = i => t.decisions[k].decision # "deny"
      BY <1>5, <3>1, <3>2
    <3>4. \E k \in 1..Len(t.evidence) : t.evidence[k].step = i
      BY <1>8, <3>1
    <3> QED
      BY <3>1, <3>2, <3>3, <3>4
  <2> QED
    BY <2>1, <2>2
<1> QED
  BY <1>2, <1>7, <1>9, <1>10 DEF Accounts, Accounted

-----------------------------------------------------------------------------
(* The inductive invariant.                                                *)

\* The events still to be flushed: the header or the end of the run, or what is
\* left of the n-th step's, the step's own event last.
OfStep(td, n) == n # 0 /\ \E F, x : td = Append(F, StepEvent(x)) /\ Pieces(F, n)
Marker(td) == \E e : td = <<e>> /\ e.type \in {"run_start", "run_end"}
Todo(td, n) == td = << >> \/ Marker(td) \/ OfStep(td, n)

\* The locals are those of the loop so far.
InTheLoop ==
  /\ st = Executed(script, policy, ws0, Len(st.steps)) /\ Len(st.steps) <= Len(script)
  /\ Todo(todo, Len(st.steps)) /\ Accounts(ws0, st)

\* An iteration was left by an exception: what it flushes is of the step it does not
\* record, and replay leaves the loop as well.
OutOfTheLoop ==
  /\ \E i \in 1..Len(script) : Escapes(policy, Fresh(i - 1), script[i])
  /\ Pieces(todo, Len(st.steps) + 1) /\ Accounted(ws0, st)

\* The file, with what is still to be flushed, reads as the record of the locals.
EInv ==
  /\ script \in Scripts /\ ws0 \in Workspaces /\ Locals(st)
  /\ AnySeq(trace) /\ Shaped(Loaded(trace)) /\ Loaded(trace \o todo) = Record(st)
  /\ pc # "escaped" => InTheLoop
  /\ pc = "escaped" => OutOfTheLoop

LEMMA FlushedPiece ==
  ASSUME NEW tr, AnySeq(tr), NEW n, NEW F, Pieces(F, n), F # << >>
  PROVE  /\ AnySeq(Append(tr, Head(F))) /\ Pieces(Tail(F), n)
         /\ Append(tr, Head(F)) \o Tail(F) = tr \o F
<1> DEFINE h == Head(F)
           u == Tail(F)
<1>1. PICK S : F \in Seq(S)
  BY DEF Pieces, AnySeq
<1>2. /\ Len(u) \in Nat /\ Len(F) = Len(u) + 1 /\ u \in Seq(S)
      /\ \A k \in 1..Len(u) : u[k] = F[k + 1]
  BY <1>1, HeadTailProperties, LenProperties
<1>3. AnySeq(u)
  BY <1>2 DEF AnySeq
<1>4. F = <<h>> \o u
  BY <1>1
<1> HIDE DEF h, u
<1>5. Pieces(u, n)
  <2>1. ASSUME NEW k \in 1..Len(u)
        PROVE  Piece(u[k], n)
    <3>1. k + 1 \in 1..Len(F) /\ u[k] = F[k + 1]
      BY <1>2
    <3> QED
      BY <3>1 DEF Pieces
  <2> QED
    BY <1>3, <2>1 DEF Pieces
<1>6. AnySeq(<<h>>) /\ AnySeq(Append(tr, h)) /\ tr \o <<h>> = Append(tr, h)
  BY OneIsSeq, Appended, Concatenated, EmptyIsSeq
<1>7. Append(tr, h) \o u = tr \o F
  <2>1. tr \o (<<h>> \o u) = (tr \o <<h>>) \o u
    BY <1>3, <1>6, Regrouped
  <2> QED
    BY <1>4, <1>6, <2>1
<1> QED
  BY <1>5, <1>6, <1>7 DEF h, u

LEMMA FlushedIsSame ==
  ASSUME NEW tr, NEW td, AnySeq(tr), NEW n, Todo(td, n), td # << >>
  PROVE  /\ AnySeq(td) /\ Todo(Tail(td), n)
         /\ Append(tr, Head(td)) \o Tail(td) = tr \o td
<1>1. CASE Marker(td)
  <2>1. PICK e : td = <<e>>
    BY <1>1 DEF Marker
  <2>2. Head(td) = e /\ Tail(td) = << >> /\ AnySeq(td)
    BY <2>1, OneIsSeq
  <2>3. AnySeq(Append(tr, e)) /\ Append(tr, e) \o << >> = Append(tr, e) /\ tr \o <<e>> = Append(tr, e)
    BY Appended, Concatenated, EmptyIsSeq
  <2> QED
    BY <2>1, <2>2, <2>3 DEF Todo
<1>2. CASE OfStep(td, n)
  <2>1. PICK F, x : td = Append(F, StepEvent(x)) /\ Pieces(F, n)
    BY <1>2 DEF OfStep
  <2>n. n # 0
    BY <1>2 DEF OfStep
  <2> DEFINE e == StepEvent(x)
  <2> HIDE DEF e
  <2>2. td = Append(F, e) /\ AnySeq(F) /\ AnySeq(td)
    BY <2>1, Appended DEF e, Pieces
  <2>3. PICK S : F \in Seq(S)
    BY <2>2 DEF AnySeq
  <2>4. /\ Head(td) = IF F = << >> THEN e ELSE Head(F)
        /\ Tail(td) = IF F = << >> THEN << >> ELSE Append(Tail(F), e)
    BY <2>2, <2>3, HeadTailAppend
  <2>5. CASE F = << >>
    <3>1. Head(td) = e /\ Tail(td) = << >>
      BY <2>4, <2>5
    <3>2. AnySeq(Append(tr, e)) /\ Append(tr, e) \o << >> = Append(tr, e)
      BY Appended, Concatenated, EmptyIsSeq
    <3>3. tr \o Append(<< >>, e) = Append(tr \o << >>, e) /\ tr \o << >> = tr
      BY Concatenated, EmptyIsSeq
    <3> QED
      BY <2>2, <2>5, <3>1, <3>2, <3>3 DEF Todo
  <2>6. CASE F # << >>
    <3> DEFINE h == Head(F)
               u == Tail(F)
    <3>1. Pieces(u, n) /\ AnySeq(Append(tr, h)) /\ Append(tr, h) \o u = tr \o F
      BY <2>1, <2>6, FlushedPiece
    <3>2. AnySeq(u) /\ AnySeq(Append(tr, h))
      BY <3>1 DEF Pieces
    <3> HIDE DEF h, u
    <3>3. Head(td) = h /\ Tail(td) = Append(u, e)
      BY <2>4, <2>6 DEF h, u
    <3>4. Todo(Tail(td), n)
      BY <2>n, <3>1, <3>3 DEF Todo, OfStep, e
    <3>5. tr \o Append(F, e) = Append(tr \o F, e)
      BY <2>2, Concatenated
    <3>6. Append(tr, h) \o Append(u, e) = Append(Append(tr, h) \o u, e)
      BY <3>2, Concatenated
    <3> QED
      BY <2>2, <3>1, <3>3, <3>4, <3>5, <3>6
  <2> QED
    BY <2>5, <2>6
<1> QED
  BY <1>1, <1>2 DEF Todo

\* The file is opened anew.
LEMMA Opened ==
  ASSUME Given, script \in Scripts, ws0 \in Workspaces
  PROVE  LET header == <<[type |-> "run_start", payload |-> "header"]>>
         IN  /\ Start(ws0) = Executed(script, policy, ws0, Len(Start(ws0).steps))
             /\ Locals(Start(ws0)) /\ Len(Start(ws0).steps) <= Len(script)
             /\ AnySeq(<< >>) /\ Shaped(Loaded(<< >>))
             /\ Todo(header, Len(Start(ws0).steps))
             /\ Loaded(<< >> \o header) = Record(Start(ws0))
             /\ Accounts(ws0, Start(ws0))
<1> DEFINE e == [type |-> "run_start", payload |-> "header"]
           s == Start(ws0)
<1>1. s.steps = << >> /\ s.decisions = << >> /\ s.ws = ws0 /\ Len(s.steps) = 0 /\ Locals(s)
  BY EmptyIsSeq, StartLocals DEF Start
<1>2. s = Executed(script, policy, ws0, 0)
  BY ExecutedSteps
<1>3. Len(script) \in Nat
  BY Appended DEF Given
<1>4. Loaded(<< >>) = NoEvents /\ Shaped(NoEvents)
  BY LoadedEmpty, EmptyIsSeq DEF NoEvents, Shaped
<1>5. Todo(<<e>>, Len(s.steps))
  BY DEF Todo, Marker
<1>6. Loaded(<< >> \o <<e>>) = Record(s)
  <2>1. Record(s) = NoEvents
    BY DEF Record, Start, NoEvents
  <2>2. Read(NoEvents, e) = NoEvents
    BY DEF Read
  <2> HIDE DEF e
  <2>3. << >> \o <<e>> = Append(<< >>, e)
    BY EmptyIsSeq, Concatenated
  <2>4. Loaded(Append(<< >>, e)) = Read(NoEvents, e)
    BY <1>4, EmptyIsSeq, LoadedAppend
  <2> QED
    BY <2>1, <2>2, <2>3, <2>4
<1>7. Accounts(ws0, s)
  BY <1>1, EmptyIsSeq DEF Accounts, Accounted, Given
<1> QED
  BY <1>1, <1>2, <1>3, <1>4, <1>5, <1>6, <1>7, EmptyIsSeq

LEMMA EInvInit == ASSUME Given PROVE ExecInit => EInv
  BY Opened DEF ExecInit, EInv, InTheLoop

LEMMA IterateKeeps ==
  ASSUME Given, EInv, iterate
  PROVE  EInv'
<1> DEFINE n == Len(st.steps)
           step == script[n + 1]
<1>0. pc = "running" /\ pc' = pc /\ InTheLoop
  BY DEF iterate, EInv
<1>1. /\ todo = << >> /\ n < Len(script) /\ st' = Iterate(policy, st, step)
      /\ todo' = EventsOf(st, st')
      /\ script' = script /\ policy' = policy /\ ws0' = ws0 /\ trace' = trace
  BY DEF iterate, Next_i
<1>2. n \in Nat /\ Len(script) \in Nat /\ n + 1 \in Nat /\ n + 1 <= Len(script)
  <2>1. n \in Nat /\ Len(script) \in Nat
    BY Appended DEF EInv, Locals, Given
  <2> QED
    BY <1>1, <2>1
<1>3. Iterated(st, st') /\ Changes(st, st')
  BY <1>1, IterateAdds, IterateChanges DEF EInv
<1>4. st' = Executed(script, policy, ws0, n + 1)
  <2>1. st = Executed(script, policy, ws0, n)
    BY <1>0 DEF InTheLoop
  <2> HIDE DEF n
  <2>2. Executed(script, policy, ws0, n + 1) =
           Iterate(policy, Executed(script, policy, ws0, n), step)
    BY <1>2, ExecutedSteps
  <2> QED
    BY <1>1, <2>1, <2>2
<1>5. Len(st'.steps) = n + 1
  BY <1>2, <1>4, ExecutionGrows
<1>6. Loaded(trace) = Record(st)
  <2>1. trace \o << >> = trace
    BY Concatenated, EmptyIsSeq DEF EInv
  <2> QED
    BY <1>1, <2>1 DEF EInv
<1>7. Loaded(trace \o todo') = Record(st')
  BY <1>1, <1>3, <1>6, EventsAreRead DEF EInv, Iterated, Went
<1>8. OfStep(todo', n + 1)
  <2>1. \E F, x : EventsOf(st, st') = Append(F, StepEvent(x)) /\ Pieces(F, n + 1)
    BY <1>3, EventsAreOfTheStep DEF EInv
  <2>2. n + 1 # 0
    BY <1>2
  <2> QED
    BY <1>1, <2>1, <2>2 DEF OfStep
<1>9. Accounts(ws0, st')
  BY <1>0, <1>3, IterateAccounts DEF EInv, InTheLoop
<1> HIDE DEF n, step
<1> QED
  BY <1>0, <1>1, <1>2, <1>3, <1>4, <1>5, <1>7, <1>8, <1>9 DEF EInv, InTheLoop, Todo, Iterated

\* What the policy has said of the step is kept and flushed, and nothing else is.
LEMMA EscapeKeeps ==
  ASSUME Given, EInv, escape
  PROVE  EInv'
<1> DEFINE n == Len(st.steps)
           args == Args(script[n + 1], st.outputs)
<1>0. InTheLoop /\ pc' = "escaped"
  BY DEF escape, EInv
<1>1. /\ todo = << >> /\ n < Len(script) /\ Escapes(policy, st, script[n + 1])
      /\ st' = Judged(policy, st, args) /\ todo' = EventsOf(st, st')
      /\ script' = script /\ policy' = policy /\ ws0' = ws0 /\ trace' = trace
  BY DEF escape, Next_i
<1>2. n \in Nat /\ Len(script) \in Nat
  BY Appended DEF EInv, Locals, Given
<1>3. /\ Locals(st') /\ st'.steps = st.steps /\ st'.ws = st.ws
      /\ st'.evidence = st.evidence /\ st'.artifacts = st.artifacts
      /\ Adds(st.decisions, st'.decisions, n + 1)
      /\ AddsSignal(st.signals, st'.signals, n + 1)
  BY <1>1, JudgedAdds DEF EInv, Adds
<1> HIDE DEF args
<1>4. Went(st, st')
  BY <1>3 DEF Went, Adds
<1>5. Loaded(trace \o todo') = Record(st')
  <2>1. trace \o << >> = trace
    BY Concatenated, EmptyIsSeq DEF EInv
  <2>2. Loaded(trace) = Record(st)
    BY <1>1, <2>1 DEF EInv
  <2> QED
    BY <1>1, <1>4, <2>2, EventsAreRead DEF EInv
<1>6. Pieces(todo', n + 1)
  <2> DEFINE e1 == New(st.decisions, st'.decisions, "policy_decision")
             e2 == New(st.signals, st'.signals, "risk_signal")
  <2>1. Pieces(e1, n + 1) /\ Pieces(e2, n + 1)
    BY <1>3, NewPieces DEF EInv, Locals
  <2>2. /\ New(st.evidence, st'.evidence, "evidence") = << >>
        /\ New(st.artifacts, st'.artifacts, "artifact") = << >>
        /\ New(st.steps, st'.steps, "step") = << >>
    BY <1>3, NewIs DEF EInv, Locals
  <2>3. EventsOf(st, st') = e1 \o e2 \o << >> \o << >> \o << >>
    BY <2>2 DEF EventsOf
  <2> HIDE DEF e1, e2
  <2>4. Pieces(e1 \o e2, n + 1)
    BY <2>1, PiecesJoined
  <2>5. e1 \o e2 \o << >> = e1 \o e2
    BY <2>4, Concatenated, EmptyIsSeq DEF Pieces
  <2> QED
    BY <1>1, <2>3, <2>4, <2>5
<1>7. \E i \in 1..Len(script) : Escapes(policy, Executed(script, policy, ws0, i - 1), script[i])
  <2>1. n + 1 \in 1..Len(script) /\ (n + 1) - 1 = n
    BY <1>1, <1>2
  <2>2. st = Executed(script, policy, ws0, n)
    BY <1>0 DEF InTheLoop
  <2> HIDE DEF n
  <2> QED
    BY <1>1, <2>1, <2>2
<1>8. Accounted(ws0, st')
  <2>1. \A k \in 1..Len(st.decisions) : st'.decisions[k] = st.decisions[k]
    BY <1>3, Appended DEF Adds, EInv, Locals
  <2>2. \A k \in 1..Len(st'.decisions) :
           k \in 1..Len(st.decisions) \/ st'.decisions[k].step = n + 1
    BY <1>3, Appended DEF Adds, EInv, Locals
  <2>3. ASSUME NEW i \in 1..n,
               \A k \in 1..Len(st.decisions) :
                  st.decisions[k].step = i => st.decisions[k].decision # "deny"
        PROVE  \A k \in 1..Len(st'.decisions) :
                  st'.decisions[k].step = i => st'.decisions[k].decision # "deny"
    <3>1. i # n + 1
      BY <1>2
    <3> QED
      BY <2>1, <2>2, <2>3, <3>1
  <2>4. Accounted(ws0, st)
    BY <1>0 DEF InTheLoop, Accounts
  <2>5. ASSUME NEW p \in DOMAIN ws0, st'.ws[p] # ws0[p]
        PROVE  \E i \in 1..Len(st'.steps) :
                  /\ st'.steps[i].input.path = p /\ st'.steps[i].error = "none"
                  /\ \A k \in 1..Len(st'.decisions) :
                        st'.decisions[k].step = i => st'.decisions[k].decision # "deny"
                  /\ \E k \in 1..Len(st'.evidence) : st'.evidence[k].step = i
    <3>1. PICK i \in 1..n :
             /\ st.steps[i].input.path = p /\ st.steps[i].error = "none"
             /\ \A k \in 1..Len(st.decisions) :
                   st.decisions[k].step = i => st.decisions[k].decision # "deny"
             /\ \E k \in 1..Len(st.evidence) : st.evidence[k].step = i
      BY <1>3, <2>4, <2>5 DEF Accounted
    <3>2. \A k \in 1..Len(st'.decisions) :
             st'.decisions[k].step = i => st'.decisions[k].decision # "deny"
      BY <2>3, <3>1
    <3> QED
      BY <1>3, <3>1, <3>2
  <2> QED
    BY <2>5 DEF Accounted
<1> QED
  BY <1>0, <1>1, <1>3, <1>5, <1>6, <1>7, <1>8 DEF EInv, OutOfTheLoop, Fresh, ReplayWorkspace

LEMMA EInvNext == ASSUME Given, EInv, [ExecNext]_exec_vars PROVE EInv'
<1>1. CASE event
  <2> DEFINE h == Head(todo)
  <2>1. /\ trace' = Append(trace, h) /\ todo' = Tail(todo) /\ todo # << >>
        /\ script' = script /\ policy' = policy /\ ws0' = ws0 /\ st' = st /\ pc' = pc
    BY <1>1 DEF event
  <2> HIDE DEF h
  <2>2. AnySeq(Append(trace, h)) /\ Loaded(Append(trace, h)) = Read(Loaded(trace), h)
    BY Appended, LoadedAppend DEF EInv
  <2>3. Shaped(Loaded(trace'))
    BY <2>1, <2>2, ReadShaped DEF EInv
  <2>t. /\ Append(trace, h) \o Tail(todo) = trace \o todo
        /\ pc # "escaped" => Todo(Tail(todo), Len(st.steps))
        /\ pc = "escaped" => Pieces(Tail(todo), Len(st.steps) + 1)
    <3>1. CASE pc = "escaped"
      BY <2>1, <3>1, FlushedPiece DEF EInv, OutOfTheLoop, h
    <3>2. CASE pc # "escaped"
      BY <2>1, <3>2, FlushedIsSame DEF EInv, InTheLoop, h
    <3> QED
      BY <3>1, <3>2
  <2>5. Loaded(trace' \o todo') = Record(st')
    BY <2>1, <2>t DEF EInv
  <2>6. /\ pc' # "escaped" => InTheLoop'
        /\ pc' = "escaped" => OutOfTheLoop'
    BY <2>1, <2>t DEF EInv, InTheLoop, OutOfTheLoop, Fresh, ReplayWorkspace
  <2> QED
    BY <2>1, <2>2, <2>3, <2>5, <2>6 DEF EInv
<1>2. CASE iterate
  BY <1>2, IterateKeeps
<1>3. CASE escape
  BY <1>3, EscapeKeeps
<1>4. CASE run_end
  <2> DEFINE e == [type |-> "run_end", payload |-> IF st.failed THEN "failed" ELSE "completed"]
  <2>1. /\ todo = << >> /\ todo' = <<e>>
        /\ script' = script /\ policy' = policy /\ ws0' = ws0 /\ st' = st /\ trace' = trace
        /\ pc = "running" /\ pc' = "ending"
    BY <1>4 DEF run_end
  <2>2. \A rec : Read(rec, e) = rec
    BY DEF Read
  <2>3. Marker(todo')
    BY <2>1 DEF Marker
  <2> HIDE DEF e
  <2>4. trace \o << >> = trace /\ trace \o <<e>> = Append(trace, e)
    BY Concatenated, EmptyIsSeq DEF EInv
  <2>5. Loaded(Append(trace, e)) = Read(Loaded(trace), e)
    BY LoadedAppend DEF EInv
  <2>6. Loaded(trace \o <<e>>) = Record(st)
    BY <2>1, <2>2, <2>4, <2>5 DEF EInv
  <2> QED
    BY <2>1, <2>3, <2>6 DEF EInv, InTheLoop, Todo
<1>5. CASE crash
  BY <1>5 DEF crash, EInv, InTheLoop
<1>6. CASE execute_again
  <2>1. /\ st' = Start(ws0) /\ trace' = << >>
        /\ todo' = <<[type |-> "run_start", payload |-> "header"]>>
        /\ script' = script /\ policy' = policy /\ ws0' = ws0 /\ pc' = "running"
    BY <1>6 DEF execute_again
  <2> QED
    BY <2>1, Opened DEF EInv, InTheLoop
<1>7. CASE UNCHANGED exec_vars
  BY <1>7 DEF exec_vars, EInv, InTheLoop, OutOfTheLoop, Fresh, ReplayWorkspace
<1> QED
  BY <1>1, <1>2, <1>3, <1>4, <1>5, <1>6, <1>7 DEF ExecNext

\* What a file that was cut off anywhere holds of the record of the locals.
LEMMA CutKeeps ==
  ASSUME Given, EInv
  PROVE  LET rec == Loaded(trace)
             n == Len(rec.steps)
         IN  /\ n \in Nat /\ Len(st.steps) \in Nat /\ n <= Len(st.steps)
             /\ \A i \in 1..n : rec.steps[i] = st.steps[i]
             /\ Grown(rec.decisions, st.decisions, n)
             /\ GrownSignals(rec.signals, st.signals, n)
             /\ Grown(rec.evidence, st.evidence, n)
             /\ Grown(rec.artifacts, st.artifacts, n)
<1> DEFINE rec == Loaded(trace)
           n == Len(rec.steps)
<1>0. AnySeq(rec.steps) /\ n \in Nat
  BY Appended DEF EInv, Shaped
<1>3. CASE pc = "escaped"
  <2>1. Len(st.steps) \in Nat /\ Len(st.steps) + 1 > Len(st.steps)
    BY Appended DEF EInv, Locals
  <2>2. Extends(rec, Record(st), Len(st.steps))
    BY <1>3, <2>1, Shown DEF EInv, OutOfTheLoop
  <2> HIDE DEF rec
  <2>3. /\ st.steps = rec.steps
        /\ Grown(rec.decisions, st.decisions, Len(st.steps))
        /\ GrownSignals(rec.signals, st.signals, Len(st.steps))
        /\ Grown(rec.evidence, st.evidence, Len(st.steps))
        /\ Grown(rec.artifacts, st.artifacts, Len(st.steps))
    BY <2>2 DEF Extends, Record
  <2> QED
    BY <1>0, <2>1, <2>3 DEF rec
<1>1. CASE pc # "escaped" /\ OfStep(todo, Len(st.steps))
  <2>1. PICK F, x : todo = Append(F, StepEvent(x)) /\ Pieces(F, Len(st.steps))
    BY <1>1 DEF OfStep
  <2> DEFINE t == Loaded(trace \o F)
  <2>2. AnySeq(F) /\ AnySeq(trace \o F)
    BY <2>1, Concatenated DEF Pieces, EInv
  <2>3. trace \o todo = Append(trace \o F, StepEvent(x))
    BY <2>1, <2>2, Concatenated DEF EInv
  <2>4. Record(st) = Read(t, StepEvent(x))
    BY <2>2, <2>3, LoadedAppend DEF EInv
  <2>5. Len(st.steps) \in Nat
    BY Appended DEF EInv, Locals
  <2>6. Extends(rec, t, Len(st.steps) - 1)
    <3>1. Len(st.steps) # 0
      BY <1>1 DEF OfStep
    <3>2. Len(st.steps) - 1 \in Nat /\ Len(st.steps) > Len(st.steps) - 1
      BY <2>5, <3>1
    <3> QED
      BY <2>1, <2>5, <3>2, Shown DEF EInv
  <2> DEFINE u == [t EXCEPT !.steps = Append(t.steps, x)]
  <2>7. Record(st) = u
    BY <2>4 DEF Read, StepEvent
  <2> HIDE DEF t, rec
  <2>8. /\ u.steps = Append(t.steps, x) /\ u.decisions = t.decisions
        /\ u.signals = t.signals /\ u.evidence = t.evidence /\ u.artifacts = t.artifacts
    BY <2>6 DEF Extends, Shaped
  <2> HIDE DEF u
  <2>9. /\ st.steps = Append(rec.steps, x) /\ st.decisions = t.decisions
        /\ st.signals = t.signals /\ st.evidence = t.evidence /\ st.artifacts = t.artifacts
    BY <2>6, <2>7, <2>8 DEF Record, Extends
  <2>10. /\ Len(st.steps) = n + 1
         /\ \A i \in 1..n : st.steps[i] = rec.steps[i]
    BY <1>0, <2>9, Appended
  <2>11. Len(st.steps) - 1 = n
    BY <1>0, <2>10
  <2> QED
    BY <1>0, <2>6, <2>9, <2>10, <2>11 DEF Extends, rec
<1>2. CASE pc # "escaped" /\ ~OfStep(todo, Len(st.steps))
  <2>1. trace \o << >> = trace
    BY Concatenated, EmptyIsSeq DEF EInv
  <2>2. rec = Record(st)
    <3>1. CASE todo = << >>
      BY <2>1, <3>1 DEF EInv
    <3>2. CASE Marker(todo)
      <4>1. PICK e : todo = <<e>> /\ e.type \in {"run_start", "run_end"}
        BY <3>2 DEF Marker
      <4>2. trace \o <<e>> = Append(trace, e) /\ Loaded(Append(trace, e)) = Read(rec, e)
        BY Concatenated, EmptyIsSeq, LoadedAppend DEF EInv
      <4>3. Read(rec, e) = rec
        BY <4>1 DEF Read
      <4> QED
        BY <4>1, <4>2, <4>3 DEF EInv
    <3> QED
      BY <1>2, <3>1, <3>2 DEF EInv, InTheLoop, Todo
  <2> HIDE DEF rec
  <2>3. /\ rec.steps = st.steps /\ rec.decisions = st.decisions
        /\ rec.signals = st.signals /\ rec.evidence = st.evidence /\ rec.artifacts = st.artifacts
    BY <2>2 DEF Record
  <2>4. /\ AnySeq(st.decisions) /\ AnySeq(st.signals) /\ AnySeq(st.evidence)
        /\ AnySeq(st.artifacts)
    BY DEF EInv, Locals
  <2>5. /\ Grown(st.decisions, st.decisions, n) /\ GrownSignals(st.signals, st.signals, n)
        /\ Grown(st.evidence, st.evidence, n) /\ Grown(st.artifacts, st.artifacts, n)
    BY <2>4, NotGrown
  <2> QED
    BY <1>0, <2>3, <2>5 DEF rec
<1> QED
  BY <1>1, <1>2, <1>3

-----------------------------------------------------------------------------
\* A trace is flushed line by line, and the store is saved from the locals; at
\* the end the two hold the same record, through any crashes and restarts.
THEOREM FinishedTraceIsRecord == ASSUME Given PROVE ExecSpec => []TraceIsRecord
<1>1. ExecInit => EInv
  BY EInvInit
<1>2. EInv /\ [ExecNext]_exec_vars => EInv'
  BY EInvNext
<1>3. EInv => TraceIsRecord
  BY Concatenated, EmptyIsSeq DEF EInv, TraceIsRecord, Ended
<1> QED
  BY <1>1, <1>2, <1>3, PTL DEF ExecSpec

\* The events of a step go out before the step's own: what a cut trace shows of
\* a step it shows with the decision, the signal, the evidence and the artifact.
THEOREM CutTracesAreSound == ASSUME Given PROVE ExecSpec => []CutTraceIsSound
<1>1. ExecInit => EInv
  BY EInvInit
<1>2. EInv /\ [ExecNext]_exec_vars => EInv'
  BY EInvNext
<1>3. ASSUME EInv
      PROVE  CutTraceIsSound
  <2> DEFINE rec == Loaded(trace)
             n == Len(rec.steps)
  <2>1. /\ n \in Nat
        /\ Grown(rec.decisions, st.decisions, n) /\ GrownSignals(rec.signals, st.signals, n)
        /\ Grown(rec.evidence, st.evidence, n) /\ Grown(rec.artifacts, st.artifacts, n)
    BY <1>3, CutKeeps
  <2> HIDE DEF rec, n
  <2>2. ASSUME NEW part, NEW whole, Grown(part, whole, n)
        PROVE  /\ Len(part) <= Len(whole) /\ \A i \in 1..Len(part) : part[i] = whole[i]
               /\ \A i \in 1..Len(whole) : whole[i].step <= n => i <= Len(part)
    <3>1. ASSUME NEW i \in 1..Len(whole), whole[i].step <= n
          PROVE  i <= Len(part)
      BY <2>1, <2>2, <3>1 DEF Grown
    <3> QED
      BY <2>2, <3>1 DEF Grown
  <2>3. ASSUME NEW i \in 1..Len(st.signals), st.signals[i] <= n
        PROVE  i <= Len(rec.signals)
    BY <2>1, <2>3 DEF GrownSignals
  <2> QED
    BY <2>1, <2>2, <2>3 DEF CutTraceIsSound, rec, n
<1> QED
  BY <1>1, <1>2, <1>3, PTL DEF ExecSpec

\* No policy, script or failure of a tool lets the workspace change without a
\* step that says so, that was not denied, and whose evidence is kept.
THEOREM AllChangesAreAccounted == ASSUME Given PROVE ExecSpec => []ChangesAreAccounted
<1>1. ExecInit => EInv
  BY EInvInit
<1>2. EInv /\ [ExecNext]_exec_vars => EInv'
  BY EInvNext
<1>3. EInv => ChangesAreAccounted
  BY DEF EInv, InTheLoop, OutOfTheLoop, Accounts, Accounted, ChangesAreAccounted
<1> QED
  BY <1>1, <1>2, <1>3, PTL DEF ExecSpec

\* Replay of the header's script and policy on a fresh workspace diverges from a
\* trace only where the trace stops.
THEOREM ReplayFindsOnlyTheCut == ASSUME Given PROVE ExecSpec => []ReplayFindsTheCut
<1>1. ExecInit => EInv
  BY EInvInit
<1>2. EInv /\ [ExecNext]_exec_vars => EInv'
  BY EInvNext
<1>3. ASSUME EInv, pc # "escaped"
      PROVE  ReplayFindsTheCut
  <2> DEFINE rec == Loaded(trace)
             n == Len(rec.steps)
             m == Len(script)
             l == Len(st.steps)
             new == Fresh(m)
  <2>1. m \in Nat /\ l <= m
    BY <1>3, Appended DEF EInv, InTheLoop, Given
  <2>2. /\ n \in Nat /\ l \in Nat /\ n <= l
        /\ \A i \in 1..n : rec.steps[i] = st.steps[i]
        /\ Grown(rec.decisions, st.decisions, n)
    BY <1>3, CutKeeps
  <2>3. st = Executed(script, policy, ws0, l)
    BY <1>3 DEF EInv, InTheLoop
  <2>4. new = Executed(script, policy, ws0, m)
    BY DEF Fresh, ReplayWorkspace
  <2> HIDE DEF l, m, n, rec, new
  <2>5. Len(new.steps) = m /\ Ahead(st, new, l)
    BY <2>1, <2>2, <2>3, <2>4, ExecutionGrows
  <2>6. \A i \in 1..n : rec.steps[i] = new.steps[i]
    BY <2>1, <2>2, <2>5 DEF Ahead
  <2>7. Grown(rec.decisions, new.decisions, n)
    BY <2>1, <2>2, <2>5, GrownTwice DEF Ahead
  <2>8. \A i \in 1..n : DecisionAt(rec.decisions, i) = DecisionAt(new.decisions, i)
    BY <2>2, <2>7, DecisionStays
  <2>9. Divergences(trace) = {<<i, "extra_step">> : i \in (n + 1)..m}
    BY <2>5, <2>6, <2>8 DEF Divergences, rec, new, n, m
  <2> QED
    BY <2>9 DEF ReplayFindsTheCut, n, m, rec
<1>4. ASSUME EInv, pc = "escaped"
      PROVE  ReplayFindsTheCut
  BY <1>4 DEF EInv, OutOfTheLoop, ReplayFindsTheCut
<1>5. EInv => ReplayFindsTheCut
  BY <1>3, <1>4
<1> QED
  BY <1>1, <1>2, <1>5, PTL DEF ExecSpec
=============================================================================
