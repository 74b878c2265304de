------------------------ MODULE InterventionsProofs ------------------------
(* Proofs about Interventions, for any diagnosed rows, quotas and limits,  *)
(* any answers of the model and any reports of the evaluation, however     *)
(* often an arm dies.                                                      *)
(*                                                                         *)
(* Three parts: the planner as a function of the rows; the hooks, whose    *)
(* hits are kept in what an arm left when it ended; and the gates, counts  *)
(* over a summary each of whose rows rests on the hits of its pair.        *)
EXTENDS Interventions, SequenceTheorems, FiniteSetTheorems, WellFoundedInduction, TLAPS

\* A file of diagnosed rows is a list; scores, families, tasks and streaks are numbers
\* and a prefix has a length.  Quotas are counts.
DiagnosedRow(row) == /\ row.score \in Int /\ row.family \in Int /\ row.task \in Int
                     /\ row.streak \in Int /\ row.prefix \in Nat
DiagnosedList(records) == /\ Len(records) \in Nat /\ DOMAIN records = 1..Len(records)
                          /\ \A i \in DOMAIN records : DiagnosedRow(records[i])
Plannable == /\ \A file \in Files : DiagnosedList(file)
             /\ \A r \in Roles : ROLE_POLICY_QUOTAS[r] \in Nat

-----------------------------------------------------------------------------
(* Induction.                                                              *)

LEMMA LeastNumber ==
  ASSUME NEW T \in SUBSET Nat, T # {}
  PROVE  \E n \in T : \A m \in T : n <= m
<1> DEFINE R == OpToRel(<, Nat)
<1>1. \A x, y \in Nat : <<y, x>> \in R <=> y < x
  BY DEF OpToRel
<1>2. IsWellFoundedOn(R, Nat)
  BY NatLessThanWellFounded
<1> HIDE DEF R
<1>3. \E x \in T : \A y \in T : ~(<<y, x>> \in R)
  BY <1>2, WFMin
<1>4. PICK n \in T : \A y \in T : ~(<<y, n>> \in R)
  BY <1>3
<1>5. \A m \in T : ~(m < n)
  BY <1>1, <1>4
<1> QED
  BY <1>5

LEMMA Induction ==
  ASSUME NEW S, 0 \in S, \A n \in Nat : n \in S => n + 1 \in S
  PROVE  Nat \subseteq S
<1> DEFINE T == Nat \ S
<1>0. T \in SUBSET Nat
  OBVIOUS
<1>1. ASSUME T # {}
      PROVE  FALSE
  <2> HIDE DEF T
  <2>1. PICK n \in T : \A m \in T : n <= m
    BY <1>0, <1>1, LeastNumber
  <2>2. n # 0 /\ n \in Nat
    BY <2>1 DEF T
  <2>3. n - 1 \in Nat /\ n - 1 \notin T
    BY <2>1, <2>2
  <2>4. n - 1 \in S
    BY <2>3 DEF T
  <2>5. (n - 1) + 1 = n
    BY <2>2
  <2> QED
    BY <2>1, <2>3, <2>4, <2>5 DEF T
<1> QED
  BY <1>1

-----------------------------------------------------------------------------
(* Rows of a slot are taken up in an order: of some, one comes first.      *)

LEMMA SortKeyIsTotal ==
  ASSUME NEW records, NEW i \in Int, NEW j \in Int, i # j,
         DiagnosedRow(records[i]), DiagnosedRow(records[j])
  PROVE  _sort_key(records, i, j) \/ _sort_key(records, j, i)
BY DEF _sort_key, DiagnosedRow

LEMMA SortKeyIsTransitive ==
  ASSUME NEW records, NEW i \in Int, NEW j \in Int, NEW k \in Int,
         DiagnosedRow(records[i]), DiagnosedRow(records[j]), DiagnosedRow(records[k]),
         _sort_key(records, i, j), _sort_key(records, j, k)
  PROVE  _sort_key(records, i, k)
BY DEF _sort_key, DiagnosedRow

Leads(records, S, i) == \A j \in S \ {i} : _sort_key(records, i, j)

LEMMA FirstExists ==
  ASSUME NEW records, DiagnosedList(records), NEW S, S \subseteq DOMAIN records, S # {}
  PROVE  \E i \in S : Leads(records, S, i)
<1> DEFINE Led(n) == \A T \in SUBSET (DOMAIN records \cap 1..n) :
                       T # {} => \E i \in T : Leads(records, T, i)
           N == {n \in Nat : Led(n)}
<1>1. 0 \in N
  <2>1. 1..0 = {}
    OBVIOUS
  <2> QED
    BY <2>1
<1>2. ASSUME NEW n \in Nat, n \in N
      PROVE  n + 1 \in N
  <2> SUFFICES ASSUME NEW T \in SUBSET (DOMAIN records \cap 1..(n + 1)), T # {}
               PROVE  \E i \in T : Leads(records, T, i)
    OBVIOUS
  <2> DEFINE U == T \ {n + 1}
  <2>1. U \in SUBSET (DOMAIN records \cap 1..n)
    OBVIOUS
  <2>2. CASE U = {}
    <3>1. T = {n + 1}
      BY <2>2
    <3> QED
      BY <3>1 DEF Leads
  <2>3. CASE U # {}
    <3>1. PICK i \in U : Leads(records, U, i)
      BY <1>2, <2>1, <2>3
    <3>2. CASE n + 1 \notin T
      <4>1. T = U
        BY <3>2
      <4> QED
        BY <3>1, <4>1
    <3>3. CASE n + 1 \in T
      <4>1. /\ i \in Int /\ n + 1 \in Int /\ i # n + 1
            /\ \A j \in T : j \in Int /\ DiagnosedRow(records[j])
        BY DEF DiagnosedList
      <4>2. i \in T
        OBVIOUS
      <4>3. CASE _sort_key(records, i, n + 1)
        BY <3>1, <4>2, <4>3 DEF Leads
      <4>4. CASE _sort_key(records, n + 1, i)
        <5>1. ASSUME NEW j \in T \ {n + 1}
              PROVE  _sort_key(records, n + 1, j)
          <6>1. CASE j = i
            BY <4>4, <6>1
          <6>2. CASE j # i
            <7>1. _sort_key(records, i, j)
              BY <3>1, <6>2 DEF Leads
            <7> QED
              BY <3>3, <4>1, <4>2, <4>4, <7>1, SortKeyIsTransitive
          <6> QED
            BY <6>1, <6>2
        <5> QED
          BY <3>3, <5>1 DEF Leads
      <4> QED
        BY <3>3, <4>1, <4>2, <4>3, <4>4, SortKeyIsTotal
    <3> QED
      BY <3>2, <3>3
  <2> QED
    BY <2>2, <2>3
<1> HIDE DEF N
<1>3. Nat \subseteq N
  BY <1>1, <1>2, Induction
<1>4. Len(records) \in N /\ S \in SUBSET (DOMAIN records \cap 1..Len(records))
  BY <1>3 DEF DiagnosedList
<1> QED
  BY <1>4 DEF N

LEMMA FirstIsCandidate ==
  ASSUME NEW records, DiagnosedList(records), NEW S, S \subseteq DOMAIN records, S # {}
  PROVE  FirstOf(records, S) \in S
<1>1. \E i \in S : Leads(records, S, i)
  BY FirstExists
<1> QED
  BY <1>1 DEF FirstOf, Leads

-----------------------------------------------------------------------------
(* What a pass adds to the selection of the earlier slots.                 *)

Picks(records) == [row : DOMAIN records, role : Roles, policy : Range(Policies)]
TaskOfPick(records, pick) == records[pick.row].task

\* taken goes on from the selection base, with rows of C, each once.
Continues(base, taken) == /\ Len(base) <= Len(taken)
                          /\ \A k \in 1..Len(base) : taken[k] = base[k]
Added(base, taken) == (Len(base) + 1)..Len(taken)
AddedFrom(base, taken, C, role, policy) ==
  /\ \A k \in Added(base, taken) :
       taken[k].role = role /\ taken[k].policy = policy /\ taken[k].row \in C
  /\ \A j, k \in Added(base, taken) : j # k => taken[j].row # taken[k].row

\* During a pass: the first has added rows it has gone through, the second has passed
\* over tasks that were used, unless the slot is full.
Through(records, pass, role, policy, full, base, C, s) ==
  /\ s.taken \in Seq(Picks(records)) /\ s.left \subseteq C
  /\ Continues(base, s.taken) /\ AddedFrom(base, s.taken, C, role, policy)
  /\ Len(s.taken) <= full
  /\ pass = "capped" => \A k \in Added(base, s.taken) : s.taken[k].row \notin s.left
  /\ pass = "free" /\ Len(s.taken) < full =>
       \A i \in C \ s.left : records[i].task \in used_tasks(records, s.taken)

\* The rows taken from, and the slot they are taken for.
Filling(records, pass, role, policy, full, base, C) ==
  /\ DiagnosedList(records) /\ C \subseteq DOMAIN records
  /\ pass \in {"capped", "free"} /\ role \in Roles /\ policy \in Range(Policies)
  /\ full \in Nat /\ base \in Seq(Picks(records))

LEMMA UsedIfPicked ==
  ASSUME NEW records, NEW s, NEW k \in DOMAIN s
  PROVE  records[s[k].row].task \in used_tasks(records, s)
BY DEF used_tasks

LEMMA AppendedPick ==
  ASSUME NEW C, NEW s \in Seq(C), NEW x \in C
  PROVE  /\ Append(s, x) \in Seq(C) /\ Len(Append(s, x)) = Len(s) + 1
         /\ Len(s) \in Nat /\ DOMAIN s = 1..Len(s) /\ DOMAIN Append(s, x) = 1..(Len(s) + 1)
         /\ \A k \in 1..Len(s) : Append(s, x)[k] = s[k]
         /\ Append(s, x)[Len(s) + 1] = x
BY AppendProperties, LenProperties

\* A row the pass may take is none of those the slot has.
LEMMA TakenIsNew ==
  ASSUME NEW records, NEW pass, NEW role, NEW policy, NEW full, NEW base, NEW C, NEW s,
         Filling(records, pass, role, policy, full, base, C),
         Through(records, pass, role, policy, full, base, C, s),
         NEW i \in s.left, MayTake(records, pass, s.taken, role, i),
         NEW k \in Added(base, s.taken)
  PROVE  s.taken[k].row # i
<1>1. CASE pass = "capped"
  BY <1>1 DEF Through
<1>2. CASE pass = "free"
  <2>1. records[i].task \notin used_tasks(records, s.taken)
    BY <1>2 DEF MayTake
  <2>2. s.taken \in Seq(Picks(records)) /\ Len(base) \in Nat
    BY LenProperties DEF Through, Filling
  <2>3. k \in DOMAIN s.taken
    BY <2>2, LenProperties DEF Added
  <2> QED
    BY <2>1, <2>3, UsedIfPicked
<1> QED
  BY <1>1, <1>2 DEF Filling

LEMMA TakeNextGoesThrough ==
  ASSUME NEW records, NEW pass, NEW role, NEW policy, NEW full, NEW base, NEW C, NEW s,
         Filling(records, pass, role, policy, full, base, C),
         Through(records, pass, role, policy, full, base, C, s), s.left # {}
  PROVE  /\ Through(records, pass, role, policy, full, base, C,
                    TakeNext(records, pass, role, policy, full, s))
         /\ \E i \in s.left : TakeNext(records, pass, role, policy, full, s).left = s.left \ {i}
<1> DEFINE i == FirstOf(records, s.left)
           pick == [row |-> i, role |-> role, policy |-> policy]
           t == TakeNext(records, pass, role, policy, full, s)
           takes == Len(s.taken) < full /\ MayTake(records, pass, s.taken, role, i)
<1>1. i \in s.left /\ s.left \subseteq C /\ C \subseteq DOMAIN records
  BY FirstIsCandidate DEF Filling, Through
<1>2. t.taken = (IF takes THEN Append(s.taken, pick) ELSE s.taken) /\ t.left = s.left \ {i}
  BY DEF TakeNext
<1>3. /\ pick \in Picks(records) /\ pick.row = i /\ pick.role = role /\ pick.policy = policy
      /\ s.taken \in Seq(Picks(records))
  BY <1>1 DEF Picks, Filling, Through
<1>4. /\ Len(base) \in Nat /\ Len(s.taken) \in Nat /\ full \in Nat /\ Len(base) <= Len(s.taken)
      /\ DOMAIN s.taken = 1..Len(s.taken) /\ pass \in {"capped", "free"}
  BY <1>3, LenProperties DEF Filling, Through, Continues
<1> HIDE DEF pick
<1>5. CASE takes
  <2>1. /\ t.taken \in Seq(Picks(records)) /\ Len(t.taken) = Len(s.taken) + 1
        /\ DOMAIN t.taken = 1..(Len(s.taken) + 1)
        /\ \A k \in 1..Len(s.taken) : t.taken[k] = s.taken[k]
        /\ t.taken[Len(s.taken) + 1] = pick
    BY <1>2, <1>3, <1>5, AppendedPick
  <2>2. \A k \in Added(base, s.taken) : s.taken[k].row # i
    BY <1>1, <1>5, TakenIsNew
  <2>3. \A k \in Added(base, t.taken) :
          \/ k \in Added(base, s.taken) /\ t.taken[k] = s.taken[k]
          \/ k = Len(s.taken) + 1 /\ t.taken[k] = pick
    BY <1>4, <2>1 DEF Added
  <2> HIDE DEF t, i, takes
  <2>4. Continues(base, t.taken)
    BY <1>4, <2>1 DEF Through, Continues
  <2>5. AddedFrom(base, t.taken, C, role, policy)
    <3>1. AddedFrom(base, s.taken, C, role, policy)
      BY DEF Through
    <3>2. \A k \in Added(base, t.taken) :
            t.taken[k].role = role /\ t.taken[k].policy = policy /\ t.taken[k].row \in C
      BY <1>1, <1>3, <2>3, <3>1 DEF AddedFrom
    <3>3. \A j, k \in Added(base, t.taken) : j # k => t.taken[j].row # t.taken[k].row
      BY <1>3, <2>2, <2>3, <3>1 DEF AddedFrom
    <3> QED
      BY <3>2, <3>3 DEF AddedFrom
  <2>6. Len(t.taken) <= full
    BY <1>4, <1>5, <2>1 DEF takes
  <2>7. ASSUME pass = "capped"
        PROVE  \A k \in Added(base, t.taken) : t.taken[k].row \notin t.left
    <3>1. \A k \in Added(base, s.taken) : s.taken[k].row \notin s.left
      BY <2>7 DEF Through
    <3> QED
      BY <1>2, <1>3, <2>3, <3>1
  <2>8. ASSUME pass = "free", Len(t.taken) < full
        PROVE  \A j \in C \ t.left : records[j].task \in used_tasks(records, t.taken)
    <3>1. \A j \in C \ s.left : records[j].task \in used_tasks(records, s.taken)
      BY <1>4, <2>1, <2>8 DEF Through
    <3>2. used_tasks(records, s.taken) \subseteq used_tasks(records, t.taken)
      BY <1>4, <2>1 DEF used_tasks
    <3>3. records[i].task \in used_tasks(records, t.taken)
      <4>1. Len(s.taken) + 1 \in DOMAIN t.taken /\ t.taken[Len(s.taken) + 1].row = i
        BY <1>3, <1>4, <2>1
      <4> QED
        BY <4>1, UsedIfPicked
    <3> QED
      BY <1>2, <3>1, <3>2, <3>3
  <2>9. t.left \subseteq C
    BY <1>1, <1>2
  <2>10. Through(records, pass, role, policy, full, base, C, t)
    BY <2>1, <2>4, <2>5, <2>6, <2>7, <2>8, <2>9 DEF Through
  <2> QED
    BY <1>1, <1>2, <2>10 DEF t
<1>6. CASE ~takes
  <2> HIDE DEF t, i
  <2>1. t.taken = s.taken /\ t.left \subseteq s.left
    BY <1>2, <1>6
  <2>2. ASSUME pass = "free", Len(s.taken) < full
        PROVE  \A j \in C \ t.left : records[j].task \in used_tasks(records, s.taken)
    <3>1. records[i].task \in used_tasks(records, s.taken)
      BY <1>6, <2>2 DEF MayTake
    <3>2. \A j \in C \ s.left : records[j].task \in used_tasks(records, s.taken)
      BY <2>2 DEF Through
    <3> QED
      BY <1>2, <3>1, <3>2
  <2> HIDE DEF takes
  <2>3. Through(records, pass, role, policy, full, base, C, t)
    BY <2>1, <2>2 DEF Through
  <2> QED
    BY <1>1, <1>2, <2>3 DEF t
<1> QED
  BY <1>5, <1>6

\* What a pass has taken and left after each candidate.
PassRuns(f, records, pass, role, policy, full, selected, C, n) ==
  f = [k \in 0..n |-> IF k = 0 THEN [taken |-> selected, left |-> C]
                     ELSE TakeNext(records, pass, role, policy, full, f[k - 1])]

\* A recursive definition that looks one number back defines something.
LEMMA PassExists ==
  ASSUME NEW records, NEW pass, NEW role, NEW policy, NEW full, NEW selected, NEW C,
         NEW n \in Nat
  PROVE  \E f : PassRuns(f, records, pass, role, policy, full, selected, C, n)
<1> DEFINE Runs(f, m) == PassRuns(f, records, pass, role, policy, full, selected, C, m)
           Step(s) == TakeNext(records, pass, role, policy, full, s)
           first == [taken |-> selected, left |-> C]
           S == {m \in Nat : \E f : Runs(f, m)}
<1>0. \A f, m : Runs(f, m) <=>
                 (f = [k \in 0..m |-> IF k = 0 THEN first ELSE Step(f[k - 1])])
  BY DEF PassRuns
<1> HIDE DEF Runs, Step, first
<1>1. 0 \in S
  <2> DEFINE f == [k \in 0..0 |-> first]
             h == [k \in 0..0 |-> IF k = 0 THEN first ELSE Step(f[k - 1])]
  <2>1. f = h
    OBVIOUS
  <2>2. Runs(f, 0)
    BY <1>0, <2>1
  <2> QED
    BY <2>2
<1>2. ASSUME NEW m \in Nat, NEW f, Runs(f, m)
      PROVE  \E g : Runs(g, m + 1)
  <2> DEFINE g == [k \in 0..m + 1 |-> IF k <= m THEN f[k] ELSE Step(f[m])]
             h == [k \in 0..m + 1 |-> IF k = 0 THEN first ELSE Step(g[k - 1])]
  <2>1. ASSUME NEW k \in 0..m + 1
        PROVE  g[k] = h[k]
    <3>0. f = [j \in 0..m |-> IF j = 0 THEN first ELSE Step(f[j - 1])]
      BY <1>0, <1>2
    <3>1. CASE k = 0
      <4>1. g[k] = f[k] /\ h[k] = first
        BY <3>1
      <4> QED
        BY <3>0, <3>1, <4>1
    <3>2. CASE k \in 1..m
      <4>1. g[k] = f[k] /\ g[k - 1] = f[k - 1]
        BY <3>2
      <4>2. f[k] = Step(f[k - 1])
        BY <3>0, <3>2
      <4> QED
        BY <3>2, <4>1, <4>2
    <3>3. CASE k = m + 1
      <4>1. g[k] = Step(f[m]) /\ g[k - 1] = f[m]
        BY <3>3
      <4> QED
        BY <3>3, <4>1
    <3> QED
      BY <3>1, <3>2, <3>3
  <2>2. g = h
    BY <2>1
  <2>3. Runs(g, m + 1)
    BY <1>0, <2>2
  <2> QED
    BY <2>3
<1>3. \A m \in Nat : m \in S => m + 1 \in S
  BY <1>2
<1> HIDE DEF S
<1>4. Nat \subseteq S
  BY <1>1, <1>3, Induction
<1> QED
  BY <1>4 DEF S, Runs

\* A pass goes through all candidates.
LEMMA PassGoesThrough ==
  ASSUME NEW records, NEW pass, NEW role, NEW policy, NEW full, NEW base, NEW C, NEW selected,
         Filling(records, pass, role, policy, full, base, C),
         Through(records, pass, role, policy, full, base, C, [taken |-> selected, left |-> C])
  PROVE  \E s : /\ Through(records, pass, role, policy, full, base, C, s) /\ s.left = {}
               /\ s.taken = Pass(records, pass, role, policy, full, selected, C)
<1> DEFINE n == Cardinality(C)
           f == CHOOSE g : PassRuns(g, records, pass, role, policy, full, selected, C, n)
<1>1. IsFiniteSet(C) /\ n \in Nat
  <2>1. IsFiniteSet(1..Len(records)) /\ C \in SUBSET (1..Len(records))
    BY FS_Interval DEF Filling, DiagnosedList
  <2> QED
    BY <2>1, FS_Subset, FS_CardinalityType
<1>2. f[n].taken = Pass(records, pass, role, policy, full, selected, C)
  BY DEF Pass, PassRuns
<1> HIDE DEF n
<1>3. PassRuns(f, records, pass, role, policy, full, selected, C, n)
  BY <1>1, PassExists
<1> HIDE DEF f
<1> DEFINE S == {k \in Nat : k <= n => /\ Through(records, pass, role, policy, full, base, C, f[k])
                                     /\ IsFiniteSet(f[k].left)
                                     /\ Cardinality(f[k].left) = n - k}
<1>4. 0 \in S
  <2>1. f[0] = [taken |-> selected, left |-> C]
    BY <1>1, <1>3 DEF PassRuns
  <2> QED
    BY <1>1, <2>1 DEF n
<1>5. ASSUME NEW k \in Nat, k \in S
      PROVE  k + 1 \in S
  <2> SUFFICES ASSUME k + 1 <= n
               PROVE  k + 1 \in S
    OBVIOUS
  <2>1. /\ Through(records, pass, role, policy, full, base, C, f[k])
        /\ IsFiniteSet(f[k].left) /\ Cardinality(f[k].left) = n - k
    BY <1>1, <1>5
  <2>2. f[k].left # {}
    BY <1>1, <2>1, FS_EmptySet
  <2>3. k + 1 \in 0..n /\ k + 1 # 0 /\ (k + 1) - 1 = k
    BY <1>1
  <2>4. f[k + 1] = TakeNext(records, pass, role, policy, full, f[k])
    BY <1>3, <2>3 DEF PassRuns
  <2> DEFINE s == f[k]
             t == TakeNext(records, pass, role, policy, full, s)
  <2>t. /\ Through(records, pass, role, policy, full, base, C, t)
        /\ \E i \in s.left : t.left = s.left \ {i}
    <3> HIDE DEF s
    <3> QED
      BY <2>1, <2>2, TakeNextGoesThrough DEF s
  <2>5. PICK i \in f[k].left : f[k + 1].left = f[k].left \ {i}
    <3> HIDE DEF t
    <3> QED
      BY <2>4, <2>t DEF s, t
  <2>6. IsFiniteSet(f[k + 1].left) /\ Cardinality(f[k + 1].left) = Cardinality(f[k].left) - 1
    BY <2>1, <2>5, FS_RemoveElement
  <2>7. Through(records, pass, role, policy, full, base, C, f[k + 1])
    BY <2>4, <2>t
  <2> QED
    BY <1>1, <2>1, <2>6, <2>7
<1> HIDE DEF S
<1>6. Nat \subseteq S
  BY <1>4, <1>5, Induction
<1>7. /\ Through(records, pass, role, policy, full, base, C, f[n])
      /\ IsFiniteSet(f[n].left) /\ Cardinality(f[n].left) = 0
  BY <1>1, <1>6 DEF S
<1>8. f[n].left = {}
  BY <1>7, FS_EmptySet
<1> QED
  BY <1>2, <1>7, <1>8

-----------------------------------------------------------------------------
(* What a slot adds.                                                       *)

SlotAdds(records, role, policy, base, t) ==
  /\ t \in Seq(Picks(records))
  /\ Continues(base, t)
  /\ AddedFrom(base, t, candidate_records(records, role, policy, base), role, policy)
  /\ Len(t) <= Len(base) + ROLE_POLICY_QUOTAS[role]
  /\ Len(t) < Len(base) + ROLE_POLICY_QUOTAS[role] =>
       \A i \in Slot(records, role, policy) : records[i].task \in used_tasks(records, t)

LEMMA SlotIsFilled ==
  ASSUME NEW records, DiagnosedList(records), NEW role \in Roles, NEW policy \in Range(Policies),
         ROLE_POLICY_QUOTAS[role] \in Nat, NEW base \in Seq(Picks(records))
  PROVE  SlotAdds(records, role, policy, base, select_records(records, role, policy, base))
<1> DEFINE full == Len(base) + ROLE_POLICY_QUOTAS[role]
           C == candidate_records(records, role, policy, base)
           capped == Pass(records, "capped", role, policy, full, base, C)
           t == Pass(records, "free", role, policy, full, capped, C)
<1>1. t = select_records(records, role, policy, base)
  BY DEF select_records
<1>2. Len(base) \in Nat /\ DOMAIN base = 1..Len(base) /\ full \in Nat /\ Len(base) <= full
  BY LenProperties
<1>3. C \subseteq Slot(records, role, policy) /\ Slot(records, role, policy) \subseteq DOMAIN records
  BY DEF candidate_records, Slot
<1>4. \A i \in Slot(records, role, policy) \ C : records[i].task \in used_tasks(records, base)
  BY DEF candidate_records
<1> HIDE DEF full, C, capped, t
<1>5. Filling(records, "capped", role, policy, full, base, C)
  BY <1>2, <1>3 DEF Filling
<1>6. Through(records, "capped", role, policy, full, base, C, [taken |-> base, left |-> C])
  <2>1. Added(base, base) = {}
    BY <1>2 DEF Added
  <2> QED
    BY <1>2, <2>1 DEF Through, Continues, AddedFrom
<1>7. PICK s : /\ Through(records, "capped", role, policy, full, base, C, s)
               /\ s.taken = capped
  BY <1>5, <1>6, PassGoesThrough DEF capped
<1>8. Through(records, "free", role, policy, full, base, C, [taken |-> capped, left |-> C])
  BY <1>7 DEF Through
<1>9. PICK u : /\ Through(records, "free", role, policy, full, base, C, u) /\ u.left = {}
               /\ u.taken = t
  <2>1. Filling(records, "free", role, policy, full, base, C)
    BY <1>5 DEF Filling
  <2>2. \E u : /\ Through(records, "free", role, policy, full, base, C, u) /\ u.left = {}
              /\ u.taken = Pass(records, "free", role, policy, full, capped, C)
    BY <1>8, <2>1, PassGoesThrough
  <2> QED
    BY <2>2 DEF t
<1>10. /\ t \in Seq(Picks(records)) /\ Continues(base, t) /\ Len(t) <= full
       /\ AddedFrom(base, t, C, role, policy)
       /\ Len(t) < full => \A i \in C : records[i].task \in used_tasks(records, t)
  BY <1>9 DEF Through
<1>11. used_tasks(records, base) \subseteq used_tasks(records, t)
  <2>1. Len(t) \in Nat /\ DOMAIN t = 1..Len(t)
    BY <1>10, LenProperties
  <2>2. Len(base) <= Len(t) /\ \A k \in 1..Len(base) : t[k] = base[k]
    BY <1>10 DEF Continues
  <2> QED
    BY <1>2, <2>1, <2>2 DEF used_tasks
<1>12. SlotAdds(records, role, policy, base, t)
  BY <1>4, <1>10, <1>11 DEF SlotAdds, full, C
<1> QED
  BY <1>1, <1>12

-----------------------------------------------------------------------------
(* The plan, slot after slot.                                              *)

OfSlot(s, m) == {k \in DOMAIN s : s[k].role = Slots[m].role /\ s[k].policy = Slots[m].policy}

SlotFair(records, s, m) ==
  \E lo, hi \in 0..Len(s) :
    /\ lo <= hi /\ OfSlot(s, m) = (lo + 1)..hi
    /\ hi - lo <= ROLE_POLICY_QUOTAS[Slots[m].role]
    /\ hi - lo < ROLE_POLICY_QUOTAS[Slots[m].role] =>
         \A i \in Slot(records, Slots[m].role, Slots[m].policy) :
           records[i].task \in used_tasks(records, s)

OneSlotPerTask(records, s) ==
  \A j, k \in DOMAIN s : j # k =>
    /\ s[j].row # s[k].row
    /\ records[s[j].row].task = records[s[k].row].task =>
         s[j].role = s[k].role /\ s[j].policy = s[k].policy

\* The selection when slots 1 to n are done.
Fair(records, s, n) ==
  /\ s \in Seq(Picks(records))
  /\ OneSlotPerTask(records, s)
  /\ \A k \in DOMAIN s : \E m \in 1..n : k \in OfSlot(s, m)
  /\ \A m \in 1..n : SlotFair(records, s, m)

LEMMA SlotsDiffer ==
  /\ \A m \in 1..8 : Slots[m].role \in Roles /\ Slots[m].policy \in Range(Policies)
  /\ \A l, m \in 1..8 : l # m => Slots[l].role # Slots[m].role \/ Slots[l].policy # Slots[m].policy
  /\ \A r \in Roles, c \in Range(Policies) : \E m \in 1..8 : Slots[m] = [role |-> r, policy |-> c]
<1> DEFINE P == Policies
<1>1. \A m \in 1..8 : m \in {1, 2, 3, 4, 5, 6, 7, 8}
  OBVIOUS
<1>2. /\ Slots[1] = [role |-> "failure_target", policy |-> "insert_validation_checkpoint"]
      /\ Slots[2] = [role |-> "failure_target", policy |-> "break_recurrence_and_replan"]
      /\ Slots[3] = [role |-> "failure_target", policy |-> "error_observation_recovery"]
      /\ Slots[4] = [role |-> "failure_target", policy |-> "same_action_escape"]
      /\ Slots[5] = [role |-> "success_sentinel", policy |-> "insert_validation_checkpoint"]
      /\ Slots[6] = [role |-> "success_sentinel", policy |-> "break_recurrence_and_replan"]
      /\ Slots[7] = [role |-> "success_sentinel", policy |-> "error_observation_recovery"]
      /\ Slots[8] = [role |-> "success_sentinel", policy |-> "same_action_escape"]
  BY DEF Slots, Policies
<1>3. Range(Policies) = {"insert_validation_checkpoint", "break_recurrence_and_replan",
                         "error_observation_recovery", "same_action_escape"}
  BY DEF Range, Policies
<1>4. \A m \in 1..8 : Slots[m].role \in Roles /\ Slots[m].policy \in Range(Policies)
  BY <1>1, <1>2, <1>3 DEF Roles
<1>5. \A l, m \in 1..8 : l # m =>
        Slots[l].role # Slots[m].role \/ Slots[l].policy # Slots[m].policy
  BY <1>1, <1>2
<1>6. \A r \in Roles, c \in Range(Policies) :
        \E m \in 1..8 : Slots[m] = [role |-> r, policy |-> c]
  BY <1>2, <1>3 DEF Roles
<1> QED
  BY <1>4, <1>5, <1>6

LEMMA SlotKeepsFair ==
  ASSUME Plannable, NEW records, DiagnosedList(records), NEW n \in 0..7, NEW base,
         Fair(records, base, n), NEW t,
         SlotAdds(records, Slots[n + 1].role, Slots[n + 1].policy, base, t)
  PROVE  Fair(records, t, n + 1)
<1> DEFINE b == Len(base)
           l == Len(t)
           role == Slots[n + 1].role
           policy == Slots[n + 1].policy
           C == candidate_records(records, role, policy, base)
<1>1. /\ base \in Seq(Picks(records)) /\ t \in Seq(Picks(records))
      /\ b \in Nat /\ DOMAIN base = 1..b /\ l \in Nat /\ DOMAIN t = 1..l
  BY LenProperties DEF Fair, SlotAdds
<1>2. b <= l /\ \A k \in 1..b : t[k] = base[k]
  BY DEF SlotAdds, Continues
<1>3. /\ \A k \in (b + 1)..l : t[k].role = role /\ t[k].policy = policy /\ t[k].row \in C
      /\ \A j, k \in (b + 1)..l : j # k => t[j].row # t[k].row
  BY DEF SlotAdds, AddedFrom, Added
<1>4. n + 1 \in 1..8 /\ ROLE_POLICY_QUOTAS[role] \in Nat /\ role \in Roles
  BY SlotsDiffer DEF Plannable
<1>5. l <= b + ROLE_POLICY_QUOTAS[role]
  BY DEF SlotAdds
<1>6. l < b + ROLE_POLICY_QUOTAS[role] =>
        \A i \in Slot(records, role, policy) : records[i].task \in used_tasks(records, t)
  BY DEF SlotAdds
<1>7. \A i \in C : records[i].task \notin used_tasks(records, base)
  BY DEF candidate_records
<1>8. used_tasks(records, base) \subseteq used_tasks(records, t)
  BY <1>1, <1>2 DEF used_tasks
<1> HIDE DEF b, l, role, policy, C
<1>9. \A k \in 1..b : \E m \in 1..n : k \in OfSlot(base, m)
  BY <1>1 DEF Fair
<1>10. \A k \in (b + 1)..l : k \in OfSlot(t, n + 1)
  BY <1>1, <1>3 DEF OfSlot, role, policy
<1>11. \A m \in 1..n : OfSlot(t, m) = OfSlot(base, m)
  <2> SUFFICES ASSUME NEW m \in 1..n
               PROVE  OfSlot(t, m) = OfSlot(base, m)
    OBVIOUS
  <2>1. m \in 1..8 /\ m # n + 1
    OBVIOUS
  <2>2. role # Slots[m].role \/ policy # Slots[m].policy
    BY <1>4, <2>1, SlotsDiffer DEF role, policy
  <2>3. ASSUME NEW k \in OfSlot(t, m)
        PROVE  k \in OfSlot(base, m)
    <3>1. k \in 1..l /\ k \notin (b + 1)..l
      BY <1>1, <1>3, <2>2 DEF OfSlot
    <3>2. k \in 1..b
      BY <1>1, <3>1
    <3> QED
      BY <1>1, <1>2, <3>2 DEF OfSlot
  <2>4. ASSUME NEW k \in OfSlot(base, m)
        PROVE  k \in OfSlot(t, m)
    <3>1. k \in 1..b /\ k \in 1..l
      BY <1>1, <1>2 DEF OfSlot
    <3> QED
      BY <1>1, <1>2, <3>1 DEF OfSlot
  <2> QED
    BY <2>3, <2>4
<1>12. OfSlot(t, n + 1) = (b + 1)..l
  <2>1. ASSUME NEW k \in OfSlot(t, n + 1)
        PROVE  k \in (b + 1)..l
    <3>1. k \in 1..l /\ t[k].role = role /\ t[k].policy = policy
      BY <1>1 DEF OfSlot, role, policy
    <3>2. CASE k \in 1..b
      <4>1. PICK m \in 1..n : k \in OfSlot(base, m)
        BY <1>9, <3>2
      <4>2. m \in 1..8 /\ m # n + 1
        OBVIOUS
      <4>3. role # Slots[m].role \/ policy # Slots[m].policy
        BY <1>4, <4>2, SlotsDiffer DEF role, policy
      <4> QED
        BY <1>2, <3>1, <3>2, <4>1, <4>3 DEF OfSlot
    <3> QED
      BY <1>1, <3>1, <3>2
  <2> QED
    BY <1>10, <2>1
<1>13. \A k \in DOMAIN t : \E m \in 1..n + 1 : k \in OfSlot(t, m)
  <2> SUFFICES ASSUME NEW k \in 1..l
               PROVE  \E m \in 1..n + 1 : k \in OfSlot(t, m)
    BY <1>1
  <2>1. CASE k \in 1..b
    <3>1. PICK m \in 1..n : k \in OfSlot(base, m)
      BY <1>9, <2>1
    <3> QED
      BY <1>11, <3>1
  <2>2. CASE k \notin 1..b
    <3>1. k \in (b + 1)..l /\ n + 1 \in 1..n + 1
      BY <1>1, <2>2
    <3> QED
      BY <1>12, <3>1
  <2> QED
    BY <2>1, <2>2
<1>14. OneSlotPerTask(records, t)
  <2> DEFINE task(k) == records[t[k].row].task
             Apart(j, k) == /\ t[j].row # t[k].row
                            /\ task(j) = task(k) => t[j].role = t[k].role /\ t[j].policy = t[k].policy
  <2>1. \A j, k \in 1..b : j # k => Apart(j, k)
    BY <1>1, <1>2 DEF Fair, OneSlotPerTask
  <2>2. \A j, k \in (b + 1)..l : j # k => Apart(j, k)
    BY <1>3
  <2>3. ASSUME NEW j \in 1..b, NEW k \in (b + 1)..l
        PROVE  Apart(j, k) /\ Apart(k, j)
    <3>1. task(j) \in used_tasks(records, base)
      BY <1>1, <1>2, UsedIfPicked
    <3>2. task(k) \notin used_tasks(records, base)
      BY <1>3, <1>7
    <3>3. task(j) # task(k)
      BY <3>1, <3>2
    <3> QED
      BY <3>3
  <2> HIDE DEF Apart
  <2>4. ASSUME NEW j \in 1..l, NEW k \in 1..l, j # k
        PROVE  Apart(j, k)
    <3>1. j \in 1..b \/ j \in (b + 1)..l
      BY <1>1
    <3>2. k \in 1..b \/ k \in (b + 1)..l
      BY <1>1
    <3> QED
      BY <2>1, <2>2, <2>3, <2>4, <3>1, <3>2
  <2> QED
    BY <1>1, <2>4 DEF OneSlotPerTask, Apart
<1>15. ASSUME NEW m \in 1..n
       PROVE  SlotFair(records, t, m)
  <2>1. PICK lo \in 0..b, hi \in 0..b :
          /\ lo <= hi /\ OfSlot(base, m) = (lo + 1)..hi
          /\ hi - lo <= ROLE_POLICY_QUOTAS[Slots[m].role]
          /\ hi - lo < ROLE_POLICY_QUOTAS[Slots[m].role] =>
               \A i \in Slot(records, Slots[m].role, Slots[m].policy) :
                 records[i].task \in used_tasks(records, base)
    BY DEF Fair, SlotFair, b
  <2>2. lo \in 0..l /\ hi \in 0..l
    BY <1>1, <1>2
  <2>3. OfSlot(t, m) = (lo + 1)..hi
    BY <1>11, <2>1
  <2>4. hi - lo < ROLE_POLICY_QUOTAS[Slots[m].role] =>
               \A i \in Slot(records, Slots[m].role, Slots[m].policy) :
                 records[i].task \in used_tasks(records, t)
    BY <1>8, <2>1
  <2> QED
    BY <2>1, <2>2, <2>3, <2>4 DEF SlotFair, l
<1>16. SlotFair(records, t, n + 1)
  <2>1. b \in 0..l /\ l \in 0..l
    BY <1>1, <1>2
  <2>2. l - b <= ROLE_POLICY_QUOTAS[role]
    BY <1>1, <1>4, <1>5
  <2>3. l - b < ROLE_POLICY_QUOTAS[role] =>
          \A i \in Slot(records, role, policy) : records[i].task \in used_tasks(records, t)
    BY <1>1, <1>4, <1>6
  <2> QED
    BY <1>2, <1>12, <2>1, <2>2, <2>3 DEF SlotFair, l, role, policy
<1>17. \A m \in 1..n + 1 : SlotFair(records, t, m)
  BY <1>15, <1>16
<1> QED
  BY <1>1, <1>13, <1>14, <1>17 DEF Fair

\* The selection after each slot.
PlanRuns(f, records, n) ==
  f = [k \in 0..n |-> IF k = 0 THEN << >>
                     ELSE select_records(records, Slots[k].role, Slots[k].policy, f[k - 1])]

LEMMA PlanExists ==
  ASSUME NEW records, NEW n \in Nat
  PROVE  \E f : PlanRuns(f, records, n)
<1> DEFINE Runs(f, m) == PlanRuns(f, records, m)
           Step(s, k) == select_records(records, Slots[k].role, Slots[k].policy, s)
           first == << >>
           S == {m \in Nat : \E f : Runs(f, m)}
<1>0. \A f, m : Runs(f, m) <=>
                 (f = [k \in 0..m |-> IF k = 0 THEN first ELSE Step(f[k - 1], k)])
  BY DEF PlanRuns
<1> HIDE DEF Runs, Step, first
<1>1. 0 \in S
  <2> DEFINE f == [k \in 0..0 |-> first]
             h == [k \in 0..0 |-> IF k = 0 THEN first ELSE Step(f[k - 1], k)]
  <2>1. f = h
    OBVIOUS
  <2>2. Runs(f, 0)
    BY <1>0, <2>1
  <2> QED
    BY <2>2
<1>2. ASSUME NEW m \in Nat, NEW f, Runs(f, m)
      PROVE  \E g : Runs(g, m + 1)
  <2> DEFINE g == [k \in 0..m + 1 |-> IF k <= m THEN f[k] ELSE Step(f[m], m + 1)]
             h == [k \in 0..m + 1 |-> IF k = 0 THEN first ELSE Step(g[k - 1], k)]
  <2>1. ASSUME NEW k \in 0..m + 1
        PROVE  g[k] = h[k]
    <3>0. f = [j \in 0..m |-> IF j = 0 THEN first ELSE Step(f[j - 1], j)]
      BY <1>0, <1>2
    <3>1. CASE k = 0
      <4>1. g[k] = f[k] /\ h[k] = first
        BY <3>1
      <4> QED
        BY <3>0, <3>1, <4>1
    <3>2. CASE k \in 1..m
      <4>1. g[k] = f[k] /\ g[k - 1] = f[k - 1]
        BY <3>2
      <4>2. f[k] = Step(f[k - 1], k)
        BY <3>0, <3>2
      <4> QED
        BY <3>2, <4>1, <4>2
    <3>3. CASE k = m + 1
      <4>1. g[k] = Step(f[m], m + 1) /\ g[k - 1] = f[m]
        BY <3>3
      <4> QED
        BY <3>3, <4>1
    <3> QED
      BY <3>1, <3>2, <3>3
  <2>2. g = h
    BY <2>1
  <2>3. Runs(g, m + 1)
    BY <1>0, <2>2
  <2> QED
    BY <2>3
<1>3. \A m \in Nat : m \in S => m + 1 \in S
  BY <1>2
<1> HIDE DEF S
<1>4. Nat \subseteq S
  BY <1>1, <1>3, Induction
<1> QED
  BY <1>4 DEF S, Runs

\* A plan is fair to every slot, whatever the rows: the quotas bound it, and a slot is
\* short only of tasks that are used (planner.py: build_pairs).
LEMMA BuiltPlanIsFair ==
  ASSUME Plannable, NEW records, DiagnosedList(records)
  PROVE  Fair(records, build_pairs(records), 8)
<1> DEFINE f == CHOOSE g : PlanRuns(g, records, 8)
           N == {n \in Nat : n <= 8 => Fair(records, f[n], n)}
<1>1. f[8] = build_pairs(records)
  BY DEF build_pairs, PlanRuns
<1>2. PlanRuns(f, records, 8)
  BY PlanExists
<1> HIDE DEF f
<1>3. 0 \in N
  <2>1. f[0] = << >>
    BY <1>2 DEF PlanRuns
  <2>2. Fair(records, << >>, 0)
    BY DEF Fair, OneSlotPerTask
  <2> QED
    BY <2>1, <2>2
<1>4. ASSUME NEW n \in Nat, n \in N
      PROVE  n + 1 \in N
  <2> SUFFICES ASSUME n + 1 <= 8
               PROVE  Fair(records, f[n + 1], n + 1)
    OBVIOUS
  <2>1. n \in 0..7 /\ n + 1 \in 1..8 /\ n + 1 \in 0..8 /\ n + 1 # 0 /\ (n + 1) - 1 = n
    OBVIOUS
  <2> DEFINE role == Slots[n + 1].role
             policy == Slots[n + 1].policy
             s == f[n]
  <2>2. f[n + 1] = select_records(records, role, policy, s)
    BY <1>2, <2>1 DEF PlanRuns
  <2>3. Fair(records, s, n)
    BY <1>4, <2>1
  <2>4. role \in Roles /\ policy \in Range(Policies) /\ ROLE_POLICY_QUOTAS[role] \in Nat
    BY <2>1, SlotsDiffer DEF Plannable
  <2>5. s \in Seq(Picks(records))
    BY <2>3 DEF Fair
  <2> HIDE DEF role, policy, s
  <2>6. SlotAdds(records, role, policy, s, f[n + 1])
    BY <2>2, <2>4, <2>5, SlotIsFilled
  <2> QED
    BY <2>1, <2>3, <2>6, SlotKeepsFair DEF role, policy
<1> HIDE DEF N
<1>5. Nat \subseteq N
  BY <1>3, <1>4, Induction
<1> QED
  BY <1>1, <1>5 DEF N

-----------------------------------------------------------------------------
(* The invariants.  Each part is about what a later step or a gate reads:  *)
(* the plan, what runs left of the arms of the plan, what the evaluation   *)
(* wrote of the pairs.                                                     *)

\* The package is the plan of the rows.
Planned == rows \in Files /\ pairs \in {<< >>, build_pairs(rows)}

Arms == (DOMAIN pairs) \X {"control", "intervention"}

\* What the hook has injected into an arm of this kind whose run is at step.
Timely(trigger, kind, hits, step) ==
  /\ hits \in {<< >>, <<trigger>>}
  /\ hits # << >> => kind = "intervention" /\ trigger_reachable_under_call_limit(trigger)
  /\ kind = "intervention" /\ step > trigger => hits = <<trigger>>
LeftInTime(a, r) == Timely(Trigger(a[1]), a[2], r.hits, r.step)

\* A run is of an arm of the plan that was not completed before; it makes at most one
\* step per call.
Running ==
  /\ run = [pc |-> "runs", arm |-> run.arm, step |-> run.step, calls |-> run.calls,
            hits |-> run.hits]
  /\ run.arm \in Arms \ DOMAIN done
  /\ run.step \in Nat /\ run.calls \in Nat /\ run.step <= run.calls
  /\ LeftInTime(run.arm, run)

RunsAreTimely ==
  /\ DOMAIN done \subseteq Arms
  /\ \A a \in DOMAIN done : LeftInTime(a, done[a])
  /\ run = [pc |-> "idle"] \/ Running

\* A row of the summary is of its pair and says what these hits make of it.
Resolutions == BOOLEAN \cup {None}
Told(hits, i, row) ==
  /\ row.pair = i /\ row.control \in Resolutions /\ row.intervention \in Resolutions
  /\ row.once = (Len(hits) = 1) /\ row.eligible = (Len(hits) = 1)
  /\ row.scope = IF Len(hits) = 1 THEN "main" ELSE "secondary"
  /\ row.label = IF Len(hits) = 1 THEN effect_summary(row.control, row.intervention)
                 ELSE "secondary_audit_no_treatment_attribution"
Hits(i) == done[<<i, "intervention">>].hits
Summarized ==
  /\ (\E C : summary \in Seq(C)) /\ Len(summary) <= Len(pairs)
  /\ \A i \in DOMAIN summary :
       <<i, "intervention">> \in DOMAIN done /\ Told(Hits(i), i, summary[i])

\* A report says of an arm that it is resolved, that it is not, or nothing.
Reported == None \notin BOOLEAN /\ \A r \in ArmReports : r.resolved \in Resolutions

LEMMA PlannedKept == Planned /\ [Next]_vars => Planned'
<1> SUFFICES ASSUME Planned, [Next]_vars
             PROVE  Planned'
  OBVIOUS
<1>1. CASE build_package_rows
  BY <1>1 DEF Planned, build_package_rows
<1>2. CASE UNCHANGED <<rows, pairs>>
  BY <1>2 DEF Planned
<1>3. build_package_rows \/ UNCHANGED <<rows, pairs>>
  BY DEF Next, vars, start_arm, on_model_query, complete_arm, arm_dies, evaluate
<1> QED
  BY <1>1, <1>2, <1>3

LEMMA PlanShape ==
  ASSUME Plannable, Planned
  PROVE  /\ DiagnosedList(rows) /\ pairs \in Seq(Picks(rows))
         /\ Len(pairs) \in Nat /\ DOMAIN pairs = 1..Len(pairs)
         /\ \A p \in DOMAIN pairs : pairs[p].row \in DOMAIN rows /\ Trigger(p) \in Nat
<1>1. DiagnosedList(rows)
  BY DEF Plannable, Planned
<1>2. build_pairs(rows) \in Seq(Picks(rows))
  BY <1>1, BuiltPlanIsFair DEF Fair
<1>3. pairs \in Seq(Picks(rows))
  BY <1>2, EmptySeq DEF Planned
<1>4. Len(pairs) \in Nat /\ DOMAIN pairs = 1..Len(pairs)
  BY <1>3, LenProperties
<1>5. \A p \in DOMAIN pairs : pairs[p].row \in DOMAIN rows
  <2>1. \A p \in DOMAIN pairs : pairs[p] \in Picks(rows)
    BY <1>3, <1>4, ElementOfSeq
  <2> QED
    BY <2>1 DEF Picks
<1>6. \A p \in DOMAIN pairs : Trigger(p) \in Nat
  BY <1>1, <1>5 DEF Trigger, DiagnosedList, DiagnosedRow
<1> QED
  BY <1>1, <1>3, <1>4, <1>5, <1>6

\* Whatever the diagnosed rows and the quotas, no slot of the package exceeds its quota,
\* a slot that stays short has no free task left, and no task is paired under two slots
\* (planner.py: select_records, build_pairs).
THEOREM PlansAreFair == ASSUME Plannable PROVE Spec => []PlanIsFair
<1>1. Init => Planned
  BY DEF Init, Planned
<1>2. ASSUME Planned
      PROVE  PlanIsFair
  <2>1. DiagnosedList(rows) /\ Len(pairs) \in Nat /\ DOMAIN pairs = 1..Len(pairs)
    BY <1>2, PlanShape
  <2>2. OneSlotPerTask(rows, pairs)
    <3>1. CASE pairs = << >>
      BY <3>1 DEF OneSlotPerTask
    <3>2. CASE pairs = build_pairs(rows)
      BY <2>1, <3>2, BuiltPlanIsFair DEF Fair
    <3> QED
      BY <1>2, <3>1, <3>2 DEF Planned
  <2>3. ASSUME pairs # << >>, NEW r \in Roles, NEW c \in Range(Policies)
        PROVE  LET of == {k \in DOMAIN pairs : pairs[k].role = r /\ pairs[k].policy = c}
               IN  /\ Cardinality(of) <= ROLE_POLICY_QUOTAS[r]
                   /\ Cardinality(of) < ROLE_POLICY_QUOTAS[r] =>
                        \A i \in Slot(rows, r, c) :
                          rows[i].task \in {rows[pairs[k].row].task : k \in DOMAIN pairs}
    <3> DEFINE of == {k \in DOMAIN pairs : pairs[k].role = r /\ pairs[k].policy = c}
    <3>1. PICK m \in 1..8 : Slots[m] = [role |-> r, policy |-> c]
      BY SlotsDiffer
    <3>2. SlotFair(rows, pairs, m)
      BY <1>2, <2>1, <2>3, BuiltPlanIsFair DEF Fair, Planned
    <3>3. of = OfSlot(pairs, m)
      BY <3>1 DEF OfSlot
    <3>4. used_tasks(rows, pairs) = {rows[pairs[k].row].task : k \in DOMAIN pairs}
      BY DEF used_tasks
    <3> HIDE DEF of
    <3>s. Slots[m].role = r /\ Slots[m].policy = c
      BY <3>1
    <3>5. PICK lo \in 0..Len(pairs), hi \in 0..Len(pairs) :
            /\ lo <= hi /\ of = (lo + 1)..hi
            /\ hi - lo <= ROLE_POLICY_QUOTAS[r]
            /\ hi - lo < ROLE_POLICY_QUOTAS[r] =>
                 \A i \in Slot(rows, r, c) : rows[i].task \in used_tasks(rows, pairs)
      BY <3>s, <3>2, <3>3 DEF SlotFair
    <3>6. Cardinality(of) = hi - lo
      <4>1. lo + 1 \in Int /\ hi \in Int /\ lo \in Int
        BY <2>1
      <4>2. Cardinality((lo + 1)..hi) = IF lo + 1 > hi THEN 0 ELSE hi - (lo + 1) + 1
        BY <4>1, FS_Interval
      <4> QED
        BY <3>5, <4>1, <4>2
    <3>7. /\ Cardinality(of) <= ROLE_POLICY_QUOTAS[r]
          /\ Cardinality(of) < ROLE_POLICY_QUOTAS[r] =>
               \A i \in Slot(rows, r, c) :
                 rows[i].task \in {rows[pairs[k].row].task : k \in DOMAIN pairs}
      BY <3>4, <3>5, <3>6
    <3> QED
      BY <3>7 DEF of
  <2> QED
    BY <2>2, <2>3 DEF PlanIsFair, OneSlotPerTask
<1> QED
  BY <1>1, <1>2, PlannedKept, PTL DEF Spec

-----------------------------------------------------------------------------
(* The hooks.                                                              *)

\* One query of a run that is in time: the hook injects at the trigger, once.
LEMMA QueryInTime ==
  ASSUME CallLimit \in Nat, NEW trigger \in Nat, NEW kind, NEW hits,
         NEW step \in Nat, NEW calls \in Nat, step <= calls, CallLimit = 0 \/ calls <= CallLimit,
         Timely(trigger, kind, hits, step), NEW next \in {step, step + 1}
  PROVE  Timely(trigger, kind,
                IF _should_inject_at_step(kind, trigger, step, hits # << >>)
                THEN Append(hits, step) ELSE hits, next)
<1>1. CASE _should_inject_at_step(kind, trigger, step, hits # << >>)
  <2>1. hits = << >> /\ kind = "intervention" /\ step = trigger
    BY <1>1 DEF _should_inject_at_step
  <2>2. Append(hits, step) = <<trigger>>
    BY <2>1
  <2>3. trigger_reachable_under_call_limit(trigger)
    BY <2>1 DEF trigger_reachable_under_call_limit
  <2> QED
    BY <1>1, <2>1, <2>2, <2>3 DEF Timely
<1>2. CASE ~_should_inject_at_step(kind, trigger, step, hits # << >>)
  <2>1. hits = << >> => ~(kind = "intervention" /\ step = trigger)
    BY <1>2 DEF _should_inject_at_step
  <2>2. kind = "intervention" /\ next > trigger => hits = <<trigger>>
    BY <2>1 DEF Timely
  <2>3. Timely(trigger, kind, hits, next)
    BY <2>2 DEF Timely
  <2> QED
    BY <1>2, <2>3
<1> QED
  BY <1>1, <1>2

\* What becomes of the record of a run, field by field.
LEMMA QueriedRun ==
  ASSUME NEW r, NEW hits, NEW step, NEW s,
         r = [pc |-> "runs", arm |-> r.arm, step |-> r.step, calls |-> r.calls, hits |-> r.hits],
         s = [r EXCEPT !.hits = hits, !.calls = @ + 1, !.step = step]
  PROVE  s = [pc |-> "runs", arm |-> r.arm, step |-> step, calls |-> r.calls + 1, hits |-> hits]
<1> DEFINE calls == r.calls + 1
           r1 == [r EXCEPT !.hits = hits]
           r2 == [r1 EXCEPT !.calls = calls]
           r3 == [r2 EXCEPT !.step = step]
<1>1. s = [r EXCEPT !.hits = hits, !.calls = r.calls + 1, !.step = step]
  OBVIOUS
<1>2. s = r3
  BY <1>1, Zenon
<1> HIDE DEF calls
<1>3. r1 = [pc |-> "runs", arm |-> r.arm, step |-> r.step, calls |-> r.calls, hits |-> hits]
  OBVIOUS
<1> HIDE DEF r1
<1>4. r2 = [pc |-> "runs", arm |-> r.arm, step |-> r.step, calls |-> calls, hits |-> hits]
  BY <1>3
<1> HIDE DEF r2
<1>5. r3 = [pc |-> "runs", arm |-> r.arm, step |-> step, calls |-> calls, hits |-> hits]
  BY <1>4
<1> QED
  BY <1>2, <1>5 DEF calls

LEMMA PendingArm ==
  ASSUME Plannable, Planned, filter_pending_arms # {}
  PROVE  arm_rows[Min(filter_pending_arms)] \in Arms \ DOMAIN done
<1> DEFINE N == filter_pending_arms
           k == Min(N)
<1>1. Len(pairs) \in Nat /\ DOMAIN pairs = 1..Len(pairs)
  BY PlanShape
<1>2. N \in SUBSET (1..(2 * Len(pairs))) /\ N \in SUBSET Nat
  BY <1>1 DEF filter_pending_arms, arm_rows
<1>3. \E n \in N : \A m \in N : n <= m
  <2>1. N # {}
    OBVIOUS
  <2> HIDE DEF N
  <2> QED
    BY <1>2, <2>1, LeastNumber
<1>4. k \in N
  BY <1>3 DEF Min
<1> HIDE DEF N, k
<1>5. k \in 1..(2 * Len(pairs)) /\ k \in Nat
  BY <1>2, <1>4
<1>6. arm_rows[k] = <<(k + 1) \div 2, IF k % 2 = 1 THEN "control" ELSE "intervention">>
  BY <1>5 DEF arm_rows
<1>7. (k + 1) \div 2 \in 1..Len(pairs)
  BY <1>1, <1>5
<1>8. arm_rows[k] \in Arms
  BY <1>1, <1>6, <1>7 DEF Arms
<1>9. arm_rows[k] \notin DOMAIN done
  BY <1>4 DEF N, filter_pending_arms, completed_resumable_state_keys
<1> QED
  BY <1>8, <1>9 DEF k, N

LEMMA RunsStayTimely ==
  ASSUME Plannable, CallLimit \in Nat, Planned, RunsAreTimely, [Next]_vars
  PROVE  RunsAreTimely'
<1>1. CASE build_package_rows
  <2>1. Arms = {}
    BY <1>1 DEF build_package_rows, Arms
  <2>2. DOMAIN done = {} /\ run = [pc |-> "idle"]
    BY <2>1 DEF RunsAreTimely, Running
  <2> QED
    BY <1>1, <2>2 DEF build_package_rows, RunsAreTimely
<1>2. CASE start_arm
  <2> DEFINE a == arm_rows[Min(filter_pending_arms)]
  <2>1. a \in Arms \ DOMAIN done
    BY <1>2, PendingArm DEF start_arm
  <2>2. run' = [pc |-> "runs", arm |-> a, step |-> 0, calls |-> 0, hits |-> << >>]
        /\ UNCHANGED <<rows, pairs, done>>
    BY <1>2 DEF start_arm
  <2> HIDE DEF a
  <2>3. Trigger(a[1]) \in Nat
    BY <2>1, PlanShape DEF Arms
  <2>4. Timely(Trigger(a[1]), a[2], << >>, 0)
    BY <2>3 DEF Timely
  <2>5. Running'
    BY <2>1, <2>2, <2>4 DEF Running, LeftInTime, Trigger, Arms
  <2> QED
    BY <2>2, <2>5 DEF RunsAreTimely, LeftInTime, Trigger, Arms
<1>3. CASE on_model_query
  <2> DEFINE a == run.arm
             hits == IF _should_inject_at_step(a[2], Trigger(a[1]), run.step, run.hits # << >>)
                     THEN Append(run.hits, run.step) ELSE run.hits
  <2>1. Running /\ (CallLimit = 0 \/ run.calls <= CallLimit) /\ UNCHANGED <<rows, pairs, done>>
    BY <1>3 DEF on_model_query, RunsAreTimely
  <2>2. PICK understood \in BOOLEAN :
          run' = [run EXCEPT !.hits = hits, !.calls = @ + 1,
                             !.step = IF understood THEN @ + 1 ELSE @]
    BY <1>3 DEF on_model_query
  <2>3. PICK next \in {run.step, run.step + 1} :
          run' = [run EXCEPT !.hits = hits, !.calls = @ + 1, !.step = next]
    BY <2>2
  <2>4. run' = [pc |-> "runs", arm |-> a, step |-> next, calls |-> run.calls + 1, hits |-> hits]
    <3>1. Running
      BY <2>1
    <3> HIDE DEF a, hits
    <3> QED
      BY <2>3, <3>1, QueriedRun DEF Running, a
  <2> HIDE DEF a, hits
  <2>5. a \in Arms \ DOMAIN done /\ run.step \in Nat /\ run.calls \in Nat /\ run.step <= run.calls
    BY <2>1 DEF Running, a
  <2>6. Trigger(a[1]) \in Nat
    BY <2>5, PlanShape DEF Arms
  <2>7. Timely(Trigger(a[1]), a[2], run.hits, run.step)
    BY <2>1 DEF Running, LeftInTime, a
  <2>8. Timely(Trigger(a[1]), a[2], hits, next)
    BY <2>1, <2>5, <2>6, <2>7, QueryInTime DEF hits
  <2>9. Running'
    BY <2>1, <2>4, <2>5, <2>8 DEF Running, LeftInTime, Trigger, Arms
  <2> QED
    BY <2>1, <2>9 DEF RunsAreTimely, LeftInTime, Trigger, Arms
<1>4. CASE complete_arm
  <2>1. Running /\ UNCHANGED <<rows, pairs>> /\ run' = [pc |-> "idle"]
    BY <1>4 DEF complete_arm, RunsAreTimely
  <2> DEFINE a == run.arm
             r == [hits |-> run.hits, step |-> run.step]
  <2>2. a \in Arms \ DOMAIN done /\ LeftInTime(a, r)
    BY <2>1 DEF Running, LeftInTime
  <2>3. done' = [b \in DOMAIN done \cup {a} |-> IF b = a THEN r ELSE done[b]]
    BY <1>4 DEF complete_arm
  <2> HIDE DEF a, r
  <2>4. /\ DOMAIN done' = DOMAIN done \cup {a}
        /\ \A b \in DOMAIN done' : done'[b] = IF b = a THEN r ELSE done[b]
    BY <2>3
  <2>5. DOMAIN done' \subseteq Arms
    BY <2>2, <2>4 DEF RunsAreTimely
  <2>6. \A b \in DOMAIN done' : LeftInTime(b, done'[b])
    BY <2>2, <2>4 DEF RunsAreTimely
  <2> QED
    BY <2>1, <2>5, <2>6 DEF RunsAreTimely, LeftInTime, Trigger, Arms
<1>5. CASE arm_dies
  BY <1>5 DEF arm_dies, RunsAreTimely, LeftInTime, Trigger, Arms
<1>6. CASE UNCHANGED <<rows, pairs, done, run>>
  BY <1>6 DEF RunsAreTimely, Running, LeftInTime, Trigger, Arms
<1> QED
  BY <1>1, <1>2, <1>3, <1>4, <1>5, <1>6 DEF Next, vars, evaluate

\* A trigger the hook has fired at is one its dry run passes.
LEMMA FiredAsInTheDryRun ==
  ASSUME NEW trigger \in Nat, trigger > 0
  PROVE  dry_run_phase315_row("intervention", trigger)
BY DEF dry_run_phase315_row, _should_inject_at_step

\* What a run in time leaves is what its plan promised.
LEMMA InTimeIsInOrder ==
  ASSUME NEW a, NEW r, Trigger(a[1]) \in Nat, LeftInTime(a, r)
  PROVE  /\ r.hits = IF a[2] = "intervention" /\ r.step > Trigger(a[1])
                     THEN <<Trigger(a[1])>> ELSE r.hits
         /\ r.hits # << >> => /\ r.hits = <<Trigger(a[1])>> /\ a[2] = "intervention"
                              /\ trigger_reachable_under_call_limit(Trigger(a[1]))
                              /\ Trigger(a[1]) > 0 => dry_run_phase315_row(a[2], Trigger(a[1]))
<1>1. a[2] = "intervention" /\ r.step > Trigger(a[1]) => r.hits = <<Trigger(a[1])>>
  BY DEF LeftInTime, Timely
<1>2. ASSUME r.hits # << >>
      PROVE  /\ r.hits = <<Trigger(a[1])>> /\ a[2] = "intervention"
             /\ trigger_reachable_under_call_limit(Trigger(a[1]))
  BY <1>2 DEF LeftInTime, Timely
<1>3. ASSUME r.hits # << >>, Trigger(a[1]) > 0
      PROVE  dry_run_phase315_row(a[2], Trigger(a[1]))
  BY <1>2, <1>3, FiredAsInTheDryRun
<1> QED
  BY <1>1, <1>2, <1>3

LEMMA RunsAreAlwaysTimely ==
  ASSUME Plannable, CallLimit \in Nat
  PROVE  Spec => [](Planned /\ RunsAreTimely)
<1>1. Init => Planned /\ RunsAreTimely
  <2> SUFFICES ASSUME Init
               PROVE  Planned /\ RunsAreTimely
    OBVIOUS
  <2>1. DOMAIN done = {} /\ run = [pc |-> "idle"]
    BY DEF Init
  <2> QED
    BY <2>1 DEF Init, Planned, RunsAreTimely
<1>2. Planned /\ RunsAreTimely /\ [Next]_vars => (Planned /\ RunsAreTimely)'
  BY PlannedKept, RunsStayTimely
<1> QED
  BY <1>1, <1>2, PTL DEF Spec

\* Whatever the plan, the call limit and the answers of the model, and however often runs
\* die and start again: a control arm is never injected, a treated arm exactly once and
\* at its trigger if it gets there, as the dry run of its row says, and never if the plan
\* calls its trigger out of reach (hooks.py: StaticPrefixHook; runner.py:
\* trigger_reachable_under_call_limit).
THEOREM HooksAlwaysFireOnTime ==
  ASSUME Plannable, CallLimit \in Nat
  PROVE  Spec => []HooksFireOnTime
<1>1. ASSUME Planned, RunsAreTimely
      PROVE  HooksFireOnTime
  <2>1. \A a \in Arms : Trigger(a[1]) \in Nat
    BY <1>1, PlanShape DEF Arms
  <2>2. \A a \in DOMAIN done : Trigger(a[1]) \in Nat /\ LeftInTime(a, done[a])
    BY <1>1, <2>1 DEF RunsAreTimely
  <2>3. run.pc = "runs" => Trigger(run.arm[1]) \in Nat /\ LeftInTime(run.arm, run)
    BY <1>1, <2>1 DEF RunsAreTimely, Running
  <2> QED
    BY <2>2, <2>3, InTimeIsInOrder DEF HooksFireOnTime
<1> QED
  BY <1>1, RunsAreAlwaysTimely, PTL

-----------------------------------------------------------------------------
(* The summary.                                                            *)

LEMMA SummaryTells ==
  ASSUME Reported, NEW p, NEW control \in ArmReports, NEW intervention \in ArmReports
  PROVE  Told(Hits(p), p, PairSummary(p, control, intervention))
<1> DEFINE c == summarize_official_report(control).resolved
           t == summarize_official_report(intervention).resolved
           row == PairSummary(p, control, intervention)
           hits == Hits(p)
<1>1. c \in Resolutions /\ t \in Resolutions
  BY DEF Reported, summarize_official_report, Resolutions
<1>2. /\ row.pair = p /\ row.control = c /\ row.intervention = t
      /\ row.scope = IF Len(hits) = 1 THEN "main" ELSE "secondary"
      /\ row.label = IF Len(hits) = 1 THEN effect_summary(c, t)
                     ELSE "secondary_audit_no_treatment_attribution"
  BY DEF PairSummary, Hits
<1>3. row.once = (Len(hits) = 1) /\ row.eligible = (Len(hits) = 1)
  BY DEF PairSummary, Hits
<1> HIDE DEF c, t, row, hits
<1>4. Told(hits, p, row)
  BY <1>1, <1>2, <1>3 DEF Told
<1> QED
  BY <1>4 DEF hits, row

LEMMA SummaryStays ==
  ASSUME Summarized, Len(pairs') = Len(pairs), summary' = summary,
         \A a \in DOMAIN done : a \in DOMAIN done' /\ done'[a] = done[a]
  PROVE  Summarized'
<1>1. ASSUME NEW i \in DOMAIN summary
      PROVE  <<i, "intervention">> \in DOMAIN done' /\ Told(Hits(i)', i, summary[i])
  <2>1. <<i, "intervention">> \in DOMAIN done /\ Told(Hits(i), i, summary[i])
    BY DEF Summarized
  <2>2. <<i, "intervention">> \in DOMAIN done' /\ Hits(i)' = Hits(i)
    BY <2>1 DEF Hits
  <2> QED
    BY <2>1, <2>2
<1> QED
  BY <1>1 DEF Summarized

LEMMA SummaryKept ==
  ASSUME Plannable, Reported, Planned, RunsAreTimely, Summarized, [Next]_vars
  PROVE  Summarized'
<1>0. Len(pairs) \in Nat /\ DOMAIN pairs = 1..Len(pairs)
  BY PlanShape
<1>1. CASE build_package_rows
  <2>1. pairs = << >> /\ summary' = summary /\ done' = done
    BY <1>1 DEF build_package_rows
  <2>2. Len(summary) <= 0 /\ DOMAIN summary = {} /\ \E C : summary \in Seq(C)
    BY <2>1, LenProperties DEF Summarized
  <2>3. Planned'
    BY PlannedKept
  <2>4. rows \in Files /\ pairs' \in {<< >>, build_pairs(rows)}
    BY <1>1, <2>1, <2>3 DEF Planned, build_package_rows
  <2>5. build_pairs(rows) \in Seq(Picks(rows))
    BY <2>4, BuiltPlanIsFair DEF Fair, Plannable
  <2>6. Len(pairs') \in Nat
    BY <2>4, <2>5, LenProperties, EmptySeq
  <2> QED
    BY <2>1, <2>2, <2>6 DEF Summarized
<1>2. CASE UNCHANGED <<pairs, done, summary>>
  BY <1>2, SummaryStays
<1>3. CASE complete_arm
  <2>1. /\ UNCHANGED <<pairs, summary>>
        /\ done' = [a \in DOMAIN done \cup {run.arm} |->
                     IF a = run.arm THEN [hits |-> run.hits, step |-> run.step] ELSE done[a]]
    BY <1>3 DEF complete_arm
  <2>2. run.arm \notin DOMAIN done
    BY <1>3 DEF complete_arm, RunsAreTimely, Running
  <2> QED
    BY <2>1, <2>2, SummaryStays
<1>4. CASE evaluate
  <2> DEFINE p == Len(summary) + 1
  <2>1. /\ p \in DOMAIN pairs /\ <<p, "intervention">> \in DOMAIN done
        /\ UNCHANGED <<pairs, done>>
    BY <1>4 DEF evaluate
  <2>2. PICK control \in ArmReports, intervention \in ArmReports :
          summary' = Append(summary, PairSummary(p, control, intervention))
    BY <1>4 DEF evaluate
  <2> DEFINE row == PairSummary(p, control, intervention)
  <2>3. Told(Hits(p), p, row)
    BY SummaryTells
  <2> HIDE DEF row
  <2>4. PICK C : summary \in Seq(C)
    BY DEF Summarized
  <2>5. /\ summary' \in Seq(C \cup {row}) /\ Len(summary') = p
        /\ DOMAIN summary' = 1..p /\ summary'[p] = row
        /\ Len(summary) \in Nat /\ DOMAIN summary = 1..Len(summary)
        /\ \A i \in 1..Len(summary) : summary'[i] = summary[i]
    <3>1. summary \in Seq(C \cup {row}) /\ row \in C \cup {row}
      BY <2>4
    <3>2. summary' = Append(summary, row)
      BY <2>2 DEF row
    <3> QED
      BY <3>1, <3>2, AppendedPick
  <2>6. \A i \in DOMAIN summary :
          <<i, "intervention">> \in DOMAIN done /\ Told(Hits(i), i, summary[i])
    BY DEF Summarized
  <2>7. \A i \in 1..p : <<i, "intervention">> \in DOMAIN done /\ Told(Hits(i), i, summary'[i])
    <3>1. ASSUME NEW i \in 1..p
          PROVE  <<i, "intervention">> \in DOMAIN done /\ Told(Hits(i), i, summary'[i])
      <4>1. CASE i = p
        BY <2>1, <2>3, <2>5, <4>1
      <4>2. CASE i # p
        <5>1. i \in 1..Len(summary)
          BY <2>5, <4>2
        <5> QED
          BY <2>5, <2>6, <5>1
      <4> QED
        BY <4>1, <4>2
    <3> QED
      BY <3>1
  <2>8. \A i : Hits(i)' = Hits(i)
    BY <2>1 DEF Hits
  <2>9. Len(pairs') = Len(pairs) /\ p <= Len(pairs) /\ p \in Nat
    BY <1>0, <2>1, <2>5
  <2> QED
    BY <2>1, <2>5, <2>7, <2>8, <2>9 DEF Summarized
<1> QED
  BY <1>1, <1>2, <1>3, <1>4 DEF Next, vars, start_arm, on_model_query, arm_dies

-----------------------------------------------------------------------------
(* The gates: what the counts of a summary say of the pairs.               *)

\* The label of a treated pair says what its reports said.
LEMMA EffectSays ==
  ASSUME None \notin BOOLEAN, NEW c \in Resolutions, NEW t \in Resolutions
  PROVE  /\ effect_summary(c, t) \in MAIN_LABELS <=> (c # None /\ t # None)
         /\ effect_summary(c, t) = "control_only" <=> (c = TRUE /\ t = FALSE)
         /\ effect_summary(c, t) = "intervention_only" <=> (t = TRUE /\ c = FALSE)
<1>1. CASE c = None \/ t = None
  BY <1>1 DEF effect_summary, MAIN_LABELS
<1>2. CASE c # None /\ t # None
  <2>1. c \in {TRUE, FALSE} /\ t \in {TRUE, FALSE}
    BY <1>2 DEF Resolutions
  <2>2. CASE c = TRUE /\ t = TRUE
    BY <1>2, <2>2 DEF effect_summary, MAIN_LABELS
  <2>3. CASE c = TRUE /\ t = FALSE
    BY <1>2, <2>3 DEF effect_summary, MAIN_LABELS
  <2>4. CASE c = FALSE /\ t = TRUE
    BY <1>2, <2>4 DEF effect_summary, MAIN_LABELS
  <2>5. CASE c = FALSE /\ t = FALSE
    BY <1>2, <2>5 DEF effect_summary, MAIN_LABELS
  <2> QED
    BY <2>1, <2>2, <2>3, <2>4, <2>5
<1> QED
  BY <1>1, <1>2

\* A summary of n pairs.
Tells(s, n) == /\ n \in Nat /\ Len(s) = n /\ DOMAIN s = 1..n
               /\ \A i \in 1..n : Told(Hits(i), i, s[i])
TreatedOf(s) == {i \in DOMAIN s : Len(Hits(i)) = 1}
UpliftOf(s) == {i \in TreatedOf(s) : s[i].intervention = TRUE /\ s[i].control = FALSE}
HarmOf(s) == {i \in TreatedOf(s) : s[i].control = TRUE /\ s[i].intervention = FALSE}

LEMMA PartIsFinite ==
  ASSUME NEW s, NEW n, Tells(s, n), NEW S, S \subseteq DOMAIN s
  PROVE  IsFiniteSet(S) /\ Cardinality(S) \in Nat /\ (Cardinality(S) = 0 <=> S = {})
<1>1. IsFiniteSet(1..n)
  <2>1. n \in Int /\ 1 \in Int
    BY DEF Tells
  <2> QED
    BY <2>1, FS_Interval
<1>2. S \in SUBSET (1..n)
  BY DEF Tells
<1>3. IsFiniteSet(S)
  BY <1>1, <1>2, FS_Subset
<1> QED
  BY <1>3, FS_CardinalityType, FS_EmptySet

\* Main scope is what was treated; of it, labels and classes say what was reported.
LEMMA MainIsTreated ==
  ASSUME Reported, NEW s, NEW n, Tells(s, n)
  PROVE  /\ MainScope(s) = TreatedOf(s)
         /\ MainClass(s) = {i \in TreatedOf(s) : s[i].control # None /\ s[i].intervention # None}
         /\ \A i \in TreatedOf(s) :
              /\ classify_pair_summary(s[i]) = "invalid" <=>
                   ~(s[i].control # None /\ s[i].intervention # None)
              /\ s[i].label = "control_only" <=> i \in HarmOf(s)
              /\ s[i].label = "intervention_only" <=> i \in UpliftOf(s)
<1>1. ASSUME NEW i \in DOMAIN s, i \in TreatedOf(s)
      PROVE  /\ s[i].scope = "main"
             /\ classify_pair_summary(s[i]) = IF s[i].control # None /\ s[i].intervention # None
                                              THEN "main_treatment" ELSE "invalid"
             /\ s[i].label = "control_only" <=> i \in HarmOf(s)
             /\ s[i].label = "intervention_only" <=> i \in UpliftOf(s)
  <2> DEFINE row == s[i]
  <2>1. Told(Hits(i), i, row) /\ Len(Hits(i)) = 1
    BY <1>1 DEF Tells, TreatedOf
  <2> HIDE DEF row
  <2>2. /\ row.scope = "main" /\ row.once /\ row.eligible
        /\ row.label = effect_summary(row.control, row.intervention)
        /\ row.control \in Resolutions /\ row.intervention \in Resolutions
    BY <2>1 DEF Told
  <2>3. /\ row.label \in MAIN_LABELS <=> (row.control # None /\ row.intervention # None)
        /\ row.label = "control_only" <=> (row.control = TRUE /\ row.intervention = FALSE)
        /\ row.label = "intervention_only" <=> (row.intervention = TRUE /\ row.control = FALSE)
    <3> DEFINE c == row.control
               t == row.intervention
    <3>1. c \in Resolutions /\ t \in Resolutions /\ None \notin BOOLEAN
      BY <2>2 DEF Reported
    <3>2. row.label = effect_summary(c, t)
      BY <2>2
    <3> HIDE DEF c, t
    <3>3. /\ effect_summary(c, t) \in MAIN_LABELS <=> (c # None /\ t # None)
          /\ effect_summary(c, t) = "control_only" <=> (c = TRUE /\ t = FALSE)
          /\ effect_summary(c, t) = "intervention_only" <=> (t = TRUE /\ c = FALSE)
      BY <3>1, EffectSays
    <3>4. /\ row.label \in MAIN_LABELS <=> (c # None /\ t # None)
          /\ row.label = "control_only" <=> (c = TRUE /\ t = FALSE)
          /\ row.label = "intervention_only" <=> (t = TRUE /\ c = FALSE)
      BY <3>2, <3>3
    <3> QED
      BY <3>4 DEF c, t
  <2>4. classify_pair_summary(row) = IF row.label \in MAIN_LABELS THEN "main_treatment" ELSE "invalid"
    BY <2>2 DEF classify_pair_summary
  <2>5. i \in HarmOf(s) <=> (row.control = TRUE /\ row.intervention = FALSE)
    BY <1>1 DEF HarmOf, row
  <2>6. i \in UpliftOf(s) <=> (row.intervention = TRUE /\ row.control = FALSE)
    BY <1>1 DEF UpliftOf, row
  <2>7. /\ row.scope = "main"
        /\ classify_pair_summary(row) = IF row.control # None /\ row.intervention # None
                                         THEN "main_treatment" ELSE "invalid"
        /\ row.label = "control_only" <=> i \in HarmOf(s)
        /\ row.label = "intervention_only" <=> i \in UpliftOf(s)
    BY <2>2, <2>3, <2>4, <2>5, <2>6
  <2> QED
    BY <2>7 DEF row
<1>2. ASSUME NEW i \in DOMAIN s, i \notin TreatedOf(s)
      PROVE  s[i].scope = "secondary" /\ classify_pair_summary(s[i]) # "main_treatment"
  <2>1. Told(Hits(i), i, s[i]) /\ Len(Hits(i)) # 1
    BY <1>2 DEF Tells, TreatedOf
  <2> QED
    BY <2>1 DEF Told, classify_pair_summary
<1>3. TreatedOf(s) \subseteq DOMAIN s
  BY DEF TreatedOf
<1>4. MainScope(s) = TreatedOf(s)
  BY <1>1, <1>2, <1>3 DEF MainScope
<1>5. MainClass(s) = {i \in TreatedOf(s) : s[i].control # None /\ s[i].intervention # None}
  BY <1>1, <1>2, <1>3 DEF MainClass
<1> QED
  BY <1>1, <1>3, <1>4, <1>5

LEMMA DisjointUnion ==
  ASSUME NEW S, NEW T, IsFiniteSet(S), IsFiniteSet(T), S \cap T = {}
  PROVE  Cardinality(S \cup T) = Cardinality(S) + Cardinality(T)
<1>1. Cardinality(S \cup T) = Cardinality(S) + Cardinality(T) - Cardinality({})
  BY FS_Union
<1>2. Cardinality({}) = 0 /\ Cardinality(S) \in Nat /\ Cardinality(T) \in Nat
  BY FS_EmptySet, FS_CardinalityType
<1> QED
  BY <1>1, <1>2

\* Where no row is invalid, every treated pair was evaluated, the labels count the pairs
\* lifted and harmed, and the difference of the resolved arms is that of these counts.
LEMMA AttributionCounts ==
  ASSUME Reported, NEW s, NEW n, Tells(s, n), attribute_pair_summaries(s).invalid = 0
  PROVE  LET a == attribute_pair_summaries(s)
             up == Cardinality(UpliftOf(s))
             down == Cardinality(HarmOf(s))
         IN  /\ up \in Nat /\ down \in Nat /\ (down = 0 <=> HarmOf(s) = {})
             /\ a.positive = up /\ a.negative = down /\ a.delta = up - down
             /\ a.main \in Nat /\ (a.main = 0 <=> TreatedOf(s) = {})
             /\ MainClass(s) = TreatedOf(s)
             /\ \A i \in TreatedOf(s) : s[i].control # None /\ s[i].intervention # None
<1> DEFINE a == attribute_pair_summaries(s)
           T == TreatedOf(s)
           U == UpliftOf(s)
           H == HarmOf(s)
           invalid == {i \in DOMAIN s : classify_pair_summary(s[i]) = "invalid"}
           treatedUp == {i \in T : s[i].intervention = TRUE}
           controlUp == {i \in T : s[i].control = TRUE}
           both == {i \in T : s[i].intervention = TRUE /\ s[i].control = TRUE}
<1>1. /\ a.main = Cardinality(MainScope(s)) /\ a.invalid = Cardinality(invalid)
      /\ a.positive = Cardinality({i \in MainScope(s) : s[i].label = "intervention_only"})
      /\ a.negative = Cardinality({i \in MainScope(s) : s[i].label = "control_only"})
      /\ a.delta = Cardinality({i \in MainScope(s) : s[i].intervention = TRUE})
                   - Cardinality({i \in MainScope(s) : s[i].control = TRUE})
  BY DEF attribute_pair_summaries, Labelled
<1>2. /\ MainScope(s) = T /\ T \subseteq DOMAIN s /\ U \subseteq T /\ H \subseteq T
      /\ both \subseteq T /\ invalid \subseteq DOMAIN s
  BY MainIsTreated DEF TreatedOf, UpliftOf, HarmOf
<1>3. \A i \in T : (s[i].label = "control_only" <=> i \in H)
                   /\ (s[i].label = "intervention_only" <=> i \in U)
  BY MainIsTreated
<1>4. invalid = {}
  <2> HIDE DEF invalid, a
  <2>1. Cardinality(invalid) = 0
    BY <1>1 DEF a
  <2> QED
    BY <1>2, <2>1, PartIsFinite
<1>5. \A i \in T : s[i].control # None /\ s[i].intervention # None
  BY <1>2, <1>4, MainIsTreated
<1>6. MainClass(s) = T
  BY <1>5, MainIsTreated
<1>7. \A i \in T : s[i].control \in {TRUE, FALSE} /\ s[i].intervention \in {TRUE, FALSE}
  <2> SUFFICES ASSUME NEW i \in T
               PROVE  s[i].control \in {TRUE, FALSE} /\ s[i].intervention \in {TRUE, FALSE}
    OBVIOUS
  <2>1. Told(Hits(i), i, s[i])
    BY <1>2 DEF Tells
  <2>2. s[i].control \in Resolutions /\ s[i].intervention \in Resolutions
    BY <2>1 DEF Told
  <2> QED
    BY <1>5, <2>2 DEF Resolutions
<1>8. treatedUp = U \cup both /\ U \cap both = {}
  BY <1>7 DEF UpliftOf
<1>9. controlUp = H \cup both /\ H \cap both = {}
  BY <1>7 DEF HarmOf
<1>10. /\ {i \in MainScope(s) : s[i].label = "intervention_only"} = U
       /\ {i \in MainScope(s) : s[i].label = "control_only"} = H
       /\ {i \in MainScope(s) : s[i].intervention = TRUE} = treatedUp
       /\ {i \in MainScope(s) : s[i].control = TRUE} = controlUp
  BY <1>2, <1>3
<1> HIDE DEF a, T, U, H, both, invalid, treatedUp, controlUp
<1>11. /\ IsFiniteSet(U) /\ IsFiniteSet(H) /\ IsFiniteSet(both)
       /\ Cardinality(U) \in Nat /\ Cardinality(H) \in Nat /\ Cardinality(both) \in Nat
       /\ (Cardinality(H) = 0 <=> H = {})
       /\ Cardinality(T) \in Nat /\ (Cardinality(T) = 0 <=> T = {})
  <2>1. U \subseteq DOMAIN s /\ H \subseteq DOMAIN s /\ both \subseteq DOMAIN s
    BY <1>2
  <2> QED
    BY <1>2, <2>1, PartIsFinite
<1>12. a.delta = Cardinality(U) - Cardinality(H)
  <2>1. Cardinality(treatedUp) = Cardinality(U) + Cardinality(both)
    BY <1>8, <1>11, DisjointUnion
  <2>2. Cardinality(controlUp) = Cardinality(H) + Cardinality(both)
    BY <1>9, <1>11, DisjointUnion
  <2>3. a.delta = Cardinality(treatedUp) - Cardinality(controlUp)
    BY <1>1, <1>10
  <2> QED
    BY <1>11, <2>1, <2>2, <2>3
<1>13. a.main = Cardinality(T) /\ a.positive = Cardinality(U) /\ a.negative = Cardinality(H)
  BY <1>1, <1>2, <1>10
<1> QED
  BY <1>5, <1>6, <1>11, <1>12, <1>13 DEF a, T, U, H

LEMMA ClosedLoopIsTreated ==
  ASSUME Reported, NEW s, NEW n, Tells(s, n), closed_loop_ready(s)
  PROVE  /\ TreatedOf(s) # {}
         /\ \A i \in TreatedOf(s) : s[i].control # None /\ s[i].intervention # None
         /\ Cardinality(HarmOf(s)) <= Cardinality(UpliftOf(s))
         /\ allow_continue_batch2(attribute_pair_summaries(s))
<1> DEFINE a == attribute_pair_summaries(s)
           up == Cardinality(UpliftOf(s))
           down == Cardinality(HarmOf(s))
<1>1. a.main > 0 /\ a.invalid = 0 /\ a.delta >= 0
  BY DEF closed_loop_ready
<1>2. /\ up \in Nat /\ down \in Nat
      /\ a.positive = up /\ a.negative = down /\ a.delta = up - down
      /\ a.main \in Nat /\ (a.main = 0 <=> TreatedOf(s) = {})
      /\ \A i \in TreatedOf(s) : s[i].control # None /\ s[i].intervention # None
  BY <1>1, AttributionCounts
<1> HIDE DEF a, up, down
<1>3. down <= up /\ TreatedOf(s) # {}
  BY <1>1, <1>2
<1>4. allow_continue_batch2(a)
  BY <1>1, <1>2, <1>3 DEF allow_continue_batch2
<1> QED
  BY <1>2, <1>3, <1>4 DEF a, up, down

LEMMA StabilityIsHarmless ==
  ASSUME Reported, build_pairs(rows) # << >>, NEW s, NEW n, Tells(s, n), stability_gates(s)
  PROVE  /\ HarmOf(s) = {} /\ closed_loop_ready(s)
         /\ stability_decision(s) # "negative_risk_review_required"
<1> DEFINE a == attribute_pair_summaries(s)
           against == Labelled(s, MainClass(s), "control_only")
           for == Labelled(s, MainClass(s), "intervention_only")
<1>1. a.invalid = 0 /\ MainClass(s) # {} /\ against = 0 /\ a.delta >= 0
  BY DEF stability_gates
<1>2. /\ a.main \in Nat /\ (a.main = 0 <=> TreatedOf(s) = {})
      /\ Cardinality(HarmOf(s)) = 0 <=> HarmOf(s) = {}
      /\ MainClass(s) = TreatedOf(s)
  BY <1>1, AttributionCounts
<1>3. HarmOf(s) = {}
  <2>1. {i \in MainClass(s) : s[i].label = "control_only"} = HarmOf(s)
    BY <1>2, MainIsTreated DEF HarmOf
  <2> QED
    BY <1>1, <1>2, <2>1 DEF Labelled
<1>4. for \in Nat
  <2>1. {i \in MainClass(s) : s[i].label = "intervention_only"} \subseteq DOMAIN s
    BY <1>2 DEF TreatedOf
  <2> QED
    BY <2>1, PartIsFinite DEF Labelled
<1>5. closed_loop_ready(s)
  BY <1>1, <1>2 DEF closed_loop_ready
<1>6. ~(against > for)
  BY <1>1, <1>4
<1>7. stability_decision(s) # "negative_risk_review_required"
  BY <1>6 DEF stability_decision
<1> QED
  BY <1>3, <1>5, <1>7

-----------------------------------------------------------------------------
(* The live-feature hook.                                                  *)

LEMMA MaxOfTwo ==
  ASSUME NEW a \in Int, NEW b \in Int
  PROVE  Max({a, b}) \in Int /\ Max({a, b}) >= a /\ Max({a, b}) >= b
<1>1. \E x \in {a, b} : \A y \in {a, b} : x >= y
  <2>1. CASE a >= b
    BY <2>1
  <2>2. CASE b >= a
    BY <2>2
  <2> QED
    BY <2>1, <2>2
<1> QED
  BY <1>1 DEF Max

LEMMA MinOfTwo ==
  ASSUME NEW a \in Int, NEW b \in Int
  PROVE  /\ Min({a, b}) \in Int /\ Min({a, b}) <= a /\ Min({a, b}) <= b
         /\ Min({a, b}) = a \/ Min({a, b}) = b
<1>1. \E x \in {a, b} : \A y \in {a, b} : x <= y
  <2>1. CASE a <= b
    BY <2>1
  <2>2. CASE b <= a
    BY <2>2
  <2> QED
    BY <2>1, <2>2
<1> QED
  BY <1>1 DEF Min

LEMMA MaxOfThree ==
  ASSUME NEW a \in Int, NEW b \in Int, NEW c \in Int
  PROVE  Max({a, b, c}) \in Int /\ Max({a, b, c}) >= c
<1>1. \E x \in {a, b, c} : \A y \in {a, b, c} : x >= y
  <2>1. CASE a >= b /\ a >= c
    BY <2>1
  <2>2. CASE b >= a /\ b >= c
    BY <2>2
  <2>3. CASE c >= a /\ c >= b
    BY <2>3
  <2> QED
    BY <2>1, <2>2, <2>3
<1> QED
  BY <1>1 DEF Max

\* The derived step is in the window the hook is tried on.
LEMMA DerivedStepIsInWindow ==
  ASSUME NEW row, DiagnosedRow(row), NEW policy
  PROVE  /\ synthetic_feature_window(row, policy) \in Int
         /\ derive_live_trigger_step(row, policy) \in 1..synthetic_feature_window(row, policy)
<1> DEFINE overlap == candidate_required_reason_overlap(row, policy)
           least == IF "same_action_family_streak" \in overlap THEN 1
                    ELSE IF overlap \cap Recurrent # {} THEN 2 ELSE 3
           streak == candidate_reference_streak(row)
           d == derive_live_trigger_step(row, policy)
           w == synthetic_feature_window(row, policy)
<1>1. least \in Int /\ least >= 1
  OBVIOUS
<1>2. row.streak \in Int /\ row.prefix \in Int
  BY DEF DiagnosedRow
<1>3. streak \in Int
  <2> DEFINE one == 1
             four == 4
             m == Min({row.streak, four})
  <2>1. one \in Int /\ four \in Int /\ streak = Max({one, m})
    BY DEF candidate_reference_streak
  <2> HIDE DEF one, four
  <2>2. m \in Int
    BY <1>2, <2>1, MinOfTwo
  <2> HIDE DEF m
  <2>3. Max({one, m}) \in Int
    BY <2>1, <2>2, MaxOfTwo
  <2> QED
    BY <2>1, <2>3
<1>4. d = Min({Max({least, streak}), Max({1, row.prefix})})
  BY DEF derive_live_trigger_step
<1>5. w = Min({Max({d + 1, 3}), Max({1, row.prefix, d + 1})})
  BY DEF synthetic_feature_window
<1> HIDE DEF overlap, least, streak, d, w
<1>6. Max({least, streak}) \in Int /\ Max({least, streak}) >= 1
  BY <1>1, <1>3, MaxOfTwo
<1>7. Max({1, row.prefix}) \in Int /\ Max({1, row.prefix}) >= 1
  <2>1. \A x \in Int : Max({1, x}) \in Int /\ Max({1, x}) >= 1
    BY MaxOfTwo
  <2> QED
    BY <1>2, <2>1
<1>8. d \in Int /\ d >= 1
  BY <1>4, <1>6, <1>7, MinOfTwo
<1>9. Max({d + 1, 3}) \in Int /\ Max({d + 1, 3}) >= d + 1
  BY <1>8, MaxOfTwo
<1>10. Max({1, row.prefix, d + 1}) \in Int /\ Max({1, row.prefix, d + 1}) >= d + 1
  <2>1. d + 1 \in Int
    BY <1>8
  <2> QED
    BY <1>2, <2>1, MaxOfThree
<1>11. w \in Int /\ w >= d + 1
  BY <1>5, <1>9, <1>10, MinOfTwo
<1> QED
  BY <1>8, <1>11 DEF d, w

\* Against repetition the hook injects at the derived step, if it injects at all.
LEMMA LiveHookWaits ==
  ASSUME NEW row, DiagnosedRow(row),
         NEW policy \in {"break_recurrence_and_replan", "same_action_escape"},
         NEW step \in dry_run_phase316_candidate(row, policy)
  PROVE  step = derive_live_trigger_step(row, policy)
<1> DEFINE d == derive_live_trigger_step(row, policy)
           window == 1..synthetic_feature_window(row, policy)
           matches == {s \in window : live_predicate_matches(row, policy, s)}
<1>1. matches # {} /\ step = Min(matches)
  BY DEF dry_run_phase316_candidate
<1>2. d \in window /\ window \in SUBSET Nat
  BY DerivedStepIsInWindow
<1>3. \A s : live_predicate_matches(row, policy, s) =>
               s >= d /\ live_predicate_matches(row, policy, d)
  <2>1. d >= d
    BY <1>2
  <2>2. CASE policy = "break_recurrence_and_replan"
    BY <2>1, <2>2 DEF live_predicate_matches
  <2>3. CASE policy = "same_action_escape"
    BY <2>1, <2>3 DEF live_predicate_matches
  <2> QED
    BY <2>2, <2>3
<1>4. d \in matches /\ \A s \in matches : s >= d
  BY <1>1, <1>2, <1>3
<1>5. matches \in SUBSET Nat
  BY <1>2
<1> HIDE DEF matches, d, window
<1>6. d \in Nat /\ \A s \in matches : s \in Nat
  BY <1>4, <1>5
<1>7. \E x \in matches : \A y \in matches : x <= y
  BY <1>4, <1>6
<1>8. Min(matches) \in matches /\ Min(matches) <= d
  BY <1>4, <1>7 DEF Min
<1>9. step >= d /\ step <= d /\ step \in Nat
  BY <1>1, <1>4, <1>6, <1>8
<1> QED
  BY <1>6, <1>9 DEF d

\* A row has at most one injection, so that as many injections as rows are one of each.
Fired(p) == dry_run_phase316_candidate(rows[pairs[p].row], pairs[p].policy)

LEMMA EveryHookFires ==
  ASSUME Len(pairs) \in Nat, DOMAIN pairs = 1..Len(pairs), Cardinality(Injections) = Len(pairs)
  PROVE  \A p \in DOMAIN pairs : Fired(p) # {}
<1> DEFINE W == {p \in DOMAIN pairs : Fired(p) # {}}
           f == [x \in Injections |-> x[1]]
<1>1. \A x : x \in Injections <=> (\E p \in DOMAIN pairs : \E step \in Fired(p) : x = <<p, step>>)
  BY DEF Injections, Fired
<1>2. \A p : \A s, t \in Fired(p) : s = t
  BY DEF Fired, dry_run_phase316_candidate
<1> HIDE DEF Fired
<1>3. f \in Injection(Injections, W)
  <2>1. f \in [Injections -> W]
    BY <1>1
  <2>2. \A x, y \in Injections : f[x] = f[y] => x = y
    BY <1>1, <1>2
  <2> QED
    BY <2>1, <2>2 DEF Injection, IsInjective
<1>4. IsFiniteSet(DOMAIN pairs) /\ Cardinality(DOMAIN pairs) = Len(pairs)
  <2>1. ASSUME NEW n \in Nat
        PROVE  IsFiniteSet(1..n) /\ Cardinality(1..n) = n
    <3>1. \A a, b \in Int : /\ IsFiniteSet(a..b)
                             /\ Cardinality(a..b) = IF a > b THEN 0 ELSE b - a + 1
      BY FS_Interval
    <3>2. 1 \in Int /\ n \in Int
      OBVIOUS
    <3>3. IsFiniteSet(1..n) /\ Cardinality(1..n) = IF 1 > n THEN 0 ELSE n - 1 + 1
      BY <3>1, <3>2, Zenon
    <3>4. (IF 1 > n THEN 0 ELSE n - 1 + 1) = n
      OBVIOUS
    <3> QED
      BY <3>3, <3>4, Zenon
  <2> QED
    BY <2>1
<1>5. /\ IsFiniteSet(W) /\ Cardinality(W) <= Len(pairs) /\ Cardinality(W) \in Nat
      /\ Cardinality(W) = Len(pairs) => W = DOMAIN pairs
  <2>1. W \in SUBSET (DOMAIN pairs)
    OBVIOUS
  <2> HIDE DEF W
  <2>2. /\ IsFiniteSet(W) /\ Cardinality(W) <= Cardinality(DOMAIN pairs)
        /\ Cardinality(DOMAIN pairs) = Cardinality(W) => DOMAIN pairs = W
    BY <1>4, <2>1, FS_Subset
  <2> QED
    BY <1>4, <2>2, FS_CardinalityType
<1> HIDE DEF W, f
<1>6. Cardinality(Injections) <= Cardinality(W)
  BY <1>3, <1>5, FS_Injection
<1>7. W = DOMAIN pairs
  BY <1>5, <1>6
<1> QED
  BY <1>7 DEF W

-----------------------------------------------------------------------------
(* The summary is sound, and so is what the gates read of it.              *)

LEMMA SummaryIsAlwaysTold ==
  ASSUME Plannable, CallLimit \in Nat, Reported
  PROVE  Spec => [](Planned /\ Summarized)
<1>1. Init => Summarized
  <2> SUFFICES ASSUME Init
               PROVE  Summarized
    OBVIOUS
  <2>1. summary = << >> /\ pairs = << >>
    BY DEF Init
  <2>2. << >> \in Seq({}) /\ Len(<< >>) <= Len(<< >>) /\ DOMAIN << >> = {}
    BY EmptySeq
  <2> QED
    BY <2>1, <2>2 DEF Summarized
<1>2. Planned /\ RunsAreTimely /\ Summarized /\ [Next]_vars => Summarized'
  BY SummaryKept
<1> QED
  BY <1>1, <1>2, RunsAreAlwaysTimely, PTL DEF Spec

\* The beginning of a summary tells of as many pairs.
LEMMA BeginningTells ==
  ASSUME Summarized, NEW n \in 1..Len(summary)
  PROVE  Tells(SubSeq(summary, 1, n), n)
<1>1. PICK C : summary \in Seq(C)
  BY DEF Summarized
<1>2. Len(summary) \in Nat /\ DOMAIN summary = 1..Len(summary)
  BY <1>1, LenProperties
<1> DEFINE s == SubSeq(summary, 1, n)
<1>3. Len(s) = n /\ DOMAIN s = 1..n /\ \A i \in 1..n : s[i] = summary[i]
  BY <1>1, <1>2
<1>4. \A i \in 1..n : Told(Hits(i), i, summary[i])
  <2>1. \A i \in DOMAIN summary : Told(Hits(i), i, summary[i])
    BY DEF Summarized
  <2>2. \A i \in 1..n : i \in DOMAIN summary
    BY <1>2
  <2> QED
    BY <2>1, <2>2
<1> HIDE DEF s
<1>5. Tells(s, n)
  BY <1>2, <1>3, <1>4 DEF Tells
<1> QED
  BY <1>5 DEF s

\* For any rows, quotas, targets and reports: the closed loop is ready only when pairs were
\* treated, all of them were evaluated and no more were harmed than lifted, counted by
\* label or by outcome; the stability gate allows no more than that and asks for no review
\* of a risk; and when the readiness gates pass the live hook of every candidate fires,
\* against repetition at the derived step (closed_loop.py: closed_loop_gates, stability.py:
\* stability_gates, batch_readiness.py: readiness_gates).
THEOREM ReadyIsAlwaysTreated ==
  ASSUME Plannable, CallLimit \in Nat, Reported
  PROVE  Spec => []ReadyIsTreated
<1>1. ASSUME Planned, Summarized
      PROVE  ReadyIsTreated
  <2> SUFFICES ASSUME NEW n \in 1..Len(summary)
               PROVE  LET s == SubSeq(summary, 1, n)
                          treated == {i \in DOMAIN s : Len(done[<<s[i].pair, "intervention">>].hits) = 1}
                          uplift == {i \in treated : s[i].intervention = TRUE /\ s[i].control = FALSE}
                          harm == {i \in treated : s[i].control = TRUE /\ s[i].intervention = FALSE}
                      IN  /\ closed_loop_ready(s) =>
                               /\ treated # {}
                               /\ \A i \in treated : None \notin {s[i].control, s[i].intervention}
                               /\ Cardinality(harm) <= Cardinality(uplift)
                               /\ allow_continue_batch2(attribute_pair_summaries(s))
                          /\ allow_next_small_batch(s) => harm = {} /\ closed_loop_ready(s)
                          /\ stability_decision(s) # "negative_risk_review_required"
                          /\ readiness_gates(s) => \A p \in DOMAIN pairs :
                               LET row == rows[pairs[p].row]
                               IN \E step \in dry_run_phase316_candidate(row, pairs[p].policy) :
                                    pairs[p].policy \in {"break_recurrence_and_replan",
                                                         "same_action_escape"} =>
                                      step = derive_live_trigger_step(row, pairs[p].policy)
    BY DEF ReadyIsTreated
  <2> DEFINE s == SubSeq(summary, 1, n)
             treated == {i \in DOMAIN s : Len(done[<<s[i].pair, "intervention">>].hits) = 1}
             uplift == {i \in treated : s[i].intervention = TRUE /\ s[i].control = FALSE}
             harm == {i \in treated : s[i].control = TRUE /\ s[i].intervention = FALSE}
  <2>1. Tells(s, n)
    BY <1>1, BeginningTells
  <2>2. /\ DiagnosedList(rows) /\ Len(pairs) \in Nat /\ DOMAIN pairs = 1..Len(pairs)
        /\ \A p \in DOMAIN pairs : pairs[p].row \in DOMAIN rows
    BY <1>1, PlanShape
  <2>3. build_pairs(rows) # << >>
    <3>1. Len(summary) <= Len(pairs) /\ Len(summary) \in Nat /\ Len(pairs) > 0
      <4>1. PICK C : summary \in Seq(C)
        BY <1>1 DEF Summarized
      <4>2. Len(summary) \in Nat /\ Len(summary) <= Len(pairs)
        BY <1>1, <4>1, LenProperties DEF Summarized
      <4> QED
        BY <2>2, <4>2
    <3>2. pairs # << >>
      BY <3>1
    <3> QED
      BY <1>1, <3>2 DEF Planned
  <2> HIDE DEF s
  <2>4. treated = TreatedOf(s) /\ uplift = UpliftOf(s) /\ harm = HarmOf(s)
    <3>1. \A i \in DOMAIN s : s[i].pair = i
      BY <2>1 DEF Tells, Told
    <3>2. treated = TreatedOf(s)
      BY <3>1 DEF TreatedOf, Hits
    <3> QED
      BY <3>2 DEF UpliftOf, HarmOf
  <2> HIDE DEF treated, uplift, harm
  <2>5. ASSUME closed_loop_ready(s)
        PROVE  /\ treated # {}
               /\ \A i \in treated : None \notin {s[i].control, s[i].intervention}
               /\ Cardinality(harm) <= Cardinality(uplift)
               /\ allow_continue_batch2(attribute_pair_summaries(s))
    BY <2>1, <2>4, <2>5, ClosedLoopIsTreated
  <2>6. ASSUME allow_next_small_batch(s)
        PROVE  harm = {} /\ closed_loop_ready(s)
    BY <2>1, <2>3, <2>4, <2>6, StabilityIsHarmless DEF allow_next_small_batch
  <2>7. stability_decision(s) # "negative_risk_review_required"
    <3>1. CASE stability_gates(s)
      BY <2>1, <2>3, <3>1, StabilityIsHarmless
    <3>2. CASE ~stability_gates(s)
      BY <3>2 DEF stability_decision
    <3> QED
      BY <3>1, <3>2
  <2>8. ASSUME readiness_gates(s), NEW p \in DOMAIN pairs
        PROVE  LET row == rows[pairs[p].row]
               IN \E step \in dry_run_phase316_candidate(row, pairs[p].policy) :
                    pairs[p].policy \in {"break_recurrence_and_replan", "same_action_escape"} =>
                      step = derive_live_trigger_step(row, pairs[p].policy)
    <3> DEFINE row == rows[pairs[p].row]
               policy == pairs[p].policy
    <3>1. Cardinality(Injections) = Len(pairs)
      BY <2>8 DEF readiness_gates
    <3>2. Fired(p) # {} /\ Fired(p) = dry_run_phase316_candidate(row, policy)
      BY <2>2, <3>1, EveryHookFires DEF Fired
    <3>3. DiagnosedRow(row)
      BY <2>2 DEF DiagnosedList
    <3> HIDE DEF row, policy
    <3>4. PICK step \in dry_run_phase316_candidate(row, policy) : TRUE
      BY <3>2
    <3>5. policy \in {"break_recurrence_and_replan", "same_action_escape"} =>
            step = derive_live_trigger_step(row, policy)
      BY <3>3, <3>4, LiveHookWaits
    <3> QED
      BY <3>4, <3>5 DEF row, policy
  <2> QED
    BY <2>5, <2>6, <2>7, <2>8 DEF s, treated, uplift, harm
<1> QED
  BY <1>1, SummaryIsAlwaysTold, PTL

=============================================================================
