-------------------------- MODULE ReviewDebtProofs --------------------------
(* Proofs about ReviewDebt and the gauges on top of it (DebtGauges), for any *)
(* runs, records, seats and reviewers, and without bound on writes and       *)
(* attestations.                                                             *)
EXTENDS DebtGauges, FunctionTheorems, FiniteSetTheorems, WellFoundedInduction, TLAPS

\* What create_attestation guarantees of what it stores, wherever the run goes
\* afterwards: under the current subject, only somebody with a seat in the
\* subject he signed names items to clear.
Accountable(a) == a.digest[1] = 2 /\ a.clears # {} => a.seat \in a.digest[2].seats

Posted == {a \in Attestation : Accountable(a)}

\* The attestations of a run, under stamps taken up to now.
Book(as, now) == \A i \in DOMAIN as : i \in Nat /\ 0 < i /\ i <= now /\ as[i] \in Posted

\* What a reviewer may be doing.
Request == {Idle} \cup [pc : {"posting"}, run : Runs, att : Posted]
                  \cup [pc : {"inserting"}, run : Runs, att : Posted, at : Nat]

\* Attestation number j of run r is stamped and not yet inserted.
OnItsWay(p, r, j) == rev[p].pc = "inserting" /\ rev[p].run = r /\ rev[p].at = j
Due(r, j) == \E p \in Reviewers : OnItsWay(p, r, j)

\* A stamp is of one attestation.
StampsAreUnique ==
  \A p \in Reviewers : rev[p].pc = "inserting" =>
     /\ 0 < rev[p].at /\ rev[p].at <= clock
     /\ \A r \in Runs : rev[p].at \notin DOMAIN atts[r]
     /\ \A q \in Reviewers : rev[q].pc = "inserting" /\ rev[q].at = rev[p].at => q = p

\* The inductive invariant: all that is posted, or about to be, is accountable,
\* and goes under a stamp of its own.
DebtInv == /\ stored \in [Runs -> RunRecord]
           /\ clock \in Nat
           /\ atts = [r \in Runs |-> atts[r]]
           /\ \A r \in Runs : Book(atts[r], clock)
           /\ rev \in [Reviewers -> Request]
           /\ StampsAreUnique

-----------------------------------------------------------------------------
(* Lemmas *)

LEMMA LeastExists ==
  ASSUME NEW C, C \subseteq Nat, C # {}
  PROVE  \E i \in C : \A j \in C : i <= j
<1> DEFINE R == {ss \in Nat \X Nat : ss[1] < ss[2]}
<1>1. IsWellFoundedOn(R, Nat)
  BY NatLessThanWellFounded DEF OpToRel
<1> HIDE DEF R
<1>2. PICK i \in C : \A j \in C : ~ (<<j, i>> \in R)
  BY <1>1, WFMin
<1>3. ASSUME NEW j \in C PROVE i <= j
  <2>1. i \in Nat /\ j \in Nat
    OBVIOUS
  <2>2. ~ (<<j, i>> \in R)
    BY <1>2
  <2>3. ~ (j < i)
    BY <2>1, <2>2 DEF R
  <2>4. QED
    BY <2>1, <2>3
<1>4. QED
  BY <1>3

\* The attestation that clears an item is the first of those that could.
LEMMA ClearedByFacts ==
  ASSUME NEW r, NEW rec, NEW as, NEW d,
         NEW C, C = Clearing(r, rec, as, d), C \subseteq Nat
  PROVE  /\ C = {} => cleared_by(r, rec, as, d) = 0
         /\ C # {} => /\ cleared_by(r, rec, as, d) \in C
                      /\ \A j \in C : cleared_by(r, rec, as, d) <= j
<1>1. CASE C = {}
  BY <1>1 DEF cleared_by
<1>2. CASE C # {}
  <2>1. cleared_by(r, rec, as, d) = CHOOSE i \in C : \A j \in C : i <= j
    BY <1>2 DEF cleared_by
  <2>2. \E i \in C : \A j \in C : i <= j
    BY <1>2, LeastExists
  <2>3. QED
    BY <1>2, <2>1, <2>2
<1>3. QED
  BY <1>1, <1>2

\* Stamps are numbers from 1.
LEMMA ClearingIndices ==
  ASSUME NEW r, NEW rec, NEW now, NEW as, Book(as, now), NEW d
  PROVE  /\ Clearing(r, rec, as, d) \subseteq Naming(as, d)
         /\ Naming(as, d) \subseteq DOMAIN as
         /\ Clearing(r, rec, as, d) \subseteq Nat
         /\ 0 \notin Clearing(r, rec, as, d)
<1>1. Clearing(r, rec, as, d) \subseteq Naming(as, d)
  BY DEF Clearing
<1>2. Naming(as, d) \subseteq DOMAIN as
  BY DEF Naming
<1>3. \A i \in DOMAIN as : i \in Nat /\ 0 < i
  BY Zenon DEF Book
<1>4. \A i \in Nat : 0 < i => i # 0
  OBVIOUS
<1>5. QED
  BY <1>1, <1>2, <1>3, <1>4

-----------------------------------------------------------------------------
(* The invariant *)

LEMMA InitDebtInv == Init => DebtInv
<1> SUFFICES ASSUME Init PROVE DebtInv
  OBVIOUS
<1>1. stored \in [Runs -> RunRecord]
  <2>1. PICK st \in Steps : stored = [r \in Runs |-> Placeholder(st)]
    BY DEF Init
  <2>2. Placeholder(st) \in RunRecord
    BY DEF Placeholder, RunRecord
  <2>3. QED
    BY <2>1, <2>2
<1>2. clock \in Nat /\ rev \in [Reviewers -> Request] /\ StampsAreUnique
  BY DEF Init, Request, StampsAreUnique, Idle
<1>3. atts = [r \in Runs |-> atts[r]] /\ \A r \in Runs : Book(atts[r], clock)
  <2>1. Legacy \subseteq Posted
    BY LegacyAssumption DEF Posted, Accountable
  <2>2. /\ atts = [r \in Runs |-> atts[r]]
        /\ \A r \in Runs : \E S \in SUBSET {1} : atts[r] \in [S -> Legacy]
    BY DEF Init
  <2>3. ASSUME NEW r \in Runs PROVE Book(atts[r], clock)
    <3>1. PICK S \in SUBSET {1} : atts[r] \in [S -> Legacy]
      BY <2>2
    <3>2. DOMAIN atts[r] = S /\ \A i \in S : atts[r][i] \in Legacy
      BY <3>1
    <3>3. \A i \in S : i \in Nat /\ 0 < i /\ i <= 1
      OBVIOUS
    <3> QED
      BY <2>1, <3>2, <3>3 DEF Book, Init
  <2> QED
    BY <2>2, <2>3
<1>4. QED
  BY <1>1, <1>2, <1>3 DEF DebtInv

\* An accepted request is about an attestation its author can answer for.
LEMMA AcceptableIsPosted ==
  ASSUME NEW r \in Runs, NEW rec \in RunRecord, NEW seat \in Seats \cup {NoSeat},
         NEW decision \in AttestationDecision, NEW clears \in SUBSET DecisionIds,
         Acceptable(rec, seat, decision, clears)
  PROVE  [seat |-> seat, decision |-> decision, clears |-> clears,
          digest |-> run_subject_digest(r, rec, SUBJECT_SCHEMA_VERSION)] \in Posted
<1> DEFINE digest == run_subject_digest(r, rec, SUBJECT_SCHEMA_VERSION)
           a == [seat |-> seat, decision |-> decision, clears |-> clears, digest |-> digest]
<1>1. digest[2].seats = rec.seats
  BY DEF run_subject_digest, canonical_subject, SUBJECT_SCHEMA_VERSION
<1>2. digest \in {run_subject_digest(q, c, v) : q \in Runs, c \in RunRecord, v \in {1, 2}}
  BY DEF SUBJECT_SCHEMA_VERSION
<1> HIDE DEF digest
<1>3. a \in Attestation
  BY <1>2 DEF Attestation
<1>4. Accountable(a)
  BY <1>1 DEF Accountable, Acceptable
<1>5. QED
  BY <1>3, <1>4 DEF Posted, digest

\* What a request does to the attestations and the stamps: it is changed alone.
LEMMA RequestKeeps ==
  ASSUME DebtInv, NEW p \in Reviewers, NEW x \in Request, rev' = [rev EXCEPT ![p] = x],
         x.pc # "inserting", UNCHANGED <<stored, atts, clock>>
  PROVE  DebtInv'
<1>1. rev' \in [Reviewers -> Request] /\ rev'[p] = x
      /\ \A q \in Reviewers : q # p => rev'[q] = rev[q]
  BY DEF DebtInv
<1>2. StampsAreUnique'
  BY <1>1 DEF DebtInv, StampsAreUnique
<1>3. QED
  BY <1>1, <1>2 DEF DebtInv

LEMMA NextKeepsDebtInv == DebtInv /\ [Next]_vars => DebtInv'
<1> SUFFICES ASSUME DebtInv, [Next]_vars PROVE DebtInv'
  OBVIOUS
<1>0. /\ stored \in [Runs -> RunRecord] /\ rev \in [Reviewers -> Request]
      /\ clock \in Nat /\ StampsAreUnique
      /\ atts = [r \in Runs |-> atts[r]] /\ \A r \in Runs : Book(atts[r], clock)
  BY DEF DebtInv
<1>a. ASSUME stored' \in [Runs -> RunRecord], UNCHANGED <<atts, rev, clock>> PROVE DebtInv'
  BY <1>0, <1>a DEF DebtInv, StampsAreUnique
<1>b. Idle \in Request /\ Idle.pc # "inserting"
  BY DEF Request, Idle
<1>1. ASSUME NEW r \in Runs, save_run(r) PROVE DebtInv'
  <2>1. PICK rec \in Records : stored' = [stored EXCEPT ![r] = rec]
    BY <1>1 DEF save_run
  <2>2. rec \in RunRecord
    BY RecordsAssumption
  <2>3. stored' \in [Runs -> RunRecord]
    BY <1>0, <2>1, <2>2
  <2>4. QED
    BY <1>1, <1>a, <2>3 DEF save_run
<1>2. ASSUME NEW r \in Runs, fail_placeholder(r) PROVE DebtInv'
  <2>1. stored[r] \in RunRecord
    BY <1>0
  <2>2. [status |-> "failed", seats |-> stored[r].seats, steps |-> stored[r].steps,
         flagged |-> stored[r].flagged, denied |-> stored[r].denied] \in RunRecord
    BY <2>1 DEF RunRecord
  <2>3. stored' \in [Runs -> RunRecord]
    BY <1>0, <1>2, <2>2 DEF fail_placeholder
  <2>4. QED
    BY <1>2, <1>a, <2>3 DEF fail_placeholder
<1>3. ASSUME NEW p \in Reviewers, create_attestation_read(p) PROVE DebtInv'
  <2>1. PICK r \in Runs, seat \in Seats \cup {NoSeat}, decision \in AttestationDecision,
             clears \in SUBSET DecisionIds :
          /\ Acceptable(stored[r], seat, decision, clears)
          /\ rev' = [rev EXCEPT ![p] =
               [pc |-> "posting", run |-> r,
                att |-> [seat |-> seat, decision |-> decision, clears |-> clears,
                         digest |-> run_subject_digest(r, stored[r], SUBJECT_SCHEMA_VERSION)]]]
    BY <1>3 DEF create_attestation_read
  <2> DEFINE a == [seat |-> seat, decision |-> decision, clears |-> clears,
                   digest |-> run_subject_digest(r, stored[r], SUBJECT_SCHEMA_VERSION)]
             x == [pc |-> "posting", run |-> r, att |-> a]
  <2>2. stored[r] \in RunRecord
    BY <1>0
  <2>3. a \in Posted
    BY <2>1, <2>2, AcceptableIsPosted
  <2>4. rev' = [rev EXCEPT ![p] = x]
    BY <2>1
  <2> HIDE DEF a
  <2>5. x \in Request /\ x.pc # "inserting"
    BY <2>3 DEF Request
  <2> HIDE DEF x
  <2>6. UNCHANGED <<stored, atts, clock>>
    BY <1>3 DEF create_attestation_read
  <2>7. QED
    BY <2>4, <2>5, <2>6, RequestKeeps
<1>4. ASSUME NEW p \in Reviewers, create_attestation_fails(p) PROVE DebtInv'
  <2>1. rev' = [rev EXCEPT ![p] = Idle] /\ UNCHANGED <<stored, atts, clock>>
    BY <1>4 DEF create_attestation_fails
  <2>2. QED
    BY <1>b, <2>1, RequestKeeps
<1>5. ASSUME NEW p \in Reviewers, save_attestation_stamp(p) PROVE DebtInv'
  <2> DEFINE x == [pc |-> "inserting", run |-> rev[p].run, att |-> rev[p].att, at |-> clock']
  <2>1. clock' = clock + 1 /\ rev' = [rev EXCEPT ![p] = x] /\ UNCHANGED <<stored, atts>>
    BY <1>5 DEF save_attestation_stamp
  <2>2. rev[p] \in [pc : {"posting"}, run : Runs, att : Posted]
    BY <1>0, <1>5 DEF save_attestation_stamp, Idle, Request
  <2>3. clock' \in Nat /\ clock < clock' /\ 0 < clock'
    BY <1>0, <2>1
  <2>4. x \in Request /\ x.pc = "inserting" /\ x.at = clock'
    BY <2>2, <2>3 DEF Request
  <2> HIDE DEF x
  <2>5. rev' \in [Reviewers -> Request] /\ rev'[p] = x
        /\ \A q \in Reviewers : q # p => rev'[q] = rev[q]
    BY <1>0, <2>1, <2>4
  <2>6. \A r \in Runs : Book(atts'[r], clock')
    BY <1>0, <2>1, <2>3 DEF Book
  <2>7. \A r \in Runs : clock' \notin DOMAIN atts'[r]
    BY <1>0, <2>1, <2>3 DEF Book
  <2>8. \A q \in Reviewers : q # p /\ rev'[q].pc = "inserting" =>
           /\ 0 < rev'[q].at /\ rev'[q].at <= clock' /\ rev'[q].at # clock'
           /\ \A r \in Runs : rev'[q].at \notin DOMAIN atts'[r]
           /\ \A u \in Reviewers : u # p /\ rev'[u].pc = "inserting" /\ rev'[u].at = rev'[q].at => u = q
    <3> SUFFICES ASSUME NEW q \in Reviewers, q # p, rev'[q].pc = "inserting"
                 PROVE  /\ 0 < rev'[q].at /\ rev'[q].at <= clock' /\ rev'[q].at # clock'
                        /\ \A r \in Runs : rev'[q].at \notin DOMAIN atts'[r]
                        /\ \A u \in Reviewers : u # p /\ rev'[u].pc = "inserting" /\ rev'[u].at = rev'[q].at => u = q
      OBVIOUS
    <3>1. rev'[q] = rev[q] /\ rev[q] \in Request /\ rev[q].pc = "inserting"
      BY <1>0, <2>5
    <3>2. rev[q].at \in Nat
      BY <3>1 DEF Request, Idle
    <3>3. 0 < rev[q].at /\ rev[q].at <= clock
      BY <1>0, <3>1 DEF StampsAreUnique
    <3>4. 0 < rev'[q].at /\ rev'[q].at <= clock' /\ rev'[q].at # clock'
      BY <1>0, <2>1, <3>1, <3>2, <3>3
    <3>5. \A r \in Runs : rev'[q].at \notin DOMAIN atts'[r]
      BY <1>0, <2>1, <3>1 DEF StampsAreUnique
    <3>6. \A u \in Reviewers : u # p /\ rev'[u].pc = "inserting" /\ rev'[u].at = rev'[q].at => u = q
      BY <1>0, <2>5, <3>1 DEF StampsAreUnique
    <3> QED
      BY <3>4, <3>5, <3>6
  <2>9. StampsAreUnique'
    BY <2>3, <2>4, <2>5, <2>7, <2>8 DEF StampsAreUnique
  <2>10. QED
    BY <1>0, <2>1, <2>3, <2>5, <2>6, <2>9 DEF DebtInv
<1>6. ASSUME NEW p \in Reviewers, save_attestation(p) PROVE DebtInv'
  <2> DEFINE q == rev[p].run
             at == rev[p].at
             as == Inserted(atts[q], at, rev[p].att)
  <2>1. rev[p].pc = "inserting" /\ atts' = [atts EXCEPT ![q] = as]
        /\ rev' = [rev EXCEPT ![p] = Idle] /\ UNCHANGED <<stored, clock>>
    BY <1>6 DEF save_attestation
  <2>2. q \in Runs /\ rev[p].att \in Posted /\ at \in Nat /\ 0 < at /\ at <= clock
    BY <1>0, <2>1 DEF Request, Idle, StampsAreUnique
  <2>3. /\ DOMAIN as = DOMAIN atts[q] \cup {at} /\ as[at] = rev[p].att
        /\ \A i \in DOMAIN atts[q] : i # at => as[i] = atts[q][i]
    BY DEF Inserted
  <2>4. Book(atts[q], clock)
    BY <1>0, <2>2
  <2> HIDE DEF as, at, q
  <2>5. Book(as, clock)
    BY <2>2, <2>3, <2>4 DEF Book
  <2>6. atts' = [r \in Runs |-> atts'[r]] /\ \A r \in Runs : atts'[r] = IF r = q THEN as ELSE atts[r]
    BY <1>0, <2>1
  <2>7. \A r \in Runs : Book(atts'[r], clock')
    BY <1>0, <2>1, <2>5, <2>6
  <2>8. rev' \in [Reviewers -> Request] /\ rev'[p].pc # "inserting"
        /\ \A u \in Reviewers : u # p => rev'[u] = rev[u]
    BY <1>0, <1>b, <2>1
  <2>9. StampsAreUnique'
    <3> SUFFICES ASSUME NEW u \in Reviewers, rev'[u].pc = "inserting"
                 PROVE  /\ 0 < rev'[u].at /\ rev'[u].at <= clock'
                        /\ \A r \in Runs : rev'[u].at \notin DOMAIN atts'[r]
                        /\ \A v \in Reviewers : rev'[v].pc = "inserting" /\ rev'[v].at = rev'[u].at => v = u
      BY DEF StampsAreUnique
    <3>1. u # p /\ rev'[u] = rev[u] /\ rev[u].pc = "inserting"
      BY <2>8
    <3>2. rev[u].at # at
      BY <1>0, <2>1, <3>1 DEF StampsAreUnique, at
    <3>3. \A r \in Runs : rev[u].at \in DOMAIN atts'[r] => rev[u].at \in DOMAIN atts[r]
      BY <2>3, <2>6, <3>2
    <3>4. \A r \in Runs : rev'[u].at \notin DOMAIN atts'[r]
      BY <1>0, <3>1, <3>3 DEF StampsAreUnique
    <3>5. \A v \in Reviewers : rev'[v].pc = "inserting" /\ rev'[v].at = rev'[u].at => v = u
      BY <1>0, <2>8, <3>1 DEF StampsAreUnique
    <3>6. 0 < rev'[u].at /\ rev'[u].at <= clock'
      BY <1>0, <2>1, <3>1 DEF StampsAreUnique
    <3> QED
      BY <3>4, <3>5, <3>6
  <2>10. QED
    BY <1>0, <2>1, <2>6, <2>7, <2>8, <2>9 DEF DebtInv
<1>7. CASE UNCHANGED vars
  BY <1>0, <1>7 DEF vars, DebtInv, StampsAreUnique
<1>8. QED
  BY <1>1, <1>2, <1>3, <1>4, <1>5, <1>6, <1>7 DEF Next

LEMMA DebtInvAlways == Spec => []DebtInv
  BY InitDebtInv, NextKeepsDebtInv, PTL DEF Spec

-----------------------------------------------------------------------------
(* Clearing is accountable *)

\* Of a run and an item, at one moment: whoever clears it holds a seat of the
\* run as it is stored, and did not reject it.
LEMMA ClearingIsAccountable ==
  ASSUME DebtInv, NEW r \in Runs, NEW d,
         NEW i \in Clearing(r, stored[r], atts[r], d)
  PROVE  /\ atts[r][i].seat \in stored[r].seats
         /\ atts[r][i].decision # "reject"
         /\ atts[r][i].digest[1] = 2
<1> DEFINE a == atts[r][i]
<1>1. Book(atts[r], clock)
  BY DEF DebtInv
<1>2. i \in DOMAIN atts[r]
  BY <1>1, ClearingIndices
<1>3. a \in Posted
  BY <1>1, <1>2 DEF Book
<1>4. a.decision # "reject" /\ d \in a.clears
  BY DEF Clearing, Naming
<1>5. subject_matches(r, stored[r], a.digest)
  BY DEF Clearing
<1>6. a.digest[1] = 2
  BY <1>5 DEF subject_matches, CLEARING_VERSIONS
<1>7. a.digest = <<2, canonical_subject(r, stored[r], 2)>>
  BY <1>5, <1>6 DEF subject_matches, run_subject_digest
<1>8. a.digest[2].seats = stored[r].seats
  BY <1>7 DEF canonical_subject
<1>9. a.seat \in a.digest[2].seats
  BY <1>3, <1>4, <1>6 DEF Posted, Accountable
<1>10. QED
  BY <1>4, <1>6, <1>8, <1>9

\* create_attestation and compute_review_debt, with any number of reviewers whose
\* requests interleave with each other and with the worker's writes: debt is
\* cleared only by somebody who can answer for it.
THEOREM DebtIsAccountable == Spec => []ClearedIsAccountable
<1>1. DebtInv => ClearedIsAccountable
  <2> SUFFICES ASSUME DebtInv, NEW r \in Runs, NEW d \in stored[r].flagged,
                      ClearedBy(r, d) # 0
               PROVE  LET a == atts[r][ClearedBy(r, d)]
                      IN  /\ a.seat \in stored[r].seats
                          /\ a.decision # "reject"
                          /\ a.digest[1] = 2
    BY DEF ClearedIsAccountable
  <2>1. Book(atts[r], clock)
    BY DEF DebtInv
  <2>2. Clearing(r, stored[r], atts[r], d) \subseteq Nat
    BY <2>1, ClearingIndices
  <2>3. ClearedBy(r, d) \in Clearing(r, stored[r], atts[r], d)
    BY <2>2, ClearedByFacts DEF ClearedBy
  <2>4. QED
    BY <2>3, ClearingIsAccountable
<1>2. QED
  BY DebtInvAlways, <1>1, PTL

-----------------------------------------------------------------------------
(* Clearing is stable *)

\* The digest of the current version says the same of two records exactly when
\* their subjects are the same.
LEMMA MatchesBySubject ==
  ASSUME NEW r, NEW rec, NEW rec2, NEW digest,
         canonical_subject(r, rec, 2) = canonical_subject(r, rec2, 2)
  PROVE  subject_matches(r, rec, digest) <=> subject_matches(r, rec2, digest)
<1>1. run_subject_digest(r, rec, 2) = run_subject_digest(r, rec2, 2)
  BY DEF run_subject_digest
<1>2. \A c : subject_matches(r, c, digest)
               <=> digest[1] = 2 /\ digest = run_subject_digest(r, c, 2)
  BY DEF subject_matches, CLEARING_VERSIONS
<1>3. QED
  BY <1>1, <1>2

\* A step leaves the attestations of a run, or adds one that was on its way.
LEMMA AttestationsGrow ==
  ASSUME DebtInv, [Next]_vars, NEW r \in Runs
  PROVE  /\ DOMAIN atts[r] \subseteq DOMAIN atts'[r]
         /\ \A i \in DOMAIN atts[r] : atts'[r][i] = atts[r][i]
         /\ \A j \in DOMAIN atts'[r] : j \in DOMAIN atts[r] \/ Due(r, j)
<1>1. CASE atts'[r] = atts[r]
  BY <1>1
<1>2. ASSUME NEW p \in Reviewers, save_attestation(p), rev[p].run = r
      PROVE  /\ DOMAIN atts[r] \subseteq DOMAIN atts'[r]
             /\ \A i \in DOMAIN atts[r] : atts'[r][i] = atts[r][i]
             /\ \A j \in DOMAIN atts'[r] : j \in DOMAIN atts[r] \/ Due(r, j)
  <2> DEFINE at == rev[p].at
  <2>1. rev[p].pc = "inserting" /\ atts'[r] = Inserted(atts[r], at, rev[p].att)
    BY <1>2 DEF save_attestation, DebtInv
  <2>2. at \notin DOMAIN atts[r]
    BY <2>1 DEF DebtInv, StampsAreUnique
  <2>3. Due(r, at)
    BY <1>2, <2>1 DEF Due, OnItsWay
  <2> HIDE DEF at
  <2>4. /\ DOMAIN atts'[r] = DOMAIN atts[r] \cup {at}
        /\ \A i \in DOMAIN atts[r] : atts'[r][i] = atts[r][i]
    BY <2>1, <2>2 DEF Inserted
  <2> QED
    BY <2>3, <2>4
<1>3. ASSUME NEW p \in Reviewers, save_attestation(p), rev[p].run # r
      PROVE  atts'[r] = atts[r]
  BY <1>3 DEF save_attestation, DebtInv
<1>4. CASE \E q \in Runs : save_run(q) \/ fail_placeholder(q)
  BY <1>1, <1>4 DEF save_run, fail_placeholder
<1>5. CASE \E p \in Reviewers : \/ create_attestation_read(p) \/ create_attestation_fails(p)
                                \/ save_attestation_stamp(p)
  BY <1>1, <1>5
  DEF create_attestation_read, create_attestation_fails, save_attestation_stamp
<1>6. CASE UNCHANGED vars
  BY <1>1, <1>6 DEF vars
<1>7. CASE \E p \in Reviewers : save_attestation(p)
  BY <1>1, <1>2, <1>3, <1>7
<1>8. QED
  BY <1>4, <1>5, <1>6, <1>7 DEF Next

\* What named an item goes on naming it; new ones were on their way.
LEMMA NamingGrows ==
  ASSUME DebtInv, [Next]_vars, NEW r \in Runs, NEW d
  PROVE  /\ Naming(atts[r], d) \subseteq Naming(atts'[r], d)
         /\ \A j \in Naming(atts'[r], d) : j \in Naming(atts[r], d) \/ Due(r, j)
  BY AttestationsGrow DEF Naming

\* While the subject stays, what cleared an item goes on clearing it.
LEMMA ClearingGrows ==
  ASSUME DebtInv, [Next]_vars, NEW r \in Runs, NEW d, Subject(r)' = Subject(r)
  PROVE  LET C == Clearing(r, stored[r], atts[r], d)
             D == Clearing(r, stored'[r], atts'[r], d)
         IN  C \subseteq D /\ \A j \in D : j \in C \/ Due(r, j)
<1>1. canonical_subject(r, stored'[r], 2) = canonical_subject(r, stored[r], 2)
  BY DEF Subject, SUBJECT_SCHEMA_VERSION
<1>2. \A digest : subject_matches(r, stored[r], digest)
                    <=> subject_matches(r, stored'[r], digest)
  BY <1>1, MatchesBySubject
<1>3. Naming(atts[r], d) \subseteq DOMAIN atts[r]
  BY DEF Naming
<1>4. \A i \in DOMAIN atts[r] : atts'[r][i] = atts[r][i]
  BY AttestationsGrow
<1>5. /\ Naming(atts[r], d) \subseteq Naming(atts'[r], d)
      /\ \A j \in Naming(atts'[r], d) : j \in Naming(atts[r], d) \/ Due(r, j)
  BY NamingGrows
<1>6. QED
  BY <1>2, <1>3, <1>4, <1>5, Zenon DEF Clearing

\* compute_review_debt over save_attestation's stamps: with overwrites of a run and
\* requests that interleave in any way, while what was reviewed stays the same a
\* clearing stands or is taken over by an insert that was stamped before it, and a
\* lost clearing shows as stale.
THEOREM ClearingStays == Spec => ClearingIsStable
<1>1. ASSUME DebtInv, [Next]_vars, NEW r \in Runs, NEW d \in stored[r].flagged,
             ClearedBy(r, d) # 0
      PROVE  /\ Subject(r)' = Subject(r) => \/ ClearedBy(r, d)' = ClearedBy(r, d)
                                            \/ TakenOver(r, d)
             /\ d \in stored'[r].flagged /\ ClearedBy(r, d)' = 0 =>
                   stale_attestation(r, stored[r], atts[r], d)'
  <2> DEFINE C == Clearing(r, stored[r], atts[r], d)
             D == Clearing(r, stored'[r], atts'[r], d)
             c == ClearedBy(r, d)
             e == ClearedBy(r, d)'
  <2>1. /\ C \subseteq Naming(atts[r], d)
        /\ C \subseteq Nat /\ D \subseteq Nat /\ 0 \notin D
    <3>1. Book(atts[r], clock)
      BY <1>1 DEF DebtInv
    <3>2. Book(atts'[r], clock')
      BY <1>1, NextKeepsDebtInv DEF DebtInv
    <3>3. C \subseteq Naming(atts[r], d) /\ C \subseteq Nat
      BY <3>1, ClearingIndices
    <3>4. D \subseteq Nat /\ 0 \notin D
      BY <3>2, ClearingIndices
    <3> QED
      BY <3>3, <3>4
  <2>2. c = cleared_by(r, stored[r], atts[r], d)
    BY DEF ClearedBy
  <2>3. e = cleared_by(r, stored'[r], atts'[r], d)
    BY DEF ClearedBy
  <2>4. c \in C /\ \A j \in C : c <= j
    BY <1>1, <2>1, <2>2, ClearedByFacts
  <2>5. D # {} => e \in D /\ \A j \in D : e <= j
    BY <2>1, <2>3, ClearedByFacts
  <2>6. ASSUME Subject(r)' = Subject(r) PROVE e = c \/ TakenOver(r, d)
    <3>1. C \subseteq D /\ \A j \in D : j \in C \/ Due(r, j)
      BY <1>1, <2>6, ClearingGrows
    <3>2. \A p \in Reviewers : OnItsWay(p, r, e) /\ e < c => TakenOver(r, d)
      BY DEF OnItsWay, TakenOver
    <3> HIDE DEF C, D, c, e
    <3>3. e \in D /\ e <= c
      BY <2>4, <2>5, <3>1
    <3>4. c \in Nat /\ e \in Nat
      BY <2>1, <2>4, <3>3
    <3>5. CASE e \in C
      BY <2>4, <3>3, <3>4, <3>5
    <3>6. CASE Due(r, e) /\ e # c
      BY <3>2, <3>3, <3>4, <3>6 DEF Due
    <3> QED
      BY <3>1, <3>3, <3>5, <3>6
  <2>7. ASSUME e = 0 PROVE stale_attestation(r, stored[r], atts[r], d)'
    <3>1. D = {}
      BY <2>1, <2>5, <2>7
    <3>2. Naming(atts'[r], d) # {}
      BY <1>1, <2>1, <2>4, NamingGrows
    <3>3. QED
      BY <3>1, <3>2 DEF stale_attestation
  <2>8. QED
    BY <2>6, <2>7
<1>2. DebtInv /\ [Next]_vars =>
        [\A r \in Runs : \A d \in stored[r].flagged : ClearedBy(r, d) # 0 =>
           /\ Subject(r)' = Subject(r) => \/ ClearedBy(r, d)' = ClearedBy(r, d)
                                          \/ TakenOver(r, d)
           /\ d \in stored'[r].flagged /\ ClearedBy(r, d)' = 0 =>
                 stale_attestation(r, stored[r], atts[r], d)']_vars
  BY <1>1
<1>3. QED
  BY DebtInvAlways, <1>2, PTL DEF Spec, ClearingIsStable

-----------------------------------------------------------------------------
(* The gauges.  One thread scrapes at a time: two that share the gauges can *)
(* leave a label of neither.                                                *)

OneScraper == IsFiniteSet(Runs) /\ \A s, t \in Scrapers : s = t

\* The items of the runs in rs, as read: records recs, attestations A.
Collected(rs, recs, A) == UNION {ItemsOf(r, recs[r], A[r]) : r \in rs}

\* While nothing is written, what was read is what is stored.
AsStored(t, recs, A, rs) ==
  t \in quiet => recs = stored /\ \A r \in rs : A[r] = atts[r]

AllGauges == <<"open", "cleared", "stale">>
Rests == {AllGauges, <<"cleared", "stale">>, <<"stale">>, << >>}
GaugesIn(todo) == {todo[i] : i \in 1..Len(todo)}

\* Where a scrape is, if A are the attestations it reads.
Reading(t, A) ==
  LET s == scrape[t] IN
  /\ s = [pc |-> "reading", runs |-> s.runs, todo |-> s.todo, items |-> s.items]
  /\ s.todo \subseteq Runs
  /\ s.items = Collected(Runs \ s.todo, s.runs, A)
  /\ AsStored(t, s.runs, A, Runs \ s.todo)

Whole(t, A) ==
  LET s == scrape[t] IN
  /\ s.items = Collected(Runs, s.runs, A)
  /\ AsStored(t, s.runs, A, Runs)

Wiping(t, A) ==
  LET s == scrape[t] IN
  /\ s = [pc |-> "clear", runs |-> s.runs, todo |-> s.todo, items |-> s.items]
  /\ s.todo \in Rests \ {<< >>}
  /\ \A g \in Gauge \ GaugesIn(s.todo) : gauges[g] = Zero
  /\ Whole(t, A)

Setting(t, A) ==
  LET s == scrape[t] IN
  /\ s = [pc |-> "set", runs |-> s.runs, todo |-> s.todo, items |-> s.items]
  /\ s.todo \in Rests \ {<< >>}
  /\ \A g \in GaugesIn(s.todo) : gauges[g] = Zero
  /\ \A g \in Gauge \ GaugesIn(s.todo) : gauges[g] = Tally(s.items, g)
  /\ Whole(t, A)

Rendering(t, A) ==
  LET s == scrape[t] IN
  /\ s.pc = "render"
  /\ \A g \in Gauge : gauges[g] = Tally(s.items, g)
  /\ Whole(t, A)

Shown(t, A) ==
  LET s == scrape[t] IN
  /\ s.pc = "rendered"
  /\ \A g \in Gauge : s.out[g] = Tally(Collected(Runs, s.runs, A), g)
  /\ AsStored(t, s.runs, A, Runs)

ScrapeOf(t, A) == \/ Reading(t, A) \/ Wiping(t, A) \/ Setting(t, A)
                  \/ Rendering(t, A) \/ Shown(t, A)

GInv ==
  /\ DOMAIN gauges = Gauge /\ gauges = [g \in Gauge |-> gauges[g]]
  /\ scrape = [t \in Scrapers |-> scrape[t]]
  /\ \A t \in Scrapers :
       \/ scrape[t] = NoScrape
       \/ \E A : ScrapeOf(t, A)

-----------------------------------------------------------------------------
(* Counting *)

ItemOf(r, rec, as, d) ==
  [run |-> r, item |-> [decision_id |-> d, cleared_by |-> cleared_by(r, rec, as, d),
                        stale |-> stale_attestation(r, rec, as, d)]]

Flagging(recs, d) == {r \in Runs : d \in recs[r].flagged}
Named(items, d) == {it \in items : it.item.decision_id = d}
Counted(items, g, d) == {it \in items : it.item.decision_id = d /\ Counts(g, it.item)}

\* Each run that flags a decision has one item of it (compute_review_debt).
LEMMA NamedIsFlagging ==
  ASSUME NEW recs, NEW A, NEW d
  PROVE  Named(Collected(Runs, recs, A), d) = {ItemOf(r, recs[r], A[r], d) : r \in Flagging(recs, d)}
<1> DEFINE D(r) == {[decision_id |-> e, cleared_by |-> cleared_by(r, recs[r], A[r], e),
                     stale |-> stale_attestation(r, recs[r], A[r], e)] : e \in recs[r].flagged}
<1>1. \A r : ItemsOf(r, recs[r], A[r]) = {[run |-> r, item |-> i] : i \in D(r)}
  BY DEF ItemsOf, compute_review_debt
<1>2. \A r : ItemsOf(r, recs[r], A[r]) = {ItemOf(r, recs[r], A[r], e) : e \in recs[r].flagged}
  BY <1>1 DEF ItemOf
<1>3. \A it : it \in Collected(Runs, recs, A) <=>
        \E r \in Runs : \E e \in recs[r].flagged : it = ItemOf(r, recs[r], A[r], e)
  BY <1>2 DEF Collected
<1>4. \A r, e : ItemOf(r, recs[r], A[r], e).item.decision_id = e
  BY DEF ItemOf
<1>5. \A it : it \in Named(Collected(Runs, recs, A), d) <=>
        \E r \in Flagging(recs, d) : it = ItemOf(r, recs[r], A[r], d)
  <2>1. ASSUME NEW it \in Named(Collected(Runs, recs, A), d)
        PROVE  \E r \in Flagging(recs, d) : it = ItemOf(r, recs[r], A[r], d)
    <3>1. it \in Collected(Runs, recs, A) /\ it.item.decision_id = d
      BY DEF Named
    <3>2. PICK r \in Runs : \E e \in recs[r].flagged : it = ItemOf(r, recs[r], A[r], e)
      BY <1>3, <3>1
    <3>3. PICK e \in recs[r].flagged : it = ItemOf(r, recs[r], A[r], e)
      BY <3>2
    <3>4. e = d
      BY <1>4, <3>1, <3>3
    <3> QED
      BY <3>3, <3>4 DEF Flagging
  <2>2. ASSUME NEW r \in Flagging(recs, d)
        PROVE  ItemOf(r, recs[r], A[r], d) \in Named(Collected(Runs, recs, A), d)
    <3>1. r \in Runs /\ d \in recs[r].flagged
      BY DEF Flagging
    <3>2. ItemOf(r, recs[r], A[r], d) \in Collected(Runs, recs, A)
      BY <1>3, <3>1
    <3> QED
      BY <1>4, <3>2 DEF Named
  <2> QED
    BY <2>1, <2>2
<1> QED
  BY <1>5

\* So the items of a decision are as many as the runs that flag it.
LEMMA NamedCounted ==
  ASSUME NEW recs, NEW A, NEW d, IsFiniteSet(Runs)
  PROVE  /\ IsFiniteSet(Named(Collected(Runs, recs, A), d))
         /\ Cardinality(Named(Collected(Runs, recs, A), d)) = Cardinality(Flagging(recs, d))
<1> DEFINE F == Flagging(recs, d)
           item(r) == ItemOf(r, recs[r], A[r], d)
           N == {item(r) : r \in F}
           f == [r \in F |-> item(r)]
<1>1. IsFiniteSet(F)
  BY FS_Subset DEF Flagging
<1>2. \A r : item(r).run = r
  BY DEF ItemOf
<1> HIDE DEF F, item
<1>3. f \in [F -> N] /\ \A r \in F : f[r] = item(r)
  OBVIOUS
<1>4. \A q, r \in F : f[q] = f[r] => q = r
  BY <1>2, <1>3
<1>5. \A it \in N : \E r \in F : f[r] = it
  BY <1>3
<1> HIDE DEF f, N
<1>6. f \in Bijection(F, N)
  BY <1>3, <1>4, <1>5, Fun_IsBij
<1>7. ExistsBijection(F, N)
  BY <1>6 DEF ExistsBijection
<1>8. IsFiniteSet(N) /\ Cardinality(N) = Cardinality(F)
  BY <1>1, <1>7, FS_Bijection
<1>9. Named(Collected(Runs, recs, A), d) = N
  BY NamedIsFlagging DEF N, F, item
<1> QED
  BY <1>8, <1>9 DEF F

\* A run's item of a decision is counted open or cleared, and stale only if open.
LEMMA TallyFacts ==
  ASSUME NEW recs, NEW A, NEW items, items = Collected(Runs, recs, A), IsFiniteSet(Runs),
         NEW d \in DecisionIds
  PROVE  /\ \A g \in Gauge : Tally(items, g)[d] \in Nat
         /\ Tally(items, "open")[d] + Tally(items, "cleared")[d] = Cardinality(Flagging(recs, d))
         /\ Tally(items, "stale")[d] <= Tally(items, "open")[d]
<1> DEFINE N == Named(items, d)
           C(g) == Counted(items, g, d)
<1>1. IsFiniteSet(N) /\ Cardinality(N) = Cardinality(Flagging(recs, d))
  BY NamedCounted
<1>2. \A g \in Gauge : Tally(items, g)[d] = Cardinality(C(g)) /\ C(g) \subseteq N
  BY DEF Tally, Counted, Named
<1>3. C("open") \cup C("cleared") = N /\ C("open") \cap C("cleared") = {} /\ C("stale") \subseteq C("open")
  BY DEF Counted, Named, Counts
<1> HIDE DEF N, C
<1>4. \A g \in Gauge : IsFiniteSet(C(g)) /\ Cardinality(C(g)) \in Nat
  BY <1>1, <1>2, FS_Subset, FS_CardinalityType
<1>5. "open" \in Gauge /\ "cleared" \in Gauge /\ "stale" \in Gauge
  BY DEF Gauge
<1>6. Cardinality(C("open")) + Cardinality(C("cleared")) = Cardinality(N)
  <2> DEFINE o == C("open")
             c == C("cleared")
  <2>1. IsFiniteSet(o) /\ IsFiniteSet(c) /\ Cardinality(o) \in Nat /\ Cardinality(c) \in Nat
    BY <1>4, <1>5
  <2>2. o \cup c = N /\ o \cap c = {}
    BY <1>3
  <2> HIDE DEF o, c
  <2>3. Cardinality(o \cup c) = Cardinality(o) + Cardinality(c) - Cardinality(o \cap c)
    BY <2>1, FS_Union
  <2>4. Cardinality({}) = 0
    BY FS_EmptySet
  <2>5. Cardinality(N) = Cardinality(o) + Cardinality(c) - 0
    BY <2>2, <2>3, <2>4
  <2> QED
    BY <2>1, <2>5 DEF o, c
<1>7. Cardinality(C("stale")) <= Cardinality(C("open"))
  BY <1>3, <1>4, <1>5, FS_Subset
<1>8. \A g \in Gauge : Tally(items, g)[d] \in Nat
  BY <1>2, <1>4
<1>9. Tally(items, "open")[d] + Tally(items, "cleared")[d] = Cardinality(Flagging(recs, d))
  BY <1>1, <1>2, <1>5, <1>6
<1>10. Tally(items, "stale")[d] <= Tally(items, "open")[d]
  BY <1>2, <1>5, <1>7
<1> QED
  BY <1>8, <1>9, <1>10

-----------------------------------------------------------------------------
(* The invariant *)

\* The gauges still to clear, or to set, one call at a time.
LEMMA RestFacts ==
  ASSUME NEW todo \in Rests \ {<< >>}
  PROVE  /\ Head(todo) \in Gauge /\ Head(todo) \in GaugesIn(todo)
         /\ Tail(todo) \in Rests
         /\ GaugesIn(Tail(todo)) = GaugesIn(todo) \ {Head(todo)}
         /\ GaugesIn(todo) \subseteq Gauge
         /\ GaugesIn(AllGauges) = Gauge /\ GaugesIn(<< >>) = {}
         /\ AllGauges \in Rests \ {<< >>}
<1>1. /\ GaugesIn(<<"open", "cleared", "stale">>) = {"open", "cleared", "stale"}
      /\ GaugesIn(<<"cleared", "stale">>) = {"cleared", "stale"}
      /\ GaugesIn(<<"stale">>) = {"stale"} /\ GaugesIn(<< >>) = {}
  BY DEF GaugesIn
<1>2. CASE todo = <<"open", "cleared", "stale">>
  BY <1>1, <1>2 DEF Rests, Gauge, AllGauges
<1>3. CASE todo = <<"cleared", "stale">>
  BY <1>1, <1>3 DEF Rests, Gauge, AllGauges
<1>4. CASE todo = <<"stale">>
  BY <1>1, <1>4 DEF Rests, Gauge, AllGauges
<1> QED
  BY <1>2, <1>3, <1>4 DEF Rests, AllGauges

\* With one scraper, a step of it leaves no other scrape to look after.
LEMMA OneScrapes ==
  ASSUME GInv, OneScraper, NEW t \in Scrapers, NEW x, scrape' = [scrape EXCEPT ![t] = x]
  PROVE  /\ scrape'[t] = x /\ scrape' = [u \in Scrapers |-> scrape'[u]]
         /\ \A u \in Scrapers : u = t
  BY DEF GInv, OneScraper

\* What is left to show of a step of the only scraper.
LEMMA OneScrapeKept ==
  ASSUME GInv, OneScraper, NEW t \in Scrapers, NEW x, scrape' = [scrape EXCEPT ![t] = x],
         DOMAIN gauges' = Gauge /\ gauges' = [g \in Gauge |-> gauges'[g]],
         x = NoScrape \/ \E A : ScrapeOf(t, A)'
  PROVE  GInv'
<1>1. scrape'[t] = x /\ scrape' = [u \in Scrapers |-> scrape'[u]] /\ \A u \in Scrapers : u = t
  BY OneScrapes
<1>2. \A u \in Scrapers : scrape'[u] = NoScrape \/ \E A : ScrapeOf(u, A)'
  BY <1>1
<1> QED
  BY <1>1, <1>2 DEF GInv, ScrapeOf

\* store.all_runs() reads all runs at once.
LEMMA RunsRead ==
  ASSUME GInv, OneScraper, NEW t \in Scrapers, scrape_runs(t)
  PROVE  GInv'
<1> DEFINE x == [pc |-> "reading", runs |-> stored, todo |-> Runs, items |-> {}]
<1>1. scrape' = [scrape EXCEPT ![t] = x] /\ UNCHANGED <<stored, atts, gauges>>
  BY DEF scrape_runs
<1>2. scrape'[t] = x
  BY <1>1, OneScrapes
<1>3. Collected(Runs \ Runs, stored, atts) = {} /\ Runs \ Runs = {}
  BY DEF Collected
<1>4. Reading(t, atts)'
  BY <1>1, <1>2, <1>3 DEF Reading, AsStored
<1> QED
  BY <1>1, <1>4, OneScrapeKept DEF ScrapeOf, GInv

\* What the invariant says of each phase of a scrape.
LEMMA PhaseIs ==
  ASSUME GInv, NEW t \in Scrapers, scrape[t].pc # "idle"
  PROVE  /\ scrape[t].pc = "reading" => \E A : Reading(t, A)
         /\ scrape[t].pc = "clear" => \E A : Wiping(t, A)
         /\ scrape[t].pc = "set" => \E A : Setting(t, A)
         /\ scrape[t].pc = "render" => \E A : Rendering(t, A)
         /\ scrape[t].pc = "rendered" => \E A : Shown(t, A)
<1>1. PICK A : ScrapeOf(t, A)
  BY DEF GInv, NoScrape, ScrapeOf
<1>2. /\ Reading(t, A) => scrape[t].pc = "reading"
      /\ Wiping(t, A) => scrape[t].pc = "clear"
      /\ Setting(t, A) => scrape[t].pc = "set"
      /\ Rendering(t, A) => scrape[t].pc = "render"
      /\ Shown(t, A) => scrape[t].pc = "rendered"
  <2>1. Reading(t, A) => scrape[t].pc = "reading"
    BY DEF Reading
  <2>2. Wiping(t, A) => scrape[t].pc = "clear"
    BY DEF Wiping
  <2>3. Setting(t, A) => scrape[t].pc = "set"
    BY DEF Setting
  <2> QED
    BY <2>1, <2>2, <2>3 DEF Rendering, Shown
<1> QED
  BY <1>1, <1>2 DEF ScrapeOf

\* One run more.
LEMMA AttestationsRead ==
  ASSUME GInv, OneScraper, NEW t \in Scrapers, scrape_attestations(t)
  PROVE  GInv'
<1> DEFINE s == scrape[t]
<1>1. s.pc = "reading" /\ s.pc # "idle"
  BY DEF scrape_attestations
<1>2. PICK A : Reading(t, A)
  BY <1>1, PhaseIs
<1>3. PICK r \in s.todo :
        scrape' = [scrape EXCEPT ![t] =
          IF s.todo \ {r} # {}
          THEN [pc |-> "reading", runs |-> s.runs, todo |-> s.todo \ {r},
                items |-> s.items \cup ItemsOf(r, s.runs[r], atts[r])]
          ELSE [pc |-> "clear", items |-> s.items \cup ItemsOf(r, s.runs[r], atts[r]),
                runs |-> s.runs, todo |-> <<"open", "cleared", "stale">>]]
  BY DEF scrape_attestations
<1>4. UNCHANGED <<stored, atts, gauges, quiet>>
  BY DEF scrape_attestations
<1> DEFINE left == s.todo \ {r}
           items == s.items \cup ItemsOf(r, s.runs[r], atts[r])
<1>5. s.todo \subseteq Runs /\ s.items = Collected(Runs \ s.todo, s.runs, A)
      /\ AsStored(t, s.runs, A, Runs \ s.todo)
  BY <1>2 DEF Reading
<1>6. PICK B : /\ B[r] = atts[r] /\ r \in Runs /\ left \subseteq Runs
                /\ \A q \in Runs \ s.todo : B[q] = A[q]
                /\ Runs \ left = (Runs \ s.todo) \cup {r}
  <2> DEFINE C == [q \in Runs |-> IF q = r THEN atts[r] ELSE A[q]]
  <2>1. /\ C[r] = atts[r] /\ r \in Runs /\ left \subseteq Runs
        /\ \A q \in Runs \ s.todo : C[q] = A[q]
        /\ Runs \ left = (Runs \ s.todo) \cup {r}
    BY <1>5
  <2> QED
    BY <2>1
<1>7. items = Collected(Runs \ left, s.runs, B)
  <2>1. Collected(Runs \ s.todo, s.runs, B) = Collected(Runs \ s.todo, s.runs, A)
    BY <1>6 DEF Collected
  <2>2. Collected((Runs \ s.todo) \cup {r}, s.runs, B) =
          Collected(Runs \ s.todo, s.runs, B) \cup ItemsOf(r, s.runs[r], B[r])
    BY DEF Collected
  <2> QED
    BY <1>5, <1>6, <2>1, <2>2
<1>8. /\ UNCHANGED <<stored, atts>>
      /\ t \in quiet' => s.runs = stored /\ \A q \in Runs \ left : B[q] = atts[q]
  BY <1>4, <1>5, <1>6 DEF AsStored
<1> DEFINE x == IF left # {} THEN [pc |-> "reading", runs |-> s.runs, todo |-> left, items |-> items]
                ELSE [pc |-> "clear", items |-> items, runs |-> s.runs, todo |-> AllGauges]
<1>9. scrape' = [scrape EXCEPT ![t] = x]
  BY <1>3 DEF AllGauges
<1> HIDE DEF items, left
<1>10. scrape'[t] = x
  BY <1>9, OneScrapes
<1>11. CASE left # {}
  <2>1. scrape'[t] = [pc |-> "reading", runs |-> s.runs, todo |-> left, items |-> items]
    BY <1>10, <1>11
  <2> HIDE DEF x, s
  <2>2. Reading(t, B)'
    BY <1>6, <1>7, <1>8, <2>1 DEF Reading, AsStored
  <2> QED
    BY <1>4, <1>9, <2>2, OneScrapeKept DEF ScrapeOf, GInv
<1>12. CASE left = {}
  <2>1. Runs \ left = Runs
    BY <1>12
  <2>5. scrape'[t] = [pc |-> "clear", items |-> items, runs |-> s.runs, todo |-> AllGauges]
    BY <1>10, <1>12
  <2> HIDE DEF x, s
  <2>2. Whole(t, B)'
    BY <1>7, <1>8, <2>5, <2>1 DEF Whole, AsStored
  <2>3. GaugesIn(AllGauges) = Gauge /\ AllGauges \in Rests \ {<< >>}
    BY RestFacts DEF Rests, AllGauges
  <2>4. Wiping(t, B)'
    BY <2>2, <2>3, <2>5 DEF Wiping
  <2> QED
    BY <1>4, <1>9, <2>4, OneScrapeKept DEF ScrapeOf, GInv
<1> QED
  BY <1>11, <1>12

\* GAUGE.clear(): one more gauge at zero, and after the third the setting begins.
LEMMA GaugeCleared ==
  ASSUME GInv, OneScraper, NEW t \in Scrapers, scrape_clear(t)
  PROVE  GInv'
<1> DEFINE s == scrape[t]
           h == Head(s.todo)
           rest == Tail(s.todo)
           x == [pc |-> IF rest = << >> THEN "set" ELSE "clear", items |-> s.items, runs |-> s.runs,
                 todo |-> IF rest = << >> THEN AllGauges ELSE rest]
<1>1. s.pc = "clear" /\ s.pc # "idle"
  BY DEF scrape_clear
<1>2. PICK A : Wiping(t, A)
  BY <1>1, PhaseIs
<1>3. /\ scrape' = [scrape EXCEPT ![t] = x]
      /\ gauges' = [gauges EXCEPT ![h] = Zero]
      /\ UNCHANGED <<stored, atts, quiet>>
  BY DEF scrape_clear, AllGauges
<1>4. scrape'[t] = x
  BY <1>3, OneScrapes
<1>5. /\ s.todo \in Rests \ {<< >>} /\ Whole(t, A)
      /\ \A g \in Gauge \ GaugesIn(s.todo) : gauges[g] = Zero
  BY <1>2 DEF Wiping
<1>6. /\ h \in Gauge /\ rest \in Rests /\ GaugesIn(rest) = GaugesIn(s.todo) \ {h}
      /\ GaugesIn(AllGauges) = Gauge /\ GaugesIn(<< >>) = {} /\ AllGauges \in Rests \ {<< >>}
  BY <1>5, RestFacts
<1>7. /\ DOMAIN gauges' = Gauge /\ gauges' = [g \in Gauge |-> gauges'[g]]
      /\ gauges'[h] = Zero /\ \A g \in Gauge \ {h} : gauges'[g] = gauges[g]
  BY <1>3, <1>6 DEF GInv
<1>8. \A g \in Gauge \ GaugesIn(rest) : gauges'[g] = Zero
  BY <1>5, <1>6, <1>7
<1>9. s.items = Collected(Runs, s.runs, A) /\ AsStored(t, s.runs, A, Runs)
  BY <1>5 DEF Whole
<1>10. /\ x.items = s.items /\ x.runs = s.runs
       /\ rest = << >> => x = [pc |-> "set", runs |-> x.runs, todo |-> x.todo, items |-> x.items]
                          /\ x.todo = AllGauges
       /\ rest # << >> => x = [pc |-> "clear", runs |-> x.runs, todo |-> x.todo, items |-> x.items]
                          /\ x.todo = rest
  OBVIOUS
<1> HIDE DEF x, rest, h, s
<1>11. Whole(t, A)'
  BY <1>3, <1>4, <1>9, <1>10 DEF Whole, AsStored
<1>12. CASE rest = << >>
  <2>1. \A g \in GaugesIn(AllGauges) : gauges'[g] = Zero
    BY <1>6, <1>8, <1>12
  <2>2. Setting(t, A)'
    BY <1>4, <1>6, <1>10, <1>11, <1>12, <2>1 DEF Setting
  <2> QED
    BY <1>3, <1>7, <2>2, OneScrapeKept DEF ScrapeOf
<1>13. CASE rest # << >>
  <2>1. Wiping(t, A)'
    BY <1>4, <1>6, <1>8, <1>10, <1>11, <1>13 DEF Wiping
  <2> QED
    BY <1>3, <1>7, <2>1, OneScrapeKept DEF ScrapeOf
<1> QED
  BY <1>12, <1>13

\* labels(...).set(): a cleared gauge takes the tally, label by label.
LEMMA GaugeSet ==
  ASSUME GInv, OneScraper, NEW t \in Scrapers, scrape_set(t)
  PROVE  GInv'
<1> DEFINE s == scrape[t]
           h == Head(s.todo)
           rest == Tail(s.todo)
           n == Tally(s.items, h)
           x == [pc |-> IF rest = << >> THEN "render" ELSE "set", items |-> s.items,
                 runs |-> s.runs, todo |-> rest]
<1>1. s.pc = "set" /\ s.pc # "idle"
  BY DEF scrape_set
<1>2. PICK A : Setting(t, A)
  BY <1>1, PhaseIs
<1>3. /\ scrape' = [scrape EXCEPT ![t] = x]
      /\ gauges' = [gauges EXCEPT ![h] =
                      [d \in DecisionIds |-> IF n[d] > 0 THEN n[d] ELSE gauges[h][d]]]
      /\ UNCHANGED <<stored, atts, quiet>>
  BY DEF scrape_set
<1>4. scrape'[t] = x
  BY <1>3, OneScrapes
<1>5. /\ s.todo \in Rests \ {<< >>} /\ Whole(t, A)
      /\ \A g \in GaugesIn(s.todo) : gauges[g] = Zero
      /\ \A g \in Gauge \ GaugesIn(s.todo) : gauges[g] = Tally(s.items, g)
  BY <1>2 DEF Setting
<1>6. /\ h \in Gauge /\ h \in GaugesIn(s.todo) /\ rest \in Rests
      /\ GaugesIn(rest) = GaugesIn(s.todo) \ {h} /\ GaugesIn(s.todo) \subseteq Gauge
      /\ GaugesIn(<< >>) = {}
  BY <1>5, RestFacts
<1>7. s.items = Collected(Runs, s.runs, A) /\ AsStored(t, s.runs, A, Runs)
  BY <1>5 DEF Whole
<1>8. \A d \in DecisionIds : n[d] \in Nat
  BY <1>6, <1>7, TallyFacts DEF OneScraper
<1>9. n = [d \in DecisionIds |-> n[d]]
  BY DEF Tally
<1> HIDE DEF n
<1>10. [d \in DecisionIds |-> IF n[d] > 0 THEN n[d] ELSE gauges[h][d]] = n
  <2>1. \A d \in DecisionIds : gauges[h][d] = 0
    BY <1>5, <1>6 DEF Zero
  <2>2. \A d \in DecisionIds : (IF n[d] > 0 THEN n[d] ELSE gauges[h][d]) = n[d]
    BY <1>8, <2>1
  <2> QED
    BY <1>9, <2>2
<1>11. /\ DOMAIN gauges' = Gauge /\ gauges' = [g \in Gauge |-> gauges'[g]]
       /\ gauges'[h] = n /\ \A g \in Gauge \ {h} : gauges'[g] = gauges[g]
  BY <1>3, <1>6, <1>10 DEF GInv
<1>12. /\ \A g \in GaugesIn(rest) : gauges'[g] = Zero
       /\ \A g \in Gauge \ GaugesIn(rest) : gauges'[g] = Tally(s.items, g)
  BY <1>5, <1>6, <1>11 DEF n
<1>13. /\ x.items = s.items /\ x.runs = s.runs
       /\ rest = << >> => x.pc = "render"
       /\ rest # << >> => x = [pc |-> "set", runs |-> x.runs, todo |-> x.todo, items |-> x.items]
                          /\ x.todo = rest
  OBVIOUS
<1> HIDE DEF x, rest, h, s
<1>14. Whole(t, A)'
  BY <1>3, <1>4, <1>7, <1>13 DEF Whole, AsStored
<1>15. CASE rest = << >>
  <2>1. Rendering(t, A)'
    BY <1>4, <1>6, <1>12, <1>13, <1>14, <1>15 DEF Rendering
  <2> QED
    BY <1>3, <1>11, <2>1, OneScrapeKept DEF ScrapeOf
<1>16. CASE rest # << >>
  <2>1. Setting(t, A)'
    BY <1>4, <1>6, <1>12, <1>13, <1>14, <1>16 DEF Setting
  <2> QED
    BY <1>3, <1>11, <2>1, OneScrapeKept DEF ScrapeOf
<1> QED
  BY <1>15, <1>16

\* generate_latest(): what is shown is what the gauges hold.
LEMMA ScrapeRendered ==
  ASSUME GInv, OneScraper, NEW t \in Scrapers, scrape_render(t)
  PROVE  GInv'
<1> DEFINE s == scrape[t]
           x == [pc |-> "rendered", runs |-> s.runs, out |-> gauges]
<1>1. s.pc = "render" /\ s.pc # "idle"
  BY DEF scrape_render
<1>2. PICK A : Rendering(t, A)
  BY <1>1, PhaseIs
<1>3. scrape' = [scrape EXCEPT ![t] = x] /\ UNCHANGED <<stored, atts, gauges, quiet>>
  BY DEF scrape_render
<1>4. scrape'[t] = x
  BY <1>3, OneScrapes
<1>5. /\ s.items = Collected(Runs, s.runs, A) /\ AsStored(t, s.runs, A, Runs)
      /\ \A g \in Gauge : gauges[g] = Tally(s.items, g)
  BY <1>2 DEF Rendering, Whole
<1>6. x.pc = "rendered" /\ x.runs = s.runs /\ x.out = gauges
  OBVIOUS
<1> HIDE DEF x, s
<1>7. Shown(t, A)'
  BY <1>3, <1>4, <1>5, <1>6 DEF Shown, AsStored
<1> QED
  BY <1>3, <1>7, OneScrapeKept DEF ScrapeOf, GInv

\* A scrape that is over leaves nothing to say.
LEMMA ScrapeDone ==
  ASSUME GInv, OneScraper, NEW t \in Scrapers, scrape_done(t)
  PROVE  GInv'
<1>1. scrape' = [scrape EXCEPT ![t] = NoScrape] /\ UNCHANGED gauges
  BY DEF scrape_done
<1> QED
  BY <1>1, OneScrapeKept DEF GInv

\* A write ends the quiet of every scrape.
LEMMA OthersKeep ==
  ASSUME GInv, UNCHANGED <<gauges, scrape>>,
         \/ UNCHANGED <<stored, atts, quiet>>
         \/ quiet' = {}
  PROVE  GInv'
<1>1. ASSUME NEW t \in Scrapers, NEW A, ScrapeOf(t, A)
      PROVE  ScrapeOf(t, A)'
  <2>1. \A recs, rs : AsStored(t, recs, A, rs) => AsStored(t, recs, A, rs)'
    BY DEF AsStored
  <2>2. Whole(t, A) => Whole(t, A)'
    BY <2>1 DEF Whole
  <2>3. Reading(t, A) => Reading(t, A)'
    BY <2>1 DEF Reading
  <2>4. Wiping(t, A) => Wiping(t, A)'
    BY <2>2 DEF Wiping
  <2>5. Setting(t, A) => Setting(t, A)'
    BY <2>2 DEF Setting
  <2>6. Rendering(t, A) => Rendering(t, A)'
    BY <2>2 DEF Rendering
  <2>7. Shown(t, A) => Shown(t, A)'
    BY <2>1 DEF Shown
  <2> QED
    BY <1>1, <2>3, <2>4, <2>5, <2>6, <2>7 DEF ScrapeOf
<1>2. \A t \in Scrapers : scrape[t] = NoScrape \/ \E A : ScrapeOf(t, A)
  BY DEF GInv, ScrapeOf
<1>3. \A t \in Scrapers : scrape'[t] = NoScrape \/ \E A : ScrapeOf(t, A)'
  BY <1>1, <1>2
<1> QED
  BY <1>3 DEF GInv, ScrapeOf

\* The invariant of one scraper.
LEMMA GInvAlways == ASSUME OneScraper PROVE GSpec => []GInv
<1>1. GInit => GInv
  BY DEF GInit, GInv
<1>2. GInv /\ [GNext]_gaugeVars => GInv'
  <2> SUFFICES ASSUME GInv, [GNext]_gaugeVars PROVE GInv'
    OBVIOUS
  <2>1. CASE Others
    BY <2>1, OthersKeep DEF Others
  <2>2. ASSUME NEW t \in Scrapers, ScrapeStep(t) PROVE GInv'
    BY <2>2, RunsRead, AttestationsRead, GaugeCleared, GaugeSet, ScrapeRendered, ScrapeDone
    DEF ScrapeStep
  <2>3. CASE UNCHANGED gaugeVars
    BY <2>3, OthersKeep DEF gaugeVars
  <2> QED
    BY <2>1, <2>2, <2>3 DEF GNext
<1> QED
  BY <1>1, <1>2, PTL DEF GSpec

\* metrics.py: the gauges reflect the true current state.  If one thread scrapes at a time
\* and nothing is written meanwhile, a scrape shows the debt as it is stored, for any
\* runs and attestations (refresh_review_debt_gauges).
THEOREM QuietScrapesAreTrue == ASSUME OneScraper PROVE GSpec => []QuietScrapeIsTrue
<1>1. GInv => QuietScrapeIsTrue
  <2> SUFFICES ASSUME GInv, NEW t \in Scrapers \cap quiet, Rendered(t), NEW g \in Gauge
               PROVE  scrape[t].out[g] = Tally(TrueItems, g)
    BY DEF QuietScrapeIsTrue
  <2>1. PICK A : Shown(t, A)
    BY PhaseIs DEF Rendered
  <2>2. scrape[t].runs = stored /\ \A r \in Runs : A[r] = atts[r]
    BY <2>1 DEF Shown, AsStored
  <2>3. Collected(Runs, scrape[t].runs, A) = TrueItems
    BY <2>2 DEF Collected, TrueItems
  <2> QED
    BY <2>1, <2>3 DEF Shown
<1> QED
  BY <1>1, GInvAlways, PTL

\* Whatever is written between the queries of a scrape, every flagged decision of the runs
\* it read is counted once, open or cleared, and only open ones are counted stale.
THEOREM ItemsAreCountedOnce == ASSUME OneScraper PROVE GSpec => []EachItemCountedOnce
<1>1. GInv => EachItemCountedOnce
  <2> SUFFICES ASSUME GInv, NEW t \in Scrapers, Rendered(t), NEW d \in DecisionIds
               PROVE  /\ scrape[t].out["open"][d] + scrape[t].out["cleared"][d]
                           = Cardinality(Flagging(scrape[t].runs, d))
                      /\ scrape[t].out["stale"][d] <= scrape[t].out["open"][d]
    BY DEF EachItemCountedOnce, Flagging
  <2>1. PICK A : Shown(t, A)
    BY PhaseIs DEF Rendered
  <2> DEFINE items == Collected(Runs, scrape[t].runs, A)
  <2>2. \A g \in Gauge : scrape[t].out[g] = Tally(items, g)
    BY <2>1 DEF Shown
  <2>3. "open" \in Gauge /\ "cleared" \in Gauge /\ "stale" \in Gauge
    BY DEF Gauge
  <2>4. /\ Tally(items, "open")[d] + Tally(items, "cleared")[d] = Cardinality(Flagging(scrape[t].runs, d))
        /\ Tally(items, "stale")[d] <= Tally(items, "open")[d]
    BY TallyFacts DEF OneScraper
  <2> QED
    BY <2>2, <2>3, <2>4
<1> QED
  BY <1>1, GInvAlways, PTL
=============================================================================
