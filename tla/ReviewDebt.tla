----------------------------- MODULE ReviewDebt -----------------------------
(***************************************************************************)
(* Review debt: the attestations table, POST .../attestations              *)
(* (apps/api/aro_api/main.py, create_attestation) and the derivation that  *)
(* joins a run's needs_review decisions with its attestations              *)
(* (aro_schema/review_debt.py), while workers overwrite runs underneath.   *)
(*                                                                         *)
(* A run record keeps what the derivation tells apart: seats (standing for *)
(* every field that subject v2 binds and v1 does not), steps (the per-step *)
(* digests and errors), the ids of needs_review and of deny decisions, and *)
(* status (standing for the volatile fields no subject binds).  A digest   *)
(* is the pair of version and subject: SHA-256 is taken to be injective.   *)
(***************************************************************************)
EXTENDS Naturals

CONSTANTS Runs, Seats, Steps,
          DecisionIds,
          Records,      \* the records an execution may produce
          Legacy,       \* attestations older releases may have left for a run
          Reviewers,    \* threads serving attestation requests
          MaxWrites, MaxAttestations   \* bounds; a stamp taken counts as an attestation

RunRecord == [status : {"pending", "completed", "failed"}, seats : SUBSET Seats,
              steps : Steps, flagged : SUBSET DecisionIds, denied : SUBSET DecisionIds]

ASSUME RecordsAssumption == Records \subseteq RunRecord

VARIABLES stored,       \* run -> its record in the runs table
          atts,         \* run -> created_at -> attestation, for those inserted
          rev,          \* what each reviewer, and the request he sent, is doing
          clock,        \* the last created_at that was taken
          writes

vars == <<stored, atts, rev, clock, writes>>

NoSeat == "no seat"
AttestationDecision == {"accept", "amend", "reject"}

SUBJECT_SCHEMA_VERSION == 2

\* Mutant: v1 clears again.
CLEARING_VERSIONS_Both == {1, 2}
CLEARING_VERSIONS == {2}

canonical_subject(r, rec, version) ==
  IF version = 1
  THEN [run |-> r, steps |-> rec.steps, flagged |-> rec.flagged, denied |-> rec.denied]
  ELSE [run |-> r, steps |-> rec.steps, flagged |-> rec.flagged, denied |-> rec.denied,
        seats |-> rec.seats]

run_subject_digest(r, rec, version) == <<version, canonical_subject(r, rec, version)>>

subject_matches(r, rec, digest) ==
  /\ digest[1] \in CLEARING_VERSIONS
  /\ digest = run_subject_digest(r, rec, digest[1])

Attestation == [seat : Seats \cup {NoSeat}, decision : AttestationDecision,
                clears : SUBSET DecisionIds,
                digest : {run_subject_digest(r, rec, v) :
                            r \in Runs, rec \in RunRecord, v \in {1, 2}}]

\* Older releases signed version 1 of the subject.
ASSUME LegacyAssumption == Legacy \subseteq {a \in Attestation : a.digest[1] = 1}

-----------------------------------------------------------------------------
(* compute_review_debt, over attestations in the order of their stamps *)

Naming(as, d) == {i \in DOMAIN as : as[i].decision # "reject" /\ d \in as[i].clears}

Clearing(r, rec, as, d) == {i \in Naming(as, d) : subject_matches(r, rec, as[i].digest)}

\* Mutant: a later clearing takes the place of the first.
cleared_by_Last(r, rec, as, d) ==
  LET C == Clearing(r, rec, as, d)
  IN  IF C = {} THEN 0 ELSE CHOOSE i \in C : \A j \in C : j <= i
\* The stamp of the attestation that clears item d, 0 if none.
cleared_by(r, rec, as, d) ==
  LET C == Clearing(r, rec, as, d)
  IN  IF C = {} THEN 0 ELSE CHOOSE i \in C : \A j \in C : i <= j

stale_attestation(r, rec, as, d) ==
  Clearing(r, rec, as, d) = {} /\ Naming(as, d) # {}

compute_review_debt(r, rec, as) ==
  {[decision_id |-> d, cleared_by |-> cleared_by(r, rec, as, d),
    stale |-> stale_attestation(r, rec, as, d)] : d \in rec.flagged}

-----------------------------------------------------------------------------
Placeholder(st) == [status |-> "pending", seats |-> {}, steps |-> st,
                    flagged |-> {}, denied |-> {}]

Idle == [pc |-> "idle"]

Init == /\ \E st \in Steps : stored = [r \in Runs |-> Placeholder(st)]
        /\ atts \in [Runs -> UNION {[S -> Legacy] : S \in SUBSET {1}}]
        /\ rev = [p \in Reviewers |-> Idle]
        /\ clock = 1
        /\ writes = 0

\* The worker saves an execution of the run: the first, or one after a failure
\* that came once the run was saved.
save_run(r) ==
  /\ writes < MaxWrites
  /\ \E rec \in Records : stored' = [stored EXCEPT ![r] = rec]
  /\ writes' = writes + 1
  /\ UNCHANGED <<atts, rev, clock>>

\* _fail_placeholder: no other writer has the run (RunService), so its read and
\* its write are one step here.
fail_placeholder(r) ==
  /\ writes < MaxWrites
  /\ stored' = [stored EXCEPT ![r] =
       [status |-> "failed", seats |-> stored[r].seats, steps |-> stored[r].steps,
        flagged |-> stored[r].flagged, denied |-> stored[r].denied]]
  /\ writes' = writes + 1
  /\ UNCHANGED <<atts, rev, clock>>

\* create_attestation's checks, on the record it has just read; a request they
\* refuse (404, 422) changes nothing.
Acceptable(rec, seat, decision, clears) ==
  /\ seat # NoSeat => seat \in rec.seats
  /\ clears # {} => seat # NoSeat /\ decision # "reject" /\ clears \subseteq rec.flagged

create_attestation_read(p) ==
  /\ rev[p].pc = "idle"
  /\ \E r \in Runs, seat \in Seats \cup {NoSeat}, decision \in AttestationDecision,
        clears \in SUBSET DecisionIds :
        /\ Acceptable(stored[r], seat, decision, clears)
        /\ rev' = [rev EXCEPT ![p] =
             [pc |-> "posting", run |-> r,
              att |-> [seat |-> seat, decision |-> decision, clears |-> clears,
                       digest |-> run_subject_digest(r, stored[r], SUBJECT_SCHEMA_VERSION)]]]
  /\ UNCHANGED <<stored, atts, clock, writes>>

\* save_attestation: utcnow() is evaluated before execute() is called, outside
\* any lock (pg_store.py), so another request may come between the stamp and the
\* insert.  SQLite (store.py) stamps within its lock: there the two steps are
\* adjacent.
save_attestation_stamp(p) ==
  /\ rev[p].pc = "posting"
  /\ clock <= MaxAttestations
  /\ clock' = clock + 1
  /\ rev' = [rev EXCEPT ![p] =
       [pc |-> "inserting", run |-> rev[p].run, att |-> rev[p].att, at |-> clock']]
  /\ UNCHANGED <<stored, atts, writes>>

Inserted(as, at, att) == [i \in DOMAIN as \cup {at} |-> IF i = at THEN att ELSE as[i]]

save_attestation(p) ==
  /\ rev[p].pc = "inserting"
  /\ atts' = [atts EXCEPT ![rev[p].run] =
       Inserted(atts[rev[p].run], rev[p].at, rev[p].att)]
  /\ rev' = [rev EXCEPT ![p] = Idle]
  /\ UNCHANGED <<stored, clock, writes>>

\* The request's thread dies: nothing is stored.
create_attestation_fails(p) ==
  /\ rev[p].pc \in {"posting", "inserting"}
  /\ rev' = [rev EXCEPT ![p] = Idle]
  /\ UNCHANGED <<stored, atts, clock, writes>>

Next == \/ \E r \in Runs : save_run(r) \/ fail_placeholder(r)
        \/ \E p \in Reviewers : \/ create_attestation_read(p)
                                \/ save_attestation_stamp(p)
                                \/ save_attestation(p)
                                \/ create_attestation_fails(p)

Spec == Init /\ [][Next]_vars
-----------------------------------------------------------------------------
(* Properties *)

ClearedBy(r, d) == cleared_by(r, stored[r], atts[r], d)
Subject(r) == canonical_subject(r, stored[r], SUBJECT_SCHEMA_VERSION)

\* A request with an older stamp clears the item that was cleared before.
TakenOver(r, d) ==
  \E p \in Reviewers :
     /\ rev[p].pc = "inserting" /\ rev[p].run = r
     /\ ClearedBy(r, d)' = rev[p].at /\ rev[p].at < ClearedBy(r, d)

\* Whatever was read before an attestation was stored, and whatever overwrote
\* the run since: an item counts as cleared only by a person who holds a seat of
\* the run as it is stored now, who did not reject it, under the current subject.
ClearedIsAccountable ==
  \A r \in Runs : \A d \in stored[r].flagged :
     ClearedBy(r, d) # 0 =>
        LET a == atts[r][ClearedBy(r, d)]
        IN  a.seat \in stored[r].seats /\ a.decision # "reject" /\ a.digest[1] = 2

\* A cleared item stays cleared as long as what was reviewed stays the same: a
\* rewrite that changes only volatile fields (the worker's _fail_placeholder)
\* reopens nothing.  "First valid clearing attestation wins" by created_at, which
\* is not the order of the inserts: the one thing that can take a clearing over is
\* the insert of an attestation that was stamped earlier and was still on its way.
\* And an overwrite never loses a clearing silently: the item is flagged stale.
ClearingIsStable ==
  [][\A r \in Runs : \A d \in stored[r].flagged : ClearedBy(r, d) # 0 =>
        /\ Subject(r)' = Subject(r) => \/ ClearedBy(r, d)' = ClearedBy(r, d)
                                       \/ TakenOver(r, d)
        /\ d \in stored'[r].flagged /\ ClearedBy(r, d)' = 0 =>
              stale_attestation(r, stored[r], atts[r], d)']_vars
=============================================================================
