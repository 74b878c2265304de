------------------------------ MODULE MCRecords ------------------------------
(* What is recorded and relied on later, for TLC: the traces of executions   *)
(* (Executor, with the constants of MCExecutor), snapshots of agent state    *)
(* (StateSnapshot), the capsules of a Phase 6 pair (CapsulePair), evidence   *)
(* reports and the index made of them (Evidence), the outcomes of a batch    *)
(* (Outcomes) and the protocol documents (Protocols).                        *)
(*                                                                          *)
(* They share no state: a behaviour is of one part, chosen at the start, and *)
(* the others stay as they began.  One run checks them all.                  *)
EXTENDS MCExecutor, StateSnapshot, CapsulePair, Evidence, Outcomes, Protocols

CONSTANTS s1, s2        \* what a capsule may fingerprint

-----------------------------------------------------------------------------
(* The Phase 6 pair: a candidate whose protocol triggers and one whose protocol does not *)

Row(intervention, gap, streak, reasons) ==
  [policy |-> intervention, gap |-> gap, streak |-> streak, reasons |-> reasons]
MCCandidates == {Row("insert_validation_checkpoint", 1, 0, {}),
                 Row("same_action_escape", 3, 1, {"recurrence_spike"})}
MCEndings == {[error |-> TRUE, submits |-> FALSE], [error |-> FALSE, submits |-> TRUE]}

-----------------------------------------------------------------------------
(* Evidence: a task evaluated in two trees, one evaluated in none or one, one never seen *)

MCPlaces == <<[task |-> "a", kind |-> "v1"], [task |-> "a", kind |-> "v2"],
              [task |-> "b", kind |-> "v2"]>>
MCDataset == <<"a", "b", "c">>
MCMentions == [control_only |-> {"negative"}]

-----------------------------------------------------------------------------
(* A batch of up to three pairs, complete or lacking one of the things the gates look at *)

MCPairLabels == {POSITIVE_LABEL, NEGATIVE_LABEL, "both_unresolved_no_uplift", "inconclusive"}

Replayed(events) == [replayed |-> TRUE, hook_events |-> events]
Sound(l) ==
  [card |-> [label |-> l, completed |-> TRUE, official |-> TRUE, unclaimed |-> TRUE],
   summary_by_report |-> Replayed(1), summary_by_path |-> NoSummary, in_fresh_list |-> TRUE]
MCPairEvidence ==
  UNION {{Sound(l), [Sound(l) EXCEPT !.card.completed = FALSE], [Sound(l) EXCEPT !.in_fresh_list = FALSE],
          [Sound(l) EXCEPT !.summary_by_report = NoSummary, !.summary_by_path = Replayed(0)]} :
         l \in MCPairLabels}

-----------------------------------------------------------------------------
(* One of the six *)

VARIABLE part

records_vars == <<part, exec_vars, vars, capsule_vars, evidence_vars, protocol_vars, batch>>

\* The others begin in one of their initial states.
ExecStill == /\ script = CHOOSE s \in Scripts : TRUE
             /\ policy = CHOOSE p \in Policies : TRUE
             /\ ws0 = CHOOSE w \in Workspaces : TRUE
SnapshotStill == live = [f \in Files |-> CHOOSE c \in Contents : TRUE]
EvidenceStill == lite300 = NoFile

RecordsInit ==
  /\ ExecInit /\ Init /\ CapsuleInit /\ EvidenceInit /\ ProtocolInit /\ OutcomesInit
  /\ \/ part = "trace"    /\ SnapshotStill /\ EvidenceStill
     \/ part = "snapshot" /\ ExecStill /\ EvidenceStill
     \/ part = "evidence" /\ ExecStill /\ SnapshotStill
     \/ part \in {"capsule", "protocol", "outcomes"} /\ ExecStill /\ SnapshotStill /\ EvidenceStill

RecordsNext ==
  \/ part = "trace" /\ ExecNext
     /\ UNCHANGED <<part, vars, capsule_vars, evidence_vars, protocol_vars, batch>>
  \/ part = "snapshot" /\ Next
     /\ UNCHANGED <<part, exec_vars, capsule_vars, evidence_vars, protocol_vars, batch>>
  \/ part = "capsule" /\ CapsuleNext
     /\ UNCHANGED <<part, exec_vars, vars, evidence_vars, protocol_vars, batch>>
  \/ part = "evidence" /\ EvidenceNext
     /\ UNCHANGED <<part, exec_vars, vars, capsule_vars, protocol_vars, batch>>
  \/ part = "protocol" /\ ProtocolNext
     /\ UNCHANGED <<part, exec_vars, vars, capsule_vars, evidence_vars, batch>>
  \/ part = "outcomes" /\ add_pair
     /\ UNCHANGED <<part, exec_vars, vars, capsule_vars, evidence_vars, protocol_vars>>

RecordsSpec == RecordsInit /\ [][RecordsNext]_records_vars

\* The two fingerprints are interchangeable.
Symmetry == Permutations({s1, s2})
=============================================================================
