------------------------------ MODULE Outcomes ------------------------------
(***************************************************************************)
(* What a batch of evaluated pairs amounts to: Protocol v1                  *)
(* (intervention/protocol_v1_batch_outcomes.py) and v2                      *)
(* (protocol_v2_batch_outcomes.py).  Each reads the scorecards below a root *)
(* into rows, counts labels, checks gates and decides whether the next      *)
(* batch may be run.  The two are separate copies of one rule.              *)
(*                                                                         *)
(* The evidence of a pair is its scorecard, the live summaries found for it *)
(* (by the directory its evaluation report names, and by the path of the    *)
(* scorecard) and whether its task is in the fresh list.                    *)
(***************************************************************************)
EXTENDS Integers, Sequences, FiniteSets

CONSTANTS NoSummary,      \* a summary that is not on disk
          PairEvidence,   \* what may be on disk of a pair
          BatchTarget,    \* how many pairs the batch is to have
          MaxBatch        \* bound: evaluated pairs

VARIABLE batch            \* the evidence of each pair below the root, in the order of paths

POSITIVE_LABEL == "intervention_only_resolved"
NEGATIVE_LABEL == "control_only_resolved"
NO_UPLIFT_LABELS == {"both_unresolved_no_uplift", "both_resolved_no_uplift"}

-----------------------------------------------------------------------------
(* Rows *)

_resolve_live_pair_summary(e) ==
  IF e.summary_by_report # NoSummary THEN e.summary_by_report ELSE e.summary_by_path

\* Without a summary, replay and hook are unknown, and the gates on them fail.
_normalize_protocol_v1_pair(e) ==
  LET summary == _resolve_live_pair_summary(e)
  IN [label |-> e.card.label, completed |-> e.card.completed, official |-> e.card.official,
      unclaimed |-> e.card.unclaimed,
      replayed |-> summary # NoSummary /\ summary.replayed,
      hooked |-> summary # NoSummary /\ summary.hook_events > 0]

_normalize_protocol_v2_pair(e) ==
  [label |-> e.card.label, completed |-> e.card.completed, official |-> e.card.official,
   unclaimed |-> e.card.unclaimed,
   lineage |-> IF e.in_fresh_list THEN "v2_strict_fresh" ELSE "v2_reference"]

load_protocol_v1_outcome_rows(pairs) ==
  [i \in DOMAIN pairs |-> _normalize_protocol_v1_pair(pairs[i])]
load_protocol_v2_outcome_rows(pairs) ==
  [i \in DOMAIN pairs |-> _normalize_protocol_v2_pair(pairs[i])]

\* How many of the rows at `places' carry one of the labels.
Labelled(rows, places, labels) == Cardinality({i \in places : rows[i].label \in labels})

-----------------------------------------------------------------------------
(* Protocol v1 *)

X_labels_swapped(rows, target) ==
  [pairs |-> Len(rows), target_met |-> Len(rows) >= target,
   positive |-> Labelled(rows, DOMAIN rows, {NEGATIVE_LABEL}),
   negative |-> Labelled(rows, DOMAIN rows, {POSITIVE_LABEL}),
   no_uplift |-> Labelled(rows, DOMAIN rows, NO_UPLIFT_LABELS)]
protocol_v1_batch_outcomes_summary(rows, target) ==
  [pairs |-> Len(rows), target_met |-> Len(rows) >= target,
   positive |-> Labelled(rows, DOMAIN rows, {POSITIVE_LABEL}),
   negative |-> Labelled(rows, DOMAIN rows, {NEGATIVE_LABEL}),
   no_uplift |-> Labelled(rows, DOMAIN rows, NO_UPLIFT_LABELS)]

protocol_v1_batch_outcomes_gates(rows, target) ==
  /\ rows # << >> /\ target > 0
  /\ \A i \in DOMAIN rows : /\ rows[i].completed /\ rows[i].official /\ rows[i].unclaimed
                            /\ rows[i].replayed /\ rows[i].hooked

protocol_v1_batch_outcomes_decision(s, gates) ==
  IF ~gates THEN "blocked"
  ELSE IF ~s.target_met
    THEN IF s.no_uplift = s.pairs THEN "underpowered_no_uplift_observed"
         ELSE "underpowered_continue_sampling"
  ELSE IF s.negative > s.positive THEN "negative_risk_review_required"
  ELSE IF s.positive = 0 THEN "no_uplift_needs_prescription_revision"
  ELSE "ready_for_next_small_batch"

protocol_v1_batch_outcomes_continuation_policy(s, gates) ==
  [more |-> gates /\ ~s.target_met /\ s.negative = 0,
   redesign |-> gates /\ s.no_uplift > 0 /\ s.positive = 0,
   stability |-> gates /\ s.target_met /\ s.positive > 0]

protocol_v1_batch_outcomes_report(pairs, target) ==
  LET rows == load_protocol_v1_outcome_rows(pairs)
      s == protocol_v1_batch_outcomes_summary(rows, target)
      gates == protocol_v1_batch_outcomes_gates(rows, target)
  IN [decision |-> protocol_v1_batch_outcomes_decision(s, gates),
      policy |-> protocol_v1_batch_outcomes_continuation_policy(s, gates)]

-----------------------------------------------------------------------------
(* Protocol v2 *)

Stratum(rows, lineage) == {i \in DOMAIN rows : rows[i].lineage = lineage}

\* The counts the decision looks at are taken over both strata, except for the target
\* and for the pairs without uplift.
protocol_v2_batch_outcomes_summary(rows, target) ==
  LET fresh == Stratum(rows, "v2_strict_fresh")
  IN [fresh |-> Cardinality(fresh), target_met |-> Cardinality(fresh) >= target,
      no_uplift |-> Labelled(rows, fresh, NO_UPLIFT_LABELS),
      uplift |-> Labelled(rows, DOMAIN rows, {POSITIVE_LABEL}),
      harm |-> Labelled(rows, DOMAIN rows, {NEGATIVE_LABEL})]

\* That the fresh list is present is advice: it does not block.
protocol_v2_batch_outcomes_gates(rows, target) ==
  /\ rows # << >> /\ target > 0
  /\ \A i \in DOMAIN rows : rows[i].completed /\ rows[i].official /\ rows[i].unclaimed

protocol_v2_batch_outcomes_decision(s, gates) ==
  IF ~gates THEN "blocked"
  ELSE IF ~s.target_met
    THEN IF s.no_uplift = s.fresh THEN "underpowered_no_uplift_observed"
         ELSE "underpowered_continue_sampling"
  ELSE IF s.harm > s.uplift THEN "negative_risk_review_required"
  ELSE IF s.uplift = 0 THEN "no_uplift_needs_prescription_revision"
  ELSE "ready_for_next_small_batch"

protocol_v2_batch_outcomes_continuation_policy(s, gates) ==
  [more |-> gates /\ ~s.target_met /\ s.harm = 0, power |-> gates /\ s.fresh > 0]

protocol_v2_batch_outcomes_report(pairs, target) ==
  LET rows == load_protocol_v2_outcome_rows(pairs)
      s == protocol_v2_batch_outcomes_summary(rows, target)
      gates == protocol_v2_batch_outcomes_gates(rows, target)
  IN [decision |-> protocol_v2_batch_outcomes_decision(s, gates),
      policy |-> protocol_v2_batch_outcomes_continuation_policy(s, gates)]

-----------------------------------------------------------------------------
(* A batch grows by one evaluated pair after the other *)

OutcomesInit == batch = << >>
add_pair == /\ Len(batch) < MaxBatch
            /\ \E e \in PairEvidence : batch' = Append(batch, e)
OutcomesSpec == OutcomesInit /\ [][add_pair]_batch

-----------------------------------------------------------------------------
(* Properties of a batch *)

\* A batch of pairs that are all fresh and whose replay and hook are in order gets the
\* same decision from both protocols, and the same leave to run more pairs: the two
\* copies of the rule have not drifted apart.
ProtocolsAgree(pairs, target) ==
  LET v1 == protocol_v1_batch_outcomes_report(pairs, target)
      v2 == protocol_v2_batch_outcomes_report(pairs, target)
      sound(e) == LET row == _normalize_protocol_v1_pair(e)
                  IN e.in_fresh_list /\ row.replayed /\ row.hooked
  IN (\A i \in DOMAIN pairs : sound(pairs[i]))
       => v1.decision = v2.decision /\ v1.policy.more = v2.policy.more

PairLabels == {e.card.label : e \in PairEvidence}
Rank(label) == IF label = POSITIVE_LABEL THEN 2 ELSE IF label = NEGATIVE_LABEL THEN 0 ELSE 1

\* The report of a batch one of whose pairs fared worse, against that of the batch.
NoBetter(worse, report) ==
  /\ worse.decision = "ready_for_next_small_batch" => report.decision = worse.decision
  /\ worse.policy.more => report.policy.more

\* A worse label of one pair never makes a decision ready, and never opens the way to
\* more pairs or to a stability claim: for every pair and every label that ranks lower.
WorseIsNeverBetter(pairs, target) ==
  \A i \in DOMAIN pairs, l \in PairLabels : Rank(l) < Rank(pairs[i].card.label) =>
    LET worse == [pairs EXCEPT ![i].card.label = l]
        v1 == protocol_v1_batch_outcomes_report(pairs, target)
        v1_worse == protocol_v1_batch_outcomes_report(worse, target)
    IN /\ NoBetter(v1_worse, v1)
       /\ NoBetter(protocol_v2_batch_outcomes_report(worse, target),
                   protocol_v2_batch_outcomes_report(pairs, target))
       /\ v1_worse.policy.stability => v1.policy.stability

\* The two copies of the batch rule (protocol_v1_batch_outcomes.py and ..._v2_...) agree
\* on batches of fresh pairs whose replay and hook are in order; and in any batch a worse
\* outcome of a pair never opens what a better one would have closed.
BatchRuleHolds == ProtocolsAgree(batch, BatchTarget) /\ WorseIsNeverBetter(batch, BatchTarget)
=============================================================================
