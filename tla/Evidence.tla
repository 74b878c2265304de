------------------------------ MODULE Evidence ------------------------------
(***************************************************************************)
(* The evidence root and what is read from it: the evidence index           *)
(* (evidence/inventory.py) and the harvest of fresh baseline failures       *)
(* (intervention/fresh_target_harvest.py), which relies on the index to     *)
(* leave out every task an evaluation has already seen.                     *)
(*                                                                         *)
(* A place is a directory of the root that may hold an evaluation report;   *)
(* Places lists them in the order of their paths.  A file is what is read    *)
(* of it: whether it parses, and whether its manifest vouches for it.       *)
(***************************************************************************)
EXTENDS Integers, Sequences, FiniteSets

CONSTANTS Places,       \* sequence of [task, kind], kind the directory tree it is in
          Dataset,      \* the task ids of the dataset, sorted
          EffectLabels, \* effect labels of the official evaluations
          Mentions,     \* label -> the words of interest its text contains
          MaxInstances, \* max_instances of the plan
          NoFile,       \* a file that is not there
          MaxReports, MaxCommands, MaxKills     \* bounds

VARIABLES report_at,      \* per place: the evaluation report, or NoFile
          materialized,   \* tasks with pair inputs on disk
          fresh_gate,     \* tasks of the fresh candidate list, or NoFile
          evidence_index, \* evidence_index_rows.jsonl and its summary, or NoFile
          lite300,        \* the ids read from the Lite300 report, or NoFile when it cannot be read
          target_plan,    \* fresh_target_harvest_plan.json
          harvest,        \* a harvest under way
          harvested,      \* fresh_target_harvest_execute_report.json
          reports_written, commands, kills

evidence_root == <<report_at, materialized, fresh_gate>>
harvest_state == <<lite300, target_plan, harvest, harvested>>
evidence_vars == <<evidence_root, evidence_index, harvest_state, reports_written, commands, kills>>

NoHarvest == [pc |-> "idle", todo |-> << >>, candidates |-> {}, known |-> {}]
NoHarvested == [decision |-> "none", candidates |-> {}, known |-> {}]
NoPlanYet == [decision |-> "none", selected |-> << >>, known |-> {}]

EvidenceInit ==
  /\ report_at = [i \in DOMAIN Places |-> NoFile]
  /\ materialized = {} /\ fresh_gate = NoFile
  /\ evidence_index = NoFile
  /\ lite300 \in {NoFile, {}, {Dataset[1]}}
  /\ target_plan = NoPlanYet /\ harvest = NoHarvest /\ harvested = NoHarvested
  /\ reports_written = 0 /\ commands = 0 /\ kills = 0

Command == commands < MaxCommands /\ commands' = commands + 1

-----------------------------------------------------------------------------
(* The root fills *)

\* An official evaluation writes its report, with an outcome or pending, and then the
\* manifest.  Killed, it leaves a torn report or one its manifest does not vouch for.
EvalReports == {[parses |-> TRUE, label |-> l, completed |-> l # "", vouched |-> TRUE] :
              l \in EffectLabels \cup {""}}
evaluate ==
  /\ reports_written < MaxReports /\ reports_written' = reports_written + 1
  /\ \E i \in DOMAIN Places, r \in EvalReports :
       \/ report_at' = [report_at EXCEPT ![i] = r] /\ UNCHANGED kills
       \/ /\ kills < MaxKills /\ kills' = kills + 1
          /\ \E cut \in {[r EXCEPT !.vouched = FALSE], [r EXCEPT !.parses = FALSE]} :
                report_at' = [report_at EXCEPT ![i] = cut]
  /\ UNCHANGED <<materialized, fresh_gate, evidence_index, harvest_state, commands>>

\* Pair inputs are materialized; the fresh gate leaves its list.
prepare ==
  /\ \/ \E t \in {Places[i].task : i \in DOMAIN Places} \ materialized :
           materialized' = materialized \cup {t} /\ UNCHANGED fresh_gate
     \/ fresh_gate = NoFile /\ fresh_gate' = {Places[1].task} /\ UNCHANGED materialized
  /\ UNCHANGED <<report_at, evidence_index, harvest_state, reports_written, commands, kills>>

-----------------------------------------------------------------------------
(* The evidence index *)

\* Without the fresh list every v2 row counts as strictly fresh.
_classify_stratum(place) ==
  CASE place.kind = "probe" -> "v2_oracle_probe"
    [] place.kind = "v0" -> "v0_reference"
    [] place.kind = "v1" -> "v1_fresh"
    [] place.kind = "v2" -> IF fresh_gate = NoFile \/ place.task \in fresh_gate THEN "v2_strict_fresh"
                            ELSE "v2_reference"
    [] OTHER -> "planned_only"

_check_manifest_ok(i) ==
  IF report_at[i].vouched THEN "ok" ELSE "bad"

\* Any report counts as completed, except in a tree nobody knows.
IndexRow(i) ==
  LET stratum == _classify_stratum(Places[i])
  IN IF ~report_at[i].parses
     THEN [task |-> Places[i].task, stratum |-> "", label |-> "", status |-> "unparsed",
           manifest |-> "none"]
     ELSE [task |-> Places[i].task, stratum |-> stratum, label |-> report_at[i].label,
           status |-> IF report_at[i].completed \/ stratum # "planned_only"
                      THEN "official_eval_completed" ELSE "planned_only",
           manifest |-> _check_manifest_ok(i)]

\* One row per task and stratum, the first by path; a file that does not parse has a
\* row of its own.
Hidden(r, i) == \E j \in 1..(i - 1) :
                  /\ r[j] # NoFile /\ r[j].parses
                  /\ Places[j].task = Places[i].task
                  /\ _classify_stratum(Places[j]) = _classify_stratum(Places[i])
X_scan_skips_unparsed(r) == {i \in DOMAIN Places : r[i] # NoFile /\ r[i].parses /\ ~Hidden(r, i)}
scan_eval_reports(r) == {i \in DOMAIN Places : r[i] # NoFile /\ (r[i].parses => ~Hidden(r, i))}

_scan_materialized_not_executed(completed) ==
  {[task |-> t, stratum |-> "v2_strict_fresh", label |-> "",
    status |-> "materialized_not_executed", manifest |-> "none"] : t \in materialized \ completed}

\* Rows of the reports (by place) and of pair inputs whose task has no completed row.
scan_evidence_root ==
  LET rows == [i \in scan_eval_reports(report_at) |-> IndexRow(i)]
  IN [reports |-> rows,
      inputs |-> _scan_materialized_not_executed(
                   {rows[i].task : i \in {k \in DOMAIN rows :
                                            rows[k].status = "official_eval_completed"}})]

IndexedTasks(x) == {x.reports[i].task : i \in DOMAIN x.reports} \cup {row.task : row \in x.inputs}

\* What the summary counts as uplift and as harm, by words in the label.
Mentioning(x, words) ==
  Cardinality({i \in DOMAIN x.reports :
                 x.reports[i].label # "" /\ Mentions[x.reports[i].label] \cap words # {}})
build_index_summary(x) ==
  [uplift_pair_count |-> Mentioning(x, {"positive_uplift"}),
   harm_pair_count |-> Mentioning(x, {"harm", "negative"})]

\* seen is history: the tasks with evidence on the root when it was scanned.
Seen == {Places[i].task : i \in {k \in DOMAIN Places : report_at[k] # NoFile}} \cup materialized
write_evidence_index ==
  /\ Command
  /\ evidence_index' = [rows |-> scan_evidence_root, seen |-> Seen,
                         summary |-> build_index_summary(scan_evidence_root)]
  /\ UNCHANGED <<evidence_root, harvest_state, reports_written, kills>>

-----------------------------------------------------------------------------
(* The harvest of fresh targets *)

\* Of the first n instances of the dataset those that are not excluded.
Eligible(excluded, n) ==
  LET kept[k \in 0..n] ==
        IF k = 0 THEN << >>
        ELSE IF k \in DOMAIN Dataset /\ Dataset[k] \notin excluded
          THEN Append(kept[k - 1], Dataset[k]) ELSE kept[k - 1]
  IN  kept[n]

\* A missing index raises; a Lite300 report that cannot be read blocks, and the plan
\* written then selects nothing.
harvest_plan(excluded) ==
  LET eligible == Eligible(IndexedTasks(evidence_index.rows) \cup excluded, Len(Dataset))
  IN IF excluded = NoFile
     THEN [decision |-> "plan_blocked_lite300_exclusion_degraded", selected |-> << >>]
     ELSE [decision |-> "plan_ready",
           selected |-> SubSeq(eligible, 1, IF Len(eligible) < MaxInstances
                                            THEN Len(eligible) ELSE MaxInstances)]

write_fresh_target_harvest_plan ==
  /\ Command /\ evidence_index # NoFile
  /\ target_plan' = [decision |-> harvest_plan(lite300).decision,
                      selected |-> harvest_plan(lite300).selected,
                      known |-> evidence_index.seen \cup (IF lite300 = NoFile THEN {} ELSE lite300)]
  /\ UNCHANGED <<evidence_root, evidence_index, lite300, harvest, harvested,
                 reports_written, kills>>

\* The plan's decision is not looked at, only its instances.
run_fresh_target_harvest ==
  /\ Command
  /\ target_plan.decision # "none" /\ harvest.pc = "idle"
  /\ harvest' = [NoHarvest EXCEPT !.pc = "running", !.todo = target_plan.selected,
                                   !.known = target_plan.known]
  /\ UNCHANGED <<evidence_root, evidence_index, lite300, target_plan, harvested,
                 reports_written, kills>>

\* The baseline arm of the next instance; one that resolves or raises is no target.
harvest_instance ==
  /\ harvest.pc = "running" /\ harvest.todo # << >>
  /\ \E unresolved \in BOOLEAN :
       harvest' = [harvest EXCEPT
                     !.todo = Tail(@),
                     !.candidates = IF unresolved THEN @ \cup {Head(harvest.todo)} ELSE @]
  /\ UNCHANGED <<evidence_root, evidence_index, lite300, target_plan, harvested,
                 reports_written, commands, kills>>

\* Killed, it leaves no report, or the one of an earlier harvest.
harvest_ends ==
  /\ harvest.pc = "running"
  /\ \/ /\ harvest.todo = << >>
        /\ harvested' = [decision |-> IF harvest.candidates # {} THEN "execute_complete"
                                      ELSE "execute_no_candidates",
                         candidates |-> harvest.candidates, known |-> harvest.known]
        /\ UNCHANGED kills
     \/ kills < MaxKills /\ kills' = kills + 1 /\ UNCHANGED harvested
  /\ harvest' = NoHarvest
  /\ UNCHANGED <<evidence_root, evidence_index, lite300, target_plan, reports_written, commands>>

\* The Lite300 report is lost, or read again.
lite300_changes ==
  /\ target_plan.decision # "none" /\ commands < MaxCommands
  /\ lite300' \in {NoFile, {Dataset[1]}} \ {lite300}
  /\ UNCHANGED <<evidence_root, evidence_index, target_plan, harvest, harvested,
                 reports_written, commands, kills>>

EvidenceNext ==
  \/ evaluate \/ prepare
  \/ write_evidence_index
  \/ write_fresh_target_harvest_plan \/ run_fresh_target_harvest \/ harvest_instance
  \/ harvest_ends \/ lite300_changes

EvidenceSpec == EvidenceInit /\ [][EvidenceNext]_evidence_vars

-----------------------------------------------------------------------------
(* Properties *)

\* A harvested failure target has no evidence on the root the index was made of, not even
\* a report that does not parse, one hidden behind another or inputs never executed, and
\* is in no Lite300 run the plan could read (fresh_target_harvest.py: "Contamination
\* exclusion is a hard gate"); and with a Lite300 report that could not be read nothing
\* is selected at all.
HarvestIsUnseen ==
  /\ harvested.candidates \cap harvested.known = {}
  /\ target_plan.decision = "plan_blocked_lite300_exclusion_degraded" => target_plan.selected = << >>
=============================================================================
