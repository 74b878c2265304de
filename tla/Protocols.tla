----------------------------- MODULE Protocols -----------------------------
(***************************************************************************)
(* The documents of Protocol B1 and Protocol v2 (intervention/             *)
(* protocol_b1.py, protocol_v2.py), which operators keep as JSON files and *)
(* every command loads anew, and B1's way from the preregistered plan      *)
(* through the anti-leak preflight (route_b1.py) to a live arm and what    *)
(* its agent may be shown (b1_issue_repro.py).  RouteB1 has the arms as    *)
(* processes, and a leak as a fact; here is what is found to leak.         *)
(*                                                                         *)
(* A document is a function from its fields to what is written there; what *)
(* matters of a text is which pieces of the answer it holds.               *)
(***************************************************************************)
EXTENDS Naturals, FiniteSets

CONSTANTS MaxEdits    \* bound: edits of the files by hand

-----------------------------------------------------------------------------
(* from_dict and to_dict                                                   *)

\* What a field takes, by how it is read.
KindOf == [B1 |-> [trigger_type |-> "exact", predicates |-> "text", evidence_sources |-> "sources",
                   action_type |-> "exact", info_kind |-> "exact", payload_fields |-> "subset",
                   payload_provenance |-> "default", prompt_style |-> "default",
                   max_injections |-> "default", replay_free |-> "flag",
                   raw_payload_logging |-> "flag", oracle_capsule_allowed |-> "flag",
                   eval_identifiers_visible |-> "flag", same_pair_claim |-> "flag",
                   uplift_claim |-> "flag", forbidden_categories |-> "superset",
                   claim |-> "default", version |-> "default"],
           v2 |-> [trigger_type |-> "exact", predicates |-> "text", evidence_sources |-> "sources",
                   action_type |-> "exact", prescription_id |-> "exact", steps |-> "same_set",
                   prompt_style |-> "default", max_injections |-> "default",
                   raw_payload_logging |-> "flag", eval_identifiers_visible |-> "flag",
                   test_identifiers_visible |-> "flag", same_pair_claim |-> "flag",
                   claim |-> "default", version |-> "default"]]

Names == DOMAIN KindOf

\* "null" is any value that is not true; a flag tests identity with False, so only
\* its absence is taken for it.  "token" is a text with a word of the oracle's.
Written == {"absent", "null", "right", "other", "part", "more", "reordered", "token", "executable"}

accepted(kind) ==
  CASE kind = "exact"    -> {"right"}
    [] kind = "default"  -> {"right", "absent", "null"}
    [] kind = "flag"     -> {"right", "absent"}
    [] kind = "text"     -> {"right", "other"}
    [] kind = "sources"  -> {"right", "part", "reordered"}
    [] kind = "subset"   -> {"right", "absent", "null", "part", "reordered"}
    [] kind = "superset" -> {"right", "absent", "null", "more", "reordered"}
    [] kind = "same_set" -> {"right", "absent", "null", "reordered"}

template(name) == [field \in DOMAIN KindOf[name] |-> "right"]

loads_v2(doc) == \A field \in DOMAIN doc : doc[field] \in accepted(KindOf.v2[field])
loads_b1(doc) == \A field \in DOMAIN doc : doc[field] \in accepted(KindOf.B1[field])

\* from_dict fills in defaults and sorts the categories, and to_dict writes every field.
from_dict(doc) ==
  LET replaced(field) == {"absent", "null"} \cup
                         (IF field = "forbidden_categories" THEN {"reordered"} ELSE {})
  IN  [field \in DOMAIN doc |-> IF doc[field] \in replaced(field) THEN "right" ELSE doc[field]]

\* What a live arm shows of a protocol: trigger and action.
runtime_visible(doc) == {doc[f] : f \in {"predicates", "info_kind", "payload_fields",
                                         "payload_provenance", "prompt_style"}}

-----------------------------------------------------------------------------
(* The payload                                                             *)

\* Pieces of the answer: a word that names it, the id of an official test, an added
\* line of test or fix; and a context or short line, which issue and fix may share.
Pieces == {"token", "test_id", "test_line", "fix_line", "shared_line"}

\* Without the task's gold row there is nothing to compare with but words.
Forbidden(refs) == IF refs THEN Pieces \ {"shared_line"} ELSE {"token"}

\* Mutant: the scan sees the issue's steps alone.
b1_payload_leak_scan_Steps(payload, refs) == payload.steps \cap Forbidden(refs)
b1_payload_leak_scan(payload, refs) == (payload.steps \cup payload.traceback) \cap Forbidden(refs)

\* An issue is its text and, if it has any, its fenced code.
One == {{}} \cup {{p} : p \in Pieces}
Issues == {[fences |-> TRUE, code |-> code, text |-> {"token"}] : code \in One}
          \cup {[fences |-> FALSE, code |-> {}, text |-> text] : text \in One}

extract_issue_reproduction_steps(issue) == IF issue.fences THEN issue.code ELSE issue.text

build_b1_payload(issue) == [steps |-> extract_issue_reproduction_steps(issue), traceback |-> {}]

\* No script without fences; what the script prints may hold anything.
attach_captured_traceback(payload, issue, printed) ==
  [payload EXCEPT !.traceback = IF issue.fences THEN printed ELSE {}]

-----------------------------------------------------------------------------
VARIABLES docs,       \* the protocol files
          contracts,  \* payload_field_contract of the plan's anchor rows
          plan,       \* decision of b1_plan_report.json
          antileak,   \* decision of b1_antileak_report.json
          live_arm,       \* a live arm
          edits

protocol_vars == <<docs, contracts, plan, antileak, live_arm, edits>>

NoLive == [pc |-> "none", refs |-> FALSE, injected |-> FALSE]

ProtocolInit == /\ docs = [name \in Names |-> template(name)]
                /\ contracts = {} /\ plan = "none" /\ antileak = "none"
                /\ live_arm = NoLive /\ edits = 0

\* By hand, between any two commands.
edit == /\ edits < MaxEdits /\ edits' = edits + 1
        /\ \/ \E name \in Names : \E field \in DOMAIN docs[name], value \in Written :
                /\ docs' = [docs EXCEPT ![name][field] = value]
                /\ UNCHANGED contracts
           \/ \E value \in {"other", "token"} :
                contracts' = contracts \cup {value} /\ docs' = docs
        /\ UNCHANGED <<plan, antileak, live_arm>>

\* write_route_b1_plan_evidence: the template, rows for the manifest's anchors (some
\* or none, with a negative number of repetitions at worst), and the gates.
write_plan(prereg, anchors, positive_reps) ==
  /\ docs' = [docs EXCEPT !.B1 = template("B1")]
  /\ contracts' = IF anchors THEN {"right"} ELSE {}
  /\ plan' = IF prereg /\ anchors /\ positive_reps THEN "ready" ELSE "blocked"
  /\ UNCHANGED <<antileak, live_arm, edits>>

\* write_route_b1_antileak_evidence: a protocol that does not load raises; else what
\* is visible of it and the rows' contracts are scanned.
antileak_preflight(gold) ==
  /\ plan # "none" /\ loads_b1(docs.B1)
  /\ LET visible == runtime_visible(from_dict(docs.B1)) \cup contracts
     IN  antileak' = IF "token" \notin visible /\ gold # "incomplete" THEN "passed" ELSE "blocked"
  /\ UNCHANGED <<docs, contracts, plan, live_arm, edits>>

\* route-b1-live-arm with a protocol file, or the template; nothing asks what the
\* plan or the preflight decided.
route_b1_live_arm(given, refs, issue) ==
  /\ live_arm.pc = "none"
  /\ given => loads_b1(docs.B1)
  /\ LET payload == build_b1_payload(issue)
     IN  /\ b1_payload_leak_scan(payload, refs) = {}
         /\ live_arm' = [pc |-> "b1", doc |-> IF given THEN from_dict(docs.B1) ELSE template("B1"),
                     refs |-> refs, issue |-> issue, payload |-> payload, injected |-> FALSE]
  /\ UNCHANGED <<docs, contracts, plan, antileak, edits>>

\* The hook at the first model query: capture, scan again, inject.
b1_on_model_query(printed) ==
  /\ live_arm.pc = "b1"
  /\ LET payload == attach_captured_traceback(live_arm.payload, live_arm.issue, printed)
     IN  live_arm' = [live_arm EXCEPT !.pc = "queried", !.payload = payload,
                              !.injected = b1_payload_leak_scan(payload, live_arm.refs) = {}]
  /\ UNCHANGED <<docs, contracts, plan, antileak, edits>>

\* protocol-v2-live-single, or a preflight, with a protocol file.
protocol_v2_command ==
  /\ live_arm.pc = "none" /\ loads_v2(docs.v2)
  /\ live_arm' = [pc |-> "v2", doc |-> from_dict(docs.v2), refs |-> FALSE, injected |-> FALSE]
  /\ UNCHANGED <<docs, contracts, plan, antileak, edits>>

live_over == live_arm.pc \in {"v2", "queried"} /\ live_arm' = NoLive
             /\ UNCHANGED <<docs, contracts, plan, antileak, edits>>

ProtocolNext ==
  \/ edit \/ protocol_v2_command \/ live_over
  \/ \E prereg, anchors, positive_reps \in BOOLEAN : write_plan(prereg, anchors, positive_reps)
  \/ \E gold \in {"none", "incomplete", "complete"} : antileak_preflight(gold)
  \/ \E given, refs \in BOOLEAN, issue \in Issues : route_b1_live_arm(given, refs, issue)
  \/ \E printed \in One : b1_on_model_query(printed)

ProtocolSpec == ProtocolInit /\ [][ProtocolNext]_protocol_vars
-----------------------------------------------------------------------------
\* protocol_b1.py: "the gold patch / oracle / official-eval outcome structurally
\* forbidden".  Whatever was edited since plan and preflight, and although no live
\* command asks what these decided, a run starts only under a protocol that loads
\* to itself when it is written out, with the template's guards and no word of the
\* oracle in what its agent sees.  An injected payload, from the issue or from what
\* its script printed, holds no word that names the answer; if the arm was given the
\* task's gold row, it holds no official test id and no added line of test or fix
\* either, but for a line the issue may share.  Without that row ids and lines are
\* not looked for, and may be injected.
LiveIsClean ==
  live_arm.pc # "none" =>
    /\ from_dict(live_arm.doc) = live_arm.doc
    /\ IF live_arm.pc = "v2" THEN loads_v2(live_arm.doc) ELSE loads_b1(live_arm.doc)
    /\ \A f \in DOMAIN live_arm.doc :
         /\ live_arm.doc[f] \notin {"token", "executable"}
         /\ f \notin {"predicates", "evidence_sources", "payload_fields", "steps",
                      "forbidden_categories"} => live_arm.doc[f] = "right"
    /\ live_arm.injected =>
         (live_arm.payload.steps \cup live_arm.payload.traceback)
           \subseteq (IF live_arm.refs THEN {"shared_line"} ELSE Pieces \ {"token"})
=============================================================================
