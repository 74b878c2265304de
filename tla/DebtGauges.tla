----------------------------- MODULE DebtGauges -----------------------------
(***************************************************************************)
(* The /metrics endpoint (apps/api/aro_api/main.py, metrics, and           *)
(* aro_telemetry/metrics.py, refresh_review_debt_gauges) on top of         *)
(* ReviewDebt.  A scrape reads all runs in one query and the attestations  *)
(* of each run in another, then clears and sets gauges that belong to the  *)
(* process, one call at a time, and renders them.  The handler is a plain  *)
(* function, so the server runs two scrapes in two threads.                *)
(*                                                                         *)
(* A decision id stands for the rule that flagged it, the gauges' label; a *)
(* label without a series counts as 0.  The age gauge is left out.         *)
(***************************************************************************)
EXTENDS ReviewDebt, Sequences, FiniteSets

CONSTANT Scrapers

VARIABLES gauges,       \* gauge -> label -> value, shared by the threads
          scrape,       \* what each scrape is doing
          quiet         \* scrapes during which nothing was written (history)

gaugeVars == <<stored, atts, rev, clock, writes, gauges, scrape, quiet>>

Gauge == {"open", "cleared", "stale"}
Zero == [d \in DecisionIds |-> 0]

NoScrape == [pc |-> "idle"]

GInit == /\ Init
         /\ gauges = [g \in Gauge |-> Zero]
         /\ scrape = [t \in Scrapers |-> NoScrape]
         /\ quiet = {}

\* The debt item of d in run r counts for gauge g.
\* Mutant: a stale item is no longer counted open.
Counts_StaleApart(g, item) ==
  CASE g = "open"    -> item.cleared_by = 0 /\ ~item.stale
    [] g = "cleared" -> item.cleared_by # 0
    [] g = "stale"   -> item.cleared_by = 0 /\ item.stale
Counts(g, item) ==
  CASE g = "open"    -> item.cleared_by = 0
    [] g = "cleared" -> item.cleared_by # 0
    [] g = "stale"   -> item.cleared_by = 0 /\ item.stale

Tally(items, g) ==
  [d \in DecisionIds |->
     Cardinality({it \in items : it.item.decision_id = d /\ Counts(g, it.item)})]

ItemsOf(r, rec, as) == {[run |-> r, item |-> i] : i \in compute_review_debt(r, rec, as)}

\* store.all_runs()
scrape_runs(t) ==
  /\ scrape[t].pc = "idle"
  /\ scrape' = [scrape EXCEPT ![t] =
       [pc |-> "reading", runs |-> stored, todo |-> Runs, items |-> {}]]
  /\ quiet' = quiet \cup {t}
  /\ UNCHANGED <<stored, atts, rev, clock, writes, gauges>>

\* store.list_attestations(run.id), run by run
scrape_attestations(t) ==
  /\ scrape[t].pc = "reading"
  /\ \E r \in scrape[t].todo :
       LET items == scrape[t].items \cup ItemsOf(r, scrape[t].runs[r], atts[r])
           todo == scrape[t].todo \ {r}
       IN  scrape' = [scrape EXCEPT ![t] =
             IF todo # {} THEN [pc |-> "reading", runs |-> scrape[t].runs,
                                todo |-> todo, items |-> items]
             ELSE [pc |-> "clear", items |-> items, runs |-> scrape[t].runs,
                   todo |-> <<"open", "cleared", "stale">>]]
  /\ UNCHANGED <<stored, atts, rev, clock, writes, gauges, quiet>>

\* Mutant: the gauges are not cleared first, so a label that has gone keeps its
\* value: labels(...).set() is called only for the rules that have items.
scrape_clear_Skip(t) ==
  /\ scrape[t].pc = "clear"
  /\ scrape' = [scrape EXCEPT ![t] =
       [pc |-> "set", items |-> scrape[t].items, runs |-> scrape[t].runs,
        todo |-> <<"open", "cleared", "stale">>]]
  /\ UNCHANGED <<stored, atts, rev, clock, writes, gauges, quiet>>

\* GAUGE.clear(), three times
scrape_clear(t) ==
  /\ scrape[t].pc = "clear"
  /\ gauges' = [gauges EXCEPT ![Head(scrape[t].todo)] = Zero]
  /\ LET rest == Tail(scrape[t].todo)
     IN  scrape' = [scrape EXCEPT ![t] =
           [pc |-> IF rest = << >> THEN "set" ELSE "clear",
            items |-> scrape[t].items, runs |-> scrape[t].runs,
            todo |-> IF rest = << >> THEN <<"open", "cleared", "stale">> ELSE rest]]
  /\ UNCHANGED <<stored, atts, rev, clock, writes, quiet>>

\* GAUGE.labels(rule_id).set(n) for the labels that have items, gauge by gauge
scrape_set(t) ==
  /\ scrape[t].pc = "set"
  /\ LET g == Head(scrape[t].todo)
         n == Tally(scrape[t].items, g)
         rest == Tail(scrape[t].todo)
     IN  /\ gauges' = [gauges EXCEPT ![g] =
              [d \in DecisionIds |-> IF n[d] > 0 THEN n[d] ELSE gauges[g][d]]]
         /\ scrape' = [scrape EXCEPT ![t] =
              [pc |-> IF rest = << >> THEN "render" ELSE "set",
               items |-> scrape[t].items, runs |-> scrape[t].runs, todo |-> rest]]
  /\ UNCHANGED <<stored, atts, rev, clock, writes, quiet>>

\* generate_latest()
scrape_render(t) ==
  /\ scrape[t].pc = "render"
  /\ scrape' = [scrape EXCEPT ![t] =
       [pc |-> "rendered", runs |-> scrape[t].runs, out |-> gauges]]
  /\ UNCHANGED <<stored, atts, rev, clock, writes, gauges, quiet>>

scrape_done(t) ==
  /\ scrape[t].pc = "rendered"
  /\ scrape' = [scrape EXCEPT ![t] = NoScrape]
  /\ quiet' = quiet \ {t}
  /\ UNCHANGED <<stored, atts, rev, clock, writes, gauges>>

\* Everything else that goes on; a write ends the quiet of the scrapes under way.
Others ==
  /\ Next
  /\ quiet' = IF UNCHANGED <<stored, atts>> THEN quiet ELSE {}
  /\ UNCHANGED <<gauges, scrape>>

ScrapeStep(t) == \/ scrape_runs(t) \/ scrape_attestations(t) \/ scrape_clear(t)
                 \/ scrape_set(t) \/ scrape_render(t) \/ scrape_done(t)

GNext == Others \/ \E t \in Scrapers : ScrapeStep(t)

GSpec == GInit /\ [][GNext]_gaugeVars
-----------------------------------------------------------------------------
(* Properties *)

Rendered(t) == scrape[t].pc = "rendered"

TrueItems == UNION {ItemsOf(r, stored[r], atts[r]) : r \in Runs}

\* metrics.py: "the gauges always reflect true current state regardless of
\* concurrency".  Nothing was written during the scrape, so there is one true
\* state, and the scrape shows it.
QuietScrapeIsTrue ==
  \A t \in Scrapers \cap quiet :
     Rendered(t) => \A g \in Gauge : scrape[t].out[g] = Tally(TrueItems, g)

\* Attestations and overwrites may land between the queries of a scrape: still
\* every flagged decision of the runs it read is counted once, open or cleared,
\* and only open ones are counted stale.
EachItemCountedOnce ==
  \A t \in Scrapers : Rendered(t) =>
     \A d \in DecisionIds :
        /\ scrape[t].out["open"][d] + scrape[t].out["cleared"][d]
              = Cardinality({r \in Runs : d \in scrape[t].runs[r].flagged})
        /\ scrape[t].out["stale"][d] <= scrape[t].out["open"][d]
=============================================================================
