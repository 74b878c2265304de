---------------------------- MODULE MCReviewDebt ----------------------------
(* Review debt for TLC: requests that interleave with each other while the  *)
(* run is overwritten, or that come one at a time while it is scraped.      *)
EXTENDS MCDebtGauges

VARIABLE part

debt_vars == <<part, gaugeVars>>

\* Bound of the scraped part: one request at a time, and one stamp.
OneRequest == Cardinality({p \in Reviewers : rev[p].pc # "idle"}) <= 1 /\ clock <= 2

DebtInit == GInit /\ part \in {"requests", "scrape"}

DebtNext == /\ UNCHANGED part
            /\ \/ part = "requests" /\ Others
               \/ part = "scrape" /\ GNext /\ OneRequest'

DebtSpec == DebtInit /\ [][DebtNext]_debt_vars

Symmetry == Permutations(Reviewers)
=============================================================================
