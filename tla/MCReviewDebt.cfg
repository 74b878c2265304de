\* Two requests under way at a time, or one and a scrape; two stamps, and a run that is
\* overwritten twice.
SPECIFICATION DebtSpec
SYMMETRY Symmetry
CONSTANTS
  Runs = {r1}
  s1 = s1  s2 = s2  x = x  y = y  d1 = d1
  Seats = {s1, s2}
  Steps = {x, y}
  DecisionIds = {d1}
  Records <- MCRecords
  Legacy <- MCLegacy
  Reviewers = {p1, p2}
  Scrapers = {t1}
  MaxWrites = 2
  MaxAttestations = 2
INVARIANTS
  ClearedIsAccountable
  QuietScrapeIsTrue
  EachItemCountedOnce
PROPERTY
  ClearingIsStable
