\* Two scrapes at a time, nothing written while they last.
SPECIFICATION GSpec
CONSTANTS
  Runs = {r1}
  s1 = s1  s2 = s2  x = x  y = y  d1 = d1
  Seats = {s1, s2}
  Steps = {x, y}
  DecisionIds = {d1}
  Records <- MCRecords
  Legacy = {}
  Reviewers = {p1}
  Scrapers = {t1, t2}
  MaxWrites = 1
  MaxAttestations = 1
INVARIANT
  QuietScrapeIsTrue
