\* Is what the deduplication drops as known analysed?  One advert, three runs.
SPECIFICATION Spec
CONSTANTS
  Listings = {l1}
  Contents = {t1, t2}
  Queries = {q1}
  Concurrency = 1
  None = None
  MaxFound = 1
  MaxRuns = 3
  MaxChanges = 0
  MaxFaults = 1
INVARIANT HistoryIsAnalysed
CHECK_DEADLOCK FALSE
