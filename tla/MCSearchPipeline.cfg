\* Two queries at once over two adverts, two runs, one change by others, two faults.
SPECIFICATION Spec
CONSTANTS
  Listings = {l1, l2}
  Contents = {t1, t2}
  Queries = {q1, q2}
  Concurrency = 2
  None = None
  MaxFound = 2
  MaxRuns = 2
  MaxChanges = 1
  MaxFaults = 2
SYMMETRY Symmetry
INVARIANTS Accounted DoneIsWhole NeverStuck
PROPERTY ResultsAreCurrent
CHECK_DEADLOCK FALSE
