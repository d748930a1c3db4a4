SPECIFICATION Spec
CONSTANTS
  Families = {f1, f2, f3}
  Browsers = {b1}
  Requests = {r1, r2}
  MaxSlots = 2
  MaxGen = 1
  MaxFaults = 1
  None = None
SYMMETRY Symmetry
INVARIANTS LogoutIsFinal OnePendingFamily NeitherSideKeeps
PROPERTY ExchangedOnce
CHECK_DEADLOCK FALSE
