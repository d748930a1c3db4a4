\* Is no search work left in the writer section?
SPECIFICATION Spec
CONSTANTS
  MaxAttempts = 1
  MaxRequests = 1
  MaxFaults = 0
INVARIANT WorkDrained
