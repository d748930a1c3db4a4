SPECIFICATION MCFairSpec
CONSTANTS
  Models = {m1}
  Default = m1
  Calls = {c1}
  None = None
  MaxRestarts = 1
  MaxFaults = 1
  MaxRequests = 3
INVARIANTS ServersOwned ReadyHasServer SettledPhase
PROPERTY WaitsEnd
