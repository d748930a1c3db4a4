\* One request, one grant, two calls at a time, two results, two edits; the loop is
\* fair and maintenance ends for good.  No symmetry, since the run checks liveness.
SPECIFICATION FairSpec
CONSTANTS
  Requests = {r1}
  Grants = {g1}
  Calls = {c1, c2}
  Kinds = {"discover", "analyze", "materials"}
  Keys = {k1}
  Results = {p1, p2}
  None = None
  MaxEdits = 2
  MaxActiveGrants = 1
  HistoryLimit = 1
INVARIANTS AppliedAsReviewed ShownIsTrue
PROPERTIES AuthorisedEffects KeepsPromise WorkSettles
