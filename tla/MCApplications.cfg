\* Two requests at a time; four events, edits and faults in all, after which it stops.
SPECIFICATION Spec
CONSTANTS
  Requests = {r1, r2}
  Stages = {"saved", "withdrawn"}
  Contents = {c1, c2}
  MaxRank = 2
  MaxSteps = 4
  None = None
SYMMETRY Symmetry
INVARIANTS BoardExact TimelineWhole PacketsKept
PROPERTIES PacketFromSavedDraft
CHECK_DEADLOCK FALSE
