\* Three requests, two versions, two edits, two faults. A deleted draft is the end.
SPECIFICATION Spec
CONSTANTS
  Requests = {r1, r2, r3}
  MaxVersions = 2
  MaxEdits = 2
  MaxFaults = 2
  None = None
SYMMETRY Symmetry
INVARIANT NoStrayArtifact
PROPERTIES VersionFilesKept PublishedCurrentAndWhole
CHECK_DEADLOCK FALSE
