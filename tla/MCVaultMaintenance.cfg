\* Two competing requests from two families, two record sets sharing a file,
\* and two crashes or failing steps.
SPECIFICATION Spec
CONSTANTS
  Clients = {c1, c2}
  Sessions = {s1, s2}
  A = A
  B = B
  f1 = f1
  f2 = f2
  Archives = {A, B}
  Refused = {}
  Files = {f1, f2}
  FilesOf <- TwoArchives
  None = None
  MaxFaults = 2
SYMMETRY Symmetry
INVARIANTS ReadyIsIntact ManagedFilesKept JournalSound RecoveryNeverStartsFresh
PROPERTY KeepsPromise
