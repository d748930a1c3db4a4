\* Convergence of the pending states: one client at a time, as the frontend
\* sends them, two families, an archive with two files that passes the checks, one that
\* is refused at every try, one crash or failure.
SPECIFICATION LiveSpec
CONSTANTS
  Clients = {c1}
  Sessions = {s1, s2}
  A = A
  B = B
  f1 = f1
  f2 = f2
  Archives = {A, B}
  Refused = {B}
  Files = {f1, f2}
  FilesOf <- LiveArchives
  None = None
  MaxFaults = 1
PROPERTIES PendingConverges ErasureRecovers
