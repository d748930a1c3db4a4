\* Three readers, a probe and two maintainers: two readers can be queued while
\* a third is inside, and one maintainer can queue behind another.  No symmetry,
\* since the run also checks liveness.
SPECIFICATION FairSpec
CONSTANTS
  Readers = {r1, r2, r3}
  Probes = {p1}
  Maintainers = {m1, m2}
  NoTask = NoTask
INVARIANTS WriterExcludesActivity NoLostWakeup
PROPERTY EveryoneServed
