SPECIFICATION FairSpec
CONSTANTS
  Workers = {w1, w2}
  Spares = {s1}
  Root = root
  MaxJobs = 2
INVARIANTS JobsOnce NoLostWakeup
PROPERTIES JobsEnd RootReturns
