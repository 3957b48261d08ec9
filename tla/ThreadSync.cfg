SPECIFICATION FairSpec
CONSTANTS
  Tasks = {t1, t2}
  Threads = {h1}
  VM = vm
  Mutexes = {m1, m2}
  Channel = chan
  None = None
  MaxCalls = 4
INVARIANTS HeldExact NoMissedWake
PROPERTIES WakeRuns
CHECK_DEADLOCK FALSE
