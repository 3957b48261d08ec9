SPECIFICATION FairSpec
CONSTANTS
    Tasks = {a, b, c}
    MaxTime = 1
    MaxTimers = 2
    MaxTokens = 1
INVARIANTS TablesExact
PROPERTIES NeverEarly SleepEnds
