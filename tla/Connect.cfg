SPECIFICATION FairSpec
CONSTANTS
    Ids = {t}
    Places = {p}
    Resolvers = {r1, r2}
    Args <- MCArgs
    hostOf <- MCHost
    msOf <- MCMs
    None = None
    Found = {0, 2}
    MaxCalls = 3
INVARIANTS NoStrandedJob NoLostLookup
PROPERTIES RightPeer ConnectEnds
