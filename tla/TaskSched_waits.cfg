\* Every kind of wait, interrupted by cancels and held off by shields.
CONSTANTS
    MaxTasks = 2
    MaxScopes = 2
    MaxShield = 1
    Conds = {1}
    Ops <- WaitOps
SPECIFICATION FairSpec
INVARIANTS
    NoLostWakeup
PROPERTIES
    NoSilentHang
