\* A cancel that reaches the last task to run while no task runs.
CONSTANTS
    MaxTasks = 3
    MaxScopes = 2
    MaxShield = 1
    Conds = {}
    Ops <- LostCancelOps
SPECIFICATION Spec
INVARIANTS
    CancelDelivered
