\* Trees of three tasks: joins, cancels, panics and stack overflows.
CONSTANTS
    MaxTasks = 3
    MaxScopes = 2
    MaxShield = 1
    Conds = {}
    Ops <- TreeOps
SPECIFICATION Spec
INVARIANTS
    QueueExact Structured CountersExact NoLostWakeup FailureCancels PanicReported
PROPERTIES
    CancelOrder ForgetsOnlyFinished
