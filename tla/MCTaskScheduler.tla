-------------------------- MODULE MCTaskScheduler --------------------------
(***************************************************************************)
(* Instances of TaskScheduler for TLC: what user code does in each run.    *)
(***************************************************************************)
EXTENDS TaskScheduler

\* Joins, cancels, panics and stack overflows; `defer` blocks do not suspend.
TreeOps == {"join", "cancel", "panic", "overflow", "defer"}

\* Every way to wait, with a cancel to interrupt it, shields to hold it off
\* and `defer` blocks that suspend.
WaitOps == {"sleep", "retry", "cond", "yield", "cancel", "shield", "suspendingDefer"}

\* A cancel that finds no task running.
LostCancelOps == {"sleep", "cancel"}
=============================================================================
