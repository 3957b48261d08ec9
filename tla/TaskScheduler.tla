--------------------------- MODULE TaskScheduler ---------------------------
(***************************************************************************)
(* The task scheduler of one Coil VM: scopes, child tasks, cancellation,   *)
(* panics and the run queue (machine/src/task.rs, vm_task.rs, vm_unwind.rs *)
(* and the `task` module's callers in compiler/src/prelude/task.coil).     *)
(*                                                                         *)
(* Tasks are cooperative: `current` runs user code (at = "user") until a   *)
(* suspension point enters task_run_next (at = "pick").  The loops and the *)
(* tail recursion inside one native call (the cancels of task_end,         *)
(* finalize -> after_finish -> finalize) are steps of their own here; no   *)
(* user step is enabled between them, so their atomicity is kept.          *)
(***************************************************************************)
EXTENDS Integers, Sequences, FiniteSets

CONSTANTS
    MaxTasks,    \* bound: child tasks one scheduler numbers
    MaxScopes,   \* bound: scopes one scheduler numbers
    MaxShield,   \* bound: nested `task::shield` sections
    Conds,       \* wait conditions (task_cond_new)
    Ops          \* which operations user code performs in this instance

OpNames == {"join", "sleep", "retry", "cond", "yield", "cancel", "shield",
            "panic", "overflow", "defer", "suspendingDefer"}

ASSUME ConstantsAssumption ==
    /\ MaxTasks \in Nat /\ MaxScopes \in Nat /\ MaxShield \in Nat
    /\ Conds \subseteq Nat
    /\ Ops \subseteq OpNames

VARIABLES
    sched,      \* the VM has a Scheduler (Machine::sched is Some)
    tasks,      \* ids with a TaskRec
    rec,        \* id -> TaskRec
    scopes,     \* ids with a ScopeRec
    sc,         \* id -> ScopeRec
    runQueue,   \* Scheduler::run_queue
    current,    \* Scheduler::current; names the last task that ran while none runs
    live,       \* Scheduler::live
    nextTask, nextScope,
    panicMsg,   \* Machine::task_panic_message, by the task that raised it
    unwinding,  \* tasks whose frames run cleanup pads
    at,         \* where the VM thread is
    subj,       \* the task task_run_next or task_end is working on
    cancels,    \* tasks the running native has still to task_request_cancel
    fin,        \* the finalize / after_finish under way
    ret,        \* status the resumed native returned that its caller must act on
    raised      \* history: tasks that panicked

schedVars == <<sched, tasks, rec, scopes, sc, runQueue, current, live, nextTask, nextScope>>
ctlVars == <<at, subj, cancels, fin>>
vars == <<sched, tasks, rec, scopes, sc, runQueue, current, live, nextTask, nextScope,
          panicMsg, unwinding, at, subj, cancels, fin, ret, raised>>

-----------------------------------------------------------------------------
ROOT == 0
NoTask == -1
NoMsg == -1
EmptyMsg == -2                  \* Some(""): a panic whose message was gone
TaskId == 0..MaxTasks
ScopeId == 1..MaxScopes
Msg == TaskId \cup {NoMsg, EmptyMsg}

TaskState == {"Ready", "Running", "Blocked", "Done", "Failed", "Dropped", "Ending"}
FinishedStates == {"Done", "Failed", "Dropped"}

\* Block::Sleep and Block::Io leave a result slot ("sleep"); Block::Thread and
\* Block::IoRetry run their native again ("retry").
BlockOn == {"none", "join", "scope", "sleep", "retry", "cond", "cancel"}
Block == [on: BlockOn, id: Nat]
NoBlock == [on |-> "none", id |-> 0]
WaitFor(kind, i) == [on |-> kind, id |-> i]
External == {"sleep", "retry"}

\* "scopeError" is STATUS_PANICKED of the scope with this id.
WakeTo == {"none", "unit", "retry", "status", "scopeError", "deadlock"}
Wake == [to: WakeTo, id: Nat]
NoWake == [to |-> "none", id |-> 0]
WakeWith(kind) == [to |-> kind, id |-> 0]

TaskRec == [scope: 0..MaxScopes, state: TaskState, block: Block, wake: Wake,
            slot: BOOLEAN, joiners: SUBSET TaskId, panic: Msg, started: BOOLEAN,
            cancel: {"None", "Requested", "Unwinding"}, shield: Nat,
            ending: FinishedStates \cup {"none"}]

\* TaskRec::new
FreshRec(s, st) ==
    [scope |-> s, state |-> st, block |-> NoBlock, wake |-> NoWake, slot |-> FALSE,
     joiners |-> {}, panic |-> NoMsg, started |-> FALSE, cancel |-> "None", shield |-> 0,
     ending |-> "none"]
NewRec(s) == FreshRec(s, "Ready")
RootRec == FreshRec(0, "Running")       \* Scheduler::new
BlankRec(t) == IF t = ROOT THEN RootRec ELSE NewRec(0)

\* `framed`: the `scope` call that opened it is still on its owner's stack and
\* can reach its task_scope_close.
ScopeRec == [owner: TaskId, unfinished: Nat, closed: BOOLEAN, failed: Msg,
             framed: BOOLEAN]
NewScope(t) == [owner |-> t, unfinished |-> 0, closed |-> FALSE, failed |-> NoMsg,
                framed |-> TRUE]
BlankScope == [owner |-> ROOT, unfinished |-> 0, closed |-> TRUE, failed |-> NoMsg,
               framed |-> FALSE]

NoFin == [id |-> NoTask, state |-> "none", step |-> "none"]
FinRec == [id: TaskId \cup {NoTask}, state: FinishedStates \cup {"none"},
           step: {"none", "state", "wake"}]
Finalize(t, st) == [id |-> t, state |-> st, step |-> "state"]

-----------------------------------------------------------------------------
Finished(t) == rec[t].state \in FinishedStates
Children(s) == {t \in tasks : t # ROOT /\ rec[t].scope = s}
ScopesOwnedBy(t) == {s \in scopes : sc[s].owner = t}
OwnedChildrenFinished(t) == \A s \in ScopesOwnedBy(t) : sc[s].unfinished = 0
ChildrenOwnedBy(t) == UNION {Children(s) : s \in ScopesOwnedBy(t)}
Framed(t) == {s \in ScopesOwnedBy(t) : sc[s].framed}
Innermost(s) == s \in Framed(current) /\ \A r \in Framed(current) : r <= s
Deliverable(r) == r.cancel = "Requested" /\ r.shield = 0

\* No loop or recursion of a native is under way.
Settled == cancels = {} /\ fin = NoFin
User == at = "user" /\ Settled /\ ret = NoWake
\* tasks_can_switch, at the nesting level that owns the scheduler
CanSwitch == sched /\ live > 0
\* User code of an unwinding task is its `defer` blocks.
MayRun(op) == op \in Ops /\ (current \in unwinding => "defer" \in Ops)
MaySuspend(op) == op \in Ops /\ (current \in unwinding => "suspendingDefer" \in Ops)

\* Updates of one field
Shielded(r, n) == [r EXCEPT !.shield = n]
JoinedBy(r, J) == [r EXCEPT !.joiners = J]
Counted(f, n) == [f EXCEPT !.unfinished = n]
\* make_ready on a record
Readied(r, w) == [r EXCEPT !.state = "Ready", !.block = NoBlock, !.wake = w]
\* The scopes of a task whose frames unwind are never closed by their bodies.
Unframed(f, t) == [s \in ScopeId |-> IF s \in ScopesOwnedBy(t)
                                     THEN [f[s] EXCEPT !.framed = FALSE] ELSE f[s]]

-----------------------------------------------------------------------------
Init ==
    /\ sched = FALSE /\ tasks = {ROOT} /\ rec = [t \in TaskId |-> BlankRec(t)]
    /\ scopes = {} /\ sc = [s \in ScopeId |-> BlankScope]
    /\ runQueue = <<>> /\ current = ROOT /\ live = 0 /\ nextTask = 1 /\ nextScope = 1
    /\ panicMsg = NoMsg /\ unwinding = {} /\ raised = {}
    /\ at = "user" /\ subj = NoTask /\ cancels = {} /\ fin = NoFin /\ ret = NoWake

\* task_scope_open
ScopeOpen ==
    /\ User /\ (current \in unwinding => "defer" \in Ops)
    /\ nextScope <= MaxScopes
    /\ sched' = TRUE
    /\ scopes' = scopes \cup {nextScope}
    /\ sc' = [sc EXCEPT ![nextScope] = NewScope(current)]
    /\ nextScope' = nextScope + 1
    /\ UNCHANGED <<tasks, rec, runQueue, current, live, nextTask, panicMsg, unwinding,
                   at, subj, cancels, fin, ret, raised>>

\* task_spawn: any task that holds the Scope handle may spawn on it.
Spawn(s) ==
    /\ User /\ (current \in unwinding => "defer" \in Ops)
    /\ s \in scopes /\ ~sc[s].closed
    /\ nextTask <= MaxTasks
    /\ tasks' = tasks \cup {nextTask}
    /\ rec' = [rec EXCEPT ![nextTask] = NewRec(s)]
    /\ sc' = [sc EXCEPT ![s] = Counted(@, @.unfinished + 1)]
    /\ runQueue' = Append(runQueue, nextTask)
    /\ live' = live + 1 /\ nextTask' = nextTask + 1
    /\ UNCHANGED <<sched, scopes, current, nextScope, panicMsg, unwinding, at, subj,
                   cancels, fin, ret, raised>>

\* The effect of remove_scope for each scope of S on tasks and records.
Forget(S, r) == [t \in TaskId |->
    IF \E s \in S : t \in Children(s) THEN BlankRec(t) ELSE r[t]]
ForgetScopes(S, f) == [s \in ScopeId |-> IF s \in S THEN BlankScope ELSE f[s]]
Forgotten(S) == UNION {Children(s) : s \in S}

\* remove_scope(s), then task_drop_idle_scheduler: ids restart with the next
\* scheduler.
RemoveScope(s) ==
    IF live = 0 /\ scopes \subseteq {s} /\ current = ROOT
    THEN /\ sched' = FALSE /\ tasks' = {ROOT} /\ rec' = [t \in TaskId |-> BlankRec(t)]
         /\ scopes' = {} /\ sc' = [r \in ScopeId |-> BlankScope] /\ runQueue' = <<>>
         /\ nextTask' = 1 /\ nextScope' = 1 /\ raised' = {}
    ELSE /\ scopes' = scopes \ {s} /\ tasks' = tasks \ Children(s)
         /\ rec' = Forget({s}, rec) /\ sc' = ForgetScopes({s}, sc)
         /\ UNCHANGED <<sched, runQueue, nextTask, nextScope, raised>>

-----------------------------------------------------------------------------
\* task_suspend_at: the record and the queue of the suspending task.
DeliversNow(r) == Deliverable(r)
SuspendRec(r, b, hasSlot) ==
    IF DeliversNow(r) \/ b = NoBlock
    THEN [r EXCEPT !.state = "Ready", !.block = NoBlock, !.slot = hasSlot,
                   !.wake = WakeWith(IF hasSlot THEN "unit" ELSE "retry")]
    ELSE [r EXCEPT !.state = "Blocked", !.block = b, !.slot = hasSlot]
SuspendQueue(r, b) ==
    CASE DeliversNow(r) -> <<current>> \o runQueue
      [] ~DeliversNow(r) /\ b = NoBlock -> Append(runQueue, current)
      [] OTHER -> runQueue

Suspend(b, hasSlot) ==
    /\ rec' = [rec EXCEPT ![current] = SuspendRec(@, b, hasSlot)]
    /\ runQueue' = SuspendQueue(rec[current], b)
    /\ at' = "pick"

\* task_scope_close, by the scope call the current task is in.
ScopeCloseDone(s) ==
    /\ User /\ Innermost(s) /\ sc[s].unfinished = 0 /\ sc[s].failed = NoMsg
    /\ RemoveScope(s)
    /\ UNCHANGED <<current, live, panicMsg, unwinding, at, subj, cancels, fin, ret>>

ScopeCloseFailed(s) ==
    /\ User /\ Innermost(s) /\ sc[s].unfinished = 0 /\ sc[s].failed # NoMsg
    /\ sc' = [sc EXCEPT ![s].closed = TRUE, ![s].framed = FALSE]
    /\ ret' = [to |-> "scopeError", id |-> s]
    /\ UNCHANGED <<sched, tasks, rec, scopes, runQueue, current, live, nextTask,
                   nextScope, panicMsg, unwinding, at, subj, cancels, fin, raised>>

ScopeCloseWait(s) ==
    /\ User /\ Innermost(s) /\ sc[s].unfinished # 0
    /\ current \in unwinding => "suspendingDefer" \in Ops
    /\ sc' = [sc EXCEPT ![s].closed = TRUE, ![s].framed = FALSE]
    /\ Suspend(WaitFor("scope", s), TRUE)
    /\ UNCHANGED <<sched, tasks, scopes, current, live, nextTask, nextScope, panicMsg,
                   unwinding, subj, cancels, fin, ret, raised>>

\* task_scope_error: the failed scope's caller reads its message.
ScopeError ==
    /\ at = "user" /\ Settled /\ ret.to = "scopeError"
    /\ ret' = NoWake
    /\ RemoveScope(ret.id)
    /\ UNCHANGED <<current, live, panicMsg, unwinding, at, subj, cancels, fin>>

\* task_join of an unfinished task
Join(h) ==
    /\ User /\ MaySuspend("join") /\ CanSwitch
    /\ h \in tasks /\ h # ROOT /\ h # current /\ ~Finished(h)
    /\ rec' = [rec EXCEPT ![h] = JoinedBy(@, @.joiners \cup {current}),
                          ![current] = SuspendRec(@, WaitFor("join", h), TRUE)]
    /\ runQueue' = SuspendQueue(rec[current], WaitFor("join", h))
    /\ at' = "pick"
    /\ UNCHANGED <<sched, tasks, scopes, sc, current, live, nextTask, nextScope, panicMsg,
                   unwinding, subj, cancels, fin, ret, raised>>

Unmoved == UNCHANGED <<sched, tasks, scopes, sc, current, live, nextTask, nextScope,
                       panicMsg, unwinding, subj, cancels, fin, ret, raised>>

\* task_sleep, task_suspend_io: a result slot waits for the value.
Sleep == User /\ MaySuspend("sleep") /\ CanSwitch
         /\ Suspend(WaitFor("sleep", 0), TRUE) /\ Unmoved

\* task_suspend_thread, task_suspend_io_retry: the native runs again.
Retry == User /\ MaySuspend("retry") /\ CanSwitch
         /\ Suspend(WaitFor("retry", 0), FALSE) /\ Unmoved

\* task_yield: nothing happens while no other task is ready.
Yield == User /\ MaySuspend("yield") /\ CanSwitch /\ runQueue # <<>>
         /\ Suspend(NoBlock, TRUE) /\ Unmoved

\* task_cond_wait
CondWait(c) == User /\ MaySuspend("cond") /\ CanSwitch
               /\ Suspend(WaitFor("cond", c), TRUE) /\ Unmoved

\* task_cond_wait with no other task left: the caller panics on the status.
CondWaitAlone ==
    /\ User /\ MaySuspend("cond") /\ ~CanSwitch
    /\ ret' = WakeWith("deadlock")
    /\ UNCHANGED <<schedVars, ctlVars, panicMsg, unwinding, raised>>

CondWaiters(c) == {t \in tasks : rec[t].state = "Blocked" /\ rec[t].block = WaitFor("cond", c)}

\* task_cond_notify: wakes its waiters one after the other.
CondNotify(c) ==
    /\ User /\ MayRun("cond")
    /\ CondWaiters(c) # {}
    /\ at' = "notify" /\ subj' = c
    /\ UNCHANGED <<schedVars, panicMsg, unwinding, cancels, fin, ret, raised>>

WakeCond(t) ==
    /\ at = "notify" /\ t \in CondWaiters(subj)
    /\ rec' = [rec EXCEPT ![t] = Readied(@, WakeWith("status"))]
    /\ runQueue' = Append(runQueue, t)
    /\ at' = IF CondWaiters(subj) = {t} THEN "user" ELSE "notify"
    /\ subj' = IF CondWaiters(subj) = {t} THEN NoTask ELSE subj
    /\ UNCHANGED <<sched, tasks, scopes, sc, current, live, nextTask, nextScope, panicMsg,
                   unwinding, cancels, fin, ret, raised>>

\* The early returns of task_request_cancel
Cancellable(c) == c \in tasks /\ c # ROOT /\ ~Finished(c) /\ rec[c].state # "Ending"
                  /\ rec[c].cancel = "None"

\* Task::cancel through a handle (one that has something to do)
Cancel(h) ==
    /\ User /\ MayRun("cancel")
    /\ Cancellable(h)
    /\ cancels' = {h}
    /\ UNCHANGED <<schedVars, at, subj, fin, panicMsg, unwinding, ret, raised>>

\* task_shield_enter
ShieldEnter ==
    /\ User /\ MayRun("shield") /\ sched
    /\ rec[current].shield < MaxShield
    /\ rec' = [rec EXCEPT ![current] = Shielded(@, @.shield + 1)]
    /\ UNCHANGED <<sched, tasks, scopes, sc, runQueue, current, live, nextTask, nextScope,
                   ctlVars, panicMsg, unwinding, ret, raised>>

\* task_shield_exit: leaving the last section delivers a waiting cancel.
ShieldExit ==
    /\ User /\ MayRun("shield") /\ sched
    /\ rec[current].shield > 0
    /\ LET r == Shielded(rec[current], rec[current].shield - 1)
           deliver == current # ROOT /\ Deliverable(r)
       IN /\ rec' = [rec EXCEPT ![current] = IF deliver THEN SuspendRec(r, NoBlock, TRUE) ELSE r]
          /\ runQueue' = IF deliver THEN SuspendQueue(r, NoBlock) ELSE runQueue
          /\ at' = IF deliver THEN "pick" ELSE "user"
    /\ Unmoved

-----------------------------------------------------------------------------
\* Instruction::Panic / runtime_panic in the current task, and the panic the
\* `task` module raises on a deadlock status.  A child's message waits in the
\* machine; its frames unwind.
Panic ==
    /\ at = "user" /\ Settled
    /\ \/ ret = NoWake /\ MayRun("panic")
       \/ ret.to = "deadlock"
    /\ ret' = NoWake
    /\ panicMsg' = IF current = ROOT THEN panicMsg ELSE current
    /\ raised' = raised \cup {current}
    /\ unwinding' = unwinding \cup {current}
    /\ sc' = Unframed(sc, current)
    /\ UNCHANGED <<sched, tasks, rec, scopes, runQueue, current, live, nextTask, nextScope,
                   ctlVars>>

\* task_end: the record of t and of the scopes it concerns, and whom it cancels.
\* (the wake value was taken by task_switch_in)
EndRec(r, st, msg) == [r EXCEPT !.state = "Ending", !.ending = st, !.panic = msg,
                                !.wake = NoWake]
EndScope(s, t, msg) ==
    [sc[s] EXCEPT !.closed = @ \/ sc[s].owner = t,
                  !.failed = IF rec[t].scope = s /\ @ = NoMsg THEN msg ELSE @]
LaterSiblings(t) == {c \in Children(rec[t].scope) : c > t}    \* mutant
Siblings(t) == Children(rec[t].scope) \ {t}

TaskEnd(t, st, msg) ==
    /\ rec' = [rec EXCEPT ![t] = EndRec(@, st, msg)]
    /\ sc' = [s \in ScopeId |-> IF s \in scopes THEN EndScope(s, t, msg) ELSE sc[s]]
    /\ cancels' = ChildrenOwnedBy(t) \cup (IF msg = NoMsg THEN {} ELSE Siblings(t))
    /\ at' = "end" /\ subj' = t

\* task_finished: the child's body returned.
Return ==
    /\ User /\ current # ROOT /\ current \notin unwinding
    /\ Framed(current) = {} /\ rec[current].shield = 0
    /\ TaskEnd(current, "Done", NoMsg)
    /\ UNCHANGED <<sched, tasks, scopes, runQueue, current, live, nextTask, nextScope,
                   panicMsg, unwinding, fin, ret, raised>>

\* A cancel unwinds without a message; a panic, even in a `defer` the cancel
\* runs, fails the task.
CancelledAnyway(t) == rec[t].cancel = "Unwinding"              \* mutant
Cancelled(t) == panicMsg = NoMsg /\ rec[t].cancel = "Unwinding"

\* task_recover_panic of a child: the last pad ran (or there was none).
UnwindDone ==
    /\ User /\ current \in unwinding /\ current # ROOT
    /\ Framed(current) = {}
    /\ IF Cancelled(current)
       THEN TaskEnd(current, "Dropped", NoMsg)
       ELSE TaskEnd(current, "Failed", IF panicMsg = NoMsg THEN EmptyMsg ELSE panicMsg)
    /\ panicMsg' = NoMsg
    /\ unwinding' = unwinding \ {current}
    /\ UNCHANGED <<sched, tasks, scopes, runQueue, current, live, nextTask, nextScope,
                   fin, ret, raised>>

Halted ==
    /\ sched' = FALSE /\ tasks' = {ROOT} /\ rec' = [t \in TaskId |-> BlankRec(t)]
    /\ scopes' = {} /\ sc' = [s \in ScopeId |-> BlankScope] /\ runQueue' = <<>>
    /\ live' = 0 /\ nextTask' = 1 /\ nextScope' = 1 /\ raised' = {}
    /\ panicMsg' = NoMsg /\ unwinding' = {} /\ at' = "halted"
    /\ UNCHANGED <<current, subj, cancels, fin, ret>>

\* task_recover_panic of the root: task_teardown, the program ends.
RootPanicEnds == User /\ current = ROOT /\ ROOT \in unwinding /\ Framed(ROOT) = {} /\ Halted

\* main returned.
MainReturns == User /\ current = ROOT /\ ROOT \notin unwinding /\ Framed(ROOT) = {} /\ Halted

\* The last lines of task_end.
EndsWithChildren(t) == t \in tasks /\ rec[t].state = "Ending"   \* mutant
EndsNow(t) == t \in tasks /\ rec[t].state = "Ending" /\ OwnedChildrenFinished(t)

EndCheck ==
    /\ at = "end" /\ Settled
    /\ fin' = IF EndsNow(subj)
              THEN Finalize(subj, rec[subj].ending) ELSE NoFin
    /\ at' = "pick" /\ subj' = NoTask
    /\ UNCHANGED <<schedVars, panicMsg, unwinding, cancels, ret, raised>>

-----------------------------------------------------------------------------
\* finalize, up to its call of after_finish: the scope counts the task out, the
\* scopes it opened are forgotten with their tasks.
CountsOutStarted(t) == rec[t].scope \in scopes /\ ~Finished(t) /\ rec[t].started  \* mutant
CountsOut(t) == rec[t].scope \in scopes /\ ~Finished(t)
OwnedKept(t) == {}                                             \* mutant
OwnedForgotten(t) == ScopesOwnedBy(t)

FinishedRec(r, st) == [r EXCEPT !.state = st, !.ending = "none"]

FinalizeState ==
    /\ fin.step = "state"
    /\ LET t == fin.id
           S == OwnedForgotten(t)
           r == [rec EXCEPT ![t] = FinishedRec(@, fin.state)]
           f == IF CountsOut(t) THEN [sc EXCEPT ![rec[t].scope] = Counted(@, @.unfinished - 1)] ELSE sc
       IN /\ rec' = Forget(S, r)
          /\ sc' = ForgetScopes(S, f)
          /\ scopes' = scopes \ S
          /\ tasks' = tasks \ Forgotten(S)
    /\ live' = live - 1
    /\ fin' = [fin EXCEPT !.step = "wake"]
    /\ UNCHANGED <<sched, runQueue, current, nextTask, nextScope, panicMsg, unwinding, at,
                   subj, cancels, ret, raised>>

\* after_finish: one of the tasks joining fin.id
WakeJoiner(j) ==
    /\ fin.step = "wake" /\ j \in rec[fin.id].joiners
    /\ LET wakes == j \in tasks /\ rec[j].state = "Blocked" /\ rec[j].block = WaitFor("join", fin.id)
       IN /\ rec' = [t \in TaskId |->
               IF t = fin.id THEN JoinedBy(rec[t], rec[t].joiners \ {j})
               ELSE IF t = j /\ wakes THEN Readied(rec[t], WakeWith("status")) ELSE rec[t]]
          /\ runQueue' = IF wakes THEN Append(runQueue, j) ELSE runQueue
    /\ UNCHANGED <<sched, tasks, scopes, sc, current, live, nextTask, nextScope, panicMsg,
                   unwinding, at, subj, cancels, fin, ret, raised>>

\* after_finish: check_scope_done, then the owner that waits to unwind or to end
ScopeWake(s) == IF sc[s].failed = NoMsg THEN WakeWith("status")
                ELSE [to |-> "scopeError", id |-> s]
CancelWake(r) == WakeWith("unit")

ScopeDoneOk(s) == sc[s].closed /\ sc[s].unfinished = 0 /\ sc[s].failed = NoMsg    \* mutant
ScopeDone(s) == sc[s].closed /\ sc[s].unfinished = 0

NotifyOwner ==
    /\ fin.step = "wake" /\ rec[fin.id].joiners = {}
    /\ LET s == rec[fin.id].scope
           o == sc[s].owner
           here == s \in scopes /\ o \in tasks
           scopeDone == here /\ ScopeDone(s)
                             /\ rec[o].state = "Blocked" /\ rec[o].block = WaitFor("scope", s)
           ends == here /\ OwnedChildrenFinished(o) /\ rec[o].ending # "none"
           unwinds == here /\ OwnedChildrenFinished(o) /\ rec[o].ending = "none"
                           /\ rec[o].state = "Blocked" /\ rec[o].block.on = "cancel"
       IN /\ fin' = IF ends THEN Finalize(o, rec[o].ending) ELSE NoFin
          /\ rec' = IF scopeDone THEN [rec EXCEPT ![o] = Readied(@, ScopeWake(s))]
                    ELSE IF unwinds THEN [rec EXCEPT ![o] = Readied(@, CancelWake(@))]
                    ELSE rec
          /\ runQueue' = IF scopeDone \/ unwinds THEN Append(runQueue, o) ELSE runQueue
    /\ UNCHANGED <<sched, tasks, scopes, sc, current, live, nextTask, nextScope, panicMsg,
                   unwinding, at, subj, cancels, ret, raised>>

\* run_queue.retain(|t| *t != id)
\* (an id is queued at most once, see QueueExact)
Positions(q, t) == {i \in DOMAIN q : q[i] = t}
WithoutKeeps(q, t) == q         \* mutant: a dropped task stays queued
Without(q, t) ==
    IF Positions(q, t) = {} THEN q
    ELSE LET i == CHOOSE i \in Positions(q, t) : TRUE
         IN SubSeq(q, 1, i - 1) \o SubSeq(q, i + 1, Len(q))

\* task_request_cancel
Requested(r) == [r EXCEPT !.cancel = "Requested"]
CancelRec(c) ==
    LET r == Requested(rec[c])
    IN IF r.shield > 0 \/ c = current \/ r.state # "Blocked" THEN r
       ELSE Readied(r, WakeWith(IF r.block.on = "retry" THEN "retry" ELSE "unit"))

RequestCancel(c) ==
    /\ fin = NoFin /\ c \in cancels
    /\ cancels' = cancels \ {c}
    /\ IF ~Cancellable(c)
       THEN UNCHANGED <<rec, runQueue, fin>>
       ELSE IF ~rec[c].started
            THEN /\ runQueue' = Without(runQueue, c)
                 /\ fin' = Finalize(c, "Dropped")
                 /\ UNCHANGED rec
            ELSE /\ rec' = [rec EXCEPT ![c] = CancelRec(c)]
                 /\ runQueue' = IF CancelRec(c).state # rec[c].state
                                THEN Append(runQueue, c) ELSE runQueue
                 /\ UNCHANGED fin
    /\ UNCHANGED <<sched, tasks, scopes, sc, current, live, nextTask, nextScope, panicMsg,
                   unwinding, at, subj, ret, raised>>

-----------------------------------------------------------------------------
\* task_run_next pops a task: the root resumes, a child goes on to PickRun.
Resumed(r) == [r EXCEPT !.state = "Running", !.wake = NoWake, !.slot = FALSE]

PickRoot ==
    /\ at = "pick" /\ Settled /\ runQueue # <<>> /\ Head(runQueue) = ROOT
    /\ runQueue' = Tail(runQueue)
    /\ IF rec[ROOT].state = "Ready"
       THEN /\ current' = ROOT /\ at' = "user"
            /\ rec' = [rec EXCEPT ![ROOT] = Resumed(@)]
            /\ ret' = IF rec[ROOT].wake.to \in {"scopeError", "deadlock"}
                      THEN rec[ROOT].wake ELSE NoWake
       ELSE UNCHANGED <<current, at, rec, ret>>
    /\ UNCHANGED <<sched, tasks, scopes, sc, live, nextTask, nextScope, panicMsg, unwinding,
                   subj, cancels, fin, raised>>

\* task_cancel_waits_for_children: a cancel to deliver first cancels the tasks
\* of the scopes this task opened.
NeverWaits(t) == FALSE                                         \* mutant
AlwaysWaits(t) == Deliverable(rec[t]) /\ ScopesOwnedBy(t) # {}  \* mutant: no second look
WaitsForChildren(t) == Deliverable(rec[t]) /\ ~OwnedChildrenFinished(t)

PickChild ==
    /\ at = "pick" /\ Settled /\ runQueue # <<>> /\ Head(runQueue) # ROOT
    /\ runQueue' = Tail(runQueue)
    /\ LET t == Head(runQueue)
       IN IF t \in tasks /\ rec[t].state = "Ready"
          THEN /\ at' = "run" /\ subj' = t
               /\ cancels' = IF WaitsForChildren(t) THEN ChildrenOwnedBy(t) ELSE {}
          ELSE UNCHANGED <<at, subj, cancels>>
    /\ UNCHANGED <<sched, tasks, rec, scopes, sc, current, live, nextTask, nextScope,
                   panicMsg, unwinding, fin, ret, raised>>

\* Its children still run: block until they stop.
BlockedOnChildren(r) == [r EXCEPT !.state = "Blocked", !.block = WaitFor("cancel", 0)]

RunBlocked ==
    /\ at = "run" /\ Settled /\ WaitsForChildren(subj)
    /\ rec' = [rec EXCEPT ![subj] = BlockedOnChildren(@)]
    /\ at' = "pick" /\ subj' = NoTask
    /\ UNCHANGED <<sched, tasks, scopes, sc, runQueue, current, live, nextTask, nextScope,
                   panicMsg, unwinding, cancels, fin, ret, raised>>

\* task_switch_in, task_take_cancel, task_cancel_unwind
SwitchedIn(r, c) == [r EXCEPT !.state = "Running", !.started = TRUE, !.wake = NoWake,
                              !.slot = FALSE, !.cancel = c]

RunSwitch ==
    /\ at = "run" /\ Settled /\ ~WaitsForChildren(subj)
    /\ current' = subj /\ at' = "user" /\ subj' = NoTask
    /\ IF Deliverable(rec[subj])
       THEN /\ rec' = [rec EXCEPT ![subj] = SwitchedIn(@, "Unwinding")]
            /\ panicMsg' = NoMsg
            /\ unwinding' = unwinding \cup {subj}
            /\ sc' = Unframed(sc, subj)
            /\ ret' = NoWake
       ELSE /\ rec' = [rec EXCEPT ![subj] = SwitchedIn(@, @.cancel)]
            /\ ret' = IF rec[subj].wake.to = "scopeError" THEN rec[subj].wake ELSE NoWake
            /\ UNCHANGED <<panicMsg, unwinding, sc>>
    /\ UNCHANGED <<sched, tasks, scopes, runQueue, live, nextTask, nextScope, cancels, fin,
                   raised>>

\* task_switch_in overflows the stack: the task ends as failed.
RunOverflow ==
    /\ at = "run" /\ Settled /\ ~WaitsForChildren(subj) /\ "overflow" \in Ops
    /\ TaskEnd(subj, "Failed", subj)
    /\ raised' = raised \cup {subj}
    /\ unwinding' = unwinding \ {subj}
    /\ UNCHANGED <<sched, tasks, scopes, runQueue, current, live, nextTask, nextScope,
                   panicMsg, fin, ret>>

\* task_wait_events: IO readiness, timers and posted keys wake tasks (at least one).
WaitEvent(t) ==
    /\ at = "wait" \/ (at = "pick" /\ runQueue = <<>>)
    /\ Settled
    /\ t \in tasks /\ rec[t].state = "Blocked" /\ rec[t].block.on \in External
    /\ rec' = [rec EXCEPT ![t] =
                 Readied(@, WakeWith(IF @.block.on = "retry" THEN "retry" ELSE "unit"))]
    /\ runQueue' = Append(runQueue, t)
    /\ at' = "wait"
    /\ Unmoved

WaitDone ==
    /\ at = "wait" /\ at' = "pick"
    /\ UNCHANGED <<schedVars, subj, cancels, fin, panicMsg, unwinding, ret, raised>>

\* task_deadlock: nothing can ever wake a task, so the root continues with the
\* deadlock status.
DeadlockKept(r) == r                    \* mutant: make_ready finds it not blocked
DeadlockRec(r) == Readied(r, WakeWith("deadlock"))

Deadlock ==
    /\ at = "pick" /\ Settled /\ runQueue = <<>>
    /\ ~\E t \in tasks : rec[t].state = "Blocked" /\ rec[t].block.on \in External
    /\ rec' = [rec EXCEPT ![ROOT] = DeadlockRec(@)]
    /\ runQueue' = <<ROOT>>
    /\ UNCHANGED <<sched, tasks, scopes, sc, current, live, nextTask, nextScope, ctlVars,
                   panicMsg, unwinding, ret, raised>>

Terminated == at = "halted" /\ UNCHANGED vars

\* Steps of the VM between two user steps: they always run.
VMStep ==
    \/ FinalizeState \/ NotifyOwner \/ EndCheck
    \/ \E j \in TaskId : WakeJoiner(j)
    \/ \E c \in TaskId : RequestCancel(c)
    \/ \E t \in TaskId : WakeCond(t)
    \/ PickRoot \/ PickChild \/ RunBlocked \/ RunSwitch \/ RunOverflow
    \/ \E t \in TaskId : WaitEvent(t)
    \/ WaitDone \/ Deadlock

UserStep ==
    \/ ScopeOpen
    \/ \E s \in ScopeId : Spawn(s)
    \/ \E s \in ScopeId : ScopeCloseDone(s) \/ ScopeCloseFailed(s) \/ ScopeCloseWait(s)
    \/ ScopeError
    \/ \E h \in TaskId : Join(h) \/ Cancel(h)
    \/ Sleep \/ Retry \/ Yield
    \/ \E c \in Conds : CondWait(c) \/ CondNotify(c)
    \/ CondWaitAlone
    \/ ShieldEnter \/ ShieldExit
    \/ Panic \/ Return \/ UnwindDone \/ RootPanicEnds \/ MainReturns

Next == VMStep \/ UserStep \/ Terminated

Spec == Init /\ [][Next]_vars

\* The VM thread keeps executing while it has something to execute.
FairSpec == Spec /\ WF_vars(Next)

-----------------------------------------------------------------------------
\* Every variable has the type its Rust field has.
TypeOK ==
    /\ sched \in BOOLEAN /\ tasks \subseteq TaskId /\ rec \in [TaskId -> TaskRec]
    /\ scopes \subseteq ScopeId /\ sc \in [ScopeId -> ScopeRec]
    /\ runQueue \in Seq(TaskId) /\ current \in TaskId /\ live \in Nat
    /\ nextTask \in 1..(MaxTasks + 1) /\ nextScope \in 1..(MaxScopes + 1)
    /\ panicMsg \in Msg /\ unwinding \subseteq TaskId /\ raised \subseteq TaskId
    /\ at \in {"user", "notify", "pick", "run", "end", "wait", "halted"}
    /\ subj \in Nat \cup {NoTask} /\ cancels \subseteq TaskId
    /\ fin \in FinRec /\ ret \in Wake

\* The run queue holds exactly the ready tasks, each once: a task queued twice
\* would run while it is blocked, one left out would never run again.
QueueExact ==
    /\ \A i, j \in DOMAIN runQueue : runQueue[i] = runQueue[j] => i = j
    /\ \A t \in TaskId :
         (t \in tasks /\ rec[t].state = "Ready") <=>
           \/ \E i \in DOMAIN runQueue : runQueue[i] = t
           \/ at = "run" /\ subj = t
           \/ fin.step = "state" /\ fin.id = t /\ rec[t].state = "Ready"

\* Structured concurrency: every task record belongs to a scope that exists,
\* and the task that opened a scope has not finished, so no task outlives its
\* scope or its parent.
Structured ==
    /\ \A t \in tasks \ {ROOT} : rec[t].scope \in scopes
    /\ \A s \in scopes : sc[s].owner \in tasks /\ ~Finished(sc[s].owner)

\* The counters the scheduler keeps instead of scanning children (#2135) are
\* exact: `unfinished` of each scope and `live` of the scheduler.
CountersExact ==
    /\ \A s \in scopes : sc[s].unfinished = Cardinality({t \in Children(s) : ~Finished(t)})
    /\ live = Cardinality({t \in tasks \ {ROOT} : ~Finished(t)})

\* No wakeup is lost: whatever a task waits for inside the VM is still going to
\* happen and still knows the task (its joiner list, its scope's owner).
FinishingIn(s) == fin.step = "wake" /\ rec[fin.id].scope = s
OwnedPending(t) == \E s \in ScopesOwnedBy(t) : sc[s].unfinished > 0 \/ FinishingIn(s)
NoLostWakeup ==
    \A t \in tasks :
      LET b == rec[t].block IN
      /\ rec[t].state = "Blocked" /\ b.on = "join" =>
           /\ b.id \in tasks /\ t \in rec[b.id].joiners
           /\ ~Finished(b.id) \/ (fin.step = "wake" /\ fin.id = b.id)
      /\ rec[t].state = "Blocked" /\ b.on = "scope" =>
           /\ b.id \in ScopesOwnedBy(t) /\ sc[b.id].closed
           /\ sc[b.id].unfinished > 0 \/ FinishingIn(b.id)
      /\ rec[t].state = "Blocked" /\ b.on = "cancel" => OwnedPending(t)
      /\ rec[t].state = "Ending" =>
           OwnedPending(t) \/ (at = "end" /\ subj = t) \/ (fin.step = "state" /\ fin.id = t)

\* A panic fails the whole scope: every child spawned before the one that
\* panicked first has been cancelled or has finished.
FailureCancels ==
    Settled /\ at # "end" =>
      \A s \in scopes : sc[s].failed \in Children(s) =>
        \A c \in Children(s) : c < sc[s].failed =>
          Finished(c) \/ rec[c].state = "Ending" \/ rec[c].cancel # "None"

\* A task that panicked ends as failed, with its own message.
PanicReported ==
    \A t \in tasks : t \in raised /\ Finished(t) => rec[t].state = "Failed" /\ rec[t].panic = t

\* A cancel is delivered at once to a task that is suspended and unshielded.
CancelDelivered ==
    Settled => \A t \in tasks :
      ~(rec[t].state = "Blocked" /\ Deliverable(rec[t]) /\ rec[t].block.on # "cancel")

\* Cancellation only moves forward, and a task starts to unwind only when it
\* is in no shield and every task of the scopes it opened has finished.
CancelStep(t) ==
    LET c == rec[t].cancel
        d == rec'[t].cancel
    IN /\ c # "None" => d # "None"
       /\ c = "Unwinding" => d = "Unwinding"
       /\ c # "Unwinding" /\ d = "Unwinding" =>
            /\ c = "Requested" /\ rec[t].shield = 0
            /\ \A k \in ChildrenOwnedBy(t) : Finished(k)
CancelOrder == [][\A t \in tasks \cap tasks' : CancelStep(t)]_vars

\* A record is forgotten only after its task finished (or the program ended).
ForgetStep == at' = "halted" \/ \A t \in tasks \ tasks' : Finished(t)
ForgetsOnlyFinished == [][ForgetStep]_vars

\* No silent hang: the machine never goes on without running a task while the
\* root is blocked.  The root gets its result or, when every task waits for
\* another one, the deadlock status.
RunningTask == \E t \in tasks : rec[t].state = "Running"
NoSilentHang == []<>(at = "halted" \/ rec[ROOT].state # "Blocked" \/ RunningTask)
=============================================================================
