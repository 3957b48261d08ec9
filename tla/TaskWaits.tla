----------------------------- MODULE TaskWaits -----------------------------
(***************************************************************************)
(* What ends a task's external wait: timers and IO tokens (machine/src/    *)
(* task.rs, the wait tables of Scheduler; vm_task.rs, the suspending       *)
(* natives and task_wait_events).  TaskScheduler leaves out which event    *)
(* ends a wait; this module leaves out scopes, joins and shields, and      *)
(* ThreadSync has the waits for other OS threads.  The tasks are the       *)
(* children of one scope the root waits for.                               *)
(***************************************************************************)
EXTENDS Integers, Sequences, FiniteSets

CONSTANTS
    Tasks,
    MaxTime,     \* bound: the clock
    MaxTimers,   \* bound: timer sequence numbers
    MaxTokens    \* bound: reactor tokens

NoTask == "none"

ASSUME WaitsAssumption ==
    /\ IsFiniteSet(Tasks) /\ NoTask \notin Tasks
    /\ MaxTime \in Nat /\ MaxTimers \in Nat /\ MaxTokens \in Nat

VARIABLES
    state, block, wake, cancel, timerSeq,   \* fields of each TaskRec
    runQueue, current,
    timers, nextTimer,      \* Scheduler::timers, next_timer
    ioWaits, nextToken,     \* io_waits: token -> task
    registered,             \* tokens in the reactor's `waits`
    polled,                 \* tokens take_ready returned, not yet handled
    now,
    at,                     \* where the VM thread is
    asOf                    \* the time expired_timers was called with

recVars == <<state, block, wake, cancel, timerSeq>>
tableVars == <<timers, nextTimer, ioWaits, nextToken, registered>>
vars == <<recVars, runQueue, current, tableVars, polled, now, at, asOf>>

-----------------------------------------------------------------------------
Time == 0..MaxTime
TimerSeq == 1..MaxTimers
Token == 1..MaxTokens
Timer == [at: Time, seq: TimerSeq, task: Tasks]

BlockOn == {"none", "sleep", "io", "ioRetry"}
WaitOn(kind, i) == [on |-> kind, id |-> i]
NoBlock == WaitOn("none", 0)

\* "new": ready and not `started`.
Init ==
    /\ state = [t \in Tasks |-> "new"] /\ block = [t \in Tasks |-> NoBlock]
    /\ wake = [t \in Tasks |-> "none"] /\ cancel = [t \in Tasks |-> "None"]
    /\ timerSeq = [t \in Tasks |-> 0]
    /\ runQueue \in {q \in [1..Cardinality(Tasks) -> Tasks] :
                       \A i, j \in DOMAIN q : q[i] = q[j] => i = j}
    /\ current = NoTask
    /\ timers = {} /\ nextTimer = 1
    /\ ioWaits = [k \in Token |-> NoTask] /\ nextToken = 1 /\ registered = {} /\ polled = {}
    /\ now = 0 /\ at = "pick" /\ asOf = 0

-----------------------------------------------------------------------------
\* make_ready (and the same fields in task_request_cancel).  Of the wakes,
\* "slept" is the Wake::Unit of a sleep, "ready" and "timedOut" are Wake::Io.
Ready(t, w) ==
    /\ state' = [state EXCEPT ![t] = "ready"]
    /\ block' = [block EXCEPT ![t] = NoBlock]
    /\ timerSeq' = [timerSeq EXCEPT ![t] = 0]
    /\ wake' = [wake EXCEPT ![t] = w]

\* drop_wait
LeavesEntry(b) ==                                           \* mutant
    /\ registered' = IF b.on \in {"io", "ioRetry"} THEN registered \ {b.id} ELSE registered
    /\ UNCHANGED ioWaits
DropIo(b) ==
    IF b.on \in {"io", "ioRetry"}
    THEN ioWaits' = [ioWaits EXCEPT ![b.id] = NoTask] /\ registered' = registered \ {b.id}
    ELSE UNCHANGED <<ioWaits, registered>>

\* task_suspend_at, for a task that has just entered `b` in the tables
\* (timed: with a timer whose sequence number is `nextTimer`).
Delivers(t) == cancel[t] = "Requested"
NextSeq(t, timed) == IF timed THEN [timerSeq EXCEPT ![t] = nextTimer] ELSE timerSeq
SuspendIn(b, timed) ==
    /\ at' = "pick"
    /\ IF Delivers(current)
       THEN /\ state' = [state EXCEPT ![current] = "ready"]
            /\ timerSeq' = [timerSeq EXCEPT ![current] = 0]
            /\ wake' = [wake EXCEPT ![current] = IF b.on = "ioRetry" THEN "retry" ELSE "unit"]
            /\ runQueue' = <<current>> \o runQueue
            /\ UNCHANGED block
       ELSE /\ state' = [state EXCEPT ![current] = "blocked"]
            /\ block' = [block EXCEPT ![current] = b]
            /\ timerSeq' = NextSeq(current, timed)
            /\ UNCHANGED <<wake, runQueue>>

User == at = "user"

\* add_timer
AddTimer(d) ==
    /\ nextTimer <= MaxTimers
    /\ timers' = timers \cup {[at |-> d, seq |-> nextTimer, task |-> current]}
    /\ nextTimer' = nextTimer + 1

\* task_sleep
Sleep(d) ==
    /\ User /\ d >= now
    /\ AddTimer(d)
    /\ SuspendIn(WaitOn("sleep", 0), TRUE)
    /\ UNCHANGED <<cancel, current, ioWaits, nextToken, registered, polled, now, asOf>>

\* task_suspend_io, task_suspend_io_retry: with (timed) or without a timeout.
\* A cancel that waits is delivered at once and drops the wait again.
SuspendIo(kind, timed, d) ==
    /\ User /\ nextToken <= MaxTokens
    /\ d >= now
    /\ nextToken' = nextToken + 1
    /\ IF timed THEN AddTimer(d) ELSE UNCHANGED <<timers, nextTimer>>
    /\ IF Delivers(current)
       THEN UNCHANGED <<ioWaits, registered>>
       ELSE /\ ioWaits' = [ioWaits EXCEPT ![nextToken] = current]
            /\ registered' = registered \cup {nextToken}
    /\ SuspendIn(WaitOn(kind, nextToken), timed)
    /\ UNCHANGED <<cancel, current, polled, now, asOf>>

\* task_yield: ready again at the back of the queue (at the front with a
\* cancel to deliver); nothing happens while no other task is ready.
Yield ==
    /\ User /\ runQueue # <<>>
    /\ state' = [state EXCEPT ![current] = "ready"]
    /\ wake' = [wake EXCEPT ![current] = "unit"]
    /\ runQueue' = IF Delivers(current) THEN <<current>> \o runQueue ELSE Append(runQueue, current)
    /\ at' = "pick"
    /\ UNCHANGED <<block, cancel, timerSeq, current, tableVars, polled, now, asOf>>

\* run_queue.retain(|t| *t != c), in a queue that holds c at most once
Positions(q, c) == {i \in DOMAIN q : q[i] = c}
Without(q, c) ==
    IF Positions(q, c) = {} THEN q
    ELSE LET i == CHOOSE i \in Positions(q, c) : TRUE
         IN SubSeq(q, 1, i - 1) \o SubSeq(q, i + 1, Len(q))

\* task_request_cancel: a task that never ran is dropped, ...
CancelNew(c) ==
    /\ User /\ state[c] = "new"
    /\ state' = [state EXCEPT ![c] = "ended"]
    /\ runQueue' = Without(runQueue, c)
    /\ UNCHANGED <<block, wake, cancel, timerSeq, current, tableVars, polled, now, at, asOf>>

\* ... a blocked one leaves its wait and is ready again.
Cancel(c) ==
    /\ User /\ cancel[c] = "None" /\ state[c] \notin {"new", "ended"}
    /\ cancel' = [cancel EXCEPT ![c] = "Requested"]
    /\ IF state[c] = "blocked"
       THEN /\ Ready(c, IF block[c].on = "ioRetry" THEN "retry" ELSE "unit")
            /\ runQueue' = Append(runQueue, c)
            /\ DropIo(block[c])
       ELSE UNCHANGED <<state, block, timerSeq, wake, runQueue, ioWaits, registered>>
    /\ UNCHANGED <<current, timers, nextTimer, nextToken, polled, now, at, asOf>>

\* task_finished, or the end of its unwinding
Finish ==
    /\ User
    /\ state' = [state EXCEPT ![current] = "ended"]
    /\ at' = "pick"
    /\ UNCHANGED <<block, wake, cancel, timerSeq, runQueue, current, tableVars, polled, now, asOf>>

-----------------------------------------------------------------------------
\* task_run_next; a cancel that waits is delivered (the task unwinds).
Pick ==
    /\ at = "pick" /\ runQueue # <<>>
    /\ LET t == Head(runQueue) IN
       /\ current' = t
       /\ state' = [state EXCEPT ![t] = "running"]
       /\ wake' = [wake EXCEPT ![t] = "none"]
       /\ cancel' = [cancel EXCEPT ![t] = IF Delivers(t) THEN "Unwinding" ELSE @]
    /\ runQueue' = Tail(runQueue)
    /\ at' = "user"
    /\ UNCHANGED <<block, timerSeq, tableVars, polled, now, asOf>>

\* A timer entry counts only while its task still has its sequence number.
AnyEntry(e) == state[e.task] = "blocked"                    \* mutant
Live(e) == timerSeq[e.task] = e.seq
Earlier(e, f) == e.at < f.at \/ (e.at = f.at /\ e.seq < f.seq)
\* next_deadline pops the stale entries before the first live one.
PoppedOne == {e \in timers : \E f \in timers : Live(f) /\ Earlier(f, e)}    \* mutant
PoppedStale == {e \in timers : \E f \in timers : Live(f) /\ ~Earlier(e, f)}
DeadlinePassed == \E e \in timers : Live(e) /\ e.at <= now

\* task_wait_events, before the wait
WaitEvents ==
    /\ at = "pick" /\ runQueue = <<>> /\ \E t \in Tasks : state[t] # "ended"
    /\ timers' = PoppedStale
    /\ at' = "wait"
    /\ UNCHANGED <<recVars, runQueue, current, nextTimer, ioWaits, nextToken, registered, polled,
                   now, asOf>>

\* The wait returns with ready tokens (wait_any, take_ready), ...
WaitReady(S) ==
    /\ at = "wait" /\ S # {} /\ S \subseteq registered
    /\ polled' = S /\ registered' = registered \ S
    /\ at' = "polled"
    /\ UNCHANGED <<recVars, runQueue, current, timers, nextTimer, ioWaits, nextToken, now, asOf>>

HandleToken(k) ==
    /\ at = "polled" /\ k \in polled
    /\ polled' = polled \ {k}
    /\ ioWaits' = [ioWaits EXCEPT ![k] = NoTask]
    /\ LET t == ioWaits[k] IN
       IF t # NoTask /\ state[t] = "blocked"
       THEN /\ Ready(t, IF block[t].on = "ioRetry" THEN "retry" ELSE "ready")
            /\ runQueue' = Append(runQueue, t)
       ELSE UNCHANGED <<state, block, timerSeq, wake, runQueue>>
    /\ UNCHANGED <<cancel, current, timers, nextTimer, nextToken, registered, now, at, asOf>>

\* ... or at the deadline; then expired_timers(now).
WaitOver ==
    /\ \/ at = "wait" /\ DeadlinePassed
       \/ at = "polled" /\ polled = {}
    /\ at' = "expire" /\ asOf' = now
    /\ UNCHANGED <<recVars, runQueue, current, tableVars, polled, now>>

\* expired_timers: the earliest expired entry.
First(e) == e \in timers /\ \A f \in timers : f = e \/ Earlier(e, f)
Expire(e) ==
    /\ at = "expire" /\ First(e) /\ e.at <= asOf
    /\ timers' = timers \ {e}
    /\ LET t == e.task IN
       IF Live(e) /\ block[t].on \in {"sleep", "io", "ioRetry"}
       THEN /\ Ready(t, CASE block[t].on = "sleep" -> "slept"
                          [] block[t].on = "io" -> "timedOut"
                          [] OTHER -> "retry")
            /\ runQueue' = Append(runQueue, t)
            /\ DropIo(block[t])
       ELSE UNCHANGED <<state, block, timerSeq, wake, runQueue, ioWaits, registered>>
    /\ UNCHANGED <<cancel, current, nextTimer, nextToken, polled, now, at, asOf>>

ExpireDone ==
    /\ at = "expire" /\ ~\E e \in timers : e.at <= asOf
    /\ at' = "pick"
    /\ UNCHANGED <<recVars, runQueue, current, tableVars, polled, now, asOf>>

-----------------------------------------------------------------------------
\* The clock
Tick ==
    /\ now < MaxTime /\ now' = now + 1
    /\ UNCHANGED <<recVars, runQueue, current, tableVars, polled, at, asOf>>

Terminated == (\A t \in Tasks : state[t] = "ended") /\ UNCHANGED vars

UserStep ==
    \/ \E d \in Time : Sleep(d)
    \/ \E kind \in {"io", "ioRetry"}, d \in Time : SuspendIo(kind, TRUE, d)
    \/ \E kind \in {"io", "ioRetry"} : SuspendIo(kind, FALSE, now)
    \/ Yield \/ Finish
    \/ \E c \in Tasks : CancelNew(c) \/ Cancel(c)

EventStep ==
    \/ WaitEvents \/ WaitOver \/ ExpireDone
    \/ \E k \in Token : HandleToken(k)
    \/ \E e \in timers : Expire(e)

\* Steps the VM thread takes by itself
VMStep == UserStep \/ Pick \/ EventStep

Next == VMStep \/ (\E S \in SUBSET Token : WaitReady(S)) \/ Tick \/ Terminated

Spec == Init /\ [][Next]_vars

\* The VM thread runs (its tasks reach a suspension point or end) and time
\* passes.  IO may never get ready.
FairSpec == Spec /\ WF_vars(VMStep) /\ WF_vars(Tick)

-----------------------------------------------------------------------------
\* Types of the fields and tables.
TypeOK ==
    /\ state \in [Tasks -> {"new", "ready", "running", "blocked", "ended"}]
    /\ block \in [Tasks -> [on: BlockOn, id: Nat]]
    /\ wake \in [Tasks -> {"none", "unit", "retry", "ready", "slept", "timedOut"}]
    /\ cancel \in [Tasks -> {"None", "Requested", "Unwinding"}]
    /\ timerSeq \in [Tasks -> TimerSeq \cup {0}]
    /\ runQueue \in Seq(Tasks) /\ current \in Tasks \cup {NoTask}
    /\ timers \subseteq Timer /\ nextTimer \in 1..(MaxTimers + 1)
    /\ ioWaits \in [Token -> Tasks \cup {NoTask}] /\ nextToken \in 1..(MaxTokens + 1)
    /\ registered \subseteq Token /\ polled \subseteq Token
    /\ now \in Time /\ asOf \in Time
    /\ at \in {"pick", "user", "wait", "polled", "expire"}

\* The IO tables and the tasks agree: every entry is the wait some blocked
\* task is in now, so a cancel or a timeout leaves nothing behind (a leaked
\* entry keeps the scheduler polling), and no wait is missing its entry.  A
\* task has a timer number exactly in a timed wait, and its timer is there.
TablesExact ==
    /\ TypeOK
    /\ \A k \in Token, t \in Tasks : ioWaits[k] = t <=>
         (state[t] = "blocked" /\ block[t].on \in {"io", "ioRetry"} /\ block[t].id = k)
    /\ registered \cup polled = {k \in Token : ioWaits[k] # NoTask}
    /\ \A t \in Tasks : timerSeq[t] # 0 =>
         /\ state[t] = "blocked" /\ block[t].on \in {"sleep", "io", "ioRetry"}
         /\ \E e \in timers : e.task = t /\ e.seq = timerSeq[t]
    /\ \A t \in Tasks : state[t] = "blocked" /\ block[t].on = "sleep" => timerSeq[t] # 0

\* A timer never ends a wait early: a task that continues because of a sleep
\* or a timeout does so at or after the deadline of that wait, not of an
\* earlier one whose entry is still in the heap.
IsDue(t) == \E e \in timers : e.task = t /\ e.seq = timerSeq[t] /\ e.at <= now
TimerWoke(t) == state[t] = "blocked" /\ state'[t] = "ready" /\ wake'[t] \in {"slept", "timedOut"}
NeverEarly == [][\A t \in Tasks : TimerWoke(t) => IsDue(t)]_vars

\* A sleeping task runs again once its time has come, if the run queue is empty
\* again and again.  Without that it need not: task_run_next looks at the timers
\* only when no task is ready, so two tasks that keep yielding to each other
\* hold up every deadline.
SleepEnds ==
    []<>(runQueue = <<>>) =>
      \A t \in Tasks : (state[t] = "blocked" /\ block[t].on = "sleep") ~> state[t] # "blocked"
=============================================================================
