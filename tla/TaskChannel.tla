---------------------------- MODULE TaskChannel ----------------------------
(***************************************************************************)
(* One `task::channel` (compiler/src/prelude/task.coil, class Channel) and *)
(* the tasks of the VM that use it.  Code between two suspension points is *)
(* atomic, so a call that finds room or a value is one step; a call that   *)
(* has to wait suspends on a wait condition (task_cond_wait) and looks     *)
(* again after a task_cond_notify.  The ready tasks run in any order.      *)
(***************************************************************************)
EXTENDS Integers, Sequences

CONSTANTS
    Tasks,       \* the tasks that know the channel
    Main,        \* the root task: the one a deadlock is reported to
    Values,
    Empty,       \* Option::None
    Capacity     \* the argument of `channel`

\* `channel` panics on a capacity below 1.
ASSUME ChannelAssumption ==
    Main \in Tasks /\ Empty \notin Values /\ Capacity \in Nat \ {0}

VARIABLES
    buf,        \* __buf
    head, len,  \* __head, __len
    closed,     \* __closed
    doing,      \* the call each task is in
    arg,        \* the value of a waiting `send`
    waits,      \* the condition a task is suspended on (cond_waits)
    result,     \* what its last call returned
    halted      \* the program ended (the root panicked on a deadlock)

chanVars == <<buf, head, len, closed>>
vars == <<buf, head, len, closed, doing, arg, waits, result, halted>>

Slots == 0..(Capacity - 1)
Outcome(kind, v) == [is |-> kind, value |-> v]
Pending == Outcome("pending", Empty)

Init ==
    /\ buf = [i \in Slots |-> Empty] /\ head = 0 /\ len = 0 /\ closed = FALSE
    /\ doing = [t \in Tasks |-> "other"] /\ arg = [t \in Tasks |-> Empty]
    /\ waits = [t \in Tasks |-> "no"] /\ result = [t \in Tasks |-> Pending]
    /\ halted = FALSE

-----------------------------------------------------------------------------
\* Index arithmetic of the ring
SlotPast(i) == (head + i + 1) % Capacity            \* mutant
SlotAt(i) == (head + i) % Capacity
NextHead == (head + 1) % Capacity
Kept == buf[head]                                   \* mutant: the slot keeps its value
Vacated == Empty

\* notify_cond wakes every task that waits on the condition.
NotifiedOne(w, c) ==                                \* mutant
    IF \E t \in Tasks : w[t] = c
    THEN [w EXCEPT ![CHOOSE t \in Tasks : w[t] = c] = "no"] ELSE w
Notified(w, c) == [t \in Tasks |-> IF w[t] = c THEN "no" ELSE w[t]]

Returns(t, r) ==
    /\ result' = [result EXCEPT ![t] = r]
    /\ doing' = [doing EXCEPT ![t] = "other"]
    /\ arg' = [arg EXCEPT ![t] = Empty]

\* try_send
TrySend(t, v) ==
    \/ /\ closed
       /\ Returns(t, Outcome("sendClosed", Empty))
       /\ UNCHANGED <<chanVars, waits>>
    \/ /\ ~closed /\ len = Capacity
       /\ Returns(t, Outcome("full", Empty))
       /\ UNCHANGED <<chanVars, waits>>
    \/ /\ ~closed /\ len # Capacity
       /\ buf' = [buf EXCEPT ![SlotAt(len)] = v]
       /\ len' = len + 1
       /\ waits' = Notified(waits, "readers")
       /\ Returns(t, Outcome("sent", v))
       /\ UNCHANGED <<head, closed>>

\* try_recv; its panic "empty slot" would return Empty as a value.
TryRecv(t) ==
    \/ /\ len = 0 /\ closed
       /\ Returns(t, Outcome("recvClosed", Empty))
       /\ UNCHANGED <<chanVars, waits>>
    \/ /\ len = 0 /\ ~closed
       /\ Returns(t, Outcome("empty", Empty))
       /\ UNCHANGED <<chanVars, waits>>
    \/ /\ len # 0
       /\ buf' = [buf EXCEPT ![head] = Vacated]
       /\ head' = NextHead
       /\ len' = len - 1
       /\ waits' = Notified(waits, "writers")
       /\ Returns(t, Outcome("received", buf[head]))
       /\ UNCHANGED closed

-----------------------------------------------------------------------------
\* tasks_can_switch: only the root can be the last task.
Alone(t) == t = Main /\ \A u \in Tasks \ {Main} : doing[u] = "ended"

\* __cond_wait: suspend, or panic when nobody is left to notify.
CondWait(t, c, call, v) ==
    /\ result' = [result EXCEPT ![t] = Pending]
    /\ doing' = [doing EXCEPT ![t] = call]
    /\ arg' = [arg EXCEPT ![t] = v]
    /\ waits' = IF Alone(t) THEN waits ELSE [waits EXCEPT ![t] = c]
    /\ halted' = Alone(t)
    /\ UNCHANGED chanVars

MustWaitToSend == len = Capacity /\ ~closed
MustWaitToRecv == len = 0 /\ ~closed

SendStep(t, v) ==
    \/ MustWaitToSend /\ CondWait(t, "writers", "send", v)
    \/ ~MustWaitToSend /\ TrySend(t, v) /\ UNCHANGED halted
RecvStep(t) ==
    \/ MustWaitToRecv /\ CondWait(t, "readers", "recv", Empty)
    \/ ~MustWaitToRecv /\ TryRecv(t) /\ UNCHANGED halted

Runs(t) == ~halted /\ doing[t] = "other"

Send(t, v) == Runs(t) /\ SendStep(t, v)
Recv(t) == Runs(t) /\ RecvStep(t)
CallTrySend(t, v) == Runs(t) /\ TrySend(t, v) /\ UNCHANGED halted
CallTryRecv(t) == Runs(t) /\ TryRecv(t) /\ UNCHANGED halted

\* A woken task runs the loop of its call again.
Resume(t) ==
    /\ ~halted /\ waits[t] = "no"
    /\ \/ doing[t] = "send" /\ SendStep(t, arg[t])
       \/ doing[t] = "recv" /\ RecvStep(t)

CloseReaders == Notified(waits, "readers")              \* mutant: writers sleep on
CloseWakes == Notified(Notified(waits, "readers"), "writers")

\* close
Close(t) ==
    /\ Runs(t)
    /\ closed' = TRUE
    /\ waits' = CloseWakes
    /\ UNCHANGED <<buf, head, len, doing, arg, result, halted>>

\* A cancel ends the call of a suspended or woken task without its effect
\* (drop_wait); the task then runs its `defer` blocks.
CancelCall(t) ==
    /\ ~halted /\ t # Main /\ doing[t] \in {"send", "recv"}
    /\ Returns(t, Pending)
    /\ waits' = [waits EXCEPT ![t] = "no"]
    /\ UNCHANGED <<chanVars, halted>>

\* The task returns; the root waits for the others at the end of its scope.
End(t) ==
    /\ Runs(t)
    /\ doing' = [doing EXCEPT ![t] = "ended"]
    /\ UNCHANGED <<chanVars, arg, waits, result, halted>>

\* task_deadlock: no task is ready, so the root gets the status and panics.
Deadlock ==
    /\ ~halted
    /\ \A t \in Tasks : doing[t] = "ended" \/ waits[t] # "no"
    /\ \E t \in Tasks : doing[t] # "ended"
    /\ halted' = TRUE
    /\ UNCHANGED <<chanVars, doing, arg, waits, result>>

Terminated ==
    /\ halted \/ \A t \in Tasks : doing[t] = "ended"
    /\ UNCHANGED vars

TaskStep(t) ==
    \/ \E v \in Values : Send(t, v) \/ CallTrySend(t, v)
    \/ Recv(t) \/ CallTryRecv(t) \/ Close(t) \/ Resume(t) \/ CancelCall(t) \/ End(t)

Next == (\E t \in Tasks : TaskStep(t)) \/ Deadlock \/ Terminated

Spec == Init /\ [][Next]_vars

\* The run queue is first in, first out: a ready task runs.
FairSpec == Spec /\ \A t \in Tasks : WF_vars(Resume(t))

-----------------------------------------------------------------------------
OutcomeKind == {"pending", "sent", "received", "full", "empty", "sendClosed", "recvClosed"}

\* Types of the fields; `head` indexes the buffer and `len` never exceeds it.
TypeOK ==
    /\ buf \in [Slots -> Values \cup {Empty}]
    /\ head \in Slots /\ len \in 0..Capacity /\ closed \in BOOLEAN
    /\ doing \in [Tasks -> {"other", "send", "recv", "ended"}]
    /\ arg \in [Tasks -> Values \cup {Empty}]
    /\ waits \in [Tasks -> {"no", "readers", "writers"}]
    /\ result \in [Tasks -> [is: OutcomeKind, value: Values \cup {Empty}]]
    /\ halted \in BOOLEAN

\* The buffer holds values exactly in the `len` slots from `head` on, so the
\* panic "task::channel: empty slot" of try_recv is unreachable and no value
\* is kept alive in a free slot.
WindowExact ==
    \A i \in 0..(Capacity - 1) : (buf[SlotAt(i)] # Empty) <=> i < len

\* No task sleeps although its call could go on: a receiver waits only while
\* the channel is empty and open, a sender only while it is full and open.
\* (One notify per send is enough only because it wakes every waiter: a woken
\* task may be cancelled before it runs.)
NoStrandedWaiter ==
    \A t \in Tasks :
      /\ waits[t] = "readers" => doing[t] = "recv" /\ MustWaitToRecv
      /\ waits[t] = "writers" => doing[t] = "send" /\ MustWaitToSend

\* The ring buffer with its waiting loops implements a bounded queue: every
\* value that was sent is received at most once and in order, a result agrees
\* with the queue at the moment the call returns, and values left at the close
\* can still be received.
Contents == [i \in 1..len |-> buf[SlotAt(i - 1)]]
Fifo == INSTANCE BoundedFifo WITH
            Clients <- Tasks, NoValue <- Empty, queue <- Contents, shut <- closed
FifoSpec == Fifo!Spec

\* Closing the channel releases everyone who waits on it.
CloseReleases ==
    \A t \in Tasks : closed /\ doing[t] \in {"send", "recv"} ~> (doing[t] = "other" \/ halted)
=============================================================================
