----------------------------- MODULE ThreadSync ----------------------------
(***************************************************************************)
(* Mutexes and channels between OS threads (thread.rs), used by threads    *)
(* that block in place and by the tasks of one VM thread, which park: a    *)
(* native that would block puts its task's key on the object's list        *)
(* (ThreadWaiters) and runs again when the other side has posted the key.  *)
(*                                                                         *)
(* `lock` keeps what it holds in HELD_MUTEX, one slot per OS thread, so    *)
(* the tasks of a thread share it.  `with_lock` holds its mutex while a    *)
(* callback runs; the callback calls natives of its own, under the outer   *)
(* one and with that one's waiter still armed.                             *)
(*                                                                         *)
(* A block in place tries again every HELP_SLICE: it is a step that waits  *)
(* for its condition, and the condition variable, which only makes it      *)
(* shorter, is left out.  What the objects hold is left out: the queue is  *)
(* its length.                                                             *)
(***************************************************************************)
EXTENDS Naturals, Sequences, FiniteSets, SequencesExt

CONSTANTS Tasks,      \* tasks of the VM thread
          Threads,    \* OS threads without a scheduler
          VM,         \* the VM thread
          Mutexes, Channel,
          None,       \* no mutex, task or native
          MaxCalls    \* bound: natives the program calls

ASSUME ThreadSyncAssumption ==
  /\ IsFiniteSet(Tasks) /\ IsFiniteSet(Threads) /\ Tasks \cap Threads = {}
  /\ VM \notin Threads /\ Channel \notin Mutexes
  /\ None \notin Mutexes \cup Tasks
  /\ MaxCalls \in Nat

Agents == Tasks \cup Threads
Hosts == Threads \cup {VM}
Host(a) == IF a \in Tasks THEN VM ELSE a
Objects == Mutexes \cup {Channel}

Native ==
  [op : {"with_lock", "lock", "try_lock", "unlock"}, obj : Mutexes]
    \cup [op : {"recv", "try_recv", "send", "close"}, obj : {Channel}]

VARIABLES
  locked,        \* RawMutex: the mutexes that are locked
  held,          \* HELD_MUTEX: OS thread -> mutex
  queue, closed, \* ChannelInner
  waiters,       \* ThreadWaiters: object -> keys
  relay,         \* agent -> keys its wake_all took off a list, not yet posted
  frames,        \* agent -> the natives it is in, outermost first
  cur,           \* the task whose native the VM thread runs
  parked,        \* THREAD_PARKED of the VM thread
  key,           \* thread_waits: the key each task is suspended with, or 0
  again,         \* task -> the native it runs again
  nextKey,
  posted,        \* TaskWaker::posted
  calls

objects == <<locked, held, queue, closed, waiters, relay>>
wait == <<key, again, nextKey, parked>>
vars == <<objects, frames, cur, wait, posted, calls>>

Init ==
  /\ locked = {} /\ held = [h \in Hosts |-> None]
  /\ queue = 0 /\ closed = FALSE
  /\ waiters = [o \in Objects |-> {}] /\ relay = [a \in Agents |-> {}]
  /\ frames = [a \in Agents |-> <<>>]
  /\ cur = None /\ parked = FALSE
  /\ key = [t \in Tasks |-> 0] /\ again = [t \in Tasks |-> None]
  /\ nextKey = 1 /\ posted = {} /\ calls = 0

(***************************************************************************)
(* Calling a native and coming back from it.                               *)
(***************************************************************************)
Frame(n, l) == [op |-> n.op, obj |-> n.obj, at |-> l]
Top(a) == Last(frames[a])
At(a, ops, l) == frames[a] # <<>> /\ Top(a).op \in ops /\ Top(a).at = l
Goto(a, l) == frames' = [frames EXCEPT ![a] = Append(Front(@), Frame(Last(@), l))]

\* between two natives, or in the callback of with_lock (bound: callbacks
\* nest once)
MayCall(a) ==
  \/ frames[a] = <<>> /\ (a \in Tasks => cur = None /\ again[a] = None)
  \/ At(a, {"with_lock"}, "callback") /\ Len(frames[a]) = 1

HostInvoke(a, n) ==
  /\ MayCall(a) /\ calls < MaxCalls
  /\ calls' = calls + 1
  /\ frames' = [frames EXCEPT ![a] = Append(@, Frame(n, "enter"))]
  /\ cur' = IF a \in Tasks THEN a ELSE cur
  /\ UNCHANGED <<objects, wait, posted>>

\* The native returns.  The outermost one of a task suspends it when any of
\* the natives under it parked; an inner one returns nothing and goes on.
Return(a) ==
  LET base == a \in Tasks /\ Len(frames[a]) = 1
  IN /\ frames' = [frames EXCEPT ![a] = Front(@)]
     /\ cur' = IF base THEN None ELSE cur
     /\ IF base /\ parked
          THEN /\ key' = [key EXCEPT ![a] = nextKey]
               /\ again' = [again EXCEPT ![a] = [op |-> Top(a).op, obj |-> Top(a).obj]]
               /\ nextKey' = nextKey + 1
               /\ parked' = FALSE
          ELSE UNCHANGED wait

Stay == UNCHANGED <<cur, wait, posted>>

\* park_current and park_unless, under the lock that the other side takes;
\* the key is the one the next suspension gets (peek_thread_key)
park(a, o) ==
  /\ a \in Tasks
  /\ waiters' = [waiters EXCEPT ![o] = @ \cup {nextKey}]
  /\ parked' = TRUE
  /\ Goto(a, "parked")
  /\ UNCHANGED <<cur, key, again, nextKey>>

park_return(a) ==
  /\ frames[a] # <<>> /\ Top(a).at = "parked"
  /\ Return(a)
  /\ UNCHANGED <<objects, posted, calls>>

\* wake_all takes the list, then posts one key after the other
wake_all(a) ==
  /\ frames[a] # <<>> /\ Top(a).at = "wake"
  /\ waiters' = [waiters EXCEPT ![Top(a).obj] = {}]
  /\ relay' = [relay EXCEPT ![a] = waiters[Top(a).obj]]
  /\ Goto(a, "post") /\ Stay
  /\ UNCHANGED <<locked, held, queue, closed, calls>>

post(a) ==
  /\ frames[a] # <<>> /\ Top(a).at = "post"
  /\ \/ \E k \in relay[a] :
           /\ relay' = [relay EXCEPT ![a] = @ \ {k}]
           /\ posted' = posted \cup {k}
           /\ UNCHANGED <<frames, cur, wait>>
     \/ relay[a] = {} /\ Return(a) /\ UNCHANGED <<relay, posted>>
  /\ UNCHANGED <<locked, held, queue, closed, waiters, calls>>

(***************************************************************************)
(* Mutexes.                                                                *)
(***************************************************************************)
\* lock_or_park_task; a thread without a scheduler waits for the mutex
lock(a) ==
  LET m == Top(a).obj h == Host(a)
  IN /\ At(a, {"lock", "with_lock"}, "enter")
     /\ \/ \* AlreadyHeld
           /\ Top(a).op = "lock" /\ held[h] # None
           /\ Return(a)
           /\ UNCHANGED <<posted, locked, held, waiters>>
        \/ /\ Top(a).op = "lock" /\ held[h] = None /\ m \notin locked
           /\ locked' = locked \cup {m}
           /\ held' = [held EXCEPT ![h] = m]
           /\ Return(a)
           /\ UNCHANGED <<posted, waiters>>
        \/ /\ Top(a).op = "with_lock" /\ m \notin locked
           /\ locked' = locked \cup {m}
           /\ Goto(a, "callback") /\ Stay
           /\ UNCHANGED <<held, waiters>>
        \/ /\ Top(a).op = "lock" => held[h] = None
           /\ m \in locked
           /\ park(a, m)
           /\ UNCHANGED <<posted, locked, held>>
     /\ UNCHANGED <<queue, closed, relay, calls>>

\* the callback returned: RawUnlock.  A callback that panics is left out.
with_lock_end(a) ==
  /\ At(a, {"with_lock"}, "callback")
  /\ locked' = locked \ {Top(a).obj}
  /\ Goto(a, "wake") /\ Stay
  /\ UNCHANGED <<held, queue, closed, waiters, relay, calls>>

SlotTaken(a) == held[Host(a)] # None  \* mutant
Holds(a) == held[Host(a)] = Top(a).obj

unlock(a) ==
  /\ At(a, {"unlock"}, "enter")
  /\ \/ /\ Holds(a)
        /\ held' = [held EXCEPT ![Host(a)] = None]
        /\ locked' = locked \ {Top(a).obj}
        /\ Goto(a, "wake") /\ Stay
     \/ \* NotHeld
        /\ ~Holds(a)
        /\ Return(a)
        /\ UNCHANGED <<posted, held, locked>>
  /\ UNCHANGED <<queue, closed, waiters, relay, calls>>

try_lock(a) ==
  /\ At(a, {"try_lock"}, "enter")
  /\ \/ /\ Top(a).obj \in locked
        /\ Return(a)
        /\ UNCHANGED <<posted, locked>>
     \/ /\ Top(a).obj \notin locked
        /\ locked' = locked \cup {Top(a).obj}
        /\ Goto(a, "locked") /\ Stay
  /\ UNCHANGED <<held, queue, closed, waiters, relay, calls>>

\* try_lock has the mutex; with another in the slot it gives it back
UnlockRaw(a) == Return(a) /\ UNCHANGED posted  \* mutant
GiveBack(a) == Goto(a, "wake") /\ Stay

try_lock_held(a) ==
  /\ At(a, {"try_lock"}, "locked")
  /\ \/ /\ held[Host(a)] # None
        /\ locked' = locked \ {Top(a).obj}
        /\ GiveBack(a)
        /\ UNCHANGED held
     \/ /\ held[Host(a)] = None
        /\ held' = [held EXCEPT ![Host(a)] = Top(a).obj]
        /\ Return(a)
        /\ UNCHANGED <<posted, locked>>
  /\ UNCHANGED <<queue, closed, waiters, relay, calls>>

(***************************************************************************)
(* The channel, each step under the lock of its queue.                     *)
(***************************************************************************)
send(a) ==
  /\ At(a, {"send"}, "enter")
  /\ \/ closed /\ Return(a) /\ UNCHANGED <<posted, queue>>
     \/ ~closed /\ queue' = queue + 1 /\ Goto(a, "wake") /\ Stay
  /\ UNCHANGED <<locked, held, closed, waiters, relay, calls>>

close(a) ==
  /\ At(a, {"close"}, "enter")
  /\ closed' = TRUE
  /\ Goto(a, "wake") /\ Stay
  /\ UNCHANGED <<locked, held, queue, waiters, relay, calls>>

\* recv parks its task or, on a thread without a scheduler, waits; try_recv
\* answers that the queue is empty
recv(a) ==
  /\ At(a, {"recv", "try_recv"}, "enter")
  /\ \/ queue > 0 /\ queue' = queue - 1 /\ Return(a) /\ UNCHANGED waiters
     \/ queue = 0 /\ closed /\ Return(a) /\ UNCHANGED <<queue, waiters>>
     \/ queue = 0 /\ ~closed /\ Top(a).op = "try_recv" /\ Return(a) /\ UNCHANGED <<queue, waiters>>
     \/ queue = 0 /\ ~closed /\ Top(a).op = "recv" /\ park(a, Channel) /\ UNCHANGED queue
  /\ UNCHANGED <<posted, locked, held, closed, relay, calls>>

(***************************************************************************)
(* The scheduler's side.                                                   *)
(***************************************************************************)
OnePosted == {k \in posted : \A j \in posted : k <= j}  \* mutant
Posted == posted

take_posted ==
  /\ cur = None /\ posted # {}
  /\ posted' = {}
  /\ key' = [t \in Tasks |-> IF key[t] \in Posted THEN 0 ELSE key[t]]
  /\ UNCHANGED <<objects, frames, cur, again, nextKey, parked, calls>>

\* Wake::Retry: the HostInvoke runs again
Retry(t) ==
  /\ cur = None /\ again[t] # None /\ key[t] = 0
  /\ frames' = [frames EXCEPT ![t] = <<Frame(again[t], "enter")>>]
  /\ again' = [again EXCEPT ![t] = None]
  /\ cur' = t
  /\ UNCHANGED <<objects, key, nextKey, parked, posted, calls>>

Cancel(t) ==
  /\ cur = None /\ again[t] # None
  /\ key' = [key EXCEPT ![t] = 0]
  /\ again' = [again EXCEPT ![t] = None]
  /\ UNCHANGED <<objects, frames, cur, nextKey, parked, posted, calls>>

Step(a) ==
  \/ park_return(a) \/ wake_all(a) \/ post(a)
  \/ lock(a) \/ with_lock_end(a) \/ unlock(a) \/ try_lock(a) \/ try_lock_held(a)
  \/ send(a) \/ close(a) \/ recv(a)

Next ==
  \/ \E a \in Agents : Step(a) \/ \E n \in Native : HostInvoke(a, n)
  \/ take_posted
  \/ \E t \in Tasks : Retry(t) \/ Cancel(t)

Spec == Init /\ [][Next]_vars

(***************************************************************************)
(* The OS runs every thread, callbacks end, and the scheduler looks at the *)
(* posted keys and runs its ready tasks.  Nobody has to call anything.     *)
(***************************************************************************)
FairSpec ==
  /\ Spec
  /\ \A a \in Agents : WF_vars(Step(a))
  /\ WF_vars(take_posted)
  /\ \A t \in Tasks : WF_vars(Retry(t))
-----------------------------------------------------------------------------
TypeOK ==
  /\ locked \subseteq Mutexes /\ held \in [Hosts -> Mutexes \cup {None}]
  /\ queue \in Nat /\ closed \in BOOLEAN
  /\ waiters \in [Objects -> SUBSET (1..nextKey)] /\ relay \in [Agents -> SUBSET (1..nextKey)]
  /\ \A a \in Agents : Len(frames[a]) <= 2
  /\ \A t \in Tasks : frames[t] # <<>> <=> cur = t
  /\ \A t \in Tasks : key[t] \in 0..(nextKey - 1) /\ (key[t] # 0 => again[t] \in Native)
  /\ parked => cur # None

\* frame i of agent a answers for mutex m
Inside(a, i, m) ==
  i \in DOMAIN frames[a] /\ frames[a][i].obj = m /\ frames[a][i].at \in {"callback", "locked"}

(***************************************************************************)
(* A mutex is locked exactly as long as one call answers for it: it is in  *)
(* the HELD_MUTEX of one OS thread, or one with_lock runs its callback, or *)
(* one try_lock is about to decide.  So no two hold it, and none stays     *)
(* locked that nobody can unlock, whatever the tasks of a thread, cancels  *)
(* and nested calls do to the slot they share.                             *)
(***************************************************************************)
HeldExact ==
  /\ TypeOK
  /\ \A m \in Mutexes :
       LET slots == {h \in Hosts : held[h] = m}
           inside == {f \in Agents \X (1..2) : Inside(f[1], f[2], m)}
       IN Cardinality(slots) + Cardinality(inside) = IF m \in locked THEN 1 ELSE 0

(***************************************************************************)
(* No wake is missed: the key of a suspended task is on a list or under    *)
(* way to the scheduler, also when it was posted before the suspension;    *)
(* and while a key is on the list of a mutex that is free, or of a channel *)
(* with a value or a close to tell of, some call is about to wake the list.*)
(***************************************************************************)
Available(o) == IF o = Channel THEN queue > 0 \/ closed ELSE o \notin locked
UnderWay == posted \cup UNION {relay[a] : a \in Agents}
NoMissedWake ==
  /\ \A t \in Tasks : key[t] # 0 => key[t] \in UnderWay \cup UNION {waiters[o] : o \in Objects}
  /\ \A o \in Objects : waiters[o] # {} /\ Available(o) =>
       \E a \in Agents : frames[a] # <<>> /\ Top(a).obj = o /\ Top(a).at = "wake"

(***************************************************************************)
(* A suspended task runs again after what it is listed for became          *)
(* available, also when others are woken with it.                          *)
(***************************************************************************)
Woken(t) == key[t] \in UnderWay \/ \E o \in Objects : key[t] \in waiters[o] /\ Available(o)
WakeRuns == \A t \in Tasks : (key[t] # 0 /\ Woken(t)) ~> key[t] = 0
=============================================================================
