------------------------------- MODULE Connect ------------------------------
(***************************************************************************)
(* TCP connects from tasks (task.rs): connect_in_task, which a parked task *)
(* runs again and again until the connect is decided, the table            *)
(* PENDING_CONNECTS that carries the attempt from one run to the next, and *)
(* the resolver pool that looks names up on threads of its own.            *)
(*                                                                         *)
(* One VM thread runs the tasks of one scheduler after the other; the      *)
(* resolver threads and the network run beside it.  The table's key is the *)
(* address of the scheduler's waker and a task id, and both come again:    *)
(* ids count from the start in every scheduler, and an address is free for *)
(* the next waker once no lookup's list holds the old one.                 *)
(*                                                                         *)
(* Time is kept as what is left of a deadline.  What ends a wait is        *)
(* detailed in TaskWaits; here a posted key, the socket or the deadline    *)
(* makes the task ready.                                                   *)
(***************************************************************************)
EXTENDS Integers, Sequences, FiniteSets

CONSTANTS Ids,        \* task ids of a scheduler
          Places,     \* addresses of wakers
          Resolvers,  \* resolver threads that may start (RESOLVER_THREADS)
          Args,       \* what connect is called with: host, port and ms
          hostOf,     \* Args -> "name", "literal" or "invalid"
          msOf,       \* Args -> the timeout, 0 for none
          None,       \* no entry, no task, no arguments
          Found,      \* how many addresses lookups find, 0 when they fail
          MaxCalls    \* bound: connects a program does

NoDeadline == -1

\* An attempt; its socket is "none" too when take_error has an error.
PendingConnect ==
  [args : Args, lookup : Nat, addrs : Nat, sock : {"none", "connecting", "connected"},
   left : Nat \cup {NoDeadline}]

ASSUME ConnectAssumption ==
  /\ IsFiniteSet(Ids) /\ IsFiniteSet(Resolvers) /\ Resolvers # {} /\ Places # {}
  /\ hostOf \in [Args -> {"name", "literal", "invalid"}]
  /\ msOf \in [Args -> Nat]
  /\ None \notin Ids \cup Args \cup PendingConnect
  /\ Found \subseteq Nat /\ MaxCalls \in Nat

VARIABLES
  place,      \* address of the running scheduler's waker
  pc,         \* id -> "idle", "ready", "native", "lookup" or "io"
  args,       \* id -> the arguments of its call
  key,        \* id -> the key of its thread wait
  nextKey,    \* next_thread_key
  posted,     \* keys the waker was given
  pending,    \* PENDING_CONNECTS
  cur, hand,  \* the task in the native, and the PendingConnect it holds
  lookups,    \* every Lookup made
  jobs, idle, \* the resolver queue and its count of idle threads
  thr,        \* resolver thread -> its next step and its lookup
  calls

waits == <<key, nextKey, posted>>
pool == <<jobs, idle, thr>>
program == <<place, args, calls>>
vars == <<program, pc, waits, pending, cur, hand, lookups, pool>>

Slot(t) == <<place, t>>
NewConnect(a) == [args |-> a, lookup |-> 0, addrs |-> 0, sock |-> "none", left |-> NoDeadline]

Init ==
  /\ place \in Places
  /\ pc = [t \in Ids |-> "idle"]
  /\ args = [t \in Ids |-> None]
  /\ key = [t \in Ids |-> 0] /\ nextKey = 1 /\ posted = {}
  /\ pending = [k \in Places \X Ids |-> None]
  /\ cur = None /\ hand = None
  /\ lookups = <<>> /\ jobs = <<>> /\ idle = 0
  /\ thr = [r \in Resolvers |-> [at |-> "off", job |-> 0]]
  /\ calls = 0

(***************************************************************************)
(* The resolver pool.                                                      *)
(***************************************************************************)
ThreadAt(r, l, j) == [thr EXCEPT ![r] = [at |-> l, job |-> j]]
InState(l) == {r \in Resolvers : thr[r].at = l}
Started == Resolvers \ InState("off")

NotifyNobody == UNCHANGED thr  \* mutant
notify_one ==
  \/ \E r \in InState("waiting") : thr' = ThreadAt(r, "woken", 0)
  \/ InState("waiting") = {} /\ UNCHANGED thr

\* A thread is started when none is idle and the limit allows it.  A start
\* may fail: with no thread at all nothing is queued.
resolve_on_pool(l) ==
  LET wanted == idle = 0 /\ InState("off") # {}
  IN /\ \/ wanted /\ \E r \in InState("off") : thr' = ThreadAt(r, "look", 0)
        \/ (wanted => Started # {}) /\ notify_one
     /\ jobs' = Append(jobs, l)
     /\ UNCHANGED idle

PoolFails == idle = 0 /\ Started = {}

NextJob(r, others) ==
  \/ /\ jobs # <<>>
     /\ jobs' = Tail(jobs)
     /\ idle' = others
     /\ thr' = ThreadAt(r, "busy", Head(jobs))
  \/ /\ jobs = <<>>
     /\ idle' = others + 1
     /\ thr' = ThreadAt(r, "waiting", 0)
     /\ UNCHANGED jobs


resolver_loop(r) ==
  /\ \/ thr[r].at = "look" /\ NextJob(r, idle)
     \/ thr[r].at = "woken" /\ NextJob(r, idle - 1)
  /\ UNCHANGED <<program, pc, waits, pending, cur, hand, lookups>>

SpuriousWakeup(r) ==
  /\ thr[r].at = "waiting"
  /\ thr' = ThreadAt(r, "woken", 0)
  /\ UNCHANGED <<program, pc, waits, pending, cur, hand, lookups, jobs, idle>>

\* connect_addrs: so many addresses, or (0) an error
Store(r, l, next) ==
  /\ \E n \in Found : lookups' = [lookups EXCEPT ![l].result = n, ![l].done = TRUE]
  /\ thr' = ThreadAt(r, next, l)
  /\ UNCHANGED posted

wake_all(r, l, next) ==
  /\ posted' = posted \cup {w[2] : w \in {v \in lookups[l].waiters : v[1] = place}}
  /\ lookups' = [lookups EXCEPT ![l].waiters = {}]
  /\ thr' = ThreadAt(r, next, l)

WakeThenStore(r) == /\ ((thr[r].at = "busy" /\ wake_all(r, thr[r].job, "wake")) \/ (thr[r].at = "wake" /\ Store(r, thr[r].job, "look"))) /\ UNCHANGED <<program, pc, key, nextKey, pending, cur, hand, jobs, idle>>  \* mutant

Resolve(r) ==
  /\ \/ thr[r].at = "busy" /\ Store(r, thr[r].job, "wake")
     \/ thr[r].at = "wake" /\ wake_all(r, thr[r].job, "look")
  /\ UNCHANGED <<program, pc, key, nextKey, pending, cur, hand, jobs, idle>>

(***************************************************************************)
(* connect_in_task.  The native runs on the VM thread: no other task runs  *)
(* until it returns or parks.                                              *)
(***************************************************************************)
\* The native answers: a stream, an error or the timeout.
Return(t) ==
  /\ pc' = [pc EXCEPT ![t] = "idle"]
  /\ args' = [args EXCEPT ![t] = None]
  /\ cur' = None /\ hand' = None

Park(t, p, on) ==
  /\ pending' = [pending EXCEPT ![Slot(t)] = p]
  /\ pc' = [pc EXCEPT ![t] = on]
  /\ cur' = None /\ hand' = None
  /\ UNCHANGED args

\* the entry of an earlier run of this native, if its arguments are the same
AnyEntry(t) == pending[Slot(t)] # None  \* mutant
IsStarted(t) == pending[Slot(t)] # None /\ pending[Slot(t)].args = args[t]

Enter(t, p) ==
  /\ cur' = t /\ hand' = p
  /\ pc' = [pc EXCEPT ![t] = "native"]
  /\ UNCHANGED args

connect_in_task(t) ==
  LET a == args[t] fresh == NewConnect(a) l == Len(lookups) + 1
  IN /\ cur = None /\ pc[t] = "ready"
     /\ pending' = [pending EXCEPT ![Slot(t)] = None]
     /\ \/ /\ IsStarted(t)
           /\ Enter(t, pending[Slot(t)])
           /\ UNCHANGED <<lookups, pool>>
        \/ /\ ~IsStarted(t) /\ hostOf[a] = "literal"
           /\ Enter(t, [fresh EXCEPT !.addrs = 1])
           /\ UNCHANGED <<lookups, pool>>
        \/ /\ ~IsStarted(t) /\ hostOf[a] = "name"
           /\ resolve_on_pool(l)
           /\ lookups' = Append(lookups, [done |-> FALSE, result |-> 0, waiters |-> {}])
           /\ Enter(t, [fresh EXCEPT !.lookup = l])
        \/ \* no thread could start: the native connects in place
           /\ ~IsStarted(t) /\ hostOf[a] = "name" /\ PoolFails
           /\ Return(t)
           /\ UNCHANGED <<lookups, pool>>
        \/ /\ ~IsStarted(t) /\ hostOf[a] = "invalid"
           /\ Return(t)
           /\ UNCHANGED <<lookups, pool>>
     /\ UNCHANGED <<place, calls, waits>>

Taken(l) == [lookups EXCEPT ![l].done = FALSE, ![l].result = 0]

\* park_unless: under the lock of the lookup's waiters
take_lookup(t) ==
  LET l == hand.lookup
  IN /\ cur = t /\ l # 0
     /\ \/ /\ ~lookups[l].done
           /\ lookups' = [lookups EXCEPT ![l].waiters = @ \cup {<<place, nextKey>>}]
           /\ key' = [key EXCEPT ![t] = nextKey]
           /\ nextKey' = nextKey + 1
           /\ Park(t, hand, "lookup")
        \/ /\ lookups[l].done /\ lookups[l].result > 0
           /\ lookups' = Taken(l)
           /\ hand' = [hand EXCEPT !.lookup = 0, !.addrs = lookups[l].result]
           /\ UNCHANGED <<key, nextKey, pending, pc, cur, args>>
        \/ /\ lookups[l].done /\ lookups[l].result = 0
           /\ lookups' = Taken(l)
           /\ Return(t)
           /\ UNCHANGED <<key, nextKey, pending>>
     /\ UNCHANGED <<place, calls, posted, pool>>

NoTimeout(p, t) == p  \* mutant
WithDeadline(p, t) ==
  IF p.left = NoDeadline /\ msOf[args[t]] > 0 THEN [p EXCEPT !.left = msOf[args[t]]] ELSE p

\* one turn of the loop over the addresses
connect_loop(t) ==
  LET p == WithDeadline(hand, t)
      expired == p.left = 0
      over == p.sock = "none" \/ (p.sock = "connecting" /\ expired)
  IN /\ cur = t /\ hand.lookup = 0
     /\ \/ p.sock = "connected" /\ Return(t) /\ UNCHANGED pending          \* Ok
        \/ p.sock = "connecting" /\ ~expired /\ Park(t, p, "io")
        \/ over /\ expired /\ Return(t) /\ UNCHANGED pending                  \* TimedOut
        \/ over /\ ~expired /\ p.addrs = 0 /\ Return(t) /\ UNCHANGED pending  \* last_err
        \/ /\ over /\ ~expired /\ p.addrs > 0
           /\ \E s \in {"none", "connecting", "connected"} :
                hand' = [p EXCEPT !.addrs = @ - 1, !.sock = s]
           /\ UNCHANGED <<pending, pc, cur, args>>
     /\ UNCHANGED <<place, calls, waits, lookups, pool>>

(***************************************************************************)
(* What makes a parked task run the native again, and what it misses when  *)
(* it is cancelled.                                                        *)
(***************************************************************************)
take_posted ==
  /\ cur = None /\ posted # {}
  /\ posted' = {}
  /\ pc' = [t \in Ids |-> IF key[t] \in posted THEN "ready" ELSE pc[t]]
  /\ key' = [t \in Ids |-> IF key[t] \in posted THEN 0 ELSE key[t]]
  /\ UNCHANGED <<program, nextKey, pending, cur, hand, lookups, pool>>

WakeIo(t) ==
  /\ cur = None /\ pc[t] = "io"
  /\ pending[Slot(t)].sock # "connecting" \/ pending[Slot(t)].left = 0
  /\ pc' = [pc EXCEPT ![t] = "ready"]
  /\ UNCHANGED <<program, waits, pending, cur, hand, lookups, pool>>

Cancel(t) ==
  /\ cur = None /\ pc[t] \in {"ready", "lookup", "io"}
  /\ pc' = [pc EXCEPT ![t] = "idle"]
  /\ args' = [args EXCEPT ![t] = None]
  /\ key' = [key EXCEPT ![t] = 0]
  /\ UNCHANGED <<place, calls, nextKey, posted, pending, cur, hand, lookups, pool>>

(***************************************************************************)
(* The program (a `defer` block of a cancelled task connects like any      *)
(* other code), the scheduler's end, the network and the clock.            *)
(***************************************************************************)
Call(t, a) ==
  /\ cur = None /\ pc[t] = "idle" /\ calls < MaxCalls
  /\ calls' = calls + 1
  /\ args' = [args EXCEPT ![t] = a]
  /\ pc' = [pc EXCEPT ![t] = "ready"]
  /\ UNCHANGED <<place, waits, pending, cur, hand, lookups, pool>>

InUse(q) == \E l \in DOMAIN lookups : \E w \in lookups[l].waiters : w[1] = q

\* the idle scheduler is dropped, and the next one made
NewScheduler ==
  /\ cur = None /\ \A t \in Ids : pc[t] = "idle"
  /\ \E q \in Places : ~InUse(q) /\ place' = q
  /\ key' = [t \in Ids |-> 0] /\ nextKey' = 1 /\ posted' = {}
  /\ UNCHANGED <<args, calls, pc, pending, cur, hand, lookups, pool>>

SocketEnds(k) ==
  /\ pending[k] # None /\ pending[k].sock = "connecting"
  /\ \E s \in {"connected", "none"} : pending' = [pending EXCEPT ![k].sock = s]
  /\ UNCHANGED <<program, pc, waits, cur, hand, lookups, pool>>

Later(p) == IF p # None /\ p.left > 0 THEN [p EXCEPT !.left = @ - 1] ELSE p

Tick ==
  /\ pending' = [k \in DOMAIN pending |-> Later(pending[k])]
  /\ hand' = Later(hand)
  /\ UNCHANGED <<program, pc, waits, cur, lookups, pool>>

Native(t) == connect_in_task(t) \/ take_lookup(t) \/ connect_loop(t)

Next ==
  \/ \E t \in Ids : \/ Native(t) \/ WakeIo(t) \/ Cancel(t)
                    \/ \E a \in Args : Call(t, a)
  \/ take_posted \/ NewScheduler \/ Tick
  \/ \E r \in Resolvers : resolver_loop(r) \/ SpuriousWakeup(r) \/ Resolve(r)
  \/ \E k \in DOMAIN pending : SocketEnds(k)

Spec == Init /\ [][Next]_vars

(***************************************************************************)
(* The VM thread runs every ready task in turn and looks at what woke the  *)
(* others, the OS runs the resolver threads, a lookup returns and time     *)
(* passes.  A socket may stay undecided for ever, and nobody has to        *)
(* connect, cancel or end a scheduler.                                     *)
(***************************************************************************)
FairSpec ==
  /\ Spec
  /\ \A t \in Ids : WF_vars(Native(t) \/ WakeIo(t))
  /\ WF_vars(take_posted) /\ WF_vars(Tick)
  /\ \A r \in Resolvers : WF_vars(resolver_loop(r) \/ Resolve(r))

-----------------------------------------------------------------------------
\* an attempt whose lookup, if it has one, was made
Connecting(p) == p \in PendingConnect /\ p.lookup <= Len(lookups)

\* Among the types: the pool's `idle` counts the threads that wait, woken ones
\* that have not run yet included.
TypeOK ==
  /\ place \in Places
  /\ pc \in [Ids -> {"idle", "ready", "native", "lookup", "io"}]
  /\ args \in [Ids -> Args \cup {None}]
  /\ \A k \in Places \X Ids : pending[k] = None \/ Connecting(pending[k])
  /\ cur \in Ids \cup {None} /\ (hand = None \/ Connecting(hand))
  /\ \A t \in Ids : cur = t <=> pc[t] = "native"
  /\ idle = Cardinality(InState("waiting") \cup InState("woken"))
  /\ jobs \in Seq(DOMAIN lookups)

(***************************************************************************)
(* A queued lookup has a thread coming for it: the pool starts a thread or *)
(* wakes one that waits, and one that is about to look or busy looks at    *)
(* the queue before it waits.                                              *)
(***************************************************************************)
NoStrandedJob ==
  /\ TypeOK
  /\ jobs # <<>> => \E r \in Started : thr[r].at # "waiting"

(***************************************************************************)
(* A task that waits for a lookup is told: its key is in the list of that  *)
(* lookup or on its way to the scheduler, and once the result is there the *)
(* list is about to be woken, although the lookup may have been queued by  *)
(* an earlier, cancelled call of a task of that id.                        *)
(***************************************************************************)
NoLostLookup ==
  \A t \in Ids : pc[t] = "lookup" =>
    LET l == pending[Slot(t)].lookup
    IN \/ key[t] \in posted
       \/ /\ <<place, key[t]>> \in lookups[l].waiters
          /\ \/ \E r \in Resolvers : thr[r].job = l /\ thr[r].at \in {"busy", "wake"}
             \/ \E i \in DOMAIN jobs : jobs[i] = l
          /\ lookups[l].done => \E r \in Resolvers : thr[r] = [at |-> "wake", job |-> l]

(***************************************************************************)
(* A call is answered for its own arguments: what a cancelled connect left *)
(* in the table under this waker's address and this id never becomes the   *)
(* answer for another host, port or timeout.                               *)
(***************************************************************************)
RightPeer ==
  [][\A t \in Ids : pc[t] = "native" /\ pc'[t] = "idle" => hand.args = args[t]]_vars

(***************************************************************************)
(* A connect with a timeout ends, whatever its sockets do, through the     *)
(* lookup, the wait for the socket and the deadline.                       *)
(***************************************************************************)
ConnectEnds ==
  \A t \in Ids :
    (pc[t] # "idle" /\ msOf[args[t]] > 0) ~> pc[t] = "idle"
=============================================================================
