# Coil: TLA+ models of the runtime

Coil (`ardax-corp/coil-lang`) is a compiled language with a bytecode VM. This
directory models the parts of its *runtime* whose correctness depends on the
order in which things happen: the task scheduler and the primitives built on it
first, then the threads, reactors and caches around it. The compiler, most of
the repository by size, is a sequential translation that tests and its own
verifier cover well; it is inventoried here and not modelled.

## 1. Inventory

| Part | State it keeps | Operations | What is hard, and what makes it correct |
|------|----------------|-----------|------------------------------------------|
| Task scheduler (`machine/src/task.rs`, `vm_task.rs`, `vm_unwind.rs`) | task and scope records, run queue, `current`, `live`, one panic message slot | scope open/close/error, spawn, join, cancel, shield, sleep, yield, retry, cond wait/notify, panic, task end, pick next, wait for events, deadlock | cancels, panics and `defer` blocks of several tasks interleave at suspension points; counters replace scans; a scope may end only when its children have, nobody may be left asleep, a panic must reach its reader |
| Wait sources (`task.rs` timers, IO tokens, thread keys, `TaskWaker`) | timer heap with sequence numbers, token and key tables, posted keys | add_timer, register_wait, add_thread_wait, post, take_posted, expired_timers, drop_wait | a timer or a key that arrives after its task was woken by something else; another OS thread posting at any moment |
| Task channel (`compiler/src/prelude/task.coil`, `Channel`) | ring buffer, head, length, closed, two wait conditions | send, try_send, recv, try_recv, close | a value must come out once and in order; a waiter that was woken finds the state changed again; a cancelled or lone waiter |
| OS threads (`machine/src/thread.rs`) | join states, channels, mutexes, rwlocks, live thread registry | spawn, join, detach, send, recv, lock, unlock, close | blocking on a condition variable versus parking a task; a result taken twice; a lock whose unlock wakes nobody |
| Name resolution and connect (`task.rs`, `connect_in_task`) | resolver queue, thread counts, pending connects per task | queue a lookup, resolver loop, retry a connect | a cancelled task's entry is left behind; the deadline races the lookup |
| CPU reactor (`machine/src/reactor.rs`) | per-worker deques, injector, sleeping workers, shutdown flag | submit, steal, help while waiting, park, shut down | a job submitted while the last worker goes to sleep |
| IO reactor (`machine/src/io_reactor.rs`) | wait tokens, ready set, wake pipe | register, cancel, wait_any, take_ready | a token cancelled while it is being polled |
| Heap and GC (`machine/src/memory`) | slab, marks, gray list, sweep cursor, fresh tags, weak handles | allocate, mark at a safepoint, sweep quantum, finalize, upgrade | an object allocated ahead of or behind the sweep cursor; resurrection during finalization |
| Shared heap epochs (`machine/src/shared_heap.rs`) | epoch counter, write guard | begin and end a steal epoch, write check | a job that writes an object older than its epoch |
| VM interpreter (`machine/src/vm.rs`, `dispatch.rs`, `exec_rest.rs`) | operand stack, frames, coroutines | instructions, calls, unwinding | modelled only as far as the scheduler needs: suspension points, panics, cleanup pads |
| Unwinding (`machine/src/vm_unwind.rs`) | pending cleanup pads, `closing` | start, next pad, finish | pads that suspend, panic again or are cancelled |
| Key index (`machine/src/key_index.rs`) | probe table, hashes, live flags | insert, remove, probe, compact | tombstones and growth: a key must stay findable |
| FFI (`machine/src/ffi`) | loaded libraries, callbacks, gate | load, call, call back | callbacks from foreign threads |
| Streams, files, processes, terminal (`io.rs`, `fs.rs`, `process.rs`, `tty.rs`, ...) | OS handles | reads, writes, attach, close | mostly calls to the OS |
| Build cache (`src/build_cache.rs`) | entry files on disk | look up, store, evict | two processes at once, a crash between write and rename |
| Comptime cache (`compiler/src/comptime_cache.rs`, `comptime/`) | result files, interpreter | evaluate, store, load | as the build cache |
| Parser, formatter (`parser/`, `coil-fmt/`) | none between calls | parse, print | sequential functions of their input |
| Compiler (`compiler/`) | types, HIR, MIR, IL | check, lower, optimise, emit | sequential; its MIR verifier and tests are its specification |
| Archive and shared definitions (`common/`) | none | encode, decode | sequential |
| Language server, debugger, test runner | open documents; stopped threads; test queue | requests, stops and steps, run tests | request order; mostly sequential message loops |
| Command line, packaging, embedding, reporting, SIMD kernels, dissect | none that outlives a call | | sequential tools |

**How they interact.** One VM runs on one OS thread. User code calls natives
(`HostInvoke`); a native that cannot finish records what the task waits for and
calls `task_suspend_at`, which saves the task off the operand stack and enters
`task_run_next`. That loop pops the run queue, delivers cancels, resumes a task,
and when no task is ready calls `task_wait_events`, which polls the IO reactor,
the timers and the keys other OS threads posted. A task that ends goes through
`task_end`, `finalize` and `after_finish`, which wake joiners, the owner of the
scope and owners that wait to unwind or to end. The `task` module of the prelude
(`scope`, `spawn`, `join`, `timeout`, `Channel`) is Coil code over these
natives, and the status a native returns (`STATUS_PANICKED`, `STATUS_DEADLOCK`,
...) drives what that code does next.

## 2. Plan

Done:

1. `TaskScheduler`: the scheduler core, its invariants and their proofs.
2. `TaskChannel`: the channel of the `task` module over wait conditions, shown
   to implement `BoundedFifo`, the queue its documentation promises; proved.
3. `TaskWaits`: what ends an external wait inside the VM (timers and their
   sequence numbers, IO tokens), in the place of the abstract `WaitEvent` of
   `TaskScheduler`; proved.
4. `ThreadSync`: mutexes and channels of `thread.rs` between OS threads that
   block and tasks that park; keys posted from another thread; proved.
5. `Connect`: the resolver pool, `connect_in_task` and its leftover entries;
   proved.
6. `Reactor`: submission against sleeping workers, helping joins, spare
   threads, shutdown; proved.
7. `GcCycle`: safepoint mark, drops, weak handles, lazy sweep and fresh tags,
   against reachability; proved.
8. `BuildCache`: concurrent compilers, edits and crashes; proved.
9. `KeyIndex`: the probe table, shown to implement `OrderedKeys`; proved.

Left, in this order:

1. `IoReactor` under several threads: token cancellation against polling, a
   stream that is closed under its waiters.
2. The epochs of the shared heap, the nursery and evacuation of the collector.

## 3. Modules and how they correspond to the code

`PROJECT.json` maps every definition to the lines it models. In outline:

**`TaskScheduler`** (`machine/src/task.rs`, `vm_task.rs`, `vm_unwind.rs`; calls as
`compiler/src/prelude/task.coil` makes them). One VM thread; `at` says where it
is: in user code, in `task_run_next` (`pick`, `run`, `wait`), in `task_end`
(`end`), or `halted`. A `TaskRec` and a `ScopeRec` keep the fields of the Rust
structs; `runQueue`, `current`, `live` and `panicMsg` are the scheduler's and the
machine's. One action per native (`ScopeOpen`, `Spawn`, `ScopeClose*`, `Join`,
`Cancel`, `Shield*`, `CondWait`, ...) and one per step of the loops inside a
native: `task_end` cancels siblings one by one, `finalize` and `after_finish` call
each other, and these are separate actions between which no user step is enabled.
A wait for something outside the VM ends when it likes (`WaitEvent`).
`MCTaskScheduler` fixes which operations the programs of a run perform (`Ops`).

**`TaskChannel`**, **`BoundedFifo`** (`Channel` of `task.coil`). The ring buffer with
`__head` and `__len`, the waiting loops of `send` and `recv`, `close`, cancels of a
waiting task and the deadlock report. Code between two suspension points is
atomic in the VM, so one step is one pass of a call's loop. `BoundedFifo` is the
queue the documentation promises; the mapping reads the queue off the ring.

**`TaskWaits`** (wait tables of `task.rs`, `task_wait_events`, `IoReactor` as the
scheduler uses it). Details what `TaskScheduler` leaves open: which event ends an
external wait. The VM thread and the clock interleave; `task_wait_events` is cut at
every point where the clock or an event can matter (the wait, the ready tokens,
the expired timers). Tasks are the children of one scope; scopes, joins and shields
are the other module's, waits for other threads are `ThreadSync`'s.

**`ThreadSync`** (`thread.rs`: `MutexInner`, `ChannelInner`, `HELD_MUTEX`; `task.rs`:
`ThreadWaiters`, `TaskWaker`; `HostInvoke` of `exec_rest.rs`). Each agent, a task of
the VM thread or another OS thread, has a stack of natives it is in: `with_lock`
holds its mutex while a callback calls further natives. A task that would block
puts the key of its next suspension on the object's list and suspends when the
outermost native returns; unlock, send and close change the object, then take the
list, then post its keys one by one, each a step. A parked task runs its native
again after `take_posted`, or is cancelled. A join parks on the thread's result
in the same way; joins are in `Reactor`.

**`KeyIndex`**, **`OrderedKeys`** (`machine/src/key_index.rs`, under the class of
`tests/collections/key_index.coil` that owns the keys). The table's cells with
`EMPTY` and `REMOVED`, the counter in its last cell, linear probing from `home`,
growth and compaction; a rebuild clears the table and its counter, then places the
live slots, a step per slot. Hashes are numbers whose
high bits are really folded (`MCKeyIndex` checks its table of folded hashes
against the code's shifts). `OrderedKeys` is a sequence of distinct keys in
insertion order; the mapping reads the live slots off the owner's keys.

**`GcCycle`** (`machine/src/memory/heap.rs`, `vm.rs`, `gc_handles.rs`). A slab in the
order of the sweep walk, marks, fresh tags, one field per object, objects with a
`drop`, weak handles and an interned literal with its cache. The mutator's
operations, the safepoint's cycle (`gc_start_incremental`, `gc_mark_slice_end`,
`gc_sweep_slice`), the queue of drops and `gc_collect` with its two marks are the
actions; a drop body does what the program may do (`DropOps`). The nursery and
moving are off, and any point between two operations may be a safepoint that
collects.

**`Reactor`** (`machine/src/reactor.rs`; spawn, join and detach of `thread.rs`;
`run_with_pool` of `vm.rs`). Injector, deques, queue of test cases, `inflight`,
`shutdown`, the `sleep` mutex and its condition variable, and a stack of jobs per
OS thread: a join runs other jobs on top of the one that waits. Each access to
shared state is a step. `Root` is a program's thread or, with `runner`, the test
runner's. Spare threads are those of `help_off_stack`.

**`BuildCache`** (`src/build_cache.rs`, `src/main.rs`). The source files, the entries,
each compiler's temporary file and its place between key, load, check, compile,
store, rename and prune; each access to a file is a step. A digest is the content
itself and an archive is the contents its compile read. `touched` and `edited` are
history: whether someone edited meanwhile.

**`Connect`** (`connect_in_task`, `resolve_on_pool`, `resolver_loop` of `task.rs`). The
native that a task runs again after every wake, `PENDING_CONNECTS` under the waker's
address and the task id, the resolver queue with `idle`, and the resolver threads.
Time is what is left of a deadline; a socket that was refused, or whose
`take_error` has an error, is no socket; what the native answers is not kept,
only for which call. One VM thread; a cancel may meet the task anywhere, and a
new scheduler may get the old one's waker address once no list holds the waker.

In every module the lines marked `mutant` are broken variants of the definition
below them. No specification uses them: each is what one property is tested with.

## 4. Runs

| Run | Instance | Shows |
|-----|----------|-------|
| `tasks_tree` | 3 children, 2 scopes; joins, cancels, panics, stack overflows | run queue, tree and counters exact, no wakeup lost, a panic cancels its scope and is reported, parents unwind after children, only finished records are forgotten |
| `tasks_waits` | 2 children; every kind of wait, cancels, shields, `defer` blocks that suspend | no wakeup lost; a blocked root runs again, with its result or the deadlock status, unless other tasks keep running |
| `channel` | 3 tasks, capacity 2, 2 values | the channel is a bounded FIFO queue; nobody waits in vain; a close releases everyone |
| `waits` | 3 tasks, 2 timers, 1 token, times 0..1 | IO tables and timers agree with the tasks; no timer ends a later wait; every sleep ends if the run queue is empty again and again |
| `thread_sync` | 2 tasks and 1 other thread, 2 mutexes, a channel, 4 calls | a locked mutex has one holder, whatever tasks, callbacks and cancels do to the shared slot; no wake is missed between threads; a task whose object became available runs again |
| `key_index` | 4 keys (two equal hashes, one that folds onto another's cell, one at the last cell), 5 slots, tables of 8 and 16 | the counter is exact and the table never fills; every key is found where it is; `probe` goes through all keys of a hash; the index implements `OrderedKeys` |
| `gc_cycle` | 3 slots: a node, two drops, a weak, a literal in turn | nothing reachable is freed, nor a literal the cache names; marks and tags are clean between cycles; drop bodies run at most once, and before the sweep; weaks die with their referents; `gc::collect` frees all that is unreachable |
| `reactor` | program or test runner, 2 workers, 1 spare, 2 jobs | no job lost or run twice, `inflight` exact, no thread sleeps through a job, a result or the shutdown; all jobs end and so does the root |
| `build_cache` | 2 compilers, 2 files, 3 contents, 2 edits, 1 crash, room for 1 entry | no entry is torn; a hit is the program on disk unless someone edited while the entry was made or asked for; concurrent prunes keep the bound |
| `connect` | 1 task id, 3 calls, 2 names, an address and a bad port, 2 resolver threads | every queued lookup has a thread coming, no parked task misses its result, no call gets another's answer, a connect with a timeout ends |
| `cancel_lost`, `gc_literal` | small | the disagreements of section 7 |

**Bounds.** `MaxTasks` counts children over the life of a scheduler: two make a
parent and a child or two siblings, three make a tree of depth two with a
sibling, the smallest in which a failing or cancelled task has both children and
siblings. Two scopes nest or follow each other. A channel of capacity two wraps
its indices and can be empty, part full and full; three tasks give two waiters
of one kind and a third that wakes them or competes. Two timers are a stale entry
and a live one for the same task; two times are a deadline that has passed and one
that has not. Three tasks are two that yield to each other and one that sleeps, so
the hypothesis of `SleepEnds` is needed on this instance: without it TLC finds the
sleeper starved. One token makes one wait for IO in a run; that a token's successor
is not taken for it is in the proof of `TablesExact`, which is for any number. The
number of timers and tokens only bounds how long a run of the program is followed.
Four calls are a holder, two tasks that wait for it, and what releases them; or a
callback that calls twice against one other. Two mutexes let a thread meet its
slot taken by the other one.

Five slots between compactions force the smallest table to grow, and a fourth key
meets tombstones of the other three. Three heap slots hold a holder, a referent
and a weak or literal between them; sweep slices of one object put every
operation between any two steps of the cursor. Two jobs and three threads beside
the root nest a join under a join, let a job be stolen from a peer, and leave one
worker asleep while the other submits. One connecting task id is enough for
leftovers of itself (they are the hazard); cancels leave lookups behind, so three
calls make up to three lookups for two threads. A lookup finds no address or two.
A third content lets a file be edited and edited back or on.

No run has a panic together with a `defer` block that suspends: `tasks_tree` has
panics and `defer` blocks that run through, `tasks_waits` has ones that suspend and no
panics. The proofs cover both together; `PanicReported` is false there when the
task that panicked is the one that suspends (sections 5 and 7). So the property says
where a message is kept, and does not guard against its loss in the shared slot.
In the same way `QuietHit` excludes the edits during a compile that the code gets wrong.

`CHECK_DEADLOCK` stays on, except in `thread_sync`: a program that ended stutters
through an action that says so, and any other state without a successor would be
an error. In `thread_sync` a program may really wait for ever, for a mutex nobody
unlocks. Symmetry is
used in `build_cache` only, for compilers and contents, which are interchangeable
there; it has no liveness property.

**Fairness.** `tasks_waits` assumes that the VM thread goes on while it can
(`WF(Next)`); since tasks may yield for ever, `NoSilentHang` promises the root only
that *someone* runs. `channel` assumes that a ready task runs (`WF` of `Resume` for
each task): the run queue is first in, first out, and tasks reach suspension points.
`waits` assumes that the VM thread goes on and that the clock advances, never that
IO gets ready. Tasks that keep yielding to each other hold up every timer
(`task_wait_events` runs only when the run queue is empty), so `SleepEnds` has the
hypothesis that the run queue is empty again and again; nothing in the code ensures
it (section 7).
`thread_sync` assumes that the OS runs every thread, that callbacks end, that the
scheduler looks at posted keys and that it runs its ready tasks; that anybody
unlocks, sends or closes is not assumed. `reactor` assumes that the OS runs every
thread (`WF` for each) and that wakeups without a notify stop at some time; a
user's job ends or joins. `connect` assumes that ready tasks run, that posted keys
are looked at, that the clock advances and that a lookup, once begun, returns
(`getaddrinfo` has timeouts of its own); a socket may stay undecided for ever.

## 5. Proofs

Each component's theorems are in `<module>_proofs`; those of the two collections,
`TaskChannel` and `KeyIndex`, share `Collections_proofs`. They hold for every value of
the constants that its named assumption allows; the assumptions only say that sets
of threads, tasks and files are finite, that names are distinct, and that bounds
are numbers. The bounds of section 4 are parameters here, so the theorems hold
however large they are. Each property was checked on the instances of section 4
before it was proved.

| Theorem | Property | From |
|---------|----------|------|
| `TaskScheduler_proofs`: `TypeCorrect`, `StructuredConcurrency`, `CountersAreExact`, `NoRunningTaskForgotten` | `TypeOK`, `Structured`, `CountersExact`, `ForgetsOnlyFinished` | `ConstantsAssumption` |
| `RunQueueIsExact`, `WakeupsAreKept`, `FailureReachesSiblings`, `CancellationIsOrdered` | `QueueExact`, `NoLostWakeup`, `FailureCancels`, `CancelOrder` | `ConstantsAssumption` |
| `PanicsAreReported` | `PanicReported` | and no step suspends a task that panicked (`PadsRunOn`) |
| `PanicsAreReportedBySimpleCleanups` | `PanicReported` | and `DeferRunsThrough` |
| `Collections_proofs`: `RingExact`, `NobodyStranded`, `ChannelIsFifo` | `WindowExact`, `NoStrandedWaiter`, the refinement of `BoundedFifo` | `ChannelAssumption` |
| `NeverFull`, `LookupExact`, `ProbeWalkExact`, `IndexKeepsOrder` | `OccupiedExact`, `FindExact`, `ProbeExact`, the refinement of `OrderedKeys` | `KeyIndexAssumption` |
| `TaskWaits_proofs`: `TablesExactTheorem`, `NeverEarlyTheorem` | `TablesExact`, `NeverEarly` | `WaitsAssumption` |
| `ThreadSync_proofs`: `HeldExactTheorem`, `NoMissedWakeTheorem` | `HeldExact`, `NoMissedWake` | `ThreadSyncAssumption` |
| `Connect_proofs`: `NoStrandedJobTheorem`, `NoLostLookupTheorem`, `RightPeerTheorem` | `NoStrandedJob`, `NoLostLookup`, `RightPeer` | `ConnectAssumption` (at least one resolver may be started) |
| `Reactor_proofs`: `JobsOnceTheorem`, `NoLostWakeupTheorem` | `JobsOnce`, `NoLostWakeup` | `ReactorAssumption` (at least one worker) |
| `GcCycle_proofs`: `IdleCleanTheorem`, `CycleDropsFirstTheorem`, `CollectReclaimsTheorem` | `IdleClean`, `CycleDropsFirst`, `CollectReclaims` | `GcCycleAssumption` |
| `NoDanglingTheorem`, `WeakKeptTheorem` | `NoDangling`, `WeakKept` | and `NoLiteralInDrops` |
| `BuildCache_proofs`: `WholeEntriesTheorem`, `QuietHitTheorem`, `PruneBoundsTheorem` | `WholeEntries`, `QuietHit`, `PruneBounds` | `CacheAssumption` |

**`TaskScheduler`: the tree.** That a scope's tree stays intact depends on the counters
(a scope is removed when `unfinished` is zero), the counters depend on the tree (a
child that finishes is counted in a scope that exists), and both on where the VM
thread is. So the inductive invariant is one conjunction,

    IInv == Typed /\ Control /\ Tree /\ CountersExact /\ Blank

`Typed` has the counters as integers (that they are natural follows from
`CountersExact`); `Control` says what each position of the VM thread may rely on
(the task being finalized has no unfinished children, the picked task is ready,
a scope whose failure is about to be read is done); `Tree` is `Structured` and
"spawned after its owner"; `Blank` says that an unused scope counts nothing. Most
steps are *quiet*: they finish no task and remove no record, and one lemma
(`QuietPreserves`) carries the tree and the counters over all of them. The others
(open, spawn, finalize, remove) have a lemma each. `NoRunningTaskForgotten` is an
action property proved from the same invariant.

**`TaskScheduler`: queue, waits, cancels, panics.** A second layer rests on `IInv`. Every
step is of one of sixteen *kinds*, by what it does to the records: the current task
stands, pauses or ends, a task is born, woken, marked for a cancel, finished, picked,
blocked, switched in, and so on (`Kind`, lemma `StepKinds`). Each further property is
one argument per kind:

- `RunInv == IInv /\ Queued /\ Unstarted`. `Queued` says that the queue holds each ready
  task once, but for the one at hand; `Unstarted`, that a task that never ran waits in
  the queue or has ended, which is why a cancel may drop it from there.
- `WakeupsAreKept` needs `RunInv` and itself: a joined task is not forgotten before its
  joiners are woken, because it is a child of a scope that is not done.
- `FailInv == Failing /\ Unwinders /\ MsgOK /\ RootFree`. While `task_end` is at its loop a
  sibling may still be in `cancels`; `Failing` counts that as stopped. A scope names
  the task that failed it by the message, so the message of an unwinding task must
  be of a task spawned before (`MsgOK`), or later children would seem to be covered.
- `PanicInv == Raised /\ FinEnds /\ Reporting`. A task that panicked and has not ended is
  the current one, unwinding, with its message in the machine's slot. This is what a
  cleanup of that task breaks when it suspends, so the theorem is about the runs of a
  program in which no step does that (`PadsRunOn`); cancelled tasks may suspend in their
  cleanups, and shields and cancels are free. TLC agrees on a small instance with
  panics, shields and `defer` blocks that suspend: `PanicReported` holds in those runs and
  is violated without the restriction, for one when a task with a waiting cancel
  panics, its `defer` enters and leaves `task::shield`, the cancel is delivered and clears
  the message (section 7). A program all of whose `defer` blocks run through
  (`DeferRunsThrough`: no waits in them, and no shield) has only such runs, which is the
  second theorem.

**`TaskChannel`.** `ChannelAssumption`: capacity at least one, as `channel` enforces; the
empty slot is not a value. The invariant is
`TypeOK /\ ArgOK /\ WindowExact /\ NoStrandedWaiter`, where `ArgOK` says that the argument
of a waiting `send` is a value. Modular arithmetic enters through three lemmas on
`%`; the refinement is one lemma per kind of step on the sequence read off the ring.

**`KeyIndex`.** `KeyIndexAssumption`: the smallest table is not empty, hashes, folded
hashes and bounds are natural numbers; nothing is assumed of which keys collide.
The invariant is

    IndexIInv == IndexTypeOK /\ Holds(table, cap, Placed, hashes) /\ Counted
                 /\ Rebuilding /\ KeysExact

- `Holds` says that the table holds exactly the placed slots, each once, and that each
  is *reached*: no cell before it in its hash's probe sequence is empty. None of the
  four properties is inductive without it: what a lookup answers now does not say
  what it answers after the next removal. It is why a removed cell must not look
  empty (`RemoveHolds`) and may be reused (`PlaceHolds`).
- `Counted` is the counter between natives. `Rebuilding` stands for it during a rebuild:
  no cell is removed, as many cells are in use as slots are placed, and there is room
  for the slots still to come, the pending insert and one more. So `place` always
  has an empty cell ahead (`RoomLeft`), and its walk meets every cell (`CellsOnce`).
- `KeysExact` gives distinct keys, and that the key of a pending insert is new.

`ProbeWalkExact` maps a slot to its place in the hash's probe sequence; `probe` goes to
the next greater place and from the last one to 0, and on such a `Chain` a set that
holds 0 and is closed under the walk is everything (`ChainOnce`). For the refinement
the live slots are numbered by `Rank`; `RetainAdd`, `RetainDrop` and `RetainAll` say what
an insert, a removal and a compaction do to the sequence of their keys. That `cap_for`
ends, and with a table at most half full, is `CapFor`, from the sizes its loop goes
through (`DoubledIs`, `DoubledGrows`). Where these arguments go by induction they take
the least counterexample (`NatMin`, from `WFMin` of the library), which needs no
operator as a parameter.

**`TaskWaits`.** `IInv == TypeOK /\ Queue /\ Control /\ Io /\ Timed`. The tables agree with the
tasks only together with the place of the VM thread: between the poll and its use a
ready token is out of the reactor and still in `ioWaits`. `Timed` says that a task
with a sequence number is in a timed wait and its entry is in the heap, so entries with
another number are stale and end nothing; `NeverEarly` follows.

**`ThreadSync`.** `IInv == Typed /\ Calls /\ Owners /\ Listed /\ WakeDue`. `Owners` says who
answers for a locked mutex: the slot of an OS thread or one `with_lock` frame, never
both; `Calls` has the nesting of the model (the callback of a `with_lock` calls
further natives, whose own callbacks are not modelled). `Listed` follows a key from list to relay to posted, `WakeDue` says that a
list with something to tell has a call between its change and its `take`.

**`Connect`.** `IInv == Typed /\ PoolOK /\ TaskOK /\ Told /\ Made /\ Single /\ Live`. `idle` counts
threads that sleep *and those that were notified and have not run*, so `idle > 0` does not
mean that a notify reaches a sleeping thread; `PoolOK` says that while a lookup is queued
some started thread is past its wait all the same. `Told` and `Live` follow a lookup from
queue to thread to list, `Single` says that one attempt at most asks for it, whatever
cancelled calls left behind.

**`Reactor`.** `Base == Typed /\ Control /\ Once /\ Contents /\ Carries /\ Status /\ Counted` gives
`JobsOnce`. `Wakes == Mutex /\ Watched /\ Joins` gives `NoLostWakeup`: who holds `sleep` and
has looked at a queue has found it empty, unless somebody is still to notify. A worker
that saw `inflight` at zero waits without a second look, so this part needs the
exactness of `inflight`, that is `Base`.

**`GcCycle`.** `Base == TypeOK /\ Control /\ Tags /\ Owed /\ Plain` holds for any operations: marks
and tags are ahead of the cursor, and what a cycle is to free has run its drop.
`Sound == Closure /\ Literal /\ Black` says that what the sweep keeps refers only to what it
keeps. It is inductive only if no `drop` body uses a string literal
(`NoLiteralInDrops`); the run `gc_literal` is the counterexample without that hypothesis.

**`BuildCache`.** `IInv == Typed /\ Holds /\ Agrees /\ Stored /\ PruneDue`. `Holds` says what each
compiler has at each step (its temporary file is whole before the rename), `Agrees` relates what a
compile has read to the files, as long as nobody edited; `Stored` says that an entry is
whole and honest about its inputs; `PruneDue`, that too many entries means a prune
that has not listed them yet or whose list holds the surplus.

**Only model-checked.** Liveness (`NoSilentHang`, `CloseReleases`, `SleepEnds`,
`WakeRuns`, `JobsEnd`, `RootReturns`, `ConnectEnds`) is out of the prover's reach.
Every invariant, action property and refinement of the passing runs is proved; three
of them under a hypothesis on the program without which the code does not keep
them: `PanicReported` (no task that panicked is suspended), `NoDangling` and `WeakKept` (no literal in
a drop).

## 6. Not modelled

The compiler, parser, formatter, archive format, verifier, language server,
debugger, SIMD kernels and command line are sequential translations or tools; their
tests compare outputs, and a state machine adds little. They are the bulk of the
repository, which is why the map covers a small share of its lines. File, process
and terminal natives are thin calls to the operating system. Of the VM only
suspension points, panics, the program's end, `drop` calls and the two field
instructions are modelled. The search for cleanup pads in a task's frames, saving
and restoring its part of the operand stack, and the values tasks return are
abstracted away, except for whether a suspended native left a result slot.

Of the modelled parts: the collector's nursery, evacuation, byte thresholds and slab
geometry, coroutines that owe a close, early frees (`FreeEarly`: what the compiler
proved dead is freed without a cycle), and a `drop` that panics, which ends the
program there (`finalizer_aborted`); the pool's `help_local_once`, the
finalizers between the drain and the shutdown, and the build without threads; the
cache's time of use, its legacy extension, temporary files that a dead compiler
leaves (nothing reads them), and a listing or a removal that fails in `prune`, which
the code ignores (`PruneBounds` is about prunes that succeed); the connect in place on systems without a
non-blocking one; readers-writer locks, the values that mutexes and channels hold, callbacks that panic
and `recv` in the build without threads. Not modelled and planned (section 2): the
IO reactor under several threads, the shared heap's epochs.

Where the code looks at two atomics in a row and the model at both in one step:
`worker_loop` (`shutdown`, then `inflight`; a worker looks at both again under the lock
before it waits), `try_host_detach` and `join_undetached_threads` (`joined` and
`detached`; a drain between the two waits for a job that is detached as well, and
the job ends all the same).

## 7. Where code and documentation disagree

With a run that shows it:

- **`cancel_lost`**: `task_request_cancel` treats `current` as running even while
  `task_run_next` works and no task runs. A suspended child that ran last and is
  cancelled there, because its parent has to unwind, is not woken.
- **`gc_literal`**: a `drop` body that the safepoint's cycle runs may load a string
  literal that the mark did not reach and store it into a marked object; only
  `Weak` upgrades are shaded there, so the sweep frees a string that is in use.

Met while modelling, without a run of their own:

- Tasks. The one `task_panic_message` slot is shared: a panic whose `defer` suspends
  loses its message to another task's unwinding, or to its own cancel when the
  `defer` leaves a shield (`PadsRunOn` of `TaskScheduler_proofs` excludes both). A cancelled task that waited to run
  its native again and has children is woken with a value, which overwrites an
  argument. The scheduler may outlive the last scope. Timers, IO and posted keys are
  looked at only when the run queue is empty, so tasks that yield to each other hold
  up deadlines and IO of all others; the documentation promises of `sleep` only that
  it lasts at least its milliseconds (`docs/internals/tasks.md`).
- Threads. `call_function` leaves the waiter of the outer native armed, so a `recv`,
  `lock` or `with_lock` that would block inside the callback of a task's `with_lock`
  parks instead of waiting: the callback goes on with a default value, later
  `thread` calls in it lose their results, and the outer `with_lock`, whose new
  value is stored by then, is suspended and runs its callback a second time. The
  documentation of `with_lock` has one atomic update. `lock` keeps its mutex in a
  slot of the OS thread, so a task may unlock what another task of the thread
  locked, and a task that ends or is cancelled leaves its mutex locked. When the
  callback of a `with_lock` panics after a native inside it parked, the native returns the
  panic before it looks at `THREAD_PARKED` (`host_natives.rs`), which stays set.
- Connect. An entry that a cancelled connect left is continued by a later call with
  the same arguments at the same waker address and id, with the *old* deadline, so
  `connect_timeout` may answer `TimedOut` before `ms` milliseconds passed. The
  deadline starts after the lookup (`docs/internals/tasks.md`), where the
  documentation of `connect_timeout` has lookup and addresses share it. "A slow
  lookup ... stalls only its own task": `idle` still counts a thread that was
  notified and has not run, so two lookups can queue behind one idle thread while
  the pool has room for another, and the second waits for the first.
- Reactor. "Only an idle worker takes" a test case (`reactor.rs`, `cases`), yet a
  worker that helps during a join looks with the same `find_job` and nests cases.
- Collector. `gc::collect` frees an object that its own drops let go without running
  that object's `drop`. An object allocated behind the sweep's cursor is not
  tagged fresh, where `docs/internals/gc-incremental.md` says it keeps a tag.
- Build cache. Inputs are digested when the entry is stored, so an edit during the
  compile is recorded as what the archive was built from, and later hits run the
  old program "while nothing it was built from changed" (`QuietHit` says where the
  promise does hold).
- IO reactor. `wait_token`, which only tests call, polls while it holds `ready`.
