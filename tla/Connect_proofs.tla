--------------------------- MODULE Connect_proofs ---------------------------
(***************************************************************************)
(* Proofs about Connect, for every number of task ids, waker addresses,    *)
(* resolver threads, arguments and calls: no queued lookup is stranded, no *)
(* task that waits for a lookup is forgotten, and no call is answered for  *)
(* the arguments of another.                                               *)
(***************************************************************************)
EXTENDS Connect, FiniteSetTheorems, SequenceTheorems, TLAPS

Lookup == [done : BOOLEAN, result : Nat, waiters : SUBSET (Places \X (Nat \ {0}))]
Steps == {"off", "look", "waiting", "woken", "busy", "wake"}

\* The variables' types.
Typed ==
  /\ place \in Places
  /\ pc \in [Ids -> {"idle", "ready", "native", "lookup", "io"}]
  /\ args \in [Ids -> Args \cup {None}]
  /\ key \in [Ids -> Nat] /\ nextKey \in Nat \ {0} /\ posted \in SUBSET (Nat \ {0})
  /\ pending \in [Places \X Ids -> PendingConnect \cup {None}]
  /\ cur \in Ids \cup {None} /\ hand \in PendingConnect \cup {None}
  /\ lookups \in Seq(Lookup)
  /\ jobs \in Seq(DOMAIN lookups)
  /\ thr \in [Resolvers -> [at : Steps, job : Nat]]
  /\ calls \in Nat

\* A resolver thread that works has a lookup to work on, `idle` counts those
\* that sleep, and a job has a thread coming for it.
Sleeping == {r \in Resolvers : thr[r].at \in {"waiting", "woken"}}
PoolOK ==
  /\ \A r \in Resolvers : thr[r].at \in {"busy", "wake"} => thr[r].job \in DOMAIN lookups
  /\ idle = Cardinality(Sleeping)
  /\ jobs # <<>> => \E r \in Resolvers : thr[r].at \notin {"off", "waiting"}

\* What a task holds: arguments during a call, in the native an attempt with
\* these arguments, while it waits for a lookup one that names the lookup.
TaskOK(t) ==
  /\ cur = t <=> pc[t] = "native"
  /\ pc[t] # "idle" => args[t] \in Args
  /\ cur = t => hand # None /\ hand.args = args[t]
  /\ key[t] # 0 => pc[t] = "lookup"
  /\ pc[t] = "lookup" => pending[Slot(t)] # None /\ pending[Slot(t)].lookup # 0

\* The attempt in the native, and the one under k, ask for lookup l.
HandAsks(l) == hand # None /\ hand.lookup = l
EntryAsks(k, l) == pending[k] # None /\ pending[k].lookup = l

\* The lookups asked for were made.
Made ==
  /\ hand # None => hand.lookup <= Len(lookups)
  /\ \A k \in Places \X Ids : pending[k] # None => pending[k].lookup <= Len(lookups)

\* Only one attempt asks for a lookup.
Single ==
  \A l \in DOMAIN lookups : \A k \in Places \X Ids :
    EntryAsks(k, l) => ~HandAsks(l) /\ \A j \in Places \X Ids : EntryAsks(j, l) => j = k

\* A lookup somebody asks for and that has no result is queued or looked up.
Coming(l) == \/ \E i \in DOMAIN jobs : jobs[i] = l
             \/ \E r \in Resolvers : thr[r].at = "busy" /\ thr[r].job = l
Live ==
  \A l \in DOMAIN lookups :
    (HandAsks(l) \/ \E k \in Places \X Ids : EntryAsks(k, l)) /\ ~lookups[l].done => Coming(l)

\* The key of a waiting task is posted or in the list of its lookup, and a
\* lookup with a result has a thread that is going to wake its list.
Told(t) ==
  pc[t] = "lookup" =>
    LET l == pending[Slot(t)].lookup
    IN \/ key[t] \in posted
       \/ /\ <<place, key[t]>> \in lookups[l].waiters
          /\ lookups[l].done => \E r \in Resolvers : thr[r].at = "wake" /\ thr[r].job = l

\* The inductive invariant.
IInv == Typed /\ PoolOK /\ (\A t \in Ids : TaskOK(t) /\ Told(t)) /\ Made /\ Single /\ Live

-----------------------------------------------------------------------------
(***************************************************************************)
(* The resolver pool.                                                      *)
(***************************************************************************)
LEMMA SleepingFinite == IsFiniteSet(Sleeping) /\ Cardinality(Sleeping) \in Nat
<1>1. IsFiniteSet(Resolvers) /\ Sleeping \subseteq Resolvers  BY ConnectAssumption DEF Sleeping
<1> QED  BY <1>1, FS_Subset, FS_CardinalityType

\* What the move of one thread does to the threads and the count of sleepers.
LEMMA ThreadMoves ==
  ASSUME Typed, NEW r \in Resolvers, NEW l \in Steps, NEW j \in Nat, thr' = ThreadAt(r, l, j)
  PROVE  /\ thr' \in [Resolvers -> [at : Steps, job : Nat]]
         /\ thr'[r].at = l /\ thr'[r].job = j
         /\ \A q \in Resolvers \ {r} : thr'[q] = thr[q]
         /\ Cardinality(Sleeping') =
              IF l \in {"waiting", "woken"}
              THEN IF r \in Sleeping THEN Cardinality(Sleeping) ELSE Cardinality(Sleeping) + 1
              ELSE IF r \in Sleeping THEN Cardinality(Sleeping) - 1 ELSE Cardinality(Sleeping)
<1>1. /\ thr' \in [Resolvers -> [at : Steps, job : Nat]]
      /\ thr'[r].at = l /\ thr'[r].job = j
      /\ \A q \in Resolvers \ {r} : thr'[q] = thr[q]
  BY DEF Typed, ThreadAt
<1>2. Sleeping' = IF l \in {"waiting", "woken"} THEN Sleeping \cup {r} ELSE Sleeping \ {r}
  BY <1>1 DEF Sleeping
<1>3. /\ r \in Sleeping => Sleeping \cup {r} = Sleeping
      /\ r \notin Sleeping => Sleeping \ {r} = Sleeping
  OBVIOUS
<1>4. Cardinality(Sleeping \cup {r}) =
        IF r \in Sleeping THEN Cardinality(Sleeping) ELSE Cardinality(Sleeping) + 1
  BY SleepingFinite, FS_AddElement
<1>5. Cardinality(Sleeping \ {r}) =
        IF r \in Sleeping THEN Cardinality(Sleeping) - 1 ELSE Cardinality(Sleeping)
  BY SleepingFinite, FS_RemoveElement
<1> QED  BY <1>1, <1>2, <1>4, <1>5

\* The lookups threads work on stay theirs, and what is coming keeps coming.
Working == \A r \in Resolvers : thr[r].at \in {"busy", "wake"} => thr'[r] = thr[r]
StillComing == \A l \in Nat : Coming(l) => Coming(l)'

\* A lookup is queued.
LEMMA Queued ==
  ASSUME Typed, PoolOK, NEW CONSTANT n \in Nat, n = Len(lookups) + 1,
         resolve_on_pool(n), DOMAIN lookups' = 1..n
  PROVE  /\ jobs' \in Seq(DOMAIN lookups') /\ thr' \in [Resolvers -> [at : Steps, job : Nat]]
         /\ PoolOK' /\ Working /\ StillComing /\ Coming(n)'
<1>1. n \in Nat /\ DOMAIN lookups = 1..Len(lookups) /\ Len(lookups) \in Nat
  BY LenProperties DEF Typed
<1>2. jobs' = Append(jobs, n) /\ idle' = idle  BY DEF resolve_on_pool
<1>3. jobs \in Seq(DOMAIN lookups')
  <2>1. DOMAIN lookups \subseteq DOMAIN lookups'  BY <1>1
  <2> QED  BY <2>1 DEF Typed
<1>4. /\ jobs' \in Seq(DOMAIN lookups') /\ Len(jobs) \in Nat /\ DOMAIN jobs = 1..Len(jobs)
      /\ DOMAIN jobs' = 1..(Len(jobs) + 1) /\ jobs'[Len(jobs) + 1] = n
      /\ \A i \in DOMAIN jobs : jobs'[i] = jobs[i]
  <2>1. n \in DOMAIN lookups'  BY <1>1
  <2>2. /\ jobs' \in Seq(DOMAIN lookups') /\ Len(jobs') = Len(jobs) + 1
        /\ \A i \in 1..Len(jobs) : jobs'[i] = jobs[i] /\ jobs'[Len(jobs) + 1] = n
        /\ jobs'[Len(jobs) + 1] = n
    BY <1>2, <1>3, <2>1, AppendProperties
  <2>3. Len(jobs) \in Nat /\ DOMAIN jobs = 1..Len(jobs) /\ DOMAIN jobs' = 1..Len(jobs')
    BY <1>3, <2>2, LenProperties
  <2> QED  BY <2>2, <2>3
<1>5. \/ \E r \in Resolvers : thr[r].at = "off" /\ idle = 0 /\ thr' = ThreadAt(r, "look", 0)
      \/ \E r \in Resolvers : thr[r].at = "waiting" /\ thr' = ThreadAt(r, "woken", 0)
      \/ /\ thr' = thr /\ \A r \in Resolvers : thr[r].at # "waiting"
         /\ idle = 0 /\ InState("off") # {} => Started # {}
  BY DEF resolve_on_pool, notify_one, InState
<1> DEFINE Moved ==
      /\ thr' \in [Resolvers -> [at : Steps, job : Nat]]
      /\ Working /\ Cardinality(Sleeping') = Cardinality(Sleeping)
      /\ \E r \in Resolvers : thr'[r].at \notin {"off", "waiting"}
      /\ \A r \in Resolvers : thr'[r].at \in {"busy", "wake"} => thr'[r] = thr[r]
<1>6. Moved
  <2>1. ASSUME NEW r \in Resolvers, thr[r].at = "off", thr' = ThreadAt(r, "look", 0) PROVE Moved
    <3>1. r \notin Sleeping  BY <2>1 DEF Sleeping
    <3> QED  BY <2>1, <3>1, ThreadMoves DEF Working, Steps
  <2>2. ASSUME NEW r \in Resolvers, thr[r].at = "waiting", thr' = ThreadAt(r, "woken", 0) PROVE Moved
    <3>1. r \in Sleeping  BY <2>2 DEF Sleeping
    <3> QED  BY <2>2, <3>1, ThreadMoves DEF Working, Steps
  <2>3. CASE /\ thr' = thr /\ \A r \in Resolvers : thr[r].at # "waiting"
             /\ idle = 0 /\ InState("off") # {} => Started # {}
    <3>1. Sleeping' = Sleeping /\ Working  BY <2>3 DEF Sleeping, Working
    <3>2. \E r \in Resolvers : thr[r].at \notin {"off", "waiting"}
      <4>1. CASE idle # 0
        <5>1. Sleeping # {}  BY <4>1, FS_EmptySet DEF PoolOK
        <5> QED  BY <2>3, <5>1 DEF Sleeping
      <4>2. CASE idle = 0 /\ InState("off") # {}
        BY <2>3, <4>2 DEF Started, InState
      <4>3. CASE InState("off") = {}
        BY <2>3, <4>3, ConnectAssumption DEF InState
      <4> QED  BY <4>1, <4>2, <4>3
    <3> QED  BY <2>3, <3>1, <3>2 DEF Typed
  <2> QED  BY <1>5, <2>1, <2>2, <2>3
<1>7. PoolOK'
  <2>1. \A r \in Resolvers : thr'[r].at \in {"busy", "wake"} => thr'[r].job \in DOMAIN lookups'
    BY <1>1, <1>6 DEF PoolOK
  <2> QED  BY <1>2, <1>6, <2>1 DEF PoolOK
<1>8. StillComing
  <2> SUFFICES ASSUME NEW l \in Nat, Coming(l) PROVE Coming(l)'  BY DEF StillComing
  <2>1. CASE \E i \in DOMAIN jobs : jobs[i] = l
    BY <1>4, <2>1 DEF Coming
  <2>2. CASE \E r \in Resolvers : thr[r].at = "busy" /\ thr[r].job = l
    BY <1>6, <2>2 DEF Coming, Working
  <2> QED  BY <2>1, <2>2 DEF Coming
<1>9. Coming(n)'
  <2>1. Len(jobs) + 1 \in DOMAIN jobs' /\ jobs'[Len(jobs) + 1] = n  BY <1>4
  <2> QED  BY <2>1 DEF Coming
<1> QED  BY <1>4, <1>6, <1>7, <1>8, <1>9

\* A thread looks at the queue.
LEMMA JobTaken ==
  ASSUME Typed, PoolOK, NEW r \in Resolvers, NEW others \in Nat, NextJob(r, others),
         \/ thr[r].at = "look" /\ others = idle
         \/ thr[r].at = "woken" /\ others = idle - 1,
         lookups' = lookups
  PROVE  /\ jobs' \in Seq(DOMAIN lookups') /\ thr' \in [Resolvers -> [at : Steps, job : Nat]]
         /\ PoolOK' /\ Working /\ StillComing
<1>1. DOMAIN lookups \subseteq Nat /\ DOMAIN jobs = 1..Len(jobs) /\ Len(jobs) \in Nat
  BY LenProperties DEF Typed
<1>2. r \in Sleeping <=> thr[r].at = "woken"  BY DEF Sleeping
<1>3. CASE jobs # <<>>
  <2>1. /\ jobs' = Tail(jobs) /\ idle' = others /\ thr' = ThreadAt(r, "busy", Head(jobs))
    BY <1>3 DEF NextJob
  <2>2. /\ Head(jobs) \in DOMAIN lookups /\ Tail(jobs) \in Seq(DOMAIN lookups)
        /\ Len(Tail(jobs)) = Len(jobs) - 1
        /\ \A i \in 1..Len(Tail(jobs)) : Tail(jobs)[i] = jobs[i + 1]
    BY <1>3, HeadTailProperties DEF Typed
  <2>3. /\ thr' \in [Resolvers -> [at : Steps, job : Nat]]
        /\ thr'[r].at = "busy" /\ thr'[r].job = Head(jobs)
        /\ \A q \in Resolvers \ {r} : thr'[q] = thr[q]
        /\ Cardinality(Sleeping') = IF r \in Sleeping THEN Cardinality(Sleeping) - 1 ELSE Cardinality(Sleeping)
    BY <1>1, <2>1, <2>2, ThreadMoves DEF Steps
  <2>4. idle' = Cardinality(Sleeping')  BY <1>2, <2>1, <2>3 DEF PoolOK
  <2>5. PoolOK'  BY <2>2, <2>3, <2>4 DEF PoolOK
  <2>6. Working  BY <2>3 DEF Working
  <2>7. StillComing
    <3> SUFFICES ASSUME NEW l \in Nat, Coming(l) PROVE Coming(l)'  BY DEF StillComing
    <3>1. ASSUME NEW i \in DOMAIN jobs, jobs[i] = l PROVE Coming(l)'
      <4>1. CASE i = 1  BY <2>3, <3>1, <4>1 DEF Coming, Typed
      <4>2. CASE i # 1
        <5>1. i - 1 \in 1..Len(Tail(jobs)) /\ (i - 1) + 1 = i  BY <1>1, <2>2, <4>2
        <5>2. jobs'[i - 1] = l  BY <2>1, <2>2, <3>1, <5>1
        <5>3. i - 1 \in DOMAIN jobs'  BY <2>1, <2>2, <5>1, LenProperties
        <5> QED  BY <5>2, <5>3 DEF Coming
      <4> QED  BY <4>1, <4>2
    <3>2. CASE \E q \in Resolvers : thr[q].at = "busy" /\ thr[q].job = l
      BY <2>6, <3>2 DEF Coming, Working
    <3> QED  BY <3>1, <3>2 DEF Coming
  <2> QED  BY <2>1, <2>2, <2>3, <2>5, <2>6, <2>7
<1>4. CASE jobs = <<>>
  <2>1. jobs' = jobs /\ idle' = others + 1 /\ thr' = ThreadAt(r, "waiting", 0)
    BY <1>4 DEF NextJob
  <2>2. /\ thr' \in [Resolvers -> [at : Steps, job : Nat]]
        /\ thr'[r].at = "waiting"
        /\ \A q \in Resolvers \ {r} : thr'[q] = thr[q]
        /\ Cardinality(Sleeping') = IF r \in Sleeping THEN Cardinality(Sleeping) ELSE Cardinality(Sleeping) + 1
    BY <2>1, ThreadMoves DEF Steps
  <2>3. idle' = Cardinality(Sleeping')  BY <1>2, <2>1, <2>2, SleepingFinite DEF PoolOK
  <2>4. PoolOK'  BY <1>4, <2>1, <2>2, <2>3 DEF PoolOK
  <2>5. Working  BY <2>2 DEF Working
  <2>6. StillComing  BY <2>1, <2>5 DEF StillComing, Working, Coming
  <2> QED  BY <2>1, <2>2, <2>4, <2>5, <2>6 DEF Typed
<1> QED  BY <1>3, <1>4

-----------------------------------------------------------------------------
(***************************************************************************)
(* Frames: what a step must keep for the attempts to stay single, live and *)
(* told.                                                                   *)
(***************************************************************************)
Asked(l) == HandAsks(l) \/ \E k \in Places \X Ids : EntryAsks(k, l)
Tasks == \A t \in Ids : TaskOK(t)
AllTold == \A t \in Ids : Told(t)

LEMMA LookupDomain ==
  ASSUME Typed
  PROVE  /\ Len(lookups) \in Nat /\ DOMAIN lookups = 1..Len(lookups)
         /\ lookups \in [DOMAIN lookups -> Lookup]
  BY LenProperties DEF Typed

LEMMA SlotType == ASSUME Typed, NEW t \in Ids PROVE Slot(t) \in Places \X Ids
  BY DEF Typed, Slot

\* The lookup a task waits for exists.
LEMMA WaitsForMade ==
  ASSUME Typed, Made, NEW t \in Ids, TaskOK(t), pc[t] = "lookup"
  PROVE  pending[Slot(t)] \in PendingConnect /\ pending[Slot(t)].lookup \in DOMAIN lookups
<1>1. pending[Slot(t)] \in PendingConnect /\ pending[Slot(t)].lookup # 0
      /\ pending[Slot(t)].lookup <= Len(lookups)
  BY SlotType DEF Typed, TaskOK, Made
<1>2. pending[Slot(t)].lookup \in Nat  BY <1>1 DEF PendingConnect
<1> QED  BY <1>1, <1>2, LookupDomain

LEMMA AsksFrame ==
  ASSUME Single, Live, DOMAIN lookups' = DOMAIN lookups,
         \A l \in DOMAIN lookups : HandAsks(l)' => HandAsks(l),
         \A l \in DOMAIN lookups : \A k \in Places \X Ids : EntryAsks(k, l)' => EntryAsks(k, l),
         \A l \in DOMAIN lookups : Asked(l)' /\ ~lookups'[l].done =>
                                     ~lookups[l].done /\ (Coming(l) => Coming(l)')
  PROVE  Single' /\ Live'
<1>1. Single'  BY DEF Single
<1>2. Live'
  <2> SUFFICES ASSUME NEW l \in DOMAIN lookups, Asked(l)', ~lookups'[l].done PROVE Coming(l)'
    BY DEF Live, Asked
  <2>1. Asked(l)  BY DEF Asked
  <2> QED  BY <2>1 DEF Live, Asked
<1> QED  BY <1>1, <1>2

LEMMA ToldFrame ==
  ASSUME Typed, Made, NEW t \in Ids, TaskOK(t), Told(t),
         pc'[t] = "lookup" => /\ pc[t] = "lookup" /\ place' = place /\ key'[t] = key[t]
                              /\ pending'[Slot(t)].lookup = pending[Slot(t)].lookup,
         posted \subseteq posted', Working,
         \A l \in DOMAIN lookups : l = pending[Slot(t)].lookup =>
                                   /\ lookups'[l].waiters = lookups[l].waiters
                                   /\ lookups'[l].done = lookups[l].done
  PROVE  Told(t)'
<1> SUFFICES ASSUME pc'[t] = "lookup" PROVE Told(t)'  BY DEF Told
<1> DEFINE l == pending[Slot(t)].lookup
<1>1. l \in DOMAIN lookups  BY WaitsForMade
<1>2. \/ key[t] \in posted
      \/ /\ <<place, key[t]>> \in lookups[l].waiters
         /\ lookups[l].done => \E r \in Resolvers : thr[r].at = "wake" /\ thr[r].job = l
  BY DEF Told
<1>3. Slot(t)' = Slot(t) /\ pending'[Slot(t)].lookup = l  BY DEF Slot
<1>4. CASE key[t] \in posted  BY <1>4 DEF Told
<1>5. CASE /\ <<place, key[t]>> \in lookups[l].waiters
           /\ lookups[l].done => \E r \in Resolvers : thr[r].at = "wake" /\ thr[r].job = l
  <2>1. lookups'[l].waiters = lookups[l].waiters /\ lookups'[l].done = lookups[l].done  BY <1>1
  <2>2. lookups[l].done => \E r \in Resolvers : thr'[r].at = "wake" /\ thr'[r].job = l
    BY <1>5 DEF Working
  <2>3. place' = place /\ key'[t] = key[t]  OBVIOUS
  <2> HIDE DEF l
  <2>4. <<place', key'[t]>> \in lookups'[l].waiters  BY <1>5, <2>1, <2>3
  <2>5. lookups'[l].done => \E r \in Resolvers : thr'[r].at = "wake" /\ thr'[r].job = l
    BY <2>1, <2>2
  <2> QED  BY <1>3, <2>4, <2>5 DEF Told
<1> QED  BY <1>2, <1>4, <1>5

\* Nothing but the pool moves.
LEMMA PoolOnly ==
  ASSUME IInv, UNCHANGED <<program, pc, waits, pending, cur, hand, lookups>>,
         jobs' \in Seq(DOMAIN lookups'), thr' \in [Resolvers -> [at : Steps, job : Nat]],
         PoolOK', Working, StillComing
  PROVE  IInv'
<1> USE DEF program, waits
<1>1. Typed'  BY DEF IInv, Typed
<1>2. Made' /\ \A t \in Ids : TaskOK(t)'  BY DEF IInv, Made, TaskOK, Slot
<1>3. DOMAIN lookups \subseteq Nat  BY LookupDomain DEF IInv
<1>4. Single' /\ Live'
  <2>1. \A l \in DOMAIN lookups : (HandAsks(l)' => HandAsks(l))
                                  /\ \A k \in Places \X Ids : EntryAsks(k, l)' => EntryAsks(k, l)
    BY DEF HandAsks, EntryAsks
  <2>2. \A l \in DOMAIN lookups : Coming(l) => Coming(l)'  BY <1>3 DEF StillComing
  <2> QED  BY <2>1, <2>2, AsksFrame DEF IInv
<1>5. \A t \in Ids : Told(t)'  BY ToldFrame DEF IInv
<1> QED  BY <1>1, <1>2, <1>4, <1>5 DEF IInv

LEMMA resolver_loopKept ==
  ASSUME IInv, NEW r \in Resolvers, resolver_loop(r)
  PROVE  IInv'
<1>1. Cardinality(Sleeping) \in Nat /\ idle = Cardinality(Sleeping)
      /\ (thr[r].at = "woken" => Sleeping # {})
  BY SleepingFinite DEF IInv, PoolOK, Sleeping
<1>2. idle \in Nat /\ (thr[r].at = "woken" => idle - 1 \in Nat)
  BY <1>1, SleepingFinite, FS_EmptySet
<1>3. CASE thr[r].at = "look" /\ NextJob(r, idle)
  BY <1>2, <1>3, JobTaken, PoolOnly DEF IInv, resolver_loop
<1>4. CASE thr[r].at = "woken" /\ NextJob(r, idle - 1)
  BY <1>2, <1>4, JobTaken, PoolOnly DEF IInv, resolver_loop
<1> QED  BY <1>3, <1>4 DEF resolver_loop

LEMMA SpuriousWakeupKept ==
  ASSUME IInv, NEW r \in Resolvers, SpuriousWakeup(r)
  PROVE  IInv'
<1>1. r \in Sleeping /\ thr[r].at = "waiting" /\ thr' = ThreadAt(r, "woken", 0)
      /\ UNCHANGED <<program, pc, waits, pending, cur, hand, lookups, jobs, idle>>
  BY DEF SpuriousWakeup, Sleeping
<1>2. /\ thr' \in [Resolvers -> [at : Steps, job : Nat]] /\ thr'[r].at = "woken"
      /\ \A q \in Resolvers \ {r} : thr'[q] = thr[q]
      /\ Cardinality(Sleeping') = Cardinality(Sleeping)
  BY <1>1, ThreadMoves DEF IInv, Steps
<1>3. PoolOK'  BY <1>1, <1>2 DEF IInv, PoolOK
<1>4. Working  BY <1>1, <1>2 DEF Working
<1>5. StillComing  BY <1>1, <1>4 DEF StillComing, Working, Coming
<1>6. jobs' \in Seq(DOMAIN lookups')  BY <1>1 DEF IInv, Typed
<1> QED  BY <1>1, <1>2, <1>3, <1>4, <1>5, <1>6, PoolOnly

\* A resolver thread r at work on lookup l moves on.
LEMMA WorkerMoves ==
  ASSUME IInv, NEW r \in Resolvers, thr[r].at \in {"busy", "wake"}, NEW s \in {"wake", "look"},
         thr' = ThreadAt(r, s, thr[r].job), jobs' = jobs, idle' = idle,
         DOMAIN lookups' = DOMAIN lookups
  PROVE  /\ thr' \in [Resolvers -> [at : Steps, job : Nat]] /\ jobs' \in Seq(DOMAIN lookups')
         /\ thr'[r].at = s /\ thr'[r].job = thr[r].job
         /\ \A q \in Resolvers \ {r} : thr'[q] = thr[q]
         /\ PoolOK'
         /\ \A l : Coming(l) /\ ~(thr[r].at = "busy" /\ thr[r].job = l) => Coming(l)'
<1>1. thr[r].job \in DOMAIN lookups /\ thr[r].job \in Nat /\ r \notin Sleeping
  BY DEF IInv, PoolOK, Typed, Sleeping
<1>2. /\ thr' \in [Resolvers -> [at : Steps, job : Nat]]
      /\ thr'[r].at = s /\ thr'[r].job = thr[r].job
      /\ \A q \in Resolvers \ {r} : thr'[q] = thr[q]
      /\ Cardinality(Sleeping') = Cardinality(Sleeping)
  BY <1>1, ThreadMoves DEF IInv, Steps
<1>3. PoolOK'  BY <1>1, <1>2 DEF IInv, PoolOK
<1>4. \A l : Coming(l) /\ ~(thr[r].at = "busy" /\ thr[r].job = l) => Coming(l)'
  BY <1>2 DEF Coming
<1>5. jobs' \in Seq(DOMAIN lookups')  BY DEF IInv, Typed
<1> QED  BY <1>2, <1>3, <1>4, <1>5

LEMMA StoreKept ==
  ASSUME IInv, NEW r \in Resolvers, thr[r].at = "busy", Store(r, thr[r].job, "wake"),
         UNCHANGED <<program, pc, key, nextKey, pending, cur, hand, jobs, idle>>
  PROVE  IInv'
<1> DEFINE l == thr[r].job
<1>1. /\ l \in DOMAIN lookups /\ DOMAIN lookups = 1..Len(lookups) /\ Len(lookups) \in Nat
      /\ lookups[l] \in Lookup /\ Typed
  BY LookupDomain DEF IInv, PoolOK
<1>2. PICK n \in Found : lookups' = [lookups EXCEPT ![l].result = n, ![l].done = TRUE]
  BY DEF Store
<1>3. n \in Nat  BY ConnectAssumption
<1> DEFINE new == [lookups[l] EXCEPT !.result = n, !.done = TRUE]
<1>4. new \in Lookup /\ new.done = TRUE /\ new.waiters = lookups[l].waiters  BY <1>1, <1>3 DEF Lookup
<1>5. lookups' = [lookups EXCEPT ![l] = new]  BY <1>1, <1>2, LookupDomain
<1> HIDE DEF new
<1>6. /\ lookups' \in Seq(Lookup) /\ Len(lookups') = Len(lookups) /\ DOMAIN lookups' = DOMAIN lookups
      /\ lookups'[l] = new /\ \A j \in DOMAIN lookups : j # l => lookups'[j] = lookups[j]
  <2>1. /\ lookups' \in Seq(Lookup) /\ Len(lookups') = Len(lookups)
        /\ \A j \in 1..Len(lookups) : lookups'[j] = IF j = l THEN new ELSE lookups[j]
    BY <1>1, <1>4, <1>5, ExceptSeq DEF Typed
  <2> QED  BY <1>1, <2>1, LenProperties
<1>7. thr' = ThreadAt(r, "wake", l) /\ posted' = posted  BY DEF Store
<1>8. /\ thr' \in [Resolvers -> [at : Steps, job : Nat]] /\ jobs' \in Seq(DOMAIN lookups')
      /\ thr'[r].at = "wake" /\ thr'[r].job = l
      /\ \A q \in Resolvers \ {r} : thr'[q] = thr[q]
      /\ PoolOK'
      /\ \A j : Coming(j) /\ l # j => Coming(j)'
  BY <1>6, <1>7, WorkerMoves
<1> USE DEF program
<1>9. Typed'  BY <1>6, <1>7, <1>8 DEF IInv, Typed
<1>10. Made' /\ \A t \in Ids : TaskOK(t)'  BY <1>6 DEF IInv, Made, TaskOK, Slot
<1>11. Single' /\ Live'
  <2>1. \A j \in DOMAIN lookups : (HandAsks(j)' => HandAsks(j))
                                  /\ \A k \in Places \X Ids : EntryAsks(k, j)' => EntryAsks(k, j)
    BY DEF HandAsks, EntryAsks
  <2>2. \A j \in DOMAIN lookups : ~lookups'[j].done => ~lookups[j].done /\ j # l
    BY <1>4, <1>6
  <2> QED  BY <1>6, <1>8, <2>1, <2>2, AsksFrame DEF IInv
<1>12. ASSUME NEW t \in Ids PROVE Told(t)'
  <2> SUFFICES ASSUME pc'[t] = "lookup" PROVE Told(t)'  BY DEF Told
  <2> DEFINE j == pending[Slot(t)].lookup
  <2>1. j \in DOMAIN lookups /\ pc[t] = "lookup"  BY WaitsForMade DEF IInv
  <2>2. \/ key[t] \in posted
        \/ /\ <<place, key[t]>> \in lookups[j].waiters
           /\ lookups[j].done => \E q \in Resolvers : thr[q].at = "wake" /\ thr[q].job = j
    BY <2>1 DEF IInv, Told
  <2>3. Slot(t)' = Slot(t) /\ pending' = pending /\ place' = place /\ key' = key  BY DEF Slot
  <2> HIDE DEF j
  <2>4. lookups'[j].waiters = lookups[j].waiters  BY <1>4, <1>6, <2>1
  <2>5. <<place, key[t]>> \in lookups[j].waiters /\ lookups'[j].done =>
          key[t] \in posted \/ \E q \in Resolvers : thr'[q].at = "wake" /\ thr'[q].job = j
    <3>1. CASE j = l  BY <1>8, <3>1
    <3>2. CASE j # l
      <4>1. lookups'[j] = lookups[j]  BY <1>6, <2>1, <3>2
      <4> QED  BY <1>8, <2>2, <4>1
    <3> QED  BY <3>1, <3>2
  <2>6. \/ key'[t] \in posted'
        \/ /\ <<place', key'[t]>> \in lookups'[j].waiters
           /\ lookups'[j].done => \E q \in Resolvers : thr'[q].at = "wake" /\ thr'[q].job = j
    BY <1>7, <2>2, <2>3, <2>4, <2>5
  <2>7. pending'[Slot(t)'].lookup = j  BY <2>3 DEF j
  <2> QED  BY <2>6, <2>7 DEF Told
<1> QED  BY <1>8, <1>9, <1>10, <1>11, <1>12 DEF IInv

LEMMA wake_allKept ==
  ASSUME IInv, NEW r \in Resolvers, thr[r].at = "wake", wake_all(r, thr[r].job, "look"),
         UNCHANGED <<program, pc, key, nextKey, pending, cur, hand, jobs, idle>>
  PROVE  IInv'
<1> DEFINE l == thr[r].job
           woken == {w[2] : w \in {v \in lookups[l].waiters : v[1] = place}}
           new == [lookups[l] EXCEPT !.waiters = {}]
<1>1. /\ l \in DOMAIN lookups /\ DOMAIN lookups = 1..Len(lookups) /\ Len(lookups) \in Nat
      /\ lookups[l] \in Lookup /\ Typed
  BY LookupDomain DEF IInv, PoolOK
<1>2. woken \subseteq Nat \ {0}  BY <1>1 DEF Lookup
<1>3. \A x : <<place, x>> \in lookups[l].waiters => x \in woken  OBVIOUS
<1>4. lookups' = [lookups EXCEPT ![l] = new] /\ posted' = posted \cup woken
      /\ thr' = ThreadAt(r, "look", l)
  BY <1>1, LookupDomain DEF wake_all
<1>5. new \in Lookup /\ new.done = lookups[l].done  BY <1>1 DEF Lookup
<1> HIDE DEF new, woken
<1>6. /\ lookups' \in Seq(Lookup) /\ Len(lookups') = Len(lookups) /\ DOMAIN lookups' = DOMAIN lookups
      /\ lookups'[l] = new /\ \A j \in DOMAIN lookups : j # l => lookups'[j] = lookups[j]
  <2>1. /\ lookups' \in Seq(Lookup) /\ Len(lookups') = Len(lookups)
        /\ \A j \in 1..Len(lookups) : lookups'[j] = IF j = l THEN new ELSE lookups[j]
    BY <1>1, <1>4, <1>5, ExceptSeq DEF Typed
  <2> QED  BY <1>1, <2>1, LenProperties
<1>8. /\ thr' \in [Resolvers -> [at : Steps, job : Nat]] /\ jobs' \in Seq(DOMAIN lookups')
      /\ \A q \in Resolvers \ {r} : thr'[q] = thr[q]
      /\ PoolOK'
      /\ \A j : Coming(j) => Coming(j)'
  BY <1>4, <1>6, WorkerMoves
<1> USE DEF program
<1>9. Typed'  BY <1>2, <1>4, <1>6, <1>8 DEF IInv, Typed
<1>10. Made' /\ \A t \in Ids : TaskOK(t)'  BY <1>6 DEF IInv, Made, TaskOK, Slot
<1>11. Single' /\ Live'
  <2>1. \A j \in DOMAIN lookups : (HandAsks(j)' => HandAsks(j))
                                  /\ \A k \in Places \X Ids : EntryAsks(k, j)' => EntryAsks(k, j)
    BY DEF HandAsks, EntryAsks
  <2>2. \A j \in DOMAIN lookups : lookups'[j].done = lookups[j].done
    BY <1>5, <1>6
  <2> QED  BY <1>6, <1>8, <2>1, <2>2, AsksFrame DEF IInv
<1>12. ASSUME NEW t \in Ids PROVE Told(t)'
  <2> SUFFICES ASSUME pc'[t] = "lookup" PROVE Told(t)'  BY DEF Told
  <2> DEFINE j == pending[Slot(t)].lookup
  <2>1. j \in DOMAIN lookups /\ pc[t] = "lookup"  BY WaitsForMade DEF IInv
  <2>2. \/ key[t] \in posted
        \/ /\ <<place, key[t]>> \in lookups[j].waiters
           /\ lookups[j].done => \E q \in Resolvers : thr[q].at = "wake" /\ thr[q].job = j
    BY <2>1 DEF IInv, Told
  <2>3. Slot(t)' = Slot(t) /\ pending' = pending /\ place' = place /\ key' = key  BY DEF Slot
  <2> HIDE DEF j
  <2>4. \/ key'[t] \in posted'
        \/ /\ <<place', key'[t]>> \in lookups'[j].waiters
           /\ lookups'[j].done => \E q \in Resolvers : thr'[q].at = "wake" /\ thr'[q].job = j
    <3>1. CASE j = l  BY <1>3, <1>4, <2>2, <2>3, <3>1
    <3>2. CASE j # l
      <4>1. lookups'[j] = lookups[j]  BY <1>6, <2>1, <3>2
      <4> QED  BY <1>4, <1>8, <2>2, <2>3, <3>2, <4>1
    <3> QED  BY <3>1, <3>2
  <2>5. pending'[Slot(t)'].lookup = j  BY <2>3 DEF j
  <2> QED  BY <2>4, <2>5 DEF Told
<1> QED  BY <1>8, <1>9, <1>10, <1>11, <1>12 DEF IInv

-----------------------------------------------------------------------------
(***************************************************************************)
(* The clock, the network, and what happens to parked tasks.               *)
(***************************************************************************)
\* The lookups and the pool are left alone, and nobody asks for more.
LEMMA NoPool ==
  ASSUME IInv, UNCHANGED <<lookups, jobs, idle, thr>>
  PROVE  PoolOK' /\ Working /\ \A l : Coming(l) => Coming(l)'
  BY DEF IInv, PoolOK, Sleeping, Working, Coming

LEMMA AttemptsOnly ==
  ASSUME IInv, UNCHANGED <<lookups, jobs, idle, thr>>,
         hand' # None => hand'.lookup = 0 \/ (hand # None /\ hand'.lookup = hand.lookup),
         \A k \in Places \X Ids : pending'[k] # None =>
           pending'[k].lookup = 0 \/ (pending[k] # None /\ pending'[k].lookup = pending[k].lookup)
  PROVE  PoolOK' /\ Made' /\ Single' /\ Live'
<1>1. PoolOK' /\ \A l : Coming(l) => Coming(l)'  BY NoPool
<1>2. Len(lookups) \in Nat /\ DOMAIN lookups = 1..Len(lookups)  BY LookupDomain DEF IInv
<1>2a. Made'  BY <1>2 DEF IInv, Made
<1>3. \A l \in DOMAIN lookups : (HandAsks(l)' => HandAsks(l))
                                /\ \A k \in Places \X Ids : EntryAsks(k, l)' => EntryAsks(k, l)
  BY <1>2 DEF HandAsks, EntryAsks
<1>4. Single' /\ Live'  BY <1>1, <1>3, AsksFrame DEF IInv
<1> QED  BY <1>1, <1>2a, <1>4

LEMMA LaterFacts ==
  ASSUME NEW p \in PendingConnect \cup {None}
  PROVE  /\ Later(p) \in PendingConnect \cup {None}
         /\ Later(p) # None <=> p # None
         /\ p # None => Later(p).lookup = p.lookup /\ Later(p).args = p.args
<1>1. None \notin PendingConnect  BY ConnectAssumption
<1>2. CASE p # None /\ p.left > 0
  <2>1. p \in PendingConnect /\ p.left \in Nat  BY <1>2 DEF PendingConnect, NoDeadline
  <2>2. p.left - 1 \in Nat  BY <1>2, <2>1
  <2>3. Later(p) = [p EXCEPT !.left = p.left - 1]  BY <1>2 DEF Later
  <2>4. Later(p) \in PendingConnect /\ Later(p).lookup = p.lookup /\ Later(p).args = p.args
    BY <2>1, <2>2, <2>3 DEF PendingConnect
  <2> QED  BY <1>1, <1>2, <2>4
<1>3. CASE ~(p # None /\ p.left > 0)  BY <1>3 DEF Later
<1> QED  BY <1>2, <1>3

LEMMA TickKept ==
  ASSUME IInv, Tick
  PROVE  IInv'
<1>1. /\ pending' = [k \in Places \X Ids |-> Later(pending[k])] /\ hand' = Later(hand)
      /\ UNCHANGED <<place, args, calls, pc, key, nextKey, posted, cur, lookups, jobs, idle, thr>>
  BY DEF Tick, program, waits, pool, IInv, Typed
<1>2. hand \in PendingConnect \cup {None}
      /\ \A k \in Places \X Ids : pending[k] \in PendingConnect \cup {None}
  BY DEF IInv, Typed
<1>3. /\ hand' \in PendingConnect \cup {None} /\ (hand' # None <=> hand # None)
      /\ hand # None => hand'.lookup = hand.lookup /\ hand'.args = hand.args
  BY <1>1, <1>2, LaterFacts
<1>4. \A k \in Places \X Ids :
        /\ pending'[k] \in PendingConnect \cup {None} /\ (pending'[k] # None <=> pending[k] # None)
        /\ pending[k] # None => pending'[k].lookup = pending[k].lookup
  BY <1>1, <1>2, LaterFacts
<1>5. Typed'
  <2>1. pending' \in [Places \X Ids -> PendingConnect \cup {None}]  BY <1>1, <1>4
  <2> QED  BY <1>1, <1>3, <2>1 DEF IInv, Typed
<1>6. PoolOK' /\ Made' /\ Single' /\ Live'  BY <1>1, <1>3, <1>4, AttemptsOnly
<1>7. \A t \in Ids : Slot(t)' = Slot(t) /\ Slot(t) \in Places \X Ids
  BY <1>1, SlotType DEF Slot, IInv
<1>8. \A t \in Ids : TaskOK(t)'  BY <1>1, <1>3, <1>4, <1>7 DEF IInv, TaskOK
<1>9. \A t \in Ids : pc[t] = "lookup" => pending'[Slot(t)].lookup = pending[Slot(t)].lookup
  BY <1>4, <1>7 DEF IInv, TaskOK
<1>10. \A t \in Ids : Told(t)'  BY <1>1, <1>9, NoPool, ToldFrame DEF IInv
<1> QED  BY <1>5, <1>6, <1>8, <1>10 DEF IInv

LEMMA SocketEndsKept ==
  ASSUME IInv, NEW k \in Places \X Ids, SocketEnds(k)
  PROVE  IInv'
<1>1. PICK s \in {"connected", "none"} : pending' = [pending EXCEPT ![k].sock = s]
  BY DEF SocketEnds
<1>2. pending[k] \in PendingConnect /\ pending[k] # None  BY DEF SocketEnds, IInv, Typed
<1> DEFINE new == [pending[k] EXCEPT !.sock = s]
<1>3. new \in PendingConnect /\ new.lookup = pending[k].lookup  BY <1>2 DEF PendingConnect
<1>4. pending' = [pending EXCEPT ![k] = new]  BY <1>1 DEF IInv, Typed
<1> HIDE DEF new
<1>5. UNCHANGED <<place, args, calls, pc, key, nextKey, posted, cur, hand, lookups, jobs, idle, thr>>
  BY DEF SocketEnds, program, waits, pool
<1>6. \A j \in Places \X Ids : (pending'[j] # None <=> pending[j] # None)
                               /\ (pending[j] # None => pending'[j].lookup = pending[j].lookup)
  BY <1>2, <1>3, <1>4, ConnectAssumption DEF IInv, Typed
<1>7. Typed'  BY <1>3, <1>4, <1>5 DEF IInv, Typed
<1>8. PoolOK' /\ Made' /\ Single' /\ Live'  BY <1>5, <1>6, AttemptsOnly
<1>9. \A t \in Ids : Slot(t)' = Slot(t) /\ Slot(t) \in Places \X Ids
  BY <1>5, SlotType DEF Slot, IInv
<1>10. \A t \in Ids : TaskOK(t)'  BY <1>5, <1>6, <1>9 DEF IInv, TaskOK
<1>11. \A t \in Ids : pc[t] = "lookup" => pending'[Slot(t)].lookup = pending[Slot(t)].lookup
  BY <1>6, <1>9 DEF IInv, TaskOK
<1>12. \A t \in Ids : Told(t)'  BY <1>5, <1>11, NoPool, ToldFrame DEF IInv
<1> QED  BY <1>7, <1>8, <1>10, <1>12 DEF IInv

\* The steps that leave the attempts alone too
LEMMA ParkedOnly ==
  ASSUME IInv, UNCHANGED <<lookups, jobs, idle, thr, pending, hand, cur>>, Typed',
         \A t \in Ids : TaskOK(t)',
         \A t \in Ids : pc'[t] = "lookup" => /\ pc[t] = "lookup" /\ place' = place /\ key'[t] = key[t]
                                             /\ key[t] \in posted => key[t] \in posted'
  PROVE  IInv'
<1>1. PoolOK' /\ Made' /\ Single' /\ Live'  BY AttemptsOnly
<1>2. ASSUME NEW t \in Ids PROVE Told(t)'
  <2> SUFFICES ASSUME pc'[t] = "lookup" PROVE Told(t)'  BY DEF Told
  <2>1. pc[t] = "lookup" /\ place' = place /\ key'[t] = key[t] /\ Slot(t)' = Slot(t) /\ Told(t)
    BY DEF Slot, IInv
  <2> QED  BY <2>1 DEF Told
<1> QED  BY <1>1, <1>2 DEF IInv

LEMMA take_postedKept ==
  ASSUME IInv, take_posted
  PROVE  IInv'
<1>1. /\ cur = None /\ posted' = {}
      /\ pc' = [t \in Ids |-> IF key[t] \in posted THEN "ready" ELSE pc[t]]
      /\ key' = [t \in Ids |-> IF key[t] \in posted THEN 0 ELSE key[t]]
      /\ UNCHANGED <<place, args, calls, nextKey, pending, cur, hand, lookups, jobs, idle, thr>>
  BY DEF take_posted, program, pool
<1>2. Typed'  BY <1>1 DEF IInv, Typed
<1>3. \A t \in Ids : key[t] \in posted => pc[t] = "lookup"
  BY DEF IInv, Typed, TaskOK
<1>4. \A t \in Ids : TaskOK(t)'
  BY <1>1, <1>3, ConnectAssumption DEF IInv, TaskOK, Slot
<1> QED  BY <1>1, <1>2, <1>4, ParkedOnly

LEMMA ParkedKept ==
  ASSUME IInv, NEW t \in Ids, WakeIo(t) \/ Cancel(t) \/ \E a \in Args : Call(t, a)
  PROVE  IInv'
<1>1. CASE WakeIo(t)
  <2>1. cur = None /\ pc[t] = "io" /\ pc' = [pc EXCEPT ![t] = "ready"]
        /\ UNCHANGED <<place, args, calls, key, nextKey, posted, pending, cur, hand, lookups, jobs, idle, thr>>
    BY <1>1 DEF WakeIo, program, waits, pool
  <2>2. Typed'  BY <2>1 DEF IInv, Typed
  <2>3. \A u \in Ids : TaskOK(u)'  BY <2>1, ConnectAssumption DEF IInv, Typed, TaskOK, Slot
  <2> QED  BY <2>1, <2>2, <2>3, ParkedOnly DEF IInv, Typed
<1>2. CASE Cancel(t)
  <2>1. /\ cur = None /\ pc[t] # "native" /\ pc' = [pc EXCEPT ![t] = "idle"]
        /\ args' = [args EXCEPT ![t] = None] /\ key' = [key EXCEPT ![t] = 0]
        /\ UNCHANGED <<place, calls, nextKey, posted, pending, cur, hand, lookups, jobs, idle, thr>>
    BY <1>2 DEF Cancel, pool
  <2>2. Typed'  BY <2>1 DEF IInv, Typed
  <2>3. \A u \in Ids : TaskOK(u)'  BY <2>1, ConnectAssumption DEF IInv, Typed, TaskOK, Slot
  <2> QED  BY <2>1, <2>2, <2>3, ParkedOnly DEF IInv, Typed
<1>3. ASSUME NEW a \in Args, Call(t, a) PROVE IInv'
  <2>1. /\ cur = None /\ pc[t] = "idle" /\ pc' = [pc EXCEPT ![t] = "ready"] /\ calls' = calls + 1
        /\ args' = [args EXCEPT ![t] = a]
        /\ UNCHANGED <<place, key, nextKey, posted, pending, cur, hand, lookups, jobs, idle, thr>>
    BY <1>3 DEF Call, waits, pool
  <2>2. Typed'  BY <2>1 DEF IInv, Typed
  <2>3. \A u \in Ids : TaskOK(u)'  BY <2>1, ConnectAssumption DEF IInv, Typed, TaskOK, Slot
  <2> QED  BY <2>1, <2>2, <2>3, ParkedOnly DEF IInv, Typed
<1> QED  BY <1>1, <1>2, <1>3

LEMMA NewSchedulerKept ==
  ASSUME IInv, NewScheduler
  PROVE  IInv'
<1>1. /\ \A t \in Ids : pc[t] = "idle"
      /\ place' \in Places /\ key' = [t \in Ids |-> 0] /\ nextKey' = 1 /\ posted' = {}
      /\ UNCHANGED <<args, calls, pc, pending, cur, hand, lookups, jobs, idle, thr>>
  BY DEF NewScheduler, pool
<1>2. Typed'  BY <1>1 DEF IInv, Typed
<1>3. \A t \in Ids : TaskOK(t)'  BY <1>1 DEF IInv, TaskOK
<1> QED  BY <1>1, <1>2, <1>3, ParkedOnly

-----------------------------------------------------------------------------
(***************************************************************************)
(* The native.                                                             *)
(***************************************************************************)
LEMMA WithDeadlineFacts ==
  ASSUME NEW t \in Ids, NEW p \in PendingConnect, args[t] \in Args
  PROVE  /\ WithDeadline(p, t) \in PendingConnect
         /\ WithDeadline(p, t).lookup = p.lookup /\ WithDeadline(p, t).args = p.args
<1>1. msOf[args[t]] \in Nat  BY ConnectAssumption
<1>2. CASE p.left = NoDeadline /\ msOf[args[t]] > 0
  <2>1. WithDeadline(p, t) = [p EXCEPT !.left = msOf[args[t]]]  BY <1>2 DEF WithDeadline
  <2> QED  BY <1>1, <2>1 DEF PendingConnect
<1>3. CASE ~(p.left = NoDeadline /\ msOf[args[t]] > 0)
  <2>1. WithDeadline(p, t) = p  BY <1>3 DEF WithDeadline
  <2> QED  BY <2>1
<1> QED  BY <1>2, <1>3

\* The other tasks are where they were: in particular nobody else is in the
\* native.
OthersStay(t) ==
  /\ place' = place
  /\ \A u \in Ids \ {t} : /\ pc'[u] = pc[u] /\ args'[u] = args[u] /\ key'[u] = key[u]
                          /\ pending'[Slot(u)] = pending[Slot(u)]

LEMMA OthersOK ==
  ASSUME IInv, NEW t \in Ids, cur \in {t, None}, cur' \in {t, None}, OthersStay(t),
         NEW u \in Ids \ {t}
  PROVE  TaskOK(u)'
<1>1. Slot(u)' = Slot(u)  BY DEF OthersStay, Slot
<1>2. cur # u /\ cur' # u  BY ConnectAssumption
<1> QED  BY <1>1, <1>2 DEF IInv, TaskOK, OthersStay

LEMMA OthersTold ==
  ASSUME IInv, NEW t \in Ids, OthersStay(t), posted' = posted, Working, NEW u \in Ids \ {t},
         \A l \in DOMAIN lookups : l = pending[Slot(u)].lookup =>
                                   /\ lookups'[l].waiters = lookups[l].waiters
                                   /\ lookups'[l].done = lookups[l].done
  PROVE  Told(u)'
  BY ToldFrame DEF IInv, OthersStay

LEMMA SlotsDiffer == ASSUME NEW t \in Ids, NEW u \in Ids \ {t} PROVE Slot(u) # Slot(t)
  BY DEF Slot

\* The native answers.
LEMMA ReturnTyped ==
  ASSUME IInv, NEW t \in Ids, Return(t)
  PROVE  /\ pc' \in [Ids -> {"idle", "ready", "native", "lookup", "io"}]
         /\ args' \in [Ids -> Args \cup {None}] /\ cur' = None /\ hand' = None
         /\ pc'[t] = "idle"
         /\ \A u \in Ids \ {t} : pc'[u] = pc[u] /\ args'[u] = args[u]
  BY DEF Return, IInv, Typed

LEMMA connect_loopKept ==
  ASSUME IInv, NEW t \in Ids, connect_loop(t)
  PROVE  IInv'
<1> DEFINE p == WithDeadline(hand, t)
<1>1. /\ cur = t /\ hand.lookup = 0
      /\ UNCHANGED <<place, calls, key, nextKey, posted, lookups, jobs, idle, thr>>
  BY DEF connect_loop, waits, pool
<1>2. /\ hand # None /\ hand \in PendingConnect /\ hand.args = args[t] /\ args[t] \in Args
      /\ pc[t] = "native" /\ cur # None
  BY <1>1, ConnectAssumption DEF IInv, Typed, TaskOK
<1>3. p \in PendingConnect /\ p.lookup = 0 /\ p.args = args[t]
  BY <1>1, <1>2, WithDeadlineFacts
<1>4. key[t] = 0  BY <1>2 DEF IInv, TaskOK
<1>5. \/ Return(t) /\ UNCHANGED pending
      \/ Park(t, p, "io")
      \/ /\ p.addrs > 0
         /\ \E s \in {"none", "connecting", "connected"} : hand' = [p EXCEPT !.addrs = @ - 1, !.sock = s]
         /\ UNCHANGED <<pending, pc, cur, args>>
  BY DEF connect_loop
<1> HIDE DEF p
<1>6. Slot(t) \in Places \X Ids  BY SlotType DEF IInv
<1>7. CASE Return(t) /\ UNCHANGED pending
  <2>1. Typed'  BY <1>1, <1>7, ReturnTyped DEF IInv, Typed
  <2>2. PoolOK' /\ Made' /\ Single' /\ Live'  BY <1>1, <1>7, ReturnTyped, AttemptsOnly
  <2>3. OthersStay(t)  BY <1>1, <1>7, ReturnTyped DEF OthersStay
  <2>4. TaskOK(t)' /\ Told(t)'
    BY <1>1, <1>4, <1>7, ReturnTyped, ConnectAssumption DEF TaskOK, Told
  <2>5. cur' = None  BY <1>7, ReturnTyped
  <2> QED  BY <1>1, <2>1, <2>2, <2>3, <2>4, <2>5, NoPool, OthersOK, OthersTold DEF IInv
<1>8. CASE Park(t, p, "io")
  <2>1. /\ pending' = [pending EXCEPT ![Slot(t)] = p] /\ pc' = [pc EXCEPT ![t] = "io"]
        /\ cur' = None /\ hand' = None /\ args' = args
    BY <1>8 DEF Park
  <2>2. Typed'  BY <1>1, <1>3, <2>1 DEF IInv, Typed
  <2>3. \A k \in Places \X Ids : pending'[k] = IF k = Slot(t) THEN p ELSE pending[k]
    BY <2>1 DEF IInv, Typed
  <2>3a. \A k \in Places \X Ids : pending'[k] # None =>
           pending'[k].lookup = 0 \/ (pending[k] # None /\ pending'[k].lookup = pending[k].lookup)
    BY <1>3, <2>3
  <2>3b. UNCHANGED <<lookups, jobs, idle, thr>> /\ hand' = None  BY <1>1, <2>1
  <2>4. PoolOK' /\ Made' /\ Single' /\ Live'  BY <2>3a, <2>3b, AttemptsOnly
  <2>5. OthersStay(t)
    <3>1. \A u \in Ids \ {t} : Slot(u) \in Places \X Ids /\ Slot(u) # Slot(t)
      BY SlotType, SlotsDiffer DEF IInv
    <3> QED  BY <1>1, <2>1, <2>3, <3>1 DEF OthersStay, IInv, Typed
  <2>6. pc'[t] = "io"  BY <2>1 DEF IInv, Typed
  <2>7. TaskOK(t)' /\ Told(t)'
    BY <1>1, <1>2, <1>4, <2>1, <2>6, ConnectAssumption DEF TaskOK, Told
  <2> QED  BY <1>1, <2>1, <2>2, <2>4, <2>5, <2>7, NoPool, OthersOK, OthersTold DEF IInv
<1>9. CASE /\ p.addrs > 0
           /\ \E s \in {"none", "connecting", "connected"} : hand' = [p EXCEPT !.addrs = @ - 1, !.sock = s]
           /\ UNCHANGED <<pending, pc, cur, args>>
  <2>1. PICK s \in {"none", "connecting", "connected"} : hand' = [p EXCEPT !.addrs = @ - 1, !.sock = s]
    BY <1>9
  <2>2. p.addrs \in Nat /\ p.addrs - 1 \in Nat
    <3>1. p.addrs \in Nat  BY <1>3 DEF PendingConnect
    <3> QED  BY <1>9, <3>1
  <2>3. hand' \in PendingConnect /\ hand'.lookup = 0 /\ hand'.args = args[t]
    BY <1>3, <2>1, <2>2 DEF PendingConnect
  <2>4. Typed'  BY <1>1, <1>9, <2>3 DEF IInv, Typed
  <2>5. PoolOK' /\ Made' /\ Single' /\ Live'  BY <1>1, <1>9, <2>3, AttemptsOnly
  <2>6. OthersStay(t)  BY <1>1, <1>9 DEF OthersStay
  <2>7. TaskOK(t)' /\ Told(t)'
    BY <1>1, <1>2, <1>4, <1>9, <2>3, ConnectAssumption DEF TaskOK, Told
  <2> QED  BY <1>1, <1>9, <2>4, <2>5, <2>6, <2>7, NoPool, OthersOK, OthersTold DEF IInv
<1> QED  BY <1>5, <1>7, <1>8, <1>9

\* One lookup changes, in place.
LEMMA LookupChanged ==
  ASSUME IInv, NEW l \in DOMAIN lookups, NEW new \in Lookup, lookups' = [lookups EXCEPT ![l] = new],
         UNCHANGED <<jobs, idle, thr>>
  PROVE  /\ lookups' \in Seq(Lookup) /\ Len(lookups') = Len(lookups) /\ DOMAIN lookups' = DOMAIN lookups
         /\ lookups'[l] = new /\ \A j \in DOMAIN lookups : j # l => lookups'[j] = lookups[j]
         /\ jobs' \in Seq(DOMAIN lookups') /\ PoolOK' /\ Working
         /\ \A j : Coming(j) => Coming(j)'
<1>1. DOMAIN lookups = 1..Len(lookups) /\ Len(lookups) \in Nat  BY LookupDomain DEF IInv
<1>2. /\ lookups' \in Seq(Lookup) /\ Len(lookups') = Len(lookups)
      /\ \A j \in 1..Len(lookups) : lookups'[j] = IF j = l THEN new ELSE lookups[j]
  BY <1>1, ExceptSeq DEF IInv, Typed
<1>3. DOMAIN lookups' = DOMAIN lookups  BY <1>1, <1>2, LenProperties
<1>4. PoolOK' /\ Working /\ \A j : Coming(j) => Coming(j)'
  BY <1>3 DEF IInv, PoolOK, Sleeping, Working, Coming
<1>5. jobs' \in Seq(DOMAIN lookups')  BY <1>3 DEF IInv, Typed
<1> QED  BY <1>1, <1>2, <1>3, <1>4, <1>5

LEMMA take_lookupKept ==
  ASSUME IInv, NEW t \in Ids, take_lookup(t)
  PROVE  IInv'
<1> DEFINE l == hand.lookup
<1>1. cur = t /\ l # 0 /\ UNCHANGED <<place, calls, posted, jobs, idle, thr>>
  BY DEF take_lookup, pool
<1>2. /\ hand # None /\ hand \in PendingConnect /\ hand.args = args[t] /\ args[t] \in Args
      /\ pc[t] = "native" /\ cur # None /\ key[t] = 0
  BY <1>1, ConnectAssumption DEF IInv, Typed, TaskOK
<1>3. l \in DOMAIN lookups /\ l \in Nat /\ l <= Len(lookups)
  <2>1. l \in Nat /\ l <= Len(lookups)  BY <1>2 DEF PendingConnect, IInv, Made
  <2> QED  BY <1>1, <2>1, LookupDomain DEF IInv
<1>4. HandAsks(l) /\ \A k \in Places \X Ids : ~EntryAsks(k, l)
  BY <1>2, <1>3 DEF HandAsks, IInv, Single
<1>5. lookups[l] \in Lookup /\ lookups \in [DOMAIN lookups -> Lookup]
      /\ Len(lookups) \in Nat /\ DOMAIN lookups = 1..Len(lookups)
  BY <1>3, LookupDomain DEF IInv
<1>6. \A u \in Ids : pc[u] = "lookup" => pending[Slot(u)].lookup # l
  BY <1>4, SlotType DEF EntryAsks, IInv, TaskOK
<1>7. \A u \in Ids : Slot(u) \in Places \X Ids /\ (u # t => Slot(u) # Slot(t))
  BY SlotType, SlotsDiffer DEF IInv
\* Nobody else is told of l.
<1>8. ASSUME OthersStay(t), posted' = posted, Working, NEW u \in Ids \ {t},
             \A j \in DOMAIN lookups : j # l => lookups'[j] = lookups[j]
      PROVE  Told(u)'
  <2>1. CASE pc'[u] # "lookup"  BY <2>1 DEF Told
  <2>2. CASE pc'[u] = "lookup"
    <3>1. pc[u] = "lookup"  BY <1>8, <2>2 DEF OthersStay
    <3>2. pending[Slot(u)].lookup # l  BY <1>6, <3>1
    <3> QED  BY <1>8, <3>2, OthersTold
  <2> QED  BY <2>1, <2>2
<1>9. ASSUME ~lookups[l].done, lookups' = [lookups EXCEPT ![l].waiters = @ \cup {<<place, nextKey>>}],
             key' = [key EXCEPT ![t] = nextKey], nextKey' = nextKey + 1, Park(t, hand, "lookup")
      PROVE  IInv'
  <2> DEFINE new == [lookups[l] EXCEPT !.waiters = @ \cup {<<place, nextKey>>}]
  <2>1. nextKey \in Nat \ {0} /\ place \in Places  BY DEF IInv, Typed
  <2>2. new \in Lookup /\ ~new.done /\ <<place, nextKey>> \in new.waiters
    BY <1>5, <1>9, <2>1 DEF Lookup
  <2>3. lookups' = [lookups EXCEPT ![l] = new]  BY <1>5, <1>9
  <2> HIDE DEF new
  <2>4. /\ lookups' \in Seq(Lookup) /\ Len(lookups') = Len(lookups) /\ DOMAIN lookups' = DOMAIN lookups
        /\ lookups'[l] = new /\ \A j \in DOMAIN lookups : j # l => lookups'[j] = lookups[j]
        /\ jobs' \in Seq(DOMAIN lookups') /\ PoolOK' /\ Working
        /\ \A j : Coming(j) => Coming(j)'
    BY <1>1, <1>3, <2>2, <2>3, LookupChanged
  <2>5. /\ pending' = [pending EXCEPT ![Slot(t)] = hand] /\ pc' = [pc EXCEPT ![t] = "lookup"]
        /\ cur' = None /\ hand' = None /\ args' = args
    BY <1>9 DEF Park
  <2>6. Typed'
    <3>1. key' \in [Ids -> Nat] /\ nextKey' \in Nat \ {0}  BY <1>9, <2>1 DEF IInv, Typed
    <3> QED  BY <1>1, <1>2, <2>4, <2>5, <3>1 DEF IInv, Typed
  <2>7. \A k \in Places \X Ids : pending'[k] = IF k = Slot(t) THEN hand ELSE pending[k]
    BY <2>5 DEF IInv, Typed
  <2>8. Made'  BY <1>2, <1>3, <2>4, <2>5, <2>7 DEF IInv, Made
  <2>9. /\ \A j : ~HandAsks(j)'
        /\ \A k \in Places \X Ids : k # Slot(t) => \A j : EntryAsks(k, j)' <=> EntryAsks(k, j)
        /\ \A j : EntryAsks(Slot(t), j)' <=> HandAsks(j)
    <3>1. \A j : ~HandAsks(j)'  BY <2>5 DEF HandAsks
    <3>2. \A k \in Places \X Ids : k # Slot(t) => \A j : EntryAsks(k, j)' <=> EntryAsks(k, j)
      BY <2>7 DEF EntryAsks
    <3>3. pending'[Slot(t)] = hand /\ Slot(t)' = Slot(t)  BY <1>1, <1>7, <2>7 DEF Slot
    <3>4. \A j : EntryAsks(Slot(t), j)' <=> HandAsks(j)  BY <1>2, <3>3 DEF EntryAsks, HandAsks
    <3> QED  BY <3>1, <3>2, <3>4
  <2>9a. Slot(t)' = Slot(t)  BY <1>1 DEF Slot
  <2>10. Single'
    <3> SUFFICES ASSUME NEW j \in DOMAIN lookups, NEW k \in Places \X Ids, NEW m \in Places \X Ids,
                        EntryAsks(k, j)', EntryAsks(m, j)'
                 PROVE  m = k
      BY <2>4, <2>9 DEF Single
    <3>1. CASE k # Slot(t) /\ m # Slot(t)  BY <2>9, <3>1 DEF IInv, Single
    <3>2. CASE k = Slot(t) /\ m # Slot(t)
      <4>1. HandAsks(j) /\ EntryAsks(m, j)  BY <2>7, <2>9, <1>2, <3>2 DEF EntryAsks, HandAsks
      <4> QED  BY <4>1 DEF IInv, Single
    <3>3. CASE k # Slot(t) /\ m = Slot(t)
      <4>1. HandAsks(j) /\ EntryAsks(k, j)  BY <2>7, <2>9, <1>2, <3>3 DEF EntryAsks, HandAsks
      <4> QED  BY <4>1 DEF IInv, Single
    <3> QED  BY <3>1, <3>2, <3>3
  <2>11. Live'
    <3> SUFFICES ASSUME NEW j \in DOMAIN lookups, Asked(j)', ~lookups'[j].done PROVE Coming(j)'
      BY <2>4 DEF Live, Asked
    <3>1. Asked(j)
      <4>1. PICK k \in Places \X Ids : EntryAsks(k, j)'  BY <2>9 DEF Asked
      <4>2. CASE k = Slot(t)  BY <1>2, <2>7, <4>1, <4>2 DEF EntryAsks, HandAsks, Asked
      <4>3. CASE k # Slot(t)  BY <2>9, <4>1, <4>3 DEF Asked
      <4> QED  BY <4>2, <4>3
    <3>2. ~lookups[j].done  BY <1>9, <2>4
    <3>3. Coming(j)  BY <3>1, <3>2 DEF IInv, Live, Asked
    <3> QED  BY <2>4, <3>3
  <2>12. OthersStay(t)  BY <1>1, <1>7, <1>9, <2>5, <2>7 DEF OthersStay, IInv, Typed
  <2>13. pc'[t] = "lookup" /\ key'[t] = nextKey /\ pending'[Slot(t)'] = hand
    BY <1>7, <1>9, <2>5, <2>7, <2>9a DEF IInv, Typed
  <2>14. TaskOK(t)'  BY <1>1, <1>2, <2>5, <2>13, ConnectAssumption DEF TaskOK
  <2>15. Told(t)'
    <3>1. pending'[Slot(t)'].lookup = l /\ place' = place  BY <1>1, <2>13
    <3> HIDE DEF l
    <3>2. <<place', key'[t]>> \in lookups'[l].waiters /\ ~lookups'[l].done
      BY <2>2, <2>4, <2>13, <3>1
    <3> QED  BY <3>1, <3>2 DEF Told
  <2>16. \A u \in Ids : TaskOK(u)'  BY <1>1, <2>5, <2>12, <2>14, OthersOK
  <2>17. \A u \in Ids : Told(u)'  BY <1>1, <1>8, <2>4, <2>12, <2>15
  <2> QED  BY <2>4, <2>6, <2>8, <2>10, <2>11, <2>16, <2>17 DEF IInv
\* The result is taken: nobody asks for l any more.
<1>10. ASSUME lookups' = Taken(l), UNCHANGED <<key, nextKey, pending>>,
              hand' # None => hand' \in PendingConnect /\ hand'.lookup = 0
       PROVE  /\ lookups' \in Seq(Lookup) /\ jobs' \in Seq(DOMAIN lookups')
              /\ PoolOK' /\ Working /\ Made' /\ Single' /\ Live'
              /\ \A j \in DOMAIN lookups : j # l => lookups'[j] = lookups[j]
  <2> DEFINE new == [lookups[l] EXCEPT !.done = FALSE, !.result = 0]
  <2>1. new \in Lookup  BY <1>5 DEF Lookup
  <2>2. lookups' = [lookups EXCEPT ![l] = new]  BY <1>5, <1>10 DEF Taken
  <2> HIDE DEF new
  <2>3. /\ lookups' \in Seq(Lookup) /\ Len(lookups') = Len(lookups) /\ DOMAIN lookups' = DOMAIN lookups
        /\ lookups'[l] = new /\ \A j \in DOMAIN lookups : j # l => lookups'[j] = lookups[j]
        /\ jobs' \in Seq(DOMAIN lookups') /\ PoolOK' /\ Working
        /\ \A j : Coming(j) => Coming(j)'
    BY <1>1, <1>3, <2>1, <2>2, LookupChanged
  <2>4. Made'  BY <1>5, <1>10, <2>3 DEF IInv, Made
  <2>5. \A j \in DOMAIN lookups : ~HandAsks(j)'
    BY <1>5, <1>10 DEF HandAsks
  <2>6. \A j \in DOMAIN lookups : \A k \in Places \X Ids : EntryAsks(k, j)' <=> EntryAsks(k, j)
    BY <1>10 DEF EntryAsks
  <2>7. \A j \in DOMAIN lookups : Asked(j)' => j # l  BY <1>4, <2>5, <2>6 DEF Asked
  <2>8. Single' /\ Live'  BY <2>3, <2>5, <2>6, <2>7, AsksFrame DEF IInv
  <2> QED  BY <2>3, <2>4, <2>8
<1>11. ASSUME lookups[l].done, lookups[l].result > 0, lookups' = Taken(l),
              hand' = [hand EXCEPT !.lookup = 0, !.addrs = lookups[l].result],
              UNCHANGED <<key, nextKey, pending, pc, cur, args>>
       PROVE  IInv'
  <2>1. hand' \in PendingConnect /\ hand'.lookup = 0 /\ hand'.args = args[t]
    BY <1>2, <1>5, <1>11 DEF PendingConnect, Lookup
  <2>2. /\ lookups' \in Seq(Lookup) /\ jobs' \in Seq(DOMAIN lookups')
        /\ PoolOK' /\ Working /\ Made' /\ Single' /\ Live'
        /\ \A j \in DOMAIN lookups : j # l => lookups'[j] = lookups[j]
    BY <1>10, <1>11, <2>1
  <2>3. Typed'  BY <1>1, <1>11, <2>1, <2>2 DEF IInv, Typed
  <2>4. OthersStay(t)  BY <1>1, <1>11 DEF OthersStay
  <2>5. TaskOK(t)' /\ Told(t)'
    BY <1>1, <1>2, <1>11, <2>1, ConnectAssumption DEF TaskOK, Told
  <2>6. \A u \in Ids : TaskOK(u)'  BY <1>1, <1>11, <2>4, <2>5, OthersOK
  <2>7. \A u \in Ids : Told(u)'  BY <1>1, <1>8, <2>2, <2>4, <2>5
  <2> QED  BY <2>2, <2>3, <2>6, <2>7 DEF IInv
<1>12. ASSUME lookups' = Taken(l), Return(t), UNCHANGED <<key, nextKey, pending>>
       PROVE  IInv'
  <2>1. /\ pc' \in [Ids -> {"idle", "ready", "native", "lookup", "io"}]
        /\ args' \in [Ids -> Args \cup {None}] /\ cur' = None /\ hand' = None
        /\ pc'[t] = "idle"
        /\ \A u \in Ids \ {t} : pc'[u] = pc[u] /\ args'[u] = args[u]
    BY <1>12, ReturnTyped
  <2>2. /\ lookups' \in Seq(Lookup) /\ jobs' \in Seq(DOMAIN lookups')
        /\ PoolOK' /\ Working /\ Made' /\ Single' /\ Live'
        /\ \A j \in DOMAIN lookups : j # l => lookups'[j] = lookups[j]
    BY <1>10, <1>12, <2>1
  <2>3. Typed'  BY <1>1, <1>12, <2>1, <2>2 DEF IInv, Typed
  <2>4. OthersStay(t)  BY <1>1, <1>12, <2>1 DEF OthersStay
  <2>5. TaskOK(t)' /\ Told(t)'
    BY <1>1, <1>2, <1>12, <2>1, ConnectAssumption DEF TaskOK, Told
  <2>6. \A u \in Ids : TaskOK(u)'  BY <1>1, <2>1, <2>4, <2>5, OthersOK
  <2>7. \A u \in Ids : Told(u)'  BY <1>1, <1>8, <2>2, <2>4, <2>5
  <2> QED  BY <2>2, <2>3, <2>6, <2>7 DEF IInv
<1> QED  BY <1>9, <1>11, <1>12 DEF take_lookup

LEMMA connect_in_taskKept ==
  ASSUME IInv, NEW t \in Ids, connect_in_task(t)
  PROVE  IInv'
<1> DEFINE a == args[t]
           fresh == NewConnect(a)
<1>1. /\ cur = None /\ pc[t] = "ready" /\ pending' = [pending EXCEPT ![Slot(t)] = None]
      /\ UNCHANGED <<place, calls, key, nextKey, posted>>
  BY DEF connect_in_task, waits
<1>2. a \in Args /\ key[t] = 0  BY <1>1 DEF IInv, TaskOK
<1>3. fresh \in PendingConnect /\ fresh.lookup = 0 /\ fresh.args = a
  BY <1>2 DEF NewConnect, PendingConnect, NoDeadline
<1>4. \A u \in Ids : Slot(u) \in Places \X Ids /\ (u # t => Slot(u) # Slot(t))
  BY SlotType, SlotsDiffer DEF IInv
<1>5. /\ pending' \in [Places \X Ids -> PendingConnect \cup {None}]
      /\ \A k \in Places \X Ids : pending'[k] = IF k = Slot(t) THEN None ELSE pending[k]
  BY <1>1 DEF IInv, Typed
<1>6. Len(lookups) \in Nat /\ DOMAIN lookups = 1..Len(lookups)  BY LookupDomain DEF IInv
<1>7. \A k \in Places \X Ids : pending'[k] # None =>
         pending'[k].lookup = 0 \/ (pending[k] # None /\ pending'[k].lookup = pending[k].lookup)
  BY <1>5
<1> HIDE DEF fresh, a
<1>8. ASSUME NEW p \in PendingConnect, p.args = a, Enter(t, p)
      PROVE  /\ hand' = p /\ cur' = t /\ pc' \in [Ids -> {"idle", "ready", "native", "lookup", "io"}]
             /\ args' = args /\ OthersStay(t)
             /\ TaskOK(t)' /\ Told(t)'
  <2>1. hand' = p /\ cur' = t /\ pc' = [pc EXCEPT ![t] = "native"] /\ args' = args
    BY <1>8 DEF Enter
  <2>2. pc' \in [Ids -> {"idle", "ready", "native", "lookup", "io"}] /\ pc'[t] = "native"
        /\ \A u \in Ids \ {t} : pc'[u] = pc[u]
    BY <2>1 DEF IInv, Typed
  <2>3. OthersStay(t)  BY <1>1, <1>4, <1>5, <2>1, <2>2 DEF OthersStay
  <2>4. TaskOK(t)' /\ Told(t)'
    BY <1>1, <1>2, <1>8, <2>1, <2>2, ConnectAssumption DEF TaskOK, Told, a
  <2> QED  BY <2>1, <2>2, <2>3, <2>4
<1>9. CASE IsStarted(t) /\ Enter(t, pending[Slot(t)]) /\ UNCHANGED <<lookups, pool>>
  <2> DEFINE p == pending[Slot(t)]
  <2>1. p # None /\ p \in PendingConnect /\ p.args = a /\ p.lookup <= Len(lookups)
    BY <1>4, <1>9 DEF IInv, Typed, Made, IsStarted, a
  <2>2. UNCHANGED <<lookups, jobs, idle, thr>>  BY <1>9 DEF pool
  <2>3. /\ hand' = p /\ cur' = t /\ pc' \in [Ids -> {"idle", "ready", "native", "lookup", "io"}]
        /\ args' = args /\ OthersStay(t) /\ TaskOK(t)' /\ Told(t)'
    BY <1>8, <1>9, <2>1
  <2> HIDE DEF p
  <2>4. Typed'  BY <1>1, <1>5, <2>1, <2>2, <2>3 DEF IInv, Typed
  <2>5. PoolOK' /\ Working /\ \A l : Coming(l) => Coming(l)'  BY <2>2, NoPool
  <2>6. Made'  BY <1>5, <2>1, <2>2, <2>3 DEF IInv, Made
  <2>7. \A l : /\ HandAsks(l)' => EntryAsks(Slot(t), l)
               /\ \A k \in Places \X Ids : EntryAsks(k, l)' => EntryAsks(k, l) /\ k # Slot(t)
    BY <1>5, <2>1, <2>3 DEF HandAsks, EntryAsks, p
  <2>8. Single'
    <3> SUFFICES ASSUME NEW l \in DOMAIN lookups, NEW k \in Places \X Ids, EntryAsks(k, l)'
                 PROVE  ~HandAsks(l)' /\ \A j \in Places \X Ids : EntryAsks(j, l)' => j = k
      BY <2>2 DEF Single
    <3> QED  BY <1>4, <2>7 DEF IInv, Single
  <2>9. Live'
    <3> SUFFICES ASSUME NEW l \in DOMAIN lookups, Asked(l)', ~lookups[l].done PROVE Coming(l)'
      BY <2>2 DEF Live, Asked
    <3>1. Asked(l)  BY <1>4, <2>7 DEF Asked
    <3> QED  BY <2>5, <3>1 DEF IInv, Live, Asked
  <2>10. \A u \in Ids : TaskOK(u)'  BY <1>1, <2>3, OthersOK
  <2>11. \A u \in Ids : Told(u)'  BY <1>1, <2>2, <2>3, <2>5, OthersTold
  <2> QED  BY <2>4, <2>5, <2>6, <2>8, <2>9, <2>10, <2>11 DEF IInv
<1>10. CASE Enter(t, [fresh EXCEPT !.addrs = 1]) /\ UNCHANGED <<lookups, pool>>
  <2> DEFINE p == [fresh EXCEPT !.addrs = 1]
  <2>1. p \in PendingConnect /\ p.args = a /\ p.lookup = 0  BY <1>3 DEF PendingConnect
  <2>2. UNCHANGED <<lookups, jobs, idle, thr>>  BY <1>10 DEF pool
  <2>3. /\ hand' = p /\ cur' = t /\ pc' \in [Ids -> {"idle", "ready", "native", "lookup", "io"}]
        /\ args' = args /\ OthersStay(t) /\ TaskOK(t)' /\ Told(t)'
    BY <1>8, <1>10, <2>1
  <2> HIDE DEF p
  <2>4. Typed'  BY <1>1, <1>5, <2>1, <2>2, <2>3 DEF IInv, Typed
  <2>5. PoolOK' /\ Made' /\ Single' /\ Live'  BY <1>7, <2>1, <2>2, <2>3, AttemptsOnly
  <2>6. \A u \in Ids : TaskOK(u)'  BY <1>1, <2>3, OthersOK
  <2>7. \A u \in Ids : Told(u)'  BY <1>1, <2>2, <2>3, NoPool, OthersTold
  <2> QED  BY <2>4, <2>5, <2>6, <2>7 DEF IInv
<1>11. CASE Return(t) /\ UNCHANGED <<lookups, pool>>
  <2>1. /\ pc' \in [Ids -> {"idle", "ready", "native", "lookup", "io"}]
        /\ args' \in [Ids -> Args \cup {None}] /\ cur' = None /\ hand' = None
        /\ pc'[t] = "idle"
        /\ \A u \in Ids \ {t} : pc'[u] = pc[u] /\ args'[u] = args[u]
    BY <1>11, ReturnTyped
  <2>2. UNCHANGED <<lookups, jobs, idle, thr>>  BY <1>11 DEF pool
  <2>3. Typed'  BY <1>1, <1>5, <2>1, <2>2 DEF IInv, Typed
  <2>4. PoolOK' /\ Made' /\ Single' /\ Live'  BY <1>7, <2>1, <2>2, AttemptsOnly
  <2>5. OthersStay(t)  BY <1>1, <1>4, <1>5, <2>1 DEF OthersStay
  <2>6. TaskOK(t)' /\ Told(t)'
    BY <1>1, <1>2, <2>1, ConnectAssumption DEF TaskOK, Told
  <2>7. \A u \in Ids : TaskOK(u)'  BY <1>1, <2>1, <2>5, <2>6, OthersOK
  <2>8. \A u \in Ids : Told(u)'  BY <1>1, <2>2, <2>5, <2>6, NoPool, OthersTold
  <2> QED  BY <2>3, <2>4, <2>7, <2>8 DEF IInv
<1>12. ASSUME NEW CONSTANT n, n = Len(lookups) + 1, resolve_on_pool(n),
              lookups' = Append(lookups, [done |-> FALSE, result |-> 0, waiters |-> {}]),
              Enter(t, [fresh EXCEPT !.lookup = n])
       PROVE  IInv'
  <2> DEFINE p == [fresh EXCEPT !.lookup = n]
             new == [done |-> FALSE, result |-> 0, waiters |-> {}]
  <2>1. n \in Nat /\ n \notin DOMAIN lookups  BY <1>6, <1>12
  <2>2. p \in PendingConnect /\ p.args = a /\ p.lookup = n  BY <1>3, <2>1 DEF PendingConnect
  <2>3. new \in Lookup  BY DEF Lookup
  <2>4. /\ lookups' \in Seq(Lookup) /\ Len(lookups') = n /\ DOMAIN lookups' = 1..n
        /\ \A l \in DOMAIN lookups : lookups'[l] = lookups[l]
    <3> HIDE DEF new
    <3>1. /\ lookups' \in Seq(Lookup) /\ Len(lookups') = n
          /\ \A l \in 1..Len(lookups) : lookups'[l] = lookups[l]
      BY <1>12, <2>3, AppendProperties DEF IInv, Typed, new
    <3> QED  BY <1>6, <3>1, LenProperties
  <2>5. /\ jobs' \in Seq(DOMAIN lookups') /\ thr' \in [Resolvers -> [at : Steps, job : Nat]]
        /\ PoolOK' /\ Working /\ StillComing /\ Coming(n)'
    BY <1>12, <2>1, <2>4, Queued DEF IInv
  <2>6. /\ hand' = p /\ cur' = t /\ pc' \in [Ids -> {"idle", "ready", "native", "lookup", "io"}]
        /\ args' = args /\ OthersStay(t) /\ TaskOK(t)' /\ Told(t)'
    BY <1>8, <1>12, <2>2
  <2> HIDE DEF p, new
  <2>7. Typed'  BY <1>1, <1>5, <2>2, <2>4, <2>5, <2>6 DEF IInv, Typed
  <2>8. \A k \in Places \X Ids : pending'[k] # None =>
          pending[k] # None /\ pending'[k] = pending[k] /\ pending[k].lookup \in 0..Len(lookups)
    <3>1. \A k \in Places \X Ids : pending[k] # None => pending[k].lookup \in Nat
      BY DEF IInv, Typed, PendingConnect
    <3> QED  BY <1>5, <1>6, <3>1 DEF IInv, Made
  <2>9. Made'
    <3>1. hand'.lookup <= Len(lookups')  BY <2>1, <2>2, <2>4, <2>6
    <3>2. \A k \in Places \X Ids : pending'[k] # None => pending'[k].lookup <= Len(lookups')
      BY <1>6, <1>12, <2>4, <2>8
    <3> QED  BY <3>1, <3>2 DEF Made
  <2>10. \A l : /\ HandAsks(l)' => l = n
                /\ \A k \in Places \X Ids : EntryAsks(k, l)' => EntryAsks(k, l) /\ l # n
    <3>1. \A l : HandAsks(l)' => l = n  BY <2>2, <2>6 DEF HandAsks
    <3>2. \A l : \A k \in Places \X Ids : EntryAsks(k, l)' => EntryAsks(k, l) /\ l \in 0..Len(lookups)
      BY <2>8 DEF EntryAsks
    <3>3. n \notin 0..Len(lookups)  BY <1>6, <1>12
    <3> QED  BY <3>1, <3>2, <3>3
  <2>11. \A l \in DOMAIN lookups' : l # n => l \in DOMAIN lookups /\ l \in Nat
    BY <1>6, <1>12, <2>4
  <2>12. Single'
    <3> SUFFICES ASSUME NEW l \in DOMAIN lookups', NEW k \in Places \X Ids, EntryAsks(k, l)'
                 PROVE  ~HandAsks(l)' /\ \A j \in Places \X Ids : EntryAsks(j, l)' => j = k
      BY DEF Single
    <3> QED  BY <2>10, <2>11 DEF IInv, Single
  <2>13. Live'
    <3> SUFFICES ASSUME NEW l \in DOMAIN lookups', Asked(l)', ~lookups'[l].done PROVE Coming(l)'
      BY DEF Live, Asked
    <3>1. CASE l = n  BY <2>5, <3>1
    <3>2. CASE l # n
      <4>1. l \in DOMAIN lookups /\ l \in Nat /\ ~lookups[l].done  BY <2>4, <2>11, <3>2
      <4>2. Asked(l)  BY <2>10, <3>2 DEF Asked
      <4>3. Coming(l)  BY <4>1, <4>2 DEF IInv, Live, Asked
      <4> QED  BY <2>5, <4>1, <4>3 DEF StillComing
    <3> QED  BY <3>1, <3>2
  <2>14. \A u \in Ids : TaskOK(u)'  BY <1>1, <2>6, OthersOK
  <2>15. \A u \in Ids : Told(u)'  BY <1>1, <2>4, <2>5, <2>6, OthersTold
  <2> QED  BY <2>5, <2>7, <2>9, <2>12, <2>13, <2>14, <2>15 DEF IInv
<1>13. CASE /\ resolve_on_pool(Len(lookups) + 1)
            /\ lookups' = Append(lookups, [done |-> FALSE, result |-> 0, waiters |-> {}])
            /\ Enter(t, [fresh EXCEPT !.lookup = Len(lookups) + 1])
  BY <1>12, <1>13
<1> QED  BY <1>9, <1>10, <1>11, <1>13 DEF connect_in_task, a, fresh

-----------------------------------------------------------------------------
LEMMA Start == Init => IInv
<1> SUFFICES ASSUME Init PROVE IInv  OBVIOUS
<1>1. lookups = <<>> /\ jobs = <<>> /\ Len(lookups) = 0 /\ DOMAIN lookups = {}
      /\ lookups \in Seq(Lookup) /\ jobs \in Seq(DOMAIN lookups)
  BY EmptySeq DEF Init
<1>2. Typed  BY <1>1 DEF Init, Typed, Steps
<1>3. PoolOK
  <2>1. Sleeping = {}  BY DEF Init, Sleeping
  <2> QED  BY <1>1, <2>1, FS_EmptySet DEF Init, PoolOK
<1>4. Made /\ Single /\ Live
  BY <1>1 DEF Init, Made, Single, Live
<1>5. \A t \in Ids : TaskOK(t) /\ Told(t)
  BY ConnectAssumption DEF Init, TaskOK, Told
<1> QED  BY <1>2, <1>3, <1>4, <1>5 DEF IInv

LEMMA StepKept == IInv /\ [Next]_vars => IInv'
<1> SUFFICES ASSUME IInv, [Next]_vars PROVE IInv'  OBVIOUS
<1>1. ASSUME NEW t \in Ids, Native(t) PROVE IInv'
  BY <1>1, connect_in_taskKept, take_lookupKept, connect_loopKept DEF Native
<1>2. ASSUME NEW t \in Ids, WakeIo(t) \/ Cancel(t) \/ \E a \in Args : Call(t, a) PROVE IInv'
  BY <1>2, ParkedKept
<1>3. CASE take_posted \/ NewScheduler \/ Tick
  BY <1>3, take_postedKept, NewSchedulerKept, TickKept
<1>4. ASSUME NEW r \in Resolvers, resolver_loop(r) \/ SpuriousWakeup(r) PROVE IInv'
  BY <1>4, resolver_loopKept, SpuriousWakeupKept
<1>5. ASSUME NEW r \in Resolvers, Resolve(r) PROVE IInv'
  BY <1>5, StoreKept, wake_allKept DEF Resolve
<1>6. ASSUME NEW k \in DOMAIN pending, SocketEnds(k) PROVE IInv'
  <2>1. k \in Places \X Ids  BY DEF IInv, Typed
  <2> QED  BY <1>6, <2>1, SocketEndsKept
<1>7. CASE UNCHANGED vars
  <2>1. UNCHANGED <<place, args, calls, pc, key, nextKey, posted, pending, cur, hand, lookups, jobs, idle, thr>>
    BY <1>7 DEF vars, program, waits, pool
  <2>2. Typed'  BY <2>1 DEF IInv, Typed
  <2>3. \A t \in Ids : TaskOK(t)'  BY <2>1 DEF IInv, TaskOK, Slot
  <2> QED  BY <2>1, <2>2, <2>3, ParkedOnly
<1> QED  BY <1>1, <1>2, <1>3, <1>4, <1>5, <1>6, <1>7 DEF Next

LEMMA Invariant == Spec => []IInv
  BY Start, StepKept, PTL DEF Spec

\* resolve_on_pool starts a thread, or wakes one, for each lookup it queues:
\* whatever the threads do and however often a start fails, a queued lookup
\* has a thread that is not going to sleep before it has looked at the queue.
THEOREM NoStrandedJobTheorem == Spec => []NoStrandedJob
<1>1. IInv => NoStrandedJob
  <2> SUFFICES ASSUME IInv PROVE NoStrandedJob  OBVIOUS
  <2>1. Sleeping = InState("waiting") \cup InState("woken")  BY DEF Sleeping, InState
  <2>2. \A k \in Places \X Ids : pending[k] = None \/ Connecting(pending[k])
    BY DEF IInv, Typed, Made, Connecting
  <2>3. hand = None \/ Connecting(hand)  BY DEF IInv, Typed, Made, Connecting
  <2>4. TypeOK  BY <2>1, <2>2, <2>3 DEF IInv, Typed, PoolOK, TaskOK, TypeOK
  <2>5. jobs # <<>> => \E r \in Started : thr[r].at # "waiting"
    BY DEF IInv, PoolOK, Started, InState
  <2> QED  BY <2>4, <2>5 DEF NoStrandedJob
<1> QED  BY <1>1, Invariant, PTL

\* park_unless and wake_all: a task that waits for a lookup is in its list or
\* its key is posted, the lookup is queued or at work, and one that has a
\* result is about to be woken, for every number of tasks and resolvers and
\* whatever was cancelled before.
THEOREM NoLostLookupTheorem == Spec => []NoLostLookup
<1>1. IInv => NoLostLookup
  <2> SUFFICES ASSUME IInv, NEW t \in Ids, pc[t] = "lookup", key[t] \notin posted
               PROVE  LET l == pending[Slot(t)].lookup
                      IN /\ <<place, key[t]>> \in lookups[l].waiters
                         /\ \/ \E r \in Resolvers : thr[r].job = l /\ thr[r].at \in {"busy", "wake"}
                            \/ \E i \in DOMAIN jobs : jobs[i] = l
                         /\ lookups[l].done => \E r \in Resolvers : thr[r] = [at |-> "wake", job |-> l]
    BY DEF NoLostLookup
  <2> DEFINE l == pending[Slot(t)].lookup
  <2>1. l \in DOMAIN lookups /\ Slot(t) \in Places \X Ids  BY WaitsForMade, SlotType DEF IInv
  <2>2. /\ <<place, key[t]>> \in lookups[l].waiters
        /\ lookups[l].done => \E r \in Resolvers : thr[r].at = "wake" /\ thr[r].job = l
    BY DEF IInv, Told
  <2>3. ~lookups[l].done => Coming(l)
    BY <2>1 DEF IInv, Live, EntryAsks, TaskOK
  <2>4. \A r \in Resolvers : thr[r].at = "wake" /\ thr[r].job = l => thr[r] = [at |-> "wake", job |-> l]
    BY DEF IInv, Typed
  <2> QED  BY <2>2, <2>3, <2>4 DEF Coming
<1> QED  BY <1>1, Invariant, PTL

\* The table is keyed by a waker's address and an id, which both come again:
\* still a connect only ends with an attempt made for its own arguments.
THEOREM RightPeerTheorem == Spec => RightPeer
<1>1. IInv /\ [Next]_vars => [\A t \in Ids : pc[t] = "native" /\ pc'[t] = "idle" => hand.args = args[t]]_vars
  BY DEF IInv, TaskOK
<1> QED  BY <1>1, Invariant, PTL DEF RightPeer, Spec
=============================================================================
