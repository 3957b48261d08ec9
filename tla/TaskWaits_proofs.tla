------------------------- MODULE TaskWaits_proofs --------------------------
(***************************************************************************)
(* Proofs about TaskWaits, for every number of tasks, timers and tokens    *)
(* and every length of the run: the wait tables and the tasks agree, and   *)
(* no timer ends a wait before its deadline.                               *)
(***************************************************************************)
EXTENDS TaskWaits, FiniteSetTheorems, SequenceTheorems, TLAPS

IoOn == {"io", "ioRetry"}
NoDup(q) == \A i, j \in DOMAIN q : q[i] = q[j] => i = j
Elems(q) == {q[i] : i \in DOMAIN q}

\* The run queue holds a task at most once, and only tasks that may run.
Queue == NoDup(runQueue) /\ \A t \in Elems(runQueue) : state[t] \in {"new", "ready"}

\* Where the VM thread is.
Control ==
    /\ at = "user" => current \in Tasks /\ state[current] = "running"
    /\ at # "polled" => polled = {}
    /\ asOf <= now

\* The IO tables.
InIo(t, k) == state[t] = "blocked" /\ block[t].on \in IoOn /\ block[t].id = k
Io ==
    /\ \A k \in Token, t \in Tasks : ioWaits[k] = t <=> InIo(t, k)
    /\ \A k \in Token : k \in registered \cup polled <=> ioWaits[k] # NoTask
    /\ registered \cap polled = {}
    /\ \A k \in Token : k >= nextToken => ioWaits[k] = NoTask
    /\ \A t \in Tasks : state[t] = "blocked" /\ block[t].on \in IoOn => block[t].id \in Token

\* The timers.
HasTimer(t) == \E e \in timers : e.task = t /\ e.seq = timerSeq[t]
Timed ==
    /\ \A t \in Tasks : timerSeq[t] # 0 =>
         state[t] = "blocked" /\ block[t].on \in {"sleep", "io", "ioRetry"} /\ HasTimer(t)
    /\ \A t \in Tasks : state[t] = "blocked" /\ block[t].on = "sleep" => timerSeq[t] # 0

\* The inductive invariant.
IInv == TypeOK /\ Queue /\ Control /\ Io /\ Timed

-----------------------------------------------------------------------------
(***************************************************************************)
(* The queue: a task appended, put in front, taken off and dropped.        *)
(***************************************************************************)
LEMMA AppendQueue ==
  ASSUME NEW q \in Seq(Tasks), NEW t \in Tasks, NoDup(q), t \notin Elems(q)
  PROVE  /\ Append(q, t) \in Seq(Tasks) /\ NoDup(Append(q, t))
         /\ Elems(Append(q, t)) \subseteq Elems(q) \cup {t}
<1> DEFINE n == Len(q)
           p == Append(q, t)
<1>1. n \in Nat /\ DOMAIN q = 1..n  BY LenProperties
<1>2. /\ p \in Seq(Tasks) /\ Len(p) = n + 1
      /\ \A i \in 1..n : p[i] = q[i]
      /\ p[n + 1] = t
  BY AppendProperties
<1>3. DOMAIN p = 1..(n + 1)  BY <1>2, LenProperties
<1> HIDE DEF n, p
<1>4. \A i \in DOMAIN p : i = n + 1 \/ i \in DOMAIN q  BY <1>1, <1>3
<1>5. NoDup(p)
  <2> SUFFICES ASSUME NEW i \in DOMAIN p, NEW j \in DOMAIN p, p[i] = p[j] PROVE i = j
    BY DEF NoDup
  <2>1. \A k \in DOMAIN q : q[k] # t  BY DEF Elems
  <2> QED  BY <1>1, <1>2, <1>4, <2>1 DEF NoDup
<1>6. Elems(p) \subseteq Elems(q) \cup {t}  BY <1>1, <1>2, <1>4 DEF Elems
<1> QED  BY <1>2, <1>5, <1>6 DEF p

LEMMA FrontQueue ==
  ASSUME NEW q \in Seq(Tasks), NEW t \in Tasks, NoDup(q), t \notin Elems(q)
  PROVE  /\ <<t>> \o q \in Seq(Tasks) /\ NoDup(<<t>> \o q)
         /\ Elems(<<t>> \o q) \subseteq Elems(q) \cup {t}
<1> DEFINE n == Len(q)
           p == <<t>> \o q
<1>1. n \in Nat /\ DOMAIN q = 1..n  BY LenProperties
<1>2. <<t>> \in Seq(Tasks) /\ Len(<<t>>) = 1 /\ <<t>>[1] = t  OBVIOUS
<1>3. /\ p \in Seq(Tasks) /\ Len(p) = 1 + n
      /\ \A i \in 1..(1 + n) : p[i] = IF i <= 1 THEN <<t>>[i] ELSE q[i - 1]
  BY <1>2, ConcatProperties
<1>4. DOMAIN p = 1..(1 + n)  BY <1>3, LenProperties
<1> HIDE DEF n, p
<1>5. \A i \in DOMAIN p : (i = 1 /\ p[i] = t) \/ (i - 1 \in DOMAIN q /\ p[i] = q[i - 1])
  BY <1>1, <1>2, <1>3, <1>4
<1>6. NoDup(p)
  <2> SUFFICES ASSUME NEW i \in DOMAIN p, NEW j \in DOMAIN p, p[i] = p[j] PROVE i = j
    BY DEF NoDup
  <2>1. \A k \in DOMAIN q : q[k] # t  BY DEF Elems
  <2>2. i \in Int /\ j \in Int  BY <1>1, <1>4
  <2>3. CASE i = 1 /\ p[i] = t  BY <1>5, <2>1, <2>3
  <2>4. CASE i - 1 \in DOMAIN q /\ p[i] = q[i - 1]
    <3>1. j - 1 \in DOMAIN q /\ p[j] = q[j - 1]  BY <1>5, <2>1, <2>4
    <3>2. i - 1 = j - 1  BY <2>4, <3>1 DEF NoDup
    <3> QED  BY <2>2, <3>2
  <2> QED  BY <1>5, <2>3, <2>4
<1>7. Elems(p) \subseteq Elems(q) \cup {t}  BY <1>5 DEF Elems
<1> QED  BY <1>3, <1>6, <1>7 DEF p

LEMMA TailQueue ==
  ASSUME NEW q \in Seq(Tasks), NoDup(q), q # <<>>
  PROVE  /\ Head(q) \in Tasks /\ Head(q) \in Elems(q)
         /\ Tail(q) \in Seq(Tasks) /\ NoDup(Tail(q))
         /\ Elems(Tail(q)) \subseteq Elems(q) \ {Head(q)}
<1> DEFINE n == Len(q)
           p == Tail(q)
<1>1. n \in Nat \ {0} /\ DOMAIN q = 1..n  BY LenProperties, EmptySeq
<1>2. /\ p \in Seq(Tasks) /\ Len(p) = n - 1 /\ Head(q) \in Tasks /\ Head(q) = q[1]
      /\ \A i \in 1..(n - 1) : p[i] = q[i + 1]
  BY <1>1, HeadTailProperties
<1>3. DOMAIN p = 1..(n - 1)  BY <1>2, LenProperties
<1> HIDE DEF n, p
<1>4. \A i \in DOMAIN p : i + 1 \in DOMAIN q /\ i + 1 # 1 /\ p[i] = q[i + 1]  BY <1>1, <1>2, <1>3
<1>5. 1 \in DOMAIN q  BY <1>1
<1>6. NoDup(p)
  <2> SUFFICES ASSUME NEW i \in DOMAIN p, NEW j \in DOMAIN p, p[i] = p[j] PROVE i = j
    BY DEF NoDup
  <2>1. i + 1 = j + 1  BY <1>4 DEF NoDup
  <2>2. i \in Int /\ j \in Int  BY <1>1, <1>3
  <2> QED  BY <2>1, <2>2
<1>7. Elems(p) \subseteq Elems(q) \ {q[1]}  BY <1>4, <1>5 DEF Elems, NoDup
<1>8. q[1] \in Elems(q)  BY <1>5 DEF Elems
<1> QED  BY <1>2, <1>6, <1>7, <1>8 DEF p

LEMMA WithoutQueue ==
  ASSUME NEW q \in Seq(Tasks), NEW t \in Tasks, NoDup(q)
  PROVE  /\ Without(q, t) \in Seq(Tasks) /\ NoDup(Without(q, t))
         /\ Elems(Without(q, t)) \subseteq Elems(q) \ {t}
<1>1. CASE Positions(q, t) = {}
  <2>1. Without(q, t) = q  BY <1>1 DEF Without
  <2>2. t \notin Elems(q)  BY <1>1 DEF Positions, Elems
  <2> QED  BY <2>1, <2>2
<1>2. CASE Positions(q, t) # {}
  <2> DEFINE k == CHOOSE i \in Positions(q, t) : TRUE
             n == Len(q)
             x == SubSeq(q, 1, k - 1)
             y == SubSeq(q, k + 1, n)
             p == x \o y
  <2>1. k \in DOMAIN q /\ q[k] = t  BY <1>2 DEF Positions
  <2>2. n \in Nat /\ DOMAIN q = 1..n /\ \A i \in 1..n : q[i] \in Tasks  BY LenProperties, ElementOfSeq
  <2>3. Without(q, t) = p  BY <1>2 DEF Without
  <2> HIDE DEF k, n
  <2>4. k \in 1..n /\ k \in Int /\ n \in Int  BY <2>1, <2>2
  <2>5. x \in Seq(Tasks) /\ Len(x) = k - 1 /\ \A i \in 1..(k - 1) : x[i] = q[i]
    <3>1. \A i \in 1..(k - 1) : q[i] \in Tasks  BY <2>2, <2>4
    <3>2. /\ x \in Seq(Tasks) /\ Len(x) = IF 1 <= k - 1 THEN (k - 1) - 1 + 1 ELSE 0
          /\ \A i \in 1..((k - 1) - 1 + 1) : x[i] = q[1 + i - 1]
      BY <2>4, <3>1, SubSeqProperties
    <3>3. \A i \in 1..(k - 1) : i \in 1..((k - 1) - 1 + 1) /\ 1 + i - 1 = i  BY <2>4
    <3>4. (IF 1 <= k - 1 THEN (k - 1) - 1 + 1 ELSE 0) = k - 1  BY <2>4
    <3> HIDE DEF x
    <3> QED  BY <3>2, <3>3, <3>4
  <2>6. y \in Seq(Tasks) /\ Len(y) = n - k /\ \A i \in 1..(n - k) : y[i] = q[k + i]
    <3>1. \A i \in (k + 1)..n : q[i] \in Tasks  BY <2>2, <2>4
    <3>2. /\ y \in Seq(Tasks) /\ Len(y) = IF k + 1 <= n THEN n - (k + 1) + 1 ELSE 0
          /\ \A i \in 1..(n - (k + 1) + 1) : y[i] = q[(k + 1) + i - 1]
      BY <2>4, <3>1, SubSeqProperties
    <3>3. \A i \in 1..(n - k) : i \in 1..(n - (k + 1) + 1) /\ (k + 1) + i - 1 = k + i  BY <2>4
    <3>4. (IF k + 1 <= n THEN n - (k + 1) + 1 ELSE 0) = n - k  BY <2>4
    <3> HIDE DEF y
    <3> QED  BY <3>2, <3>3, <3>4
  <2> HIDE DEF x, y
  <2>7. /\ p \in Seq(Tasks) /\ Len(p) = Len(x) + Len(y)
        /\ \A i \in 1..(Len(x) + Len(y)) : p[i] = IF i <= Len(x) THEN x[i] ELSE y[i - Len(x)]
    BY <2>5, <2>6, ConcatProperties
  <2>8. DOMAIN p = 1..Len(p)  BY <2>7, LenProperties
  <2> HIDE DEF p
  <2> DEFINE Old(i) == IF i < k THEN i ELSE i + 1
  <2>9. \A i \in DOMAIN p : i \in Int /\ Old(i) \in DOMAIN q /\ Old(i) # k /\ p[i] = q[Old(i)]
    <3> SUFFICES ASSUME NEW i \in DOMAIN p
                 PROVE  i \in Int /\ Old(i) \in DOMAIN q /\ Old(i) # k /\ p[i] = q[Old(i)]
      OBVIOUS
    <3>1. i \in 1..((k - 1) + (n - k))  BY <2>5, <2>6, <2>7, <2>8
    <3>2. p[i] = IF i <= k - 1 THEN x[i] ELSE y[i - (k - 1)]  BY <2>5, <2>6, <2>7, <3>1
    <3>3. CASE i < k
      <4>1. i <= k - 1 /\ i \in 1..(k - 1) /\ i \in 1..n  BY <2>4, <3>1, <3>3
      <4>2. p[i] = q[i]  BY <2>5, <3>2, <4>1
      <4> QED  BY <2>2, <2>4, <3>1, <3>3, <4>1, <4>2
    <3>4. CASE ~(i < k)
      <4>1. ~(i <= k - 1) /\ i - (k - 1) \in 1..(n - k) /\ i + 1 \in 1..n /\ k + (i - (k - 1)) = i + 1
        BY <2>4, <3>1, <3>4
      <4>2. p[i] = q[i + 1]  BY <2>6, <3>2, <4>1
      <4> QED  BY <2>2, <2>4, <3>1, <3>4, <4>1, <4>2
    <3> QED  BY <3>3, <3>4
  <2>10. NoDup(p)
    <3> SUFFICES ASSUME NEW i \in DOMAIN p, NEW j \in DOMAIN p, p[i] = p[j] PROVE i = j
      BY DEF NoDup
    <3>1. Old(i) = Old(j)  BY <2>9 DEF NoDup
    <3>2. i \in Int /\ j \in Int  BY <2>9
    <3> QED  BY <2>4, <3>1, <3>2
  <2>11. Elems(p) \subseteq Elems(q) \ {t}
    <3> HIDE DEF Old
    <3> QED  BY <2>1, <2>9 DEF Elems, NoDup
  <2> QED  BY <2>3, <2>7, <2>10, <2>11
<1> QED  BY <1>1, <1>2

-----------------------------------------------------------------------------
(***************************************************************************)
(* What the steps have in common.                                          *)
(***************************************************************************)
WakeName == {"none", "unit", "retry", "ready", "slept", "timedOut"}

\* No wait begins or ends, and no running timer goes.
LEMMA SameWaits ==
  ASSUME TypeOK, Io, Timed,
         \A t \in Tasks : state'[t] = "blocked" \/ state[t] = "blocked" =>
           state'[t] = state[t] /\ block'[t] = block[t] /\ timerSeq'[t] = timerSeq[t],
         \A t \in Tasks : timerSeq'[t] # 0 => timerSeq'[t] = timerSeq[t],
         UNCHANGED <<ioWaits, registered, polled, nextToken>>,
         \A e \in timers : Live(e) => e \in timers'
  PROVE  Io' /\ Timed'
<1>1. \A t \in Tasks, k \in Token : InIo(t, k)' <=> InIo(t, k)  BY DEF InIo
<1>2. Io'  BY <1>1 DEF Io
<1>3. \A t \in Tasks : timerSeq'[t] # 0 => state'[t] = "blocked" /\ block'[t].on \in {"sleep", "io", "ioRetry"} /\ HasTimer(t)'
  <2> SUFFICES ASSUME NEW t \in Tasks, timerSeq'[t] # 0
               PROVE  state'[t] = "blocked" /\ block'[t].on \in {"sleep", "io", "ioRetry"} /\ HasTimer(t)'
    OBVIOUS
  <2>1. timerSeq'[t] = timerSeq[t] /\ timerSeq[t] # 0  OBVIOUS
  <2>2. state[t] = "blocked" /\ block[t].on \in {"sleep", "io", "ioRetry"} /\ HasTimer(t)  BY <2>1 DEF Timed
  <2>3. PICK e \in timers : e.task = t /\ e.seq = timerSeq[t]  BY <2>2 DEF HasTimer
  <2>4. e \in timers'  BY <2>3 DEF Live
  <2>5. HasTimer(t)'  BY <2>1, <2>3, <2>4 DEF HasTimer
  <2> QED  BY <2>2, <2>5
<1>4. Timed'  BY <1>3 DEF Timed
<1> QED  BY <1>2, <1>4

\* A blocked task leaves its wait and is queued.
LEMMA Readies ==
  ASSUME IInv, NEW t \in Tasks, state[t] = "blocked", NEW w \in WakeName, Ready(t, w),
         runQueue' = Append(runQueue, t)
  PROVE  /\ state' \in [Tasks -> {"new", "ready", "running", "blocked", "ended"}]
         /\ block' \in [Tasks -> [on: BlockOn, id: Nat]]
         /\ wake' \in [Tasks -> WakeName] /\ wake'[t] = w
         /\ timerSeq' \in [Tasks -> TimerSeq \cup {0}]
         /\ runQueue' \in Seq(Tasks) /\ Queue'
         /\ state'[t] = "ready" /\ timerSeq'[t] = 0
         /\ \A u \in Tasks \ {t} : /\ state'[u] = state[u] /\ block'[u] = block[u]
                                   /\ timerSeq'[u] = timerSeq[u] /\ wake'[u] = wake[u]
<1>1. /\ state \in [Tasks -> {"new", "ready", "running", "blocked", "ended"}]
      /\ block \in [Tasks -> [on: BlockOn, id: Nat]] /\ wake \in [Tasks -> WakeName]
      /\ timerSeq \in [Tasks -> TimerSeq \cup {0}] /\ runQueue \in Seq(Tasks)
  BY DEF IInv, TypeOK, WakeName
<1>2. NoBlock \in [on: BlockOn, id: Nat]  BY DEF NoBlock, WaitOn, BlockOn
<1>3. NoDup(runQueue) /\ t \notin Elems(runQueue)  BY DEF IInv, Queue
<1>4. /\ Append(runQueue, t) \in Seq(Tasks) /\ NoDup(Append(runQueue, t))
      /\ Elems(Append(runQueue, t)) \subseteq Elems(runQueue) \cup {t}
  BY <1>1, <1>3, AppendQueue
<1>5. /\ state' = [state EXCEPT ![t] = "ready"] /\ block' = [block EXCEPT ![t] = NoBlock]
      /\ timerSeq' = [timerSeq EXCEPT ![t] = 0] /\ wake' = [wake EXCEPT ![t] = w]
  BY DEF Ready
<1>6. state' \in [Tasks -> {"new", "ready", "running", "blocked", "ended"}] /\ state'[t] = "ready"
      /\ \A u \in Tasks \ {t} : state'[u] = state[u]
  BY <1>1, <1>5
<1>7. block' \in [Tasks -> [on: BlockOn, id: Nat]] /\ \A u \in Tasks \ {t} : block'[u] = block[u]
  BY <1>1, <1>2, <1>5
<1>8. timerSeq' \in [Tasks -> TimerSeq \cup {0}] /\ timerSeq'[t] = 0
      /\ \A u \in Tasks \ {t} : timerSeq'[u] = timerSeq[u]
  BY <1>1, <1>5
<1>9. wake' \in [Tasks -> WakeName] /\ wake'[t] = w /\ \A u \in Tasks \ {t} : wake'[u] = wake[u]
  BY <1>1, <1>5
<1>10. Queue'
  <2>1. \A u \in Elems(runQueue) : u \in Tasks  BY <1>1, ElementOfSeq, LenProperties DEF Elems
  <2>2. \A u \in Elems(runQueue) \cup {t} : state'[u] \in {"new", "ready"}
    BY <1>6, <2>1 DEF IInv, Queue
  <2>3. NoDup(runQueue') /\ Elems(runQueue') \subseteq Elems(runQueue) \cup {t}  BY <1>4
  <2> QED  BY <2>2, <2>3 DEF Queue
<1> QED  BY <1>4, <1>6, <1>7, <1>8, <1>9, <1>10

\* The timers of the tasks that still wait stay when one task is readied.
LEMMA ReadiedTimers ==
  ASSUME TypeOK, Timed, NEW t \in Tasks, state'[t] = "ready", timerSeq'[t] = 0,
         \A u \in Tasks \ {t} : state'[u] = state[u] /\ block'[u] = block[u] /\ timerSeq'[u] = timerSeq[u],
         \A e \in timers : e.task # t => e \in timers'
  PROVE  Timed'
<1> SUFFICES ASSUME NEW u \in Tasks
             PROVE  /\ timerSeq'[u] # 0 => state'[u] = "blocked" /\ block'[u].on \in {"sleep", "io", "ioRetry"} /\ HasTimer(u)'
                    /\ state'[u] = "blocked" /\ block'[u].on = "sleep" => timerSeq'[u] # 0
  BY DEF Timed
<1>1. CASE u = t  BY <1>1
<1>2. CASE u # t
  <2>1. state'[u] = state[u] /\ block'[u] = block[u] /\ timerSeq'[u] = timerSeq[u]  BY <1>2
  <2>2. HasTimer(u) => HasTimer(u)'
    <3> SUFFICES ASSUME NEW e \in timers, e.task = u, e.seq = timerSeq[u] PROVE HasTimer(u)'
      BY DEF HasTimer
    <3>1. e \in timers'  BY <1>2
    <3> QED  BY <2>1, <3>1 DEF HasTimer
  <2> QED  BY <2>1, <2>2 DEF Timed
<1> QED  BY <1>1, <1>2

\* drop_wait takes exactly the entries of the wait that ends.
LEMMA DropsIo ==
  ASSUME TypeOK, Io, polled = {}, polled' = {}, nextToken' = nextToken,
         NEW t \in Tasks, state[t] = "blocked", state'[t] = "ready", DropIo(block[t]),
         \A u \in Tasks \ {t} : state'[u] = state[u] /\ block'[u] = block[u]
  PROVE  Io' /\ ioWaits' \in [Token -> Tasks \cup {NoTask}] /\ registered' \subseteq Token
<1> DEFINE b == block[t]
<1>0. NoTask \notin Tasks  BY WaitsAssumption
<1>1. ioWaits \in [Token -> Tasks \cup {NoTask}] /\ registered \subseteq Token  BY DEF TypeOK
<1>2. CASE b.on \in IoOn
  <2>1. b.id \in Token  BY <1>2 DEF Io
  <2>2. ioWaits' = [ioWaits EXCEPT ![b.id] = NoTask] /\ registered' = registered \ {b.id}
    BY <1>2 DEF DropIo, IoOn
  <2>3. /\ ioWaits' \in [Token -> Tasks \cup {NoTask}] /\ registered' \subseteq Token
        /\ ioWaits'[b.id] = NoTask /\ \A k \in Token \ {b.id} : ioWaits'[k] = ioWaits[k]
    BY <1>1, <2>1, <2>2
  <2>4. ioWaits[b.id] = t  BY <1>2, <2>1 DEF Io, InIo
  <2>5. \A k \in Token, u \in Tasks : ioWaits'[k] = u <=> InIo(u, k)'
    <3> SUFFICES ASSUME NEW k \in Token, NEW u \in Tasks PROVE ioWaits'[k] = u <=> InIo(u, k)'
      OBVIOUS
    <3>1. u = t => ~InIo(u, k)'  BY DEF InIo
    <3>2. u # t => (InIo(u, k)' <=> InIo(u, k))  BY DEF InIo
    <3>3. CASE k = b.id
      <4>1. ioWaits'[k] # u  BY <1>0, <2>3, <3>3
      <4>2. u # t => ~InIo(u, k)  BY <2>4, <3>3 DEF Io
      <4> QED  BY <3>1, <3>2, <4>1, <4>2
    <3>4. CASE k # b.id
      <4>1. ioWaits'[k] = ioWaits[k]  BY <2>3, <3>4
      <4>2. ioWaits[k] # t  BY <3>4 DEF Io, InIo
      <4> QED  BY <3>1, <3>2, <4>1, <4>2 DEF Io
    <3> QED  BY <3>3, <3>4
  <2>6. \A k \in Token : k \in registered' \cup polled' <=> ioWaits'[k] # NoTask
    BY <2>2, <2>3 DEF Io
  <2>7. \A k \in Token : k >= nextToken' => ioWaits'[k] = NoTask  BY <2>3 DEF Io
  <2>8. \A u \in Tasks : state'[u] = "blocked" /\ block'[u].on \in IoOn => block'[u].id \in Token
    BY DEF Io
  <2> QED  BY <2>3, <2>5, <2>6, <2>7, <2>8 DEF Io
<1>3. CASE b.on \notin IoOn
  <2>1. ioWaits' = ioWaits /\ registered' = registered  BY <1>3 DEF DropIo, IoOn
  <2>2. \A u \in Tasks, k \in Token : InIo(u, k)' <=> InIo(u, k)  BY <1>3 DEF InIo
  <2>3. \A u \in Tasks : state'[u] = "blocked" /\ block'[u].on \in IoOn => block'[u].id \in Token
    BY DEF Io
  <2> QED  BY <1>1, <2>1, <2>2, <2>3 DEF Io
<1> QED  BY <1>2, <1>3

\* A task leaves no running number behind when it goes from running to ready,
\* running or ended.
LEMMA RunningFacts ==
  ASSUME IInv, User
  PROVE  /\ current \in Tasks /\ state[current] = "running" /\ timerSeq[current] = 0
         /\ polled = {} /\ current \notin Elems(runQueue)
  BY DEF IInv, User, Control, Timed, Queue

\* The suspension of the running task, but for the tables.
LEMMA SuspendFacts ==
  ASSUME IInv, User, NEW b \in [on: BlockOn, id: Nat], NEW timed \in BOOLEAN, SuspendIn(b, timed),
         timed => nextTimer \in TimerSeq
  PROVE  /\ state' \in [Tasks -> {"new", "ready", "running", "blocked", "ended"}]
         /\ block' \in [Tasks -> [on: BlockOn, id: Nat]] /\ wake' \in [Tasks -> WakeName]
         /\ timerSeq' \in [Tasks -> TimerSeq \cup {0}] /\ runQueue' \in Seq(Tasks) /\ at' = "pick"
         /\ Queue'
         /\ \A u \in Tasks \ {current} :
              state'[u] = state[u] /\ block'[u] = block[u] /\ timerSeq'[u] = timerSeq[u]
         /\ Delivers(current) => state'[current] = "ready" /\ timerSeq'[current] = 0
         /\ ~Delivers(current) =>
              /\ state'[current] = "blocked" /\ block'[current] = b
              /\ timerSeq'[current] = IF timed THEN nextTimer ELSE 0
<1> DEFINE t == current
<1>1. /\ state \in [Tasks -> {"new", "ready", "running", "blocked", "ended"}]
      /\ block \in [Tasks -> [on: BlockOn, id: Nat]] /\ wake \in [Tasks -> WakeName]
      /\ timerSeq \in [Tasks -> TimerSeq \cup {0}] /\ runQueue \in Seq(Tasks)
  BY DEF IInv, TypeOK, WakeName
<1>2. t \in Tasks /\ state[t] = "running" /\ timerSeq[t] = 0 /\ t \notin Elems(runQueue)  BY RunningFacts
<1>3. NoDup(runQueue) /\ \A u \in Elems(runQueue) : state[u] \in {"new", "ready"}  BY DEF IInv, Queue
<1>4. \A u \in Elems(runQueue) : u \in Tasks  BY <1>1, ElementOfSeq, LenProperties DEF Elems
<1>5. at' = "pick"  BY DEF SuspendIn
<1>6. CASE Delivers(t)
  <2>1. /\ state' = [state EXCEPT ![t] = "ready"] /\ timerSeq' = [timerSeq EXCEPT ![t] = 0]
        /\ wake' = [wake EXCEPT ![t] = IF b.on = "ioRetry" THEN "retry" ELSE "unit"]
        /\ runQueue' = <<t>> \o runQueue /\ block' = block
    BY <1>6 DEF SuspendIn
  <2>2. /\ <<t>> \o runQueue \in Seq(Tasks) /\ NoDup(<<t>> \o runQueue)
        /\ Elems(<<t>> \o runQueue) \subseteq Elems(runQueue) \cup {t}
    BY <1>1, <1>2, <1>3, FrontQueue
  <2>3. /\ state' \in [Tasks -> {"new", "ready", "running", "blocked", "ended"}] /\ state'[t] = "ready"
        /\ \A u \in Tasks \ {t} : state'[u] = state[u]
    BY <1>1, <1>2, <2>1
  <2>4. timerSeq' \in [Tasks -> TimerSeq \cup {0}] /\ timerSeq'[t] = 0
        /\ \A u \in Tasks \ {t} : timerSeq'[u] = timerSeq[u]
    BY <1>1, <1>2, <2>1
  <2>5. wake' \in [Tasks -> WakeName]  BY <1>1, <2>1 DEF WakeName
  <2>6. Queue'
    <3>1. \A u \in Elems(runQueue) \cup {t} : state'[u] \in {"new", "ready"}  BY <1>3, <1>4, <2>3
    <3> QED  BY <2>1, <2>2, <3>1 DEF Queue
  <2> QED  BY <1>1, <1>5, <1>6, <2>1, <2>2, <2>3, <2>4, <2>5, <2>6
<1>7. CASE ~Delivers(t)
  <2>1. /\ state' = [state EXCEPT ![t] = "blocked"] /\ block' = [block EXCEPT ![t] = b]
        /\ timerSeq' = IF timed THEN [timerSeq EXCEPT ![t] = nextTimer] ELSE timerSeq
        /\ wake' = wake /\ runQueue' = runQueue
    BY <1>7 DEF SuspendIn, NextSeq
  <2>2. /\ state' \in [Tasks -> {"new", "ready", "running", "blocked", "ended"}] /\ state'[t] = "blocked"
        /\ \A u \in Tasks \ {t} : state'[u] = state[u]
    BY <1>1, <1>2, <2>1
  <2>3. block' \in [Tasks -> [on: BlockOn, id: Nat]] /\ block'[t] = b /\ \A u \in Tasks \ {t} : block'[u] = block[u]
    BY <1>1, <1>2, <2>1
  <2>4. timerSeq' \in [Tasks -> TimerSeq \cup {0}] /\ timerSeq'[t] = (IF timed THEN nextTimer ELSE 0)
        /\ \A u \in Tasks \ {t} : timerSeq'[u] = timerSeq[u]
    BY <1>1, <1>2, <2>1
  <2>5. Queue'  BY <1>2, <1>3, <1>4, <2>1, <2>2 DEF Queue
  <2> QED  BY <1>1, <1>5, <1>7, <2>1, <2>2, <2>3, <2>4, <2>5
<1> QED  BY <1>6, <1>7

\* A timed wait has its timer.
LEMMA SuspendTimed ==
  ASSUME IInv, User, NEW b \in [on: BlockOn, id: Nat], NEW timed \in BOOLEAN, SuspendIn(b, timed),
         NEW d \in Time, IF timed THEN AddTimer(d) ELSE UNCHANGED <<timers, nextTimer>>,
         b.on \in {"sleep", "io", "ioRetry"}, b.on = "sleep" => timed
  PROVE  Timed' /\ timers' \subseteq Timer /\ nextTimer' \in 1..(MaxTimers + 1)
         /\ (timed => nextTimer \in TimerSeq)
<1> DEFINE t == current
           e == [at |-> d, seq |-> nextTimer, task |-> t]
<1>1. t \in Tasks /\ timers \subseteq Timer /\ nextTimer \in 1..(MaxTimers + 1) /\ MaxTimers \in Nat
  BY RunningFacts, WaitsAssumption DEF IInv, TypeOK
<1>2. timed => nextTimer <= MaxTimers /\ timers' = timers \cup {e} /\ nextTimer' = nextTimer + 1
  BY DEF AddTimer
<1>3. ~timed => timers' = timers /\ nextTimer' = nextTimer  OBVIOUS
<1>4. timed => nextTimer \in TimerSeq /\ nextTimer # 0  BY <1>1, <1>2 DEF TimerSeq
<1>5. nextTimer' \in 1..(MaxTimers + 1)  BY <1>1, <1>2, <1>3
<1>6. timers' \subseteq Timer
  <2>1. timed => e \in Timer  BY <1>1, <1>4 DEF Timer
  <2> QED  BY <1>1, <1>2, <1>3, <2>1
<1>7. /\ \A u \in Tasks \ {t} :
           state'[u] = state[u] /\ block'[u] = block[u] /\ timerSeq'[u] = timerSeq[u]
      /\ Delivers(t) => state'[t] = "ready" /\ timerSeq'[t] = 0
      /\ ~Delivers(t) => /\ state'[t] = "blocked" /\ block'[t] = b
                         /\ timerSeq'[t] = IF timed THEN nextTimer ELSE 0
  BY <1>4, SuspendFacts
<1>8. Timed'
  <2> SUFFICES ASSUME NEW u \in Tasks
               PROVE  /\ timerSeq'[u] # 0 => state'[u] = "blocked" /\ block'[u].on \in {"sleep", "io", "ioRetry"} /\ HasTimer(u)'
                      /\ state'[u] = "blocked" /\ block'[u].on = "sleep" => timerSeq'[u] # 0
    BY DEF Timed
  <2>1. CASE u # t
    <3>1. HasTimer(u) => HasTimer(u)'
      <4> SUFFICES ASSUME NEW f \in timers, f.task = u, f.seq = timerSeq[u] PROVE HasTimer(u)'
        BY DEF HasTimer
      <4>1. f \in timers'  BY <1>2, <1>3
      <4>2. timerSeq'[u] = timerSeq[u]  BY <1>7, <2>1
      <4> QED  BY <4>1, <4>2 DEF HasTimer
    <3> QED  BY <1>7, <2>1, <3>1 DEF IInv, Timed
  <2>2. CASE u = t /\ Delivers(t)  BY <1>7, <2>2
  <2>3. CASE u = t /\ ~Delivers(t)
    <3>1. state'[u] = "blocked" /\ block'[u] = b /\ timerSeq'[u] = IF timed THEN nextTimer ELSE 0  BY <1>7, <2>3
    <3>2. timed => HasTimer(u)'
      <4>1. timed => e \in timers' /\ e.task = u /\ e.seq = nextTimer  BY <1>2, <2>3
      <4> QED  BY <3>1, <4>1 DEF HasTimer
    <3> QED  BY <1>4, <3>1, <3>2
  <2> QED  BY <2>1, <2>2, <2>3
<1> QED  BY <1>4, <1>5, <1>6, <1>8

LEMMA SleepStep ==
  ASSUME IInv, NEW d \in Time, Sleep(d)
  PROVE  IInv'
<1> DEFINE b == WaitOn("sleep", 0)
<1>1. /\ User /\ AddTimer(d) /\ SuspendIn(b, TRUE)
      /\ UNCHANGED <<cancel, current, ioWaits, nextToken, registered, polled, now, asOf>>
  BY DEF Sleep
<1>2. b \in [on: BlockOn, id: Nat] /\ b.on = "sleep"  BY DEF WaitOn, BlockOn
<1> HIDE DEF b
<1>3. Timed' /\ timers' \subseteq Timer /\ nextTimer' \in 1..(MaxTimers + 1) /\ nextTimer \in TimerSeq
  BY <1>1, <1>2, SuspendTimed
<1>4. /\ state' \in [Tasks -> {"new", "ready", "running", "blocked", "ended"}]
      /\ block' \in [Tasks -> [on: BlockOn, id: Nat]] /\ wake' \in [Tasks -> WakeName]
      /\ timerSeq' \in [Tasks -> TimerSeq \cup {0}] /\ runQueue' \in Seq(Tasks) /\ at' = "pick"
      /\ Queue'
      /\ \A u \in Tasks \ {current} :
           state'[u] = state[u] /\ block'[u] = block[u] /\ timerSeq'[u] = timerSeq[u]
      /\ Delivers(current) => state'[current] = "ready"
      /\ ~Delivers(current) => state'[current] = "blocked" /\ block'[current] = b
  BY <1>1, <1>2, <1>3, SuspendFacts
<1>5. current \in Tasks /\ state[current] = "running" /\ polled = {}  BY <1>1, RunningFacts
<1>6. TypeOK'  BY <1>1, <1>3, <1>4 DEF IInv, TypeOK, WakeName
<1>7. Control'  BY <1>1, <1>4, <1>5 DEF IInv, Control
<1>8. Io'
  <2>1. \A u \in Tasks : state'[u] = "blocked" /\ block'[u].on \in IoOn <=> state[u] = "blocked" /\ block[u].on \in IoOn
    BY <1>2, <1>4, <1>5 DEF IoOn
  <2>2. \A u \in Tasks, k \in Token : InIo(u, k)' <=> InIo(u, k)  BY <1>4, <1>5, <2>1 DEF InIo
  <2>3. \A u \in Tasks : state'[u] = "blocked" /\ block'[u].on \in IoOn => block'[u].id \in Token
    BY <1>4, <1>5, <2>1 DEF IInv, Io
  <2> QED  BY <1>1, <2>2, <2>3 DEF IInv, Io
<1> QED  BY <1>3, <1>4, <1>6, <1>7, <1>8 DEF IInv

LEMMA SuspendIoStep ==
  ASSUME IInv, NEW kind \in IoOn, NEW timed \in BOOLEAN, NEW d \in Time, SuspendIo(kind, timed, d)
  PROVE  IInv'
<1> DEFINE b == WaitOn(kind, nextToken)
<1>0. NoTask \notin Tasks /\ MaxTokens \in Nat  BY WaitsAssumption
<1>1. /\ User /\ nextToken <= MaxTokens /\ nextToken' = nextToken + 1
      /\ IF timed THEN AddTimer(d) ELSE UNCHANGED <<timers, nextTimer>>
      /\ SuspendIn(b, timed)
      /\ UNCHANGED <<cancel, current, polled, now, asOf>>
  BY DEF SuspendIo
<1>2. nextToken \in 1..(MaxTokens + 1) /\ ioWaits \in [Token -> Tasks \cup {NoTask}] /\ registered \subseteq Token
  BY DEF IInv, TypeOK
<1>3. nextToken \in Token /\ nextToken' \in 1..(MaxTokens + 1) /\ nextToken \in Nat
  BY <1>0, <1>1, <1>2 DEF Token
<1>4. b \in [on: BlockOn, id: Nat] /\ b.on = kind /\ b.id = nextToken
  BY <1>3 DEF WaitOn, BlockOn, IoOn
<1> HIDE DEF b
<1>4a. b.on \in {"sleep", "io", "ioRetry"} /\ b.on # "sleep"  BY <1>4 DEF IoOn
<1>5. Timed' /\ timers' \subseteq Timer /\ nextTimer' \in 1..(MaxTimers + 1) /\ (timed => nextTimer \in TimerSeq)
  BY <1>1, <1>4, <1>4a, SuspendTimed
<1>6. /\ state' \in [Tasks -> {"new", "ready", "running", "blocked", "ended"}]
      /\ block' \in [Tasks -> [on: BlockOn, id: Nat]] /\ wake' \in [Tasks -> WakeName]
      /\ timerSeq' \in [Tasks -> TimerSeq \cup {0}] /\ runQueue' \in Seq(Tasks) /\ at' = "pick"
      /\ Queue'
      /\ \A u \in Tasks \ {current} :
           state'[u] = state[u] /\ block'[u] = block[u] /\ timerSeq'[u] = timerSeq[u]
      /\ Delivers(current) => state'[current] = "ready"
      /\ ~Delivers(current) => state'[current] = "blocked" /\ block'[current] = b
  BY <1>1, <1>4, <1>5, SuspendFacts
<1>7. current \in Tasks /\ state[current] = "running" /\ polled = {}  BY <1>1, RunningFacts
<1>8. CASE Delivers(current)
  <2>1. ioWaits' = ioWaits /\ registered' = registered  BY <1>8 DEF SuspendIo
  <2>2. \A u \in Tasks, k \in Token : InIo(u, k)' <=> InIo(u, k)  BY <1>6, <1>7, <1>8 DEF InIo
  <2>3. \A u \in Tasks : state'[u] = "blocked" /\ block'[u].on \in IoOn => block'[u].id \in Token
    BY <1>6, <1>7, <1>8 DEF IInv, Io
  <2>4. \A k \in Token : k >= nextToken' => k >= nextToken  BY <1>1, <1>3 DEF Token
  <2>5. Io'  BY <1>1, <2>1, <2>2, <2>3, <2>4 DEF IInv, Io
  <2>6. TypeOK'  BY <1>1, <1>2, <1>3, <1>5, <1>6, <2>1 DEF IInv, TypeOK, WakeName
  <2>7. Control'  BY <1>1, <1>6, <1>7 DEF IInv, Control
  <2> QED  BY <1>5, <1>6, <2>5, <2>6, <2>7 DEF IInv
<1>9. CASE ~Delivers(current)
  <2>1. ioWaits' = [ioWaits EXCEPT ![nextToken] = current] /\ registered' = registered \cup {nextToken}
    BY <1>9 DEF SuspendIo
  <2>2. /\ ioWaits' \in [Token -> Tasks \cup {NoTask}] /\ registered' \subseteq Token
        /\ ioWaits'[nextToken] = current /\ \A k \in Token \ {nextToken} : ioWaits'[k] = ioWaits[k]
    BY <1>2, <1>3, <1>7, <2>1
  <2>3. ioWaits[nextToken] = NoTask  BY <1>3 DEF IInv, Io
  <2>4. \A k \in Token, u \in Tasks : ioWaits'[k] = u <=> InIo(u, k)'
    <3> SUFFICES ASSUME NEW k \in Token, NEW u \in Tasks PROVE ioWaits'[k] = u <=> InIo(u, k)'
      OBVIOUS
    <3>1. u = current => ~InIo(u, k) /\ (InIo(u, k)' <=> k = nextToken)
      BY <1>4, <1>6, <1>7, <1>9 DEF InIo
    <3>2. u # current => (InIo(u, k)' <=> InIo(u, k))  BY <1>6 DEF InIo
    <3>3. ioWaits[k] = u <=> InIo(u, k)  BY DEF IInv, Io
    <3>4. k = nextToken => ~InIo(u, k)  BY <1>0, <2>3, <3>3
    <3> QED  BY <2>2, <3>1, <3>2, <3>3, <3>4
  <2>5. \A k \in Token : k \in registered' \cup polled' <=> ioWaits'[k] # NoTask
    BY <1>0, <1>1, <1>7, <2>1, <2>2 DEF IInv, Io
  <2>6. \A k \in Token : k >= nextToken' => ioWaits'[k] = NoTask
    <3>1. \A k \in Token : k >= nextToken' => k >= nextToken /\ k # nextToken  BY <1>1, <1>3 DEF Token
    <3> QED  BY <2>2, <3>1 DEF IInv, Io
  <2>7. \A u \in Tasks : state'[u] = "blocked" /\ block'[u].on \in IoOn => block'[u].id \in Token
    BY <1>3, <1>4, <1>6, <1>7, <1>9 DEF IInv, Io
  <2>8. Io'  BY <1>1, <1>7, <2>4, <2>5, <2>6, <2>7 DEF Io
  <2>9. TypeOK'  BY <1>1, <1>3, <1>5, <1>6, <2>2 DEF IInv, TypeOK, WakeName
  <2>10. Control'  BY <1>1, <1>6, <1>7 DEF IInv, Control
  <2> QED  BY <1>5, <1>6, <2>8, <2>9, <2>10 DEF IInv
<1> QED  BY <1>8, <1>9

\* The tasks in the queue are tasks.
LEMMA QueueTasks ==
  ASSUME TypeOK
  PROVE  runQueue \in Seq(Tasks) /\ \A u \in Elems(runQueue) : u \in Tasks
<1>1. runQueue \in Seq(Tasks)  BY DEF TypeOK
<1> QED  BY <1>1, ElementOfSeq, LenProperties DEF Elems

LEMMA YieldStep ==
  ASSUME IInv, Yield
  PROVE  IInv'
<1> DEFINE t == current
<1>1. /\ User /\ state' = [state EXCEPT ![t] = "ready"] /\ wake' = [wake EXCEPT ![t] = "unit"]
      /\ runQueue' = IF Delivers(t) THEN <<t>> \o runQueue ELSE Append(runQueue, t)
      /\ at' = "pick"
      /\ UNCHANGED <<block, cancel, timerSeq, current, tableVars, polled, now, asOf>>
  BY DEF Yield
<1>2. UNCHANGED <<timers, nextTimer, ioWaits, nextToken, registered>>  BY <1>1 DEF tableVars
<1>3. t \in Tasks /\ state[t] = "running" /\ polled = {} /\ t \notin Elems(runQueue)  BY <1>1, RunningFacts
<1>4. runQueue \in Seq(Tasks) /\ NoDup(runQueue) /\ (\A u \in Elems(runQueue) : u \in Tasks)
      /\ \A u \in Elems(runQueue) : state[u] \in {"new", "ready"}
  BY QueueTasks DEF IInv, Queue
<1>5. runQueue' \in Seq(Tasks) /\ NoDup(runQueue') /\ Elems(runQueue') \subseteq Elems(runQueue) \cup {t}
  BY <1>1, <1>3, <1>4, AppendQueue, FrontQueue
<1>6. state' \in [Tasks -> {"new", "ready", "running", "blocked", "ended"}] /\ state'[t] = "ready"
      /\ \A u \in Tasks \ {t} : state'[u] = state[u]
  BY <1>1, <1>3 DEF IInv, TypeOK
<1>7. TypeOK'  BY <1>1, <1>2, <1>5, <1>6 DEF IInv, TypeOK
<1>8. Queue'  BY <1>4, <1>5, <1>6 DEF Queue
<1>9. Control'  BY <1>1, <1>3 DEF IInv, Control
<1>10. Io' /\ Timed'
  <2>1. \A u \in Tasks : state'[u] = "blocked" \/ state[u] = "blocked" => state'[u] = state[u]
    BY <1>3, <1>6
  <2> QED  BY <1>1, <1>2, <2>1, SameWaits DEF IInv
<1> QED  BY <1>7, <1>8, <1>9, <1>10 DEF IInv

LEMMA CancelNewStep ==
  ASSUME IInv, NEW c \in Tasks, CancelNew(c)
  PROVE  IInv'
<1>1. /\ User /\ state[c] = "new" /\ state' = [state EXCEPT ![c] = "ended"]
      /\ runQueue' = Without(runQueue, c)
      /\ UNCHANGED <<block, wake, cancel, timerSeq, current, tableVars, polled, now, at, asOf>>
  BY DEF CancelNew
<1>2. UNCHANGED <<timers, nextTimer, ioWaits, nextToken, registered>>  BY <1>1 DEF tableVars
<1>3. runQueue \in Seq(Tasks) /\ NoDup(runQueue) /\ (\A u \in Elems(runQueue) : u \in Tasks)
      /\ \A u \in Elems(runQueue) : state[u] \in {"new", "ready"}
  BY QueueTasks DEF IInv, Queue
<1>4. runQueue' \in Seq(Tasks) /\ NoDup(runQueue') /\ Elems(runQueue') \subseteq Elems(runQueue) \ {c}
  BY <1>1, <1>3, WithoutQueue
<1>5. state' \in [Tasks -> {"new", "ready", "running", "blocked", "ended"}] /\ state'[c] = "ended"
      /\ \A u \in Tasks \ {c} : state'[u] = state[u]
  BY <1>1 DEF IInv, TypeOK
<1>6. TypeOK'  BY <1>1, <1>2, <1>4, <1>5 DEF IInv, TypeOK
<1>7. Queue'  BY <1>3, <1>4, <1>5 DEF Queue
<1>8. Control'
  <2>1. current \in Tasks /\ state[current] = "running"  BY <1>1, RunningFacts
  <2> QED  BY <1>1, <1>5, <2>1 DEF IInv, Control
<1>9. Io' /\ Timed'
  <2>1. \A u \in Tasks : state'[u] = "blocked" \/ state[u] = "blocked" => state'[u] = state[u]
    BY <1>1, <1>5
  <2> QED  BY <1>1, <1>2, <2>1, SameWaits DEF IInv
<1> QED  BY <1>6, <1>7, <1>8, <1>9 DEF IInv

LEMMA CancelStep ==
  ASSUME IInv, NEW c \in Tasks, Cancel(c)
  PROVE  IInv'
<1>1. /\ User /\ cancel' = [cancel EXCEPT ![c] = "Requested"]
      /\ UNCHANGED <<current, timers, nextTimer, nextToken, polled, now, at, asOf>>
  BY DEF Cancel
<1>2. cancel' \in [Tasks -> {"None", "Requested", "Unwinding"}]  BY <1>1 DEF IInv, TypeOK
<1>3. current \in Tasks /\ state[current] = "running" /\ polled = {}  BY <1>1, RunningFacts
<1>4. CASE state[c] = "blocked"
  <2> DEFINE w == IF block[c].on = "ioRetry" THEN "retry" ELSE "unit"
  <2>1. Ready(c, w) /\ runQueue' = Append(runQueue, c) /\ DropIo(block[c])  BY <1>4 DEF Cancel
  <2>2. w \in WakeName  BY DEF WakeName
  <2> HIDE DEF w
  <2>3. /\ state' \in [Tasks -> {"new", "ready", "running", "blocked", "ended"}]
        /\ block' \in [Tasks -> [on: BlockOn, id: Nat]]
        /\ wake' \in [Tasks -> WakeName]
        /\ timerSeq' \in [Tasks -> TimerSeq \cup {0}]
        /\ runQueue' \in Seq(Tasks) /\ Queue'
        /\ state'[c] = "ready" /\ timerSeq'[c] = 0
        /\ \A u \in Tasks \ {c} : state'[u] = state[u] /\ block'[u] = block[u] /\ timerSeq'[u] = timerSeq[u]
    BY <1>4, <2>1, <2>2, Readies
  <2>4. Io' /\ ioWaits' \in [Token -> Tasks \cup {NoTask}] /\ registered' \subseteq Token
    BY <1>1, <1>3, <1>4, <2>1, <2>3, DropsIo DEF IInv
  <2>5. Timed'  BY <1>1, <2>3, ReadiedTimers DEF IInv
  <2>6. TypeOK'  BY <1>1, <1>2, <2>3, <2>4 DEF IInv, TypeOK, WakeName
  <2>7. Control'  BY <1>1, <1>3, <1>4, <2>3 DEF IInv, Control
  <2> QED  BY <2>3, <2>4, <2>5, <2>6, <2>7 DEF IInv
<1>5. CASE state[c] # "blocked"
  <2>1. UNCHANGED <<state, block, timerSeq, wake, runQueue, ioWaits, registered>>  BY <1>5 DEF Cancel
  <2>2. TypeOK'  BY <1>1, <1>2, <2>1 DEF IInv, TypeOK
  <2>3. Queue' /\ Control'  BY <1>1, <2>1 DEF IInv, Queue, Control
  <2>4. Io' /\ Timed'  BY <1>1, <2>1, SameWaits DEF IInv
  <2> QED  BY <2>2, <2>3, <2>4 DEF IInv
<1> QED  BY <1>4, <1>5

LEMMA FinishStep ==
  ASSUME IInv, Finish
  PROVE  IInv'
<1> DEFINE t == current
<1>1. /\ User /\ state' = [state EXCEPT ![t] = "ended"] /\ at' = "pick"
      /\ UNCHANGED <<block, wake, cancel, timerSeq, runQueue, current, tableVars, polled, now, asOf>>
  BY DEF Finish
<1>2. UNCHANGED <<timers, nextTimer, ioWaits, nextToken, registered>>  BY <1>1 DEF tableVars
<1>3. t \in Tasks /\ state[t] = "running" /\ polled = {} /\ t \notin Elems(runQueue)  BY <1>1, RunningFacts
<1>4. state' \in [Tasks -> {"new", "ready", "running", "blocked", "ended"}] /\ state'[t] = "ended"
      /\ \A u \in Tasks \ {t} : state'[u] = state[u]
  BY <1>1, <1>3 DEF IInv, TypeOK
<1>5. TypeOK'  BY <1>1, <1>2, <1>4 DEF IInv, TypeOK
<1>6. Queue'  BY <1>1, <1>3, <1>4, QueueTasks DEF IInv, Queue
<1>7. Control'  BY <1>1, <1>3 DEF IInv, Control
<1>8. Io' /\ Timed'
  <2>1. \A u \in Tasks : state'[u] = "blocked" \/ state[u] = "blocked" => state'[u] = state[u]
    BY <1>3, <1>4
  <2> QED  BY <1>1, <1>2, <2>1, SameWaits DEF IInv
<1> QED  BY <1>5, <1>6, <1>7, <1>8 DEF IInv

LEMMA PickStep ==
  ASSUME IInv, Pick
  PROVE  IInv'
<1> DEFINE t == Head(runQueue)
<1>1. /\ at = "pick" /\ runQueue # <<>> /\ current' = t
      /\ state' = [state EXCEPT ![t] = "running"] /\ wake' = [wake EXCEPT ![t] = "none"]
      /\ cancel' = [cancel EXCEPT ![t] = IF Delivers(t) THEN "Unwinding" ELSE @]
      /\ runQueue' = Tail(runQueue) /\ at' = "user"
      /\ UNCHANGED <<block, timerSeq, tableVars, polled, now, asOf>>
  BY DEF Pick
<1>2. UNCHANGED <<timers, nextTimer, ioWaits, nextToken, registered>>  BY <1>1 DEF tableVars
<1>3. runQueue \in Seq(Tasks) /\ NoDup(runQueue) /\ (\A u \in Elems(runQueue) : u \in Tasks)
      /\ \A u \in Elems(runQueue) : state[u] \in {"new", "ready"}
  BY QueueTasks DEF IInv, Queue
<1>4. /\ t \in Tasks /\ t \in Elems(runQueue) /\ runQueue' \in Seq(Tasks) /\ NoDup(runQueue')
      /\ Elems(runQueue') \subseteq Elems(runQueue) \ {t}
  BY <1>1, <1>3, TailQueue
<1> HIDE DEF t
<1>5. state' \in [Tasks -> {"new", "ready", "running", "blocked", "ended"}] /\ state'[t] = "running"
      /\ \A u \in Tasks \ {t} : state'[u] = state[u]
  BY <1>1, <1>4 DEF IInv, TypeOK
<1>6. cancel' \in [Tasks -> {"None", "Requested", "Unwinding"}]
      /\ wake' \in [Tasks -> {"none", "unit", "retry", "ready", "slept", "timedOut"}]
  BY <1>1, <1>4 DEF IInv, TypeOK
<1>7. TypeOK'  BY <1>1, <1>2, <1>4, <1>5, <1>6 DEF IInv, TypeOK
<1>8. Queue'  BY <1>3, <1>4, <1>5 DEF Queue
<1>9. Control'  BY <1>1, <1>4, <1>5 DEF IInv, Control
<1>10. Io' /\ Timed'
  <2>1. \A u \in Tasks : state'[u] = "blocked" \/ state[u] = "blocked" => state'[u] = state[u]
    BY <1>3, <1>4, <1>5
  <2> QED  BY <1>1, <1>2, <2>1, SameWaits DEF IInv
<1> QED  BY <1>7, <1>8, <1>9, <1>10 DEF IInv

-----------------------------------------------------------------------------
(***************************************************************************)
(* The steps of task_wait_events.                                          *)
(***************************************************************************)
\* The VM thread goes on: no record, queue or IO table changes, and no running
\* timer goes.
LEMMA EventFrame ==
  ASSUME IInv, UNCHANGED <<recVars, runQueue, current, nextTimer, ioWaits, nextToken>>,
         timers' \subseteq timers, \A e \in timers : Live(e) => e \in timers',
         registered' = registered, polled' = polled,
         now' \in Time, asOf' \in Time, asOf' <= now',
         at' \in {"pick", "wait", "expire"} \/ at' = at, at' # "polled" => polled = {}
  PROVE  IInv'
<1>1. UNCHANGED <<state, block, wake, cancel, timerSeq, runQueue, current, nextTimer, ioWaits, nextToken>>
  BY DEF recVars
<1>2. TypeOK'  BY <1>1 DEF IInv, TypeOK
<1>3. Queue'  BY <1>1 DEF IInv, Queue
<1>4. Control'  BY <1>1 DEF IInv, Control
<1>5. Io' /\ Timed'  BY <1>1, SameWaits DEF IInv
<1> QED  BY <1>2, <1>3, <1>4, <1>5 DEF IInv

LEMMA WaitEventsStep ==
  ASSUME IInv, WaitEvents
  PROVE  IInv'
<1>1. /\ at = "pick" /\ timers' = PoppedStale /\ at' = "wait"
      /\ UNCHANGED <<recVars, runQueue, current, nextTimer, ioWaits, nextToken, registered, polled, now, asOf>>
  BY DEF WaitEvents
<1>2. \A e \in timers : Live(e) => e \in PoppedStale
  <2>1. \A e \in timers : e.at \in Int /\ e.seq \in Int  BY DEF IInv, TypeOK, Timer, Time, TimerSeq
  <2>2. \A e \in timers : ~Earlier(e, e)  BY <2>1 DEF Earlier
  <2> QED  BY <2>2 DEF PoppedStale
<1>3. PoppedStale \subseteq timers  BY DEF PoppedStale
<1>4. now' \in Time /\ asOf' \in Time /\ asOf' <= now' /\ polled = {}  BY <1>1 DEF IInv, TypeOK, Control
<1> QED  BY <1>1, <1>2, <1>3, <1>4, EventFrame

LEMMA WaitReadyStep ==
  ASSUME IInv, NEW S \in SUBSET Token, WaitReady(S)
  PROVE  IInv'
<1>1. /\ at = "wait" /\ S \subseteq registered /\ polled' = S /\ registered' = registered \ S /\ at' = "polled"
      /\ UNCHANGED <<recVars, runQueue, current, timers, nextTimer, ioWaits, nextToken, now, asOf>>
  BY DEF WaitReady
<1>2. UNCHANGED <<state, block, wake, cancel, timerSeq>>  BY <1>1 DEF recVars
<1>3. polled = {}  BY <1>1 DEF IInv, Control
<1>4. TypeOK'  BY <1>1, <1>2 DEF IInv, TypeOK
<1>5. Queue' /\ Control'  BY <1>1, <1>2 DEF IInv, Queue, Control
<1>6. Io'
  <2>1. \A u \in Tasks, k \in Token : InIo(u, k)' <=> InIo(u, k)  BY <1>2 DEF InIo
  <2> QED  BY <1>1, <1>2, <1>3, <2>1 DEF IInv, Io
<1>7. Timed'  BY <1>1, <1>2 DEF IInv, Timed, HasTimer
<1> QED  BY <1>4, <1>5, <1>6, <1>7 DEF IInv

LEMMA HandleTokenStep ==
  ASSUME IInv, NEW k \in Token, HandleToken(k)
  PROVE  IInv'
<1> DEFINE t == ioWaits[k]
           w == IF block[t].on = "ioRetry" THEN "retry" ELSE "ready"
<1>0. NoTask \notin Tasks  BY WaitsAssumption
<1>1. /\ at = "polled" /\ k \in polled /\ polled' = polled \ {k}
      /\ ioWaits' = [ioWaits EXCEPT ![k] = NoTask]
      /\ UNCHANGED <<cancel, current, timers, nextTimer, nextToken, registered, now, at, asOf>>
  BY DEF HandleToken
<1>2. ioWaits \in [Token -> Tasks \cup {NoTask}]  BY DEF IInv, TypeOK
<1>3. t # NoTask /\ t \in Tasks  BY <1>1, <1>2 DEF IInv, Io
<1>4. state[t] = "blocked" /\ block[t].on \in IoOn /\ block[t].id = k  BY <1>3 DEF IInv, Io, InIo
<1>5. Ready(t, w) /\ runQueue' = Append(runQueue, t)  BY <1>3, <1>4 DEF HandleToken
<1>6. w \in WakeName  BY DEF WakeName
<1> HIDE DEF w
<1>7. /\ state' \in [Tasks -> {"new", "ready", "running", "blocked", "ended"}]
      /\ block' \in [Tasks -> [on: BlockOn, id: Nat]]
      /\ wake' \in [Tasks -> WakeName]
      /\ timerSeq' \in [Tasks -> TimerSeq \cup {0}]
      /\ runQueue' \in Seq(Tasks) /\ Queue'
      /\ state'[t] = "ready" /\ timerSeq'[t] = 0
      /\ \A u \in Tasks \ {t} : state'[u] = state[u] /\ block'[u] = block[u] /\ timerSeq'[u] = timerSeq[u]
  BY <1>3, <1>4, <1>5, <1>6, Readies
<1>8. /\ ioWaits' \in [Token -> Tasks \cup {NoTask}] /\ ioWaits'[k] = NoTask
      /\ \A j \in Token \ {k} : ioWaits'[j] = ioWaits[j]
  BY <1>1, <1>2
<1>9. Io'
  <2>1. \A j \in Token, u \in Tasks : ioWaits'[j] = u <=> InIo(u, j)'
    <3> SUFFICES ASSUME NEW j \in Token, NEW u \in Tasks PROVE ioWaits'[j] = u <=> InIo(u, j)'
      OBVIOUS
    <3>1. u = t => ~InIo(u, j)'  BY <1>7 DEF InIo
    <3>2. u # t => (InIo(u, j)' <=> InIo(u, j))  BY <1>7 DEF InIo
    <3>3. ioWaits[j] = u <=> InIo(u, j)  BY DEF IInv, Io
    <3>4. j # k => ~InIo(t, j)  BY <1>4 DEF InIo
    <3>5. CASE j = k  BY <1>0, <1>8, <3>1, <3>2, <3>3, <3>5
    <3>6. CASE j # k  BY <1>8, <3>1, <3>2, <3>3, <3>4, <3>6
    <3> QED  BY <3>5, <3>6
  <2>2. k \notin registered  BY <1>1 DEF IInv, Io
  <2>3. \A j \in Token : j \in registered' \cup polled' <=> ioWaits'[j] # NoTask
    BY <1>1, <1>8, <2>2 DEF IInv, Io
  <2>4. \A u \in Tasks : state'[u] = "blocked" /\ block'[u].on \in IoOn => block'[u].id \in Token
    BY <1>7 DEF IInv, Io
  <2> QED  BY <1>1, <1>8, <2>1, <2>3, <2>4 DEF IInv, Io
<1>10. Timed'  BY <1>1, <1>3, <1>7, ReadiedTimers DEF IInv
<1>11. TypeOK'  BY <1>1, <1>7, <1>8 DEF IInv, TypeOK, WakeName
<1>12. Control'  BY <1>1 DEF IInv, Control
<1> QED  BY <1>7, <1>9, <1>10, <1>11, <1>12 DEF IInv

LEMMA WaitOverStep ==
  ASSUME IInv, WaitOver
  PROVE  IInv'
<1>1. /\ at' = "expire" /\ asOf' = now /\ UNCHANGED <<recVars, runQueue, current, tableVars, polled, now>>
      /\ (at = "wait" \/ polled = {})
  BY DEF WaitOver
<1>2. UNCHANGED <<timers, nextTimer, ioWaits, nextToken, registered>>  BY <1>1 DEF tableVars
<1>3. polled = {}  BY <1>1 DEF IInv, Control
<1>4. now \in Time /\ now <= now  BY DEF IInv, TypeOK, Time
<1> QED  BY <1>1, <1>2, <1>3, <1>4, EventFrame

\* An entry that still counts is the timer of a timed wait.
LEMMA LiveTimer ==
  ASSUME IInv, NEW e \in timers, Live(e)
  PROVE  /\ e.task \in Tasks /\ state[e.task] = "blocked"
         /\ block[e.task].on \in {"sleep", "io", "ioRetry"}
<1>1. e.task \in Tasks /\ e.seq # 0  BY DEF IInv, TypeOK, Timer, TimerSeq
<1> QED  BY <1>1 DEF Live, IInv, Timed

LEMMA ExpireStep ==
  ASSUME IInv, NEW e \in timers, Expire(e)
  PROVE  IInv'
<1> DEFINE t == e.task
           w == CASE block[t].on = "sleep" -> "slept"
                  [] block[t].on = "io" -> "timedOut"
                  [] OTHER -> "retry"
<1>1. /\ at = "expire" /\ timers' = timers \ {e}
      /\ UNCHANGED <<cancel, current, nextTimer, nextToken, polled, now, at, asOf>>
  BY DEF Expire
<1>2. polled = {}  BY <1>1 DEF IInv, Control
<1>3. CASE Live(e)
  <2>1. t \in Tasks /\ state[t] = "blocked" /\ block[t].on \in {"sleep", "io", "ioRetry"}
    BY <1>3, LiveTimer
  <2>2. Ready(t, w) /\ runQueue' = Append(runQueue, t) /\ DropIo(block[t])  BY <1>3, <2>1 DEF Expire
  <2>3. w \in WakeName  BY DEF WakeName
  <2> HIDE DEF w
  <2>4. /\ state' \in [Tasks -> {"new", "ready", "running", "blocked", "ended"}]
        /\ block' \in [Tasks -> [on: BlockOn, id: Nat]]
        /\ wake' \in [Tasks -> WakeName]
        /\ timerSeq' \in [Tasks -> TimerSeq \cup {0}]
        /\ runQueue' \in Seq(Tasks) /\ Queue'
        /\ state'[t] = "ready" /\ timerSeq'[t] = 0
        /\ \A u \in Tasks \ {t} : state'[u] = state[u] /\ block'[u] = block[u] /\ timerSeq'[u] = timerSeq[u]
    BY <2>1, <2>2, <2>3, Readies
  <2>5. Io' /\ ioWaits' \in [Token -> Tasks \cup {NoTask}] /\ registered' \subseteq Token
    BY <1>1, <1>2, <2>1, <2>2, <2>4, DropsIo DEF IInv
  <2>6. Timed'
    <3>1. \A f \in timers : f.task # t => f \in timers'  BY <1>1
    <3> QED  BY <2>1, <2>4, <3>1, ReadiedTimers DEF IInv
  <2>7. TypeOK'  BY <1>1, <2>4, <2>5 DEF IInv, TypeOK, WakeName
  <2>8. Control'  BY <1>1 DEF IInv, Control
  <2> QED  BY <2>4, <2>5, <2>6, <2>7, <2>8 DEF IInv
<1>4. CASE ~Live(e)
  <2>1. UNCHANGED <<state, block, timerSeq, wake, runQueue, ioWaits, registered>>  BY <1>4 DEF Expire
  <2>2. UNCHANGED recVars  BY <1>1, <2>1 DEF recVars
  <2>3. \A f \in timers : Live(f) => f \in timers'  BY <1>1, <1>4
  <2>4. now' \in Time /\ asOf' \in Time /\ asOf' <= now'  BY <1>1 DEF IInv, TypeOK, Control
  <2> QED  BY <1>1, <1>2, <2>1, <2>2, <2>3, <2>4, EventFrame
<1> QED  BY <1>3, <1>4

LEMMA ExpireDoneStep ==
  ASSUME IInv, ExpireDone
  PROVE  IInv'
<1>1. /\ at = "expire" /\ at' = "pick" /\ UNCHANGED <<recVars, runQueue, current, tableVars, polled, now, asOf>>
  BY DEF ExpireDone
<1>2. UNCHANGED <<timers, nextTimer, ioWaits, nextToken, registered>>  BY <1>1 DEF tableVars
<1>3. now' \in Time /\ asOf' \in Time /\ asOf' <= now' /\ polled = {}  BY <1>1 DEF IInv, TypeOK, Control
<1> QED  BY <1>1, <1>2, <1>3, EventFrame

LEMMA TickStep ==
  ASSUME IInv, Tick
  PROVE  IInv'
<1>1. /\ now < MaxTime /\ now' = now + 1 /\ UNCHANGED <<recVars, runQueue, current, tableVars, polled, at, asOf>>
  BY DEF Tick
<1>2. UNCHANGED <<timers, nextTimer, ioWaits, nextToken, registered>>  BY <1>1 DEF tableVars
<1>3. now \in Time /\ asOf \in Time /\ asOf <= now /\ MaxTime \in Nat  BY WaitsAssumption DEF IInv, TypeOK, Control
<1>4. now' \in Time /\ asOf' \in Time /\ asOf' <= now'  BY <1>1, <1>3 DEF Time
<1>5. at' = at /\ (at' # "polled" => polled = {})  BY <1>1 DEF IInv, Control
<1> QED  BY <1>1, <1>2, <1>4, <1>5, EventFrame

LEMMA StutterStep ==
  ASSUME IInv, UNCHANGED vars
  PROVE  IInv'
<1>1. UNCHANGED <<recVars, runQueue, current, tableVars, polled, now, at, asOf>>  BY DEF vars
<1>2. UNCHANGED <<timers, nextTimer, ioWaits, nextToken, registered>>  BY <1>1 DEF tableVars
<1>3. now' \in Time /\ asOf' \in Time /\ asOf' <= now' /\ (at' # "polled" => polled = {})
  BY <1>1 DEF IInv, TypeOK, Control
<1> QED  BY <1>1, <1>2, <1>3, EventFrame

-----------------------------------------------------------------------------
LEMMA Start == Init => IInv
<1> SUFFICES ASSUME Init PROVE IInv  OBVIOUS
<1>0. MaxTime \in Nat /\ MaxTimers \in Nat /\ MaxTokens \in Nat /\ IsFiniteSet(Tasks)  BY WaitsAssumption
<1>1. Cardinality(Tasks) \in Nat  BY <1>0, FS_CardinalityType
<1>2. runQueue \in [1..Cardinality(Tasks) -> Tasks] /\ \A i, j \in DOMAIN runQueue : runQueue[i] = runQueue[j] => i = j
  BY DEF Init
<1>3. runQueue \in Seq(Tasks)  BY <1>1, <1>2, SeqDef
<1>4. \A t \in Tasks : state[t] = "new" /\ timerSeq[t] = 0  BY DEF Init
<1>5. TypeOK
  <2>1. NoBlock \in [on: BlockOn, id: Nat]  BY DEF NoBlock, WaitOn, BlockOn
  <2>2. 0 \in Time /\ 1 \in 1..(MaxTimers + 1) /\ 1 \in 1..(MaxTokens + 1)  BY <1>0 DEF Time
  <2>3. /\ state \in [Tasks -> {"new", "ready", "running", "blocked", "ended"}]
        /\ block \in [Tasks -> [on: BlockOn, id: Nat]]
        /\ wake \in [Tasks -> {"none", "unit", "retry", "ready", "slept", "timedOut"}]
        /\ cancel \in [Tasks -> {"None", "Requested", "Unwinding"}]
        /\ timerSeq \in [Tasks -> TimerSeq \cup {0}]
        /\ ioWaits \in [Token -> Tasks \cup {NoTask}]
    BY <2>1 DEF Init
  <2> QED  BY <1>3, <2>2, <2>3 DEF Init, TypeOK
<1>6. Queue  BY <1>2, <1>4 DEF Queue, NoDup, Elems
<1>7. Control  BY DEF Init, Control
<1>8. Io
  <2>1. NoTask \notin Tasks  BY WaitsAssumption
  <2> QED  BY <1>4, <2>1 DEF Init, Io, InIo
<1>9. Timed  BY <1>4 DEF Timed
<1> QED  BY <1>5, <1>6, <1>7, <1>8, <1>9 DEF IInv

LEMMA UserStepKeeps ==
  ASSUME IInv, UserStep
  PROVE  IInv'
<1>1. ASSUME NEW d \in Time, Sleep(d) PROVE IInv'  BY <1>1, SleepStep
<1>2. ASSUME NEW kind \in {"io", "ioRetry"}, NEW d \in Time, SuspendIo(kind, TRUE, d) PROVE IInv'
  BY <1>2, SuspendIoStep DEF IoOn
<1>3. ASSUME NEW kind \in {"io", "ioRetry"}, SuspendIo(kind, FALSE, now) PROVE IInv'
  <2>1. now \in Time  BY DEF IInv, TypeOK
  <2> QED  BY <1>3, <2>1, SuspendIoStep DEF IoOn
<1>4. CASE Yield \/ Finish  BY <1>4, YieldStep, FinishStep
<1>5. ASSUME NEW c \in Tasks, CancelNew(c) \/ Cancel(c) PROVE IInv'  BY <1>5, CancelNewStep, CancelStep
<1> QED  BY <1>1, <1>2, <1>3, <1>4, <1>5 DEF UserStep

LEMMA EventStepKeeps ==
  ASSUME IInv, EventStep
  PROVE  IInv'
  BY WaitEventsStep, WaitOverStep, ExpireDoneStep, HandleTokenStep, ExpireStep DEF EventStep

LEMMA Invariant == Spec => []IInv
<1>1. IInv /\ [Next]_vars => IInv'
  <2> SUFFICES ASSUME IInv, [Next]_vars PROVE IInv'  OBVIOUS
  <2>1. CASE UserStep  BY <2>1, UserStepKeeps
  <2>2. CASE Pick  BY <2>2, PickStep
  <2>3. CASE EventStep  BY <2>3, EventStepKeeps
  <2>4. ASSUME NEW S \in SUBSET Token, WaitReady(S) PROVE IInv'  BY <2>4, WaitReadyStep
  <2>5. CASE Tick  BY <2>5, TickStep
  <2>6. CASE UNCHANGED vars  BY <2>6, StutterStep
  <2> QED  BY <2>1, <2>2, <2>3, <2>4, <2>5, <2>6 DEF Next, VMStep, Terminated
<1> QED  BY Start, <1>1, PTL DEF Spec

(***************************************************************************)
(* The wait tables and the tasks agree, for any number of tasks, timers    *)
(* and tokens: every entry of io_waits and of the reactor is the wait some *)
(* blocked task is in now, so drop_wait leaves nothing behind, no wait     *)
(* misses its entry, and a task has a timer number exactly in a timed      *)
(* wait, with its timer in the heap.                                       *)
(***************************************************************************)
THEOREM TablesExactTheorem == Spec => []TablesExact
<1>1. IInv => TablesExact
  <2> SUFFICES ASSUME IInv PROVE TablesExact  OBVIOUS
  <2>1. registered \cup polled = {k \in Token : ioWaits[k] # NoTask}  BY DEF IInv, TypeOK, Io
  <2> QED  BY <2>1 DEF IInv, Io, InIo, IoOn, Timed, HasTimer, TablesExact
<1> QED  BY Invariant, <1>1, PTL

\* Only expired_timers wakes a task as slept or timed out, and it does so with
\* an entry that still counts.
LEMMA OnlyDueTimers ==
  ASSUME IInv, Next, NEW t \in Tasks, TimerWoke(t)
  PROVE  IsDue(t)
<1>1. state[t] = "blocked" /\ state'[t] = "ready" /\ wake'[t] \in {"slept", "timedOut"}  BY DEF TimerWoke
<1>2. state \in [Tasks -> {"new", "ready", "running", "blocked", "ended"}] /\ wake \in [Tasks -> WakeName]
  BY DEF IInv, TypeOK, WakeName
<1>3. ASSUME User, state' = [state EXCEPT ![current] = "ready"] \/ state' = [state EXCEPT ![current] = "blocked"]
               \/ state' = [state EXCEPT ![current] = "ended"]
      PROVE FALSE
  <2>1. current \in Tasks /\ state[current] = "running"  BY <1>3, RunningFacts
  <2> QED  BY <1>1, <1>2, <1>3, <2>1
<1>4. ASSUME NEW u \in Tasks, NEW w \in {"unit", "retry", "ready"}, Ready(u, w) PROVE FALSE
  BY <1>1, <1>2, <1>4 DEF Ready
<1>5. ASSUME UNCHANGED state PROVE FALSE  BY <1>1, <1>5
<1>6. CASE UserStep
  <2>1. ASSUME NEW b, NEW timed, User, SuspendIn(b, timed) PROVE FALSE
    BY <1>3, <2>1 DEF SuspendIn
  <2>2. ASSUME NEW d \in Time, Sleep(d) PROVE FALSE  BY <2>1, <2>2 DEF Sleep
  <2>3. ASSUME NEW kind, NEW timed, NEW d, SuspendIo(kind, timed, d) PROVE FALSE
    BY <2>1, <2>3 DEF SuspendIo
  <2>4. CASE Yield \/ Finish  BY <1>3, <2>4 DEF Yield, Finish
  <2>5. ASSUME NEW c \in Tasks, CancelNew(c) PROVE FALSE  BY <1>1, <1>2, <2>5 DEF CancelNew
  <2>6. ASSUME NEW c \in Tasks, Cancel(c) PROVE FALSE  BY <1>4, <1>5, <2>6 DEF Cancel
  <2> QED  BY <1>6, <2>2, <2>3, <2>4, <2>5, <2>6 DEF UserStep
<1>7. CASE Pick
  <2>1. \A u : state' = [state EXCEPT ![u] = "running"] => state'[t] # "ready"  BY <1>1, <1>2
  <2> QED  BY <1>1, <1>7, <2>1 DEF Pick
<1>8. ASSUME NEW k \in Token, HandleToken(k) PROVE FALSE
  <2>1. ioWaits[k] \in Tasks \cup {NoTask}  BY DEF IInv, TypeOK
  <2>2. CASE ioWaits[k] # NoTask /\ state[ioWaits[k]] = "blocked"
    BY <1>4, <1>8, <2>1, <2>2 DEF HandleToken
  <2>3. CASE ~(ioWaits[k] # NoTask /\ state[ioWaits[k]] = "blocked")
    BY <1>5, <1>8, <2>3 DEF HandleToken
  <2> QED  BY <2>2, <2>3
<1>9. ASSUME NEW e \in timers, Expire(e) PROVE IsDue(t)
  <2>1. Live(e)  BY <1>5, <1>9 DEF Expire
  <2>2. e.task \in Tasks /\ block[e.task].on \in {"sleep", "io", "ioRetry"}  BY <2>1, LiveTimer
  <2>3. state' = [state EXCEPT ![e.task] = "ready"]  BY <1>9, <2>1, <2>2 DEF Expire, Ready
  <2>4. e.task = t  BY <1>1, <1>2, <2>2, <2>3
  <2>5. e.at <= now
    <3>1. e.at <= asOf /\ asOf <= now  BY <1>9 DEF Expire, IInv, Control
    <3>2. e.at \in Int /\ asOf \in Int /\ now \in Int  BY DEF IInv, TypeOK, Timer, Time
    <3> QED  BY <3>1, <3>2
  <2> QED  BY <2>1, <2>4, <2>5 DEF IsDue, Live
<1>10. CASE WaitEvents \/ WaitOver \/ ExpireDone \/ Tick \/ UNCHANGED vars
  BY <1>5, <1>10 DEF WaitEvents, WaitOver, ExpireDone, Tick, recVars, vars
<1>11. ASSUME NEW S \in SUBSET Token, WaitReady(S) PROVE FALSE  BY <1>5, <1>11 DEF WaitReady, recVars
<1> QED  BY <1>6, <1>7, <1>8, <1>9, <1>10, <1>11 DEF Next, VMStep, EventStep, Terminated

(***************************************************************************)
(* A sleep or a timeout never ends early: when expired_timers wakes a      *)
(* task, the entry it popped is the one of the wait the task is in and its *)
(* deadline has passed.  Entries of earlier waits, which stay in the heap, *)
(* wake nobody.                                                            *)
(***************************************************************************)
THEOREM NeverEarlyTheorem == Spec => NeverEarly
<1>1. IInv /\ [Next]_vars => [\A t \in Tasks : TimerWoke(t) => IsDue(t)]_vars
  BY OnlyDueTimers
<1> QED  BY Invariant, <1>1, PTL DEF Spec, NeverEarly
=============================================================================
