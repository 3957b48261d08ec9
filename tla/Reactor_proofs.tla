--------------------------- MODULE Reactor_proofs ---------------------------
(***************************************************************************)
(* Proofs about Reactor, for any number of workers, spare threads and      *)
(* jobs: a job is in one place until it ends and `inflight` counts the     *)
(* jobs that have not ended; no thread sleeps on work that nobody is about *)
(* to tell it of.                                                          *)
(***************************************************************************)
EXTENDS Reactor, FiniteSetTheorems, SequenceTheorems, TLAPS

Elems(q) == {q[i] : i \in 1..Len(q)}
Distinct(q) == \A i, k \in 1..Len(q) : q[i] = q[k] => i = k

\* The places a submitted job can be in: the queues and the stacks.
Injector == <<"injector", Root>>
CaseBox == <<"cases", Root>>
DequeOf(w) == <<"deque", w>>
StackOf(e) == <<"stack", e>>
Box == {Injector, CaseBox} \cup {DequeOf(w) : w \in Workers} \cup {StackOf(e) : e \in Threads}
Held(b) ==
  IF b[1] = "injector" THEN injector
  ELSE IF b[1] = "cases" THEN cases
  ELSE IF b[1] = "deque" THEN deque[b[2]] ELSE stack[b[2]]
In(b) == Elems(Held(b))

Pcs == {"run", "push", "notifySubmit", "register", "stored", "notifyDone", "join",
        "local", "inject", "peers", "cases", "park", "waiting", "top", "exited", "off", "spare",
        "drain", "ending", "left", "notifyDown", "stopping", "stopped"}
Busy == {"run", "push", "notifySubmit", "register", "stored", "notifyDone", "join"}
Submitting == {"push", "notifySubmit", "register"}
Ending == {"stored", "notifyDone"}

Typed ==
  /\ runner \in BOOLEAN
  /\ kind \in Seq({"thread", "case"}) /\ Len(kind) <= MaxJobs
  /\ parent \in Seq(0..MaxJobs) /\ Len(parent) = Len(kind)
  /\ result \in Seq({"none", "stored", "taken"}) /\ Len(result) = Len(kind)
  /\ joined \subseteq Jobs /\ live \subseteq Jobs /\ detached \subseteq Jobs \ joined
  /\ awaits \in [0..MaxJobs -> 0..MaxJobs]
  /\ injector \in Seq(Nat) /\ cases \in Seq(Nat) /\ deque \in [Workers -> Seq(Nat)]
  /\ stack \in [Threads -> Seq(Nat)]
  /\ inflight \in Nat /\ shutdown \in BOOLEAN
  /\ sleep \in Threads \cup {NoThread}
  /\ pc \in [Threads -> Pcs]

\* The job e submits is the last one its own job submitted.
Newest(e, j) == parent[j] = Top(e) /\ \A k \in Jobs : parent[k] = Top(e) => k <= j

Control ==
  /\ \A e \in Threads :
       /\ pc[e] \in Busy => stack[e] # <<>>
       /\ pc[e] \in {"off", "spare"} => stack[e] = <<>>
       /\ pc[e] \in Ending => Top(e) # Program
       /\ pc[e] \in Submitting => \E j \in Jobs : Newest(e, j)
  /\ stack[Root] # <<>> /\ stack[Root][1] = Program

\* A job is in one place at most, once.
Once ==
  /\ \A b \in Box : Distinct(Held(b))
  /\ \A b, c \in Box : b # c => In(b) \cap In(c) = {}

Contents ==
  /\ \A b \in Box : In(b) \subseteq Jobs \cup {Program}
  /\ \A b \in Box \ {StackOf(Root)} : Program \notin In(b)
  /\ \A j \in In(CaseBox) : kind[j] = "case"

\* A job that is being submitted is nowhere yet.
Carries ==
  \A e \in Threads : pc[e] = "push" =>
    \A j \in Jobs : Newest(e, j) => result[j] = "none" /\ \A b \in Box : j \notin In(b)

\* A job without a result is somewhere; one with a result is at most on the
\* stack it is about to leave.
Status ==
  /\ \A j \in Jobs : result[j] = "none" =>
       \/ \E b \in Box : j \in In(b)
       \/ \E e \in Threads : pc[e] = "push" /\ Newest(e, j)
  /\ \A b \in Box : \A j \in In(b) \ {Program} : result[j] # "none" =>
       \E e \in Threads : b = StackOf(e) /\ pc[e] \in Ending /\ j = Top(e)
  /\ \A e \in Threads : pc[e] \in Ending => result[Top(e)] # "none"

None == {j \in Jobs : result[j] = "none"}
StoredAt == {e \in Threads : pc[e] = "stored"}
Pending == None \cup {Top(e) : e \in StoredAt}
Counted == inflight = Cardinality(None) + Cardinality(StoredAt) /\ inflight = Cardinality(Pending)

Base == Typed /\ Control /\ Once /\ Contents /\ Carries /\ Status /\ Counted

\* What e waits for is not there: the shutdown, or the result it joins.
Quiet == \A t \in Threads : ~Notifies(t)
Unmet(e) ==
  /\ stack[e] = <<>> => ~shutdown
  /\ stack[e] # <<>> => result[awaits[Top(e)]] # "stored"
Dequeless == \A w \in Workers : deque[w] = <<>>

\* A thread watches from the time it takes the mutex until it is woken.  What
\* it has looked at was empty, and still is, unless someone is on the way to
\* a notify, which waits for the mutex.
Looking == {"local", "inject", "peers", "cases"}
Watching(e) == sleep = e \/ pc[e] = "waiting"
Sure(e) ==
  /\ Unmet(e)
  /\ pc[e] \in {"peers", "cases", "waiting"} => injector = <<>>
  /\ pc[e] \in {"cases", "waiting"} => Dequeless
  /\ pc[e] = "waiting" /\ e \in Workers => cases = <<>>
Mutex == sleep # NoThread => pc[sleep] \in Looking
Watched == \A e \in Threads : Watching(e) /\ Quiet => Sure(e)

\* Who waits in a join waits for a job; who goes round the workers' loop runs
\* none.
Joining == Looking \cup {"join", "park", "waiting"}
Joins ==
  \A e \in Threads :
    /\ pc[e] \in Joining /\ stack[e] # <<>> => awaits[Top(e)] \in Jobs
    /\ \A i \in 1..(Len(stack[e]) - 1) : awaits[stack[e][i]] \in Jobs
    /\ pc[e] = "top" => stack[e] = <<>>

Wakes == Mutex /\ Watched /\ Joins
-----------------------------------------------------------------------------
(***************************************************************************)
(* Sequences of jobs.                                                      *)
(***************************************************************************)
LEMMA TailElems ==
  ASSUME NEW q \in Seq(Nat), q # <<>>, Distinct(q)
  PROVE  /\ Head(q) \in Elems(q) /\ Head(q) \in Nat /\ Tail(q) \in Seq(Nat) /\ Distinct(Tail(q))
         /\ Elems(Tail(q)) = Elems(q) \ {Head(q)}
<1> DEFINE n == Len(q)
           p == Tail(q)
<1>1. n \in Nat \ {0}  BY LenProperties, EmptySeq
<1>2. /\ p \in Seq(Nat) /\ Len(p) = n - 1 /\ Head(q) \in Nat /\ Head(q) = q[1]
      /\ \A i \in 1..(n - 1) : p[i] = q[i + 1]
  BY <1>1, HeadTailProperties
<1> HIDE DEF p
<1>3. \A i, k \in 1..n : q[i] = q[k] => i = k  BY DEF Distinct
<1>4. Elems(q) = {q[i] : i \in 1..n}  BY DEF Elems
<1>5. Elems(p) = {p[i] : i \in 1..(n - 1)}  BY <1>2 DEF Elems
<1> HIDE DEF n
<1>6. \A i \in 1..(n - 1) : i + 1 \in 1..n /\ i + 1 # 1 /\ i \in Int  BY <1>1
<1>7. \A i \in 1..n : i # 1 => i - 1 \in 1..(n - 1) /\ i = (i - 1) + 1  BY <1>1
<1>8. 1 \in 1..n  BY <1>1
<1>9. Distinct(p)
  <2> SUFFICES ASSUME NEW i \in 1..(n - 1), NEW k \in 1..(n - 1), p[i] = p[k] PROVE i = k
    BY <1>2 DEF Distinct
  <2>1. q[i + 1] = q[k + 1]  BY <1>2
  <2>2. i + 1 \in 1..n /\ k + 1 \in 1..n /\ i \in Int /\ k \in Int  BY <1>6
  <2>3. i + 1 = k + 1  BY ONLY <1>3, <2>1, <2>2
  <2> QED  BY ONLY <2>2, <2>3
<1>10. \A x : x \in Elems(p) <=> x \in Elems(q) /\ x # q[1]
  <2>1. ASSUME NEW x \in Elems(p) PROVE x \in Elems(q) /\ x # q[1]
    <3>1. PICK i \in 1..(n - 1) : x = q[i + 1]  BY <1>2, <1>5
    <3> QED  BY <1>3, <1>4, <1>6, <1>8, <3>1
  <2>2. ASSUME NEW x \in Elems(q), x # q[1] PROVE x \in Elems(p)
    <3>1. PICK i \in 1..n : x = q[i]  BY <1>4
    <3>2. i # 1  BY <2>2, <3>1
    <3>3. x = p[i - 1] /\ i - 1 \in 1..(n - 1)  BY <1>2, <1>7, <3>1, <3>2
    <3> QED  BY <1>5, <3>3
  <2> QED  BY <2>1, <2>2
<1> QED  BY <1>2, <1>4, <1>8, <1>9, <1>10 DEF p

LEMMA AppendElems ==
  ASSUME NEW q \in Seq(Nat), NEW x \in Nat
  PROVE  /\ Append(q, x) \in Seq(Nat) /\ Append(q, x) # <<>> /\ Last(Append(q, x)) = x
         /\ Append(q, x)[1] = IF q = <<>> THEN x ELSE q[1]
         /\ Elems(Append(q, x)) = Elems(q) \cup {x}
         /\ Distinct(q) /\ x \notin Elems(q) => Distinct(Append(q, x))
         /\ Len(Append(q, x)) = Len(q) + 1
         /\ \A i \in 1..Len(q) : Append(q, x)[i] = q[i]
<1> DEFINE n == Len(q)
           p == Append(q, x)
<1>1. n \in Nat /\ (q = <<>> <=> n = 0)  BY LenProperties, EmptySeq
<1>2. p \in Seq(Nat) /\ Len(p) = n + 1 /\ (\A i \in 1..n : p[i] = q[i]) /\ p[n + 1] = x  BY AppendProperties
<1>3. p # <<>>  BY <1>1, <1>2
<1> HIDE DEF p
<1>4. Last(p) = x  BY <1>2 DEF Last
<1>5. Distinct(q) => \A i, k \in 1..n : q[i] = q[k] => i = k  BY DEF Distinct
<1>6. Elems(q) = {q[i] : i \in 1..n}  BY DEF Elems
<1>7. Elems(p) = {p[i] : i \in 1..(n + 1)}  BY <1>2 DEF Elems
<1> HIDE DEF n
<1>8. \A i \in 1..(n + 1) : i \in 1..n \/ i = n + 1  BY <1>1
<1>9. \A i \in 1..n : i \in 1..(n + 1)  BY <1>1
<1>10. n + 1 \in 1..(n + 1)  BY <1>1
<1>11. Elems(p) = Elems(q) \cup {x}
  <2>1. Elems(p) \subseteq Elems(q) \cup {x}  BY <1>2, <1>6, <1>7, <1>8
  <2>2. Elems(q) \cup {x} \subseteq Elems(p)  BY <1>2, <1>6, <1>7, <1>9, <1>10
  <2> QED  BY <2>1, <2>2
<1>12. ASSUME Distinct(q), x \notin Elems(q) PROVE Distinct(p)
  <2> SUFFICES ASSUME NEW i \in 1..(n + 1), NEW k \in 1..(n + 1), p[i] = p[k] PROVE i = k
    BY <1>2 DEF Distinct
  <2>1. \A l \in 1..n : p[l] # x  BY <1>2, <1>6, <1>12
  <2> QED  BY <1>2, <1>5, <1>8, <1>12, <2>1
<1>13. p[1] = IF n = 0 THEN x ELSE q[1]
  <2>1. n # 0 => 1 \in 1..n  BY <1>1
  <2>2. n = 0 => n + 1 = 1  OBVIOUS
  <2> QED  BY <1>2, <2>1, <2>2
<1> QED  BY <1>1, <1>2, <1>3, <1>4, <1>11, <1>12, <1>13 DEF p, n

LEMMA FrontElems ==
  ASSUME NEW q \in Seq(Nat), q # <<>>, Distinct(q)
  PROVE  /\ Last(q) \in Elems(q) /\ Last(q) \in Nat /\ Front(q) \in Seq(Nat) /\ Distinct(Front(q))
         /\ Elems(Front(q)) = Elems(q) \ {Last(q)}
         /\ q[1] # Last(q) => Front(q) # <<>> /\ Front(q)[1] = q[1]
         /\ Len(Front(q)) = Len(q) - 1
         /\ \A i \in 1..(Len(q) - 1) : Front(q)[i] = q[i]
<1> DEFINE n == Len(q)
           p == Front(q)
<1>1. n \in Nat \ {0} /\ \A i \in 1..n : q[i] \in Nat  BY LenProperties, EmptySeq, ElementOfSeq
<1>2. p = SubSeq(q, 1, n - 1) /\ Last(q) = q[n]  BY DEF Front, Last
<1>3. \A i, k \in 1..n : q[i] = q[k] => i = k  BY DEF Distinct
<1>4. Elems(q) = {q[i] : i \in 1..n}  BY DEF Elems
<1> HIDE DEF n, p
<1>5. p \in Seq(Nat) /\ Len(p) = n - 1 /\ \A i \in 1..(n - 1) : p[i] = q[i]
  <2>1. \A i \in 1..(n - 1) : q[i] \in Nat  BY <1>1
  <2>2. /\ SubSeq(q, 1, n - 1) \in Seq(Nat)
        /\ Len(SubSeq(q, 1, n - 1)) = IF 1 <= n - 1 THEN (n - 1) - 1 + 1 ELSE 0
        /\ \A i \in 1..((n - 1) - 1 + 1) : SubSeq(q, 1, n - 1)[i] = q[1 + i - 1]
    BY <1>1, <2>1, SubSeqProperties
  <2>3. \A i \in 1..(n - 1) : i \in 1..((n - 1) - 1 + 1) /\ 1 + i - 1 = i  BY <1>1
  <2>4. (IF 1 <= n - 1 THEN (n - 1) - 1 + 1 ELSE 0) = n - 1  BY <1>1
  <2> QED  BY <1>2, <2>2, <2>3, <2>4
<1>6. Elems(p) = {p[i] : i \in 1..(n - 1)}  BY <1>5 DEF Elems
<1>7. n \in 1..n /\ (\A i \in 1..(n - 1) : i \in 1..n /\ i # n) /\ \A i \in 1..n : i = n \/ i \in 1..(n - 1)
  BY <1>1
<1>8. Distinct(p)
  <2> SUFFICES ASSUME NEW i \in 1..(n - 1), NEW k \in 1..(n - 1), p[i] = p[k] PROVE i = k
    BY <1>5 DEF Distinct
  <2> QED  BY <1>3, <1>5, <1>7
<1>9. Elems(p) = Elems(q) \ {q[n]}
  <2>1. ASSUME NEW x \in Elems(p) PROVE x \in Elems(q) /\ x # q[n]
    <3>1. PICK i \in 1..(n - 1) : x = q[i]  BY <1>5, <1>6
    <3>2. i \in 1..n /\ i # n  BY <1>7
    <3> QED  BY <1>3, <1>4, <1>7, <3>1, <3>2
  <2>2. \A x \in Elems(q) : x # q[n] => x \in Elems(p)  BY <1>4, <1>5, <1>6, <1>7
  <2> QED  BY <2>1, <2>2
<1>10. q[1] # q[n] => p # <<>> /\ p[1] = q[1]
  <2> SUFFICES ASSUME q[1] # q[n] PROVE p # <<>> /\ p[1] = q[1]
    OBVIOUS
  <2>1. n # 1  OBVIOUS
  <2>2. 1 \in 1..(n - 1) /\ n - 1 # 0  BY <1>1, <2>1
  <2>3. Len(p) # 0  BY <1>5, <2>2
  <2>4. p # <<>>  BY <2>3
  <2> QED  BY <1>5, <2>2, <2>4
<1> QED  BY <1>1, <1>2, <1>4, <1>5, <1>7, <1>8, <1>9, <1>10 DEF p, n

LEMMA NoElems ==
  ASSUME NEW q \in Seq(Nat)
  PROVE  q = <<>> <=> Elems(q) = {}
<1> DEFINE n == Len(q)
<1>1. n \in Nat /\ (q = <<>> <=> n = 0) /\ Elems(q) = {q[i] : i \in 1..n}  BY LenProperties, EmptySeq DEF Elems
<1> HIDE DEF n
<1>2. n # 0 => 1 \in 1..n  BY <1>1
<1>3. n = 0 => 1..n = {}  BY <1>1
<1> QED  BY <1>1, <1>2, <1>3

-----------------------------------------------------------------------------
(***************************************************************************)
(* The places.                                                             *)
(***************************************************************************)
LEMMA Boxes ==
  /\ Injector \in Box /\ CaseBox \in Box /\ Injector # CaseBox
  /\ \A w \in Workers : DequeOf(w) \in Box /\ DequeOf(w) # Injector /\ DequeOf(w) # CaseBox
  /\ \A e \in Threads : StackOf(e) \in Box /\ StackOf(e) # Injector /\ StackOf(e) # CaseBox
  /\ \A w \in Workers, e \in Threads : DequeOf(w) # StackOf(e)
  /\ \A w, v \in Workers : DequeOf(w) = DequeOf(v) => w = v
  /\ \A e, t \in Threads : StackOf(e) = StackOf(t) => e = t
  /\ \A b \in Box : \/ b = Injector \/ b = CaseBox
                    \/ \E w \in Workers : b = DequeOf(w)
                    \/ \E e \in Threads : b = StackOf(e)
  BY DEF Box, Injector, CaseBox, DequeOf, StackOf

LEMMA HeldNow ==
  /\ Held(Injector) = injector /\ Held(CaseBox) = cases
  /\ \A w \in Workers : Held(DequeOf(w)) = deque[w]
  /\ \A e \in Threads : Held(StackOf(e)) = stack[e]
  BY DEF Held, Injector, CaseBox, DequeOf, StackOf

LEMMA HeldNext ==
  /\ Held(Injector)' = injector' /\ Held(CaseBox)' = cases'
  /\ \A w \in Workers : Held(DequeOf(w))' = deque'[w]
  /\ \A e \in Threads : Held(StackOf(e))' = stack'[e]
  BY DEF Held, Injector, CaseBox, DequeOf, StackOf

LEMMA HeldSame ==
  ASSUME UNCHANGED <<injector, cases, deque, stack>>
  PROVE  /\ \A b \in Box : Held(b)' = Held(b) /\ In(b)' = In(b)
         /\ \A e \in Threads : Top(e)' = Top(e)
  BY DEF Held, In, Top

LEMMA HeldTypes ==
  ASSUME Typed, NEW b \in Box
  PROVE  Held(b) \in Seq(Nat)
<1>1. injector \in Seq(Nat) /\ cases \in Seq(Nat)  BY DEF Typed
<1>2. \A w \in Workers : deque[w] \in Seq(Nat)  BY DEF Typed
<1>3. \A e \in Threads : stack[e] \in Seq(Nat)  BY DEF Typed
<1> QED  BY <1>1, <1>2, <1>3, Boxes, HeldNow

\* What runs on top of a stack: on no other stack and in no queue.
LEMMA Tops ==
  ASSUME Base, NEW e \in Threads, stack[e] # <<>>
  PROVE  /\ Top(e) \in In(StackOf(e)) /\ Top(e) \in 0..Len(kind)
         /\ \A b \in Box : Top(e) \in In(b) => b = StackOf(e)
         /\ \A t \in Threads : t # e /\ stack[t] # <<>> => Top(t) # Top(e)
         /\ e # Root => Top(e) \in Jobs
         /\ Top(e) # Program => Top(e) \in Jobs
<1>1. \A t \in Threads : stack[t] # <<>> => Top(t) \in In(StackOf(t))
  <2> SUFFICES ASSUME NEW t \in Threads, stack[t] # <<>> PROVE Top(t) \in In(StackOf(t))
    OBVIOUS
  <2>1. stack[t] \in Seq(Nat)  BY DEF Base, Typed
  <2>2. Distinct(stack[t])  BY Boxes, HeldNow DEF Base, Once
  <2>3. Last(stack[t]) \in Elems(stack[t])  BY <2>1, <2>2, FrontElems
  <2> QED  BY <2>3, HeldNow DEF Top, In
<1>2. \A b \in Box : Top(e) \in In(b) => b = StackOf(e)  BY <1>1, Boxes DEF Base, Once
<1>3. \A t \in Threads : t # e /\ stack[t] # <<>> => Top(t) # Top(e)  BY <1>1, <1>2, Boxes
<1>4. Top(e) \in Jobs \cup {Program}  BY <1>1, Boxes DEF Base, Contents
<1>5. e # Root => Top(e) # Program
  <2>1. e # Root => StackOf(e) \in Box \ {StackOf(Root)}  BY Boxes DEF Threads
  <2> QED  BY <1>1, <2>1 DEF Base, Contents
<1>6. Jobs \cup {Program} \subseteq 0..Len(kind)
  <2>1. Len(kind) \in Nat  BY LenProperties DEF Base, Typed
  <2> QED  BY <2>1 DEF Jobs, Program
<1> QED  BY <1>1, <1>2, <1>3, <1>4, <1>5, <1>6

(***************************************************************************)
(* Steps that neither move a job nor end one.                              *)
(***************************************************************************)
Calm(t) ==
  \/ pc'[t] = pc[t]
  \/ /\ pc[t] \notin Ending \cup {"push"} /\ pc'[t] \notin Ending \cup {"push"}
     /\ pc'[t] \in Busy => stack[t] # <<>>
     /\ pc'[t] \in {"off", "spare"} => stack[t] = <<>>
     /\ pc'[t] \in Submitting => pc[t] \in Submitting

LEMMA CalmStep ==
  ASSUME Base, Typed', UNCHANGED <<kind, parent, injector, cases, deque, inflight, stack>>,
         \A j \in Jobs : result'[j] = "none" <=> result[j] = "none",
         \A t \in Threads : Calm(t)
  PROVE  Base'
<1>1. /\ \A b \in Box : Held(b)' = Held(b) /\ In(b)' = In(b)
      /\ \A e \in Threads : Top(e)' = Top(e)
      /\ Jobs' = Jobs
  BY HeldSame DEF Jobs
<1>2. \A e \in Threads : \A j \in Jobs : Newest(e, j)' <=> Newest(e, j)  BY <1>1 DEF Newest
<1>3. \A t \in Threads : (pc'[t] \in Ending <=> pc[t] \in Ending) /\ (pc'[t] = "push" <=> pc[t] = "push")
                         /\ (pc'[t] = "stored" <=> pc[t] = "stored")
  BY DEF Calm, Ending
<1>4. Control'
  <2>1. \A t \in Threads : pc'[t] \in Busy => stack[t] # <<>>  BY DEF Calm, Base, Control
  <2>2. \A t \in Threads : pc'[t] \in {"off", "spare"} => stack[t] = <<>>  BY DEF Calm, Base, Control
  <2>3. \A t \in Threads : pc'[t] \in Ending => Top(t) # Program  BY <1>3 DEF Base, Control
  <2>4. \A t \in Threads : pc'[t] \in Submitting => \E j \in Jobs : Newest(t, j)  BY DEF Calm, Base, Control
  <2> QED  BY <1>1, <1>2, <2>1, <2>2, <2>3, <2>4 DEF Base, Control
<1>5. Once'  BY <1>1 DEF Base, Once
<1>6. Contents'  BY <1>1, Boxes DEF Base, Contents
<1>7. Carries'  BY <1>1, <1>2, <1>3 DEF Base, Carries
<1>8. Status'
  <2>1. \A j \in Jobs' : result'[j] = "none" =>
          \/ \E b \in Box : j \in In(b)'
          \/ \E e \in Threads : pc'[e] = "push" /\ Newest(e, j)'
    BY <1>1, <1>2, <1>3 DEF Base, Status
  <2>2. \A b \in Box : \A j \in In(b)' \ {Program} : result'[j] # "none" =>
          \E e \in Threads : b = StackOf(e) /\ pc'[e] \in Ending /\ j = Top(e)'
    <3> SUFFICES ASSUME NEW b \in Box, NEW j \in In(b) \ {Program}, result'[j] # "none"
                 PROVE  \E e \in Threads : b = StackOf(e) /\ pc'[e] \in Ending /\ j = Top(e)'
      BY <1>1
    <3>1. j \in Jobs  BY DEF Base, Contents
    <3>2. PICK e \in Threads : b = StackOf(e) /\ pc[e] \in Ending /\ j = Top(e)  BY <3>1 DEF Base, Status
    <3> QED  BY <1>1, <1>3, <3>2
  <2>3. \A e \in Threads : pc'[e] \in Ending => result'[Top(e)'] # "none"
    <3> SUFFICES ASSUME NEW e \in Threads, pc[e] \in Ending PROVE result'[Top(e)] # "none"
      BY <1>1, <1>3
    <3>1. stack[e] # <<>> /\ Top(e) # Program  BY DEF Base, Control, Busy, Ending
    <3>2. Top(e) \in Jobs  BY <3>1, Tops
    <3> QED  BY <3>2 DEF Base, Status
  <2> QED  BY <2>1, <2>2, <2>3 DEF Status
<1>9. Counted'
  <2>1. None' = None  BY <1>1 DEF None
  <2>2. StoredAt' = StoredAt  BY <1>3 DEF StoredAt
  <2>3. Pending' = Pending
    <3>1. {Top(e)' : e \in StoredAt} = {Top(e) : e \in StoredAt}  BY <1>1 DEF StoredAt
    <3> QED  BY <2>1, <2>2, <3>1 DEF Pending
  <2> QED  BY <2>1, <2>2, <2>3 DEF Base, Counted
<1> QED  BY <1>4, <1>5, <1>6, <1>7, <1>8, <1>9 DEF Base

(***************************************************************************)
(* A thread takes the head of a queue and runs it.                         *)
(***************************************************************************)
Takes(e, b) ==
  /\ b \in Box /\ (\A t \in Threads : b # StackOf(t)) /\ Held(b) # <<>>
  /\ Held(b)' = Tail(Held(b))
  /\ Held(StackOf(e))' = Append(Held(StackOf(e)), Head(Held(b)))
  /\ \A c \in Box \ {b, StackOf(e)} : Held(c)' = Held(c)

LEMMA TakeFacts ==
  ASSUME Base, NEW e \in Threads, NEW b, Takes(e, b)
  PROVE  /\ Head(Held(b)) \in In(b) /\ Head(Held(b)) \in Jobs /\ result[Head(Held(b))] = "none"
         /\ In(b)' = In(b) \ {Head(Held(b))} /\ Distinct(Held(b)')
         /\ In(StackOf(e))' = In(StackOf(e)) \cup {Head(Held(b))} /\ Distinct(Held(StackOf(e))')
         /\ \A c \in Box \ {b, StackOf(e)} : In(c)' = In(c)
         /\ stack'[e] # <<>> /\ Top(e)' = Head(Held(b))
         /\ stack[e] # <<>> => stack'[e][1] = stack[e][1]
         /\ \A t \in Threads \ {e} : stack'[t] = stack[t] /\ Top(t)' = Top(t)
<1> DEFINE j == Head(Held(b))
           q == Held(b)
           s == Held(StackOf(e))
<1>1. b \in Box /\ StackOf(e) \in Box /\ b # StackOf(e) /\ b # StackOf(Root)
  BY Boxes DEF Takes, Threads
<1>2. q \in Seq(Nat) /\ s \in Seq(Nat)  BY <1>1, HeldTypes DEF Base
<1>3. q # <<>> /\ Distinct(q) /\ Distinct(s)  BY <1>1 DEF Takes, Base, Once
<1>4. /\ j \in Elems(q) /\ j \in Nat /\ Distinct(Tail(q)) /\ Elems(Tail(q)) = Elems(q) \ {j}
  BY <1>2, <1>3, TailElems
<1>5. j \in In(b)  BY <1>4 DEF In
<1>6. j \in Jobs /\ j # Program  BY <1>1, <1>5 DEF Base, Contents
<1>7. result[j] = "none"  BY <1>1, <1>5, <1>6 DEF Base, Status, Takes
<1>8. j \notin In(StackOf(e))  BY <1>1, <1>5 DEF Base, Once
<1>9. /\ Append(s, j) # <<>> /\ Last(Append(s, j)) = j /\ Distinct(Append(s, j))
      /\ Append(s, j)[1] = IF s = <<>> THEN j ELSE s[1]
      /\ Elems(Append(s, j)) = Elems(s) \cup {j}
  <2>1. j \notin Elems(s)  BY <1>8 DEF In
  <2> QED  BY <1>2, <1>3, <1>4, <2>1, AppendElems
<1>10. Held(b)' = Tail(q) /\ Held(StackOf(e))' = Append(s, j)  BY DEF Takes
<1> HIDE DEF j, q, s
<1>11. In(b)' = In(b) \ {j}  BY <1>4, <1>10 DEF In, q
<1>12. In(StackOf(e))' = In(StackOf(e)) \cup {j}  BY <1>9, <1>10 DEF In, s
<1>13. \A c \in Box \ {b, StackOf(e)} : In(c)' = In(c)  BY DEF Takes, In
<1>14. stack'[e] = Append(s, j) /\ s = stack[e]  BY <1>10, HeldNow, HeldNext DEF s
<1>15. stack'[e] # <<>> /\ Top(e)' = j /\ (stack[e] # <<>> => stack'[e][1] = stack[e][1])
  BY <1>9, <1>14 DEF Top
<1>16. \A t \in Threads \ {e} : stack'[t] = stack[t] /\ Top(t)' = Top(t)
  <2> SUFFICES ASSUME NEW t \in Threads \ {e} PROVE stack'[t] = stack[t] /\ Top(t)' = Top(t)
    OBVIOUS
  <2>1. StackOf(t) \in Box \ {b, StackOf(e)}  BY Boxes DEF Takes
  <2>2. Held(StackOf(t))' = Held(StackOf(t))  BY <2>1 DEF Takes
  <2>3. stack'[t] = stack[t]  BY <2>2, HeldNow, HeldNext
  <2> QED  BY <2>3 DEF Top
<1> QED  BY <1>4, <1>5, <1>6, <1>7, <1>9, <1>10, <1>11, <1>12, <1>13, <1>15, <1>16 DEF j

LEMMA TakeStep ==
  ASSUME Base, Typed', NEW e \in Threads, NEW b, Takes(e, b),
         UNCHANGED <<kind, parent, result, inflight>>,
         pc[e] \in Looking \cup {"off", "spare"}, pc'[e] = "run",
         \A t \in Threads \ {e} : pc'[t] = pc[t]
  PROVE  Base'
<1> DEFINE j == Head(Held(b))
<1>1. /\ j \in In(b) /\ j \in Jobs /\ result[j] = "none"
      /\ In(b)' = In(b) \ {j} /\ Distinct(Held(b)')
      /\ In(StackOf(e))' = In(StackOf(e)) \cup {j} /\ Distinct(Held(StackOf(e))')
      /\ \A c \in Box \ {b, StackOf(e)} : In(c)' = In(c)
      /\ stack'[e] # <<>> /\ Top(e)' = j
      /\ stack[e] # <<>> => stack'[e][1] = stack[e][1]
      /\ \A t \in Threads \ {e} : stack'[t] = stack[t] /\ Top(t)' = Top(t)
  BY TakeFacts
<1>2. /\ b \in Box /\ StackOf(e) \in Box /\ b # StackOf(e) /\ \A t \in Threads : b # StackOf(t)
      /\ \A c \in Box \ {b, StackOf(e)} : Held(c)' = Held(c)
  BY Boxes DEF Takes
<1> HIDE DEF j
<1>3. Jobs' = Jobs /\ j # Program  BY <1>1 DEF Jobs, Program
<1>4. pc[e] \notin Ending \cup {"push"} /\ pc'[e] \notin Ending \cup {"push"} \cup Submitting
  BY DEF Looking, Ending, Submitting
<1>5. \A t \in Threads \ {e} : \A k \in Jobs : Newest(t, k)' <=> Newest(t, k)  BY <1>1, <1>3 DEF Newest
<1>6. Control'
  <2>1. \A t \in Threads \ {e} : /\ pc'[t] \in Busy => stack'[t] # <<>>
                                 /\ pc'[t] \in {"off", "spare"} => stack'[t] = <<>>
                                 /\ pc'[t] \in Ending => Top(t)' # Program
                                 /\ pc'[t] \in Submitting => \E k \in Jobs' : Newest(t, k)'
    BY <1>1, <1>3, <1>5 DEF Base, Control
  <2>2. stack'[Root] # <<>> /\ stack'[Root][1] = Program
    <3>1. Root \in Threads  BY DEF Threads
    <3>2. CASE e = Root  BY <1>1, <3>2 DEF Base, Control
    <3>3. CASE e # Root  BY <1>1, <3>1, <3>3 DEF Base, Control
    <3> QED  BY <3>2, <3>3
  <2> QED  BY <1>1, <1>4, <2>1, <2>2 DEF Control
<1>7. Once'
  <2>1. \A c \in Box : Distinct(Held(c)')  BY <1>1, <1>2 DEF Base, Once
  <2>2. ASSUME NEW c \in Box, NEW d \in Box, c # d PROVE In(c)' \cap In(d)' = {}
    <3>1. In(c) \cap In(d) = {} /\ (c # b => j \notin In(c)) /\ (d # b => j \notin In(d))
      BY <1>1, <1>2, <2>2 DEF Base, Once
    <3>2. In(c)' \subseteq In(c) \cup {j} /\ In(d)' \subseteq In(d) \cup {j}  BY <1>1, <1>2
    <3>3. (c # StackOf(e) => j \notin In(c)') /\ (d # StackOf(e) => j \notin In(d)')  BY <1>1, <1>2, <3>1
    <3> QED  BY <2>2, <3>1, <3>2, <3>3
  <2> QED  BY <2>1, <2>2 DEF Once
<1>8. Contents'
  <2>1. \A c \in Box : In(c)' \subseteq In(c) \cup {j}  BY <1>1, <1>2
  <2>2. In(CaseBox)' \subseteq In(CaseBox)  BY <1>1, <1>2, Boxes
  <2> QED  BY <1>1, <1>3, <2>1, <2>2 DEF Base, Contents
<1>9. \A k : (\E c \in Box : k \in In(c)') <=> (\E c \in Box : k \in In(c))
  <2>1. \A c \in Box : \A k \in In(c)' : \E d \in Box : k \in In(d)  BY <1>1, <1>2
  <2>2. \A c \in Box : \A k \in In(c) : k = j \/ k \in In(c)'  BY <1>1, <1>2
  <2>3. j \in In(StackOf(e))'  BY <1>1
  <2> QED  BY <1>2, <2>1, <2>2, <2>3
<1>10. Carries'
  <2> SUFFICES ASSUME NEW t \in Threads, pc'[t] = "push", NEW k \in Jobs, Newest(t, k)'
               PROVE  result'[k] = "none" /\ \A c \in Box : k \notin In(c)'
    BY <1>3 DEF Carries
  <2>1. t # e /\ pc[t] = "push" /\ Newest(t, k)  BY <1>4, <1>5
  <2>2. result[k] = "none" /\ \A c \in Box : k \notin In(c)  BY <2>1 DEF Base, Carries
  <2> QED  BY <1>9, <2>2
<1>11. Status'
  <2>1. \A k \in Jobs' : result'[k] = "none" =>
          \/ \E c \in Box : k \in In(c)'
          \/ \E t \in Threads : pc'[t] = "push" /\ Newest(t, k)'
    <3> SUFFICES ASSUME NEW k \in Jobs, result[k] = "none", \A c \in Box : k \notin In(c)'
                 PROVE  \E t \in Threads : pc'[t] = "push" /\ Newest(t, k)'
      BY <1>3
    <3>1. PICK t \in Threads : pc[t] = "push" /\ Newest(t, k)  BY <1>9 DEF Base, Status
    <3> QED  BY <1>4, <1>5, <3>1
  <2>2. \A c \in Box : \A k \in In(c)' \ {Program} : result'[k] # "none" =>
          \E t \in Threads : c = StackOf(t) /\ pc'[t] \in Ending /\ k = Top(t)'
    <3> SUFFICES ASSUME NEW c \in Box, NEW k \in In(c)' \ {Program}, result[k] # "none"
                 PROVE  \E t \in Threads : c = StackOf(t) /\ pc'[t] \in Ending /\ k = Top(t)'
      OBVIOUS
    <3>1. k \in In(c)  BY <1>1, <1>2
    <3>2. PICK t \in Threads : c = StackOf(t) /\ pc[t] \in Ending /\ k = Top(t)  BY <3>1 DEF Base, Status
    <3> QED  BY <1>1, <1>4, <3>2
  <2>3. \A t \in Threads : pc'[t] \in Ending => result'[Top(t)'] # "none"
    BY <1>1, <1>4 DEF Base, Status
  <2> QED  BY <2>1, <2>2, <2>3 DEF Status
<1>12. Counted'
  <2>1. None' = None  BY <1>3 DEF None
  <2>2. StoredAt' = StoredAt /\ e \notin StoredAt  BY <1>4 DEF StoredAt, Ending
  <2>3. Pending' = Pending
    <3>1. \A t \in StoredAt : Top(t)' = Top(t)  BY <1>1, <2>2 DEF StoredAt
    <3>2. {Top(t)' : t \in StoredAt} = {Top(t) : t \in StoredAt}  BY <3>1
    <3> QED  BY <2>1, <2>2, <3>2 DEF Pending
  <2> QED  BY <2>1, <2>2, <2>3 DEF Base, Counted
<1> QED  BY <1>6, <1>7, <1>8, <1>10, <1>11, <1>12 DEF Base

(***************************************************************************)
(* Submitting a job.                                                       *)
(***************************************************************************)
LEMMA JobSets ==
  ASSUME Base
  PROVE  /\ Len(kind) \in Nat /\ Jobs = 1..Len(kind)
         /\ IsFiniteSet(Jobs) /\ IsFiniteSet(None) /\ None \subseteq Jobs
         /\ IsFiniteSet(StoredAt) /\ StoredAt \subseteq Threads
         /\ \A e \in StoredAt : stack[e] # <<>> /\ Top(e) \in Jobs /\ result[Top(e)] # "none"
         /\ IsFiniteSet(Pending) /\ Pending \subseteq Jobs
<1>1. Len(kind) \in Nat /\ Jobs = 1..Len(kind)  BY LenProperties DEF Base, Typed, Jobs
<1>2. IsFiniteSet(Jobs)  BY <1>1, FS_Interval
<1>3. IsFiniteSet(None) /\ None \subseteq Jobs  BY <1>2, FS_Subset DEF None
<1>4. IsFiniteSet(Threads)
  <2>1. IsFiniteSet({Root}) /\ IsFiniteSet(Workers \cup Spares)
    BY ReactorAssumption, FS_Singleton, FS_Union
  <2> QED  BY <2>1, FS_Union DEF Threads
<1>5. IsFiniteSet(StoredAt) /\ StoredAt \subseteq Threads  BY <1>4, FS_Subset DEF StoredAt
<1>6. \A e \in StoredAt : stack[e] # <<>> /\ Top(e) \in Jobs /\ result[Top(e)] # "none"
  <2> SUFFICES ASSUME NEW e \in StoredAt PROVE stack[e] # <<>> /\ Top(e) \in Jobs /\ result[Top(e)] # "none"
    OBVIOUS
  <2>1. e \in Threads /\ pc[e] \in Ending /\ pc[e] \in Busy  BY DEF StoredAt, Ending, Busy
  <2>2. stack[e] # <<>> /\ Top(e) # Program  BY <2>1 DEF Base, Control
  <2> QED  BY <2>1, <2>2, Tops DEF Base, Status
<1>7. Pending \subseteq Jobs  BY <1>3, <1>6 DEF Pending
<1>8. IsFiniteSet(Pending)  BY <1>2, <1>7, FS_Subset
<1> QED  BY <1>1, <1>2, <1>3, <1>5, <1>6, <1>7, <1>8

LEMMA SubmitStep ==
  ASSUME Base, Typed', NEW e \in Threads, NEW k, Submit(e, k)
  PROVE  Base'
<1>0. PICK n \in Nat, j \in Nat : n = Len(kind) /\ j = n + 1  BY JobSets
<1>1. /\ pc[e] = "run" /\ kind' = Append(kind, k) /\ parent' = Append(parent, Top(e))
      /\ result' = Append(result, "none") /\ inflight' = inflight + 1
      /\ UNCHANGED <<injector, cases, deque, stack>> /\ pc' = [pc EXCEPT ![e] = "push"]
  BY DEF Submit, At, Goto, queues
<1>2. Jobs = 1..n /\ Len(parent) = n /\ Len(result) = n /\ parent \in Seq(0..MaxJobs)
      /\ result \in Seq({"none", "stored", "taken"}) /\ k \in {"thread", "case"}
      /\ kind \in Seq({"thread", "case"})
  <2>1. kind' \in Seq({"thread", "case"})  BY DEF Typed
  <2>2. Len(kind) \in Nat /\ kind \in Seq({"thread", "case"})  BY JobSets DEF Base, Typed
  <2>3. k \in {"thread", "case"}  BY <1>1, <2>1, <2>2
  <2> QED  BY <1>0, <2>2, <2>3, JobSets DEF Base, Typed
<1>3. /\ Len(kind') = j /\ \A i \in 1..n : kind'[i] = kind[i]
  BY <1>0, <1>1, <1>2, AppendProperties
<1>4. stack[e] # <<>> /\ Top(e) \in 0..MaxJobs
  <2>1. stack[e] # <<>>  BY <1>1 DEF Base, Control, Busy
  <2>2. Top(e) \in 0..Len(kind)  BY <2>1, Tops
  <2> QED  BY <1>0, <1>2, <2>1, <2>2, ReactorAssumption DEF Base, Typed
<1>5. parent'[j] = Top(e) /\ \A i \in 1..n : parent'[i] = parent[i]
  BY <1>0, <1>1, <1>2, <1>4, AppendProperties
<1>6. result'[j] = "none" /\ \A i \in 1..n : result'[i] = result[i]
  BY <1>0, <1>1, <1>2, AppendProperties
<1>7. Jobs' = Jobs \cup {j} /\ j \notin Jobs /\ j # Program /\ \A i \in Jobs : i <= j
  BY <1>0, <1>2, <1>3 DEF Jobs, Program
<1>8. /\ \A b \in Box : Held(b)' = Held(b) /\ In(b)' = In(b)
      /\ \A t \in Threads : Top(t)' = Top(t)
  BY <1>1, HeldSame
<1>9. /\ pc'[e] = "push" /\ \A t \in Threads \ {e} : pc'[t] = pc[t]
  BY <1>1 DEF Base, Typed
<1>10. Newest(e, j)' /\ \A i \in Jobs' : Newest(e, i)' => i = j
  <2>1. Newest(e, j)'  BY <1>5, <1>7, <1>8 DEF Newest
  <2>2. \A i \in Jobs' : Newest(e, i)' => j <= i  BY <1>5, <1>7, <1>8 DEF Newest
  <2>3. \A i \in Jobs' : i \in Int /\ (i = j \/ i <= j)  BY <1>2, <1>7
  <2>4. \A i \in Jobs' : j <= i /\ i <= j => i = j  BY <1>7, <2>3
  <2> QED  BY <1>7, <2>1, <2>2, <2>3, <2>4
<1>11. ASSUME NEW t \in Threads, t # e, stack[t] # <<>>
       PROVE  ~Newest(t, j)' /\ \A i \in Jobs : Newest(t, i)' <=> Newest(t, i)
  <2>1. Top(t) # Top(e)  BY <1>4, <1>11, Tops
  <2>2. parent'[j] # Top(t) /\ \A i \in Jobs : parent'[i] = parent[i]  BY <1>2, <1>5, <2>1
  <2> QED  BY <1>7, <1>8, <2>2 DEF Newest
<1>12. \A t \in Threads : pc[t] \in Busy => stack[t] # <<>>  BY DEF Base, Control
<1>13. Control'
  <2>1. \A t \in Threads : pc'[t] \in Busy => stack'[t] # <<>>  BY <1>1, <1>4, <1>9, <1>12
  <2>2. \A t \in Threads : pc'[t] \in {"off", "spare"} => stack'[t] = <<>>  BY <1>1, <1>9 DEF Base, Control
  <2>3. \A t \in Threads : pc'[t] \in Ending => Top(t)' # Program  BY <1>8, <1>9 DEF Base, Control, Ending
  <2>4. ASSUME NEW t \in Threads, pc'[t] \in Submitting PROVE \E i \in Jobs' : Newest(t, i)'
    <3>1. CASE t = e  BY <1>7, <1>10, <3>1
    <3>2. CASE t # e
      <4>1. pc[t] \in Submitting /\ pc[t] \in Busy  BY <1>9, <2>4, <3>2 DEF Submitting, Busy
      <4>2. PICK i \in Jobs : Newest(t, i)  BY <4>1 DEF Base, Control
      <4> QED  BY <1>7, <1>11, <1>12, <3>2, <4>1, <4>2
    <3> QED  BY <3>1, <3>2
  <2> QED  BY <1>1, <2>1, <2>2, <2>3, <2>4 DEF Base, Control
<1>14. Once'  BY <1>8 DEF Base, Once
<1>15. Contents'
  <2>1. \A i \in In(CaseBox) : kind'[i] = "case"
    <3>1. In(CaseBox) \subseteq Jobs
      <4>1. CaseBox \in Box \ {StackOf(Root)}  BY Boxes DEF Threads
      <4> QED  BY <4>1 DEF Base, Contents
    <3> QED  BY <1>2, <1>3, <3>1 DEF Base, Contents
  <2> QED  BY <1>7, <1>8, <2>1, Boxes DEF Base, Contents
<1>16. \A b \in Box : j \notin In(b)  BY <1>7 DEF Base, Contents
<1>17. \A i \in Jobs : result'[i] = result[i]  BY <1>2, <1>6
<1>18. Carries'
  <2> SUFFICES ASSUME NEW t \in Threads, pc'[t] = "push", NEW i \in Jobs', Newest(t, i)'
               PROVE  result'[i] = "none" /\ \A b \in Box : i \notin In(b)'
    BY DEF Carries
  <2>1. CASE t = e  BY <1>6, <1>8, <1>10, <1>16, <2>1
  <2>2. CASE t # e
    <3>1. pc[t] = "push" /\ stack[t] # <<>>  BY <1>9, <1>12, <2>2 DEF Busy
    <3>2. i \in Jobs /\ Newest(t, i)  BY <1>7, <1>11, <2>2, <3>1
    <3> QED  BY <1>8, <1>17, <3>1, <3>2 DEF Base, Carries
  <2> QED  BY <2>1, <2>2
<1>19. Status'
  <2>1. ASSUME NEW i \in Jobs', result'[i] = "none"
        PROVE  \/ \E b \in Box : i \in In(b)'
               \/ \E t \in Threads : pc'[t] = "push" /\ Newest(t, i)'
    <3>1. CASE i = j  BY <1>9, <1>10, <3>1
    <3>2. CASE i \in Jobs /\ \E b \in Box : i \in In(b)  BY <1>8, <3>2
    <3>3. CASE i \in Jobs /\ \E t \in Threads : pc[t] = "push" /\ Newest(t, i)
      <4>1. PICK t \in Threads : pc[t] = "push" /\ Newest(t, i)  BY <3>3
      <4>2. t # e /\ stack[t] # <<>>  BY <1>1, <1>12, <4>1 DEF Busy
      <4> QED  BY <1>9, <1>11, <3>3, <4>1, <4>2
    <3>4. i # j => i \in Jobs /\ result[i] = "none"  BY <1>7, <1>17, <2>1
    <3> QED  BY <3>1, <3>2, <3>3, <3>4 DEF Base, Status
  <2>2. ASSUME NEW b \in Box, NEW i \in In(b)' \ {Program}, result'[i] # "none"
        PROVE  \E t \in Threads : b = StackOf(t) /\ pc'[t] \in Ending /\ i = Top(t)'
    <3>1. i \in In(b) /\ i \in Jobs  BY <1>8 DEF Base, Contents
    <3>2. PICK t \in Threads : b = StackOf(t) /\ pc[t] \in Ending /\ i = Top(t)
      BY <1>17, <2>2, <3>1 DEF Base, Status
    <3>3. t # e  BY <1>1, <3>2 DEF Ending
    <3> QED  BY <1>8, <1>9, <3>2, <3>3
  <2>3. ASSUME NEW t \in Threads, pc'[t] \in Ending PROVE result'[Top(t)'] # "none"
    <3>1. t # e /\ pc[t] \in Ending  BY <1>9, <2>3 DEF Ending
    <3>2. Top(t) \in Jobs /\ result[Top(t)] # "none"
      BY <1>12, <3>1, Tops DEF Base, Control, Status, Busy, Ending
    <3> QED  BY <1>8, <1>17, <3>2
  <2> QED  BY <2>1, <2>2, <2>3 DEF Status
<1>20. Counted'
  <2>1. None' = None \cup {j} /\ j \notin None
    <3>1. \A i \in Jobs' : result'[i] = "none" <=> i = j \/ (i \in Jobs /\ result[i] = "none")
      BY <1>6, <1>7, <1>17
    <3> QED  BY <1>7, <3>1 DEF None
  <2>2. StoredAt' = StoredAt  BY <1>1, <1>9 DEF StoredAt
  <2>3. Pending' = Pending \cup {j} /\ j \notin Pending
    <3>1. {Top(t)' : t \in StoredAt} = {Top(t) : t \in StoredAt}  BY <1>8 DEF StoredAt
    <3>2. j \notin Pending  BY <1>7, JobSets
    <3> QED  BY <2>1, <2>2, <3>1, <3>2 DEF Pending
  <2>4. Cardinality(None') = Cardinality(None) + 1  BY <2>1, JobSets, FS_AddElement
  <2>5. Cardinality(Pending') = Cardinality(Pending) + 1  BY <2>3, JobSets, FS_AddElement
  <2>6. Cardinality(None) \in Nat /\ Cardinality(StoredAt) \in Nat  BY JobSets, FS_CardinalityType
  <2> QED  BY <1>1, <2>2, <2>4, <2>5, <2>6 DEF Base, Counted
<1> QED  BY <1>13, <1>14, <1>15, <1>18, <1>19, <1>20 DEF Base

LEMMA InHandIs ==
  ASSUME Base, NEW e \in Threads, pc[e] \in Submitting
  PROVE  /\ InHand(e) \in Jobs /\ Newest(e, InHand(e))
         /\ \A k \in Jobs : Newest(e, k) => k = InHand(e)
<1>1. PICK j \in Jobs : Newest(e, j)  BY DEF Base, Control
<1> DEFINE S == {k \in Jobs : parent[k] = Top(e)}
<1>2. j \in S /\ \A k \in S : k <= j  BY <1>1 DEF Newest
<1>3. S \subseteq Int  BY JobSets
<1>4. InHand(e) = CHOOSE x \in S : \A y \in S : x >= y  BY DEF InHand, Max
<1> HIDE DEF S
<1>5. \E x \in S : \A y \in S : x >= y  BY <1>2, <1>3
<1>6. InHand(e) \in S /\ \A y \in S : InHand(e) >= y  BY <1>4, <1>5
<1>7. InHand(e) = j
  <2>1. PICK h : h = InHand(e)  OBVIOUS
  <2>2. h <= j /\ h >= j /\ h \in Int /\ j \in Int  BY <1>2, <1>3, <1>6, <2>1
  <2>3. h = j  BY ONLY <2>2
  <2> QED  BY <2>1, <2>3
<1>8. \A k \in Jobs : Newest(e, k) => k = j
  <2> SUFFICES ASSUME NEW k \in Jobs, Newest(e, k) PROVE k = j
    OBVIOUS
  <2>1. k \in S /\ j <= k  BY <1>2 DEF S, Newest
  <2> QED  BY <1>2, <1>3, <2>1
<1> QED  BY <1>1, <1>7, <1>8

\* The boxes after a push: j is behind the others in box b.
LEMMA PushedFacts ==
  ASSUME Base, NEW e \in Threads, try_push_local(e)
  PROVE  \E b \in Box :
           /\ \A t \in Threads : b # StackOf(t)
           /\ Held(b)' = Append(Held(b), InHand(e))
           /\ b = CaseBox => kind[InHand(e)] = "case"
           /\ \A c \in Box \ {b} : Held(c)' = Held(c)
<1> DEFINE j == InHand(e)
<1>1. /\ injector' = (IF kind[j] = "thread" /\ e \notin Workers THEN Append(injector, j) ELSE injector)
      /\ cases' = (IF kind[j] = "case" THEN Append(cases, j) ELSE cases)
      /\ deque' = [w \in Workers |-> IF kind[j] = "thread" /\ w = e THEN Append(deque[w], j) ELSE deque[w]]
      /\ stack' = stack /\ pc[e] = "push"
  BY DEF try_push_local, At
<1>2. kind[j] \in {"thread", "case"}
  <2>1. j \in Jobs  BY <1>1, InHandIs DEF Submitting
  <2>2. j \in 1..Len(kind)  BY <2>1 DEF Jobs
  <2> QED  BY <2>2, ElementOfSeq DEF Base, Typed
<1>3. \A t \in Threads : Held(StackOf(t))' = Held(StackOf(t))  BY <1>1, HeldNow, HeldNext
<1>4. CASE kind[j] = "case"
  <2>1. injector' = injector /\ cases' = Append(cases, j) /\ \A w \in Workers : deque'[w] = deque[w]
    BY <1>1, <1>4
  <2>2. \A c \in Box \ {CaseBox} : Held(c)' = Held(c)  BY <1>3, <2>1, Boxes, HeldNow, HeldNext
  <2>3. Held(CaseBox)' = Append(Held(CaseBox), j)  BY <2>1, HeldNow, HeldNext
  <2> HIDE DEF j
  <2> QED  BY <1>4, <2>2, <2>3, Boxes DEF j
<1>5. CASE kind[j] = "thread" /\ e \notin Workers
  <2>1. injector' = Append(injector, j) /\ cases' = cases /\ \A w \in Workers : deque'[w] = deque[w]
    BY <1>1, <1>5
  <2>2. \A c \in Box \ {Injector} : Held(c)' = Held(c)  BY <1>3, <2>1, Boxes, HeldNow, HeldNext
  <2>3. Held(Injector)' = Append(Held(Injector), j)  BY <2>1, HeldNow, HeldNext
  <2> HIDE DEF j
  <2> QED  BY <2>2, <2>3, Boxes DEF j
<1>6. CASE kind[j] = "thread" /\ e \in Workers
  <2>1. /\ injector' = injector /\ cases' = cases /\ deque'[e] = Append(deque[e], j)
        /\ \A w \in Workers : w # e => deque'[w] = deque[w]
    BY <1>1, <1>6
  <2>2. \A c \in Box \ {DequeOf(e)} : Held(c)' = Held(c)
    <3> SUFFICES ASSUME NEW c \in Box, c # DequeOf(e) PROVE Held(c)' = Held(c)
      OBVIOUS
    <3>1. CASE c = Injector \/ c = CaseBox  BY <2>1, <3>1, HeldNow, HeldNext
    <3>2. CASE \E w \in Workers : c = DequeOf(w)  BY <2>1, <3>2, HeldNow, HeldNext
    <3>3. CASE \E t \in Threads : c = StackOf(t)  BY <1>3, <3>3
    <3> QED  BY <3>1, <3>2, <3>3, Boxes
  <2>3. Held(DequeOf(e))' = Append(Held(DequeOf(e)), j)  BY <1>6, <2>1, HeldNow, HeldNext
  <2> HIDE DEF j
  <2> QED  BY <1>6, <2>2, <2>3, Boxes DEF j
<1> QED  BY <1>2, <1>4, <1>5, <1>6

LEMMA PushStep ==
  ASSUME Base, Typed', NEW e \in Threads, try_push_local(e)
  PROVE  Base'
<1>1. /\ pc[e] = "push" /\ pc' = [pc EXCEPT ![e] = "notifySubmit"]
      /\ UNCHANGED <<kind, parent, result, inflight, stack>>
  BY DEF try_push_local, At, Goto, jobvars
<1>2. PICK j : j = InHand(e)  OBVIOUS
<1>3. j \in Jobs /\ Newest(e, j) /\ \A k \in Jobs : Newest(e, k) => k = j
  BY <1>1, <1>2, InHandIs DEF Submitting
<1>4. PICK b \in Box :
        /\ \A t \in Threads : b # StackOf(t)
        /\ Held(b)' = Append(Held(b), j)
        /\ b = CaseBox => kind[j] = "case"
        /\ \A c \in Box \ {b} : Held(c)' = Held(c)
  BY <1>2, PushedFacts
<1>5. result[j] = "none" /\ \A c \in Box : j \notin In(c)  BY <1>1, <1>3 DEF Base, Carries
<1>6. j \in Nat /\ j # Program  BY <1>3, JobSets DEF Program
<1>7. In(b)' = In(b) \cup {j} /\ Distinct(Held(b)')
  <2>1. Held(b) \in Seq(Nat)  BY HeldTypes DEF Base
  <2>2. Distinct(Held(b)) /\ j \notin Elems(Held(b))  BY <1>5 DEF Base, Once, In
  <2>3. Elems(Append(Held(b), j)) = Elems(Held(b)) \cup {j} /\ Distinct(Append(Held(b), j))
    BY <1>6, <2>1, <2>2, AppendElems
  <2> QED  BY <1>4, <2>3 DEF In
<1>8. \A c \in Box \ {b} : In(c)' = In(c)  BY <1>4 DEF In
<1>9. Jobs' = Jobs /\ \A t \in Threads : Top(t)' = Top(t)  BY <1>1 DEF Jobs, Top
<1>10. \A t \in Threads : \A k \in Jobs : Newest(t, k)' <=> Newest(t, k)  BY <1>1, <1>9 DEF Newest
<1>11. pc'[e] = "notifySubmit" /\ \A t \in Threads \ {e} : pc'[t] = pc[t]  BY <1>1 DEF Base, Typed
<1>12. Control'
  <2>1. \A t \in Threads : pc'[t] \in Busy => pc[t] \in Busy  BY <1>1, <1>11 DEF Busy
  <2>2. \A t \in Threads : pc'[t] \in Submitting => pc[t] \in Submitting  BY <1>1, <1>11 DEF Submitting
  <2>3. \A t \in Threads : pc'[t] \in Ending \cup {"off", "spare"} => pc'[t] = pc[t]  BY <1>11 DEF Ending
  <2> QED  BY <1>1, <1>9, <1>10, <2>1, <2>2, <2>3 DEF Base, Control
<1>13. Once'
  <2>1. \A c \in Box : Distinct(Held(c)')  BY <1>4, <1>7 DEF Base, Once
  <2>2. \A c, d \in Box : c # d => In(c)' \cap In(d)' = {}  BY <1>5, <1>7, <1>8 DEF Base, Once
  <2> QED  BY <2>1, <2>2 DEF Once
<1>14. Contents'
  <2>1. \A c \in Box : In(c)' \subseteq In(c) \cup {j}  BY <1>7, <1>8
  <2>2. In(CaseBox)' \subseteq In(CaseBox) \cup (IF b = CaseBox THEN {j} ELSE {})  BY <1>7, <1>8, Boxes
  <2> QED  BY <1>1, <1>3, <1>4, <1>6, <1>9, <2>1, <2>2 DEF Base, Contents
<1>15. Carries'
  <2> SUFFICES ASSUME NEW t \in Threads, pc'[t] = "push", NEW k \in Jobs, Newest(t, k)
               PROVE  result[k] = "none" /\ \A c \in Box : k \notin In(c)'
    BY <1>1, <1>9, <1>10 DEF Carries
  <2>1. t # e /\ pc[t] = "push"  BY <1>11
  <2>2. result[k] = "none" /\ \A c \in Box : k \notin In(c)  BY <2>1 DEF Base, Carries
  <2>3. k # j
    <3>1. stack[t] # <<>> /\ stack[e] # <<>>  BY <1>1, <2>1 DEF Base, Control, Busy
    <3>2. Top(t) # Top(e)  BY <2>1, <3>1, Tops
    <3> QED  BY <1>3, <3>2 DEF Newest
  <2> QED  BY <1>7, <1>8, <2>2, <2>3
<1>16. Status'
  <2>1. ASSUME NEW k \in Jobs, result[k] = "none"
        PROVE  \/ \E c \in Box : k \in In(c)'
               \/ \E t \in Threads : pc'[t] = "push" /\ Newest(t, k)
    <3>1. CASE \E c \in Box : k \in In(c)  BY <1>7, <1>8, <3>1
    <3>2. CASE \E t \in Threads : pc[t] = "push" /\ Newest(t, k)
      <4>1. PICK t \in Threads : pc[t] = "push" /\ Newest(t, k)  BY <3>2
      <4>2. CASE t = e  BY <1>3, <1>7, <4>1, <4>2
      <4>3. CASE t # e  BY <1>11, <4>1, <4>3
      <4> QED  BY <4>2, <4>3
    <3> QED  BY <2>1, <3>1, <3>2 DEF Base, Status
  <2>2. ASSUME NEW c \in Box, NEW k \in In(c)' \ {Program}, result[k] # "none"
        PROVE  \E t \in Threads : c = StackOf(t) /\ pc'[t] \in Ending /\ k = Top(t)
    <3>1. k \in In(c)  BY <1>5, <1>7, <1>8, <2>2
    <3>2. PICK t \in Threads : c = StackOf(t) /\ pc[t] \in Ending /\ k = Top(t)
      BY <2>2, <3>1 DEF Base, Status
    <3>3. t # e  BY <1>1, <3>2 DEF Ending
    <3> QED  BY <1>11, <3>2, <3>3
  <2>3. \A t \in Threads : pc'[t] \in Ending => result[Top(t)] # "none"
    BY <1>11 DEF Base, Status, Ending
  <2> QED  BY <1>1, <1>9, <1>10, <2>1, <2>2, <2>3 DEF Status
<1>17. Counted'
  <2>1. None' = None  BY <1>1, <1>9 DEF None
  <2>2. StoredAt' = StoredAt  BY <1>1, <1>11 DEF StoredAt
  <2>3. {Top(t)' : t \in StoredAt} = {Top(t) : t \in StoredAt}  BY <1>9 DEF StoredAt
  <2>4. Pending' = Pending  BY <2>1, <2>2, <2>3 DEF Pending
  <2> QED  BY <1>1, <2>1, <2>2, <2>4 DEF Base, Counted
<1> QED  BY <1>12, <1>13, <1>14, <1>15, <1>16, <1>17 DEF Base

(***************************************************************************)
(* The end of a job.                                                       *)
(***************************************************************************)
LEMMA StoreStep ==
  ASSUME Base, Typed', NEW e \in Threads, store_result(e)
  PROVE  Base'
<1>1. /\ pc[e] = "run" /\ Top(e) # Program /\ result' = [result EXCEPT ![Top(e)] = "stored"]
      /\ pc' = [pc EXCEPT ![e] = "stored"]
      /\ UNCHANGED <<kind, parent, inflight, injector, cases, deque, stack>>
  BY DEF store_result, At, Goto, queues
<1>2. stack[e] # <<>>  BY <1>1 DEF Base, Control, Busy
<1>3. PICK j : j = Top(e)  OBVIOUS
<1>4. /\ j \in In(StackOf(e)) /\ j \in Jobs /\ j # Program
      /\ \A t \in Threads : t # e /\ stack[t] # <<>> => Top(t) # j
  BY <1>1, <1>2, <1>3, Tops
<1>5. /\ \A b \in Box : Held(b)' = Held(b) /\ In(b)' = In(b)
      /\ \A t \in Threads : Top(t)' = Top(t)
      /\ Jobs' = Jobs
  BY <1>1, HeldSame DEF Jobs
<1>6. \A t \in Threads : \A k \in Jobs : Newest(t, k)' <=> Newest(t, k)  BY <1>1, <1>5 DEF Newest
<1>7. pc'[e] = "stored" /\ \A t \in Threads \ {e} : pc'[t] = pc[t]  BY <1>1 DEF Base, Typed
<1>8. result'[j] = "stored" /\ \A k \in Jobs \ {j} : result'[k] = result[k]
  <2>1. DOMAIN result = Jobs  BY LenProperties DEF Base, Typed, Jobs
  <2> QED  BY <1>1, <1>3, <1>4, <2>1
<1>9. result[j] = "none"
  <2> SUFFICES ASSUME result[j] # "none" PROVE FALSE
    OBVIOUS
  <2>1. PICK t \in Threads : StackOf(e) = StackOf(t) /\ pc[t] \in Ending
    BY <1>4, Boxes DEF Base, Status
  <2>2. t = e  BY <2>1, Boxes
  <2> QED  BY <1>1, <2>1, <2>2 DEF Ending
<1>10. \A t \in Threads : pc[t] \in Busy => stack[t] # <<>>  BY DEF Base, Control
<1>11. Control'
  <2>1. \A t \in Threads : pc'[t] \in Busy => pc[t] \in Busy  BY <1>1, <1>7 DEF Busy
  <2>2. \A t \in Threads : pc'[t] \in Submitting => pc[t] \in Submitting  BY <1>1, <1>7 DEF Submitting
  <2>3. \A t \in Threads : pc'[t] \in {"off", "spare"} => pc'[t] = pc[t]  BY <1>7
  <2>4. \A t \in Threads : pc'[t] \in Ending => Top(t) # Program  BY <1>1, <1>7 DEF Base, Control
  <2> QED  BY <1>1, <1>5, <1>6, <2>1, <2>2, <2>3, <2>4 DEF Base, Control
<1>12. Once'  BY <1>5 DEF Base, Once
<1>13. Contents'  BY <1>1, <1>5, Boxes DEF Base, Contents
<1>14. Carries'
  <2> SUFFICES ASSUME NEW t \in Threads, pc'[t] = "push", NEW k \in Jobs, Newest(t, k)
               PROVE  result'[k] = "none" /\ \A b \in Box : k \notin In(b)
    BY <1>5, <1>6 DEF Carries
  <2>1. pc[t] = "push"  BY <1>7
  <2>2. result[k] = "none" /\ \A b \in Box : k \notin In(b)  BY <2>1 DEF Base, Carries
  <2>3. k # j  BY <1>4, <2>2, Boxes
  <2> QED  BY <1>8, <2>2, <2>3
<1>15. Status'
  <2>1. ASSUME NEW k \in Jobs, result'[k] = "none"
        PROVE  \/ \E b \in Box : k \in In(b)
               \/ \E t \in Threads : pc'[t] = "push" /\ Newest(t, k)
    <3>1. k # j /\ result[k] = "none"  BY <1>8, <2>1
    <3>2. CASE \E b \in Box : k \in In(b)  BY <3>2
    <3>3. CASE \E t \in Threads : pc[t] = "push" /\ Newest(t, k)  BY <1>1, <1>7, <3>3
    <3> QED  BY <3>1, <3>2, <3>3 DEF Base, Status
  <2>2. ASSUME NEW b \in Box, NEW k \in In(b) \ {Program}, result'[k] # "none"
        PROVE  \E t \in Threads : b = StackOf(t) /\ pc'[t] \in Ending /\ k = Top(t)
    <3>1. CASE k = j
      <4>1. b = StackOf(e)  BY <1>4, <3>1, Boxes DEF Base, Once
      <4> QED  BY <1>3, <1>7, <3>1, <4>1 DEF Ending
    <3>2. CASE k # j
      <4>1. k \in Jobs  BY DEF Base, Contents
      <4>2. result[k] # "none"  BY <1>8, <2>2, <3>2, <4>1
      <4>3. PICK t \in Threads : b = StackOf(t) /\ pc[t] \in Ending /\ k = Top(t)
        BY <4>2 DEF Base, Status
      <4>4. t # e  BY <1>1, <4>3 DEF Ending
      <4> QED  BY <1>7, <4>3, <4>4
    <3> QED  BY <3>1, <3>2
  <2>3. ASSUME NEW t \in Threads, pc'[t] \in Ending PROVE result'[Top(t)] # "none"
    <3>1. CASE t = e  BY <1>3, <1>8, <3>1
    <3>2. CASE t # e
      <4>1. pc[t] \in Ending /\ pc[t] \in Busy  BY <1>7, <2>3, <3>2 DEF Ending, Busy
      <4>2. Top(t) # Program /\ stack[t] # <<>> /\ result[Top(t)] # "none"
        BY <1>10, <4>1 DEF Base, Control, Status
      <4>3. Top(t) \in Jobs \ {j}  BY <1>4, <3>2, <4>2, Tops
      <4> QED  BY <1>8, <4>2, <4>3
    <3> QED  BY <3>1, <3>2
  <2> QED  BY <1>5, <1>6, <2>1, <2>2, <2>3 DEF Status
<1>16. Counted'
  <2>1. None' = None \ {j} /\ j \in None
    <3>1. \A k \in Jobs : result'[k] = "none" <=> k # j /\ result[k] = "none"  BY <1>8
    <3> QED  BY <1>4, <1>5, <1>9, <3>1 DEF None
  <2>2. StoredAt' = StoredAt \cup {e} /\ e \notin StoredAt  BY <1>1, <1>7 DEF StoredAt
  <2>3. Pending' = Pending
    <3>1. {Top(t)' : t \in StoredAt'} = {Top(t) : t \in StoredAt} \cup {j}  BY <1>3, <1>5, <2>2 DEF StoredAt
    <3> QED  BY <2>1, <3>1 DEF Pending
  <2>4. Cardinality(None') = Cardinality(None) - 1  BY <2>1, JobSets, FS_RemoveElement
  <2>5. Cardinality(StoredAt') = Cardinality(StoredAt) + 1  BY <2>2, JobSets, FS_AddElement
  <2>6. Cardinality(None) \in Nat /\ Cardinality(StoredAt) \in Nat  BY JobSets, FS_CardinalityType
  <2> QED  BY <1>1, <2>3, <2>4, <2>5, <2>6 DEF Base, Counted
<1> QED  BY <1>11, <1>12, <1>13, <1>14, <1>15, <1>16 DEF Base

LEMMA CountDownStep ==
  ASSUME Base, Typed', NEW e \in Threads, CountDown(e)
  PROVE  Base'
<1>1. /\ pc[e] = "stored" /\ inflight' = inflight - 1 /\ pc' = [pc EXCEPT ![e] = "notifyDone"]
      /\ UNCHANGED <<kind, parent, result, injector, cases, deque, stack>>
  BY DEF CountDown, At, Goto, queues, jobvars
<1>2. /\ \A b \in Box : Held(b)' = Held(b) /\ In(b)' = In(b)
      /\ \A t \in Threads : Top(t)' = Top(t)
      /\ Jobs' = Jobs
  BY <1>1, HeldSame DEF Jobs
<1>3. \A t \in Threads : \A k \in Jobs : Newest(t, k)' <=> Newest(t, k)  BY <1>1, <1>2 DEF Newest
<1>4. pc'[e] = "notifyDone" /\ \A t \in Threads \ {e} : pc'[t] = pc[t]  BY <1>1 DEF Base, Typed
<1>5. \A t \in Threads : /\ pc'[t] \in Ending <=> pc[t] \in Ending
                         /\ pc'[t] \in Busy <=> pc[t] \in Busy
                         /\ pc'[t] \in Submitting <=> pc[t] \in Submitting
                         /\ pc'[t] \in {"off", "spare"} <=> pc[t] \in {"off", "spare"}
                         /\ pc'[t] = "push" <=> pc[t] = "push"
  BY <1>1, <1>4 DEF Ending, Busy, Submitting
<1>6. Control'  BY <1>1, <1>2, <1>3, <1>5 DEF Base, Control
<1>7. Once'  BY <1>2 DEF Base, Once
<1>8. Contents'  BY <1>1, <1>2, Boxes DEF Base, Contents
<1>9. Carries'  BY <1>1, <1>2, <1>3, <1>5 DEF Base, Carries
<1>10. Status'  BY <1>1, <1>2, <1>3, <1>5 DEF Base, Status
<1>11. Counted'
  <2>1. None' = None  BY <1>1, <1>2 DEF None
  <2>2. StoredAt' = StoredAt \ {e} /\ e \in StoredAt  BY <1>1, <1>4 DEF StoredAt
  <2>3. stack[e] # <<>> /\ Top(e) \in Jobs /\ result[Top(e)] # "none"  BY <2>2, JobSets
  <2>4. Pending' = Pending \ {Top(e)} /\ Top(e) \in Pending
    <3>1. \A t \in StoredAt : t # e => Top(t) # Top(e)  BY <2>3, JobSets, Tops
    <3>2. {Top(t)' : t \in StoredAt'} = {Top(t) : t \in StoredAt} \ {Top(e)}
      <4>1. {Top(t)' : t \in StoredAt'} = {Top(t) : t \in StoredAt \ {e}}  BY <1>2, <2>2 DEF StoredAt
      <4> QED  BY <2>2, <3>1, <4>1
    <3>3. Top(e) \notin None  BY <2>3 DEF None
    <3> QED  BY <2>1, <2>2, <3>2, <3>3 DEF Pending
  <2>5. Cardinality(StoredAt') = Cardinality(StoredAt) - 1  BY <2>2, JobSets, FS_RemoveElement
  <2>6. Cardinality(Pending') = Cardinality(Pending) - 1  BY <2>4, JobSets, FS_RemoveElement
  <2>7. Cardinality(None) \in Nat /\ Cardinality(StoredAt) \in Nat  BY JobSets, FS_CardinalityType
  <2> QED  BY <1>1, <2>1, <2>5, <2>6, <2>7 DEF Base, Counted
<1> QED  BY <1>6, <1>7, <1>8, <1>9, <1>10, <1>11 DEF Base

LEMMA NotifyDoneStep ==
  ASSUME Base, Typed', NEW e \in Threads, NotifyDone(e)
  PROVE  Base'
<1>1. /\ pc[e] = "notifyDone" /\ stack' = [stack EXCEPT ![e] = Front(stack[e])]
      /\ pc' = [t \in Threads |->
                 IF t = e THEN IF Front(stack[e]) # <<>> THEN "join" ELSE IF e \in Spares THEN "spare" ELSE "top"
                 ELSE IF pc[t] = "waiting" THEN Loop(t) ELSE pc[t]]
      /\ UNCHANGED <<kind, parent, result, inflight, injector, cases, deque>>
  BY DEF NotifyDone, notify, At, queues, jobvars
<1>2. stack[e] # <<>> /\ Top(e) # Program /\ result[Top(e)] # "none"
  BY <1>1 DEF Base, Control, Status, Busy, Ending
<1>3. PICK j : j = Top(e)  OBVIOUS
<1>4. /\ j \in In(StackOf(e)) /\ j \in Jobs /\ j # Program /\ result[j] # "none"
      /\ \A b \in Box : j \in In(b) => b = StackOf(e)
  BY <1>2, <1>3, Tops
<1>5. stack[e] \in Seq(Nat) /\ Distinct(stack[e])  BY HeldNow, Boxes DEF Base, Typed, Once
<1>6. /\ Distinct(Front(stack[e])) /\ Elems(Front(stack[e])) = Elems(stack[e]) \ {j}
      /\ stack[e][1] # j => Front(stack[e]) # <<>> /\ Front(stack[e])[1] = stack[e][1]
  BY <1>2, <1>3, <1>5, FrontElems DEF Top
<1>7. /\ stack'[e] = Front(stack[e])
      /\ \A t \in Threads \ {e} : stack'[t] = stack[t] /\ Top(t)' = Top(t)
  BY <1>1 DEF Base, Typed, Top
<1>8. Held(StackOf(e))' = Front(stack[e]) /\ \A b \in Box \ {StackOf(e)} : Held(b)' = Held(b)
  <2>1. Held(StackOf(e))' = Front(stack[e])  BY <1>7, HeldNext
  <2>2. ASSUME NEW b \in Box, b # StackOf(e) PROVE Held(b)' = Held(b)
    <3>1. CASE b = Injector \/ b = CaseBox  BY <1>1, <3>1, HeldNow, HeldNext
    <3>2. CASE \E w \in Workers : b = DequeOf(w)  BY <1>1, <3>2, HeldNow, HeldNext
    <3>3. CASE \E t \in Threads : b = StackOf(t)
      <4>1. PICK t \in Threads : b = StackOf(t)  BY <3>3
      <4>2. t # e  BY <2>2, <4>1
      <4> QED  BY <1>7, <4>1, <4>2, HeldNow, HeldNext
    <3> QED  BY <3>1, <3>2, <3>3, Boxes
  <2> QED  BY <2>1, <2>2
<1>9. /\ In(StackOf(e))' = In(StackOf(e)) \ {j} /\ \A b \in Box \ {StackOf(e)} : In(b)' = In(b)
  BY <1>6, <1>8, HeldNow DEF In
<1>10. \A b \in Box : In(b)' = In(b) \ {j}  BY <1>4, <1>9
<1>11. Jobs' = Jobs  BY <1>1 DEF Jobs
<1>12. \A t \in Threads \ {e} : \A k \in Jobs : Newest(t, k)' <=> Newest(t, k)  BY <1>1, <1>7, <1>11 DEF Newest
<1>13. /\ pc'[e] \in {"join", "spare", "top"} /\ (pc'[e] = "join" <=> Front(stack[e]) # <<>>)
       /\ \A t \in Threads \ {e} : pc'[t] = pc[t] \/ (pc'[t] \in {"top", "join"} /\ (pc'[t] = "join" => stack[t] # <<>>))
       /\ \A t \in Threads \ {e} : pc[t] \in Ending \cup {"push"} => pc'[t] = pc[t]
  BY <1>1 DEF Loop, Ending
<1>14. Control'
  <2>1. ASSUME NEW t \in Threads \ {e}
        PROVE  /\ pc'[t] \in Busy => stack'[t] # <<>>
               /\ pc'[t] \in {"off", "spare"} => stack'[t] = <<>>
               /\ pc'[t] \in Ending => Top(t)' # Program
               /\ pc'[t] \in Submitting => \E k \in Jobs' : Newest(t, k)'
    <3>1. CASE pc'[t] = pc[t]  BY <1>7, <1>11, <1>12, <3>1 DEF Base, Control
    <3>2. CASE pc'[t] = "top"  BY <3>2 DEF Busy, Ending, Submitting
    <3>3. CASE pc'[t] = "join" /\ stack[t] # <<>>  BY <1>7, <3>3 DEF Ending, Submitting
    <3> QED  BY <1>13, <3>1, <3>2, <3>3
  <2>2. /\ pc'[e] \in Busy => stack'[e] # <<>>
        /\ pc'[e] \in {"off", "spare"} => stack'[e] = <<>>
        /\ pc'[e] \notin Ending \cup Submitting
    BY <1>7, <1>13 DEF Busy, Ending, Submitting
  <2>3. stack'[Root] # <<>> /\ stack'[Root][1] = Program
    <3>1. Root \in Threads  BY DEF Threads
    <3>2. CASE e = Root  BY <1>2, <1>3, <1>6, <1>7, <3>2 DEF Base, Control
    <3>3. CASE e # Root  BY <1>7, <3>1, <3>3 DEF Base, Control
    <3> QED  BY <3>2, <3>3
  <2> QED  BY <2>1, <2>2, <2>3 DEF Control
<1>15. Once'
  <2>1. \A b \in Box : Distinct(Held(b)')  BY <1>6, <1>8 DEF Base, Once
  <2>2. \A b, c \in Box : b # c => In(b)' \cap In(c)' = {}  BY <1>10 DEF Base, Once
  <2> QED  BY <2>1, <2>2 DEF Once
<1>16. Contents'
  <2>1. \A b \in Box : In(b)' \subseteq In(b)  BY <1>10
  <2>2. In(CaseBox)' \subseteq In(CaseBox)  BY <2>1, Boxes
  <2> QED  BY <1>1, <1>11, <2>1, <2>2 DEF Base, Contents
<1>17. Carries'
  <2> SUFFICES ASSUME NEW t \in Threads, pc'[t] = "push", NEW k \in Jobs, Newest(t, k)'
               PROVE  result[k] = "none" /\ \A b \in Box : k \notin In(b)'
    BY <1>1, <1>11 DEF Carries
  <2>1. t # e /\ pc[t] = "push"  BY <1>13
  <2>2. result[k] = "none" /\ \A b \in Box : k \notin In(b)  BY <1>12, <2>1 DEF Base, Carries
  <2> QED  BY <1>10, <2>2
<1>18. Status'
  <2>1. ASSUME NEW k \in Jobs, result[k] = "none"
        PROVE  \/ \E b \in Box : k \in In(b)'
               \/ \E t \in Threads : pc'[t] = "push" /\ Newest(t, k)'
    <3>1. k # j  BY <1>4, <2>1
    <3>2. CASE \E b \in Box : k \in In(b)  BY <1>10, <3>1, <3>2
    <3>3. CASE \E t \in Threads : pc[t] = "push" /\ Newest(t, k)
      <4>1. PICK t \in Threads : pc[t] = "push" /\ Newest(t, k)  BY <3>3
      <4>2. t # e  BY <1>1, <4>1
      <4> QED  BY <1>12, <1>13, <4>1, <4>2
    <3> QED  BY <2>1, <3>2, <3>3 DEF Base, Status
  <2>2. ASSUME NEW b \in Box, NEW k \in In(b)' \ {Program}, result[k] # "none"
        PROVE  \E t \in Threads : b = StackOf(t) /\ pc'[t] \in Ending /\ k = Top(t)'
    <3>1. k \in In(b) /\ k # j  BY <1>10
    <3>2. PICK t \in Threads : b = StackOf(t) /\ pc[t] \in Ending /\ k = Top(t)
      BY <2>2, <3>1 DEF Base, Status
    <3>3. t # e  BY <1>3, <3>1, <3>2
    <3> QED  BY <1>7, <1>13, <3>2, <3>3
  <2>3. ASSUME NEW t \in Threads, pc'[t] \in Ending PROVE result[Top(t)'] # "none"
    <3>1. t # e /\ pc[t] \in Ending  BY <1>13, <2>3 DEF Ending
    <3> QED  BY <1>7, <3>1 DEF Base, Status
  <2> QED  BY <1>1, <1>11, <2>1, <2>2, <2>3 DEF Status
<1>19. Counted'
  <2>1. None' = None  BY <1>1, <1>11 DEF None
  <2>2. StoredAt' = StoredAt /\ e \notin StoredAt  BY <1>1, <1>13 DEF StoredAt, Ending
  <2>3. {Top(t)' : t \in StoredAt} = {Top(t) : t \in StoredAt}
    <3>1. \A t \in StoredAt : Top(t)' = Top(t)  BY <1>7, <2>2 DEF StoredAt
    <3> QED  BY <3>1
  <2>4. Pending' = Pending  BY <2>1, <2>2, <2>3 DEF Pending
  <2> QED  BY <1>1, <2>1, <2>2, <2>4 DEF Base, Counted
<1> QED  BY <1>14, <1>15, <1>16, <1>17, <1>18, <1>19 DEF Base

(***************************************************************************)
(* Every step keeps Base.  First the steps that leave the jobs where they  *)
(* are.                                                                    *)
(***************************************************************************)
\* A result may be taken, and the handles and the mutex may change hands.
Steady ==
  /\ UNCHANGED <<runner, kind, parent, injector, cases, deque, inflight, stack>>
  /\ \/ result' = result
     \/ \E c \in 0..MaxJobs : result[c] = "stored" /\ result' = [result EXCEPT ![c] = "taken"]
  /\ joined' \subseteq Jobs /\ live' \subseteq Jobs /\ detached' \subseteq Jobs \ joined'
  /\ awaits' \in [0..MaxJobs -> 0..MaxJobs]
  /\ shutdown' \in BOOLEAN /\ sleep' \in Threads \cup {NoThread}

LEMMA SteadyStep ==
  ASSUME Base, Steady, pc' \in [Threads -> Pcs], \A t \in Threads : Calm(t)
  PROVE  Base'
<1>1. /\ result \in Seq({"none", "stored", "taken"}) /\ Len(result) = Len(kind) /\ Jobs = 1..Len(kind)
      /\ DOMAIN result = Jobs
  BY LenProperties DEF Base, Typed, Jobs
<1>2. /\ result' \in Seq({"none", "stored", "taken"}) /\ Len(result') = Len(kind)
      /\ \A j \in Jobs : result'[j] = "none" <=> result[j] = "none"
  <2>1. CASE result' = result  BY <1>1, <2>1
  <2>2. CASE \E c \in 0..MaxJobs : result[c] = "stored" /\ result' = [result EXCEPT ![c] = "taken"]
    <3>1. PICK c \in 0..MaxJobs : result[c] = "stored" /\ result' = [result EXCEPT ![c] = "taken"]
      BY <2>2
    <3>2. CASE c \in Jobs
      <4>1. c \in 1..Len(result)  BY <1>1, <3>2
      <4>2. result' \in Seq({"none", "stored", "taken"}) /\ Len(result') = Len(result)
        BY <1>1, <3>1, <4>1, ExceptSeq
      <4> QED  BY <1>1, <3>1, <3>2, <4>2
    <3>3. CASE c \notin Jobs
      <4>1. result' = result  BY <1>1, <3>1, <3>3
      <4> QED  BY <1>1, <4>1
    <3> QED  BY <3>2, <3>3
  <2> QED  BY <2>1, <2>2 DEF Steady
<1>3. Jobs' = Jobs /\ Len(kind') = Len(kind)  BY DEF Steady, Jobs
<1>4. Typed'  BY <1>2, <1>3 DEF Base, Typed, Steady
<1> QED  BY <1>2, <1>4, CalmStep DEF Steady

LEMMA MoveStep ==
  ASSUME Base, Steady, NEW e \in Threads, NEW l \in Pcs, Goto(e, l),
         \/ l = pc[e]
         \/ /\ pc[e] \notin Ending \cup {"push"} /\ l \notin Ending \cup {"push"}
            /\ l \in Busy => stack[e] # <<>>
            /\ l \in {"off", "spare"} => stack[e] = <<>>
            /\ l \in Submitting => pc[e] \in Submitting
  PROVE  Base'
<1>1. pc \in [Threads -> Pcs]  BY DEF Base, Typed
<1>2. pc' \in [Threads -> Pcs] /\ pc'[e] = l /\ \A t \in Threads \ {e} : pc'[t] = pc[t]
  BY <1>1 DEF Goto
<1>3. \A t \in Threads : Calm(t)  BY <1>2 DEF Calm
<1> QED  BY <1>2, <1>3, SteadyStep

LEMMA EmptySteady ==
  ASSUME Base, UNCHANGED <<jobvars, queues, inflight, stack>>,
         shutdown' \in BOOLEAN, sleep' \in Threads \cup {NoThread}
  PROVE  Steady
  BY DEF Base, Typed, Steady, jobvars, queues

LEMMA EmptyStep ==
  ASSUME Base, NEW e \in Threads, NEW l \in Pcs, Empty(e, l),
         pc[e] \notin Ending \cup {"push"}, l \notin Ending \cup {"push"} \cup Submitting,
         l \in Busy => stack[e] # <<>>,
         l \in {"off", "spare"} => stack[e] = <<>>
  PROVE  Base'
<1>1. Steady  BY EmptySteady DEF Empty, Base, Typed
<1>2. Goto(e, l)  BY DEF Empty
<1> QED  BY <1>1, <1>2, MoveStep

LEMMA NothingStep ==
  ASSUME Base, NEW e \in Threads, Nothing(e), pc[e] \in Looking
  PROVE  Base'
<1>1. sleep' \in Threads \cup {NoThread} /\ shutdown' \in BOOLEAN  BY DEF Nothing, Base, Typed
<1>2. Steady  BY <1>1, EmptySteady DEF Nothing
<1>3. PICK l \in {"waiting", "park"} : Goto(e, l)  BY DEF Nothing
<1>4. l \in Pcs /\ l \notin Ending \cup Busy \cup Submitting \cup {"push", "off", "spare"}
  BY DEF Pcs, Ending, Busy, Submitting
<1>5. pc[e] \notin Ending \cup {"push"}  BY DEF Looking, Ending
<1> QED  BY <1>2, <1>3, <1>4, <1>5, MoveStep

\* the result e waits for is taken
LEMMA TakenSteady ==
  ASSUME Base, NEW e \in Threads, stack[e] # <<>>, try_take_result(e)
  PROVE  Steady
<1>1. Top(e) \in 0..MaxJobs
  <2>1. Top(e) \in 0..Len(kind) /\ Len(kind) \in Nat /\ Len(kind) <= MaxJobs /\ MaxJobs \in Nat
    BY Tops, JobSets, ReactorAssumption DEF Base, Typed
  <2> QED  BY <2>1
<1>2. awaits[Top(e)] \in 0..MaxJobs /\ 0 \in 0..MaxJobs  BY <1>1, ReactorAssumption DEF Base, Typed
<1>3. awaits' \in [0..MaxJobs -> 0..MaxJobs]  BY <1>2 DEF try_take_result, Base, Typed
<1>4. \E c \in 0..MaxJobs : result[c] = "stored" /\ result' = [result EXCEPT ![c] = "taken"]
  BY <1>2 DEF try_take_result
<1> QED  BY <1>3, <1>4 DEF try_take_result, Steady, queues, Base, Typed

LEMMA WaitSteps ==
  ASSUME Base, NEW e \in Threads,
         worker_loop(e) \/ park_idle_worker(e) \/ wait_join_loop(e) \/ park_join(e) \/ SpuriousWakeup(e)
  PROVE  Base'
<1> USE DEF At
<1>1. CASE worker_loop(e)
  <2>1. PICK l \in {"exited", "park", "local"} : Empty(e, l)  BY <1>1 DEF worker_loop
  <2>2. pc[e] = "top"  BY <1>1 DEF worker_loop
  <2> QED  BY <2>1, <2>2, EmptyStep DEF Pcs, Ending, Busy, Submitting
<1>2. CASE park_idle_worker(e)
  <2>1. pc[e] = "park"  BY <1>2 DEF park_idle_worker
  <2>2. CASE Empty(e, "top") \/ Empty(e, "waiting")
    BY <2>1, <2>2, EmptyStep DEF Pcs, Ending, Busy, Submitting
  <2>3. CASE /\ sleep' = e /\ Goto(e, "local")
             /\ UNCHANGED <<jobvars, queues, inflight, shutdown, stack>>
    <3>1. Steady  BY <2>3, EmptySteady DEF Base, Typed
    <3> QED  BY <2>1, <2>3, <3>1, MoveStep DEF Pcs, Ending, Busy, Submitting
  <2> QED  BY <1>2, <2>2, <2>3 DEF park_idle_worker
<1>3. CASE wait_join_loop(e)
  <2>1. pc[e] = "join" /\ stack[e] # <<>>  BY <1>3 DEF wait_join_loop, Base, Control, Busy
  <2>2. CASE try_take_result(e) /\ Goto(e, "run")
    <3>1. Steady  BY <2>1, <2>2, TakenSteady
    <3> QED  BY <2>1, <2>2, <3>1, MoveStep DEF Pcs, Ending, Submitting
  <2>3. CASE Empty(e, "local")  BY <2>1, <2>3, EmptyStep DEF Pcs, Ending, Busy, Submitting
  <2> QED  BY <1>3, <2>2, <2>3 DEF wait_join_loop
<1>4. CASE park_join(e)
  <2>1. pc[e] = "park" /\ stack[e] # <<>>  BY <1>4 DEF park_join
  <2>2. CASE try_take_result(e) /\ Goto(e, "run")
    <3>1. Steady  BY <2>1, <2>2, TakenSteady
    <3> QED  BY <2>1, <2>2, <3>1, MoveStep DEF Pcs, Ending, Submitting
  <2>3. CASE /\ sleep' = e /\ Goto(e, "local")
             /\ UNCHANGED <<jobvars, queues, inflight, shutdown, stack>>
    <3>1. Steady  BY <2>3, EmptySteady DEF Base, Typed
    <3> QED  BY <2>1, <2>3, <3>1, MoveStep DEF Pcs, Ending, Busy, Submitting
  <2> QED  BY <1>4, <2>2, <2>3 DEF park_join
<1>5. CASE SpuriousWakeup(e)
  <2>1. pc[e] = "waiting" /\ Empty(e, Loop(e))  BY <1>5 DEF SpuriousWakeup
  <2>2. PICK l \in {"top", "join"} : l = Loop(e) /\ (l = "join" => stack[e] # <<>>)  BY DEF Loop
  <2>3. Empty(e, l)  BY <2>1, <2>2
  <2> QED  BY <2>1, <2>2, <2>3, EmptyStep DEF Pcs, Ending, Busy, Submitting
<1> QED  BY <1>1, <1>2, <1>3, <1>4, <1>5

LEMMA HandleSteps ==
  ASSUME Base, NEW e \in Threads, register_live_thread(e) \/ try_host_join(e) \/ try_host_detach(e)
  PROVE  Base'
<1> USE DEF At
<1>1. CASE register_live_thread(e)
  <2>1. pc[e] = "register" /\ stack[e] # <<>>  BY <1>1 DEF register_live_thread, Base, Control, Busy
  <2>2. InHand(e) \in Jobs  BY <2>1, InHandIs DEF Submitting
  <2>3. live' \subseteq Jobs  BY <1>1, <2>2 DEF register_live_thread, Base, Typed
  <2>4. Steady  BY <1>1, <2>3 DEF register_live_thread, Steady, Base, Typed, queues
  <2>5. Goto(e, "run")  BY <1>1 DEF register_live_thread
  <2> QED  BY <2>1, <2>4, <2>5, MoveStep DEF Pcs, Ending, Submitting
<1>2. CASE try_host_join(e)
  <2>1. pc[e] = "run" /\ stack[e] # <<>>  BY <1>2 DEF try_host_join, Base, Control, Busy
  <2>2. PICK c \in Jobs \ (joined \cup detached) :
          joined' = joined \cup {c} /\ awaits' = [awaits EXCEPT ![Top(e)] = c]
    BY <1>2 DEF try_host_join
  <2>3. c \in 0..MaxJobs
    <3>1. c \in 1..Len(kind) /\ Len(kind) \in Nat /\ Len(kind) <= MaxJobs /\ MaxJobs \in Nat
      BY JobSets, ReactorAssumption DEF Base, Typed
    <3> QED  BY <3>1
  <2>4. Steady  BY <1>2, <2>2, <2>3 DEF try_host_join, Steady, Base, Typed, queues
  <2>5. Goto(e, "join")  BY <1>2 DEF try_host_join
  <2> QED  BY <2>1, <2>4, <2>5, MoveStep DEF Pcs, Ending, Submitting
<1>3. CASE try_host_detach(e)
  <2>1. PICK c \in Jobs \ (joined \cup detached) : detached' = detached \cup {c}
    BY <1>3 DEF try_host_detach
  <2>2. Steady  BY <1>3, <2>1 DEF try_host_detach, Steady, Base, Typed, queues
  <2>3. pc' = pc  BY <1>3 DEF try_host_detach
  <2>4. pc' \in [Threads -> Pcs] /\ \A t \in Threads : Calm(t)  BY <2>3 DEF Base, Typed, Calm
  <2> QED  BY <2>2, <2>4, SteadyStep
<1> QED  BY <1>1, <1>2, <1>3

\* a notify sends every waiting thread round its loop
LEMMA NotifyCalm ==
  ASSUME Base, NEW e \in Threads, NEW l \in Pcs, notify(e, l),
         pc[e] \notin Ending \cup {"push"}, l \notin Ending \cup {"push", "off", "spare"},
         l \in Busy => stack[e] # <<>>,
         l \in Submitting => pc[e] \in Submitting
  PROVE  pc' \in [Threads -> Pcs] /\ \A t \in Threads : Calm(t)
<1>1. pc' = [t \in Threads |-> IF t = e THEN l ELSE IF pc[t] = "waiting" THEN Loop(t) ELSE pc[t]]
  BY DEF notify, At
<1>2. \A t \in Threads : Loop(t) \in {"top", "join"} /\ (Loop(t) = "join" => stack[t] # <<>>)  BY DEF Loop
<1>3. pc' \in [Threads -> Pcs]  BY <1>1, <1>2 DEF Base, Typed, Pcs
<1>4. Calm(e)  BY <1>1 DEF Calm
<1>5. ASSUME NEW t \in Threads \ {e} PROVE Calm(t)
  <2>1. CASE pc[t] # "waiting"  BY <1>1, <2>1 DEF Calm
  <2>2. CASE pc[t] = "waiting"
    <3>1. pc'[t] = Loop(t)  BY <1>1, <2>2
    <3> QED  BY <1>2, <2>2, <3>1 DEF Calm, Ending, Submitting, Busy
  <2> QED  BY <2>1, <2>2
<1> QED  BY <1>3, <1>4, <1>5

LEMMA NotifySubmitStep ==
  ASSUME Base, NEW e \in Threads, NotifySubmit(e)
  PROVE  Base'
<1>1. pc[e] = "notifySubmit" /\ stack[e] # <<>>  BY DEF NotifySubmit, At, Base, Control, Busy
<1>2. PICK l \in {"run", "register"} : notify(e, l)  BY DEF NotifySubmit
<1>3. pc' \in [Threads -> Pcs] /\ \A t \in Threads : Calm(t)
  BY <1>1, <1>2, NotifyCalm DEF Pcs, Ending, Submitting
<1>4. Steady  BY EmptySteady DEF NotifySubmit, Base, Typed
<1> QED  BY <1>3, <1>4, SteadyStep

LEMMA RootSteps ==
  ASSUME Base, RootEnds
  PROVE  Base'
<1> USE DEF At
<1>0. Root \in Threads /\ stack[Root] # <<>>  BY DEF Threads, Base, Control
<1>1. CASE join_undetached_threads
  <2>1. CASE /\ Draining /\ ~runner
             /\ \E j \in live :
                  /\ live' = live \ {j}
                  /\ LET skip == j \in detached \cup joined
                     IN /\ joined' = IF skip THEN joined ELSE joined \cup {j}
                        /\ awaits' = [awaits EXCEPT ![Program] = IF skip THEN 0 ELSE j]
             /\ Goto(Root, "drain")
             /\ UNCHANGED <<runner, kind, parent, result, detached, queues, inflight, shutdown, sleep, stack>>
    <3>1. pc[Root] \in {"run", "drain"}  BY <2>1 DEF Draining
    <3>2. PICK j \in live :
            /\ live' = live \ {j}
            /\ joined' = (IF j \in detached \cup joined THEN joined ELSE joined \cup {j})
            /\ awaits' = [awaits EXCEPT ![Program] = IF j \in detached \cup joined THEN 0 ELSE j]
      BY <2>1
    <3>3. j \in 0..MaxJobs /\ 0 \in 0..MaxJobs /\ j \in Jobs
      <4>1. j \in 1..Len(kind) /\ Len(kind) \in Nat /\ Len(kind) <= MaxJobs /\ MaxJobs \in Nat
        BY JobSets, ReactorAssumption DEF Base, Typed
      <4> QED  BY <4>1, JobSets
    <3>4. awaits' \in [0..MaxJobs -> 0..MaxJobs]  BY <3>2, <3>3 DEF Base, Typed
    <3>5. joined' \subseteq Jobs /\ live' \subseteq Jobs /\ detached' \subseteq Jobs \ joined'
      BY <2>1, <3>2, <3>3 DEF Base, Typed
    <3>6. Steady  BY <2>1, <3>4, <3>5 DEF Steady, Base, Typed, queues
    <3> QED  BY <1>0, <2>1, <3>1, <3>6, MoveStep DEF Pcs, Ending, Busy, Submitting
  <2>2. CASE At(Root, "drain") /\ awaits[Program] # 0 /\ try_take_result(Root) /\ UNCHANGED pc
    <3>1. Steady  BY <1>0, <2>2, TakenSteady
    <3>2. pc' \in [Threads -> Pcs] /\ \A t \in Threads : Calm(t)  BY <2>2 DEF Base, Typed, Calm
    <3> QED  BY <3>1, <3>2, SteadyStep
  <2>3. CASE Draining /\ (runner \/ live = {}) /\ Empty(Root, "ending")
    <3>1. pc[Root] \in {"run", "drain"}  BY <2>3 DEF Draining
    <3> QED  BY <1>0, <2>3, <3>1, EmptyStep DEF Pcs, Ending, Busy, Submitting
  <2> QED  BY <1>1, <2>1, <2>2, <2>3 DEF join_undetached_threads
<1>2. CASE Shutdown
  <2>1. pc[Root] = "ending"  BY <1>2 DEF Shutdown
  <2>2. CASE shutdown' = TRUE /\ Goto(Root, "notifyDown") /\ UNCHANGED <<jobvars, queues, inflight, sleep, stack>>
    <3>1. Steady  BY <2>2, EmptySteady DEF Base, Typed
    <3> QED  BY <1>0, <2>1, <2>2, <3>1, MoveStep DEF Pcs, Ending, Busy, Submitting
  <2>3. CASE Empty(Root, "left")  BY <1>0, <2>1, <2>3, EmptyStep DEF Pcs, Ending, Busy, Submitting
  <2> QED  BY <1>2, <2>2, <2>3 DEF Shutdown
<1>3. CASE NotifyDown
  <2>1. pc[Root] = "notifyDown" /\ notify(Root, "stopping")  BY <1>3 DEF NotifyDown
  <2>2. pc' \in [Threads -> Pcs] /\ \A t \in Threads : Calm(t)
    BY <1>0, <2>1, NotifyCalm DEF Pcs, Ending, Busy, Submitting
  <2>3. Steady  BY <1>3, EmptySteady DEF NotifyDown, Base, Typed
  <2> QED  BY <2>2, <2>3, SteadyStep
<1>4. CASE JoinWorkers
  <2>1. pc[Root] = "stopping" /\ Empty(Root, "stopped")  BY <1>4 DEF JoinWorkers
  <2> QED  BY <1>0, <2>1, EmptyStep DEF Pcs, Ending, Busy, Submitting
<1> QED  BY <1>1, <1>2, <1>3, <1>4 DEF RootEnds

(***************************************************************************)
(* The steps that take a job from a queue.                                 *)
(***************************************************************************)
\* e takes the head of q, whichever queue that is
Picks(e, q) ==
  /\ q # <<>> /\ stack' = [stack EXCEPT ![e] = Append(@, Head(q))]
  /\ Goto(e, "run") /\ pc[e] \in Looking \cup {"off", "spare"}
  /\ sleep' \in Threads \cup {NoThread}
  /\ UNCHANGED <<jobvars, inflight, shutdown>>

LEMMA PicksStacks ==
  ASSUME Base, NEW e \in Threads, NEW q \in Seq(Nat), Picks(e, q)
  PROVE  /\ stack' \in [Threads -> Seq(Nat)] /\ Tail(q) \in Seq(Nat)
         /\ Held(StackOf(e))' = Append(Held(StackOf(e)), Head(q))
         /\ \A t \in Threads \ {e} : Held(StackOf(t))' = Held(StackOf(t))
<1>1. q # <<>> /\ stack' = [stack EXCEPT ![e] = Append(@, Head(q))]  BY DEF Picks
<1>2. Head(q) \in Nat /\ Tail(q) \in Seq(Nat)  BY <1>1, HeadTailProperties, EmptySeq
<1>3. stack \in [Threads -> Seq(Nat)]  BY DEF Base, Typed
<1>4. Append(stack[e], Head(q)) \in Seq(Nat)  BY <1>2, <1>3, AppendProperties
<1>5. stack' \in [Threads -> Seq(Nat)]  BY <1>1, <1>3, <1>4
<1>6. stack'[e] = Append(stack[e], Head(q)) /\ \A t \in Threads \ {e} : stack'[t] = stack[t]
  BY <1>1, <1>3
<1> QED  BY <1>2, <1>5, <1>6, HeldNow, HeldNext

LEMMA PickStep ==
  ASSUME Base, NEW e \in Threads, NEW b, NEW q \in Seq(Nat), Picks(e, q), Takes(e, b),
         injector' \in Seq(Nat), cases' \in Seq(Nat), deque' \in [Workers -> Seq(Nat)]
  PROVE  Base'
<1>1. stack' \in [Threads -> Seq(Nat)]  BY PicksStacks
<1>2. pc' = [pc EXCEPT ![e] = "run"] /\ pc \in [Threads -> Pcs]  BY DEF Picks, Goto, Base, Typed
<1>3. pc' \in [Threads -> Pcs] /\ pc'[e] = "run" /\ \A t \in Threads \ {e} : pc'[t] = pc[t]
  BY <1>2 DEF Pcs
<1>4. Typed'  BY <1>1, <1>3 DEF Picks, Base, Typed, jobvars, Jobs
<1> QED  BY <1>3, <1>4, TakeStep DEF Picks, jobvars

LEMMA FromInjector ==
  ASSUME Base, NEW e \in Threads, Picks(e, injector), injector' = Tail(injector), UNCHANGED <<cases, deque>>
  PROVE  Base'
<1>1. injector \in Seq(Nat)  BY DEF Base, Typed
<1>2. /\ Tail(injector) \in Seq(Nat)
      /\ Held(StackOf(e))' = Append(Held(StackOf(e)), Head(injector))
      /\ \A t \in Threads \ {e} : Held(StackOf(t))' = Held(StackOf(t))
  BY <1>1, PicksStacks
<1>3. Takes(e, Injector)
  <2>1. \A c \in Box \ {Injector, StackOf(e)} : Held(c)' = Held(c)
    <3> SUFFICES ASSUME NEW c \in Box, c # Injector, c # StackOf(e) PROVE Held(c)' = Held(c)
      OBVIOUS
    <3>1. CASE c = CaseBox  BY <3>1, HeldNow, HeldNext
    <3>2. CASE \E w \in Workers : c = DequeOf(w)  BY <3>2, HeldNow, HeldNext
    <3>3. CASE \E t \in Threads : c = StackOf(t)  BY <1>2, <3>3
    <3> QED  BY <3>1, <3>2, <3>3, Boxes
  <2> QED  BY <1>2, <2>1, Boxes, HeldNow, HeldNext DEF Takes, Picks
<1> QED  BY <1>1, <1>2, <1>3, PickStep DEF Base, Typed

LEMMA FromCases ==
  ASSUME Base, NEW e \in Threads, Picks(e, cases), cases' = Tail(cases), UNCHANGED <<injector, deque>>
  PROVE  Base'
<1>1. cases \in Seq(Nat)  BY DEF Base, Typed
<1>2. /\ Tail(cases) \in Seq(Nat)
      /\ Held(StackOf(e))' = Append(Held(StackOf(e)), Head(cases))
      /\ \A t \in Threads \ {e} : Held(StackOf(t))' = Held(StackOf(t))
  BY <1>1, PicksStacks
<1>3. Takes(e, CaseBox)
  <2>1. \A c \in Box \ {CaseBox, StackOf(e)} : Held(c)' = Held(c)
    <3> SUFFICES ASSUME NEW c \in Box, c # CaseBox, c # StackOf(e) PROVE Held(c)' = Held(c)
      OBVIOUS
    <3>1. CASE c = Injector  BY <3>1, HeldNow, HeldNext
    <3>2. CASE \E w \in Workers : c = DequeOf(w)  BY <3>2, HeldNow, HeldNext
    <3>3. CASE \E t \in Threads : c = StackOf(t)  BY <1>2, <3>3
    <3> QED  BY <3>1, <3>2, <3>3, Boxes
  <2> QED  BY <1>2, <2>1, Boxes, HeldNow, HeldNext DEF Takes, Picks
<1> QED  BY <1>1, <1>2, <1>3, PickStep DEF Base, Typed

LEMMA FromDeque ==
  ASSUME Base, NEW e \in Threads, NEW w \in Workers, Picks(e, deque[w]),
         deque' = [deque EXCEPT ![w] = Tail(@)], UNCHANGED <<injector, cases>>
  PROVE  Base'
<1>1. deque \in [Workers -> Seq(Nat)] /\ deque[w] \in Seq(Nat)  BY DEF Base, Typed
<1>2. /\ Tail(deque[w]) \in Seq(Nat)
      /\ Held(StackOf(e))' = Append(Held(StackOf(e)), Head(deque[w]))
      /\ \A t \in Threads \ {e} : Held(StackOf(t))' = Held(StackOf(t))
  BY <1>1, PicksStacks
<1>3. /\ deque' \in [Workers -> Seq(Nat)] /\ deque'[w] = Tail(deque[w])
      /\ \A v \in Workers \ {w} : deque'[v] = deque[v]
  BY <1>1, <1>2
<1>4. Takes(e, DequeOf(w))
  <2>1. \A c \in Box \ {DequeOf(w), StackOf(e)} : Held(c)' = Held(c)
    <3> SUFFICES ASSUME NEW c \in Box, c # DequeOf(w), c # StackOf(e) PROVE Held(c)' = Held(c)
      OBVIOUS
    <3>1. CASE c = Injector \/ c = CaseBox  BY <3>1, HeldNow, HeldNext
    <3>2. CASE \E v \in Workers : c = DequeOf(v)  BY <1>3, <3>2, HeldNow, HeldNext
    <3>3. CASE \E t \in Threads : c = StackOf(t)  BY <1>2, <3>3
    <3> QED  BY <3>1, <3>2, <3>3, Boxes
  <2>2. Held(DequeOf(w)) = deque[w] /\ Held(DequeOf(w))' = Tail(deque[w])  BY <1>3, HeldNow, HeldNext
  <2>3. deque[w] # <<>>  BY DEF Picks
  <2> QED  BY <1>2, <2>1, <2>2, <2>3, Boxes DEF Takes
<1> QED  BY <1>1, <1>3, <1>4, PickStep DEF Base, Typed

LEMMA RunPicks ==
  ASSUME Base, NEW e \in Threads, NEW q, q # <<>>, Run(e, Head(q)), pc[e] \in Looking
  PROVE  Picks(e, q)
  BY DEF Run, Picks, Base, Typed

LEMMA LookSteps ==
  ASSUME Base, NEW e \in Threads,
         PopLocal(e) \/ steal_from_injector(e) \/ steal_from_peers(e) \/ steal_case(e)
  PROVE  Base'
<1> USE DEF At
<1>1. CASE PopLocal(e)
  <2>1. pc[e] = "local" /\ pc[e] \in Looking  BY <1>1 DEF PopLocal, Looking
  <2>2. CASE /\ e \in Workers /\ deque[e] # <<>>
             /\ deque' = [deque EXCEPT ![e] = Tail(@)]
             /\ Run(e, Head(deque[e]))
             /\ UNCHANGED <<injector, cases>>
    <3>1. Picks(e, deque[e])  BY <2>1, <2>2, RunPicks
    <3> QED  BY <2>2, <3>1, FromDeque
  <2>3. CASE Empty(e, "inject")  BY <2>1, <2>3, EmptyStep DEF Pcs, Ending, Busy, Submitting
  <2> QED  BY <1>1, <2>2, <2>3 DEF PopLocal
<1>2. CASE steal_from_injector(e)
  <2>1. pc[e] = "inject" /\ pc[e] \in Looking  BY <1>2 DEF steal_from_injector, Looking
  <2>2. CASE /\ injector # <<>>
             /\ injector' = Tail(injector)
             /\ Run(e, Head(injector))
             /\ UNCHANGED <<cases, deque>>
    <3>1. Picks(e, injector)  BY <2>1, <2>2, RunPicks
    <3> QED  BY <2>2, <3>1, FromInjector
  <2>3. CASE Empty(e, "peers")  BY <2>1, <2>3, EmptyStep DEF Pcs, Ending, Busy, Submitting
  <2> QED  BY <1>2, <2>2, <2>3 DEF steal_from_injector
<1>3. CASE steal_from_peers(e)
  <2>1. pc[e] = "peers" /\ pc[e] \in Looking  BY <1>3 DEF steal_from_peers, Looking
  <2>2. ASSUME NEW w \in Workers, deque[w] # <<>>, deque' = [deque EXCEPT ![w] = Tail(@)],
               Run(e, Head(deque[w])), UNCHANGED <<injector, cases>>
        PROVE  Base'
    <3>1. Picks(e, deque[w])  BY <2>1, <2>2, RunPicks
    <3> QED  BY <2>2, <3>1, FromDeque
  <2>3. CASE Empty(e, "cases")  BY <2>1, <2>3, EmptyStep DEF Pcs, Ending, Busy, Submitting
  <2>4. CASE Nothing(e)  BY <2>1, <2>4, NothingStep
  <2> QED  BY <1>3, <2>2, <2>3, <2>4 DEF steal_from_peers
<1>4. CASE steal_case(e)
  <2>1. pc[e] = "cases" /\ pc[e] \in Looking  BY <1>4 DEF steal_case, Looking
  <2>2. CASE /\ cases # <<>>
             /\ cases' = Tail(cases)
             /\ Run(e, Head(cases))
             /\ UNCHANGED <<injector, deque>>
    <3>1. Picks(e, cases)  BY <2>1, <2>2, RunPicks
    <3> QED  BY <2>2, <3>1, FromCases
  <2>3. CASE Nothing(e)  BY <2>1, <2>3, NothingStep
  <2> QED  BY <1>4, <2>2, <2>3 DEF steal_case
<1> QED  BY <1>1, <1>2, <1>3, <1>4

LEMMA SpareSteps ==
  ASSUME Base, NEW e \in Threads, help_off_stack(e) \/ SpareEnds(e)
  PROVE  Base'
<1> USE DEF At
<1>1. CASE help_off_stack(e)
  <2>1. pc[e] \in {"off", "spare"} /\ stack[e] = <<>>  BY <1>1 DEF help_off_stack, Base, Control
  <2>2. \A j : Append(stack[e], j) = <<j>>  BY <2>1
  <2>3. Goto(e, "run") /\ UNCHANGED <<jobvars, inflight, shutdown, cases>> /\ sleep' \in Threads \cup {NoThread}
    BY <1>1 DEF help_off_stack, Base, Typed
  <2>4. CASE injector # <<>> /\ injector' = Tail(injector) /\ stack' = [stack EXCEPT ![e] = <<Head(injector)>>]
             /\ UNCHANGED deque
    <3>1. stack' = [stack EXCEPT ![e] = Append(@, Head(injector))]  BY <2>2, <2>4
    <3>2. Picks(e, injector)  BY <2>1, <2>3, <2>4, <3>1 DEF Picks
    <3> QED  BY <2>3, <2>4, <3>2, FromInjector
  <2>5. ASSUME NEW w \in Workers, deque[w] # <<>>, deque' = [deque EXCEPT ![w] = Tail(@)],
               stack' = [stack EXCEPT ![e] = <<Head(deque[w])>>], UNCHANGED injector
        PROVE  Base'
    <3>1. stack' = [stack EXCEPT ![e] = Append(@, Head(deque[w]))]  BY <2>2, <2>5
    <3>2. Picks(e, deque[w])  BY <2>1, <2>3, <2>5, <3>1 DEF Picks
    <3> QED  BY <2>3, <2>5, <3>2, FromDeque
  <2> QED  BY <1>1, <2>4, <2>5 DEF help_off_stack
<1>2. CASE SpareEnds(e)
  <2>1. pc[e] = "spare" /\ stack[e] = <<>> /\ Empty(e, "off")  BY <1>2 DEF SpareEnds, Base, Control
  <2> QED  BY <2>1, EmptyStep DEF Pcs, Ending, Busy, Submitting
<1> QED  BY <1>1, <1>2

(***************************************************************************)
(* The steps of a job, from its submission to its end.                     *)
(***************************************************************************)
LEMMA JobSteps ==
  ASSUME Base, NEW e \in Threads,
         \/ \E k \in {"thread", "case"} : Submit(e, k)
         \/ try_push_local(e) \/ store_result(e) \/ CountDown(e) \/ NotifyDone(e)
  PROVE  Base'
<1> USE DEF At
<1>0. pc \in [Threads -> Pcs] /\ stack \in [Threads -> Seq(Nat)]  BY DEF Base, Typed
<1>1. ASSUME NEW k \in {"thread", "case"}, Submit(e, k) PROVE Base'
  <2>1. /\ pc[e] = "run" /\ Len(kind) < MaxJobs /\ kind' = Append(kind, k) /\ parent' = Append(parent, Top(e))
        /\ result' = Append(result, "none") /\ inflight' = inflight + 1 /\ pc' = [pc EXCEPT ![e] = "push"]
        /\ UNCHANGED <<runner, joined, detached, live, awaits, injector, cases, deque, shutdown, sleep, stack>>
    BY <1>1 DEF Submit, Goto, queues
  <2>2. Top(e) \in 0..MaxJobs
    <3>1. stack[e] # <<>>  BY <2>1 DEF Base, Control, Busy
    <3>2. Top(e) \in 0..Len(kind) /\ Len(kind) \in Nat /\ Len(kind) <= MaxJobs /\ MaxJobs \in Nat
      BY <3>1, Tops, JobSets, ReactorAssumption DEF Base, Typed
    <3> QED  BY <3>2
  <2>3. kind' \in Seq({"thread", "case"}) /\ Len(kind') = Len(kind) + 1
    BY <2>1, AppendProperties DEF Base, Typed
  <2>4. parent' \in Seq(0..MaxJobs) /\ Len(parent') = Len(kind) + 1
    BY <2>1, <2>2, AppendProperties DEF Base, Typed
  <2>5. result' \in Seq({"none", "stored", "taken"}) /\ Len(result') = Len(kind) + 1
    <3>1. result \in Seq({"none", "stored", "taken"}) /\ Len(result) = Len(kind)  BY DEF Base, Typed
    <3>2. "none" \in {"none", "stored", "taken"}  OBVIOUS
    <3> QED  BY <2>1, <3>1, <3>2, AppendProperties
  <2>6. Len(kind) + 1 <= MaxJobs /\ Jobs \subseteq Jobs'
    <3>1. Len(kind) \in Nat /\ MaxJobs \in Nat  BY JobSets, ReactorAssumption
    <3> QED  BY <2>1, <2>3, <3>1 DEF Jobs
  <2>7. pc' \in [Threads -> Pcs]  BY <1>0, <2>1 DEF Pcs
  <2>8. joined' \subseteq Jobs' /\ live' \subseteq Jobs' /\ detached' \subseteq Jobs' \ joined'
    BY <2>1, <2>6 DEF Base, Typed
  <2>9. Typed'  BY <2>1, <2>3, <2>4, <2>5, <2>6, <2>7, <2>8 DEF Base, Typed
  <2> QED  BY <1>1, <2>9, SubmitStep
<1>2. CASE try_push_local(e)
  <2>1. pc[e] = "push" /\ pc' = [pc EXCEPT ![e] = "notifySubmit"] /\ UNCHANGED <<jobvars, inflight, shutdown, sleep, stack>>
    BY <1>2 DEF try_push_local, Goto
  <2>2. InHand(e) \in Nat
    <3>1. InHand(e) \in Jobs  BY <2>1, InHandIs DEF Submitting
    <3> QED  BY <3>1, JobSets
  <2>3. \A q \in Seq(Nat) : Append(q, InHand(e)) \in Seq(Nat)  BY <2>2, AppendProperties
  <2>4. injector' \in Seq(Nat) /\ cases' \in Seq(Nat) /\ deque' \in [Workers -> Seq(Nat)]
    BY <1>2, <2>3 DEF try_push_local, Base, Typed
  <2>5. pc' \in [Threads -> Pcs]  BY <1>0, <2>1 DEF Pcs
  <2>6. Typed'  BY <2>1, <2>4, <2>5 DEF Base, Typed, jobvars, Jobs
  <2> QED  BY <1>2, <2>6, PushStep
<1>3. CASE store_result(e)
  <2>1. /\ pc[e] = "run" /\ Top(e) # Program /\ result' = [result EXCEPT ![Top(e)] = "stored"]
        /\ pc' = [pc EXCEPT ![e] = "stored"]
        /\ UNCHANGED <<runner, kind, parent, joined, detached, live, awaits, injector, cases, deque,
                       inflight, shutdown, sleep, stack>>
    BY <1>3 DEF store_result, Goto, queues
  <2>2. Top(e) \in 1..Len(kind)
    <3>1. stack[e] # <<>>  BY <2>1 DEF Base, Control, Busy
    <3> QED  BY <2>1, <3>1, Tops, JobSets
  <2>3. result' \in Seq({"none", "stored", "taken"}) /\ Len(result') = Len(kind)
    <3>1. result \in Seq({"none", "stored", "taken"}) /\ Len(result) = Len(kind)  BY DEF Base, Typed
    <3> QED  BY <2>1, <2>2, <3>1, ExceptSeq
  <2>4. pc' \in [Threads -> Pcs]  BY <1>0, <2>1 DEF Pcs
  <2>5. Typed'  BY <2>1, <2>3, <2>4 DEF Base, Typed, Jobs
  <2> QED  BY <1>3, <2>5, StoreStep
<1>4. CASE CountDown(e)
  <2>1. /\ pc[e] = "stored" /\ inflight' = inflight - 1 /\ pc' = [pc EXCEPT ![e] = "notifyDone"]
        /\ UNCHANGED <<jobvars, queues, shutdown, sleep, stack>>
    BY <1>4 DEF CountDown, Goto
  <2>2. inflight' \in Nat
    <3>1. e \in StoredAt  BY <2>1 DEF StoredAt
    <3>2. StoredAt # {} /\ IsFiniteSet(StoredAt) /\ IsFiniteSet(None)  BY <3>1, JobSets
    <3>3. Cardinality(StoredAt) \in Nat /\ Cardinality(StoredAt) # 0 /\ Cardinality(None) \in Nat
      BY <3>2, FS_CardinalityType, FS_EmptySet
    <3>4. inflight = Cardinality(None) + Cardinality(StoredAt)  BY DEF Base, Counted
    <3> QED  BY <2>1, <3>3, <3>4
  <2>3. pc' \in [Threads -> Pcs]  BY <1>0, <2>1 DEF Pcs
  <2>4. Typed'  BY <2>1, <2>2, <2>3 DEF Base, Typed, jobvars, queues, Jobs
  <2> QED  BY <1>4, <2>4, CountDownStep
<1>5. CASE NotifyDone(e)
  <2>1. /\ pc[e] = "notifyDone" /\ stack' = [stack EXCEPT ![e] = Front(stack[e])]
        /\ notify(e, IF Front(stack[e]) # <<>> THEN "join" ELSE IF e \in Spares THEN "spare" ELSE "top")
        /\ UNCHANGED <<jobvars, queues, inflight, shutdown, sleep>>
    BY <1>5 DEF NotifyDone
  <2>2. PICK l \in {"join", "spare", "top"} : notify(e, l)  BY <2>1
  <2>3. \A t \in Threads : Loop(t) \in {"top", "join"}  BY DEF Loop
  <2>4. pc' \in [Threads -> Pcs]  BY <1>0, <2>2, <2>3 DEF notify, Pcs
  <2>5. stack' \in [Threads -> Seq(Nat)]
    <3>1. stack[e] # <<>> /\ Distinct(stack[e])  BY <2>1, Boxes, HeldNow DEF Base, Control, Busy, Once
    <3>2. Front(stack[e]) \in Seq(Nat)  BY <1>0, <3>1, FrontElems
    <3> QED  BY <1>0, <2>1, <3>2
  <2>6. Typed'  BY <2>1, <2>4, <2>5 DEF Base, Typed, jobvars, queues, Jobs
  <2> QED  BY <1>5, <2>6, NotifyDoneStep
<1> QED  BY <1>1, <1>2, <1>3, <1>4, <1>5

LEMMA NextBase ==
  ASSUME Base, [Next]_vars
  PROVE  Base'
<1>1. ASSUME NEW e \in Threads, Step(e) \/ SpuriousWakeup(e) PROVE Base'
  BY <1>1, LookSteps, WaitSteps, JobSteps, NotifySubmitStep, HandleSteps, SpareSteps DEF Step
<1>2. CASE RootEnds  BY <1>2, RootSteps
<1>3. CASE UNCHANGED vars
  <2>1. Steady  BY <1>3, EmptySteady DEF vars, Base, Typed
  <2>2. pc' \in [Threads -> Pcs] /\ \A t \in Threads : Calm(t)  BY <1>3 DEF vars, Base, Typed, Calm
  <2> QED  BY <2>1, <2>2, SteadyStep
<1> QED  BY <1>1, <1>2, <1>3 DEF Next, Done

LEMMA InitBase ==
  ASSUME Init
  PROVE  Base
<1>1. /\ Jobs = {} /\ Root \in Threads /\ Len(kind) = 0
      /\ \A e \in Threads : stack[e] = IF e = Root THEN <<Program>> ELSE <<>>
      /\ \A e \in Threads : pc[e] = IF e = Root THEN "run" ELSE IF e \in Workers THEN "top" ELSE "off"
  BY DEF Init, Jobs, Threads
<1>2. Typed
  <2>1. <<>> \in Seq(Nat) /\ <<Program>> \in Seq(Nat) /\ 0 \in 0..MaxJobs  BY ReactorAssumption DEF Program
  <2>2. stack \in [Threads -> Seq(Nat)] /\ pc \in [Threads -> Pcs]  BY <2>1 DEF Init, Pcs
  <2>3. awaits \in [0..MaxJobs -> 0..MaxJobs] /\ deque \in [Workers -> Seq(Nat)]  BY <2>1 DEF Init
  <2>4. Len(kind) <= MaxJobs  BY <1>1, ReactorAssumption
  <2>5. /\ kind \in Seq({"thread", "case"}) /\ parent \in Seq(0..MaxJobs) /\ Len(parent) = Len(kind)
        /\ result \in Seq({"none", "stored", "taken"}) /\ Len(result) = Len(kind)
    BY EmptySeq DEF Init
  <2>6. /\ runner \in BOOLEAN /\ joined \subseteq Jobs /\ live \subseteq Jobs /\ detached \subseteq Jobs \ joined
        /\ injector \in Seq(Nat) /\ cases \in Seq(Nat)
        /\ inflight \in Nat /\ shutdown \in BOOLEAN /\ sleep \in Threads \cup {NoThread}
    BY <2>1 DEF Init
  <2> QED  BY <2>2, <2>3, <2>4, <2>5, <2>6 DEF Typed
<1>3. Control  BY <1>1 DEF Control, Busy, Ending, Submitting
<1>4. \A b \in Box : Held(b) = IF b = StackOf(Root) THEN <<Program>> ELSE <<>>
  <2> SUFFICES ASSUME NEW b \in Box PROVE Held(b) = IF b = StackOf(Root) THEN <<Program>> ELSE <<>>
    OBVIOUS
  <2>1. CASE b = Injector \/ b = CaseBox  BY <1>1, <2>1, Boxes, HeldNow DEF Init
  <2>2. CASE \E w \in Workers : b = DequeOf(w)  BY <1>1, <2>2, Boxes, HeldNow DEF Init
  <2>3. CASE \E e \in Threads : b = StackOf(e)
    <3>1. PICK e \in Threads : b = StackOf(e)  BY <2>3
    <3> QED  BY <1>1, <3>1, Boxes, HeldNow
  <2> QED  BY <2>1, <2>2, <2>3, Boxes
<1>5. \A b \in Box : In(b) = IF b = StackOf(Root) THEN {Program} ELSE {}
  <2>1. Elems(<<>>) = {} /\ Elems(<<Program>>) = {Program}  BY DEF Elems
  <2> QED  BY <1>4, <2>1 DEF In
<1>6. Once
  <2>1. Distinct(<<>>) /\ Distinct(<<Program>>)  BY DEF Distinct
  <2> QED  BY <1>4, <1>5, <2>1 DEF Once
<1>7. Contents
  <2>1. In(CaseBox) = {}  BY <1>1, <1>5, Boxes
  <2> QED  BY <1>5, <2>1 DEF Contents
<1>8. Carries  BY <1>1 DEF Carries
<1>9. Status  BY <1>1, <1>5 DEF Status, Ending
<1>10. Counted
  <2>1. None = {} /\ StoredAt = {}  BY <1>1 DEF None, StoredAt
  <2>2. Pending = {}  BY <2>1 DEF Pending
  <2>3. inflight = 0  BY DEF Init
  <2> QED  BY <2>1, <2>2, <2>3, FS_EmptySet DEF Counted
<1> QED  BY <1>2, <1>3, <1>6, <1>7, <1>8, <1>9, <1>10 DEF Base

(***************************************************************************)
(* Every job the pool was given is in one place until it has ended, and    *)
(* the count of jobs in flight is exact: the inductive invariant of the    *)
(* theorems below.                                                         *)
(***************************************************************************)
THEOREM BaseInvariant == Spec => []Base
  BY InitBase, NextBase, PTL DEF Spec

LEMMA QueuedIs ==
  ASSUME Base
  PROVE  /\ Queued = In(Injector) \cup In(CaseBox) \cup UNION {In(DequeOf(w)) : w \in Workers}
         /\ Running = UNION {In(StackOf(e)) : e \in Threads}
         /\ \A j : j \in Queued \cup Running <=> \E b \in Box : j \in In(b)
<1>1. \A q \in Seq(Nat) : {q[i] : i \in DOMAIN q} = Elems(q)
  <2> SUFFICES ASSUME NEW q \in Seq(Nat) PROVE {q[i] : i \in DOMAIN q} = Elems(q)
    OBVIOUS
  <2>1. DOMAIN q = 1..Len(q)  BY LenProperties
  <2> QED  BY <2>1 DEF Elems
<1>2. In(Injector) = {injector[i] : i \in DOMAIN injector}  BY <1>1, HeldNow DEF In, Base, Typed
<1>3. In(CaseBox) = {cases[i] : i \in DOMAIN cases}  BY <1>1, HeldNow DEF In, Base, Typed
<1>4. \A w \in Workers : In(DequeOf(w)) = {deque[w][i] : i \in DOMAIN deque[w]}
  <2> SUFFICES ASSUME NEW w \in Workers PROVE In(DequeOf(w)) = {deque[w][i] : i \in DOMAIN deque[w]}
    OBVIOUS
  <2>1. deque[w] \in Seq(Nat)  BY DEF Base, Typed
  <2> QED  BY <1>1, <2>1, HeldNow DEF In
<1>5. \A e \in Threads : In(StackOf(e)) = {stack[e][i] : i \in DOMAIN stack[e]}
  <2> SUFFICES ASSUME NEW e \in Threads PROVE In(StackOf(e)) = {stack[e][i] : i \in DOMAIN stack[e]}
    OBVIOUS
  <2>1. stack[e] \in Seq(Nat)  BY DEF Base, Typed
  <2> QED  BY <1>1, <2>1, HeldNow DEF In
<1>6. Queued = In(Injector) \cup In(CaseBox) \cup UNION {In(DequeOf(w)) : w \in Workers}
  <2>1. {In(DequeOf(w)) : w \in Workers} = {{deque[w][i] : i \in DOMAIN deque[w]} : w \in Workers}
    BY <1>4
  <2> QED  BY <1>2, <1>3, <2>1 DEF Queued
<1>7. Running = UNION {In(StackOf(e)) : e \in Threads}
  <2>1. {In(StackOf(e)) : e \in Threads} = {{stack[e][i] : i \in DOMAIN stack[e]} : e \in Threads}
    BY <1>5
  <2> QED  BY <2>1 DEF Running
<1>8. \A j : j \in Queued \cup Running <=> \E b \in Box : j \in In(b)
  <2>1. ASSUME NEW j, NEW b \in Box, j \in In(b) PROVE j \in Queued \cup Running
    BY <1>6, <1>7, <2>1, Boxes
  <2>2. ASSUME NEW j \in Queued \cup Running PROVE \E b \in Box : j \in In(b)
    BY <1>6, <1>7, Boxes
  <2> QED  BY <2>1, <2>2
<1> QED  BY <1>6, <1>7, <1>8

LEMMA BaseJobsOnce ==
  ASSUME Base
  PROVE  JobsOnce
<1>1. TypeOK
  <2>1. /\ kind \in Seq({"thread", "case"}) /\ Len(kind) <= MaxJobs
        /\ joined \subseteq Jobs /\ live \subseteq Jobs /\ detached \subseteq Jobs \ joined
        /\ awaits \in [0..MaxJobs -> 0..MaxJobs] /\ shutdown \in BOOLEAN /\ sleep \in Threads \cup {NoThread}
    BY DEF Base, Typed
  <2>2. parent \in [Jobs -> 0..MaxJobs]
    <3>1. parent \in Seq(0..MaxJobs) /\ Len(parent) = Len(kind)  BY DEF Base, Typed
    <3> QED  BY <3>1, LenProperties, ElementOfSeq DEF Jobs
  <2>3. result \in [Jobs -> {"none", "stored", "taken"}]
    <3>1. result \in Seq({"none", "stored", "taken"}) /\ Len(result) = Len(kind)  BY DEF Base, Typed
    <3> QED  BY <3>1, LenProperties, ElementOfSeq DEF Jobs
  <2>4. Queued \cup (Running \ {Program}) \subseteq Jobs
    <3>1. \A b \in Box : In(b) \subseteq Jobs \cup {Program}  BY DEF Base, Contents
    <3>2. \A b \in Box \ {StackOf(Root)} : Program \notin In(b)  BY DEF Base, Contents
    <3>3. Queued \subseteq Jobs
      <4>1. Root \in Threads  BY DEF Threads
      <4>2. In(Injector) \subseteq Jobs /\ In(CaseBox) \subseteq Jobs  BY <3>1, <3>2, <4>1, Boxes
      <4>3. \A w \in Workers : In(DequeOf(w)) \subseteq Jobs  BY <3>1, <3>2, <4>1, Boxes
      <4> QED  BY <4>2, <4>3, QueuedIs
    <3> QED  BY <3>1, <3>3, QueuedIs
  <2>5. inflight \in 0..MaxJobs
    <3>1. Cardinality(Pending) <= Cardinality(Jobs)  BY JobSets, FS_Subset
    <3>2. Cardinality(Jobs) = Len(kind)
      <4>1. Len(kind) \in Nat /\ Jobs = 1..Len(kind)  BY JobSets
      <4> DEFINE n == Len(kind)
      <4> HIDE DEF n
      <4>2. n \in Nat /\ Jobs = 1..n  BY <4>1 DEF n
      <4>3. Cardinality(1..n) = IF 1 > n THEN 0 ELSE n - 1 + 1  BY <4>2, FS_Interval
      <4>4. Cardinality(Jobs) = n  BY <4>2, <4>3
      <4> QED  BY <4>4 DEF n
    <3>3. inflight = Cardinality(Pending) /\ Cardinality(Pending) \in Nat
      BY JobSets, FS_CardinalityType DEF Base, Counted
    <3> QED  BY <2>1, <3>1, <3>2, <3>3, JobSets, ReactorAssumption
  <2> QED  BY <2>1, <2>2, <2>3, <2>4, <2>5 DEF TypeOK
<1>2. /\ Carried \subseteq Jobs
      /\ \A j \in Carried : result[j] = "none" /\ j \notin Queued \cup Running
      /\ \A e \in Threads : pc[e] = "push" => \A j \in Jobs : Newest(e, j) => j \in Carried
  <2>1. ASSUME NEW e \in Threads, pc[e] = "push"
        PROVE  /\ InHand(e) \in Jobs /\ Newest(e, InHand(e))
               /\ \A k \in Jobs : Newest(e, k) => k = InHand(e)
    BY <2>1, InHandIs DEF Submitting
  <2>2. \A e \in Threads : pc[e] = "push" =>
          result[InHand(e)] = "none" /\ \A b \in Box : InHand(e) \notin In(b)
    BY <2>1 DEF Base, Carries
  <2> QED  BY <2>1, <2>2, QueuedIs DEF Carried, At
<1>3. ASSUME NEW j \in Jobs
      PROVE  result[j] = "none" <=>
               j \in (Queued \cup Carried \cup Running) \ {Top(e) : e \in {t \in Threads : pc[t] \in {"stored", "notifyDone"}}}
  <2>1. ASSUME result[j] = "none" PROVE j \in Queued \cup Carried \cup Running
    BY <1>2, <2>1, QueuedIs DEF Base, Status
  <2>2. \A e \in Threads : pc[e] \in {"stored", "notifyDone"} => result[Top(e)] # "none"
    BY DEF Base, Status, Ending
  <2>3. ASSUME j \in Queued \cup Running, result[j] # "none"
        PROVE  \E e \in Threads : pc[e] \in {"stored", "notifyDone"} /\ j = Top(e)
    <3>1. PICK b \in Box : j \in In(b)  BY <2>3, QueuedIs
    <3>2. j # Program  BY JobSets DEF Program
    <3> QED  BY <2>3, <3>1, <3>2 DEF Base, Status, Ending
  <2> QED  BY <1>2, <2>1, <2>2, <2>3
<1>4. Queued \cap Running = {}
  <2> SUFFICES ASSUME NEW j \in Queued, NEW e \in Threads, j \in In(StackOf(e)) PROVE FALSE
    BY QueuedIs
  <2>1. PICK b \in Box : j \in In(b) /\ b # StackOf(e)  BY QueuedIs, Boxes
  <2> QED  BY <2>1, Boxes DEF Base, Once
<1>5. inflight = Cardinality({j \in Jobs : result[j] = "none"}) + Cardinality({e \in Threads : At(e, "stored")})
  BY DEF Base, Counted, None, StoredAt, At
<1> QED  BY <1>1, <1>2, <1>3, <1>4, <1>5 DEF JobsOnce

(***************************************************************************)
(* However threads push, pop, steal and help, a job that has not ended is  *)
(* being submitted, in one queue or on one stack, and in one of these      *)
(* places only; one that ended is in none but the stack it leaves; and     *)
(* `inflight`, which the workers' shortcut past the queues and the root's  *)
(* decision to stop the pool read, counts the jobs that have not ended.    *)
(***************************************************************************)
THEOREM JobsOnceTheorem == Spec => []JobsOnce
  BY BaseInvariant, BaseJobsOnce, PTL

-----------------------------------------------------------------------------
(***************************************************************************)
(* Wakeups.  First what a step of e must do to keep Mutex and Watched, and *)
(* to keep Joins.                                                          *)
(***************************************************************************)
\* the queues do not grow, and nothing that another thread waits for comes
Brings(e) ==
  \/ injector = <<>> /\ injector' # <<>>
  \/ cases = <<>> /\ cases' # <<>>
  \/ Dequeless /\ ~Dequeless'
  \/ \E t \in Threads \ {e} : Watching(t) /\ Unmet(t) /\ ~Unmet(t)'

LEMMA WatchStep ==
  ASSUME Typed, Mutex, Watched, NEW e \in Threads,
         sleep' \in {sleep, NoThread, e}, sleep' = e => pc'[e] \in Looking,
         \A t \in Threads \ {e} : pc'[t] = pc[t],
         Notifies(e) => Notifies(e)',
         Brings(e) => Notifies(e)',
         Watching(e)' /\ Quiet => Sure(e)'
  PROVE  Mutex' /\ Watched'
<1>1. sleep \in Threads \cup {NoThread} /\ NoThread \notin Threads  BY ReactorAssumption DEF Typed
<1>2. Mutex'
  <2> SUFFICES ASSUME sleep' # NoThread PROVE pc'[sleep'] \in Looking
    BY DEF Mutex
  <2>1. CASE sleep' = e  BY <2>1
  <2>2. CASE sleep' # e
    <3>1. sleep' = sleep /\ sleep \in Threads \ {e}  BY <1>1, <2>2
    <3> QED  BY <3>1 DEF Mutex
  <2> QED  BY <2>1, <2>2
<1>3. ASSUME NEW t \in Threads, Watching(t)', Quiet' PROVE Sure(t)'
  <2>1. ~Notifies(e)' /\ ~Brings(e)  BY <1>3 DEF Quiet
  <2>2. \A u \in Threads \ {e} : Notifies(u) => Notifies(u)'  BY DEF Notifies
  <2>3. Quiet  BY <1>3, <2>1, <2>2 DEF Quiet
  <2>4. CASE t = e  BY <1>3, <2>3, <2>4
  <2>5. CASE t # e
    <3>1. pc'[t] = pc[t] /\ Watching(t)  BY <1>1, <1>3, <2>5 DEF Watching
    <3>2. Sure(t)  BY <2>3, <3>1 DEF Watched
    <3>3. Unmet(t)'  BY <2>1, <2>5, <3>1, <3>2 DEF Brings, Sure
    <3>4. (injector = <<>> => injector' = <<>>) /\ (cases = <<>> => cases' = <<>>) /\ (Dequeless => Dequeless')
      BY <2>1 DEF Brings
    <3> QED  BY <3>1, <3>2, <3>3, <3>4 DEF Sure
  <2> QED  BY <2>4, <2>5
<1> QED  BY <1>2, <1>3 DEF Watched

LEMMA UnmetStep ==
  ASSUME Typed, Mutex, Joins, NEW t \in Threads, Watching(t), Unmet(t), stack'[t] = stack[t],
         stack[t] # <<>> => awaits'[Top(t)] = awaits[Top(t)],
         \A c \in Jobs : result'[c] = "stored" => result[c] = "stored",
         shutdown' => shutdown
  PROVE  Unmet(t)'
<1>1. pc[t] \in Joining
  <2>1. CASE sleep = t  BY <2>1, ReactorAssumption DEF Mutex, Joining
  <2>2. CASE pc[t] = "waiting"  BY <2>2 DEF Joining
  <2> QED  BY <2>1, <2>2 DEF Watching
<1>2. Top(t)' = Top(t)  BY DEF Top
<1>3. CASE stack[t] = <<>>  BY <1>3 DEF Unmet
<1>4. CASE stack[t] # <<>>
  <2>1. awaits[Top(t)] \in Jobs  BY <1>1, <1>4 DEF Joins
  <2>2. awaits'[Top(t)'] = awaits[Top(t)]  BY <1>2, <1>4
  <2>3. result[awaits[Top(t)]] # "stored"  BY <1>4 DEF Unmet
  <2>4. result'[awaits'[Top(t)']] # "stored"  BY <2>1, <2>2, <2>3
  <2> QED  BY <1>4, <2>4 DEF Unmet
<1> QED  BY <1>3, <1>4

LEMMA JoinsStep ==
  ASSUME Joins, NEW e \in Threads, Jobs \subseteq Jobs',
         \A t \in Threads \ {e} : stack'[t] = stack[t] /\ (pc'[t] \in Joining => pc[t] \in Joining),
         \A t \in Threads \ {e} : pc'[t] = "top" => pc[t] = "top" \/ stack[t] = <<>>,
         \A t \in Threads \ {e} : stack[t] # <<>> => awaits'[Top(t)] = awaits[Top(t)],
         \A t \in Threads \ {e} : \A i \in 1..(Len(stack[t]) - 1) : awaits'[stack[t][i]] = awaits[stack[t][i]],
         pc'[e] \in Joining /\ stack'[e] # <<>> => awaits'[Top(e)'] \in Jobs',
         \A i \in 1..(Len(stack'[e]) - 1) : awaits'[stack'[e][i]] \in Jobs',
         pc'[e] = "top" => stack'[e] = <<>>
  PROVE  Joins'
<1>1. ASSUME NEW t \in Threads \ {e}
      PROVE  /\ pc'[t] \in Joining /\ stack'[t] # <<>> => awaits'[Top(t)'] \in Jobs'
             /\ \A i \in 1..(Len(stack'[t]) - 1) : awaits'[stack'[t][i]] \in Jobs'
             /\ pc'[t] = "top" => stack'[t] = <<>>
  <2>1. stack'[t] = stack[t] /\ Top(t)' = Top(t)  BY DEF Top
  <2>2. pc'[t] \in Joining /\ stack'[t] # <<>> => awaits'[Top(t)'] \in Jobs'  BY <2>1 DEF Joins
  <2>3. ASSUME NEW i \in 1..(Len(stack[t]) - 1) PROVE awaits'[stack[t][i]] \in Jobs'  BY DEF Joins
  <2>4. pc'[t] = "top" => stack'[t] = <<>>  BY <2>1 DEF Joins
  <2> QED  BY <2>1, <2>2, <2>3, <2>4
<1> QED  BY <1>1 DEF Joins

\* Every job on a stack but the running one is off limits to the others.
LEMMA AwaitsElsewhere ==
  ASSUME Base, NEW e \in Threads, stack[e] # <<>>, NEW x, awaits' = [awaits EXCEPT ![Top(e)] = x]
  PROVE  /\ \A t \in Threads \ {e} : stack[t] # <<>> => awaits'[Top(t)] = awaits[Top(t)]
         /\ \A t \in Threads : \A i \in 1..(Len(stack[t]) - 1) : awaits'[stack[t][i]] = awaits[stack[t][i]]
<1>1. \A y : y # Top(e) /\ y \in 0..MaxJobs => awaits'[y] = awaits[y]  BY DEF Base, Typed
<1>2. \A b \in Box : In(b) \subseteq 0..MaxJobs
  <2>1. Jobs \cup {Program} \subseteq 0..MaxJobs
    <3>1. Jobs = 1..Len(kind) /\ Len(kind) \in Nat /\ Len(kind) <= MaxJobs /\ MaxJobs \in Nat
      BY JobSets, ReactorAssumption DEF Base, Typed
    <3> QED  BY <3>1 DEF Program
  <2> QED  BY <2>1 DEF Base, Contents
<1>3. \A t \in Threads \ {e} : stack[t] # <<>> => awaits'[Top(t)] = awaits[Top(t)]
  <2> SUFFICES ASSUME NEW t \in Threads \ {e}, stack[t] # <<>> PROVE awaits'[Top(t)] = awaits[Top(t)]
    OBVIOUS
  <2>1. Top(t) # Top(e) /\ Top(t) \in In(StackOf(t))  BY Tops
  <2>2. Top(t) \in 0..MaxJobs  BY <1>2, <2>1, Boxes
  <2> QED  BY <1>1, <2>1, <2>2
<1>4. ASSUME NEW t \in Threads, NEW i \in 1..(Len(stack[t]) - 1)
      PROVE  awaits'[stack[t][i]] = awaits[stack[t][i]]
  <2>1. stack[t] \in Seq(Nat) /\ Distinct(stack[t])  BY Boxes, HeldNow DEF Base, Typed, Once
  <2>2. Len(stack[t]) \in Nat  BY <2>1, LenProperties
  <2>3. i \in 1..Len(stack[t]) /\ Len(stack[t]) \in 1..Len(stack[t]) /\ i # Len(stack[t])  BY <2>2
  <2>4. stack[t][i] # Last(stack[t])  BY <2>1, <2>3 DEF Distinct, Last
  <2>5. stack[t][i] \in In(StackOf(t))
    <3>1. stack[t][i] \in Elems(stack[t])  BY <2>3 DEF Elems
    <3> QED  BY <3>1, HeldNow DEF In
  <2>6. stack[t][i] # Top(e)
    <3>1. CASE t = e  BY <2>4, <3>1 DEF Top
    <3>2. CASE t # e  BY <2>5, <3>2, Tops, Boxes
    <3> QED  BY <3>1, <3>2
  <2>7. stack[t][i] \in 0..MaxJobs  BY <1>2, <2>5, Boxes
  <2> QED  BY <1>1, <2>6, <2>7
<1> QED  BY <1>3, <1>4

\* what e, about to go to l, has to have seen
Seen(e, l) ==
  /\ Unmet(e)
  /\ l \in {"peers", "cases", "waiting"} => injector = <<>>
  /\ l \in {"cases", "waiting"} => Dequeless
  /\ l = "waiting" /\ e \in Workers => cases = <<>>

LEMMA StillStep ==
  ASSUME Base, Wakes, NEW e \in Threads, NEW l, Goto(e, l),
         UNCHANGED <<kind, result, awaits, injector, cases, deque, shutdown, stack>>,
         ~Notifies(e), l \in Joining /\ stack[e] # <<>> => pc[e] \in Joining,
         l = "top" => stack[e] = <<>>,
         sleep' \in {sleep, NoThread, e}, sleep' = e => l \in Looking,
         (sleep' = e \/ l = "waiting") /\ Quiet => Seen(e, l)
  PROVE  Wakes'
<1>1. pc'[e] = l /\ \A t \in Threads \ {e} : pc'[t] = pc[t]  BY DEF Goto, Base, Typed
<1>2. \A t \in Threads : Top(t)' = Top(t)  BY DEF Top
<1>3. \A t \in Threads : Unmet(t)' <=> Unmet(t)  BY <1>2 DEF Unmet
<1>4. Dequeless' <=> Dequeless  BY DEF Dequeless
<1>5. ~Brings(e)  BY <1>3, <1>4 DEF Brings
<1>6. Watching(e)' /\ Quiet => Sure(e)'  BY <1>1, <1>3, <1>4 DEF Watching, Sure, Seen
<1>7. Mutex' /\ Watched'  BY <1>1, <1>5, <1>6, WatchStep DEF Wakes, Base
<1>8. Joins'
  <2>1. Jobs' = Jobs  BY DEF Jobs
  <2>2. pc'[e] \in Joining /\ stack'[e] # <<>> => awaits'[Top(e)'] \in Jobs'
    BY <1>1, <1>2, <2>1 DEF Wakes, Joins
  <2>3. \A i \in 1..(Len(stack'[e]) - 1) : awaits'[stack'[e][i]] \in Jobs'  BY <2>1 DEF Wakes, Joins
  <2> QED  BY <1>1, <2>1, <2>2, <2>3, JoinsStep DEF Wakes
<1> QED  BY <1>7, <1>8 DEF Wakes

LEMMA NotHolding ==
  ASSUME Wakes, NEW e \in Threads, pc[e] \notin Looking
  PROVE  sleep # e
  BY ReactorAssumption DEF Wakes, Mutex

\* e, not looking, goes elsewhere than to wait
LEMMA AwayStep ==
  ASSUME Base, Wakes, NEW e \in Threads, NEW l, Goto(e, l),
         UNCHANGED <<kind, result, awaits, injector, cases, deque, shutdown, sleep, stack>>,
         pc[e] \notin Looking, ~Notifies(e), l # "waiting",
         l \in Joining /\ stack[e] # <<>> => pc[e] \in Joining,
         l = "top" => stack[e] = <<>>
  PROVE  Wakes'
<1>1. sleep' # e  BY NotHolding
<1> QED  BY <1>1, StillStep

\* the queues were found empty
LEMMA NoneQueued ==
  ASSUME Base, inflight = 0
  PROVE  injector = <<>> /\ cases = <<>> /\ Dequeless
<1>1. None = {}
  <2>1. IsFiniteSet(None) /\ IsFiniteSet(StoredAt)  BY JobSets
  <2>2. Cardinality(None) \in Nat /\ Cardinality(StoredAt) \in Nat /\ Cardinality(None) + Cardinality(StoredAt) = 0
    BY <2>1, FS_CardinalityType DEF Base, Counted
  <2>3. Cardinality(None) = 0  BY <2>2
  <2> QED  BY <2>1, <2>3, FS_EmptySet
<1>2. ASSUME NEW b \in Box, \A t \in Threads : b # StackOf(t) PROVE Held(b) = <<>>
  <2>1. Root \in Threads  BY DEF Threads
  <2>2. In(b) \subseteq Jobs /\ Program \notin In(b)  BY <1>2, <2>1 DEF Base, Contents
  <2>3. \A j \in In(b) : result[j] = "none"  BY <1>2, <2>2 DEF Base, Status
  <2>4. In(b) = {}  BY <1>1, <2>2, <2>3 DEF None
  <2> QED  BY <2>4, HeldTypes, NoElems DEF In, Base
<1>3. injector = <<>> /\ cases = <<>>  BY <1>2, Boxes, HeldNow
<1>4. \A w \in Workers : deque[w] = <<>>  BY <1>2, Boxes, HeldNow
<1> QED  BY <1>3, <1>4 DEF Dequeless

\* a second look that finds nothing moves on, and then waits
LEMMA EmptyLook ==
  ASSUME Base, Wakes, NEW e \in Threads, NEW l \in Looking, pc[e] \in Looking, Empty(e, l),
         Sure(e) => Seen(e, l)
  PROVE  Wakes'
<1>1. UNCHANGED <<kind, result, awaits, injector, cases, deque, shutdown, stack, sleep>> /\ Goto(e, l)
  BY DEF Empty, jobvars, queues
<1>2. ~Notifies(e) /\ pc[e] \in Joining /\ l # "waiting" /\ l # "top"  BY DEF Notifies, Looking, Joining
<1>3. sleep' = e /\ Quiet => Seen(e, l)  BY <1>1 DEF Wakes, Watched, Watching
<1> QED  BY <1>1, <1>2, <1>3, StillStep

LEMMA EmptyWait ==
  ASSUME Base, Wakes, NEW e \in Threads, pc[e] \in Looking, Nothing(e),
         sleep = e /\ Sure(e) => Seen(e, "waiting")
  PROVE  Wakes'
<1>1. UNCHANGED <<kind, result, awaits, injector, cases, deque, shutdown, stack>>
  BY DEF Nothing, jobvars, queues
<1>2. ~Notifies(e) /\ pc[e] \in Joining  BY DEF Notifies, Looking, Joining
<1>3. sleep' # e /\ sleep' \in {sleep, NoThread}  BY ReactorAssumption DEF Nothing
<1>4. CASE sleep = e
  <2>1. Goto(e, "waiting")  BY <1>4 DEF Nothing
  <2>2. Quiet => Seen(e, "waiting")  BY <1>4 DEF Wakes, Watched, Watching
  <2> QED  BY <1>1, <1>2, <1>3, <2>1, <2>2, StillStep
<1>5. CASE sleep # e
  <2>1. Goto(e, "park")  BY <1>5 DEF Nothing
  <2> QED  BY <1>1, <1>2, <1>3, <2>1, StillStep
<1> QED  BY <1>4, <1>5

\* a job is taken, and runs
LEMMA PickWakes ==
  ASSUME Base, Wakes, NEW e \in Threads, NEW q \in Seq(Nat), Picks(e, q),
         sleep' \in {sleep, NoThread}, sleep' # e,
         injector = <<>> => injector' = <<>>, cases = <<>> => cases' = <<>>, Dequeless => Dequeless'
  PROVE  Wakes'
<1>1. /\ stack' = [stack EXCEPT ![e] = Append(@, Head(q))] /\ stack \in [Threads -> Seq(Nat)]
      /\ q # <<>> /\ pc' = [pc EXCEPT ![e] = "run"] /\ pc[e] \in Looking \cup {"off", "spare"}
      /\ UNCHANGED <<kind, result, awaits, shutdown>>
  BY DEF Picks, Goto, Base, Typed, jobvars
<1>2. pc'[e] = "run" /\ \A t \in Threads \ {e} : pc'[t] = pc[t]  BY <1>1 DEF Base, Typed
<1>3. stack'[e] = Append(stack[e], Head(q)) /\ \A t \in Threads \ {e} : stack'[t] = stack[t]  BY <1>1
<1>4. ASSUME NEW t \in Threads \ {e}, Watching(t), Unmet(t) PROVE Unmet(t)'
  BY <1>1, <1>3, <1>4, UnmetStep DEF Wakes, Base
<1>5. ~Brings(e)  BY <1>4 DEF Brings
<1>6. ~Notifies(e) /\ ~Watching(e)'  BY <1>1, <1>2 DEF Notifies, Looking, Watching
<1>7. Mutex' /\ Watched'  BY <1>2, <1>5, <1>6, WatchStep DEF Wakes, Base
<1>8. Joins'
  <2>1. Jobs' = Jobs  BY <1>1 DEF Jobs
  <2>2. \A i \in 1..Len(stack[e]) : awaits[stack[e][i]] \in Jobs
    <3>1. stack[e] \in Seq(Nat) /\ Len(stack[e]) \in Nat  BY <1>1, LenProperties
    <3>2. CASE stack[e] = <<>>
      <4>1. Len(stack[e]) = 0  BY <3>2
      <4>2. 1..Len(stack[e]) = {}  BY <4>1
      <4> QED  BY <4>2
    <3>3. CASE stack[e] # <<>>
      <4>1. pc[e] \in Joining  BY <1>1, <3>3 DEF Base, Control, Joining
      <4>2. awaits[stack[e][Len(stack[e])]] \in Jobs  BY <3>3, <4>1 DEF Wakes, Joins, Top, Last
      <4>3. \A i \in 1..Len(stack[e]) : i = Len(stack[e]) \/ i \in 1..(Len(stack[e]) - 1)  BY <3>1
      <4> QED  BY <4>2, <4>3 DEF Wakes, Joins
    <3> QED  BY <3>2, <3>3
  <2>3. Head(q) \in Nat  BY <1>1, HeadTailProperties, EmptySeq
  <2>4. Len(stack'[e]) = Len(stack[e]) + 1 /\ \A i \in 1..Len(stack[e]) : stack'[e][i] = stack[e][i]
    BY <1>1, <1>3, <2>3, AppendElems
  <2>5. Len(stack'[e]) - 1 = Len(stack[e])
    <3>1. Len(stack[e]) \in Nat  BY <1>1, LenProperties
    <3> QED  BY <2>4, <3>1
  <2>6. \A i \in 1..(Len(stack'[e]) - 1) : awaits'[stack'[e][i]] \in Jobs'  BY <1>1, <2>1, <2>2, <2>4, <2>5
  <2>7. pc'[e] \notin Joining /\ awaits' = awaits  BY <1>1, <1>2 DEF Joining, Looking
  <2> QED  BY <1>2, <1>3, <2>1, <2>6, <2>7, JoinsStep DEF Wakes
<1> QED  BY <1>7, <1>8 DEF Wakes

LEMMA LookWakes ==
  ASSUME Base, Wakes, NEW e \in Threads,
         PopLocal(e) \/ steal_from_injector(e) \/ steal_from_peers(e) \/ steal_case(e)
  PROVE  Wakes'
<1> USE DEF At
<1>0. injector \in Seq(Nat) /\ cases \in Seq(Nat) /\ \A w \in Workers : deque[w] \in Seq(Nat)
  BY DEF Base, Typed
<1>1. ASSUME NEW j, Run(e, j) PROVE sleep' \in {sleep, NoThread} /\ sleep' # e
  BY <1>1, ReactorAssumption DEF Run
<1>2. ASSUME NEW w \in Workers, pc[e] \in Looking, deque[w] # <<>>, deque' = [deque EXCEPT ![w] = Tail(@)],
             Run(e, Head(deque[w])), UNCHANGED <<injector, cases>>
      PROVE  Wakes'
  <2>1. Picks(e, deque[w])  BY <1>2, RunPicks
  <2>2. ~Dequeless  BY <1>2 DEF Dequeless
  <2> QED  BY <1>0, <1>1, <1>2, <2>1, <2>2, PickWakes
<1>3. CASE PopLocal(e)
  <2>1. pc[e] = "local" /\ pc[e] \in Looking  BY <1>3 DEF PopLocal, Looking
  <2>2. CASE Empty(e, "inject")
    <3>1. Sure(e) => Seen(e, "inject")  BY DEF Sure, Seen
    <3> QED  BY <2>1, <2>2, <3>1, EmptyLook DEF Looking
  <2> QED  BY <1>2, <1>3, <2>1, <2>2 DEF PopLocal
<1>4. CASE steal_from_injector(e)
  <2>1. pc[e] = "inject" /\ pc[e] \in Looking  BY <1>4 DEF steal_from_injector, Looking
  <2>2. CASE /\ injector # <<>>
             /\ injector' = Tail(injector)
             /\ Run(e, Head(injector))
             /\ UNCHANGED <<cases, deque>>
    <3>1. Picks(e, injector)  BY <2>1, <2>2, RunPicks
    <3>2. Dequeless => Dequeless'  BY <2>2 DEF Dequeless
    <3> QED  BY <1>0, <1>1, <2>2, <3>1, <3>2, PickWakes
  <2>3. CASE injector = <<>> /\ Empty(e, "peers")
    <3>1. Sure(e) => Seen(e, "peers")  BY <2>3 DEF Sure, Seen
    <3> QED  BY <2>1, <2>3, <3>1, EmptyLook DEF Looking
  <2> QED  BY <1>4, <2>2, <2>3 DEF steal_from_injector
<1>5. CASE steal_from_peers(e)
  <2>1. pc[e] = "peers" /\ pc[e] \in Looking  BY <1>5 DEF steal_from_peers, Looking
  <2>2. CASE /\ \A w \in Workers : deque[w] = <<>>
             /\ IF FindsCases(e) THEN Empty(e, "cases") ELSE Nothing(e)
    <3>1. CASE e \in Workers
      <4>1. Empty(e, "cases")  BY <2>2, <3>1 DEF FindsCases
      <4>2. Sure(e) => Seen(e, "cases")  BY <2>1, <2>2 DEF Sure, Seen, Dequeless
      <4> QED  BY <2>1, <4>1, <4>2, EmptyLook DEF Looking
    <3>2. CASE e \notin Workers
      <4>1. Nothing(e)  BY <2>2, <3>2 DEF FindsCases
      <4>2. Sure(e) => Seen(e, "waiting")  BY <2>1, <2>2, <3>2 DEF Sure, Seen, Dequeless
      <4> QED  BY <2>1, <4>1, <4>2, EmptyWait
    <3> QED  BY <3>1, <3>2
  <2> QED  BY <1>2, <1>5, <2>1, <2>2 DEF steal_from_peers
<1>6. CASE steal_case(e)
  <2>1. pc[e] = "cases" /\ pc[e] \in Looking  BY <1>6 DEF steal_case, Looking
  <2>2. CASE /\ cases # <<>>
             /\ cases' = Tail(cases)
             /\ Run(e, Head(cases))
             /\ UNCHANGED <<injector, deque>>
    <3>1. Picks(e, cases)  BY <2>1, <2>2, RunPicks
    <3>2. Dequeless => Dequeless'  BY <2>2 DEF Dequeless
    <3> QED  BY <1>0, <1>1, <2>2, <3>1, <3>2, PickWakes
  <2>3. CASE cases = <<>> /\ Nothing(e)
    <3>1. Sure(e) => Seen(e, "waiting")  BY <2>1, <2>3 DEF Sure, Seen
    <3> QED  BY <2>1, <2>3, <3>1, EmptyWait
  <2> QED  BY <1>6, <2>2, <2>3 DEF steal_case
<1> QED  BY <1>3, <1>4, <1>5, <1>6

LEMMA SpareWakes ==
  ASSUME Base, Wakes, NEW e \in Threads, help_off_stack(e) \/ SpareEnds(e)
  PROVE  Wakes'
<1> USE DEF At
<1>0. injector \in Seq(Nat) /\ \A w \in Workers : deque[w] \in Seq(Nat)  BY DEF Base, Typed
<1>1. CASE help_off_stack(e)
  <2>1. pc[e] \in {"off", "spare"} /\ stack[e] = <<>>  BY <1>1 DEF help_off_stack, Base, Control
  <2>2. \A j : Append(stack[e], j) = <<j>>  BY <2>1
  <2>3. sleep # e  BY <2>1, NotHolding DEF Looking
  <2>4. /\ Goto(e, "run") /\ UNCHANGED <<jobvars, inflight, shutdown, cases, sleep>>
        /\ sleep' \in Threads \cup {NoThread}
    BY <1>1 DEF help_off_stack, Base, Typed
  <2>5. CASE injector # <<>> /\ injector' = Tail(injector) /\ stack' = [stack EXCEPT ![e] = <<Head(injector)>>]
             /\ UNCHANGED deque
    <3>1. stack' = [stack EXCEPT ![e] = Append(@, Head(injector))]  BY <2>2, <2>5
    <3>2. Picks(e, injector)  BY <2>1, <2>4, <2>5, <3>1 DEF Picks
    <3>3. Dequeless => Dequeless'  BY <2>5 DEF Dequeless
    <3> QED  BY <1>0, <2>3, <2>4, <2>5, <3>2, <3>3, PickWakes
  <2>6. ASSUME NEW w \in Workers, deque[w] # <<>>, deque' = [deque EXCEPT ![w] = Tail(@)],
               stack' = [stack EXCEPT ![e] = <<Head(deque[w])>>], UNCHANGED injector
        PROVE  Wakes'
    <3>1. stack' = [stack EXCEPT ![e] = Append(@, Head(deque[w]))]  BY <2>2, <2>6
    <3>2. Picks(e, deque[w])  BY <2>1, <2>4, <2>6, <3>1 DEF Picks
    <3>3. ~Dequeless  BY <2>6 DEF Dequeless
    <3> QED  BY <1>0, <2>3, <2>4, <2>6, <3>2, <3>3, PickWakes
  <2> QED  BY <1>1, <2>5, <2>6 DEF help_off_stack
<1>2. CASE SpareEnds(e)
  <2>1. pc[e] = "spare" /\ Empty(e, "off")  BY <1>2 DEF SpareEnds
  <2> QED  BY <2>1, AwayStep DEF Empty, jobvars, queues, Looking, Joining, Notifies
<1> QED  BY <1>1, <1>2

\* e joins, or takes the result it joined
LEMMA HandWakes ==
  ASSUME Base, Wakes, NEW e \in Threads, stack[e] # <<>>, NEW x, awaits' = [awaits EXCEPT ![Top(e)] = x],
         UNCHANGED <<kind, injector, cases, deque, shutdown, stack, sleep>>,
         \A c \in Jobs : result'[c] = "stored" => result[c] = "stored",
         sleep # e, ~Notifies(e), pc'[e] \notin {"waiting", "top"},
         \A t \in Threads \ {e} : pc'[t] = pc[t],
         pc'[e] \in Joining => x \in Jobs
  PROVE  Wakes'
<1>1. /\ \A t \in Threads \ {e} : stack[t] # <<>> => awaits'[Top(t)] = awaits[Top(t)]
      /\ \A t \in Threads : \A i \in 1..(Len(stack[t]) - 1) : awaits'[stack[t][i]] = awaits[stack[t][i]]
  BY AwaitsElsewhere
<1>2. ASSUME NEW t \in Threads \ {e}, Watching(t), Unmet(t) PROVE Unmet(t)'
  BY <1>1, <1>2, UnmetStep DEF Wakes, Base
<1>3. ~Brings(e)  BY <1>2 DEF Brings, Dequeless
<1>4. ~Watching(e)'  BY DEF Watching
<1>5. Mutex' /\ Watched'  BY <1>3, <1>4, WatchStep DEF Wakes, Base
<1>6. Joins'
  <2>1. Jobs' = Jobs /\ Top(e)' = Top(e)  BY DEF Jobs, Top
  <2>2. Top(e) \in 0..MaxJobs
    <3>1. Top(e) \in 0..Len(kind) /\ Len(kind) \in Nat /\ Len(kind) <= MaxJobs /\ MaxJobs \in Nat
      BY Tops, JobSets, ReactorAssumption DEF Base, Typed
    <3> QED  BY <3>1
  <2>3. awaits'[Top(e)] = x  BY <2>2 DEF Base, Typed
  <2>4. \A i \in 1..(Len(stack'[e]) - 1) : awaits'[stack'[e][i]] \in Jobs'
    <3> SUFFICES ASSUME NEW i \in 1..(Len(stack[e]) - 1) PROVE awaits'[stack[e][i]] \in Jobs
      BY <2>1
    <3>1. awaits'[stack[e][i]] = awaits[stack[e][i]]  BY <1>1
    <3> QED  BY <3>1 DEF Wakes, Joins
  <2> QED  BY <1>1, <2>1, <2>3, <2>4, JoinsStep DEF Wakes
<1> QED  BY <1>5, <1>6 DEF Wakes

LEMMA TakenWakes ==
  ASSUME Base, Wakes, NEW e \in Threads, stack[e] # <<>>, try_take_result(e),
         sleep # e, ~Notifies(e), pc'[e] \notin Joining \cup {"top"}, \A t \in Threads \ {e} : pc'[t] = pc[t]
  PROVE  Wakes'
<1>1. PICK c : result[c] = "stored" /\ result' = [result EXCEPT ![c] = "taken"]
  BY DEF try_take_result
<1>2. \A k \in Jobs : result'[k] = "stored" => result[k] = "stored"
  <2>1. DOMAIN result = Jobs  BY LenProperties DEF Base, Typed, Jobs
  <2> QED  BY <1>1, <2>1
<1>3. awaits' = [awaits EXCEPT ![Top(e)] = 0] /\ UNCHANGED <<kind, injector, cases, deque, shutdown, stack, sleep>>
  BY DEF try_take_result, queues
<1>4. pc'[e] \notin {"waiting", "top"}  BY DEF Joining
<1> QED  BY <1>2, <1>3, <1>4, HandWakes

LEMMA WaitWakes ==
  ASSUME Base, Wakes, NEW e \in Threads,
         worker_loop(e) \/ park_idle_worker(e) \/ wait_join_loop(e) \/ park_join(e) \/ SpuriousWakeup(e)
  PROVE  Wakes'
<1> USE DEF At
<1>0. ASSUME NEW l, Goto(e, l) PROVE pc'[e] = l /\ \A t \in Threads \ {e} : pc'[t] = pc[t]
  BY <1>0 DEF Goto, Base, Typed
<1>1. CASE worker_loop(e)
  <2>1. PICK l \in {"exited", "park", "local"} : Empty(e, l)  BY <1>1 DEF worker_loop
  <2>2. pc[e] = "top" /\ stack[e] = <<>>  BY <1>1 DEF worker_loop, Wakes, Joins
  <2> QED  BY <2>1, <2>2, AwayStep DEF Empty, jobvars, queues, Looking, Joining, Notifies
<1>2. CASE park_idle_worker(e)
  <2>1. pc[e] = "park" /\ sleep = NoThread /\ stack[e] = <<>>  BY <1>2 DEF park_idle_worker
  <2>2. CASE Empty(e, "top")
    BY <2>1, <2>2, AwayStep DEF Empty, jobvars, queues, Looking, Joining, Notifies
  <2>3. CASE ~shutdown /\ inflight = 0 /\ Empty(e, "waiting")
    <3>1. Seen(e, "waiting")  BY <2>1, <2>3, NoneQueued DEF Seen, Unmet
    <3>2. sleep' # e /\ sleep' = sleep  BY <2>1, <2>3, ReactorAssumption DEF Empty
    <3> QED  BY <2>1, <2>3, <3>1, <3>2, StillStep DEF Empty, jobvars, queues, Notifies
  <2>4. CASE /\ ~shutdown /\ sleep' = e /\ Goto(e, "local")
             /\ UNCHANGED <<jobvars, queues, inflight, shutdown, stack>>
    <3>1. Seen(e, "local")  BY <2>1, <2>4 DEF Seen, Unmet
    <3> QED  BY <2>1, <2>4, <3>1, StillStep DEF jobvars, queues, Looking, Notifies
  <2> QED  BY <1>2, <2>2, <2>3, <2>4 DEF park_idle_worker
<1>3. CASE wait_join_loop(e)
  <2>1. pc[e] = "join" /\ stack[e] # <<>>  BY <1>3 DEF wait_join_loop, Base, Control, Busy
  <2>2. sleep # e /\ ~Notifies(e)  BY <2>1, NotHolding DEF Looking, Notifies
  <2>3. CASE try_take_result(e) /\ Goto(e, "run")
    BY <1>0, <2>1, <2>2, <2>3, TakenWakes DEF Joining, Looking
  <2>4. CASE Empty(e, "local")
    BY <2>1, <2>2, <2>4, AwayStep DEF Empty, jobvars, queues, Looking, Joining
  <2> QED  BY <1>3, <2>3, <2>4 DEF wait_join_loop
<1>4. CASE park_join(e)
  <2>1. pc[e] = "park" /\ stack[e] # <<>>  BY <1>4 DEF park_join
  <2>2. sleep # e /\ ~Notifies(e)  BY <2>1, NotHolding DEF Looking, Notifies
  <2>3. CASE try_take_result(e) /\ Goto(e, "run")
    BY <1>0, <2>1, <2>2, <2>3, TakenWakes DEF Joining, Looking
  <2>4. CASE /\ result[awaits[Top(e)]] # "stored" /\ sleep' = e
             /\ Goto(e, "local")
             /\ UNCHANGED <<jobvars, queues, inflight, shutdown, stack>>
    <3>1. Seen(e, "local")  BY <2>1, <2>4 DEF Seen, Unmet
    <3> QED  BY <2>1, <2>2, <2>4, <3>1, StillStep DEF jobvars, queues, Looking, Joining
  <2> QED  BY <1>4, <2>3, <2>4 DEF park_join
<1>5. CASE SpuriousWakeup(e)
  <2>1. pc[e] = "waiting" /\ Empty(e, Loop(e))  BY <1>5 DEF SpuriousWakeup
  <2>2. PICK l \in {"top", "join"} : l = Loop(e) /\ (l = "top" => stack[e] = <<>>)  BY DEF Loop
  <2>3. Empty(e, l)  BY <2>1, <2>2
  <2> QED  BY <2>1, <2>2, <2>3, AwayStep DEF Empty, jobvars, queues, Looking, Joining, Notifies
<1> QED  BY <1>1, <1>2, <1>3, <1>4, <1>5

LEMMA HandleWakes ==
  ASSUME Base, Wakes, NEW e \in Threads, register_live_thread(e) \/ try_host_join(e) \/ try_host_detach(e)
  PROVE  Wakes'
<1> USE DEF At
<1>1. CASE register_live_thread(e)
  BY <1>1, AwayStep DEF register_live_thread, queues, Looking, Joining, Notifies
<1>2. CASE try_host_join(e)
  <2>1. pc[e] = "run" /\ stack[e] # <<>>  BY <1>2 DEF try_host_join, Base, Control, Busy
  <2>2. sleep # e /\ ~Notifies(e)  BY <2>1, NotHolding DEF Looking, Notifies
  <2>3. PICK c \in Jobs : awaits' = [awaits EXCEPT ![Top(e)] = c]  BY <1>2 DEF try_host_join
  <2>4. UNCHANGED <<kind, result, injector, cases, deque, shutdown, stack, sleep>> /\ Goto(e, "join")
    BY <1>2 DEF try_host_join, queues
  <2>5. pc'[e] = "join" /\ \A t \in Threads \ {e} : pc'[t] = pc[t]  BY <2>4 DEF Goto, Base, Typed
  <2> QED  BY <2>1, <2>2, <2>3, <2>4, <2>5, HandWakes
<1>3. CASE try_host_detach(e)
  <2>1. pc[e] = "run" /\ pc' = pc  BY <1>3 DEF try_host_detach
  <2>2. Goto(e, "run")  BY <2>1 DEF Goto, Base, Typed
  <2> QED  BY <1>3, <2>1, <2>2, AwayStep DEF try_host_detach, queues, Looking, Joining, Notifies
<1> QED  BY <1>1, <1>2, <1>3

\* e, running or ending a job, brings something and is on its way to a notify
LEMMA BringWakes ==
  ASSUME Base, Wakes, NEW e \in Threads, NEW l, Goto(e, l), pc[e] \notin Looking,
         l \in {"notifySubmit", "stored", "notifyDone", "notifyDown"},
         UNCHANGED <<kind, awaits, stack, sleep>>
  PROVE  Wakes'
<1>1. pc'[e] = l /\ \A t \in Threads \ {e} : pc'[t] = pc[t]  BY DEF Goto, Base, Typed
<1>2. sleep' # e /\ sleep' = sleep  BY NotHolding
<1>3. Notifies(e)' /\ ~Watching(e)'  BY <1>1, <1>2 DEF Notifies, Watching
<1>4. Mutex' /\ Watched'  BY <1>1, <1>2, <1>3, WatchStep DEF Wakes, Base
<1>5. Joins'
  <2>1. Jobs' = Jobs /\ pc'[e] \notin Joining  BY <1>1 DEF Jobs, Joining, Looking
  <2>2. \A i \in 1..(Len(stack'[e]) - 1) : awaits'[stack'[e][i]] \in Jobs'  BY <2>1 DEF Wakes, Joins
  <2> QED  BY <1>1, <2>1, <2>2, JoinsStep DEF Wakes
<1> QED  BY <1>4, <1>5 DEF Wakes

LEMMA SubmitWakes ==
  ASSUME Base, Wakes, NEW e \in Threads, NEW k \in {"thread", "case"}, Submit(e, k)
  PROVE  Wakes'
<1>1. /\ pc[e] = "run" /\ kind' = Append(kind, k) /\ result' = Append(result, "none") /\ Goto(e, "push")
      /\ UNCHANGED <<awaits, injector, cases, deque, shutdown, sleep, stack>>
  BY DEF Submit, At, queues
<1>2. pc'[e] = "push" /\ \A t \in Threads \ {e} : pc'[t] = pc[t]  BY <1>1 DEF Goto, Base, Typed
<1>3. sleep # e /\ ~Notifies(e)  BY <1>1, NotHolding DEF Looking, Notifies
<1>4. /\ \A c \in Jobs : result'[c] = result[c]
      /\ Jobs \subseteq Jobs'
  <2>1. result \in Seq({"none", "stored", "taken"}) /\ Len(result) = Len(kind) /\ Len(kind) \in Nat
        /\ kind \in Seq({"thread", "case"})
    BY JobSets DEF Base, Typed
  <2>2. "none" \in {"none", "stored", "taken"}  OBVIOUS
  <2>3. \A c \in 1..Len(result) : result'[c] = result[c]  BY <1>1, <2>1, <2>2, AppendProperties
  <2>4. Len(kind') = Len(kind) + 1  BY <1>1, <2>1, AppendProperties
  <2> QED  BY <2>1, <2>3, <2>4 DEF Jobs
<1>5. ASSUME NEW t \in Threads \ {e}, Watching(t), Unmet(t) PROVE Unmet(t)'
  BY <1>1, <1>4, <1>5, UnmetStep DEF Wakes, Base
<1>6. ~Brings(e)  BY <1>1, <1>5 DEF Brings, Dequeless
<1>7. ~Watching(e)'  BY <1>1, <1>2, <1>3 DEF Watching
<1>8. Mutex' /\ Watched'  BY <1>1, <1>2, <1>3, <1>6, <1>7, WatchStep DEF Wakes, Base
<1>9. Joins'
  <2>1. pc'[e] \notin Joining  BY <1>2 DEF Joining, Looking
  <2>2. stack' = stack /\ awaits' = awaits  BY <1>1
  <2>3. \A i \in 1..(Len(stack'[e]) - 1) : awaits'[stack'[e][i]] \in Jobs'  BY <1>4, <2>2 DEF Wakes, Joins
  <2> QED  BY <1>2, <1>4, <2>1, <2>2, <2>3, JoinsStep DEF Wakes
<1> QED  BY <1>8, <1>9 DEF Wakes

LEMMA JobWakes ==
  ASSUME Base, Wakes, NEW e \in Threads,
         \/ \E k \in {"thread", "case"} : Submit(e, k)
         \/ try_push_local(e) \/ store_result(e) \/ CountDown(e)
  PROVE  Wakes'
<1> USE DEF At
<1>1. CASE try_push_local(e)  BY <1>1, BringWakes DEF try_push_local, jobvars, Looking
<1>2. CASE store_result(e)  BY <1>2, BringWakes DEF store_result, Looking
<1>3. CASE CountDown(e)  BY <1>3, BringWakes DEF CountDown, jobvars, Looking
<1> QED  BY <1>1, <1>2, <1>3, SubmitWakes

\* a notify leaves nobody waiting and nobody with the mutex
LEMMA NotifyWatched ==
  ASSUME NEW e \in Threads, NEW l, notify(e, l), l # "waiting", UNCHANGED sleep
  PROVE  /\ Mutex' /\ Watched'
         /\ pc'[e] = l
         /\ \A t \in Threads \ {e} : pc'[t] \in Joining => pc[t] \in Joining
         /\ \A t \in Threads \ {e} : pc'[t] = "top" => pc[t] = "top" \/ stack[t] = <<>>
<1>1. /\ sleep' = NoThread
      /\ pc' = [t \in Threads |-> IF t = e THEN l ELSE IF pc[t] = "waiting" THEN Loop(t) ELSE pc[t]]
  BY DEF notify, At
<1>2. \A t \in Threads : Loop(t) \in {"top", "join"}  BY DEF Loop
<1>3. \A t \in Threads : pc'[t] # "waiting"  BY <1>1, <1>2
<1>4. \A t \in Threads : ~Watching(t)'  BY <1>1, <1>3, ReactorAssumption DEF Watching
<1>5. \A t \in Threads \ {e} : pc'[t] \in Joining => pc[t] \in Joining  BY <1>1 DEF Joining
<1>6. \A t \in Threads \ {e} : pc'[t] = "top" => pc[t] = "top" \/ stack[t] = <<>>  BY <1>1 DEF Loop
<1> QED  BY <1>1, <1>4, <1>5, <1>6 DEF Mutex, Watched

LEMMA NotifyWakes ==
  ASSUME Base, Wakes, NEW e \in Threads, NEW l, notify(e, l), l \notin Joining \cup {"top"},
         UNCHANGED <<kind, awaits, sleep, stack>>
  PROVE  Wakes'
<1>1. /\ Mutex' /\ Watched' /\ pc'[e] = l
      /\ \A t \in Threads \ {e} : pc'[t] \in Joining => pc[t] \in Joining
      /\ \A t \in Threads \ {e} : pc'[t] = "top" => pc[t] = "top" \/ stack[t] = <<>>
  BY NotifyWatched DEF Joining
<1>2. Jobs' = Jobs  BY DEF Jobs
<1>3. \A i \in 1..(Len(stack'[e]) - 1) : awaits'[stack'[e][i]] \in Jobs'  BY <1>2 DEF Wakes, Joins
<1>4. Joins'  BY <1>1, <1>2, <1>3, JoinsStep DEF Wakes
<1> QED  BY <1>1, <1>4 DEF Wakes

LEMMA NotifyDoneWakes ==
  ASSUME Base, Wakes, NEW e \in Threads, NotifyDone(e)
  PROVE  Wakes'
<1>1. /\ pc[e] = "notifyDone" /\ stack' = [stack EXCEPT ![e] = Front(stack[e])]
      /\ notify(e, IF Front(stack[e]) # <<>> THEN "join" ELSE IF e \in Spares THEN "spare" ELSE "top")
      /\ UNCHANGED <<kind, awaits, sleep>>
  BY DEF NotifyDone, At, jobvars
<1>2. PICK l \in {"join", "spare", "top"} : notify(e, l)  BY <1>1
<1>3. /\ Mutex' /\ Watched'
      /\ \A t \in Threads \ {e} : pc'[t] \in Joining => pc[t] \in Joining
      /\ \A t \in Threads \ {e} : pc'[t] = "top" => pc[t] = "top" \/ stack[t] = <<>>
  BY <1>1, <1>2, NotifyWatched
<1>4. Jobs' = Jobs /\ awaits' = awaits  BY <1>1 DEF Jobs
<1>5. stack'[e] = Front(stack[e]) /\ \A t \in Threads \ {e} : stack'[t] = stack[t]  BY <1>1 DEF Base, Typed
<1>6. stack[e] # <<>> /\ stack[e] \in Seq(Nat) /\ Distinct(stack[e])
  BY <1>1, Boxes, HeldNow DEF Base, Typed, Control, Busy, Once
<1>7. /\ Len(Front(stack[e])) = Len(stack[e]) - 1 /\ Front(stack[e]) \in Seq(Nat)
      /\ \A i \in 1..(Len(stack[e]) - 1) : Front(stack[e])[i] = stack[e][i]
  BY <1>6, FrontElems
<1>8. \A i \in 1..(Len(stack[e]) - 1) : awaits[Front(stack[e])[i]] \in Jobs  BY <1>7 DEF Wakes, Joins
<1>9. Len(stack[e]) \in Nat  BY <1>6, LenProperties
<1>10. \A i \in 1..(Len(stack'[e]) - 1) : awaits'[stack'[e][i]] \in Jobs'
  <2>1. \A i \in 1..(Len(stack[e]) - 1 - 1) : i \in 1..(Len(stack[e]) - 1)  BY <1>9
  <2> QED  BY <1>4, <1>5, <1>7, <1>8, <2>1
<1>11. stack'[e] # <<>> => awaits'[Top(e)'] \in Jobs'
  <2> SUFFICES ASSUME Front(stack[e]) # <<>> PROVE awaits[Last(Front(stack[e]))] \in Jobs
    BY <1>4, <1>5 DEF Top
  <2>1. Len(Front(stack[e])) # 0  BY <1>7, EmptySeq
  <2>2. Len(stack[e]) - 1 \in 1..(Len(stack[e]) - 1)  BY <1>7, <1>9, <2>1
  <2>3. Last(Front(stack[e])) = Front(stack[e])[Len(stack[e]) - 1]  BY <1>7 DEF Last
  <2> QED  BY <1>8, <2>2, <2>3
<1>12. pc'[e] = "top" => stack'[e] = <<>>  BY <1>1, <1>5 DEF notify
<1>13. Joins'  BY <1>3, <1>4, <1>5, <1>10, <1>11, <1>12, JoinsStep DEF Wakes
<1> QED  BY <1>3, <1>13 DEF Wakes

LEMMA RootWakes ==
  ASSUME Base, Wakes, RootEnds
  PROVE  Wakes'
<1> USE DEF At
<1>0. Root \in Threads /\ stack[Root] # <<>>  BY DEF Threads, Base, Control
<1>1. CASE join_undetached_threads
  <2>0. pc[Root] \in {"run", "drain"}  BY <1>1 DEF join_undetached_threads, Draining
  <2>1. sleep # Root /\ ~Notifies(Root)  BY <1>0, <2>0, NotHolding DEF Looking, Notifies
  <2>2. CASE /\ Draining /\ ~runner
             /\ \E j \in live :
                  /\ live' = live \ {j}
                  /\ LET skip == j \in detached \cup joined
                     IN /\ joined' = IF skip THEN joined ELSE joined \cup {j}
                        /\ awaits' = [awaits EXCEPT ![Program] = IF skip THEN 0 ELSE j]
             /\ Goto(Root, "drain")
             /\ UNCHANGED <<runner, kind, parent, result, detached, queues, inflight, shutdown, sleep, stack>>
    <3>1. PICK x : awaits' = [awaits EXCEPT ![Program] = x]  BY <2>2
    <3>2. Top(Root) = Program  BY <2>2 DEF Draining
    <3>3. pc'[Root] = "drain" /\ \A t \in Threads \ {Root} : pc'[t] = pc[t]
      BY <1>0, <2>2 DEF Goto, Base, Typed
    <3>4. UNCHANGED <<kind, result, injector, cases, deque, shutdown, stack, sleep>>  BY <2>2 DEF queues
    <3> QED  BY <1>0, <2>1, <3>1, <3>2, <3>3, <3>4, HandWakes DEF Joining, Looking
  <2>3. CASE At(Root, "drain") /\ awaits[Program] # 0 /\ try_take_result(Root) /\ UNCHANGED pc
    BY <1>0, <2>1, <2>3, TakenWakes DEF Joining, Looking
  <2>4. CASE Empty(Root, "ending")
    BY <1>0, <2>0, <2>1, <2>4, AwayStep DEF Empty, jobvars, queues, Joining, Looking
  <2> QED  BY <1>1, <2>2, <2>3, <2>4 DEF join_undetached_threads
<1>2. CASE Shutdown
  <2>1. pc[Root] = "ending"  BY <1>2 DEF Shutdown
  <2>2. CASE shutdown' = TRUE /\ Goto(Root, "notifyDown") /\ UNCHANGED <<jobvars, queues, inflight, sleep, stack>>
    BY <1>0, <2>1, <2>2, BringWakes DEF jobvars, Looking
  <2>3. CASE Empty(Root, "left")
    BY <1>0, <2>1, <2>3, AwayStep DEF Empty, jobvars, queues, Joining, Looking, Notifies
  <2> QED  BY <1>2, <2>2, <2>3 DEF Shutdown
<1>3. CASE NotifyDown
  BY <1>0, <1>3, NotifyWakes DEF NotifyDown, jobvars, Joining, Looking
<1>4. CASE JoinWorkers
  BY <1>0, <1>4, AwayStep DEF JoinWorkers, Empty, jobvars, queues, Joining, Looking, Notifies
<1> QED  BY <1>1, <1>2, <1>3, <1>4 DEF RootEnds

LEMMA NextWakes ==
  ASSUME Base, Wakes, [Next]_vars
  PROVE  Wakes'
<1>1. ASSUME NEW e \in Threads, NotifySubmit(e) PROVE Wakes'
  <2>1. PICK l \in {"run", "register"} : notify(e, l)  BY <1>1 DEF NotifySubmit
  <2> QED  BY <1>1, <2>1, NotifyWakes DEF NotifySubmit, jobvars, Joining, Looking
<1>2. ASSUME NEW e \in Threads, Step(e) \/ SpuriousWakeup(e) PROVE Wakes'
  BY <1>1, <1>2, LookWakes, WaitWakes, JobWakes, NotifyDoneWakes, HandleWakes, SpareWakes DEF Step
<1>3. CASE RootEnds  BY <1>3, RootWakes
<1>4. CASE UNCHANGED vars
  <2>1. UNCHANGED <<kind, result, awaits, injector, cases, deque, shutdown, sleep, stack, pc>>
    BY <1>4 DEF vars, jobvars, queues
  <2>2. Mutex'  BY <2>1 DEF Wakes, Mutex
  <2>3. Watched'
    <3>1. \A t \in Threads : (Watching(t)' <=> Watching(t)) /\ (Notifies(t)' <=> Notifies(t)) /\ (Sure(t)' <=> Sure(t))
      BY <2>1 DEF Watching, Notifies, Sure, Unmet, Top, Dequeless
    <3> QED  BY <3>1 DEF Wakes, Watched, Quiet
  <2>4. Joins'  BY <2>1 DEF Wakes, Joins, Top, Jobs
  <2> QED  BY <2>2, <2>3, <2>4 DEF Wakes
<1> QED  BY <1>2, <1>3, <1>4 DEF Next, Done

LEMMA InitWakes ==
  ASSUME Init
  PROVE  Wakes
<1>1. /\ sleep = NoThread
      /\ \A e \in Threads : stack[e] = IF e = Root THEN <<Program>> ELSE <<>>
      /\ \A e \in Threads : pc[e] = IF e = Root THEN "run" ELSE IF e \in Workers THEN "top" ELSE "off"
  BY DEF Init
<1>2. Mutex  BY <1>1 DEF Mutex
<1>3. \A e \in Threads : ~Watching(e)  BY <1>1, ReactorAssumption DEF Watching
<1>4. Root \notin Workers  BY ReactorAssumption
<1>5. Joins
  <2> SUFFICES ASSUME NEW e \in Threads
               PROVE  /\ pc[e] \in Joining /\ stack[e] # <<>> => awaits[Top(e)] \in Jobs
                      /\ \A i \in 1..(Len(stack[e]) - 1) : awaits[stack[e][i]] \in Jobs
                      /\ pc[e] = "top" => stack[e] = <<>>
    BY DEF Joins
  <2>1. pc[e] \in {"run", "top", "off"} /\ (pc[e] = "top" => stack[e] = <<>>)  BY <1>1
  <2>2. Len(stack[e]) = 0 \/ Len(stack[e]) = 1
    <3>1. Len(<<>>) = 0 /\ Len(<<Program>>) = 1  OBVIOUS
    <3>2. stack[e] = <<>> \/ stack[e] = <<Program>>  BY <1>1
    <3> QED  BY <3>1, <3>2
  <2>3. 1..(Len(stack[e]) - 1) = {}
    <3>1. CASE Len(stack[e]) = 0
      <4>1. 1..(0 - 1) = {}  OBVIOUS
      <4> QED  BY <3>1, <4>1
    <3>2. CASE Len(stack[e]) = 1
      <4>1. 1..(1 - 1) = {}  OBVIOUS
      <4> QED  BY <3>2, <4>1
    <3> QED  BY <2>2, <3>1, <3>2
  <2> QED  BY <2>1, <2>3 DEF Joining, Looking
<1> QED  BY <1>2, <1>3, <1>5 DEF Wakes, Watched

LEMMA WakesNoLost ==
  ASSUME Base, Wakes
  PROVE  NoLostWakeup
<1> SUFFICES ASSUME NEW e \in Threads, At(e, "waiting"),
                    \/ Queued \ (IF FindsCases(e) THEN {} ELSE {j \in Jobs : kind[j] = "case"}) # {}
                    \/ stack[e] = <<>> /\ shutdown
                    \/ stack[e] # <<>> /\ result[awaits[Top(e)]] = "stored",
                    Quiet
             PROVE  FALSE
  BY DEF NoLostWakeup, Quiet
<1>1. Sure(e) /\ pc[e] = "waiting"  BY DEF At, Wakes, Watched, Watching
<1>2. Unmet(e)  BY <1>1 DEF Sure
<1>3. Queued \ (IF FindsCases(e) THEN {} ELSE {j \in Jobs : kind[j] = "case"}) # {}  BY <1>2 DEF Unmet
<1>4. injector = <<>> /\ Dequeless /\ (e \in Workers => cases = <<>>)  BY <1>1 DEF Sure
<1>5. Elems(<<>>) = {}  BY DEF Elems
<1>6. In(Injector) = {} /\ \A w \in Workers : In(DequeOf(w)) = {}
  BY <1>4, <1>5, HeldNow DEF In, Dequeless
<1>7. Queued = In(CaseBox)  BY <1>6, QueuedIs
<1>8. CASE e \in Workers
  <2>1. In(CaseBox) = {}  BY <1>4, <1>5, <1>8, HeldNow DEF In
  <2> QED  BY <1>3, <1>7, <2>1
<1>9. CASE e \notin Workers
  <2>1. In(CaseBox) \subseteq {j \in Jobs : kind[j] = "case"}
    <3>1. Root \in Threads  BY DEF Threads
    <3>2. In(CaseBox) \subseteq Jobs  BY <3>1, Boxes DEF Base, Contents
    <3> QED  BY <3>2 DEF Base, Contents
  <2> QED  BY <1>3, <1>7, <1>9, <2>1 DEF FindsCases
<1> QED  BY <1>8, <1>9

(***************************************************************************)
(* No wakeup is lost: while a thread waits on the condition variable for   *)
(* something that is there (a job it would take, the result it joins, the  *)
(* shutdown), some thread is between its change and the notify it makes    *)
(* under the mutex.  A worker that finds `inflight` at 0 waits without a   *)
(* second look; that is right only because the count is never below the    *)
(* jobs in the queues, which is why this theorem rests on Base.            *)
(***************************************************************************)
THEOREM NoLostWakeupTheorem == Spec => []NoLostWakeup
<1>1. Init => Base /\ Wakes  BY InitBase, InitWakes
<1>2. Base /\ Wakes /\ [Next]_vars => (Base /\ Wakes)'  BY NextBase, NextWakes
<1>3. Base /\ Wakes => NoLostWakeup  BY WakesNoLost
<1> QED  BY <1>1, <1>2, <1>3, PTL DEF Spec
=============================================================================
