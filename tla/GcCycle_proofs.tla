--------------------------- MODULE GcCycle_proofs ---------------------------
(***************************************************************************)
(* Proofs about GcCycle, for every size of the heap, every slice length    *)
(* and every mix of operations: nothing the program can name is freed and  *)
(* weak handles are cleared only when dead (as long as no drop body uses a *)
(* string literal), no mark is stale between two cycles, gc::collect frees *)
(* all that is unreachable, and a safepoint's cycle frees nothing that     *)
(* still owes its drop.                                                    *)
(***************************************************************************)
EXTENDS GcCycle, FiniteSetTheorems, TLAPS

\* What the running sweep keeps: objects behind the cursor, and ahead of it
\* the marked and the fresh ones.  Without a running sweep that is everything.
Kept(a) == phase = "Sweeping" => a < cursor \/ a \in marked \cup fresh
Safe == {a \in Live : Kept(a)}

\* Which collection goes on in which phase, and who runs.
Control ==
  /\ mode = "slice" <=> phase = "Marking"
  /\ mode \in {"round", "collect"} => phase = "Idle"
  /\ queue # {} \/ running => mode \in {"slice", "collect"}

\* Marks and tags are on objects ahead of the cursor; tags only in a sweep,
\* and marks between two cycles only inside gc::collect.
Tags ==
  /\ marked \subseteq Live /\ fresh \subseteq Live
  /\ phase = "Sweeping" => \A a \in marked \cup fresh : a >= cursor
  /\ phase # "Sweeping" => fresh = {}
  /\ phase = "Idle" /\ mode # "collect" => marked = {}

\* A drop that a cycle frees has run.
Owed ==
  /\ phase = "Marking" => \A a \in Live \ marked : kind[a] = "drop" => bodies[a] > 0
  /\ phase = "Sweeping" => \A a \in Live \ Safe : kind[a] = "drop" => bodies[a] > 0

\* A string refers to nothing.
Plain == \A a \in Addr : kind[a] = "string" => ref[a] = Nil

\* The inductive invariant for any operations.
Base == TypeOK /\ Control /\ Tags /\ Owed /\ Plain

\* What the sweep keeps refers only to what it keeps, weaks included.
Closure ==
  /\ Roots \subseteq Safe
  /\ \A a \in Safe : ref[a] \in Safe \cup {Nil}

\* The literal is kept too.
Literal == \A s \in {cached, interned} \ {Nil} : s \in Safe /\ kind[s] = "string"

\* While drops run between mark and sweep, the marked objects refer only to
\* marked ones.
Black ==
  phase = "Marking" =>
    /\ Roots \subseteq marked
    /\ \A a \in marked : Holds(a) => ref[a] \in marked \cup {Nil}
    /\ queue \subseteq marked

\* What is inductive besides, when no drop body uses a literal.
Sound == Closure /\ Literal /\ Black

NoLiteralInDrops == "string" \notin DropOps

-----------------------------------------------------------------------------
(***************************************************************************)
(* Marking: the least set with the seeds and the fields of what it adds.   *)
(* The operators take the heap as arguments, to speak of it before and     *)
(* after a step.                                                           *)
(***************************************************************************)
HoldSet == {a \in Addr : Holds(a)}
Covers(live, holds, rf, seeds, m, M) ==
  /\ m \subseteq M
  /\ seeds \cap live \subseteq M
  /\ \A a \in M \ m : a \in holds /\ rf[a] \in live => rf[a] \in M
TraceOf(live, holds, rf, seeds, m) ==
  {a \in Addr : \A M \in SUBSET Addr : Covers(live, holds, rf, seeds, m, M) => a \in M}

LEMMA TraceIs ==
  ASSUME NEW seeds, NEW m
  PROVE  Trace(seeds, m) = TraceOf(Live, HoldSet, ref, seeds, m)
<1>1. \A M \in SUBSET Addr :
        (/\ m \subseteq M /\ seeds \cap Live \subseteq M
         /\ \A a \in M \ m : Holds(a) /\ ref[a] \in Live => ref[a] \in M)
        <=> Covers(Live, HoldSet, ref, seeds, m, M)
  BY DEF Covers, HoldSet
<1> QED  BY <1>1 DEF Trace, TraceOf

LEMMA ReachableIs == Reachable = TraceOf(Live, HoldSet, ref, Roots, {})
  BY TraceIs DEF Reachable

LEMMA TraceFacts ==
  ASSUME NEW live \in SUBSET Addr, NEW holds, NEW rf, NEW seeds, NEW m \in SUBSET Addr
  PROVE  LET T == TraceOf(live, holds, rf, seeds, m) IN
         /\ T \in SUBSET Addr /\ m \subseteq T /\ seeds \cap live \subseteq T
         /\ \A a \in T \ m : a \in holds /\ rf[a] \in live => rf[a] \in T
         /\ \A M \in SUBSET Addr : Covers(live, holds, rf, seeds, m, M) => T \subseteq M
<1> DEFINE T == TraceOf(live, holds, rf, seeds, m)
<1>1. T \in SUBSET Addr  BY DEF TraceOf
<1>2. m \subseteq T  BY DEF TraceOf, Covers
<1>3. seeds \cap live \subseteq T  BY DEF TraceOf, Covers
<1>4. \A a \in T \ m : a \in holds /\ rf[a] \in live => rf[a] \in T
  <2> SUFFICES ASSUME NEW a \in T \ m, a \in holds, rf[a] \in live,
                      NEW M \in SUBSET Addr, Covers(live, holds, rf, seeds, m, M)
               PROVE  rf[a] \in M
    BY DEF TraceOf
  <2>1. a \in M  BY DEF TraceOf
  <2> QED  BY <2>1 DEF Covers
<1>5. \A M \in SUBSET Addr : Covers(live, holds, rf, seeds, m, M) => T \subseteq M  BY DEF TraceOf
<1> QED  BY <1>1, <1>2, <1>3, <1>4, <1>5

\* In the heap as it is: what a mark adds to marks on live objects.
LEMMA MarkFacts ==
  ASSUME TypeOK, NEW seeds, NEW m \in SUBSET Live
  PROVE  /\ Trace(seeds, m) \in SUBSET Live /\ m \subseteq Trace(seeds, m)
         /\ seeds \cap Live \subseteq Trace(seeds, m)
         /\ \A a \in Trace(seeds, m) \ m : Holds(a) /\ ref[a] \in Live => ref[a] \in Trace(seeds, m)
<1>1. Live \in SUBSET Addr /\ m \in SUBSET Addr  BY DEF Live
<1>2. Covers(Live, HoldSet, ref, seeds, m, Live)  BY DEF Covers
<1>3. \A a \in Addr : a \in HoldSet <=> Holds(a)  BY DEF HoldSet
<1> DEFINE T == TraceOf(Live, HoldSet, ref, seeds, m)
<1>4. /\ T \in SUBSET Addr /\ m \subseteq T /\ seeds \cap Live \subseteq T
      /\ \A a \in T \ m : a \in HoldSet /\ ref[a] \in Live => ref[a] \in T
      /\ \A M \in SUBSET Addr : Covers(Live, HoldSet, ref, seeds, m, M) => T \subseteq M
  BY <1>1, TraceFacts
<1>5. T = Trace(seeds, m)  BY TraceIs
<1> HIDE DEF T
<1>6. T \subseteq Live  BY <1>1, <1>2, <1>4
<1> QED  BY <1>3, <1>4, <1>5, <1>6

-----------------------------------------------------------------------------
(***************************************************************************)
(* The sweep.  KeptBy is what it leaves in the end.                        *)
(***************************************************************************)
KeptBy(m, c) == {a \in Live : a < c \/ a \in m \cup fresh}

\* What one slice of the sweep does.
Swept(m, c, n, W) ==
  /\ kind' \in [Addr -> Kind] /\ ref' \in [Addr -> Ref] /\ bodies' \in [Addr -> 0..1]
  /\ cursor' \in 1..All /\ phase' \in {"Idle", "Sweeping"}
  /\ Safe' = KeptBy(m, c) /\ Live' \subseteq Live
  /\ marked' \subseteq Live' /\ fresh' \subseteq Live'
  /\ \A a \in Live' : /\ kind'[a] = kind[a] /\ bodies'[a] = bodies[a]
                      /\ ref'[a] = IF a \in W THEN Nil ELSE ref[a]
  /\ \A a \in Addr \ Live' : kind'[a] = "free"
  /\ phase' = "Idle" => Live' = KeptBy(m, c) /\ marked' = {} /\ fresh' = {}
  /\ phase' = "Sweeping" => \A a \in marked' \cup fresh' : a >= cursor'
  /\ n = All => phase' = "Idle"

LEMMA SweepFacts ==
  ASSUME TypeOK, fresh \subseteq Live, NEW m \in SUBSET Live, NEW c \in 1..All, NEW n \in Nat \ {0},
         NEW W \in SUBSET Addr, \A a \in m \cup fresh : a >= c, sweep_quantum(m, c, n, W)
  PROVE  Swept(m, c, n, W)
<1>0. Slots \in Nat /\ All = Slots + 1 /\ Addr = 1..Slots  BY GcCycleAssumption DEF All, Addr
<1>1. PICK stop \in c..All :
        LET seen == {a \in Live : c <= a /\ a < stop}
            freed == seen \ (m \cup fresh)
            done == Cardinality(seen) < n
        IN /\ IF done THEN stop = All ELSE Cardinality(seen) = n /\ stop - 1 \in seen
           /\ kind' = [a \in Addr |-> IF a \in freed THEN "free" ELSE kind[a]]
           /\ ref' = [a \in Addr |-> IF a \in freed \cup W THEN Nil ELSE ref[a]]
           /\ bodies' = [a \in Addr |-> IF a \in freed THEN 0 ELSE bodies[a]]
           /\ marked' = m \ seen
           /\ fresh' = Untag(seen)
           /\ phase' = IF done THEN "Idle" ELSE "Sweeping"
           /\ cursor' = IF done THEN 1 ELSE stop
  BY DEF sweep_quantum
<1> DEFINE seen == {a \in Live : c <= a /\ a < stop}
           freed == seen \ (m \cup fresh)
           done == Cardinality(seen) < n
<1>2. done => stop = All  BY <1>1
<1>3. /\ kind' = [a \in Addr |-> IF a \in freed THEN "free" ELSE kind[a]]
      /\ ref' = [a \in Addr |-> IF a \in freed \cup W THEN Nil ELSE ref[a]]
      /\ bodies' = [a \in Addr |-> IF a \in freed THEN 0 ELSE bodies[a]]
      /\ marked' = m \ seen /\ fresh' = fresh \ seen
      /\ phase' = (IF done THEN "Idle" ELSE "Sweeping") /\ cursor' = (IF done THEN 1 ELSE stop)
  BY <1>1 DEF Untag
<1>4. stop \in Int /\ c \in Int /\ 1 <= c /\ c <= stop /\ stop <= All /\ \A a \in Addr : a \in Int /\ a < All
  BY <1>0
<1>5. \A a \in Live : a \in seen <=> c <= a /\ a < stop  OBVIOUS
<1>6. seen \subseteq Live /\ freed \subseteq Live /\ Live \in SUBSET Addr  BY DEF Live
<1>7. n = All => done
  <2>1. IsFiniteSet(1..Slots) /\ Cardinality(1..Slots) = Slots
    <3>1. IsFiniteSet(1..Slots) /\ Cardinality(1..Slots) = IF 1 > Slots THEN 0 ELSE Slots - 1 + 1
      BY <1>0, FS_Interval
    <3> QED  BY <1>0, <3>1
  <2>2. seen \subseteq 1..Slots  BY <1>0, <1>6
  <2>3. IsFiniteSet(seen) /\ Cardinality(seen) <= Slots  BY <2>1, <2>2, FS_Subset
  <2>4. Cardinality(seen) \in Nat  BY <2>3, FS_CardinalityType
  <2> HIDE DEF seen
  <2> QED  BY <1>0, <2>3, <2>4
<1> HIDE DEF seen, done
<1>8. kind' \in [Addr -> Kind] /\ ref' \in [Addr -> Ref] /\ bodies' \in [Addr -> 0..1]
  BY <1>3 DEF TypeOK, Kind, Ref
<1>9. cursor' \in 1..All /\ phase' \in {"Idle", "Sweeping"}  BY <1>0, <1>3, <1>4
<1>10. Live' = Live \ freed
  <2>1. \A a \in Addr : kind'[a] # "free" <=> kind[a] # "free" /\ a \notin freed  BY <1>3
  <2> QED  BY <2>1 DEF Live
<1>11. \A a \in Live' : kind'[a] = kind[a] /\ bodies'[a] = bodies[a] /\ ref'[a] = IF a \in W THEN Nil ELSE ref[a]
  BY <1>3, <1>6, <1>10
<1>12. \A a \in Addr \ Live' : kind'[a] = "free"  BY DEF Live
<1>13. marked' \subseteq Live' /\ fresh' \subseteq Live'  BY <1>3, <1>10
<1>14. CASE done
  <2>1. \A a \in Live : a \in seen <=> a >= c  BY <1>2, <1>4, <1>5, <1>6, <1>14
  <2>2. Live' = KeptBy(m, c)  BY <1>4, <1>6, <1>10, <2>1 DEF KeptBy
  <2>3. marked' = {} /\ fresh' = {}  BY <1>3, <2>1
  <2>4. phase' = "Idle"  BY <1>3, <1>14
  <2>5. Safe' = Live'  BY <2>4 DEF Safe, Kept
  <2> QED  BY <1>8, <1>9, <1>11, <1>12, <1>13, <2>2, <2>3, <2>4, <2>5, <1>10 DEF Swept
<1>15. CASE ~done
  <2>1. phase' = "Sweeping" /\ cursor' = stop  BY <1>3, <1>15
  <2>2. \A a \in marked' \cup fresh' : a >= cursor'
    BY <1>3, <1>4, <1>5, <1>6, <2>1
  <2>3. Safe' = {a \in Live' : a < stop \/ a \in marked' \cup fresh'}  BY <2>1 DEF Safe, Kept
  <2>4. \A a \in Live : a \in Safe' <=> a \in KeptBy(m, c)
    <3> SUFFICES ASSUME NEW a \in Live PROVE a \in Safe' <=> a \in KeptBy(m, c)
      OBVIOUS
    <3>1. a \in Int  BY <1>4, <1>6
    <3>2. a \in KeptBy(m, c) <=> a < c \/ a \in m \cup fresh  BY DEF KeptBy
    <3>3. a \in Safe' <=> a \notin freed /\ (a < stop \/ a \in (m \cup fresh) \ seen)
      BY <1>3, <1>10, <2>3
    <3>4. a \in seen <=> c <= a /\ a < stop  BY <1>5
    <3> QED  BY <1>4, <3>1, <3>2, <3>3, <3>4
  <2>5. Safe' \subseteq Live /\ KeptBy(m, c) \subseteq Live  BY <1>10, <2>3 DEF KeptBy
  <2>6. Safe' = KeptBy(m, c)  BY <2>4, <2>5
  <2> QED  BY <1>7, <1>8, <1>9, <1>10, <1>11, <1>12, <1>13, <1>15, <2>1, <2>2, <2>6 DEF Swept
<1> QED  BY <1>14, <1>15

-----------------------------------------------------------------------------
(***************************************************************************)
(* What the program and the drop bodies do.                                *)
(***************************************************************************)
LEMMA Registers ==
  ASSUME TypeOK, NEW r \in Mine
  PROVE  r \in Register /\ root[r] \in Ref /\ (root[r] # Nil => root[r] \in Roots)
  BY DEF TypeOK, Mine, Register, Roots

LEMMA RootPut ==
  ASSUME TypeOK, NEW r \in Register, NEW v \in Ref, root' = [root EXCEPT ![r] = v]
  PROVE  root' \in [Register -> Ref] /\ Roots' \subseteq Roots \cup ({v} \ {Nil})
  BY DEF TypeOK, Roots

\* The collector's own state stays; so does what is said of it.
LEMMA CycleFrame ==
  ASSUME Base, UNCHANGED cycle
  PROVE  Control' /\ UNCHANGED <<phase, cursor, mode, queue, running, deferred>>
<1>1. UNCHANGED <<phase, cursor, mode, queue, running, deferred>>  BY DEF cycle
<1> QED  BY <1>1 DEF Base, Control

LEMMA AllocFacts ==
  ASSUME Base, NEW a \in Addr, NEW k \in Kind \ {"free"}, NEW f \in Ref, k = "string" => f = Nil,
         alloc_unlocked_in(a, k, f), UNCHANGED cycle
  PROVE  /\ kind' \in [Addr -> Kind] /\ ref' \in [Addr -> Ref] /\ bodies' = bodies
         /\ marked' \subseteq Addr /\ fresh' \subseteq Addr
         /\ Live' = Live \cup {a} /\ a \notin Live /\ Safe' = Safe \cup {a}
         /\ kind'[a] = k /\ ref'[a] = f
         /\ \A b \in Addr \ {a} : kind'[b] = kind[b] /\ ref'[b] = ref[b]
         /\ marked' = IF phase = "Marking" THEN marked \cup {a} ELSE marked
         /\ Tags' /\ Owed' /\ Plain'
<1>0. UNCHANGED <<phase, cursor, mode, queue, running, deferred>>  BY CycleFrame
<1>1. /\ kind[a] = "free" /\ kind' = [kind EXCEPT ![a] = k] /\ ref' = [ref EXCEPT ![a] = f]
      /\ marked' = (IF phase = "Marking" THEN marked \cup {a} ELSE marked)
      /\ fresh' = (IF phase = "Sweeping" /\ a >= cursor THEN fresh \cup {a} ELSE fresh)
      /\ bodies' = bodies
  BY DEF alloc_unlocked_in, AllocAs
<1>2. /\ kind \in [Addr -> Kind] /\ ref \in [Addr -> Ref] /\ marked \subseteq Addr /\ fresh \subseteq Addr
      /\ cursor \in 1..All
  BY DEF Base, TypeOK
<1>3. /\ kind' \in [Addr -> Kind] /\ ref' \in [Addr -> Ref] /\ kind'[a] = k /\ ref'[a] = f
      /\ marked' \subseteq Addr /\ fresh' \subseteq Addr
      /\ \A b \in Addr \ {a} : kind'[b] = kind[b] /\ ref'[b] = ref[b]
  BY <1>1, <1>2
<1>4. Live' = Live \cup {a} /\ a \notin Live  BY <1>1, <1>3 DEF Live
<1>5. Safe' = Safe \cup {a}
  <2>1. a \in Safe'
    <3>1. a \in Int /\ cursor \in Int  BY <1>2, GcCycleAssumption DEF Addr, All
    <3>2. Kept(a)'  BY <1>0, <1>1, <3>1 DEF Kept
    <3> QED  BY <1>4, <3>2 DEF Safe
  <2>2. \A b \in Live : Kept(b)' <=> Kept(b)  BY <1>0, <1>1, <1>4 DEF Kept
  <2> QED  BY <1>4, <2>1, <2>2 DEF Safe
<1>6. Tags'  BY <1>0, <1>1, <1>4 DEF Base, Tags
<1>7. Owed'
  <2>1. phase = "Marking" => Live' \ marked' \subseteq Live \ marked  BY <1>1, <1>4
  <2>2. Live' \ Safe' \subseteq Live \ Safe  BY <1>4, <1>5
  <2>3. \A b \in Live : b \in Addr \ {a}  BY <1>4 DEF Live
  <2> QED  BY <1>0, <1>1, <1>3, <2>1, <2>2, <2>3 DEF Base, Owed
<1>8. Plain'  BY <1>3 DEF Base, Plain
<1> QED  BY <1>1, <1>3, <1>4, <1>5, <1>6, <1>7, <1>8

\* An allocation that fills a register, and perhaps the intern table.
LEMMA AllocBase ==
  ASSUME Base, NEW a \in Addr, NEW k \in Kind \ {"free"}, NEW f \in Ref, k = "string" => f = Nil,
         alloc_unlocked_in(a, k, f), UNCHANGED cycle,
         NEW r \in Register, root' = [root EXCEPT ![r] = a], interned' \in Ref, cached' \in Ref
  PROVE  Base'
<1>1. /\ kind' \in [Addr -> Kind] /\ ref' \in [Addr -> Ref] /\ bodies' = bodies
      /\ marked' \subseteq Addr /\ fresh' \subseteq Addr
      /\ Tags' /\ Owed' /\ Plain'
  BY AllocFacts
<1>2. root' \in [Register -> Ref]  BY RootPut DEF Base, Ref
<1>3. Control' /\ UNCHANGED <<phase, cursor, mode, queue, running, deferred>>  BY CycleFrame
<1> QED  BY <1>1, <1>2, <1>3 DEF Base, TypeOK

\* A new object refers to what is kept, and a black one to black ones.
LEMMA AllocSound ==
  ASSUME Base, Sound, NEW a \in Addr, NEW k \in Kind \ {"free"}, NEW f \in Ref, k = "string" => f = Nil,
         alloc_unlocked_in(a, k, f), UNCHANGED cycle,
         f \in Safe \cup {Nil}, k \in {"node", "drop"} => f = Nil,
         NEW r \in Register, root' = [root EXCEPT ![r] = a],
         UNCHANGED strs \/ (interned' = a /\ cached' = a /\ k = "string")
  PROVE  Sound'
<1>1. /\ Live' = Live \cup {a} /\ a \notin Live /\ Safe' = Safe \cup {a}
      /\ kind'[a] = k /\ ref'[a] = f
      /\ \A b \in Addr \ {a} : kind'[b] = kind[b] /\ ref'[b] = ref[b]
      /\ marked' = IF phase = "Marking" THEN marked \cup {a} ELSE marked
  BY AllocFacts
<1>2. UNCHANGED <<phase, cursor, mode, queue, running, deferred>>  BY CycleFrame
<1>3. Roots' \subseteq Roots \cup {a}  BY RootPut DEF Base, Ref
<1>4. Safe \subseteq Addr \ {a} /\ marked \subseteq Addr \ {a}  BY <1>1 DEF Safe, Live, Base, Tags
<1>5. Closure'
  <2>1. Roots' \subseteq Safe'  BY <1>1, <1>3 DEF Sound, Closure
  <2>2. \A b \in Safe' : ref'[b] \in Safe' \cup {Nil}  BY <1>1, <1>4 DEF Sound, Closure
  <2> QED  BY <2>1, <2>2 DEF Closure
<1>6. Literal'
  <2>1. CASE UNCHANGED strs
    <3>1. interned' = interned /\ cached' = cached  BY <2>1 DEF strs
    <3> QED  BY <1>1, <1>4, <3>1 DEF Sound, Literal
  <2>2. CASE interned' = a /\ cached' = a /\ k = "string"  BY <1>1, <2>2 DEF Literal
  <2> QED  BY <2>1, <2>2
<1>7. Black'
  <2>1. \A b \in Addr \ {a} : Holds(b)' <=> Holds(b)  BY <1>1 DEF Holds
  <2>2. Holds(a)' => f = Nil  BY <1>1 DEF Holds
  <2> QED  BY <1>1, <1>2, <1>3, <1>4, <2>1, <2>2 DEF Sound, Black
<1> QED  BY <1>5, <1>6, <1>7 DEF Sound

\* A register gets a value, and the heap stays.
LEMMA PutBase ==
  ASSUME Base, UNCHANGED <<heapvars, cycle>>, root' \in [Register -> Ref], interned' \in Ref, cached' \in Ref
  PROVE  Base'
<1>1. UNCHANGED <<kind, ref, bodies, marked, fresh>>  BY DEF heapvars
<1>2. Control' /\ UNCHANGED <<phase, cursor, mode, queue, running, deferred>>  BY CycleFrame
<1>3. TypeOK'  BY <1>1, <1>2 DEF Base, TypeOK
<1>4. Tags' /\ Owed' /\ Plain'
  BY <1>1, <1>2 DEF Base, Tags, Owed, Plain, Safe, Live, Kept
<1> QED  BY <1>2, <1>3, <1>4 DEF Base

LEMMA PutSound ==
  ASSUME Base, Sound, UNCHANGED <<heapvars, cycle, interned>>, cached' \in {cached, interned},
         NEW r \in Register, NEW v \in Ref, root' = [root EXCEPT ![r] = v],
         v \in Safe \cup {Nil}, phase = "Marking" => v \in marked \cup {Nil}
  PROVE  Sound'
<1>1. UNCHANGED <<kind, ref, bodies, marked, fresh>>  BY DEF heapvars
<1>2. UNCHANGED <<phase, cursor, mode, queue, running, deferred>>  BY CycleFrame
<1>3. Live' = Live /\ Safe' = Safe  BY <1>1, <1>2 DEF Safe, Live, Kept
<1>4. Roots' \subseteq Roots \cup ({v} \ {Nil})  BY RootPut DEF Base
<1>5. Closure'  BY <1>1, <1>3, <1>4 DEF Sound, Closure
<1>6. Literal'  BY <1>1, <1>3 DEF Sound, Literal
<1>7. Black'  BY <1>1, <1>2, <1>4 DEF Sound, Black, Holds
<1> QED  BY <1>5, <1>6, <1>7 DEF Sound

\* What a register holds is kept, and marked while drops run in a cycle.
LEMMA Held ==
  ASSUME Base, Sound, NEW s \in Mine
  PROVE  /\ root[s] \in Safe \cup {Nil}
         /\ phase = "Marking" => root[s] \in marked \cup {Nil}
<1>1. root[s] # Nil => root[s] \in Roots  BY Registers DEF Base
<1> QED  BY <1>1 DEF Sound, Closure, Black

LEMMA NewObjectBase ==
  ASSUME Base, NEW r \in Mine, NewObject(r)
  PROVE  Base'
<1>1. PICK k \in {"node", "drop"}, a \in Addr : alloc_unlocked_in(a, k, Nil) /\ root' = [root EXCEPT ![r] = a]
  BY DEF NewObject
<1>2. k \in Kind \ {"free"} /\ Nil \in Ref /\ r \in Register  BY Registers DEF Kind, Ref, Base
<1>3. UNCHANGED cycle /\ interned' \in Ref /\ cached' \in Ref  BY DEF NewObject, strs, Base, TypeOK
<1> QED  BY <1>1, <1>2, <1>3, AllocBase

LEMMA NewObjectSound ==
  ASSUME Base, Sound, NEW r \in Mine, NewObject(r)
  PROVE  Sound'
<1>1. PICK k \in {"node", "drop"}, a \in Addr : alloc_unlocked_in(a, k, Nil) /\ root' = [root EXCEPT ![r] = a]
  BY DEF NewObject
<1>2. k \in Kind \ {"free"} /\ Nil \in Ref /\ r \in Register  BY Registers DEF Kind, Ref, Base
<1>3. UNCHANGED cycle /\ UNCHANGED strs  BY DEF NewObject
<1> QED  BY <1>1, <1>2, <1>3, AllocSound

LEMMA WeakBase ==
  ASSUME Base, NEW r \in Mine, NEW s \in Mine, host_gc_weak(r, s)
  PROVE  Base'
<1>1. PICK a \in Addr : alloc_unlocked_in(a, "weak", root[s]) /\ root' = [root EXCEPT ![r] = a]
  BY DEF host_gc_weak
<1>2. "weak" \in Kind \ {"free"} /\ root[s] \in Ref /\ r \in Register  BY Registers DEF Kind, Base
<1>3. UNCHANGED cycle /\ interned' \in Ref /\ cached' \in Ref  BY DEF host_gc_weak, strs, Base, TypeOK
<1> QED  BY <1>1, <1>2, <1>3, AllocBase

LEMMA WeakSound ==
  ASSUME Base, Sound, NEW r \in Mine, NEW s \in Mine, host_gc_weak(r, s)
  PROVE  Sound'
<1>1. PICK a \in Addr : alloc_unlocked_in(a, "weak", root[s]) /\ root' = [root EXCEPT ![r] = a]
  BY DEF host_gc_weak
<1>2. "weak" \in Kind \ {"free"} /\ root[s] \in Ref /\ r \in Register  BY Registers DEF Kind, Base
<1>3. UNCHANGED cycle /\ UNCHANGED strs  BY DEF host_gc_weak
<1>4. root[s] \in Safe \cup {Nil}  BY Held
<1> QED  BY <1>1, <1>2, <1>3, <1>4, AllocSound

LEMMA LoadBase ==
  ASSUME Base, NEW r \in Mine, NEW s \in Mine, Load(r, s)
  PROVE  Base'
<1>1. r \in Register /\ root[s] \in Live /\ root' = [root EXCEPT ![r] = ref[root[s]]]
      /\ UNCHANGED <<heapvars, strs, cycle>>
  BY Registers DEF Load, Base
<1>2. ref[root[s]] \in Ref  BY <1>1 DEF Base, TypeOK, Live
<1>3. root' \in [Register -> Ref]  BY <1>1, <1>2, RootPut DEF Base
<1>4. interned' \in Ref /\ cached' \in Ref  BY <1>1 DEF strs, Base, TypeOK
<1> QED  BY <1>1, <1>3, <1>4, PutBase

LEMMA LoadSound ==
  ASSUME Base, Sound, NEW r \in Mine, NEW s \in Mine, Load(r, s)
  PROVE  Sound'
<1>1. r \in Register /\ root[s] \in Live /\ Holds(root[s]) /\ root' = [root EXCEPT ![r] = ref[root[s]]]
      /\ UNCHANGED <<heapvars, strs, cycle>>
  BY Registers DEF Load, Base
<1>2. ref[root[s]] \in Ref /\ root[s] # Nil  BY <1>1 DEF Base, TypeOK, Live, Addr, Nil
<1>3. root[s] \in Safe /\ (phase = "Marking" => root[s] \in marked)  BY <1>2, Held
<1>4. ref[root[s]] \in Safe \cup {Nil} /\ (phase = "Marking" => ref[root[s]] \in marked \cup {Nil})
  BY <1>1, <1>3 DEF Sound, Closure, Black
<1>5. UNCHANGED <<heapvars, cycle, interned>> /\ cached' \in {cached, interned}  BY <1>1 DEF strs
<1> QED  BY <1>1, <1>2, <1>4, <1>5, PutSound

LEMMA ClearBase ==
  ASSUME Base, NEW r \in Mine, Clear(r)
  PROVE  Base'
<1>1. r \in Register /\ root' = [root EXCEPT ![r] = Nil] /\ UNCHANGED <<heapvars, strs, cycle>> /\ Nil \in Ref
  BY Registers DEF Clear, Base, Ref
<1>2. root' \in [Register -> Ref]  BY <1>1, RootPut DEF Base
<1>3. interned' \in Ref /\ cached' \in Ref  BY <1>1 DEF strs, Base, TypeOK
<1> QED  BY <1>1, <1>2, <1>3, PutBase

LEMMA ClearSound ==
  ASSUME Base, Sound, NEW r \in Mine, Clear(r)
  PROVE  Sound'
<1>1. r \in Register /\ root' = [root EXCEPT ![r] = Nil] /\ UNCHANGED <<heapvars, strs, cycle>> /\ Nil \in Ref
  BY Registers DEF Clear, Base, Ref
<1>2. UNCHANGED <<heapvars, cycle, interned>> /\ cached' \in {cached, interned}  BY <1>1 DEF strs
<1> QED  BY <1>1, <1>2, PutSound

LEMMA StoreBase ==
  ASSUME Base, NEW r \in Mine, NEW s \in Mine, Store(r, s)
  PROVE  Base'
<1>1. /\ root[r] \in Live /\ Holds(root[r]) /\ ref' = [ref EXCEPT ![root[r]] = root[s]]
      /\ UNCHANGED <<kind, bodies, marked, fresh, interned, cached, root, cycle>>
  BY DEF Store, strs
<1>2. Control' /\ UNCHANGED <<phase, cursor, mode, queue, running, deferred>>  BY <1>1, CycleFrame
<1>3. root[s] \in Ref  BY Registers DEF Base
<1>4. ref' \in [Addr -> Ref] /\ \A b \in Addr : b # root[r] => ref'[b] = ref[b]  BY <1>1, <1>3 DEF Base, TypeOK
<1>5. TypeOK'  BY <1>1, <1>2, <1>4 DEF Base, TypeOK
<1>6. Tags' /\ Owed'  BY <1>1, <1>2 DEF Base, Tags, Owed, Safe, Live, Kept
<1>7. Plain'  BY <1>1, <1>4 DEF Base, Plain, Holds
<1> QED  BY <1>2, <1>5, <1>6, <1>7 DEF Base

LEMMA StoreSound ==
  ASSUME Base, Sound, NEW r \in Mine, NEW s \in Mine, Store(r, s)
  PROVE  Sound'
<1>1. /\ root[r] \in Live /\ Holds(root[r]) /\ ref' = [ref EXCEPT ![root[r]] = root[s]]
      /\ UNCHANGED <<kind, bodies, marked, fresh, interned, cached, root, cycle>>
  BY DEF Store, strs
<1>2. UNCHANGED <<phase, cursor, mode, queue, running, deferred>>  BY <1>1, CycleFrame
<1>3. root[s] \in Safe \cup {Nil} /\ (phase = "Marking" => root[s] \in marked \cup {Nil})  BY Held
<1>4. ref \in [Addr -> Ref]  BY DEF Base, TypeOK
<1>5. Live' = Live /\ Safe' = Safe /\ Roots' = Roots  BY <1>1, <1>2 DEF Safe, Live, Kept, Roots
<1>6. Safe \subseteq Addr /\ marked \subseteq Addr  BY DEF Safe, Live, Base, TypeOK
<1>7. \A b \in Addr : ref'[b] = root[s] \/ ref'[b] = ref[b]  BY <1>1, <1>4
<1>8. Closure'  BY <1>3, <1>5, <1>6, <1>7 DEF Sound, Closure
<1>9. Literal'  BY <1>1, <1>5 DEF Sound, Literal
<1>10. Black'
  <2>1. \A b \in Addr : Holds(b)' <=> Holds(b)  BY <1>1 DEF Holds
  <2> QED  BY <1>1, <1>2, <1>3, <1>5, <1>6, <1>7, <2>1 DEF Sound, Black
<1> QED  BY <1>8, <1>9, <1>10 DEF Sound

\* An upgrade hands out the target of a weak, and marks it while drops run.
LEMMA UpgradeFacts ==
  ASSUME Base, NEW r \in Mine, NEW s \in Mine, host_gc_upgrade(r, s)
  PROVE  /\ r \in Register /\ root[s] \in Live /\ ref[root[s]] \in Ref
         /\ root' = [root EXCEPT ![r] = ref[root[s]]]
         /\ UNCHANGED <<kind, ref, bodies, fresh, interned, cached, cycle>>
         /\ Live' = Live /\ marked' \subseteq Live /\ marked \subseteq marked'
         /\ phase # "Marking" => marked' = marked
         /\ phase = "Marking" =>
              /\ {ref[root[s]]} \cap Live \subseteq marked'
              /\ \A a \in marked' \ marked : Holds(a) /\ ref[a] \in Live => ref[a] \in marked'
<1>1. /\ root[s] \in Live /\ root' = [root EXCEPT ![r] = ref[root[s]]]
      /\ marked' = (IF phase = "Marking" THEN Trace({ref[root[s]]}, marked) ELSE marked)
      /\ UNCHANGED <<kind, ref, bodies, fresh, interned, cached, cycle>>
  BY DEF host_gc_upgrade, strs
<1>2. r \in Register  BY Registers DEF Base
<1>3. ref[root[s]] \in Ref  BY <1>1 DEF Base, TypeOK, Live
<1>4. marked \in SUBSET Live  BY DEF Base, Tags
<1> DEFINE T == Trace({ref[root[s]]}, marked)
<1>5. /\ T \in SUBSET Live /\ marked \subseteq T /\ {ref[root[s]]} \cap Live \subseteq T
      /\ \A a \in T \ marked : Holds(a) /\ ref[a] \in Live => ref[a] \in T
  BY <1>4, MarkFacts DEF Base
<1>6. Live' = Live  BY <1>1 DEF Live
<1> HIDE DEF T
<1>7. marked' = IF phase = "Marking" THEN T ELSE marked  BY <1>1 DEF T
<1> QED  BY <1>1, <1>2, <1>3, <1>4, <1>5, <1>6, <1>7

LEMMA UpgradeBase ==
  ASSUME Base, NEW r \in Mine, NEW s \in Mine, host_gc_upgrade(r, s)
  PROVE  Base'
<1>1. /\ r \in Register /\ ref[root[s]] \in Ref /\ root' = [root EXCEPT ![r] = ref[root[s]]]
      /\ UNCHANGED <<kind, ref, bodies, fresh, interned, cached, cycle>>
      /\ Live' = Live /\ marked' \subseteq Live /\ marked \subseteq marked'
      /\ phase # "Marking" => marked' = marked
  BY UpgradeFacts
<1>2. Control' /\ UNCHANGED <<phase, cursor, mode, queue, running, deferred>>  BY <1>1, CycleFrame
<1>3. root' \in [Register -> Ref]  BY <1>1, RootPut DEF Base
<1>4. TypeOK'
  <2>1. marked' \subseteq Addr  BY <1>1 DEF Live
  <2> QED  BY <1>1, <1>2, <1>3, <2>1 DEF Base, TypeOK
<1>5. Tags'  BY <1>1, <1>2 DEF Base, Tags
<1>6. phase # "Marking" => Safe' = Safe  BY <1>1, <1>2 DEF Safe, Kept
<1>7. Owed'  BY <1>1, <1>2, <1>6 DEF Base, Owed
<1>8. Plain'  BY <1>1 DEF Base, Plain
<1> QED  BY <1>2, <1>4, <1>5, <1>7, <1>8 DEF Base

LEMMA UpgradeSound ==
  ASSUME Base, Sound, NEW r \in Mine, NEW s \in Mine, host_gc_upgrade(r, s)
  PROVE  Sound'
<1> DEFINE v == ref[root[s]]
<1>1. /\ r \in Register /\ root[s] \in Live /\ v \in Ref /\ root' = [root EXCEPT ![r] = v]
      /\ UNCHANGED <<kind, ref, bodies, fresh, interned, cached, cycle>>
      /\ Live' = Live /\ marked' \subseteq Live /\ marked \subseteq marked'
      /\ phase # "Marking" => marked' = marked
      /\ phase = "Marking" =>
           /\ {v} \cap Live \subseteq marked'
           /\ \A a \in marked' \ marked : Holds(a) /\ ref[a] \in Live => ref[a] \in marked'
  BY UpgradeFacts
<1>2. UNCHANGED <<phase, cursor, mode, queue, running, deferred>>  BY <1>1, CycleFrame
<1>3. root[s] # Nil  BY <1>1 DEF Live, Addr, Nil
<1>4. root[s] \in Safe  BY <1>3, Held
<1>5. v \in Safe \cup {Nil}  BY <1>4 DEF Sound, Closure
<1> HIDE DEF v
<1>6. Roots' \subseteq Roots \cup ({v} \ {Nil})  BY <1>1, RootPut DEF Base
<1>7. Safe' = Safe /\ Safe \subseteq Live
  <2>1. CASE phase = "Marking"  BY <1>1, <1>2, <2>1 DEF Safe, Kept
  <2>2. CASE phase # "Marking"  BY <1>1, <1>2, <2>2 DEF Safe, Kept
  <2> QED  BY <2>1, <2>2
<1>8. Closure'  BY <1>1, <1>5, <1>6, <1>7 DEF Sound, Closure
<1>9. Literal'  BY <1>1, <1>7 DEF Sound, Literal
<1>10. Black'
  <2> SUFFICES ASSUME phase = "Marking"
               PROVE  /\ Roots' \subseteq marked'
                      /\ \A a \in marked' : Holds(a)' => ref'[a] \in marked' \cup {Nil}
                      /\ queue' \subseteq marked'
    BY <1>2 DEF Black
  <2>1. Roots' \subseteq marked'
    <3>1. v # Nil => v \in marked'  BY <1>1, <1>5, <1>7
    <3> QED  BY <1>1, <1>6, <3>1 DEF Sound, Black
  <2>2. \A a \in marked' : Holds(a)' => ref'[a] \in marked' \cup {Nil}
    <3> SUFFICES ASSUME NEW a \in marked', Holds(a) PROVE ref[a] \in marked' \cup {Nil}
      BY <1>1 DEF Holds
    <3>1. Safe = Live  BY DEF Safe, Kept
    <3>2. ref[a] \in Live \cup {Nil}  BY <1>1, <3>1 DEF Sound, Closure
    <3>3. CASE a \in marked  BY <1>1, <3>3 DEF Sound, Black
    <3>4. CASE a \notin marked  BY <1>1, <3>2, <3>4
    <3> QED  BY <3>3, <3>4
  <2>3. queue' \subseteq marked'  BY <1>1, <1>2 DEF Sound, Black
  <2> QED  BY <2>1, <2>2, <2>3
<1> QED  BY <1>8, <1>9, <1>10 DEF Sound

LEMMA StringBase ==
  ASSUME Base, NEW r \in Mine, push_program_string(r)
  PROVE  Base'
<1>1. r \in Register /\ UNCHANGED cycle  BY Registers DEF Base, push_program_string
<1>2. cached \in Ref /\ interned \in Ref /\ Nil \in Ref /\ Addr \subseteq Ref  BY DEF Base, TypeOK, Ref
<1>3. ASSUME NEW v \in {cached, interned}, root' = [root EXCEPT ![r] = v], UNCHANGED heapvars,
             interned' = interned, cached' \in {cached, interned}
      PROVE  Base'
  <2>1. root' \in [Register -> Ref]  BY <1>1, <1>2, <1>3, RootPut DEF Base
  <2> QED  BY <1>1, <1>2, <1>3, <2>1, PutBase
<1>4. ASSUME NEW a \in Addr, alloc_unlocked_in(a, "string", Nil), root' = [root EXCEPT ![r] = a],
             interned' = a, cached' = a
      PROVE  Base'
  BY <1>1, <1>2, <1>4, AllocBase DEF Kind
<1> QED  BY <1>3, <1>4 DEF push_program_string, strs

LEMMA StringSound ==
  ASSUME NoLiteralInDrops, Base, Sound, NEW r \in Mine, push_program_string(r)
  PROVE  Sound'
<1>1. r \in Register /\ UNCHANGED cycle  BY Registers DEF Base, push_program_string
<1>2. cached \in Ref /\ interned \in Ref /\ Nil \in Ref /\ Addr \subseteq Ref  BY DEF Base, TypeOK, Ref
<1>3. phase # "Marking"
  <2>1. Does("string")  BY DEF push_program_string
  <2> QED  BY <2>1 DEF NoLiteralInDrops, Does, Base, Control
<1>4. ASSUME NEW v \in {cached, interned}, root' = [root EXCEPT ![r] = v], UNCHANGED heapvars,
             interned' = interned, cached' \in {cached, interned}
      PROVE  Sound'
  <2>1. v \in Safe \cup {Nil}  BY DEF Sound, Literal
  <2> QED  BY <1>1, <1>2, <1>3, <1>4, <2>1, PutSound
<1>5. ASSUME NEW a \in Addr, alloc_unlocked_in(a, "string", Nil), root' = [root EXCEPT ![r] = a],
             interned' = a, cached' = a
      PROVE  Sound'
  BY <1>1, <1>2, <1>5, AllocSound DEF Kind
<1> QED  BY <1>4, <1>5 DEF push_program_string, strs

LEMMA CallBase ==
  ASSUME Base, NEW r \in Mine, call_drop(r)
  PROVE  Base'
<1>1. /\ root[r] \in Live /\ bodies[root[r]] = 0 /\ bodies' = [bodies EXCEPT ![root[r]] = @ + 1]
      /\ UNCHANGED <<kind, ref, marked, fresh, interned, cached, root, cycle>>
  BY DEF call_drop, claim_finalizer, strs
<1>2. Control' /\ UNCHANGED <<phase, cursor, mode, queue, running, deferred>>  BY <1>1, CycleFrame
<1>3. bodies' \in [Addr -> 0..1] /\ \A a \in Addr : bodies[a] > 0 => bodies'[a] > 0
  BY <1>1 DEF Base, TypeOK, Live
<1>4. TypeOK'  BY <1>1, <1>2, <1>3 DEF Base, TypeOK
<1>5. Live' = Live /\ Safe' = Safe  BY <1>1, <1>2 DEF Live, Safe, Kept
<1>6. Tags' /\ Plain'  BY <1>1, <1>2, <1>5 DEF Base, Tags, Plain
<1>7. Live \subseteq Addr  BY DEF Live
<1>8. Owed'  BY <1>1, <1>2, <1>3, <1>5, <1>7 DEF Base, Owed
<1> QED  BY <1>2, <1>4, <1>6, <1>8 DEF Base

\* Nothing of the heap's shape changes.
LEMMA SoundFrame ==
  ASSUME Sound, UNCHANGED <<kind, ref, marked, fresh, interned, cached, root, phase, cursor>>,
         queue' \subseteq queue
  PROVE  Sound'
<1>1. Live' = Live /\ Safe' = Safe /\ Roots' = Roots  BY DEF Live, Safe, Kept, Roots
<1>2. Closure' /\ Literal'  BY <1>1 DEF Sound, Closure, Literal
<1>3. Black'  BY <1>1 DEF Sound, Black, Holds
<1> QED  BY <1>2, <1>3 DEF Sound

LEMMA CallSound ==
  ASSUME Sound, NEW r \in Mine, call_drop(r)
  PROVE  Sound'
  BY SoundFrame DEF call_drop, strs, cycle

LEMMA MutatorBase ==
  ASSUME Base, Mutator
  PROVE  Base'
  BY WeakBase, UpgradeBase, LoadBase, StoreBase, NewObjectBase, ClearBase, StringBase, CallBase
  DEF Mutator

LEMMA MutatorSound ==
  ASSUME NoLiteralInDrops, Base, Sound, Mutator
  PROVE  Sound'
  BY WeakSound, UpgradeSound, LoadSound, StoreSound, NewObjectSound, ClearSound, StringSound, CallSound
  DEF Mutator

-----------------------------------------------------------------------------
(***************************************************************************)
(* What the collector does.  First the end of a mark: with the marks m the *)
(* dead weaks are cleared, the dead literal is unlinked and a sweep starts *)
(* at the first slot.                                                      *)
(***************************************************************************)
SweepStarts(m, n) ==
  /\ unlink_unmarked_interns(m)
  /\ sweep_quantum(m, 1, n, clear_dead_weaks(m))
  /\ cached' = Nil /\ root' = root

LEMMA StartFacts ==
  ASSUME Base, phase # "Sweeping", NEW m \in SUBSET Live, NEW n \in Nat \ {0}, SweepStarts(m, n)
  PROVE  /\ kind' \in [Addr -> Kind] /\ ref' \in [Addr -> Ref] /\ bodies' \in [Addr -> 0..1]
         /\ cursor' \in 1..All /\ phase' \in {"Idle", "Sweeping"}
         /\ Safe' = m /\ Live' \subseteq Live /\ m \subseteq Live'
         /\ marked' \subseteq Live' /\ fresh' \subseteq Live'
         /\ \A a \in Live' : /\ kind'[a] = kind[a] /\ bodies'[a] = bodies[a]
                             /\ ref'[a] = IF a \in clear_dead_weaks(m) THEN Nil ELSE ref[a]
         /\ \A a \in Addr \ Live' : kind'[a] = "free"
         /\ phase' = "Idle" => Live' = m /\ marked' = {} /\ fresh' = {}
         /\ phase' = "Sweeping" => \A a \in marked' \cup fresh' : a >= cursor'
         /\ n = All => phase' = "Idle"
<1>0. TypeOK /\ fresh = {}  BY DEF Base, Tags
<1>1. 1 \in 1..All /\ \A a \in Addr : a \in Int /\ a >= 1  BY GcCycleAssumption DEF All, Addr
<1>2. Live \in SUBSET Addr  BY DEF Live
<1>3. KeptBy(m, 1) = m
  <2>1. \A a \in Live : ~(a < 1)  BY <1>1, <1>2
  <2> QED  BY <1>0, <2>1 DEF KeptBy
<1> DEFINE W == clear_dead_weaks(m)
<1>4. W \in SUBSET Addr  BY DEF clear_dead_weaks
<1>5. sweep_quantum(m, 1, n, W)  BY DEF SweepStarts
<1>6. fresh \subseteq Live /\ \A a \in m \cup fresh : a >= 1  BY <1>0, <1>1, <1>2
<1>7. Safe' \subseteq Live'  BY DEF Safe
<1> HIDE DEF W
<1>8. Swept(m, 1, n, W)  BY <1>0, <1>1, <1>4, <1>5, <1>6, SweepFacts
<1> QED  BY <1>3, <1>7, <1>8 DEF W, Swept

LEMMA StartBase ==
  ASSUME Base, phase # "Sweeping", NEW m \in SUBSET Live, NEW n \in Nat \ {0}, SweepStarts(m, n),
         n = All \/ \A a \in Live \ m : kind[a] = "drop" => bodies[a] > 0,
         mode' \in {"none", "round"}, mode' = "round" => n = All,
         queue' = {}, running' = FALSE, deferred' \in BOOLEAN
  PROVE  Base'
<1> DEFINE W == clear_dead_weaks(m)
<1>1. /\ kind' \in [Addr -> Kind] /\ ref' \in [Addr -> Ref] /\ bodies' \in [Addr -> 0..1]
      /\ cursor' \in 1..All /\ phase' \in {"Idle", "Sweeping"}
      /\ Safe' = m /\ Live' \subseteq Live
      /\ marked' \subseteq Live' /\ fresh' \subseteq Live'
      /\ \A a \in Live' : /\ kind'[a] = kind[a] /\ bodies'[a] = bodies[a]
                          /\ ref'[a] = IF a \in W THEN Nil ELSE ref[a]
      /\ \A a \in Addr \ Live' : kind'[a] = "free"
      /\ phase' = "Idle" => Live' = m /\ marked' = {} /\ fresh' = {}
      /\ phase' = "Sweeping" => \A a \in marked' \cup fresh' : a >= cursor'
      /\ n = All => phase' = "Idle"
  BY StartFacts
<1> HIDE DEF W
<1>2. interned' \in Ref /\ cached' = Nil /\ root' = root /\ Nil \in Ref
  BY DEF SweepStarts, unlink_unmarked_interns, Base, TypeOK, Ref
<1>3. Live' \subseteq Addr  BY DEF Live
<1>4. TypeOK'  BY <1>1, <1>2, <1>3 DEF Base, TypeOK
<1>5. Control'  BY <1>1 DEF Control
<1>6. Tags'  BY <1>1 DEF Tags
<1>7. Owed'  BY <1>1 DEF Owed
<1>8. Plain'
  <2> SUFFICES ASSUME NEW a \in Addr, kind'[a] = "string" PROVE ref'[a] = Nil
    BY DEF Plain
  <2>1. a \in Live' /\ kind[a] = "string"  BY <1>1
  <2> QED  BY <1>1, <2>1 DEF Base, Plain
<1> QED  BY <1>4, <1>5, <1>6, <1>7, <1>8 DEF Base

LEMMA StartSound ==
  ASSUME Base, Sound, phase # "Sweeping", NEW m \in SUBSET Live, NEW n \in Nat \ {0}, SweepStarts(m, n),
         Roots \subseteq m, \A a \in m : Holds(a) => ref[a] \in m \cup {Nil}
  PROVE  Sound'
<1> DEFINE W == clear_dead_weaks(m)
<1>1. /\ phase' \in {"Idle", "Sweeping"} /\ Safe' = m /\ m \subseteq Live'
      /\ \A a \in Live' : kind'[a] = kind[a] /\ ref'[a] = IF a \in W THEN Nil ELSE ref[a]
  BY StartFacts
<1>2. \A a \in Addr : a \in W <=> kind[a] = "weak" /\ ref[a] \in Live \ m  BY DEF clear_dead_weaks
<1> HIDE DEF W
<1>3. interned' \in m \cup {Nil} /\ interned' \in {interned, Nil} /\ cached' = Nil /\ Roots' = Roots
  BY DEF SweepStarts, unlink_unmarked_interns, Roots
<1>4. Safe = Live /\ Live \subseteq Addr  BY DEF Safe, Kept, Live
<1>5. \A a \in m : ref'[a] \in m \cup {Nil}
  <2> SUFFICES ASSUME NEW a \in m PROVE ref'[a] \in m \cup {Nil}
    OBVIOUS
  <2>1. a \in Live' /\ a \in Addr /\ kind[a] # "free" /\ kind[a] \in Kind  BY <1>1, <1>4 DEF Live, Base, TypeOK
  <2>2. ref'[a] = IF a \in W THEN Nil ELSE ref[a]  BY <1>1, <2>1
  <2>3. ref[a] \in Live \cup {Nil}  BY <1>4 DEF Sound, Closure
  <2>4. CASE Holds(a)  BY <2>2, <2>4
  <2>5. CASE kind[a] = "weak"  BY <1>2, <2>1, <2>2, <2>3, <2>5
  <2>6. CASE kind[a] = "string"
    <3>1. ref[a] = Nil  BY <2>1, <2>6 DEF Base, Plain
    <3> QED  BY <2>2, <3>1
  <2> QED  BY <2>1, <2>4, <2>5, <2>6 DEF Kind, Holds
<1>6. Closure'  BY <1>1, <1>3, <1>5 DEF Closure
<1>7. Literal'
  <2> SUFFICES ASSUME interned' # Nil PROVE interned' \in m /\ kind'[interned'] = "string"
    BY <1>1, <1>3 DEF Literal
  <2>1. interned' = interned /\ interned \in m  BY <1>3
  <2>2. kind[interned] = "string"  BY <2>1 DEF Sound, Literal
  <2> QED  BY <1>1, <2>1, <2>2
<1>8. Black'  BY <1>1 DEF Black
<1> QED  BY <1>6, <1>7, <1>8 DEF Sound

\* A mark from the roots that then starts the sweep, with no drop owed.
LEMMA EndMarkFacts ==
  ASSUME Base, phase # "Sweeping", ~running, NEW n \in Nat \ {0}, NEW old \in SUBSET Live,
         unmarked_finalizable(Trace(Roots, old)) = {}, EndMark(Trace(Roots, old), n),
         deferred' \in BOOLEAN
  PROVE  /\ Base'
         /\ Sound /\ (\A a \in old : Holds(a) => ref[a] \in old \cup {Nil}) => Sound'
<1> DEFINE m == Trace(Roots, old)
<1>1. /\ m \in SUBSET Live /\ old \subseteq m /\ Roots \cap Live \subseteq m
      /\ \A a \in m \ old : Holds(a) /\ ref[a] \in Live => ref[a] \in m
  BY MarkFacts DEF Base
<1>2. \A a \in Live \ m : kind[a] = "drop" => bodies[a] > 0
  <2>1. \A a \in Addr \ m : ~(kind[a] = "drop" /\ bodies[a] = 0)  BY DEF unmarked_finalizable
  <2>2. \A a \in Addr : bodies[a] \in 0..1  BY DEF Base, TypeOK
  <2> QED  BY <2>1, <2>2 DEF Live
<1>3. SweepStarts(m, n) /\ mode' = "none" /\ queue' = {} /\ running' = running  BY DEF EndMark, SweepStarts
<1> HIDE DEF m
<1>4. Base'
  <2>1. mode' \in {"none", "round"} /\ (mode' = "round" => n = All) /\ running' = FALSE
    BY <1>3 DEF Base, TypeOK
  <2> QED  BY <1>1, <1>2, <1>3, <2>1, StartBase
<1>5. ASSUME Sound, \A a \in old : Holds(a) => ref[a] \in old \cup {Nil}
      PROVE  Sound'
  <2>1. Safe = Live  BY DEF Safe, Kept
  <2>2. Roots \subseteq Live /\ \A a \in Live : ref[a] \in Live \cup {Nil}  BY <1>5, <2>1 DEF Sound, Closure
  <2>3. Roots \subseteq m /\ \A a \in m : Holds(a) => ref[a] \in m \cup {Nil}  BY <1>1, <1>5, <2>2
  <2> QED  BY <1>1, <1>3, <1>5, <2>3, StartSound
<1> QED  BY <1>4, <1>5

\* A mark from the roots that finds drops owed and marks what they reach.
LEMMA MarkDropsFacts ==
  ASSUME Base, phase = "Idle", ~running, NEW old \in SUBSET Live, NEW q,
         q = unmarked_finalizable(Trace(Roots, old)), marked' = Trace(q, Trace(Roots, old)), queue' = q,
         UNCHANGED <<kind, ref, bodies, fresh, interned, cached, root, cursor, running>>,
         deferred' \in BOOLEAN,
         \/ mode' = "slice" /\ phase' = "Marking"
         \/ mode' = "collect" /\ phase' = "Idle"
  PROVE  /\ Base'
         /\ Sound /\ (\A a \in old : Holds(a) => ref[a] \in old \cup {Nil}) => Sound'
<1> DEFINE m == Trace(Roots, old)
           mq == Trace(q, m)
<1>1. /\ m \in SUBSET Live /\ old \subseteq m /\ Roots \cap Live \subseteq m
      /\ \A a \in m \ old : Holds(a) /\ ref[a] \in Live => ref[a] \in m
  BY MarkFacts DEF Base
<1>2. q \subseteq Live /\ \A a \in Live \ m : kind[a] = "drop" /\ bodies[a] = 0 => a \in q
  BY DEF unmarked_finalizable, Live
<1> HIDE DEF m
<1>3. /\ mq \in SUBSET Live /\ m \subseteq mq /\ q \cap Live \subseteq mq
      /\ \A a \in mq \ m : Holds(a) /\ ref[a] \in Live => ref[a] \in mq
  BY <1>1, MarkFacts DEF Base
<1>4. marked' = mq  BY DEF m
<1> HIDE DEF mq
<1>5. Live' = Live /\ Live \subseteq Addr /\ Safe = Live /\ Safe' = Live /\ Roots' = Roots /\ fresh = {}
  <2>1. phase' # "Sweeping"  OBVIOUS
  <2> QED  BY <2>1 DEF Live, Safe, Kept, Roots, Base, Tags
<1>6. Base'
  <2>1. TypeOK'  BY <1>2, <1>3, <1>4, <1>5 DEF Base, TypeOK
  <2>2. Control'  BY DEF Control
  <2>3. Tags'  BY <1>3, <1>4, <1>5 DEF Tags
  <2>4. Owed'
    <3>1. \A a \in Live \ mq : kind[a] = "drop" => bodies[a] > 0
      <4>1. \A a \in Live : bodies[a] \in 0..1  BY <1>5 DEF Base, TypeOK
      <4> QED  BY <1>2, <1>3, <4>1
    <3> QED  BY <1>4, <1>5, <3>1 DEF Owed
  <2>5. Plain'  BY DEF Base, Plain
  <2> QED  BY <2>1, <2>2, <2>3, <2>4, <2>5 DEF Base
<1>7. ASSUME Sound, \A a \in old : Holds(a) => ref[a] \in old \cup {Nil}
      PROVE  Sound'
  <2>1. Roots \subseteq Live /\ \A a \in Live : ref[a] \in Live \cup {Nil}  BY <1>5, <1>7 DEF Sound, Closure
  <2>2. Closure' /\ Literal'  BY <1>5, <1>7 DEF Sound, Closure, Literal
  <2>3. Roots \subseteq mq /\ q \subseteq mq  BY <1>1, <1>2, <1>3, <2>1
  <2>4. \A a \in mq : Holds(a) => ref[a] \in mq \cup {Nil}  BY <1>1, <1>3, <1>7, <2>1
  <2>5. Black'  BY <1>4, <1>5, <2>3, <2>4 DEF Black, Holds
  <2> QED  BY <2>2, <2>5 DEF Sound
<1> QED  BY <1>6, <1>7

LEMMA StartIncremental ==
  ASSUME Base, NEW n \in Nat \ {0}, gc_start_incremental(n)
  PROVE  Base' /\ (Sound => Sound')
<1>1. mode = "none" /\ phase = "Idle" /\ deferred' = deferred  BY DEF gc_start_incremental
<1>2. marked = {} /\ ~running /\ marked \in SUBSET Live /\ deferred' \in BOOLEAN
  BY <1>1 DEF Base, Tags, Control, TypeOK
<1>3. CASE unmarked_finalizable(Trace(Roots, marked)) = {} /\ EndMark(Trace(Roots, marked), n)
  BY <1>1, <1>2, <1>3, EndMarkFacts
<1>4. ASSUME NEW q, q = unmarked_finalizable(Trace(Roots, marked)), marked' = Trace(q, Trace(Roots, marked)),
             queue' = q, mode' = "slice", phase' = "Marking",
             UNCHANGED <<kind, ref, bodies, fresh, strs, root, cursor, running>>
      PROVE  Base' /\ (Sound => Sound')
  <2>1. UNCHANGED <<kind, ref, bodies, fresh, interned, cached, root, cursor, running>>  BY <1>4 DEF strs
  <2> QED  BY <1>1, <1>2, <1>4, <2>1, MarkDropsFacts
<1> QED  BY <1>3, <1>4 DEF gc_start_incremental

LEMMA MarkSliceEnd ==
  ASSUME Base, NEW n \in Nat \ {0}, gc_mark_slice_end(n)
  PROVE  Base' /\ (Sound => Sound')
<1>1. /\ mode = "slice" /\ ~running /\ queue = {} /\ EndMark(Trace(Roots, marked), n) /\ deferred' = deferred
  BY DEF gc_mark_slice_end
<1>2. phase = "Marking" /\ marked \in SUBSET Live /\ deferred' \in BOOLEAN
  BY <1>1 DEF Base, Tags, Control, TypeOK
<1>3. marked \subseteq Trace(Roots, marked)  BY <1>2, MarkFacts DEF Base
<1>4. unmarked_finalizable(Trace(Roots, marked)) = {}
  <2> SUFFICES ASSUME NEW a \in Addr \ Trace(Roots, marked), kind[a] = "drop", bodies[a] = 0 PROVE FALSE
    BY DEF unmarked_finalizable
  <2>1. a \in Live \ marked  BY <1>3 DEF Live
  <2>2. bodies[a] > 0  BY <1>2, <2>1 DEF Base, Owed
  <2> QED  BY <2>2
<1>5. Sound => \A a \in marked : Holds(a) => ref[a] \in marked \cup {Nil}  BY <1>2 DEF Sound, Black
<1> QED  BY <1>1, <1>2, <1>4, <1>5, EndMarkFacts

\* A slice of a sweep that runs already: what it keeps stays the same.
LEMMA SliceFacts ==
  ASSUME Base, phase = "Sweeping", NEW n \in Nat \ {0}, sweep_quantum(marked, cursor, n, {}),
         interned' = interned, cached' \in {Nil, cached}, root' = root,
         queue' = queue, running' = running, deferred' = deferred,
         mode' \in {"none", "round"}, mode' = "round" => n = All
  PROVE  /\ Base' /\ (Sound => Sound')
<1>1. TypeOK /\ fresh \subseteq Live /\ marked \in SUBSET Live /\ cursor \in 1..All /\ {} \in SUBSET Addr
      /\ \A a \in marked \cup fresh : a >= cursor
  BY DEF Base, Tags, TypeOK
<1>2. Swept(marked, cursor, n, {})  BY <1>1, SweepFacts
<1>3. KeptBy(marked, cursor) = Safe  BY DEF KeptBy, Safe, Kept
<1>4. /\ kind' \in [Addr -> Kind] /\ ref' \in [Addr -> Ref] /\ bodies' \in [Addr -> 0..1]
      /\ cursor' \in 1..All /\ phase' \in {"Idle", "Sweeping"}
      /\ Safe' = Safe /\ Live' \subseteq Live /\ marked' \subseteq Live' /\ fresh' \subseteq Live'
      /\ \A a \in Live' : kind'[a] = kind[a] /\ bodies'[a] = bodies[a] /\ ref'[a] = ref[a]
      /\ \A a \in Addr \ Live' : kind'[a] = "free"
      /\ phase' = "Idle" => Live' = Safe /\ marked' = {} /\ fresh' = {}
      /\ phase' = "Sweeping" => \A a \in marked' \cup fresh' : a >= cursor'
      /\ n = All => phase' = "Idle"
  BY <1>2, <1>3 DEF Swept
<1>5. mode \notin {"slice", "collect"} /\ queue = {} /\ ~running /\ Nil \in Ref /\ Live' \subseteq Addr
  BY DEF Base, Control, Ref, Live
<1>6. TypeOK'  BY <1>4, <1>5 DEF Base, TypeOK
<1>7. Control'  BY <1>4, <1>5 DEF Control
<1>8. Tags'  BY <1>4 DEF Tags
<1>9. Owed'  BY <1>4 DEF Base, Owed
<1>10. Plain'
  <2> SUFFICES ASSUME NEW a \in Addr, kind'[a] = "string" PROVE ref'[a] = Nil
    BY DEF Plain
  <2>1. a \in Live'  BY <1>4
  <2> QED  BY <1>4, <2>1 DEF Base, Plain
<1>11. Base'  BY <1>6, <1>7, <1>8, <1>9, <1>10 DEF Base
<1>12. ASSUME Sound PROVE Sound'
  <2>1. Safe \subseteq Live' /\ Roots' = Roots  BY <1>4 DEF Safe, Roots
  <2>2. Closure'  BY <1>4, <1>12, <2>1 DEF Sound, Closure
  <2>3. Literal'  BY <1>4, <1>12, <2>1 DEF Sound, Literal
  <2>4. Black'  BY <1>4 DEF Black
  <2> QED  BY <2>2, <2>3, <2>4 DEF Sound
<1> QED  BY <1>11, <1>12

LEMMA SweepSlice ==
  ASSUME Base, NEW n \in Nat \ {0}, gc_sweep_slice(n)
  PROVE  Base' /\ (Sound => Sound')
<1>1. /\ phase = "Sweeping" /\ sweep_quantum(marked, cursor, n, {}) /\ cached' \in {Nil, cached}
      /\ mode = "none" /\ UNCHANGED <<interned, root, mode, queue, running, deferred>>
  BY DEF gc_sweep_slice
<1> QED  BY <1>1, SliceFacts

LEMMA RunFinalizer ==
  ASSUME Base, run_finalizer
  PROVE  Base' /\ (Sound => Sound')
<1>1. /\ ~running /\ queue # {} /\ queue' \subseteq queue
      /\ UNCHANGED <<kind, ref, marked, fresh, interned, cached, phase, cursor, mode, deferred>>
  BY DEF run_finalizer, strs
<1>2. mode \in {"slice", "collect"}  BY <1>1 DEF Base, Control
<1>3. Live' = Live /\ Live \subseteq Addr /\ Safe' = Safe  BY <1>1 DEF Live, Safe, Kept
<1>4. ASSUME bodies' \in [Addr -> 0..1], \A a \in Addr : bodies[a] > 0 => bodies'[a] > 0,
             root' \in [Register -> Ref], running' \in BOOLEAN
      PROVE  Base'
  <2>1. TypeOK'  BY <1>1, <1>4 DEF Base, TypeOK
  <2>2. Control'  BY <1>1, <1>2 DEF Base, Control
  <2>3. Tags' /\ Plain'  BY <1>1, <1>3 DEF Base, Tags, Plain
  <2>4. Owed'  BY <1>1, <1>3, <1>4 DEF Base, Owed
  <2> QED  BY <2>1, <2>2, <2>3, <2>4 DEF Base
<1>5. PICK a \in queue :
        \/ /\ claim_finalizer(a)
           /\ bodies' = [bodies EXCEPT ![a] = @ + 1]
           /\ root' = [root EXCEPT !["self"] = a]
           /\ running' = TRUE
        \/ UNCHANGED <<bodies, root, running>>
  BY DEF run_finalizer
<1>6. CASE UNCHANGED <<bodies, root, running>>
  <2>1. Base'  BY <1>4, <1>6 DEF Base, TypeOK
  <2>2. Sound => Sound'  BY <1>1, <1>6, SoundFrame
  <2> QED  BY <2>1, <2>2
<1>7. CASE /\ claim_finalizer(a)
           /\ bodies' = [bodies EXCEPT ![a] = @ + 1]
           /\ root' = [root EXCEPT !["self"] = a]
           /\ running' = TRUE
  <2>1. a \in Addr /\ bodies[a] = 0 /\ kind[a] = "drop"  BY <1>7 DEF claim_finalizer, Base, TypeOK
  <2>2. a \in Live /\ "self" \in Register /\ a \in Ref  BY <2>1 DEF Live, Register, Ref
  <2>3. bodies' \in [Addr -> 0..1] /\ \A b \in Addr : bodies[b] > 0 => bodies'[b] > 0
    BY <1>7, <2>1 DEF Base, TypeOK
  <2>4. root' \in [Register -> Ref] /\ Roots' \subseteq Roots \cup ({a} \ {Nil})
    BY <1>7, <2>2, RootPut DEF Base
  <2>5. Base'  BY <1>4, <1>7, <2>3, <2>4
  <2>6. ASSUME Sound PROVE Sound'
    <3>1. Safe = Live  BY <1>2 DEF Safe, Kept, Base, Control
    <3>2. Closure'  BY <1>1, <1>3, <2>2, <2>4, <2>6, <3>1 DEF Sound, Closure
    <3>3. Literal'  BY <1>1, <1>3, <2>6 DEF Sound, Literal
    <3>4. Black'  BY <1>1, <1>5, <2>4, <2>6 DEF Sound, Black, Holds
    <3> QED  BY <3>2, <3>3, <3>4 DEF Sound
  <2> QED  BY <2>5, <2>6
<1> QED  BY <1>5, <1>6, <1>7

LEMMA DropReturns ==
  ASSUME Base, drop_returns
  PROVE  Base' /\ (Sound => Sound')
<1>1. /\ running' = FALSE /\ root' = [root EXCEPT !["self"] = Nil]
      /\ UNCHANGED <<kind, ref, bodies, marked, fresh, interned, cached, phase, cursor, mode, queue, deferred>>
  BY DEF drop_returns, heapvars, strs
<1>2. Live' = Live /\ Safe' = Safe  BY <1>1 DEF Live, Safe, Kept
<1>3. root' \in [Register -> Ref] /\ Roots' \subseteq Roots
  <2>1. "self" \in Register /\ Nil \in Ref  BY DEF Register, Ref
  <2>2. root' \in [Register -> Ref] /\ Roots' \subseteq Roots \cup ({Nil} \ {Nil})
    BY <1>1, <2>1, RootPut DEF Base
  <2> QED  BY <2>2
<1>4. Base'
  <2>1. TypeOK'  BY <1>1, <1>3 DEF Base, TypeOK
  <2>2. Control' /\ Plain'  BY <1>1 DEF Base, Control, Plain
  <2>3. Tags' /\ Owed'  BY <1>1, <1>2 DEF Base, Tags, Owed
  <2> QED  BY <2>1, <2>2, <2>3 DEF Base
<1>5. ASSUME Sound PROVE Sound'
  <2>1. Closure' /\ Literal'  BY <1>1, <1>2, <1>3, <1>5 DEF Sound, Closure, Literal
  <2>2. Black'  BY <1>1, <1>3, <1>5 DEF Sound, Black, Holds
  <2> QED  BY <2>1, <2>2 DEF Sound
<1> QED  BY <1>4, <1>5

LEMMA Collect ==
  ASSUME Base, gc_collect
  PROVE  Base' /\ (Sound => Sound')
<1>0. All \in Nat \ {0}  BY GcCycleAssumption DEF All
<1>1. CASE running
  <2>1. /\ deferred' = TRUE
        /\ UNCHANGED <<kind, ref, bodies, marked, fresh, interned, cached, root, phase, cursor, mode, queue, running>>
    BY <1>1 DEF gc_collect, heapvars, strs
  <2>2. Live' = Live /\ Safe' = Safe  BY <2>1 DEF Live, Safe, Kept
  <2>3. Base'  BY <2>1, <2>2 DEF Base, TypeOK, Control, Tags, Owed, Plain
  <2>4. Sound => Sound'  BY <2>1, SoundFrame
  <2> QED  BY <2>3, <2>4
<1>2. CASE ~running
  <2>1. /\ mode = "none" /\ mode' = "round" /\ UNCHANGED <<interned, cached, root, queue, running, deferred>>
        /\ \/ phase = "Sweeping" /\ sweep_quantum(marked, cursor, All, {})
           \/ phase = "Idle" /\ UNCHANGED <<kind, ref, bodies, marked, fresh, phase, cursor>>
    BY <1>2 DEF gc_collect, heapvars, strs, Does
  <2>2. CASE phase = "Sweeping" /\ sweep_quantum(marked, cursor, All, {})
    BY <1>0, <2>1, <2>2, SliceFacts
  <2>3. CASE phase = "Idle" /\ UNCHANGED <<kind, ref, bodies, marked, fresh, phase, cursor>>
    <3>1. Live' = Live /\ Safe' = Safe  BY <2>3 DEF Live, Safe, Kept
    <3>2. queue = {}  BY <2>1 DEF Base, Control
    <3>3. TypeOK' /\ Control'  BY <1>2, <2>1, <2>3, <3>2 DEF Base, TypeOK, Control
    <3>4. Tags' /\ Owed' /\ Plain'  BY <2>1, <2>3, <3>1 DEF Base, Tags, Owed, Plain
    <3>5. Sound => Sound'  BY <2>1, <2>3, SoundFrame
    <3> QED  BY <3>3, <3>4, <3>5 DEF Base
  <2> QED  BY <2>1, <2>2, <2>3
<1> QED  BY <1>1, <1>2

LEMMA CollectRound ==
  ASSUME Base, gc_collect_round
  PROVE  Base' /\ (Sound => Sound')
<1>0. All \in Nat \ {0}  BY GcCycleAssumption DEF All
<1>1. mode = "round" /\ deferred' = FALSE  BY DEF gc_collect_round
<1>2. phase = "Idle" /\ marked = {} /\ ~running /\ marked \in SUBSET Live /\ deferred' \in BOOLEAN
  BY <1>1 DEF Base, Tags, Control
<1>3. CASE unmarked_finalizable(Trace(Roots, marked)) = {} /\ EndMark(Trace(Roots, marked), All)
  BY <1>0, <1>2, <1>3, EndMarkFacts
<1>4. ASSUME NEW q, q = unmarked_finalizable(Trace(Roots, marked)), marked' = Trace(q, Trace(Roots, marked)),
             queue' = q, mode' = "collect",
             UNCHANGED <<kind, ref, bodies, fresh, strs, root, phase, cursor, running>>
      PROVE  Base' /\ (Sound => Sound')
  <2>1. UNCHANGED <<kind, ref, bodies, fresh, interned, cached, root, phase, cursor, running>>  BY <1>4 DEF strs
  <2> QED  BY <1>2, <1>4, <2>1, MarkDropsFacts
<1> QED  BY <1>3, <1>4 DEF gc_collect_round

LEMMA CollectEnd ==
  ASSUME Base, gc_collect_end
  PROVE  Base' /\ (Sound => Sound')
<1>0. All \in Nat \ {0}  BY GcCycleAssumption DEF All
<1>1. /\ mode = "collect" /\ ~running /\ queue = {} /\ SweepStarts(Remark, All)
      /\ mode' \in {"none", "round"} /\ UNCHANGED <<queue, running, deferred>>
  BY DEF gc_collect_end, SweepStarts
<1>2. phase = "Idle" /\ queue' = {} /\ running' = FALSE /\ deferred' \in BOOLEAN
  BY <1>1 DEF Base, Control, TypeOK
<1>3. /\ Remark \in SUBSET Live /\ Roots \cap Live \subseteq Remark
      /\ \A a \in Remark : Holds(a) /\ ref[a] \in Live => ref[a] \in Remark
  BY MarkFacts DEF Base, Remark
<1>4. Base'  BY <1>0, <1>1, <1>2, <1>3, StartBase
<1>5. ASSUME Sound PROVE Sound'
  <2>1. Safe = Live  BY <1>2 DEF Safe, Kept
  <2>2. Roots \subseteq Live /\ \A a \in Live : ref[a] \in Live \cup {Nil}  BY <1>5, <2>1 DEF Sound, Closure
  <2>3. Roots \subseteq Remark /\ \A a \in Remark : Holds(a) => ref[a] \in Remark \cup {Nil}
    BY <1>3, <2>2
  <2> QED  BY <1>0, <1>1, <1>2, <1>3, <1>5, <2>3, StartSound
<1> QED  BY <1>4, <1>5

-----------------------------------------------------------------------------
(***************************************************************************)
(* The invariants, and what a step may do to the heap.                     *)
(***************************************************************************)
LEMMA NextBase ==
  ASSUME Base, [Next]_vars
  PROVE  Base' /\ (NoLiteralInDrops /\ Sound => Sound')
<1>1. CASE Mutator  BY <1>1, MutatorBase, MutatorSound
<1>2. ASSUME NEW n \in Quanta, gc_start_incremental(n) \/ gc_mark_slice_end(n) \/ gc_sweep_slice(n)
      PROVE  Base' /\ (Sound => Sound')
  <2>1. n \in Nat \ {0}  BY GcCycleAssumption
  <2> QED  BY <1>2, <2>1, StartIncremental, MarkSliceEnd, SweepSlice
<1>3. CASE run_finalizer \/ drop_returns  BY <1>3, RunFinalizer, DropReturns
<1>4. CASE gc_collect \/ gc_collect_round \/ gc_collect_end
  BY <1>4, Collect, CollectRound, CollectEnd
<1>5. CASE UNCHANGED vars
  <2>1. UNCHANGED <<kind, ref, bodies, marked, fresh, interned, cached, root, phase, cursor, mode, queue,
                    running, deferred>>
    BY <1>5 DEF vars, heapvars, strs, cycle
  <2>2. Live' = Live /\ Safe' = Safe  BY <2>1 DEF Live, Safe, Kept
  <2>3. Base'  BY <2>1, <2>2 DEF Base, TypeOK, Control, Tags, Owed, Plain
  <2>4. Sound => Sound'  BY <2>1, SoundFrame
  <2> QED  BY <2>3, <2>4
<1> QED  BY <1>1, <1>2, <1>3, <1>4, <1>5 DEF Next

LEMMA InitBase ==
  ASSUME Init
  PROVE  Base /\ Sound
<1>1. Live = {} /\ Safe = {} /\ Roots = {}  BY DEF Init, Live, Safe, Roots
<1>2. TypeOK
  <2>1. 1 \in 1..All  BY GcCycleAssumption DEF All
  <2>2. 0 \in 0..1 /\ "free" \in Kind /\ Nil \in Ref  BY DEF Kind, Ref
  <2>3. /\ kind \in [Addr -> Kind] /\ ref \in [Addr -> Ref] /\ bodies \in [Addr -> 0..1]
        /\ root \in [Register -> Ref]
    BY <2>2 DEF Init
  <2> QED  BY <2>1, <2>2, <2>3 DEF Init, TypeOK
<1>3. Control /\ Tags /\ Owed /\ Plain  BY <1>1 DEF Init, Control, Tags, Owed, Plain
<1>4. Sound  BY <1>1 DEF Init, Sound, Closure, Literal, Black
<1> QED  BY <1>2, <1>3, <1>4 DEF Base

\* The collector's own state is sound whatever the program and its drop
\* bodies do: phase and mode agree, only a cycle leaves marks, tags or fresh
\* objects, and a drop object that a cycle is to free has run its drop.
THEOREM BaseInvariant == Spec => []Base
<1>1. Init => Base  BY InitBase
<1>2. Base /\ [Next]_vars => Base'  BY NextBase
<1> QED  BY <1>1, <1>2, PTL DEF Spec

\* When no drop body pushes a string literal, what the program can name stays
\* marked or ahead of the sweep: the sweep meets nothing it may not free.
THEOREM SoundInvariant ==
  ASSUME NoLiteralInDrops
  PROVE  Spec => [](Base /\ Sound)
<1>1. Init => Base /\ Sound  BY InitBase
<1>2. Base /\ Sound /\ [Next]_vars => (Base /\ Sound)'  BY NextBase
<1> QED  BY <1>1, <1>2, PTL DEF Spec

\* Three kinds of steps: no object goes and no weak changes; a slice of the
\* running sweep; the end of a mark.
Leaves ==
  /\ \A a \in Live : kind'[a] = kind[a] /\ (kind[a] = "weak" => ref'[a] = ref[a])
  /\ mode' = mode \/ mode' # "none"
Slices ==
  /\ phase = "Sweeping" /\ Safe \subseteq Live'
  /\ \A a \in Live' : kind'[a] = kind[a] /\ ref'[a] = ref[a]
  /\ mode' = mode \/ mode' # "none"
Ends(m, n) ==
  /\ phase # "Sweeping" /\ SweepStarts(m, n)
  /\ mode = "collect" \/ \A a \in Live \ m : kind[a] = "drop" => bodies[a] > 0
  /\ mode \in {"round", "collect"} => m = Reachable /\ n = All

LEMMA AllocLeaves ==
  ASSUME Base, NEW a \in Addr, NEW k, NEW f, alloc_unlocked_in(a, k, f), UNCHANGED cycle
  PROVE  Leaves
<1>1. kind[a] = "free" /\ kind' = [kind EXCEPT ![a] = k] /\ ref' = [ref EXCEPT ![a] = f]
  BY DEF alloc_unlocked_in, AllocAs
<1>2. kind \in [Addr -> Kind] /\ ref \in [Addr -> Ref] /\ mode' = mode  BY DEF Base, TypeOK, cycle
<1> QED  BY <1>1, <1>2 DEF Leaves, Live

LEMMA MutatorLeaves ==
  ASSUME Base, Mutator
  PROVE  Leaves
<1>0. kind \in [Addr -> Kind] /\ ref \in [Addr -> Ref]  BY DEF Base, TypeOK
<1>1. ASSUME UNCHANGED <<kind, ref, cycle>> PROVE Leaves  BY <1>1 DEF Leaves, cycle
<1>2. ASSUME NEW r \in Mine, NEW s \in Mine, host_gc_weak(r, s) \/ host_gc_upgrade(r, s) \/ Load(r, s)
      PROVE  Leaves
  BY <1>1, <1>2, AllocLeaves DEF host_gc_weak, host_gc_upgrade, Load, heapvars
<1>3. ASSUME NEW r \in Mine, NEW s \in Mine, Store(r, s)
      PROVE  Leaves
  <2>1. /\ root[r] \in Live /\ kind[root[r]] # "weak" /\ ref' = [ref EXCEPT ![root[r]] = root[s]]
        /\ kind' = kind /\ mode' = mode
    BY <1>3 DEF Store, Holds, cycle
  <2> QED  BY <1>0, <2>1 DEF Leaves, Live
<1>4. ASSUME NEW r \in Mine, NewObject(r)
      PROVE  Leaves
  BY <1>4, AllocLeaves DEF NewObject
<1>5. ASSUME NEW r \in Mine, Clear(r) \/ push_program_string(r) \/ call_drop(r)
      PROVE  Leaves
  BY <1>1, <1>5, AllocLeaves DEF Clear, push_program_string, call_drop, heapvars
<1> QED  BY <1>2, <1>3, <1>4, <1>5 DEF Mutator

LEMMA SliceIs ==
  ASSUME Base, phase = "Sweeping", NEW n \in Nat \ {0}, sweep_quantum(marked, cursor, n, {}),
         mode' = mode \/ mode' # "none"
  PROVE  Slices
<1>1. TypeOK /\ fresh \subseteq Live /\ marked \in SUBSET Live /\ cursor \in 1..All /\ {} \in SUBSET Addr
      /\ \A a \in marked \cup fresh : a >= cursor
  BY DEF Base, Tags, TypeOK
<1>2. Swept(marked, cursor, n, {})  BY <1>1, SweepFacts
<1>3. KeptBy(marked, cursor) = Safe  BY DEF KeptBy, Safe, Kept
<1>4. Safe' \subseteq Live'  BY DEF Safe
<1> QED  BY <1>2, <1>3, <1>4 DEF Swept, Slices

LEMMA EndIs ==
  ASSUME Base, phase # "Sweeping", NEW n \in Nat \ {0},
         EndMark(Trace(Roots, marked), n), unmarked_finalizable(Trace(Roots, marked)) = {},
         mode = "round" => n = All, mode # "collect"
  PROVE  \E m \in SUBSET Live, k \in Nat \ {0} : Ends(m, k)
<1> DEFINE m == Trace(Roots, marked)
<1>1. m \in SUBSET Live  BY MarkFacts DEF Base, Tags
<1>2. SweepStarts(m, n)  BY DEF EndMark, SweepStarts
<1>3. \A a \in Live \ m : kind[a] = "drop" => bodies[a] > 0
  <2>1. \A a \in Addr \ m : ~(kind[a] = "drop" /\ bodies[a] = 0)  BY DEF unmarked_finalizable
  <2>2. \A a \in Addr : bodies[a] \in 0..1  BY DEF Base, TypeOK
  <2> QED  BY <2>1, <2>2 DEF Live
<1>4. mode = "round" => m = Reachable  BY DEF Base, Control, Tags, Reachable
<1> HIDE DEF m
<1>5. Ends(m, n)  BY <1>2, <1>3, <1>4 DEF Ends
<1> QED  BY <1>1, <1>5

LEMMA StepShape ==
  ASSUME Base, [Next]_vars
  PROVE  Leaves \/ Slices \/ \E m \in SUBSET Live, n \in Nat \ {0} : Ends(m, n)
<1> USE DEF heapvars, strs
<1>0. All \in Nat \ {0}  BY GcCycleAssumption DEF All
<1>1. CASE Mutator  BY <1>1, MutatorLeaves
<1>2. ASSUME NEW n \in Quanta, gc_start_incremental(n) PROVE Leaves \/ \E m \in SUBSET Live, k \in Nat \ {0} : Ends(m, k)
  <2>1. n \in Nat \ {0} /\ mode = "none" /\ phase = "Idle"  BY <1>2, GcCycleAssumption DEF gc_start_incremental
  <2>2. CASE mode' = "slice" /\ UNCHANGED <<kind, ref>>  BY <2>2 DEF Leaves
  <2>3. CASE unmarked_finalizable(Trace(Roots, marked)) = {} /\ EndMark(Trace(Roots, marked), n)
    BY <2>1, <2>3, EndIs
  <2> QED  BY <1>2, <2>2, <2>3 DEF gc_start_incremental
<1>3. ASSUME NEW n \in Quanta, gc_mark_slice_end(n) PROVE \E m \in SUBSET Live, k \in Nat \ {0} : Ends(m, k)
  <2>1. /\ n \in Nat \ {0} /\ mode = "slice" /\ EndMark(Trace(Roots, marked), n)
    BY <1>3, GcCycleAssumption DEF gc_mark_slice_end
  <2>2. phase = "Marking" /\ marked \in SUBSET Live  BY <2>1 DEF Base, Tags, Control
  <2>3. marked \subseteq Trace(Roots, marked)  BY <2>2, MarkFacts DEF Base
  <2>4. unmarked_finalizable(Trace(Roots, marked)) = {}
    <3> SUFFICES ASSUME NEW a \in Addr \ Trace(Roots, marked), kind[a] = "drop", bodies[a] = 0 PROVE FALSE
      BY DEF unmarked_finalizable
    <3>1. a \in Live \ marked  BY <2>3 DEF Live
    <3>2. bodies[a] > 0  BY <2>2, <3>1 DEF Base, Owed
    <3> QED  BY <3>2
  <2> QED  BY <2>1, <2>2, <2>4, EndIs
<1>4. ASSUME NEW n \in Quanta, gc_sweep_slice(n) PROVE Slices
  <2>1. n \in Nat \ {0}  BY GcCycleAssumption
  <2> QED  BY <1>4, <2>1, SliceIs DEF gc_sweep_slice
<1>5. CASE run_finalizer \/ drop_returns  BY <1>5 DEF run_finalizer, drop_returns, Leaves
<1>6. CASE gc_collect
  <2>1. CASE running  BY <1>6, <2>1 DEF gc_collect, Leaves
  <2>2. CASE ~running /\ phase = "Idle"  BY <1>6, <2>2 DEF gc_collect, Leaves
  <2>3. CASE ~running /\ phase # "Idle"
    <3>1. phase = "Sweeping" /\ sweep_quantum(marked, cursor, All, {}) /\ mode' = "round"
      BY <1>6, <2>3 DEF gc_collect
    <3> QED  BY <1>0, <3>1, SliceIs
  <2> QED  BY <2>1, <2>2, <2>3
<1>7. CASE gc_collect_round
  <2>1. mode = "round" /\ phase = "Idle"  BY <1>7 DEF gc_collect_round, Base, Control
  <2>2. CASE mode' = "collect" /\ UNCHANGED <<kind, ref>>  BY <2>2 DEF Leaves
  <2>3. CASE unmarked_finalizable(Trace(Roots, marked)) = {} /\ EndMark(Trace(Roots, marked), All)
    BY <1>0, <2>1, <2>3, EndIs
  <2> QED  BY <1>7, <2>2, <2>3 DEF gc_collect_round
<1>8. CASE gc_collect_end
  <2>1. mode = "collect" /\ phase = "Idle"  BY <1>8 DEF gc_collect_end, Base, Control
  <2>2. Remark \in SUBSET Live  BY MarkFacts DEF Base, Remark
  <2>3. Remark = Reachable  BY DEF Remark, Reachable
  <2>4. SweepStarts(Remark, All)  BY <1>8 DEF gc_collect_end, SweepStarts
  <2>5. Ends(Remark, All)  BY <2>1, <2>3, <2>4 DEF Ends
  <2> QED  BY <1>0, <2>2, <2>5
<1>9. CASE UNCHANGED vars  BY <1>9 DEF vars, cycle, Leaves
<1> QED  BY <1>1, <1>2, <1>3, <1>4, <1>5, <1>6, <1>7, <1>8, <1>9 DEF Next

-----------------------------------------------------------------------------
(***************************************************************************)
(* Reachability before and after a collection.                             *)
(***************************************************************************)
\* A set with the roots that refers only to itself holds all that is reached.
LEMMA ReachedWithin ==
  ASSUME NEW live \in SUBSET Addr, NEW holds, NEW rf, NEW seeds, NEW S \in SUBSET live,
         seeds \subseteq S, \A a \in S : rf[a] \in S \cup {Nil}
  PROVE  TraceOf(live, holds, rf, seeds, {}) \subseteq S
<1>1. Nil \notin live  BY DEF Addr, Nil
<1>2. S \in SUBSET Addr /\ {} \in SUBSET Addr  OBVIOUS
<1>3. Covers(live, holds, rf, seeds, {}, S)  BY <1>1 DEF Covers
<1> QED  BY <1>2, <1>3, TraceFacts

\* A heap cut down to what was reached, with its fields, is all reached.
LEMMA Retrace ==
  ASSUME NEW live \in SUBSET Addr, NEW holds, NEW rf, NEW seeds, NEW T,
         T = TraceOf(live, holds, rf, seeds, {}), T \subseteq live,
         NEW holds2, NEW rf2,
         \A a \in T : (a \in holds2 <=> a \in holds) /\ (a \in holds => rf2[a] = rf[a])
  PROVE  TraceOf(T, holds2, rf2, seeds, {}) = T
<1>1. T \in SUBSET Addr /\ {} \in SUBSET Addr  OBVIOUS
<1>2. /\ seeds \cap live \subseteq T
      /\ \A a \in T : a \in holds /\ rf[a] \in live => rf[a] \in T
      /\ \A M \in SUBSET Addr : Covers(live, holds, rf, seeds, {}, M) => T \subseteq M
  BY <1>1, TraceFacts
<1> DEFINE U == TraceOf(T, holds2, rf2, seeds, {})
<1>3. /\ U \in SUBSET Addr /\ seeds \cap T \subseteq U
      /\ \A a \in U : a \in holds2 /\ rf2[a] \in T => rf2[a] \in U
      /\ \A M \in SUBSET Addr : Covers(T, holds2, rf2, seeds, {}, M) => U \subseteq M
  BY <1>1, TraceFacts
<1> HIDE DEF U
<1>4. U \subseteq T
  <2>1. Covers(T, holds2, rf2, seeds, {}, T)  BY DEF Covers
  <2> QED  BY <1>1, <1>3, <2>1
<1>5. T \subseteq U
  <2>1. Covers(live, holds, rf, seeds, {}, U)
    <3>1. seeds \cap live \subseteq U  BY <1>2, <1>3
    <3>2. \A a \in U : a \in holds /\ rf[a] \in live => rf[a] \in U  BY <1>2, <1>3, <1>4
    <3> QED  BY <3>1, <3>2 DEF Covers
  <2> QED  BY <1>2, <1>3, <2>1
<1> QED  BY <1>4, <1>5 DEF U

LEMMA ReachableNext == Reachable' = TraceOf(Live', HoldSet', ref', Roots', {})
<1>1. \A M \in SUBSET Addr :
        (/\ {} \subseteq M /\ Roots' \cap Live' \subseteq M
         /\ \A a \in M \ {} : Holds(a)' /\ ref'[a] \in Live' => ref'[a] \in M)
        <=> Covers(Live', HoldSet', ref', Roots', {}, M)
  BY DEF Covers, HoldSet
<1> QED  BY <1>1 DEF Reachable, Trace, TraceOf

-----------------------------------------------------------------------------
(***************************************************************************)
(* Between two cycles no header is marked or tagged fresh, so that the     *)
(* next mark (gc_start_incremental, gc::collect) scans every object it     *)
(* reaches: whatever was allocated, dropped or collected before, and       *)
(* wherever the sweep was cut into slices.                                 *)
(***************************************************************************)
THEOREM IdleCleanTheorem == Spec => []IdleClean
<1>1. Base => IdleClean  BY DEF Base, Tags, IdleClean
<1> QED  BY <1>1, BaseInvariant, PTL

(***************************************************************************)
(* The cycle of the safepoints frees no object whose drop has not run: it  *)
(* runs the drops it owes before it sweeps (gc_mark_slice), and what a     *)
(* drop body allocates meanwhile is born black.                            *)
(***************************************************************************)
THEOREM CycleDropsFirstTheorem == Spec => CycleDropsFirst
<1>1. ASSUME Base, [Next]_vars
      PROVE  FreesOwing => mode = "collect"
  <2> SUFFICES ASSUME NEW a \in Addr, kind[a] = "drop", kind'[a] = "free", bodies[a] = 0
               PROVE  mode = "collect"
    BY DEF FreesOwing
  <2>1. a \in Live /\ a \notin Live'  BY DEF Live
  <2>2. CASE Leaves  BY <2>1, <2>2 DEF Leaves
  <2>3. CASE Slices
    <3>1. a \in Live \ Safe  BY <2>1, <2>3 DEF Slices
    <3>2. bodies[a] > 0  BY <1>1, <2>3, <3>1 DEF Slices, Base, Owed
    <3> QED  BY <3>2
  <2>4. ASSUME NEW m \in SUBSET Live, NEW n \in Nat \ {0}, Ends(m, n)
        PROVE  mode = "collect"
    <3>1. m \subseteq Live'  BY <1>1, <2>4, StartFacts DEF Ends
    <3>2. ~(bodies[a] > 0)  OBVIOUS
    <3> QED  BY <2>1, <2>4, <3>1, <3>2 DEF Ends
  <2> QED  BY <1>1, <2>2, <2>3, <2>4, StepShape
<1>2. Base /\ [Next]_vars => [FreesOwing => mode = "collect"]_vars  BY <1>1
<1> QED  BY <1>2, BaseInvariant, PTL DEF Spec, CycleDropsFirst

(***************************************************************************)
(* When gc::collect returns, exactly what is reachable is left: its last   *)
(* round starts from clean marks (gc_collect finishes the sweep in flight, *)
(* gc_collect_end unmarks and marks again) and sweeps the heap to the end. *)
(***************************************************************************)
THEOREM CollectReclaimsTheorem == Spec => CollectReclaims
<1>1. ASSUME Base, [Next]_vars, mode \in {"round", "collect"}, mode' = "none"
      PROVE  Live' = Reachable'
  <2>1. PICK m \in SUBSET Live, n \in Nat \ {0} : Ends(m, n)
    <3>1. ~Leaves /\ ~Slices  BY <1>1 DEF Leaves, Slices
    <3> QED  BY <1>1, <3>1, StepShape
  <2>2. m = Reachable /\ n = All /\ phase # "Sweeping" /\ SweepStarts(m, n)  BY <1>1, <2>1 DEF Ends
  <2> DEFINE W == clear_dead_weaks(m)
  <2>3. \A a \in W : kind[a] = "weak"  BY DEF clear_dead_weaks
  <2>4. /\ phase' = "Idle" /\ Live' = m
        /\ \A a \in Live' : kind'[a] = kind[a] /\ ref'[a] = IF a \in W THEN Nil ELSE ref[a]
    BY <1>1, <2>2, StartFacts
  <2> HIDE DEF W
  <2>5. m = TraceOf(Live, HoldSet, ref, Roots, {}) /\ Live \in SUBSET Addr  BY <2>2, ReachableIs DEF Live
  <2>6. \A a \in m : (a \in HoldSet' <=> a \in HoldSet) /\ (a \in HoldSet => ref'[a] = ref[a])
    BY <2>3, <2>4 DEF HoldSet, Holds, Live
  <2>7. Roots' = Roots  BY <2>2 DEF SweepStarts, Roots
  <2>8. TraceOf(m, HoldSet', ref', Roots, {}) = m  BY <2>5, <2>6, Retrace
  <2> QED  BY <2>4, <2>7, <2>8, ReachableNext
<1>2. Base /\ [Next]_vars =>
        [(mode \in {"round", "collect"} /\ mode' = "none") => Live' = Reachable']_vars
  BY <1>1
<1> QED  BY <1>2, BaseInvariant, PTL DEF Spec, CollectReclaims

(***************************************************************************)
(* Nothing the program can name is freed: neither what its frames, statics *)
(* and fields hold, nor the target of an uncleared weak, nor the interned  *)
(* literal, at any point of a cycle that is interleaved with the program   *)
(* and its drop bodies.  The hypothesis is what the violated run of        *)
(* NoDangling shows to be needed: no drop body uses a string literal.      *)
(***************************************************************************)
THEOREM NoDanglingTheorem ==
  ASSUME NoLiteralInDrops
  PROVE  Spec => []NoDangling
<1>1. ASSUME Base, Sound PROVE NoDangling
  <2>1. Live \in SUBSET Addr /\ Safe \in SUBSET Live  BY DEF Live, Safe
  <2>2. Roots \subseteq Safe /\ \A a \in Safe : ref[a] \in Safe \cup {Nil}  BY <1>1 DEF Sound, Closure
  <2>3. Reachable \subseteq Safe  BY <2>1, <2>2, ReachedWithin, ReachableIs
  <2> QED  BY <1>1, <2>1, <2>2, <2>3 DEF NoDangling, Sound, Literal
<1>2. Base /\ Sound => NoDangling  BY <1>1
<1> QED  BY <1>2, SoundInvariant, PTL

(***************************************************************************)
(* clear_dead_weaks clears a weak handle only when nothing reaches its     *)
(* target any more, drop bodies that ran since the mark included; under    *)
(* the same hypothesis.                                                    *)
(***************************************************************************)
THEOREM WeakKeptTheorem ==
  ASSUME NoLiteralInDrops
  PROVE  Spec => WeakKept
<1>1. ASSUME Base, Sound, [Next]_vars,
             NEW w \in Addr, kind[w] = "weak", kind'[w] = "weak", ref[w] # ref'[w]
      PROVE  ref[w] \notin Reachable'
  <2>1. w \in Live /\ w \in Live'  BY <1>1 DEF Live
  <2>2. PICK m \in SUBSET Live, n \in Nat \ {0} : Ends(m, n)
    <3>1. ~Leaves /\ ~Slices  BY <1>1, <2>1 DEF Leaves, Slices
    <3> QED  BY <1>1, <3>1, StepShape
  <2>3. phase # "Sweeping" /\ SweepStarts(m, n)  BY <2>2 DEF Ends
  <2>4. Safe' = m /\ ref'[w] = IF w \in clear_dead_weaks(m) THEN Nil ELSE ref[w]
    BY <1>1, <2>1, <2>3, StartFacts
  <2>5. ref[w] \notin m  BY <1>1, <2>4 DEF clear_dead_weaks
  <2>6. Sound'  BY <1>1, NextBase
  <2>7. Live' \in SUBSET Addr /\ Safe' \in SUBSET Live'  BY DEF Live, Safe
  <2>8. Roots' \subseteq Safe' /\ \A a \in Safe' : ref'[a] \in Safe' \cup {Nil}  BY <2>6 DEF Sound, Closure
  <2>9. Reachable' \subseteq Safe'  BY <2>7, <2>8, ReachedWithin, ReachableNext
  <2> QED  BY <2>4, <2>5, <2>9
<1>2. Base /\ Sound /\ [Next]_vars =>
        [\A w \in Addr : kind[w] = "weak" /\ kind'[w] = "weak" /\ ref[w] # ref'[w]
           => ref[w] \notin Reachable']_vars
  BY <1>1
<1> QED  BY <1>2, SoundInvariant, PTL DEF Spec, WeakKept

=============================================================================
