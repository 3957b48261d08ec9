------------------------- MODULE ThreadSync_proofs --------------------------
(***************************************************************************)
(* Proofs about ThreadSync, for every number of tasks, OS threads, mutexes *)
(* and calls: a locked mutex has exactly one holder, and no wake between   *)
(* two threads is missed.                                                  *)
(***************************************************************************)
EXTENDS ThreadSync, FiniteSetTheorems, SequenceTheorems, TLAPS

Labels == {"enter", "parked", "wake", "post", "callback", "locked"}
FrameType ==
  [op : {"with_lock", "lock", "try_lock", "unlock"}, obj : Mutexes, at : Labels]
    \cup [op : {"recv", "try_recv", "send", "close"}, obj : {Channel}, at : Labels]

\* The variables' types.
Typed ==
  /\ locked \in SUBSET Mutexes /\ held \in [Hosts -> Mutexes \cup {None}]
  /\ queue \in Nat /\ closed \in BOOLEAN
  /\ nextKey \in Nat \ {0}
  /\ waiters \in [Objects -> SUBSET (1..nextKey)] /\ relay \in [Agents -> SUBSET (1..nextKey)]
  /\ frames \in [Agents -> Seq(FrameType)]
  /\ cur \in Tasks \cup {None} /\ parked \in BOOLEAN
  /\ key \in [Tasks -> 0..(nextKey - 1)]
  /\ again \in [Tasks -> Native \cup {None}]
  /\ calls \in Nat

\* Calls nest at most once, a task has frames only while it runs, and one that
\* is suspended has a native to run again.
Calls ==
  /\ \A a \in Agents : Len(frames[a]) <= 2
  /\ \A t \in Tasks : frames[t] # <<>> <=> cur = t
  /\ \A t \in Tasks : key[t] # 0 => again[t] \in Native
  /\ parked => cur # None

\* A locked mutex is in a slot or in a frame, a free one in none, and no two
\* slots, two frames, or a slot and a frame have the same.
Owned(m) == \/ \E h \in Hosts : held[h] = m
            \/ \E a \in Agents : \E i \in 1..2 : Inside(a, i, m)
OneSlot(m) == \A g, h \in Hosts : held[g] = m /\ held[h] = m => g = h
OneFrame(m) == \A a, b \in Agents : \A i, j \in 1..2 :
                 Inside(a, i, m) /\ Inside(b, j, m) => a = b /\ i = j
NotBoth(m) == \A h \in Hosts : \A a \in Agents : \A i \in 1..2 : ~(held[h] = m /\ Inside(a, i, m))
Owners == \A m \in Mutexes : /\ m \in locked <=> Owned(m)
                             /\ OneSlot(m) /\ OneFrame(m) /\ NotBoth(m)

\* Keys that are on a list or under way; the key of the next suspension is
\* among them once a native has parked.
Keys == UnderWay \cup UNION {waiters[o] : o \in Objects}
Listed ==
  /\ \A t \in Tasks : key[t] # 0 => key[t] \in Keys
  /\ parked => nextKey \in Keys
  /\ \A a \in Agents : relay[a] # {} => frames[a] # <<>> /\ Top(a).at = "post"

\* A list that has something to tell is about to be woken.
WakeDue ==
  \A o \in Objects : waiters[o] # {} /\ Available(o) =>
    \E a \in Agents : frames[a] # <<>> /\ Top(a).obj = o /\ Top(a).at = "wake"

\* The inductive invariant.
IInv == Typed /\ Calls /\ Owners /\ Listed /\ WakeDue

-----------------------------------------------------------------------------
(***************************************************************************)
(* Frames: the innermost one, and what a call, a move and a return do.     *)
(***************************************************************************)
LEMMA LastFront ==
  ASSUME NEW S, NEW s \in Seq(S), s # <<>>
  PROVE  /\ Len(s) \in Nat \ {0} /\ Last(s) \in S /\ Last(s) = s[Len(s)]
         /\ Front(s) \in Seq(S) /\ Len(Front(s)) = Len(s) - 1
         /\ \A i \in 1..(Len(s) - 1) : Front(s)[i] = s[i]
<1>1. Len(s) \in Nat \ {0}  BY EmptySeq
<1>2. \A i \in 1..Len(s) : s[i] \in S  BY ElementOfSeq
<1> DEFINE n == Len(s) - 1
<1>3. n \in Int /\ n \in Nat /\ \A i \in 1..n : s[i] \in S  BY <1>1, <1>2
<1> HIDE DEF n
<1>3a. /\ SubSeq(s, 1, n) \in Seq(S)
       /\ Len(SubSeq(s, 1, n)) = IF 1 <= n THEN n - 1 + 1 ELSE 0
       /\ \A i \in 1..(n - 1 + 1) : SubSeq(s, 1, n)[i] = s[1 + i - 1]
  BY <1>3, SubSeqProperties
<1>4. /\ SubSeq(s, 1, n) \in Seq(S) /\ Len(SubSeq(s, 1, n)) = n
      /\ \A i \in 1..n : SubSeq(s, 1, n)[i] = s[i]
  <2>1. \A i \in 1..n : i \in 1..(n - 1 + 1) /\ 1 + i - 1 = i  BY <1>3
  <2>2. Len(SubSeq(s, 1, n)) = n  BY <1>3, <1>3a
  <2> QED  BY <1>3a, <2>1, <2>2
<1>5. Len(s) \in 1..Len(s)  BY <1>1
<1> QED  BY <1>1, <1>2, <1>4, <1>5 DEF Last, Front, n

LEMMA TopFacts ==
  ASSUME Typed, Calls, NEW a \in Agents, frames[a] # <<>>
  PROVE  /\ Top(a) \in FrameType /\ Top(a) = frames[a][Len(frames[a])]
         /\ Len(frames[a]) \in 1..2 /\ DOMAIN frames[a] = 1..Len(frames[a])
<1>1. frames[a] \in Seq(FrameType)  BY DEF Typed
<1>2. Len(frames[a]) <= 2  BY DEF Calls
<1>3. Len(frames[a]) \in Nat \ {0} /\ DOMAIN frames[a] = 1..Len(frames[a])
  BY <1>1, LastFront, LenProperties
<1>4. Last(frames[a]) \in FrameType /\ Last(frames[a]) = frames[a][Len(frames[a])]
  BY <1>1, LastFront
<1>5. Len(frames[a]) \in 1..2
  <2> DEFINE n == Len(frames[a])
  <2>1. n \in Nat \ {0} /\ n <= 2  BY <1>2, <1>3
  <2> HIDE DEF n
  <2>2. n \in 1..2  BY <2>1
  <2> QED  BY <2>2 DEF n
<1>6. Top(a) \in FrameType /\ Top(a) = frames[a][Len(frames[a])]  BY <1>4 DEF Top
<1> QED  BY <1>3, <1>5, <1>6

LEMMA FrameOf ==
  ASSUME NEW f \in FrameType, NEW l \in Labels
  PROVE  Frame(f, l) \in FrameType /\ Frame(f, l).op = f.op /\ Frame(f, l).obj = f.obj /\ Frame(f, l).at = l
  BY DEF FrameType, Frame

\* The frame a native starts with
LEMMA FirstFrame ==
  ASSUME NEW n \in Native
  PROVE  Frame(n, "enter") \in FrameType /\ Frame(n, "enter").at = "enter"
  BY DEF FrameType, Frame, Native, Labels

\* Agent a goes on to l: only the label of its innermost frame changes.
LEMMA GotoFacts ==
  ASSUME Typed, Calls, NEW a \in Agents, frames[a] # <<>>, NEW l \in Labels, Goto(a, l)
  PROVE  /\ frames' \in [Agents -> Seq(FrameType)]
         /\ frames'[a] # <<>> /\ Len(frames'[a]) = Len(frames[a]) /\ DOMAIN frames'[a] = DOMAIN frames[a]
         /\ Top(a)'.op = Top(a).op /\ Top(a)'.obj = Top(a).obj /\ Top(a)'.at = l
         /\ frames'[a][Len(frames[a])] = Top(a)'
         /\ \A i \in DOMAIN frames[a] : i # Len(frames[a]) => frames'[a][i] = frames[a][i]
         /\ \A b \in Agents \ {a} : frames'[b] = frames[b]
<1> DEFINE s == frames[a]
           f == Frame(Last(s), l)
           new == Append(Front(s), f)
<1>1. s \in Seq(FrameType) /\ s # <<>>  BY DEF Typed
<1>2. /\ Len(s) \in Nat \ {0} /\ Last(s) \in FrameType /\ Last(s) = s[Len(s)]
      /\ Front(s) \in Seq(FrameType) /\ Len(Front(s)) = Len(s) - 1
      /\ \A i \in 1..(Len(s) - 1) : Front(s)[i] = s[i]
      /\ DOMAIN s = 1..Len(s)
  BY <1>1, LastFront, LenProperties
<1>3. f \in FrameType /\ f.op = Last(s).op /\ f.obj = Last(s).obj /\ f.at = l  BY <1>2, FrameOf
<1>4. frames' = [frames EXCEPT ![a] = new]  BY DEF Goto
<1> HIDE DEF f
<1>5. /\ new \in Seq(FrameType) /\ new # <<>> /\ Len(new) = Len(Front(s)) + 1
      /\ \A i \in 1..Len(Front(s)) : new[i] = Front(s)[i]
      /\ new[Len(Front(s)) + 1] = f
  BY <1>2, <1>3, AppendProperties
<1>6. Len(new) = Len(s) /\ new[Len(s)] = f  BY <1>2, <1>5
<1>7. \A i \in 1..(Len(s) - 1) : new[i] = s[i]  BY <1>2, <1>5
<1>8. DOMAIN new = 1..Len(s)  BY <1>5, <1>6, LenProperties
<1> HIDE DEF new
<1>9. frames' \in [Agents -> Seq(FrameType)] /\ frames'[a] = new
      /\ \A b \in Agents \ {a} : frames'[b] = frames[b]
  BY <1>4, <1>5 DEF Typed
<1>10. Top(a)' = f  BY <1>6, <1>9 DEF Top, Last
<1>11. \A i \in DOMAIN s : i # Len(s) => i \in 1..(Len(s) - 1)  BY <1>2
<1> QED  BY <1>2, <1>3, <1>5, <1>6, <1>7, <1>8, <1>9, <1>10, <1>11 DEF Top

\* Its innermost frame goes.
Popped(a) == frames' = [frames EXCEPT ![a] = Front(@)]

LEMMA PopFacts ==
  ASSUME Typed, Calls, NEW a \in Agents, frames[a] # <<>>, Popped(a)
  PROVE  /\ frames' \in [Agents -> Seq(FrameType)]
         /\ Len(frames'[a]) = Len(frames[a]) - 1 /\ DOMAIN frames'[a] = 1..(Len(frames[a]) - 1)
         /\ frames'[a] = <<>> <=> Len(frames[a]) = 1
         /\ \A i \in 1..(Len(frames[a]) - 1) : frames'[a][i] = frames[a][i]
         /\ \A b \in Agents \ {a} : frames'[b] = frames[b]
<1> DEFINE s == frames[a]
<1>1. s \in Seq(FrameType) /\ s # <<>>  BY DEF Typed
<1>2. /\ Len(s) \in Nat \ {0}
      /\ Front(s) \in Seq(FrameType) /\ Len(Front(s)) = Len(s) - 1
      /\ \A i \in 1..(Len(s) - 1) : Front(s)[i] = s[i]
  BY <1>1, LastFront
<1>3. DOMAIN Front(s) = 1..(Len(s) - 1)  BY <1>2, LenProperties
<1>4. Front(s) = <<>> <=> Len(s) = 1
  <2>1. Front(s) = <<>> => Len(Front(s)) = 0  BY EmptySeq
  <2>2. Front(s) # <<>> => Len(Front(s)) # 0  BY <1>2, EmptySeq
  <2> HIDE DEF s
  <2> QED  BY <1>2, <2>1, <2>2
<1>5. frames' \in [Agents -> Seq(FrameType)] /\ frames'[a] = Front(s)
      /\ \A b \in Agents \ {a} : frames'[b] = frames[b]
  BY <1>2 DEF Popped, Typed
<1> QED  BY <1>2, <1>3, <1>4, <1>5

\* A new frame comes.
Pushed(a, f) == frames' = [frames EXCEPT ![a] = Append(@, f)]

LEMMA PushFacts ==
  ASSUME Typed, Calls, NEW a \in Agents, NEW f \in FrameType, Pushed(a, f)
  PROVE  /\ frames' \in [Agents -> Seq(FrameType)]
         /\ Len(frames[a]) \in Nat /\ DOMAIN frames[a] = 1..Len(frames[a])
         /\ Len(frames'[a]) = Len(frames[a]) + 1 /\ DOMAIN frames'[a] = 1..(Len(frames[a]) + 1)
         /\ frames'[a] # <<>> /\ Top(a)' = f /\ frames'[a][Len(frames[a]) + 1] = f
         /\ \A i \in DOMAIN frames[a] : frames'[a][i] = frames[a][i]
         /\ \A b \in Agents \ {a} : frames'[b] = frames[b]
<1> DEFINE s == frames[a]
           new == Append(s, f)
<1>1. s \in Seq(FrameType) /\ Len(s) \in Nat /\ DOMAIN s = 1..Len(s)  BY LenProperties DEF Typed
<1>2. /\ new \in Seq(FrameType) /\ new # <<>> /\ Len(new) = Len(s) + 1
      /\ \A i \in 1..Len(s) : new[i] = s[i]
      /\ new[Len(s) + 1] = f
  BY <1>1, AppendProperties
<1>3. DOMAIN new = 1..(Len(s) + 1)  BY <1>2, LenProperties
<1>4. frames' = [frames EXCEPT ![a] = new]  BY DEF Pushed
<1> HIDE DEF new
<1>5. frames' \in [Agents -> Seq(FrameType)] /\ frames'[a] = new
      /\ \A b \in Agents \ {a} : frames'[b] = frames[b]
  BY <1>2, <1>4 DEF Typed
<1>6. Top(a)' = f  BY <1>2, <1>5 DEF Top, Last
<1> QED  BY <1>1, <1>2, <1>3, <1>5, <1>6

-----------------------------------------------------------------------------
(***************************************************************************)
(* Who answers for a mutex, after a move, a return and a call.             *)
(***************************************************************************)
TopIs(a, i) == i = Len(frames[a])

LEMMA GotoInside ==
  ASSUME Typed, Calls, NEW a \in Agents, frames[a] # <<>>, NEW l \in Labels, Goto(a, l)
  PROVE  \A b \in Agents : \A i \in 1..2 : \A m \in Mutexes :
           Inside(b, i, m)' <=> IF b = a /\ TopIs(a, i)
                                THEN Top(a).obj = m /\ l \in {"callback", "locked"}
                                ELSE Inside(b, i, m)
<1> SUFFICES ASSUME NEW b \in Agents, NEW i \in 1..2, NEW m \in Mutexes
           PROVE  Inside(b, i, m)' <=> IF b = a /\ TopIs(a, i)
                                      THEN Top(a).obj = m /\ l \in {"callback", "locked"}
                                      ELSE Inside(b, i, m)
  OBVIOUS
<1>2. CASE b # a  BY <1>2, GotoFacts DEF Inside
<1>3. CASE b = a /\ TopIs(a, i)
  <2>1. i \in DOMAIN frames'[a]  BY <1>3, TopFacts, GotoFacts DEF TopIs
  <2>2. frames'[a][i].obj = Top(a).obj /\ frames'[a][i].at = l  BY <1>3, GotoFacts DEF TopIs
  <2> QED  BY <1>3, <2>1, <2>2 DEF Inside
<1>4. CASE b = a /\ ~TopIs(a, i)
  <2>1. DOMAIN frames'[a] = DOMAIN frames[a]
        /\ (i \in DOMAIN frames[a] => frames'[a][i] = frames[a][i])
    BY <1>4, GotoFacts DEF TopIs
  <2> QED  BY <1>4, <2>1 DEF Inside
<1> QED  BY <1>2, <1>3, <1>4

LEMMA PopInside ==
  ASSUME Typed, Calls, NEW a \in Agents, frames[a] # <<>>, Popped(a)
  PROVE  \A b \in Agents : \A i \in 1..2 : \A m \in Mutexes :
           Inside(b, i, m)' <=> Inside(b, i, m) /\ ~(b = a /\ TopIs(a, i))
<1> SUFFICES ASSUME NEW b \in Agents, NEW i \in 1..2, NEW m \in Mutexes
           PROVE  Inside(b, i, m)' <=> Inside(b, i, m) /\ ~(b = a /\ TopIs(a, i))
  OBVIOUS
<1>2. CASE b # a  BY <1>2, PopFacts DEF Inside
<1>3. CASE b = a
  <2>1. /\ DOMAIN frames[a] = 1..Len(frames[a]) /\ Len(frames[a]) \in 1..2
        /\ DOMAIN frames'[a] = 1..(Len(frames[a]) - 1)
        /\ \A j \in 1..(Len(frames[a]) - 1) : frames'[a][j] = frames[a][j]
    BY TopFacts, PopFacts
  <2>2. i \in DOMAIN frames'[a] <=> i \in DOMAIN frames[a] /\ ~TopIs(a, i)  BY <2>1 DEF TopIs
  <2>3. i \in DOMAIN frames'[a] => frames'[a][i] = frames[a][i]  BY <2>1
  <2> QED  BY <1>3, <2>2, <2>3 DEF Inside
<1> QED  BY <1>2, <1>3

\* An innermost frame that answers for no mutex may go.
LEMMA PopOutside ==
  ASSUME Typed, Calls, NEW a \in Agents, frames[a] # <<>>, Popped(a), Top(a).at \notin {"callback", "locked"}
  PROVE  \A b \in Agents : \A i \in 1..2 : \A m \in Mutexes : Inside(b, i, m)' <=> Inside(b, i, m)
<1>1. \A i \in 1..2 : \A m \in Mutexes : TopIs(a, i) => ~Inside(a, i, m)
  BY TopFacts DEF TopIs, Inside
<1> QED  BY <1>1, PopInside

LEMMA PushInside ==
  ASSUME Typed, Calls, NEW a \in Agents, NEW f \in FrameType, f.at = "enter", Pushed(a, f)
  PROVE  \A b \in Agents : \A i \in 1..2 : \A m \in Mutexes : Inside(b, i, m)' <=> Inside(b, i, m)
<1> SUFFICES ASSUME NEW b \in Agents, NEW i \in 1..2, NEW m \in Mutexes
           PROVE  Inside(b, i, m)' <=> Inside(b, i, m)
  OBVIOUS
<1>2. CASE b # a  BY <1>2, PushFacts DEF Inside
<1>3. CASE b = a
  <2>1. /\ DOMAIN frames[a] = 1..Len(frames[a]) /\ Len(frames[a]) \in Nat
        /\ DOMAIN frames'[a] = 1..(Len(frames[a]) + 1)
        /\ frames'[a][Len(frames[a]) + 1] = f
        /\ \A j \in DOMAIN frames[a] : frames'[a][j] = frames[a][j]
    BY PushFacts
  <2>2. CASE i = Len(frames[a]) + 1
    <3>1. i \notin DOMAIN frames[a]  BY <2>1, <2>2
    <3>2. frames'[a][i].at = "enter"  BY <2>1, <2>2
    <3> QED  BY <1>3, <3>1, <3>2 DEF Inside
  <2>3. CASE i # Len(frames[a]) + 1
    <3>1. i \in DOMAIN frames'[a] <=> i \in DOMAIN frames[a]  BY <2>1, <2>3
    <3> QED  BY <1>3, <2>1, <3>1 DEF Inside
  <2> QED  BY <2>2, <2>3
<1> QED  BY <1>2, <1>3

\* Nothing changes hands.
LEMMA OwnersFrame ==
  ASSUME Owners, locked' = locked, held' = held,
         \A b \in Agents : \A i \in 1..2 : \A m \in Mutexes : Inside(b, i, m)' <=> Inside(b, i, m)
  PROVE  Owners'
  BY DEF Owners, Owned, OneSlot, OneFrame, NotBoth

\* Frame (a, n) takes the free mutex m.
LEMMA FrameTakes ==
  ASSUME Owners, NEW a \in Agents, NEW n \in 1..2, NEW m \in Mutexes, m \notin locked,
         locked' = locked \cup {m}, held' = held,
         \A x \in Mutexes : ~Inside(a, n, x),
         \A b \in Agents : \A i \in 1..2 : \A x \in Mutexes :
           Inside(b, i, x)' <=> IF b = a /\ i = n THEN x = m ELSE Inside(b, i, x)
  PROVE  Owners'
<1>1. ~Owned(m)  BY DEF Owners
<1>2. \A b \in Agents : \A i \in 1..2 : ~Inside(b, i, m)  BY <1>1 DEF Owned
<1>3. \A h \in Hosts : held[h] # m  BY <1>1 DEF Owned
<1>4. \A b \in Agents : \A i \in 1..2 : \A x \in Mutexes :
        Inside(b, i, x)' <=> Inside(b, i, x) \/ (b = a /\ i = n /\ x = m)
  OBVIOUS
<1>5. \A x \in Mutexes \ {m} : \A b \in Agents : \A i \in 1..2 : Inside(b, i, x)' <=> Inside(b, i, x)
  BY <1>4
<1>6. \A x \in Mutexes \ {m} : (x \in locked' <=> Owned(x)') /\ OneSlot(x)' /\ OneFrame(x)' /\ NotBoth(x)'
  BY <1>5 DEF Owners, Owned, OneSlot, OneFrame, NotBoth
<1>7. \A b \in Agents : \A i \in 1..2 : Inside(b, i, m)' <=> b = a /\ i = n  BY <1>2, <1>4
<1>8. m \in locked' /\ Owned(m)'  BY <1>7 DEF Owned
<1>9. OneSlot(m)' /\ OneFrame(m)' /\ NotBoth(m)'
  BY <1>3, <1>7 DEF OneSlot, OneFrame, NotBoth
<1> QED  BY <1>6, <1>8, <1>9 DEF Owners

\* Frame (a, n) gives m back, to be free or into the empty slot h.
LEMMA FrameGives ==
  ASSUME Owners, Typed, NEW a \in Agents, NEW n \in 1..2, NEW m \in Mutexes, Inside(a, n, m),
         \/ held' = held /\ locked' = locked \ {m}
         \/ \E h \in Hosts : held[h] = None /\ held' = [held EXCEPT ![h] = m] /\ locked' = locked,
         \A b \in Agents : \A i \in 1..2 : \A x \in Mutexes :
           Inside(b, i, x)' <=> Inside(b, i, x) /\ ~(b = a /\ i = n)
  PROVE  Owners'
<1>1. m \in locked /\ OneSlot(m) /\ OneFrame(m) /\ NotBoth(m)  BY DEF Owners, Owned
<1>2. \A h \in Hosts : held[h] # m  BY <1>1 DEF NotBoth
<1>3. \A b \in Agents : \A i \in 1..2 : ~Inside(b, i, m)'  BY <1>1 DEF OneFrame
<1>4. \A x \in Mutexes \ {m} : ~Inside(a, n, x)  BY DEF Inside
<1>5. \A x \in Mutexes \ {m} : \A b \in Agents : \A i \in 1..2 : Inside(b, i, x)' <=> Inside(b, i, x)
  BY <1>4
<1>6. \A x \in Mutexes \ {m} : \A h \in Hosts : held'[h] = x <=> held[h] = x
  <2>1. None \notin Mutexes  BY ThreadSyncAssumption
  <2> QED  BY <2>1 DEF Typed
<1>7. \A x \in Mutexes \ {m} : x \in locked' <=> x \in locked  OBVIOUS
<1>8. \A x \in Mutexes \ {m} : (x \in locked' <=> Owned(x)') /\ OneSlot(x)' /\ OneFrame(x)' /\ NotBoth(x)'
  BY <1>5, <1>6, <1>7 DEF Owners, Owned, OneSlot, OneFrame, NotBoth
<1>9. CASE held' = held /\ locked' = locked \ {m}
  <2>1. m \notin locked' /\ ~Owned(m)'  BY <1>2, <1>3, <1>9 DEF Owned
  <2>2. OneSlot(m)' /\ OneFrame(m)' /\ NotBoth(m)'
    BY <1>2, <1>3, <1>9 DEF OneSlot, OneFrame, NotBoth
  <2> QED  BY <1>8, <2>1, <2>2 DEF Owners
<1>10. ASSUME NEW h \in Hosts, held' = [held EXCEPT ![h] = m], locked' = locked PROVE Owners'
  <2>1. \A g \in Hosts : held'[g] = m <=> g = h  BY <1>2, <1>10 DEF Typed
  <2>2. m \in locked' /\ Owned(m)'  BY <1>1, <1>10, <2>1 DEF Owned
  <2>3. OneSlot(m)' /\ OneFrame(m)' /\ NotBoth(m)'
    BY <1>3, <2>1 DEF OneSlot, OneFrame, NotBoth
  <2> QED  BY <1>8, <2>2, <2>3 DEF Owners
<1> QED  BY <1>9, <1>10

\* The empty slot h takes the free mutex m, or gives m back.
LEMMA SlotChanges ==
  ASSUME Owners, Typed, NEW h \in Hosts, NEW m \in Mutexes,
         \/ /\ m \notin locked /\ held[h] = None
            /\ locked' = locked \cup {m} /\ held' = [held EXCEPT ![h] = m]
         \/ held[h] = m /\ locked' = locked \ {m} /\ held' = [held EXCEPT ![h] = None],
         \A b \in Agents : \A i \in 1..2 : \A x \in Mutexes : Inside(b, i, x)' <=> Inside(b, i, x)
  PROVE  Owners'
<1>1. None \notin Mutexes  BY ThreadSyncAssumption
<1>2. \A x \in Mutexes \ {m} : \A g \in Hosts : held'[g] = x <=> held[g] = x  BY <1>1 DEF Typed
<1>3. \A x \in Mutexes \ {m} : x \in locked' <=> x \in locked  OBVIOUS
<1>4. \A x \in Mutexes \ {m} : (x \in locked' <=> Owned(x)') /\ OneSlot(x)' /\ OneFrame(x)' /\ NotBoth(x)'
  BY <1>2, <1>3 DEF Owners, Owned, OneSlot, OneFrame, NotBoth
<1>5. CASE m \notin locked /\ locked' = locked \cup {m} /\ held' = [held EXCEPT ![h] = m]
  <2>1. ~Owned(m)  BY <1>5 DEF Owners
  <2>2. \A b \in Agents : \A i \in 1..2 : ~Inside(b, i, m)'  BY <2>1 DEF Owned
  <2>3. \A g \in Hosts : held'[g] = m <=> g = h  BY <1>5, <2>1 DEF Typed, Owned
  <2>4. m \in locked' /\ Owned(m)'  BY <1>5, <2>3 DEF Owned
  <2>5. OneSlot(m)' /\ OneFrame(m)' /\ NotBoth(m)'
    BY <2>2, <2>3 DEF OneSlot, OneFrame, NotBoth
  <2> QED  BY <1>4, <2>4, <2>5 DEF Owners
<1>6. CASE held[h] = m /\ locked' = locked \ {m} /\ held' = [held EXCEPT ![h] = None]
  <2>1. OneSlot(m) /\ NotBoth(m)  BY DEF Owners
  <2>2. \A b \in Agents : \A i \in 1..2 : ~Inside(b, i, m)'  BY <1>6, <2>1 DEF NotBoth
  <2>3. \A g \in Hosts : held'[g] # m  BY <1>1, <1>6, <2>1 DEF Typed, OneSlot
  <2>4. m \notin locked' /\ ~Owned(m)'  BY <1>6, <2>2, <2>3 DEF Owned
  <2>5. OneSlot(m)' /\ OneFrame(m)' /\ NotBoth(m)'
    BY <2>2, <2>3 DEF OneSlot, OneFrame, NotBoth
  <2> QED  BY <1>4, <2>4, <2>5 DEF Owners
<1> QED  BY <1>5, <1>6

-----------------------------------------------------------------------------
(***************************************************************************)
(* What a move, a return and a park do to the rest of the state.           *)
(***************************************************************************)
LEMMA TopObject ==
  ASSUME Typed, Calls, NEW a \in Agents, frames[a] # <<>>
  PROVE  /\ Top(a).obj \in Objects
         /\ Top(a).op \in {"with_lock", "lock", "try_lock", "unlock"} => Top(a).obj \in Mutexes
         /\ Top(a).op \in {"recv", "try_recv", "send", "close"} => Top(a).obj = Channel
         /\ [op |-> Top(a).op, obj |-> Top(a).obj] \in Native
<1>1. Top(a) \in FrameType  BY TopFacts
<1> DEFINE f == Top(a)
<1> HIDE DEF f
<1>2. f \in FrameType  BY <1>1 DEF f
<1>3. /\ f.obj \in Objects
      /\ f.op \in {"with_lock", "lock", "try_lock", "unlock"} => f.obj \in Mutexes
      /\ f.op \in {"recv", "try_recv", "send", "close"} => f.obj = Channel
      /\ [op |-> f.op, obj |-> f.obj] \in Native
  BY <1>2 DEF FrameType, Objects, Native
<1> QED  BY <1>3 DEF f

\* The task that has a frame is the one that runs.
LEMMA MoveCalls ==
  ASSUME Typed, Calls, NEW a \in Agents, frames[a] # <<>>, NEW l \in Labels, Goto(a, l),
         cur' = cur, key' = key, again' = again, parked' => cur # None
  PROVE  Calls'
<1>1. \A b \in Agents : Len(frames'[b]) <= 2
  <2>1. Len(frames'[a]) = Len(frames[a]) /\ \A b \in Agents \ {a} : frames'[b] = frames[b]  BY GotoFacts
  <2> QED  BY <2>1 DEF Calls
<1>2. \A t \in Tasks : frames'[t] # <<>> <=> cur' = t
  <2>1. frames'[a] # <<>> /\ \A b \in Agents \ {a} : frames'[b] = frames[b]  BY GotoFacts
  <2> QED  BY <2>1 DEF Calls, Agents
<1> QED  BY <1>1, <1>2 DEF Calls

LEMMA MoveListed ==
  ASSUME Typed, Calls, Listed, NEW a \in Agents, frames[a] # <<>>, NEW l \in Labels, Goto(a, l),
         Top(a).at # "post", relay' = relay, key' = key, nextKey' = nextKey,
         Keys \subseteq Keys', parked' => parked \/ nextKey \in Keys'
  PROVE  Listed'
<1>1. \A t \in Tasks : key'[t] # 0 => key'[t] \in Keys'  BY DEF Listed
<1>2. parked' => nextKey' \in Keys'  BY DEF Listed
<1>3. \A b \in Agents : relay'[b] # {} => frames'[b] # <<>> /\ Top(b)'.at = "post"
  <2>1. relay[a] = {}  BY DEF Listed
  <2>2. \A b \in Agents \ {a} : frames'[b] = frames[b] /\ Top(b)' = Top(b)  BY GotoFacts DEF Top
  <2> QED  BY <2>1, <2>2 DEF Listed
<1> QED  BY <1>1, <1>2, <1>3 DEF Listed

\* The agent goes on and no list is touched.
LEMMA MoveKeeps ==
  ASSUME IInv, NEW a \in Agents, frames[a] # <<>>, NEW l \in Labels, Goto(a, l), Stay,
         Top(a).at # "post", UNCHANGED <<waiters, relay, calls>>,
         locked' \in SUBSET Mutexes, held' \in [Hosts -> Mutexes \cup {None}],
         queue' \in Nat, closed' \in BOOLEAN
  PROVE  Typed' /\ Calls' /\ Listed'
<1> USE DEF IInv
<1>1. /\ cur' = cur /\ key' = key /\ again' = again /\ nextKey' = nextKey /\ parked' = parked
      /\ posted' = posted /\ waiters' = waiters /\ relay' = relay /\ calls' = calls
  BY DEF Stay, wait
<1>2. Typed'
  <2>1. frames' \in [Agents -> Seq(FrameType)]  BY GotoFacts
  <2> QED  BY <1>1, <2>1 DEF Typed
<1>3. Calls'
  <2>1. parked' => cur # None  BY <1>1 DEF Calls
  <2> QED  BY <1>1, <2>1, MoveCalls
<1>4. Listed'
  <2>1. Keys' = Keys  BY <1>1 DEF Keys, UnderWay
  <2> QED  BY <1>1, <2>1, MoveListed
<1> QED  BY <1>2, <1>3, <1>4

\* A native returns and no list is touched.  A task that parked is suspended
\* with the key that its natives listed.
LEMMA ReturnKeeps ==
  ASSUME IInv, NEW a \in Agents, frames[a] # <<>>, Return(a), relay[a] = {},
         UNCHANGED <<waiters, relay, posted, calls>>,
         locked' \in SUBSET Mutexes, held' \in [Hosts -> Mutexes \cup {None}],
         queue' \in Nat, closed' \in BOOLEAN
  PROVE  Typed' /\ Calls' /\ Listed' /\ Popped(a)
<1> USE DEF IInv
<1> DEFINE base == a \in Tasks /\ Len(frames[a]) = 1
           n == [op |-> Top(a).op, obj |-> Top(a).obj]
<1>0. Popped(a)  BY DEF Return, Popped
<1>1. n \in Native  BY TopObject
<1>2. Typed /\ Calls /\ Listed /\ nextKey \in Nat \ {0}  BY DEF Typed
<1>3. waiters' = waiters /\ relay' = relay /\ posted' = posted /\ calls' = calls /\ Keys' = Keys
  BY DEF Keys, UnderWay
<1>4. /\ frames' \in [Agents -> Seq(FrameType)]
      /\ Len(frames'[a]) = Len(frames[a]) - 1
      /\ frames'[a] = <<>> <=> Len(frames[a]) = 1
      /\ \A b \in Agents \ {a} : frames'[b] = frames[b]
  BY <1>0, PopFacts
<1>5. Len(frames[a]) \in 1..2  BY TopFacts
<1>6. cur' = IF base THEN None ELSE cur  BY DEF Return
<1>7. \/ /\ base /\ parked
         /\ key' = [key EXCEPT ![a] = nextKey] /\ again' = [again EXCEPT ![a] = n]
         /\ nextKey' = nextKey + 1 /\ parked' = FALSE
      \/ /\ ~(base /\ parked)
         /\ key' = key /\ again' = again /\ nextKey' = nextKey /\ parked' = parked
  BY DEF Return, wait
<1> HIDE DEF n
<1>8. Typed'
  <2>1. CASE base /\ parked
    <3>0. nextKey' = nextKey + 1  BY <1>7, <2>1
    <3>1. nextKey' \in Nat \ {0} /\ 1..nextKey \subseteq 1..nextKey'
          /\ 0..(nextKey - 1) \subseteq 0..(nextKey' - 1) /\ nextKey \in 0..(nextKey' - 1)
      BY <1>2, <3>0
    <3>2. key' \in [Tasks -> 0..(nextKey' - 1)]
      BY <1>7, <2>1, <3>1 DEF Typed
    <3>3. again' \in [Tasks -> Native \cup {None}]  BY <1>1, <1>7, <2>1 DEF Typed
    <3>4. waiters' \in [Objects -> SUBSET (1..nextKey')] /\ relay' \in [Agents -> SUBSET (1..nextKey')]
      BY <1>3, <3>1 DEF Typed
    <3>5. cur' \in Tasks \cup {None} /\ parked' \in BOOLEAN  BY <1>6, <1>7, <2>1
    <3> QED  BY <1>3, <1>4, <3>1, <3>2, <3>3, <3>4, <3>5 DEF Typed
  <2>2. CASE ~(base /\ parked)
    <3>1. cur' \in Tasks \cup {None}  BY <1>6 DEF Typed
    <3> QED  BY <1>3, <1>4, <1>7, <2>2, <3>1 DEF Typed
  <2> QED  BY <2>1, <2>2
<1>9. Calls'
  <2>1. \A b \in Agents : Len(frames'[b]) <= 2
    <3> DEFINE k == Len(frames[a])
    <3>1. k \in 1..2 /\ Len(frames'[a]) = k - 1  BY <1>4, <1>5
    <3> HIDE DEF k
    <3>2. Len(frames'[a]) <= 2  BY <3>1
    <3> QED  BY <1>4, <3>2 DEF Calls
  <2>2. None \notin Tasks /\ (a \in Tasks => cur = a)  BY ThreadSyncAssumption DEF Calls
  <2>3. \A t \in Tasks : frames'[t] # <<>> <=> cur' = t
    BY <1>4, <1>6, <2>2 DEF Calls, Agents
  <2>4. \A t \in Tasks : key'[t] # 0 => again'[t] \in Native
    BY <1>1, <1>7 DEF Calls, Typed
  <2>5. parked' => cur' # None  BY <1>6, <1>7 DEF Calls
  <2> QED  BY <2>1, <2>3, <2>4, <2>5 DEF Calls
<1>10. Listed'
  <2>1. \A t \in Tasks : key'[t] # 0 => key'[t] \in Keys'  BY <1>3, <1>7 DEF Listed, Typed
  <2>2. parked' => nextKey' \in Keys'  BY <1>3, <1>7 DEF Listed
  <2>3. \A b \in Agents \ {a} : frames'[b] = frames[b] /\ Top(b)' = Top(b)  BY <1>4 DEF Top
  <2>4. \A b \in Agents : relay'[b] # {} => frames'[b] # <<>> /\ Top(b)'.at = "post"
    BY <1>3, <2>3 DEF Listed
  <2> QED  BY <2>1, <2>2, <2>4 DEF Listed
<1> QED  BY <1>0, <1>8, <1>9, <1>10

\* A list that came to have something to tell has its waker.
LEMMA WakeFrame ==
  ASSUME WakeDue, NEW a \in Agents,
         \/ frames[a] = <<>> \/ Top(a).at # "wake" \/ waiters'[Top(a).obj] = {},
         \A b \in Agents \ {a} : frames'[b] = frames[b],
         \A o \in Objects : waiters'[o] # {} /\ Available(o)' =>
           \/ waiters[o] # {} /\ Available(o)
           \/ frames'[a] # <<>> /\ Top(a)'.obj = o /\ Top(a)'.at = "wake"
  PROVE  WakeDue'
<1> SUFFICES ASSUME NEW o \in Objects, waiters'[o] # {}, Available(o)'
             PROVE  \E b \in Agents : frames'[b] # <<>> /\ Top(b)'.obj = o /\ Top(b)'.at = "wake"
  BY DEF WakeDue
<1>1. CASE frames'[a] # <<>> /\ Top(a)'.obj = o /\ Top(a)'.at = "wake"  BY <1>1
<1>2. CASE waiters[o] # {} /\ Available(o)
  <2>1. PICK b \in Agents : frames[b] # <<>> /\ Top(b).obj = o /\ Top(b).at = "wake"
    BY <1>2 DEF WakeDue
  <2>2. b # a  BY <2>1
  <2>3. frames'[b] = frames[b] /\ Top(b)' = Top(b)  BY <2>2 DEF Top
  <2> QED  BY <2>1, <2>3
<1> QED  BY <1>1, <1>2

\* A native returns that changed no mutex and has nothing to tell.
LEMMA QuietReturn ==
  ASSUME IInv, NEW a \in Agents, frames[a] # <<>>, Return(a), relay[a] = {},
         UNCHANGED <<waiters, relay, posted, calls, locked, held, closed>>,
         queue' \in Nat, queue' <= queue,
         Top(a).at \notin {"callback", "locked", "wake"}
  PROVE  IInv'
<1> USE DEF IInv
<1>1. locked' \in SUBSET Mutexes /\ held' \in [Hosts -> Mutexes \cup {None}] /\ closed' \in BOOLEAN
  BY DEF Typed
<1>2. Typed' /\ Calls' /\ Listed' /\ Popped(a)  BY <1>1, ReturnKeeps
<1>3. Owners'  BY <1>2, PopOutside, OwnersFrame
<1>4. WakeDue'
  <2>1. \A b \in Agents \ {a} : frames'[b] = frames[b]  BY <1>2, PopFacts
  <2>2. queue \in Nat /\ (queue' > 0 => queue > 0)  BY DEF Typed
  <2>3. \A o \in Objects : Available(o)' => Available(o)  BY <2>2 DEF Available
  <2> QED  BY <2>1, <2>3, WakeFrame
<1> QED  BY <1>2, <1>3, <1>4

\* A task parks on an object that has nothing to tell.
LEMMA Parks ==
  ASSUME IInv, NEW a \in Agents, frames[a] # <<>>, NEW o \in Objects, park(a, o), ~Available(o),
         UNCHANGED <<posted, locked, held, queue, closed, relay, calls>>, Top(a).at = "enter"
  PROVE  IInv'
<1> USE DEF IInv
<1>1. /\ a \in Tasks /\ waiters' = [waiters EXCEPT ![o] = @ \cup {nextKey}] /\ parked' = TRUE
      /\ Goto(a, "parked") /\ cur' = cur /\ key' = key /\ again' = again /\ nextKey' = nextKey
  BY DEF park
<1>2. "parked" \in Labels  BY DEF Labels
<1>3. nextKey \in 1..nextKey  BY DEF Typed
<1>4. waiters' \in [Objects -> SUBSET (1..nextKey)] /\ nextKey \in waiters'[o]
      /\ (\A p \in Objects : waiters[p] \subseteq waiters'[p])
      /\ \A p \in Objects \ {o} : waiters'[p] = waiters[p]
  BY <1>1, <1>3 DEF Typed
<1>5. Typed'
  <2>1. frames' \in [Agents -> Seq(FrameType)]  BY <1>1, <1>2, GotoFacts
  <2> QED  BY <1>1, <1>4, <2>1 DEF Typed
<1>6. Calls'
  <2>1. cur # None  BY <1>1, ThreadSyncAssumption DEF Calls
  <2> QED  BY <1>1, <1>2, <2>1, MoveCalls
<1>7. Listed'
  <2>1. UnderWay' = UnderWay  BY DEF UnderWay
  <2>2. Keys \subseteq Keys' /\ nextKey \in Keys'  BY <1>4, <2>1 DEF Keys
  <2> QED  BY <1>1, <1>2, <2>2, MoveListed
<1>8. Owners'
  <2>1. \A i \in 1..2 : \A m \in Mutexes : TopIs(a, i) => ~Inside(a, i, m)
    BY TopFacts DEF TopIs, Inside
  <2>2. \A b \in Agents : \A i \in 1..2 : \A m \in Mutexes : Inside(b, i, m)' <=> Inside(b, i, m)
    BY <1>1, <1>2, <2>1, GotoInside
  <2> QED  BY <2>2, OwnersFrame
<1>9. WakeDue'
  <2>1. \A b \in Agents \ {a} : frames'[b] = frames[b]  BY <1>1, <1>2, GotoFacts
  <2>2. \A p \in Objects : Available(p)' <=> Available(p)  BY DEF Available
  <2> QED  BY <1>4, <2>1, <2>2, WakeFrame
<1> QED  BY <1>5, <1>6, <1>7, <1>8, <1>9

-----------------------------------------------------------------------------
(***************************************************************************)
(* Each action keeps the invariant.                                        *)
(***************************************************************************)
LEMMA ParkReturnStep ==
  ASSUME IInv, NEW a \in Agents, park_return(a)
  PROVE  IInv'
<1>1. frames[a] # <<>> /\ Top(a).at = "parked" /\ Return(a)  BY DEF park_return
<1>2. UNCHANGED <<waiters, relay, posted, calls, locked, held, closed, queue>>
  BY DEF park_return, objects
<1>3. relay[a] = {}  BY <1>1 DEF IInv, Listed
<1>4. queue' \in Nat /\ queue' <= queue  BY <1>2 DEF IInv, Typed
<1> QED  BY <1>1, <1>2, <1>3, <1>4, QuietReturn

LEMMA WakeAllStep ==
  ASSUME IInv, NEW a \in Agents, wake_all(a)
  PROVE  IInv'
<1> USE DEF IInv
<1> DEFINE o == Top(a).obj
<1>1. /\ frames[a] # <<>> /\ Top(a).at = "wake"
      /\ waiters' = [waiters EXCEPT ![o] = {}] /\ relay' = [relay EXCEPT ![a] = waiters[o]]
      /\ Goto(a, "post")
      /\ UNCHANGED <<locked, held, queue, closed, calls, cur, posted, key, again, nextKey, parked>>
  BY DEF wake_all, Stay, wait
<1>2. "post" \in Labels /\ o \in Objects  BY <1>1, TopObject DEF Labels
<1> HIDE DEF o
<1>3. /\ frames' \in [Agents -> Seq(FrameType)]
      /\ frames'[a] # <<>> /\ Top(a)'.at = "post"
      /\ \A b \in Agents \ {a} : frames'[b] = frames[b]
  BY <1>1, <1>2, GotoFacts
<1>4. /\ waiters' \in [Objects -> SUBSET (1..nextKey)] /\ relay' \in [Agents -> SUBSET (1..nextKey)]
      /\ waiters'[o] = {} /\ relay'[a] = waiters[o]
      /\ \A p \in Objects \ {o} : waiters'[p] = waiters[p]
      /\ \A b \in Agents \ {a} : relay'[b] = relay[b]
  BY <1>1, <1>2 DEF Typed
<1>5. Typed'  BY <1>1, <1>3, <1>4 DEF Typed
<1>6. Calls'
  <2>1. parked' => cur # None  BY <1>1 DEF Calls
  <2> QED  BY <1>1, <1>2, <2>1, MoveCalls
<1>7. Listed'
  <2>1. relay[a] = {}  BY <1>1 DEF Listed
  <2>2. posted' = posted  BY <1>1
  <2>3. Keys \subseteq Keys'
    <3> SUFFICES ASSUME NEW k \in Keys PROVE k \in Keys'  OBVIOUS
    <3>1. CASE k \in posted  BY <2>2, <3>1 DEF Keys, UnderWay
    <3>2. ASSUME NEW b \in Agents, k \in relay[b] PROVE k \in Keys'
      <4>1. b # a  BY <2>1, <3>2
      <4>2. k \in relay'[b]  BY <1>4, <3>2, <4>1
      <4> QED  BY <4>2 DEF Keys, UnderWay
    <3>3. ASSUME NEW p \in Objects, k \in waiters[p] PROVE k \in Keys'
      <4>1. CASE p = o
        <5>1. k \in relay'[a]  BY <1>4, <3>3, <4>1
        <5> QED  BY <5>1 DEF Keys, UnderWay
      <4>2. CASE p # o
        <5>1. k \in waiters'[p]  BY <1>4, <3>3, <4>2
        <5> QED  BY <5>1 DEF Keys
      <4> QED  BY <4>1, <4>2
    <3> QED  BY <3>1, <3>2, <3>3 DEF Keys, UnderWay
  <2>4. \A b \in Agents \ {a} : Top(b)' = Top(b)  BY <1>3 DEF Top
  <2>5. \A b \in Agents : relay'[b] # {} => frames'[b] # <<>> /\ Top(b)'.at = "post"
    BY <1>3, <1>4, <2>4 DEF Listed
  <2> QED  BY <1>1, <2>3, <2>5 DEF Listed
<1>8. Owners'
  <2>1. \A i \in 1..2 : \A m \in Mutexes : TopIs(a, i) => ~Inside(a, i, m)
    BY <1>1, TopFacts DEF TopIs, Inside
  <2>2. \A b \in Agents : \A i \in 1..2 : \A m \in Mutexes : Inside(b, i, m)' <=> Inside(b, i, m)
    BY <1>1, <1>2, <2>1, GotoInside
  <2> QED  BY <1>1, <2>2, OwnersFrame
<1>9. WakeDue'
  <2>1. \A p \in Objects : Available(p)' <=> Available(p)  BY <1>1 DEF Available
  <2>2. waiters'[Top(a).obj] = {}  BY <1>4 DEF o
  <2> QED  BY <1>3, <1>4, <2>1, <2>2, WakeFrame
<1> QED  BY <1>5, <1>6, <1>7, <1>8, <1>9

LEMMA PostStep ==
  ASSUME IInv, NEW a \in Agents, post(a)
  PROVE  IInv'
<1> USE DEF IInv
<1>1. frames[a] # <<>> /\ Top(a).at = "post" /\ UNCHANGED <<locked, held, queue, closed, waiters, calls>>
  BY DEF post
<1>2. ASSUME NEW k \in relay[a], relay' = [relay EXCEPT ![a] = @ \ {k}], posted' = posted \cup {k},
             UNCHANGED <<frames, cur, wait>>
      PROVE  IInv'
  <2>1. UNCHANGED <<key, again, nextKey, parked, frames, cur>>  BY <1>2 DEF wait
  <2>2. /\ relay' \in [Agents -> SUBSET (1..nextKey)]
        /\ \A b \in Agents : relay'[b] \subseteq relay[b] /\ relay[b] \subseteq relay'[b] \cup {k}
    BY <1>2 DEF Typed
  <2>3. Typed' /\ Calls'  BY <1>1, <2>1, <2>2 DEF Typed, Calls
  <2>4. Owners'
    <3>1. \A b \in Agents : \A i \in 1..2 : \A m \in Mutexes : Inside(b, i, m)' <=> Inside(b, i, m)
      BY <2>1 DEF Inside
    <3> QED  BY <1>1, <3>1, OwnersFrame
  <2>5. Listed'
    <3>1. Keys \subseteq Keys'
      <4>1. UnderWay \subseteq UnderWay'  BY <1>2, <2>2 DEF UnderWay
      <4> QED  BY <1>1, <4>1 DEF Keys
    <3>2. \A b \in Agents : Top(b)' = Top(b)  BY <2>1 DEF Top
    <3>3. \A b \in Agents : relay'[b] # {} => frames'[b] # <<>> /\ Top(b)'.at = "post"
      BY <2>1, <2>2, <3>2 DEF Listed
    <3> QED  BY <2>1, <3>1, <3>3 DEF Listed
  <2>6. WakeDue'
    <3>1. \A p \in Objects : Available(p)' <=> Available(p)  BY <1>1 DEF Available
    <3> QED  BY <1>1, <2>1, <3>1, WakeFrame
  <2> QED  BY <2>3, <2>4, <2>5, <2>6
<1>3. CASE relay[a] = {} /\ Return(a) /\ UNCHANGED <<relay, posted>>
  <2>1. queue' \in Nat /\ queue' <= queue  BY <1>1 DEF Typed
  <2> QED  BY <1>1, <1>3, <2>1, QuietReturn
<1> QED  BY <1>2, <1>3 DEF post

LEMMA HostOf ==
  ASSUME NEW a \in Agents
  PROVE  Host(a) \in Hosts
  BY DEF Host, Hosts, Agents

\* Where an agent stands
LEMMA AtFacts ==
  ASSUME IInv, NEW a \in Agents, NEW ops, NEW l, At(a, ops, l), l # "post"
  PROVE  frames[a] # <<>> /\ Top(a).op \in ops /\ Top(a).at = l /\ relay[a] = {}
  BY DEF At, IInv, Listed

\* The innermost frame stands where no mutex is answered for.
LEMMA TopOutside ==
  ASSUME Typed, Calls, NEW a \in Agents, frames[a] # <<>>, Top(a).at \notin {"callback", "locked"}
  PROVE  \A i \in 1..2 : \A m \in Mutexes : TopIs(a, i) => ~Inside(a, i, m)
  BY TopFacts DEF TopIs, Inside

\* The agent takes a free mutex and goes on to answer for it.
LEMMA MoveTakes ==
  ASSUME IInv, NEW a \in Agents, frames[a] # <<>>, Top(a).at = "enter", Top(a).obj \in Mutexes,
         NEW l \in {"callback", "locked"}, Goto(a, l), Stay,
         Top(a).obj \notin locked, locked' = locked \cup {Top(a).obj},
         UNCHANGED <<held, queue, closed, waiters, relay, calls>>
  PROVE  IInv'
<1> USE DEF IInv
<1>1. l \in Labels  BY DEF Labels
<1> DEFINE m == Top(a).obj
           n == Len(frames[a])
<1>2. m \in Mutexes /\ n \in 1..2  BY TopFacts
<1>3. Typed' /\ Calls' /\ Listed'
  <2>1. locked' \in SUBSET Mutexes /\ held' \in [Hosts -> Mutexes \cup {None}] /\ queue' \in Nat /\ closed' \in BOOLEAN
    BY DEF Typed
  <2> QED  BY <1>1, <2>1, MoveKeeps
<1>4. Owners'
  <2>1. \A x \in Mutexes : ~Inside(a, n, x)  BY <1>2, TopOutside DEF TopIs
  <2>2. \A b \in Agents : \A i \in 1..2 : \A x \in Mutexes :
          Inside(b, i, x)' <=> IF b = a /\ i = n THEN x = m ELSE Inside(b, i, x)
    BY <1>1, GotoInside DEF TopIs
  <2> HIDE DEF m, n
  <2>3. m \notin locked /\ locked' = locked \cup {m}  BY DEF m
  <2> QED  BY <1>2, <2>1, <2>2, <2>3, FrameTakes
<1>5. WakeDue'
  <2>1. \A b \in Agents \ {a} : frames'[b] = frames[b]  BY <1>1, GotoFacts
  <2>2. \A p \in Objects : Available(p)' => Available(p)  BY DEF Available
  <2> QED  BY <2>1, <2>2, WakeFrame
<1> QED  BY <1>3, <1>4, <1>5

\* The agent stops answering for its mutex and goes on to wake its list.
LEMMA MoveGives ==
  ASSUME IInv, NEW a \in Agents, frames[a] # <<>>, Top(a).at \in {"callback", "locked"}, Top(a).obj \in Mutexes,
         Goto(a, "wake"), Stay, locked' = locked \ {Top(a).obj},
         UNCHANGED <<held, queue, closed, waiters, relay, calls>>
  PROVE  IInv'
<1> USE DEF IInv
<1>1. "wake" \in Labels  BY DEF Labels
<1> DEFINE m == Top(a).obj
           n == Len(frames[a])
<1>2. m \in Mutexes /\ n \in 1..2  BY TopFacts
<1>3. Typed' /\ Calls' /\ Listed'
  <2>1. locked' \in SUBSET Mutexes /\ held' \in [Hosts -> Mutexes \cup {None}] /\ queue' \in Nat /\ closed' \in BOOLEAN
    BY DEF Typed
  <2> QED  BY <1>1, <2>1, MoveKeeps
<1>4. Owners'
  <2>1. Inside(a, n, m)  BY TopFacts DEF Inside
  <2>2. \A b \in Agents : \A i \in 1..2 : \A x \in Mutexes :
          Inside(b, i, x)' <=> Inside(b, i, x) /\ ~(b = a /\ i = n)
    BY <1>1, GotoInside DEF TopIs
  <2> HIDE DEF m, n
  <2>3. held' = held /\ locked' = locked \ {m}  BY DEF m
  <2> QED  BY <1>2, <2>1, <2>2, <2>3, FrameGives
<1>5. WakeDue'
  <2>1. /\ \A b \in Agents \ {a} : frames'[b] = frames[b]
        /\ frames'[a] # <<>> /\ Top(a)'.obj = m /\ Top(a)'.at = "wake"
    BY <1>1, GotoFacts
  <2>2. \A p \in Objects : Available(p)' => Available(p) \/ p = m  BY DEF Available
  <2> QED  BY <2>1, <2>2, WakeFrame
<1> QED  BY <1>3, <1>4, <1>5

\* A native changed an object and goes on to wake its list: but for who owns
\* what.
LEMMA MoveWakes ==
  ASSUME IInv, NEW a \in Agents, frames[a] # <<>>, Top(a).at = "enter", Goto(a, "wake"), Stay,
         UNCHANGED <<waiters, relay, calls>>,
         locked' \in SUBSET Mutexes, held' \in [Hosts -> Mutexes \cup {None}],
         queue' \in Nat, closed' \in BOOLEAN,
         \A p \in Objects : Available(p)' => Available(p) \/ p = Top(a).obj
  PROVE  /\ Typed' /\ Calls' /\ Listed' /\ WakeDue'
         /\ \A b \in Agents : \A i \in 1..2 : \A m \in Mutexes : Inside(b, i, m)' <=> Inside(b, i, m)
<1> USE DEF IInv
<1>1. "wake" \in Labels  BY DEF Labels
<1>2. Typed' /\ Calls' /\ Listed'  BY <1>1, MoveKeeps
<1>3. WakeDue'
  <2>1. /\ \A b \in Agents \ {a} : frames'[b] = frames[b]
        /\ frames'[a] # <<>> /\ Top(a)'.obj = Top(a).obj /\ Top(a)'.at = "wake"
    BY <1>1, GotoFacts
  <2> QED  BY <2>1, WakeFrame
<1>4. \A b \in Agents : \A i \in 1..2 : \A m \in Mutexes : Inside(b, i, m)' <=> Inside(b, i, m)
  BY <1>1, TopOutside, GotoInside
<1> QED  BY <1>2, <1>3, <1>4

LEMMA LockStep ==
  ASSUME IInv, NEW a \in Agents, lock(a)
  PROVE  IInv'
<1> USE DEF IInv
<1> DEFINE m == Top(a).obj
           h == Host(a)
<1>1. At(a, {"lock", "with_lock"}, "enter") /\ UNCHANGED <<queue, closed, relay, calls>>  BY DEF lock
<1>2. frames[a] # <<>> /\ Top(a).op \in {"lock", "with_lock"} /\ Top(a).at = "enter" /\ relay[a] = {}
  BY <1>1, AtFacts
<1>3. m \in Mutexes /\ m \in Objects /\ m # Channel /\ h \in Hosts
  BY <1>2, TopObject, HostOf, ThreadSyncAssumption DEF Objects
<1>4. queue' \in Nat /\ queue' <= queue /\ closed' \in BOOLEAN  BY <1>1 DEF Typed
<1>5. CASE Return(a) /\ UNCHANGED <<posted, locked, held, waiters>>
  BY <1>1, <1>2, <1>4, <1>5, QuietReturn
<1>6. CASE /\ held[h] = None /\ m \notin locked /\ locked' = locked \cup {m}
           /\ held' = [held EXCEPT ![h] = m] /\ Return(a) /\ UNCHANGED <<posted, waiters>>
  <2>1. locked' \in SUBSET Mutexes /\ held' \in [Hosts -> Mutexes \cup {None}]
    BY <1>3, <1>6 DEF Typed
  <2>2. Typed' /\ Calls' /\ Listed' /\ Popped(a)  BY <1>1, <1>2, <1>4, <1>6, <2>1, ReturnKeeps
  <2>3. \A b \in Agents : \A i \in 1..2 : \A x \in Mutexes : Inside(b, i, x)' <=> Inside(b, i, x)
    BY <1>2, <2>2, PopOutside
  <2>4. WakeDue'
    <3>1. \A b \in Agents \ {a} : frames'[b] = frames[b]  BY <1>2, <2>2, PopFacts
    <3>2. \A p \in Objects : Available(p)' => Available(p)  BY <1>1, <1>6 DEF Available
    <3> QED  BY <1>2, <1>6, <3>1, <3>2, WakeFrame
  <2>5. Owners'
    <3> HIDE DEF m, h
    <3> QED  BY <1>3, <1>6, <2>3, SlotChanges
  <2> QED  BY <2>2, <2>4, <2>5
<1>7. CASE m \notin locked /\ locked' = locked \cup {m} /\ Goto(a, "callback") /\ Stay /\ UNCHANGED <<held, waiters>>
  BY <1>1, <1>2, <1>3, <1>7, MoveTakes
<1>8. CASE m \in locked /\ park(a, m) /\ UNCHANGED <<posted, locked, held>>
  <2>1. ~Available(m)  BY <1>3, <1>8 DEF Available
  <2> QED  BY <1>1, <1>2, <1>3, <1>8, <2>1, Parks
<1> QED  BY <1>5, <1>6, <1>7, <1>8 DEF lock

LEMMA WithLockEndStep ==
  ASSUME IInv, NEW a \in Agents, with_lock_end(a)
  PROVE  IInv'
<1>1. frames[a] # <<>> /\ Top(a).op = "with_lock" /\ Top(a).at = "callback"  BY DEF with_lock_end, At
<1>2. Top(a).obj \in Mutexes  BY <1>1, TopObject DEF IInv
<1> QED  BY <1>1, <1>2, MoveGives DEF with_lock_end

LEMMA UnlockStep ==
  ASSUME IInv, NEW a \in Agents, unlock(a)
  PROVE  IInv'
<1> USE DEF IInv
<1> DEFINE m == Top(a).obj
           h == Host(a)
<1>1. At(a, {"unlock"}, "enter") /\ UNCHANGED <<queue, closed, waiters, relay, calls>>  BY DEF unlock
<1>2. frames[a] # <<>> /\ Top(a).op = "unlock" /\ Top(a).at = "enter" /\ relay[a] = {}  BY <1>1, AtFacts
<1>3. m \in Mutexes /\ h \in Hosts  BY <1>2, TopObject, HostOf
<1>4. queue' \in Nat /\ queue' <= queue /\ closed' \in BOOLEAN  BY <1>1 DEF Typed
<1>5. CASE /\ held[h] = m /\ held' = [held EXCEPT ![h] = None] /\ locked' = locked \ {m}
           /\ Goto(a, "wake") /\ Stay
  <2>1. locked' \in SUBSET Mutexes /\ held' \in [Hosts -> Mutexes \cup {None}]
    BY <1>5 DEF Typed
  <2>2. \A p \in Objects : Available(p)' => Available(p) \/ p = m  BY <1>1, <1>5 DEF Available
  <2>3. /\ Typed' /\ Calls' /\ Listed' /\ WakeDue'
        /\ \A b \in Agents : \A i \in 1..2 : \A x \in Mutexes : Inside(b, i, x)' <=> Inside(b, i, x)
    BY <1>1, <1>2, <1>4, <1>5, <2>1, <2>2, MoveWakes
  <2>4. Owners'
    <3> HIDE DEF m, h
    <3> QED  BY <1>3, <1>5, <2>3, SlotChanges
  <2> QED  BY <2>3, <2>4
<1>6. CASE Return(a) /\ UNCHANGED <<posted, held, locked>>
  BY <1>1, <1>2, <1>4, <1>6, QuietReturn
<1> QED  BY <1>5, <1>6 DEF unlock, Holds

LEMMA TryLockStep ==
  ASSUME IInv, NEW a \in Agents, try_lock(a)
  PROVE  IInv'
<1> USE DEF IInv
<1>1. At(a, {"try_lock"}, "enter") /\ UNCHANGED <<held, queue, closed, waiters, relay, calls>>  BY DEF try_lock
<1>2. frames[a] # <<>> /\ Top(a).op = "try_lock" /\ Top(a).at = "enter" /\ relay[a] = {}  BY <1>1, AtFacts
<1>3. Top(a).obj \in Mutexes  BY <1>2, TopObject
<1>4. queue' \in Nat /\ queue' <= queue  BY <1>1 DEF Typed
<1>5. CASE Return(a) /\ UNCHANGED <<posted, locked>>
  BY <1>1, <1>2, <1>4, <1>5, QuietReturn
<1>6. CASE Top(a).obj \notin locked /\ locked' = locked \cup {Top(a).obj} /\ Goto(a, "locked") /\ Stay
  BY <1>1, <1>2, <1>3, <1>6, MoveTakes
<1> QED  BY <1>5, <1>6 DEF try_lock

LEMMA TryLockHeldStep ==
  ASSUME IInv, NEW a \in Agents, try_lock_held(a)
  PROVE  IInv'
<1> USE DEF IInv
<1> DEFINE m == Top(a).obj
           n == Len(frames[a])
           h == Host(a)
<1>1. At(a, {"try_lock"}, "locked") /\ UNCHANGED <<queue, closed, waiters, relay, calls>>  BY DEF try_lock_held
<1>2. frames[a] # <<>> /\ Top(a).op = "try_lock" /\ Top(a).at = "locked" /\ relay[a] = {}  BY <1>1, AtFacts
<1>3. m \in Mutexes /\ h \in Hosts /\ n \in 1..2  BY <1>2, TopObject, HostOf, TopFacts
<1>4. CASE locked' = locked \ {m} /\ GiveBack(a) /\ held' = held
  <2>1. Goto(a, "wake") /\ Stay  BY <1>4 DEF GiveBack
  <2> QED  BY <1>1, <1>2, <1>3, <1>4, <2>1, MoveGives
<1>5. CASE held[h] = None /\ held' = [held EXCEPT ![h] = m] /\ Return(a) /\ UNCHANGED <<posted, locked>>
  <2>1. /\ locked' \in SUBSET Mutexes /\ held' \in [Hosts -> Mutexes \cup {None}]
        /\ queue' \in Nat /\ closed' \in BOOLEAN
    BY <1>1, <1>3, <1>5 DEF Typed
  <2>2. Typed' /\ Calls' /\ Listed' /\ Popped(a)  BY <1>1, <1>2, <1>5, <2>1, ReturnKeeps
  <2>3. \A b \in Agents : \A i \in 1..2 : \A x \in Mutexes :
          Inside(b, i, x)' <=> Inside(b, i, x) /\ ~(b = a /\ i = n)
    BY <1>2, <2>2, PopInside DEF TopIs
  <2>4. Inside(a, n, m)  BY <1>2, TopFacts DEF Inside
  <2>5. WakeDue'
    <3>1. \A b \in Agents \ {a} : frames'[b] = frames[b]  BY <1>2, <2>2, PopFacts
    <3>2. \A p \in Objects : Available(p)' <=> Available(p)  BY <1>1, <1>5 DEF Available
    <3> QED  BY <1>1, <1>2, <3>1, <3>2, WakeFrame
  <2>6. Owners'
    <3> HIDE DEF m, n, h
    <3>1. \E g \in Hosts : held[g] = None /\ held' = [held EXCEPT ![g] = m] /\ locked' = locked
      BY <1>3, <1>5
    <3> QED  BY <1>3, <2>3, <2>4, <3>1, FrameGives
  <2> QED  BY <2>2, <2>5, <2>6
<1> QED  BY <1>4, <1>5 DEF try_lock_held

\* Sending and closing tell the channel's list.
LEMMA TellStep ==
  ASSUME IInv, NEW a \in Agents, frames[a] # <<>>, Top(a).at = "enter", Top(a).obj = Channel,
         Goto(a, "wake"), Stay, UNCHANGED <<locked, held, waiters, relay, calls>>,
         queue' \in Nat, closed' \in BOOLEAN
  PROVE  IInv'
<1> USE DEF IInv
<1>1. locked' \in SUBSET Mutexes /\ held' \in [Hosts -> Mutexes \cup {None}]  BY DEF Typed
<1>2. \A p \in Objects : Available(p)' => Available(p) \/ p = Top(a).obj  BY DEF Available
<1>3. /\ Typed' /\ Calls' /\ Listed' /\ WakeDue'
      /\ \A b \in Agents : \A i \in 1..2 : \A x \in Mutexes : Inside(b, i, x)' <=> Inside(b, i, x)
  BY <1>1, <1>2, MoveWakes
<1>4. Owners'  BY <1>3, OwnersFrame
<1> QED  BY <1>3, <1>4

LEMMA SendStep ==
  ASSUME IInv, NEW a \in Agents, send(a)
  PROVE  IInv'
<1> USE DEF IInv
<1>1. At(a, {"send"}, "enter") /\ UNCHANGED <<locked, held, closed, waiters, relay, calls>>  BY DEF send
<1>2. frames[a] # <<>> /\ Top(a).op = "send" /\ Top(a).at = "enter" /\ relay[a] = {}  BY <1>1, AtFacts
<1>3. Top(a).obj = Channel  BY <1>2, TopObject
<1>4. queue \in Nat /\ closed' \in BOOLEAN  BY <1>1 DEF Typed
<1>5. CASE Return(a) /\ UNCHANGED <<posted, queue>>
  <2>1. queue' \in Nat /\ queue' <= queue  BY <1>4, <1>5
  <2> QED  BY <1>1, <1>2, <1>5, <2>1, QuietReturn
<1>6. CASE queue' = queue + 1 /\ Goto(a, "wake") /\ Stay
  <2>1. queue' \in Nat  BY <1>4, <1>6
  <2> QED  BY <1>1, <1>2, <1>3, <1>4, <1>6, <2>1, TellStep
<1> QED  BY <1>5, <1>6 DEF send

LEMMA CloseStep ==
  ASSUME IInv, NEW a \in Agents, close(a)
  PROVE  IInv'
<1>1. frames[a] # <<>> /\ Top(a).op = "close" /\ Top(a).at = "enter"  BY DEF close, At
<1>2. Top(a).obj = Channel  BY <1>1, TopObject DEF IInv
<1>3. queue' \in Nat /\ closed' \in BOOLEAN  BY DEF close, IInv, Typed
<1> QED  BY <1>1, <1>2, <1>3, TellStep DEF close

LEMMA RecvStep ==
  ASSUME IInv, NEW a \in Agents, recv(a)
  PROVE  IInv'
<1> USE DEF IInv
<1>1. At(a, {"recv", "try_recv"}, "enter") /\ UNCHANGED <<posted, locked, held, closed, relay, calls>>  BY DEF recv
<1>2. frames[a] # <<>> /\ Top(a).at = "enter" /\ relay[a] = {}  BY <1>1, AtFacts
<1>3. queue \in Nat  BY DEF Typed
<1>4. CASE queue > 0 /\ queue' = queue - 1 /\ Return(a) /\ UNCHANGED waiters
  <2>1. queue' \in Nat /\ queue' <= queue  BY <1>3, <1>4
  <2> QED  BY <1>1, <1>2, <1>4, <2>1, QuietReturn
<1>5. CASE Return(a) /\ UNCHANGED <<queue, waiters>>
  <2>1. queue' \in Nat /\ queue' <= queue  BY <1>3, <1>5
  <2> QED  BY <1>1, <1>2, <1>5, <2>1, QuietReturn
<1>6. CASE queue = 0 /\ ~closed /\ park(a, Channel) /\ UNCHANGED queue
  <2>1. Channel \in Objects /\ ~Available(Channel)  BY <1>6 DEF Objects, Available
  <2> QED  BY <1>1, <1>2, <1>6, <2>1, Parks
<1> QED  BY <1>4, <1>5, <1>6 DEF recv

\* A new frame at its start: a native called, or run again.
LEMMA PushKeeps ==
  ASSUME IInv, NEW a \in Agents, NEW f \in FrameType, f.at = "enter", Pushed(a, f),
         frames[a] = <<>> \/ (Top(a).at = "callback" /\ Len(frames[a]) = 1),
         a \in Tasks => cur = None \/ cur = a,
         cur' = IF a \in Tasks THEN a ELSE cur,
         key' = key, again' \in [Tasks -> Native \cup {None}],
         \A t \in Tasks : key[t] # 0 => again'[t] \in Native,
         UNCHANGED <<objects, nextKey, parked, posted>>, calls' \in Nat
  PROVE  IInv'
<1> USE DEF IInv
<1>1. /\ frames' \in [Agents -> Seq(FrameType)]
      /\ Len(frames'[a]) = Len(frames[a]) + 1 /\ frames'[a] # <<>> /\ Top(a)' = f
      /\ \A b \in Agents \ {a} : frames'[b] = frames[b] /\ Top(b)' = Top(b)
  BY PushFacts DEF Top
<1>2. UNCHANGED <<locked, held, queue, closed, waiters, relay>>  BY DEF objects
<1>3. cur' \in Tasks \cup {None}  BY DEF Typed
<1>4. Typed'  BY <1>1, <1>2, <1>3 DEF Typed
<1>5. Calls'
  <2>1. Len(frames[a]) = 0 \/ Len(frames[a]) = 1  BY EmptySeq
  <2>2. Len(frames'[a]) <= 2
    <3> DEFINE n == Len(frames[a])
    <3>1. Len(frames'[a]) = n + 1 /\ (n = 0 \/ n = 1)  BY <1>1, <2>1
    <3> HIDE DEF n
    <3> QED  BY <3>1
  <2>3. \A b \in Agents : Len(frames'[b]) <= 2  BY <1>1, <2>2 DEF Calls
  <2>4. None \notin Tasks  BY ThreadSyncAssumption
  <2>5. \A t \in Tasks : frames'[t] # <<>> <=> cur' = t
    <3>1. CASE a \in Tasks  BY <1>1, <2>4, <3>1 DEF Calls, Agents
    <3>2. CASE a \notin Tasks  BY <1>1, <3>2 DEF Calls, Agents
    <3> QED  BY <3>1, <3>2
  <2>6. parked' => cur' # None  BY <2>4 DEF Calls
  <2> QED  BY <2>3, <2>5, <2>6 DEF Calls
<1>6. Owners'  BY <1>2, PushInside, OwnersFrame
<1>7. Listed'
  <2>1. Keys' = Keys  BY <1>2 DEF Keys, UnderWay
  <2>2. relay[a] = {}  BY DEF Listed
  <2> QED  BY <1>1, <1>2, <2>1, <2>2 DEF Listed
<1>8. WakeDue'
  <2>1. \A p \in Objects : Available(p)' <=> Available(p)  BY <1>2 DEF Available
  <2> QED  BY <1>1, <1>2, <2>1, WakeFrame
<1> QED  BY <1>4, <1>5, <1>6, <1>7, <1>8

LEMMA HostInvokeStep ==
  ASSUME IInv, NEW a \in Agents, NEW n \in Native, HostInvoke(a, n)
  PROVE  IInv'
<1>1. Frame(n, "enter") \in FrameType /\ Frame(n, "enter").at = "enter"  BY FirstFrame
<1>2. Pushed(a, Frame(n, "enter"))  BY DEF HostInvoke, Pushed
<1>3. frames[a] = <<>> \/ (Top(a).at = "callback" /\ Len(frames[a]) = 1)
  BY DEF HostInvoke, MayCall, At
<1>4. a \in Tasks => cur = None \/ cur = a
  BY DEF HostInvoke, MayCall, At, IInv, Calls
<1>5. cur' = (IF a \in Tasks THEN a ELSE cur) /\ UNCHANGED <<objects, posted, key, again, nextKey, parked>>
  BY DEF HostInvoke, wait
<1>6. calls' \in Nat  BY DEF HostInvoke, IInv, Typed
<1>7. again' \in [Tasks -> Native \cup {None}] /\ \A t \in Tasks : key[t] # 0 => again'[t] \in Native
  BY <1>5 DEF IInv, Typed, Calls
<1> QED  BY <1>1, <1>2, <1>3, <1>4, <1>5, <1>6, <1>7, PushKeeps

LEMMA RetryStep ==
  ASSUME IInv, NEW t \in Tasks, Retry(t)
  PROVE  IInv'
<1> DEFINE f == Frame(again[t], "enter")
<1>1. t \in Agents /\ again[t] \in Native  BY DEF Agents, Retry, IInv, Typed
<1>2. f \in FrameType /\ f.at = "enter"  BY <1>1, FirstFrame
<1>3. frames[t] = <<>>  BY ThreadSyncAssumption DEF Retry, IInv, Calls
<1>4. frames' = [frames EXCEPT ![t] = <<f>>]  BY DEF Retry
<1> HIDE DEF f
<1>5. Append(frames[t], f) = <<f>>  BY <1>3
<1>6. Pushed(t, f)  BY <1>4, <1>5 DEF Pushed
<1>7. /\ cur = None /\ key[t] = 0 /\ cur' = t /\ key' = key
      /\ UNCHANGED <<objects, nextKey, parked, posted>> /\ calls' = calls
      /\ again' = [again EXCEPT ![t] = None]
  BY DEF Retry
<1>8. again' \in [Tasks -> Native \cup {None}] /\ \A u \in Tasks : key[u] # 0 => again'[u] \in Native
  BY <1>7 DEF IInv, Typed, Calls
<1>9. calls' \in Nat  BY <1>7 DEF IInv, Typed
<1> QED  BY <1>1, <1>2, <1>3, <1>6, <1>7, <1>8, <1>9, PushKeeps

\* The frames and the objects are as they were.
LEMMA SchedulerFrame ==
  ASSUME IInv, UNCHANGED <<objects, frames>>
  PROVE  Owners' /\ WakeDue'
<1>1. UNCHANGED <<locked, held, queue, closed, waiters, relay, frames>>  BY DEF objects
<1>2. \A b \in Agents : \A i \in 1..2 : \A m \in Mutexes : Inside(b, i, m)' <=> Inside(b, i, m)
  BY <1>1 DEF Inside
<1>3. Owners'  BY <1>1, <1>2, OwnersFrame DEF IInv
<1>4. WakeDue'  BY <1>1 DEF IInv, WakeDue, Available, Top
<1> QED  BY <1>3, <1>4

LEMMA TakePostedStep ==
  ASSUME IInv, take_posted
  PROVE  IInv'
<1> USE DEF IInv
<1>1. Owners' /\ WakeDue'  BY SchedulerFrame DEF take_posted
<1>2. UNCHANGED <<locked, held, queue, closed, waiters, relay, frames, cur, again, nextKey, parked, calls>>
  BY DEF take_posted, objects
<1>3. cur = None /\ posted' = {} /\ key' = [t \in Tasks |-> IF key[t] \in posted THEN 0 ELSE key[t]]
  BY DEF take_posted, Posted
<1>4. key' \in [Tasks -> 0..(nextKey - 1)] /\ \A t \in Tasks : key'[t] # 0 => key'[t] = key[t] /\ key[t] \notin posted
  <2>1. nextKey \in Nat \ {0} /\ key \in [Tasks -> 0..(nextKey - 1)]  BY DEF Typed
  <2>2. 0 \in 0..(nextKey - 1)  BY <2>1
  <2> QED  BY <1>3, <2>1, <2>2
<1>5. Typed'  BY <1>2, <1>4 DEF Typed
<1>6. Calls'  BY <1>2, <1>4 DEF Calls
<1>7. Listed'
  <2>1. ~parked'  BY <1>2, <1>3 DEF Calls
  <2>2. \A k \in Keys : k \in posted \/ k \in Keys'  BY <1>2 DEF Keys, UnderWay
  <2>3. \A t \in Tasks : key'[t] # 0 => key'[t] \in Keys'  BY <1>4, <2>2 DEF Listed
  <2>4. \A b \in Agents : Top(b)' = Top(b)  BY <1>2 DEF Top
  <2> QED  BY <1>2, <2>1, <2>3, <2>4 DEF Listed
<1> QED  BY <1>1, <1>5, <1>6, <1>7

LEMMA CancelStep ==
  ASSUME IInv, NEW t \in Tasks, Cancel(t)
  PROVE  IInv'
<1> USE DEF IInv
<1>1. Owners' /\ WakeDue'  BY SchedulerFrame DEF Cancel
<1>2. UNCHANGED <<locked, held, queue, closed, waiters, relay, frames, cur, nextKey, parked, posted, calls>>
  BY DEF Cancel, objects
<1>3. key' = [key EXCEPT ![t] = 0] /\ again' = [again EXCEPT ![t] = None]  BY DEF Cancel
<1>4. key' \in [Tasks -> 0..(nextKey - 1)]
  <2>1. nextKey \in Nat \ {0} /\ key \in [Tasks -> 0..(nextKey - 1)]  BY DEF Typed
  <2>2. 0 \in 0..(nextKey - 1)  BY <2>1
  <2> QED  BY <1>3, <2>1, <2>2
<1>5. Typed'  BY <1>2, <1>3, <1>4 DEF Typed
<1>6. \A u \in Tasks : key'[u] # 0 => u # t /\ key'[u] = key[u] /\ again'[u] = again[u]
  BY <1>3 DEF Typed
<1>7. Calls'  BY <1>2, <1>6 DEF Calls
<1>8. Listed'
  <2>1. Keys' = Keys  BY <1>2 DEF Keys, UnderWay
  <2>2. \A b \in Agents : Top(b)' = Top(b)  BY <1>2 DEF Top
  <2> QED  BY <1>2, <1>6, <2>1, <2>2 DEF Listed
<1> QED  BY <1>1, <1>5, <1>7, <1>8

-----------------------------------------------------------------------------
LEMMA Start == Init => IInv
<1> SUFFICES ASSUME Init PROVE IInv  OBVIOUS
<1>1. Typed
  <2>1. <<>> \in Seq(FrameType)  BY EmptySeq
  <2>2. 0 \in 0..(nextKey - 1) /\ nextKey \in Nat \ {0}  BY DEF Init
  <2>3. key \in [Tasks -> 0..(nextKey - 1)]  BY <2>2 DEF Init
  <2> QED  BY <2>1, <2>2, <2>3 DEF Init, Typed
<1>2. \A a \in Agents : frames[a] = <<>>  BY DEF Init
<1>3. Calls
  <2>1. \A a \in Agents : Len(frames[a]) <= 2  BY <1>2, EmptySeq
  <2>2. None \notin Tasks /\ \A t \in Tasks : t \in Agents  BY ThreadSyncAssumption DEF Agents
  <2>3. \A t \in Tasks : frames[t] # <<>> <=> cur = t  BY <1>2, <2>2 DEF Init
  <2> QED  BY <2>1, <2>3 DEF Init, Calls
<1>4. Owners
  <2>1. \A m \in Mutexes : \A a \in Agents : \A i \in 1..2 : ~Inside(a, i, m)
    BY <1>2 DEF Inside
  <2>2. \A m \in Mutexes : \A h \in Hosts : held[h] # m  BY ThreadSyncAssumption DEF Init
  <2>3. locked = {}  BY DEF Init
  <2> QED  BY <2>1, <2>2, <2>3 DEF Owners, Owned, OneSlot, OneFrame, NotBoth
<1>5. Listed  BY DEF Init, Listed
<1>6. WakeDue  BY DEF Init, WakeDue
<1> QED  BY <1>1, <1>3, <1>4, <1>5, <1>6 DEF IInv

LEMMA Invariant == Spec => []IInv
<1>1. IInv /\ [Next]_vars => IInv'
  <2> SUFFICES ASSUME IInv, [Next]_vars PROVE IInv'  OBVIOUS
  <2>1. ASSUME NEW a \in Agents, Step(a) PROVE IInv'
    <3> QED
      BY <2>1, ParkReturnStep, WakeAllStep, PostStep, LockStep, WithLockEndStep, UnlockStep,
         TryLockStep, TryLockHeldStep, SendStep, CloseStep, RecvStep
      DEF Step
  <2>2. ASSUME NEW a \in Agents, NEW n \in Native, HostInvoke(a, n) PROVE IInv'
    BY <2>2, HostInvokeStep
  <2>3. CASE take_posted  BY <2>3, TakePostedStep
  <2>4. ASSUME NEW t \in Tasks, Retry(t) \/ Cancel(t) PROVE IInv'
    BY <2>4, RetryStep, CancelStep
  <2>5. CASE UNCHANGED vars
    <3>1. UNCHANGED <<objects, frames, cur, key, again, nextKey, parked, posted, calls>>
      BY <2>5 DEF vars, wait
    <3>2. Owners' /\ WakeDue'  BY <3>1, SchedulerFrame
    <3>3. UNCHANGED <<locked, held, queue, closed, waiters, relay>>  BY <3>1 DEF objects
    <3>4. Typed' /\ Calls'  BY <3>1, <3>3 DEF IInv, Typed, Calls
    <3>5. Listed'  BY <3>1, <3>3 DEF IInv, Listed, Keys, UnderWay, Top
    <3> QED  BY <3>2, <3>4, <3>5 DEF IInv
  <2> QED  BY <2>1, <2>2, <2>3, <2>4, <2>5 DEF Next
<1> QED  BY Start, <1>1, PTL DEF Spec

\* What one owner means for the numbers of slots and frames.
LEMMA CountOwners ==
  ASSUME IInv, NEW m \in Mutexes
  PROVE  LET slots == {h \in Hosts : held[h] = m}
             inside == {f \in Agents \X (1..2) : Inside(f[1], f[2], m)}
         IN Cardinality(slots) + Cardinality(inside) = IF m \in locked THEN 1 ELSE 0
<1> DEFINE slots == {h \in Hosts : held[h] = m}
           inside == {f \in Agents \X (1..2) : Inside(f[1], f[2], m)}
<1>1. (m \in locked <=> Owned(m)) /\ OneSlot(m) /\ OneFrame(m) /\ NotBoth(m)  BY DEF IInv, Owners
<1>2. Cardinality({}) = 0  BY FS_EmptySet
<1>3. CASE m \notin locked
  <2>1. slots = {}  BY <1>1, <1>3 DEF Owned
  <2>2. inside = {}  BY <1>1, <1>3 DEF Owned
  <2> QED  BY <1>2, <1>3, <2>1, <2>2
<1>4. ASSUME m \in locked, NEW h \in Hosts, held[h] = m
      PROVE  Cardinality(slots) + Cardinality(inside) = 1
  <2>1. slots = {h}
    <3>1. \A g \in slots : g = h  BY <1>1, <1>4 DEF OneSlot
    <3>2. h \in slots  BY <1>4
    <3> QED  BY <3>1, <3>2
  <2>2. inside = {}  BY <1>1, <1>4 DEF NotBoth
  <2>3. Cardinality({h}) = 1  BY FS_Singleton
  <2> QED  BY <1>2, <2>1, <2>2, <2>3
<1>5. ASSUME m \in locked, NEW a \in Agents, NEW i \in 1..2, Inside(a, i, m)
      PROVE  Cardinality(slots) + Cardinality(inside) = 1
  <2>1. slots = {}  BY <1>1, <1>5 DEF NotBoth
  <2>2. <<a, i>> \in inside  BY <1>5
  <2>3. \A f \in inside : f = <<a, i>>
    <3> SUFFICES ASSUME NEW f \in Agents \X (1..2), Inside(f[1], f[2], m) PROVE f = <<a, i>>  OBVIOUS
    <3>1. f[1] = a /\ f[2] = i  BY <1>1, <1>5 DEF OneFrame
    <3> QED  BY <3>1
  <2>4. inside = {<<a, i>>}
    <3> HIDE DEF inside
    <3> QED  BY <2>2, <2>3
  <2>5. Cardinality({<<a, i>>}) = 1  BY FS_Singleton
  <2> QED  BY <1>2, <2>1, <2>4, <2>5
<1>6. m \in locked => Cardinality(slots) + Cardinality(inside) = 1
  BY <1>1, <1>4, <1>5 DEF Owned
<1> QED  BY <1>3, <1>6

(***************************************************************************)
(* A locked mutex has exactly one holder, a slot of HELD_MUTEX, a callback *)
(* of with_lock or a try_lock that decides, and a free one has none, for   *)
(* any number of threads, tasks and mutexes: thread.rs neither lets two in *)
(* nor leaves a mutex locked that nobody can unlock.                       *)
(***************************************************************************)
THEOREM HeldExactTheorem == Spec => []HeldExact
<1>1. IInv => HeldExact
  <2> SUFFICES ASSUME IInv PROVE HeldExact  OBVIOUS
  <2>1. TypeOK
    <3>1. \A t \in Tasks : key[t] \in 0..(nextKey - 1)  BY DEF IInv, Typed
    <3> QED  BY <3>1 DEF IInv, Typed, Calls, TypeOK
  <2> QED  BY <2>1, CountOwners DEF HeldExact
<1> QED  BY Invariant, <1>1, PTL

(***************************************************************************)
(* No wake between threads is missed: the key of a task that a native      *)
(* suspended is on its object's list or on its way to the scheduler, and a *)
(* list with something to tell has a call that is about to wake it.  It    *)
(* rests on park_current and park_unless listing the key before the lock   *)
(* that the other side takes is released, and on wake_all taking the list  *)
(* whole.                                                                  *)
(***************************************************************************)
THEOREM NoMissedWakeTheorem == Spec => []NoMissedWake
<1>1. IInv => NoMissedWake  BY DEF IInv, Listed, Keys, WakeDue, NoMissedWake
<1> QED  BY Invariant, <1>1, PTL
=============================================================================
