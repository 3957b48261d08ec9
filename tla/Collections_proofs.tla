------------------------ MODULE Collections_proofs -------------------------
(***************************************************************************)
(* Proofs about the two collections of the runtime, for every value of     *)
(* their constants.  TaskChannel: the ring buffer is exact, nobody waits   *)
(* in vain, and the channel implements BoundedFifo.  KeyIndex: the counter *)
(* cell is exact, a lookup and a walk over equal hashes are exact, and the *)
(* index implements OrderedKeys.                                           *)
(***************************************************************************)
EXTENDS TaskChannel, KeyIndex, FiniteSetTheorems, SequenceTheorems, TLAPS


\* A task that waits in `send` holds the value it is going to send.
ArgOK == \A t \in Tasks : doing[t] = "send" => arg[t] \in Values

\* The inductive invariant.
IInv == TypeOK /\ ArgOK /\ WindowExact /\ NoStrandedWaiter

-----------------------------------------------------------------------------
\* No wrap: index arithmetic modulo the capacity needs none or one.
LEMMA ModLow == ASSUME NEW C \in Nat \ {0}, NEW a \in 0..(C - 1) PROVE a % C = a
  OBVIOUS
\* One wrap
LEMMA ModHigh == ASSUME NEW C \in Nat \ {0}, NEW a \in C..(2 * C - 1) PROVE a % C = a - C
  OBVIOUS

\* The slot i places after `head`.
LEMMA SlotValue ==
  ASSUME NEW h \in Slots, NEW i \in 0..Capacity
  PROVE  /\ (h + i) % Capacity = IF h + i < Capacity THEN h + i ELSE h + i - Capacity
         /\ (h + i) % Capacity \in Slots
<1> USE ChannelAssumption DEF Slots
<1>1. CASE h + i < Capacity
  <2>1. h + i \in 0..(Capacity - 1)  BY <1>1
  <2>2. (h + i) % Capacity = h + i   BY <2>1, ModLow
  <2> QED  BY <1>1, <2>1, <2>2
<1>2. CASE ~(h + i < Capacity)
  <2>1. h + i \in Capacity..(2 * Capacity - 1)  BY <1>2
  <2>2. (h + i) % Capacity = h + i - Capacity   BY <2>1, ModHigh
  <2> QED  BY <1>2, <2>1, <2>2
<1> QED  BY <1>1, <1>2

Wrapped(h, i) == IF h + i < Capacity THEN h + i ELSE h + i - Capacity

\* SlotAt without modulo
LEMMA SlotAtValue ==
  ASSUME head \in Slots, NEW i \in 0..Capacity
  PROVE  SlotAt(i) = Wrapped(head, i) /\ SlotAt(i) \in Slots
<1> DEFINE h == head
<1>1. h \in Slots  OBVIOUS
<1> HIDE DEF h
<1>2. (h + i) % Capacity = Wrapped(h, i) /\ (h + i) % Capacity \in Slots
  BY <1>1, SlotValue DEF Wrapped
<1> QED  BY <1>2 DEF SlotAt, h

\* The same for the next state
LEMMA SlotAtValueNext ==
  ASSUME head' \in Slots, NEW CONSTANT i \in 0..Capacity
  PROVE  SlotAt(i)' = Wrapped(head', i) /\ SlotAt(i)' \in Slots
<1> DEFINE h == head'
<1>1. h \in Slots  OBVIOUS
<1> HIDE DEF h
<1>2. (h + i) % Capacity = Wrapped(h, i) /\ (h + i) % Capacity \in Slots
  BY <1>1, SlotValue DEF Wrapped
<1> QED  BY <1>2 DEF SlotAt, h

\* Advancing `head`
LEMMA NextHeadValue ==
  ASSUME head \in Slots
  PROVE  /\ NextHead \in Slots
         /\ NextHead = IF head + 1 < Capacity THEN head + 1 ELSE 0
<1> USE ChannelAssumption DEF Slots
<1>1. 1 \in 0..Capacity  OBVIOUS
<1>2. SlotAt(1) = Wrapped(head, 1) /\ SlotAt(1) \in Slots  BY <1>1, SlotAtValue
<1>3. NextHead = SlotAt(1)  BY DEF NextHead, SlotAt
<1> QED  BY <1>2, <1>3 DEF Wrapped

-----------------------------------------------------------------------------
\* What the two operations on the ring do to it.
Pushed(v) == /\ ~closed /\ len # Capacity
             /\ buf' = [buf EXCEPT ![SlotAt(len)] = v] /\ len' = len + 1 /\ head' = head
Popped == /\ len # 0
          /\ buf' = [buf EXCEPT ![head] = Vacated] /\ head' = NextHead /\ len' = len - 1

\* A push fills the first free slot of the window.
LEMMA PushExact ==
  ASSUME TypeOK, WindowExact, NEW v \in Values, Pushed(v)
  PROVE  /\ buf' \in [Slots -> Values \cup {Empty}] /\ head' \in Slots /\ len' \in 0..Capacity
         /\ WindowExact'
         /\ Contents' = Append(Contents, v)
<1> USE ChannelAssumption DEF Slots
<1>1. head \in Slots /\ len \in 0..(Capacity - 1) /\ len' = len + 1 /\ head' = head
      /\ buf \in [Slots -> Values \cup {Empty}]
  BY DEF TypeOK, Pushed
<1>2. \A i \in 0..(Capacity - 1) : SlotAt(i) \in Slots /\ SlotAt(i)' = SlotAt(i)
                                   /\ (SlotAt(i) = SlotAt(len) => i = len)
  <2>1. len \in 0..Capacity /\ \A i \in 0..(Capacity - 1) : i \in 0..Capacity  BY <1>1
  <2>2. \A i \in 0..(Capacity - 1) : SlotAt(i) = Wrapped(head, i) /\ SlotAt(i) \in Slots
    BY <1>1, <2>1, SlotAtValue
  <2>3. SlotAt(len) = Wrapped(head, len)  BY <1>1, <2>1, SlotAtValue
  <2>4. \A i \in 0..(Capacity - 1) : SlotAt(i)' = SlotAt(i)  BY <1>1 DEF SlotAt
  <2>5. \A i \in 0..(Capacity - 1) : Wrapped(head, i) = Wrapped(head, len) => i = len
    BY <1>1 DEF Wrapped
  <2> QED  BY <2>2, <2>3, <2>4, <2>5
<1>3. buf' = [buf EXCEPT ![SlotAt(len)] = v]  BY DEF Pushed
<1>4. buf'[SlotAt(len)] = v /\ \A j \in Slots : j # SlotAt(len) => buf'[j] = buf[j]
  BY <1>1, <1>2, <1>3
<1>5. \A i \in 0..(Capacity - 1) : buf'[SlotAt(i)] = IF i = len THEN v ELSE buf[SlotAt(i)]
  BY <1>1, <1>2, <1>4
<1>6. WindowExact'
  <2>1. \A i \in 0..(Capacity - 1) : (buf'[SlotAt(i)] # Empty) <=> i < len + 1
    BY <1>1, <1>5 DEF WindowExact
  <2> QED  BY <1>1, <1>2, <2>1 DEF WindowExact
<1>7. Contents' = Append(Contents, v)
  <2>1. Contents' = [i \in 1..(len + 1) |-> buf'[SlotAt(i - 1)']]  BY <1>1 DEF Contents
  <2>2. \A i \in 1..(len + 1) : /\ i - 1 \in 0..(Capacity - 1)
                                /\ (i - 1 = len <=> i = len + 1)
                                /\ (i # len + 1 => i \in 1..len)
    BY <1>1
  <2>3. \A i \in 1..(len + 1) : buf'[SlotAt(i - 1)'] = IF i = len + 1 THEN v ELSE Contents[i]
    BY <1>2, <1>5, <2>2 DEF Contents
  <2>4. Contents \in Seq(Values \cup {Empty}) /\ Len(Contents) = len
    <3>1. \A i \in 1..len : buf[SlotAt(i - 1)] \in Values \cup {Empty}
      BY <1>1, <1>2
    <3> QED  BY <1>1, <3>1 DEF Contents
  <2>5. Append(Contents, v) = [i \in 1..(len + 1) |-> IF i = len + 1 THEN v ELSE Contents[i]]
    BY <1>1, <2>4
  <2> QED  BY <2>1, <2>3, <2>5
<1>8. buf' \in [Slots -> Values \cup {Empty}]  BY <1>1, <1>2, <1>3
<1> QED  BY <1>1, <1>6, <1>7, <1>8

\* A pop empties the first slot of the window and moves the window on.
LEMMA PopExact ==
  ASSUME TypeOK, WindowExact, Popped
  PROVE  /\ buf' \in [Slots -> Values \cup {Empty}] /\ head' \in Slots /\ len' \in 0..Capacity
         /\ WindowExact'
         /\ buf[head] \in Values
         /\ Contents # <<>> /\ Head(Contents) = buf[head] /\ Contents' = Tail(Contents)
<1> USE ChannelAssumption DEF Slots
<1>1. head \in Slots /\ len \in 1..Capacity /\ len' = len - 1 /\ head' = NextHead
      /\ buf \in [Slots -> Values \cup {Empty}]
  BY DEF TypeOK, Popped
<1>2. NextHead \in Slots /\ NextHead = IF head + 1 < Capacity THEN head + 1 ELSE 0
  BY <1>1, NextHeadValue
<1>a. \A i \in 0..(Capacity - 1) : i \in 0..Capacity  OBVIOUS
<1>b. \A i \in 0..(Capacity - 1) : SlotAt(i) = Wrapped(head, i) /\ SlotAt(i) \in Slots
  BY <1>1, <1>a, SlotAtValue
<1>c. \A i \in 0..(Capacity - 1) : SlotAt(i)' = Wrapped(NextHead, i) /\ SlotAt(i)' \in Slots
  BY <1>1, <1>2, <1>a, SlotAtValueNext
<1>3. \A i \in 0..(Capacity - 1) : SlotAt(i) \in Slots /\ SlotAt(i)' \in Slots
                                   /\ (SlotAt(i) = head <=> i = 0)
  <2>1. \A i \in 0..(Capacity - 1) : Wrapped(head, i) = head <=> i = 0  BY <1>1 DEF Wrapped
  <2> QED  BY <1>b, <1>c, <2>1
<1>4. \A i \in 0..(Capacity - 2) : SlotAt(i)' = SlotAt(i + 1)
  <2>1. \A i \in 0..(Capacity - 2) : i \in 0..(Capacity - 1) /\ i + 1 \in 0..(Capacity - 1)
                                     /\ Wrapped(NextHead, i) = Wrapped(head, i + 1)
    BY <1>1, <1>2 DEF Wrapped
  <2> QED  BY <1>b, <1>c, <2>1
<1>5. SlotAt(Capacity - 1)' = head
  <2>1. Capacity - 1 \in 0..(Capacity - 1) /\ Wrapped(NextHead, Capacity - 1) = head
    BY <1>1, <1>2 DEF Wrapped
  <2> QED  BY <1>c, <2>1
<1>6. /\ buf'[head] = Empty /\ \A j \in Slots : j # head => buf'[j] = buf[j]
      /\ buf' \in [Slots -> Values \cup {Empty}]
  <2>1. buf' = [buf EXCEPT ![head] = Empty]  BY DEF Popped, Vacated
  <2> QED  BY <1>1, <2>1
<1>7. \A i \in 0..(Capacity - 2) : buf'[SlotAt(i)'] = buf[SlotAt(i + 1)]
  <2>1. \A i \in 0..(Capacity - 2) : i + 1 \in 0..(Capacity - 1) /\ i + 1 # 0  OBVIOUS
  <2>2. \A i \in 0..(Capacity - 2) : SlotAt(i + 1) \in Slots /\ SlotAt(i + 1) # head
    BY <1>3, <2>1
  <2> QED  BY <1>4, <1>6, <2>2
<1>8. WindowExact'
  <2>1. \A i \in 0..(Capacity - 2) : (buf'[SlotAt(i)'] # Empty) <=> i < len - 1
    BY <1>1, <1>7 DEF WindowExact
  <2>2. (buf'[SlotAt(Capacity - 1)'] # Empty) <=> Capacity - 1 < len - 1
    BY <1>1, <1>5, <1>6
  <2>3. \A i \in 0..(Capacity - 1) : i = Capacity - 1 \/ i \in 0..(Capacity - 2)  OBVIOUS
  <2>4. \A i \in 0..(Capacity - 1) : (buf'[SlotAt(i)'] # Empty) <=> i < len - 1
    BY <2>1, <2>2, <2>3
  <2> QED  BY <1>1, <2>4 DEF WindowExact
<1>9. SlotAt(0) = head /\ buf[head] \in Values
  <2>1. SlotAt(0) = head  BY <1>1, <1>3
  <2>2. buf[SlotAt(0)] # Empty  BY <1>1 DEF WindowExact
  <2> QED  BY <1>1, <2>1, <2>2
<1>10. Contents \in Seq(Values \cup {Empty}) /\ Len(Contents) = len
  <2>1. \A i \in 1..len : i - 1 \in 0..(Capacity - 1)  BY <1>1
  <2>2. \A i \in 1..len : SlotAt(i - 1) \in Slots  BY <1>3, <2>1
  <2>3. \A i \in 1..len : buf[SlotAt(i - 1)] \in Values \cup {Empty}
    BY <1>1, <2>2
  <2> QED  BY <1>1, <2>3 DEF Contents
<1>11. Contents # <<>> /\ Head(Contents) = buf[head]
  <2>1. Contents[1] = buf[SlotAt(0)]  BY <1>1 DEF Contents
  <2> QED  BY <1>1, <1>9, <1>10, <2>1
<1>12. Contents' = Tail(Contents)
  <2>1. Contents' = [i \in 1..(len - 1) |-> buf'[SlotAt(i - 1)']]  BY <1>1 DEF Contents
  <2>2. \A i \in 1..(len - 1) : i - 1 \in 0..(Capacity - 2) /\ i + 1 \in 1..len /\ (i - 1) + 1 = (i + 1) - 1
    BY <1>1
  <2>3. \A i \in 1..(len - 1) : buf'[SlotAt(i - 1)'] = buf[SlotAt((i - 1) + 1)]
    BY <1>7, <2>2
  <2>4. \A i \in 1..(len - 1) : Contents[i + 1] = buf[SlotAt((i + 1) - 1)]
    BY <2>2 DEF Contents
  <2>5. Tail(Contents) = [i \in 1..(len - 1) |-> Contents[i + 1]]
    BY <1>1, <1>10, <1>11
  <2>6. \A i \in 1..(len - 1) : buf'[SlotAt(i - 1)'] = Contents[i + 1]
    BY <2>2, <2>3, <2>4
  <2> QED  BY <2>1, <2>5, <2>6
<1> QED  BY <1>1, <1>2, <1>6, <1>8, <1>9, <1>11, <1>12
\* The abstract queue has `len` elements.
LEMMA ContentsLen ==
  ASSUME TypeOK
  PROVE  Contents \in Seq(Values \cup {Empty}) /\ Len(Contents) = len /\ (Contents = <<>> <=> len = 0)
<1> USE ChannelAssumption DEF Slots
<1>1. head \in Slots /\ len \in 0..Capacity /\ buf \in [Slots -> Values \cup {Empty}]  BY DEF TypeOK
<1>2. \A i \in 1..len : i - 1 \in 0..Capacity  BY <1>1
<1>3. \A i \in 1..len : SlotAt(i - 1) \in Slots  BY <1>1, <1>2, SlotAtValue
<1>4. \A i \in 1..len : buf[SlotAt(i - 1)] \in Values \cup {Empty}  BY <1>1, <1>3
<1>5. Contents \in Seq(Values \cup {Empty}) /\ Len(Contents) = len  BY <1>1, <1>4 DEF Contents
<1> QED  BY <1>1, <1>5

-----------------------------------------------------------------------------
\* Leaving a call touches only the record of the task.
LEMMA ReturnsTyped ==
  ASSUME TypeOK, ArgOK, NEW t \in Tasks, NEW k \in OutcomeKind, NEW v \in Values \cup {Empty},
         Returns(t, Outcome(k, v))
  PROVE  /\ doing' \in [Tasks -> {"other", "send", "recv", "ended"}]
         /\ arg' \in [Tasks -> Values \cup {Empty}]
         /\ result' \in [Tasks -> [is: OutcomeKind, value: Values \cup {Empty}]]
         /\ doing'[t] = "other" /\ \A u \in Tasks \ {t} : doing'[u] = doing[u]
         /\ ArgOK'
<1>1. Outcome(k, v) \in [is: OutcomeKind, value: Values \cup {Empty}]  BY DEF Outcome
<1> QED  BY <1>1 DEF Returns, TypeOK, ArgOK

\* try_send keeps the invariant and is a step of the queue.
LEMMA TrySendStep ==
  ASSUME IInv, NEW t \in Tasks, NEW v \in Values, TrySend(t, v), waits[t] = "no",
         UNCHANGED halted
  PROVE  IInv' /\ Fifo!Next
<1> USE ChannelAssumption
<1>0. TypeOK /\ ArgOK /\ WindowExact /\ NoStrandedWaiter  BY DEF IInv
<1>1. CASE closed /\ Returns(t, Outcome("sendClosed", Empty)) /\ UNCHANGED <<chanVars, waits>>
  <2>1. "sendClosed" \in OutcomeKind /\ Empty \in Values \cup {Empty}  BY DEF OutcomeKind
  <2>2. IInv'
    <3>1. TypeOK' /\ ArgOK'  BY <1>0, <1>1, <2>1, ReturnsTyped DEF TypeOK, chanVars
    <3>2. WindowExact'  BY <1>0, <1>1 DEF WindowExact, SlotAt, chanVars
    <3>3. NoStrandedWaiter'
      BY <1>0, <1>1, <2>1, ReturnsTyped DEF NoStrandedWaiter, MustWaitToRecv, MustWaitToSend, chanVars
    <3> QED  BY <3>1, <3>2, <3>3 DEF IInv
  <2>3. Contents' = Contents /\ closed' = closed  BY <1>1 DEF Contents, SlotAt, chanVars
  <2>4. Fifo!RefuseClosed(t)
    BY <1>1, <2>3 DEF Fifo!RefuseClosed, Fifo!Fail, Fifo!Outcome, Outcome, Returns
  <2> QED  BY <2>2, <2>4 DEF Fifo!Next
<1>2. CASE ~closed /\ len = Capacity /\ Returns(t, Outcome("full", Empty)) /\ UNCHANGED <<chanVars, waits>>
  <2>1. "full" \in OutcomeKind /\ Empty \in Values \cup {Empty}  BY DEF OutcomeKind
  <2>2. IInv'
    <3>1. TypeOK' /\ ArgOK'  BY <1>0, <1>2, <2>1, ReturnsTyped DEF TypeOK, chanVars
    <3>2. WindowExact'  BY <1>0, <1>2 DEF WindowExact, SlotAt, chanVars
    <3>3. NoStrandedWaiter'
      BY <1>0, <1>2, <2>1, ReturnsTyped DEF NoStrandedWaiter, MustWaitToRecv, MustWaitToSend, chanVars
    <3> QED  BY <3>1, <3>2, <3>3 DEF IInv
  <2>3. Contents' = Contents /\ closed' = closed  BY <1>2 DEF Contents, SlotAt, chanVars
  <2>4. Len(Contents) = len  BY <1>0, ContentsLen
  <2>5. Fifo!RefuseFull(t)
    BY <1>2, <2>3, <2>4 DEF Fifo!RefuseFull, Fifo!Fail, Fifo!Outcome, Outcome, Returns
  <2> QED  BY <2>2, <2>5 DEF Fifo!Next
<1>3. CASE /\ ~closed /\ len # Capacity
           /\ buf' = [buf EXCEPT ![SlotAt(len)] = v] /\ len' = len + 1
           /\ waits' = Notified(waits, "readers")
           /\ Returns(t, Outcome("sent", v)) /\ UNCHANGED <<head, closed>>
  <2>1. "sent" \in OutcomeKind /\ v \in Values \cup {Empty}  BY DEF OutcomeKind
  <2>2. Pushed(v)  BY <1>3 DEF Pushed
  <2>3. /\ buf' \in [Slots -> Values \cup {Empty}] /\ head' \in Slots /\ len' \in 0..Capacity
        /\ WindowExact' /\ Contents' = Append(Contents, v)
    BY <1>0, <2>2, PushExact
  <2>4. IInv'
    <3>1. waits' \in [Tasks -> {"no", "readers", "writers"}]
      BY <1>0, <1>3 DEF TypeOK, Notified
    <3>2. TypeOK' /\ ArgOK'  BY <1>0, <1>3, <2>1, <2>3, <3>1, ReturnsTyped DEF TypeOK
    <3>3. NoStrandedWaiter'
      <4>1. \A u \in Tasks : waits[u] # "writers"
        BY <1>0, <1>3 DEF NoStrandedWaiter, MustWaitToSend
      <4>2. \A u \in Tasks : waits'[u] = "no"
        BY <1>0, <1>3, <4>1 DEF TypeOK, Notified
      <4> QED  BY <4>2 DEF NoStrandedWaiter
    <3> QED  BY <2>3, <3>2, <3>3 DEF IInv
  <2>5. Len(Contents) = len /\ len \in 0..Capacity  BY <1>0, ContentsLen DEF TypeOK
  <2>6. Fifo!Put(t, v)
    BY <1>3, <2>3, <2>5 DEF Fifo!Put, Fifo!Outcome, Outcome, Returns
  <2> QED  BY <2>4, <2>6 DEF Fifo!Next
<1> QED  BY <1>1, <1>2, <1>3 DEF TrySend

\* try_recv keeps the invariant and is a step of the queue.
LEMMA TryRecvStep ==
  ASSUME IInv, NEW t \in Tasks, TryRecv(t), waits[t] = "no", UNCHANGED halted
  PROVE  IInv' /\ Fifo!Next
<1> USE ChannelAssumption
<1>0. TypeOK /\ ArgOK /\ WindowExact /\ NoStrandedWaiter  BY DEF IInv
<1>1. CASE len = 0 /\ closed /\ Returns(t, Outcome("recvClosed", Empty)) /\ UNCHANGED <<chanVars, waits>>
  <2>1. "recvClosed" \in OutcomeKind /\ Empty \in Values \cup {Empty}  BY DEF OutcomeKind
  <2>2. IInv'
    <3>1. TypeOK' /\ ArgOK'  BY <1>0, <1>1, <2>1, ReturnsTyped DEF TypeOK, chanVars
    <3>2. WindowExact'  BY <1>0, <1>1 DEF WindowExact, SlotAt, chanVars
    <3>3. NoStrandedWaiter'
      BY <1>0, <1>1, <2>1, ReturnsTyped DEF NoStrandedWaiter, MustWaitToRecv, MustWaitToSend, chanVars
    <3> QED  BY <3>1, <3>2, <3>3 DEF IInv
  <2>3. Contents' = Contents /\ closed' = closed  BY <1>1 DEF Contents, SlotAt, chanVars
  <2>4. Contents = <<>>  BY <1>0, <1>1, ContentsLen
  <2>5. Fifo!Drained(t)
    BY <1>1, <2>3, <2>4 DEF Fifo!Drained, Fifo!Fail, Fifo!Outcome, Outcome, Returns
  <2> QED  BY <2>2, <2>5 DEF Fifo!Next
<1>2. CASE len = 0 /\ ~closed /\ Returns(t, Outcome("empty", Empty)) /\ UNCHANGED <<chanVars, waits>>
  <2>1. "empty" \in OutcomeKind /\ Empty \in Values \cup {Empty}  BY DEF OutcomeKind
  <2>2. IInv'
    <3>1. TypeOK' /\ ArgOK'  BY <1>0, <1>2, <2>1, ReturnsTyped DEF TypeOK, chanVars
    <3>2. WindowExact'  BY <1>0, <1>2 DEF WindowExact, SlotAt, chanVars
    <3>3. NoStrandedWaiter'
      BY <1>0, <1>2, <2>1, ReturnsTyped DEF NoStrandedWaiter, MustWaitToRecv, MustWaitToSend, chanVars
    <3> QED  BY <3>1, <3>2, <3>3 DEF IInv
  <2>3. Contents' = Contents /\ closed' = closed  BY <1>2 DEF Contents, SlotAt, chanVars
  <2>4. Contents = <<>>  BY <1>0, <1>2, ContentsLen
  <2>5. Fifo!RefuseEmpty(t)
    BY <1>2, <2>3, <2>4 DEF Fifo!RefuseEmpty, Fifo!Fail, Fifo!Outcome, Outcome, Returns
  <2> QED  BY <2>2, <2>5 DEF Fifo!Next
<1>3. CASE /\ len # 0
           /\ buf' = [buf EXCEPT ![head] = Vacated] /\ head' = NextHead /\ len' = len - 1
           /\ waits' = Notified(waits, "writers")
           /\ Returns(t, Outcome("received", buf[head])) /\ UNCHANGED closed
  <2>1. Popped  BY <1>3 DEF Popped
  <2>2. /\ buf' \in [Slots -> Values \cup {Empty}] /\ head' \in Slots /\ len' \in 0..Capacity
        /\ WindowExact' /\ buf[head] \in Values
        /\ Contents # <<>> /\ Head(Contents) = buf[head] /\ Contents' = Tail(Contents)
    BY <1>0, <2>1, PopExact
  <2>3. "received" \in OutcomeKind /\ buf[head] \in Values \cup {Empty}  BY <2>2 DEF OutcomeKind
  <2>4. IInv'
    <3>1. waits' \in [Tasks -> {"no", "readers", "writers"}]
      BY <1>0, <1>3 DEF TypeOK, Notified
    <3>2. TypeOK' /\ ArgOK'  BY <1>0, <1>3, <2>2, <2>3, <3>1, ReturnsTyped DEF TypeOK
    <3>3. NoStrandedWaiter'
      <4>1. \A u \in Tasks : waits[u] # "readers"
        BY <1>0, <1>3 DEF NoStrandedWaiter, MustWaitToRecv
      <4>2. \A u \in Tasks : waits'[u] = "no"
        BY <1>0, <1>3, <4>1 DEF TypeOK, Notified
      <4> QED  BY <4>2 DEF NoStrandedWaiter
    <3> QED  BY <2>2, <3>2, <3>3 DEF IInv
  <2>5. Fifo!Take(t)
    BY <1>3, <2>2 DEF Fifo!Take, Fifo!Outcome, Outcome, Returns
  <2> QED  BY <2>4, <2>5 DEF Fifo!Next
<1> QED  BY <1>1, <1>2, <1>3 DEF TryRecv

\* Starting to wait keeps the invariant; the queue sees a call begin.
LEMMA CondWaitStep ==
  ASSUME IInv, NEW t \in Tasks, NEW c, NEW call, NEW v, CondWait(t, c, call, v),
         \/ c = "writers" /\ call = "send" /\ MustWaitToSend /\ v \in Values
         \/ c = "readers" /\ call = "recv" /\ MustWaitToRecv /\ v = Empty,
         waits[t] = "no"
  PROVE  IInv' /\ Fifo!Next
<1>0. TypeOK /\ ArgOK /\ WindowExact /\ NoStrandedWaiter  BY DEF IInv
<1>1. UNCHANGED <<buf, head, len, closed>>  BY DEF CondWait, chanVars
<1>2. halted' \in BOOLEAN
  <2>1. halted' = Alone(t)  BY DEF CondWait
  <2> QED  BY <2>1, Zenon DEF Alone
<1>3. /\ doing' = [doing EXCEPT ![t] = call] /\ arg' = [arg EXCEPT ![t] = v]
      /\ result' = [result EXCEPT ![t] = Pending]
      /\ waits' = waits \/ waits' = [waits EXCEPT ![t] = c]
  BY DEF CondWait
<1>4. Pending \in [is: OutcomeKind, value: Values \cup {Empty}]  BY DEF Pending, Outcome, OutcomeKind
<1>5. TypeOK' /\ ArgOK'
  BY <1>0, <1>1, <1>2, <1>3, <1>4 DEF TypeOK, ArgOK
<1>6. WindowExact'  BY <1>0, <1>1 DEF WindowExact, SlotAt
<1>7. NoStrandedWaiter'
  BY <1>0, <1>1, <1>3 DEF TypeOK, NoStrandedWaiter, MustWaitToRecv, MustWaitToSend
<1>8. Fifo!Begin(t)
  <2>1. Contents' = Contents  BY <1>1 DEF Contents, SlotAt
  <2> QED  BY <1>1, <1>3, <2>1 DEF Fifo!Begin, Fifo!Pending, Fifo!Outcome, Pending, Outcome
<1> QED  BY <1>5, <1>6, <1>7, <1>8 DEF IInv, Fifo!Next

\* A turn of the loop of `send`
LEMMA SendStepStep ==
  ASSUME IInv, NEW t \in Tasks, NEW v \in Values, SendStep(t, v), waits[t] = "no"
  PROVE  IInv' /\ Fifo!Next
<1>1. CASE MustWaitToSend /\ CondWait(t, "writers", "send", v)  BY <1>1, CondWaitStep
<1>2. CASE TrySend(t, v) /\ UNCHANGED halted  BY <1>2, TrySendStep
<1> QED  BY <1>1, <1>2 DEF SendStep

\* A turn of the loop of `recv`
LEMMA RecvStepStep ==
  ASSUME IInv, NEW t \in Tasks, RecvStep(t), waits[t] = "no"
  PROVE  IInv' /\ Fifo!Next
<1>1. CASE MustWaitToRecv /\ CondWait(t, "readers", "recv", Empty)  BY <1>1, CondWaitStep
<1>2. CASE TryRecv(t) /\ UNCHANGED halted  BY <1>2, TryRecvStep
<1> QED  BY <1>1, <1>2 DEF RecvStep

\* A task that is in no call waits on nothing.
LEMMA RunsAwake ==
  ASSUME IInv, NEW t \in Tasks, Runs(t)
  PROVE  waits[t] = "no"
BY DEF IInv, TypeOK, NoStrandedWaiter, Runs

\* Every step keeps the invariant and is a step or a stutter of the queue.
LEMMA StepLemma ==
  ASSUME IInv, [Next]_vars
  PROVE  IInv' /\ [Fifo!Next]_<<Contents, closed, result>>
<1> USE ChannelAssumption
<1>0. TypeOK /\ ArgOK /\ WindowExact /\ NoStrandedWaiter  BY DEF IInv
<1>1. ASSUME NEW t \in Tasks, NEW v \in Values, Send(t, v)
      PROVE  IInv' /\ Fifo!Next
  BY <1>1, RunsAwake, SendStepStep DEF Send
<1>2. ASSUME NEW t \in Tasks, NEW v \in Values, CallTrySend(t, v)
      PROVE  IInv' /\ Fifo!Next
  BY <1>2, RunsAwake, TrySendStep DEF CallTrySend
<1>3. ASSUME NEW t \in Tasks, Recv(t)
      PROVE  IInv' /\ Fifo!Next
  BY <1>3, RunsAwake, RecvStepStep DEF Recv
<1>4. ASSUME NEW t \in Tasks, CallTryRecv(t)
      PROVE  IInv' /\ Fifo!Next
  BY <1>4, RunsAwake, TryRecvStep DEF CallTryRecv
<1>5. ASSUME NEW t \in Tasks, Resume(t)
      PROVE  IInv' /\ Fifo!Next
  <2>1. waits[t] = "no"  BY <1>5 DEF Resume
  <2>2. CASE doing[t] = "send" /\ SendStep(t, arg[t])
    <3>1. arg[t] \in Values  BY <1>0, <2>2 DEF ArgOK
    <3> QED  BY <2>1, <2>2, <3>1, SendStepStep
  <2>3. CASE doing[t] = "recv" /\ RecvStep(t)  BY <2>1, <2>3, RecvStepStep
  <2> QED  BY <1>5, <2>2, <2>3 DEF Resume
<1>6. ASSUME NEW t \in Tasks, Close(t)
      PROVE  IInv' /\ Fifo!Next
  <2>1. closed' = TRUE /\ UNCHANGED <<buf, head, len, doing, arg, result, halted>>
        /\ waits' = Notified(Notified(waits, "readers"), "writers")
    BY <1>6 DEF Close, CloseWakes
  <2>2. \A u \in Tasks : waits'[u] = "no"
    BY <1>0, <2>1 DEF TypeOK, Notified
  <2>3. waits' \in [Tasks -> {"no", "readers", "writers"}]
    BY <1>0, <2>1 DEF TypeOK, Notified
  <2>4. TypeOK' /\ ArgOK'  BY <1>0, <2>1, <2>3 DEF TypeOK, ArgOK
  <2>5. WindowExact'  BY <1>0, <2>1 DEF WindowExact, SlotAt
  <2>6. NoStrandedWaiter'  BY <2>2 DEF NoStrandedWaiter
  <2>7. Contents' = Contents  BY <2>1 DEF Contents, SlotAt
  <2>8. Fifo!Shut  BY <2>1, <2>7 DEF Fifo!Shut
  <2> QED  BY <2>4, <2>5, <2>6, <2>8 DEF IInv, Fifo!Next
<1>7. ASSUME NEW t \in Tasks, CancelCall(t)
      PROVE  IInv' /\ Fifo!Next
  <2>1. UNCHANGED <<buf, head, len, closed, halted>> /\ waits' = [waits EXCEPT ![t] = "no"]
        /\ Returns(t, Outcome("pending", Empty))
    BY <1>7 DEF CancelCall, chanVars, Pending
  <2>2. "pending" \in OutcomeKind /\ Empty \in Values \cup {Empty}  BY DEF OutcomeKind
  <2>3. TypeOK' /\ ArgOK'  BY <1>0, <2>1, <2>2, ReturnsTyped DEF TypeOK
  <2>4. WindowExact'  BY <1>0, <2>1 DEF WindowExact, SlotAt
  <2>5. NoStrandedWaiter'
    BY <1>0, <2>1, <2>2, ReturnsTyped DEF TypeOK, NoStrandedWaiter, MustWaitToRecv, MustWaitToSend
  <2>6. Contents' = Contents  BY <2>1 DEF Contents, SlotAt
  <2>7. Fifo!Begin(t)
    BY <2>1, <2>6 DEF Fifo!Begin, Fifo!Pending, Fifo!Outcome, Outcome, Returns
  <2> QED  BY <2>3, <2>4, <2>5, <2>7 DEF IInv, Fifo!Next
<1>8. ASSUME UNCHANGED <<buf, head, len, closed, arg, waits, result>>, halted' \in BOOLEAN,
             \/ doing' = doing
             \/ \E t \in Tasks : doing[t] = "other" /\ doing' = [doing EXCEPT ![t] = "ended"]
      PROVE  IInv' /\ UNCHANGED <<Contents, closed, result>>
  <2>1. TypeOK' /\ ArgOK'  BY <1>0, <1>8 DEF TypeOK, ArgOK
  <2>2. WindowExact'  BY <1>0, <1>8 DEF WindowExact, SlotAt
  <2>3. NoStrandedWaiter'
    BY <1>0, <1>8 DEF TypeOK, NoStrandedWaiter, MustWaitToRecv, MustWaitToSend
  <2>4. Contents' = Contents  BY <1>8 DEF Contents, SlotAt
  <2> QED  BY <1>8, <2>1, <2>2, <2>3, <2>4 DEF IInv
<1>9. ASSUME NEW t \in Tasks, End(t)
      PROVE  IInv' /\ UNCHANGED <<Contents, closed, result>>
  <2>1. halted' \in BOOLEAN  BY <1>0, <1>9 DEF TypeOK, End
  <2>2. doing[t] = "other" /\ doing' = [doing EXCEPT ![t] = "ended"]
        /\ UNCHANGED <<buf, head, len, closed, arg, waits, result>>
    BY <1>9 DEF End, Runs, chanVars
  <2> QED  BY <2>1, <2>2, <1>8
<1>10. ASSUME Deadlock
       PROVE  IInv' /\ UNCHANGED <<Contents, closed, result>>
  <2>1. UNCHANGED <<buf, head, len, closed, doing, arg, waits, result>> /\ halted' \in BOOLEAN
    BY <1>10 DEF Deadlock, chanVars
  <2> QED  BY <2>1, <1>8
<1>11. ASSUME UNCHANGED vars
       PROVE  IInv' /\ UNCHANGED <<Contents, closed, result>>
  <2>1. UNCHANGED <<buf, head, len, closed, doing, arg, waits, result>> /\ halted' \in BOOLEAN
    BY <1>0, <1>11 DEF vars, TypeOK
  <2> QED  BY <2>1, <1>8
<1>12. ASSUME NEW t \in Tasks, TaskStep(t)
       PROVE  IInv' /\ [Fifo!Next]_<<Contents, closed, result>>
  <2>1. CASE \E v \in Values : Send(t, v) \/ CallTrySend(t, v)  BY <2>1, <1>1, <1>2
  <2>2. CASE Recv(t) \/ CallTryRecv(t)  BY <2>2, <1>3, <1>4
  <2>3. CASE Close(t) \/ Resume(t)  BY <2>3, <1>5, <1>6
  <2>4. CASE CancelCall(t) \/ End(t)  BY <2>4, <1>7, <1>9
  <2> QED  BY <1>12, <2>1, <2>2, <2>3, <2>4 DEF TaskStep
<1> QED  BY <1>10, <1>11, <1>12 DEF Next, Terminated

\* The program starts with an empty, open channel.
LEMMA InitLemma == Init => IInv /\ Fifo!Init
<1> USE ChannelAssumption
<1> SUFFICES ASSUME Init PROVE IInv /\ Fifo!Init  OBVIOUS
<1>1. TypeOK
  <2>1. Pending \in [is: OutcomeKind, value: Values \cup {Empty}]  BY DEF Pending, Outcome, OutcomeKind
  <2>2. closed \in BOOLEAN /\ halted \in BOOLEAN  BY DEF Init
  <2>3. head \in Slots /\ len \in 0..Capacity  BY DEF Init, Slots
  <2>4. buf \in [Slots -> Values \cup {Empty}] /\ arg \in [Tasks -> Values \cup {Empty}]  BY DEF Init
  <2>5. /\ doing \in [Tasks -> {"other", "send", "recv", "ended"}]
        /\ waits \in [Tasks -> {"no", "readers", "writers"}]
    BY DEF Init
  <2>6. result \in [Tasks -> [is: OutcomeKind, value: Values \cup {Empty}]]  BY <2>1 DEF Init
  <2> QED  BY <2>2, <2>3, <2>4, <2>5, <2>6 DEF TypeOK
<1>2. ArgOK /\ NoStrandedWaiter  BY DEF Init, ArgOK, NoStrandedWaiter
<1>3. WindowExact
  <2>1. \A i \in 0..(Capacity - 1) : i \in 0..Capacity  OBVIOUS
  <2>2. \A i \in 0..(Capacity - 1) : SlotAt(i) \in Slots
    BY <1>1, <2>1, SlotAtValue DEF TypeOK
  <2>3. \A i \in 0..(Capacity - 1) : buf[SlotAt(i)] = Empty  BY <2>2 DEF Init
  <2> QED  BY <2>3 DEF Init, WindowExact
<1>4. Fifo!Init
  <2>1. Contents = <<>>  BY <1>1, ContentsLen DEF Init
  <2> QED  BY <2>1 DEF Init, Fifo!Init, Fifo!Pending, Fifo!Outcome, Pending, Outcome
<1> QED  BY <1>1, <1>2, <1>3, <1>4 DEF IInv

-----------------------------------------------------------------------------
\* The inductive invariant holds in every reachable state.
THEOREM ChannelInvariance == Spec => []IInv
<1>1. Init => IInv  BY InitLemma
<1>2. IInv /\ [Next]_vars => IInv'  BY StepLemma
<1> QED  BY <1>1, <1>2, PTL DEF Spec

\* No task sleeps in `send` or `recv` while its call could go on, for every
\* capacity and every number of tasks.
THEOREM NobodyStranded == Spec => []NoStrandedWaiter
<1>1. IInv => NoStrandedWaiter  BY DEF IInv
<1> QED  BY <1>1, ChannelInvariance, PTL

\* The values of the ring buffer are exactly its window: the panic "empty slot"
\* of try_recv is unreachable.
THEOREM RingExact == Spec => []WindowExact
<1>1. IInv => WindowExact  BY DEF IInv
<1> QED  BY <1>1, ChannelInvariance, PTL

\* The channel of the `task` module implements a bounded queue.
THEOREM ChannelIsFifo == Spec => FifoSpec
<1>1. Init => Fifo!Init  BY InitLemma
<1>2. IInv /\ [Next]_vars => [Fifo!Next]_<<Contents, closed, result>>  BY StepLemma
<1> QED  BY <1>1, <1>2, ChannelInvariance, PTL DEF Spec, FifoSpec, Fifo!Spec
-----------------------------------------------------------------------------
(***************************************************************************)
(* The key index: the inductive invariant.                                 *)
(***************************************************************************)

\* Slot s is in h's probe sequence, before the first empty cell.
Reach(t, c, h, s) ==
  \E d \in 0..(c - 1) :
    t[Cell(h, c, d)] = s /\ \A e \in 0..(d - 1) : t[Cell(h, c, e)] # EMPTY

\* A table of c cells that holds the slots P, whose hashes are hs, and no
\* others: each of them once, where a search for its hash passes.
Holds(t, c, P, hs) ==
  /\ \A i \in 0..(c - 1) : t[i] \in {EMPTY, REMOVED} \cup P
  /\ \A i, j \in 0..(c - 1) : t[i] \in P /\ t[i] = t[j] => i = j
  /\ \A s \in P : Reach(t, c, hs[s], s)

\* The cells in use
UsedCells(t) == {i \in DOMAIN t : t[i] # EMPTY}

\* The live slots that are in the table: a rebuild adds them one by one.
Placed == {s \in LiveSlots : todo = "none" \/ s < at}

\* The counter between natives.
Counted ==
  todo = "none" => occupied = Cardinality(UsedCells(table)) /\ occupied * 2 <= cap

\* A rebuild leaves no removed cell, and room for every live slot, for the
\* slot of a pending insert and for one more.
Rebuilding ==
  todo # "none" =>
    /\ at \in 1..(Len(hashes) + 1)
    /\ \A i \in DOMAIN table : table[i] # REMOVED
    /\ Cardinality(UsedCells(table)) = Cardinality(Placed)
    /\ (Cardinality(LiveSlots) + IF todo = "insert" THEN 2 ELSE 1) * 2 <= cap

\* Every slot has its key's hash, the live ones have different keys, and
\* the key of a pending insert is new.
KeysExact ==
  /\ \A s \in DOMAIN hashes : hashes[s] = hashOf[keys[s]]
  /\ \A s, r \in LiveSlots : keys[s] = keys[r] => s = r
  /\ todo = "insert" => \A s \in LiveSlots : keys[s] # keys[Len(keys)]

IndexIInv ==
  /\ IndexTypeOK
  /\ Holds(table, cap, Placed, hashes)
  /\ Counted
  /\ Rebuilding
  /\ KeysExact

-----------------------------------------------------------------------------
(***************************************************************************)
(* The key index: numbers and probe sequences.                             *)
(***************************************************************************)

\* A set of naturals has a least element.
LEMMA NatMin ==
  ASSUME NEW D \in SUBSET Nat, D # {}
  PROVE  \E m \in D : \A n \in D : m <= n
<1> DEFINE R == {p \in Nat \X Nat : p[1] < p[2]}
<1>1. IsWellFoundedOn(R, Nat)  BY NatLessThanWellFounded DEF OpToRel
<1>2. \A x, y \in Nat : x < y => <<x, y>> \in R  OBVIOUS
<1> HIDE DEF R
<1>3. PICK m \in D : \A n \in D : ~(<<n, m>> \in R)  BY <1>1, WFMin
<1>4. ASSUME NEW n \in D PROVE m <= n
  <2>1. m \in Nat /\ n \in Nat /\ ~(<<n, m>> \in R)  BY <1>3
  <2>2. ~(n < m)  BY <1>2, <2>1, Zenon
  <2> QED  BY <2>1, <2>2
<1> QED  BY <1>4

\* First picks it.
LEMMA FirstIs ==
  ASSUME NEW c \in Nat, NEW D \in SUBSET (0..(c - 1))
  PROVE  \/ D = {} /\ First(D, c) = c
         \/ First(D, c) \in D /\ \A e \in D : First(D, c) <= e
<1>1. CASE D = {}  BY <1>1 DEF First
<1>2. CASE D # {}
  <2>1. D \in SUBSET Nat  OBVIOUS
  <2>2. \E m \in D : \A n \in D : m <= n  BY <1>2, <2>1, NatMin
  <2>3. First(D, c) = CHOOSE d \in D : \A e \in D : d <= e  BY <1>2 DEF First
  <2> QED  BY <2>2, <2>3
<1> QED  BY <1>1, <1>2

\* A hash starts at a cell of the table.
LEMMA HomeIn ==
  ASSUME NEW c \in Nat \ {0}, NEW h, fold[h] \in Nat
  PROVE  home(h, c) \in 0..(c - 1)
BY DEF home

\* The cells of a probe sequence without modulo.
LEMMA CellValue ==
  ASSUME NEW c \in Nat \ {0}, NEW h, fold[h] \in Nat, NEW d \in 0..(c - 1)
  PROVE  Cell(h, c, d) = IF home(h, c) + d < c THEN home(h, c) + d ELSE home(h, c) + d - c
<1> DEFINE a == home(h, c)
<1>1. a \in 0..(c - 1)  BY HomeIn
<1>2. Cell(h, c, d) = (a + d) % c  BY DEF Cell
<1> HIDE DEF a
<1>3. CASE a + d < c
  <2>1. a + d \in 0..(c - 1)  BY <1>1, <1>3
  <2>2. (a + d) % c = a + d   BY <2>1, ModLow
  <2> QED  BY <1>2, <1>3, <2>2 DEF a
<1>4. CASE ~(a + d < c)
  <2>1. PICK b \in c..(2 * c - 1) : b = a + d  BY <1>1, <1>4
  <2>2. b % c = b - c  BY ModHigh
  <2>3. Cell(h, c, d) = b % c  BY <1>2, <2>1, Zenon
  <2>4. b - c = a + d - c      BY <1>1, <2>1
  <2> QED  BY <1>4, <2>2, <2>3, <2>4, Zenon DEF a
<1> QED  BY <1>3, <1>4

\* A probe sequence goes through every cell of the table once.
LEMMA CellsOnce ==
  ASSUME NEW c \in Nat \ {0}, NEW h, fold[h] \in Nat
  PROVE  /\ \A d \in 0..(c - 1) : Cell(h, c, d) \in 0..(c - 1)
         /\ \A d, e \in 0..(c - 1) : Cell(h, c, d) = Cell(h, c, e) => d = e
         /\ \A i \in 0..(c - 1) : \E d \in 0..(c - 1) : Cell(h, c, d) = i
<1> DEFINE a == home(h, c)
<1>1. a \in 0..(c - 1)  BY HomeIn
<1>2. \A d \in 0..(c - 1) : Cell(h, c, d) = IF a + d < c THEN a + d ELSE a + d - c
  BY CellValue
<1> HIDE DEF a
<1>3. \A d \in 0..(c - 1) : Cell(h, c, d) \in 0..(c - 1)  BY <1>1, <1>2
<1>4. \A d, e \in 0..(c - 1) : Cell(h, c, d) = Cell(h, c, e) => d = e  BY <1>1, <1>2
<1>5. ASSUME NEW i \in 0..(c - 1) PROVE \E d \in 0..(c - 1) : Cell(h, c, d) = i
  <2>1. CASE a <= i
    <3>1. i - a \in 0..(c - 1) /\ a + (i - a) = i  BY <1>1, <2>1
    <3> QED  BY <1>1, <1>2, <3>1
  <2>2. CASE ~(a <= i)
    <3>1. i - a + c \in 0..(c - 1) /\ ~(a + (i - a + c) < c) /\ a + (i - a + c) - c = i
      BY <1>1, <2>2
    <3> QED  BY <1>1, <1>2, <3>1
  <2> QED  BY <2>1, <2>2
<1> QED  BY <1>3, <1>4, <1>5

\* Every key's hash folds to a number.
LEMMA HashFolds == ASSUME NEW h \in Hash PROVE fold[h] \in Nat
BY KeyIndexAssumption

-----------------------------------------------------------------------------
(***************************************************************************)
(* The key index: what place, remove and a walk do to a table.             *)
(***************************************************************************)

\* The free cell is the first of the probe sequence that no slot is in.
LEMMA FreeCellIs ==
  ASSUME NEW c \in Nat \ {0}, NEW h, fold[h] \in Nat,
         NEW t, \E i \in 0..(c - 1) : t[i] = EMPTY
  PROVE  \E d \in 0..(c - 1) :
           /\ FreeCell(t, c, h) = Cell(h, c, d)
           /\ t[Cell(h, c, d)] \in {EMPTY, REMOVED}
           /\ \A e \in 0..(d - 1) : t[Cell(h, c, e)] \notin {EMPTY, REMOVED}
<1> DEFINE D == {d \in 0..(c - 1) : t[Cell(h, c, d)] \in {EMPTY, REMOVED}}
<1>1. D # {}  BY CellsOnce
<1>2. D \in SUBSET (0..(c - 1)) /\ c \in Nat  OBVIOUS
<1>3. FreeCell(t, c, h) = Cell(h, c, First(D, c))  BY DEF FreeCell
<1>4. \A e \in 0..(c - 1) : e \in D <=> t[Cell(h, c, e)] \in {EMPTY, REMOVED}  OBVIOUS
<1> HIDE DEF D
<1>5. PICK d \in D : d = First(D, c) /\ \A e \in D : d <= e  BY <1>1, <1>2, FirstIs
<1>6. d \in 0..(c - 1) /\ t[Cell(h, c, d)] \in {EMPTY, REMOVED}  BY <1>2, <1>4
<1>7. \A e \in 0..(d - 1) : e \in 0..(c - 1) /\ ~(d <= e)  BY <1>6
<1>8. \A e \in 0..(d - 1) : t[Cell(h, c, e)] \notin {EMPTY, REMOVED}  BY <1>4, <1>5, <1>7
<1> QED  BY <1>3, <1>5, <1>6, <1>8

\* The cells after a placement.
LEMMA PlaceCells ==
  ASSUME NEW c \in Nat \ {0}, NEW h, fold[h] \in Nat, NEW s,
         NEW t, DOMAIN t = 0..(c - 1), \E i \in 0..(c - 1) : t[i] = EMPTY
  PROVE  /\ FreeCell(t, c, h) \in 0..(c - 1)
         /\ DOMAIN place(t, c, h, s) = 0..(c - 1)
         /\ place(t, c, h, s)[FreeCell(t, c, h)] = s
         /\ \A i \in 0..(c - 1) : i # FreeCell(t, c, h) => place(t, c, h, s)[i] = t[i]
<1>1. PICK d \in 0..(c - 1) : FreeCell(t, c, h) = Cell(h, c, d)  BY FreeCellIs
<1>2. FreeCell(t, c, h) \in 0..(c - 1)  BY <1>1, CellsOnce
<1> QED  BY <1>2 DEF place

\* A placement adds one slot to what the table holds.
LEMMA PlaceHolds ==
  ASSUME NEW c \in Nat \ {0}, NEW h, fold[h] \in Nat, NEW P \in SUBSET (Nat \ {0}),
         NEW hs, \A r \in P : fold[hs[r]] \in Nat,
         NEW gs, \A r \in P : gs[r] = hs[r],
         NEW s \in Nat \ {0}, s \notin P, gs[s] = h,
         NEW t, DOMAIN t = 0..(c - 1), \E i \in 0..(c - 1) : t[i] = EMPTY,
         Holds(t, c, P, hs)
  PROVE  Holds(place(t, c, h, s), c, P \cup {s}, gs)
<1> DEFINE u == place(t, c, h, s)
           f == FreeCell(t, c, h)
<1>1. PICK d \in 0..(c - 1) :
        /\ f = Cell(h, c, d)
        /\ t[Cell(h, c, d)] \in {EMPTY, REMOVED}
        /\ \A e \in 0..(d - 1) : t[Cell(h, c, e)] \notin {EMPTY, REMOVED}
  BY FreeCellIs
<1>2. f \in 0..(c - 1) /\ u[f] = s /\ \A i \in 0..(c - 1) : i # f => u[i] = t[i]
  <2>1. f \in 0..(c - 1)  BY <1>1, CellsOnce
  <2>2. u = [t EXCEPT ![f] = s]  BY DEF place
  <2> HIDE DEF f, u
  <2> QED  BY <2>1, <2>2
<1> HIDE DEF u, f
<1>3. \A x \in P : x # EMPTY /\ x # REMOVED  BY DEF EMPTY, REMOVED
<1>4. s # EMPTY /\ s # REMOVED  BY DEF EMPTY, REMOVED
<1>5. t[f] \notin P  BY <1>1, <1>3
<1>6. \A i \in 0..(c - 1) : u[i] \in {EMPTY, REMOVED} \cup (P \cup {s})
  BY <1>2 DEF Holds
<1>7. \A i \in 0..(c - 1) : t[i] # s  BY <1>4 DEF Holds
<1>8. \A i, j \in 0..(c - 1) : u[i] \in P \cup {s} /\ u[i] = u[j] => i = j
  BY <1>2, <1>7 DEF Holds
<1>9. Reach(u, c, h, s)
  <2>1. \A e \in 0..(d - 1) : e \in 0..(c - 1) /\ e # d  OBVIOUS
  <2>2. \A e \in 0..(d - 1) : Cell(h, c, e) \in 0..(c - 1) /\ Cell(h, c, e) # f
    BY <1>1, <2>1, CellsOnce
  <2>3. \A e \in 0..(d - 1) : u[Cell(h, c, e)] # EMPTY  BY <1>2, <1>1, <2>2
  <2> QED  BY <1>2, <1>1, <2>3 DEF Reach
<1>10. ASSUME NEW r \in P PROVE Reach(u, c, gs[r], r)
  <2> DEFINE g == hs[r]
  <2>1. fold[g] \in Nat /\ gs[r] = g  OBVIOUS
  <2>2. Reach(t, c, g, r)  BY DEF Holds
  <2> HIDE DEF g
  <2>3. PICK b \in 0..(c - 1) :
          t[Cell(g, c, b)] = r /\ \A e \in 0..(b - 1) : t[Cell(g, c, e)] # EMPTY
    BY <2>2 DEF Reach
  <2>4. Cell(g, c, b) \in 0..(c - 1) /\ Cell(g, c, b) # f  BY <1>5, <2>1, <2>3, CellsOnce
  <2>5. u[Cell(g, c, b)] = r  BY <1>2, <2>3, <2>4
  <2>6. \A e \in 0..(b - 1) : e \in 0..(c - 1)  OBVIOUS
  <2>7. \A e \in 0..(b - 1) : Cell(g, c, e) \in 0..(c - 1)  BY <2>1, <2>6, CellsOnce
  <2>8. \A e \in 0..(b - 1) : u[Cell(g, c, e)] # EMPTY  BY <1>2, <1>4, <2>3, <2>7
  <2> QED  BY <2>1, <2>5, <2>8 DEF Reach
<1>11. \A r \in P \cup {s} : Reach(u, c, gs[r], r)  BY <1>9, <1>10
<1> QED  BY <1>6, <1>8, <1>11 DEF Holds, u

\* Cardinalities of sets of cells
LEMMA CellSets ==
  ASSUME NEW c \in Nat \ {0}, NEW t, DOMAIN t = 0..(c - 1)
  PROVE  /\ IsFiniteSet(UsedCells(t)) /\ Cardinality(UsedCells(t)) \in 0..c
         /\ Cardinality(UsedCells(t)) < c => \E i \in 0..(c - 1) : t[i] = EMPTY
<1>1. UsedCells(t) \in SUBSET (0..(c - 1))  BY DEF UsedCells
<1>2. 0 \in Int /\ c - 1 \in Int /\ ~(0 > c - 1) /\ (c - 1) - 0 + 1 = c  OBVIOUS
<1>3. IsFiniteSet(0..(c - 1)) /\ Cardinality(0..(c - 1)) = (c - 1) - 0 + 1
  BY <1>2, FS_Interval
<1>4. Cardinality(0..(c - 1)) = c  BY <1>2, <1>3
<1>5. /\ IsFiniteSet(UsedCells(t))
      /\ Cardinality(UsedCells(t)) <= Cardinality(0..(c - 1))
  BY <1>1, <1>3, FS_Subset
<1>6. Cardinality(UsedCells(t)) \in Nat  BY <1>5, FS_CardinalityType
<1>7. ASSUME \A i \in 0..(c - 1) : t[i] # EMPTY PROVE UsedCells(t) = 0..(c - 1)
  BY <1>7 DEF UsedCells
<1>8. ASSUME Cardinality(UsedCells(t)) < c PROVE \E i \in 0..(c - 1) : t[i] = EMPTY
  <2>1. UsedCells(t) # 0..(c - 1)  BY <1>4, <1>6, <1>8
  <2> QED  BY <1>7, <2>1
<1> QED  BY <1>4, <1>5, <1>6, <1>8

\* A placement uses one cell more exactly when it took an empty one.
LEMMA PlaceUses ==
  ASSUME NEW c \in Nat \ {0}, NEW h, fold[h] \in Nat, NEW s \in Nat \ {0},
         NEW t, DOMAIN t = 0..(c - 1), \E i \in 0..(c - 1) : t[i] = EMPTY
  PROVE  Cardinality(UsedCells(place(t, c, h, s)))
           = IF TookEmpty(t, c, h) THEN Cardinality(UsedCells(t)) + 1
                                   ELSE Cardinality(UsedCells(t))
<1> DEFINE u == place(t, c, h, s)
           f == FreeCell(t, c, h)
<1>1. /\ f \in 0..(c - 1) /\ DOMAIN u = 0..(c - 1)
      /\ u[f] = s /\ \A i \in 0..(c - 1) : i # f => u[i] = t[i]
  BY PlaceCells
<1>2. TookEmpty(t, c, h) <=> t[f] = EMPTY  BY DEF TookEmpty
<1> HIDE DEF u, f
<1>3. s # EMPTY  BY DEF EMPTY
<1>4. UsedCells(u) = UsedCells(t) \cup {f}  BY <1>1, <1>3 DEF UsedCells
<1>5. f \in UsedCells(t) <=> t[f] # EMPTY  BY <1>1 DEF UsedCells
<1>6. IsFiniteSet(UsedCells(t))  BY CellSets
<1>7. Cardinality(UsedCells(t) \cup {f})
        = IF f \in UsedCells(t) THEN Cardinality(UsedCells(t)) ELSE Cardinality(UsedCells(t)) + 1
  BY <1>6, FS_AddElement
<1> QED  BY <1>2, <1>4, <1>5, <1>7 DEF u

\* A removed entry's place cuts no probe sequence.
LEMMA RemoveHolds ==
  ASSUME NEW c \in Nat \ {0}, NEW P \in SUBSET (Nat \ {0}),
         NEW hs, \A r \in P : fold[hs[r]] \in Nat,
         NEW t, DOMAIN t = 0..(c - 1), Holds(t, c, P, hs),
         NEW i \in 0..(c - 1), NEW s \in P, t[i] = s,
         NEW u, DOMAIN u = 0..(c - 1), u[i] = REMOVED,
         \A j \in 0..(c - 1) : j # i => u[j] = t[j]
  PROVE  Holds(u, c, P \ {s}, hs)
<1>1. DOMAIN u = 0..(c - 1) /\ u[i] = REMOVED /\ \A j \in 0..(c - 1) : j # i => u[j] = t[j]
  OBVIOUS
<1>2. s \in P /\ s = t[i]  OBVIOUS
<1>3. REMOVED # EMPTY /\ \A x \in P : x # EMPTY /\ x # REMOVED  BY DEF EMPTY, REMOVED
<1>4. \A j \in 0..(c - 1) : t[j] = s => j = i  BY <1>2 DEF Holds
<1>5. \A j \in 0..(c - 1) : u[j] \in {EMPTY, REMOVED} \cup (P \ {s})
  BY <1>1, <1>4 DEF Holds
<1>6. \A j, k \in 0..(c - 1) : u[j] \in P \ {s} /\ u[j] = u[k] => j = k
  BY <1>1, <1>3 DEF Holds
<1>7. ASSUME NEW r \in P \ {s} PROVE Reach(u, c, hs[r], r)
  <2> DEFINE g == hs[r]
  <2>1. fold[g] \in Nat  OBVIOUS
  <2>2. Reach(t, c, g, r)  BY DEF Holds
  <2> HIDE DEF g
  <2>3. PICK b \in 0..(c - 1) :
          t[Cell(g, c, b)] = r /\ \A e \in 0..(b - 1) : t[Cell(g, c, e)] # EMPTY
    BY <2>2 DEF Reach
  <2>4. Cell(g, c, b) \in 0..(c - 1) /\ Cell(g, c, b) # i  BY <1>2, <2>1, <2>3, CellsOnce
  <2>5. u[Cell(g, c, b)] = r  BY <1>1, <2>3, <2>4
  <2>6. \A e \in 0..(b - 1) : e \in 0..(c - 1)  OBVIOUS
  <2>7. \A e \in 0..(b - 1) : Cell(g, c, e) \in 0..(c - 1)  BY <2>1, <2>6, CellsOnce
  <2>8. \A e \in 0..(b - 1) : u[Cell(g, c, e)] # EMPTY  BY <1>1, <1>3, <2>3, <2>7
  <2> QED  BY <2>5, <2>8 DEF Reach, g
<1>8. Holds(u, c, P \ {s}, hs)  BY <1>5, <1>6, <1>7 DEF Holds
<1> QED  BY <1>8

\* An empty table holds nothing.
LEMMA EmptyHolds ==
  ASSUME NEW c \in Nat \ {0}, NEW hs
  PROVE  /\ DOMAIN EmptyTable(c) = 0..(c - 1)
         /\ \A i \in 0..(c - 1) : EmptyTable(c)[i] = EMPTY
         /\ Holds(EmptyTable(c), c, {}, hs)
         /\ Cardinality(UsedCells(EmptyTable(c))) = 0
<1>1. DOMAIN EmptyTable(c) = 0..(c - 1) /\ \A i \in 0..(c - 1) : EmptyTable(c)[i] = EMPTY
  BY DEF EmptyTable
<1>2. Holds(EmptyTable(c), c, {}, hs)  BY <1>1 DEF Holds
<1>3. UsedCells(EmptyTable(c)) = {}  BY <1>1 DEF UsedCells
<1> QED  BY <1>1, <1>2, <1>3, FS_EmptySet

-----------------------------------------------------------------------------
(***************************************************************************)
(* The key index: lookups.                                                 *)
(***************************************************************************)

\* The size of 1..n
LEMMA IntervalSize ==
  ASSUME NEW n \in Nat PROVE IsFiniteSet(1..n) /\ Cardinality(1..n) = n
<1>1. /\ IsFiniteSet(1..n)
      /\ Cardinality(1..n) = IF 1 > n THEN 0 ELSE n - 1 + 1
  <2>1. 1 \in Int /\ n \in Int  OBVIOUS
  <2> QED  BY <2>1, FS_Interval
<1> QED  BY <1>1

\* What the type invariant says of the slots.
LEMMA SlotFacts ==
  ASSUME IndexTypeOK
  PROVE  /\ cap \in Nat \ {0} /\ DOMAIN table = 0..(cap - 1)
         /\ Len(hashes) \in 0..MaxSlots
         /\ DOMAIN hashes = 1..Len(hashes) /\ DOMAIN live = 1..Len(hashes)
         /\ \A s \in DOMAIN hashes : s \in DOMAIN keys
         /\ \A s \in DOMAIN hashes : hashes[s] \in Hash /\ fold[hashes[s]] \in Nat
         /\ LiveSlots \in SUBSET (1..Len(hashes))
         /\ LiveSlots \in SUBSET (Nat \ {0})
         /\ IsFiniteSet(LiveSlots) /\ Cardinality(LiveSlots) \in 0..Len(hashes)
<1>1. /\ cap \in Nat \ {0} /\ DOMAIN table = 0..(cap - 1)
      /\ hashes \in Seq(Hash) /\ live \in Seq({0, 1}) /\ keys \in Seq(Key)
      /\ Len(hashes) = Len(live) /\ Len(keys) <= MaxSlots
      /\ (Len(keys) = Len(hashes) \/ Len(keys) = Len(hashes) + 1)
  BY DEF IndexTypeOK
<1>2. Len(hashes) \in Nat /\ Len(keys) \in Nat /\ MaxSlots \in Nat
  BY <1>1, KeyIndexAssumption
<1>3. DOMAIN hashes = 1..Len(hashes) /\ DOMAIN live = 1..Len(hashes) /\ DOMAIN keys = 1..Len(keys)
  BY <1>1
<1>4. Len(hashes) \in 0..MaxSlots /\ \A s \in 1..Len(hashes) : s \in 1..Len(keys)
  <2> DEFINE n == Len(hashes)
             m == Len(keys)
  <2>1. n \in Nat /\ m \in Nat /\ MaxSlots \in Nat /\ m <= MaxSlots /\ (m = n \/ m = n + 1)
    BY <1>1, <1>2
  <2> HIDE DEF n, m
  <2>2. n \in 0..MaxSlots /\ \A s \in 1..n : s \in 1..m  BY <2>1
  <2> QED  BY <2>2 DEF n, m
<1>5. \A s \in DOMAIN hashes : hashes[s] \in Hash  BY <1>1
<1>6. \A s \in DOMAIN hashes : fold[hashes[s]] \in Nat  BY <1>5, HashFolds
<1>7. LiveSlots \in SUBSET (1..Len(hashes))  BY <1>3 DEF LiveSlots
<1>8. LiveSlots \in SUBSET (Nat \ {0})  BY <1>2, <1>7
<1>9. IsFiniteSet(1..Len(hashes)) /\ Cardinality(1..Len(hashes)) = Len(hashes)
  BY <1>2, IntervalSize
<1>10. IsFiniteSet(LiveSlots) /\ Cardinality(LiveSlots) <= Cardinality(1..Len(hashes))
  BY <1>7, <1>9, FS_Subset
<1>11. Cardinality(LiveSlots) \in Nat  BY <1>10, FS_CardinalityType
<1>12. Cardinality(LiveSlots) \in 0..Len(hashes)  BY <1>2, <1>9, <1>10, <1>11
<1> QED  BY <1>1, <1>3, <1>4, <1>5, <1>6, <1>7, <1>8, <1>10, <1>12, Zenon

\* A walk ends at the first wanted slot that it can reach.
LEMMA WalkEnds ==
  ASSUME cap \in Nat \ {0}, NEW h, fold[h] \in Nat,
         NEW Want \in SUBSET (Nat \ {0})
  PROVE  \/ /\ Walk(h, Want) = 0
            /\ \A s \in Want : ~Reach(table, cap, h, s)
         \/ /\ Walk(h, Want) \in Want
            /\ \E d \in 0..(cap - 1) :
                 /\ table[Cell(h, cap, d)] = Walk(h, Want)
                 /\ \A e \in 0..(d - 1) : /\ table[Cell(h, cap, e)] \notin Want
                                          /\ table[Cell(h, cap, e)] # EMPTY
<1> DEFINE c == cap
           v(d) == table[Cell(h, c, d)]
           D == {d \in 0..(c - 1) : v(d) = EMPTY \/ v(d) \in Want}
           n == First(D, c)
           w == Walk(h, Want)
<1>1. c \in Nat \ {0} /\ D \in SUBSET (0..(c - 1))  OBVIOUS
<1>2. w = IF n = c THEN 0 ELSE v(n)  BY DEF Walk
<1>3. \A d \in 0..(c - 1) : d \in D <=> v(d) = EMPTY \/ v(d) \in Want  OBVIOUS
<1>4. \A s : Reach(table, cap, h, s)
               <=> \E d \in 0..(c - 1) : v(d) = s /\ \A e \in 0..(d - 1) : v(e) # EMPTY
  BY DEF Reach
<1>5. SUFFICES \/ w = 0 /\ \A s \in Want : ~Reach(table, cap, h, s)
               \/ /\ w \in Want
                  /\ \E d \in 0..(c - 1) : v(d) = w /\ \A e \in 0..(d - 1) : v(e) \notin Want /\ v(e) # EMPTY
  OBVIOUS
<1> HIDE DEF c, v, D, w
<1>6. \/ D = {} /\ n = c
      \/ n \in D /\ \A e \in D : n <= e
  BY <1>1, FirstIs
<1> HIDE DEF n
<1>7. CASE D = {} /\ n = c
  <2>1. \A d \in 0..(c - 1) : v(d) \notin Want  BY <1>3, <1>7
  <2> QED  BY <1>2, <1>4, <1>7, <2>1
<1>8. CASE n \in D /\ \A e \in D : n <= e
  <2>1. n \in 0..(c - 1) /\ n # c /\ w = v(n)  BY <1>1, <1>2, <1>8
  <2>2. \A e \in 0..(n - 1) : e \in 0..(c - 1) /\ ~(n <= e)  BY <1>1, <2>1
  <2>3. \A e \in 0..(n - 1) : v(e) \notin Want /\ v(e) # EMPTY  BY <1>3, <1>8, <2>2
  <2>4. CASE v(n) \in Want  BY <2>1, <2>3, <2>4
  <2>5. CASE v(n) = EMPTY
    <3>1. w = 0  BY <2>1, <2>5 DEF EMPTY
    <3>2. ASSUME NEW s \in Want, NEW d \in 0..(c - 1),
                 v(d) = s, \A e \in 0..(d - 1) : v(e) # EMPTY
          PROVE  FALSE
      <4>1. n \in Nat /\ d \in Nat  BY <1>1, <2>1
      <4>2. ~(n < d)  BY <2>1, <2>5, <3>2, <4>1
      <4>3. ~(d < n)  BY <2>3, <3>2, <4>1
      <4>4. d = n  BY <4>1, <4>2, <4>3
      <4>5. s # EMPTY  BY DEF EMPTY
      <4> QED  BY <2>5, <3>2, <4>4, <4>5
    <3> QED  BY <1>4, <3>1, <3>2
  <2> QED  BY <1>3, <1>8, <2>1, <2>4, <2>5
<1> QED  BY <1>6, <1>7, <1>8

\* Between natives a wanted live slot is found, and only live ones are.
LEMMA WalkExact ==
  ASSUME IndexIInv, todo = "none", NEW h \in Hash,
         NEW Want \in SUBSET DOMAIN hashes
  PROVE  \/ /\ Walk(h, Want) = 0
            /\ \A s \in Want \cap LiveSlots : hashes[s] # h
         \/ Walk(h, Want) \in Want \cap LiveSlots
<1>1. cap \in Nat \ {0} /\ Want \in SUBSET (Nat \ {0}) /\ fold[h] \in Nat
  BY SlotFacts, HashFolds DEF IndexIInv
<1>2. Holds(table, cap, LiveSlots, hashes)
  <2>1. Placed = LiveSlots  BY DEF Placed
  <2> QED  BY <2>1 DEF IndexIInv
<1>3. CASE Walk(h, Want) = 0 /\ \A s \in Want : ~Reach(table, cap, h, s)
  BY <1>2, <1>3 DEF Holds
<1>4. ASSUME Walk(h, Want) \in Want, NEW d \in 0..(cap - 1), table[Cell(h, cap, d)] = Walk(h, Want)
      PROVE  Walk(h, Want) \in LiveSlots
  <2>1. Cell(h, cap, d) \in 0..(cap - 1)  BY <1>1, CellsOnce
  <2>2. Walk(h, Want) # EMPTY /\ Walk(h, Want) # REMOVED  BY <1>1, <1>4 DEF EMPTY, REMOVED
  <2> QED  BY <1>2, <1>4, <2>1, <2>2 DEF Holds
<1> QED  BY <1>1, <1>3, <1>4, WalkEnds

\* A key is found in its slot, or no live slot has it.
LEMMA FindIs ==
  ASSUME IndexIInv, todo = "none", NEW k \in Key
  PROVE  \/ find(hashOf[k], k) = 0 /\ \A s \in LiveSlots : keys[s] # k
         \/ /\ find(hashOf[k], k) \in LiveSlots
            /\ keys[find(hashOf[k], k)] = k
            /\ \A s \in LiveSlots : keys[s] = k => s = find(hashOf[k], k)
<1> DEFINE h == hashOf[k]
           W == {s \in DOMAIN hashes : hashes[s] = h /\ s \in DOMAIN keys /\ keys[s] = k}
           f == find(h, k)
<1>1. h \in Hash /\ W \in SUBSET DOMAIN hashes  BY DEF Hash
<1>2. f = Walk(h, W)  BY DEF find
<1>3. \A s \in W : keys[s] = k  OBVIOUS
<1>4. \A s \in LiveSlots : keys[s] = k => s \in W /\ hashes[s] = h
  BY SlotFacts DEF IndexIInv, KeysExact
<1>5. \A s, r \in LiveSlots : keys[s] = keys[r] => s = r  BY DEF IndexIInv, KeysExact
<1> HIDE DEF W, h, f
<1>6. \/ f = 0 /\ \A s \in W \cap LiveSlots : hashes[s] # h
      \/ f \in W \cap LiveSlots
  BY <1>1, <1>2, WalkExact
<1>7. \/ f = 0 /\ \A s \in LiveSlots : keys[s] # k
      \/ /\ f \in LiveSlots /\ keys[f] = k
         /\ \A s \in LiveSlots : keys[s] = k => s = f
  BY <1>3, <1>4, <1>5, <1>6
<1> QED  BY <1>7 DEF f, h

\* The invariant makes lookups exact.
LEMMA FindFromInv == IndexIInv => FindExact
<1> SUFFICES ASSUME IndexIInv, todo = "none", NEW k \in Key
             PROVE  LET S == {s \in LiveSlots : keys[s] = k}
                    IN  IF S = {} THEN find(hashOf[k], k) = 0 ELSE S = {find(hashOf[k], k)}
  BY DEF FindExact
<1> DEFINE f == find(hashOf[k], k)
           S == {s \in LiveSlots : keys[s] = k}
<1>1. \/ f = 0 /\ \A s \in LiveSlots : keys[s] # k
      \/ /\ f \in LiveSlots /\ keys[f] = k
         /\ \A s \in LiveSlots : keys[s] = k => s = f
  BY FindIs
<1> HIDE DEF f
<1>2. IF S = {} THEN f = 0 ELSE S = {f}
  <2>1. CASE f = 0 /\ \A s \in LiveSlots : keys[s] # k  BY <2>1
  <2>2. CASE f \in LiveSlots /\ keys[f] = k /\ \A s \in LiveSlots : keys[s] = k => s = f
    BY <2>2
  <2> QED  BY <1>1, <2>1, <2>2
<1> QED  BY <1>2 DEF f

-----------------------------------------------------------------------------
(***************************************************************************)
(* The key index: the walk over equal hashes.                              *)
(***************************************************************************)

\* A finite chain: next goes from each element to the one with the least
\* greater position, and from the last back to the first, 0.
Chain(S, pos, next, c) ==
  /\ 0 \in S
  /\ \A s \in S : pos[s] \in 0..c /\ next[s] \in S
  /\ pos[0] = 0 /\ \A s \in S : s # 0 => pos[s] # 0
  /\ \A s, r \in S : pos[s] = pos[r] => s = r
  /\ \A s \in S : next[s] = 0 => \A r \in S : ~(pos[r] > pos[s])
  /\ \A s \in S : next[s] # 0 =>
       /\ pos[next[s]] > pos[s]
       /\ \A r \in S : pos[r] > pos[s] => pos[next[s]] <= pos[r]

\* Every element but the first is next after an earlier one.
LEMMA ChainPrevious ==
  ASSUME NEW S, NEW pos, NEW next, NEW c \in Nat, Chain(S, pos, next, c),
         NEW x \in S, x # 0
  PROVE  \E y \in S : pos[y] < pos[x] /\ next[y] = x
<1> DEFINE M == {y \in S : pos[y] < pos[x]}
           D == {pos[x] - pos[y] : y \in M}
<1>1. pos[x] \in 0..c /\ \A y \in S : pos[y] \in 0..c  BY DEF Chain
<1>2. 0 \in M  BY <1>1 DEF Chain
<1>3. D \in SUBSET Nat /\ D # {}  BY <1>1, <1>2
<1>4. PICK m \in D : \A n \in D : m <= n  BY <1>3, NatMin
<1>5. PICK y \in M : m = pos[x] - pos[y]  BY <1>4
<1>6. ASSUME NEW z \in S, pos[z] < pos[x] PROVE pos[z] <= pos[y]
  <2>1. pos[x] - pos[z] \in D  BY <1>6
  <2>2. pos[x] - pos[y] <= pos[x] - pos[z]  BY <1>4, <1>5, <2>1
  <2> QED  BY <1>1, <1>5, <2>2
<1>7. next[y] # 0 /\ next[y] \in S  BY <1>1, <1>5 DEF Chain
<1>8. pos[next[y]] > pos[y] /\ pos[next[y]] <= pos[x]  BY <1>1, <1>5, <1>7 DEF Chain
<1>9. pos[next[y]] = pos[x]  BY <1>1, <1>6, <1>7, <1>8
<1>10. next[y] = x  BY <1>7, <1>9 DEF Chain
<1> QED  BY <1>5, <1>10

\* next goes through all of a chain, once.
LEMMA ChainOnce ==
  ASSUME NEW S, NEW pos, NEW next, NEW c \in Nat, Chain(S, pos, next, c)
  PROVE  /\ {next[s] : s \in S} = S
         /\ \A T \in SUBSET S : 0 \in T /\ (\A s \in T : next[s] \in T) => T = S
<1>1. \A y \in S : pos[y] \in 0..c /\ next[y] \in S  BY DEF Chain
<1>2. \E y \in S : next[y] = 0
  <2> DEFINE D == {c - pos[y] : y \in S}
  <2>1. D \in SUBSET Nat /\ D # {}  BY <1>1 DEF Chain
  <2>2. PICK m \in D : \A n \in D : m <= n  BY <2>1, NatMin
  <2>3. PICK y \in S : m = c - pos[y]  BY <2>2
  <2>4. ASSUME NEW z \in S PROVE pos[z] <= pos[y]
    <3>1. PICK p \in 0..c : p = pos[z]  BY <1>1
    <3>2. PICK q \in 0..c : q = pos[y]  BY <1>1
    <3>3. c - p \in D  BY <3>1
    <3>4. c - q <= c - p  BY <2>2, <2>3, <3>2, <3>3
    <3>5. p <= q  BY <3>4
    <3> QED  BY <3>1, <3>2, <3>5
  <2>5. next[y] \in S /\ ~(pos[next[y]] > pos[y])  BY <1>1, <2>4
  <2>6. next[y] = 0  BY <2>5 DEF Chain
  <2> QED  BY <2>6
<1>3. \A x \in S : x # 0 => \E y \in S : next[y] = x  BY ChainPrevious
<1>4. {next[s] : s \in S} = S  BY <1>1, <1>2, <1>3
<1>5. ASSUME NEW T \in SUBSET S, 0 \in T, \A s \in T : next[s] \in T, T # S
      PROVE  FALSE
  <2> DEFINE D == {pos[y] : y \in S \ T}
  <2>1. D \in SUBSET Nat /\ D # {}  BY <1>1, <1>5
  <2>2. PICK m \in D : \A n \in D : m <= n  BY <2>1, NatMin
  <2>3. PICK x \in S \ T : m = pos[x]  BY <2>2
  <2>4. x # 0  BY <1>5, <2>3
  <2>5. PICK y \in S : pos[y] < pos[x] /\ next[y] = x  BY <2>3, <2>4, ChainPrevious
  <2>6. y \in T
    <3>1. y \in S \ T => pos[y] \in D  OBVIOUS
    <3>2. ~(pos[x] <= pos[y])  BY <1>1, <2>3, <2>5
    <3> QED  BY <2>2, <2>3, <3>1, <3>2
  <2> QED  BY <1>5, <2>3, <2>5, <2>6
<1> QED  BY <1>4, <1>5

\* The live slots with one hash, in probe order, are such a chain.
LEMMA ProbeIsChain ==
  ASSUME IndexIInv, todo = "none", NEW h \in Hash
  PROVE  LET S == {s \in LiveSlots : hashes[s] = h} \cup {0}
         IN  \E pos : Chain(S, pos, [s \in S |-> probe(h, s)], cap)
<1> DEFINE c == cap
           v(d) == table[Cell(h, c, d)]
           S0 == {s \in LiveSlots : hashes[s] = h}
           S == S0 \cup {0}
           off == [s \in S0 |-> CHOOSE d \in 0..(c - 1) : v(d) = s]
           pos == [s \in S |-> IF s = 0 THEN 0 ELSE off[s] + 1]
           next == [s \in S |-> probe(h, s)]
<1>1. c \in Nat \ {0} /\ fold[h] \in Nat /\ S0 \in SUBSET (Nat \ {0}) /\ S0 \in SUBSET DOMAIN hashes
      /\ DOMAIN hashes \in SUBSET (Nat \ {0}) /\ LiveSlots \in SUBSET (Nat \ {0})
  BY SlotFacts, HashFolds DEF IndexIInv
<1>2. Holds(table, cap, LiveSlots, hashes)
  <2>1. Placed = LiveSlots  BY DEF Placed
  <2> QED  BY <2>1 DEF IndexIInv
<1>3. /\ \A d \in 0..(c - 1) : Cell(h, c, d) \in 0..(c - 1)
      /\ \A d, e \in 0..(c - 1) : Cell(h, c, d) = Cell(h, c, e) => d = e
  BY <1>1, CellsOnce
<1>4. \A d \in 0..(c - 1) : v(d) \in {EMPTY, REMOVED} \cup LiveSlots
  BY <1>2, <1>3 DEF Holds
<1>5. \A d, e \in 0..(c - 1) : v(d) \in LiveSlots /\ v(d) = v(e) => d = e
  BY <1>2, <1>3 DEF Holds
<1>6. \A s : Reach(table, cap, h, s)
               <=> \E d \in 0..(c - 1) : v(d) = s /\ \A e \in 0..(d - 1) : v(e) # EMPTY
  BY DEF Reach
<1>7. \A s \in S0 : Reach(table, cap, h, s)  BY <1>2 DEF Holds
<1>8. ASSUME NEW s \in S0
      PROVE  /\ off[s] \in 0..(c - 1) /\ v(off[s]) = s
             /\ \A d \in 0..(c - 1) : v(d) = s => d = off[s]
  <2>1. \E d \in 0..(c - 1) : v(d) = s  BY <1>6, <1>7
  <2>2. off[s] = CHOOSE d \in 0..(c - 1) : v(d) = s  OBVIOUS
  <2> HIDE DEF off, v
  <2>3. off[s] \in 0..(c - 1) /\ v(off[s]) = s  BY <2>1, <2>2
  <2> QED  BY <1>5, <2>3
<1>9. /\ pos[0] = 0 /\ 0 \in S
      /\ \A s \in S0 : s \in S /\ s # 0 /\ pos[s] = off[s] + 1
      /\ \A s \in S : s # 0 => s \in S0
      /\ \A s \in S : next[s] = probe(h, s)
  BY <1>1
<1>10. \A x \in DOMAIN hashes : hashes[x] = h /\ x \in LiveSlots <=> x \in S0  BY <1>1
<1>11. \A x \in S0 : hashes[x] = h /\ x \in LiveSlots  OBVIOUS
<1> HIDE DEF v, S0, S, off, pos, next
<1>12. \A s \in S0 : pos[s] \in 1..c  BY <1>1, <1>8, <1>9
<1>13. ASSUME NEW a \in S
       PROVE  \/ probe(h, a) = 0 /\ \A x \in S : ~(pos[x] > pos[a])
              \/ /\ probe(h, a) \in S0 /\ pos[probe(h, a)] > pos[a]
                 /\ \A x \in S : pos[x] > pos[a] => pos[probe(h, a)] <= pos[x]
  <2> DEFINE W == Past(h, a)
             r == probe(h, a)
  <2>1. \A x : x \in W <=>
          /\ x \in DOMAIN hashes /\ hashes[x] = h
          /\ a = 0 \/ \E d, e \in 0..(c - 1) : d < e /\ v(d) = a /\ v(e) = x
    BY DEF Past, v, c
  <2>2. r = Walk(h, W)  BY DEF probe
  <2> HIDE DEF W, r
  <2>3. W \in SUBSET (Nat \ {0})  BY <1>1, <2>1
  <2>4. \/ r = 0 /\ \A s \in W : ~Reach(table, cap, h, s)
        \/ /\ r \in W
           /\ \E d \in 0..(c - 1) : v(d) = r /\ \A e \in 0..(d - 1) : v(e) \notin W /\ v(e) # EMPTY
    BY <1>1, <2>2, <2>3, WalkEnds DEF v, c
  <2> HIDE DEF c
  <2>5. ASSUME NEW x \in S, pos[x] > pos[a] PROVE x \in S0 /\ x \in W
    <3>1. x \in S0  BY <1>9, <1>12, <2>5
    <3>2. CASE a = 0  BY <1>1, <1>11, <2>1, <3>1, <3>2
    <3>3. CASE a # 0
      <4>1. a \in S0 /\ off[a] < off[x]
        <5>1. a \in S0 /\ pos[a] = off[a] + 1 /\ pos[x] = off[x] + 1  BY <1>9, <3>1, <3>3
        <5>2. off[a] \in 0..(c - 1) /\ off[x] \in 0..(c - 1)  BY <1>8, <3>1, <5>1
        <5> QED  BY <1>1, <2>5, <5>1, <5>2
      <4>2. off[a] \in 0..(c - 1) /\ off[x] \in 0..(c - 1) /\ v(off[a]) = a /\ v(off[x]) = x
        BY <1>8, <3>1, <4>1
      <4> QED  BY <1>1, <1>11, <2>1, <3>1, <4>1, <4>2
    <3> QED  BY <3>1, <3>2, <3>3
  <2>6. ASSUME NEW x \in W, x \in LiveSlots PROVE x \in S0 /\ pos[x] > pos[a]
    <3>1. x \in S0  BY <1>10, <2>1, <2>6
    <3>2. CASE a = 0  BY <1>9, <1>12, <3>1, <3>2
    <3>3. CASE a # 0
      <4>1. PICK d, e \in 0..(c - 1) : d < e /\ v(d) = a /\ v(e) = x  BY <2>1, <3>3
      <4>2. a \in S0 /\ pos[a] = off[a] + 1 /\ pos[x] = off[x] + 1  BY <1>9, <3>1, <3>3
      <4>3. d = off[a] /\ e = off[x]  BY <1>8, <3>1, <4>1, <4>2
      <4> QED  BY <1>1, <3>1, <4>1, <4>2, <4>3
    <3> QED  BY <3>2, <3>3, <3>1
  <2>7. CASE r = 0 /\ \A s \in W : ~Reach(table, cap, h, s)
    BY <1>7, <2>5, <2>7 DEF r
  <2>8. CASE r \in W /\ \E d \in 0..(c - 1) : v(d) = r /\ \A e \in 0..(d - 1) : v(e) \notin W /\ v(e) # EMPTY
    <3>1. PICK d \in 0..(c - 1) : v(d) = r /\ \A e \in 0..(d - 1) : v(e) \notin W /\ v(e) # EMPTY
      BY <2>8
    <3>2. r \in LiveSlots  BY <1>4, <2>3, <2>8, <3>1 DEF EMPTY, REMOVED
    <3>3. r \in S0 /\ pos[r] > pos[a]  BY <2>6, <2>8, <3>2
    <3>4. d = off[r] /\ pos[r] = off[r] + 1  BY <1>8, <1>9, <3>1, <3>3
    <3>5. ASSUME NEW x \in S, pos[x] > pos[a] PROVE pos[r] <= pos[x]
      <4>1. x \in S0 /\ x \in W  BY <2>5, <3>5
      <4>2. off[x] \in 0..(c - 1) /\ v(off[x]) = x /\ pos[x] = off[x] + 1  BY <1>8, <1>9, <4>1
      <4>3. ~(off[x] \in 0..(d - 1))  BY <3>1, <4>1, <4>2
      <4> QED  BY <1>1, <3>1, <3>4, <4>2, <4>3
    <3> QED  BY <3>3, <3>5 DEF r
  <2> QED  BY <2>4, <2>7, <2>8
<1>14. Chain(S, pos, next, c)
  <2> HIDE DEF c
  <2>1. ASSUME NEW s \in S PROVE pos[s] \in 0..c
    <3>1. CASE s = 0  BY <1>1, <1>9, <3>1
    <3>2. CASE s # 0
      <4>1. pos[s] \in 1..c  BY <1>9, <1>12, <3>2
      <4> QED  BY <1>1, <4>1
    <3> QED  BY <3>1, <3>2
  <2>2. ASSUME NEW s \in S PROVE next[s] \in S /\ (next[s] # 0 <=> next[s] \in S0)
    <3>1. next[s] = probe(h, s)  BY <1>9
    <3>2. next[s] = 0 \/ next[s] \in S0  BY <1>13, <3>1
    <3> QED  BY <1>9, <3>2
  <2>3. \A s \in S : s # 0 => pos[s] # 0  BY <1>9, <1>12
  <2>4. \A s, r \in S : pos[s] = pos[r] => s = r
    <3>1. SUFFICES ASSUME NEW s \in S, NEW r \in S, pos[s] = pos[r] PROVE s = r
      OBVIOUS
    <3>2. CASE s = 0  BY <1>9, <2>3, <3>1, <3>2
    <3>3. CASE r = 0  BY <1>9, <2>3, <3>1, <3>3
    <3>4. CASE s # 0 /\ r # 0
      <4>1. s \in S0 /\ r \in S0 /\ pos[s] = off[s] + 1 /\ pos[r] = off[r] + 1  BY <1>9, <3>4
      <4>2. off[s] \in 0..(c - 1) /\ off[r] \in 0..(c - 1) /\ v(off[s]) = s /\ v(off[r]) = r
        BY <1>8, <4>1
      <4>3. off[s] + 1 = off[r] + 1  BY <3>1, <4>1
      <4>4. off[s] = off[r]  BY <1>1, <4>2, <4>3
      <4> QED  BY <4>2, <4>4
    <3> QED  BY <3>2, <3>3, <3>4
  <2>5. \A s \in S : next[s] = 0 => \A x \in S : ~(pos[x] > pos[s])  BY <1>9, <1>13
  <2>6. \A s \in S : next[s] # 0 =>
          /\ pos[next[s]] > pos[s]
          /\ \A x \in S : pos[x] > pos[s] => pos[next[s]] <= pos[x]
    BY <1>9, <1>13
  <2> QED  BY <1>9, <2>1, <2>2, <2>3, <2>4, <2>5, <2>6 DEF Chain
<1> QED  BY <1>14 DEF S, S0, next, c

\* The invariant makes the walk over equal hashes exact.
LEMMA ProbeFromInv == IndexIInv => ProbeExact
<1> SUFFICES ASSUME IndexIInv, todo = "none", NEW h \in Hash
             PROVE  LET S == {s \in LiveSlots : hashes[s] = h} \cup {0}
                        next == [s \in S |-> probe(h, s)]
                    IN  /\ {next[s] : s \in S} = S
                        /\ \A T \in SUBSET S :
                             0 \in T /\ (\A s \in T : next[s] \in T) => T = S
  BY DEF ProbeExact
<1> DEFINE S == {s \in LiveSlots : hashes[s] = h} \cup {0}
           next == [s \in S |-> probe(h, s)]
<1>1. PICK pos : Chain(S, pos, next, cap)  BY ProbeIsChain
<1>2. cap \in Nat  BY SlotFacts DEF IndexIInv
<1> HIDE DEF S, next
<1>3. /\ {next[s] : s \in S} = S
      /\ \A T \in SUBSET S : 0 \in T /\ (\A s \in T : next[s] \in T) => T = S
  BY <1>1, <1>2, ChainOnce
<1> QED  BY <1>3 DEF S, next

-----------------------------------------------------------------------------
(***************************************************************************)
(* The key index: the order of the live slots.                             *)
(***************************************************************************)

\* The place of s among the elements of S, and the element at a place.
Rank(S, s) == Cardinality({r \in S : r <= s})
Nth(S, i) == CHOOSE s \in S : Rank(S, s) = i

\* Ranks number the elements from 1 in their order.
LEMMA Ranks ==
  ASSUME NEW n \in Nat, NEW S \in SUBSET (1..n)
  PROVE  /\ IsFiniteSet(S) /\ Cardinality(S) \in 0..n
         /\ \A s \in S : Rank(S, s) \in 1..Cardinality(S)
         /\ \A s, r \in S : s < r => Rank(S, s) < Rank(S, r)
         /\ \A i \in 1..Cardinality(S) : Nth(S, i) \in S /\ Rank(S, Nth(S, i)) = i
         /\ \A s \in S : Nth(S, Rank(S, s)) = s
<1>1. IsFiniteSet(1..n) /\ Cardinality(1..n) = n  BY IntervalSize
<1>2. IsFiniteSet(S) /\ Cardinality(S) <= n  BY <1>1, FS_Subset
<1>3. PICK m \in Nat : m = Cardinality(S)  BY <1>2, FS_CardinalityType
<1>4. m \in 0..n  BY <1>2, <1>3
<1> DEFINE B(s) == {r \in S : r <= s}
<1>5. \A s \in S : IsFiniteSet(B(s)) /\ B(s) \in SUBSET S /\ s \in B(s)
  <2>1. \A s \in S : B(s) \in SUBSET S /\ s \in B(s)  OBVIOUS
  <2> QED  BY <1>2, <2>1, FS_Subset
<1>6. ASSUME NEW s \in S PROVE Rank(S, s) \in 1..m
  <2>1. Rank(S, s) = Cardinality(B(s))  BY DEF Rank
  <2>2. IsFiniteSet(B(s)) /\ B(s) \in SUBSET S /\ B(s) # {}  BY <1>5
  <2> HIDE DEF B
  <2>3. Cardinality(B(s)) \in Nat  BY <2>2, FS_CardinalityType
  <2>4. Cardinality(B(s)) <= Cardinality(S)  BY <1>2, <2>2, FS_Subset
  <2>5. Cardinality(B(s)) # 0  BY <2>2, FS_EmptySet
  <2> QED  BY <1>3, <2>1, <2>3, <2>4, <2>5
<1>7. ASSUME NEW s \in S, NEW r \in S, s < r PROVE Rank(S, s) < Rank(S, r)
  <2>1. Rank(S, s) = Cardinality(B(s)) /\ Rank(S, r) = Cardinality(B(r))  BY DEF Rank
  <2>2. B(s) \in SUBSET B(r) /\ B(s) # B(r)
    <3>1. \A x \in S : x <= s => x <= r  BY <1>7
    <3>2. r \in B(r) /\ r \notin B(s)  BY <1>7
    <3>3. B(s) \in SUBSET B(r)  BY <3>1
    <3> QED  BY <3>2, <3>3
  <2>3. IsFiniteSet(B(r)) /\ IsFiniteSet(B(s))  BY <1>5
  <2> HIDE DEF B
  <2>4. Cardinality(B(s)) <= Cardinality(B(r)) /\ Cardinality(B(s)) # Cardinality(B(r))
    BY <2>2, <2>3, FS_Subset
  <2>5. Cardinality(B(s)) \in Nat /\ Cardinality(B(r)) \in Nat  BY <2>3, FS_CardinalityType
  <2> QED  BY <2>1, <2>4, <2>5
<1>8. \A s, r \in S : Rank(S, s) = Rank(S, r) => s = r
  <2> SUFFICES ASSUME NEW s \in S, NEW r \in S, s # r PROVE Rank(S, s) # Rank(S, r)
    OBVIOUS
  <2>1. s < r \/ r < s  OBVIOUS
  <2>2. Rank(S, s) \in Int /\ Rank(S, r) \in Int  BY <1>6
  <2>3. Rank(S, s) < Rank(S, r) \/ Rank(S, r) < Rank(S, s)  BY <1>7, <2>1
  <2> QED  BY <2>2, <2>3
<1>9. \A i \in 1..m : \E s \in S : Rank(S, s) = i
  <2> DEFINE f == [s \in S |-> Rank(S, s)]
  <2>1. f \in [S -> 1..m]  BY <1>6
  <2>2. \A s \in S : f[s] = Rank(S, s)  OBVIOUS
  <2> HIDE DEF f
  <2>3. f \in Injection(S, 1..m)
    <3>1. \A s, r \in S : f[s] = f[r] => s = r  BY <1>8, <2>2
    <3> QED  BY <2>1, <3>1 DEF Injection, IsInjective
  <2>4. IsFiniteSet(1..m) /\ Cardinality(1..m) = m  BY IntervalSize
  <2>5. f \in Surjection(S, 1..m)  BY <1>3, <2>3, <2>4, FS_Injection
  <2> QED  BY <2>2, <2>5 DEF Surjection
<1>10. \A i \in 1..m : Nth(S, i) \in S /\ Rank(S, Nth(S, i)) = i  BY <1>9 DEF Nth
<1>11. \A s \in S : Nth(S, Rank(S, s)) = s  BY <1>6, <1>8, <1>10
<1> QED  BY <1>2, <1>3, <1>4, <1>6, <1>7, <1>10, <1>11

\* A larger element comes last and moves nothing.
LEMMA RankAdd ==
  ASSUME NEW n \in Nat, NEW S \in SUBSET (1..n)
  PROVE  /\ Cardinality(S \cup {n + 1}) = Cardinality(S) + 1
         /\ \A i \in 1..Cardinality(S) : Nth(S \cup {n + 1}, i) = Nth(S, i)
         /\ Nth(S \cup {n + 1}, Cardinality(S) + 1) = n + 1
<1> DEFINE x == n + 1
           U == S \cup {x}
<1>1. x \in Nat /\ U \in SUBSET (1..x) /\ x \notin S /\ x \in U  OBVIOUS
<1>2. IsFiniteSet(S) /\ \A i \in 1..Cardinality(S) : Nth(S, i) \in S /\ Rank(S, Nth(S, i)) = i
  BY Ranks
<1>3. \A s \in U : Nth(U, Rank(U, s)) = s  BY <1>1, Ranks
<1>4. Cardinality(U) = Cardinality(S) + 1  BY <1>1, <1>2, FS_AddElement
<1>5. \A s \in S : Rank(U, s) = Rank(S, s)
  <2>1. \A s \in S : {r \in U : r <= s} = {r \in S : r <= s}  OBVIOUS
  <2> QED  BY <2>1 DEF Rank
<1>6. Rank(U, x) = Cardinality(U)
  <2>1. \A r \in U : r <= x  OBVIOUS
  <2>2. {r \in U : r <= x} = U  BY <2>1, Zenon
  <2> QED  BY <2>2 DEF Rank
<1> HIDE DEF U, x
<1>7. \A i \in 1..Cardinality(S) : Nth(U, i) = Nth(S, i)
  <2> SUFFICES ASSUME NEW i \in 1..Cardinality(S) PROVE Nth(U, i) = Nth(S, i)
    OBVIOUS
  <2>1. PICK s \in S : s = Nth(S, i) /\ Rank(S, s) = i  BY <1>2
  <2>2. s \in U  BY DEF U
  <2> QED  BY <1>3, <1>5, <2>1, <2>2
<1>8. Nth(U, Cardinality(S) + 1) = x  BY <1>1, <1>3, <1>4, <1>6
<1> QED  BY <1>4, <1>7, <1>8 DEF U, x

\* Without x, the elements before it stay and those after it move up.
LEMMA RankDrop ==
  ASSUME NEW n \in Nat, NEW S \in SUBSET (1..n), NEW x \in S
  PROVE  /\ Cardinality(S \ {x}) = Cardinality(S) - 1
         /\ \A j \in 1..(Cardinality(S) - 1) :
              Nth(S \ {x}, j) = IF j < Rank(S, x) THEN Nth(S, j) ELSE Nth(S, j + 1)
<1> DEFINE U == S \ {x}
<1>1. U \in SUBSET (1..n)  OBVIOUS
<1>2. /\ IsFiniteSet(S) /\ Cardinality(S) \in 0..n
      /\ \A s \in S : Rank(S, s) \in 1..Cardinality(S)
      /\ \A s, r \in S : s < r => Rank(S, s) < Rank(S, r)
      /\ \A i \in 1..Cardinality(S) : Nth(S, i) \in S /\ Rank(S, Nth(S, i)) = i
  BY Ranks
<1>3. \A s \in U : Nth(U, Rank(U, s)) = s  BY <1>1, Ranks
<1>4. Cardinality(U) = Cardinality(S) - 1  BY <1>2, FS_RemoveElement
<1>5. \A s \in U : s < x => Rank(U, s) = Rank(S, s)
  <2>1. \A s \in U : s < x => {r \in U : r <= s} = {r \in S : r <= s}  OBVIOUS
  <2> QED  BY <2>1 DEF Rank
<1>6. ASSUME NEW s \in U, x < s PROVE Rank(U, s) = Rank(S, s) - 1
  <2> DEFINE A == {r \in S : r <= s}
  <2>1. {r \in U : r <= s} = A \ {x} /\ x \in A /\ A \in SUBSET S  BY <1>6
  <2>2. Rank(S, s) = Cardinality(A) /\ Rank(U, s) = Cardinality(A \ {x})  BY <2>1 DEF Rank
  <2> HIDE DEF A
  <2>3. IsFiniteSet(A)  BY <1>2, <2>1, FS_Subset
  <2>4. Cardinality(A \ {x}) = Cardinality(A) - 1  BY <2>1, <2>3, FS_RemoveElement
  <2> QED  BY <2>2, <2>4
<1>7. ASSUME NEW j \in 1..(Cardinality(S) - 1)
      PROVE  Nth(U, j) = IF j < Rank(S, x) THEN Nth(S, j) ELSE Nth(S, j + 1)
  <2>1. j \in 1..Cardinality(S) /\ j + 1 \in 1..Cardinality(S) /\ Rank(S, x) \in Int  BY <1>2
  <2>2. CASE j < Rank(S, x)
    <3>1. PICK s \in S : s = Nth(S, j) /\ Rank(S, s) = j  BY <1>2, <2>1
    <3>2. ~(x < s) /\ s # x  BY <1>2, <2>1, <2>2, <3>1
    <3>3. s < x /\ s \in U  BY <3>2
    <3>4. Rank(U, s) = j  BY <1>5, <3>1, <3>3
    <3>5. Nth(U, j) = s  BY <1>3, <3>3, <3>4
    <3> QED  BY <2>2, <3>1, <3>5
  <2>3. CASE ~(j < Rank(S, x))
    <3>1. PICK s \in S : s = Nth(S, j + 1) /\ Rank(S, s) = j + 1  BY <1>2, <2>1
    <3>2. ~(s < x) /\ s # x
      <4>1. Rank(S, x) < Rank(S, s)  BY <2>1, <2>3, <3>1
      <4> QED  BY <1>2, <2>1, <3>1, <4>1
    <3>3. x < s /\ s \in U  BY <3>2
    <3>4. Rank(U, s) = j  BY <1>6, <3>1, <3>3
    <3>5. Nth(U, j) = s  BY <1>3, <3>3, <3>4
    <3> QED  BY <2>3, <3>1, <3>5
  <2> QED  BY <2>2, <2>3
<1> QED  BY <1>4, <1>7

\* When every slot is live, a slot's place is its number.
LEMMA RankAll ==
  ASSUME NEW n \in Nat
  PROVE  Cardinality(1..n) = n /\ \A i \in 1..n : Nth(1..n, i) = i
<1>1. Cardinality(1..n) = n  BY IntervalSize
<1>2. \A s \in 1..n : Nth(1..n, Rank(1..n, s)) = s  BY Ranks
<1>3. ASSUME NEW i \in 1..n PROVE Rank(1..n, i) = i
  <2>1. {r \in 1..n : r <= i} = 1..i /\ i \in Nat  OBVIOUS
  <2>2. Cardinality(1..i) = i  BY <2>1, IntervalSize
  <2> QED  BY <2>1, <2>2 DEF Rank
<1> QED  BY <1>1, <1>2, <1>3

\* What Retained keeps of v when L is live.
RetainOf(L, v) == [i \in 1..Cardinality(L) |-> v[Nth(L, i)]]

\* Append under a name of ours: the provers match it unexpanded.
AppendOf(s, k) == Append(s, k)

\* A new last slot appends its element.
LEMMA RetainAdd ==
  ASSUME NEW x \in Nat \ {0}, NEW L \in SUBSET (1..(x - 1)), NEW v,
         NEW w, \A s \in L : w[s] = v[s], NEW k, w[x] = k
  PROVE  RetainOf(L \cup {x}, w) = AppendOf(RetainOf(L, v), k)
<1> DEFINE T == {v[s] : s \in L} \cup {k}
           a == RetainOf(L, v)
           U == L \cup {x}
           b == RetainOf(U, w)
<1>0. \A s \in L : v[s] \in T  OBVIOUS
<1>n. PICK n \in Nat : x = n + 1 /\ L \in SUBSET (1..n)
  <2>1. x - 1 \in Nat /\ x = (x - 1) + 1  OBVIOUS
  <2> QED  BY <2>1
<1>1. PICK m \in 0..n : m = Cardinality(L)  BY <1>n, Ranks
<1>2. a \in Seq(T) /\ Len(a) = m /\ \A i \in 1..m : Nth(L, i) \in L /\ a[i] = v[Nth(L, i)]
  <2>1. m \in Nat /\ \A i \in 1..m : Nth(L, i) \in L  BY <1>n, <1>1, Ranks
  <2>2. a = [i \in 1..m |-> v[Nth(L, i)]]  BY <1>1 DEF RetainOf
  <2> HIDE DEF a, T
  <2>3. \A i \in 1..m : a[i] = v[Nth(L, i)]  BY <2>2
  <2>4. a \in [1..m -> T]  BY <1>0, <2>1, <2>2
  <2>5. a \in Seq(T) /\ Len(a) = m  BY <2>1, <2>4
  <2> QED  BY <2>1, <2>3, <2>5
<1>3. /\ Cardinality(U) = m + 1
      /\ \A i \in 1..m : Nth(U, i) = Nth(L, i)
      /\ Nth(U, m + 1) = x
  BY <1>n, <1>1, RankAdd
<1>4. b = [i \in 1..(m + 1) |-> w[Nth(U, i)]]  BY <1>3 DEF RetainOf
<1> HIDE DEF a, U, b
<1>5. \A i \in 1..m : w[Nth(U, i)] = a[i]  BY <1>2, <1>3
<1>6. w[Nth(U, m + 1)] = k  BY <1>3
<1>7. \A i \in 1..(m + 1) : w[Nth(U, i)] = IF i = m + 1 THEN k ELSE a[i]  BY <1>5, <1>6
<1>8. Append(a, k) = [i \in 1..(m + 1) |-> IF i = m + 1 THEN k ELSE a[i]]
  <2> DEFINE q == Append(a, k)
  <2>0. k \in T  OBVIOUS
  <2> HIDE DEF T
  <2>1. q \in Seq(T) /\ Len(q) = m + 1 /\ \A i \in 1..(m + 1) : q[i] = IF i = m + 1 THEN k ELSE a[i]
    BY <1>2, <2>0, AppendProperties
  <2> HIDE DEF q
  <2>2. q = [i \in 1..(m + 1) |-> IF i = m + 1 THEN k ELSE a[i]]  BY <2>1
  <2> QED  BY <2>2 DEF q
<1>9. b = Append(a, k)  BY <1>4, <1>7, <1>8
<1> QED  BY <1>9 DEF a, U, b, AppendOf

\* A removed slot takes its element out.
LEMMA RetainDrop ==
  ASSUME NEW n \in Nat, NEW L \in SUBSET (1..n), NEW v, NEW x \in L
  PROVE  /\ Rank(L, x) \in 1..Cardinality(L)
         /\ RetainOf(L, v)[Rank(L, x)] = v[x]
         /\ RetainOf(L \ {x}, v)
              = SubSeq(RetainOf(L, v), 1, Rank(L, x) - 1)
                \o SubSeq(RetainOf(L, v), Rank(L, x) + 1, Len(RetainOf(L, v)))
<1> DEFINE T == {v[s] : s \in L}
           a == RetainOf(L, v)
           b == RetainOf(L \ {x}, v)
<1>0. \A s \in L : v[s] \in T  OBVIOUS
<1>1. PICK m \in 0..n : m = Cardinality(L)  BY Ranks
<1>2. a \in Seq(T) /\ Len(a) = m /\ \A i \in 1..m : Nth(L, i) \in L /\ a[i] = v[Nth(L, i)]
  <2>1. m \in Nat /\ \A i \in 1..m : Nth(L, i) \in L  BY <1>1, Ranks
  <2>2. a = [i \in 1..m |-> v[Nth(L, i)]]  BY <1>1 DEF RetainOf
  <2> HIDE DEF a, T
  <2>3. \A i \in 1..m : a[i] = v[Nth(L, i)]  BY <2>2
  <2>4. a \in [1..m -> T]  BY <1>0, <2>1, <2>2
  <2>5. a \in Seq(T) /\ Len(a) = m  BY <2>1, <2>4
  <2> QED  BY <2>1, <2>3, <2>5
<1>3. PICK j \in 1..m : j = Rank(L, x) /\ Nth(L, j) = x  BY <1>1, Ranks
<1>4. /\ Cardinality(L \ {x}) = m - 1
      /\ \A i \in 1..(m - 1) : Nth(L \ {x}, i) = IF i < j THEN Nth(L, i) ELSE Nth(L, i + 1)
  BY <1>1, <1>3, RankDrop
<1>5. b = [i \in 1..(m - 1) |-> v[Nth(L \ {x}, i)]]  BY <1>4 DEF RetainOf
<1> HIDE DEF a, b
<1>6. \A i \in 1..(m - 1) : v[Nth(L \ {x}, i)] = IF i < j THEN a[i] ELSE a[i + 1]
  <2>1. \A i \in 1..(m - 1) : i \in 1..m /\ i + 1 \in 1..m  OBVIOUS
  <2> QED  BY <1>2, <1>4, <2>1
<1>7. b = [i \in 1..(m - 1) |-> IF i < j THEN a[i] ELSE a[i + 1]]  BY <1>5, <1>6
<1>8. SubSeq(a, 1, j - 1) \o SubSeq(a, j + 1, m)
        = [i \in 1..(m - 1) |-> IF i < j THEN a[i] ELSE a[i + 1]]
  <2> HIDE DEF T
  <2> DEFINE p == SubSeq(a, 1, j - 1)
             q == SubSeq(a, j + 1, m)
  <2>1. p \in Seq(T) /\ Len(p) = j - 1 /\ \A i \in 1..(j - 1) : p[i] = a[i]  BY <1>2
  <2>2. q \in Seq(T) /\ Len(q) = m - j /\ \A i \in 1..(m - j) : q[i] = a[i + j]  BY <1>2
  <2> HIDE DEF p, q
  <2>3. /\ p \o q \in Seq(T) /\ Len(p \o q) = m - 1
        /\ \A i \in 1..(m - 1) : (p \o q)[i] = IF i <= j - 1 THEN p[i] ELSE q[i - (j - 1)]
    BY <2>1, <2>2
  <2>4. \A i \in 1..(m - 1) : (p \o q)[i] = IF i < j THEN a[i] ELSE a[i + 1]
    BY <2>1, <2>2, <2>3
  <2> DEFINE r == p \o q
  <2>5. r \in Seq(T) /\ Len(r) = m - 1 /\ \A i \in 1..(m - 1) : r[i] = IF i < j THEN a[i] ELSE a[i + 1]
    BY <2>3, <2>4
  <2> HIDE DEF r
  <2>6. r = [i \in 1..(m - 1) |-> IF i < j THEN a[i] ELSE a[i + 1]]  BY <2>5
  <2> QED  BY <2>6 DEF r, p, q
<1>9. a[j] = v[x]  BY <1>2, <1>3
<1>10. b = SubSeq(a, 1, j - 1) \o SubSeq(a, j + 1, m)  BY <1>7, <1>8
<1> QED  BY <1>1, <1>2, <1>3, <1>9, <1>10 DEF a, b

\* Nothing is left out when every slot is live.
LEMMA RetainAll ==
  ASSUME NEW T, NEW w \in Seq(T)
  PROVE  RetainOf(1..Len(w), w) = w
<1> DEFINE m == Len(w)
<1>1. m \in Nat /\ w = [i \in 1..m |-> w[i]]  OBVIOUS
<1> HIDE DEF m
<1>2. Cardinality(1..m) = m /\ \A i \in 1..m : Nth(1..m, i) = i  BY <1>1, RankAll
<1>3. RetainOf(1..m, w) = [i \in 1..m |-> w[Nth(1..m, i)]]  BY <1>2 DEF RetainOf
<1>4. RetainOf(1..m, w) = [i \in 1..m |-> w[i]]  BY <1>2, <1>3
<1> QED  BY <1>1, <1>4 DEF m

-----------------------------------------------------------------------------
(***************************************************************************)
(* The key index: every step keeps the invariant, and says what it does to *)
(* the sequence of keys.                                                   *)
(***************************************************************************)

\* Retained, here and in the next state
LEMMA RetainedIs ==
  /\ Retained(keys) = RetainOf(LiveSlots, keys)
  /\ Retained(keys)' = RetainOf(LiveSlots', keys')
  /\ Retained(hashes) = RetainOf(LiveSlots, hashes)
BY DEF Retained, RetainOf, Nth, Rank

\* A table with room for one more entry has an empty cell.
LEMMA RoomLeft ==
  ASSUME NEW c \in Nat \ {0}, NEW t, DOMAIN t = 0..(c - 1),
         NEW n \in Nat, Cardinality(UsedCells(t)) <= n, (n + 1) * 2 <= c
  PROVE  \E i \in 0..(c - 1) : t[i] = EMPTY
<1>1. n < c  OBVIOUS
<1>2. PICK u \in 0..c : u = Cardinality(UsedCells(t))  BY CellSets
<1>3. u < c  BY <1>1, <1>2
<1> QED  BY <1>2, <1>3, CellSets

\* What a push does to the elements of the live slots.
LEMMA RetainPush ==
  \A n \in Nat : \A k, v, w : \A L \in SUBSET (1..n) :
    (\A s \in L : w[s] = v[s]) /\ w[n + 1] = k
      => RetainOf(L \cup {n + 1}, w) = AppendOf(RetainOf(L, v), k)
<1> TAKE n \in Nat
<1> TAKE k, v, w
<1> TAKE L \in SUBSET (1..n)
<1> HAVE (\A s \in L : w[s] = v[s]) /\ w[n + 1] = k
<1>1. PICK x \in Nat \ {0} : x = n + 1  OBVIOUS
<1>2. L \in SUBSET (1..(x - 1)) /\ w[x] = k  BY <1>1
<1>3. RetainOf(L \cup {x}, w) = AppendOf(RetainOf(L, v), k)  BY <1>2, RetainAdd
<1> QED  BY <1>1, <1>3, Zenon

\* A slot is pushed when the table has room for it and holds the live ones.
LEMMA PushStep ==
  ASSUME IndexTypeOK, Holds(table, cap, LiveSlots, hashes),
         NEW count \in Nat, count = Cardinality(UsedCells(table)), (count + 1) * 2 <= cap,
         \A s \in DOMAIN hashes : hashes[s] = hashOf[keys[s]],
         \A s, r \in LiveSlots : keys[s] = keys[r] => s = r,
         NEW k \in Key, \A s \in LiveSlots : keys[s] # k,
         keys' \in Seq(Key), Len(keys') = Len(hashes) + 1, Len(keys') <= MaxSlots,
         \A s \in DOMAIN hashes : keys'[s] = keys[s],
         keys'[Len(hashes) + 1] = k,
         PushSlot(hashOf[k], count)
  PROVE  IndexIInv' /\ Retained(keys)' = Append(Retained(keys), k)
<1> DEFINE h == hashOf[k]
           L == LiveSlots
<1>1. /\ cap \in Nat \ {0} /\ DOMAIN table = 0..(cap - 1)
      /\ DOMAIN hashes = 1..Len(hashes) /\ DOMAIN live = 1..Len(hashes)
      /\ \A s \in DOMAIN hashes : hashes[s] \in Hash /\ fold[hashes[s]] \in Nat
      /\ L \in SUBSET (1..Len(hashes)) /\ L \in SUBSET (Nat \ {0})
  BY SlotFacts
<1>2. /\ table \in [0..(cap - 1) -> REMOVED..MaxSlots]
      /\ hashes \in Seq(Hash) /\ live \in Seq({0, 1}) /\ Len(live) = Len(hashes)
  BY DEF IndexTypeOK
<1>3. PICK n \in Nat : n = Len(hashes)  BY <1>2
<1>4. h \in Hash /\ fold[h] \in Nat  BY HashFolds DEF Hash
<1>5. n + 1 \in Nat \ {0} /\ n + 1 <= MaxSlots /\ n + 1 \notin L /\ MaxSlots \in Nat
  <2>1. MaxSlots \in Nat /\ n + 1 <= MaxSlots  BY <1>3, KeyIndexAssumption, Zenon
  <2>2. n + 1 \notin 1..n  OBVIOUS
  <2> QED  BY <1>1, <1>3, <2>1, <2>2
<1>6. /\ hashes' = Append(hashes, h) /\ live' = Append(live, 1)
      /\ table' = place(table, cap, h, n + 1)
      /\ occupied' = IF TookEmpty(table, cap, h) THEN count + 1 ELSE count
      /\ todo' = "none" /\ at' = 0 /\ cap' = cap
  BY <1>3 DEF PushSlot
<1> HIDE DEF h, L
<1>7. /\ hashes' \in Seq(Hash) /\ Len(hashes') = n + 1
      /\ hashes'[n + 1] = h /\ \A s \in 1..n : hashes'[s] = hashes[s]
  BY <1>2, <1>3, <1>4, <1>6
<1>8. /\ live' \in Seq({0, 1}) /\ Len(live') = n + 1
      /\ live'[n + 1] = 1 /\ \A s \in 1..n : live'[s] = live[s]
  BY <1>2, <1>3, <1>6
<1>9. DOMAIN hashes' = 1..(n + 1) /\ DOMAIN live' = 1..(n + 1)  BY <1>7, <1>8
<1>10. LiveSlots' = L \cup {n + 1}
  <2>1. LiveSlots' = {s \in 1..(n + 1) : live'[s] # 0}  BY <1>9 DEF LiveSlots
  <2>2. L = {s \in 1..n : live[s] # 0}  BY <1>1, <1>3 DEF LiveSlots, L
  <2>3. \A s : s \in 1..(n + 1) <=> s \in 1..n \/ s = n + 1  OBVIOUS
  <2> QED  BY <1>8, <2>1, <2>2, <2>3
<1>11. \E i \in 0..(cap - 1) : table[i] = EMPTY
  <2>1. Cardinality(UsedCells(table)) <= count  OBVIOUS
  <2> QED  BY <1>1, <2>1, RoomLeft
<1>12. Holds(table', cap, L \cup {n + 1}, hashes')
  <2>1. \A r \in L : r \in 1..n /\ fold[hashes[r]] \in Nat /\ hashes'[r] = hashes[r]
    BY <1>1, <1>3, <1>7
  <2>2. Holds(table, cap, L, hashes)  BY DEF L
  <2> QED  BY <1>1, <1>4, <1>5, <1>6, <1>7, <1>11, <2>1, <2>2, PlaceHolds
<1>13. Cardinality(UsedCells(table')) = occupied' /\ occupied' * 2 <= cap /\ occupied' \in 0..cap
  <2>1. Cardinality(UsedCells(place(table, cap, h, n + 1)))
          = IF TookEmpty(table, cap, h) THEN Cardinality(UsedCells(table)) + 1
                                        ELSE Cardinality(UsedCells(table))
    <3>1. PICK t : t = table  OBVIOUS
    <3>2. PICK x \in Nat \ {0} : x = n + 1  BY <1>5
    <3>3. PICK c \in Nat \ {0} : c = cap  BY <1>1
    <3>4. DOMAIN t = 0..(c - 1) /\ \E i \in 0..(c - 1) : t[i] = EMPTY
      BY <1>1, <1>11, <3>1, <3>3, Zenon
    <3>5. Cardinality(UsedCells(place(t, c, h, x)))
            = IF TookEmpty(t, c, h) THEN Cardinality(UsedCells(t)) + 1
                                    ELSE Cardinality(UsedCells(t))
      BY <1>4, <3>4, PlaceUses
    <3> QED  BY <3>1, <3>2, <3>3, <3>5, Zenon
  <2>2. Cardinality(UsedCells(table')) = occupied'  BY <1>6, <2>1, Zenon
  <2>3. occupied' \in {count, count + 1}  BY <1>6
  <2>4. \A o \in {count, count + 1} : o * 2 <= cap /\ o \in 0..cap  BY <1>1
  <2> QED  BY <2>2, <2>3, <2>4
<1>14. table' \in [0..(cap - 1) -> REMOVED..MaxSlots]
  <2>1. n + 1 \in REMOVED..MaxSlots  BY <1>5 DEF REMOVED
  <2> QED  BY <1>2, <1>6, <2>1 DEF place
<1>15. IndexTypeOK'
  <2>1. Len(keys') = Len(hashes') /\ Len(hashes') = Len(live')  BY <1>3, <1>7, <1>8
  <2>2. at' \in 0..(MaxSlots + 1)  BY <1>5, <1>6
  <2> QED  BY <1>1, <1>6, <1>7, <1>8, <1>13, <1>14, <2>1, <2>2 DEF IndexTypeOK
<1>16. Placed' = L \cup {n + 1}  BY <1>6, <1>10 DEF Placed
<1>17. Counted' /\ Rebuilding'  BY <1>6, <1>13 DEF Counted, Rebuilding
<1>18. KeysExact'
  <2>1. \A s \in 1..n : hashes'[s] = hashOf[keys'[s]]  BY <1>1, <1>3, <1>7
  <2>2. hashes'[n + 1] = hashOf[keys'[n + 1]]  BY <1>3, <1>7 DEF h
  <2>3. \A s \in DOMAIN hashes' : s \in 1..n \/ s = n + 1  BY <1>9
  <2>4. \A s \in L : keys'[s] = keys[s] /\ keys'[s] # k  BY <1>1, <1>3 DEF L
  <2>5. keys'[n + 1] = k  BY <1>3
  <2>6. \A s, r \in L \cup {n + 1} : keys'[s] = keys'[r] => s = r  BY <2>4, <2>5 DEF L
  <2> QED  BY <1>6, <1>10, <2>1, <2>2, <2>3, <2>6 DEF KeysExact
<1>19. IndexIInv'
  BY <1>6, <1>12, <1>15, <1>16, <1>17, <1>18 DEF IndexIInv
<1>20. RetainOf(L \cup {n + 1}, keys') = Append(RetainOf(L, keys), k)
  <2>1. L \in SUBSET (1..n)  BY <1>1, <1>3
  <2>2. \A s \in L : keys'[s] = keys[s]  BY <1>1
  <2>3. keys'[n + 1] = k  BY <1>3
  <2>4. PICK w, v : w = keys' /\ v = keys  OBVIOUS
  <2>5. (\A s \in L : w[s] = v[s]) /\ w[n + 1] = k  BY <2>2, <2>3, <2>4, Zenon
  <2>6. RetainOf(L \cup {n + 1}, w) = AppendOf(RetainOf(L, v), k)  BY <1>3, <2>1, <2>5, RetainPush, SMTT(30)
  <2> QED  BY <2>4, <2>6, Zenon DEF AppendOf
<1> QED  BY <1>10, <1>19, <1>20, RetainedIs DEF L

\* g is what n passes of the loop of cap_for go through.
Doubling(n, g) ==
  /\ g \in [0..n -> Nat]
  /\ g[0] = MinCap
  /\ \A i \in 1..n : g[i] = 2 * g[i - 1]

\* The loop of cap_for goes through some sizes,
LEMMA DoublingExists == \A n \in Nat : \E g : Doubling(n, g)
<1> DEFINE Bad == {n \in Nat : ~ \E g : Doubling(n, g)}
<1>1. SUFFICES ASSUME Bad # {} PROVE FALSE  OBVIOUS
<1>2. PICK m \in Bad : \A n \in Bad : m <= n  BY <1>1, NatMin
<1>3. m \in Nat /\ ~ \E g : Doubling(m, g)  BY <1>2
<1>4. MinCap \in Nat  BY KeyIndexAssumption, Zenon
<1>5. CASE m = 0
  <2>1. Doubling(0, [i \in 0..0 |-> MinCap])  BY <1>4 DEF Doubling
  <2> QED  BY <1>3, <1>5, <2>1, Zenon
<1>6. CASE m # 0
  <2>1. m - 1 \in Nat /\ ~(m <= m - 1)  BY <1>3, <1>6
  <2>2. PICK g : Doubling(m - 1, g)  BY <1>2, <2>1
  <2>3. g \in [0..(m - 1) -> Nat] /\ g[0] = MinCap /\ \A i \in 1..(m - 1) : g[i] = 2 * g[i - 1]
    BY <2>2, Zenon DEF Doubling
  <2> DEFINE h == [i \in 0..m |-> IF i = m THEN 2 * g[m - 1] ELSE g[i]]
  <2>4. \A i \in 0..m : h[i] \in Nat /\ (i # m => h[i] = g[i])  BY <1>3, <1>6, <2>3
  <2>5. h[m] = 2 * h[m - 1]  BY <1>3, <1>6
  <2>6. h[0] = MinCap  BY <1>3, <1>6, <2>3
  <2>7. ASSUME NEW i \in 1..m PROVE h[i] = 2 * h[i - 1]
    <3>1. CASE i = m  BY <2>5, <3>1
    <3>2. CASE i # m
      <4>1. i \in 1..(m - 1) /\ i \in 0..m /\ i - 1 \in 0..m /\ i - 1 # m  BY <1>3, <3>2
      <4> QED  BY <2>3, <2>4, <3>2, <4>1
    <3> QED  BY <3>1, <3>2
  <2>8. h \in [0..m -> Nat]  BY <2>4
  <2> HIDE DEF h
  <2>9. Doubling(m, h)  BY <2>6, <2>7, <2>8 DEF Doubling
  <2> QED  BY <1>3, <2>9
<1> QED  BY <1>5, <1>6

\* and always through the same ones.
LEMMA DoublingAgrees ==
  ASSUME NEW m \in Nat, NEW n \in Nat, m <= n, NEW g, NEW h, Doubling(m, g), Doubling(n, h)
  PROVE  \A i \in 0..m : g[i] = h[i]
<1> DEFINE Bad == {i \in 0..m : g[i] # h[i]}
<1>1. SUFFICES ASSUME Bad # {} PROVE FALSE  OBVIOUS
<1>2. PICK k \in Bad : \A i \in Bad : k <= i
  <2>1. Bad \in SUBSET Nat  OBVIOUS
  <2> HIDE DEF Bad
  <2> QED  BY <1>1, <2>1, NatMin
<1>3. k \in 0..m /\ g[k] # h[k]  BY <1>2
<1>4. g[0] = h[0] /\ (\A i \in 1..m : g[i] = 2 * g[i - 1]) /\ (\A i \in 1..n : h[i] = 2 * h[i - 1])
  BY DEF Doubling
<1>5. k \in 1..m /\ k \in 1..n /\ k - 1 \in 0..m /\ ~(k <= k - 1)  BY <1>3, <1>4
<1>6. g[k - 1] = h[k - 1]  BY <1>2, <1>5
<1> QED  BY <1>3, <1>4, <1>5, <1>6

\* The sizes the loop of cap_for goes through.
LEMMA DoubledIs ==
  /\ Doubled[0] = MinCap
  /\ \A j \in Nat : Doubled[j] \in Nat
  /\ \A j \in Nat : j # 0 => Doubled[j] = 2 * Doubled[j - 1]
<1> DEFINE G(n) == CHOOSE g : Doubling(n, g)
           f == [n \in Nat |-> G(n)[n]]
<1>1. \A n \in Nat : Doubling(n, G(n))  BY DoublingExists
<1> HIDE DEF G
<1>2. \A n \in Nat : f[n] = G(n)[n]  OBVIOUS
<1>3. ASSUME NEW n \in Nat PROVE G(n)[n] \in Nat
  <2>1. G(n) \in [0..n -> Nat] /\ n \in 0..n  BY <1>1 DEF Doubling
  <2> QED  BY <2>1
<1>4. f[0] = MinCap
  <2>1. 0 \in Nat  OBVIOUS
  <2>2. G(0)[0] = MinCap  BY <1>1, <2>1, Zenon DEF Doubling
  <2> QED  BY <1>2, <2>1, <2>2, Zenon
<1>5. ASSUME NEW n \in Nat, n # 0 PROVE f[n] = 2 * f[n - 1]
  <2>1. PICK p \in Nat : p = n - 1  BY <1>5
  <2>2. Doubling(p, G(p)) /\ Doubling(n, G(n))  BY <1>1
  <2>3. p <= n /\ p \in 0..p /\ n \in 1..n  BY <1>5, <2>1
  <2>4. G(p)[p] = G(n)[p]  BY <2>2, <2>3, DoublingAgrees
  <2>5. G(n)[n] = 2 * G(n)[n - 1]  BY <2>2, <2>3 DEF Doubling
  <2>6. G(n)[n] = 2 * f[p]  BY <1>2, <2>1, <2>4, <2>5
  <2>7. f[n] = G(n)[n]  BY <1>2
  <2> QED  BY <2>1, <2>6, <2>7
<1>6. f = [j \in Nat |-> IF j = 0 THEN MinCap ELSE 2 * f[j - 1]]
  <2>1. \A j \in Nat : f[j] = IF j = 0 THEN MinCap ELSE 2 * f[j - 1]  BY <1>4, <1>5
  <2>2. f = [j \in Nat |-> f[j]]  OBVIOUS
  <2> HIDE DEF f
  <2> QED  BY <2>1, <2>2
<1> HIDE DEF f
<1> DEFINE Eq(d) == d = [j \in Nat |-> IF j = 0 THEN MinCap ELSE 2 * d[j - 1]]
<1>7. Eq(CHOOSE d : Eq(d))
  <2>1. \E d : Eq(d)  BY <1>6
  <2> HIDE DEF Eq
  <2> QED  BY <2>1, Zenon
<1>8. Eq(Doubled)  BY <1>7 DEF Doubled
<1>9. \A j \in Nat : Doubled[j] = IF j = 0 THEN MinCap ELSE 2 * Doubled[j - 1]  BY <1>8
<1> DEFINE Bad == {i \in Nat : Doubled[i] \notin Nat}
<1>10. Bad = {}
  <2>1. SUFFICES ASSUME Bad # {} PROVE FALSE  OBVIOUS
  <2>2. PICK k \in Bad : \A i \in Bad : k <= i  BY <2>1, NatMin
  <2>3. MinCap \in Nat  BY KeyIndexAssumption, Zenon
  <2>4. k \in Nat /\ Doubled[k] \notin Nat  BY <2>2
  <2>5. k # 0  BY <1>9, <2>3, <2>4
  <2>6. k - 1 \in Nat /\ ~(k <= k - 1)  BY <2>4, <2>5
  <2>7. Doubled[k - 1] \in Nat  BY <2>2, <2>6
  <2> QED  BY <1>9, <2>4, <2>5, <2>7
<1> QED  BY <1>9, <1>10

\* Doubling reaches every size soon enough.
LEMMA DoubledGrows == \A j \in Nat : j # 0 => 2 * j <= Doubled[j]
<1> DEFINE Bad == {j \in Nat : j # 0 /\ ~(2 * j <= Doubled[j])}
<1>1. SUFFICES ASSUME Bad # {} PROVE FALSE  OBVIOUS
<1>2. PICK k \in Bad : \A i \in Bad : k <= i  BY <1>1, NatMin
<1>3. k \in Nat /\ k # 0 /\ ~(2 * k <= Doubled[k])  BY <1>2
<1>4. k - 1 \in Nat /\ ~(k <= k - 1)  BY <1>3
<1>5. MinCap \in Nat \ {0}  BY KeyIndexAssumption, Zenon
<1>6. PICK a \in Nat : a = Doubled[k - 1]  BY <1>4, DoubledIs
<1>7. Doubled[k] = 2 * a  BY <1>3, <1>6, DoubledIs
<1>8. CASE k = 1
  <2>1. a = MinCap  BY <1>6, <1>8, DoubledIs
  <2> QED  BY <1>3, <1>5, <1>7, <1>8, <2>1
<1>9. CASE k # 1
  <2>1. 2 * (k - 1) <= a  BY <1>2, <1>3, <1>4, <1>6, <1>9
  <2> QED  BY <1>3, <1>7, <1>9, <2>1
<1> QED  BY <1>8, <1>9

\* The table size for n entries.
LEMMA CapFor ==
  ASSUME NEW n \in (0..(MaxSlots + 1)) \cup Presizes
  PROVE  cap_for(n) \in Nat \ {0} /\ (n + 1) * 2 <= cap_for(n) /\ n \in Nat
<1>1. n \in Nat
  <2>1. MaxSlots \in Nat /\ Presizes \subseteq Nat  BY KeyIndexAssumption, Zenon
  <2> QED  BY <2>1
<1> DEFINE J == {j \in 0..(n + 1) : (n + 1) * 2 <= Doubled[j]}
<1>2. n + 1 \in J
  <2>1. n + 1 \in Nat /\ n + 1 # 0 /\ n + 1 \in 0..(n + 1)  BY <1>1
  <2>2. 2 * (n + 1) <= Doubled[n + 1]  BY <2>1, DoubledGrows
  <2>3. Doubled[n + 1] \in Nat  BY <2>1, DoubledIs
  <2> QED  BY <1>1, <2>1, <2>2, <2>3
<1>3. n + 2 \in Nat /\ J \in SUBSET (0..((n + 2) - 1))  BY <1>1
<1>4. First(J, n + 2) \in J
  <2> HIDE DEF J
  <2> QED  BY <1>2, <1>3, FirstIs
<1>5. PICK j \in J : j = First(J, n + 2)  BY <1>4
<1>6. cap_for(n) = Doubled[j]  BY <1>5 DEF cap_for
<1>7. j \in Nat /\ (n + 1) * 2 <= Doubled[j]  BY <1>1
<1>8. PICK c \in Nat : c = cap_for(n)  BY <1>6, <1>7, DoubledIs
<1>9. (n + 1) * 2 <= c  BY <1>6, <1>7, <1>8
<1>10. c # 0  BY <1>1, <1>9
<1> QED  BY <1>1, <1>8, <1>9, <1>10, Zenon

\* A rebuild starts with an empty table of the right size.
LEMMA StartStep ==
  ASSUME NEW op \in {"insert", "compact"}, NEW m \in 0..(MaxSlots + 1),
         RebuildStart(m, op),
         hashes' \in Seq(Hash), live' \in Seq({0, 1}), keys' \in Seq(Key),
         Len(hashes') = Len(live'), Len(keys') <= MaxSlots,
         Len(keys') = IF op = "insert" THEN Len(hashes') + 1 ELSE Len(hashes'),
         Cardinality(LiveSlots') \in Nat,
         m = Cardinality(LiveSlots') + IF op = "insert" THEN 1 ELSE 0,
         KeysExact'
  PROVE  IndexIInv'
<1>1. /\ cap' = cap_for(m) /\ table' = EmptyTable(cap') /\ occupied' = 0
      /\ todo' = op /\ at' = 1
  BY DEF RebuildStart
<1>2. MaxSlots \in Nat  BY KeyIndexAssumption
<1>3. m \in (0..(MaxSlots + 1)) \cup Presizes  OBVIOUS
<1>4. cap' \in Nat \ {0} /\ (m + 1) * 2 <= cap'  BY <1>1, <1>3, CapFor
<1>5. PICK c \in Nat \ {0} : c = cap'  BY <1>4
<1>6. table' = EmptyTable(c)  BY <1>1, <1>5
<1>7. /\ DOMAIN EmptyTable(c) = 0..(c - 1) /\ \A i \in 0..(c - 1) : EmptyTable(c)[i] = EMPTY
      /\ Cardinality(UsedCells(EmptyTable(c))) = 0
  BY EmptyHolds
<1>8. Holds(EmptyTable(c), c, {}, hashes')
  <2>1. PICK hs : hs = hashes'  OBVIOUS
  <2>2. Holds(EmptyTable(c), c, {}, hs)  BY EmptyHolds
  <2> QED  BY <2>1, <2>2
<1>9. EmptyTable(c) \in [0..(c - 1) -> REMOVED..MaxSlots]
  <2>1. EMPTY \in REMOVED..MaxSlots  BY <1>2 DEF EMPTY, REMOVED
  <2> QED  BY <2>1 DEF EmptyTable
<1>10. IndexTypeOK'
  <2>1. occupied' \in 0..cap' /\ at' \in 0..(MaxSlots + 1)  BY <1>1, <1>2, <1>4
  <2>2. table' \in [0..(cap' - 1) -> REMOVED..MaxSlots]  BY <1>5, <1>6, <1>9
  <2> QED  BY <1>1, <1>4, <2>1, <2>2 DEF IndexTypeOK
<1>11. Placed' = {}
  <2>1. LiveSlots' \in SUBSET (1..Len(live'))  BY DEF LiveSlots
  <2>2. \A s \in LiveSlots' : ~(s < 1)  BY <2>1
  <2> QED  BY <1>1, <2>2 DEF Placed
<1>12. Holds(table', cap', Placed', hashes')  BY <1>5, <1>6, <1>8, <1>11
<1>13. Counted'  BY <1>1 DEF Counted
<1>14. Rebuilding'
  <2>1. at' \in 1..(Len(hashes') + 1)  BY <1>1
  <2>2. \A i \in DOMAIN table' : table'[i] # REMOVED  BY <1>6, <1>7 DEF EMPTY, REMOVED
  <2>3. Cardinality(UsedCells(table')) = Cardinality(Placed')
    BY <1>6, <1>7, <1>11, FS_EmptySet
  <2>4. (Cardinality(LiveSlots') + IF todo' = "insert" THEN 2 ELSE 1) * 2 <= cap'
    <3>1. PICK n \in Nat : n = Cardinality(LiveSlots')  OBVIOUS
    <3>2. CASE op = "insert"
      <4>1. m = n + 1 /\ todo' = "insert"  BY <1>1, <3>1, <3>2
      <4>2. (n + 2) * 2 <= cap'
        <5>1. (m + 1) * 2 = (n + 2) * 2  BY <3>1, <4>1
        <5> QED  BY <1>4, <5>1
      <4> QED  BY <3>1, <4>1, <4>2
    <3>3. CASE op = "compact"
      <4>1. m = n /\ todo' # "insert"  BY <1>1, <3>1, <3>3
      <4>2. (n + 1) * 2 <= cap'  BY <1>4, <4>1
      <4> QED  BY <3>1, <4>1, <4>2
    <3> QED  BY <3>2, <3>3
  <2> QED  BY <2>1, <2>2, <2>3, <2>4 DEF Rebuilding
<1> QED  BY <1>10, <1>12, <1>13, <1>14 DEF IndexIInv

\* A turn of the rebuild's loop places one more live slot.
LEMMA RebuildSlotStep ==
  ASSUME IndexIInv, RebuildSlot
  PROVE  IndexIInv' /\ Retained(keys)' = Retained(keys)
<1> DEFINE L == LiveSlots
           h == hashes[at]
<1>1. /\ todo # "none" /\ at \in DOMAIN hashes
      /\ table' = IF live[at] # 0 THEN place(table, cap, h, at) ELSE table
      /\ at' = at + 1
      /\ cap' = cap /\ occupied' = occupied /\ hashes' = hashes /\ live' = live
      /\ keys' = keys /\ todo' = todo
  BY DEF RebuildSlot
<1>2. /\ cap \in Nat \ {0} /\ DOMAIN table = 0..(cap - 1) /\ Len(hashes) \in 0..MaxSlots
      /\ DOMAIN hashes = 1..Len(hashes) /\ DOMAIN live = 1..Len(hashes)
      /\ \A s \in DOMAIN hashes : hashes[s] \in Hash /\ fold[hashes[s]] \in Nat
      /\ L \in SUBSET (Nat \ {0}) /\ IsFiniteSet(L) /\ L \in SUBSET DOMAIN hashes
      /\ Cardinality(L) \in Nat
  BY SlotFacts DEF IndexIInv
<1>3. MaxSlots \in Nat  BY KeyIndexAssumption
<1>4. /\ \A i \in DOMAIN table : table[i] # REMOVED
      /\ Cardinality(UsedCells(table)) = Cardinality(Placed)
      /\ (Cardinality(L) + IF todo = "insert" THEN 2 ELSE 1) * 2 <= cap
  BY <1>1 DEF IndexIInv, Rebuilding
<1>5. Holds(table, cap, Placed, hashes)  BY DEF IndexIInv
<1>6. at \in Nat \ {0} /\ at \in 1..MaxSlots /\ at + 1 \in 1..(Len(hashes) + 1)
      /\ at + 1 \in 0..(MaxSlots + 1)
  BY <1>1, <1>2, <1>3
<1>7. LiveSlots' = L  BY <1>1 DEF LiveSlots
<1>8. Placed = {s \in L : s < at} /\ Placed' = {s \in L : s < at + 1}
  BY <1>1, <1>7 DEF Placed
<1>9. Placed \in SUBSET L /\ IsFiniteSet(Placed) /\ Cardinality(Placed) <= Cardinality(L)
      /\ Cardinality(Placed) \in Nat
  <2>1. Placed \in SUBSET L  BY DEF Placed
  <2>2. IsFiniteSet(Placed) /\ Cardinality(Placed) <= Cardinality(L)  BY <1>2, <2>1, FS_Subset
  <2> QED  BY <2>1, <2>2, FS_CardinalityType
<1>10. table \in [0..(cap - 1) -> REMOVED..MaxSlots]  BY DEF IndexIInv, IndexTypeOK
<1> HIDE DEF L, h
<1>11. Retained(keys)' = Retained(keys)
  <2>1. RetainOf(LiveSlots', keys') = RetainOf(LiveSlots, keys)  BY <1>1, <1>7, Zenon DEF L
  <2> QED  BY <2>1, RetainedIs
<1>12. ASSUME /\ table' \in [0..(cap - 1) -> REMOVED..MaxSlots]
              /\ Holds(table', cap, Placed', hashes)
              /\ \A i \in DOMAIN table' : table'[i] # REMOVED
              /\ Cardinality(UsedCells(table')) = Cardinality(Placed')
       PROVE  IndexIInv'
  <2>1. IndexTypeOK'  BY <1>1, <1>6, <1>12 DEF IndexIInv, IndexTypeOK
  <2>2. Counted'  BY <1>1 DEF Counted
  <2>3. Rebuilding'
    <3>1. at' \in 1..(Len(hashes') + 1)  BY <1>1, <1>6
    <3>2. (Cardinality(LiveSlots') + IF todo' = "insert" THEN 2 ELSE 1) * 2 <= cap'
      BY <1>1, <1>4, <1>7
    <3> QED  BY <1>12, <3>1, <3>2 DEF Rebuilding
  <2>4. KeysExact'  BY <1>1, <1>7 DEF IndexIInv, KeysExact, L
  <2> QED  BY <1>1, <1>12, <2>1, <2>2, <2>3, <2>4 DEF IndexIInv
<1>13. CASE live[at] # 0
  <2>1. at \in L /\ at \notin Placed  BY <1>1, <1>2, <1>6, <1>8, <1>13 DEF L, LiveSlots
  <2>2. Placed' = Placed \cup {at}
    <3>1. \A s \in L : s < at + 1 <=> s < at \/ s = at  BY <1>2, <1>6
    <3> QED  BY <1>8, <2>1, <3>1
  <2>3. Cardinality(Placed') = Cardinality(Placed) + 1  BY <1>9, <2>1, <2>2, FS_AddElement
  <2>4. \E i \in 0..(cap - 1) : table[i] = EMPTY
    <3>1. PICK n \in Nat : n = Cardinality(L)  BY <1>2
    <3>2. (n + 1) * 2 <= cap
      <4>1. CASE todo = "insert"
        <5>1. (n + 2) * 2 <= cap  BY <1>4, <3>1, <4>1
        <5> QED  BY <1>2, <5>1
      <4>2. CASE todo # "insert"  BY <1>4, <3>1, <4>2
      <4> QED  BY <4>1, <4>2
    <3>3. Cardinality(UsedCells(table)) <= n  BY <1>4, <1>9, <3>1
    <3> QED  BY <1>2, <3>1, <3>2, <3>3, RoomLeft
  <2>5. fold[h] \in Nat /\ table' = place(table, cap, h, at)  BY <1>1, <1>2, <1>13 DEF h
  <2>6. Holds(table', cap, Placed', hashes)
    <3>1. \A r \in Placed : fold[hashes[r]] \in Nat  BY <1>2, <1>9
    <3>2. Placed \in SUBSET (Nat \ {0}) /\ hashes[at] = h  BY <1>2, <1>9 DEF h
    <3>3. PICK P : P = Placed  OBVIOUS
    <3>4. Holds(place(table, cap, h, at), cap, P \cup {at}, hashes)
      BY <1>2, <1>5, <1>6, <2>1, <2>4, <2>5, <3>1, <3>2, <3>3, PlaceHolds
    <3> QED  BY <2>2, <2>5, <3>3, <3>4
  <2>7. TookEmpty(table, cap, h)
    <3>1. PICK d \in 0..(cap - 1) : /\ FreeCell(table, cap, h) = Cell(h, cap, d)
                                    /\ table[Cell(h, cap, d)] \in {EMPTY, REMOVED}
      BY <1>2, <2>4, <2>5, FreeCellIs
    <3>2. Cell(h, cap, d) \in 0..(cap - 1)  BY <1>2, <2>5, CellsOnce
    <3> QED  BY <1>2, <1>4, <3>1, <3>2 DEF TookEmpty
  <2>8. Cardinality(UsedCells(place(table, cap, h, at)))
          = IF TookEmpty(table, cap, h) THEN Cardinality(UsedCells(table)) + 1
                                        ELSE Cardinality(UsedCells(table))
    BY <1>2, <1>6, <2>4, <2>5, PlaceUses
  <2>9. Cardinality(UsedCells(table')) = Cardinality(Placed')
    BY <1>4, <2>3, <2>5, <2>7, <2>8, Zenon
  <2>10. table' \in [0..(cap - 1) -> REMOVED..MaxSlots]
    <3>1. at \in REMOVED..MaxSlots  BY <1>3, <1>6 DEF REMOVED
    <3> QED  BY <1>10, <2>5, <3>1 DEF place
  <2>11. \A i \in DOMAIN table' : table'[i] # REMOVED
    <3>1. at # REMOVED  BY <1>6 DEF REMOVED
    <3> QED  BY <1>2, <1>4, <2>5, <3>1 DEF place
  <2> QED  BY <1>11, <1>12, <2>6, <2>9, <2>10, <2>11
<1>14. CASE live[at] = 0
  <2>1. at \notin L  BY <1>14 DEF L, LiveSlots
  <2>2. Placed' = Placed
    <3>1. \A s \in L : s < at + 1 <=> s < at  BY <1>2, <1>6, <2>1
    <3> QED  BY <1>8, <3>1
  <2>3. table' = table  BY <1>1, <1>14
  <2> QED  BY <1>4, <1>5, <1>10, <1>11, <1>12, <2>2, <2>3
<1> QED  BY <1>13, <1>14

\* The end of a rebuild: the table holds every live slot.
LEMMA RebuiltAll ==
  ASSUME IndexIInv, todo # "none", at \notin DOMAIN hashes
  PROVE  /\ Placed = LiveSlots
         /\ Cardinality(UsedCells(table)) = Cardinality(LiveSlots)
<1>1. DOMAIN hashes = 1..Len(hashes) /\ Len(hashes) \in Nat /\ LiveSlots \in SUBSET (1..Len(hashes))
  BY SlotFacts DEF IndexIInv
<1>2. at \in 1..(Len(hashes) + 1) /\ Cardinality(UsedCells(table)) = Cardinality(Placed)
  BY DEF IndexIInv, Rebuilding
<1>3. at = Len(hashes) + 1  BY <1>1, <1>2
<1>4. \A s \in LiveSlots : s < at  BY <1>1, <1>3
<1>5. Placed = LiveSlots  BY <1>4 DEF Placed
<1> QED  BY <1>2, <1>5

\* The end of a rebuild finishes the native that called it.
LEMMA RebuildEndStep ==
  ASSUME IndexIInv, RebuildEnd
  PROVE  /\ IndexIInv'
         /\ \/ Retained(keys)' = Retained(keys)
            \/ \E k \in Key : /\ \A s \in LiveSlots : keys[s] # k
                              /\ Retained(keys)' = Append(Retained(keys), k)
<1>1. todo # "none" /\ at \notin DOMAIN hashes  BY DEF RebuildEnd
<1>2. Placed = LiveSlots /\ Cardinality(UsedCells(table)) = Cardinality(LiveSlots)
  BY <1>1, RebuiltAll
<1>3. /\ cap \in Nat \ {0} /\ Len(hashes) \in Nat /\ DOMAIN hashes = 1..Len(hashes)
      /\ Cardinality(LiveSlots) \in Nat /\ MaxSlots \in Nat
  <2>1. MaxSlots \in Nat  BY KeyIndexAssumption
  <2> QED  BY <2>1, SlotFacts DEF IndexIInv
<1>4. (Cardinality(LiveSlots) + IF todo = "insert" THEN 2 ELSE 1) * 2 <= cap
  BY <1>1 DEF IndexIInv, Rebuilding
<1>5. PICK n \in Nat : n = Cardinality(LiveSlots)  BY <1>3
<1>6. Holds(table, cap, LiveSlots, hashes)  BY <1>2 DEF IndexIInv
<1>7. CASE /\ todo = "insert"
           /\ PushSlot(hashOf[keys[Len(keys)]], Cardinality(LiveSlots))
           /\ UNCHANGED keys
  <2>1. keys \in Seq(Key) /\ Len(keys) = Len(hashes) + 1 /\ Len(keys) <= MaxSlots
    BY <1>7 DEF IndexIInv, IndexTypeOK
  <2>2. PICK k \in Key : k = keys[Len(hashes) + 1]  BY <1>3, <2>1
  <2>3. \A s \in LiveSlots : keys[s] # k  BY <1>7, <2>1, <2>2 DEF IndexIInv, KeysExact
  <2>4. PushSlot(hashOf[k], n)  BY <1>5, <1>7, <2>1, <2>2
  <2>5. n = Cardinality(UsedCells(table))  BY <1>2, <1>5
  <2>6. (n + 1) * 2 <= cap
    <3>1. (n + 2) * 2 <= cap  BY <1>4, <1>5, <1>7
    <3> QED  BY <1>3, <3>1
  <2>7. /\ \A s \in DOMAIN hashes : hashes[s] = hashOf[keys[s]]
        /\ \A s, r \in LiveSlots : keys[s] = keys[r] => s = r
    BY DEF IndexIInv, KeysExact
  <2>8. /\ keys' \in Seq(Key) /\ Len(keys') = Len(hashes) + 1 /\ Len(keys') <= MaxSlots
        /\ \A s \in DOMAIN hashes : keys'[s] = keys[s]
        /\ keys'[Len(hashes) + 1] = k
    BY <1>7, <2>1, <2>2
  <2>9. IndexTypeOK  BY DEF IndexIInv
  <2>10. IndexIInv' /\ Retained(keys)' = Append(Retained(keys), k)
    BY <1>6, <2>3, <2>4, <2>5, <2>6, <2>7, <2>8, <2>9, PushStep
  <2> QED  BY <2>3, <2>10
<1>8. CASE /\ todo = "compact"
           /\ occupied' = Cardinality(LiveSlots)
           /\ todo' = "none" /\ at' = 0
           /\ UNCHANGED <<cap, table, hashes, live, keys>>
  <2>1. cap' = cap /\ table' = table /\ hashes' = hashes /\ live' = live /\ keys' = keys
    BY <1>8
  <2>2. LiveSlots' = LiveSlots  BY <2>1 DEF LiveSlots
  <2>3. Placed' = LiveSlots  BY <1>8, <2>2 DEF Placed
  <2>4. n * 2 <= cap /\ n \in 0..cap
    <3>1. (n + 1) * 2 <= cap  BY <1>4, <1>5, <1>8
    <3> QED  BY <1>3, <3>1
  <2>5. occupied' = n /\ Cardinality(UsedCells(table')) = n  BY <1>2, <1>5, <1>8, <2>1
  <2>6. IndexTypeOK'
    <3>1. at' \in 0..(MaxSlots + 1)  BY <1>3, <1>8
    <3>2. Len(keys) = Len(hashes)  BY <1>8 DEF IndexIInv, IndexTypeOK
    <3> QED  BY <1>8, <2>1, <2>4, <2>5, <3>1, <3>2 DEF IndexIInv, IndexTypeOK
  <2>7. Counted' /\ Rebuilding'  BY <1>8, <2>1, <2>4, <2>5 DEF Counted, Rebuilding
  <2>8. KeysExact'  BY <1>8, <2>1, <2>2 DEF IndexIInv, KeysExact
  <2>9. IndexIInv'  BY <1>6, <2>1, <2>3, <2>6, <2>7, <2>8 DEF IndexIInv
  <2>10. RetainOf(LiveSlots', keys') = RetainOf(LiveSlots, keys)  BY <2>1, <2>2, Zenon
  <2> QED  BY <2>9, <2>10, RetainedIs
<1> QED  BY <1>7, <1>8 DEF RebuildEnd

\* add puts the key at the end, or starts the rebuild that will.
LEMMA AddStep ==
  ASSUME IndexIInv, NEW k \in Key, add(k)
  PROVE  /\ IndexIInv'
         /\ \A s \in LiveSlots : keys[s] # k
         /\ \/ Retained(keys)' = Retained(keys)
            \/ Retained(keys)' = Append(Retained(keys), k)
<1>1. todo = "none" /\ Len(keys) < MaxSlots /\ find(hashOf[k], k) = 0 /\ keys' = Append(keys, k)
  BY DEF add
<1>2. /\ keys \in Seq(Key) /\ Len(keys) = Len(hashes) /\ IndexTypeOK
      /\ hashes \in Seq(Hash) /\ live \in Seq({0, 1}) /\ Len(hashes) = Len(live)
  BY <1>1 DEF IndexIInv, IndexTypeOK
<1>3. /\ cap \in Nat \ {0} /\ Len(hashes) \in 0..MaxSlots /\ DOMAIN hashes = 1..Len(hashes)
      /\ LiveSlots \in SUBSET (Nat \ {0}) /\ LiveSlots \in SUBSET (1..Len(hashes))
      /\ Cardinality(LiveSlots) \in 0..Len(hashes) /\ MaxSlots \in Nat
  <2>1. MaxSlots \in Nat  BY KeyIndexAssumption
  <2> QED  BY <2>1, SlotFacts DEF IndexIInv
<1>4. \A s \in LiveSlots : keys[s] # k
  <2>1. 0 \notin LiveSlots  BY <1>3
  <2> QED  BY <1>1, <2>1, FindIs
<1>5. /\ keys' \in Seq(Key) /\ Len(keys') = Len(hashes) + 1 /\ Len(keys') <= MaxSlots
      /\ \A s \in DOMAIN hashes : keys'[s] = keys[s]
      /\ keys'[Len(hashes) + 1] = k
  <2>1. PICK n \in Nat : n = Len(hashes)  BY <1>2
  <2>2. /\ keys' \in Seq(Key) /\ Len(keys') = n + 1 /\ keys'[n + 1] = k
        /\ \A s \in 1..n : keys'[s] = keys[s]
    BY <1>1, <1>2, <2>1
  <2>3. n + 1 <= MaxSlots  BY <1>1, <1>2, <1>3, <2>1
  <2> QED  BY <1>3, <2>1, <2>2, <2>3
<1>6. /\ \A s \in DOMAIN hashes : hashes[s] = hashOf[keys[s]]
      /\ \A s, r \in LiveSlots : keys[s] = keys[r] => s = r
  BY DEF IndexIInv, KeysExact
<1>7. occupied = Cardinality(UsedCells(table)) /\ occupied \in Nat
  BY <1>1, <1>2, <1>3 DEF IndexIInv, Counted, IndexTypeOK
<1>8. CASE (occupied + 1) * 2 > cap
  <2>1. RebuildStart(Cardinality(LiveSlots) + 1, "insert") /\ hashes' = hashes /\ live' = live
    BY <1>8 DEF add
  <2>2. LiveSlots' = LiveSlots  BY <2>1 DEF LiveSlots
  <2>3. PICK m \in 0..(MaxSlots + 1) : m = Cardinality(LiveSlots) + 1  BY <1>3
  <2>4. KeysExact'
    <3>1. \A s \in DOMAIN hashes' : hashes'[s] = hashOf[keys'[s]]  BY <1>5, <1>6, <2>1
    <3>2. \A s \in LiveSlots : keys'[s] = keys[s]  BY <1>3, <1>5
    <3>3. keys'[Len(keys')] = k  BY <1>5
    <3> QED  BY <1>4, <1>6, <2>2, <3>1, <3>2, <3>3 DEF KeysExact
  <2>5. /\ hashes' \in Seq(Hash) /\ live' \in Seq({0, 1}) /\ Len(hashes') = Len(live')
        /\ Len(keys') = Len(hashes') + 1
    BY <1>2, <1>5, <2>1
  <2>6. Cardinality(LiveSlots') \in Nat /\ m = Cardinality(LiveSlots') + 1
        /\ RebuildStart(m, "insert")
    BY <1>3, <2>1, <2>2, <2>3
  <2>7. IndexIInv'  BY <1>5, <2>4, <2>5, <2>6, StartStep
  <2>8. Retained(keys)' = Retained(keys)
    <3>1. \A i \in 1..Cardinality(LiveSlots) : Nth(LiveSlots, i) \in LiveSlots
      BY <1>3, Ranks
    <3>2. \A s \in LiveSlots : keys'[s] = keys[s]  BY <1>3, <1>5
    <3>3. PICK L, w, v : L = LiveSlots /\ w = keys' /\ v = keys  OBVIOUS
    <3>4. \A i \in 1..Cardinality(L) : w[Nth(L, i)] = v[Nth(L, i)]  BY <3>1, <3>2, <3>3
    <3>5. RetainOf(L, w) = RetainOf(L, v)  BY <3>4 DEF RetainOf
    <3> QED  BY <2>2, <3>3, <3>5, RetainedIs
  <2> QED  BY <1>4, <2>7, <2>8
<1>9. CASE ~((occupied + 1) * 2 > cap)
  <2>1. PushSlot(hashOf[k], occupied)  BY <1>9 DEF add
  <2>2. PICK n \in Nat : n = occupied  BY <1>7
  <2>3. n = Cardinality(UsedCells(table)) /\ (n + 1) * 2 <= cap /\ PushSlot(hashOf[k], n)
    BY <1>3, <1>7, <1>9, <2>1, <2>2
  <2>4. Holds(table, cap, LiveSlots, hashes)
    <3>1. Placed = LiveSlots  BY <1>1 DEF Placed
    <3> QED  BY <3>1 DEF IndexIInv
  <2>5. IndexIInv' /\ Retained(keys)' = Append(Retained(keys), k)
    BY <1>2, <1>4, <1>5, <1>6, <2>3, <2>4, PushStep
  <2> QED  BY <1>4, <2>5
<1> QED  BY <1>8, <1>9

\* drop_key takes the key's slot out; its cell stays in use.
LEMMA DropStep ==
  ASSUME IndexIInv, NEW k \in Key, drop_key(k)
  PROVE  /\ IndexIInv'
         /\ \E x \in LiveSlots : keys[x] = k /\ LiveSlots' = LiveSlots \ {x} /\ keys' = keys
<1> DEFINE L == LiveSlots
           s == find(hashOf[k], k)
           h == hashes[s]
           c == cap
           v(d) == table[Cell(h, c, d)]
           D == {d \in 0..(c - 1) : v(d) \in {EMPTY, s}}
           i == Cell(h, c, First(D, c))
<1>1. /\ todo = "none" /\ s # 0 /\ RemoveSlot(s)
      /\ cap' = cap /\ occupied' = occupied /\ hashes' = hashes /\ keys' = keys
      /\ todo' = todo /\ at' = at
  BY DEF drop_key
<1>2. s \in L /\ keys[s] = k  BY <1>1, FindIs
<1>3. IF live[s] # 0 /\ D # {} /\ table[i] = s
        THEN table' = [table EXCEPT ![i] = REMOVED] /\ live' = [live EXCEPT ![s] = 0]
        ELSE UNCHANGED <<table, live>>
  BY <1>1 DEF RemoveSlot
<1>4. /\ c \in Nat \ {0} /\ DOMAIN table = 0..(c - 1)
      /\ DOMAIN live = 1..Len(hashes) /\ L \in SUBSET (Nat \ {0}) /\ L \in SUBSET DOMAIN hashes
      /\ \A r \in DOMAIN hashes : fold[hashes[r]] \in Nat
  BY SlotFacts DEF IndexIInv
<1>5. Holds(table, c, L, hashes)
  <2>1. Placed = LiveSlots  BY <1>1 DEF Placed
  <2> QED  BY <2>1 DEF IndexIInv
<1>6. \A d \in 0..(c - 1) : d \in D <=> v(d) = EMPTY \/ v(d) = s  OBVIOUS
<1>7. D \in SUBSET (0..(c - 1))  OBVIOUS
<1>8. live[s] # 0  BY <1>2 DEF LiveSlots
<1>9. fold[h] \in Nat  BY <1>2, <1>4
<1>10. Reach(table, c, h, s)  BY <1>2, <1>5 DEF Holds
<1>11. PICK b \in 0..(c - 1) : v(b) = s /\ \A e \in 0..(b - 1) : v(e) # EMPTY
  BY <1>10 DEF Reach
<1>12. i = Cell(h, c, First(D, c)) /\ \A d : v(d) = table[Cell(h, c, d)]  OBVIOUS
<1>13. table \in [0..(c - 1) -> REMOVED..MaxSlots]  BY DEF IndexIInv, IndexTypeOK
<1> HIDE DEF D, L, s, h, v, i, c
<1>14. First(D, c) \in D /\ \A e \in D : First(D, c) <= e
  <2>1. b \in D  BY <1>6, <1>11
  <2> QED  BY <1>4, <1>7, <2>1, FirstIs
<1>15. PICK d \in 0..(c - 1) : d = First(D, c) /\ d \in D /\ d <= b
  BY <1>6, <1>7, <1>11, <1>14
<1>16. v(d) = s
  <2>1. CASE d = b  BY <1>11, <2>1
  <2>2. CASE d # b
    <3>1. d \in 0..(b - 1)  BY <1>4, <1>15, <2>2
    <3> QED  BY <1>6, <1>11, <1>15, <3>1
  <2> QED  BY <2>1, <2>2
<1>17. i \in 0..(c - 1) /\ table[i] = s /\ D # {}  BY <1>4, <1>9, <1>12, <1>15, <1>16, CellsOnce
<1>18. table' = [table EXCEPT ![i] = REMOVED] /\ live' = [live EXCEPT ![s] = 0]
  BY <1>3, <1>8, <1>17
<1>19. LiveSlots' = L \ {s}
  <2>1. DOMAIN live' = DOMAIN live  BY <1>18
  <2>2. s \in DOMAIN live  BY <1>2 DEF L, LiveSlots
  <2>3. live'[s] = 0 /\ \A r \in DOMAIN live : r # s => live'[r] = live[r]  BY <1>18, <2>2
  <2> QED  BY <2>1, <2>3 DEF LiveSlots, L
<1>20. Holds(table', c, L \ {s}, hashes) /\ UsedCells(table') = UsedCells(table)
  <2>1. \A r \in L : fold[hashes[r]] \in Nat  BY <1>4
  <2>2. PICK j \in 0..(c - 1) : j = i /\ table[j] = s  BY <1>17
  <2>3. PICK u : u = table' /\ DOMAIN u = 0..(c - 1) /\ u[j] = REMOVED
                 /\ \A e \in 0..(c - 1) : e # j => u[e] = table[e]
    BY <1>4, <1>18, <2>2
  <2>4. Holds(u, c, L \ {s}, hashes)
    BY <1>2, <1>4, <1>5, <2>1, <2>2, <2>3, RemoveHolds
  <2>5. UsedCells(u) = UsedCells(table)
    <3>1. s # EMPTY /\ REMOVED # EMPTY  BY <1>2, <1>4 DEF EMPTY, REMOVED
    <3> QED  BY <1>4, <2>2, <2>3, <3>1 DEF UsedCells
  <2> QED  BY <2>3, <2>4, <2>5, Zenon
<1>21. Holds(table', cap', Placed', hashes') /\ UsedCells(table') = UsedCells(table)
  <2>1. Placed' = L \ {s}  BY <1>1, <1>19 DEF Placed
  <2> QED  BY <1>1, <1>20, <2>1, Zenon DEF c
<1>22. IndexTypeOK'
  <2>1. table' \in [0..(c - 1) -> REMOVED..MaxSlots]
    <3>1. REMOVED \in REMOVED..MaxSlots
      <4>1. MaxSlots \in Nat  BY KeyIndexAssumption
      <4> QED  BY <4>1 DEF REMOVED
    <3> QED  BY <1>13, <1>18, <3>1
  <2>2. live' \in Seq({0, 1}) /\ Len(live') = Len(live)
    <3>1. live \in Seq({0, 1}) /\ Len(live) = Len(hashes)  BY DEF IndexIInv, IndexTypeOK
    <3>2. s \in 1..Len(live)  BY <1>2, <3>1 DEF L, LiveSlots
    <3> QED  BY <1>18, <3>1, <3>2, ExceptSeq
  <2> QED  BY <1>1, <2>1, <2>2 DEF IndexIInv, IndexTypeOK, c
<1>23. Counted' /\ Rebuilding'  BY <1>1, <1>21 DEF IndexIInv, Counted, Rebuilding
<1>24. KeysExact'
  <2>1. LiveSlots' \in SUBSET LiveSlots  BY <1>19 DEF L
  <2> QED  BY <1>1, <2>1 DEF IndexIInv, KeysExact
<1>25. IndexIInv'  BY <1>21, <1>22, <1>23, <1>24 DEF IndexIInv
<1> QED  BY <1>1, <1>2, <1>19, <1>25 DEF L

\* clear leaves an empty table of the same size.
LEMMA ClearStep ==
  ASSUME IndexIInv, clear
  PROVE  IndexIInv' /\ Retained(keys)' = <<>>
<1>1. /\ todo = "none" /\ table' = EmptyTable(cap) /\ occupied' = 0
      /\ hashes' = <<>> /\ live' = <<>> /\ keys' = <<>>
      /\ cap' = cap /\ todo' = todo /\ at' = at
  BY DEF clear
<1>2. cap \in Nat \ {0} /\ at \in 0..(MaxSlots + 1) /\ MaxSlots \in Nat
  BY KeyIndexAssumption DEF IndexIInv, IndexTypeOK
<1>3. PICK c \in Nat \ {0} : c = cap  BY <1>2
<1>4. /\ DOMAIN EmptyTable(c) = 0..(c - 1) /\ \A i \in 0..(c - 1) : EmptyTable(c)[i] = EMPTY
      /\ Cardinality(UsedCells(EmptyTable(c))) = 0 /\ Holds(EmptyTable(c), c, {}, <<>>)
  BY EmptyHolds
<1>5. EmptyTable(c) \in [0..(c - 1) -> REMOVED..MaxSlots]
  <2>1. EMPTY \in REMOVED..MaxSlots  BY <1>2 DEF EMPTY, REMOVED
  <2> QED  BY <2>1 DEF EmptyTable
<1>6. LiveSlots' = {} /\ Placed' = {}
  <2>1. LiveSlots' = {}  BY <1>1 DEF LiveSlots
  <2> QED  BY <2>1 DEF Placed
<1>7. IndexTypeOK'
  <2>1. 0 \in 0..cap /\ Len(<<>>) = 0 /\ 0 <= MaxSlots  BY <1>2
  <2> QED  BY <1>1, <1>2, <1>3, <1>5, <2>1 DEF IndexTypeOK
<1>8. Holds(table', cap', Placed', hashes')  BY <1>1, <1>3, <1>4, <1>6
<1>9. Counted' /\ Rebuilding'
  <2>1. 0 * 2 <= cap  BY <1>2
  <2> QED  BY <1>1, <1>3, <1>4, <2>1 DEF Counted, Rebuilding
<1>10. KeysExact'  BY <1>1, <1>6 DEF KeysExact
<1>11. Retained(keys)' = <<>>
  <2>1. Cardinality(LiveSlots') = 0  BY <1>6, FS_EmptySet
  <2>2. Retained(keys)' = [j \in 1..0 |-> keys'[Nth(LiveSlots', j)]]
    BY <2>1, RetainedIs DEF RetainOf
  <2> QED  BY <2>2
<1> QED  BY <1>7, <1>8, <1>9, <1>10, <1>11 DEF IndexIInv

\* compact renumbers the slots and keeps the keys in their order.
LEMMA CompactStep ==
  ASSUME IndexIInv, compact
  PROVE  IndexIInv' /\ Retained(keys)' = Retained(keys)
<1> DEFINE L == LiveSlots
           ks == RetainOf(L, keys)
           hs == RetainOf(L, hashes)
<1>1. /\ todo = "none" /\ keys' = host_retain(keys) /\ hashes' = Retained(hashes)
      /\ live' = [i \in 1..Cardinality(L) |-> 1]
      /\ RebuildStart(Cardinality(L), "compact")
  BY DEF compact
<1>2. /\ keys \in Seq(Key) /\ hashes \in Seq(Hash) /\ Len(keys) = Len(live) /\ Len(hashes) = Len(keys)
      /\ Len(keys) <= MaxSlots
  BY <1>1 DEF IndexIInv, IndexTypeOK
<1>3. PICK n \in Nat : n = Len(hashes) /\ n <= MaxSlots /\ L \in SUBSET (1..n)
  <2>1. L \in SUBSET (1..Len(hashes))  BY SlotFacts DEF IndexIInv
  <2> QED  BY <1>2, <2>1
<1>4. keys' = ks /\ hashes' = hs  BY <1>1, <1>2, RetainedIs DEF host_retain
<1>5. MaxSlots \in Nat  BY KeyIndexAssumption
<1>6. \A s \in L : keys[s] \in Key /\ hashes[s] \in Hash /\ hashes[s] = hashOf[keys[s]]
  <2>1. \A s \in 1..n : keys[s] \in Key /\ hashes[s] \in Hash /\ s \in DOMAIN hashes  BY <1>2, <1>3
  <2> QED  BY <1>3, <2>1 DEF IndexIInv, KeysExact
<1>7. \A s, r \in L : keys[s] = keys[r] => s = r  BY DEF IndexIInv, KeysExact
<1> HIDE DEF L
<1>8. PICK m \in 0..n : m = Cardinality(L)  BY <1>3, Ranks
<1>9. \A i \in 1..m : Nth(L, i) \in L /\ Rank(L, Nth(L, i)) = i  BY <1>3, <1>8, Ranks
<1>10. ks = [i \in 1..m |-> keys[Nth(L, i)]] /\ hs = [i \in 1..m |-> hashes[Nth(L, i)]]
  BY <1>8 DEF RetainOf
<1> HIDE DEF ks, hs
<1>11. /\ \A i \in 1..m : ks[i] = keys[Nth(L, i)] /\ hs[i] = hashes[Nth(L, i)]
       /\ ks \in [1..m -> Key] /\ hs \in [1..m -> Hash]
  BY <1>6, <1>9, <1>10
<1>12. m \in Nat /\ m <= MaxSlots /\ m \in 0..(MaxSlots + 1)  BY <1>3, <1>5
<1>13. ks \in Seq(Key) /\ Len(ks) = m /\ hs \in Seq(Hash) /\ Len(hs) = m  BY <1>11, <1>12
<1>14. live' = [i \in 1..m |-> 1]  BY <1>1, <1>8
<1>15. live' \in Seq({0, 1}) /\ Len(live') = m /\ DOMAIN live' = 1..m  BY <1>12, <1>14
<1>16. LiveSlots' = 1..m  BY <1>14, <1>15 DEF LiveSlots
<1>17. Cardinality(LiveSlots') = m  BY <1>12, <1>16, IntervalSize
<1>18. todo' = "compact"  BY <1>1 DEF RebuildStart
<1>19. KeysExact'
  <2>1. \A i \in 1..m : hs[i] = hashOf[ks[i]]  BY <1>6, <1>9, <1>11
  <2>2. \A i, j \in 1..m : ks[i] = ks[j] => i = j  BY <1>7, <1>9, <1>11
  <2>3. DOMAIN hashes' = 1..m  BY <1>4, <1>11
  <2> QED  BY <1>4, <1>16, <1>18, <2>1, <2>2, <2>3 DEF KeysExact
<1>20. IndexIInv'
  <2>1. RebuildStart(m, "compact")  BY <1>1, <1>8
  <2>2. /\ hashes' \in Seq(Hash) /\ keys' \in Seq(Key)
        /\ Len(hashes') = Len(live') /\ Len(keys') <= MaxSlots /\ Len(keys') = Len(hashes')
    BY <1>4, <1>12, <1>13, <1>15
  <2>3. Cardinality(LiveSlots') \in Nat /\ m = Cardinality(LiveSlots') + 0  BY <1>12, <1>17
  <2> QED  BY <1>12, <1>15, <1>19, <2>1, <2>2, <2>3, StartStep
<1>21. Retained(keys)' = Retained(keys)
  <2>1. RetainOf(1..m, ks) = ks  BY <1>13, RetainAll
  <2>2. Retained(keys)' = RetainOf(1..m, ks)  BY <1>4, <1>16, RetainedIs
  <2>3. Retained(keys) = ks  BY RetainedIs DEF L, ks
  <2> QED  BY <2>1, <2>2, <2>3
<1> QED  BY <1>20, <1>21

\* A new index is empty.
LEMMA IndexInitLemma == IndexInit => IndexIInv /\ Retained(keys) = <<>>
<1> SUFFICES ASSUME IndexInit PROVE IndexIInv /\ Retained(keys) = <<>>
  OBVIOUS
<1>1. PICK n \in Presizes : cap = cap_for(n)  BY DEF IndexInit
<1>2. /\ table = EmptyTable(cap) /\ occupied = 0 /\ hashes = <<>> /\ live = <<>> /\ keys = <<>>
      /\ todo = "none" /\ at = 0
  BY DEF IndexInit
<1>3. cap \in Nat \ {0}
  <2>1. n \in (0..(MaxSlots + 1)) \cup Presizes  OBVIOUS
  <2> QED  BY <1>1, <2>1, CapFor
<1>4. MaxSlots \in Nat  BY KeyIndexAssumption
<1>5. PICK c \in Nat \ {0} : c = cap  BY <1>3
<1>6. /\ Cardinality(UsedCells(EmptyTable(c))) = 0 /\ Holds(EmptyTable(c), c, {}, <<>>)
  BY EmptyHolds
<1>7. EmptyTable(c) \in [0..(c - 1) -> REMOVED..MaxSlots]
  <2>1. EMPTY \in REMOVED..MaxSlots  BY <1>4 DEF EMPTY, REMOVED
  <2> QED  BY <2>1 DEF EmptyTable
<1>8. LiveSlots = {} /\ Placed = {}
  <2>1. LiveSlots = {}  BY <1>2 DEF LiveSlots
  <2> QED  BY <2>1 DEF Placed
<1>9. IndexTypeOK
  <2>1. 0 \in 0..cap /\ 0 \in 0..(MaxSlots + 1) /\ Len(<<>>) = 0 /\ 0 <= MaxSlots  BY <1>3, <1>4
  <2> QED  BY <1>2, <1>3, <1>5, <1>7, <2>1 DEF IndexTypeOK
<1>10. Holds(table, cap, Placed, hashes)  BY <1>2, <1>5, <1>6, <1>8
<1>11. Counted /\ Rebuilding
  <2>1. 0 * 2 <= cap  BY <1>3
  <2> QED  BY <1>2, <1>5, <1>6, <2>1 DEF Counted, Rebuilding
<1>12. KeysExact  BY <1>2, <1>8 DEF KeysExact
<1>13. Retained(keys) = <<>>
  <2>1. Cardinality(LiveSlots) = 0  BY <1>8, FS_EmptySet
  <2>2. Retained(keys) = [j \in 1..0 |-> keys[Nth(LiveSlots, j)]]
    BY <2>1, RetainedIs DEF RetainOf
  <2> QED  BY <2>2
<1> QED  BY <1>9, <1>10, <1>11, <1>12, <1>13 DEF IndexIInv

\* Every step of the index keeps the invariant.
LEMMA IndexStepLemma == IndexIInv /\ [IndexNext]_indexVars => IndexIInv'
<1> SUFFICES ASSUME IndexIInv, [IndexNext]_indexVars PROVE IndexIInv'
  OBVIOUS
<1>1. ASSUME NEW k \in Key, add(k) PROVE IndexIInv'       BY <1>1, AddStep
<1>2. ASSUME NEW k \in Key, drop_key(k) PROVE IndexIInv'  BY <1>2, DropStep
<1>3. CASE compact      BY <1>3, CompactStep
<1>4. CASE clear        BY <1>4, ClearStep
<1>5. CASE RebuildSlot  BY <1>5, RebuildSlotStep
<1>6. CASE RebuildEnd   BY <1>6, RebuildEndStep
<1>7. CASE UNCHANGED indexVars
  <2>1. /\ cap' = cap /\ table' = table /\ occupied' = occupied /\ hashes' = hashes
        /\ live' = live /\ keys' = keys /\ todo' = todo /\ at' = at
    BY <1>7 DEF indexVars
  <2>2. LiveSlots' = LiveSlots /\ Placed' = Placed  BY <2>1 DEF LiveSlots, Placed
  <2>3. IndexTypeOK'  BY <2>1 DEF IndexIInv, IndexTypeOK
  <2>4. Counted' /\ Rebuilding'  BY <2>1, <2>2 DEF IndexIInv, Counted, Rebuilding
  <2>5. KeysExact'  BY <2>1, <2>2 DEF IndexIInv, KeysExact
  <2> QED  BY <2>1, <2>2, <2>3, <2>4, <2>5 DEF IndexIInv
<1> QED  BY <1>1, <1>2, <1>3, <1>4, <1>5, <1>6, <1>7 DEF IndexNext

\* The places of the sequence of keys.
LEMMA OrderPlaces ==
  ASSUME IndexIInv
  PROVE  /\ Len(Retained(keys)) \in Nat /\ Len(Retained(keys)) = Cardinality(LiveSlots)
         /\ DOMAIN Retained(keys) = 1..Cardinality(LiveSlots)
         /\ \A i \in 1..Len(Retained(keys)) :
              \E s \in LiveSlots : Retained(keys)[i] = keys[s]
<1> DEFINE L == LiveSlots
<1>1. PICK n \in Nat : L \in SUBSET (1..n)  BY SlotFacts DEF IndexIInv
<1> HIDE DEF L
<1>2. PICK m \in 0..n : m = Cardinality(L)  BY <1>1, Ranks
<1>3. \A i \in 1..m : Nth(L, i) \in L  BY <1>1, <1>2, Ranks
<1> DEFINE r == [i \in 1..m |-> keys[Nth(L, i)]]
<1>4. m \in Nat /\ DOMAIN r = 1..m /\ \A i \in 1..m : r[i] = keys[Nth(L, i)]  OBVIOUS
<1>5. Retained(keys) = r  BY <1>2, RetainedIs DEF RetainOf, L
<1>6. Len(r) = m
  <2>1. r \in Seq({keys[s] : s \in L})
    <3>1. r \in [1..m -> {keys[s] : s \in L}]  BY <1>3
    <3> HIDE DEF r
    <3> QED  BY <1>4, <3>1
  <2> HIDE DEF r
  <2> QED  BY <1>4, <2>1
<1> HIDE DEF r
<1> QED  BY <1>2, <1>3, <1>4, <1>5, <1>6 DEF L

\* A key that no live slot has is not in the sequence: adding it is an Add.
LEMMA AddIsAdd ==
  ASSUME IndexIInv, NEW k \in Key, \A s \in LiveSlots : keys[s] # k,
         Retained(keys)' = Append(Retained(keys), k)
  PROVE  Order!Next
<1>1. ~Order!Contains(Retained(keys), k)  BY OrderPlaces DEF Order!Contains
<1>2. Order!Add(k)  BY <1>1 DEF Order!Add
<1> QED  BY <1>2 DEF Order!Next

\* Taking a live slot out is a Drop of its key.
LEMMA DropIsDrop ==
  ASSUME IndexIInv, NEW k \in Key, NEW x \in LiveSlots, keys[x] = k,
         LiveSlots' = LiveSlots \ {x}, keys' = keys
  PROVE  Order!Next
<1> DEFINE r == Retained(keys)
<1>1. PICK n \in Nat : LiveSlots \in SUBSET (1..n)  BY SlotFacts DEF IndexIInv
<1>2. PICK L, v : L = LiveSlots /\ v = keys  OBVIOUS
<1>3. /\ Rank(L, x) \in 1..Cardinality(L)
      /\ RetainOf(L, v)[Rank(L, x)] = v[x]
      /\ RetainOf(L \ {x}, v)
           = SubSeq(RetainOf(L, v), 1, Rank(L, x) - 1)
             \o SubSeq(RetainOf(L, v), Rank(L, x) + 1, Len(RetainOf(L, v)))
  BY <1>1, <1>2, RetainDrop
<1>4. r = RetainOf(L, v) /\ r' = RetainOf(L \ {x}, v)  BY <1>2, RetainedIs
<1>5. PICK i : i = Rank(L, x)  OBVIOUS
<1>6. i \in DOMAIN r  BY <1>2, <1>3, <1>5, OrderPlaces
<1>7. r[i] = k /\ r' = Order!RemoveAt(r, i)
  BY <1>2, <1>3, <1>4, <1>5, Zenon DEF Order!RemoveAt
<1>8. Order!Drop(k)  BY <1>6, <1>7 DEF Order!Drop
<1> QED  BY <1>8 DEF Order!Next

\* Every step of the index is a step or a stutter of the sequence of keys.
LEMMA OrderStep ==
  ASSUME IndexIInv, [IndexNext]_indexVars
  PROVE  [Order!Next]_(Retained(keys))
<1> DEFINE same == Retained(keys)' = Retained(keys)
<1>1. ASSUME NEW k \in Key, add(k) PROVE Order!Next \/ same  BY <1>1, AddStep, AddIsAdd
<1>2. ASSUME NEW k \in Key, drop_key(k) PROVE Order!Next     BY <1>2, DropStep, DropIsDrop
<1>3. CASE compact  BY <1>3, CompactStep
<1>4. CASE clear
  <2>1. Order!Clear  BY <1>4, ClearStep DEF Order!Clear
  <2> QED  BY <2>1 DEF Order!Next
<1>5. CASE RebuildSlot  BY <1>5, RebuildSlotStep
<1>6. CASE RebuildEnd   BY <1>6, RebuildEndStep, AddIsAdd
<1>7. CASE UNCHANGED indexVars
  <2>1. live' = live /\ keys' = keys  BY <1>7 DEF indexVars
  <2>2. LiveSlots' = LiveSlots  BY <2>1 DEF LiveSlots
  <2>3. RetainOf(LiveSlots', keys') = RetainOf(LiveSlots, keys)  BY <2>1, <2>2, Zenon
  <2> QED  BY <2>3, RetainedIs
<1> QED  BY <1>1, <1>2, <1>3, <1>4, <1>5, <1>6, <1>7 DEF IndexNext

-----------------------------------------------------------------------------
\* The inductive invariant of the index holds in every reachable state.
THEOREM IndexInvariance == IndexSpec => []IndexIInv
<1>1. IndexInit => IndexIInv  BY IndexInitLemma
<1>2. IndexIInv /\ [IndexNext]_indexVars => IndexIInv'  BY IndexStepLemma
<1> QED  BY <1>1, <1>2, PTL DEF IndexSpec

\* The table never fills up, for every hash function and every number of
\* entries: the counter cell that host_insert reads is exactly the number of
\* cells in use, and at most half of the cells.
THEOREM NeverFull == IndexSpec => []OccupiedExact
<1>1. IndexIInv => OccupiedExact
  <2> SUFFICES ASSUME IndexIInv PROVE OccupiedExact  OBVIOUS
  <2> DEFINE used == Cardinality({i \in DOMAIN table : table[i] # EMPTY})
  <2>1. used = Cardinality(UsedCells(table))  BY DEF UsedCells
  <2>2. IndexTypeOK /\ (todo = "none" => occupied = used /\ occupied * 2 <= cap)
    BY <2>1 DEF IndexIInv, Counted
  <2> HIDE DEF used
  <2>3. ASSUME todo # "none" PROVE used * 2 <= cap
    <3>1. PICK n \in Nat : n = Cardinality(LiveSlots)  BY SlotFacts DEF IndexIInv
    <3>2. IsFiniteSet(LiveSlots) /\ cap \in Nat  BY SlotFacts DEF IndexIInv
    <3>3. Placed \in SUBSET LiveSlots  BY DEF Placed
    <3>4. Cardinality(Placed) <= n /\ IsFiniteSet(Placed)  BY <3>1, <3>2, <3>3, FS_Subset
    <3>5. Cardinality(Placed) \in Nat  BY <3>4, FS_CardinalityType
    <3>6. used = Cardinality(Placed)  BY <2>1, <2>3 DEF IndexIInv, Rebuilding
    <3>7. (n + IF todo = "insert" THEN 2 ELSE 1) * 2 <= cap
      BY <2>3, <3>1 DEF IndexIInv, Rebuilding
    <3>8. n * 2 <= cap
      <4>1. CASE todo = "insert"
        <5>1. (n + 2) * 2 <= cap  BY <3>7, <4>1
        <5> QED  BY <3>2, <5>1
      <4>2. CASE todo # "insert"
        <5>1. (n + 1) * 2 <= cap  BY <3>7, <4>2
        <5> QED  BY <3>2, <5>1
      <4> QED  BY <4>1, <4>2
    <3> QED  BY <3>2, <3>4, <3>5, <3>6, <3>8
  <2> QED  BY <2>2, <2>3 DEF OccupiedExact, used
<1> QED  BY <1>1, IndexInvariance, PTL

\* A lookup is exact, whatever was removed, reused, grown or compacted.
THEOREM LookupExact == IndexSpec => []FindExact
BY FindFromInv, IndexInvariance, PTL

\* The owner's loop over probe meets every live slot with the hash once and
\* ends, however many hashes collide.
THEOREM ProbeWalkExact == IndexSpec => []ProbeExact
BY ProbeFromInv, IndexInvariance, PTL

\* The index implements a sequence of distinct keys in insertion order.
THEOREM IndexKeepsOrder == IndexSpec => ImplementsOrder
<1>1. IndexInit => Order!Init  BY IndexInitLemma DEF Order!Init
<1>2. IndexIInv /\ [IndexNext]_indexVars => [Order!Next]_(Retained(keys))  BY OrderStep
<1> QED  BY <1>1, <1>2, IndexInvariance, PTL DEF IndexSpec, ImplementsOrder, Order!Spec
=============================================================================
