---------------------------- MODULE BoundedFifo ----------------------------
(***************************************************************************)
(* What `task::channel` promises: a bounded first-in first-out queue whose *)
(* operations are atomic.  `result` is what the last operation of a client *)
(* returned, "pending" from the start of an operation until it returns.    *)
(***************************************************************************)
EXTENDS Integers, Sequences

CONSTANTS Clients, Values, NoValue, Capacity

VARIABLES queue, shut, result

Outcome(kind, v) == [is |-> kind, value |-> v]
Pending == Outcome("pending", NoValue)

Init ==
    /\ queue = <<>> /\ shut = FALSE
    /\ result = [t \in Clients |-> Pending]

Begin(t) ==
    /\ result' = [result EXCEPT ![t] = Pending]
    /\ UNCHANGED <<queue, shut>>

Put(t, v) ==
    /\ ~shut /\ Len(queue) < Capacity
    /\ queue' = Append(queue, v)
    /\ result' = [result EXCEPT ![t] = Outcome("sent", v)]
    /\ UNCHANGED shut

Take(t) ==
    /\ queue # <<>>
    /\ queue' = Tail(queue)
    /\ result' = [result EXCEPT ![t] = Outcome("received", Head(queue))]
    /\ UNCHANGED shut

Fail(t, why) ==
    /\ result' = [result EXCEPT ![t] = Outcome(why, NoValue)]
    /\ UNCHANGED <<queue, shut>>

RefuseFull(t) == Len(queue) = Capacity /\ ~shut /\ Fail(t, "full")
RefuseEmpty(t) == queue = <<>> /\ ~shut /\ Fail(t, "empty")
\* A sender learns of the close at once, a receiver when nothing is left.
RefuseClosed(t) == shut /\ Fail(t, "sendClosed")
Drained(t) == shut /\ queue = <<>> /\ Fail(t, "recvClosed")

Shut == shut' = TRUE /\ UNCHANGED <<queue, result>>

Next ==
    \/ \E t \in Clients :
         \/ Begin(t) \/ Take(t) \/ RefuseFull(t) \/ RefuseEmpty(t)
         \/ RefuseClosed(t) \/ Drained(t)
         \/ \E v \in Values : Put(t, v)
    \/ Shut

Spec == Init /\ [][Next]_<<queue, shut, result>>
=============================================================================
