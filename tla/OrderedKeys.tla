---------------------------- MODULE OrderedKeys ----------------------------
(***************************************************************************)
(* What a collection of keys that stands on the key index promises: a     *)
(* sequence of distinct keys in the order they were first added.           *)
(***************************************************************************)
EXTENDS Sequences, SequencesExt

CONSTANT Key

VARIABLE order

Init == order = <<>>

\* Adding a key that is there changes nothing.
Add(k) ==
  /\ ~Contains(order, k)
  /\ order' = Append(order, k)

\* The other keys keep their order.
Drop(k) ==
  \E i \in DOMAIN order : order[i] = k /\ order' = RemoveAt(order, i)

Clear == order' = <<>>

Next == (\E k \in Key : Add(k) \/ Drop(k)) \/ Clear

Spec == Init /\ [][Next]_order
=============================================================================
