------------------------------ MODULE KeyIndex ------------------------------
(***************************************************************************)
(* The key index natives (machine/src/key_index.rs) under the small class  *)
(* that owns the keys (tests/collections/key_index.coil): a linear-probing *)
(* table of `cap` cells and one counter, beside the owner's `Vec`s.        *)
(*                                                                         *)
(* A cell holds 0 (EMPTY), -1 (REMOVED) or slot + 1.  Sequences are        *)
(* 1-based, so the number in a cell is the index of its slot in `hashes`,  *)
(* `live` and `keys`; a search that finds nothing answers 0 here where the *)
(* code answers -1.  The counter that the code keeps in the table's last   *)
(* cell is the variable `occupied`.                                        *)
(*                                                                         *)
(* The loop of `rebuild` is one step per slot (`at`), under the operation  *)
(* `todo` that called it; nothing else can run in between.  Everything     *)
(* else in a native is one step.                                           *)
(***************************************************************************)
EXTENDS Integers, Sequences, FiniteSets

CONSTANTS
  Key,        \* the keys the owner may hold
  hashOf,     \* each key's hash, as the owner computes it
  fold,       \* a hash with its high bits folded into the low ones
  MinCap,     \* MIN_CAP
  Presizes,   \* the counts a table may be created for
  MaxSlots    \* bound: slots between two compactions

Hash == {hashOf[k] : k \in Key}

EMPTY == 0
RemovedIsEmpty == 0                    \* mutant: removal cuts the probe sequence
REMOVED == -1

\* The least element of a set of offsets, or c when there is none.
First(D, c) == IF D = {} THEN c ELSE CHOOSE d \in D : \A e \in D : d <= e

\* The table size after j passes of the loop of cap_for.
Doubled[j \in Nat] == IF j = 0 THEN MinCap ELSE 2 * Doubled[j - 1]

\* The table size that keeps n entries at most half full.
cap_for(n) ==
  Doubled[First({j \in 0..(n + 1) : (n + 1) * 2 <= Doubled[j]}, n + 2)]

ASSUME KeyIndexAssumption ==
  /\ MinCap \in Nat \ {0}
  /\ MaxSlots \in Nat
  /\ hashOf \in [Key -> Nat]
  /\ \A h \in Hash : fold[h] \in Nat
  /\ Presizes \subseteq Nat

VARIABLES
  cap,        \* the table's size
  table,      \* its cells, 0..cap-1
  occupied,   \* the counter cell: cells that are live or removed
  hashes,     \* each slot's hash
  live,       \* 1 while a slot holds an entry, then 0
  keys,       \* the owner's keys, by slot
  todo,       \* the native whose rebuild is running, or "none"
  at          \* the next slot the rebuild places

indexVars == <<cap, table, occupied, hashes, live, keys, todo, at>>

home(h, c) == fold[h] % c

\* The d-th cell of h's probe sequence.
Cell(h, c, d) == (home(h, c) + d) % c

EmptyTable(c) == [i \in 0..(c - 1) |-> EMPTY]

LiveSlots == {s \in DOMAIN live : live[s] # 0}

\* Slot s goes to the first empty or removed cell of its probe sequence.
FreeCell(t, c, h) ==
  Cell(h, c, First({d \in 0..(c - 1) : t[Cell(h, c, d)] \in {EMPTY, REMOVED}}, c))

place(t, c, h, s) == [t EXCEPT ![FreeCell(t, c, h)] = s]

TookAny(t, c, h) == TRUE               \* mutant: a reused cell counts again
TookEmpty(t, c, h) == t[FreeCell(t, c, h)] = EMPTY

\* Where a walk over h's probe sequence ends: at an empty cell or at one
\* that Want holds of.  The answer is that cell's slot, 0 for none.
Walk(h, Want) ==
  LET D == {d \in 0..(cap - 1) :
              LET e == table[Cell(h, cap, d)] IN e = EMPTY \/ e \in Want}
      d == First(D, cap)
  IN  IF d = cap THEN 0 ELSE table[Cell(h, cap, d)]

PastByNumber(h, after) == {s \in DOMAIN hashes : hashes[s] = h /\ s > after}    \* mutant

\* The slots `probe` may still return: all that have hash h when `after`
\* is 0, else those of them that come after slot `after` in probe order.
Past(h, after) ==
  {s \in DOMAIN hashes :
     /\ hashes[s] = h
     /\ \/ after = 0
        \/ \E d, e \in 0..(cap - 1) :
             d < e /\ table[Cell(h, cap, d)] = after /\ table[Cell(h, cap, e)] = s}

probe(h, after) == Walk(h, Past(h, after))

find(h, k) == Walk(h, {s \in DOMAIN hashes : hashes[s] = h /\ s \in DOMAIN keys /\ keys[s] = k})

\* The elements of sequence v whose slot is live, in order.
Retained(v) ==
  LET rank(s) == Cardinality({r \in LiveSlots : r <= s})
  IN  [i \in 1..Cardinality(LiveSlots) |->
         v[CHOOSE s \in LiveSlots : rank(s) = i]]

RetainPrefix(v) == SubSeq(v, 1, Cardinality(LiveSlots))     \* mutant

\* A `Vec` that is not as long as `live` is left as it is.
host_retain(v) == IF Len(v) = Len(live) THEN Retained(v) ELSE v

IndexInit ==
  /\ \E n \in Presizes : cap = cap_for(n)
  /\ table = EmptyTable(cap)
  /\ occupied = 0
  /\ hashes = <<>> /\ live = <<>> /\ keys = <<>>
  /\ todo = "none" /\ at = 0

(***************************************************************************)
(* rebuild                                                                 *)
(***************************************************************************)

\* Clear the table, its counter cell too, at the size for n entries; the
\* loop starts at slot 1.
RebuildStart(n, op) ==
  /\ cap' = cap_for(n)
  /\ table' = EmptyTable(cap')
  /\ occupied' = 0
  /\ todo' = op
  /\ at' = 1

\* One turn of the loop over the slots.
RebuildSlot ==
  /\ todo # "none"
  /\ at \in DOMAIN hashes
  /\ table' = IF live[at] # 0 THEN place(table, cap, hashes[at], at) ELSE table
  /\ at' = at + 1
  /\ UNCHANGED <<cap, occupied, hashes, live, keys, todo>>

\* The rest of host_insert once the table has room: a new slot with hash h.
PushSlot(h, count) ==
  /\ hashes' = Append(hashes, h)
  /\ live' = Append(live, 1)
  /\ table' = place(table, cap, h, Len(hashes) + 1)
  /\ occupied' = IF TookEmpty(table, cap, h) THEN count + 1 ELSE count
  /\ todo' = "none" /\ at' = 0
  /\ UNCHANGED cap

\* The loop is over: store the count, then finish the caller.
RebuildEnd ==
  /\ todo # "none"
  /\ at \notin DOMAIN hashes
  /\ \/ /\ todo = "insert"
        /\ PushSlot(hashOf[keys[Len(keys)]], Cardinality(LiveSlots))
        /\ UNCHANGED keys
     \/ /\ todo = "compact"
        /\ occupied' = Cardinality(LiveSlots)
        /\ todo' = "none" /\ at' = 0
        /\ UNCHANGED <<cap, table, hashes, live, keys>>

(***************************************************************************)
(* The owner's operations                                                  *)
(***************************************************************************)

\* add: a key that is not there is pushed, then host_insert takes a slot
\* for it, growing first when the table would pass half full.
add(k) ==
  /\ todo = "none"
  /\ Len(keys) < MaxSlots
  /\ find(hashOf[k], k) = 0
  /\ keys' = Append(keys, k)
  /\ IF (occupied + 1) * 2 > cap
       THEN /\ RebuildStart(Cardinality(LiveSlots) + 1, "insert")
            /\ UNCHANGED <<hashes, live>>
       ELSE PushSlot(hashOf[k], occupied)

\* host_remove: the slot's cell, found along its probe sequence, becomes
\* REMOVED.  A walk that meets an empty cell first changes nothing.
RemoveSlot(s) ==
  LET D == {d \in 0..(cap - 1) : table[Cell(hashes[s], cap, d)] \in {EMPTY, s}}
      i == Cell(hashes[s], cap, First(D, cap))
  IN  IF live[s] # 0 /\ D # {} /\ table[i] = s
        THEN /\ table' = [table EXCEPT ![i] = REMOVED]
             /\ live' = [live EXCEPT ![s] = 0]
        ELSE UNCHANGED <<table, live>>

drop_key(k) ==
  /\ todo = "none"
  /\ find(hashOf[k], k) # 0
  /\ RemoveSlot(find(hashOf[k], k))
  /\ UNCHANGED <<cap, occupied, hashes, keys, todo, at>>

\* compact: host_retain on the owner's keys, then host_compact.
compact ==
  /\ todo = "none"
  /\ keys' = host_retain(keys)
  /\ hashes' = Retained(hashes)
  /\ live' = [i \in 1..Cardinality(LiveSlots) |-> 1]
  /\ RebuildStart(Cardinality(LiveSlots), "compact")

\* clear: the table keeps its size; filling it resets the counter too.
clear ==
  /\ todo = "none"
  /\ table' = EmptyTable(cap)
  /\ occupied' = 0
  /\ hashes' = <<>> /\ live' = <<>> /\ keys' = <<>>
  /\ UNCHANGED <<cap, todo, at>>

IndexNext ==
  \/ \E k \in Key : add(k) \/ drop_key(k)
  \/ compact
  \/ clear
  \/ RebuildSlot
  \/ RebuildEnd

IndexSpec == IndexInit /\ [][IndexNext]_indexVars

(***************************************************************************)
(* Properties                                                              *)
(***************************************************************************)

\* The shape of the state: the table has cap cells, and the three `Vec`s
\* that host_insert, host_remove and host_compact take are kept in step.
IndexTypeOK ==
  /\ cap \in Nat \ {0}
  /\ table \in [0..(cap - 1) -> REMOVED..MaxSlots]
  /\ occupied \in 0..cap
  /\ hashes \in Seq(Hash) /\ live \in Seq({0, 1}) /\ keys \in Seq(Key)
  /\ Len(hashes) = Len(live)
  /\ Len(keys) = IF todo = "insert" THEN Len(hashes) + 1 ELSE Len(hashes)
  /\ Len(keys) <= MaxSlots
  /\ todo \in {"none", "insert", "compact"}
  /\ at \in 0..(MaxSlots + 1)

\* The loop of place has no bound and a search stops at an empty cell only,
\* so the table never fills up: between natives the counter cell is exactly
\* the number of cells in use, removed ones included, and at most half of
\* the cells; while a rebuild runs an empty cell is left for every slot it
\* still has to place.
OccupiedExact ==
  LET used == Cardinality({i \in DOMAIN table : table[i] # EMPTY})
  IN  /\ IndexTypeOK
      /\ todo = "none" => occupied = used /\ occupied * 2 <= cap
      /\ todo # "none" => used * 2 <= cap

\* A lookup finds a key exactly when the owner holds it, in the slot that
\* holds it, whatever was removed, reused, grown or compacted before: no
\* removal or rebuild cuts the probe sequence of another key.
FindExact ==
  todo = "none" =>
    \A k \in Key :
      LET S == {s \in LiveSlots : keys[s] = k}
      IN  IF S = {} THEN find(hashOf[k], k) = 0 ELSE S = {find(hashOf[k], k)}

\* Asking probe again after each answer, as the owner's loop does for keys
\* whose == is its own, goes through every live slot with that hash once
\* and then ends.
ProbeExact ==
  todo = "none" =>
    \A h \in Hash :
      LET S == {s \in LiveSlots : hashes[s] = h} \cup {0}
          next == [s \in S |-> probe(h, s)]
      IN  /\ {next[s] : s \in S} = S
          /\ \A T \in SUBSET S :
               0 \in T /\ (\A s \in T : next[s] \in T) => T = S

\* The index implements a sequence of distinct keys in insertion order:
\* growth and compaction are invisible to it.
Order == INSTANCE OrderedKeys WITH order <- Retained(keys)
ImplementsOrder == Order!Spec
=============================================================================
