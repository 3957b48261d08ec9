------------------------------- MODULE GcCycle -----------------------------
(***************************************************************************)
(* The mark and sweep cycle of one isolate's heap (memory/heap.rs) as the  *)
(* virtual machine drives it (vm.rs): the cycle that a safepoint opens,    *)
(* whose sweep is spread over later safepoints while the program runs, the *)
(* explicit gc::collect, the `drop` bodies both run between mark and       *)
(* sweep, weak handles and the interned string literals.                   *)
(*                                                                         *)
(* The heap has no nursery and moves nothing here (the program was started *)
(* with both off).  A slot is named by its place in the order of the sweep *)
(* walk.  An object has one field; a "drop" is an object of a type with a  *)
(* `fn drop()`; one literal stands for them all.  The byte thresholds are  *)
(* left open: any point between two operations may be a safepoint that     *)
(* collects.                                                               *)
(***************************************************************************)
EXTENDS Naturals, FiniteSets

CONSTANTS Slots,    \* slots of the slab
          Limit,    \* bound: how many objects of a kind there are at a time
          Quanta,   \* how many objects one sweep slice visits
          MainOps,  \* the operations the program's own code does
          DropOps   \* the operations the `drop` bodies do

OpNames == {"node", "drop", "weak", "upgrade", "load", "store", "clear",
            "string", "call", "collect"}

ASSUME GcCycleAssumption ==
  /\ Slots \in Nat \ {0}
  /\ Limit \in [{"node", "drop", "weak", "string"} -> Nat]
  /\ Quanta \subseteq Nat \ {0}
  /\ MainOps \subseteq OpNames
  /\ DropOps \subseteq OpNames

Addr == 1..Slots
Nil == 0
Ref == Addr \cup {Nil}
Register == {"local", "static", "self"}
Kind == {"free", "node", "drop", "weak", "string"}

VARIABLES
  kind,         \* Addr -> Kind
  ref,          \* Addr -> Ref: the field, or the target of an uncleared weak
  bodies,       \* Addr -> how often the object's drop body was started
  marked,       \* objects whose header is marked
  fresh,        \* objects the running sweep must keep
  interned,     \* what the intern table holds for the literal
  cached,       \* program_string_cache of the literal
  root,         \* Register -> Ref: a frame slot, a static, a drop's frame
  phase,        \* gc_phase
  cursor,       \* next slot of the sweep walk
  mode,         \* which collection is in progress
  queue,        \* objects whose drop the collection still runs
  running,      \* a drop body is running
  deferred      \* gc_deferred

heapvars == <<kind, ref, bodies, marked, fresh>>
strs == <<interned, cached>>
cycle == <<phase, cursor, mode, queue, running, deferred>>
vars == <<heapvars, strs, root, cycle>>

Init ==
  /\ kind = [a \in Addr |-> "free"]
  /\ ref = [a \in Addr |-> Nil]
  /\ bodies = [a \in Addr |-> 0]
  /\ marked = {} /\ fresh = {}
  /\ interned = Nil /\ cached = Nil
  /\ root = [r \in Register |-> Nil]
  /\ phase = "Idle" /\ cursor = 1
  /\ mode = "none" /\ queue = {} /\ running = FALSE /\ deferred = FALSE

Live == {a \in Addr : kind[a] # "free"}
Roots == {root[r] : r \in Register} \ {Nil}
Finalized == {a \in Addr : bodies[a] > 0}
Holds(a) == kind[a] \in {"node", "drop"}

(***************************************************************************)
(* Marking.  An object that is already marked is not scanned again.        *)
(***************************************************************************)
Trace(seeds, m) ==
  LET Closed(M) == /\ m \subseteq M
                   /\ seeds \cap Live \subseteq M
                   /\ \A a \in M \ m : Holds(a) /\ ref[a] \in Live => ref[a] \in M
  IN {a \in Addr : \A M \in SUBSET Addr : Closed(M) => a \in M}

Reachable == Trace(Roots, {})

(***************************************************************************)
(* What the program, or a drop body, does between two safepoints.          *)
(***************************************************************************)
Does(op) == IF running THEN op \in DropOps ELSE mode = "none" /\ op \in MainOps
Mine == {"static", IF running THEN "self" ELSE "local"}

\* a: the slot the slab hands out; f: the field the object is built with.  An
\* object is born black while a mark is open, fresh ahead of a running sweep.
AllocAs(a, k, f, black, keep) ==
  /\ kind[a] = "free" /\ Cardinality({b \in Addr : kind[b] = k}) < Limit[k]
  /\ kind' = [kind EXCEPT ![a] = k]
  /\ ref' = [ref EXCEPT ![a] = f]
  /\ marked' = IF black THEN marked \cup {a} ELSE marked
  /\ fresh' = IF keep THEN fresh \cup {a} ELSE fresh
  /\ UNCHANGED bodies

Untagged(a, k, f) == AllocAs(a, k, f, phase = "Marking", FALSE)  \* mutant
BornWhite(a, k, f) == AllocAs(a, k, f, FALSE, phase = "Sweeping" /\ a >= cursor)  \* mutant
alloc_unlocked_in(a, k, f) ==
  AllocAs(a, k, f, phase = "Marking", phase = "Sweeping" /\ a >= cursor)

NewObject(r) ==
  /\ \E k \in {"node", "drop"}, a \in Addr :
       /\ Does(k)
       /\ alloc_unlocked_in(a, k, Nil)
       /\ root' = [root EXCEPT ![r] = a]
  /\ UNCHANGED <<strs, cycle>>

host_gc_weak(r, s) ==
  /\ Does("weak") /\ root[s] # Nil
  /\ \E a \in Addr : /\ alloc_unlocked_in(a, "weak", root[s])
                     /\ root' = [root EXCEPT ![r] = a]
  /\ UNCHANGED <<strs, cycle>>

host_gc_upgrade(r, s) ==
  /\ Does("upgrade") /\ root[s] \in Live /\ kind[root[s]] = "weak"
  /\ root' = [root EXCEPT ![r] = ref[root[s]]]
  /\ marked' = IF phase = "Marking" THEN Trace({ref[root[s]]}, marked) ELSE marked
  /\ UNCHANGED <<kind, ref, bodies, fresh, strs, cycle>>

Load(r, s) ==
  /\ Does("load") /\ root[s] \in Live /\ Holds(root[s])
  /\ root' = [root EXCEPT ![r] = ref[root[s]]]
  /\ UNCHANGED <<heapvars, strs, cycle>>

Store(r, s) ==
  /\ Does("store") /\ root[r] \in Live /\ Holds(root[r])
  /\ ref' = [ref EXCEPT ![root[r]] = root[s]]
  /\ UNCHANGED <<kind, bodies, marked, fresh, strs, root, cycle>>

Clear(r) ==
  /\ Does("clear")
  /\ root' = [root EXCEPT ![r] = Nil]
  /\ UNCHANGED <<heapvars, strs, cycle>>

\* cached, else interned, else a new string the table names.  The code may
\* collect between the new string and the cache's entry; here the entry is made
\* at once, a cycle clears it, and the next use of the literal makes it again.
push_program_string(r) ==
  /\ Does("string")
  /\ \/ /\ cached # Nil
        /\ root' = [root EXCEPT ![r] = cached]
        /\ UNCHANGED <<heapvars, strs>>
     \/ /\ cached = Nil /\ interned # Nil
        /\ root' = [root EXCEPT ![r] = interned]
        /\ cached' = interned
        /\ UNCHANGED <<heapvars, interned>>
     \/ /\ cached = Nil /\ interned = Nil
        /\ \E a \in Addr : /\ alloc_unlocked_in(a, "string", Nil)
                           /\ root' = [root EXCEPT ![r] = a]
                           /\ interned' = a /\ cached' = a
  /\ UNCHANGED cycle

\* claim_finalizer: the body of an object starts once, whoever asks for it
claim_finalizer(a) == kind[a] = "drop" /\ bodies[a] = 0

\* obj.drop() in the program: the body is what the program does next
call_drop(r) ==
  /\ Does("call") /\ root[r] \in Live /\ claim_finalizer(root[r])
  /\ bodies' = [bodies EXCEPT ![root[r]] = @ + 1]
  /\ UNCHANGED <<kind, ref, marked, fresh, strs, root, cycle>>

Mutator ==
  \/ \E r, s \in Mine : \/ host_gc_weak(r, s) \/ host_gc_upgrade(r, s)
                        \/ Load(r, s) \/ Store(r, s)
  \/ \E r \in Mine : NewObject(r) \/ Clear(r) \/ push_program_string(r) \/ call_drop(r)

(***************************************************************************)
(* Between mark and sweep: which drops are owed, which weaks are dead.     *)
(* The heap finds both on side lists that may hold more than the live      *)
(* candidates and that these passes prune: the lists are left out.         *)
(***************************************************************************)
unmarked_finalizable(m) == {a \in Addr \ m : kind[a] = "drop" /\ bodies[a] = 0}
ClearedAll(m) == {w \in Addr : kind[w] = "weak" /\ ref[w] \in Live}  \* mutant
clear_dead_weaks(m) == {w \in Addr : kind[w] = "weak" /\ ref[w] \in Live \ m}

\* header.fresh.replace(false)
KeepTag(seen) == fresh  \* mutant
Untag(seen) == fresh \ seen

unlink_unmarked_interns(m) == interned' = IF interned \in m THEN interned ELSE Nil

All == Slots + 1

(***************************************************************************)
(* The next n objects of the walk from slot c on, up to slot stop, or all  *)
(* there are; with the marks m, after the weaks W were cleared.            *)
(***************************************************************************)
sweep_quantum(m, c, n, W) ==
  \E stop \in c..All :
    LET seen == {a \in Live : c <= a /\ a < stop}
        freed == seen \ (m \cup fresh)
        done == Cardinality(seen) < n
    IN /\ IF done THEN stop = All ELSE Cardinality(seen) = n /\ stop - 1 \in seen
       /\ kind' = [a \in Addr |-> IF a \in freed THEN "free" ELSE kind[a]]
       /\ ref' = [a \in Addr |-> IF a \in freed \cup W THEN Nil ELSE ref[a]]
       /\ bodies' = [a \in Addr |-> IF a \in freed THEN 0 ELSE bodies[a]]
       /\ marked' = m \ seen
       /\ fresh' = Untag(seen)
       /\ phase' = IF done THEN "Idle" ELSE "Sweeping"
       /\ cursor' = IF done THEN 1 ELSE stop

\* clear_dead_weaks, begin_sweep and the first slice
EndMark(m, n) ==
  /\ unlink_unmarked_interns(m)
  /\ sweep_quantum(m, 1, n, clear_dead_weaks(m))
  /\ cached' = Nil
  /\ mode' = "none" /\ queue' = {} /\ UNCHANGED <<running, root>>

(***************************************************************************)
(* The safepoint's cycle.  gc_mark_slice marks to the end and, when drops  *)
(* are owed, runs them in phase Marking before it goes on.                 *)
(***************************************************************************)
gc_start_incremental(n) ==
  /\ mode = "none" /\ phase = "Idle"
  /\ LET m == Trace(Roots, marked)
         q == unmarked_finalizable(m)
     IN \/ q = {} /\ EndMark(m, n)
        \/ /\ q # {}
           /\ marked' = Trace(q, m)
           /\ queue' = q /\ mode' = "slice" /\ phase' = "Marking"
           /\ UNCHANGED <<kind, ref, bodies, fresh, strs, root, cursor, running>>
  /\ UNCHANGED deferred

gc_mark_slice_end(n) ==
  /\ mode = "slice" /\ ~running /\ queue = {}
  /\ EndMark(Trace(Roots, marked), n)
  /\ UNCHANGED deferred

gc_sweep_slice(n) ==
  /\ mode = "none" /\ phase = "Sweeping"
  /\ sweep_quantum(marked, cursor, n, {})
  /\ cached' = IF phase' = "Idle" THEN Nil ELSE cached
  /\ UNCHANGED <<interned, root, mode, queue, running, deferred>>

\* run_pending, in address order; claim_finalizer may find the drop done.  A drop
\* that panics ends the program (finalizer_aborted) and is left out.
run_finalizer ==
  /\ ~running /\ queue # {}
  /\ \E a \in queue :
       /\ \A b \in queue : a <= b
       /\ queue' = queue \ {a}
       /\ \/ /\ claim_finalizer(a)
             /\ bodies' = [bodies EXCEPT ![a] = @ + 1]
             /\ root' = [root EXCEPT !["self"] = a]
             /\ running' = TRUE
          \/ ~claim_finalizer(a) /\ UNCHANGED <<bodies, root, running>>
  /\ UNCHANGED <<kind, ref, marked, fresh, strs, phase, cursor, mode, deferred>>

drop_returns ==
  /\ running
  /\ running' = FALSE
  /\ root' = [root EXCEPT !["self"] = Nil]
  /\ UNCHANGED <<heapvars, strs, phase, cursor, mode, queue, deferred>>

(***************************************************************************)
(* gc::collect: end the sweep in flight, then rounds of mark, drops (with  *)
(* the phase still Idle), mark again, sweep, until none was asked for      *)
(* meanwhile.  Nothing runs between these steps but the drops.             *)
(***************************************************************************)
gc_collect ==
  /\ Does("collect")
  /\ \/ running /\ deferred' = TRUE /\ UNCHANGED <<heapvars, strs, root, phase, cursor, mode, queue, running>>
     \/ /\ ~running /\ mode' = "round"
        /\ \/ phase = "Sweeping" /\ sweep_quantum(marked, cursor, All, {})
           \/ phase = "Idle" /\ UNCHANGED <<heapvars, phase, cursor>>
        /\ UNCHANGED <<strs, root, queue, running, deferred>>

gc_collect_round ==
  /\ mode = "round"
  /\ deferred' = FALSE
  /\ LET m == Trace(Roots, marked)
         q == unmarked_finalizable(m)
     IN \/ q = {} /\ EndMark(m, All)
        \/ /\ q # {}
           /\ marked' = Trace(q, m)
           /\ queue' = q /\ mode' = "collect"
           /\ UNCHANGED <<kind, ref, bodies, fresh, strs, root, phase, cursor, running>>

\* unmark_heap, mark_from_vm_roots
StaleMarks == Trace(Roots, marked)  \* mutant
Remark == Trace(Roots, {})

gc_collect_end ==
  /\ mode = "collect" /\ ~running /\ queue = {}
  /\ unlink_unmarked_interns(Remark)
  /\ sweep_quantum(Remark, 1, All, clear_dead_weaks(Remark))
  /\ cached' = Nil
  /\ mode' = IF deferred THEN "round" ELSE "none"
  /\ UNCHANGED <<root, queue, running, deferred>>

Next ==
  \/ Mutator
  \/ \E n \in Quanta : gc_start_incremental(n) \/ gc_mark_slice_end(n) \/ gc_sweep_slice(n)
  \/ run_finalizer \/ drop_returns
  \/ gc_collect \/ gc_collect_round \/ gc_collect_end

Spec == Init /\ [][Next]_vars

-----------------------------------------------------------------------------
\* Among the types: a drop body starts at most once per object, whether a
\* collection, the program or a body asks for it.
TypeOK ==
  /\ kind \in [Addr -> Kind]
  /\ ref \in [Addr -> Ref]
  /\ bodies \in [Addr -> 0..1]
  /\ marked \subseteq Addr /\ fresh \subseteq Addr
  /\ queue \subseteq Addr
  /\ interned \in Ref /\ cached \in Ref
  /\ root \in [Register -> Ref]
  /\ phase \in {"Idle", "Marking", "Sweeping"}
  /\ cursor \in 1..All
  /\ mode \in {"none", "slice", "round", "collect"}
  /\ running \in BOOLEAN /\ deferred \in BOOLEAN

(***************************************************************************)
(* Whatever the program can still name is allocated: what its frames and   *)
(* statics hold, every field reached from there, the target of every weak  *)
(* reached that was not cleared, and the literal the cache or the intern   *)
(* table would hand out.  (sweep's contract: "Otherwise, we'll deallocate  *)
(* objects that are in use and leave dangling pointers.")                  *)
(***************************************************************************)
NoDangling ==
  /\ Roots \subseteq Live
  /\ \A a \in Reachable : ref[a] \in Live \cup {Nil}
  /\ \A s \in {cached, interned} \ {Nil} : kind[s] = "string"

(***************************************************************************)
(* Between cycles no header is marked or fresh: a stale mark would make    *)
(* the next mark skip the object's children.                               *)
(***************************************************************************)
IdleClean ==
  /\ TypeOK
  /\ phase = "Idle" /\ mode \in {"none", "round"} => marked = {} /\ fresh = {}

(***************************************************************************)
(* A weak handle is cleared only when nothing reaches its target: an       *)
(* upgrade answers Some as long as the referent is alive.                  *)
(***************************************************************************)
WeakKept ==
  [][\A w \in Addr : kind[w] = "weak" /\ kind'[w] = "weak" /\ ref[w] # ref'[w]
       => ref[w] \notin Reachable']_vars

(***************************************************************************)
(* gc::collect reclaims in one call: when it returns, every object that is *)
(* still there is reachable, a sweep in flight and drops that ran in       *)
(* between notwithstanding.                                                *)
(***************************************************************************)
CollectReclaims ==
  [][(mode \in {"round", "collect"} /\ mode' = "none") => Live' = Reachable']_vars

(***************************************************************************)
(* A safepoint's cycle frees no object that still owes its drop, even one  *)
(* a drop body of that cycle made or let go.  (gc::collect may: it marks   *)
(* again after the drops and queues none a second time.)                   *)
(***************************************************************************)
FreesOwing == \E a \in Addr : kind[a] = "drop" /\ kind'[a] = "free" /\ bodies[a] = 0
CycleDropsFirst == [][FreesOwing => mode = "collect"]_vars
=============================================================================
