-------------------------- MODULE BuildCache_proofs -------------------------
(***************************************************************************)
(* Proofs about BuildCache, for every number of compilers, sources,        *)
(* contents, entries kept, edits and crashes: nobody sees a torn entry, a  *)
(* hit that nobody disturbed runs the program on disk, and pruning keeps   *)
(* its bound.                                                              *)
(***************************************************************************)
EXTENDS BuildCache, FiniteSetTheorems, TLAPS

Labels == {"idle", "load", "check", "hit", "compile", "store", "write", "writing",
           "rename", "prune", "remove"}

\* An entry a compile is still filling in
Making == [deps : Partial, archive : Partial, edited : BOOLEAN]

\* The variables' types, with the functions' domains.
Typed ==
  /\ fs \in Snapshot
  /\ cache \in [Keys -> Entry \cup {None, Torn}]
  /\ tmp \in [Procs -> Entry \cup {None, Torn}]
  /\ pc \in [Procs -> Labels]
  /\ key \in [Procs -> Keys \cup {None}]
  /\ todo \in [Procs -> SUBSET (Keys \cup Files)]
  /\ got \in [Procs -> Making \cup {None}]
  /\ touched \in [Procs -> BOOLEAN]
  /\ edits \in 0..MaxEdits /\ crashes \in 0..MaxCrashes

\* An entry whose inputs nobody edited while it was made has the digests of
\* what its compile read.
Honest(e) == ~e.edited => e.archive = e.deps

\* What a process holds at each of its steps.
Holds(p) ==
  /\ pc[p] \in {"load", "check", "hit", "compile", "store", "write", "writing", "rename"} =>
       key[p] \in Keys
  /\ pc[p] \in {"check", "hit", "write", "writing", "rename"} =>
       got[p] \in Entry /\ Honest(got[p])
  /\ pc[p] \in {"compile", "store"} => got[p] \in Making
  /\ pc[p] = "store" => got[p].archive \in Snapshot
  /\ pc[p] = "rename" => tmp[p] = got[p]
  /\ todo[p] \subseteq (IF pc[p] = "remove" THEN Keys ELSE Files)
  /\ pc[p] = "hit" => todo[p] = {}

\* What a process has read of the sources, when they did not change since.
Agrees(p) ==
  ~touched[p] =>
    /\ pc[p] \in {"check", "hit"} => \A f \in Files \ todo[p] : fs[f] = got[p].deps[f]
    /\ pc[p] \in {"compile", "store"} =>
         /\ \A f \in DOMAIN got[p].archive : got[p].archive[f] = fs[f]
         /\ \A f \in DOMAIN got[p].deps : got[p].deps[f] = fs[f]

\* The files under an entry's name are whole, and honest.
Stored == \A k \in Keys : cache[k] # None => cache[k] \in Entry /\ Honest(cache[k])

\* Until somebody dies, too many entries means a prune that is going to
\* list them, or one whose list holds all that are too many.
PruneDue ==
  crashes = 0 =>
    \/ \E p \in Procs : pc[p] = "prune"
    \/ Cardinality(Entries) <= MaxEntries
    \/ \E p \in Procs : pc[p] = "remove" /\ Cardinality(Entries \ todo[p]) <= MaxEntries

\* The inductive invariant.
IInv == Typed /\ (\A p \in Procs : Holds(p) /\ Agrees(p)) /\ Stored /\ PruneDue

-----------------------------------------------------------------------------
\* A part of a snapshot is a function from some of the files.
LEMMA PartialOf ==
  ASSUME NEW g
  PROVE  /\ g \in Partial => DOMAIN g \subseteq Files /\ g \in [DOMAIN g -> Contents]
         /\ \A S \in SUBSET Files : g \in [S -> Contents] => g \in Partial
  BY DEF Partial

\* Read adds one file.
LEMMA Extended ==
  ASSUME fs \in Snapshot, NEW g \in Partial, NEW f \in Files
  PROVE  /\ Read(g, f) \in Partial
         /\ DOMAIN Read(g, f) = DOMAIN g \cup {f}
         /\ Read(g, f)[f] = fs[f]
         /\ \A x \in DOMAIN g : x # f => Read(g, f)[x] = g[x]
<1> DEFINE S == DOMAIN g \cup {f}
<1>1. DOMAIN g \subseteq Files /\ g \in [DOMAIN g -> Contents]  BY PartialOf
<1>2. fs[f] \in Contents  BY DEF Snapshot
<1>3. Read(g, f) \in [S -> Contents]  BY <1>1, <1>2 DEF Read
<1>4. S \in SUBSET Files  BY <1>1
<1>5. Read(g, f) \in Partial  BY <1>3, <1>4, PartialOf
<1> QED  BY <1>5 DEF Read

\* A part that has every file is a snapshot.
LEMMA Complete == ASSUME NEW g \in Partial, DOMAIN g = Files PROVE g \in Snapshot
  BY PartialOf DEF Snapshot

\* An entry is one being made, too, and none of None and Torn.
LEMMA EntryFacts == Entry \subseteq Making /\ None \notin Entry /\ Torn \notin Entry /\ None # Torn
<1>1. Snapshot \subseteq Partial  BY DEF Snapshot, Partial
<1> QED  BY <1>1, CacheAssumption DEF Entry, Making

\* The next file is one that is not done.
LEMMA FollowingFacts ==
  ASSUME NEW done \in SUBSET Files, NEW f \in Following(done) PROVE f \in Files \ done
  BY DEF Following, Files

\* Whatever p does, the others stand where they stood if their state and the
\* sources are the same.
LEMMA Others ==
  ASSUME NEW p \in Procs, NEW q \in Procs, Holds(q), Agrees(q), fs' = fs,
         pc'[q] = pc[q], key'[q] = key[q], todo'[q] = todo[q], got'[q] = got[q],
         touched'[q] = touched[q], tmp'[q] = tmp[q]
  PROVE  Holds(q)' /\ Agrees(q)'
  BY DEF Holds, Agrees, Honest

\* A process that has forgotten everything holds what it should.
LEMMA Forgotten ==
  ASSUME Typed, NEW p \in Procs, NEW l \in {"idle", "prune"}, Forget(p, l)
  PROVE  /\ pc' \in [Procs -> Labels] /\ key' \in [Procs -> Keys \cup {None}]
         /\ todo' \in [Procs -> SUBSET (Keys \cup Files)] /\ got' \in [Procs -> Making \cup {None}]
         /\ touched' \in [Procs -> BOOLEAN]
         /\ Holds(p)' /\ Agrees(p)'
         /\ pc'[p] = l
         /\ \A q \in Procs \ {p} : /\ pc'[q] = pc[q] /\ key'[q] = key[q] /\ todo'[q] = todo[q]
                                   /\ got'[q] = got[q] /\ touched'[q] = touched[q]
<1>1. /\ pc' \in [Procs -> Labels] /\ key' \in [Procs -> Keys \cup {None}]
      /\ todo' \in [Procs -> SUBSET (Keys \cup Files)] /\ got' \in [Procs -> Making \cup {None}]
      /\ touched' \in [Procs -> BOOLEAN]
  BY DEF Forget, Goto, Typed, Labels
<1>2. pc'[p] = l /\ todo'[p] = {}  BY DEF Forget, Goto, Typed
<1>3. Holds(p)' /\ Agrees(p)'  BY <1>2 DEF Holds, Agrees
<1>4. \A q \in Procs \ {p} : /\ pc'[q] = pc[q] /\ key'[q] = key[q] /\ todo'[q] = todo[q]
                             /\ got'[q] = got[q] /\ touched'[q] = touched[q]
  BY DEF Forget, Goto, Typed
<1> QED  BY <1>1, <1>2, <1>3, <1>4

-----------------------------------------------------------------------------
(***************************************************************************)
(* Every step keeps the types, what the processes hold and what is stored. *)
(***************************************************************************)
Local == \A q \in Procs : Holds(q) /\ Agrees(q)
Kept == Typed' /\ Local' /\ Stored'

\* The start of a compile, after a miss
LEMMA StartCompileKept ==
  ASSUME Typed, Local, Stored, NEW p \in Procs, pc[p] \in {"load", "check"}, StartCompile(p)
  PROVE  Kept
<1>1. <<>> \in Partial /\ DOMAIN <<>> = {}
  <2>1. <<>> \in [{} -> Contents]  OBVIOUS
  <2> QED  BY <2>1, PartialOf
<1> DEFINE new == [deps |-> <<>>, archive |-> <<>>, edited |-> FALSE]
<1>2. new \in Making /\ DOMAIN new.archive = {} /\ DOMAIN new.deps = {}  BY <1>1 DEF Making
<1>3. got' = [got EXCEPT ![p] = new]  BY DEF StartCompile
<1> HIDE DEF new
<1>4. Typed'
  <2>1. pc' \in [Procs -> Labels] /\ todo' \in [Procs -> SUBSET (Keys \cup Files)]
    BY DEF Typed, StartCompile, Goto, Labels
  <2>2. got' \in [Procs -> Making \cup {None}]  BY <1>2, <1>3 DEF Typed
  <2> QED  BY <2>1, <2>2 DEF Typed, StartCompile
<1>5. pc'[p] = "compile" /\ todo'[p] = {} /\ got'[p] = new /\ key'[p] \in Keys
  BY <1>3 DEF Typed, StartCompile, Goto, Local, Holds
<1>6. Holds(p)' /\ Agrees(p)'  BY <1>2, <1>5 DEF Holds, Agrees
<1>7. \A q \in Procs \ {p} : Holds(q)' /\ Agrees(q)'
  BY <1>3, Others DEF Typed, StartCompile, Goto, Local
<1>8. Stored'  BY DEF Stored, StartCompile
<1> QED  BY <1>4, <1>6, <1>7, <1>8 DEF Kept, Local

LEMMA KeyOfKept ==
  ASSUME Typed, Local, Stored, NEW p \in Procs, KeyOf(p)
  PROVE  Kept
<1>1. fs[EntryFile] \in Keys  BY DEF Typed, Snapshot, Files, Keys
<1>2. Typed'  BY <1>1 DEF Typed, KeyOf, Goto, Labels
<1>3. pc'[p] = "load" /\ key'[p] \in Keys /\ todo'[p] = todo[p] /\ pc[p] = "idle"
  BY <1>1 DEF Typed, KeyOf, Goto, At
<1>4. Holds(p)' /\ Agrees(p)'  BY <1>3 DEF Holds, Agrees, Local
<1>5. \A q \in Procs \ {p} : Holds(q)' /\ Agrees(q)'  BY Others DEF Typed, KeyOf, Goto, Local
<1>6. Stored'  BY DEF Stored, KeyOf
<1> QED  BY <1>2, <1>4, <1>5, <1>6 DEF Kept, Local

LEMMA loadKept ==
  ASSUME Typed, Local, Stored, NEW p \in Procs, load(p)
  PROVE  Kept
<1> DEFINE e == cache[key[p]]
<1>1. pc[p] = "load" /\ key[p] \in Keys  BY DEF load, At, Local, Holds
<1>2. CASE e \in {None, Torn}  BY <1>1, <1>2, StartCompileKept DEF load
<1>3. CASE e \notin {None, Torn}
  <2>1. e \in Entry /\ Honest(e)  BY <1>1, <1>3 DEF Stored
  <2>2. /\ got' = [got EXCEPT ![p] = e] /\ todo' = [todo EXCEPT ![p] = Files]
        /\ pc' = [pc EXCEPT ![p] = "check"] /\ UNCHANGED <<fs, cache, tmp, key, touched, edits, crashes>>
    BY <1>3 DEF load, Goto
  <2> HIDE DEF e
  <2>3. Typed'  BY <2>1, <2>2, EntryFacts DEF Typed, Labels
  <2>4. pc'[p] = "check" /\ key'[p] \in Keys /\ todo'[p] = Files /\ got'[p] = e
    BY <1>1, <2>2 DEF Typed
  <2>5. Holds(p)' /\ Agrees(p)'  BY <2>1, <2>4 DEF Holds, Agrees, Honest
  <2>6. \A q \in Procs \ {p} : Holds(q)' /\ Agrees(q)'  BY <2>2, Others DEF Typed, Local
  <2>7. Stored'  BY <2>2 DEF Stored
  <2> QED  BY <2>3, <2>5, <2>6, <2>7 DEF Kept, Local
<1> QED  BY <1>2, <1>3

LEMMA CheckInputKept ==
  ASSUME Typed, Local, Stored, NEW p \in Procs, CheckInput(p)
  PROVE  Kept
<1>1. pc[p] = "check" /\ key[p] \in Keys /\ got[p] \in Entry /\ Honest(got[p]) /\ todo[p] \subseteq Files
  BY DEF CheckInput, At, Local, Holds
<1>2. PICK f \in Following(Files \ todo[p]) :
        IF fs[f] # got[p].deps[f] THEN StartCompile(p)
        ELSE /\ todo' = [todo EXCEPT ![p] = @ \ {f}]
             /\ Goto(p, IF todo[p] = {f} THEN "hit" ELSE "check")
             /\ UNCHANGED <<fs, cache, tmp, key, got, touched, edits, crashes>>
  BY DEF CheckInput
<1>3. f \in todo[p] /\ f \in Files  BY <1>1, <1>2, FollowingFacts
<1>4. CASE fs[f] # got[p].deps[f]  BY <1>1, <1>2, <1>4, StartCompileKept
<1>5. CASE fs[f] = got[p].deps[f]
  <2>1. /\ todo' = [todo EXCEPT ![p] = todo[p] \ {f}]
        /\ pc' = [pc EXCEPT ![p] = IF todo[p] = {f} THEN "hit" ELSE "check"]
        /\ UNCHANGED <<fs, cache, tmp, key, got, touched, edits, crashes>>
    BY <1>2, <1>5 DEF Goto
  <2>2. Typed'  BY <1>1, <2>1 DEF Typed, Labels
  <2>3. /\ todo'[p] = todo[p] \ {f} /\ pc'[p] = IF todo[p] = {f} THEN "hit" ELSE "check"
        /\ key'[p] = key[p] /\ got'[p] = got[p] /\ touched'[p] = touched[p] /\ fs' = fs
    BY <2>1 DEF Typed
  <2>4. Holds(p)'  BY <1>1, <2>3 DEF Holds, Honest
  <2>5. Agrees(p)
    BY DEF Local
  <2>6. ~touched[p] => \A g \in Files \ todo'[p] : fs[g] = got[p].deps[g]
    BY <1>1, <1>5, <2>3, <2>5 DEF Agrees
  <2>7. Agrees(p)'  BY <2>3, <2>6 DEF Agrees
  <2>8. \A q \in Procs \ {p} : Holds(q)' /\ Agrees(q)'  BY <2>1, Others DEF Typed, Local
  <2>9. Stored'  BY <2>1 DEF Stored
  <2> QED  BY <2>2, <2>4, <2>7, <2>8, <2>9 DEF Kept, Local
<1> QED  BY <1>4, <1>5

\* The steps that end with everything forgotten and leave the files alone
LEMMA ReturnKept ==
  ASSUME Typed, Local, Stored, NEW p \in Procs, Return(p), UNCHANGED <<fs, cache, edits>>,
         crashes' \in 0..MaxCrashes, tmp' = tmp \/ Litter(p)
  PROVE  Kept
<1>1. Forget(p, "idle")  BY DEF Return
<1>2. tmp' \in [Procs -> Entry \cup {None, Torn}] /\ \A q \in Procs \ {p} : tmp'[q] = tmp[q]
  BY DEF Typed, Litter
<1>3. Typed'  BY <1>1, <1>2, Forgotten DEF Typed
<1>4. Holds(p)' /\ Agrees(p)'  BY <1>1, Forgotten
<1>5. \A q \in Procs \ {p} : Holds(q)' /\ Agrees(q)'
  BY <1>1, <1>2, Forgotten, Others DEF Local
<1>6. Stored'  BY DEF Stored
<1> QED  BY <1>3, <1>4, <1>5, <1>6 DEF Kept, Local

LEMMA CompileKept ==
  ASSUME Typed, Local, Stored, NEW p \in Procs, Compile(p)
  PROVE  Kept
<1>1. /\ pc[p] = "compile" /\ key[p] \in Keys /\ got[p] \in Making /\ todo[p] \subseteq Files
      /\ got[p].archive \in Partial /\ DOMAIN got[p].archive \subseteq Files
  BY PartialOf DEF Compile, At, Local, Holds, Making
<1>2. PICK f \in Following(DOMAIN got[p].archive) :
        /\ got' = [got EXCEPT ![p].archive = Read(@, f)]
        /\ Goto(p, IF Files \ DOMAIN got[p].archive = {f} THEN "store" ELSE "compile")
  BY DEF Compile
<1>3. f \in Files \ DOMAIN got[p].archive  BY <1>1, <1>2, FollowingFacts
<1> DEFINE a == Read(got[p].archive, f)
           new == [deps |-> got[p].deps, archive |-> a, edited |-> got[p].edited]
<1>4. /\ a \in Partial /\ DOMAIN a = DOMAIN got[p].archive \cup {f} /\ a[f] = fs[f]
      /\ \A x \in DOMAIN got[p].archive : x # f => a[x] = got[p].archive[x]
  BY <1>1, <1>3, Extended DEF Typed
<1> HIDE DEF a
<1>5. got' = [got EXCEPT ![p] = new]
  <2>1. got' = [got EXCEPT ![p] = [got[p] EXCEPT !.archive = a]]  BY <1>2 DEF a, Typed
  <2>2. [got[p] EXCEPT !.archive = a] = new  BY <1>1 DEF Making
  <2> QED  BY <2>1, <2>2
<1>6. new \in Making /\ new.archive = a /\ new.deps = got[p].deps  BY <1>1, <1>4 DEF Making
<1> HIDE DEF new
<1>7. /\ UNCHANGED <<fs, cache, tmp, key, todo, touched, edits, crashes>>
      /\ pc' = [pc EXCEPT ![p] = IF Files \ DOMAIN got[p].archive = {f} THEN "store" ELSE "compile"]
  BY <1>2 DEF Compile, Goto
<1>8. Typed'  BY <1>5, <1>6, <1>7 DEF Typed, Labels
<1>9. /\ got'[p] = new /\ pc'[p] \in {"store", "compile"}
      /\ pc'[p] = "store" => DOMAIN a = Files
      /\ key'[p] = key[p] /\ todo'[p] = todo[p] /\ touched'[p] = touched[p] /\ fs' = fs
  BY <1>1, <1>3, <1>4, <1>5, <1>7 DEF Typed
<1>10. Holds(p)'  BY <1>1, <1>4, <1>6, <1>9, Complete DEF Holds
<1>11. ~touched[p] => /\ \A x \in DOMAIN got[p].archive : got[p].archive[x] = fs[x]
                      /\ \A x \in DOMAIN got[p].deps : got[p].deps[x] = fs[x]
  BY <1>1 DEF Local, Agrees
<1>12. Agrees(p)'  BY <1>4, <1>6, <1>9, <1>11 DEF Agrees
<1>13. \A q \in Procs \ {p} : Holds(q)' /\ Agrees(q)'  BY <1>5, <1>7, Others DEF Typed, Local
<1>14. Stored'  BY <1>7 DEF Stored
<1> QED  BY <1>8, <1>10, <1>12, <1>13, <1>14 DEF Kept, Local

\* The last digest makes the entry: archive and digests are the sources', if
\* nobody edited them since the compile began.
LEMMA DigestInputKept ==
  ASSUME Typed, Local, Stored, NEW p \in Procs, DigestInput(p)
  PROVE  Kept
<1>1. /\ pc[p] = "store" /\ key[p] \in Keys /\ got[p] \in Making /\ todo[p] \subseteq Files
      /\ got[p].deps \in Partial /\ DOMAIN got[p].deps \subseteq Files
      /\ got[p].archive \in Snapshot /\ DOMAIN got[p].archive = Files
      /\ touched[p] \in BOOLEAN
  BY PartialOf DEF DigestInput, At, Local, Holds, Making, Snapshot, Typed
<1>2. PICK f \in Following(DOMAIN got[p].deps) :
        /\ got' = [got EXCEPT ![p] = [deps |-> Read(@.deps, f), archive |-> @.archive, edited |-> touched[p]]]
        /\ LET last == Files \ DOMAIN got[p].deps = {f}
           IN /\ Goto(p, IF last THEN "write" ELSE "store")
              /\ touched' = [touched EXCEPT ![p] = @ /\ ~last]
  BY DEF DigestInput
<1>3. f \in Files \ DOMAIN got[p].deps  BY <1>1, <1>2, FollowingFacts
<1> DEFINE d == Read(got[p].deps, f)
           last == Files \ DOMAIN got[p].deps = {f}
           new == [deps |-> d, archive |-> got[p].archive, edited |-> touched[p]]
<1>4. /\ d \in Partial /\ DOMAIN d = DOMAIN got[p].deps \cup {f} /\ d[f] = fs[f]
      /\ \A x \in DOMAIN got[p].deps : x # f => d[x] = got[p].deps[x]
  BY <1>1, <1>3, Extended DEF Typed
<1> HIDE DEF d
<1>4a. last => DOMAIN d = Files  BY <1>1, <1>3, <1>4
<1>5. got' = [got EXCEPT ![p] = new]  BY <1>2 DEF d
<1>6. /\ new \in Making /\ new.deps = d /\ new.archive = got[p].archive /\ new.edited = touched[p]
      /\ d \in Snapshot => new \in Entry
  BY <1>1, <1>4 DEF Making, Entry
<1> HIDE DEF new
<1>7. /\ UNCHANGED <<fs, cache, tmp, key, todo, edits, crashes>>
      /\ pc' = [pc EXCEPT ![p] = IF last THEN "write" ELSE "store"]
      /\ touched' = [touched EXCEPT ![p] = touched[p] /\ ~last]
  BY <1>2 DEF DigestInput, Goto
<1>8. Typed'  BY <1>5, <1>6, <1>7 DEF Typed, Labels
<1>9. /\ got'[p] = new /\ pc'[p] = IF last THEN "write" ELSE "store"
      /\ key'[p] = key[p] /\ todo'[p] = todo[p] /\ fs' = fs /\ (~last => touched'[p] = touched[p])
  BY <1>1, <1>5, <1>7 DEF Typed
<1>10. ~touched[p] => /\ \A x \in Files : got[p].archive[x] = fs[x]
                      /\ \A x \in DOMAIN got[p].deps : got[p].deps[x] = fs[x]
  BY <1>1 DEF Local, Agrees
<1>11. ~touched[p] => \A x \in DOMAIN d : d[x] = fs[x]  BY <1>4, <1>10
<1>12. last => Holds(p)' /\ Agrees(p)'
  <2> HAVE last
  <2>1. d \in Snapshot  BY <1>4, <1>4a, Complete
  <2>2. ~touched[p] => d = got[p].archive  BY <1>1, <1>4a, <1>10, <1>11, <2>1 DEF Snapshot
  <2>3. pc'[p] = "write" /\ got'[p] \in Entry /\ Honest(got'[p])
    BY <1>6, <1>9, <2>1, <2>2 DEF Honest
  <2> QED  BY <1>1, <1>9, <2>3 DEF Holds, Agrees, Honest
<1>13. ~last => Holds(p)' /\ Agrees(p)'
  <2> HAVE ~last
  <2>1. Holds(p)'  BY <1>1, <1>6, <1>9 DEF Holds
  <2>2. Agrees(p)'  BY <1>1, <1>6, <1>9, <1>10, <1>11 DEF Agrees
  <2> QED  BY <2>1, <2>2
<1>14. \A q \in Procs \ {p} : Holds(q)' /\ Agrees(q)'  BY <1>5, <1>7, Others DEF Typed, Local
<1>15. Stored'  BY <1>7 DEF Stored
<1> QED  BY <1>8, <1>12, <1>13, <1>14, <1>15 DEF Kept, Local

LEMMA WriteTmpKept ==
  ASSUME Typed, Local, Stored, NEW p \in Procs, WriteTmp(p)
  PROVE  Kept
<1>1. UNCHANGED <<fs, cache, edits, crashes>>  BY DEF WriteTmp
<1>2. CASE At(p, "write") /\ tmp' = [tmp EXCEPT ![p] = Torn] /\ Goto(p, "writing")
           /\ UNCHANGED <<key, todo, got, touched>>
  <2>1. Typed'  BY <1>1, <1>2 DEF Typed, Goto, Labels
  <2>2. pc[p] = "write" /\ pc'[p] = "writing"  BY <1>2 DEF Typed, Goto, At
  <2>3. Holds(p)' /\ Agrees(p)'  BY <1>1, <1>2, <2>2 DEF Holds, Agrees, Local, Honest
  <2>4. \A q \in Procs \ {p} : Holds(q)' /\ Agrees(q)'  BY <1>1, <1>2, Others DEF Typed, Local, Goto
  <2>5. Stored'  BY <1>1 DEF Stored
  <2> QED  BY <2>1, <2>3, <2>4, <2>5 DEF Kept, Local
<1>3. CASE At(p, "writing") /\ tmp' = [tmp EXCEPT ![p] = got[p]] /\ Goto(p, "rename")
           /\ UNCHANGED <<key, todo, got, touched>>
  <2>1. pc[p] = "writing" /\ pc'[p] = "rename" /\ got[p] \in Entry /\ tmp'[p] = got[p]
    BY <1>3 DEF Typed, Goto, At, Local, Holds
  <2>2. Typed'  BY <1>1, <1>3, <2>1 DEF Typed, Goto, Labels
  <2>3. Holds(p)' /\ Agrees(p)'  BY <1>1, <1>3, <2>1 DEF Holds, Agrees, Local, Honest
  <2>4. \A q \in Procs \ {p} : Holds(q)' /\ Agrees(q)'  BY <1>1, <1>3, Others DEF Typed, Local, Goto
  <2>5. Stored'  BY <1>1 DEF Stored
  <2> QED  BY <2>2, <2>3, <2>4, <2>5 DEF Kept, Local
<1>4. CASE Return(p) /\ Litter(p)
  BY <1>1, <1>4, ReturnKept DEF Typed
<1> QED  BY <1>2, <1>3, <1>4 DEF WriteTmp

LEMMA RenameKept ==
  ASSUME Typed, Local, Stored, NEW p \in Procs, Rename(p)
  PROVE  Kept
<1>1. /\ pc[p] = "rename" /\ key[p] \in Keys /\ tmp[p] \in Entry /\ Honest(tmp[p])
  BY DEF Rename, At, Local, Holds
<1>2. UNCHANGED <<fs, edits, crashes>> /\ tmp' = [tmp EXCEPT ![p] = None]  BY DEF Rename
<1>3. CASE cache' = [cache EXCEPT ![key[p]] = tmp[p]] /\ Forget(p, "prune")
  <2>1. Typed'  BY <1>1, <1>2, <1>3, Forgotten DEF Typed
  <2>2. Holds(p)' /\ Agrees(p)'  BY <1>3, Forgotten
  <2>3. \A q \in Procs \ {p} : tmp'[q] = tmp[q]  BY <1>2 DEF Typed
  <2>4. \A q \in Procs \ {p} : Holds(q)' /\ Agrees(q)'
    BY <1>2, <1>3, <2>3, Forgotten, Others DEF Local
  <2>5. Stored'
    <3>1. \A k \in Keys : cache'[k] = IF k = key[p] THEN tmp[p] ELSE cache[k]
      BY <1>3 DEF Typed
    <3> QED  BY <1>1, <3>1 DEF Stored, Honest
  <2> QED  BY <2>1, <2>2, <2>4, <2>5 DEF Kept, Local
<1>4. CASE UNCHANGED cache /\ Return(p)
  BY <1>2, <1>4, ReturnKept DEF Typed, Litter
<1> QED  BY <1>3, <1>4 DEF Rename

LEMMA pruneKept ==
  ASSUME Typed, Local, Stored, NEW p \in Procs, prune(p)
  PROVE  Kept
<1>1. PICK victims \in SUBSET Entries : todo' = [todo EXCEPT ![p] = victims]  BY DEF prune
<1>2. victims \subseteq Keys  BY DEF Entries
<1>3. pc' = [pc EXCEPT ![p] = "remove"] /\ UNCHANGED <<fs, cache, tmp, key, got, touched, edits, crashes>>
  BY DEF prune, Goto
<1>4. Typed'  BY <1>1, <1>2, <1>3 DEF Typed, Labels
<1>5. pc'[p] = "remove" /\ todo'[p] \subseteq Keys  BY <1>1, <1>2, <1>3 DEF Typed
<1>6. Holds(p)' /\ Agrees(p)'  BY <1>5 DEF Holds, Agrees
<1>7. \A q \in Procs \ {p} : Holds(q)' /\ Agrees(q)'  BY <1>1, <1>3, Others DEF Typed, Local
<1>8. Stored'  BY <1>3 DEF Stored
<1> QED  BY <1>4, <1>6, <1>7, <1>8 DEF Kept, Local

LEMMA RemoveKept ==
  ASSUME Typed, Local, Stored, NEW p \in Procs, Remove(p)
  PROVE  Kept
<1>1. pc[p] = "remove" /\ todo[p] \subseteq Keys /\ UNCHANGED <<fs, tmp, edits, crashes>>
  BY DEF Remove, At, Local, Holds
<1>2. ASSUME NEW k \in todo[p], cache' = [cache EXCEPT ![k] = None],
             todo' = [todo EXCEPT ![p] = @ \ {k}], UNCHANGED <<pc, key, got, touched>>
      PROVE  Kept
  <2>1. Typed'  BY <1>1, <1>2 DEF Typed
  <2>2. Holds(p)' /\ Agrees(p)'  BY <1>1, <1>2 DEF Typed, Holds, Agrees
  <2>3. \A q \in Procs \ {p} : Holds(q)' /\ Agrees(q)'  BY <1>1, <1>2, Others DEF Typed, Local
  <2>4. Stored'
    <3>1. \A j \in Keys : cache'[j] = IF j = k THEN None ELSE cache[j]  BY <1>2 DEF Typed
    <3> QED  BY <3>1 DEF Stored, Honest
  <2> QED  BY <2>1, <2>2, <2>3, <2>4 DEF Kept, Local
<1>3. CASE UNCHANGED cache /\ Return(p)  BY <1>1, <1>3, ReturnKept DEF Typed
<1> QED  BY <1>2, <1>3 DEF Remove

\* An edit touches everyone who has read something.
LEMMA EditKept ==
  ASSUME Typed, Local, Stored, Edit
  PROVE  Kept
<1>1. PICK f \in Files, c \in Contents : fs' = [fs EXCEPT ![f] = c]  BY DEF Edit
<1>2. /\ touched' = [p \in Procs |-> pc[p] \in {"load", "check", "hit", "compile", "store"}]
      /\ edits' = edits + 1 /\ edits < MaxEdits
      /\ UNCHANGED <<cache, tmp, pc, key, todo, got, crashes>>
  BY DEF Edit
<1>3. Typed'
  <2>1. edits' \in 0..MaxEdits  BY <1>2, CacheAssumption DEF Typed
  <2>2. touched' \in [Procs -> BOOLEAN]  BY <1>2
  <2>3. fs' \in Snapshot  BY <1>1 DEF Typed, Snapshot
  <2> QED  BY <1>2, <2>1, <2>2, <2>3 DEF Typed
<1>4. \A q \in Procs : pc[q] \in {"check", "hit", "compile", "store"} => touched'[q]  BY <1>2
<1>5. \A q \in Procs : Holds(q)'  BY <1>2 DEF Local, Holds, Honest
<1>6. \A q \in Procs : Agrees(q)'  BY <1>2, <1>4 DEF Agrees
<1>7. Stored'  BY <1>2 DEF Stored
<1> QED  BY <1>3, <1>5, <1>6, <1>7 DEF Kept, Local

LEMMA CrashKept ==
  ASSUME Typed, Local, Stored, NEW p \in Procs, Crash(p)
  PROVE  Kept
<1>1. crashes' \in 0..MaxCrashes  BY CacheAssumption DEF Crash, Typed
<1> QED  BY <1>1, ReturnKept DEF Crash

LEMMA StepKept ==
  ASSUME Typed, Local, Stored, [Next]_vars
  PROVE  Kept
<1>1. CASE Edit  BY <1>1, EditKept
<1>2. ASSUME NEW p \in Procs, Step(p) PROVE Kept
  <2>1. CASE Hit(p) \/ Diagnostic(p)  BY <2>1, ReturnKept DEF Hit, Diagnostic, Typed
  <2> QED  BY <1>2, <2>1, KeyOfKept, loadKept, CheckInputKept, CompileKept, DigestInputKept,
              WriteTmpKept, RenameKept, pruneKept, RemoveKept DEF Step
<1>3. ASSUME NEW p \in Procs, Crash(p) PROVE Kept  BY <1>3, CrashKept
<1>4. CASE UNCHANGED vars
  BY <1>4 DEF vars, Kept, Typed, Local, Holds, Agrees, Stored, Honest
<1> QED  BY <1>1, <1>2, <1>3, <1>4 DEF Next

-----------------------------------------------------------------------------
(***************************************************************************)
(* Pruning.                                                                *)
(***************************************************************************)
\* There are finitely many entries, and no more in a part of them.
LEMMA EntriesFinite ==
  /\ IsFiniteSet(Entries) /\ Cardinality(Entries) \in Nat
  /\ \A S \in SUBSET Entries : /\ IsFiniteSet(S) /\ Cardinality(S) \in Nat
                               /\ Cardinality(S) <= Cardinality(Entries)
<1>1. IsFiniteSet(Keys) /\ Entries \subseteq Keys  BY CacheAssumption DEF Keys, Entries
<1>2. IsFiniteSet(Entries)  BY <1>1, FS_Subset
<1>3. \A S \in SUBSET Entries : IsFiniteSet(S) /\ Cardinality(S) <= Cardinality(Entries)
  BY <1>2, FS_Subset
<1> QED  BY <1>2, <1>3, FS_CardinalityType

\* A prune that has listed the entries leaves no more than it may.
LEMMA ListingBounds ==
  ASSUME NEW victims \in SUBSET Entries,
         Cardinality(victims) = IF Cardinality(Entries) > MaxEntries
                                THEN Cardinality(Entries) - MaxEntries ELSE 0
  PROVE  Cardinality(Entries \ victims) <= MaxEntries
<1>1. IsFiniteSet(Entries) /\ Cardinality(Entries) \in Nat  BY EntriesFinite
<1>2. Cardinality(Entries \ victims) = Cardinality(Entries) - Cardinality(Entries \cap victims)
  BY <1>1, FS_Difference
<1>3. Entries \cap victims = victims  OBVIOUS
<1>4. MaxEntries \in Nat  BY CacheAssumption
<1>5. ASSUME NEW n \in Nat, NEW m \in Nat, NEW v, v = IF n > m THEN n - m ELSE 0 PROVE n - v <= m
  BY <1>5
<1> QED  BY <1>1, <1>2, <1>3, <1>4, <1>5

\* A step that touches neither the entries nor a list of them, and takes
\* nobody away from pruning.
LEMMA PruneDueFrame ==
  ASSUME PruneDue, cache' = cache, crashes' = crashes,
         \A q \in Procs : pc[q] \in {"prune", "remove"} => pc'[q] = pc[q] /\ todo'[q] = todo[q]
  PROVE  PruneDue'
<1>1. Entries' = Entries  BY DEF Entries
<1> QED  BY <1>1 DEF PruneDue

LEMMA PruneDueStep ==
  ASSUME Typed, Local, PruneDue, [Next]_vars
  PROVE  PruneDue'
<1>1. CASE Edit  BY <1>1, PruneDueFrame DEF Edit
<1>2. CASE UNCHANGED vars  BY <1>2, PruneDueFrame DEF vars
<1>3. ASSUME NEW p \in Procs, Crash(p) PROVE PruneDue'
  <2>1. crashes' # 0  BY <1>3 DEF Crash, Typed
  <2> QED  BY <2>1 DEF PruneDue
<1>4. ASSUME NEW p \in Procs, Step(p), ~Rename(p), ~prune(p), ~Remove(p) PROVE PruneDue'
  <2>1. cache' = cache /\ crashes' = crashes
    BY <1>4 DEF Step, KeyOf, load, StartCompile, CheckInput, Hit, Compile, Diagnostic, DigestInput, WriteTmp
  <2>2. pc[p] \notin {"prune", "remove"}
    BY <1>4 DEF Step, KeyOf, load, CheckInput, Hit, Compile, Diagnostic, DigestInput, WriteTmp, At
  <2>3. \A q \in Procs \ {p} : pc'[q] = pc[q] /\ todo'[q] = todo[q]
    <3>1. CASE Hit(p) \/ Diagnostic(p)
      BY <3>1 DEF Hit, Diagnostic, Return, Forget, Goto, Typed
    <3>2. CASE KeyOf(p) \/ load(p)  BY <3>2 DEF KeyOf, load, StartCompile, Goto, Typed
    <3>3. CASE CheckInput(p)  BY <3>3 DEF CheckInput, StartCompile, Goto, Typed
    <3>4. CASE Compile(p) \/ DigestInput(p)  BY <3>4 DEF Compile, DigestInput, Goto, Typed
    <3>5. CASE WriteTmp(p)  BY <3>5 DEF WriteTmp, Return, Forget, Goto, Typed
    <3> QED  BY <1>4, <3>1, <3>2, <3>3, <3>4, <3>5 DEF Step
  <2> QED  BY <2>1, <2>2, <2>3, PruneDueFrame
<1>5. ASSUME NEW p \in Procs, Rename(p) PROVE PruneDue'
  <2>1. CASE Forget(p, "prune")
    <3>1. pc'[p] = "prune"  BY <2>1 DEF Forget, Goto, Typed
    <3> QED  BY <3>1 DEF PruneDue
  <2>2. CASE UNCHANGED cache /\ Return(p)
    <3>1. crashes' = crashes /\ pc[p] = "rename"  BY <1>5 DEF Rename, At
    <3>2. \A q \in Procs \ {p} : pc'[q] = pc[q] /\ todo'[q] = todo[q]
      BY <2>2 DEF Return, Forget, Goto, Typed
    <3> QED  BY <2>2, <3>1, <3>2, PruneDueFrame
  <2> QED  BY <1>5, <2>1, <2>2 DEF Rename
<1>6. ASSUME NEW p \in Procs, prune(p) PROVE PruneDue'
  <2>1. PICK victims \in SUBSET Entries :
          /\ Cardinality(victims) = IF Cardinality(Entries) > MaxEntries
                                    THEN Cardinality(Entries) - MaxEntries ELSE 0
          /\ todo' = [todo EXCEPT ![p] = victims]
    BY <1>6 DEF prune
  <2>2. Cardinality(Entries \ victims) <= MaxEntries  BY <2>1, ListingBounds
  <2>3. Entries' = Entries  BY <1>6 DEF prune, Entries
  <2>4. pc'[p] = "remove" /\ todo'[p] = victims  BY <1>6, <2>1 DEF prune, Goto, Typed
  <2> QED  BY <2>2, <2>3, <2>4 DEF PruneDue
<1>7. ASSUME NEW p \in Procs, Remove(p) PROVE PruneDue'
  <2>1. pc[p] = "remove" /\ todo[p] \subseteq Keys /\ crashes' = crashes
    BY <1>7 DEF Remove, At, Local, Holds
  <2>2. ASSUME NEW k \in todo[p], cache' = [cache EXCEPT ![k] = None],
               todo' = [todo EXCEPT ![p] = @ \ {k}], UNCHANGED <<pc, key, got, touched>>
        PROVE  PruneDue'
    <3>1. Entries' = Entries \ {k}
      <4>1. \A j \in Keys : cache'[j] = IF j = k THEN None ELSE cache[j]
        BY <2>1, <2>2 DEF Typed
      <4> QED  BY <4>1 DEF Entries
    <3>2. Entries' \ todo'[p] \subseteq Entries \ todo[p]
      BY <2>2, <3>1 DEF Typed
    <3>3. \A q \in Procs \ {p} : todo'[q] = todo[q]  BY <2>2 DEF Typed
    <3>4. \A q \in Procs : Entries' \ todo'[q] \subseteq Entries \ todo[q]
      BY <3>1, <3>2, <3>3
    <3>5. \A q \in Procs : /\ Cardinality(Entries' \ todo'[q]) \in Nat
                           /\ Cardinality(Entries \ todo[q]) \in Nat
                           /\ Cardinality(Entries' \ todo'[q]) <= Cardinality(Entries \ todo[q])
      <4>1. \A q \in Procs : IsFiniteSet(Entries \ todo[q])  BY EntriesFinite
      <4>2. \A q \in Procs : /\ IsFiniteSet(Entries' \ todo'[q])
                             /\ Cardinality(Entries' \ todo'[q]) <= Cardinality(Entries \ todo[q])
        BY <3>4, <4>1, FS_Subset
      <4> QED  BY <4>1, <4>2, FS_CardinalityType
    <3>6. /\ Cardinality(Entries') \in Nat /\ Cardinality(Entries) \in Nat
          /\ Cardinality(Entries') <= Cardinality(Entries)
      <4>1. Entries' \in SUBSET Entries  BY <3>1
      <4> QED  BY <4>1, EntriesFinite
    <3>7. MaxEntries \in Nat  BY CacheAssumption
    <3>8. Cardinality(Entries) <= MaxEntries => Cardinality(Entries') <= MaxEntries
      BY <3>6, <3>7
    <3>9. \A q \in Procs : Cardinality(Entries \ todo[q]) <= MaxEntries =>
                             Cardinality(Entries' \ todo'[q]) <= MaxEntries
      BY <3>5, <3>7
    <3>10. PruneDue' <=> (crashes' = 0 =>
              \/ \E q \in Procs : pc'[q] = "prune"
              \/ Cardinality(Entries') <= MaxEntries
              \/ \E q \in Procs : pc'[q] = "remove" /\ Cardinality(Entries' \ todo'[q]) <= MaxEntries)
      BY DEF PruneDue
    <3> QED  BY <2>1, <2>2, <3>8, <3>9, <3>10 DEF PruneDue
  <2>3. CASE todo[p] = {} /\ UNCHANGED cache /\ Return(p)
    <3>1. Entries' = Entries /\ Entries \ todo[p] = Entries  BY <2>3 DEF Entries
    <3>2. \A q \in Procs \ {p} : pc'[q] = pc[q] /\ todo'[q] = todo[q]
      BY <2>3 DEF Return, Forget, Goto, Typed
    <3> QED  BY <2>1, <3>1, <3>2 DEF PruneDue
  <2> QED  BY <1>7, <2>2, <2>3 DEF Remove
<1> QED  BY <1>1, <1>2, <1>3, <1>4, <1>5, <1>6, <1>7 DEF Next

-----------------------------------------------------------------------------
LEMMA Start == Init => IInv
<1> SUFFICES ASSUME Init PROVE IInv  OBVIOUS
<1>1. Typed  BY CacheAssumption DEF Init, Typed, Labels
<1>2. \A p \in Procs : Holds(p) /\ Agrees(p)  BY DEF Init, Holds, Agrees
<1>3. Stored  BY DEF Init, Stored
<1>4. PruneDue
  <2>1. Entries = {}  BY DEF Init, Entries
  <2> QED  BY <2>1, FS_EmptySet, CacheAssumption DEF PruneDue
<1> QED  BY <1>1, <1>2, <1>3, <1>4 DEF IInv

LEMMA Invariant == Spec => []IInv
<1>1. IInv /\ [Next]_vars => IInv'
  BY StepKept, PruneDueStep DEF IInv, Kept, Local
<1> QED  BY Start, <1>1, PTL DEF Spec

\* "a concurrent run sees a whole entry or none" (the comment on store): no
\* file under an entry's name is ever partly written, however many compilers
\* store the same key and wherever they die.
THEOREM WholeEntriesTheorem == Spec => []WholeEntries
<1>1. IInv => WholeEntries
  <2> SUFFICES ASSUME IInv PROVE WholeEntries  OBVIOUS
  <2>1. TypeOK  BY DEF IInv, Typed, TypeOK, Holds, Making, At
  <2>2. \A k \in Keys : cache[k] # Torn  BY EntryFacts DEF IInv, Stored
  <2> QED  BY <2>1, <2>2 DEF WholeEntries
<1> QED  BY <1>1, Invariant, PTL

\* load only takes an entry whose inputs all have their digests: when nobody
\* edits during the check, nor did while the entry was made, what runs is the
\* program on disk.
THEOREM QuietHitTheorem == Spec => []QuietHit
<1>1. IInv => QuietHit
  <2> SUFFICES ASSUME IInv, NEW p \in Procs, pc[p] = "hit", ~touched[p], ~got[p].edited
               PROVE  got[p].archive = fs
    BY DEF QuietHit, At
  <2>1. got[p] \in Entry /\ Honest(got[p]) /\ todo[p] = {}  BY DEF IInv, Holds
  <2>2. \A f \in Files : fs[f] = got[p].deps[f]  BY <2>1 DEF IInv, Agrees
  <2>3. got[p].deps = fs  BY <2>1, <2>2 DEF IInv, Typed, Snapshot, Entry
  <2> QED  BY <2>1, <2>3 DEF Honest
<1> QED  BY <1>1, Invariant, PTL

\* prune keeps MAX_ENTRIES: as long as no compiler dies, once all of them
\* have returned there are no more, however their prunes overlap.
THEOREM PruneBoundsTheorem == Spec => []PruneBounds
<1>1. IInv => PruneBounds  BY DEF IInv, PruneDue, PruneBounds, At
<1> QED  BY <1>1, Invariant, PTL
=============================================================================
