----------------------------- MODULE BuildCache ----------------------------
(***************************************************************************)
(* The build cache (src/build_cache.rs), as `coil FILE` uses it (main.rs): *)
(* key, load, and on a miss compile and store.  Several compilers share    *)
(* the directory, a user edits the sources under them, and a compiler may  *)
(* die at any step.                                                        *)
(*                                                                         *)
(* A file is a name with a content; a directory listing, and a file that   *)
(* is not there, are contents like any other.  A digest is the content, an *)
(* archive is the contents its compile read, and a key is the content of   *)
(* the entry file: the rest of the key (path, options, environment,        *)
(* compiler build) is the same for all the compilers here.  Every read,    *)
(* write, rename and remove of a file is a step.                           *)
(***************************************************************************)
EXTENDS Naturals, FiniteSets

CONSTANTS Procs,        \* compilers (process ids)
          EntryFile,    \* the file that is compiled
          Mods,         \* what else its compile reads
          Contents,
          None, Torn,   \* no file, and a file that is partly written
          MaxEntries,   \* entries kept (MAX_ENTRIES)
          MaxEdits,     \* bound: edits of the user
          MaxCrashes    \* bound: compilers that die

Files == {EntryFile} \cup Mods
Keys == Contents
Snapshot == [Files -> Contents]
Partial == UNION {[S -> Contents] : S \in SUBSET Files}
\* an entry's inputs with their digests, its archive, and (no part of the
\* file) whether an input was edited while it was made
Entry == [deps : Snapshot, archive : Snapshot, edited : BOOLEAN]

ASSUME CacheAssumption ==
  /\ Procs # {} /\ IsFiniteSet(Procs) /\ IsFiniteSet(Mods) /\ EntryFile \notin Mods
  /\ Contents # {} /\ IsFiniteSet(Contents)
  /\ None \notin Contents \cup Entry /\ Torn \notin Entry /\ None # Torn
  /\ MaxEntries \in Nat /\ MaxEdits \in Nat /\ MaxCrashes \in Nat

VARIABLES
  fs,        \* the sources
  cache,     \* key -> the file <key>.ccoil
  tmp,       \* process -> its file <key>.<pid>.tmp
  pc,        \* process -> its next step
  key,       \* process -> the key of its compile
  todo,      \* process -> inputs left to check, or entries left to remove
  got,       \* process -> the entry it loaded, or makes
  touched,   \* process -> a source was edited since it began this phase
  edits, crashes

vars == <<fs, cache, tmp, pc, key, todo, got, touched, edits, crashes>>

Init ==
  /\ fs \in Snapshot
  /\ cache = [k \in Keys |-> None]
  /\ tmp = [p \in Procs |-> None]
  /\ pc = [p \in Procs |-> "idle"]
  /\ key = [p \in Procs |-> None]
  /\ todo = [p \in Procs |-> {}]
  /\ got = [p \in Procs |-> None]
  /\ touched = [p \in Procs |-> FALSE]
  /\ edits = 0 /\ crashes = 0

\* the entry file comes first: the others are found through it
Following(done) == IF EntryFile \in done THEN Files \ done ELSE {EntryFile}

\* what was read so far, and one file more
Read(g, f) == [x \in DOMAIN g \cup {f} |-> IF x = f THEN fs[f] ELSE g[x]]

Goto(p, l) == pc' = [pc EXCEPT ![p] = l]
At(p, l) == pc[p] = l
Entries == {k \in Keys : cache[k] # None}

\* on to a step that needs nothing of what the process holds
Forget(p, l) ==
  /\ Goto(p, l)
  /\ key' = [key EXCEPT ![p] = None]
  /\ todo' = [todo EXCEPT ![p] = {}]
  /\ got' = [got EXCEPT ![p] = None]
  /\ touched' = [touched EXCEPT ![p] = FALSE]
Return(p) == Forget(p, "idle")

(***************************************************************************)
(* A compile: the key, then the entry if its inputs are unchanged.         *)
(***************************************************************************)
KeyOf(p) ==
  /\ At(p, "idle")
  /\ key' = [key EXCEPT ![p] = fs[EntryFile]]
  /\ touched' = [touched EXCEPT ![p] = FALSE]
  /\ Goto(p, "load")
  /\ UNCHANGED <<fs, cache, tmp, todo, got, edits, crashes>>

\* what a miss goes on with
StartCompile(p) ==
  /\ Goto(p, "compile")
  /\ todo' = [todo EXCEPT ![p] = {}]
  /\ got' = [got EXCEPT ![p] = [deps |-> <<>>, archive |-> <<>>, edited |-> FALSE]]
  /\ touched' = [touched EXCEPT ![p] = FALSE]
  /\ UNCHANGED <<fs, cache, tmp, key, edits, crashes>>

\* the read of the entry; one that is not there or does not decode is a miss.
\* A file torn inside its archive would decode; WholeEntries says that there is
\* none.
load(p) ==
  LET e == cache[key[p]]
  IN /\ At(p, "load")
     /\ IF e \in {None, Torn} THEN StartCompile(p)
        ELSE /\ Goto(p, "check")
             /\ got' = [got EXCEPT ![p] = e]
             /\ todo' = [todo EXCEPT ![p] = Files]
             /\ UNCHANGED <<fs, cache, tmp, key, touched, edits, crashes>>

\* one input is digested and compared per step
CheckModules(p) == /\ At(p, "check") /\ todo' = [todo EXCEPT ![p] = {}] /\ Goto(p, "hit") /\ (fs[EntryFile] = got[p].deps[EntryFile]) /\ UNCHANGED <<fs, cache, tmp, key, got, touched, edits, crashes>>  \* mutant

CheckInput(p) ==
  /\ At(p, "check")
  /\ \E f \in Following(Files \ todo[p]) :
       IF fs[f] # got[p].deps[f] THEN StartCompile(p)
       ELSE /\ todo' = [todo EXCEPT ![p] = @ \ {f}]
            /\ Goto(p, IF todo[p] = {f} THEN "hit" ELSE "check")
            /\ UNCHANGED <<fs, cache, tmp, key, got, touched, edits, crashes>>

\* the archive runs; the entry's time of use is not modelled
Hit(p) == At(p, "hit") /\ Return(p) /\ UNCHANGED <<fs, cache, tmp, edits, crashes>>

(***************************************************************************)
(* The compile reads its inputs one by one, the entry file again.  What    *)
(* reported a diagnostic is not stored.                                    *)
(***************************************************************************)
Compile(p) ==
  /\ At(p, "compile")
  /\ \E f \in Following(DOMAIN got[p].archive) :
       /\ got' = [got EXCEPT ![p].archive = Read(@, f)]
       /\ Goto(p, IF Files \ DOMAIN got[p].archive = {f} THEN "store" ELSE "compile")
  /\ UNCHANGED <<fs, cache, tmp, key, todo, touched, edits, crashes>>

Diagnostic(p) ==
  At(p, "store") /\ DOMAIN got[p].deps = {} /\ Return(p) /\ UNCHANGED <<fs, cache, tmp, edits, crashes>>

(***************************************************************************)
(* store: digest the inputs as they are now, write the temporary file,     *)
(* rename it, prune.  A write or a rename that fails ends it.              *)
(***************************************************************************)

DigestInput(p) ==
  /\ At(p, "store")
  /\ \E f \in Following(DOMAIN got[p].deps) :
       /\ got' = [got EXCEPT ![p] = [deps |-> Read(@.deps, f), archive |-> @.archive, edited |-> touched[p]]]
       /\ LET last == Files \ DOMAIN got[p].deps = {f}
          IN /\ Goto(p, IF last THEN "write" ELSE "store")
             /\ touched' = [touched EXCEPT ![p] = @ /\ ~last]
  /\ UNCHANGED <<fs, cache, tmp, key, todo, edits, crashes>>

\* a temporary file that is left behind stays on disk, but no step reads it
Litter(p) == tmp' = [tmp EXCEPT ![p] = None]

WriteInPlace(p) == pc[p] \in {"write", "writing"} /\ cache' = [cache EXCEPT ![key[p]] = IF At(p, "write") THEN Torn ELSE got[p]] /\ Goto(p, IF At(p, "write") THEN "writing" ELSE "prune") /\ UNCHANGED <<fs, tmp, key, todo, got, touched, edits, crashes>>  \* mutant

WriteTmp(p) ==
  /\ \/ /\ At(p, "write")
        /\ tmp' = [tmp EXCEPT ![p] = Torn]
        /\ Goto(p, "writing")
        /\ UNCHANGED <<key, todo, got, touched>>
     \/ /\ At(p, "writing")
        /\ tmp' = [tmp EXCEPT ![p] = got[p]]
        /\ Goto(p, "rename")
        /\ UNCHANGED <<key, todo, got, touched>>
     \/ At(p, "writing") /\ Return(p) /\ Litter(p)
  /\ UNCHANGED <<fs, cache, edits, crashes>>

Rename(p) ==
  /\ At(p, "rename")
  /\ tmp' = [tmp EXCEPT ![p] = None]
  /\ \/ /\ cache' = [cache EXCEPT ![key[p]] = tmp[p]]
        /\ Forget(p, "prune")
     \/ UNCHANGED cache /\ Return(p)
  /\ UNCHANGED <<fs, edits, crashes>>

\* the listing, then one removal per step.  Which entries were used least
\* recently is not modelled: any may be.  Nor are a read_dir or a remove_file
\* that fails: the code ignores both, and the surplus stays until a later prune.
PruneOff(p) == /\ At(p, "prune") /\ (\E victims \in SUBSET Entries : /\ Cardinality(victims) = (IF Cardinality(Entries) > MaxEntries + 1 THEN Cardinality(Entries) - MaxEntries ELSE 0) /\ todo' = [todo EXCEPT ![p] = victims]) /\ Goto(p, "remove") /\ UNCHANGED <<fs, cache, tmp, key, got, touched, edits, crashes>>  \* mutant

prune(p) ==
  /\ At(p, "prune")
  /\ \E victims \in SUBSET Entries :
       /\ Cardinality(victims) = IF Cardinality(Entries) > MaxEntries THEN Cardinality(Entries) - MaxEntries ELSE 0
       /\ todo' = [todo EXCEPT ![p] = victims]
  /\ Goto(p, "remove")
  /\ UNCHANGED <<fs, cache, tmp, key, got, touched, edits, crashes>>

Remove(p) ==
  /\ At(p, "remove")
  /\ \/ /\ \E k \in todo[p] : /\ cache' = [cache EXCEPT ![k] = None]
                              /\ todo' = [todo EXCEPT ![p] = @ \ {k}]
        /\ UNCHANGED <<pc, key, got, touched>>
     \/ todo[p] = {} /\ UNCHANGED cache /\ Return(p)
  /\ UNCHANGED <<fs, tmp, edits, crashes>>

(***************************************************************************)
(* The user, and a compiler that dies.                                     *)
(***************************************************************************)
Edit ==
  /\ edits < MaxEdits
  /\ \E f \in Files, c \in Contents : fs[f] # c /\ fs' = [fs EXCEPT ![f] = c]
  /\ touched' = [p \in Procs |-> pc[p] \in {"load", "check", "hit", "compile", "store"}]
  /\ edits' = edits + 1
  /\ UNCHANGED <<cache, tmp, pc, key, todo, got, crashes>>

Crash(p) ==
  /\ crashes < MaxCrashes /\ ~At(p, "idle")
  /\ Return(p) /\ Litter(p)
  /\ crashes' = crashes + 1
  /\ UNCHANGED <<fs, cache, edits>>

Step(p) ==
  \/ KeyOf(p) \/ load(p) \/ CheckInput(p) \/ Hit(p)
  \/ Compile(p) \/ Diagnostic(p)
  \/ DigestInput(p) \/ WriteTmp(p) \/ Rename(p) \/ prune(p) \/ Remove(p)

Next == Edit \/ \E p \in Procs : Step(p) \/ Crash(p)

Spec == Init /\ [][Next]_vars
-----------------------------------------------------------------------------
TypeOK ==
  /\ fs \in Snapshot
  /\ cache \in [Keys -> Entry \cup {None, Torn}]
  /\ tmp \in [Procs -> Entry \cup {None, Torn}]
  /\ key \in [Procs -> Keys \cup {None}]
  /\ \A p \in Procs : got[p] \in [deps : Partial, archive : Partial, edited : BOOLEAN] \cup {None}
  /\ \A p \in Procs : todo[p] \subseteq (IF At(p, "remove") THEN Keys ELSE Files)
  /\ touched \in [Procs -> BOOLEAN]
  /\ edits \in 0..MaxEdits /\ crashes \in 0..MaxCrashes

(***************************************************************************)
(* "a concurrent run sees a whole entry or none": no file under an entry's *)
(* name is partly written, whatever compilers write it at the same time    *)
(* and wherever one dies.                                                  *)
(***************************************************************************)
WholeEntries == TypeOK /\ \A k \in Keys : cache[k] # Torn

(***************************************************************************)
(* An archive that runs from the cache is the program on disk, as long as  *)
(* nobody edits while the cache is asked or while the entry was made.      *)
(***************************************************************************)
QuietHit ==
  \A p \in Procs : At(p, "hit") /\ ~touched[p] /\ ~got[p].edited => got[p].archive = fs

(***************************************************************************)
(* At most MaxEntries entries are left once every compiler has returned,   *)
(* if none ever died (one that dies after its rename never prunes): two    *)
(* prunes at once, each with its own listing, leave no more.  The prunes   *)
(* of the model can list the directory and remove what they listed.        *)
(***************************************************************************)
PruneBounds ==
  crashes = 0 /\ (\A p \in Procs : At(p, "idle")) => Cardinality(Entries) <= MaxEntries
=============================================================================
