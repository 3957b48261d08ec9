----------------------- MODULE TaskScheduler_proofs ------------------------
(***************************************************************************)
(* Proofs about TaskScheduler, for every number of tasks and scopes.       *)
(* First the inductive invariant behind structured concurrency: no task    *)
(* outlives its scope, the counters are exact, only finished tasks are     *)
(* forgotten.  Then every step is put in one of sixteen kinds, by what it  *)
(* does to the records, and each kind is shown to keep the run queue       *)
(* exact, every wait known to what ends it, a failed scope's children      *)
(* stopped, cancellation in order and a panic's message with its task.     *)
(***************************************************************************)
EXTENDS TaskScheduler, FiniteSetTheorems, SequenceTheorems, TLAPS

-----------------------------------------------------------------------------
(* Types.  The counters are only known to be integers here; that they never *)
(* go below zero needs CountersExact.                                       *)
ScopeRecZ == [owner: TaskId, unfinished: Int, closed: BOOLEAN, failed: Msg,
              framed: BOOLEAN]
Typed ==
    /\ sched \in BOOLEAN /\ tasks \subseteq TaskId /\ rec \in [TaskId -> TaskRec]
    /\ scopes \subseteq ScopeId /\ sc \in [ScopeId -> ScopeRecZ]
    /\ runQueue \in Seq(TaskId) /\ current \in TaskId /\ live \in Int
    /\ nextTask \in 1..(MaxTasks + 1) /\ nextScope \in 1..(MaxScopes + 1)
    /\ panicMsg \in Msg /\ unwinding \subseteq TaskId /\ raised \subseteq TaskId
    /\ at \in {"user", "notify", "pick", "run", "end", "wait", "halted"}
    /\ subj \in Nat \cup {NoTask} /\ cancels \subseteq TaskId
    /\ fin \in FinRec /\ ret \in Wake

\* Where the VM thread is, and what it may rely on there.
FinOK ==
    \/ fin = NoFin
    \/ /\ fin.id \in tasks \ {ROOT} /\ fin.state \in FinishedStates
       /\ \/ /\ fin.step = "state"
             /\ rec[fin.id].state = "Ending" \/ ~rec[fin.id].started
             /\ rec[fin.id].state \notin FinishedStates
             /\ OwnedChildrenFinished(fin.id)
          \/ fin.step = "wake" /\ rec[fin.id].state \in FinishedStates
AtOK ==
    /\ at \in {"user", "notify"} =>
         /\ current \in tasks /\ rec[current].state = "Running"
         /\ current # ROOT => rec[current].started
    /\ at = "run" =>
         /\ subj \in tasks \ {ROOT} /\ rec[subj].state = "Ready"
         /\ subj \notin cancels /\ fin.id # subj
    /\ at = "end" => subj \in TaskId \ {ROOT}
RecOK ==
    /\ ROOT \in tasks /\ rec[ROOT].state \in {"Ready", "Running", "Blocked"}
    /\ \A t \in tasks : rec[t].state = "Ending" <=> rec[t].ending # "none"
    /\ \A t \in tasks \ {ROOT} : ~rec[t].started => ScopesOwnedBy(t) = {}
    /\ \A t \in tasks : t < nextTask
    /\ \A s \in scopes : s < nextScope
\* A scope whose failure its owner is about to read is closed and done.
DoneScope(s) == /\ s \in ScopeId /\ s < nextScope
                /\ s \in scopes => sc[s].closed /\ sc[s].unfinished = 0
WakeOK ==
    /\ ret.to = "scopeError" => DoneScope(ret.id)
    /\ \A t \in tasks : rec[t].wake.to = "scopeError" => DoneScope(rec[t].wake.id)
Control == FinOK /\ AtOK /\ RecOK /\ WakeOK

\* The tree of tasks and scopes: a task is spawned after its scope's owner.
Tree == /\ Structured
        /\ \A t \in tasks \ {ROOT} : sc[rec[t].scope].owner < t

\* The tasks the counters count.
Open(s) == {t \in Children(s) : ~Finished(t)}
OpenTasks == {t \in tasks \ {ROOT} : ~Finished(t)}

\* A scope that does not exist counts nothing.
Blank == \A s \in ScopeId \ scopes : sc[s].unfinished = 0

\* The inductive invariant
IInv == Typed /\ Control /\ Tree /\ CountersExact /\ Blank

\* The root's id is a task id, and the "no task" marker is none.
LEMMA RootIsTask == ROOT \in TaskId /\ NoTask \notin TaskId
  BY ConstantsAssumption DEF ROOT, TaskId, NoTask

\* Records built by the helpers are task records.
LEMMA RecTypes ==
         /\ \A s \in 0..MaxScopes : NewRec(s) \in TaskRec
         /\ \A t \in TaskId : BlankRec(t) \in TaskRec
         /\ \A r \in TaskRec, w \in Wake : Readied(r, w) \in TaskRec
         /\ \A r \in TaskRec, b \in Block, h \in BOOLEAN : SuspendRec(r, b, h) \in TaskRec
         /\ \A r \in TaskRec, st \in FinishedStates, m \in Msg : EndRec(r, st, m) \in TaskRec
<1>1. \A s \in 0..MaxScopes, st \in TaskState : FreshRec(s, st) \in TaskRec
  BY ConstantsAssumption DEF FreshRec, TaskRec, TaskState, NoBlock, NoWake, Block, Wake, BlockOn, WakeTo, Msg, NoMsg
<1>2. /\ \A s \in 0..MaxScopes : NewRec(s) \in TaskRec
      /\ \A t \in TaskId : BlankRec(t) \in TaskRec
  BY ConstantsAssumption, <1>1 DEF BlankRec, NewRec, RootRec, TaskState
<1>3. \A r \in TaskRec, w \in Wake : Readied(r, w) \in TaskRec
  BY DEF Readied, TaskRec, TaskState, NoBlock, Block, BlockOn
<1>4. ASSUME NEW r \in TaskRec, NEW b \in Block, NEW h \in BOOLEAN
      PROVE  SuspendRec(r, b, h) \in TaskRec
  <2> DEFINE w == WakeWith(IF h THEN "unit" ELSE "retry")
  <2>1. w \in Wake
    BY DEF WakeWith, Wake, WakeTo
  <2> HIDE DEF w
  <2>2. [r EXCEPT !.state = "Ready", !.block = NoBlock, !.slot = h, !.wake = w] \in TaskRec
    BY <2>1 DEF TaskRec, TaskState, NoBlock, Block, BlockOn
  <2>3. [r EXCEPT !.state = "Blocked", !.block = b, !.slot = h] \in TaskRec
    BY DEF TaskRec, TaskState
  <2> QED BY <2>2, <2>3 DEF SuspendRec, w
<1>5. \A r \in TaskRec, st \in FinishedStates, m \in Msg : EndRec(r, st, m) \in TaskRec
  BY ZenonT(40) DEF EndRec, TaskRec, TaskState, FinishedStates, NoWake, Wake, WakeTo
<1> QED BY <1>1, <1>2, <1>3, <1>4, <1>5

\* Single fields keep their types under update.
LEMMA FieldTypes ==
  /\ \A r \in TaskRec : r.shield \in Nat /\ r.joiners \in SUBSET TaskId
  /\ \A r \in TaskRec, n \in Nat : Shielded(r, n) \in TaskRec
  /\ \A r \in TaskRec, J \in SUBSET TaskId : JoinedBy(r, J) \in TaskRec
  /\ \A f \in ScopeRecZ : f.unfinished \in Int
  /\ \A f \in ScopeRecZ, n \in Int : Counted(f, n) \in ScopeRecZ
<1>1. \A r \in TaskRec : r.shield \in Nat /\ r.joiners \in SUBSET TaskId
  BY DEF TaskRec
<1>2. \A r \in TaskRec, n \in Nat : Shielded(r, n) \in TaskRec
  BY DEF TaskRec, Shielded
<1>3. \A r \in TaskRec, J \in SUBSET TaskId : JoinedBy(r, J) \in TaskRec
  BY DEF TaskRec, JoinedBy
<1>4. /\ \A f \in ScopeRecZ : f.unfinished \in Int
      /\ \A f \in ScopeRecZ, n \in Int : Counted(f, n) \in ScopeRecZ
  BY DEF ScopeRecZ, Counted
<1> QED BY <1>1, <1>2, <1>3, <1>4

\* Wait and wake values the actions use.
LEMMA ValueTypes ==
  /\ NoBlock \in Block /\ NoWake \in Wake
  /\ \A k \in BlockOn, i \in Nat : WaitFor(k, i) \in Block
  /\ \A k \in WakeTo : WakeWith(k) \in Wake
  /\ \A t \in TaskId : WaitFor("join", t) \in Block
  /\ \A s \in ScopeId : WaitFor("scope", s) \in Block
  /\ NoFin \in FinRec
  /\ \A t \in TaskId, st \in FinishedStates : Finalize(t, st) \in FinRec
  BY ConstantsAssumption
  DEF NoBlock, Block, BlockOn, NoWake, Wake, WakeTo, WaitFor, WakeWith, TaskId, ScopeId,
      NoFin, FinRec, Finalize, NoTask

\* Functions built by the helpers keep their types.
LEMMA FunctionTypes ==
  ASSUME Typed, NEW S \in SUBSET ScopeId
  PROVE  /\ \A r \in [TaskId -> TaskRec] : Forget(S, r) \in [TaskId -> TaskRec]
         /\ \A f \in [ScopeId -> ScopeRecZ] : ForgetScopes(S, f) \in [ScopeId -> ScopeRecZ]
         /\ \A f \in [ScopeId -> ScopeRecZ], t \in TaskId :
              Unframed(f, t) \in [ScopeId -> ScopeRecZ]
         /\ \A t \in TaskId, m \in Msg :
              [s \in ScopeId |-> IF s \in scopes THEN EndScope(s, t, m) ELSE sc[s]]
                \in [ScopeId -> ScopeRecZ]
<1>1. BlankScope \in ScopeRecZ
  BY RootIsTask DEF BlankScope, ScopeRecZ, Msg
<1>2. \A r \in [TaskId -> TaskRec] : Forget(S, r) \in [TaskId -> TaskRec]
  BY RecTypes DEF Forget
<1>3. \A f \in [ScopeId -> ScopeRecZ] : ForgetScopes(S, f) \in [ScopeId -> ScopeRecZ]
  BY <1>1 DEF ForgetScopes
<1>4. \A r \in ScopeRecZ : [r EXCEPT !.framed = FALSE] \in ScopeRecZ
  BY DEF ScopeRecZ
<1>5. \A f \in [ScopeId -> ScopeRecZ], t \in TaskId : Unframed(f, t) \in [ScopeId -> ScopeRecZ]
  BY <1>4 DEF Unframed
<1>6. ASSUME NEW t \in TaskId, NEW m \in Msg, NEW s \in ScopeId
      PROVE  EndScope(s, t, m) \in ScopeRecZ
  <2>1. sc[s] \in ScopeRecZ
    BY DEF Typed
  <2> QED BY <2>1 DEF EndScope, ScopeRecZ
<1>7. \A t \in TaskId, m \in Msg :
        [s \in ScopeId |-> IF s \in scopes THEN EndScope(s, t, m) ELSE sc[s]]
          \in [ScopeId -> ScopeRecZ]
  BY <1>6 DEF Typed
<1> QED BY <1>2, <1>3, <1>5, <1>7

\* The initial state is well typed.
LEMMA TypedInit == Init => Typed
<1> SUFFICES ASSUME Init PROVE Typed
  OBVIOUS
<1>1. rec \in [TaskId -> TaskRec]
  BY RecTypes DEF Init
<1>2. BlankScope \in ScopeRecZ
  BY RootIsTask DEF BlankScope, ScopeRecZ, Msg
<1>3. sc \in [ScopeId -> ScopeRecZ]
  BY <1>2 DEF Init
<1>4. runQueue \in Seq(TaskId)
  BY DEF Init
<1>5. nextTask \in 1..(MaxTasks + 1) /\ nextScope \in 1..(MaxScopes + 1)
  BY ConstantsAssumption DEF Init
<1>6. /\ sched \in BOOLEAN /\ tasks \subseteq TaskId /\ scopes \subseteq ScopeId
      /\ current \in TaskId /\ live = 0 /\ panicMsg \in Msg
      /\ unwinding \subseteq TaskId /\ raised \subseteq TaskId /\ at = "user"
      /\ subj = NoTask /\ cancels \subseteq TaskId
  BY RootIsTask, Zenon DEF Init, Msg
<1>7. fin \in FinRec /\ ret \in Wake
  BY ValueTypes DEF Init
<1> QED BY <1>1, <1>3, <1>4, <1>5, <1>6, <1>7 DEF Typed

\* The queue operations keep a sequence of task ids.
LEMMA QueueTypes ==
  ASSUME NEW q \in Seq(TaskId), NEW t \in TaskId
  PROVE  /\ Append(q, t) \in Seq(TaskId)
         /\ <<t>> \o q \in Seq(TaskId)
         /\ Without(q, t) \in Seq(TaskId)
         /\ q # <<>> => Tail(q) \in Seq(TaskId) /\ Head(q) \in TaskId
<1>1. ASSUME Positions(q, t) # {}
      PROVE  Without(q, t) \in Seq(TaskId)
  <2> DEFINE i == CHOOSE k \in Positions(q, t) : TRUE
  <2>0. i \in Positions(q, t)
    BY <1>1
  <2>1. i \in 1..Len(q)
    BY <2>0 DEF Positions
  <2> HIDE DEF i
  <2>2. SubSeq(q, 1, i - 1) \in Seq(TaskId) /\ SubSeq(q, i + 1, Len(q)) \in Seq(TaskId)
    BY <2>1
  <2> QED BY <1>1, <2>2 DEF Without, i
<1> QED BY <1>1 DEF Without

\* What task_suspend_at does to the record and the queue is well typed.
LEMMA SuspendTypes ==
  ASSUME Typed, NEW b \in Block, NEW h \in BOOLEAN, Suspend(b, h)
  PROVE  rec' \in [TaskId -> TaskRec] /\ runQueue' \in Seq(TaskId) /\ at' = "pick"
  BY RecTypes, QueueTypes DEF Typed, Suspend, SuspendQueue

\* Removing a scope (Scheduler::remove_scope) keeps the types.
LEMMA RemoveScopeTypes ==
  ASSUME Typed, NEW s \in ScopeId, RemoveScope(s)
  PROVE  /\ rec' \in [TaskId -> TaskRec] /\ sc' \in [ScopeId -> ScopeRecZ]
         /\ tasks' \subseteq TaskId /\ scopes' \subseteq ScopeId
         /\ runQueue' \in Seq(TaskId) /\ sched' \in BOOLEAN /\ raised' \subseteq TaskId
         /\ nextTask' \in 1..(MaxTasks + 1) /\ nextScope' \in 1..(MaxScopes + 1)
<1>1. BlankScope \in ScopeRecZ
  BY RootIsTask DEF BlankScope, ScopeRecZ, Msg
<1>2. CASE live = 0 /\ scopes \subseteq {s} /\ current = ROOT
  <2>1. /\ sched' = FALSE /\ tasks' = {ROOT} /\ scopes' = {} /\ runQueue' = <<>>
        /\ nextTask' = 1 /\ nextScope' = 1 /\ raised' = {}
    BY <1>2, Zenon DEF RemoveScope
  <2>2. rec' = [t \in TaskId |-> BlankRec(t)] /\ sc' = [r \in ScopeId |-> BlankScope]
    BY <1>2, Zenon DEF RemoveScope
  <2>3. rec' \in [TaskId -> TaskRec] /\ sc' \in [ScopeId -> ScopeRecZ]
    BY <2>2, <1>1, RecTypes
  <2>4. /\ sched' \in BOOLEAN /\ tasks' \subseteq TaskId /\ scopes' \subseteq ScopeId
        /\ raised' \subseteq TaskId
    BY <2>1, RootIsTask, Zenon
  <2>5. /\ runQueue' \in Seq(TaskId)
        /\ nextTask' \in 1..(MaxTasks + 1) /\ nextScope' \in 1..(MaxScopes + 1)
    BY <2>1, ConstantsAssumption
  <2> QED BY <2>3, <2>4, <2>5, Zenon
<1>3. CASE ~(live = 0 /\ scopes \subseteq {s} /\ current = ROOT)
  <2>1. /\ scopes' = scopes \ {s} /\ tasks' = tasks \ Children(s)
        /\ rec' = Forget({s}, rec) /\ sc' = ForgetScopes({s}, sc)
        /\ UNCHANGED <<sched, runQueue, nextTask, nextScope, raised>>
    BY <1>3, Zenon DEF RemoveScope
  <2>2. rec' \in [TaskId -> TaskRec] /\ sc' \in [ScopeId -> ScopeRecZ]
    BY <2>1, FunctionTypes DEF Typed
  <2> QED BY <2>1, <2>2 DEF Typed
<1> QED BY <1>2, <1>3

\* The first half of task_end keeps the types.
LEMMA TaskEndTypes ==
  ASSUME Typed, NEW t \in TaskId, NEW st \in FinishedStates, NEW m \in Msg, TaskEnd(t, st, m)
  PROVE  /\ rec' \in [TaskId -> TaskRec] /\ sc' \in [ScopeId -> ScopeRecZ]
         /\ cancels' \subseteq TaskId /\ at' = "end" /\ subj' = t
<1>1. rec' \in [TaskId -> TaskRec]
  BY RecTypes DEF TaskEnd, Typed
<1>2. sc' \in [ScopeId -> ScopeRecZ]
  BY FunctionTypes DEF TaskEnd
<1>3. cancels' \subseteq TaskId
  BY DEF TaskEnd, ChildrenOwnedBy, Siblings, Children, Typed
<1> QED BY <1>1, <1>2, <1>3 DEF TaskEnd

\* Every call user code makes keeps the types.
LEMMA TypedUser ==
  ASSUME Typed, Control, UserStep
  PROVE  Typed'
<1>1. CASE ScopeOpen
  <2>1. NewScope(current) \in ScopeRecZ
    BY DEF NewScope, ScopeRecZ, Msg, Typed
  <2>2. nextScope \in ScopeId /\ sc' \in [ScopeId -> ScopeRecZ]
    BY <1>1, <2>1 DEF ScopeOpen, ScopeId, Typed
  <2>3. sched' \in BOOLEAN
    BY <1>1, Zenon DEF ScopeOpen
  <2>4. nextScope' \in 1..(MaxScopes + 1)
    BY <1>1, ConstantsAssumption DEF ScopeOpen, Typed
  <2> QED BY <1>1, <2>2, <2>3, <2>4 DEF ScopeOpen, Typed
<1>2. ASSUME NEW s \in ScopeId, Spawn(s) PROVE Typed'
  <2>1. nextTask \in TaskId /\ nextTask' \in 1..(MaxTasks + 1)
    BY <1>2, ConstantsAssumption DEF Spawn, TaskId, Typed
  <2>2. rec' \in [TaskId -> TaskRec]
    <3>1. NewRec(s) \in TaskRec
      BY RecTypes, ConstantsAssumption DEF ScopeId
    <3> QED BY <1>2, <2>1, <3>1 DEF Spawn, Typed
  <2>3. sc' \in [ScopeId -> ScopeRecZ]
    <3>1. sc[s] \in ScopeRecZ /\ sc[s].unfinished + 1 \in Int
      BY SMTT(30), FieldTypes DEF Typed
    <3>2. Counted(sc[s], sc[s].unfinished + 1) \in ScopeRecZ
      BY <3>1, FieldTypes
    <3> QED BY <1>2, <3>2 DEF Spawn, Typed
  <2>4. runQueue' \in Seq(TaskId)
    BY <1>2, <2>1, QueueTypes DEF Spawn, Typed
  <2> QED BY <1>2, <2>1, <2>2, <2>3, <2>4 DEF Spawn, Typed
<1>3. ASSUME NEW s \in ScopeId, ScopeCloseDone(s) PROVE Typed'
  BY <1>3, RemoveScopeTypes DEF ScopeCloseDone, Typed
<1>4. ASSUME NEW s \in ScopeId, ScopeCloseFailed(s) PROVE Typed'
  <2>1. sc' \in [ScopeId -> ScopeRecZ]
    BY <1>4 DEF ScopeCloseFailed, Typed, ScopeRecZ
  <2>2. ret' \in Wake
    BY <1>4, ConstantsAssumption DEF ScopeCloseFailed, Wake, WakeTo, ScopeId
  <2> QED BY <1>4, <2>1, <2>2 DEF ScopeCloseFailed, Typed
<1>5. ASSUME NEW s \in ScopeId, ScopeCloseWait(s) PROVE Typed'
  <2>1. sc' \in [ScopeId -> ScopeRecZ]
    BY <1>5 DEF ScopeCloseWait, Typed, ScopeRecZ
  <2>2. rec' \in [TaskId -> TaskRec] /\ runQueue' \in Seq(TaskId) /\ at' = "pick"
    BY <1>5, ValueTypes, SuspendTypes DEF ScopeCloseWait
  <2> QED BY <1>5, <2>1, <2>2 DEF ScopeCloseWait, Typed
<1>6. CASE ScopeError
  <2>1. ret.id \in ScopeId
    BY <1>6 DEF ScopeError, Control, WakeOK, DoneScope
  <2> QED BY <1>6, <2>1, RemoveScopeTypes, ValueTypes DEF ScopeError, Typed
<1>7. ASSUME NEW h \in TaskId, Join(h) PROVE Typed'
  <2>1. rec' \in [TaskId -> TaskRec]
    <3>1. JoinedBy(rec[h], rec[h].joiners \cup {current}) \in TaskRec
      BY FieldTypes DEF Typed
    <3>2. SuspendRec(rec[current], WaitFor("join", h), TRUE) \in TaskRec
      BY RecTypes, ValueTypes DEF Typed
    <3> QED BY <1>7, <3>1, <3>2 DEF Join, Typed
  <2>2. runQueue' \in Seq(TaskId)
    BY <1>7, QueueTypes DEF Join, SuspendQueue, Typed
  <2> QED BY <1>7, <2>1, <2>2 DEF Join, Typed
<1>8. ASSUME NEW h \in TaskId, Cancel(h) PROVE Typed'
  BY <1>8 DEF Cancel, Typed, schedVars
<1>9. CASE Sleep
  BY <1>9, SuspendTypes, ValueTypes DEF Sleep, Unmoved, Typed, BlockOn
<1>10. CASE Retry
  BY <1>10, SuspendTypes, ValueTypes DEF Retry, Unmoved, Typed, BlockOn
<1>11. CASE Yield
  BY <1>11, SuspendTypes, ValueTypes DEF Yield, Unmoved, Typed
<1>12. ASSUME NEW c \in Conds, CondWait(c) PROVE Typed'
  <2>1. WaitFor("cond", c) \in Block
    BY ValueTypes, ConstantsAssumption DEF BlockOn
  <2> QED BY <1>12, <2>1, SuspendTypes DEF CondWait, Unmoved, Typed
<1>13. ASSUME NEW c \in Conds, CondNotify(c) PROVE Typed'
  BY <1>13, ConstantsAssumption DEF CondNotify, Typed, schedVars
<1>14. CASE CondWaitAlone
  BY <1>14, ValueTypes DEF CondWaitAlone, Typed, schedVars, ctlVars, WakeTo
<1>15. CASE ShieldEnter
  <2>1. rec' \in [TaskId -> TaskRec]
    <3>1. rec[current] \in TaskRec /\ rec[current].shield + 1 \in Nat
      BY FieldTypes DEF Typed
    <3>2. Shielded(rec[current], rec[current].shield + 1) \in TaskRec
      BY <3>1, FieldTypes
    <3> QED BY <1>15, <3>2 DEF ShieldEnter, Typed
  <2> QED BY <1>15, <2>1 DEF ShieldEnter, Typed, ctlVars
<1>16. CASE ShieldExit
  <2> DEFINE r == Shielded(rec[current], rec[current].shield - 1)
  <2>1. r \in TaskRec
    <3>1. rec[current] \in TaskRec /\ rec[current].shield > 0
      BY <1>16 DEF ShieldExit, Typed
    <3>2. rec[current].shield - 1 \in Nat
      BY <3>1, FieldTypes
    <3> QED BY <3>1, <3>2, FieldTypes
  <2>2. SuspendRec(r, NoBlock, TRUE) \in TaskRec
    BY <2>1, RecTypes, ValueTypes
  <2>3. SuspendQueue(r, NoBlock) \in Seq(TaskId)
    BY QueueTypes DEF SuspendQueue, Typed
  <2>4. rec' \in [TaskId -> TaskRec] /\ runQueue' \in Seq(TaskId) /\ at' \in {"pick", "user"}
    <3> HIDE DEF r
    <3>1. \/ rec' = [rec EXCEPT ![current] = r] /\ runQueue' = runQueue
          \/ /\ rec' = [rec EXCEPT ![current] = SuspendRec(r, NoBlock, TRUE)]
             /\ runQueue' = SuspendQueue(r, NoBlock)
      BY <1>16 DEF ShieldExit, r
    <3>2. at' \in {"pick", "user"}
      BY <1>16 DEF ShieldExit
    <3> QED BY <3>1, <3>2, <2>1, <2>2, <2>3 DEF Typed
  <2> QED BY <1>16, <2>4 DEF ShieldExit, Unmoved, Typed
<1>17. CASE Panic
  <2>1. sc' \in [ScopeId -> ScopeRecZ]
    BY <1>17, FunctionTypes DEF Panic, Typed
  <2>2. panicMsg' \in Msg
    BY <1>17 DEF Panic, Typed, Msg
  <2> QED BY <1>17, <2>1, <2>2, ValueTypes DEF Panic, Typed, ctlVars
<1>18. CASE Return
  <2>1. /\ rec' \in [TaskId -> TaskRec] /\ sc' \in [ScopeId -> ScopeRecZ]
        /\ cancels' \subseteq TaskId /\ at' = "end" /\ subj' = current
    BY <1>18, TaskEndTypes DEF Return, Typed, FinishedStates, Msg
  <2>2. subj' \in Nat
    BY <2>1, ConstantsAssumption DEF Typed, TaskId
  <2> QED BY <1>18, <2>1, <2>2 DEF Return, Typed
<1>19. CASE UnwindDone
  <2>1. /\ rec' \in [TaskId -> TaskRec] /\ sc' \in [ScopeId -> ScopeRecZ]
        /\ cancels' \subseteq TaskId /\ at' = "end" /\ subj' = current
    BY <1>19, TaskEndTypes DEF UnwindDone, Typed, FinishedStates, Msg
  <2>2. subj' \in Nat /\ panicMsg' \in Msg
    BY <1>19, <2>1, ConstantsAssumption DEF UnwindDone, Typed, TaskId, Msg
  <2> QED BY <1>19, <2>1, <2>2 DEF UnwindDone, Typed
<1>20. CASE RootPanicEnds \/ MainReturns
  <2>1. Halted
    BY <1>20 DEF RootPanicEnds, MainReturns
  <2>2. BlankScope \in ScopeRecZ
    BY RootIsTask DEF BlankScope, ScopeRecZ, Msg
  <2>3. rec' = [t \in TaskId |-> BlankRec(t)] /\ sc' = [s \in ScopeId |-> BlankScope]
    BY <2>1 DEF Halted
  <2>4. rec' \in [TaskId -> TaskRec] /\ sc' \in [ScopeId -> ScopeRecZ]
    BY <2>2, <2>3, RecTypes
  <2>5. /\ sched' \in BOOLEAN /\ tasks' \subseteq TaskId /\ scopes' \subseteq ScopeId
        /\ raised' \subseteq TaskId /\ unwinding' \subseteq TaskId /\ panicMsg' \in Msg
        /\ live' = 0 /\ nextTask' = 1 /\ nextScope' = 1 /\ runQueue' = <<>> /\ at' = "halted"
        /\ UNCHANGED <<current, subj, cancels, fin, ret>>
    BY <2>1, RootIsTask, Zenon DEF Halted, Msg
  <2>6. /\ runQueue' \in Seq(TaskId) /\ live' \in Int
        /\ nextTask' \in 1..(MaxTasks + 1) /\ nextScope' \in 1..(MaxScopes + 1)
    BY <2>5, ConstantsAssumption
  <2> QED BY <2>4, <2>5, <2>6 DEF Typed
<1> QED BY <1>1, <1>2, <1>3, <1>4, <1>5, <1>6, <1>7, <1>8, <1>9, <1>10, <1>11, <1>12,
           <1>13, <1>14, <1>15, <1>16, <1>17, <1>18, <1>19, <1>20 DEF UserStep

\* Records the scheduler loop builds.
LEMMA LoopRecTypes ==
  /\ \A r \in TaskRec, st \in FinishedStates : FinishedRec(r, st) \in TaskRec
  /\ \A r \in TaskRec : Requested(r) \in TaskRec /\ Resumed(r) \in TaskRec
  /\ \A r \in TaskRec : BlockedOnChildren(r) \in TaskRec /\ DeadlockRec(r) \in TaskRec
  /\ \A r \in TaskRec, c \in {"None", "Requested", "Unwinding"} : SwitchedIn(r, c) \in TaskRec
  /\ \A r \in TaskRec : r.wake \in Wake /\ r.scope \in 0..MaxScopes
                         /\ r.cancel \in {"None", "Requested", "Unwinding"}
<1>1. \A r \in TaskRec, st \in FinishedStates : FinishedRec(r, st) \in TaskRec
  BY DEF FinishedRec, TaskRec, TaskState, FinishedStates
<1>2. \A r \in TaskRec : Requested(r) \in TaskRec
  BY DEF Requested, TaskRec
<1>3. \A r \in TaskRec : Resumed(r) \in TaskRec
  BY ValueTypes DEF Resumed, TaskRec, TaskState
<1>4. \A r \in TaskRec : BlockedOnChildren(r) \in TaskRec
  <2>1. WaitFor("cancel", 0) \in Block
    BY ValueTypes DEF BlockOn
  <2> QED BY <2>1 DEF BlockedOnChildren, TaskRec, TaskState
<1>5. \A r \in TaskRec : DeadlockRec(r) \in TaskRec
  <2>1. WakeWith("deadlock") \in Wake
    BY ValueTypes DEF WakeTo
  <2> QED BY <2>1, RecTypes DEF DeadlockRec
<1>6. \A r \in TaskRec, c \in {"None", "Requested", "Unwinding"} : SwitchedIn(r, c) \in TaskRec
  BY ValueTypes DEF SwitchedIn, TaskRec, TaskState
<1>7. \A r \in TaskRec : r.wake \in Wake /\ r.scope \in 0..MaxScopes
                         /\ r.cancel \in {"None", "Requested", "Unwinding"}
  BY DEF TaskRec
<1> QED BY <1>1, <1>2, <1>3, <1>4, <1>5, <1>6, <1>7

\* The record task_request_cancel leaves is a task record.
LEMMA CancelRecType ==
  ASSUME Typed, NEW c \in TaskId
  PROVE  CancelRec(c) \in TaskRec
<1>1. Requested(rec[c]) \in TaskRec
  BY LoopRecTypes DEF Typed
<1>2. WakeWith("retry") \in Wake /\ WakeWith("unit") \in Wake
  BY ValueTypes DEF WakeTo
<1>3. /\ Readied(Requested(rec[c]), WakeWith("retry")) \in TaskRec
      /\ Readied(Requested(rec[c]), WakeWith("unit")) \in TaskRec
  BY <1>1, <1>2, RecTypes
<1> QED BY <1>1, <1>3 DEF CancelRec

\* Every step of the scheduler itself keeps the types.
LEMMA TypedVM ==
  ASSUME Typed, Control, VMStep
  PROVE  Typed'
<1> USE DEF Control
<1>1. CASE FinalizeState
  <2>1. fin.id \in TaskId /\ fin.state \in FinishedStates /\ fin \in FinRec
    BY <1>1 DEF FinalizeState, FinOK, NoFin, Typed
  <2> DEFINE r == [rec EXCEPT ![fin.id] = FinishedRec(@, fin.state)]
             f == IF CountsOut(fin.id)
                  THEN [sc EXCEPT ![rec[fin.id].scope] = Counted(@, @.unfinished - 1)] ELSE sc
  <2>2. r \in [TaskId -> TaskRec]
    BY <2>1, LoopRecTypes DEF Typed
  <2>3. f \in [ScopeId -> ScopeRecZ]
    <3>1. CASE CountsOut(fin.id)
      <4> DEFINE s == rec[fin.id].scope
      <4>1. s \in ScopeId
        BY <3>1 DEF CountsOut, Typed
      <4>2. sc[s] \in ScopeRecZ
        BY <4>1 DEF Typed
      <4>3. Counted(sc[s], sc[s].unfinished - 1) \in ScopeRecZ
        <5> HIDE DEF s
        <5>1. sc[s].unfinished \in Int
          BY <4>2, FieldTypes
        <5> QED BY <4>2, <5>1, FieldTypes
      <4> QED BY <3>1, <4>3 DEF Typed
    <3> QED BY <3>1 DEF Typed
  <2>4. OwnedForgotten(fin.id) \in SUBSET ScopeId
    BY DEF OwnedForgotten, ScopesOwnedBy, Typed
  <2>5. rec' = Forget(OwnedForgotten(fin.id), r) /\ sc' = ForgetScopes(OwnedForgotten(fin.id), f)
    BY <1>1, Zenon DEF FinalizeState
  <2>6. rec' \in [TaskId -> TaskRec] /\ sc' \in [ScopeId -> ScopeRecZ]
    <3> HIDE DEF r, f
    <3> QED BY <2>2, <2>3, <2>4, <2>5, FunctionTypes
  <2>7. fin' \in FinRec
    BY <1>1, <2>1 DEF FinalizeState, FinRec
  <2>8. /\ scopes' \subseteq ScopeId /\ tasks' \subseteq TaskId /\ live' \in Int
        /\ UNCHANGED <<sched, runQueue, current, nextTask, nextScope, panicMsg, unwinding, at,
                       subj, cancels, ret, raised>>
    BY <1>1 DEF FinalizeState, Typed
  <2> HIDE DEF r, f
  <2> QED BY <2>6, <2>7, <2>8 DEF Typed
<1>2. CASE NotifyOwner
  <2>0. fin.step = "wake"
    BY <1>2, Zenon DEF NotifyOwner
  <2>1. fin.id \in TaskId
    BY <2>0 DEF FinOK, NoFin, Typed
  <2> DEFINE s == rec[fin.id].scope
             o == sc[s].owner
  <2>2. UNCHANGED <<sched, tasks, scopes, sc, current, live, nextTask, nextScope, panicMsg,
                    unwinding, at, subj, cancels, ret, raised>>
    BY <1>2 DEF NotifyOwner
  <2>3. \/ rec' = rec /\ runQueue' = runQueue
        \/ /\ s \in scopes /\ o \in tasks /\ runQueue' = Append(runQueue, o)
           /\ \/ rec' = [rec EXCEPT ![o] = Readied(@, ScopeWake(s))]
              \/ rec' = [rec EXCEPT ![o] = Readied(@, CancelWake(@))]
    BY <1>2, Zenon DEF NotifyOwner
  <2>4. ASSUME s \in scopes
        PROVE  ScopeWake(s) \in Wake /\ CancelWake(rec[o]) \in Wake
    <3> HIDE DEF s, o
    <3>1. s \in ScopeId /\ s \in Nat
      BY <2>4, ConstantsAssumption DEF Typed, ScopeId
    <3>2. WakeWith("status") \in Wake /\ WakeWith("unit") \in Wake
      BY ValueTypes DEF WakeTo
    <3>3. [to |-> "scopeError", id |-> s] \in Wake
      BY <3>1 DEF Wake, WakeTo
    <3> QED BY <3>2, <3>3 DEF ScopeWake, CancelWake
  <2>5. rec' \in [TaskId -> TaskRec] /\ runQueue' \in Seq(TaskId)
    <3> HIDE DEF s, o
    <3>1. CASE rec' = rec /\ runQueue' = runQueue
      BY <3>1 DEF Typed
    <3>2. CASE s \in scopes /\ o \in tasks /\ runQueue' = Append(runQueue, o)
      <4>1. runQueue' \in Seq(TaskId)
        BY <3>2, QueueTypes DEF Typed
      <4>2. /\ Readied(rec[o], ScopeWake(s)) \in TaskRec
            /\ Readied(rec[o], CancelWake(rec[o])) \in TaskRec
        BY <3>2, <2>4, RecTypes DEF Typed
      <4>3. CASE rec' = rec
        BY <4>1, <4>3 DEF Typed
      <4> QED BY <4>1, <4>2, <4>3, <2>3 DEF Typed
    <3> QED BY <3>1, <3>2, <2>3
  <2>6. fin' \in FinRec
    <3>1. \/ fin' = NoFin
          \/ s \in scopes /\ o \in tasks /\ rec[o].ending # "none"
             /\ fin' = Finalize(o, rec[o].ending)
      BY <1>2, Zenon DEF NotifyOwner
    <3>2. o \in tasks /\ rec[o].ending # "none" => rec[o].ending \in FinishedStates
      BY DEF Typed, TaskRec
    <3> QED BY <3>1, <3>2, ValueTypes DEF Typed
  <2> QED BY <2>2, <2>5, <2>6 DEF Typed
<1>3. CASE EndCheck
  <2>1. UNCHANGED <<sched, tasks, rec, scopes, sc, runQueue, current, live, nextTask, nextScope,
                    panicMsg, unwinding, cancels, ret, raised>> /\ at' = "pick" /\ subj' = NoTask
    BY <1>3 DEF EndCheck, schedVars
  <2>2. fin' \in FinRec
    <3>1. \/ fin' = NoFin
          \/ subj \in tasks /\ rec[subj].state = "Ending" /\ fin' = Finalize(subj, rec[subj].ending)
      BY <1>3 DEF EndCheck, EndsNow
    <3>2. subj \in tasks /\ rec[subj].state = "Ending" =>
            subj \in TaskId /\ rec[subj].ending \in FinishedStates
      BY DEF Typed, TaskRec, RecOK
    <3> QED BY <3>1, <3>2, ValueTypes
  <2> QED BY <2>1, <2>2 DEF Typed
<1>4. ASSUME NEW j \in TaskId, WakeJoiner(j) PROVE Typed'
  <2>1. fin.id \in TaskId
    BY <1>4 DEF WakeJoiner, FinOK, NoFin, Typed
  <2>2. \A t \in TaskId : JoinedBy(rec[t], rec[t].joiners \ {j}) \in TaskRec
    BY FieldTypes DEF Typed
  <2>3. WakeWith("status") \in Wake
    BY ValueTypes DEF WakeTo
  <2>4. \A t \in TaskId : Readied(rec[t], WakeWith("status")) \in TaskRec
    BY <2>3, RecTypes DEF Typed
  <2>5. rec' \in [TaskId -> TaskRec]
    BY <1>4, <2>2, <2>4 DEF WakeJoiner, Typed
  <2>6. runQueue' \in Seq(TaskId)
    BY <1>4, QueueTypes DEF WakeJoiner, Typed
  <2> QED BY <1>4, <2>5, <2>6 DEF WakeJoiner, Typed
<1>5. ASSUME NEW c \in TaskId, RequestCancel(c) PROVE Typed'
  <2>1. rec' \in [TaskId -> TaskRec]
    BY <1>5, CancelRecType DEF RequestCancel, Typed
  <2>2. runQueue' \in Seq(TaskId)
    BY <1>5, QueueTypes DEF RequestCancel, Typed
  <2>3. fin' \in FinRec
    BY <1>5, ValueTypes DEF RequestCancel, Typed, FinishedStates
  <2> QED BY <1>5, <2>1, <2>2, <2>3 DEF RequestCancel, Typed
<1>6. ASSUME NEW t \in TaskId, WakeCond(t) PROVE Typed'
  <2>1. WakeWith("status") \in Wake
    BY ValueTypes DEF WakeTo
  <2>2. rec' \in [TaskId -> TaskRec] /\ runQueue' \in Seq(TaskId)
    BY <1>6, <2>1, RecTypes, QueueTypes DEF WakeCond, Typed
  <2> QED BY <1>6, <2>2 DEF WakeCond, Typed
<1>7. CASE PickRoot
  <2>0. rec[ROOT] \in TaskRec /\ rec[ROOT].wake \in Wake
    BY LoopRecTypes, RootIsTask DEF Typed
  <2>1. rec' \in [TaskId -> TaskRec] /\ ret' \in Wake
    <3>1. /\ \/ rec' = rec \/ rec' = [rec EXCEPT ![ROOT] = Resumed(@)]
          /\ ret' \in {ret, rec[ROOT].wake, NoWake}
      BY <1>7 DEF PickRoot
    <3>2. Resumed(rec[ROOT]) \in TaskRec
      BY <2>0, LoopRecTypes
    <3> QED BY <3>1, <3>2, <2>0, ValueTypes DEF Typed
  <2>2. runQueue' \in Seq(TaskId) /\ current' \in TaskId
    BY <1>7, QueueTypes, RootIsTask DEF PickRoot, Typed
  <2> QED BY <1>7, <2>1, <2>2 DEF PickRoot, Typed
<1>8. CASE PickChild
  <2>1. runQueue' \in Seq(TaskId) /\ Head(runQueue) \in TaskId
    BY <1>8, QueueTypes DEF PickChild, Typed
  <2>2. cancels' \subseteq TaskId
    BY <1>8 DEF PickChild, ChildrenOwnedBy, Children, Typed
  <2>3. subj' \in Nat \cup {NoTask}
    BY <1>8, <2>1, ConstantsAssumption DEF PickChild, Typed, TaskId
  <2> QED BY <1>8, <2>1, <2>2, <2>3 DEF PickChild, Typed
<1>9. CASE RunBlocked
  BY <1>9, LoopRecTypes DEF RunBlocked, Typed
<1>10. CASE RunSwitch
  <2>1. subj \in TaskId
    BY <1>10 DEF RunSwitch, AtOK, Typed
  <2>2. rec' \in [TaskId -> TaskRec] /\ ret' \in Wake
    <3>1. \E c \in {"None", "Requested", "Unwinding"} :
            rec' = [rec EXCEPT ![subj] = SwitchedIn(@, c)]
      BY <1>10, <2>1, LoopRecTypes DEF RunSwitch, Typed
    <3>2. ret' \in {rec[subj].wake, NoWake}
      BY <1>10 DEF RunSwitch
    <3>3. rec' \in [TaskId -> TaskRec]
      BY <2>1, <3>1, LoopRecTypes DEF Typed
    <3>4. rec[subj].wake \in Wake
      BY <2>1, LoopRecTypes DEF Typed
    <3> QED BY <3>2, <3>3, <3>4, ValueTypes
  <2>3. sc' \in [ScopeId -> ScopeRecZ] /\ panicMsg' \in Msg /\ unwinding' \subseteq TaskId
    <3>1. /\ sc' \in {sc, Unframed(sc, subj)} /\ panicMsg' \in {panicMsg, NoMsg}
          /\ unwinding' \in {unwinding, unwinding \cup {subj}}
      BY <1>10 DEF RunSwitch
    <3>2. Unframed(sc, subj) \in [ScopeId -> ScopeRecZ]
      BY <2>1, FunctionTypes DEF Typed
    <3> QED BY <2>1, <3>1, <3>2 DEF Typed, Msg
  <2> QED BY <1>10, <2>1, <2>2, <2>3 DEF RunSwitch, Typed
<1>11. CASE RunOverflow
  <2>1. subj \in TaskId /\ subj \in Nat
    BY <1>11, ConstantsAssumption DEF RunOverflow, AtOK, Typed, TaskId
  <2>2. /\ rec' \in [TaskId -> TaskRec] /\ sc' \in [ScopeId -> ScopeRecZ]
        /\ cancels' \subseteq TaskId /\ at' = "end" /\ subj' = subj
    BY <1>11, <2>1, TaskEndTypes DEF RunOverflow, FinishedStates, Msg
  <2> QED BY <1>11, <2>1, <2>2 DEF RunOverflow, Typed
<1>12. ASSUME NEW t \in TaskId, WaitEvent(t) PROVE Typed'
  <2>1. WakeWith("retry") \in Wake /\ WakeWith("unit") \in Wake
    BY ValueTypes DEF WakeTo
  <2>2. rec' \in [TaskId -> TaskRec]
    BY <1>12, <2>1, RecTypes DEF WaitEvent, Typed
  <2>3. runQueue' \in Seq(TaskId)
    BY <1>12, QueueTypes DEF WaitEvent, Typed
  <2> QED BY <1>12, <2>2, <2>3 DEF WaitEvent, Unmoved, Typed
<1>13. CASE WaitDone
  BY <1>13 DEF WaitDone, schedVars, Typed
<1>14. CASE Deadlock
  <2>1. rec' \in [TaskId -> TaskRec]
    BY <1>14, LoopRecTypes, RootIsTask DEF Deadlock, Typed
  <2>2. runQueue' \in Seq(TaskId)
    BY <1>14, RootIsTask DEF Deadlock
  <2> QED BY <1>14, <2>1, <2>2 DEF Deadlock, ctlVars, Typed
<1> QED BY <1>1, <1>2, <1>3, <1>4, <1>5, <1>6, <1>7, <1>8, <1>9, <1>10, <1>11, <1>12,
           <1>13, <1>14 DEF VMStep

-----------------------------------------------------------------------------
(* Most steps leave the tree of tasks and scopes alone: they neither add nor *)
(* forget a record, finish no task and keep the counters.                    *)
Quiet ==
    /\ tasks' = tasks /\ scopes' = scopes /\ live' = live
    /\ nextTask' = nextTask /\ nextScope' = nextScope
    /\ \A t \in tasks : /\ rec'[t].scope = rec[t].scope
                        /\ rec'[t].state \in FinishedStates <=> rec[t].state \in FinishedStates
    /\ \A s \in scopes : /\ sc'[s].owner = sc[s].owner
                         /\ sc'[s].unfinished = sc[s].unfinished
                         /\ sc[s].closed => sc'[s].closed

\* What a quiet step does to single records.
RecStep ==
    /\ \A t \in tasks : rec'[t].state = "Ending" <=> rec'[t].ending # "none"
    /\ \A t \in tasks : rec[t].started => rec'[t].started
    /\ rec'[ROOT].state \in {"Ready", "Running", "Blocked"}
    /\ \A t \in tasks : rec'[t].wake.to = "scopeError" =>
         rec'[t].wake = rec[t].wake \/ DoneScope(rec'[t].wake.id)
    /\ ret'.to = "scopeError" => DoneScope(ret.id)'

\* A quiet step keeps the children, the open tasks and the owned scopes.
LEMMA QuietSets ==
  ASSUME Quiet
  PROVE  /\ \A s : Children(s)' = Children(s) /\ Open(s)' = Open(s)
         /\ OpenTasks' = OpenTasks
         /\ \A t : ScopesOwnedBy(t)' = ScopesOwnedBy(t)
         /\ \A t : OwnedChildrenFinished(t)' <=> OwnedChildrenFinished(t)
         /\ \A s : DoneScope(s) => DoneScope(s)'
<1>1. \A s : Children(s)' = Children(s) /\ Open(s)' = Open(s)
  BY DEF Quiet, Children, Open, Finished
<1>2. OpenTasks' = OpenTasks
  BY DEF Quiet, OpenTasks, Finished
<1>3. \A t : ScopesOwnedBy(t)' = ScopesOwnedBy(t)
  BY DEF Quiet, ScopesOwnedBy
<1>4. \A t : OwnedChildrenFinished(t)' <=> OwnedChildrenFinished(t)
  BY DEF Quiet, ScopesOwnedBy, OwnedChildrenFinished
<1>5. \A s : DoneScope(s) => DoneScope(s)'
  BY DEF Quiet, DoneScope
<1> QED BY <1>1, <1>2, <1>3, <1>4, <1>5

\* A quiet step that changes records only as RecStep allows keeps the tree and the
\* counters.
LEMMA QuietPreserves ==
  ASSUME Typed, Typed', RecOK, WakeOK, Tree, CountersExact, Quiet, RecStep
  PROVE  RecOK' /\ WakeOK' /\ Tree' /\ CountersExact'
<1>1. RecOK'
  <2>1. ROOT \in tasks' /\ rec'[ROOT].state \in {"Ready", "Running", "Blocked"}
    BY DEF Quiet, RecStep, RecOK
  <2>2. \A t \in tasks' \ {ROOT} : ~rec'[t].started => ScopesOwnedBy(t)' = {}
    BY QuietSets DEF Quiet, RecStep, RecOK
  <2> QED BY <2>1, <2>2 DEF Quiet, RecStep, RecOK
<1>2. WakeOK'
  <2>1. \A t \in tasks : rec'[t].wake.to = "scopeError" => DoneScope(rec'[t].wake.id)
    BY DEF RecStep, WakeOK
  <2>2. ASSUME NEW t \in tasks', rec'[t].wake.to = "scopeError"
        PROVE  DoneScope(rec[t].wake.id)'
    <3> DEFINE s == rec'[t].wake.id
    <3>1. DoneScope(s)
      BY <2>1, <2>2 DEF Quiet
    <3>2. s \in ScopeId /\ s < nextScope' /\ (s \in scopes' => sc'[s].closed /\ sc'[s].unfinished = 0)
      BY <3>1 DEF DoneScope, Quiet
    <3> QED BY <3>2 DEF DoneScope
  <2> QED BY <2>2 DEF RecStep, WakeOK
<1>3. Tree'
  BY DEF Quiet, Tree, Structured, Finished, Typed
<1>4. CountersExact'
  <2>1. \A s \in scopes : sc'[s].unfinished = Cardinality(Open(s)')
    BY QuietSets DEF Quiet, CountersExact, Open
  <2>2. live' = Cardinality(OpenTasks')
    BY QuietSets DEF Quiet, CountersExact, OpenTasks
  <2> QED BY <2>1, <2>2 DEF Quiet, CountersExact, Open, OpenTasks
<1> QED BY <1>1, <1>2, <1>3, <1>4

\* Fields the record helpers keep and set.
LEMMA Fields ==
  ASSUME NEW r \in TaskRec
  PROVE  /\ \A w : LET q == Readied(r, w) IN
              q.state = "Ready" /\ q.wake = w /\ q.scope = r.scope /\ q.ending = r.ending
              /\ q.started = r.started /\ q.cancel = r.cancel
         /\ \A st, m : LET q == EndRec(r, st, m) IN
              q.state = "Ending" /\ q.ending = st /\ q.wake = NoWake /\ q.scope = r.scope
              /\ q.started = r.started /\ q.cancel = r.cancel
         /\ \A n : LET q == Shielded(r, n) IN
              q.state = r.state /\ q.wake = r.wake /\ q.scope = r.scope /\ q.ending = r.ending
              /\ q.started = r.started /\ q.cancel = r.cancel
         /\ \A J : LET q == JoinedBy(r, J) IN
              q.state = r.state /\ q.wake = r.wake /\ q.scope = r.scope /\ q.ending = r.ending
              /\ q.started = r.started /\ q.cancel = r.cancel
<1>1. \A w : LET q == Readied(r, w) IN
        q.state = "Ready" /\ q.wake = w /\ q.scope = r.scope /\ q.ending = r.ending
        /\ q.started = r.started /\ q.cancel = r.cancel
  BY DEF Readied, TaskRec
<1>3. \A st, m : LET q == EndRec(r, st, m) IN
        q.state = "Ending" /\ q.ending = st /\ q.wake = NoWake /\ q.scope = r.scope
        /\ q.started = r.started /\ q.cancel = r.cancel
  BY DEF EndRec, TaskRec
<1>4. \A n : LET q == Shielded(r, n) IN
        q.state = r.state /\ q.wake = r.wake /\ q.scope = r.scope /\ q.ending = r.ending
        /\ q.started = r.started /\ q.cancel = r.cancel
  BY DEF Shielded, TaskRec
<1>5. \A J : LET q == JoinedBy(r, J) IN
        q.state = r.state /\ q.wake = r.wake /\ q.scope = r.scope /\ q.ending = r.ending
        /\ q.started = r.started /\ q.cancel = r.cancel
  BY DEF JoinedBy, TaskRec
<1> QED BY <1>1, <1>3, <1>4, <1>5

\* What a suspension keeps of the record.
LEMMA SuspendFields ==
  ASSUME NEW r \in TaskRec, NEW b, NEW h
  PROVE  /\ SuspendRec(r, b, h).state \in {"Ready", "Blocked"}
         /\ SuspendRec(r, b, h).scope = r.scope /\ SuspendRec(r, b, h).ending = r.ending
         /\ SuspendRec(r, b, h).started = r.started /\ SuspendRec(r, b, h).cancel = r.cancel
         /\ SuspendRec(r, b, h).wake = r.wake \/ SuspendRec(r, b, h).wake.to # "scopeError"
<1>1. CASE DeliversNow(r) \/ b = NoBlock
  BY <1>1 DEF SuspendRec, TaskRec, WakeWith
<1>2. CASE ~(DeliversNow(r) \/ b = NoBlock)
  BY <1>2 DEF SuspendRec, TaskRec
<1> QED BY <1>1, <1>2

\* The current task's record while user code runs.
LEMMA UserFacts ==
  ASSUME Typed, Control, at \in {"user", "notify"}
  PROVE  /\ current \in tasks /\ current \in TaskId /\ rec[current] \in TaskRec
         /\ rec[current].state = "Running" /\ rec[current].ending = "none"
         /\ current # ROOT => rec[current].started
  BY DEF Typed, Control, AtOK, RecOK

\* A failed scope the caller is about to read stays done while the scopes do.
LEMMA RetKept ==
  ASSUME Control, UNCHANGED <<ret, scopes, nextScope>>,
         \A s \in scopes : /\ sc'[s].unfinished = sc[s].unfinished
                           /\ sc[s].closed => sc'[s].closed
  PROVE  ret'.to = "scopeError" => DoneScope(ret.id)'
  BY DEF Control, WakeOK, DoneScope

\* A step that replaces one unfinished task's record by one that is not
\* finished either, and keeps the scopes, is quiet.
LEMMA OneRecordQuiet ==
  ASSUME Typed, Control, NEW u \in tasks, NEW q \in TaskRec,
         rec' = [rec EXCEPT ![u] = q],
         q.scope = rec[u].scope, q.state \notin FinishedStates, ~Finished(u),
         q.state = "Ending" <=> q.ending # "none",
         rec[u].started => q.started,
         u = ROOT => q.state # "Ending",
         q.wake.to = "scopeError" => q.wake = rec[u].wake \/ DoneScope(q.wake.id),
         UNCHANGED <<tasks, scopes, live, nextTask, nextScope>>,
         \A s \in scopes : /\ sc'[s].owner = sc[s].owner
                           /\ sc'[s].unfinished = sc[s].unfinished
                           /\ sc[s].closed => sc'[s].closed,
         ret'.to = "scopeError" => DoneScope(ret.id)'
  PROVE  Quiet /\ RecStep
<1>1. \A t \in tasks : rec'[t] = IF t = u THEN q ELSE rec[t]
  BY DEF Typed
<1>2. q.state \in TaskState
  BY DEF TaskRec
<1>3. Quiet
  BY <1>1 DEF Quiet, Finished
<1>4. rec'[ROOT].state \in {"Ready", "Running", "Blocked"}
  BY <1>1, <1>2 DEF Control, RecOK, TaskState, FinishedStates
<1>5. RecStep
  BY <1>1, <1>4 DEF RecStep, Control, RecOK
<1> QED BY <1>3, <1>5

\* Suspending the current task (task_suspend_at) is quiet.
LEMMA SuspendQuiet ==
  ASSUME Typed, Control, User, NEW b, NEW h,
         SuspendRec(rec[current], b, h) \in TaskRec,
         rec' = [rec EXCEPT ![current] = SuspendRec(@, b, h)],
         at' = "pick",
         UNCHANGED <<tasks, scopes, live, nextTask, nextScope, subj, cancels, fin, ret>>,
         \A s \in scopes : /\ sc'[s].owner = sc[s].owner
                           /\ sc'[s].unfinished = sc[s].unfinished
                           /\ sc[s].closed => sc'[s].closed
  PROVE  Quiet /\ RecStep /\ FinOK' /\ AtOK'
<1> DEFINE q == SuspendRec(rec[current], b, h)
<1>1. /\ current \in tasks /\ rec[current] \in TaskRec /\ rec[current].state = "Running"
      /\ rec[current].ending = "none"
  BY UserFacts DEF User
<1>2. /\ q.state \in {"Ready", "Blocked"} /\ q.scope = rec[current].scope
      /\ q.ending = "none" /\ q.started = rec[current].started
      /\ (q.wake = rec[current].wake \/ q.wake.to # "scopeError")
  BY <1>1, SuspendFields
<1>3. q \in TaskRec /\ rec' = [rec EXCEPT ![current] = q]
  OBVIOUS
<1>4. ret'.to # "scopeError"
  BY DEF User, NoWake
<1> HIDE DEF q
<1>5. ~Finished(current) /\ q.state \notin FinishedStates
  BY <1>1, <1>2 DEF Finished, FinishedStates
<1>6. Quiet /\ RecStep
  BY <1>1, <1>2, <1>3, <1>4, <1>5, OneRecordQuiet
<1>7. FinOK' /\ AtOK'
  BY DEF User, Settled, FinOK, AtOK
<1> QED BY <1>6, <1>7

\* A step that leaves every record and scope alone is quiet.
LEMMA NothingQuiet ==
  ASSUME Typed, Control,
         UNCHANGED <<tasks, rec, scopes, sc, live, nextTask, nextScope>>,
         ret'.to = "scopeError" => DoneScope(ret.id)'
  PROVE  Quiet /\ RecStep
  BY DEF Quiet, RecStep, Control, RecOK

\* Ending the current or the picked task is quiet: it is not finished yet.
LEMMA TaskEndQuiet ==
  ASSUME Typed, Control, NEW t \in tasks \ {ROOT}, NEW st \in FinishedStates, NEW m \in Msg,
         ~Finished(t), Settled, TaskEnd(t, st, m),
         UNCHANGED <<tasks, scopes, live, nextTask, nextScope, fin, ret>>
  PROVE  Quiet /\ RecStep /\ FinOK' /\ AtOK'
<1> DEFINE q == EndRec(rec[t], st, m)
<1>1. t \in TaskId /\ rec[t] \in TaskRec
  BY DEF Typed
<1>2. q \in TaskRec
  BY <1>1, RecTypes
<1>3. /\ q.state = "Ending" /\ q.ending = st /\ q.wake = NoWake /\ q.scope = rec[t].scope
      /\ q.started = rec[t].started
  BY <1>1, Fields
<1>4. rec' = [rec EXCEPT ![t] = q] /\ at' = "end" /\ subj' = t
  BY DEF TaskEnd
<1>5. \A s \in scopes : sc'[s] = EndScope(s, t, m)
  BY DEF TaskEnd, Typed
<1>6. \A s \in scopes : /\ sc'[s].owner = sc[s].owner
                        /\ sc'[s].unfinished = sc[s].unfinished
                        /\ sc[s].closed => sc'[s].closed
  <2> TAKE s \in scopes
  <2>1. sc[s] \in ScopeRecZ
    BY DEF Typed
  <2> QED BY <1>5, <2>1 DEF EndScope, ScopeRecZ
<1> HIDE DEF q
<1>7. q.state \notin FinishedStates /\ q.ending # "none" /\ q.wake.to # "scopeError"
  BY <1>3 DEF FinishedStates, NoWake
<1>10. ret'.to = "scopeError" => DoneScope(ret.id)'
  BY <1>6, RetKept
<1>8. Quiet /\ RecStep
  BY <1>2, <1>3, <1>4, <1>6, <1>7, <1>10, OneRecordQuiet
<1>9. FinOK' /\ AtOK'
  BY <1>1, <1>4 DEF Settled, FinOK, AtOK
<1> QED BY <1>8, <1>9

QuietUserStep ==
    \/ \E s \in ScopeId : ScopeCloseFailed(s) \/ ScopeCloseWait(s)
    \/ \E h \in TaskId : Join(h) \/ Cancel(h)
    \/ Sleep \/ Retry \/ Yield
    \/ \E c \in Conds : CondWait(c) \/ CondNotify(c)
    \/ CondWaitAlone \/ ShieldEnter \/ ShieldExit \/ Panic \/ Return \/ UnwindDone

\* The calls that neither create nor remove records are quiet.
LEMMA QuietUser ==
  ASSUME Typed, Control, QuietUserStep
  PROVE  Quiet /\ RecStep /\ FinOK' /\ AtOK'
<1>1. ASSUME NEW s \in ScopeId, ScopeCloseFailed(s) PROVE Quiet /\ RecStep /\ FinOK' /\ AtOK'
  <2>1. s \in scopes /\ sc[s] \in ScopeRecZ /\ sc[s].unfinished = 0
    BY <1>1 DEF ScopeCloseFailed, Innermost, Framed, ScopesOwnedBy, Typed
  <2>2. /\ \A r \in scopes : /\ sc'[r].owner = sc[r].owner
                             /\ sc'[r].unfinished = sc[r].unfinished
                             /\ sc[r].closed => sc'[r].closed
        /\ sc'[s].closed
    BY <1>1, <2>1 DEF ScopeCloseFailed, Typed, ScopeRecZ
  <2>3. ret'.id = s /\ UNCHANGED <<tasks, rec, scopes, live, nextTask, nextScope, current, at, subj,
                                  cancels, fin>>
    BY <1>1 DEF ScopeCloseFailed
  <2>4. DoneScope(ret.id)'
    BY <2>1, <2>2, <2>3 DEF DoneScope, Control, RecOK
  <2>5. Quiet /\ RecStep
    BY <2>2, <2>3, <2>4 DEF Quiet, RecStep, Control, RecOK
  <2>6. FinOK' /\ AtOK'
    BY <1>1, <2>3 DEF ScopeCloseFailed, User, Settled, FinOK, Control, AtOK
  <2> QED BY <2>5, <2>6
<1>2. ASSUME NEW s \in ScopeId, ScopeCloseWait(s) PROVE Quiet /\ RecStep /\ FinOK' /\ AtOK'
  <2>1. \A r \in scopes : /\ sc'[r].owner = sc[r].owner
                          /\ sc'[r].unfinished = sc[r].unfinished
                          /\ sc[r].closed => sc'[r].closed
    BY <1>2 DEF ScopeCloseWait, Typed, ScopeRecZ
  <2>2. SuspendRec(rec[current], WaitFor("scope", s), TRUE) \in TaskRec
    BY RecTypes, ValueTypes DEF Typed
  <2> QED BY <1>2, <2>1, <2>2, SuspendQuiet DEF ScopeCloseWait, Suspend
<1>3. ASSUME NEW h \in TaskId, Join(h) PROVE Quiet /\ RecStep /\ FinOK' /\ AtOK'
  <2> DEFINE slot == TRUE
             q == SuspendRec(rec[current], WaitFor("join", h), slot)
             j == JoinedBy(rec[h], rec[h].joiners \cup {current})
  <2>1. /\ current \in tasks /\ rec[current] \in TaskRec /\ rec[current].state = "Running"
        /\ rec[current].ending = "none"
    BY <1>3, UserFacts DEF Join, User
  <2>2. h \in tasks /\ h # ROOT /\ h # current /\ rec[h] \in TaskRec
    BY <1>3 DEF Join, Typed
  <2>0. rec' = [rec EXCEPT ![h] = j, ![current] = q]
    BY <1>3 DEF Join
  <2> HIDE DEF slot
  <2>3. /\ q.state \in {"Ready", "Blocked"} /\ q.scope = rec[current].scope
        /\ q.ending = "none" /\ q.started = rec[current].started
        /\ (q.wake = rec[current].wake \/ q.wake.to # "scopeError")
    BY <2>1, SuspendFields
  <2>4. /\ j.state = rec[h].state /\ j.wake = rec[h].wake /\ j.scope = rec[h].scope
        /\ j.ending = rec[h].ending /\ j.started = rec[h].started
    BY <2>2, Fields
  <2>5. rec' = [rec EXCEPT ![h] = j, ![current] = q]
    BY <2>0
  <2> HIDE DEF q, j
  <2>6. \A t \in tasks : rec'[t] = IF t = current THEN q ELSE IF t = h THEN j ELSE rec[t]
    BY <2>2, <2>5 DEF Typed
  <2>7. /\ UNCHANGED <<tasks, scopes, sc, live, nextTask, nextScope, subj, cancels, fin, ret>>
        /\ at' = "pick" /\ fin = NoFin /\ ret = NoWake
    BY <1>3 DEF Join, User, Settled
  <2>8. Quiet
    BY <2>1, <2>3, <2>4, <2>6, <2>7 DEF Quiet, FinishedStates
  <2>9. RecStep
    <3>1. \A t \in tasks : rec'[t].state = "Ending" <=> rec'[t].ending # "none"
      BY <2>3, <2>4, <2>6 DEF Control, RecOK
    <3>2. rec'[ROOT].state \in {"Ready", "Running", "Blocked"}
      BY <2>2, <2>3, <2>6 DEF Control, RecOK
    <3>3. \A t \in tasks : rec'[t].wake = rec[t].wake \/ rec'[t].wake.to # "scopeError"
      BY <2>3, <2>4, <2>6
    <3>4. \A t \in tasks : rec[t].started => rec'[t].started
      BY <2>3, <2>4, <2>6
    <3> QED BY <2>7, <3>1, <3>2, <3>3, <3>4 DEF RecStep, NoWake
  <2>10. FinOK' /\ AtOK'
    BY <2>7 DEF FinOK, AtOK
  <2> QED BY <2>8, <2>9, <2>10
<1>4. ASSUME NEW h \in TaskId, Cancel(h) PROVE Quiet /\ RecStep /\ FinOK' /\ AtOK'
  <2>1. /\ UNCHANGED <<tasks, rec, scopes, sc, live, nextTask, nextScope, current, at, subj, fin, ret>>
        /\ fin = NoFin /\ ret = NoWake /\ at = "user"
    BY <1>4 DEF Cancel, User, Settled, schedVars
  <2>2. Quiet /\ RecStep
    BY <2>1, NothingQuiet DEF NoWake
  <2>3. FinOK' /\ AtOK'
    BY <2>1 DEF FinOK, AtOK, Control
  <2> QED BY <2>2, <2>3
<1>5. ASSUME NEW b \in Block, NEW h \in BOOLEAN, User, Suspend(b, h), Unmoved
      PROVE  Quiet /\ RecStep /\ FinOK' /\ AtOK'
  <2>1. SuspendRec(rec[current], b, h) \in TaskRec
    BY RecTypes DEF Typed
  <2> QED BY <1>5, <2>1, SuspendQuiet DEF Suspend, Unmoved
<1>6. CASE Sleep
  BY <1>6, <1>5, ValueTypes DEF Sleep, BlockOn
<1>7. CASE Retry
  BY <1>7, <1>5, ValueTypes DEF Retry, BlockOn
<1>8. CASE Yield
  BY <1>8, <1>5, ValueTypes DEF Yield
<1>9. ASSUME NEW c \in Conds, CondWait(c) PROVE Quiet /\ RecStep /\ FinOK' /\ AtOK'
  <2>1. WaitFor("cond", c) \in Block
    BY ValueTypes, ConstantsAssumption DEF BlockOn
  <2> QED BY <1>9, <2>1, <1>5 DEF CondWait
<1>10. ASSUME NEW c \in Conds, CondNotify(c) PROVE Quiet /\ RecStep /\ FinOK' /\ AtOK'
  <2>1. /\ UNCHANGED <<tasks, rec, scopes, sc, live, nextTask, nextScope, current, cancels, fin, ret>>
        /\ fin = NoFin /\ ret = NoWake /\ at = "user" /\ at' = "notify"
    BY <1>10 DEF CondNotify, User, Settled, schedVars
  <2>2. Quiet /\ RecStep
    BY <2>1, NothingQuiet DEF NoWake
  <2>3. FinOK' /\ AtOK'
    BY <2>1 DEF FinOK, AtOK, Control
  <2> QED BY <2>2, <2>3
<1>11. CASE CondWaitAlone
  <2>1. /\ UNCHANGED <<tasks, rec, scopes, sc, live, nextTask, nextScope, current, at, subj, cancels, fin>>
        /\ fin = NoFin /\ ret'.to = "deadlock" /\ at = "user"
    BY <1>11 DEF CondWaitAlone, User, Settled, schedVars, ctlVars, WakeWith
  <2>2. Quiet /\ RecStep
    BY <2>1, NothingQuiet
  <2>3. FinOK' /\ AtOK'
    BY <2>1 DEF FinOK, AtOK, Control
  <2> QED BY <2>2, <2>3
<1>12. CASE ShieldEnter \/ ShieldExit
  <2>1. User /\ UNCHANGED <<tasks, scopes, sc, live, nextTask, nextScope, current, subj, cancels, fin, ret>>
    BY <1>12 DEF ShieldEnter, ShieldExit, Unmoved, ctlVars
  <2>2. /\ current \in tasks /\ rec[current] \in TaskRec /\ rec[current].state = "Running"
        /\ rec[current].ending = "none"
    BY <2>1, UserFacts DEF User
  <2>3. \A n : LET r == Shielded(rec[current], n) IN
          r.state = "Running" /\ r.wake = rec[current].wake /\ r.scope = rec[current].scope
          /\ r.ending = "none" /\ r.started = rec[current].started
    BY <2>2, Fields
  <2>4. PICK q \in TaskRec :
          /\ rec' = [rec EXCEPT ![current] = q]
          /\ q.state \in {"Ready", "Blocked", "Running"} /\ q.scope = rec[current].scope
          /\ q.ending = "none" /\ q.started = rec[current].started
          /\ (q.wake = rec[current].wake \/ q.wake.to # "scopeError")
          /\ at' = "user" => q.state = "Running"
          /\ at' \in {"user", "pick"}
    <3>1. CASE ShieldEnter
      <4> DEFINE r == Shielded(rec[current], rec[current].shield + 1)
      <4>1. rec[current].shield + 1 \in Nat
        BY <2>2, FieldTypes
      <4>2. r \in TaskRec
        BY <2>2, <4>1, FieldTypes
      <4>3. rec' = [rec EXCEPT ![current] = r] /\ at' = "user"
        BY <3>1 DEF ShieldEnter, User, ctlVars
      <4> QED BY <2>3, <4>2, <4>3
    <3>2. CASE ShieldExit
      <4> DEFINE r == Shielded(rec[current], rec[current].shield - 1)
                 slot == TRUE
                 q == SuspendRec(r, NoBlock, slot)
      <4>1. rec[current].shield > 0 /\ rec[current].shield \in Nat
        BY <2>2, <3>2, FieldTypes DEF ShieldExit
      <4>2. r \in TaskRec
        BY <2>2, <4>1, FieldTypes
      <4>3. q \in TaskRec
        BY <4>2, RecTypes, ValueTypes
      <4>5. \/ rec' = [rec EXCEPT ![current] = r] /\ at' = "user"
            \/ rec' = [rec EXCEPT ![current] = q] /\ at' = "pick"
        BY <3>2, Zenon DEF ShieldExit
      <4> HIDE DEF slot
      <4>4. /\ q.state \in {"Ready", "Blocked"} /\ q.scope = r.scope /\ q.ending = r.ending
            /\ q.started = r.started /\ (q.wake = r.wake \/ q.wake.to # "scopeError")
        BY <4>2, SuspendFields
      <4> QED BY <2>3, <4>2, <4>3, <4>4, <4>5
    <3> QED BY <1>12, <3>1, <3>2
  <2>5. ~Finished(current) /\ q.state \notin FinishedStates /\ ret.to # "scopeError" /\ fin = NoFin
    BY <2>1, <2>2, <2>4 DEF Finished, FinishedStates, User, NoWake, Settled
  <2>6. Quiet /\ RecStep
    BY <2>1, <2>2, <2>4, <2>5, OneRecordQuiet
  <2>7. FinOK' /\ AtOK'
    <3>1. rec'[current] = q
      BY <2>2, <2>4 DEF Typed
    <3> QED BY <2>1, <2>2, <2>4, <2>5, <3>1 DEF FinOK, AtOK, Control, User
  <2> QED BY <2>6, <2>7
<1>13. CASE Panic
  <2>1. /\ UNCHANGED <<tasks, rec, scopes, live, nextTask, nextScope, current, at, subj, cancels, fin>>
        /\ fin = NoFin /\ ret'.to # "scopeError" /\ at = "user" /\ sc' = Unframed(sc, current)
    BY <1>13 DEF Panic, Settled, ctlVars, NoWake
  <2>2. \A s \in scopes : /\ sc'[s].owner = sc[s].owner
                          /\ sc'[s].unfinished = sc[s].unfinished
                          /\ sc[s].closed => sc'[s].closed
    BY <2>1 DEF Unframed, Typed, ScopeRecZ
  <2>3. Quiet /\ RecStep
    BY <2>1, <2>2 DEF Quiet, RecStep, Control, RecOK
  <2>4. FinOK' /\ AtOK'
    BY <2>1 DEF FinOK, AtOK, Control
  <2> QED BY <2>3, <2>4
<1>14. CASE Return
  <2>1. /\ current \in tasks \ {ROOT} /\ ~Finished(current) /\ Settled /\ ret.to # "scopeError"
        /\ TaskEnd(current, "Done", NoMsg)
        /\ UNCHANGED <<tasks, scopes, live, nextTask, nextScope, fin, ret>>
    BY <1>14, UserFacts DEF Return, User, Finished, FinishedStates, NoWake
  <2> QED BY <2>1, TaskEndQuiet DEF FinishedStates, Msg
<1>15. CASE UnwindDone
  <2>1. /\ current \in tasks \ {ROOT} /\ ~Finished(current) /\ Settled /\ ret.to # "scopeError"
        /\ UNCHANGED <<tasks, scopes, live, nextTask, nextScope, fin, ret>>
    BY <1>15, UserFacts DEF UnwindDone, User, Finished, FinishedStates, NoWake
  <2>2. \E st \in FinishedStates, m \in Msg : TaskEnd(current, st, m)
    BY <1>15 DEF UnwindDone, FinishedStates, Msg, Typed
  <2> QED BY <2>1, <2>2, TaskEndQuiet
<1> QED BY <1>1, <1>2, <1>3, <1>4, <1>6, <1>7, <1>8, <1>9, <1>10, <1>11, <1>12, <1>13,
           <1>14, <1>15 DEF QuietUserStep

\* Fields the scheduler loop's record updates keep and set.
LEMMA LoopFields ==
  ASSUME NEW r \in TaskRec
  PROVE  /\ Resumed(r).state = "Running" /\ Resumed(r).scope = r.scope
         /\ Resumed(r).ending = r.ending /\ Resumed(r).started = r.started
         /\ Resumed(r).wake = NoWake /\ Resumed(r).cancel = r.cancel
         /\ BlockedOnChildren(r).state = "Blocked" /\ BlockedOnChildren(r).scope = r.scope
         /\ BlockedOnChildren(r).ending = r.ending
         /\ BlockedOnChildren(r).started = r.started
         /\ BlockedOnChildren(r).wake = r.wake /\ BlockedOnChildren(r).cancel = r.cancel
         /\ \A c : /\ SwitchedIn(r, c).state = "Running" /\ SwitchedIn(r, c).scope = r.scope
                   /\ SwitchedIn(r, c).ending = r.ending /\ SwitchedIn(r, c).started
                   /\ SwitchedIn(r, c).wake = NoWake /\ SwitchedIn(r, c).cancel = c
         /\ Requested(r).state = r.state /\ Requested(r).scope = r.scope
         /\ Requested(r).ending = r.ending /\ Requested(r).started = r.started
         /\ Requested(r).wake = r.wake /\ Requested(r).cancel = "Requested"
<1>1. /\ Resumed(r).state = "Running" /\ Resumed(r).scope = r.scope
      /\ Resumed(r).ending = r.ending /\ Resumed(r).started = r.started
      /\ Resumed(r).wake = NoWake /\ Resumed(r).cancel = r.cancel
  BY DEF Resumed, TaskRec
<1>2. /\ BlockedOnChildren(r).state = "Blocked" /\ BlockedOnChildren(r).scope = r.scope
      /\ BlockedOnChildren(r).ending = r.ending
      /\ BlockedOnChildren(r).started = r.started
      /\ BlockedOnChildren(r).wake = r.wake /\ BlockedOnChildren(r).cancel = r.cancel
  BY DEF BlockedOnChildren, TaskRec
<1>3. \A c : /\ SwitchedIn(r, c).state = "Running" /\ SwitchedIn(r, c).scope = r.scope
             /\ SwitchedIn(r, c).ending = r.ending /\ SwitchedIn(r, c).started
             /\ SwitchedIn(r, c).wake = NoWake /\ SwitchedIn(r, c).cancel = c
  BY DEF SwitchedIn, TaskRec
<1>4. /\ Requested(r).state = r.state /\ Requested(r).scope = r.scope
      /\ Requested(r).ending = r.ending /\ Requested(r).started = r.started
      /\ Requested(r).wake = r.wake /\ Requested(r).cancel = "Requested"
  BY DEF Requested, TaskRec
<1> QED BY <1>1, <1>2, <1>3, <1>4

\* Making one waiting task ready is quiet.
LEMMA ReadyQuiet ==
  ASSUME Typed, Control, NEW t \in tasks, NEW w \in Wake,
         ~Finished(t), rec[t].ending = "none",
         rec' = [rec EXCEPT ![t] = Readied(@, w)],
         w.to = "scopeError" => DoneScope(w.id),
         UNCHANGED <<tasks, scopes, sc, live, nextTask, nextScope, ret>>
  PROVE  /\ Quiet /\ RecStep
         /\ \A u \in tasks \ {t} : rec'[u] = rec[u]
         /\ rec'[t].started = rec[t].started
<1> DEFINE q == Readied(rec[t], w)
<1>1. rec[t] \in TaskRec
  BY DEF Typed
<1>2. q \in TaskRec
  BY <1>1, RecTypes
<1>3. /\ q.state = "Ready" /\ q.wake = w /\ q.scope = rec[t].scope /\ q.ending = "none"
      /\ q.started = rec[t].started
  BY <1>1, Fields
<1>4. rec' = [rec EXCEPT ![t] = q]
  OBVIOUS
<1> HIDE DEF q
<1>5. ret'.to = "scopeError" => DoneScope(ret.id)'
  BY RetKept
<1>6. q.state \notin FinishedStates
  BY <1>3 DEF FinishedStates
<1>7. Quiet /\ RecStep
  BY <1>2, <1>3, <1>4, <1>5, <1>6, OneRecordQuiet
<1>8. \A u \in tasks : rec'[u] = IF u = t THEN q ELSE rec[u]
  BY <1>4 DEF Typed
<1> QED BY <1>3, <1>7, <1>8

\* The user, notify and run positions survive a step that makes a blocked task
\* ready: it is neither the running task nor the one picked to run.
LEMMA ReadyAt ==
  ASSUME Typed, Control, NEW t \in tasks, rec[t].state = "Blocked",
         \A u \in tasks \ {t} : rec'[u] = rec[u],
         UNCHANGED <<tasks, current>>
  PROVE  /\ (at \in {"user", "notify"}) =>
              /\ current' \in tasks' /\ rec'[current'].state = "Running"
              /\ current' # ROOT => rec'[current'].started
         /\ at = "run" => subj \in tasks' \ {ROOT} /\ rec'[subj].state = "Ready"
  BY DEF Control, AtOK

QuietVMStep ==
    \/ NotifyOwner \/ EndCheck
    \/ \E j \in TaskId : WakeJoiner(j)
    \/ \E c \in TaskId : RequestCancel(c)
    \/ \E t \in TaskId : WakeCond(t)
    \/ PickRoot \/ PickChild \/ RunBlocked \/ RunSwitch \/ RunOverflow
    \/ \E t \in TaskId : WaitEvent(t)
    \/ WaitDone \/ Deadlock

\* The end of a finalize wakes or ends the owner of the scope.
LEMMA QuietNotify ==
  ASSUME Typed, Control, NotifyOwner
  PROVE  Quiet /\ RecStep /\ FinOK' /\ AtOK'
<1> DEFINE s == rec[fin.id].scope
           o == sc[s].owner
           here == s \in scopes /\ o \in tasks
           scopeDone == here /\ ScopeDone(s)
                             /\ rec[o].state = "Blocked" /\ rec[o].block = WaitFor("scope", s)
           ends == here /\ OwnedChildrenFinished(o) /\ rec[o].ending # "none"
           unwinds == here /\ OwnedChildrenFinished(o) /\ rec[o].ending = "none"
                           /\ rec[o].state = "Blocked" /\ rec[o].block.on = "cancel"
<1>1. /\ fin' = IF ends THEN Finalize(o, rec[o].ending) ELSE NoFin
      /\ rec' = IF scopeDone THEN [rec EXCEPT ![o] = Readied(@, ScopeWake(s))]
                ELSE IF unwinds THEN [rec EXCEPT ![o] = Readied(@, CancelWake(@))]
                ELSE rec
      /\ UNCHANGED <<tasks, scopes, sc, live, nextTask, nextScope, ret, current, at, subj, cancels>>
  BY DEF NotifyOwner
<1>2. here => o \in TaskId /\ rec[o] \in TaskRec /\ (rec[o].state = "Ending" <=> rec[o].ending # "none")
  BY DEF Typed, Control, RecOK
<1>3. \A r \in ScopeId : /\ ScopeWake(r) \in Wake
                         /\ ScopeWake(r).to = "scopeError" => ScopeWake(r).id = r
  <2> TAKE r \in ScopeId
  <2>1. CASE sc[r].failed = NoMsg
    BY <2>1 DEF ScopeWake, WakeWith, Wake, WakeTo
  <2>2. CASE sc[r].failed # NoMsg
    BY <2>2, ConstantsAssumption DEF ScopeWake, Wake, WakeTo, ScopeId
  <2> QED BY <2>1, <2>2
<1>4. \A r : CancelWake(r) = WakeWith("unit") /\ CancelWake(r) \in Wake /\ CancelWake(r).to # "scopeError"
  BY DEF CancelWake, WakeWith, Wake, WakeTo
<1>5. scopeDone => DoneScope(s)
  BY DEF DoneScope, ScopeDone, Control, RecOK, Typed
<1>6. s \in scopes => s \in ScopeId
  BY DEF Typed
<1> HIDE DEF s, o
<1>8. CASE scopeDone
  <2>1. o \in tasks /\ rec[o].state = "Blocked" /\ rec[o].ending = "none" /\ ~Finished(o)
    BY <1>2, <1>8 DEF Finished, FinishedStates
  <2>2. rec' = [rec EXCEPT ![o] = Readied(@, ScopeWake(s))]
    BY <1>1, <1>8
  <2>3. ScopeWake(s) \in Wake /\ (ScopeWake(s).to = "scopeError" => DoneScope(ScopeWake(s).id))
    BY <1>3, <1>5, <1>6, <1>8
  <2>4. Quiet /\ RecStep /\ \A u \in tasks \ {o} : rec'[u] = rec[u]
    BY <1>1, <2>1, <2>2, <2>3, ReadyQuiet
  <2>5. fin' = NoFin
    BY <1>1, <2>1
  <2>6. AtOK'
    BY <1>1, <2>1, <2>4, <2>5, ReadyAt, RootIsTask DEF AtOK, Control, NoFin, Typed
  <2> QED BY <2>4, <2>5, <2>6 DEF FinOK
<1>9. CASE ~scopeDone /\ unwinds
  <2>1. o \in tasks /\ rec[o].state = "Blocked" /\ rec[o].ending = "none" /\ ~Finished(o)
    BY <1>2, <1>9 DEF Finished, FinishedStates
  <2>2. rec' = [rec EXCEPT ![o] = Readied(@, WakeWith("unit"))]
    BY <1>1, <1>4, <1>9
  <2>3. WakeWith("unit") \in Wake /\ WakeWith("unit").to # "scopeError"
    BY <1>4
  <2>4. Quiet /\ RecStep /\ \A u \in tasks \ {o} : rec'[u] = rec[u]
    BY <1>1, <2>1, <2>2, <2>3, ReadyQuiet
  <2>5. fin' = NoFin
    BY <1>1, <2>1
  <2>6. AtOK'
    BY <1>1, <2>1, <2>4, <2>5, ReadyAt, RootIsTask DEF AtOK, Control, NoFin, Typed
  <2> QED BY <2>4, <2>5, <2>6 DEF FinOK
<1>10. CASE ~scopeDone /\ ~unwinds
  <2>1. rec' = rec /\ UNCHANGED <<tasks, rec, scopes, sc, live, nextTask, nextScope>>
    BY <1>1, <1>10
  <2>2. ret'.to = "scopeError" => DoneScope(ret.id)'
    BY <1>1, RetKept
  <2>3. Quiet /\ RecStep
    BY <2>1, <2>2, NothingQuiet
  <2>4. FinOK' /\ AtOK'
    <3>1. CASE ends
      <4>1. fin' = Finalize(o, rec[o].ending) /\ rec[o].state = "Ending" /\ o \in tasks
            /\ rec[o].ending \in FinishedStates /\ OwnedChildrenFinished(o)
        BY <1>1, <1>2, <3>1 DEF TaskRec
      <4>2. o # ROOT
        BY <4>1 DEF Control, RecOK
      <4>3. fin'.id = o /\ fin'.state = rec[o].ending /\ fin'.step = "state"
        BY <4>1 DEF Finalize
      <4>4. OwnedChildrenFinished(fin.id)'
        BY <4>1, <4>3, <2>3, QuietSets DEF OwnedChildrenFinished, ScopesOwnedBy, Quiet
      <4>5. FinOK'
        BY <4>1, <4>2, <4>3, <4>4, <2>1 DEF FinOK, FinishedStates
      <4>6. AtOK'
        BY <1>1, <2>1, <4>1, <4>3 DEF AtOK, Control
      <4> QED BY <4>5, <4>6
    <3>2. CASE ~ends
      <4>1. fin' = NoFin
        BY <1>1, <3>2
      <4>2. FinOK'
        BY <4>1 DEF FinOK
      <4>3. AtOK'
        <5>1. fin'.id \notin TaskId
          BY <4>1, RootIsTask DEF NoFin
        <5>2. at = "run" => subj \in TaskId
          BY DEF Control, AtOK, Typed
        <5> QED BY <1>1, <2>1, <5>1, <5>2 DEF AtOK, Control
      <4> QED BY <4>2, <4>3
    <3> QED BY <3>1, <3>2
  <2> QED BY <2>3, <2>4
<1> QED BY <1>8, <1>9, <1>10

\* The rest of task_end: finalize the task if its own scopes are done.
LEMMA QuietEndCheck ==
  ASSUME Typed, Control, EndCheck
  PROVE  Quiet /\ RecStep /\ FinOK' /\ AtOK'
<1>1. /\ UNCHANGED <<tasks, rec, scopes, sc, live, nextTask, nextScope, ret, current, cancels>>
      /\ at' = "pick" /\ at = "end"
      /\ fin' = IF EndsNow(subj) THEN Finalize(subj, rec[subj].ending) ELSE NoFin
  BY DEF EndCheck, schedVars
<1>2. ret'.to = "scopeError" => DoneScope(ret.id)'
  BY <1>1, RetKept
<1>3. Quiet /\ RecStep
  BY <1>1, <1>2, NothingQuiet
<1>4. AtOK'
  BY <1>1 DEF AtOK
<1>5. FinOK'
  <2>1. CASE EndsNow(subj)
    <3>1. /\ subj \in tasks /\ subj # ROOT /\ rec[subj].state = "Ending"
          /\ OwnedChildrenFinished(subj)
      BY <1>1, <2>1 DEF EndsNow, Control, AtOK
    <3>2. rec[subj].ending \in FinishedStates
      BY <3>1 DEF Control, RecOK, Typed, TaskRec
    <3>3. fin'.id = subj /\ fin'.state = rec[subj].ending /\ fin'.step = "state"
      BY <1>1, <2>1 DEF Finalize
    <3>4. OwnedChildrenFinished(fin.id)'
      BY <3>1, <3>3, <1>1 DEF OwnedChildrenFinished, ScopesOwnedBy
    <3> QED BY <1>1, <3>1, <3>2, <3>3, <3>4 DEF FinOK, FinishedStates
  <2>2. CASE ~EndsNow(subj)
    BY <1>1, <2>2 DEF FinOK
  <2> QED BY <2>1, <2>2
<1> QED BY <1>3, <1>4, <1>5

\* One joiner of a finished task is woken, or skipped if it waits no more.
LEMMA QuietJoiner ==
  ASSUME Typed, Control, NEW j \in TaskId, WakeJoiner(j)
  PROVE  Quiet /\ RecStep /\ FinOK' /\ AtOK'
<1> DEFINE f == fin.id
           wakes == j \in tasks /\ rec[j].state = "Blocked" /\ rec[j].block = WaitFor("join", f)
           p == JoinedBy(rec[f], rec[f].joiners \ {j})
           w == WakeWith("status")
           q == Readied(rec[j], w)
<1>1. /\ fin.step = "wake"
      /\ rec' = [t \in TaskId |-> IF t = f THEN p ELSE IF t = j /\ wakes THEN q ELSE rec[t]]
      /\ UNCHANGED <<tasks, scopes, sc, live, nextTask, nextScope, ret, current, at, subj,
                     cancels, fin>>
  BY DEF WakeJoiner
<1>2. f \in tasks \ {ROOT} /\ rec[f].state \in FinishedStates /\ rec[f] \in TaskRec
  BY <1>1 DEF Control, FinOK, NoFin, Typed
<1>3. rec[j] \in TaskRec
  BY DEF Typed
<1>4. /\ p.state = rec[f].state /\ p.wake = rec[f].wake /\ p.scope = rec[f].scope
      /\ p.ending = rec[f].ending /\ p.started = rec[f].started
  BY <1>2, Fields
<1>5. w.to # "scopeError"
  BY DEF WakeWith
<1>6. /\ q.state = "Ready" /\ q.wake = w /\ q.scope = rec[j].scope
      /\ q.ending = rec[j].ending /\ q.started = rec[j].started
  BY <1>3, Fields
<1> HIDE DEF f, p, q, w
<1>7. \A t \in tasks : rec'[t] = IF t = f THEN p ELSE IF t = j /\ wakes THEN q ELSE rec[t]
  BY <1>1 DEF Typed
<1>8. wakes => rec[j].ending = "none"
  BY DEF Control, RecOK
<1>9. ret'.to = "scopeError" => DoneScope(ret.id)'
  BY <1>1, RetKept
<1>10. Quiet
  BY <1>1, <1>4, <1>6, <1>7 DEF Quiet, FinishedStates
<1>11. RecStep
  <2>1. \A t \in tasks : rec'[t].state = "Ending" <=> rec'[t].ending # "none"
    BY <1>4, <1>6, <1>7, <1>8 DEF Control, RecOK
  <2>2. rec'[ROOT].state \in {"Ready", "Running", "Blocked"}
    BY <1>2, <1>6, <1>7 DEF Control, RecOK
  <2>3. \A t \in tasks : rec'[t].wake = rec[t].wake \/ rec'[t].wake.to # "scopeError"
    BY <1>4, <1>5, <1>6, <1>7
  <2>4. \A t \in tasks : rec[t].started => rec'[t].started
    BY <1>4, <1>6, <1>7
  <2> QED BY <1>9, <2>1, <2>2, <2>3, <2>4 DEF RecStep
<1>12. FinOK'
  <2>1. rec'[f].state = rec[f].state
    BY <1>2, <1>4, <1>7
  <2> QED BY <1>1, <1>2, <2>1 DEF FinOK, f, Control, NoFin
<1>13. AtOK'
  <2>1. \A t \in tasks : rec[t].state \in {"Running", "Ready"} => rec'[t] = rec[t]
    BY <1>2, <1>7 DEF FinishedStates
  <2> QED BY <1>1, <2>1 DEF AtOK, Control
<1> QED BY <1>10, <1>11, <1>12, <1>13

\* A cancel request drops a task that never started, or marks the task and
\* wakes it.
LEMMA QuietCancel ==
  ASSUME Typed, Control, NEW c \in TaskId, RequestCancel(c)
  PROVE  Quiet /\ RecStep /\ FinOK' /\ AtOK'
<1>1. /\ fin = NoFin /\ c \in cancels /\ cancels' = cancels \ {c}
      /\ UNCHANGED <<tasks, scopes, sc, live, nextTask, nextScope, ret, current, at, subj>>
  BY DEF RequestCancel
<1>2. ret'.to = "scopeError" => DoneScope(ret.id)'
  BY <1>1, RetKept
<1>3. CASE ~Cancellable(c)
  <2>1. rec' = rec /\ fin' = fin
    BY <1>3 DEF RequestCancel
  <2>2. Quiet /\ RecStep
    BY <1>1, <1>2, <2>1, NothingQuiet
  <2> QED BY <1>1, <2>1, <2>2 DEF FinOK, AtOK, Control
<1>4. CASE Cancellable(c) /\ ~rec[c].started
  <2>1. rec' = rec /\ fin' = Finalize(c, "Dropped")
    BY <1>4 DEF RequestCancel
  <2>2. Quiet /\ RecStep
    BY <1>1, <1>2, <2>1, NothingQuiet
  <2>3. c \in tasks \ {ROOT} /\ rec[c].state \notin FinishedStates
    BY <1>4 DEF Cancellable, Finished
  <2>4. fin'.id = c /\ fin'.state = "Dropped" /\ fin'.step = "state"
    BY <2>1 DEF Finalize
  <2>5. ScopesOwnedBy(c) = {}
    BY <1>4, <2>3 DEF Control, RecOK
  <2>6. OwnedChildrenFinished(fin.id)'
    BY <1>1, <2>4, <2>5 DEF OwnedChildrenFinished, ScopesOwnedBy
  <2>7. FinOK'
    BY <1>1, <1>4, <2>1, <2>3, <2>4, <2>6 DEF FinOK, FinishedStates
  <2>8. AtOK'
    BY <1>1, <2>1, <2>4 DEF AtOK, Control
  <2> QED BY <2>2, <2>7, <2>8
<1>5. CASE Cancellable(c) /\ rec[c].started
  <2> DEFINE q == CancelRec(c)
  <2>1. rec' = [rec EXCEPT ![c] = q] /\ fin' = fin
    BY <1>5 DEF RequestCancel
  <2>2. c \in tasks \ {ROOT} /\ rec[c].state \notin FinishedStates /\ rec[c].state # "Ending"
        /\ rec[c] \in TaskRec
    BY <1>5 DEF Cancellable, Finished, Typed
  <2>3. rec[c].ending = "none"
    BY <2>2 DEF Control, RecOK
  <2>4. q \in TaskRec
    BY CancelRecType
  <2>5. /\ q.scope = rec[c].scope /\ q.ending = "none" /\ q.started = rec[c].started
        /\ q.state = rec[c].state \/ (q.state = "Ready" /\ rec[c].state = "Blocked")
        /\ q.wake = rec[c].wake \/ q.wake.to # "scopeError"
    <3> DEFINE r == Requested(rec[c])
               w == WakeWith(IF r.block.on = "retry" THEN "retry" ELSE "unit")
    <3>1. /\ r.state = rec[c].state /\ r.scope = rec[c].scope /\ r.ending = rec[c].ending
          /\ r.started = rec[c].started /\ r.wake = rec[c].wake
      BY <2>2, LoopFields
    <3>2. r \in TaskRec
      BY <2>2 DEF Requested, TaskRec
    <3>3. w.to # "scopeError"
      BY DEF WakeWith
    <3>4. q = r \/ (rec[c].state = "Blocked" /\ q = Readied(r, w))
      BY <3>1 DEF CancelRec
    <3> HIDE DEF r, w, q
    <3>5. /\ Readied(r, w).state = "Ready" /\ Readied(r, w).wake = w
          /\ Readied(r, w).scope = r.scope /\ Readied(r, w).ending = r.ending
          /\ Readied(r, w).started = r.started
      BY <3>2, Fields
    <3> QED BY <2>3, <3>1, <3>3, <3>4, <3>5
  <2> HIDE DEF q
  <2>6. q.state \notin FinishedStates /\ ~Finished(c) /\ q.state # "Ending"
    BY <2>2, <2>5 DEF FinishedStates, Finished
  <2>7. Quiet /\ RecStep
    BY <1>1, <1>2, <2>1, <2>2, <2>4, <2>5, <2>6, OneRecordQuiet
  <2>8. \A t \in tasks : rec'[t] = IF t = c THEN q ELSE rec[t]
    BY <2>1 DEF Typed
  <2>9. AtOK'
    BY <1>1, <2>1, <2>5, <2>8 DEF AtOK, Control
  <2> QED BY <1>1, <2>1, <2>7, <2>9 DEF FinOK
<1> QED BY <1>3, <1>4, <1>5

\* task_run_next resumes the root or picks a child.
LEMMA QuietPick ==
  ASSUME Typed, Control, Tree, PickRoot \/ PickChild
  PROVE  Quiet /\ RecStep /\ FinOK' /\ AtOK'
<1>1. CASE PickRoot
  <2>1. /\ fin = NoFin /\ at = "pick"
        /\ UNCHANGED <<tasks, scopes, sc, live, nextTask, nextScope, fin, subj, cancels>>
    BY <1>1 DEF PickRoot, Settled
  <2>2. CASE rec[ROOT].state = "Ready"
    <3> DEFINE q == Resumed(rec[ROOT])
    <3>1. /\ rec' = [rec EXCEPT ![ROOT] = q] /\ current' = ROOT /\ at' = "user"
          /\ ret' \in {rec[ROOT].wake, NoWake}
      BY <1>1, <2>2 DEF PickRoot
    <3>2. ROOT \in tasks /\ rec[ROOT] \in TaskRec /\ rec[ROOT].ending = "none"
      BY <2>2, RootIsTask DEF Control, RecOK, Typed
    <3>3. /\ q.state = "Running" /\ q.scope = rec[ROOT].scope /\ q.ending = "none"
          /\ q.started = rec[ROOT].started /\ q.wake = NoWake
      BY <3>2, LoopFields
    <3>4. q \in TaskRec
      BY <3>2, LoopRecTypes
    <3> HIDE DEF q
    <3>5. q.state \notin FinishedStates /\ ~Finished(ROOT) /\ q.wake.to # "scopeError"
      BY <2>2, <3>3 DEF FinishedStates, Finished, NoWake
    <3>6. ret'.to = "scopeError" => DoneScope(ret.id)'
      <4>1. ASSUME ret'.to = "scopeError" PROVE DoneScope(ret.id)'
        <5>1. ret' = rec[ROOT].wake
          BY <3>1, <4>1 DEF NoWake
        <5>2. DoneScope(ret'.id)
          BY <3>2, <4>1, <5>1 DEF Control, WakeOK
        <5> QED BY <2>1, <5>2 DEF DoneScope
      <4> QED BY <4>1
    <3>7. Quiet /\ RecStep
      BY <2>1, <3>1, <3>2, <3>3, <3>4, <3>5, <3>6, OneRecordQuiet
    <3>8. rec'[ROOT] = q
      BY <3>1, RootIsTask DEF Typed
    <3> QED BY <2>1, <3>1, <3>2, <3>3, <3>7, <3>8 DEF FinOK, AtOK
  <2>3. CASE rec[ROOT].state # "Ready"
    <3>1. UNCHANGED <<current, at, rec, ret>>
      BY <1>1, <2>3 DEF PickRoot
    <3>2. ret'.to = "scopeError" => DoneScope(ret.id)'
      BY <2>1, <3>1, RetKept
    <3>3. Quiet /\ RecStep
      BY <2>1, <3>1, <3>2, NothingQuiet
    <3> QED BY <2>1, <3>1, <3>3 DEF FinOK, AtOK
  <2> QED BY <2>2, <2>3
<1>2. CASE PickChild
  <2> DEFINE t == Head(runQueue)
  <2>1. /\ fin = NoFin /\ at = "pick"
        /\ UNCHANGED <<tasks, rec, scopes, sc, live, nextTask, nextScope, fin, ret, current>>
        /\ \/ /\ t \in tasks \ {ROOT} /\ rec[t].state = "Ready" /\ at' = "run" /\ subj' = t
              /\ cancels' \subseteq ChildrenOwnedBy(t)
           \/ UNCHANGED at
    BY <1>2 DEF PickChild, Settled
  <2>2. t \notin ChildrenOwnedBy(t)
    <3>1. ASSUME NEW u \in tasks \ {ROOT}, u \in ChildrenOwnedBy(u) PROVE FALSE
      <4>1. sc[rec[u].scope].owner = u
        BY <3>1 DEF ChildrenOwnedBy, Children, ScopesOwnedBy
      <4>2. sc[rec[u].scope].owner < u /\ u \in Int
        BY <3>1, ConstantsAssumption DEF Tree, Typed, TaskId
      <4> QED BY <4>1, <4>2
    <3>2. \A u : u \in ChildrenOwnedBy(u) => u \in tasks \ {ROOT}
      BY DEF ChildrenOwnedBy, Children
    <3> QED BY <3>1, <3>2
  <2> HIDE DEF t
  <2>3. ret'.to = "scopeError" => DoneScope(ret.id)'
    BY <2>1, RetKept
  <2>4. Quiet /\ RecStep
    BY <2>1, <2>3, NothingQuiet
  <2>5. FinOK' /\ AtOK'
    BY <2>1, <2>2, RootIsTask DEF FinOK, AtOK, NoFin, Typed
  <2> QED BY <2>4, <2>5
<1> QED BY <1>1, <1>2

\* The picked child waits for its children, is switched in, or overflows.
LEMMA QuietRun ==
  ASSUME Typed, Control, RunBlocked \/ RunSwitch \/ RunOverflow
  PROVE  Quiet /\ RecStep /\ FinOK' /\ AtOK'
<1>1. at = "run" /\ Settled
  BY DEF RunBlocked, RunSwitch, RunOverflow
<1>2. /\ subj \in tasks \ {ROOT} /\ subj \in TaskId /\ rec[subj] \in TaskRec
      /\ rec[subj].state = "Ready" /\ rec[subj].ending = "none" /\ ~Finished(subj)
  BY <1>1 DEF Control, AtOK, RecOK, Typed, Finished, FinishedStates
<1>3. CASE RunBlocked
  <2> DEFINE q == BlockedOnChildren(rec[subj])
  <2>1. /\ rec' = [rec EXCEPT ![subj] = q] /\ at' = "pick"
        /\ UNCHANGED <<tasks, scopes, sc, live, nextTask, nextScope, fin, ret>>
    BY <1>3 DEF RunBlocked
  <2>2. /\ q.state = "Blocked" /\ q.scope = rec[subj].scope /\ q.ending = "none"
        /\ q.started = rec[subj].started /\ q.wake = rec[subj].wake
    BY <1>2, LoopFields
  <2>3. q \in TaskRec
    BY <1>2, LoopRecTypes
  <2> HIDE DEF q
  <2>4. q.state \notin FinishedStates
    BY <2>2 DEF FinishedStates
  <2>5. ret'.to = "scopeError" => DoneScope(ret.id)'
    BY <2>1, RetKept
  <2>6. Quiet /\ RecStep
    BY <1>2, <2>1, <2>2, <2>3, <2>4, <2>5, OneRecordQuiet
  <2> QED BY <1>1, <2>1, <2>6 DEF FinOK, AtOK, Settled
<1>4. CASE RunSwitch
  <2>1. /\ current' = subj /\ at' = "user"
        /\ sc' \in {sc, Unframed(sc, subj)}
        /\ ret' \in {rec[subj].wake, NoWake}
        /\ UNCHANGED <<tasks, scopes, live, nextTask, nextScope, fin>>
    BY <1>4 DEF RunSwitch
  <2>2. PICK c \in {"None", "Requested", "Unwinding"} : rec' = [rec EXCEPT ![subj] = SwitchedIn(@, c)]
    <3>1. rec[subj].cancel \in {"None", "Requested", "Unwinding"}
      BY <1>2 DEF TaskRec
    <3> QED BY <1>4, <3>1 DEF RunSwitch
  <2> DEFINE q == SwitchedIn(rec[subj], c)
  <2>3. rec' = [rec EXCEPT ![subj] = q]
    BY <2>2
  <2>4. /\ q.state = "Running" /\ q.scope = rec[subj].scope /\ q.ending = "none"
        /\ q.started /\ q.wake = NoWake
    BY <1>2, LoopFields
  <2>5. q \in TaskRec
    BY <1>2, LoopRecTypes
  <2> HIDE DEF q
  <2>6. \A s \in scopes : /\ sc'[s].owner = sc[s].owner
                          /\ sc'[s].unfinished = sc[s].unfinished
                          /\ sc[s].closed => sc'[s].closed
    BY ZenonT(40), <2>1 DEF Unframed, Typed, ScopeRecZ
  <2>7. ret'.to = "scopeError" => DoneScope(ret.id)'
    <3>1. ASSUME ret'.to = "scopeError" PROVE DoneScope(ret.id)'
      <4>1. ret' = rec[subj].wake
        BY <2>1, <3>1 DEF NoWake
      <4>2. DoneScope(ret'.id)
        BY <1>2, <3>1, <4>1 DEF Control, WakeOK
      <4> QED BY <2>1, <2>6, <4>2 DEF DoneScope
    <3> QED BY <3>1
  <2>8. q.state \notin FinishedStates /\ q.wake.to # "scopeError"
    BY <2>4 DEF FinishedStates, NoWake
  <2>9. Quiet /\ RecStep
    BY <1>2, <2>1, <2>3, <2>4, <2>5, <2>6, <2>7, <2>8, OneRecordQuiet
  <2>10. rec'[subj] = q
    BY <1>2, <2>3 DEF Typed
  <2> QED BY <1>1, <1>2, <2>1, <2>4, <2>9, <2>10 DEF FinOK, AtOK, Settled
<1>5. CASE RunOverflow
  <2>1. /\ TaskEnd(subj, "Failed", subj)
        /\ UNCHANGED <<tasks, scopes, live, nextTask, nextScope, fin, ret>>
    BY <1>5 DEF RunOverflow
  <2> QED BY <1>1, <1>2, <2>1, TaskEndQuiet DEF FinishedStates, Msg
<1> QED BY <1>3, <1>4, <1>5

\* Events, notifications and the deadlock wake make tasks ready.
LEMMA QuietWake ==
  ASSUME Typed, Control,
         (\E t \in TaskId : WakeCond(t) \/ WaitEvent(t)) \/ WaitDone \/ Deadlock
  PROVE  Quiet /\ RecStep /\ FinOK' /\ AtOK'
<1>1. ASSUME NEW t \in TaskId, WakeCond(t) PROVE Quiet /\ RecStep /\ FinOK' /\ AtOK'
  <2>1. /\ t \in tasks /\ rec[t].state = "Blocked" /\ at = "notify" /\ at' \in {"user", "notify"}
        /\ rec' = [rec EXCEPT ![t] = Readied(@, WakeWith("status"))]
        /\ UNCHANGED <<tasks, scopes, sc, live, nextTask, nextScope, ret, fin, current>>
    BY <1>1 DEF WakeCond, CondWaiters
  <2>2. ~Finished(t) /\ rec[t].ending = "none"
    BY <2>1 DEF Finished, FinishedStates, Control, RecOK
  <2>3. WakeWith("status") \in Wake /\ WakeWith("status").to # "scopeError"
    BY DEF WakeWith, Wake, WakeTo
  <2>4. Quiet /\ RecStep /\ \A u \in tasks \ {t} : rec'[u] = rec[u]
    BY <2>1, <2>2, <2>3, ReadyQuiet
  <2>5. AtOK'
    BY <2>1, <2>4, ReadyAt DEF AtOK
  <2>6. FinOK'
    <3>1. rec'[t].started = rec[t].started /\ (rec'[t].state \in FinishedStates <=> rec[t].state \in FinishedStates)
      BY <2>1, <2>2, <2>3, <2>4, ReadyQuiet DEF Quiet
    <3>2. \A u : OwnedChildrenFinished(u)' <=> OwnedChildrenFinished(u)
      BY <2>4, QuietSets
    <3>3. OwnedChildrenFinished(fin.id)' <=> OwnedChildrenFinished(fin.id)
      BY <2>1 DEF OwnedChildrenFinished, ScopesOwnedBy
    <3> QED BY <2>1, <2>4, <3>1, <3>3 DEF FinOK, Control
  <2> QED BY <2>4, <2>5, <2>6
<1>2. ASSUME NEW t \in TaskId, WaitEvent(t) PROVE Quiet /\ RecStep /\ FinOK' /\ AtOK'
  <2> DEFINE w == WakeWith(IF rec[t].block.on = "retry" THEN "retry" ELSE "unit")
  <2>1. /\ t \in tasks /\ rec[t].state = "Blocked" /\ at' = "wait" /\ fin = NoFin
        /\ rec' = [rec EXCEPT ![t] = Readied(@, w)]
        /\ UNCHANGED <<tasks, scopes, sc, live, nextTask, nextScope, ret, fin>>
    BY <1>2 DEF WaitEvent, Unmoved, Settled
  <2>2. ~Finished(t) /\ rec[t].ending = "none"
    BY <2>1 DEF Finished, FinishedStates, Control, RecOK
  <2>3. w \in Wake /\ w.to # "scopeError"
    BY DEF WakeWith, Wake, WakeTo
  <2> HIDE DEF w
  <2>4. Quiet /\ RecStep
    BY <2>1, <2>2, <2>3, ReadyQuiet
  <2> QED BY <2>1, <2>4 DEF FinOK, AtOK
<1>3. CASE WaitDone
  <2>1. /\ at' = "pick" /\ UNCHANGED <<tasks, rec, scopes, sc, live, nextTask, nextScope, ret, fin>>
    BY <1>3 DEF WaitDone, schedVars
  <2>2. ret'.to = "scopeError" => DoneScope(ret.id)'
    BY <2>1, RetKept
  <2>3. Quiet /\ RecStep
    BY <2>1, <2>2, NothingQuiet
  <2> QED BY <2>1, <2>3 DEF FinOK, AtOK, Control, OwnedChildrenFinished, ScopesOwnedBy
<1>4. CASE Deadlock
  <2>1. /\ at' = "pick" /\ fin = NoFin /\ rec' = [rec EXCEPT ![ROOT] = Readied(@, WakeWith("deadlock"))]
        /\ UNCHANGED <<tasks, scopes, sc, live, nextTask, nextScope, ret, fin>>
    BY <1>4 DEF Deadlock, DeadlockRec, ctlVars, Settled
  <2>2. ROOT \in tasks /\ ~Finished(ROOT) /\ rec[ROOT].ending = "none"
    BY DEF Finished, FinishedStates, Control, RecOK
  <2>3. WakeWith("deadlock") \in Wake /\ WakeWith("deadlock").to # "scopeError"
    BY DEF WakeWith, Wake, WakeTo
  <2>4. Quiet /\ RecStep
    BY <2>1, <2>2, <2>3, ReadyQuiet
  <2> QED BY <2>1, <2>4 DEF FinOK, AtOK
<1> QED BY <1>1, <1>2, <1>3, <1>4

\* So are the scheduler's steps that neither finish a task nor remove records.
LEMMA QuietVM ==
  ASSUME Typed, Control, Tree, QuietVMStep
  PROVE  Quiet /\ RecStep /\ FinOK' /\ AtOK'
  BY QuietNotify, QuietEndCheck, QuietJoiner, QuietCancel, QuietPick, QuietRun, QuietWake
  DEF QuietVMStep

-----------------------------------------------------------------------------
(* The steps that change the tree. *)

\* The sets the counters count are finite, and empty when the counter is zero.
LEMMA OpenSets ==
  ASSUME Typed, CountersExact
  PROVE  /\ \A s : IsFiniteSet(Open(s))
         /\ IsFiniteSet(OpenTasks)
         /\ \A s \in scopes : sc[s].unfinished = Cardinality(Open(s))
         /\ live = Cardinality(OpenTasks)
         /\ \A s \in scopes : sc[s].unfinished = 0 => Open(s) = {}
         /\ \A s \in scopes : sc[s].unfinished \in Nat
         /\ live \in Nat
<1>1. IsFiniteSet(TaskId)
  BY FS_Interval, ConstantsAssumption DEF TaskId
<1>2. \A s : IsFiniteSet(Open(s))
  <2> TAKE s
  <2>1. Open(s) \subseteq TaskId
    BY DEF Open, Children, Typed
  <2> QED BY <1>1, <2>1, FS_Subset
<1>3. IsFiniteSet(OpenTasks)
  <2>1. OpenTasks \subseteq TaskId
    BY DEF OpenTasks, Typed
  <2> QED BY <1>1, <2>1, FS_Subset
<1>4. \A s \in scopes : sc[s].unfinished = Cardinality(Open(s))
  BY DEF CountersExact, Open
<1>5. live = Cardinality(OpenTasks)
  BY DEF CountersExact, OpenTasks
<1>6. \A s \in scopes : sc[s].unfinished = 0 => Open(s) = {}
  BY <1>2, <1>4, FS_EmptySet
<1>7. \A s \in scopes : sc[s].unfinished \in Nat
  BY <1>2, <1>4, FS_CardinalityType
<1>8. live \in Nat
  BY <1>3, <1>5, FS_CardinalityType
<1> QED BY <1>2, <1>3, <1>4, <1>5, <1>6, <1>7, <1>8

\* A scheduler dropped with nothing left in it.
LEMMA ResetTree ==
  ASSUME Typed, tasks' = {ROOT}, rec' = [t \in TaskId |-> BlankRec(t)], scopes' = {},
         live' = 0, nextTask' = 1, nextScope' = 1, ret'.to # "scopeError"
  PROVE  RecOK' /\ WakeOK' /\ Tree' /\ CountersExact' /\ rec'[ROOT].state = "Running"
<1>1. rec'[ROOT] = RootRec
  BY RootIsTask DEF BlankRec
<1>2. rec'[ROOT].state = "Running" /\ rec'[ROOT].ending = "none" /\ rec'[ROOT].wake.to # "scopeError"
  BY <1>1 DEF RootRec, FreshRec, NoWake
<1>3. RecOK'
  BY <1>2, ConstantsAssumption DEF RecOK, ROOT
<1>4. WakeOK'
  BY <1>2 DEF WakeOK
<1>5. Tree'
  BY DEF Tree, Structured
<1>6. CountersExact'
  <2>1. {t \in tasks' \ {ROOT} : ~(rec'[t].state \in FinishedStates)} = {}
    OBVIOUS
  <2> QED BY <2>1, FS_EmptySet DEF CountersExact, Finished
<1> QED BY <1>2, <1>3, <1>4, <1>5, <1>6

\* task_scope_open keeps the invariant.
LEMMA OpenScope ==
  ASSUME Typed, Typed', Control, Tree, CountersExact, ScopeOpen
  PROVE  Control' /\ Tree' /\ CountersExact'
<1> DEFINE n == nextScope
<1>1. /\ scopes' = scopes \cup {n} /\ n \in ScopeId /\ n \notin scopes /\ n \in Int
      /\ nextScope' = n + 1 /\ fin = NoFin /\ at = "user" /\ ret = NoWake
      /\ UNCHANGED <<tasks, rec, live, nextTask, current, at, subj, cancels, fin, ret>>
  BY ConstantsAssumption DEF ScopeOpen, User, Settled, Typed, ScopeId, Control, RecOK
<1>2. sc'[n] = NewScope(current) /\ \A s \in scopes : sc'[s] = sc[s]
  BY <1>1 DEF ScopeOpen, Typed
<1>3. /\ current \in tasks /\ rec[current].state = "Running"
      /\ current # ROOT => rec[current].started
  BY <1>1, UserFacts
<1>4. sc'[n].owner = current /\ sc'[n].unfinished = 0
  BY <1>2 DEF NewScope
<1> HIDE DEF n
<1>5. RecOK'
  <2>1. \A t \in tasks \ {ROOT} : ~rec[t].started => ScopesOwnedBy(t)' = {}
    <3> TAKE t \in tasks \ {ROOT}
    <3> HAVE ~rec[t].started
    <3>1. ScopesOwnedBy(t) = {} /\ t # current
      BY <1>3 DEF Control, RecOK
    <3> QED BY <1>1, <1>2, <1>4, <3>1 DEF ScopesOwnedBy
  <2>2. \A s \in scopes' : s < nextScope'
    BY <1>1 DEF Control, RecOK, Typed, ScopeId, n
  <2> QED BY <1>1, <2>1, <2>2 DEF Control, RecOK
<1>6. WakeOK'
  <2>1. \A s : DoneScope(s) => DoneScope(s)'
    <3> TAKE s
    <3> HAVE DoneScope(s)
    <3>1. s \in ScopeId /\ s < n /\ s \in Int
      BY DEF DoneScope, n, ScopeId
    <3> QED BY <1>1, <1>2, <3>1 DEF DoneScope
  <2>2. \A t \in tasks : rec[t].wake.to = "scopeError" => DoneScope(rec[t].wake.id)
    BY DEF Control, WakeOK
  <2>3. ASSUME NEW t \in tasks', rec'[t].wake.to = "scopeError" PROVE DoneScope(rec[t].wake.id)'
    <3> DEFINE i == rec[t].wake.id
    <3>1. DoneScope(i) /\ rec'[t].wake.id = i
      BY <1>1, <2>2, <2>3
    <3>2. i \in ScopeId /\ i < nextScope' /\ (i \in scopes' => sc'[i].closed /\ sc'[i].unfinished = 0)
      BY <2>1, <3>1 DEF DoneScope
    <3> QED BY <3>1, <3>2 DEF DoneScope
  <2> QED BY <1>1, <2>3 DEF WakeOK, NoWake
<1>7. Tree'
  BY <1>1, <1>2, <1>3, <1>4 DEF Tree, Structured, Finished, FinishedStates
<1>8. CountersExact'
  <2>1. \A s : Children(s)' = Children(s) /\ Open(s)' = Open(s)
    BY <1>1 DEF Children, Open, Finished
  <2>2. Open(n) = {}
    BY <1>1 DEF Tree, Structured, Open, Children
  <2>3. \A s \in scopes' : sc'[s].unfinished = Cardinality(Open(s)')
    BY <1>1, <1>2, <1>4, <2>1, <2>2, OpenSets, FS_EmptySet
  <2>4. OpenTasks' = OpenTasks
    BY <1>1 DEF OpenTasks, Finished
  <2>5. live' = Cardinality(OpenTasks')
    BY <1>1, <2>4, OpenSets
  <2> QED BY <2>3, <2>5 DEF CountersExact, Open, OpenTasks
<1>9. FinOK' /\ AtOK'
  BY <1>1 DEF FinOK, AtOK, Control
<1> QED BY <1>5, <1>6, <1>7, <1>8, <1>9 DEF Control

\* task_spawn adds one unfinished child to an open scope.
LEMMA SpawnChild ==
  ASSUME Typed, Typed', Control, Tree, CountersExact, NEW s \in ScopeId, Spawn(s)
  PROVE  Control' /\ Tree' /\ CountersExact'
<1> DEFINE n == nextTask
<1>1. /\ tasks' = tasks \cup {n} /\ n \in TaskId \ {ROOT} /\ n \notin tasks /\ n \in Int
      /\ nextTask' = n + 1 /\ live' = live + 1 /\ s \in scopes /\ ~sc[s].closed
      /\ fin = NoFin /\ at = "user" /\ ret = NoWake
      /\ UNCHANGED <<scopes, nextScope, current, at, subj, cancels, fin, ret>>
  BY ConstantsAssumption DEF Spawn, User, Settled, Typed, TaskId, ROOT, Control, RecOK
<1>2. rec'[n] = NewRec(s) /\ \A t \in tasks : rec'[t] = rec[t]
  BY <1>1 DEF Spawn, Typed
<1>3. /\ rec'[n].state = "Ready" /\ rec'[n].scope = s /\ rec'[n].ending = "none"
      /\ rec'[n].wake = NoWake /\ ~rec'[n].started
  BY <1>2 DEF NewRec, FreshRec
<1>4. /\ sc'[s] = Counted(sc[s], sc[s].unfinished + 1)
      /\ \A r \in scopes \ {s} : sc'[r] = sc[r]
  BY <1>1 DEF Spawn, Typed
<1>5. sc'[s].owner = sc[s].owner /\ sc'[s].unfinished = sc[s].unfinished + 1
  BY <1>1, <1>4 DEF Counted, Typed, ScopeRecZ
<1>6. \A t \in tasks : t < n
  BY DEF Control, RecOK
<1> HIDE DEF n
<1>7. \A r \in scopes : sc'[r].owner = sc[r].owner /\ sc[r].owner \in tasks
  BY <1>4, <1>5 DEF Tree, Structured
<1>8. \A t : ScopesOwnedBy(t)' = ScopesOwnedBy(t)
  BY <1>1, <1>7 DEF ScopesOwnedBy
<1>9. ScopesOwnedBy(n) = {}
  BY <1>1, <1>7 DEF ScopesOwnedBy
<1>10. RecOK'
  <2>1. \A t \in tasks' : t < nextTask'
    BY <1>1, <1>6, ConstantsAssumption DEF Typed, TaskId
  <2>2. ROOT \in tasks' /\ rec'[ROOT] = rec[ROOT]
    BY <1>1, <1>2 DEF Control, RecOK
  <2>3. \A t \in tasks' : rec'[t].state = "Ending" <=> rec'[t].ending # "none"
    BY <1>1, <1>2, <1>3 DEF Control, RecOK
  <2>4. \A t \in tasks' \ {ROOT} : ~rec'[t].started => ScopesOwnedBy(t)' = {}
    BY <1>1, <1>2, <1>8, <1>9 DEF Control, RecOK
  <2> QED BY <1>1, <2>1, <2>2, <2>3, <2>4 DEF Control, RecOK
<1>11. WakeOK'
  <2>1. ASSUME NEW t \in tasks', rec'[t].wake.to = "scopeError" PROVE DoneScope(rec[t].wake.id)'
    <3> DEFINE i == rec[t].wake.id
    <3>1. t \in tasks /\ rec'[t] = rec[t]
      BY <1>1, <1>2, <1>3, <2>1 DEF NoWake
    <3>2. DoneScope(i) /\ rec'[t].wake.id = i
      BY <2>1, <3>1 DEF Control, WakeOK
    <3>3. i \in scopes => sc'[i] = sc[i]
      BY <1>1, <1>4, <3>2 DEF DoneScope
    <3>4. i \in ScopeId /\ i < nextScope' /\ (i \in scopes' => sc'[i].closed /\ sc'[i].unfinished = 0)
      BY <1>1, <3>2, <3>3 DEF DoneScope
    <3> QED BY <3>2, <3>4 DEF DoneScope
  <2> QED BY <1>1, <2>1 DEF WakeOK, NoWake
<1>12. Tree'
  BY <1>1, <1>2, <1>3, <1>6, <1>7 DEF Tree, Structured, Finished
<1>13. CountersExact'
  <2>1. Open(s)' = Open(s) \cup {n} /\ n \notin Open(s)
    BY <1>1, <1>2, <1>3 DEF Open, Children, Finished, FinishedStates
  <2>2. \A r \in scopes \ {s} : Open(r)' = Open(r)
    BY <1>1, <1>2, <1>3 DEF Open, Children, Finished
  <2>3. OpenTasks' = OpenTasks \cup {n} /\ n \notin OpenTasks
    BY <1>1, <1>2, <1>3 DEF OpenTasks, Finished, FinishedStates
  <2>4. sc'[s].unfinished = Cardinality(Open(s)')
    BY ZenonT(40), <1>1, <1>5, <2>1, OpenSets, FS_AddElement
  <2>5. \A r \in scopes \ {s} : sc'[r].unfinished = Cardinality(Open(r)')
    BY <1>4, <2>2, OpenSets
  <2>6. live' = Cardinality(OpenTasks')
    BY <1>1, <2>3, OpenSets, FS_AddElement
  <2> QED BY <1>1, <2>4, <2>5, <2>6 DEF CountersExact, Open, OpenTasks
<1>14. FinOK' /\ AtOK'
  BY <1>1, <1>2 DEF FinOK, AtOK, Control
<1> QED BY <1>10, <1>11, <1>12, <1>13, <1>14 DEF Control

\* A scope is removed only when its tasks have finished.
LEMMA ScopeRemoved ==
  ASSUME Typed, Typed', Control, Tree, CountersExact, NEW s \in ScopeId,
         at = "user", Settled, ret'.to # "scopeError",
         s \in scopes => sc[s].unfinished = 0, RemoveScope(s),
         UNCHANGED <<current, live, at, subj, cancels, fin>>
  PROVE  Control' /\ Tree' /\ CountersExact'
<1>1. current \in tasks /\ rec[current].state = "Running"
      /\ (current # ROOT => rec[current].started)
  BY UserFacts
<1>2. FinOK'
  BY DEF Settled, FinOK
<1>3. CASE live = 0 /\ scopes \subseteq {s} /\ current = ROOT
  <2>1. /\ tasks' = {ROOT} /\ rec' = [t \in TaskId |-> BlankRec(t)] /\ scopes' = {}
        /\ live' = 0 /\ nextTask' = 1 /\ nextScope' = 1
    BY <1>3 DEF RemoveScope
  <2>2. RecOK' /\ WakeOK' /\ Tree' /\ CountersExact' /\ rec'[ROOT].state = "Running"
    BY <2>1, ResetTree
  <2>3. AtOK'
    BY <1>3, <2>1, <2>2 DEF AtOK
  <2> QED BY <1>2, <2>2, <2>3 DEF Control
<1>4. CASE ~(live = 0 /\ scopes \subseteq {s} /\ current = ROOT)
  <2>1. /\ scopes' = scopes \ {s} /\ tasks' = tasks \ Children(s)
        /\ rec' = Forget({s}, rec) /\ sc' = ForgetScopes({s}, sc)
        /\ UNCHANGED <<nextTask, nextScope>>
    BY <1>4 DEF RemoveScope
  <2>2. \A t \in tasks' : t \in tasks /\ rec'[t] = rec[t]
    BY <2>1 DEF Forget, Typed
  <2>3. \A r \in scopes' : r \in scopes /\ r # s /\ sc'[r] = sc[r]
    BY <2>1 DEF ForgetScopes, Typed
  <2>4. \A t \in Children(s) : Finished(t)
    <3>1. CASE s \in scopes
      BY <3>1, OpenSets DEF Open
    <3>2. CASE s \notin scopes
      BY <3>2 DEF Tree, Structured, Children
    <3> QED BY <3>1, <3>2
  <2>5. \A t \in tasks : ~Finished(t) \/ t = ROOT => t \in tasks'
    BY <2>1, <2>4 DEF Children
  <2>6. RecOK'
    <3>1. \A t : ScopesOwnedBy(t)' \subseteq ScopesOwnedBy(t)
      BY <2>3 DEF ScopesOwnedBy
    <3>2. ROOT \in tasks' /\ rec'[ROOT] = rec[ROOT]
      BY <2>2, <2>5 DEF Control, RecOK
    <3>3. \A t \in tasks' : rec'[t].state = "Ending" <=> rec'[t].ending # "none"
      BY <2>2 DEF Control, RecOK
    <3>4. \A t \in tasks' \ {ROOT} : ~rec'[t].started => ScopesOwnedBy(t)' = {}
      BY <2>2, <3>1 DEF Control, RecOK
    <3>5. (\A t \in tasks' : t < nextTask') /\ (\A r \in scopes' : r < nextScope')
      BY <2>1, <2>2, <2>3 DEF Control, RecOK
    <3> QED BY <3>2, <3>3, <3>4, <3>5 DEF Control, RecOK
  <2>7. WakeOK'
    <3>1. ASSUME NEW t \in tasks', rec'[t].wake.to = "scopeError" PROVE DoneScope(rec[t].wake.id)'
      <4> DEFINE i == rec[t].wake.id
      <4>1. DoneScope(i) /\ rec'[t].wake.id = i
        BY <2>2, <3>1 DEF Control, WakeOK
      <4>2. i \in ScopeId /\ i < nextScope' /\ (i \in scopes' => sc'[i].closed /\ sc'[i].unfinished = 0)
        BY <2>1, <2>3, <4>1 DEF DoneScope
      <4> QED BY <4>1, <4>2 DEF DoneScope
    <3> QED BY <3>1 DEF WakeOK
  <2>8. Tree'
    <3>1. \A t \in tasks' \ {ROOT} : rec'[t].scope \in scopes'
      BY <2>1, <2>2 DEF Tree, Structured, Children
    <3>2. \A r \in scopes' : sc'[r].owner \in tasks' /\ ~(rec'[sc'[r].owner].state \in FinishedStates)
      BY <2>2, <2>3, <2>5 DEF Tree, Structured, Finished
    <3>3. \A t \in tasks' \ {ROOT} : sc'[rec'[t].scope].owner < t
      BY <2>2, <2>3, <3>1 DEF Tree
    <3> QED BY <3>1, <3>2, <3>3 DEF Tree, Structured, Finished
  <2>9. CountersExact'
    <3>1. \A r \in scopes' : Open(r)' = Open(r)
      BY <2>1, <2>2, <2>3 DEF Open, Children, Finished
    <3>2. OpenTasks' = OpenTasks
      BY <2>1, <2>2, <2>5 DEF OpenTasks, Finished
    <3>3. \A r \in scopes' : sc'[r].unfinished = Cardinality(Open(r)')
      BY <2>3, <3>1, OpenSets
    <3>4. live' = Cardinality(OpenTasks')
      BY <3>2, OpenSets
    <3> QED BY <3>3, <3>4 DEF CountersExact, Open, OpenTasks
  <2>10. AtOK'
    <3>1. current \in tasks' /\ rec'[current] = rec[current]
      BY <1>1, <2>2, <2>5 DEF Finished, FinishedStates
    <3> QED BY <1>1, <3>1 DEF AtOK
  <2> QED BY <1>2, <2>6, <2>7, <2>8, <2>9, <2>10 DEF Control
<1> QED BY <1>3, <1>4

\* finalize counts the task out and forgets the scopes it opened, whose tasks
\* have all finished.
LEMMA TaskFinalized ==
  ASSUME Typed, Typed', Control, Tree, CountersExact, FinalizeState
  PROVE  Control' /\ Tree' /\ CountersExact' /\ \A t \in tasks \ tasks' : Finished(t)
<1> DEFINE f == fin.id
           S == ScopesOwnedBy(f)
           p == rec[f].scope
           q == FinishedRec(rec[f], fin.state)
<1>1. /\ f \in tasks \ {ROOT} /\ f \in TaskId /\ fin.state \in FinishedStates
      /\ rec[f].state = "Ending" \/ ~rec[f].started
      /\ ~Finished(f) /\ OwnedChildrenFinished(f) /\ rec[f] \in TaskRec
  BY DEF FinalizeState, Control, FinOK, NoFin, Finished, FinishedStates, Typed
<1>2. S \subseteq scopes /\ \A s \in S : sc[s].unfinished = 0 /\ sc[s].owner = f
  BY <1>1 DEF ScopesOwnedBy, OwnedChildrenFinished
<1>3. \A s \in S : \A t \in Children(s) : Finished(t)
  BY <1>2, OpenSets DEF Open
<1>4. p \in scopes \ S /\ sc[p].owner < f
  <2>1. p \in scopes /\ sc[p].owner < f /\ f \in Int
    BY <1>1, ConstantsAssumption DEF Tree, Structured, TaskId
  <2> QED BY <1>2, <2>1
<1>5. /\ scopes' = scopes \ S /\ tasks' = tasks \ Forgotten(S) /\ live' = live - 1
      /\ fin' = [fin EXCEPT !.step = "wake"]
      /\ rec' = Forget(S, [rec EXCEPT ![f] = q])
      /\ sc' = ForgetScopes(S, [sc EXCEPT ![p] = Counted(@, @.unfinished - 1)])
      /\ UNCHANGED <<current, nextTask, nextScope, at, subj, cancels, ret>>
  BY <1>1, <1>4 DEF FinalizeState, OwnedForgotten, CountsOut
<1>6. fin'.id = f /\ fin'.state = fin.state /\ fin'.step = "wake"
  BY <1>5 DEF Typed, FinRec
<1>7. q.state = fin.state /\ q.ending = "none" /\ q.scope = p /\ q.started = rec[f].started
      /\ q.wake = rec[f].wake
  BY <1>1 DEF FinishedRec, TaskRec
<1>8. \A t \in Forgotten(S) : Finished(t) /\ t # ROOT
  BY <1>3 DEF Forgotten, Children
<1>9. \A t \in tasks : ~Finished(t) \/ t = ROOT => t \in tasks'
  BY <1>5, <1>8
<1>10. f \in tasks'
  BY <1>1, <1>9
<1> HIDE DEF q
<1>11. \A t \in tasks' : t \in tasks /\ rec'[t] = IF t = f THEN q ELSE rec[t]
  BY <1>1, <1>5 DEF Forget, Forgotten, Typed
<1>12. /\ \A s \in scopes' \ {p} : s \in scopes \ S /\ sc'[s] = sc[s]
       /\ p \in scopes' /\ sc'[p] = Counted(sc[p], sc[p].unfinished - 1)
  BY <1>4, <1>5 DEF ForgetScopes, Typed
<1>13. sc'[p].owner = sc[p].owner /\ sc'[p].unfinished = sc[p].unfinished - 1
       /\ sc'[p].closed = sc[p].closed
  <2>1. sc[p] \in ScopeRecZ
    BY <1>4 DEF Typed
  <2> QED BY <1>12, <2>1 DEF Counted, ScopeRecZ
<1> HIDE DEF f, S, p
<1>14. \A s \in scopes' : s \in scopes \ S /\ sc'[s].owner = sc[s].owner
  BY <1>4, <1>12, <1>13
<1>15. \A t \in tasks \ tasks' : Finished(t)
  BY <1>9
<1>16. RecOK'
  <2>1. \A t : ScopesOwnedBy(t)' \subseteq ScopesOwnedBy(t)
    BY <1>14 DEF ScopesOwnedBy
  <2>2. ROOT \in tasks' /\ rec'[ROOT] = rec[ROOT]
    BY <1>1, <1>9, <1>11 DEF Control, RecOK
  <2>3. \A t \in tasks' : rec'[t].state = "Ending" <=> rec'[t].ending # "none"
    BY <1>1, <1>7, <1>11 DEF Control, RecOK, FinishedStates
  <2>4. \A t \in tasks' \ {ROOT} : ~rec'[t].started => ScopesOwnedBy(t)' = {}
    BY <1>7, <1>11, <2>1 DEF Control, RecOK
  <2>5. (\A t \in tasks' : t < nextTask') /\ (\A r \in scopes' : r < nextScope')
    BY <1>5, <1>11, <1>14 DEF Control, RecOK
  <2> QED BY <2>2, <2>3, <2>4, <2>5 DEF Control, RecOK
<1>17. f \in Open(p) /\ f \in OpenTasks
  BY <1>1 DEF Open, OpenTasks, Children, p
<1>18. \A i : DoneScope(i) => i \in ScopeId /\ i < nextScope'
                              /\ (i \in scopes' => sc'[i].closed /\ sc'[i].unfinished = 0)
  <2> TAKE i
  <2> HAVE DoneScope(i)
  <2>1. i # p
    <3>1. p \in scopes => sc[p].unfinished # 0
      BY <1>17, OpenSets
    <3> QED BY <1>4, <3>1 DEF DoneScope
  <2> QED BY <1>5, <1>12, <2>1 DEF DoneScope
<1>19. WakeOK'
  <2>1. ASSUME NEW t \in tasks', rec'[t].wake.to = "scopeError" PROVE DoneScope(rec[t].wake.id)'
    <3>1. t \in tasks /\ rec'[t].wake = rec[t].wake
      BY <1>7, <1>11
    <3>2. DoneScope(rec[t].wake.id)
      BY <2>1, <3>1 DEF Control, WakeOK
    <3> QED BY <1>18, <3>1, <3>2 DEF DoneScope
  <2>2. ASSUME ret'.to = "scopeError" PROVE DoneScope(ret.id)'
    <3>1. DoneScope(ret.id)
      BY <1>5, <2>2 DEF Control, WakeOK
    <3> QED BY <1>5, <1>18, <3>1 DEF DoneScope
  <2> QED BY <2>1, <2>2 DEF WakeOK
<1>20. Tree'
  <2>1. \A t \in tasks' \ {ROOT} : rec'[t].scope = rec[t].scope /\ rec[t].scope \in scopes'
    <3> TAKE t \in tasks' \ {ROOT}
    <3>1. rec'[t].scope = rec[t].scope
      BY <1>7, <1>11 DEF p
    <3>2. rec[t].scope \in scopes /\ t \in tasks
      BY <1>11 DEF Tree, Structured
    <3>3. t \notin Forgotten(S)
      BY <1>5
    <3>4. rec[t].scope \notin S
      BY <3>2, <3>3 DEF Forgotten, Children
    <3> QED BY <1>5, <3>1, <3>2, <3>4
  <2>2. \A r \in scopes' : sc'[r].owner \in tasks' /\ ~(rec'[sc'[r].owner].state \in FinishedStates)
    <3> TAKE r \in scopes'
    <3>1. sc'[r].owner = sc[r].owner /\ sc[r].owner \in tasks /\ ~Finished(sc[r].owner)
      BY <1>14 DEF Tree, Structured
    <3>2. sc[r].owner # f
      BY <1>14 DEF S, ScopesOwnedBy
    <3> QED BY <1>9, <1>11, <3>1, <3>2 DEF Finished
  <2>3. \A t \in tasks' \ {ROOT} : sc'[rec'[t].scope].owner < t
    BY <1>11, <1>14, <2>1 DEF Tree
  <2> QED BY <2>1, <2>2, <2>3 DEF Tree, Structured, Finished
<1>21. CountersExact'
  <2>1. \A r \in scopes' \ {p} : Open(r)' = Open(r)
    <3> TAKE r \in scopes' \ {p}
    <3>1. ASSUME NEW t \in Open(r)' PROVE t \in Open(r)
      <4>1. t \in tasks' /\ t # ROOT /\ rec'[t].scope = r /\ ~(rec'[t].state \in FinishedStates)
        BY <3>1 DEF Open, Children, Finished
      <4>2. t # f
        BY <1>1, <1>7, <1>11, <4>1
      <4> QED BY <1>11, <4>1, <4>2 DEF Open, Children, Finished
    <3>2. ASSUME NEW t \in Open(r) PROVE t \in Open(r)'
      <4>1. t \in tasks /\ t # ROOT /\ rec[t].scope = r /\ ~Finished(t)
        BY <3>2 DEF Open, Children
      <4>2. t # f
        BY <4>1 DEF p
      <4> QED BY <1>9, <1>11, <4>1, <4>2 DEF Open, Children, Finished
    <3> QED BY <3>1, <3>2
  <2>2. Open(p)' = Open(p) \ {f}
    <3>1. ASSUME NEW t \in Open(p)' PROVE t \in Open(p) \ {f}
      <4>1. t \in tasks' /\ t # ROOT /\ rec'[t].scope = p' /\ ~(rec'[t].state \in FinishedStates)
        BY <3>1 DEF Open, Children, Finished
      <4>2. p' = p
        BY <1>6, <1>7, <1>10, <1>11 DEF p, f
      <4>3. t # f
        BY <1>1, <1>7, <1>11, <4>1
      <4> QED BY <1>11, <4>1, <4>2, <4>3 DEF Open, Children, Finished
    <3>2. ASSUME NEW t \in Open(p), t # f PROVE t \in Open(p)'
      <4>1. t \in tasks /\ t # ROOT /\ rec[t].scope = p /\ ~Finished(t)
        BY <3>2 DEF Open, Children
      <4>2. p' = p
        BY <1>6, <1>7, <1>10, <1>11 DEF p, f
      <4> QED BY <1>9, <1>11, <3>2, <4>1, <4>2 DEF Open, Children, Finished
    <3> QED BY <3>1, <3>2
  <2>3. OpenTasks' = OpenTasks \ {f}
    <3>1. ASSUME NEW t \in OpenTasks' PROVE t \in OpenTasks \ {f}
      BY <1>1, <1>7, <1>11, <3>1 DEF OpenTasks, Finished
    <3>2. ASSUME NEW t \in OpenTasks, t # f PROVE t \in OpenTasks'
      BY <1>9, <1>11, <3>2 DEF OpenTasks, Finished
    <3> QED BY <3>1, <3>2
  <2>4. p' = p
    BY <1>6, <1>7, <1>10, <1>11 DEF p, f
  <2>5. sc'[p].unfinished = Cardinality(Open(p) \ {f})
    BY ZenonT(40), <1>4, <1>13, <1>17, OpenSets, FS_RemoveElement
  <2>6. \A r \in scopes' \ {p} : sc'[r].unfinished = Cardinality(Open(r)')
    BY <1>12, <2>1, OpenSets
  <2>7. live' = Cardinality(OpenTasks')
    BY <1>5, <1>17, <2>3, OpenSets, FS_RemoveElement
  <2>8. \A r \in scopes' : sc'[r].unfinished =
          Cardinality({t \in {u \in tasks' : u # ROOT /\ rec'[u].scope = r} :
                         ~(rec'[t].state \in FinishedStates)})
    <3> TAKE r \in scopes'
    <3>1. CASE r = p
      BY <2>2, <2>4, <2>5, <3>1 DEF Open, Children, Finished
    <3>2. CASE r # p
      BY <2>6, <3>2 DEF Open, Children, Finished
    <3> QED BY <3>1, <3>2
  <2> QED BY <2>7, <2>8 DEF CountersExact, Children, OpenTasks, Finished
<1>22. FinOK'
  BY <1>1, <1>6, <1>7, <1>10, <1>11 DEF FinOK
<1>23. AtOK'
  <2>1. at \in {"user", "notify"} =>
          /\ current \in tasks' /\ rec'[current] = rec[current] /\ rec[current].state = "Running"
          /\ current # ROOT => rec[current].started
    <3> HAVE at \in {"user", "notify"}
    <3>1. /\ current \in tasks /\ rec[current].state = "Running"
          /\ current # ROOT => rec[current].started
      BY UserFacts
    <3>2. current # f /\ ~Finished(current)
      BY <1>1, <3>1 DEF Finished, FinishedStates
    <3> QED BY <1>9, <1>11, <3>1, <3>2
  <2>2. at = "run" => /\ subj \in tasks' \ {ROOT} /\ rec'[subj].state = "Ready"
                      /\ subj \notin cancels /\ f # subj
    <3> HAVE at = "run"
    <3>1. /\ subj \in tasks \ {ROOT} /\ rec[subj].state = "Ready" /\ subj \notin cancels
          /\ f # subj
      BY DEF Control, AtOK, f
    <3> QED BY <1>9, <1>11, <3>1 DEF Finished, FinishedStates
  <2> QED BY <1>5, <1>6, <2>1, <2>2 DEF AtOK, Control
<1> QED BY <1>15, <1>16, <1>19, <1>20, <1>21, <1>22, <1>23 DEF Control

-----------------------------------------------------------------------------
\* Scopes that do not exist stay blank.
LEMMA BlankKept ==
  ASSUME Typed, Control, Blank, Next
  PROVE  Blank'
<1>1. ASSUME sc' = sc, scopes' = scopes PROVE Blank'
  BY <1>1 DEF Blank
<1>2. ASSUME NEW t \in TaskId, sc' = Unframed(sc, t), scopes' = scopes PROVE Blank'
  BY <1>2 DEF Blank, Unframed, ScopesOwnedBy
<1>3. ASSUME NEW t, NEW st, NEW m, TaskEnd(t, st, m), scopes' = scopes PROVE Blank'
  BY <1>3 DEF Blank, TaskEnd
<1>4. ASSUME NEW s \in ScopeId, RemoveScope(s) PROVE Blank'
  <2>1. \A r \in ScopeId : r \notin scopes' => sc'[r] = BlankScope \/ (r \notin scopes /\ sc'[r] = sc[r])
    BY <1>4 DEF RemoveScope, ForgetScopes
  <2> QED BY <2>1 DEF Blank, BlankScope
<1>5. ASSUME NEW s \in scopes, NEW z, sc' = [sc EXCEPT ![s] = z], scopes' = scopes PROVE Blank'
  BY <1>5 DEF Blank, Typed
<1>6. CASE VMStep
  <2>1. CASE FinalizeState
    <3> DEFINE t == fin.id
               S == ScopesOwnedBy(t)
               f == IF CountsOut(t) THEN [sc EXCEPT ![rec[t].scope] = Counted(@, @.unfinished - 1)]
                    ELSE sc
    <3>1. sc' = ForgetScopes(S, f) /\ scopes' = scopes \ S
      BY <2>1 DEF FinalizeState, OwnedForgotten
    <3>2. \A s \in ScopeId \ scopes : f[s] = sc[s]
      BY DEF CountsOut, Typed
    <3>3. \A s \in ScopeId : sc'[s] = IF s \in S THEN BlankScope ELSE f[s]
      BY <3>1 DEF ForgetScopes
    <3> HIDE DEF f, S
    <3> QED BY <3>1, <3>2, <3>3 DEF Blank, BlankScope
  <2>2. CASE RunSwitch
    <3>1. subj \in TaskId
      BY <2>2 DEF RunSwitch, Control, AtOK, Typed
    <3> QED BY <2>2, <3>1, <1>1, <1>2 DEF RunSwitch
  <2>3. CASE RunOverflow
    BY <2>3, <1>3 DEF RunOverflow
  <2>4. CASE NotifyOwner \/ EndCheck \/ PickRoot \/ PickChild \/ RunBlocked \/ WaitDone \/ Deadlock
    BY <2>4, <1>1 DEF NotifyOwner, EndCheck, PickRoot, PickChild, RunBlocked, WaitDone, Deadlock,
       schedVars
  <2>5. CASE \E t \in TaskId : WakeJoiner(t) \/ RequestCancel(t) \/ WakeCond(t) \/ WaitEvent(t)
    BY <2>5, <1>1 DEF WakeJoiner, RequestCancel, WakeCond, WaitEvent, Unmoved
  <2> QED BY <1>6, <2>1, <2>2, <2>3, <2>4, <2>5 DEF VMStep
<1>7. CASE UserStep
  <2>1. CASE ScopeOpen
    <3>1. nextScope \in ScopeId /\ scopes' = scopes \cup {nextScope}
          /\ sc' = [sc EXCEPT ![nextScope] = NewScope(current)]
      BY <2>1 DEF ScopeOpen, Typed, ScopeId
    <3> QED BY <3>1 DEF Blank, Typed
  <2>2. ASSUME NEW s \in ScopeId, Spawn(s) PROVE Blank'
    <3>1. s \in scopes /\ scopes' = scopes
          /\ sc' = [sc EXCEPT ![s] = Counted(sc[s], sc[s].unfinished + 1)]
      BY <2>2 DEF Spawn
    <3> QED BY <3>1, <1>5
  <2>3. ASSUME NEW s \in ScopeId, ScopeCloseDone(s) PROVE Blank'
    BY <2>3, <1>4 DEF ScopeCloseDone
  <2>4. ASSUME NEW s \in ScopeId, ScopeCloseFailed(s) \/ ScopeCloseWait(s) PROVE Blank'
    <3>1. s \in scopes
      BY <2>4 DEF ScopeCloseFailed, ScopeCloseWait, Innermost, Framed, ScopesOwnedBy
    <3>2. sc' = [sc EXCEPT ![s].closed = TRUE, ![s].framed = FALSE] /\ scopes' = scopes
      BY <2>4 DEF ScopeCloseFailed, ScopeCloseWait
    <3> QED BY <3>1, <3>2 DEF Blank, Typed
  <2>5. CASE ScopeError
    <3>1. ret.id \in ScopeId
      BY <2>5 DEF ScopeError, Control, WakeOK, DoneScope
    <3> QED BY <2>5, <3>1, <1>4 DEF ScopeError
  <2>6. CASE \E h \in TaskId : Join(h) \/ Cancel(h)
    BY <2>6, <1>1 DEF Join, Cancel, schedVars
  <2>7. CASE Sleep \/ Retry \/ Yield \/ CondWaitAlone \/ ShieldEnter \/ ShieldExit
    BY <2>7, <1>1 DEF Sleep, Retry, Yield, CondWaitAlone, ShieldEnter, ShieldExit, Unmoved, schedVars
  <2>8. CASE \E c \in Conds : CondWait(c) \/ CondNotify(c)
    BY <2>8, <1>1 DEF CondWait, CondNotify, Unmoved, schedVars
  <2>9. CASE Panic
    BY <2>9, <1>2 DEF Panic, Typed
  <2>10. CASE Return
    BY <2>10, <1>3 DEF Return
  <2>11. CASE UnwindDone
    BY <2>11, <1>3 DEF UnwindDone
  <2>12. CASE RootPanicEnds \/ MainReturns
    BY <2>12 DEF RootPanicEnds, MainReturns, Halted, Blank, BlankScope
  <2> QED BY <1>7, <2>1, <2>2, <2>3, <2>4, <2>5, <2>6, <2>7, <2>8, <2>9, <2>10, <2>11, <2>12
          DEF UserStep
<1>8. CASE Terminated
  BY <1>8, <1>1 DEF Terminated, vars
<1> QED BY <1>6, <1>7, <1>8 DEF Next

\* Program end.
LEMMA ProgramEnds ==
  ASSUME Typed, Control, RootPanicEnds \/ MainReturns
  PROVE  Control' /\ Tree' /\ CountersExact'
<1>1. /\ tasks' = {ROOT} /\ rec' = [t \in TaskId |-> BlankRec(t)] /\ scopes' = {}
      /\ live' = 0 /\ nextTask' = 1 /\ nextScope' = 1 /\ at' = "halted"
      /\ UNCHANGED <<fin, ret>> /\ fin = NoFin /\ ret = NoWake
  BY DEF RootPanicEnds, MainReturns, Halted, User, Settled
<1>2. RecOK' /\ WakeOK' /\ Tree' /\ CountersExact'
  BY <1>1, ResetTree DEF NoWake
<1> QED BY <1>1, <1>2 DEF Control, FinOK, AtOK

\* The initial state satisfies the inductive invariant.
LEMMA InitIInv == Init => IInv
<1> SUFFICES ASSUME Init PROVE IInv
  OBVIOUS
<1>1. Typed
  BY TypedInit
<1>2. rec[ROOT] = RootRec /\ tasks = {ROOT} /\ scopes = {} /\ nextTask = 1 /\ nextScope = 1
  BY RootIsTask DEF Init, BlankRec
<1>3. rec[ROOT].state = "Running" /\ rec[ROOT].ending = "none" /\ rec[ROOT].wake.to # "scopeError"
  BY <1>2 DEF RootRec, FreshRec, NoWake
<1>4. fin = NoFin /\ at = "user" /\ current = ROOT /\ ret.to # "scopeError" /\ live = 0
  BY DEF Init, NoWake
<1>5. Control
  <2>1. RecOK
    BY <1>2, <1>3 DEF RecOK, ROOT
  <2> QED BY <1>2, <1>3, <1>4, <2>1 DEF Control, FinOK, AtOK, WakeOK
<1>6. Tree
  BY <1>2 DEF Tree, Structured
<1>7. CountersExact
  <2>1. {t \in tasks \ {ROOT} : ~Finished(t)} = {}
    BY <1>2
  <2> QED BY <1>2, <1>4, <2>1, FS_EmptySet DEF CountersExact
<1>8. Blank
  BY DEF Init, Blank, BlankScope
<1> QED BY <1>1, <1>5, <1>6, <1>7, <1>8 DEF IInv

\* A step of the scheduler, or no step at all, keeps the invariant.
LEMMA StepIInv ==
  ASSUME IInv, [Next]_vars
  PROVE  IInv'
<1> USE DEF IInv
<1>1. CASE Next /\ ~Terminated
  <2>1. Typed'
    BY <1>1, TypedUser, TypedVM DEF Next
  <2>2. Blank'
    BY <1>1, BlankKept
  <2>3. ASSUME Quiet, RecStep, FinOK', AtOK' PROVE IInv'
    <3>1. RecOK' /\ WakeOK' /\ Tree' /\ CountersExact'
      BY <2>1, <2>3, QuietPreserves DEF Control
    <3> QED BY <2>1, <2>2, <2>3, <3>1 DEF Control
  <2>4. CASE QuietUserStep
    BY <2>3, <2>4, QuietUser
  <2>5. CASE QuietVMStep
    BY <2>3, <2>5, QuietVM
  <2>6. CASE ScopeOpen
    BY <2>1, <2>2, <2>6, OpenScope
  <2>7. ASSUME NEW s \in ScopeId, Spawn(s) PROVE IInv'
    BY <2>1, <2>2, <2>7, SpawnChild
  <2>8. ASSUME NEW s \in ScopeId, ScopeCloseDone(s) PROVE IInv'
    <3>1. /\ at = "user" /\ Settled /\ ret'.to # "scopeError" /\ sc[s].unfinished = 0
          /\ RemoveScope(s) /\ UNCHANGED <<current, live, at, subj, cancels, fin>>
      BY <2>8 DEF ScopeCloseDone, User, NoWake
    <3> QED BY <2>1, <2>2, <3>1, ScopeRemoved
  <2>9. CASE ScopeError
    <3>1. /\ at = "user" /\ Settled /\ ret'.to # "scopeError" /\ RemoveScope(ret.id)
          /\ UNCHANGED <<current, live, at, subj, cancels, fin>>
      BY <2>9 DEF ScopeError, NoWake
    <3>2. ret.id \in ScopeId /\ (ret.id \in scopes => sc[ret.id].unfinished = 0)
      BY <2>9 DEF ScopeError, Control, WakeOK, DoneScope
    <3> QED BY <2>1, <2>2, <3>1, <3>2, ScopeRemoved
  <2>10. CASE FinalizeState
    BY <2>1, <2>2, <2>10, TaskFinalized
  <2>11. CASE RootPanicEnds \/ MainReturns
    BY <2>1, <2>2, <2>11, ProgramEnds
  <2> QED BY <1>1, <2>4, <2>5, <2>6, <2>7, <2>8, <2>9, <2>10, <2>11
          DEF Next, VMStep, UserStep, QuietUserStep, QuietVMStep
<1>2. CASE UNCHANGED vars \/ Terminated
  <2>1. UNCHANGED vars
    BY <1>2 DEF Terminated
  <2>2. /\ Typed' /\ Blank' /\ Tree' /\ CountersExact'
    BY <2>1 DEF vars, Typed, Blank, Tree, Structured, CountersExact, Children, Finished
  <2>3. Control'
    BY <2>1 DEF vars, Control, FinOK, AtOK, RecOK, WakeOK, DoneScope, OwnedChildrenFinished,
                ScopesOwnedBy
  <2> QED BY <2>2, <2>3
<1> QED BY <1>1, <1>2

\* IInv is an invariant of the scheduler.
THEOREM Invariance == Spec => []IInv
  BY InitIInv, StepIInv, PTL DEF Spec

-----------------------------------------------------------------------------
\* Every variable keeps the type of its Rust field; in particular the counters
\* `live` and `unfinished`, which finalize decrements, never go below zero.
THEOREM TypeCorrect == Spec => []TypeOK
<1>1. IInv => TypeOK
  <2> SUFFICES ASSUME IInv PROVE TypeOK
    OBVIOUS
  <2>1. \A s \in ScopeId : sc[s] \in ScopeRec
    <3> TAKE s \in ScopeId
    <3>1. sc[s].unfinished \in Nat
      BY OpenSets DEF IInv, Blank
    <3>2. sc[s] \in ScopeRecZ
      BY DEF IInv, Typed
    <3> QED BY <3>1, <3>2 DEF ScopeRecZ, ScopeRec
  <2>2. live \in Nat
    BY OpenSets DEF IInv
  <2>3. sc \in [ScopeId -> ScopeRec]
    BY <2>1 DEF IInv, Typed
  <2> QED BY <2>2, <2>3 DEF IInv, Typed, TypeOK
<1> QED BY <1>1, Invariance, PTL

\* No task outlives its scope or its parent: the record of every task names a
\* scope that exists, and a scope's owner is there and has not finished.
THEOREM StructuredConcurrency == Spec => []Structured
<1>1. IInv => Structured
  BY DEF IInv, Tree
<1> QED BY <1>1, Invariance, PTL

\* The counters that replace scans over the children count exactly the
\* unfinished tasks, whatever order tasks spawn, end, drop and fail in.
THEOREM CountersAreExact == Spec => []CountersExact
<1>1. IInv => CountersExact
  BY DEF IInv
<1> QED BY <1>1, Invariance, PTL

\* No step from the invariant forgets the record of an unfinished task.
LEMMA ForgetLemma ==
  ASSUME IInv, [Next]_vars
  PROVE  [ForgetStep]_vars
<1>1. CASE Next /\ ~Terminated
  <2>1. ASSUME tasks \subseteq tasks' PROVE ForgetStep
    BY <2>1 DEF ForgetStep
  <2>2. ASSUME NEW s \in ScopeId, RemoveScope(s), s \in scopes => sc[s].unfinished = 0
        PROVE ForgetStep
    <3>1. CASE live = 0 /\ scopes \subseteq {s} /\ current = ROOT
      <4>1. OpenTasks = {}
        BY <3>1, OpenSets, FS_EmptySet DEF IInv
      <4>2. tasks' = {ROOT}
        BY <2>2, <3>1 DEF RemoveScope
      <4> QED BY <4>1, <4>2 DEF ForgetStep, OpenTasks
    <3>2. CASE ~(live = 0 /\ scopes \subseteq {s} /\ current = ROOT)
      <4>1. tasks' = tasks \ Children(s)
        BY <2>2, <3>2 DEF RemoveScope
      <4>2. \A t \in Children(s) : Finished(t)
        <5>1. CASE s \in scopes
          BY <2>2, <5>1, OpenSets DEF Open, IInv
        <5>2. CASE s \notin scopes
          BY <5>2 DEF IInv, Tree, Structured, Children
        <5> QED BY <5>1, <5>2
      <4> QED BY <4>1, <4>2 DEF ForgetStep
    <3> QED BY <3>1, <3>2
  <2>3. CASE QuietUserStep
    BY <2>1, <2>3, QuietUser DEF IInv, Quiet
  <2>4. CASE QuietVMStep
    BY <2>1, <2>4, QuietVM DEF IInv, Quiet
  <2>5. CASE ScopeOpen
    BY <2>1, <2>5 DEF ScopeOpen
  <2>6. ASSUME NEW s \in ScopeId, Spawn(s) PROVE ForgetStep
    BY <2>1, <2>6 DEF Spawn
  <2>7. ASSUME NEW s \in ScopeId, ScopeCloseDone(s) PROVE ForgetStep
    BY <2>2, <2>7 DEF ScopeCloseDone
  <2>8. CASE ScopeError
    <3>1. RemoveScope(ret.id) /\ ret.id \in ScopeId /\ (ret.id \in scopes => sc[ret.id].unfinished = 0)
      BY <2>8 DEF ScopeError, IInv, Control, WakeOK, DoneScope
    <3> QED BY <2>2, <3>1
  <2>9. CASE FinalizeState
    <3>1. Typed'
      BY <2>9, TypedVM DEF IInv, VMStep
    <3> QED BY <2>9, <3>1, TaskFinalized DEF IInv, ForgetStep
  <2>10. CASE RootPanicEnds \/ MainReturns
    BY <2>10 DEF RootPanicEnds, MainReturns, Halted, ForgetStep
  <2> QED BY <1>1, <2>3, <2>4, <2>5, <2>6, <2>7, <2>8, <2>9, <2>10
          DEF Next, VMStep, UserStep, QuietUserStep, QuietVMStep
<1>2. CASE UNCHANGED vars \/ Terminated
  BY <1>2 DEF Terminated
<1> QED BY <1>1, <1>2

\* remove_scope, finalize and task_drop_idle_scheduler forget records of
\* finished tasks only, so a handle's status is never lost while its task runs.
THEOREM NoRunningTaskForgotten == Spec => ForgetsOnlyFinished
  BY ForgetLemma, Invariance, PTL DEF Spec, ForgetsOnlyFinished

-----------------------------------------------------------------------------
(***************************************************************************)
(* The run queue, wakeups, cancels and panics.  They rest on the invariant *)
(* above; what follows says of each kind of step what it does to the       *)
(* records and the queue.                                                  *)
(***************************************************************************)
NoDup(q) == \A i, j \in DOMAIN q : q[i] = q[j] => i = j
Elems(q) == {q[i] : i \in DOMAIN q}

\* A queue that a task is appended to, put in front of, taken off and dropped from.
LEMMA AppendQueue ==
  ASSUME NEW q \in Seq(TaskId), NEW t \in TaskId, NoDup(q), t \notin Elems(q)
  PROVE  NoDup(Append(q, t)) /\ Elems(Append(q, t)) = Elems(q) \cup {t}
<1> DEFINE n == Len(q)
           p == Append(q, t)
<1>1. n \in Nat /\ DOMAIN q = 1..n
  BY LenProperties
<1>2. /\ p \in Seq(TaskId) /\ Len(p) = n + 1
      /\ \A i \in 1..n : p[i] = q[i]
      /\ p[n + 1] = t
  BY AppendProperties
<1>3. DOMAIN p = 1..(n + 1)
  BY <1>2, LenProperties
<1> HIDE DEF n, p
<1>4. /\ \A i \in DOMAIN p : i = n + 1 \/ i \in DOMAIN q
      /\ DOMAIN q \subseteq DOMAIN p /\ n + 1 \in DOMAIN p
  BY <1>1, <1>3
<1>5. NoDup(p)
  <2> SUFFICES ASSUME NEW i \in DOMAIN p, NEW j \in DOMAIN p, p[i] = p[j] PROVE i = j
    BY DEF NoDup
  <2>1. \A k \in DOMAIN q : q[k] # t
    BY DEF Elems
  <2> QED BY <1>1, <1>2, <1>4, <2>1 DEF NoDup
<1>6. Elems(p) = Elems(q) \cup {t}
  <2>1. \A i \in DOMAIN p : p[i] \in Elems(q) \cup {t}
    BY <1>1, <1>2, <1>4 DEF Elems
  <2>2. \A i \in DOMAIN q : q[i] \in Elems(p)
    BY <1>1, <1>2, <1>4 DEF Elems
  <2>3. t \in Elems(p)
    BY <1>2, <1>4 DEF Elems
  <2> QED BY <2>1, <2>2, <2>3 DEF Elems
<1> QED BY <1>5, <1>6 DEF p

LEMMA FrontQueue ==
  ASSUME NEW q \in Seq(TaskId), NEW t \in TaskId, NoDup(q), t \notin Elems(q)
  PROVE  NoDup(<<t>> \o q) /\ Elems(<<t>> \o q) = Elems(q) \cup {t}
<1> DEFINE n == Len(q)
           p == <<t>> \o q
<1>1. n \in Nat /\ DOMAIN q = 1..n
  BY LenProperties
<1>2. <<t>> \in Seq(TaskId) /\ Len(<<t>>) = 1 /\ <<t>>[1] = t
  OBVIOUS
<1>3. /\ p \in Seq(TaskId) /\ Len(p) = 1 + n
      /\ \A i \in 1..(1 + n) : p[i] = IF i <= 1 THEN <<t>>[i] ELSE q[i - 1]
  BY <1>2, ConcatProperties
<1>4. DOMAIN p = 1..(1 + n)
  BY <1>3, LenProperties
<1> HIDE DEF n, p
<1>5. /\ \A i \in DOMAIN p : (i = 1 /\ p[i] = t) \/ (i - 1 \in DOMAIN q /\ p[i] = q[i - 1])
      /\ 1 \in DOMAIN p /\ p[1] = t
      /\ \A i \in DOMAIN q : i + 1 \in DOMAIN p /\ p[i + 1] = q[i]
  BY <1>1, <1>2, <1>3, <1>4
<1>6. NoDup(p)
  <2> SUFFICES ASSUME NEW i \in DOMAIN p, NEW j \in DOMAIN p, p[i] = p[j] PROVE i = j
    BY DEF NoDup
  <2>1. \A k \in DOMAIN q : q[k] # t
    BY DEF Elems
  <2>2. i \in Int /\ j \in Int
    BY <1>1, <1>4
  <2>3. CASE i = 1 /\ p[i] = t
    BY <1>5, <2>1, <2>3
  <2>4. CASE i - 1 \in DOMAIN q /\ p[i] = q[i - 1]
    <3>1. j - 1 \in DOMAIN q /\ p[j] = q[j - 1]
      BY <1>5, <2>1, <2>4
    <3>2. i - 1 = j - 1
      BY <2>4, <3>1 DEF NoDup
    <3> QED BY <2>2, <3>2
  <2> QED BY <1>5, <2>3, <2>4
<1>7. Elems(p) = Elems(q) \cup {t}
  <2>1. \A i \in DOMAIN p : p[i] \in Elems(q) \cup {t}
    BY <1>5 DEF Elems
  <2>2. \A i \in DOMAIN q : q[i] \in Elems(p)
    <3> TAKE i \in DOMAIN q
    <3>1. i + 1 \in DOMAIN p /\ p[i + 1] = q[i]
      BY <1>5
    <3> QED BY <3>1 DEF Elems
  <2>3. t \in Elems(p)
    BY <1>5 DEF Elems
  <2> QED BY <2>1, <2>2, <2>3 DEF Elems
<1> QED BY <1>6, <1>7 DEF p

LEMMA TailQueue ==
  ASSUME NEW q \in Seq(TaskId), NoDup(q), q # <<>>
  PROVE  /\ Head(q) \in TaskId /\ Head(q) \in Elems(q) /\ NoDup(Tail(q))
         /\ Elems(Tail(q)) = Elems(q) \ {Head(q)}
<1> DEFINE n == Len(q)
           p == Tail(q)
<1>1. n \in Nat \ {0} /\ DOMAIN q = 1..n
  BY LenProperties, EmptySeq
<1>2. /\ p \in Seq(TaskId) /\ Len(p) = n - 1 /\ Head(q) \in TaskId /\ Head(q) = q[1]
      /\ \A i \in 1..(n - 1) : p[i] = q[i + 1]
  BY <1>1, HeadTailProperties
<1>3. DOMAIN p = 1..(n - 1)
  BY <1>2, LenProperties
<1> HIDE DEF n, p
<1>4. /\ \A i \in DOMAIN p : i + 1 \in DOMAIN q /\ i + 1 # 1 /\ p[i] = q[i + 1]
      /\ \A i \in DOMAIN q : i = 1 \/ (i - 1 \in DOMAIN p /\ p[i - 1] = q[i])
  BY <1>1, <1>2, <1>3
<1>5. 1 \in DOMAIN q
  BY <1>1
<1>6. NoDup(p)
  <2> SUFFICES ASSUME NEW i \in DOMAIN p, NEW j \in DOMAIN p, p[i] = p[j] PROVE i = j
    BY DEF NoDup
  <2>1. i + 1 = j + 1
    BY <1>4 DEF NoDup
  <2>2. i \in Int /\ j \in Int
    BY <1>1, <1>3
  <2> QED BY <2>1, <2>2
<1>7. Elems(p) = Elems(q) \ {q[1]}
  <2>1. \A i \in DOMAIN p : p[i] \in Elems(q) \ {q[1]}
    BY <1>4, <1>5 DEF Elems, NoDup
  <2>2. \A i \in DOMAIN q : q[i] # q[1] => q[i] \in Elems(p)
    <3> TAKE i \in DOMAIN q
    <3> HAVE q[i] # q[1]
    <3>1. i - 1 \in DOMAIN p /\ p[i - 1] = q[i]
      BY <1>4
    <3> QED BY <3>1 DEF Elems
  <2> QED BY <2>1, <2>2 DEF Elems
<1>8. q[1] \in Elems(q)
  BY <1>5 DEF Elems
<1> QED BY <1>2, <1>6, <1>7, <1>8 DEF p

LEMMA WithoutQueue ==
  ASSUME NEW q \in Seq(TaskId), NEW t \in TaskId, NoDup(q)
  PROVE  NoDup(Without(q, t)) /\ Elems(Without(q, t)) = Elems(q) \ {t}
<1>1. CASE Positions(q, t) = {}
  <2>1. Without(q, t) = q
    BY <1>1 DEF Without
  <2>2. t \notin Elems(q)
    BY <1>1 DEF Positions, Elems
  <2> QED BY <2>1, <2>2
<1>2. CASE Positions(q, t) # {}
  <2> DEFINE k == CHOOSE i \in Positions(q, t) : TRUE
             n == Len(q)
             x == SubSeq(q, 1, k - 1)
             y == SubSeq(q, k + 1, n)
             p == x \o y
  <2>1. k \in DOMAIN q /\ q[k] = t
    BY <1>2 DEF Positions
  <2>2. n \in Nat /\ DOMAIN q = 1..n /\ \A i \in 1..n : q[i] \in TaskId
    BY LenProperties, ElementOfSeq
  <2>3. Without(q, t) = p
    BY <1>2 DEF Without
  <2> HIDE DEF k, n
  <2>4. k \in 1..n /\ k \in Int /\ n \in Int
    BY <2>1, <2>2
  <2>5. x \in Seq(TaskId) /\ Len(x) = k - 1 /\ \A i \in 1..(k - 1) : x[i] = q[i]
    <3>1. \A i \in 1..(k - 1) : q[i] \in TaskId
      BY <2>2, <2>4
    <3>2. /\ x \in Seq(TaskId) /\ Len(x) = IF 1 <= k - 1 THEN (k - 1) - 1 + 1 ELSE 0
          /\ \A i \in 1..((k - 1) - 1 + 1) : x[i] = q[1 + i - 1]
      BY <2>4, <3>1, SubSeqProperties
    <3>3. \A i \in 1..(k - 1) : i \in 1..((k - 1) - 1 + 1) /\ 1 + i - 1 = i
      BY <2>4
    <3>4. (IF 1 <= k - 1 THEN (k - 1) - 1 + 1 ELSE 0) = k - 1
      BY <2>4
    <3> HIDE DEF x
    <3> QED BY <3>2, <3>3, <3>4
  <2>6. y \in Seq(TaskId) /\ Len(y) = n - k /\ \A i \in 1..(n - k) : y[i] = q[k + i]
    <3>1. \A i \in (k + 1)..n : q[i] \in TaskId
      BY <2>2, <2>4
    <3>2. /\ y \in Seq(TaskId) /\ Len(y) = IF k + 1 <= n THEN n - (k + 1) + 1 ELSE 0
          /\ \A i \in 1..(n - (k + 1) + 1) : y[i] = q[(k + 1) + i - 1]
      BY <2>4, <3>1, SubSeqProperties
    <3>3. \A i \in 1..(n - k) : i \in 1..(n - (k + 1) + 1) /\ (k + 1) + i - 1 = k + i
      BY <2>4
    <3>4. (IF k + 1 <= n THEN n - (k + 1) + 1 ELSE 0) = n - k
      BY <2>4
    <3> HIDE DEF y
    <3> QED BY <3>2, <3>3, <3>4
  <2> HIDE DEF x, y
  <2>7. /\ p \in Seq(TaskId) /\ Len(p) = Len(x) + Len(y)
        /\ \A i \in 1..(Len(x) + Len(y)) : p[i] = IF i <= Len(x) THEN x[i] ELSE y[i - Len(x)]
    BY <2>5, <2>6, ConcatProperties
  <2>8. DOMAIN p = 1..Len(p)
    BY <2>7, LenProperties
  <2> HIDE DEF p
  <2> DEFINE Old(i) == IF i < k THEN i ELSE i + 1
  <2>9. \A i \in DOMAIN p : i \in Int /\ Old(i) \in DOMAIN q /\ Old(i) # k /\ p[i] = q[Old(i)]
    <3> SUFFICES ASSUME NEW i \in DOMAIN p
                 PROVE  i \in Int /\ Old(i) \in DOMAIN q /\ Old(i) # k /\ p[i] = q[Old(i)]
      OBVIOUS
    <3>1. i \in 1..((k - 1) + (n - k))
      BY <2>5, <2>6, <2>7, <2>8
    <3>2. p[i] = IF i <= k - 1 THEN x[i] ELSE y[i - (k - 1)]
      BY <2>5, <2>6, <2>7, <3>1
    <3>3. CASE i < k
      <4>1. i <= k - 1 /\ i \in 1..(k - 1) /\ i \in 1..n
        BY <2>4, <3>1, <3>3
      <4>2. p[i] = q[i]
        BY <2>5, <3>2, <4>1
      <4> QED BY <2>2, <2>4, <3>1, <3>3, <4>1, <4>2
    <3>4. CASE ~(i < k)
      <4>1. ~(i <= k - 1) /\ i - (k - 1) \in 1..(n - k) /\ i + 1 \in 1..n /\ k + (i - (k - 1)) = i + 1
        BY <2>4, <3>1, <3>4
      <4>2. p[i] = q[i + 1]
        BY <2>6, <3>2, <4>1
      <4> QED BY <2>2, <2>4, <3>1, <3>4, <4>1, <4>2
    <3> QED BY <3>3, <3>4
  <2>10. NoDup(p)
    <3> SUFFICES ASSUME NEW i \in DOMAIN p, NEW j \in DOMAIN p, p[i] = p[j] PROVE i = j
      BY DEF NoDup
    <3>1. Old(i) = Old(j)
      BY <2>9 DEF NoDup
    <3>2. i \in Int /\ j \in Int
      BY <2>9
    <3> QED BY <2>4, <3>1, <3>2
  <2>11. Elems(p) \subseteq Elems(q) \ {t}
    <3> HIDE DEF Old
    <3> QED BY <2>1, <2>9 DEF Elems, NoDup
  <2>12. \A i \in DOMAIN q : i # k => \E j \in DOMAIN p : Old(j) = i
    <3> SUFFICES ASSUME NEW i \in DOMAIN q, i # k PROVE \E j \in DOMAIN p : Old(j) = i
      OBVIOUS
    <3>1. i \in 1..n /\ DOMAIN p = 1..((k - 1) + (n - k))
      BY <2>2, <2>5, <2>6, <2>7, <2>8
    <3>2. CASE i < k
      <4>1. i \in DOMAIN p
        BY <2>4, <3>1, <3>2
      <4> QED BY <3>2, <4>1
    <3>3. CASE i > k
      <4>1. i - 1 \in DOMAIN p /\ ~(i - 1 < k) /\ (i - 1) + 1 = i
        BY <2>4, <3>1, <3>3
      <4> QED BY <4>1
    <3> QED BY <2>4, <3>1, <3>2, <3>3
  <2>13. Elems(q) \ {t} \subseteq Elems(p)
    <3> SUFFICES ASSUME NEW i \in DOMAIN q, q[i] # t PROVE q[i] \in Elems(p)
      BY DEF Elems
    <3>1. PICK j \in DOMAIN p : Old(j) = i
      BY <2>1, <2>12
    <3> HIDE DEF Old
    <3>2. p[j] = q[i]
      BY <2>9, <3>1
    <3> QED BY <3>2 DEF Elems
  <2> QED BY <2>3, <2>10, <2>11, <2>13
<1> QED BY <1>1, <1>2

-----------------------------------------------------------------------------
\* A record that differs in its wait, its value or its shields only.
Rest(r, q) ==
    /\ q.scope = r.scope /\ q.joiners = r.joiners /\ q.panic = r.panic
    /\ q.started = r.started /\ q.cancel = r.cancel /\ q.ending = r.ending
Alike(r, q) == Rest(r, q) /\ q.state = r.state /\ q.block = r.block

\* What the helpers do to a record's fields.
LEMMA Moves ==
  ASSUME NEW r \in TaskRec
  PROVE  /\ \A w : Rest(r, Readied(r, w)) /\ Readied(r, w).state = "Ready"
         /\ \A n : Alike(r, Shielded(r, n))
         /\ \A J : LET q == JoinedBy(r, J) IN
              q.joiners = J /\ q.state = r.state /\ q.block = r.block /\ q.scope = r.scope
              /\ q.panic = r.panic /\ q.started = r.started /\ q.cancel = r.cancel
              /\ q.ending = r.ending
         /\ \A st, m : LET q == EndRec(r, st, m) IN
              q.state = "Ending" /\ q.ending = st /\ q.panic = m /\ q.scope = r.scope
              /\ q.joiners = r.joiners /\ q.started = r.started /\ q.cancel = r.cancel
         /\ Rest(r, Resumed(r)) /\ Resumed(r).state = "Running"
         /\ Rest(r, BlockedOnChildren(r)) /\ BlockedOnChildren(r).state = "Blocked"
         /\ BlockedOnChildren(r).block = WaitFor("cancel", 0)
         /\ \A c : LET q == SwitchedIn(r, c) IN
              q.state = "Running" /\ q.started /\ q.cancel = c /\ q.scope = r.scope
              /\ q.joiners = r.joiners /\ q.panic = r.panic /\ q.ending = r.ending
         /\ LET q == Requested(r) IN
              q.cancel = "Requested" /\ q.state = r.state /\ q.block = r.block
              /\ q.scope = r.scope /\ q.joiners = r.joiners /\ q.panic = r.panic
              /\ q.started = r.started /\ q.ending = r.ending /\ q.shield = r.shield
         /\ \A st : LET q == FinishedRec(r, st) IN
              q.state = st /\ q.ending = "none" /\ q.scope = r.scope /\ q.joiners = r.joiners
              /\ q.panic = r.panic /\ q.started = r.started /\ q.cancel = r.cancel
<1> USE DEF Rest, Alike
<1>1. \A w : Rest(r, Readied(r, w)) /\ Readied(r, w).state = "Ready"
  BY DEF Readied, TaskRec
<1>2. \A n : Alike(r, Shielded(r, n))
  BY DEF Shielded, TaskRec
<1>3. \A J : LET q == JoinedBy(r, J) IN
        q.joiners = J /\ q.state = r.state /\ q.block = r.block /\ q.scope = r.scope
        /\ q.panic = r.panic /\ q.started = r.started /\ q.cancel = r.cancel
        /\ q.ending = r.ending
  BY DEF JoinedBy, TaskRec
<1>4. \A st, m : LET q == EndRec(r, st, m) IN
        q.state = "Ending" /\ q.ending = st /\ q.panic = m /\ q.scope = r.scope
        /\ q.joiners = r.joiners /\ q.started = r.started /\ q.cancel = r.cancel
  BY DEF EndRec, TaskRec
<1>5. Rest(r, Resumed(r)) /\ Resumed(r).state = "Running"
  BY DEF Resumed, TaskRec
<1>6. /\ Rest(r, BlockedOnChildren(r)) /\ BlockedOnChildren(r).state = "Blocked"
      /\ BlockedOnChildren(r).block = WaitFor("cancel", 0)
  BY DEF BlockedOnChildren, TaskRec
<1>7. \A c : LET q == SwitchedIn(r, c) IN
        q.state = "Running" /\ q.started /\ q.cancel = c /\ q.scope = r.scope
        /\ q.joiners = r.joiners /\ q.panic = r.panic /\ q.ending = r.ending
  BY DEF SwitchedIn, TaskRec
<1>8. LET q == Requested(r) IN
        q.cancel = "Requested" /\ q.state = r.state /\ q.block = r.block
        /\ q.scope = r.scope /\ q.joiners = r.joiners /\ q.panic = r.panic
        /\ q.started = r.started /\ q.ending = r.ending /\ q.shield = r.shield
  BY DEF Requested, TaskRec
<1>9. \A st : LET q == FinishedRec(r, st) IN
        q.state = st /\ q.ending = "none" /\ q.scope = r.scope /\ q.joiners = r.joiners
        /\ q.panic = r.panic /\ q.started = r.started /\ q.cancel = r.cancel
  BY DEF FinishedRec, TaskRec
<1> QED BY <1>1, <1>2, <1>3, <1>4, <1>5, <1>6, <1>7, <1>8, <1>9

\* task_suspend_at makes the task ready and queues it, or blocks it.
LEMMA SuspendMoves ==
  ASSUME NEW r \in TaskRec, NEW b \in Block, NEW h \in BOOLEAN
  PROVE  LET q == SuspendRec(r, b, h) IN
         /\ q \in TaskRec /\ Rest(r, q)
         /\ \/ /\ q.state = "Ready"
               /\ SuspendQueue(r, b) \in {Append(runQueue, current), <<current>> \o runQueue}
            \/ q.state = "Blocked" /\ q.block = b /\ b # NoBlock /\ SuspendQueue(r, b) = runQueue
<1> DEFINE q == SuspendRec(r, b, h)
<1>1. q \in TaskRec
  BY RecTypes
<1>2. CASE DeliversNow(r) \/ b = NoBlock
  <2>1. Rest(r, q) /\ q.state = "Ready"
    BY <1>2 DEF SuspendRec, TaskRec, Rest
  <2>2. SuspendQueue(r, b) \in {Append(runQueue, current), <<current>> \o runQueue}
    BY <1>2 DEF SuspendQueue
  <2> QED BY <1>1, <2>1, <2>2
<1>3. CASE ~(DeliversNow(r) \/ b = NoBlock)
  <2>1. Rest(r, q) /\ q.state = "Blocked" /\ q.block = b
    BY <1>3 DEF SuspendRec, TaskRec, Rest
  <2>2. SuspendQueue(r, b) = runQueue
    BY <1>3 DEF SuspendQueue
  <2> QED BY <1>1, <1>3, <2>1, <2>2
<1> QED BY <1>2, <1>3

-----------------------------------------------------------------------------
(* The steps of user code, by what they do to the records. *)
SameScope(s) ==
    /\ sc'[s].owner = sc[s].owner /\ sc'[s].unfinished = sc[s].unfinished
    /\ sc'[s].failed = sc[s].failed /\ (sc[s].closed => sc'[s].closed)

\* The current task goes on: no record changes its state or its wait.
Panics ==
    /\ raised' = raised \cup {current} /\ unwinding' = unwinding \cup {current}
    /\ panicMsg' = IF current = ROOT THEN panicMsg ELSE current
Stands ==
    /\ at = "user" /\ at' \in {"user", "notify"} /\ Settled /\ fin' = fin
    /\ UNCHANGED <<tasks, runQueue, current, nextTask>>
    /\ \A t \in tasks : Alike(rec[t], rec'[t])
    /\ scopes \subseteq scopes' /\ (\A s \in scopes : SameScope(s))
    /\ \A s \in scopes' \ scopes : sc'[s].failed = NoMsg
    /\ UNCHANGED <<panicMsg, unwinding, raised>> \/ Panics

\* The current task suspends: it is queued, or what it waits for knows it.
Grown(r, q) ==
    /\ q.scope = r.scope /\ q.state = r.state /\ q.block = r.block /\ q.panic = r.panic
    /\ q.started = r.started /\ q.cancel = r.cancel /\ q.ending = r.ending
    /\ r.joiners \subseteq q.joiners
Known(b) ==
    /\ b.on = "join" => /\ b.id \in tasks /\ b.id # current /\ ~Finished(b.id)
                        /\ current \in rec'[b.id].joiners
    /\ b.on = "scope" => /\ b.id \in ScopesOwnedBy(current) /\ sc'[b.id].closed
                         /\ sc[b.id].unfinished # 0
    /\ b.on # "cancel"
Pauses ==
    /\ at = "user" /\ at' = "pick" /\ Settled
    /\ UNCHANGED <<tasks, scopes, current, nextTask, subj, cancels, fin, panicMsg, unwinding, raised>>
    /\ \A s \in scopes : SameScope(s)
    /\ \A t \in tasks \ {current} : Grown(rec[t], rec'[t])
    /\ Rest(rec[current], rec'[current])
    /\ \/ /\ rec'[current].state = "Ready"
          /\ runQueue' \in {Append(runQueue, current), <<current>> \o runQueue}
       \/ /\ rec'[current].state = "Blocked" /\ runQueue' = runQueue
          /\ Known(rec'[current].block)
    /\ current \in unwinding => "suspendingDefer" \in Ops \/ {"defer", "shield"} \subseteq Ops

\* Task t ends and leaves its message to its scope.
Returns(t) == t \notin unwinding /\ rec'[t].panic = NoMsg /\ raised' = raised
Unwinds(t) == /\ t \in unwinding /\ raised' = raised
              /\ rec'[t].panic \in {NoMsg, EmptyMsg, panicMsg}
              /\ panicMsg # NoMsg => rec'[t].ending = "Failed" /\ rec'[t].panic = panicMsg
Overflows(t) == rec'[t].ending = "Failed" /\ rec'[t].panic = t /\ raised' = raised \cup {t}
Ends(t) ==
    /\ t \in tasks \ {ROOT} /\ Settled /\ at' = "end" /\ subj' = t
    /\ (at = "user" /\ t = current) \/ (at = "run" /\ t = subj)
    /\ UNCHANGED <<tasks, scopes, runQueue, current, nextTask, fin>>
    /\ \A u \in tasks \ {t} : rec'[u] = rec[u]
    /\ rec'[t].state = "Ending" /\ rec'[t].scope = rec[t].scope
    /\ rec'[t].joiners = rec[t].joiners /\ rec'[t].started = rec[t].started
    /\ rec'[t].cancel = rec[t].cancel
    /\ \A s \in scopes :
         /\ sc'[s].owner = sc[s].owner /\ sc'[s].unfinished = sc[s].unfinished
         /\ sc'[s].failed = IF rec[t].scope = s /\ sc[s].failed = NoMsg
                            THEN rec'[t].panic ELSE sc[s].failed
         /\ sc[s].closed => sc'[s].closed
    /\ rec'[t].panic # NoMsg => Siblings(t) \subseteq cancels'
    /\ unwinding' = unwinding \ {t} /\ panicMsg' \in {panicMsg, NoMsg}
    /\ Returns(t) \/ Unwinds(t) \/ Overflows(t)

\* One field of a scope is set.
LEMMA ScopeClosed ==
  ASSUME Typed, NEW r \in ScopeId, sc' = [sc EXCEPT ![r].closed = TRUE, ![r].framed = FALSE]
  PROVE  sc'[r].closed /\ \A s \in scopes : SameScope(s)
  BY DEF Typed, ScopeRecZ, SameScope

LEMMA StandsUser ==
  ASSUME Typed, Control,
         \/ ScopeOpen \/ CondWaitAlone \/ ShieldEnter \/ Panic
         \/ \E s \in ScopeId : ScopeCloseFailed(s)
         \/ \E h \in TaskId : Cancel(h)
         \/ \E c \in Conds : CondNotify(c)
  PROVE  Stands
<1> DEFINE Rem == /\ at = "user" /\ at' \in {"user", "notify"} /\ Settled /\ fin' = fin
                  /\ UNCHANGED <<tasks, runQueue, current, nextTask>>
<1>1. \A t \in tasks : rec'[t] = rec[t] => Alike(rec[t], rec'[t])
  BY DEF Alike, Rest
<1>2. (sc' = sc /\ scopes' = scopes) =>
        /\ scopes \subseteq scopes' /\ (\A s \in scopes : SameScope(s))
        /\ \A s \in scopes' \ scopes : sc'[s].failed = NoMsg
  BY DEF SameScope
<1>3. CASE ScopeOpen
  <2>1. Rem /\ rec' = rec /\ UNCHANGED <<panicMsg, unwinding, raised>>
    BY <1>3 DEF ScopeOpen, User
  <2>2. /\ scopes' = scopes \cup {nextScope} /\ nextScope \in ScopeId /\ nextScope \notin scopes
        /\ sc' = [sc EXCEPT ![nextScope] = NewScope(current)]
    BY <1>3, ConstantsAssumption DEF ScopeOpen, Typed, ScopeId, Control, RecOK
  <2>3. (\A s \in scopes : SameScope(s)) /\ sc'[nextScope].failed = NoMsg
    BY <2>2 DEF Typed, SameScope, NewScope
  <2> QED BY <1>1, <2>1, <2>2, <2>3 DEF Stands
<1>4. CASE CondWaitAlone
  <2>1. Rem /\ rec' = rec /\ UNCHANGED <<panicMsg, unwinding, raised, sc, scopes>>
    BY <1>4 DEF CondWaitAlone, User, schedVars, ctlVars
  <2> QED BY <1>1, <1>2, <2>1 DEF Stands
<1>5. CASE ShieldEnter
  <2>1. Rem /\ UNCHANGED <<panicMsg, unwinding, raised, sc, scopes>>
        /\ rec' = [rec EXCEPT ![current] = Shielded(@, @.shield + 1)]
    BY <1>5 DEF ShieldEnter, User, ctlVars
  <2>2. \A t \in tasks : rec[t] \in TaskRec /\ rec'[t] \in {rec[t], Shielded(rec[t], rec[t].shield + 1)}
    BY <2>1 DEF Typed
  <2>3. \A t \in tasks : Alike(rec[t], rec'[t])
    BY <1>1, <2>2, Moves
  <2> QED BY <1>2, <2>1, <2>3 DEF Stands
<1>6. CASE Panic
  <2>1. Rem /\ rec' = rec /\ Panics /\ scopes' = scopes /\ sc' = Unframed(sc, current)
    BY <1>6 DEF Panic, Panics, ctlVars
  <2>2. \A s \in scopes : SameScope(s)
    BY <2>1 DEF Unframed, Typed, ScopeRecZ, SameScope
  <2> QED BY <1>1, <2>1, <2>2 DEF Stands
<1>7. ASSUME NEW s \in ScopeId, ScopeCloseFailed(s) PROVE Stands
  <2>1. Rem /\ rec' = rec /\ UNCHANGED <<panicMsg, unwinding, raised, scopes>>
        /\ sc' = [sc EXCEPT ![s].closed = TRUE, ![s].framed = FALSE]
    BY <1>7 DEF ScopeCloseFailed, User
  <2>2. \A r \in scopes : SameScope(r)
    BY <2>1, ScopeClosed
  <2> QED BY <1>1, <2>1, <2>2 DEF Stands
<1>8. ASSUME NEW h \in TaskId, Cancel(h) PROVE Stands
  <2>1. Rem /\ rec' = rec /\ UNCHANGED <<panicMsg, unwinding, raised, sc, scopes>>
    BY <1>8 DEF Cancel, User, schedVars
  <2> QED BY <1>1, <1>2, <2>1 DEF Stands
<1>9. ASSUME NEW c \in Conds, CondNotify(c) PROVE Stands
  <2>1. Rem /\ rec' = rec /\ UNCHANGED <<panicMsg, unwinding, raised, sc, scopes>>
    BY <1>9 DEF CondNotify, User, schedVars
  <2> QED BY <1>1, <1>2, <2>1 DEF Stands
<1> QED BY <1>3, <1>4, <1>5, <1>6, <1>7, <1>8, <1>9

\* The suspension itself, for any wait.
LEMMA PausesOne ==
  ASSUME Typed, Control, User, NEW r \in TaskRec, Rest(rec[current], r),
         NEW b \in Block, NEW h \in BOOLEAN,
         rec' = [rec EXCEPT ![current] = SuspendRec(r, b, h)], runQueue' = SuspendQueue(r, b),
         at' = "pick",
         UNCHANGED <<tasks, scopes, current, nextTask, subj, cancels, fin, panicMsg, unwinding, raised>>,
         \A s \in scopes : SameScope(s), b # NoBlock => Known(b),
         current \in unwinding => "suspendingDefer" \in Ops \/ {"defer", "shield"} \subseteq Ops
  PROVE  Pauses
<1> DEFINE q == SuspendRec(r, b, h)
<1>1. current \in tasks /\ current \in TaskId /\ rec[current] \in TaskRec
  BY UserFacts DEF User
<1>2. /\ Rest(r, q)
      /\ \/ /\ q.state = "Ready"
            /\ runQueue' \in {Append(runQueue, current), <<current>> \o runQueue}
         \/ q.state = "Blocked" /\ q.block = b /\ b # NoBlock /\ runQueue' = runQueue
  BY SuspendMoves
<1> HIDE DEF q
<1>3. rec'[current] = q /\ \A t \in tasks \ {current} : rec'[t] = rec[t]
  BY <1>1 DEF Typed, q
<1>4. Rest(rec[current], q)
  BY <1>2 DEF Rest
<1>5. \A t \in tasks \ {current} : Grown(rec[t], rec'[t])
  BY <1>3 DEF Grown
<1> QED BY <1>2, <1>3, <1>4, <1>5 DEF Pauses, User

LEMMA PausesUser ==
  ASSUME Typed, Control,
         \/ Sleep \/ Retry \/ Yield
         \/ \E s \in ScopeId : ScopeCloseWait(s)
         \/ \E h \in TaskId : Join(h)
         \/ \E c \in Conds : CondWait(c)
  PROVE  Pauses
<1>0. sc' = sc => \A s \in scopes : SameScope(s)
  BY DEF SameScope
<1>1. ASSUME NEW b \in Block, NEW h \in BOOLEAN, User, Suspend(b, h), Unmoved, Known(b) \/ b = NoBlock,
             NEW op, MaySuspend(op)
      PROVE  Pauses
  <2>1. rec[current] \in TaskRec /\ Rest(rec[current], rec[current])
    BY <1>1, UserFacts DEF User, Rest
  <2>2. /\ rec' = [rec EXCEPT ![current] = SuspendRec(rec[current], b, h)]
        /\ runQueue' = SuspendQueue(rec[current], b) /\ at' = "pick"
    BY <1>1 DEF Suspend
  <2>3. UNCHANGED <<tasks, scopes, sc, current, nextTask, subj, cancels, fin, panicMsg, unwinding, raised>>
    BY <1>1 DEF Unmoved
  <2>4. current \in unwinding => "suspendingDefer" \in Ops
    BY <1>1 DEF MaySuspend
  <2> QED BY <1>0, <1>1, <2>1, <2>2, <2>3, <2>4, PausesOne
<1>2. /\ \A k \in {"sleep", "retry"} : Known(WaitFor(k, 0)) /\ WaitFor(k, 0) \in Block
      /\ \A c \in Conds : Known(WaitFor("cond", c)) /\ WaitFor("cond", c) \in Block
      /\ NoBlock \in Block
  BY ValueTypes, ConstantsAssumption DEF Known, WaitFor, BlockOn
<1>3. CASE Sleep
  BY <1>1, <1>2, <1>3 DEF Sleep
<1>4. CASE Retry
  BY <1>1, <1>2, <1>4 DEF Retry
<1>5. CASE Yield
  BY <1>1, <1>2, <1>5 DEF Yield
<1>6. ASSUME NEW c \in Conds, CondWait(c) PROVE Pauses
  BY <1>1, <1>2, <1>6 DEF CondWait
<1>7. ASSUME NEW s \in ScopeId, ScopeCloseWait(s) PROVE Pauses
  <2> DEFINE b == WaitFor("scope", s)
             h == TRUE
  <2>1. User /\ rec[current] \in TaskRec /\ Rest(rec[current], rec[current])
    BY <1>7, UserFacts DEF ScopeCloseWait, User, Rest
  <2>2. /\ rec' = [rec EXCEPT ![current] = SuspendRec(rec[current], b, h)]
        /\ runQueue' = SuspendQueue(rec[current], b) /\ at' = "pick"
    BY <1>7 DEF Suspend, ScopeCloseWait
  <2>3. /\ UNCHANGED <<tasks, scopes, current, nextTask, subj, cancels, fin, panicMsg, unwinding, raised>>
        /\ current \in unwinding => "suspendingDefer" \in Ops
        /\ sc' = [sc EXCEPT ![s].closed = TRUE, ![s].framed = FALSE]
    BY <1>7 DEF ScopeCloseWait
  <2>4. sc'[s].closed /\ \A r \in scopes : SameScope(r)
    BY <2>3, ScopeClosed
  <2>5. s \in ScopesOwnedBy(current) /\ sc[s].unfinished # 0
    BY <1>7 DEF ScopeCloseWait, Innermost, Framed
  <2>6. Known(b) /\ b \in Block
    BY <2>4, <2>5, ValueTypes DEF Known, WaitFor
  <2> HIDE DEF b, h
  <2>7. h \in BOOLEAN
    BY DEF h
  <2> QED BY <2>1, <2>2, <2>3, <2>4, <2>6, <2>7, PausesOne
<1>8. ASSUME NEW t \in TaskId, Join(t) PROVE Pauses
  <2> DEFINE b == WaitFor("join", t)
             h == TRUE
             q == SuspendRec(rec[current], b, h)
             j == JoinedBy(rec[t], rec[t].joiners \cup {current})
  <2>1. User /\ current \in tasks /\ current \in TaskId /\ rec[current] \in TaskRec
    BY <1>8, UserFacts DEF Join, User
  <2>2. t \in tasks /\ t # ROOT /\ t # current /\ ~Finished(t) /\ rec[t] \in TaskRec
    BY <1>8 DEF Join, Typed
  <2>3. rec' = [rec EXCEPT ![t] = j, ![current] = q] /\ runQueue' = SuspendQueue(rec[current], b)
    BY <1>8 DEF Join
  <2>4. b \in Block /\ b.on = "join" /\ b.id = t /\ h \in BOOLEAN
    BY ValueTypes DEF WaitFor
  <2>5. /\ Rest(rec[current], q)
        /\ \/ /\ q.state = "Ready"
              /\ runQueue' \in {Append(runQueue, current), <<current>> \o runQueue}
           \/ q.state = "Blocked" /\ q.block = b /\ b # NoBlock /\ runQueue' = runQueue
    BY <2>1, <2>3, <2>4, SuspendMoves
  <2>6. j.joiners = rec[t].joiners \cup {current} /\ Grown(rec[t], j)
    BY <2>2, Moves DEF Grown
  <2> HIDE DEF q, j, b, h
  <2>7. \A u \in tasks : rec'[u] = IF u = current THEN q ELSE IF u = t THEN j ELSE rec[u]
    BY <2>2, <2>3 DEF Typed
  <2>8. \A u \in tasks \ {current} : Grown(rec[u], rec'[u])
    BY <2>6, <2>7 DEF Grown
  <2>9. Known(b)
    BY <2>2, <2>4, <2>6, <2>7 DEF Known
  <2>10. /\ at' = "pick"
         /\ UNCHANGED <<tasks, scopes, sc, current, nextTask, subj, cancels, fin, panicMsg, unwinding, raised>>
         /\ current \in unwinding => "suspendingDefer" \in Ops
    BY <1>8 DEF Join, MaySuspend
  <2> QED BY <1>0, <2>1, <2>5, <2>7, <2>8, <2>9, <2>10 DEF Pauses, User
<1> QED BY <1>3, <1>4, <1>5, <1>6, <1>7, <1>8

LEMMA ShieldLeft ==
  ASSUME Typed, Control, ShieldExit
  PROVE  Stands \/ Pauses
<1> DEFINE r == Shielded(rec[current], rec[current].shield - 1)
           deliver == current # ROOT /\ Deliverable(r)
           h == TRUE
<1>1. User /\ current \in tasks /\ current \in TaskId /\ rec[current] \in TaskRec
  BY UserFacts DEF ShieldExit, User
<1>2. rec[current].shield > 0 /\ rec[current].shield \in Nat
  BY <1>1, FieldTypes DEF ShieldExit
<1>3. r \in TaskRec /\ Alike(rec[current], r)
  BY <1>1, <1>2, FieldTypes, Moves
<1>4. UNCHANGED <<tasks, scopes, sc, current, nextTask, subj, cancels, fin, panicMsg, unwinding, raised>>
  BY DEF ShieldExit, Unmoved
<1>5. \A s \in scopes : SameScope(s)
  BY <1>4 DEF SameScope
<1>6. /\ rec' = [rec EXCEPT ![current] = IF deliver THEN SuspendRec(r, NoBlock, h) ELSE r]
      /\ runQueue' = IF deliver THEN SuspendQueue(r, NoBlock) ELSE runQueue
      /\ at' = IF deliver THEN "pick" ELSE "user"
  BY DEF ShieldExit
<1>7. current \in unwinding => {"defer", "shield"} \subseteq Ops
  BY DEF ShieldExit, MayRun
<1>8. h \in BOOLEAN /\ NoBlock \in Block
  BY ValueTypes
<1> HIDE DEF r, h
<1>9. CASE deliver
  <2>1. /\ rec' = [rec EXCEPT ![current] = SuspendRec(r, NoBlock, h)]
        /\ runQueue' = SuspendQueue(r, NoBlock) /\ at' = "pick"
    BY <1>6, <1>9
  <2>2. Rest(rec[current], r)
    BY <1>3 DEF Alike
  <2> QED BY <1>1, <1>3, <1>4, <1>5, <1>7, <1>8, <2>1, <2>2, PausesOne
<1>10. CASE ~deliver
  <2>1. rec' = [rec EXCEPT ![current] = r] /\ runQueue' = runQueue /\ at' = "user"
    BY <1>6, <1>10
  <2>2. \A t \in tasks : Alike(rec[t], rec'[t])
    BY <1>3, <2>1 DEF Typed, Alike, Rest
  <2> QED BY <1>1, <1>4, <1>5, <2>1, <2>2 DEF Stands, User
<1> QED BY <1>9, <1>10

\* task_end, whoever calls it.
LEMMA EndMoves ==
  ASSUME Typed, Control, NEW t \in tasks \ {ROOT}, NEW st \in FinishedStates, NEW m \in Msg,
         TaskEnd(t, st, m), UNCHANGED scopes
  PROVE  /\ at' = "end" /\ subj' = t
         /\ \A u \in tasks \ {t} : rec'[u] = rec[u]
         /\ rec'[t].state = "Ending" /\ rec'[t].scope = rec[t].scope
         /\ rec'[t].joiners = rec[t].joiners /\ rec'[t].started = rec[t].started
         /\ rec'[t].cancel = rec[t].cancel /\ rec'[t].ending = st /\ rec'[t].panic = m
         /\ \A s \in scopes :
              /\ sc'[s].owner = sc[s].owner /\ sc'[s].unfinished = sc[s].unfinished
              /\ sc'[s].failed = IF rec[t].scope = s /\ sc[s].failed = NoMsg
                                 THEN rec'[t].panic ELSE sc[s].failed
              /\ sc[s].closed => sc'[s].closed
         /\ rec'[t].panic # NoMsg => Siblings(t) \subseteq cancels'
<1> DEFINE q == EndRec(rec[t], st, m)
<1>1. t \in TaskId /\ rec[t] \in TaskRec
  BY DEF Typed
<1>2. /\ q.state = "Ending" /\ q.ending = st /\ q.panic = m /\ q.scope = rec[t].scope
      /\ q.joiners = rec[t].joiners /\ q.started = rec[t].started /\ q.cancel = rec[t].cancel
  BY <1>1, Moves
<1>3. rec' = [rec EXCEPT ![t] = q] /\ at' = "end" /\ subj' = t
  BY DEF TaskEnd
<1> HIDE DEF q
<1>4. rec'[t] = q /\ \A u \in tasks \ {t} : rec'[u] = rec[u]
  BY <1>1, <1>3 DEF Typed
<1>5. \A s \in scopes : sc'[s] = EndScope(s, t, m)
  BY DEF TaskEnd, Typed
<1>6. \A s \in scopes :
        /\ sc'[s].owner = sc[s].owner /\ sc'[s].unfinished = sc[s].unfinished
        /\ sc'[s].failed = IF rec[t].scope = s /\ sc[s].failed = NoMsg THEN m ELSE sc[s].failed
        /\ sc[s].closed => sc'[s].closed
  <2> TAKE s \in scopes
  <2>1. sc[s] \in ScopeRecZ
    BY DEF Typed
  <2>2. PICK c, v : /\ c = (sc[s].closed \/ sc[s].owner = t)
                    /\ v = IF rec[t].scope = s /\ sc[s].failed = NoMsg THEN m ELSE sc[s].failed
    OBVIOUS
  <2>3. sc'[s] = [sc[s] EXCEPT !.closed = c, !.failed = v]
    BY <1>5, <2>2, Zenon DEF EndScope
  <2>4. /\ sc'[s].owner = sc[s].owner /\ sc'[s].unfinished = sc[s].unfinished
        /\ sc'[s].failed = v /\ sc'[s].closed = c
    BY <2>1, <2>3 DEF ScopeRecZ
  <2> QED BY <2>2, <2>4
<1>7. m # NoMsg => Siblings(t) \subseteq cancels'
  BY DEF TaskEnd
<1> QED BY <1>2, <1>3, <1>4, <1>6, <1>7

LEMMA EndsStep ==
  ASSUME Typed, Control, Return \/ UnwindDone \/ RunOverflow
  PROVE  \E t \in tasks : Ends(t)
<1>1. CASE Return
  <2>1. /\ current \in tasks \ {ROOT} /\ TaskEnd(current, "Done", NoMsg) /\ at = "user" /\ Settled
        /\ current \notin unwinding
        /\ UNCHANGED <<tasks, scopes, runQueue, current, nextTask, fin, panicMsg, unwinding, raised>>
    BY <1>1, UserFacts DEF Return, User
  <2>2. "Done" \in FinishedStates /\ NoMsg \in Msg
    BY DEF FinishedStates, Msg
  <2>3. rec'[current].panic = NoMsg
    BY <2>1, <2>2, EndMoves
  <2>4. Ends(current)
    BY <2>1, <2>2, <2>3, EndMoves DEF Ends, Returns
  <2> QED BY <2>1, <2>4
<1>2. CASE UnwindDone
  <2>1. /\ current \in tasks \ {ROOT} /\ at = "user" /\ Settled /\ current \in unwinding
        /\ panicMsg' = NoMsg /\ unwinding' = unwinding \ {current}
        /\ UNCHANGED <<tasks, scopes, runQueue, current, nextTask, fin, raised>>
    BY <1>2, UserFacts DEF UnwindDone, User
  <2>2. PICK st \in FinishedStates, m \in {NoMsg, EmptyMsg, panicMsg} :
          /\ TaskEnd(current, st, m)
          /\ panicMsg # NoMsg => st = "Failed" /\ m = panicMsg
    BY <1>2 DEF UnwindDone, FinishedStates, Cancelled
  <2>3. m \in Msg
    BY DEF Msg, Typed
  <2>4. rec'[current].panic = m /\ rec'[current].ending = st
    BY <2>1, <2>2, <2>3, EndMoves
  <2>5. Unwinds(current)
    BY <2>1, <2>2, <2>4 DEF Unwinds
  <2>6. Ends(current)
    BY <2>1, <2>2, <2>3, <2>5, EndMoves DEF Ends
  <2> QED BY <2>1, <2>6
<1>3. CASE RunOverflow
  <2>1. /\ subj \in tasks \ {ROOT} /\ at = "run" /\ Settled /\ TaskEnd(subj, "Failed", subj)
        /\ raised' = raised \cup {subj} /\ unwinding' = unwinding \ {subj}
        /\ UNCHANGED <<tasks, scopes, runQueue, current, nextTask, fin, panicMsg>>
    BY <1>3 DEF RunOverflow, Control, AtOK
  <2>2. "Failed" \in FinishedStates /\ subj \in Msg
    BY <2>1 DEF FinishedStates, Msg, Typed
  <2>3. rec'[subj].panic = subj /\ rec'[subj].ending = "Failed"
    BY <2>1, <2>2, EndMoves
  <2>4. Ends(subj)
    BY <2>1, <2>2, <2>3, EndMoves DEF Ends, Overflows
  <2> QED BY <2>1, <2>4
<1> QED BY <1>1, <1>2, <1>3

-----------------------------------------------------------------------------
(* The steps of the scheduler, by what they do to the records. *)
Only(u) == \A t \in tasks \ {u} : rec'[t] = rec[t]
\* A waiting task is made ready and queued.
Wakes(u) ==
    /\ u \in tasks /\ rec[u].state \notin {"Ready", "Ending"} \cup FinishedStates
    /\ Only(u) /\ Rest(rec[u], rec'[u]) /\ rec'[u].state = "Ready"
    /\ runQueue' = Append(runQueue, u)
    /\ UNCHANGED <<tasks, scopes, sc, current, nextTask, panicMsg, unwinding, cancels, raised>>

LEMMA WakesOne ==
  ASSUME Typed, NEW u \in tasks, rec[u].state \notin {"Ready", "Ending"} \cup FinishedStates,
         NEW w, rec' = [rec EXCEPT ![u] = Readied(@, w)], runQueue' = Append(runQueue, u),
         UNCHANGED <<tasks, scopes, sc, current, nextTask, panicMsg, unwinding, cancels, raised>>
  PROVE  Wakes(u)
<1> DEFINE q == Readied(rec[u], w)
<1>1. Rest(rec[u], q) /\ q.state = "Ready"
  BY Moves DEF Typed
<1>2. rec' = [rec EXCEPT ![u] = q]
  OBVIOUS
<1> HIDE DEF q
<1>3. rec'[u] = q /\ Only(u)
  BY <1>2 DEF Typed, Only
<1> QED BY <1>1, <1>3 DEF Wakes

\* Events, notifications and the deadlock wake a task.
LEMMA EventWakes ==
  ASSUME Typed, Control
  PROVE  /\ \A t \in TaskId : WakeCond(t) =>
              Wakes(t) /\ at = "notify" /\ at' \in {"user", "notify"} /\ fin' = fin
         /\ \A t \in TaskId : WaitEvent(t) =>
              Wakes(t) /\ at \in {"wait", "pick"} /\ at' = "wait" /\ fin = NoFin /\ fin' = fin
         /\ Deadlock /\ rec[ROOT].state # "Ready" =>
              Wakes(ROOT) /\ at = "pick" /\ at' = "pick" /\ fin = NoFin /\ fin' = fin
<1>1. ASSUME NEW t \in TaskId, WakeCond(t)
      PROVE  Wakes(t) /\ at = "notify" /\ at' \in {"user", "notify"} /\ fin' = fin
  <2>1. /\ t \in tasks /\ rec[t].state = "Blocked" /\ at = "notify" /\ at' \in {"user", "notify"}
        /\ rec' = [rec EXCEPT ![t] = Readied(@, WakeWith("status"))]
        /\ runQueue' = Append(runQueue, t) /\ fin' = fin
        /\ UNCHANGED <<tasks, scopes, sc, current, nextTask, panicMsg, unwinding, cancels, raised>>
    BY <1>1 DEF WakeCond, CondWaiters
  <2>2. "Blocked" \notin {"Ready", "Ending"} \cup FinishedStates
    BY DEF FinishedStates
  <2> QED BY <2>1, <2>2, WakesOne
<1>2. ASSUME NEW t \in TaskId, WaitEvent(t)
      PROVE  Wakes(t) /\ at \in {"wait", "pick"} /\ at' = "wait" /\ fin = NoFin /\ fin' = fin
  <2> DEFINE w == WakeWith(IF rec[t].block.on = "retry" THEN "retry" ELSE "unit")
  <2>1. /\ t \in tasks /\ rec[t].state = "Blocked" /\ at \in {"wait", "pick"} /\ at' = "wait"
        /\ rec' = [rec EXCEPT ![t] = Readied(@, w)]
        /\ runQueue' = Append(runQueue, t) /\ fin' = fin /\ fin = NoFin
        /\ UNCHANGED <<tasks, scopes, sc, current, nextTask, panicMsg, unwinding, cancels, raised>>
    BY <1>2 DEF WaitEvent, Unmoved, Settled
  <2>2. "Blocked" \notin {"Ready", "Ending"} \cup FinishedStates
    BY DEF FinishedStates
  <2> HIDE DEF w
  <2> QED BY <2>1, <2>2, WakesOne
<1>3. ASSUME Deadlock, rec[ROOT].state # "Ready"
      PROVE  Wakes(ROOT) /\ at = "pick" /\ at' = "pick" /\ fin = NoFin /\ fin' = fin
  <2>1. /\ at = "pick" /\ at' = "pick" /\ fin = NoFin /\ fin' = fin
        /\ rec' = [rec EXCEPT ![ROOT] = Readied(@, WakeWith("deadlock"))]
        /\ runQueue = <<>> /\ runQueue' = <<ROOT>>
        /\ UNCHANGED <<tasks, scopes, sc, current, nextTask, panicMsg, unwinding, cancels, raised>>
    BY <1>3 DEF Deadlock, DeadlockRec, ctlVars, Settled
  <2>2. runQueue' = Append(runQueue, ROOT)
    BY <2>1
  <2>3. ROOT \in tasks /\ rec[ROOT].state \notin {"Ready", "Ending"} \cup FinishedStates
    BY <1>3 DEF Control, RecOK, FinishedStates
  <2> QED BY <2>1, <2>2, <2>3, WakesOne
<1> QED BY <1>1, <1>2, <1>3

\* The task whose finalize is at its wakeups, and the owner of its scope.
LEMMA FinFacts ==
  ASSUME Typed, Control, Tree, fin.step = "wake"
  PROVE  /\ fin.id \in tasks \ {ROOT} /\ Finished(fin.id)
         /\ rec[fin.id].scope \in scopes /\ sc[rec[fin.id].scope].owner \in tasks \ {fin.id}
<1>1. fin.id \in tasks \ {ROOT} /\ Finished(fin.id)
  BY DEF Control, FinOK, NoFin, Finished
<1>2. rec[fin.id].scope \in scopes /\ sc[rec[fin.id].scope].owner \in tasks
      /\ ~Finished(sc[rec[fin.id].scope].owner)
  BY <1>1 DEF Tree, Structured
<1> QED BY <1>1, <1>2

\* NotifyOwner wakes the owner, ends it, or leaves it waiting for others.
Owner == sc[rec[fin.id].scope].owner
LeftWaiting ==
    /\ ~(/\ ScopeDone(rec[fin.id].scope) /\ rec[Owner].state = "Blocked"
         /\ rec[Owner].block = WaitFor("scope", rec[fin.id].scope))
    /\ OwnedChildrenFinished(Owner) =>
         /\ rec[Owner].state # "Ending"
         /\ ~(rec[Owner].state = "Blocked" /\ rec[Owner].block.on = "cancel")
Notifies ==
    /\ fin.step = "wake" /\ rec[fin.id].joiners = {} /\ at' = at /\ subj' = subj
    /\ \/ Wakes(Owner) /\ fin' = NoFin
       \/ /\ UNCHANGED <<tasks, rec, scopes, sc, runQueue, current, nextTask, panicMsg,
                         unwinding, cancels, raised>>
          /\ \/ fin' = Finalize(Owner, rec[Owner].ending) /\ rec[Owner].state = "Ending"
             \/ fin' = NoFin /\ LeftWaiting
LEMMA NotifyMoves ==
  ASSUME Typed, Control, Tree, NotifyOwner
  PROVE  Notifies
<1> USE DEF Notifies
<1> DEFINE s == rec[fin.id].scope
           scopeDone == ScopeDone(s) /\ rec[Owner].state = "Blocked" /\ rec[Owner].block = WaitFor("scope", s)
           ends == OwnedChildrenFinished(Owner) /\ rec[Owner].ending # "none"
           unwinds == OwnedChildrenFinished(Owner) /\ rec[Owner].ending = "none"
                      /\ rec[Owner].state = "Blocked" /\ rec[Owner].block.on = "cancel"
<1>1. fin.step = "wake" /\ rec[fin.id].joiners = {} /\ at' = at /\ subj' = subj
  BY DEF NotifyOwner
<1>2. s \in scopes /\ Owner \in tasks
  BY <1>1, FinFacts DEF Owner
<1>3. /\ fin' = IF ends THEN Finalize(Owner, rec[Owner].ending) ELSE NoFin
      /\ rec' = IF scopeDone THEN [rec EXCEPT ![Owner] = Readied(@, ScopeWake(s))]
                ELSE IF unwinds THEN [rec EXCEPT ![Owner] = Readied(@, CancelWake(@))]
                ELSE rec
      /\ runQueue' = IF scopeDone \/ unwinds THEN Append(runQueue, Owner) ELSE runQueue
      /\ UNCHANGED <<tasks, scopes, sc, current, nextTask, panicMsg, unwinding, cancels, raised>>
  BY <1>2, Zenon DEF NotifyOwner, Owner
<1>4. rec[Owner].state = "Ending" <=> rec[Owner].ending # "none"
  BY <1>2 DEF Control, RecOK
<1>5. \A r : CancelWake(r) = WakeWith("unit")
  BY DEF CancelWake
<1>6. "Blocked" \notin {"Ready", "Ending"} \cup FinishedStates
  BY DEF FinishedStates
<1> HIDE DEF s
<1>7. CASE scopeDone
  <2>1. /\ rec' = [rec EXCEPT ![Owner] = Readied(@, ScopeWake(s))]
        /\ runQueue' = Append(runQueue, Owner) /\ fin' = NoFin
    BY <1>3, <1>4, <1>7
  <2>2. Wakes(Owner)
    BY <1>2, <1>3, <1>6, <1>7, <2>1, WakesOne
  <2> QED BY <1>1, <2>1, <2>2
<1>8. CASE ~scopeDone /\ unwinds
  <2>1. /\ rec' = [rec EXCEPT ![Owner] = Readied(@, WakeWith("unit"))]
        /\ runQueue' = Append(runQueue, Owner) /\ fin' = NoFin
    BY <1>3, <1>4, <1>5, <1>8
  <2>2. Wakes(Owner)
    BY <1>2, <1>3, <1>6, <1>8, <2>1, WakesOne
  <2> QED BY <1>1, <2>1, <2>2
<1>9. CASE ~scopeDone /\ ~unwinds
  <2>1. UNCHANGED <<tasks, rec, scopes, sc, runQueue, current, nextTask, panicMsg,
                    unwinding, cancels, raised>>
    BY <1>3, <1>9
  <2>2. CASE ends
    BY <1>1, <1>3, <1>4, <2>1, <2>2
  <2>3. CASE ~ends
    <3>1. LeftWaiting
      BY <1>4, <1>9, <2>3 DEF LeftWaiting, s
    <3> QED BY <1>1, <1>3, <2>1, <2>3, <3>1
  <2> QED BY <2>2, <2>3
<1> QED BY <1>7, <1>8, <1>9

\* A joiner is taken off the list of the finished task, and woken if it waits.
Unlists(j) ==
    /\ fin.step = "wake" /\ j \in rec[fin.id].joiners
    /\ UNCHANGED <<tasks, scopes, sc, current, nextTask, panicMsg, unwinding, at, subj,
                   cancels, fin, raised>>
    /\ \A t \in tasks \ {fin.id, j} : rec'[t] = rec[t]
    /\ rec'[fin.id].joiners = rec[fin.id].joiners \ {j}
    /\ LET r == rec[fin.id]
           q == rec'[fin.id]
       IN q.scope = r.scope /\ q.state = r.state /\ q.block = r.block /\ q.panic = r.panic
          /\ q.started = r.started /\ q.cancel = r.cancel /\ q.ending = r.ending
    /\ \/ /\ j \in tasks \ {fin.id} /\ rec[j].state = "Blocked"
          /\ Rest(rec[j], rec'[j]) /\ rec'[j].state = "Ready"
          /\ runQueue' = Append(runQueue, j)
       \/ /\ j \in tasks \ {fin.id} => rec'[j] = rec[j]
          /\ j \in tasks => ~(rec[j].state = "Blocked" /\ rec[j].block = WaitFor("join", fin.id))
          /\ runQueue' = runQueue
LEMMA JoinerMoves ==
  ASSUME Typed, Control, Tree, NEW j \in TaskId, WakeJoiner(j)
  PROVE  Unlists(j)
<1> USE DEF Unlists
<1> DEFINE f == fin.id
           wakes == j \in tasks /\ rec[j].state = "Blocked" /\ rec[j].block = WaitFor("join", f)
           p == JoinedBy(rec[f], rec[f].joiners \ {j})
           w == WakeWith("status")
           q == Readied(rec[j], w)
<1>1. /\ fin.step = "wake" /\ j \in rec[f].joiners
      /\ rec' = [t \in TaskId |-> IF t = f THEN p ELSE IF t = j /\ wakes THEN q ELSE rec[t]]
      /\ runQueue' = IF wakes THEN Append(runQueue, j) ELSE runQueue
      /\ UNCHANGED <<tasks, scopes, sc, current, nextTask, panicMsg, unwinding, at, subj,
                     cancels, fin, raised>>
  BY DEF WakeJoiner
<1>2. f \in tasks \ {ROOT} /\ rec[f].state \in FinishedStates /\ rec[f] \in TaskRec /\ rec[j] \in TaskRec
  BY <1>1, FinFacts DEF Typed, Finished
<1>3. /\ p.joiners = rec[f].joiners \ {j} /\ p.state = rec[f].state /\ p.block = rec[f].block
      /\ p.scope = rec[f].scope /\ p.panic = rec[f].panic /\ p.started = rec[f].started
      /\ p.cancel = rec[f].cancel /\ p.ending = rec[f].ending
  BY <1>2, Moves
<1>4. Rest(rec[j], q) /\ q.state = "Ready"
  BY <1>2, Moves
<1>5. wakes => j # f
  BY <1>2 DEF FinishedStates
<1> HIDE DEF p, q, f
<1>6. \A t \in tasks : rec'[t] = IF t = f THEN p ELSE IF t = j /\ wakes THEN q ELSE rec[t]
  BY <1>1 DEF Typed
<1>7. rec'[f] = p /\ \A t \in tasks \ {f, j} : rec'[t] = rec[t]
  BY <1>2, <1>6
<1>8. CASE wakes
  BY <1>1, <1>3, <1>4, <1>5, <1>6, <1>7, <1>8 DEF f
<1>9. CASE ~wakes
  <2>1. j \in tasks \ {f} => rec'[j] = rec[j]
    BY <1>6, <1>9
  <2>2. runQueue' = runQueue
    BY <1>1, <1>9
  <2> QED BY <1>1, <1>3, <1>7, <1>9, <2>1, <2>2 DEF f
<1> QED BY <1>8, <1>9

\* A cancel request does nothing, drops a task that never started, or marks
\* the task and wakes it unless it is shielded or runs.
Marks(c) ==
    /\ Only(c) /\ rec'[c].cancel = "Requested" /\ rec'[c].scope = rec[c].scope
    /\ rec'[c].joiners = rec[c].joiners /\ rec'[c].panic = rec[c].panic
    /\ rec'[c].started = rec[c].started /\ rec'[c].ending = rec[c].ending
    /\ \/ /\ rec'[c].state = rec[c].state /\ rec'[c].block = rec[c].block
          /\ runQueue' = runQueue
       \/ /\ rec[c].state = "Blocked" /\ rec'[c].state = "Ready"
          /\ runQueue' = Append(runQueue, c)
Requests(c) ==
    /\ fin = NoFin /\ c \in cancels /\ cancels' = cancels \ {c}
    /\ UNCHANGED <<tasks, scopes, sc, current, nextTask, panicMsg, unwinding, at, subj, raised>>
    /\ \/ ~Cancellable(c) /\ UNCHANGED <<rec, runQueue, fin>>
       \/ /\ Cancellable(c) /\ ~rec[c].started /\ rec' = rec
          /\ runQueue' = Without(runQueue, c) /\ fin' = Finalize(c, "Dropped")
       \/ Cancellable(c) /\ rec[c].started /\ fin' = fin /\ Marks(c)
LEMMA CancelMoves ==
  ASSUME Typed, Control, NEW c \in TaskId, RequestCancel(c)
  PROVE  Requests(c)
<1> USE DEF Requests
<1>1. /\ fin = NoFin /\ c \in cancels /\ cancels' = cancels \ {c}
      /\ UNCHANGED <<tasks, scopes, sc, current, nextTask, panicMsg, unwinding, at, subj, raised>>
  BY DEF RequestCancel
<1>2. CASE ~Cancellable(c)
  BY <1>1, <1>2 DEF RequestCancel
<1>3. CASE Cancellable(c) /\ ~rec[c].started
  BY <1>1, <1>3 DEF RequestCancel
<1>4. CASE Cancellable(c) /\ rec[c].started
  <2> DEFINE q == CancelRec(c)
             r == Requested(rec[c])
             w == WakeWith(IF r.block.on = "retry" THEN "retry" ELSE "unit")
  <2>1. /\ rec' = [rec EXCEPT ![c] = q] /\ fin' = fin
        /\ runQueue' = IF q.state # rec[c].state THEN Append(runQueue, c) ELSE runQueue
    BY <1>4 DEF RequestCancel
  <2>2. c \in tasks /\ rec[c] \in TaskRec
    BY <1>4 DEF Cancellable, Typed
  <2>3. /\ r.cancel = "Requested" /\ r.state = rec[c].state /\ r.block = rec[c].block
        /\ r.scope = rec[c].scope /\ r.joiners = rec[c].joiners /\ r.panic = rec[c].panic
        /\ r.started = rec[c].started /\ r.ending = rec[c].ending
    BY <2>2, Moves
  <2>4. r \in TaskRec
    BY <2>2, LoopRecTypes
  <2>5. q = r \/ (rec[c].state = "Blocked" /\ q = Readied(r, w))
    BY <2>3 DEF CancelRec
  <2> HIDE DEF r, w, q
  <2>6. Rest(r, Readied(r, w)) /\ Readied(r, w).state = "Ready"
    BY <2>4, Moves
  <2>7. rec'[c] = q /\ Only(c)
    BY <2>1, <2>2 DEF Typed, Only
  <2>8. Marks(c)
    <3>1. CASE q = r
      BY <2>1, <2>3, <2>7, <3>1 DEF Marks
    <3>2. CASE rec[c].state = "Blocked" /\ q = Readied(r, w)
      BY <2>1, <2>3, <2>6, <2>7, <3>2 DEF Marks, Rest
    <3> QED BY <2>5, <3>1, <3>2
  <2> QED BY <1>1, <1>4, <2>1, <2>8
<1> QED BY <1>2, <1>3, <1>4

\* A child is born ready and unstarted, in an open scope.
Births(s) ==
    /\ s \in scopes /\ at = "user" /\ Settled
    /\ nextTask \in TaskId \ {ROOT} /\ nextTask \notin tasks
    /\ tasks' = tasks \cup {nextTask} /\ nextTask' = nextTask + 1
    /\ \A t \in tasks : rec'[t] = rec[t]
    /\ LET q == rec'[nextTask] IN
         q.state = "Ready" /\ ~q.started /\ q.cancel = "None" /\ q.scope = s
    /\ \A r \in scopes :
         /\ sc'[r].owner = sc[r].owner /\ sc'[r].failed = sc[r].failed
         /\ sc'[r].closed = sc[r].closed
         /\ sc'[r].unfinished = IF r = s THEN sc[r].unfinished + 1 ELSE sc[r].unfinished
    /\ runQueue' = Append(runQueue, nextTask)
    /\ UNCHANGED <<scopes, current, at, subj, cancels, fin, panicMsg, unwinding, raised>>
LEMMA SpawnMoves ==
  ASSUME Typed, Control, NEW s \in ScopeId, Spawn(s)
  PROVE  Births(s)
<1>1. /\ tasks' = tasks \cup {nextTask} /\ nextTask \in TaskId \ {ROOT} /\ nextTask \notin tasks
      /\ nextTask' = nextTask + 1 /\ s \in scopes /\ at = "user" /\ Settled
      /\ runQueue' = Append(runQueue, nextTask)
      /\ UNCHANGED <<scopes, current, at, subj, cancels, fin, panicMsg, unwinding, raised>>
  BY ConstantsAssumption DEF Spawn, User, Typed, TaskId, ROOT, Control, RecOK
<1>2. rec'[nextTask] = NewRec(s) /\ \A t \in tasks : rec'[t] = rec[t]
  BY <1>1 DEF Spawn, Typed
<1>3. LET q == rec'[nextTask] IN q.state = "Ready" /\ ~q.started /\ q.cancel = "None" /\ q.scope = s
  BY <1>2 DEF NewRec, FreshRec
<1>4. /\ sc'[s] = Counted(sc[s], sc[s].unfinished + 1)
      /\ \A r \in scopes \ {s} : sc'[r] = sc[r]
  BY <1>1 DEF Spawn, Typed
<1>5. /\ sc'[s].owner = sc[s].owner /\ sc'[s].unfinished = sc[s].unfinished + 1
      /\ sc'[s].failed = sc[s].failed /\ sc'[s].closed = sc[s].closed
  BY <1>1, <1>4 DEF Counted, Typed, ScopeRecZ
<1>6. \A r \in scopes :
         /\ sc'[r].owner = sc[r].owner /\ sc'[r].failed = sc[r].failed
         /\ sc'[r].closed = sc[r].closed
         /\ sc'[r].unfinished = IF r = s THEN sc[r].unfinished + 1 ELSE sc[r].unfinished
  BY <1>4, <1>5
<1> QED BY <1>1, <1>2, <1>3, <1>6 DEF Births

\* A scope whose tasks have finished is forgotten with them, or the scheduler
\* or the whole program ends.
Forgets ==
    /\ at = "user" /\ Settled
    /\ UNCHANGED <<runQueue, current, nextTask, at, subj, cancels, fin, panicMsg, unwinding, raised>>
    /\ \A t \in tasks' : t \in tasks /\ rec'[t] = rec[t]
    /\ \A t \in tasks \ tasks' : Finished(t)
    /\ \A s \in scopes' : s \in scopes /\ sc'[s] = sc[s]
    /\ \A s \in scopes \ scopes' : sc[s].unfinished = 0
Resets ==
    /\ tasks' = {ROOT} /\ rec'[ROOT].state = "Running" /\ rec'[ROOT].cancel = "None"
    /\ scopes' = {} /\ runQueue' = <<>> /\ nextTask' = 1 /\ raised' = {}
    /\ at' \in {"user", "halted"} /\ fin' = NoFin /\ panicMsg' \in {panicMsg, NoMsg}
    /\ unwinding' = {} \/ (unwinding' = unwinding /\ OpenTasks = {})
LEMMA BlankRoot ==
  ASSUME rec' = [t \in TaskId |-> BlankRec(t)]
  PROVE  rec'[ROOT].state = "Running" /\ rec'[ROOT].cancel = "None"
<1>1. rec'[ROOT] = RootRec
  BY RootIsTask DEF BlankRec
<1> QED BY <1>1 DEF RootRec, FreshRec
LEMMA RemoveMoves ==
  ASSUME Typed, Control, Tree, CountersExact, NEW s \in ScopeId, at = "user", Settled,
         s \in scopes => sc[s].unfinished = 0, RemoveScope(s),
         UNCHANGED <<current, panicMsg, unwinding, at, subj, cancels, fin>>
  PROVE  Forgets \/ Resets
<1>1. CASE live = 0 /\ scopes \subseteq {s} /\ current = ROOT
  <2>1. OpenTasks = {}
    BY <1>1, OpenSets, FS_EmptySet
  <2>2. /\ tasks' = {ROOT} /\ rec' = [t \in TaskId |-> BlankRec(t)] /\ scopes' = {}
        /\ runQueue' = <<>> /\ nextTask' = 1 /\ raised' = {}
    BY <1>1 DEF RemoveScope
  <2>3. rec'[ROOT].state = "Running" /\ rec'[ROOT].cancel = "None"
    BY <2>2, BlankRoot
  <2> QED BY <2>1, <2>2, <2>3 DEF Resets, Settled
<1>2. CASE ~(live = 0 /\ scopes \subseteq {s} /\ current = ROOT)
  <2>1. /\ scopes' = scopes \ {s} /\ tasks' = tasks \ Children(s)
        /\ rec' = Forget({s}, rec) /\ sc' = ForgetScopes({s}, sc)
        /\ UNCHANGED <<runQueue, nextTask, raised>>
    BY <1>2 DEF RemoveScope
  <2>2. \A t \in tasks' : t \in tasks /\ rec'[t] = rec[t]
    BY <2>1 DEF Forget, Typed
  <2>3. \A r \in scopes' : r \in scopes /\ sc'[r] = sc[r]
    BY <2>1 DEF ForgetScopes, Typed
  <2>4. \A t \in Children(s) : Finished(t)
    <3>1. CASE s \in scopes
      BY <3>1, OpenSets DEF Open
    <3>2. CASE s \notin scopes
      BY <3>2 DEF Tree, Structured, Children
    <3> QED BY <3>1, <3>2
  <2> QED BY <2>1, <2>2, <2>3, <2>4 DEF Forgets
<1> QED BY <1>1, <1>2

LEMMA ForgetMoves ==
  ASSUME IInv, \/ \E s \in ScopeId : ScopeCloseDone(s)
               \/ ScopeError \/ RootPanicEnds \/ MainReturns
  PROVE  Forgets \/ Resets
<1>1. ASSUME NEW s \in ScopeId, ScopeCloseDone(s) PROVE Forgets \/ Resets
  BY <1>1, RemoveMoves DEF ScopeCloseDone, User, IInv
<1>2. CASE ScopeError
  <2>1. ret.id \in ScopeId /\ (ret.id \in scopes => sc[ret.id].unfinished = 0)
    BY <1>2 DEF ScopeError, IInv, Control, WakeOK, DoneScope
  <2> QED BY <1>2, <2>1, RemoveMoves DEF ScopeError, IInv
<1>3. CASE RootPanicEnds \/ MainReturns
  <2>1. /\ tasks' = {ROOT} /\ rec' = [t \in TaskId |-> BlankRec(t)] /\ scopes' = {}
        /\ runQueue' = <<>> /\ nextTask' = 1 /\ raised' = {} /\ panicMsg' = NoMsg
        /\ unwinding' = {} /\ at' = "halted" /\ fin' = fin /\ fin = NoFin
    BY <1>3 DEF RootPanicEnds, MainReturns, Halted, User, Settled
  <2> QED BY <2>1, BlankRoot DEF Resets
<1> QED BY <1>1, <1>2, <1>3

\* The task that finalize is at finishes; the scopes it opened are forgotten.
Finishes(f) ==
    /\ fin.step = "state" /\ f = fin.id /\ fin' = [fin EXCEPT !.step = "wake"]
    /\ fin'.id = f /\ fin'.step = "wake"
    /\ f \in tasks \ {ROOT} /\ f \in tasks' /\ ~Finished(f)
    /\ rec[f].state = "Ending" \/ ~rec[f].started
    /\ \A t \in tasks' \ {f} : t \in tasks /\ rec'[t] = rec[t]
    /\ \A t \in tasks \ tasks' : Finished(t)
    /\ rec'[f].state = fin.state /\ fin.state \in FinishedStates
    /\ rec'[f].scope = rec[f].scope /\ rec'[f].joiners = rec[f].joiners
    /\ rec'[f].panic = rec[f].panic /\ rec'[f].started = rec[f].started
    /\ rec'[f].cancel = rec[f].cancel
    /\ \A s \in scopes' : /\ s \in scopes /\ sc'[s].owner = sc[s].owner
                          /\ sc'[s].closed = sc[s].closed /\ sc'[s].failed = sc[s].failed
                          /\ s = rec[f].scope \/ sc'[s] = sc[s]
    /\ \A s \in scopes \ scopes' : sc[s].owner = f
    /\ UNCHANGED <<runQueue, current, nextTask, at, subj, cancels, panicMsg, unwinding, raised>>
LEMMA FinalizeMoves ==
  ASSUME Typed, Control, Tree, CountersExact, FinalizeState
  PROVE  Finishes(fin.id)
<1> DEFINE f == fin.id
           S == ScopesOwnedBy(f)
           p == rec[f].scope
           q == FinishedRec(rec[f], fin.state)
<1>1. /\ f \in tasks \ {ROOT} /\ f \in TaskId /\ fin.state \in FinishedStates
      /\ rec[f].state = "Ending" \/ ~rec[f].started
      /\ ~Finished(f) /\ OwnedChildrenFinished(f) /\ rec[f] \in TaskRec
  BY DEF FinalizeState, Control, FinOK, NoFin, Finished, FinishedStates, Typed
<1>2. S \subseteq scopes /\ \A s \in S : sc[s].unfinished = 0 /\ sc[s].owner = f
  BY <1>1 DEF ScopesOwnedBy, OwnedChildrenFinished
<1>3. \A s \in S : \A t \in Children(s) : Finished(t)
  BY <1>2, OpenSets DEF Open
<1>4. p \in scopes \ S
  <2>1. p \in scopes /\ sc[p].owner < f /\ f \in Int
    BY <1>1, ConstantsAssumption DEF Tree, Structured, TaskId
  <2> QED BY <1>2, <2>1
<1>5. /\ scopes' = scopes \ S /\ tasks' = tasks \ Forgotten(S) /\ fin.step = "state"
      /\ fin' = [fin EXCEPT !.step = "wake"]
      /\ rec' = Forget(S, [rec EXCEPT ![f] = q])
      /\ sc' = ForgetScopes(S, [sc EXCEPT ![p] = Counted(@, @.unfinished - 1)])
      /\ UNCHANGED <<runQueue, current, nextTask, at, subj, cancels, panicMsg, unwinding, raised>>
  BY <1>1, <1>4 DEF FinalizeState, OwnedForgotten, CountsOut
<1>6. fin'.id = f /\ fin'.step = "wake"
  BY <1>5 DEF Typed, FinRec
<1>7. /\ q.state = fin.state /\ q.scope = p /\ q.started = rec[f].started
      /\ q.joiners = rec[f].joiners /\ q.panic = rec[f].panic /\ q.cancel = rec[f].cancel
  BY <1>1, Moves
<1>8. \A t \in Forgotten(S) : Finished(t)
  BY <1>3 DEF Forgotten
<1>9. (\A t \in tasks \ tasks' : Finished(t)) /\ f \in tasks'
  BY <1>1, <1>5, <1>8
<1> HIDE DEF q
<1>10. \A t \in tasks' : t \in tasks /\ rec'[t] = IF t = f THEN q ELSE rec[t]
  BY <1>1, <1>5 DEF Forget, Forgotten, Typed
<1>11. /\ \A s \in scopes' \ {p} : s \in scopes /\ sc'[s] = sc[s]
       /\ sc'[p] = Counted(sc[p], sc[p].unfinished - 1)
  BY <1>4, <1>5 DEF ForgetScopes, Typed
<1>12. sc'[p].owner = sc[p].owner /\ sc'[p].closed = sc[p].closed /\ sc'[p].failed = sc[p].failed
  <2>1. sc[p] \in ScopeRecZ
    BY <1>4 DEF Typed
  <2> QED BY <1>11, <2>1 DEF Counted, ScopeRecZ
<1>13. \A s \in scopes \ scopes' : sc[s].owner = f
  BY <1>2, <1>5
<1> HIDE DEF f, S, p
<1>14. \A s \in scopes' : /\ s \in scopes /\ sc'[s].owner = sc[s].owner
                          /\ sc'[s].closed = sc[s].closed /\ sc'[s].failed = sc[s].failed
                          /\ s = p \/ sc'[s] = sc[s]
  BY <1>4, <1>5, <1>11, <1>12
<1>15. rec'[f] = q /\ \A t \in tasks' \ {f} : t \in tasks /\ rec'[t] = rec[t]
  BY <1>9, <1>10
<1>16. f = fin.id /\ p = rec[f].scope
  BY DEF f, p
<1>17. Finishes(f)
  BY <1>1, <1>5, <1>6, <1>7, <1>9, <1>13, <1>14, <1>15, <1>16, Zenon DEF Finishes
<1> QED BY <1>16, <1>17

\* task_end looks whether the task may finish at once.
Looks ==
    /\ at = "end" /\ at' = "pick" /\ subj \in TaskId \ {ROOT} /\ Settled
    /\ fin' = IF EndsNow(subj) THEN Finalize(subj, rec[subj].ending) ELSE NoFin
    /\ UNCHANGED <<tasks, rec, scopes, sc, runQueue, current, nextTask, panicMsg, unwinding,
                   cancels, raised>>
\* task_run_next takes the head of the queue.
Picks(t) ==
    /\ at = "pick" /\ Settled /\ runQueue # <<>> /\ t = Head(runQueue)
    /\ runQueue' = Tail(runQueue)
    /\ UNCHANGED <<tasks, scopes, sc, nextTask, panicMsg, unwinding, fin, raised>>
    /\ \/ /\ t = ROOT /\ rec[ROOT].state = "Ready" /\ Only(ROOT)
          /\ Rest(rec[ROOT], rec'[ROOT]) /\ rec'[ROOT].state = "Running" /\ at' = "user"
       \/ /\ t \in tasks \ {ROOT} /\ rec[t].state = "Ready"
          /\ rec' = rec /\ at' = "run" /\ subj' = t
       \/ ~(t \in tasks /\ rec[t].state = "Ready") /\ UNCHANGED <<rec, at>>
\* The task at hand blocks until its children stop, or runs.
Blocks ==
    /\ at = "run" /\ at' = "pick" /\ Settled /\ subj \in tasks \ {ROOT}
    /\ Only(subj) /\ Rest(rec[subj], rec'[subj]) /\ rec'[subj].state = "Blocked"
    /\ rec'[subj].block = WaitFor("cancel", 0) /\ ~OwnedChildrenFinished(subj)
    /\ UNCHANGED <<tasks, scopes, sc, runQueue, current, nextTask, panicMsg, unwinding,
                   cancels, fin, raised>>
Delivers ==
    /\ Deliverable(rec[subj]) /\ OwnedChildrenFinished(subj)
    /\ rec'[subj].cancel = "Unwinding" /\ panicMsg' = NoMsg /\ unwinding' = unwinding \cup {subj}
Switches ==
    /\ at = "run" /\ at' = "user" /\ Settled /\ subj \in tasks \ {ROOT} /\ current' = subj
    /\ Only(subj) /\ rec'[subj].state = "Running" /\ rec'[subj].started
    /\ rec'[subj].scope = rec[subj].scope /\ rec'[subj].joiners = rec[subj].joiners
    /\ rec'[subj].panic = rec[subj].panic
    /\ \A s \in scopes : SameScope(s)
    /\ UNCHANGED <<tasks, scopes, runQueue, nextTask, cancels, fin, raised>>
    /\ \/ rec'[subj].cancel = rec[subj].cancel /\ UNCHANGED <<panicMsg, unwinding>>
       \/ Delivers
\* An event or a notification wakes a task; the deadlock wakes the root.
Rouses(u) ==
    /\ Wakes(u) /\ fin' = fin
    /\ \/ at = "notify" /\ at' \in {"user", "notify"}
       \/ at \in {"wait", "pick"} /\ at' \in {"wait", "pick"} /\ fin = NoFin
\* Nothing but the VM thread's place changes.
Idles ==
    /\ UNCHANGED <<tasks, rec, scopes, sc, runQueue, current, nextTask, panicMsg, unwinding,
                   subj, cancels, fin, raised>>
    /\ at' = at \/ (at = "wait" /\ at' = "pick")

LEMMA PickMoves ==
  ASSUME Typed, Control, PickRoot \/ PickChild
  PROVE  Picks(Head(runQueue))
<1> DEFINE t == Head(runQueue)
<1>1. /\ at = "pick" /\ Settled /\ runQueue # <<>> /\ runQueue' = Tail(runQueue)
      /\ UNCHANGED <<tasks, scopes, sc, nextTask, panicMsg, unwinding, fin, raised>>
  BY DEF PickRoot, PickChild
<1>2. CASE PickRoot /\ rec[ROOT].state = "Ready"
  <2> DEFINE q == Resumed(rec[ROOT])
  <2>1. t = ROOT /\ at' = "user" /\ rec' = [rec EXCEPT ![ROOT] = q]
    BY <1>2 DEF PickRoot
  <2>2. Rest(rec[ROOT], q) /\ q.state = "Running"
    BY RootIsTask, Moves DEF Typed
  <2> HIDE DEF q
  <2>3. rec'[ROOT] = q /\ Only(ROOT)
    BY <2>1, RootIsTask DEF Typed, Only
  <2> QED BY <1>1, <1>2, <2>1, <2>2, <2>3 DEF Picks
<1>3. CASE PickRoot /\ rec[ROOT].state # "Ready"
  <2>1. t = ROOT /\ UNCHANGED <<rec, at>>
    BY <1>3 DEF PickRoot
  <2> QED BY <1>1, <1>3, <2>1 DEF Picks
<1>4. CASE PickChild /\ t \in tasks /\ rec[t].state = "Ready"
  <2>1. t # ROOT /\ rec' = rec /\ at' = "run" /\ subj' = t
    BY <1>4 DEF PickChild
  <2> HIDE DEF t
  <2>2. Picks(t)
    BY <1>1, <1>4, <2>1 DEF Picks, t
  <2> QED BY <2>2 DEF t
<1>5. CASE PickChild /\ ~(t \in tasks /\ rec[t].state = "Ready")
  <2>1. rec' = rec /\ at' = at
    BY <1>5 DEF PickChild
  <2> QED BY <1>1, <1>5, <2>1 DEF Picks
<1> QED BY <1>2, <1>3, <1>4, <1>5

LEMMA RunMoves ==
  ASSUME Typed, Control, RunBlocked \/ RunSwitch
  PROVE  Blocks \/ Switches
<1>1. subj \in tasks \ {ROOT} /\ subj \in TaskId /\ rec[subj] \in TaskRec /\ at = "run" /\ Settled
  BY DEF RunBlocked, RunSwitch, Control, AtOK, Typed
<1>2. CASE RunBlocked
  <2> DEFINE q == BlockedOnChildren(rec[subj])
  <2>1. rec' = [rec EXCEPT ![subj] = q]
    BY <1>2 DEF RunBlocked
  <2>2. Rest(rec[subj], q) /\ q.state = "Blocked" /\ q.block = WaitFor("cancel", 0)
    BY <1>1, Moves
  <2> HIDE DEF q
  <2>3. rec'[subj] = q /\ Only(subj)
    BY <1>1, <2>1 DEF Typed, Only
  <2>4. /\ ~OwnedChildrenFinished(subj) /\ at' = "pick"
        /\ UNCHANGED <<tasks, scopes, sc, runQueue, current, nextTask, panicMsg, unwinding,
                       cancels, fin, raised>>
    BY <1>2 DEF RunBlocked, WaitsForChildren
  <2> QED BY <1>1, <2>2, <2>3, <2>4 DEF Blocks
<1>3. CASE RunSwitch
  <2>1. /\ ~WaitsForChildren(subj) /\ current' = subj /\ at' = "user"
        /\ UNCHANGED <<tasks, scopes, runQueue, nextTask, cancels, fin, raised>>
    BY <1>3 DEF RunSwitch
  <2>2. \A c : LET q == SwitchedIn(rec[subj], c) IN
          q.state = "Running" /\ q.started /\ q.cancel = c /\ q.scope = rec[subj].scope
          /\ q.joiners = rec[subj].joiners /\ q.panic = rec[subj].panic
    BY <1>1, Moves
  <2>3. CASE Deliverable(rec[subj])
    <3> DEFINE q == SwitchedIn(rec[subj], "Unwinding")
    <3>1. /\ rec' = [rec EXCEPT ![subj] = q] /\ panicMsg' = NoMsg
          /\ unwinding' = unwinding \cup {subj} /\ sc' = Unframed(sc, subj)
      BY <1>3, <2>3 DEF RunSwitch
    <3>2. /\ q.state = "Running" /\ q.started /\ q.cancel = "Unwinding" /\ q.scope = rec[subj].scope
          /\ q.joiners = rec[subj].joiners /\ q.panic = rec[subj].panic
      BY <2>2
    <3> HIDE DEF q
    <3>3. rec'[subj] = q /\ Only(subj)
      BY <1>1, <3>1 DEF Typed, Only
    <3>4. \A s \in scopes : SameScope(s)
      BY <3>1 DEF Unframed, Typed, ScopeRecZ, SameScope
    <3>5. OwnedChildrenFinished(subj)
      BY <2>1, <2>3 DEF WaitsForChildren
    <3> QED BY <1>1, <2>1, <2>3, <3>1, <3>2, <3>3, <3>4, <3>5 DEF Switches, Delivers
  <2>4. CASE ~Deliverable(rec[subj])
    <3> DEFINE q == SwitchedIn(rec[subj], rec[subj].cancel)
    <3>1. /\ rec' = [rec EXCEPT ![subj] = q] /\ UNCHANGED <<panicMsg, unwinding, sc>>
      BY <1>3, <2>4 DEF RunSwitch
    <3>2. /\ q.state = "Running" /\ q.started /\ q.cancel = rec[subj].cancel
          /\ q.scope = rec[subj].scope /\ q.joiners = rec[subj].joiners /\ q.panic = rec[subj].panic
      BY <2>2
    <3> HIDE DEF q
    <3>3. rec'[subj] = q /\ Only(subj)
      BY <1>1, <3>1 DEF Typed, Only
    <3>4. \A s \in scopes : SameScope(s)
      BY <3>1 DEF SameScope
    <3> QED BY <1>1, <2>1, <3>1, <3>2, <3>3, <3>4 DEF Switches
  <2> QED BY <2>3, <2>4
<1> QED BY <1>2, <1>3

-----------------------------------------------------------------------------
(* The run queue holds the ready tasks, but for the one that was just taken *)
(* off it, to run or to be dropped.                                         *)
Held(t) == \/ at = "run" /\ t = subj
           \/ fin.step = "state" /\ t = fin.id /\ rec[t].state = "Ready"
Queued ==
    /\ NoDup(runQueue)
    /\ \A t \in Elems(runQueue) : t \in tasks /\ rec[t].state = "Ready" /\ ~Held(t)
    /\ \A t \in tasks : rec[t].state = "Ready" => t \in Elems(runQueue) \/ Held(t)
\* A task that never started waits in the queue, or is ending.
Unstarted ==
    \A t \in tasks \ {ROOT} :
      ~rec[t].started => rec[t].state \in {"Ready", "Ending"} \cup FinishedStates

\* Every step is of one of the kinds above.
Kind ==
    \/ Stands \/ Pauses \/ Forgets \/ Resets \/ Looks \/ Blocks \/ Switches \/ Notifies \/ Idles
    \/ Finishes(fin.id) \/ Picks(Head(runQueue))
    \/ \E t \in tasks : Ends(t)
    \/ \E s \in scopes : Births(s)
    \/ \E u \in tasks : Rouses(u)
    \/ \E j \in TaskId : Unlists(j)
    \/ \E c \in TaskId : Requests(c)

LEMMA EmptyQueue == Elems(<<>>) = {} /\ NoDup(<<>>)
  BY DEF Elems, NoDup

LEMMA StepKinds ==
  ASSUME IInv, Queued, [Next]_vars
  PROVE  Kind
<1> USE DEF IInv, Kind
<1>1. CASE ScopeOpen \/ CondWaitAlone \/ ShieldEnter \/ Panic
           \/ (\E s \in ScopeId : ScopeCloseFailed(s)) \/ (\E h \in TaskId : Cancel(h))
           \/ (\E c \in Conds : CondNotify(c))
  BY <1>1, StandsUser
<1>2. CASE Sleep \/ Retry \/ Yield \/ (\E s \in ScopeId : ScopeCloseWait(s))
           \/ (\E h \in TaskId : Join(h)) \/ (\E c \in Conds : CondWait(c))
  BY <1>2, PausesUser
<1>3. CASE ShieldExit
  BY <1>3, ShieldLeft
<1>4. CASE Return \/ UnwindDone \/ RunOverflow
  BY <1>4, EndsStep
<1>5. CASE (\E s \in ScopeId : ScopeCloseDone(s)) \/ ScopeError \/ RootPanicEnds \/ MainReturns
  BY <1>5, ForgetMoves
<1>6. ASSUME NEW s \in ScopeId, Spawn(s) PROVE Kind
  <2>1. Births(s)
    BY <1>6, SpawnMoves
  <2>2. s \in scopes
    BY <2>1 DEF Births
  <2> QED BY <2>1, <2>2
<1>7. CASE FinalizeState
  BY <1>7, FinalizeMoves
<1>8. CASE NotifyOwner
  BY <1>8, NotifyMoves
<1>9. CASE EndCheck
  <2>1. Looks
    BY <1>9 DEF EndCheck, Looks, schedVars, Control, AtOK
  <2> QED BY <2>1
<1>10. CASE PickRoot \/ PickChild
  BY <1>10, PickMoves
<1>11. CASE RunBlocked \/ RunSwitch
  BY <1>11, RunMoves
<1>12. ASSUME NEW j \in TaskId, WakeJoiner(j) PROVE Kind
  <2>1. Unlists(j)
    BY <1>12, JoinerMoves
  <2> QED BY <2>1
<1>13. ASSUME NEW c \in TaskId, RequestCancel(c) PROVE Kind
  <2>1. Requests(c)
    BY <1>13, CancelMoves
  <2> QED BY <2>1
<1>14. ASSUME NEW t \in TaskId, WakeCond(t) \/ WaitEvent(t) PROVE Kind
  <2>1. Rouses(t)
    BY <1>14, EventWakes DEF Rouses
  <2>2. t \in tasks
    BY <2>1 DEF Rouses, Wakes
  <2> QED BY <2>1, <2>2
<1>15. CASE Deadlock
  <2>1. runQueue = <<>> /\ at = "pick" /\ fin = NoFin /\ ROOT \in tasks
    BY <1>15 DEF Deadlock, Settled, Control, RecOK
  <2>2. ~Held(ROOT)
    BY <2>1 DEF Held, NoFin
  <2>3. rec[ROOT].state # "Ready"
    BY <2>1, <2>2, EmptyQueue DEF Queued
  <2>4. Rouses(ROOT)
    BY <1>15, <2>3, EventWakes DEF Rouses
  <2> QED BY <2>1, <2>4
<1>16. CASE WaitDone \/ Terminated \/ UNCHANGED vars
  <2>1. Idles
    BY <1>16 DEF WaitDone, Terminated, vars, schedVars, Idles
  <2> QED BY <2>1
<1> QED BY <1>1, <1>2, <1>3, <1>4, <1>5, <1>6, <1>7, <1>8, <1>9, <1>10, <1>11, <1>12, <1>13,
           <1>14, <1>15, <1>16 DEF Next, VMStep, UserStep

\* What the queue must hold after a step.
LEMMA QueuedNext ==
  ASSUME NoDup(runQueue'),
         \A t \in Elems(runQueue') : t \in tasks' /\ rec'[t].state = "Ready" /\ ~Held(t)',
         \A t \in tasks' : rec'[t].state = "Ready" => t \in Elems(runQueue') \/ Held(t)'
  PROVE  Queued'
  BY DEF Queued, Elems, NoDup

\* Task ids in the queue, and where the VM thread is when nothing is held.
LEMMA QueueFacts ==
  ASSUME IInv, Queued
  PROVE  /\ runQueue \in Seq(TaskId) /\ NoDup(runQueue)
         /\ \A t \in TaskId : t \notin tasks \/ rec[t].state # "Ready" => t \notin Elems(runQueue)
         /\ at # "run" /\ fin.step # "state" => \A t : ~Held(t)
         /\ Settled => fin.step = "none" /\ NoFin.step = "none" /\ cancels = {}
  BY DEF IInv, Typed, Queued, Held, Settled, NoFin

LEMMA QueueUser ==
  ASSUME IInv, Queued, Unstarted, Stands \/ Pauses \/ Forgets \/ Resets \/ \E s \in scopes : Births(s)
  PROVE  Queued' /\ Unstarted'
<1> USE DEF IInv
<1>1. fin'.step # "state" /\ at' # "run" => \A t : ~Held(t)'
  BY DEF Held
<1>2. CASE Stands
  <2>1. /\ tasks' = tasks /\ runQueue' = runQueue
        /\ \A t \in tasks : rec'[t].state = rec[t].state /\ rec'[t].started = rec[t].started
        /\ \A t : ~Held(t) /\ ~Held(t)'
    BY <1>1, <1>2, QueueFacts DEF Stands, Alike, Rest
  <2>2. Queued'
    BY <2>1, QueuedNext DEF Queued
  <2> QED BY <2>1, <2>2 DEF Unstarted
<1>3. CASE Pauses
  <2>1. /\ current \in tasks /\ current \in TaskId /\ rec[current].state = "Running"
        /\ current # ROOT => rec[current].started
    BY <1>3, UserFacts DEF Pauses
  <2>2. /\ tasks' = tasks /\ (\A t : ~Held(t) /\ ~Held(t)')
        /\ \A t \in tasks \ {current} : rec'[t].state = rec[t].state /\ rec'[t].started = rec[t].started
        /\ rec'[current].started = rec[current].started
    BY <1>1, <1>3, QueueFacts DEF Pauses, Grown, Rest
  <2>3. current \notin Elems(runQueue)
    BY <2>1, QueueFacts
  <2>4. \/ /\ rec'[current].state = "Ready" /\ NoDup(runQueue')
           /\ Elems(runQueue') = Elems(runQueue) \cup {current}
        \/ rec'[current].state = "Blocked" /\ runQueue' = runQueue
    <3>1. \/ /\ rec'[current].state = "Ready"
             /\ runQueue' = Append(runQueue, current) \/ runQueue' = <<current>> \o runQueue
          \/ rec'[current].state = "Blocked" /\ runQueue' = runQueue
      BY <1>3 DEF Pauses
    <3>2. LET q == Append(runQueue, current) IN NoDup(q) /\ Elems(q) = Elems(runQueue) \cup {current}
      BY <2>1, <2>3, QueueFacts, AppendQueue
    <3>3. LET q == <<current>> \o runQueue IN NoDup(q) /\ Elems(q) = Elems(runQueue) \cup {current}
      BY <2>1, <2>3, QueueFacts, FrontQueue
    <3> QED BY <3>1, <3>2, <3>3
  <2>5. Queued'
    BY <2>1, <2>2, <2>3, <2>4, QueuedNext DEF Queued
  <2> QED BY <2>1, <2>2, <2>5 DEF Unstarted
<1>4. CASE Forgets
  <2>1. /\ runQueue' = runQueue /\ (\A t : ~Held(t) /\ ~Held(t)')
        /\ \A t \in tasks' : t \in tasks /\ rec'[t] = rec[t]
        /\ \A t \in tasks \ tasks' : rec[t].state # "Ready"
    BY <1>1, <1>4, QueueFacts DEF Forgets, Finished, FinishedStates
  <2>2. Queued'
    BY <2>1, QueuedNext DEF Queued
  <2> QED BY <2>1, <2>2 DEF Unstarted
<1>5. CASE Resets
  <2>1. /\ runQueue' = <<>> /\ (\A t : ~Held(t)') /\ tasks' = {ROOT} /\ rec'[ROOT].state = "Running"
    BY <1>1, <1>5 DEF Resets, NoFin
  <2>2. Queued'
    BY <2>1, EmptyQueue, QueuedNext
  <2> QED BY <2>1, <2>2 DEF Unstarted
<1>6. ASSUME NEW s \in scopes, Births(s) PROVE Queued' /\ Unstarted'
  <2> DEFINE n == nextTask
  <2>1. /\ tasks' = tasks \cup {n} /\ n \in TaskId /\ n \notin tasks /\ (\A t : ~Held(t) /\ ~Held(t)')
        /\ \A t \in tasks : rec'[t] = rec[t]
        /\ rec'[n].state = "Ready" /\ runQueue' = Append(runQueue, n)
    BY <1>1, <1>6, QueueFacts DEF Births
  <2> HIDE DEF n
  <2>2. n \notin Elems(runQueue)
    BY <2>1, QueueFacts
  <2>3. NoDup(runQueue') /\ Elems(runQueue') = Elems(runQueue) \cup {n}
    BY <2>1, <2>2, QueueFacts, AppendQueue
  <2>4. Queued'
    BY <2>1, <2>3, QueuedNext DEF Queued
  <2> QED BY <2>1, <2>4 DEF Unstarted
<1> QED BY <1>2, <1>3, <1>4, <1>5, <1>6

LEMMA QueueRun ==
  ASSUME IInv, Queued, Unstarted,
         Looks \/ Blocks \/ Switches \/ Picks(Head(runQueue)) \/ \E t \in tasks : Ends(t)
  PROVE  Queued' /\ Unstarted'
<1> USE DEF IInv
<1>1. fin'.step # "state" /\ at' # "run" => \A t : ~Held(t)'
  BY DEF Held
<1>2. CASE Looks
  <2>1. UNCHANGED <<tasks, rec, runQueue>> /\ (\A t : ~Held(t))
    BY <1>2, QueueFacts DEF Looks
  <2>2. \A t : ~Held(t)'
    <3>1. CASE EndsNow(subj)
      <4>1. at' = "pick" /\ fin' = Finalize(subj, rec[subj].ending) /\ rec[subj].state = "Ending"
        BY <1>2, <3>1 DEF Looks, EndsNow
      <4>2. fin'.id = subj
        BY <4>1 DEF Finalize
      <4> QED BY <2>1, <4>1, <4>2 DEF Held
    <3>2. CASE ~EndsNow(subj)
      BY <1>1, <1>2, <3>2 DEF Looks, NoFin
    <3> QED BY <3>1, <3>2
  <2>3. Queued'
    BY <2>1, <2>2, QueuedNext DEF Queued
  <2> QED BY <2>1, <2>3 DEF Unstarted
\* The task at hand stops being ready.
<1>3. ASSUME NEW u \in tasks, Settled, fin' = fin, at' # "run", tasks' = tasks, runQueue' = runQueue,
             \A t \in tasks \ {u} : rec'[t] = rec[t], rec'[u].state # "Ready",
             (u = subj /\ at = "run") \/ (at # "run" /\ rec[u].state # "Ready")
      PROVE  Queued'
  <2>1. \A t : ~Held(t)'
    BY <1>1, <1>3, QueueFacts
  <2>2. \A t : Held(t) => t = u
    BY <1>3, QueueFacts DEF Held
  <2>3. u \notin Elems(runQueue)
    BY <1>3, QueueFacts DEF Queued, Held, Typed
  <2> QED BY <1>3, <2>1, <2>2, <2>3, QueuedNext DEF Queued
<1>4. CASE Blocks
  <2>1. /\ subj \in tasks \ {ROOT} /\ rec'[subj].state = "Blocked" /\ tasks' = tasks
        /\ \A t \in tasks \ {subj} : rec'[t] = rec[t]
        /\ rec'[subj].started = rec[subj].started
        /\ at = "run" /\ at' = "pick" /\ Settled /\ fin' = fin /\ runQueue' = runQueue
    BY <1>4 DEF Blocks, Only, Rest
  <2>2. Queued'
    <3>1. PICK u \in tasks : u = subj
      BY <2>1
    <3> QED BY <1>3, <2>1, <3>1
  <2>3. ScopesOwnedBy(subj) # {}
    BY <1>4 DEF Blocks, OwnedChildrenFinished
  <2>4. rec[subj].started
    BY <2>1, <2>3 DEF Control, RecOK
  <2> QED BY <2>1, <2>2, <2>4 DEF Unstarted
<1>5. CASE Switches
  <2>1. /\ subj \in tasks \ {ROOT} /\ rec'[subj].state = "Running" /\ tasks' = tasks
        /\ \A t \in tasks \ {subj} : rec'[t] = rec[t]
        /\ rec'[subj].started
        /\ at = "run" /\ at' = "user" /\ Settled /\ fin' = fin /\ runQueue' = runQueue
    BY <1>5 DEF Switches, Only
  <2>2. Queued'
    <3>1. PICK u \in tasks : u = subj
      BY <2>1
    <3> QED BY <1>3, <2>1, <3>1
  <2> QED BY <2>1, <2>2 DEF Unstarted
<1>6. ASSUME NEW t \in tasks, Ends(t) PROVE Queued' /\ Unstarted'
  <2>1. /\ rec'[t].state = "Ending" /\ tasks' = tasks
        /\ \A u \in tasks \ {t} : rec'[u] = rec[u]
        /\ at' = "end" /\ Settled /\ fin' = fin /\ runQueue' = runQueue
        /\ (at = "user" /\ t = current) \/ (at = "run" /\ t = subj)
    BY <1>6 DEF Ends
  <2>2. at = "user" => rec[current].state = "Running"
    BY UserFacts
  <2>3. (t = subj /\ at = "run") \/ (at # "run" /\ rec[t].state # "Ready")
    BY <2>1, <2>2
  <2>4. Queued'
    BY <1>3, <2>1, <2>3
  <2> QED BY <2>1, <2>4 DEF Unstarted
<1>7. CASE Picks(Head(runQueue))
  <2>1. PICK h : h = Head(runQueue)
    OBVIOUS
  <2>2. /\ at = "pick" /\ Settled /\ fin' = fin /\ tasks' = tasks /\ runQueue # <<>>
        /\ runQueue' = Tail(runQueue)
        /\ \/ /\ h = ROOT /\ Only(ROOT) /\ rec'[ROOT].state = "Running" /\ at' = "user"
           \/ /\ h \in tasks \ {ROOT} /\ rec' = rec /\ at' = "run" /\ subj' = h
           \/ ~(h \in tasks /\ rec[h].state = "Ready")
    BY <1>7, <2>1 DEF Picks
  <2>3. /\ h \in Elems(runQueue) /\ NoDup(runQueue') /\ Elems(runQueue') = Elems(runQueue) \ {h}
    BY <2>1, <2>2, QueueFacts, TailQueue
  <2>4. h \in tasks /\ rec[h].state = "Ready"
    BY <2>3 DEF Queued
  <2>5. \A t : ~Held(t)
    BY <2>2, QueueFacts
  <2>6. CASE h = ROOT /\ Only(ROOT) /\ rec'[ROOT].state = "Running" /\ at' = "user"
    <3>1. \A t : ~Held(t)'
      BY <1>1, <2>2, <2>6, QueueFacts
    <3>2. Queued'
      BY <2>2, <2>3, <2>5, <2>6, <3>1, QueuedNext DEF Queued, Only
    <3> QED BY <2>2, <2>6, <3>2 DEF Unstarted, Only
  <2>7. CASE h \in tasks \ {ROOT} /\ rec' = rec /\ at' = "run" /\ subj' = h
    <3>1. \A t : Held(t)' <=> t = h
      BY <2>2, <2>7, QueueFacts DEF Held
    <3>2. Queued'
      BY <2>2, <2>3, <2>5, <2>7, <3>1, QueuedNext DEF Queued
    <3> QED BY <2>2, <2>7, <3>2 DEF Unstarted
  <2> QED BY <2>2, <2>4, <2>6, <2>7
<1> QED BY <1>2, <1>4, <1>5, <1>6, <1>7

LEMMA QueueLoop ==
  ASSUME IInv, Queued, Unstarted,
         \/ Notifies \/ Idles \/ Finishes(fin.id)
         \/ \E u \in tasks : Rouses(u)
         \/ \E j \in TaskId : Unlists(j)
         \/ \E c \in TaskId : Requests(c)
  PROVE  Queued' /\ Unstarted'
<1> USE DEF IInv
\* The task that finalize is about to finish is ready or ending.
<1>1. fin.step = "state" => fin.id \in tasks \ {ROOT} /\ rec[fin.id].state \in {"Ready", "Ending"}
  BY DEF Control, FinOK, NoFin, Unstarted
\* A task that is woken is queued.
<1>2. ASSUME NEW u \in tasks, rec[u].state # "Ready", tasks' = tasks, runQueue' = Append(runQueue, u),
             \A t \in tasks \ {u} : rec'[t].state = rec[t].state /\ rec'[t].started = rec[t].started,
             rec'[u].state = "Ready", \A t \in tasks : Held(t)' <=> Held(t)
      PROVE  Queued' /\ Unstarted'
  <2>1. u \in TaskId /\ u \notin Elems(runQueue)
    BY <1>2, QueueFacts DEF Typed
  <2>2. NoDup(runQueue') /\ Elems(runQueue') = Elems(runQueue) \cup {u}
    BY <1>2, <2>1, QueueFacts, AppendQueue
  <2>3. ~Held(u)
    BY <1>2 DEF Held, Control, AtOK
  <2>4. Queued'
    BY <1>2, <2>2, <2>3, QueuedNext DEF Queued
  <2> QED BY <1>2, <2>4 DEF Unstarted
<1>3. ASSUME runQueue' = runQueue, tasks' = tasks,
             \A t \in tasks : rec'[t].state = rec[t].state /\ rec'[t].started = rec[t].started,
             \A t \in tasks : Held(t)' <=> Held(t)
      PROVE  Queued' /\ Unstarted'
  <2>1. Queued'
    BY <1>3, QueuedNext DEF Queued
  <2> QED BY <1>3, <2>1 DEF Unstarted
<1>4. CASE Idles
  BY <1>3, <1>4 DEF Idles, Held
<1>5. ASSUME NEW u \in tasks, Rouses(u) PROVE Queued' /\ Unstarted'
  <2>1. /\ rec[u].state \notin {"Ready", "Ending"} /\ tasks' = tasks
        /\ runQueue' = Append(runQueue, u) /\ (\A t \in tasks \ {u} : rec'[t] = rec[t])
        /\ rec'[u].state = "Ready" /\ fin' = fin /\ at # "run" /\ at' # "run"
    BY <1>5 DEF Rouses, Wakes, Only
  <2>2. \A t \in tasks : Held(t)' <=> Held(t)
    BY <1>1, <2>1 DEF Held
  <2> QED BY <1>2, <2>1, <2>2
<1>6. CASE Notifies
  <2>1. fin.step = "wake" /\ at' = at /\ subj' = subj
    BY <1>6 DEF Notifies
  <2>2. CASE Wakes(Owner) /\ fin' = NoFin
    <3>1. PICK u : u = Owner
      OBVIOUS
    <3>2. /\ u \in tasks /\ rec[u].state \notin {"Ready", "Ending"} /\ tasks' = tasks
          /\ runQueue' = Append(runQueue, u) /\ (\A t \in tasks \ {u} : rec'[t] = rec[t])
          /\ rec'[u].state = "Ready"
      BY <2>2, <3>1 DEF Wakes, Only
    <3>3. \A t \in tasks : Held(t)' <=> Held(t)
      BY <2>1, <2>2 DEF Held, NoFin
    <3> QED BY <1>2, <3>2, <3>3
  <2>3. CASE UNCHANGED <<tasks, rec, runQueue>> /\
             (fin' = NoFin \/ (fin' = Finalize(Owner, rec[Owner].ending) /\ rec[Owner].state = "Ending"))
    <3>1. fin'.step = "state" => rec[fin'.id].state = "Ending"
      BY <2>3 DEF Finalize, NoFin
    <3>2. \A t \in tasks : Held(t)' <=> Held(t)
      BY <2>1, <2>3, <3>1 DEF Held
    <3> QED BY <1>3, <2>3, <3>2
  <2> QED BY <1>6, <2>2, <2>3 DEF Notifies
<1>7. ASSUME NEW j \in TaskId, Unlists(j) PROVE Queued' /\ Unstarted'
  <2>1. PICK f : f = fin.id
    OBVIOUS
  <2>2. /\ fin.step = "wake" /\ UNCHANGED <<tasks, fin, at, subj>>
        /\ \A t \in tasks \ {f, j} : rec'[t] = rec[t]
        /\ rec'[f].state = rec[f].state /\ rec'[f].started = rec[f].started
        /\ \/ /\ j \in tasks \ {f} /\ rec[j].state = "Blocked" /\ rec'[j].state = "Ready"
              /\ runQueue' = Append(runQueue, j)
           \/ (j \in tasks \ {f} => rec'[j] = rec[j]) /\ runQueue' = runQueue
    BY <1>7, <2>1 DEF Unlists
  <2>3. \A t \in tasks : Held(t)' <=> Held(t)
    BY <2>2 DEF Held
  <2>4. CASE j \in tasks \ {f} /\ rec[j].state = "Blocked" /\ rec'[j].state = "Ready"
             /\ runQueue' = Append(runQueue, j)
    <3>1. \A t \in tasks \ {j} : rec'[t].state = rec[t].state /\ rec'[t].started = rec[t].started
      BY <2>2
    <3> QED BY <1>2, <2>2, <2>3, <2>4, <3>1
  <2>5. CASE (j \in tasks \ {f} => rec'[j] = rec[j]) /\ runQueue' = runQueue
    <3>1. \A t \in tasks : rec'[t].state = rec[t].state /\ rec'[t].started = rec[t].started
      BY <2>2, <2>5
    <3> QED BY <1>3, <2>2, <2>3, <2>5, <3>1
  <2> QED BY <2>2, <2>4, <2>5
<1>8. ASSUME NEW c \in TaskId, Requests(c) PROVE Queued' /\ Unstarted'
  <2>1. /\ fin = NoFin /\ c \in cancels /\ UNCHANGED <<tasks, at, subj>>
        /\ Cancellable(c) => c \in tasks \ {ROOT} /\ ~Finished(c) /\ rec[c].state # "Ending"
        /\ fin.step = "none"
    BY <1>8 DEF Requests, Cancellable, NoFin
  <2>2. CASE ~Cancellable(c) /\ UNCHANGED <<rec, runQueue, fin>>
    <3>1. \A t \in tasks : Held(t)' <=> Held(t)
      BY <2>1, <2>2 DEF Held
    <3> QED BY <1>3, <2>1, <2>2, <3>1
  <2>3. CASE Cancellable(c) /\ ~rec[c].started /\ rec' = rec
             /\ runQueue' = Without(runQueue, c) /\ fin' = Finalize(c, "Dropped")
    <3>1. rec[c].state = "Ready"
      BY <2>1, <2>3 DEF Unstarted, Finished
    <3>2. NoDup(runQueue') /\ Elems(runQueue') = Elems(runQueue) \ {c}
      BY <2>3, QueueFacts, WithoutQueue
    <3>3. fin'.step = "state" /\ fin'.id = c
      BY <2>3 DEF Finalize
    <3>4. \A t : Held(t)' <=> Held(t) \/ t = c
      BY <2>1, <2>3, <3>1, <3>3 DEF Held
    <3>5. Queued'
      BY <2>1, <2>3, <3>2, <3>4, QueuedNext DEF Queued
    <3> QED BY <2>1, <2>3, <3>5 DEF Unstarted
  <2>4. CASE Cancellable(c) /\ fin' = fin /\ Marks(c)
    <3>1. /\ \A t \in tasks \ {c} : rec'[t] = rec[t]
          /\ rec'[c].started = rec[c].started
          /\ \/ rec'[c].state = rec[c].state /\ runQueue' = runQueue
             \/ /\ rec[c].state = "Blocked" /\ rec'[c].state = "Ready"
                /\ runQueue' = Append(runQueue, c)
      BY <2>4 DEF Marks, Only
    <3>2. \A t \in tasks : Held(t)' <=> Held(t)
      BY <2>1, <2>4 DEF Held
    <3>3. CASE rec'[c].state = rec[c].state /\ runQueue' = runQueue
      BY <1>3, <2>1, <3>1, <3>2, <3>3
    <3>4. CASE rec[c].state = "Blocked" /\ rec'[c].state = "Ready" /\ runQueue' = Append(runQueue, c)
      BY <1>2, <2>1, <2>4, <3>1, <3>2, <3>4
    <3> QED BY <3>1, <3>3, <3>4
  <2> QED BY <1>8, <2>2, <2>3, <2>4 DEF Requests
<1>9. CASE Finishes(fin.id)
  <2>1. PICK f : f = fin.id
    OBVIOUS
  <2>2. /\ fin.step = "state" /\ fin'.step = "wake" /\ runQueue' = runQueue /\ at' = at /\ subj' = subj
        /\ f \in tasks \ {ROOT} /\ f \in tasks' /\ rec'[f].state \in FinishedStates
        /\ \A t \in tasks' \ {f} : t \in tasks /\ rec'[t] = rec[t]
        /\ \A t \in tasks \ tasks' : rec[t].state # "Ready"
        /\ rec'[f].state # "Ready"
    BY <1>9, <2>1 DEF Finishes, Finished, FinishedStates
  <2>3. at = "run" => f # subj
    BY <2>1 DEF Control, AtOK
  <2>4. rec[f].state = "Ready" <=> Held(f)
    BY <2>1, <2>2, <2>3 DEF Held
  <2>5. \A t : t # f => (Held(t)' <=> Held(t))
    BY <2>1, <2>2 DEF Held
  <2>6. f \notin Elems(runQueue)
    BY <2>4 DEF Queued
  <2>7. Queued'
    BY <2>2, <2>5, <2>6, QueuedNext DEF Queued
  <2> QED BY <2>2, <2>7 DEF Unstarted
<1> QED BY <1>4, <1>5, <1>6, <1>7, <1>8, <1>9

\* The run queue stays exact.
RunInv == IInv /\ Queued /\ Unstarted
LEMMA RunInit == Init => RunInv
<1> SUFFICES ASSUME Init PROVE RunInv
  OBVIOUS
<1>1. runQueue = <<>> /\ tasks = {ROOT} /\ rec[ROOT].state = "Running"
  BY RootIsTask DEF Init, BlankRec, RootRec, FreshRec
<1>2. Queued
  BY <1>1, EmptyQueue DEF Queued
<1>3. Unstarted
  BY <1>1 DEF Unstarted
<1> QED BY <1>2, <1>3, InitIInv DEF RunInv
LEMMA RunStep ==
  ASSUME RunInv, [Next]_vars
  PROVE  RunInv' /\ Kind
<1> USE DEF RunInv
<1>1. IInv'
  BY StepIInv
<1>2. Kind
  BY StepKinds
<1>3. CASE Stands \/ Pauses \/ Forgets \/ Resets \/ \E s \in scopes : Births(s)
  BY <1>1, <1>2, <1>3, QueueUser
<1>4. CASE Looks \/ Blocks \/ Switches \/ Picks(Head(runQueue)) \/ \E t \in tasks : Ends(t)
  BY <1>1, <1>2, <1>4, QueueRun
<1>5. CASE \/ Notifies \/ Idles \/ Finishes(fin.id)
           \/ \E u \in tasks : Rouses(u)
           \/ \E j \in TaskId : Unlists(j)
           \/ \E c \in TaskId : Requests(c)
  BY <1>1, <1>2, <1>5, QueueLoop
<1> QED BY <1>2, <1>3, <1>4, <1>5 DEF Kind
LEMMA RunInvariance == Spec => []RunInv
<1>1. RunInv /\ [Next]_vars => RunInv'
  BY RunStep
<1> QED BY <1>1, RunInit, PTL DEF Spec

\* The run queue holds exactly the ready tasks, each once, whatever wakes,
\* suspends, cancels and drops tasks, for every number of them.
THEOREM RunQueueIsExact == Spec => []QueueExact
<1>1. RunInv => QueueExact
  <2> SUFFICES ASSUME RunInv PROVE QueueExact
    OBVIOUS
  <2>1. \A t : t \in Elems(runQueue) <=> \E i \in DOMAIN runQueue : runQueue[i] = t
    BY DEF Elems
  <2>2. \A t : Held(t) => t \in tasks /\ rec[t].state = "Ready"
    BY DEF RunInv, IInv, Control, AtOK, FinOK, NoFin, Held
  <2>3. \A t \in TaskId : (t \in tasks /\ rec[t].state = "Ready") <=> t \in Elems(runQueue) \/ Held(t)
    BY <2>2 DEF RunInv, Queued
  <2>4. NoDup(runQueue)
    BY DEF RunInv, Queued
  <2>5. \A t \in TaskId :
          (t \in tasks /\ rec[t].state = "Ready") <=>
             \/ \E i \in DOMAIN runQueue : runQueue[i] = t
             \/ at = "run" /\ subj = t
             \/ fin.step = "state" /\ fin.id = t /\ rec[t].state = "Ready"
    BY <2>1, <2>3 DEF Held
  <2> QED BY <2>4, <2>5 DEF QueueExact, NoDup
<1> QED BY <1>1, RunInvariance, PTL

-----------------------------------------------------------------------------
(* Wakeups.  NoLostWakeup is inductive given the run queue invariant. *)
Waits(t) ==
    /\ rec[t].state = "Blocked" /\ rec[t].block.on = "join" =>
         /\ rec[t].block.id \in tasks /\ t \in rec[rec[t].block.id].joiners
         /\ ~Finished(rec[t].block.id) \/ (fin.step = "wake" /\ fin.id = rec[t].block.id)
    /\ rec[t].state = "Blocked" /\ rec[t].block.on = "scope" =>
         /\ rec[t].block.id \in ScopesOwnedBy(t) /\ sc[rec[t].block.id].closed
         /\ sc[rec[t].block.id].unfinished > 0 \/ FinishingIn(rec[t].block.id)
    /\ rec[t].state = "Blocked" /\ rec[t].block.on = "cancel" => OwnedPending(t)
    /\ rec[t].state = "Ending" =>
         OwnedPending(t) \/ (at = "end" /\ subj = t) \/ (fin.step = "state" /\ fin.id = t)

LEMMA WaitsAll == NoLostWakeup <=> \A t \in tasks : Waits(t)
  BY DEF NoLostWakeup, Waits
LEMMA WaitsAllNext ==
  ASSUME \A t \in tasks' : Waits(t)'
  PROVE  NoLostWakeup'
  BY DEF NoLostWakeup, Waits

\* A task that does not wait for another one is fine, and so is one whose wait
\* the step leaves alone: unfinished tasks and counts that are not zero stay.
LEMMA NoWait ==
  ASSUME NEW t, rec'[t].state \notin {"Blocked", "Ending"}
  PROVE  Waits(t)'
  BY DEF Waits

LEMMA WaitKept ==
  ASSUME NEW t \in tasks, Waits(t), fin.step = "none",
         rec'[t].state = rec[t].state, rec'[t].block = rec[t].block,
         \A b \in tasks : ~Finished(b) =>
           b \in tasks' /\ rec'[b].state \notin FinishedStates /\ rec[b].joiners \subseteq rec'[b].joiners,
         \A s \in scopes : sc[s].unfinished > 0 =>
           /\ s \in scopes' /\ sc'[s].owner = sc[s].owner /\ (sc[s].closed => sc'[s].closed)
           /\ sc'[s].unfinished > 0,
         at = "end" /\ subj = t => at' = "end" /\ subj' = t
  PROVE  Waits(t)'
<1>1. PICK b : b = rec[t].block.id
  OBVIOUS
<1>2. rec'[t].block.id = b /\ rec'[t].block.on = rec[t].block.on
  BY <1>1
<1>3. \A s : ~FinishingIn(s)
  BY DEF FinishingIn
<1>4. OwnedPending(t) => OwnedPending(t)'
  BY <1>3 DEF OwnedPending, ScopesOwnedBy
<1>5. rec[t].state = "Blocked" /\ rec[t].block.on = "join" =>
        b \in tasks' /\ t \in rec'[b].joiners /\ ~(rec'[b].state \in FinishedStates)
  BY <1>1 DEF Waits
<1>6. rec[t].state = "Blocked" /\ rec[t].block.on = "scope" =>
        b \in scopes' /\ sc'[b].owner = t /\ sc'[b].closed /\ sc'[b].unfinished > 0
  BY <1>1, <1>3 DEF Waits, ScopesOwnedBy
<1>7. rec[t].state = "Ending" => OwnedPending(t)' \/ (at' = "end" /\ subj' = t)
  BY <1>4 DEF Waits
<1>8. rec[t].state = "Blocked" /\ rec[t].block.on = "cancel" => OwnedPending(t)'
  BY <1>4 DEF Waits
<1> QED BY <1>2, <1>5, <1>6, <1>7, <1>8 DEF Waits, Finished, ScopesOwnedBy

LEMMA WaitSame ==
  ASSUME NEW t \in tasks, Waits(t), rec'[t].state = rec[t].state, rec'[t].block = rec[t].block,
         UNCHANGED <<tasks, scopes, sc, fin>>, fin.step = "wake" => fin.id \in tasks,
         \A b \in tasks : /\ rec'[b].joiners = rec[b].joiners /\ rec'[b].scope = rec[b].scope
                          /\ rec'[b].state \in FinishedStates <=> rec[b].state \in FinishedStates,
         at = "end" /\ subj = t => at' = "end" /\ subj' = t
  PROVE  Waits(t)'
<1>1. PICK b : b = rec[t].block.id
  OBVIOUS
<1>2. rec'[t].block.id = b /\ rec'[t].block.on = rec[t].block.on
  BY <1>1
<1>3. \A s : FinishingIn(s)' <=> FinishingIn(s)
  BY DEF FinishingIn
<1>4. OwnedPending(t) => OwnedPending(t)'
  BY <1>3 DEF OwnedPending, ScopesOwnedBy
<1>5. rec[t].state = "Blocked" /\ rec[t].block.on = "join" =>
        /\ b \in tasks' /\ t \in rec'[b].joiners
        /\ ~(rec'[b].state \in FinishedStates) \/ (fin'.step = "wake" /\ fin'.id = b)
  BY <1>1 DEF Waits, Finished
<1>6. rec[t].state = "Blocked" /\ rec[t].block.on = "scope" =>
        /\ b \in scopes' /\ sc'[b].owner = t /\ sc'[b].closed
        /\ sc'[b].unfinished > 0 \/ FinishingIn(b)'
  BY <1>1, <1>3 DEF Waits, ScopesOwnedBy
<1>7. rec[t].state = "Ending" =>
        OwnedPending(t)' \/ (at' = "end" /\ subj' = t) \/ (fin'.step = "state" /\ fin'.id = t)
  BY <1>4 DEF Waits
<1>8. rec[t].state = "Blocked" /\ rec[t].block.on = "cancel" => OwnedPending(t)'
  BY <1>4 DEF Waits
<1> QED BY <1>2, <1>5, <1>6, <1>7, <1>8 DEF Waits, Finished, ScopesOwnedBy, FinishingIn

LEMMA WaitsUser ==
  ASSUME RunInv, NoLostWakeup,
         Stands \/ Pauses \/ Forgets \/ Resets \/ \E s \in scopes : Births(s)
  PROVE  NoLostWakeup'
<1> USE DEF RunInv, IInv
<1>1. \A t \in tasks : Waits(t)
  BY WaitsAll
<1>2. NoFin.step = "none" /\ \A s \in scopes : sc[s].unfinished \in Nat
  BY OpenSets DEF NoFin
<1> SUFFICES \A t \in tasks' : Waits(t)'
  BY WaitsAllNext
<1>3. CASE Stands
  <2>1. /\ at = "user" /\ fin.step = "none" /\ tasks' = tasks
        /\ \A t \in tasks : /\ rec'[t].state = rec[t].state /\ rec'[t].block = rec[t].block
                            /\ rec'[t].joiners = rec[t].joiners
        /\ \A s \in scopes : s \in scopes' /\ SameScope(s)
    BY <1>2, <1>3 DEF Stands, Settled, Alike, Rest
  <2> QED BY <1>1, <2>1, WaitKept DEF SameScope, Finished
<1>4. CASE Pauses
  <2>1. /\ current \in tasks /\ rec[current].state = "Running"
    BY <1>4, UserFacts DEF Pauses
  <2>2. /\ at = "user" /\ fin.step = "none" /\ UNCHANGED <<tasks, scopes, current>>
        /\ \A t \in tasks \ {current} : Grown(rec[t], rec'[t])
        /\ Rest(rec[current], rec'[current])
        /\ \A s \in scopes : SameScope(s)
        /\ \/ rec'[current].state = "Ready"
           \/ rec'[current].state = "Blocked" /\ Known(rec'[current].block)
    BY <1>2, <1>4 DEF Pauses, Settled
  <2>3. \A b \in tasks : ~Finished(b) =>
          rec'[b].state \notin FinishedStates /\ rec[b].joiners \subseteq rec'[b].joiners
    BY <2>2 DEF Finished, Grown, Rest, FinishedStates
  <2>4. ASSUME NEW t \in tasks \ {current} PROVE Waits(t)'
    <3>1. rec'[t].state = rec[t].state /\ rec'[t].block = rec[t].block
      BY <2>2 DEF Grown
    <3> QED BY <1>1, <2>2, <2>3, <3>1, WaitKept DEF SameScope
  <2>5. Waits(current)'
    <3>1. PICK b, i : b = rec'[current].block /\ i = b.id
      OBVIOUS
    <3>2. CASE rec'[current].state = "Ready"
      BY <2>2, <3>2, NoWait DEF Waits
    <3>3. CASE rec'[current].state = "Blocked" /\ Known(b)
      <4>1. b.on = "join" => i \in tasks' /\ current \in rec'[i].joiners
                             /\ ~(rec'[i].state \in FinishedStates)
        BY <2>2, <2>3, <3>1, <3>3 DEF Known
      <4>2. b.on = "scope" => i \in scopes' /\ sc'[i].owner = current /\ sc'[i].closed
                              /\ sc'[i].unfinished > 0
        BY <1>2, <2>2, <3>1, <3>3 DEF Known, ScopesOwnedBy, SameScope
      <4>3. b.on # "cancel"
        BY <3>3 DEF Known
      <4> QED BY <2>2, <3>1, <3>3, <4>1, <4>2, <4>3 DEF Waits, Finished, ScopesOwnedBy
    <3> QED BY <2>2, <3>1, <3>2, <3>3
  <2> QED BY <2>2, <2>4, <2>5
<1>5. CASE Forgets
  <2>1. /\ at = "user" /\ fin.step = "none"
        /\ \A t \in tasks' : t \in tasks /\ rec'[t] = rec[t]
        /\ \A t \in tasks \ tasks' : Finished(t)
        /\ \A s \in scopes' : s \in scopes /\ sc'[s] = sc[s]
        /\ \A s \in scopes \ scopes' : sc[s].unfinished = 0
    BY <1>2, <1>5 DEF Forgets, Settled
  <2>2. \A b \in tasks : ~Finished(b) =>
           b \in tasks' /\ rec'[b].state \notin FinishedStates /\ rec[b].joiners \subseteq rec'[b].joiners
    BY <2>1 DEF Finished
  <2>3. \A s \in scopes : sc[s].unfinished > 0 => s \in scopes' /\ sc'[s] = sc[s]
    BY <2>1
  <2> QED BY <1>1, <2>1, <2>2, <2>3, WaitKept
<1>6. CASE Resets
  BY <1>6, NoWait DEF Resets
<1>7. ASSUME NEW s \in scopes, Births(s) PROVE \A t \in tasks' : Waits(t)'
  <2>1. /\ at = "user" /\ fin.step = "none" /\ tasks' = tasks \cup {nextTask} /\ scopes' = scopes
        /\ \A t \in tasks : rec'[t] = rec[t]
        /\ rec'[nextTask].state = "Ready"
        /\ \A r \in scopes :
             /\ sc'[r].owner = sc[r].owner /\ sc'[r].closed = sc[r].closed
             /\ sc'[r].unfinished = IF r = s THEN sc[r].unfinished + 1 ELSE sc[r].unfinished
    BY <1>2, <1>7 DEF Births, Settled
  <2>2. PICK n : n = nextTask
    OBVIOUS
  <2>3. Waits(n)'
    BY <2>1, <2>2, NoWait
  <2>4. \A r \in scopes : sc[r].unfinished > 0 => sc'[r].unfinished > 0
    BY <1>2, <2>1
  <2>5. \A t \in tasks : Waits(t)'
    BY <1>1, <2>1, <2>4, WaitKept DEF Finished
  <2> QED BY <2>1, <2>2, <2>3, <2>5
<1> QED BY <1>3, <1>4, <1>5, <1>6, <1>7

LEMMA WaitsRun ==
  ASSUME RunInv, NoLostWakeup,
         Looks \/ Blocks \/ Switches \/ Picks(Head(runQueue)) \/ \E t \in tasks : Ends(t)
  PROVE  NoLostWakeup'
<1> USE DEF RunInv, IInv
<1>1. \A t \in tasks : Waits(t)
  BY WaitsAll
<1>2. NoFin.step = "none" /\ \A s \in scopes : sc[s].unfinished \in Nat
  BY OpenSets DEF NoFin
<1> SUFFICES \A t \in tasks' : Waits(t)'
  BY WaitsAllNext
\* The steps that replace the record of one unfinished task
<1>3. ASSUME NEW u \in tasks, Settled, tasks' = tasks, scopes' = scopes,
             \A t \in tasks \ {u} : rec'[t] = rec[t],
             rec'[u].state \notin FinishedStates, rec'[u].joiners = rec[u].joiners,
             \A s \in scopes : /\ sc'[s].owner = sc[s].owner /\ sc'[s].unfinished = sc[s].unfinished
                               /\ sc[s].closed => sc'[s].closed,
             at # "end", NEW t \in tasks \ {u}
      PROVE  Waits(t)'
  BY <1>1, <1>2, <1>3, WaitKept DEF Settled, Finished
<1>4. CASE Looks
  <2>1. /\ UNCHANGED <<tasks, rec, scopes, sc>> /\ fin.step = "none" /\ at = "end"
        /\ fin' = IF EndsNow(subj) THEN Finalize(subj, rec[subj].ending) ELSE NoFin
    BY <1>2, <1>4 DEF Looks, Settled
  <2>2. \A t \in tasks : t # subj => Waits(t)'
    BY <1>1, <2>1, WaitKept DEF Finished
  <2>3. ASSUME NEW u \in tasks, u = subj PROVE Waits(u)'
    <3>2. CASE rec[u].state # "Ending"
      <4>1. fin' = NoFin
        BY <2>1, <2>3, <3>2 DEF EndsNow
      <4>2. \A s : ~FinishingIn(s) /\ ~FinishingIn(s)'
        BY <1>2, <2>1, <4>1 DEF FinishingIn
      <4>3. OwnedPending(u) => OwnedPending(u)'
        BY <2>1, <4>2 DEF OwnedPending, ScopesOwnedBy
      <4>4. Waits(u)
        BY <1>1
      <4>5. Waits(u)'
        BY <2>1, <3>2, <4>2, <4>3, <4>4 DEF Waits, Finished, ScopesOwnedBy
      <4> QED BY <4>5
    <3>3. CASE rec[u].state = "Ending"
      <4>1. CASE EndsNow(u)
        <5>1. fin'.step = "state" /\ fin'.id = u
          BY <2>1, <2>3, <4>1 DEF Finalize
        <5>2. Waits(u)'
          BY <2>1, <3>3, <5>1 DEF Waits
        <5> QED BY <5>2
      <4>2. CASE ~EndsNow(u)
        <5>1. ~OwnedChildrenFinished(u)
          BY <3>3, <4>2 DEF EndsNow
        <5>2. OwnedPending(u)'
          BY <1>2, <2>1, <5>1 DEF OwnedChildrenFinished, OwnedPending, ScopesOwnedBy
        <5>3. Waits(u)'
          BY <2>1, <3>3, <5>2 DEF Waits
        <5> QED BY <5>3
      <4> QED BY <4>1, <4>2
    <3> QED BY <3>2, <3>3
  <2> QED BY <2>1, <2>2, <2>3
<1>5. CASE Blocks
  <2>1. PICK u \in tasks : u = subj
    BY <1>5 DEF Blocks
  <2>2. /\ Settled /\ at = "run" /\ at' = "pick" /\ UNCHANGED <<tasks, scopes, sc, fin>>
        /\ \A t \in tasks \ {u} : rec'[t] = rec[t]
        /\ rec'[u].state = "Blocked" /\ rec'[u].joiners = rec[u].joiners
        /\ rec'[u].block.on = "cancel" /\ ~OwnedChildrenFinished(u)
    BY <1>5, <2>1 DEF Blocks, Only, Rest, WaitFor
  <2>3. OwnedPending(u)'
    BY <1>2, <2>2 DEF OwnedChildrenFinished, OwnedPending, ScopesOwnedBy
  <2>4. Waits(u)'
    BY <2>2, <2>3 DEF Waits
  <2>5. rec'[u].state \notin FinishedStates
    BY <2>2 DEF FinishedStates
  <2>6. \A t \in tasks \ {u} : Waits(t)'
    BY <1>3, <2>2, <2>5
  <2> QED BY <2>2, <2>4, <2>6
<1>6. CASE Switches
  <2>1. PICK u \in tasks : u = subj
    BY <1>6 DEF Switches
  <2>2. /\ Settled /\ at = "run" /\ UNCHANGED <<tasks, scopes, fin>>
        /\ \A t \in tasks \ {u} : rec'[t] = rec[t]
        /\ rec'[u].state = "Running" /\ rec'[u].joiners = rec[u].joiners
        /\ \A s \in scopes : SameScope(s)
    BY <1>6, <2>1 DEF Switches, Only
  <2>3. Waits(u)'
    BY <2>2, NoWait
  <2>4. rec'[u].state \notin FinishedStates
    BY <2>2 DEF FinishedStates
  <2>5. \A t \in tasks \ {u} : Waits(t)'
    BY <1>3, <2>2, <2>4 DEF SameScope
  <2> QED BY <2>2, <2>3, <2>5
<1>7. CASE Picks(Head(runQueue))
  <2>1. /\ at = "pick" /\ Settled /\ UNCHANGED <<tasks, scopes, sc>>
        /\ \/ /\ Only(ROOT) /\ Rest(rec[ROOT], rec'[ROOT]) /\ rec'[ROOT].state = "Running"
           \/ rec' = rec
    BY <1>7 DEF Picks
  <2>2. CASE rec' = rec
    BY <1>1, <1>2, <2>1, <2>2, WaitKept DEF Settled, Finished
  <2>3. CASE Only(ROOT) /\ Rest(rec[ROOT], rec'[ROOT]) /\ rec'[ROOT].state = "Running"
    <3>1. Waits(ROOT)'
      BY <2>3, NoWait
    <3>2. ROOT \in tasks /\ rec'[ROOT].state \notin FinishedStates
      BY <2>3 DEF FinishedStates, Control, RecOK
    <3>3. \A t \in tasks \ {ROOT} : Waits(t)'
      BY <1>3, <2>1, <2>3, <3>2 DEF Only, Rest
    <3> QED BY <2>1, <3>1, <3>3
  <2> QED BY <2>1, <2>2, <2>3
<1>8. ASSUME NEW u \in tasks, Ends(u) PROVE \A t \in tasks' : Waits(t)'
  <2>1. /\ Settled /\ at \in {"user", "run"} /\ UNCHANGED <<tasks, scopes, fin>>
        /\ \A t \in tasks \ {u} : rec'[t] = rec[t]
        /\ rec'[u].state = "Ending" /\ rec'[u].joiners = rec[u].joiners
        /\ \A s \in scopes : /\ sc'[s].owner = sc[s].owner /\ sc'[s].unfinished = sc[s].unfinished
                             /\ sc[s].closed => sc'[s].closed
        /\ at' = "end" /\ subj' = u
    BY <1>8 DEF Ends
  <2>2. Waits(u)'
    BY <2>1 DEF Waits
  <2>3. rec'[u].state \notin FinishedStates
    BY <2>1 DEF FinishedStates
  <2>4. \A t \in tasks \ {u} : Waits(t)'
    BY <1>3, <2>1, <2>3
  <2> QED BY <2>1, <2>2, <2>4
<1> QED BY <1>4, <1>5, <1>6, <1>7, <1>8

LEMMA WaitsLoop ==
  ASSUME RunInv, NoLostWakeup,
         \/ Idles
         \/ \E u \in tasks : Rouses(u)
         \/ \E j \in TaskId : Unlists(j)
         \/ \E c \in TaskId : Requests(c)
  PROVE  NoLostWakeup'
<1> USE DEF RunInv, IInv
<1>1. \A t \in tasks : Waits(t)
  BY WaitsAll
<1>2. fin.step = "wake" => fin.id \in tasks /\ rec[fin.id].state \in FinishedStates
  BY FinFacts DEF Finished
<1> SUFFICES \A t \in tasks' : Waits(t)'
  BY WaitsAllNext
<1>3. CASE Idles
  BY <1>1, <1>2, <1>3, WaitSame DEF Idles
<1>4. ASSUME NEW u \in tasks, Rouses(u) PROVE \A t \in tasks' : Waits(t)'
  <2>1. /\ rec[u].state \notin FinishedStates /\ UNCHANGED <<tasks, scopes, sc, fin>>
        /\ \A t \in tasks \ {u} : rec'[t] = rec[t]
        /\ rec'[u].state = "Ready" /\ rec'[u].joiners = rec[u].joiners /\ rec'[u].scope = rec[u].scope
        /\ at # "end"
    BY <1>4 DEF Rouses, Wakes, Only, Rest
  <2>2. rec'[u].state \notin FinishedStates
    BY <2>1 DEF FinishedStates
  <2>3. Waits(u)'
    BY <2>1, NoWait
  <2>4. \A t \in tasks \ {u} : Waits(t)'
    BY <1>1, <1>2, <2>1, <2>2, WaitSame
  <2> QED BY <2>1, <2>3, <2>4
<1>5. ASSUME NEW j \in TaskId, Unlists(j) PROVE \A t \in tasks' : Waits(t)'
  <2>1. PICK f : f = fin.id
    OBVIOUS
  <2>2. /\ fin.step = "wake" /\ UNCHANGED <<tasks, scopes, sc, fin, at, subj>>
        /\ \A t \in tasks \ {f, j} : rec'[t] = rec[t]
        /\ rec'[f].joiners = rec[f].joiners \ {j}
        /\ rec'[f].state = rec[f].state /\ rec'[f].block = rec[f].block /\ rec'[f].scope = rec[f].scope
        /\ \/ /\ j \in tasks \ {f} /\ rec[j].state = "Blocked" /\ rec'[j].state = "Ready"
              /\ rec'[j].joiners = rec[j].joiners /\ rec'[j].scope = rec[j].scope
           \/ /\ j \in tasks \ {f} => rec'[j] = rec[j]
              /\ j \in tasks => ~(rec[j].state = "Blocked" /\ rec[j].block = WaitFor("join", f))
    BY <1>5, <2>1 DEF Unlists, Rest
  <2>3. f \in tasks /\ rec[f].state \in FinishedStates
    BY <1>2, <2>1, <2>2
  <2>4. \A b \in tasks : /\ b # f => rec'[b].joiners = rec[b].joiners
                         /\ rec'[b].scope = rec[b].scope
                         /\ rec'[b].state \in FinishedStates <=> rec[b].state \in FinishedStates
    BY <2>2, <2>3 DEF FinishedStates
  <2>5. ASSUME NEW t \in tasks, rec'[t].state \in {"Blocked", "Ending"} PROVE Waits(t)'
    <3>1. rec'[t].state = rec[t].state /\ rec'[t].block = rec[t].block
      BY <2>2, <2>5
    <3>2. Waits(t)
      BY <1>1
    <3>3. PICK b : b = rec[t].block.id
      OBVIOUS
    <3>4. \A s : FinishingIn(s)' <=> FinishingIn(s)
      BY <2>1, <2>2 DEF FinishingIn
    <3>5. OwnedPending(t) => OwnedPending(t)'
      BY <2>2, <3>4 DEF OwnedPending, ScopesOwnedBy
    <3>6. ASSUME rec[t].state = "Blocked", rec[t].block.on = "join"
          PROVE /\ b \in tasks' /\ t \in rec'[b].joiners
                /\ ~(rec'[b].state \in FinishedStates) \/ (fin'.step = "wake" /\ fin'.id = b)
      <4>1. b \in tasks /\ t \in rec[b].joiners /\ (~Finished(b) \/ b = f)
        BY <2>1, <3>2, <3>3, <3>6 DEF Waits
      <4>2. CASE b # f
        BY <2>2, <2>4, <4>1, <4>2 DEF Finished
      <4>3. CASE b = f
        <5>1. rec[t].block = WaitFor("join", f)
          <6>1. rec[t].block \in Block
            BY FieldTypes DEF Typed, TaskRec
          <6> QED BY <3>3, <3>6, <4>3, <6>1 DEF Block, WaitFor
        <5>2. t # j
          BY <2>2, <2>3, <2>5, <3>1, <3>6, <5>1 DEF FinishedStates
        <5> QED BY <2>1, <2>2, <2>3, <4>1, <4>3, <5>2
      <4> QED BY <4>2, <4>3
    <3>7. rec[t].state = "Blocked" /\ rec[t].block.on = "scope" =>
            /\ b \in scopes' /\ sc'[b].owner = t /\ sc'[b].closed
            /\ sc'[b].unfinished > 0 \/ FinishingIn(b)'
      BY <2>2, <3>2, <3>3, <3>4 DEF Waits, ScopesOwnedBy
    <3>8. rec[t].state = "Ending" =>
            OwnedPending(t)' \/ (at' = "end" /\ subj' = t) \/ (fin'.step = "state" /\ fin'.id = t)
      BY <2>2, <3>2, <3>5 DEF Waits
    <3>9. rec[t].state = "Blocked" /\ rec[t].block.on = "cancel" => OwnedPending(t)'
      BY <3>2, <3>5 DEF Waits
    <3> QED BY <3>1, <3>3, <3>6, <3>7, <3>8, <3>9 DEF Waits, Finished, ScopesOwnedBy, FinishingIn
  <2> QED BY <2>2, <2>5, NoWait
<1>6. ASSUME NEW c \in TaskId, Requests(c) PROVE \A t \in tasks' : Waits(t)'
  <2>1. /\ fin.step = "none" /\ UNCHANGED <<tasks, scopes, sc, at, subj>>
    BY <1>6 DEF Requests, NoFin
  <2>2. CASE rec' = rec
    BY <1>1, <2>1, <2>2, WaitKept DEF Finished
  <2>3. CASE Cancellable(c) /\ Marks(c)
    <3>1. /\ c \in tasks /\ \A t \in tasks \ {c} : rec'[t] = rec[t]
          /\ rec'[c].joiners = rec[c].joiners
          /\ \/ rec'[c].state = rec[c].state /\ rec'[c].block = rec[c].block
             \/ rec'[c].state = "Ready"
      BY <2>3 DEF Marks, Only, Cancellable
    <3>2. \A b \in tasks : ~Finished(b) =>
             rec'[b].state \notin FinishedStates /\ rec[b].joiners \subseteq rec'[b].joiners
      BY <3>1 DEF Finished, FinishedStates
    <3>3. \A t \in tasks \ {c} : Waits(t)'
      BY <1>1, <2>1, <3>1, <3>2, WaitKept
    <3>4. Waits(c)'
      <4>1. CASE rec'[c].state = "Ready"
        BY <4>1, NoWait
      <4>2. CASE rec'[c].state = rec[c].state /\ rec'[c].block = rec[c].block
        BY <1>1, <2>1, <3>1, <3>2, <4>2, WaitKept
      <4> QED BY <3>1, <4>1, <4>2
    <3> QED BY <2>1, <3>3, <3>4
  <2> QED BY <1>6, <2>2, <2>3 DEF Requests
<1> QED BY <1>3, <1>4, <1>5, <1>6

\* finalize and after_finish: the waits the finished task ends are those of its
\* scope's owner.
LEMMA WaitsFinish ==
  ASSUME RunInv, NoLostWakeup, Finishes(fin.id)
  PROVE  NoLostWakeup'
<1> USE DEF RunInv, IInv
<1>1. \A t \in tasks : Waits(t)
  BY WaitsAll
<1> SUFFICES \A t \in tasks' : Waits(t)'
  BY WaitsAllNext
<1>2. PICK f, p : f = fin.id /\ p = rec[f].scope
  OBVIOUS
<1>3. /\ fin.step = "state" /\ fin'.id = f /\ fin'.step = "wake"
      /\ f \in tasks \ {ROOT} /\ f \in tasks' /\ at' = at /\ subj' = subj
      /\ \A t \in tasks' \ {f} : t \in tasks /\ rec'[t] = rec[t]
      /\ \A t \in tasks \ tasks' : Finished(t)
      /\ rec'[f].state \in FinishedStates /\ rec'[f].scope = p /\ rec'[f].joiners = rec[f].joiners
      /\ \A s \in scopes' : /\ s \in scopes /\ sc'[s].owner = sc[s].owner
                            /\ sc'[s].closed = sc[s].closed /\ (s = p \/ sc'[s] = sc[s])
      /\ \A s \in scopes \ scopes' : sc[s].owner = f
  BY <1>2 DEF Finishes
<1>4. Waits(f)'
  BY <1>3, NoWait DEF FinishedStates
<1>5. ASSUME NEW t \in tasks' \ {f} PROVE Waits(t)'
  <2>1. t \in tasks /\ rec'[t] = rec[t] /\ Waits(t)
    BY <1>1, <1>3
  <2>2. PICK b : b = rec[t].block.id
    OBVIOUS
  <2>3. \A s : ~FinishingIn(s) /\ (FinishingIn(s)' <=> s = p)
    BY <1>3 DEF FinishingIn
  <2>4. \A s \in ScopesOwnedBy(t) : sc[s].unfinished > 0 =>
          s \in ScopesOwnedBy(t)' /\ (sc'[s].unfinished > 0 \/ s = p)
          /\ (sc[s].closed => sc'[s].closed)
    BY <1>3 DEF ScopesOwnedBy
  <2>5. OwnedPending(t) => OwnedPending(t)'
    BY <2>3, <2>4 DEF OwnedPending
  <2>6. rec[t].state = "Blocked" /\ rec[t].block.on = "join" =>
          /\ b \in tasks' /\ t \in rec'[b].joiners
          /\ ~(rec'[b].state \in FinishedStates) \/ b = f
    <3> HAVE rec[t].state = "Blocked" /\ rec[t].block.on = "join"
    <3>1. b \in tasks /\ t \in rec[b].joiners /\ ~Finished(b)
      BY <1>3, <2>1, <2>2 DEF Waits
    <3> QED BY <1>3, <3>1 DEF Finished
  <2>7. rec[t].state = "Blocked" /\ rec[t].block.on = "scope" =>
          /\ b \in scopes' /\ sc'[b].owner = t /\ sc'[b].closed
          /\ sc'[b].unfinished > 0 \/ FinishingIn(b)'
    BY <2>1, <2>2, <2>3, <2>4 DEF Waits, ScopesOwnedBy
  <2>8. rec[t].state = "Ending" => OwnedPending(t)' \/ (at' = "end" /\ subj' = t)
    BY <1>2, <1>3, <2>1, <2>5 DEF Waits
  <2>9. rec[t].state = "Blocked" /\ rec[t].block.on = "cancel" => OwnedPending(t)'
    BY <2>1, <2>5 DEF Waits
  <2> QED BY <1>3, <2>1, <2>2, <2>6, <2>7, <2>8, <2>9 DEF Waits, Finished, ScopesOwnedBy, FinishingIn
<1> QED BY <1>3, <1>4, <1>5

LEMMA WaitsNotify ==
  ASSUME RunInv, NoLostWakeup, Notifies
  PROVE  NoLostWakeup'
<1> USE DEF RunInv, IInv
<1>1. \A t \in tasks : Waits(t)
  BY WaitsAll
<1> SUFFICES \A t \in tasks' : Waits(t)'
  BY WaitsAllNext
<1>2. PICK f, p, o : f = fin.id /\ p = rec[f].scope /\ o = Owner
  OBVIOUS
<1>3. /\ fin.step = "wake" /\ rec[f].joiners = {} /\ at' = at /\ subj' = subj
      /\ p \in scopes /\ sc[p].owner = o /\ o \in tasks
      /\ \A s \in scopes : sc[s].unfinished \in Nat
  BY <1>2, FinFacts, OpenSets DEF Notifies, Owner
<1>4. /\ UNCHANGED <<tasks, scopes, sc>> /\ fin'.step \in {"none", "state"}
      /\ \A t \in tasks \ {o} : rec'[t] = rec[t]
      /\ rec'[o].joiners = rec[o].joiners
      /\ rec'[o].state \in FinishedStates <=> rec[o].state \in FinishedStates
      /\ \/ rec'[o].state = "Ready"
         \/ rec' = rec /\ fin'.step = "state" /\ fin'.id = o /\ rec[o].state = "Ending"
         \/ rec' = rec /\ LeftWaiting
  <2>1. CASE Wakes(o) /\ fin' = NoFin
    BY <2>1 DEF Wakes, Only, Rest, NoFin, FinishedStates
  <2>2. CASE UNCHANGED <<tasks, rec, scopes, sc>> /\ fin' = Finalize(o, rec[o].ending)
             /\ rec[o].state = "Ending"
    BY <2>2 DEF Finalize
  <2>3. CASE UNCHANGED <<tasks, rec, scopes, sc>> /\ fin' = NoFin /\ LeftWaiting
    BY <2>3 DEF NoFin
  <2> QED BY <1>2, <2>1, <2>2, <2>3 DEF Notifies
<1>5. \A s : ~FinishingIn(s)' /\ (FinishingIn(s) <=> s = p)
  BY <1>2, <1>3, <1>4 DEF FinishingIn
\* Whoever joined the finished task has been taken off its list.
<1>6. ASSUME NEW t \in tasks, rec[t].state = "Blocked", rec[t].block.on = "join",
             NEW b, b = rec[t].block.id
      PROVE  b \in tasks' /\ t \in rec'[b].joiners /\ ~(rec'[b].state \in FinishedStates)
  <2>1. b \in tasks /\ t \in rec[b].joiners /\ (~Finished(b) \/ b = f)
    BY <1>1, <1>2, <1>6 DEF Waits
  <2>2. b # f
    BY <1>3, <2>1
  <2> QED BY <1>4, <2>1, <2>2 DEF Finished
<1>7. ASSUME NEW t \in tasks \ {o} PROVE Waits(t)'
  <2>1. rec'[t] = rec[t] /\ Waits(t)
    BY <1>1, <1>4
  <2>2. PICK b : b = rec[t].block.id
    OBVIOUS
  <2>3. \A s \in ScopesOwnedBy(t) : s # p
    BY <1>3 DEF ScopesOwnedBy
  <2>4. OwnedPending(t) => OwnedPending(t)'
    BY <1>4, <1>5, <2>3 DEF OwnedPending, ScopesOwnedBy
  <2>5. rec[t].state = "Blocked" /\ rec[t].block.on = "join" =>
          b \in tasks' /\ t \in rec'[b].joiners /\ ~(rec'[b].state \in FinishedStates)
    BY <1>6, <2>2
  <2>6. rec[t].state = "Blocked" /\ rec[t].block.on = "scope" =>
          b \in scopes' /\ sc'[b].owner = t /\ sc'[b].closed /\ sc'[b].unfinished > 0
    BY <1>4, <1>5, <2>1, <2>2, <2>3 DEF Waits, ScopesOwnedBy
  <2>7. rec[t].state = "Ending" => OwnedPending(t)' \/ (at' = "end" /\ subj' = t)
    BY <1>3, <2>1, <2>4 DEF Waits
  <2>8. rec[t].state = "Blocked" /\ rec[t].block.on = "cancel" => OwnedPending(t)'
    BY <2>1, <2>4 DEF Waits
  <2> QED BY <2>1, <2>2, <2>5, <2>6, <2>7, <2>8 DEF Waits, Finished, ScopesOwnedBy
<1>8. Waits(o)'
  <2>1. CASE rec'[o].state = "Ready"
    BY <2>1, NoWait
  <2>2. CASE rec' = rec /\ fin'.step = "state" /\ fin'.id = o /\ rec[o].state = "Ending"
    BY <2>2 DEF Waits
  <2>3. CASE rec' = rec /\ LeftWaiting
    <3>1. Waits(o)
      BY <1>1, <1>3
    <3>2. PICK b : b = rec[o].block.id
      OBVIOUS
    <3>3. /\ ~(/\ ScopeDone(p) /\ rec[o].state = "Blocked" /\ rec[o].block = WaitFor("scope", p))
          /\ OwnedChildrenFinished(o) =>
               /\ rec[o].state # "Ending"
               /\ ~(rec[o].state = "Blocked" /\ rec[o].block.on = "cancel")
      BY <1>2, <2>3 DEF LeftWaiting
    <3>4. ~OwnedChildrenFinished(o) => OwnedPending(o)'
      BY <1>3, <1>4 DEF OwnedChildrenFinished, OwnedPending, ScopesOwnedBy
    <3>5. rec[o].state = "Blocked" /\ rec[o].block.on = "join" =>
            b \in tasks' /\ o \in rec'[b].joiners /\ ~(rec'[b].state \in FinishedStates)
      BY <1>3, <1>6, <3>2
    <3>6. ASSUME rec[o].state = "Blocked", rec[o].block.on = "scope"
          PROVE  b \in scopes' /\ sc'[b].owner = o /\ sc'[b].closed /\ sc'[b].unfinished > 0
      <4>1. /\ b \in scopes /\ sc[b].owner = o /\ sc[b].closed /\ (sc[b].unfinished > 0 \/ b = p)
        BY <1>5, <3>1, <3>2, <3>6 DEF Waits, ScopesOwnedBy
      <4>2. b = p => sc[b].unfinished # 0
        <5> HAVE b = p
        <5>1. rec[o].block \in Block
          BY <1>3, FieldTypes DEF Typed, TaskRec
        <5>2. rec[o].block = WaitFor("scope", p)
          BY <3>2, <3>6, <5>1 DEF Block, WaitFor
        <5> QED BY <3>3, <3>6, <4>1, <5>2 DEF ScopeDone
      <4>3. sc[b].unfinished > 0
        BY <1>3, <4>1, <4>2
      <4> QED BY <1>4, <4>1, <4>3
    <3> QED BY <2>3, <3>2, <3>3, <3>4, <3>5, <3>6 DEF Waits, Finished, ScopesOwnedBy
  <2> QED BY <1>4, <2>1, <2>2, <2>3
<1> QED BY <1>4, <1>7, <1>8

\* No wakeup is lost: whatever a suspended task waits for inside the VM is still
\* to happen and knows the task, for every number of tasks and scopes.
THEOREM WakeupsAreKept == Spec => []NoLostWakeup
<1>1. Init => NoLostWakeup
  <2> SUFFICES ASSUME Init PROVE NoLostWakeup
    OBVIOUS
  <2>1. tasks = {ROOT} /\ rec[ROOT].state = "Running"
    BY RootIsTask DEF Init, BlankRec, RootRec, FreshRec
  <2> QED BY <2>1, WaitsAll DEF Waits
<1>2. RunInv /\ NoLostWakeup /\ [Next]_vars => NoLostWakeup'
  <2> SUFFICES ASSUME RunInv, NoLostWakeup, [Next]_vars PROVE NoLostWakeup'
    OBVIOUS
  <2>1. Kind
    BY RunStep
  <2> QED BY <2>1, WaitsUser, WaitsRun, WaitsLoop, WaitsFinish, WaitsNotify DEF Kind
<1> QED BY <1>1, <1>2, RunInvariance, PTL DEF Spec

-----------------------------------------------------------------------------
(* Cancels and failures.  A scope's failure names a task that exists or did, *)
(* and every child before it has been stopped or is among the tasks that the *)
(* running task_end has still to cancel.                                     *)
Stopped(c) == \/ Finished(c) \/ rec[c].state = "Ending" \/ rec[c].cancel # "None"
              \/ c \in cancels \/ (fin.step = "state" /\ fin.id = c)
Failing ==
    \A s \in scopes : sc[s].failed \in TaskId =>
      /\ sc[s].failed < nextTask
      /\ \A c \in Children(s) : c < sc[s].failed => Stopped(c)
\* An unwinding child runs or is suspended; a message is of a task that exists
\* or did; the root is never cancelled.
Unwinders ==
    \A t \in unwinding \ {ROOT} :
      t \in tasks /\ rec[t].started /\ rec[t].state \in {"Ready", "Running", "Blocked"}
MsgOK == unwinding \ {ROOT} # {} /\ panicMsg \in TaskId => panicMsg < nextTask
RootFree == rec[ROOT].cancel = "None"
FailInv == Failing /\ Unwinders /\ MsgOK /\ RootFree

\* A stopped child stays stopped, in its scope.
StopsKept ==
    \A t \in tasks : t \in tasks' /\ t # ROOT =>
      rec'[t].scope = rec[t].scope /\ (Stopped(t) => Stopped(t)')

\* A step that leaves a task's end and its cancel alone
LEMMA StopKept ==
  ASSUME NEW t \in tasks, rec'[t].cancel = rec[t].cancel \/ rec'[t].cancel # "None",
         rec'[t].state = rec[t].state \/ rec[t].state \notin FinishedStates \cup {"Ending"},
         t \in cancels => t \in cancels',
         fin.step = "state" /\ fin.id = t => fin'.step = "state" /\ fin'.id = t,
         Stopped(t)
  PROVE  Stopped(t)'
  BY DEF Stopped, Finished

LEMMA StopsUser ==
  ASSUME RunInv, Stands \/ Pauses \/ Forgets \/ Looks \/ Blocks \/ Switches
                 \/ Picks(Head(runQueue)) \/ (\E s \in scopes : Births(s)) \/ \E t \in tasks : Ends(t)
  PROVE  StopsKept
<1> USE DEF RunInv, IInv
<1>1. Settled /\ cancels = {} /\ fin.step = "none"
  BY DEF Stands, Pauses, Forgets, Looks, Blocks, Switches, Picks, Births, Ends, Settled, NoFin
<1>2. ASSUME \A t \in tasks : t \in tasks' /\ t # ROOT =>
               /\ rec'[t].scope = rec[t].scope
               /\ rec'[t].cancel = rec[t].cancel \/ rec'[t].cancel # "None"
               /\ rec'[t].state = rec[t].state \/ rec[t].state \notin FinishedStates \cup {"Ending"}
      PROVE  StopsKept
  BY <1>1, <1>2, StopKept DEF StopsKept
<1>3. {"Running", "Ready"} \cap (FinishedStates \cup {"Ending"}) = {}
  BY DEF FinishedStates
<1>4. CASE Stands
  BY <1>2, <1>4 DEF Stands, Alike, Rest
<1>5. CASE Pauses
  <2>1. current \in tasks /\ rec[current].state = "Running"
    BY <1>5, UserFacts DEF Pauses
  <2> QED BY <1>2, <1>3, <1>5, <2>1 DEF Pauses, Grown, Rest
<1>6. CASE Forgets
  BY <1>2, <1>6 DEF Forgets
<1>7. CASE Looks
  BY <1>2, <1>7 DEF Looks
<1>8. CASE Blocks
  <2>1. subj \in tasks /\ rec[subj].state = "Ready"
    BY <1>8 DEF Blocks, Control, AtOK
  <2> QED BY <1>2, <1>3, <1>8, <2>1 DEF Blocks, Only, Rest
<1>9. CASE Switches
  <2>1. subj \in tasks /\ rec[subj].state = "Ready"
    BY <1>9 DEF Switches, Control, AtOK
  <2> QED BY <1>2, <1>3, <1>9, <2>1 DEF Switches, Delivers, Only
<1>10. CASE Picks(Head(runQueue))
  BY <1>2, <1>10 DEF Picks, Only
<1>11. ASSUME NEW s \in scopes, Births(s) PROVE StopsKept
  BY <1>2, <1>11 DEF Births
<1>12. ASSUME NEW t \in tasks, Ends(t) PROVE StopsKept
  <2>1. /\ \A u \in tasks \ {t} : rec'[u] = rec[u]
        /\ rec'[t].state = "Ending" /\ rec'[t].scope = rec[t].scope
    BY <1>12 DEF Ends
  <2>2. Stopped(t)'
    BY <2>1 DEF Stopped
  <2>3. \A u \in tasks \ {t} : Stopped(u) => Stopped(u)'
    BY <1>1, <2>1, StopKept
  <2> QED BY <2>1, <2>2, <2>3 DEF StopsKept
<1> QED BY <1>4, <1>5, <1>6, <1>7, <1>8, <1>9, <1>10, <1>11, <1>12

LEMMA StopsLoop ==
  ASSUME RunInv, \/ Notifies \/ Idles \/ Finishes(fin.id)
                 \/ \E u \in tasks : Rouses(u)
                 \/ \E j \in TaskId : Unlists(j)
                 \/ \E c \in TaskId : Requests(c)
  PROVE  StopsKept
<1> USE DEF RunInv, IInv
\* One task is woken.
<1>1. ASSUME NEW u \in tasks, rec[u].state \notin FinishedStates \cup {"Ending"},
             \A t \in tasks \ {u} : rec'[t] = rec[t], rec'[u].scope = rec[u].scope,
             rec'[u].cancel = rec[u].cancel, cancels' = cancels,
             fin.step = "state" => fin' = fin
      PROVE  StopsKept
  BY <1>1, StopKept DEF StopsKept
<1>2. CASE Notifies
  <2>1. CASE Wakes(Owner)
    <3>1. PICK o : o = Owner
      OBVIOUS
    <3>2. fin.step # "state"
      BY <1>2 DEF Notifies
    <3>3. /\ o \in tasks /\ rec[o].state \notin FinishedStates \cup {"Ending"}
          /\ \A t \in tasks \ {o} : rec'[t] = rec[t]
          /\ rec'[o].scope = rec[o].scope /\ rec'[o].cancel = rec[o].cancel /\ cancels' = cancels
      BY <2>1, <3>1 DEF Wakes, Only, Rest
    <3> QED BY <1>1, <3>2, <3>3
  <2>2. CASE UNCHANGED <<rec, cancels>>
    BY <1>2, <2>2, StopKept DEF StopsKept, Notifies
  <2> QED BY <1>2, <2>1, <2>2 DEF Notifies
<1>3. CASE Idles
  BY <1>3, StopKept DEF StopsKept, Idles
<1>4. CASE Finishes(fin.id)
  <2>1. PICK f : f = fin.id
    OBVIOUS
  <2>2. /\ \A t \in tasks' \ {f} : rec'[t] = rec[t]
        /\ rec'[f].state \in FinishedStates /\ rec'[f].scope = rec[f].scope /\ cancels' = cancels
    BY <1>4, <2>1 DEF Finishes
  <2>3. Stopped(f)'
    BY <2>2 DEF Stopped, Finished
  <2>4. \A t \in tasks : t \in tasks' /\ t # f /\ Stopped(t) => Stopped(t)'
    BY <2>1, <2>2, StopKept
  <2> QED BY <2>2, <2>3, <2>4 DEF StopsKept
<1>5. ASSUME NEW u \in tasks, Rouses(u) PROVE StopsKept
  BY <1>1, <1>5 DEF Rouses, Wakes, Only, Rest
<1>6. ASSUME NEW j \in TaskId, Unlists(j) PROVE StopsKept
  <2>1. PICK f : f = fin.id
    OBVIOUS
  <2>2. /\ fin.step = "wake" /\ UNCHANGED <<tasks, cancels, fin>>
        /\ \A t \in tasks \ {f, j} : rec'[t] = rec[t]
        /\ rec'[f].state = rec[f].state /\ rec'[f].scope = rec[f].scope /\ rec'[f].cancel = rec[f].cancel
        /\ \/ /\ j \in tasks \ {f} /\ rec[j].state = "Blocked"
              /\ rec'[j].scope = rec[j].scope /\ rec'[j].cancel = rec[j].cancel
           \/ j \in tasks \ {f} => rec'[j] = rec[j]
    BY <1>6, <2>1 DEF Unlists, Rest
  <2>3. "Blocked" \notin FinishedStates \cup {"Ending"}
    BY DEF FinishedStates
  <2>4. \A t \in tasks : /\ rec'[t].scope = rec[t].scope /\ rec'[t].cancel = rec[t].cancel
                         /\ rec'[t].state = rec[t].state \/ rec[t].state \notin FinishedStates \cup {"Ending"}
    BY <2>2, <2>3
  <2> QED BY <2>2, <2>4, StopKept DEF StopsKept
<1>7. ASSUME NEW c \in TaskId, Requests(c) PROVE StopsKept
  <2>1. /\ fin.step = "none" /\ cancels' = cancels \ {c} /\ tasks' = tasks
        /\ \A t \in tasks \ {c} : rec'[t] = rec[t]
    BY <1>7 DEF Requests, NoFin, Marks, Only
  <2>2. \A t \in tasks \ {c} : Stopped(t) => Stopped(t)'
    BY <2>1, StopKept
  <2>3. ASSUME c \in tasks, c # ROOT PROVE rec'[c].scope = rec[c].scope /\ Stopped(c)'
    <3>1. CASE ~Cancellable(c) /\ UNCHANGED <<rec, runQueue, fin>>
      BY <2>3, <3>1 DEF Cancellable, Stopped, Finished
    <3>2. CASE rec' = rec /\ fin' = Finalize(c, "Dropped")
      BY <3>2 DEF Finalize, Stopped
    <3>3. CASE Marks(c)
      <4>1. rec'[c].cancel = "Requested" /\ rec'[c].scope = rec[c].scope
        BY <3>3 DEF Marks
      <4> QED BY <4>1 DEF Stopped
    <3> QED BY <1>7, <3>1, <3>2, <3>3 DEF Requests
  <2> QED BY <2>1, <2>2, <2>3 DEF StopsKept
<1> QED BY <1>2, <1>3, <1>4, <1>5, <1>6, <1>7

\* Scopes fail in task_end only.
LEMMA FailKept ==
  ASSUME Typed, Failing, StopsKept, \A t \in tasks' : t \in tasks, nextTask' = nextTask,
         \A s \in scopes' : sc'[s].failed \in TaskId => s \in scopes /\ sc'[s].failed = sc[s].failed
  PROVE  Failing'
<1> SUFFICES ASSUME NEW s \in scopes', sc'[s].failed \in TaskId
             PROVE  /\ sc'[s].failed < nextTask'
                    /\ \A c \in tasks' : c # ROOT /\ rec'[c].scope = s /\ c < sc'[s].failed => Stopped(c)'
  BY DEF Failing, Children
<1>1. s \in scopes /\ sc'[s].failed = sc[s].failed
  OBVIOUS
<1>2. \A c \in tasks' : c # ROOT /\ rec'[c].scope = s => c \in Children(s)
  BY DEF StopsKept, Children
<1> QED BY <1>1, <1>2 DEF Failing, StopsKept

LEMMA FailingStep ==
  ASSUME RunInv, FailInv, Kind
  PROVE  Failing'
<1> USE DEF RunInv, IInv, FailInv
<1>0. NoMsg \notin TaskId
  BY ConstantsAssumption DEF NoMsg, TaskId
<1>1. CASE Stands \/ Pauses \/ Forgets \/ Looks \/ Blocks \/ Switches \/ Picks(Head(runQueue))
  <2>1. StopsKept
    BY <1>1, StopsUser
  <2>2. /\ \A t \in tasks' : t \in tasks
        /\ nextTask' = nextTask
        /\ \A s \in scopes' : sc'[s].failed \in TaskId => s \in scopes /\ sc'[s].failed = sc[s].failed
    BY <1>0, <1>1 DEF Stands, Pauses, Forgets, Looks, Blocks, Switches, Picks, SameScope
  <2> QED BY <2>1, <2>2, FailKept
<1>2. CASE \/ Notifies \/ Idles \/ Finishes(fin.id)
           \/ \E u \in tasks : Rouses(u)
           \/ \E j \in TaskId : Unlists(j)
           \/ \E c \in TaskId : Requests(c)
  <2>1. StopsKept
    BY <1>2, StopsLoop
  <2>2. /\ \A t \in tasks' : t \in tasks
        /\ nextTask' = nextTask
        /\ \A s \in scopes' : s \in scopes /\ sc'[s].failed = sc[s].failed
    BY <1>2 DEF Notifies, Idles, Finishes, Rouses, Unlists, Requests, Wakes
  <2> QED BY <2>1, <2>2, FailKept
<1>3. CASE Resets
  BY <1>3 DEF Resets, Failing
<1>4. ASSUME NEW r \in scopes, Births(r) PROVE Failing'
  <2>1. StopsKept
    BY <1>4, StopsUser
  <2>2. PICK n \in Int : n = nextTask
    BY DEF Typed
  <2>3. /\ tasks' = tasks \cup {n} /\ n \notin tasks /\ nextTask' = n + 1 /\ scopes' = scopes
        /\ \A s \in scopes : sc'[s].failed = sc[s].failed
    BY <1>4, <2>2 DEF Births
  <2> SUFFICES ASSUME NEW s \in scopes', sc'[s].failed \in TaskId
               PROVE  /\ sc'[s].failed < nextTask'
                      /\ \A c \in tasks' : c # ROOT /\ rec'[c].scope = s /\ c < sc'[s].failed => Stopped(c)'
    BY DEF Failing, Children
  <2>4. PICK m \in TaskId : m = sc'[s].failed
    OBVIOUS
  <2>5. m \in Int /\ m < n /\ sc[s].failed = m /\ s \in scopes
    BY <2>2, <2>3, <2>4, ConstantsAssumption DEF Failing, TaskId
  <2>6. \A c \in tasks' : c < m => c # n
    BY <2>5
  <2>7. \A c \in tasks : c # ROOT /\ rec'[c].scope = s => c \in Children(s) /\ c \in tasks'
    BY <2>1, <2>3 DEF StopsKept, Children
  <2>8. \A c \in tasks : c # ROOT /\ rec'[c].scope = s /\ c < m => Stopped(c)'
    BY <2>1, <2>4, <2>5, <2>7 DEF Failing, StopsKept
  <2>9. m < n + 1
    BY <2>5
  <2> QED BY <2>3, <2>4, <2>6, <2>8, <2>9
<1>5. ASSUME NEW u \in tasks, Ends(u) PROVE Failing'
  <2>1. StopsKept
    BY <1>5, StopsUser
  <2>2. /\ UNCHANGED <<tasks, scopes, nextTask>> /\ u # ROOT
        /\ rec'[u].state = "Ending" /\ rec'[u].scope = rec[u].scope
        /\ \A t \in tasks \ {u} : rec'[t] = rec[t]
        /\ \A s \in scopes : sc'[s].failed = IF rec[u].scope = s /\ sc[s].failed = NoMsg
                                             THEN rec'[u].panic ELSE sc[s].failed
        /\ rec'[u].panic # NoMsg => Siblings(u) \subseteq cancels'
        /\ Returns(u) \/ Unwinds(u) \/ Overflows(u)
    BY <1>5 DEF Ends
  <2> SUFFICES ASSUME NEW s \in scopes', sc'[s].failed \in TaskId
               PROVE  /\ sc'[s].failed < nextTask'
                      /\ \A c \in tasks' : c # ROOT /\ rec'[c].scope = s /\ c < sc'[s].failed => Stopped(c)'
    BY DEF Failing, Children
  <2>3. Stopped(u)'
    BY <2>2 DEF Stopped
  <2>4. CASE sc'[s].failed = sc[s].failed
    <3>1. \A c \in tasks' : c # ROOT /\ rec'[c].scope = s => c \in Children(s)
      BY <2>2 DEF Children
    <3> QED BY <2>1, <2>2, <2>4, <3>1 DEF Failing, StopsKept
  <2>5. CASE rec[u].scope = s /\ sc'[s].failed = rec'[u].panic
    <3>1. rec'[u].panic # NoMsg
      BY <1>0, <2>5
    <3>2. rec'[u].panic < nextTask
      <4>1. CASE Overflows(u)
        BY <4>1 DEF Overflows, Control, RecOK
      <4>2. CASE Unwinds(u)
        <5>1. u \in unwinding /\ rec'[u].panic \in {NoMsg, EmptyMsg, panicMsg}
          BY <4>2 DEF Unwinds
        <5>2. EmptyMsg \notin TaskId
          BY ConstantsAssumption DEF EmptyMsg, TaskId
        <5>3. rec'[u].panic = panicMsg /\ panicMsg \in TaskId
          BY <2>5, <3>1, <5>1, <5>2
        <5> QED BY <2>2, <5>1, <5>3 DEF MsgOK
      <4>3. CASE Returns(u)
        BY <3>1, <4>3 DEF Returns
      <4> QED BY <2>2, <4>1, <4>2, <4>3
    <3>3. \A c \in tasks' : c # ROOT /\ rec'[c].scope = s => c = u \/ c \in cancels'
      BY <2>2, <2>5, <3>1 DEF Siblings, Children
    <3>4. \A c \in tasks' : c # ROOT /\ rec'[c].scope = s => Stopped(c)'
      BY <2>3, <3>3 DEF Stopped
    <3> QED BY <2>2, <2>5, <3>2, <3>4
  <2> QED BY <2>2, <2>4, <2>5
<1> QED BY <1>1, <1>2, <1>3, <1>4, <1>5 DEF Kind

LEMMA UnwindersStep ==
  ASSUME RunInv, FailInv, Kind
  PROVE  Unwinders'
<1> USE DEF RunInv, IInv, FailInv
<1>1. \A st \in {"Ready", "Running", "Blocked"} : st \notin FinishedStates \cup {"Ending"}
  BY DEF FinishedStates
<1>3. CASE Stands
  <2>1. current \in tasks /\ rec[current].state = "Running" /\ (current # ROOT => rec[current].started)
    BY <1>3, UserFacts DEF Stands
  <2> QED BY <1>3, <2>1 DEF Stands, Alike, Rest, Panics, Unwinders
<1>4. CASE Pauses
  <2>1. current \in tasks
    BY <1>4, UserFacts DEF Pauses
  <2> QED BY <1>4, <2>1 DEF Pauses, Grown, Rest, Unwinders
<1>5. CASE Forgets
  BY <1>1, <1>5 DEF Forgets, Unwinders, Finished
<1>6. CASE Resets
  <2>1. unwinding' \subseteq {ROOT}
    BY <1>1, <1>6 DEF Resets, OpenTasks, Unwinders, Finished
  <2> QED BY <2>1 DEF Unwinders
<1>7. CASE Looks \/ Idles
  BY <1>7 DEF Looks, Idles, Unwinders
<1>8. CASE Blocks
  BY <1>8 DEF Blocks, Only, Rest, Unwinders
<1>9. CASE Switches
  BY <1>9 DEF Switches, Delivers, Only, Unwinders
<1>10. CASE Picks(Head(runQueue))
  BY <1>10 DEF Picks, Only, Unwinders
<1>11. CASE Notifies
  <2>1. CASE Wakes(Owner)
    BY <2>1 DEF Wakes, Only, Rest, Unwinders
  <2>2. CASE UNCHANGED <<tasks, rec, unwinding>>
    BY <2>2 DEF Unwinders
  <2> QED BY <1>11, <2>1, <2>2 DEF Notifies
<1>12. CASE Finishes(fin.id)
  <2>1. PICK f : f = fin.id
    OBVIOUS
  <2>2. f \notin unwinding \ {ROOT}
    BY <1>1, <1>12, <2>1 DEF Finishes, Unwinders
  <2> QED BY <1>1, <1>12, <2>1, <2>2 DEF Finishes, Unwinders, Finished
<1>13. ASSUME NEW t \in tasks, Ends(t) PROVE Unwinders'
  BY <1>13 DEF Ends, Unwinders
<1>14. ASSUME NEW s \in scopes, Births(s) PROVE Unwinders'
  BY <1>14 DEF Births, Unwinders
<1>15. ASSUME NEW u \in tasks, Rouses(u) PROVE Unwinders'
  BY <1>15 DEF Rouses, Wakes, Only, Rest, Unwinders
<1>16. ASSUME NEW j \in TaskId, Unlists(j) PROVE Unwinders'
  <2>1. PICK f : f = fin.id
    OBVIOUS
  <2>2. /\ UNCHANGED <<tasks, unwinding>>
        /\ \A t \in tasks \ {f, j} : rec'[t] = rec[t]
        /\ rec'[f].state = rec[f].state /\ rec'[f].started = rec[f].started
        /\ \/ rec'[j].started = rec[j].started /\ rec'[j].state = "Ready"
           \/ j \in tasks \ {f} => rec'[j] = rec[j]
    BY <1>16, <2>1 DEF Unlists, Rest
  <2>3. \A t \in tasks : /\ rec'[t].started = rec[t].started
                         /\ rec'[t].state = rec[t].state \/ rec'[t].state = "Ready"
    BY <2>2
  <2> QED BY <2>2, <2>3 DEF Unwinders
<1>17. ASSUME NEW c \in TaskId, Requests(c) PROVE Unwinders'
  BY <1>17 DEF Requests, Marks, Only, Unwinders
<1> QED BY <1>3, <1>4, <1>5, <1>6, <1>7, <1>8, <1>9, <1>10, <1>11, <1>12, <1>13, <1>14, <1>15,
           <1>16, <1>17 DEF Kind

LEMMA MsgStep ==
  ASSUME RunInv, FailInv, Kind
  PROVE  MsgOK' /\ RootFree'
<1> USE DEF RunInv, IInv, FailInv
<1>0. NoMsg \notin TaskId /\ nextTask \in Int /\ \A t \in tasks : t < nextTask
  BY ConstantsAssumption DEF NoMsg, TaskId, Typed, Control, RecOK
<1>1. MsgOK'
  <2>1. CASE Stands
    <3>1. current \in tasks
      BY <2>1, UserFacts DEF Stands
    <3> QED BY <1>0, <2>1, <3>1 DEF Stands, Panics, MsgOK
  <2>2. CASE Pauses \/ Forgets \/ Looks \/ Blocks \/ Picks(Head(runQueue)) \/ Idles
    BY <2>2 DEF Pauses, Forgets, Looks, Blocks, Picks, Idles, MsgOK
  <2>3. CASE Resets
    <3>1. unwinding' \subseteq {ROOT}
      BY <2>3 DEF Resets, OpenTasks, Unwinders, Finished, FinishedStates
    <3> QED BY <3>1 DEF MsgOK
  <2>4. CASE Switches
    BY <1>0, <2>4 DEF Switches, Delivers, MsgOK
  <2>5. CASE Notifies \/ Finishes(fin.id) \/ (\E u \in tasks : Rouses(u))
             \/ (\E j \in TaskId : Unlists(j)) \/ (\E c \in TaskId : Requests(c))
    BY <2>5 DEF Notifies, Finishes, Rouses, Wakes, Unlists, Requests, MsgOK
  <2>6. ASSUME NEW t \in tasks, Ends(t) PROVE MsgOK'
    BY <1>0, <2>6 DEF Ends, MsgOK
  <2>7. ASSUME NEW s \in scopes, Births(s) PROVE MsgOK'
    <3>1. nextTask' = nextTask + 1 /\ panicMsg' = panicMsg /\ unwinding' = unwinding
      BY <2>7 DEF Births
    <3>2. panicMsg \in TaskId => panicMsg \in Int
      BY ConstantsAssumption DEF TaskId
    <3> QED BY <1>0, <3>1, <3>2 DEF MsgOK
  <2> QED BY <2>1, <2>2, <2>3, <2>4, <2>5, <2>6, <2>7 DEF Kind
<1>2. RootFree'
  <2>0. ROOT \in tasks
    BY DEF Control, RecOK
  <2>1. CASE Stands \/ Forgets \/ Looks \/ Blocks \/ Switches \/ Picks(Head(runQueue)) \/ Idles \/ Resets
    BY <2>0, <2>1 DEF Stands, Forgets, Looks, Blocks, Switches, Picks, Idles, Resets, Alike, Rest,
                      Only, RootFree, Control, RecOK, Finished, FinishedStates
  <2>2. CASE Pauses
    BY <2>2 DEF Pauses, Grown, Rest, RootFree, Control, RecOK
  <2>3. CASE Notifies
    <3>1. CASE Wakes(Owner)
      BY <3>1 DEF Wakes, Only, Rest, RootFree, Control, RecOK
    <3>2. CASE rec' = rec
      BY <3>2 DEF RootFree
    <3> QED BY <2>3, <3>1, <3>2 DEF Notifies
  <2>4. CASE Finishes(fin.id)
    BY <2>4 DEF Finishes, RootFree, Control, RecOK, Finished, FinishedStates
  <2>5. ASSUME NEW u \in tasks, Rouses(u) PROVE RootFree'
    BY <2>5 DEF Rouses, Wakes, Only, Rest, RootFree, Control, RecOK
  <2>6. ASSUME NEW j \in TaskId, Unlists(j) PROVE RootFree'
    <3>1. ROOT \in tasks /\ fin.id # ROOT
      BY <2>6, FinFacts DEF Control, RecOK, Unlists
    <3> QED BY <2>6, <3>1 DEF Unlists, Rest, RootFree
  <2>7. ASSUME NEW c \in TaskId, Requests(c) PROVE RootFree'
    BY <2>7 DEF Requests, Cancellable, Marks, Only, RootFree, Control, RecOK
  <2>8. ASSUME NEW t \in tasks, Ends(t) PROVE RootFree'
    BY <2>8 DEF Ends, RootFree, Control, RecOK
  <2>9. ASSUME NEW s \in scopes, Births(s) PROVE RootFree'
    BY <2>9 DEF Births, RootFree, Control, RecOK
  <2> QED BY <2>1, <2>2, <2>3, <2>4, <2>5, <2>6, <2>7, <2>8, <2>9 DEF Kind
<1> QED BY <1>1, <1>2

LEMMA FailInvariance == Spec => [](RunInv /\ FailInv)
<1>1. Init => FailInv
  <2> SUFFICES ASSUME Init PROVE FailInv
    OBVIOUS
  <2>1. unwinding = {} /\ scopes = {} /\ rec[ROOT].cancel = "None"
    BY RootIsTask DEF Init, BlankRec, RootRec, FreshRec
  <2> QED BY <2>1 DEF FailInv, Failing, Unwinders, MsgOK, RootFree
<1>2. RunInv /\ FailInv /\ [Next]_vars => FailInv'
  <2> SUFFICES ASSUME RunInv, FailInv, [Next]_vars PROVE FailInv'
    OBVIOUS
  <2>1. Kind
    BY RunStep
  <2>2. Failing' /\ Unwinders' /\ MsgOK' /\ RootFree'
    BY <2>1, FailingStep, UnwindersStep, MsgStep
  <2> QED BY <2>2 DEF FailInv
<1> QED BY <1>1, <1>2, RunInvariance, PTL DEF Spec

\* A panic fails the whole scope: once task_end has returned, every child
\* spawned before the one that failed it has been cancelled or has ended,
\* whatever else was going on.
THEOREM FailureReachesSiblings == Spec => []FailureCancels
<1>1. RunInv /\ FailInv => FailureCancels
  <2> SUFFICES ASSUME RunInv, FailInv, Settled, at # "end",
                      NEW s \in scopes, sc[s].failed \in Children(s),
                      NEW c \in Children(s), c < sc[s].failed
               PROVE  Finished(c) \/ rec[c].state = "Ending" \/ rec[c].cancel # "None"
    BY DEF FailureCancels
  <2>1. sc[s].failed \in TaskId
    BY DEF Children, RunInv, IInv, Typed
  <2>2. Stopped(c)
    BY <2>1 DEF FailInv, Failing
  <2> QED BY <2>2 DEF Stopped, Settled, NoFin
<1> QED BY <1>1, FailInvariance, PTL

\* Only task_request_cancel and the switch to a task move its cancel forward.
LEMMA CancelKept ==
  ASSUME RunInv, FailInv, Kind, NEW t \in tasks, t \in tasks'
  PROVE  CancelStep(t)
<1> USE DEF RunInv, IInv, FailInv
<1>1. ASSUME rec'[t].cancel = rec[t].cancel PROVE CancelStep(t)
  BY <1>1 DEF CancelStep
<1>2. CASE Stands \/ Forgets \/ Looks \/ Blocks \/ Idles
  BY <1>1, <1>2 DEF Stands, Forgets, Looks, Blocks, Idles, Alike, Rest, Only
<1>3. CASE Pauses
  BY <1>1, <1>3 DEF Pauses, Grown, Rest
<1>4. CASE Resets
  BY <1>1, <1>4 DEF Resets, RootFree
<1>5. CASE Switches
  <2>1. CASE rec'[t].cancel = rec[t].cancel
    BY <1>1, <2>1
  <2>2. CASE t = subj /\ Delivers
    <3>1. /\ rec[t].cancel = "Requested" /\ rec[t].shield = 0 /\ rec'[t].cancel = "Unwinding"
          /\ OwnedChildrenFinished(t)
      BY <2>2 DEF Delivers, Deliverable
    <3>2. \A s \in ScopesOwnedBy(t) : Open(s) = {}
      BY <3>1, OpenSets DEF OwnedChildrenFinished, ScopesOwnedBy
    <3>3. \A k \in ChildrenOwnedBy(t) : Finished(k)
      BY <3>2 DEF ChildrenOwnedBy, Open
    <3> QED BY <3>1, <3>3 DEF CancelStep
  <2> QED BY <1>5, <2>1, <2>2 DEF Switches, Only
<1>6. CASE Picks(Head(runQueue))
  BY <1>1, <1>6 DEF Picks, Only, Rest
<1>7. CASE Notifies
  <2>1. CASE Wakes(Owner)
    BY <1>1, <2>1 DEF Wakes, Only, Rest
  <2>2. CASE rec' = rec
    BY <1>1, <2>2
  <2> QED BY <1>7, <2>1, <2>2 DEF Notifies
<1>8. CASE Finishes(fin.id)
  BY <1>1, <1>8 DEF Finishes
<1>9. ASSUME NEW u \in tasks, Rouses(u) PROVE CancelStep(t)
  BY <1>1, <1>9 DEF Rouses, Wakes, Only, Rest
<1>10. ASSUME NEW j \in TaskId, Unlists(j) PROVE CancelStep(t)
  BY <1>1, <1>10 DEF Unlists, Rest
<1>11. ASSUME NEW c \in TaskId, Requests(c) PROVE CancelStep(t)
  <2>1. CASE rec'[t] = rec[t]
    BY <1>1, <2>1
  <2>2. CASE t = c /\ rec[t].cancel = "None" /\ rec'[t].cancel = "Requested"
    BY <2>2 DEF CancelStep
  <2> QED BY <1>11, <2>1, <2>2 DEF Requests, Cancellable, Marks, Only
<1>12. ASSUME NEW u \in tasks, Ends(u) PROVE CancelStep(t)
  BY <1>1, <1>12 DEF Ends
<1>13. ASSUME NEW s \in scopes, Births(s) PROVE CancelStep(t)
  BY <1>1, <1>13 DEF Births
<1> QED BY <1>2, <1>3, <1>4, <1>5, <1>6, <1>7, <1>8, <1>9, <1>10, <1>11, <1>12, <1>13 DEF Kind

\* Cancellation moves forward only, and no task starts to unwind inside a
\* shield or while a task of a scope it opened still runs.
THEOREM CancellationIsOrdered == Spec => CancelOrder
<1>1. RunInv /\ FailInv /\ [Next]_vars => [\A t \in tasks \cap tasks' : CancelStep(t)]_vars
  <2> SUFFICES ASSUME RunInv, FailInv, [Next]_vars PROVE \A t \in tasks \cap tasks' : CancelStep(t)
    OBVIOUS
  <2>1. Kind
    BY RunStep
  <2> QED BY <2>1, CancelKept
<1> QED BY <1>1, FailInvariance, PTL DEF Spec, CancelOrder

-----------------------------------------------------------------------------
(* Panics.  A task that raised one runs its pads without a break, with its   *)
(* message in the machine, until task_end writes it to its record.  A cleanup *)
(* that suspends breaks this: the next task_cancel_unwind clears the message. *)
DeferRunsThrough ==
    "suspendingDefer" \notin Ops /\ ("defer" \notin Ops \/ "shield" \notin Ops)
\* What such programs ensure and others may: the step suspends no task that panicked.
PadsRunOn ==
    \A t \in raised \cap (tasks \ {ROOT}) :
      rec[t].state = "Running" => rec'[t].state \notin {"Ready", "Blocked"}
Raised == \A t \in raised : t < nextTask
FinEnds == fin.step = "state" /\ rec[fin.id].state = "Ending" => fin.state = rec[fin.id].ending
Unended(t) == rec[t].state \notin FinishedStates \cup {"Ending"}
Reports(t) ==
    /\ Finished(t) => rec[t].state = "Failed" /\ rec[t].panic = t
    /\ rec[t].state = "Ending" => rec[t].ending = "Failed" /\ rec[t].panic = t
    /\ Unended(t) => t = current /\ at \in {"user", "notify"} /\ t \in unwinding /\ panicMsg = t
Reporting == \A t \in raised : t \in tasks \ {ROOT} => Reports(t)
PanicInv == Raised /\ FinEnds /\ Reporting

LEMMA RaisedStep ==
  ASSUME RunInv, FailInv, PanicInv, Kind
  PROVE  Raised' /\ FinEnds'
<1> USE DEF RunInv, IInv, FailInv, PanicInv
<1>0. nextTask \in Int /\ \A t \in tasks : t < nextTask
  BY DEF Typed, Control, RecOK
<1>1. Raised'
  <2>1. CASE Stands
    <3>1. current \in tasks
      BY <2>1, UserFacts DEF Stands
    <3> QED BY <1>0, <2>1, <3>1 DEF Stands, Panics, Raised
  <2>2. CASE Pauses \/ Forgets \/ Looks \/ Blocks \/ Switches \/ Picks(Head(runQueue)) \/ Idles \/ Resets
    BY <2>2 DEF Pauses, Forgets, Looks, Blocks, Switches, Picks, Idles, Resets, Raised
  <2>3. CASE Notifies \/ Finishes(fin.id) \/ (\E u \in tasks : Rouses(u))
             \/ (\E j \in TaskId : Unlists(j)) \/ (\E c \in TaskId : Requests(c))
    BY <2>3 DEF Notifies, Finishes, Rouses, Wakes, Unlists, Requests, Raised
  <2>4. ASSUME NEW t \in tasks, Ends(t) PROVE Raised'
    BY <1>0, <2>4 DEF Ends, Returns, Unwinds, Overflows, Raised
  <2>5. ASSUME NEW s \in scopes, Births(s) PROVE Raised'
    <3>1. nextTask' = nextTask + 1 /\ raised' = raised
      BY <2>5 DEF Births
    <3>2. \A t \in raised : t \in Int
      BY ConstantsAssumption DEF TaskId, Typed
    <3> QED BY <1>0, <3>1, <3>2 DEF Raised
  <2> QED BY <2>1, <2>2, <2>3, <2>4, <2>5 DEF Kind
<1>2. FinEnds'
  <2>1. NoFin.step = "none"
    BY DEF NoFin
  <2>2. CASE Stands \/ Pauses \/ Forgets \/ Resets \/ Blocks \/ Switches \/ Picks(Head(runQueue))
             \/ (\E t \in tasks : Ends(t)) \/ (\E s \in scopes : Births(s)) \/ Finishes(fin.id)
             \/ (\E j \in TaskId : Unlists(j))
    <3>1. fin'.step # "state"
      BY <2>1, <2>2 DEF Stands, Pauses, Forgets, Resets, Blocks, Switches, Picks, Ends, Births,
                        Finishes, Unlists, Settled
    <3> QED BY <3>1 DEF FinEnds
  <2>3. CASE Idles
    BY <2>3 DEF Idles, FinEnds
  <2>4. CASE Looks
    <3>1. CASE EndsNow(subj)
      <4>1. fin'.id = subj /\ fin'.state = rec[subj].ending /\ rec' = rec
        BY <2>4, <3>1 DEF Looks, Finalize
      <4> QED BY <4>1 DEF FinEnds
    <3>2. CASE ~EndsNow(subj)
      BY <2>1, <2>4, <3>2 DEF Looks, FinEnds
    <3> QED BY <3>1, <3>2
  <2>5. CASE Notifies
    <3>1. CASE fin' = NoFin
      BY <2>1, <3>1 DEF FinEnds
    <3>2. CASE fin' = Finalize(Owner, rec[Owner].ending) /\ rec' = rec
      <4>1. fin'.id = Owner /\ fin'.state = rec[Owner].ending
        BY <3>2 DEF Finalize
      <4> QED BY <3>2, <4>1 DEF FinEnds
    <3> QED BY <2>5, <3>1, <3>2 DEF Notifies
  <2>6. ASSUME NEW u \in tasks, Rouses(u) PROVE FinEnds'
    <3>1. fin' = fin /\ (\A t \in tasks \ {u} : rec'[t] = rec[t]) /\ rec'[u].state = "Ready"
      BY <2>6 DEF Rouses, Wakes, Only
    <3>2. fin.step = "state" => fin.id \in tasks
      BY DEF Control, FinOK, NoFin
    <3> QED BY <3>1, <3>2 DEF FinEnds
  <2>7. ASSUME NEW c \in TaskId, Requests(c) PROVE FinEnds'
    <3>1. CASE fin' = fin
      BY <2>1, <2>7, <3>1 DEF Requests, FinEnds
    <3>2. CASE Cancellable(c) /\ rec' = rec /\ fin' = Finalize(c, "Dropped")
      <4>1. fin'.id = c /\ rec'[c].state # "Ending"
        BY <3>2 DEF Finalize, Cancellable
      <4> QED BY <4>1 DEF FinEnds
    <3> QED BY <2>7, <3>1, <3>2 DEF Requests
  <2> QED BY <2>2, <2>3, <2>4, <2>5, <2>6, <2>7 DEF Kind
<1> QED BY <1>1, <1>2

\* A record that keeps its end, and its machine, keep what a panic is owed.
EndKept(t) ==
    /\ rec'[t].panic = rec[t].panic /\ rec'[t].ending = rec[t].ending
    /\ \/ rec'[t].state = rec[t].state
       \/ Unended(t) /\ rec'[t].state \in {"Ready", "Running", "Blocked"}
LEMMA ReportKept ==
  ASSUME NEW t, Reports(t), EndKept(t),
         Unended(t) => /\ UNCHANGED <<current, panicMsg>> /\ t \in unwinding'
                       /\ at' \in {"user", "notify"}
  PROVE  Reports(t)'
<1>1. \A st \in {"Ready", "Running", "Blocked"} : st \notin FinishedStates \cup {"Ending"}
  BY DEF FinishedStates
<1>2. CASE Unended(t)
  <2>1. Unended(t)'
    BY <1>1, <1>2 DEF EndKept, Unended
  <2>2. t = current' /\ at' \in {"user", "notify"} /\ t \in unwinding' /\ panicMsg' = t
    BY <1>2 DEF Reports
  <2> QED BY <2>1, <2>2 DEF Reports, Unended, Finished
<1>3. CASE ~Unended(t)
  BY <1>3 DEF Reports, EndKept, Unended, Finished
<1> QED BY <1>2, <1>3

LEMMA ReportingUser ==
  ASSUME DeferRunsThrough \/ PadsRunOn, RunInv, FailInv, PanicInv,
         NEW t \in raised', t \in tasks' \ {ROOT}
  PROVE  /\ Stands => Reports(t)'
         /\ Pauses => Reports(t)'
         /\ \A s \in scopes : Births(s) => Reports(t)'
         /\ Forgets => Reports(t)'
         /\ \A u \in tasks : Ends(u) => Reports(t)'
<1> USE DEF RunInv, IInv, FailInv, PanicInv
<1>0. t \in raised /\ t \in tasks => Reports(t)
  BY DEF Reporting
<1>1. ASSUME Stands PROVE Reports(t)'
  <2>1. current \in tasks /\ rec[current].state = "Running" /\ t \in tasks
    BY <1>1, UserFacts DEF Stands
  <2>2. EndKept(t)
    BY <1>1, <2>1 DEF Stands, Alike, Rest, EndKept
  <2>3. CASE UNCHANGED <<panicMsg, unwinding, raised>>
    BY <1>0, <1>1, <2>1, <2>2, <2>3, ReportKept DEF Stands, Reports
  <2>4. CASE Panics /\ t = current
    <3>1. rec'[t].state = "Running"
      BY <1>1, <2>1, <2>4 DEF Stands, Alike
    <3>2. rec'[t].state \notin FinishedStates /\ rec'[t].state # "Ending"
      BY <3>1 DEF FinishedStates
    <3> QED BY <1>1, <2>4, <3>2 DEF Stands, Panics, Reports, Finished
  <2>5. CASE Panics /\ t # current
    <3>1. t \in raised /\ ~Unended(t)
      BY <1>0, <2>1, <2>5 DEF Panics, Reports
    <3> QED BY <1>0, <2>1, <2>2, <3>1, ReportKept
  <2> QED BY <1>1, <2>3, <2>4, <2>5 DEF Stands
<1>2. ASSUME Pauses PROVE Reports(t)'
  <2>1. t \in raised /\ t \in tasks \ {ROOT} /\ Reports(t)
    BY <1>0, <1>2 DEF Pauses
  <2>2. ~Unended(t)
    <3>1. CASE DeferRunsThrough
      <4>1. current \notin unwinding
        BY <1>2, <3>1 DEF Pauses, DeferRunsThrough
      <4> QED BY <2>1, <4>1 DEF Reports
    <3>2. CASE PadsRunOn
      <4>1. rec[current].state = "Running" /\ rec'[current].state \in {"Ready", "Blocked"}
        BY <1>2, UserFacts DEF Pauses
      <4>2. t # current
        BY <2>1, <3>2, <4>1 DEF PadsRunOn
      <4> QED BY <2>1, <4>2 DEF Reports
    <3> QED BY <3>1, <3>2
  <2>3. t # current
    BY <1>2, <2>2, UserFacts DEF Pauses, Unended, FinishedStates
  <2>4. EndKept(t)
    BY <1>2, <2>1, <2>2, <2>3 DEF Pauses, Grown, EndKept
  <2> QED BY <2>1, <2>2, <2>4, ReportKept
<1>3. ASSUME NEW s \in scopes, Births(s) PROVE Reports(t)'
  <2>1. nextTask \in Int /\ t \in raised
    BY <1>3 DEF Births, Typed
  <2>2. t \in tasks /\ Reports(t)
    BY <1>0, <1>3, <2>1 DEF Births, Raised
  <2>3. EndKept(t)
    BY <1>3, <2>2 DEF Births, EndKept
  <2>4. Unended(t) => UNCHANGED <<current, panicMsg>> /\ t \in unwinding' /\ at' \in {"user", "notify"}
    BY <1>3, <2>2 DEF Births, Reports
  <2> QED BY <2>2, <2>3, <2>4, ReportKept
<1>4. ASSUME Forgets PROVE Reports(t)'
  <2>2. t \in tasks /\ Reports(t)
    BY <1>0, <1>4 DEF Forgets
  <2>3. EndKept(t)
    BY <1>4, <2>2 DEF Forgets, EndKept
  <2>4. Unended(t) => UNCHANGED <<current, panicMsg>> /\ t \in unwinding' /\ at' \in {"user", "notify"}
    BY <1>4, <2>2 DEF Forgets, Reports
  <2> QED BY <2>2, <2>3, <2>4, ReportKept
<1>5. ASSUME NEW u \in tasks, Ends(u) PROVE Reports(t)'
  <2>1. t \in tasks /\ rec'[u].state = "Ending" /\ "Ending" \notin FinishedStates
    BY <1>5 DEF Ends, FinishedStates
  <2>2. Unended(u)
    BY <1>5, UserFacts DEF Ends, Control, AtOK, Unended, FinishedStates
  <2>3. CASE t = u
    <3>1. t \in raised => at = "user" /\ t \in unwinding /\ panicMsg = t
      BY <1>0, <1>5, <2>1, <2>2, <2>3 DEF Ends, Reports
    <3>2. NoMsg \notin TaskId /\ t \in TaskId
      <4>1. NoMsg \notin TaskId
        BY ConstantsAssumption DEF NoMsg, TaskId
      <4>2. t \in TaskId
        BY <2>1 DEF Typed
      <4> QED BY <4>1, <4>2
    <3>3. rec'[t].ending = "Failed" /\ rec'[t].panic = t
      <4>1. t \in raised'
        OBVIOUS
      <4>2. CASE Returns(t) \/ Unwinds(t)
        <5>1. t \in raised /\ panicMsg # NoMsg
          BY <3>1, <3>2, <4>1, <4>2 DEF Returns, Unwinds
        <5> QED BY <3>1, <4>2, <5>1 DEF Returns, Unwinds
      <4>3. CASE Overflows(t)
        BY <4>3 DEF Overflows
      <4> QED BY <1>5, <2>3, <4>2, <4>3 DEF Ends
    <3> QED BY <2>1, <2>3, <3>3 DEF Reports, Unended, Finished
  <2>4. CASE t # u
    <3>1. t \in raised /\ Reports(t)
      BY <1>0, <1>5, <2>1, <2>4 DEF Ends, Returns, Unwinds, Overflows
    <3>2. ~Unended(t)
      BY <1>5, <2>4, <3>1 DEF Ends, Reports
    <3>3. EndKept(t)
      BY <1>5, <2>1, <2>4 DEF Ends, EndKept
    <3> QED BY <3>1, <3>2, <3>3, ReportKept
  <2> QED BY <2>3, <2>4
<1> QED BY <1>1, <1>2, <1>3, <1>4, <1>5

LEMMA ReportingLoop ==
  ASSUME RunInv, FailInv, PanicInv, NEW t \in raised', t \in tasks' \ {ROOT}
  PROVE  /\ Finishes(fin.id) => Reports(t)'
         /\ Notifies => Reports(t)'
         /\ \A j \in TaskId : Unlists(j) => Reports(t)'
         /\ \A c \in TaskId : Requests(c) => Reports(t)'
<1> USE DEF RunInv, IInv, FailInv, PanicInv
<1>0. t \in raised /\ t \in tasks => Reports(t)
  BY DEF Reporting
<1>1. ASSUME Finishes(fin.id) PROVE Reports(t)'
  <2>1. PICK f : f = fin.id
    OBVIOUS
  <2>2. /\ f \in tasks \ {ROOT} /\ (rec[f].state = "Ending" \/ ~rec[f].started)
        /\ ~Finished(f) /\ \A u \in tasks' \ {f} : u \in tasks /\ rec'[u] = rec[u]
        /\ rec'[f].state = fin.state /\ fin.state \in FinishedStates
        /\ rec'[f].panic = rec[f].panic /\ fin.step = "state"
        /\ UNCHANGED <<current, at, panicMsg, unwinding, raised>>
    BY <1>1, <2>1 DEF Finishes
  <2>3. t \in tasks /\ t \in raised /\ Reports(t)
    BY <1>0, <2>2
  <2>4. CASE t = f
    <3>1. f \in unwinding => rec[f].started /\ rec[f].state # "Ending"
      BY <2>2 DEF Unwinders
    <3>2. rec[f].state = "Ending"
      BY <2>2, <2>3, <2>4, <3>1 DEF Reports, Unended, Finished
    <3>3. rec'[f].state = "Failed" /\ rec'[f].panic = f
      BY <2>1, <2>2, <2>3, <2>4, <3>2 DEF FinEnds, Reports
    <3> QED BY <2>4, <3>3 DEF Reports, Unended, Finished, FinishedStates
  <2>5. CASE t # f
    <3>1. EndKept(t)
      BY <2>2, <2>5 DEF EndKept
    <3> QED BY <2>2, <2>3, <3>1, ReportKept DEF Reports
  <2> QED BY <2>4, <2>5
<1>2. ASSUME Notifies PROVE Reports(t)'
  <2>1. /\ UNCHANGED <<tasks, current, at, panicMsg, unwinding, raised>>
        /\ Wakes(Owner) \/ rec' = rec
    BY <1>2 DEF Notifies, Wakes
  <2>2. t \in tasks /\ t \in raised /\ Reports(t)
    BY <1>0, <2>1
  <2>3. EndKept(t)
    BY <2>1, <2>2 DEF EndKept, Wakes, Only, Rest, Unended
  <2> QED BY <2>1, <2>2, <2>3, ReportKept DEF Reports
<1>3. ASSUME NEW j \in TaskId, Unlists(j) PROVE Reports(t)'
  <2>1. PICK f : f = fin.id
    OBVIOUS
  <2>2. /\ UNCHANGED <<tasks, current, at, panicMsg, unwinding, raised>>
        /\ \A u \in tasks \ {f, j} : rec'[u] = rec[u]
        /\ rec'[f].state = rec[f].state /\ rec'[f].panic = rec[f].panic
        /\ rec'[f].ending = rec[f].ending
        /\ \/ /\ rec'[j].panic = rec[j].panic /\ rec'[j].ending = rec[j].ending
              /\ rec[j].state = "Blocked" /\ rec'[j].state = "Ready"
           \/ j \in tasks \ {f} => rec'[j] = rec[j]
    BY <1>3, <2>1 DEF Unlists, Rest
  <2>3. t \in tasks /\ t \in raised /\ Reports(t)
    BY <1>0, <2>2
  <2>4. EndKept(t)
    BY <2>2, <2>3 DEF EndKept, Unended, FinishedStates
  <2> QED BY <2>2, <2>3, <2>4, ReportKept DEF Reports
<1>4. ASSUME NEW c \in TaskId, Requests(c) PROVE Reports(t)'
  <2>1. /\ UNCHANGED <<tasks, current, at, panicMsg, unwinding, raised>>
        /\ Marks(c) \/ rec' = rec
    BY <1>4 DEF Requests
  <2>2. t \in tasks /\ t \in raised /\ Reports(t)
    BY <1>0, <2>1
  <2>3. EndKept(t)
    BY <2>1, <2>2 DEF EndKept, Marks, Only, Unended, FinishedStates
  <2> QED BY <2>1, <2>2, <2>3, ReportKept DEF Reports
<1> QED BY <1>1, <1>2, <1>3, <1>4

LEMMA ReportingRun ==
  ASSUME RunInv, FailInv, PanicInv, NEW t \in raised', t \in tasks' \ {ROOT}
  PROVE  /\ Looks \/ Blocks \/ Switches \/ Picks(Head(runQueue)) \/ Idles => Reports(t)'
         /\ \A u \in tasks : Rouses(u) => Reports(t)'
<1> USE DEF RunInv, IInv, FailInv, PanicInv
<1>0. t \in raised /\ t \in tasks => Reports(t)
  BY DEF Reporting
<1>1. ASSUME Looks \/ Blocks \/ Switches \/ Picks(Head(runQueue)) PROVE Reports(t)'
  <2>1. t \in tasks /\ t \in raised /\ at \in {"end", "run", "pick"}
    BY <1>1 DEF Looks, Blocks, Switches, Picks
  <2>2. Reports(t) /\ ~Unended(t)
    BY <1>0, <2>1 DEF Reports
  <2>3. Only(subj) \/ Only(ROOT) \/ rec' = rec
    BY <1>1 DEF Looks, Blocks, Switches, Picks
  <2>4. Blocks \/ Switches => t # subj
    BY <2>2 DEF Blocks, Switches, Control, AtOK, Unended, FinishedStates
  <2>5. EndKept(t)
    BY <1>1, <2>1, <2>4 DEF EndKept, Looks, Blocks, Switches, Picks, Only
  <2> QED BY <2>2, <2>5, ReportKept
<1>2. ASSUME Idles PROVE Reports(t)'
  <2>1. t \in tasks /\ t \in raised /\ Reports(t) /\ EndKept(t)
    BY <1>0, <1>2 DEF Idles, EndKept
  <2> QED BY <1>2, <2>1, ReportKept DEF Idles, Reports
<1>3. ASSUME NEW u \in tasks, Rouses(u) PROVE Reports(t)'
  <2>1. /\ UNCHANGED <<tasks, current, panicMsg, unwinding, raised>> /\ Wakes(u)
        /\ at \in {"user", "notify"} => at' \in {"user", "notify"}
    BY <1>3 DEF Rouses, Wakes
  <2>2. t \in tasks /\ t \in raised /\ Reports(t)
    BY <1>0, <2>1
  <2>3. EndKept(t)
    BY <2>1, <2>2 DEF EndKept, Wakes, Only, Rest, Unended
  <2> QED BY <2>1, <2>2, <2>3, ReportKept DEF Reports
<1> QED BY <1>1, <1>2, <1>3

LEMMA PanicStep ==
  ASSUME DeferRunsThrough \/ PadsRunOn, RunInv, FailInv, PanicInv, [Next]_vars
  PROVE  PanicInv'
<1>1. Kind
  BY RunStep
<1>2. Raised' /\ FinEnds'
  BY <1>1, RaisedStep
<1>3. ASSUME NEW t \in raised', t \in tasks' \ {ROOT} PROVE Reports(t)'
  <2>1. ~Resets
    BY <1>3 DEF Resets
  <2> QED BY <1>1, <1>3, <2>1, ReportingUser, ReportingLoop, ReportingRun DEF Kind
<1>4. Reporting'
  BY <1>3 DEF Reporting
<1> QED BY <1>2, <1>4 DEF PanicInv

LEMMA PanicInit == Init => PanicInv
BY DEF Init, PanicInv, Raised, FinEnds, Reporting, NoFin

LEMMA PanicInvReports == RunInv /\ PanicInv => PanicReported
<1> SUFFICES ASSUME RunInv, PanicInv, NEW t \in tasks, t \in raised, Finished(t)
             PROVE  rec[t].state = "Failed" /\ rec[t].panic = t
  BY DEF PanicReported
<1>1. t # ROOT
  BY DEF RunInv, IInv, Control, RecOK, Finished, FinishedStates
<1> QED BY <1>1 DEF PanicInv, Reporting, Reports

\* In every run of a program in which no task that panicked is suspended, a
\* task that panicked ends as failed, with its own message: task_panic_message is
\* one slot of the machine, and the task that raised the panic is the one that
\* reads it, whatever cancels, shields and other tasks' cleanups do.
THEOREM PanicsAreReported == Spec /\ [][PadsRunOn]_vars => []PanicReported
<1>1. RunInv /\ FailInv /\ PanicInv /\ [Next]_vars /\ [PadsRunOn]_vars => PanicInv'
  <2> SUFFICES ASSUME RunInv, FailInv, PanicInv, [Next]_vars, [PadsRunOn]_vars PROVE PanicInv'
    OBVIOUS
  <2>1. UNCHANGED vars => PadsRunOn
    BY DEF vars, PadsRunOn
  <2> QED BY <2>1, PanicStep
<1> QED BY <1>1, PanicInit, PanicInvReports, FailInvariance, PTL DEF Spec

\* It holds of all runs when no cleanup of the program can suspend.
THEOREM PanicsAreReportedBySimpleCleanups ==
  ASSUME DeferRunsThrough
  PROVE  Spec => []PanicReported
<1>1. RunInv /\ FailInv /\ PanicInv /\ [Next]_vars => PanicInv'
  BY PanicStep
<1> QED BY <1>1, PanicInit, PanicInvReports, FailInvariance, PTL DEF Spec

=============================================================================
