------------------------------- MODULE Reactor -----------------------------
(***************************************************************************)
(* The work-stealing thread pool (reactor.rs) under `thread::spawn` and    *)
(* `join` (thread.rs): the injector, the workers' own deques, the queue of *)
(* test cases, the count of jobs in flight, the `sleep` mutex with its     *)
(* condition variable, and the OS threads that run jobs.  A thread that    *)
(* joins helps: it runs queued jobs on its own stack, on top of the job    *)
(* that waits.                                                             *)
(*                                                                         *)
(* A job spawns jobs and joins its own children, in any order.  Every      *)
(* access to an atomic, a queue or the mutex is a step; the peers' deques  *)
(* are scanned in one, since a job pushed behind the scan has its notify   *)
(* still to come.  A queue is taken from at its head; a steal that must be *)
(* retried is a step not taken.                                            *)
(***************************************************************************)
EXTENDS Naturals, Sequences, FiniteSets, FiniteSetsExt, SequencesExt

CONSTANTS Workers,   \* pool threads
          Spares,    \* spare threads help_off_stack may start (MAX_SPARES)
          Root,      \* the thread of the root program, or of the test runner
          MaxJobs    \* bound: jobs submitted

Threads == Workers \cup Spares \cup {Root}
NoThread == "none"

ASSUME ReactorAssumption ==
  /\ IsFiniteSet(Workers) /\ Workers # {} /\ IsFiniteSet(Spares)
  /\ Root \notin Workers \cup Spares /\ Workers \cap Spares = {}
  /\ NoThread \notin Threads
  /\ MaxJobs \in Nat

Program == 0       \* what Root runs at the bottom of its stack: no job

VARIABLES
  runner,    \* Root is the test runner: it submits cases, a program threads
  kind,      \* job -> "thread" or "case", in the order of submission
  parent,    \* job -> the job (or Program) that submitted it
  result,    \* job -> "none", "stored", "taken"
  joined,    \* jobs whose handle was joined
  detached,  \* jobs whose handle was detached
  live,      \* the registry of spawned threads Root waits for at its end
  awaits,    \* job or Program -> the job it joins, or 0
  injector, cases, deque, inflight, shutdown,
  sleep,     \* the thread that holds the mutex
  stack,     \* thread -> the jobs on its stack, the running one last
  pc         \* thread -> its next step

jobvars == <<runner, kind, parent, result, joined, detached, live, awaits>>
queues == <<injector, cases, deque>>
vars == <<jobvars, queues, inflight, shutdown, sleep, stack, pc>>

Init ==
  /\ runner \in BOOLEAN
  /\ kind = <<>> /\ parent = <<>> /\ result = <<>>
  /\ joined = {} /\ detached = {} /\ live = {}
  /\ awaits = [j \in 0..MaxJobs |-> 0]
  /\ injector = <<>> /\ cases = <<>> /\ deque = [w \in Workers |-> <<>>]
  /\ inflight = 0 /\ shutdown = FALSE /\ sleep = NoThread
  /\ stack = [e \in Threads |-> IF e = Root THEN <<Program>> ELSE <<>>]
  /\ pc = [e \in Threads |-> IF e = Root THEN "run" ELSE IF e \in Workers THEN "top" ELSE "off"]

Jobs == 1..Len(kind)
Top(e) == Last(stack[e])
Goto(e, l) == pc' = [pc EXCEPT ![e] = l]
At(e, l) == pc[e] = l
\* the loop a thread goes round when it has nothing to run
Loop(e) == IF stack[e] = <<>> THEN "top" ELSE "join"

(***************************************************************************)
(* Finding a job.  One queue is looked at per step.  A thread that holds   *)
(* the mutex looks again before it waits on the condition variable.        *)
(***************************************************************************)
Run(e, j) ==
  /\ stack' = [stack EXCEPT ![e] = Append(@, j)]
  /\ sleep' = IF sleep = e THEN NoThread ELSE sleep
  /\ Goto(e, "run")
  /\ UNCHANGED <<jobvars, inflight, shutdown>>

Empty(e, next) == Goto(e, next) /\ UNCHANGED <<jobvars, queues, inflight, shutdown, sleep, stack>>

\* nothing found: lock and look again, or wait
Nothing(e) ==
  /\ Goto(e, IF sleep = e THEN "waiting" ELSE "park")
  /\ sleep' = IF sleep = e THEN NoThread ELSE sleep
  /\ UNCHANGED <<jobvars, queues, inflight, shutdown, stack>>

\* find_job looks at the cases, steal_job does not; a worker calls find_job
\* when it is idle and when it waits in a join
FindsCases(e) == e \in Workers

PopLocal(e) ==
  /\ At(e, "local")
  /\ \/ /\ e \in Workers /\ deque[e] # <<>>
        /\ deque' = [deque EXCEPT ![e] = Tail(@)]
        /\ Run(e, Head(deque[e]))
        /\ UNCHANGED <<injector, cases>>
     \/ (e \in Workers => deque[e] = <<>>) /\ Empty(e, "inject")

StealCopies(e) == At(e, "inject") /\ IF injector = <<>> THEN Empty(e, "peers") ELSE Run(e, Head(injector)) /\ UNCHANGED queues  \* mutant

steal_from_injector(e) ==
  /\ At(e, "inject")
  /\ \/ /\ injector # <<>>
        /\ injector' = Tail(injector)
        /\ Run(e, Head(injector))
        /\ UNCHANGED <<cases, deque>>
     \/ injector = <<>> /\ Empty(e, "peers")

steal_from_peers(e) ==
  /\ At(e, "peers")
  /\ \/ \E w \in Workers : /\ deque[w] # <<>>
                           /\ deque' = [deque EXCEPT ![w] = Tail(@)]
                           /\ Run(e, Head(deque[w]))
                           /\ UNCHANGED <<injector, cases>>
     \/ /\ \A w \in Workers : deque[w] = <<>>
        /\ IF FindsCases(e) THEN Empty(e, "cases") ELSE Nothing(e)

steal_case(e) ==
  /\ At(e, "cases")
  /\ \/ /\ cases # <<>>
        /\ cases' = Tail(cases)
        /\ Run(e, Head(cases))
        /\ UNCHANGED <<injector, deque>>
     \/ cases = <<>> /\ Nothing(e)

(***************************************************************************)
(* worker_loop and park_idle_worker                                        *)
(***************************************************************************)
ShutdownUnseen(e) == e \in Workers /\ At(e, "top") /\ Empty(e, IF inflight = 0 THEN "park" ELSE IF shutdown THEN "exited" ELSE "local")  \* mutant

\* One look at both atomics.  The code reads shutdown first: a worker that then
\* finds inflight at zero looks at both again under the lock before it waits.
worker_loop(e) ==
  /\ e \in Workers /\ At(e, "top")
  /\ Empty(e, IF shutdown THEN "exited" ELSE IF inflight = 0 THEN "park" ELSE "local")

ParkAtOnce(e) == /\ stack[e] = <<>> /\ At(e, "park") /\ sleep = NoThread /\ Empty(e, IF shutdown THEN "top" ELSE "waiting")  \* mutant

park_idle_worker(e) ==
  /\ stack[e] = <<>> /\ At(e, "park") /\ sleep = NoThread
  /\ \/ shutdown /\ Empty(e, "top")
     \/ ~shutdown /\ inflight = 0 /\ Empty(e, "waiting")
     \/ /\ ~shutdown /\ inflight > 0 /\ sleep' = e
        /\ Goto(e, "local")
        /\ UNCHANGED <<jobvars, queues, inflight, shutdown, stack>>

(***************************************************************************)
(* join: take the result, else help, else park until a notify              *)
(***************************************************************************)
try_take_result(e) ==
  LET j == Top(e) c == awaits[j]
  IN /\ result[c] = "stored"
     /\ result' = [result EXCEPT ![c] = "taken"]
     /\ awaits' = [awaits EXCEPT ![j] = 0]
     /\ UNCHANGED <<runner, kind, parent, joined, detached, live, queues, inflight, shutdown, sleep, stack>>

wait_join_loop(e) ==
  /\ At(e, "join")
  /\ \/ try_take_result(e) /\ Goto(e, "run")
     \/ result[awaits[Top(e)]] # "stored" /\ Empty(e, "local")

park_join(e) ==
  /\ stack[e] # <<>> /\ At(e, "park") /\ sleep = NoThread
  /\ \/ try_take_result(e) /\ Goto(e, "run")
     \/ /\ result[awaits[Top(e)]] # "stored" /\ sleep' = e
        /\ Goto(e, "local")
        /\ UNCHANGED <<jobvars, queues, inflight, shutdown, stack>>

SpuriousWakeup(e) == At(e, "waiting") /\ Empty(e, Loop(e))

\* under the mutex, so that no thread is between its second look and the wait
notify(e, next) ==
  /\ sleep = NoThread
  /\ pc' = [t \in Threads |-> IF t = e THEN next
                              ELSE IF At(t, "waiting") THEN Loop(t) ELSE pc[t]]

(***************************************************************************)
(* What a running job does.                                                *)
(***************************************************************************)
\* submit, submit_test: count, push, notify

Submit(e, k) ==
  /\ At(e, "run") /\ Len(kind) < MaxJobs
  /\ k = "case" <=> runner /\ Top(e) = Program
  /\ kind' = Append(kind, k)
  /\ parent' = Append(parent, Top(e))
  /\ result' = Append(result, "none")
  /\ inflight' = inflight + 1
  /\ Goto(e, "push")
  /\ UNCHANGED <<runner, joined, detached, live, awaits, queues, shutdown, sleep, stack>>

InHand(e) == Max({j \in Jobs : parent[j] = Top(e)})

try_push_local(e) ==
  LET j == InHand(e)
  IN /\ At(e, "push")
     /\ injector' = IF kind[j] = "thread" /\ e \notin Workers THEN Append(injector, j) ELSE injector
     /\ cases' = IF kind[j] = "case" THEN Append(cases, j) ELSE cases
     /\ deque' = [w \in Workers |-> IF kind[j] = "thread" /\ w = e THEN Append(deque[w], j) ELSE deque[w]]
     /\ Goto(e, "notifySubmit")
     /\ UNCHANGED <<jobvars, inflight, shutdown, sleep, stack>>

NotifySubmit(e) ==
  /\ At(e, "notifySubmit")
  /\ notify(e, IF kind[InHand(e)] = "case" THEN "run" ELSE "register")
  /\ UNCHANGED <<jobvars, queues, inflight, shutdown, sleep, stack>>

register_live_thread(e) ==
  /\ At(e, "register")
  /\ live' = live \cup {InHand(e)}
  /\ Goto(e, "run")
  /\ UNCHANGED <<runner, kind, parent, result, joined, detached, awaits, queues, inflight, shutdown, sleep, stack>>

try_host_join(e) ==
  /\ At(e, "run")
  /\ \E c \in Jobs \ (joined \cup detached) :
       /\ parent[c] = Top(e)
       /\ joined' = joined \cup {c}
       /\ awaits' = [awaits EXCEPT ![Top(e)] = c]
  /\ Goto(e, "join")
  /\ UNCHANGED <<runner, kind, parent, result, detached, live, queues, inflight, shutdown, sleep, stack>>

\* The look at joined and the store to detached are one step.  In the code Root's
\* drain may come between them; it then waits for a job that is detached as
\* well, which ends all the same.
try_host_detach(e) ==
  /\ At(e, "run")
  /\ \E c \in Jobs \ (joined \cup detached) :
       kind[c] = "thread" /\ parent[c] = Top(e) /\ detached' = detached \cup {c}
  /\ UNCHANGED <<runner, kind, parent, result, joined, live, awaits, queues, inflight, shutdown, sleep, stack, pc>>

\* the end of run_job_on_vm: store the result, count down, notify, return
store_result(e) ==
  /\ At(e, "run") /\ Top(e) # Program
  /\ result' = [result EXCEPT ![Top(e)] = "stored"]
  /\ Goto(e, "stored")
  /\ UNCHANGED <<runner, kind, parent, joined, detached, live, awaits, queues, inflight, shutdown, sleep, stack>>

CountDown(e) ==
  /\ At(e, "stored")
  /\ inflight' = inflight - 1
  /\ Goto(e, "notifyDone")
  /\ UNCHANGED <<jobvars, queues, shutdown, sleep, stack>>

NotifyDone(e) ==
  LET below == Front(stack[e])
  IN /\ At(e, "notifyDone")
     /\ notify(e, IF below # <<>> THEN "join" ELSE IF e \in Spares THEN "spare" ELSE "top")
     /\ stack' = [stack EXCEPT ![e] = below]
     /\ UNCHANGED <<jobvars, queues, inflight, shutdown, sleep>>

(***************************************************************************)
(* The end of Root.  A program empties the registry, waiting (and starting *)
(* spare threads) for every thread nobody joined or detached, and stops    *)
(* the pool when nothing is in flight.  The test runner has waited for its *)
(* cases, and stops the pool whatever they left behind.                    *)
(***************************************************************************)
Draining == /\ Top(Root) = Program /\ awaits[Program] = 0
            /\ IF runner THEN At(Root, "run") /\ \A j \in Jobs : parent[j] = Program => j \in joined
                         ELSE pc[Root] \in {"run", "drain"}

\* The look at detached and the swap of joined are one step, as above.
join_undetached_threads ==
  \/ /\ Draining /\ ~runner
     /\ \E j \in live :
          /\ live' = live \ {j}
          /\ LET skip == j \in detached \cup joined
             IN /\ joined' = IF skip THEN joined ELSE joined \cup {j}
                /\ awaits' = [awaits EXCEPT ![Program] = IF skip THEN 0 ELSE j]
     /\ Goto(Root, "drain")
     /\ UNCHANGED <<runner, kind, parent, result, detached, queues, inflight, shutdown, sleep, stack>>
  \/ At(Root, "drain") /\ awaits[Program] # 0 /\ try_take_result(Root) /\ UNCHANGED pc
  \/ Draining /\ (runner \/ live = {}) /\ Empty(Root, "ending")

\* a spare is started by Root's wait, and takes jobs until it finds none; it
\* looks at the queues (steal_job) in one step
help_off_stack(s) ==
  /\ \/ At(s, "spare")
     \/ At(s, "off") /\ At(Root, "drain") /\ awaits[Program] # 0 /\ result[awaits[Program]] # "stored"
  /\ \/ /\ injector # <<>> /\ injector' = Tail(injector)
        /\ stack' = [stack EXCEPT ![s] = <<Head(injector)>>]
        /\ UNCHANGED deque
     \/ \E w \in Workers :
          /\ injector = <<>> /\ deque[w] # <<>>
          /\ deque' = [deque EXCEPT ![w] = Tail(@)]
          /\ stack' = [stack EXCEPT ![s] = <<Head(deque[w])>>]
          /\ UNCHANGED injector
  /\ Goto(s, "run")
  /\ UNCHANGED <<jobvars, cases, inflight, shutdown, sleep>>

SpareEnds(s) ==
  /\ At(s, "spare") /\ injector = <<>> /\ \A w \in Workers : deque[w] = <<>>
  /\ Empty(s, "off")

ShutdownAnyway == At(Root, "ending") /\ shutdown' = TRUE /\ Goto(Root, "notifyDown") /\ UNCHANGED <<jobvars, queues, inflight, sleep, stack>>  \* mutant

Shutdown ==
  /\ At(Root, "ending")
  /\ \/ /\ runner \/ inflight = 0
        /\ shutdown' = TRUE /\ Goto(Root, "notifyDown")
        /\ UNCHANGED <<jobvars, queues, inflight, sleep, stack>>
     \/ ~runner /\ inflight # 0 /\ Empty(Root, "left")

NotifyDown ==
  /\ At(Root, "notifyDown") /\ notify(Root, "stopping")
  /\ UNCHANGED <<jobvars, queues, inflight, shutdown, sleep, stack>>

JoinWorkers ==
  /\ At(Root, "stopping") /\ \A w \in Workers : At(w, "exited")
  /\ Empty(Root, "stopped")

(***************************************************************************)
Step(e) ==
  \/ PopLocal(e) \/ steal_from_injector(e) \/ steal_from_peers(e) \/ steal_case(e)
  \/ worker_loop(e) \/ park_idle_worker(e)
  \/ wait_join_loop(e) \/ park_join(e)
  \/ \E k \in {"thread", "case"} : Submit(e, k)
  \/ try_push_local(e) \/ NotifySubmit(e) \/ register_live_thread(e)
  \/ try_host_join(e) \/ try_host_detach(e)
  \/ store_result(e) \/ CountDown(e) \/ NotifyDone(e)
  \/ e \in Spares /\ (help_off_stack(e) \/ SpareEnds(e))

RootEnds == join_undetached_threads \/ Shutdown \/ NotifyDown \/ JoinWorkers

Done == /\ At(Root, "stopped") \/ (At(Root, "left") /\ \A e \in Threads : pc[e] \in {"waiting", "off", "left"})
        /\ UNCHANGED vars

Next == (\E e \in Threads : Step(e) \/ SpuriousWakeup(e)) \/ RootEnds \/ Done

Spec == Init /\ [][Next]_vars

(***************************************************************************)
(* The OS runs every thread, and                                           *)
(* wakeups without a notify stop at some time: if they went on for ever, a *)
(* thread could take the mutex again and again before the others.          *)
(***************************************************************************)
Fairness ==
  /\ \A e \in Threads \ {Root} : WF_vars(Step(e))
  /\ WF_vars(Step(Root) \/ RootEnds)
  /\ <>[][~\E e \in Threads : SpuriousWakeup(e)]_vars

FairSpec == Spec /\ Fairness
-----------------------------------------------------------------------------
Queued == {injector[i] : i \in DOMAIN injector} \cup {cases[i] : i \in DOMAIN cases}
            \cup UNION {{deque[w][i] : i \in DOMAIN deque[w]} : w \in Workers}
Running == UNION {{stack[e][i] : i \in DOMAIN stack[e]} : e \in Threads}
Carried == {InHand(e) : e \in {t \in Threads : At(t, "push")}}

TypeOK ==
  /\ kind \in Seq({"thread", "case"}) /\ Len(kind) <= MaxJobs
  /\ parent \in [Jobs -> 0..MaxJobs]
  /\ result \in [Jobs -> {"none", "stored", "taken"}]
  /\ joined \subseteq Jobs /\ live \subseteq Jobs /\ detached \subseteq Jobs \ joined
  /\ awaits \in [0..MaxJobs -> 0..MaxJobs]
  /\ Queued \cup (Running \ {Program}) \subseteq Jobs
  /\ inflight \in 0..MaxJobs /\ shutdown \in BOOLEAN
  /\ sleep \in Threads \cup {NoThread}

(***************************************************************************)
(* A job that has not ended is in exactly one place: being submitted, in   *)
(* one queue, or on one stack; one that ended is in none but the stack it  *)
(* is about to leave.  No steal loses a job or runs it twice, and inflight *)
(* counts the jobs that have not ended: the workers' shortcut past the     *)
(* queues and the root's decision to stop the pool read it.                *)
(***************************************************************************)
JobsOnce ==
  /\ TypeOK
  /\ \A j \in Jobs : result[j] = "none" <=>
       j \in (Queued \cup Carried \cup Running) \ {Top(e) : e \in {t \in Threads : pc[t] \in {"stored", "notifyDone"}}}
  /\ Queued \cap Running = {} /\ Queued \cap Carried = {} /\ Running \cap Carried = {}
  /\ inflight = Cardinality({j \in Jobs : result[j] = "none"}) + Cardinality({e \in Threads : At(e, "stored")})

(***************************************************************************)
(* No wakeup is lost: while a thread waits on the condition variable for   *)
(* something that is there (a job it would take, the result it joins, the  *)
(* shutdown), some thread is on its way to a notify.                       *)
(***************************************************************************)
Notifies(e) == pc[e] \in {"notifySubmit", "stored", "notifyDone", "notifyDown"}
NoLostWakeup ==
  \A e \in Threads : At(e, "waiting")
    /\ \/ Queued \ (IF FindsCases(e) THEN {} ELSE {j \in Jobs : kind[j] = "case"}) # {}
       \/ stack[e] = <<>> /\ shutdown
       \/ stack[e] # <<>> /\ result[awaits[Top(e)]] = "stored"
    => \E t \in Threads : Notifies(t)

(***************************************************************************)
(* "join help-steals so fork-join does not deadlock": every job submitted  *)
(* ends, and the root program comes to its end.                            *)
(***************************************************************************)
JobsEnd ==
  \A j \in 1..MaxJobs :
    j \in Jobs /\ (runner => kind[j] = "case") ~> j \in Jobs /\ result[j] # "none"
RootReturns == <>(pc[Root] \in {"stopped", "left"})
=============================================================================
