------------------------------ MODULE JobPool ------------------------------
(***************************************************************************)
(* CJobPool and IJob (src/src/engine/shared/jobs.cpp, jobs.h): the worker  *)
(* threads, the queue of jobs under m_Lock, the list of running jobs under *)
(* m_LockRunning, the semaphore between them and the atomic state of every *)
(* job.  Add, Init and Shutdown are called by the main thread, Abort by    *)
(* any thread.                                                             *)
(*                                                                         *)
(* One action is one critical section, one operation on the semaphore or   *)
(* one access to an atomic.                                                *)
(***************************************************************************)
EXTENDS Naturals, Sequences, FiniteSets

CONSTANTS
  Jobs,            \* job objects; each is added at most once
  AbortableJobs,   \* those whose constructor has called Abortable(true)
  Workers,         \* worker threads
  NoJob,           \* nullptr
  MaxInits         \* bound: how often the main thread calls Init

ASSUME JobsAssumption == AbortableJobs \subseteq Jobs /\ NoJob \notin Jobs
ASSUME WorkersAssumption == IsFiniteSet(Workers) /\ Workers # {}
ASSUME InitsAssumption == MaxInits \in Nat

VARIABLES
  jobState,        \* m_State of each job
  queue,           \* the list from m_pFirstJob to m_pLastJob
  running,         \* m_RunningJobs
  semaphore,       \* m_Semaphore
  shutdown,        \* m_Shutdown
  main,            \* what the main thread is doing with the pool
  signals,         \* workers that Shutdown has still to wake up
  worker,          \* worker[w]: where RunLoop is
  job,             \* job[w]: pJob of RunLoop
  \* history variables
  inits,           \* calls of Init
  added,           \* jobs Add has been called with
  accepted,        \* those it has queued
  ran              \* jobs whose Run has returned

vars == <<jobState, queue, running, semaphore, shutdown, main, signals, worker, job,
          inits, added, accepted, ran>>
history == <<inits, added, accepted, ran>>

\* What IJob::Abort leaves of the state s of job j.
Aborted(j, s) == IF j \in AbortableJobs THEN "ABORTED" ELSE s

\* Done
Done(j) == jobState[j] \notin {"QUEUED", "RUNNING"}

Init ==
  /\ jobState = [j \in Jobs |-> "QUEUED"]
  /\ queue = <<>>
  /\ running = {}
  /\ semaphore = 0
  /\ shutdown = TRUE
  /\ main = "off"
  /\ signals = 0
  /\ worker = [w \in Workers |-> "none"]
  /\ job = [w \in Workers |-> NoJob]
  /\ inits = 0
  /\ added = {} /\ accepted = {} /\ ran = {}

-----------------------------------------------------------------------------
(* The main thread.                                                        *)

\* CJobPool::Init
Start ==
  /\ main = "off"
  /\ inits < MaxInits
  /\ shutdown' = FALSE
  /\ semaphore' = 0
  /\ queue' = <<>>
  /\ worker' = [w \in Workers |-> "wait"]
  /\ main' = "idle"
  /\ inits' = inits + 1
  /\ UNCHANGED <<jobState, running, signals, job, added, accepted, ran>>

\* Add, up to the end of its critical section.
Add(j) ==
  /\ main \in {"off", "idle"}
  /\ j \notin added
  /\ added' = added \cup {j}
  /\ \/ /\ shutdown
        /\ jobState' = [jobState EXCEPT ![j] = Aborted(j, @)]
        /\ UNCHANGED <<queue, accepted, main>>
     \/ /\ ~shutdown
        /\ queue' = Append(queue, j)
        /\ accepted' = accepted \cup {j}
        /\ main' = "signal"
        /\ UNCHANGED jobState
  /\ UNCHANGED <<running, semaphore, shutdown, signals, worker, job, inits, ran>>

\* A signal only for the first job of the queue: workers are awake while there are more.
AddSignalIfFirst ==
  /\ main = "signal"
  /\ semaphore' = IF Len(queue) > 1 THEN semaphore ELSE semaphore + 1
  /\ main' = "idle"
  /\ UNCHANGED <<jobState, queue, running, shutdown, signals, worker, job, history>>

\* The rest of Add.
AddSignal ==
  /\ main = "signal"
  /\ semaphore' = semaphore + 1
  /\ main' = "idle"
  /\ UNCHANGED <<jobState, queue, running, shutdown, signals, worker, job, history>>

\* Shutdown, one part of it after the other.
ShutdownBegin ==
  /\ main = "idle"
  /\ shutdown' = TRUE
  /\ main' = "abort queued"
  /\ UNCHANGED <<jobState, queue, running, semaphore, signals, worker, job, history>>

\* The jobs that are not abortable stay in the queue, in their order.
AbortQueued ==
  /\ main = "abort queued"
  /\ jobState' = [j \in Jobs |-> IF \E i \in DOMAIN queue : queue[i] = j
                                 THEN Aborted(j, jobState[j]) ELSE jobState[j]]
  /\ LET kept == {i \in DOMAIN queue : queue[i] \notin AbortableJobs}
     IN  \E index \in [1 .. Cardinality(kept) -> kept] :
           /\ \A m, n \in DOMAIN index : m < n => index[m] < index[n]
           /\ kept = {index[n] : n \in DOMAIN index}
           /\ queue' = [n \in DOMAIN index |-> queue[index[n]]]
  /\ main' = "abort running"
  /\ UNCHANGED <<running, semaphore, shutdown, signals, worker, job, history>>

\* Aborting the running jobs, and one signal for all the workers.
AbortRunningWakeOne ==
  /\ main = "abort running"
  /\ jobState' = [j \in Jobs |-> IF j \in running THEN Aborted(j, jobState[j]) ELSE jobState[j]]
  /\ signals' = 1
  /\ main' = "wake"
  /\ UNCHANGED <<queue, running, semaphore, shutdown, worker, job, history>>

\* The jobs that run are aborted; each worker is going to be signalled.
AbortRunning ==
  /\ main = "abort running"
  /\ jobState' = [j \in Jobs |-> IF j \in running THEN Aborted(j, jobState[j]) ELSE jobState[j]]
  /\ signals' = Cardinality(Workers)
  /\ main' = "wake"
  /\ UNCHANGED <<queue, running, semaphore, shutdown, worker, job, history>>

Wake ==
  /\ main = "wake"
  /\ signals > 0
  /\ semaphore' = semaphore + 1
  /\ signals' = signals - 1
  /\ UNCHANGED <<jobState, queue, running, shutdown, main, worker, job, history>>

Join ==
  /\ main = "wake"
  /\ signals = 0
  /\ \A w \in Workers : worker[w] = "none"
  /\ main' = "off"
  /\ UNCHANGED <<jobState, queue, running, semaphore, shutdown, signals, worker, job, history>>

Shutdown == ShutdownBegin \/ AbortQueued \/ AbortRunning \/ Wake \/ Join

-----------------------------------------------------------------------------
(* Abort, from any thread.                                                 *)

Abort(j) ==
  /\ jobState' = [jobState EXCEPT ![j] = Aborted(j, @)]
  /\ UNCHANGED <<queue, running, semaphore, shutdown, main, signals, worker, job, history>>

-----------------------------------------------------------------------------
(* The worker threads: RunLoop.                                            *)

Goto(w, to) == worker' = [worker EXCEPT ![w] = to]

\* sphore_wait that does not block.
TryWait(w) ==
  /\ worker[w] = "wait"
  /\ Goto(w, "fetch")
  /\ semaphore' = semaphore - 1
  /\ UNCHANGED <<jobState, queue, running, shutdown, main, signals, job, history>>

\* sphore_wait
Wait(w) ==
  /\ worker[w] = "wait"
  /\ Goto(w, "fetch")
  /\ semaphore > 0
  /\ semaphore' = semaphore - 1
  /\ UNCHANGED <<jobState, queue, running, shutdown, main, signals, job, history>>

\* Fetch that leaves the job in the queue.
Peek(w) ==
  /\ worker[w] = "fetch"
  /\ \/ /\ queue # <<>>
        /\ Goto(w, "start")
        /\ job' = [job EXCEPT ![w] = Head(queue)]
     \/ /\ queue = <<>>
        /\ Goto(w, "check")
        /\ UNCHANGED job
  /\ UNCHANGED <<jobState, queue, running, semaphore, shutdown, main, signals, history>>

\* Fetch that looks at m_Shutdown first.
FetchUnlessShutdown(w) ==
  /\ worker[w] = "fetch"
  /\ \/ /\ queue # <<>> /\ ~shutdown
        /\ Goto(w, "start")
        /\ job' = [job EXCEPT ![w] = Head(queue)]
        /\ queue' = Tail(queue)
     \/ /\ queue = <<>> \/ shutdown
        /\ Goto(w, "check")
        /\ UNCHANGED <<job, queue>>
  /\ UNCHANGED <<jobState, running, semaphore, shutdown, main, signals, history>>

\* Fetch the first job of the queue.
Fetch(w) ==
  /\ worker[w] = "fetch"
  /\ \/ /\ queue # <<>>
        /\ Goto(w, "start")
        /\ job' = [job EXCEPT ![w] = Head(queue)]
        /\ queue' = Tail(queue)
     \/ /\ queue = <<>>
        /\ Goto(w, "check")
        /\ UNCHANGED <<job, queue>>
  /\ UNCHANGED <<jobState, running, semaphore, shutdown, main, signals, history>>

\* No job: the thread ends when the pool is shutting down.
Check(w) ==
  /\ worker[w] = "check"
  /\ Goto(w, IF shutdown THEN "none" ELSE "wait")
  /\ UNCHANGED <<jobState, queue, running, semaphore, shutdown, main, signals, job, history>>

\* The job is started unless it has been aborted: compare_exchange from QUEUED to RUNNING.
\* Any other state is a failed assertion (AssertionsHold).
Begin(w) ==
  /\ worker[w] = "start"
  /\ \/ /\ jobState[job[w]] = "QUEUED"
        /\ Goto(w, "remember")
        /\ jobState' = [jobState EXCEPT ![job[w]] = "RUNNING"]
        /\ UNCHANGED job
     \/ /\ jobState[job[w]] = "ABORTED"
        /\ Goto(w, "wait")
        /\ job' = [job EXCEPT ![w] = NoJob]
        /\ UNCHANGED jobState
  /\ UNCHANGED <<queue, running, semaphore, shutdown, main, signals, history>>

\* m_RunningJobs.push_back
Remember(w) ==
  /\ worker[w] = "remember"
  /\ Goto(w, "run")
  /\ running' = running \cup {job[w]}
  /\ UNCHANGED <<jobState, queue, semaphore, shutdown, main, signals, job, history>>

\* Run has returned.
Run(w) ==
  /\ worker[w] = "run"
  /\ Goto(w, "forget")
  /\ ran' = ran \cup {job[w]}
  /\ UNCHANGED <<jobState, queue, running, semaphore, shutdown, main, signals, job,
                 inits, added, accepted>>

\* m_RunningJobs.erase
Forget(w) ==
  /\ worker[w] = "forget"
  /\ Goto(w, "finish")
  /\ running' = running \ {job[w]}
  /\ UNCHANGED <<jobState, queue, semaphore, shutdown, main, signals, job, history>>

\* DONE, whatever has happened to the job meanwhile.
FinishStore(w) ==
  /\ worker[w] = "finish"
  /\ Goto(w, "wait")
  /\ jobState' = [jobState EXCEPT ![job[w]] = "DONE"]
  /\ job' = [job EXCEPT ![w] = NoJob]
  /\ UNCHANGED <<queue, running, semaphore, shutdown, main, signals, history>>

\* DONE unless aborted: compare_exchange from RUNNING to DONE.  Any other state is a failed
\* assertion (AssertionsHold).
Finish(w) ==
  /\ worker[w] = "finish"
  /\ jobState[job[w]] \in {"RUNNING", "ABORTED"}
  /\ Goto(w, "wait")
  /\ jobState' = [jobState EXCEPT ![job[w]] = IF @ = "RUNNING" THEN "DONE" ELSE @]
  /\ job' = [job EXCEPT ![w] = NoJob]
  /\ UNCHANGED <<queue, running, semaphore, shutdown, main, signals, history>>

RunLoop(w) ==
  \/ Wait(w) \/ Fetch(w) \/ Check(w)
  \/ Begin(w) \/ Remember(w) \/ Run(w) \/ Forget(w) \/ Finish(w)

-----------------------------------------------------------------------------

Next ==
  \/ Start
  \/ \E j \in Jobs : Add(j) \/ Abort(j)
  \/ AddSignal
  \/ Shutdown
  \/ \E w \in Workers : RunLoop(w)

Spec == Init /\ [][Next]_vars

\* The threads are scheduled and Run returns: jobs are finite computations and transfers
\* with a timeout.  Nothing obliges the main thread to add jobs, to abort them or to begin
\* a shutdown, but it goes through with what it has begun.
Fairness ==
  /\ WF_vars(AddSignal)
  /\ WF_vars(AbortQueued \/ AbortRunning \/ Wake \/ Join)
  /\ \A w \in Workers : WF_vars(RunLoop(w))

FairSpec == Spec /\ Fairness

-----------------------------------------------------------------------------
(* Properties.                                                             *)

TypeOK ==
  /\ jobState \in [Jobs -> {"QUEUED", "RUNNING", "DONE", "ABORTED"}]
  /\ queue \in Seq(Jobs)
  /\ running \in SUBSET Jobs
  /\ semaphore \in Nat
  /\ shutdown \in BOOLEAN
  /\ main \in {"off", "idle", "signal", "abort queued", "abort running", "wake"}
  /\ signals \in Nat
  /\ worker \in [Workers -> {"none", "wait", "fetch", "check", "start", "remember", "run",
                             "forget", "finish"}]
  /\ job \in [Workers -> Jobs \cup {NoJob}]
  /\ inits \in Nat
  /\ added \in SUBSET Jobs /\ accepted \in SUBSET Jobs /\ ran \in SUBSET Jobs

\* The two dbg_assert_failed of RunLoop are never reached: no job is fetched twice, and
\* nobody but its worker takes a job out of RUNNING, except to abort it.
AssertionsHold ==
  \A w \in Workers :
    /\ worker[w] = "start" => jobState[job[w]] \in {"QUEUED", "ABORTED"}
    /\ worker[w] = "finish" => jobState[job[w]] \in {"RUNNING", "ABORTED"}

\* When Shutdown has returned, every job Add has queued is done or aborted, those that are
\* not abortable have run to their end, and no thread, queued job or running job is left:
\* the pool can be started again.
ShutdownComplete ==
  main = "off" =>
    /\ \A j \in accepted : Done(j)
    /\ \A j \in accepted \ AbortableJobs : jobState[j] = "DONE" /\ j \in ran
    /\ queue = <<>> /\ running = {}
    /\ \A w \in Workers : worker[w] = "none"

\* A job that has been aborted stays so: neither the worker that is about to start it nor
\* the one that has just finished it makes it look like a job with a result.
AbortIsFinal ==
  [][\A j \in Jobs : jobState[j] = "ABORTED" => jobState'[j] = "ABORTED"]_vars

\* Every job that has been queued is eventually done or aborted.
EventuallyDone == \A j \in Jobs : j \in accepted ~> Done(j)

\* Shutdown returns: the main thread does not wait for a worker that sleeps.
ShutdownReturns == main = "abort queued" ~> main = "off"

\* "Shuts down the job pool.  Aborts all abortable jobs." (jobs.h): when Shutdown begins to
\* wait for the workers, each abortable job has been aborted or has run.
ShutdownAborts ==
  main = "wake" => \A j \in accepted \cap AbortableJobs : j \in ran \/ jobState[j] = "ABORTED"
=============================================================================
