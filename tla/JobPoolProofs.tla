--------------------------- MODULE JobPoolProofs ---------------------------
(***************************************************************************)
(* Proofs about JobPool, for every number of jobs, workers and restarts:   *)
(* a job belongs to the queue or to one worker, no worker ends while the   *)
(* queue holds a job, and Shutdown leaves nothing behind.                  *)
(***************************************************************************)
EXTENDS JobPool, FiniteSetTheorems, SequenceTheorems, TLAPS

-----------------------------------------------------------------------------
(* The inductive invariant.                                                *)

Queued(j) == \E i \in DOMAIN queue : queue[i] = j
Held(j) == \E w \in Workers : job[w] = j
Holding == {"start", "remember", "run", "forget", "finish"}

\* A job that has been accepted has one place: in the queue or with one worker.
Ownership ==
  /\ accepted \subseteq added
  /\ \A i \in DOMAIN queue : queue[i] \in accepted
  /\ \A i, k \in DOMAIN queue : queue[i] = queue[k] => i = k
  /\ \A w \in Workers : worker[w] \in Holding <=> job[w] # NoJob
  /\ \A w \in Workers : job[w] # NoJob => job[w] \in accepted /\ ~Queued(job[w])
  /\ \A v, w \in Workers : job[v] = job[w] /\ job[v] # NoJob => v = w

\* m_RunningJobs holds the jobs of the workers that are in Run.
Listed ==
  \A j \in Jobs : j \in running <=> \E w \in Workers : job[w] = j /\ worker[w] \in {"run", "forget"}

\* The state of a job goes with its place.
States ==
  /\ \A j \in Jobs \ added : jobState[j] \in {"QUEUED", "ABORTED"}
  /\ \A i \in DOMAIN queue : jobState[queue[i]] \in {"QUEUED", "ABORTED"}
  /\ \A w \in Workers : worker[w] = "start" => jobState[job[w]] \in {"QUEUED", "ABORTED"}
  /\ \A w \in Workers : worker[w] \in Holding \ {"start"}
                          => jobState[job[w]] \in {"RUNNING", "ABORTED"}

\* A job is not lost, and not done before it has run.
Kept ==
  /\ \A j \in accepted : Queued(j) \/ Held(j) \/ Done(j)
  /\ \A w \in Workers : worker[w] \in {"forget", "finish"} => job[w] \in ran
  /\ \A j \in Jobs : jobState[j] = "DONE" => j \in ran
  /\ \A j \in Jobs : jobState[j] = "ABORTED" => j \in AbortableJobs

\* A worker that has found the queue empty has found it so in a shutdown.
Phases ==
  /\ main \in {"idle", "signal"} <=> ~shutdown
  /\ main = "off" => \A w \in Workers : worker[w] = "none"
  /\ \A w \in Workers : worker[w] \in {"check", "none"} => shutdown /\ queue = <<>>

\* Until the shutdown the semaphore lets at most one worker through for each queued job.
Fetching == {w \in Workers : worker[w] = "fetch"}
Unsignalled == IF main = "signal" THEN 1 ELSE 0
Tokens == ~shutdown => semaphore + Cardinality(Fetching) + Unsignalled <= Len(queue)

IInv == TypeOK /\ Ownership /\ Listed /\ States /\ Kept /\ Phases /\ Tokens

-----------------------------------------------------------------------------
(* Each action preserves the invariant.                                    *)

\* The workers that are fetching can be counted.
LEMMA FetchingFinite == IsFiniteSet(Fetching) /\ Cardinality(Fetching) \in Nat
BY WorkersAssumption, FS_Subset, FS_CardinalityType DEF Fetching

\* The queue consists of jobs.
LEMMA QueuedJobs ==
  ASSUME IInv
  PROVE  /\ queue \in Seq(Jobs) /\ Len(queue) \in Nat /\ DOMAIN queue = 1 .. Len(queue)
         /\ \A i \in DOMAIN queue : queue[i] \in Jobs
<1>1. queue \in Seq(Jobs)
  BY DEF IInv, TypeOK
<1> QED
  BY <1>1

\* Init of the pool, whose workers have all ended, preserves the invariant.
LEMMA StartStep ==
  ASSUME IInv, Start
  PROVE  IInv'
<1>1. /\ \A w \in Workers : worker[w] = "none" /\ job[w] = NoJob
      /\ queue = <<>>
      /\ running = {}
  <2>1. \A w \in Workers : worker[w] = "none"
    BY DEF IInv, Phases, Start
  <2>2. \A w \in Workers : job[w] = NoJob
    BY <2>1 DEF IInv, Ownership, Holding
  <2>3. queue = <<>>
    BY <2>1, WorkersAssumption DEF IInv, Phases
  <2>4. running = {}
    BY <2>1 DEF IInv, TypeOK, Listed
  <2> QED
    BY <2>1, <2>2, <2>3, <2>4
<1>2. /\ worker' = [w \in Workers |-> "wait"]
      /\ queue' = <<>> /\ semaphore' = 0 /\ shutdown' = FALSE /\ main = "off" /\ main' = "idle"
      /\ inits' = inits + 1
      /\ UNCHANGED <<jobState, running, signals, job, added, accepted, ran>>
  BY DEF Start
<1>3. TypeOK'
  <2>1. worker' \in [Workers -> {"none", "wait", "fetch", "check", "start", "remember", "run",
                                "forget", "finish"}]
    BY <1>2
  <2>2. queue' \in Seq(Jobs) /\ semaphore' \in Nat /\ inits' \in Nat /\ shutdown' \in BOOLEAN
    <3>1. inits \in Nat /\ <<>> \in Seq(Jobs)
      BY <1>1 DEF IInv, TypeOK
    <3>2. queue' \in Seq(Jobs) /\ semaphore' \in Nat /\ shutdown' \in BOOLEAN
      BY <1>2, <3>1
    <3>3. inits' \in Nat
      BY <1>2, <3>1
    <3> QED
      BY <3>2, <3>3
  <2> QED
    BY <1>2, <2>1, <2>2 DEF IInv, TypeOK
<1>4. \A w \in Workers : worker'[w] = "wait" /\ job'[w] = NoJob
  BY <1>1, <1>2
<1>5. Ownership'
  BY <1>1, <1>2, <1>4 DEF IInv, Ownership, Queued, Holding
<1>6. Listed'
  BY <1>1, <1>2, <1>4 DEF Listed
<1>7. States'
  BY <1>1, <1>2, <1>4 DEF IInv, States, Holding
<1>8. Kept'
  <2>1. \A j \in accepted : ~Queued(j)
    BY <1>1 DEF Queued
  <2>2. \A j \in accepted : ~Held(j)
    BY <1>1, JobsAssumption DEF Held, IInv, TypeOK
  <2>3. \A j \in accepted : Done(j)
    BY <2>1, <2>2 DEF IInv, Kept
  <2>4. \A j \in accepted' : Done(j)'
    BY <1>2, <2>3 DEF Done
  <2> QED
    BY <1>2, <1>4, <2>4 DEF IInv, Kept
<1>9. Phases'
  BY <1>2, <1>4 DEF Phases
<1>10. Tokens'
  <2>1. Fetching' = {}
    BY <1>4 DEF Fetching
  <2>2. Cardinality(Fetching') = 0
    BY <2>1, FS_EmptySet
  <2>3. Unsignalled' = 0 /\ Len(queue') = 0
    BY <1>2 DEF Unsignalled
  <2> QED
    BY <1>2, <2>2, <2>3 DEF Tokens
<1> QED
  BY <1>3, <1>5, <1>6, <1>7, <1>8, <1>9, <1>10 DEF IInv

\* The signal of Add follows the job it stands for.
LEMMA AddSignalStep ==
  ASSUME IInv, AddSignal
  PROVE  IInv'
<1>1. TypeOK'
  BY DEF IInv, TypeOK, AddSignal, history
<1>2. Ownership'
  BY DEF IInv, TypeOK, Ownership, Queued, Holding, AddSignal, history
<1>3. Listed'
  BY DEF IInv, TypeOK, Ownership, Listed, Holding, AddSignal, history
<1>4. States'
  BY DEF IInv, TypeOK, Ownership, States, Holding, AddSignal, history
<1>5. Kept'
  BY DEF IInv, TypeOK, Ownership, States, Kept, Queued, Held, Done, Holding, AddSignal, history
<1>6. Phases'
  BY DEF IInv, TypeOK, Phases, AddSignal, history
<1>7. Tokens'
  <2>1. Fetching' = Fetching /\ shutdown' = shutdown /\ Len(queue') = Len(queue)
    BY DEF AddSignal, Fetching
  <2>2. Cardinality(Fetching) \in Nat
    BY FetchingFinite
  <2>3. semaphore \in Nat /\ semaphore' = semaphore + 1 /\ Unsignalled = 1 /\ Unsignalled' = 0
    BY DEF AddSignal, Unsignalled, IInv, TypeOK
  <2> QED
    BY <2>1, <2>2, <2>3 DEF IInv, Tokens
<1> QED
  BY <1>1, <1>2, <1>3, <1>4, <1>5, <1>6, <1>7 DEF IInv

\* Setting m_Shutdown preserves the invariant.
LEMMA ShutdownBeginStep ==
  ASSUME IInv, ShutdownBegin
  PROVE  IInv'
<1>1. TypeOK'
  BY DEF IInv, TypeOK, ShutdownBegin, history
<1>2. Ownership'
  BY DEF IInv, TypeOK, Ownership, Queued, Holding, ShutdownBegin, history
<1>3. Listed'
  BY DEF IInv, TypeOK, Ownership, Listed, Holding, ShutdownBegin, history
<1>4. States'
  BY DEF IInv, TypeOK, Ownership, States, Holding, ShutdownBegin, history
<1>5. Kept'
  BY DEF IInv, TypeOK, Ownership, States, Kept, Queued, Held, Done, Holding, ShutdownBegin, history
<1>6. Phases'
  BY DEF IInv, TypeOK, Phases, ShutdownBegin, history
<1>7. Tokens'
  BY DEF IInv, TypeOK, Phases, Tokens, Fetching, Unsignalled, ShutdownBegin, history
<1> QED
  BY <1>1, <1>2, <1>3, <1>4, <1>5, <1>6, <1>7 DEF IInv

\* Aborting the jobs of m_RunningJobs preserves the invariant.
LEMMA AbortRunningStep ==
  ASSUME IInv, AbortRunning
  PROVE  IInv'
<1>1. TypeOK'
  <2>1. jobState' \in [Jobs -> {"QUEUED", "RUNNING", "DONE", "ABORTED"}]
    BY DEF AbortRunning, Aborted, IInv, TypeOK
  <2>2. signals' \in Nat
    BY WorkersAssumption, FS_CardinalityType DEF AbortRunning
  <2> QED
    BY <2>1, <2>2 DEF IInv, TypeOK, AbortRunning, history
<1>2. Ownership'
  BY DEF IInv, TypeOK, Ownership, Queued, Holding, AbortRunning, history
<1>3. Listed'
  BY DEF IInv, TypeOK, Ownership, Listed, Holding, AbortRunning, history
<1>4. States'
  BY DEF IInv, TypeOK, Ownership, States, Holding, Aborted, AbortRunning, history
<1>5. Kept'
  BY DEF IInv, TypeOK, Ownership, States, Kept, Queued, Held, Done, Holding, Aborted, AbortRunning, history
<1>6. Phases'
  BY DEF IInv, TypeOK, Phases, AbortRunning, history
<1>7. Tokens'
  BY DEF IInv, TypeOK, Phases, Tokens, Fetching, Unsignalled, AbortRunning, history
<1> QED
  BY <1>1, <1>2, <1>3, <1>4, <1>5, <1>6, <1>7 DEF IInv

\* The signals of Shutdown preserve the invariant.
LEMMA WakeStep ==
  ASSUME IInv, Wake
  PROVE  IInv'
<1>1. TypeOK'
  BY DEF IInv, TypeOK, Wake, history
<1>2. Ownership'
  BY DEF IInv, TypeOK, Ownership, Queued, Holding, Wake, history
<1>3. Listed'
  BY DEF IInv, TypeOK, Ownership, Listed, Holding, Wake, history
<1>4. States'
  BY DEF IInv, TypeOK, Ownership, States, Holding, Wake, history
<1>5. Kept'
  BY DEF IInv, TypeOK, Ownership, States, Kept, Queued, Held, Done, Holding, Wake, history
<1>6. Phases'
  BY DEF IInv, TypeOK, Phases, Wake, history
<1>7. Tokens'
  BY DEF IInv, TypeOK, Phases, Tokens, Fetching, Unsignalled, Wake, history
<1> QED
  BY <1>1, <1>2, <1>3, <1>4, <1>5, <1>6, <1>7 DEF IInv

\* The end of Shutdown preserves the invariant.
LEMMA JoinStep ==
  ASSUME IInv, Join
  PROVE  IInv'
<1>1. TypeOK'
  BY DEF IInv, TypeOK, Join, history
<1>2. Ownership'
  BY DEF IInv, TypeOK, Ownership, Queued, Holding, Join, history
<1>3. Listed'
  BY DEF IInv, TypeOK, Ownership, Listed, Holding, Join, history
<1>4. States'
  BY DEF IInv, TypeOK, Ownership, States, Holding, Join, history
<1>5. Kept'
  BY DEF IInv, TypeOK, Ownership, States, Kept, Queued, Held, Done, Holding, Join, history
<1>6. Phases'
  BY DEF IInv, TypeOK, Phases, Join, history
<1>7. Tokens'
  BY DEF IInv, TypeOK, Phases, Tokens, Fetching, Unsignalled, Join, history
<1> QED
  BY <1>1, <1>2, <1>3, <1>4, <1>5, <1>6, <1>7 DEF IInv

\* Abort, whoever calls it and whenever, preserves the invariant.
LEMMA AbortStep ==
  ASSUME IInv, NEW j \in Jobs, Abort(j)
  PROVE  IInv'
<1>1. TypeOK'
  BY DEF IInv, TypeOK, Aborted, Abort, history
<1>2. Ownership'
  BY DEF IInv, TypeOK, Ownership, Queued, Holding, Abort, history
<1>3. Listed'
  BY DEF IInv, TypeOK, Ownership, Listed, Holding, Abort, history
<1>4. States'
  BY DEF IInv, TypeOK, Ownership, States, Holding, Aborted, Abort, history
<1>5. Kept'
  BY DEF IInv, TypeOK, Ownership, States, Kept, Queued, Held, Done, Holding, Aborted, Abort, history
<1>6. Phases'
  BY DEF IInv, TypeOK, Phases, Abort, history
<1>7. Tokens'
  BY DEF IInv, TypeOK, Phases, Tokens, Fetching, Unsignalled, Abort, history
<1> QED
  BY <1>1, <1>2, <1>3, <1>4, <1>5, <1>6, <1>7 DEF IInv

\* A worker passes the semaphore for one of the queued jobs.
LEMMA WaitStep ==
  ASSUME IInv, NEW w \in Workers, Wait(w)
  PROVE  IInv'
<1>1. TypeOK'
  <2>1. worker' \in [Workers -> {"none", "wait", "fetch", "check", "start", "remember", "run",
                                "forget", "finish"}]
    BY DEF Wait, Goto, IInv, TypeOK
  <2>2. semaphore' \in Nat
    <3>1. semaphore \in Nat /\ semaphore > 0 /\ semaphore' = semaphore - 1
      BY DEF Wait, IInv, TypeOK
    <3> QED
      BY <3>1
  <2> QED
    BY <2>1, <2>2 DEF IInv, TypeOK, Wait, history
<1>2. Ownership'
  BY DEF IInv, TypeOK, Ownership, Queued, Holding, Wait, Goto, history
<1>3. Listed'
  BY ZenonT(40) DEF IInv, TypeOK, Ownership, Listed, Holding, Wait, Goto, history
<1>4. States'
  BY DEF IInv, TypeOK, Ownership, States, Holding, Wait, Goto, history
<1>5. Kept'
  BY DEF IInv, TypeOK, Ownership, States, Kept, Queued, Held, Done, Holding, Wait, Goto, history
<1>6. Phases'
  BY DEF IInv, TypeOK, Phases, Wait, Goto, history
<1>7. Tokens'
  <2>1. Fetching' = Fetching \cup {w} /\ w \notin Fetching
    BY DEF Wait, Goto, Fetching, IInv, TypeOK
  <2>2. Cardinality(Fetching) \in Nat /\ Cardinality(Fetching') = Cardinality(Fetching) + 1
    BY <2>1, FetchingFinite, FS_AddElement
  <2>3. /\ semaphore \in Nat /\ semaphore' = semaphore - 1 /\ semaphore > 0
        /\ Unsignalled' = Unsignalled /\ Unsignalled \in {0, 1}
        /\ shutdown' = shutdown /\ Len(queue') = Len(queue)
    BY DEF Wait, Unsignalled, IInv, TypeOK
  <2> QED
    BY <2>2, <2>3 DEF IInv, Tokens
<1> QED
  BY <1>1, <1>2, <1>3, <1>4, <1>5, <1>6, <1>7 DEF IInv

\* A worker ends only in a shutdown.
LEMMA CheckStep ==
  ASSUME IInv, NEW w \in Workers, Check(w)
  PROVE  IInv'
<1>1. TypeOK'
  BY DEF IInv, TypeOK, Check, Goto, history
<1>2. Ownership'
  BY DEF IInv, TypeOK, Ownership, Queued, Holding, Check, Goto, history
<1>3. Listed'
  BY ZenonT(40) DEF IInv, TypeOK, Ownership, Listed, Holding, Check, Goto, history
<1>4. States'
  BY DEF IInv, TypeOK, Ownership, States, Holding, Check, Goto, history
<1>5. Kept'
  BY DEF IInv, TypeOK, Ownership, States, Kept, Queued, Held, Done, Holding, Check, Goto, history
<1>6. Phases'
  BY DEF IInv, TypeOK, Phases, Check, Goto, history
<1>7. Tokens'
  BY DEF IInv, TypeOK, Phases, Tokens, Fetching, Unsignalled, Check, Goto, history
<1> QED
  BY <1>1, <1>2, <1>3, <1>4, <1>5, <1>6, <1>7 DEF IInv

\* Starting a job, or dropping an aborted one, preserves the invariant.
LEMMA BeginStep ==
  ASSUME IInv, NEW w \in Workers, Begin(w)
  PROVE  IInv'
<1> PICK j \in Jobs : j = job[w]
  BY DEF Begin, IInv, TypeOK, Ownership, Holding
<1>1. /\ worker[w] = "start" /\ job[w] = j /\ j \in accepted /\ j \in added /\ j \in Jobs /\ ~Queued(j)
      /\ \A v \in Workers : v # w => job[v] # j
  BY DEF Begin, IInv, TypeOK, Ownership, Holding
<1>2. /\ \A v \in Workers : v # w => worker'[v] = worker[v] /\ job'[v] = job[v]
      /\ Fetching' = Fetching
      /\ UNCHANGED <<queue, running, semaphore, shutdown, main, signals, history>>
  BY DEF Begin, Goto, Fetching, IInv, TypeOK
<1>3. CASE jobState[j] = "QUEUED"
  <2>1. /\ worker' = [worker EXCEPT ![w] = "remember"] /\ job' = job
        /\ jobState' = [jobState EXCEPT ![j] = "RUNNING"]
    BY <1>3 DEF Begin, Goto
  <2>2. TypeOK'
    BY <1>2, <2>1 DEF IInv, TypeOK, history
  <2>3. Ownership'
    BY <1>1, <1>2, <2>1 DEF IInv, TypeOK, Ownership, Queued, Holding, history
  <2>4. Listed'
    <3>1. \A v \in Workers : /\ worker'[v] \in {"run", "forget"} <=> worker[v] \in {"run", "forget"}
                             /\ job'[v] = job[v]
      BY <1>1, <1>2, <2>1 DEF IInv, TypeOK
    <3> QED
      BY <1>2, <3>1 DEF IInv, Listed
  <2>5. States'
    <3>1. \A k \in Jobs \ {j} : jobState'[k] = jobState[k]
      BY <2>1 DEF IInv, TypeOK
    <3>2. jobState'[j] = "RUNNING"
      BY <1>1, <2>1 DEF IInv, TypeOK
    <3>3. \A k \in Jobs \ added' : jobState'[k] \in {"QUEUED", "ABORTED"}
      BY <1>1, <1>2, <3>1 DEF IInv, States, history
    <3>4. \A i \in DOMAIN queue' : jobState'[queue'[i]] \in {"QUEUED", "ABORTED"}
      <4>1. \A i \in DOMAIN queue : queue[i] \in Jobs \ {j}
        <5>1. \A i \in DOMAIN queue : queue[i] \in Jobs
          BY QueuedJobs
        <5>2. \A i \in DOMAIN queue : queue[i] # j
          BY <1>1 DEF Queued
        <5> QED
          BY <5>1, <5>2
      <4> QED
        BY <1>2, <3>1, <4>1 DEF IInv, States
    <3>5. \A v \in Workers \ {w} : worker'[v] \in Holding => job[v] \in Jobs \ {j}
      BY <1>1, <1>2 DEF IInv, TypeOK, Ownership
    <3>6. \A v \in Workers \ {w} :
            /\ worker'[v] = "start" => jobState'[job'[v]] \in {"QUEUED", "ABORTED"}
            /\ worker'[v] \in Holding \ {"start"} => jobState'[job'[v]] \in {"RUNNING", "ABORTED"}
      BY <1>2, <3>1, <3>5 DEF IInv, States, Holding
    <3>7. worker'[w] = "remember" /\ job'[w] = j
      BY <2>1 DEF IInv, TypeOK
    <3> QED
      BY <3>2, <3>3, <3>4, <3>6, <3>7 DEF States
  <2>6. Kept'
    BY <1>1, <1>2, <2>1 DEF IInv, TypeOK, Kept, Queued, Held, Done, history
  <2>7. Phases' /\ Tokens'
    BY <1>1, <1>2, <2>1 DEF IInv, TypeOK, Phases, Tokens, Unsignalled
  <2> QED
    BY <2>2, <2>3, <2>4, <2>5, <2>6, <2>7 DEF IInv
<1>4. CASE jobState[j] = "ABORTED"
  <2>1. /\ worker' = [worker EXCEPT ![w] = "wait"] /\ job' = [job EXCEPT ![w] = NoJob]
        /\ jobState' = jobState
    BY <1>4 DEF Begin, Goto
  <2>2. TypeOK'
    BY <1>2, <2>1 DEF IInv, TypeOK, history
  <2>3. Ownership'
    BY ZenonT(40), <1>1, <1>2, <2>1 DEF IInv, TypeOK, Ownership, Queued, Holding, history
  <2>4. Listed'
    <3>1. \A v \in Workers : /\ worker'[v] \in {"run", "forget"} <=> worker[v] \in {"run", "forget"}
                             /\ worker[v] \in {"run", "forget"} => job'[v] = job[v]
      BY <1>1, <1>2, <2>1 DEF IInv, TypeOK
    <3> QED
      BY <1>2, <3>1 DEF IInv, Listed
  <2>5. States'
    BY <1>1, <1>2, <2>1 DEF IInv, TypeOK, States, Holding, history
  <2>6. Kept'
    <3>1. Done(j)' /\ \A k \in accepted : (Done(k)' <=> Done(k))
      BY <1>4, <2>1 DEF Done
    <3>2. \A k \in accepted \ {j} : Held(k) => Held(k)'
      BY <1>2 DEF Held
    <3> QED
      BY <1>1, <1>2, <2>1, <3>1, <3>2 DEF IInv, TypeOK, Kept, Queued, history
  <2>7. Phases' /\ Tokens'
    BY <1>1, <1>2, <2>1 DEF IInv, TypeOK, Phases, Tokens, Unsignalled
  <2> QED
    BY <2>2, <2>3, <2>4, <2>5, <2>6, <2>7 DEF IInv
<1> QED
  BY <1>3, <1>4 DEF Begin

\* Putting the job into m_RunningJobs preserves the invariant.
LEMMA RememberStep ==
  ASSUME IInv, NEW w \in Workers, Remember(w)
  PROVE  IInv'
<1>1. TypeOK'
  <2>1. worker' \in [Workers -> {"none", "wait", "fetch", "check", "start", "remember", "run",
                                "forget", "finish"}]
    BY DEF Remember, Goto, IInv, TypeOK
  <2>2. running' \in SUBSET Jobs
    BY JobsAssumption DEF Remember, IInv, TypeOK, Ownership, Holding
  <2> QED
    BY <2>1, <2>2 DEF IInv, TypeOK, Remember, history
<1>2. Ownership'
  BY DEF IInv, TypeOK, Ownership, Queued, Holding, Remember, Goto, history
<1>3. Listed'
  BY ZenonT(40) DEF IInv, TypeOK, Ownership, Listed, Holding, Remember, Goto, history
<1>4. States'
  BY DEF IInv, TypeOK, Ownership, States, Holding, Remember, Goto, history
<1>5. Kept'
  BY DEF IInv, TypeOK, Ownership, States, Kept, Queued, Held, Done, Holding, Remember, Goto, history
<1>6. Phases'
  BY DEF IInv, TypeOK, Phases, Remember, Goto, history
<1>7. Tokens'
  BY DEF IInv, TypeOK, Phases, Tokens, Fetching, Unsignalled, Remember, Goto, history
<1> QED
  BY <1>1, <1>2, <1>3, <1>4, <1>5, <1>6, <1>7 DEF IInv

\* The end of Run preserves the invariant.
LEMMA RunStep ==
  ASSUME IInv, NEW w \in Workers, Run(w)
  PROVE  IInv'
<1>1. TypeOK'
  <2>1. worker' \in [Workers -> {"none", "wait", "fetch", "check", "start", "remember", "run",
                                "forget", "finish"}]
    BY DEF Run, Goto, IInv, TypeOK
  <2>2. ran' \in SUBSET Jobs
    BY JobsAssumption DEF Run, IInv, TypeOK, Ownership, Holding
  <2> QED
    BY <2>1, <2>2 DEF IInv, TypeOK, Run, history
<1>2. Ownership'
  BY DEF IInv, TypeOK, Ownership, Queued, Holding, Run, Goto, history
<1>3. Listed'
  BY ZenonT(40) DEF IInv, TypeOK, Ownership, Listed, Holding, Run, Goto, history
<1>4. States'
  BY DEF IInv, TypeOK, Ownership, States, Holding, Run, Goto, history
<1>5. Kept'
  BY DEF IInv, TypeOK, Ownership, States, Kept, Queued, Held, Done, Holding, Run, Goto, history
<1>6. Phases'
  BY DEF IInv, TypeOK, Phases, Run, Goto, history
<1>7. Tokens'
  BY DEF IInv, TypeOK, Phases, Tokens, Fetching, Unsignalled, Run, Goto, history
<1> QED
  BY <1>1, <1>2, <1>3, <1>4, <1>5, <1>6, <1>7 DEF IInv

\* Taking the job out of m_RunningJobs preserves the invariant.
LEMMA ForgetStep ==
  ASSUME IInv, NEW w \in Workers, Forget(w)
  PROVE  IInv'
<1>1. TypeOK'
  BY DEF IInv, TypeOK, Forget, Goto, history
<1>2. Ownership'
  BY DEF IInv, TypeOK, Ownership, Queued, Holding, Forget, Goto, history
<1>3. Listed'
  <2>1. \A v \in Workers : /\ job'[v] = job[v]
                           /\ v # w => worker'[v] = worker[v] /\ job[v] # job[w]
    BY DEF Forget, Goto, IInv, TypeOK, Ownership, Holding
  <2>2. worker'[w] = "finish" /\ running' = running \ {job[w]}
    BY DEF Forget, Goto, IInv, TypeOK
  <2>3. \A k \in Jobs : k # job[w] =>
          ((\E v \in Workers : job'[v] = k /\ worker'[v] \in {"run", "forget"})
             <=> (\E v \in Workers : job[v] = k /\ worker[v] \in {"run", "forget"}))
    BY <2>1, <2>2
  <2>4. ~ \E v \in Workers : job'[v] = job[w] /\ worker'[v] \in {"run", "forget"}
    BY <2>1, <2>2
  <2> QED
    BY <2>2, <2>3, <2>4 DEF IInv, Listed
<1>4. States'
  BY DEF IInv, TypeOK, Ownership, States, Holding, Forget, Goto, history
<1>5. Kept'
  BY DEF IInv, TypeOK, Ownership, States, Kept, Queued, Held, Done, Holding, Forget, Goto, history
<1>6. Phases'
  BY DEF IInv, TypeOK, Phases, Forget, Goto, history
<1>7. Tokens'
  BY DEF IInv, TypeOK, Phases, Tokens, Fetching, Unsignalled, Forget, Goto, history
<1> QED
  BY <1>1, <1>2, <1>3, <1>4, <1>5, <1>6, <1>7 DEF IInv

\* The job is done or remains aborted.
LEMMA FinishStep ==
  ASSUME IInv, NEW w \in Workers, Finish(w)
  PROVE  IInv'
<1>1. TypeOK'
  BY DEF IInv, TypeOK, Finish, Goto, history
<1>2. Ownership'
  BY DEF IInv, TypeOK, Ownership, Queued, Holding, Finish, Goto, history
<1>3. Listed'
  BY ZenonT(40) DEF IInv, TypeOK, Ownership, Listed, Holding, Finish, Goto, history
<1>4. States'
  BY DEF IInv, TypeOK, Ownership, States, Holding, Finish, Goto, history
<1>5. Kept'
  BY DEF IInv, TypeOK, Ownership, States, Kept, Queued, Held, Done, Holding, Finish, Goto, history
<1>6. Phases'
  BY DEF IInv, TypeOK, Phases, Finish, Goto, history
<1>7. Tokens'
  BY DEF IInv, TypeOK, Phases, Tokens, Fetching, Unsignalled, Finish, Goto, history
<1> QED
  BY <1>1, <1>2, <1>3, <1>4, <1>5, <1>6, <1>7 DEF IInv

\* A job that is added has no other place; one that is not accepted is aborted if it can be.
LEMMA AddStep ==
  ASSUME IInv, NEW j \in Jobs, Add(j)
  PROVE  IInv'
<1>1. /\ j \notin added /\ j \notin accepted
      /\ added' = added \cup {j}
      /\ main \in {"off", "idle"}
      /\ UNCHANGED <<running, semaphore, shutdown, signals, worker, job, inits, ran>>
      /\ Fetching' = Fetching
  BY DEF Add, IInv, Ownership, Fetching
<1>2. /\ ~Queued(j)
      /\ \A w \in Workers : job[w] # j
  BY <1>1, JobsAssumption DEF IInv, Ownership, Queued
<1>3. Listed'
  BY <1>1 DEF IInv, Listed
<1>4. CASE shutdown
  <2>1. /\ jobState' = [jobState EXCEPT ![j] = Aborted(j, @)]
        /\ UNCHANGED <<queue, accepted, main>>
    BY <1>4 DEF Add
  <2>2. TypeOK'
    BY <1>1, <2>1 DEF IInv, TypeOK, Aborted
  <2>3. Ownership'
    BY <1>1, <2>1 DEF IInv, Ownership, Queued
  <2>4. States'
    <3>1. jobState'[j] \in {"QUEUED", "ABORTED"}
      BY <1>1, <2>1 DEF IInv, TypeOK, States, Aborted
    <3>2. \A k \in Jobs \ {j} : jobState'[k] = jobState[k]
      BY <2>1 DEF IInv, TypeOK
    <3>3. \A i \in DOMAIN queue : queue[i] \in Jobs \ {j}
      BY <1>2, QueuedJobs DEF Queued
    <3>4. \A w \in Workers : worker[w] \in Holding => job[w] \in Jobs \ {j}
      BY <1>2 DEF IInv, TypeOK, Ownership
    <3> QED
      BY <1>1, <2>1, <3>1, <3>2, <3>3, <3>4 DEF IInv, States, Holding
  <2>5. Kept'
    <3>1. \A k \in accepted : Done(k)' <=> Done(k)
      BY <1>1, <2>1 DEF Done, IInv, TypeOK
    <3>2. \A k : (Queued(k)' <=> Queued(k)) /\ (Held(k)' <=> Held(k))
      BY <1>1, <2>1 DEF Queued, Held
    <3>3. \A k \in Jobs : /\ jobState'[k] = "DONE" => jobState[k] = "DONE"
                          /\ jobState'[k] = "ABORTED" => jobState[k] = "ABORTED" \/ k \in AbortableJobs
      BY <2>1 DEF IInv, TypeOK, Aborted
    <3> QED
      BY <1>1, <2>1, <3>1, <3>2, <3>3 DEF IInv, Kept
  <2>6. Phases' /\ Tokens'
    BY <1>1, <1>4, <2>1 DEF IInv, Phases, Tokens, Unsignalled
  <2> QED
    BY <1>3, <2>2, <2>3, <2>4, <2>5, <2>6 DEF IInv
<1>5. CASE ~shutdown
  <2>1. /\ queue' = Append(queue, j) /\ accepted' = accepted \cup {j} /\ main' = "signal"
        /\ jobState' = jobState
    BY <1>5 DEF Add
  <2>2. /\ queue' \in Seq(Jobs) /\ Len(queue') = Len(queue) + 1
        /\ DOMAIN queue' = 1 .. Len(queue) + 1
        /\ \A i \in 1 .. Len(queue) : queue'[i] = queue[i]
        /\ queue'[Len(queue) + 1] = j
    BY <2>1, QueuedJobs
  <2>3. TypeOK'
    BY <1>1, <2>1, <2>2 DEF IInv, TypeOK
  <2>4. \A k : Queued(k)' <=> Queued(k) \/ k = j
    BY <2>2, QueuedJobs DEF Queued
  <2>5. Ownership'
    <3>1. \A i \in DOMAIN queue' : queue'[i] \in accepted'
      BY <2>1, <2>2, QueuedJobs DEF IInv, Ownership
    <3>2. \A i, k \in DOMAIN queue' : queue'[i] = queue'[k] => i = k
      BY <1>2, <2>2, QueuedJobs DEF IInv, Ownership, Queued
    <3>3. \A w \in Workers : job[w] # NoJob => job[w] \in accepted' /\ ~Queued(job[w])'
      <4> SUFFICES ASSUME NEW w \in Workers, job[w] # NoJob
                   PROVE  job[w] \in accepted' /\ ~Queued(job[w])'
        OBVIOUS
      <4> PICK k \in Jobs : k = job[w]
        BY DEF IInv, TypeOK
      <4>1. k \in accepted /\ ~Queued(k) /\ k # j
        BY <1>2 DEF IInv, Ownership
      <4>2. ~Queued(k)'
        BY <2>4, <4>1
      <4> QED
        BY <1>1, <2>1, <4>1, <4>2
    <3> QED
      BY <1>1, <2>1, <3>1, <3>2, <3>3 DEF IInv, Ownership
  <2>6. States'
    <3>1. jobState[j] \in {"QUEUED", "ABORTED"}
      BY <1>1 DEF IInv, States
    <3>2. \A i \in DOMAIN queue' : jobState[queue'[i]] \in {"QUEUED", "ABORTED"}
      BY <2>2, <3>1, QueuedJobs DEF IInv, States
    <3> QED
      BY <1>1, <2>1, <3>2 DEF IInv, States
  <2>7. Kept'
    <3>1. \A k : (Held(k)' <=> Held(k)) /\ (Done(k)' <=> Done(k))
      BY <1>1, <2>1 DEF Held, Done
    <3> QED
      BY <1>1, <2>1, <2>4, <3>1 DEF IInv, Kept
  <2>8. Phases'
    BY <1>1, <1>5, <2>1 DEF IInv, Phases
  <2>9. Tokens'
    <3>1. /\ semaphore \in Nat /\ Cardinality(Fetching) \in Nat /\ Len(queue) \in Nat
          /\ main = "idle" /\ Unsignalled = 0 /\ Unsignalled' = 1
      BY <1>1, <1>5, <2>1, FetchingFinite, QueuedJobs DEF IInv, TypeOK, Phases, Unsignalled
    <3> QED
      BY <1>1, <1>5, <2>2, <3>1 DEF IInv, Tokens
  <2> QED
    BY <1>3, <2>3, <2>5, <2>6, <2>7, <2>8, <2>9 DEF IInv
<1> QED
  BY <1>4, <1>5

\* The worker takes over the head of the queue, and finds none only in a shutdown.
LEMMA FetchStep ==
  ASSUME IInv, NEW w \in Workers, Fetch(w)
  PROVE  IInv'
<1>1. /\ worker[w] = "fetch" /\ job[w] = NoJob
      /\ Fetching' = Fetching \ {w} /\ w \in Fetching
      /\ \A v \in Workers \ {w} : worker'[v] = worker[v] /\ job'[v] = job[v]
      /\ UNCHANGED <<jobState, running, semaphore, shutdown, main, signals, history>>
  BY DEF Fetch, Goto, Fetching, IInv, TypeOK, Ownership, Holding
<1>2. /\ Cardinality(Fetching') = Cardinality(Fetching) - 1 /\ Cardinality(Fetching) \in Nat
      /\ Cardinality(Fetching') \in Nat
  BY <1>1, FetchingFinite, FS_RemoveElement, FS_CardinalityType
<1>3. semaphore \in Nat /\ Unsignalled' = Unsignalled /\ Unsignalled \in {0, 1}
  BY <1>1 DEF IInv, TypeOK, Unsignalled
<1>4. worker'[w] \in {"start", "check"}
  BY DEF Fetch, Goto, IInv, TypeOK
<1>5. CASE queue # <<>>
  <2> PICK j \in Jobs : j = Head(queue)
    BY <1>5, QueuedJobs
  <2>1. /\ worker' = [worker EXCEPT ![w] = "start"] /\ job' = [job EXCEPT ![w] = j]
        /\ queue' = Tail(queue)
    BY <1>5 DEF Fetch, Goto
  <2>2. /\ queue' \in Seq(Jobs) /\ Len(queue') = Len(queue) - 1 /\ Len(queue) > 0
        /\ DOMAIN queue' = 1 .. Len(queue) - 1
        /\ \A i \in 1 .. Len(queue) - 1 : queue'[i] = queue[i + 1]
        /\ queue[1] = j
    BY <1>5, <2>1, QueuedJobs
  <2>3. TypeOK'
    BY <1>1, <2>1, <2>2 DEF IInv, TypeOK, history
  <2>4. \A k \in Jobs : Queued(k)' <=> Queued(k) /\ k # j
    <3> SUFFICES ASSUME NEW k \in Jobs
                 PROVE  Queued(k)' <=> Queued(k) /\ k # j
      OBVIOUS
    <3>1. ASSUME NEW i \in DOMAIN queue', queue'[i] = k
          PROVE  Queued(k) /\ k # j
      <4>1. i + 1 \in DOMAIN queue /\ queue[i + 1] = k /\ 1 \in DOMAIN queue /\ i + 1 # 1
        BY <2>2, <3>1, QueuedJobs
      <4> QED
        BY <2>2, <4>1 DEF IInv, Ownership, Queued
    <3>2. ASSUME NEW i \in DOMAIN queue, queue[i] = k, k # j
          PROVE  Queued(k)'
      <4>1. i - 1 \in DOMAIN queue' /\ queue'[i - 1] = k
        BY <2>2, <3>2, QueuedJobs
      <4> QED
        BY <4>1 DEF Queued
    <3> QED
      BY <3>1, <3>2 DEF Queued
  <2>5. Queued(j) /\ j \in accepted /\ \A v \in Workers : job[v] # j
    <3>1. 1 \in DOMAIN queue
      BY <2>2, QueuedJobs
    <3>2. Queued(j) /\ j \in accepted
      BY <2>2, <3>1 DEF Queued, IInv, Ownership
    <3> QED
      BY <3>2, JobsAssumption DEF IInv, Ownership
  <2>6. job'[w] = j /\ worker'[w] = "start" /\ j # NoJob
    BY <2>1, JobsAssumption DEF IInv, TypeOK
  <2>7. Ownership'
    <3>1. \A i \in DOMAIN queue' : i + 1 \in DOMAIN queue /\ queue'[i] = queue[i + 1]
      BY <2>2, QueuedJobs
    <3>2. \A i \in DOMAIN queue' : queue'[i] \in accepted'
      BY <1>1, <3>1 DEF IInv, Ownership, history
    <3>3. \A i, k \in DOMAIN queue' : queue'[i] = queue'[k] => i = k
      <4> SUFFICES ASSUME NEW i \in DOMAIN queue', NEW k \in DOMAIN queue', queue'[i] = queue'[k]
                   PROVE  i = k
        OBVIOUS
      <4>1. i + 1 = k + 1
        BY <3>1 DEF IInv, Ownership
      <4> QED
        BY <2>2, <4>1, QueuedJobs
    <3>4. \A v \in Workers : worker'[v] \in Holding <=> job'[v] # NoJob
      BY <1>1, <2>6 DEF IInv, Ownership, Holding
    <3>5. \A v \in Workers : job'[v] # NoJob => job'[v] \in accepted' /\ ~Queued(job[v])'
      <4> SUFFICES ASSUME NEW v \in Workers, job'[v] # NoJob
                   PROVE  job'[v] \in accepted' /\ ~Queued(job[v])'
        OBVIOUS
      <4> PICK k \in Jobs : k = job'[v]
        BY <2>3 DEF TypeOK
      <4>1. k \in accepted /\ (k = j \/ ~Queued(k))
        BY <1>1, <2>5, <2>6 DEF IInv, Ownership
      <4>2. ~Queued(k)'
        BY <2>4, <4>1
      <4> QED
        BY <1>1, <4>1, <4>2 DEF history, Queued
    <3>6. \A u, v \in Workers : job'[u] = job'[v] /\ job'[u] # NoJob => u = v
      BY <1>1, <2>5, <2>6 DEF IInv, Ownership
    <3> QED
      BY <1>1, <3>2, <3>3, <3>4, <3>5, <3>6 DEF IInv, Ownership, history
  <2>8. Listed'
    <3>1. \A v \in Workers : /\ worker'[v] \in {"run", "forget"} <=> worker[v] \in {"run", "forget"}
                             /\ worker[v] \in {"run", "forget"} => job'[v] = job[v]
      BY <1>1, <2>6
    <3> QED
      BY <1>1, <3>1 DEF IInv, Listed
  <2>9. States'
    <3>1. jobState[j] \in {"QUEUED", "ABORTED"}
      BY <2>2, QueuedJobs DEF IInv, States
    <3>2. \A i \in DOMAIN queue' : jobState[queue'[i]] \in {"QUEUED", "ABORTED"}
      <4>1. \A i \in DOMAIN queue' : i + 1 \in DOMAIN queue /\ queue'[i] = queue[i + 1]
        BY <2>2, QueuedJobs
      <4> QED
        BY <4>1 DEF IInv, States
    <3> QED
      BY <1>1, <2>6, <3>1, <3>2 DEF IInv, States, history, Holding
  <2>10. Kept'
    <3>1. \A k \in accepted : Done(k)' <=> Done(k)
      BY <1>1 DEF Done
    <3>2. \A k \in accepted : Held(k) => Held(k)'
      <4>1. \A k \in accepted : k # NoJob
        BY JobsAssumption DEF IInv, TypeOK
      <4> QED
        BY <1>1, <4>1 DEF Held
    <3>3. Held(j)'
      BY <2>6 DEF Held
    <3>4. \A k \in accepted : Queued(k) => Queued(k)' \/ k = j
      BY <2>4 DEF IInv, TypeOK
    <3> QED
      BY <1>1, <2>6, <3>1, <3>2, <3>3, <3>4 DEF IInv, Kept, history
  <2>11. Phases'
    <3>1. \A v \in Workers : worker'[v] \in {"check", "none"} => queue = <<>>
      BY <1>1, <2>6 DEF IInv, Phases
    <3>2. main # "off"
      BY <1>1 DEF IInv, Phases
    <3> QED
      BY <1>1, <1>5, <3>1, <3>2 DEF IInv, Phases
  <2>12. Tokens'
    BY <1>1, <1>2, <1>3, <2>2, QueuedJobs DEF IInv, Tokens
  <2> QED
    BY <2>3, <2>7, <2>8, <2>9, <2>10, <2>11, <2>12 DEF IInv
<1>6. CASE queue = <<>>
  <2>1. worker' = [worker EXCEPT ![w] = "check"] /\ UNCHANGED <<job, queue>>
    BY <1>6 DEF Fetch, Goto
  <2>2. TypeOK'
    BY <1>1, <2>1 DEF IInv, TypeOK, history
  <2>3. worker'[w] = "check"
    BY <2>1 DEF IInv, TypeOK
  <2>4. Ownership'
    BY <1>1, <2>1, <2>3 DEF IInv, Ownership, Queued, Holding, history
  <2>5. Listed'
    BY <1>1, <2>1, <2>3 DEF IInv, Listed
  <2>6. States'
    BY <1>1, <2>1, <2>3 DEF IInv, States, Holding, history
  <2>7. Kept'
    BY <1>1, <2>1, <2>3 DEF IInv, Kept, Queued, Held, Done, history
  <2>8. shutdown
    <3>1. Cardinality(Fetching) >= 1
      BY <1>2
    <3>2. Len(queue) = 0
      BY <1>6
    <3> QED
      BY <1>2, <1>3, <3>1, <3>2 DEF IInv, Tokens
  <2>9. Phases'
    <3>1. main # "off"
      BY <1>1 DEF IInv, Phases
    <3> QED
      BY <1>1, <1>6, <2>1, <2>3, <2>8, <3>1 DEF IInv, Phases
  <2>10. Tokens'
    BY <1>1, <2>8 DEF Tokens
  <2> QED
    BY <2>2, <2>4, <2>5, <2>6, <2>7, <2>9, <2>10 DEF IInv
<1> QED
  BY <1>5, <1>6

\* What Shutdown takes out of the queue is aborted, the rest stays in its order.
LEMMA AbortQueuedStep ==
  ASSUME IInv, AbortQueued
  PROVE  IInv'
<1> DEFINE kept == {i \in DOMAIN queue : queue[i] \notin AbortableJobs}
<1>1. PICK index \in [1 .. Cardinality(kept) -> kept] :
        /\ \A m, n \in DOMAIN index : m < n => index[m] < index[n]
        /\ kept = {index[n] : n \in DOMAIN index}
        /\ queue' = [n \in DOMAIN index |-> queue[index[n]]]
  BY DEF AbortQueued
<1>2. /\ Cardinality(kept) \in Nat /\ Cardinality(kept) <= Len(queue)
      /\ kept \subseteq DOMAIN queue
  <2>1. IsFiniteSet(DOMAIN queue) /\ Cardinality(DOMAIN queue) = Len(queue)
    <3>1. DOMAIN queue = 1 .. Len(queue) /\ Len(queue) \in Nat
      BY QueuedJobs
    <3>2. /\ IsFiniteSet(1 .. Len(queue))
          /\ Cardinality(1 .. Len(queue)) = IF 1 > Len(queue) THEN 0 ELSE Len(queue) - 1 + 1
      BY <3>1, FS_Interval
    <3> QED
      BY <3>1, <3>2
  <2> QED
    BY <2>1, FS_Subset, FS_CardinalityType
<1>3. /\ DOMAIN index = 1 .. Cardinality(kept) /\ DOMAIN queue' = DOMAIN index
      /\ \A n \in DOMAIN index : index[n] \in kept /\ queue'[n] = queue[index[n]]
  BY <1>1
<1> HIDE DEF kept
<1>4. queue' \in Seq(Jobs) /\ Len(queue') = Cardinality(kept)
  <2>1. \A n \in 1 .. Cardinality(kept) : queue'[n] \in Jobs
    BY <1>2, <1>3, QueuedJobs
  <2>2. queue' = [n \in 1 .. Cardinality(kept) |-> queue[index[n]]]
    BY <1>1, <1>3
  <2>3. queue' \in [1 .. Cardinality(kept) -> Jobs]
    BY <1>3, <2>1, <2>2
  <2> QED
    BY <1>2, <2>3
<1>5. /\ main = "abort queued" /\ main' = "abort running" /\ shutdown
      /\ UNCHANGED <<running, semaphore, shutdown, signals, worker, job, history>>
      /\ jobState' = [j \in Jobs |-> IF Queued(j) THEN Aborted(j, jobState[j]) ELSE jobState[j]]
  BY DEF AbortQueued, IInv, Phases, Queued
<1>6. \A j \in Jobs : Queued(j)' <=> Queued(j) /\ j \notin AbortableJobs
  <2> SUFFICES ASSUME NEW j \in Jobs
               PROVE  Queued(j)' <=> Queued(j) /\ j \notin AbortableJobs
    OBVIOUS
  <2>1. ASSUME NEW n \in DOMAIN queue', queue'[n] = j
        PROVE  Queued(j) /\ j \notin AbortableJobs
    BY <1>3, <2>1 DEF Queued, kept
  <2>2. ASSUME NEW i \in DOMAIN queue, queue[i] = j, j \notin AbortableJobs
        PROVE  Queued(j)'
    <3>1. i \in kept
      BY <2>2 DEF kept
    <3>2. PICK n \in DOMAIN index : index[n] = i
      BY <1>1, <3>1
    <3> QED
      BY <1>3, <2>2, <3>2 DEF Queued
  <2> QED
    BY <2>1, <2>2 DEF Queued
<1>7. \A j \in Jobs : ~Queued(j) => jobState'[j] = jobState[j]
  BY <1>5
<1>8. \A j \in Jobs : Queued(j)' => jobState'[j] = jobState[j]
  BY <1>5, <1>6 DEF Aborted
<1>9. TypeOK'
  BY <1>4, <1>5 DEF IInv, TypeOK, Aborted, history
<1>10. Ownership'
  <2>1. \A n \in DOMAIN queue' : queue'[n] \in accepted'
    BY <1>2, <1>3, <1>5 DEF IInv, Ownership, history
  <2>2. \A m, n \in DOMAIN queue' : queue'[m] = queue'[n] => m = n
    <3> SUFFICES ASSUME NEW m \in DOMAIN queue', NEW n \in DOMAIN queue', queue'[m] = queue'[n]
                 PROVE  m = n
      OBVIOUS
    <3>1. index[m] = index[n] /\ index[m] \in Nat
      BY <1>2, <1>3, QueuedJobs DEF IInv, Ownership
    <3>2. m \in Nat /\ n \in Nat /\ ~(m < n) /\ ~(n < m)
      BY <1>1, <1>2, <1>3, <3>1
    <3> QED
      BY <3>2
  <2>3. \A w \in Workers : job[w] # NoJob => job[w] \in accepted /\ ~Queued(job[w])'
    <3> SUFFICES ASSUME NEW w \in Workers, job[w] # NoJob
                 PROVE  job[w] \in accepted /\ ~Queued(job[w])'
      OBVIOUS
    <3> PICK k \in Jobs : k = job[w]
      BY DEF IInv, TypeOK
    <3>1. k \in accepted /\ ~Queued(k)
      BY DEF IInv, Ownership
    <3>2. ~Queued(k)'
      BY <1>6, <3>1
    <3> QED
      BY <1>5, <3>1, <3>2 DEF Queued
  <2> QED
    BY <1>5, <2>1, <2>2, <2>3 DEF IInv, Ownership, history
<1>11. Listed'
  BY <1>5 DEF IInv, Listed
<1>12. States'
  <2>1. \A n \in DOMAIN queue' : jobState'[queue'[n]] \in {"QUEUED", "ABORTED"}
    <3> SUFFICES ASSUME NEW n \in DOMAIN queue'
                 PROVE  jobState'[queue'[n]] \in {"QUEUED", "ABORTED"}
      OBVIOUS
    <3> PICK j \in Jobs : j = queue'[n]
      BY <1>4
    <3>1. Queued(j)'
      BY DEF Queued
    <3>2. jobState[j] \in {"QUEUED", "ABORTED"}
      BY <1>6, <3>1 DEF IInv, States, Queued
    <3> QED
      BY <1>8, <3>1, <3>2
  <2>2. \A w \in Workers : worker[w] \in Holding => jobState'[job[w]] = jobState[job[w]]
    BY <1>7, JobsAssumption DEF IInv, TypeOK, Ownership
  <2>3. \A j \in Jobs \ added : ~Queued(j)
    BY DEF IInv, Ownership, Queued
  <2> QED
    BY ZenonT(40), <1>5, <1>7, <2>1, <2>2, <2>3 DEF IInv, States, Holding, history
<1>13. Kept'
  <2>1. \A j \in accepted : Queued(j) /\ j \in AbortableJobs => Done(j)'
    BY <1>5 DEF Done, Aborted, IInv, TypeOK
  <2>2. \A j \in accepted : Done(j) => Done(j)'
    BY <1>5 DEF Done, Aborted, IInv, TypeOK
  <2>3. \A j \in accepted : Held(j)' <=> Held(j)
    BY <1>5 DEF Held
  <2>4. \A j \in accepted : Queued(j)' \/ Held(j)' \/ Done(j)'
    BY <1>6, <2>1, <2>2, <2>3 DEF IInv, Kept, TypeOK
  <2>5. \A j \in Jobs : /\ jobState'[j] = "DONE" => jobState[j] = "DONE"
                        /\ jobState'[j] = "ABORTED" => jobState[j] = "ABORTED" \/ j \in AbortableJobs
    BY <1>5 DEF Aborted
  <2> QED
    BY <1>5, <2>4, <2>5 DEF IInv, Kept, history
<1>14. Phases'
  <2>1. queue = <<>> => queue' = <<>>
    BY <1>2, <1>4
  <2> QED
    BY <1>5, <2>1 DEF IInv, Phases
<1>15. Tokens'
  BY <1>5 DEF Tokens
<1> QED
  BY <1>9, <1>10, <1>11, <1>12, <1>13, <1>14, <1>15 DEF IInv

-----------------------------------------------------------------------------
(* The theorems.                                                           *)

\* The invariant holds before the pool is started.
LEMMA InitInv == Init => IInv
<1> SUFFICES ASSUME Init
             PROVE  IInv
  OBVIOUS
<1>1. TypeOK
  BY DEF Init, TypeOK
<1>2. Ownership /\ Listed /\ States
  BY JobsAssumption DEF Init, Ownership, Listed, States, Queued, Holding
<1>3. Kept /\ Phases /\ Tokens
  BY DEF Init, Kept, Phases, Tokens
<1> QED
  BY <1>1, <1>2, <1>3 DEF IInv

\* A step that changes no variable preserves the invariant.
LEMMA StutterStep == IInv /\ UNCHANGED vars => IInv'
<1> SUFFICES ASSUME IInv, UNCHANGED vars
             PROVE  IInv'
  OBVIOUS
<1>1. TypeOK' /\ Ownership' /\ Listed' /\ States'
  BY DEF IInv, vars, TypeOK, Ownership, Listed, States, Queued
<1>2. Kept' /\ Phases' /\ Tokens'
  BY DEF IInv, vars, Kept, Queued, Held, Done, Phases, Tokens, Fetching, Unsignalled
<1> QED
  BY <1>1, <1>2 DEF IInv

\* Every step of the main thread, of the workers and of Abort preserves the invariant.
LEMMA NextInv == IInv /\ [Next]_vars => IInv'
<1> SUFFICES ASSUME IInv, [Next]_vars
             PROVE  IInv'
  OBVIOUS
<1>1. CASE Start
  BY <1>1, StartStep
<1>2. CASE \E j \in Jobs : Add(j)
  BY <1>2, AddStep
<1>3. CASE \E j \in Jobs : Abort(j)
  BY <1>3, AbortStep
<1>4. CASE AddSignal
  BY <1>4, AddSignalStep
<1>5. CASE Shutdown
  BY <1>5, ShutdownBeginStep, AbortQueuedStep, AbortRunningStep, WakeStep, JoinStep DEF Shutdown
<1>6. ASSUME NEW w \in Workers, RunLoop(w)
      PROVE  IInv'
  BY <1>6, WaitStep, FetchStep, CheckStep, BeginStep, RememberStep, RunStep, ForgetStep, FinishStep
     DEF RunLoop
<1>7. CASE UNCHANGED vars
  BY <1>7, StutterStep
<1> QED
  BY <1>1, <1>2, <1>3, <1>4, <1>5, <1>6, <1>7 DEF Next

\* The inductive invariant holds in every state the pool can reach.
THEOREM Invariant == Spec => []IInv
<1>1. Init => IInv
  BY InitInv
<1>2. IInv /\ [Next]_vars => IInv'
  BY NextInv
<1> QED
  BY <1>1, <1>2, PTL DEF Spec

\* The variables of CJobPool keep their types.
THEOREM TypeCorrect == Spec => []TypeOK
<1>1. IInv => TypeOK
  BY DEF IInv
<1> QED
  BY <1>1, Invariant, PTL

\* RunLoop never fails one of its assertions, for any number of jobs, workers and restarts
\* and with Abort called at any time.
THEOREM AssertionsNeverFail == Spec => []AssertionsHold
<1>1. IInv => AssertionsHold
  BY DEF IInv, States, AssertionsHold, Holding
<1> QED
  BY <1>1, Invariant, PTL

\* Shutdown leaves no queued job, no running job and no thread behind, and every job it has
\* accepted is done or, if it is abortable, aborted.
THEOREM NothingLeftBehind == Spec => []ShutdownComplete
<1>1. ASSUME IInv, main = "off"
      PROVE  ShutdownComplete
  <2>1. \A w \in Workers : worker[w] = "none" /\ job[w] = NoJob
    BY <1>1 DEF IInv, Phases, Ownership, Holding
  <2>2. queue = <<>>
    BY <1>1, <2>1, WorkersAssumption DEF IInv, Phases
  <2>3. running = {}
    BY <1>1, <2>1 DEF IInv, TypeOK, Listed
  <2>4. \A j \in accepted : j \in Jobs /\ ~Queued(j) /\ ~Held(j)
    BY <1>1, <2>1, <2>2, JobsAssumption DEF Queued, Held, IInv, TypeOK
  <2>5. \A j \in accepted : Done(j)
    BY <1>1, <2>4 DEF IInv, Kept
  <2>6. \A j \in accepted \ AbortableJobs : jobState[j] = "DONE" /\ j \in ran
    <3>1. \A j \in accepted \ AbortableJobs : jobState[j] = "DONE"
      BY <1>1, <2>4, <2>5 DEF IInv, TypeOK, Kept, Done
    <3> QED
      BY <1>1, <2>4, <3>1 DEF IInv, Kept
  <2> QED
    BY <2>1, <2>2, <2>3, <2>5, <2>6 DEF ShutdownComplete
<1>2. IInv => ShutdownComplete
  BY <1>1 DEF ShutdownComplete
<1> QED
  BY <1>2, Invariant, PTL

\* Once Abort has succeeded for a job, nothing the pool does makes it look done or running.
THEOREM AbortsAreFinal == Spec => AbortIsFinal
<1>1. ASSUME IInv, [Next]_vars, NEW j \in Jobs, jobState[j] = "ABORTED"
      PROVE  jobState'[j] = "ABORTED"
  <2>1. \A k \in Jobs : Aborted(k, "ABORTED") = "ABORTED"
    BY DEF Aborted
  <2>2. CASE \/ Start \/ AddSignal \/ UNCHANGED vars
             \/ ShutdownBegin \/ Wake \/ Join
    BY <1>1, <2>2 DEF Start, AddSignal, vars, ShutdownBegin, Wake, Join
  <2>3. CASE \E k \in Jobs : Add(k) \/ Abort(k)
    BY ZenonT(40), <1>1, <2>1, <2>3 DEF IInv, TypeOK, Add, Abort
  <2>4. CASE AbortQueued \/ AbortRunning
    BY <1>1, <2>1, <2>4 DEF AbortQueued, AbortRunning
  <2>5. ASSUME NEW w \in Workers, RunLoop(w)
        PROVE  jobState'[j] = "ABORTED"
    <3>1. CASE Wait(w) \/ Fetch(w) \/ Check(w) \/ Remember(w) \/ Run(w) \/ Forget(w)
      BY <1>1, <3>1 DEF Wait, Fetch, Check, Remember, Run, Forget
    <3>2. CASE Begin(w)
      BY <1>1, <3>2 DEF IInv, TypeOK, Begin
    <3>3. CASE Finish(w)
      BY <1>1, <3>3 DEF IInv, TypeOK, Finish
    <3> QED
      BY <2>5, <3>1, <3>2, <3>3 DEF RunLoop
  <2> QED
    BY <1>1, <2>2, <2>3, <2>4, <2>5 DEF Next, Shutdown
<1>2. IInv /\ [Next]_vars
        => [\A j \in Jobs : jobState[j] = "ABORTED" => jobState'[j] = "ABORTED"]_vars
  BY <1>1
<1> QED
  BY <1>2, Invariant, PTL DEF Spec, AbortIsFinal
-----------------------------------------------------------------------------
(* No lost wake-up, and no deadlock.                                       *)

\* The workers that will wait for the semaphore once more before they end.
Alive == {w \in Workers : worker[w] \notin {"none", "check"}}

\* Signals that the main thread is still going to give.
Owed ==
  CASE main = "signal" -> 1
    [] main \in {"abort queued", "abort running"} -> Cardinality(Workers)
    [] main = "wake" -> signals
    [] OTHER -> 0

\* There is a signal for each queued job, and in a shutdown one more for each
\* worker that has not found the queue empty.
Signalled ==
  main # "off" =>
    semaphore + Owed + Cardinality(Fetching)
      >= Len(queue) + (IF shutdown THEN Cardinality(Alive) ELSE 0)

\* The main thread is inside Add or Shutdown and does not have to wait.
MainMoves ==
  \/ main \in {"signal", "abort queued", "abort running"}
  \/ main = "wake" /\ (signals > 0 \/ \A w \in Workers : worker[w] = "none")

\* A worker that has not ended does not have to wait.
WorkerMoves(w) ==
  \/ worker[w] \notin {"none", "wait"}
  \/ worker[w] = "wait" /\ semaphore > 0

\* As long as a job is not done, or Add or Shutdown has not returned, some thread
\* can go on.
NeverStuck ==
  (\E j \in accepted : ~Done(j)) \/ main \notin {"off", "idle"}
    => MainMoves \/ \E w \in Workers : WorkerMoves(w)

LEMMA AliveFinite == /\ IsFiniteSet(Alive) /\ Cardinality(Alive) \in Nat
                     /\ Cardinality(Alive) <= Cardinality(Workers) /\ Cardinality(Workers) \in Nat
BY WorkersAssumption, FS_Subset, FS_CardinalityType DEF Alive

LEMMA OwedType ==
  ASSUME TypeOK
  PROVE  Owed \in Nat
BY AliveFinite DEF Owed, TypeOK

\* What keeps the queue and the workers in place keeps all counts.
LEMMA SignalledSame ==
  ASSUME IInv, Signalled, main # "off" \/ main' = "off", Fetching' = Fetching, Alive' = Alive,
         semaphore' + Owed' = semaphore + Owed, Len(queue') = Len(queue), shutdown' = shutdown
  PROVE  Signalled'
<1>1. /\ semaphore \in Nat /\ Owed \in Nat /\ Len(queue) \in Nat
      /\ Cardinality(Fetching) \in Nat /\ Cardinality(Alive) \in Nat
  BY OwedType, QueuedJobs, FetchingFinite, AliveFinite DEF IInv, TypeOK
<1> QED
  BY <1>1 DEF Signalled

\* Steps of a worker that is busy with a job.
LEMMA BusyStep ==
  ASSUME IInv, Signalled, NEW w \in Workers,
         Begin(w) \/ Remember(w) \/ Run(w) \/ Forget(w) \/ Finish(w)
  PROVE  Signalled'
<1>1. \E to \in {"remember", "wait", "run", "forget", "finish"} :
        worker' = [worker EXCEPT ![w] = to]
  BY DEF Begin, Remember, Run, Forget, Finish, Goto
<1>2. worker[w] \in {"start", "remember", "run", "forget", "finish"}
  BY DEF Begin, Remember, Run, Forget, Finish
<1>3. worker \in [Workers -> {"none", "wait", "fetch", "check", "start", "remember", "run",
                              "forget", "finish"}]
  BY DEF IInv, TypeOK
<1>4. Fetching' = Fetching /\ Alive' = Alive
  BY <1>1, <1>2, <1>3 DEF Fetching, Alive
<1>5. UNCHANGED <<queue, semaphore, shutdown, main, signals>>
  BY DEF Begin, Remember, Run, Forget, Finish
<1>6. Owed' = Owed /\ (main # "off" \/ main' = "off")
  BY <1>5 DEF Owed
<1> QED
  BY <1>4, <1>5, <1>6, SignalledSame

LEMMA WaitSignalled ==
  ASSUME IInv, Signalled, NEW w \in Workers, Wait(w)
  PROVE  Signalled'
<1>1. Fetching' = Fetching \cup {w} /\ w \notin Fetching /\ Alive' = Alive
  BY DEF Wait, Goto, Fetching, Alive, IInv, TypeOK
<1>2. Cardinality(Fetching) \in Nat /\ Cardinality(Fetching') = Cardinality(Fetching) + 1
  BY <1>1, FetchingFinite, FS_AddElement
<1>3. UNCHANGED <<queue, shutdown, main, signals>> /\ semaphore' = semaphore - 1
  BY DEF Wait
<1>4. Owed' = Owed
  BY <1>3 DEF Owed
<1>5. semaphore \in Nat /\ Owed \in Nat /\ Len(queue) \in Nat /\ Cardinality(Alive) \in Nat
  BY OwedType, QueuedJobs, AliveFinite DEF IInv, TypeOK
<1>6. semaphore' + Owed' + Cardinality(Fetching') = semaphore + Owed + Cardinality(Fetching)
  BY <1>2, <1>3, <1>4, <1>5
<1> QED
  BY <1>1, <1>3, <1>6 DEF Signalled

\* A worker that finds the queue empty is not going to wait again.
LEMMA FetchSignalled ==
  ASSUME IInv, Signalled, NEW w \in Workers, Fetch(w)
  PROVE  Signalled'
<1>1. Fetching' = Fetching \ {w} /\ w \in Fetching
  BY DEF Fetch, Goto, Fetching, IInv, TypeOK
<1>2. Cardinality(Fetching') = Cardinality(Fetching) - 1 /\ Cardinality(Fetching) \in Nat
  BY <1>1, FetchingFinite, FS_RemoveElement
<1>3. UNCHANGED <<semaphore, shutdown, main, signals>>
  BY DEF Fetch
<1>4. Owed' = Owed
  BY <1>3 DEF Owed
<1>5. semaphore \in Nat /\ Owed \in Nat /\ Len(queue) \in Nat /\ Cardinality(Alive) \in Nat
  BY OwedType, QueuedJobs, AliveFinite DEF IInv, TypeOK
<1>6. CASE queue # <<>>
  <2>1. Alive' = Alive
    BY <1>6 DEF Fetch, Goto, Alive, IInv, TypeOK
  <2>2. Len(queue') = Len(queue) - 1
    BY <1>6, QueuedJobs, HeadTailProperties DEF Fetch
  <2> DEFINE f == Cardinality(Fetching)
             g == Cardinality(Fetching')
             l == Len(queue)
             m == Len(queue')
  <2>3. g = f - 1 /\ f \in Nat /\ m = l - 1
    BY <1>2, <2>2
  <2> HIDE DEF f, g, l, m
  <2>4. /\ main # "off" => semaphore + Owed + f >= l + (IF shutdown THEN Cardinality(Alive) ELSE 0)
        /\ l \in Nat
    BY <1>5 DEF Signalled, f, l
  <2>5. main # "off" => semaphore + Owed + g >= m + (IF shutdown THEN Cardinality(Alive) ELSE 0)
    BY <1>5, <2>3, <2>4
  <2> QED
    BY <1>3, <1>4, <2>1, <2>5 DEF Signalled, g, m
<1>7. CASE queue = <<>>
  <2>1. queue' = queue /\ Alive' = Alive \ {w} /\ w \in Alive
    BY <1>7 DEF Fetch, Goto, Alive, IInv, TypeOK
  <2>2. Cardinality(Alive') = Cardinality(Alive) - 1
    BY <2>1, AliveFinite, FS_RemoveElement
  <2>3. shutdown
    <3>1. Cardinality(Fetching) >= 1
      BY <1>1, FetchingFinite, FS_EmptySet
    <3>2. Len(queue) = 0 /\ Unsignalled \in Nat
      BY <1>7 DEF Unsignalled
    <3> QED
      BY <1>2, <1>5, <3>1, <3>2 DEF IInv, Tokens
  <2> DEFINE f == Cardinality(Fetching)
             g == Cardinality(Fetching')
             a == Cardinality(Alive)
             b == Cardinality(Alive')
  <2>4. g = f - 1 /\ f \in Nat /\ b = a - 1 /\ a \in Nat
    BY <1>2, <1>5, <2>2
  <2> HIDE DEF f, g, a, b
  <2>5. main # "off" => semaphore + Owed + f >= Len(queue) + a
    BY <2>3 DEF Signalled, f, a
  <2>6. main # "off" => semaphore + Owed + g >= Len(queue) + b
    BY <1>5, <2>4, <2>5
  <2> QED
    BY <1>3, <1>4, <2>1, <2>3, <2>6 DEF Signalled, g, b
<1> QED
  BY <1>6, <1>7

\* No job comes into the queue when those that are aborted leave it.
LEMMA AbortQueuedShortens ==
  ASSUME IInv, AbortQueued
  PROVE  Len(queue') \in Nat /\ Len(queue') <= Len(queue)
<1> DEFINE kept == {i \in DOMAIN queue : queue[i] \notin AbortableJobs}
<1>1. Len(queue) \in Nat /\ DOMAIN queue = 1 .. Len(queue)
  BY QueuedJobs
<1>2. IsFiniteSet(1 .. Len(queue)) /\ Cardinality(1 .. Len(queue)) = Len(queue)
  <2>1. 1 \in Int /\ Len(queue) \in Int
    BY <1>1
  <2>2. /\ IsFiniteSet(1 .. Len(queue))
        /\ Cardinality(1 .. Len(queue)) = IF 1 > Len(queue) THEN 0 ELSE Len(queue) - 1 + 1
    BY <2>1, FS_Interval
  <2> QED
    BY <1>1, <2>2
<1>3. kept \subseteq 1 .. Len(queue)
  BY <1>1
<1>4. Cardinality(kept) \in Nat /\ Cardinality(kept) <= Len(queue)
  BY <1>2, <1>3, FS_Subset, FS_CardinalityType
<1>5. \E index \in [1 .. Cardinality(kept) -> kept] :
        queue' = [n \in DOMAIN index |-> queue[index[n]]]
  BY DEF AbortQueued
<1> HIDE DEF kept
<1>6. PICK index : /\ DOMAIN index = 1 .. Cardinality(kept)
                   /\ queue' = [n \in DOMAIN index |-> queue[index[n]]]
  BY <1>5
<1>7. DOMAIN queue' = 1 .. Cardinality(kept)
  BY <1>6
<1>8. queue' \in Seq(Jobs)
  BY AbortQueuedStep DEF IInv, TypeOK
<1>9. Len(queue') = Cardinality(kept)
  BY <1>4, <1>7, <1>8, LenProperties
<1> QED
  BY <1>4, <1>9

LEMMA MainSignalled ==
  ASSUME IInv, Signalled, AddSignal \/ Shutdown
  PROVE  Signalled'
<1>1. /\ semaphore \in Nat /\ Owed \in Nat /\ Len(queue) \in Nat /\ signals \in Nat
      /\ Cardinality(Fetching) \in Nat /\ Cardinality(Alive) \in Nat
      /\ Cardinality(Workers) \in Nat /\ Cardinality(Alive) <= Cardinality(Workers)
  BY OwedType, QueuedJobs, FetchingFinite, AliveFinite DEF IInv, TypeOK
<1>2. Fetching' = Fetching /\ Alive' = Alive
  BY DEF AddSignal, Shutdown, ShutdownBegin, AbortQueued, AbortRunning, Wake, Join,
         Fetching, Alive
<1>3. CASE AddSignal
  BY <1>1, <1>2, <1>3, SignalledSame DEF AddSignal, Owed
<1>4. CASE ShutdownBegin
  <2>1. ~shutdown /\ Owed = 0 /\ Owed' = Cardinality(Workers)
    BY <1>4 DEF ShutdownBegin, Owed, IInv, Phases
  <2>2. semaphore + Owed + Cardinality(Fetching) >= Len(queue)
    <3>1. main # "off" /\ (IF shutdown THEN Cardinality(Alive) ELSE 0) = 0
      BY <1>4, <2>1 DEF ShutdownBegin
    <3>2. semaphore + Owed + Cardinality(Fetching) >= Len(queue) + 0
      BY <3>1 DEF Signalled
    <3> QED
      BY <1>1, <3>2
  <2>3. semaphore + Owed' + Cardinality(Fetching) >= Len(queue) + Cardinality(Alive)
    BY <1>1, <2>1, <2>2
  <2> QED
    BY <1>2, <1>4, <2>3 DEF ShutdownBegin, Signalled
<1>5. CASE AbortQueued
  <2>1. Owed' = Owed /\ shutdown' = shutdown /\ semaphore' = semaphore /\ main # "off"
    BY <1>5 DEF AbortQueued, Owed
  <2>2. Len(queue') \in Nat /\ Len(queue') <= Len(queue)
    BY <1>5, AbortQueuedShortens
  <2>3. semaphore + Owed + Cardinality(Fetching)
          >= Len(queue) + (IF shutdown THEN Cardinality(Alive) ELSE 0)
    BY <2>1 DEF Signalled
  <2>4. semaphore + Owed + Cardinality(Fetching)
          >= Len(queue') + (IF shutdown THEN Cardinality(Alive) ELSE 0)
    BY <1>1, <2>2, <2>3
  <2> QED
    BY <1>2, <2>1, <2>4 DEF Signalled
<1>6. CASE AbortRunning
  <2>1. Owed' = Owed
    BY <1>6 DEF AbortRunning, Owed
  <2> QED
    BY <1>2, <1>6, <2>1, SignalledSame DEF AbortRunning
<1>7. CASE Wake
  BY <1>1, <1>2, <1>7, SignalledSame DEF Wake, Owed
<1>8. CASE Join
  BY <1>8 DEF Join, Signalled
<1> QED
  BY <1>3, <1>4, <1>5, <1>6, <1>7, <1>8 DEF Shutdown

LEMMA AddSignalled ==
  ASSUME IInv, Signalled, NEW j \in Jobs, Add(j) \/ Abort(j)
  PROVE  Signalled'
<1>1. /\ semaphore \in Nat /\ Owed \in Nat /\ Len(queue) \in Nat
      /\ Cardinality(Fetching) \in Nat /\ Cardinality(Alive) \in Nat
  BY OwedType, QueuedJobs, FetchingFinite, AliveFinite DEF IInv, TypeOK
<1>2. CASE Abort(j)
  <2>1. UNCHANGED <<queue, semaphore, shutdown, main, signals, worker>>
    BY <1>2 DEF Abort
  <2>2. Owed' = Owed /\ Fetching' = Fetching /\ Alive' = Alive
    BY <2>1 DEF Owed, Fetching, Alive
  <2> QED
    BY <2>1, <2>2 DEF Signalled
<1>3. CASE Add(j) /\ shutdown
  BY <1>3 DEF Add, Signalled, IInv, Phases
<1>4. CASE Add(j) /\ ~shutdown
  <2>1. /\ main = "idle" /\ main' = "signal" /\ queue' = Append(queue, j)
        /\ UNCHANGED <<semaphore, shutdown, worker>>
    BY <1>4 DEF Add, IInv, Phases
  <2>2. Len(queue') = Len(queue) + 1
    BY <2>1, QueuedJobs
  <2>3. Owed = 0 /\ Owed' = 1 /\ Fetching' = Fetching
    BY <2>1 DEF Owed, Fetching
  <2>4. semaphore + Owed + Cardinality(Fetching) >= Len(queue)
    BY <1>1, <1>4, <2>1 DEF Signalled
  <2>5. semaphore + Owed' + Cardinality(Fetching) >= Len(queue')
    BY <1>1, <2>2, <2>3, <2>4
  <2> QED
    BY <1>1, <1>4, <2>1, <2>2, <2>3, <2>5 DEF Signalled
<1> QED
  BY <1>2, <1>3, <1>4

LEMMA CheckSignalled ==
  ASSUME IInv, Signalled, NEW w \in Workers, Check(w)
  PROVE  Signalled'
<1>1. Fetching' = Fetching /\ Alive' = Alive
  BY DEF Check, Goto, Fetching, Alive, IInv, TypeOK, Phases
<1>2. Owed' = Owed /\ UNCHANGED <<queue, semaphore, shutdown, main>>
  BY DEF Check, Owed
<1> QED
  BY <1>1, <1>2 DEF Signalled

LEMMA SignalledNext == IInv /\ Signalled /\ [Next]_vars => Signalled'
<1> SUFFICES ASSUME IInv, Signalled, [Next]_vars
             PROVE  Signalled'
  OBVIOUS
<1>1. CASE UNCHANGED vars
  BY <1>1 DEF vars, Signalled, Owed, Fetching, Alive
<1>2. ASSUME NEW w \in Workers, RunLoop(w)
      PROVE  Signalled'
  BY <1>2, WaitSignalled, FetchSignalled, CheckSignalled, BusyStep DEF RunLoop
<1>3. CASE Start
  <2>1. Fetching' = {}
    BY <1>3 DEF Start, Fetching
  <2>2. Cardinality(Fetching') = 0
    BY <2>1, FS_EmptySet
  <2>3. semaphore' = 0 /\ Len(queue') = 0 /\ ~shutdown' /\ Owed' = 0
    BY <1>3 DEF Start, Owed
  <2> QED
    BY <2>2, <2>3 DEF Signalled
<1> QED
  BY <1>1, <1>2, <1>3, AddSignalled, MainSignalled DEF Next

\* A worker waits for ever on the semaphore, or Add or Shutdown in CJobPool, only
\* when there is nothing to do: whatever the order of the two scans of Shutdown,
\* the signals and the workers, there is a thread that can go on until each job
\* is done and Shutdown has returned.
THEOREM NoDeadlock == Spec => []NeverStuck
<1>1. Init => Signalled
  BY DEF Init, Signalled
<1>2. ASSUME IInv, Signalled, ~MainMoves, \A w \in Workers : ~WorkerMoves(w)
      PROVE  main \in {"off", "idle"} /\ queue = <<>>
  <2>0. semaphore \in Nat /\ signals \in Nat /\ Owed \in Nat
    BY <1>2, OwedType DEF IInv, TypeOK
  <2>1. \A w \in Workers : worker[w] = "none" \/ (worker[w] = "wait" /\ semaphore = 0)
    BY <1>2, <2>0 DEF WorkerMoves
  <2>2. Fetching = {} /\ Cardinality(Fetching) = 0
    BY <2>1, FS_EmptySet DEF Fetching
  <2>3. main \in {"off", "idle"} \/ (main = "wake" /\ signals = 0)
    <3>1. main \in {"off", "idle", "signal", "abort queued", "abort running", "wake"}
      BY <1>2 DEF IInv, TypeOK
    <3>2. /\ main \notin {"signal", "abort queued", "abort running"}
          /\ ~(main = "wake" /\ signals > 0)
      BY <1>2 DEF MainMoves
    <3>3. ~(signals > 0) => signals = 0
      BY <2>0
    <3> QED
      BY <3>1, <3>2, <3>3
  <2>4. Owed = 0
    BY <2>3 DEF Owed
  <2>5. /\ semaphore \in Nat /\ Len(queue) \in Nat
        /\ Cardinality(Alive) \in Nat
    BY QueuedJobs, AliveFinite, <1>2 DEF IInv, TypeOK
  <2>6. CASE main = "off"
    BY <1>2, <2>6, WorkersAssumption DEF IInv, Phases
  <2>7. CASE main # "off" /\ semaphore = 0
    <3>1. 0 >= Len(queue) + (IF shutdown THEN Cardinality(Alive) ELSE 0)
      BY <1>2, <2>2, <2>4, <2>5, <2>7 DEF Signalled
    <3>2. Len(queue) = 0 /\ (shutdown => Cardinality(Alive) = 0)
      BY <2>5, <3>1
    <3>3. queue = <<>>
      BY <3>2, QueuedJobs, EmptySeq, <1>2
    <3>4. main = "wake" => Alive = {}
      BY <1>2, <3>2, AliveFinite, FS_EmptySet DEF IInv, Phases
    <3>5. main # "wake"
      BY <1>2, <2>1, <3>4 DEF MainMoves, Alive
    <3> QED
      BY <2>3, <2>7, <3>3, <3>5
  <2>8. CASE main # "off" /\ semaphore # 0
    <3>1. \A w \in Workers : worker[w] = "none"
      BY <2>1, <2>8
    <3>2. queue = <<>> /\ shutdown
      BY <1>2, <3>1, WorkersAssumption DEF IInv, Phases
    <3>3. main = "wake"
      BY <1>2, <2>3, <2>8, <3>2 DEF IInv, Phases
    <3> QED
      BY <1>2, <3>1, <3>3 DEF MainMoves
  <2> QED
    BY <2>6, <2>7, <2>8
<1>3. ASSUME IInv, Signalled
      PROVE  NeverStuck
  <2> SUFFICES ASSUME ~MainMoves, \A w \in Workers : ~WorkerMoves(w)
               PROVE  main \in {"off", "idle"} /\ \A j \in accepted : Done(j)
    BY DEF NeverStuck
  <2>1. main \in {"off", "idle"} /\ queue = <<>>
    BY <1>2, <1>3
  <2>2. \A w \in Workers : job[w] = NoJob
    BY <1>3 DEF WorkerMoves, Holding, IInv, TypeOK, Ownership
  <2>3. \A j \in accepted : ~Queued(j) /\ ~Held(j)
    <3>1. \A j \in accepted : ~Queued(j)
      BY <2>1 DEF Queued
    <3>2. \A j \in accepted : j # NoJob
      BY <1>3, JobsAssumption DEF IInv, TypeOK
    <3> QED
      BY <2>2, <3>1, <3>2 DEF Held
  <2> QED
    BY <1>3, <2>1, <2>3 DEF IInv, Kept
<1> QED
  BY <1>1, <1>3, SignalledNext, Invariant, PTL DEF Spec
=============================================================================
