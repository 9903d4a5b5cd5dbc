---------------------------- MODULE DbPoolProofs ----------------------------
(***************************************************************************)
(* Proofs about DbPool.  For every size of the ring and however many       *)
(* queries are outstanding: no rank that has been stored is lost, results  *)
(* are honest, the worker does not overtake the backup thread.  As long as *)
(* fewer queries are outstanding than the ring has slots: a shutdown works *)
(* off every query, in order.                                              *)
(***************************************************************************)
EXTENDS DbPool, SequenceNumbers

-----------------------------------------------------------------------------
(* The inductive invariant.                                                *)

Slots == 0 .. RingSize - 1

\* Numbers of queries that exist are below the number of queries.
Known ==
  /\ Len(queries) <= MaxQueries
  /\ \A i \in Slots : ring[i] < Len(queries)
  /\ worker.query < Len(queries)
  /\ \A q \in stored : q < Len(queries) /\ KindOf(q) = "write"
  /\ \A k \in 1 .. Len(results) : results[k].query < Len(queries)

\* A query has one place: a slot, the hands of the worker, or the results.
Places ==
  /\ \A i, j \in Slots : ring[i] = ring[j] /\ ring[i] # Empty => i = j
  /\ \A i \in Slots : ring[i] # Empty => ring[i] # worker.query
  /\ \A i \in Slots, k \in 1 .. Len(results) : results[k].query # ring[i]
  /\ \A k \in 1 .. Len(results) : results[k].query # worker.query

\* The worker holds a query from taking it to completing it.
Position ==
  /\ worker.pc \in {"wait", "exited"} <=> worker.query = Empty
  /\ worker.pc \in Kind => worker.pc = KindOf(worker.query)

\* A stored rank stays in the _backup table until its query is complete.
Safe ==
  \A q \in stored : \/ q \in pending
                    \/ q = worker.query /\ worker.pc = "complete"
                    \/ \E k \in 1 .. Len(results) : results[k].query = q

\* What the worker knows about the rank it holds.
Answer ==
  /\ worker.pc = "backup" /\ worker.success => worker.query \in ranks
  /\ worker.pc = "delete" /\ worker.query \in stored => worker.query \in ranks \cup moved
  /\ worker.pc = "complete" /\ worker.query \in stored
       => IF worker.success THEN worker.query \in ranks \cup moved ELSE worker.query \in pending

\* Every signal for the worker is a query the backup thread has passed on, or its end.
Exited(thread) == IF thread.pc = "exited" THEN 1 ELSE 0
Tokens == numWorker + worker.num + Exited(worker) = backup.num + Exited(backup)

IInv == TypeOK /\ Known /\ Places /\ Position /\ Safe /\ Answer /\ HonestResults /\ Tokens

-----------------------------------------------------------------------------
(* The invariant of the order, which needs a bound on the queries outstanding. *)

\* The slots hold the queries from worker.num on, each in its own.
Ring ==
  /\ insertIdx = Len(queries) % RingSize
  /\ worker.num <= Len(queries) /\ backup.num <= Len(queries)
  /\ Len(queries) - worker.num <= Outstanding
  /\ \A q \in worker.num .. Len(queries) - 1 : ring[q % RingSize] = q
  /\ \A i \in Slots : ring[i] # Empty => ring[i] >= worker.num /\ i = ring[i] % RingSize

\* OnShutdown has come to its signal.
Signalled == main \notin {"running", "signal"}

\* Every signal for the backup thread is a query or the shutdown.
Signals ==
  /\ numBackup + backup.num + (IF backup.pc = "wait" THEN 0 ELSE 1)
       = Len(queries) + (IF Signalled THEN 1 ELSE 0)
  /\ backup.pc = "signal" => backup.num < Len(queries)

\* The threads end in a shutdown, after the last query; the main thread waits for that.
Ends ==
  /\ backup.pc = "exited" => Signalled /\ backup.num = Len(queries)
  /\ worker.pc = "exited" => Signalled /\ worker.num = Len(queries)
  /\ main = "signal" => shutdown
  /\ main = "shutdown" => shutdown \/ worker.pc = "exited"
  /\ main \in {"destructor", "joined"} => worker.pc = "exited"

\* Results come in the order of the queries.
Completed ==
  /\ Len(results) = worker.num - (IF worker.query = Empty THEN 0 ELSE 1)
  /\ \A k \in 1 .. Len(results) : results[k].query = k - 1
  /\ worker.query # Empty => worker.query = worker.num - 1

Order == Ring /\ Signals /\ Ends /\ Completed

-----------------------------------------------------------------------------
(* Each action preserves IInv.                                             *)

\* The slots the threads look at exist.
LEMMA SlotIndex == \A n \in Nat : n % RingSize \in Slots
BY RingAssumption, ModRange DEF Slots

\* A result is about a query.
LEMMA ResultType ==
  TypeOK => \A k \in 1 .. Len(results) : results[k].query \in Query /\ results[k].success \in BOOLEAN
<1> SUFFICES ASSUME TypeOK, NEW k \in 1 .. Len(results)
             PROVE  results[k].query \in Query /\ results[k].success \in BOOLEAN
  OBVIOUS
<1> DEFINE Result == [query : Query, success : BOOLEAN]
<1>1. results \in Seq(Result)
  BY DEF TypeOK
<1> HIDE DEF Result
<1>2. results[k] \in Result
  BY <1>1
<1> QED
  BY <1>2 DEF Result

\* A new query does not change the kind of the others.
LEMMA KindStays ==
  ASSUME TypeOK, NEW kind \in Kind, queries' = Append(queries, kind)
  PROVE  /\ Len(queries') = Len(queries) + 1
         /\ \A q \in Query : q < Len(queries) => KindOf(q)' = KindOf(q)
BY DEF TypeOK, Query, KindOf

\* The empty ring and the idle threads satisfy the invariant.
LEMMA InitIInv == Init => IInv
<1> SUFFICES ASSUME Init PROVE IInv
  OBVIOUS
<1>1. TypeOK
  <2>1. ring \in [0 .. RingSize - 1 -> Query \cup {Empty}] /\ insertIdx \in 0 .. RingSize - 1
    BY RingAssumption DEF Init
  <2>2. /\ backup \in [pc : {"wait", "signal", "exited"}, num : Nat, db : BOOLEAN]
        /\ worker \in [pc : Kind \cup {"wait", "backup", "delete", "complete", "exited"},
                       num : Nat, query : Query \cup {Empty}, success : BOOLEAN,
                       failMode : BOOLEAN, reads : BOOLEAN, write : BOOLEAN, backup : BOOLEAN]
    BY DEF Init
  <2>3. queries \in Seq(Kind) /\ results \in Seq([query : Query, success : BOOLEAN])
    BY DEF Init
  <2> QED
    BY <2>1, <2>2, <2>3 DEF Init, TypeOK
<1>2. Known
  BY BoundsAssumption DEF Init, Known, Slots, Empty
<1>3. Places /\ Position
  BY DEF Init, Places, Position, Slots, Kind
<1>4. Safe /\ Answer /\ HonestResults
  BY DEF Init, Safe, Answer, HonestResults
<1>5. Tokens
  BY DEF Init, Tokens, Exited
<1> QED
  BY <1>1, <1>2, <1>3, <1>4, <1>5 DEF IInv

\* A query that is queued is new: no slot and no thread knows it.
LEMMA EnqueueStep ==
  ASSUME IInv, NEW kind \in Kinds, Enqueue(kind)
  PROVE  IInv'
<1>1. /\ kind \in Kind /\ Len(queries) \in Nat /\ Len(queries) < MaxQueries
      /\ MaxQueries \in Nat /\ insertIdx \in Slots
      /\ ring \in [Slots -> Query \cup {Empty}]
  BY BoundsAssumption DEF IInv, TypeOK, Enqueue, Slots
<1>2. /\ queries' = Append(queries, kind)
      /\ ring' = [ring EXCEPT ![insertIdx] = Len(queries)]
      /\ numBackup' = numBackup + 1
      /\ UNCHANGED <<numWorker, shutdown, main, backup, worker, ranks, pending, moved,
                     stored, results>>
  BY DEF Enqueue, threads, databases
<1>3. /\ queries' \in Seq(Kind) /\ Len(queries') = Len(queries) + 1
      /\ \A q \in Query : q < Len(queries) => KindOf(q)' = KindOf(q)
  BY <1>1, <1>2, KindStays DEF IInv, TypeOK
<1>4. /\ ring'[insertIdx] = Len(queries)
      /\ \A i \in Slots : i # insertIdx => ring'[i] = ring[i]
  BY <1>1, <1>2
<1>5. TypeOK'
  <2>1. insertIdx' \in 0 .. RingSize - 1
    <3>1. insertIdx' = (insertIdx + 1) % RingSize /\ insertIdx + 1 \in Nat
      BY <1>1 DEF Enqueue, NextSlot, Slots
    <3> QED
      BY <3>1, SlotIndex DEF Slots
  <2>2. ring' \in [0 .. RingSize - 1 -> Query \cup {Empty}]
    BY <1>1, <1>2 DEF Query, Slots
  <2>3. numBackup' \in Nat
    BY <1>2 DEF IInv, TypeOK
  <2> QED
    BY <1>2, <1>3, <2>1, <2>2, <2>3 DEF IInv, TypeOK
<1>6. Known'
  <2>1. \A i \in Slots : ring'[i] < Len(queries')
    BY <1>1, <1>3, <1>4 DEF IInv, Known, Query, Empty
  <2>2. worker'.query < Len(queries')
    BY <1>1, <1>2, <1>3 DEF IInv, TypeOK, Known, Query, Empty
  <2>3. \A q \in stored' : q < Len(queries') /\ KindOf(q)' = "write"
    BY <1>1, <1>2, <1>3 DEF IInv, TypeOK, Known, Query
  <2>4. \A k \in 1 .. Len(results') : results'[k].query < Len(queries')
    BY <1>1, <1>2, <1>3, ResultType DEF IInv, Known, Query
  <2> QED
    BY <1>1, <1>3, <2>1, <2>2, <2>3, <2>4 DEF Known
<1>7. Places'
  <2>1. \A i \in Slots : i # insertIdx => ring[i] # Len(queries)
    BY <1>1 DEF IInv, Known
  <2>2. worker.query # Len(queries) /\ \A k \in 1 .. Len(results) : results[k].query # Len(queries)
    BY <1>1 DEF IInv, Known
  <2> QED
    BY <1>2, <1>4, <2>1, <2>2 DEF IInv, Places
<1>8. Position'
  BY <1>2, <1>3 DEF IInv, TypeOK, Known, Position, Kind, Empty, Query
<1>9. Safe' /\ Answer' /\ HonestResults'
  BY <1>2 DEF IInv, Safe, Answer, HonestResults
<1>10. Tokens'
  BY <1>2 DEF IInv, Tokens, Exited
<1> QED
  BY <1>5, <1>6, <1>7, <1>8, <1>9, <1>10 DEF IInv

\* A step that changes neither the ring nor what the worker holds only has to keep the
\* types and the count of the signals.
LEMMA SignalStep ==
  ASSUME IInv, TypeOK', Tokens',
         UNCHANGED <<ring, databases, queries, stored, results>>,
         worker'.query = worker.query, worker'.success = worker.success,
         worker'.pc = worker.pc \/ (worker.pc = "wait" /\ worker'.pc = "exited")
  PROVE  IInv'
<1>1. Known' /\ Places'
  BY DEF IInv, Known, Places, KindOf
<1>2. Position'
  BY DEF IInv, Position, KindOf, Kind
<1>3. Safe' /\ HonestResults'
  BY DEF IInv, Safe, HonestResults, databases
<1>4. Answer'
  BY DEF IInv, Answer, databases
<1> QED
  BY <1>1, <1>2, <1>3, <1>4 DEF IInv

\* The main thread in OnShutdown and the destructor.
LEMMA MainStep ==
  ASSUME IInv, OnShutdown \/ SignalShutdown \/ OnShutdownReturns \/ Join
  PROVE  IInv'
<1>1. UNCHANGED <<ring, insertIdx, numWorker, backup, worker, databases, queries, stored, results>>
  BY DEF OnShutdown, SignalShutdown, OnShutdownReturns, Join
<1>2. /\ numBackup' \in Nat /\ shutdown' \in BOOLEAN
      /\ main' \in {"running", "signal", "shutdown", "destructor", "joined"}
  <2>1. CASE OnShutdown
    BY <2>1 DEF IInv, TypeOK, OnShutdown
  <2>2. CASE SignalShutdown
    BY <2>2 DEF IInv, TypeOK, SignalShutdown
  <2>3. CASE OnShutdownReturns \/ Join
    BY <2>3 DEF IInv, TypeOK, OnShutdownReturns, Join
  <2> QED
    BY <2>1, <2>2, <2>3
<1>3. TypeOK'
  BY <1>1, <1>2 DEF IInv, TypeOK, databases
<1>4. Tokens'
  BY <1>1 DEF IInv, Tokens, Exited
<1> QED
  BY <1>1, <1>3, <1>4, SignalStep

\* The backup thread ends, or passes a query on.
LEMMA BackupSignalStep ==
  ASSUME IInv, BackupEnd \/ BackupSignal
  PROVE  IInv'
<1>1. UNCHANGED <<ring, insertIdx, shutdown, main, worker, databases, queries, stored, results>>
  BY DEF BackupEnd, BackupSignal
<1>2. /\ numBackup \in Nat /\ numWorker \in Nat
      /\ backup \in [pc : {"wait", "signal", "exited"}, num : Nat, db : BOOLEAN]
  BY DEF IInv, TypeOK
<1>3. /\ numBackup' \in Nat /\ numWorker' = numWorker + 1
      /\ backup' \in [pc : {"wait", "signal", "exited"}, num : Nat, db : BOOLEAN]
      /\ backup'.num + Exited(backup') = backup.num + Exited(backup) + 1
  <2>1. CASE BackupEnd
    <3>1. /\ numBackup > 0 /\ numBackup' = numBackup - 1 /\ numWorker' = numWorker + 1
          /\ backup.pc = "wait" /\ backup' = [backup EXCEPT !.pc = "exited"]
      BY <2>1 DEF BackupEnd
    <3>2. /\ backup' \in [pc : {"wait", "signal", "exited"}, num : Nat, db : BOOLEAN]
          /\ backup'.num = backup.num /\ backup'.pc = "exited"
      BY <1>2, <3>1
    <3> QED
      BY <1>2, <3>1, <3>2 DEF Exited
  <2>2. CASE BackupSignal
    <3>1. /\ numBackup' = numBackup /\ numWorker' = numWorker + 1
          /\ backup.pc = "signal" /\ backup' = [backup EXCEPT !.pc = "wait", !.num = @ + 1]
      BY <2>2 DEF BackupSignal
    <3>2. /\ backup' \in [pc : {"wait", "signal", "exited"}, num : Nat, db : BOOLEAN]
          /\ backup'.num = backup.num + 1 /\ backup'.pc = "wait"
      <4>1. backup.num \in Nat /\ backup.num + 1 \in Nat
        BY <1>2
      <4> QED
        BY <1>2, <3>1, <4>1
    <3> QED
      BY <1>2, <3>1, <3>2 DEF Exited
  <2> QED
    BY <2>1, <2>2
<1>4. TypeOK'
  BY <1>1, <1>2, <1>3 DEF IInv, TypeOK, databases
<1>5. Tokens'
  <2>1. Exited(backup) \in Nat /\ Exited(backup') \in Nat /\ Exited(worker) \in Nat /\ worker.num \in Nat
    BY DEF Exited, IInv, TypeOK
  <2>2. Exited(worker)' = Exited(worker) /\ Exited(backup)' = Exited(backup') /\ worker' = worker
    BY <1>1 DEF Exited
  <2> QED
    BY <1>2, <1>3, <2>1, <2>2 DEF IInv, Tokens
<1> QED
  BY <1>1, <1>4, <1>5, SignalStep

\* The worker ends.
LEMMA WorkerEndStep ==
  ASSUME IInv, WorkerEnd
  PROVE  IInv'
<1>1. UNCHANGED <<ring, insertIdx, numBackup, main, backup, databases, queries, stored, results>>
  BY DEF WorkerEnd
<1>2. numWorker \in Nat /\ numWorker > 0 /\ numWorker' = numWorker - 1 /\ shutdown' = FALSE
  BY DEF IInv, TypeOK, WorkerEnd
<1>3. /\ worker.pc = "wait"
      /\ worker' = [worker EXCEPT !.pc = "exited"]
  BY DEF WorkerEnd
<1>4. worker \in [pc : Kind \cup {"wait", "backup", "delete", "complete", "exited"},
                 num : Nat, query : Query \cup {Empty}, success : BOOLEAN, failMode : BOOLEAN,
                 reads : BOOLEAN, write : BOOLEAN, backup : BOOLEAN]
  BY DEF IInv, TypeOK
<1>5. TypeOK'
  <2>1. worker' \in [pc : Kind \cup {"wait", "backup", "delete", "complete", "exited"},
                    num : Nat, query : Query \cup {Empty}, success : BOOLEAN, failMode : BOOLEAN,
                    reads : BOOLEAN, write : BOOLEAN, backup : BOOLEAN]
    BY <1>3, <1>4
  <2>2. numWorker' \in Nat
    BY <1>2
  <2>3. shutdown' \in BOOLEAN
    BY <1>2, Zenon
  <2> QED
    BY <1>1, <2>1, <2>2, <2>3 DEF IInv, TypeOK, databases
<1>6. Tokens'
  <2>1. worker'.num = worker.num /\ worker'.pc = "exited" /\ worker.num \in Nat
    BY <1>3, <1>4
  <2>2. backup.num \in Nat /\ Exited(backup) \in Nat /\ Exited(backup)' = Exited(backup)
    BY <1>1 DEF IInv, TypeOK, Exited
  <2> QED
    BY <1>1, <1>2, <1>3, <2>1, <2>2 DEF IInv, Tokens, Exited
<1>7. worker'.query = worker.query /\ worker'.success = worker.success /\ worker'.pc = "exited"
  BY <1>3, <1>4
<1> QED
  BY <1>1, <1>3, <1>5, <1>6, <1>7, SignalStep

\* A write the backup thread stores is in the _backup table, and nobody has worked on it yet.
LEMMA BackupTakeStep ==
  ASSUME IInv, BackupTake
  PROVE  IInv'
<1> DEFINE q == BackupSlot
<1>1. /\ UNCHANGED <<ring, insertIdx, numWorker, shutdown, main, worker, ranks, moved, queries, results>>
      /\ numBackup' \in Nat
      /\ backup' \in [pc : {"wait", "signal", "exited"}, num : Nat, db : BOOLEAN]
      /\ backup.pc = "wait" /\ backup'.pc = "signal" /\ backup'.num = backup.num
  <2>1. numBackup' \in Nat
    <3>1. numBackup \in Nat /\ numBackup > 0 /\ numBackup' = numBackup - 1
      BY DEF IInv, TypeOK, BackupTake
    <3> QED
      BY <3>1
  <2>2. backup \in [pc : {"wait", "signal", "exited"}, num : Nat, db : BOOLEAN]
    BY DEF IInv, TypeOK
  <2>3. \/ backup' = [backup EXCEPT !.pc = "signal", !.db = TRUE]
        \/ backup' = [backup EXCEPT !.pc = "signal"]
    BY DEF BackupTake
  <2> QED
    BY <2>1, <2>2, <2>3 DEF BackupTake
<1>2. backup.num % RingSize \in Slots /\ q = ring[backup.num % RingSize] /\ q # Empty
  BY SlotIndex DEF IInv, TypeOK, BackupTake, BackupSlot
<1>3. \/ UNCHANGED <<pending, stored>>
      \/ /\ pending' = pending \cup {q} /\ stored' = stored \cup {q} /\ KindOf(q) = "write"
  BY DEF BackupTake
<1>4. q \in Query /\ q < Len(queries)
  BY <1>2 DEF IInv, TypeOK, Known, Slots
<1>5. q # worker.query /\ \A k \in 1 .. Len(results) : results[k].query # q
  BY <1>2 DEF IInv, Places
<1> HIDE DEF q
<1>6. TypeOK'
  BY <1>1, <1>3, <1>4 DEF IInv, TypeOK
<1>7. Known' /\ Places' /\ Position'
  BY <1>1, <1>3, <1>4 DEF IInv, Known, Places, Position, KindOf
<1>8. Safe'
  BY <1>1, <1>3 DEF IInv, Safe
<1>9. Answer'
  BY <1>1, <1>3, <1>5 DEF IInv, Answer
<1>10. HonestResults'
  BY <1>1, <1>3, <1>5 DEF IInv, TypeOK, HonestResults
<1>11. Tokens'
  BY <1>1 DEF IInv, Tokens, Exited
<1> QED
  BY <1>6, <1>7, <1>8, <1>9, <1>10, <1>11 DEF IInv

\* A step of the worker on the query it holds: it can only take that query out of the
\* _backup table, and has to know what has become of it.
LEMMA HoldStep ==
  ASSUME IInv, TypeOK', Answer',
         UNCHANGED <<ring, numWorker, backup, queries, stored, results>>,
         worker'.num = worker.num, worker'.query = worker.query, worker.query # Empty,
         worker.pc # "complete", worker'.pc \in {"backup", "delete", "complete"},
         ranks \subseteq ranks', moved \subseteq moved', pending \ {worker.query} \subseteq pending',
         worker.query \in stored => worker.query \in pending' \/ worker'.pc = "complete"
  PROVE  IInv'
<1>1. Known' /\ Places'
  BY DEF IInv, Known, Places, KindOf
<1>2. Position'
  BY DEF IInv, Position, Kind
<1>3. Safe'
  BY DEF IInv, Safe
<1>4. HonestResults'
  BY ResultType DEF IInv, TypeOK, HonestResults, Places
<1>5. Tokens'
  <2>1. Exited(worker)' = Exited(worker) /\ Exited(backup)' = Exited(backup)
    BY DEF IInv, Position, Exited
  <2> QED
    BY <2>1 DEF IInv, Tokens
<1> QED
  BY <1>1, <1>2, <1>3, <1>4, <1>5 DEF IInv

\* While the worker holds a query, it is in none of the other places.
LEMMA Held ==
  ASSUME IInv, worker.pc \notin {"wait", "exited"}
  PROVE  /\ worker.query # Empty /\ worker.query \in Query
         /\ worker.query \in stored /\ worker.pc # "complete" => worker.query \in pending
<1>1. worker.query # Empty /\ worker.query \in Query
  BY DEF IInv, TypeOK, Position
<1>2. worker.query \in stored /\ worker.pc # "complete" => worker.query \in pending
  BY DEF IInv, Safe, Places
<1> QED
  BY <1>1, <1>2

\* A read is about no rank.
LEMMA WorkerReadStep ==
  ASSUME IInv, WorkerRead
  PROVE  IInv'
<1>1. PICK success \in BOOLEAN :
        worker' = [worker EXCEPT !.pc = "complete", !.success = success,
                                 !.failMode = @ \/ ~success]
  BY DEF WorkerRead
<1>2. /\ worker.pc = "read"
      /\ UNCHANGED <<ring, insertIdx, numBackup, numWorker, shutdown, main, backup, databases,
                     queries, stored, results>>
  BY DEF WorkerRead
<1>3. worker \in [pc : Kind \cup {"wait", "backup", "delete", "complete", "exited"},
                  num : Nat, query : Query \cup {Empty}, success : BOOLEAN, failMode : BOOLEAN,
                  reads : BOOLEAN, write : BOOLEAN, backup : BOOLEAN]
  BY DEF IInv, TypeOK
<1>4. /\ worker' \in [pc : Kind \cup {"wait", "backup", "delete", "complete", "exited"},
                      num : Nat, query : Query \cup {Empty}, success : BOOLEAN, failMode : BOOLEAN,
                      reads : BOOLEAN, write : BOOLEAN, backup : BOOLEAN]
      /\ worker'.pc = "complete" /\ worker'.num = worker.num /\ worker'.query = worker.query
  BY <1>1, <1>3
<1>5. TypeOK'
  BY <1>2, <1>4 DEF IInv, TypeOK, databases
<1>6. worker.query \notin stored
  BY <1>2 DEF IInv, Known, Position, Kind
<1>7. Answer'
  BY <1>2, <1>4, <1>6 DEF Answer
<1> QED
  BY <1>2, <1>4, <1>5, <1>6, <1>7, Held, HoldStep DEF databases

\* ADD and PRINT are about no rank.
LEMMA WorkerAddStep ==
  ASSUME IInv, WorkerAdd
  PROVE  IInv'
<1>1. /\ worker.pc \in {"add read", "add write", "add backup", "print"}
      /\ worker' = [worker EXCEPT !.pc = "complete", !.success = TRUE,
                                  !.reads = @ \/ worker.pc = "add read",
                                  !.write = @ \/ worker.pc = "add write",
                                  !.backup = @ \/ worker.pc = "add backup"]
      /\ UNCHANGED <<ring, insertIdx, numBackup, numWorker, shutdown, main, backup, databases,
                     queries, stored, results>>
  BY DEF WorkerAdd
<1>2. worker \in [pc : Kind \cup {"wait", "backup", "delete", "complete", "exited"},
                  num : Nat, query : Query \cup {Empty}, success : BOOLEAN, failMode : BOOLEAN,
                  reads : BOOLEAN, write : BOOLEAN, backup : BOOLEAN]
  BY DEF IInv, TypeOK
<1>3. /\ worker' \in [pc : Kind \cup {"wait", "backup", "delete", "complete", "exited"},
                      num : Nat, query : Query \cup {Empty}, success : BOOLEAN, failMode : BOOLEAN,
                      reads : BOOLEAN, write : BOOLEAN, backup : BOOLEAN]
      /\ worker'.pc = "complete" /\ worker'.num = worker.num /\ worker'.query = worker.query
  <2> DEFINE R == worker.reads \/ worker.pc = "add read"
             W == worker.write \/ worker.pc = "add write"
             B == worker.backup \/ worker.pc = "add backup"
  <2>1. R \in BOOLEAN /\ W \in BOOLEAN /\ B \in BOOLEAN
    OBVIOUS
  <2>2. worker' = [worker EXCEPT !.pc = "complete", !.success = TRUE, !.reads = R, !.write = W,
                                 !.backup = B]
    BY <1>1
  <2> HIDE DEF R, W, B
  <2> QED
    BY <1>2, <2>1, <2>2
<1>4. TypeOK'
  BY <1>1, <1>3 DEF IInv, TypeOK, databases
<1>5. worker.query \notin stored
  BY <1>1 DEF IInv, Known, Position, Kind
<1>6. Answer'
  BY <1>1, <1>3, <1>5 DEF Answer
<1> QED
  BY <1>1, <1>3, <1>4, <1>5, <1>6, Held, HoldStep DEF databases

\* A write that is reported as executed is in the table.
LEMMA WorkerWriteStep ==
  ASSUME IInv, WorkerWrite
  PROVE  IInv'
<1>1. PICK success \in BOOLEAN, executed \in BOOLEAN :
        /\ success => executed
        /\ ranks' = IF executed THEN ranks \cup {worker.query} ELSE ranks
        /\ worker' = [worker EXCEPT !.success = success,
                                    !.failMode = @ \/ ~success,
                                    !.pc = IF worker.backup THEN "backup" ELSE "complete"]
  BY DEF WorkerWrite
<1>2. /\ worker.pc = "write"
      /\ UNCHANGED <<ring, insertIdx, numBackup, numWorker, shutdown, main, backup, pending, moved,
                     queries, stored, results>>
  BY DEF WorkerWrite
<1>3. worker \in [pc : Kind \cup {"wait", "backup", "delete", "complete", "exited"},
                  num : Nat, query : Query \cup {Empty}, success : BOOLEAN, failMode : BOOLEAN,
                  reads : BOOLEAN, write : BOOLEAN, backup : BOOLEAN]
  BY DEF IInv, TypeOK
<1>4. /\ worker' \in [pc : Kind \cup {"wait", "backup", "delete", "complete", "exited"},
                      num : Nat, query : Query \cup {Empty}, success : BOOLEAN, failMode : BOOLEAN,
                      reads : BOOLEAN, write : BOOLEAN, backup : BOOLEAN]
      /\ worker'.pc \in {"backup", "complete"} /\ worker'.success = success
      /\ worker'.num = worker.num /\ worker'.query = worker.query
  BY <1>1, <1>3
<1>5. /\ worker.query \in Query /\ worker.query # Empty
      /\ worker.query \in stored => worker.query \in pending
  BY <1>2, Held
<1>6. success => worker.query \in ranks'
  BY <1>1
<1>7. TypeOK'
  BY <1>1, <1>2, <1>4, <1>5 DEF IInv, TypeOK
<1>8. Answer'
  <2>1. worker'.pc = "backup" /\ worker'.success => worker'.query \in ranks'
    BY <1>4, <1>6
  <2>2. worker'.pc = "complete" /\ worker'.query \in stored'
          => IF worker'.success THEN worker'.query \in ranks' \cup moved'
                                ELSE worker'.query \in pending'
    BY <1>2, <1>4, <1>5, <1>6
  <2> QED
    BY <1>4, <2>1, <2>2 DEF Answer
<1>9. ranks \subseteq ranks' /\ moved \subseteq moved' /\ pending' = pending
  BY <1>1, <1>2
<1> QED
  BY <1>2, <1>4, <1>5, <1>7, <1>8, <1>9, HoldStep

\* The rank is deleted from the _backup table only when it is in another one.
LEMMA WorkerBackupInsertStep ==
  ASSUME IInv, WorkerBackupInsert
  PROVE  IInv'
<1>1. /\ worker.pc = "backup"
      /\ UNCHANGED <<ring, insertIdx, numBackup, numWorker, shutdown, main, backup, ranks, pending,
                     queries, stored, results>>
  BY DEF WorkerBackupInsert
<1>2. \/ /\ worker.success
         /\ worker' = [worker EXCEPT !.pc = "delete"]
         /\ moved' = moved
      \/ /\ ~worker.success
         /\ worker' = [worker EXCEPT !.pc = "delete"]
         /\ moved' = moved \cup ({worker.query} \cap pending)
      \/ /\ worker' = [worker EXCEPT !.pc = "complete"]
         /\ moved' = moved
  BY DEF WorkerBackupInsert, BackupMode
<1>3. worker \in [pc : Kind \cup {"wait", "backup", "delete", "complete", "exited"},
                  num : Nat, query : Query \cup {Empty}, success : BOOLEAN, failMode : BOOLEAN,
                  reads : BOOLEAN, write : BOOLEAN, backup : BOOLEAN]
  BY DEF IInv, TypeOK
<1>4. /\ worker' \in [pc : Kind \cup {"wait", "backup", "delete", "complete", "exited"},
                      num : Nat, query : Query \cup {Empty}, success : BOOLEAN, failMode : BOOLEAN,
                      reads : BOOLEAN, write : BOOLEAN, backup : BOOLEAN]
      /\ worker'.pc \in {"delete", "complete"} /\ worker'.success = worker.success
      /\ worker'.num = worker.num /\ worker'.query = worker.query
  BY <1>2, <1>3
<1>5. /\ worker.query \in Query /\ worker.query # Empty
      /\ worker.query \in stored => worker.query \in pending
  BY <1>1, Held
<1>6. /\ worker.success => worker.query \in ranks
      /\ worker'.pc = "delete" /\ ~worker.success => moved' = moved \cup ({worker.query} \cap pending)
  <2>1. worker'.pc = "delete" /\ ~worker.success => moved' = moved \cup ({worker.query} \cap pending)
    BY <1>2, <1>3
  <2> QED
    BY <1>1, <2>1 DEF IInv, Answer
<1>7. moved \subseteq moved' /\ moved' \subseteq moved \cup {worker.query}
  BY <1>2
<1>8. TypeOK'
  BY <1>1, <1>4, <1>5, <1>7 DEF IInv, TypeOK
<1>9. Answer'
  <2>1. worker'.pc = "delete" /\ worker'.query \in stored' => worker'.query \in ranks' \cup moved'
    BY <1>1, <1>4, <1>5, <1>6
  <2>2. worker'.pc = "complete" /\ worker'.query \in stored'
          => IF worker'.success THEN worker'.query \in ranks' \cup moved'
                                ELSE worker'.query \in pending'
    BY <1>1, <1>4, <1>5, <1>6
  <2> QED
    BY <1>4, <2>1, <2>2 DEF Answer
<1> QED
  BY <1>1, <1>4, <1>5, <1>7, <1>8, <1>9, HoldStep

\* The DELETE.
LEMMA WorkerBackupDeleteStep ==
  ASSUME IInv, WorkerBackupDelete
  PROVE  IInv'
<1>1. /\ worker.pc = "delete"
      /\ UNCHANGED <<ring, insertIdx, numBackup, numWorker, shutdown, main, backup, ranks, moved,
                     queries, stored, results>>
  BY DEF WorkerBackupDelete
<1>2. \/ /\ pending' = pending \ {worker.query}
         /\ worker' = [worker EXCEPT !.pc = "complete", !.success = TRUE]
      \/ /\ pending' = pending
         /\ worker' = [worker EXCEPT !.pc = "complete"]
  BY DEF WorkerBackupDelete
<1>3. worker \in [pc : Kind \cup {"wait", "backup", "delete", "complete", "exited"},
                  num : Nat, query : Query \cup {Empty}, success : BOOLEAN, failMode : BOOLEAN,
                  reads : BOOLEAN, write : BOOLEAN, backup : BOOLEAN]
  BY DEF IInv, TypeOK
<1>4. /\ worker' \in [pc : Kind \cup {"wait", "backup", "delete", "complete", "exited"},
                      num : Nat, query : Query \cup {Empty}, success : BOOLEAN, failMode : BOOLEAN,
                      reads : BOOLEAN, write : BOOLEAN, backup : BOOLEAN]
      /\ worker'.pc = "complete"
      /\ worker'.num = worker.num /\ worker'.query = worker.query
      /\ worker'.success \/ pending' = pending
  BY <1>2, <1>3
<1>5. /\ worker.query \in Query /\ worker.query # Empty
      /\ worker.query \in stored => worker.query \in pending
      /\ worker.query \in stored => worker.query \in ranks \cup moved
  BY <1>1, Held DEF IInv, Answer
<1>6. pending \ {worker.query} \subseteq pending' /\ pending' \subseteq pending
  BY <1>2
<1>7. TypeOK'
  BY <1>1, <1>4, <1>6 DEF IInv, TypeOK
<1>8. Answer'
  <2>1. worker'.query \in stored' => IF worker'.success THEN worker'.query \in ranks' \cup moved'
                                                        ELSE worker'.query \in pending'
    BY <1>1, <1>4, <1>5
  <2> QED
    BY <1>4, <2>1 DEF Answer
<1> QED
  BY <1>1, <1>4, <1>5, <1>6, <1>7, <1>8, HoldStep

\* A query goes from its slot into the hands of the worker.
LEMMA WorkerTakeStep ==
  ASSUME IInv, WorkerTake
  PROVE  IInv'
<1> PICK q : q = ring[WorkerIdx]
  OBVIOUS
<1>1. /\ worker.pc = "wait" /\ numWorker > 0 /\ q # Empty
      /\ numWorker' = numWorker - 1
      /\ ring' = [ring EXCEPT ![WorkerIdx] = Empty]
      /\ worker' = [worker EXCEPT !.pc = KindOf(q), !.query = q, !.num = @ + 1, !.success = FALSE]
      /\ UNCHANGED <<insertIdx, numBackup, shutdown, main, backup, ranks, pending, moved,
                     queries, stored, results>>
  BY DEF WorkerTake, databases
<1>2. WorkerIdx \in Slots
  BY SlotIndex DEF IInv, TypeOK, WorkerIdx
<1>3. ring \in [Slots -> Query \cup {Empty}]
  BY DEF IInv, TypeOK, Slots
<1>4. q \in Query /\ q < Len(queries) /\ KindOf(q) \in Kind
  <2>1. q \in Query /\ q < Len(queries)
    BY <1>1, <1>2, <1>3 DEF IInv, Known
  <2>2. queries \in Seq(Kind) /\ q + 1 \in 1 .. Len(queries)
    BY <2>1 DEF IInv, TypeOK, Query
  <2> QED
    BY <2>1, <2>2 DEF KindOf
<1>5. /\ ring'[WorkerIdx] = Empty
      /\ \A i \in Slots : i # WorkerIdx => ring'[i] = ring[i] /\ (ring[i] # Empty => ring[i] # q)
  BY <1>1, <1>2, <1>3 DEF IInv, Places
<1>6. \A k \in 1 .. Len(results) : results[k].query # q
  BY <1>2 DEF IInv, Places
<1>7. worker \in [pc : Kind \cup {"wait", "backup", "delete", "complete", "exited"},
                  num : Nat, query : Query \cup {Empty}, success : BOOLEAN, failMode : BOOLEAN,
                  reads : BOOLEAN, write : BOOLEAN, backup : BOOLEAN]
  BY DEF IInv, TypeOK
<1>8. /\ worker' \in [pc : Kind \cup {"wait", "backup", "delete", "complete", "exited"},
                      num : Nat, query : Query \cup {Empty}, success : BOOLEAN, failMode : BOOLEAN,
                      reads : BOOLEAN, write : BOOLEAN, backup : BOOLEAN]
      /\ worker'.pc = KindOf(q) /\ worker'.query = q /\ worker'.num = worker.num + 1
  <2>1. worker.num \in Nat /\ worker.num + 1 \in Nat
    BY <1>7
  <2> QED
    BY <1>1, <1>4, <1>7, <2>1
<1>9. TypeOK'
  <2>1. ring' \in [Slots -> Query \cup {Empty}]
    BY <1>1, <1>3
  <2>2. numWorker' \in Nat
    BY <1>1 DEF IInv, TypeOK
  <2> QED
    BY <1>1, <1>8, <2>1, <2>2 DEF IInv, TypeOK, Slots
<1>10. Known'
  <2>1. \A i \in Slots : ring'[i] < Len(queries)
    BY <1>4, <1>5 DEF IInv, Known, Query, Empty
  <2> QED
    BY <1>1, <1>4, <1>8, <2>1 DEF IInv, Known, KindOf
<1>11. Places'
  <2>1. \A i, j \in Slots : ring'[i] = ring'[j] /\ ring'[i] # Empty => i = j
    BY <1>5 DEF IInv, Places
  <2>2. \A i \in Slots : ring'[i] # Empty => ring'[i] # worker'.query
    BY <1>5, <1>8
  <2>3. \A i \in Slots, k \in 1 .. Len(results) : results[k].query # ring'[i]
    <3>1. \A k \in 1 .. Len(results) : results[k].query # Empty
      BY ResultType DEF IInv, Query, Empty
    <3> QED
      BY <1>5, <3>1 DEF IInv, Places
  <2> QED
    BY <1>1, <1>6, <1>8, <2>1, <2>2, <2>3 DEF Places
<1>12. Position'
  <2>1. q # Empty /\ KindOf(q) \notin {"wait", "exited"} /\ KindOf(q)' = KindOf(q)
    BY <1>1, <1>4 DEF Kind, Query, Empty, KindOf
  <2> QED
    BY <1>8, <2>1 DEF Position, KindOf
<1>13. Safe'
  BY <1>1 DEF IInv, Safe
<1>14. Answer'
  BY <1>4, <1>8 DEF Answer, Kind
<1>15. HonestResults'
  BY <1>1 DEF IInv, HonestResults
<1>16. Tokens'
  <2>1. /\ Exited(worker) = 0 /\ Exited(worker)' = 0 /\ Exited(backup)' = Exited(backup)
        /\ Exited(backup) \in Nat
    BY <1>1, <1>4, <1>8 DEF Exited, Kind
  <2>2. worker.num \in Nat /\ backup.num \in Nat /\ numWorker \in Nat
    BY DEF IInv, TypeOK
  <2> QED
    BY <1>1, <1>8, <2>1, <2>2 DEF IInv, Tokens
<1> QED
  BY <1>9, <1>10, <1>11, <1>12, <1>13, <1>14, <1>15, <1>16 DEF IInv

\* A query goes from the hands of the worker into the results.
LEMMA WorkerCompleteStep ==
  ASSUME IInv, WorkerComplete
  PROVE  IInv'
<1> DEFINE r == [query |-> worker.query, success |-> worker.success]
<1>1. /\ worker.pc = "complete"
      /\ results' = Append(results, r)
      /\ worker' = [worker EXCEPT !.pc = "wait", !.query = Empty, !.failMode = @ /\ numWorker # 0]
      /\ UNCHANGED <<ring, insertIdx, numBackup, numWorker, shutdown, main, backup,
                     ranks, pending, moved, queries, stored>>
  BY DEF WorkerComplete, databases
<1>2. worker \in [pc : Kind \cup {"wait", "backup", "delete", "complete", "exited"},
                  num : Nat, query : Query \cup {Empty}, success : BOOLEAN, failMode : BOOLEAN,
                  reads : BOOLEAN, write : BOOLEAN, backup : BOOLEAN]
  BY DEF IInv, TypeOK
<1>3. /\ worker' \in [pc : Kind \cup {"wait", "backup", "delete", "complete", "exited"},
                      num : Nat, query : Query \cup {Empty}, success : BOOLEAN, failMode : BOOLEAN,
                      reads : BOOLEAN, write : BOOLEAN, backup : BOOLEAN]
      /\ worker'.pc = "wait" /\ worker'.query = Empty /\ worker'.num = worker.num
  BY <1>1, <1>2
<1>4. worker.query \in Query /\ worker.query # Empty
  BY <1>1, Held
<1>5. r \in [query : Query, success : BOOLEAN] /\ r.query = worker.query /\ r.success = worker.success
  BY <1>2, <1>4
<1> HIDE DEF r
<1>6. /\ results' \in Seq([query : Query, success : BOOLEAN])
      /\ Len(results) \in Nat /\ Len(results') = Len(results) + 1
      /\ results'[Len(results) + 1] = r
      /\ \A k \in 1 .. Len(results) : results'[k] = results[k]
  <2> DEFINE Result == [query : Query, success : BOOLEAN]
  <2>1. results \in Seq(Result) /\ r \in Result
    BY <1>5 DEF IInv, TypeOK
  <2> HIDE DEF Result
  <2>2. /\ results' \in Seq(Result)
        /\ Len(results) \in Nat /\ Len(results') = Len(results) + 1
        /\ results'[Len(results) + 1] = r
        /\ \A k \in 1 .. Len(results) : results'[k] = results[k]
    BY <1>1, <2>1
  <2> QED
    BY <2>2 DEF Result
<1>7. \A k \in 1 .. Len(results') : k \in 1 .. Len(results) \/ k = Len(results) + 1
  BY <1>6
<1>8. TypeOK'
  BY <1>1, <1>3, <1>6 DEF IInv, TypeOK
<1>9. Known'
  <2>1. \A k \in 1 .. Len(results') : results'[k].query < Len(queries)
    BY <1>5, <1>6, <1>7 DEF IInv, Known
  <2>2. Empty < Len(queries)
    BY DEF IInv, TypeOK, Empty
  <2> QED
    BY <1>1, <1>3, <2>1, <2>2 DEF IInv, Known, KindOf
<1>10. Places'
  <2>1. \A i \in Slots, k \in 1 .. Len(results') : results'[k].query # ring[i]
    BY <1>4, <1>5, <1>6, <1>7 DEF IInv, Places
  <2>2. \A k \in 1 .. Len(results') : results'[k].query # Empty
    <3>1. \A k \in 1 .. Len(results) : results[k].query # Empty
      BY ResultType DEF IInv, Query, Empty
    <3> QED
      BY <1>4, <1>5, <1>6, <1>7, <3>1
  <2> QED
    BY <1>1, <1>3, <2>1, <2>2 DEF IInv, Places
<1>11. Position'
  BY <1>3 DEF Position, Kind
<1>12. Safe'
  <2>1. \E k \in 1 .. Len(results') : results'[k].query = worker.query
    BY <1>5, <1>6
  <2>2. \A k \in 1 .. Len(results) : k \in 1 .. Len(results') /\ results'[k].query = results[k].query
    BY <1>6
  <2> QED
    BY <1>1, <2>1, <2>2 DEF IInv, Safe
<1>13. Answer'
  BY <1>3 DEF Answer
<1>14. HonestResults'
  <2>1. DOMAIN results = 1 .. Len(results) /\ DOMAIN results' = 1 .. Len(results')
    BY <1>6 DEF IInv, TypeOK
  <2>2. r.query \in stored => IF r.success THEN r.query \in ranks \cup moved ELSE r.query \in pending
    BY <1>1, <1>5 DEF IInv, Answer
  <2> QED
    BY <1>1, <1>6, <1>7, <2>1, <2>2 DEF IInv, HonestResults
<1>15. Tokens'
  BY <1>1, <1>3 DEF IInv, Tokens, Exited
<1> QED
  BY <1>8, <1>9, <1>10, <1>11, <1>12, <1>13, <1>14, <1>15 DEF IInv

\* Every step preserves the invariant.
LEMMA NextStep == IInv /\ [Next]_vars => IInv'
<1> SUFFICES ASSUME IInv, [Next]_vars
             PROVE  IInv'
  OBVIOUS
<1>1. CASE \E kind \in Kinds : Enqueue(kind)
  BY <1>1, EnqueueStep
<1>2. CASE OnShutdown \/ SignalShutdown \/ OnShutdownReturns \/ Join
  BY <1>2, MainStep
<1>3. CASE BackupThread
  BY <1>3, BackupSignalStep, BackupTakeStep DEF BackupThread
<1>4. CASE WorkerThread
  BY <1>4, WorkerEndStep, WorkerTakeStep, WorkerReadStep, WorkerWriteStep, WorkerBackupInsertStep,
     WorkerBackupDeleteStep, WorkerAddStep, WorkerCompleteStep DEF WorkerThread
<1>5. CASE UNCHANGED vars
  <2>1. /\ UNCHANGED <<ring, insertIdx, numBackup, numWorker, shutdown, main, backup, worker,
                       ranks, pending, moved, queries, stored, results>>
    BY <1>5 DEF vars, threads, databases
  <2>2. TypeOK'
    BY <2>1 DEF IInv, TypeOK
  <2>3. Tokens'
    BY <2>1 DEF IInv, Tokens, Exited
  <2> QED
    BY <2>1, <2>2, <2>3, SignalStep DEF databases
<1> QED
  BY <1>1, <1>2, <1>3, <1>4, <1>5 DEF Next, MainThread

\* The invariant holds in every reachable state, for every size of the ring.
THEOREM Invariant == Spec => []IInv
BY InitIInv, NextStep, PTL DEF Spec

\* The variables of the pool keep their types.
THEOREM TypeCorrect == Spec => []TypeOK
<1>1. IInv => TypeOK
  BY DEF IInv
<1> QED
  BY <1>1, Invariant, PTL

\* A rank the backup thread has stored is in one of the tables, whenever the server is
\* killed and whichever statements have failed, even if the ring has overflowed.
THEOREM RanksKept == Spec => []NotLost
<1>1. ASSUME IInv, NEW q \in stored
      PROVE  q \in ranks \cup pending \cup moved
  <2>1. CASE q = worker.query /\ worker.pc = "complete"
    BY <1>1, <2>1 DEF IInv, Answer
  <2>2. ASSUME NEW k \in 1 .. Len(results), results[k].query = q
        PROVE  q \in ranks \cup pending \cup moved
    <3>1. k \in DOMAIN results
      BY <1>1 DEF IInv, TypeOK
    <3> QED
      BY <1>1, <2>2, <3>1 DEF IInv, HonestResults
  <2> QED
    BY <1>1, <2>1, <2>2 DEF IInv, Safe
<1>2. IInv => NotLost
  BY <1>1 DEF NotLost
<1> QED
  BY <1>2, Invariant, PTL

\* What the main thread is told of a stored rank is true.
THEOREM Honesty == Spec => []HonestResults
<1>1. IInv => HonestResults
  BY DEF IInv
<1> QED
  BY <1>1, Invariant, PTL

\* The worker does not overtake the backup thread.
THEOREM BackupGoesFirst == Spec => []BackedFirst
<1>1. ASSUME IInv
      PROVE  BackedFirst
  <2>1. worker.num \in Nat /\ backup.num \in Nat /\ numWorker \in Nat /\ Exited(worker) \in Nat
    BY <1>1 DEF IInv, TypeOK, Exited
  <2>2. backup.num + Exited(backup) = numWorker + worker.num + Exited(worker)
    BY <1>1 DEF IInv, Tokens
  <2>3. Exited(backup) \in Nat /\ worker.num <= backup.num + Exited(backup)
    BY <2>1, <2>2 DEF Exited
  <2> QED
    BY <2>3 DEF BackedFirst, Exited
<1> QED
  BY <1>1, Invariant, PTL

-----------------------------------------------------------------------------
(* Each action preserves Order, as long as the ring cannot fill up.        *)

\* The slot of a query holds it, that of the next one is empty.  With as many queries
\* outstanding as slots it would be the slot of the oldest.
LEMMA SlotContent ==
  ASSUME Outstanding < RingSize, IInv, Ring, NEW n \in worker.num .. Len(queries)
  PROVE  ring[n % RingSize] = IF n < Len(queries) THEN n ELSE Empty
<1> DEFINE len == Len(queries)
           q == ring[len % RingSize]
<1>1. /\ len \in Nat /\ worker.num \in Nat /\ RingSize \in Nat \ {0} /\ Outstanding \in Nat
      /\ len % RingSize \in Slots
  BY RingAssumption, BoundsAssumption, SlotIndex DEF IInv, TypeOK
<1>2. q \in Query \cup {Empty} /\ q < len
  BY <1>1 DEF IInv, TypeOK, Known, Slots
<1>3. len - worker.num <= Outstanding
  BY DEF Ring
<1>4. q # Empty => q >= worker.num /\ len % RingSize = q % RingSize
  BY <1>1 DEF Ring
<1>5. n < len => ring[n % RingSize] = n
  BY <1>1 DEF Ring
<1>6. q = Empty
  <2> SUFFICES ASSUME q # Empty
               PROVE  FALSE
    OBVIOUS
  <2>1. q \in Nat /\ q >= worker.num /\ q % RingSize = len % RingSize
    BY <1>2, <1>4 DEF Query
  <2> HIDE DEF q, len
  <2>2. q - len < RingSize /\ len - q < RingSize
    <3>1. /\ len \in Nat /\ q \in Nat /\ worker.num \in Nat /\ RingSize \in Nat /\ Outstanding \in Nat
          /\ q < len /\ q >= worker.num
      BY <1>1, <1>2, <2>1
    <3>2. len - q <= Outstanding
      BY <3>1, <1>3
    <3> QED
      BY <3>1, <3>2
  <2>3. q = len
    BY <1>1, <2>1, <2>2, ModUnique
  <2> QED
    BY <1>1, <1>2, <2>1, <2>3
<1> QED
  BY <1>1, <1>5, <1>6

\* The empty ring is in order.
LEMMA InitOrder == Init => Order
<1> SUFFICES ASSUME Init
             PROVE  Order
  OBVIOUS
<1>1. Len(queries) = 0 /\ Len(results) = 0 /\ 0 % RingSize = 0
  BY RingAssumption DEF Init
<1>2. Ring
  BY <1>1, BoundsAssumption DEF Init, Ring, Slots
<1>3. Signals /\ Ends
  BY <1>1 DEF Init, Signals, Signalled, Ends
<1>4. Completed
  BY <1>1 DEF Init, Completed
<1> QED
  BY <1>2, <1>3, <1>4 DEF Order

\* The slot of a new query is empty.
LEMMA EnqueueOrder ==
  ASSUME Outstanding < RingSize, IInv, Order, NEW kind \in Kinds, Enqueue(kind)
  PROVE  Order'
<1> PICK len : len = Len(queries)
  OBVIOUS
<1>1. /\ len \in Nat /\ worker.num \in Nat /\ RingSize \in Nat \ {0}
      /\ worker.num <= len /\ backup.num <= len /\ len - worker.num < Outstanding
      /\ Outstanding \in Nat /\ backup.num \in Nat /\ numBackup \in Nat
  BY RingAssumption, BoundsAssumption DEF IInv, TypeOK, Enqueue, Order, Ring
<1>2. /\ main = "running"
      /\ ring' = [ring EXCEPT ![insertIdx] = len]
      /\ insertIdx' = (insertIdx + 1) % RingSize
      /\ numBackup' = numBackup + 1
      /\ UNCHANGED <<numWorker, shutdown, main, backup, worker, results>>
  BY DEF Enqueue, threads, NextSlot
<1>3. Len(queries') = len + 1
  BY BoundsAssumption, KindStays DEF Enqueue, IInv
<1>4. /\ insertIdx = len % RingSize /\ insertIdx \in Slots
      /\ ring'[insertIdx] = len
      /\ \A i \in Slots : i # insertIdx => ring'[i] = ring[i]
  BY <1>2 DEF IInv, TypeOK, Order, Ring, Slots
<1>5. ring[insertIdx] = Empty
  BY <1>1, <1>4, SlotContent DEF Order
<1>6. Ring'
  <2>1. insertIdx' = (len + 1) % RingSize
    BY <1>1, <1>2, <1>4, ModSucc
  <2>2. ASSUME NEW q \in worker.num .. len
        PROVE  ring'[q % RingSize] = q
    <3>1. CASE q = len
      BY <1>4, <3>1
    <3>2. CASE q < len
      <4>1. ring[q % RingSize] = q /\ q # Empty /\ q \in Nat
        BY <1>1, <3>2 DEF Order, Ring, Empty
      <4>2. q % RingSize \in Slots /\ q % RingSize # insertIdx
        BY <1>5, <4>1, SlotIndex
      <4> QED
        BY <1>4, <4>1, <4>2
    <3> QED
      BY <1>1, <3>1, <3>2
  <2>3. \A i \in Slots : ring'[i] # Empty => ring'[i] >= worker.num /\ i = ring'[i] % RingSize
    BY <1>1, <1>4 DEF Order, Ring
  <2>4. worker.num .. Len(queries') - 1 = worker.num .. len
    BY <1>1, <1>3
  <2>5. \A q \in worker.num .. Len(queries') - 1 : ring'[q % RingSize] = q
    BY <2>2, <2>4
  <2>6. /\ worker.num <= Len(queries') /\ backup.num <= Len(queries')
        /\ Len(queries') - worker.num <= Outstanding
        /\ insertIdx' = Len(queries') % RingSize
    BY <1>1, <1>3, <2>1
  <2>7. worker' = worker /\ backup' = backup
    BY <1>2
  <2> QED
    BY <2>3, <2>5, <2>6, <2>7 DEF Ring
<1>7. Signals'
  <2>1. /\ numBackup + backup.num + (IF backup.pc = "wait" THEN 0 ELSE 1) = len
        /\ backup.pc = "signal" => backup.num < len
    BY <1>1, <1>2 DEF Order, Signals, Signalled
  <2>2. worker' = worker /\ backup' = backup /\ main' = "running" /\ numBackup' = numBackup + 1
    BY <1>2
  <2> QED
    BY <1>1, <1>3, <2>1, <2>2 DEF Signals, Signalled
<1>8. Ends'
  BY <1>2 DEF Order, Ends, Signalled
<1>9. Completed'
  BY <1>2 DEF Order, Completed
<1> QED
  BY <1>6, <1>7, <1>8, <1>9 DEF Order

\* OnShutdown adds the signal the threads end with; it returns when the worker has ended.
LEMMA MainOrder ==
  ASSUME IInv, Order, OnShutdown \/ SignalShutdown \/ OnShutdownReturns \/ Join
  PROVE  Order'
<1>1. UNCHANGED <<ring, insertIdx, numWorker, backup, worker, queries, results>>
  BY DEF OnShutdown, SignalShutdown, OnShutdownReturns, Join, databases
<1>2. Ring' /\ Completed'
  BY <1>1 DEF Order, Ring, Completed
<1>3. Signals'
  <2>1. backup.num \in Nat /\ numBackup \in Nat /\ Len(queries) \in Nat
    BY DEF IInv, TypeOK
  <2>2. CASE SignalShutdown
    <3>1. ~Signalled /\ Signalled' /\ numBackup' = numBackup + 1
      BY <2>2 DEF SignalShutdown, Signalled
    <3>2. /\ numBackup + backup.num + (IF backup.pc = "wait" THEN 0 ELSE 1) = Len(queries)
          /\ backup.pc = "signal" => backup.num < Len(queries)
      BY <2>1, <3>1 DEF Order, Signals
    <3>3. backup' = backup /\ queries' = queries
      BY <1>1
    <3> QED
      BY <2>1, <3>1, <3>2, <3>3 DEF Signals
  <2>3. CASE OnShutdown \/ OnShutdownReturns \/ Join
    <3>1. Signalled' = Signalled /\ numBackup' = numBackup
      BY <2>3 DEF OnShutdown, OnShutdownReturns, Join, Signalled
    <3> QED
      BY <1>1, <3>1 DEF Order, Signals
  <2> QED
    BY <2>2, <2>3
<1>4. Ends'
  <2>1. CASE OnShutdown
    BY <1>1, <2>1 DEF Order, Ends, Signalled, OnShutdown
  <2>2. CASE SignalShutdown
    BY <1>1, <2>2 DEF Order, Ends, Signalled, SignalShutdown
  <2>3. CASE OnShutdownReturns \/ Join
    BY <1>1, <2>3 DEF Order, Ends, Signalled, OnShutdownReturns, Join
  <2> QED
    BY <2>1, <2>2, <2>3
<1> QED
  BY <1>2, <1>3, <1>4 DEF Order

\* The backup thread ends when it finds the slot after the last query.
LEMMA BackupEndOrder ==
  ASSUME Outstanding < RingSize, IInv, Order, BackupEnd
  PROVE  Order'
<1>1. /\ backup.pc = "wait" /\ numBackup > 0 /\ BackupSlot = Empty
      /\ numBackup' = numBackup - 1
      /\ backup' = [backup EXCEPT !.pc = "exited"]
      /\ UNCHANGED <<ring, insertIdx, shutdown, main, worker, queries, results>>
  BY DEF BackupEnd
<1>2. /\ worker.num \in Nat /\ backup.num \in Nat /\ numBackup \in Nat /\ numWorker \in Nat
      /\ Len(queries) \in Nat /\ backup'.num = backup.num /\ backup'.pc = "exited"
  BY <1>1 DEF IInv, TypeOK
<1>3. worker.num <= backup.num /\ backup.num <= Len(queries)
  BY <1>1, <1>2 DEF IInv, Tokens, Exited, Order, Ring
<1>4. backup.num = Len(queries)
  <2>1. backup.num < Len(queries) => BackupSlot = backup.num
    BY <1>2, <1>3, SlotContent DEF Order, BackupSlot
  <2> QED
    BY <1>1, <1>2, <1>3, <2>1 DEF Empty
<1>5. Signalled /\ numBackup = 1
  BY <1>1, <1>2, <1>4 DEF Order, Signals
<1>6. Ring'
  BY <1>1, <1>2 DEF Order, Ring
<1>7. Signals'
  <2>1. queries' = queries /\ Signalled' = Signalled /\ numBackup' = 0
    BY <1>1, <1>5 DEF Signalled
  <2> QED
    BY <1>2, <1>4, <1>5, <2>1 DEF Signals
<1>8. Ends'
  BY <1>1, <1>2, <1>4, <1>5 DEF Order, Ends, Signalled
<1>9. Completed'
  BY <1>1 DEF Order, Completed
<1> QED
  BY <1>6, <1>7, <1>8, <1>9 DEF Order

\* The backup thread looks at a query that exists.
LEMMA BackupTakeOrder ==
  ASSUME Outstanding < RingSize, IInv, Order, BackupTake
  PROVE  Order'
<1>1. /\ backup.pc = "wait" /\ numBackup > 0 /\ BackupSlot # Empty
      /\ numBackup' = numBackup - 1
      /\ UNCHANGED <<ring, insertIdx, shutdown, main, worker, queries, results>>
  BY DEF BackupTake
<1>2. /\ worker.num \in Nat /\ backup.num \in Nat /\ numBackup \in Nat /\ numWorker \in Nat
      /\ Len(queries) \in Nat
  BY DEF IInv, TypeOK
<1>3. backup'.num = backup.num /\ backup'.pc = "signal"
  <2>1. backup \in [pc : {"wait", "signal", "exited"}, num : Nat, db : BOOLEAN]
    BY DEF IInv, TypeOK
  <2>2. \/ backup' = [backup EXCEPT !.pc = "signal", !.db = TRUE]
        \/ backup' = [backup EXCEPT !.pc = "signal"]
    BY DEF BackupTake
  <2> QED
    BY <2>1, <2>2
<1>4. worker.num <= backup.num /\ backup.num <= Len(queries)
  BY <1>1, <1>2 DEF IInv, Tokens, Exited, Order, Ring
<1>5. backup.num < Len(queries)
  BY <1>1, <1>2, <1>4, SlotContent DEF Order, BackupSlot
<1>6. Ring'
  BY <1>1, <1>3 DEF Order, Ring
<1>7. Signals'
  <2>1. queries' = queries /\ Signalled' = Signalled
    BY <1>1 DEF Signalled
  <2>2. numBackup + backup.num = Len(queries) + (IF Signalled THEN 1 ELSE 0)
    BY <1>1, <1>2 DEF Order, Signals
  <2> QED
    BY <1>1, <1>2, <1>3, <1>5, <2>1, <2>2 DEF Signals
<1>8. Ends'
  BY <1>1, <1>3 DEF Order, Ends, Signalled
<1>9. Completed'
  BY <1>1 DEF Order, Completed
<1> QED
  BY <1>6, <1>7, <1>8, <1>9 DEF Order

\* A query is passed on.
LEMMA BackupSignalOrder ==
  ASSUME IInv, Order, BackupSignal
  PROVE  Order'
<1>1. /\ backup.pc = "signal"
      /\ backup' = [backup EXCEPT !.pc = "wait", !.num = @ + 1]
      /\ UNCHANGED <<ring, insertIdx, numBackup, shutdown, main, worker, queries, results>>
  BY DEF BackupSignal
<1>2. /\ backup.num \in Nat /\ numBackup \in Nat /\ Len(queries) \in Nat
      /\ backup'.num = backup.num + 1 /\ backup'.pc = "wait"
  BY <1>1 DEF IInv, TypeOK
<1>3. backup.num < Len(queries)
  BY <1>1 DEF Order, Signals
<1>4. Ring'
  BY <1>1, <1>2, <1>3 DEF Order, Ring
<1>5. Signals'
  <2>1. queries' = queries /\ Signalled' = Signalled /\ numBackup' = numBackup
    BY <1>1 DEF Signalled
  <2>2. numBackup + backup.num + 1 = Len(queries) + (IF Signalled THEN 1 ELSE 0)
    BY <1>1, <1>2 DEF Order, Signals
  <2> QED
    BY <1>2, <2>1, <2>2 DEF Signals
<1>6. Ends'
  BY <1>1, <1>2 DEF Order, Ends, Signalled
<1>7. Completed'
  BY <1>1 DEF Order, Completed
<1> QED
  BY <1>4, <1>5, <1>6, <1>7 DEF Order

\* The worker ends after the last query, and only in a shutdown.
LEMMA WorkerEndOrder ==
  ASSUME Outstanding < RingSize, IInv, Order, WorkerEnd
  PROVE  Order'
<1>1. /\ worker.pc = "wait" /\ numWorker > 0 /\ ring[WorkerIdx] = Empty
      /\ worker' = [worker EXCEPT !.pc = "exited"]
      /\ UNCHANGED <<ring, insertIdx, numBackup, main, backup, queries, results>>
  BY DEF WorkerEnd
<1>2. /\ worker.num \in Nat /\ backup.num \in Nat /\ numWorker \in Nat /\ Len(queries) \in Nat
      /\ worker'.num = worker.num /\ worker'.pc = "exited" /\ worker'.query = worker.query
  BY <1>1 DEF IInv, TypeOK
<1>3. worker.num = Len(queries)
  <2>1. worker.num <= Len(queries)
    BY DEF Order, Ring
  <2>2. worker.num < Len(queries) => ring[WorkerIdx] = worker.num
    BY <1>2, SlotContent DEF Order, WorkerIdx
  <2> QED
    BY <1>1, <1>2, <2>1, <2>2 DEF Empty
<1>4. backup.pc = "exited" /\ Signalled
  <2>1. numWorker + worker.num = backup.num + Exited(backup) /\ backup.num <= Len(queries)
    BY <1>1, <1>2 DEF IInv, Tokens, Exited, Order, Ring
  <2>2. backup.pc = "exited"
    BY <1>1, <1>2, <1>3, <2>1 DEF Exited
  <2> QED
    BY <2>2 DEF Order, Ends
<1>5. Ring'
  BY <1>1, <1>2 DEF Order, Ring
<1>6. Signals'
  BY <1>1 DEF Order, Signals, Signalled
<1>7. Ends'
  BY <1>1, <1>2, <1>3, <1>4 DEF Order, Ends, Signalled
<1>8. Completed'
  BY <1>1, <1>2 DEF Order, Completed
<1> QED
  BY <1>5, <1>6, <1>7, <1>8 DEF Order

\* The worker takes the oldest query.
LEMMA WorkerTakeOrder ==
  ASSUME Outstanding < RingSize, IInv, Order, WorkerTake
  PROVE  Order'
<1> PICK n : n = worker.num
  OBVIOUS
<1>1. /\ worker.pc = "wait" /\ ring[WorkerIdx] # Empty
      /\ ring' = [ring EXCEPT ![WorkerIdx] = Empty]
      /\ worker' = [worker EXCEPT !.pc = KindOf(ring[WorkerIdx]), !.query = ring[WorkerIdx],
                                  !.num = @ + 1, !.success = FALSE]
      /\ UNCHANGED <<insertIdx, numBackup, shutdown, main, backup, queries, results>>
  BY DEF WorkerTake
<1>2. /\ n \in Nat /\ backup.num \in Nat /\ Len(queries) \in Nat /\ Outstanding \in Nat
      /\ n <= Len(queries) /\ Len(queries) - n <= Outstanding
  BY BoundsAssumption DEF IInv, TypeOK, Order, Ring
<1>3. WorkerIdx \in Slots /\ WorkerIdx = n % RingSize
  BY <1>2, SlotIndex DEF WorkerIdx
<1>4. ring[WorkerIdx] = n /\ n < Len(queries)
  BY <1>1, <1>2, <1>3, SlotContent DEF Order
<1>5. /\ worker'.num = n + 1 /\ worker'.query = n /\ worker'.pc = KindOf(n)
  BY <1>1, <1>4 DEF IInv, TypeOK
<1>6. KindOf(n) \in Kind
  BY <1>2, <1>4 DEF IInv, TypeOK, KindOf
<1>7. ring'[WorkerIdx] = Empty /\ \A i \in Slots : i # WorkerIdx => ring'[i] = ring[i]
  BY <1>1, <1>3 DEF IInv, TypeOK, Slots
<1>8. Ring'
  <2>1. ASSUME NEW q \in n + 1 .. Len(queries) - 1
        PROVE  ring'[q % RingSize] = q
    <3>1. ring[q % RingSize] = q /\ q # n /\ q \in Nat
      BY <1>2 DEF Order, Ring
    <3>2. q % RingSize \in Slots /\ q % RingSize # WorkerIdx
      BY <1>4, <3>1, SlotIndex
    <3> QED
      BY <1>7, <3>1, <3>2
  <2>2. ASSUME NEW i \in Slots, ring'[i] # Empty
        PROVE  ring'[i] >= n + 1 /\ i = ring'[i] % RingSize
    <3>1. i # WorkerIdx /\ ring'[i] = ring[i]
      BY <1>7, <2>2
    <3>2. ring[i] >= n /\ i = ring[i] % RingSize /\ ring[i] \in Nat
      BY <2>2, <3>1 DEF Order, Ring, IInv, TypeOK, Slots, Query
    <3>3. ring[i] # n
      BY <1>3, <3>1, <3>2
    <3> QED
      BY <1>2, <3>1, <3>2, <3>3
  <2>3. n + 1 <= Len(queries) /\ Len(queries) - (n + 1) <= Outstanding
    BY <1>2, <1>4
  <2>4. queries' = queries /\ backup' = backup /\ insertIdx' = insertIdx
    BY <1>1
  <2>5. insertIdx = Len(queries) % RingSize /\ backup.num <= Len(queries)
    BY DEF Order, Ring
  <2> QED
    BY <1>5, <2>1, <2>2, <2>3, <2>4, <2>5 DEF Ring
<1>9. Signals'
  BY <1>1 DEF Order, Signals, Signalled
<1>10. Ends'
  BY <1>1, <1>5, <1>6 DEF Order, Ends, Signalled, Kind
<1>11. Completed'
  <2>1. Len(results) = n /\ results' = results
    BY <1>1, <1>2 DEF IInv, Position, Order, Completed
  <2> QED
    BY <1>2, <1>5, <2>1 DEF Order, Completed, Empty
<1> QED
  BY <1>8, <1>9, <1>10, <1>11 DEF Order

\* What the worker does with its query changes nothing in the order.
LEMMA HoldOrder ==
  ASSUME IInv, Order,
         WorkerRead \/ WorkerWrite \/ WorkerBackupInsert \/ WorkerBackupDelete \/ WorkerAdd
  PROVE  Order'
<1>1. UNCHANGED <<ring, insertIdx, numBackup, shutdown, main, backup, queries, results>>
  BY DEF WorkerRead, WorkerWrite, WorkerBackupInsert, WorkerBackupDelete, WorkerAdd
<1>2. /\ worker.pc # "exited" /\ worker'.pc # "exited"
      /\ worker'.num = worker.num /\ worker'.query = worker.query
  <2>1. worker \in [pc : Kind \cup {"wait", "backup", "delete", "complete", "exited"},
                    num : Nat, query : Query \cup {Empty}, success : BOOLEAN, failMode : BOOLEAN,
                    reads : BOOLEAN, write : BOOLEAN, backup : BOOLEAN]
    BY DEF IInv, TypeOK
  <2>2. CASE WorkerRead
    BY <2>1, <2>2 DEF WorkerRead
  <2>3. CASE WorkerWrite
    BY <2>1, <2>3 DEF WorkerWrite
  <2>4. CASE WorkerBackupInsert
    BY <2>1, <2>4 DEF WorkerBackupInsert
  <2>5. CASE WorkerBackupDelete
    BY <2>1, <2>5 DEF WorkerBackupDelete
  <2>6. CASE WorkerAdd
    BY <2>1, <2>6 DEF WorkerAdd
  <2> QED
    BY <2>2, <2>3, <2>4, <2>5, <2>6
<1>3. Ring'
  BY <1>1, <1>2 DEF Order, Ring
<1>4. Signals'
  BY <1>1 DEF Order, Signals, Signalled
<1>5. Ends'
  BY <1>1, <1>2 DEF Order, Ends, Signalled
<1>6. Completed'
  BY <1>1, <1>2 DEF Order, Completed
<1> QED
  BY <1>3, <1>4, <1>5, <1>6 DEF Order

\* The result of the oldest query comes next.
LEMMA WorkerCompleteOrder ==
  ASSUME IInv, Order, WorkerComplete
  PROVE  Order'
<1>1. /\ worker.pc = "complete"
      /\ results' = Append(results, [query |-> worker.query, success |-> worker.success])
      /\ worker' = [worker EXCEPT !.pc = "wait", !.query = Empty, !.failMode = @ /\ numWorker # 0]
      /\ UNCHANGED <<ring, insertIdx, numBackup, shutdown, main, backup, queries>>
  BY DEF WorkerComplete
<1>2. worker'.pc = "wait" /\ worker'.num = worker.num /\ worker'.query = Empty
  BY <1>1 DEF IInv, TypeOK
<1>3. worker.query # Empty /\ worker.query = worker.num - 1 /\ worker.num \in Nat
  BY <1>1, Held DEF IInv, TypeOK, Order, Completed
<1>4. Len(results) = worker.num - 1
  BY <1>3 DEF Order, Completed
<1>5. Ring'
  BY <1>1, <1>2 DEF Order, Ring
<1>6. Signals'
  BY <1>1 DEF Order, Signals, Signalled
<1>7. Ends'
  BY <1>1, <1>2 DEF Order, Ends, Signalled
<1>8. Completed'
  <2> DEFINE Result == [query : Query, success : BOOLEAN]
  <2> PICK r : r = [query |-> worker.query, success |-> worker.success]
    OBVIOUS
  <2>1. results \in Seq(Result) /\ r.query = worker.query
    BY DEF IInv, TypeOK
  <2> HIDE DEF Result
  <2>2. /\ Len(results) \in Nat /\ Len(results') = Len(results) + 1
        /\ results'[Len(results) + 1] = r
        /\ \A k \in 1 .. Len(results) : results'[k] = results[k]
    BY <1>1, <2>1
  <2>3. ASSUME NEW k \in 1 .. Len(results')
        PROVE  results'[k].query = k - 1
    <3>1. CASE k \in 1 .. Len(results)
      BY <2>2, <3>1 DEF Order, Completed
    <3>2. CASE k = Len(results) + 1
      BY <1>3, <1>4, <2>1, <2>2, <3>2
    <3> QED
      BY <2>2, <3>1, <3>2
  <2> QED
    BY <1>2, <1>3, <1>4, <2>2, <2>3 DEF Completed
<1> QED
  BY <1>5, <1>6, <1>7, <1>8 DEF Order

\* Every step preserves the order.
LEMMA NextOrder ==
  ASSUME Outstanding < RingSize
  PROVE  IInv /\ Order /\ [Next]_vars => Order'
<1> SUFFICES ASSUME IInv, Order, [Next]_vars
             PROVE  Order'
  OBVIOUS
<1>1. CASE \E kind \in Kinds : Enqueue(kind)
  BY <1>1, EnqueueOrder
<1>2. CASE OnShutdown \/ SignalShutdown \/ OnShutdownReturns \/ Join
  BY <1>2, MainOrder
<1>3. CASE BackupThread
  BY <1>3, BackupEndOrder, BackupTakeOrder, BackupSignalOrder DEF BackupThread
<1>4. CASE WorkerThread
  BY <1>4, WorkerEndOrder, WorkerTakeOrder, HoldOrder, WorkerCompleteOrder DEF WorkerThread
<1>5. CASE UNCHANGED vars
  BY <1>5 DEF vars, threads, Order, Ring, Signals, Signalled, Ends, Completed
<1> QED
  BY <1>1, <1>2, <1>3, <1>4, <1>5 DEF Next, MainThread

\* As long as fewer queries are outstanding than the ring has slots, OnShutdown returns only
\* when every query has been worked off, once and in the order of insertion.
THEOREM AllWorkedOff ==
  ASSUME Outstanding < RingSize
  PROVE  Spec => []AllProcessed
<1>1. ASSUME IInv, Order
      PROVE  AllProcessed
  <2> SUFFICES ASSUME main \in {"destructor", "joined"}
               PROVE  /\ Len(results) = Len(queries)
                      /\ \A i \in DOMAIN results : results[i].query = i - 1
    BY DEF AllProcessed
  <2>1. worker.pc = "exited" /\ worker.num = Len(queries) /\ worker.query = Empty
    BY <1>1 DEF Order, Ends, IInv, Position
  <2>2. DOMAIN results = 1 .. Len(results) /\ Len(queries) \in Nat
    BY <1>1 DEF IInv, TypeOK
  <2> QED
    BY <1>1, <2>1, <2>2 DEF Order, Completed
<1>2. Spec => []Order
  BY InitOrder, NextOrder, Invariant, PTL DEF Spec
<1> QED
  BY <1>1, <1>2, Invariant, PTL
-----------------------------------------------------------------------------
(* No lost signal, and no deadlock.                                        *)

\* The worker resets the flag that OnShutdown waits for when it ends.
Reset == worker.pc = "exited" => ~shutdown

\* Each thread, when it is not waiting for another or for work.
MainMoves ==
  \/ main = "signal"
  \/ main = "shutdown" /\ ~shutdown
  \/ main = "destructor" /\ backup.pc = "exited" /\ worker.pc = "exited"
BackupMoves == backup.pc = "signal" \/ (backup.pc = "wait" /\ numBackup > 0)
WorkerMoves ==
  \/ worker.pc \notin {"wait", "exited"}
  \/ worker.pc = "wait" /\ numWorker > 0

\* As long as a query has not been completed, or OnShutdown or the destructor has
\* not returned, some thread can go on.
NeverStuck ==
  Len(results) # Len(queries) \/ main \in {"signal", "shutdown", "destructor"}
    => MainMoves \/ BackupMoves \/ WorkerMoves

LEMMA ResetStep ==
  ASSUME IInv, Order, Reset, [Next]_vars
  PROVE  Reset'
<1>1. CASE WorkerEnd
  BY <1>1 DEF WorkerEnd, Reset
<1>2. CASE worker.pc # "exited" /\ ~WorkerEnd
  <2>1. CASE MainThread \/ BackupThread \/ UNCHANGED vars
    <3>1. worker' = worker
      BY <2>1 DEF MainThread, Enqueue, OnShutdown, SignalShutdown, OnShutdownReturns, Join,
         BackupThread, BackupEnd, BackupTake, BackupSignal, vars, threads
    <3> QED
      BY <1>2, <3>1 DEF Reset
  <2>2. CASE WorkerTake
    <3>1. worker'.query # Empty
      BY <2>2 DEF WorkerTake, IInv, TypeOK
    <3>2. Position'
      BY <2>2, WorkerTakeStep DEF IInv
    <3> QED
      BY <3>1, <3>2 DEF Position, Reset
  <2>3. CASE \/ WorkerRead \/ WorkerWrite \/ WorkerBackupInsert \/ WorkerBackupDelete
             \/ WorkerAdd \/ WorkerComplete
    <3>1. worker'.pc \in {"backup", "delete", "complete", "wait"}
      BY <2>3 DEF WorkerRead, WorkerWrite, WorkerBackupInsert, WorkerBackupDelete, WorkerAdd,
         WorkerComplete, IInv, TypeOK
    <3> QED
      BY <3>1 DEF Reset
  <2> QED
    BY <1>2, <2>1, <2>2, <2>3 DEF Next, WorkerThread
<1>3. CASE worker.pc = "exited" /\ ~WorkerEnd
  <2>1. main # "running" /\ ~shutdown
    BY <1>3 DEF Order, Ends, Signalled, Reset
  <2>2. shutdown' = shutdown
    BY <1>3, <2>1 DEF Next, MainThread, Enqueue, OnShutdown, SignalShutdown, OnShutdownReturns, Join,
       BackupThread, BackupEnd, BackupTake, BackupSignal, WorkerThread, WorkerEnd, WorkerTake,
       WorkerRead, WorkerWrite, WorkerBackupInsert, WorkerBackupDelete, WorkerAdd,
       WorkerComplete, vars, threads
  <2> QED
    BY <2>1, <2>2 DEF Reset
<1> QED
  BY <1>1, <1>2, <1>3

\* As long as fewer queries are outstanding than the ring has slots, neither of the
\* semaphores loses a signal: the threads work until each query is completed, and
\* OnShutdown and the destructor are not left waiting.  With as many queries as slots
\* the backup thread does not find the empty slot at which it ends.
THEOREM NoDeadlock ==
  ASSUME Outstanding < RingSize
  PROVE  Spec => []NeverStuck
<1>1. ASSUME IInv, Order, Reset
      PROVE  NeverStuck
  <2> SUFFICES ASSUME ~MainMoves, ~BackupMoves, ~WorkerMoves
               PROVE  Len(results) = Len(queries) /\ main \notin {"signal", "shutdown", "destructor"}
    BY DEF NeverStuck
  <2>1. /\ numBackup \in Nat /\ numWorker \in Nat /\ backup.num \in Nat /\ worker.num \in Nat
        /\ Len(queries) \in Nat /\ backup.num <= Len(queries) /\ worker.num <= Len(queries)
        /\ backup.pc \in {"wait", "signal", "exited"}
    BY <1>1 DEF IInv, TypeOK, Order, Ring
  <2>2. /\ (backup.pc = "wait" /\ numBackup = 0) \/ backup.pc = "exited"
        /\ (worker.pc = "wait" /\ numWorker = 0) \/ worker.pc = "exited"
    BY <2>1 DEF BackupMoves, WorkerMoves
  <2>3. /\ backup.num = Len(queries)
        /\ ~Signalled <=> backup.pc = "wait"
    <3>1. CASE backup.pc = "wait"
      <4>1. backup.num = Len(queries) + (IF Signalled THEN 1 ELSE 0)
        BY <1>1, <2>1, <2>2, <3>1 DEF Order, Signals
      <4> QED
        BY <2>1, <3>1, <4>1
    <3>2. CASE backup.pc = "exited"
      BY <1>1, <3>2 DEF Order, Ends
    <3> QED
      BY <2>2, <3>1, <3>2
  <2>4. /\ worker.num = Len(queries)
        /\ worker.pc = "wait" => backup.pc = "wait"
        /\ worker.pc = "exited" => Signalled
    <3>1. CASE worker.pc = "wait"
      <4>1. worker.num = Len(queries) + Exited(backup)
        BY <1>1, <2>1, <2>2, <2>3, <3>1 DEF IInv, Tokens, Exited
      <4>2. Exited(backup) = 0
        BY <2>1, <4>1 DEF Exited
      <4> QED
        BY <2>1, <2>2, <3>1, <4>1, <4>2 DEF Exited
    <3>2. CASE worker.pc = "exited"
      BY <1>1, <3>2 DEF Order, Ends
    <3> QED
      BY <2>2, <3>1, <3>2
  <2>5. Len(results) = Len(queries)
    <3>1. worker.query = Empty
      BY <1>1, <2>2 DEF IInv, Position
    <3> QED
      BY <1>1, <2>1, <2>4, <3>1 DEF Order, Completed
  <2>6. main \notin {"signal", "shutdown", "destructor"}
    BY <1>1, <2>2, <2>3, <2>4 DEF MainMoves, Reset, Signalled
  <2> QED
    BY <2>5, <2>6
<1>2. Spec => []Order
  BY InitOrder, NextOrder, Invariant, PTL DEF Spec
<1>3. Init => Reset
  BY DEF Init, Reset
<1>4. IInv /\ Order /\ Reset /\ [Next]_vars => Reset'
  BY ResetStep
<1>5. Spec => []Reset
  BY <1>2, <1>3, <1>4, Invariant, PTL DEF Spec
<1> QED
  BY <1>1, <1>2, <1>5, Invariant, PTL

=============================================================================
