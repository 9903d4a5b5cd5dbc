------------------------------- MODULE DbPool -------------------------------
(***************************************************************************)
(* CDbConnectionPool (src/src/engine/server/databases/connection_pool.cpp):*)
(* the ring of queries, the backup thread that looks at each of them       *)
(* first, the worker thread that executes them, the main thread that       *)
(* queues them and waits for both threads at the end; and the three places *)
(* a rank can be stored in (src/src/game/server/scoreworker.cpp,           *)
(* SaveScore).                                                             *)
(*                                                                         *)
(* Queries are numbered from 0 in the order of their insertion, as JobNum  *)
(* of both threads counts them.  A query on a database may fail at any     *)
(* time.                                                                   *)
(***************************************************************************)
EXTENDS Integers, Sequences, FiniteSets

CONSTANTS
  RingSize,        \* std::size(m_aQueries), 512
  Outstanding,     \* bound: queries in the ring that the worker has not taken
  MaxQueries,      \* bound: queries in all
  Kinds            \* the kinds of queries the main thread queues

Kind == {"read", "write", "print", "add read", "add write", "add backup"}
Empty == -1        \* nullptr

ASSUME RingAssumption == RingSize \in Nat \ {0}
ASSUME BoundsAssumption == Outstanding \in Nat /\ MaxQueries \in Nat /\ Kinds \subseteq Kind

VARIABLES
  ring,            \* m_aQueries: the number of the query in each slot
  insertIdx,       \* m_InsertIdx
  numBackup,       \* m_NumBackup
  numWorker,       \* m_NumWorker
  shutdown,        \* m_pShared->m_Shutdown
  main,            \* the main thread: running, in OnShutdown before the signal and
                   \* after it, in the destructor, after it
  backup,          \* CBackup::ProcessQueries: [pc, num, db]
  worker,          \* CWorker::ProcessQueries: [pc, num, query, success, failMode, reads, write, backup]
  \* the databases
  ranks,           \* writes in the table of the WRITE database
  pending,         \* writes in the _backup table of the WRITE_BACKUP database
  moved,           \* writes in the other table of the WRITE_BACKUP database
  \* history variables
  queries,         \* kinds of the queries inserted
  stored,          \* writes the backup thread has stored
  results          \* of the queries completed, in this order: [query, success]

threads == <<main, backup, worker>>
databases == <<ranks, pending, moved>>
vars == <<ring, insertIdx, numBackup, numWorker, shutdown, threads, databases,
          queries, stored, results>>

Query == 0 .. MaxQueries - 1

Init ==
  /\ ring = [i \in 0 .. RingSize - 1 |-> Empty]
  /\ insertIdx = 0
  /\ numBackup = 0 /\ numWorker = 0
  /\ shutdown = FALSE
  /\ main = "running"
  /\ backup = [pc |-> "wait", num |-> 0, db |-> FALSE]
  /\ worker = [pc |-> "wait", num |-> 0, query |-> Empty, success |-> FALSE, failMode |-> FALSE,
               reads |-> FALSE, write |-> FALSE, backup |-> FALSE]
  /\ ranks = {} /\ pending = {} /\ moved = {}
  /\ queries = <<>> /\ stored = {} /\ results = <<>>

KindOf(q) == queries[q + 1]

-----------------------------------------------------------------------------
(* The main thread.                                                        *)

\* The slot after slot i, without and with the wrap.
NextSlotUnbounded(i) == i + 1
NextSlot(i) == (i + 1) % RingSize

\* Execute and the like, with the signal for the wrong thread.
EnqueueForWorker(kind) ==
  /\ main = "running"
  /\ Len(queries) < MaxQueries
  /\ Len(queries) - worker.num < Outstanding
  /\ ring' = [ring EXCEPT ![insertIdx] = Len(queries)]
  /\ insertIdx' = NextSlot(insertIdx)
  /\ queries' = Append(queries, kind)
  /\ numWorker' = numWorker + 1
  /\ UNCHANGED <<numBackup, shutdown, threads, databases, stored, results>>

\* Execute, ExecuteWrite, Print, RegisterSqliteDatabase, RegisterMysqlDatabase
Enqueue(kind) ==
  /\ main = "running"
  /\ Len(queries) < MaxQueries
  /\ Len(queries) - worker.num < Outstanding
  /\ ring' = [ring EXCEPT ![insertIdx] = Len(queries)]
  /\ insertIdx' = NextSlot(insertIdx)
  /\ queries' = Append(queries, kind)
  /\ numBackup' = numBackup + 1
  /\ UNCHANGED <<numWorker, shutdown, threads, databases, stored, results>>

\* OnShutdown sets the flag the worker looks at ...
OnShutdown ==
  /\ main = "running"
  /\ shutdown' = TRUE
  /\ main' = "signal"
  /\ UNCHANGED <<ring, insertIdx, numBackup, numWorker, backup, worker, databases,
                 queries, stored, results>>

\* ... but wakes nobody.
SignalNobody ==
  /\ main = "signal"
  /\ main' = "shutdown"
  /\ UNCHANGED <<ring, insertIdx, numBackup, numWorker, shutdown, backup, worker, databases,
                 queries, stored, results>>

\* ... and wakes the backup thread, then it waits.
SignalShutdown ==
  /\ main = "signal"
  /\ numBackup' = numBackup + 1
  /\ main' = "shutdown"
  /\ UNCHANGED <<ring, insertIdx, numWorker, shutdown, backup, worker, databases,
                 queries, stored, results>>

\* The worker has reset m_Shutdown: OnShutdown returns.
OnShutdownReturns ==
  /\ main = "shutdown"
  /\ ~shutdown
  /\ main' = "destructor"
  /\ UNCHANGED <<ring, insertIdx, numBackup, numWorker, shutdown, backup, worker, databases,
                 queries, stored, results>>

\* The destructor has waited for both threads.
Join ==
  /\ main = "destructor"
  /\ backup.pc = "exited" /\ worker.pc = "exited"
  /\ main' = "joined"
  /\ UNCHANGED <<ring, insertIdx, numBackup, numWorker, shutdown, backup, worker, databases,
                 queries, stored, results>>

-----------------------------------------------------------------------------
(* The backup thread: CBackup::ProcessQueries.                             *)

BackupSlot == ring[backup.num % RingSize]

\* The end of the queries has been reached.
BackupEnd ==
  /\ backup.pc = "wait"
  /\ numBackup > 0
  /\ BackupSlot = Empty
  /\ numBackup' = numBackup - 1
  /\ numWorker' = numWorker + 1
  /\ backup' = [backup EXCEPT !.pc = "exited"]
  /\ UNCHANGED <<ring, insertIdx, shutdown, main, worker, databases, queries, stored, results>>

\* The next query: a write is stored in the backup database, if there is one.
BackupTake ==
  /\ backup.pc = "wait"
  /\ numBackup > 0
  /\ BackupSlot # Empty
  /\ numBackup' = numBackup - 1
  /\ \/ /\ KindOf(BackupSlot) = "add backup"
        /\ backup' = [backup EXCEPT !.pc = "signal", !.db = TRUE]
        /\ UNCHANGED <<pending, stored>>
     \/ /\ KindOf(BackupSlot) = "write" /\ backup.db
        /\ pending' = pending \cup {BackupSlot}
        /\ stored' = stored \cup {BackupSlot}
        /\ backup' = [backup EXCEPT !.pc = "signal"]
     \/ /\ KindOf(BackupSlot) # "add backup"
        /\ backup' = [backup EXCEPT !.pc = "signal"]
        /\ UNCHANGED <<pending, stored>>
  /\ UNCHANGED <<ring, insertIdx, numWorker, shutdown, main, worker, ranks, moved, queries, results>>

\* Passing the query on, but not a read, which has been skipped over.
BackupSignalUnlessRead ==
  /\ backup.pc = "signal"
  /\ numWorker' = IF KindOf(backup.num) = "read" THEN numWorker ELSE numWorker + 1
  /\ backup' = [backup EXCEPT !.pc = "wait", !.num = @ + 1]
  /\ UNCHANGED <<ring, insertIdx, numBackup, shutdown, main, worker, databases, queries, stored, results>>

\* Every query is passed on to the worker.
BackupSignal ==
  /\ backup.pc = "signal"
  /\ numWorker' = numWorker + 1
  /\ backup' = [backup EXCEPT !.pc = "wait", !.num = @ + 1]
  /\ UNCHANGED <<ring, insertIdx, numBackup, shutdown, main, worker, databases, queries, stored, results>>

-----------------------------------------------------------------------------
(* The worker thread: CWorker::ProcessQueries.                             *)

WorkerIdx == worker.num % RingSize

\* The worker ends when it sees the shutdown.
WorkerEndEarly ==
  /\ worker.pc = "wait"
  /\ numWorker > 0
  /\ ring[WorkerIdx] = Empty \/ shutdown
  /\ numWorker' = numWorker - 1
  /\ shutdown' = FALSE
  /\ worker' = [worker EXCEPT !.pc = "exited"]
  /\ UNCHANGED <<ring, insertIdx, numBackup, main, backup, databases, queries, stored, results>>

\* The end of the queries has been reached.
WorkerEnd ==
  /\ worker.pc = "wait"
  /\ numWorker > 0
  /\ ring[WorkerIdx] = Empty
  /\ numWorker' = numWorker - 1
  /\ shutdown' = FALSE
  /\ worker' = [worker EXCEPT !.pc = "exited"]
  /\ UNCHANGED <<ring, insertIdx, numBackup, main, backup, databases, queries, stored, results>>

\* The next query leaves the ring.
WorkerTake ==
  /\ worker.pc = "wait"
  /\ numWorker > 0
  /\ ring[WorkerIdx] # Empty
  /\ numWorker' = numWorker - 1
  /\ ring' = [ring EXCEPT ![WorkerIdx] = Empty]
  /\ worker' = [worker EXCEPT !.pc = KindOf(ring[WorkerIdx]), !.query = ring[WorkerIdx],
                              !.num = @ + 1, !.success = FALSE]
  /\ UNCHANGED <<insertIdx, numBackup, shutdown, main, backup, databases, queries, stored, results>>

\* READ_ACCESS: read requests are dismissed during shutdown and in fail mode.
WorkerRead ==
  /\ worker.pc = "read"
  /\ \E success \in BOOLEAN :
       /\ success => worker.reads /\ ~shutdown /\ ~worker.failMode
       /\ worker' = [worker EXCEPT !.pc = "complete", !.success = success,
                                   !.failMode = @ \/ ~success]
  /\ UNCHANGED <<ring, insertIdx, numBackup, numWorker, shutdown, main, backup, databases,
                 queries, stored, results>>

\* WRITE_ACCESS, first half: the write is executed on the WRITE database, unless it is left
\* to the backup database.  It may have been executed although the answer was an error.
WorkerWrite ==
  /\ worker.pc = "write"
  /\ \E success \in BOOLEAN, executed \in BOOLEAN :
       /\ success => executed
       /\ executed => worker.write /\ ~((shutdown \/ worker.failMode) /\ worker.backup)
       /\ ranks' = IF executed THEN ranks \cup {worker.query} ELSE ranks
       /\ worker' = [worker EXCEPT !.success = success,
                                   !.failMode = @ \/ ~success,
                                   !.pc = IF worker.backup THEN "backup" ELSE "complete"]
  /\ UNCHANGED <<ring, insertIdx, numBackup, numWorker, shutdown, main, backup, pending, moved,
                 queries, stored, results>>

\* What the second half tells the backup database: swapped, and as it is.
BackupModeSwapped(success) == IF success THEN "NORMAL_FAILED" ELSE "NORMAL_SUCCEEDED"
BackupMode(success) == IF success THEN "NORMAL_SUCCEEDED" ELSE "NORMAL_FAILED"

\* The second half, going on to the DELETE although the INSERT has failed.
WorkerBackupInsertIgnored ==
  /\ worker.pc = "backup"
  /\ worker' = [worker EXCEPT !.pc = "delete"]
  /\ moved' \in IF BackupMode(worker.success) = "NORMAL_FAILED"
                THEN {moved, moved \cup ({worker.query} \cap pending)} ELSE {moved}
  /\ UNCHANGED <<ring, insertIdx, numBackup, numWorker, shutdown, main, backup, ranks, pending,
                 queries, stored, results>>

\* WRITE_ACCESS, second half, on the backup database.  NORMAL_SUCCEEDED removes the write
\* from the _backup table, NORMAL_FAILED moves it to the other table: INSERT, then DELETE.
WorkerBackupInsert ==
  /\ worker.pc = "backup"
  /\ \/ /\ BackupMode(worker.success) = "NORMAL_SUCCEEDED"
        /\ worker' = [worker EXCEPT !.pc = "delete"]
        /\ UNCHANGED moved
     \/ /\ BackupMode(worker.success) = "NORMAL_FAILED"
        /\ moved' = moved \cup ({worker.query} \cap pending)
        /\ worker' = [worker EXCEPT !.pc = "delete"]
     \/ /\ worker' = [worker EXCEPT !.pc = "complete"]
        /\ UNCHANGED moved
  /\ UNCHANGED <<ring, insertIdx, numBackup, numWorker, shutdown, main, backup, ranks, pending,
                 queries, stored, results>>

\* The DELETE succeeds or fails.
WorkerBackupDelete ==
  /\ worker.pc = "delete"
  /\ \/ /\ pending' = pending \ {worker.query}
        /\ worker' = [worker EXCEPT !.pc = "complete", !.success = TRUE]
     \/ /\ worker' = [worker EXCEPT !.pc = "complete"]
        /\ UNCHANGED pending
  /\ UNCHANGED <<ring, insertIdx, numBackup, numWorker, shutdown, main, backup, ranks, moved,
                 queries, stored, results>>

\* ADD_MYSQL, ADD_SQLITE and PRINT
WorkerAdd ==
  /\ worker.pc \in {"add read", "add write", "add backup", "print"}
  /\ worker' = [worker EXCEPT !.pc = "complete", !.success = TRUE,
                              !.reads = @ \/ worker.pc = "add read",
                              !.write = @ \/ worker.pc = "add write",
                              !.backup = @ \/ worker.pc = "add backup"]
  /\ UNCHANGED <<ring, insertIdx, numBackup, numWorker, shutdown, main, backup, databases,
                 queries, stored, results>>

\* The result is published; the fail mode ends when no query is waiting.
WorkerComplete ==
  /\ worker.pc = "complete"
  /\ results' = Append(results, [query |-> worker.query, success |-> worker.success])
  /\ worker' = [worker EXCEPT !.pc = "wait", !.query = Empty, !.failMode = @ /\ numWorker # 0]
  /\ UNCHANGED <<ring, insertIdx, numBackup, numWorker, shutdown, main, backup, databases,
                 queries, stored>>

-----------------------------------------------------------------------------

MainThread ==
  \/ \E kind \in Kinds : Enqueue(kind)
  \/ OnShutdown \/ SignalShutdown \/ OnShutdownReturns \/ Join
BackupThread == BackupEnd \/ BackupTake \/ BackupSignal
WorkerThread ==
  \/ WorkerEnd \/ WorkerTake
  \/ WorkerRead \/ WorkerWrite \/ WorkerBackupInsert \/ WorkerBackupDelete \/ WorkerAdd
  \/ WorkerComplete

Next == MainThread \/ BackupThread \/ WorkerThread

Spec == Init /\ [][Next]_vars

\* Both threads are scheduled and each database operation ends.  The main thread need not
\* queue anything or shut down, but once it does it gets to the end if it can.
Fairness ==
  /\ WF_vars(BackupThread)
  /\ WF_vars(WorkerThread)
  /\ WF_vars(SignalShutdown \/ OnShutdownReturns \/ Join)

FairSpec == Spec /\ Fairness

-----------------------------------------------------------------------------
(* Properties.                                                             *)

TypeOK ==
  /\ ring \in [0 .. RingSize - 1 -> Query \cup {Empty}]
  /\ insertIdx \in 0 .. RingSize - 1
  /\ numBackup \in Nat /\ numWorker \in Nat
  /\ shutdown \in BOOLEAN
  /\ main \in {"running", "signal", "shutdown", "destructor", "joined"}
  /\ backup \in [pc : {"wait", "signal", "exited"}, num : Nat, db : BOOLEAN]
  /\ worker \in [pc : Kind \cup {"wait", "backup", "delete", "complete", "exited"},
                 num : Nat, query : Query \cup {Empty}, success : BOOLEAN, failMode : BOOLEAN,
                 reads : BOOLEAN, write : BOOLEAN, backup : BOOLEAN]
  /\ ranks \subseteq Query /\ pending \subseteq Query /\ moved \subseteq Query
  /\ queries \in Seq(Kind)
  /\ stored \subseteq Query
  /\ results \in Seq([query : Query, success : BOOLEAN])

\* "This is done to not loose ranks when the server shuts down before all queries are
\* executed": a write the backup thread has stored is in one of the tables at any time, at
\* which the server may be killed, whatever fails afterwards.
NotLost == stored \subseteq ranks \cup pending \cup moved

\* "Queries go first to the backup thread": the worker never takes a query that the backup
\* thread has not looked at.
BackedFirst == worker.num <= backup.num + (IF backup.pc = "exited" THEN 1 ELSE 0)

\* What the main thread is told of a write the backup thread has stored: success only if it
\* is in a table that ranks are loaded from, failure only if it is still in the _backup table.
HonestResults ==
  \A i \in DOMAIN results :
    LET q == results[i].query
    IN  q \in stored => IF results[i].success THEN q \in ranks \cup moved ELSE q \in pending

\* "work through all database jobs after OnShutdown is called before exiting the thread":
\* when OnShutdown returns each query has been completed, once and in the order of insertion.
AllProcessed ==
  main \in {"destructor", "joined"} =>
    /\ Len(results) = Len(queries)
    /\ \A i \in DOMAIN results : results[i].query = i - 1

\* Every query is completed.
EventuallyCompleted ==
  \A q \in Query : Len(queries) > q ~> \E i \in DOMAIN results : results[i].query = q

\* OnShutdown and the destructor return.
ShutdownReturns == main = "signal" ~> main = "joined"
=============================================================================
