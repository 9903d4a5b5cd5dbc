------------------------------ MODULE AsyncIo ------------------------------
(***************************************************************************)
(* ASYNCIO (src/src/base/aio.cpp): producers put lines into a ring buffer  *)
(* that grows, a thread of its own takes them out and writes them, and an  *)
(* owner closes the file, waits for the thread and gives the structure up. *)
(* Users are the loggers (src/src/base/log.cpp), where every thread is a   *)
(* producer, and teehistorian (src/src/game/server/gamecontext.cpp).       *)
(*                                                                         *)
(* One action is one critical section, or what a thread does within one    *)
(* between two calls of the producer, one operation on the semaphore, or   *)
(* one access to the file.                                                 *)
(***************************************************************************)
EXTENDS Integers, Sequences

CONSTANTS
  Byte,            \* what can be written
  Pieces,          \* the buffers that producers pass to aio_write_unlocked
  Producers,       \* threads that write
  BufSize,         \* ASYNC_BUFSIZE
  LocalSize,       \* ASYNC_LOCAL_BUFSIZE
  Garbage,         \* what malloc returns
  MaxBytes         \* bound: bytes written in all

ASSUME PiecesAssumption == Pieces \subseteq Seq(Byte)
ASSUME ProducersAssumption == {"free", "writer"} \cap Producers = {}
ASSUME SizesAssumption == BufSize \in Nat \ {0} /\ LocalSize \in Nat \ {0}
ASSUME GarbageAssumption == Garbage \notin Byte

VARIABLES
  lock,            \* who holds the lock: a producer, "writer" or "free"
  sphore,
  buffer, buffer_size, read_pos, write_pos,
  error, finish, refcount,
  thread,          \* the structure still has the handle of the thread
  freed,           \* the structure has been freed
  io,              \* the file: "open" or "closed"
  writer,          \* where aio_thread is
  local_buffer,    \* local_buffer of aio_thread
  producer,        \* producer[p]: what p is doing
  owner,           \* what the owner is doing
  \* history variables
  line,            \* bytes the holder of the lock has put into the buffer
  accepted,        \* bytes of all lines, each from its aio_unlock on
  written,         \* bytes handed to io_write
  damaged,         \* the error flag of the file
  due,             \* Len(accepted) when the end was asked for, or -1
  report           \* what aio_error told the owner after aio_wait

ringVars == <<buffer, buffer_size, read_pos, write_pos>>
fileVars == <<io, written, damaged>>
endVars == <<finish, thread, due, report>>
countVars == <<refcount, freed>>
textVars == <<line, accepted>>
threadVars == <<writer, local_buffer, error>>
vars == <<lock, sphore, ringVars, fileVars, endVars, countVars, textVars, threadVars,
          producer, owner>>

-----------------------------------------------------------------------------
(* The ring buffer.                                                        *)

\* buffer_len
BufferLen ==
  IF write_pos >= read_pos THEN write_pos - read_pos
                           ELSE buffer_size + write_pos - read_pos

\* Where byte i of the content is: in one of the two areas of buffer_ptrs.
Position(i) ==
  IF read_pos + i < buffer_size THEN read_pos + i ELSE read_pos + i - buffer_size

\* The areas of buffer_ptrs one after the other.
Content == [i \in 1 .. BufferLen |-> buffer[Position(i - 1)]]

\* next_buffer_size: what doubling leads to, a set with one element.
NextBufferSizes(cur, need) ==
  {n \in need .. 2 * need :
     \E k \in 0 .. need : n = cur * 2^k /\ (k > 0 => cur * 2^(k - 1) < need)}

\* The piece is copied behind the content, wrapped around the end if need be.
Put(piece) ==
  LET Offset(i) == IF i >= write_pos THEN i - write_pos ELSE i + buffer_size - write_pos
  IN  /\ buffer' = [i \in 0 .. buffer_size - 1 |->
                      IF Offset(i) < Len(piece) THEN piece[Offset(i) + 1] ELSE buffer[i]]
      /\ write_pos' = (write_pos + Len(piece)) % buffer_size
      /\ UNCHANGED <<buffer_size, read_pos>>

\* Content and piece are copied into a new buffer for at least need bytes.
Grow(piece, need) ==
  LET text == Content \o piece
  IN  /\ \E size \in NextBufferSizes(buffer_size, need) :
           /\ buffer_size' = size
           /\ buffer' = [i \in 0 .. size - 1 |->
                           IF i < Len(text) THEN text[i + 1] ELSE Garbage]
      /\ read_pos' = 0
      /\ write_pos' = Len(text)

\* Mutated: the buffer may become full.
PutInPlaceFull(piece) == Len(piece) <= buffer_size - BufferLen /\ Put(piece)
PutInExact(piece) ==
  Len(piece) >= buffer_size - BufferLen /\ Grow(piece, BufferLen + Len(piece))

\* aio_write_unlocked.  The buffer is never filled completely.
PutInPlace(piece) == Len(piece) < buffer_size - BufferLen /\ Put(piece)
PutInLarger(piece) ==
  Len(piece) >= buffer_size - BufferLen /\ Grow(piece, BufferLen + Len(piece) + 1)

-----------------------------------------------------------------------------
(* Producers.                                                              *)

\* aio_lock.  A line has at least one byte.  The owner gives the structure
\* up only when nobody writes any more.
Lock(p) ==
  /\ producer[p] = "idle"
  /\ owner \notin {"free", "done"}
  /\ Len(accepted) < MaxBytes
  /\ lock = "free"
  /\ lock' = p
  /\ producer' = [producer EXCEPT ![p] = "locked"]
  /\ UNCHANGED <<sphore, ringVars, fileVars, endVars, countVars, textVars, threadVars,
                 owner>>

\* aio_write_unlocked by whoever has the lock.
WriteUnlocked(p, piece) ==
  /\ producer[p] = "locked"
  /\ Len(accepted) + Len(line) + Len(piece) <= MaxBytes
  /\ PutInPlace(piece) \/ PutInLarger(piece)
  /\ line' = line \o piece
  /\ UNCHANGED <<lock, sphore, fileVars, endVars, countVars, accepted, threadVars,
                 producer, owner>>

\* aio_unlock, in two steps: the semaphore is signalled outside of the lock.
Unlock(p) ==
  /\ producer[p] = "locked"
  /\ line # <<>>
  /\ lock' = "free"
  /\ producer' = [producer EXCEPT ![p] = "signal"]
  /\ accepted' = accepted \o line
  /\ line' = <<>>
  /\ UNCHANGED <<sphore, ringVars, fileVars, endVars, countVars, threadVars, owner>>

Signal(p) ==
  /\ producer[p] = "signal"
  /\ sphore' = sphore + 1
  /\ producer' = [producer EXCEPT ![p] = "idle"]
  /\ UNCHANGED <<lock, ringVars, fileVars, endVars, countVars, textVars, threadVars,
                 owner>>

-----------------------------------------------------------------------------
(* aio_thread.                                                             *)

WriterLock ==
  /\ writer \in {"unlocked", "stored"}
  /\ lock = "free"
  /\ lock' = "writer"
  /\ writer' = "locked"
  /\ error' = IF writer = "stored" THEN damaged ELSE error
  /\ UNCHANGED <<sphore, ringVars, fileVars, endVars, countVars, textVars, local_buffer,
                 producer, owner>>

\* As many bytes as local_buffer holds; the lock is released for the writing.
WriterTake ==
  LET n == IF BufferLen <= LocalSize THEN BufferLen ELSE LocalSize
  IN  /\ writer = "locked"
      /\ read_pos # write_pos
      /\ local_buffer' = SubSeq(Content, 1, n)
      /\ read_pos' = (read_pos + n) % buffer_size
      /\ lock' = "free"
      /\ writer' = "write"
      /\ UNCHANGED <<sphore, buffer, buffer_size, write_pos, fileVars, endVars, countVars,
                     textVars, error, producer, owner>>

\* io_write, io_flush and io_error; each of them may fail.
Store(next) ==
  /\ writer = "write"
  /\ written' = written \o local_buffer
  /\ local_buffer' = <<>>
  /\ damaged' \in {damaged, TRUE}
  /\ writer' = next
  /\ UNCHANGED <<lock, sphore, ringVars, io, endVars, countVars, textVars, error,
                 producer, owner>>
\* Mutated: waits for the semaphore before every chunk.
WriterStoreAndSleep == Store("asleep")
WriterStore == Store("stored")

WriterSleep ==
  /\ writer = "locked"
  /\ read_pos = write_pos
  /\ finish = "RUNNING"
  /\ lock' = "free"
  /\ writer' = "asleep"
  /\ UNCHANGED <<sphore, ringVars, fileVars, endVars, countVars, textVars, local_buffer,
                 error, producer, owner>>

WriterWake ==
  /\ writer = "asleep"
  /\ sphore > 0
  /\ sphore' = sphore - 1
  /\ writer' = "unlocked"
  /\ UNCHANGED <<lock, ringVars, fileVars, endVars, countVars, textVars, local_buffer,
                 error, producer, owner>>

\* The end of the thread, up to the unlock of aio_handle_free_and_unlock.
GiveUp ==
  /\ writer = "locked"
  /\ finish # "RUNNING"
  /\ io' = IF finish = "CLOSE" THEN "closed" ELSE io
  /\ refcount' = refcount - 1
  /\ lock' = "free"
  /\ writer' = IF refcount' = 0 THEN "free" ELSE "exited"
  /\ UNCHANGED <<sphore, ringVars, written, damaged, endVars, freed, textVars,
                 local_buffer, error, producer, owner>>
\* Mutated: does not look at what is still buffered.
WriterExitAtOnce == GiveUp
WriterExit == read_pos = write_pos /\ GiveUp

WriterFree ==
  /\ writer = "free"
  /\ freed' = TRUE
  /\ writer' = "exited"
  /\ UNCHANGED <<lock, sphore, ringVars, fileVars, endVars, refcount, textVars,
                 local_buffer, error, producer, owner>>

-----------------------------------------------------------------------------
(* The owner: aio_close or aio_wait or both, then aio_free.                *)

\* aio_close, the critical section.
Close ==
  /\ owner = "running"
  /\ lock = "free"
  /\ finish' = "CLOSE"
  /\ due' = Len(accepted)
  /\ owner' = "closing"
  /\ UNCHANGED <<lock, sphore, ringVars, fileVars, thread, report, countVars, textVars,
                 threadVars, producer>>

\* aio_wait, the critical section.
AskToExit ==
  /\ owner \in {"running", "closed"}
  /\ lock = "free"
  /\ thread' = FALSE
  /\ finish' = IF finish = "RUNNING" THEN "EXIT" ELSE finish
  /\ due' = IF due = -1 THEN Len(accepted) ELSE due
  /\ owner' = "waiting"
  /\ UNCHANGED <<lock, sphore, ringVars, fileVars, report, countVars, textVars,
                 threadVars, producer>>

\* Mutated: aio_wait does not signal.
OwnerSignalOfClose ==
  /\ \/ owner = "closing" /\ owner' = "closed" /\ sphore' = sphore + 1
     \/ owner = "waiting" /\ owner' = "join" /\ sphore' = sphore
  /\ UNCHANGED <<lock, ringVars, fileVars, endVars, countVars, textVars, threadVars,
                 producer>>

\* The signal at the end of both.
OwnerSignal ==
  /\ \/ owner = "closing" /\ owner' = "closed"
     \/ owner = "waiting" /\ owner' = "join"
  /\ sphore' = sphore + 1
  /\ UNCHANGED <<lock, ringVars, fileVars, endVars, countVars, textVars, threadVars,
                 producer>>

\* thread_wait returns.
Join ==
  /\ owner = "join"
  /\ writer = "exited"
  /\ owner' = "joined"
  /\ UNCHANGED <<lock, sphore, ringVars, fileVars, endVars, countVars, textVars,
                 threadVars, producer>>

\* aio_error after aio_wait.
Error ==
  /\ owner = "joined"
  /\ lock = "free"
  /\ report' = IF error THEN "error" ELSE "ok"
  /\ owner' = "informed"
  /\ UNCHANGED <<lock, sphore, ringVars, fileVars, finish, thread, due, countVars,
                 textVars, threadVars, producer>>

\* aio_free, up to the unlock: the thread is detached unless it was waited for.
Leave(next) ==
  /\ owner \in {"closed", "joined", "informed"}
  /\ \A p \in Producers : producer[p] = "idle"
  /\ lock = "free"
  /\ thread' = FALSE
  /\ refcount' = refcount - 1
  /\ owner' = next
  /\ UNCHANGED <<lock, sphore, ringVars, fileVars, finish, due, report, freed, textVars,
                 threadVars, producer>>
\* Mutated: frees without looking at the count.
FreeAtOnce == Leave("free")
Free == Leave(IF refcount = 1 THEN "free" ELSE "done")

OwnerFree ==
  /\ owner = "free"
  /\ freed' = TRUE
  /\ owner' = "done"
  /\ UNCHANGED <<lock, sphore, ringVars, fileVars, endVars, refcount, textVars,
                 threadVars, producer>>

\* Nobody has a reference any more.
Terminated ==
  /\ owner = "done" /\ writer = "exited"
  /\ UNCHANGED vars

-----------------------------------------------------------------------------
\* aio_new
Init ==
  /\ lock = "free"
  /\ sphore = 0
  /\ buffer = [i \in 0 .. BufSize - 1 |-> Garbage]
  /\ buffer_size = BufSize
  /\ read_pos = 0 /\ write_pos = 0
  /\ error = FALSE
  /\ finish = "RUNNING"
  /\ refcount = 2
  /\ thread = TRUE
  /\ freed = FALSE
  /\ io = "open"
  /\ writer = "unlocked"
  /\ local_buffer = <<>>
  /\ producer = [p \in Producers |-> "idle"]
  /\ owner = "running"
  /\ line = <<>>
  /\ accepted = <<>> /\ written = <<>>
  /\ damaged = FALSE
  /\ due = -1
  /\ report = "none"

Write(p) == \E piece \in Pieces : WriteUnlocked(p, piece)
Producer(p) == Lock(p) \/ Write(p) \/ Unlock(p) \/ Signal(p)
Writer ==
  \/ WriterLock \/ WriterTake \/ WriterStore \/ WriterSleep \/ WriterWake
  \/ WriterExit \/ WriterFree
Ending == OwnerSignal \/ Join \/ Error \/ Free \/ OwnerFree
Owner == Close \/ AskToExit \/ Ending

Next == (\E p \in Producers : Producer(p)) \/ Writer \/ Owner \/ Terminated

Spec == Init /\ [][Next]_vars

\* The threads run on; a producer that holds the lock comes to aio_unlock, and
\* an owner that has begun to end comes to aio_free.
Fairness ==
  /\ WF_vars(Writer) /\ WF_vars(Ending)
  /\ \A p \in Producers : WF_vars(Write(p) \/ Unlock(p) \/ Signal(p))
FairSpec == Spec /\ Fairness

-----------------------------------------------------------------------------
(* Properties.                                                             *)

\* A position is an index of the buffer.
RingTypeOK ==
  /\ buffer_size \in Nat \ {0}
  /\ buffer \in [0 .. buffer_size - 1 -> Byte \cup {Garbage}]
  /\ read_pos \in 0 .. buffer_size - 1 /\ write_pos \in 0 .. buffer_size - 1

\* Types.  A position is an index of the buffer, the lock is with whoever is
\* between aio_lock and aio_unlock, and the end is asked for once.
TypeOK ==
  /\ lock \in {"free", "writer"} \cup Producers
  /\ sphore \in Nat
  /\ RingTypeOK
  /\ error \in BOOLEAN /\ damaged \in BOOLEAN
  /\ finish \in {"RUNNING", "CLOSE", "EXIT"}
  /\ refcount \in 0 .. 2
  /\ thread \in BOOLEAN /\ freed \in BOOLEAN
  /\ io \in {"open", "closed"}
  /\ writer \in {"unlocked", "locked", "write", "stored", "asleep", "free", "exited"}
  /\ producer \in [Producers -> {"idle", "locked", "signal"}]
  /\ owner \in {"running", "closing", "closed", "waiting", "join", "joined", "informed",
                "free", "done"}
  /\ line \in Seq(Byte) /\ accepted \in Seq(Byte)
  /\ written \in Seq(Byte) /\ local_buffer \in Seq(Byte)
  /\ due \in Nat \cup {-1}
  /\ report \in {"none", "ok", "error"}

\* However often the buffer wraps around and grows while the thread is writing,
\* every byte is in exactly one place, in the order of aio_write: the file, the
\* thread's copy or the ring (buffer_ptrs, aio_write_unlocked, aio_thread).
NothingLost == accepted \o line = written \o local_buffer \o Content

\* The structure is freed after the last use of it: no thread that still holds
\* a reference, waits for the lock or is about to signal is left.
NoUseAfterFree ==
  freed => /\ lock = "free"
           /\ writer = "exited" /\ owner = "done"
           /\ \A p \in Producers : producer[p] = "idle"

\* The file with its thread is a log to which lines are appended as a whole,
\* whose end and whose errors are reported truthfully.
Log == INSTANCE AppendLog WITH accepted <- accepted, written <- written,
                               damaged <- damaged, due <- due, report <- report
ImplementsLog == Log!Spec

\* No signal is lost: what was accepted before the end is asked for reaches
\* the file (the semaphore between aio_unlock and aio_thread).
EventuallyWritten ==
  (owner = "running" /\ written # accepted)
    ~> (written = accepted \/ (due # -1 /\ Len(written) >= due))

\* An end once begun leads to a closed file, if that was asked for, and to the
\* structure being freed by whichever of owner and thread is the last.
EventuallyFreed ==
  owner # "running" ~> (freed /\ (finish = "CLOSE" => io = "closed"))
=============================================================================
