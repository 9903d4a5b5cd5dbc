# A TLA+ development for Mighty Client (DDNet)

Specifications of the concurrent and distributed core of the game and its server,
their model-checking configurations for TLC, and proofs checked by TLAPS.
Paths below are relative to the repository; its C++ code is under `src/src/`.

| Module | What it is | Checked by |
| --- | --- | --- |
| `NetConnection` | both ends of a connection and the UDP network between them | `MCNetConnection*.cfg`, `NetConnectionProofs` |
| `ReliableChannel` | what a connection promises to the code above it | refined by `NetConnection` |
| `JobPool` | the job pool: main thread, workers, queue, semaphore | `MCJobPool*.cfg`, `JobPoolProofs` |
| `DbPool` | the SQL pool: ring of queries, three threads, three tables | `MCDbPool*.cfg`, `DbPoolProofs` |
| `AsyncIo` | asynchronous files: producers, ring buffer, writer thread, owner | `MCAsyncIo.cfg`, `AsyncIoProofs` |
| `AppendLog` | what an asynchronous file promises to those who write to it | refined by `AsyncIo` |
| `Register` | a game server that keeps itself on the list of the master server | `MCRegister.cfg`, `RegisterProofs` |
| `Mastersrv` | the list of the master server, and what it answers | part of `Register` |
| `SnapshotSync` | snapshots from server to client, through map changes | `MCSnapshotSync.cfg`, `MCSnapshotJoin.cfg`, `SnapshotSyncProofs`, `SnapshotMapProofs` |
| `SnapshotStorage` | the storage of snapshots that both sides have | part of `SnapshotSync` |
| `SequenceNumbers` | lemmas about numbers taken modulo N | used by `NetConnectionProofs` and `DbPoolProofs` |
| `MC*` | instances for TLC: model values, symmetry | |

## 1. Inventory

The server is one main thread (`CServer::Run`) with helper threads: the job pool, the
two threads of the SQL pool, the writer thread of each asynchronous file, the curl
thread. Clients reach it over UDP. What is hard to get right sits at these borders.

**Connection** (`engine/shared/network_conn.cpp`, `network.cpp`). State: `m_State`,
`m_Sequence`, `m_Ack`, `m_PeerAck`, the resend buffer `m_Buffer`, the packet being
filled `m_Construct`, the rate-limited `m_ResendRequested`. Operations: `QueueChunk`,
`Flush`, `Feed`, `Update`, `Disconnect`, `ResumeConnection`; `CPacketChunkUnpacker`
takes packets apart. Hard: loss, duplication and reordering of packets, sequence
numbers that wrap at 1024, a full resend buffer, two independent causes of
retransmission. Correct when the stream of vital chunks is handed over in order and
once, nothing still missing leaves the buffer, and the stream does not stop.

**Server slots** (`engine/shared/network_server.cpp`). State: one connection per slot,
the token seed, the caches of connect attempts and legacy handshakes. Operations:
`Recv`, `TryAcceptClient`, `OnPreConnMsg`, `OnTokenCtrlMsg`, `ResumeOldConnection`,
`Drop`. Hard: duplicated handshake packets, an old connection resumed by a new one
while packets of both are in flight, clients of 0.6 and 0.7.
Correct when a slot has one peer, and data of one peer never reaches another slot.

**Client end** (`engine/shared/network_client.cpp`, `network_stun.cpp`): the same
connection seen from the client, and the cache of 0.7 tokens.

**Job pool** (`engine/shared/jobs.cpp`). State: queue under `m_Lock`, list of running
jobs under `m_LockRunning`, semaphore, `m_Shutdown`, an atomic state in each job.
Operations: `Init`, `Add`, `Shutdown`, `RunLoop`, `IJob::Abort`. Hard: two locks, an
atomic and a semaphore with steps of other threads in between. Correct when no job
runs twice or is lost, aborts are final, no worker sleeps through a job, and
`Shutdown` returns and leaves nothing behind. Users: host lookup, registration, skin
loading, map loading, sound loading.

**SQL pool** (`engine/server/databases/connection_pool.cpp`). State: a ring of 512
queries with three counters, two semaphores, the shutdown flag, the fail mode of the
worker; the tables `record_race` and `record_race_backup` that `scoreworker.cpp`
writes to. Operations: the main thread inserts, the backup thread stores each write
first, the worker executes it, `OnShutdown` and the destructor wait. Hard: ring
without a check for being full, failing databases, a kill at any time, a shutdown that
polls. Correct when no rank is lost, the player is told the truth, every query is worked
off in order and the shutdown ends.

**Registration** (`engine/server/register.cpp`). State, per protocol: the requests under
way (each a job of the pool), the challenge token, the status of the latest response and
its index; shared by all protocols under a lock: the serial of the newest info and of the
newest info that has been delivered. Operations: `Update`, `OnPacket`, `OnNewInfo`,
`OnConfigChange`, `OnShutdown`, and `CJob::Run` on the threads of the pool. On the other
side the list of the **master server** (`mastersrv/src/main.rs`): the addresses, the
servers by secret, the seeds of the challenges, and the dump of the list that it writes once
a second and may start from. Hard: answers out of order, a delete that races a register,
challenges that come late or twice, either server restarting, the master with a list that
is older than what it has answered. Correct when the status is that of the newest request,
the two maps of the master agree, no late request brings back an old info, and what is
listed comes to be what runs.

**Snapshots and map changes** (`engine/shared/snapshot.cpp`,
`engine/server/snap_id_pool.cpp`, parts of `server.cpp`, `client.cpp`,
`gamecontext.cpp`). On the server, per client: the storage of snapshots sent, the tick
last acknowledged, the snapshot rate, the state from `CONNECTING` to `INGAME`. On the
client: the storage of snapshots received, the pointers to the previous and the current
one, the parts of the snapshot being assembled, the map that is loaded or downloaded.
Hard: snapshots are not vital, so that parts are lost, duplicated and reordered, and can
overtake the vital messages of a map change, after which ticks start again; the delta base
must be the same on both sides; map changes overlap. Correct when both sides use the same
base, the pointers stay valid, no snapshot of another map is shown once the client has
entered, the assertion of the storage holds, and the client comes to play on the last map. The id pool holds freed ids
back for five seconds.

**Ring buffer** (`engine/shared/ringbuffer.cpp`): allocation with wrap-around, merging of
free items, recycling the oldest. Below the resend buffer and the console.

**Asynchronous files** (`base/aio.cpp`). State: under a lock a ring buffer that grows, a
reference count, the wish to end and the error; the buffer of the writer thread; a
semaphore. Operations: `aio_lock`, `aio_write_unlocked`, `aio_unlock`, `aio_close`,
`aio_wait`, `aio_free`, `aio_error`, and the loop of `aio_thread`. Users: the loggers, from
any thread, and teehistorian. Hard: the ring wraps around and grows while the thread is
writing; the thread looks at the buffer and then waits, with the lock released in between;
two sides free the structure. Correct when the file holds the lines whole and in order,
nothing waits for ever in the buffer, and the structure is freed once, after its last use.

**HTTP** (`engine/shared/http_curl.cpp`): requests handed to the curl thread, abort,
shutdown with and without a delay.

**Game server** (`game/server/`): teams and practice (`teams.cpp`), player ids of old
clients (`playermapping.cpp`), saved teams and scores (`score.cpp`), votes, mutes and
chat (`gamecontext.cpp`), physics and entities. Sequential, in the main thread.

**Bans, rcon accounts, name bans, console, configuration, econ, fifo**: sequential tables
and command parsing.

**Client**: core (`client.cpp`), threaded graphics backend (two threads and a command
buffer), server browser, devices, components, HUD, menus, prediction, map editor.

**Other programs**: master server and masterping (Rust), tools, tests, platform glue.

The list of components with their sources and the list of hazards with their lines are in
`PROJECT.json`.

## 2. Models and how they correspond to the code

### NetConnection

Both ends start as the handshake leaves them (`ONLINE`, `DirectInit`) and end in
`OFFLINE`. The variables carry the names of the members; `inbox` is the rest of the
packet `CPacketChunkUnpacker` has in hand, `net` the packets in flight.

| Action | Code |
| --- | --- |
| `SendVital`, `SendPlain` | `QueueChunk` / `QueueChunkEx`, with or without the flush that `CNetServer::Send` and `CNetClient::Send` may append |
| `Flush` | `CNetServer::EndFlushBatch`, `CNetClient::Flush` |
| `Receive` | `Recv` and `Feed`: check of the acknowledgement, resend request, close, `AckChunks` |
| `UnpackNextChunk` | `CPacketChunkUnpacker::UnpackNextChunk`, one chunk; the application may act between two of them |
| `Update` | `CNetConnection::Update`, given any set of timers that have run out; a timeout and the disconnect that follows it are one step |
| `UpdateError`, `Disconnect` | the drop of a connection closed by its peer, or by the application |
| `Lose` | the network |

Abstractions. The content of a chunk is its position in the stream of its sender, so that
the properties can speak about the stream behind the numbers. Sizes are the freedom of
where a packet is cut: `Queueings` ranges over all ways to cut that stay within
`NET_MAX_PACKET_CHUNKS`. Time is the choice of which timers have run out. A packet received
stays in flight, which is duplication; receiving any packet in flight is reordering; the
bound on packets in flight drops some, which is loss, as is `Lose`.

`Lifetime` bounds the age of packets: none outlives a whole cycle of sequence numbers. The
protocol needs that assumption - with 10 bits it cannot tell a packet from one
1024 chunks older - and the code makes none explicitly.

### JobPool

One action per critical section, semaphore operation or access to an atomic, so that
every interleaving of the code is a behaviour. `main` is the position of the main
thread in `Add` and `Shutdown`, `worker[w]` that of a worker in `RunLoop`. `Abort` is an
action anybody may take at any time. The two `dbg_assert_failed` of `RunLoop` are not
steps: `AssertionsHold` says they are never reached, and a worker there would be stuck.
A job object is added at most once, as its users do. The threads of `Init` are created in
one step: a thread that has not started yet cannot be told from one that waits.

### DbPool

Queries are numbered by insertion; `ring` holds numbers. One action per step of a thread
between two operations on shared memory or a database. `ranks`, `pending` and `moved` are
the places a rank can be in: the table of the write database, `record_race_backup` and
`record_race` of the backup database. `NORMAL_FAILED` copies the rank (INSERT) and then
deletes it; a kill in between is a state like any other, so `NotLost` is an invariant. A
write that reports an error may have been executed. Reads are dismissed in fail mode and
during the shutdown. `OnShutdown` stores the flag, `SignalShutdown` signals the backup
thread, which may be at work, and `OnShutdownReturns` is the end of the polling.

### AsyncIo and AppendLog

One action per critical section, per operation on the semaphore and per access to the file:
producers `Lock`, `WriteUnlocked` (any number of pieces), `Unlock`, `Signal`; the thread
`WriterLock`, `WriterTake` (at most `ASYNC_LOCAL_BUFSIZE` bytes, or the end), `WriterStore`,
`WriterSleep`, `WriterWake`, `WriterExit`, `WriterFree`; the owner `Close` or `AskToExit`,
`OwnerSignal`, `Join`, `Error`, `Free`, `OwnerFree`. The ring is modelled as it is:
`buffer`, `read_pos`, `write_pos`, written in place or copied into a larger one (`Grow`), of
which the rest is `Garbage`. Bytes are model values. A write to the file may fail at
any time; the error is copied when the thread next has the lock. A line is what one holder of
the lock writes; `accepted`, `written`, `line` and `report` are history.

`AppendLog` has three operations: a line is accepted, part of what is accepted is stored, in
order, and the log ends, when all that was accepted before the end was asked for is stored; what is
reported to the owner at the end is whether a store has failed. `Log` in `AsyncIo` is the
refinement mapping. The vital point of it is that no line is torn by another and the error
of the last write is not missed.

### Register and Mastersrv

The main thread's operations are one action each (`Update`, `Challenge` for `OnPacket`,
`OnNewInfo`, `OnConfigChange`, `OnShutdown`); `Crash` is the end without the deletes, `Start`
the next run with a new secret. A request is a job in `jobs[p]`: the master handles it
(`HandleRegister`), then the two critical sections of `CJob::Run` follow as two steps
(`JobStatus`, `JobSerial`), between which other threads act. `JobFails` is the loss of the
request or of its answer, or the timeout; the request may still arrive (`HandleStray`).
`handle_register`, `handle_delete`, the pruning, the reseeding, the writing of the dump
(`Writeout`) and the restart from it, or without it, are actions of the master. `dump` is the
file: it has the list as it was when it was last written, so that a restart brings back older
infos, addresses that have been deleted since, and misses those that have come.

Abstractions. Time is what may be due: `m_NextRegister` is 15 seconds after the last request,
which is also the time that HTTP gives to a request. It may have come whenever none is
under way; that it comes while one still is, is a disturbance (`Timer`). What the status or a
new info asks for at once overlaps without one. Request indices are only compared, so that a request is `newest`, and
`overtaken` once a newer one has set the status. The challenge token is the seed it was made
from. `Refreshed` addresses are pruned only by a disturbance, because 30 seconds without a request
take losses of which each is a disturbance. `MaxTrouble` bounds disturbances.

### SnapshotSync and SnapshotStorage

A server and a client that is led from map to map. `LoadMap` is the part of `CServer::Run`
that changes the map, `Tick` the game tick with the snapshot, `DoSnapshot` everything from the
rate to the packets, for one client; `OnInput`, `OnReady`, `OnStartInfo` and `OnEnterGame` are
the messages of the client. On its side `OnMapChange`, `OnConReady`, `OnReadyToEnter`,
`FinishMapDownload`, `SendInput`, `SwitchSnapshot`, and `OnSnap` for the three snapshot
messages, with all that follows a complete one: base missing, a delta that cannot be unpacked,
checksum error, purge, storage and the start of the game after the second snapshot.

A snapshot is its tick and the map it shows. `Right` says that the client has put together the
parts of one snapshot and unpacks them with the base that the server took. If not, the delta may
not unpack (`UnpackFailure`) or the checksum fails (`CrcError`); and a snapshot that
does not differ from its base comes as `NETMSG_SNAPEMPTY`, which has no checksum, so that the
client stores whatever its base is. `SameBase` is that the client never gets into any of these.

Vital messages arrive in order and once (that is what
`NetConnection` shows), snapshots and inputs do not. The two are tied by one thing: each
packet carries the acknowledgement `m_Ack` of its sender, and `CNetConnection::Feed` drops one
that acknowledges less than a packet before it. Without it (`AcceptsAny`) snapshots of
an old map would be taken for new ones. `Carriers` are the acknowledgements that a
retransmitted vital message can arrive with.

## 3. Runs

| Run | Instance | States | What it shows |
| --- | --- | --- | --- |
| `net_safety` | 5 sequence numbers, packets of 2 chunks, 1 buffered chunk, window 2, 2 packets in flight, server sends 5 chunks | 715585 | `InOrder`, `Retransmittable`, `AckMonotonic`, `OnlyOldSkipped`, and `ChannelSpec`: the connection implements `ReliableChannel` |
| `net_wrap` | the same with 1 packet in flight and 8 chunks | 161427 | `InOrder`, `OnlyOldSkipped` when sequence numbers are used a second time |
| `net_delivery` | 2 buffered chunks, 1 packet in flight, packets of 1 chunk, server sends 2 vital chunks, client sends others | 3913 | `Delivery` |
| `jobs_safety` | 4 jobs (2 abortable), 3 workers, 2 calls of `Init` | 216192 | `AssertionsHold`, `ShutdownComplete`, `AbortIsFinal` |
| `jobs_liveness` | 3 jobs, 2 workers | 23349 | `EventuallyDone`, `ShutdownReturns` |
| `jobs_shutdown_aborts` | 2 jobs, 2 workers | | violated: finding 1 |
| `db_pool` | ring of 3, at most 2 outstanding, 4 queries of any kind | 305640 | `NotLost`, `BackedFirst`, `HonestResults`, `AllProcessed`, `EventuallyCompleted`, `ShutdownReturns` |
| `db_ring_overflow` | ring of 2, at most 3 outstanding | | violated: finding 2 |
| `aio` | buffers of 3 and 2 bytes, 2 producers, pieces of 1 and 2 bytes, 5 bytes in all | 992537 | `NothingLost`, `NoUseAfterFree`, `ImplementsLog`, `EventuallyWritten`, `EventuallyFreed` |
| `register` | 2 runs of the server, 2 protocols, 2 overlapping requests of one, 1 disturbance | 738407 | `MasterConsistent`, `StatusIsLatestAnswer`, `InfoNeverOlder`, `EventuallyListed`, `EventuallyUnlisted` |
| `snap_sync` | 3 maps, the last to be downloaded, 5 ticks each, 2 parts, 2 packets of each kind, window of 1 tick | 714543 | `NoDanglingSnapshot`, `StoredInOrder`, `OnlyThisMap`, `SameBase`, `EntersGame` |
| `snap_join` | the same with 1 tick and 1 packet | | violated: finding 3 |

Why the bounds are enough. In `net_safety` the fifth chunk has number 0, the one `m_Ack`
starts with; in `net_wrap` chunks 6, 7 and 8 have the numbers of chunks 1, 2 and 3, which may
still be in flight. A window of two leaves three numbers in the backroom, the smallest
sequence space in which a chunk can be ahead by two, next, the last or old. One
buffered chunk makes the buffer overflow, two packets in flight can overtake each other and
be duplicated. Only one end sends vital chunks there: the two directions share nothing
but the packets, and the acknowledgements of the other direction travel in keepalives and
flushed requests. The proofs cover both directions and every size. `net_delivery` has
two buffered chunks, so that the retransmitted one is not the only one, and a client whose
other chunks compete for packets; a packet has one chunk there, because whatever is left in
`m_Construct` without a flush multiplies the states that liveness has to look at. In `jobs_safety` two jobs of each kind and three workers
give a queue that is longer than the workers at the door, workers in every
position of `RunLoop`, and a restart on what the first shutdown has left. The pool is
symmetric in the workers and in the jobs of a kind; the liveness runs use no symmetry. In
`db_pool` four queries on a ring of three wrap it around, and four are what it takes to
have a backup database, a write database, a write, and a query behind it. In `aio` five bytes
fill a ring of three, wrap it around and make it grow, with the rest of a line in the
buffer of the thread; two producers tear each other's lines if the lock does not hold. In
`register` the two requests of one protocol are answered in either order, the other protocol
shares the belief that the info is delivered, and the disturbance is any one of a loss, a
restart of either server, a change of the info or of the configuration, a timer that comes
while a request is under way, a new seed. With one disturbance a restart finds a dump from before
a registration, a deletion or a pruning, or the current one; a dump with an older info needs two,
the new info and the restart. That instance, with a single protocol, has been checked
by hand (102123 states, all properties hold), and the theorems of section 4 cover any number.
The view `Alive` leaves out the dump when no restart is left to read it: two
states that differ only in it have the same future but for `dump` itself, and no property of the run
but `TypeOK` and `MasterConsistent` looks at it. Without the view the run has 3511734 states, and all
properties hold. In `snap_sync` five ticks let the server use a base, purge it and be asked to start
again; of three maps the first two are loaded at once and the third is downloaded, so that a
message of each change can meet the client in each state. `MaxOverlap` says how many map
changes can be under way at once; the run has two. With five of them `SameBase` does not
hold, and with four it already fails when a map has to be downloaded: the start info and
`NETMSG_ENTERGAME` of the first changes are then taken for those of the last, and the server
sends snapshots to a client that has not loaded the map. For two it is proved, and for any
number under a condition on when a change begins (section 4). The code lets 10 checksum errors
pass before it starts again (`MaxCrcErrors`), the run one; as long as `SameBase` holds there is
none, so that the limit matters beyond two overlapping changes only.

Deadlock is not checked in `net_*`, where both ends may be `OFFLINE`, and in `db_*`, where
all threads have ended. `jobs_*` check it: `Abort` is always possible,
so that the check is no more than a formality there; `ShutdownReturns`, `EventuallyDone` and
the theorem `NoDeadlock` are what excludes a deadlock of the pool. `aio` and `register` check it, with
`Terminated` and `Idle` as the ends that are meant. `snap_sync` ends with the ticks of the last map.

Fairness.
- `Pumping`: both ends call `Recv` and `Update` in their main loops as long as they
  are connected, so each timer runs out again and again. Strong fairness for `Update`,
  because it only runs between two packets.
- `FairLoss`: the network does not lose every one of infinitely many packets that carry
  the same chunk, or the same acknowledgement. Nothing weaker lets any protocol deliver.
- `JobPool`: threads are scheduled and `Run` returns; the main thread ends what it
  has begun. Nothing obliges it to add or abort jobs, or to shut down.
- `DbPool`: both threads are scheduled, every database operation ends; the main thread goes on
  with the shutdown that it has begun (the signal, the polling loop, the join).
- `AsyncIo`: the thread and the producers are scheduled, file operations end, an owner that has
  begun to end the file goes on. Nothing obliges a producer to write or the owner to begin.
- `Register`: `Update` is called in the main loop, requests that are not lost are handled and
  answered (or time out, which is a disturbance), challenges and deletes arrive, the master prunes.
- `SnapshotSync`: vital messages arrive (`Delivery` of `NetConnection`) and a download ends. No
  fairness for snapshots or inputs.

`Delivery` allows for three ends: the chunk arrives, an end leaves `ONLINE`, or a chunk of
that end has found the resend buffer full. In the last case the code sends the
chunk without saving it, and if that packet is lost the stream stands still until the
connection times out.

### Findings

1. *Shutdown does not abort every abortable job* (`jobs_shutdown_aborts`). A worker that has
   taken a job out of the queue and not yet entered it into `m_RunningJobs` hides it from
   both scans of `Shutdown`. The job runs to its end and `Shutdown` waits for it.
   `jobs.h:171` says that all abortable jobs are aborted. Nothing is lost
   (`ShutdownComplete` holds); the shutdown takes as long as that job.
2. *The ring of queries can overflow* (`db_ring_overflow`). `Execute` and the others store
   into the next slot without looking at it. With more than 512 queries outstanding a
   query is destroyed before anybody has worked on it, against the comment at
   `connection_pool.cpp:299`. Within the limit `AllProcessed` holds.
3. *A client can be stuck in the loading screen* (`snap_join`). When the map changes twice in a
   row the server takes the `NETMSG_READY` for the first map as the answer to the second change
   and sends `NETMSG_CON_READY`. A client that has to download the second map has no map
   loaded at that moment and drops the message (`client.cpp:1898`); the `NETMSG_READY` after the
   download is ignored, because its state is `READY` by then. No start info is ever sent,
   against `protocol.h:43`. `EntersGame` shows that nothing else keeps the client out.

## 4. Proofs

`NetConnectionProofs`, for all values of the constants that satisfy `WindowAssumption`:
`TypeCorrect`, `Ordered`, `Retransmission`, `AckNeverBack`, `MissingNotSkipped` and
`Implementation`, the refinement of `ReliableChannel`. `WindowAssumption` says that what is
outstanding and half of the sequence space together stay below the sequence space; for
the 1024 numbers of the code that is 511 chunks.

None of the properties is inductive: they speak about the stream, the code about numbers.
The invariant ties the two together. The number of a chunk, anywhere (saved, queued, in
flight, in an inbox), is its position modulo `NET_MAX_SEQUENCE`; so are `m_Sequence`,
`m_Ack` and `m_PeerAck` of the positions sent, delivered and acknowledged; acknowledged is at
most delivered, at most sent, within the window; what is in flight is younger
than one cycle; the buffer holds every position that is neither delivered nor unsaved,
in ascending order. The core of the argument is arithmetic: within the window and the
lifetime two positions with the same number are equal (`ModUnique`), and the backroom
contains the numbers of the positions behind and none of those ahead (`ModShift`).
`SequenceNumbers` has these lemmas. `AckNeverBack` and `MissingNotSkipped` are action
properties proved from the same invariant.

`JobPoolProofs`, for any number of jobs, workers and restarts: `TypeCorrect`,
`AssertionsNeverFail`, `NothingLeftBehind`, `AbortsAreFinal`. The invariant says that each
accepted job is in the queue or with one worker or done (`Ownership`, `Kept`), that its state
goes with its place (`States`), that `m_RunningJobs` mirrors the workers in `Run`
(`Listed`), and that a worker at or after its last look at `m_Shutdown` has found the queue
empty in a shutdown (`Phases`). `Phases` needs `Tokens`: until the shutdown, the
semaphore, the workers it has let through to the queue and the signal `Add` still owes are
together no more than the jobs in the queue, so no worker finds it empty. It is what makes
reading the empty queue and `m_Shutdown` one after the other safe.

`NoDeadlock` says that some thread can go on as long as a job is not done, or `Add` or
`Shutdown` has not returned (`NeverStuck`). Its invariant counts the other way round
(`Signalled`): the semaphore, the signals that are still owed and the workers on their way to
the queue are together at least the jobs in the queue, and in a shutdown at least as many
more as there are workers that have not exited. So neither a job nor the shutdown ever meets
only sleeping workers, in spite of the two scans of `Shutdown`.

`DbPoolProofs`, for every size of the ring: `TypeCorrect`, `RanksKept`, `Honesty` and
`BackupGoesFirst` hold however many queries are outstanding, even if the ring overflows;
`AllWorkedOff` holds if fewer are outstanding than the ring has slots (`Outstanding <
RingSize`, its hypothesis). The first invariant, `IInv`, says that a query is in one
slot, with the worker or in the results (`Places`), that a stored rank stays in the
`_backup` table until its query is complete (`Safe`), what the worker knows of the rank it
holds at each of its steps (`Answer`), and that the signals for the worker are what the
backup thread has passed on (`Tokens`); `NotLost` follows from `Safe`, `Answer` and
`HonestResults`. The second, `Order`, says that query `q` of those outstanding is in slot
`q % RingSize` and all other slots are empty (`Ring`). From that and the count of the signals
(`Signals`) follows that the empty slot a thread ends with is the one after the last query,
and that the signal which let it look there is the one of `OnShutdown`. `SlotContent`
is where the hypothesis enters: with as many queries as slots the slot after the last
query is that of the oldest. `NoDeadlock` follows from `Order` under the same hypothesis:
until every query is completed, `OnShutdown` has seen the flag reset and the destructor has joined
both threads, one of the three can go on. The hypothesis is needed: with `Outstanding =
RingSize` TLC finds a state in which none can (the hazard at `connection_pool.cpp:220`).

`AsyncIoProofs`, for every size of the two buffers, any number of producers and any pieces:
`TypeCorrect`, `BytesKept`, `FreedLast` and `FileIsLog`, the refinement of `AppendLog`. The
invariant has the lock (`LockInv`: who holds it says where everybody is), the text
(`TextInv`: what was accepted and what the holder of the lock has put in is what has been
written, what the thread has in its buffer and the content of the ring, in this order, and a
line that has been begun is still in the ring), the end (`EndInv`: what the thread must still do before it may
see the end) and the count (`CountInv`). Arithmetic of the ring is in a few lemmas about
`Content`: after `Put`, after `Grow`, and after the thread has taken a prefix. `NoDeadlock`:
as long as a line is not in the file, or an end that has begun has not freed the structure,
a producer, the thread or the owner can go on. It needs `Signalled`: when the thread has let
go of the lock to wait, the semaphore is zero and there is something for it to do, a producer or the
owner still owes the signal.

`RegisterProofs`, for any number of protocols, runs, overlapping requests and disturbances:
`TypeCorrect`, `MasterAgrees`, `LatestAnswerWins`, `InfoMonotonic`. `MasterConsistent` is
inductive together with the types and with the same agreement in the dump
(`DumpConsistent`), so that `from_dump` never refuses it. `InfoMonotonic` is about every step but
the restart of the master server, which may go back to what it had a second ago.
`StatusIsLatestAnswer` is not inductive: `Chain` says of the
requests of a protocol that the newest is the last and not overtaken, that `reply` is its
answer, and that once this answer has been processed all others still pending are
overtaken. It is stated for any sequence of requests, with one lemma for each thing that happens
to such a sequence, and the actions only cite these.
Two more are about what the server believes to be delivered, `BelievedInfoIsKnown`
(`m_LatestSuccessfulInfoSerial` is right) and `InfoAskedOnce` (no `need_info`). They hold on condition
that the master server does not forget the run (`NotForgotten`: no loss of its last address,
no restart that misses the run or has an older info of it); without it both are false, and the
code then asks again. `Believed`
says of every request under way that it carries the info or is about one that is known.

`SnapshotSyncProofs`, for any number of maps, ticks, parts and overlapping changes, any window:
`TypeCorrect`, `PointersHeld`, `AddedInOrder`. That `CSnapshotStorage::Add` meets increasing
ticks rests on `RecvOrder`: what the client has stored is older than the tick it received
last, or has that tick, and is then acknowledged. A forced resync forgets the acknowledgement only
when that tick has not been stored. `NoDanglingSnapshot` is inductive with the types:
the purge spares whatever is pointed to because `PurgeTick` is at most the older pointer.

`SnapshotMapProofs`, what a client is shown while it is led from map to map, for any number of
maps and overlapping changes unless said otherwise.

- `ShownThisMap` (`OnlyThisMap`). The invariant `MapInv`: the vital messages under way lead the
  client from the map it was told of last (`seen`) to the one that is played, one map at
  a time (`Leads`); a `READYTOENTER` acknowledges more than any packet of a map before its
  own (`EntersLater`), so that its arrival makes those refused for ever; and once the client
  has entered the map that is played, all that is under way or stored is of this map (`Pure`).
  It says nothing of the time between `NETMSG_MAP_CHANGE` and `READYTOENTER`. There the
  client takes late snapshots of the old map that need no base, and with two of them goes online
  and shows them (`client.cpp:2113, 2145, 2307`); the model does so, too, and entering forgets them.
- `SameBaseIfSettled` (`SameBase`, an invariant: whenever the arrival of a packet would complete
  a snapshot whose base is there, it is the right one), on condition that no map change begins while the client
  plays and a `READYTOENTER` or `NETMSG_ENTERGAME` from before is still under way
  (`SettledFirst`). Then all that is in flight, stored or assembled is always of a single
  map (`Unmixed`). Without the condition it is false, see the bounds in section 3.
- `SameBaseBounded` removes the condition for `MaxOverlap <= 2`, through `PlaysInStep`: the
  server takes a client to play only when it has entered the map that is played. Messages
  of the server compare nothing but the state, so an answer to the first change can be
  taken for one to the second. `Handshake` counts what has not been answered (`Tokens`)
  and says what the last of it is in each state; with two changes there are no answers
  left when the client comes to play. With three `PlaysInStep` is false if a map has to
  be downloaded.
- `OnlyStartInfoMissing`: when no vital message is under way and no map is downloaded, the client
  plays on the last map, or the server is in `READY` and waits for a start info.
  `PlaysIfNothingDropped` excludes the latter when the client never drops a `NETMSG_CON_READY`
  (the drop is finding 3). `ServerAnswered`, `ClientAsked` and `StartInfoPending` say what
  is under way in each state of the server. This is what `EntersGame` says but for fairness.

The theorems `NoDeadlock`, `OnlyStartInfoMissing` and `PlaysIfNothingDropped` are about states
in which something is left to be done: they are the part of the liveness properties that does
not need fairness, and hold for every value of the constants.

Only model-checked: liveness itself (`Delivery`, `EventuallyDone`, `ShutdownReturns`,
`EventuallyCompleted`, `EventuallyWritten`, `EventuallyFreed`, `EventuallyListed`,
`EventuallyUnlisted`, `EntersGame`). It needs fairness and `ENABLED`, which are out of the prover's
reach. Every safety property of a passing run is proved.

## 5. Not modelled, and why

- Of the connection: the states before `ONLINE` and the tokens (planned with the slots),
  the 0.7 header, `m_TimeoutProtected`, `m_UnknownSeq` and `SetSequence`, which belong to
  the handshake without a token and to demos, and the bytes of packets and their compression.
- Of the job pool: several threads calling `Add` at once. The callers in the server are on the main
  thread, and its critical section would make no difference between them.
- Of the SQL pool: the queries of `scoreworker.cpp` other than `SaveScore`, and the
  connections behind `IDbConnection`, which are a success or a failure.
- Of asynchronous files: that `malloc` or the creation of the thread fails. `aio_write` and the
  newline variants are sequences of what is modelled.
- Of the registration: what `sv_register` can say beyond which protocols are meant, community
  tokens, extra headers; answers that are errors count as failures. Of the master server:
  dumps of other masters (`merge`), bans, communities, exempt addresses.
- Of snapshots and map changes: more than one client, the dummy connection, the wrap of
  ticks, rejoining and the resumption of a timeout-protected client (the branch of `OnNetMsgReady`
  for one that comes back), a download or a map load that fails, after which the client disconnects
  or downloads it from the game server instead, snapshots that `UnpackAndValidateSnapshot` refuses (the server
  sends none), recorded demos, the chunks of the map download (one step), the encoding of items and deltas, translation for clients of
  0.7, authentication, inputs as such. The id pool is sequential; what makes it hard is a time in
  seconds.
- The slots of `CNetServer`, their handshakes and limits; the ring buffer, which is sequential and
  has unit tests; HTTP, which is driven by the event loop of libcurl.
- Teams, player ids, votes, bans, accounts and configuration are sequential, and most of what they
  depend on is presentation or entities.
- Physics and prediction compute with floating-point numbers; presentation, devices,
  file formats and command parsing have no shared protocol state; the other Rust programs are
  other programs.

Hazards no property covers are marked in `PROJECT.json`. Those in modelled code:

- A rank that the backup thread failed to store and that then fails on the write database is
  reported as a success, because `NORMAL_FAILED` copies nothing and succeeds
  (`connection_pool.cpp:357`). `HonestResults` is about ranks that were stored.
- A read that is dismissed in fail mode counts as completed (`connection_pool.cpp:293`).
- With exactly as many unstarted queries as slots the backup thread never finds the empty slot
  that ends it (`connection_pool.cpp:220`), which `NoDeadlock` of `DbPoolProofs` excludes below that
  limit only.
- A job that is done can still be aborted (`jobs.cpp:36`); `AbortIsFinal` is the other direction.
- With the resend buffer full and the packet lost the stream stops (`network_conn.cpp:190`);
  `InOrder` says that nothing is handed over in place of the chunk, and `Delivery` excepts it.
- The rest of a packet must not reach the next client of a slot (`network_server.cpp:625`): a slot
  is used once in `NetConnection`.
- Snapshots of the old map between `NETMSG_MAP_CHANGE` and `READYTOENTER`, see `ShownThisMap`.

## 6. Plan

In this order; each with its instance, its run and, where named, its proofs.

1. `NetServer`: slots, accept with and without token, connect and timeout protection,
   packets of old connections; composed with `NetConnection` for the two ends. Properties: one
   peer per slot, a duplicated handshake never resets a connection in use, data never
   crosses slots, `ResumeConnection` (which takes over sequence, acknowledgement and
   resend buffer, but not `m_PeerAck` and `m_Construct`) keeps the stream of the peer.
2. `SnapIdPool`: free list and timed list. Property: no id reused within its hold time, no id
   lost. Proof: every id is in one of the three states, the lists are disjoint.
3. A run of `DbPool` at the limit of the ring, where the destructor does not return.
4. `RingBuffer`: allocate, recycle, pop against a queue of items; below `m_Buffer`.
5. `Teams` (states, locks, swap, save and load), `PlayerMapping`, bans and mutes.
6. The threaded graphics backend and the HTTP thread.
