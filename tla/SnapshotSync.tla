---------------------------- MODULE SnapshotSync ---------------------------
(***************************************************************************)
(* Snapshots from a server (src/src/engine/server/server.cpp) to a client  *)
(* (src/src/engine/client/client.cpp) that is led from map to map.  Each   *)
(* snapshot is sent in parts as a delta to the one that the client has     *)
(* acknowledged last with its input.  These messages are lost, duplicated  *)
(* and reordered.  The vital messages of the map change are not, but       *)
(* nothing keeps the two kinds in order except the acknowledgement number  *)
(* of each packet, which CNetConnection does not let go back.              *)
(*                                                                         *)
(* The content of a snapshot is the map it shows: together with its tick   *)
(* that names it.  Ticks start again with every map.                       *)
(***************************************************************************)
EXTENDS SnapshotStorage, Sequences

CONSTANTS
  Maps,            \* bound: maps that are loaded one after the other
  MaxOverlap,      \* bound: map changes of which none has been completed
  Missing,         \* maps that the client has to download
  MaxTick,         \* bound: ticks of each map
  Window,          \* 3 seconds in ticks: how long the server keeps snapshots
  InitEvery,       \* ticks between snapshots at SNAPRATE_INIT
  RecoverEvery,    \* ticks between snapshots at SNAPRATE_RECOVER
  MaxParts,        \* bound: parts of a snapshot
  MaxCrcErrors,    \* 10: errors that are let pass before the client asks to start again
  MaxPackets,      \* bound: snapshot packets in flight
  MaxInputs        \* bound: input packets in flight

ASSUME BoundsAssumption ==
  /\ Maps \in Nat \ {0} /\ MaxOverlap \in Nat /\ MaxTick \in Nat /\ Window \in Nat
  /\ MaxParts \in Nat /\ MaxCrcErrors \in Nat

NoMap == 0

VARIABLES
  (* the server *)
  map,             \* how many maps have been loaded: the map that is played
  tick,            \* m_CurrentGameTick
  state,           \* CClient::m_State
  isReady,         \* CPlayer::m_IsReady
  sent,            \* CClient::m_Snapshots
  lastAcked,       \* CClient::m_LastAckedSnapshot
  snapRate,        \* CClient::m_SnapRate
  (* the client *)
  loaded,          \* the map that is loaded, or NoMap
  wanted,          \* the map that is downloaded while none is loaded
  online,          \* m_State is STATE_ONLINE, not STATE_LOADING
  snaps,           \* m_aSnapshotStorage
  prev, cur,       \* m_aapSnapshots: ticks of the snapshots they point to, or NoTick
  received,        \* m_aReceivedSnapshots, up to 2
  ackTick,         \* m_aAckGameTick
  recvTick,        \* m_aCurrentRecvTick
  parts,           \* m_aSnapshotParts and m_aaSnapshotIncomingData
  crcErrors,       \* m_SnapCrcErrors
  predicting,      \* m_aPredTick > 0
  entered,         \* history: EnterGame has been called since the last MAP_CHANGE
  (* the connection *)
  toClient, toServer,   \* vital messages that have not arrived yet
  got,             \* vital messages that have arrived at the server: its m_Ack
  given,           \* vital messages that have arrived at the client: its m_Ack
  peerAck,         \* m_PeerAck of both ends
  overlap,         \* history: map changes since the last that was completed
  packets,         \* snapshot packets in flight
  inputs           \* input packets in flight

serverVars == <<map, tick, state, isReady, sent, lastAcked, snapRate>>
snapVars == <<snaps, prev, cur, received, ackTick, recvTick, parts, crcErrors>>
clientVars == <<loaded, wanted, online, snapVars, predicting, entered>>
connVars == <<toClient, toServer, got, given, peerAck, overlap>>
vars == <<serverVars, clientVars, connVars, packets, inputs>>

Least(a, b) == IF a < b THEN a ELSE b
Greatest(a, b) == IF a > b THEN a ELSE b

-----------------------------------------------------------------------------
(* The connection, as far as it matters here (NetConnection has the rest). *)

\* A vital message with the acknowledgement at its first sending.
ToClient(kind, m) == [kind |-> kind, map |-> m, ack |-> got]
ToServer(kind) == [kind |-> kind, ack |-> given]

\* Mutated: whatever the packet acknowledges.
AcceptsAny(ack, peer) == TRUE

\* CNetConnection::Feed accepts a packet with this acknowledgement.
Accepts(ack, peer) == ack >= peer

\* Packets that are still in flight when m_PeerAck is peer; others are refused
\* for ever.
Fresh(flight, peer) == {p \in flight : Accepts(p.ack, peer)}

\* The packet in which the first of the vital messages arrives: the first one
\* it was sent in, or a later one.
Carriers(end, message, ackNow) == Greatest(message.ack, peerAck[end]) .. ackNow

\* Of the old packets in flight as many stay as the bound allows.
Join(flight, new, bound) ==
  {old \cup new : old \in {f \in SUBSET flight :
     Cardinality(f) = Least(Cardinality(flight), Greatest(0, bound - Cardinality(new)))}}

-----------------------------------------------------------------------------
(* The server.                                                             *)

\* The last change of the map has been completed.
Quiet == state = "ingame" /\ toClient = <<>> /\ toServer = <<>>

\* The next map is loaded; the player is ready, and acked is acknowledged.
LoadNext(ready, acked) ==
  /\ map < Maps
  /\ overlap' = IF Quiet THEN 1 ELSE overlap + 1
  /\ overlap' <= MaxOverlap
  /\ map' = map + 1 /\ tick' = 0
  /\ state' = "connecting" /\ isReady' = ready
  /\ sent' = NoSnapshots /\ lastAcked' = acked /\ snapRate' = "init"
  /\ toClient' = Append(toClient, ToClient("MAP_CHANGE", map + 1))
  /\ UNCHANGED <<clientVars, toServer, got, given, peerAck, packets, inputs>>

\* Mutated: the player of the old map is kept, or m_LastAckedSnapshot is.
LoadMapKeepingPlayer == LoadNext(isReady, NoTick)
LoadMapKeepingAck == LoadNext(FALSE, lastAcked)

\* CServer::Run: GameServer()->OnShutdown deletes the player, CClient::Reset
\* forgets the snapshots.
LoadMap == LoadNext(FALSE, NoTick)

\* The client is due for a snapshot at tick t.
Due(t) ==
  /\ state = "ingame"
  /\ snapRate = "recover" => t % RecoverEvery = 0
  /\ snapRate = "init" => t % InitEvery = 0

\* The packets of the snapshot of tick t in n parts, for the base at tick d.
SnapshotPackets(t, d, n) ==
  {[map |-> map, tick |-> t, base |-> d, parts |-> n, part |-> i, ack |-> got] : i \in 1 .. n}

\* A tick, and CServer::DoSnapshot; the snapshot has any number of parts, and
\* none if it is too large to be sent.
DoSnapshot ==
  LET t == tick + 1
      stored == AddSnapshot(PurgeUntil(sent, Greatest(t - Window, lastAcked)), t, map)
      base == IF lastAcked \in DOMAIN stored THEN lastAcked ELSE NoTick
  IN  /\ tick < MaxTick /\ Due(t)
      /\ tick' = t
      /\ sent' = stored
      /\ snapRate' = IF base = NoTick /\ snapRate = "full" THEN "recover" ELSE snapRate
      /\ \E n \in 0 .. MaxParts :
           packets' \in Join(packets, SnapshotPackets(t, base, n), MaxPackets)
      /\ UNCHANGED <<map, state, isReady, lastAcked, clientVars, connVars, inputs>>

\* A tick without a snapshot: it is not due, not global, or another one follows.
Tick ==
  /\ tick < MaxTick
  /\ tick' = tick + 1
  /\ UNCHANGED <<map, state, isReady, sent, lastAcked, snapRate, clientVars, connVars, packets,
                 inputs>>

\* NETMSG_INPUT
OnInput(i) ==
  /\ peerAck' = [peerAck EXCEPT !["server"] = i.ack]
  /\ IF state = "ingame" /\ i.snapshot \in NoTick .. tick
       THEN /\ lastAcked' = i.snapshot
            /\ snapRate' = IF i.snapshot >= 0 THEN "full" ELSE snapRate
       ELSE UNCHANGED <<lastAcked, snapRate>>
  /\ inputs' \in {Fresh(inputs, i.ack), Fresh(inputs, i.ack) \ {i}}
  /\ UNCHANGED <<map, tick, state, isReady, sent, clientVars, toClient, toServer, got, given,
                 overlap, packets>>

\* OnNetMsgReady
OnReady ==
  IF state = "connecting"
    THEN /\ state' = "ready"
         /\ toClient' = Append(toClient, [ToClient("CON_READY", map) EXCEPT !.ack = got + 1])
         /\ UNCHANGED isReady
    ELSE UNCHANGED <<state, toClient, isReady>>

\* OnStartInfoNetMessage
OnStartInfo ==
  IF state \in {"ready", "ingame"} /\ ~isReady
    THEN /\ isReady' = TRUE
         /\ toClient' = Append(toClient, [ToClient("READYTOENTER", map) EXCEPT !.ack = got + 1])
         /\ UNCHANGED state
    ELSE UNCHANGED <<state, toClient, isReady>>

\* OnNetMsgEnterGame
OnEnterGame ==
  /\ state' = IF state = "ready" /\ isReady THEN "ingame" ELSE state
  /\ UNCHANGED <<toClient, isReady>>

\* A vital message arrives at the server.
ServerReceives ==
  /\ toServer # <<>>
  /\ \E a \in Carriers("server", Head(toServer), given) :
       /\ peerAck' = [peerAck EXCEPT !["server"] = a]
       /\ inputs' = Fresh(inputs, a)
  /\ got' = got + 1
  /\ toServer' = Tail(toServer)
  /\ CASE Head(toServer).kind = "READY" -> OnReady
       [] Head(toServer).kind = "STARTINFO" -> OnStartInfo
       [] Head(toServer).kind = "ENTERGAME" -> OnEnterGame
  /\ UNCHANGED <<map, tick, sent, lastAcked, snapRate, clientVars, given, overlap, packets>>

-----------------------------------------------------------------------------
(* The client.                                                             *)

Input(ack) == [snapshot |-> ack, ack |-> given]

\* CClient::LoadMap: whatever was received is dropped.
ForgetSnapshots ==
  /\ online' = FALSE
  /\ snaps' = NoSnapshots /\ prev' = NoTick /\ cur' = NoTick
  /\ received' = 0 /\ parts' = NoSnapshots /\ crcErrors' = 0
  /\ UNCHANGED <<ackTick, recvTick, predicting>>

\* NETMSG_MAP_CHANGE
OnMapChange(m) ==
  /\ ForgetSnapshots
  /\ entered' = FALSE
  /\ IF m \in Missing
       THEN loaded' = NoMap /\ wanted' = m /\ UNCHANGED toServer
       ELSE /\ loaded' = m /\ wanted' = NoMap
            /\ toServer' = Append(toServer, [ToServer("READY") EXCEPT !.ack = given + 1])

\* NETMSG_CON_READY and CGameClient::OnConnected
OnConReady ==
  /\ toServer' = IF loaded = NoMap THEN toServer
                 ELSE Append(toServer, [ToServer("STARTINFO") EXCEPT !.ack = given + 1])
  /\ UNCHANGED clientVars

\* NETMSGTYPE_SV_READYTOENTER, EnterGame and CClient::OnEnterGame
OnReadyToEnter ==
  /\ toServer' = Append(toServer, [ToServer("ENTERGAME") EXCEPT !.ack = given + 1])
  /\ entered' = TRUE
  /\ snaps' = NoSnapshots /\ prev' = NoTick /\ cur' = NoTick
  /\ received' = 0 /\ parts' = NoSnapshots /\ crcErrors' = 0
  /\ ackTick' = NoTick /\ recvTick' = 0 /\ predicting' = FALSE
  /\ UNCHANGED <<loaded, wanted, online>>

\* A vital message arrives at the client.
ClientReceives ==
  /\ toClient # <<>>
  /\ \E a \in Carriers("client", Head(toClient), got) :
       /\ peerAck' = [peerAck EXCEPT !["client"] = a]
       /\ packets' = Fresh(packets, a)
  /\ given' = given + 1
  /\ toClient' = Tail(toClient)
  /\ CASE Head(toClient).kind = "MAP_CHANGE" -> OnMapChange(Head(toClient).map)
       [] Head(toClient).kind = "CON_READY" -> OnConReady
       [] Head(toClient).kind = "READYTOENTER" -> OnReadyToEnter
  /\ UNCHANGED <<serverVars, got, overlap, inputs>>

\* FinishMapDownload
FinishMapDownload ==
  /\ wanted # NoMap
  /\ ForgetSnapshots
  /\ loaded' = wanted /\ wanted' = NoMap
  /\ toServer' = Append(toServer, ToServer("READY"))
  /\ UNCHANGED <<serverVars, entered, toClient, got, given, peerAck, overlap, packets, inputs>>

\* SendInput
SendInput ==
  /\ online /\ cur # NoTick
  /\ predicting' = TRUE
  /\ inputs' \in Join(inputs, {Input(ackTick)}, MaxInputs)
  /\ UNCHANGED <<serverVars, loaded, wanted, online, snapVars, entered, connVars, packets>>

\* CClient::Update: the game time has passed the current snapshot.
SwitchSnapshot ==
  /\ online /\ cur # NoTick /\ HasNext(snaps, cur)
  /\ prev' = cur /\ cur' = NextStored(snaps, cur)
  /\ UNCHANGED <<serverVars, loaded, wanted, online, snaps, received, ackTick, recvTick, parts,
                 crcErrors, predicting, entered, connVars, packets, inputs>>

\* The client asks the server to start again without a base.
ForceResync ==
  /\ ackTick' = NoTick
  /\ inputs' \in IF predicting THEN Join(inputs, {Input(NoTick)}, MaxInputs) ELSE {inputs}

\* The snapshot of packet p is complete, but its base is not there.
BaseMissing ==
  /\ ForceResync
  /\ UNCHANGED <<snaps, prev, cur, received, crcErrors, online>>

\* What has been unpacked is not what has been sent: the checksum shows it ...
CrcError ==
  /\ crcErrors' = IF crcErrors = MaxCrcErrors THEN 0 ELSE crcErrors + 1
  /\ IF crcErrors = MaxCrcErrors THEN ForceResync ELSE UNCHANGED <<ackTick, inputs>>
  /\ UNCHANGED <<snaps, prev, cur, received, online>>

\* ... if it is a snapshot at all: decompressing and unpacking may fail.
UnpackFailure == UNCHANGED <<snaps, prev, cur, received, ackTick, crcErrors, online, inputs>>

\* Mutated: forgets that snapshots are pointed to.
PurgeTickOfBase(base) == base

\* Snapshots that are pointed to are not purged.
PurgeTick(base) ==
  LET low(a, b) == IF b # NoTick /\ b < a THEN b ELSE a
  IN  low(low(base, prev), cur)

\* The snapshot of packet p is stored with this content.
StoreSnapshot(p, content) ==
  LET stored == AddSnapshot(PurgeUntil(snaps, PurgeTick(p.base)), p.tick, content)
  IN  /\ snaps' = stored
      /\ received' = Least(received + 1, 3)
      /\ IF received = 1
           THEN online' = TRUE /\ prev' = FirstStored(stored) /\ cur' = LastStored(stored)
           ELSE UNCHANGED <<online, prev, cur>>
      /\ crcErrors' = Greatest(crcErrors - 1, 0)
      /\ ackTick' = p.tick
      /\ UNCHANGED inputs

\* Mutated: parts of the snapshot before are kept.
BeginSnapshotWithRest(p) == parts

\* A new tick begins a new snapshot.
BeginSnapshot(p) == IF p.tick = recvTick THEN parts ELSE NoSnapshots

\* Where the parts come from once that of packet p has arrived.
Source(p) == AddSnapshot(BeginSnapshot(p), p.part, <<p.map, p.tick>>)
AllParts(p) == DOMAIN Source(p) = 1 .. p.parts

\* The base of packet p is there, by its tick, or none is needed.
HasBase(p) == p.base \in DOMAIN snaps \cup {NoTick}

\* The parts are those of one snapshot, and its base is the one the server has taken.
Right(p) ==
  /\ \A i \in 1 .. p.parts : Source(p)[i] = <<p.map, p.tick>>
  /\ p.base # NoTick => snaps[p.base] = p.map

\* All parts have been received.  A snapshot that does not differ from its base is sent
\* as NETMSG_SNAPEMPTY, without a checksum: it is stored, whatever the base is.  (What
\* UnpackAndValidateSnapshot refuses the server does not send.)
Complete(p) ==
  /\ parts' = NoSnapshots
  /\ \/ ~HasBase(p) /\ BaseMissing
     \/ HasBase(p) /\ Right(p) /\ StoreSnapshot(p, p.map)
     \/ HasBase(p) /\ ~Right(p) /\ (CrcError \/ UnpackFailure)
     \/ HasBase(p) /\ ~Right(p) /\ p.parts = 1 /\ p.base # NoTick
        /\ StoreSnapshot(p, snaps[p.base])

\* A part of a snapshot.
TakePart(p) ==
  IF AllParts(p)
    THEN Complete(p)
    ELSE /\ parts' = Source(p)
         /\ UNCHANGED <<snaps, prev, cur, received, ackTick, crcErrors, online, inputs>>

\* Mutated: a snapshot that has been stored is taken once more.
TakesAgain(p) == p.tick >= recvTick

Takes(p) == p.tick >= recvTick /\ p.tick > ackTick

\* NETMSG_SNAP, NETMSG_SNAPSINGLE and NETMSG_SNAPEMPTY.
OnSnap(p) ==
  IF loaded # NoMap /\ Takes(p)
    THEN recvTick' = p.tick /\ TakePart(p)
    ELSE UNCHANGED <<snapVars, online, inputs>>

\* A packet with a part of a snapshot arrives, perhaps not for the last time.
ReceivePacket(p) ==
  /\ peerAck' = [peerAck EXCEPT !["client"] = p.ack]
  /\ packets' = Fresh(packets, p.ack)
  /\ OnSnap(p)
  /\ UNCHANGED <<serverVars, loaded, wanted, predicting, entered, toClient, toServer, got, given,
                 overlap>>

-----------------------------------------------------------------------------
\* The client plays on the first map, and the server has acknowledged what it
\* has sent; no snapshot has been sent yet.
Init ==
  /\ map = 1 /\ tick = 0 /\ state = "ingame" /\ isReady = TRUE
  /\ sent = NoSnapshots /\ lastAcked = NoTick /\ snapRate = "init"
  /\ loaded = 1 /\ wanted = NoMap /\ online = FALSE
  /\ snaps = NoSnapshots /\ prev = NoTick /\ cur = NoTick
  /\ received = 0 /\ ackTick = NoTick /\ recvTick = 0
  /\ parts = NoSnapshots /\ crcErrors = 0
  /\ predicting = FALSE /\ entered = TRUE
  /\ toClient = <<>> /\ toServer = <<>>
  /\ got = 0 /\ given = 0 /\ peerAck = [e \in {"client", "server"} |-> 0] /\ overlap = 0
  /\ packets = {} /\ inputs = {}

Next ==
  \/ LoadMap \/ Tick \/ DoSnapshot \/ ServerReceives
  \/ \E i \in inputs : OnInput(i)
  \/ ClientReceives \/ FinishMapDownload \/ SendInput \/ SwitchSnapshot
  \/ \E p \in packets : ReceivePacket(p)

\* Vital messages arrive (NetConnection), and downloads end.
Fairness == WF_vars(ServerReceives) /\ WF_vars(ClientReceives) /\ WF_vars(FinishMapDownload)

Spec == Init /\ [][Next]_vars
FairSpec == Spec /\ Fairness

-----------------------------------------------------------------------------
(* Properties.                                                             *)

Ticks == 1 .. MaxTick
IsStorage(st) == DOMAIN st \subseteq Ticks /\ \A t \in DOMAIN st : st[t] \in 1 .. Maps

\* Types.
TypeOK ==
  /\ map \in 1 .. Maps /\ tick \in 0 .. MaxTick
  /\ state \in {"connecting", "ready", "ingame"} /\ isReady \in BOOLEAN
  /\ IsStorage(sent) /\ IsStorage(snaps)
  /\ lastAcked \in NoTick .. tick /\ snapRate \in {"init", "full", "recover"}
  /\ loaded \in NoMap .. Maps /\ wanted \in NoMap .. Maps
  /\ {online, predicting, entered} \subseteq BOOLEAN
  /\ {prev, cur, ackTick, recvTick} \subseteq NoTick .. MaxTick
  /\ received \in 0 .. 3 /\ crcErrors \in 0 .. MaxCrcErrors
  /\ DOMAIN parts \subseteq 1 .. MaxParts
  /\ overlap \in 0 .. MaxOverlap
  /\ got \in Nat /\ given \in Nat /\ peerAck["client"] \in 0 .. got /\ peerAck["server"] \in 0 .. given

\* The pointers into the storage of the client are to snapshots it still holds.
NoDanglingSnapshot == {prev, cur} \subseteq DOMAIN snaps \cup {NoTick}

\* The assertion of CSnapshotStorage::Add is never reached, on neither side: all
\* that will still be added is newer than what is stored, even when the client
\* has forgotten what it has acknowledged.
StoredInOrder ==
  /\ MayAdd(sent, tick + 1)
  /\ \A p \in packets : loaded # NoMap /\ Takes(p) => MayAdd(snaps, p.tick)

\* On the map that is played no snapshot of another map is shown once the client
\* has entered, however late one arrives: the packets that could still bring one
\* acknowledge too little.  It says nothing of the time before: between
\* NETMSG_MAP_CHANGE and READYTOENTER the client takes late snapshots of the old map
\* that need no base, and shows them when there are two; entering forgets them.
OnlyThisMap == entered /\ loaded = map => \A t \in DOMAIN snaps : snaps[t] = map

\* Whatever the server takes as a base, the client unpacks it with the same one,
\* and parts of different snapshots are never put together.  This holds while at
\* most two map changes overlap, as in the runs: with four, or with five when no map
\* has to be downloaded, the server may take a client to play that has not entered yet.
SameBase == \A p \in packets : loaded # NoMap /\ Takes(p) /\ AllParts(p) /\ HasBase(p) => Right(p)

\* NETMSG_CON_READY means that the client should send its start info.
StartInfoFollows == state = "ready" /\ ~isReady ~> isReady \/ state # "ready"

\* If every NETMSG_CON_READY is answered, the client comes to play on the last
\* map after changes that overlap in any way.
EntersGame == StartInfoFollows => <>[](state = "ingame" /\ entered /\ loaded = map)

=============================================================================
