------------------------- MODULE SnapshotSyncProofs ------------------------
(***************************************************************************)
(* The storages of both sides are used as their lists demand, for every    *)
(* number of maps, ticks and packets, and however map changes overlap.     *)
(***************************************************************************)
EXTENDS SnapshotSync, WellFoundedInduction, TLAPS

-----------------------------------------------------------------------------
(* The operations of the storage.                                          *)

LEMMA AddSnapshotIs ==
  ASSUME NEW st, NEW t, NEW x
  PROVE  /\ DOMAIN AddSnapshot(st, t, x) = DOMAIN st \cup {t}
         /\ AddSnapshot(st, t, x)[t] = x
         /\ \A u \in DOMAIN st : u # t => AddSnapshot(st, t, x)[u] = st[u]
BY DEF AddSnapshot

LEMMA PurgeUntilIs ==
  ASSUME NEW st, NEW t
  PROVE  /\ DOMAIN PurgeUntil(st, t) = {u \in DOMAIN st : u >= t}
         /\ \A u \in DOMAIN PurgeUntil(st, t) : PurgeUntil(st, t)[u] = st[u]
BY DEF PurgeUntil

LEMMA NoSnapshotsIs == DOMAIN NoSnapshots = {}
BY DEF NoSnapshots

\* Every set of ticks that is not empty has a first and a last one.
LEMMA FirstTick ==
  ASSUME NEW T \in SUBSET Nat, T # {}
  PROVE  \E t \in T : \A u \in T : t <= u
<1> DEFINE R == {p \in Nat \X Nat : p[1] < p[2]}
<1>1. R = OpToRel(<, Nat)
  BY DEF OpToRel
<1>2. IsWellFoundedOn(R, Nat)
  BY <1>1, NatLessThanWellFounded
<1> HIDE DEF R
<1>3. PICK t \in T : \A u \in T : ~(<<u, t>> \in R)
  BY <1>2, WFMin
<1>4. ASSUME NEW u \in T PROVE t <= u
  <2>1. t \in Nat /\ u \in Nat /\ ~(<<u, t>> \in R)
    BY <1>3
  <2>2. <<u, t>> \in Nat \X Nat /\ <<u, t>>[1] = u /\ <<u, t>>[2] = t
    BY <2>1
  <2>3. ~(u < t)
    BY <2>1, <2>2 DEF R
  <2> QED
    BY <2>1, <2>3
<1> QED
  BY <1>3, <1>4

LEMMA LastTick ==
  ASSUME NEW n \in Nat, NEW T \in SUBSET (0 .. n), T # {}
  PROVE  \E t \in T : \A u \in T : u <= t
<1> DEFINE D == {n - t : t \in T}
<1>1. D \in SUBSET Nat /\ D # {}
  <2>1. \A t \in T : n - t \in Nat
    OBVIOUS
  <2> QED
    BY <2>1
<1> HIDE DEF D
<1>2. PICK d \in D : \A e \in D : d <= e
  BY <1>1, FirstTick
<1>3. PICK t \in T : d = n - t
  BY <1>2 DEF D
<1>4. ASSUME NEW u \in T PROVE u <= t
  <2>1. n - u \in D
    BY DEF D
  <2> QED
    BY <1>2, <1>3, <2>1
<1> QED
  BY <1>3, <1>4

\* The ends of the list, and the next snapshot after one.
LEMMA FirstStoredIs ==
  ASSUME NEW st, DOMAIN st \in SUBSET Nat, DOMAIN st # {}
  PROVE  FirstStored(st) \in DOMAIN st
BY FirstTick DEF FirstStored

LEMMA LastStoredIs ==
  ASSUME NEW st, NEW n \in Nat, DOMAIN st \in SUBSET (0 .. n), DOMAIN st # {}
  PROVE  LastStored(st) \in DOMAIN st
BY LastTick DEF LastStored

LEMMA NextStoredIs ==
  ASSUME NEW st, NEW t \in Int, DOMAIN st \in SUBSET Nat, HasNext(st, t)
  PROVE  NextStored(st, t) \in DOMAIN st
<1> DEFINE L == {u \in DOMAIN st : u > t}
<1>1. L \in SUBSET Nat /\ L # {}
  BY DEF HasNext
<1>2. PICK u \in L : \A v \in L : u <= v
  BY <1>1, FirstTick
<1>3. u \in DOMAIN st /\ u > t /\ \A v \in DOMAIN st : v > t => u <= v
  BY <1>2
<1> QED
  BY <1>3 DEF NextStored

-----------------------------------------------------------------------------
(* The inductive invariant.                                                *)

Packets == [map : 1 .. Maps, tick : Ticks, base : NoTick .. MaxTick, parts : 1 .. MaxParts,
            part : 1 .. MaxParts, ack : Nat]
Inputs == [snapshot : NoTick .. MaxTick, ack : Nat]
ToClients == [kind : {"MAP_CHANGE", "CON_READY", "READYTOENTER"}, map : 1 .. Maps, ack : Nat]
ToServers == [kind : {"READY", "STARTINFO", "ENTERGAME"}, ack : Nat]

ServerOK ==
  /\ map \in 1 .. Maps /\ tick \in 0 .. MaxTick
  /\ state \in {"connecting", "ready", "ingame"} /\ isReady \in BOOLEAN
  /\ IsStorage(sent) /\ DOMAIN sent \subseteq 1 .. tick
  /\ lastAcked \in NoTick .. tick /\ snapRate \in {"init", "full", "recover"}
  /\ overlap \in 0 .. MaxOverlap

ClientOK ==
  /\ loaded \in NoMap .. Maps /\ wanted \in NoMap .. Maps
  /\ online \in BOOLEAN /\ predicting \in BOOLEAN /\ entered \in BOOLEAN
  /\ IsStorage(snaps)
  /\ prev \in NoTick .. MaxTick /\ cur \in NoTick .. MaxTick
  /\ ackTick \in NoTick .. MaxTick /\ recvTick \in NoTick .. MaxTick
  /\ received \in 0 .. 3 /\ crcErrors \in 0 .. MaxCrcErrors
  /\ DOMAIN parts \subseteq 1 .. MaxParts

ConnOK ==
  /\ got \in Nat /\ given \in Nat
  /\ peerAck \in [{"client", "server"} -> Nat]
  /\ peerAck["client"] <= got /\ peerAck["server"] <= given
  /\ toClient \in Seq(ToClients) /\ toServer \in Seq(ToServers)
  /\ packets \subseteq Packets /\ \A p \in packets : p.ack <= got
  /\ inputs \subseteq Inputs /\ \A i \in inputs : i.ack <= given

\* What is stored is not newer than what has been received last, and what is
\* as new as that has been acknowledged since.
RecvOrder == \A t \in DOMAIN snaps : t < recvTick \/ (t = recvTick /\ t <= ackTick)

IInv == ServerOK /\ ClientOK /\ ConnOK /\ NoDanglingSnapshot /\ RecvOrder

\* What the client takes is newer than all it has stored.
LEMMA TakenIsNewer ==
  ASSUME ClientOK, RecvOrder, NEW p \in Packets, Takes(p), NEW t \in DOMAIN snaps
  PROVE  t < p.tick
<1>1. p.tick \in Nat /\ p.tick >= recvTick /\ p.tick > ackTick
  BY DEF Packets, Ticks, Takes
<1>2. t \in Nat /\ recvTick \in Int /\ ackTick \in Int
  BY DEF ClientOK, IsStorage, Ticks, NoTick
<1>3. t < recvTick \/ (t = recvTick /\ t <= ackTick)
  BY DEF RecvOrder
<1> QED
  BY <1>1, <1>2, <1>3

\* The invariant contains the types and the order of the storages.
LEMMA InvariantImplies ==
  ASSUME IInv
  PROVE  TypeOK /\ StoredInOrder
<1> USE DEF IInv
<1>1. TypeOK
  BY DEF TypeOK, ServerOK, ClientOK, ConnOK
<1>2. MayAdd(sent, tick + 1)
  BY DEF ServerOK, MayAdd
<1>3. ASSUME NEW p \in packets, Takes(p), NEW t \in DOMAIN snaps
      PROVE  t < p.tick
  BY <1>3, TakenIsNewer DEF ConnOK
<1> QED
  BY <1>1, <1>2, <1>3 DEF StoredInOrder, MayAdd

LEMMA InitInvariant ==
  ASSUME Init
  PROVE  IInv
<1> USE BoundsAssumption, NoSnapshotsIs DEF Init, NoMap, NoTick
<1>1. ServerOK
  BY DEF ServerOK, IsStorage
<1>2. ClientOK
  <2>1. IsStorage(snaps) /\ DOMAIN parts \subseteq 1 .. MaxParts
    BY DEF IsStorage
  <2>2. /\ loaded \in NoMap .. Maps /\ wanted \in NoMap .. Maps
        /\ received \in 0 .. 3 /\ crcErrors \in 0 .. MaxCrcErrors
    OBVIOUS
  <2>3. /\ prev \in NoTick .. MaxTick /\ cur \in NoTick .. MaxTick
        /\ ackTick \in NoTick .. MaxTick /\ recvTick \in NoTick .. MaxTick
    OBVIOUS
  <2> QED
    BY <2>1, <2>2, <2>3 DEF ClientOK
<1>3. ConnOK
  BY DEF ConnOK
<1> QED
  BY <1>1, <1>2, <1>3 DEF IInv, NoDanglingSnapshot, RecvOrder

-----------------------------------------------------------------------------
(* The server.                                                             *)

\* Steps that the server has no part in.
LEMMA ServerUnchanged ==
  ASSUME IInv, UNCHANGED <<serverVars, overlap>>
  PROVE  ServerOK'
BY DEF IInv, ServerOK, IsStorage, serverVars

LEMMA ServerStep ==
  ASSUME IInv, Next
  PROVE  ServerOK'
<1> USE DEF NoTick
<1>0. ServerOK /\ ConnOK
  BY DEF IInv
<1>1. CASE LoadMap
  <2>1. LoadNext(FALSE, NoTick)
    BY <1>1 DEF LoadMap
  <2>2. IsStorage(sent') /\ DOMAIN sent' \subseteq 1 .. tick'
    BY <2>1, NoSnapshotsIs DEF LoadNext, IsStorage
  <2>3. map' \in 1 .. Maps /\ tick' \in 0 .. MaxTick /\ overlap' \in 0 .. MaxOverlap
    BY <2>1, <1>0, BoundsAssumption DEF LoadNext, ServerOK
  <2>4. /\ state' = "connecting" /\ isReady' = FALSE
        /\ lastAcked' = NoTick /\ snapRate' = "init"
    BY <2>1 DEF LoadNext
  <2>5. lastAcked' \in NoTick .. tick'
    BY <2>3, <2>4
  <2> QED
    BY <2>2, <2>3, <2>4, <2>5 DEF ServerOK, IsStorage
<1>2. CASE Tick
  <2>1. DOMAIN sent \subseteq 1 .. tick'
    BY <1>2, <1>0 DEF Tick, ServerOK
  <2>2. tick' \in 0 .. MaxTick /\ lastAcked \in NoTick .. tick'
    BY <1>2, <1>0, BoundsAssumption DEF Tick, ServerOK
  <2>3. UNCHANGED <<map, state, isReady, sent, lastAcked, snapRate, overlap>>
    BY <1>2 DEF Tick, connVars
  <2> QED
    BY <1>0, <2>1, <2>2, <2>3 DEF ServerOK, IsStorage
<1>3. CASE DoSnapshot
  <2> DEFINE now == tick + 1
             kept == PurgeUntil(sent, Greatest(now - Window, lastAcked))
  <2>0. sent' = AddSnapshot(kept, now, map)
    BY <1>3 DEF DoSnapshot
  <2>1. tick' = now /\ tick < MaxTick
    BY <1>3 DEF DoSnapshot
  <2>2. /\ DOMAIN kept \subseteq DOMAIN sent
        /\ \A t \in DOMAIN kept : kept[t] = sent[t]
    BY PurgeUntilIs
  <2>3. now = tick + 1
    OBVIOUS
  <2> HIDE DEF kept, now
  <2>4. /\ DOMAIN sent' = DOMAIN kept \cup {now}
        /\ sent'[now] = map
        /\ \A u \in DOMAIN kept : u # now => sent'[u] = kept[u]
    BY <2>0 DEF AddSnapshot
  <2>5. now \in 1 .. MaxTick /\ DOMAIN sent \subseteq 1 .. tick
    BY <2>1, <2>3, <1>0, BoundsAssumption DEF ServerOK
  <2>6. DOMAIN sent' \subseteq 1 .. tick' /\ DOMAIN sent' \subseteq Ticks
    BY <2>1, <2>2, <2>3, <2>4, <2>5, <1>0, BoundsAssumption DEF ServerOK, Ticks
  <2>7. ASSUME NEW t \in DOMAIN sent'
        PROVE  sent'[t] \in 1 .. Maps
    <3>1. CASE t = now
      BY <3>1, <2>4, <1>0 DEF ServerOK
    <3>2. CASE t # now
      BY <3>2, <2>2, <2>4, <2>7, <1>0 DEF ServerOK, IsStorage
    <3> QED
      BY <3>1, <3>2
  <2>8. tick' \in 0 .. MaxTick /\ lastAcked \in NoTick .. tick'
    BY <2>1, <2>3, <1>0, BoundsAssumption DEF ServerOK
  <2>9. snapRate' \in {"init", "full", "recover"}
    BY <1>3, <1>0 DEF DoSnapshot, ServerOK
  <2>10. UNCHANGED <<map, state, isReady, lastAcked, overlap>>
    BY <1>3 DEF DoSnapshot, connVars
  <2> QED
    BY <1>0, <2>6, <2>7, <2>8, <2>9, <2>10 DEF ServerOK, IsStorage
<1>4. CASE ServerReceives
  <2>1. UNCHANGED <<map, tick, sent, lastAcked, snapRate, overlap>>
    BY <1>4 DEF ServerReceives
  <2>2. Head(toServer).kind \in {"READY", "STARTINFO", "ENTERGAME"}
    <3>1. toServer # <<>> /\ toServer \in Seq(ToServers)
      BY <1>4, <1>0 DEF ServerReceives, ConnOK
    <3>2. Head(toServer) \in ToServers
      BY <3>1
    <3> QED
      BY <3>2 DEF ToServers
  <2>3. OnReady \/ OnStartInfo \/ OnEnterGame
    BY <1>4, <2>2 DEF ServerReceives
  <2>4. state' \in {"connecting", "ready", "ingame"} /\ isReady' \in BOOLEAN
    BY <2>3, <1>0 DEF OnReady, OnStartInfo, OnEnterGame, ServerOK
  <2> QED
    BY <1>0, <2>1, <2>4 DEF ServerOK, IsStorage
<1>5. ASSUME NEW i \in inputs, OnInput(i)
      PROVE  ServerOK'
  <2>1. lastAcked' \in NoTick .. tick
    BY <1>5, <1>0 DEF OnInput, ServerOK
  <2>2. snapRate' \in {"init", "full", "recover"}
    BY <1>5, <1>0 DEF OnInput, ServerOK
  <2> QED
    BY <1>5, <1>0, <2>1, <2>2 DEF OnInput, ServerOK, IsStorage
<1>6. CASE ClientReceives \/ FinishMapDownload \/ SendInput \/ SwitchSnapshot
  BY <1>6, ServerUnchanged
     DEF ClientReceives, FinishMapDownload, SendInput, SwitchSnapshot, connVars
<1>7. ASSUME NEW p \in packets, ReceivePacket(p)
      PROVE  ServerOK'
  BY <1>7, ServerUnchanged DEF ReceivePacket
<1> QED
  BY <1>1, <1>2, <1>3, <1>4, <1>5, <1>6, <1>7 DEF Next

-----------------------------------------------------------------------------
(* The connection.                                                         *)

LEMMA JoinIs ==
  ASSUME NEW flight, NEW new, NEW bound, NEW after \in Join(flight, new, bound)
  PROVE  after \subseteq flight \cup new
BY DEF Join

LEMMA FreshIs ==
  ASSUME NEW flight, NEW peer
  PROVE  Fresh(flight, peer) \subseteq flight
BY DEF Fresh

\* The packet that carries a vital message acknowledges something.
LEMMA CarriersAre ==
  ASSUME ConnOK, NEW end \in {"client", "server"}, NEW message, message.ack \in Nat,
         NEW n \in Nat, NEW a \in Carriers(end, message, n)
  PROVE  a \in Nat /\ a <= n
<1>1. peerAck[end] \in Nat
  BY DEF ConnOK
<1>2. Greatest(message.ack, peerAck[end]) \in Nat
  BY <1>1 DEF Greatest
<1> QED
  BY <1>2 DEF Carriers

PeerAckOK(pa, g, v) ==
  /\ pa \in [{"client", "server"} -> Nat]
  /\ pa["client"] <= g /\ pa["server"] <= v

FlightOK(ps, is, g, v) ==
  /\ ps \subseteq Packets /\ \A p \in ps : p.ack <= g
  /\ is \subseteq Inputs /\ \A i \in is : i.ack <= v

LEMMA ConnParts ==
  ConnOK <=> /\ got \in Nat /\ given \in Nat
             /\ PeerAckOK(peerAck, got, given)
             /\ toClient \in Seq(ToClients) /\ toServer \in Seq(ToServers)
             /\ FlightOK(packets, inputs, got, given)
BY DEF ConnOK, PeerAckOK, FlightOK

\* Acknowledgements that are under way stay behind when more has arrived.
LEMMA FlightStays ==
  ASSUME NEW ps, NEW is, NEW g \in Nat, NEW v \in Nat, FlightOK(ps, is, g, v),
         NEW qs \in SUBSET ps, NEW js \in SUBSET is,
         NEW g2 \in Nat, NEW v2 \in Nat, g <= g2, v <= v2
  PROVE  FlightOK(qs, js, g2, v2)
<1>1. \A p \in qs : p.ack \in Nat /\ p.ack <= g
  BY DEF FlightOK, Packets
<1>2. \A i \in js : i.ack \in Nat /\ i.ack <= v
  BY DEF FlightOK, Inputs
<1> QED
  BY <1>1, <1>2 DEF FlightOK

LEMMA PeerAckStays ==
  ASSUME NEW pa, NEW g \in Nat, NEW v \in Nat, PeerAckOK(pa, g, v),
         NEW g2 \in Nat, NEW v2 \in Nat, g <= g2, v <= v2
  PROVE  PeerAckOK(pa, g2, v2)
BY DEF PeerAckOK

LEMMA PeerAckMoves ==
  ASSUME NEW pa, NEW g \in Nat, NEW v \in Nat, PeerAckOK(pa, g, v), NEW a \in Nat
  PROVE  /\ a <= g => PeerAckOK([pa EXCEPT !["client"] = a], g, v)
         /\ a <= v => PeerAckOK([pa EXCEPT !["server"] = a], g, v)
BY DEF PeerAckOK

\* Where inputs come from when a snapshot has been received.
LEMMA InputsAfter ==
  ASSUME NEW p, ForceResync \/ UNCHANGED inputs
  PROVE  inputs' \subseteq inputs \cup {Input(NoTick)}
<1>1. CASE ForceResync
  <2>1. CASE predicting
    BY <1>1, <2>1, JoinIs DEF ForceResync
  <2>2. CASE ~predicting
    BY <1>1, <2>2 DEF ForceResync
  <2> QED
    BY <2>1, <2>2
<1>2. CASE UNCHANGED inputs
  BY <1>2
<1> QED
  BY <1>1, <1>2

LEMMA SnapInputs ==
  ASSUME NEW p, OnSnap(p)
  PROVE  inputs' \subseteq inputs \cup {Input(NoTick)}
<1>1. CASE loaded # NoMap /\ Takes(p)
  <2>1. TakePart(p)
    BY <1>1 DEF OnSnap
  <2>2. Complete(p) \/ UNCHANGED inputs
    BY <2>1 DEF TakePart
  <2>3. \/ BaseMissing \/ CrcError \/ UnpackFailure \/ UNCHANGED inputs
        \/ \E content : StoreSnapshot(p, content)
    BY <2>2 DEF Complete
  <2>4. ForceResync \/ UNCHANGED inputs
    BY <2>3 DEF BaseMissing, CrcError, UnpackFailure, StoreSnapshot
  <2> QED
    BY <2>4, InputsAfter
<1>2. CASE ~(loaded # NoMap /\ Takes(p))
  BY <1>2 DEF OnSnap
<1> QED
  BY <1>1, <1>2

LEMMA ConnStep ==
  ASSUME IInv, Next
  PROVE  ConnOK'
<1> USE DEF NoTick
<1>0. /\ ServerOK /\ ClientOK /\ ConnOK
      /\ got \in Nat /\ given \in Nat
      /\ PeerAckOK(peerAck, got, given)
      /\ toClient \in Seq(ToClients) /\ toServer \in Seq(ToServers)
      /\ FlightOK(packets, inputs, got, given)
  BY ConnParts DEF IInv
<1> SUFFICES /\ got' \in Nat /\ given' \in Nat
             /\ PeerAckOK(peerAck', got', given')
             /\ toClient' \in Seq(ToClients) /\ toServer' \in Seq(ToServers)
             /\ FlightOK(packets', inputs', got', given')
  BY DEF ConnOK, PeerAckOK, FlightOK
<1>1. CASE LoadMap
  <2>1. /\ toClient' = Append(toClient, ToClient("MAP_CHANGE", map + 1)) /\ map < Maps
        /\ UNCHANGED <<got, given, peerAck, toServer, packets, inputs>>
    BY <1>1 DEF LoadMap, LoadNext
  <2>2. ToClient("MAP_CHANGE", map + 1) \in ToClients
    BY <2>1, <1>0, BoundsAssumption DEF ToClient, ToClients, ServerOK
  <2> QED
    BY <1>0, <2>1, <2>2
<1>2. CASE Tick \/ SwitchSnapshot
  BY <1>2, <1>0 DEF Tick, SwitchSnapshot, connVars
<1>3. CASE DoSnapshot
  <2> DEFINE now == tick + 1
             stored == AddSnapshot(PurgeUntil(sent, Greatest(now - Window, lastAcked)), now, map)
             base == IF lastAcked \in DOMAIN stored THEN lastAcked ELSE NoTick
  <2>1. PICK n \in 0 .. MaxParts :
          packets' \in Join(packets, SnapshotPackets(now, base, n), MaxPackets)
    BY <1>3 DEF DoSnapshot
  <2>2. UNCHANGED <<got, given, peerAck, toClient, toServer, inputs>> /\ tick < MaxTick
    BY <1>3 DEF DoSnapshot, connVars
  <2>3. base \in {lastAcked, NoTick}
    OBVIOUS
  <2> HIDE DEF stored, base
  <2>4. now \in Ticks /\ base \in NoTick .. MaxTick /\ map \in 1 .. Maps
    BY <2>2, <2>3, <1>0, BoundsAssumption DEF ServerOK, Ticks
  <2> HIDE DEF now
  <2>5. ASSUME NEW p \in SnapshotPackets(now, base, n)
        PROVE  p \in Packets /\ p.ack <= got
    <3>1. PICK k \in 1 .. n :
            p = [map |-> map, tick |-> now, base |-> base, parts |-> n, part |-> k, ack |-> got]
      BY <2>5 DEF SnapshotPackets
    <3>2. k \in 1 .. MaxParts /\ n \in 1 .. MaxParts /\ got <= got /\ got \in Nat
      BY <1>0, BoundsAssumption
    <3> QED
      BY <3>1, <3>2, <2>4 DEF Packets
  <2>6. packets' \subseteq packets \cup SnapshotPackets(now, base, n)
    BY <2>1, JoinIs
  <2>7. FlightOK(packets', inputs, got, given)
    BY <1>0, <2>5, <2>6 DEF FlightOK
  <2> QED
    BY <1>0, <2>2, <2>7
<1>4. CASE ServerReceives
  <2>1. Head(toServer) \in ToServers /\ Tail(toServer) \in Seq(ToServers)
    BY <1>4, <1>0 DEF ServerReceives
  <2>2. PICK a \in Carriers("server", Head(toServer), given) :
          peerAck' = [peerAck EXCEPT !["server"] = a] /\ inputs' = Fresh(inputs, a)
    BY <1>4 DEF ServerReceives
  <2>3. /\ got' = got + 1 /\ toServer' = Tail(toServer)
        /\ UNCHANGED <<given, packets>>
    BY <1>4 DEF ServerReceives
  <2>4. a \in Nat /\ a <= given
    <3>1. Head(toServer).ack \in Nat
      BY <2>1 DEF ToServers
    <3> QED
      BY <2>2, <3>1, <1>0, CarriersAre
  <2>5. got' \in Nat /\ got <= got'
    BY <1>0, <2>3
  <2>6. PeerAckOK(peerAck', got', given)
    <3>1. PeerAckOK(peerAck', got, given)
      BY <1>0, <2>2, <2>4, PeerAckMoves
    <3> QED
      BY <1>0, <3>1, <2>5, PeerAckStays
  <2>7. FlightOK(packets, inputs', got', given)
    BY <1>0, <2>2, <2>5, FreshIs, FlightStays
  <2>8. toClient' \in Seq(ToClients)
    <3>1. Head(toServer).kind \in {"READY", "STARTINFO", "ENTERGAME"}
      BY <2>1 DEF ToServers
    <3>2. OnReady \/ OnStartInfo \/ OnEnterGame
      BY <1>4, <3>1 DEF ServerReceives
    <3> DEFINE Message(kind) == [ToClient(kind, map) EXCEPT !.ack = got + 1]
    <3>3. ASSUME NEW kind \in {"CON_READY", "READYTOENTER"}
          PROVE  Message(kind) \in ToClients
      <4>1. got + 1 \in Nat /\ map \in 1 .. Maps
        BY <1>0 DEF ServerOK
      <4>2. Message(kind) = [kind |-> kind, map |-> map, ack |-> got + 1]
        BY DEF ToClient
      <4> QED
        BY <4>1, <4>2 DEF ToClients
    <3>4. \/ toClient' = toClient
          \/ \E kind \in {"CON_READY", "READYTOENTER"} :
               toClient' = Append(toClient, Message(kind))
      BY <3>2 DEF OnReady, OnStartInfo, OnEnterGame
    <3> HIDE DEF Message
    <3>5. ASSUME NEW x \in ToClients PROVE Append(toClient, x) \in Seq(ToClients)
      BY <1>0
    <3> QED
      BY <1>0, <3>3, <3>4, <3>5
  <2> QED
    BY <1>0, <2>1, <2>3, <2>5, <2>6, <2>7, <2>8
<1>5. ASSUME NEW i \in inputs, OnInput(i)
      PROVE  ConnOK'
  <2>1. i.ack \in Nat /\ i.ack <= given
    BY <1>0 DEF FlightOK, Inputs
  <2>2. /\ peerAck' = [peerAck EXCEPT !["server"] = i.ack]
        /\ UNCHANGED <<got, given, toClient, toServer, packets>>
    BY <1>5 DEF OnInput
  <2>3. inputs' \subseteq inputs
    BY <1>5, FreshIs DEF OnInput
  <2>4. FlightOK(packets', inputs', got', given')
    BY <1>0, <2>2, <2>3, FlightStays
  <2>5. PeerAckOK(peerAck', got', given')
    BY <1>0, <2>1, <2>2, PeerAckMoves
  <2> QED
    BY <1>0, <2>2, <2>4, <2>5 DEF ConnOK, PeerAckOK, FlightOK
<1>6. CASE ClientReceives
  <2>1. Head(toClient) \in ToClients /\ Tail(toClient) \in Seq(ToClients)
    BY <1>6, <1>0 DEF ClientReceives
  <2>2. PICK a \in Carriers("client", Head(toClient), got) :
          peerAck' = [peerAck EXCEPT !["client"] = a] /\ packets' = Fresh(packets, a)
    BY <1>6 DEF ClientReceives
  <2>3. /\ given' = given + 1 /\ toClient' = Tail(toClient)
        /\ UNCHANGED <<got, inputs>>
    BY <1>6 DEF ClientReceives
  <2>4. a \in Nat /\ a <= got
    <3>1. Head(toClient).ack \in Nat
      BY <2>1 DEF ToClients
    <3> QED
      BY <2>2, <3>1, <1>0, CarriersAre
  <2>5. given' \in Nat /\ given <= given'
    BY <1>0, <2>3
  <2>6. PeerAckOK(peerAck', got, given')
    <3>1. PeerAckOK(peerAck', got, given)
      BY <1>0, <2>2, <2>4, PeerAckMoves
    <3> QED
      BY <1>0, <3>1, <2>5, PeerAckStays
  <2>7. FlightOK(packets', inputs, got, given')
    BY <1>0, <2>2, <2>5, FreshIs, FlightStays
  <2>8. toServer' \in Seq(ToServers)
    <3>1. Head(toClient).kind \in {"MAP_CHANGE", "CON_READY", "READYTOENTER"}
      BY <2>1 DEF ToClients
    <3>2. OnMapChange(Head(toClient).map) \/ OnConReady \/ OnReadyToEnter
      BY <1>6, <3>1 DEF ClientReceives
    <3> DEFINE Message(kind) == [ToServer(kind) EXCEPT !.ack = given + 1]
    <3>3. ASSUME NEW kind \in {"READY", "STARTINFO", "ENTERGAME"}
          PROVE  Message(kind) \in ToServers
      <4>1. given + 1 \in Nat
        BY <1>0
      <4>2. Message(kind) = [kind |-> kind, ack |-> given + 1]
        BY DEF ToServer
      <4> QED
        BY <4>1, <4>2 DEF ToServers
    <3>4. \/ toServer' = toServer
          \/ \E kind \in {"READY", "STARTINFO", "ENTERGAME"} :
               toServer' = Append(toServer, Message(kind))
      BY <3>2 DEF OnMapChange, OnConReady, OnReadyToEnter
    <3> HIDE DEF Message
    <3>5. ASSUME NEW x \in ToServers PROVE Append(toServer, x) \in Seq(ToServers)
      BY <1>0
    <3> QED
      BY <1>0, <3>3, <3>4, <3>5
  <2> QED
    BY <1>0, <2>1, <2>3, <2>5, <2>6, <2>7, <2>8
<1>7. CASE FinishMapDownload
  <2>1. ToServer("READY") \in ToServers
    BY <1>0 DEF ToServer, ToServers
  <2>2. /\ toServer' = Append(toServer, ToServer("READY"))
        /\ UNCHANGED <<toClient, got, given, peerAck, packets, inputs>>
    BY <1>7 DEF FinishMapDownload
  <2> QED
    BY <1>0, <2>1, <2>2
<1>8. CASE SendInput
  <2>1. inputs' \subseteq inputs \cup {Input(ackTick)} /\ UNCHANGED <<connVars, packets>>
    BY <1>8, JoinIs DEF SendInput
  <2>2. Input(ackTick) \in Inputs /\ Input(ackTick).ack <= given
    BY <1>0 DEF Input, Inputs, ClientOK
  <2>3. FlightOK(packets, inputs', got, given)
    BY <1>0, <2>1, <2>2 DEF FlightOK
  <2> QED
    BY <1>0, <2>1, <2>3 DEF connVars
<1>9. ASSUME NEW p \in packets, ReceivePacket(p)
      PROVE  ConnOK'
  <2>1. /\ peerAck' = [peerAck EXCEPT !["client"] = p.ack]
        /\ packets' = Fresh(packets, p.ack)
        /\ UNCHANGED <<got, given, toClient, toServer>>
    BY <1>9 DEF ReceivePacket
  <2>2. p.ack \in Nat /\ p.ack <= got
    BY <1>0 DEF FlightOK, Packets
  <2>3. inputs' \subseteq inputs \cup {Input(NoTick)}
    BY <1>9, SnapInputs DEF ReceivePacket
  <2>4. Input(NoTick) \in Inputs /\ Input(NoTick).ack <= given
    BY <1>0, BoundsAssumption DEF Input, Inputs
  <2>5. packets' \subseteq packets
    BY <2>1, FreshIs
  <2>6. FlightOK(packets', inputs', got', given')
    BY <1>0, <2>1, <2>3, <2>4, <2>5 DEF FlightOK
  <2>7. PeerAckOK(peerAck', got', given')
    BY <1>0, <2>1, <2>2, PeerAckMoves
  <2> QED
    BY <1>0, <2>1, <2>6, <2>7 DEF ConnOK, PeerAckOK, FlightOK
<1> QED
  BY <1>1, <1>2, <1>3, <1>4, <1>5, <1>6, <1>7, <1>8, <1>9, ConnParts
     DEF Next, ConnOK, PeerAckOK, FlightOK

-----------------------------------------------------------------------------
(* The client.                                                             *)

ClientInv == ClientOK /\ NoDanglingSnapshot /\ RecvOrder

\* The variables that a received snapshot leaves alone.
restVars == <<loaded, wanted, predicting, entered>>

LEMMA ClientUnchanged ==
  ASSUME ClientInv, UNCHANGED clientVars
  PROVE  ClientInv'
BY DEF ClientInv, ClientOK, NoDanglingSnapshot, RecvOrder, IsStorage, clientVars, snapVars

\* Nothing is stored and nothing is pointed to.
LEMMA ClientForgets ==
  ASSUME snaps' = NoSnapshots, prev' = NoTick, cur' = NoTick, received' = 0,
         parts' = NoSnapshots, crcErrors' = 0,
         ackTick' \in NoTick .. MaxTick, recvTick' \in NoTick .. MaxTick,
         loaded' \in NoMap .. Maps, wanted' \in NoMap .. Maps,
         online' \in BOOLEAN, predicting' \in BOOLEAN, entered' \in BOOLEAN
  PROVE  ClientInv'
<1> USE NoSnapshotsIs, BoundsAssumption DEF NoTick
<1>1. IsStorage(snaps)' /\ (DOMAIN parts \subseteq 1 .. MaxParts)'
  BY DEF IsStorage
<1>2. /\ prev' \in NoTick .. MaxTick /\ cur' \in NoTick .. MaxTick
      /\ received' \in 0 .. 3 /\ crcErrors' \in 0 .. MaxCrcErrors
  OBVIOUS
<1>3. ClientOK'
  BY <1>1, <1>2 DEF ClientOK
<1> QED
  BY <1>3 DEF ClientInv, NoDanglingSnapshot, RecvOrder

\* What has been received is not stored, but is the newest now.
LEMMA NotStored ==
  ASSUME ClientInv, NEW p \in Packets, Takes(p), recvTick' = p.tick,
         UNCHANGED <<restVars, online, snaps, prev, cur, received>>,
         ackTick' \in NoTick .. MaxTick, crcErrors' \in 0 .. MaxCrcErrors,
         DOMAIN parts' \subseteq 1 .. MaxParts
  PROVE  ClientInv'
<1>1. recvTick' \in NoTick .. MaxTick
  BY BoundsAssumption DEF Packets, Ticks, NoTick
<1>2. ClientOK'
  BY <1>1 DEF ClientInv, ClientOK, IsStorage, restVars
<1>3. RecvOrder'
  BY TakenIsNewer DEF RecvOrder, ClientInv
<1>4. NoDanglingSnapshot'
  BY DEF NoDanglingSnapshot, ClientInv
<1> QED
  BY <1>2, <1>3, <1>4 DEF ClientInv

\* What is pointed to is not purged.
LEMMA PurgeTickIs ==
  ASSUME ClientOK, NEW b \in NoTick .. MaxTick, NEW t \in {prev, cur}, t # NoTick
  PROVE  t >= PurgeTick(b)
<1>1. prev \in Int /\ cur \in Int /\ b \in Int
  BY DEF ClientOK, NoTick
<1>2. CASE prev # NoTick /\ prev < b
  BY <1>1, <1>2 DEF PurgeTick, NoTick
<1>3. CASE ~(prev # NoTick /\ prev < b)
  BY <1>1, <1>3 DEF PurgeTick, NoTick
<1> QED
  BY <1>2, <1>3

LEMMA Stored ==
  ASSUME ClientInv, NEW p \in Packets, Takes(p), recvTick' = p.tick,
         parts' = NoSnapshots, UNCHANGED restVars,
         NEW m \in 1 .. Maps, StoreSnapshot(p, m)
  PROVE  ClientInv'
<1> DEFINE kept == PurgeUntil(snaps, PurgeTick(p.base))
           now == p.tick
           stored == AddSnapshot(kept, now, m)
<1>0. ClientOK /\ NoDanglingSnapshot /\ RecvOrder
  BY DEF ClientInv
<1>1. /\ snaps' = stored /\ received' = Least(received + 1, 3)
      /\ \/ /\ received = 1 /\ online' = TRUE
            /\ prev' = FirstStored(stored) /\ cur' = LastStored(stored)
         \/ received # 1 /\ UNCHANGED <<online, prev, cur>>
      /\ crcErrors' = Greatest(crcErrors - 1, 0) /\ ackTick' = now
  BY DEF StoreSnapshot
<1>2. now \in Ticks /\ m \in 1 .. Maps /\ p.base \in NoTick .. MaxTick
  BY DEF Packets
<1>3. /\ DOMAIN kept = {t \in DOMAIN snaps : t >= PurgeTick(p.base)}
      /\ \A t \in DOMAIN kept : kept[t] = snaps[t]
  BY PurgeUntilIs
<1>4. {prev, cur} \subseteq DOMAIN kept \cup {NoTick}
  BY <1>0, <1>2, <1>3, PurgeTickIs DEF NoDanglingSnapshot
<1>5. \A t \in DOMAIN kept : t \in Ticks /\ kept[t] \in 1 .. Maps /\ t < now
  BY <1>0, <1>3, TakenIsNewer DEF ClientOK, IsStorage
<1> HIDE DEF kept, now
<1>6. /\ DOMAIN stored = DOMAIN kept \cup {now}
      /\ stored[now] = m
      /\ \A t \in DOMAIN kept : t # now => stored[t] = kept[t]
  BY DEF AddSnapshot
<1> HIDE DEF stored
<1>7. IsStorage(stored)
  BY <1>2, <1>5, <1>6 DEF IsStorage
<1>8. /\ DOMAIN stored \in SUBSET (0 .. MaxTick) /\ DOMAIN stored \in SUBSET Nat
      /\ DOMAIN stored # {}
  BY <1>6, <1>7, BoundsAssumption DEF IsStorage, Ticks
<1>9. FirstStored(stored) \in DOMAIN stored /\ LastStored(stored) \in DOMAIN stored
  BY <1>8, FirstStoredIs, LastStoredIs, BoundsAssumption
<1>10. {prev', cur'} \subseteq DOMAIN stored \cup {NoTick}
  BY <1>1, <1>4, <1>6, <1>9
<1>11. ClientOK'
  <2>1. prev' \in NoTick .. MaxTick /\ cur' \in NoTick .. MaxTick
    BY <1>8, <1>10, BoundsAssumption DEF NoTick
  <2>2. ackTick' \in NoTick .. MaxTick /\ recvTick' \in NoTick .. MaxTick
    BY <1>1, <1>2, BoundsAssumption DEF now, Ticks, NoTick
  <2>3. received' \in 0 .. 3
    BY <1>0, <1>1 DEF ClientOK, Least
  <2>4. crcErrors' \in 0 .. MaxCrcErrors
    BY <1>0, <1>1, BoundsAssumption DEF ClientOK, Greatest
  <2>5. (DOMAIN parts \subseteq 1 .. MaxParts)' /\ IsStorage(snaps)' /\ online' \in BOOLEAN
    BY <1>0, <1>1, <1>7, NoSnapshotsIs DEF ClientOK, IsStorage
  <2> QED
    BY <1>0, <2>1, <2>2, <2>3, <2>4, <2>5 DEF ClientOK, restVars
<1>12. NoDanglingSnapshot'
  BY <1>1, <1>10 DEF NoDanglingSnapshot
<1>13. RecvOrder'
  <2>1. \A t \in DOMAIN stored : t < now \/ (t = now /\ t <= now)
    BY <1>2, <1>5, <1>6 DEF Ticks
  <2> QED
    BY <2>1, <1>1 DEF RecvOrder, now
<1> QED
  BY <1>11, <1>12, <1>13 DEF ClientInv

LEMMA SnapStep ==
  ASSUME ClientInv, NEW p \in Packets, OnSnap(p), UNCHANGED restVars
  PROVE  ClientInv'
<1>0. ClientOK
  BY DEF ClientInv
<1>1. CASE loaded # NoMap /\ Takes(p)
  <2>1. recvTick' = p.tick /\ TakePart(p)
    BY <1>1 DEF OnSnap
  <2>2. DOMAIN Source(p) \subseteq 1 .. MaxParts
    <3>1. DOMAIN BeginSnapshot(p) \subseteq 1 .. MaxParts
      BY <1>0, NoSnapshotsIs DEF ClientOK, BeginSnapshot
    <3>2. DOMAIN Source(p) = DOMAIN BeginSnapshot(p) \cup {p.part}
      BY DEF Source, AddSnapshot
    <3> QED
      BY <3>1, <3>2 DEF Packets
  <2>3. \/ Complete(p)
        \/ /\ parts' = Source(p)
           /\ UNCHANGED <<snaps, prev, cur, received, ackTick, crcErrors, online>>
    BY <2>1 DEF TakePart
  <2>4. ackTick \in NoTick .. MaxTick /\ crcErrors \in 0 .. MaxCrcErrors
    BY <1>0 DEF ClientOK
  <2>5. CASE UNCHANGED <<snaps, prev, cur, received, ackTick, crcErrors, online>> /\ parts' = Source(p)
    BY <1>1, <2>1, <2>2, <2>4, <2>5, NotStored
  <2>6. CASE Complete(p)
    <3>1. /\ parts' = NoSnapshots
          /\ \/ BaseMissing \/ CrcError \/ UnpackFailure
             \/ \E content \in 1 .. Maps : StoreSnapshot(p, content)
      <4>1. p.map \in 1 .. Maps
        BY DEF Packets
      <4>2. HasBase(p) /\ p.base # NoTick => snaps[p.base] \in 1 .. Maps
        BY <1>0 DEF ClientOK, IsStorage, HasBase
      <4> QED
        BY <2>6, <4>1, <4>2 DEF Complete
    <3>2. DOMAIN parts' \subseteq 1 .. MaxParts
      BY <3>1, NoSnapshotsIs
    <3>3. CASE \E content \in 1 .. Maps : StoreSnapshot(p, content)
      BY <1>1, <2>1, <3>1, <3>3, Stored
    <3>4. CASE BaseMissing
      <4>1. /\ ackTick' = NoTick
            /\ UNCHANGED <<snaps, prev, cur, received, crcErrors, online>>
        BY <3>4 DEF BaseMissing, ForceResync
      <4>2. ackTick' \in NoTick .. MaxTick
        BY <4>1, BoundsAssumption DEF NoTick
      <4> QED
        BY <1>1, <2>1, <2>4, <3>2, <4>1, <4>2, NotStored
    <3>5. CASE CrcError
      <4>1. /\ ackTick' \in {NoTick, ackTick}
            /\ crcErrors' = IF crcErrors = MaxCrcErrors THEN 0 ELSE crcErrors + 1
            /\ UNCHANGED <<snaps, prev, cur, received, online>>
        BY <3>5 DEF CrcError, ForceResync
      <4>2. ackTick' \in NoTick .. MaxTick /\ crcErrors' \in 0 .. MaxCrcErrors
        BY <2>4, <4>1, BoundsAssumption DEF NoTick
      <4> QED
        BY <1>1, <2>1, <3>2, <4>1, <4>2, NotStored
    <3>6. CASE UnpackFailure
      <4>1. UNCHANGED <<snaps, prev, cur, received, ackTick, crcErrors, online>>
        BY <3>6 DEF UnpackFailure
      <4> QED
        BY <1>1, <2>1, <2>4, <3>2, <4>1, NotStored
    <3> QED
      BY <3>1, <3>3, <3>4, <3>5, <3>6
  <2> QED
    BY <2>3, <2>5, <2>6
<1>2. CASE ~(loaded # NoMap /\ Takes(p))
  <2>1. UNCHANGED clientVars
    BY <1>2 DEF OnSnap, clientVars, snapVars, restVars
  <2> QED
    BY <2>1, ClientUnchanged
<1> QED
  BY <1>1, <1>2

LEMMA ClientStep ==
  ASSUME IInv, Next
  PROVE  ClientInv'
<1>0. ClientInv /\ ClientOK /\ ConnOK
  BY DEF IInv, ClientInv
<1>1. CASE LoadMap \/ Tick \/ DoSnapshot \/ ServerReceives \/ \E i \in inputs : OnInput(i)
  <2>1. UNCHANGED clientVars
    BY <1>1 DEF LoadMap, LoadNext, Tick, DoSnapshot, ServerReceives, OnInput
  <2> QED
    BY <1>0, <2>1, ClientUnchanged
<1>2. CASE ClientReceives
  <2>1. Head(toClient) \in ToClients
    BY <1>2, <1>0 DEF ClientReceives, ConnOK
  <2> DEFINE m == Head(toClient).map
  <2>2. m \in NoMap .. Maps /\ Head(toClient).kind \in {"MAP_CHANGE", "CON_READY", "READYTOENTER"}
    BY <2>1, BoundsAssumption DEF ToClients, NoMap
  <2>3. OnMapChange(m) \/ OnConReady \/ OnReadyToEnter
    BY <1>2, <2>2 DEF ClientReceives
  <2> HIDE DEF m
  <2>4. CASE OnMapChange(m)
    <3>1. /\ snaps' = NoSnapshots /\ prev' = NoTick /\ cur' = NoTick /\ received' = 0
          /\ parts' = NoSnapshots /\ crcErrors' = 0 /\ online' = FALSE
          /\ UNCHANGED <<ackTick, recvTick, predicting>>
      BY <2>4 DEF OnMapChange, ForgetSnapshots
    <3>2. entered' = FALSE /\ loaded' \in {NoMap, m} /\ wanted' \in {NoMap, m}
      BY <2>4 DEF OnMapChange
    <3>3. loaded' \in NoMap .. Maps /\ wanted' \in NoMap .. Maps
      BY <2>2, <3>2, BoundsAssumption DEF NoMap
    <3> QED
      BY <1>0, <3>1, <3>2, <3>3, ClientForgets DEF ClientOK
  <2>5. CASE OnConReady
    BY <1>0, <2>5, ClientUnchanged DEF OnConReady
  <2>6. CASE OnReadyToEnter
    <3>1. /\ snaps' = NoSnapshots /\ prev' = NoTick /\ cur' = NoTick /\ received' = 0
          /\ parts' = NoSnapshots /\ crcErrors' = 0
          /\ ackTick' = NoTick /\ recvTick' = 0 /\ predicting' = FALSE /\ entered' = TRUE
          /\ UNCHANGED <<loaded, wanted, online>>
      BY <2>6 DEF OnReadyToEnter
    <3>2. ackTick' \in NoTick .. MaxTick /\ recvTick' \in NoTick .. MaxTick
      BY <3>1, BoundsAssumption DEF NoTick
    <3> QED
      BY <1>0, <3>1, <3>2, ClientForgets DEF ClientOK
  <2> QED
    BY <2>3, <2>4, <2>5, <2>6
<1>3. CASE FinishMapDownload
  <2>1. /\ snaps' = NoSnapshots /\ prev' = NoTick /\ cur' = NoTick /\ received' = 0
        /\ parts' = NoSnapshots /\ crcErrors' = 0 /\ online' = FALSE
        /\ UNCHANGED <<ackTick, recvTick, predicting, entered>>
        /\ loaded' = wanted /\ wanted' = NoMap
    BY <1>3 DEF FinishMapDownload, ForgetSnapshots
  <2>2. loaded' \in NoMap .. Maps /\ wanted' \in NoMap .. Maps
    BY <1>0, <2>1, BoundsAssumption DEF ClientOK, NoMap
  <2> QED
    BY <1>0, <2>1, <2>2, ClientForgets DEF ClientOK
<1>4. CASE SendInput
  <2>1. predicting' = TRUE /\ UNCHANGED <<loaded, wanted, online, entered, snapVars>>
    BY <1>4 DEF SendInput
  <2> QED
    BY <1>0, <2>1
       DEF ClientInv, ClientOK, NoDanglingSnapshot, RecvOrder, IsStorage, snapVars
<1>5. CASE SwitchSnapshot
  <2>1. /\ prev' = cur /\ cur' = NextStored(snaps, cur) /\ HasNext(snaps, cur) /\ cur # NoTick
        /\ UNCHANGED <<restVars, online, snaps, received, ackTick, recvTick, parts, crcErrors>>
    BY <1>5 DEF SwitchSnapshot, restVars
  <2>2. DOMAIN snaps \in SUBSET Nat /\ DOMAIN snaps \subseteq Ticks /\ cur \in Int
    BY <1>0 DEF ClientOK, IsStorage, Ticks, NoTick
  <2>3. cur' \in DOMAIN snaps
    BY <2>1, <2>2, NextStoredIs
  <2>4. cur \in DOMAIN snaps
    BY <1>0, <2>1 DEF ClientInv, NoDanglingSnapshot
  <2>5. prev' \in NoTick .. MaxTick /\ cur' \in NoTick .. MaxTick
    BY <2>1, <2>2, <2>3, <2>4, BoundsAssumption DEF Ticks, NoTick
  <2>6. ClientOK'
    BY <1>0, <2>1, <2>5 DEF ClientOK, IsStorage, restVars
  <2> QED
    BY <1>0, <2>1, <2>3, <2>4, <2>6 DEF ClientInv, NoDanglingSnapshot, RecvOrder
<1>6. ASSUME NEW p \in packets, ReceivePacket(p)
      PROVE  ClientInv'
  <2>1. p \in Packets /\ OnSnap(p) /\ UNCHANGED restVars
    BY <1>0, <1>6 DEF ReceivePacket, restVars, ConnOK
  <2> QED
    BY <1>0, <2>1, SnapStep
<1> QED
  BY <1>1, <1>2, <1>3, <1>4, <1>5, <1>6 DEF Next

-----------------------------------------------------------------------------
(* The theorems.                                                           *)

\* The invariant is inductive.
THEOREM Invariance == Spec => []IInv
<1>1. Init => IInv
  BY InitInvariant
<1>2. IInv /\ [Next]_vars => IInv'
  <2> SUFFICES ASSUME IInv, [Next]_vars PROVE IInv'
    OBVIOUS
  <2>1. CASE Next
    BY <2>1, ServerStep, ConnStep, ClientStep DEF IInv, ClientInv
  <2>2. CASE UNCHANGED vars
    <3>1. ServerOK'
      BY <2>2, ServerUnchanged DEF vars, connVars
    <3>2. ClientInv'
      BY <2>2, ClientUnchanged DEF vars, IInv, ClientInv
    <3>3. ConnOK'
      BY <2>2 DEF vars, connVars, IInv, ConnOK
    <3> QED
      BY <3>1, <3>2, <3>3 DEF IInv, ClientInv
  <2> QED
    BY <2>1, <2>2
<1> QED
  BY <1>1, <1>2, PTL DEF Spec

\* The variables of both sides and of the connection keep their types.
THEOREM TypeCorrect == Spec => []TypeOK
<1>1. IInv => TypeOK
  BY InvariantImplies
<1> QED
  BY <1>1, Invariance, PTL

\* The previous and the current snapshot of the client are in its storage
\* (CClient::ProcessServerPacket purges only what neither needs).
THEOREM PointersHeld == Spec => []NoDanglingSnapshot
<1>1. IInv => NoDanglingSnapshot
  BY DEF IInv
<1> QED
  BY <1>1, Invariance, PTL

\* The assertion of CSnapshotStorage::Add holds on both sides.
THEOREM AddedInOrder == Spec => []StoredInOrder
<1>1. IInv => StoredInOrder
  BY InvariantImplies
<1> QED
  BY <1>1, Invariance, PTL
=============================================================================
