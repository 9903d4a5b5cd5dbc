-------------------------- MODULE SnapshotMapProofs -------------------------
(***************************************************************************)
(* What a client is shown while it is led from map to map: never a         *)
(* snapshot of another map once it has entered the one that is played      *)
(* (before, late ones may come), and never a delta to the wrong base as    *)
(* long as no more than two map changes overlap.                           *)
(***************************************************************************)
EXTENDS SnapshotSyncProofs

-----------------------------------------------------------------------------
(* The vital messages of the map changes, in the order they were sent.     *)

\* The last map that the client has been told of.
seen == IF wanted = NoMap THEN loaded ELSE wanted

\* The map that the client has been told of before message i of queue q, when s
\* is the one at its beginning.
MapBefore(q, s, i) == IF i = 1 THEN s ELSE q[i - 1].map

\* Each message belongs to the map announced before it, or announces the next
\* one; map m is the last.
Leads(q, s, m) ==
  /\ s <= m
  /\ \A i \in 1 .. Len(q) :
       /\ q[i].map <= m
       /\ q[i].map = MapBefore(q, s, i) + (IF q[i].kind = "MAP_CHANGE" THEN 1 ELSE 0)
  /\ m = MapBefore(q, s, Len(q) + 1)

LEMMA LeadsEmpty ==
  ASSUME NEW s \in Nat
  PROVE  Leads(<<>>, s, s)
BY DEF Leads, MapBefore

LEMMA LeadsAppend ==
  ASSUME NEW q \in Seq(ToClients), NEW s \in Nat, NEW m \in Nat, Leads(q, s, m),
         NEW x \in ToClients, x.map = m + (IF x.kind = "MAP_CHANGE" THEN 1 ELSE 0)
  PROVE  Leads(Append(q, x), s, x.map)
<1> DEFINE n == Len(q)
           r == Append(q, x)
<1>1. /\ n \in Nat /\ Len(r) = n + 1 /\ r[n + 1] = x
      /\ \A i \in 1 .. n : r[i] = q[i]
  OBVIOUS
<1>2. x.map \in Nat /\ m <= x.map
  BY DEF ToClients
<1>3. ASSUME NEW i \in 1 .. n
      PROVE  q[i].map \in Nat
  <2>1. q[i] \in ToClients
    OBVIOUS
  <2> QED
    BY <2>1 DEF ToClients
<1> HIDE DEF n, r
<1>4. m = MapBefore(q, s, n + 1)
  BY DEF Leads, n
<1>5. ASSUME NEW i \in 1 .. n + 1
      PROVE  MapBefore(r, s, i) = MapBefore(q, s, i)
  <2>1. i = 1 \/ i - 1 \in 1 .. n
    BY <1>1
  <2> QED
    BY <2>1, <1>1 DEF MapBefore
<1>6. ASSUME NEW i \in 1 .. Len(r)
      PROVE  /\ r[i].map <= x.map
             /\ r[i].map = MapBefore(r, s, i) + (IF r[i].kind = "MAP_CHANGE" THEN 1 ELSE 0)
  <2>1. CASE i = n + 1
    <3>1. r[i] = x /\ MapBefore(r, s, i) = m
      BY <2>1, <1>1, <1>4, <1>5
    <3> QED
      BY <3>1, <1>2
  <2>2. CASE i # n + 1
    <3>1. i \in 1 .. n
      BY <2>2, <1>1
    <3>2. /\ q[i].map <= m
          /\ q[i].map = MapBefore(q, s, i) + (IF q[i].kind = "MAP_CHANGE" THEN 1 ELSE 0)
      BY <3>1 DEF Leads, n
    <3>3. r[i] = q[i] /\ MapBefore(r, s, i) = MapBefore(q, s, i) /\ q[i].map \in Nat
      BY <3>1, <1>1, <1>3, <1>5
    <3> QED
      BY <3>2, <3>3, <1>2
  <2> QED
    BY <2>1, <2>2
<1>7. MapBefore(r, s, Len(r) + 1) = x.map
  BY <1>1 DEF MapBefore
<1>8. s <= x.map
  BY <1>2 DEF Leads
<1>9. Leads(r, s, x.map)
  BY <1>6, <1>7, <1>8 DEF Leads
<1> QED
  BY <1>9 DEF r

LEMMA LeadsTail ==
  ASSUME NEW q \in Seq(ToClients), q # <<>>, NEW s \in Nat, NEW m \in Nat, Leads(q, s, m)
  PROVE  /\ Leads(Tail(q), Head(q).map, m)
         /\ Head(q).map = s + (IF Head(q).kind = "MAP_CHANGE" THEN 1 ELSE 0)
         /\ Head(q).map <= m
<1> DEFINE r == Tail(q)
<1>1. /\ Len(q) \in Nat /\ Len(q) >= 1 /\ Len(r) = Len(q) - 1 /\ Head(q) = q[1]
      /\ \A i \in 1 .. Len(r) : r[i] = q[i + 1]
  OBVIOUS
<1> HIDE DEF r
<1>2. /\ q[1].map = MapBefore(q, s, 1) + (IF q[1].kind = "MAP_CHANGE" THEN 1 ELSE 0)
      /\ q[1].map <= m
  BY <1>1 DEF Leads
<1>3. ASSUME NEW i \in 1 .. Len(q)
      PROVE  MapBefore(r, q[1].map, i) = MapBefore(q, s, i + 1)
  <2>1. CASE i = 1
    BY <2>1 DEF MapBefore
  <2>2. CASE i # 1
    <3>1. i - 1 \in 1 .. Len(r) /\ i + 1 # 1 /\ (i - 1) + 1 = i /\ (i + 1) - 1 = i
      BY <2>2, <1>1
    <3>2. r[i - 1] = q[i]
      BY <3>1, <1>1
    <3> QED
      BY <2>2, <3>1, <3>2 DEF MapBefore
  <2> QED
    BY <2>1, <2>2
<1>4. ASSUME NEW i \in 1 .. Len(r)
      PROVE  /\ r[i].map <= m
             /\ r[i].map = MapBefore(r, q[1].map, i)
                             + (IF r[i].kind = "MAP_CHANGE" THEN 1 ELSE 0)
  <2>1. i + 1 \in 1 .. Len(q) /\ i \in 1 .. Len(q)
    BY <1>1
  <2>2. r[i] = q[i + 1]
    BY <1>1
  <2> QED
    BY <2>1, <2>2, <1>3 DEF Leads
<1>5. m = MapBefore(r, q[1].map, Len(r) + 1)
  <2>1. Len(r) + 1 = Len(q) /\ Len(q) \in 1 .. Len(q)
    BY <1>1
  <2> QED
    BY <2>1, <1>3 DEF Leads
<1>6. Leads(r, q[1].map, m)
  BY <1>2, <1>4, <1>5 DEF Leads
<1>7. MapBefore(q, s, 1) = s
  BY DEF MapBefore
<1> QED
  BY <1>1, <1>2, <1>6, <1>7 DEF r

-----------------------------------------------------------------------------
(* What a client is shown after it has entered.                            *)

\* The client knows of the maps in the order of the messages.
ToldInOrder ==
  /\ loaded = NoMap \/ wanted = NoMap
  /\ loaded # NoMap \/ wanted # NoMap
  /\ Leads(toClient, seen, map)

\* A READYTOENTER acknowledges more than the snapshots of the maps before.
EntersLater ==
  \A i \in 1 .. Len(toClient), p \in packets :
    toClient[i].kind = "READYTOENTER" /\ p.map < toClient[i].map => p.ack < toClient[i].ack

\* No snapshot is of a map to come.
NoneAhead == \A p \in packets : p.map <= map

\* Once the client has entered the map that is played, all that is under way or
\* stored is of this map.
Pure ==
  entered /\ seen = map => /\ \A p \in packets : p.map = map
                          /\ \A t \in DOMAIN snaps : snaps[t] = map

MapInv == ToldInOrder /\ EntersLater /\ NoneAhead /\ Pure

LEMMA SeenIsMap ==
  ASSUME IInv, ToldInOrder
  PROVE  seen \in 1 .. map /\ seen \in Nat /\ map \in Nat
<1>1. seen \in NoMap .. Maps /\ map \in 1 .. Maps /\ seen # NoMap
  BY DEF IInv, ClientOK, ServerOK, ToldInOrder, seen
<1>2. seen <= map
  BY DEF ToldInOrder, Leads
<1> QED
  BY <1>1, <1>2 DEF NoMap

LEMMA InitMapInvariant ==
  ASSUME Init
  PROVE  MapInv
<1>1. seen = 1 /\ map = 1 /\ toClient = <<>> /\ packets = {} /\ DOMAIN snaps = {}
  BY NoSnapshotsIs DEF Init, seen, NoMap
<1>2. Leads(toClient, seen, map)
  BY <1>1, LeadsEmpty
<1>3. loaded = 1 /\ wanted = NoMap /\ 1 # NoMap
  BY DEF Init, NoMap
<1> QED
  BY <1>1, <1>2, <1>3 DEF MapInv, ToldInOrder, EntersLater, NoneAhead, Pure

\* Steps that send no message and change no map.
LEMMA ToldUnchanged ==
  ASSUME ToldInOrder, UNCHANGED <<map, loaded, wanted, toClient>>
  PROVE  ToldInOrder' /\ seen' = seen
BY DEF ToldInOrder, Leads, MapBefore, seen

\* A vital message that arrives at the client: it is told of the map of the
\* message, and what acknowledges less than the message is refused.
LEMMA Arrival ==
  ASSUME IInv, ToldInOrder, ClientReceives, NEW x, x = Head(toClient)
  PROVE  /\ x \in ToClients
         /\ x.map = seen + (IF x.kind = "MAP_CHANGE" THEN 1 ELSE 0) /\ x.map <= map
         /\ seen' = x.map
         /\ loaded' = NoMap \/ wanted' = NoMap
         /\ loaded' # NoMap \/ wanted' # NoMap
         /\ Leads(toClient', x.map, map)
         /\ \A p \in packets' : p \in packets /\ p.ack >= x.ack
         /\ \/ /\ x.kind = "MAP_CHANGE" /\ entered' = FALSE
               /\ snaps' = NoSnapshots /\ parts' = NoSnapshots /\ crcErrors' = 0
            \/ x.kind = "CON_READY" /\ UNCHANGED clientVars
            \/ /\ x.kind = "READYTOENTER" /\ entered' = TRUE
               /\ snaps' = NoSnapshots /\ parts' = NoSnapshots /\ crcErrors' = 0
               /\ UNCHANGED <<loaded, wanted>>
<1> USE DEF NoMap
<1>1. toClient # <<>> /\ toClient \in Seq(ToClients) /\ ConnOK
  BY DEF ClientReceives, IInv, ConnOK
<1>2. x \in ToClients
  BY <1>1
<1>3. x.kind \in {"MAP_CHANGE", "CON_READY", "READYTOENTER"} /\ x.map \in 1 .. Maps /\ x.ack \in Nat
  BY <1>2 DEF ToClients
<1>4. /\ x.map = seen + (IF x.kind = "MAP_CHANGE" THEN 1 ELSE 0) /\ x.map <= map
      /\ Leads(Tail(toClient), x.map, map)
  BY <1>1, SeenIsMap, LeadsTail DEF ToldInOrder
<1>5. toClient' = Tail(toClient)
  BY DEF ClientReceives
<1>6. ASSUME NEW p \in packets'
      PROVE  p \in packets /\ p.ack >= x.ack
  <2>1. PICK a \in Carriers("client", x, got) : packets' = Fresh(packets, a)
    BY DEF ClientReceives
  <2>2. p \in packets /\ p.ack >= a
    BY <2>1 DEF Fresh, Accepts
  <2>3. a \in Int /\ a >= x.ack
    <3>1. peerAck["client"] \in Nat /\ got \in Nat
      BY <1>1 DEF ConnOK
    <3>2. Greatest(x.ack, peerAck["client"]) \in Nat /\ Greatest(x.ack, peerAck["client"]) >= x.ack
      BY <3>1, <1>3 DEF Greatest
    <3>3. a \in Greatest(x.ack, peerAck["client"]) .. got
      BY <2>1 DEF Carriers
    <3> QED
      BY <3>1, <3>2, <3>3, <1>3
  <2>4. p.ack \in Nat
    BY <1>1, <2>2 DEF ConnOK, Packets
  <2> QED
    BY <2>2, <2>3, <2>4, <1>3
<1>7. CASE x.kind = "MAP_CHANGE"
  <2>1. OnMapChange(x.map)
    BY <1>7 DEF ClientReceives
  <2>2. entered' = FALSE /\ snaps' = NoSnapshots /\ parts' = NoSnapshots /\ crcErrors' = 0
    BY <2>1 DEF OnMapChange, ForgetSnapshots
  <2>3. (loaded' = x.map /\ wanted' = NoMap) \/ (loaded' = NoMap /\ wanted' = x.map)
    BY <2>1 DEF OnMapChange
  <2>4. seen' = x.map
    BY <2>3 DEF seen
  <2> QED
    BY <1>2, <1>3, <1>4, <1>5, <1>6, <1>7, <2>2, <2>3, <2>4
<1>8. CASE x.kind = "CON_READY"
  <2>1. OnConReady
    BY <1>8 DEF ClientReceives
  <2>2. UNCHANGED clientVars /\ UNCHANGED <<loaded, wanted>>
    BY <2>1 DEF OnConReady, clientVars
  <2>3. seen' = x.map
    BY <2>2, <1>4, <1>8, SeenIsMap DEF seen
  <2> QED
    BY <1>2, <1>4, <1>5, <1>6, <1>8, <2>2, <2>3 DEF ToldInOrder
<1>9. CASE x.kind = "READYTOENTER"
  <2>1. OnReadyToEnter
    BY <1>9 DEF ClientReceives
  <2>2. /\ entered' = TRUE /\ snaps' = NoSnapshots /\ parts' = NoSnapshots /\ crcErrors' = 0
        /\ UNCHANGED <<loaded, wanted>>
    BY <2>1 DEF OnReadyToEnter
  <2>3. seen' = x.map
    BY <2>2, <1>4, <1>9, SeenIsMap DEF seen
  <2> QED
    BY <1>2, <1>4, <1>5, <1>6, <1>9, <2>2, <2>3 DEF ToldInOrder
<1> QED
  BY <1>3, <1>7, <1>8, <1>9

\* A vital message that arrives at the server: at most one answer is sent, which
\* acknowledges more than any packet.
LEMMA Answer ==
  ASSUME IInv, ServerReceives
  PROVE  /\ UNCHANGED <<map, clientVars, packets>> /\ got' = got + 1
         /\ \/ UNCHANGED toClient
            \/ \E x \in ToClients : /\ toClient' = Append(toClient, x)
                                    /\ x.kind # "MAP_CHANGE" /\ x.map = map /\ x.ack = got + 1
<1>1. ConnOK /\ ServerOK
  BY DEF IInv
<1>2. Head(toServer).kind \in {"READY", "STARTINFO", "ENTERGAME"}
  <2>1. Head(toServer) \in ToServers
    BY <1>1 DEF ServerReceives, ConnOK
  <2> QED
    BY <2>1 DEF ToServers
<1>3. OnReady \/ OnStartInfo \/ OnEnterGame
  BY <1>2 DEF ServerReceives
<1> DEFINE Message(kind) == [ToClient(kind, map) EXCEPT !.ack = got + 1]
<1>4. ASSUME NEW kind \in {"CON_READY", "READYTOENTER"}
      PROVE  /\ Message(kind) \in ToClients /\ Message(kind).kind # "MAP_CHANGE"
             /\ Message(kind).map = map /\ Message(kind).ack = got + 1
  <2>1. got + 1 \in Nat /\ map \in 1 .. Maps
    BY <1>1 DEF ServerOK, ConnOK
  <2>2. Message(kind) = [kind |-> kind, map |-> map, ack |-> got + 1]
    BY DEF ToClient
  <2> QED
    BY <2>1, <2>2 DEF ToClients
<1>5. \/ toClient' = toClient
      \/ \E kind \in {"CON_READY", "READYTOENTER"} : toClient' = Append(toClient, Message(kind))
  BY <1>3 DEF OnReady, OnStartInfo, OnEnterGame
<1> HIDE DEF Message
<1>6. UNCHANGED <<map, clientVars, packets>> /\ got' = got + 1
  BY DEF ServerReceives
<1> QED
  BY <1>4, <1>5, <1>6

\* What has been received is stored, or the content of its base is, or nothing.
LEMMA SnapStores ==
  ASSUME NEW p, OnSnap(p), NEW t \in DOMAIN snaps'
  PROVE  snaps'[t] = p.map \/ \E u \in DOMAIN snaps : snaps'[t] = snaps[u]
<1>1. \/ UNCHANGED snaps
      \/ \E content : /\ StoreSnapshot(p, content)
                      /\ content = p.map \/ \E u \in DOMAIN snaps : content = snaps[u]
  <2>1. UNCHANGED snaps \/ TakePart(p)
    BY DEF OnSnap, snapVars
  <2>2. UNCHANGED snaps \/ Complete(p)
    BY <2>1 DEF TakePart
  <2>3. HasBase(p) /\ p.base # NoTick => p.base \in DOMAIN snaps
    BY DEF HasBase
  <2> QED
    BY <2>2, <2>3 DEF Complete, BaseMissing, CrcError, UnpackFailure
<1>2. ASSUME NEW content, StoreSnapshot(p, content)
      PROVE  snaps'[t] = content \/ \E u \in DOMAIN snaps : snaps'[t] = snaps[u]
  <2> DEFINE kept == PurgeUntil(snaps, PurgeTick(p.base))
  <2>1. snaps' = AddSnapshot(kept, p.tick, content)
    BY <1>2 DEF StoreSnapshot
  <2>2. DOMAIN kept \subseteq DOMAIN snaps /\ \A u \in DOMAIN kept : kept[u] = snaps[u]
    BY PurgeUntilIs
  <2> HIDE DEF kept
  <2>3. /\ DOMAIN snaps' = DOMAIN kept \cup {p.tick} /\ snaps'[p.tick] = content
        /\ \A u \in DOMAIN kept : u # p.tick => snaps'[u] = kept[u]
    BY <2>1 DEF AddSnapshot
  <2> QED
    BY <2>2, <2>3
<1> QED
  BY <1>1, <1>2

\* The client is told of the maps in their order, whatever happens.
LEMMA ToldStep ==
  ASSUME IInv, ToldInOrder, Next
  PROVE  ToldInOrder'
<1>0. toClient \in Seq(ToClients) /\ ServerOK /\ ConnOK
  BY DEF IInv, ConnOK
<1>1. seen \in Nat /\ map \in Nat
  BY SeenIsMap
<1>2. CASE LoadMap
  <2> DEFINE x == ToClient("MAP_CHANGE", map + 1)
  <2>1. /\ toClient' = Append(toClient, x) /\ map' = map + 1 /\ map < Maps
        /\ UNCHANGED <<loaded, wanted>>
    BY <1>2 DEF LoadMap, LoadNext, clientVars
  <2>2. x \in ToClients /\ x.map = map + 1 /\ x.kind = "MAP_CHANGE"
    BY <2>1, <1>0, BoundsAssumption DEF ToClient, ToClients, ServerOK, ConnOK
  <2> HIDE DEF x
  <2>3. Leads(Append(toClient, x), seen, x.map)
    BY <1>0, <1>1, <2>2, LeadsAppend DEF ToldInOrder
  <2>4. Leads(toClient', seen, map')
    BY <2>1, <2>2, <2>3
  <2>5. seen' = seen
    BY <2>1 DEF seen
  <2> QED
    BY <2>1, <2>4, <2>5 DEF ToldInOrder
<1>3. CASE Tick \/ DoSnapshot \/ SendInput \/ SwitchSnapshot
  <2>1. UNCHANGED <<map, loaded, wanted, toClient>>
    BY <1>3 DEF Tick, DoSnapshot, SendInput, SwitchSnapshot, serverVars, clientVars, connVars
  <2> QED
    BY <2>1, ToldUnchanged
<1>4. CASE ServerReceives
  <2>1. UNCHANGED <<map, loaded, wanted>> /\ seen' = seen
    BY <1>4, Answer DEF clientVars, seen
  <2>2. CASE UNCHANGED toClient
    BY <2>1, <2>2, ToldUnchanged
  <2>3. ASSUME NEW x \in ToClients, toClient' = Append(toClient, x),
               x.kind # "MAP_CHANGE", x.map = map
        PROVE  ToldInOrder'
    <3>1. Leads(Append(toClient, x), seen, x.map)
      BY <1>0, <1>1, <2>3, LeadsAppend DEF ToldInOrder
    <3>2. Leads(toClient', seen', map')
      BY <2>1, <2>3, <3>1
    <3> QED
      BY <2>1, <3>2 DEF ToldInOrder
  <2> QED
    BY <1>4, <2>2, <2>3, Answer
<1>5. ASSUME NEW i \in inputs, OnInput(i)
      PROVE  ToldInOrder'
  <2>1. UNCHANGED <<map, loaded, wanted, toClient>>
    BY <1>5 DEF OnInput, clientVars
  <2> QED
    BY <2>1, ToldUnchanged
<1>6. CASE ClientReceives
  <2> DEFINE x == Head(toClient)
  <2>1. x = Head(toClient)
    OBVIOUS
  <2> HIDE DEF x
  <2>2. /\ seen' = x.map /\ Leads(toClient', x.map, map)
        /\ loaded' = NoMap \/ wanted' = NoMap
        /\ loaded' # NoMap \/ wanted' # NoMap
    BY <1>6, <2>1, Arrival
  <2>3. map' = map
    BY <1>6 DEF ClientReceives, serverVars
  <2>4. Leads(toClient', seen', map')
    BY <2>2, <2>3
  <2> QED
    BY <2>2, <2>4 DEF ToldInOrder
<1>7. CASE FinishMapDownload
  <2>1. /\ loaded' = wanted /\ wanted' = NoMap /\ wanted # NoMap
        /\ UNCHANGED <<map, toClient>>
    BY <1>7 DEF FinishMapDownload, serverVars
  <2>2. seen' = seen
    BY <2>1 DEF seen
  <2>3. Leads(toClient', seen', map')
    BY <2>1, <2>2 DEF ToldInOrder
  <2> QED
    BY <2>1, <2>3 DEF ToldInOrder
<1>8. ASSUME NEW p \in packets, ReceivePacket(p)
      PROVE  ToldInOrder'
  <2>1. UNCHANGED <<map, loaded, wanted, toClient>>
    BY <1>8 DEF ReceivePacket, serverVars
  <2> QED
    BY <2>1, ToldUnchanged
<1> QED
  BY <1>2, <1>3, <1>4, <1>5, <1>6, <1>7, <1>8 DEF Next

\* A packet that is under way after a step was so before, or is of the map that
\* is played now.
LEMMA PacketsAfter ==
  ASSUME Next, NEW p \in packets'
  PROVE  p \in packets \/ (DoSnapshot /\ p.map = map)
<1>1. CASE DoSnapshot
  <2> DEFINE now == tick + 1
             stored == AddSnapshot(PurgeUntil(sent, Greatest(now - Window, lastAcked)), now, map)
             base == IF lastAcked \in DOMAIN stored THEN lastAcked ELSE NoTick
  <2>1. PICK n \in 0 .. MaxParts :
          packets' \in Join(packets, SnapshotPackets(now, base, n), MaxPackets)
    BY <1>1 DEF DoSnapshot
  <2> HIDE DEF stored, base, now
  <2>2. p \in packets \/ p \in SnapshotPackets(now, base, n)
    BY <2>1, JoinIs
  <2> QED
    BY <1>1, <2>2 DEF SnapshotPackets
<1>2. CASE LoadMap \/ Tick \/ ServerReceives \/ (\E i \in inputs : OnInput(i))
             \/ FinishMapDownload \/ SendInput \/ SwitchSnapshot
  BY <1>2 DEF LoadMap, LoadNext, Tick, ServerReceives, OnInput, FinishMapDownload, SendInput,
              SwitchSnapshot
<1>3. CASE ClientReceives
  BY <1>3, FreshIs DEF ClientReceives
<1>4. ASSUME NEW r \in packets, ReceivePacket(r)
      PROVE  p \in packets
  BY <1>4, FreshIs DEF ReceivePacket
<1> QED
  BY <1>1, <1>2, <1>3, <1>4 DEF Next

\* A message that is under way after a step was so before, or is the new one.
LEMMA MessagesAfter ==
  ASSUME IInv, Next, NEW i \in 1 .. Len(toClient')
  PROVE  \/ \E j \in 1 .. Len(toClient) : toClient'[i] = toClient[j]
         \/ toClient'[i].kind = "MAP_CHANGE"
         \/ ServerReceives /\ toClient'[i].ack = got + 1
<1>0. toClient \in Seq(ToClients)
  BY DEF IInv, ConnOK
<1>1. ASSUME NEW x, toClient' = Append(toClient, x)
      PROVE  toClient'[i] = x \/ \E j \in 1 .. Len(toClient) : toClient'[i] = toClient[j]
  BY <1>0, <1>1
<1>2. CASE LoadMap
  <2> DEFINE x == ToClient("MAP_CHANGE", map + 1)
  <2>1. toClient' = Append(toClient, x)
    BY <1>2 DEF LoadMap, LoadNext
  <2>2. x.kind = "MAP_CHANGE"
    BY DEF ToClient
  <2> HIDE DEF x
  <2> QED
    BY <1>1, <2>1, <2>2
<1>3. CASE ServerReceives
  <2>1. CASE UNCHANGED toClient
    BY <2>1
  <2>2. ASSUME NEW x, toClient' = Append(toClient, x), x.ack = got + 1
        PROVE  toClient'[i].ack = got + 1 \/ \E j \in 1 .. Len(toClient) : toClient'[i] = toClient[j]
    BY <1>1, <2>2
  <2> QED
    BY <1>3, <2>1, <2>2, Answer
<1>4. CASE ClientReceives
  <2>1. toClient # <<>> /\ toClient' = Tail(toClient)
    BY <1>4 DEF ClientReceives
  <2>2. i + 1 \in 1 .. Len(toClient) /\ toClient'[i] = toClient[i + 1]
    BY <1>0, <2>1
  <2> QED
    BY <2>2
<1>5. CASE \/ Tick \/ DoSnapshot \/ (\E k \in inputs : OnInput(k)) \/ FinishMapDownload
           \/ SendInput \/ SwitchSnapshot \/ (\E p \in packets : ReceivePacket(p))
  <2>1. UNCHANGED toClient
    BY <1>5 DEF Tick, DoSnapshot, OnInput, FinishMapDownload, SendInput, SwitchSnapshot,
                ReceivePacket, connVars
  <2> QED
    BY <2>1
<1> QED
  BY <1>2, <1>3, <1>4, <1>5 DEF Next

LEMMA EntersLaterStep ==
  ASSUME IInv, MapInv, Next
  PROVE  EntersLater'
<1>0. /\ IInv' /\ ConnOK /\ ConnOK' /\ ToldInOrder /\ EntersLater
      /\ map \in Nat /\ got \in Nat
  BY ServerStep, ConnStep, ClientStep, SeenIsMap DEF IInv, ClientInv, MapInv, ConnOK
<1> SUFFICES ASSUME NEW i \in 1 .. Len(toClient'), NEW p \in packets',
                    toClient'[i].kind = "READYTOENTER", p.map < toClient'[i].map
             PROVE  p.ack < toClient'[i].ack
  BY DEF EntersLater
<1>1. CASE p \in packets
  <2>1. CASE \E j \in 1 .. Len(toClient) : toClient'[i] = toClient[j]
    BY <1>0, <1>1, <2>1 DEF EntersLater
  <2>2. CASE ServerReceives /\ toClient'[i].ack = got + 1
    <3>1. p.ack \in Nat /\ p.ack <= got
      BY <1>0, <1>1 DEF ConnOK, Packets
    <3> QED
      BY <1>0, <2>2, <3>1
  <2> QED
    BY <2>1, <2>2, MessagesAfter
<1>2. CASE DoSnapshot /\ p.map = map
  <2>1. toClient' = toClient /\ toClient \in Seq(ToClients)
    BY <1>0, <1>2 DEF DoSnapshot, connVars, ConnOK
  <2>2. toClient'[i].map <= map
    BY <1>0, <2>1 DEF ToldInOrder, Leads
  <2>3. toClient'[i].map \in Nat
    <3>1. toClient'[i] \in ToClients
      BY <2>1
    <3> QED
      BY <3>1 DEF ToClients
  <2> QED
    BY <1>0, <1>2, <2>2, <2>3
<1> QED
  BY <1>1, <1>2, PacketsAfter

LEMMA MapStep ==
  ASSUME ServerOK, Next
  PROVE  map \in Nat /\ map' \in Nat /\ map <= map' /\ (LoadMap \/ map' = map)
<1>1. map \in Nat
  BY DEF ServerOK
<1>2. CASE LoadMap
  BY <1>1, <1>2 DEF LoadMap, LoadNext
<1>3. CASE ~LoadMap
  <2>1. map' = map
    BY <1>3 DEF Next, Tick, DoSnapshot, ServerReceives, OnInput, ClientReceives,
                FinishMapDownload, SendInput, SwitchSnapshot, ReceivePacket, serverVars
  <2> QED
    BY <1>1, <2>1
<1> QED
  BY <1>2, <1>3

LEMMA NoneAheadStep ==
  ASSUME IInv, MapInv, Next
  PROVE  NoneAhead'
<1> SUFFICES ASSUME NEW p \in packets'
             PROVE  p.map <= map'
  BY DEF NoneAhead
<1>1. map \in Nat /\ map' \in Nat /\ map <= map'
  BY MapStep DEF IInv
<1>2. p.map \in Nat
  BY ConnStep DEF ConnOK, Packets
<1>3. p.map <= map
  BY PacketsAfter, <1>1 DEF MapInv, NoneAhead
<1> QED
  BY <1>1, <1>2, <1>3

\* A client that enters on the last map does so after all other snapshots.
LEMMA PureStep ==
  ASSUME IInv, MapInv, Next
  PROVE  Pure'
<1>0. ToldInOrder /\ EntersLater /\ NoneAhead /\ Pure /\ ConnOK /\ ServerOK
  BY DEF MapInv, IInv
<1>1. CASE LoadMap
  <2>1. seen \in Nat /\ map \in Nat /\ seen <= map
    BY <1>0, SeenIsMap
  <2>2. map' = map + 1 /\ UNCHANGED <<loaded, wanted>>
    BY <1>1 DEF LoadMap, LoadNext, clientVars
  <2>3. seen' # map'
    BY <2>1, <2>2 DEF seen
  <2> QED
    BY <2>3 DEF Pure
<1>2. CASE \/ Tick \/ DoSnapshot \/ ServerReceives \/ (\E i \in inputs : OnInput(i))
           \/ SendInput \/ SwitchSnapshot
  <2>1. UNCHANGED <<map, loaded, wanted, entered, snaps>>
    BY <1>2, Answer DEF Tick, DoSnapshot, OnInput, SendInput, SwitchSnapshot, serverVars,
                        clientVars, snapVars
  <2>2. seen' = seen
    BY <2>1 DEF seen
  <2> QED
    BY <1>0, <2>1, <2>2, PacketsAfter DEF Pure
<1>3. CASE ClientReceives
  <2> DEFINE x == Head(toClient)
  <2>0. x = Head(toClient)
    OBVIOUS
  <2> HIDE DEF x
  <2>1. /\ map' = map /\ x = toClient[1] /\ 1 \in 1 .. Len(toClient)
    BY <1>0, <1>3, <2>0 DEF ClientReceives, serverVars, ConnOK
  <2>2. /\ seen' = x.map /\ x \in ToClients
        /\ \A p \in packets' : p \in packets /\ p.ack >= x.ack
    BY <1>0, <1>3, <2>0, Arrival
  <2>3. CASE x.kind = "CON_READY"
    <3>1. UNCHANGED clientVars
      BY <1>0, <1>3, <2>0, <2>3, Arrival
    <3>2. UNCHANGED <<entered, snaps>> /\ seen' = seen
      BY <3>1 DEF clientVars, snapVars, seen
    <3> QED
      BY <1>0, <2>1, <2>2, <3>2 DEF Pure
  <2>4. CASE x.kind = "MAP_CHANGE"
    <3>1. entered' = FALSE
      BY <1>0, <1>3, <2>0, <2>4, Arrival
    <3> QED
      BY <3>1 DEF Pure
  <2>5. CASE x.kind = "READYTOENTER"
    <3>1. snaps' = NoSnapshots
      BY <1>0, <1>3, <2>0, <2>5, Arrival
    <3>2. ASSUME x.map = map, NEW p \in packets'
          PROVE  p.map = map
      <4>1. p \in packets /\ p.ack >= x.ack
        BY <2>2
      <4>2. p.map \in Nat /\ p.ack \in Nat /\ x.ack \in Nat /\ map \in Nat /\ p.map <= map
        <5>1. p.map \in Nat /\ p.ack \in Nat
          <6>1. p \in Packets
            BY <1>0, <4>1 DEF ConnOK
          <6> QED
            BY <6>1 DEF Packets
        <5>2. x.ack \in Nat /\ map \in Nat
          BY <1>0, <2>2 DEF ToClients, ServerOK
        <5>3. p.map <= map
          BY <1>0, <4>1 DEF NoneAhead
        <5> QED
          BY <5>1, <5>2, <5>3
      <4>3. p.map < x.map => p.ack < x.ack
        BY <1>0, <2>1, <2>5, <4>1 DEF EntersLater
      <4> QED
        BY <3>2, <4>1, <4>2, <4>3
    <3> QED
      BY <2>1, <2>2, <3>1, <3>2, NoSnapshotsIs DEF Pure
  <2> QED
    BY <2>2, <2>3, <2>4, <2>5 DEF ToClients
<1>4. CASE FinishMapDownload
  <2>1. /\ wanted # NoMap /\ loaded' = wanted /\ wanted' = NoMap /\ snaps' = NoSnapshots
        /\ UNCHANGED <<map, entered, packets>>
    BY <1>4 DEF FinishMapDownload, ForgetSnapshots, serverVars
  <2>2. seen' = seen
    BY <2>1 DEF seen
  <2> QED
    BY <1>0, <2>1, <2>2, NoSnapshotsIs DEF Pure
<1>5. ASSUME NEW p \in packets, ReceivePacket(p)
      PROVE  Pure'
  <2>1. OnSnap(p) /\ packets' \subseteq packets /\ UNCHANGED <<map, loaded, wanted, entered>>
    BY <1>5, FreshIs DEF ReceivePacket, serverVars
  <2>2. seen' = seen
    BY <2>1 DEF seen
  <2>3. \A t \in DOMAIN snaps' : snaps'[t] = p.map \/ \E u \in DOMAIN snaps : snaps'[t] = snaps[u]
    BY <2>1, SnapStores
  <2> QED
    BY <1>0, <2>1, <2>2, <2>3 DEF Pure
<1> QED
  BY <1>1, <1>2, <1>3, <1>4, <1>5 DEF Next

LEMMA MapInvUnchanged ==
  ASSUME MapInv, UNCHANGED vars
  PROVE  MapInv'
BY DEF MapInv, ToldInOrder, EntersLater, NoneAhead, Pure, Leads, MapBefore, seen,
       vars, serverVars, clientVars, snapVars, connVars

\* The order of the messages and the acknowledgement of each packet keep the
\* snapshots of the maps apart.
THEOREM MapInvariance == Spec => []MapInv
<1>1. Init => MapInv
  BY InitMapInvariant
<1>2. IInv /\ MapInv /\ [Next]_vars => MapInv'
  <2> SUFFICES ASSUME IInv, MapInv, [Next]_vars PROVE MapInv'
    OBVIOUS
  <2>1. CASE Next
    BY <2>1, ToldStep, EntersLaterStep, NoneAheadStep, PureStep DEF MapInv
  <2>2. CASE UNCHANGED vars
    BY <2>2, MapInvUnchanged
  <2> QED
    BY <2>1, <2>2
<1> QED
  BY <1>1, <1>2, Invariance, PTL DEF Spec

\* Once the client has entered the map that is played, it holds no snapshot of another
\* map, however many map changes overlap and however late a packet is (Feed drops those
\* that acknowledge too little).  Of the time between NETMSG_MAP_CHANGE and READYTOENTER
\* nothing is claimed: late snapshots of the old map that need no base are taken there.
THEOREM ShownThisMap == Spec => []OnlyThisMap
<1>1. IInv /\ MapInv => OnlyThisMap
  <2> SUFFICES ASSUME IInv, MapInv, entered, loaded = map
               PROVE  \A t \in DOMAIN snaps : snaps[t] = map
    BY DEF OnlyThisMap
  <2>1. loaded # NoMap
    BY DEF IInv, ServerOK, NoMap
  <2>2. seen = map
    BY <2>1 DEF MapInv, ToldInOrder, seen
  <2> QED
    BY <2>2 DEF MapInv, Pure
<1> QED
  BY <1>1, Invariance, MapInvariance, PTL

-----------------------------------------------------------------------------
(* What both sides answer.                                                 *)

LEMMA Lengths ==
  ASSUME IInv
  PROVE  /\ Len(toServer) \in Nat /\ Len(toClient) \in Nat /\ overlap \in Nat
         /\ toServer = <<>> <=> Len(toServer) = 0
         /\ toClient = <<>> <=> Len(toClient) = 0
<1>1. toServer \in Seq(ToServers) /\ toClient \in Seq(ToClients) /\ overlap \in Nat
  BY DEF IInv, ConnOK, ServerOK
<1> QED
  BY <1>1

LEMMA Appended ==
  ASSUME NEW T, NEW q \in Seq(T), NEW x
  PROVE  /\ Len(Append(q, x)) = Len(q) + 1 /\ Append(q, x)[Len(q) + 1] = x
         /\ \A i \in 1 .. Len(q) : Append(q, x)[i] = q[i]
OBVIOUS

LEMMA TailOf ==
  ASSUME NEW T, NEW q \in Seq(T), q # <<>>
  PROVE  /\ Len(q) >= 1 /\ Head(q) = q[1] /\ Len(Tail(q)) = Len(q) - 1
         /\ \A i \in 1 .. Len(q) - 1 : Tail(q)[i] = q[i + 1]
OBVIOUS

\* What the client answers to a vital message.
LEMMA ClientAnswers ==
  ASSUME IInv, ClientReceives, NEW x, x = Head(toClient), loaded # NoMap \/ wanted # NoMap,
         loaded = NoMap \/ wanted = NoMap
  PROVE  /\ UNCHANGED <<state, isReady, map, overlap>>
         /\ \/ /\ x.kind = "MAP_CHANGE"
               /\ \/ wanted' # NoMap /\ toServer' = toServer
                  \/ wanted' = NoMap /\ \E r : r.kind = "READY" /\ toServer' = Append(toServer, r)
            \/ /\ x.kind = "CON_READY" /\ wanted' = wanted
               /\ \/ wanted # NoMap /\ toServer' = toServer
                  \/ wanted = NoMap /\ \E r : r.kind = "STARTINFO" /\ toServer' = Append(toServer, r)
            \/ /\ x.kind = "READYTOENTER" /\ wanted' = wanted /\ entered'
               /\ \E r : r.kind = "ENTERGAME" /\ toServer' = Append(toServer, r)
<1> DEFINE Message(kind) == [ToServer(kind) EXCEPT !.ack = given + 1]
<1>1. \A kind \in {"READY", "STARTINFO", "ENTERGAME"} : Message(kind).kind = kind
  BY DEF ToServer
<1>2. UNCHANGED <<state, isReady, map, overlap>>
  BY DEF ClientReceives, serverVars
<1>3. x \in ToClients
  BY DEF IInv, ConnOK, ClientReceives
<1>4. x.kind \in {"MAP_CHANGE", "CON_READY", "READYTOENTER"} /\ x.map # NoMap
  BY <1>3 DEF ToClients, NoMap
<1>5. CASE x.kind = "MAP_CHANGE"
  <2>1. OnMapChange(x.map)
    BY <1>5 DEF ClientReceives
  <2>2. \/ wanted' = x.map /\ toServer' = toServer
        \/ wanted' = NoMap /\ toServer' = Append(toServer, Message("READY"))
    BY <2>1 DEF OnMapChange
  <2> HIDE DEF Message
  <2> QED
    BY <1>1, <1>2, <1>4, <1>5, <2>2
<1>6. CASE x.kind = "CON_READY"
  <2>1. OnConReady
    BY <1>6 DEF ClientReceives
  <2>2. /\ wanted' = wanted
        /\ \/ wanted # NoMap /\ toServer' = toServer
           \/ wanted = NoMap /\ toServer' = Append(toServer, Message("STARTINFO"))
    BY <2>1 DEF OnConReady, clientVars
  <2> HIDE DEF Message
  <2> QED
    BY <1>1, <1>2, <1>6, <2>2
<1>7. CASE x.kind = "READYTOENTER"
  <2>1. OnReadyToEnter
    BY <1>7 DEF ClientReceives
  <2>2. wanted' = wanted /\ entered' = TRUE /\ toServer' = Append(toServer, Message("ENTERGAME"))
    BY <2>1 DEF OnReadyToEnter
  <2> HIDE DEF Message
  <2> QED
    BY <1>1, <1>2, <1>7, <2>2
<1> QED
  BY <1>4, <1>5, <1>6, <1>7

\* The same, in lengths.
LEMMA ClientAnswerLengths ==
  ASSUME IInv, ToldInOrder, ClientReceives, NEW x, x = Head(toClient)
  PROVE  /\ UNCHANGED <<state, isReady, map, overlap>>
         /\ x = toClient[1] /\ Len(toClient) >= 1
         /\ Len(toClient') = Len(toClient) - 1
         /\ \A i \in 1 .. Len(toClient) - 1 : toClient'[i] = toClient[i + 1]
         /\ \A i \in 1 .. Len(toServer) : toServer'[i] = toServer[i]
         /\ \/ /\ x.kind = "MAP_CHANGE"
               /\ \/ wanted' # NoMap /\ Len(toServer') = Len(toServer)
                  \/ /\ wanted' = NoMap /\ Len(toServer') = Len(toServer) + 1
                     /\ toServer'[Len(toServer) + 1].kind = "READY"
            \/ /\ x.kind = "CON_READY" /\ wanted' = wanted
               /\ \/ wanted # NoMap /\ Len(toServer') = Len(toServer)
                  \/ /\ wanted = NoMap /\ Len(toServer') = Len(toServer) + 1
                     /\ toServer'[Len(toServer) + 1].kind = "STARTINFO"
            \/ /\ x.kind = "READYTOENTER" /\ wanted' = wanted /\ entered'
               /\ Len(toServer') = Len(toServer) + 1
               /\ toServer'[Len(toServer) + 1].kind = "ENTERGAME"
<1>0. toClient \in Seq(ToClients) /\ toServer \in Seq(ToServers)
  BY DEF IInv, ConnOK
<1>1. toClient # <<>> /\ toClient' = Tail(toClient)
  BY DEF ClientReceives
<1>2. /\ x = toClient[1] /\ Len(toClient) >= 1
      /\ Len(toClient') = Len(toClient) - 1
      /\ \A i \in 1 .. Len(toClient) - 1 : toClient'[i] = toClient[i + 1]
  BY <1>0, <1>1, TailOf
<1>3. ASSUME NEW r, toServer' = Append(toServer, r)
      PROVE  /\ Len(toServer') = Len(toServer) + 1 /\ toServer'[Len(toServer) + 1] = r
             /\ \A i \in 1 .. Len(toServer) : toServer'[i] = toServer[i]
  BY <1>0, <1>3, Appended
<1>4. loaded # NoMap \/ wanted # NoMap
  BY DEF ToldInOrder
<1>5. loaded = NoMap \/ wanted = NoMap
  BY DEF ToldInOrder
<1> QED
  BY <1>2, <1>3, <1>4, <1>5, ClientAnswers

\* What the server answers to a vital message, in lengths.
LEMMA ServerAnswerLengths ==
  ASSUME IInv, ServerReceives, NEW y, y = Head(toServer)
  PROVE  /\ UNCHANGED <<loaded, wanted, entered, map, overlap>>
         /\ y = toServer[1] /\ Len(toServer) >= 1
         /\ Len(toServer') = Len(toServer) - 1
         /\ \A i \in 1 .. Len(toServer) - 1 : toServer'[i] = toServer[i + 1]
         /\ \/ /\ y.kind = "READY" /\ state = "connecting"
               /\ state' = "ready" /\ isReady' = isReady
               /\ Len(toClient') = Len(toClient) + 1
               /\ toClient'[Len(toClient) + 1].kind = "CON_READY"
               /\ \A i \in 1 .. Len(toClient) : toClient'[i] = toClient[i]
            \/ /\ y.kind = "STARTINFO" /\ state \in {"ready", "ingame"} /\ ~isReady
               /\ state' = state /\ isReady'
               /\ Len(toClient') = Len(toClient) + 1
               /\ toClient'[Len(toClient) + 1].kind = "READYTOENTER"
            \/ /\ y.kind = "ENTERGAME" /\ state = "ready" /\ isReady
               /\ state' = "ingame" /\ isReady' = isReady /\ toClient' = toClient
            \/ /\ y.kind = "READY" => state # "connecting"
               /\ y.kind = "STARTINFO" => state \notin {"ready", "ingame"} \/ isReady
               /\ y.kind = "ENTERGAME" => ~(state = "ready" /\ isReady)
               /\ state' = state /\ isReady' = isReady /\ toClient' = toClient
<1>0. toClient \in Seq(ToClients) /\ toServer \in Seq(ToServers)
  BY DEF IInv, ConnOK
<1>1. toServer # <<>> /\ toServer' = Tail(toServer) /\ UNCHANGED <<loaded, wanted, entered, map, overlap>>
  BY DEF ServerReceives, clientVars
<1>2. /\ y = toServer[1] /\ Len(toServer) >= 1
      /\ Len(toServer') = Len(toServer) - 1
      /\ \A i \in 1 .. Len(toServer) - 1 : toServer'[i] = toServer[i + 1]
  BY <1>0, <1>1, TailOf
<1>3. ASSUME NEW r, toClient' = Append(toClient, r)
      PROVE  /\ Len(toClient') = Len(toClient) + 1 /\ toClient'[Len(toClient) + 1] = r
             /\ \A i \in 1 .. Len(toClient) : toClient'[i] = toClient[i]
  BY <1>0, <1>3, Appended
<1> DEFINE Message(kind) == [ToClient(kind, map) EXCEPT !.ack = got + 1]
<1>4. \A kind \in {"CON_READY", "READYTOENTER"} : Message(kind).kind = kind
  BY DEF ToClient
<1>5. y.kind \in {"READY", "STARTINFO", "ENTERGAME"}
  <2>1. y \in ToServers
    BY <1>0, <1>1
  <2> QED
    BY <2>1 DEF ToServers
<1>6. CASE y.kind = "READY"
  <2>1. OnReady
    BY <1>6 DEF ServerReceives
  <2>2. \/ /\ state = "connecting" /\ state' = "ready" /\ isReady' = isReady
           /\ toClient' = Append(toClient, Message("CON_READY"))
        \/ state # "connecting" /\ UNCHANGED <<state, toClient, isReady>>
    BY <2>1 DEF OnReady
  <2> HIDE DEF Message
  <2> QED
    BY <1>1, <1>2, <1>3, <1>4, <1>6, <2>2
<1>7. CASE y.kind = "STARTINFO"
  <2>1. OnStartInfo
    BY <1>7 DEF ServerReceives
  <2>2. \/ /\ state \in {"ready", "ingame"} /\ ~isReady /\ state' = state /\ isReady' = TRUE
           /\ toClient' = Append(toClient, Message("READYTOENTER"))
        \/ /\ state \notin {"ready", "ingame"} \/ isReady
           /\ UNCHANGED <<state, toClient, isReady>>
    BY <2>1 DEF OnStartInfo
  <2> HIDE DEF Message
  <2> QED
    BY <1>1, <1>2, <1>3, <1>4, <1>7, <2>2
<1>8. CASE y.kind = "ENTERGAME"
  <2>1. OnEnterGame
    BY <1>8 DEF ServerReceives
  <2> QED
    BY <1>1, <1>2, <1>8, <2>1 DEF OnEnterGame
<1> QED
  BY <1>5, <1>6, <1>7, <1>8

-----------------------------------------------------------------------------
(* What a delta is unpacked with.                                          *)

\* All that is under way, stored or put together is of map k.
ShowsOnly(k) ==
  /\ \A p \in packets : p.map = k
  /\ \A t \in DOMAIN snaps : snaps[t] = k
  /\ \A i \in DOMAIN parts : parts[i] = <<k, recvTick>>

\* Nothing is under way, stored or put together.
ShowsNothing == packets = {} /\ DOMAIN snaps = {} /\ DOMAIN parts = {}

\* The client has been asked to enter, or its answer to that is under way.
AskedToEnter == \E i \in 1 .. Len(toClient) : toClient[i].kind = "READYTOENTER"
EnterGameSent == \E i \in 1 .. Len(toServer) : toServer[i].kind = "ENTERGAME"

\* While it plays the client is only sent the map that is played.  Until it plays
\* on the next one, all that is there is of one map before, it enters later than
\* that, and when it has entered nothing of it is left.
Unmixed ==
  IF state = "ingame" THEN ShowsOnly(map)
  ELSE /\ \E k \in Nat : /\ k < map /\ ShowsOnly(k)
                         /\ \A i \in 1 .. Len(toClient) :
                              toClient[i].kind = "READYTOENTER" => k < toClient[i].map
       /\ EnterGameSent => ShowsNothing

\* No map change begins while the client plays, but has not answered all that it
\* was asked before it came to play.
SettledFirst == LoadMap => state # "ingame" \/ (~AskedToEnter /\ ~EnterGameSent)

\* All parts that are put together are of one snapshot.
LEMMA SourceIs ==
  ASSUME NEW p, NEW k, p.map = k, \A i \in DOMAIN parts : parts[i] = <<k, recvTick>>
  PROVE  \A i \in DOMAIN Source(p) : Source(p)[i] = <<k, p.tick>>
<1> DEFINE old == BeginSnapshot(p)
<1>1. \A i \in DOMAIN old : old[i] = <<k, p.tick>>
  BY NoSnapshotsIs DEF BeginSnapshot
<1> HIDE DEF old
<1> QED
  BY <1>1 DEF Source, AddSnapshot, old

\* What the parts of a snapshot become when one more arrives.
LEMMA PartsAfter ==
  ASSUME NEW p, OnSnap(p), NEW k, p.map = k, \A i \in DOMAIN parts : parts[i] = <<k, recvTick>>
  PROVE  \A i \in DOMAIN parts' : parts'[i] = <<k, recvTick'>>
<1>1. CASE loaded # NoMap /\ Takes(p)
  <2>1. recvTick' = p.tick /\ TakePart(p)
    BY <1>1 DEF OnSnap
  <2>2. parts' = Source(p) \/ parts' = NoSnapshots
    BY <2>1 DEF TakePart, Complete
  <2>3. \A i \in DOMAIN Source(p) : Source(p)[i] = <<k, p.tick>>
    BY SourceIs
  <2> QED
    BY <2>1, <2>2, <2>3, NoSnapshotsIs
<1>2. CASE ~(loaded # NoMap /\ Takes(p))
  BY <1>2 DEF OnSnap, snapVars
<1> QED
  BY <1>1, <1>2

\* When nothing of another map is there, what is unpacked is what was sent.
LEMMA UnpackedRight ==
  ASSUME NEW k, ShowsOnly(k)
  PROVE  SameBase
<1> SUFFICES ASSUME NEW p \in packets, AllParts(p), HasBase(p)
             PROVE  Right(p)
  BY DEF SameBase
<1>1. p.map = k
  BY DEF ShowsOnly
<1>2. \A i \in DOMAIN Source(p) : Source(p)[i] = <<k, p.tick>>
  BY <1>1, SourceIs DEF ShowsOnly
<1>3. p.base # NoTick => snaps[p.base] = p.map
  BY <1>1 DEF ShowsOnly, HasBase
<1> QED
  BY <1>1, <1>2, <1>3 DEF Right, AllParts

LEMMA ShowsOnlyStep ==
  ASSUME IInv, ToldInOrder, NEW k, ShowsOnly(k), Next, DoSnapshot => k = map
  PROVE  ShowsOnly(k)'
<1>1. CASE DoSnapshot
  <2>1. UNCHANGED <<snaps, parts, recvTick>>
    BY <1>1 DEF DoSnapshot, clientVars, snapVars
  <2> QED
    BY <1>1, <2>1, PacketsAfter DEF ShowsOnly
<1>2. CASE \/ LoadMap \/ Tick \/ ServerReceives \/ (\E i \in inputs : OnInput(i))
           \/ SendInput \/ SwitchSnapshot
  <2>1. UNCHANGED <<snaps, parts, recvTick, packets>>
    BY <1>2 DEF LoadMap, LoadNext, Tick, ServerReceives, OnInput, SendInput, SwitchSnapshot,
                clientVars, snapVars
  <2> QED
    BY <2>1 DEF ShowsOnly
<1>3. CASE ClientReceives
  <2> DEFINE x == Head(toClient)
  <2>1. x = Head(toClient)
    OBVIOUS
  <2> HIDE DEF x
  <2>2. \/ snaps' = NoSnapshots /\ parts' = NoSnapshots
        \/ UNCHANGED <<snaps, parts, recvTick>>
    BY <1>3, <2>1, Arrival DEF clientVars, snapVars
  <2>3. \A p \in packets' : p \in packets
    BY <1>3, <2>1, Arrival
  <2> QED
    BY <2>2, <2>3, NoSnapshotsIs DEF ShowsOnly
<1>4. CASE FinishMapDownload
  BY <1>4, NoSnapshotsIs DEF FinishMapDownload, ForgetSnapshots, ShowsOnly
<1>5. ASSUME NEW p \in packets, ReceivePacket(p)
      PROVE  ShowsOnly(k)'
  <2>1. OnSnap(p) /\ packets' \subseteq packets
    BY <1>5, FreshIs DEF ReceivePacket
  <2>2. p.map = k
    BY DEF ShowsOnly
  <2>3. \A t \in DOMAIN snaps' : snaps'[t] = k
    BY <2>1, <2>2, SnapStores DEF ShowsOnly
  <2>4. \A i \in DOMAIN parts' : parts'[i] = <<k, recvTick'>>
    BY <2>1, <2>2, PartsAfter DEF ShowsOnly
  <2> QED
    BY <2>1, <2>3, <2>4 DEF ShowsOnly
<1> QED
  BY <1>1, <1>2, <1>3, <1>4, <1>5 DEF Next

LEMMA ShowsNothingStep ==
  ASSUME IInv, ToldInOrder, ShowsNothing, Next, ~DoSnapshot
  PROVE  ShowsNothing'
<1>1. packets' = {}
  BY PacketsAfter DEF ShowsNothing
<1>2. CASE \/ LoadMap \/ Tick \/ ServerReceives \/ (\E i \in inputs : OnInput(i))
           \/ SendInput \/ SwitchSnapshot
  <2>1. UNCHANGED <<snaps, parts>>
    BY <1>2 DEF LoadMap, LoadNext, Tick, ServerReceives, OnInput, SendInput, SwitchSnapshot,
                clientVars, snapVars
  <2> QED
    BY <1>1, <2>1 DEF ShowsNothing
<1>3. CASE ClientReceives
  <2> DEFINE x == Head(toClient)
  <2>1. x = Head(toClient)
    OBVIOUS
  <2> HIDE DEF x
  <2>2. \/ snaps' = NoSnapshots /\ parts' = NoSnapshots
        \/ UNCHANGED <<snaps, parts>>
    BY <1>3, <2>1, Arrival DEF clientVars, snapVars
  <2> QED
    BY <1>1, <2>2, NoSnapshotsIs DEF ShowsNothing
<1>4. CASE FinishMapDownload
  BY <1>1, <1>4, NoSnapshotsIs DEF FinishMapDownload, ForgetSnapshots, ShowsNothing
<1> QED
  BY <1>2, <1>3, <1>4 DEF Next, ShowsNothing

\* An ENTERGAME that is under way was so before, or answers a message that all
\* the packets of the maps before cannot follow.
LEMMA EnterGameAfter ==
  ASSUME IInv, ToldInOrder, EntersLater, NEW k \in Nat, ShowsOnly(k), Next, EnterGameSent',
         \A i \in 1 .. Len(toClient) : toClient[i].kind = "READYTOENTER" => k < toClient[i].map
  PROVE  EnterGameSent \/ ShowsNothing'
<1>0. toServer \in Seq(ToServers) /\ toClient \in Seq(ToClients) /\ ConnOK
  BY DEF IInv, ConnOK
<1>1. PICK i \in 1 .. Len(toServer') : toServer'[i].kind = "ENTERGAME"
  BY DEF EnterGameSent
<1>2. CASE \/ LoadMap \/ Tick \/ DoSnapshot \/ (\E j \in inputs : OnInput(j))
           \/ SendInput \/ SwitchSnapshot \/ (\E p \in packets : ReceivePacket(p))
  <2>1. UNCHANGED toServer
    BY <1>2 DEF LoadMap, LoadNext, Tick, DoSnapshot, OnInput, SendInput, SwitchSnapshot,
                ReceivePacket, connVars
  <2> QED
    BY <1>1, <2>1 DEF EnterGameSent
<1>3. CASE ServerReceives
  <2>1. toServer # <<>> /\ toServer' = Tail(toServer)
    BY <1>3 DEF ServerReceives
  <2>2. i + 1 \in 1 .. Len(toServer) /\ toServer'[i] = toServer[i + 1]
    BY <1>0, <2>1
  <2> QED
    BY <1>1, <2>2 DEF EnterGameSent
<1>4. CASE FinishMapDownload
  <2> DEFINE r == ToServer("READY")
  <2>1. toServer' = Append(toServer, r)
    BY <1>4 DEF FinishMapDownload
  <2>2. r.kind # "ENTERGAME"
    BY DEF ToServer
  <2> HIDE DEF r
  <2>3. i \in 1 .. Len(toServer) /\ toServer'[i] = toServer[i]
    BY <1>0, <1>1, <2>1, <2>2
  <2> QED
    BY <1>1, <2>3 DEF EnterGameSent
<1>5. CASE ClientReceives
  <2> DEFINE x == Head(toClient)
  <2>1. x = Head(toClient)
    OBVIOUS
  <2> HIDE DEF x
  <2>2. x = toClient[1] /\ 1 \in 1 .. Len(toClient)
    BY <1>0, <1>5, <2>1 DEF ClientReceives
  <2>3. CASE x.kind = "READYTOENTER"
    <3>1. snaps' = NoSnapshots /\ parts' = NoSnapshots
      BY <1>5, <2>1, <2>3, Arrival
    <3>2. ASSUME NEW p \in packets'
          PROVE  FALSE
      <4>1. p \in packets /\ p.ack >= x.ack /\ x \in ToClients
        BY <1>5, <2>1, Arrival
      <4>2. p.map = k /\ p.ack \in Nat /\ x.ack \in Nat
        BY <1>0, <4>1 DEF ConnOK, Packets, ToClients, ShowsOnly
      <4>3. p.ack < x.ack
        BY <2>2, <2>3, <4>1, <4>2 DEF EntersLater
      <4> QED
        BY <4>1, <4>2, <4>3
    <3> QED
      BY <3>1, <3>2, NoSnapshotsIs DEF ShowsNothing
  <2>4. CASE x.kind # "READYTOENTER"
    <3>1. \/ toServer' = toServer
          \/ \E r : r.kind # "ENTERGAME" /\ toServer' = Append(toServer, r)
      BY <1>5, <2>1, <2>4, ClientAnswers DEF ToldInOrder
    <3>2. i \in 1 .. Len(toServer) /\ toServer'[i] = toServer[i]
      BY <1>0, <1>1, <3>1
    <3> QED
      BY <1>1, <3>2 DEF EnterGameSent
  <2> QED
    BY <2>3, <2>4
<1> QED
  BY <1>2, <1>3, <1>4, <1>5 DEF Next

\* The client comes to play only by an ENTERGAME.
LEMMA StateStep ==
  ASSUME IInv, Next, state' = "ingame"
  PROVE  map' = map /\ (state = "ingame" \/ EnterGameSent)
<1>1. CASE LoadMap
  BY <1>1 DEF LoadMap, LoadNext
<1>2. CASE ServerReceives
  <2> DEFINE y == Head(toServer)
  <2>1. y = Head(toServer)
    OBVIOUS
  <2> HIDE DEF y
  <2>2. y = toServer[1] /\ 1 \in 1 .. Len(toServer)
    BY <1>2, <2>1, Lengths, ServerAnswerLengths
  <2>3. map' = map /\ (state = "ingame" \/ y.kind = "ENTERGAME")
    BY <1>2, <2>1, ServerAnswerLengths
  <2> QED
    BY <2>2, <2>3 DEF EnterGameSent
<1>3. CASE \/ Tick \/ DoSnapshot \/ (\E i \in inputs : OnInput(i)) \/ ClientReceives
           \/ FinishMapDownload \/ SendInput \/ SwitchSnapshot
           \/ (\E p \in packets : ReceivePacket(p))
  BY <1>3 DEF Tick, DoSnapshot, OnInput, ClientReceives, FinishMapDownload, SendInput,
              SwitchSnapshot, ReceivePacket, serverVars
<1> QED
  BY <1>1, <1>2, <1>3 DEF Next

\* What the server asks the client to enter is the map that is played.
LEMMA AskedAfter ==
  ASSUME IInv, Next, NEW i \in 1 .. Len(toClient'), toClient'[i].kind = "READYTOENTER"
  PROVE  \/ \E j \in 1 .. Len(toClient) : toClient'[i] = toClient[j]
         \/ toClient'[i].map = map
<1>1. CASE ServerReceives
  <2>1. toClient \in Seq(ToClients)
    BY DEF IInv, ConnOK
  <2>2. \/ UNCHANGED toClient
        \/ \E x : toClient' = Append(toClient, x) /\ x.map = map
    BY <1>1, Answer
  <2> QED
    BY <2>1, <2>2
<1>2. CASE ~ServerReceives
  BY <1>2, MessagesAfter
<1> QED
  BY <1>1, <1>2

LEMMA UnmixedStep ==
  ASSUME IInv, MapInv, Unmixed, SettledFirst, Next
  PROVE  Unmixed'
<1>0. ToldInOrder /\ EntersLater /\ map \in Nat /\ map' \in Nat /\ map <= map'
  BY MapStep DEF MapInv, IInv
<1>1. ASSUME state' = "ingame"
      PROVE  ShowsOnly(map)'
  <2>1. map' = map /\ (state = "ingame" \/ EnterGameSent)
    BY <1>1, StateStep
  <2>2. ShowsOnly(map)
    BY <2>1 DEF Unmixed, ShowsNothing, ShowsOnly
  <2> DEFINE k == map
  <2>3. ShowsOnly(k) /\ (DoSnapshot => k = map)
    BY <2>2
  <2>4. k' = k
    BY <2>1
  <2> HIDE DEF k
  <2>5. ShowsOnly(k)'
    BY <1>0, <2>3, <2>4, ShowsOnlyStep DEF ShowsOnly
  <2> QED
    BY <2>5 DEF k
<1>2. ASSUME state' # "ingame"
      PROVE  /\ \E k \in Nat : /\ k < map' /\ ShowsOnly(k)'
                              /\ \A i \in 1 .. Len(toClient') :
                                   toClient'[i].kind = "READYTOENTER" => k < toClient'[i].map
             /\ EnterGameSent' => ShowsNothing'
  <2>1. ~DoSnapshot
    BY <1>2 DEF DoSnapshot, Due
  <2>2. CASE state = "ingame"
    <3>1. LoadMap /\ map' = map + 1 /\ UNCHANGED toServer
      <4>1. LoadMap
        BY <1>2, <2>1, <2>2, ServerAnswerLengths
           DEF Next, Tick, OnInput, ClientReceives, FinishMapDownload, SendInput,
               SwitchSnapshot, ReceivePacket, serverVars
      <4> QED
        BY <4>1 DEF LoadMap, LoadNext
    <3>2. ~AskedToEnter /\ ~EnterGameSent
      BY <2>2, <3>1 DEF SettledFirst
    <3>3. ShowsOnly(map)
      BY <2>2 DEF Unmixed
    <3>4. \A i \in 1 .. Len(toClient') :
            toClient'[i].kind = "READYTOENTER" => map < toClient'[i].map
      <4>1. ServerReceives => map' = map
        BY DEF ServerReceives
      <4>2. ~ServerReceives
        BY <1>0, <3>1, <4>1
      <4> QED
        BY <3>2, <4>2, MessagesAfter DEF AskedToEnter
    <3>5. ~EnterGameSent'
      BY <3>1, <3>2 DEF EnterGameSent
    <3>6. PICK k \in Nat : k = map
      BY <1>0
    <3>7. ShowsOnly(k)'
      BY <1>0, <2>1, <3>3, <3>6, ShowsOnlyStep
    <3> QED
      BY <1>0, <3>1, <3>4, <3>5, <3>6, <3>7
  <2>3. CASE state # "ingame"
    <3>1. PICK k \in Nat : /\ k < map /\ ShowsOnly(k)
                           /\ \A i \in 1 .. Len(toClient) :
                                toClient[i].kind = "READYTOENTER" => k < toClient[i].map
      BY <2>3 DEF Unmixed
    <3>2. k < map' /\ ShowsOnly(k)'
      BY <1>0, <2>1, <3>1, ShowsOnlyStep
    <3>3. \A i \in 1 .. Len(toClient') :
            toClient'[i].kind = "READYTOENTER" => k < toClient'[i].map
      BY <3>1, AskedAfter
    <3>4. ASSUME EnterGameSent' PROVE ShowsNothing'
      <4>1. EnterGameSent \/ ShowsNothing'
        BY <1>0, <3>1, <3>4, EnterGameAfter
      <4>2. CASE EnterGameSent
        BY <1>0, <2>1, <2>3, <4>2, ShowsNothingStep DEF Unmixed
      <4> QED
        BY <4>1, <4>2
    <3> QED
      BY <3>2, <3>3, <3>4
  <2> QED
    BY <2>2, <2>3
<1> QED
  BY <1>1, <1>2 DEF Unmixed

-----------------------------------------------------------------------------
(* Two map changes that overlap.                                           *)

\* A client that the server takes to play has entered the map that is played.
InStep == state = "ingame" => entered /\ seen = map

\* No third map change begins before the client has answered the first two.
TwoAtMost == overlap <= 2

\* What has not been answered yet: messages under way, and a map that is
\* downloaded.
Tokens == Len(toServer) + Len(toClient) + (IF wanted = NoMap THEN 0 ELSE 1)

\* In the game there is nothing to be answered.
PlaysQuietly == state = "ingame" => Tokens = 0 /\ InStep

\* There is at most one token for each map change.
TokenEach == state # "ingame" => Tokens <= overlap

\* While the server waits for READY, the answer to the last map change is the last
\* to come.
ReadyComesLast ==
  state = "connecting" =>
    /\ ~isReady
    /\ Tokens = 2 =>
         /\ toClient # <<>> => toClient[Len(toClient)].kind = "MAP_CHANGE"
         /\ toClient = <<>> /\ wanted = NoMap => toServer[Len(toServer)].kind = "READY"

\* While it waits for STARTINFO, this is the last to come.
StartInfoComesLast ==
  state = "ready" /\ ~isReady =>
    /\ \A i \in 1 .. Len(toServer) :
         /\ toServer[i].kind # "ENTERGAME"
         /\ toServer[i].kind = "STARTINFO" => i = Tokens
    /\ \A i \in 1 .. Len(toClient) :
         /\ toClient[i].kind # "READYTOENTER"
         /\ toClient[i].kind = "CON_READY" => i = Len(toClient)

\* While it waits for ENTERGAME, nothing else comes.
OnlyEnterGameComes ==
  state = "ready" /\ isReady =>
    /\ Tokens = 1
    /\ \/ Len(toClient) = 1 /\ toClient[1].kind = "READYTOENTER"
       \/ Len(toServer) = 1 /\ toServer[1].kind = "ENTERGAME" /\ entered /\ seen = map

Handshake ==
  PlaysQuietly /\ TokenEach /\ ReadyComesLast /\ StartInfoComesLast /\ OnlyEnterGameComes

LEMMA InitHandshake ==
  ASSUME Init
  PROVE  Handshake
BY DEF Init, Handshake, PlaysQuietly, TokenEach, ReadyComesLast, StartInfoComesLast,
       OnlyEnterGameComes, InStep, Tokens, seen, NoMap

LEMMA HandshakeUnchanged ==
  ASSUME Handshake,
         UNCHANGED <<state, isReady, toServer, toClient, loaded, wanted, entered, map, overlap>>
  PROVE  Handshake'
BY DEF Handshake, PlaysQuietly, TokenEach, ReadyComesLast, StartInfoComesLast,
       OnlyEnterGameComes, InStep, Tokens, seen

LEMMA HandshakeLoadMap ==
  ASSUME IInv, Handshake, LoadMap, overlap' <= 2
  PROVE  Handshake'
<1> DEFINE x == ToClient("MAP_CHANGE", map + 1)
<1>0. /\ Len(toServer) \in Nat /\ Len(toClient) \in Nat /\ overlap \in Nat
      /\ toServer = <<>> <=> Len(toServer) = 0
      /\ toClient = <<>> <=> Len(toClient) = 0
      /\ toClient \in Seq(ToClients)
  BY Lengths DEF IInv, ConnOK
<1>1. /\ state' = "connecting" /\ isReady' = FALSE
      /\ toClient' = Append(toClient, x) /\ UNCHANGED <<toServer, wanted>>
      /\ overlap' = IF Quiet THEN 1 ELSE overlap + 1
  BY DEF LoadMap, LoadNext, clientVars
<1>2. x.kind = "MAP_CHANGE"
  BY DEF ToClient
<1> HIDE DEF x
<1>3. Len(toClient') = Len(toClient) + 1 /\ toClient'[Len(toClient')].kind = "MAP_CHANGE"
  BY <1>0, <1>1, <1>2, Appended
<1>4. Tokens' = Tokens + 1 /\ Tokens \in Nat
  BY <1>0, <1>1, <1>3 DEF Tokens
<1>5. Tokens' <= overlap'
  <2>1. CASE state = "ingame"
    <3>1. Tokens = 0
      BY <2>1 DEF Handshake, PlaysQuietly
    <3>2. Quiet
      BY <2>1, <3>1, <1>0 DEF Quiet, Tokens
    <3> QED
      BY <1>1, <1>4, <3>1, <3>2
  <2>2. CASE state # "ingame"
    <3>1. Tokens <= overlap /\ ~Quiet
      BY <2>2 DEF Handshake, TokenEach, Quiet
    <3> QED
      BY <1>0, <1>1, <1>4, <3>1
  <2> QED
    BY <2>1, <2>2
<1>6. toClient' # <<>>
  BY <1>0, <1>3
<1>7. ReadyComesLast' /\ TokenEach'
  BY <1>1, <1>3, <1>5, <1>6 DEF ReadyComesLast, TokenEach
<1>8. PlaysQuietly' /\ StartInfoComesLast' /\ OnlyEnterGameComes'
  BY <1>1 DEF PlaysQuietly, StartInfoComesLast, OnlyEnterGameComes
<1> QED
  BY <1>7, <1>8 DEF Handshake

LEMMA HandshakeFinish ==
  ASSUME IInv, Handshake, FinishMapDownload
  PROVE  Handshake'
<1> DEFINE r == ToServer("READY")
           n == Len(toServer)
<1>0. /\ n \in Nat /\ Len(toClient) \in Nat /\ toServer \in Seq(ToServers)
      /\ toClient = <<>> <=> Len(toClient) = 0
  BY Lengths DEF IInv, ConnOK
<1>1. /\ wanted # NoMap /\ wanted' = NoMap /\ loaded' = wanted
      /\ toServer' = Append(toServer, r)
      /\ UNCHANGED <<state, isReady, toClient, entered, map, overlap>>
  BY DEF FinishMapDownload, serverVars
<1>2. r.kind = "READY"
  BY DEF ToServer
<1> HIDE DEF r
<1>3. /\ Len(toServer') = n + 1 /\ toServer'[n + 1].kind = "READY"
      /\ \A i \in 1 .. n : toServer'[i] = toServer[i]
  BY <1>0, <1>1, <1>2, Appended
<1>4. Tokens' = Tokens /\ Tokens = n + Len(toClient) + 1 /\ Tokens > 0
  BY <1>0, <1>1, <1>3 DEF Tokens
<1> HIDE DEF n
<1>5. PlaysQuietly' /\ TokenEach'
  BY <1>1, <1>4 DEF Handshake, PlaysQuietly, TokenEach
<1>6. ReadyComesLast'
  BY <1>1, <1>3, <1>4 DEF Handshake, ReadyComesLast
<1>7. StartInfoComesLast'
  <2> SUFFICES ASSUME state = "ready", ~isReady, NEW i \in 1 .. n + 1
               PROVE  /\ toServer'[i].kind # "ENTERGAME"
                      /\ toServer'[i].kind # "STARTINFO"
    BY <1>1, <1>3, <1>4 DEF Handshake, StartInfoComesLast
  <2>1. CASE i = n + 1
    BY <1>3, <2>1
  <2>2. CASE i \in 1 .. n
    <3>1. i # Tokens /\ i \in 1 .. Len(toServer)
      BY <1>0, <1>4, <2>2 DEF n
    <3> QED
      BY <1>3, <2>2, <3>1 DEF Handshake, StartInfoComesLast
  <2> QED
    BY <1>0, <2>1, <2>2
<1>8. OnlyEnterGameComes'
  <2>1. ~(state = "ready" /\ isReady)
    <3> SUFFICES ASSUME state = "ready", isReady PROVE FALSE
      OBVIOUS
    <3>1. Tokens = 1 /\ (Len(toClient) = 1 \/ n = 1)
      BY DEF Handshake, OnlyEnterGameComes, n
    <3>2. n + Len(toClient) + 1 = 1 /\ n \in Nat /\ Len(toClient) \in Nat
      BY <1>0, <1>4, <3>1
    <3> QED
      BY <3>1, <3>2
  <2> QED
    BY <1>1, <2>1 DEF OnlyEnterGameComes
<1> QED
  BY <1>5, <1>6, <1>7, <1>8 DEF Handshake

LEMMA HandshakeClientReceives ==
  ASSUME IInv, ToldInOrder, Handshake, overlap <= 2, ClientReceives
  PROVE  Handshake'
<1> DEFINE x == Head(toClient)
           s == Len(toServer)
           c == Len(toClient)
           answered(kind) == Len(toServer') = s + 1 /\ toServer'[s + 1].kind = kind
           silent == Len(toServer') = s
<1>0. s \in Nat /\ c \in Nat /\ overlap \in Nat /\ (toClient = <<>> <=> c = 0)
  BY Lengths
<1>1. x = Head(toClient)
  OBVIOUS
<1> HIDE DEF x
<1>2. /\ UNCHANGED <<state, isReady, map, overlap>>
      /\ x = toClient[1] /\ c >= 1
      /\ Len(toClient') = c - 1
      /\ \A i \in 1 .. c - 1 : toClient'[i] = toClient[i + 1]
      /\ \A i \in 1 .. s : toServer'[i] = toServer[i]
  BY <1>1, ClientAnswerLengths
<1>3. \/ /\ x.kind = "MAP_CHANGE"
         /\ \/ wanted' # NoMap /\ silent
            \/ wanted' = NoMap /\ answered("READY")
      \/ /\ x.kind = "CON_READY" /\ wanted' = wanted
         /\ \/ wanted # NoMap /\ silent
            \/ wanted = NoMap /\ answered("STARTINFO")
      \/ x.kind = "READYTOENTER" /\ wanted' = wanted /\ entered' /\ answered("ENTERGAME")
  BY <1>1, ClientAnswerLengths
<1>4. Tokens = s + c + (IF wanted = NoMap THEN 0 ELSE 1)
  BY DEF Tokens
<1>5. Tokens' = Len(toServer') + (c - 1) + (IF wanted' = NoMap THEN 0 ELSE 1)
  BY <1>2 DEF Tokens
<1>6. Len(toServer') \in {s, s + 1} /\ (toClient' = <<>> <=> c - 1 = 0)
  <2>1. toClient' \in Seq(ToClients)
    BY ConnStep DEF Next, ConnOK
  <2> QED
    BY <1>2, <1>3, <2>1
<1> HIDE DEF s, c
<1>7. Tokens \in Nat /\ Tokens' \in Nat /\ Tokens >= 1 /\ Tokens' <= Tokens
  <2> DEFINE d == IF wanted = NoMap THEN 0 ELSE 1
             e == IF wanted' = NoMap THEN 0 ELSE 1
  <2>1. /\ Tokens = s + c + d /\ Tokens' = Len(toServer') + (c - 1) + e
        /\ d \in {0, 1} /\ e \in {0, 1}
    BY <1>4, <1>5
  <2>2. Len(toServer') + e <= s + 1 + d
    <3>1. \/ Len(toServer') = s
          \/ Len(toServer') = s + 1 /\ e <= d
      BY <1>3
    <3> QED
      BY <1>0, <2>1, <3>1
  <2> HIDE DEF d, e
  <2> QED
    BY <1>0, <1>2, <1>6, <2>1, <2>2
<1>8. PlaysQuietly' /\ TokenEach'
  <2>1. Tokens' <= overlap \/ state = "ingame"
    BY <1>0, <1>7 DEF Handshake, TokenEach
  <2>2. state # "ingame"
    BY <1>7 DEF Handshake, PlaysQuietly
  <2> QED
    BY <1>2, <2>1, <2>2 DEF PlaysQuietly, TokenEach
<1>9. ReadyComesLast'
  <2> SUFFICES ASSUME state = "connecting"
               PROVE  /\ ~isReady'
                      /\ Tokens' = 2 =>
                           /\ toClient' # <<>> => toClient'[c - 1].kind = "MAP_CHANGE"
                           /\ toClient' = <<>> /\ wanted' = NoMap =>
                                toServer'[Len(toServer')].kind = "READY"
    BY <1>2 DEF ReadyComesLast
  <2>1. ~isReady'
    BY <1>2 DEF Handshake, ReadyComesLast
  <2>2. ASSUME Tokens' = 2
        PROVE  Tokens = 2 /\ toClient[c].kind = "MAP_CHANGE"
    <3>1. Tokens <= 2
      BY <1>0, <1>7 DEF Handshake, TokenEach
    <3>2. Tokens = 2 /\ toClient # <<>>
      BY <1>0, <1>2, <1>7, <2>2, <3>1
    <3> QED
      BY <3>2 DEF Handshake, ReadyComesLast, c
  <2>3. ASSUME Tokens' = 2, c # 1
        PROVE  toClient' # <<>> /\ toClient'[c - 1].kind = "MAP_CHANGE"
    <3>1. c - 1 \in 1 .. c - 1 /\ (c - 1) + 1 = c
      BY <1>0, <1>2, <2>3
    <3>2. toClient'[c - 1] = toClient[c]
      BY <1>2, <3>1
    <3> QED
      BY <1>6, <2>2, <2>3, <3>1, <3>2
  <2>4. ASSUME Tokens' = 2, c = 1, wanted' = NoMap
        PROVE  toClient' = <<>> /\ toServer'[Len(toServer')].kind = "READY"
    <3>1. x.kind = "MAP_CHANGE"
      BY <1>2, <2>2, <2>4
    <3>2. answered("READY")
      BY <1>3, <2>4, <3>1
    <3> QED
      BY <1>6, <2>4, <3>2
  <2> QED
    BY <1>6, <2>1, <2>3, <2>4
<1>10. StartInfoComesLast'
  <2> SUFFICES ASSUME state = "ready", ~isReady
               PROVE  /\ \A i \in 1 .. Len(toServer') :
                           /\ toServer'[i].kind # "ENTERGAME"
                           /\ toServer'[i].kind = "STARTINFO" => i = Tokens'
                      /\ \A i \in 1 .. c - 1 :
                           /\ toClient'[i].kind # "READYTOENTER"
                           /\ toClient'[i].kind = "CON_READY" => i = c - 1
    BY <1>2 DEF StartInfoComesLast
  <2>1. /\ \A i \in 1 .. s : /\ toServer[i].kind # "ENTERGAME"
                             /\ toServer[i].kind = "STARTINFO" => i = Tokens
        /\ \A i \in 1 .. c : /\ toClient[i].kind # "READYTOENTER"
                             /\ toClient[i].kind = "CON_READY" => i = c
    BY DEF Handshake, StartInfoComesLast, s, c
  <2>2. ASSUME NEW i \in 1 .. c - 1
        PROVE  /\ toClient'[i].kind # "READYTOENTER"
               /\ toClient'[i].kind = "CON_READY" => i = c - 1
    <3>1. i + 1 \in 1 .. c /\ toClient'[i] = toClient[i + 1] /\ (i + 1 = c => i = c - 1)
      BY <1>0, <1>2
    <3> QED
      BY <2>1, <3>1
  <2>3. ASSUME NEW i \in 1 .. s
        PROVE  toServer'[i].kind # "ENTERGAME" /\ toServer'[i].kind # "STARTINFO"
    <3>1. i # Tokens
      BY <1>0, <1>2, <1>4
    <3> QED
      BY <1>2, <2>1, <3>1
  <2>4. 1 \in 1 .. c /\ x = toClient[1]
    BY <1>0, <1>2
  <2>5. x.kind # "READYTOENTER" /\ (x.kind = "CON_READY" => c = 1)
    BY <2>1, <2>4
  <2>6. ASSUME NEW i \in 1 .. Len(toServer'), i \notin 1 .. s
        PROVE  /\ toServer'[i].kind # "ENTERGAME"
               /\ toServer'[i].kind = "STARTINFO" => i = Tokens'
    <3>1. Len(toServer') = s + 1 /\ i = s + 1
      BY <1>0, <1>6, <2>6
    <3>2. \/ toServer'[s + 1].kind = "READY"
          \/ toServer'[s + 1].kind = "STARTINFO" /\ x.kind = "CON_READY" /\ wanted' = NoMap
      BY <1>0, <1>3, <2>5, <3>1
    <3> QED
      BY <1>0, <1>5, <2>5, <3>1, <3>2
  <2> QED
    BY <2>2, <2>3, <2>6
<1>11. OnlyEnterGameComes'
  <2>1. CASE ~(state = "ready" /\ isReady)
    BY <1>2, <2>1 DEF OnlyEnterGameComes
  <2>2. CASE state = "ready" /\ isReady
    <3>1. /\ Tokens = 1
          /\ \/ c = 1 /\ toClient[1].kind = "READYTOENTER"
             \/ s = 1
      BY <2>2 DEF Handshake, OnlyEnterGameComes, s, c
    <3>2. c = 1 /\ s = 0 /\ x.kind = "READYTOENTER" /\ wanted = NoMap
      BY <1>0, <1>2, <1>4, <3>1
    <3>3. wanted' = NoMap /\ entered' /\ answered("ENTERGAME")
      BY <1>3, <3>2
    <3>4. Len(toServer') = 1 /\ toServer'[1].kind = "ENTERGAME" /\ Len(toClient') = 0
      BY <1>2, <3>2, <3>3
    <3>5. Tokens' = 1
      BY <1>5, <3>2, <3>3, <3>4
    <3>6. seen' = map'
      <4>1. Leads(toClient', x.map, map) /\ seen' = x.map
        BY <1>1, Arrival
      <4>2. map = MapBefore(toClient', x.map, 1)
        BY <3>4, <4>1 DEF Leads
      <4> QED
        BY <1>2, <4>1, <4>2 DEF MapBefore
    <3> QED
      BY <3>3, <3>4, <3>5, <3>6 DEF OnlyEnterGameComes
  <2> QED
    BY <2>1, <2>2
<1> QED
  BY <1>8, <1>9, <1>10, <1>11 DEF Handshake

LEMMA HandshakeServerReceives ==
  ASSUME IInv, Handshake, overlap <= 2, ServerReceives
  PROVE  Handshake'
<1> DEFINE y == Head(toServer)
           s == Len(toServer)
           c == Len(toClient)
           pending == IF wanted = NoMap THEN 0 ELSE 1
           appended(kind) == Len(toClient') = c + 1 /\ toClient'[c + 1].kind = kind
<1>0. /\ s \in Nat /\ c \in Nat /\ overlap \in Nat /\ pending \in {0, 1}
      /\ toServer = <<>> <=> s = 0
      /\ toClient = <<>> <=> c = 0
  BY Lengths
<1>1. y = Head(toServer)
  OBVIOUS
<1> HIDE DEF y
<1>2. /\ UNCHANGED <<loaded, wanted, entered, map, overlap>>
      /\ y = toServer[1] /\ s >= 1
      /\ Len(toServer') = s - 1
      /\ \A i \in 1 .. s - 1 : toServer'[i] = toServer[i + 1]
  BY <1>1, ServerAnswerLengths
<1>3. \/ /\ y.kind = "READY" /\ state = "connecting"
         /\ state' = "ready" /\ isReady' = isReady /\ appended("CON_READY")
         /\ \A i \in 1 .. c : toClient'[i] = toClient[i]
      \/ /\ y.kind = "STARTINFO" /\ state \in {"ready", "ingame"} /\ ~isReady
         /\ state' = state /\ isReady' /\ appended("READYTOENTER")
      \/ /\ y.kind = "ENTERGAME" /\ state = "ready" /\ isReady
         /\ state' = "ingame" /\ toClient' = toClient
      \/ /\ y.kind = "READY" => state # "connecting"
         /\ y.kind = "STARTINFO" => state \notin {"ready", "ingame"} \/ isReady
         /\ y.kind = "ENTERGAME" => ~(state = "ready" /\ isReady)
         /\ state' = state /\ isReady' = isReady /\ toClient' = toClient
  BY <1>1, ServerAnswerLengths
<1>4. Tokens = s + c + pending /\ Tokens' = (s - 1) + Len(toClient') + pending
  BY <1>2 DEF Tokens
<1>5. seen' = seen
  BY <1>2 DEF seen
<1>6. state # "ingame" /\ Tokens <= overlap /\ Tokens <= 2
  <2>1. Tokens # 0
    BY <1>0, <1>2, <1>4
  <2>2. state # "ingame"
    BY <2>1 DEF Handshake, PlaysQuietly
  <2>3. Tokens <= overlap
    BY <2>2 DEF Handshake, TokenEach
  <2> QED
    BY <1>0, <1>4, <2>2, <2>3
<1> HIDE DEF s, c, pending
<1>7. CASE state = "connecting"
  <2>1. ~isReady
    BY <1>7 DEF Handshake, ReadyComesLast
  <2>2. CASE y.kind = "READY"
    <3>1. /\ state' = "ready" /\ isReady' = isReady /\ appended("CON_READY")
          /\ \A i \in 1 .. c : toClient'[i] = toClient[i]
      BY <1>3, <1>7, <2>2
    <3>2. Tokens' = Tokens
      BY <1>0, <1>4, <3>1
    <3>3. ASSUME NEW i \in 1 .. s - 1
          PROVE  toServer'[i].kind = "READY"
      <4>1. s = 2 /\ c = 0 /\ pending = 0 /\ i = 1 /\ Tokens = 2
        BY <1>0, <1>2, <1>4, <1>6
      <4>2. toServer[2].kind = "READY"
        BY <1>0, <1>7, <4>1 DEF Handshake, ReadyComesLast, pending, s, NoMap
      <4>3. toServer'[1] = toServer[1 + 1] /\ 1 + 1 = 2
        BY <1>2, <4>1
      <4> QED
        BY <4>1, <4>2, <4>3
    <3>4. ASSUME NEW i \in 1 .. c
          PROVE  toClient'[i].kind = "MAP_CHANGE"
      <4>1. c = 1 /\ i = 1 /\ Tokens = 2
        BY <1>0, <1>2, <1>4, <1>6
      <4>2. toClient[1].kind = "MAP_CHANGE"
        BY <1>0, <1>7, <4>1 DEF Handshake, ReadyComesLast, c
      <4> QED
        BY <3>1, <4>1, <4>2
    <3>5. StartInfoComesLast'
      <4> SUFFICES
            /\ \A i \in 1 .. s - 1 : /\ toServer'[i].kind # "ENTERGAME"
                                     /\ toServer'[i].kind # "STARTINFO"
            /\ \A i \in 1 .. c + 1 : /\ toClient'[i].kind # "READYTOENTER"
                                     /\ toClient'[i].kind = "CON_READY" => i = c + 1
        BY <1>2, <3>1 DEF StartInfoComesLast
      <4>1. \A i \in 1 .. c + 1 : i \in 1 .. c \/ i = c + 1
        BY <1>0
      <4> QED
        BY <3>1, <3>3, <3>4, <4>1
    <3>6. TokenEach'
      BY <1>2, <1>6, <3>2 DEF TokenEach
    <3>7. PlaysQuietly' /\ ReadyComesLast' /\ OnlyEnterGameComes'
      BY <2>1, <3>1 DEF PlaysQuietly, ReadyComesLast, OnlyEnterGameComes
    <3> QED
      BY <3>5, <3>6, <3>7 DEF Handshake
  <2>3. CASE y.kind # "READY"
    <3>1. state' = state /\ isReady' = isReady /\ toClient' = toClient
      BY <1>3, <1>7, <2>3
    <3>2. Tokens' = Tokens - 1 /\ Tokens' # 2 /\ Tokens' <= overlap'
      BY <1>0, <1>2, <1>4, <1>6, <3>1 DEF c
    <3>3. ReadyComesLast' /\ TokenEach'
      BY <1>7, <2>1, <3>1, <3>2 DEF ReadyComesLast, TokenEach
    <3>4. PlaysQuietly' /\ StartInfoComesLast' /\ OnlyEnterGameComes'
      BY <1>7, <3>1 DEF PlaysQuietly, StartInfoComesLast, OnlyEnterGameComes
    <3> QED
      BY <3>3, <3>4 DEF Handshake
  <2> QED
    BY <2>2, <2>3
<1>8. CASE state = "ready" /\ ~isReady
  <2>1. /\ \A i \in 1 .. s : /\ toServer[i].kind # "ENTERGAME"
                             /\ toServer[i].kind = "STARTINFO" => i = Tokens
        /\ \A i \in 1 .. c : /\ toClient[i].kind # "READYTOENTER"
                             /\ toClient[i].kind = "CON_READY" => i = c
    BY <1>8 DEF Handshake, StartInfoComesLast, s, c
  <2>2. 1 \in 1 .. s /\ y = toServer[1]
    BY <1>0, <1>2
  <2>3. CASE y.kind = "STARTINFO"
    <3>1. Tokens = 1 /\ s = 1 /\ c = 0 /\ pending = 0
      <4>1. Tokens = 1
        BY <2>1, <2>2, <2>3
      <4> QED
        BY <1>0, <1>2, <1>4, <4>1
    <3>2. state' = state /\ isReady' /\ appended("READYTOENTER")
      BY <1>3, <1>8, <2>3
    <3>3. Len(toClient') = 1 /\ toClient'[1].kind = "READYTOENTER" /\ Tokens' = 1
      BY <1>4, <3>1, <3>2
    <3>4. OnlyEnterGameComes' /\ TokenEach'
      BY <1>2, <1>6, <3>1, <3>2, <3>3 DEF OnlyEnterGameComes, TokenEach
    <3>5. PlaysQuietly' /\ ReadyComesLast' /\ StartInfoComesLast'
      BY <1>8, <3>2 DEF PlaysQuietly, ReadyComesLast, StartInfoComesLast
    <3> QED
      BY <3>4, <3>5 DEF Handshake
  <2>4. CASE y.kind # "STARTINFO"
    <3>1. state' = state /\ isReady' = isReady /\ toClient' = toClient
      BY <1>3, <1>8, <2>4
    <3>2. Tokens' = Tokens - 1 /\ Tokens' <= overlap'
      BY <1>0, <1>2, <1>4, <1>6, <3>1 DEF c
    <3>3. ASSUME NEW i \in 1 .. s - 1
          PROVE  /\ toServer'[i].kind # "ENTERGAME"
                 /\ toServer'[i].kind = "STARTINFO" => i = Tokens'
      <4>1. i + 1 \in 1 .. s /\ toServer'[i] = toServer[i + 1]
        BY <1>0, <1>2
      <4>2. i + 1 = Tokens => i = Tokens'
        BY <1>0, <1>4, <3>2
      <4> QED
        BY <2>1, <4>1, <4>2
    <3>4. StartInfoComesLast'
      BY <1>2, <2>1, <3>1, <3>3 DEF StartInfoComesLast, c
    <3>5. TokenEach' /\ PlaysQuietly' /\ ReadyComesLast' /\ OnlyEnterGameComes'
      BY <1>8, <3>1, <3>2 DEF TokenEach, PlaysQuietly, ReadyComesLast, OnlyEnterGameComes
    <3> QED
      BY <3>4, <3>5 DEF Handshake
  <2> QED
    BY <2>3, <2>4
<1>9. CASE state = "ready" /\ isReady
  <2>1. /\ Tokens = 1
        /\ \/ c = 1
           \/ s = 1 /\ toServer[1].kind = "ENTERGAME" /\ entered /\ seen = map
    BY <1>9 DEF Handshake, OnlyEnterGameComes, s, c
  <2>2. s = 1 /\ c = 0 /\ pending = 0 /\ y.kind = "ENTERGAME" /\ entered /\ seen = map
    BY <1>0, <1>2, <1>4, <2>1
  <2>3. state' = "ingame" /\ toClient' = toClient
    BY <1>3, <1>9, <2>2
  <2>4. Tokens' = 0
    BY <1>4, <2>2, <2>3 DEF c
  <2>5. InStep'
    BY <1>2, <1>5, <2>2 DEF InStep
  <2>6. PlaysQuietly' /\ TokenEach'
    BY <2>3, <2>4, <2>5 DEF PlaysQuietly, TokenEach
  <2>7. ReadyComesLast' /\ StartInfoComesLast' /\ OnlyEnterGameComes'
    BY <2>3 DEF ReadyComesLast, StartInfoComesLast, OnlyEnterGameComes
  <2> QED
    BY <2>6, <2>7 DEF Handshake
<1> QED
  BY <1>6, <1>7, <1>8, <1>9 DEF IInv, ServerOK

LEMMA HandshakeStep ==
  ASSUME IInv, MapInv, Handshake, overlap <= 2, overlap' <= 2, Next
  PROVE  Handshake'
<1>1. CASE LoadMap
  BY <1>1, HandshakeLoadMap
<1>2. CASE ServerReceives
  BY <1>2, HandshakeServerReceives
<1>3. CASE ClientReceives
  BY <1>3, HandshakeClientReceives DEF MapInv
<1>4. CASE FinishMapDownload
  BY <1>4, HandshakeFinish
<1>5. CASE \/ Tick \/ DoSnapshot \/ (\E i \in inputs : OnInput(i))
           \/ SendInput \/ SwitchSnapshot \/ (\E p \in packets : ReceivePacket(p))
  <2>1. UNCHANGED <<state, isReady, toServer, toClient, loaded, wanted, entered, map, overlap>>
    BY <1>5 DEF Tick, DoSnapshot, OnInput, SendInput, SwitchSnapshot, ReceivePacket,
                serverVars, clientVars, connVars
  <2> QED
    BY <2>1, HandshakeUnchanged
<1> QED
  BY <1>1, <1>2, <1>3, <1>4, <1>5 DEF Next

-----------------------------------------------------------------------------
(* The theorems on deltas.                                                 *)

LEMMA InitUnmixed ==
  ASSUME Init
  PROVE  Unmixed
BY NoSnapshotsIs DEF Init, Unmixed, ShowsOnly

\* However many map changes overlap: if none begins while the client plays and has
\* not answered all that it was asked before, every delta is unpacked with the base
\* it was made for, and no parts of different snapshots are put together, whatever
\* is lost, late or doubled (CClient::ProcessServerPacket, CServer::DoSnapshot).
THEOREM SameBaseIfSettled == Spec /\ [][SettledFirst]_vars => []SameBase
<1>1. Init => Unmixed
  BY InitUnmixed
<1>2. IInv /\ MapInv /\ Unmixed /\ [SettledFirst]_vars /\ [Next]_vars => Unmixed'
  <2> SUFFICES ASSUME IInv, MapInv, Unmixed, [SettledFirst]_vars, [Next]_vars
               PROVE  Unmixed'
    OBVIOUS
  <2>1. CASE UNCHANGED vars
    BY <2>1 DEF Unmixed, ShowsOnly, ShowsNothing, EnterGameSent, vars, serverVars, clientVars,
                snapVars, connVars
  <2>2. CASE Next /\ SettledFirst
    BY <2>2, UnmixedStep
  <2> QED
    BY <2>1, <2>2
<1>3. Unmixed => SameBase
  BY UnpackedRight DEF Unmixed
<1> QED
  BY <1>1, <1>2, <1>3, Invariance, MapInvariance, PTL DEF Spec

\* No message of the map changes is under way while the client plays.
LEMMA HandshakeInvariance == Spec /\ []TwoAtMost => []Handshake
<1>1. Init => Handshake
  BY InitHandshake
<1>2. IInv /\ MapInv /\ Handshake /\ TwoAtMost /\ TwoAtMost' /\ [Next]_vars => Handshake'
  <2> SUFFICES ASSUME IInv, MapInv, Handshake, TwoAtMost, TwoAtMost', [Next]_vars
               PROVE  Handshake'
    OBVIOUS
  <2>1. CASE Next
    BY <2>1, HandshakeStep DEF TwoAtMost
  <2>2. CASE UNCHANGED vars
    BY <2>2, HandshakeUnchanged DEF vars, serverVars, clientVars, connVars
  <2> QED
    BY <2>1, <2>2
<1> QED
  BY <1>1, <1>2, Invariance, MapInvariance, PTL DEF Spec

\* As long as no more than two map changes overlap, the server takes a client to
\* play only when it has entered the map that is played: no answer to a map change
\* is taken for one to another, although OnNetMsgReady, OnStartInfoNetMessage and
\* OnNetMsgEnterGame compare nothing but the state.
THEOREM PlaysInStep == Spec /\ []TwoAtMost => []InStep
<1>1. Handshake => InStep
  BY DEF Handshake, PlaysQuietly, InStep
<1> QED
  BY <1>1, HandshakeInvariance, PTL

\* The deltas of two map changes that overlap: the client has answered all when it
\* comes to play, so that the condition of SameBaseIfSettled holds.
THEOREM SameBaseOfTwo == Spec /\ []TwoAtMost => []SameBase
<1>1. IInv /\ Handshake => SettledFirst
  <2> SUFFICES ASSUME IInv, Handshake, state = "ingame"
               PROVE  ~AskedToEnter /\ ~EnterGameSent
    BY DEF SettledFirst
  <2>1. Tokens = 0
    BY DEF Handshake, PlaysQuietly
  <2>2. Len(toServer) = 0 /\ Len(toClient) = 0
    BY <2>1, Lengths DEF Tokens
  <2> QED
    BY <2>2 DEF AskedToEnter, EnterGameSent
<1> QED
  BY <1>1, Invariance, HandshakeInvariance, SameBaseIfSettled, PTL

\* The same for the constants of a run.
COROLLARY SameBaseBounded == ASSUME MaxOverlap <= 2 PROVE Spec => []SameBase
<1>1. IInv => TwoAtMost
  BY BoundsAssumption DEF IInv, ServerOK, TwoAtMost
<1> QED
  BY <1>1, Invariance, SameBaseOfTwo, PTL
-----------------------------------------------------------------------------
(* What is still under way.                                                *)

\* A message of this kind has not arrived at the client, or at the server.
Told(kind) == \E i \in 1 .. Len(toClient) : toClient[i].kind = kind
Sent(kind) == \E i \in 1 .. Len(toServer) : toServer[i].kind = kind

\* The server is going to be answered, in each state of a client but the one in
\* which it waits for the start info.
ServerAnswered ==
  /\ state = "connecting" => ~isReady /\ (wanted # NoMap \/ Told("MAP_CHANGE") \/ Sent("READY"))
  /\ state = "ready" /\ isReady => Told("READYTOENTER") \/ Sent("ENTERGAME")
  /\ state = "ingame" => isReady

\* A client that the server takes for ready has entered the map that is played,
\* or is going to be asked to.
ClientAsked ==
  isReady => \/ entered /\ seen = map
             \/ \E i \in 1 .. Len(toClient) :
                  toClient[i].kind = "READYTOENTER" /\ toClient[i].map = map

\* The start info is going to be asked for or is under way.
StartInfoPending == state = "ready" /\ ~isReady => Told("CON_READY") \/ Sent("STARTINFO")

\* No message is under way and no map is downloaded.
AtRest == toClient = <<>> /\ toServer = <<>> /\ wanted = NoMap

\* The client plays on the last map.
Plays == state = "ingame" /\ entered /\ loaded = map

\* Nothing is left to be done only when the client plays, or its start info is missing.
PlaysOrWaits == AtRest => Plays \/ (state = "ready" /\ ~isReady)
PlaysAtRest == AtRest => Plays

\* The client does not drop NETMSG_CON_READY for want of a map.
NothingDropped == ClientReceives /\ Head(toClient).kind = "CON_READY" => loaded # NoMap

\* Steps that move no message of the map changes.
LEMMA UnderWayUnchanged ==
  ASSUME UNCHANGED <<map, state, isReady, loaded, wanted, entered, toClient, toServer>>
  PROVE  /\ ServerAnswered => ServerAnswered'
         /\ ClientAsked => ClientAsked'
         /\ StartInfoPending => StartInfoPending'
<1>1. /\ \A kind : Told(kind)' = Told(kind)
      /\ \A kind : Sent(kind)' = Sent(kind)
  BY DEF Told, Sent
<1>2. seen' = seen
  BY DEF seen
<1> QED
  BY <1>1, <1>2 DEF ServerAnswered, ClientAsked, StartInfoPending

\* A queue that loses its first message, or gains one, still holds the others.
LEMMA StillTold ==
  ASSUME NEW kind, Told(kind), Len(toClient) \in Nat,
         \/ /\ Len(toClient') >= Len(toClient) /\ Len(toClient') \in Nat
            /\ \A i \in 1 .. Len(toClient) : toClient'[i] = toClient[i]
         \/ /\ Len(toClient') = Len(toClient) - 1 /\ toClient[1].kind # kind
            /\ \A i \in 1 .. Len(toClient) - 1 : toClient'[i] = toClient[i + 1]
  PROVE  Told(kind)'
<1>1. PICK i \in 1 .. Len(toClient) : toClient[i].kind = kind
  BY DEF Told
<1>2. CASE /\ Len(toClient') >= Len(toClient) /\ Len(toClient') \in Nat
           /\ \A j \in 1 .. Len(toClient) : toClient'[j] = toClient[j]
  <2>1. i \in 1 .. Len(toClient') /\ toClient'[i].kind = kind
    BY <1>1, <1>2
  <2> QED
    BY <2>1 DEF Told
<1>3. CASE /\ Len(toClient') = Len(toClient) - 1 /\ toClient[1].kind # kind
           /\ \A j \in 1 .. Len(toClient) - 1 : toClient'[j] = toClient[j + 1]
  <2>1. i # 1
    BY <1>1, <1>3
  <2>2. i - 1 \in 1 .. Len(toClient) - 1 /\ (i - 1) + 1 = i
    BY <2>1, <1>1
  <2>3. i - 1 \in 1 .. Len(toClient') /\ toClient'[i - 1].kind = kind
    BY <2>2, <1>1, <1>3
  <2> QED
    BY <2>3 DEF Told
<1> QED
  BY <1>2, <1>3

LEMMA StillSent ==
  ASSUME NEW kind, Sent(kind), Len(toServer) \in Nat,
         \/ /\ Len(toServer') >= Len(toServer) /\ Len(toServer') \in Nat
            /\ \A i \in 1 .. Len(toServer) : toServer'[i] = toServer[i]
         \/ /\ Len(toServer') = Len(toServer) - 1 /\ toServer[1].kind # kind
            /\ \A i \in 1 .. Len(toServer) - 1 : toServer'[i] = toServer[i + 1]
  PROVE  Sent(kind)'
<1>1. PICK i \in 1 .. Len(toServer) : toServer[i].kind = kind
  BY DEF Sent
<1>2. CASE /\ Len(toServer') >= Len(toServer) /\ Len(toServer') \in Nat
           /\ \A j \in 1 .. Len(toServer) : toServer'[j] = toServer[j]
  <2>1. i \in 1 .. Len(toServer') /\ toServer'[i].kind = kind
    BY <1>1, <1>2
  <2> QED
    BY <2>1 DEF Sent
<1>3. CASE /\ Len(toServer') = Len(toServer) - 1 /\ toServer[1].kind # kind
           /\ \A j \in 1 .. Len(toServer) - 1 : toServer'[j] = toServer[j + 1]
  <2>1. i # 1
    BY <1>1, <1>3
  <2>2. i - 1 \in 1 .. Len(toServer) - 1 /\ (i - 1) + 1 = i
    BY <2>1, <1>1
  <2>3. i - 1 \in 1 .. Len(toServer') /\ toServer'[i - 1].kind = kind
    BY <2>2, <1>1, <1>3
  <2> QED
    BY <2>3 DEF Sent
<1> QED
  BY <1>2, <1>3

\* What the server answers is about the map that is played.
LEMMA AnswerAppends ==
  ASSUME IInv, ServerReceives
  PROVE  /\ Len(toClient) <= Len(toClient') /\ Len(toClient') \in Nat
         /\ \A i \in 1 .. Len(toClient) : toClient'[i] = toClient[i]
         /\ \A i \in Len(toClient) + 1 .. Len(toClient') : toClient'[i].map = map
<1>1. toClient \in Seq(ToClients) /\ Len(toClient) \in Nat
  BY DEF IInv, ConnOK
<1>2. CASE UNCHANGED toClient
  BY <1>1, <1>2
<1>3. ASSUME NEW x \in ToClients, toClient' = Append(toClient, x), x.map = map
      PROVE  /\ Len(toClient') = Len(toClient) + 1 /\ toClient'[Len(toClient) + 1].map = map
             /\ \A i \in 1 .. Len(toClient) : toClient'[i] = toClient[i]
  BY <1>1, <1>3, Appended
<1> QED
  BY <1>1, <1>2, <1>3, Answer

\* A new map: the server waits for an answer to it.
LEMMA UnderWayLoadMap ==
  ASSUME IInv, LoadMap
  PROVE  ServerAnswered' /\ ClientAsked' /\ StartInfoPending'
<1> DEFINE x == ToClient("MAP_CHANGE", map + 1)
<1>1. state' = "connecting" /\ isReady' = FALSE /\ toClient' = Append(toClient, x)
  BY DEF LoadMap, LoadNext
<1>2. x.kind = "MAP_CHANGE"
  BY DEF ToClient
<1> HIDE DEF x
<1>3. toClient \in Seq(ToClients) /\ Len(toClient) \in Nat
  BY DEF IInv, ConnOK
<1>4. Len(toClient') = Len(toClient) + 1 /\ toClient'[Len(toClient) + 1].kind = "MAP_CHANGE"
  BY <1>1, <1>2, <1>3, Appended
<1>5. Told("MAP_CHANGE")'
  BY <1>3, <1>4 DEF Told
<1> QED
  BY <1>1, <1>5 DEF ServerAnswered, ClientAsked, StartInfoPending

LEMMA UnderWayFinish ==
  ASSUME IInv, FinishMapDownload
  PROVE  /\ ServerAnswered => ServerAnswered'
         /\ ClientAsked => ClientAsked'
         /\ StartInfoPending => StartInfoPending'
<1> DEFINE r == ToServer("READY")
<1>1. /\ wanted # NoMap /\ wanted' = NoMap /\ loaded' = wanted
      /\ toServer' = Append(toServer, r)
      /\ UNCHANGED <<state, isReady, toClient, entered, map>>
  BY DEF FinishMapDownload, serverVars
<1>2. r.kind = "READY"
  BY DEF ToServer
<1> HIDE DEF r
<1>3. toServer \in Seq(ToServers) /\ Len(toServer) \in Nat
  BY DEF IInv, ConnOK
<1>4. /\ Len(toServer') = Len(toServer) + 1 /\ toServer'[Len(toServer) + 1].kind = "READY"
      /\ \A i \in 1 .. Len(toServer) : toServer'[i] = toServer[i]
  BY <1>1, <1>2, <1>3, Appended
<1>5. Sent("READY")'
  BY <1>3, <1>4 DEF Sent
<1>6. \A kind : Sent(kind) => Sent(kind)'
  BY <1>3, <1>4, StillSent
<1>7. \A kind : Told(kind)' = Told(kind)
  BY <1>1 DEF Told
<1>8. seen' = seen
  BY <1>1 DEF seen
<1>9. ServerAnswered => ServerAnswered'
  BY <1>1, <1>5, <1>6, <1>7 DEF ServerAnswered
<1>10. ClientAsked => ClientAsked'
  BY <1>1, <1>8 DEF ClientAsked
<1>11. StartInfoPending => StartInfoPending'
  BY <1>1, <1>6, <1>7 DEF StartInfoPending
<1> QED
  BY <1>9, <1>10, <1>11

\* What arrives at the server moves it on, or leaves what it waits for.
LEMMA UnderWayServerReceives ==
  ASSUME IInv, ServerReceives
  PROVE  /\ ServerAnswered => ServerAnswered'
         /\ ClientAsked => ClientAsked'
         /\ StartInfoPending => StartInfoPending'
<1> DEFINE y == Head(toServer)
           n == Len(toClient)
<1>1. y = Head(toServer)
  OBVIOUS
<1> HIDE DEF y
<1>2. n \in Nat /\ Len(toServer) \in Nat /\ toClient \in Seq(ToClients)
  BY DEF IInv, ConnOK
<1>3. /\ UNCHANGED <<loaded, wanted, entered, map>>
      /\ y = toServer[1] /\ Len(toServer) >= 1
      /\ Len(toServer') = Len(toServer) - 1
      /\ \A i \in 1 .. Len(toServer) - 1 : toServer'[i] = toServer[i + 1]
  BY <1>1, ServerAnswerLengths
<1>4. \/ /\ y.kind = "READY" /\ state = "connecting"
         /\ state' = "ready" /\ isReady' = isReady
         /\ Len(toClient') = n + 1 /\ toClient'[n + 1].kind = "CON_READY"
      \/ /\ y.kind = "STARTINFO" /\ state \in {"ready", "ingame"} /\ ~isReady
         /\ state' = state /\ isReady'
         /\ Len(toClient') = n + 1 /\ toClient'[n + 1].kind = "READYTOENTER"
      \/ /\ y.kind = "ENTERGAME" /\ state = "ready" /\ isReady
         /\ state' = "ingame" /\ isReady' = isReady /\ toClient' = toClient
      \/ /\ y.kind = "READY" => state # "connecting"
         /\ y.kind = "STARTINFO" => state \notin {"ready", "ingame"} \/ isReady
         /\ y.kind = "ENTERGAME" => ~(state = "ready" /\ isReady)
         /\ state' = state /\ isReady' = isReady /\ toClient' = toClient
  BY <1>1, ServerAnswerLengths DEF n
<1>5. /\ n <= Len(toClient') /\ Len(toClient') \in Nat
      /\ \A i \in 1 .. n : toClient'[i] = toClient[i]
      /\ \A i \in n + 1 .. Len(toClient') : toClient'[i].map = map
  BY <1>2, AnswerAppends
<1>6. \A kind : Told(kind) => Told(kind)'
  BY <1>2, <1>5, StillTold
<1>7. \A kind : Sent(kind) /\ y.kind # kind => Sent(kind)'
  BY <1>2, <1>3, StillSent
<1>8. seen' = seen
  BY <1>3 DEF seen
<1>9. ASSUME NEW kind, Len(toClient') = n + 1, toClient'[n + 1].kind = kind
      PROVE  Told(kind)'
  <2>1. n + 1 \in 1 .. Len(toClient')
    BY <1>2, <1>9
  <2> QED
    BY <1>9, <2>1 DEF Told
<1>10. y.kind \in {"READY", "STARTINFO", "ENTERGAME"}
  <2>1. toServer # <<>> /\ toServer \in Seq(ToServers)
    BY DEF ServerReceives, IInv, ConnOK
  <2>2. y \in ToServers
    BY <1>1, <2>1
  <2> QED
    BY <2>2 DEF ToServers
<1>11. ServerAnswered => ServerAnswered'
  BY <1>3, <1>4, <1>6, <1>7, <1>9 DEF ServerAnswered
<1>12. StartInfoPending => StartInfoPending'
  BY <1>3, <1>4, <1>6, <1>7, <1>9 DEF StartInfoPending
<1>13. ASSUME ClientAsked, isReady'
       PROVE  ClientAsked'
  <2>1. CASE isReady
    <3>1. CASE entered /\ seen = map
      BY <1>3, <1>8, <3>1 DEF ClientAsked
    <3>2. ASSUME NEW i \in 1 .. n, toClient[i].kind = "READYTOENTER", toClient[i].map = map
          PROVE  ClientAsked'
      <4>1. i \in 1 .. Len(toClient') /\ toClient'[i] = toClient[i] /\ map' = map
        BY <1>2, <1>3, <1>5, <3>2
      <4> QED
        BY <3>2, <4>1 DEF ClientAsked
    <3> QED
      BY <1>13, <2>1, <3>1, <3>2 DEF ClientAsked, n
  <2>2. CASE ~isReady
    <3>1. Len(toClient') = n + 1 /\ toClient'[n + 1].kind = "READYTOENTER"
      BY <1>4, <1>13, <2>2
    <3>2. n + 1 \in 1 .. Len(toClient') /\ toClient'[n + 1].map = map /\ map' = map
      BY <1>2, <1>3, <1>5, <3>1
    <3> QED
      BY <3>1, <3>2 DEF ClientAsked
  <2> QED
    BY <2>1, <2>2
<1>14. ClientAsked => ClientAsked'
  <2>1. ~isReady' => ClientAsked'
    BY DEF ClientAsked
  <2> QED
    BY <1>13, <2>1
<1> QED
  BY <1>11, <1>12, <1>14

\* What arrives at the client is answered, unless a map is downloaded.
LEMMA UnderWayClientReceives ==
  ASSUME IInv, ToldInOrder, ClientReceives
  PROVE  /\ ServerAnswered => ServerAnswered'
         /\ ClientAsked => ClientAsked'
         /\ StartInfoPending /\ NothingDropped => StartInfoPending'
<1> DEFINE x == Head(toClient)
           m == Len(toServer)
<1>1. x = Head(toClient)
  OBVIOUS
<1> HIDE DEF x
<1>2. m \in Nat /\ Len(toClient) \in Nat
  BY Lengths
<1>3. /\ UNCHANGED <<state, isReady, map>>
      /\ x = toClient[1] /\ Len(toClient) >= 1
      /\ Len(toClient') = Len(toClient) - 1
      /\ \A i \in 1 .. Len(toClient) - 1 : toClient'[i] = toClient[i + 1]
      /\ \A i \in 1 .. m : toServer'[i] = toServer[i]
  BY <1>1, ClientAnswerLengths
<1>4. \/ /\ x.kind = "MAP_CHANGE"
         /\ \/ wanted' # NoMap /\ Len(toServer') = m
            \/ /\ wanted' = NoMap /\ Len(toServer') = m + 1
               /\ toServer'[m + 1].kind = "READY"
      \/ /\ x.kind = "CON_READY" /\ wanted' = wanted
         /\ \/ wanted # NoMap /\ Len(toServer') = m
            \/ /\ wanted = NoMap /\ Len(toServer') = m + 1
               /\ toServer'[m + 1].kind = "STARTINFO"
      \/ /\ x.kind = "READYTOENTER" /\ wanted' = wanted /\ entered'
         /\ Len(toServer') = m + 1
         /\ toServer'[m + 1].kind = "ENTERGAME"
  BY <1>1, ClientAnswerLengths
<1>5. /\ x.map = seen + (IF x.kind = "MAP_CHANGE" THEN 1 ELSE 0) /\ x.map <= map
      /\ seen' = x.map
      /\ x.kind = "CON_READY" => entered' = entered
  BY <1>1, Arrival DEF clientVars
<1>6. \A kind : Sent(kind) => Sent(kind)'
  <2>1. Len(toServer') \in Nat /\ Len(toServer') >= m
    BY <1>2, <1>4
  <2> QED
    BY <1>2, <1>3, <2>1, StillSent
<1>7. \A kind : Told(kind) /\ x.kind # kind => Told(kind)'
  BY <1>2, <1>3, StillTold
<1>8. ASSUME NEW kind, Len(toServer') = m + 1, toServer'[m + 1].kind = kind
      PROVE  Sent(kind)'
  <2>1. m + 1 \in 1 .. Len(toServer')
    BY <1>2, <1>8
  <2> QED
    BY <1>8, <2>1 DEF Sent
<1> HIDE DEF m
<1>9. ServerAnswered => ServerAnswered'
  BY <1>3, <1>4, <1>6, <1>7, <1>8 DEF ServerAnswered
<1>10. ASSUME ClientAsked, isReady
       PROVE  ClientAsked'
  <2>1. CASE entered /\ seen = map
    <3>1. seen \in Nat /\ map \in Nat
      BY SeenIsMap
    <3>2. x.kind # "MAP_CHANGE"
      <4>1. x.kind = "MAP_CHANGE" => x.map = seen + 1
        BY <1>5
      <4> QED
        BY <4>1, <1>5, <2>1, <3>1
    <3>3. seen' = seen
      BY <1>5, <3>1, <3>2
    <3>4. entered'
      BY <1>4, <1>5, <2>1, <3>2
    <3> QED
      BY <1>3, <2>1, <3>3, <3>4 DEF ClientAsked
  <2>2. ASSUME NEW i \in 1 .. Len(toClient), toClient[i].kind = "READYTOENTER",
               toClient[i].map = map
        PROVE  ClientAsked'
    <3>1. CASE i = 1
      <4>1. seen' = map /\ entered'
        BY <1>3, <1>4, <1>5, <2>2, <3>1
      <4> QED
        BY <1>3, <4>1 DEF ClientAsked
    <3>2. CASE i # 1
      <4>1. i - 1 \in 1 .. Len(toClient) - 1 /\ (i - 1) + 1 = i
        BY <1>2, <3>2
      <4>2. i - 1 \in 1 .. Len(toClient') /\ toClient'[i - 1] = toClient[i]
        BY <1>3, <4>1
      <4> QED
        BY <1>3, <2>2, <4>2 DEF ClientAsked
    <3> QED
      BY <3>1, <3>2
  <2> QED
    BY <1>10, <2>1, <2>2 DEF ClientAsked
<1>11. ClientAsked => ClientAsked'
  <2>1. ~isReady => ClientAsked'
    BY <1>3 DEF ClientAsked
  <2> QED
    BY <1>10, <2>1
<1>12. ASSUME StartInfoPending, NothingDropped, state = "ready", ~isReady
       PROVE  Told("CON_READY")' \/ Sent("STARTINFO")'
  <2>1. CASE x.kind = "CON_READY"
    <3>1. wanted = NoMap
      BY <1>1, <1>12, <2>1 DEF NothingDropped, ToldInOrder
    <3> QED
      BY <1>4, <1>8, <2>1, <3>1
  <2>2. CASE x.kind # "CON_READY"
    BY <1>6, <1>7, <1>12, <2>2 DEF StartInfoPending
  <2> QED
    BY <2>1, <2>2
<1>13. StartInfoPending /\ NothingDropped => StartInfoPending'
  BY <1>3, <1>12 DEF StartInfoPending
<1> QED
  BY <1>9, <1>11, <1>13

LEMMA UnderWayStep ==
  ASSUME IInv, ToldInOrder, [Next]_vars
  PROVE  /\ ServerAnswered => ServerAnswered'
         /\ ClientAsked => ClientAsked'
         /\ StartInfoPending /\ NothingDropped => StartInfoPending'
<1>1. CASE LoadMap
  BY <1>1, UnderWayLoadMap
<1>2. CASE FinishMapDownload
  BY <1>2, UnderWayFinish
<1>3. CASE ServerReceives
  BY <1>3, UnderWayServerReceives
<1>4. CASE ClientReceives
  BY <1>4, UnderWayClientReceives
<1>5. CASE \/ Tick \/ DoSnapshot \/ SendInput \/ SwitchSnapshot
           \/ \E i \in inputs : OnInput(i)
           \/ \E p \in packets : ReceivePacket(p)
           \/ UNCHANGED vars
  <2>1. UNCHANGED <<map, state, isReady, loaded, wanted, entered, toClient, toServer>>
    BY <1>5 DEF Tick, DoSnapshot, SendInput, SwitchSnapshot, OnInput, ReceivePacket, vars,
                serverVars, clientVars, connVars
  <2> QED
    BY <2>1, UnderWayUnchanged
<1> QED
  BY <1>1, <1>2, <1>3, <1>4, <1>5 DEF Next

\* With nothing under way, only the start info can be missing.
LEMMA RestMeans ==
  ASSUME IInv, ServerAnswered, ClientAsked, AtRest
  PROVE  Plays \/ (state = "ready" /\ ~isReady)
<1>1. /\ wanted = NoMap /\ \A kind : ~Told(kind) /\ ~Sent(kind)
      /\ ~\E i \in 1 .. Len(toClient) : TRUE
  BY Lengths DEF AtRest, Told, Sent
<1>2. state \in {"connecting", "ready", "ingame"}
  BY DEF IInv, ServerOK
<1>3. state = "ingame" \/ (state = "ready" /\ ~isReady)
  BY <1>1, <1>2 DEF ServerAnswered
<1>4. ASSUME state = "ingame"
      PROVE  Plays
  <2>1. entered /\ seen = map
    BY <1>1, <1>4 DEF ServerAnswered, ClientAsked
  <2>2. seen = loaded
    BY <1>1 DEF seen
  <2> QED
    BY <1>4, <2>1, <2>2 DEF Plays
<1> QED
  BY <1>3, <1>4

\* However many map changes overlap, and whatever is late: while the client does not
\* play on the last map, a message of a map change is under way or a map is
\* downloaded, unless the server waits for the start info (OnNetMsgReady,
\* OnStartInfoNetMessage and OnNetMsgEnterGame ignore what comes in another state,
\* but not the last that comes).
THEOREM OnlyStartInfoMissing == Spec => []PlaysOrWaits
<1>1. Init => ServerAnswered /\ ClientAsked
  BY DEF Init, ServerAnswered, ClientAsked, seen, NoMap
<1>2. /\ IInv /\ MapInv /\ [Next]_vars /\ ServerAnswered => ServerAnswered'
      /\ IInv /\ MapInv /\ [Next]_vars /\ ClientAsked => ClientAsked'
  BY UnderWayStep DEF MapInv
<1>3. IInv /\ ServerAnswered /\ ClientAsked => PlaysOrWaits
  BY RestMeans DEF PlaysOrWaits
<1> QED
  BY <1>1, <1>2, <1>3, Invariance, MapInvariance, PTL DEF Spec

\* If the client never drops a NETMSG_CON_READY because the map is still downloaded,
\* not even the start info is missing: it plays on the last map when nothing is left
\* to be done.  What EntersGame says besides is that something is done until then.
THEOREM PlaysIfNothingDropped == Spec /\ [][NothingDropped]_vars => []PlaysAtRest
<1>1. Init => ServerAnswered /\ ClientAsked /\ StartInfoPending
  BY DEF Init, ServerAnswered, ClientAsked, StartInfoPending, seen, NoMap
<1>2. /\ IInv /\ MapInv /\ [Next]_vars /\ ServerAnswered => ServerAnswered'
      /\ IInv /\ MapInv /\ [Next]_vars /\ ClientAsked => ClientAsked'
  BY UnderWayStep DEF MapInv
<1>3. IInv /\ MapInv /\ [Next]_vars /\ [NothingDropped]_vars /\ StartInfoPending
        => StartInfoPending'
  <2> SUFFICES ASSUME IInv, MapInv, [Next]_vars, [NothingDropped]_vars, StartInfoPending
               PROVE  StartInfoPending'
    OBVIOUS
  <2>1. CASE NothingDropped
    BY <2>1, UnderWayStep DEF MapInv
  <2>2. CASE UNCHANGED vars
    <3>1. UNCHANGED <<map, state, isReady, loaded, wanted, entered, toClient, toServer>>
      BY <2>2 DEF vars, serverVars, clientVars, connVars
    <3> QED
      BY <3>1, UnderWayUnchanged
  <2> QED
    BY <2>1, <2>2
<1>4. IInv /\ ServerAnswered /\ ClientAsked /\ StartInfoPending => PlaysAtRest
  <2> SUFFICES ASSUME IInv, ServerAnswered, ClientAsked, StartInfoPending, AtRest
               PROVE  Plays
    BY DEF PlaysAtRest
  <2>1. ~Told("CON_READY") /\ ~Sent("STARTINFO")
    BY Lengths DEF AtRest, Told, Sent
  <2> QED
    BY <2>1, RestMeans DEF StartInfoPending
<1> QED
  BY <1>1, <1>2, <1>3, <1>4, Invariance, MapInvariance, PTL DEF Spec
=============================================================================
