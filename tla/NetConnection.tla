--------------------------- MODULE NetConnection ---------------------------
(***************************************************************************)
(* CNetConnection (src/src/engine/shared/network_conn.cpp) and             *)
(* CPacketChunkUnpacker (network.cpp): the sequenced, acknowledged and     *)
(* retransmitted stream of vital chunks between the client and its slot on *)
(* the server, from the moment both ends are ONLINE until they are         *)
(* OFFLINE.  The UDP network between them loses, duplicates and reorders   *)
(* packets.                                                                *)
(*                                                                         *)
(* Time is abstracted to the timers the code compares it with: Update is   *)
(* given the set of timers that have run out, any set of them.  The bytes  *)
(* of a chunk are abstracted to its position in its sender's stream (id),  *)
(* the sizes of chunks to the freedom of where a packet is cut.            *)
(***************************************************************************)
EXTENDS Integers, Sequences, FiniteSets

CONSTANTS
  Client, Server,     \* the two endpoints
  MaxSequence,        \* NET_MAX_SEQUENCE: sequence numbers are taken modulo it
  MaxPacketChunks,    \* NET_MAX_PACKET_CHUNKS
  BufferChunks,       \* how many chunks fit into m_Buffer
  Window,             \* bound: unacknowledged vital chunks an application leaves outstanding
  MaxSent,            \* bound: vital chunks each endpoint sends in all
  MaxNet,             \* bound: packets in flight
  Talkers             \* bound: the endpoints that also send chunks which are not vital

Endpoint == {Client, Server}
Peer(e) == IF e = Client THEN Server ELSE Client

ASSUME EndpointAssumption == Client # Server

\* Half of the sequence space must exceed what is outstanding, or IsSeqInBackroom
\* takes a chunk that is still to come for one that is long gone.
ASSUME WindowAssumption ==
  /\ MaxSequence \in Nat \ {0}
  /\ Window \in Nat
  /\ Window + (MaxSequence \div 2) < MaxSequence

ASSUME BoundsAssumption ==
  /\ MaxPacketChunks \in Nat \ {0}
  /\ BufferChunks \in Nat
  /\ MaxNet \in Nat
  /\ MaxSent \in [Endpoint -> Nat]
  /\ Talkers \subseteq Endpoint

VARIABLES
  state,              \* m_State: ONLINE, ERROR (the peer has closed) or OFFLINE
  sequence,           \* m_Sequence: number of the last vital chunk queued
  ack,                \* m_Ack: number of the last vital chunk received in sequence
  peerAck,            \* m_PeerAck: newest acknowledgement received
  buffer,             \* m_Buffer: vital chunks kept for retransmission
  construct,          \* m_Construct: the packet being filled
  resendRequested,    \* m_ResendRequested
  inbox,              \* CPacketChunkUnpacker: chunks of the packet being unpacked
  net,                \* packets in flight
  \* history variables: stream positions behind the sequence numbers
  sent,               \* vital chunks queued so far
  acked,              \* the stream position peerAck stands for
  unsaved,            \* chunks that found m_Buffer full and were not kept
  delivered           \* vital chunks handed to the application

connVars == <<state, sequence, ack, peerAck, buffer, construct, resendRequested>>
histVars == <<sent, acked, unsaved, delivered>>
vars == <<connVars, inbox, net, histVars>>

-----------------------------------------------------------------------------
(* Chunks and packets.                                                     *)

Chunk == [vital : BOOLEAN, seq : 0 .. MaxSequence - 1, id : Nat]
VitalChunk(seq, id) == [vital |-> TRUE, seq |-> seq, id |-> id]
PlainChunk == [vital |-> FALSE, seq |-> 0, id |-> 0]

Kind == {"chunks", "keepalive", "close"}
Packet == [to : Endpoint, kind : Kind, ack : 0 .. MaxSequence - 1, ackId : Nat,
           resend : BOOLEAN, chunks : Seq(Chunk)]

EmptyConstruct == [chunks |-> <<>>, resend |-> FALSE]

DataPacket(e, chunks, resend) ==
  [to |-> Peer(e), kind |-> "chunks", ack |-> ack[e], ackId |-> Len(delivered[e]),
   resend |-> resend, chunks |-> chunks]
ControlPacket(e, kind) ==
  [to |-> Peer(e), kind |-> kind, ack |-> ack[e], ackId |-> Len(delivered[e]),
   resend |-> FALSE, chunks |-> <<>>]

\* The number of the vital chunk that follows number s, and what it would be if it did
\* not wrap around.
NextSequenceUnbounded(s) == s + 1
NextSequence(s) == (s + 1) % MaxSequence

\* CNetBase::IsSeqInBackroom, with a backroom that is one number too large.
IsSeqInLargeBackroom(seq, a) ==
  LET bottom == a - (MaxSequence \div 2) - 1
  IN  IF bottom < 0 THEN seq <= a \/ seq >= bottom + MaxSequence
                    ELSE seq <= a /\ seq >= bottom

\* CNetBase::IsSeqInBackroom: is seq one of the numbers up to and including a?
IsSeqInBackroom(seq, a) ==
  LET bottom == a - (MaxSequence \div 2)
  IN  IF bottom < 0 THEN seq <= a \/ seq >= bottom + MaxSequence
                    ELSE seq <= a /\ seq >= bottom

\* The check at the head of Feed without its lower bound.
IsAckNotAhead(e, a) == sequence[e] < peerAck[e] \/ a <= sequence[e]

\* The check at the head of Feed: an acknowledgement lies between the newest one
\* received and the last number used.
IsAckValid(e, a) ==
  IF sequence[e] >= peerAck[e] THEN a >= peerAck[e] /\ a <= sequence[e]
                               ELSE a >= peerAck[e] \/ a <= sequence[e]

-----------------------------------------------------------------------------
(* Filling packets.                                                        *)

\* Flush: what goes out, and what is left in m_Construct.
FlushOut(e, c) == IF c.chunks = <<>> /\ ~c.resend THEN {} ELSE {DataPacket(e, c.chunks, c.resend)}

\* The pairs of neighbours in a set of positions.
Neighbours(P) == {p \in P \X P : p[1] < p[2] /\ \A c \in P : c <= p[1] \/ p[2] <= c}

\* QueueChunkEx for each chunk of the sequence new: before a chunk is appended the
\* packet is flushed if it has no room left.  Whether it has depends on the sizes of
\* the chunks, so any set of flush points is possible that keeps packets within
\* MaxPacketChunks; last is the last of them, 0 if there is none.
Queueings(e, new) ==
  LET old == construct[e]
      all == old.chunks \o new
      FlushPoints == {i \in 1 .. Len(all) - 1 : i >= Len(old.chunks)}
      Splits == {s \in (SUBSET FlushPoints) \X (FlushPoints \cup {0}) :
                   /\ s[2] \in s[1] \cup {0}
                   /\ \A i \in s[1] : i <= s[2]
                   /\ \A p \in Neighbours(s[1] \cup {0, Len(all)}) : p[2] - p[1] <= MaxPacketChunks}
      Sent(points) == {DataPacket(e, SubSeq(all, p[1] + 1, p[2]), old.resend /\ p[1] = 0) :
                         p \in Neighbours(points \cup {0})}
      Left(last) == [chunks |-> SubSeq(all, last + 1, Len(all)), resend |-> old.resend /\ last = 0]
  IN  {[out |-> Sent(s[1]), left |-> Left(s[2])] : s \in Splits}

\* What is sent displaces older packets when more than MaxNet would be in flight.
Transmit(out) ==
  IF Cardinality(net \cup out) <= MaxNet
  THEN net' = net \cup out
  ELSE \E kept \in SUBSET (net \cup out) :
         /\ Cardinality(kept) = MaxNet
         /\ out \subseteq kept \/ kept \subseteq out
         /\ net' = kept

Flushed(e) ==
  /\ construct' = [construct EXCEPT ![e] = EmptyConstruct]
  /\ Transmit(FlushOut(e, construct[e]))

-----------------------------------------------------------------------------
(* Sending.                                                                *)

\* Bound on the age of packets: none outlives MaxSequence - 2 further vital chunks
\* of the endpoint it came from, and no acknowledgement is a whole cycle old.
FromTo(e) == {p \in net : p.to = Peer(e)}
TravellingIds(e) ==
  LET Ids(s) == {s[i].id : i \in {j \in DOMAIN s : s[j].vital}}
  IN  (UNION {Ids(p.chunks) : p \in FromTo(e)}) \cup Ids(inbox[Peer(e)]) \cup Ids(construct[e].chunks)
Lifetime(e) ==
  /\ \A id \in TravellingIds(e) : sent[e] + 1 - id < MaxSequence - 1
  /\ \A p \in net : p.to = e => sent[e] + 1 - p.ackId < MaxSequence

\* QueueChunk with NET_CHUNKFLAG_VITAL, and the flush the caller may ask for.  On the
\* server (CNetServer::Send) a failed QueueChunk is not followed by the flush.
SendVital(e, flush) ==
  LET seq   == NextSequence(sequence[e])
      id    == sent[e] + 1
      saved == Len(buffer[e]) < BufferChunks
  IN  /\ state[e] # "OFFLINE"
      /\ sent[e] < MaxSent[e]
      /\ sent[e] - acked[e] < Window
      /\ Lifetime(e)
      /\ sequence' = [sequence EXCEPT ![e] = seq]
      /\ sent' = [sent EXCEPT ![e] = id]
      /\ \/ /\ state[e] = "ERROR"
            /\ IF flush /\ e = Client THEN Flushed(e) ELSE UNCHANGED <<construct, net>>
            /\ UNCHANGED <<buffer, unsaved>>
         \/ /\ state[e] = "ONLINE"
            /\ IF saved
               THEN /\ buffer' = [buffer EXCEPT ![e] = Append(@, VitalChunk(seq, id))]
                    /\ UNCHANGED unsaved
               ELSE /\ unsaved' = [unsaved EXCEPT ![e] = @ \cup {id}]
                    /\ UNCHANGED buffer
            /\ \E q \in Queueings(e, <<VitalChunk(seq, id)>>) :
                 IF flush /\ (saved \/ e = Client)
                 THEN /\ construct' = [construct EXCEPT ![e] = EmptyConstruct]
                      /\ Transmit(q.out \cup FlushOut(e, q.left))
                 ELSE /\ construct' = [construct EXCEPT ![e] = q.left]
                      /\ Transmit(q.out)
      /\ UNCHANGED <<state, ack, peerAck, resendRequested, inbox, acked, delivered>>

\* QueueChunk without NET_CHUNKFLAG_VITAL (snapshots, inputs), and the flush the caller
\* may ask for; the flush alone, in ERROR, is Flush below.
SendPlain(e, flush) ==
  /\ e \in Talkers
  /\ state[e] = "ONLINE"
  /\ \E q \in Queueings(e, <<PlainChunk>>) :
       IF flush
       THEN /\ construct' = [construct EXCEPT ![e] = EmptyConstruct]
            /\ Transmit(q.out \cup FlushOut(e, q.left))
       ELSE /\ construct' = [construct EXCEPT ![e] = q.left]
            /\ Transmit(q.out)
  /\ UNCHANGED <<state, sequence, ack, peerAck, buffer, resendRequested, inbox, histVars>>

\* Flush from outside: CNetServer::EndFlushBatch, which checks the state, and
\* CNetClient::Flush, which does not.
Flush(e) ==
  /\ state[e] = "ONLINE" \/ (state[e] = "ERROR" /\ e = Client)
  /\ FlushOut(e, construct[e]) # {}
  /\ Flushed(e)
  /\ UNCHANGED <<state, sequence, ack, peerAck, buffer, resendRequested, inbox, histVars>>

-----------------------------------------------------------------------------
(* Receiving.                                                              *)

\* AckChunks: drop the saved chunks up to the first one not covered by the
\* acknowledgement a.  n is how many.
AckChunks(e, a) ==
  \E n \in 0 .. Len(buffer[e]) :
    /\ \A i \in 1 .. n : IsSeqInBackroom(buffer[e][i].seq, a)
    /\ n < Len(buffer[e]) => ~IsSeqInBackroom(buffer[e][n + 1].seq, a)
    /\ buffer' = [buffer EXCEPT ![e] = SubSeq(@, n + 1, Len(@))]

\* AnswerResendRequest: with a request pending and the rate limit not in the way
\* (answer), Resend queues every saved chunk again.
ResendQueue(e, requested, answer) == IF requested /\ answer THEN buffer[e] ELSE <<>>

\* Recv and Feed: packet p reaches e, whose unpacker is empty.  It stays in flight: the
\* network may deliver it again, until it is lost.  Feed ignores a packet whose
\* acknowledgement is not valid, and is not called for an ERROR or OFFLINE connection.
Receive(e, p, answer) ==
  LET requested == resendRequested[e] \/ p.resend
  IN  /\ p \in net
      /\ p.to = e
      /\ state[e] = "ONLINE"
      /\ inbox[e] = <<>>
      /\ IsAckValid(e, p.ack)
      /\ peerAck' = [peerAck EXCEPT ![e] = p.ack]
      /\ acked' = [acked EXCEPT ![e] = p.ackId]
      /\ resendRequested' = [resendRequested EXCEPT ![e] = requested /\ ~answer]
      /\ \E q \in Queueings(e, ResendQueue(e, requested, answer)) :
           /\ construct' = [construct EXCEPT ![e] = q.left]
           /\ Transmit(q.out)
      /\ \/ /\ p.kind = "close"
            /\ state' = [state EXCEPT ![e] = "ERROR"]
            /\ UNCHANGED <<buffer, inbox>>
         \/ /\ p.kind # "close"
            /\ AckChunks(e, p.ack)
            /\ inbox' = [inbox EXCEPT ![e] = p.chunks]
            /\ UNCHANGED state
      /\ UNCHANGED <<sequence, ack, sent, unsaved, delivered>>

\* Is c the vital chunk the endpoint waits for?  The first two forms are laxer than the code:
\* one takes any chunk that is not old, the other takes the last one again.
IsNotOld(e, c) == ~IsSeqInBackroom(c.seq, ack[e])
IsNextOrLast(e, c) == c.seq \in {ack[e], NextSequence(ack[e])}
IsNext(e, c) == c.seq = NextSequence(ack[e])

\* UnpackNextChunk: the next chunk of the packet is handed to the application, or
\* skipped: a vital one that is not the next in sequence has either been received
\* before or shows that chunks are missing, which asks for a resend.
UnpackNextChunk(e) ==
  LET c   == Head(inbox[e])
      old == IsSeqInBackroom(c.seq, ack[e])
  IN  /\ inbox[e] # <<>>
      /\ inbox' = [inbox EXCEPT ![e] = Tail(@)]
      /\ \/ /\ c.vital /\ IsNext(e, c)
            /\ ack' = [ack EXCEPT ![e] = c.seq]
            /\ delivered' = [delivered EXCEPT ![e] = Append(@, c.id)]
            /\ UNCHANGED construct
         \/ /\ c.vital /\ ~IsNext(e, c) /\ ~old
            /\ construct' = [construct EXCEPT ![e].resend = TRUE]
            /\ UNCHANGED <<ack, delivered>>
         \/ /\ c.vital => ~IsNext(e, c) /\ old
            /\ UNCHANGED <<ack, delivered, construct>>
      /\ UNCHANGED <<state, sequence, peerAck, buffer, resendRequested, net, sent, acked, unsaved>>

-----------------------------------------------------------------------------
(* Timers and the end of the connection.                                   *)

\* Reset
Reset(e) ==
  /\ state' = [state EXCEPT ![e] = "OFFLINE"]
  /\ sequence' = [sequence EXCEPT ![e] = 0]
  /\ ack' = [ack EXCEPT ![e] = 0]
  /\ peerAck' = [peerAck EXCEPT ![e] = 0]
  /\ buffer' = [buffer EXCEPT ![e] = <<>>]
  /\ construct' = [construct EXCEPT ![e] = EmptyConstruct]
  /\ resendRequested' = [resendRequested EXCEPT ![e] = FALSE]
  /\ inbox' = [inbox EXCEPT ![e] = <<>>]

\* The application gives up the connection (CNetServer::Drop, CNetClient::Disconnect).
\* The peer is told, unless it was the one who closed.
Disconnect(e) ==
  /\ state[e] # "OFFLINE"
  /\ Reset(e)
  /\ Transmit(IF state[e] = "ONLINE" THEN {ControlPacket(e, "close")} ELSE {})
  /\ UNCHANGED histVars

\* The timers Update compares with, those that can make a difference: the rate limit on
\* resend requests, the second after which the oldest saved chunk is sent again, the half
\* second after which m_Construct is flushed, the second after which a keepalive is sent,
\* and conn_timeout without a packet or without an acknowledgement of the oldest chunk.
Due(e) ==
  {due \in SUBSET {"answer", "resend", "flush", "keepalive", "timeout"} :
     /\ "answer" \in due => resendRequested[e]
     /\ "resend" \in due => buffer[e] # <<>> /\ due \cap {"answer", "timeout"} = {}
     /\ "keepalive" \in due => "flush" \in due
     /\ "flush" \in due => "timeout" \notin due}

\* What Update would queue if it did not look at the age of the oldest chunk.
AnswerQueue(e, due) == IF "answer" \in due THEN buffer[e] ELSE <<>>

\* What Update queues for retransmission: everything if the peer has asked for it,
\* else the oldest saved chunk once it has gone unacknowledged for a second.
RetransmitQueue(e, due) ==
  CASE "answer" \in due -> buffer[e]
    [] "resend" \in due -> <<Head(buffer[e])>>
    [] OTHER -> <<>>

\* Update.  When the connection has timed out it is in ERROR, and CNetServer::Update and
\* CNetClient::Update disconnect it at once, without telling the peer.
Update(e, due) ==
  /\ due \in Due(e)
  /\ state[e] = "ONLINE"
  /\ inbox[e] = <<>>
  /\ \E q \in Queueings(e, RetransmitQueue(e, due)) :
       \/ /\ "timeout" \in due
          /\ Reset(e)
          /\ Transmit(q.out)
       \/ /\ "timeout" \notin due
          /\ resendRequested' = [resendRequested EXCEPT ![e] = @ /\ "answer" \notin due]
          /\ \/ /\ "flush" \in due /\ q.out = {} /\ FlushOut(e, q.left) # {}
                /\ construct' = [construct EXCEPT ![e] = EmptyConstruct]
                /\ Transmit(FlushOut(e, q.left))
             \/ /\ "keepalive" \in due /\ q.out = {} /\ FlushOut(e, q.left) = {}
                /\ construct' = [construct EXCEPT ![e] = q.left]
                /\ Transmit({ControlPacket(e, "keepalive")})
             \/ /\ \/ due \cap {"flush", "keepalive"} = {}
                   \/ q.out # {}
                   \/ "keepalive" \notin due /\ FlushOut(e, q.left) = {}
                /\ construct' = [construct EXCEPT ![e] = q.left]
                /\ Transmit(q.out)
          /\ UNCHANGED <<state, sequence, ack, peerAck, buffer, inbox>>
  /\ UNCHANGED histVars

\* The other half of Update: CNetServer::Update and CNetClient::Update disconnect
\* a connection whose peer has closed it.
UpdateError(e) ==
  /\ state[e] = "ERROR"
  /\ Disconnect(e)

\* The network loses a packet.
Lose(p) ==
  /\ net' = net \ {p}
  /\ UNCHANGED <<connVars, inbox, histVars>>

-----------------------------------------------------------------------------

\* Both ends as the handshake leaves them: CNetServer::TryAcceptClient has called
\* DirectInit for the slot, the client has received NET_CTRLMSG_CONNECTACCEPT.
Init ==
  /\ state = [e \in Endpoint |-> "ONLINE"]
  /\ sequence = [e \in Endpoint |-> 0]
  /\ ack = [e \in Endpoint |-> 0]
  /\ peerAck = [e \in Endpoint |-> 0]
  /\ buffer = [e \in Endpoint |-> <<>>]
  /\ construct = [e \in Endpoint |-> EmptyConstruct]
  /\ resendRequested = [e \in Endpoint |-> FALSE]
  /\ inbox = [e \in Endpoint |-> <<>>]
  /\ net = {}
  /\ sent = [e \in Endpoint |-> 0]
  /\ acked = [e \in Endpoint |-> 0]
  /\ unsaved = [e \in Endpoint |-> {}]
  /\ delivered = [e \in Endpoint |-> <<>>]

Step(e) ==
  \/ \E flush \in BOOLEAN : SendVital(e, flush) \/ SendPlain(e, flush)
  \/ Flush(e)
  \/ \E p \in net, answer \in BOOLEAN : Receive(e, p, answer)
  \/ UnpackNextChunk(e)
  \/ \E due \in Due(e) : Update(e, due)
  \/ UpdateError(e)
  \/ Disconnect(e)

Next == \/ \E e \in Endpoint : Step(e)
        \/ \E p \in net : Lose(p)

Spec == Init /\ [][Next]_vars

\* Fairness.  Both ends keep pumping their connection: the application takes what has been
\* received, and Update is called again and again, between two rounds of Recv, until its
\* timers have run out.
Pumping(e) ==
  /\ WF_vars(UnpackNextChunk(e))
  /\ SF_vars(Update(e, {"resend"}))
  /\ SF_vars(Update(e, {"flush"}))
  /\ SF_vars(Update(e, {"flush", "keepalive"}))

\* The network does not lose every packet that carries vital chunk id to e, nor every one
\* that acknowledges chunk id of e, if such packets are in flight again and again.
InFlight(e, p) == p.to = e /\ state[e] = "ONLINE" /\ IsAckValid(e, p.ack)
Carries(p, id) == \E i \in DOMAIN p.chunks : p.chunks[i].vital /\ p.chunks[i].id = id
FairLoss(e) ==
  /\ \A id \in 1 .. MaxSent[Peer(e)] :
       []<>(Len(delivered[e]) < id /\ \E p \in net : InFlight(e, p) /\ Carries(p, id))
         => []<><<\E p \in net, answer \in BOOLEAN : Carries(p, id) /\ Receive(e, p, answer)>>_vars
  /\ \A id \in 1 .. MaxSent[e] :
       []<>(acked[e] < id /\ \E p \in net : InFlight(e, p) /\ p.ackId >= id)
         => []<><<\E p \in net, answer \in BOOLEAN : p.ackId >= id /\ Receive(e, p, answer)>>_vars

Fairness == \A e \in Endpoint : Pumping(e) /\ FairLoss(e)

FairSpec == Spec /\ Fairness

-----------------------------------------------------------------------------
(* Properties.                                                             *)

TypeOK ==
  /\ state \in [Endpoint -> {"ONLINE", "ERROR", "OFFLINE"}]
  /\ sequence \in [Endpoint -> 0 .. MaxSequence - 1]
  /\ ack \in [Endpoint -> 0 .. MaxSequence - 1]
  /\ peerAck \in [Endpoint -> 0 .. MaxSequence - 1]
  /\ buffer \in [Endpoint -> Seq(Chunk)]
  /\ construct \in [Endpoint -> [chunks : Seq(Chunk), resend : BOOLEAN]]
  /\ resendRequested \in [Endpoint -> BOOLEAN]
  /\ inbox \in [Endpoint -> Seq(Chunk)]
  /\ net \in SUBSET Packet
  /\ sent \in [Endpoint -> Nat]
  /\ acked \in [Endpoint -> Nat]
  /\ unsaved \in [Endpoint -> SUBSET Nat]
  /\ delivered \in [Endpoint -> Seq(Nat)]

\* The stream of vital chunks an application is handed is the beginning of the stream
\* its peer sent: nothing is skipped, repeated or reordered, whatever the network does
\* and however often the sequence numbers wrap around.
InOrder ==
  \A e \in Endpoint :
    /\ Len(delivered[e]) <= sent[Peer(e)]
    /\ \A i \in 1 .. Len(delivered[e]) : delivered[e][i] = i

\* A vital chunk that the peer has not been handed can still be retransmitted, unless
\* it found the buffer full: AckChunks never drops a chunk on the strength of an
\* acknowledgement that does not cover it.
Retransmittable ==
  \A e \in Endpoint : state[e] = "ONLINE" =>
    \A id \in Len(delivered[Peer(e)]) + 1 .. sent[e] :
      id \in unsaved[e] \/ \E i \in DOMAIN buffer[e] : buffer[e][i].id = id

\* Nobody is moved back: an acknowledgement that is late never takes the place of a newer
\* one.  AckChunks works with the newest one received only because Feed checks the range.
AckMonotonic ==
  [][\A e \in Endpoint : acked'[e] >= acked[e]]_vars

\* A vital chunk is skipped in silence, as one of the backroom, only after it has been handed
\* to the application: a chunk that is still missing is never taken for an old one.
OnlyOldSkipped ==
  [][\A e \in Endpoint :
       (/\ inbox[e] # <<>> /\ inbox'[e] = Tail(inbox[e]) /\ state'[e] # "OFFLINE"
        /\ Head(inbox[e]).vital
        /\ delivered'[e] = delivered[e]
        /\ ~construct'[e].resend)
         => Head(inbox[e]).id <= Len(delivered[e])]_vars

\* A vital chunk reaches the peer's application although the network loses packets, as
\* long as both ends are ONLINE and no chunk has found the buffer full: the timer of
\* Update retransmits it until it is acknowledged.
Delivery ==
  \A e \in Endpoint : \A id \in 1 .. MaxSent[e] :
    sent[e] >= id ~> \/ Len(delivered[Peer(e)]) >= id
                     \/ unsaved[e] # {}
                     \/ \E f \in Endpoint : state[f] # "ONLINE"

Channel == INSTANCE ReliableChannel
ChannelSpec == Channel!Spec
=============================================================================
