------------------------ MODULE NetConnectionProofs ------------------------
(***************************************************************************)
(* Proofs about NetConnection: the inductive invariant behind the ordered  *)
(* delivery of vital chunks, for every size of the sequence space, of the  *)
(* window, of the packets and of the buffer.                               *)
(***************************************************************************)
EXTENDS NetConnection, SequenceNumbers, SequenceTheorems

-----------------------------------------------------------------------------
(* The inductive invariant.                                                *)

\* Chunks that e may have under way: the vital ones carry the number of their position
\* and are younger than a cycle of the sequence numbers.
SentChunks(e) ==
  {c \in Chunk : c.vital => /\ c.id \in 1 .. sent[e]
                            /\ c.seq = c.id % MaxSequence
                            /\ sent[e] - c.id < MaxSequence - 1}

\* The sequence numbers are the remainders of the stream positions.
Numbers ==
  \A e \in Endpoint : state[e] # "OFFLINE" =>
    /\ sequence[e] = sent[e] % MaxSequence
    /\ ack[e] = Len(delivered[e]) % MaxSequence
    /\ peerAck[e] = acked[e] % MaxSequence

\* Acknowledged <= delivered <= sent <= acknowledged + Window.
Progress ==
  \A e \in Endpoint :
    /\ acked[e] <= Len(delivered[Peer(e)])
    /\ Len(delivered[Peer(e)]) <= sent[e]
    /\ sent[e] <= acked[e] + Window

\* What has been delivered is the stream itself.
Contents ==
  \A e \in Endpoint : \A i \in 1 .. Len(delivered[e]) : delivered[e][i] = i

\* Chunks under way, in the packet being filled or being unpacked.
Travelling ==
  \A e \in Endpoint :
    /\ construct[e].chunks \in Seq(SentChunks(e))
    /\ inbox[e] \in Seq(SentChunks(Peer(e)))

\* A packet in flight carries chunks of its sender and an acknowledgement of what its sender
\* has been handed, less than a cycle old.
GoodPacket(p) ==
  /\ p \in Packet
  /\ p.chunks \in Seq(SentChunks(Peer(p.to)))
  /\ p.ack = p.ackId % MaxSequence
  /\ p.ackId <= Len(delivered[Peer(p.to)])
  /\ sent[p.to] - p.ackId < MaxSequence

Packets == \A p \in net : GoodPacket(p)

\* The saved chunks of e are the unacknowledged ones, in order.
SavedChunks(e) ==
  /\ \A i \in 1 .. Len(buffer[e]) :
       /\ buffer[e][i].vital
       /\ buffer[e][i].id \in acked[e] + 1 .. sent[e]
       /\ buffer[e][i].seq = buffer[e][i].id % MaxSequence
  /\ \A i, j \in 1 .. Len(buffer[e]) : i < j => buffer[e][i].id < buffer[e][j].id
  /\ \A id \in acked[e] + 1 .. sent[e] :
       id \in unsaved[e] \/ \E i \in 1 .. Len(buffer[e]) : buffer[e][i].id = id

Saved == \A e \in Endpoint : state[e] = "ONLINE" => SavedChunks(e)

\* Only an ONLINE connection has a packet being unpacked.
Unpacking == \A e \in Endpoint : inbox[e] # <<>> => state[e] = "ONLINE"

IInv ==
  /\ TypeOK
  /\ Numbers
  /\ Progress
  /\ Contents
  /\ Travelling
  /\ Packets
  /\ Saved
  /\ Unpacking

-----------------------------------------------------------------------------
(* The endpoints and the constants.                                        *)

\* Each endpoint is the peer of its peer.
LEMMA Peers ==
  /\ \A e \in Endpoint : Peer(e) \in Endpoint /\ Peer(e) # e /\ Peer(Peer(e)) = e
  /\ \A e, f \in Endpoint : e = f \/ e = Peer(f)
BY EndpointAssumption DEF Endpoint, Peer

\* The arithmetic of the bounds: half the sequence numbers exceeds what may be outstanding.
LEMMA Constants ==
  /\ MaxSequence \in Nat \ {0}
  /\ Window \in Nat
  /\ MaxSequence \div 2 \in Nat
  /\ Window + (MaxSequence \div 2) < MaxSequence
  /\ Window < MaxSequence
  /\ Window <= MaxSequence \div 2
  /\ Window > 0 => Window < MaxSequence - 1
BY WindowAssumption

-----------------------------------------------------------------------------
(* The arithmetic of sequence numbers.                                     *)

\* A chunk that is still to come is not in the backroom of the last one received.
LEMMA BackroomAhead ==
  ASSUME NEW a \in Nat, NEW i \in Nat, a < i, i - a <= Window
  PROVE  ~IsSeqInBackroom(i % MaxSequence, a % MaxSequence)
<1> DEFINE N == MaxSequence
           h == MaxSequence \div 2
           r == a % N
           s == i % N
<1>1. /\ N \in Nat \ {0} /\ h \in Nat /\ Window \in Nat /\ Window + h < N
      /\ r \in 0 .. N - 1
  BY Constants, ModRange
<1>2. /\ r + (i - a) \in 0 .. N - 1      => s = r + (i - a)
      /\ r + (i - a) \in N .. 2 * N - 1  => s = r + (i - a) - N
  BY <1>1, ModShift, ZenonT(40)
<1>3. IsSeqInBackroom(s, r) <=> IF r - h < 0 THEN s <= r \/ s >= r - h + N
                                             ELSE s <= r /\ s >= r - h
  BY DEF IsSeqInBackroom
<1> HIDE DEF N, h, r, s
<1>4. ~IsSeqInBackroom(s, r)
  BY <1>1, <1>2, <1>3
<1> QED
  BY <1>4 DEF N, r, s

\* A chunk that is at most half a cycle old is in the backroom.
LEMMA BackroomBehind ==
  ASSUME NEW a \in Nat, NEW i \in Nat, i <= a, a - i <= MaxSequence \div 2
  PROVE  IsSeqInBackroom(i % MaxSequence, a % MaxSequence)
<1> DEFINE N == MaxSequence
           h == MaxSequence \div 2
           r == a % N
           s == i % N
<1>1. /\ N \in Nat \ {0} /\ h \in Nat /\ h < N /\ a - i <= h
      /\ r \in 0 .. N - 1
  BY Constants, ModRange
<1>2. /\ r + (i - a) \in 0 .. N - 1  => s = r + (i - a)
      /\ r + (i - a) \in -N .. -1    => s = r + (i - a) + N
  BY <1>1, ModShift, ZenonT(40)
<1>3. IsSeqInBackroom(s, r) <=> IF r - h < 0 THEN s <= r \/ s >= r - h + N
                                             ELSE s <= r /\ s >= r - h
  BY DEF IsSeqInBackroom
<1> HIDE DEF N, h, r, s
<1>4. IsSeqInBackroom(s, r)
  BY <1>1, <1>2, <1>3
<1> QED
  BY <1>4 DEF N, r, s

\* The range check of Feed lets no acknowledgement through that is older than the newest.
LEMMA AckInRange ==
  ASSUME NEW e \in Endpoint, NEW u \in Nat, NEW v \in Nat, NEW w \in Nat,
         u <= v, v - u < MaxSequence, w <= v, v - w < MaxSequence,
         sequence[e] = v % MaxSequence, peerAck[e] = u % MaxSequence,
         IsAckValid(e, w % MaxSequence)
  PROVE  u <= w
<1> DEFINE N == MaxSequence
           a == w % N
           p == u % N
           s == v % N
<1>1. N \in Nat \ {0} /\ a \in 0 .. N - 1
  BY Constants, ModRange
<1>2. /\ a + (u - w) \in 0 .. N - 1      => p = a + (u - w)
      /\ a + (u - w) \in N .. 2 * N - 1  => p = a + (u - w) - N
  BY <1>1, ModShift, ZenonT(40)
<1>3. /\ a + (v - w) \in 0 .. N - 1      => s = a + (v - w)
      /\ a + (v - w) \in N .. 2 * N - 1  => s = a + (v - w) - N
  BY <1>1, ModShift, ZenonT(40)
<1>4. IF s >= p THEN a >= p /\ a <= s ELSE a >= p \/ a <= s
  BY DEF IsAckValid
<1>5. v - u < N /\ v - w < N
  OBVIOUS
<1> HIDE DEF N, a, p, s
<1> QED
  BY <1>1, <1>2, <1>3, <1>4, <1>5

-----------------------------------------------------------------------------
(* Sequences of chunks.                                                    *)

\* A part of a sequence is a sequence over the same set.
LEMMA SubSeqType ==
  ASSUME NEW S, NEW s \in Seq(S), NEW m \in Nat \ {0}, NEW n \in 0 .. Len(s)
  PROVE  SubSeq(s, m, n) \in Seq(S)
<1>1. \A i \in m .. n : s[i] \in S
  OBVIOUS
<1> QED
  BY <1>1, SubSeqProperties

\* A sequence over a set is a sequence over every larger one.
LEMMA SeqOfSubset ==
  ASSUME NEW S, NEW T, S \subseteq T
  PROVE  Seq(S) \subseteq Seq(T)
OBVIOUS

\* The chunks of an endpoint's stream, as QueueChunkEx numbers them, are chunks.
LEMMA SentChunksType == \A e : SentChunks(e) \subseteq Chunk
BY DEF SentChunks

\* Whatever the flush points are, what goes out and what is left is made of the chunks that
\* were waiting and of the new ones.
LEMMA QueueingsType ==
  ASSUME NEW e, NEW S, NEW new \in Seq(S), NEW q \in Queueings(e, new),
         construct[e].chunks \in Seq(S), construct[e].resend \in BOOLEAN
  PROVE  /\ q.left \in [chunks : Seq(S), resend : BOOLEAN]
         /\ \A p \in q.out : \E s \in Seq(S), r \in BOOLEAN : p = DataPacket(e, s, r)
<1> DEFINE old == construct[e]
           all == old.chunks \o new
           FlushPoints == {i \in 1 .. Len(all) - 1 : i >= Len(old.chunks)}
           Sent(points) == {DataPacket(e, SubSeq(all, p[1] + 1, p[2]), old.resend /\ p[1] = 0) :
                              p \in Neighbours(points \cup {0})}
           Left(last) == [chunks |-> SubSeq(all, last + 1, Len(all)), resend |-> old.resend /\ last = 0]
<1>1. all \in Seq(S)
  OBVIOUS
<1>2. PICK s \in (SUBSET FlushPoints) \X (FlushPoints \cup {0}) :
        q = [out |-> Sent(s[1]), left |-> Left(s[2])]
  BY DEF Queueings
<1> HIDE DEF all
<1>3. q.left \in [chunks : Seq(S), resend : BOOLEAN]
  <2>1. s[2] \in 0 .. Len(all)
    BY <1>1, <1>2
  <2>2. SubSeq(all, s[2] + 1, Len(all)) \in Seq(S)
    BY <1>1, <2>1, SubSeqType
  <2> QED
    BY <1>2, <2>2
<1>4. ASSUME NEW p \in q.out
      PROVE  \E t \in Seq(S), r \in BOOLEAN : p = DataPacket(e, t, r)
  <2>1. PICK n \in Neighbours(s[1] \cup {0}) :
          p = DataPacket(e, SubSeq(all, n[1] + 1, n[2]), old.resend /\ n[1] = 0)
    BY <1>2, <1>4
  <2>2. n[1] \in 0 .. Len(all) /\ n[2] \in 0 .. Len(all)
    BY <1>1, <1>2 DEF Neighbours
  <2>3. SubSeq(all, n[1] + 1, n[2]) \in Seq(S)
    BY <1>1, <2>2, SubSeqType
  <2> QED
    BY <2>1, <2>3
<1> QED
  BY <1>3, <1>4

-----------------------------------------------------------------------------
(* What endpoints put into flight.                                         *)

\* What is handed to Transmit fits the stream and the acknowledgements of its sender.
LEMMA NewPacket ==
  ASSUME IInv, NEW e \in Endpoint, state[e] # "OFFLINE",
         NEW s \in Seq(SentChunks(e)), NEW r \in BOOLEAN, NEW kind \in {"keepalive", "close"}
  PROVE  GoodPacket(DataPacket(e, s, r)) /\ GoodPacket(ControlPacket(e, kind))
<1>1. /\ Peer(e) \in Endpoint /\ Peer(Peer(e)) = e
      /\ delivered[e] \in Seq(Nat) /\ Len(delivered[e]) \in Nat
      /\ ack[e] \in 0 .. MaxSequence - 1 /\ ack[e] = Len(delivered[e]) % MaxSequence
  BY Peers DEF IInv, TypeOK, Numbers
<1>2. sent[Peer(e)] - Len(delivered[e]) < MaxSequence
  <2>1. /\ acked[Peer(e)] <= Len(delivered[e])
        /\ sent[Peer(e)] <= acked[Peer(e)] + Window
    BY <1>1 DEF IInv, Progress
  <2>2. sent[Peer(e)] \in Nat /\ acked[Peer(e)] \in Nat
    BY <1>1 DEF IInv, TypeOK
  <2> QED
    BY <1>1, <2>1, <2>2, Constants
<1>3. Seq(SentChunks(e)) \subseteq Seq(Chunk) /\ <<>> \in Seq(SentChunks(e))
  BY SentChunksType, SeqOfSubset
<1>4. GoodPacket(DataPacket(e, s, r))
  BY <1>1, <1>2, <1>3 DEF GoodPacket, DataPacket, Packet, Kind
<1>5. GoodPacket(ControlPacket(e, kind))
  BY <1>1, <1>2, <1>3 DEF GoodPacket, ControlPacket, Packet, Kind
<1> QED
  BY <1>4, <1>5

\* Queueing chunks of the endpoint's stream puts good packets into flight.
LEMMA QueueingsGood ==
  ASSUME IInv, NEW e \in Endpoint, state[e] # "OFFLINE",
         NEW new \in Seq(SentChunks(e)), NEW q \in Queueings(e, new)
  PROVE  /\ q.left \in [chunks : Seq(SentChunks(e)), resend : BOOLEAN]
         /\ \A p \in q.out : GoodPacket(p)
         /\ \A p \in FlushOut(e, q.left) : GoodPacket(p)
<1>1. construct[e].chunks \in Seq(SentChunks(e)) /\ construct[e].resend \in BOOLEAN
  BY DEF IInv, TypeOK, Travelling
<1>2. /\ q.left \in [chunks : Seq(SentChunks(e)), resend : BOOLEAN]
      /\ \A p \in q.out : \E s \in Seq(SentChunks(e)), r \in BOOLEAN : p = DataPacket(e, s, r)
  BY <1>1, QueueingsType
<1>3. \A p \in FlushOut(e, q.left) : p = DataPacket(e, q.left.chunks, q.left.resend)
  BY DEF FlushOut
<1> QED
  BY <1>2, <1>3, NewPacket

\* Transmit puts at most the packets it is given into flight.
LEMMA TransmitBound ==
  ASSUME NEW out, Transmit(out)
  PROVE  net' \subseteq net \cup out
BY DEF Transmit

\* Packets stay good while nothing is sent or delivered.
LEMMA PacketsKept ==
  ASSUME IInv, UNCHANGED <<sent, delivered>>, NEW out, net' \subseteq net \cup out,
         \A p \in out : GoodPacket(p)
  PROVE  Packets'
<1>1. \A p : GoodPacket(p) => GoodPacket(p)'
  BY DEF GoodPacket, SentChunks
<1> QED
  BY <1>1 DEF IInv, Packets

\* The packets in flight have the type of a packet.
LEMMA PacketsType == Packets => net \in SUBSET Packet
BY DEF Packets, GoodPacket

-----------------------------------------------------------------------------
(* Every action preserves the invariant.                                   *)

\* Queueing without a new vital chunk of the application: m_Construct and the network change,
\* and possibly the flag of a resend request.
LEMMA ConstructStep ==
  ASSUME IInv, NEW e \in Endpoint, state[e] # "OFFLINE",
         NEW c \in [chunks : Seq(SentChunks(e)), resend : BOOLEAN],
         construct' = [construct EXCEPT ![e] = c],
         NEW out, net' \subseteq net \cup out, \A p \in out : GoodPacket(p),
         resendRequested' \in [Endpoint -> BOOLEAN],
         UNCHANGED <<state, sequence, ack, peerAck, buffer, inbox, histVars>>
  PROVE  IInv'
<1>1. SentChunks(e)' = SentChunks(e) /\ \A f : SentChunks(f)' = SentChunks(f)
  BY DEF SentChunks, histVars
<1>2. Packets'
  BY PacketsKept DEF histVars
<1>3. Travelling'
  BY <1>1 DEF IInv, Travelling, TypeOK
<1>4. TypeOK'
  <2>1. net' \in SUBSET Packet
    BY <1>2 DEF Packets, GoodPacket
  <2>2. c \in [chunks : Seq(Chunk), resend : BOOLEAN]
    BY SentChunksType, SeqOfSubset
  <2> QED
    BY <2>1, <2>2 DEF IInv, TypeOK, histVars
<1>5. Numbers' /\ Progress' /\ Contents' /\ Saved' /\ Unpacking'
  BY DEF IInv, Numbers, Progress, Contents, Saved, SavedChunks, Unpacking, histVars
<1> QED
  BY <1>2, <1>3, <1>4, <1>5 DEF IInv

\* The m_Construct that Flush leaves is well-formed.
LEMMA EmptyConstructType ==
  \A e : EmptyConstruct \in [chunks : Seq(SentChunks(e)), resend : BOOLEAN]
BY DEF EmptyConstruct

\* A chunk without NET_CHUNKFLAG_VITAL preserves the invariant.
LEMMA SendPlainStep ==
  ASSUME IInv, NEW e \in Endpoint, NEW flush \in BOOLEAN, SendPlain(e, flush)
  PROVE  IInv'
<1>1. <<PlainChunk>> \in Seq(SentChunks(e))
  BY Constants DEF PlainChunk, SentChunks, Chunk
<1>2. PICK q \in Queueings(e, <<PlainChunk>>) :
        IF flush
        THEN /\ construct' = [construct EXCEPT ![e] = EmptyConstruct]
             /\ Transmit(q.out \cup FlushOut(e, q.left))
        ELSE /\ construct' = [construct EXCEPT ![e] = q.left]
             /\ Transmit(q.out)
  BY DEF SendPlain
<1>3. /\ q.left \in [chunks : Seq(SentChunks(e)), resend : BOOLEAN]
      /\ \A p \in q.out \cup FlushOut(e, q.left) : GoodPacket(p)
  BY <1>1, QueueingsGood DEF SendPlain
<1>4. CASE flush
  <2>1. net' \subseteq net \cup (q.out \cup FlushOut(e, q.left))
    BY <1>2, <1>4, TransmitBound
  <2> QED
    BY <1>2, <1>3, <1>4, <2>1, EmptyConstructType, ConstructStep DEF SendPlain, IInv, TypeOK
<1>5. CASE ~flush
  <2>1. net' \subseteq net \cup q.out
    BY <1>2, <1>5, TransmitBound
  <2> QED
    BY <1>2, <1>3, <1>5, <2>1, ConstructStep DEF SendPlain, IInv, TypeOK
<1> QED
  BY <1>4, <1>5

\* The packet that Flush puts together is a good one.
LEMMA FlushGood ==
  ASSUME IInv, NEW e \in Endpoint, state[e] # "OFFLINE"
  PROVE  \A p \in FlushOut(e, construct[e]) : GoodPacket(p)
<1>1. construct[e].chunks \in Seq(SentChunks(e)) /\ construct[e].resend \in BOOLEAN
  BY DEF IInv, Travelling, TypeOK
<1> QED
  BY <1>1, NewPacket DEF FlushOut

\* Flush preserves the invariant.
LEMMA FlushStep ==
  ASSUME IInv, NEW e \in Endpoint, Flush(e)
  PROVE  IInv'
<1>1. state[e] # "OFFLINE"
  BY DEF Flush
<1>2. net' \subseteq net \cup FlushOut(e, construct[e])
  BY TransmitBound DEF Flush, Flushed
<1> QED
  BY <1>1, <1>2, FlushGood, EmptyConstructType, ConstructStep DEF Flush, Flushed, IInv, TypeOK

\* Reset keeps the history.
LEMMA ResetStep ==
  ASSUME IInv, NEW e \in Endpoint, Reset(e),
         NEW out, net' \subseteq net \cup out, \A p \in out : GoodPacket(p),
         UNCHANGED histVars
  PROVE  IInv'
<1>1. \A f : SentChunks(f)' = SentChunks(f)
  BY DEF SentChunks, histVars
<1>2. Packets'
  BY PacketsKept DEF histVars
<1>3. Travelling'
  BY <1>1 DEF IInv, Travelling, TypeOK, Reset, EmptyConstruct
<1>4. TypeOK'
  <2>1. net' \in SUBSET Packet
    BY <1>2 DEF Packets, GoodPacket
  <2>2. 0 \in 0 .. MaxSequence - 1
    BY Constants
  <2> QED
    BY <2>1, <2>2 DEF IInv, TypeOK, histVars, Reset, EmptyConstruct
<1>5. Progress' /\ Contents'
  BY DEF IInv, Progress, Contents, histVars
<1>6. /\ state'[e] = "OFFLINE" /\ inbox'[e] = <<>>
      /\ \A f \in Endpoint \ {e} :
           /\ state'[f] = state[f] /\ sequence'[f] = sequence[f] /\ ack'[f] = ack[f]
           /\ peerAck'[f] = peerAck[f] /\ buffer'[f] = buffer[f] /\ inbox'[f] = inbox[f]
  BY DEF IInv, TypeOK, Reset
<1>7. Numbers'
  BY <1>6 DEF IInv, Numbers, histVars
<1>8. Saved'
  <2> SUFFICES ASSUME NEW f \in Endpoint \ {e}, state'[f] = "ONLINE"
               PROVE  SavedChunks(f)'
    BY <1>6 DEF Saved
  <2> QED
    BY <1>6 DEF IInv, Saved, SavedChunks, histVars
<1>9. Unpacking'
  BY <1>6 DEF IInv, Unpacking
<1> QED
  BY <1>2, <1>3, <1>4, <1>5, <1>7, <1>8, <1>9 DEF IInv

\* Disconnect, the close packet of which may be lost, preserves the invariant.
LEMMA DisconnectStep ==
  ASSUME IInv, NEW e \in Endpoint, Disconnect(e)
  PROVE  IInv'
<1> DEFINE out == IF state[e] = "ONLINE" THEN {ControlPacket(e, "close")} ELSE {}
<1>1. \A p \in out : GoodPacket(p)
  <2>1. <<>> \in Seq(SentChunks(e))
    OBVIOUS
  <2> QED
    BY <2>1, NewPacket DEF Disconnect
<1>2. net' \subseteq net \cup out
  BY TransmitBound DEF Disconnect
<1> QED
  BY <1>1, <1>2, ResetStep DEF Disconnect

\* The loss of a packet preserves the invariant.
LEMMA LoseStep ==
  ASSUME IInv, NEW p \in net, Lose(p)
  PROVE  IInv'
<1>1. \A f : SentChunks(f)' = SentChunks(f)
  BY DEF Lose, SentChunks, histVars
<1>2. \A q : GoodPacket(q) => GoodPacket(q)'
  BY <1>1 DEF GoodPacket, Lose, histVars
<1>3. Packets' /\ net' \subseteq net
  BY <1>2 DEF IInv, Packets, Lose
<1> QED
  BY SMTT(30), <1>1, <1>2, <1>3 DEF Lose, IInv, TypeOK, Numbers, Progress, Contents, Travelling, Saved,
                          SavedChunks, Unpacking,
                                    connVars, histVars

\* A timeout found by Update preserves the invariant.
LEMMA UpdateErrorStep ==
  ASSUME IInv, NEW e \in Endpoint, UpdateError(e)
  PROVE  IInv'
BY DisconnectStep DEF UpdateError

\* What is retransmitted is younger than a cycle, because it is unacknowledged.
LEMMA BufferAge ==
  ASSUME IInv, NEW e \in Endpoint, state[e] = "ONLINE"
  PROVE  buffer[e] \in Seq(SentChunks(e))
<1>1. buffer[e] \in Seq(Chunk) /\ sent[e] \in Nat /\ acked[e] \in Nat
  BY DEF IInv, TypeOK
<1>2. sent[e] <= acked[e] + Window
  BY DEF IInv, Progress
<1>3. ASSUME NEW i \in 1 .. Len(buffer[e])
      PROVE  buffer[e][i] \in SentChunks(e)
  <2>1. /\ buffer[e][i] \in Chunk
        /\ buffer[e][i].id \in acked[e] + 1 .. sent[e]
        /\ buffer[e][i].seq = buffer[e][i].id % MaxSequence
    BY <1>1 DEF IInv, Saved, SavedChunks
  <2>2. Window > 0 /\ sent[e] - buffer[e][i].id < MaxSequence - 1
    BY SMTT(30), <1>1, <1>2, <2>1, Constants
  <2> QED
    BY <1>1, <2>1, <2>2 DEF SentChunks
<1> QED
  BY <1>1, <1>3

\* What ResendChunk puts into packets consists of chunks of the sender's stream.
LEMMA RetransmitQueueType ==
  ASSUME IInv, NEW e \in Endpoint, state[e] = "ONLINE", NEW due \in Due(e)
  PROVE  RetransmitQueue(e, due) \in Seq(SentChunks(e))
<1>1. buffer[e] \in Seq(SentChunks(e))
  BY BufferAge
<1>2. CASE "answer" \in due
  BY <1>1, <1>2 DEF RetransmitQueue, Due
<1>3. CASE "answer" \notin due /\ "resend" \in due
  <2>1. buffer[e] # <<>>
    BY <1>3 DEF Due
  <2>2. Head(buffer[e]) \in SentChunks(e)
    BY <1>1, <2>1
  <2> QED
    BY <1>3, <2>2 DEF RetransmitQueue
<1>4. CASE "answer" \notin due /\ "resend" \notin due
  BY <1>4 DEF RetransmitQueue
<1> QED
  BY <1>2, <1>3, <1>4

\* Update, which may retransmit the saved chunks, preserves the invariant.
LEMMA UpdateStep ==
  ASSUME IInv, NEW e \in Endpoint, NEW due \in Due(e), Update(e, due)
  PROVE  IInv'
<1> DEFINE new == RetransmitQueue(e, due)
<1>1. state[e] = "ONLINE" /\ new \in Seq(SentChunks(e))
  BY RetransmitQueueType DEF Update
<1>2. PICK q \in Queueings(e, new) : Update(e, due)!4!(q)
  BY DEF Update
<1>3. /\ q.left \in [chunks : Seq(SentChunks(e)), resend : BOOLEAN]
      /\ \A p \in q.out : GoodPacket(p)
      /\ \A p \in FlushOut(e, q.left) : GoodPacket(p)
      /\ GoodPacket(ControlPacket(e, "keepalive"))
  <2>1. <<>> \in Seq(SentChunks(e))
    OBVIOUS
  <2> QED
    BY <1>1, <2>1, QueueingsGood, NewPacket
<1> HIDE DEF new
<1>4. CASE "timeout" \in due
  <2>1. Reset(e) /\ net' \subseteq net \cup q.out
    BY <1>2, <1>4, TransmitBound
  <2> QED
    BY <1>3, <2>1, ResetStep DEF Update
<1>5. CASE "timeout" \notin due
  <2>1. resendRequested' \in [Endpoint -> BOOLEAN]
    BY <1>2, <1>5 DEF IInv, TypeOK
  <2>2. UNCHANGED <<state, sequence, ack, peerAck, buffer, inbox, histVars>>
    BY <1>2, <1>5 DEF Update
  <2>3. CASE /\ construct' = [construct EXCEPT ![e] = EmptyConstruct]
             /\ Transmit(FlushOut(e, q.left))
    <3>1. net' \subseteq net \cup FlushOut(e, q.left)
      BY <2>3, TransmitBound
    <3> QED
      BY <1>1, <1>3, <2>1, <2>2, <2>3, <3>1, EmptyConstructType, ConstructStep
  <2>4. CASE /\ construct' = [construct EXCEPT ![e] = q.left]
             /\ Transmit({ControlPacket(e, "keepalive")})
    <3> DEFINE out == {ControlPacket(e, "keepalive")}
    <3>1. net' \subseteq net \cup out
      BY <2>4, TransmitBound
    <3>2. \A p \in out : GoodPacket(p)
      BY <1>3
    <3> HIDE DEF out
    <3> QED
      BY <1>1, <1>3, <2>1, <2>2, <2>4, <3>1, <3>2, ConstructStep
  <2>5. CASE /\ construct' = [construct EXCEPT ![e] = q.left]
             /\ Transmit(q.out)
    <3>1. net' \subseteq net \cup q.out
      BY <2>5, TransmitBound
    <3> QED
      BY <1>1, <1>3, <2>1, <2>2, <2>5, <3>1, ConstructStep
  <2> QED
    BY <1>2, <1>5, <2>3, <2>4, <2>5
<1> QED
  BY <1>4, <1>5

\* A packet that Feed accepts carries no acknowledgement older than the newest.
LEMMA AcceptedAck ==
  ASSUME IInv, NEW e \in Endpoint, state[e] # "OFFLINE",
         NEW p \in net, p.to = e, IsAckValid(e, p.ack)
  PROVE  /\ p.ackId \in Nat
         /\ p.ack = p.ackId % MaxSequence
         /\ acked[e] <= p.ackId
         /\ p.ackId <= Len(delivered[Peer(e)])
<1>1. /\ p.ackId \in Nat /\ p.ack = p.ackId % MaxSequence
      /\ p.ackId <= Len(delivered[Peer(e)])
      /\ sent[e] - p.ackId < MaxSequence
  BY DEF IInv, Packets, GoodPacket, Packet
<1>2. /\ sent[e] \in Nat /\ acked[e] \in Nat /\ Len(delivered[Peer(e)]) \in Nat
      /\ sequence[e] = sent[e] % MaxSequence /\ peerAck[e] = acked[e] % MaxSequence
  BY Peers DEF IInv, TypeOK, Numbers
<1>3. /\ acked[e] <= Len(delivered[Peer(e)]) /\ Len(delivered[Peer(e)]) <= sent[e]
      /\ sent[e] <= acked[e] + Window
  BY DEF IInv, Progress
<1>4. /\ acked[e] <= sent[e] /\ sent[e] - acked[e] < MaxSequence
      /\ p.ackId <= sent[e] /\ IsAckValid(e, p.ackId % MaxSequence)
  BY <1>1, <1>2, <1>3, Constants
<1>5. acked[e] <= p.ackId
  BY <1>1, <1>2, <1>4, AckInRange
<1> QED
  BY <1>1, <1>5

\* AckChunks leaves the chunks after the acknowledgement, and none of them is dropped.
LEMMA AckChunksStep ==
  ASSUME IInv, NEW e \in Endpoint, state[e] = "ONLINE", NEW k \in Nat,
         acked[e] <= k, k <= sent[e], AckChunks(e, k % MaxSequence),
         acked'[e] = k, UNCHANGED <<sent, unsaved>>
  PROVE  SavedChunks(e)' /\ buffer' \in [Endpoint -> Seq(Chunk)]
<1>1. /\ buffer \in [Endpoint -> Seq(Chunk)] /\ buffer[e] \in Seq(Chunk)
      /\ sent[e] \in Nat /\ acked[e] \in Nat /\ sent[e] <= acked[e] + Window
  BY DEF IInv, TypeOK, Progress
<1>2. SavedChunks(e)
  BY DEF IInv, Saved
<1>3. PICK n \in 0 .. Len(buffer[e]) :
        /\ \A i \in 1 .. n : IsSeqInBackroom(buffer[e][i].seq, k % MaxSequence)
        /\ n < Len(buffer[e]) => ~IsSeqInBackroom(buffer[e][n + 1].seq, k % MaxSequence)
        /\ buffer' = [buffer EXCEPT ![e] = SubSeq(@, n + 1, Len(@))]
  BY DEF AckChunks
<1> DEFINE b == buffer[e]
           m == Len(buffer[e]) - n
<1>4. /\ m \in Nat /\ buffer'[e] \in Seq(Chunk) /\ Len(buffer'[e]) = m
      /\ \A i \in 1 .. m : n + i \in 1 .. Len(b) /\ buffer'[e][i] = b[n + i]
  <2>1. buffer'[e] = SubSeq(b, n + 1, Len(b))
    BY <1>1, <1>3
  <2>2. \A i \in n + 1 .. Len(b) : b[i] \in Chunk
    BY <1>1, <1>3
  <2> QED
    BY SMTT(30), <1>1, <1>3, <2>1, <2>2, SubSeqProperties
<1> HIDE DEF b, m
<1>5. \A id \in Nat : /\ acked[e] < id /\ id <= k => k - id <= MaxSequence \div 2
                      /\ id <= sent[e] => id - k <= Window
  <2> DEFINE s == sent[e]
             a == acked[e]
             h == MaxSequence \div 2
  <2>1. s \in Nat /\ a \in Nat /\ h \in Nat /\ Window \in Nat /\ Window <= h
        /\ s <= a + Window /\ a <= k /\ k <= s
    BY <1>1, Constants
  <2> HIDE DEF s, a, h
  <2>2. \A id \in Nat : /\ a < id /\ id <= k => k - id <= h
                        /\ id <= s => id - k <= Window
    BY <2>1
  <2> QED
    BY <2>2 DEF s, a, h
<1>6. \A i \in 1 .. Len(b) : b[i].id \in Nat /\ b[i].id > acked[e] /\ b[i].id <= sent[e]
  BY <1>1, <1>2 DEF b, SavedChunks
<1>7. \A i \in 1 .. m : b[n + i].id > k
  <2>1. CASE n = Len(b)
    BY <2>1 DEF b, m
  <2>2. CASE n < Len(b)
    <3>1. n + 1 \in 1 .. Len(b) /\ b[n + 1].seq = b[n + 1].id % MaxSequence
      BY <1>1, <1>2, <1>3, <2>2 DEF b, SavedChunks
    <3>2. b[n + 1].id <= k => k - b[n + 1].id <= MaxSequence \div 2
      <4>1. b[n + 1].id \in Nat /\ acked[e] < b[n + 1].id
        BY <1>6, <3>1
      <4> QED
        BY <1>5, <4>1
    <3>3. b[n + 1].id > k
      BY <1>3, <1>6, <2>2, <3>1, <3>2, BackroomBehind DEF b
    <3>4. ASSUME NEW i \in 1 .. m
          PROVE  b[n + i].id > k
      <4>1. CASE i = 1
        BY <3>3, <4>1
      <4>2. CASE i > 1
        <5>1. n + 1 < n + i /\ n + i \in 1 .. Len(b)
          BY <1>3, <1>4, <4>2
        <5>2. b[n + 1].id < b[n + i].id
          BY <1>2, <3>1, <5>1 DEF b, SavedChunks
        <5> QED
          BY <1>6, <3>1, <3>3, <5>1, <5>2
      <4> QED
        BY <4>1, <4>2
    <3> QED
      BY <3>4
  <2>3. n = Len(b) \/ n < Len(b)
    BY <1>1, <1>3 DEF b
  <2> QED
    BY <2>1, <2>2, <2>3
<1>8. ASSUME NEW i \in 1 .. Len(b), b[i].id > k
      PROVE  i > n
  <2>1. b[i].seq = b[i].id % MaxSequence /\ b[i].id - k <= Window
    <3>1. b[i].id \in Nat /\ b[i].id <= sent[e]
      BY <1>6
    <3>2. b[i].seq = b[i].id % MaxSequence
      BY <1>2 DEF b, SavedChunks
    <3> QED
      BY <1>5, <3>1, <3>2
  <2>2. ~IsSeqInBackroom(b[i].seq, k % MaxSequence)
    BY <1>6, <1>8, <2>1, BackroomAhead
  <2> QED
    BY <1>3, <2>2 DEF b
<1>9. SavedChunks(e)'
  <2>1. ASSUME NEW i \in 1 .. m
        PROVE  /\ buffer'[e][i].vital
               /\ buffer'[e][i].id \in k + 1 .. sent[e]
               /\ buffer'[e][i].seq = buffer'[e][i].id % MaxSequence
    <3>1. n + i \in 1 .. Len(b) /\ b[n + i].id > k
      BY <1>4, <1>7
    <3> QED
      BY SMTT(30), <1>1, <1>2, <1>4, <1>6, <3>1 DEF b, SavedChunks
  <2>2. ASSUME NEW i \in 1 .. m, NEW j \in 1 .. m, i < j
        PROVE  buffer'[e][i].id < buffer'[e][j].id
    <3>1. n + i \in 1 .. Len(b) /\ n + j \in 1 .. Len(b) /\ n + i < n + j
      BY <1>3, <1>4, <2>2
    <3> QED
      BY <1>2, <1>4, <3>1 DEF b, SavedChunks
  <2>3. ASSUME NEW id \in k + 1 .. sent[e], id \notin unsaved[e]
        PROVE  \E i \in 1 .. m : buffer'[e][i].id = id
    <3>1. id \in acked[e] + 1 .. sent[e]
      BY <1>1
    <3>2. PICK i \in 1 .. Len(b) : b[i].id = id
      BY <1>2, <2>3, <3>1 DEF b, SavedChunks
    <3>3. i > n
      BY <1>1, <1>8, <2>3, <3>2
    <3>4. i - n \in 1 .. m /\ n + (i - n) = i
      BY <1>1, <1>3, <3>2, <3>3 DEF b, m
    <3> QED
      BY <1>4, <3>2, <3>4
  <2> QED
    BY <1>4, <2>1, <2>2, <2>3 DEF SavedChunks
<1>10. buffer' \in [Endpoint -> Seq(Chunk)]
  BY <1>1, <1>3, <1>4
<1> QED
  BY <1>9, <1>10

\* Feed, for every packet in flight, preserves the invariant.
LEMMA ReceiveStep ==
  ASSUME IInv, NEW e \in Endpoint, NEW p \in net, NEW answer \in BOOLEAN, Receive(e, p, answer)
  PROVE  IInv'
<1> DEFINE requested == resendRequested[e] \/ p.resend
           new == ResendQueue(e, requested, answer)
<1>1. /\ state[e] = "ONLINE" /\ p.to = e /\ IsAckValid(e, p.ack) /\ inbox[e] = <<>>
      /\ UNCHANGED <<sequence, ack, sent, unsaved, delivered>>
  BY DEF Receive
<1>2. /\ p.ackId \in Nat /\ p.ack = p.ackId % MaxSequence
      /\ acked[e] <= p.ackId /\ p.ackId <= Len(delivered[Peer(e)])
  BY <1>1, AcceptedAck
<1>3. new \in Seq(SentChunks(e))
  BY <1>1, BufferAge DEF ResendQueue
<1>4. PICK q \in Queueings(e, new) :
        /\ construct' = [construct EXCEPT ![e] = q.left]
        /\ Transmit(q.out)
  BY DEF Receive
<1>5. /\ q.left \in [chunks : Seq(SentChunks(e)), resend : BOOLEAN]
      /\ \A r \in q.out : GoodPacket(r)
  BY <1>1, <1>3, QueueingsGood
<1>6. /\ peerAck' = [peerAck EXCEPT ![e] = p.ack]
      /\ acked' = [acked EXCEPT ![e] = p.ackId]
      /\ resendRequested' = [resendRequested EXCEPT ![e] = requested /\ ~answer]
      /\ \/ /\ state' = [state EXCEPT ![e] = "ERROR"]
            /\ UNCHANGED <<buffer, inbox>>
         \/ /\ AckChunks(e, p.ack)
            /\ inbox' = [inbox EXCEPT ![e] = p.chunks]
            /\ UNCHANGED state
  BY DEF Receive
<1> HIDE DEF requested, new
<1>7. p \in Packet /\ p.chunks \in Seq(SentChunks(Peer(e))) /\ Peer(e) \in Endpoint
  BY <1>1, Peers DEF IInv, Packets, GoodPacket
<1>8. \A f : SentChunks(f)' = SentChunks(f)
  BY <1>1 DEF SentChunks
<1>9. Packets'
  BY <1>1, <1>4, <1>5, TransmitBound, PacketsKept
<1>10. Travelling'
  BY <1>4, <1>5, <1>6, <1>7, <1>8 DEF IInv, TypeOK, Travelling
<1>11. Progress' /\ Contents'
  <2>1. sent[e] \in Nat /\ acked[e] \in Nat /\ Window \in Nat
    BY Constants DEF IInv, TypeOK
  <2>2. sent[e] <= p.ackId + Window
    BY <1>2, <2>1 DEF IInv, Progress
  <2> QED
    BY <1>1, <1>2, <1>6, <2>2 DEF IInv, TypeOK, Progress, Contents
<1>12. Numbers'
  BY <1>1, <1>2, <1>6 DEF IInv, TypeOK, Numbers
<1>13. Unpacking'
  BY <1>1, <1>6 DEF IInv, TypeOK, Unpacking
<1>14. Saved' /\ buffer' \in [Endpoint -> Seq(Chunk)]
  <2>1. CASE state' = [state EXCEPT ![e] = "ERROR"] /\ UNCHANGED <<buffer, inbox>>
    <3>1. ASSUME NEW f \in Endpoint, state'[f] = "ONLINE"
          PROVE  SavedChunks(f)'
      <4>1. f # e /\ state[f] = "ONLINE" /\ acked'[f] = acked[f]
        BY <1>6, <2>1, <3>1 DEF IInv, TypeOK
      <4> QED
        BY <1>1, <2>1, <4>1 DEF IInv, Saved, SavedChunks
    <3> QED
      BY <2>1, <3>1 DEF Saved, IInv, TypeOK
  <2>2. CASE AckChunks(e, p.ack) /\ UNCHANGED state
    <3>1. acked'[e] = p.ackId /\ p.ackId <= sent[e]
      <4>1. Len(delivered[Peer(e)]) \in Nat /\ sent[e] \in Nat /\ Len(delivered[Peer(e)]) <= sent[e]
        BY <1>7 DEF IInv, TypeOK, Progress
      <4> QED
        BY SMTT(30), <1>2, <1>6, <4>1 DEF IInv, TypeOK
    <3>2. SavedChunks(e)' /\ buffer' \in [Endpoint -> Seq(Chunk)]
      BY <1>1, <1>2, <2>2, <3>1, AckChunksStep
    <3>3. ASSUME NEW f \in Endpoint \ {e}, state'[f] = "ONLINE"
          PROVE  SavedChunks(f)'
      <4>1. acked'[f] = acked[f] /\ buffer'[f] = buffer[f] /\ state[f] = "ONLINE"
        BY <1>6, <2>2, <3>3 DEF AckChunks, IInv, TypeOK
      <4> QED
        BY <1>1, <4>1 DEF IInv, Saved, SavedChunks
    <3> QED
      BY <3>2, <3>3 DEF Saved
  <2> QED
    BY <1>6, <2>1, <2>2
<1>15. TypeOK'
  <2>1. net' \in SUBSET Packet
    BY <1>9 DEF Packets, GoodPacket
  <2>2. /\ q.left \in [chunks : Seq(Chunk), resend : BOOLEAN]
        /\ p.chunks \in Seq(Chunk) /\ p.resend \in BOOLEAN /\ p.ack \in 0 .. MaxSequence - 1
    BY <1>5, <1>7, SentChunksType, SeqOfSubset DEF Packet
  <2>3. (requested /\ ~answer) \in BOOLEAN
    OBVIOUS
  <2>4. state' \in [Endpoint -> {"ONLINE", "ERROR", "OFFLINE"}] /\ inbox' \in [Endpoint -> Seq(Chunk)]
    BY <1>6, <2>2 DEF IInv, TypeOK
  <2>5. /\ peerAck' \in [Endpoint -> 0 .. MaxSequence - 1]
        /\ construct' \in [Endpoint -> [chunks : Seq(Chunk), resend : BOOLEAN]]
        /\ acked' \in [Endpoint -> Nat]
        /\ resendRequested' \in [Endpoint -> BOOLEAN]
    BY <1>2, <1>4, <1>6, <2>2, <2>3 DEF IInv, TypeOK
  <2> QED
    BY <1>1, <1>14, <2>1, <2>4, <2>5 DEF IInv, TypeOK
<1> QED
  BY <1>9, <1>10, <1>11, <1>12, <1>13, <1>14, <1>15 DEF IInv

\* The stream positions of chunks under way survive a send that Lifetime allows.
LEMMA StillYoung ==
  ASSUME NEW e \in Endpoint, NEW s \in Seq(SentChunks(e)), sent[e] \in Nat, sent'[e] = sent[e] + 1,
         \A i \in DOMAIN s : s[i].vital => sent[e] + 1 - s[i].id < MaxSequence - 1
  PROVE  s \in Seq(SentChunks(e)')
<1>1. ASSUME NEW i \in DOMAIN s
      PROVE  s[i] \in SentChunks(e)'
  <2>1. s[i] \in SentChunks(e)
    OBVIOUS
  <2> QED
    BY SMTT(30), <2>1 DEF SentChunks, Chunk
<1> QED
  BY <1>1

\* Lifetime keeps every chunk under way younger than the cycle of sequence numbers.
LEMMA LifetimeYoung ==
  ASSUME IInv, NEW e \in Endpoint, Lifetime(e), sent' = [sent EXCEPT ![e] = @ + 1],
         UNCHANGED delivered
  PROVE  /\ construct[e].chunks \in Seq(SentChunks(e)')
         /\ inbox[Peer(e)] \in Seq(SentChunks(e)')
         /\ \A p \in net : GoodPacket(p)'
<1> DEFINE Ids(s) == {s[i].id : i \in {j \in DOMAIN s : s[j].vital}}
<1>1. /\ sent[e] \in Nat /\ sent'[e] = sent[e] + 1
      /\ \A f \in Endpoint \ {e} : sent'[f] = sent[f] /\ SentChunks(f)' = SentChunks(f)
      /\ Peer(e) \in Endpoint
  BY Peers DEF IInv, TypeOK, SentChunks
<1>2. TravellingIds(e) = (UNION {Ids(p.chunks) : p \in FromTo(e)}) \cup Ids(inbox[Peer(e)])
                           \cup Ids(construct[e].chunks)
  BY DEF TravellingIds
<1>3. \A s \in Seq(SentChunks(e)) : Ids(s) \subseteq TravellingIds(e) => s \in Seq(SentChunks(e)')
  <2> SUFFICES ASSUME NEW s \in Seq(SentChunks(e)), Ids(s) \subseteq TravellingIds(e)
               PROVE  s \in Seq(SentChunks(e)')
    OBVIOUS
  <2>1. \A i \in DOMAIN s : s[i].vital => sent[e] + 1 - s[i].id < MaxSequence - 1
    BY DEF Lifetime
  <2> QED
    BY <1>1, <2>1, StillYoung
<1> HIDE DEF Ids
<1>4. construct[e].chunks \in Seq(SentChunks(e)')
  <2>1. Ids(construct[e].chunks) \subseteq TravellingIds(e)
    BY <1>2
  <2>2. construct[e].chunks \in Seq(SentChunks(e))
    BY DEF IInv, Travelling
  <2> QED
    BY <1>3, <2>1, <2>2
<1>5. inbox[Peer(e)] \in Seq(SentChunks(e)')
  <2>1. Ids(inbox[Peer(e)]) \subseteq TravellingIds(e)
    BY <1>2
  <2>2. Peer(Peer(e)) = e
    BY Peers
  <2>3. inbox[Peer(e)] \in Seq(SentChunks(e))
    BY <1>1, <2>2 DEF IInv, Travelling
  <2> QED
    BY <1>3, <2>1, <2>3
<1>6. ASSUME NEW p \in net
      PROVE  GoodPacket(p)'
  <2>1. GoodPacket(p) /\ p.to \in Endpoint
    BY DEF IInv, Packets, GoodPacket, Packet
  <2>2. CASE p.to = e
    <3>1. sent[e] + 1 - p.ackId < MaxSequence /\ Peer(e) # e
      BY <2>2, Peers DEF Lifetime
    <3>2. Peer(e) \in Endpoint \ {e}
      BY <1>1, <3>1
    <3>3. SentChunks(Peer(p.to))' = SentChunks(Peer(p.to))
      BY <1>1, <2>2, <3>2
    <3>4. p.chunks \in Seq(SentChunks(Peer(p.to))')
      BY <2>1, <3>3 DEF GoodPacket
    <3>5. /\ p \in Packet /\ p.ack = p.ackId % MaxSequence
          /\ p.ackId <= Len(delivered'[Peer(p.to)]) /\ sent'[p.to] - p.ackId < MaxSequence
      <4>1. /\ p \in Packet /\ p.ack = p.ackId % MaxSequence
            /\ p.ackId <= Len(delivered[Peer(p.to)])
        BY <2>1 DEF GoodPacket
      <4>2. sent'[p.to] - p.ackId < MaxSequence
        <5>1. sent'[p.to] = sent[e] + 1
          BY <1>1, <2>2
        <5>2. p.ackId \in Nat
          BY <2>1 DEF GoodPacket, Packet
        <5> QED
          BY <1>1, <3>1, <5>1, <5>2
      <4> QED
        BY <4>1, <4>2
    <3> QED
      BY <3>4, <3>5 DEF GoodPacket
  <2>3. CASE p.to = Peer(e)
    <3>1. p \in FromTo(e) /\ Peer(p.to) = e
      BY <2>3, Peers DEF FromTo
    <3>2. p.chunks \in Seq(SentChunks(e)')
      <4>1. Ids(p.chunks) \subseteq TravellingIds(e)
        BY <1>2, <3>1
      <4>2. p.chunks \in Seq(SentChunks(e))
        BY <2>1, <3>1 DEF GoodPacket
      <4> QED
        BY <1>3, <4>1, <4>2
    <3>3. sent'[p.to] = sent[p.to]
      BY <1>1, <2>3, Peers
    <3>4. p.chunks \in Seq(SentChunks(Peer(p.to))')
      BY <3>1, <3>2
    <3>5. /\ p \in Packet /\ p.ack = p.ackId % MaxSequence
          /\ p.ackId <= Len(delivered'[Peer(p.to)]) /\ sent'[p.to] - p.ackId < MaxSequence
      BY <2>1, <3>3 DEF GoodPacket
    <3> QED
      BY <3>4, <3>5 DEF GoodPacket
  <2> QED
    BY <2>1, <2>2, <2>3, Peers
<1> QED
  BY <1>4, <1>5, <1>6

\* The packets that go out with or after a new vital chunk are good ones.
LEMMA PacketAfterSend ==
  ASSUME IInv, NEW e \in Endpoint, state[e] # "OFFLINE",
         sent' = [sent EXCEPT ![e] = @ + 1], UNCHANGED delivered,
         NEW s \in Seq(SentChunks(e)'), NEW r \in BOOLEAN, NEW p, p = DataPacket(e, s, r)
  PROVE  GoodPacket(p)'
<1>1. /\ Peer(e) \in Endpoint /\ Peer(Peer(e)) = e /\ Peer(e) # e
      /\ sent'[Peer(e)] = sent[Peer(e)]
  BY Peers DEF IInv, TypeOK
<1> DEFINE d == DataPacket(e, <<>>, r)
<1>2. GoodPacket(d)
  <2>1. <<>> \in Seq(SentChunks(e))
    OBVIOUS
  <2> QED
    BY <2>1, NewPacket
<1>3. /\ p.to = Peer(e) /\ p.chunks = s /\ p.ack = d.ack /\ p.ackId = d.ackId /\ d.to = Peer(e)
      /\ p = [d EXCEPT !.chunks = s]
  BY DEF DataPacket
<1> HIDE DEF d
<1>4. s \in Seq(Chunk)
  <2>1. SentChunks(e)' \subseteq Chunk
    BY DEF SentChunks
  <2> QED
    BY <2>1, SeqOfSubset
<1>5. p \in Packet /\ p.ackId \in Nat
  BY <1>2, <1>3, <1>4 DEF GoodPacket, Packet
<1>6. p.chunks \in Seq(SentChunks(Peer(p.to))')
  BY <1>1, <1>3
<1>7. p.ack = p.ackId % MaxSequence /\ p.ackId <= Len(delivered'[Peer(p.to)])
  BY <1>2, <1>3 DEF GoodPacket
<1>8. sent'[p.to] - p.ackId < MaxSequence
  BY <1>1, <1>2, <1>3 DEF GoodPacket
<1> QED
  BY <1>5, <1>6, <1>7, <1>8 DEF GoodPacket

\* A new vital chunk, numbered and saved by QueueChunkEx, preserves the invariant.
LEMMA SendVitalStep ==
  ASSUME IInv, NEW e \in Endpoint, NEW flush \in BOOLEAN, SendVital(e, flush)
  PROVE  IInv'
<1> DEFINE seq   == NextSequence(sequence[e])
           id    == sent[e] + 1
           chunk == VitalChunk(seq, id)
<1>1. /\ state[e] # "OFFLINE" /\ sent[e] - acked[e] < Window /\ Lifetime(e)
      /\ sequence' = [sequence EXCEPT ![e] = seq]
      /\ sent' = [sent EXCEPT ![e] = @ + 1]
      /\ UNCHANGED <<state, ack, peerAck, resendRequested, inbox, acked, delivered>>
  BY DEF SendVital
<1>2. /\ sent[e] \in Nat /\ sent'[e] = id /\ id \in Nat /\ acked[e] \in Nat
      /\ \A f \in Endpoint \ {e} : sent'[f] = sent[f] /\ sequence'[f] = sequence[f]
      /\ sequence'[e] = seq
      /\ Peer(e) \in Endpoint \ {e} /\ Peer(Peer(e)) = e
      /\ \A f \in Endpoint : f = e \/ f = Peer(e)
      /\ MaxSequence \in Nat \ {0}
  <2>1. sent \in [Endpoint -> Nat] /\ acked \in [Endpoint -> Nat]
        /\ sequence \in [Endpoint -> 0 .. MaxSequence - 1]
    BY DEF IInv, TypeOK
  <2>2. Peer(e) \in Endpoint \ {e} /\ Peer(Peer(e)) = e /\ \A f \in Endpoint : f = e \/ f = Peer(e)
    BY Peers
  <2> QED
    BY <1>1, <2>1, <2>2, Constants
<1>3. seq = id % MaxSequence /\ seq \in 0 .. MaxSequence - 1
  <2>1. sequence[e] = sent[e] % MaxSequence
    BY <1>1 DEF IInv, Numbers
  <2>2. seq = id % MaxSequence
    BY <1>2, <2>1, ModSucc DEF NextSequence
  <2> QED
    BY <1>2, <2>2, ModRange
<1>3a. sent[e] + 1 <= acked[e] + Window /\ 0 < MaxSequence - 1 /\ acked[e] <= sent[e]
  <2>1. sent[e] <= acked[e] + Window /\ acked[e] <= sent[e]
    <3>1. Len(delivered[Peer(e)]) \in Nat
      BY <1>2 DEF IInv, TypeOK
    <3> QED
      BY <1>2, <3>1 DEF IInv, Progress
  <2>2. sent[e] < acked[e] + Window
    BY <1>1, <1>2, <2>1, Constants
  <2> QED
    BY <1>2, <2>1, <2>2, Constants
<1> HIDE DEF seq
<1>4. chunk \in SentChunks(e)' /\ chunk \in Chunk
  <2>1. chunk \in Chunk
    BY <1>2, <1>3 DEF VitalChunk, Chunk
  <2>2. /\ chunk.id = id /\ chunk.seq = id % MaxSequence /\ id \in 1 .. sent'[e]
        /\ sent'[e] - id < MaxSequence - 1
    <3>1. chunk.id = id /\ chunk.seq = seq
      BY DEF VitalChunk
    <3> QED
      BY <1>2, <1>3, <1>3a, <3>1
  <2> QED
    BY <2>1, <2>2 DEF SentChunks
<1>5. /\ construct[e].chunks \in Seq(SentChunks(e)') /\ construct[e].resend \in BOOLEAN
      /\ inbox[Peer(e)] \in Seq(SentChunks(e)')
      /\ \A p \in net : GoodPacket(p)'
  BY <1>1, LifetimeYoung DEF IInv, TypeOK
<1>6. ASSUME NEW out, net' \subseteq net \cup out,
             \A p \in out : \E s \in Seq(SentChunks(e)'), r \in BOOLEAN : p = DataPacket(e, s, r),
             NEW c \in [chunks : Seq(SentChunks(e)'), resend : BOOLEAN],
             construct' = [construct EXCEPT ![e] = c]
      PROVE  Packets' /\ Travelling' /\ net' \in SUBSET Packet
             /\ construct' \in [Endpoint -> [chunks : Seq(Chunk), resend : BOOLEAN]]
  <2>1. \A p \in out : GoodPacket(p)'
    BY <1>1, <1>6, PacketAfterSend
  <2>2. Packets'
    BY <1>5, <1>6, <2>1 DEF Packets
  <2>3. net' \in SUBSET Packet
    BY <2>2 DEF Packets, GoodPacket
  <2>4. \A f \in Endpoint \ {e} : SentChunks(f)' = SentChunks(f)
    BY <1>2 DEF SentChunks
  <2>5. Travelling'
    <3> SUFFICES ASSUME NEW f \in Endpoint
                 PROVE  /\ construct'[f].chunks \in Seq(SentChunks(f)')
                        /\ inbox'[f] \in Seq(SentChunks(Peer(f))')
      BY DEF Travelling
    <3>1. CASE f = e
      <4>1. inbox[e] \in Seq(SentChunks(Peer(e)))
        BY DEF IInv, Travelling
      <4> QED
        BY <1>1, <1>2, <1>6, <2>4, <3>1, <4>1 DEF IInv, TypeOK
    <3>2. CASE f = Peer(e)
      <4>1. construct[f].chunks \in Seq(SentChunks(f))
        BY DEF IInv, Travelling
      <4> QED
        BY <1>1, <1>2, <1>5, <1>6, <2>4, <3>2, <4>1 DEF IInv, TypeOK
    <3> QED
      BY <1>2, <3>1, <3>2
  <2>6. c \in [chunks : Seq(Chunk), resend : BOOLEAN]
    <3>1. SentChunks(e)' \subseteq Chunk
      BY DEF SentChunks
    <3> QED
      BY <3>1, SeqOfSubset
  <2> QED
    BY <1>6, <2>2, <2>3, <2>5, <2>6 DEF IInv, TypeOK
<1>7. Packets' /\ Travelling' /\ net' \in SUBSET Packet
      /\ construct' \in [Endpoint -> [chunks : Seq(Chunk), resend : BOOLEAN]]
  <2>1. EmptyConstruct \in [chunks : Seq(SentChunks(e)'), resend : BOOLEAN]
    BY DEF EmptyConstruct
  <2>2. CASE state[e] = "ERROR"
    <3>1. CASE flush /\ e = Client
      <4> DEFINE out == FlushOut(e, construct[e])
      <4>1. Flushed(e)
        BY <2>2, <3>1 DEF SendVital
      <4>2. net' \subseteq net \cup out
        BY <4>1, TransmitBound DEF Flushed
      <4>3. \A p \in out : \E s \in Seq(SentChunks(e)'), r \in BOOLEAN : p = DataPacket(e, s, r)
        BY <1>5 DEF FlushOut
      <4>4. construct' = [construct EXCEPT ![e] = EmptyConstruct]
        BY <4>1 DEF Flushed
      <4> HIDE DEF out
      <4> QED
        BY <1>6, <2>1, <4>2, <4>3, <4>4
    <3>2. CASE ~(flush /\ e = Client)
      <4>1. UNCHANGED <<construct, net>>
        BY <2>2, <3>2 DEF SendVital
      <4>2. construct' = [construct EXCEPT ![e] = construct[e]]
        BY <4>1 DEF IInv, TypeOK
      <4>3. construct[e] \in [chunks : Seq(SentChunks(e)'), resend : BOOLEAN]
        BY <1>5 DEF IInv, TypeOK
      <4> DEFINE none == {}
      <4>4. net' \subseteq net \cup none
        BY <4>1
      <4>5. \A p \in none : \E s \in Seq(SentChunks(e)'), r \in BOOLEAN : p = DataPacket(e, s, r)
        OBVIOUS
      <4> HIDE DEF none
      <4> QED
        BY <1>6, <4>2, <4>3, <4>4, <4>5
    <3> QED
      BY <3>1, <3>2
  <2>3. CASE state[e] = "ONLINE"
    <3>1. PICK q \in Queueings(e, <<chunk>>) :
            \/ /\ construct' = [construct EXCEPT ![e] = EmptyConstruct]
               /\ Transmit(q.out \cup FlushOut(e, q.left))
            \/ /\ construct' = [construct EXCEPT ![e] = q.left]
               /\ Transmit(q.out)
      BY <2>3 DEF SendVital, seq
    <3>2. <<chunk>> \in Seq(SentChunks(e)')
      BY <1>4
    <3> HIDE DEF chunk
    <3>3. /\ q.left \in [chunks : Seq(SentChunks(e)'), resend : BOOLEAN]
          /\ \A p \in q.out : \E s \in Seq(SentChunks(e)'), r \in BOOLEAN : p = DataPacket(e, s, r)
      BY ZenonT(40), <1>5, <3>2, QueueingsType
    <3>4. CASE /\ construct' = [construct EXCEPT ![e] = EmptyConstruct]
               /\ Transmit(q.out \cup FlushOut(e, q.left))
      <4> DEFINE out == q.out \cup FlushOut(e, q.left)
      <4>1. \A p \in out : \E s \in Seq(SentChunks(e)'), r \in BOOLEAN : p = DataPacket(e, s, r)
        BY <3>3 DEF FlushOut
      <4>2. net' \subseteq net \cup out
        BY <3>4, TransmitBound
      <4> HIDE DEF out
      <4> QED
        BY <1>6, <2>1, <3>4, <4>1, <4>2
    <3>5. CASE /\ construct' = [construct EXCEPT ![e] = q.left]
               /\ Transmit(q.out)
      <4>1. net' \subseteq net \cup q.out
        BY <3>5, TransmitBound
      <4> QED
        BY <1>6, <3>3, <3>5, <4>1
    <3> QED
      BY <3>1, <3>4, <3>5
  <2> QED
    BY <2>2, <2>3 DEF SendVital
<1>8. Saved' /\ buffer' \in [Endpoint -> Seq(Chunk)] /\ unsaved' \in [Endpoint -> SUBSET Nat]
  <2>1. buffer \in [Endpoint -> Seq(Chunk)] /\ unsaved \in [Endpoint -> SUBSET Nat]
    BY DEF IInv, TypeOK
  <2>2. CASE state[e] = "ERROR"
    <3>1. UNCHANGED <<buffer, unsaved>>
      BY <2>2 DEF SendVital
    <3>2. ASSUME NEW f \in Endpoint, state'[f] = "ONLINE"
          PROVE  SavedChunks(f)'
      <4>1. f # e /\ state[f] = "ONLINE" /\ sent'[f] = sent[f]
        BY <1>1, <1>2, <2>2, <3>2
      <4> QED
        BY <1>1, <3>1, <4>1 DEF IInv, Saved, SavedChunks
    <3> QED
      BY <2>1, <3>1, <3>2 DEF Saved
  <2>3. CASE state[e] = "ONLINE"
    <3>1. SavedChunks(e)
      BY <2>3 DEF IInv, Saved
    <3>2. \/ /\ buffer' = [buffer EXCEPT ![e] = Append(@, chunk)]
             /\ UNCHANGED unsaved
          \/ /\ unsaved' = [unsaved EXCEPT ![e] = @ \cup {id}]
             /\ UNCHANGED buffer
      BY <2>3 DEF SendVital, seq
    <3>3. chunk.vital /\ chunk.id = id /\ chunk.seq = id % MaxSequence
      BY <1>3 DEF VitalChunk
    <3>4. /\ id = sent[e] + 1 /\ id <= acked[e] + Window /\ acked[e] < id
          /\ sent[e] \in Nat /\ acked[e] \in Nat /\ id \in Nat /\ sent'[e] = id /\ acked'[e] = acked[e]
      BY <1>1, <1>2, <1>3a
    <3> HIDE DEF chunk, id
    <3>5. ASSUME NEW f \in Endpoint \ {e}, state'[f] = "ONLINE"
          PROVE  SavedChunks(f)'
      <4>1. /\ state[f] = "ONLINE" /\ sent'[f] = sent[f] /\ acked'[f] = acked[f]
            /\ buffer'[f] = buffer[f] /\ unsaved'[f] = unsaved[f]
        BY <1>1, <1>2, <2>1, <3>2, <3>5
      <4>2. SavedChunks(f)
        BY <4>1 DEF IInv, Saved
      <4> QED
        BY <4>1, <4>2 DEF SavedChunks
    <3>6. CASE /\ buffer' = [buffer EXCEPT ![e] = Append(@, chunk)]
               /\ UNCHANGED unsaved
      <4> DEFINE b == buffer[e]
                 n == Len(b)
      <4>1. /\ n \in Nat /\ b \in Seq(Chunk) /\ Len(buffer'[e]) = n + 1
            /\ \A i \in 1 .. n : i \in 1 .. n + 1 /\ buffer'[e][i] = b[i]
            /\ n + 1 \in 1 .. n + 1 /\ buffer'[e][n + 1] = chunk
            /\ \A i \in 1 .. n + 1 : i \in 1 .. n \/ i = n + 1
        BY <2>1, <3>6, <1>4
      <4>2. /\ \A i \in 1 .. n : b[i].vital /\ b[i].id \in acked[e] + 1 .. sent[e]
                                /\ b[i].seq = b[i].id % MaxSequence
            /\ \A i, j \in 1 .. n : i < j => b[i].id < b[j].id
            /\ \A k \in acked[e] + 1 .. sent[e] : k \in unsaved[e] \/ \E i \in 1 .. n : b[i].id = k
        BY <3>1 DEF SavedChunks
      <4> HIDE DEF b, n
      <4>3. \A i \in 1 .. n + 1 : /\ buffer'[e][i].vital
                                  /\ buffer'[e][i].id \in acked[e] + 1 .. id
                                  /\ buffer'[e][i].seq = buffer'[e][i].id % MaxSequence
        <5> SUFFICES ASSUME NEW i \in 1 .. n + 1
                     PROVE  /\ buffer'[e][i].vital
                            /\ buffer'[e][i].id \in acked[e] + 1 .. id
                            /\ buffer'[e][i].seq = buffer'[e][i].id % MaxSequence
          OBVIOUS
        <5>1. CASE i \in 1 .. n
          <6>1. b[i].id \in acked[e] + 1 .. id
            BY <3>4, <4>2, <5>1
          <6> QED
            BY <4>1, <4>2, <5>1, <6>1
        <5>2. CASE i = n + 1
          <6>1. id \in acked[e] + 1 .. id
            BY <3>4
          <6> QED
            BY <3>3, <4>1, <5>2, <6>1
        <5> QED
          BY <4>1, <5>1, <5>2
      <4>4. \A i, j \in 1 .. n + 1 : i < j => buffer'[e][i].id < buffer'[e][j].id
        <5> SUFFICES ASSUME NEW i \in 1 .. n + 1, NEW j \in 1 .. n + 1, i < j
                     PROVE  buffer'[e][i].id < buffer'[e][j].id
          OBVIOUS
        <5>1. i \in 1 .. n
          BY <4>1
        <5>2. CASE j \in 1 .. n
          BY <4>1, <4>2, <5>1, <5>2
        <5>3. CASE j = n + 1
          <6>1. b[i].id < id
            BY <3>4, <4>2, <5>1
          <6> QED
            BY <3>3, <4>1, <5>1, <5>3, <6>1
        <5> QED
          BY <4>1, <5>2, <5>3
      <4>5. \A k \in acked[e] + 1 .. id : k \in unsaved[e] \/ \E i \in 1 .. n + 1 : buffer'[e][i].id = k
        <5> SUFFICES ASSUME NEW k \in acked[e] + 1 .. id, k \notin unsaved[e]
                     PROVE  \E i \in 1 .. n + 1 : buffer'[e][i].id = k
          OBVIOUS
        <5>1. CASE k = id
          BY <3>3, <4>1, <5>1
        <5>2. CASE k # id
          <6>1. k \in acked[e] + 1 .. sent[e]
            BY <3>4, <5>2
          <6> QED
            BY <4>1, <4>2, <6>1
        <5> QED
          BY <5>1, <5>2
      <4>6. SavedChunks(e)'
        BY <3>4, <3>6, <4>1, <4>3, <4>4, <4>5 DEF SavedChunks
      <4>7. buffer' \in [Endpoint -> Seq(Chunk)]
        BY <1>4, <2>1, <3>6
      <4> QED
        BY <1>2, <2>1, <3>5, <3>6, <4>6, <4>7 DEF Saved
    <3>7. CASE /\ unsaved' = [unsaved EXCEPT ![e] = @ \cup {id}]
               /\ UNCHANGED buffer
      <4>1. unsaved'[e] = unsaved[e] \cup {id}
        BY <2>1, <3>7
      <4>2. SavedChunks(e)'
        <5>1. \A i \in 1 .. Len(buffer[e]) :
                /\ buffer[e][i].vital
                /\ buffer[e][i].id \in acked[e] + 1 .. id
                /\ buffer[e][i].seq = buffer[e][i].id % MaxSequence
          BY <3>1, <3>4 DEF SavedChunks
        <5>2. \A i, j \in 1 .. Len(buffer[e]) : i < j => buffer[e][i].id < buffer[e][j].id
          BY <3>1 DEF SavedChunks
        <5>3. \A k \in acked[e] + 1 .. id :
                k \in unsaved'[e] \/ \E i \in 1 .. Len(buffer[e]) : buffer[e][i].id = k
          <6>1. \A k \in acked[e] + 1 .. id : k = id \/ k \in acked[e] + 1 .. sent[e]
            BY <3>4
          <6> QED
            BY <3>1, <4>1, <6>1 DEF SavedChunks
        <5> QED
          BY <3>4, <3>7, <5>1, <5>2, <5>3 DEF SavedChunks
      <4>3. unsaved' \in [Endpoint -> SUBSET Nat]
        BY <2>1, <3>4, <3>7
      <4> QED
        BY <1>2, <2>1, <3>5, <3>7, <4>2, <4>3 DEF Saved
    <3> QED
      BY <3>2, <3>6, <3>7
  <2> QED
    BY <2>2, <2>3 DEF SendVital
<1>9. Numbers' /\ Progress' /\ Contents' /\ Unpacking'
  <2>1. Numbers'
    BY <1>1, <1>2, <1>3 DEF IInv, Numbers
  <2>2. Progress'
    <3> SUFFICES ASSUME NEW f \in Endpoint
                 PROVE  /\ acked[f] <= Len(delivered[Peer(f)])
                        /\ Len(delivered[Peer(f)]) <= sent'[f]
                        /\ sent'[f] <= acked[f] + Window
      BY <1>1 DEF Progress
    <3>1. /\ acked[f] <= Len(delivered[Peer(f)])
          /\ Len(delivered[Peer(f)]) <= sent[f]
          /\ sent[f] <= acked[f] + Window
          /\ Len(delivered[Peer(f)]) \in Nat
      BY SMTT(30), Peers DEF IInv, Progress, TypeOK
    <3> QED
      BY <1>2, <1>3a, <3>1
  <2>3. Contents' /\ Unpacking'
    BY <1>1 DEF IInv, Contents, Unpacking
  <2> QED
    BY <2>1, <2>2, <2>3
<1>10. TypeOK'
  BY <1>1, <1>2, <1>3, <1>7, <1>8 DEF IInv, TypeOK
<1> QED
  BY <1>7, <1>8, <1>9, <1>10 DEF IInv

\* Of the chunks under way to e only the one that follows the last delivered has the number
\* that UnpackNextChunk waits for.
LEMMA NextIsNext ==
  ASSUME IInv, NEW e \in Endpoint, state[e] # "OFFLINE",
         NEW c \in SentChunks(Peer(e)), c.vital, IsNext(e, c)
  PROVE  /\ c.id = Len(delivered[e]) + 1
         /\ c.id <= sent[Peer(e)]
         /\ c.seq = (Len(delivered[e]) + 1) % MaxSequence
         /\ c.seq \in 0 .. MaxSequence - 1
<1> DEFINE d == Len(delivered[e])
           s == sent[Peer(e)]
           a == acked[Peer(e)]
           n == d + 1
<1>1. /\ d \in Nat /\ s \in Nat /\ a \in Nat /\ n \in Nat
      /\ a <= d /\ d <= s /\ s <= a + Window
      /\ ack[e] = d % MaxSequence
      /\ MaxSequence \in Nat \ {0} /\ Window \in Nat /\ Window < MaxSequence
  <2>1. Peer(e) \in Endpoint /\ Peer(Peer(e)) = e
    BY Peers
  <2>2. d \in Nat /\ s \in Nat /\ a \in Nat
    BY <2>1 DEF IInv, TypeOK
  <2>3. a <= d /\ d <= s /\ s <= a + Window
    BY <2>1 DEF IInv, Progress
  <2> QED
    BY <2>2, <2>3, Constants DEF IInv, Numbers
<1>2. /\ c.id \in 1 .. s /\ c.id \in Nat /\ c.seq = c.id % MaxSequence /\ c.seq \in 0 .. MaxSequence - 1
      /\ s - c.id < MaxSequence - 1
  BY <1>1 DEF SentChunks, Chunk
<1> HIDE DEF s, a
<1>3. c.seq = n % MaxSequence
  BY <1>1, ModSucc DEF IsNext, NextSequence
<1> HIDE DEF d
<1>4. c.id - n < MaxSequence /\ n - c.id < MaxSequence
  BY <1>1, <1>2
<1> HIDE DEF n
<1>5. c.id = n
  BY <1>1, <1>2, <1>3, <1>4, ModUnique
<1> QED
  BY <1>2, <1>3, <1>5 DEF n, d, s

\* UnpackNextChunk preserves the invariant: what it hands over is the next chunk sent.
LEMMA UnpackNextChunkStep ==
  ASSUME IInv, NEW e \in Endpoint, UnpackNextChunk(e)
  PROVE  IInv'
<1> DEFINE c == Head(inbox[e])
<1>1. /\ inbox[e] # <<>> /\ state[e] = "ONLINE" /\ inbox' = [inbox EXCEPT ![e] = Tail(@)]
      /\ UNCHANGED <<state, sequence, peerAck, buffer, resendRequested, net, sent, acked, unsaved>>
  BY DEF UnpackNextChunk, IInv, Unpacking
<1>2. c \in SentChunks(Peer(e)) /\ Tail(inbox[e]) \in Seq(SentChunks(Peer(e)))
      /\ Tail(inbox[e]) \in Seq(Chunk)
  <2>1. inbox[e] \in Seq(SentChunks(Peer(e)))
    BY DEF IInv, Travelling
  <2> QED
    BY <1>1, <2>1, SentChunksType, SeqOfSubset
<1>3. \/ /\ c.vital /\ IsNext(e, c)
         /\ ack' = [ack EXCEPT ![e] = c.seq]
         /\ delivered' = [delivered EXCEPT ![e] = Append(@, c.id)]
         /\ UNCHANGED construct
      \/ /\ \/ construct' = [construct EXCEPT ![e].resend = TRUE]
            \/ UNCHANGED construct
         /\ UNCHANGED <<ack, delivered>>
  BY DEF UnpackNextChunk
<1> HIDE DEF c
<1>4. \A f : SentChunks(f)' = SentChunks(f)
  BY <1>1 DEF SentChunks
<1>5. /\ construct' \in [Endpoint -> [chunks : Seq(Chunk), resend : BOOLEAN]]
      /\ \A f \in Endpoint : construct'[f].chunks = construct[f].chunks
  <2>1. construct \in [Endpoint -> [chunks : Seq(Chunk), resend : BOOLEAN]]
    BY DEF IInv, TypeOK
  <2>2. CASE UNCHANGED construct
    BY <2>1, <2>2
  <2>3. CASE construct' = [construct EXCEPT ![e].resend = TRUE]
    BY <2>1, <2>3
  <2> QED
    BY <1>3, <2>2, <2>3
<1>6. Travelling' /\ inbox' \in [Endpoint -> Seq(Chunk)]
  BY <1>1, <1>2, <1>4, <1>5 DEF IInv, TypeOK, Travelling
<1>7. Unpacking' /\ Saved'
  <2>1. Unpacking'
    BY <1>1 DEF IInv, TypeOK, Unpacking
  <2>2. Saved'
    BY <1>1 DEF IInv, Saved, SavedChunks
  <2> QED
    BY <2>1, <2>2
<1>8. /\ ack' \in [Endpoint -> 0 .. MaxSequence - 1] /\ delivered' \in [Endpoint -> Seq(Nat)]
      /\ Numbers' /\ Progress' /\ Contents'
      /\ \A f \in Endpoint : Len(delivered[f]) <= Len(delivered'[f])
  <2>1. CASE UNCHANGED <<ack, delivered>>
    BY SMTT(30), <1>1, <2>1 DEF IInv, TypeOK, Numbers, Progress, Contents
  <2>2. CASE /\ c.vital /\ IsNext(e, c)
             /\ ack' = [ack EXCEPT ![e] = c.seq]
             /\ delivered' = [delivered EXCEPT ![e] = Append(@, c.id)]
    <3>1. /\ c.id = Len(delivered[e]) + 1 /\ c.id <= sent[Peer(e)]
          /\ c.seq = (Len(delivered[e]) + 1) % MaxSequence /\ c.seq \in 0 .. MaxSequence - 1
      BY <1>1, <1>2, <2>2, NextIsNext
    <3>2. /\ delivered \in [Endpoint -> Seq(Nat)] /\ ack \in [Endpoint -> 0 .. MaxSequence - 1]
          /\ sent \in [Endpoint -> Nat] /\ acked \in [Endpoint -> Nat] /\ Window \in Nat
      BY Constants DEF IInv, TypeOK
    <3>3. /\ delivered'[e] = Append(delivered[e], c.id) /\ ack'[e] = c.seq
          /\ Len(delivered'[e]) = c.id /\ delivered'[e] \in Seq(Nat)
          /\ delivered'[e][c.id] = c.id
          /\ \A i \in 1 .. Len(delivered[e]) : delivered'[e][i] = delivered[e][i]
      BY <2>2, <3>1, <3>2
    <3>4. \A f \in Endpoint \ {e} : delivered'[f] = delivered[f] /\ ack'[f] = ack[f]
      BY <2>2, <3>2
    <3>5. Numbers'
      BY <1>1, <3>1, <3>3, <3>4 DEF IInv, Numbers
    <3>6. Progress'
      <4> SUFFICES ASSUME NEW f \in Endpoint
                   PROVE  /\ acked[f] <= Len(delivered'[Peer(f)])
                          /\ Len(delivered'[Peer(f)]) <= sent[f]
                          /\ sent[f] <= acked[f] + Window
        BY <1>1 DEF Progress
      <4>1. /\ Peer(f) \in Endpoint /\ Peer(Peer(f)) = f
            /\ acked[f] <= Len(delivered[Peer(f)]) /\ Len(delivered[Peer(f)]) <= sent[f]
            /\ sent[f] <= acked[f] + Window
            /\ Len(delivered[Peer(f)]) \in Nat /\ acked[f] \in Nat
        BY <3>2, Peers DEF IInv, Progress
      <4> QED
        BY <3>1, <3>3, <3>4, <4>1
    <3>7. Contents'
      <4> SUFFICES ASSUME NEW f \in Endpoint, NEW i \in 1 .. Len(delivered'[f])
                   PROVE  delivered'[f][i] = i
        BY DEF Contents
      <4>1. \A j \in 1 .. Len(delivered[f]) : delivered[f][j] = j
        BY DEF IInv, Contents
      <4>2. CASE f = e
        <5>1. i \in 1 .. Len(delivered[e]) \/ i = c.id
          BY <3>1, <3>2, <3>3, <4>2
        <5> QED
          BY <3>3, <4>1, <4>2, <5>1
      <4>3. CASE f # e
        BY <3>4, <4>1, <4>3
      <4> QED
        BY <4>2, <4>3
    <3> QED
      BY <2>2, <3>1, <3>2, <3>3, <3>4, <3>5, <3>6, <3>7
  <2> QED
    BY <1>3, <2>1, <2>2
<1>9. Packets'
  <2> SUFFICES ASSUME NEW p \in net
               PROVE  GoodPacket(p)'
    BY <1>1 DEF Packets
  <2>1. GoodPacket(p) /\ Peer(p.to) \in Endpoint /\ p.ackId \in Nat
    BY Peers DEF IInv, Packets, GoodPacket, Packet
  <2>2. p.ackId <= Len(delivered'[Peer(p.to)])
    <3>1. /\ p.ackId <= Len(delivered[Peer(p.to)])
          /\ Len(delivered[Peer(p.to)]) \in Nat /\ Len(delivered'[Peer(p.to)]) \in Nat
      <4>1. p.ackId <= Len(delivered[Peer(p.to)])
        BY <2>1 DEF GoodPacket
      <4>2. delivered \in [Endpoint -> Seq(Nat)]
        BY DEF IInv, TypeOK
      <4> QED
        BY <1>8, <2>1, <4>1, <4>2
    <3> QED
      BY <1>8, <2>1, <3>1
  <2>3. p.chunks \in Seq(SentChunks(Peer(p.to))')
    BY <1>4, <2>1 DEF GoodPacket
  <2>4. p \in Packet /\ p.ack = p.ackId % MaxSequence /\ sent'[p.to] - p.ackId < MaxSequence
    BY <1>1, <2>1 DEF GoodPacket
  <2> QED
    BY <2>2, <2>3, <2>4 DEF GoodPacket
<1>10. TypeOK'
  BY <1>1, <1>5, <1>6, <1>8 DEF IInv, TypeOK
<1> QED
  BY <1>6, <1>7, <1>8, <1>9, <1>10 DEF IInv

\* The invariant holds when both connections have just come online.
LEMMA InitInv == Init => IInv
<1> SUFFICES ASSUME Init PROVE IInv
  OBVIOUS
<1>1. MaxSequence \in Nat \ {0} /\ Window \in Nat /\ 0 \in 0 .. MaxSequence - 1 /\ 0 % MaxSequence = 0
  BY Constants
<1>2. TypeOK
  BY <1>1 DEF Init, TypeOK, EmptyConstruct
<1>3. Numbers /\ Progress /\ Contents
  BY <1>1, Peers DEF Init, Numbers, Progress, Contents
<1>4. Travelling /\ Packets /\ Unpacking
  <2>1. \A e \in Endpoint : construct[e].chunks = <<>> /\ inbox[e] = <<>>
    BY DEF Init, EmptyConstruct
  <2>2. net = {}
    BY DEF Init
  <2>3. \A S : <<>> \in Seq(S)
    OBVIOUS
  <2>4. Travelling
    BY <2>1, <2>3 DEF Travelling
  <2> QED
    BY <2>1, <2>2, <2>4 DEF Packets, Unpacking
<1>5. Saved
  BY <1>1 DEF Init, Saved, SavedChunks
<1> QED
  BY <1>2, <1>3, <1>4, <1>5 DEF IInv

\* A step that changes no variable preserves the invariant.
LEMMA StutterStep ==
  ASSUME IInv, UNCHANGED vars
  PROVE  IInv'
<1>1. UNCHANGED <<state, sequence, ack, peerAck, buffer, construct, resendRequested, inbox, net,
                  sent, acked, unsaved, delivered>>
  BY DEF vars, connVars, histVars
<1>2. TypeOK' /\ Numbers' /\ Progress' /\ Contents' /\ Unpacking' /\ Saved'
  <2>1. TypeOK'
    BY <1>1 DEF IInv, TypeOK
  <2>2. Numbers' /\ Progress' /\ Contents' /\ Unpacking'
    BY <1>1 DEF IInv, Numbers, Progress, Contents, Unpacking
  <2>3. Saved'
    BY <1>1 DEF IInv, Saved, SavedChunks
  <2> QED
    BY <2>1, <2>2, <2>3
<1>3. (\A f : SentChunks(f)' = SentChunks(f)) /\ \A p : GoodPacket(p) => GoodPacket(p)'
  BY <1>1 DEF GoodPacket, SentChunks
<1>4. Travelling' /\ Packets'
  BY <1>1, <1>3 DEF IInv, Travelling, Packets
<1> QED
  BY <1>2, <1>4 DEF IInv

\* Every step of the two connections, of the network or of the applications preserves it.
LEMMA NextInv == IInv /\ [Next]_vars => IInv'
<1> SUFFICES ASSUME IInv, [Next]_vars PROVE IInv'
  OBVIOUS
<1>1. ASSUME NEW e \in Endpoint, Step(e)
      PROVE  IInv'
  <2>1. ASSUME NEW flush \in BOOLEAN, SendVital(e, flush)
        PROVE  IInv'
    BY <2>1, SendVitalStep
  <2>2. ASSUME NEW flush \in BOOLEAN, SendPlain(e, flush)
        PROVE  IInv'
    BY <2>2, SendPlainStep
  <2>3. CASE Flush(e)
    BY <2>3, FlushStep
  <2>4. ASSUME NEW p \in net, NEW answer \in BOOLEAN, Receive(e, p, answer)
        PROVE  IInv'
    BY <2>4, ReceiveStep
  <2>5. CASE UnpackNextChunk(e)
    BY <2>5, UnpackNextChunkStep
  <2>6. ASSUME NEW due \in Due(e), Update(e, due)
        PROVE  IInv'
    BY <2>6, UpdateStep
  <2>7. CASE UpdateError(e)
    BY <2>7, UpdateErrorStep
  <2>8. CASE Disconnect(e)
    BY <2>8, DisconnectStep
  <2> QED
    BY <1>1, <2>1, <2>2, <2>3, <2>4, <2>5, <2>6, <2>7, <2>8 DEF Step
<1>2. ASSUME NEW p \in net, Lose(p)
      PROVE  IInv'
  BY <1>2, LoseStep
<1>3. CASE UNCHANGED vars
  BY <1>3, StutterStep
<1> QED
  BY <1>1, <1>2, <1>3 DEF Next

\* The inductive invariant holds in every state the two connections can reach.
THEOREM Invariant == Spec => []IInv
BY InitInv, NextInv, PTL DEF Spec

-----------------------------------------------------------------------------
(* What the invariant gives.                                               *)

\* The variables of CNetConnection, the packets and the histories keep their types: every
\* sequence number and acknowledgement stays within the NET_MAX_SEQUENCE numbers.
THEOREM TypeCorrect == Spec => []TypeOK
<1>1. IInv => TypeOK
  BY DEF IInv
<1> QED
  BY <1>1, Invariant, PTL

\* UnpackNextChunk hands the application a prefix of what its peer queued with
\* NET_CHUNKFLAG_VITAL, in order, each chunk once: for every size of the sequence space of
\* which half exceeds the chunks outstanding.
THEOREM Ordered == Spec => []InOrder
<1>1. IInv => InOrder
  BY Peers DEF IInv, Progress, Contents, InOrder
<1> QED
  BY <1>1, Invariant, PTL

\* AckChunks drops a saved chunk only after the peer has been handed it.
THEOREM Retransmission == Spec => []Retransmittable
<1>1. ASSUME IInv, NEW e \in Endpoint, state[e] = "ONLINE",
             NEW id \in Len(delivered[Peer(e)]) + 1 .. sent[e]
      PROVE  id \in unsaved[e] \/ \E i \in DOMAIN buffer[e] : buffer[e][i].id = id
  <2>1. /\ acked[e] \in Nat /\ sent[e] \in Nat /\ Len(delivered[Peer(e)]) \in Nat
        /\ acked[e] <= Len(delivered[Peer(e)])
    <3>1. Peer(e) \in Endpoint
      BY Peers
    <3>2. acked \in [Endpoint -> Nat] /\ sent \in [Endpoint -> Nat] /\ delivered \in [Endpoint -> Seq(Nat)]
      BY <1>1 DEF IInv, TypeOK
    <3> QED
      BY <1>1, <3>1, <3>2 DEF IInv, Progress
  <2>2. id \in acked[e] + 1 .. sent[e]
    BY <2>1
  <2>3. SavedChunks(e) /\ buffer[e] \in Seq(Chunk)
    BY <1>1 DEF IInv, Saved, TypeOK
  <2> QED
    BY <2>2, <2>3 DEF SavedChunks
<1>2. IInv => Retransmittable
  BY <1>1 DEF Retransmittable
<1> QED
  BY <1>2, Invariant, PTL

\* Feed never accepts an acknowledgement older than the newest one received.
THEOREM AckNeverBack == Spec => AckMonotonic
<1> DEFINE Mono == \A e \in Endpoint : acked'[e] >= acked[e]
<1>1. IInv /\ [Next]_vars => Mono
  <2> SUFFICES ASSUME IInv, [Next]_vars PROVE Mono
    OBVIOUS
  <2>1. acked \in [Endpoint -> Nat]
    BY DEF IInv, TypeOK
  <2>2. ASSUME NEW f \in Endpoint, NEW p \in net, NEW answer \in BOOLEAN, Receive(f, p, answer)
        PROVE  Mono
    <3>1. /\ acked' = [acked EXCEPT ![f] = p.ackId]
          /\ state[f] = "ONLINE" /\ p.to = f /\ IsAckValid(f, p.ack)
      BY <2>2 DEF Receive
    <3>2. p.ackId \in Nat /\ acked[f] <= p.ackId
      BY <3>1, AcceptedAck
    <3> QED
      BY <2>1, <3>1, <3>2
  <2>3. CASE UNCHANGED acked
    BY <2>1, <2>3
  <2>4. UNCHANGED acked \/ \E f \in Endpoint, p \in net, answer \in BOOLEAN : Receive(f, p, answer)
    BY DEF Next, Step, SendVital, SendPlain, Flush, UnpackNextChunk, Update, UpdateError, Disconnect,
           Lose, histVars, vars
  <2> QED
    BY <2>2, <2>3, <2>4
<1> QED
  BY <1>1, Invariant, PTL DEF Spec, AckMonotonic

\* Only UnpackNextChunk takes chunks from a packet that stays with its connection.
LEMMA OnlyUnpacked ==
  ASSUME IInv, [Next]_vars, NEW e \in Endpoint, inbox[e] # <<>>, inbox'[e] = Tail(inbox[e]),
         state'[e] # "OFFLINE"
  PROVE  UnpackNextChunk(e)
<1>1. inbox'[e] # inbox[e] /\ inbox \in [Endpoint -> Seq(Chunk)]
      /\ state \in [Endpoint -> {"ONLINE", "ERROR", "OFFLINE"}]
  <2>1. inbox \in [Endpoint -> Seq(Chunk)] /\ state \in [Endpoint -> {"ONLINE", "ERROR", "OFFLINE"}]
    BY DEF IInv, TypeOK
  <2>2. inbox[e] \in Seq(Chunk) /\ Len(inbox[e]) \in Nat /\ Len(Tail(inbox[e])) = Len(inbox[e]) - 1
    BY <2>1
  <2>3. Len(inbox'[e]) # Len(inbox[e])
    BY <2>2
  <2> QED
    BY <2>1, <2>3
<1>2. ASSUME NEW f \in Endpoint, Reset(f)
      PROVE  FALSE
  BY <1>1, <1>2 DEF Reset
<1>3. ASSUME NEW f \in Endpoint, NEW p \in net, NEW answer \in BOOLEAN, Receive(f, p, answer)
      PROVE  FALSE
  BY <1>1, <1>3 DEF Receive
<1>4. UNCHANGED inbox => FALSE
  BY <1>1
<1>5. ASSUME NEW f \in Endpoint, UnpackNextChunk(f)
      PROVE  f = e
  BY <1>1, <1>5 DEF UnpackNextChunk
<1> QED
  BY ZenonT(40), <1>2, <1>3, <1>4, <1>5 DEF Next, Step, SendVital, SendPlain, Flush, Update, UpdateError, Disconnect,
                                Lose, connVars, vars

\* UnpackNextChunk never takes a chunk that is still missing for one of the backroom.
THEOREM MissingNotSkipped == Spec => OnlyOldSkipped
<1> DEFINE Skipped(e) == /\ inbox[e] # <<>> /\ inbox'[e] = Tail(inbox[e]) /\ state'[e] # "OFFLINE"
                         /\ Head(inbox[e]).vital
                         /\ delivered'[e] = delivered[e]
                         /\ ~construct'[e].resend
<1>1. ASSUME IInv, [Next]_vars, NEW e \in Endpoint, Skipped(e)
      PROVE  Head(inbox[e]).id <= Len(delivered[e])
  <2> DEFINE c == Head(inbox[e])
             d == Len(delivered[e])
  <2>1. UnpackNextChunk(e)
    BY <1>1, OnlyUnpacked
  <2>2. /\ state[e] # "OFFLINE" /\ c \in SentChunks(Peer(e)) /\ c.vital
        /\ delivered \in [Endpoint -> Seq(Nat)]
        /\ construct \in [Endpoint -> [chunks : Seq(Chunk), resend : BOOLEAN]]
    BY <1>1 DEF IInv, Unpacking, Travelling, TypeOK
  <2>3. IsSeqInBackroom(c.seq, ack[e])
    <3>1. CASE c.vital /\ IsNext(e, c) /\ delivered' = [delivered EXCEPT ![e] = Append(@, c.id)]
      <4>1. Len(delivered'[e]) = d + 1 /\ d \in Nat
        BY <2>2, <3>1
      <4> QED
        BY <1>1, <4>1
    <3>2. CASE construct' = [construct EXCEPT ![e].resend = TRUE]
      <4>1. construct'[e].resend
        BY <2>2, <3>2
      <4> QED
        BY <1>1, <4>1
    <3> QED
      BY <1>1, <2>1, <2>2, <3>1, <3>2 DEF UnpackNextChunk
  <2>4. /\ d \in Nat /\ ack[e] = d % MaxSequence
        /\ c.id \in Nat /\ c.seq = c.id % MaxSequence /\ c.id <= d + Window
    <3>1. Peer(e) \in Endpoint /\ Peer(Peer(e)) = e
      BY Peers
    <3>2. /\ sent[Peer(e)] \in Nat /\ acked[Peer(e)] \in Nat /\ d \in Nat
          /\ sent[Peer(e)] <= acked[Peer(e)] + Window /\ acked[Peer(e)] <= d
      BY SMTT(30), <1>1, <2>2, <3>1 DEF IInv, TypeOK, Progress
    <3>3. c.id \in 1 .. sent[Peer(e)] /\ c.seq = c.id % MaxSequence
      BY <2>2 DEF SentChunks
    <3> HIDE DEF c, d
    <3>4. c.id \in Nat /\ c.id <= d + Window
      BY <3>2, <3>3, Constants
    <3>5. ack[e] = d % MaxSequence
      BY <1>1, <2>2 DEF IInv, Numbers, d
    <3> QED
      BY <3>2, <3>3, <3>4, <3>5
  <2> HIDE DEF c, d
  <2>5. c.id <= d
    <3> SUFFICES ASSUME d < c.id PROVE FALSE
      BY <2>4
    <3>1. c.id - d <= Window
      BY <2>4, Constants
    <3> QED
      BY <2>3, <2>4, <3>1, BackroomAhead
  <2> QED
    BY <2>5 DEF c, d
<1>2. IInv /\ [Next]_vars => \A e \in Endpoint : Skipped(e) => Head(inbox[e]).id <= Len(delivered[e])
  BY <1>1
<1> QED
  BY <1>2, Invariant, PTL DEF Spec, OnlyOldSkipped

-----------------------------------------------------------------------------
(* The connection implements the reliable channel.                         *)

\* What the applications on the two ends see of CNetConnection, the vital chunks they queue
\* and the vital chunks they are handed, is a behaviour of the reliable channel.
THEOREM Implementation == Spec => ChannelSpec
<1>1. Init => Channel!Init
  BY DEF Init, Channel!Init
<1>2. IInv /\ [Next]_vars => [Channel!Next]_(Channel!chanVars)
  <2> SUFFICES ASSUME IInv, [Next]_vars
               PROVE  Channel!Next \/ UNCHANGED <<sent, delivered>>
    BY DEF Channel!chanVars
  <2>1. ASSUME NEW e \in Endpoint, NEW flush \in BOOLEAN, SendVital(e, flush)
        PROVE  Channel!Next
    <3>1. Channel!Send(e)
      BY <2>1 DEF SendVital, Channel!Send
    <3> QED
      BY <3>1 DEF Channel!Next
  <2>2. ASSUME NEW e \in Endpoint, UnpackNextChunk(e)
        PROVE  Channel!Next \/ UNCHANGED <<sent, delivered>>
    <3> DEFINE c == Head(inbox[e])
    <3>1. /\ UNCHANGED sent
          /\ \/ /\ c.vital /\ IsNext(e, c)
                /\ delivered' = [delivered EXCEPT ![e] = Append(@, c.id)]
             \/ UNCHANGED delivered
      BY <2>2 DEF UnpackNextChunk
    <3>2. CASE /\ c.vital /\ IsNext(e, c)
               /\ delivered' = [delivered EXCEPT ![e] = Append(@, c.id)]
      <4>1. c \in SentChunks(Peer(e)) /\ state[e] # "OFFLINE"
        BY <2>2 DEF IInv, Unpacking, Travelling, UnpackNextChunk
      <4>2. c.id = Len(delivered[e]) + 1 /\ c.id <= sent[Peer(e)]
        BY <3>2, <4>1, NextIsNext
      <4>3. Len(delivered[e]) < sent[Peer(e)]
        BY SMTT(30), <4>2, Peers DEF IInv, TypeOK
      <4>4. Channel!Deliver(e)
        BY <3>1, <3>2, <4>2, <4>3 DEF Channel!Deliver
      <4> QED
        BY <4>4 DEF Channel!Next
    <3> QED
      BY <3>1, <3>2
  <2>3. \/ UNCHANGED <<sent, delivered>>
        \/ \E e \in Endpoint, flush \in BOOLEAN : SendVital(e, flush)
        \/ \E e \in Endpoint : UnpackNextChunk(e)
    BY ZenonT(40) DEF Next, Step, SendPlain, Flush, Receive, Update, UpdateError, Disconnect, Lose, histVars, vars
  <2> QED
    BY <2>1, <2>2, <2>3
<1> QED
  BY <1>1, <1>2, Invariant, PTL DEF Spec, ChannelSpec, Channel!Spec

=============================================================================
