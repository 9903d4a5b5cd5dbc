-------------------------- MODULE ReliableChannel --------------------------
(***************************************************************************)
(* What CNetConnection promises to the code above it for chunks sent with  *)
(* NETSENDFLAG_VITAL: between two endpoints there is one channel in each   *)
(* direction, and the peer is handed a prefix of what was sent, in order,  *)
(* every chunk once.  A chunk is named by its position in the stream of    *)
(* vital chunks of its sender: 1, 2, 3, ...                                *)
(***************************************************************************)
EXTENDS Naturals, Sequences

CONSTANT Endpoint              \* the two ends of the connection
CONSTANT Peer(_)               \* the other end

VARIABLES sent,                \* sent[e]: vital chunks e has queued so far
          delivered            \* delivered[e]: vital chunks handed to e's application

chanVars == <<sent, delivered>>

Init == /\ sent = [e \in Endpoint |-> 0]
        /\ delivered = [e \in Endpoint |-> <<>>]

\* The application of e queues its next vital chunk.
Send(e) == /\ sent' = [sent EXCEPT ![e] = @ + 1]
           /\ UNCHANGED delivered

\* The application of e is handed the chunk that follows the last one it got.
Deliver(e) == /\ Len(delivered[e]) < sent[Peer(e)]
              /\ delivered' = [delivered EXCEPT ![e] = Append(@, Len(@) + 1)]
              /\ UNCHANGED sent

Next == \E e \in Endpoint : Send(e) \/ Deliver(e)

Spec == Init /\ [][Next]_chanVars
=============================================================================
