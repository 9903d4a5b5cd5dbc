-------------------------- MODULE MCNetConnection --------------------------
(* Instances of NetConnection for TLC.                                     *)
EXTENDS NetConnection, TLC

\* The server's stream uses up the sequence numbers, the client acknowledges.
MCMaxSent == (Client :> 0) @@ (Server :> 5)

\* The server's stream uses most sequence numbers twice.
MCMaxSentTwice == (Client :> 0) @@ (Server :> 8)

\* A short stream, for liveness.
MCMaxSentFew == (Client :> 0) @@ (Server :> 2)

MCTalkers == {Client}
=============================================================================
