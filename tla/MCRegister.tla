---------------------------- MODULE MCRegister -----------------------------
(* Two runs of the game server, two protocols; requests of one overlap. *)
EXTENDS Register

CONSTANTS v4, v6

Runs == 1 .. 2
Protocols == {v4, v6}
Overlap == [p \in Protocols |-> IF p = v4 THEN 2 ELSE 1]

\* States that differ only in a dump that no restart will read any more go on alike.
Alive ==
  <<addresses, servers, seed, run, up, enabled, protocolVars, serialVars, jobs, netVars,
    trouble, reply, IF trouble < MaxTrouble THEN <<dump>> ELSE <<>>>>
=============================================================================
