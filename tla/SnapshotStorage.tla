-------------------------- MODULE SnapshotStorage --------------------------
(***************************************************************************)
(* CSnapshotStorage (src/src/engine/shared/snapshot.cpp), the list of      *)
(* snapshots that the server and the client each keep as bases of deltas:  *)
(* a function from ticks to snapshots.  Nothing is ever added before the   *)
(* last tick (the assertion of Add), so the list is sorted by tick.        *)
(***************************************************************************)
EXTENDS Integers, FiniteSets

NoTick == -1     \* the tick of the empty snapshot, and "not acknowledged"

NoSnapshots == [t \in {} |-> 0]

\* The assertion of Add.
MayAdd(snaps, tick) == \A t \in DOMAIN snaps : t < tick

AddSnapshot(snaps, tick, snapshot) ==
  [t \in DOMAIN snaps \cup {tick} |-> IF t = tick THEN snapshot ELSE snaps[t]]

PurgeUntil(snaps, tick) == [t \in {u \in DOMAIN snaps : u >= tick} |-> snaps[t]]

\* CHolder::m_pNext: the next tick stored after this one, if there is one.
HasNext(snaps, tick) == \E t \in DOMAIN snaps : t > tick
NextStored(snaps, tick) ==
  CHOOSE t \in DOMAIN snaps : t > tick /\ \A u \in DOMAIN snaps : u > tick => t <= u

FirstStored(snaps) == CHOOSE t \in DOMAIN snaps : \A u \in DOMAIN snaps : t <= u
LastStored(snaps) == CHOOSE t \in DOMAIN snaps : \A u \in DOMAIN snaps : u <= t
=============================================================================
