--------------------------- MODULE MCSnapshotSync --------------------------
(* Two map changes that may overlap; the client has to download the last   *)
(* map, and is asked in the middle of it for what belongs to the other one. *)
EXTENDS SnapshotSync
=============================================================================
