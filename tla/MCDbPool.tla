------------------------------ MODULE MCDbPool ------------------------------
(* Instances of DbPool for TLC.                                            *)
EXTENDS DbPool
=============================================================================
