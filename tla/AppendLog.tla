----------------------------- MODULE AppendLog -----------------------------
(***************************************************************************)
(* What an asynchronous file promises to those who write to it             *)
(* (src/src/base/aio.h): lines are stored in the order in which they were  *)
(* accepted and none is torn, skipped or stored twice; after aio_wait the  *)
(* file holds all that was accepted before it was asked to finish, or      *)
(* aio_error tells that it does not.                                       *)
(***************************************************************************)
EXTENDS Integers, Sequences

CONSTANT Byte

VARIABLES
  accepted,  \* the bytes of all lines accepted so far, one after the other
  written,   \* what has been handed to the file
  damaged,   \* an operation on the file has failed
  due,       \* how many bytes were accepted when the end was asked for, or -1
  report     \* what the owner was told at the end: "none", "ok" or "error"

vars == <<accepted, written, damaged, due, report>>

Init ==
  /\ accepted = <<>>
  /\ written = <<>>
  /\ damaged = FALSE
  /\ due = -1
  /\ report = "none"

\* A line is appended as a whole.
Accept ==
  /\ accepted' \in Seq(Byte)
  /\ Len(accepted) <= Len(accepted')
  /\ SubSeq(accepted', 1, Len(accepted)) = accepted
  /\ UNCHANGED <<written, damaged, due, report>>

\* The next bytes go to the file.
Store ==
  /\ \E n \in Len(written) + 1 .. Len(accepted) : written' = SubSeq(accepted, 1, n)
  /\ damaged' \in {damaged, TRUE}
  /\ UNCHANGED <<accepted, due, report>>

Finish ==
  /\ due = -1
  /\ due' = Len(accepted)
  /\ UNCHANGED <<accepted, written, damaged, report>>

Report ==
  /\ report = "none"
  /\ due # -1 /\ Len(written) >= due
  /\ report' = IF damaged THEN "error" ELSE "ok"
  /\ UNCHANGED <<accepted, written, damaged, due>>

Next == Accept \/ Store \/ Finish \/ Report

Spec == Init /\ [][Next]_vars
=============================================================================
