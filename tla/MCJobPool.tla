----------------------------- MODULE MCJobPool -----------------------------
(* Instances of JobPool for TLC.                                           *)
EXTENDS JobPool, TLC

CONSTANTS j1, j2, j3, j4, w1, w2, w3

\* Jobs of the same kind are alike, and so are the workers.
MCSymmetry ==
  Permutations(AbortableJobs) \cup Permutations(Jobs \ AbortableJobs) \cup Permutations(Workers)
=============================================================================
