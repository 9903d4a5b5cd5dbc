SPECIFICATION Spec
CONSTANTS
  j1 = j1  j2 = j2  j3 = j3  j4 = j4
  w1 = w1  w2 = w2  w3 = w3
  Jobs = {j1, j2, j3, j4}
  AbortableJobs = {j3, j4}
  Workers = {w1, w2, w3}
  NoJob = NoJob
  MaxInits = 2
SYMMETRY MCSymmetry
INVARIANTS TypeOK AssertionsHold ShutdownComplete
PROPERTY AbortIsFinal
