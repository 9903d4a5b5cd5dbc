SPECIFICATION FairSpec
CONSTANTS
  j1 = j1  j2 = j2  j3 = j3  j4 = j4
  w1 = w1  w2 = w2  w3 = w3
  Jobs = {j1, j2, j3}
  AbortableJobs = {j3}
  Workers = {w1, w2}
  NoJob = NoJob
  MaxInits = 1
PROPERTIES EventuallyDone ShutdownReturns
