CONSTANTS
  v4 = v4
  v6 = v6
  Protocol <- Protocols
  Secret <- Runs
  None = None
  MaxRequests <- Overlap
  MaxTrouble = 1
VIEW Alive
SPECIFICATION FairSpec
INVARIANTS TypeOK MasterConsistent StatusIsLatestAnswer
PROPERTY InfoNeverOlder
PROPERTY EventuallyListed
PROPERTY EventuallyUnlisted
