CONSTANTS
  NoUid = NoUid
  NoId = NoId
  NoParent = NoParent
  NoInstance = NoInstance
  NoAttempt = NoAttempt
  NoFailure = NoFailure
  Instances = {"i1"}
  Lists = {"none", "office", "bad"}
  Empty = "none"
  Rejected = {"bad"}
  DirectId = NoId
  HasRef = TRUE
  ReadFaults <- MCReadFaults
  WriteFaults <- MCWriteFaults
  Limit <- MCLimit
  MaxFaults = 2
  MaxEdits = 2
  MaxParent = 2
  MaxCrashes = 1
SPECIFICATION FairSpec
INVARIANTS
  NoIdenticalRetry
  GoneClearsList
PROPERTIES
  Settles
CHECK_DEADLOCK FALSE
