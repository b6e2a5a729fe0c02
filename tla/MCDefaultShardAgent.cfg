CONSTANTS
  NoUid = NoUid
  NoPin = NoPin
  NoInstance = NoInstance
  NoAttempt = NoAttempt
  Mrs = {"m1", "m2"}
  Agents = {"blue", "green"}
  MaxIds = 2
  Rejected = {2}
  ByRef = TRUE
  ReadFaults <- MCReadFaults
  WriteFaults <- MCWriteFaults
  Starts <- MCStarts
  Limit = 1
SPECIFICATION FairSpec
INVARIANTS
  NoIdenticalRetry
  GoneClearsPin
PROPERTIES
  Settles
CHECK_DEADLOCK FALSE
