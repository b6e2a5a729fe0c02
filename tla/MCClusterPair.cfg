CONSTANTS
  NoUid = NoUid
  NoRow = NoRow
  NoAttempt = NoAttempt
  NoFailure = NoFailure
  NoError = NoError
  NoMode = NoMode
  Clusters = {"c1", "c2"}
  Names <- OtherNames
  MetaName <- SameName
  RowName <- OtherName
  Intents = {"a", "bad", "odd"}
  Rejected = {"bad"}
  Unbuildable = {"odd"}
  Modes = {"off", "on"}
  Malformed = {}
  DefaultMode = "off"
  KubeConfig = "in-cluster"
  Targets = {"t1"}
  WorkingTargets = {"t1"}
  RemoveAgent = TRUE
  PinsDefaults = TRUE
  ReadFaults <- SafeReadFaults
  WriteFaults <- PassingWriteFaults
  TargetFaults <- PassingTargetFaults
  LostReplies = TRUE
  Limit <- MCLimit
  MaxFaults = 1
  MaxEdits = 0
  MaxDrops = 0
  MaxCrashes = 0
SPECIFICATION FairSpec
INVARIANTS
  NoIdenticalRetry
PROPERTIES
  Settles
CHECK_DEADLOCK FALSE
