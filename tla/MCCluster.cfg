CONSTANTS
  NoUid = NoUid
  NoRow = NoRow
  NoAttempt = NoAttempt
  NoFailure = NoFailure
  NoError = NoError
  NoMode = NoMode
  Clusters = {"c1"}
  Names <- SameNames
  MetaName <- SameName
  RowName <- SameName
  Intents = {"a", "bad"}
  Rejected = {"bad"}
  Unbuildable = {}
  Modes = {"off", "on", "ill"}
  Malformed = {"ill"}
  DefaultMode = "off"
  KubeConfig = "secret"
  Targets = {"t1", "t2"}
  WorkingTargets = {"t1"}
  RemoveAgent = TRUE
  PinsDefaults = TRUE
  ReadFaults <- SafeReadFaults
  WriteFaults <- AllWriteFaults
  TargetFaults <- MCTargetFaults
  LostReplies = TRUE
  Limit <- MCLimit
  MaxFaults = 2
  MaxEdits = 2
  MaxDrops = 1
  MaxCrashes = 1
SPECIFICATION Spec
INVARIANTS
  NoIdenticalRetry
  FailureStaysVisible
  RowMeansInstalled
  DeleteStripsFirst
  GoneLeavesNothing
  GuardForgetsGone
  GuardHoldsLastFailure
PROPERTIES
  SuppressOnlySamePayload
  CreateSyncsMode
CHECK_DEADLOCK FALSE
