CONSTANTS
  NoUid = NoUid
  NoRow = NoRow
  NoTarget = NoTarget
  NoAttempt = NoAttempt
  NoFailure = NoFailure
  Specs = {"kept", "plain", "remote", "refused", "broken"}
  Unbuildable = {"broken"}
  Refused = {"refused"}
  Installing = {"kept", "remote", "refused"}
  Removing = {"remote"}
  Contents = {"good", "bad"}
  Usable = {"good"}
  Workspaces = {"home"}
  NoWorkspace = NoWorkspace
  MaxIds = 2
  ReadFaults <- MCReadFaults
  WriteFaults <- MCWriteFaults
  Limit = 3
SPECIFICATION FairSpec
INVARIANTS
  NoIdenticalRetry
  GoneLeavesNothing
PROPERTIES
  Settles
CHECK_DEADLOCK FALSE
