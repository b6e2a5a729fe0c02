CONSTANTS
  NoUid = NoUid
  NoRow = NoRow
  NoAttempt = NoAttempt
  NoFailure = NoFailure
  Foreign = Foreign
  NoMap = NoMap
  Specs = {"plain", "map", "named", "refused", "broken", "lost"}
  Malformed = {"broken", "lost"}
  Refused = {"refused"}
  Poison = {"plain"}
  Named = {"named", "lost"}
  Maps = {"map", "named"}
  MaxContent = 2
  ReadFaults <- MCReadFaults
  WriteFaults <- MCWriteFaults
  Limit = 4
SPECIFICATION FairSpec
INVARIANTS
  NoIdenticalRetry
  NoIdenticalRead
  HashIsWhatWasApplied
PROPERTIES
  Settles
CHECK_DEADLOCK FALSE
