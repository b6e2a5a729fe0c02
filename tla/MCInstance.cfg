CONSTANTS
  NoUid = NoUid
  NoRow = NoRow
  NoAttempt = NoAttempt
  NoFailure = NoFailure
  Specs = {"full", "open", "refused", "inline"}
  Refused = {"refused"}
  Inline = {"inline"}
  Open = {"open"}
  Ordered = {"full", "open", "refused", "inline"}
  MaxContent = 2
  Reverts = FALSE
  Values = {"own", "default", "foreign"}
  Own = "own"
  Default = "default"
  ReadFaults <- MCReadFaults
  WriteFaults <- MCWriteFaults
  Limit = 4
SPECIFICATION FairSpec
INVARIANTS
  NoIdenticalRetry
  HashIsWhatWasApplied
PROPERTIES
  Settles
CHECK_DEADLOCK FALSE
