CONSTANTS
  u1 = u1
  u2 = u2
  n1 = n1
  n2 = n2
  NoUid = NoUid
  Nothing = Nothing
  Miss = Miss
  Objects <- MCObjects
  Payloads = {p1, p2}
  Errors <- MCErrors
SPECIFICATION GuardSpec
INVARIANTS OneEntryPerObject
PROPERTY ImplementsMemory
