CONSTANTS
  Fields <- MCFields
  ValueTyped <- MCValueTyped
  Inherited <- MCInherited
  LateInited = {"subdomain"}
  Routing = {"workspace"}
  Ignored = {"secretRef"}
  Gated = {"qps"}
  Gate <- MCGate
  Unset = Unset
  Zero = Zero
  Values <- MCValues
  NoAttempt = NoAttempt
  UserValues <- MCUserValues
  ForeignValues <- MCForeignValues
  Floor <- MCFloor
  Manifests <- MCManifests
  ForeignTrees <- MCForeignTrees
  HomeNamespace = "home"
  NoChildren <- NoFields
  ChildrenUpToDate <- MCChildrenUpToDate
  ChildrenApplied <- ApplyChildren
  ChildrenHeld <- Held
  EditLimit <- MCLimit
  MaxEdits = 3
  MaxForeign = 1
SPECIFICATION Spec
INVARIANTS
  UpToDateMeansApplied
  DriftSettles
  ChildrenCompared
PROPERTIES
  DriftHasCause
CHECK_DEADLOCK FALSE
