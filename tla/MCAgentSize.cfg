CONSTANTS
  Kind = "Cluster"
  NoConfig = NoConfig
  Configs = {c1, c2}
  NoScaler = NoScaler
  Bounds = {bounds}
  Stamped = Stamped
  NoSpec = NoSpec
  NoRow = NoRow
  Sizes = {"", "small", "large", "auto", "custom", "huge"}
  Supported = {"small", "large", "auto"}
  Clamp = "small"
  RetainsOmitted = TRUE
  Limit <- MCLimit
  MaxEdits = 2
  MaxForeign = 1
SPECIFICATION SizeSpec
INVARIANTS
  UpToDateMeansSized
  AppliedSettles
CHECK_DEADLOCK FALSE
