SPECIFICATION Spec
CONSTANTS
  Unwritten <- MCUnwritten
  Requires <- MCRequires
  Spelt <- MCSpelt
  Replaced <- MCReplaced
  MaxEdits = 1
  MaxForeign = 1
INVARIANTS
  UpToDateMeansStored
  ApplySettles
