SPECIFICATION VerdictSpec
INVARIANTS VerdictsDisjoint WaitsAreNotCached
PROPERTY ReclassifyIsStable
