SPECIFICATION DiffSpec
CONSTANTS
  Stacks = {"a", "b"}
  Sites = {"a1", "a2", "b"}
  StackOf <- MCStackOf
  ProfileTypes <- MCProfileTypes
  MaxSteps = 4
  None = None
CHECK_DEADLOCK FALSE
INVARIANTS
  ReportedInFull
  NeverTooMuch
