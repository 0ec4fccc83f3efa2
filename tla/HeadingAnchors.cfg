SPECIFICATION Spec
CONSTANTS
  Families <- MCFamilies
INVARIANTS
  NamesByTheRule
  NamesKept
CHECK_DEADLOCK FALSE
