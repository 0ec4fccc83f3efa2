SPECIFICATION Spec
CONSTANTS
  Families <- MCFamilies
INVARIANTS
  StreamIsWhole
  LooseIsSpaced
  BlockPlacesNest
CHECK_DEADLOCK FALSE
