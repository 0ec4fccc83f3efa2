SPECIFICATION Spec
CONSTANTS
  Families <- MCFamilies
  None = None
INVARIANTS
  ReadIsWhole
  PlacesNest
  MemosChangeNothing
CHECK_DEADLOCK FALSE
