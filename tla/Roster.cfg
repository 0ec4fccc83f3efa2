CONSTANTS
  a = a
  b = b
  anc = anc
  Keys <- MCKeys
  KindOf <- MCKindOf
  KindOrder <- MCKindOrder
  Anchor = "anchor"
  Slack = 0
  MaxSize = 2
  MaxLog = 3
  MaxMarks = 1
  None = None
SYMMETRY Symmetry
SPECIFICATION BothSpec
INVARIANTS DeclarationsStand LookupsFindEarliest AlteredIsExact IndexSound PlacesSound
