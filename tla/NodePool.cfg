CONSTANTS
  Slabs = {s1, s2}
  Owns = {o1, o2}
  SlabSize = 6
  SlotSize = 2
  BytesClasses = 2
  RecordClass = 2
  MostItems = 5
  MostNodes = 2
  None = None
  s1 = s1
  s2 = s2
  o1 = o1
  o2 = o2
SYMMETRY Symmetry
SPECIFICATION Spec
INVARIANTS HoldsCounted NothingDangles NothingLeaks NothingOverlaps NothingShared ArraysFit
