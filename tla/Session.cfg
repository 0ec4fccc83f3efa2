\* A session through every failure but that of the storage the widths are
\* mended in.
CONSTANTS
  def = def  use = use  more = more
  Bytes = {def, use, more}
  Opens = {def, use}
  Defs = {def}
  Uses = {use}
  Capacity = 4
  Chunk = 1
  FirstRoom = 2
  Inserts <- MCInserts
  WidthsScarce = FALSE
SPECIFICATION Spec
INVARIANTS TypeOK DocumentIsOfText ContextIsCurrent WidthsMeasure HolesBounded
PROPERTIES GoneStaysGone
CHECK_DEADLOCK FALSE
