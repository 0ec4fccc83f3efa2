\* The widths' storage may be refused to an edit that mends them.
CONSTANTS
  def = def  use = use  more = more
  Bytes = {def, use, more}
  Opens = {def, use}
  Defs = {def}
  Uses = {use}
  Capacity = 4
  Chunk = 1
  FirstRoom = 2
  Inserts <- MCInserts
  WidthsScarce = TRUE
SPECIFICATION Spec
INVARIANTS DocumentIsOfText
CHECK_DEADLOCK FALSE
