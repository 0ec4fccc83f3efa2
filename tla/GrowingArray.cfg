\* Contents: two values, slices of one place.  The capacities 2, 4 and 8 occur,
\* with a switch from 4 to 8 and, past Limit, growth the sizes refuse.
CONSTANTS
  a = a
  b = b
  Elem <- MCElem
  Batches <- MCBatches
  Slice = 1
  First = 2
  Limit = 6
SPECIFICATION Spec
INVARIANTS InBounds CopiesHold
PROPERTIES ImplementsPlainArray PacedPush
