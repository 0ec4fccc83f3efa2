\* Four URIs, one more than a table of four slots takes, under every hash function
\* into two values: the homes 3 and 2 of a table of four, 3 and 6 of one of eight,
\* whose runs wrap around its end.  Updates of one edit, and of one after which an
\* inverted one comes.  Any call may fail to allocate.
CONSTANTS
  u1 = u1  u2 = u2  u3 = u3  u4 = u4
  edit = edit
  bad = bad
  Uris = {u1, u2, u3, u4}
  Versions = {1}
  Texts <- MCTexts
  Edits <- MCEdits
  Apply <- OneStep
  Inverted = {bad}
  Hashes = {3, 6}
  FirstCapacity = 4
  MostCapacity = 8
SYMMETRY Symmetry
SPECIFICATION Spec
INVARIANTS EveryRecordReached
PROPERTIES ImplementsLspStore
