\* A process whose own allocations, for the message, the edits and the answer,
\* may fail, and one whose do not; the engine's may fail in both.
CONSTANTS
  u1 = u1
  edit = edit
  bad = bad
  Uris = {u1}
  Versions <- MCVersions
  Texts <- MCTexts
  Edits <- MCEdits
  Apply <- OneStep
  Inverted = {bad}
  Scarcity = {TRUE, FALSE}
  Most <- MCMost
SPECIFICATION AdapterSpec
INVARIANTS HeldWithStorage RequestsAnsweredInOrder
PROPERTIES EveryRequestAnswered HaltedHolds
CHECK_DEADLOCK FALSE
