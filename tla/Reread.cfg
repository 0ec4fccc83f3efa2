\* Texts of up to five lines, each over three kinds of lines whose readings meet;
\* edits that take out up to two and put in one.
SPECIFICATION Spec
CONSTANTS
  Alphabets = {{"blank", "quote", "name"}, {"blank", "text", "comment"}, {"text", "fence", "comment"},
               {"blank", "use", "def"}, {"comment", "use", "def"}, {"quote", "use", "def"}}
  MaxLines = 5
  MaxCut = 2
  MaxPut = 1
  MaxPasses = 2
INVARIANTS
  EditIsFresh
  ReachIsFresh
  RestUnspanned
