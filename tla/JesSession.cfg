SPECIFICATION SessionSpec
CONSTANTS
  Capacity = 6
  NIL = NIL
  Names = {"a", "b"}
  Indices = {0}
  Hashed = TRUE
  HashCapacity = 2
  Home <- MCHome
  EMPTY = EMPTY
  TOMBSTONE = TOMBSTONE
  Rules = {}
  MaxTokens = 9
  TextLength = 1
  Quoted = {0, 2}
INVARIANTS
  SessionTypeOK
  RefusesNoJson
  LoadsWhatItReads
  LeavesTree
  LosesOneKey
  RendersTheTree
  ResultIsTheSize
  WritesWhatWasMeasured
  CountsEveryElement
PROPERTIES
  RenderReturns
\* A failed assertion ends the program.
CHECK_DEADLOCK FALSE
