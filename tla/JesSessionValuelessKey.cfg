SPECIFICATION SessionSpec
CONSTANTS
  Capacity = 5
  NIL = NIL
  Names = {"a", "b"}
  Indices = {0}
  Hashed = TRUE
  HashCapacity = 2
  Home <- MCHome
  EMPTY = EMPTY
  TOMBSTONE = TOMBSTONE
  Rules = {}
  MaxTokens = 9
  TextLength = 1
  Quoted = {0, 2}
INVARIANTS
  RendersOnlyTheTree
CHECK_DEADLOCK FALSE
