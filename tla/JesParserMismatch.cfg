SPECIFICATION SessionSpec
CONSTANTS
  Capacity = 4
  NIL = NIL
  Names = {"a", "b"}
  Indices = {0}
  Hashed = TRUE
  HashCapacity = 2
  Home <- MCHome
  EMPTY = EMPTY
  TOMBSTONE = TOMBSTONE
  Rules = {}
  MaxTokens = 7
  TextLength = 1
  Quoted = {}
INVARIANT
  AcceptsOnlyJson
\* A failed assertion ends the program.
CHECK_DEADLOCK FALSE
