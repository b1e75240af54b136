SPECIFICATION FairSpec
CONSTANTS
  Capacity = 3
  NIL = NIL
  Names = {"a"}
  Indices <- MCIndices
  Hashed = TRUE
  HashCapacity = 1
  Home <- MCHome
  EMPTY = EMPTY
  TOMBSTONE = TOMBSTONE
  Rules = {}
INVARIANTS
  TypeOK
  TreeOK
  PoolOK
  UpdateHasRoom
PROPERTIES
  KeepsPoolProtocol
  CallsReturn
\* A failed assertion ends the program.
CHECK_DEADLOCK FALSE
