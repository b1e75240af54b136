SPECIFICATION Spec
CONSTANTS
  Capacity = 5
  NIL = NIL
  Names = {"a", "b", "c"}
  Indices <- MCIndices
  Hashed = TRUE
  HashCapacity = 2
  Home <- MCHome
  EMPTY = EMPTY
  TOMBSTONE = TOMBSTONE
  Rules = {"grammar", "keep_root", "shallow_update", "spare_node", "in_range"}
INVARIANT
  UniqueKeys
CHECK_DEADLOCK FALSE
