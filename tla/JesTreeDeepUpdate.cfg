SPECIFICATION Spec
CONSTANTS
  Capacity = 4
  NIL = NIL
  Names = {"a", "b"}
  Indices <- MCIndices
  Hashed = TRUE
  HashCapacity = 2
  Home <- MCHome
  EMPTY = EMPTY
  TOMBSTONE = TOMBSTONE
  Rules = {"grammar", "keep_root", "table_room", "spare_node", "in_range"}
INVARIANT
  JsonShape
CHECK_DEADLOCK FALSE
