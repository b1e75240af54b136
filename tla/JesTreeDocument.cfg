SPECIFICATION Spec
CONSTANTS
  Capacity = 4
  NIL = NIL
  Names = {"a", "b"}
  Indices = {0, 1}
  Hashed = FALSE
  HashCapacity = 1
  Home <- MCHome
  EMPTY = EMPTY
  TOMBSTONE = TOMBSTONE
  Rules = {"grammar", "keep_root", "shallow_update", "spare_node", "in_range"}
PROPERTIES
  ImplementsDocument
