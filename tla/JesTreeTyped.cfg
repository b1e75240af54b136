SPECIFICATION Spec
CONSTANTS
  Capacity = 4
  NIL = NIL
  Names = {"a", "b"}
  Indices <- MCIndices
  Hashed = TRUE
  HashCapacity = 2
  Home <- MCHome
  EMPTY = EMPTY
  TOMBSTONE = TOMBSTONE
  Rules = {"grammar", "keep_root", "table_room", "shallow_update", "spare_node", "in_range"}
INVARIANTS
  TreeOK
  JsonShape
  UniqueKeys
  LookupAgrees
  EntriesCurrent
  RootLive
  PathFindsKey
  IndexFindsValue

  
