SPECIFICATION HashSpec
CONSTANTS
  HashCapacity = 3
  HashValue = {"p", "q", "r", "s", "t"}
  Home <- MCHome
  KeyNode = {"n1", "n2"}
  NIL = NIL
  EMPTY = EMPTY
  TOMBSTONE = TOMBSTONE
INVARIANTS
  HashTypeOK
  HashOK
  RoomIsUsable
PROPERTIES
  ImplementsDictionary
