SPECIFICATION Spec
CONSTANTS
  MaxDepth = 1
  ContainerSize = 3
  WorkspaceDepth = 3
  CountRange = 4
  OutputSize = 18
  KeySizes = {2, 3}
  ValueSizes = {1, 2}
  Rules = {"plain_arrays", "short_containers"}
INVARIANTS
  TypeOK
  StreamsJson
  StackMirrorsText
\* A failed assertion ends the program.
CHECK_DEADLOCK FALSE
