SPECIFICATION Spec
CONSTANTS
  MaxDepth = 1
  ContainerSize = 3
  WorkspaceDepth = 3
  CountRange = 4
  OutputSize = 18
  KeySizes = {2, 3}
  ValueSizes = {1, 2}
  Rules = {"short_containers"}
INVARIANT
  StreamsJson
\* A failed assertion ends the program.
CHECK_DEADLOCK FALSE
