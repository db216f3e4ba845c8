CONSTANTS
  Values = 128
  Length = 6
  Size = 6
SPECIFICATION Spec
INVARIANTS
  PrintedInOrder
  BufferTerminated
  ConvertExact
PROPERTY
  Returns
CHECK_DEADLOCK FALSE
