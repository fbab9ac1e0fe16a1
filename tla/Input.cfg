CONSTANTS
  Size = 3
  LineSize = 4
  MaxRead = 3
  Burst = 1
SPECIFICATION Spec
PROPERTIES
  ImplementsInputQueue
  ReaderGetsInput
CHECK_DEADLOCK FALSE
