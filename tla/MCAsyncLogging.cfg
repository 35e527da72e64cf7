SPECIFICATION Spec
CONSTANTS
  FixedBufferSize = 4
  Lengths = {1, 2, 3}
  MaxLines = 6
  NoBuffer = NoBuffer
CHECK_DEADLOCK FALSE
INVARIANT TypeOK
PROPERTIES ImplementsLogQueue LastPassWritesAll StopTerminates
