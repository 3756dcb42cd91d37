SPECIFICATION Spec
CONSTANTS
  Unit = {host, client}
  Capacity = 2
  Pipe = 1
  Chunk = 2
  MaxSent = 3
PROPERTY SendReturns
CHECK_DEADLOCK FALSE
