SPECIFICATION Spec
CONSTANTS
  Unit = {host, client}
  Capacity = 2
  Pipe = 4
  Chunk = 2
  MaxSent = 4
INVARIANT TypeOK
INVARIANT NoSilentLoss
PROPERTY ImplementsCable
PROPERTY SentIsRead
