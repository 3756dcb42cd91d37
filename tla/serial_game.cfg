SPECIFICATION GameSpec
CONSTANTS
  Byte = {0, 1}
  FifoSize = 3
  Slot = {s1}
  NoSave = NoSave
  MaxBytes = 4
INVARIANT TypeOK
INVARIANT ReceiverKeepsInterrupting
PROPERTY ImplementsQueue
PROPERTY WaitingBytesAreRead
