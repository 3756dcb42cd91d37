SPECIFICATION CadenceSpec
CONSTANTS
  Timer = {0, 2, 4}
  MaxCount = 1
  Control <- MCControl
  Flags = {{}}
  Us = {1, 10}
  Slot = {s1}
  NoSave = NoSave
  LineBackup = 1
  LineClock = 1
  FrameBackup = 1
INVARIANT CountersTellTheTime
PROPERTY FrameInterruptOnTime
INVARIANT TypeOK
INVARIANT StepsCompose
