SPECIFICATION Spec
CONSTANTS
  Source = {t2}
  StackSize = 6
  MaxNest = 1
  MaxPushed = 1
  MainOnly = FALSE
  Slot = {s1}
  NoSave = NoSave
PROPERTY LoadRestoresAll
