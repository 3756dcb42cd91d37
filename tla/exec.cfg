SPECIFICATION Spec
CONSTANTS
  Source = {t0, t2}
  StackSize = 14
  MaxNest = 3
  MaxPushed = 1
  MainOnly = TRUE
  Slot = {s1}
  NoSave = NoSave
INVARIANT TypeOK
INVARIANT StacksAgree
PROPERTY InterruptIsTransparent
PROPERTY PendingIsDelivered
