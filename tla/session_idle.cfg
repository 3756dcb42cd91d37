SPECIFICATION Spec
CONSTANTS
  Fd = {f1, f2, f3}
  NoSock = NoSock
  CloseWakesAccept = TRUE
INVARIANT IdleHasNoPeer
