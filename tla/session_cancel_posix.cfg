SPECIFICATION Spec
CONSTANTS
  Fd = {f1, f2, f3}
  NoSock = NoSock
  CloseWakesAccept = FALSE
PROPERTY DisconnectReturns
