SPECIFICATION Spec
CONSTANTS
  Cores = {c1, c2}
  Readers = {r1}
  Sizes = {2}
  Keys = {"A", "LeftShift", "UpArrow", "CapsLock", "Pause"}
  KbdCap = 1
  TtyCap = 4
  MaxMakes = 3
  MaxWire = 0
  MaxMoves = 1
  NoPress = NoPress
  NoByte = NoByte
INVARIANTS KeysInOrder DriverAgrees BootConsistent
PROPERTY KeyReachesTerminal
CHECK_DEADLOCK FALSE
