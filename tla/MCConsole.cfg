SPECIFICATION Spec
CONSTANTS
  MaxCsi = 2
  MaxSgr = 2
  U32Max = 99
  HistCap = 1
  Prompt <- MCPrompt
  Chars = {"x", "y"}
  Outputs <- MCOutputs
  MaxLine = 2
  NoText = NoText
  TextBytes = {"L2", "NL", "BS", "CTL", "ESC"}
  SeqBytes = {"CB", "[", "3", ";", "A", "B", "C", "D", "K", "m", "H"}
  AnySize <- MCAnySize
  ShellSize <- MCShellSize
  ShellKeys = {"x", "y", "NL", "DEL", "ESC", "[", "A", "B", "C", "D"}
INVARIANT LineShown
PROPERTIES ImplementsScreen HistoryKept
CHECK_DEADLOCK FALSE
