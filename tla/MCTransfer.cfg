CONSTANTS
  MaxLine = 16
  MaxRun = 4
  Block = 16
  Buf = 16
  MaxName = 2
  First <- MCFirst
  Texts <- MCTexts
  Room <- MCRoom
  MaxCommands = 2
  MaxHarms = 1
SPECIFICATION Spec
INVARIANTS StateSound
PROPERTIES ReadsBack SuccessIsWhole OnlyItsTarget
CHECK_DEADLOCK FALSE
