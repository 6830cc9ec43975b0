CONSTANTS
  SlotBlocks = 3
  IapStart = 3
  FlashTop = 4
  EraseCommands = {}
  ProgBlocks = {}
  MaxWritten = 3
  Patient = FALSE
  MaxSessions = 3
SPECIFICATION USpec
INVARIANT SwitchedToWholeImage
CHECK_DEADLOCK FALSE
