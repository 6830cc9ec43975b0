CONSTANTS
  SlotBlocks = 3
  IapStart = 3
  FlashTop = 5
  EraseCommands <- MCEraseInSlot
  ProgBlocks <- MCTarget
  MaxWritten = 4
  Patient = TRUE
  MaxSessions = 2
SPECIFICATION USpec
INVARIANTS
  DeviceSafe
  SessionSafe
PROPERTIES
  EraseReplyTruthful
  EraseEnds
  SessionEnds
CHECK_DEADLOCK FALSE
