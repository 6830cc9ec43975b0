CONSTANTS
  NULL = NULL
  Freed = Freed
  Erased = Erased
  Garbage = Garbage
  NoFile = NoFile
  short = short
  long = long
  Uploads <- MCUploads
  Length <- MCLength
  Codes = {0, 1}
  ble_security = TRUE
  Allocates = {TRUE}
  NullLength = 7
  MaxRx = 14
SPECIFICATION Spec
PROPERTIES
  WangBeginsFrame
CHECK_DEADLOCK FALSE
