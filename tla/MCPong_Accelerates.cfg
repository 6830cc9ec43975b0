CONSTANTS
  PongCols = 8
  PongRows = 6
  BALL_TICK_INIT_MS = 48
  BALL_TICK_MIN_MS = 40
  PongLeftover = {}
SPECIFICATION pongSpec
PROPERTY AcceleratesEveryN
CHECK_DEADLOCK FALSE
