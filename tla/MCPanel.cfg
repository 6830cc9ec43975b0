CONSTANTS
  KEY_INDEX = 2
  Pin <- MCPin
  LONGPRESS_THRES = 7
  Hands = {"pins", "adc", "nothing"}
  Raws <- MCRaws
  SnakeCols = 3
  SnakeRows = 3
  SNAKE_MAX_LEN = 5
  SPEED_INITIAL_MS = 120
  SPEED_MIN_MS = 120
  SPEED_STEP_MS = 20
  SnakeLeftover <- MCSnakeLeftover
  FlappyCols = 44
  FlappyRows = 11
  PIPE_SPACING = 15
  Gaps = {2, 4}
  TICK_INIT_MS = 83
  TICK_MIN_MS = 80
  FlappyLeftover <- MCFlappyLeftover
  PongCols = 44
  PongRows = 11
  BALL_TICK_INIT_MS = 48
  BALL_TICK_MIN_MS = 40
  PongLeftover <- MCPongLeftover
  AniCols = 4
  AniRows = 3
  Bitmaps <- MCBitmaps
  MaxPresses = 2
  AniLeftover <- MCAniLeftover
  SplashCols = 44
  SplashRows = 11
  SplashPictures <- MCSplashPictures
  SplashLeftover <- MCSplashLeftover
  DisplayCols = 44
  DisplayRows = 11
  Pictures <- MCPictures
SPECIFICATION Spec
INVARIANTS
  KeysSafe
  PressReportedOnce
  SnakeSafe
  FlappySafe
  PongSafe
  PicturesMove
  PinsSafe
PROPERTIES
  Debounced
  EveryPressServed
  MergedOnlyLate
  FramesPainted
  ScanShowsPicture
CHECK_DEADLOCK FALSE
