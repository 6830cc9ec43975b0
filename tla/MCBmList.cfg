CONSTANTS
  NULL = NULL
  n1 = n1
  n2 = n2
  n3 = n3
  n4 = n4
  ends = ends
  middle = middle
  Nodes <- MCNodes
  NSlots = 3
  Images <- MCImages
  Filled <- MCFilled
  NoImage = NoImage
  Steps = 2
SPECIFICATION FairSpec
INVARIANTS
  RingSafe
PROPERTIES
  LostOnlyToEmptySlots
  FreshStart
  ImplementsRing
  ReloadShowsStored
  EveryBitmapShown
CHECK_DEADLOCK FALSE
