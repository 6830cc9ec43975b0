CONSTANTS
  v1 = v1
  v2 = v2
  broken = broken
  Images <- MCImages
  GoodImages <- MCGood
  NoImage = NoImage
  MaxResets = 3
  Configs <- MCConfigs
  Fallback <- MCFallback
  Scores <- MCScores
  NoConfig = NoConfig
SPECIFICATION DataSpec
INVARIANT SavedSurvives
