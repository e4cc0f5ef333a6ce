CONSTANTS
  TTL = 1
  MaxTime = 2
  Isolated = FALSE
  ByPort = FALSE
  Charts = FALSE
  AdminUI = FALSE
  LaggingViews = TRUE
  Durations <- OneTick
  Limits <- Lagging
SPECIFICATION FairSpec
CHECK_DEADLOCK FALSE
PROPERTIES
  DeletionCompletes
  TeardownJustified
