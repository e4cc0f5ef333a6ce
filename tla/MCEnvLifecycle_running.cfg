CONSTANTS
  TTL = 1
  MaxTime = 3
  Isolated = TRUE
  ByPort = FALSE
  Charts = TRUE
  AdminUI = TRUE
  LaggingViews = FALSE
  Durations <- OneTick
  Limits <- Hostile
SPECIFICATION Spec
CHECK_DEADLOCK FALSE
PROPERTIES
  ActiveIsRunning
