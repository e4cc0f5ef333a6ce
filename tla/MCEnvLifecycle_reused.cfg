CONSTANTS
  TTL = 1
  MaxTime = 3
  Isolated = TRUE
  ByPort = FALSE
  Charts = TRUE
  AdminUI = TRUE
  LaggingViews = FALSE
  Durations <- Shorten
  Limits <- Reused
SPECIFICATION Spec
CHECK_DEADLOCK FALSE
INVARIANTS
  OwnedRoutes
PROPERTIES
  ImplementsContract
