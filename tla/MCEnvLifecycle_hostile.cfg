CONSTANTS
  TTL = 1
  MaxTime = 3
  Isolated = TRUE
  ByPort = TRUE
  Charts = TRUE
  AdminUI = TRUE
  LaggingViews = FALSE
  Durations <- Shorten
  Limits <- Hostile
SPECIFICATION Spec
CHECK_DEADLOCK FALSE
INVARIANTS
  TypeOK
  OwnedNamespace
  IsolatedWorkload
PROPERTIES
  ExpirationMovedByUserOnly
  TeardownJustified
  ActiveIsProvisioned
  ImplementsContract
