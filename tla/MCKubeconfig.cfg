CONSTANTS
  Infos = {"no ConfigMap", "bad CA", "server", "server and CA", "new server and CA"}
  Configs <- Processes
  TTLs = {5, 60, 1440}
  MaxChanges = 2
SPECIFICATION Spec
CHECK_DEADLOCK FALSE
INVARIANTS
  TypeOK
  ServedByPriority
  PairKept
  RefusedForAReason
