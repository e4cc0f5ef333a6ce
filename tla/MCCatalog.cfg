CONSTANTS
  NoName = NoName
  Names = {"web", "db"}
  Services = {"web", "web-headless", "web-metrics", "db", "kv", "db-for-web", "alias"}
  ServiceInfo <- Found
  Port = 80
  Contents <- Lists
  Wanted <- Asked
  MakesOf <- Made
  Own = {"kv", "alias"}
  MaxWrites = 2
  MaxShifts = 3
SPECIFICATION Spec
CHECK_DEADLOCK FALSE
INVARIANTS
  TypeOK
  ChoiceIsBest
  
  RoutedToDeployed
PROPERTIES
  RouteMovesForAReason
