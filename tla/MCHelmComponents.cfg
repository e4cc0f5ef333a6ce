CONSTANTS
  Api = Api
  Web = Web
  Db = Db
  NoTemplate = NoTemplate
  Components <- Charts
  ReleaseOf <- Names
  Specs <- AnyOrder
  Templates <- OneTemplate
  MaxFaults = 1
  MaxFailures = 1
  MaxCrashes = 1
  MaxEdits = 2
SPECIFICATION FairSpec
CHECK_DEADLOCK FALSE
INVARIANTS
  TypeOK
PROPERTIES
  RecordedIsInstalled
  DeployedIsLeftAlone
  
  FailureIsRetried
