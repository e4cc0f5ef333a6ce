CONSTANTS
  Envs <- Three
  NameOf <- Named
  HomeOf <- Homes
  GatewayOf <- Gates
  MaxFaults = 1
  MaxCreates = 3
  MaxExtensions = 1
SPECIFICATION FairSpec
CHECK_DEADLOCK FALSE
INVARIANTS
  TypeOK
  

  
  
