CONSTANTS
  Envs <- Three
  NameOf <- Named
  HomeOf <- Homes
  GatewayOf <- Gates
  MaxFaults = 1
  MaxCreates = 3
  MaxExtensions = 1
SPECIFICATION Spec
CHECK_DEADLOCK FALSE
INVARIANT
  PodsAreOwn
