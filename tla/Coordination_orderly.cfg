SPECIFICATION OrderlySpec
CONSTANTS
  Node = {1, 2, 3}
  Addr = {1, 2, 3}
  Creator = 2
  Invited = {1, 2, 3}
  MaxFailures = 1
  MaxQueue = 1
  Prompt = TRUE
  Limit <- OrderlyLimit
INVARIANTS AddressesApart
PROPERTIES PromiseKept
CHECK_DEADLOCK FALSE
