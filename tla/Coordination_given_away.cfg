SPECIFICATION GivenAwaySpec
CONSTANTS
  Node = {1, 2, 3, 4}
  Addr = {1, 2, 3}
  Creator = 1
  Invited = {1, 2, 3, 4}
  MaxFailures = 1
  MaxQueue = 2
  Prompt = TRUE
  Limit <- GivenAwayLimit
INVARIANTS AddressesApart
CHECK_DEADLOCK FALSE
