SPECIFICATION Spec
CONSTANTS
  Node = {1, 2, 3}
  Addr = {1, 2}
  Creator = 2
  Invited = {1, 2}
  MaxFailures = 1
  MaxQueue = 1
  Prompt = FALSE
  Limit <- KilledLimit
INVARIANTS TypeOK UniqueAddresses OnlyInvited
PROPERTIES OwnAddressStable
CHECK_DEADLOCK FALSE
