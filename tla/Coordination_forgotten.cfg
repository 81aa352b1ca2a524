SPECIFICATION ForgottenSpec
CONSTANTS
  Node = {1, 2, 3}
  Addr = {1, 2, 3}
  Creator = 1
  Invited = {1, 2, 3}
  MaxFailures = 1
  MaxQueue = 2
  Prompt = TRUE
  Limit <- ForgottenLimit
PROPERTIES AddressKept
CHECK_DEADLOCK FALSE
