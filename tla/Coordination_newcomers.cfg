SPECIFICATION FairSpec
CONSTANTS
  Node = {1, 2, 3}
  Addr = {1, 2}
  Creator = 2
  Invited = {1, 2, 3}
  MaxFailures = 1
  MaxQueue = 2
  Prompt = TRUE
  Limit <- NewcomersLimit
PROPERTIES NewcomerSettles LeaveCompletes Agreement Coordinated LeaverFreed
CHECK_DEADLOCK FALSE
