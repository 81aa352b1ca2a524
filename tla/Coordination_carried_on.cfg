SPECIFICATION Spec
CONSTANTS
  Node = {1, 2, 3}
  Addr = {1, 2, 3}
  Creator = 2
  Invited = {1, 2, 3}
  MaxFailures = 1
  MaxQueue = 2
  Prompt = TRUE
  Limit <- CalmLimit
PROPERTIES RosterCarriedOn
CHECK_DEADLOCK FALSE
