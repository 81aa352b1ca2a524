SPECIFICATION Spec
CONSTANTS
  Address = {1}
  Helpers = 1
  PipeRoom = 1
  QueueRoom = 1
  Library <- OfficialLibrary
  MaxTrouble = 1
  Limit <- LastWordLimit
PROPERTIES LastWord
CHECK_DEADLOCK FALSE
