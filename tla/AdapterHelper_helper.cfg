SPECIFICATION FairSpec
CONSTANTS
  Address = {1}
  Helpers = 2
  PipeRoom = 1
  QueueRoom = 1
  Library <- AnyLibrary
  MaxTrouble = 1
  Limit <- HelperLimit
INVARIANTS TypeOK ReaderInSession Confirmed OneOwner
PROPERTIES HelperGoes CallReturns WorkerEnds EndNoticed
CHECK_DEADLOCK FALSE
