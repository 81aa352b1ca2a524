SPECIFICATION Spec
CONSTANTS
  Account = {a1, a2}
  Network = {n1, n2}
  None = None
  Broken = Broken
  Limit <- StoreLimit
  Strange = {"other", "half"}
PROPERTIES SetAsideFirst
CHECK_DEADLOCK FALSE
