CONSTANTS
  Histories <- LateTopUp
  LastDay = 3
  Clients = {c1}
  Limits <- NothingFails
SPECIFICATION Spec
CHECK_DEADLOCK FALSE
INVARIANT ConversionOnce
