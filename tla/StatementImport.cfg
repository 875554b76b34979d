CONSTANTS
  Histories <- MCHistories
  LastDay = 3
  Clients = {c1, c2}
  Limits <- AllLimits
SPECIFICATION Spec
CHECK_DEADLOCK FALSE
INVARIANTS NothingTwice NothingHidden
PROPERTY ConversionHeals
