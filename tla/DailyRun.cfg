CONSTANTS
  p1 = p1
  p2 = p2
  Portfolios = {p1, p2}
  Order <- MCOrder
  DayHours = 5
  RunHour = 2
  RefreshRetries = 1
  BackupKeep = 1
  Horizon = 14
  Limits <- MCLimits
SPECIFICATION Spec
CHECK_DEADLOCK FALSE
INVARIANTS DayIsKept MarkTellsTheTruth NotTooOften
PROPERTY GenerationsKept
