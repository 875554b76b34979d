CONSTANTS
  LastMigration = 3
  FirstSchema = 1
  Keep = 2
  NoCopy = NoCopy
  MaxDeploys = 2
  MaxWrites = 2
  MaxCrashes = 0
SPECIFICATION Spec
PROPERTY CopyHoldsEverything
CHECK_DEADLOCK FALSE
