CONSTANTS
  LastMigration = 3
  FirstSchema = 1
  Keep = 2
  NoCopy = NoCopy
  MaxDeploys = 2
  MaxWrites = 2
  MaxCrashes = 1
SPECIFICATION FairSpec
INVARIANT ServesItsOwnSchema
INVARIANT PreviousCanServe
INVARIANT RollbackInv
PROPERTY RollbackKeepsOldChanges
PROPERTY ServiceComesBack
CHECK_DEADLOCK FALSE
