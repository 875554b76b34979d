CONSTANTS
  StartDay = 2
  LastDay = 5
  CatchupCap = 2
  BackfillDays = 3
  MinDays = 2
  MaxFaults = 1
  MaxCuts = 1
SPECIFICATION FairSpec
INVARIANT NothingBehindTheMark
PROPERTY EveryAuctionArrives
CHECK_DEADLOCK FALSE
