CONSTANTS
  Loop = Loop
  Startup = Startup
  Background = {Startup}
  NoDoc = NoDoc
  MaxMoves = 3
  MaxCommits = 2
  MaxEach = 1
SPECIFICATION FairSpec
INVARIANTS
  OrderInv
  QuiescentIsCurrent
PROPERTIES
  KeepsItsPromise
  Settles
CHECK_DEADLOCK FALSE
