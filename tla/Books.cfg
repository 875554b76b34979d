SPECIFICATION Spec
CONSTANTS
  Portfolios = {p1, p2}
  Clients = {c1}
  Bounds <- MCBounds
SYMMETRY Interchangeable
CHECK_DEADLOCK FALSE
INVARIANTS ReferencesHold FileCanBeRestored PairsMutual JournalMatchesFlows
PROPERTIES RestoreIsFaithful NeighboursUntouched
