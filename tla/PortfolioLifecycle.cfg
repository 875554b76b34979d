CONSTANTS
  Slugs = {a, b}
  Clients = {c1, c2}
  Limits <- OneAtATimeOrRaces
SPECIFICATION Spec
SYMMETRY Interchangeable
CHECK_DEADLOCK FALSE
INVARIANT PortfoliosInPlace
INVARIANT GhostsOnlyByAccident
