SPECIFICATION Spec
CONSTANTS
  Clients = {c1, c2}
  Currencies = {"UAH", "USD"}
  Nominal <- MCNominal
  Unlisted = {"other"}
  Quantities = {0, 1, 2}
  Movements <- MCAmounts
  Days <- MCDays
  LoanRates = {0, 3650}
  Months = {202401, 202402}
  Now = 202401
  Bounds <- MCBounds
SYMMETRY Interchangeable
CHECK_DEADLOCK FALSE
INVARIANTS OnlyRacesOversell CushionAddsUp
PROPERTIES OnlyEditsAndRacesDisagree
