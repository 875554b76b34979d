SPECIFICATION Spec
CONSTANTS
  Cases <- MCCases
  Days <- MCDays
INVARIANTS
  SecuritiesAddUp
  BalancesAddUp
  AllocationsAddUp
  PlansAddUp
  CapitalAddsUp
  TasksAddUp
  DebtsArePaid
CHECK_DEADLOCK FALSE
