SPECIFICATION Spec
CONSTANTS
  Hour = 2
  Day = 6
  Week = 12
  Year = 18
  MonthBegins <- MCMonthBegins
  MAX_PAGE_SIZE = 2
  Submitters = {s1, s2}
  Setups <- MCSetups
  Payloads <- MCPayloads
  Pages <- MCPages
  Tallies <- MCTallies
  Instants = {0, 4, 5, 7}
  Probes <- MCProbes
  MaxRows = 2
SYMMETRY Interchangeable
INVARIANTS IInv PeriodsHold
PROPERTIES PagesAreRight TalliesAreRight DeletePromotes WindowsSettle
