SPECIFICATION Spec
CONSTANTS
  Hour = 2
  Day = 6
  Week = 12
  Year = 18
  MonthBegins <- MCMonthBegins
  MAX_PAGE_SIZE = 2
  Submitters = {s1}
  Setups <- MidnightSetup
  Payloads <- OnePayload
  Pages <- DailyPage
  Tallies = {}
  Instants = {0, 5, 6, 8}
  Probes <- MCProbes
  MaxRows = 1
PROPERTY DstIsHandled
