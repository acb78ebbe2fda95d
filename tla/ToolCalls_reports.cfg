CONSTANTS
  POL1001 = POL1001
  HONDA = HONDA
  FORD = FORD
  garbled = garbled
  day1 = day1
  Nobody = Nobody
  OnFile = {POL1001}
  PolicyNumbers = {POL1001}
  RawVins = {HONDA, FORD}
  RawDates = {day1}
  Instants = {0}
  Fixture <- MCFixture
  Workers = {w1, w2}
  ProposalIds = {vap1, vap2}
  ConfirmationNumbers = {CHG1, CHG2}
  MaxToolCalls = 4
  ArgumentSets <- MCDeclared
  Tools = {"propose", "commit"}
  BodyValues = {"strings"}
  GuessedIds = {}
  Upper <- MCUpper
  VinShaped <- MCVinShaped
  DateShaped = {day1}
  CalendarDay <- MCCalendarDay
  NewYorkDay <- MCNewYorkDay
SPECIFICATION ToolSpec
SYMMETRY Interchangeable
INVARIANTS
  ToolInv
  ReportsAgree
  SupersededIsFinal
