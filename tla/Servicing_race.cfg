CONSTANTS
  POL1001 = POL1001
  POL3003 = POL3003
  Unfiled = Unfiled
  HONDA = HONDA
  honda = honda
  FORD = FORD
  garbled = garbled
  day0 = day0
  day1 = day1
  compact = compact
  month13 = month13
  w1 = w1
  w2 = w2
  Nobody = Nobody
  OnFile = {POL1001}
  PolicyNumbers = {POL1001}
  RawVins = {HONDA, honda, FORD}
  RawDates = {day1}
  Instants = {0}
  Fixture <- MCFixture
  Workers = {w1, w2}
  ProposalIds = {vap1, vap2, vap3}
  ConfirmationNumbers = {CHG1, CHG2}
  Upper <- MCUpper
  VinShaped <- MCVinShaped
  DateShaped <- MCDateShaped
  CalendarDay <- MCCalendarDay
  NewYorkDay <- MCNewYorkDay
SPECIFICATION Spec
SYMMETRY Interchangeable
INVARIANTS
  TypeOK
  AtMostOnePending
  InsideTheLock
  NoVehicleTwice
  PendingNotCovered
  BooksBalance
  AnswersStand
