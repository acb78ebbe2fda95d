CONSTANTS
  POL1001 = POL1001
  POL3003 = POL3003
  Unfiled = Unfiled
  HONDA = HONDA
  honda = honda
  FORD = FORD
  garbled = garbled
  day0 = day0
  day1 = day1
  compact = compact
  month13 = month13
  w1 = w1
  w2 = w2
  Nobody = Nobody
  OnFile = {POL1001}
  PolicyNumbers = {POL1001}
  RawVins = {HONDA}
  RawDates = {day0}
  Instants = {0, 1, 2}
  Fixture <- MCFixture
  Workers = {w1, w2}
  ProposalIds = {vap1}
  ConfirmationNumbers = {CHG1}
  Upper <- MCUpper
  VinShaped <- MCVinShaped
  DateShaped <- MCDateShaped
  CalendarDay <- MCCalendarDay
  NewYorkDay <- MCNewYorkDay
SPECIFICATION Spec
INVARIANT AppliedNotBackdated
