CONSTANTS
  w1 = w1
  w2 = w2
  Nobody = Nobody
  Workers = {w1, w2}
  PolicyNumbers <- MCPolicyNumbers
  OnFile <- MCOnFile
  Fixture <- MCFixture
  RawVins <- MCRawVins
  Upper <- MCUpper
  VinShaped <- MCVinShaped
  RawDates <- MCRawDates
  DateShaped <- MCDateShaped
  CalendarDay <- MCCalendarDay
  Instants <- MCInstants
  NewYorkDay <- MCNewYorkDay
  ProposalIds <- MCProposalIds
  ConfirmationNumbers = {"CHG-2026-0917-0031"}
  MaxRuns = 2
  MaxVersion = 2
SPECIFICATION SuiteSpec
CHECK_DEADLOCK FALSE
INVARIANTS
  SuiteInv
  FollowsScript
  ExpectationsHold
  ReadsAlone
  SuccessIsComplete
  ExampleIsEvidence
  CommitIsWhatRan
PROPERTY SuiteEnds
