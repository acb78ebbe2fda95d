CONSTANTS
  OnFile <- MCOnFile
  PolicyNumbers <- MCOnFile
  RawVins <- MCRawVins
  Upper <- MCUpper
  VinShaped = {"HONDA", "FORD"}
  RawDates <- MCRawDates
  DateShaped = {"2026-09-17"}
  CalendarDay <- MCCalendarDay
  Instants = {0}
  NewYorkDay <- MCNewYorkDay
  Routes <- MCRoutes
  Parameters <- MCParameters
  Results <- MCResults
  CommitTool = "commit"
  Manifest <- MCManifest
  ToolIds = {"tool_1", "tool_2", "tool_3", "tool_4"}
  TestIds = {"test_1", "test_2"}
  ToolPaths = {"lookup", "propose", "commit", "unlisted"}
  TestPaths = {"happy", "declines", "unlisted"}
  Projects <- MCProjects
SPECIFICATION DoctorSpec
CHECK_DEADLOCK FALSE
INVARIANT PassedFollowsRegistry
