\* The read side over every short history of two projects.
SPECIFICATION HistorySpec
CONSTANTS
  p1 = p1  p2 = p2  ann = ann
  TopN = 2
  Project = {p1, p2}
  Content <- MCContent
  Marker <- MCMarker
  Payload <- MCPayload
  Assignee = {ann}
  Nobody = Nobody
  MaxNow = 4
  MaxWrites = 3
  Hour = 1
  Day = 3
  Span <- MCSpan
  TopShown = 1
  Token <- MCToken
  Query <- MCQuery
  PageSize = {2}
INVARIANTS ReportsAgree SearchNegates GroupedByCode PagesMissNothing
PROPERTIES BlameSettles
CHECK_DEADLOCK FALSE
