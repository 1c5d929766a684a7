SPECIFICATION HistorySpec
CONSTANTS
  FailCount = 3
  CheckCount = 4
  ResetCount = 2
  MaxCount = 4
  MaxHistory = 10
INVARIANT ReportMatchesHistory
PROPERTY ErrorIsSticky
