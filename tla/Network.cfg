SPECIFICATION HistorySpec
CONSTANTS
  FailCount = 3
  CheckCount = 2
  ResetCount = 2
  MaxCount = 3
  MaxCalls = 3
  Sizes <- PairAndSingles
  Required = {2}
INVARIANTS ChannelIsOpen OutcomeMatchesMetrics ReportFollowsEndpoints
PROPERTIES EveryCallReturns NoSuccessOnceCancelled
