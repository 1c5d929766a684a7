SPECIFICATION HistorySpec
CONSTANTS
  FailCount = 2
  CheckCount = 2
  ResetCount = 2
  MaxCount = 3
  MaxCalls = 4
  Pids = {p1, p2}
  Starts = {s1, s2, s3, s4}
  NoProc = NoProc
  NoPid = NoPid
  Glitches = {"timeout", "systemctl", "open"}
INVARIANTS TypeOK SuccessMeansHeld OutageReported CrashLoopReported
PROPERTIES AdoptsOnlyTheUnit NoFalseAlarm ChecksLikeAChecker
