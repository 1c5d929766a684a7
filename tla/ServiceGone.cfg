SPECIFICATION FairSpec
CONSTANTS
  FailCount = 2
  CheckCount = 2
  ResetCount = 2
  MaxCount = 2
  Pids = {p1, p2}
  Starts = {s1, s2, s3}
  NoProc = NoProc
  NoPid = NoPid
  Glitches = {}
PROPERTY GoneIsNotUnknown
