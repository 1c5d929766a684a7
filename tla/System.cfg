SPECIFICATION SystemHistorySpec
CONSTANTS
  FailCount = 2
  CheckCount = 2
  ResetCount = 2
  MaxCount = 3
  MaxCalls = 4
  Pids = {p1, p2}
  Starts = {s1, s2, s3}
  NoProc = NoProc
  NoPid = NoPid
  Glitches = {"systemctl"}
  ip1 = ip1
  Addrs = {ip1}
  IPs <- OneIP
INVARIANTS TroubleClears SteadyConfigures
PROPERTIES ImplementsRelaymon UpWithAProcess StopClears StartConfigures
