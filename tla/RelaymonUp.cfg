SPECIFICATION HistorySpec
CONSTANTS
  FailCount = 3
  CheckCount = 3
  ResetCount = 3
  MaxCount = 3
  NumServices = 1
  HasNet = TRUE
  ip1 = ip1
  ip2 = ip2
  other1 = other1
  Addrs = {ip1, ip2, other1}
  IPs <- TwiceIPs
  HasSuccessCmd = TRUE
  HasErrorCmd = TRUE
  MaxRounds = 3
  Faults = {"unknown", "list", "ip", "cmd", "foreignAdd", "restart"}
INVARIANTS ActsForAReason SuccessMeansConfigured
PROPERTIES ShutdownCompletes Recovers UpHolds DownHolds ImplementsHost
