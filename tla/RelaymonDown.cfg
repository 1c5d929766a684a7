SPECIFICATION HistorySpec
CONSTANTS
  FailCount = 2
  CheckCount = 3
  ResetCount = 2
  MaxCount = 3
  NumServices = 2
  HasNet = TRUE
  ip1 = ip1
  ip2 = ip2
  other1 = other1
  Addrs = {ip1, ip2, other1}
  IPs <- TwoIPs
  HasSuccessCmd = TRUE
  HasErrorCmd = TRUE
  MaxRounds = 0
  Faults = {"unknown", "foreignDel", "restart"}
INVARIANT DownWhenUnhealthy
PROPERTIES Drains ImplementsHost
