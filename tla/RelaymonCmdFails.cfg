SPECIFICATION Spec
CONSTANTS
  FailCount = 2
  CheckCount = 3
  ResetCount = 2
  MaxCount = 3
  NumServices = 1
  HasNet = TRUE
  ip1 = ip1
  ip2 = ip2
  Addrs = {ip1, ip2}
  IPs <- TwoIPs
  HasSuccessCmd = TRUE
  HasErrorCmd = TRUE
  Faults = {"cmd", "restart"}
INVARIANTS DownWhenUnhealthy
