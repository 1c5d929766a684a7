SPECIFICATION ToolsSpec
CONSTANTS
  ip1 = ip1
  ip2 = ip2
  other1 = other1
  Addrs = {ip1, ip2, other1}
  IPs <- TwoIPs
  Others = {"foreignAdd", "foreignDel"}
  HasErrorCmd = TRUE
  Number <- Numbers
INVARIANTS EvictedMeansGone UpUnlessLost DownUnlessCame
PROPERTY WaitEnds
