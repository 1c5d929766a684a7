----------------------------- MODULE MCRelaymonHistory -----------------------------
(* Values of the constants of RelaymonHistory.tla that a configuration cannot name. *)
EXTENDS RelaymonHistory

CONSTANTS ip1, ip2, other1   \* two addresses, and one that is not the daemon's

NoIPs == <<>>
TwoIPs == <<ip1, ip2>>
\* The configuration does not rule out an address that is listed twice.
TwiceIPs == <<ip1, ip2, ip1>>
=============================================================================
