----------------------------- MODULE MCRelaymon -----------------------------
(* Values of the constants of Relaymon.tla that a configuration cannot name. *)
EXTENDS Relaymon

CONSTANTS ip1, ip2   \* two addresses

NoIPs == <<>>
TwoIPs == <<ip1, ip2>>
\* The configuration does not rule out an address that is listed twice.
TwiceIPs == <<ip1, ip2, ip1>>
=============================================================================
