------------------------------ MODULE MCTools -------------------------------
(* Values of the constants of Tools.tla that a configuration cannot name. *)
EXTENDS Tools

CONSTANTS ip1, ip2, other1   \* other1: ip1 with another netmask

TwoIPs == <<ip1, ip2>>
Numbers == [a \in Addrs |-> IF a = ip2 THEN 2 ELSE 1]
=============================================================================
