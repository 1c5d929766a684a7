-------------------------------- MODULE Host --------------------------------
(***************************************************************************)
(* Abstract: the interface of a host that runs the daemon, as anybody sees *)
(* it who is not the daemon.  While it lives the daemon may add or remove  *)
(* any of its own addresses, one at a time, for reasons of its own; it may *)
(* end at any time, be started again, and does nothing in between.         *)
(***************************************************************************)
EXTENDS Naturals, Sequences

CONSTANTS
  Addrs,   \* addresses that matter
  IPs,     \* ips: the addresses to configure, in order
  Others   \* what others do to the interface: foreignAdd, foreignDel

ASSUME HostAssumption == IPs \in Seq(Addrs)

VARIABLES
  iface,   \* the addresses configured on the interface
  alive    \* whether the daemon runs

host == <<iface, alive>>

Own == {IPs[i] : i \in DOMAIN IPs}

Init == iface \in SUBSET Addrs /\ alive = TRUE

Configures ==
  /\ alive
  /\ \E a \in Own : iface' = iface \cup {a} \/ iface' = iface \ {a}
  /\ UNCHANGED alive

DaemonEnds == alive /\ alive' = FALSE /\ UNCHANGED iface

DaemonStarts == ~alive /\ alive' = TRUE /\ UNCHANGED iface

OthersAdd ==
  /\ "foreignAdd" \in Others
  /\ \E a \in Addrs : iface' = iface \cup {a}
  /\ UNCHANGED alive

OthersRemove ==
  /\ "foreignDel" \in Others
  /\ \E a \in Addrs : iface' = iface \ {a}
  /\ UNCHANGED alive

Next == Configures \/ DaemonEnds \/ DaemonStarts \/ OthersAdd \/ OthersRemove

Spec == Init /\ [][Next]_host
=============================================================================
