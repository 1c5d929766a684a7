------------------------------- MODULE Evict --------------------------------
(***************************************************************************)
(* relaymon -evict: stops the service of the daemon, removes the addresses *)
(* and runs error_cmd, counting in its exit code what went wrong.  Every   *)
(* step can fail, and the next one is taken all the same.  The host goes   *)
(* its own way between any two steps: systemctl is given 20 seconds, and   *)
(* the daemon may outlive them.                                            *)
(***************************************************************************)
EXTENDS Host

CONSTANT HasErrorCmd   \* whether there is an error_cmd

VARIABLES
  evict,    \* where the tool stands
  seen,     \* the addresses found on the interface
  turn,     \* the address whose turn it is
  errs,     \* whether IfaceAddrDel has met an error
  rc,       \* rc: the exit code
  undone    \* history: after it was stopped, the daemon was started again or
            \* somebody else added an address

removal == <<seen, turn, errs>>
tool == <<evict, removal, rc>>

EvictInit ==
  /\ evict = "stop" /\ seen = {} /\ turn = 0 /\ errs = FALSE /\ rc = 0
  /\ undone = FALSE

AfterStop == IF IPs = <<>> THEN "command" ELSE "list"

\* systemctl stop returns once the service has stopped.
StopDone ==
  /\ evict = "stop" /\ ~alive
  /\ evict' = AfterStop
  /\ UNCHANGED <<host, removal, rc>>

\* The failure is only logged.
MutStopFails ==
  /\ evict = "stop"
  /\ evict' = AfterStop
  /\ UNCHANGED <<host, removal, rc>>

\* It fails, or 20 seconds pass: the daemon may live or not.
StopFails ==
  /\ evict = "stop"
  /\ evict' = AfterStop /\ rc' = rc + 1
  /\ UNCHANGED <<host, removal>>

\* IfaceAddrDel returns; however many errors there were, they count once.
RemovalDone(failed) ==
  /\ evict' = "command" /\ rc' = (IF failed THEN rc + 1 ELSE rc)
  /\ seen' = {} /\ turn' = 0 /\ errs' = FALSE

ListAddrs ==
  /\ evict = "list"
  /\ evict' = "remove" /\ seen' = iface /\ turn' = 1
  /\ UNCHANGED <<host, errs, rc>>

ListFails ==
  /\ evict = "list"
  /\ RemovalDone(TRUE)
  /\ UNCHANGED host

\* On to the next address; failed: the ip command for this one did.
Removed(failed) ==
  IF turn = Len(IPs)
  THEN RemovalDone(errs \/ failed)
  ELSE turn' = turn + 1 /\ errs' = (errs \/ failed) /\ UNCHANGED <<evict, seen, rc>>

\* ip addr del: an address that is not there any more is an error.
DelAddr ==
  /\ evict = "remove"
  /\ LET a == IPs[turn]
     IN  \/ a \notin seen /\ iface' = iface /\ Removed(FALSE)
         \/ a \in seen /\ iface' = iface \ {a} /\ Removed(a \notin iface)
  /\ UNCHANGED alive

\* It fails or times out, with or without its effect.
DelFails ==
  /\ evict = "remove" /\ IPs[turn] \in seen
  /\ iface' \in {iface, iface \ {IPs[turn]}}
  /\ Removed(TRUE)
  /\ UNCHANGED alive

RunCommand ==
  /\ evict = "command"
  /\ evict' = "exited"
  /\ UNCHANGED <<host, removal, rc>>

CommandFails ==
  /\ evict = "command" /\ HasErrorCmd
  /\ evict' = "exited" /\ rc' = rc + 1
  /\ UNCHANGED <<host, removal>>

EvictStep ==
  \/ StopDone \/ StopFails \/ ListAddrs \/ ListFails \/ DelAddr \/ DelFails
  \/ RunCommand \/ CommandFails

\* Kept with every step of the tool and of the host.
Noted ==
  undone' = (undone \/ (evict # "stop" /\ ~alive /\ (alive' \/ ~(iface' \subseteq iface))))

-----------------------------------------------------------------------------

EvictTypeOK ==
  /\ iface \subseteq Addrs /\ alive \in BOOLEAN
  /\ evict \in {"stop", "list", "remove", "command", "exited"}
  /\ seen \subseteq Addrs
  /\ evict = "remove" => turn \in DOMAIN IPs
  /\ errs \in BOOLEAN /\ rc \in 0 .. 3 /\ undone \in BOOLEAN

\* An evict that exits with zero leaves no daemon and no address behind, and
\* they stay away until the daemon is started again or somebody else adds them:
\* the daemon that was stopped cannot bring an address back behind the removal,
\* although the stop has a time limit and goes on after it (main.go:147-180).
EvictedMeansGone ==
  evict = "exited" /\ rc = 0 /\ ~undone => ~alive /\ Own \cap iface = {}
=============================================================================
