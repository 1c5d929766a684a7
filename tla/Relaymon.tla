------------------------------ MODULE Relaymon ------------------------------
(***************************************************************************)
(* The daemon: the loop of main.go that asks every checker for its state,  *)
(* makes up its mind, and when it changes reconfigures the addresses of an *)
(* interface (package netconf) and runs a command; the goroutine that      *)
(* waits for a signal; and the interface, which others can change too.     *)
(*                                                                         *)
(* The checkers behave as Checker.tla says: services first, then the       *)
(* network checker, whose dials all fail once the context is cancelled.    *)
(*                                                                         *)
(* Left out: logging, the metrics sent to graphite and the checks' length. *)
(***************************************************************************)
EXTENDS Thresholds, Sequences

CONSTANTS
  NumServices,    \* services: at least one
  HasNet,         \* whether carbon_c_relay is configured
  Addrs,          \* addresses that matter
  IPs,            \* ips: the addresses to configure, in order
  HasSuccessCmd,  \* whether there is a success_cmd
  HasErrorCmd,    \* whether there is an error_cmd
  Faults          \* what can go wrong around the daemon

\* unknown: a service cannot be checked; list: the interface's addresses
\* cannot be listed; ip: an ip command fails or times out, whether it had its
\* effect or not; cmd: a configured command fails; foreignAdd, foreignDel:
\* somebody else adds or removes an address; restart: the daemon is killed or
\* ends, and is started again.
FaultKinds == {"unknown", "list", "ip", "cmd", "foreignAdd", "foreignDel", "restart"}

\* LoadConfig wants something to do in either direction.
ASSUME RelaymonAssumption ==
  /\ NumServices \in Nat \ {0}
  /\ HasNet \in BOOLEAN
  /\ IPs \in Seq(Addrs)
  /\ HasSuccessCmd \in BOOLEAN /\ HasErrorCmd \in BOOLEAN
  /\ IPs = <<>> => HasSuccessCmd /\ HasErrorCmd
  /\ Faults \subseteq FaultKinds

Checks == IF HasNet THEN NumServices + 1 ELSE NumServices
Checkers == 1 .. Checks
IsNet(c) == c > NumServices

VARIABLES
  pc,         \* where the loop stands
  counters,   \* the counters of each checker
  reports,    \* CheckStatus.Status of each checker
  next,       \* the checker, or the address, whose turn it is
  step,       \* stepStatus: what this round amounts to
  successes,  \* success: how many checkers reported success in this round
  status,     \* status: the state the daemon is in
  listed,     \* the addresses found on the interface by IfaceAddrAdd or -Del
  errs,       \* whether IfaceAddrAdd or -Del has met an error
  iface,      \* the addresses configured on the interface
  cancelled,  \* whether the context is cancelled
  running     \* running: cleared by the goroutine that waits for a signal

checks == <<counters, reports>>
round == <<step, successes>>
netconf == <<listed, errs>>
signals == <<cancelled, running>>
vars == <<pc, checks, next, round, status, netconf, iface, signals>>

ControlPoints == {"pause", "check", "decide", "list", "addrs", "command", "stopped"}

\* The daemon as it starts; an earlier run may have left any of the addresses
\* behind.
Init ==
  /\ pc = "pause"
  /\ counters = [c \in Checkers |-> Fresh]
  /\ reports = [c \in Checkers |-> "collecting"]
  /\ next = 0 /\ step = "collecting" /\ successes = 0
  /\ status = "collecting"
  /\ listed = {} /\ errs = FALSE
  /\ cancelled = FALSE /\ running = TRUE
  /\ iface \in SUBSET Addrs

-----------------------------------------------------------------------------
(* A round of checks *)

\* The sleep between two rounds and the loop's test: both end when running
\* is cleared.
Wake ==
  /\ pc = "pause"
  /\ IF running
     THEN pc' = "check" /\ next' = 1 /\ step' = "collecting" /\ successes' = 0
     ELSE pc' = "stopped" /\ UNCHANGED <<next, round>>
  /\ UNCHANGED <<checks, status, netconf, iface, signals>>

\* The checker whose turn it is has returned rep and is left with counters new.
MutReturned(new, rep) ==
  /\ counters' = [counters EXCEPT ![next] = new]
  /\ reports' = [reports EXCEPT ![next] = rep]
  /\ step' = IF rep = "error" THEN "error" ELSE step
  /\ successes' = IF rep # "error" THEN successes + 1 ELSE successes
  /\ IF next = Checks THEN pc' = "decide" /\ next' = 0
                      ELSE pc' = pc /\ next' = next + 1
  /\ UNCHANGED <<status, netconf, iface, signals>>

Returned(new, rep) ==
  /\ counters' = [counters EXCEPT ![next] = new]
  /\ reports' = [reports EXCEPT ![next] = rep]
  /\ step' = IF rep = "error" THEN "error" ELSE step
  /\ successes' = IF rep = "success" THEN successes + 1 ELSE successes
  /\ IF next = Checks THEN pc' = "decide" /\ next' = 0
                      ELSE pc' = pc /\ next' = next + 1
  /\ UNCHANGED <<status, netconf, iface, signals>>

CheckPasses ==
  /\ pc = "check"
  /\ IsNet(next) => ~cancelled
  /\ LET new == Passed(counters[next]) IN Returned(new, Verdict(new))

CheckFails ==
  /\ pc = "check"
  /\ LET new == Failing(counters[next]) IN Returned(new, Verdict(new))

CheckGivesUp ==
  /\ pc = "check"
  /\ "unknown" \in Faults /\ ~IsNet(next)
  /\ Returned(Fresh, "unknown")

\* A round acts only when it amounts to an error or a success, and to another
\* one than the state the daemon is in.
Decide ==
  /\ pc = "decide"
  /\ step' = IF successes = Checks THEN "success" ELSE step
  /\ IF step' # status /\ step' \in {"error", "success"}
     THEN /\ status' = step'
          /\ pc' = IF IPs = <<>> THEN "command" ELSE "list"
     ELSE pc' = "pause" /\ UNCHANGED status
  /\ UNCHANGED <<checks, next, successes, netconf, iface, signals>>

-----------------------------------------------------------------------------
(***************************************************************************)
(* netconf.IfaceAddrAdd (after a success) and IfaceAddrDel (after an       *)
(* error): the addresses of the interface are listed once, then one ip     *)
(* command is run for each address that the list calls for.                *)
(***************************************************************************)

\* IfaceAddrAdd or IfaceAddrDel returns; failed: with errors.
MutAddrsDone(failed) ==
  /\ status' = status
  /\ pc' = "command" /\ next' = 0 /\ listed' = {} /\ errs' = FALSE

AddrsDone(failed) ==
  /\ status' = IF failed /\ step = "success" THEN "error" ELSE status
  /\ pc' = "command" /\ next' = 0 /\ listed' = {} /\ errs' = FALSE

ListAddrs ==
  /\ pc = "list"
  /\ listed' = iface /\ next' = 1 /\ pc' = "addrs"
  /\ UNCHANGED <<checks, round, status, errs, iface, signals>>

ListFails ==
  /\ pc = "list"
  /\ "list" \in Faults
  /\ AddrsDone(TRUE)
  /\ UNCHANGED <<checks, round, iface, signals>>

\* On to the next address; failed: the ip command for this one did.
NextAddr(failed) ==
  /\ IF next = Len(IPs)
     THEN AddrsDone(errs \/ failed)
     ELSE /\ next' = next + 1 /\ errs' = (errs \/ failed)
          /\ UNCHANGED <<pc, status, listed>>
  /\ UNCHANGED <<checks, round, signals>>

\* ip addr add: an address that is there already is an error.
AddAddr ==
  /\ pc = "addrs" /\ step = "success"
  /\ LET a == IPs[next]
     IN  \/ a \in listed /\ iface' = iface /\ NextAddr(FALSE)
         \/ a \notin listed /\ iface' = iface \cup {a} /\ NextAddr(a \in iface)

\* It fails or times out, with or without its effect.
AddFails ==
  /\ pc = "addrs" /\ step = "success" /\ "ip" \in Faults
  /\ IPs[next] \notin listed
  /\ iface' \in {iface, iface \cup {IPs[next]}}
  /\ NextAddr(TRUE)

\* The addresses that are not on the interface are the ones removed.
MutDelAddr ==
  /\ pc = "addrs" /\ step = "error"
  /\ LET a == IPs[next]
     IN  \/ a \in listed /\ iface' = iface /\ NextAddr(FALSE)
         \/ a \notin listed /\ iface' = iface \ {a} /\ NextAddr(a \notin iface)

\* The address is removed as it is found on the interface, where it may have
\* another netmask and be somebody else's.
MutDelFound ==
  /\ pc = "addrs" /\ step = "error"
  /\ LET a == IPs[next]
     IN  \/ a \notin listed /\ iface' = iface /\ NextAddr(FALSE)
         \/ /\ a \in listed
            /\ \E b \in listed : iface' = iface \ {b} /\ NextAddr(b \notin iface)

\* ip addr del: an address that is not there is an error.
DelAddr ==
  /\ pc = "addrs" /\ step = "error"
  /\ LET a == IPs[next]
     IN  \/ a \notin listed /\ iface' = iface /\ NextAddr(FALSE)
         \/ a \in listed /\ iface' = iface \ {a} /\ NextAddr(a \notin iface)

DelFails ==
  /\ pc = "addrs" /\ step = "error" /\ "ip" \in Faults
  /\ IPs[next] \in listed
  /\ iface' \in {iface, iface \ {IPs[next]}}
  /\ NextAddr(TRUE)

\* The command of this direction, if there is one, and it succeeds.
RunCommand ==
  /\ pc = "command"
  /\ pc' = "pause"
  /\ UNCHANGED <<checks, next, round, status, netconf, iface, signals>>

CommandFails ==
  /\ pc = "command"
  /\ "cmd" \in Faults
  /\ IF step = "success" THEN HasSuccessCmd ELSE HasErrorCmd
  /\ status' = IF step = "success" THEN "error" ELSE status
  /\ pc' = "pause"
  /\ UNCHANGED <<checks, next, round, netconf, iface, signals>>

Loop ==
  \/ Wake \/ CheckPasses \/ CheckFails \/ CheckGivesUp \/ Decide
  \/ ListAddrs \/ ListFails \/ AddAddr \/ AddFails \/ DelAddr \/ DelFails
  \/ RunCommand \/ CommandFails

-----------------------------------------------------------------------------
(* The goroutine that waits for a signal, and the rest of the world *)

\* The first SIGINT or SIGTERM; no other is ever received.
Cancel ==
  /\ pc # "stopped" /\ ~cancelled
  /\ cancelled' = TRUE
  /\ UNCHANGED <<pc, checks, next, round, status, netconf, iface, running>>

\* The goroutine cancels the context and never tells the loop.
MutStop == cancelled /\ running /\ UNCHANGED vars

\* The signal ends the process at once; the ip command it started goes on.
MutStopAtOnce ==
  /\ \/ cancelled /\ running /\ running' = FALSE /\ pc' = "stopped" /\ UNCHANGED iface
     \/ /\ pc = "stopped" /\ step = "success" /\ next \in DOMAIN IPs
        /\ iface' = iface \cup {IPs[next]} /\ UNCHANGED <<running, pc>>
  /\ UNCHANGED <<checks, next, round, status, netconf, cancelled>>

Stop ==
  /\ cancelled /\ running
  /\ running' = FALSE
  /\ UNCHANGED <<pc, checks, next, round, status, netconf, iface, cancelled>>

ForeignAdd ==
  /\ "foreignAdd" \in Faults
  /\ \E a \in Addrs \ iface : iface' = iface \cup {a}
  /\ UNCHANGED <<pc, checks, next, round, status, netconf, signals>>

ForeignDel ==
  /\ "foreignDel" \in Faults
  /\ \E a \in iface : iface' = iface \ {a}
  /\ UNCHANGED <<pc, checks, next, round, status, netconf, signals>>

\* The addresses outlive the daemon.
Restart ==
  /\ "restart" \in Faults
  /\ pc' = "pause"
  /\ counters' = [c \in Checkers |-> Fresh]
  /\ reports' = [c \in Checkers |-> "collecting"]
  /\ next' = 0 /\ step' = "collecting" /\ successes' = 0
  /\ status' = "collecting"
  /\ listed' = {} /\ errs' = FALSE
  /\ cancelled' = FALSE /\ running' = TRUE
  /\ UNCHANGED iface

Next == Loop \/ Stop \/ Cancel \/ ForeignAdd \/ ForeignDel \/ Restart

Spec == Init /\ [][Next]_vars

\* Every call of the loop has a time limit (10 s for systemctl, net_timeout for
\* a dial, 180 s for ip, 20 s for a command), so the loop goes on, and so does
\* the goroutine.
Fairness == WF_vars(Loop) /\ WF_vars(Stop)

FairSpec == Spec /\ Fairness

-----------------------------------------------------------------------------
(* Properties *)

TypeOK ==
  /\ pc \in ControlPoints
  /\ counters \in [Checkers -> Counters]
  /\ reports \in [Checkers -> States]
  /\ next \in Nat
  /\ pc = "check" => next \in Checkers
  /\ pc = "list" => IPs # <<>>
  /\ pc = "addrs" => next \in DOMAIN IPs
  /\ step \in {"collecting", "success", "error"}
  /\ successes \in 0 .. Checks
  /\ status \in {"collecting", "success", "error"}
  /\ listed \subseteq Addrs /\ errs \in BOOLEAN
  /\ iface \subseteq Addrs
  /\ cancelled \in BOOLEAN /\ running \in BOOLEAN

Configured == {IPs[i] : i \in DOMAIN IPs}

\* To the rest of the host the daemon is what Host.tla says: it changes its own
\* addresses only, one at a time, and none once it has ended, whatever fails
\* or is restarted (netconf/linuxnet.go:90-129, main.go:298-362).
H == INSTANCE Host WITH alive <- pc # "stopped", Others <- Faults
ImplementsHost == H!Spec

\* The daemon reconfigures addresses and runs a command only for a reason: it
\* goes down only in a round in which some checker reported an error and up
\* only in one in which all of them reported success, however collecting,
\* warning and unknown checkers come in between (main.go:249-300, 323).
Acting == pc \in {"list", "addrs", "command"}
ActsForAReason ==
  Acting =>
    \/ step = "error" /\ \E c \in Checkers : reports[c] = "error"
    \/ step = "success" /\ \A c \in Checkers : reports[c] = "success"

\* A daemon that is content has all its addresses up, whatever failed on the
\* way there and was tried again: listing, the ip commands, whose outcome may
\* be unknown, and the success command.  (Nobody else removes an address.)
\* The state is set to success before any of it is done (main.go:325-345).
SuccessMeansConfigured ==
  ~Acting /\ status = "success" => Configured \subseteq iface

\* After a round in which some checker reported an error no address is left
\* on the interface, not even one an earlier run of the daemon left behind.
\* (No command fails and nobody else adds an address; main.go:300-313.)
DownWhenUnhealthy ==
  pc = "pause" /\ (\E c \in Checkers : reports[c] = "error")
    => Configured \cap iface = {}

\* A signal ends the daemon, whatever it is in the middle of (main.go:124-134,
\* 248, 353-361).
ShutdownCompletes == cancelled ~> (pc = "stopped" \/ ~cancelled)

\* Once all checks pass and nothing fails any more, the daemon settles down
\* with all addresses up: what failed on the way up is tried again in every
\* round (main.go:298, 329, 342).
Trouble ==
  \/ CheckFails \/ CheckGivesUp \/ ListFails \/ AddFails \/ CommandFails
  \/ Cancel \/ Restart
Recovers ==
  (<>[][~Trouble]_vars /\ <>[](~cancelled))
    => <>[](status = "success" /\ Configured \subseteq iface)

\* Once some checker goes on reporting an error the addresses go down and stay
\* down (same assumptions as DownWhenUnhealthy).
Drains ==
  <>[](running /\ \E c \in Checkers : reports[c] = "error")
    => <>[](Configured \cap iface = {})
=============================================================================
