------------------------------- MODULE System -------------------------------
(***************************************************************************)
(* The daemon with the real checker of one systemd unit in place of an     *)
(* abstract one, on the machine where the unit's processes come and go:    *)
(* the loop of Relaymon.tla, whose check is a call of Status as            *)
(* ServiceChecker.tla takes it, step by step.                              *)
(*                                                                         *)
(* Left out: the faults of the interface and of the commands, which have   *)
(* no part in a check; Relaymon.tla has them.                              *)
(***************************************************************************)
EXTENDS ServiceChecker, Sequences

CONSTANTS
  Addrs,  \* addresses that matter
  IPs     \* ips: the addresses to configure, in order

ASSUME SystemAssumption == IPs \in Seq(Addrs)

VARIABLES
  loop,       \* where the loop stands
  next, step, successes,
  direction,  \* status of main.go: the state the daemon is in
  listed, errs, iface, cancelled, running

daemon == <<loop, next, step, successes, direction, listed, errs, iface,
            cancelled, running>>
systemVars == <<vars, daemon>>

D == INSTANCE Relaymon WITH
       NumServices <- 1, HasNet <- FALSE,
       HasSuccessCmd <- TRUE, HasErrorCmd <- TRUE,
       Faults <- {"unknown", "restart"},
       counters <- <<[failed |-> failed, success |-> success, checked |-> checked]>>,
       reports <- <<report>>,
       pc <- loop, status <- direction

SystemInit ==
  /\ Init
  /\ loop = "pause"
  /\ next = 0 /\ step = "collecting" /\ successes = 0
  /\ direction = "collecting"
  /\ listed = {} /\ errs = FALSE
  /\ cancelled = FALSE /\ running = TRUE
  /\ iface \in SUBSET Addrs

-----------------------------------------------------------------------------

MachineStep == Machine /\ UNCHANGED daemon

\* The loop does not wait for a check that has begun.
MutCheck ==
  /\ loop = "check"
  /\ Status
  /\ loop' = "decide" /\ next' = 0
  /\ step' = IF report' = "error" THEN "error" ELSE step
  /\ successes' = IF report' = "success" THEN successes + 1 ELSE successes
  /\ UNCHANGED <<direction, listed, errs, iface, cancelled, running>>

\* A step of the call of Status; when it returns the loop counts its result.
Check ==
  /\ loop = "check"
  /\ Status
  /\ IF pc' # "idle"
     THEN UNCHANGED <<loop, next, step, successes>>
     ELSE /\ loop' = "decide" /\ next' = 0
          /\ step' = IF report' = "error" THEN "error" ELSE step
          /\ successes' = IF report' = "success" THEN successes + 1 ELSE successes
  /\ UNCHANGED <<direction, listed, errs, iface, cancelled, running>>

\* Everything else the loop does, and the goroutine that waits for a signal.
Act ==
  /\ UNCHANGED vars
  /\ D!Wake \/ D!Decide \/ D!ListAddrs \/ D!AddAddr \/ D!DelAddr \/ D!RunCommand

StopStep == UNCHANGED vars /\ D!Stop

CancelStep == UNCHANGED vars /\ D!Cancel

\* A new daemon knows nothing of the process and holds none.
Restart ==
  /\ process' = NoProc
  /\ failed' = 0 /\ success' = 0 /\ checked' = 0
  /\ status' = "collecting" /\ report' = "collecting"
  /\ Return
  /\ UNCHANGED machine
  /\ D!Restart

SystemNext ==
  MachineStep \/ Check \/ Act \/ StopStep \/ CancelStep \/ Restart

\* As in ServiceChecker.tla and Relaymon.tla.
SystemSpec ==
  /\ SystemInit /\ [][SystemNext]_systemVars
  /\ WF_systemVars(Check \/ Act) /\ WF_systemVars(StopStep)

-----------------------------------------------------------------------------

\* The abstract checker loses nothing: whatever the machine does in the middle
\* of a call, and wherever a restart falls, the daemon with the real checker
\* takes no step that the daemon over an abstract one could not take
\* (main.go:248-362 over service.go:189-285).
ImplementsRelaymon == D!Spec

\* No address is brought up without a process of the unit in hand: the daemon
\* goes up on a success, and between the check and the last ip command nothing
\* gives the process away (main.go:258-263, 323-327; service.go:204-252).
UpWithAProcess == [][iface' \ iface # {} => process # NoProc]_systemVars

Content == D!Configured \subseteq iface /\ direction = "success"
Clear == D!Configured \cap iface = {}

\* A unit that has stopped for good loses its addresses for good, whatever took
\* its pid: as long as its checks can be made and the daemon runs
\* (service.go:194-281, main.go:294-313).
StopClears ==
  (<>[](mainPid = NoPid /\ running) /\ <>[][report' # "unknown" /\ ~Restart]_systemVars)
    => <>[]Clear

\* A unit that is up for good gets its addresses for good, on the same terms
\* and when systemctl answers in time (service.go:218-284, main.go:323-327).
StartConfigures ==
  (<>[](mainPid # NoPid /\ ~cancelled)
     /\ <>[][report' # "unknown" /\ ~ServiceDown /\ ~Restart]_systemVars)
    => <>[]Content
=============================================================================
