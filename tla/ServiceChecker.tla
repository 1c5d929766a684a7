--------------------------- MODULE ServiceChecker ---------------------------
(***************************************************************************)
(* systemd.ServiceChecker: one systemd unit, watched through the process   *)
(* systemd reports for it.  A call of Status either asks whether the       *)
(* process it holds is still the same one (procExit) or, when it holds     *)
(* none, asks systemctl for the unit's main process and adopts it.  Both   *)
(* go through linuxproc.ProcInfo, which opens /proc/<pid>/stat, takes the  *)
(* times of /proc/<pid> and only then reads the file: the process can die  *)
(* and its pid be used again between any two of these steps, so each is an *)
(* action, interleaved with those of the machine being watched.            *)
(*                                                                         *)
(* Left out: the wording of events and their de-duplication (Service-      *)
(* Checker.event), which only decide what is logged.                       *)
(***************************************************************************)
EXTENDS Thresholds

CONSTANTS
  Pids,     \* process identifiers
  Starts,   \* start times: the ctime of /proc/<pid>
  NoProc,   \* no process: a nil *Proc, a missing /proc/<pid>
  NoPid,    \* no process identifier
  Glitches  \* which failures of the tools themselves can happen

\* timeout: systemctl takes over 10 seconds or ends with an unusual code;
\* systemctl: it cannot be run, or prints no usable Main PID;
\* open: /proc/<pid>/stat exists but cannot be opened (no descriptors left), or
\* not be made sense of.
GlitchKinds == {"timeout", "systemctl", "open"}

\* A process as linuxproc.Proc sees it.  own: its parent is systemd and its
\* name is the one systemctl printed (PPID and ProcName of the code).
Proc == [pid : Pids, start : Starts, own : BOOLEAN]

ASSUME ServiceAssumption ==
  /\ NoProc \notin Proc
  /\ NoPid \notin Pids
  /\ Glitches \subseteq GlitchKinds

VARIABLES
  procfs,    \* the machine: the process behind each pid
  mainPid,   \* the machine: the main pid systemd has on record for the unit
  process,   \* ServiceChecker.Process
  failed, success, checked,   \* ServiceChecker.failed, success, checked
  status,    \* ServiceChecker.status, published by Metrics
  report,    \* the state the last call of Status returned
  pc,        \* where the call of Status stands
  target,    \* the pid ProcInfo was called with
  opened,    \* the process whose stat file ProcInfo holds open
  start      \* the start time ProcInfo has read

machine == <<procfs, mainPid>>
results == <<process, failed, success, checked, status, report>>
probe == <<target, opened, start>>
vars == <<machine, results, pc, probe>>

ControlPoints == {"idle", "systemctl", "open", "stat", "read"}

Init ==
  /\ procfs = [p \in Pids |-> NoProc] /\ mainPid = NoPid
  /\ process = NoProc
  /\ failed = 0 /\ success = 0 /\ checked = 0
  /\ status = "collecting" /\ report = "collecting"
  /\ pc = "idle" /\ target = NoPid /\ opened = NoProc /\ start = NoProc

-----------------------------------------------------------------------------
(***************************************************************************)
(* The machine.  A unit's main process and systemd's record of it come and *)
(* go together; any pid that is free can be taken by some other process.   *)
(* A start time is never given out twice; a value that nothing in the      *)
(* model remembers stands for a new one, which keeps the model finite.     *)
(***************************************************************************)
Known == ({procfs[p] : p \in Pids} \cup {process, opened}) \ {NoProc}

NewStarts == Starts \ ({q.start : q \in Known} \cup {start})

Spawn(p, isOwn) ==
  /\ procfs[p] = NoProc
  /\ \E s \in NewStarts :
       procfs' = [procfs EXCEPT ![p] = [pid |-> p, start |-> s, own |-> isOwn]]
  /\ UNCHANGED <<results, pc, probe>>

UnitStarts ==
  /\ mainPid = NoPid
  /\ \E p \in Pids : Spawn(p, TRUE) /\ mainPid' = p

UnitExits ==
  /\ mainPid # NoPid
  /\ procfs' = [procfs EXCEPT ![mainPid] = NoProc]
  /\ mainPid' = NoPid
  /\ UNCHANGED <<results, pc, probe>>

OtherStarts == \E p \in Pids : Spawn(p, FALSE) /\ UNCHANGED mainPid

OtherExits ==
  /\ \E p \in Pids :
       /\ procfs[p] # NoProc /\ p # mainPid
       /\ procfs' = [procfs EXCEPT ![p] = NoProc]
  /\ UNCHANGED <<mainPid, results, pc, probe>>

Machine == UnitStarts \/ UnitExits \/ OtherStarts \/ OtherExits

-----------------------------------------------------------------------------
(* ServiceChecker.Status *)

Return == pc' = "idle" /\ target' = NoPid /\ opened' = NoProc /\ start' = NoProc

\* A success forgives without looking at the length of the streak.
MutSettle(ok, charged) ==
  LET streak  == IF ok THEN Bump(success) ELSE 0
      pending == IF ok THEN 0 ELSE charged
      now     == Verdict([failed |-> pending, success |-> streak, checked |-> Bump(checked)])
  IN  /\ checked' = Bump(checked) /\ success' = streak /\ failed' = pending
      /\ status' = now /\ report' = now
      /\ Return

\* The end of Status: charged is the number of failures, this check's
\* included, and ok tells whether it succeeded.
Settle(ok, charged) ==
  LET streak  == IF ok THEN Bump(success) ELSE 0
      pending == IF ok /\ charged > 0 /\ streak >= ResetCount THEN 0 ELSE charged
      tries   == Bump(checked)
      now     == IF tries < CheckCount THEN "collecting"
                 ELSE IF pending > 0
                 THEN IF pending >= FailCount THEN "error" ELSE "warn"
                 ELSE "success"
  IN  /\ checked' = tries /\ success' = streak /\ failed' = pending
      /\ status' = now /\ report' = now
      /\ Return

\* The early returns of UnknownState.  Without a process the state is kept in
\* ServiceChecker.status; when the held process cannot be probed it is only
\* returned.
GiveUp ==
  /\ failed' = 0 /\ success' = 0 /\ checked' = 0
  /\ report' = "unknown"
  /\ status' = IF process = NoProc THEN "unknown" ELSE status
  /\ UNCHANGED <<process, machine>>
  /\ Return

\* The exit of the held process is not charged.
MutLost ==
  /\ process' = NoProc
  /\ Settle(FALSE, IF process = NoProc THEN Bump(failed) ELSE failed)
  /\ UNCHANGED machine
\* The process that is gone is held on to.
MutKept == process' = process /\ Settle(FALSE, Bump(failed)) /\ UNCHANGED machine
\* A failed check: there is no process to hold on to.
Lost == process' = NoProc /\ Settle(FALSE, Bump(failed)) /\ UNCHANGED machine

\* A successful check: seen is the process held from now on.
Holding(seen) == process' = seen /\ Settle(TRUE, failed) /\ UNCHANGED machine

\* systemctl is asked every time.
MutBegin ==
  /\ pc = "idle"
  /\ pc' = "systemctl"
  /\ UNCHANGED <<machine, results, probe>>

Begin ==
  /\ pc = "idle"
  /\ IF process = NoProc
     THEN pc' = "systemctl" /\ UNCHANGED target
     ELSE pc' = "open" /\ target' = process.pid
  /\ UNCHANGED <<machine, results, opened, start>>

\* ServiceState found no running unit, or took too long.
ServiceDown ==
  /\ pc = "systemctl"
  /\ mainPid = NoPid \/ "timeout" \in Glitches
  /\ Lost

\* ServiceState ended in UnknownState.
ServiceUnknown ==
  /\ pc = "systemctl"
  /\ "systemctl" \in Glitches
  /\ GiveUp

ServiceStarted ==
  /\ pc = "systemctl"
  /\ mainPid # NoPid
  /\ pc' = "open" /\ target' = mainPid
  /\ UNCHANGED <<machine, results, opened, start>>

-----------------------------------------------------------------------------
(***************************************************************************)
(* linuxproc.ProcInfo and what Status makes of its result.  An error that  *)
(* is not os.IsNotExist makes Status give up; no such process is a failed  *)
(* check.  Reading a stat file whose process is gone fails with ESRCH,     *)
(* which is not os.IsNotExist.                                             *)
(***************************************************************************)
OpenStat ==
  /\ pc = "open"
  /\ procfs[target] # NoProc
  /\ opened' = procfs[target]
  /\ pc' = "stat"
  /\ UNCHANGED <<machine, results, target, start>>

OpenFails ==
  /\ pc = "open"
  /\ procfs[target] # NoProc
  /\ "open" \in Glitches
  /\ GiveUp

StatTimes ==
  /\ pc = "stat"
  /\ procfs[target] # NoProc
  /\ start' = procfs[target].start
  /\ pc' = "read"
  /\ UNCHANGED <<machine, results, target, opened>>

\* /proc/<pid> is missing when it is opened or when its times are taken.
NotExist ==
  /\ pc \in {"open", "stat"}
  /\ procfs[target] = NoProc
  /\ Lost

ReadFails ==
  /\ pc = "read"
  /\ procfs[target] # opened
  /\ GiveUp

\* Processes are told apart by their pids alone.
MutAccepted(seen) == process = NoProc \/ seen.pid = process.pid
\* A process found for the unit must be systemd's; the one held must be the same.
Accepted(seen) == IF process = NoProc THEN seen.own ELSE seen = process

ReadStat ==
  /\ pc = "read"
  /\ procfs[target] = opened
  /\ LET seen == [pid |-> target, start |-> start, own |-> opened.own]
     IN  IF Accepted(seen) THEN Holding(seen) ELSE Lost

Status ==
  \/ Begin \/ ServiceDown \/ ServiceUnknown \/ ServiceStarted
  \/ OpenStat \/ OpenFails \/ StatTimes \/ NotExist \/ ReadFails \/ ReadStat

Next == Machine \/ Status

Spec == Init /\ [][Next]_vars

\* The main loop calls Status again and again, and systemctl is given 10
\* seconds, so a call that can take its next step does.
FairSpec == Spec /\ WF_vars(Status)

-----------------------------------------------------------------------------
(* Properties *)

TypeOK ==
  /\ procfs \in [Pids -> Proc \cup {NoProc}]
  /\ mainPid \in Pids \cup {NoPid}
  /\ process \in Proc \cup {NoProc}
  /\ failed \in 0..MaxCount /\ success \in 0..MaxCount /\ checked \in 0..MaxCount
  /\ status \in States /\ report \in States
  /\ pc \in ControlPoints
  /\ target \in Pids \cup {NoPid}
  /\ opened \in Proc \cup {NoProc}
  /\ start \in Starts \cup {NoProc}

\* Success is never reported for a service whose process is not held: every
\* path that drops the process also charges a failure that keeps the state
\* from being "success" (service.go:204-209, 226-248).
SuccessMeansHeld == report = "success" => process # NoProc

\* Only a process that exists at that moment and is the unit's is adopted,
\* although its parts were read one after the other and pids are used again
\* (process.go:22-52, service.go:231-252).
AdoptsOnlyTheUnit ==
  [][process' \notin {process, NoProc} =>
       process'.own /\ process' = procfs[process'.pid]]_vars

\* A service whose process has been alive all along is never charged with a
\* failure, whatever else happens to the pids around it (service.go:196-212).
NoFalseAlarm ==
  [][process # NoProc /\ process \in {procfs[p] : p \in Pids} => failed' <= failed]_vars

\* The two checks of a service end like those of any other checker.
C == INSTANCE Checker WITH
       counters <- [failed |-> failed, success |-> success, checked |-> checked]
ChecksLikeAChecker == C!Spec

\* That a process does not exist is never taken for a check that could not be
\* made.
GoneIsNotUnknown ==
  [][pc # "idle" /\ pc' = "idle" /\ target \in Pids /\ procfs[target] = NoProc
       => report' # "unknown"]_vars
=============================================================================
