----------------------------- MODULE Thresholds -----------------------------
(***************************************************************************)
(* How the results of single checks are debounced into a reported state.   *)
(* Both implementations of checker.Checker keep three saturating counters  *)
(* and compare them with check_count, fail_count and reset_count.  This    *)
(* module is what the loop above them may rely on.  ServiceChecker.Status  *)
(* and NetworkChecker.Status write the arithmetic in statements of their   *)
(* own, and each has its own translation of them in its module, which is   *)
(* shown to amount to this.                                                *)
(*                                                                         *)
(* Operators whose names start with Mut are wrong versions of the operator *)
(* that follows them; each shows that a property notices the mistake.      *)
(***************************************************************************)
EXTENDS Integers

CONSTANTS
  FailCount,   \* fail_count: failures that make an error
  CheckCount,  \* check_count: checks before anything is reported
  ResetCount,  \* reset_count: successes in a row that forgive the failures
  MaxCount     \* where the counters stop growing, math.MaxInt32 in the code

\* LoadConfig accepts any int for the three thresholds.
ASSUME ThresholdsAssumption ==
  /\ FailCount \in Int /\ CheckCount \in Int /\ ResetCount \in Int
  /\ MaxCount \in Nat \ {0}

\* The checker.State values a checker returns.  NotFoundState is declared
\* beside them, but no checker returns it.
States == {"collecting", "success", "warn", "error", "unknown"}

\* failed: failures not yet forgiven; success: successes in a row; checked:
\* checks since the start or since the last "unknown".
Counters == [failed : 0..MaxCount, success : 0..MaxCount, checked : 0..MaxCount]

Fresh == [failed |-> 0, success |-> 0, checked |-> 0]

\* One step too far.
MutBump(n) == IF n <= MaxCount THEN n + 1 ELSE n

\* The code's "if n < math.MaxInt32 { n++ }".
Bump(n) == IF n < MaxCount THEN n + 1 ELSE n

\* Every success pays back one failure.
MutPassed(c) ==
  [failed  |-> IF c.failed > 0 THEN c.failed - 1 ELSE 0,
   success |-> Bump(c.success),
   checked |-> Bump(c.checked)]

\* A check succeeded: a long enough streak forgives the failures.
Passed(c) ==
  LET streak == Bump(c.success)
  IN  [failed  |-> IF streak >= ResetCount THEN 0 ELSE c.failed,
       success |-> streak,
       checked |-> Bump(c.checked)]

\* The streak survives a failure.
MutFailing(c) ==
  [failed |-> Bump(c.failed), success |-> c.success, checked |-> Bump(c.checked)]

\* A check failed: the streak is over.
Failing(c) ==
  [failed |-> Bump(c.failed), success |-> 0, checked |-> Bump(c.checked)]

\* The state the counters amount to.
Verdict(c) ==
  IF c.checked < CheckCount THEN "collecting"
  ELSE IF c.failed = 0 THEN "success"
  ELSE IF c.failed >= FailCount THEN "error" ELSE "warn"
=============================================================================
