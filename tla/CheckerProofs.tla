---------------------------- MODULE CheckerProofs ---------------------------
(***************************************************************************)
(* What is true of the debouncing arithmetic of Thresholds.tla and of a    *)
(* checker (Checker.tla), whatever the thresholds and the point at which   *)
(* the counters saturate; and that the counters compute the state the      *)
(* history of the results calls for (CheckerHistory.tla), of histories of  *)
(* any length.                                                             *)
(***************************************************************************)
EXTENDS CheckerHistory, FiniteSetTheorems, TLAPS

\* A counter at its limit stays there: the code's "if n < math.MaxInt32".
LEMMA BumpType == ASSUME NEW n \in 0..MaxCount PROVE Bump(n) \in 0..MaxCount
  BY ThresholdsAssumption DEF Bump

\* The results of single checks keep the counters within their range.
LEMMA CountersType ==
  ASSUME NEW c \in Counters
  PROVE  Passed(c) \in Counters /\ Failing(c) \in Counters /\ Fresh \in Counters
  BY BumpType, ThresholdsAssumption DEF Counters, Passed, Failing, Fresh

\* A verdict is one of the four states that say something about the checks.
LEMMA VerdictType ==
  ASSUME NEW c \in Counters
  PROVE  Verdict(c) \in {"collecting", "success", "warn", "error"}
  BY DEF Verdict

\* Once enough checks were made for an error, the next check finds no reason
\* to go back to collecting or to soften the error to a warning.
LEMMA ErrorStays ==
  ASSUME NEW c \in Counters, Verdict(c) = "error"
  PROVE  /\ Verdict(Passed(c)) \in {"error", "success"}
         /\ Verdict(Failing(c)) = "error"
<1>1. c.failed \in 0..MaxCount /\ c.checked \in 0..MaxCount /\ c.success \in 0..MaxCount
  BY DEF Counters
<1>2. c.checked >= CheckCount /\ c.failed >= FailCount /\ c.failed # 0
  BY <1>1, ThresholdsAssumption DEF Verdict
<1>3. /\ Bump(c.checked) \in Int /\ Bump(c.checked) >= CheckCount
      /\ Bump(c.failed) \in Int /\ Bump(c.failed) >= FailCount /\ Bump(c.failed) # 0
  BY <1>1, <1>2, ThresholdsAssumption DEF Bump
<1>4. Verdict(Passed(c)) \in {"error", "success"}
  <2>1. Passed(c).checked = Bump(c.checked) /\ Passed(c).failed \in {0, c.failed}
    BY DEF Passed
  <2>2. CASE Passed(c).failed = 0
    BY <1>3, <2>1, <2>2, ThresholdsAssumption DEF Verdict
  <2>3. CASE Passed(c).failed = c.failed
    BY <1>1, <1>2, <1>3, <2>1, <2>3, ThresholdsAssumption DEF Verdict
  <2> QED BY <2>1, <2>2, <2>3
<1>5. Verdict(Failing(c)) = "error"
  BY <1>1, <1>3, ThresholdsAssumption DEF Verdict, Failing
<1> QED BY <1>4, <1>5

\* The invariant: types, and the report belongs to the counters.
Inv == TypeOK /\ ReportFollowsCounters

LEMMA InvHolds == Spec => []Inv
<1>1. Init => Inv
  BY CountersType, ThresholdsAssumption
  DEF Init, Inv, TypeOK, ReportFollowsCounters, States, Fresh, Counters
<1>2. Inv /\ [Next]_vars => Inv'
  <2> SUFFICES ASSUME Inv, [Next]_vars PROVE Inv'
    OBVIOUS
  <2>1. counters \in Counters /\ report \in States
    BY DEF Inv, TypeOK
  <2>2. CASE Pass
    BY <2>1, <2>2, CountersType, VerdictType
    DEF Pass, Inv, TypeOK, ReportFollowsCounters, States
  <2>3. CASE Fail
    BY <2>1, <2>3, CountersType, VerdictType
    DEF Fail, Inv, TypeOK, ReportFollowsCounters, States
  <2>4. CASE GiveUp
    BY <2>1, <2>4, CountersType DEF GiveUp, Inv, TypeOK, ReportFollowsCounters, States
  <2>5. CASE UNCHANGED vars
    BY <2>5 DEF vars, Inv, TypeOK, ReportFollowsCounters
  <2> QED BY <2>2, <2>3, <2>4, <2>5 DEF Next
<1> QED BY <1>1, <1>2, PTL DEF Spec

\* The counters and the report of a checker stay within their types.
THEOREM CheckerTypeOK == Spec => []TypeOK
<1>1. Inv => TypeOK
  BY DEF Inv
<1> QED BY <1>1, InvHolds, PTL

\* A checker that reported an error goes on reporting it until it reports
\* success or can no longer check (service.go:272-284, network.go:237-245).
THEOREM CheckerErrorIsSticky == Spec => ErrorIsSticky
<1>1. Inv /\ [Next]_vars =>
        [report = "error" => report' \in {"error", "success", "unknown"}]_vars
  <2> SUFFICES ASSUME Inv, Next, report = "error"
               PROVE  report' \in {"error", "success", "unknown"}
    OBVIOUS
  <2>1. counters \in Counters /\ Verdict(counters) = "error"
    BY DEF Inv, TypeOK, ReportFollowsCounters
  <2> QED BY <2>1, ErrorStays DEF Next, Pass, Fail, GiveUp
<1> QED BY <1>1, InvHolds, PTL DEF Spec, ErrorIsSticky

-----------------------------------------------------------------------------
\* The counters against the history of the results.

\* What a counter shows of a number that may be beyond its limit.
Saturated(n) == IF n < MaxCount THEN n ELSE MaxCount

LEMMA SaturatedCounts ==
  ASSUME NEW n \in Nat
  PROVE  /\ Saturated(n) \in 0..MaxCount
         /\ Bump(Saturated(n)) = Saturated(n + 1)
         /\ Saturated(n) = 0 <=> n = 0
  BY ThresholdsAssumption DEF Saturated, Bump

\* A threshold within the range of the counters is met by the counter exactly
\* when it is met by the number the counter stands for.
LEMMA SaturatedCompares ==
  ASSUME NEW n \in Nat, NEW t \in Int, t <= MaxCount
  PROVE  Saturated(n) >= t <=> n >= t
  BY ThresholdsAssumption DEF Saturated

\* The last s results passed, and the one before them failed, if there is one.
Streak(s) ==
  /\ PassRun(Len(history) - s + 1, Len(history))
  /\ s < Len(history) => history[Len(history) - s] = "fail"

\* The invariant: the counters are the numbers of results, of pending failures
\* and of successes in a row, as far as a counter goes.
HistoryInv ==
  /\ history \in Seq({"pass", "fail"})
  /\ counters \in Counters
  /\ counters.checked = Saturated(Len(history))
  /\ counters.failed = Saturated(Cardinality(Pending))
  /\ \E s \in 0..Len(history) : Streak(s) /\ counters.success = Saturated(s)
  /\ history # <<>> => report = Verdict(counters)

LEMMA PendingIsFinite ==
  ASSUME history \in Seq({"pass", "fail"})
  PROVE  IsFiniteSet(Pending) /\ Cardinality(Pending) \in Nat
<1>1. IsFiniteSet(1..Len(history))
  BY FS_Interval
<1>2. Pending \subseteq 1..Len(history)
  BY DEF Pending
<1> QED BY <1>1, <1>2, FS_Subset, FS_CardinalityType

\* A success too few for a streak forgives nothing and is never pending.
LEMMA PassKeepsPending ==
  ASSUME history \in Seq({"pass", "fail"}), history' = Append(history, "pass"),
         NEW s \in 0..Len(history), Streak(s), s + 1 < ResetCount
  PROVE  Pending' = Pending
<1>1. /\ Len(history) \in Nat /\ Len(history') = Len(history) + 1
      /\ DOMAIN history = 1..Len(history) /\ DOMAIN history' = 1..Len(history) + 1
      /\ history'[Len(history) + 1] = "pass"
      /\ \A i \in 1..Len(history) : history'[i] = history[i]
  OBVIOUS
<1>2. ASSUME NEW i \in 1..Len(history), Forgiven(i) PROVE Forgiven(i)'
  <2>1. PICK j, k \in i + 1 .. Len(history) :
               j <= k /\ k - j + 1 >= ResetCount /\ PassRun(j, k)
    BY <1>2 DEF Forgiven
  <2>2. PassRun(j, k)'
    BY <1>1, <2>1 DEF PassRun
  <2> QED BY <1>1, <2>1, <2>2 DEF Forgiven
<1>3. ASSUME NEW i \in 1..Len(history), Forgiven(i)' PROVE Forgiven(i)
  <2>1. PICK j, k \in i + 1 .. Len(history) + 1 :
               j <= k /\ k - j + 1 >= ResetCount /\ PassRun(j, k)'
    BY <1>1, <1>3 DEF Forgiven
  <2>2. k # Len(history) + 1
    <3> SUFFICES ASSUME k = Len(history) + 1 PROVE FALSE
      OBVIOUS
    <3>1. /\ j <= Len(history) - s /\ Len(history) - s < k
          /\ Len(history) - s \in 1..Len(history)
      BY <1>1, <2>1, ThresholdsAssumption
    <3>2. history'[Len(history) - s] = "pass"
      BY <2>1, <3>1 DEF PassRun
    <3>3. s < Len(history)
      BY <1>1, <3>1
    <3> QED BY <1>1, <3>1, <3>2, <3>3 DEF Streak
  <2>3. /\ j \in i + 1 .. Len(history) /\ k \in i + 1 .. Len(history)
        /\ \A m \in j..k : m \in 1..Len(history)
    BY <1>1, <2>1, <2>2
  <2>4. PassRun(j, k)
    BY <1>1, <2>1, <2>3 DEF PassRun
  <2> QED BY <2>1, <2>3, <2>4 DEF Forgiven
<1>4. ASSUME NEW i PROVE i \in Pending' <=> i \in Pending
  BY <1>1, <1>2, <1>3 DEF Pending
<1> QED BY <1>4

\* A streak that is long enough forgives everything.
LEMMA PassForgives ==
  ASSUME history \in Seq({"pass", "fail"}), history' = Append(history, "pass"),
         NEW s \in 0..Len(history), Streak(s), s + 1 >= ResetCount
  PROVE  Pending' = {}
<1>1. /\ Len(history) \in Nat /\ Len(history') = Len(history) + 1
      /\ DOMAIN history' = 1..Len(history) + 1
      /\ history'[Len(history) + 1] = "pass"
      /\ \A i \in 1..Len(history) : history'[i] = history[i]
  OBVIOUS
<1>2. \A m \in Len(history) - s + 1 .. Len(history) + 1 : history'[m] = "pass"
  BY <1>1 DEF Streak, PassRun
<1> SUFFICES ASSUME NEW i \in 1..Len(history) + 1, history'[i] = "fail"
             PROVE  Forgiven(i)'
  BY <1>1 DEF Pending
<1>3. i <= Len(history) - s
  BY <1>1, <1>2
<1>4. /\ Len(history) - s + 1 \in i + 1 .. Len(history) + 1
      /\ Len(history) + 1 \in i + 1 .. Len(history) + 1
      /\ Len(history) - s + 1 <= Len(history) + 1
      /\ (Len(history) + 1) - (Len(history) - s + 1) + 1 >= ResetCount
  BY <1>1, <1>3, ThresholdsAssumption
<1>5. \A j, k \in i + 1 .. Len(history') :
        /\ j <= k /\ k - j + 1 >= ResetCount
        /\ \A m \in j..k : history'[m] = "pass"
        => Forgiven(i)'
  BY DEF Forgiven, PassRun
<1> QED BY <1>1, <1>2, <1>4, <1>5

\* A failure is pending, and forgives nothing.
LEMMA FailAddsPending ==
  ASSUME history \in Seq({"pass", "fail"}), history' = Append(history, "fail")
  PROVE  Pending' = Pending \cup {Len(history) + 1}
<1>1. /\ Len(history) \in Nat /\ Len(history') = Len(history) + 1
      /\ DOMAIN history = 1..Len(history) /\ DOMAIN history' = 1..Len(history) + 1
      /\ history'[Len(history) + 1] = "fail"
      /\ \A i \in 1..Len(history) : history'[i] = history[i]
  OBVIOUS
<1>2. ASSUME NEW i \in 1..Len(history), Forgiven(i) PROVE Forgiven(i)'
  <2>1. PICK j, k \in i + 1 .. Len(history) :
               j <= k /\ k - j + 1 >= ResetCount /\ PassRun(j, k)
    BY <1>2 DEF Forgiven
  <2>2. PassRun(j, k)'
    BY <1>1, <2>1 DEF PassRun
  <2> QED BY <1>1, <2>1, <2>2 DEF Forgiven
<1>3. ASSUME NEW i \in 1..Len(history) + 1, Forgiven(i)'
      PROVE  i \in 1..Len(history) /\ Forgiven(i)
  <2>1. PICK j, k \in i + 1 .. Len(history) + 1 :
               j <= k /\ k - j + 1 >= ResetCount /\ PassRun(j, k)'
    BY <1>1, <1>3 DEF Forgiven
  <2>2. k # Len(history) + 1
    BY <1>1, <2>1 DEF PassRun
  <2>3. /\ j \in i + 1 .. Len(history) /\ k \in i + 1 .. Len(history)
        /\ \A m \in j..k : m \in 1..Len(history)
    BY <1>1, <2>1, <2>2
  <2>4. PassRun(j, k)
    BY <1>1, <2>1, <2>3 DEF PassRun
  <2>5. i \in 1..Len(history)
    BY <1>1, <2>3
  <2> QED BY <2>1, <2>3, <2>4, <2>5 DEF Forgiven
<1>4. ASSUME NEW i PROVE i \in Pending' <=> i \in Pending \cup {Len(history) + 1}
  BY <1>1, <1>2, <1>3 DEF Pending
<1> QED BY <1>4

LEMMA HistoryInvInit == HistoryInit => HistoryInv
<1> SUFFICES ASSUME HistoryInit PROVE HistoryInv
  OBVIOUS
<1>1. history = <<>> /\ Len(history) = 0 /\ Pending = {}
  BY DEF HistoryInit, Pending
<1>2. Cardinality(Pending) = 0 /\ Saturated(0) = 0
  BY <1>1, FS_EmptySet, SaturatedCounts
<1>3. Streak(0)
  BY <1>1 DEF Streak, PassRun
<1>4. counters = Fresh /\ Fresh \in Counters
  BY ThresholdsAssumption DEF HistoryInit, Init, Fresh, Counters
<1> QED BY <1>1, <1>2, <1>3, <1>4 DEF HistoryInv, Fresh

LEMMA HistoryInvStep ==
  ASSUME ResetCount <= MaxCount
  PROVE  HistoryInv /\ [HistoryNext]_<<vars, history>> => HistoryInv'
<1> SUFFICES ASSUME HistoryInv, [HistoryNext]_<<vars, history>> PROVE HistoryInv'
  OBVIOUS
<1>0. /\ history \in Seq({"pass", "fail"}) /\ Len(history) \in Nat
      /\ counters \in Counters /\ Cardinality(Pending) \in Nat /\ IsFiniteSet(Pending)
      /\ counters.checked = Saturated(Len(history))
      /\ counters.failed = Saturated(Cardinality(Pending))
  BY PendingIsFinite DEF HistoryInv
<1>s. PICK s \in 0..Len(history) : Streak(s) /\ counters.success = Saturated(s)
  BY DEF HistoryInv
<1>1. CASE Remember(Pass, "pass")
  <2>1. /\ counters' = Passed(counters) /\ report' = Verdict(counters')
        /\ history' = Append(history, "pass")
    BY <1>1 DEF Remember, Pass
  <2>2. /\ history' \in Seq({"pass", "fail"}) /\ Len(history') = Len(history) + 1
        /\ history'[Len(history) + 1] = "pass"
        /\ \A i \in 1..Len(history) : history'[i] = history[i]
    BY <1>0, <2>1
  <2>3. counters' \in Counters
    BY <1>0, <2>1, CountersType
  <2>4. /\ counters'.checked = Saturated(Len(history) + 1)
        /\ counters'.success = Saturated(s + 1)
        /\ counters'.failed = IF s + 1 >= ResetCount THEN 0 ELSE counters.failed
    <3>1. Bump(counters.success) = Saturated(s + 1)
      BY <1>s, SaturatedCounts
    <3>2. Saturated(s + 1) >= ResetCount <=> s + 1 >= ResetCount
      BY SaturatedCompares, ThresholdsAssumption
    <3>3. Bump(counters.checked) = Saturated(Len(history) + 1)
      BY <1>0, SaturatedCounts
    <3> QED BY <2>1, <3>1, <3>2, <3>3 DEF Passed
  <2>5. counters'.failed = Saturated(Cardinality(Pending'))
    <3>1. CASE s + 1 >= ResetCount
      <4>1. Pending' = {}
        BY <1>0, <1>s, <2>1, <3>1, PassForgives
      <4>2. Cardinality(Pending') = 0 /\ Saturated(0) = 0
        BY <4>1, FS_EmptySet, SaturatedCounts
      <4> QED BY <2>4, <3>1, <4>2
    <3>2. CASE s + 1 < ResetCount
      <4>1. Pending' = Pending
        BY <1>0, <1>s, <2>1, <3>2, PassKeepsPending
      <4>2. ~(s + 1 >= ResetCount)
        BY <3>2, ThresholdsAssumption
      <4> QED BY <1>0, <2>4, <4>1, <4>2
    <3> QED BY <3>1, <3>2, ThresholdsAssumption
  <2>6. Streak(s + 1)' /\ s + 1 \in 0..Len(history')
    <3>1. /\ Len(history') - (s + 1) + 1 = Len(history) - s + 1
          /\ Len(history') - (s + 1) = Len(history) - s
          /\ s + 1 \in 0..Len(history') /\ s + 1 < Len(history') <=> s < Len(history)
      BY <1>0, <1>s, <2>2
    <3>2. ASSUME NEW m \in Len(history) - s + 1 .. Len(history') PROVE history'[m] = "pass"
      <4>1. CASE m = Len(history) + 1
        BY <2>2, <4>1
      <4>2. CASE m # Len(history) + 1
        <5>1. m \in Len(history) - s + 1 .. Len(history) /\ m \in 1..Len(history)
          BY <1>0, <1>s, <2>2, <4>2
        <5>2. history[m] = "pass"
          BY <1>s, <5>1 DEF Streak, PassRun
        <5> QED BY <2>2, <5>1, <5>2
      <4> QED BY <4>1, <4>2
    <3>3. s < Len(history) => history'[Len(history) - s] = "fail"
      <4> SUFFICES ASSUME s < Len(history) PROVE history'[Len(history) - s] = "fail"
        OBVIOUS
      <4>1. Len(history) - s \in 1..Len(history)
        BY <1>0
      <4> QED BY <1>s, <2>2, <4>1 DEF Streak
    <3> QED BY <3>1, <3>2, <3>3 DEF Streak, PassRun
  <2> QED BY <2>1, <2>2, <2>3, <2>4, <2>5, <2>6 DEF HistoryInv
<1>2. CASE Remember(Fail, "fail")
  <2>1. /\ counters' = Failing(counters) /\ report' = Verdict(counters')
        /\ history' = Append(history, "fail")
    BY <1>2 DEF Remember, Fail
  <2>2. /\ history' \in Seq({"pass", "fail"}) /\ Len(history') = Len(history) + 1
        /\ history'[Len(history) + 1] = "fail"
    BY <1>0, <2>1
  <2>3. counters' \in Counters
    BY <1>0, <2>1, CountersType
  <2>4. /\ counters'.checked = Saturated(Len(history) + 1)
        /\ counters'.success = Saturated(0)
        /\ counters'.failed = Saturated(Cardinality(Pending) + 1)
    BY <1>0, <2>1, SaturatedCounts DEF Failing
  <2>5. Cardinality(Pending') = Cardinality(Pending) + 1
    <3>1. Len(history) + 1 \notin Pending
      BY <1>0 DEF Pending
    <3> QED BY <1>0, <2>1, <3>1, FailAddsPending, FS_AddElement
  <2>6. Streak(0)' /\ 0 \in 0..Len(history')
    BY <1>0, <2>2 DEF Streak, PassRun
  <2> QED BY <2>1, <2>2, <2>3, <2>4, <2>5, <2>6 DEF HistoryInv
<1>3. CASE GiveUp /\ history' = <<>>
  <2>1. Len(history') = 0 /\ Pending' = {} /\ Cardinality(Pending') = 0 /\ Saturated(0) = 0
    BY <1>3, FS_EmptySet, SaturatedCounts DEF Pending
  <2>2. Streak(0)'
    BY <1>3, <2>1 DEF Streak, PassRun
  <2>3. counters' = Fresh /\ Fresh \in Counters
    BY <1>0, <1>3, CountersType DEF GiveUp
  <2> QED BY <1>3, <2>1, <2>2, <2>3 DEF HistoryInv, Fresh
<1>4. CASE UNCHANGED <<vars, history>>
  BY <1>4 DEF vars, HistoryInv, Pending, Forgiven, PassRun, Streak
<1> QED BY <1>1, <1>2, <1>3, <1>4 DEF HistoryNext

\* The reported state is the one the history of results calls for, of any
\* history, when the thresholds are within the range of the counters
\* (service.go:258-284, network.go:218-245).
THEOREM CheckerReportMatchesHistory ==
  ASSUME FailCount <= MaxCount, CheckCount <= MaxCount, ResetCount <= MaxCount
  PROVE  HistorySpec => []ReportMatchesHistory
<1>1. HistoryInv => ReportMatchesHistory
  <2> SUFFICES ASSUME HistoryInv, history # <<>> PROVE report = Expected
    BY DEF ReportMatchesHistory
  <2>1. /\ Len(history) \in Nat /\ Cardinality(Pending) \in Nat /\ IsFiniteSet(Pending)
        /\ counters.checked = Saturated(Len(history))
        /\ counters.failed = Saturated(Cardinality(Pending))
        /\ report = Verdict(counters)
    BY PendingIsFinite DEF HistoryInv
  <2>2. counters.checked < CheckCount <=> Len(history) < CheckCount
    <3>1. counters.checked \in Int
      BY <2>1, SaturatedCounts
    <3>2. counters.checked >= CheckCount <=> Len(history) >= CheckCount
      BY <2>1, SaturatedCompares, ThresholdsAssumption
    <3> QED BY <2>1, <3>1, <3>2, ThresholdsAssumption
  <2>3. counters.failed >= FailCount <=> Cardinality(Pending) >= FailCount
    BY <2>1, SaturatedCompares, ThresholdsAssumption
  <2>4. counters.failed = 0 <=> Pending = {}
    BY <2>1, SaturatedCounts, FS_EmptySet
  <2> QED BY <2>1, <2>2, <2>3, <2>4 DEF Verdict, Expected
<1> QED BY <1>1, HistoryInvInit, HistoryInvStep, PTL DEF HistorySpec
=============================================================================
