-------------------------- MODULE RelaymonHistory ---------------------------
(***************************************************************************)
(* The daemon together with a record of its changes of direction: which    *)
(* way it went last and how many rounds of checks were made since then.    *)
(* The record has no part in what the daemon does.                         *)
(***************************************************************************)
EXTENDS Relaymon

CONSTANT MaxRounds   \* bound: rounds are counted up to here

ASSUME HistoryAssumption == MaxRounds \in Nat

VARIABLES
  went,    \* the direction it went last: "up", "down", or "none" yet
  wasUp,   \* whether it has gone up, and no checker has lost its counters since
  rounds   \* rounds of checks completed since it last changed direction

historyVars == <<vars, went, wasUp, rounds>>

HistoryInit == Init /\ went = "none" /\ wasUp = FALSE /\ rounds = 0

\* A round ends with the daemon changing direction, or without.
Acts == pc = "decide" /\ pc' \in {"list", "command"}
Rests == pc = "decide" /\ pc' = "pause"

\* A checker gives up and starts afresh, or the whole daemon does.
Forgets == \E c \in Checkers : counters[c] # Fresh /\ counters'[c] = Fresh

HistoryNext ==
  /\ Next
  /\ went' = IF ~Acts THEN went ELSE IF step' = "error" THEN "down" ELSE "up"
  /\ wasUp' = (~Forgets /\ (wasUp \/ (Acts /\ went' = "up")))
  /\ rounds' = IF Acts THEN 0
               ELSE IF Rests /\ rounds < MaxRounds THEN rounds + 1 ELSE rounds

HistorySpec == HistoryInit /\ [][HistoryNext]_historyVars /\ Fairness

-----------------------------------------------------------------------------

\* Having gone up, the daemon goes down only after fail_count further rounds
\* of checks, the last one included, whichever checkers fail and in whichever
\* order: one bad round never takes the addresses away (main.go:298-303 over
\* service.go:275-278, network.go:239-242).
UpHolds ==
  [][Acts /\ went = "up" /\ step' = "error" => rounds + 1 >= FailCount]_historyVars

\* Having gone down after it was up, the daemon goes up again only after
\* reset_count rounds, however the failures of different checkers overlap, as
\* long as none of them has lost its counters since (main.go:323-325 over
\* service.go:266-268, network.go:226-228).
DownHolds ==
  [][Acts /\ went = "down" /\ wasUp /\ step' = "success"
       => rounds + 1 >= ResetCount]_historyVars
=============================================================================
