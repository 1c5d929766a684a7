-------------------------- MODULE MCNetworkChecker --------------------------
(* Values of the constants of NetworkHistory.tla for TLC. *)
EXTENDS NetworkHistory

PairAndSingles == <<2, 1, 1>>
=============================================================================
