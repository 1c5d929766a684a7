------------------------------ MODULE MCSystem ------------------------------
(* Values of the constants of SystemHistory.tla that a configuration cannot name. *)
EXTENDS SystemHistory

CONSTANT ip1   \* an address

OneIP == <<ip1>>
=============================================================================
