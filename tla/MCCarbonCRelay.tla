--------------------------- MODULE MCCarbonCRelay ---------------------------
(* Values of the constants of CarbonCRelay.tla for TLC. *)
EXTENDS CarbonCRelay

SomeStatements == {
  <<"cluster", "a", "any_of", "h1", "h2:2005", "proto", "tcp">>,
  <<"cluster", "b", "carbon_ch", "replication", "2", "h3">>,
  <<"cluster", "b", "lb", "h1", "proto", "udp", "h3">>,
  <<"cluster", "default", "file", "/tmp/relay.out">>,
  <<"match", "*", "send", "to", "a", "stop">>}

SomeHosts == {"h1", "h2:2005", "h3"}
SomePorts == [w \in {"h2:2005"} |-> [host |-> "h2", port |-> 2005]]
=============================================================================
