SPECIFICATION Spec
CONSTANTS
  Statements <- SomeStatements
  Required = {"b"}
  Hosts <- SomeHosts
  WithPort <- SomePorts
  MaxStatements = 3
INVARIANTS ClustersAsWritten BeginsAsWritten
CHECK_DEADLOCK FALSE
