SPECIFICATION Spec
CONSTANTS
  Statements <- SomeStatements
  Required = {"b"}
  Hosts <- SomeHosts
  WithPort <- SomePorts
  MaxStatements = 3
INVARIANT RequiredIsChecked
CHECK_DEADLOCK FALSE
