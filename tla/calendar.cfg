SPECIFICATION Spec
CONSTANTS
  Instants <- MCInstants
  Days <- MCDays
  MaxReceived = 2
CHECK_DEADLOCK FALSE
INVARIANTS EachInOneReport CountdownRuns
