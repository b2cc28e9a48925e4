SPECIFICATION Spec
CONSTANTS
  Messages = {"n", "t", "v", "a"}
  Kind <- MCKind
  Requests = {"r1", "r2"}
  BatchOf <- AllKinds
  Processes = {"p1", "p2"}
  Paths = {"u1", "u2", "u3", "u4"}
  MaxEntries = 1
  MaxFaults = 2
CHECK_DEADLOCK FALSE
INVARIANTS AcknowledgedIsRecorded
PROPERTY NothingLeftBehind
