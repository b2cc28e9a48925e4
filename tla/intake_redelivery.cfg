SPECIFICATION FairSpec
CONSTANTS
  Messages = {"a", "b"}
  Kind <- MCKind
  Requests = {"r1", "r2"}
  BatchOf <- TwoFiles
  Processes = {"p1", "p2"}
  Paths = {"u1", "u2", "u3", "u4", "u5"}
  MaxEntries = 2
  MaxFaults = 1
CHECK_DEADLOCK FALSE
INVARIANT OneAtATime
PROPERTY Delivered
