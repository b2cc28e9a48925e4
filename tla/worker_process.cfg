SPECIFICATION FairSpec
CONSTANTS
  Callers = {"l1", "l2"}
  MaxConcurrent = 1
  Rooms <- MCRooms
  Submissions = {1}
  Backlog = {}
  MaxAttempts = 3
  MaxRuns = 2
  MaxFaults = 1
CHECK_DEADLOCK FALSE
INVARIANTS Slots HandedBack
PROPERTIES Processed Exits
