SPECIFICATION Spec
CONSTANTS
  MaxTokens = 2
  MaxEnded = 1
  MaxLeaving = 1
  Items = {"i1", "i2"}
  Contested = {"i1"}
  Docs = {"d1"}
  Beginnings <- MCBeginnings
  MaxDecisions = 1
CHECK_DEADLOCK FALSE
INVARIANTS OneSession SaidIsDone SyncReport NothingSpins
