SPECIFICATION ReadsSpec
CONSTANTS
  Items = {1, 2, 3}
  DocIds = {4, 5}
  Clients = {"A", "B"}
  Types <- MCTypes
  Dates = {10957, 10960}
  NoDate = NoDate
  None = "none"
  RequiredTypes <- MCRequired
  Rank <- MCRank
  At <- MCAt
  PendingItemsLimit = 2
  QueueQueries <- MCQueueQueries
  Beginnings <- MCBeginnings
  MaxChanges = 2
CHECK_DEADLOCK FALSE
INVARIANTS ShownHolds NothingOverlooked SameRule MostUrgentFirst
