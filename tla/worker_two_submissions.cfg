SPECIFICATION Spec
CONSTANTS
  Submissions = {1, 2}
  Clients <- MCClients
  Checksums <- MCChecksums
  Sha <- SameFile
  Sender <- OneSender
  Readings <- FiledOrHeldForA
  Workers = {w1, w2}
  Lease = 3
  RetryDelay = 1
  StorageTimeout = 1
  MaxAttempts = 2
  MaxNames = 2
  MaxClock = 4
  MaxFaults = 1
SYMMETRY Symmetry
CHECK_DEADLOCK FALSE
INVARIANTS NoSharedFile PendingHasFile NothingLost
PROPERTIES LostForever ImplementsRecords
