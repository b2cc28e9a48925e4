SPECIFICATION Spec
CONSTANTS
  Submissions = {1}
  Clients <- MCClients
  Checksums <- MCChecksums
  Sha <- SameFile
  Sender <- OneSender
  Readings <- EitherClient
  Workers = {w1, w2}
  Lease = 3
  RetryDelay = 1
  StorageTimeout = 1
  MaxAttempts = 2
  MaxNames = 2
  MaxClock = 6
  MaxFaults = 2
SYMMETRY Symmetry
CHECK_DEADLOCK FALSE
INVARIANTS UniqueOwner OneDocumentPerSubmission DocumentHasFile
