SPECIFICATION Spec
CONSTANTS
  Clients <- MCClients
  Worlds <- MCWorlds
  OtherFilings <- SomeFilings
  OtherValue = "w"
CHECK_DEADLOCK FALSE
INVARIANTS TypeOK VerifiedIsReadable NothingWaitsUnnoticed
PROPERTIES FiledOnlyWithProof RecordKept
