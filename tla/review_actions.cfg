CONSTANTS
  Admins = {adm1, adm2}
  Items = {"t1", "t2"}
  DocIds = {d1, d2, d3}
  Clients = {"A", "B"}
  Types <- MCTypes
  FolderTypes <- MCFolderTypes
  Contents = {"sha1", "sha2", "sha3"}
  Sha <- MCSha
  Beginnings <- MCBeginnings
  MaxNames = 3
  MaxRequests = 3
  MaxFaults = 1
SPECIFICATION Spec
SYMMETRY Symmetry
CHECK_DEADLOCK FALSE
INVARIANTS DocumentHasFile WaitingHasFile NoDeadlock
PROPERTIES OneVerifiedPerType ImplementsRecords
