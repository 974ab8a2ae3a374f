SPECIFICATION FairSpec
CONSTANTS
  alice = alice
  bob = bob
  NoOwner = NoOwner
  Owners <- MCOwners
  Requests = {t1, t2}
  InitialTables <- Trio
  MaxId = 3
INVARIANTS
  DistinctPositions
PROPERTIES
  InstalledWhole
  OnlyOwnerChanges
  EveryRequestEnds
