SPECIFICATION Spec
CONSTANTS
  alice = alice
  bob = bob
  NoOwner = NoOwner
  Owners <- MCOwners
  Requests = {t1, t2}
  InitialTables <- Pair
  MaxId = 5
INVARIANTS
  AlwaysDense
