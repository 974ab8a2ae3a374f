SPECIFICATION AloneSpec
CONSTANTS
  alice = alice
  bob = bob
  NoOwner = NoOwner
  Owners <- MCOwners
  Requests = {t1, t2}
  InitialTables <- Legacy
  MaxId = 4
INVARIANTS
  AloneInv
PROPERTIES
  MoveShiftsOne
  ImplementsOrder
