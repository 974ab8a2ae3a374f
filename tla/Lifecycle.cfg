SPECIFICATION FairSpec
CONSTANTS
  c1 = c1
  c2 = c2
  c3 = c3
  NoCaller = NoCaller
  Callers <- MCCallers
  Tables = 2
  MaxKills = 2
INVARIANTS
  IndInv
  ServedReady
  
PROPERTIES
  
  NotWedged
  StopEnds
