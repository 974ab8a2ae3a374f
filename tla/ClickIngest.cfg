SPECIFICATION FairSpec
CONSTANTS
  l1 = l1
  l2 = l2
  c1 = c1
  c2 = c2
  c3 = c3
  k1 = k1
  visitor = visitor
  NoKey = NoKey
  NoClick = NoClick
  Links <- MCLinks
  Clicks <- MCClicks
  LinkOf <- MCLinkOf
  VisitorOf <- MCVisitorOf
  ClientKey <- MCClientKey
  r1 = r1
  r2 = r2
  Requests <- MCRequests
  Retention = 0
  MaxMinute = 1
  MaxId = 2
INVARIANTS
  OneRowPerKey
  CounterMatchesHistory
  
  IngestedMetricBacked
  IndInv
PROPERTIES
  AppendOnly
  ImplementsLedger
  EveryRequestEnds
