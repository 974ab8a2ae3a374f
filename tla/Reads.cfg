SPECIFICATION FairSpec
CONSTANTS
  c1 = c1
  c2 = c2
  Clicks <- MCClicks
  Links <- MCLinks
  LinkOf <- MCLinkOf
  Limits = {0, 2, 3}
  MaxLimit = 2
  DefaultLimit = 1
  TopLimit = 1
INVARIANTS
  IndInv
  PassOrdered
  PageFits
PROPERTIES
  PassComplete
  EventsSeen
