SPECIFICATION Spec
SYMMETRY Alike
CONSTANTS
  l1 = l1
  t1 = t1
  t2 = t2
  x1 = x1
  x2 = x2
  Profile = Profile
  Gone = Gone
  NoFlash = NoFlash
  NoList = NoList
  Tabs <- MCTabs
  Links <- MCLinks
  Texts <- MCTexts
  MaxMessages = 2
  MaxTime = 1
INVARIANT
  MissingMeansGone
