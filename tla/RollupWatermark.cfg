SPECIFICATION Spec
CONSTANTS
  c1 = c1
  c2 = c2
  c3 = c3
  alice = alice
  bob = bob
  w1 = w1
  w2 = w2
  home = home
  cafe = cafe
  Workers = {w1}
  Clicks = {c1, c2}
  Links <- MCLinks
  LinkOf <- MCLinkOf
  VisitorOf <- MCVisitorOf
  OwnerOf <- MCOwnerOf
  HoursPerDay = 1
  Retention = 9
  MaxHour = 2
INVARIANTS
  WatermarkCovers
