SPECIFICATION Spec
SYMMETRY Alike
CONSTANTS
  b1 = b1
  b2 = b2
  t1 = t1
  t2 = t2
  ann = ann
  bea = bea
  dotted = dotted
  dashed = dashed
  punctuation = punctuation
  NoUser = NoUser
  NoBrowser = NoBrowser
  NoName = NoName
  Browsers <- MCBrowsers
  Requests <- MCRequests
  Emails <- MCEmails
  Names <- MCNames
  SlugOf <- MCSlugOf
  NoSlug <- MCNoSlug
  Lifetime = 1
  MaxSession = 3
  MaxTime = 2
INVARIANTS
  OneAccountPerPage
  ServedAsProven
  IndInv
PROPERTIES
  LogoutHolds
