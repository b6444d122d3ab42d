SPECIFICATION FairSpec
CONSTANTS
  Handler = {h1, h2, h3}
  Key = {k1, k2}
  Capacity = 1
  MaxRequests = 3
  None = None
  o1 = o1
  o2 = o2
  good = good
  bad = bad
  Order <- MCOneOrder
  Token <- MCToken
  DeclinedToken <- MCDeclined
  Body <- MCOneBody
INVARIANTS
  StoreBounded
  RecordsAreEvictable
PROPERTY InProgressResolves
