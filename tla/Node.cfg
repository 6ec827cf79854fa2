SPECIFICATION NodeSpec
CONSTANTS
  d1 = d1
  i1 = i1
  i2 = i2
  a = a
  b = b
  c1 = c1
  c2 = c2
  s1 = s1
  Subscriber = {s1}
  capacity = 2
  ZeroDigest = ZeroDigest
  WordBits = 64
  IdentityKey = {d1}
  IssuerKey = {i1, i2}
  SourceIssuer = {i1}
  LeafSet <- SmallLeafSet
  Caller = {c1, c2}
  Call <- NodeCalls
  MaxCalls = 3
  MaxClaims = 1
  MaxFailures = 1
  Poller = Poller
  Missing = Missing
INVARIANTS
  TreeMatchesRoot
  CountsCoverClaims
  FeedCatchesUp
