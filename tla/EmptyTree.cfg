SPECIFICATION Spec
CONSTANTS
  d1 = d1
  i1 = i1
  i2 = i2
  a = a
  b = b
  c1 = c1
  c2 = c2
  ZeroDigest = ZeroDigest
  WordBits = 64
  IdentityKey = {d1}
  IssuerKey = {i1, i2}
  SourceIssuer = {i1}
  LeafSet <- AnyLeafSet
  Caller = {c1}
  Call <- EmptyTreeCalls
  MaxCalls = 3
  MaxClaims = 0
  MaxFailures = 0
  Poller = Poller
  Missing = Missing
INVARIANT NoPanic
