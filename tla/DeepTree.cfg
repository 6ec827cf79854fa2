SPECIFICATION Spec
CONSTANTS
  c1 = c1
  ZeroDigest = ZeroDigest
  Commitment <- MCCommitment
  WordBits = 64
  MaxLeaves = 6
  MaxForgedLeaves = 6
  MAX_MERKLE_DEPTH = 2
INVARIANT MirrorIsOnChainAccurate
CHECK_DEADLOCK FALSE
