SPECIFICATION Spec
CONSTANTS
  w1 = w1
  w2 = w2
  k1 = k1
  k2 = k2
  s1 = s1
  s2 = s2
  m1 = m1
  m2 = m2
  la = la
  lb = lb
  n1 = n1
  n2 = n2
  n3 = n3
  n4 = n4
  ZeroKey = ZeroKey
  ZeroSchema = ZeroSchema
  DefaultPubkey = DefaultPubkey
  NoAccount = NoAccount
  Wallet = {w1, w2}
  Credential = {ZeroKey, k1, k2}
  Message = {m1, m2}
  Schema = {ZeroSchema, s1, s2}
  NullifierHash = {n1, n2, n3, n4}
  Digest <- MCDigest
  Transaction <- MCTransaction
  MAX_PASSKEYS = 2
  MAX_ATTESTATIONS = 2
  MAX_MERKLE_DEPTH = 1
  MAX_TX_INSTRUCTIONS = 3
  U8Max = 255
  U64Max = 3
INVARIANTS
  TypeOK
  TablesCompact
  LedgerBalanced
  AttestationsKeepSchema
  VerifiedMeansPossession
  
PROPERTIES
  AppendOnly
  OnlyOwnersWrite
  
