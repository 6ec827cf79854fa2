SPECIFICATION Spec
CONSTANTS
  Radix = 7
  P256_PUBKEY_LEN = 2
  SIGNATURE_LEN = 2
  Signatures <- MCSignatures
  Other <- MCOther
  MaxEdits = 2
  None = None
INVARIANTS
  ParsersAgree
  EmbeddedExtracts
CHECK_DEADLOCK FALSE
