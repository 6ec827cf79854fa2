----------------------------- MODULE MCPassKeyAuth -----------------------------
(***************************************************************************)
(* PassKeyAuth on a small instance: two wallets, each of which may own an  *)
(* identity and an issuer, two credentials, tables of two entries, an      *)
(* issuer count that overflows at three, and transactions chosen so that   *)
(* each handler meets every one of its outcomes, alone and after other     *)
(* instructions of its transaction.                                        *)
(***************************************************************************)
EXTENDS LedgerRefinement

CONSTANTS w1, w2, k1, k2, s1, s2, m1, m2, la, lb, n1, n2, n3, n4

\* Trees over the leaves la and lb, and one that is deeper than MAX_MERKLE_DEPTH.
RootAB == hash_pair(la, lb)
RootBA == hash_pair(lb, la)
DeepRoot == hash_pair(RootAB, lb)

MCDigest == {la, lb, RootAB, RootBA, DeepRoot}

Create(w) == [op |-> "create_identity", signer |-> w]
Add(signer, w, k) ==
  [op |-> "add_passkey", signer |-> signer, identity |-> w, pubkey |-> k]
Verify(signer, w, index) ==
  [op |-> "verify_passkey", signer |-> signer, identity |-> w, index |-> index]
Register(w, schema, root) ==
  [op |-> "register_issuer", signer |-> w, schema_id |-> schema, merkle_root |-> root]
Update(signer, i, root) ==
  [op |-> "update_root", signer |-> signer, issuer |-> i, merkle_root |-> root]
Secp(sigs) == [op |-> "secp256r1", sigs |-> sigs]
Sig(k, m) == [pubkey |-> k, message |-> m, embedded |-> TRUE, valid |-> TRUE]
Signed(k) == Secp(<<Sig(k, m1)>>)

ClaimWith(signer, w, i, n, path, bits) ==
  [op |-> "claim_attestation", signer |-> signer, identity |-> w, issuer |-> i,
   leaf |-> la, proof |-> path, index_bits |-> bits, nullifier |-> n]

\* A claim that RootAB accepts.
Claim(w, i, n) == ClaimWith(w, w, i, n, <<lb>>, {})

IdentityTransactions ==
  { << Create(w1) >>,
    << Create(w2), Add(w2, w2, k1) >>,
    << Create(w1), Add(w1, w1, k1), Add(w1, w1, k2), Add(w1, w1, k1) >>,
    << Add(w1, w1, k1) >>,
    << Add(w1, w1, k2) >>,
    << Add(w2, w1, k2) >> }

VerifyTransactions ==
  { << Signed(k1), Verify(w1, w1, 0) >>,
    << Verify(w1, w1, 0), Signed(k1) >>,
    << Verify(w1, w1, 0), Secp(<<[Sig(k1, m1) EXCEPT !.valid = FALSE]>>) >>,
    << Secp(<<[Sig(k1, m1) EXCEPT !.embedded = FALSE]>>), Verify(w1, w1, 0) >>,
    << Secp(<<Sig(k1, m1), Sig(k2, m2)>>), Verify(w1, w1, 1) >>,
    << Signed(k1), Signed(k2), Verify(w1, w1, 1) >>,
    << Add(w1, w1, k2), Verify(w1, w1, 1), Signed(k2) >>,
    << Verify(w1, w1, 0), Verify(w2, w2, 0), Secp(<<Sig(k1, m2)>>) >>,
    << Verify(w1, w1, 0), Update(w2, w2, RootAB), Update(w2, w2, RootBA), Signed(k1) >>,
    << Verify(w1, w1, 0) >>,
    << Verify(w1, w1, 2), Signed(k1) >>,
    << Verify(w2, w1, 0), Signed(k1) >>,
    << Verify(w1, w1, 0), Secp(<< >>) >> }

IssuerTransactions ==
  { << Register(w1, s1, RootAB) >>,
    << Register(w2, s2, RootAB), Create(w2), Claim(w2, w2, n1) >>,
    << Register(w2, s1, RootBA) >>,
    << Update(w2, w2, RootAB) >>,
    << Update(w2, w2, RootBA) >>,
    << Update(w2, w2, DeepRoot) >>,
    << Update(w1, w2, RootBA) >> }

ClaimTransactions ==
  { << Claim(w, w2, n) >> : w \in {w1, w2}, n \in {n1, n2, n3, n4} }
  \cup
  { << Claim(w1, w1, n1) >>,
    << Claim(w1, w2, n1), Claim(w1, w2, n2), Claim(w1, w2, n3) >>,
    << Claim(w1, w2, n3), Claim(w2, w2, n3) >>,
    << Claim(w1, w1, n2), Claim(w1, w2, n2) >>,
    << ClaimWith(w2, w1, w2, n1, <<lb>>, {}) >>,
    << ClaimWith(w1, w1, w2, n1, <<lb>>, {0}) >>,
    << ClaimWith(w1, w1, w2, n1, <<lb, lb>>, {}) >> }

MCTransaction ==
  IdentityTransactions \cup VerifyTransactions \cup IssuerTransactions
    \cup ClaimTransactions

===============================================================================
