---------------------------- MODULE IdentityLedger ----------------------------
(***************************************************************************)
(* What the program promises its users: a ledger of identities, issuers and*)
(* spent nullifiers that whole transactions change, one after the other or *)
(* not at all.  Tables are sequences without slots to manage, and there are*)
(* no counts: a count is the length of what it counts.                     *)
(***************************************************************************)
EXTENDS Merkle, FiniteSets

CONSTANTS
  Wallet, Transaction, MAX_PASSKEYS, MAX_ATTESTATIONS, MAX_MERKLE_DEPTH,
  U64Max, NoAccount

VARIABLES
  ledger,
  submitted  \* the transaction under way

Init ==
  /\ ledger = [identities |-> [w \in Wallet |-> NoAccount],
               issuers    |-> [w \in Wallet |-> NoAccount],
               nullifiers |-> {}]
  /\ submitted = << >>

Owns(accounts, account, ix) == account = ix.signer /\ accounts[account] # NoAccount

\* The transaction proves the credential `key`: a precompile instruction of it
\* verifies a signature of that key.
Proves(ixs, key) ==
  \E i \in DOMAIN ixs : ixs[i].op = "secp256r1" /\
    \E j \in DOMAIN ixs[i].sigs :
      ixs[i].sigs[j].pubkey = key /\ ixs[i].sigs[j].embedded /\ ixs[i].sigs[j].valid

ClaimsOf(l, issuer) == Cardinality({n \in l.nullifiers : n[1] = issuer})

Allowed(l, ixs, ix) ==
  \/ ix.op = "create_identity" /\ l.identities[ix.signer] = NoAccount
  \/ /\ ix.op = "add_passkey" /\ Owns(l.identities, ix.identity, ix)
     /\ Len(l.identities[ix.identity].passkeys) < MAX_PASSKEYS
  \/ /\ ix.op = "verify_passkey" /\ Owns(l.identities, ix.identity, ix)
     /\ ix.index < Len(l.identities[ix.identity].passkeys)
     /\ Proves(ixs, l.identities[ix.identity].passkeys[ix.index + 1])
  \/ ix.op = "register_issuer" /\ l.issuers[ix.signer] = NoAccount
  \/ ix.op = "update_root" /\ Owns(l.issuers, ix.issuer, ix)
  \/ /\ ix.op = "claim_attestation" /\ Owns(l.identities, ix.identity, ix)
     /\ Len(l.identities[ix.identity].attestations) < MAX_ATTESTATIONS
     /\ l.issuers[ix.issuer] # NoAccount
     /\ Len(ix.proof) <= MAX_MERKLE_DEPTH
     /\ verify(ix.leaf, ix.proof, ix.index_bits, l.issuers[ix.issuer].merkle_root)
     /\ <<ix.issuer, ix.nullifier>> \notin l.nullifiers
     /\ ClaimsOf(l, ix.issuer) < U64Max
  \/ ix.op = "secp256r1" /\ ix.sigs # << >> /\ \A j \in DOMAIN ix.sigs : ix.sigs[j].valid

Effect(l, ix) ==
  CASE ix.op = "create_identity" ->
         [l EXCEPT !.identities[ix.signer] = [passkeys |-> << >>, attestations |-> << >>]]
    [] ix.op = "add_passkey" ->
         [l EXCEPT !.identities[ix.identity].passkeys = Append(@, ix.pubkey)]
    [] ix.op = "register_issuer" ->
         [l EXCEPT !.issuers[ix.signer] =
            [schema_id |-> ix.schema_id, merkle_root |-> ix.merkle_root]]
    [] ix.op = "update_root" ->
         [l EXCEPT !.issuers[ix.issuer].merkle_root = ix.merkle_root]
    [] ix.op = "claim_attestation" ->
         [l EXCEPT !.nullifiers = @ \cup {<<ix.issuer, ix.nullifier>>},
                   !.identities[ix.identity].attestations =
                      Append(@, [issuer    |-> ix.issuer,
                                 schema_id |-> l.issuers[ix.issuer].schema_id])]
    [] OTHER -> l

\* The ledger after each number of the transaction's instructions, in order.
Course(l, ixs) ==
  LET state[n \in 0..Len(ixs)] == IF n = 0 THEN l ELSE Effect(state[n - 1], ixs[n])
  IN  state

Submit == submitted = << >> /\ submitted' \in Transaction /\ UNCHANGED ledger

Commit ==
  LET state == Course(ledger, submitted)
  IN  /\ \A n \in DOMAIN submitted : Allowed(state[n - 1], submitted, submitted[n])
      /\ ledger' = state[Len(submitted)]
      /\ submitted' = << >>

Discard == submitted' = << >> /\ UNCHANGED ledger

Next == Submit \/ Commit \/ Discard

Spec == Init /\ [][Next]_<<ledger, submitted>>

===============================================================================
