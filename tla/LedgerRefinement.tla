--------------------------- MODULE LedgerRefinement ---------------------------
(***************************************************************************)
(* The program implements IdentityLedger: read a table up to its count,    *)
(* forget the counts, and what is committed changes by whole transactions. *)
(***************************************************************************)
EXTENDS PassKeyAuth

Entries(table, count, Entry(_)) == [n \in 1..count |-> Entry(table[n - 1])]

LedgerIdentity(id) ==
  [passkeys     |-> Entries(id.passkeys, id.passkey_count, LAMBDA p : p.pubkey),
   attestations |-> Entries(id.attestations, id.attestation_count,
                      LAMBDA a : [issuer |-> a.issuer, schema_id |-> a.schema_id])]

LedgerIssuer(issuer) ==
  [schema_id |-> issuer.schema_id, merkle_root |-> issuer.merkle_root]

\* What the ledger shows of an account is never taken for a missing one.
ASSUME ShownAssumption ==
  /\ NoAccount \notin
       [passkeys : Seq(Credential),
        attestations : Seq([issuer : Wallet \cup {DefaultPubkey}, schema_id : Schema])]
  /\ NoAccount \notin [schema_id : Schema, merkle_root : Digest]

Mapped(accounts, Account(_)) ==
  [w \in Wallet |-> IF accounts[w] = NoAccount THEN NoAccount ELSE Account(accounts[w])]

Ledger == INSTANCE IdentityLedger WITH
  ledger <- [identities |-> Mapped(committed.identities, LedgerIdentity),
             issuers    |-> Mapped(committed.issuers, LedgerIssuer),
             nullifiers |-> committed.nullifiers],
  submitted <- tx.ixs

\* Transactions are atomic and serial, and do to the accounts what their
\* instructions say, in order: the slots, the counts, the copies of accounts that
\* a failing instruction leaves half written and the rollback show nowhere.
ImplementsLedger == Ledger!Spec

===============================================================================
