------------------------------ MODULE PassKeyAuth ------------------------------
(***************************************************************************)
(* The on-chain program, programs/passkeyauth/src/{lib,state,passkey}.rs,  *)
(* run by a ledger that executes one transaction at a time.                *)
(*                                                                         *)
(* `identities`, `issuers` and `nullifiers` are the accounts as the        *)
(* transaction under way sees them, `committed` the accounts as they were  *)
(* when it began, `tx` the transaction itself.  A transaction is a         *)
(* sequence of instructions executed in order; the first that fails makes  *)
(* the runtime discard all that the transaction wrote.                     *)
(*                                                                         *)
(* A program-derived account is named by the wallet in its seeds, so that  *)
(* the identity account of wallet w is `w` where an instruction names an   *)
(* identity.  Labels, timestamps and PDA bumps decide nothing and are left *)
(* out.                                                                    *)
(***************************************************************************)
EXTENDS Merkle, FiniteSets

CONSTANTS
  Wallet,              \* keys that sign transactions
  Credential,          \* compressed P-256 public keys
  Message,             \* challenges signed by an authenticator
  Schema,              \* schema ids of issuers
  Digest,              \* leaves and nodes of the issuers' Merkle trees
  NullifierHash,       \* nullifiers claims may burn
  Transaction,         \* the transactions clients submit
  MAX_PASSKEYS,        \* capacity of an identity's passkey table
  MAX_ATTESTATIONS,    \* capacity of an identity's attestation table
  MAX_MERKLE_DEPTH,    \* longest membership proof accepted
  MAX_TX_INSTRUCTIONS, \* instructions verify_passkey looks at
  U8Max,               \* largest u8, the width of an identity's two counts
  U64Max,              \* largest u64, the width of an issuer's count
  ZeroKey,             \* [0u8; 33]
  ZeroSchema,          \* [0u8; 32]
  DefaultPubkey,       \* Pubkey::default()
  NoAccount            \* an account address that holds no account

PasskeySlot == 0..(MAX_PASSKEYS - 1)
AttestationSlot == 0..(MAX_ATTESTATIONS - 1)

PassKey == [pubkey : Credential, is_active : BOOLEAN]

Attestation ==
  [issuer : Wallet \cup {DefaultPubkey}, schema_id : Schema, is_active : BOOLEAN]

Identity ==
  [owner             : Wallet,
   passkey_count     : 0..U8Max,
   passkeys          : [PasskeySlot -> PassKey],
   attestation_count : 0..U8Max,
   attestations      : [AttestationSlot -> Attestation]]

Issuer ==
  [authority : Wallet, schema_id : Schema, merkle_root : Digest,
   attestation_count : 0..U64Max]

-------------------------------------------------------------------------------
(***************************************************************************)
(* Instructions.  `signer` is the account in the Signer position of the    *)
(* instruction's context, `identity` and `issuer` the accounts it names.   *)
(*                                                                         *)
(* One signature of a secp256r1 instruction: the key and the message at    *)
(* its offsets in the instruction's own data, whether its three instruction*)
(* indices say that this data is what is verified (`embedded`), and        *)
(* whether the precompile accepts what it does verify (`valid`).           *)
(***************************************************************************)
Signature ==
  [pubkey : Credential, message : Message, embedded : BOOLEAN, valid : BOOLEAN]

Instruction ==
  [op : {"create_identity"}, signer : Wallet]
  \cup [op : {"add_passkey"}, signer : Wallet, identity : Wallet,
        pubkey : Credential]
  \cup [op : {"verify_passkey"}, signer : Wallet, identity : Wallet,
        index : 0..U8Max]
  \cup [op : {"register_issuer"}, signer : Wallet, schema_id : Schema,
        merkle_root : Digest]
  \cup [op : {"update_root"}, signer : Wallet, issuer : Wallet,
        merkle_root : Digest]
  \cup [op : {"claim_attestation"}, signer : Wallet, identity : Wallet,
        issuer : Wallet, leaf : Digest, proof : Seq(Digest),
        index_bits : SUBSET (0..63), nullifier : NullifierHash]
  \cup [op : {"secp256r1"}, sigs : Seq(Signature)]

ASSUME TransactionAssumption == Transaction \subseteq Seq(Instruction)

ASSUME CapacityAssumption ==
  /\ U8Max \in Nat /\ U64Max \in Nat
  /\ MAX_PASSKEYS \in 0..U8Max /\ MAX_ATTESTATIONS \in 0..U8Max

ASSUME ZeroAssumption == ZeroKey \in Credential /\ ZeroSchema \in Schema

ASSUME AccountAssumption ==
  /\ IsFiniteSet(Wallet) /\ DefaultPubkey \notin Wallet
  /\ NoAccount \notin Identity /\ NoAccount \notin Issuer

keccak(message) == <<message>>

Event ==
  [event : {"IdentityCreated"}, identity : Wallet]
  \cup [event : {"PassKeyAdded"}, identity : Wallet, index : PasskeySlot]
  \cup [event : {"PassKeyVerified"}, identity : Wallet, index : PasskeySlot,
        message_hash : {keccak(m) : m \in Message}]
  \cup [event : {"IssuerRegistered"}, issuer : Wallet]
  \cup [event : {"RootUpdated"}, issuer : Wallet, merkle_root : Digest]
  \cup [event : {"AttestationClaimed"}, identity : Wallet, issuer : Wallet,
        schema_id : Schema]

-------------------------------------------------------------------------------
VARIABLES
  identities,  \* Identity accounts by owner
  issuers,     \* Issuer accounts by authority
  nullifiers,  \* the Nullifier accounts that exist, as <<issuer, hash>>
  committed,   \* the three above at the last transaction boundary
  tx           \* the transaction under way

vars == <<identities, issuers, nullifiers, committed, tx>>

View == [identities |-> identities, issuers |-> issuers, nullifiers |-> nullifiers]

Idle == [ixs |-> << >>, next |-> 1, status |-> "idle", log |-> << >>]

Init ==
  /\ identities = [w \in Wallet |-> NoAccount]
  /\ issuers = [w \in Wallet |-> NoAccount]
  /\ nullifiers = {}
  /\ committed = View
  /\ tx = Idle

Running == tx.status = "running"
Finished == tx.next > Len(tx.ixs)
Ix == tx.ixs[tx.next]
Runs(op) == Running /\ ~Finished /\ Ix.op = op

Return(event) == tx' = [tx EXCEPT !.next = @ + 1, !.log = Append(@, event)]
Error == tx' = [tx EXCEPT !.status = "failed"]

-------------------------------------------------------------------------------
(***************************************************************************)
(* The tables of an identity.                                              *)
(***************************************************************************)
\* Mutated: a full table offers its slots again.
EmptySlots_Evicting(table) ==
  LET empty == {s \in DOMAIN table : ~table[s].is_active}
  IN  IF empty = {} THEN DOMAIN table ELSE empty

EmptySlots(table) == {s \in DOMAIN table : ~table[s].is_active}
Full(table) == EmptySlots(table) = {}
\* Mutated: `rposition`, the last free slot.
free_slot_Last(table) == Max(EmptySlots(table))

free_slot(table) == Min(EmptySlots(table))

NewIdentity(owner) ==
  [owner             |-> owner,
   passkey_count     |-> 0,
   passkeys          |-> [s \in PasskeySlot |->
                            [pubkey |-> ZeroKey, is_active |-> FALSE]],
   attestation_count |-> 0,
   attestations      |-> [s \in AttestationSlot |->
                            [issuer |-> DefaultPubkey, schema_id |-> ZeroSchema,
                             is_active |-> FALSE]]]

WithPasskey(id, pubkey) ==
  [id EXCEPT !.passkeys[free_slot(id.passkeys)] =
               [pubkey |-> pubkey, is_active |-> TRUE],
             !.passkey_count = @ + 1]

WithAttestation(id, issuer, schema_id) ==
  [id EXCEPT !.attestations[free_slot(id.attestations)] =
               [issuer |-> issuer, schema_id |-> schema_id, is_active |-> TRUE],
             !.attestation_count = @ + 1]

\* Mutated: any existing identity, whoever signs.
OwnsIdentity_Unsigned(ix) == identities[ix.identity] # NoAccount

\* The seeds make the identity account the signer's own, and `has_one` compares
\* the owner it records.
OwnsIdentity(ix) ==
  /\ ix.identity = ix.signer
  /\ identities[ix.identity] # NoAccount
  /\ identities[ix.identity].owner = ix.signer

\* Mutated: any existing issuer, whoever signs.
OwnsIssuer_Unsigned(ix) == issuers[ix.issuer] # NoAccount

OwnsIssuer(ix) ==
  /\ ix.issuer = ix.signer
  /\ issuers[ix.issuer] # NoAccount
  /\ issuers[ix.issuer].authority = ix.signer

-------------------------------------------------------------------------------
\* Mutated: `init_if_needed`.
CreateIdentity_Reinit ==
  /\ Runs("create_identity")
  /\ identities' = [identities EXCEPT ![Ix.signer] = NewIdentity(Ix.signer)]
  /\ Return([event |-> "IdentityCreated", identity |-> Ix.signer])
  /\ UNCHANGED <<issuers, nullifiers, committed>>

CreateIdentity ==
  /\ Runs("create_identity")
  /\ \/ /\ identities[Ix.signer] = NoAccount
        /\ identities' = [identities EXCEPT ![Ix.signer] = NewIdentity(Ix.signer)]
        /\ Return([event |-> "IdentityCreated", identity |-> Ix.signer])
     \/ /\ identities[Ix.signer] # NoAccount
        /\ Error
        /\ UNCHANGED identities
  /\ UNCHANGED <<issuers, nullifiers, committed>>

CanAddPasskey(id) == ~Full(id.passkeys) /\ id.passkey_count < U8Max

AddPasskey ==
  /\ Runs("add_passkey")
  /\ \/ /\ OwnsIdentity(Ix)
        /\ CanAddPasskey(identities[Ix.identity])
        /\ identities' = [identities EXCEPT ![Ix.identity] = WithPasskey(@, Ix.pubkey)]
        /\ Return([event |-> "PassKeyAdded", identity |-> Ix.identity,
                   index |-> free_slot(identities[Ix.identity].passkeys)])
     \/ /\ ~(OwnsIdentity(Ix) /\ CanAddPasskey(identities[Ix.identity]))
        /\ Error
        /\ UNCHANGED identities
  /\ UNCHANGED <<issuers, nullifiers, committed>>

\* Mutated: the instruction indices are not looked at.
Extractable_AnyIndex(precompile) == precompile.sigs # << >>

\* extract_embedded returns something: there is a signature and its offsets are
\* self-referential.  What it returns is the key and message of the first one.
Extractable(precompile) == precompile.sigs # << >> /\ precompile.sigs[1].embedded

\* The positions verify_passkey scans and stops at.
PrecompilePositions ==
  {i \in 1..Len(tx.ixs) : i <= MAX_TX_INSTRUCTIONS /\ tx.ixs[i].op = "secp256r1"}

FirstPrecompile == tx.ixs[Min(PrecompilePositions)]

\* `passkeys.get(index).filter(is_active)`
HasPasskey(id, index) == index \in PasskeySlot /\ id.passkeys[index].is_active

PossessionConfirmed(id, index) ==
  /\ HasPasskey(id, index)
  /\ PrecompilePositions # {}
  /\ Extractable(FirstPrecompile)
  /\ FirstPrecompile.sigs[1].pubkey = id.passkeys[index].pubkey

VerifyPasskey ==
  /\ Runs("verify_passkey")
  /\ \/ /\ OwnsIdentity(Ix)
        /\ PossessionConfirmed(identities[Ix.identity], Ix.index)
        /\ Return([event |-> "PassKeyVerified", identity |-> Ix.identity,
                   index |-> Ix.index,
                   message_hash |-> keccak(FirstPrecompile.sigs[1].message)])
     \/ /\ ~(OwnsIdentity(Ix) /\ PossessionConfirmed(identities[Ix.identity], Ix.index))
        /\ Error
  /\ UNCHANGED <<identities, issuers, nullifiers, committed>>

-------------------------------------------------------------------------------
\* Mutated: `init_if_needed`.
RegisterIssuer_Reinit ==
  /\ Runs("register_issuer")
  /\ issuers' = [issuers EXCEPT ![Ix.signer] =
                   [authority |-> Ix.signer, schema_id |-> Ix.schema_id,
                    merkle_root |-> Ix.merkle_root, attestation_count |-> 0]]
  /\ Return([event |-> "IssuerRegistered", issuer |-> Ix.signer])
  /\ UNCHANGED <<identities, nullifiers, committed>>

RegisterIssuer ==
  /\ Runs("register_issuer")
  /\ \/ /\ issuers[Ix.signer] = NoAccount
        /\ issuers' = [issuers EXCEPT ![Ix.signer] =
                         [authority |-> Ix.signer, schema_id |-> Ix.schema_id,
                          merkle_root |-> Ix.merkle_root, attestation_count |-> 0]]
        /\ Return([event |-> "IssuerRegistered", issuer |-> Ix.signer])
     \/ /\ issuers[Ix.signer] # NoAccount
        /\ Error
        /\ UNCHANGED issuers
  /\ UNCHANGED <<identities, nullifiers, committed>>

UpdateRoot ==
  /\ Runs("update_root")
  /\ \/ /\ OwnsIssuer(Ix)
        /\ issuers' = [issuers EXCEPT ![Ix.issuer].merkle_root = Ix.merkle_root]
        /\ Return([event |-> "RootUpdated", issuer |-> Ix.issuer,
                   merkle_root |-> Ix.merkle_root])
     \/ /\ ~OwnsIssuer(Ix)
        /\ Error
        /\ UNCHANGED issuers
  /\ UNCHANGED <<identities, nullifiers, committed>>

\* Mutated: `init_if_needed` on the nullifier record.
ClaimAccountsValid_AnyNullifier(ix) ==
  OwnsIdentity(ix) /\ issuers[ix.issuer] # NoAccount

\* The account constraints of ClaimAttestation.  The last is the `init` of the
\* nullifier record, which fails for an account that exists.
ClaimAccountsValid(ix) ==
  /\ OwnsIdentity(ix)
  /\ issuers[ix.issuer] # NoAccount
  /\ <<ix.issuer, ix.nullifier>> \notin nullifiers

ProofAccepted(ix) ==
  /\ Len(ix.proof) <= MAX_MERKLE_DEPTH
  /\ verify(ix.leaf, ix.proof, ix.index_bits, issuers[ix.issuer].merkle_root)

\* Mutated: the issuer's count grows unchecked.
CanRecordClaim_Unchecked(id, issuer) ==
  ~Full(id.attestations) /\ id.attestation_count < U8Max

CanRecordClaim(id, issuer) ==
  /\ ~Full(id.attestations)
  /\ id.attestation_count < U8Max
  /\ issuer.attestation_count < U64Max

ClaimAllowed(ix) ==
  ProofAccepted(ix) /\ CanRecordClaim(identities[ix.identity], issuers[ix.issuer])

\* The nullifier account is created before the handler runs, and so exists when
\* the handler fails; the two counted accounts are only written back on success.
ClaimAttestation ==
  /\ Runs("claim_attestation")
  /\ \/ /\ ~ClaimAccountsValid(Ix)
        /\ Error
        /\ UNCHANGED <<identities, issuers, nullifiers>>
     \/ /\ ClaimAccountsValid(Ix)
        /\ ~ClaimAllowed(Ix)
        /\ nullifiers' = nullifiers \cup {<<Ix.issuer, Ix.nullifier>>}
        /\ Error
        /\ UNCHANGED <<identities, issuers>>
     \/ /\ ClaimAccountsValid(Ix)
        /\ ClaimAllowed(Ix)
        /\ nullifiers' = nullifiers \cup {<<Ix.issuer, Ix.nullifier>>}
        /\ identities' =
             [identities EXCEPT ![Ix.identity] =
                WithAttestation(@, Ix.issuer, issuers[Ix.issuer].schema_id)]
        /\ issuers' = [issuers EXCEPT ![Ix.issuer].attestation_count = @ + 1]
        /\ Return([event |-> "AttestationClaimed", identity |-> Ix.identity,
                   issuer |-> Ix.issuer,
                   schema_id |-> issuers[Ix.issuer].schema_id])
  /\ UNCHANGED committed

-------------------------------------------------------------------------------
(***************************************************************************)
(* The runtime around the program.                                         *)
(***************************************************************************)
Begin ==
  /\ tx.status = "idle"
  /\ \E ixs \in Transaction : tx' = [Idle EXCEPT !.ixs = ixs, !.status = "running"]
  /\ UNCHANGED <<identities, issuers, nullifiers, committed>>

PrecompileAccepts(precompile) ==
  /\ precompile.sigs # << >>
  /\ \A i \in 1..Len(precompile.sigs) : precompile.sigs[i].valid

Secp256r1 ==
  /\ Runs("secp256r1")
  /\ \/ PrecompileAccepts(Ix) /\ tx' = [tx EXCEPT !.next = @ + 1]
     \/ ~PrecompileAccepts(Ix) /\ Error
  /\ UNCHANGED <<identities, issuers, nullifiers, committed>>

\* The compute budget may run out before any instruction.
OutOfBudget ==
  /\ Running /\ ~Finished
  /\ Error
  /\ UNCHANGED <<identities, issuers, nullifiers, committed>>

Commit ==
  /\ Running /\ Finished
  /\ committed' = View
  /\ tx' = Idle
  /\ UNCHANGED <<identities, issuers, nullifiers>>

Rollback ==
  /\ tx.status = "failed"
  /\ identities' = committed.identities
  /\ issuers' = committed.issuers
  /\ nullifiers' = committed.nullifiers
  /\ tx' = Idle
  /\ UNCHANGED committed

Next ==
  \/ Begin
  \/ CreateIdentity \/ AddPasskey \/ VerifyPasskey
  \/ RegisterIssuer \/ UpdateRoot \/ ClaimAttestation
  \/ Secp256r1 \/ OutOfBudget
  \/ Commit \/ Rollback

Spec == Init /\ [][Next]_vars

-------------------------------------------------------------------------------
(***************************************************************************)
(* Properties.                                                             *)
(***************************************************************************)
ViewType ==
  [identities : [Wallet -> Identity \cup {NoAccount}],
   issuers    : [Wallet -> Issuer \cup {NoAccount}],
   nullifiers : SUBSET (Wallet \X NullifierHash)]

TxTypeOK ==
  /\ tx \in [ixs : Transaction \cup {<< >>}, next : Nat \ {0},
             status : {"idle", "running", "failed"}, log : Seq(Event)]
  /\ tx.next <= Len(tx.ixs) + 1

\* Every account has the layout of state.rs, its counts within their widths.
TypeOK == View \in ViewType /\ committed \in ViewType /\ TxTypeOK

IsCompact(table, count) ==
  \A s \in DOMAIN table : table[s].is_active <=> s < count

CompactIdentity(id) ==
  /\ IsCompact(id.passkeys, id.passkey_count)
  /\ id.passkey_count <= MAX_PASSKEYS
  /\ IsCompact(id.attestations, id.attestation_count)
  /\ id.attestation_count <= MAX_ATTESTATIONS

CompactTables(accounts) ==
  \A w \in Wallet : accounts[w] # NoAccount => CompactIdentity(accounts[w])

\* A table's live entries are its first ones, and its count is their number,
\* through every sequence of adds, claims and rollbacks: "number of live
\* entries" (state.rs), and what makes `position` append.
TablesCompact == CompactTables(identities) /\ CompactTables(committed.identities)

\* The attestations that name `issuer`, as <<owner, slot>>, and the nullifiers
\* spent against it, in a view of the accounts.
Claims(view, issuer) ==
  {c \in Wallet \X AttestationSlot :
     /\ view.identities[c[1]] # NoAccount
     /\ view.identities[c[1]].attestations[c[2]].is_active
     /\ view.identities[c[1]].attestations[c[2]].issuer = issuer}

Burned(view, issuer) == {n \in view.nullifiers : n[1] = issuer}

Balanced(view) ==
  \A i \in Wallet :
    LET count == IF view.issuers[i] = NoAccount
                 THEN 0 ELSE view.issuers[i].attestation_count
    IN  Cardinality(Claims(view, i)) = count /\ Cardinality(Burned(view, i)) = count

\* Three accounts of one claim agree at every boundary: an issuer's count is the
\* number of attestations recorded against it and of nullifiers burned for it.
\* A claim that fails after its nullifier was created leaves no trace.
LedgerBalanced == Balanced(committed) /\ (tx.status # "failed" => Balanced(View))

SchemasAgree(view) ==
  \A w \in Wallet, s \in AttestationSlot :
    LET id == view.identities[w]
        a == id.attestations[s]
    IN  (id # NoAccount /\ a.is_active) =>
          /\ a.issuer \in Wallet
          /\ view.issuers[a.issuer] # NoAccount
          /\ a.schema_id = view.issuers[a.issuer].schema_id

\* An attestation asserts the schema of an issuer that still exists, whatever
\* was registered or updated since the claim.
AttestationsKeepSchema == SchemasAgree(View) /\ SchemasAgree(committed)

Logged(e) == \E n \in 1..Len(tx.log) : tx.log[n] = e

\* When the transaction is about to commit, each PassKeyVerified event it logged
\* names a live credential of a wallet that signed, and the precompile accepted a
\* signature by that very key over the message whose hash is logged, wherever in
\* the transaction the precompile stands.
VerifiedMeansPossession ==
  (Running /\ Finished) =>
    \A n \in 1..Len(tx.log) : tx.log[n].event = "PassKeyVerified" =>
      LET e == tx.log[n]
          key == identities[e.identity].passkeys[e.index]
      IN  /\ key.is_active
          /\ \E i \in 1..Len(tx.ixs) :
               /\ tx.ixs[i].op = "secp256r1"
               /\ \E j \in 1..Len(tx.ixs[i].sigs) :
                    LET sig == tx.ixs[i].sigs[j]
                    IN  /\ sig.embedded /\ sig.valid
                        /\ sig.pubkey = key.pubkey
                        /\ keccak(sig.message) = e.message_hash
          /\ \E i \in 1..Len(tx.ixs) :
               tx.ixs[i].op # "secp256r1" /\ tx.ixs[i].signer = e.identity

HadPasskey(view, w, s) ==
  view.identities[w] # NoAccount /\ view.identities[w].passkeys[s].is_active

ClaimCount(view, i) ==
  IF view.issuers[i] = NoAccount THEN 0 ELSE view.issuers[i].attestation_count

CreationsLogged ==
  \A w \in Wallet :
    (committed.identities[w] = NoAccount /\ identities[w] # NoAccount)
      <=> Logged([event |-> "IdentityCreated", identity |-> w])

PasskeysLogged ==
  \A w \in Wallet, s \in PasskeySlot :
    (HadPasskey(View, w, s) /\ ~HadPasskey(committed, w, s))
      <=> Logged([event |-> "PassKeyAdded", identity |-> w, index |-> s])

ClaimsLogged ==
  \A i \in Wallet :
    ClaimCount(View, i) - ClaimCount(committed, i)
      = Cardinality({n \in 1..Len(tx.log) :
                       tx.log[n].event = "AttestationClaimed" /\ tx.log[n].issuer = i})

\* The last root logged of an issuer is its root; one without has its old root.
RootsLogged ==
  \A i \in Wallet :
    LET updates == {n \in 1..Len(tx.log) :
                      tx.log[n].event = "RootUpdated" /\ tx.log[n].issuer = i}
    IN  /\ \A n \in updates : (\A m \in updates : m <= n) =>
             tx.log[n].merkle_root = issuers[i].merkle_root
        /\ (updates = {} /\ committed.issuers[i] # NoAccount) =>
             issuers[i].merkle_root = committed.issuers[i].merkle_root

\* What a transaction logs is what it changed: an indexer that replays the
\* events knows every identity, credential, root and count of the ledger.
EventsAccountForLedger ==
  Running => CreationsLogged /\ PasskeysLogged /\ ClaimsLogged /\ RootsLogged

KeepsIdentity(old, new) ==
  old # NoAccount =>
    /\ new # NoAccount
    /\ new.owner = old.owner
    /\ \A s \in PasskeySlot :
         old.passkeys[s].is_active => new.passkeys[s] = old.passkeys[s]
    /\ \A s \in AttestationSlot :
         old.attestations[s].is_active => new.attestations[s] = old.attestations[s]

KeepsIssuer(old, new) ==
  old # NoAccount =>
    /\ new # NoAccount
    /\ new.authority = old.authority /\ new.schema_id = old.schema_id
    /\ new.attestation_count >= old.attestation_count

Keeps(old, new) ==
  /\ \A w \in Wallet : KeepsIdentity(old.identities[w], new.identities[w])
  /\ \A i \in Wallet : KeepsIssuer(old.issuers[i], new.issuers[i])
  /\ old.nullifiers \subseteq new.nullifiers

\* The ledger only grows: no transaction, committed or rolled back, removes or
\* rewrites a credential, an attestation, an issuer's schema or a nullifier.
AppendOnly == [][Keeps(committed, committed')]_committed

Signers == {tx.ixs[i].signer : i \in {j \in 1..Len(tx.ixs) : tx.ixs[j].op # "secp256r1"}}

\* Only its owner's signature changes an identity, and only its authority's an
\* issuer, its count excepted, which any claimer raises.
OnlyOwnersWrite ==
  [][/\ \A w \in Wallet :
          committed'.identities[w] # committed.identities[w] => w \in Signers
     /\ \A i \in Wallet :
          \/ committed'.issuers[i] = committed.issuers[i]
          \/ i \in Signers
          \/ /\ committed.issuers[i] # NoAccount
             /\ committed'.issuers[i] =
                  [committed.issuers[i] EXCEPT
                     !.attestation_count = committed'.issuers[i].attestation_count]
    ]_committed

===============================================================================
