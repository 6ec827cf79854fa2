--------------------------- MODULE PassKeyAuthProofs ---------------------------
(***************************************************************************)
(* Proofs about PassKeyAuth, for every set of wallets and of transactions  *)
(* and every capacity: types, the tables of an identity, the counts of     *)
(* issuers, attestations and nullifiers against each other, and what the   *)
(* ledger becomes over time: nothing recorded is lost, only owners write,  *)
(* attestations keep the schema of their issuer, a verified passkey was    *)
(* proven, and the events of transactions account for the accounts.        *)
(***************************************************************************)
EXTENDS PassKeyAuth, FiniteSetTheorems, WellFoundedInduction, TLAPS

-------------------------------------------------------------------------------
(***************************************************************************)
(* The tables of an identity.                                              *)
(***************************************************************************)

\* In a compact table the first free slot, if any, is the one its count names.
LEMMA FreeSlotIsCount ==
  ASSUME NEW N \in Nat, NEW table, DOMAIN table = 0..(N - 1),
         NEW count \in Nat, IsCompact(table, count), ~Full(table)
  PROVE  count \in 0..(N - 1) /\ free_slot(table) = count
<1>1. EmptySlots(table) = {s \in 0..(N - 1) : s >= count}
  BY DEF EmptySlots, IsCompact
<1>2. count \in EmptySlots(table)
  BY <1>1 DEF Full
<1>3. \A s \in EmptySlots(table) : count <= s
  BY <1>1
<1>4. \A s \in EmptySlots(table) :
        (\A t \in EmptySlots(table) : s <= t) => s = count
  BY <1>1, <1>2, <1>3
<1> QED
  BY <1>1, <1>2, <1>3, <1>4 DEF free_slot, Min

\* The least element of a non-empty set of naturals is one of its members.
LEMMA MinIsMember ==
  ASSUME NEW S \in SUBSET Nat, S # {}
  PROVE  Min(S) \in S /\ \A x \in S : Min(S) <= x
<1> DEFINE Less == {p \in Nat \X Nat : p[1] < p[2]}
<1>1. IsWellFoundedOn(Less, Nat)
  BY NatLessThanWellFounded DEF OpToRel
<1> HIDE DEF Less
<1>2. PICK x \in S : \A y \in S : <<y, x>> \notin Less
  BY <1>1, WFMin
<1>3. ASSUME NEW y \in S
      PROVE  x <= y
  <2>1. y \in Nat /\ x \in Nat
    OBVIOUS
  <2>2. ~(y < x)
    BY <1>2, <2>1 DEF Less
  <2> QED
    BY <2>1, <2>2
<1> QED
  BY <1>2, <1>3 DEF Min

\* create_identity writes a well-formed account with two empty tables.
LEMMA NewIdentityFits ==
  ASSUME NEW w \in Wallet
  PROVE  NewIdentity(w) \in Identity /\ CompactIdentity(NewIdentity(w))
BY CapacityAssumption, ZeroAssumption
   DEF NewIdentity, Identity, PassKey, Attestation, CompactIdentity, IsCompact,
       PasskeySlot, AttestationSlot

\* add_passkey appends: it fills slot passkey_count and leaves the rest alone.
LEMMA WithPasskeyAppends ==
  ASSUME NEW id \in Identity, CompactIdentity(id), CanAddPasskey(id),
         NEW key \in Credential
  PROVE  /\ free_slot(id.passkeys) = id.passkey_count
         /\ id.passkey_count \in PasskeySlot
         /\ WithPasskey(id, key) =
              [id EXCEPT !.passkeys[id.passkey_count] =
                           [pubkey |-> key, is_active |-> TRUE],
                         !.passkey_count = id.passkey_count + 1]
         /\ WithPasskey(id, key) \in Identity
         /\ CompactIdentity(WithPasskey(id, key))
<1>1. /\ DOMAIN id.passkeys = 0..(MAX_PASSKEYS - 1)
      /\ id.passkey_count \in Nat
      /\ MAX_PASSKEYS \in Nat
  BY CapacityAssumption DEF Identity, PasskeySlot
<1>2. /\ free_slot(id.passkeys) = id.passkey_count
      /\ id.passkey_count \in PasskeySlot
  BY <1>1, FreeSlotIsCount DEF CompactIdentity, CanAddPasskey, PasskeySlot
<1>3. WithPasskey(id, key) =
        [id EXCEPT !.passkeys[id.passkey_count] =
                     [pubkey |-> key, is_active |-> TRUE],
                   !.passkey_count = id.passkey_count + 1]
  BY <1>2 DEF WithPasskey
<1>4. WithPasskey(id, key) \in Identity
  <2>1. [id.passkeys EXCEPT ![id.passkey_count] =
           [pubkey |-> key, is_active |-> TRUE]] \in [PasskeySlot -> PassKey]
    BY <1>2 DEF Identity, PassKey
  <2>2. id.passkey_count + 1 \in 0..U8Max
    BY <1>1, CapacityAssumption DEF CanAddPasskey
  <2> QED
    BY <1>3, <2>1, <2>2 DEF Identity
<1>5. CompactIdentity(WithPasskey(id, key))
  BY <1>1, <1>2, <1>3, CapacityAssumption
     DEF Identity, CompactIdentity, IsCompact, PasskeySlot
<1> QED
  BY <1>2, <1>3, <1>4, <1>5

\* A claim appends to the attestation table in the same way.
LEMMA WithAttestationAppends ==
  ASSUME NEW id \in Identity, CompactIdentity(id),
         ~Full(id.attestations), id.attestation_count < U8Max,
         NEW issuer \in Wallet, NEW schema \in Schema
  PROVE  /\ id.attestation_count \in AttestationSlot
         /\ WithAttestation(id, issuer, schema) =
              [id EXCEPT !.attestations[id.attestation_count] =
                           [issuer |-> issuer, schema_id |-> schema,
                            is_active |-> TRUE],
                         !.attestation_count = id.attestation_count + 1]
         /\ WithAttestation(id, issuer, schema) \in Identity
         /\ CompactIdentity(WithAttestation(id, issuer, schema))
<1>1. /\ DOMAIN id.attestations = 0..(MAX_ATTESTATIONS - 1)
      /\ id.attestation_count \in Nat
      /\ MAX_ATTESTATIONS \in Nat
  BY CapacityAssumption DEF Identity, AttestationSlot
<1>2. /\ free_slot(id.attestations) = id.attestation_count
      /\ id.attestation_count \in AttestationSlot
  BY <1>1, FreeSlotIsCount DEF CompactIdentity, AttestationSlot
<1>3. WithAttestation(id, issuer, schema) =
        [id EXCEPT !.attestations[id.attestation_count] =
                     [issuer |-> issuer, schema_id |-> schema, is_active |-> TRUE],
                   !.attestation_count = id.attestation_count + 1]
  BY <1>2 DEF WithAttestation
<1>4. WithAttestation(id, issuer, schema) \in Identity
  <2>1. [id.attestations EXCEPT ![id.attestation_count] =
           [issuer |-> issuer, schema_id |-> schema, is_active |-> TRUE]]
          \in [AttestationSlot -> Attestation]
    BY <1>2 DEF Identity, Attestation
  <2>2. id.attestation_count + 1 \in 0..U8Max
    BY <1>1, CapacityAssumption
  <2> QED
    BY <1>3, <2>1, <2>2 DEF Identity
<1>5. CompactIdentity(WithAttestation(id, issuer, schema))
  BY <1>1, <1>2, <1>3, CapacityAssumption
     DEF Identity, CompactIdentity, IsCompact, AttestationSlot
<1> QED
  BY <1>2, <1>3, <1>4, <1>5

-------------------------------------------------------------------------------
(***************************************************************************)
(* Types and tables: one inductive invariant, since a table is filled in   *)
(* range because it is compact.                                            *)
(***************************************************************************)
TypeInv == TypeOK /\ TablesCompact

\* The instruction a running transaction is at is one of the program's.
LEMMA CurrentInstruction ==
  ASSUME TxTypeOK, ~Finished
  PROVE  /\ tx.ixs \in Seq(Instruction)
         /\ tx.next \in 1..Len(tx.ixs)
         /\ Ix \in Instruction
<1>1. << >> \in Seq(Instruction) /\ Len(<< >>) = 0
  OBVIOUS
<1>2. tx.ixs \in Seq(Instruction)
  BY <1>1, TransactionAssumption DEF TxTypeOK
<1>3. Len(tx.ixs) \in Nat
  BY <1>2
<1>4. tx.next \in 1..Len(tx.ixs)
  BY <1>3 DEF TxTypeOK, Finished
<1> QED
  BY <1>2, <1>4 DEF Ix

\* An instruction that succeeds advances the transaction by one.
LEMMA ReturnTyped ==
  ASSUME TxTypeOK, Running, ~Finished, NEW e \in Event, Return(e)
  PROVE  TxTypeOK'
<1>1. tx.next \in Nat /\ Len(tx.ixs) \in Nat /\ tx.next <= Len(tx.ixs)
  BY CurrentInstruction
<1>2. tx.log \in Seq(Event) /\ Append(tx.log, e) \in Seq(Event)
  BY DEF TxTypeOK
<1>3. tx' = [tx EXCEPT !.next = tx.next + 1, !.log = Append(tx.log, e)]
  BY DEF Return
<1>4. tx.next + 1 \in Nat \ {0} /\ tx.next + 1 <= Len(tx.ixs) + 1
  BY <1>1
<1>5. tx'.next = tx.next + 1 /\ tx'.ixs = tx.ixs
  BY <1>3 DEF TxTypeOK
<1>6. tx' \in [ixs : Transaction \cup {<< >>}, next : Nat \ {0},
               status : {"idle", "running", "failed"}, log : Seq(Event)]
  BY <1>2, <1>3, <1>4 DEF TxTypeOK
<1> QED
  BY <1>4, <1>5, <1>6 DEF TxTypeOK

\* A failing instruction leaves a transaction the runtime can still roll back.
LEMMA ErrorTyped ==
  ASSUME TxTypeOK, Error
  PROVE  TxTypeOK'
BY DEF TxTypeOK, Error

\* A ledger without accounts is well formed.
LEMMA InitTypeInv == Init => TypeInv
BY TransactionAssumption
   DEF Init, TypeInv, TypeOK, TablesCompact, CompactTables, TxTypeOK, View,
       ViewType, Idle

\* What the operands of an instruction are.
LEMMA Operands ==
  ASSUME NEW ix \in Instruction
  PROVE  /\ ix.op # "secp256r1" => ix.signer \in Wallet
         /\ ix.op \in {"add_passkey", "verify_passkey", "claim_attestation"}
              => ix.identity \in Wallet
         /\ ix.op \in {"update_root", "claim_attestation"} => ix.issuer \in Wallet
         /\ ix.op = "add_passkey" => ix.pubkey \in Credential
         /\ ix.op = "register_issuer"
              => ix.schema_id \in Schema /\ ix.merkle_root \in Digest
         /\ ix.op = "update_root" => ix.merkle_root \in Digest
         /\ ix.op = "claim_attestation" => ix.nullifier \in NullifierHash
         /\ ix.op = "secp256r1" => ix.sigs \in Seq(Signature)
BY DEF Instruction

\* The invariant, account by account.
LEMMA TypeInvParts ==
  TypeInv <=> /\ identities \in [Wallet -> Identity \cup {NoAccount}]
              /\ issuers \in [Wallet -> Issuer \cup {NoAccount}]
              /\ nullifiers \subseteq Wallet \X NullifierHash
              /\ committed \in ViewType
              /\ TxTypeOK
              /\ CompactTables(identities)
              /\ CompactTables(committed.identities)
BY DEF TypeInv, TypeOK, TablesCompact, View, ViewType

\* create_identity keeps the accounts well formed: the new one has empty tables.
LEMMA CreateIdentityTyped ==
  ASSUME TypeInv, CreateIdentity
  PROVE  TypeInv'
<1>1. Running /\ ~Finished /\ Ix.signer \in Wallet
  BY CurrentInstruction, Operands, TypeInvParts DEF CreateIdentity, Runs
<1>2. CASE identities[Ix.signer] = NoAccount
  <2>1. identities' = [identities EXCEPT ![Ix.signer] = NewIdentity(Ix.signer)]
    BY <1>2 DEF CreateIdentity
  <2>2. /\ identities' \in [Wallet -> Identity \cup {NoAccount}]
        /\ CompactTables(identities')
    BY <1>1, <2>1, NewIdentityFits, TypeInvParts DEF CompactTables
  <2>3. TxTypeOK'
    BY <1>1, <1>2, ReturnTyped, TypeInvParts DEF CreateIdentity, Event
  <2> QED
    BY <2>2, <2>3, TypeInvParts DEF CreateIdentity, TypeInv, TypeOK, TablesCompact, View, ViewType
<1>3. CASE identities[Ix.signer] # NoAccount
  BY <1>3, ErrorTyped, TypeInvParts DEF CreateIdentity, TypeInv, TypeOK, TablesCompact, View, ViewType
<1> QED
  BY <1>2, <1>3

\* add_passkey keeps the accounts well formed: it appends within the capacity.
LEMMA AddPasskeyTyped ==
  ASSUME TypeInv, AddPasskey
  PROVE  TypeInv'
<1>1. /\ Running /\ ~Finished
      /\ Ix.identity \in Wallet /\ Ix.pubkey \in Credential
  BY CurrentInstruction, Operands, TypeInvParts DEF AddPasskey, Runs
<1> DEFINE id == identities[Ix.identity]
<1>2. CASE OwnsIdentity(Ix) /\ CanAddPasskey(id)
  <2>1. id \in Identity /\ CompactIdentity(id)
    BY <1>1, <1>2, TypeInvParts DEF OwnsIdentity, CompactTables
  <2>2. /\ WithPasskey(id, Ix.pubkey) \in Identity
        /\ CompactIdentity(WithPasskey(id, Ix.pubkey))
        /\ free_slot(id.passkeys) \in PasskeySlot
    BY <1>1, <1>2, <2>1, WithPasskeyAppends
  <2>3. /\ identities' = [identities EXCEPT ![Ix.identity] = WithPasskey(id, Ix.pubkey)]
        /\ Return([event |-> "PassKeyAdded", identity |-> Ix.identity,
                   index |-> free_slot(id.passkeys)])
    BY <1>2 DEF AddPasskey
  <2>4. /\ identities' \in [Wallet -> Identity \cup {NoAccount}]
        /\ CompactTables(identities')
    BY <1>1, <2>2, <2>3, TypeInvParts DEF CompactTables
  <2>5. TxTypeOK'
    BY <1>1, <2>2, <2>3, ReturnTyped, TypeInvParts DEF Event
  <2> QED
    BY <2>4, <2>5, TypeInvParts
       DEF AddPasskey, TypeInv, TypeOK, TablesCompact, View, ViewType
<1>3. CASE ~(OwnsIdentity(Ix) /\ CanAddPasskey(id))
  BY <1>3, ErrorTyped, TypeInvParts
     DEF AddPasskey, TypeInv, TypeOK, TablesCompact, View, ViewType
<1> QED
  BY <1>2, <1>3

\* verify_passkey writes nothing, and the event it logs is well formed.
LEMMA VerifyPasskeyTyped ==
  ASSUME TypeInv, VerifyPasskey
  PROVE  TypeInv'
<1>1. Running /\ ~Finished /\ Ix.identity \in Wallet
  BY CurrentInstruction, Operands, TypeInvParts DEF VerifyPasskey, Runs
<1> DEFINE ok == /\ OwnsIdentity(Ix)
                 /\ PossessionConfirmed(identities[Ix.identity], Ix.index)
<1>2. CASE ok
  <2>1. Ix.index \in PasskeySlot
    BY <1>2 DEF PossessionConfirmed, HasPasskey
  <2>2. FirstPrecompile.sigs[1].message \in Message
    <3>1. /\ Min(PrecompilePositions) \in PrecompilePositions
      <4>1. PrecompilePositions \subseteq Nat /\ PrecompilePositions # {}
        BY <1>2 DEF PossessionConfirmed, PrecompilePositions
      <4> QED
        BY <4>1, MinIsMember
    <3>2. /\ FirstPrecompile \in Instruction
          /\ FirstPrecompile.op = "secp256r1"
      <4> DEFINE p == Min(PrecompilePositions)
      <4>1. p \in 1..Len(tx.ixs) /\ tx.ixs[p].op = "secp256r1"
        BY <3>1 DEF PrecompilePositions
      <4>2. tx.ixs \in Seq(Instruction)
        BY <1>1, CurrentInstruction, TypeInvParts
      <4> QED
        BY <4>1, <4>2 DEF FirstPrecompile
    <3>3. FirstPrecompile.sigs \in Seq(Signature)
      BY <3>2, Operands
    <3>4. FirstPrecompile.sigs # << >>
      BY <1>2 DEF PossessionConfirmed, Extractable
    <3>5. FirstPrecompile.sigs[1] \in Signature
      BY <3>3, <3>4
    <3> QED
      BY <3>5 DEF Signature
  <2>3. Return([event |-> "PassKeyVerified", identity |-> Ix.identity,
                index |-> Ix.index,
                message_hash |-> keccak(FirstPrecompile.sigs[1].message)])
    BY <1>2 DEF VerifyPasskey
  <2>4. TxTypeOK'
    BY <1>1, <2>1, <2>2, <2>3, ReturnTyped, TypeInvParts DEF Event
  <2> QED
    BY <2>4, TypeInvParts
       DEF VerifyPasskey, TypeInv, TypeOK, TablesCompact, View, ViewType
<1>3. CASE ~ok
  BY <1>3, ErrorTyped, TypeInvParts
     DEF VerifyPasskey, TypeInv, TypeOK, TablesCompact, View, ViewType
<1> QED
  BY <1>2, <1>3

\* register_issuer keeps the accounts well formed: a new issuer counts nothing.
LEMMA RegisterIssuerTyped ==
  ASSUME TypeInv, RegisterIssuer
  PROVE  TypeInv'
<1>1. /\ Running /\ ~Finished /\ Ix.signer \in Wallet
      /\ Ix.schema_id \in Schema /\ Ix.merkle_root \in Digest
  BY CurrentInstruction, Operands, TypeInvParts DEF RegisterIssuer, Runs
<1>2. CASE issuers[Ix.signer] = NoAccount
  <2>1. issuers' \in [Wallet -> Issuer \cup {NoAccount}]
    BY <1>1, <1>2, CapacityAssumption, TypeInvParts DEF RegisterIssuer, Issuer
  <2>2. TxTypeOK'
    BY <1>1, <1>2, ReturnTyped, TypeInvParts DEF RegisterIssuer, Event
  <2> QED
    BY <2>1, <2>2, TypeInvParts
       DEF RegisterIssuer, TypeInv, TypeOK, TablesCompact, View, ViewType
<1>3. CASE issuers[Ix.signer] # NoAccount
  BY <1>3, ErrorTyped, TypeInvParts
     DEF RegisterIssuer, TypeInv, TypeOK, TablesCompact, View, ViewType
<1> QED
  BY <1>2, <1>3

\* update_root keeps the accounts well formed: it changes a root only.
LEMMA UpdateRootTyped ==
  ASSUME TypeInv, UpdateRoot
  PROVE  TypeInv'
<1>1. /\ Running /\ ~Finished /\ Ix.issuer \in Wallet /\ Ix.merkle_root \in Digest
  BY CurrentInstruction, Operands, TypeInvParts DEF UpdateRoot, Runs
<1>2. CASE OwnsIssuer(Ix)
  <2>1. issuers' \in [Wallet -> Issuer \cup {NoAccount}]
    BY <1>1, <1>2, TypeInvParts DEF UpdateRoot, OwnsIssuer, Issuer
  <2>2. TxTypeOK'
    BY <1>1, <1>2, ReturnTyped, TypeInvParts DEF UpdateRoot, Event
  <2> QED
    BY <2>1, <2>2, TypeInvParts
       DEF UpdateRoot, TypeInv, TypeOK, TablesCompact, View, ViewType
<1>3. CASE ~OwnsIssuer(Ix)
  BY <1>3, ErrorTyped, TypeInvParts
     DEF UpdateRoot, TypeInv, TypeOK, TablesCompact, View, ViewType
<1> QED
  BY <1>2, <1>3

\* claim_attestation keeps the accounts well formed, on its three ways out.
LEMMA ClaimAttestationTyped ==
  ASSUME TypeInv, ClaimAttestation
  PROVE  TypeInv'
<1>1. /\ Running /\ ~Finished
      /\ Ix.identity \in Wallet /\ Ix.issuer \in Wallet
      /\ Ix.nullifier \in NullifierHash
  BY CurrentInstruction, Operands, TypeInvParts DEF ClaimAttestation, Runs
<1> DEFINE id == identities[Ix.identity]
           i == issuers[Ix.issuer]
<1>2. CASE ~ClaimAccountsValid(Ix)
  BY <1>2, ErrorTyped, TypeInvParts
     DEF ClaimAttestation, TypeInv, TypeOK, TablesCompact, View, ViewType
<1>3. CASE ClaimAccountsValid(Ix) /\ ~ClaimAllowed(Ix)
  <2>1. nullifiers' \subseteq Wallet \X NullifierHash
    BY <1>1, <1>3, TypeInvParts DEF ClaimAttestation
  <2> QED
    BY <1>3, <2>1, ErrorTyped, TypeInvParts
       DEF ClaimAttestation, TypeInv, TypeOK, TablesCompact, View, ViewType
<1>4. CASE ClaimAccountsValid(Ix) /\ ClaimAllowed(Ix)
  <2>1. /\ id \in Identity /\ CompactIdentity(id)
        /\ i \in Issuer /\ i.schema_id \in Schema
    BY <1>1, <1>4, TypeInvParts
       DEF ClaimAccountsValid, OwnsIdentity, CompactTables, Issuer
  <2>2. /\ ~Full(id.attestations) /\ id.attestation_count < U8Max
        /\ i.attestation_count < U64Max
    BY <1>4 DEF ClaimAllowed, CanRecordClaim
  <2>3. /\ WithAttestation(id, Ix.issuer, i.schema_id) \in Identity
        /\ CompactIdentity(WithAttestation(id, Ix.issuer, i.schema_id))
    BY <1>1, <2>1, <2>2, WithAttestationAppends
  <2>4. /\ identities' = [identities EXCEPT ![Ix.identity] =
                            WithAttestation(id, Ix.issuer, i.schema_id)]
        /\ issuers' = [issuers EXCEPT ![Ix.issuer].attestation_count =
                         i.attestation_count + 1]
        /\ nullifiers' \subseteq Wallet \X NullifierHash
        /\ Return([event |-> "AttestationClaimed", identity |-> Ix.identity,
                   issuer |-> Ix.issuer, schema_id |-> i.schema_id])
    BY <1>1, <1>4, TypeInvParts DEF ClaimAttestation
  <2>5. /\ identities' \in [Wallet -> Identity \cup {NoAccount}]
        /\ CompactTables(identities')
    BY <1>1, <2>3, <2>4, TypeInvParts DEF CompactTables
  <2>6. issuers' \in [Wallet -> Issuer \cup {NoAccount}]
    <3>1. i.attestation_count + 1 \in 0..U64Max
      BY <2>1, <2>2, CapacityAssumption DEF Issuer
    <3>2. [i EXCEPT !.attestation_count = i.attestation_count + 1] \in Issuer
      BY <2>1, <3>1 DEF Issuer
    <3> QED
      BY <1>1, <2>4, <3>2, TypeInvParts
  <2>7. TxTypeOK'
    BY <1>1, <2>1, <2>4, ReturnTyped, TypeInvParts DEF Event
  <2> QED
    BY <2>4, <2>5, <2>6, <2>7, TypeInvParts
       DEF ClaimAttestation, TypeInv, TypeOK, TablesCompact, View, ViewType
<1> QED
  BY <1>2, <1>3, <1>4 DEF ClaimAttestation

\* What the runtime does around the instructions keeps the accounts well formed:
\* a rollback restores accounts that were.
LEMMA RuntimeTyped ==
  ASSUME TypeInv, Begin \/ Secp256r1 \/ OutOfBudget \/ Commit \/ Rollback
  PROVE  TypeInv'
<1>1. CASE Begin
  <2>1. PICK ixs \in Transaction : tx' = [Idle EXCEPT !.ixs = ixs, !.status = "running"]
    BY <1>1 DEF Begin
  <2>2. tx' = [ixs |-> ixs, next |-> 1, status |-> "running", log |-> << >>]
    BY <2>1 DEF Idle
  <2>3. ixs \in Seq(Instruction)
    BY TransactionAssumption
  <2>4. Len(ixs) \in Nat
    BY <2>3
  <2>5. TxTypeOK'
    BY <2>2, <2>4 DEF TxTypeOK
  <2> QED
    BY <1>1, <2>5, TypeInvParts
       DEF Begin, TypeInv, TypeOK, TablesCompact, View, ViewType
<1>2. CASE Secp256r1
  <2>1. CASE PrecompileAccepts(Ix)
    <3>1. tx.next \in 1..Len(tx.ixs) /\ tx.ixs \in Seq(Instruction)
      BY <1>2, CurrentInstruction, TypeInvParts DEF Secp256r1, Runs
    <3>2. tx.next + 1 \in Nat \ {0} /\ tx.next + 1 <= Len(tx.ixs) + 1
      BY <3>1
    <3>3. tx' = [tx EXCEPT !.next = tx.next + 1]
      BY <1>2, <2>1 DEF Secp256r1
    <3>4. TxTypeOK'
      BY <3>2, <3>3, TypeInvParts DEF TxTypeOK
    <3> QED
      BY <1>2, <3>4, TypeInvParts
         DEF Secp256r1, TypeInv, TypeOK, TablesCompact, View, ViewType
  <2>2. CASE ~PrecompileAccepts(Ix)
    BY <1>2, <2>2, ErrorTyped, TypeInvParts
       DEF Secp256r1, TypeInv, TypeOK, TablesCompact, View, ViewType
  <2> QED
    BY <2>1, <2>2
<1>3. CASE OutOfBudget
  BY <1>3, ErrorTyped, TypeInvParts
     DEF OutOfBudget, TypeInv, TypeOK, TablesCompact, View, ViewType
<1>4. ASSUME tx' = Idle
      PROVE  TxTypeOK'
  BY <1>4 DEF TxTypeOK, Idle
<1>5. CASE Commit
  BY <1>4, <1>5, TypeInvParts
     DEF Commit, TypeInv, TypeOK, TablesCompact, View, ViewType
<1>6. CASE Rollback
  BY <1>4, <1>6, TypeInvParts
     DEF Rollback, TypeInv, TypeOK, TablesCompact, View, ViewType
<1> QED
  BY <1>1, <1>2, <1>3, <1>5, <1>6

\* The typing invariant is inductive.
LEMMA TypeInvStep ==
  ASSUME TypeInv, [Next]_vars
  PROVE  TypeInv'
<1>1. CASE UNCHANGED vars
  BY <1>1, TypeInvParts
     DEF vars, TypeInv, TypeOK, TablesCompact, TxTypeOK, View, ViewType
<1>2. CASE Next
  BY <1>2, CreateIdentityTyped, AddPasskeyTyped, VerifyPasskeyTyped,
     RegisterIssuerTyped, UpdateRootTyped, ClaimAttestationTyped, RuntimeTyped
     DEF Next
<1> QED
  BY <1>1, <1>2

\* Only a commit changes what is committed, and it commits the view of a
\* transaction that has not failed; a rollback restores it.
LEMMA Boundaries ==
  ASSUME TypeInv, [Next]_vars
  PROVE  /\ committed' = committed
            \/ (Commit /\ committed' = View /\ tx.status = "running" /\ UNCHANGED View)
         /\ tx.status = "failed" => (UNCHANGED <<View, tx>> \/ View' = committed)
<1>1. \/ committed' = committed
      \/ Commit /\ committed' = View /\ tx.status = "running" /\ UNCHANGED View
  BY DEF Next, vars, Begin, CreateIdentity, AddPasskey, VerifyPasskey, RegisterIssuer,
         UpdateRoot, ClaimAttestation, Secp256r1, OutOfBudget, Commit, Rollback,
         Running, View
<1>2. ASSUME tx.status = "failed"
      PROVE  UNCHANGED <<View, tx>> \/ View' = committed
  <2>1. UNCHANGED vars \/ Rollback
    BY <1>2 DEF Next, Begin, CreateIdentity, AddPasskey, VerifyPasskey, RegisterIssuer,
         UpdateRoot, ClaimAttestation, Secp256r1, OutOfBudget, Commit, Running, Runs
  <2>2. CASE Rollback
    BY <2>2, TypeInvParts DEF Rollback, View, ViewType
  <2> QED
    BY <2>1, <2>2 DEF vars, View
<1> QED
  BY <1>1, <1>2

\* Accounts keep their layout, and their tables stay compact, in every reachable
\* state, whatever transactions are submitted.
THEOREM TypeInvariance == Spec => []TypeInv
<1>1. Init => TypeInv
  BY InitTypeInv
<1>2. TypeInv /\ [Next]_vars => TypeInv'
  BY TypeInvStep
<1> QED
  BY <1>1, <1>2, PTL DEF Spec

\* The type invariant alone.
THEOREM TypeCorrect == Spec => []TypeOK
BY TypeInvariance, PTL DEF TypeInv

\* The tables of every identity are compact and their counts exact: no add, claim
\* or rollback, in any order, leaves a gap, so `position` always appends.
THEOREM Compactness == Spec => []TablesCompact
BY TypeInvariance, PTL DEF TypeInv

-------------------------------------------------------------------------------
(***************************************************************************)
(* The balance of the accounts: what an issuer counts, the attestations    *)
(* that name it and the nullifiers burned for it.                          *)
(***************************************************************************)
\* Cardinalities only mean something for finite sets: the nullifiers ever burned
\* are finitely many.
FinitelyBurned == IsFiniteSet(nullifiers) /\ IsFiniteSet(committed.nullifiers)

LedgerInv == TypeInv /\ FinitelyBurned /\ LedgerBalanced

-------------------------------------------------------------------------------
\* The attestations recorded against an issuer are finitely many, so are the
\* nullifiers burned for it.
LEMMA FiniteLedger ==
  ASSUME NEW view, NEW i, IsFiniteSet(view.nullifiers)
  PROVE  IsFiniteSet(Claims(view, i)) /\ IsFiniteSet(Burned(view, i))
<1>1. IsFiniteSet(Wallet \X AttestationSlot)
  <2>1. IsFiniteSet(AttestationSlot)
    BY FS_Interval, CapacityAssumption DEF AttestationSlot
  <2> QED
    BY <2>1, FS_Product, AccountAssumption
<1>2. Claims(view, i) \subseteq Wallet \X AttestationSlot
  BY DEF Claims
<1>3. Burned(view, i) \subseteq view.nullifiers
  BY DEF Burned
<1> QED
  BY <1>1, <1>2, <1>3, FS_Subset

\* A view with the same claims, nullifiers and counts is as balanced.
LEMMA BalancedByParts ==
  ASSUME NEW old, NEW new, Balanced(old),
         \A i \in Wallet : /\ Claims(new, i) = Claims(old, i)
                           /\ Burned(new, i) = Burned(old, i)
                           /\ ClaimCount(new, i) = ClaimCount(old, i)
  PROVE  Balanced(new)
BY DEF Balanced, ClaimCount

\* An empty ledger is balanced.
LEMMA InitLedgerInv == Init => LedgerInv
<1> SUFFICES ASSUME Init
             PROVE  LedgerInv
  OBVIOUS
<1>1. TypeInv
  BY InitTypeInv
<1>2. FinitelyBurned
  BY FS_EmptySet DEF Init, FinitelyBurned, View
<1>3. ASSUME NEW i \in Wallet
      PROVE  Claims(View, i) = {} /\ Burned(View, i) = {} /\ ClaimCount(View, i) = 0
  BY DEF Init, View, Claims, Burned, ClaimCount
<1>4. Balanced(View)
  BY <1>3, FS_EmptySet DEF Balanced, ClaimCount
<1> QED
  BY <1>1, <1>2, <1>4 DEF Init, LedgerInv, LedgerBalanced

\* The instructions that claim nothing change neither side of the balance.
LEMMA CreateIdentityBalanced ==
  ASSUME LedgerInv, CreateIdentity, tx'.status # "failed"
  PROVE  Balanced(View)'
<1>1. Ix.signer \in Wallet /\ tx.status = "running"
  BY CurrentInstruction, Operands, TypeInvParts
     DEF LedgerInv, CreateIdentity, Runs, Running
<1>2. /\ identities[Ix.signer] = NoAccount
      /\ identities' = [identities EXCEPT ![Ix.signer] = NewIdentity(Ix.signer)]
      /\ UNCHANGED <<issuers, nullifiers>>
  BY TypeInvParts DEF LedgerInv, CreateIdentity, Error, TxTypeOK
<1>3. ASSUME NEW i \in Wallet
      PROVE  Claims(View', i) = Claims(View, i)
  <2>1. ASSUME NEW w \in Wallet, NEW s \in AttestationSlot
        PROVE  <<w, s>> \in Claims(View', i) <=> <<w, s>> \in Claims(View, i)
    BY <1>1, <1>2, TypeInvParts DEF LedgerInv, Claims, View, NewIdentity
  <2> QED
    BY <2>1 DEF Claims
<1>4. Balanced(View')
  BY <1>2, <1>3, BalancedByParts, <1>1
     DEF LedgerInv, LedgerBalanced, View, Burned, ClaimCount
<1> QED
  BY <1>4 DEF Balanced, Claims, Burned, View

\* add_passkey touches no attestation, so that every issuer's claims stay.
LEMMA AddPasskeyBalanced ==
  ASSUME LedgerInv, AddPasskey, tx'.status # "failed"
  PROVE  Balanced(View)'
<1> DEFINE id == identities[Ix.identity]
<1>1. /\ Ix.identity \in Wallet /\ Ix.pubkey \in Credential
      /\ tx.status = "running"
  BY CurrentInstruction, Operands, TypeInvParts
     DEF LedgerInv, AddPasskey, Runs, Running
<1>2. /\ OwnsIdentity(Ix) /\ CanAddPasskey(id)
      /\ identities' = [identities EXCEPT ![Ix.identity] = WithPasskey(id, Ix.pubkey)]
      /\ UNCHANGED <<issuers, nullifiers>>
  BY TypeInvParts DEF LedgerInv, AddPasskey, Error, TxTypeOK
<1>3. /\ id # NoAccount /\ id \in Identity /\ CompactIdentity(id)
  BY <1>1, <1>2, TypeInvParts DEF LedgerInv, OwnsIdentity, CompactTables
<1>4. /\ WithPasskey(id, Ix.pubkey) # NoAccount
      /\ WithPasskey(id, Ix.pubkey).attestations = id.attestations
  <2>1. /\ WithPasskey(id, Ix.pubkey) \in Identity
        /\ WithPasskey(id, Ix.pubkey) =
             [id EXCEPT !.passkeys[id.passkey_count] =
                          [pubkey |-> Ix.pubkey, is_active |-> TRUE],
                        !.passkey_count = id.passkey_count + 1]
    BY <1>1, <1>2, <1>3, WithPasskeyAppends
  <2>2. WithPasskey(id, Ix.pubkey) # NoAccount
    BY <2>1, AccountAssumption
  <2>3. WithPasskey(id, Ix.pubkey).attestations = id.attestations
    BY <1>3, <2>1 DEF Identity
  <2> QED
    BY <2>2, <2>3
<1>5. ASSUME NEW i \in Wallet
      PROVE  Claims(View', i) = Claims(View, i)
  <2>1. ASSUME NEW w \in Wallet, NEW s \in AttestationSlot
        PROVE  <<w, s>> \in Claims(View', i) <=> <<w, s>> \in Claims(View, i)
    BY <1>1, <1>2, <1>3, <1>4, TypeInvParts DEF LedgerInv, Claims, View
  <2> QED
    BY <2>1 DEF Claims
<1>6. Balanced(View')
  BY <1>1, <1>2, <1>5, BalancedByParts
     DEF LedgerInv, LedgerBalanced, View, Burned, ClaimCount
<1> QED
  BY <1>6 DEF Balanced, Claims, Burned, View

\* An issuer that did not exist has no claims: its count starts where they are.
LEMMA RegisterIssuerBalanced ==
  ASSUME LedgerInv, RegisterIssuer, tx'.status # "failed"
  PROVE  Balanced(View)'
<1>1. Ix.signer \in Wallet /\ tx.status = "running"
  BY CurrentInstruction, Operands, TypeInvParts
     DEF LedgerInv, RegisterIssuer, Runs, Running
<1>2. /\ issuers[Ix.signer] = NoAccount
      /\ issuers' = [issuers EXCEPT ![Ix.signer] =
                       [authority |-> Ix.signer, schema_id |-> Ix.schema_id,
                        merkle_root |-> Ix.merkle_root, attestation_count |-> 0]]
      /\ UNCHANGED <<identities, nullifiers>>
  BY TypeInvParts DEF LedgerInv, RegisterIssuer, Error, TxTypeOK
<1>3. ASSUME NEW i \in Wallet
      PROVE  ClaimCount(View', i) = ClaimCount(View, i)
  BY <1>1, <1>2, TypeInvParts DEF LedgerInv, ClaimCount, View
<1>4. Balanced(View')
  BY <1>1, <1>2, <1>3, BalancedByParts
     DEF LedgerInv, LedgerBalanced, View, Burned, Claims
<1> QED
  BY <1>4 DEF Balanced, Claims, Burned, View

\* update_root touches no count.
LEMMA UpdateRootBalanced ==
  ASSUME LedgerInv, UpdateRoot, tx'.status # "failed"
  PROVE  Balanced(View)'
<1>1. Ix.issuer \in Wallet /\ tx.status = "running"
  BY CurrentInstruction, Operands, TypeInvParts
     DEF LedgerInv, UpdateRoot, Runs, Running
<1>2. /\ issuers[Ix.issuer] \in Issuer
      /\ issuers' = [issuers EXCEPT ![Ix.issuer] =
                       [issuers[Ix.issuer] EXCEPT !.merkle_root = Ix.merkle_root]]
      /\ [issuers[Ix.issuer] EXCEPT !.merkle_root = Ix.merkle_root] # NoAccount
      /\ UNCHANGED <<identities, nullifiers>>
  <2>1. OwnsIssuer(Ix)
    BY TypeInvParts DEF LedgerInv, UpdateRoot, Error, TxTypeOK
  <2>2. issuers[Ix.issuer] \in Issuer /\ Ix.merkle_root \in Digest
    BY <1>1, <2>1, CurrentInstruction, Operands, TypeInvParts
       DEF LedgerInv, UpdateRoot, Runs, OwnsIssuer
  <2>3. [issuers[Ix.issuer] EXCEPT !.merkle_root = Ix.merkle_root] \in Issuer
    BY <2>2 DEF Issuer
  <2> QED
    BY <2>1, <2>2, <2>3, AccountAssumption DEF UpdateRoot
<1>3. ASSUME NEW i \in Wallet
      PROVE  ClaimCount(View', i) = ClaimCount(View, i)
  BY <1>1, <1>2, TypeInvParts, AccountAssumption DEF LedgerInv, ClaimCount, View, Issuer
<1>4. Balanced(View')
  BY <1>1, <1>2, <1>3, BalancedByParts
     DEF LedgerInv, LedgerBalanced, View, Burned, Claims
<1> QED
  BY <1>4 DEF Balanced, Claims, Burned, View

\* A claim adds one to each of the three counts, or the transaction fails.
LEMMA ClaimAttestationBalanced ==
  ASSUME LedgerInv, ClaimAttestation, tx'.status # "failed"
  PROVE  Balanced(View)'
<1> DEFINE w == Ix.identity
           i == Ix.issuer
           id == identities[w]
           s == id.attestation_count
           schema == issuers[i].schema_id
           nul == <<i, Ix.nullifier>>
<1>1. /\ w \in Wallet /\ i \in Wallet /\ tx.status = "running"
      /\ Balanced(View)
  BY CurrentInstruction, Operands, TypeInvParts
     DEF LedgerInv, LedgerBalanced, ClaimAttestation, Runs, Running
<1>2. /\ ClaimAccountsValid(Ix) /\ ClaimAllowed(Ix)
      /\ nullifiers' = nullifiers \cup {nul}
      /\ identities' = [identities EXCEPT ![w] = WithAttestation(id, i, schema)]
      /\ issuers' = [issuers EXCEPT ![i] =
                       [issuers[i] EXCEPT !.attestation_count =
                          issuers[i].attestation_count + 1]]
  BY TypeInvParts DEF LedgerInv, ClaimAttestation, Error, TxTypeOK
<1>3. /\ id \in Identity /\ CompactIdentity(id) /\ id # NoAccount
      /\ issuers[i] \in Issuer /\ issuers[i] # NoAccount
      /\ schema \in Schema /\ nul \notin nullifiers
  BY <1>1, <1>2, TypeInvParts
     DEF LedgerInv, ClaimAccountsValid, OwnsIdentity, CompactTables, Issuer
<1>4. /\ s \in AttestationSlot
      /\ WithAttestation(id, i, schema) =
           [id EXCEPT !.attestations[s] =
                        [issuer |-> i, schema_id |-> schema, is_active |-> TRUE],
                      !.attestation_count = s + 1]
      /\ WithAttestation(id, i, schema) \in Identity
      /\ WithAttestation(id, i, schema) # NoAccount
  <2>1. ~Full(id.attestations) /\ id.attestation_count < U8Max
    BY <1>2 DEF ClaimAllowed, CanRecordClaim
  <2>2. /\ s \in AttestationSlot
        /\ WithAttestation(id, i, schema) =
             [id EXCEPT !.attestations[s] =
                          [issuer |-> i, schema_id |-> schema, is_active |-> TRUE],
                        !.attestation_count = s + 1]
        /\ WithAttestation(id, i, schema) \in Identity
    BY <1>1, <1>3, <2>1, WithAttestationAppends
  <2> QED
    BY <2>2, AccountAssumption
<1>5. /\ WithAttestation(id, i, schema).attestations =
           [id.attestations EXCEPT ![s] =
              [issuer |-> i, schema_id |-> schema, is_active |-> TRUE]]
      /\ ~id.attestations[s].is_active
      /\ DOMAIN id.attestations = AttestationSlot
  <2>1. DOMAIN id.attestations = AttestationSlot /\ id.attestation_count \in Nat
    BY <1>3 DEF Identity
  <2>2. ~id.attestations[s].is_active
    BY <1>3, <1>4, <2>1 DEF CompactIdentity, IsCompact
  <2> QED
    BY <1>3, <1>4, <2>1, <2>2 DEF Identity
<1>6. ASSUME NEW j \in Wallet
      PROVE  Claims(View', j) =
               IF j = i THEN Claims(View, j) \cup {<<w, s>>} ELSE Claims(View, j)
  <2>1. ASSUME NEW v \in Wallet, NEW t \in AttestationSlot
        PROVE  <<v, t>> \in Claims(View', j) <=>
                 (<<v, t>> \in Claims(View, j) \/ (j = i /\ v = w /\ t = s))
    <3>1. CASE v = w /\ t = s
      BY <1>1, <1>2, <1>3, <1>4, <1>5, <3>1, TypeInvParts
         DEF LedgerInv, Claims, View
    <3>2. CASE v = w /\ t # s
      BY <1>1, <1>2, <1>3, <1>4, <1>5, <3>2, TypeInvParts
         DEF LedgerInv, Claims, View
    <3>3. CASE v # w
      BY <1>1, <1>2, <3>3, TypeInvParts DEF LedgerInv, Claims, View
    <3> QED
      BY <3>1, <3>2, <3>3
  <2>2. /\ Claims(View', j) \subseteq Wallet \X AttestationSlot
        /\ Claims(View, j) \subseteq Wallet \X AttestationSlot
        /\ <<w, s>> \in Wallet \X AttestationSlot
    BY <1>1, <1>4 DEF Claims
  <2> QED
    BY <2>1, <2>2
<1>7. <<w, s>> \notin Claims(View, i)
  BY <1>5 DEF Claims, View
<1>8. ASSUME NEW j \in Wallet
      PROVE  Burned(View', j) =
               IF j = i THEN Burned(View, j) \cup {nul} ELSE Burned(View, j)
  BY <1>2 DEF Burned, View
<1>9. nul \notin Burned(View, i)
  BY <1>3 DEF Burned, View
<1>10. ASSUME NEW j \in Wallet
       PROVE  ClaimCount(View', j) =
                IF j = i THEN ClaimCount(View, j) + 1 ELSE ClaimCount(View, j)
  <2>1. [issuers[i] EXCEPT !.attestation_count = issuers[i].attestation_count + 1]
          # NoAccount
    <3>1. /\ issuers[i].attestation_count < U64Max
          /\ issuers[i].attestation_count \in 0..U64Max
      BY <1>2, <1>3 DEF ClaimAllowed, CanRecordClaim, Issuer
    <3>2. issuers[i].attestation_count + 1 \in 0..U64Max
      BY <3>1, CapacityAssumption
    <3>3. [issuers[i] EXCEPT !.attestation_count = issuers[i].attestation_count + 1]
            \in Issuer
      BY <1>3, <3>2 DEF Issuer
    <3> QED
      BY <3>3, AccountAssumption
  <2> QED
    BY <1>1, <1>2, <1>3, <2>1, TypeInvParts DEF LedgerInv, ClaimCount, View, Issuer
<1>11. ASSUME NEW j \in Wallet
       PROVE  /\ Cardinality(Claims(View', j)) = ClaimCount(View', j)
              /\ Cardinality(Burned(View', j)) = ClaimCount(View', j)
  <2>1. /\ Cardinality(Claims(View, j)) = ClaimCount(View, j)
        /\ Cardinality(Burned(View, j)) = ClaimCount(View, j)
    BY <1>1 DEF Balanced, ClaimCount
  <2>2. IsFiniteSet(Claims(View, j)) /\ IsFiniteSet(Burned(View, j))
    BY FiniteLedger DEF LedgerInv, FinitelyBurned, View
  <2>3. CASE j = i
    <3>1. /\ Cardinality(Claims(View, j) \cup {<<w, s>>}) = ClaimCount(View, j) + 1
          /\ Cardinality(Burned(View, j) \cup {nul}) = ClaimCount(View, j) + 1
      <4>1. <<w, s>> \notin Claims(View, j) /\ nul \notin Burned(View, j)
        BY <1>7, <1>9, <2>3
      <4> HIDE DEF w, s, nul
      <4>2. Cardinality(Claims(View, j) \cup {<<w, s>>}) = Cardinality(Claims(View, j)) + 1
        BY <2>2, <4>1, FS_AddElement
      <4>3. Cardinality(Burned(View, j) \cup {nul}) = Cardinality(Burned(View, j)) + 1
        BY <2>2, <4>1, FS_AddElement
      <4> QED
        BY <2>1, <4>2, <4>3
    <3> QED
      BY <1>6, <1>8, <1>10, <2>3, <3>1
  <2>4. CASE j # i
    BY <1>6, <1>8, <1>10, <2>1, <2>4
  <2> QED
    BY <2>3, <2>4
<1>12. Balanced(View')
  BY <1>11 DEF Balanced, ClaimCount
<1> QED
  BY <1>12 DEF Balanced, Claims, Burned, View

\* At any time finitely many nullifiers exist: each step creates at most one.
LEMMA FinitelyBurnedStep ==
  ASSUME LedgerInv, [Next]_vars
  PROVE  FinitelyBurned'
<1>1. \/ nullifiers' = nullifiers
      \/ nullifiers' = nullifiers \cup {<<Ix.issuer, Ix.nullifier>>}
      \/ nullifiers' = committed.nullifiers
  BY DEF Next, vars, Begin, CreateIdentity, AddPasskey, VerifyPasskey, RegisterIssuer,
         UpdateRoot, ClaimAttestation, Secp256r1, OutOfBudget, Commit, Rollback
<1>2. IsFiniteSet(nullifiers')
  BY <1>1, FS_AddElement DEF LedgerInv, FinitelyBurned
<1>3. committed' = committed \/ committed' = View
  BY DEF Next, vars, Begin, CreateIdentity, AddPasskey, VerifyPasskey, RegisterIssuer,
         UpdateRoot, ClaimAttestation, Secp256r1, OutOfBudget, Commit, Rollback
<1>4. IsFiniteSet(committed'.nullifiers)
  BY <1>3 DEF LedgerInv, FinitelyBurned, View
<1> QED
  BY <1>2, <1>4 DEF FinitelyBurned

\* The ledger invariant is inductive.
LEMMA LedgerInvStep ==
  ASSUME LedgerInv, [Next]_vars
  PROVE  LedgerInv'
<1>1. TypeInv /\ TypeInv'
  BY TypeInvStep DEF LedgerInv
<1>2. Balanced(committed')
  BY <1>1, Boundaries DEF LedgerInv, LedgerBalanced
<1>3. ASSUME tx'.status # "failed"
      PROVE  Balanced(View')
  <2>1. CASE tx.status = "failed"
    BY <1>1, <1>3, <2>1, Boundaries DEF LedgerInv, LedgerBalanced
  <2>2. CASE tx.status # "failed" /\ UNCHANGED <<identities, issuers, nullifiers>>
    BY <2>2 DEF LedgerInv, LedgerBalanced, View
  <2>3. CASE CreateIdentity
    BY <1>3, <2>3, CreateIdentityBalanced DEF Balanced, Claims, Burned, View
  <2>4. CASE AddPasskey
    BY <1>3, <2>4, AddPasskeyBalanced DEF Balanced, Claims, Burned, View
  <2>5. CASE RegisterIssuer
    BY <1>3, <2>5, RegisterIssuerBalanced DEF Balanced, Claims, Burned, View
  <2>6. CASE UpdateRoot
    BY <1>3, <2>6, UpdateRootBalanced DEF Balanced, Claims, Burned, View
  <2>7. CASE ClaimAttestation
    BY <1>3, <2>7, ClaimAttestationBalanced DEF Balanced, Claims, Burned, View
  <2> QED
    BY <2>1, <2>2, <2>3, <2>4, <2>5, <2>6, <2>7
       DEF Next, vars, Begin, VerifyPasskey, Secp256r1, OutOfBudget, Commit, Rollback
<1> QED
  BY <1>1, <1>2, <1>3, FinitelyBurnedStep
     DEF LedgerInv, LedgerBalanced, Balanced, Claims, Burned, View

\* Counts, attestations and nullifiers agree at every transaction boundary and
\* while no failure is pending, for every set of wallets and of transactions.
THEOREM LedgerBalance == Spec => []LedgerBalanced
<1>1. Init => LedgerInv
  BY InitLedgerInv
<1>2. LedgerInv /\ [Next]_vars => LedgerInv'
  BY LedgerInvStep
<1>3. LedgerInv => LedgerBalanced
  BY DEF LedgerInv
<1> QED
  BY <1>1, <1>2, <1>3, PTL DEF Spec


-------------------------------------------------------------------------------
(***************************************************************************)
(* Keeping is a preorder on well-formed accounts.                          *)
(***************************************************************************)

\* An account keeps what it is.
LEMMA KeepsReflexive ==
  /\ \A x : KeepsIdentity(x, x)
  /\ \A x \in Issuer \cup {NoAccount} : KeepsIssuer(x, x)
BY CapacityAssumption DEF KeepsIdentity, KeepsIssuer, Issuer

\* An identity that keeps one that keeps a third keeps the third.
LEMMA KeepsIdentityTransitive ==
  ASSUME NEW x, NEW y, NEW z, KeepsIdentity(x, y), KeepsIdentity(y, z)
  PROVE  KeepsIdentity(x, z)
BY DEF KeepsIdentity

\* The same of issuers.
LEMMA KeepsIssuerTransitive ==
  ASSUME NEW x \in Issuer \cup {NoAccount}, NEW y \in Issuer \cup {NoAccount},
         NEW z \in Issuer \cup {NoAccount}, KeepsIssuer(x, y), KeepsIssuer(y, z)
  PROVE  KeepsIssuer(x, z)
<1>1. CASE x = NoAccount
  BY <1>1 DEF KeepsIssuer
<1>2. CASE x # NoAccount
  <2>1. y # NoAccount /\ z # NoAccount
    BY <1>2 DEF KeepsIssuer
  <2>2. /\ x.attestation_count \in Nat /\ y.attestation_count \in Nat
        /\ z.attestation_count \in Nat
    BY <1>2, <2>1, CapacityAssumption DEF Issuer
  <2> QED
    BY <1>2, <2>1, <2>2 DEF KeepsIssuer
<1> QED
  BY <1>1, <1>2

\* A ledger keeps what it is.
LEMMA ViewKeepsItself ==
  ASSUME NEW view \in ViewType
  PROVE  Keeps(view, view)
BY KeepsReflexive DEF Keeps, ViewType

\* Keeping is transitive on ledgers.
LEMMA KeepsTransitive ==
  ASSUME NEW x \in ViewType, NEW y \in ViewType, NEW z \in ViewType,
         Keeps(x, y), Keeps(y, z)
  PROVE  Keeps(x, z)
<1>1. \A w \in Wallet : KeepsIdentity(x.identities[w], z.identities[w])
  BY KeepsIdentityTransitive DEF Keeps
<1>2. \A i \in Wallet : KeepsIssuer(x.issuers[i], z.issuers[i])
  BY KeepsIssuerTransitive DEF Keeps, ViewType
<1> QED
  BY <1>1, <1>2 DEF Keeps

-------------------------------------------------------------------------------
(***************************************************************************)
(* What an instruction writes.                                             *)
(***************************************************************************)

\* The signer of the current instruction is a signer of the transaction.
LEMMA CurrentSigner ==
  ASSUME TxTypeOK, NEW op, op # "secp256r1", Runs(op)
  PROVE  Ix.signer \in Signers
<1>1. tx.next \in 1..Len(tx.ixs) /\ tx.ixs[tx.next].op # "secp256r1"
  BY CurrentInstruction DEF Runs, Ix
<1> QED
  BY <1>1 DEF Signers, Ix

\* create_identity writes its signer's identity, which did not exist, without
\* attestations.
LEMMA CreateIdentityWrites ==
  ASSUME TypeInv, CreateIdentity, NEW w \in Wallet, identities'[w] # identities[w]
  PROVE  /\ w \in Signers /\ KeepsIdentity(identities[w], identities'[w])
         /\ \A s \in AttestationSlot : ~identities'[w].attestations[s].is_active
<1>1. Ix.signer \in Wallet /\ Ix.signer \in Signers
  BY CurrentInstruction, CurrentSigner, Operands, TypeInvParts DEF CreateIdentity, Runs
<1>2. /\ identities[Ix.signer] = NoAccount
      /\ identities' = [identities EXCEPT ![Ix.signer] = NewIdentity(Ix.signer)]
  BY DEF CreateIdentity
<1>3. w = Ix.signer /\ identities'[w] = NewIdentity(w)
  BY <1>1, <1>2, TypeInvParts
<1>4. \A s \in AttestationSlot : ~NewIdentity(w).attestations[s].is_active
  BY DEF NewIdentity
<1> QED
  BY <1>1, <1>2, <1>3, <1>4 DEF KeepsIdentity

\* add_passkey writes its signer's identity, in a slot that was free, and leaves
\* its attestations alone.
LEMMA AddPasskeyWrites ==
  ASSUME TypeInv, AddPasskey, NEW w \in Wallet, identities'[w] # identities[w]
  PROVE  /\ w \in Signers /\ KeepsIdentity(identities[w], identities'[w])
         /\ identities[w] # NoAccount
         /\ identities'[w].attestations = identities[w].attestations
<1> DEFINE id == identities[Ix.identity]
           new == WithPasskey(id, Ix.pubkey)
<1>1. Ix.identity \in Wallet /\ Ix.pubkey \in Credential /\ Ix.signer \in Signers
  BY CurrentInstruction, CurrentSigner, Operands, TypeInvParts DEF AddPasskey, Runs
<1>2. /\ OwnsIdentity(Ix) /\ CanAddPasskey(id)
      /\ identities' = [identities EXCEPT ![Ix.identity] = new]
  BY DEF AddPasskey
<1>3. /\ w = Ix.identity /\ w = Ix.signer /\ identities'[w] = new
  BY <1>1, <1>2, TypeInvParts DEF OwnsIdentity
<1>4. id # NoAccount /\ id \in Identity /\ CompactIdentity(id)
  BY <1>1, <1>2, TypeInvParts DEF OwnsIdentity, CompactTables
<1>5. /\ id.passkey_count \in PasskeySlot
      /\ new = [id EXCEPT !.passkeys[id.passkey_count] =
                            [pubkey |-> Ix.pubkey, is_active |-> TRUE],
                          !.passkey_count = id.passkey_count + 1]
      /\ new # NoAccount
  BY <1>1, <1>2, <1>4, WithPasskeyAppends, AccountAssumption
<1>6. ~id.passkeys[id.passkey_count].is_active
  BY <1>4, <1>5 DEF CompactIdentity, IsCompact, Identity
<1>7. /\ new.owner = id.owner /\ new.attestations = id.attestations
      /\ new.passkeys = [id.passkeys EXCEPT ![id.passkey_count] =
                           [pubkey |-> Ix.pubkey, is_active |-> TRUE]]
  BY <1>4, <1>5 DEF Identity
<1>8. KeepsIdentity(id, new)
  BY <1>4, <1>5, <1>6, <1>7 DEF KeepsIdentity, Identity
<1> QED
  BY <1>1, <1>3, <1>4, <1>7, <1>8

\* claim_attestation writes its signer's identity, in a slot that was free, and
\* what it writes there is an attestation of the issuer's schema.
LEMMA ClaimAttestationWrites ==
  ASSUME TypeInv, ClaimAttestation, NEW w \in Wallet, identities'[w] # identities[w]
  PROVE  /\ w \in Signers /\ KeepsIdentity(identities[w], identities'[w])
         /\ identities[w] # NoAccount
         /\ Ix.issuer \in Wallet /\ issuers[Ix.issuer] # NoAccount
         /\ \E s \in AttestationSlot :
              identities'[w].attestations =
                [identities[w].attestations EXCEPT ![s] =
                   [issuer |-> Ix.issuer, schema_id |-> issuers[Ix.issuer].schema_id,
                    is_active |-> TRUE]]
<1> DEFINE id == identities[Ix.identity]
           i == Ix.issuer
           schema == issuers[i].schema_id
           new == WithAttestation(id, i, schema)
<1>1. Ix.identity \in Wallet /\ i \in Wallet /\ Ix.signer \in Signers
  BY CurrentInstruction, CurrentSigner, Operands, TypeInvParts
     DEF ClaimAttestation, Runs
<1>2. /\ ClaimAccountsValid(Ix) /\ ClaimAllowed(Ix)
      /\ identities' = [identities EXCEPT ![Ix.identity] = new]
  BY DEF ClaimAttestation
<1>3. /\ w = Ix.identity /\ w = Ix.signer /\ identities'[w] = new
  BY <1>1, <1>2, TypeInvParts DEF ClaimAccountsValid, OwnsIdentity
<1>4. /\ id # NoAccount /\ id \in Identity /\ CompactIdentity(id)
      /\ issuers[i] # NoAccount /\ schema \in Schema
  BY <1>1, <1>2, TypeInvParts
     DEF ClaimAccountsValid, OwnsIdentity, CompactTables, Issuer
<1>5. /\ id.attestation_count \in AttestationSlot
      /\ new = [id EXCEPT !.attestations[id.attestation_count] =
                            [issuer |-> i, schema_id |-> schema, is_active |-> TRUE],
                          !.attestation_count = id.attestation_count + 1]
      /\ new # NoAccount
  <2>1. ~Full(id.attestations) /\ id.attestation_count < U8Max
    BY <1>2 DEF ClaimAllowed, CanRecordClaim
  <2>2. /\ id.attestation_count \in AttestationSlot
        /\ new = [id EXCEPT !.attestations[id.attestation_count] =
                              [issuer |-> i, schema_id |-> schema, is_active |-> TRUE],
                            !.attestation_count = id.attestation_count + 1]
        /\ new \in Identity
    BY <1>1, <1>4, <2>1, WithAttestationAppends
  <2> QED
    BY <2>2, AccountAssumption
<1>6. ~id.attestations[id.attestation_count].is_active
  BY <1>4, <1>5 DEF CompactIdentity, IsCompact, Identity
<1>7. /\ new.owner = id.owner /\ new.passkeys = id.passkeys
      /\ new.attestations = [id.attestations EXCEPT ![id.attestation_count] =
                               [issuer |-> i, schema_id |-> schema, is_active |-> TRUE]]
  BY <1>4, <1>5 DEF Identity
<1>8. KeepsIdentity(id, new)
  BY <1>4, <1>5, <1>6, <1>7 DEF KeepsIdentity, Identity
<1> QED
  BY <1>1, <1>3, <1>4, <1>5, <1>7, <1>8

\* What may become of an issuer account: its authority signed, or its count grew.
IssuerWrite(i, old, new) ==
  /\ KeepsIssuer(old, new)
  /\ \/ i \in Signers
     \/ old # NoAccount
        /\ new = [old EXCEPT !.attestation_count = new.attestation_count]

\* register_issuer writes its signer's issuer account, which did not exist.
LEMMA RegisterIssuerWrites ==
  ASSUME TypeInv, RegisterIssuer, NEW i \in Wallet, issuers'[i] # issuers[i]
  PROVE  IssuerWrite(i, issuers[i], issuers'[i])
<1>1. Ix.signer \in Wallet /\ Ix.signer \in Signers
  BY CurrentInstruction, CurrentSigner, Operands, TypeInvParts DEF RegisterIssuer, Runs
<1>2. i = Ix.signer /\ issuers[Ix.signer] = NoAccount
  BY <1>1, TypeInvParts DEF RegisterIssuer
<1> QED
  BY <1>1, <1>2 DEF IssuerWrite, KeepsIssuer

\* update_root writes its signer's issuer account, of which it changes the root.
LEMMA UpdateRootWrites ==
  ASSUME TypeInv, UpdateRoot, NEW i \in Wallet, issuers'[i] # issuers[i]
  PROVE  IssuerWrite(i, issuers[i], issuers'[i])
<1>1. /\ Ix.signer \in Signers /\ Ix.issuer \in Wallet /\ Ix.merkle_root \in Digest
  BY CurrentInstruction, CurrentSigner, Operands, TypeInvParts DEF UpdateRoot, Runs
<1>2. /\ OwnsIssuer(Ix)
      /\ issuers' = [issuers EXCEPT ![Ix.issuer].merkle_root = Ix.merkle_root]
  BY DEF UpdateRoot
<1>3. /\ i = Ix.issuer /\ i = Ix.signer
      /\ issuers[i] \in Issuer
      /\ issuers'[i] = [issuers[i] EXCEPT !.merkle_root = Ix.merkle_root]
  BY <1>1, <1>2, TypeInvParts DEF OwnsIssuer
<1>4. issuers'[i] \in Issuer
  BY <1>1, <1>3 DEF Issuer
<1>5. /\ issuers'[i].authority = issuers[i].authority
      /\ issuers'[i].schema_id = issuers[i].schema_id
      /\ issuers'[i].attestation_count = issuers[i].attestation_count
      /\ issuers[i].attestation_count \in Nat
  BY <1>3, CapacityAssumption DEF Issuer
<1>6. KeepsIssuer(issuers[i], issuers'[i])
  BY <1>4, <1>5, AccountAssumption DEF KeepsIssuer
<1> QED
  BY <1>1, <1>3, <1>6 DEF IssuerWrite

\* claim_attestation raises the count of the issuer it names.
LEMMA ClaimAttestationCounts ==
  ASSUME TypeInv, ClaimAttestation, NEW i \in Wallet, issuers'[i] # issuers[i]
  PROVE  IssuerWrite(i, issuers[i], issuers'[i])
<1>1. Ix.issuer \in Wallet
  BY CurrentInstruction, Operands, TypeInvParts DEF ClaimAttestation, Runs
<1>2. /\ ClaimAccountsValid(Ix) /\ ClaimAllowed(Ix)
      /\ issuers' = [issuers EXCEPT ![Ix.issuer].attestation_count = @ + 1]
  BY DEF ClaimAttestation
<1>3. /\ i = Ix.issuer
      /\ issuers[i] # NoAccount /\ issuers[i] \in Issuer
      /\ issuers'[i] = [issuers[i] EXCEPT !.attestation_count =
                          issuers[i].attestation_count + 1]
  BY <1>1, <1>2, TypeInvParts DEF ClaimAccountsValid
<1>4. /\ issuers[i].attestation_count \in 0..U64Max
      /\ issuers[i].attestation_count < U64Max
  BY <1>2, <1>3 DEF ClaimAllowed, CanRecordClaim, Issuer
<1>5. issuers[i].attestation_count + 1 \in 0..U64Max
  BY <1>4, CapacityAssumption
<1>6. issuers'[i] \in Issuer
  BY <1>3, <1>5 DEF Issuer
<1>7. /\ issuers'[i].authority = issuers[i].authority
      /\ issuers'[i].schema_id = issuers[i].schema_id
      /\ issuers'[i].attestation_count = issuers[i].attestation_count + 1
  BY <1>3 DEF Issuer
<1>8. KeepsIssuer(issuers[i], issuers'[i])
  BY <1>4, <1>6, <1>7, AccountAssumption, CapacityAssumption DEF KeepsIssuer
<1> QED
  BY <1>3, <1>7, <1>8 DEF IssuerWrite

\* Every step but a rollback writes only what its signers may, and loses nothing.
LEMMA StepWrites ==
  ASSUME TypeInv, [Next]_vars, ~Rollback
  PROVE  /\ \A w \in Wallet : identities'[w] # identities[w] =>
              w \in Signers /\ KeepsIdentity(identities[w], identities'[w])
         /\ \A i \in Wallet : issuers'[i] # issuers[i] =>
              IssuerWrite(i, issuers[i], issuers'[i])
         /\ nullifiers \subseteq nullifiers'
<1>1. ASSUME NEW w \in Wallet, identities'[w] # identities[w]
      PROVE  w \in Signers /\ KeepsIdentity(identities[w], identities'[w])
  <2>1. CreateIdentity \/ AddPasskey \/ ClaimAttestation
    BY <1>1 DEF Next, vars, Begin, VerifyPasskey, RegisterIssuer, UpdateRoot, Secp256r1,
         OutOfBudget, Commit
  <2> QED
    BY <1>1, <2>1, CreateIdentityWrites, AddPasskeyWrites, ClaimAttestationWrites
<1>2. ASSUME NEW i \in Wallet, issuers'[i] # issuers[i]
      PROVE  IssuerWrite(i, issuers[i], issuers'[i])
  <2>1. RegisterIssuer \/ UpdateRoot \/ ClaimAttestation
    BY <1>2 DEF Next, vars, Begin, CreateIdentity, AddPasskey, VerifyPasskey, Secp256r1,
         OutOfBudget, Commit
  <2> QED
    BY <1>2, <2>1, RegisterIssuerWrites, UpdateRootWrites, ClaimAttestationCounts
<1>3. nullifiers \subseteq nullifiers'
  BY DEF Next, vars, Begin, CreateIdentity, AddPasskey, VerifyPasskey, RegisterIssuer,
         UpdateRoot, ClaimAttestation, Secp256r1, OutOfBudget, Commit
<1> QED
  BY <1>1, <1>2, <1>3

-------------------------------------------------------------------------------
(***************************************************************************)
(* From one transaction boundary to the next.                              *)
(***************************************************************************)

\* What the transaction under way has made of the committed ledger.
WrittenBySigners ==
  /\ \A w \in Wallet : identities[w] # committed.identities[w] => w \in Signers
  /\ \A i \in Wallet :
       issuers[i] # committed.issuers[i] =>
         IssuerWrite(i, committed.issuers[i], issuers[i])

HistoryInv ==
  /\ TypeInv
  /\ Keeps(committed, View)
  /\ WrittenBySigners
  /\ tx.status = "idle" => View = committed

\* An empty ledger has no history.
LEMMA InitHistoryInv == Init => HistoryInv
<1> SUFFICES ASSUME Init
             PROVE  HistoryInv
  OBVIOUS
<1>1. TypeInv
  BY InitTypeInv
<1>2. View = committed /\ committed \in ViewType
  BY <1>1 DEF Init, TypeInv, TypeOK
<1>3. Keeps(committed, View)
  BY <1>2, ViewKeepsItself
<1>4. WrittenBySigners
  BY <1>2 DEF WrittenBySigners, View
<1> QED
  BY <1>1, <1>2, <1>3, <1>4 DEF HistoryInv

\* An instruction adds to what the transaction has written.
LEMMA InstructionHistory ==
  ASSUME HistoryInv, [Next]_vars, ~Rollback, committed' = committed, tx'.ixs = tx.ixs
  PROVE  Keeps(committed, View)' /\ WrittenBySigners'
<1>1. TypeInv /\ TypeInv' /\ Keeps(committed, View) /\ WrittenBySigners
  BY TypeInvStep DEF HistoryInv
<1>2. /\ committed \in ViewType /\ View \in ViewType /\ View' \in ViewType
  BY <1>1 DEF TypeInv, TypeOK
<1>3. Keeps(View, View')
  BY <1>1, <1>2, StepWrites, KeepsReflexive
     DEF Keeps, View, ViewType, IssuerWrite
<1>4. Keeps(committed, View')
  BY <1>1, <1>2, <1>3, KeepsTransitive
<1>5. Signers' = Signers
  BY DEF Signers
<1>6. ASSUME NEW w \in Wallet, identities'[w] # committed.identities[w]
      PROVE  w \in Signers
  BY <1>1, <1>6, StepWrites DEF WrittenBySigners
<1>7. ASSUME NEW i \in Wallet, issuers'[i] # committed.issuers[i]
      PROVE  IssuerWrite(i, committed.issuers[i], issuers'[i])
  <2>1. KeepsIssuer(committed.issuers[i], issuers'[i])
    BY <1>4 DEF Keeps, View
  <2>2. CASE i \in Signers
    BY <2>1, <2>2 DEF IssuerWrite
  <2>3. CASE issuers'[i] = issuers[i]
    BY <1>1, <1>7, <2>3 DEF WrittenBySigners
  <2>4. CASE i \notin Signers /\ issuers'[i] # issuers[i]
    <3>1. /\ issuers[i] # NoAccount
          /\ issuers'[i] = [issuers[i] EXCEPT !.attestation_count =
                              issuers'[i].attestation_count]
      BY <1>1, <2>4, StepWrites DEF IssuerWrite
    <3>2. CASE issuers[i] = committed.issuers[i]
      BY <2>1, <3>1, <3>2 DEF IssuerWrite
    <3>3. CASE issuers[i] # committed.issuers[i]
      <4>1. /\ committed.issuers[i] # NoAccount
            /\ issuers[i] = [committed.issuers[i] EXCEPT !.attestation_count =
                               issuers[i].attestation_count]
        BY <1>1, <2>4, <3>3 DEF WrittenBySigners, IssuerWrite
      <4>2. committed.issuers[i] \in Issuer /\ issuers[i] \in Issuer
        BY <1>2, <3>1, <4>1 DEF ViewType, View
      <4>3. issuers'[i] = [committed.issuers[i] EXCEPT !.attestation_count =
                             issuers'[i].attestation_count]
        BY <3>1, <4>1, <4>2 DEF Issuer
      <4> QED
        BY <2>1, <4>1, <4>3 DEF IssuerWrite
    <3> QED
      BY <3>2, <3>3
  <2> QED
    BY <2>2, <2>3, <2>4
<1>8. Keeps(committed, View)'
  BY <1>4 DEF Keeps
<1>9. WrittenBySigners'
  BY <1>5, <1>6, <1>7 DEF WrittenBySigners, IssuerWrite
<1> QED
  BY <1>8, <1>9

\* The history invariant is inductive.
LEMMA HistoryInvStep ==
  ASSUME HistoryInv, [Next]_vars
  PROVE  HistoryInv'
<1>1. TypeInv /\ TypeInv'
  BY TypeInvStep DEF HistoryInv
<1>2. ASSUME View' = committed'
      PROVE  HistoryInv'
  <2>1. committed' \in ViewType
    BY <1>1 DEF TypeInv, TypeOK
  <2>2. Keeps(committed', View')
    BY <1>2, <2>1, ViewKeepsItself
  <2>3. WrittenBySigners'
    BY <1>2 DEF WrittenBySigners, View
  <2> QED
    BY <1>1, <1>2, <2>2, <2>3 DEF HistoryInv, Keeps, View
<1>3. CASE Begin
  BY <1>2, <1>3, TypeInvParts DEF HistoryInv, Begin, View
<1>4. CASE Commit
  BY <1>2, <1>4 DEF Commit, View
<1>5. CASE Rollback
  BY <1>1, <1>2, <1>5, TypeInvParts DEF Rollback, View, ViewType
<1>6. CASE ~Begin /\ ~Commit /\ ~Rollback
  <2>1. committed' = committed /\ tx'.ixs = tx.ixs
    BY <1>1, <1>6, TypeInvParts
       DEF Next, vars, CreateIdentity, AddPasskey, VerifyPasskey, RegisterIssuer,
           UpdateRoot, ClaimAttestation, Secp256r1, OutOfBudget, Return, Error, TxTypeOK
  <2>2. tx'.status = "idle" => UNCHANGED vars
    BY <1>1, <1>6, TypeInvParts
       DEF Next, CreateIdentity, AddPasskey, VerifyPasskey, RegisterIssuer,
           UpdateRoot, ClaimAttestation, Secp256r1, OutOfBudget, Return, Error,
           TxTypeOK, Runs, Running
  <2>3. tx'.status = "idle" => View' = committed'
    BY <2>2 DEF HistoryInv, vars, View
  <2> QED
    BY <1>1, <1>6, <2>1, <2>3, InstructionHistory DEF HistoryInv
<1> QED
  BY <1>3, <1>4, <1>5, <1>6

\* HistoryInv holds in every reachable state.
THEOREM HistoryInvariance == Spec => []HistoryInv
BY InitHistoryInv, HistoryInvStep, PTL DEF Spec

\* No transaction, committed or rolled back, takes away a credential, an
\* attestation, an issuer's schema or a nullifier, whatever it is made of.
THEOREM LedgerAppendOnly == Spec => AppendOnly
<1>1. HistoryInv /\ [Next]_vars => [Keeps(committed, committed')]_committed
  BY Boundaries DEF HistoryInv
<1> QED
  BY <1>1, HistoryInvariance, PTL DEF Spec, AppendOnly

\* A transaction changes an identity only if its owner signed it, and of an issuer
\* whose authority did not sign only the count.
THEOREM OwnersWrite == Spec => OnlyOwnersWrite
<1> DEFINE Owned ==
      /\ \A w \in Wallet :
           committed'.identities[w] # committed.identities[w] => w \in Signers
      /\ \A i \in Wallet :
           \/ committed'.issuers[i] = committed.issuers[i]
           \/ i \in Signers
           \/ /\ committed.issuers[i] # NoAccount
              /\ committed'.issuers[i] =
                   [committed.issuers[i] EXCEPT
                      !.attestation_count = committed'.issuers[i].attestation_count]
<1>1. HistoryInv /\ [Next]_vars => [Owned]_committed
  BY Boundaries DEF HistoryInv, WrittenBySigners, IssuerWrite, View
<1> QED
  BY <1>1, HistoryInvariance, PTL DEF Spec, OnlyOwnersWrite

-------------------------------------------------------------------------------
(***************************************************************************)
(* Schemas.                                                                *)
(***************************************************************************)

\* A live attestation keeps naming an issuer of its schema when the issuers are
\* kept and the attestation stood before.
LEMMA SchemaKept ==
  ASSUME TypeInv, [Next]_vars, ~Rollback, SchemasAgree(View),
         NEW w \in Wallet, NEW s \in AttestationSlot,
         identities[w] # NoAccount, identities[w].attestations[s].is_active
  PROVE  LET a == identities[w].attestations[s]
         IN  /\ a.issuer \in Wallet
             /\ issuers'[a.issuer] # NoAccount
             /\ a.schema_id = issuers'[a.issuer].schema_id
<1> DEFINE a == identities[w].attestations[s]
<1>1. /\ a.issuer \in Wallet /\ issuers[a.issuer] # NoAccount
      /\ a.schema_id = issuers[a.issuer].schema_id
  BY DEF SchemasAgree, View
<1>2. \/ issuers'[a.issuer] = issuers[a.issuer]
      \/ KeepsIssuer(issuers[a.issuer], issuers'[a.issuer])
  BY <1>1, StepWrites DEF IssuerWrite
<1> QED
  BY <1>1, <1>2 DEF KeepsIssuer

\* Every step but a rollback leaves the attestations with their issuers' schemas:
\* a new one is written with the schema its issuer has.
LEMMA StepAgrees ==
  ASSUME TypeInv, [Next]_vars, ~Rollback, SchemasAgree(View)
  PROVE  SchemasAgree(View')
<1> SUFFICES ASSUME NEW w \in Wallet, NEW s \in AttestationSlot,
                    identities'[w] # NoAccount,
                    identities'[w].attestations[s].is_active
             PROVE  LET a == identities'[w].attestations[s]
                    IN  /\ a.issuer \in Wallet
                        /\ issuers'[a.issuer] # NoAccount
                        /\ a.schema_id = issuers'[a.issuer].schema_id
  BY DEF SchemasAgree, View
<1>1. CASE identities[w] # NoAccount
           /\ identities'[w].attestations[s] = identities[w].attestations[s]
  BY <1>1, SchemaKept
<1>2. CASE identities'[w] = identities[w]
  BY <1>1, <1>2
<1>3. CASE identities'[w] # identities[w]
  <2>1. CreateIdentity \/ AddPasskey \/ ClaimAttestation
    BY <1>3 DEF Next, vars, Begin, VerifyPasskey, RegisterIssuer, UpdateRoot, Secp256r1,
         OutOfBudget, Commit
  <2>2. CASE CreateIdentity
    BY <1>3, <2>2, CreateIdentityWrites
  <2>3. CASE AddPasskey
    BY <1>1, <1>3, <2>3, AddPasskeyWrites
  <2>4. CASE ClaimAttestation
    <3> DEFINE claimed == [issuer |-> Ix.issuer, schema_id |-> issuers[Ix.issuer].schema_id,
                           is_active |-> TRUE]
    <3>1. /\ identities[w] # NoAccount
          /\ Ix.issuer \in Wallet /\ issuers[Ix.issuer] # NoAccount
      BY <1>3, <2>4, ClaimAttestationWrites
    <3>2. PICK t \in AttestationSlot :
            identities'[w].attestations = [identities[w].attestations EXCEPT ![t] = claimed]
      BY <1>3, <2>4, ClaimAttestationWrites
    <3>3. identities[w].attestations \in [AttestationSlot -> Attestation]
      BY <3>1, TypeInvParts DEF Identity
    <3>4. CASE s # t
      BY <1>1, <3>1, <3>2, <3>3, <3>4
    <3>5. CASE s = t
      <4>1. identities'[w].attestations[s] = claimed
        BY <3>2, <3>3, <3>5
      <4>2. \/ issuers'[Ix.issuer] = issuers[Ix.issuer]
            \/ KeepsIssuer(issuers[Ix.issuer], issuers'[Ix.issuer])
        BY <3>1, StepWrites DEF IssuerWrite
      <4> QED
        BY <3>1, <4>1, <4>2 DEF KeepsIssuer
    <3> QED
      BY <3>4, <3>5
  <2> QED
    BY <2>1, <2>2, <2>3, <2>4
<1> QED
  BY <1>2, <1>3

\* An attestation asserts, for ever, the schema of the issuer it was claimed from,
\* however roots, counts and other accounts change in between.
THEOREM SchemaAgreement == Spec => []AttestationsKeepSchema
<1>1. Init => AttestationsKeepSchema
  BY DEF Init, AttestationsKeepSchema, SchemasAgree, View
<1>2. TypeInv /\ AttestationsKeepSchema /\ [Next]_vars => AttestationsKeepSchema'
  <2> SUFFICES ASSUME TypeInv, AttestationsKeepSchema, [Next]_vars
               PROVE  SchemasAgree(View') /\ SchemasAgree(committed')
    BY DEF AttestationsKeepSchema, SchemasAgree, View
  <2>1. SchemasAgree(committed')
    BY Boundaries DEF AttestationsKeepSchema
  <2>2. CASE Rollback
    BY <2>1, <2>2 DEF Rollback, SchemasAgree, View
  <2>3. CASE ~Rollback
    BY <2>1, <2>3, StepAgrees DEF AttestationsKeepSchema
  <2> QED
    BY <2>1, <2>2, <2>3
<1> QED
  BY <1>1, <1>2, TypeInvariance, PTL DEF Spec

-------------------------------------------------------------------------------
(***************************************************************************)
(* Possession: a PassKeyVerified event means that, by the time the         *)
(* transaction commits, the precompile has accepted a signature by the     *)
(* credential.  verify_passkey may run before the precompile instruction   *)
(* it relies on, so that the argument is about the whole transaction.      *)
(***************************************************************************)
\* What verify_passkey saw when it logged `e`, `first` being the precompile
\* instruction it stopped at.
Confirmed(ids, first, e) ==
  /\ e.identity \in Wallet /\ e.index \in PasskeySlot
  /\ ids[e.identity] # NoAccount
  /\ ids[e.identity].passkeys[e.index].is_active
  /\ Extractable(first)
  /\ first.sigs[1].pubkey = ids[e.identity].passkeys[e.index].pubkey
  /\ keccak(first.sigs[1].message) = e.message_hash

PrecompilesPassed ==
  \A i \in 1..(tx.next - 1) :
    tx.ixs[i].op = "secp256r1" => PrecompileAccepts(tx.ixs[i])

VerificationsConfirmed ==
  \A n \in 1..Len(tx.log) : tx.log[n].event = "PassKeyVerified" =>
    /\ PrecompilePositions # {}
    /\ Confirmed(identities, FirstPrecompile, tx.log[n])
    /\ tx.log[n].identity \in Signers

PossessionInv ==
  TypeInv /\ (Running => PrecompilesPassed /\ VerificationsConfirmed)

-------------------------------------------------------------------------------
\* The precompile instruction verify_passkey stops at is one of the transaction's.
LEMMA FirstPrecompilePosition ==
  ASSUME PrecompilePositions # {}
  PROVE  \E p \in 1..Len(tx.ixs) :
           tx.ixs[p].op = "secp256r1" /\ FirstPrecompile = tx.ixs[p]
<1>1. PrecompilePositions \subseteq Nat
  BY DEF PrecompilePositions
<1>2. Min(PrecompilePositions) \in PrecompilePositions
  BY <1>1, MinIsMember
<1> QED
  BY <1>2 DEF PrecompilePositions, FirstPrecompile

\* What was confirmed stays so: later instructions rewrite no credential.
LEMMA ConfirmedKept ==
  ASSUME TypeInv, [Next]_vars, ~Rollback, NEW first, NEW e,
         Confirmed(identities, first, e)
  PROVE  Confirmed(identities', first, e)
<1>1. \/ identities'[e.identity] = identities[e.identity]
      \/ KeepsIdentity(identities[e.identity], identities'[e.identity])
  BY StepWrites DEF Confirmed
<1> QED
  BY <1>1 DEF Confirmed, KeepsIdentity

\* What an instruction that succeeds does to the transaction under way.
LEMMA Advances ==
  ASSUME TypeInv, [Next]_vars, ~Begin, Running'
  PROVE  /\ Running /\ ~Rollback
         /\ tx'.ixs = tx.ixs
         /\ \/ tx' = tx
            \/ tx'.next = tx.next + 1 /\ tx'.log = tx.log
               /\ (Ix.op = "secp256r1" => PrecompileAccepts(Ix))
            \/ /\ tx'.next = tx.next + 1 /\ Ix.op # "secp256r1"
               /\ \E e : /\ tx'.log = Append(tx.log, e)
                         /\ e.event = "PassKeyVerified" => VerifyPasskey
<1>1. TxTypeOK
  BY TypeInvParts
<1>2. CASE UNCHANGED vars
  BY <1>2, TypeInvParts DEF vars, Running, Rollback, Idle
<1>3. CASE Secp256r1
  BY <1>1, <1>3 DEF Secp256r1, Error, Running, Runs, Rollback, Idle, TxTypeOK
<1>4. CASE CreateIdentity \/ AddPasskey \/ RegisterIssuer \/ UpdateRoot \/ ClaimAttestation
  <2>1. PICK e : Return(e) /\ e.event # "PassKeyVerified"
    BY <1>1, <1>4 DEF CreateIdentity, AddPasskey, RegisterIssuer, UpdateRoot,
         ClaimAttestation, Error, Running, TxTypeOK
  <2>2. Running /\ Ix.op # "secp256r1"
    BY <1>4 DEF CreateIdentity, AddPasskey, RegisterIssuer, UpdateRoot,
         ClaimAttestation, Runs
  <2> QED
    BY <1>1, <2>1, <2>2 DEF Return, Rollback, Running, Idle, TxTypeOK
<1>5. CASE VerifyPasskey
  <2>1. PICK e : Return(e)
    BY <1>1, <1>5 DEF VerifyPasskey, Error, Running, TxTypeOK
  <2>2. Running /\ Ix.op # "secp256r1"
    BY <1>5 DEF VerifyPasskey, Runs
  <2> QED
    BY <1>1, <1>5, <2>1, <2>2 DEF Return, Rollback, Running, Idle, TxTypeOK
<1>6. ~OutOfBudget /\ ~Commit /\ ~Rollback
  BY <1>1 DEF OutOfBudget, Commit, Rollback, Error, Idle, Running, TxTypeOK
<1> QED
  BY <1>2, <1>3, <1>4, <1>5, <1>6 DEF Next

-------------------------------------------------------------------------------
\* verify_passkey logs what it confirmed.
LEMMA VerifyConfirms ==
  ASSUME TypeInv, VerifyPasskey, Running'
  PROVE  /\ PrecompilePositions # {}
         /\ \E e : /\ tx'.log = Append(tx.log, e)
                   /\ Confirmed(identities, FirstPrecompile, e)
                   /\ e.identity \in Signers
<1>1. TxTypeOK /\ Ix.identity \in Wallet /\ Ix.signer \in Signers
  BY CurrentInstruction, CurrentSigner, Operands, TypeInvParts DEF VerifyPasskey, Runs
<1> DEFINE e == [event |-> "PassKeyVerified", identity |-> Ix.identity,
                 index |-> Ix.index,
                 message_hash |-> keccak(FirstPrecompile.sigs[1].message)]
<1>2. /\ OwnsIdentity(Ix) /\ PossessionConfirmed(identities[Ix.identity], Ix.index)
      /\ Return(e)
  BY <1>1 DEF VerifyPasskey, Error, Running, TxTypeOK
<1>3. tx'.log = Append(tx.log, e)
  BY <1>1, <1>2 DEF Return, TxTypeOK
<1>4. Confirmed(identities, FirstPrecompile, e)
  BY <1>1, <1>2 DEF Confirmed, PossessionConfirmed, HasPasskey, OwnsIdentity
<1>5. e.identity \in Signers /\ PrecompilePositions # {}
  BY <1>1, <1>2 DEF OwnsIdentity, PossessionConfirmed
<1> QED
  BY <1>3, <1>4, <1>5

\* An instruction that succeeds keeps the precompiles before the next one passed.
LEMMA PrecompilesPassedStep ==
  ASSUME TypeInv, [Next]_vars, ~Begin, Running', PrecompilesPassed
  PROVE  PrecompilesPassed'
<1>1. tx.next \in Nat /\ TxTypeOK
  BY TypeInvParts DEF TxTypeOK
<1>2. CASE tx' = tx
  BY <1>2 DEF PrecompilesPassed
<1>3. CASE tx' # tx
  <2>1. /\ tx'.next = tx.next + 1 /\ tx'.ixs = tx.ixs
        /\ Ix.op = "secp256r1" => PrecompileAccepts(Ix)
    BY <1>3, Advances
  <2> QED
    BY <1>1, <2>1 DEF PrecompilesPassed, Ix
<1> QED
  BY <1>2, <1>3

\* An instruction that succeeds leaves what was verified confirmed, and what it
\* verifies itself it has confirmed.
LEMMA VerificationsConfirmedStep ==
  ASSUME TypeInv, [Next]_vars, ~Begin, Running', VerificationsConfirmed
  PROVE  VerificationsConfirmed'
<1>1. tx.log \in Seq(Event)
  BY TypeInvParts DEF TxTypeOK
<1>2. /\ tx'.ixs = tx.ixs /\ ~Rollback
      /\ PrecompilePositions' = PrecompilePositions
      /\ FirstPrecompile' = FirstPrecompile
      /\ Signers' = Signers
  BY Advances DEF PrecompilePositions, FirstPrecompile, Signers
<1>3. ASSUME NEW e, PrecompilePositions # {}, e.identity \in Signers,
             Confirmed(identities, FirstPrecompile, e)
      PROVE  /\ PrecompilePositions' # {} /\ e.identity \in Signers'
             /\ Confirmed(identities', FirstPrecompile', e)
  BY <1>2, <1>3, ConfirmedKept
<1>4. CASE tx'.log = tx.log
  <2> SUFFICES ASSUME NEW n \in 1..Len(tx.log), tx.log[n].event = "PassKeyVerified"
               PROVE  /\ PrecompilePositions' # {}
                      /\ Confirmed(identities', FirstPrecompile', tx.log[n])
                      /\ tx.log[n].identity \in Signers'
    BY <1>4 DEF VerificationsConfirmed
  <2> QED
    BY <1>3 DEF VerificationsConfirmed
<1>5. CASE tx'.log # tx.log
  <2>1. PICK e : /\ tx'.log = Append(tx.log, e)
                 /\ e.event = "PassKeyVerified" => VerifyPasskey
    BY <1>5, Advances
  <2>2. ASSUME NEW n \in 1..Len(tx'.log), tx'.log[n].event = "PassKeyVerified"
        PROVE  /\ PrecompilePositions # {}
               /\ Confirmed(identities, FirstPrecompile, tx'.log[n])
               /\ tx'.log[n].identity \in Signers
    <3>1. CASE n \in 1..Len(tx.log)
      BY <1>1, <2>1, <2>2, <3>1 DEF VerificationsConfirmed
    <3>2. CASE n \notin 1..Len(tx.log)
      <4>1. n = Len(tx.log) + 1 /\ tx'.log[n] = e
        BY <1>1, <2>1, <3>2
      <4>2. VerifyPasskey
        BY <2>1, <2>2, <4>1
      <4>3. PICK v : /\ tx'.log = Append(tx.log, v)
                     /\ Confirmed(identities, FirstPrecompile, v)
                     /\ v.identity \in Signers
        BY <4>2, VerifyConfirms
      <4>4. tx'.log[n] = v
        BY <1>1, <4>1, <4>3
      <4> QED
        BY <4>2, <4>3, <4>4, VerifyConfirms
    <3> QED
      BY <3>1, <3>2
  <2>3. ASSUME NEW n \in 1..Len(tx'.log), tx'.log[n].event = "PassKeyVerified"
        PROVE  /\ PrecompilePositions' # {}
               /\ Confirmed(identities', FirstPrecompile', tx'.log[n])
               /\ tx'.log[n].identity \in Signers'
    BY <1>3, <2>2, <2>3
  <2> QED
    BY <2>3 DEF VerificationsConfirmed
<1> QED
  BY <1>4, <1>5

\* The possession invariant is inductive.
LEMMA PossessionInvStep ==
  ASSUME PossessionInv, [Next]_vars
  PROVE  PossessionInv'
<1>1. TypeInv /\ TypeInv'
  BY TypeInvStep DEF PossessionInv
<1>2. CASE Begin
  <2>1. tx'.next = 1 /\ tx'.log = << >>
    BY <1>2 DEF Begin, Idle
  <2> QED
    BY <1>1, <2>1 DEF PossessionInv, PrecompilesPassed, VerificationsConfirmed
<1>3. CASE ~Begin /\ Running'
  BY <1>1, <1>3, Advances, PrecompilesPassedStep, VerificationsConfirmedStep
     DEF PossessionInv
<1> QED
  BY <1>1, <1>2, <1>3 DEF PossessionInv

\* When every precompile instruction has passed, a confirmed verification is one
\* the precompile vouches for.
LEMMA PossessionVerified ==
  ASSUME PossessionInv
  PROVE  VerifiedMeansPossession
<1> SUFFICES ASSUME Running, Finished,
                    NEW n \in 1..Len(tx.log), tx.log[n].event = "PassKeyVerified"
             PROVE  LET e == tx.log[n]
                        key == identities[e.identity].passkeys[e.index]
                    IN  /\ key.is_active
                        /\ \E i \in 1..Len(tx.ixs) :
                             /\ tx.ixs[i].op = "secp256r1"
                             /\ \E j \in 1..Len(tx.ixs[i].sigs) :
                                  LET sig == tx.ixs[i].sigs[j]
                                  IN  /\ sig.embedded /\ sig.valid
                                      /\ sig.pubkey = key.pubkey
                                      /\ keccak(sig.message) = e.message_hash
                        /\ \E i \in 1..Len(tx.ixs) :
                             /\ tx.ixs[i].op # "secp256r1"
                             /\ tx.ixs[i].signer = e.identity
  BY DEF VerifiedMeansPossession
<1> DEFINE e == tx.log[n]
           key == identities[e.identity].passkeys[e.index]
<1>1. /\ PrecompilePositions # {} /\ e.identity \in Signers
      /\ Confirmed(identities, FirstPrecompile, e)
  BY DEF PossessionInv, VerificationsConfirmed
<1>2. TxTypeOK /\ tx.ixs \in Seq(Instruction)
  <2>1. TxTypeOK
    BY TypeInvParts DEF PossessionInv
  <2>2. << >> \in Seq(Instruction)
    OBVIOUS
  <2> QED
    BY <2>1, <2>2, TransactionAssumption DEF TxTypeOK
<1>3. PICK p \in 1..Len(tx.ixs) :
        tx.ixs[p].op = "secp256r1" /\ FirstPrecompile = tx.ixs[p]
  BY <1>1, FirstPrecompilePosition
<1>4. PrecompileAccepts(tx.ixs[p])
  <2>1. p \in 1..(tx.next - 1)
    BY <1>2 DEF Finished, TxTypeOK
  <2> QED
    BY <1>3, <2>1 DEF PossessionInv, PrecompilesPassed
<1>5. tx.ixs[p].sigs \in Seq(Signature)
  BY <1>2, <1>3, Operands
<1>6. 1 \in 1..Len(tx.ixs[p].sigs)
  BY <1>4, <1>5 DEF PrecompileAccepts
<1>7. /\ tx.ixs[p].sigs[1].embedded /\ tx.ixs[p].sigs[1].valid
      /\ tx.ixs[p].sigs[1].pubkey = key.pubkey
      /\ keccak(tx.ixs[p].sigs[1].message) = e.message_hash
      /\ key.is_active
  BY <1>1, <1>3, <1>4, <1>6 DEF Confirmed, Extractable, PrecompileAccepts
<1>8. \E i \in 1..Len(tx.ixs) :
        tx.ixs[i].op # "secp256r1" /\ tx.ixs[i].signer = e.identity
  BY <1>1 DEF Signers
<1> QED
  BY <1>3, <1>6, <1>7, <1>8

\* A transaction that commits having logged PassKeyVerified holds a signature of
\* the named credential, over the logged message, that the precompile accepted,
\* wherever the two instructions stand.
THEOREM Possession == Spec => []VerifiedMeansPossession
<1>1. Init => PossessionInv
  <2> SUFFICES ASSUME Init
               PROVE  PossessionInv
    OBVIOUS
  <2>1. TypeInv
    BY InitTypeInv
  <2>2. ~Running
    BY DEF Init, Idle, Running
  <2> QED
    BY <2>1, <2>2 DEF PossessionInv
<1>2. PossessionInv /\ [Next]_vars => PossessionInv'
  BY PossessionInvStep
<1>3. PossessionInv => VerifiedMeansPossession
  BY PossessionVerified
<1> QED
  BY <1>1, <1>2, <1>3, PTL DEF Spec
-------------------------------------------------------------------------------
(***************************************************************************)
(* Events: the log of the transaction under way accounts for what it has   *)
(* changed.                                                                *)
(***************************************************************************)
\* The event an instruction that succeeds logs.
LEMMA InstructionLogs ==
  ASSUME TypeInv, Next, Running, Running'
  PROVE  /\ committed' = committed
         /\ \/ Secp256r1 /\ tx'.log = tx.log
            \/ CreateIdentity /\ Return([event |-> "IdentityCreated", identity |-> Ix.signer])
            \/ AddPasskey /\ Return([event |-> "PassKeyAdded", identity |-> Ix.identity,
                                     index |-> free_slot(identities[Ix.identity].passkeys)])
            \/ VerifyPasskey /\ \E e : e.event = "PassKeyVerified" /\ Return(e)
            \/ RegisterIssuer /\ \E e : e.event = "IssuerRegistered" /\ Return(e)
            \/ UpdateRoot /\ Return([event |-> "RootUpdated", issuer |-> Ix.issuer,
                                     merkle_root |-> Ix.merkle_root])
            \/ ClaimAttestation
               /\ \E e : /\ e.event = "AttestationClaimed" /\ e.issuer = Ix.issuer
                         /\ Return(e)
<1>1. ~Error
  BY TypeInvParts DEF Error, Running, TxTypeOK
<1>2. tx' # Idle
  BY DEF Running, Idle
<1>3. ~Begin /\ ~OutOfBudget /\ ~Commit /\ ~Rollback
  BY <1>1, <1>2 DEF Begin, OutOfBudget, Commit, Rollback, Running
<1>4. CASE Secp256r1
  BY <1>1, <1>4, TypeInvParts DEF Secp256r1, TxTypeOK
<1>5. CASE CreateIdentity
  BY <1>1, <1>5 DEF CreateIdentity
<1>6. CASE AddPasskey
  BY <1>1, <1>6 DEF AddPasskey
<1>7. CASE VerifyPasskey
  <2>1. PICK h : Return([event |-> "PassKeyVerified", identity |-> Ix.identity,
                         index |-> Ix.index, message_hash |-> h])
    BY <1>1, <1>7 DEF VerifyPasskey
  <2> QED
    BY <1>7, <2>1 DEF VerifyPasskey
<1>8. CASE RegisterIssuer
  BY <1>1, <1>8 DEF RegisterIssuer
<1>9. CASE UpdateRoot
  BY <1>1, <1>9 DEF UpdateRoot
<1>10. CASE ClaimAttestation
  BY <1>1, <1>10 DEF ClaimAttestation
<1> QED
  BY <1>3, <1>4, <1>5, <1>6, <1>7, <1>8, <1>9, <1>10 DEF Next

\* Returning appends its event to the log.
LEMMA LogGrows ==
  ASSUME TxTypeOK, NEW e, Return(e)
  PROVE  /\ Len(tx.log) \in Nat /\ Len(tx'.log) = Len(tx.log) + 1
         /\ \A n \in 1..Len(tx.log) : tx'.log[n] = tx.log[n]
         /\ tx'.log[Len(tx.log) + 1] = e
<1>1. tx.log \in Seq(Event) /\ tx'.log = Append(tx.log, e)
  BY DEF TxTypeOK, Return
<1> QED
  BY <1>1

\* Instructions of other kinds log no event of this one.
LEMMA OthersLog ==
  ASSUME TypeInv, Next, Running, Running',
         NEW kind \in {"IdentityCreated", "PassKeyAdded", "RootUpdated", "AttestationClaimed"},
         kind = "IdentityCreated" => ~CreateIdentity,
         kind = "PassKeyAdded" => ~AddPasskey,
         kind = "RootUpdated" => ~UpdateRoot,
         kind = "AttestationClaimed" => ~ClaimAttestation
  PROVE  /\ {n \in 1..Len(tx'.log) : tx'.log[n].event = kind} =
              {n \in 1..Len(tx.log) : tx.log[n].event = kind}
         /\ \A n \in 1..Len(tx.log) : tx'.log[n] = tx.log[n]
<1>1. CASE tx'.log = tx.log
  BY <1>1
<1>2. CASE tx'.log # tx.log
  <2>1. PICK e : e.event # kind /\ Return(e)
    BY <1>2, InstructionLogs
  <2> DEFINE N == Len(tx.log)
  <2>2. /\ N \in Nat /\ Len(tx'.log) = N + 1
        /\ \A n \in 1..N : tx'.log[n] = tx.log[n]
        /\ tx'.log[N + 1] = e
    BY <2>1, LogGrows, TypeInvParts
  <2> HIDE DEF N
  <2>3. {n \in 1..(N + 1) : tx'.log[n].event = kind} = {n \in 1..N : tx.log[n].event = kind}
    BY <2>1, <2>2
  <2> QED
    BY <2>2, <2>3 DEF N
<1> QED
  BY <1>1, <1>2

\* An instruction that returns logs its event and what was logged before.
LEMMA LoggedAfter ==
  ASSUME TxTypeOK, NEW e, Return(e), NEW f
  PROVE  Logged(f)' <=> (Logged(f) \/ f = e)
<1> DEFINE N == Len(tx.log)
<1>1. /\ N \in Nat /\ Len(tx'.log) = N + 1
      /\ \A n \in 1..N : tx'.log[n] = tx.log[n]
      /\ tx'.log[N + 1] = e
  BY LogGrows
<1> HIDE DEF N
<1>2. (\E n \in 1..(N + 1) : tx'.log[n] = f) <=> ((\E n \in 1..N : tx.log[n] = f) \/ f = e)
  BY <1>1
<1> QED
  BY <1>1, <1>2 DEF Logged, N

\* An event of a kind no instruction logs now is logged if it was.
LEMMA LoggedBefore ==
  ASSUME NEW f,
         {n \in 1..Len(tx'.log) : tx'.log[n].event = f.event} =
           {n \in 1..Len(tx.log) : tx.log[n].event = f.event},
         \A n \in 1..Len(tx.log) : tx'.log[n] = tx.log[n]
  PROVE  Logged(f)' <=> Logged(f)
BY DEF Logged

\* An identity that did not exist when the transaction began exists now exactly
\* if its creation was logged.
LEMMA CreationsStep ==
  ASSUME HistoryInv, CreationsLogged, Next, Running, Running'
  PROVE  CreationsLogged'
<1> DEFINE created(w) == [event |-> "IdentityCreated", identity |-> w]
<1>1. TypeInv /\ TxTypeOK /\ committed' = committed
  BY InstructionLogs, TypeInvParts DEF HistoryInv
<1>2. CASE CreateIdentity
  <2>1. Ix.signer \in Wallet
    BY <1>1, <1>2, CurrentInstruction, Operands DEF CreateIdentity, Runs
  <2>2. Return(created(Ix.signer))
    BY <1>1, <1>2, InstructionLogs
       DEF CreateIdentity, AddPasskey, VerifyPasskey, RegisterIssuer, UpdateRoot,
           ClaimAttestation, Secp256r1, Runs
  <2>3. /\ identities[Ix.signer] = NoAccount
        /\ identities' = [identities EXCEPT ![Ix.signer] = NewIdentity(Ix.signer)]
    <3>1. ~Error
      BY TypeInvParts, <1>1 DEF Error, Running, TxTypeOK
    <3> QED
      BY <1>2, <3>1 DEF CreateIdentity
  <2>4. committed.identities[Ix.signer] = NoAccount
    BY <2>1, <2>3 DEF HistoryInv, Keeps, KeepsIdentity, View
  <2>5. NewIdentity(Ix.signer) # NoAccount
    BY <2>1, NewIdentityFits, AccountAssumption
  <2>6. ASSUME NEW w \in Wallet
        PROVE  (committed.identities[w] = NoAccount /\ identities'[w] # NoAccount)
                 <=> Logged(created(w))'
    <3>1. Logged(created(w))' <=> (Logged(created(w)) \/ created(w) = created(Ix.signer))
      BY <1>1, <2>2, LoggedAfter
    <3>2. created(w) = created(Ix.signer) <=> w = Ix.signer
      OBVIOUS
    <3>3. (committed.identities[w] = NoAccount /\ identities[w] # NoAccount)
            <=> Logged(created(w))
      BY DEF CreationsLogged
    <3>4. identities'[w] = IF w = Ix.signer THEN NewIdentity(w) ELSE identities[w]
      BY <1>1, <2>1, <2>3, TypeInvParts
    <3> HIDE DEF created
    <3> QED
      BY <2>4, <2>5, <3>1, <3>2, <3>3, <3>4
  <2> QED
    BY <1>1, <2>6 DEF CreationsLogged
<1>3. CASE ~CreateIdentity
  <2>1. ASSUME NEW w \in Wallet PROVE Logged(created(w))' <=> Logged(created(w))
    <3>1. created(w).event = "IdentityCreated"
      OBVIOUS
    <3> HIDE DEF created
    <3> QED
      BY <1>1, <1>3, <3>1, OthersLog, LoggedBefore
  <2>2. ASSUME NEW w \in Wallet
        PROVE  identities'[w] = NoAccount <=> identities[w] = NoAccount
    <3>1. CASE identities'[w] = identities[w]
      BY <3>1
    <3>2. CASE identities'[w] # identities[w]
      <4>1. AddPasskey \/ ClaimAttestation
        BY <1>3, <3>2, InstructionLogs, <1>1
           DEF VerifyPasskey, RegisterIssuer, UpdateRoot, Secp256r1
      <4> QED
        BY <1>1, <3>2, <4>1, AddPasskeyWrites, ClaimAttestationWrites DEF KeepsIdentity
    <3> QED
      BY <3>1, <3>2
  <2> HIDE DEF created
  <2>3. ASSUME NEW w \in Wallet
        PROVE  (committed'.identities[w] = NoAccount /\ identities'[w] # NoAccount)
                 <=> Logged(created(w))'
    BY <1>1, <2>1, <2>2 DEF CreationsLogged, created
  <2> QED
    BY <2>3 DEF CreationsLogged, created
<1> QED
  BY <1>2, <1>3

\* add_passkey fills the slot it logs, which was free.
LEMMA AddPasskeyEffect ==
  ASSUME TypeInv, AddPasskey, Running, Running'
  PROVE  LET w == Ix.identity
             slot == free_slot(identities[w].passkeys)
         IN  /\ w \in Wallet /\ slot \in PasskeySlot
             /\ identities[w] # NoAccount /\ ~identities[w].passkeys[slot].is_active
             /\ identities'[w] # NoAccount
             /\ \A s \in PasskeySlot :
                  identities'[w].passkeys[s].is_active <=>
                    (identities[w].passkeys[s].is_active \/ s = slot)
             /\ \A v \in Wallet : v # w => identities'[v] = identities[v]
<1> DEFINE w == Ix.identity
           id == identities[w]
           new == WithPasskey(id, Ix.pubkey)
<1>1. w \in Wallet /\ Ix.pubkey \in Credential
  BY CurrentInstruction, Operands, TypeInvParts DEF AddPasskey, Runs
<1>2. /\ OwnsIdentity(Ix) /\ CanAddPasskey(id)
      /\ identities' = [identities EXCEPT ![w] = new]
  <2>1. ~Error
    BY TypeInvParts DEF Error, Running, TxTypeOK
  <2> QED
    BY <2>1 DEF AddPasskey
<1>3. id # NoAccount /\ id \in Identity /\ CompactIdentity(id)
  BY <1>1, <1>2, TypeInvParts DEF OwnsIdentity, CompactTables
<1>4. /\ free_slot(id.passkeys) = id.passkey_count
      /\ id.passkey_count \in PasskeySlot
      /\ new = [id EXCEPT !.passkeys[id.passkey_count] =
                            [pubkey |-> Ix.pubkey, is_active |-> TRUE],
                          !.passkey_count = id.passkey_count + 1]
      /\ new # NoAccount
  BY <1>1, <1>2, <1>3, WithPasskeyAppends, AccountAssumption
<1>5. ~id.passkeys[id.passkey_count].is_active
  BY <1>3, <1>4 DEF CompactIdentity, IsCompact, Identity
<1>6. new.passkeys = [id.passkeys EXCEPT ![id.passkey_count] =
                        [pubkey |-> Ix.pubkey, is_active |-> TRUE]]
  BY <1>3, <1>4 DEF Identity
<1>7. \A s \in PasskeySlot :
        new.passkeys[s].is_active <=> (id.passkeys[s].is_active \/ s = id.passkey_count)
  BY <1>3, <1>4, <1>6 DEF Identity
<1>8. identities'[w] = new /\ \A v \in Wallet : v # w => identities'[v] = identities[v]
  BY <1>1, <1>2, TypeInvParts
<1> HIDE DEF new
<1> QED
  BY <1>1, <1>3, <1>4, <1>5, <1>7, <1>8

\* Only add_passkey makes a credential live.
LEMMA OthersAddNoPasskey ==
  ASSUME TypeInv, Next, Running, Running', ~AddPasskey, NEW w \in Wallet, NEW s \in PasskeySlot
  PROVE  (identities'[w] # NoAccount /\ identities'[w].passkeys[s].is_active)
           <=> (identities[w] # NoAccount /\ identities[w].passkeys[s].is_active)
<1>1. CASE identities'[w] = identities[w]
  BY <1>1
<1>2. CASE CreateIdentity /\ identities'[w] # identities[w]
  <2>1. Ix.signer \in Wallet
    BY <1>2, CurrentInstruction, Operands, TypeInvParts DEF CreateIdentity, Runs
  <2>2. identities[w] = NoAccount /\ identities'[w] = NewIdentity(w)
    BY <1>2, <2>1, TypeInvParts DEF CreateIdentity
  <2>3. ~NewIdentity(w).passkeys[s].is_active
    BY DEF NewIdentity
  <2> QED
    BY <2>2, <2>3
<1>3. CASE ClaimAttestation /\ identities'[w] # identities[w]
  <2> DEFINE new == WithAttestation(identities[w], Ix.issuer, issuers[Ix.issuer].schema_id)
  <2>1. Ix.identity \in Wallet
    BY <1>3, CurrentInstruction, Operands, TypeInvParts DEF ClaimAttestation, Runs
  <2>2. identities'[w] = new
    BY <1>3, <2>1, TypeInvParts DEF ClaimAttestation
  <2>3. /\ identities[w] # NoAccount /\ identities[w] \in Identity
        /\ KeepsIdentity(identities[w], identities'[w])
    BY <1>3, ClaimAttestationWrites, TypeInvParts
  <2>4. new.passkeys = identities[w].passkeys
    BY <2>3 DEF WithAttestation, Identity
  <2> HIDE DEF new
  <2> QED
    BY <2>2, <2>3, <2>4 DEF KeepsIdentity
<1>4. identities'[w] # identities[w] => CreateIdentity \/ ClaimAttestation
  BY InstructionLogs DEF VerifyPasskey, RegisterIssuer, UpdateRoot, Secp256r1
<1> QED
  BY <1>1, <1>2, <1>3, <1>4

\* A slot holds a credential it did not hold when the transaction began exactly if
\* its addition was logged.
LEMMA PasskeysStep ==
  ASSUME HistoryInv, PasskeysLogged, Next, Running, Running'
  PROVE  PasskeysLogged'
<1> DEFINE added(w, s) == [event |-> "PassKeyAdded", identity |-> w, index |-> s]
           live(w, s) == identities[w] # NoAccount /\ identities[w].passkeys[s].is_active
           livePrime(w, s) == identities'[w] # NoAccount /\ identities'[w].passkeys[s].is_active
           had(w, s) == HadPasskey(committed, w, s)
<1>1. TypeInv /\ TxTypeOK /\ committed' = committed
  BY InstructionLogs, TypeInvParts DEF HistoryInv
<1>2. ASSUME NEW w \in Wallet, NEW s \in PasskeySlot
      PROVE  (live(w, s) /\ ~had(w, s)) <=> Logged(added(w, s))
  BY DEF PasskeysLogged, HadPasskey, View
<1>3. CASE AddPasskey
  <2> DEFINE u == Ix.identity
             slot == free_slot(identities[u].passkeys)
  <2>1. /\ u \in Wallet /\ slot \in PasskeySlot /\ ~live(u, slot)
        /\ \A s \in PasskeySlot : livePrime(u, s) <=> (live(u, s) \/ s = slot)
        /\ \A v \in Wallet : v # u => identities'[v] = identities[v]
    BY <1>1, <1>3, AddPasskeyEffect
  <2>2. Return(added(u, slot))
    BY <1>1, <1>3, InstructionLogs
       DEF CreateIdentity, AddPasskey, VerifyPasskey, RegisterIssuer, UpdateRoot,
           ClaimAttestation, Secp256r1, Runs
  <2>3. ~had(u, slot)
    BY <2>1 DEF HistoryInv, Keeps, KeepsIdentity, View, HadPasskey
  <2>4. ASSUME NEW w \in Wallet, NEW s \in PasskeySlot
        PROVE  (livePrime(w, s) /\ ~had(w, s)) <=> Logged(added(w, s))'
    <3>1. Logged(added(w, s))' <=> (Logged(added(w, s)) \/ added(w, s) = added(u, slot))
      BY <1>1, <2>2, LoggedAfter
    <3> HIDE DEF u, slot
    <3>2. added(w, s) = added(u, slot) <=> (w = u /\ s = slot)
      OBVIOUS
    <3>3. livePrime(w, s) <=> (live(w, s) \/ (w = u /\ s = slot))
      BY <2>1
    <3> HIDE DEF added, live, livePrime, had
    <3> QED
      BY <1>2, <2>3, <3>1, <3>2, <3>3
  <2> QED
    BY <1>1, <2>4 DEF PasskeysLogged, HadPasskey, View
<1>4. CASE ~AddPasskey
  <2>1. ASSUME NEW w \in Wallet, NEW s \in PasskeySlot
        PROVE  Logged(added(w, s))' <=> Logged(added(w, s))
    <3>1. added(w, s).event = "PassKeyAdded"
      OBVIOUS
    <3> HIDE DEF added
    <3> QED
      BY <1>1, <1>4, <3>1, OthersLog, LoggedBefore
  <2>2. ASSUME NEW w \in Wallet, NEW s \in PasskeySlot PROVE livePrime(w, s) <=> live(w, s)
    BY <1>1, <1>4, OthersAddNoPasskey
  <2>3. ASSUME NEW w \in Wallet, NEW s \in PasskeySlot
        PROVE  (livePrime(w, s) /\ ~had(w, s)) <=> Logged(added(w, s))'
    <3> HIDE DEF added, live, livePrime, had
    <3> QED
      BY <1>2, <2>1, <2>2
  <2> QED
    BY <1>1, <2>3 DEF PasskeysLogged, HadPasskey, View
<1> QED
  BY <1>3, <1>4

-------------------------------------------------------------------------------
\* claim_attestation raises its issuer's count by one; no other instruction changes
\* a count, that of an issuer it registers included.
LEMMA CountsAfter ==
  ASSUME TypeInv, Next, Running, Running', NEW i \in Wallet
  PROVE  /\ ClaimCount(View, i) \in Nat
         /\ ClaimCount(View, i)' = IF ClaimAttestation /\ i = Ix.issuer
                                   THEN ClaimCount(View, i) + 1 ELSE ClaimCount(View, i)
<1> DEFINE Count(account) == IF account = NoAccount THEN 0 ELSE account.attestation_count
<1>1. Count(issuers[i]) \in Nat
  BY TypeInvParts, CapacityAssumption DEF Issuer
<1>2. Count(issuers'[i]) = IF ClaimAttestation /\ i = Ix.issuer
                           THEN Count(issuers[i]) + 1 ELSE Count(issuers[i])
  <2>1. CASE ClaimAttestation
    <3>1. ~Error
      BY TypeInvParts DEF Error, Running, TxTypeOK
    <3>2. Ix.issuer \in Wallet
      BY <2>1, CurrentInstruction, Operands, TypeInvParts DEF ClaimAttestation, Runs
    <3>3. /\ issuers[Ix.issuer] # NoAccount
          /\ issuers' = [issuers EXCEPT ![Ix.issuer].attestation_count = @ + 1]
      BY <2>1, <3>1 DEF ClaimAttestation, ClaimAccountsValid
    <3>4. CASE i = Ix.issuer
      <4>1. issuers[i] \in Issuer
            /\ issuers'[i] = [issuers[i] EXCEPT !.attestation_count =
                                issuers[i].attestation_count + 1]
        BY <3>2, <3>3, <3>4, TypeInvParts
      <4>2. issuers'[i].attestation_count = issuers[i].attestation_count + 1
        BY <4>1 DEF Issuer
      <4>3. issuers'[i] # NoAccount
        <5>1. issuers'[i] # issuers[i]
          BY <4>2, <4>1, CapacityAssumption DEF Issuer
        <5> QED
          BY <2>1, <3>3, <3>4, <5>1, ClaimAttestationCounts DEF IssuerWrite, KeepsIssuer
      <4> QED
        BY <2>1, <3>3, <3>4, <4>2, <4>3
    <3>5. CASE i # Ix.issuer
      <4>1. issuers'[i] = issuers[i]
        BY <3>2, <3>3, <3>5, TypeInvParts
      <4> QED
        BY <3>5, <4>1
    <3> QED
      BY <3>4, <3>5
  <2>2. CASE RegisterIssuer /\ issuers'[i] # issuers[i]
    <3>1. Ix.signer \in Wallet
      BY <2>2, CurrentInstruction, Operands, TypeInvParts DEF RegisterIssuer, Runs
    <3>2. /\ issuers[i] = NoAccount
          /\ issuers'[i].attestation_count = 0
      BY <2>2, <3>1, TypeInvParts DEF RegisterIssuer
    <3>3. ~ClaimAttestation
      BY <2>2 DEF RegisterIssuer, ClaimAttestation, Runs
    <3> QED
      BY <3>2, <3>3
  <2>3. CASE UpdateRoot /\ issuers'[i] # issuers[i]
    <3>1. Ix.issuer \in Wallet
      BY <2>3, CurrentInstruction, Operands, TypeInvParts DEF UpdateRoot, Runs
    <3>2. /\ i = Ix.issuer /\ issuers[i] # NoAccount /\ issuers[i] \in Issuer
          /\ issuers'[i] = [issuers[i] EXCEPT !.merkle_root = Ix.merkle_root]
      BY <2>3, <3>1, TypeInvParts DEF UpdateRoot, OwnsIssuer
    <3>3. issuers'[i].attestation_count = issuers[i].attestation_count
      BY <3>2 DEF Issuer
    <3>4. issuers'[i] # NoAccount
      BY <2>3, <3>2, UpdateRootWrites DEF IssuerWrite, KeepsIssuer
    <3>5. ~ClaimAttestation
      BY <2>3 DEF UpdateRoot, ClaimAttestation, Runs
    <3> QED
      BY <3>2, <3>3, <3>4, <3>5
  <2>4. CASE issuers'[i] = issuers[i] /\ ~ClaimAttestation
    BY <2>4
  <2>5. issuers'[i] # issuers[i] => RegisterIssuer \/ UpdateRoot \/ ClaimAttestation
    BY InstructionLogs DEF CreateIdentity, AddPasskey, VerifyPasskey, Secp256r1
  <2> QED
    BY <2>1, <2>2, <2>3, <2>4, <2>5
<1> QED
  BY <1>1, <1>2 DEF ClaimCount, View

\* Each claim logs one event.
LEMMA ClaimsStep ==
  ASSUME HistoryInv, ClaimsLogged, Next, Running, Running'
  PROVE  ClaimsLogged'
<1> DEFINE kind == "AttestationClaimed"
           N == Len(tx.log)
<1>1. TypeInv /\ TxTypeOK /\ committed' = committed /\ N \in Nat
  <2>1. TxTypeOK
    BY TypeInvParts DEF HistoryInv
  <2>2. N \in Nat
    BY <2>1 DEF TxTypeOK
  <2> QED
    BY <2>1, <2>2, InstructionLogs DEF HistoryInv
<1> SUFFICES ASSUME NEW i \in Wallet
             PROVE  ClaimCount(View, i)' - ClaimCount(committed, i) =
                      Cardinality({n \in 1..Len(tx'.log) :
                                     tx'.log[n].event = kind /\ tx'.log[n].issuer = i})
  BY <1>1 DEF ClaimsLogged, ClaimCount
<1> DEFINE old == {n \in 1..N : tx.log[n].event = kind /\ tx.log[n].issuer = i}
           new == {n \in 1..Len(tx'.log) : tx'.log[n].event = kind /\ tx'.log[n].issuer = i}
           before == ClaimCount(committed, i)
           now == ClaimCount(View, i)
           then == ClaimCount(View, i)'
<1>2. now - before = Cardinality(old)
  BY DEF ClaimsLogged
<1>3. before \in Nat
  BY <1>1, TypeInvParts, CapacityAssumption DEF ClaimCount, ViewType, Issuer
<1>4. now \in Nat /\ then = IF ClaimAttestation /\ i = Ix.issuer THEN now + 1 ELSE now
  BY <1>1, CountsAfter
<1>5. IsFiniteSet(old) /\ Cardinality(old) \in Nat
  <2>1. IsFiniteSet(1..N) /\ old \subseteq 1..N
    BY <1>1, FS_Interval
  <2> HIDE DEF old
  <2> QED
    BY <2>1, FS_Subset, FS_CardinalityType
<1>6. CASE ClaimAttestation
  <2>1. PICK e : e.event = kind /\ e.issuer = Ix.issuer /\ Return(e)
    BY <1>1, <1>6, InstructionLogs
       DEF CreateIdentity, AddPasskey, VerifyPasskey, RegisterIssuer, UpdateRoot,
           ClaimAttestation, Secp256r1, Runs
  <2>2. /\ Len(tx'.log) = N + 1
        /\ \A n \in 1..N : tx'.log[n] = tx.log[n]
        /\ tx'.log[N + 1] = e
    BY <1>1, <2>1, LogGrows
  <2> HIDE DEF N
  <2>3. new = IF i = Ix.issuer THEN old \cup {N + 1} ELSE old
    BY <1>1, <2>1, <2>2
  <2>4. N + 1 \notin old
    BY <1>1
  <2> HIDE DEF old, new, before, now, then
  <2>5. CASE i = Ix.issuer
    <3>1. Cardinality(new) = Cardinality(old) + 1
      BY <1>5, <2>3, <2>4, <2>5, FS_AddElement
    <3> QED
      BY <1>2, <1>3, <1>4, <1>5, <1>6, <2>5, <3>1 DEF new, before, then
  <2>6. CASE i # Ix.issuer
    BY <1>2, <1>4, <2>3, <2>6 DEF new, before, then
  <2> QED
    BY <2>5, <2>6
<1>7. CASE ~ClaimAttestation
  <2>1. /\ {n \in 1..Len(tx'.log) : tx'.log[n].event = kind} =
             {n \in 1..N : tx.log[n].event = kind}
        /\ \A n \in 1..N : tx'.log[n] = tx.log[n]
    BY <1>1, <1>7, OthersLog
  <2>2. new = old
    BY <2>1
  <2> HIDE DEF old, new, before, now, then
  <2> QED
    BY <1>2, <1>4, <1>7, <2>2 DEF new, before, then
<1> QED
  BY <1>6, <1>7

-------------------------------------------------------------------------------
\* A root is only logged of an issuer that exists.
UpdatedIssuersExist ==
  \A n \in 1..Len(tx.log) :
    tx.log[n].event = "RootUpdated" => issuers[tx.log[n].issuer] # NoAccount

\* Only update_root changes the root of an issuer that exists.
LEMMA OthersKeepRoot ==
  ASSUME TypeInv, Next, Running, Running', ~UpdateRoot,
         NEW i \in Wallet, issuers[i] # NoAccount
  PROVE  issuers'[i] # NoAccount /\ issuers'[i].merkle_root = issuers[i].merkle_root
<1>1. CASE issuers'[i] = issuers[i]
  BY <1>1
<1>2. CASE issuers'[i] # issuers[i]
  <2>1. RegisterIssuer \/ ClaimAttestation
    BY <1>2, InstructionLogs DEF CreateIdentity, AddPasskey, VerifyPasskey, Secp256r1
  <2>2. ClaimAttestation
    <3>1. ASSUME RegisterIssuer PROVE FALSE
      <4>1. Ix.signer \in Wallet
        BY <3>1, CurrentInstruction, Operands, TypeInvParts DEF RegisterIssuer, Runs
      <4> QED
        BY <1>2, <3>1, <4>1, TypeInvParts DEF RegisterIssuer
    <3> QED
      BY <2>1, <3>1
  <2>3. issuers'[i] # NoAccount
    BY <1>2, <2>2, ClaimAttestationCounts DEF IssuerWrite, KeepsIssuer
  <2>4. Ix.issuer \in Wallet
    BY <2>2, CurrentInstruction, Operands, TypeInvParts DEF ClaimAttestation, Runs
  <2>5. /\ i = Ix.issuer /\ issuers[i] \in Issuer
        /\ issuers'[i] = [issuers[i] EXCEPT !.attestation_count = @ + 1]
    BY <1>2, <2>2, <2>4, TypeInvParts DEF ClaimAttestation
  <2> QED
    BY <2>3, <2>5 DEF Issuer
<1> QED
  BY <1>1, <1>2

\* update_root logs the root it writes.
LEMMA UpdateRootEffect ==
  ASSUME TypeInv, UpdateRoot, Running, Running'
  PROVE  /\ Ix.issuer \in Wallet
         /\ issuers'[Ix.issuer] # NoAccount /\ issuers'[Ix.issuer].merkle_root = Ix.merkle_root
         /\ \A i \in Wallet : i # Ix.issuer => issuers'[i] = issuers[i]
<1>1. Ix.issuer \in Wallet /\ Ix.merkle_root \in Digest
  BY CurrentInstruction, Operands, TypeInvParts DEF UpdateRoot, Runs
<1>2. /\ issuers[Ix.issuer] # NoAccount
      /\ issuers' = [issuers EXCEPT ![Ix.issuer].merkle_root = Ix.merkle_root]
  <2>1. ~Error
    BY TypeInvParts DEF Error, Running, TxTypeOK
  <2> QED
    BY <2>1 DEF UpdateRoot, OwnsIssuer
<1>3. /\ issuers[Ix.issuer] \in Issuer
      /\ issuers'[Ix.issuer] = [issuers[Ix.issuer] EXCEPT !.merkle_root = Ix.merkle_root]
      /\ \A i \in Wallet : i # Ix.issuer => issuers'[i] = issuers[i]
  BY <1>1, <1>2, TypeInvParts
<1>4. issuers'[Ix.issuer] \in Issuer /\ issuers'[Ix.issuer].merkle_root = Ix.merkle_root
  BY <1>1, <1>3 DEF Issuer
<1> QED
  BY <1>1, <1>3, <1>4, AccountAssumption

\* The last root logged of an issuer is its root.
LEMMA RootsStep ==
  ASSUME HistoryInv, RootsLogged, UpdatedIssuersExist, Next, Running, Running'
  PROVE  RootsLogged' /\ UpdatedIssuersExist'
<1> DEFINE kind == "RootUpdated"
           N == Len(tx.log)
           All == {n \in 1..N : tx.log[n].event = kind}
           AllNew == {n \in 1..Len(tx'.log) : tx'.log[n].event = kind}
           Of(i) == {n \in 1..N : tx.log[n].event = kind /\ tx.log[n].issuer = i}
           OfNew(i) == {n \in 1..Len(tx'.log) : tx'.log[n].event = kind /\ tx'.log[n].issuer = i}
<1>1. TypeInv /\ TxTypeOK /\ committed' = committed /\ N \in Nat
  <2>1. TxTypeOK
    BY TypeInvParts DEF HistoryInv
  <2>2. N \in Nat
    BY <2>1 DEF TxTypeOK
  <2> QED
    BY <2>1, <2>2, InstructionLogs DEF HistoryInv
<1>2. ASSUME NEW i \in Wallet
      PROVE  /\ \A n \in Of(i) : (\A m \in Of(i) : m <= n) =>
                  tx.log[n].merkle_root = issuers[i].merkle_root
             /\ Of(i) = {} /\ committed.issuers[i] # NoAccount =>
                  issuers[i].merkle_root = committed.issuers[i].merkle_root
             /\ Of(i) # {} => issuers[i] # NoAccount
  <2>1. Of(i) # {} => issuers[i] # NoAccount
    BY DEF UpdatedIssuersExist
  <2> QED
    BY <2>1 DEF RootsLogged
<1>3. ASSUME NEW i \in Wallet, committed.issuers[i] # NoAccount PROVE issuers[i] # NoAccount
  BY <1>3 DEF HistoryInv, Keeps, KeepsIssuer, View
<1>4. ASSUME NEW n \in AllNew PROVE tx'.log[n].issuer \in Wallet
  <2>1. tx'.log \in Seq(Event)
    <3>1. TypeInv'
      BY <1>1, TypeInvStep
    <3> QED
      BY <3>1 DEF TypeInv, TypeOK, TxTypeOK
  <2>2. tx'.log[n] \in Event /\ tx'.log[n].event = kind
    BY <2>1
  <2> QED
    BY <2>2 DEF Event
<1> SUFFICES ASSUME NEW i \in Wallet
             PROVE  /\ \A n \in OfNew(i) : (\A m \in OfNew(i) : m <= n) =>
                         tx'.log[n].merkle_root = issuers'[i].merkle_root
                    /\ OfNew(i) = {} /\ committed.issuers[i] # NoAccount =>
                         issuers'[i].merkle_root = committed.issuers[i].merkle_root
                    /\ OfNew(i) # {} => issuers'[i] # NoAccount
  BY <1>1, <1>4 DEF RootsLogged, UpdatedIssuersExist
<1>5. CASE UpdateRoot
  <2> DEFINE e == [event |-> "RootUpdated", issuer |-> Ix.issuer,
                   merkle_root |-> Ix.merkle_root]
  <2>1. Return(e)
    BY <1>1, <1>5, InstructionLogs
       DEF CreateIdentity, AddPasskey, VerifyPasskey, RegisterIssuer, UpdateRoot,
           ClaimAttestation, Secp256r1, Runs
  <2>2. /\ Len(tx'.log) = N + 1
        /\ \A n \in 1..N : tx'.log[n] = tx.log[n]
        /\ tx'.log[N + 1] = e
    BY <1>1, <2>1, LogGrows
  <2>3. /\ issuers'[Ix.issuer] # NoAccount /\ issuers'[Ix.issuer].merkle_root = Ix.merkle_root
        /\ i # Ix.issuer => issuers'[i] = issuers[i]
    BY <1>1, <1>5, UpdateRootEffect
  <2>4. e.event = kind /\ e.issuer = Ix.issuer /\ e.merkle_root = Ix.merkle_root
    OBVIOUS
  <2> HIDE DEF N, e
  <2>5. CASE i = Ix.issuer
    <3>1. N + 1 \in OfNew(i) /\ \A n \in OfNew(i) : n \in 1..(N + 1)
      BY <1>1, <2>2, <2>4, <2>5
    <3> HIDE DEF OfNew
    <3>2. ASSUME NEW n \in OfNew(i), \A m \in OfNew(i) : m <= n
          PROVE  n = N + 1
      BY <1>1, <3>1, <3>2
    <3>3. ASSUME NEW n \in OfNew(i), \A m \in OfNew(i) : m <= n
          PROVE  tx'.log[n].merkle_root = issuers'[i].merkle_root
      <4>1. tx'.log[n] = e
        BY <2>2, <3>2, <3>3
      <4> QED
        BY <2>3, <2>4, <2>5, <4>1
    <3> QED
      BY <2>3, <2>5, <3>1, <3>3
  <2>6. CASE i # Ix.issuer
    <3>1. OfNew(i) = Of(i)
      BY <1>1, <2>2, <2>4, <2>6
    <3>2. \A n \in Of(i) : tx'.log[n] = tx.log[n]
      BY <2>2
    <3> HIDE DEF Of, OfNew
    <3> QED
      BY <1>2, <2>3, <2>6, <3>1, <3>2
  <2> QED
    BY <2>5, <2>6
<1>6. CASE ~UpdateRoot
  <2>1. AllNew = All /\ \A n \in 1..N : tx'.log[n] = tx.log[n]
    BY <1>1, <1>6, OthersLog
  <2>2. OfNew(i) = Of(i)
    <3>1. OfNew(i) = {n \in AllNew : tx'.log[n].issuer = i}
      OBVIOUS
    <3>2. Of(i) = {n \in All : tx.log[n].issuer = i}
      OBVIOUS
    <3>3. \A n \in All : tx'.log[n] = tx.log[n]
      BY <2>1
    <3> HIDE DEF OfNew, Of, All, AllNew
    <3> QED
      BY <2>1, <3>1, <3>2, <3>3
  <2>3. \A n \in Of(i) : tx'.log[n] = tx.log[n]
    BY <2>1
  <2>4. issuers[i] # NoAccount =>
          issuers'[i] # NoAccount /\ issuers'[i].merkle_root = issuers[i].merkle_root
    BY <1>1, <1>6, OthersKeepRoot
  <2> HIDE DEF Of, OfNew
  <2> QED
    BY <1>2, <1>3, <2>2, <2>3, <2>4
<1> QED
  BY <1>5, <1>6

-------------------------------------------------------------------------------
EventsInv ==
  /\ HistoryInv
  /\ Running => UpdatedIssuersExist /\ CreationsLogged /\ PasskeysLogged
                /\ ClaimsLogged /\ RootsLogged

\* A transaction begins with an empty log over the committed accounts.
LEMMA EventsBegin ==
  ASSUME HistoryInv, Begin
  PROVE  (UpdatedIssuersExist /\ CreationsLogged /\ PasskeysLogged /\ ClaimsLogged
          /\ RootsLogged)'
<1>1. /\ Len(tx'.log) = 0
      /\ identities' = identities /\ issuers' = issuers /\ committed' = committed
      /\ View' = View
  BY DEF Begin, Idle, View
<1>2. View = committed
  BY DEF HistoryInv, Begin
<1>3. identities = committed.identities /\ issuers = committed.issuers
  BY <1>2 DEF View
<1>4. UpdatedIssuersExist'
  BY <1>1 DEF UpdatedIssuersExist
<1>5. CreationsLogged'
  BY <1>1, <1>3 DEF CreationsLogged, Logged
<1>6. PasskeysLogged'
  BY <1>1, <1>2 DEF PasskeysLogged, Logged, HadPasskey
<1>7. ClaimsLogged'
  <2> SUFFICES ASSUME NEW i \in Wallet
               PROVE  ClaimCount(View, i)' - ClaimCount(committed, i) =
                        Cardinality({n \in 1..Len(tx'.log) :
                                       tx'.log[n].event = "AttestationClaimed"
                                       /\ tx'.log[n].issuer = i})
    BY <1>1 DEF ClaimsLogged, ClaimCount
  <2>1. ClaimCount(committed, i) \in Nat
    BY TypeInvParts, CapacityAssumption DEF HistoryInv, ClaimCount, ViewType, Issuer
  <2>2. ClaimCount(View, i)' = ClaimCount(committed, i)
    BY <1>1, <1>2 DEF ClaimCount
  <2>3. {n \in 1..Len(tx'.log) : tx'.log[n].event = "AttestationClaimed"
                                 /\ tx'.log[n].issuer = i} = {}
    BY <1>1
  <2>4. Cardinality({}) = 0
    BY FS_EmptySet
  <2> QED
    BY <2>1, <2>2, <2>3, <2>4
<1>8. RootsLogged'
  BY <1>1, <1>3 DEF RootsLogged
<1> QED
  BY <1>4, <1>5, <1>6, <1>7, <1>8

\* Every step keeps the account the log gives.
LEMMA EventsInvStep ==
  ASSUME EventsInv, [Next]_vars
  PROVE  EventsInv'
<1>1. HistoryInv /\ HistoryInv'
  BY HistoryInvStep DEF EventsInv
<1>2. CASE UNCHANGED vars
  BY <1>1, <1>2
     DEF EventsInv, vars, Running, UpdatedIssuersExist, CreationsLogged, PasskeysLogged,
         ClaimsLogged, RootsLogged, Logged, HadPasskey, ClaimCount, View
<1>3. CASE Next /\ Running /\ Running'
  BY <1>1, <1>3, CreationsStep, PasskeysStep, ClaimsStep, RootsStep DEF EventsInv
<1>4. CASE Next /\ ~Running /\ Running'
  <2>1. Begin
    BY <1>4 DEF Next, CreateIdentity, AddPasskey, VerifyPasskey, RegisterIssuer, UpdateRoot,
         ClaimAttestation, Secp256r1, OutOfBudget, Commit, Rollback, Runs, Running, Idle
  <2> QED
    BY <1>1, <2>1, EventsBegin DEF EventsInv
<1>5. CASE ~Running'
  BY <1>1, <1>5 DEF EventsInv
<1> QED
  BY <1>2, <1>3, <1>4, <1>5

\* The log of a transaction is its effect: identities, credentials, claims and roots
\* can be known from the events of committed transactions alone (`emit!`, lib.rs).
THEOREM EventsAccount == Spec => []EventsAccountForLedger
<1>1. Init => EventsInv
  BY InitHistoryInv DEF EventsInv, Init, Idle, Running
<1>2. EventsInv /\ [Next]_vars => EventsInv'
  BY EventsInvStep
<1>3. EventsInv => EventsAccountForLedger
  BY DEF EventsInv, EventsAccountForLedger
<1> QED
  BY <1>1, <1>2, <1>3, PTL DEF Spec

===============================================================================
