------------------------ MODULE LedgerRefinementProofs ------------------------
(***************************************************************************)
(* Proof that the program implements IdentityLedger, step by step: while a *)
(* transaction runs, the accounts it sees are the ledger after the         *)
(* instructions it has executed.                                           *)
(***************************************************************************)
EXTENDS LedgerRefinement, PassKeyAuthProofs, Sums, SequenceTheorems

\* The ledger that a view of the accounts shows.
Shown(view) ==
  [identities |-> Mapped(view.identities, LedgerIdentity),
   issuers    |-> Mapped(view.issuers, LedgerIssuer),
   nullifiers |-> view.nullifiers]

\* The course of a transaction starts with the ledger, and each instruction has its
\* effect on what the one before left.
LEMMA CourseSteps ==
  ASSUME NEW l, NEW ixs, Len(ixs) \in Nat
  PROVE  /\ Ledger!Course(l, ixs)[0] = l
         /\ \A n \in 1..Len(ixs) :
              Ledger!Course(l, ixs)[n] = Ledger!Effect(Ledger!Course(l, ixs)[n - 1], ixs[n])
<1> DEFINE N == Len(ixs)
           Eq(g, n) == g[n] = IF n = 0 THEN l ELSE Ledger!Effect(g[n - 1], ixs[n])
           Good == {m \in Nat : \E g : /\ DOMAIN g = 0..N /\ g = [n \in 0..N |-> g[n]]
                                       /\ \A n \in 0..N : n <= m => Eq(g, n)}
<1>1. 0 \in Good
  <2> DEFINE g == [n \in 0..N |-> l]
  <2>1. \A n \in 0..N : n <= 0 => Eq(g, n)
    OBVIOUS
  <2>2. DOMAIN g = 0..N /\ g = [n \in 0..N |-> g[n]]
    OBVIOUS
  <2> HIDE DEF Eq, g
  <2> QED
    BY <2>1, <2>2
<1>2. ASSUME NEW m \in Nat, m \in Good PROVE m + 1 \in Good
  <2>1. PICK g : \A n \in 0..N : n <= m => Eq(g, n)
    BY <1>2
  <2> DEFINE h == [n \in 0..N |-> IF n = 0 THEN l ELSE Ledger!Effect(g[n - 1], ixs[n])]
  <2>2. DOMAIN h = 0..N /\ h = [n \in 0..N |-> h[n]]
    OBVIOUS
  <2>3. ASSUME NEW n \in 0..N, n <= m + 1 PROVE Eq(h, n)
    <3>1. CASE n = 0
      BY <3>1
    <3>2. CASE n # 0
      <4>1. n - 1 \in 0..N /\ n - 1 <= m
        BY <2>3, <3>2
      <4>2. g[n - 1] = h[n - 1]
        BY <2>1, <4>1
      <4> QED
        BY <3>2, <4>2
    <3> QED
      BY <3>1, <3>2
  <2>4. \A n \in 0..N : n <= m + 1 => Eq(h, n)
    BY <2>3
  <2>5. m + 1 \in Nat
    OBVIOUS
  <2> HIDE DEF h, Eq
  <2>6. \E k : /\ DOMAIN k = 0..N /\ k = [n \in 0..N |-> k[n]]
               /\ \A n \in 0..N : n <= m + 1 => Eq(k, n)
    BY <2>2, <2>4, Zenon
  <2> QED
    BY <2>5, <2>6, Zenon
<1> HIDE DEF Good
<1>3. N \in Good
  BY <1>1, <1>2, NatInductionSet
<1>4. PICK g : g = [n \in 0..N |-> g[n]] /\ \A n \in 0..N : Eq(g, n)
  BY <1>3 DEF Good
<1>5. g = [n \in 0..N |-> IF n = 0 THEN l ELSE Ledger!Effect(g[n - 1], ixs[n])]
  BY <1>4
<1> DEFINE state == Ledger!Course(l, ixs)
<1>6. state = CHOOSE f : f = [n \in 0..N |-> IF n = 0 THEN l ELSE Ledger!Effect(f[n - 1], ixs[n])]
  BY DEF Ledger!Course
<1>7. state = [n \in 0..N |-> IF n = 0 THEN l ELSE Ledger!Effect(state[n - 1], ixs[n])]
  <2> HIDE DEF state
  <2> QED
    BY <1>5, <1>6
<1> HIDE DEF state
<1>8. \A n \in 0..N : state[n] = IF n = 0 THEN l ELSE Ledger!Effect(state[n - 1], ixs[n])
  BY <1>7
<1>9. state[0] = l /\ \A n \in 1..N : state[n] = Ledger!Effect(state[n - 1], ixs[n])
  BY <1>8
<1> QED
  BY <1>9 DEF state

-------------------------------------------------------------------------------
(***************************************************************************)
(* What the ledger shows of an account.                                    *)
(***************************************************************************)
LEMMA LedgerIdentityTyped ==
  ASSUME NEW id \in Identity, CompactIdentity(id)
  PROVE  /\ LedgerIdentity(id) # NoAccount
         /\ LedgerIdentity(id) =
              [passkeys |-> LedgerIdentity(id).passkeys,
               attestations |-> LedgerIdentity(id).attestations]
         /\ LedgerIdentity(id).passkeys \in Seq(Credential)
         /\ Len(LedgerIdentity(id).passkeys) = id.passkey_count
         /\ \A n \in 1..id.passkey_count :
              LedgerIdentity(id).passkeys[n] = id.passkeys[n - 1].pubkey
         /\ LedgerIdentity(id).attestations \in
              Seq([issuer : Wallet \cup {DefaultPubkey}, schema_id : Schema])
         /\ Len(LedgerIdentity(id).attestations) = id.attestation_count
<1> DEFINE keys == [n \in 1..id.passkey_count |-> id.passkeys[n - 1].pubkey]
           claims == [n \in 1..id.attestation_count |->
                        [issuer |-> id.attestations[n - 1].issuer,
                         schema_id |-> id.attestations[n - 1].schema_id]]
<1>1. LedgerIdentity(id) = [passkeys |-> keys, attestations |-> claims]
  BY DEF LedgerIdentity, Entries
<1>2. /\ id.passkey_count \in Nat /\ id.attestation_count \in Nat
      /\ \A n \in 1..id.passkey_count : n - 1 \in PasskeySlot
      /\ \A n \in 1..id.attestation_count : n - 1 \in AttestationSlot
  BY CapacityAssumption DEF Identity, CompactIdentity, PasskeySlot, AttestationSlot
<1>3. keys \in Seq(Credential) /\ Len(keys) = id.passkey_count
  <2>1. \A n \in 1..id.passkey_count : id.passkeys[n - 1].pubkey \in Credential
    BY <1>2 DEF Identity, PassKey
  <2> QED
    BY <1>2, <2>1
<1>4. /\ claims \in Seq([issuer : Wallet \cup {DefaultPubkey}, schema_id : Schema])
      /\ Len(claims) = id.attestation_count
  <2>1. \A n \in 1..id.attestation_count :
          [issuer |-> id.attestations[n - 1].issuer,
           schema_id |-> id.attestations[n - 1].schema_id]
             \in [issuer : Wallet \cup {DefaultPubkey}, schema_id : Schema]
    BY <1>2 DEF Identity, Attestation
  <2> DEFINE Shape == [issuer : Wallet \cup {DefaultPubkey}, schema_id : Schema]
             claim(n) == [issuer |-> id.attestations[n - 1].issuer,
                          schema_id |-> id.attestations[n - 1].schema_id]
  <2>2. claims = [n \in 1..id.attestation_count |-> claim(n)]
    OBVIOUS
  <2>3. \A n \in 1..id.attestation_count : claim(n) \in Shape
    BY <2>1
  <2> HIDE DEF claim, Shape, claims
  <2>4. claims \in Seq(Shape) /\ Len(claims) = id.attestation_count
    BY <1>2, <2>2, <2>3
  <2> QED
    BY <2>4 DEF Shape
<1>5. \A n \in 1..id.passkey_count : keys[n] = id.passkeys[n - 1].pubkey
  OBVIOUS
<1> HIDE DEF keys, claims
<1> QED
  BY <1>1, <1>3, <1>4, <1>5, ShownAssumption

\* A new identity is shown without passkeys and attestations.
LEMMA ShownNew ==
  ASSUME NEW w \in Wallet
  PROVE  LedgerIdentity(NewIdentity(w)) = [passkeys |-> << >>, attestations |-> << >>]
BY DEF LedgerIdentity, NewIdentity, Entries

\* A sequence that is one longer and the same up to there has had one appended.
LEMMA IsAppend ==
  ASSUME NEW S, NEW s \in Seq(S), NEW t \in Seq(S), NEW e \in S,
         Len(t) = Len(s) + 1, t[Len(s) + 1] = e, \A n \in 1..Len(s) : t[n] = s[n]
  PROVE  t = Append(s, e)
<1>1. /\ Append(s, e) \in Seq(S) /\ Len(Append(s, e)) = Len(t)
      /\ \A n \in 1..Len(t) : t[n] = Append(s, e)[n]
  BY AppendProperties
<1> QED
  BY <1>1, SeqEqual

\* Where a table is filled at its count, the ledger sees an append.
LEMMA ShownPasskey ==
  ASSUME NEW id \in Identity, CompactIdentity(id), CanAddPasskey(id), NEW key \in Credential
  PROVE  LedgerIdentity(WithPasskey(id, key)) =
           [LedgerIdentity(id) EXCEPT !.passkeys = Append(@, key)]
<1> DEFINE new == WithPasskey(id, key)
           c == id.passkey_count
           keys == LedgerIdentity(id).passkeys
           newKeys == LedgerIdentity(new).passkeys
<1>1. /\ new = [id EXCEPT !.passkeys[c] = [pubkey |-> key, is_active |-> TRUE],
                          !.passkey_count = c + 1]
      /\ c \in PasskeySlot /\ new \in Identity /\ CompactIdentity(new)
  BY WithPasskeyAppends
<1>2. c \in Nat /\ id.passkeys \in [PasskeySlot -> PassKey] /\ MAX_PASSKEYS \in Nat
  BY CapacityAssumption DEF Identity
<1>3. /\ new.passkey_count = c + 1
      /\ new.attestations = id.attestations /\ new.attestation_count = id.attestation_count
      /\ \A s \in PasskeySlot :
           new.passkeys[s].pubkey = IF s = c THEN key ELSE id.passkeys[s].pubkey
  BY <1>1, <1>2 DEF Identity
<1> HIDE DEF new
<1>4. LedgerIdentity(new).attestations = LedgerIdentity(id).attestations
  BY <1>3 DEF LedgerIdentity
<1>5. newKeys = Append(keys, key)
  <2>1. /\ keys \in Seq(Credential) /\ Len(keys) = c
        /\ \A n \in 1..c : keys[n] = id.passkeys[n - 1].pubkey
    BY LedgerIdentityTyped
  <2>2. /\ newKeys \in Seq(Credential) /\ Len(newKeys) = c + 1
        /\ \A n \in 1..(c + 1) : newKeys[n] = new.passkeys[n - 1].pubkey
    BY <1>1, <1>3, LedgerIdentityTyped
  <2>3. \A n \in 1..(c + 1) : n - 1 \in PasskeySlot
    BY <1>1, <1>2 DEF PasskeySlot
  <2> HIDE DEF keys, newKeys, c
  <2>4. newKeys[c + 1] = key
    <3>1. (c + 1) - 1 = c /\ c + 1 \in 1..(c + 1)
      BY <1>2
    <3> QED
      BY <1>1, <1>3, <2>2, <3>1 DEF c
  <2>5. ASSUME NEW n \in 1..c PROVE newKeys[n] = keys[n]
    <3>1. n - 1 # c /\ n \in 1..(c + 1)
      BY <1>2
    <3> QED
      BY <1>3, <2>1, <2>2, <2>3, <3>1
  <2> QED
    BY <2>1, <2>2, <2>4, <2>5, IsAppend
<1>6. /\ LedgerIdentity(new) =
           [passkeys |-> newKeys, attestations |-> LedgerIdentity(new).attestations]
      /\ LedgerIdentity(id) =
           [passkeys |-> keys, attestations |-> LedgerIdentity(id).attestations]
  BY <1>1, LedgerIdentityTyped
<1> QED
  BY <1>4, <1>5, <1>6 DEF new

\* A claim is shown as an attestation appended.
LEMMA ShownAttestation ==
  ASSUME NEW id \in Identity, CompactIdentity(id),
         ~Full(id.attestations), id.attestation_count < U8Max,
         NEW issuer \in Wallet, NEW schema \in Schema
  PROVE  LedgerIdentity(WithAttestation(id, issuer, schema)) =
           [LedgerIdentity(id) EXCEPT
              !.attestations = Append(@, [issuer |-> issuer, schema_id |-> schema])]
<1> DEFINE new == WithAttestation(id, issuer, schema)
           c == id.attestation_count
           claim == [issuer |-> issuer, schema_id |-> schema]
           Shape == [issuer : Wallet \cup {DefaultPubkey}, schema_id : Schema]
           entry(table, n) == [issuer |-> table[n - 1].issuer, schema_id |-> table[n - 1].schema_id]
           claims == LedgerIdentity(id).attestations
           newClaims == LedgerIdentity(new).attestations
<1>1. /\ new = [id EXCEPT !.attestations[c] = [issuer |-> issuer, schema_id |-> schema,
                                               is_active |-> TRUE],
                          !.attestation_count = c + 1]
      /\ c \in AttestationSlot /\ new \in Identity /\ CompactIdentity(new)
  BY WithAttestationAppends
<1>2. c \in Nat /\ id.attestations \in [AttestationSlot -> Attestation] /\ MAX_ATTESTATIONS \in Nat
  BY CapacityAssumption DEF Identity
<1>3. /\ new.attestation_count = c + 1
      /\ new.passkeys = id.passkeys /\ new.passkey_count = id.passkey_count
      /\ \A s \in AttestationSlot : s # c => new.attestations[s] = id.attestations[s]
      /\ new.attestations[c].issuer = issuer /\ new.attestations[c].schema_id = schema
  BY <1>1, <1>2 DEF Identity
<1> HIDE DEF new
<1>4. LedgerIdentity(new).passkeys = LedgerIdentity(id).passkeys
  BY <1>3 DEF LedgerIdentity
<1>5. /\ claims = [n \in 1..c |-> entry(id.attestations, n)]
      /\ newClaims = [n \in 1..(c + 1) |-> entry(new.attestations, n)]
  BY <1>3 DEF LedgerIdentity, Entries
<1>6. claims \in Seq(Shape) /\ newClaims \in Seq(Shape) /\ Len(claims) = c /\ Len(newClaims) = c + 1
  BY <1>1, <1>3, LedgerIdentityTyped
<1>7. claim \in Shape
  OBVIOUS
<1>8. newClaims = Append(claims, claim)
  <2>1. \A n \in 1..(c + 1) : n - 1 \in AttestationSlot
    BY <1>1, <1>2 DEF AttestationSlot
  <2>2. \A n \in 1..c : entry(new.attestations, n) = entry(id.attestations, n)
    BY <1>2, <1>3, <2>1
  <2>3. entry(new.attestations, c + 1) = claim
    BY <1>2, <1>3
  <2> HIDE DEF entry, claim, Shape, claims, newClaims, c
  <2>4. newClaims[c + 1] = claim /\ \A n \in 1..c : newClaims[n] = claims[n]
    BY <1>2, <1>5, <2>2, <2>3
  <2> QED
    BY <1>6, <1>7, <2>4, IsAppend
<1>9. /\ LedgerIdentity(new) =
           [passkeys |-> LedgerIdentity(new).passkeys, attestations |-> newClaims]
      /\ LedgerIdentity(id) =
           [passkeys |-> LedgerIdentity(id).passkeys, attestations |-> claims]
  BY <1>1, LedgerIdentityTyped
<1> QED
  BY <1>4, <1>8, <1>9 DEF new

-------------------------------------------------------------------------------
(***************************************************************************)
(* An instruction that succeeds is allowed by the ledger and has its       *)
(* effect, provided the precompiles of the transaction accept.             *)
(***************************************************************************)
PrecompilesAccept ==
  \A i \in 1..Len(tx.ixs) : tx.ixs[i].op = "secp256r1" => PrecompileAccepts(tx.ixs[i])

Implements(ix) ==
  /\ Shown(View)' = Ledger!Effect(Shown(View), ix)
  /\ PrecompilesAccept => Ledger!Allowed(Shown(View), tx.ixs, ix)

\* The ledger shown before and after a step, table by table.
LEMMA ShownView ==
  /\ Shown(View) = [identities |-> Mapped(identities, LedgerIdentity),
                    issuers    |-> Mapped(issuers, LedgerIssuer),
                    nullifiers |-> nullifiers]
  /\ Shown(View)' = [identities |-> Mapped(identities', LedgerIdentity),
                     issuers    |-> Mapped(issuers', LedgerIssuer),
                     nullifiers |-> nullifiers']
BY DEF Shown, View

\* One account as the ledger shows it, and after it has been written.
LEMMA ShownAccount ==
  ASSUME NEW w \in Wallet
  PROVE  /\ Shown(View).identities[w] =
              IF identities[w] = NoAccount THEN NoAccount ELSE LedgerIdentity(identities[w])
         /\ Shown(View).issuers[w] =
              IF issuers[w] = NoAccount THEN NoAccount ELSE LedgerIssuer(issuers[w])
         /\ Shown(View).nullifiers = nullifiers
<1> DEFINE a == Mapped(identities, LedgerIdentity)
           b == Mapped(issuers, LedgerIssuer)
<1>1. /\ a[w] = IF identities[w] = NoAccount THEN NoAccount ELSE LedgerIdentity(identities[w])
      /\ b[w] = IF issuers[w] = NoAccount THEN NoAccount ELSE LedgerIssuer(issuers[w])
  BY DEF Mapped
<1>2. Shown(View) = [identities |-> a, issuers |-> b, nullifiers |-> nullifiers]
  BY ShownView
<1> HIDE DEF a, b
<1> QED
  BY <1>1, <1>2

\* An identity that is written changes in what the ledger shows, and no other does.
LEMMA ShownIdentityWrite ==
  ASSUME identities \in [Wallet -> Identity \cup {NoAccount}],
         NEW w \in Wallet, NEW new, new # NoAccount,
         identities' = [identities EXCEPT ![w] = new]
  PROVE  Mapped(identities', LedgerIdentity) =
           [Mapped(identities, LedgerIdentity) EXCEPT ![w] = LedgerIdentity(new)]
BY DEF Mapped

\* So does an issuer.
LEMMA ShownIssuerWrite ==
  ASSUME issuers \in [Wallet -> Issuer \cup {NoAccount}],
         NEW w \in Wallet, NEW new, new # NoAccount,
         issuers' = [issuers EXCEPT ![w] = new]
  PROVE  Mapped(issuers', LedgerIssuer) =
           [Mapped(issuers, LedgerIssuer) EXCEPT ![w] = LedgerIssuer(new)]
BY DEF Mapped

\* A step that writes one account, shown by the ledger.
LEMMA ShownAfterIdentity ==
  ASSUME identities \in [Wallet -> Identity \cup {NoAccount}],
         NEW w \in Wallet, NEW new, new # NoAccount,
         identities' = [identities EXCEPT ![w] = new], UNCHANGED <<issuers, nullifiers>>
  PROVE  Shown(View)' = [Shown(View) EXCEPT !.identities[w] = LedgerIdentity(new)]
<1> DEFINE a == Mapped(identities, LedgerIdentity)
           b == Mapped(issuers, LedgerIssuer)
           c == Mapped(identities', LedgerIdentity)
           shown == LedgerIdentity(new)
<1>1. c = [a EXCEPT ![w] = shown]
  BY ShownIdentityWrite
<1>2. /\ Shown(View) = [identities |-> a, issuers |-> b, nullifiers |-> nullifiers]
      /\ Shown(View)' = [identities |-> c, issuers |-> b, nullifiers |-> nullifiers]
  BY ShownView
<1> HIDE DEF a, b, c, shown
<1>3. Shown(View)' = [Shown(View) EXCEPT !.identities[w] = shown]
  BY <1>1, <1>2
<1> QED
  BY <1>3 DEF shown

\* The same for a step that writes an issuer.
LEMMA ShownAfterIssuer ==
  ASSUME issuers \in [Wallet -> Issuer \cup {NoAccount}],
         NEW w \in Wallet, NEW new, new # NoAccount,
         issuers' = [issuers EXCEPT ![w] = new], UNCHANGED <<identities, nullifiers>>
  PROVE  Shown(View)' = [Shown(View) EXCEPT !.issuers[w] = LedgerIssuer(new)]
<1> DEFINE a == Mapped(identities, LedgerIdentity)
           b == Mapped(issuers, LedgerIssuer)
           c == Mapped(issuers', LedgerIssuer)
           shown == LedgerIssuer(new)
<1>1. c = [b EXCEPT ![w] = shown]
  BY ShownIssuerWrite
<1>2. /\ Shown(View) = [identities |-> a, issuers |-> b, nullifiers |-> nullifiers]
      /\ Shown(View)' = [identities |-> a, issuers |-> c, nullifiers |-> nullifiers]
  BY ShownView
<1> HIDE DEF a, b, c, shown
<1>3. Shown(View)' = [Shown(View) EXCEPT !.issuers[w] = shown]
  BY <1>1, <1>2
<1> QED
  BY <1>3 DEF shown

\* An issuer is shown as an account that exists.
LEMMA LedgerIssuerTyped ==
  ASSUME NEW issuer \in Issuer
  PROVE  LedgerIssuer(issuer) # NoAccount
BY ShownAssumption DEF LedgerIssuer, Issuer

-------------------------------------------------------------------------------
\* Each handler that returns has had the effect of its instruction on the ledger.
LEMMA CreateIdentityImplements ==
  ASSUME TypeInv, CreateIdentity, Running'
  PROVE  Implements(Ix)
<1> DEFINE w == Ix.signer
           l == Shown(View)
           shown == [passkeys |-> << >>, attestations |-> << >>]
<1>1. w \in Wallet /\ Ix.op = "create_identity"
  BY CurrentInstruction, Operands, TypeInvParts DEF CreateIdentity, Runs
<1>2. /\ identities[w] = NoAccount
      /\ identities' = [identities EXCEPT ![w] = NewIdentity(w)]
      /\ UNCHANGED <<issuers, nullifiers>>
  BY TypeInvParts DEF CreateIdentity, Running, Error, TxTypeOK
<1>3. NewIdentity(w) # NoAccount /\ LedgerIdentity(NewIdentity(w)) = shown
  BY <1>1, NewIdentityFits, AccountAssumption, ShownNew
<1>4. identities \in [Wallet -> Identity \cup {NoAccount}]
  BY TypeInvParts
<1>5. Shown(View)' = [l EXCEPT !.identities[w] = LedgerIdentity(NewIdentity(w))]
  <2> HIDE DEF w
  <2> QED
    BY <1>1, <1>2, <1>3, <1>4, ShownAfterIdentity
<1>6. l.identities[w] = NoAccount
  BY <1>1, <1>2, ShownAccount
<1> HIDE DEF l, shown
<1>7. Ledger!Allowed(l, tx.ixs, Ix)
  BY <1>1, <1>6 DEF Ledger!Allowed
<1>8. Ledger!Effect(l, Ix) = [l EXCEPT !.identities[w] = shown]
  BY <1>1 DEF Ledger!Effect, shown
<1> QED
  BY <1>3, <1>5, <1>7, <1>8 DEF Implements, l

\* add_passkey: the credential is appended to those of its owner.
LEMMA AddPasskeyImplements ==
  ASSUME TypeInv, AddPasskey, Running'
  PROVE  Implements(Ix)
<1> DEFINE w == Ix.identity
           id == identities[w]
           l == Shown(View)
           old == LedgerIdentity(id)
           new == WithPasskey(id, Ix.pubkey)
<1>1. w \in Wallet /\ Ix.op = "add_passkey" /\ Ix.pubkey \in Credential
  BY CurrentInstruction, Operands, TypeInvParts DEF AddPasskey, Runs
<1>2. /\ OwnsIdentity(Ix) /\ CanAddPasskey(id)
      /\ identities' = [identities EXCEPT ![w] = new]
      /\ UNCHANGED <<issuers, nullifiers>>
  BY TypeInvParts DEF AddPasskey, Running, Error, TxTypeOK
<1>3. w = Ix.signer /\ id # NoAccount /\ id \in Identity /\ CompactIdentity(id)
  BY <1>1, <1>2, TypeInvParts DEF OwnsIdentity, CompactTables
<1>4. new \in Identity /\ id.passkey_count \in PasskeySlot
  BY <1>1, <1>2, <1>3, WithPasskeyAppends
<1>5. new # NoAccount
  BY <1>4, AccountAssumption
<1>6. identities \in [Wallet -> Identity \cup {NoAccount}]
  BY TypeInvParts
<1>7. LedgerIdentity(new) = [old EXCEPT !.passkeys = Append(@, Ix.pubkey)]
  BY <1>1, <1>2, <1>3, ShownPasskey
<1>8. Shown(View)' = [l EXCEPT !.identities[w] = LedgerIdentity(new)]
  <2> HIDE DEF w, new
  <2> QED
    BY <1>1, <1>2, <1>5, <1>6, ShownAfterIdentity
<1>9. old # NoAccount /\ Len(old.passkeys) = id.passkey_count
  BY <1>3, LedgerIdentityTyped
<1>10. Len(old.passkeys) < MAX_PASSKEYS
  BY <1>4, <1>9, CapacityAssumption DEF PasskeySlot
<1>11. l.identities[w] = old
  BY <1>1, <1>3, ShownAccount
<1> HIDE DEF l, old, new, id
<1>12. Ledger!Allowed(l, tx.ixs, Ix)
  BY <1>1, <1>3, <1>9, <1>10, <1>11 DEF Ledger!Allowed, Ledger!Owns
<1>13. Ledger!Effect(l, Ix) =
         [l EXCEPT !.identities[w] = [l.identities[w] EXCEPT !.passkeys = Append(@, Ix.pubkey)]]
  BY <1>1 DEF Ledger!Effect
<1>14. Ledger!Effect(l, Ix) = Shown(View)'
  BY <1>7, <1>8, <1>11, <1>13
<1> QED
  BY <1>12, <1>14 DEF Implements, l

\* verify_passkey: no change that the ledger shows.
LEMMA VerifyPasskeyImplements ==
  ASSUME TypeInv, VerifyPasskey, Running'
  PROVE  Implements(Ix)
<1> DEFINE w == Ix.identity
           id == identities[w]
           l == Shown(View)
           old == LedgerIdentity(id)
           key == id.passkeys[Ix.index].pubkey
<1>1. /\ w \in Wallet /\ Ix.op = "verify_passkey" /\ TxTypeOK /\ ~Finished
      /\ tx.ixs \in Seq(Instruction)
  BY CurrentInstruction, Operands, TypeInvParts DEF VerifyPasskey, Runs
<1>2. /\ OwnsIdentity(Ix) /\ PossessionConfirmed(id, Ix.index)
      /\ UNCHANGED <<identities, issuers, nullifiers>>
  BY <1>1 DEF VerifyPasskey, Running, Error, TxTypeOK
<1>3. w = Ix.signer /\ id # NoAccount /\ id \in Identity /\ CompactIdentity(id)
  BY <1>1, <1>2, TypeInvParts DEF OwnsIdentity, CompactTables
<1>4. Ix.index \in Nat /\ Ix.index < id.passkey_count /\ id.passkey_count \in Nat
  BY <1>2, <1>3, CapacityAssumption
     DEF PossessionConfirmed, HasPasskey, CompactIdentity, IsCompact, PasskeySlot, Identity
<1>5. /\ old # NoAccount /\ Len(old.passkeys) = id.passkey_count
      /\ \A n \in 1..id.passkey_count : old.passkeys[n] = id.passkeys[n - 1].pubkey
  BY <1>3, LedgerIdentityTyped
<1>6. old.passkeys[Ix.index + 1] = key
  <2>1. Ix.index + 1 \in 1..id.passkey_count /\ (Ix.index + 1) - 1 = Ix.index
    BY <1>4
  <2> HIDE DEF old
  <2>2. old.passkeys[Ix.index + 1] = id.passkeys[(Ix.index + 1) - 1].pubkey
    BY <1>5, <2>1
  <2> QED
    BY <2>1, <2>2
<1>7. ASSUME PrecompilesAccept PROVE Ledger!Proves(tx.ixs, key)
  <2>1. PICK p \in 1..Len(tx.ixs) : tx.ixs[p].op = "secp256r1" /\ FirstPrecompile = tx.ixs[p]
    BY <1>2, FirstPrecompilePosition DEF PossessionConfirmed
  <2>2. PrecompileAccepts(tx.ixs[p])
    BY <1>7, <2>1 DEF PrecompilesAccept
  <2>3. tx.ixs[p].sigs \in Seq(Signature)
    BY <1>1, <2>1, Operands
  <2>4. 1 \in DOMAIN tx.ixs[p].sigs /\ p \in DOMAIN tx.ixs
    BY <1>1, <2>2, <2>3 DEF PrecompileAccepts
  <2>5. /\ tx.ixs[p].sigs[1].pubkey = key
        /\ tx.ixs[p].sigs[1].embedded /\ tx.ixs[p].sigs[1].valid
    BY <1>2, <2>1, <2>2, <2>3, <2>4 DEF PossessionConfirmed, Extractable, PrecompileAccepts
  <2> QED
    BY <2>1, <2>4, <2>5 DEF Ledger!Proves
<1>8. l.identities[w] = old
  BY <1>1, <1>3, ShownAccount
<1>9. Shown(View)' = l
  BY <1>2, ShownView
<1>10. Ix.index < Len(old.passkeys)
  BY <1>4, <1>5
<1> HIDE DEF l, old, id, key
<1>11. PrecompilesAccept => Ledger!Allowed(l, tx.ixs, Ix)
  BY <1>1, <1>3, <1>5, <1>6, <1>7, <1>8, <1>10 DEF Ledger!Allowed, Ledger!Owns
<1>12. Ledger!Effect(l, Ix) = l
  BY <1>1 DEF Ledger!Effect
<1> QED
  BY <1>9, <1>11, <1>12 DEF Implements, l

\* register_issuer: an issuer with its schema.
LEMMA RegisterIssuerImplements ==
  ASSUME TypeInv, RegisterIssuer, Running'
  PROVE  Implements(Ix)
<1> DEFINE w == Ix.signer
           l == Shown(View)
           new == [authority |-> w, schema_id |-> Ix.schema_id,
                   merkle_root |-> Ix.merkle_root, attestation_count |-> 0]
           shown == [schema_id |-> Ix.schema_id, merkle_root |-> Ix.merkle_root]
<1>1. /\ w \in Wallet /\ Ix.op = "register_issuer"
      /\ Ix.schema_id \in Schema /\ Ix.merkle_root \in Digest
  BY CurrentInstruction, Operands, TypeInvParts DEF RegisterIssuer, Runs
<1>2. /\ issuers[w] = NoAccount /\ issuers' = [issuers EXCEPT ![w] = new]
      /\ UNCHANGED <<identities, nullifiers>>
  BY TypeInvParts DEF RegisterIssuer, Running, Error, TxTypeOK
<1>3. new # NoAccount /\ LedgerIssuer(new) = shown
  BY <1>1, AccountAssumption, CapacityAssumption DEF Issuer, LedgerIssuer
<1>4. issuers \in [Wallet -> Issuer \cup {NoAccount}]
  BY TypeInvParts
<1>5. Shown(View)' = [l EXCEPT !.issuers[w] = LedgerIssuer(new)]
  <2> HIDE DEF w, new
  <2> QED
    BY <1>1, <1>2, <1>3, <1>4, ShownAfterIssuer
<1>6. l.issuers[w] = NoAccount
  BY <1>1, <1>2, ShownAccount
<1> HIDE DEF l, new, shown
<1>7. Ledger!Allowed(l, tx.ixs, Ix)
  BY <1>1, <1>6 DEF Ledger!Allowed
<1>8. Ledger!Effect(l, Ix) = [l EXCEPT !.issuers[w] = shown]
  BY <1>1 DEF Ledger!Effect, shown
<1> QED
  BY <1>3, <1>5, <1>7, <1>8 DEF Implements, l

\* update_root: the root of its own issuer.
LEMMA UpdateRootImplements ==
  ASSUME TypeInv, UpdateRoot, Running'
  PROVE  Implements(Ix)
<1> DEFINE w == Ix.issuer
           l == Shown(View)
           old == LedgerIssuer(issuers[w])
           new == [issuers[w] EXCEPT !.merkle_root = Ix.merkle_root]
<1>1. w \in Wallet /\ Ix.op = "update_root" /\ Ix.merkle_root \in Digest
  BY CurrentInstruction, Operands, TypeInvParts DEF UpdateRoot, Runs
<1>2. /\ OwnsIssuer(Ix) /\ issuers' = [issuers EXCEPT ![w] = new]
      /\ UNCHANGED <<identities, nullifiers>>
  BY TypeInvParts DEF UpdateRoot, Running, Error, TxTypeOK
<1>3. w = Ix.signer /\ issuers[w] # NoAccount /\ issuers[w] \in Issuer
  BY <1>1, <1>2, TypeInvParts DEF OwnsIssuer
<1>4. new \in Issuer /\ LedgerIssuer(new) = [old EXCEPT !.merkle_root = Ix.merkle_root]
  BY <1>1, <1>3 DEF Issuer, LedgerIssuer
<1>5. new # NoAccount /\ old # NoAccount
  BY <1>3, <1>4, AccountAssumption, LedgerIssuerTyped
<1>6. issuers \in [Wallet -> Issuer \cup {NoAccount}]
  BY TypeInvParts
<1>7. Shown(View)' = [l EXCEPT !.issuers[w] = LedgerIssuer(new)]
  <2> HIDE DEF w, new
  <2> QED
    BY <1>1, <1>2, <1>5, <1>6, ShownAfterIssuer
<1>8. l.issuers[w] = old
  BY <1>1, <1>3, ShownAccount
<1> HIDE DEF l, old, new
<1>9. Ledger!Allowed(l, tx.ixs, Ix)
  BY <1>1, <1>3, <1>5, <1>8 DEF Ledger!Allowed, Ledger!Owns
<1>10. Ledger!Effect(l, Ix) =
         [l EXCEPT !.issuers[w] = [l.issuers[w] EXCEPT !.merkle_root = Ix.merkle_root]]
  BY <1>1 DEF Ledger!Effect
<1>11. Ledger!Effect(l, Ix) = Shown(View)'
  BY <1>4, <1>7, <1>8, <1>10
<1> QED
  BY <1>9, <1>11 DEF Implements, l

\* The ledger checks membership and counts claims as the program's modules do.
LEMMA SameCheck ==
  ASSUME NEW leaf, NEW proof, NEW index_bits, NEW root
  PROVE  Ledger!verify(leaf, proof, index_bits, root) = verify(leaf, proof, index_bits, root)
BY Zenon
   DEF Ledger!verify, verify, Ledger!compute_root, compute_root, Ledger!Climb, Climb,
       Ledger!hash_pair, hash_pair

\* An issuer whose count has room has fewer burned nullifiers than u64::MAX.
LEMMA ClaimsHaveRoom ==
  ASSUME LedgerInv, Running, NEW i \in Wallet, issuers[i] # NoAccount,
         issuers[i].attestation_count < U64Max
  PROVE  Ledger!ClaimsOf(Shown(View), i) < U64Max
<1>1. Cardinality(Burned(View, i)) = issuers[i].attestation_count
  BY DEF LedgerInv, LedgerBalanced, Balanced, View, Running
<1>2. Shown(View).nullifiers = nullifiers /\ View.nullifiers = nullifiers
  BY DEF Shown, View
<1>3. Ledger!ClaimsOf(Shown(View), i) = Cardinality(Burned(View, i))
  BY <1>2, Zenon DEF Ledger!ClaimsOf, Burned, Ledger!Cardinality, Cardinality
<1> QED
  BY <1>1, <1>3

\* claim_attestation: attestation, count and nullifier together.
LEMMA ClaimAttestationImplements ==
  ASSUME LedgerInv, ClaimAttestation, Running'
  PROVE  Implements(Ix)
<1> DEFINE w == Ix.identity
           i == Ix.issuer
           id == identities[w]
           issuer == issuers[i]
           schema == issuer.schema_id
           claim == [issuer |-> i, schema_id |-> schema]
           l == Shown(View)
           old == LedgerIdentity(id)
           new == WithAttestation(id, i, schema)
           count == [issuer EXCEPT !.attestation_count = @ + 1]
           burned == nullifiers \cup {<<i, Ix.nullifier>>}
<1>1. TypeInv /\ TxTypeOK /\ tx.status = "running"
  BY TypeInvParts DEF LedgerInv, ClaimAttestation, Runs, Running
<1>2. w \in Wallet /\ i \in Wallet /\ Ix.op = "claim_attestation"
  BY <1>1, CurrentInstruction, Operands DEF ClaimAttestation, Runs
<1>3. /\ ClaimAccountsValid(Ix) /\ ClaimAllowed(Ix)
      /\ nullifiers' = burned
      /\ identities' = [identities EXCEPT ![w] = new]
      /\ issuers' = [issuers EXCEPT ![i] = count]
  BY <1>1 DEF ClaimAttestation, Running, Error, TxTypeOK
<1>4. /\ w = Ix.signer /\ id # NoAccount /\ id \in Identity /\ CompactIdentity(id)
      /\ issuer # NoAccount /\ issuer \in Issuer
      /\ <<i, Ix.nullifier>> \notin nullifiers
  BY <1>1, <1>2, <1>3, TypeInvParts DEF ClaimAccountsValid, OwnsIdentity, CompactTables
<1>5. /\ Len(Ix.proof) <= MAX_MERKLE_DEPTH
      /\ verify(Ix.leaf, Ix.proof, Ix.index_bits, issuer.merkle_root)
      /\ ~Full(id.attestations) /\ id.attestation_count < U8Max
      /\ issuer.attestation_count < U64Max
  BY <1>3 DEF ClaimAllowed, ProofAccepted, CanRecordClaim
<1>6. schema \in Schema
  BY <1>4 DEF Issuer
<1>7. new \in Identity /\ id.attestation_count \in AttestationSlot
  BY <1>2, <1>4, <1>5, <1>6, WithAttestationAppends
<1>8. new # NoAccount /\ count # NoAccount
  <2>1. count \in Issuer
    BY <1>4, <1>5, CapacityAssumption DEF Issuer
  <2> QED
    BY <1>7, <2>1, AccountAssumption
<1>9. LedgerIdentity(new) = [old EXCEPT !.attestations = Append(@, claim)]
  BY <1>2, <1>4, <1>5, <1>6, ShownAttestation
<1>10. LedgerIssuer(count) = LedgerIssuer(issuer)
  BY <1>4 DEF LedgerIssuer, Issuer
<1>11. /\ identities \in [Wallet -> Identity \cup {NoAccount}]
       /\ issuers \in [Wallet -> Issuer \cup {NoAccount}]
  BY <1>1, TypeInvParts
<1>12. Mapped(identities', LedgerIdentity) =
         [Mapped(identities, LedgerIdentity) EXCEPT ![w] = LedgerIdentity(new)]
  <2> HIDE DEF w, new
  <2> QED
    BY <1>2, <1>3, <1>8, <1>11, ShownIdentityWrite
<1>13. Mapped(issuers', LedgerIssuer) = Mapped(issuers, LedgerIssuer)
  <2>1. Mapped(issuers', LedgerIssuer) =
          [Mapped(issuers, LedgerIssuer) EXCEPT ![i] = LedgerIssuer(count)]
    <3> HIDE DEF i, count
    <3> QED
      BY <1>2, <1>3, <1>8, <1>11, ShownIssuerWrite
  <2>2. Mapped(issuers, LedgerIssuer)[i] = LedgerIssuer(issuer)
    BY <1>2, <1>4 DEF Mapped
  <2>3. DOMAIN Mapped(issuers, LedgerIssuer) = Wallet
        /\ Mapped(issuers, LedgerIssuer) = [v \in Wallet |-> Mapped(issuers, LedgerIssuer)[v]]
    BY DEF Mapped
  <2> HIDE DEF i, count, issuer
  <2> QED
    BY <1>2, <1>10, <2>1, <2>2, <2>3
<1>14. Shown(View)' = [l EXCEPT !.identities[w] = LedgerIdentity(new), !.nullifiers = burned]
  <2> DEFINE a == Mapped(identities, LedgerIdentity)
             b == Mapped(issuers, LedgerIssuer)
             c == Mapped(identities', LedgerIdentity)
             shown == LedgerIdentity(new)
  <2>1. c = [a EXCEPT ![w] = shown]
    BY <1>12
  <2>2. /\ Shown(View) = [identities |-> a, issuers |-> b, nullifiers |-> nullifiers]
        /\ Shown(View)' = [identities |-> c, issuers |-> b, nullifiers |-> burned]
    BY <1>3, <1>13, ShownView
  <2> HIDE DEF a, b, c, shown, burned
  <2> DEFINE mid == [Shown(View) EXCEPT !.identities[w] = shown]
  <2>3. mid = [identities |-> c, issuers |-> b, nullifiers |-> nullifiers]
    BY <2>1, <2>2
  <2> HIDE DEF mid
  <2>4. Shown(View)' = [mid EXCEPT !.nullifiers = burned]
    BY <2>2, <2>3
  <2> QED
    BY <2>4 DEF shown, mid
<1>15. old # NoAccount /\ Len(old.attestations) = id.attestation_count
  BY <1>4, LedgerIdentityTyped
<1>16. Len(old.attestations) < MAX_ATTESTATIONS
  BY <1>7, <1>15, CapacityAssumption DEF AttestationSlot
<1>17. /\ l.identities[w] = old /\ l.issuers[i] = LedgerIssuer(issuer)
       /\ l.nullifiers = nullifiers
  BY <1>2, <1>4, ShownAccount
<1>18. /\ LedgerIssuer(issuer) # NoAccount
       /\ LedgerIssuer(issuer).merkle_root = issuer.merkle_root
       /\ LedgerIssuer(issuer).schema_id = schema
  BY <1>4, LedgerIssuerTyped DEF LedgerIssuer
<1>19. Ledger!ClaimsOf(l, i) < U64Max
  BY <1>1, <1>2, <1>4, <1>5, ClaimsHaveRoom DEF Running
<1>20. Ledger!verify(Ix.leaf, Ix.proof, Ix.index_bits, issuer.merkle_root)
  BY <1>5, SameCheck
<1> HIDE DEF l, old, new, id, issuer, schema, burned
<1>21. Ledger!Allowed(l, tx.ixs, Ix)
  BY <1>2, <1>4, <1>5, <1>15, <1>16, <1>17, <1>18, <1>19, <1>20
     DEF Ledger!Allowed, Ledger!Owns
<1>22. l = [identities |-> l.identities, issuers |-> l.issuers, nullifiers |-> l.nullifiers]
  BY ShownView DEF l
<1> DEFINE shown == LedgerIdentity(new)
           after == [identities |-> [l.identities EXCEPT ![w] = shown],
                     issuers |-> l.issuers, nullifiers |-> burned]
<1>23. Ledger!Effect(l, Ix) = after
  <2> DEFINE e == [l.identities[w] EXCEPT
                     !.attestations =
                       Append(@, [issuer |-> i, schema_id |-> l.issuers[i].schema_id])]
             n == l.nullifiers \cup {<<i, Ix.nullifier>>}
  <2>1. Ledger!Effect(l, Ix) = [[l EXCEPT !.nullifiers = n] EXCEPT !.identities[w] = e]
    BY <1>2, <1>22 DEF Ledger!Effect
  <2>2. e = shown /\ n = burned
    BY <1>9, <1>17, <1>18 DEF burned
  <2> HIDE DEF e, n, shown
  <2>3. [l EXCEPT !.nullifiers = n] =
          [identities |-> l.identities, issuers |-> l.issuers, nullifiers |-> n]
    BY <1>22
  <2> QED
    BY <2>1, <2>2, <2>3
<1>24. Shown(View)' = after
  <2>1. Shown(View)' = [[l EXCEPT !.identities[w] = shown] EXCEPT !.nullifiers = burned]
    BY <1>14
  <2> HIDE DEF shown
  <2>2. [l EXCEPT !.identities[w] = shown] =
          [identities |-> [l.identities EXCEPT ![w] = shown],
           issuers |-> l.issuers, nullifiers |-> l.nullifiers]
    BY <1>22
  <2> QED
    BY <2>1, <2>2
<1> QED
  BY <1>21, <1>23, <1>24 DEF Implements, l

\* A precompile instruction changes no account, and is allowed if it accepts.
LEMMA Secp256r1Implements ==
  ASSUME TypeInv, Secp256r1, Running'
  PROVE  Implements(Ix)
<1>1. /\ TxTypeOK /\ Ix.op = "secp256r1" /\ Ix.sigs \in Seq(Signature)
      /\ UNCHANGED <<identities, issuers, nullifiers>>
  BY TypeInvParts, CurrentInstruction, Operands DEF Secp256r1, Runs
<1>2. PrecompileAccepts(Ix)
  BY <1>1 DEF Secp256r1, Running, Error, TxTypeOK
<1>3. Ledger!Allowed(Shown(View), tx.ixs, Ix)
  BY <1>1, <1>2 DEF Ledger!Allowed, PrecompileAccepts
<1>4. Ledger!Effect(Shown(View), Ix) = Shown(View)
  BY <1>1 DEF Ledger!Effect
<1>5. Shown(View)' = Shown(View)
  BY <1>1, ShownView
<1> QED
  BY <1>3, <1>4, <1>5 DEF Implements

-------------------------------------------------------------------------------
(***************************************************************************)
(* The inductive invariant.  While a transaction runs without a failure,   *)
(* the accounts it sees are what the ledger was at the last boundary after *)
(* the instructions executed so far, each of which was allowed where it    *)
(* stood.                                                                  *)
(***************************************************************************)
Course == Ledger!Course(Shown(committed), tx.ixs)

OnCourse ==
  /\ Shown(View) = Course[tx.next - 1]
  /\ PrecompilesAccept =>
       \A n \in 1..(tx.next - 1) : Ledger!Allowed(Course[n - 1], tx.ixs, tx.ixs[n])

Rests == tx.status = "idle" => tx.ixs = << >> /\ View = committed

CourseInv == LedgerInv /\ PossessionInv /\ Rests /\ (Running => OnCourse)

\* A step of a transaction that goes on is an instruction that succeeds.
LEMMA StepImplements ==
  ASSUME LedgerInv, Next, ~Begin, Running'
  PROVE  /\ Running /\ ~Finished /\ Implements(Ix)
         /\ tx'.ixs = tx.ixs /\ tx'.next = tx.next + 1 /\ committed' = committed
<1>1. TypeInv /\ TxTypeOK
  BY TypeInvParts DEF LedgerInv
<1>2. ~OutOfBudget /\ ~Commit /\ ~Rollback
  BY <1>1 DEF OutOfBudget, Commit, Rollback, Error, Idle, Running, TxTypeOK
<1>3. CASE Secp256r1
  <2>1. Implements(Ix)
    BY <1>1, <1>3, Secp256r1Implements
  <2> QED
    BY <1>1, <1>3, <2>1 DEF Secp256r1, Error, Running, Runs, TxTypeOK
<1>4. CASE \/ CreateIdentity \/ AddPasskey \/ VerifyPasskey
           \/ RegisterIssuer \/ UpdateRoot \/ ClaimAttestation
  <2>1. PICK e : Return(e)
    BY <1>1, <1>4 DEF CreateIdentity, AddPasskey, VerifyPasskey, RegisterIssuer, UpdateRoot,
         ClaimAttestation, Error, Running, TxTypeOK
  <2>2. Running /\ ~Finished /\ committed' = committed
    BY <1>4 DEF CreateIdentity, AddPasskey, VerifyPasskey, RegisterIssuer, UpdateRoot,
         ClaimAttestation, Runs
  <2>3. Implements(Ix)
    BY <1>1, <1>4, CreateIdentityImplements, AddPasskeyImplements, VerifyPasskeyImplements,
       RegisterIssuerImplements, UpdateRootImplements, ClaimAttestationImplements
  <2> QED
    BY <1>1, <2>1, <2>2, <2>3 DEF Return, TxTypeOK
<1> QED
  BY <1>2, <1>3, <1>4 DEF Next

\* A transaction under way stays on the course of its instructions.
LEMMA OnCourseStep ==
  ASSUME CourseInv, [Next]_vars, Running'
  PROVE  OnCourse'
<1>1. TypeInv /\ TxTypeOK /\ TypeInv' /\ TxTypeOK'
  BY TypeInvParts, TypeInvStep DEF CourseInv, LedgerInv, TypeInv, TypeOK
<1>2. Len(tx.ixs) \in Nat /\ Len(tx'.ixs) \in Nat /\ tx.next \in Nat /\ tx.next >= 1
  <2>1. << >> \in Seq(Instruction)
    OBVIOUS
  <2> QED
    BY <1>1, <2>1, TransactionAssumption DEF TxTypeOK
<1>3. CASE Begin
  <2>1. /\ tx.status = "idle" /\ tx'.next = 1
        /\ committed' = committed /\ UNCHANGED <<identities, issuers, nullifiers>>
    BY <1>3 DEF Begin, Idle
  <2>2. Shown(View)' = Shown(committed)'
    BY <2>1 DEF View, CourseInv, Rests
  <2>3. Course'[0] = Shown(committed)'
    BY <1>2, CourseSteps DEF Course
  <2> QED
    BY <2>1, <2>2, <2>3 DEF OnCourse
<1>4. CASE UNCHANGED vars
  <2>1. UNCHANGED <<Course, Shown(View), PrecompilesAccept, tx>> /\ Running
    BY <1>4 DEF vars, Course, Shown, View, PrecompilesAccept, PrecompileAccepts, Running
  <2> QED
    BY <2>1 DEF OnCourse, CourseInv
<1>5. CASE Next /\ ~Begin
  <2>1. /\ Running /\ ~Finished /\ Implements(Ix)
        /\ tx'.ixs = tx.ixs /\ tx'.next = tx.next + 1 /\ committed' = committed
    BY <1>5, StepImplements DEF CourseInv
  <2>2. OnCourse
    BY <2>1 DEF CourseInv
  <2>3. Course' = Course /\ (PrecompilesAccept' <=> PrecompilesAccept)
    BY <2>1 DEF Course, PrecompilesAccept, PrecompileAccepts, Shown
  <2>4. tx.next \in 1..Len(tx.ixs) /\ Course[tx.next] = Ledger!Effect(Course[tx.next - 1], Ix)
    BY <1>2, <2>1, CourseSteps DEF Course, Finished, Ix
  <2>5. Shown(View)' = Course[tx.next]
    BY <2>1, <2>2, <2>4 DEF Implements, OnCourse
  <2>6. ASSUME PrecompilesAccept, NEW n \in 1..tx.next
        PROVE  Ledger!Allowed(Course[n - 1], tx.ixs, tx.ixs[n])
    <3>1. CASE n = tx.next
      BY <2>1, <2>2, <2>6, <3>1 DEF Implements, OnCourse, Ix
    <3>2. CASE n # tx.next
      <4>1. n \in 1..(tx.next - 1)
        BY <1>2, <3>2
      <4> QED
        BY <2>2, <2>6, <4>1 DEF OnCourse
    <3> QED
      BY <3>1, <3>2
  <2>7. (tx.next + 1) - 1 = tx.next
    BY <1>2
  <2>8. Shown(View)' = Course'[tx'.next - 1]
    BY <2>1, <2>3, <2>5, <2>7
  <2>9. PrecompilesAccept' =>
          \A n \in 1..(tx'.next - 1) : Ledger!Allowed(Course'[n - 1], tx'.ixs, tx'.ixs[n])
    BY <2>1, <2>3, <2>6, <2>7
  <2> QED
    BY <2>8, <2>9 DEF OnCourse
<1> QED
  BY <1>3, <1>4, <1>5 DEF Next

\* Between transactions the accounts are those committed.
LEMMA RestsStep ==
  ASSUME CourseInv, [Next]_vars
  PROVE  Rests'
<1>1. TypeInv /\ TxTypeOK
  BY TypeInvParts DEF CourseInv, LedgerInv
<1>2. CASE UNCHANGED vars
  BY <1>2 DEF vars, CourseInv, Rests, View
<1>3. CASE Commit \/ Rollback
  BY <1>1, <1>3, TypeInvParts DEF Commit, Rollback, Rests, Idle, View, ViewType
<1>4. CASE Next /\ ~Commit /\ ~Rollback
  <2>1. tx'.status # "idle"
    BY <1>1, <1>4 DEF Next, Begin, CreateIdentity, AddPasskey, VerifyPasskey, RegisterIssuer,
         UpdateRoot, ClaimAttestation, Secp256r1, OutOfBudget, Runs, Running, Return, Error,
         Idle, TxTypeOK
  <2> QED
    BY <2>1 DEF Rests
<1> QED
  BY <1>2, <1>3, <1>4

\* Every step keeps all of it.
LEMMA CourseInvStep ==
  ASSUME CourseInv, [Next]_vars
  PROVE  CourseInv'
<1>1. LedgerInv' /\ PossessionInv'
  BY LedgerInvStep, PossessionInvStep DEF CourseInv
<1>2. Rests' /\ (Running' => OnCourse')
  BY RestsStep, OnCourseStep
<1> QED
  BY <1>1, <1>2 DEF CourseInv

\* A transaction that has executed all its instructions passed all its precompiles.
LEMMA AllAccepted ==
  ASSUME PossessionInv, Running, Finished
  PROVE  PrecompilesAccept /\ tx.next - 1 = Len(tx.ixs)
<1>1. TxTypeOK
  BY TypeInvParts DEF PossessionInv
<1>2. Len(tx.ixs) \in Nat
  <2>1. << >> \in Seq(Instruction)
    OBVIOUS
  <2> QED
    BY <1>1, <2>1, TransactionAssumption DEF TxTypeOK
<1>3. tx.next - 1 = Len(tx.ixs)
  BY <1>1, <1>2 DEF TxTypeOK, Finished
<1> QED
  BY <1>3 DEF PossessionInv, PrecompilesPassed, PrecompilesAccept

\* Every step of the program is a step of the ledger or changes nothing of it.
LEMMA StepImplementsLedger ==
  ASSUME CourseInv, [Next]_vars
  PROVE  \/ Ledger!Next
         \/ UNCHANGED <<Shown(committed), tx.ixs>>
<1>1. TypeInv /\ TxTypeOK
  BY TypeInvParts DEF CourseInv, LedgerInv
<1>2. CASE UNCHANGED vars
  BY <1>2 DEF vars, Shown
<1>3. CASE Begin
  <2>1. tx.ixs = << >> /\ tx'.ixs \in Transaction /\ committed' = committed
    BY <1>3 DEF CourseInv, Rests, Begin, Idle
  <2> QED
    BY <2>1 DEF Ledger!Next, Ledger!Submit
<1>4. CASE Rollback
  BY <1>4 DEF Rollback, Idle, Ledger!Next, Ledger!Discard
<1>5. CASE Commit
  <2>1. Running /\ Finished /\ committed' = View /\ tx'.ixs = << >>
    BY <1>5 DEF Commit, Idle
  <2>2. OnCourse /\ PrecompilesAccept /\ tx.next - 1 = Len(tx.ixs)
    BY <2>1, AllAccepted DEF CourseInv
  <2>3. DOMAIN tx.ixs = 1..Len(tx.ixs)
    <3>1. << >> \in Seq(Instruction)
      OBVIOUS
    <3> QED
      BY <1>1, <3>1, TransactionAssumption DEF TxTypeOK
  <2>4. \A n \in DOMAIN tx.ixs : Ledger!Allowed(Course[n - 1], tx.ixs, tx.ixs[n])
    BY <2>2, <2>3 DEF OnCourse
  <2>5. Shown(committed') = Course[Len(tx.ixs)]
    BY <2>1, <2>2 DEF OnCourse
  <2>6. Ledger!Commit
    BY <2>1, <2>4, <2>5 DEF Ledger!Commit, Course, Shown
  <2> QED
    BY <2>6 DEF Ledger!Next
<1>6. CASE \/ CreateIdentity \/ AddPasskey \/ VerifyPasskey \/ RegisterIssuer
           \/ UpdateRoot \/ ClaimAttestation \/ Secp256r1 \/ OutOfBudget
  <2>1. committed' = committed /\ tx'.ixs = tx.ixs
    BY <1>1, <1>6 DEF CreateIdentity, AddPasskey, VerifyPasskey, RegisterIssuer,
         UpdateRoot, ClaimAttestation, Secp256r1, OutOfBudget, Return, Error, TxTypeOK
  <2> QED
    BY <2>1 DEF Shown
<1> QED
  BY <1>2, <1>3, <1>4, <1>5, <1>6 DEF Next

\* The program implements the ledger of identities that its users are promised:
\* its transactions are atomic and serial, and change the accounts by the effects
\* of their instructions, each allowed where it stands.
THEOREM Implementation == Spec => ImplementsLedger
<1>1. Init => CourseInv
  <2> SUFFICES ASSUME Init
               PROVE  CourseInv
    OBVIOUS
  <2>1. LedgerInv /\ TypeInv
    BY InitLedgerInv, InitTypeInv
  <2>2. PossessionInv /\ Rests /\ (Running => OnCourse)
    BY <2>1 DEF Init, Idle, Running, PossessionInv, Rests
  <2> QED
    BY <2>1, <2>2 DEF CourseInv
<1>2. CourseInv /\ [Next]_vars => CourseInv'
  BY CourseInvStep
<1>3. Init => Ledger!Init
  <2> SUFFICES ASSUME Init
               PROVE  Ledger!Init
    OBVIOUS
  <2>1. /\ committed.identities = [w \in Wallet |-> NoAccount]
        /\ committed.issuers = [w \in Wallet |-> NoAccount]
        /\ committed.nullifiers = {} /\ tx.ixs = << >>
    BY DEF Init, View, Idle
  <2>2. /\ Mapped(committed.identities, LedgerIdentity) = [w \in Wallet |-> NoAccount]
        /\ Mapped(committed.issuers, LedgerIssuer) = [w \in Wallet |-> NoAccount]
    BY <2>1 DEF Mapped
  <2> QED
    BY <2>1, <2>2 DEF Ledger!Init
<1>4. CourseInv /\ [Next]_vars =>
        [Ledger!Next]_<<[identities |-> Mapped(committed.identities, LedgerIdentity),
                         issuers    |-> Mapped(committed.issuers, LedgerIssuer),
                         nullifiers |-> committed.nullifiers],
                        tx.ixs>>
  BY StepImplementsLedger DEF Shown
<1> QED
  BY <1>1, <1>2, <1>3, <1>4, PTL DEF Spec, ImplementsLedger, Ledger!Spec

===============================================================================
