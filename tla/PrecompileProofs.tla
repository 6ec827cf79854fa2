--------------------------- MODULE PrecompileProofs ---------------------------
(***************************************************************************)
(* Proofs about Precompile, for every size of a byte, a key and a          *)
(* signature, and whatever clients sign: the program's parser and the      *)
(* precompile agree on what was verified.                                  *)
(***************************************************************************)
EXTENDS Precompile, Sums, SequenceTheorems

USE FormatAssumption

\* What a client sends is bytes, and so is what is left of it.
IsBytes == data \in Seq(Nat)

-------------------------------------------------------------------------------
(***************************************************************************)
(* The data a client builds.                                               *)
(***************************************************************************)
\* A function from 1..n is a sequence.
LEMMA FunctionIsSeq ==
  ASSUME NEW S, NEW n \in Nat, NEW f \in [1..n -> S]
  PROVE  f \in Seq(S)
<1>1. f = [i \in 1..n |-> f[i]]
  OBVIOUS
<1> QED
  BY <1>1

\* So is a sequence with an element overwritten, if it has such an element.
LEMMA OverwrittenIsSeq ==
  ASSUME NEW S, NEW s \in Seq(S), NEW e \in S, NEW x
  PROVE  [s EXCEPT ![x] = e] \in Seq(S)
<1>1. s \in [1..Len(s) -> S] /\ Len(s) \in Nat
  OBVIOUS
<1>2. [s EXCEPT ![x] = e] \in [1..Len(s) -> S]
  BY <1>1
<1> QED
  BY <1>1, <1>2, FunctionIsSeq

\* FlattenSeq's partial concatenations exist: its recursive function is one.
LEMMA FlattenExists ==
  ASSUME NEW S, NEW ss \in Seq(Seq(S)), NEW n \in Nat
  PROVE  \E f : f = [i \in 1..n |-> IF i = 1 THEN ss[i] ELSE f[i - 1] \o ss[i]]
<1> DEFINE Is(f, k) == f = [i \in 1..k |-> IF i = 1 THEN ss[i] ELSE f[i - 1] \o ss[i]]
           Good == {k \in Nat : \E f : Is(f, k)}
<1>1. 0 \in Good
  <2> DEFINE f == [i \in 1..0 |-> << >>]
  <2>1. Is(f, 0)
    OBVIOUS
  <2> HIDE DEF f, Is
  <2> QED
    BY <2>1
<1>2. ASSUME NEW k \in Nat, k \in Good PROVE k + 1 \in Good
  <2>1. PICK f : Is(f, k)
    BY <1>2
  <2> DEFINE h == [i \in 1..(k + 1) |-> IF i = 1 THEN ss[i] ELSE f[i - 1] \o ss[i]]
  <2>2. \A i \in 1..(k + 1) : i # 1 => i - 1 \in 1..k /\ i - 1 \in 1..(k + 1)
    OBVIOUS
  <2>3. \A i \in 1..k : i \in 1..(k + 1)
    OBVIOUS
  <2>4. \A i \in 1..k : h[i] = f[i]
    <3>1. \A i \in 1..k : f[i] = IF i = 1 THEN ss[i] ELSE f[i - 1] \o ss[i]
      BY <2>1
    <3> QED
      BY <2>3, <3>1
  <2>5. \A i \in 1..(k + 1) : h[i] = IF i = 1 THEN ss[i] ELSE h[i - 1] \o ss[i]
    BY <2>2, <2>4
  <2>6. h = [i \in 1..(k + 1) |-> h[i]]
    OBVIOUS
  <2> HIDE DEF h
  <2>7. Is(h, k + 1)
    BY <2>5, <2>6
  <2>8. k + 1 \in Nat
    OBVIOUS
  <2> HIDE DEF Is
  <2> QED
    BY <2>7, <2>8
<1> HIDE DEF Good
<1>3. n \in Good
  BY <1>1, <1>2, NatInductionSet
<1> QED
  BY <1>3 DEF Good

\* What FlattenSeq makes of sequences over a set is a sequence over that set.
LEMMA FlattenTyped ==
  ASSUME NEW S, NEW ss \in Seq(Seq(S))
  PROVE  FlattenSeq(ss) \in Seq(S)
<1>1. CASE Len(ss) = 0
  BY <1>1 DEF FlattenSeq
<1>2. CASE Len(ss) # 0
  <2> DEFINE f == CHOOSE f : f = [i \in 1..Len(ss) |-> IF i = 1 THEN ss[i] ELSE f[i - 1] \o ss[i]]
             Good == {i \in Nat : i \in 1..Len(ss) => f[i] \in Seq(S)}
  <2>1. FlattenSeq(ss) = f[Len(ss)]
    BY <1>2 DEF FlattenSeq
  <2>2. f = [i \in 1..Len(ss) |-> IF i = 1 THEN ss[i] ELSE f[i - 1] \o ss[i]]
    <3>1. Len(ss) \in Nat
      OBVIOUS
    <3> QED
      BY <3>1, FlattenExists
  <2> HIDE DEF f
  <2>3. \A i \in 1..Len(ss) : f[i] = IF i = 1 THEN ss[i] ELSE f[i - 1] \o ss[i]
    BY <2>2
  <2>4. 0 \in Good
    OBVIOUS
  <2>5. ASSUME NEW i \in Nat, i \in Good PROVE i + 1 \in Good
    <3> SUFFICES ASSUME i + 1 \in 1..Len(ss) PROVE f[i + 1] \in Seq(S)
      OBVIOUS
    <3>1. ss[i + 1] \in Seq(S)
      OBVIOUS
    <3>2. CASE i = 0
      BY <2>3, <3>1, <3>2
    <3>3. CASE i # 0
      <4>1. i \in 1..Len(ss) /\ i + 1 # 1 /\ (i + 1) - 1 = i
        BY <3>3
      <4>2. f[i] \in Seq(S)
        BY <2>5, <4>1
      <4>3. f[i + 1] = f[i] \o ss[i + 1]
        BY <2>3, <4>1
      <4> QED
        BY <3>1, <4>2, <4>3, ConcatProperties
    <3> QED
      BY <3>2, <3>3
  <2> HIDE DEF Good
  <2>6. Len(ss) \in Good
    <3>1. Len(ss) \in Nat
      OBVIOUS
    <3> QED
      BY <2>4, <2>5, <3>1, NatInductionSet
  <2>7. Len(ss) \in 1..Len(ss)
    BY <1>2
  <2> QED
    BY <2>1, <2>6, <2>7 DEF Good
<1> QED
  BY <1>1, <1>2

\* The numbers of a client's data are two bytes each.
LEMMA BytesTyped ==
  ASSUME NEW v \in Nat
  PROVE  to_le_bytes(v) \in Seq(Nat)
<1>1. v % Radix \in Nat /\ v \div Radix \in Nat
  OBVIOUS
<1> QED
  BY <1>1 DEF to_le_bytes

\* The signatures, keys and messages at the end of the data are bytes.
LEMMA PayloadsTyped ==
  ASSUME NEW sigs \in Seq([1..3 -> Seq(Nat)])
  PROVE  Payloads(sigs) \in Seq(Nat)
<1> DEFINE parts == [i \in DOMAIN sigs |-> FlattenSeq(sigs[i])]
<1>1. DOMAIN sigs = 1..Len(sigs) /\ Len(sigs) \in Nat
  OBVIOUS
<1>2. ASSUME NEW i \in 1..Len(sigs) PROVE FlattenSeq(sigs[i]) \in Seq(Nat)
  <2>1. sigs[i] \in [1..3 -> Seq(Nat)]
    OBVIOUS
  <2>2. sigs[i] \in Seq(Seq(Nat))
    BY <2>1, FunctionIsSeq
  <2> QED
    BY <2>2, FlattenTyped
<1>3. parts \in Seq(Seq(Nat))
  BY <1>1, <1>2
<1> QED
  BY <1>3, FlattenTyped DEF Payloads

\* The offsets of a signature are bytes.
LEMMA OffsetsTyped ==
  ASSUME NEW sigs \in Seq([1..3 -> Seq(Nat)]), NEW i \in DOMAIN sigs
  PROVE  OffsetsOf(sigs, i) \in Seq(Nat)
<1> DEFINE sig_off == base + OFFSETS_LEN * Len(sigs) + Len(Payloads(SubSeq(sigs, 1, i - 1)))
           pk_off  == sig_off + Len(sigs[i][1])
           msg_off == pk_off + Len(sigs[i][2])
<1>1. sigs[i] \in [1..3 -> Seq(Nat)] /\ Len(sigs) \in Nat /\ i \in 1..Len(sigs)
  OBVIOUS
<1>2. Len(sigs[i][1]) \in Nat /\ Len(sigs[i][2]) \in Nat /\ Len(sigs[i][3]) \in Nat
  <2>1. sigs[i][1] \in Seq(Nat) /\ sigs[i][2] \in Seq(Nat) /\ sigs[i][3] \in Seq(Nat)
    BY <1>1
  <2> QED
    BY <2>1
<1>3. SubSeq(sigs, 1, i - 1) \in Seq([1..3 -> Seq(Nat)])
  BY <1>1, SubSeqProperties
<1>4. Len(Payloads(SubSeq(sigs, 1, i - 1))) \in Nat
  BY <1>3, PayloadsTyped, LenProperties
<1>5. sig_off \in Nat
  BY <1>1, <1>4 DEF base, OFFSETS_LEN
<1>6. pk_off \in Nat
  <2> HIDE DEF sig_off
  <2> QED
    BY <1>2, <1>5
<1>7. msg_off \in Nat
  <2> HIDE DEF pk_off
  <2> QED
    BY <1>2, <1>6
<1>8. IX_INDEX_SELF \in Nat
  <2>1. Radix \in Int /\ Radix >= 1
    OBVIOUS
  <2>2. \A r \in Int : r >= 1 => r * r \in Int /\ r * r >= r
    BY Z3
  <2> DEFINE square == Radix * Radix
  <2>3. square \in Int /\ square >= 1
    <3>1. square \in Int /\ square >= Radix
      BY <2>1, <2>2
    <3> HIDE DEF square
    <3> QED
      BY <2>1, <3>1
  <2>4. IX_INDEX_SELF = square - 1
    BY DEF IX_INDEX_SELF
  <2> HIDE DEF square
  <2> QED
    BY <2>3, <2>4
<1> HIDE DEF sig_off, pk_off, msg_off
<1>9. /\ to_le_bytes(sig_off) \in Seq(Nat) /\ to_le_bytes(pk_off) \in Seq(Nat)
      /\ to_le_bytes(msg_off) \in Seq(Nat) /\ to_le_bytes(IX_INDEX_SELF) \in Seq(Nat)
      /\ to_le_bytes(Len(sigs[i][3])) \in Seq(Nat)
  BY <1>2, <1>5, <1>6, <1>7, <1>8, BytesTyped
<1>10. OffsetsOf(sigs, i) =
         to_le_bytes(sig_off) \o to_le_bytes(IX_INDEX_SELF) \o to_le_bytes(pk_off)
           \o to_le_bytes(IX_INDEX_SELF) \o to_le_bytes(msg_off)
           \o to_le_bytes(Len(sigs[i][3])) \o to_le_bytes(IX_INDEX_SELF)
  BY DEF OffsetsOf, sig_off, pk_off, msg_off
<1> QED
  BY <1>9, <1>10, ConcatProperties

\* A client's data is bytes.
LEMMA BlobTyped ==
  ASSUME NEW sigs \in Seq([1..3 -> Seq(Nat)])
  PROVE  Blob(sigs) \in Seq(Nat)
<1> DEFINE offsets == [i \in DOMAIN sigs |-> OffsetsOf(sigs, i)]
<1>1. DOMAIN sigs = 1..Len(sigs) /\ Len(sigs) \in Nat
  OBVIOUS
<1>2. offsets \in Seq(Seq(Nat))
  BY <1>1, OffsetsTyped
<1>3. FlattenSeq(offsets) \in Seq(Nat)
  BY <1>2, FlattenTyped
<1>4. <<Len(sigs), 0>> \in Seq(Nat)
  BY <1>1
<1> QED
  BY <1>3, <1>4, PayloadsTyped, ConcatProperties DEF Blob

-------------------------------------------------------------------------------
\* Whatever numbers a client gets wrong, and wherever the data ends, it is bytes.
LEMMA BytesInductive ==
  /\ Init => IsBytes
  /\ IsBytes /\ [Next]_<<data, edits>> => IsBytes'
<1>1. Init => IsBytes
  BY BlobTyped DEF Init, IsBytes
<1>2. ASSUME IsBytes, WrongNumber PROVE IsBytes'
  <2>1. PICK name \in DOMAIN Field, v \in 0..IX_INDEX_SELF :
          data' = [data EXCEPT ![Position(1, name) + 1] = v % Radix,
                               ![Position(1, name) + 2] = v \div Radix]
    BY <1>2 DEF WrongNumber
  <2>2. v \in Nat /\ v % Radix \in Nat /\ v \div Radix \in Nat
    OBVIOUS
  <2>3. \A x : \A s \in Seq(Nat), n \in Nat : [s EXCEPT ![x] = n] \in Seq(Nat)
    BY OverwrittenIsSeq
  <2> QED
    BY <1>2, <2>1, <2>2, <2>3 DEF IsBytes
<1>3. ASSUME IsBytes, WrongCount PROVE IsBytes'
  BY <1>3, OverwrittenIsSeq DEF IsBytes, WrongCount
<1>4. ASSUME IsBytes, Truncated PROVE IsBytes'
  BY <1>4, SubSeqProperties DEF IsBytes, Truncated
<1>5. IsBytes /\ UNCHANGED <<data, edits>> => IsBytes'
  BY DEF IsBytes
<1> QED
  BY <1>1, <1>2, <1>3, <1>4, <1>5 DEF Next

-------------------------------------------------------------------------------
(***************************************************************************)
(* The two readers.                                                        *)
(***************************************************************************)
\* A number both find in the data is the same to both.
LEMMA SameNumber ==
  ASSUME IsBytes, NEW k \in Nat, base + k + 2 <= Len(data)
  PROVE  /\ read_u16(base + k) = data[base + k + 1] + Radix * data[base + k + 2]
         /\ read_u16(base + k) \in Nat
<1> DEFINE b == SubSeq(data, base + k + 1, base + k + 2)
<1>1. base + k + 1 \in 1..Len(data) /\ base + k + 2 \in 1..Len(data)
  BY DEF IsBytes, base
<1>2. b \in Seq(Nat) /\ Len(b) = 2 /\ b[1] = data[base + k + 1] /\ b[2] = data[base + k + 2]
  BY <1>1, SubSeqProperties DEF IsBytes, base
<1>3. get(base + k, base + k + 2) = b
  BY DEF get
<1>4. b # None
  BY <1>2
<1>5. read_u16(base + k) = data[base + k + 1] + Radix * data[base + k + 2]
  <2> HIDE DEF b
  <2> QED
    BY <1>2, <1>3, <1>4 DEF read_u16, u16_from_le_bytes
<1>6. data[base + k + 1] \in Nat /\ data[base + k + 2] \in Nat
  BY <1>1 DEF IsBytes
<1> QED
  BY <1>5, <1>6

\* Where the number of a name is in the data of the first signature.
LEMMA FirstPosition ==
  \A name \in DOMAIN Field : 2 * Field[name] \in {0, 2, 4, 6, 8, 10, 12}
    /\ Position(1, name) = base + 2 * Field[name]
<1>1. \A name \in DOMAIN Field : Field[name] \in 0..6
  BY DEF Field
<1> QED
  BY <1>1 DEF Position, base, OFFSETS_LEN

\* What the program reads for a name of the first signature is what the
\* precompile reads for it.
LEMMA SameOffset ==
  ASSUME IsBytes, base + OFFSETS_LEN <= Len(data), NEW name \in DOMAIN Field
  PROVE  /\ Offset(1, name) = read_u16(base + 2 * Field[name])
         /\ Offset(1, name) \in Nat
<1> DEFINE k == 2 * Field[name]
<1>1. k \in {0, 2, 4, 6, 8, 10, 12} /\ Position(1, name) = base + k
  BY FirstPosition
<1> HIDE DEF k
<1>2. k \in Nat /\ base + k + 2 <= Len(data)
  BY <1>1 DEF base, OFFSETS_LEN, IsBytes
<1>3. /\ read_u16(base + k) = data[base + k + 1] + Radix * data[base + k + 2]
      /\ read_u16(base + k) \in Nat
  BY <1>2, SameNumber
<1> QED
  BY <1>1, <1>3 DEF Offset, k

\* The seven numbers of the first signature, as both read them.
LEMMA SameOffsets ==
  ASSUME IsBytes, base + OFFSETS_LEN <= Len(data)
  PROVE  /\ Offset(1, "sig_ix") = read_u16(base + 2)
         /\ Offset(1, "pk_off") = read_u16(base + 4)
         /\ Offset(1, "pk_ix") = read_u16(base + 6)
         /\ Offset(1, "msg_off") = read_u16(base + 8)
         /\ Offset(1, "msg_size") = read_u16(base + 10)
         /\ Offset(1, "msg_ix") = read_u16(base + 12)
         /\ \A k \in {0, 2, 4, 6, 8, 10, 12} : read_u16(base + k) \in Nat
<1>1. \A name \in DOMAIN Field :
        Offset(1, name) = read_u16(base + 2 * Field[name]) /\ Offset(1, name) \in Nat
  BY SameOffset
<1>2. /\ {"sig_off", "sig_ix", "pk_off", "pk_ix", "msg_off", "msg_size", "msg_ix"} = DOMAIN Field
      /\ 2 * Field["sig_off"] = 0 /\ 2 * Field["sig_ix"] = 2 /\ 2 * Field["pk_off"] = 4
      /\ 2 * Field["pk_ix"] = 6 /\ 2 * Field["msg_off"] = 8 /\ 2 * Field["msg_size"] = 10
      /\ 2 * Field["msg_ix"] = 12
  BY DEF Field
<1> QED
  BY <1>1, <1>2

\* An embedded key or message is read from the same bytes.
LEMMA SamePart ==
  ASSUME NEW off, NEW ix, NEW len, Offset(1, ix) = IX_INDEX_SELF
  PROVE  Part(1, off, ix, len) = get(Offset(1, off), Offset(1, off) + len)
BY DEF Part, get

\* The parser's key and message are those of the first signature verified.
LEMMA EmbeddedAreSame ==
  ASSUME IsBytes, base + OFFSETS_LEN <= Len(data),
         Offset(1, "pk_ix") = IX_INDEX_SELF, Offset(1, "msg_ix") = IX_INDEX_SELF
  PROVE  pubkey = VerifiedKey(1) /\ message = VerifiedMessage(1)
<1>1. pubkey = VerifiedKey(1)
  BY SameOffsets, SamePart DEF pubkey, VerifiedKey
<1>2. message = VerifiedMessage(1)
  BY SameOffsets, SamePart DEF message, VerifiedMessage
<1> QED
  BY <1>1, <1>2

-------------------------------------------------------------------------------
(***************************************************************************)
(* Results.                                                                *)
(***************************************************************************)
\* The data is always bytes.
LEMMA AlwaysBytes == Spec => []IsBytes
BY BytesInductive, PTL DEF Spec

\* Whatever numbers the data holds, wherever its parts overlap or it is cut short:
\* the program goes on with the key and the message of the first signature that
\* the precompile verified, never with others.
THEOREM KeyIsVerified == Spec => []ParsersAgree
<1>1. ASSUME IsBytes, Extracts
      PROVE  extract_embedded = [pubkey |-> VerifiedKey(1), message |-> VerifiedMessage(1)]
  <2>1. Offset(1, "pk_ix") = IX_INDEX_SELF /\ Offset(1, "msg_ix") = IX_INDEX_SELF
    BY <1>1, SameOffsets DEF Extracts, SelfReferential
  <2> QED
    BY <1>1, <2>1, EmbeddedAreSame DEF extract_embedded, Extracts
<1>2. IsBytes => ParsersAgree
  BY <1>1 DEF ParsersAgree
<1> QED
  BY <1>2, AlwaysBytes, PTL

\* A signature the precompile reads, with all its parts in the instruction's own
\* data, is not refused by the parser.
THEOREM EmbeddedIsRead == Spec => []EmbeddedExtracts
<1>1. ASSUME IsBytes, PrecompileReads,
             \A ix \in {"sig_ix", "pk_ix", "msg_ix"} : Offset(1, ix) = IX_INDEX_SELF
      PROVE  Extracts
  <2>1. data # << >> /\ data[1] # 0 /\ data[1] \in Nat
    BY <1>1 DEF IsBytes, PrecompileReads, base
  <2>2. base + OFFSETS_LEN <= Len(data)
    <3>1. Len(data) \in Nat /\ Len(data) >= base + OFFSETS_LEN * data[1]
      BY <1>1 DEF IsBytes, PrecompileReads
    <3> QED
      BY <2>1, <3>1 DEF base, OFFSETS_LEN
  <2>3. 1 \in 1..data[1]
    BY <2>1
  <2>4. Readable
    BY <1>1, <2>1, <2>2, SameOffsets DEF Readable
  <2>5. SelfReferential
    BY <1>1, <2>2, SameOffsets DEF SelfReferential
  <2>6. pubkey # None /\ message # None
    BY <1>1, <2>2, <2>3, EmbeddedAreSame DEF PrecompileReads
  <2> QED
    BY <2>2, <2>4, <2>5, <2>6 DEF Extracts
<1>2. IsBytes => EmbeddedExtracts
  BY <1>1 DEF EmbeddedExtracts
<1> QED
  BY <1>2, AlwaysBytes, PTL

===============================================================================
