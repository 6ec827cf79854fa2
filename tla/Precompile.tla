------------------------------ MODULE Precompile ------------------------------
(***************************************************************************)
(* The data of a secp256r1 precompile instruction, byte by byte, and the   *)
(* two programs that read it: extract_embedded of programs/passkeyauth/src/*)
(* passkey.rs, and the precompile itself.  A client builds the data, and   *)
(* may get its numbers wrong.                                              *)
(*                                                                         *)
(* Bytes have few values, so that a u16 reaches little further than the    *)
(* data, as the 65535 of the code do in a transaction of 1232 bytes.       *)
(***************************************************************************)
EXTENDS Integers, SequencesExt

CONSTANTS
  Radix,            \* values of a byte
  P256_PUBKEY_LEN,  \* bytes of a compressed key
  SIGNATURE_LEN,    \* bytes of a signature
  Signatures,       \* what clients have verified: sequences of signature, key, message
  Other,            \* the data of the other instructions of the transaction
  MaxEdits,         \* bound: numbers a client gets wrong
  None

ASSUME FormatAssumption ==
  /\ Radix \in Nat \ {0} /\ P256_PUBKEY_LEN \in Nat /\ SIGNATURE_LEN \in Nat
  /\ Signatures \subseteq Seq([1..3 -> Seq(Nat)])
  /\ Other \in Seq(Nat)
  /\ None \notin Nat /\ None \notin Seq(Nat)

\* u16::MAX, the size of the header, and that of a SignatureOffsets.
IX_INDEX_SELF == Radix * Radix - 1
base == 2
OFFSETS_LEN == 14

VARIABLES data, edits

-------------------------------------------------------------------------------
(***************************************************************************)
(* The program's parser.  Positions count from 0, as in the code.          *)
(***************************************************************************)
\* Mutated: the range must end before the data does.
get_Before(from, to) == IF to < Len(data) THEN SubSeq(data, from + 1, to) ELSE None

\* `data.get(from..to)`
get(from, to) == IF to <= Len(data) THEN SubSeq(data, from + 1, to) ELSE None

u16_from_le_bytes(b) == b[1] + Radix * b[2]

read_u16(at) ==
  LET b == get(at, at + 2) IN IF b = None THEN None ELSE u16_from_le_bytes(b)

Readable ==
  /\ data # << >> /\ data[1] # 0
  /\ \A k \in {0, 2, 4, 6, 8, 10, 12} : read_u16(base + k) # None

SelfReferential == \A k \in {2, 6, 12} : read_u16(base + k) = IX_INDEX_SELF

\* Mutated: the key is looked for where the signature is.
pubkey_AtSignature ==
  LET pk_off == read_u16(base) IN get(pk_off, pk_off + P256_PUBKEY_LEN)

pubkey ==
  LET pk_off == read_u16(base + 4) IN get(pk_off, pk_off + P256_PUBKEY_LEN)

message ==
  LET msg_off == read_u16(base + 8)
  IN  get(msg_off, msg_off + read_u16(base + 10))

Extracts ==
  /\ Readable /\ SelfReferential
  /\ base + OFFSETS_LEN <= Len(data)
  /\ pubkey # None /\ message # None

extract_embedded == IF Extracts THEN [pubkey |-> pubkey, message |-> message] ELSE None

-------------------------------------------------------------------------------
(***************************************************************************)
(* The precompile: an array of structs of seven u16 after the header, each *)
(* part of a signature in the instruction its index names.                 *)
(***************************************************************************)
Field == [sig_off |-> 0, sig_ix |-> 1, pk_off |-> 2, pk_ix |-> 3,
          msg_off |-> 4, msg_size |-> 5, msg_ix |-> 6]

Position(sig, name) == base + OFFSETS_LEN * (sig - 1) + 2 * Field[name]

Offset(sig, name) ==
  data[Position(sig, name) + 1] + Radix * data[Position(sig, name) + 2]

Part(sig, off, ix, len) ==
  LET source == IF Offset(sig, ix) = IX_INDEX_SELF THEN data ELSE Other
      from   == Offset(sig, off)
  IN  IF from + len <= Len(source) THEN SubSeq(source, from + 1, from + len) ELSE None

VerifiedKey(sig) == Part(sig, "pk_off", "pk_ix", P256_PUBKEY_LEN)
VerifiedMessage(sig) == Part(sig, "msg_off", "msg_ix", Offset(sig, "msg_size"))

\* It can read every signature; that they are valid is not a matter of layout.
PrecompileReads ==
  /\ Len(data) >= base /\ data[1] # 0
  /\ Len(data) >= base + OFFSETS_LEN * data[1]
  /\ \A sig \in 1..data[1] :
       /\ Part(sig, "sig_off", "sig_ix", SIGNATURE_LEN) # None
       /\ VerifiedKey(sig) # None /\ VerifiedMessage(sig) # None

-------------------------------------------------------------------------------
(***************************************************************************)
(* Clients.                                                                *)
(***************************************************************************)
to_le_bytes(v) == <<v % Radix, v \div Radix>>

Payloads(sigs) == FlattenSeq([i \in DOMAIN sigs |-> FlattenSeq(sigs[i])])

OffsetsOf(sigs, i) ==
  LET sig_off == base + OFFSETS_LEN * Len(sigs) + Len(Payloads(SubSeq(sigs, 1, i - 1)))
      pk_off  == sig_off + Len(sigs[i][1])
      msg_off == pk_off + Len(sigs[i][2])
      self    == to_le_bytes(IX_INDEX_SELF)
  IN  to_le_bytes(sig_off) \o self \o to_le_bytes(pk_off) \o self
        \o to_le_bytes(msg_off) \o to_le_bytes(Len(sigs[i][3])) \o self

Blob(sigs) ==
  <<Len(sigs), 0>> \o FlattenSeq([i \in DOMAIN sigs |-> OffsetsOf(sigs, i)])
    \o Payloads(sigs)

Init == edits = 0 /\ data \in {Blob(sigs) : sigs \in Signatures}

Edit == edits < MaxEdits /\ edits' = edits + 1

WrongNumber ==
  /\ Edit
  /\ \E name \in DOMAIN Field, v \in 0..IX_INDEX_SELF :
       LET at == Position(1, name)
       IN  /\ at + 2 <= Len(data)
           /\ data' = [data EXCEPT ![at + 1] = v % Radix, ![at + 2] = v \div Radix]

WrongCount == Edit /\ data # << >> /\ \E n \in 0..2 : data' = [data EXCEPT ![1] = n]

Truncated == Edit /\ \E len \in 0..Len(data) : data' = SubSeq(data, 1, len)

Next == WrongNumber \/ WrongCount \/ Truncated

Spec == Init /\ [][Next]_<<data, edits>>

-------------------------------------------------------------------------------
(***************************************************************************)
(* Properties.                                                             *)
(***************************************************************************)
\* Whatever numbers the data holds, the key and the message the program goes on
\* with are those of the first signature the precompile verified.
ParsersAgree ==
  (PrecompileReads /\ Extracts) =>
    extract_embedded = [pubkey |-> VerifiedKey(1), message |-> VerifiedMessage(1)]

\* An embedded signature that the precompile can read is not refused, the message
\* at the very end of the data and offsets that overlap the header included.
EmbeddedExtracts ==
  (/\ PrecompileReads
   /\ \A ix \in {"sig_ix", "pk_ix", "msg_ix"} : Offset(1, ix) = IX_INDEX_SELF)
    => Extracts

===============================================================================
