-------------------------------- MODULE Merkle --------------------------------
(***************************************************************************)
(* The on-chain Merkle membership check,                                   *)
(* programs/passkeyauth/src/merkle.rs.                                     *)
(*                                                                         *)
(* A digest is a model value (a commitment, a hash nobody opens here) or   *)
(* the pair <<left, right>> that a keccak-256 of two digests stands for:   *)
(* the hash is the ideal one, injective and never equal to a commitment.   *)
(* `index_bits` is the set of the positions of the bits set in the u64:    *)
(* (index_bits >> level) & 1 == 1 is level \in index_bits, for a level     *)
(* below the width of the integer.                                         *)
(*                                                                         *)
(* Nothing here is a RECURSIVE operator, so that modules with theorems may *)
(* extend this one.                                                        *)
(***************************************************************************)
EXTENDS Naturals, Sequences, SequencesExt

\* keccak256(left ++ right).
hash_pair(left, right) == <<left, right>>

\* The hashes from `leaf` up through its siblings; `right` holds the levels, counted
\* from 1 as positions of `siblings` are, at which the node is the right child.
Climb(leaf, siblings, right) ==
  LET node[level \in 0..Len(siblings)] ==
        IF level = 0 THEN leaf
        ELSE IF level \in right THEN hash_pair(siblings[level], node[level - 1])
        ELSE hash_pair(node[level - 1], siblings[level])
  IN  node

\* Mutated: the first sibling is skipped.
compute_root_Skipping(leaf, proof, index_bits) ==
  LET rest == IF proof = << >> THEN proof ELSE Tail(proof)
  IN  Climb(leaf, rest, {level \in 1..Len(rest) : level \in index_bits})[Len(rest)]

compute_root(leaf, proof, index_bits) ==
  Climb(leaf, proof, {level \in 1..Len(proof) : level - 1 \in index_bits})[Len(proof)]

verify(leaf, proof, index_bits, root) == compute_root(leaf, proof, index_bits) = root

===============================================================================
