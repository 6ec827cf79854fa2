------------------------------ MODULE MerkleTree ------------------------------
(***************************************************************************)
(* The off-chain side of offchain/crates/core/src/merkle.rs: the tree an   *)
(* issuer's leaves are built into, the proofs it hands out, and the mirror *)
(* of the on-chain check.                                                  *)
(*                                                                         *)
(* A tree is its sequence of levels, the leaves first and the root last.   *)
(***************************************************************************)
EXTENDS Merkle

CONSTANTS
  ZeroDigest,  \* [0u8; 32]
  WordBits     \* width of the u64 that carries the direction bits

ASSUME WordBitsAssumption == WordBits \in Nat \ {0}

\* Mutated: an odd last node is left out of the level above.
NextLevel_Dropping(cur) ==
  [i \in 1..(Len(cur) \div 2) |-> hash_pair(cur[2 * i - 1], cur[2 * i])]

\* The level above `cur`: an odd last node is paired with itself.
NextLevel(cur) ==
  [i \in 1..((Len(cur) + 1) \div 2) |->
     hash_pair(cur[2 * i - 1],
               IF 2 * i <= Len(cur) THEN cur[2 * i] ELSE cur[2 * i - 1])]

\* The levels above `base`, itself the first: as many as there are nodes in it
\* are more than enough.
Levels(base) ==
  LET level[k \in 0..Len(base)] == IF k = 0 THEN base ELSE NextLevel(level[k - 1])
  IN  level

\* MerkleTree::from_leaves. Levels are added until one holds a single node.
from_leaves(leaves) ==
  LET base == IF leaves = << >> THEN <<ZeroDigest>> ELSE leaves
      level == Levels(base)
      height == CHOOSE h \in 0..Len(base) :
                  /\ Len(level[h]) = 1
                  /\ \A k \in 0..(h - 1) : Len(level[k]) > 1
  IN  [k \in 1..(height + 1) |-> level[k - 1]]

root(tree) == Last(Last(tree))

leaf_count(tree) == Len(tree[1])

\* The number of siblings in each of the tree's proofs.
Depth(tree) == Len(tree) - 1

\* Mutated: the sibling is always the next node.
SiblingIndex_Next(idx, n) == Min({idx + 1, n - 1})

\* The index (from 0) of the sibling of node `idx` among `n` nodes.
SiblingIndex(idx, n) ==
  IF idx % 2 = 1 THEN idx - 1 ELSE Min({idx + 1, n - 1})

\* The index, level by level, of the ancestors of leaf `index`.
Ancestors(index, height) ==
  LET idx[level \in 0..height] == IF level = 0 THEN index ELSE idx[level - 1] \div 2
  IN  idx

\* MerkleTree::proof for an index below leaf_count; callers test the range.
proof(tree, index) ==
  LET idx == Ancestors(index, Depth(tree))
  IN  [leaf       |-> tree[1][index + 1],
       siblings   |-> [k \in 1..Depth(tree) |->
                         tree[k][SiblingIndex(idx[k - 1], Len(tree[k])) + 1]],
       index_bits |-> {level \in 0..(Depth(tree) - 1) : idx[level] % 2 = 1}]

\* Mutated: the directions are read from the other end.
mirror_compute_root_Reversed(leaf, siblings, index_bits) ==
  Climb(leaf, siblings,
        {level \in 1..Len(siblings) : Len(siblings) - level \in index_bits})[Len(siblings)]

\* The off-chain compute_root bounds neither the number of siblings nor the
\* shift: in the release profile, which has no overflow checks, the shift
\* amount wraps at the width of the word.
mirror_compute_root(leaf, siblings, index_bits) ==
  Climb(leaf, siblings,
        {level \in 1..Len(siblings) : (level - 1) % WordBits \in index_bits})[Len(siblings)]

mirror_verify(p, merkle_root) ==
  mirror_compute_root(p.leaf, p.siblings, p.index_bits) = merkle_root

===============================================================================
