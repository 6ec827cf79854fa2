------------------------------ MODULE EligibleSet ------------------------------
(***************************************************************************)
(* The set of commitments an issuer anchors, rebuilt into a tree each time *)
(* build_tree is called, and what the proofs of that tree promise to a     *)
(* claimer and to the issuer.                                              *)
(***************************************************************************)
EXTENDS MerkleTree

CONSTANTS
  Commitment,        \* 32-byte leaves, the zero digest among them
  MaxLeaves,         \* bound: leaves of the largest tree built
  MaxForgedLeaves,   \* bound: leaves of the largest tree every proof is tried on
  MAX_MERKLE_DEPTH   \* longest proof the program accepts

ASSUME DepthAssumption == MAX_MERKLE_DEPTH \in 0..WordBits

VARIABLE leaves

Init == leaves = << >>

\* The issuer submits a larger set to build_tree.
Enlarge ==
  /\ Len(leaves) < MaxLeaves
  /\ \E c \in Commitment : leaves' = Append(leaves, c)

Spec == Init /\ [][Enlarge]_leaves

Tree == from_leaves(leaves)

\* What claim_attestation asks of a proof.
AcceptedOnChain(p, merkle_root) ==
  /\ Len(p.siblings) <= MAX_MERKLE_DEPTH
  /\ verify(p.leaf, p.siblings, p.index_bits, merkle_root)

Nodes == UNION {Range(Tree[k]) : k \in 1..Len(Tree)}

\* Every proof of the tree's depth that can be put together from its nodes.
Proofs ==
  [leaf : Nodes, siblings : [1..Depth(Tree) -> Nodes], index_bits : SUBSET (0..(Depth(Tree) - 1))]

\* Every leaf of every tree, of odd sizes too, has a proof that both the program
\* and its mirror accept, unless the tree is too deep for the program.  A tree
\* deeper than a word would need more leaves than a word can count.
ProofsVerify ==
  Depth(Tree) <= WordBits =>
    \A index \in 0..(leaf_count(Tree) - 1) :
      LET p == proof(Tree, index)
      IN  /\ mirror_verify(p, root(Tree))
          /\ Depth(Tree) <= MAX_MERKLE_DEPTH => AcceptedOnChain(p, root(Tree))

\* A proof of the tree's depth that the program accepts names a leaf of the set,
\* never an inner node, and where its directions are those of a position of the
\* set, the leaf that stands there.
AcceptedProofsNameLeaves ==
  (leaves # << >> /\ Len(leaves) <= MaxForgedLeaves) =>
    LET merkle_root == root(Tree)
    IN  \A p \in Proofs : AcceptedOnChain(p, merkle_root) =>
      /\ p.leaf \in Range(leaves)
      /\ \A index \in 0..(leaf_count(Tree) - 1) :
           p.index_bits = proof(Tree, index).index_bits => p.leaf = leaves[index + 1]

\* The mirror answers as the program does on every proof the program does not
\* find too deep: "the off-chain mirror" (core/src/merkle.rs).
MirrorAgrees ==
  Len(leaves) <= MaxForgedLeaves =>
    LET merkle_root == root(Tree)
    IN  \A p \in Proofs : Len(p.siblings) <= MAX_MERKLE_DEPTH =>
      (mirror_verify(p, merkle_root) <=> AcceptedOnChain(p, merkle_root))

\* A root commits its issuer to the leaves: no other set of the same size has it.
RootBindsLeaves ==
  \A other \in [1..Len(leaves) -> Commitment] :
    (leaves # << >> /\ root(from_leaves(other)) = root(Tree)) => other = leaves

\* Off-chain verification is "on-chain-accurate" (api/src/lib.rs): a proof it
\* accepts against a root is one the program accepts against that root.
MirrorIsOnChainAccurate ==
  \A index \in 0..(leaf_count(Tree) - 1) :
    LET p == proof(Tree, index)
    IN  mirror_verify(p, root(Tree)) => AcceptedOnChain(p, root(Tree))

===============================================================================
