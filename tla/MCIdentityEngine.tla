--------------------------- MODULE MCIdentityEngine ---------------------------
(***************************************************************************)
(* IdentityEngine with one identity, an issuer the chain reports and one   *)
(* that only the API knows.                                                *)
(***************************************************************************)
EXTENDS IdentityEngine

CONSTANTS d1, i1, i2, a, b, c1, c2

AnyLeafSet == {<< >>, <<a>>, <<b, a, b>>}
SmallLeafSet == {<<a>>, <<a, b>>}

Build(i, leaf_set) == [at |-> "build_tree", issuer |-> i, leaves |-> leaf_set]
Ingest(i) == [at |-> "ingest_issuer", issuer |-> i, view |-> NewIssuer]
ProveLeaf(i, index) == [at |-> "prove", issuer |-> i, index |-> index]
Verify(i, leaf) ==
  [at |-> "verify_proof", issuer |-> i,
   proof |-> [leaf |-> leaf, siblings |-> << >>, index_bits |-> {}]]

\* Clients that work on the issuer the keeper is mirroring.
SharedCalls == [c \in Caller |->
  {Build(i1, <<a>>), Build(i1, <<a, b>>), Ingest(i1), ProveLeaf(i1, 1), Verify(i1, a)}]

\* Clients that work on an issuer the chain does not report.
OwnCalls == [c \in Caller |->
  {Build(i2, <<a>>), Build(i2, <<b, a, b>>), Ingest(i2), ProveLeaf(i2, 2), Verify(i2, b)}]

\* A client that only builds, on the issuer the keeper is mirroring.
PolledCalls == [c \in Caller |-> {Build(i1, <<a>>), Build(i1, <<b, a, b>>)}]

EmptyTreeCalls == [c \in Caller |-> {Ingest(i2), Build(i2, << >>), ProveLeaf(i2, 0)}]

===============================================================================
