-------------------------------- MODULE MCNode --------------------------------
(***************************************************************************)
(* Node with one client that writes and one that verifies, a subscriber and*)
(* a ring of two events.                                                   *)
(***************************************************************************)
EXTENDS MCIdentityEngine, Node

CONSTANT s1

\* One client builds trees of an issuer the chain does not report, the other only
\* verifies against them.
NodeCalls == [c \in Caller |->
  IF c = c1 THEN {Build(i2, <<a>>), Build(i2, <<a, b>>), Ingest(i2)} ELSE {Verify(i2, b)}]

===============================================================================
