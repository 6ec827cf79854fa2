----------------------------- MODULE MCEligibleSet -----------------------------
(***************************************************************************)
(* EligibleSet with two commitments, the zero digest one of them.          *)
(***************************************************************************)
EXTENDS EligibleSet

CONSTANT c1

MCCommitment == {ZeroDigest, c1}

===============================================================================
