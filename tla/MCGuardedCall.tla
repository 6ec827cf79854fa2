---------------------------- MODULE MCGuardedCall ----------------------------
(***************************************************************************)
(* GuardedCall with two callers: one whose policy allows no attempts, one  *)
(* that tries three times.                                                 *)
(***************************************************************************)
EXTENDS GuardedCall, TLC

CONSTANTS c1, c2

MCMaxAttempts == (c1 :> 0) @@ (c2 :> 3)

===============================================================================
