----------------------------- MODULE MCPrecompile -----------------------------
(***************************************************************************)
(* Precompile with bytes of seven values, keys and signatures of two bytes,*)
(* and one signature with a message of none to two bytes, or two of them.  *)
(***************************************************************************)
EXTENDS Precompile

Sig(message_bytes) == << <<1, 1>>, <<2, 3>>, message_bytes>>

MCSignatures ==
  {<<Sig(<< >>)>>, <<Sig(<<4>>)>>, <<Sig(<<4, 0>>)>>,
   << <<<<1, 1>>, <<5, 3>>, <<6>>>>, Sig(<<4>>)>>}

MCOther == <<3, 2, 1, 0, 3, 2>>

===============================================================================
