------------------------------ MODULE MCVerify ------------------------------
(* Three parties; a multiplication and a dot product of two terms on two   *)
(* levels and a compression factor of 2, so that vectors of length 8 are   *)
(* reduced to 4 and to 2.                                                  *)
EXTENDS Verify

MCProcs == 0..nP
MCDims  == <<1, 2>>
=============================================================================
