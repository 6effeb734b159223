------------------------- MODULE MCReconstructPking -------------------------
(* Three parties, two calls in a row; four values make blocks of 1, 1 and  *)
(* 2, two values leave every block but the last one empty.                 *)
EXTENDS ReconstructPking

MCProcs == 1..nP
=============================================================================
