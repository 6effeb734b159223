--------------------------- MODULE MCReconstruct ---------------------------
(* Three parties.  The first plan keeps the sums of an opening for the     *)
(* check that rides along with a later one, whose nonce is opened as well, *)
(* over P_king; then, after an accept, by broadcast.  It opens vectors of   *)
(* one value too, shorter than the number of parties.  The second plan is  *)
(* for streams that buffer.                                                *)
EXTENDS Reconstruct

MCProcs == 1..nP

Call(mode, n, include, check, nonce) ==
  [mode |-> mode, n |-> n, include |-> include, check |-> check, nonce |-> nonce]
Accept == Call("accept", 1, FALSE, FALSE, FALSE)

MCPlan == <<Call("pking", 4, TRUE, FALSE, FALSE), Call("broadcast", 1, FALSE, FALSE, FALSE),
            Call("pking", 1, FALSE, TRUE, TRUE), Accept,
            Call("broadcast", 2, FALSE, TRUE, TRUE), Accept>>
MCLazyPlan == <<Call("pking", 4, FALSE, FALSE, TRUE), Call("broadcast", 1, FALSE, TRUE, TRUE), Accept>>
=============================================================================
