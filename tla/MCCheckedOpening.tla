-------------------------- MODULE MCCheckedOpening --------------------------
(* Three parties; every party may see something else in every opening.  A  *)
(* vector is kept for the check in a later call, what is committed to is    *)
(* checked with a nonce, and each accept comes right after a check.        *)
EXTENDS CheckedOpening

Exchange(mode, include, check, nonce) ==
  [mode |-> mode, include |-> include, check |-> check, nonce |-> nonce]
Accept == Exchange("accept", FALSE, FALSE, FALSE)

MCPlan == <<Exchange("pking", TRUE, FALSE, FALSE), Exchange("broadcast", FALSE, TRUE, TRUE), Accept,
            Exchange("broadcast", FALSE, FALSE, TRUE), Accept>>
=============================================================================
