------------------------------ MODULE Opening ------------------------------
(***************************************************************************)
(* What a caller relies on when it opens a shared vector: each party       *)
(* contributes its share and blocks; it returns, with the opened Value,    *)
(* only once every party has contributed to the same call.                 *)
(***************************************************************************)
EXTENDS Naturals

CONSTANTS Parties, Calls, Value, None

VARIABLES contributed,  \* contributed[p]: how many openings p has entered
          returned,     \* returned[p]: how many it has left
          result        \* what the last opening returned to p, None while in it

vars == <<contributed, returned, result>>

Init ==
  /\ contributed = [p \in Parties |-> 0]
  /\ returned    = [p \in Parties |-> 0]
  /\ result      = [p \in Parties |-> None]

Contribute(p) ==
  /\ returned[p] = contributed[p] /\ contributed[p] < Calls
  /\ contributed' = [contributed EXCEPT ![p] = @ + 1]
  /\ result' = [result EXCEPT ![p] = None]
  /\ UNCHANGED returned

Return(p) ==
  /\ returned[p] < contributed[p]
  /\ \A q \in Parties : contributed[q] >= contributed[p]
  /\ returned' = [returned EXCEPT ![p] = contributed[p]]
  /\ result' = [result EXCEPT ![p] = Value]
  /\ UNCHANGED contributed

Next == \E p \in Parties : Contribute(p) \/ Return(p)

Spec == Init /\ [][Next]_vars /\ \A p \in Parties : WF_vars(Contribute(p) \/ Return(p))
=============================================================================
