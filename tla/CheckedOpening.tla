--------------------------- MODULE CheckedOpening ---------------------------
(***************************************************************************)
(* What verify() and its helpers rely on when the parties exchange         *)
(* messages (zkfliop::Evaluator, src/src/protocol/zkfliop_evaluator.cpp):   *)
(* a sequence of calls that all parties make alike.  A call contributes and *)
(* blocks; it goes on once every party has contributed to it.  In an       *)
(* opening a party then sees some view of the opened vector, not           *)
(* necessarily the one the others see.  Views are either kept (include) for *)
(* a check, which compares the parties' digests of them, or they are of     *)
(* what the dealer has committed to, and compared with that when a nonce is *)
(* opened along with them.  An accept makes everybody give up if anybody    *)
(* has found a mismatch.                                                   *)
(***************************************************************************)
EXTENDS Naturals, Sequences

CONSTANTS Parties,
          Plan,      \* the calls: [mode, include, check, nonce] and more
          Views,     \* what a party may see of an opened vector
          Right      \* the view that the dealer has committed to

(* reconstruct() asserts that a call is not both checked and included; a   *)
(* nonce comes with openAdditive, which includes nothing.                  *)
ASSUME PlanAssumption ==
  /\ Len(Plan) \in Nat /\ DOMAIN Plan = 1..Len(Plan)
  /\ \A n \in DOMAIN Plan :
       /\ Plan[n].mode \in {"pking", "broadcast", "accept"}
       /\ {Plan[n].include, Plan[n].check, Plan[n].nonce} \subseteq BOOLEAN
       /\ Plan[n].include => ~Plan[n].check /\ ~Plan[n].nonce
       /\ Plan[n].mode = "accept" => ~Plan[n].include /\ ~Plan[n].check /\ ~Plan[n].nonce

VARIABLES shown,     \* shown[p]: what p contributed, one entry per call
          checked,   \* checked[p]: the calls whose digests p has compared
          returned,  \* returned[p]: the calls p has returned from
          kept,      \* kept[p]: the views the next check is about
          opened,    \* opened[p]: the views to compare with a commitment
          bad,       \* bad[p]: p has found a mismatch
          gone       \* gone[p]: p gave up

vars == <<shown, checked, returned, kept, opened, bad, gone>>

Init ==
  /\ shown = [p \in Parties |-> << >>] /\ checked = [p \in Parties |-> {}]
  /\ returned = [p \in Parties |-> 0] /\ kept = [p \in Parties |-> << >>]
  /\ opened = [p \in Parties |-> << >>]
  /\ bad = [p \in Parties |-> FALSE] /\ gone = [p \in Parties |-> FALSE]

Call(p) == Len(shown[p])

Content(p, c) ==
  IF c.mode = "accept" THEN ~bad[p] ELSE IF c.check THEN kept[p] ELSE << >>

Contribute(p) ==
  /\ returned[p] = Call(p) /\ Call(p) < Len(Plan) /\ ~gone[p]
  /\ shown' = [shown EXCEPT ![p] = Append(@, Content(p, Plan[Call(p) + 1]))]
  /\ UNCHANGED <<checked, returned, kept, opened, bad, gone>>

AllIn(p) == returned[p] < Call(p) /\ \A q \in Parties : Call(q) >= Call(p)

(* Variant: the digests are received and not compared. *)
Mismatch_Never(p, n) == FALSE

(* p's own digest is compared with everybody else's.                       *)
Mismatch(p, n) == \E q \in Parties : shown[q][n] # shown[p][n]

Check(p) ==
  LET n == Call(p)
  IN  /\ AllIn(p) /\ Plan[n].check /\ n \notin checked[p]
      /\ checked' = [checked EXCEPT ![p] = @ \cup {n}]
      /\ kept' = [kept EXCEPT ![p] = << >>]
      /\ bad' = [bad EXCEPT ![p] = @ \/ Mismatch(p, n)]
      /\ UNCHANGED <<shown, returned, opened, gone>>

(* Variant: everybody goes by its own bit. *)
Refused_OwnBit(p, n) == shown[p][n] # TRUE

(* accept is the conjunction of all parties' bits.                         *)
Refused(p, n) == \E q \in Parties : shown[q][n] # TRUE

Return(p, v) ==
  LET n == Call(p)
      c == Plan[n]
      committed == c.mode # "accept" /\ ~c.include
      views == IF committed THEN Append(opened[p], v) ELSE opened[p]
  IN  /\ AllIn(p) /\ (c.check => n \in checked[p])
      /\ returned' = [returned EXCEPT ![p] = n]
      /\ kept' = [kept EXCEPT ![p] = IF c.include THEN Append(@, v) ELSE @]
      /\ opened' = [opened EXCEPT ![p] = IF c.nonce THEN << >> ELSE views]
      /\ bad' = [bad EXCEPT ![p] = @ \/ (c.nonce /\ \E i \in DOMAIN views : views[i] # Right)]
      /\ gone' = [gone EXCEPT ![p] = c.mode = "accept" /\ Refused(p, n)]
      /\ UNCHANGED <<shown, checked>>

Step(p) == Contribute(p) \/ Check(p) \/ \E v \in Views : Return(p, v)

Next == \E p \in Parties : Step(p)

Spec == Init /\ [][Next]_vars /\ \A p \in Parties : WF_vars(Step(p))

-----------------------------------------------------------------------------
(* A party that returns from the call in which another gave up, gave up    *)
(* there as well: nobody goes on to wait for a party that has left         *)
(* (checkForAccept and checkForDoubleAccept, 1726-1771).                   *)
SameFate ==
  \A p, q \in Parties : gone[p] /\ returned[q] >= returned[p] =>
    gone[q] /\ returned[q] = returned[p]

(* Who gets past an accept knows that in every check before it all digests  *)
(* of all parties were the same, not only those it compared itself: what    *)
(* section 4.2.5, quoted in 1611-1616, asks for before anything is opened.  *)
Agreement ==
  \A p \in Parties : \A n \in 1..returned[p] :
    Plan[n].mode = "accept" /\ ~(gone[p] /\ returned[p] = n) =>
      \A m \in 1..n : Plan[m].check => \A q, r \in Parties : shown[q][m] = shown[r][m]

(* When a party has got past an accept and not gone on yet, no party has    *)
(* found a mismatch of any kind (1549, 1659, 1708-1713).                   *)
AllClear ==
  \A p \in Parties :
    /\ Call(p) > 0 /\ returned[p] = Call(p) /\ ~gone[p]
    /\ Plan[Call(p)].mode = "accept"
    => \A q \in Parties : ~bad[q]
=============================================================================
