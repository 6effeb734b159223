------------------------ MODULE CheckedOpening_proofs ------------------------
(***************************************************************************)
(* Proofs about CheckedOpening, for every set of parties, every plan and   *)
(* every set of views: what a party sees of an opening is arbitrary.       *)
(***************************************************************************)
EXTENDS CheckedOpening, TLAPS

Contents == BOOLEAN \cup Seq(Views)

TypeInv ==
  /\ shown    \in [Parties -> Seq(Contents)]
  /\ checked  \in [Parties -> SUBSET Nat]
  /\ returned \in [Parties -> Nat]
  /\ kept     \in [Parties -> Seq(Views)]
  /\ opened   \in [Parties -> Seq(Views)]
  /\ bad      \in [Parties -> BOOLEAN]
  /\ gone     \in [Parties -> BOOLEAN]

(* A party is in at most one call, and compares digests of that call only. *)
OrderInv ==
  \A p \in Parties :
    /\ Call(p) <= Len(Plan)
    /\ returned[p] <= Call(p) /\ Call(p) <= returned[p] + 1
    /\ checked[p] \subseteq 1..Call(p)

(* Nobody returns from a call that somebody has not contributed to.        *)
BarrierInv == \A p, q \in Parties : returned[p] <= Call(q)

(* Nobody returns from a call with a check without comparing.              *)
CheckInv ==
  \A p \in Parties : \A m \in 1..returned[p] : Plan[m].check => m \in checked[p]

(* What p has compared was equal, or p knows of a mismatch.                *)
KnowInv ==
  \A p \in Parties : \A m \in checked[p] :
    \A q \in Parties : m <= Call(q) /\ (bad[p] \/ shown[q][m] = shown[p][m])

(* Who said yes in an accept had found every digest so far equal to its own. *)
YesInv ==
  \A p \in Parties : \A n \in 1..Call(p) :
    Plan[n].mode = "accept" /\ shown[p][n] = TRUE =>
      \A m \in 1..n : Plan[m].check =>
        \A q \in Parties : m <= Call(q) /\ shown[q][m] = shown[p][m]

(* A mismatch found after saying yes is found in a call that all have entered. *)
LaterInv ==
  \A p \in Parties : \A n \in 1..Call(p) :
    Plan[n].mode = "accept" /\ shown[p][n] = TRUE /\ bad[p] =>
      \A q \in Parties : n < Call(q)

(* Who got past an accept has seen everybody say yes.                      *)
PassedInv ==
  \A p \in Parties : \A n \in 1..returned[p] :
    Plan[n].mode = "accept" /\ ~(gone[p] /\ returned[p] = n) =>
      \A q \in Parties : shown[q][n] = TRUE

(* Who gave up has seen somebody say no, in the call it has just ended.    *)
GoneInv ==
  \A p \in Parties : gone[p] =>
    /\ returned[p] = Call(p) /\ Call(p) > 0
    /\ Plan[Call(p)].mode = "accept"
    /\ \E q \in Parties : shown[q][Call(p)] # TRUE

IInv ==
  /\ TypeInv /\ OrderInv /\ BarrierInv /\ CheckInv /\ KnowInv
  /\ YesInv /\ LaterInv /\ PassedInv /\ GoneInv

-----------------------------------------------------------------------------
(* Nobody has done anything yet.                                           *)
LEMMA InitIInv == Init => IInv
<1> SUFFICES ASSUME Init PROVE IInv
  OBVIOUS
<1> USE DEF Init, Call
<1>1. TypeInv
  BY SMT DEF TypeInv, Contents
<1>2. \A p \in Parties : shown[p] = << >> /\ Len(shown[p]) = 0
  OBVIOUS
<1> QED
  BY <1>1, <1>2, PlanAssumption, SMT DEF IInv, OrderInv, BarrierInv, CheckInv, KnowInv, YesInv, LaterInv,
     PassedInv, GoneInv

(* A contribution appends an entry for a call that nobody has passed yet.  *)
LEMMA ContributeIInv == ASSUME IInv, NEW p \in Parties, Contribute(p) PROVE IInv'
<1> DEFINE n == Len(shown[p]) + 1
           c == Content(p, Plan[n])
<1> USE DEF IInv, Call
<1>1. /\ n \in 1..Len(Plan) /\ n = returned[p] + 1 /\ ~gone[p]
      /\ checked[p] \subseteq 1..(n - 1)
      /\ shown' = [shown EXCEPT ![p] = Append(@, c)]
      /\ UNCHANGED <<checked, returned, kept, opened, bad, gone>>
  BY PlanAssumption DEF Contribute, TypeInv, OrderInv
<1>2. c \in Contents /\ (Plan[n].mode = "accept" => c = ~bad[p])
  BY <1>1, PlanAssumption DEF Content, TypeInv, Contents
<1>3. \A q \in Parties : Len(shown[q]) \in Nat
  BY DEF TypeInv
<1>4. /\ shown' \in [Parties -> Seq(Contents)]
      /\ Len(shown'[p]) = n /\ shown'[p][n] = c
      /\ \A q \in Parties : q # p => shown'[q] = shown[q]
      /\ \A q \in Parties : Len(shown[q]) <= Len(shown'[q]) /\ Len(shown'[q]) \in Nat
      /\ \A q \in Parties : \A m \in 1..Len(shown[q]) : shown'[q][m] = shown[q][m]
  BY <1>1, <1>2, <1>3, SMTT(30) DEF TypeInv
<1> HIDE DEF c
<1>5. TypeInv'
  BY <1>1, <1>4 DEF TypeInv
<1>6. OrderInv'
  BY <1>1, <1>3, <1>4 DEF OrderInv, TypeInv
<1>7. BarrierInv'
  BY <1>1, <1>3, <1>4 DEF BarrierInv, TypeInv
<1>8. CheckInv'
  BY <1>1 DEF CheckInv
<1>9. KnowInv'
  <2> SUFFICES ASSUME NEW r \in Parties, NEW m \in checked'[r], NEW q \in Parties
               PROVE  m <= Len(shown'[q]) /\ (bad'[r] \/ shown'[q][m] = shown'[r][m])
    BY DEF KnowInv
  <2>1. m \in checked[r] /\ bad'[r] = bad[r]
    BY <1>1
  <2>2. m \in 1..Len(shown[q]) /\ m \in 1..Len(shown[r]) /\ (bad[r] \/ shown[q][m] = shown[r][m])
    <3>1. m <= Len(shown[q]) /\ (bad[r] \/ shown[q][m] = shown[r][m])
      BY <2>1 DEF KnowInv
    <3>2. m \in 1..Len(shown[r])
      BY <2>1 DEF OrderInv
    <3> QED BY <3>1, <3>2, <1>3
  <2> QED BY <2>1, <2>2, <1>3, <1>4, SMTT(60)
<1>10. YesInv'
  <2> SUFFICES ASSUME NEW r \in Parties, NEW l \in 1..Len(shown'[r]),
                      Plan[l].mode = "accept", shown'[r][l] = TRUE,
                      NEW m \in 1..l, Plan[m].check, NEW q \in Parties
               PROVE  m <= Len(shown'[q]) /\ shown'[q][m] = shown'[r][m]
    BY <1>1 DEF YesInv
  <2>1. CASE l \in 1..Len(shown[r])
    <3>1. shown[r][l] = TRUE
      BY <2>1, <1>4
    <3>2. m \in 1..Len(shown[q]) /\ m \in 1..Len(shown[r]) /\ shown[q][m] = shown[r][m]
      BY <2>1, <3>1, <1>3 DEF YesInv
    <3> QED BY <3>2, <1>3, <1>4
  <2>2. CASE l \notin 1..Len(shown[r])
    <3>1. r = p /\ l = n
      BY <2>2, <1>1, <1>3, <1>4
    <3>2. ~bad[p] /\ m # n
      BY <3>1, <1>1, <1>2, <1>4, PlanAssumption DEF TypeInv
    <3>3. m \in 1..returned[p] /\ m \in checked[p]
      BY <3>1, <3>2, <1>1, <1>3, SMTT(60) DEF CheckInv, TypeInv
    <3> QED
      BY <3>1, <3>2, <3>3, <1>1, <1>3, <1>4, SMTT(60) DEF KnowInv, OrderInv, TypeInv
  <2> QED BY <2>1, <2>2
<1>11. LaterInv'
  <2> SUFFICES ASSUME NEW r \in Parties, NEW l \in 1..Len(shown'[r]),
                      Plan[l].mode = "accept", shown'[r][l] = TRUE, bad[r]
               PROVE  \A q \in Parties : l < Len(shown'[q])
    BY <1>1 DEF LaterInv
  <2>1. l \in 1..Len(shown[r])
    <3> SUFFICES ASSUME l \notin 1..Len(shown[r]) PROVE FALSE
      OBVIOUS
    <3>1. r = p /\ l = n
      BY <1>1, <1>3, <1>4
    <3> QED
      BY <3>1, <1>2, <1>4 DEF TypeInv
  <2> QED
    BY <2>1, <1>3, <1>4, SMTT(60) DEF LaterInv
<1>12. PassedInv'
  <2> SUFFICES ASSUME NEW r \in Parties, NEW l \in 1..returned[r], Plan[l].mode = "accept",
                      ~(gone[r] /\ returned[r] = l), NEW q \in Parties
               PROVE  shown'[q][l] = TRUE
    BY <1>1 DEF PassedInv
  <2>1. l \in 1..Len(shown[q]) /\ shown[q][l] = TRUE
    BY <1>3 DEF PassedInv, BarrierInv, TypeInv
  <2> QED BY <2>1, <1>4
<1>13. GoneInv'
  <2> SUFFICES ASSUME NEW r \in Parties, gone[r]
               PROVE  /\ returned[r] = Len(shown'[r]) /\ Len(shown'[r]) > 0
                      /\ Plan[Len(shown'[r])].mode = "accept"
                      /\ \E q \in Parties : shown'[q][Len(shown'[r])] # TRUE
    BY <1>1 DEF GoneInv
  <2>1. r # p /\ shown'[r] = shown[r] /\ returned[r] = Len(shown[r]) /\ Len(shown[r]) > 0
        /\ Plan[Len(shown[r])].mode = "accept"
    BY <1>1, <1>4 DEF GoneInv
  <2>2. PICK q \in Parties : shown[q][Len(shown[r])] # TRUE
    BY DEF GoneInv
  <2>3. Len(shown[r]) \in 1..Len(shown[q])
    BY <2>1, <1>3 DEF BarrierInv
  <2> QED BY <2>1, <2>2, <2>3, <1>4
<1> QED
  BY <1>5, <1>6, <1>7, <1>8, <1>9, <1>10, <1>11, <1>12, <1>13

(* In a check everybody has entered the call, so that what is compared is   *)
(* final; a mismatch found now is found after every earlier accept.         *)
LEMMA CheckIInv == ASSUME IInv, NEW p \in Parties, Check(p) PROVE IInv'
<1> DEFINE n == Len(shown[p])
<1> USE DEF IInv, Call
<1>1. /\ n \in 1..Len(Plan) /\ n = returned[p] + 1 /\ Plan[n].check
      /\ \A q \in Parties : n <= Len(shown[q])
      /\ checked' = [checked EXCEPT ![p] = @ \cup {n}]
      /\ kept' = [kept EXCEPT ![p] = << >>]
      /\ bad' = [bad EXCEPT ![p] = @ \/ \E q \in Parties : shown[q][n] # shown[p][n]]
      /\ UNCHANGED <<shown, returned, opened, gone>>
  BY PlanAssumption DEF Check, Mismatch, AllIn, TypeInv, OrderInv
<1>2. \A q \in Parties : Len(shown[q]) \in Nat
  BY DEF TypeInv
<1>3. Plan[n].mode # "accept"
  BY <1>1, PlanAssumption
<1>4. /\ bad' \in [Parties -> BOOLEAN]
      /\ \A q \in Parties : q # p => bad'[q] = bad[q] /\ checked'[q] = checked[q]
      /\ (bad[p] => bad'[p]) /\ checked'[p] = checked[p] \cup {n}
      /\ ~bad'[p] => \A q \in Parties : shown[q][n] = shown[p][n]
  BY <1>1 DEF TypeInv
<1>5. TypeInv'
  BY <1>1, <1>2, <1>4, SMTT(60) DEF TypeInv
<1>6. OrderInv'
  BY <1>1, <1>2, <1>4 DEF OrderInv
<1>7. BarrierInv'
  BY <1>1 DEF BarrierInv
<1>8. CheckInv'
  BY <1>1, <1>4 DEF CheckInv, TypeInv
<1>9. KnowInv'
  <2> SUFFICES ASSUME NEW r \in Parties, NEW m \in checked'[r], NEW q \in Parties
               PROVE  m <= Len(shown[q]) /\ (bad'[r] \/ shown[q][m] = shown[r][m])
    BY <1>1 DEF KnowInv
  <2>1. CASE r # p
    BY <2>1, <1>4 DEF KnowInv
  <2>2. CASE r = p /\ m = n
    BY <2>2, <1>1, <1>4 DEF TypeInv
  <2>3. CASE r = p /\ m # n
    <3>1. m \in checked[p]
      BY <2>3, <1>4
    <3> QED BY <2>3, <3>1, <1>4 DEF KnowInv, TypeInv
  <2> QED BY <2>1, <2>2, <2>3
<1>10. YesInv'
  BY <1>1 DEF YesInv
<1>11. LaterInv'
  <2> SUFFICES ASSUME NEW r \in Parties, NEW l \in 1..Len(shown[r]),
                      Plan[l].mode = "accept", shown[r][l] = TRUE, bad'[r], NEW q \in Parties
               PROVE  l < Len(shown[q])
    BY <1>1 DEF LaterInv
  <2>1. CASE r # p
    BY <2>1, <1>4 DEF LaterInv
  <2>2. CASE r = p
    BY <2>2, <1>1, <1>2, <1>3
  <2> QED BY <2>1, <2>2
<1>12. PassedInv'
  BY <1>1 DEF PassedInv
<1>13. GoneInv'
  BY <1>1 DEF GoneInv
<1> QED
  BY <1>5, <1>6, <1>7, <1>8, <1>9, <1>10, <1>11, <1>12, <1>13

(* A call ends after everybody has entered it; an accept ends well only if  *)
(* everybody said yes.                                                     *)
LEMMA ReturnIInv == ASSUME IInv, NEW p \in Parties, NEW v \in Views, Return(p, v) PROVE IInv'
<1> DEFINE n == Len(shown[p])
           c == Plan[n]
           yes == \A q \in Parties : shown[q][n] = TRUE
<1> USE DEF IInv, Call
<1>1. /\ n \in 1..Len(Plan) /\ n = returned[p] + 1 /\ (c.check => n \in checked[p])
      /\ \A q \in Parties : n <= Len(shown[q])
      /\ returned' = [returned EXCEPT ![p] = n]
      /\ UNCHANGED <<shown, checked>>
  BY PlanAssumption DEF Return, AllIn, TypeInv, OrderInv
<1>2. \A q \in Parties : Len(shown[q]) \in Nat
  BY DEF TypeInv
<1>3. kept' \in [Parties -> Seq(Views)] /\ opened' \in [Parties -> Seq(Views)]
  <2> DEFINE committed == c.mode # "accept" /\ ~c.include
             views == IF committed THEN Append(opened[p], v) ELSE opened[p]
  <2>1. views \in Seq(Views) /\ Append(kept[p], v) \in Seq(Views)
    BY DEF TypeInv
  <2>2. /\ kept' = [kept EXCEPT ![p] = IF c.include THEN Append(@, v) ELSE @]
        /\ opened' = [opened EXCEPT ![p] = IF c.nonce THEN << >> ELSE views]
    BY DEF Return
  <2> QED BY <2>1, <2>2 DEF TypeInv
<1>4. /\ bad' \in [Parties -> BOOLEAN]
      /\ \A q \in Parties : q # p => bad'[q] = bad[q]
      /\ bad[p] => bad'[p]
      /\ c.mode = "accept" => bad'[p] = bad[p]
  <2>1. \E e \in BOOLEAN : bad' = [bad EXCEPT ![p] = @ \/ (c.nonce /\ e)]
    <3> DEFINE committed == c.mode # "accept" /\ ~c.include
               views == IF committed THEN Append(opened[p], v) ELSE opened[p]
               e == \E i \in DOMAIN views : views[i] # Right
    <3>1. bad' = [bad EXCEPT ![p] = @ \/ (c.nonce /\ e)]
      BY DEF Return
    <3> QED BY <3>1
  <2>2. c.nonce \in BOOLEAN /\ (c.mode = "accept" => ~c.nonce)
    BY <1>1, PlanAssumption
  <2> QED BY <2>1, <2>2 DEF TypeInv
<1>5. /\ gone' \in [Parties -> BOOLEAN]
      /\ \A q \in Parties : q # p => gone'[q] = gone[q]
      /\ gone'[p] = (c.mode = "accept" /\ ~yes)
  <2>1. gone' = [gone EXCEPT ![p] = c.mode = "accept" /\ \E q \in Parties : shown[q][n] # TRUE]
    BY DEF Return, Refused
  <2> QED BY <2>1 DEF TypeInv
<1> HIDE DEF yes
<1>6. TypeInv'
  BY <1>1, <1>2, <1>3, <1>4, <1>5 DEF TypeInv
<1>7. OrderInv'
  BY <1>1, <1>2 DEF OrderInv, TypeInv
<1>8. BarrierInv'
  BY <1>1 DEF BarrierInv, TypeInv
<1>9. CheckInv'
  <2> SUFFICES ASSUME NEW r \in Parties, NEW m \in 1..returned'[r], Plan[m].check
               PROVE  m \in checked[r]
    BY <1>1 DEF CheckInv
  <2>1. CASE m \in 1..returned[r]
    BY <2>1 DEF CheckInv
  <2>2. CASE r = p /\ m = n
    BY <2>2, <1>1, <1>2
  <2> QED BY <2>1, <2>2, <1>1, <1>2 DEF TypeInv
<1>10. KnowInv'
  <2> SUFFICES ASSUME NEW r \in Parties, NEW m \in checked[r], NEW q \in Parties
               PROVE  m <= Len(shown[q]) /\ (bad'[r] \/ shown[q][m] = shown[r][m])
    BY <1>1 DEF KnowInv
  <2>1. m <= Len(shown[q]) /\ (bad[r] \/ shown[q][m] = shown[r][m])
    BY DEF KnowInv
  <2> QED BY <2>1, <1>4
<1>11. YesInv'
  BY <1>1 DEF YesInv
<1>12. LaterInv'
  <2> SUFFICES ASSUME NEW r \in Parties, NEW l \in 1..Len(shown[r]),
                      Plan[l].mode = "accept", shown[r][l] = TRUE, bad'[r], NEW q \in Parties
               PROVE  l < Len(shown[q])
    BY <1>1 DEF LaterInv
  <2>1. CASE bad[r]
    BY <2>1 DEF LaterInv
  <2>2. CASE r = p /\ c.mode # "accept"
    BY <2>2, <1>1, <1>2
  <2> QED BY <2>1, <2>2, <1>4 DEF TypeInv
<1>13. PassedInv'
  <2> SUFFICES ASSUME NEW r \in Parties, NEW l \in 1..returned'[r], Plan[l].mode = "accept",
                      ~(gone'[r] /\ returned'[r] = l), NEW q \in Parties
               PROVE  shown[q][l] = TRUE
    BY <1>1 DEF PassedInv
  <2>1. CASE r # p
    BY <2>1, <1>1, <1>5 DEF PassedInv, TypeInv
  <2>2. CASE r = p /\ l = n
    BY <2>2, <1>1, <1>5 DEF TypeInv, yes
  <2>3. CASE r = p /\ l # n
    <3>1. l \in 1..returned[p]
      BY <2>3, <1>1, <1>2 DEF TypeInv
    <3>2. ~gone[p]
      <4>1. returned[p] # Len(shown[p])
        BY <1>1, <1>2, SMTT(60) DEF TypeInv
      <4> QED BY <4>1 DEF GoneInv
    <3> QED BY <2>3, <3>1, <3>2 DEF PassedInv
  <2> QED BY <2>1, <2>2, <2>3
<1>14. GoneInv'
  <2> SUFFICES ASSUME NEW r \in Parties, gone'[r]
               PROVE  /\ returned'[r] = Len(shown[r]) /\ Len(shown[r]) > 0
                      /\ Plan[Len(shown[r])].mode = "accept"
                      /\ \E q \in Parties : shown[q][Len(shown[r])] # TRUE
    BY <1>1 DEF GoneInv
  <2>1. CASE r # p
    <3>1. gone[r] /\ returned'[r] = returned[r]
      BY <2>1, <1>1, <1>5 DEF TypeInv
    <3> QED BY <3>1 DEF GoneInv
  <2>2. CASE r = p
    <3>1. c.mode = "accept" /\ ~yes
      BY <2>2, <1>5
    <3>2. returned'[p] = n /\ n > 0
      BY <1>1, <1>2 DEF TypeInv
    <3> QED BY <2>2, <3>1, <3>2 DEF yes
  <2> QED BY <2>1, <2>2
<1> QED
  BY <1>6, <1>7, <1>8, <1>9, <1>10, <1>11, <1>12, <1>13, <1>14

(* Whatever a party does keeps the invariant.                              *)
LEMMA StepIInv == IInv /\ [Next]_vars => IInv'
<1> SUFFICES ASSUME IInv, [Next]_vars PROVE IInv'
  OBVIOUS
<1>1. CASE UNCHANGED vars
  <2> USE <1>1 DEF vars, Call, IInv
  <2>1. TypeInv' /\ OrderInv' /\ BarrierInv' /\ CheckInv'
    BY DEF TypeInv, OrderInv, BarrierInv, CheckInv
  <2>2. KnowInv' /\ YesInv' /\ LaterInv'
    BY DEF KnowInv, YesInv, LaterInv
  <2>3. PassedInv' /\ GoneInv'
    BY DEF PassedInv, GoneInv
  <2> QED BY <2>1, <2>2, <2>3
<1>2. ASSUME NEW p \in Parties, Step(p) PROVE IInv'
  BY <1>2, ContributeIInv, CheckIInv, ReturnIInv DEF Step
<1> QED BY <1>1, <1>2 DEF Next

(* The invariant holds of every behaviour.                                 *)
THEOREM Invariance == Spec => []IInv
<1>1. Init => IInv
  BY InitIInv
<1>2. IInv /\ [Next]_vars => IInv'
  BY StepIInv
<1> QED BY <1>1, <1>2, PTL DEF Spec

-----------------------------------------------------------------------------
(* Who gave up did so where everybody has to.                              *)
LEMMA FateFollows == IInv => SameFate
<1> SUFFICES ASSUME IInv, NEW p \in Parties, NEW q \in Parties, gone[p],
                    returned[q] >= returned[p]
             PROVE  gone[q] /\ returned[q] = returned[p]
  BY DEF SameFate
<1>1. returned[p] \in 1..returned[q] /\ Plan[returned[p]].mode = "accept"
      /\ \E r \in Parties : shown[r][returned[p]] # TRUE
  <2>1. returned[p] = Len(shown[p]) /\ returned[p] > 0 /\ Plan[Len(shown[p])].mode = "accept"
        /\ \E r \in Parties : shown[r][Len(shown[p])] # TRUE
    BY DEF IInv, GoneInv, Call
  <2>2. returned[p] \in Nat /\ returned[q] \in Nat
    BY DEF IInv, TypeInv
  <2>3. returned[p] \in 1..returned[q]
    BY <2>1, <2>2
  <2> QED BY <2>1, <2>3
<1> QED BY <1>1 DEF IInv, PassedInv

(* A mismatch that one party finds stops all, in the same accept            *)
(* (checkForAccept and checkForDoubleAccept, 1726-1771).                   *)
THEOREM AllStopTogether == Spec => []SameFate
  BY FateFollows, Invariance, PTL

(* Past an accept everybody had said yes, and found all digests equal.     *)
LEMMA AgreementFollows == IInv => Agreement
<1> SUFFICES ASSUME IInv, NEW p \in Parties, NEW n \in 1..returned[p], Plan[n].mode = "accept",
                    ~(gone[p] /\ returned[p] = n),
                    NEW m \in 1..n, Plan[m].check, NEW q \in Parties, NEW r \in Parties
             PROVE  shown[q][m] = shown[r][m]
  BY DEF Agreement
<1>1. shown[q][n] = TRUE /\ n \in 1..Call(q)
  BY SMTT(60) DEF IInv, PassedInv, BarrierInv, TypeInv, Call
<1> QED BY <1>1 DEF IInv, YesInv

(* Past an accept all digests of all checks before it are equal, for any   *)
(* number of parties that see whatever they see (1611-1616).               *)
THEOREM ChecksAgree == Spec => []Agreement
  BY AgreementFollows, Invariance, PTL

(* Who knows of a mismatch now is not at an accept that it said yes in.    *)
LEMMA ClearFollows == IInv => AllClear
<1> SUFFICES ASSUME IInv, NEW p \in Parties, Call(p) > 0, returned[p] = Call(p), ~gone[p],
                    Plan[Call(p)].mode = "accept", NEW q \in Parties, bad[q]
             PROVE  FALSE
  BY DEF AllClear
<1>1. Call(p) \in 1..returned[p] /\ Call(p) \in 1..Call(q)
  BY DEF IInv, BarrierInv, TypeInv, Call
<1>2. shown[q][Call(p)] = TRUE
  BY <1>1 DEF IInv, PassedInv
<1>3. Call(p) < Call(p)
  BY <1>1, <1>2 DEF IInv, LaterInv
<1> QED BY <1>1, <1>3

(* When a party is past an accept, nobody has found a mismatch (1549, 1659). *)
THEOREM NobodyHidesAMismatch == Spec => []AllClear
  BY ClearFollows, Invariance, PTL
=============================================================================
