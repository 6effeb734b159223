------------------------- MODULE Reconstruct_proofs -------------------------
(***************************************************************************)
(* Proofs about Reconstruct, for any number of parties, any plan of calls,  *)
(* any alterations and any build: every message is read as what it was      *)
(* sent as, and the exchanges implement the safety part of CheckedOpening. *)
(***************************************************************************)
EXTENDS Reconstruct, TLAPS

(* In a call a party has up to five messages for another, in this order.   *)
SlotOf(kind) ==
  IF kind = "digest" THEN 1 ELSE IF kind \in {"share", "bit"} THEN 2
  ELSE IF kind = "nonce" THEN 3 ELSE IF kind = "sum" THEN 4 ELSE 5
Slot(r) == SlotOf(r.kind)

(* Which of them p sends to q in call n.                                   *)
Has(p, q, n, s) ==
  \/ s = 1 /\ Plan[n].check
  \/ s = 2 /\ (Plan[n].mode = "pking" => HasValues(Plan[n], q))
  \/ s = 3 /\ Plan[n].nonce /\ (Plan[n].mode = "broadcast" \/ q = 1)
  \/ s = 4 /\ Plan[n].mode = "pking" /\ HasValues(Plan[n], p)
  \/ s = 5 /\ Plan[n].mode = "pking" /\ Plan[n].nonce /\ p = 1

(* The read of q that each is for.                                         *)
ReadAt(p, q, n, s) ==
  IF s = 1 THEN Read(p, "digest", {})
  ELSE IF s = 2 THEN Share(q, Plan[n], p)
  ELSE IF s = 3 THEN Read(p, "nonce", {0})
  ELSE IF s = 4 THEN Read(p, "sum", {p}) ELSE Read(p, "nonceSum", {0})

IsSeq(t) == \E S : t \in Seq(S)

(* R lists the reads of q in call n, of the slots in T: each one once, and  *)
(* those of one peer in the order of the slots.                            *)
ListOK(R, q, n, T) ==
  /\ IsSeq(R)
  /\ \A i \in 1..Len(R) :
       /\ R[i].from \in Parties \ {q} /\ Slot(R[i]) \in T
       /\ R[i] = ReadAt(R[i].from, q, n, Slot(R[i]))
       /\ Slot(R[i]) # 2 /\ Slot(R[i]) # 4 => Has(R[i].from, q, n, Slot(R[i]))
  /\ \A i, j \in 1..Len(R) : i < j /\ R[i].from = R[j].from => Slot(R[i]) < Slot(R[j])
  /\ \A p \in Parties \ {q} : \A s \in T : Has(p, q, n, s) =>
       \E i \in 1..Len(R) : R[i].from = p /\ Slot(R[i]) = s

-----------------------------------------------------------------------------
(* Sequences of whatever elements, one after the other.                    *)
LEMMA Joined ==
  ASSUME NEW a, NEW b, IsSeq(a), IsSeq(b)
  PROVE  /\ IsSeq(a \o b) /\ Len(a) \in Nat /\ Len(b) \in Nat /\ Len(a \o b) = Len(a) + Len(b)
         /\ \A i \in 1..Len(a) : (a \o b)[i] = a[i]
         /\ \A i \in 1..Len(b) : (a \o b)[Len(a) + i] = b[i]
         /\ \A i \in 1..Len(a \o b) : i <= Len(a) \/ i - Len(a) \in 1..Len(b)
<1>1. PICK S, T : a \in Seq(S) /\ b \in Seq(T)
  BY DEF IsSeq
<1>2. a \in Seq(S \cup T) /\ b \in Seq(S \cup T)
  BY <1>1
<1>3. a \o b \in Seq(S \cup T)
  BY <1>2
<1>4. Len(a) \in Nat /\ Len(b) \in Nat /\ Len(a \o b) = Len(a) + Len(b)
  BY <1>2
<1>5. \A i \in 1..Len(a) : (a \o b)[i] = a[i]
  BY <1>2
<1>6. \A i \in 1..Len(b) : (a \o b)[Len(a) + i] = b[i]
  BY <1>2, <1>4
<1>7. \A i \in 1..Len(a \o b) : i <= Len(a) \/ i - Len(a) \in 1..Len(b)
  BY <1>4
<1> QED
  BY <1>3, <1>4, <1>5, <1>6, <1>7 DEF IsSeq

(* Functions on an interval from 1 are sequences.                          *)
LEMMA Listed ==
  ASSUME NEW m \in Nat, NEW f, f = [i \in 1..m |-> f[i]]
  PROVE  IsSeq(f) /\ Len(f) = m
<1>1. f \in Seq({f[i] : i \in 1..m})
  OBVIOUS
<1>2. IsSeq(f)
  BY <1>1 DEF IsSeq
<1>3. DOMAIN f = 1..m
  OBVIOUS
<1>4. Len(f) = m
  BY <1>1, <1>3
<1> QED
  BY <1>2, <1>4

(* A sequence of one element, and of none.                                 *)
LEMMA Short ==
  /\ IsSeq(<< >>) /\ Len(<< >>) = 0
  /\ \A e : IsSeq(<<e>>) /\ Len(<<e>>) = 1 /\ <<e>>[1] = e
<1>1. << >> \in Seq({}) /\ Len(<< >>) = 0
  OBVIOUS
<1>2. ASSUME NEW e PROVE IsSeq(<<e>>) /\ Len(<<e>>) = 1 /\ <<e>>[1] = e
  <2>1. <<e>> \in Seq({e})
    OBVIOUS
  <2> QED
    BY <2>1 DEF IsSeq
<1> QED
  BY <1>1, <1>2 DEF IsSeq

(* The loops over the others meet each of them once, in order.             *)
LEMMA PeerFacts ==
  ASSUME NEW q \in Parties
  PROVE  /\ NumPeers \in Nat /\ NumPeers >= 1 /\ nP \in Nat /\ nP \in Parties /\ 1 \in Parties
         /\ \A i \in 1..NumPeers : PeerAt(q, i) \in Parties \ {q}
         /\ \A i, j \in 1..NumPeers : PeerAt(q, i) = PeerAt(q, j) => i = j
         /\ \A p \in Parties \ {q} : \E i \in 1..NumPeers : PeerAt(q, i) = p
<1>1. nP \in Nat /\ nP >= 2 /\ q \in 1..nP
  BY ReconstructAssumption DEF Parties
<1>2. ASSUME NEW p \in Parties \ {q} PROVE \E i \in 1..NumPeers : PeerAt(q, i) = p
  <2>1. CASE p < q
    BY <1>1, <2>1 DEF Parties, NumPeers, PeerAt
  <2>2. CASE p > q
    <3>1. p - 1 \in 1..NumPeers /\ PeerAt(q, p - 1) = p
      BY <1>1, <2>2 DEF Parties, NumPeers, PeerAt
    <3> QED
      BY <3>1
  <2> QED
    BY <1>1, <2>1, <2>2 DEF Parties
<1>3. \A i, j \in 1..NumPeers : PeerAt(q, i) = PeerAt(q, j) => i = j
  BY <1>1 DEF NumPeers, PeerAt
<1>4. \A i \in 1..NumPeers : PeerAt(q, i) \in Parties \ {q}
  BY <1>1 DEF Parties, NumPeers, PeerAt
<1> QED
  BY <1>1, <1>2, <1>3, <1>4 DEF Parties, NumPeers

(* The calls of the plan.                                                  *)
LEMMA PlanFacts ==
  ASSUME NEW n \in DOMAIN Plan
  PROVE  /\ Plan[n].mode \in {"pking", "broadcast", "accept"} /\ n \in Nat /\ n # 0 /\ n <= Len(Plan)
         /\ {Plan[n].include, Plan[n].check, Plan[n].nonce} \subseteq BOOLEAN
         /\ Plan[n].mode = "accept" => ~Plan[n].include /\ ~Plan[n].check /\ ~Plan[n].nonce
         /\ Plan[n].include => ~Plan[n].check /\ ~Plan[n].nonce
  BY ReconstructAssumption

(* The slots of the reads, and what the reads are.                         *)
LEMMA SlotFacts ==
  ASSUME NEW p, NEW q, NEW n \in DOMAIN Plan, NEW s \in 1..5
  PROVE  /\ ReadAt(p, q, n, s).from = p /\ Slot(ReadAt(p, q, n, s)) = s
         /\ s = 1 => ReadAt(p, q, n, s).kind = "digest"
         /\ s = 2 => ReadAt(p, q, n, s).kind =
                       IF Plan[n].mode = "accept" THEN "bit" ELSE "share"
         /\ s = 3 => ReadAt(p, q, n, s).kind = "nonce"
         /\ s = 4 => ReadAt(p, q, n, s).kind = "sum"
         /\ s = 5 => ReadAt(p, q, n, s).kind = "nonceSum"
<1>1. CASE s = 2
  <2>1. Plan[n].mode \in {"pking", "broadcast", "accept"}
    BY PlanFacts
  <2>2. CASE Plan[n].mode = "pking"
    BY <1>1, <2>2 DEF ReadAt, Share, Read, Slot, SlotOf
  <2>3. CASE Plan[n].mode = "broadcast"
    BY <1>1, <2>3 DEF ReadAt, Share, Read, Slot, SlotOf
  <2>4. CASE Plan[n].mode = "accept"
    BY <1>1, <2>4 DEF ReadAt, Share, Read, Slot, SlotOf
  <2> QED
    BY <2>1, <2>2, <2>3, <2>4
<1>2. CASE s # 2
  BY <1>2 DEF ReadAt, Read, Slot, SlotOf
<1> QED
  BY <1>1, <1>2

(* Two lists of reads, the slots of one before those of the other.         *)
LEMMA ListsJoin ==
  ASSUME NEW A, NEW B, NEW q, NEW n, NEW S \in SUBSET (1..5), NEW T \in SUBSET (1..5),
         ListOK(A, q, n, S), ListOK(B, q, n, T), \A s \in S : \A t \in T : s < t
  PROVE  ListOK(A \o B, q, n, S \cup T)
<1> DEFINE R == A \o B
<1>1. /\ IsSeq(A) /\ IsSeq(B) /\ IsSeq(R) /\ Len(A) \in Nat /\ Len(B) \in Nat /\ Len(R) = Len(A) + Len(B)
      /\ \A i \in 1..Len(A) : R[i] = A[i]
      /\ \A i \in 1..Len(B) : R[Len(A) + i] = B[i]
  BY Joined DEF ListOK
<1> HIDE DEF R
<1>2. \A i \in 1..Len(R) : \/ i \in 1..Len(A) /\ R[i] = A[i]
                           \/ i - Len(A) \in 1..Len(B) /\ R[i] = B[i - Len(A)]
  <2>1. TAKE i \in 1..Len(R)
  <2>2. CASE i <= Len(A)
    BY <1>1, <2>2
  <2>3. CASE i > Len(A)
    <3>1. i - Len(A) \in 1..Len(B) /\ Len(A) + (i - Len(A)) = i
      BY <1>1, <2>3
    <3> QED
      BY <1>1, <3>1
  <2> QED
    BY <1>1, <2>2, <2>3
<1>3. \A i \in 1..Len(R) :
        /\ R[i].from \in Parties \ {q} /\ Slot(R[i]) \in S \cup T
        /\ R[i] = ReadAt(R[i].from, q, n, Slot(R[i]))
        /\ Slot(R[i]) # 2 /\ Slot(R[i]) # 4 => Has(R[i].from, q, n, Slot(R[i]))
  BY <1>2, SMTT(30) DEF ListOK
<1>4. ASSUME NEW i \in 1..Len(R), NEW j \in 1..Len(R), i < j, R[i].from = R[j].from
      PROVE  Slot(R[i]) < Slot(R[j])
  <2>1. CASE i \in 1..Len(A) /\ R[i] = A[i]
    <3>1. CASE j \in 1..Len(A) /\ R[j] = A[j]
      BY <1>4, <2>1, <3>1 DEF ListOK
    <3>2. CASE j - Len(A) \in 1..Len(B) /\ R[j] = B[j - Len(A)]
      BY <2>1, <3>2 DEF ListOK
    <3> QED
      BY <1>2, <3>1, <3>2
  <2>2. CASE i - Len(A) \in 1..Len(B) /\ R[i] = B[i - Len(A)]
    <3>1. j - Len(A) \in 1..Len(B) /\ R[j] = B[j - Len(A)] /\ i - Len(A) < j - Len(A)
      BY <1>1, <1>2, <1>4, <2>2
    <3> QED
      BY <1>4, <2>2, <3>1, SMTT(30) DEF ListOK
  <2> QED
    BY <1>2, <2>1, <2>2
<1>5. ASSUME NEW p \in Parties \ {q}, NEW s \in S \cup T, Has(p, q, n, s)
      PROVE  \E i \in 1..Len(R) : R[i].from = p /\ Slot(R[i]) = s
  <2>1. CASE s \in S
    <3>1. PICK i \in 1..Len(A) : A[i].from = p /\ Slot(A[i]) = s
      BY <1>5, <2>1 DEF ListOK
    <3> QED
      BY <1>1, <3>1
  <2>2. CASE s \in T
    <3>1. PICK i \in 1..Len(B) : B[i].from = p /\ Slot(B[i]) = s
      BY <1>5, <2>2 DEF ListOK
    <3>2. Len(A) + i \in 1..Len(R) /\ R[Len(A) + i] = B[i]
      BY <1>1
    <3> QED
      BY <3>1, <3>2
  <2> QED
    BY <2>1, <2>2
<1> QED
  BY <1>1, <1>3, <1>4, <1>5 DEF ListOK, R

(* A loop that reads one message of slot s from each of the others.        *)
LEMMA OneEach ==
  ASSUME NEW q \in Parties, NEW n \in DOMAIN Plan, NEW s \in 1..5, NEW R,
         R = [i \in 1..NumPeers |-> ReadAt(PeerAt(q, i), q, n, s)],
         s = 2 \/ s = 4 \/ \A p \in Parties \ {q} : Has(p, q, n, s)
  PROVE  ListOK(R, q, n, {s}) /\ Len(R) = NumPeers
<1>0. /\ NumPeers \in Nat /\ NumPeers >= 1
      /\ \A i \in 1..NumPeers : PeerAt(q, i) \in Parties \ {q}
      /\ \A i, j \in 1..NumPeers : PeerAt(q, i) = PeerAt(q, j) => i = j
      /\ \A p \in Parties \ {q} : \E i \in 1..NumPeers : PeerAt(q, i) = p
  BY PeerFacts, Zenon
<1>1. R = [i \in 1..NumPeers |-> R[i]] /\ \A i \in 1..NumPeers : R[i] = ReadAt(PeerAt(q, i), q, n, s)
  OBVIOUS
<1>2. IsSeq(R) /\ Len(R) = NumPeers /\ NumPeers \in Nat
  BY <1>0, <1>1, Listed
<1>3. \A i \in 1..Len(R) : R[i].from = PeerAt(q, i) /\ Slot(R[i]) = s /\ PeerAt(q, i) \in Parties \ {q}
  <2>1. ASSUME NEW p PROVE ReadAt(p, q, n, s).from = p /\ Slot(ReadAt(p, q, n, s)) = s
    BY SlotFacts
  <2> QED
    BY <1>0, <1>1, <1>2, <2>1
<1>4. \A i, j \in 1..Len(R) : i < j => R[i].from # R[j].from
  BY <1>0, <1>2, <1>3
<1>5. \A p \in Parties \ {q} : \E i \in 1..Len(R) : R[i].from = p
  BY <1>0, <1>2, <1>3
<1> QED
  BY <1>1, <1>2, <1>3, <1>4, <1>5, SMTT(30) DEF ListOK

(* A loop that reads a nonce after each share.                             *)
LEMMA TwoEach ==
  ASSUME NEW q \in Parties, NEW n \in DOMAIN Plan, NEW R, NEW m \in Nat, m = 2 * NumPeers,
         R = [i \in 1..m |-> R[i]],
         \A i \in 1..NumPeers : /\ R[2 * i - 1] = ReadAt(PeerAt(q, i), q, n, 2)
                               /\ R[2 * i] = ReadAt(PeerAt(q, i), q, n, 3),
         \A p \in Parties \ {q} : Has(p, q, n, 3)
  PROVE  ListOK(R, q, n, {2, 3})
<1>1. /\ NumPeers \in Nat /\ NumPeers >= 1
      /\ \A i \in 1..NumPeers : PeerAt(q, i) \in Parties \ {q}
      /\ \A i, j \in 1..NumPeers : PeerAt(q, i) = PeerAt(q, j) => i = j
      /\ \A p \in Parties \ {q} : \E i \in 1..NumPeers : PeerAt(q, i) = p
  BY PeerFacts
<1>2. IsSeq(R) /\ Len(R) = m
  BY Listed
<1>3. ASSUME NEW i \in 1..m
      PROVE  \E j \in 1..NumPeers : i = 2 * j - 1 \/ i = 2 * j
  <2>1. (i + 1) \div 2 \in 1..NumPeers
        /\ (i = 2 * ((i + 1) \div 2) - 1 \/ i = 2 * ((i + 1) \div 2))
    BY <1>1, SMTT(30)
  <2> QED
    BY <2>1
<1>4. ASSUME NEW i \in 1..NumPeers
      PROVE  /\ 2 * i - 1 \in 1..m /\ R[2 * i - 1].from = PeerAt(q, i) /\ Slot(R[2 * i - 1]) = 2
             /\ R[2 * i - 1] = ReadAt(PeerAt(q, i), q, n, 2)
             /\ 2 * i \in 1..m /\ R[2 * i].from = PeerAt(q, i) /\ Slot(R[2 * i]) = 3
             /\ R[2 * i] = ReadAt(PeerAt(q, i), q, n, 3)
  <2>1. 2 * i - 1 \in 1..m /\ 2 * i \in 1..m
    BY <1>1
  <2> DEFINE A == ReadAt(PeerAt(q, i), q, n, 2)
             B == ReadAt(PeerAt(q, i), q, n, 3)
  <2>2. A.from = PeerAt(q, i) /\ Slot(A) = 2 /\ B.from = PeerAt(q, i) /\ Slot(B) = 3
    BY SlotFacts
  <2>3. R[2 * i - 1] = A /\ R[2 * i] = B
    OBVIOUS
  <2> QED
    BY <2>1, <2>2, <2>3
<1>5. ASSUME NEW i \in 1..m
      PROVE  /\ R[i].from \in Parties \ {q} /\ Slot(R[i]) \in {2, 3}
             /\ R[i] = ReadAt(R[i].from, q, n, Slot(R[i]))
  <2>1. PICK j \in 1..NumPeers : i = 2 * j - 1 \/ i = 2 * j
    BY <1>3
  <2>2. PeerAt(q, j) \in Parties \ {q}
    BY <1>1
  <2>3. CASE i = 2 * j - 1
    BY <1>4, <2>2, <2>3
  <2>4. CASE i = 2 * j
    BY <1>4, <2>2, <2>4
  <2> QED
    BY <2>1, <2>3, <2>4
<1>6. ASSUME NEW i \in 1..m, NEW j \in 1..m, i < j, R[i].from = R[j].from
      PROVE  Slot(R[i]) < Slot(R[j])
  <2>1. PICK a \in 1..NumPeers : i = 2 * a - 1 \/ i = 2 * a
    BY <1>3
  <2>2. PICK b \in 1..NumPeers : j = 2 * b - 1 \/ j = 2 * b
    BY <1>3
  <2>3. R[i].from = PeerAt(q, a) /\ R[j].from = PeerAt(q, b)
    BY <1>4, <2>1, <2>2
  <2>4. a = b
    BY <1>1, <1>6, <2>3
  <2>5. i = 2 * a - 1 /\ j = 2 * a
    BY <1>6, <2>1, <2>2, <2>4
  <2>6. Slot(R[i]) = 2 /\ Slot(R[j]) = 3
    BY <1>4, <2>5
  <2> QED
    BY <2>6
<1>7. ASSUME NEW p \in Parties \ {q}, NEW s \in {2, 3}
      PROVE  \E i \in 1..m : R[i].from = p /\ Slot(R[i]) = s
  <2>1. PICK a \in 1..NumPeers : PeerAt(q, a) = p
    BY <1>1
  <2> QED
    BY <1>4, <2>1
<1> QED
  BY <1>2, <1>5, <1>6, <1>7 DEF ListOK

(* Nothing is read of slots that there are none of.                        *)
LEMMA NoneEach ==
  ASSUME NEW q, NEW n, NEW T, \A p \in Parties \ {q} : \A s \in T : ~Has(p, q, n, s)
  PROVE  ListOK(<< >>, q, n, T)
  BY Short DEF ListOK

(* The digests of a call, and where they end.                              *)
LEMMA DigestsOK ==
  ASSUME NEW q \in Parties, NEW n \in DOMAIN Plan
  PROVE  /\ ListOK(Digests(q, Plan[n]), q, n, {1})
         /\ Len(Digests(q, Plan[n])) = IF Plan[n].check THEN NumPeers ELSE 0
<1>1. CASE Plan[n].check
  <2>1. Digests(q, Plan[n]) = [i \in 1..NumPeers |-> ReadAt(PeerAt(q, i), q, n, 1)]
    BY <1>1 DEF Digests, Only, ReadAt
  <2>2. \A p \in Parties \ {q} : Has(p, q, n, 1)
    BY <1>1 DEF Has
  <2> QED
    BY <1>1, <2>1, <2>2, OneEach
<1>2. CASE ~Plan[n].check
  <2>1. Digests(q, Plan[n]) = << >>
    BY <1>2 DEF Digests, Only
  <2>2. \A p \in Parties \ {q} : \A s \in {1} : ~Has(p, q, n, s)
    BY <1>2 DEF Has
  <2> QED
    BY <1>2, <2>1, <2>2, NoneEach, Short
<1> QED
  BY <1>1, <1>2

(* The shares of a call.                                                   *)
LEMMA SharesOK ==
  ASSUME NEW q \in Parties, NEW n \in DOMAIN Plan
  PROVE  ListOK(Shares(q, Plan[n]), q, n, {2, 3})
<1>1. CASE Plan[n].nonce /\ (Plan[n].mode = "broadcast" \/ q = 1)
  <2> DEFINE R == Shares(q, Plan[n])
             m == 2 * NumPeers
  <2>1. R = [i \in 1..m |-> LET p == PeerAt(q, (i + 1) \div 2)
                            IN  IF i % 2 = 1 THEN Share(q, Plan[n], p) ELSE Read(p, "nonce", {0})]
    BY <1>1 DEF Shares
  <2> HIDE DEF R
  <2>2. NumPeers \in Nat
    BY PeerFacts
  <2>8. m \in Nat
    BY <2>2
  <2>3. ASSUME NEW i \in 1..NumPeers
        PROVE  R[2 * i - 1] = Share(q, Plan[n], PeerAt(q, i)) /\ R[2 * i] = Read(PeerAt(q, i), "nonce", {0})
    <3>1. /\ 2 * i - 1 \in 1..m /\ ((2 * i - 1) + 1) \div 2 = i /\ (2 * i - 1) % 2 = 1
          /\ 2 * i \in 1..m /\ (2 * i + 1) \div 2 = i /\ (2 * i) % 2 # 1
      BY <2>2
    <3> QED
      BY <2>1, <3>1
  <2>4. \A i \in 1..NumPeers : /\ R[2 * i - 1] = ReadAt(PeerAt(q, i), q, n, 2)
                              /\ R[2 * i] = ReadAt(PeerAt(q, i), q, n, 3)
    BY <2>3 DEF ReadAt
  <2>5. R = [i \in 1..m |-> R[i]]
    BY <2>1
  <2>6. \A p \in Parties \ {q} : Has(p, q, n, 3)
    BY <1>1 DEF Has
  <2> HIDE DEF m
  <2>7. m = 2 * NumPeers
    BY DEF m
  <2>9. ListOK(R, q, n, {2, 3})
    BY <2>4, <2>5, <2>6, <2>7, <2>8, TwoEach
  <2> QED
    BY <2>9 DEF R
<1>2. CASE ~(Plan[n].nonce /\ (Plan[n].mode = "broadcast" \/ q = 1))
  <2>1. Shares(q, Plan[n]) = [i \in 1..NumPeers |-> ReadAt(PeerAt(q, i), q, n, 2)]
    BY <1>2 DEF Shares, ReadAt
  <2>2. ListOK(Shares(q, Plan[n]), q, n, {2})
    BY <2>1, OneEach
  <2>3. \A p \in Parties \ {q} : \A s \in {3} : ~Has(p, q, n, s)
    BY <1>2 DEF Has
  <2>4. ListOK(<< >>, q, n, {3})
    BY <2>3, NoneEach
  <2>5. ListOK(Shares(q, Plan[n]), q, n, {2, 3})
    BY <2>2, <2>3 DEF ListOK
  <2> QED
    BY <2>5
<1> QED
  BY <1>1, <1>2

(* The reads of the first stage.                                           *)
LEMMA FirstOK ==
  ASSUME NEW q \in Parties, NEW n \in DOMAIN Plan
  PROVE  /\ ListOK(FirstReads[q][n], q, n, 1..3)
         /\ \A i \in 1..Len(FirstReads[q][n]) :
              Slot(FirstReads[q][n][i]) = 1 <=> i <= Len(Digests(q, Plan[n]))
<1> DEFINE D == Digests(q, Plan[n])
           B == Shares(q, Plan[n])
<1>1. FirstReads[q][n] = D \o B
  BY DEF FirstReads
<1>2. ListOK(D, q, n, {1}) /\ ListOK(B, q, n, {2, 3})
  BY DigestsOK, SharesOK
<1> HIDE DEF D, B
<1>3. {1} \in SUBSET (1..5) /\ {2, 3} \in SUBSET (1..5) /\ \A s \in {1} : \A t \in {2, 3} : s < t
  OBVIOUS
<1>4. {1} \cup {2, 3} = 1..3
  OBVIOUS
<1>5. ListOK(D \o B, q, n, 1..3)
  BY <1>2, <1>3, <1>4, ListsJoin
<1>6. /\ Len(D) \in Nat /\ Len(B) \in Nat /\ Len(D \o B) = Len(D) + Len(B)
      /\ \A i \in 1..Len(D) : (D \o B)[i] = D[i]
      /\ \A i \in 1..Len(B) : (D \o B)[Len(D) + i] = B[i]
  BY <1>2, Joined DEF ListOK
<1>7. ASSUME NEW i \in 1..Len(D \o B) PROVE Slot((D \o B)[i]) = 1 <=> i <= Len(D)
  <2>1. CASE i <= Len(D)
    BY <1>2, <1>6, <2>1 DEF ListOK
  <2>2. CASE i > Len(D)
    <3>1. i - Len(D) \in 1..Len(B) /\ Len(D) + (i - Len(D)) = i
      BY <1>6, <2>2
    <3>2. Slot((D \o B)[i]) \in {2, 3}
      BY <1>2, <1>6, <3>1 DEF ListOK
    <3> QED
      BY <2>2, <3>2, <1>6
  <2> QED
    BY <1>6, <2>1, <2>2
<1> QED
  BY <1>1, <1>5, <1>7 DEF D

(* The reads of the second stage.                                          *)
LEMMA SumOK ==
  ASSUME NEW q \in Parties, NEW n \in DOMAIN Plan, Plan[n].mode = "pking"
  PROVE  ListOK(SumReads[q][n], q, n, {4, 5})
<1> DEFINE A == [i \in 1..NumPeers |-> ReadAt(PeerAt(q, i), q, n, 4)]
           B == Only(Plan[n].nonce /\ q > 1, <<Read(1, "nonceSum", {0})>>)
<1>1. SumReads[q][n] = A \o B
  <2>1. A = [i \in 1..NumPeers |-> LET p == PeerAt(q, i) IN Read(p, "sum", {p})]
    BY DEF ReadAt
  <2> HIDE DEF A
  <2> QED
    BY <2>1 DEF SumReads
<1>2. ListOK(A, q, n, {4})
  BY OneEach
<1>3. ListOK(B, q, n, {5})
  <2>1. CASE Plan[n].nonce /\ q > 1
    <3>1. B = <<ReadAt(1, q, n, 5)>>
      BY <2>1 DEF Only, ReadAt
    <3>2. IsSeq(B) /\ Len(B) = 1 /\ B[1] = ReadAt(1, q, n, 5)
      BY <3>1, Short
    <3> HIDE DEF B
    <3>3. 1 \in Parties \ {q} /\ q \in 1..nP /\ Has(1, q, n, 5)
      BY <2>1, PeerFacts DEF Has, Parties
    <3>4. B[1].from = 1 /\ Slot(B[1]) = 5
      BY <3>2, SlotFacts
    <3>5. \A p : Has(p, q, n, 5) => p = 1
      BY DEF Has
    <3> QED
      BY <3>2, <3>3, <3>4, <3>5 DEF ListOK
  <2>2. CASE ~(Plan[n].nonce /\ q > 1)
    <3>1. B = << >>
      BY <2>2 DEF Only
    <3>2. \A p \in Parties \ {q} : \A s \in {5} : ~Has(p, q, n, s)
      BY <2>2, PeerFacts DEF Has, Parties
    <3> QED
      BY <3>1, <3>2, NoneEach
  <2> QED
    BY <2>1, <2>2
<1> HIDE DEF A, B
<1>4. {4} \in SUBSET (1..5) /\ {5} \in SUBSET (1..5) /\ \A s \in {4} : \A t \in {5} : s < t
  OBVIOUS
<1>5. {4} \cup {5} = {4, 5}
  OBVIOUS
<1>6. ListOK(A \o B, q, n, {4} \cup {5})
  BY <1>2, <1>3, <1>4, ListsJoin
<1> QED
  BY <1>1, <1>5, <1>6

-----------------------------------------------------------------------------
(* How many messages p has for q before slot s in call n.                  *)
Bit(p, q, n, s) == IF n # 0 /\ Has(p, q, n, s) THEN 1 ELSE 0
Before(p, q, n, s) ==
    (IF 1 < s THEN Bit(p, q, n, 1) ELSE 0) + (IF 2 < s THEN Bit(p, q, n, 2) ELSE 0)
  + (IF 3 < s THEN Bit(p, q, n, 3) ELSE 0) + (IF 4 < s THEN Bit(p, q, n, 4) ELSE 0)
  + (IF 5 < s THEN Bit(p, q, n, 5) ELSE 0)

(* What q has read from p in call n, at read m of a stage.                 *)
Among(R, m, p, s) == \E i \in 1..Len(R) : i < m /\ R[i].from = p /\ Slot(R[i]) = s
ReadOf(stage, m, q, p, n, s) ==
  IF s \in 1..3 THEN stage # "shares" \/ Among(FirstReads[q][n], m, p, s)
  ELSE stage \notin {"shares", "sums"} \/ (stage = "sums" /\ Among(SumReads[q][n], m, p, s))
GotBit(stage, m, q, p, n, s) == IF ReadOf(stage, m, q, p, n, s) THEN Bit(p, q, n, s) ELSE 0
GotOf(stage, m, q, p, n) ==
  GotBit(stage, m, q, p, n, 1) + GotBit(stage, m, q, p, n, 2) + GotBit(stage, m, q, p, n, 3)
    + GotBit(stage, m, q, p, n, 4) + GotBit(stage, m, q, p, n, 5)

ListOf(stage, q, n) == IF stage = "sums" THEN SumReads[q][n] ELSE FirstReads[q][n]

(* Counting messages.                                                      *)
LEMMA BeforeFacts ==
  ASSUME NEW p, NEW q, NEW n
  PROVE  /\ \A s : Before(p, q, n, s) \in Nat /\ Bit(p, q, n, s) \in {0, 1}
         /\ \A s \in 1..5 : Before(p, q, n, s + 1) = Before(p, q, n, s) + Bit(p, q, n, s)
         /\ \A s, t \in 1..6 : s <= t => Before(p, q, n, s) <= Before(p, q, n, t)
         /\ Before(p, q, n, 1) = 0 /\ Before(p, q, 0, 6) = 0
         /\ Before(p, q, n, 4) = Bit(p, q, n, 1) + Bit(p, q, n, 2) + Bit(p, q, n, 3)
         /\ Before(p, q, n, 6) = Before(p, q, n, 4) + Bit(p, q, n, 4) + Bit(p, q, n, 5)
<1>1. \A s : Bit(p, q, n, s) \in {0, 1}
  BY DEF Bit
<1>2. Before(p, q, 0, 6) = 0
  BY DEF Before, Bit
<1>3. \A s \in 1..5 : Before(p, q, n, s + 1) = Before(p, q, n, s) + Bit(p, q, n, s)
  <2>1. TAKE s \in 1..5
  <2>2. s = 1 \/ s = 2 \/ s = 3 \/ s = 4 \/ s = 5
    OBVIOUS
  <2> QED
    BY <1>1, <2>2 DEF Before
<1>4. \A s, t \in 1..6 : s <= t => Before(p, q, n, s) <= Before(p, q, n, t)
  BY <1>1 DEF Before
<1>5. \A s : Before(p, q, n, s) \in Nat
  BY <1>1 DEF Before
<1>6. /\ Before(p, q, n, 1) = 0
      /\ Before(p, q, n, 4) = Bit(p, q, n, 1) + Bit(p, q, n, 2) + Bit(p, q, n, 3)
      /\ Before(p, q, n, 6) = Before(p, q, n, 4) + Bit(p, q, n, 4) + Bit(p, q, n, 5)
  BY <1>1 DEF Before
<1> QED
  BY <1>1, <1>2, <1>3, <1>4, <1>5, <1>6

(* The reads of a list that come before one of its places.                 *)
LEMMA AmongFacts ==
  ASSUME NEW R, NEW q, NEW n, NEW T \in SUBSET (1..5), ListOK(R, q, n, T), NEW m \in Nat
  PROVE  /\ \A p, s : ~Among(R, 1, p, s)
         /\ m > Len(R) => \A p \in Parties \ {q} : \A s \in T : Has(p, q, n, s) => Among(R, m, p, s)
         /\ m \in 1..Len(R) =>
              /\ \A t : t >= Slot(R[m]) => ~Among(R, m, R[m].from, t)
              /\ \A t \in T : t < Slot(R[m]) /\ Has(R[m].from, q, n, t) => Among(R, m, R[m].from, t)
              /\ \A p, t : Among(R, m + 1, p, t) <=>
                             Among(R, m, p, t) \/ (p = R[m].from /\ t = Slot(R[m]))
<1>1. Len(R) \in Nat
  BY DEF ListOK, IsSeq
<1>2. \A p, s : ~Among(R, 1, p, s)
  BY <1>1 DEF Among
<1>3. ASSUME m > Len(R), NEW p \in Parties \ {q}, NEW s \in T, Has(p, q, n, s)
      PROVE  Among(R, m, p, s)
  BY <1>1, <1>3 DEF Among, ListOK
<1>4. ASSUME m \in 1..Len(R), NEW t, t >= Slot(R[m]) PROVE ~Among(R, m, R[m].from, t)
  <2>1. SUFFICES ASSUME NEW i \in 1..Len(R), i < m, R[i].from = R[m].from, Slot(R[i]) = t PROVE FALSE
    BY DEF Among
  <2>2. Slot(R[i]) < Slot(R[m]) /\ Slot(R[i]) \in 1..5 /\ Slot(R[m]) \in 1..5
    BY <1>4, <2>1 DEF ListOK
  <2> QED
    BY <1>4, <2>1, <2>2
<1>5. ASSUME m \in 1..Len(R), NEW t \in T, t < Slot(R[m]), Has(R[m].from, q, n, t)
      PROVE  Among(R, m, R[m].from, t)
  <2>1. R[m].from \in Parties \ {q} /\ Slot(R[m]) \in 1..5 /\ t \in 1..5
    BY <1>5 DEF ListOK
  <2>2. PICK i \in 1..Len(R) : R[i].from = R[m].from /\ Slot(R[i]) = t
    BY <1>5, <2>1 DEF ListOK
  <2>3. i # m /\ ~(m < i)
    BY <1>5, <2>1, <2>2 DEF ListOK
  <2> QED
    BY <1>1, <1>5, <2>2, <2>3 DEF Among
<1>6. ASSUME m \in 1..Len(R), NEW p, NEW t
      PROVE  Among(R, m + 1, p, t) <=> Among(R, m, p, t) \/ (p = R[m].from /\ t = Slot(R[m]))
  BY <1>1, <1>6 DEF Among
<1> QED
  BY <1>2, <1>3, <1>4, <1>5, <1>6

(* How much has been read at the ends of the stages.                       *)
LEMMA GotFacts ==
  ASSUME NEW q \in Parties, NEW p \in Parties \ {q}, NEW n \in DOMAIN Plan, NEW m \in Nat
  PROVE  /\ GotOf("shares", 1, q, p, n) = 0
         /\ m > Len(FirstReads[q][n]) => GotOf("shares", m, q, p, n) = Before(p, q, n, 4)
         /\ GotOf("sums", 1, q, p, n) = Before(p, q, n, 4)
         /\ Plan[n].mode = "pking" /\ m > Len(SumReads[q][n]) =>
              GotOf("sums", m, q, p, n) = Before(p, q, n, 6)
         /\ \A st : st \notin {"shares", "sums"} => GotOf(st, m, q, p, n) = Before(p, q, n, 6)
         /\ Plan[n].mode # "pking" => Before(p, q, n, 4) = Before(p, q, n, 6)
<1> DEFINE F == FirstReads[q][n]
           S == SumReads[q][n]
<1>1. ListOK(F, q, n, 1..3) /\ 1..3 \in SUBSET (1..5) /\ {4, 5} \in SUBSET (1..5)
  BY FirstOK
<1>2. Plan[n].mode = "pking" => ListOK(S, q, n, {4, 5})
  BY SumOK
<1> HIDE DEF F, S
<1>3. \A s : Bit(p, q, n, s) \in {0, 1} /\ (~Has(p, q, n, s) => Bit(p, q, n, s) = 0)
  BY DEF Bit
<1>4. \A x, s : ~Among(F, 1, x, s)
  BY <1>1, AmongFacts
<1>5. GotOf("shares", 1, q, p, n) = 0
  BY <1>3, <1>4 DEF GotOf, GotBit, ReadOf, F
<1>6. ASSUME m > Len(F) PROVE GotOf("shares", m, q, p, n) = Before(p, q, n, 4)
  <2>1. \A s \in 1..3 : Has(p, q, n, s) => Among(F, m, p, s)
    BY <1>1, <1>6, AmongFacts
  <2>2. \A s \in 1..3 : GotBit("shares", m, q, p, n, s) = Bit(p, q, n, s)
    BY <1>3, <2>1 DEF GotBit, ReadOf, F
  <2>3. GotBit("shares", m, q, p, n, 4) = 0 /\ GotBit("shares", m, q, p, n, 5) = 0
    BY DEF GotBit, ReadOf
  <2> QED
    BY <1>3, <2>2, <2>3, BeforeFacts DEF GotOf
<1>7. \A x, s : Plan[n].mode = "pking" => ~Among(S, 1, x, s)
  BY <1>1, <1>2, AmongFacts
<1>8. \A s \in {4, 5} : Plan[n].mode # "pking" => Bit(p, q, n, s) = 0
  BY <1>3 DEF Has
<1>9. GotOf("sums", 1, q, p, n) = Before(p, q, n, 4)
  <2>1. \A s \in 1..3 : GotBit("sums", 1, q, p, n, s) = Bit(p, q, n, s)
    BY DEF GotBit, ReadOf
  <2>2. \A s \in {4, 5} : GotBit("sums", 1, q, p, n, s) = 0
    BY <1>7, <1>8 DEF GotBit, ReadOf, S
  <2> QED
    BY <1>3, <2>1, <2>2, BeforeFacts DEF GotOf
<1>10. ASSUME Plan[n].mode = "pking", m > Len(S) PROVE GotOf("sums", m, q, p, n) = Before(p, q, n, 6)
  <2>1. \A s \in {4, 5} : Has(p, q, n, s) => Among(S, m, p, s)
    BY <1>1, <1>2, <1>10, AmongFacts
  <2>2. \A s \in {4, 5} : GotBit("sums", m, q, p, n, s) = Bit(p, q, n, s)
    BY <1>3, <2>1 DEF GotBit, ReadOf, S
  <2>3. \A s \in 1..3 : GotBit("sums", m, q, p, n, s) = Bit(p, q, n, s)
    BY DEF GotBit, ReadOf
  <2> QED
    BY <1>3, <2>2, <2>3, BeforeFacts DEF GotOf
<1>11. ASSUME NEW st, st \notin {"shares", "sums"} PROVE GotOf(st, m, q, p, n) = Before(p, q, n, 6)
  <2>1. \A s \in 1..5 : GotBit(st, m, q, p, n, s) = Bit(p, q, n, s)
    BY <1>11 DEF GotBit, ReadOf
  <2> QED
    BY <1>3, <2>1, BeforeFacts DEF GotOf
<1>12. Plan[n].mode # "pking" => Before(p, q, n, 4) = Before(p, q, n, 6)
  BY <1>3, <1>8, BeforeFacts
<1> QED
  BY <1>5, <1>6, <1>9, <1>10, <1>11, <1>12 DEF F, S

(* What the next read of a stage does to the count.                        *)
LEMMA StepFacts ==
  ASSUME NEW q \in Parties, NEW n \in DOMAIN Plan, NEW stage \in {"shares", "sums"},
         stage = "sums" => Plan[n].mode = "pking",
         NEW m \in 1..Len(ListOf(stage, q, n)), NEW r, r = ListOf(stage, q, n)[m]
  PROVE  /\ r.from \in Parties \ {q} /\ Slot(r) \in 1..5 /\ r = ReadAt(r.from, q, n, Slot(r))
         /\ Slot(r) \in 1..3 <=> stage = "shares"
         /\ Slot(r) # 2 /\ Slot(r) # 4 => Has(r.from, q, n, Slot(r))
         /\ GotOf(stage, m, q, r.from, n) = Before(r.from, q, n, Slot(r))
         /\ GotOf(stage, m + 1, q, r.from, n) = Before(r.from, q, n, Slot(r)) + Bit(r.from, q, n, Slot(r))
         /\ \A p : p # r.from => GotOf(stage, m + 1, q, p, n) = GotOf(stage, m, q, p, n)
         /\ \A p, t : ReadOf(stage, m + 1, q, p, n, t) <=>
                        ReadOf(stage, m, q, p, n, t) \/ (p = r.from /\ t = Slot(r))
         /\ ~ReadOf(stage, m, q, r.from, n, Slot(r))
<1> DEFINE R == ListOf(stage, q, n)
           T == IF stage = "sums" THEN {4, 5} ELSE 1..3
           p == r.from
           s == Slot(r)
<1>1. T \in SUBSET (1..5) /\ ListOK(R, q, n, T)
  BY FirstOK, SumOK DEF ListOf
<1>2. /\ stage = "shares" => R = FirstReads[q][n] /\ T = 1..3
      /\ stage = "sums" => R = SumReads[q][n] /\ T = {4, 5}
  BY DEF ListOf
<1> HIDE DEF R, T
<1>3. m \in Nat /\ m \in 1..Len(R) /\ r = R[m]
  BY <1>1 DEF R, ListOK, IsSeq
<1>4. /\ p \in Parties \ {q} /\ s \in T /\ r = ReadAt(p, q, n, s)
      /\ s # 2 /\ s # 4 => Has(p, q, n, s)
  BY <1>1, <1>3 DEF ListOK
<1>5. /\ \A t : t >= s => ~Among(R, m, p, t)
      /\ \A t \in T : t < s /\ Has(p, q, n, t) => Among(R, m, p, t)
      /\ \A x, t : Among(R, m + 1, x, t) <=> Among(R, m, x, t) \/ (x = p /\ t = s)
  BY <1>1, <1>3, AmongFacts
<1>6. s \in 1..5 /\ (s \in 1..3 <=> stage = "shares")
  BY <1>1, <1>2, <1>4
<1>7. ASSUME NEW x, NEW t
      PROVE  ReadOf(stage, m + 1, q, x, n, t) <=> ReadOf(stage, m, q, x, n, t) \/ (x = p /\ t = s)
  BY <1>2, <1>4, <1>5 DEF ReadOf
<1>8. ~ReadOf(stage, m, q, p, n, s)
  <2>1. s >= s
    BY <1>6
  <2> QED
    BY <1>2, <1>4, <1>5, <2>1 DEF ReadOf
<1> HIDE DEF p, s
<1>9. \A t \in 1..5 : Bit(p, q, n, t) \in {0, 1} /\ (~Has(p, q, n, t) => Bit(p, q, n, t) = 0)
  BY DEF Bit
<1>10. \A t \in 1..5 : GotBit(stage, m, q, p, n, t) = IF t < s THEN Bit(p, q, n, t) ELSE 0
  <2>1. TAKE t \in 1..5
  <2>2. CASE t \in T
    <3>1. ReadOf(stage, m, q, p, n, t) <=> Among(R, m, p, t)
      BY <1>2, <2>2 DEF ReadOf
    <3> QED
      BY <1>5, <1>6, <1>9, <2>2, <3>1 DEF GotBit
  <2>3. CASE t \notin T /\ stage = "shares"
    BY <1>2, <1>4, <1>6, <2>3 DEF GotBit, ReadOf
  <2>4. CASE t \notin T /\ stage = "sums"
    BY <1>2, <1>4, <1>6, <2>4 DEF GotBit, ReadOf
  <2> QED
    BY <2>2, <2>3, <2>4
<1>11. \A t \in 1..5 : GotBit(stage, m + 1, q, p, n, t) = IF t <= s THEN Bit(p, q, n, t) ELSE 0
  <2>1. TAKE t \in 1..5
  <2>2. ReadOf(stage, m + 1, q, p, n, t) <=> ReadOf(stage, m, q, p, n, t) \/ t = s
    BY <1>7
  <2> QED
    BY <1>6, <1>10, <2>2 DEF GotBit
<1>12. GotOf(stage, m, q, p, n) = Before(p, q, n, s)
  BY <1>6, <1>10 DEF GotOf, Before
<1>13. GotOf(stage, m + 1, q, p, n) = Before(p, q, n, s + 1)
  <2>1. \A t \in 1..5 : t <= s <=> t < s + 1
    BY <1>6
  <2> QED
    BY <1>6, <1>11, <2>1 DEF GotOf, Before
<1>14. ASSUME NEW x, x # p PROVE GotOf(stage, m + 1, q, x, n) = GotOf(stage, m, q, x, n)
  <2>1. \A t : ReadOf(stage, m + 1, q, x, n, t) <=> ReadOf(stage, m, q, x, n, t)
    BY <1>7, <1>14
  <2>2. \A t : GotBit(stage, m + 1, q, x, n, t) = GotBit(stage, m, q, x, n, t)
    BY <2>1 DEF GotBit
  <2> QED
    BY <2>2 DEF GotOf
<1>15. Before(p, q, n, s + 1) = Before(p, q, n, s) + Bit(p, q, n, s)
  BY <1>6, BeforeFacts
<1> QED
  BY <1>4, <1>6, <1>7, <1>8, <1>12, <1>13, <1>14, <1>15 DEF p, s

-----------------------------------------------------------------------------
(* The state.  A party that is not in a stage has ended its last call.      *)
Stages == {"shares", "sums"}

NetType ==
  /\ DOMAIN log = Parties /\ \A p \in Parties : DOMAIN log[p] = Parties
  /\ \A p, q \in Parties : IsSeq(log[p][q])
  /\ flushed \in [Parties -> [Parties -> Nat]] /\ read \in [Parties -> [Parties -> Nat]]
  /\ \A p, q \in Parties : read[p][q] <= flushed[p][q] /\ flushed[p][q] <= Len(log[p][q])

FlowType ==
  /\ pc \in [Parties -> Stages \cup {"idle", "aborted"}]
  /\ call \in [Parties -> 0..Len(Plan)] /\ k \in [Parties -> Nat \ {0}]
  /\ \A p \in Parties : pc[p] \in Stages => call[p] # 0
  /\ \A p \in Parties : pc[p] = "sums" => Cur(p).mode = "pking"

(* How much p has sent of its present call: all but the sums, or all.      *)
SentUpTo(p) == IF pc[p] = "shares" THEN 4 ELSE 6

(* What q has read from p in its present call, and where that began.       *)
ReadCount(p, q) == GotOf(pc[q], k[q], q, p, call[q])
Base(p, q)      == read[p][q] - ReadCount(p, q)

RightMsg(m, p, q, n, s) ==
  LET r == ReadAt(p, q, n, s)
  IN  m.call = n /\ m.kind = r.kind /\ (r.blocks # {} => DOMAIN m.data = r.blocks)

(* The message of slot s where those of call n lie from b on.              *)
MsgAt(w, p, q, b, n, s) == w[b + Before(p, q, n, s) + 1]

(* The messages of call n for q, as far as p has sent them (cp is the call *)
(* it is in, upto where it stands there), lie in the stream w from b on.   *)
Holds(w, p, q, b, n, cp, upto) ==
  \A s \in 1..5 : n # 0 /\ Has(p, q, n, s) /\ (cp = n => s < upto) =>
    RightMsg(MsgAt(w, p, q, b, n, s), p, q, n, s)

(* The stream w from p to q when they are in the calls cp and cq: what q    *)
(* reads in its call is where it should be, and nothing else comes first.  *)
Aligned(w, p, q, b, cp, cq, upto) ==
  /\ b >= 0
  /\ cp = cq => Len(w) = b + Before(p, q, cp, upto)
  /\ cp = cq + 1 =>
       /\ Len(w) = b + Before(p, q, cq, 6) + Before(p, q, cp, upto)
       /\ Holds(w, p, q, b + Before(p, q, cq, 6), cp, cp, upto)
  /\ cp + 1 = cq => Len(w) = b /\ Before(p, q, cp, upto) = Before(p, q, cp, 6)
  /\ cp >= cq => Holds(w, p, q, b, cq, cp, upto)

QueueInv(p, q) == Aligned(log[p][q], p, q, Base(p, q), call[p], call[q], SentUpTo(p))

(* Nobody is more than a call ahead, or past a call that somebody has not  *)
(* begun.                                                                  *)
BarrierInv ==
  \A p, q \in Parties : call[p] <= call[q] + 1 /\ (pc[p] \notin Stages => call[p] <= call[q])

FlowInv ==
  /\ FlowType /\ NetType /\ BarrierInv
  /\ \A p, q \in Parties : p # q => QueueInv(p, q)

-----------------------------------------------------------------------------
(* What of a and its streams QueueInv depends on.                          *)
SameSender(p, q) == call'[p] = call[p] /\ SentUpTo(p)' = SentUpTo(p) /\ log'[p][q] = log[p][q]
SameReader(p, q) == call'[q] = call[q] /\ Base(p, q)' = Base(p, q)

(* Neither end of a stream has moved.                                      *)
LEMMA SameQueue ==
  ASSUME NEW p, NEW q, QueueInv(p, q), SameSender(p, q), SameReader(p, q)
  PROVE  QueueInv(p, q)'
  BY DEF SameSender, SameReader, QueueInv

(* Counts are natural numbers.                                             *)
LEMMA Counts ==
  ASSUME FlowType, NetType, NEW p \in Parties, NEW q \in Parties
  PROVE  /\ call[p] \in Nat /\ call[p] <= Len(Plan) /\ Len(Plan) \in Nat /\ k[p] \in Nat /\ k[p] >= 1
         /\ call[p] # 0 => call[p] \in DOMAIN Plan
         /\ ReadCount(p, q) \in Nat /\ Base(p, q) \in Int
         /\ read[p][q] \in Nat /\ flushed[p][q] \in Nat /\ Len(log[p][q]) \in Nat
         /\ read[p][q] = Base(p, q) + ReadCount(p, q)
         /\ read[p][q] <= Len(log[p][q]) /\ IsSeq(log[p][q])
         /\ pc[p] \in Stages \cup {"idle", "aborted"}
<1>1. /\ call[p] \in Nat /\ call[p] <= Len(Plan) /\ Len(Plan) \in Nat /\ k[p] \in Nat /\ k[p] >= 1
      /\ DOMAIN Plan = 1..Len(Plan) /\ pc[p] \in Stages \cup {"idle", "aborted"}
  BY ReconstructAssumption DEF FlowType
<1>2. \A n, s : Bit(p, q, n, s) \in {0, 1}
  BY BeforeFacts
<1>3. ReadCount(p, q) \in Nat
  BY <1>2 DEF ReadCount, GotOf, GotBit
<1>5. /\ read[p][q] \in Nat /\ flushed[p][q] \in Nat /\ Len(log[p][q]) \in Nat
      /\ read[p][q] <= Len(log[p][q]) /\ IsSeq(log[p][q])
  BY DEF NetType, IsSeq
<1> QED
  BY <1>1, <1>3, <1>5 DEF Base

(* Who has heard of p in its present call is not ahead of p.               *)
LEMMA Heard ==
  ASSUME FlowInv, NEW p \in Parties, NEW q \in Parties, p # q, ReadCount(p, q) >= 1
  PROVE  call[q] <= call[p]
<1>1. call[p] \in Nat /\ call[q] \in Nat /\ call[q] <= call[p] + 1
  BY Counts DEF FlowInv, BarrierInv
<1>2. ASSUME call[p] + 1 = call[q] PROVE FALSE
  <2>1. Len(log[p][q]) = Base(p, q)
    BY <1>2 DEF FlowInv, QueueInv, Aligned
  <2>2. FlowType /\ NetType
    BY DEF FlowInv
  <2>3. /\ read[p][q] = Base(p, q) + ReadCount(p, q) /\ read[p][q] <= Len(log[p][q])
        /\ Base(p, q) \in Int /\ ReadCount(p, q) \in Nat
    BY <2>2, Counts
  <2> QED
    BY <2>1, <2>3
<1> QED
  BY <1>1, <1>2

-----------------------------------------------------------------------------
(* At most three messages that are sent together, each of them or not.     *)
Maybe(a, x) == IF a = 1 THEN <<x>> ELSE << >>
Three(a, x, b, y, c, z) == Maybe(a, x) \o (Maybe(b, y) \o Maybe(c, z))

(* Where each of them is.                                                  *)
LEMMA Optional ==
  ASSUME NEW a, NEW b, NEW c, NEW x, NEW y, NEW z, a \in {0, 1} /\ b \in {0, 1} /\ c \in {0, 1}
  PROVE  /\ IsSeq(Three(a, x, b, y, c, z)) /\ Len(Three(a, x, b, y, c, z)) = a + b + c
         /\ a = 1 => Three(a, x, b, y, c, z)[1] = x
         /\ b = 1 => Three(a, x, b, y, c, z)[a + 1] = y
         /\ c = 1 => Three(a, x, b, y, c, z)[a + b + 1] = z
<1> DEFINE W == Three(a, x, b, y, c, z)
           X == Maybe(a, x)
           Y == Maybe(b, y)
           Z == Maybe(c, z)
           V == Y \o Z
<1>1. /\ IsSeq(X) /\ Len(X) = a /\ (a = 1 => X[1] = x)
      /\ IsSeq(Y) /\ Len(Y) = b /\ (b = 1 => Y[1] = y)
      /\ IsSeq(Z) /\ Len(Z) = c /\ (c = 1 => Z[1] = z)
  BY Short DEF Maybe
<1>2. W = X \o V
  BY DEF Three
<1> HIDE DEF X, Y, Z, W
<1>3. /\ IsSeq(V) /\ Len(V) = Len(Y) + Len(Z)
      /\ \A i \in 1..Len(Y) : V[i] = Y[i]
      /\ \A i \in 1..Len(Z) : V[Len(Y) + i] = Z[i]
  <2>1. IsSeq(Y) /\ IsSeq(Z)
    BY <1>1
  <2> QED
    BY <2>1, Joined
<1> HIDE DEF V
<1>4. /\ IsSeq(W) /\ Len(W) = Len(X) + Len(V)
      /\ \A i \in 1..Len(X) : W[i] = X[i]
      /\ \A i \in 1..Len(V) : W[Len(X) + i] = V[i]
  <2>1. IsSeq(X) /\ IsSeq(V)
    BY <1>1, <1>3
  <2>2. /\ IsSeq(X \o V) /\ Len(X \o V) = Len(X) + Len(V)
        /\ \A i \in 1..Len(X) : (X \o V)[i] = X[i]
        /\ \A i \in 1..Len(V) : (X \o V)[Len(X) + i] = V[i]
    BY <2>1, Joined
  <2> QED
    BY <1>2, <2>2
<1>5. a = 1 => W[1] = x
  BY <1>1, <1>4
<1>6. b = 1 => W[a + 1] = y
  <2>1. b = 1 => V[1] = y /\ 1 \in 1..Len(V)
    BY <1>1, <1>3
  <2> QED
    BY <1>1, <1>4, <2>1
<1>7. c = 1 => W[a + b + 1] = z
  <2>1. c = 1 => V[b + 1] = z /\ b + 1 \in 1..Len(V)
    BY <1>1, <1>3
  <2>2. a + (b + 1) = a + b + 1
    OBVIOUS
  <2> QED
    BY <1>1, <1>4, <2>1, <2>2
<1> QED
  BY <1>1, <1>3, <1>4, <1>5, <1>6, <1>7 DEF W

(* A message of slot s: what is said, or blocks of v.                      *)
Carried(p, q, n, s, v) ==
  [call |-> n, kind |-> ReadAt(p, q, n, s).kind,
   data |-> IF s = 1 \/ (s = 2 /\ Plan[n].mode = "accept") THEN Says(p, Plan[n])
            ELSE Data(v, ReadAt(p, q, n, s).blocks)]

(* O are the messages of the slots in T, which begin with slot t.          *)
Conveys(O, p, q, n, v, t, T) ==
  /\ IsSeq(O)
  /\ \A s \in T : Has(p, q, n, s) =>
       /\ Before(p, q, n, s) - Before(p, q, n, t) + 1 \in 1..Len(O)
       /\ O[Before(p, q, n, s) - Before(p, q, n, t) + 1] = Carried(p, q, n, s, v)
  /\ \A i \in 1..Len(O) : \E s \in T :
       Has(p, q, n, s) /\ i = Before(p, q, n, s) - Before(p, q, n, t) + 1

(* What is sent when a call begins.                                        *)
LEMMA OutgoingFacts ==
  ASSUME NEW p, NEW q, NEW n \in DOMAIN Plan, NEW v
  PROVE  /\ Conveys(Outgoing(p, q, n, v), p, q, n, v, 1, 1..3)
         /\ Len(Outgoing(p, q, n, v)) = Before(p, q, n, 4)
<1> DEFINE c == Plan[n]
           x == Carried(p, q, n, 1, v)
           y == Carried(p, q, n, 2, v)
           z == Carried(p, q, n, 3, v)
           O == Outgoing(p, q, n, v)
<1>1. /\ c.mode \in {"pking", "broadcast", "accept"} /\ c.check \in BOOLEAN /\ c.nonce \in BOOLEAN
      /\ c.mode = "accept" => ~c.nonce
      /\ n # 0
  BY PlanFacts
<1>2. /\ x = [call |-> n, kind |-> "digest", data |-> Says(p, c)]
      /\ z = [call |-> n, kind |-> "nonce", data |-> Data(v, {0})]
  BY DEF Carried, ReadAt, Read
<1>3. O = Only(Has(p, q, n, 1), <<x>>) \o (Only(Has(p, q, n, 2), <<y>>) \o Only(Has(p, q, n, 3), <<z>>))
  <2>1. CASE c.mode = "pking"
    <3>1. y = [call |-> n, kind |-> "share", data |-> Data(v, {q})]
      BY <2>1 DEF Carried, ReadAt, Read, Share
    <3> QED
      BY <1>2, <2>1, <3>1 DEF Outgoing, Has, Only
  <2>2. CASE c.mode = "broadcast"
    <3>1. y = [call |-> n, kind |-> "share", data |-> Data(v, Blocks)]
      BY <2>2 DEF Carried, ReadAt, Read, Share
    <3> QED
      BY <1>2, <2>2, <3>1 DEF Outgoing, Has, Only
  <2>3. CASE c.mode = "accept"
    <3>1. y = [call |-> n, kind |-> "bit", data |-> Says(p, c)]
      BY <2>3 DEF Carried, ReadAt, Read, Share
    <3>2. <<y>> \in Seq({y})
      OBVIOUS
    <3>3. <<y>> \o << >> = <<y>>
      BY <3>2
    <3>4. ~Has(p, q, n, 3) /\ Has(p, q, n, 2)
      BY <1>1, <2>3 DEF Has
    <3>5. Has(p, q, n, 1) <=> c.check
      BY DEF Has
    <3>6. O = Only(c.check, <<x>>) \o <<y>>
      BY <1>2, <2>3, <3>1 DEF Outgoing
    <3> HIDE DEF x, y, z, O
    <3> QED
      BY <3>3, <3>4, <3>5, <3>6 DEF Only
  <2> QED
    BY <1>1, <2>1, <2>2, <2>3
<1> HIDE DEF x, y, z, O
<1> DEFINE B(s) == Bit(p, q, n, s)
<1>4. \A s \in 1..5 : B(s) \in {0, 1} /\ (Has(p, q, n, s) <=> B(s) = 1)
  BY <1>1 DEF Bit
<1>5. /\ IsSeq(O) /\ Len(O) = B(1) + B(2) + B(3)
      /\ B(1) = 1 => O[1] = x
      /\ B(2) = 1 => O[B(1) + 1] = y
      /\ B(3) = 1 => O[B(1) + B(2) + 1] = z
  <2>1. O = Maybe(B(1), x) \o (Maybe(B(2), y) \o Maybe(B(3), z))
    BY <1>3, <1>4 DEF Only, Maybe
  <2>2. B(1) \in {0, 1} /\ B(2) \in {0, 1} /\ B(3) \in {0, 1}
    BY <1>4
  <2>3. PICK b1, b2, b3 : b1 = B(1) /\ b2 = B(2) /\ b3 = B(3)
    OBVIOUS
  <2> HIDE DEF B
  <2>4. /\ b1 \in {0, 1} /\ b2 \in {0, 1} /\ b3 \in {0, 1}
        /\ O = Three(b1, x, b2, y, b3, z)
    BY <2>1, <2>2, <2>3 DEF Three
  <2>5. /\ IsSeq(O) /\ Len(O) = b1 + b2 + b3
        /\ b1 = 1 => O[1] = x
        /\ b2 = 1 => O[b1 + 1] = y
        /\ b3 = 1 => O[b1 + b2 + 1] = z
    <3>1. PICK W, x1, y1, z1 : W = Three(b1, x1, b2, y1, b3, z1) /\ W = O /\ x1 = x /\ y1 = y /\ z1 = z
      BY <2>4
    <3>2. /\ IsSeq(W) /\ Len(W) = b1 + b2 + b3
          /\ b1 = 1 => W[1] = x1
          /\ b2 = 1 => W[b1 + 1] = y1
          /\ b3 = 1 => W[b1 + b2 + 1] = z1
      BY <2>4, <3>1, Optional, Z3T(30)
    <3> QED
      BY <3>1, <3>2
  <2> QED
    BY <2>3, <2>5
<1>7. /\ Before(p, q, n, 1) = 0 /\ Before(p, q, n, 2) = B(1) /\ Before(p, q, n, 3) = B(1) + B(2)
      /\ Before(p, q, n, 4) = B(1) + B(2) + B(3)
  BY <1>4 DEF Before
<1> HIDE DEF B
<1>8. Len(O) = Before(p, q, n, 4)
  BY <1>5, <1>7
<1>9. ASSUME NEW s \in 1..3, Has(p, q, n, s)
      PROVE  /\ Before(p, q, n, s) - Before(p, q, n, 1) + 1 \in 1..Len(O)
             /\ O[Before(p, q, n, s) - Before(p, q, n, 1) + 1] = Carried(p, q, n, s, v)
  <2>1. CASE s = 1
    BY <1>4, <1>5, <1>7, <1>9, <2>1 DEF x
  <2>2. CASE s = 2
    BY <1>4, <1>5, <1>7, <1>9, <2>2 DEF y
  <2>3. CASE s = 3
    BY <1>4, <1>5, <1>7, <1>9, <2>3 DEF z
  <2> QED
    BY <2>1, <2>2, <2>3
<1>10. ASSUME NEW i \in 1..Len(O)
       PROVE  \E s \in 1..3 : Has(p, q, n, s) /\ i = Before(p, q, n, s) - Before(p, q, n, 1) + 1
  BY <1>4, <1>7, <1>8
<1> QED
  BY <1>5, <1>8, <1>9, <1>10 DEF Conveys, O

(* What a king sends when it has all shares.                               *)
LEMMA SumsFacts ==
  ASSUME NEW p, NEW q, NEW v, call[p] \in DOMAIN Plan, Cur(p).mode = "pking"
  PROVE  /\ Conveys(Sums(p, q, v), p, q, call[p], v, 4, {4, 5})
         /\ Len(Sums(p, q, v)) = Before(p, q, call[p], 6) - Before(p, q, call[p], 4)
<1> DEFINE n == call[p]
           y == Carried(p, q, n, 4, v)
           z == Carried(p, q, n, 5, v)
           O == Sums(p, q, v)
<1>1. n # 0 /\ Plan[n].nonce \in BOOLEAN /\ Plan[n].mode = "pking"
  BY PlanFacts DEF Cur
<1>2. /\ y = [call |-> n, kind |-> "sum", data |-> Data(v, {p})]
      /\ z = [call |-> n, kind |-> "nonceSum", data |-> Data(v, {0})]
  BY DEF Carried, ReadAt, Read
<1>3. O = Only(Has(p, q, n, 4), <<y>>) \o Only(Has(p, q, n, 5), <<z>>)
  <2>1. Has(p, q, n, 4) <=> HasValues(Cur(p), p)
    BY <1>1 DEF Has, Cur
  <2>2. Has(p, q, n, 5) <=> Cur(p).nonce /\ p = 1
    BY <1>1 DEF Has, Cur
  <2>3. O = Only(HasValues(Cur(p), p), <<y>>) \o Only(Cur(p).nonce /\ p = 1, <<z>>)
    BY <1>2 DEF Sums
  <2> HIDE DEF y, z, O
  <2> QED
    BY <2>1, <2>2, <2>3 DEF Only
<1> HIDE DEF y, z, O
<1> DEFINE B(s) == Bit(p, q, n, s)
<1>4. \A s \in 1..5 : B(s) \in {0, 1} /\ (Has(p, q, n, s) <=> B(s) = 1)
  BY <1>1 DEF Bit
<1>5. O = Maybe(0, y) \o (Maybe(B(4), y) \o Maybe(B(5), z))
  <2> DEFINE W == Maybe(B(4), y) \o Maybe(B(5), z)
  <2>1. IsSeq(W)
    <3>1. IsSeq(Maybe(B(4), y)) /\ IsSeq(Maybe(B(5), z))
      BY Short DEF Maybe
    <3> QED
      BY <3>1, Joined
  <2>2. PICK S : W \in Seq(S)
    BY <2>1 DEF IsSeq
  <2>3. O = W
    BY <1>3, <1>4 DEF Only, Maybe
  <2> HIDE DEF W
  <2>4. << >> \o W = W /\ Maybe(0, y) = << >>
    BY <2>2 DEF Maybe
  <2> QED
    BY <2>3, <2>4 DEF W
<1>6. /\ IsSeq(O) /\ Len(O) = B(4) + B(5)
      /\ B(4) = 1 => O[1] = y
      /\ B(5) = 1 => O[B(4) + 1] = z
  <2>2. 0 \in {0, 1} /\ B(4) \in {0, 1} /\ B(5) \in {0, 1}
    BY <1>4
  <2>3. PICK b0, b4, b5 : b0 = 0 /\ b4 = B(4) /\ b5 = B(5)
    OBVIOUS
  <2> HIDE DEF B
  <2>4. /\ b0 \in {0, 1} /\ b4 \in {0, 1} /\ b5 \in {0, 1}
        /\ O = Three(b0, y, b4, y, b5, z)
    BY <1>5, <2>2, <2>3 DEF Three
  <2>5. /\ IsSeq(O) /\ Len(O) = b0 + b4 + b5
        /\ b4 = 1 => O[b0 + 1] = y
        /\ b5 = 1 => O[b0 + b4 + 1] = z
    <3>1. PICK W, y1, z1 : W = Three(b0, y1, b4, y1, b5, z1) /\ W = O /\ y1 = y /\ z1 = z
      BY <2>4
    <3>2. /\ IsSeq(W) /\ Len(W) = b0 + b4 + b5
          /\ b4 = 1 => W[b0 + 1] = y1
          /\ b5 = 1 => W[b0 + b4 + 1] = z1
      BY <2>4, <3>1, Optional, Z3
    <3> QED
      BY <3>1, <3>2
  <2>6. b4 \in Int /\ b5 \in Int /\ b0 = 0
    BY <2>3, <2>4
  <2> HIDE DEF B
  <2>7. /\ IsSeq(O) /\ Len(O) = b4 + b5
        /\ b4 = 1 => O[1] = y
        /\ b5 = 1 => O[b4 + 1] = z
    BY <2>5, <2>6
  <2> QED
    BY <2>3, <2>7
<1>8. /\ Before(p, q, n, 4) \in Nat /\ Before(p, q, n, 5) = Before(p, q, n, 4) + B(4)
      /\ Before(p, q, n, 6) = Before(p, q, n, 4) + B(4) + B(5)
  <2>1. /\ Before(p, q, n, 4 + 1) = Before(p, q, n, 4) + Bit(p, q, n, 4)
        /\ Before(p, q, n, 5 + 1) = Before(p, q, n, 5) + Bit(p, q, n, 5)
        /\ Before(p, q, n, 4) \in Nat
    BY BeforeFacts
  <2> QED
    BY <2>1
<1> HIDE DEF B
<1>9. Len(O) = Before(p, q, n, 6) - Before(p, q, n, 4)
  BY <1>4, <1>6, <1>8
<1>10. ASSUME NEW s \in {4, 5}, Has(p, q, n, s)
       PROVE  /\ Before(p, q, n, s) - Before(p, q, n, 4) + 1 \in 1..Len(O)
              /\ O[Before(p, q, n, s) - Before(p, q, n, 4) + 1] = Carried(p, q, n, s, v)
  <2>1. CASE s = 4
    BY <1>4, <1>6, <1>8, <1>10, <2>1 DEF y
  <2>2. CASE s = 5
    BY <1>4, <1>6, <1>8, <1>10, <2>2 DEF z
  <2> QED
    BY <2>1, <2>2
<1>11. ASSUME NEW i \in 1..Len(O)
       PROVE  \E s \in {4, 5} : Has(p, q, n, s) /\ i = Before(p, q, n, s) - Before(p, q, n, 4) + 1
  BY <1>4, <1>8, <1>9
<1> QED
  BY <1>6, <1>9, <1>10, <1>11 DEF Conveys, O

(* A message that is sent is right.                                        *)
LEMMA CarriedRight ==
  ASSUME NEW p, NEW q, NEW n \in DOMAIN Plan, NEW s \in 1..5, NEW v
  PROVE  RightMsg(Carried(p, q, n, s, v), p, q, n, s)
<1>1. s = 1 \/ (s = 2 /\ Plan[n].mode = "accept") => ReadAt(p, q, n, s).blocks = {}
  BY DEF ReadAt, Read, Share
<1>2. \A blocks : DOMAIN Data(v, blocks) = blocks
  BY DEF Data
<1> QED
  BY <1>1, <1>2 DEF RightMsg, Carried

-----------------------------------------------------------------------------
(* w is l with O after it.                                                 *)
Extends(w, l, O) ==
  /\ Len(l) \in Nat /\ Len(O) \in Nat /\ Len(w) = Len(l) + Len(O)
  /\ \A i \in 1..Len(l) : w[i] = l[i]
  /\ \A i \in 1..Len(O) : w[Len(l) + i] = O[i]

(* What sending does to the streams.                                       *)
LEMMA SendFacts ==
  ASSUME NetType, NEW p \in Parties, NEW msgs, DOMAIN msgs = Parties \ {p},
         \A q \in Parties \ {p} : IsSeq(msgs[q]), SendAll(p, msgs)
  PROVE  /\ NetType' /\ read' = read
         /\ \A q \in Parties \ {p} : Extends(log'[p][q], log[p][q], msgs[q])
         /\ \A a, q \in Parties : a # p \/ q = p => log'[a][q] = log[a][q]
<1> DEFINE dsts == {q \in DOMAIN msgs : msgs[q] # << >>}
           Written(q) == IF q \in dsts THEN log[p][q] \o msgs[q] ELSE log[p][q]
           Room == {Len(Written(q)) - flushed[p][q] : q \in dsts}
           most == CHOOSE r \in Room \cup {0} : \A s \in Room : s <= r
           Gone(cut, q) == IF EagerFlush THEN Len(Written(q)) ELSE flushed[p][q] + cut[q]
           Cuttings == IF EagerFlush THEN {<< >>} ELSE [dsts -> 0..most]
<1>1. /\ log' = [log EXCEPT ![p] = [q \in Parties |-> Written(q)]]
      /\ \E cut \in Cuttings :
           /\ \A q \in dsts : Gone(cut, q) \in flushed[p][q]..Len(Written(q))
           /\ flushed' = [flushed EXCEPT ![p] =
                [q \in Parties |-> IF q \in dsts THEN Gone(cut, q) ELSE flushed[p][q]]]
      /\ read' = read
  <2>1. Procs = Parties
    BY ReconstructAssumption
  <2> QED
    BY <2>1 DEF SendAll
<1>2. dsts \in SUBSET (Parties \ {p})
  OBVIOUS
<1>3. \A q \in Parties \ {p} : Written(q) = log[p][q] \o msgs[q]
  <2>1. TAKE q \in Parties \ {p}
  <2>2. CASE msgs[q] # << >>
    BY <2>2
  <2>3. CASE msgs[q] = << >>
    <3>1. PICK S : log[p][q] \in Seq(S)
      BY DEF NetType, IsSeq
    <3>2. log[p][q] \o << >> = log[p][q]
      BY <3>1
    <3> QED
      BY <2>3, <3>2
  <2> QED
    BY <2>2, <2>3
<1>4. Written(p) = log[p][p]
  OBVIOUS
<1> HIDE DEF dsts, Written, Cuttings
<1>5. /\ DOMAIN log' = Parties /\ \A a \in Parties : DOMAIN log'[a] = Parties
      /\ \A q \in Parties : log'[p][q] = Written(q)
      /\ \A a \in Parties : a # p => log'[a] = log[a]
  BY <1>1 DEF NetType
<1>6. \A q \in Parties : IsSeq(Written(q)) /\ Len(log[p][q]) <= Len(Written(q)) /\ Len(Written(q)) \in Nat
  <2>1. TAKE q \in Parties
  <2>2. IsSeq(log[p][q]) /\ Len(log[p][q]) \in Nat
    BY DEF NetType, IsSeq
  <2>3. CASE q = p
    BY <1>4, <2>2, <2>3
  <2>4. CASE q # p
    <3>1. IsSeq(msgs[q])
      BY <2>4
    <3>2. /\ IsSeq(log[p][q] \o msgs[q]) /\ Len(msgs[q]) \in Nat
          /\ Len(log[p][q] \o msgs[q]) = Len(log[p][q]) + Len(msgs[q])
      BY <2>2, <3>1, Joined
    <3>3. PICK w : w = Written(q) /\ w = log[p][q] \o msgs[q]
      BY <1>3, <2>4
    <3>4. IsSeq(w) /\ Len(w) = Len(log[p][q]) + Len(msgs[q])
      BY <3>2, <3>3
    <3>5. PICK x, y : x \in Nat /\ y \in Nat /\ x = Len(log[p][q]) /\ y = Len(msgs[q])
      BY <2>2, <3>2
    <3>6. PICK z : z = Len(w) /\ z = x + y
      BY <3>4, <3>5
    <3>7. x <= z /\ z \in Nat
      <4>1. x \in Nat /\ y \in Nat
        BY <3>5
      <4>2. z = x + y
        BY <3>6
      <4> QED
        BY <4>1, <4>2
    <3>8. w = Written(q)
      BY <3>3
    <3> QED
      BY <3>4, <3>5, <3>6, <3>7, <3>8
  <2> QED
    BY <2>3, <2>4
<1>7. PICK g \in [Parties -> Nat] :
        /\ flushed' = [flushed EXCEPT ![p] = g]
        /\ \A q \in Parties : flushed[p][q] <= g[q] /\ g[q] <= Len(Written(q))
  <2>1. PICK cut \in Cuttings :
          /\ \A q \in dsts : Gone(cut, q) \in flushed[p][q]..Len(Written(q))
          /\ flushed' = [flushed EXCEPT ![p] =
                [q \in Parties |-> IF q \in dsts THEN Gone(cut, q) ELSE flushed[p][q]]]
    BY <1>1
  <2> HIDE DEF Gone
  <2>2. \A q \in Parties : flushed[p][q] \in Nat /\ flushed[p][q] <= Len(log[p][q]) /\ Len(log[p][q]) \in Nat
    BY DEF NetType, IsSeq
  <2>3. \A q \in Parties : Len(Written(q)) \in Nat /\ Len(log[p][q]) <= Len(Written(q))
    BY <1>6
  <2> DEFINE h == [q \in Parties |-> IF q \in dsts THEN Gone(cut, q) ELSE flushed[p][q]]
  <2>4. \A q \in Parties : h[q] \in Nat /\ flushed[p][q] <= h[q] /\ h[q] <= Len(Written(q))
    <3>1. TAKE q \in Parties
    <3>2. CASE q \in dsts
      <4>1. Gone(cut, q) \in flushed[p][q]..Len(Written(q)) /\ h[q] = Gone(cut, q)
        BY <2>1, <3>2
      <4> QED
        BY <2>2, <2>3, <4>1
    <3>3. CASE q \notin dsts
      <4>1. h[q] = flushed[p][q]
        BY <3>3
      <4> QED
        BY <2>2, <2>3, <4>1
    <3> QED
      BY <3>2, <3>3
  <2>5. h \in [Parties -> Nat]
    BY <2>4
  <2> QED
    BY <2>1, <2>4, <2>5
<1>8. NetType'
  <2>1. \A a, q \in Parties : IsSeq(log'[a][q])
    BY <1>5, <1>6 DEF NetType
  <2>2. flushed' \in [Parties -> [Parties -> Nat]] /\ read' \in [Parties -> [Parties -> Nat]]
    BY <1>1, <1>7 DEF NetType
  <2>3. \A a, q \in Parties : read'[a][q] <= flushed'[a][q] /\ flushed'[a][q] <= Len(log'[a][q])
    <3>1. TAKE a, q \in Parties
    <3>2. /\ read[a][q] \in Nat /\ flushed[a][q] \in Nat /\ read[a][q] <= flushed[a][q]
          /\ flushed[a][q] <= Len(log[a][q])
      BY DEF NetType
    <3>3. CASE a = p
      <4>1. flushed'[p][q] = g[q] /\ flushed[p][q] <= g[q] /\ g[q] <= Len(Written(q)) /\ g[q] \in Nat
        BY <1>7 DEF NetType
      <4> QED
        BY <1>1, <1>5, <3>2, <3>3, <4>1
    <3>4. CASE a # p
      <4>1. flushed'[a][q] = flushed[a][q]
        BY <1>7, <3>4 DEF NetType
      <4> QED
        BY <1>1, <1>5, <3>2, <3>4, <4>1
    <3> QED
      BY <3>3, <3>4
  <2> QED
    BY <1>5, <2>1, <2>2, <2>3 DEF NetType
<1>9. \A q \in Parties \ {p} : Extends(log'[p][q], log[p][q], msgs[q])
  <2>1. TAKE q \in Parties \ {p}
  <2>2. IsSeq(log[p][q]) /\ IsSeq(msgs[q])
    BY DEF NetType
  <2>3. log'[p][q] = log[p][q] \o msgs[q]
    BY <1>3, <1>5
  <2>4. PICK l, O, w : /\ l = log[p][q] /\ O = msgs[q] /\ w = log'[p][q]
                       /\ IsSeq(l) /\ IsSeq(O) /\ w = l \o O
    BY <2>2, <2>3
  <2>5. Extends(w, l, O)
    BY <2>4, Joined DEF Extends
  <2> QED
    BY <2>4, <2>5
<1>10. \A a, q \in Parties : a # p \/ q = p => log'[a][q] = log[a][q]
  BY <1>4, <1>5
<1> QED
  BY <1>1, <1>8, <1>9, <1>10

(* O brings q the messages of the slots in T, which begin with slot t.     *)
Brings(O, p, q, n, t, T) ==
  \A s \in T : Has(p, q, n, s) =>
    /\ Before(p, q, n, s) - Before(p, q, n, t) + 1 \in 1..Len(O)
    /\ RightMsg(O[Before(p, q, n, s) - Before(p, q, n, t) + 1], p, q, n, s)

(* What a party sends is right.                                            *)
LEMMA Conveyed ==
  ASSUME NEW O, NEW p, NEW q, NEW n \in DOMAIN Plan, NEW v, NEW t, NEW T \in SUBSET (1..5),
         Conveys(O, p, q, n, v, t, T)
  PROVE  Brings(O, p, q, n, t, T)
<1>1. SUFFICES ASSUME NEW s \in T, Has(p, q, n, s)
               PROVE  /\ Before(p, q, n, s) - Before(p, q, n, t) + 1 \in 1..Len(O)
                      /\ RightMsg(O[Before(p, q, n, s) - Before(p, q, n, t) + 1], p, q, n, s)
  BY DEF Brings
<1>2. /\ Before(p, q, n, s) - Before(p, q, n, t) + 1 \in 1..Len(O)
      /\ O[Before(p, q, n, s) - Before(p, q, n, t) + 1] = Carried(p, q, n, s, v)
  BY <1>1 DEF Conveys
<1>3. RightMsg(Carried(p, q, n, s, v), p, q, n, s)
  BY CarriedRight
<1> QED
  BY <1>2, <1>3

(* The messages that are appended lie where they should.                   *)
LEMMA Sends ==
  ASSUME NEW w, NEW l, NEW O, NEW p, NEW q, NEW n, NEW t \in 1..6, NEW T, NEW b \in Nat,
         Brings(O, p, q, n, t, T), Extends(w, l, O), Len(l) = b + Before(p, q, n, t)
  PROVE  \A s \in T : Has(p, q, n, s) => RightMsg(MsgAt(w, p, q, b, n, s), p, q, n, s)
<1>1. SUFFICES ASSUME NEW s \in T, Has(p, q, n, s)
               PROVE  RightMsg(MsgAt(w, p, q, b, n, s), p, q, n, s)
  OBVIOUS
<1>2. PICK i : i = Before(p, q, n, s) - Before(p, q, n, t) + 1
  OBVIOUS
<1>3. i \in 1..Len(O) /\ RightMsg(O[i], p, q, n, s)
  BY <1>1, <1>2 DEF Brings
<1>4. w[Len(l) + i] = O[i]
  BY <1>3 DEF Extends
<1>5. Before(p, q, n, s) \in Nat /\ Before(p, q, n, t) \in Nat
  BY BeforeFacts
<1>6. Len(l) + i = b + Before(p, q, n, s) + 1
  BY <1>2, <1>5
<1> QED
  BY <1>3, <1>4, <1>6 DEF MsgAt

(* Those that were there stay.                                             *)
LEMMA Stays ==
  ASSUME NEW w, NEW l, NEW O, Extends(w, l, O), NEW p, NEW q, NEW n, NEW b \in Nat,
         NEW s \in 1..5, Has(p, q, n, s), n # 0, b + Before(p, q, n, s + 1) <= Len(l)
  PROVE  MsgAt(w, p, q, b, n, s) = MsgAt(l, p, q, b, n, s)
<1>1. Before(p, q, n, s + 1) = Before(p, q, n, s) + 1 /\ Before(p, q, n, s) \in Nat
  <2>1. Bit(p, q, n, s) = 1
    BY DEF Bit
  <2> QED
    BY <2>1, BeforeFacts
<1>2. \A i \in 1..Len(l) : w[i] = l[i]
  BY DEF Extends
<1>3. Len(l) \in Nat
  BY DEF Extends
<1>4. b + Before(p, q, n, s) + 1 \in 1..Len(l)
  BY <1>1, <1>3
<1> QED
  BY <1>2, <1>4 DEF MsgAt

-----------------------------------------------------------------------------
(* A call begins.                                                          *)
LEMMA StartSends ==
  ASSUME FlowInv, NEW p \in Parties, Start(p)
  PROVE  /\ call[p] + 1 \in DOMAIN Plan /\ NetType' /\ read' = read
         /\ call' = [call EXCEPT ![p] = call[p] + 1]
         /\ pc[p] = "idle" /\ pc' = [pc EXCEPT ![p] = "shares"] /\ k' = [k EXCEPT ![p] = 1]
         /\ \A a, q \in Parties : a # p \/ q = p => log'[a][q] = log[a][q]
         /\ \A q \in Parties \ {p} : \E O :
              /\ Brings(O, p, q, call[p] + 1, 1, 1..3)
              /\ Len(O) = Before(p, q, call[p] + 1, 4)
              /\ Extends(log'[p][q], log[p][q], O)
<1> DEFINE n == call[p] + 1
<1>1. n \in DOMAIN Plan
  <2>1. call[p] \in Nat /\ call[p] < Len(Plan) /\ Len(Plan) \in Nat /\ DOMAIN Plan = 1..Len(Plan)
    BY ReconstructAssumption DEF Start, FlowInv, FlowType
  <2> QED
    BY <2>1
<1>2. PICK alter \in Alterations(p), nonce \in BOOLEAN :
        SendAll(p, [q \in Parties \ {p} |->
          Outgoing(p, q, n, Altered(Fresh(p), Target(q, nonce), alter[q]))])
  BY <1>1, PlanFacts DEF Start
<1> DEFINE v(q) == Altered(Fresh(p), Target(q, nonce), alter[q])
           msgs == [q \in Parties \ {p} |-> Outgoing(p, q, n, v(q))]
<1> HIDE DEF n
<1>3. \A q \in Parties \ {p} :
        Conveys(msgs[q], p, q, n, v(q), 1, 1..3) /\ Len(msgs[q]) = Before(p, q, n, 4)
  BY <1>1, OutgoingFacts
<1>8. \A q \in Parties \ {p} : Brings(msgs[q], p, q, n, 1, 1..3)
  <2>1. 1..3 \in SUBSET (1..5)
    OBVIOUS
  <2> QED
    BY <1>1, <1>3, <2>1, Conveyed
<1>4. SendAll(p, msgs) /\ DOMAIN msgs = Parties \ {p}
  BY <1>2
<1> HIDE DEF msgs, v
<1>5. \A q \in Parties \ {p} : IsSeq(msgs[q])
  BY <1>3 DEF Conveys
<1>6. /\ NetType' /\ read' = read
      /\ \A q \in Parties \ {p} : Extends(log'[p][q], log[p][q], msgs[q])
      /\ \A a, q \in Parties : a # p \/ q = p => log'[a][q] = log[a][q]
  BY <1>4, <1>5, SendFacts DEF FlowInv
<1>7. /\ call' = [call EXCEPT ![p] = n] /\ pc[p] = "idle"
      /\ pc' = [pc EXCEPT ![p] = "shares"] /\ k' = [k EXCEPT ![p] = 1]
  BY DEF Start, Goto, n
<1> QED
  BY <1>1, <1>3, <1>6, <1>7, <1>8 DEF n

(* Reading a message of a call that nobody has begun is impossible.        *)
LEMMA AtRest ==
  ASSUME FlowType, NetType, NEW a \in Parties, NEW p \in Parties, a # p, pc[p] \notin Stages
  PROVE  ReadCount(a, p) = Before(a, p, call[p], 6)
<1>1. CASE call[p] = 0
  <2>1. \A s : Bit(a, p, 0, s) = 0
    BY DEF Bit
  <2>2. GotOf(pc[p], k[p], p, a, 0) = 0
    BY <2>1 DEF GotOf, GotBit
  <2> QED
    BY <1>1, <2>2, BeforeFacts DEF ReadCount
<1>2. CASE call[p] # 0
  <2>1. call[p] \in DOMAIN Plan /\ k[p] \in Nat /\ a \in Parties \ {p}
    BY <1>2, Counts
  <2>2. PICK st, m, n : st = pc[p] /\ m = k[p] /\ n = call[p]
    OBVIOUS
  <2>3. st \notin {"shares", "sums"} /\ m \in Nat /\ n \in DOMAIN Plan
    BY <2>1, <2>2 DEF Stages
  <2>4. GotOf(st, m, p, a, n) = Before(a, p, n, 6)
    BY <2>1, <2>3, GotFacts
  <2> QED
    BY <2>2, <2>4 DEF ReadCount
<1> QED
  BY <1>1, <1>2

-----------------------------------------------------------------------------
(* The messages up to a slot are part of those of the call.                *)
LEMMA Within ==
  ASSUME NEW p, NEW q, NEW n
  PROVE  /\ Before(p, q, n, 4) \in Nat /\ Before(p, q, n, 6) \in Nat /\ Before(p, q, n, 1) = 0
         /\ Before(p, q, n, 4) <= Before(p, q, n, 6)
         /\ \A s \in 1..5 : /\ Before(p, q, n, s + 1) \in Nat
                            /\ Before(p, q, n, s + 1) <= Before(p, q, n, 6)
                            /\ s < 4 => Before(p, q, n, s + 1) <= Before(p, q, n, 4)
<1>1. \A s : Before(p, q, n, s) \in Nat
  BY BeforeFacts
<1>2. \A s, t \in 1..6 : s <= t => Before(p, q, n, s) <= Before(p, q, n, t)
  BY BeforeFacts
<1>3. Before(p, q, n, 1) = 0
  BY BeforeFacts
<1>4. 4 \in 1..6 /\ 6 \in 1..6 /\ \A s \in 1..5 : s + 1 \in 1..6 /\ s + 1 <= 6 /\ (s < 4 => s + 1 <= 4)
  OBVIOUS
<1> QED
  BY <1>1, <1>2, <1>3, <1>4

(* The four things that happen to a stream.  Its writer begins a call ...   *)
LEMMA Begun ==
  ASSUME NEW w, NEW l, NEW O, NEW p, NEW q, NEW b \in Nat, NEW cp \in Nat, NEW cq \in Nat,
         cp <= cq, cq <= cp + 1, Aligned(l, p, q, b, cp, cq, 6), Extends(w, l, O),
         Brings(O, p, q, cp + 1, 1, 1..3), Len(O) = Before(p, q, cp + 1, 4)
  PROVE  Aligned(w, p, q, b, cp + 1, cq, 4)
<1>1. PICK n : n = cp + 1
  OBVIOUS
<1>2. n \in Nat /\ Brings(O, p, q, n, 1, 1..3) /\ Len(O) = Before(p, q, n, 4) /\ (cq = cp \/ cq = n)
  BY <1>1
<1>3. Len(w) = Len(l) + Before(p, q, n, 4) /\ Len(l) \in Nat
  BY <1>2 DEF Extends
<1>4. Holds(w, p, q, Len(l), n, n, 4)
  <2>1. Len(l) = Len(l) + Before(p, q, n, 1) /\ 1 \in 1..6
    <3>1. Before(p, q, n, 1) = 0
      BY Within
    <3> QED
      BY <1>3, <3>1
  <2>2. \A s \in 1..3 : Has(p, q, n, s) => RightMsg(MsgAt(w, p, q, Len(l), n, s), p, q, n, s)
    BY <1>2, <1>3, <2>1, Sends
  <2>3. \A s \in 1..5 : s < 4 => s \in 1..3
    OBVIOUS
  <2> QED
    BY <2>2, <2>3 DEF Holds
<1>5. CASE cq = cp
  <2>1. Len(l) = b + Before(p, q, cq, 6) /\ Holds(l, p, q, b, cq, cq, 6)
    BY <1>5 DEF Aligned
  <2>2. Holds(w, p, q, b, cq, n, 4)
    <3>1. SUFFICES ASSUME NEW s \in 1..5, cq # 0, Has(p, q, cq, s)
                   PROVE  RightMsg(MsgAt(w, p, q, b, cq, s), p, q, cq, s)
      BY DEF Holds
    <3>2. RightMsg(MsgAt(l, p, q, b, cq, s), p, q, cq, s)
      BY <2>1, <3>1, SMTT(30) DEF Holds
    <3>3. b + Before(p, q, cq, s + 1) <= Len(l)
      <4>1. /\ Before(p, q, cq, s + 1) <= Before(p, q, cq, 6) /\ Before(p, q, cq, s + 1) \in Nat
            /\ Before(p, q, cq, 6) \in Nat
        BY Within
      <4> QED
        BY <2>1, <4>1
    <3>4. MsgAt(w, p, q, b, cq, s) = MsgAt(l, p, q, b, cq, s)
      BY <3>1, <3>3, Stays
    <3> QED
      BY <3>2, <3>4
  <2>3. n = cq + 1 /\ ~(n + 1 = cq) /\ n # cq
    BY <1>1, <1>5
  <2>4. Len(w) = b + Before(p, q, cq, 6) + Before(p, q, n, 4) /\ b >= 0
    BY <1>3, <2>1
  <2>5. Holds(w, p, q, b + Before(p, q, cq, 6), n, n, 4)
    BY <1>4, <2>1
  <2>6. Aligned(w, p, q, b, n, cq, 4)
    BY <2>2, <2>3, <2>4, <2>5 DEF Aligned
  <2> QED
    BY <1>1, <2>6
<1>6. CASE cq = n
  <2>1. Len(l) = b /\ b >= 0
    BY <1>1, <1>6 DEF Aligned
  <2>2. Len(w) = b + Before(p, q, n, 4) /\ Holds(w, p, q, b, n, n, 4)
    BY <1>3, <1>4, <2>1
  <2>3. ~(n = n + 1) /\ ~(n + 1 = n)
    BY <1>2
  <2>4. Aligned(w, p, q, b, n, n, 4)
    BY <2>1, <2>2, <2>3 DEF Aligned
  <2> QED
    BY <1>1, <1>6, <2>4
<1> QED
  BY <1>2, <1>5, <1>6

(* ... or has the sums of its call ...                                     *)
LEMMA Summed ==
  ASSUME NEW w, NEW l, NEW O, NEW p, NEW q, NEW b \in Nat, NEW cp \in Nat, NEW cq \in Nat,
         cp <= cq + 1, cq <= cp + 1, Aligned(l, p, q, b, cp, cq, 4), Extends(w, l, O),
         Brings(O, p, q, cp, 4, {4, 5}), Len(O) = Before(p, q, cp, 6) - Before(p, q, cp, 4)
  PROVE  Aligned(w, p, q, b, cp, cq, 6)
<1>1. /\ Before(p, q, cp, 4) \in Nat /\ Before(p, q, cp, 6) \in Nat /\ Before(p, q, cq, 6) \in Nat
      /\ Before(p, q, cp, 4) <= Before(p, q, cp, 6)
  BY Within
<1>2. Len(w) = Len(l) + Before(p, q, cp, 6) - Before(p, q, cp, 4) /\ Len(l) \in Nat
  BY <1>1 DEF Extends
<1>3. ASSUME NEW d \in Nat, Len(l) = d + Before(p, q, cp, 4), Holds(l, p, q, d, cp, cp, 4)
      PROVE  Holds(w, p, q, d, cp, cp, 6)
  <2>1. SUFFICES ASSUME NEW s \in 1..5, cp # 0, Has(p, q, cp, s)
                 PROVE  RightMsg(MsgAt(w, p, q, d, cp, s), p, q, cp, s)
    BY DEF Holds
  <2>2. CASE s < 4
    <3>1. RightMsg(MsgAt(l, p, q, d, cp, s), p, q, cp, s)
      BY <1>3, <2>1, <2>2 DEF Holds
    <3>2. /\ Before(p, q, cp, s + 1) <= Before(p, q, cp, 4) /\ Before(p, q, cp, s + 1) \in Nat
          /\ Before(p, q, cp, 4) \in Nat
      BY <2>2, Within
    <3>3. d + Before(p, q, cp, s + 1) <= Len(l)
      BY <1>3, <3>2
    <3>4. MsgAt(w, p, q, d, cp, s) = MsgAt(l, p, q, d, cp, s)
      BY <2>1, <3>3, Stays
    <3> QED
      BY <3>1, <3>4
  <2>3. CASE s >= 4
    <3>1. \A t \in {4, 5} : Has(p, q, cp, t) => RightMsg(MsgAt(w, p, q, d, cp, t), p, q, cp, t)
      <4>1. 4 \in 1..6
        OBVIOUS
      <4> QED
        BY <1>3, <4>1, Sends
    <3>2. s \in {4, 5}
      BY <2>3
    <3> QED
      BY <2>1, <3>1, <3>2
  <2> QED
    BY <2>2, <2>3
<1>4. CASE cp = cq
  <2>1. Len(l) = b + Before(p, q, cp, 4) /\ Holds(l, p, q, b, cp, cp, 4)
    BY <1>4 DEF Aligned
  <2>2. Holds(w, p, q, b, cp, cp, 6)
    BY <1>3, <2>1
  <2> QED
    BY <1>1, <1>2, <1>4, <2>1, <2>2 DEF Aligned
<1>5. CASE cp = cq + 1
  <2>1. PICK d : d = b + Before(p, q, cq, 6) /\ d \in Nat
    BY <1>1
  <2>2. Len(l) = d + Before(p, q, cp, 4) /\ Holds(l, p, q, d, cp, cp, 4) /\ Holds(l, p, q, b, cq, cp, 4)
    BY <1>5, <2>1 DEF Aligned
  <2>3. Holds(w, p, q, d, cp, cp, 6)
    BY <1>3, <2>1, <2>2
  <2>4. Holds(w, p, q, b, cq, cp, 6)
    <3>1. SUFFICES ASSUME NEW s \in 1..5, cq # 0, Has(p, q, cq, s)
                   PROVE  RightMsg(MsgAt(w, p, q, b, cq, s), p, q, cq, s)
      BY DEF Holds
    <3>2. RightMsg(MsgAt(l, p, q, b, cq, s), p, q, cq, s)
      BY <1>5, <2>2, <3>1 DEF Holds
    <3>4. b + Before(p, q, cq, s + 1) <= Len(l)
      <4>1. /\ Before(p, q, cq, s + 1) <= Before(p, q, cq, 6) /\ Before(p, q, cq, s + 1) \in Nat
            /\ Before(p, q, cq, 6) \in Nat
        BY Within
      <4>2. Before(p, q, cp, 4) \in Nat
        BY Within
      <4> QED
        BY <2>1, <2>2, <4>1, <4>2, SMTT(30)
    <3>5. MsgAt(w, p, q, b, cq, s) = MsgAt(l, p, q, b, cq, s)
      BY <3>1, <3>4, Stays
    <3> QED
      BY <3>2, <3>5
  <2>5. Len(w) = d + Before(p, q, cp, 6)
    BY <1>1, <1>2, <2>1, <2>2, SMTT(30)
  <2> QED
    BY <1>5, <2>1, <2>3, <2>4, <2>5 DEF Aligned
<1>6. CASE cp + 1 = cq
  <2>1. Len(l) = b /\ Before(p, q, cp, 4) = Before(p, q, cp, 6)
    BY <1>6 DEF Aligned
  <2>2. Len(w) = b
    BY <1>1, <1>2, <2>1
  <2> QED
    BY <1>6, <2>2 DEF Aligned
<1> QED
  BY <1>4, <1>5, <1>6

(* ... or returns without any ...                                          *)
LEMMA NoSums ==
  ASSUME NEW w, NEW p, NEW q, NEW b, NEW cp \in Nat, NEW cq \in Nat, Plan[cp].mode # "pking",
         Aligned(w, p, q, b, cp, cq, 4)
  PROVE  Aligned(w, p, q, b, cp, cq, 6)
<1>1. Before(p, q, cp, 4) = Before(p, q, cp, 6)
  <2>1. Bit(p, q, cp, 4) = 0 /\ Bit(p, q, cp, 5) = 0
    BY DEF Bit, Has
  <2> QED
    BY <2>1, BeforeFacts
<1>2. ASSUME NEW d, NEW n, Holds(w, p, q, d, n, cp, 4) PROVE Holds(w, p, q, d, n, cp, 6)
  <2>1. \A s \in 1..5 : cp = n /\ Has(p, q, n, s) => s < 4
    BY DEF Has
  <2> QED
    BY <1>2, <2>1 DEF Holds
<1> QED
  BY <1>1, <1>2 DEF Aligned

(* ... or its reader goes on to the next call.                             *)
LEMMA Goes ==
  ASSUME NEW w, NEW p, NEW q, NEW b \in Nat, NEW cp \in Nat, NEW cq \in Nat, NEW upto \in {4, 6},
         cq <= cp, cp <= cq + 1, Aligned(w, p, q, b, cp, cq, upto),
         b + Before(p, q, cq, 6) <= Len(w)
  PROVE  Aligned(w, p, q, b + Before(p, q, cq, 6), cp, cq + 1, upto)
<1>1. /\ Before(p, q, cq, 6) \in Nat /\ Before(p, q, cp, 6) \in Nat
      /\ Before(p, q, cp, upto) \in Nat /\ Before(p, q, cp, upto) <= Before(p, q, cp, 6)
  <2>1. upto = 4 \/ upto = 6
    OBVIOUS
  <2> QED
    BY <2>1, Within, SMTT(30)
<1>2. PICK d : d = b + Before(p, q, cq, 6) /\ d \in Nat
  BY <1>1
<1>3. CASE cp = cq
  <2>1. Len(w) = b + Before(p, q, cp, upto)
    BY <1>3 DEF Aligned
  <2>2. b + Before(p, q, cp, 6) <= Len(w)
    BY <1>3
  <2>3. Len(w) = d /\ Before(p, q, cp, upto) = Before(p, q, cp, 6)
    BY <1>1, <1>2, <1>3, <2>1, <2>2
  <2> QED
    BY <1>2, <1>3, <2>3 DEF Aligned
<1>4. CASE cp = cq + 1
  <2>1. Len(w) = d + Before(p, q, cp, upto) /\ Holds(w, p, q, d, cp, cp, upto)
    BY <1>2, <1>4 DEF Aligned
  <2> QED
    BY <1>2, <1>4, <2>1 DEF Aligned
<1> QED
  BY <1>3, <1>4

-----------------------------------------------------------------------------
(* A call begins: for its own streams ...                                  *)
LEMMA StartSender ==
  ASSUME FlowInv, NEW p \in Parties, Start(p), NEW q \in Parties, p # q
  PROVE  QueueInv(p, q)'
<1>1. PICK w, l, b, cp, cq : w = log'[p][q] /\ l = log[p][q] /\ b = Base(p, q) /\ cp = call[p] /\ cq = call[q]
  OBVIOUS
<1>2. /\ read' = read /\ call' = [call EXCEPT ![p] = call[p] + 1]
      /\ pc[p] = "idle" /\ pc' = [pc EXCEPT ![p] = "shares"] /\ k' = [k EXCEPT ![p] = 1]
  BY StartSends
<1>3. PICK O : Brings(O, p, q, cp + 1, 1, 1..3) /\ Len(O) = Before(p, q, cp + 1, 4) /\ Extends(w, l, O)
  BY <1>1, StartSends
<1>4. FlowType /\ NetType /\ QueueInv(p, q)
  BY DEF FlowInv
<1>5. cp \in Nat /\ cq \in Nat /\ b \in Nat
  <2>1. call[p] \in Nat /\ call[q] \in Nat /\ Base(p, q) \in Int
    BY <1>4, Counts
  <2>2. Base(p, q) >= 0
    BY <1>4 DEF QueueInv, Aligned
  <2> QED
    BY <1>1, <2>1, <2>2
<1>6. cp <= cq /\ cq <= cp + 1
  BY <1>1, <1>2 DEF FlowInv, BarrierInv, Stages
<1>7. Aligned(l, p, q, b, cp, cq, 6)
  BY <1>1, <1>2, <1>4 DEF QueueInv, SentUpTo
<1>8. Aligned(w, p, q, b, cp + 1, cq, 4)
  BY <1>3, <1>5, <1>6, <1>7, Begun
<1>9. /\ call'[p] = cp + 1 /\ call'[q] = cq /\ SentUpTo(p)' = 4 /\ Base(p, q)' = b
  BY <1>1, <1>2, <1>4 DEF Base, ReadCount, FlowType, SentUpTo
<1> QED
  BY <1>1, <1>8, <1>9 DEF QueueInv

(* ... and for those it will read.                                         *)
LEMMA StartReader ==
  ASSUME FlowInv, NEW p \in Parties, Start(p), NEW a \in Parties, p # a
  PROVE  QueueInv(a, p)'
<1>1. PICK w, b, ca, cp, u : /\ w = log[a][p] /\ b = Base(a, p) /\ ca = call[a] /\ cp = call[p]
                             /\ u = SentUpTo(a)
  OBVIOUS
<1>2. /\ read' = read /\ call' = [call EXCEPT ![p] = call[p] + 1] /\ call[p] + 1 \in DOMAIN Plan
      /\ pc[p] = "idle" /\ pc' = [pc EXCEPT ![p] = "shares"] /\ k' = [k EXCEPT ![p] = 1]
      /\ log'[a][p] = log[a][p]
  BY StartSends
<1>3. FlowType /\ NetType /\ QueueInv(a, p)
  BY DEF FlowInv
<1>4. /\ cp \in Nat /\ ca \in Nat /\ b \in Nat /\ u \in {4, 6}
      /\ read[a][p] = b + Before(a, p, cp, 6) /\ b + Before(a, p, cp, 6) <= Len(w)
  <2>1. /\ call[p] \in Nat /\ call[a] \in Nat /\ Base(a, p) \in Int
        /\ read[a][p] = Base(a, p) + ReadCount(a, p) /\ read[a][p] <= Len(log[a][p])
    BY <1>3, Counts
  <2>2. Base(a, p) >= 0
    BY <1>3 DEF QueueInv, Aligned
  <2>3. ReadCount(a, p) = Before(a, p, call[p], 6)
    BY <1>2, <1>3, AtRest DEF Stages
  <2> QED
    BY <1>1, <2>1, <2>2, <2>3 DEF SentUpTo
<1>5. cp <= ca /\ ca <= cp + 1
  BY <1>1, <1>2 DEF FlowInv, BarrierInv, Stages
<1>6. Aligned(w, a, p, b, ca, cp, u)
  BY <1>1, <1>3 DEF QueueInv
<1>7. Aligned(w, a, p, b + Before(a, p, cp, 6), ca, cp + 1, u)
  BY <1>4, <1>5, <1>6, Goes
<1>8. call'[p] = cp + 1 /\ call'[a] = ca /\ SentUpTo(a)' = u /\ log'[a][p] = w
  BY <1>1, <1>2, <1>3 DEF FlowType, SentUpTo
<1>9. Base(a, p)' = b + Before(a, p, cp, 6)
  <2>1. GotOf("shares", 1, p, a, cp + 1) = 0
    <3>1. PICK n, m : n = cp + 1 /\ m = 1 /\ n \in DOMAIN Plan /\ a \in Parties \ {p} /\ m \in Nat
      BY <1>1, <1>2
    <3>2. GotOf("shares", 1, p, a, n) = 0
      BY <3>1, GotFacts
    <3> QED
      BY <3>1, <3>2
  <2>2. pc'[p] = "shares" /\ k'[p] = 1 /\ read'[a][p] = read[a][p]
    BY <1>2, <1>3 DEF FlowType
  <2>3. ReadCount(a, p)' = 0
    BY <1>8, <2>1, <2>2 DEF ReadCount
  <2>4. read[a][p] \in Nat
    BY <1>3, Counts
  <2> QED
    BY <1>4, <2>2, <2>3, <2>4 DEF Base
<1> QED
  BY <1>7, <1>8, <1>9 DEF QueueInv

(* Start keeps the invariant.                                              *)
LEMMA StartFlow ==
  ASSUME FlowInv, NEW p \in Parties, Start(p)
  PROVE  FlowInv'
<1>1. /\ read' = read /\ call' = [call EXCEPT ![p] = call[p] + 1] /\ call[p] + 1 \in DOMAIN Plan
      /\ pc[p] = "idle" /\ pc' = [pc EXCEPT ![p] = "shares"] /\ k' = [k EXCEPT ![p] = 1]
      /\ NetType' /\ \A a, q \in Parties : a # p => log'[a][q] = log[a][q]
  BY StartSends
<1>2. FlowType /\ NetType /\ BarrierInv /\ DOMAIN Plan = 1..Len(Plan) /\ Len(Plan) \in Nat
  BY ReconstructAssumption DEF FlowInv
<1>3. FlowType'
  <2>1. pc' \in [Parties -> Stages \cup {"idle", "aborted"}] /\ k' \in [Parties -> Nat \ {0}]
    BY <1>1, <1>2 DEF FlowType, Stages
  <2>2. call' \in [Parties -> 0..Len(Plan)] /\ call'[p] # 0
    BY <1>1, <1>2 DEF FlowType
  <2>3. \A a \in Parties : pc'[a] \in Stages => call'[a] # 0
    BY <1>1, <1>2, <2>2 DEF FlowType
  <2>4. \A a \in Parties : pc'[a] = "sums" => Cur(a)'.mode = "pking"
    BY <1>1, <1>2 DEF FlowType, Cur
  <2> QED
    BY <2>1, <2>2, <2>3, <2>4 DEF FlowType
<1>4. BarrierInv'
  <2>1. \A a \in Parties : call[a] \in Nat /\ call[p] <= call[a] /\ call[a] <= call[p] + 1
    BY <1>1, <1>2, SMTT(30) DEF BarrierInv, Stages, FlowType
  <2>2. /\ \A a \in Parties : a # p => call'[a] = call[a] /\ pc'[a] = pc[a]
        /\ call'[p] = call[p] + 1 /\ pc'[p] \in Stages
    BY <1>1, <1>2 DEF FlowType, Stages
  <2>3. ASSUME NEW a \in Parties, NEW q \in Parties
        PROVE  call'[a] <= call'[q] + 1 /\ (pc'[a] \notin Stages => call'[a] <= call'[q])
    <3>1. CASE a = p
      BY <2>1, <2>2, <3>1
    <3>2. CASE a # p /\ q = p
      BY <2>1, <2>2, <3>2
    <3>3. CASE a # p /\ q # p
      BY <1>2, <2>2, <3>3 DEF BarrierInv
    <3> QED
      BY <3>1, <3>2, <3>3
  <2> QED
    BY <2>3 DEF BarrierInv
<1>5. ASSUME NEW a \in Parties, NEW q \in Parties, a # q PROVE QueueInv(a, q)'
  <2>1. CASE a = p
    BY <1>5, <2>1, StartSender
  <2>2. CASE q = p
    BY <1>5, <2>2, StartReader
  <2>3. CASE a # p /\ q # p
    <3>1. QueueInv(a, q)
      BY <1>5 DEF FlowInv
    <3>2. SameSender(a, q)
      BY <1>1, <1>2, <2>3 DEF SameSender, SentUpTo, FlowType
    <3>3. SameReader(a, q)
      BY <1>1, <1>2, <2>3 DEF SameReader, Base, ReadCount, FlowType
    <3> QED
      BY <3>1, <3>2, <3>3, SameQueue
  <2> QED
    BY <2>1, <2>2, <2>3
<1> QED
  BY <1>1, <1>3, <1>4, <1>5 DEF FlowInv

-----------------------------------------------------------------------------
(* What a party is about to read.                                          *)
LEMMA ReadFacts ==
  ASSUME FlowInv, NEW p \in Parties, Reading(p), NEW r, r = Reads(p)[k[p]]
  PROVE  /\ call[p] \in DOMAIN Plan /\ pc[p] \in Stages
         /\ k[p] \in 1..Len(ListOf(pc[p], p, call[p])) /\ r = ListOf(pc[p], p, call[p])[k[p]]
         /\ pc[p] = "sums" => Plan[call[p]].mode = "pking"
<1>1. FlowType /\ NetType
  BY DEF FlowInv
<1>2. pc[p] \in Stages /\ k[p] <= Len(Reads(p))
  BY DEF Reading, Stages
<1>3. call[p] \in DOMAIN Plan /\ k[p] \in Nat /\ k[p] >= 1
  BY <1>1, <1>2, Counts DEF FlowType
<1>4. Reads(p) = ListOf(pc[p], p, call[p])
  BY DEF Reads, ListOf
<1>5. Len(ListOf(pc[p], p, call[p])) \in Nat
  <2>1. PICK st, n : st = pc[p] /\ n = call[p]
    OBVIOUS
  <2>2. st = "sums" => Plan[n].mode = "pking"
    BY <1>1, <2>1 DEF FlowType, Cur
  <2>3. IsSeq(ListOf(st, p, n))
    BY <1>3, <2>1, <2>2, FirstOK, SumOK DEF ListOf, ListOK
  <2> QED
    BY <2>1, <2>3 DEF IsSeq
<1> QED
  BY <1>1, <1>2, <1>3, <1>4, <1>5 DEF FlowType, Cur

(* A read is of no bytes when there is no message for it.                  *)
LEMMA EmptyFacts ==
  ASSUME NEW a, NEW q, NEW n \in DOMAIN Plan, NEW s \in 1..5, NEW r, r = ReadAt(a, q, n, s),
         s \in {4, 5} => Plan[n].mode = "pking",
         s # 2 /\ s # 4 => Has(a, q, n, s)
  PROVE  r.kind \in {"share", "sum"} /\ (\A b \in r.blocks : ~HasValues(Plan[n], b)) <=> ~Has(a, q, n, s)
<1>1. Plan[n].mode \in {"pking", "broadcast", "accept"} /\ nP \in Blocks
  BY PlanFacts, ReconstructAssumption DEF Blocks
<1>2. HasValues(Plan[n], nP)
  BY DEF HasValues
<1>3. CASE s = 2 /\ Plan[n].mode = "pking"
  BY <1>3 DEF ReadAt, Share, Read, Has
<1>4. CASE s = 2 /\ Plan[n].mode = "broadcast"
  BY <1>1, <1>2, <1>4 DEF ReadAt, Share, Read, Has
<1>5. CASE s = 2 /\ Plan[n].mode = "accept"
  BY <1>5 DEF ReadAt, Share, Read, Has
<1>6. CASE s = 4
  <2>1. r.kind = "sum" /\ r.blocks = {a}
    BY <1>6 DEF ReadAt, Read
  <2>2. Has(a, q, n, s) <=> HasValues(Plan[n], a)
    BY <1>6 DEF Has
  <2> QED
    BY <2>1, <2>2
<1>7. CASE s = 1 \/ s = 3 \/ s = 5
  <2>1. r.kind \notin {"share", "sum"}
    BY <1>7 DEF ReadAt, Read
  <2> QED
    BY <1>7, <2>1
<1> QED
  BY <1>1, <1>3, <1>4, <1>5, <1>6, <1>7

(* A read takes one message, or none if there is none for it.               *)
LEMMA TakeFacts ==
  ASSUME FlowInv, NEW p \in Parties, Take(p), NEW r, r = Reads(p)[k[p]]
  PROVE  /\ r.from \in Parties \ {p}
         /\ UNCHANGED <<pc, call, log, flushed>> /\ k' = [k EXCEPT ![p] = k[p] + 1]
         /\ IF Has(r.from, p, call[p], Slot(r))
            THEN /\ read' = [read EXCEPT ![r.from][p] = read[r.from][p] + 1]
                 /\ read[r.from][p] < flushed[r.from][p]
            ELSE read' = read
<1>1. PICK n, st, m : n = call[p] /\ st = pc[p] /\ m = k[p]
  OBVIOUS
<1>2. /\ n \in DOMAIN Plan /\ st \in Stages /\ m \in 1..Len(ListOf(st, p, n))
      /\ r = ListOf(st, p, n)[m] /\ (st = "sums" => Plan[n].mode = "pking")
  <2>1. Reading(p)
    BY DEF Take
  <2> QED
    BY <1>1, <2>1, ReadFacts
<1>3. /\ r.from \in Parties \ {p} /\ Slot(r) \in 1..5 /\ r = ReadAt(r.from, p, n, Slot(r))
      /\ Slot(r) \in 1..3 <=> st = "shares"
      /\ Slot(r) # 2 /\ Slot(r) # 4 => Has(r.from, p, n, Slot(r))
  BY <1>2, StepFacts DEF Stages
<1>4. (r.kind \in {"share", "sum"} /\ \A b \in r.blocks : ~HasValues(Plan[n], b))
        <=> ~Has(r.from, p, n, Slot(r))
  <2>1. Slot(r) \in {4, 5} => Plan[n].mode = "pking"
    BY <1>2, <1>3 DEF Stages
  <2> QED
    BY <1>2, <1>3, <2>1, EmptyFacts
<1>5. UNCHANGED <<pc, call, log, flushed>> /\ k' = [k EXCEPT ![p] = k[p] + 1]
  BY DEF Take, Consume, netVars
<1>6. CASE Has(r.from, p, n, Slot(r))
  <2>1. Arrived(p, r.from) /\ Consume(p, r.from)
    BY <1>1, <1>4, <1>6 DEF Take, Cur
  <2> QED
    BY <1>1, <1>3, <1>5, <1>6, <2>1 DEF Arrived, Consume
<1>7. CASE ~Has(r.from, p, n, Slot(r))
  <2>1. read' = read
    BY <1>1, <1>4, <1>7 DEF Take, Cur, netVars
  <2> QED
    BY <1>1, <1>3, <1>5, <1>7, <2>1
<1> QED
  BY <1>6, <1>7

(* Take keeps the invariant.                                               *)
LEMMA TakeFlow ==
  ASSUME FlowInv, NEW p \in Parties, Take(p)
  PROVE  FlowInv'
<1>1. PICK r, n, st, m : r = Reads(p)[k[p]] /\ n = call[p] /\ st = pc[p] /\ m = k[p]
  OBVIOUS
<1>2. /\ r.from \in Parties \ {p}
      /\ UNCHANGED <<pc, call, log, flushed>> /\ k' = [k EXCEPT ![p] = m + 1]
      /\ Has(r.from, p, n, Slot(r)) => /\ read' = [read EXCEPT ![r.from][p] = read[r.from][p] + 1]
                                       /\ read[r.from][p] < flushed[r.from][p]
      /\ ~Has(r.from, p, n, Slot(r)) => read' = read
  BY <1>1, TakeFacts
<1>3. /\ n \in DOMAIN Plan /\ st \in Stages /\ m \in 1..Len(ListOf(st, p, n))
      /\ r = ListOf(st, p, n)[m] /\ (st = "sums" => Plan[n].mode = "pking")
  <2>1. Reading(p)
    BY DEF Take
  <2> QED
    BY <1>1, <2>1, ReadFacts
<1>4. FlowType /\ NetType /\ BarrierInv
  BY DEF FlowInv
<1>5. /\ GotOf(st, m + 1, p, r.from, n) = GotOf(st, m, p, r.from, n) + Bit(r.from, p, n, Slot(r))
      /\ \A a : a # r.from => GotOf(st, m + 1, p, a, n) = GotOf(st, m, p, a, n)
  BY <1>3, StepFacts DEF Stages
<1>6. Bit(r.from, p, n, Slot(r)) = IF Has(r.from, p, n, Slot(r)) THEN 1 ELSE 0
  <2>1. n # 0
    BY <1>3, ReconstructAssumption
  <2> QED
    BY <2>1 DEF Bit
<1>7. NetType'
  <2>1. CASE Has(r.from, p, n, Slot(r))
    <3>1. /\ read[r.from][p] \in Nat /\ flushed[r.from][p] \in Nat
          /\ read' = [read EXCEPT ![r.from][p] = read[r.from][p] + 1]
          /\ read[r.from][p] + 1 <= flushed[r.from][p]
      BY <1>2, <1>4, <2>1, SMTT(30) DEF NetType
    <3>2. read' \in [Parties -> [Parties -> Nat]]
      BY <1>2, <1>4, <3>1, SMTT(30) DEF NetType
    <3>3. \A a, q \in Parties : read'[a][q] <= flushed[a][q]
      BY <1>2, <1>4, <3>1 DEF NetType
    <3> QED
      BY <1>2, <1>4, <3>2, <3>3 DEF NetType
  <2>2. CASE ~Has(r.from, p, n, Slot(r))
    BY <1>2, <1>4, <2>2 DEF NetType
  <2> QED
    BY <2>1, <2>2
<1>8. FlowType' /\ BarrierInv'
  <2>1. k' \in [Parties -> Nat \ {0}]
    <3>1. m \in Nat
      BY <1>1, <1>4 DEF FlowType
    <3> QED
      BY <1>2, <1>4, <3>1 DEF FlowType
  <2> QED
    BY <1>2, <1>4, <2>1 DEF FlowType, BarrierInv, Cur
<1>9. \A a \in Parties \ {p} : Base(a, p)' = Base(a, p)
  <2>1. TAKE a \in Parties \ {p}
  <2>2. ReadCount(a, p) = GotOf(st, m, p, a, n) /\ ReadCount(a, p)' = GotOf(st, m + 1, p, a, n)
    BY <1>1, <1>2, <1>4 DEF ReadCount, FlowType
  <2>3. read[a][p] \in Nat /\ ReadCount(a, p) \in Nat
    BY <1>4, Counts
  <2>4. CASE a = r.from
    <3>1. read'[a][p] = read[a][p] + Bit(a, p, n, Slot(r))
      BY <1>2, <1>4, <1>6, <2>3, <2>4, SMTT(30) DEF NetType
    <3>2. Bit(a, p, n, Slot(r)) \in {0, 1}
      BY BeforeFacts
    <3>3. ReadCount(a, p)' = ReadCount(a, p) + Bit(a, p, n, Slot(r))
      BY <1>5, <2>2, <2>4
    <3> QED
      BY <2>3, <3>1, <3>2, <3>3 DEF Base
  <2>5. CASE a # r.from
    <3>1. read'[a][p] = read[a][p]
      BY <1>2, <1>4, <2>5 DEF NetType
    <3> QED
      BY <1>5, <2>2, <2>5, <3>1 DEF Base
  <2> QED
    BY <2>4, <2>5
<1>10. ASSUME NEW a \in Parties, NEW q \in Parties, a # q PROVE QueueInv(a, q)'
  <2>1. QueueInv(a, q)
    BY <1>10 DEF FlowInv
  <2>2. SameSender(a, q)
    BY <1>2 DEF SameSender, SentUpTo
  <2>3. SameReader(a, q)
    <3>1. CASE q = p
      BY <1>2, <1>9, <1>10, <3>1 DEF SameReader
    <3>2. CASE q # p
      <4>1. read'[a][q] = read[a][q]
        <5>1. CASE Has(r.from, p, n, Slot(r))
          <6>1. /\ read' = [read EXCEPT ![r.from][p] = read[r.from][p] + 1]
                /\ read \in [Parties -> [Parties -> Nat]] /\ r.from \in Parties
            BY <1>2, <1>4, <5>1 DEF NetType
          <6> QED
            BY <3>2, <6>1
        <5>2. CASE ~Has(r.from, p, n, Slot(r))
          BY <1>2, <5>2
        <5> QED
          BY <5>1, <5>2
      <4>2. k'[q] = k[q]
        BY <1>2, <1>4, <3>2 DEF FlowType
      <4> QED
        BY <1>2, <4>1, <4>2 DEF SameReader, Base, ReadCount
    <3> QED
      BY <3>1, <3>2
  <2> QED
    BY <2>1, <2>2, <2>3, SameQueue
<1> QED
  BY <1>7, <1>8, <1>10 DEF FlowInv

(* Flushing before a read keeps the invariant.                             *)
LEMMA RecvFlushFlow ==
  ASSUME FlowInv, NEW p \in Parties, RecvFlush(p)
  PROVE  FlowInv'
<1>1. PICK x : x = Reads(p)[k[p]].from
  OBVIOUS
<1>2. /\ UNCHANGED <<pc, k, call, log, read>>
      /\ flushed' = [flushed EXCEPT ![p][x] = Len(log[p][x])]
  BY <1>1 DEF RecvFlush, FlushTo
<1>3. FlowType /\ NetType /\ BarrierInv
  BY DEF FlowInv
<1>4. NetType'
  <2>1. \A a, q \in Parties : /\ Len(log[a][q]) \in Nat /\ read[a][q] <= flushed[a][q]
                              /\ flushed[a][q] <= Len(log[a][q]) /\ read[a][q] \in Nat /\ flushed[a][q] \in Nat
    BY <1>3 DEF NetType, IsSeq
  <2>2. x \in Parties \ {p}
    <3>1. Reading(p)
      BY DEF RecvFlush
    <3>2. PICK r, n, st, m : r = Reads(p)[k[p]] /\ n = call[p] /\ st = pc[p] /\ m = k[p]
      OBVIOUS
    <3>3. /\ n \in DOMAIN Plan /\ st \in Stages /\ m \in 1..Len(ListOf(st, p, n))
          /\ r = ListOf(st, p, n)[m] /\ (st = "sums" => Plan[n].mode = "pking")
      BY <3>1, <3>2, ReadFacts
    <3>4. r.from \in Parties \ {p}
      BY <3>3, StepFacts DEF Stages
    <3> QED
      BY <1>1, <3>2, <3>4
  <2>3. flushed' \in [Parties -> [Parties -> Nat]]
    BY <1>2, <1>3, <2>1, <2>2 DEF NetType
  <2>4. ASSUME NEW a \in Parties, NEW q \in Parties
        PROVE  read[a][q] <= flushed'[a][q] /\ flushed'[a][q] <= Len(log[a][q])
    <3>1. CASE a = p /\ q = x
      <4>1. flushed'[a][q] = Len(log[a][q])
        BY <1>2, <1>3, <3>1 DEF NetType
      <4>2. PICK y, z, f : y = Len(log[a][q]) /\ z = read[a][q] /\ f = flushed[a][q]
        OBVIOUS
      <4>3. y \in Nat /\ z \in Nat /\ f \in Nat /\ z <= f /\ f <= y
        BY <2>1, <4>2
      <4>4. z <= y /\ y <= y
        BY <4>3
      <4> QED
        BY <4>1, <4>2, <4>4
    <3>2. CASE ~(a = p /\ q = x)
      <4>1. flushed'[a][q] = flushed[a][q]
        BY <1>2, <1>3, <3>2 DEF NetType
      <4> QED
        BY <2>1, <4>1
    <3> QED
      BY <3>1, <3>2
  <2> QED
    BY <1>2, <1>3, <2>3, <2>4 DEF NetType
<1>5. FlowType' /\ BarrierInv'
  BY <1>2, <1>3 DEF FlowType, BarrierInv, Cur
<1>6. ASSUME NEW a \in Parties, NEW q \in Parties, a # q PROVE QueueInv(a, q)'
  <2>1. QueueInv(a, q)
    BY <1>6 DEF FlowInv
  <2>2. SameSender(a, q) /\ SameReader(a, q)
    BY <1>2 DEF SameSender, SameReader, SentUpTo, Base, ReadCount
  <2> QED
    BY <2>1, <2>2, SameQueue
<1> QED
  BY <1>4, <1>5, <1>6 DEF FlowInv

-----------------------------------------------------------------------------
(* How much a party has read that is at the end of a stage.                *)
LEMMA StageEnds ==
  ASSUME FlowInv, NEW p \in Parties, pc[p] \in Stages, k[p] > Len(Reads(p)), NEW a \in Parties, a # p
  PROVE  /\ call[p] \in DOMAIN Plan
         /\ pc[p] = "shares" => ReadCount(a, p) = Before(a, p, call[p], 4)
         /\ pc[p] = "sums" => ReadCount(a, p) = Before(a, p, call[p], 6)
<1>1. FlowType /\ NetType
  BY DEF FlowInv
<1>2. PICK st, m, n : st = pc[p] /\ m = k[p] /\ n = call[p]
  OBVIOUS
<1>3. n \in DOMAIN Plan /\ m \in Nat /\ a \in Parties \ {p}
  BY <1>1, <1>2, Counts DEF FlowType
<1>4. CASE st = "shares"
  <2>1. m > Len(FirstReads[p][n])
    BY <1>2, <1>4 DEF Reads
  <2>2. GotOf("shares", m, p, a, n) = Before(a, p, n, 4)
    BY <1>3, <2>1, GotFacts
  <2> QED
    BY <1>2, <1>3, <1>4, <2>2 DEF ReadCount
<1>5. CASE st = "sums"
  <2>1. m > Len(SumReads[p][n]) /\ Plan[n].mode = "pking"
    BY <1>1, <1>2, <1>5 DEF Reads, FlowType, Cur
  <2>2. GotOf("sums", m, p, a, n) = Before(a, p, n, 6)
    BY <1>3, <2>1, GotFacts
  <2> QED
    BY <1>2, <1>3, <1>5, <2>2 DEF ReadCount
<1> QED
  BY <1>2, <1>3, <1>4, <1>5 DEF Stages

(* A king sends its sums.                                                  *)
LEMMA DistributeSends ==
  ASSUME FlowInv, NEW p \in Parties, Distribute(p)
  PROVE  /\ call[p] \in DOMAIN Plan /\ Plan[call[p]].mode = "pking" /\ k[p] > Len(Reads(p))
         /\ NetType' /\ read' = read /\ call' = call
         /\ pc[p] = "shares" /\ pc' = [pc EXCEPT ![p] = "sums"] /\ k' = [k EXCEPT ![p] = 1]
         /\ \A a, q \in Parties : a # p \/ q = p => log'[a][q] = log[a][q]
         /\ \A q \in Parties \ {p} : \E O :
              /\ Brings(O, p, q, call[p], 4, {4, 5})
              /\ Len(O) = Before(p, q, call[p], 6) - Before(p, q, call[p], 4)
              /\ Extends(log'[p][q], log[p][q], O)
<1>1. call[p] \in DOMAIN Plan /\ Plan[call[p]].mode = "pking" /\ Cur(p).mode = "pking"
  <2>1. FlowType /\ NetType /\ pc[p] \in Stages
    BY DEF FlowInv, Distribute, Stages
  <2>2. call[p] \in DOMAIN Plan
    BY <2>1, Counts DEF FlowType
  <2> QED
    BY <2>2 DEF Distribute, Cur
<1>2. PICK alter \in Alterations(p), nonce \in BOOLEAN :
        SendAll(p, [q \in Parties \ {p} |-> Sums(p, q, Altered(vals[p], Target(p, nonce), alter[q]))])
  BY <1>1, PlanFacts DEF Distribute, Cur
<1> DEFINE v(q) == Altered(vals[p], Target(p, nonce), alter[q])
           msgs == [q \in Parties \ {p} |-> Sums(p, q, v(q))]
<1>3. \A q \in Parties \ {p} :
        /\ Conveys(msgs[q], p, q, call[p], v(q), 4, {4, 5})
        /\ Len(msgs[q]) = Before(p, q, call[p], 6) - Before(p, q, call[p], 4)
  BY <1>1, SumsFacts
<1>4. SendAll(p, msgs) /\ DOMAIN msgs = Parties \ {p}
  BY <1>2
<1> HIDE DEF msgs, v
<1>5. \A q \in Parties \ {p} : Brings(msgs[q], p, q, call[p], 4, {4, 5})
  <2>1. {4, 5} \in SUBSET (1..5)
    OBVIOUS
  <2> QED
    BY <1>1, <1>3, <2>1, Conveyed
<1>6. \A q \in Parties \ {p} : IsSeq(msgs[q])
  BY <1>3 DEF Conveys
<1>7. /\ NetType' /\ read' = read
      /\ \A q \in Parties \ {p} : Extends(log'[p][q], log[p][q], msgs[q])
      /\ \A a, q \in Parties : a # p \/ q = p => log'[a][q] = log[a][q]
  BY <1>4, <1>6, SendFacts DEF FlowInv
<1>8. /\ call' = call /\ pc[p] = "shares" /\ k[p] > Len(Reads(p))
      /\ pc' = [pc EXCEPT ![p] = "sums"] /\ k' = [k EXCEPT ![p] = 1]
  BY DEF Distribute, Goto
<1> QED
  BY <1>1, <1>3, <1>5, <1>7, <1>8

(* Distribute keeps the invariant.                                         *)
LEMMA DistributeFlow ==
  ASSUME FlowInv, NEW p \in Parties, Distribute(p)
  PROVE  FlowInv'
<1>1. /\ call[p] \in DOMAIN Plan /\ Plan[call[p]].mode = "pking" /\ k[p] > Len(Reads(p))
      /\ NetType' /\ read' = read /\ call' = call
      /\ pc[p] = "shares" /\ pc' = [pc EXCEPT ![p] = "sums"] /\ k' = [k EXCEPT ![p] = 1]
      /\ \A a, q \in Parties : a # p \/ q = p => log'[a][q] = log[a][q]
  BY DistributeSends
<1>2. FlowType /\ NetType /\ BarrierInv
  BY DEF FlowInv
<1>3. FlowType'
  <2>1. pc' \in [Parties -> Stages \cup {"idle", "aborted"}] /\ k' \in [Parties -> Nat \ {0}]
    BY <1>1, <1>2 DEF FlowType, Stages
  <2>2. \A a \in Parties : pc'[a] \in Stages => call'[a] # 0
    BY <1>1, <1>2 DEF FlowType, Stages
  <2>3. \A a \in Parties : pc'[a] = "sums" => Cur(a)'.mode = "pking"
    BY <1>1, <1>2 DEF FlowType, Cur
  <2> QED
    BY <1>1, <1>2, <2>1, <2>2, <2>3 DEF FlowType
<1>4. BarrierInv'
  BY <1>1, <1>2 DEF BarrierInv, FlowType, Stages
<1>5. ASSUME NEW q \in Parties, p # q PROVE QueueInv(p, q)'
  <2>1. PICK w, l, b, cp, cq : /\ w = log'[p][q] /\ l = log[p][q] /\ b = Base(p, q)
                               /\ cp = call[p] /\ cq = call[q]
    OBVIOUS
  <2>2. PICK O : /\ Brings(O, p, q, cp, 4, {4, 5}) /\ Len(O) = Before(p, q, cp, 6) - Before(p, q, cp, 4)
                 /\ Extends(w, l, O)
    BY <1>5, <2>1, DistributeSends
  <2>3. cp \in Nat /\ cq \in Nat /\ b \in Nat
    <3>1. call[p] \in Nat /\ call[q] \in Nat /\ Base(p, q) \in Int
      BY <1>2, Counts
    <3>2. Base(p, q) >= 0
      BY <1>5 DEF FlowInv, QueueInv, Aligned
    <3> QED
      BY <2>1, <3>1, <3>2
  <2>4. cp <= cq + 1 /\ cq <= cp + 1
    BY <1>2, <2>1 DEF BarrierInv
  <2>5. Aligned(l, p, q, b, cp, cq, 4)
    BY <1>1, <1>5, <2>1 DEF FlowInv, QueueInv, SentUpTo
  <2>6. Aligned(w, p, q, b, cp, cq, 6)
    BY <2>2, <2>3, <2>4, <2>5, Summed
  <2>7. call'[p] = cp /\ call'[q] = cq /\ SentUpTo(p)' = 6 /\ Base(p, q)' = b
    BY <1>1, <1>2, <1>5, <2>1 DEF Base, ReadCount, FlowType, SentUpTo
  <2> QED
    BY <2>1, <2>6, <2>7 DEF QueueInv
<1>6. ASSUME NEW a \in Parties, p # a PROVE SameReader(a, p)
  <2>1. ReadCount(a, p) = Before(a, p, call[p], 4)
    BY <1>1, <1>6, StageEnds DEF Stages
  <2>2. GotOf("sums", 1, p, a, call[p]) = Before(a, p, call[p], 4)
    <3>1. PICK n, m : n = call[p] /\ m = 1 /\ n \in DOMAIN Plan /\ a \in Parties \ {p} /\ m \in Nat
      BY <1>1, <1>6
    <3>2. GotOf("sums", 1, p, a, n) = Before(a, p, n, 4)
      BY <3>1, GotFacts
    <3> QED
      BY <3>1, <3>2
  <2>3. pc'[p] = "sums" /\ k'[p] = 1
    BY <1>1, <1>2 DEF FlowType
  <2>4. ReadCount(a, p)' = ReadCount(a, p)
    BY <1>1, <2>1, <2>2, <2>3 DEF ReadCount
  <2> QED
    BY <1>1, <2>4 DEF SameReader, Base
<1>7. ASSUME NEW a \in Parties, NEW q \in Parties, a # q PROVE QueueInv(a, q)'
  <2>1. CASE a = p
    BY <1>5, <1>7, <2>1
  <2>2. CASE a # p
    <3>1. QueueInv(a, q)
      BY <1>7 DEF FlowInv
    <3>2. SameSender(a, q)
      BY <1>1, <1>2, <2>2 DEF SameSender, SentUpTo, FlowType
    <3>3. SameReader(a, q)
      <4>1. CASE q = p
        BY <1>6, <1>7, <4>1
      <4>2. CASE q # p
        BY <1>1, <1>2, <4>2 DEF SameReader, Base, ReadCount, FlowType
      <4> QED
        BY <4>1, <4>2
    <3> QED
      BY <3>1, <3>2, <3>3, SameQueue
  <2> QED
    BY <2>1, <2>2
<1> QED
  BY <1>1, <1>3, <1>4, <1>7 DEF FlowInv

-----------------------------------------------------------------------------
(* Who has read all of a call has heard of everybody in it, of party nP if  *)
(* its own block is empty; and party nP, before it sent its sum, of all.    *)
LEMMA AllBegan ==
  ASSUME FlowInv, NEW p \in Parties, pc[p] \in Stages, k[p] > Len(Reads(p)),
         Plan[call[p]].mode = "pking" => pc[p] = "sums", NEW y \in Parties
  PROVE  call[p] <= call[y]
<1>1. PICK n : n = call[p] /\ n \in DOMAIN Plan /\ n \in Nat /\ n # 0
  BY StageEnds, ReconstructAssumption, Counts DEF FlowInv, FlowType
<1>2. FlowType /\ NetType /\ BarrierInv
  BY DEF FlowInv
<1>3. \A a \in Parties : call[a] \in Nat
  BY <1>2, Counts
<1>4. ASSUME NEW a \in Parties, a # p PROVE ReadCount(a, p) = Before(a, p, n, 6)
  <2>1. CASE pc[p] = "sums"
    BY <1>1, <1>4, <2>1, StageEnds
  <2>2. CASE pc[p] = "shares" /\ Plan[n].mode # "pking"
    <3>1. ReadCount(a, p) = Before(a, p, n, 4)
      BY <1>1, <1>4, <2>2, StageEnds
    <3>2. \A m \in Nat : Before(a, p, n, 4) = Before(a, p, n, 6)
      BY <1>1, <1>4, <2>2, GotFacts
    <3>3. 0 \in Nat
      OBVIOUS
    <3> QED
      BY <3>1, <3>2, <3>3
  <2> QED
    BY <1>1, <2>1, <2>2 DEF Stages
<1>5. ASSUME NEW a, NEW q, NEW s \in 1..5, Has(a, q, n, s)
      PROVE  /\ Before(a, q, n, s + 1) = Before(a, q, n, s) + 1 /\ Before(a, q, n, s) \in Nat
             /\ Before(a, q, n, s + 1) >= 1 /\ Before(a, q, n, 6) >= 1 /\ (s < 4 => Before(a, q, n, 4) >= 1)
  <2>1. Bit(a, q, n, s) = 1
    BY <1>1, <1>5 DEF Bit
  <2>2. Before(a, q, n, s + 1) = Before(a, q, n, s) + 1 /\ Before(a, q, n, s) \in Nat
    BY <2>1, BeforeFacts
  <2>3. /\ Before(a, q, n, s + 1) <= Before(a, q, n, 6) /\ Before(a, q, n, 6) \in Nat
        /\ s < 4 => Before(a, q, n, s + 1) <= Before(a, q, n, 4) /\ Before(a, q, n, 4) \in Nat
    BY Within
  <2>4. Before(a, q, n, s + 1) >= 1
    BY <2>2
  <2> QED
    BY <2>2, <2>3, <2>4
<1>6. CASE y = p
  BY <1>3, <1>6
<1>7. CASE y # p /\ (Plan[n].mode = "pking" => HasValues(Plan[n], p))
  <2>1. Has(y, p, n, 2) /\ 2 \in 1..5
    BY <1>7 DEF Has
  <2>2. Before(y, p, n, 6) >= 1
    BY <1>5, <2>1
  <2>3. ReadCount(y, p) >= 1
    BY <1>4, <1>7, <2>2
  <2> QED
    BY <1>7, <2>3, Heard
<1>8. CASE y # p /\ Plan[n].mode = "pking" /\ ~HasValues(Plan[n], p)
  <2>1. PICK a : a = nP /\ a \in Parties /\ a # p /\ HasValues(Plan[n], a)
    BY <1>8, ReconstructAssumption DEF HasValues, Parties
  <2>2. Has(a, p, n, 4) /\ 4 \in 1..5
    BY <1>8, <2>1 DEF Has
  <2>3. /\ Before(a, p, n, 6) >= 1 /\ Before(a, p, n, 5) = Before(a, p, n, 4) + 1 /\ Before(a, p, n, 4) \in Nat
    <3>1. 4 + 1 = 5
      OBVIOUS
    <3> QED
      BY <1>5, <2>2, <3>1
  <2>4. n <= call[a]
    BY <1>1, <1>4, <2>1, <2>3, Heard
  <2>5. CASE call[a] = n /\ pc[a] \in Stages
    <3>1. pc[a] = "sums"
      <4>1. Len(log[a][p]) = Base(a, p) + Before(a, p, n, SentUpTo(a))
        BY <1>1, <2>1, <2>5 DEF FlowInv, QueueInv, Aligned
      <4>2. /\ read[a][p] = Base(a, p) + ReadCount(a, p) /\ read[a][p] <= Len(log[a][p])
            /\ Base(a, p) \in Int
        BY <1>2, <2>1, Counts
      <4>3. ReadCount(a, p) = Before(a, p, n, 6)
        BY <1>4, <2>1
      <4>4. Before(a, p, n, 5) <= Before(a, p, n, 6) /\ Before(a, p, n, 6) \in Nat
        <5>1. 4 + 1 = 5
          OBVIOUS
        <5> QED
          BY <2>2, <5>1, Within
      <4>5. ASSUME pc[a] = "shares" PROVE FALSE
        <5>1. SentUpTo(a) = 4
          BY <4>5 DEF SentUpTo
        <5>2. PICK b, b4, b5, b6 : /\ b = Base(a, p) /\ b4 = Before(a, p, n, 4)
                                   /\ b5 = Before(a, p, n, 5) /\ b6 = Before(a, p, n, 6)
          OBVIOUS
        <5>3. b + b6 <= b + b4 /\ b5 = b4 + 1 /\ b5 <= b6 /\ b \in Int /\ b4 \in Nat /\ b6 \in Nat
          BY <2>3, <4>1, <4>2, <4>3, <4>4, <5>1, <5>2
        <5> QED
          BY <5>3
      <4> QED
        BY <2>5, <4>5 DEF Stages
    <3>2. CASE y = a
      BY <1>1, <2>5, <3>2
    <3>3. CASE y # a
      <4>1. ReadCount(y, a) >= 1
        <5>1. PICK st, m : st = pc[a] /\ m = k[a] /\ st = "sums" /\ m \in Nat
          BY <1>2, <2>1, <3>1 DEF FlowType
        <5>2. /\ GotBit(st, m, a, y, n, 1) = Bit(y, a, n, 1) /\ GotBit(st, m, a, y, n, 2) = Bit(y, a, n, 2)
              /\ GotBit(st, m, a, y, n, 3) = Bit(y, a, n, 3)
              /\ GotBit(st, m, a, y, n, 4) \in {0, 1} /\ GotBit(st, m, a, y, n, 5) \in {0, 1}
          BY <5>1, BeforeFacts DEF GotBit, ReadOf
        <5>3. Bit(y, a, n, 1) \in {0, 1} /\ Bit(y, a, n, 2) = 1 /\ Bit(y, a, n, 3) \in {0, 1}
          <6>1. Has(y, a, n, 2)
            BY <2>1 DEF Has
          <6> QED
            BY <1>1, <6>1 DEF Bit
        <5>4. GotOf(st, m, a, y, n) >= 1
          BY <5>2, <5>3 DEF GotOf
        <5> QED
          BY <1>1, <2>5, <5>1, <5>4 DEF ReadCount
      <4>2. call[a] <= call[y]
        BY <2>1, <3>3, <4>1, Heard
      <4> QED
        BY <1>1, <2>5, <4>2
    <3> QED
      BY <3>2, <3>3
  <2>6. CASE pc[a] \notin Stages
    <3>1. call[a] <= call[y]
      BY <1>2, <2>1, <2>6 DEF BarrierInv
    <3> QED
      BY <1>1, <1>3, <2>1, <2>4, <3>1
  <2>7. CASE call[a] # n
    <3>1. call[a] <= call[y] + 1
      BY <1>2, <2>1 DEF BarrierInv
    <3> QED
      BY <1>1, <1>3, <2>1, <2>4, <2>7, <3>1
  <2> QED
    BY <2>5, <2>6, <2>7
<1> QED
  BY <1>6, <1>7, <1>8

(* Return keeps the invariant.                                             *)
LEMMA ReturnFlow ==
  ASSUME FlowInv, NEW p \in Parties, Return(p)
  PROVE  FlowInv'
<1>1. /\ pc[p] \in Stages /\ k[p] > Len(Reads(p)) /\ (Plan[call[p]].mode = "pking" => pc[p] = "sums")
      /\ UNCHANGED <<call, log, flushed, read>> /\ k' = [k EXCEPT ![p] = 1]
      /\ \E e \in {"idle", "aborted"} : pc' = [pc EXCEPT ![p] = e]
  BY DEF Return, Goto, Stages, Cur, netVars
<1>2. FlowType /\ NetType /\ BarrierInv
  BY DEF FlowInv
<1>3. /\ pc' \in [Parties -> Stages \cup {"idle", "aborted"}] /\ pc'[p] \notin Stages
      /\ \A a \in Parties : a # p => pc'[a] = pc[a]
      /\ k' \in [Parties -> Nat \ {0}]
  BY <1>1, <1>2 DEF FlowType, Stages
<1>4. FlowType' /\ NetType'
  BY <1>1, <1>2, <1>3 DEF FlowType, NetType, Cur, Stages
<1>5. BarrierInv'
  <2>1. \A y \in Parties : call[p] <= call[y]
    BY <1>1, AllBegan
  <2> QED
    BY <1>1, <1>2, <1>3, <2>1 DEF BarrierInv
<1>6. ASSUME NEW a \in Parties, p # a PROVE SameReader(a, p)
  <2>1. ReadCount(a, p) = Before(a, p, call[p], 6)
    <3>1. CASE pc[p] = "sums"
      BY <1>1, <1>6, <3>1, StageEnds
    <3>2. CASE pc[p] = "shares" /\ Plan[call[p]].mode # "pking"
      <4>1. ReadCount(a, p) = Before(a, p, call[p], 4) /\ call[p] \in DOMAIN Plan
        BY <1>1, <1>6, <3>2, StageEnds
      <4>2. PICK n, m : n = call[p] /\ m = 0 /\ n \in DOMAIN Plan /\ m \in Nat /\ Plan[n].mode # "pking"
        BY <3>2, <4>1
      <4>3. Before(a, p, n, 4) = Before(a, p, n, 6)
        BY <1>6, <4>2, GotFacts
      <4> QED
        BY <4>1, <4>2, <4>3
    <3> QED
      BY <1>1, <3>1, <3>2 DEF Stages
  <2>2. ReadCount(a, p)' = Before(a, p, call[p], 6)
    <3>1. call[p] \in DOMAIN Plan
      BY <1>1, <1>6, StageEnds
    <3>2. PICK st, n, m : /\ st = pc'[p] /\ n = call[p] /\ m = k'[p] /\ n \in DOMAIN Plan /\ m \in Nat
                          /\ st \notin {"shares", "sums"}
      BY <1>3, <3>1 DEF Stages
    <3>3. GotOf(st, m, p, a, n) = Before(a, p, n, 6)
      BY <1>6, <3>2, GotFacts
    <3> QED
      BY <1>1, <3>2, <3>3 DEF ReadCount
  <2> QED
    BY <1>1, <2>1, <2>2 DEF SameReader, Base
<1>7. ASSUME NEW q \in Parties, p # q PROVE QueueInv(p, q)'
  <2>1. PICK w, b, cp, cq : w = log[p][q] /\ b = Base(p, q) /\ cp = call[p] /\ cq = call[q]
    OBVIOUS
  <2>2. cp \in Nat /\ cq \in Nat
    BY <1>2, <2>1, Counts
  <2>3. QueueInv(p, q)
    BY <1>7 DEF FlowInv
  <2>4. Aligned(w, p, q, b, cp, cq, 6)
    <3>1. CASE pc[p] = "sums"
      BY <2>1, <2>3, <3>1 DEF QueueInv, SentUpTo
    <3>2. CASE pc[p] = "shares"
      <4>1. Aligned(w, p, q, b, cp, cq, 4) /\ Plan[cp].mode # "pking"
        BY <1>1, <2>1, <2>3, <3>2 DEF QueueInv, SentUpTo
      <4> QED
        BY <2>2, <4>1, NoSums
    <3> QED
      BY <1>1, <3>1, <3>2 DEF Stages
  <2>5. SentUpTo(p)' = 6 /\ Base(p, q)' = b
    <3>1. k'[q] = k[q]
      BY <1>1, <1>2, <1>7 DEF FlowType
    <3> QED
      BY <1>1, <1>3, <1>7, <2>1, <3>1 DEF SentUpTo, Base, ReadCount, Stages
  <2> QED
    BY <1>1, <2>1, <2>4, <2>5 DEF QueueInv
<1>8. ASSUME NEW a \in Parties, NEW q \in Parties, a # q PROVE QueueInv(a, q)'
  <2>1. CASE a = p
    BY <1>7, <1>8, <2>1
  <2>2. CASE a # p
    <3>1. QueueInv(a, q)
      BY <1>8 DEF FlowInv
    <3>2. SameSender(a, q)
      BY <1>1, <1>3, <2>2 DEF SameSender, SentUpTo
    <3>3. SameReader(a, q)
      <4>1. CASE q = p
        BY <1>6, <1>8, <4>1
      <4>2. CASE q # p
        <5>1. k'[q] = k[q]
          BY <1>1, <1>2, <4>2 DEF FlowType
        <5> QED
          BY <1>1, <1>3, <4>2, <5>1 DEF SameReader, Base, ReadCount
      <4> QED
        BY <4>1, <4>2
    <3> QED
      BY <3>1, <3>2, <3>3, SameQueue
  <2> QED
    BY <2>1, <2>2
<1> QED
  BY <1>4, <1>5, <1>8 DEF FlowInv

-----------------------------------------------------------------------------
(* Nothing has been sent before the first call.                            *)
LEMMA InitFlow == Init => FlowInv
<1> SUFFICES ASSUME Init PROVE FlowInv
  OBVIOUS
<1>1. /\ pc = [p \in Parties |-> "idle"] /\ k = [p \in Parties |-> 1] /\ call = [p \in Parties |-> 0]
      /\ log = [p \in Parties |-> [q \in Parties |-> << >>]]
      /\ flushed = [p \in Parties |-> [q \in Parties |-> 0]]
      /\ read = [p \in Parties |-> [q \in Parties |-> 0]]
      /\ Len(Plan) \in Nat
  BY ReconstructAssumption DEF Init, NetInit
<1>2. FlowType
  BY <1>1 DEF FlowType, Stages
<1>3. IsSeq(<< >>) /\ Len(<< >>) = 0
  BY Short
<1>4. NetType
  BY <1>1, <1>3 DEF NetType
<1>5. BarrierInv
  BY <1>1 DEF BarrierInv
<1>6. ASSUME NEW p \in Parties, NEW q \in Parties, p # q PROVE QueueInv(p, q)
  <2>1. \A s : Bit(p, q, 0, s) = 0
    BY DEF Bit
  <2>2. ReadCount(p, q) = 0
    BY <1>1, <2>1 DEF ReadCount, GotOf, GotBit
  <2>3. Base(p, q) = 0
    BY <1>1, <2>2 DEF Base
  <2>4. Before(p, q, 0, 6) = 0 /\ SentUpTo(p) = 6
    BY <1>1, BeforeFacts DEF SentUpTo
  <2>5. \A w : Holds(w, p, q, 0, 0, 0, 6)
    BY DEF Holds
  <2>6. call[p] = 0 /\ call[q] = 0 /\ log[p][q] = << >>
    BY <1>1
  <2>7. Aligned(<< >>, p, q, 0, 0, 0, 6)
    BY <1>3, <2>4, <2>5 DEF Aligned
  <2> QED
    BY <2>3, <2>4, <2>6, <2>7 DEF QueueInv
<1> QED
  BY <1>2, <1>4, <1>5, <1>6 DEF FlowInv

(* All streams stay aligned with what their readers are about to read, and  *)
(* nobody enters a call before all have begun the one before it            *)
(* (zkfliop::Evaluator::reconstruct, 607-851).                             *)
THEOREM FlowCorrect == Spec => []FlowInv
<1>1. FlowInv /\ [Next]_vars => FlowInv'
  <2> SUFFICES ASSUME FlowInv, [Next]_vars PROVE FlowInv'
    OBVIOUS
  <2>1. CASE Next
    <3>1. PICK p \in Parties : Step(p)
      BY <2>1 DEF Next
    <3>2. CASE Start(p)
      BY <3>2, StartFlow
    <3>3. CASE Take(p)
      BY <3>3, TakeFlow
    <3>4. CASE RecvFlush(p)
      BY <3>4, RecvFlushFlow
    <3>5. CASE Distribute(p)
      BY <3>5, DistributeFlow
    <3>6. CASE Return(p)
      BY <3>6, ReturnFlow
    <3> QED
      BY <3>1, <3>2, <3>3, <3>4, <3>5, <3>6 DEF Step
  <2>2. CASE UNCHANGED vars
    <3>1. UNCHANGED <<pc, k, call, log, flushed, read>>
      BY <2>2 DEF vars, netVars
    <3>2. FlowType' /\ NetType' /\ BarrierInv'
      BY <3>1 DEF FlowInv, FlowType, NetType, BarrierInv, Cur
    <3>3. ASSUME NEW a \in Parties, NEW q \in Parties, a # q PROVE QueueInv(a, q)'
      <4>1. QueueInv(a, q) /\ SameSender(a, q) /\ SameReader(a, q)
        BY <3>1, <3>3 DEF FlowInv, SameSender, SameReader, SentUpTo, Base, ReadCount
      <4> QED
        BY <4>1, SameQueue
    <3> QED
      BY <3>2, <3>3 DEF FlowInv
  <2> QED
    BY <2>1, <2>2
<1> QED
  BY <1>1, InitFlow, PTL DEF Spec

(* What has arrived for the next read is the message that the read is for.  *)
LEMMA NextIsRight ==
  ASSUME FlowInv, NEW p \in Parties, Reading(p), NEW r, r = Reads(p)[k[p]],
         Has(r.from, p, call[p], Slot(r)), read[r.from][p] < flushed[r.from][p]
  PROVE  /\ NextMsg(p, r.from) = MsgAt(log[r.from][p], r.from, p, Base(r.from, p), call[p], Slot(r))
         /\ RightMsg(NextMsg(p, r.from), r.from, p, call[p], Slot(r))
         /\ r = ReadAt(r.from, p, call[p], Slot(r)) /\ r.from \in Parties \ {p}
         /\ call[r.from] >= call[p]
<1>1. PICK n, st, m, a, s : n = call[p] /\ st = pc[p] /\ m = k[p] /\ a = r.from /\ s = Slot(r)
  OBVIOUS
<1>2. /\ n \in DOMAIN Plan /\ st \in Stages /\ m \in 1..Len(ListOf(st, p, n))
      /\ r = ListOf(st, p, n)[m] /\ (st = "sums" => Plan[n].mode = "pking")
  BY <1>1, ReadFacts
<1>3. /\ a \in Parties \ {p} /\ s \in 1..5 /\ r = ReadAt(a, p, n, s)
      /\ GotOf(st, m, p, a, n) = Before(a, p, n, s)
  BY <1>1, <1>2, StepFacts DEF Stages
<1>4. FlowType /\ NetType /\ BarrierInv /\ QueueInv(a, p)
  BY <1>3 DEF FlowInv
<1>5. PICK b, L, x, u, ca : b = Base(a, p) /\ L = Len(log[a][p]) /\ x = read[a][p] /\ u = SentUpTo(a) /\ ca = call[a]
  OBVIOUS
<1>6. /\ x = b + Before(a, p, n, s) /\ x < L /\ x \in Nat /\ L \in Nat /\ b \in Int
      /\ n \in Nat /\ n # 0 /\ ca \in Nat
  <2>1. x = b + ReadCount(a, p) /\ x \in Nat /\ L \in Nat /\ b \in Int
    BY <1>3, <1>4, <1>5, Counts
  <2>2. flushed[a][p] <= Len(log[a][p]) /\ flushed[a][p] \in Nat /\ x < flushed[a][p]
    <3>1. flushed[a][p] <= Len(log[a][p]) /\ flushed[a][p] \in Nat
      BY <1>3, <1>4 DEF NetType
    <3>2. x < flushed[a][p]
      BY <1>1, <1>5
    <3> QED
      BY <3>1, <3>2
  <2>3. ReadCount(a, p) = Before(a, p, n, s)
    BY <1>1, <1>3 DEF ReadCount
  <2>4. n \in Nat /\ n # 0 /\ ca \in Nat
    <3>1. call[a] \in Nat
      BY <1>3, <1>4, Counts
    <3>2. n \in 1..Len(Plan) /\ Len(Plan) \in Nat
      BY <1>2, ReconstructAssumption
    <3> QED
      BY <1>5, <3>1, <3>2
  <2> QED
    BY <1>5, <2>1, <2>2, <2>3, <2>4
<1>7. Aligned(log[a][p], a, p, b, ca, n, u) /\ b >= 0 /\ (u = 4 \/ u = 6)
  BY <1>1, <1>4, <1>5 DEF QueueInv, Aligned, SentUpTo
<1>8. /\ Before(a, p, n, s) \in Nat /\ Before(a, p, n, s + 1) = Before(a, p, n, s) + 1
  <2>1. Bit(a, p, n, s) = 1
    BY <1>1, <1>6 DEF Bit
  <2> QED
    BY <1>3, <2>1, BeforeFacts
<1>9. ca >= n
  <2>1. ca + 1 = n => L = b
    BY <1>5, <1>7 DEF Aligned
  <2>2. n <= ca + 1
    BY <1>1, <1>3, <1>4, <1>5 DEF BarrierInv
  <2> QED
    BY <1>6, <1>7, <1>8, <2>1, <2>2
<1>10. ca = n => s < u
  <2>1. SUFFICES ASSUME ca = n, s >= u PROVE FALSE
    BY <1>3, <1>7
  <2>2. L = b + Before(a, p, n, u)
    BY <1>5, <1>7, <2>1 DEF Aligned
  <2>3. Before(a, p, n, u) <= Before(a, p, n, s) /\ Before(a, p, n, u) \in Nat
    <3>1. u \in 1..6 /\ s \in 1..6 /\ u <= s
      BY <1>3, <1>7, <2>1
    <3> QED
      BY <3>1, BeforeFacts
  <2> QED
    BY <1>6, <1>8, <2>2, <2>3
<1>11. RightMsg(MsgAt(log[a][p], a, p, b, n, s), a, p, n, s)
  <2>1. Holds(log[a][p], a, p, b, n, ca, u)
    BY <1>7, <1>9 DEF Aligned
  <2> QED
    BY <1>1, <1>3, <1>6, <1>10, <2>1 DEF Holds
<1>12. NextMsg(p, a) = MsgAt(log[a][p], a, p, b, n, s)
  BY <1>5, <1>6 DEF NextMsg, MsgAt
<1> QED
  BY <1>1, <1>3, <1>5, <1>9, <1>11, <1>12

(* Digests, blocks, nonces and bits share the streams, and yet what a party *)
(* reads is of the call it is in, of the kind it reads and of the blocks it *)
(* reads it into (637-671, 682-714, 743-768, 795-839).                      *)
THEOREM FramingCorrect == Spec => []Framing
<1>1. FlowInv => Framing
  <2>1. SUFFICES ASSUME FlowInv, NEW p \in Parties, Reading(p), NEW r, r = Reads(p)[k[p]],
                        Arrived(p, r.from),
                        r.kind \in {"share", "sum"} => \E b \in r.blocks : HasValues(Cur(p), b)
                 PROVE  LET m == NextMsg(p, r.from)
                        IN  /\ m.call = call[p] /\ m.kind = r.kind
                            /\ r.blocks # {} => DOMAIN m.data = r.blocks
    BY DEF Framing
  <2>2. PICK n, st, m : n = call[p] /\ st = pc[p] /\ m = k[p]
    OBVIOUS
  <2>3. /\ n \in DOMAIN Plan /\ st \in Stages /\ m \in 1..Len(ListOf(st, p, n))
        /\ r = ListOf(st, p, n)[m] /\ (st = "sums" => Plan[n].mode = "pking")
    BY <2>1, <2>2, ReadFacts
  <2>4. /\ r.from \in Parties \ {p} /\ Slot(r) \in 1..5 /\ r = ReadAt(r.from, p, n, Slot(r))
        /\ Slot(r) \in 1..3 <=> st = "shares"
        /\ Slot(r) # 2 /\ Slot(r) # 4 => Has(r.from, p, n, Slot(r))
    BY <2>3, StepFacts DEF Stages
  <2>5. Has(r.from, p, n, Slot(r))
    <3>1. Slot(r) \in {4, 5} => Plan[n].mode = "pking"
      BY <2>3, <2>4 DEF Stages
    <3>2. ~(r.kind \in {"share", "sum"} /\ \A b \in r.blocks : ~HasValues(Plan[n], b))
      BY <2>1, <2>2 DEF Cur
    <3> QED
      BY <2>3, <2>4, <3>1, <3>2, EmptyFacts
  <2>6. RightMsg(NextMsg(p, r.from), r.from, p, n, Slot(r))
    BY <2>1, <2>2, <2>5, NextIsRight DEF Arrived
  <2> QED
    BY <2>2, <2>4, <2>6 DEF RightMsg
<1> QED
  BY <1>1, FlowCorrect, PTL

-----------------------------------------------------------------------------
(* The blocks that have the shares of S in them, and what faults have done.  *)
Of(S) == {Block([q \in Parties |-> IF q \in S THEN 1 ELSE 0], off) : off \in SUBSET Effects}

(* What a message of a says, where a is in call c and has shown sh.         *)
Honest(m, a, c, sh) ==
  /\ m.call \in 1..c
  /\ m.kind \in {"digest", "bit"} => m.data = sh[m.call]
  /\ m.kind \in {"share", "nonce"} => \A b \in DOMAIN m.data : m.data[b] \in Of({a})
  /\ m.kind \in {"sum", "nonceSum"} => \A b \in DOMAIN m.data : m.data[b] \in Of(Parties)

AllHonest(w, a, c, sh) == \A i \in 1..Len(w) : Honest(w[i], a, c, sh)

MsgInv == \A a, q \in Parties : a # q => AllHonest(log[a][q], a, call[a], shown[a])

Whatever(f) == f = [p \in Parties |-> f[p]]

VarsInv ==
  /\ Whatever(vals) /\ Whatever(consHash) /\ Whatever(openHash) /\ Whatever(shown)
  /\ agree \in [Parties -> BOOLEAN] /\ bad \in [Parties -> BOOLEAN]
  /\ \A p \in Parties : DOMAIN vals[p] = Blocks \cup {0}

ShownInv ==
  \A p \in Parties :
    /\ IsSeq(shown[p]) /\ Len(shown[p]) = call[p]
    /\ \A n \in 1..call[p] : Plan[n].mode = "accept" => shown[p][n] \in BOOLEAN

(* a shows in call n what p hopes for: the same digest, or yes.            *)
Agrees(p, a, n) == IF Plan[n].mode = "accept" THEN shown[a][n] = TRUE ELSE shown[a][n] = shown[p][n]

(* p has been told so by all it has read so far.                           *)
Agreed(p, n, m) == Agrees(p, p, n) /\ \A i \in 1..NumPeers : i < m => Agrees(p, PeerAt(p, i), n)

(* Where p is in a call that begins with digests or bits.                   *)
AgreeInv(p) ==
  pc[p] = "shares" /\ (Cur(p).check \/ Cur(p).mode = "accept") =>
    /\ \A i \in 1..NumPeers : i < k[p] => call[p] <= call[PeerAt(p, i)]
    /\ Cur(p).check /\ k[p] <= NumPeers => consHash[p] = shown[p][call[p]]
    /\ k[p] <= NumPeers \/ Cur(p).mode = "accept" => (agree[p] <=> Agreed(p, call[p], k[p]))

(* Whose shares p has got, and whose sum.                                  *)
GotAt(p, stage, m, n)    == {p} \cup {a \in Parties : ReadOf(stage, m, p, a, n, 2)}
SumAt(p, a, stage, m, n) == stage = "sums" /\ ReadOf(stage, m, p, a, n, 4)

(* What p has opened so far at read m of a stage of call n.                *)
Opened(v, p, stage, m, n) ==
  stage \in Stages =>
    /\ Plan[n].mode = "broadcast" => \A b \in Blocks : v[b] \in Of(GotAt(p, stage, m, n))
    /\ Plan[n].mode = "pking" =>
         /\ HasValues(Plan[n], p) => v[p] \in Of(GotAt(p, stage, m, n))
         /\ \A b \in Blocks \ {p} : HasValues(Plan[n], b) /\ SumAt(p, b, stage, m, n) => v[b] \in Of(Parties)

(* Whose shares of the nonce p has got, and what it knows of the nonce.     *)
NoncesAt(p, stage, m, n) == {p} \cup {a \in Parties : ReadOf(stage, m, p, a, n, 3)}

NonceOpened(v, p, stage, m, n) ==
  stage \in Stages /\ Plan[n].nonce =>
    /\ Plan[n].mode = "broadcast" \/ p = 1 => v[0] \in Of(NoncesAt(p, stage, m, n))
    /\ p # 1 /\ stage = "sums" /\ ReadOf(stage, m, p, 1, n, 5) => v[0] \in Of(Parties)

ViewInv ==
  /\ MsgInv /\ VarsInv /\ ShownInv
  /\ \A p \in Parties : /\ AgreeInv(p) /\ Opened(vals[p], p, pc[p], k[p], call[p])
                        /\ NonceOpened(vals[p], p, pc[p], k[p], call[p])

-----------------------------------------------------------------------------
(* Blocks and what is in them: one's own share ...                         *)
LEMMA OwnOf == ASSUME NEW p \in Parties PROVE Own(p) \in Of({p})
<1>1. [q \in Parties |-> IF q = p THEN 1 ELSE 0] = [q \in Parties |-> IF q \in {p} THEN 1 ELSE 0]
  OBVIOUS
<1>2. {} \in SUBSET Effects
  OBVIOUS
<1> QED
  BY <1>1, <1>2 DEF Own, Of

(* ... everybody's ...                                                     *)
LEMMA AllOf == Of(Parties) = {Block(Whole, off) : off \in SUBSET Effects}
<1>1. [q \in Parties |-> IF q \in Parties THEN 1 ELSE 0] = Whole
  BY DEF Whole
<1> QED
  BY <1>1 DEF Of

(* ... one more ...                                                        *)
LEMMA PlusOf ==
  ASSUME NEW S, NEW a, a \notin S, NEW v \in Of(S), NEW w \in Of({a})
  PROVE  Plus(v, w) \in Of(S \cup {a})
<1> DEFINE f(T) == [q \in Parties |-> IF q \in T THEN 1 ELSE 0]
<1>1. PICK x \in SUBSET Effects : v = Block(f(S), x)
  BY DEF Of
<1>2. PICK y \in SUBSET Effects : w = Block(f({a}), y)
  BY DEF Of
<1>3. [q \in Parties |-> f(S)[q] + f({a})[q]] = f(S \cup {a})
  OBVIOUS
<1>4. v.share = f(S) /\ v.off = x /\ w.share = f({a}) /\ w.off = y
  BY <1>1, <1>2 DEF Block
<1> HIDE DEF f
<1>5. Plus(v, w) = Block(f(S \cup {a}), x \cup y)
  BY <1>3, <1>4 DEF Plus
<1>6. x \cup y \in SUBSET Effects
  OBVIOUS
<1> QED
  BY <1>5, <1>6 DEF Of, f

(* ... and the effects of a fault.                                         *)
LEMMA AlteredOf ==
  ASSUME NEW v, NEW b, NEW e \in SUBSET Effects
  PROVE  /\ DOMAIN Altered(v, b, e) = DOMAIN v
         /\ \A x \in DOMAIN v : x # b => Altered(v, b, e)[x] = v[x]
         /\ \A S : b \in DOMAIN v /\ v[b] \in Of(S) => Altered(v, b, e)[b] \in Of(S)
<1>1. /\ DOMAIN Altered(v, b, e) = DOMAIN v
      /\ \A x \in DOMAIN v : x # b => Altered(v, b, e)[x] = v[x]
  BY DEF Altered
<1>2. ASSUME NEW S, b \in DOMAIN v, v[b] \in Of(S) PROVE Altered(v, b, e)[b] \in Of(S)
  <2> DEFINE f == [q \in Parties |-> IF q \in S THEN 1 ELSE 0]
  <2>1. PICK x \in SUBSET Effects : v[b] = Block(f, x)
    BY <1>2 DEF Of
  <2>2. Altered(v, b, e)[b] = [v[b] EXCEPT !.off = @ \cup e]
    BY <1>2 DEF Altered
  <2> HIDE DEF f
  <2>3. [Block(f, x) EXCEPT !.off = @ \cup e] = Block(f, x \cup e)
    BY DEF Block
  <2>4. x \cup e \in SUBSET Effects
    OBVIOUS
  <2> QED
    BY <2>1, <2>2, <2>3, <2>4 DEF Of, f
<1> QED
  BY <1>1, <1>2

-----------------------------------------------------------------------------
(* What is sent when a call begins is honest: the digest or the bit that is *)
(* shown, and shares of one's own.                                         *)
LEMMA CarriedStart ==
  ASSUME NEW p \in Parties, NEW q \in Parties \ {p}, NEW n \in DOMAIN Plan, NEW s \in 1..3, NEW v,
         NEW sh, sh[n] = Says(p, Plan[n]), \A b \in Blocks \cup {0} : v[b] \in Of({p})
  PROVE  Honest(Carried(p, q, n, s, v), p, n, sh)
<1>1. n \in 1..n /\ Plan[n].mode \in {"pking", "broadcast", "accept"}
  <2>1. n \in Nat /\ n # 0
    BY PlanFacts
  <2> QED
    BY <2>1, PlanFacts
<1>2. CASE s = 1
  <2>1. Carried(p, q, n, s, v) = [call |-> n, kind |-> "digest", data |-> Says(p, Plan[n])]
    BY <1>2 DEF Carried, ReadAt, Read
  <2> QED
    BY <1>1, <2>1 DEF Honest
<1>3. CASE s = 2 /\ Plan[n].mode = "accept"
  <2>1. Carried(p, q, n, s, v) = [call |-> n, kind |-> "bit", data |-> Says(p, Plan[n])]
    BY <1>3 DEF Carried, ReadAt, Read, Share
  <2> QED
    BY <1>1, <2>1 DEF Honest
<1>4. CASE s = 2 /\ Plan[n].mode # "accept"
  <2>1. PICK B : B \in SUBSET Blocks /\ ReadAt(p, q, n, s) = Read(p, "share", B)
    <3>1. CASE Plan[n].mode = "pking"
      BY <1>4, <3>1 DEF ReadAt, Share, Parties, Blocks
    <3>2. CASE Plan[n].mode = "broadcast"
      BY <1>4, <3>2 DEF ReadAt, Share
    <3> QED
      BY <1>1, <1>4, <3>1, <3>2
  <2>2. Carried(p, q, n, s, v) = [call |-> n, kind |-> "share", data |-> Data(v, B)]
    BY <1>4, <2>1 DEF Carried, Read
  <2>3. \A b \in DOMAIN Data(v, B) : Data(v, B)[b] \in Of({p})
    BY <2>1 DEF Data
  <2> QED
    BY <1>1, <2>2, <2>3 DEF Honest
<1>5. CASE s = 3
  <2>1. Carried(p, q, n, s, v) = [call |-> n, kind |-> "nonce", data |-> Data(v, {0})]
    BY <1>5 DEF Carried, ReadAt, Read
  <2>2. \A b \in DOMAIN Data(v, {0}) : Data(v, {0})[b] \in Of({p})
    BY DEF Data
  <2> QED
    BY <1>1, <2>1, <2>2 DEF Honest
<1> QED
  BY <1>2, <1>3, <1>4, <1>5

(* What a king sends is honest: sums of all shares.                        *)
LEMMA CarriedSums ==
  ASSUME NEW p \in Parties, NEW q \in Parties \ {p}, NEW n \in DOMAIN Plan, NEW s \in {4, 5}, NEW v,
         NEW sh, s = 4 => v[p] \in Of(Parties), s = 5 => v[0] \in Of(Parties)
  PROVE  Honest(Carried(p, q, n, s, v), p, n, sh)
<1>1. n \in 1..n
  <2>1. n \in Nat /\ n # 0
    BY PlanFacts
  <2> QED
    BY <2>1
<1>2. CASE s = 4
  <2>1. Carried(p, q, n, s, v) = [call |-> n, kind |-> "sum", data |-> Data(v, {p})]
    BY <1>2 DEF Carried, ReadAt, Read
  <2>2. \A b \in DOMAIN Data(v, {p}) : Data(v, {p})[b] \in Of(Parties)
    BY <1>2 DEF Data
  <2> QED
    BY <1>1, <2>1, <2>2 DEF Honest
<1>3. CASE s = 5
  <2>1. Carried(p, q, n, s, v) = [call |-> n, kind |-> "nonceSum", data |-> Data(v, {0})]
    BY <1>3 DEF Carried, ReadAt, Read
  <2>2. \A b \in DOMAIN Data(v, {0}) : Data(v, {0})[b] \in Of(Parties)
    BY <1>3 DEF Data
  <2> QED
    BY <1>1, <2>1, <2>2 DEF Honest
<1> QED
  BY <1>2, <1>3

(* Messages stay honest when their sender goes on, and when honest ones    *)
(* follow.                                                                 *)
LEMMA HonestGrows ==
  ASSUME NEW l, NEW a, NEW c \in Nat, NEW sh, NEW d \in Nat, NEW th, c <= d,
         \A n \in 1..c : th[n] = sh[n], AllHonest(l, a, c, sh)
  PROVE  AllHonest(l, a, d, th)
<1>1. SUFFICES ASSUME NEW i \in 1..Len(l) PROVE Honest(l[i], a, d, th)
  BY DEF AllHonest
<1>2. PICK m : m = l[i] /\ Honest(m, a, c, sh)
  BY DEF AllHonest
<1>3. m.call \in 1..d /\ th[m.call] = sh[m.call]
  BY <1>2 DEF Honest
<1> QED
  BY <1>2, <1>3 DEF Honest

(* Two lots of honest messages are one.                                    *)
LEMMA HonestJoin ==
  ASSUME NEW w, NEW l, NEW O, NEW a, NEW c, NEW sh, Extends(w, l, O),
         AllHonest(l, a, c, sh), AllHonest(O, a, c, sh)
  PROVE  AllHonest(w, a, c, sh)
<1>1. SUFFICES ASSUME NEW i \in 1..Len(w) PROVE Honest(w[i], a, c, sh)
  BY DEF AllHonest
<1>2. CASE i <= Len(l)
  <2>1. i \in 1..Len(l)
    BY <1>2 DEF Extends
  <2>2. w[i] = l[i]
    BY <2>1 DEF Extends
  <2> QED
    BY <2>1, <2>2 DEF AllHonest
<1>3. CASE i > Len(l)
  <2>1. i - Len(l) \in 1..Len(O) /\ Len(l) + (i - Len(l)) = i
    BY <1>3 DEF Extends
  <2>2. PICK j : j = i - Len(l) /\ j \in 1..Len(O) /\ Len(l) + j = i
    BY <2>1
  <2>3. w[i] = O[j]
    BY <2>2 DEF Extends
  <2> QED
    BY <2>2, <2>3 DEF AllHonest
<1> QED
  BY <1>2, <1>3 DEF Extends

(* All that is sent in a stage is honest.                                  *)
LEMMA HonestSends ==
  ASSUME NEW O, NEW p \in Parties, NEW q \in Parties \ {p}, NEW n \in DOMAIN Plan, NEW v, NEW sh,
         NEW t, NEW T, Conveys(O, p, q, n, v, t, T),
         \A s \in T : Has(p, q, n, s) => Honest(Carried(p, q, n, s, v), p, n, sh)
  PROVE  AllHonest(O, p, n, sh)
<1>1. SUFFICES ASSUME NEW i \in 1..Len(O) PROVE Honest(O[i], p, n, sh)
  BY DEF AllHonest
<1>2. PICK s \in T : Has(p, q, n, s) /\ i = Before(p, q, n, s) - Before(p, q, n, t) + 1
  BY DEF Conveys
<1>3. O[i] = Carried(p, q, n, s, v)
  BY <1>2 DEF Conveys
<1> QED
  BY <1>2, <1>3

-----------------------------------------------------------------------------
(* A party starts a call: it shows its digest or its bit and takes its own *)
(* shares, and all it sends is honest.                                     *)
LEMMA StartSays ==
  ASSUME FlowInv, VarsInv, ShownInv, NEW p \in Parties, Start(p), NEW n, n = call[p] + 1
  PROVE  /\ n \in DOMAIN Plan /\ n \in Nat /\ IsSeq(shown'[p]) /\ Len(shown'[p]) = n
         /\ shown' = [shown EXCEPT ![p] = Append(shown[p], Says(p, Plan[n]))]
         /\ Says(p, Plan[n]) = shown'[p][n] /\ \A i \in 1..call[p] : shown'[p][i] = shown[p][i]
         /\ \A q \in Parties \ {p} : \E O :
              Extends(log'[p][q], log[p][q], O) /\ AllHonest(O, p, n, shown'[p])
<1>1. n \in DOMAIN Plan /\ n \in Nat /\ FlowType /\ NetType /\ call[p] \in Nat
  BY StartSends, PlanFacts, Counts DEF FlowInv
<1>2. shown' = [shown EXCEPT ![p] = Append(shown[p], Says(p, Plan[n]))]
  BY DEF Start
<1>3. IsSeq(shown[p]) /\ Len(shown[p]) = call[p]
  BY DEF ShownInv
<1>4. PICK t, x : t = shown[p] /\ x = Says(p, Plan[n])
  OBVIOUS
<1>5. /\ IsSeq(Append(t, x)) /\ Len(Append(t, x)) = Len(t) + 1
      /\ \A i \in 1..Len(t) : Append(t, x)[i] = t[i]
      /\ Append(t, x)[Len(t) + 1] = x
  <2>1. PICK S : t \in Seq(S)
    BY <1>3, <1>4 DEF IsSeq
  <2>2. t \in Seq(S \cup {x})
    BY <2>1
  <2>3. Append(t, x) \in Seq(S \cup {x})
    BY <2>2
  <2> QED
    BY <2>2, <2>3 DEF IsSeq
<1>6. shown'[p] = Append(t, x)
  BY <1>2, <1>4 DEF VarsInv, Whatever
<1>7. /\ IsSeq(shown'[p]) /\ Len(shown'[p]) = n /\ shown'[p][n] = x
      /\ \A i \in 1..call[p] : shown'[p][i] = shown[p][i]
  BY <1>3, <1>4, <1>5, <1>6
<1>8. PICK alter \in Alterations(p), nonce \in BOOLEAN :
        SendAll(p, [q \in Parties \ {p} |->
          Outgoing(p, q, n, Altered(Fresh(p), Target(q, nonce), alter[q]))])
  BY <1>1, PlanFacts DEF Start
<1> DEFINE v(q) == Altered(Fresh(p), Target(q, nonce), alter[q])
           msgs == [q \in Parties \ {p} |-> Outgoing(p, q, n, v(q))]
<1>9. \A q \in Parties \ {p} : Conveys(msgs[q], p, q, n, v(q), 1, 1..3)
  BY <1>1, OutgoingFacts
<1>10. SendAll(p, msgs) /\ DOMAIN msgs = Parties \ {p}
  BY <1>8
<1>11. ASSUME NEW q \in Parties \ {p}, NEW b \in Blocks \cup {0} PROVE v(q)[b] \in Of({p})
  <2>1. DOMAIN Fresh(p) = Blocks \cup {0} /\ \A b0 \in Blocks \cup {0} : Fresh(p)[b0] = Own(p)
    BY DEF Fresh
  <2>2. alter[q] \in SUBSET Effects /\ Own(p) \in Of({p}) /\ Target(q, nonce) \in Blocks \cup {0}
    BY OwnOf DEF Alterations, Parties, Blocks, Target
  <2>3. PICK f, e, y : f = Fresh(p) /\ e = alter[q] /\ y = Target(q, nonce)
    OBVIOUS
  <2>4. /\ \A b0 \in DOMAIN f : b0 # y => Altered(f, y, e)[b0] = f[b0]
        /\ y \in DOMAIN f /\ f[y] \in Of({p}) => Altered(f, y, e)[y] \in Of({p})
    BY <2>2, <2>3, AlteredOf
  <2> QED
    BY <2>1, <2>2, <2>3, <2>4
<1> HIDE DEF msgs, v
<1>12. \A q \in Parties \ {p} : IsSeq(msgs[q])
  BY <1>9 DEF Conveys
<1>13. \A q \in Parties \ {p} : Extends(log'[p][q], log[p][q], msgs[q])
  BY <1>1, <1>10, <1>12, SendFacts
<1>14. ASSUME NEW q \in Parties \ {p} PROVE AllHonest(msgs[q], p, n, shown'[p])
  <2>1. PICK sh, O, w : sh = shown'[p] /\ O = msgs[q] /\ w = v(q)
    OBVIOUS
  <2>2. /\ sh[n] = Says(p, Plan[n]) /\ Conveys(O, p, q, n, w, 1, 1..3)
        /\ \A b \in Blocks \cup {0} : w[b] \in Of({p})
    BY <1>4, <1>7, <1>9, <1>11, <2>1
  <2>3. \A s \in 1..3 : Honest(Carried(p, q, n, s, w), p, n, sh)
    BY <1>1, <2>2, CarriedStart
  <2>4. AllHonest(O, p, n, sh)
    BY <1>1, <2>2, <2>3, HonestSends
  <2> QED
    BY <2>1, <2>4
<1> QED
  BY <1>1, <1>2, <1>4, <1>7, <1>13, <1>14

(* A king sends sums of all shares, since it has read them all.            *)
LEMMA AllGot ==
  ASSUME NEW p \in Parties, NEW n \in DOMAIN Plan, NEW m \in Nat, NEW stage,
         stage = "shares" => m > Len(FirstReads[p][n]),
         Plan[n].mode = "broadcast" \/ (Plan[n].mode = "pking" /\ HasValues(Plan[n], p))
  PROVE  GotAt(p, stage, m, n) = Parties
<1>1. SUFFICES ASSUME NEW a \in Parties, a # p PROVE ReadOf(stage, m, p, a, n, 2)
  BY DEF GotAt
<1>2. CASE stage # "shares"
  BY <1>2 DEF ReadOf
<1>3. CASE stage = "shares"
  <2>1. PICK R : R = FirstReads[p][n]
    OBVIOUS
  <2>2. ListOK(R, p, n, 1..3) /\ 1..3 \in SUBSET (1..5) /\ m > Len(R) /\ 2 \in 1..3
    BY <1>3, <2>1, FirstOK
  <2>3. Has(a, p, n, 2)
    BY DEF Has
  <2>4. Among(R, m, a, 2)
    BY <1>1, <2>2, <2>3, AmongFacts
  <2> QED
    BY <1>3, <2>1, <2>4 DEF ReadOf
<1> QED
  BY <1>2, <1>3

(* Party 1, or everybody, has all shares of the nonce by then.             *)
LEMMA AllNonces ==
  ASSUME NEW p \in Parties, NEW n \in DOMAIN Plan, NEW m \in Nat, NEW stage,
         stage = "shares" => m > Len(FirstReads[p][n]),
         Plan[n].nonce, Plan[n].mode = "broadcast" \/ p = 1
  PROVE  NoncesAt(p, stage, m, n) = Parties
<1>1. SUFFICES ASSUME NEW a \in Parties, a # p PROVE ReadOf(stage, m, p, a, n, 3)
  BY DEF NoncesAt
<1>2. CASE stage # "shares"
  BY <1>2 DEF ReadOf
<1>3. CASE stage = "shares"
  <2>1. PICK R : R = FirstReads[p][n]
    OBVIOUS
  <2>2. ListOK(R, p, n, 1..3) /\ 1..3 \in SUBSET (1..5) /\ m > Len(R) /\ 3 \in 1..3
    BY <1>3, <2>1, FirstOK
  <2>3. Has(a, p, n, 3)
    BY DEF Has
  <2>4. Among(R, m, a, 3)
    BY <1>1, <2>2, <2>3, AmongFacts
  <2> QED
    BY <1>3, <2>1, <2>4 DEF ReadOf
<1> QED
  BY <1>2, <1>3

(* A king that distributes has all shares of its block and sends those.    *)
LEMMA DistributeSays ==
  ASSUME FlowInv, VarsInv, NEW p \in Parties, Distribute(p),
         Opened(vals[p], p, pc[p], k[p], call[p]), NonceOpened(vals[p], p, pc[p], k[p], call[p])
  PROVE  /\ HasValues(Cur(p), p) => vals[p][p] \in Of(Parties)
         /\ Cur(p).nonce /\ p = 1 => vals[p][0] \in Of(Parties)
         /\ \A q \in Parties \ {p} : \E O :
              Extends(log'[p][q], log[p][q], O) /\ AllHonest(O, p, call[p], shown[p])
<1>1. /\ call[p] \in DOMAIN Plan /\ Plan[call[p]].mode = "pking" /\ k[p] > Len(Reads(p)) /\ Cur(p).mode = "pking"
      /\ pc[p] = "shares"
  BY DistributeSends DEF Cur
<1>2. HasValues(Cur(p), p) => vals[p][p] \in Of(Parties)
  <2>1. PICK n, m : n = call[p] /\ m = k[p]
    OBVIOUS
  <2>2. n \in DOMAIN Plan /\ Plan[n].mode = "pking" /\ m > Len(FirstReads[p][n]) /\ m \in Nat
    BY <1>1, <2>1 DEF Reads, FlowInv, FlowType
  <2>3. HasValues(Plan[n], p) => GotAt(p, "shares", m, n) = Parties
    BY <2>2, AllGot
  <2>4. HasValues(Plan[n], p) => vals[p][p] \in Of(GotAt(p, "shares", m, n))
    BY <1>1, <2>1, <2>2 DEF Opened, Stages
  <2> QED
    BY <2>1, <2>3, <2>4 DEF Cur
<1>10. Cur(p).nonce /\ p = 1 => vals[p][0] \in Of(Parties)
  <2>1. SUFFICES ASSUME Cur(p).nonce, p = 1 PROVE vals[p][0] \in Of(Parties)
    OBVIOUS
  <2>2. PICK n, m : n = call[p] /\ m = k[p]
    OBVIOUS
  <2>3. n \in DOMAIN Plan /\ Plan[n].mode = "pking" /\ Plan[n].nonce /\ m > Len(FirstReads[p][n]) /\ m \in Nat
    BY <1>1, <2>1, <2>2 DEF Reads, FlowInv, FlowType, Cur
  <2>4. NoncesAt(p, "shares", m, n) = Parties
    BY <2>1, <2>3, AllNonces
  <2> QED
    BY <1>1, <2>1, <2>2, <2>3, <2>4 DEF NonceOpened, Stages
<1>3. PICK alter \in Alterations(p), nonce \in BOOLEAN :
        SendAll(p, [q \in Parties \ {p} |-> Sums(p, q, Altered(vals[p], Target(p, nonce), alter[q]))])
  BY <1>1, PlanFacts DEF Distribute, Cur
<1> DEFINE v(q) == Altered(vals[p], Target(p, nonce), alter[q])
           msgs == [q \in Parties \ {p} |-> Sums(p, q, v(q))]
<1>4. \A q \in Parties \ {p} : Conveys(msgs[q], p, q, call[p], v(q), 4, {4, 5})
  BY <1>1, SumsFacts
<1>5. SendAll(p, msgs) /\ DOMAIN msgs = Parties \ {p}
  BY <1>3
<1>6. ASSUME NEW q \in Parties \ {p}, NEW b \in {p, 0}, vals[p][b] \in Of(Parties)
      PROVE  v(q)[b] \in Of(Parties)
  <2>1. PICK f, e, x : f = vals[p] /\ e = alter[q] /\ x = Target(p, nonce)
    OBVIOUS
  <2>2. e \in SUBSET Effects /\ b \in DOMAIN f /\ f[b] \in Of(Parties)
    BY <1>6, <2>1 DEF Alterations, VarsInv, Parties, Blocks
  <2>3. Altered(f, x, e)[b] \in Of(Parties)
    BY <2>2, AlteredOf
  <2> QED
    BY <2>1, <2>3
<1> HIDE DEF msgs, v
<1>7. \A q \in Parties \ {p} : IsSeq(msgs[q])
  BY <1>4 DEF Conveys
<1>8. \A q \in Parties \ {p} : Extends(log'[p][q], log[p][q], msgs[q])
  BY <1>5, <1>7, SendFacts DEF FlowInv
<1>9. ASSUME NEW q \in Parties \ {p} PROVE AllHonest(msgs[q], p, call[p], shown[p])
  <2>1. PICK sh, O, w, n : sh = shown[p] /\ O = msgs[q] /\ w = v(q) /\ n = call[p]
    OBVIOUS
  <2>2. n \in DOMAIN Plan /\ Conveys(O, p, q, n, w, 4, {4, 5})
    BY <1>1, <1>4, <2>1
  <2>3. ASSUME NEW s \in {4, 5}, Has(p, q, n, s) PROVE Honest(Carried(p, q, n, s, w), p, n, sh)
    <3>1. s = 4 => w[p] \in Of(Parties)
      <4>1. s = 4 => HasValues(Plan[n], p)
        BY <2>3 DEF Has
      <4> QED
        BY <1>2, <1>6, <2>1, <4>1 DEF Cur
    <3>2. s = 5 => w[0] \in Of(Parties)
      <4>1. s = 5 => Plan[n].nonce /\ p = 1
        BY <2>3 DEF Has
      <4> QED
        BY <1>6, <1>10, <2>1, <4>1 DEF Cur
    <3> QED
      BY <2>2, <3>1, <3>2, CarriedSums
  <2>4. AllHonest(O, p, n, sh)
    BY <2>2, <2>3, HonestSends
  <2> QED
    BY <2>1, <2>4
<1> QED
  BY <1>2, <1>8, <1>9, <1>10

-----------------------------------------------------------------------------
(* m is a message for the read r in call n.                                *)
Fits(m, r, n) == m.call = n /\ m.kind = r.kind /\ (r.blocks # {} => DOMAIN m.data = r.blocks)

(* What a read takes is what the peer has shown, or shares, or sums.       *)
LEMMA TakeSays ==
  ASSUME FlowInv, MsgInv, NEW p \in Parties, Take(p), NEW r, r = Reads(p)[k[p]],
         NEW m, m = NextMsg(p, r.from), Has(r.from, p, call[p], Slot(r))
  PROVE  /\ Fits(m, r, call[p])
         /\ Honest(m, r.from, call[r.from], shown[r.from])
         /\ call[p] <= call[r.from]
         /\ vals' = [vals EXCEPT ![p] = [b \in DOMAIN vals[p] |->
                IF b \notin r.blocks THEN vals[p][b]
                ELSE IF r.kind \in {"sum", "nonceSum"} THEN m.data[b]
                ELSE Plus(vals[p][b], m.data[b])]]
         /\ agree' = [agree EXCEPT ![p] = Compared(p, r.kind, m)]
         /\ LET lastDigest == r.kind = "digest" /\ r.from = PeerAt(p, NumPeers)
            IN  /\ bad' = [bad EXCEPT ![p] = bad[p] \/ (lastDigest /\ ~Compared(p, r.kind, m))]
                /\ consHash' = [consHash EXCEPT ![p] = IF lastDigest THEN << >> ELSE consHash[p]]
<1>1. Reading(p)
  BY DEF Take
<1>2. PICK n, st, i : n = call[p] /\ st = pc[p] /\ i = k[p]
  OBVIOUS
<1>3. /\ n \in DOMAIN Plan /\ st \in Stages /\ i \in 1..Len(ListOf(st, p, n))
      /\ r = ListOf(st, p, n)[i] /\ (st = "sums" => Plan[n].mode = "pking")
  BY <1>1, <1>2, ReadFacts
<1>4. /\ r.from \in Parties \ {p} /\ Slot(r) \in 1..5 /\ r = ReadAt(r.from, p, n, Slot(r))
      /\ Slot(r) \in 1..3 <=> st = "shares"
      /\ Slot(r) # 2 /\ Slot(r) # 4 => Has(r.from, p, n, Slot(r))
  BY <1>3, StepFacts DEF Stages
<1>5. read[r.from][p] < flushed[r.from][p]
  BY <1>2, TakeFacts
<1>6. Fits(m, r, call[p]) /\ call[p] <= call[r.from]
  <2>1. RightMsg(m, r.from, p, n, Slot(r)) /\ call[r.from] >= call[p]
    BY <1>1, <1>2, <1>5, NextIsRight
  <2>2. call[r.from] \in Nat /\ call[p] \in Nat
    BY <1>4, Counts DEF FlowInv
  <2> QED
    BY <1>2, <1>4, <2>1, <2>2 DEF RightMsg, Fits
<1>7. Honest(m, r.from, call[r.from], shown[r.from])
  <2>1. PICK x, f, L : x = read[r.from][p] /\ f = flushed[r.from][p] /\ L = Len(log[r.from][p])
    OBVIOUS
  <2>2. x \in Nat /\ f \in Nat /\ L \in Nat /\ x < f /\ f <= L
    BY <1>4, <1>5, <2>1, SMTT(30) DEF FlowInv, NetType, IsSeq
  <2>3. x + 1 \in 1..L
    BY <2>2
  <2>4. m = log[r.from][p][x + 1]
    BY <2>1 DEF NextMsg
  <2> QED
    BY <1>4, <2>1, <2>3, <2>4 DEF MsgInv, AllHonest
<1>8. ~(r.kind \in {"share", "sum"} /\ \A b \in r.blocks : ~HasValues(Cur(p), b))
  <2>1. Slot(r) \in {4, 5} => Plan[n].mode = "pking"
    BY <1>3, <1>4 DEF Stages
  <2> QED
    BY <1>2, <1>3, <1>4, <2>1, EmptyFacts DEF Cur
<1> QED
  BY <1>6, <1>7, <1>8 DEF Take

(* A read of nothing does nothing.                                         *)
LEMMA TakeNothing ==
  ASSUME FlowInv, NEW p \in Parties, Take(p), NEW r, r = Reads(p)[k[p]], ~Has(r.from, p, call[p], Slot(r))
  PROVE  UNCHANGED <<vals, agree, bad, consHash>>
<1>1. Reading(p)
  BY DEF Take
<1>2. PICK n, st, i : n = call[p] /\ st = pc[p] /\ i = k[p]
  OBVIOUS
<1>3. /\ n \in DOMAIN Plan /\ st \in Stages /\ i \in 1..Len(ListOf(st, p, n))
      /\ r = ListOf(st, p, n)[i] /\ (st = "sums" => Plan[n].mode = "pking")
  BY <1>1, <1>2, ReadFacts
<1>4. /\ r.from \in Parties \ {p} /\ Slot(r) \in 1..5 /\ r = ReadAt(r.from, p, n, Slot(r))
      /\ Slot(r) \in 1..3 <=> st = "shares"
      /\ Slot(r) # 2 /\ Slot(r) # 4 => Has(r.from, p, n, Slot(r))
  BY <1>3, StepFacts DEF Stages
<1>5. r.kind \in {"share", "sum"} /\ \A b \in r.blocks : ~HasValues(Cur(p), b)
  <2>1. Slot(r) \in {4, 5} => Plan[n].mode = "pking"
    BY <1>3, <1>4 DEF Stages
  <2> QED
    BY <1>2, <1>3, <1>4, <2>1, EmptyFacts DEF Cur
<1> QED
  BY <1>5 DEF Take

-----------------------------------------------------------------------------
(* The first reads of a call that compares: digests of all in turn, and    *)
(* then shares; or bits of all.                                            *)
LEMMA HeadFacts ==
  ASSUME NEW p \in Parties, NEW n \in DOMAIN Plan, NEW i \in 1..Len(FirstReads[p][n]),
         NEW r, r = FirstReads[p][n][i]
  PROVE  /\ Plan[n].check => (r.kind = "digest" <=> i <= NumPeers)
         /\ Plan[n].check /\ i <= NumPeers => r = Read(PeerAt(p, i), "digest", {})
         /\ ~Plan[n].check => r.kind # "digest"
         /\ Plan[n].mode = "accept" => i <= NumPeers /\ r = Read(PeerAt(p, i), "bit", {})
<1>1. /\ Len(Digests(p, Plan[n])) = IF Plan[n].check THEN NumPeers ELSE 0
      /\ ListOK(Digests(p, Plan[n]), p, n, {1}) /\ ListOK(Shares(p, Plan[n]), p, n, {2, 3})
  BY DigestsOK, SharesOK
<1>2. Slot(r) = 1 <=> i <= Len(Digests(p, Plan[n]))
  BY FirstOK
<1>3. Slot(r) = 1 <=> r.kind = "digest"
  BY DEF Slot, SlotOf
<1>4. NumPeers \in Nat /\ i \in Nat /\ i >= 1
  BY PeerFacts
<1>5. PICK D, B : D = Digests(p, Plan[n]) /\ B = Shares(p, Plan[n]) /\ FirstReads[p][n] = D \o B
  BY DEF FirstReads
<1>6. /\ IsSeq(D) /\ IsSeq(B) /\ \A j \in 1..Len(D) : (D \o B)[j] = D[j]
  BY <1>1, <1>5, Joined DEF ListOK
<1>7. ASSUME Plan[n].check, i <= NumPeers PROVE r = Read(PeerAt(p, i), "digest", {})
  <2>1. i \in 1..Len(D)
    BY <1>1, <1>4, <1>5, <1>7
  <2>2. r = D[i]
    BY <1>5, <1>6, <2>1
  <2>3. D = [j \in 1..NumPeers |-> Read(PeerAt(p, j), "digest", {})]
    BY <1>5, <1>7 DEF Digests, Only
  <2> QED
    BY <1>4, <1>7, <2>2, <2>3
<1>8. ASSUME Plan[n].mode = "accept" PROVE i <= NumPeers /\ r = Read(PeerAt(p, i), "bit", {})
  <2>1. ~Plan[n].check /\ ~Plan[n].nonce
    BY <1>8, PlanFacts
  <2>2. D = << >>
    BY <1>5, <2>1 DEF Digests, Only
  <2>3. B = [j \in 1..NumPeers |-> Read(PeerAt(p, j), "bit", {})]
    <3>1. \A j \in 1..NumPeers : Share(p, Plan[n], PeerAt(p, j)) = Read(PeerAt(p, j), "bit", {})
      BY <1>8 DEF Share
    <3>2. B = [j \in 1..NumPeers |-> Share(p, Plan[n], PeerAt(p, j))]
      BY <1>5, <2>1 DEF Shares
    <3> QED
      BY <3>1, <3>2
  <2>4. << >> \o B = B
    <3>1. PICK S : B \in Seq(S)
      BY <1>6 DEF IsSeq
    <3> QED
      BY <3>1
  <2>5. FirstReads[p][n] = B
    BY <1>5, <2>2, <2>4
  <2>6. Len(B) = NumPeers
    <3>1. B = [j \in 1..NumPeers |-> B[j]]
      BY <2>3
    <3> QED
      BY <1>4, <3>1, Listed
  <2> QED
    BY <1>4, <2>3, <2>5, <2>6
<1> QED
  BY <1>1, <1>2, <1>3, <1>4, <1>7, <1>8

(* The digests are part of the first reads.                                *)
LEMMA DigestsWithin ==
  ASSUME NEW p \in Parties, NEW n \in DOMAIN Plan
  PROVE  /\ Len(Digests(p, Plan[n])) = IF Plan[n].check THEN NumPeers ELSE 0
         /\ NumPeers \in Nat /\ NumPeers >= 1 /\ Len(FirstReads[p][n]) \in Nat
         /\ Len(Digests(p, Plan[n])) <= Len(FirstReads[p][n])
         /\ Plan[n].mode = "accept" => Len(FirstReads[p][n]) = NumPeers
<1>1. /\ Len(Digests(p, Plan[n])) = IF Plan[n].check THEN NumPeers ELSE 0
      /\ ListOK(Digests(p, Plan[n]), p, n, {1}) /\ ListOK(Shares(p, Plan[n]), p, n, {2, 3})
  BY DigestsOK, SharesOK
<1>2. NumPeers \in Nat /\ NumPeers >= 1
  BY PeerFacts
<1>5. PICK D, B : D = Digests(p, Plan[n]) /\ B = Shares(p, Plan[n]) /\ FirstReads[p][n] = D \o B
  BY DEF FirstReads
<1>6. Len(D \o B) = Len(D) + Len(B) /\ Len(D) \in Nat /\ Len(B) \in Nat
  BY <1>1, <1>5, Joined DEF ListOK
<1>7. PICK w, d, b : w = Len(FirstReads[p][n]) /\ d = Len(D) /\ b = Len(B) /\ w = d + b /\ d \in Nat /\ b \in Nat
  BY <1>5, <1>6
<1>8. d <= w /\ w \in Nat
  BY <1>7
<1>9. Plan[n].mode = "accept" => Len(FirstReads[p][n]) = NumPeers
  <2>1. SUFFICES ASSUME Plan[n].mode = "accept" PROVE w = NumPeers
    BY <1>7
  <2>2. ~Plan[n].check /\ ~Plan[n].nonce
    BY <2>1, PlanFacts
  <2>3. d = 0
    BY <1>1, <1>5, <1>7, <2>2
  <2>4. B = [j \in 1..NumPeers |-> B[j]]
    BY <1>5, <2>2 DEF Shares
  <2>5. b = NumPeers
    BY <1>2, <1>7, <2>4, Listed
  <2> QED
    BY <1>2, <1>7, <2>3, <2>5
<1> QED
  BY <1>1, <1>2, <1>5, <1>7, <1>8, <1>9

-----------------------------------------------------------------------------
(* v with what m brings for the read r.                                    *)
Entered(v, r, m) ==
  [b \in DOMAIN v |-> IF b \notin r.blocks THEN v[b]
                      ELSE IF r.kind \in {"sum", "nonceSum"} THEN m.data[b]
                      ELSE Plus(v[b], m.data[b])]

(* A read opens what it says: the share of a party whose share is not in   *)
(* there yet, or a sum.                                                    *)
LEMMA TakeOpens ==
  ASSUME NEW p \in Parties, NEW n \in DOMAIN Plan, NEW stage \in Stages,
         stage = "sums" => Plan[n].mode = "pking",
         NEW i \in 1..Len(ListOf(stage, p, n)), NEW r, r = ListOf(stage, p, n)[i],
         NEW v, DOMAIN v = Blocks \cup {0}, Opened(v, p, stage, i, n),
         NEW m, NEW c, NEW sh, NEW w,
         IF Has(r.from, p, n, Slot(r))
         THEN /\ w = Entered(v, r, m) /\ Honest(m, r.from, c, sh)
              /\ Fits(m, r, n)
         ELSE w = v
  PROVE  DOMAIN w = Blocks \cup {0} /\ Opened(w, p, stage, i + 1, n)
<1> DEFINE a == r.from
           s == Slot(r)
<1>1. /\ a \in Parties \ {p} /\ s \in 1..5 /\ r = ReadAt(a, p, n, s)
      /\ s \in 1..3 <=> stage = "shares"
      /\ \A x, t : ReadOf(stage, i + 1, p, x, n, t) <=>
                     ReadOf(stage, i, p, x, n, t) \/ (x = a /\ t = s)
      /\ ~ReadOf(stage, i, p, a, n, s)
  BY StepFacts DEF Stages
<1>2. /\ s = 1 => r.kind = "digest"
      /\ s = 2 => r.kind = IF Plan[n].mode = "accept" THEN "bit" ELSE "share"
      /\ s = 3 => r.kind = "nonce"
      /\ s = 4 => r.kind = "sum"
      /\ s = 5 => r.kind = "nonceSum"
  <2>1. SUFFICES ASSUME NEW x, NEW t \in 1..5, x = a, t = s
                 PROVE  /\ t = 1 => ReadAt(x, p, n, t).kind = "digest"
                        /\ t = 2 => ReadAt(x, p, n, t).kind =
                                      IF Plan[n].mode = "accept" THEN "bit" ELSE "share"
                        /\ t = 3 => ReadAt(x, p, n, t).kind = "nonce"
                        /\ t = 4 => ReadAt(x, p, n, t).kind = "sum"
                        /\ t = 5 => ReadAt(x, p, n, t).kind = "nonceSum"
    BY <1>1
  <2> QED
    BY SlotFacts
<1>3. /\ s \in {1, 3, 5} => r.blocks \in SUBSET {0}
      /\ s = 2 /\ Plan[n].mode = "pking" => r.blocks = {p}
      /\ s = 2 /\ Plan[n].mode = "broadcast" => r.blocks = Blocks
      /\ s = 4 => r.blocks = {a}
  BY <1>1 DEF ReadAt, Read, Share
<1>4. p \in Blocks /\ a \in Blocks /\ 0 \notin Blocks /\ a # p
  BY <1>1 DEF Parties, Blocks
<1>5. /\ s = 2 => GotAt(p, stage, i + 1, n) = GotAt(p, stage, i, n) \cup {a}
      /\ s = 2 => a \notin GotAt(p, stage, i, n)
      /\ s # 2 => GotAt(p, stage, i + 1, n) = GotAt(p, stage, i, n)
      /\ \A b : SumAt(p, b, stage, i + 1, n) <=> SumAt(p, b, stage, i, n) \/ (b = a /\ s = 4)
  <2>1. \A x : ReadOf(stage, i + 1, p, x, n, 2) <=> ReadOf(stage, i, p, x, n, 2) \/ (x = a /\ s = 2)
    BY <1>1
  <2>2. \A b : SumAt(p, b, stage, i + 1, n) <=> SumAt(p, b, stage, i, n) \/ (b = a /\ s = 4)
    <3>1. s = 4 => stage = "sums"
      BY <1>1 DEF Stages
    <3> QED
      BY <1>1, <3>1 DEF SumAt
  <2>3. s = 2 => a \notin GotAt(p, stage, i, n)
    BY <1>1, <1>4 DEF GotAt
  <2>4. s = 2 => GotAt(p, stage, i + 1, n) = GotAt(p, stage, i, n) \cup {a}
    BY <1>1, <2>1 DEF GotAt
  <2>5. s # 2 => GotAt(p, stage, i + 1, n) = GotAt(p, stage, i, n)
    BY <2>1 DEF GotAt
  <2> QED
    BY <2>2, <2>3, <2>4, <2>5
<1> HIDE DEF a, s
<1>6. Has(a, p, n, s) => /\ w = Entered(v, r, m) /\ Honest(m, a, c, sh)
                         /\ m.kind = r.kind /\ (r.blocks # {} => DOMAIN m.data = r.blocks)
  BY DEF a, s, Fits
<1>7. ~Has(a, p, n, s) => w = v
  BY DEF a, s
<1>8. DOMAIN w = Blocks \cup {0}
  BY <1>6, <1>7 DEF Entered
<1>9. \A b \in Blocks : b \notin r.blocks => w[b] = v[b]
  BY <1>6, <1>7 DEF Entered
<1>10. CASE s \in {1, 3, 5}
  <2>1. \A b \in Blocks : w[b] = v[b]
    BY <1>3, <1>4, <1>9, <1>10
  <2>2. /\ GotAt(p, stage, i + 1, n) = GotAt(p, stage, i, n)
        /\ \A b : SumAt(p, b, stage, i + 1, n) <=> SumAt(p, b, stage, i, n)
    BY <1>5, <1>10
  <2> QED
    BY <1>4, <1>8, <2>1, <2>2 DEF Opened
<1>11. CASE s = 2
  <2>1. \A b \in Blocks : ~SumAt(p, b, stage, i + 1, n)
    BY <1>1, <1>11 DEF SumAt, s
  <2>2. ASSUME Has(a, p, n, s), Plan[n].mode # "accept", NEW b \in r.blocks, b \in Blocks,
               v[b] \in Of(GotAt(p, stage, i, n))
        PROVE  w[b] \in Of(GotAt(p, stage, i + 1, n))
    <3>1. w[b] = Plus(v[b], m.data[b])
      BY <1>2, <1>6, <1>11, <2>2 DEF Entered
    <3>2. m.data[b] \in Of({a})
      BY <1>2, <1>6, <1>11, <2>2 DEF Honest
    <3>3. PICK S, x, y : S = GotAt(p, stage, i, n) /\ x = v[b] /\ y = m.data[b]
      OBVIOUS
    <3>4. Plus(x, y) \in Of(S \cup {a})
      BY <1>5, <1>11, <2>2, <3>2, <3>3, PlusOf
    <3> QED
      BY <1>5, <1>11, <3>1, <3>3, <3>4
  <2>3. CASE Plan[n].mode = "broadcast"
    <3>1. Has(a, p, n, s) /\ \A b \in Blocks : b \in r.blocks
      BY <1>3, <1>11, <2>3 DEF Has
    <3>2. \A b \in Blocks : v[b] \in Of(GotAt(p, stage, i, n))
      BY <2>3 DEF Opened
    <3>3. \A b \in Blocks : w[b] \in Of(GotAt(p, stage, i + 1, n))
      BY <2>2, <2>3, <3>1, <3>2
    <3> QED
      BY <1>8, <2>3, <3>3 DEF Opened
  <2>4. CASE Plan[n].mode = "pking"
    <3>1. HasValues(Plan[n], p) => w[p] \in Of(GotAt(p, stage, i + 1, n))
      <4>1. SUFFICES ASSUME HasValues(Plan[n], p) PROVE w[p] \in Of(GotAt(p, stage, i + 1, n))
        OBVIOUS
      <4>2. Has(a, p, n, s) /\ p \in r.blocks /\ v[p] \in Of(GotAt(p, stage, i, n))
        BY <1>3, <1>11, <2>4, <4>1 DEF Has, Opened
      <4> QED
        BY <1>4, <2>2, <2>4, <4>2
    <3> QED
      BY <1>8, <2>1, <2>4, <3>1 DEF Opened
  <2>5. CASE Plan[n].mode \notin {"broadcast", "pking"}
    BY <1>8, <2>5 DEF Opened
  <2> QED
    BY <2>3, <2>4, <2>5
<1>12. CASE s = 4
  <2>1. stage = "sums" /\ Plan[n].mode = "pking"
    BY <1>1, <1>12 DEF Stages, s
  <2>2. HasValues(Plan[n], p) => w[p] \in Of(GotAt(p, stage, i + 1, n))
    BY <1>3, <1>4, <1>5, <1>9, <1>12, <2>1 DEF Opened
  <2>3. ASSUME NEW b \in Blocks \ {p}, HasValues(Plan[n], b), SumAt(p, b, stage, i + 1, n)
        PROVE  w[b] \in Of(Parties)
    <3>1. CASE b = a
      <4>1. Has(a, p, n, s)
        BY <1>12, <2>1, <2>3, <3>1 DEF Has
      <4>2. w[b] = m.data[b] /\ b \in DOMAIN m.data
        BY <1>2, <1>3, <1>6, <1>12, <3>1, <4>1 DEF Entered
      <4> QED
        BY <1>2, <1>6, <1>12, <4>1, <4>2 DEF Honest
    <3>2. CASE b # a
      BY <1>3, <1>5, <1>9, <1>12, <2>1, <2>3, <3>2 DEF Opened
    <3> QED
      BY <3>1, <3>2
  <2> QED
    BY <1>8, <2>1, <2>2, <2>3 DEF Opened
<1> QED
  BY <1>1, <1>10, <1>11, <1>12 DEF s

(* A read brings a share of the nonce that is not in there yet, or party 1's *)
(* sum of them, or nothing of the nonce.                                   *)
LEMMA TakeNonce ==
  ASSUME NEW p \in Parties, NEW n \in DOMAIN Plan, NEW stage \in Stages,
         stage = "sums" => Plan[n].mode = "pking",
         NEW i \in 1..Len(ListOf(stage, p, n)), NEW r, r = ListOf(stage, p, n)[i],
         NEW v, DOMAIN v = Blocks \cup {0}, NonceOpened(v, p, stage, i, n),
         NEW m, NEW c, NEW sh, NEW w,
         IF Has(r.from, p, n, Slot(r))
         THEN /\ w = Entered(v, r, m) /\ Honest(m, r.from, c, sh)
              /\ Fits(m, r, n)
         ELSE w = v
  PROVE  NonceOpened(w, p, stage, i + 1, n)
<1> DEFINE a == r.from
           s == Slot(r)
<1>1. /\ a \in Parties \ {p} /\ s \in 1..5 /\ r = ReadAt(a, p, n, s)
      /\ s \in 1..3 <=> stage = "shares"
      /\ s # 2 /\ s # 4 => Has(a, p, n, s)
      /\ \A x, t : ReadOf(stage, i + 1, p, x, n, t) <=>
                     ReadOf(stage, i, p, x, n, t) \/ (x = a /\ t = s)
      /\ ~ReadOf(stage, i, p, a, n, s)
  BY StepFacts DEF Stages
<1>2. /\ s = 3 => r.kind = "nonce" /\ r.blocks = {0}
      /\ s = 5 => r.kind = "nonceSum" /\ r.blocks = {0}
      /\ s \notin {3, 5} => 0 \notin r.blocks
  <2>1. 0 \notin Blocks /\ p \in Blocks /\ a \in Blocks
    BY <1>1 DEF Parties, Blocks
  <2>2. \A x : /\ ReadAt(x, p, n, 3) = Read(x, "nonce", {0})
              /\ ReadAt(x, p, n, 5) = Read(x, "nonceSum", {0})
              /\ ReadAt(x, p, n, 1).blocks = {} /\ ReadAt(x, p, n, 4).blocks = {x}
              /\ ReadAt(x, p, n, 2).blocks \in {{}, {p}, Blocks}
    <3>1. Plan[n].mode \in {"pking", "broadcast", "accept"}
      BY PlanFacts
    <3> QED
      BY <3>1 DEF ReadAt, Read, Share
  <2> HIDE DEF a, s
  <2> QED
    BY <1>1, <2>1, <2>2 DEF Read
<1>3. Has(a, p, n, s) => /\ w = Entered(v, r, m) /\ Honest(m, a, c, sh)
                         /\ m.kind = r.kind /\ (r.blocks # {} => DOMAIN m.data = r.blocks)
  BY DEF Fits
<1>4. ~Has(a, p, n, s) => w = v
  OBVIOUS
<1> HIDE DEF a, s
<1>5. 0 \notin r.blocks => w[0] = v[0]
  BY <1>3, <1>4 DEF Entered
<1>6. SUFFICES ASSUME Plan[n].nonce PROVE NonceOpened(w, p, stage, i + 1, n)
  BY DEF NonceOpened
<1>7. CASE s = 3
  <2>1. stage = "shares" /\ Has(a, p, n, 3)
    BY <1>1, <1>7
  <2>2. w[0] = Plus(v[0], m.data[0]) /\ m.data[0] \in Of({a})
    BY <1>2, <1>3, <1>7, <2>1 DEF Entered, Honest
  <2>3. PICK S, x, y : S = NoncesAt(p, stage, i, n) /\ x = v[0] /\ y = m.data[0]
    OBVIOUS
  <2>4. a \notin S /\ NoncesAt(p, stage, i + 1, n) = S \cup {a}
    BY <1>1, <1>7, <2>3 DEF NoncesAt
  <2>5. x \in Of(S)
    BY <1>6, <2>1, <2>3 DEF NonceOpened, Has
  <2>6. Plus(x, y) \in Of(S \cup {a})
    BY <2>2, <2>3, <2>4, <2>5, PlusOf
  <2> QED
    BY <2>1, <2>2, <2>3, <2>4, <2>6 DEF NonceOpened
<1>8. CASE s = 5
  <2>1. stage = "sums" /\ Has(a, p, n, 5)
    BY <1>1, <1>8 DEF Stages
  <2>2. w[0] = m.data[0] /\ m.data[0] \in Of(Parties)
    BY <1>2, <1>3, <1>8, <2>1 DEF Entered, Honest
  <2>3. a = 1 /\ p # 1 /\ Plan[n].mode = "pking"
    BY <1>1, <2>1 DEF Has
  <2> QED
    BY <2>2, <2>3 DEF NonceOpened
<1>9. CASE s \notin {3, 5}
  <2>1. w[0] = v[0]
    BY <1>2, <1>5, <1>9
  <2>2. /\ NoncesAt(p, stage, i + 1, n) = NoncesAt(p, stage, i, n)
        /\ ReadOf(stage, i + 1, p, 1, n, 5) <=> ReadOf(stage, i, p, 1, n, 5)
    BY <1>1, <1>9 DEF NoncesAt
  <2> QED
    BY <2>1, <2>2 DEF NonceOpened
<1> QED
  BY <1>7, <1>8, <1>9

-----------------------------------------------------------------------------
(* Where the last digest of a call is read.                                *)
AtLast(p) == pc[p] = "shares" /\ Cur(p).check /\ k[p] = NumPeers

(* The last digest clears what was kept, and leaves a mark if not all have *)
(* been the same; no other read does.                                      *)
LEMMA TakeChecks ==
  ASSUME FlowInv, MsgInv, VarsInv, NEW p \in Parties, Take(p)
  PROVE  /\ consHash' = [consHash EXCEPT ![p] = IF AtLast(p) THEN << >> ELSE consHash[p]]
         /\ bad' = [bad EXCEPT ![p] = bad[p] \/ (AtLast(p) /\ ~agree'[p])]
<1>1. Reading(p)
  BY DEF Take
<1>2. PICK n, st, i, r : n = call[p] /\ st = pc[p] /\ i = k[p] /\ r = Reads(p)[k[p]]
  OBVIOUS
<1>3. /\ n \in DOMAIN Plan /\ st \in Stages /\ i \in 1..Len(ListOf(st, p, n))
      /\ r = ListOf(st, p, n)[i] /\ (st = "sums" => Plan[n].mode = "pking")
  BY <1>1, <1>2, ReadFacts
<1>4. /\ r.from \in Parties \ {p} /\ Slot(r) \in 1..5 /\ r = ReadAt(r.from, p, n, Slot(r))
      /\ Slot(r) \in 1..3 <=> st = "shares"
      /\ Slot(r) # 2 /\ Slot(r) # 4 => Has(r.from, p, n, Slot(r))
  BY <1>3, StepFacts DEF Stages
<1>5. Slot(r) = 1 <=> r.kind = "digest"
  BY DEF Slot, SlotOf
<1> DEFINE last == r.kind = "digest" /\ r.from = PeerAt(p, NumPeers)
<1>6. last <=> AtLast(p)
  <2>1. CASE st = "shares"
    <3>1. i \in 1..Len(FirstReads[p][n]) /\ r = FirstReads[p][n][i]
      BY <1>3, <2>1 DEF ListOf
    <3>2. /\ Plan[n].check => (r.kind = "digest" <=> i <= NumPeers)
          /\ Plan[n].check /\ i <= NumPeers => r = Read(PeerAt(p, i), "digest", {})
          /\ ~Plan[n].check => r.kind # "digest"
      BY <1>3, <3>1, HeadFacts
    <3>3. NumPeers \in Nat /\ \A x, y \in 1..NumPeers : PeerAt(p, x) = PeerAt(p, y) => x = y
      BY PeerFacts
    <3>4. i \in Nat /\ i >= 1
      BY <3>1
    <3>5. i = NumPeers => i <= NumPeers
      BY <3>3, <3>4
    <3>6. Plan[n].check /\ i <= NumPeers => (r.from = PeerAt(p, NumPeers) <=> i = NumPeers)
      <4>1. i <= NumPeers => i \in 1..NumPeers /\ NumPeers \in 1..NumPeers
        BY <3>3, <3>4
      <4> QED
        BY <3>2, <3>3, <4>1 DEF Read
    <3> QED
      BY <1>2, <2>1, <3>2, <3>5, <3>6 DEF AtLast, Cur
  <2>2. CASE st = "sums"
    BY <1>2, <1>4, <1>5, <2>2 DEF AtLast
  <2> QED
    BY <1>3, <2>1, <2>2 DEF Stages
<1>7. CASE Has(r.from, p, n, Slot(r))
  <2>1. PICK m : m = NextMsg(p, r.from)
    OBVIOUS
  <2>2. /\ agree' = [agree EXCEPT ![p] = Compared(p, r.kind, m)]
        /\ bad' = [bad EXCEPT ![p] = bad[p] \/ (last /\ ~Compared(p, r.kind, m))]
        /\ consHash' = [consHash EXCEPT ![p] = IF last THEN << >> ELSE consHash[p]]
    BY <1>2, <1>7, <2>1, TakeSays
  <2>3. agree'[p] = Compared(p, r.kind, m)
    BY <2>2 DEF VarsInv
  <2> QED
    BY <1>6, <2>2, <2>3
<1>8. CASE ~Has(r.from, p, n, Slot(r))
  <2>1. UNCHANGED <<agree, bad, consHash>>
    BY <1>2, <1>8, TakeNothing
  <2>2. ~AtLast(p)
    BY <1>4, <1>5, <1>6, <1>8
  <2>3. consHash = [consHash EXCEPT ![p] = consHash[p]]
    BY DEF VarsInv, Whatever
  <2>4. bad = [bad EXCEPT ![p] = bad[p] \/ FALSE]
    BY DEF VarsInv
  <2> QED
    BY <2>1, <2>2, <2>3, <2>4
<1> QED
  BY <1>7, <1>8

(* A digest, or a bit, is read from a party that has entered the call, and  *)
(* tells whether that party agrees.                                        *)
LEMMA TakeCompares ==
  ASSUME FlowInv, MsgInv, VarsInv, ShownInv, NEW p \in Parties, AgreeInv(p), Take(p), pc[p] = "shares",
         NEW n, n = call[p], NEW i, i = k[p], Plan[n].check \/ Plan[n].mode = "accept"
  PROVE  /\ i <= NumPeers => n <= call[PeerAt(p, i)]
         /\ Plan[n].mode = "accept" => i <= NumPeers
         /\ i <= NumPeers => (agree'[p] <=> agree[p] /\ Agrees(p, PeerAt(p, i), n))
<1>1. Reading(p)
  BY DEF Take
<1>2. PICK r : r = Reads(p)[k[p]]
  OBVIOUS
<1>3. n \in DOMAIN Plan /\ i \in 1..Len(FirstReads[p][n]) /\ r = FirstReads[p][n][i]
  BY <1>1, <1>2, ReadFacts DEF ListOf
<1>4. /\ Plan[n].check /\ i <= NumPeers => r = Read(PeerAt(p, i), "digest", {})
      /\ Plan[n].mode = "accept" => i <= NumPeers /\ r = Read(PeerAt(p, i), "bit", {})
  BY <1>3, HeadFacts
<1>5. ASSUME i <= NumPeers
      PROVE  n <= call[PeerAt(p, i)] /\ (agree'[p] <=> agree[p] /\ Agrees(p, PeerAt(p, i), n))
  <2>1. r.from = PeerAt(p, i) /\ i \in 1..NumPeers /\ r.kind = IF Plan[n].check THEN "digest" ELSE "bit"
    <3>1. i \in 1..NumPeers
      BY <1>3, <1>5, PeerFacts
    <3>2. Plan[n].mode = "accept" => ~Plan[n].check
      BY <1>3, PlanFacts
    <3> QED
      BY <1>4, <1>5, <3>1, <3>2 DEF Read
  <2>2. Has(r.from, p, n, Slot(r))
    <3>1. Slot(r) = IF Plan[n].check THEN 1 ELSE 2
      BY <2>1 DEF Slot, SlotOf
    <3>2. Plan[n].mode = "accept" => Plan[n].mode # "pking"
      OBVIOUS
    <3> QED
      BY <3>1, <3>2 DEF Has
  <2>3. PICK a, m : a = r.from /\ m = NextMsg(p, r.from)
    OBVIOUS
  <2>4. /\ Fits(m, r, n) /\ Honest(m, a, call[a], shown[a]) /\ n <= call[a]
        /\ agree' = [agree EXCEPT ![p] = Compared(p, r.kind, m)]
    BY <1>2, <2>2, <2>3, TakeSays
  <2>5. m.data = shown[a][n]
    BY <2>1, <2>4 DEF Honest, Fits
  <2>6. agree'[p] = Compared(p, r.kind, m) /\ agree[p] \in BOOLEAN
    BY <2>4 DEF VarsInv
  <2>7. CASE Plan[n].check
    <3>1. Plan[n].mode # "accept"
      BY <1>3, <2>7, PlanFacts
    <3>2. consHash[p] = shown[p][n]
      BY <1>5, <2>7 DEF AgreeInv, Cur
    <3>3. Compared(p, r.kind, m) = (agree[p] /\ m.data = consHash[p])
      BY <2>1, <2>7 DEF Compared
    <3>4. Agrees(p, a, n) <=> shown[a][n] = shown[p][n]
      BY <3>1 DEF Agrees
    <3> QED
      BY <2>1, <2>3, <2>4, <2>5, <2>6, <3>2, <3>3, <3>4
  <2>8. CASE ~Plan[n].check
    <3>1. Compared(p, r.kind, m) = (agree[p] /\ m.data)
      BY <2>1, <2>8 DEF Compared
    <3>2. shown[a][n] \in BOOLEAN
      <4>1. a \in Parties \ {p} /\ call[a] \in Nat /\ n \in Nat /\ n >= 1
        <5>1. a \in Parties \ {p}
          BY <1>2, <2>3, TakeFacts
        <5>2. n \in Nat /\ n # 0
          BY <1>3, PlanFacts
        <5> QED
          BY <5>1, <5>2, Counts, SMTT(30) DEF FlowInv
      <4>2. n \in 1..call[a]
        BY <2>4, <4>1
      <4> QED
        BY <2>8, <4>1, <4>2 DEF ShownInv
    <3>3. Agrees(p, a, n) <=> shown[a][n] = TRUE
      BY <2>8 DEF Agrees
    <3> QED
      BY <2>1, <2>3, <2>4, <2>5, <2>6, <3>1, <3>2, <3>3
  <2> QED
    BY <2>7, <2>8
<1> QED
  BY <1>4, <1>5

-----------------------------------------------------------------------------
(* What others do: calls and what is shown only grow.                      *)
Grows == \A a \in Parties : call[a] <= call'[a] /\ \A n \in 1..call[a] : shown'[a][n] = shown[a][n]

Rests(a) == /\ pc'[a] = pc[a] /\ k'[a] = k[a] /\ call'[a] = call[a] /\ vals'[a] = vals[a]
            /\ consHash'[a] = consHash[a] /\ agree'[a] = agree[a]

(* A party that rests in a call keeps what it knows of the others.         *)
LEMMA OthersAgree ==
  ASSUME FlowInv, FlowInv', Grows, NEW a \in Parties, Rests(a), AgreeInv(a)
  PROVE  AgreeInv(a)'
<1>1. SUFFICES ASSUME pc[a] = "shares", Cur(a).check \/ Cur(a).mode = "accept" PROVE AgreeInv(a)'
  BY DEF AgreeInv, Rests, Cur
<1>2. PICK n, m : n = call[a] /\ m = k[a] /\ n = call'[a] /\ m = k'[a]
  BY DEF Rests
<1>3. n \in DOMAIN Plan /\ n \in Nat /\ n >= 1 /\ \A x \in Parties : call[x] \in Nat /\ call'[x] \in Nat
  <2>1. FlowType /\ NetType /\ FlowType' /\ pc[a] \in Stages
    BY <1>1 DEF FlowInv, Stages
  <2>2. call[a] # 0 /\ call[a] \in DOMAIN Plan
    BY <2>1, Counts DEF FlowType
  <2>3. \A x \in Parties : call[x] \in Nat /\ call'[x] \in Nat
    BY <2>1, ReconstructAssumption DEF FlowType
  <2>4. n \in Nat /\ n # 0
    BY <1>2, <2>2, PlanFacts
  <2> QED
    BY <1>2, <2>2, <2>3, <2>4
<1>4. /\ \A i \in 1..NumPeers : i < m => n <= call[PeerAt(a, i)]
      /\ Plan[n].check /\ m <= NumPeers => consHash[a] = shown[a][n]
      /\ m <= NumPeers \/ Plan[n].mode = "accept" => (agree[a] <=> Agreed(a, n, m))
  BY <1>1, <1>2 DEF AgreeInv, Cur
<1>5. \A x \in Parties : n <= call[x] => n <= call'[x] /\ shown'[x][n] = shown[x][n]
  <2>1. TAKE x \in Parties
  <2>2. SUFFICES ASSUME n <= call[x] PROVE n <= call'[x] /\ shown'[x][n] = shown[x][n]
    OBVIOUS
  <2>3. n \in 1..call[x] /\ call[x] <= call'[x]
    BY <1>3, <2>2 DEF Grows
  <2> QED
    BY <1>3, <2>2, <2>3 DEF Grows
<1>6. \A i \in 1..NumPeers : PeerAt(a, i) \in Parties
  BY PeerFacts
<1>7. n <= call[a]
  BY <1>2, <1>3
<1>8. \A x \in Parties : n <= call[x] => (Agrees(a, x, n)' <=> Agrees(a, x, n))
  BY <1>5, <1>7 DEF Agrees
<1>9. Agreed(a, n, m)' <=> Agreed(a, n, m)
  BY <1>4, <1>6, <1>7, <1>8 DEF Agreed
<1>10. shown'[a][n] = shown[a][n]
  BY <1>5, <1>7
<1>11. /\ \A i \in 1..NumPeers : i < m => n <= call'[PeerAt(a, i)]
       /\ Plan[n].check /\ m <= NumPeers => consHash'[a] = shown'[a][n]
       /\ m <= NumPeers \/ Plan[n].mode = "accept" => (agree'[a] <=> Agreed(a, n, m)')
  BY <1>4, <1>5, <1>6, <1>9, <1>10 DEF Rests
<1> QED
  BY <1>2, <1>11 DEF AgreeInv, Cur

(* What is true of all is true of one more, and of those that rest.        *)
LEMMA OthersView ==
  ASSUME FlowInv, FlowInv', ViewInv, Grows, NEW p \in Parties, \A a \in Parties \ {p} : Rests(a),
         MsgInv', VarsInv', ShownInv', AgreeInv(p)',
         Opened(vals[p], p, pc[p], k[p], call[p])', NonceOpened(vals[p], p, pc[p], k[p], call[p])'
  PROVE  ViewInv'
<1>1. ASSUME NEW a \in Parties, a # p
      PROVE  /\ AgreeInv(a)' /\ Opened(vals[a], a, pc[a], k[a], call[a])'
             /\ NonceOpened(vals[a], a, pc[a], k[a], call[a])'
  <2>1. /\ Rests(a) /\ AgreeInv(a) /\ Opened(vals[a], a, pc[a], k[a], call[a])
        /\ NonceOpened(vals[a], a, pc[a], k[a], call[a])
    BY <1>1 DEF ViewInv
  <2>2. AgreeInv(a)'
    BY <2>1, OthersAgree
  <2>3. Opened(vals[a], a, pc[a], k[a], call[a])' = Opened(vals[a], a, pc[a], k[a], call[a])
    BY <2>1 DEF Rests, Opened, GotAt, SumAt, Of
  <2>4. NonceOpened(vals[a], a, pc[a], k[a], call[a])' = NonceOpened(vals[a], a, pc[a], k[a], call[a])
    BY <2>1 DEF Rests, NonceOpened, NoncesAt, Of
  <2> QED
    BY <2>1, <2>2, <2>3, <2>4
<1> QED
  BY <1>1 DEF ViewInv

(* Nothing is sent and nothing shown.                                      *)
LEMMA SameMessages ==
  ASSUME MsgInv, ShownInv, UNCHANGED <<log, call, shown>>
  PROVE  MsgInv' /\ ShownInv' /\ (FlowInv => Grows)
<1>1. MsgInv' /\ ShownInv'
  <2>1. MsgInv'
    BY DEF MsgInv
  <2>2. ShownInv'
    BY DEF ShownInv
  <2> QED
    BY <2>1, <2>2
<1>2. FlowInv => Grows
  <2>1. SUFFICES ASSUME FlowInv, NEW a \in Parties PROVE call[a] <= call[a]
    BY DEF Grows
  <2>2. call[a] \in Nat
    BY <2>1, Counts DEF FlowInv
  <2> QED
    BY <2>2
<1> QED
  BY <1>1, <1>2

(* A party sends what is honest.                                           *)
LEMMA NewMessages ==
  ASSUME FlowInv, FlowInv', MsgInv, Grows, NEW p \in Parties,
         \A a, q \in Parties : a # p => log'[a][q] = log[a][q] /\ call'[a] = call[a] /\ shown'[a] = shown[a],
         \A q \in Parties \ {p} : \E O :
              Extends(log'[p][q], log[p][q], O) /\ AllHonest(O, p, call'[p], shown'[p])
  PROVE  MsgInv'
<1>1. ASSUME NEW a \in Parties, NEW q \in Parties, a # q
      PROVE  AllHonest(log'[a][q], a, call'[a], shown'[a])
  <2>1. AllHonest(log[a][q], a, call[a], shown[a])
    BY <1>1 DEF MsgInv
  <2>2. CASE a # p
    BY <2>1, <2>2
  <2>3. CASE a = p
    <3>1. PICK w, l, c, d, sh, th : /\ w = log'[p][q] /\ l = log[p][q] /\ c = call[p] /\ d = call'[p]
                                    /\ sh = shown[p] /\ th = shown'[p]
      OBVIOUS
    <3>2. PICK O : Extends(w, l, O) /\ AllHonest(O, p, d, th)
      BY <1>1, <2>3, <3>1
    <3>3. c \in Nat /\ d \in Nat
      BY <3>1, ReconstructAssumption DEF FlowInv, FlowType
    <3>4. c <= d /\ (\A n \in 1..c : th[n] = sh[n]) /\ AllHonest(l, p, c, sh)
      BY <2>1, <2>3, <3>1 DEF Grows
    <3>5. AllHonest(l, p, d, th)
      BY <3>3, <3>4, HonestGrows
    <3>6. AllHonest(w, p, d, th)
      BY <3>2, <3>5, HonestJoin
    <3> QED
      BY <2>3, <3>1, <3>6
  <2> QED
    BY <2>2, <2>3
<1> QED
  BY <1>1 DEF MsgInv, AllHonest, Honest, Of

-----------------------------------------------------------------------------
(* A party that starts a call has its own shares, and agrees with itself.  *)
LEMMA StartView ==
  ASSUME FlowInv, FlowInv', ViewInv, NEW p \in Parties, Start(p)
  PROVE  ViewInv'
<1>1. PICK n : n = call[p] + 1
  OBVIOUS
<1>2. /\ n \in DOMAIN Plan /\ n \in Nat /\ IsSeq(shown'[p]) /\ Len(shown'[p]) = n
      /\ shown' = [shown EXCEPT ![p] = Append(shown[p], Says(p, Plan[n]))]
      /\ Says(p, Plan[n]) = shown'[p][n] /\ \A i \in 1..call[p] : shown'[p][i] = shown[p][i]
      /\ \A q \in Parties \ {p} : \E O :
           Extends(log'[p][q], log[p][q], O) /\ AllHonest(O, p, n, shown'[p])
  BY <1>1, StartSays DEF ViewInv
<1>3. /\ call' = [call EXCEPT ![p] = n] /\ pc' = [pc EXCEPT ![p] = "shares"] /\ k' = [k EXCEPT ![p] = 1]
      /\ \A a, q \in Parties : a # p => log'[a][q] = log[a][q]
  BY <1>1, StartSends
<1>4. /\ vals' = [vals EXCEPT ![p] = Fresh(p)] /\ UNCHANGED <<consHash, openHash, bad>>
      /\ agree' = [agree EXCEPT ![p] = IF Plan[n].mode = "accept" THEN Says(p, Plan[n]) ELSE TRUE]
  BY <1>1 DEF Start
<1>5. FlowType /\ VarsInv /\ MsgInv /\ ShownInv /\ call[p] \in Nat
  BY Counts DEF ViewInv, FlowInv
<1>6. /\ call'[p] = n /\ pc'[p] = "shares" /\ k'[p] = 1 /\ vals'[p] = Fresh(p)
      /\ agree'[p] = IF Plan[n].mode = "accept" THEN Says(p, Plan[n]) ELSE TRUE
  BY <1>3, <1>4, <1>5 DEF FlowType, VarsInv, Whatever
<1>7. \A a \in Parties \ {p} : Rests(a) /\ shown'[a] = shown[a]
  BY <1>2, <1>3, <1>4, <1>5 DEF FlowType, VarsInv, Whatever, Rests
<1>8. Grows
  <2>1. \A a \in Parties \ {p} : call[a] <= call'[a]
    BY <1>5, <1>7 DEF FlowType, Rests
  <2>2. call[p] <= call'[p]
    BY <1>1, <1>5, <1>6
  <2> QED
    BY <1>2, <1>7, <2>1, <2>2 DEF Grows
<1>9. Plan[n].mode = "accept" => Says(p, Plan[n]) \in BOOLEAN
  BY <1>5 DEF Says, VarsInv
<1>10. MsgInv'
  <2>1. \A a, q \in Parties : a # p => log'[a][q] = log[a][q] /\ call'[a] = call[a] /\ shown'[a] = shown[a]
    BY <1>3, <1>7 DEF Rests
  <2>2. \A q \in Parties \ {p} : \E O :
          Extends(log'[p][q], log[p][q], O) /\ AllHonest(O, p, call'[p], shown'[p])
    BY <1>2, <1>6
  <2> QED
    BY <1>5, <1>8, <2>1, <2>2, NewMessages
<1>11. VarsInv'
  <2>1. Whatever(vals') /\ Whatever(shown') /\ Whatever(consHash') /\ Whatever(openHash')
    BY <1>2, <1>4, <1>5 DEF VarsInv, Whatever
  <2>2. agree' \in [Parties -> BOOLEAN] /\ bad' \in [Parties -> BOOLEAN]
    BY <1>4, <1>5, <1>9 DEF VarsInv
  <2>3. \A a \in Parties : DOMAIN vals'[a] = Blocks \cup {0}
    BY <1>5, <1>6, <1>7 DEF VarsInv, Rests, Fresh
  <2> QED
    BY <2>1, <2>2, <2>3 DEF VarsInv, Whatever
<1>12. ShownInv'
  <2>1. ASSUME NEW a \in Parties, a # p
        PROVE  /\ IsSeq(shown'[a]) /\ Len(shown'[a]) = call'[a]
               /\ \A i \in 1..call'[a] : Plan[i].mode = "accept" => shown'[a][i] \in BOOLEAN
    BY <1>5, <1>7, <2>1 DEF ShownInv, Rests
  <2>2. \A i \in 1..n : Plan[i].mode = "accept" => shown'[p][i] \in BOOLEAN
    <3>1. TAKE i \in 1..n
    <3>2. CASE i = n
      BY <1>2, <1>9, <3>2
    <3>3. CASE i # n
      <4>1. i \in 1..call[p]
        BY <1>1, <1>5, <3>3
      <4> QED
        BY <1>2, <1>5, <4>1 DEF ShownInv
    <3> QED
      BY <3>2, <3>3
  <2> QED
    BY <1>2, <1>6, <2>1, <2>2 DEF ShownInv
<1>13. AgreeInv(p)'
  <2>1. NumPeers \in Nat /\ NumPeers >= 1 /\ \A i \in 1..NumPeers : ~(i < 1)
    BY PeerFacts
  <2>2. Agreed(p, n, 1)' <=> Agrees(p, p, n)'
    BY <2>1 DEF Agreed
  <2>3. CASE Plan[n].mode = "accept"
    <3>1. Agrees(p, p, n)' <=> shown'[p][n] = TRUE
      BY <2>3 DEF Agrees
    <3>2. agree'[p] <=> Agreed(p, n, 1)'
      BY <1>2, <1>6, <1>9, <2>2, <2>3, <3>1
    <3>3. ~Plan[n].check
      BY <1>2, <2>3, PlanFacts
    <3> QED
      BY <1>6, <2>1, <3>2, <3>3 DEF AgreeInv, Cur
  <2>4. CASE Plan[n].mode # "accept"
    <3>1. Agrees(p, p, n)' /\ agree'[p]
      BY <1>6, <2>4 DEF Agrees
    <3>2. Plan[n].check => consHash'[p] = shown'[p][n]
      BY <1>2, <1>4, <2>4 DEF Says
    <3> QED
      BY <1>6, <2>1, <2>2, <2>4, <3>1, <3>2 DEF AgreeInv, Cur
  <2> QED
    BY <2>3, <2>4
<1>14. Opened(vals'[p], p, "shares", 1, n)
  <2>1. \A a : ~Among(FirstReads[p][n], 1, a, 2)
    <3>1. PICK R : R = FirstReads[p][n] /\ ListOK(R, p, n, 1..3)
      BY <1>2, FirstOK
    <3>2. 1..3 \in SUBSET (1..5) /\ 1 \in Nat
      OBVIOUS
    <3> QED
      BY <3>1, <3>2, AmongFacts
  <2>2. GotAt(p, "shares", 1, n) = {p}
    BY <2>1 DEF GotAt, ReadOf
  <2>3. \A b : ~SumAt(p, b, "shares", 1, n)
    BY DEF SumAt
  <2>4. \A b \in Blocks : vals'[p][b] \in Of({p})
    BY <1>6, OwnOf DEF Fresh
  <2>5. p \in Blocks
    BY DEF Parties, Blocks
  <2> QED
    BY <2>2, <2>3, <2>4, <2>5 DEF Opened
<1>15. Opened(vals[p], p, pc[p], k[p], call[p])'
  BY <1>6, <1>14
<1>16. NonceOpened(vals'[p], p, "shares", 1, n)
  <2>1. \A a : ~Among(FirstReads[p][n], 1, a, 3)
    <3>1. PICK R : R = FirstReads[p][n] /\ ListOK(R, p, n, 1..3)
      BY <1>2, FirstOK
    <3>2. 1..3 \in SUBSET (1..5) /\ 1 \in Nat
      OBVIOUS
    <3> QED
      BY <3>1, <3>2, AmongFacts
  <2>2. NoncesAt(p, "shares", 1, n) = {p}
    BY <2>1 DEF NoncesAt, ReadOf
  <2>3. vals'[p][0] \in Of({p})
    BY <1>6, OwnOf DEF Fresh
  <2> QED
    BY <2>2, <2>3 DEF NonceOpened
<1>17. NonceOpened(vals[p], p, pc[p], k[p], call[p])'
  BY <1>6, <1>16
<1> QED
  BY <1>7, <1>8, <1>10, <1>11, <1>12, <1>13, <1>15, <1>17, OthersView

(* A read tells what the peer has shown, and opens what it sent.           *)
LEMMA TakeView ==
  ASSUME FlowInv, FlowInv', ViewInv, NEW p \in Parties, Take(p)
  PROVE  ViewInv'
<1>1. PICK n, st, i, r : n = call[p] /\ st = pc[p] /\ i = k[p] /\ r = Reads(p)[k[p]]
  OBVIOUS
<1>2. /\ n \in DOMAIN Plan /\ st \in Stages /\ i \in 1..Len(ListOf(st, p, n))
      /\ r = ListOf(st, p, n)[i] /\ (st = "sums" => Plan[n].mode = "pking")
  <2>1. Reading(p)
    BY DEF Take
  <2> QED
    BY <1>1, <2>1, ReadFacts
<1>3. /\ UNCHANGED <<pc, call, log>> /\ k' = [k EXCEPT ![p] = i + 1]
      /\ UNCHANGED <<shown, openHash>>
  BY <1>1, TakeFacts DEF Take
<1>4. /\ FlowType /\ MsgInv /\ VarsInv /\ ShownInv /\ AgreeInv(p)
      /\ Opened(vals[p], p, st, i, n) /\ NonceOpened(vals[p], p, st, i, n)
  BY <1>1 DEF ViewInv, FlowInv
<1>5. MsgInv' /\ ShownInv' /\ Grows
  BY <1>3, <1>4, SameMessages
<1>6. /\ consHash' = [consHash EXCEPT ![p] = IF AtLast(p) THEN << >> ELSE consHash[p]]
      /\ bad' = [bad EXCEPT ![p] = bad[p] \/ (AtLast(p) /\ ~agree'[p])]
  BY <1>4, TakeChecks
<1>7. \E w, y : /\ y \in BOOLEAN
                /\ vals' = [vals EXCEPT ![p] = w] /\ agree' = [agree EXCEPT ![p] = y]
                /\ DOMAIN w = Blocks \cup {0} /\ Opened(w, p, st, i + 1, n)
                /\ NonceOpened(w, p, st, i + 1, n)
  <2>1. DOMAIN vals[p] = Blocks \cup {0} /\ agree[p] \in BOOLEAN
    BY <1>4 DEF VarsInv
  <2>2. CASE Has(r.from, p, n, Slot(r))
    <3>1. PICK m : m = NextMsg(p, r.from)
      OBVIOUS
    <3>2. PICK v, w, c, sh : /\ v = vals[p] /\ w = Entered(v, r, m) /\ c = call[r.from] /\ sh = shown[r.from]
      OBVIOUS
    <3>3. /\ Fits(m, r, n) /\ Honest(m, r.from, c, sh)
          /\ vals' = [vals EXCEPT ![p] = w] /\ agree' = [agree EXCEPT ![p] = Compared(p, r.kind, m)]
      <4>1. Has(r.from, p, call[p], Slot(r))
        BY <1>1, <2>2
      <4>2. Honest(m, r.from, call[r.from], shown[r.from])
        BY <1>1, <1>4, <3>1, <4>1, TakeSays
      <4>5. Fits(m, r, n)
        BY <1>1, <1>4, <3>1, <4>1, TakeSays
      <4>3. agree' = [agree EXCEPT ![p] = Compared(p, r.kind, m)]
        BY <1>1, <1>4, <3>1, <4>1, TakeSays
      <4>4. vals' = [vals EXCEPT ![p] = Entered(vals[p], r, m)]
        BY <1>1, <1>4, <3>1, <4>1, TakeSays DEF Entered
      <4> QED
        BY <3>2, <4>2, <4>3, <4>4, <4>5
    <3>4. DOMAIN w = Blocks \cup {0} /\ Opened(w, p, st, i + 1, n) /\ NonceOpened(w, p, st, i + 1, n)
      <4>1. DOMAIN v = Blocks \cup {0} /\ Opened(v, p, st, i, n) /\ NonceOpened(v, p, st, i, n)
        BY <1>4, <2>1, <3>2
      <4>2. IF Has(r.from, p, n, Slot(r))
            THEN /\ w = Entered(v, r, m) /\ Honest(m, r.from, c, sh)
                 /\ Fits(m, r, n)
            ELSE w = v
        BY <2>2, <3>2, <3>3
      <4>3. DOMAIN w = Blocks \cup {0} /\ Opened(w, p, st, i + 1, n)
        BY <1>2, <4>1, <4>2, TakeOpens
      <4>4. NonceOpened(w, p, st, i + 1, n)
        BY <1>2, <4>1, <4>2, TakeNonce
      <4> QED
        BY <4>3, <4>4
    <3>5. Compared(p, r.kind, m) \in BOOLEAN
      <4>1. CASE r.kind = "digest"
        BY <4>1 DEF Compared
      <4>2. CASE r.kind = "bit"
        BY <4>2 DEF Compared
      <4>3. CASE r.kind \notin {"digest", "bit"}
        BY <2>1, <4>3 DEF Compared
      <4> QED
        BY <4>1, <4>2, <4>3
    <3> QED
      BY <3>3, <3>4, <3>5
  <2>3. CASE ~Has(r.from, p, n, Slot(r))
    <3>1. vals' = vals /\ agree' = agree
      BY <1>1, <2>3, TakeNothing
    <3>2. PICK v : /\ v = vals[p] /\ DOMAIN v = Blocks \cup {0}
                   /\ Opened(v, p, st, i, n) /\ NonceOpened(v, p, st, i, n)
      BY <1>4, <2>1
    <3>3. Opened(v, p, st, i + 1, n)
      BY <1>2, <2>3, <3>2, TakeOpens
    <3>5. NonceOpened(v, p, st, i + 1, n)
      BY <1>2, <2>3, <3>2, TakeNonce
    <3>4. vals = [vals EXCEPT ![p] = v] /\ agree = [agree EXCEPT ![p] = agree[p]]
      BY <1>4, <3>2 DEF VarsInv, Whatever
    <3> QED
      BY <2>1, <3>1, <3>2, <3>3, <3>4, <3>5
  <2> QED
    BY <2>2, <2>3
<1>8. PICK w, y : /\ y \in BOOLEAN
                  /\ vals' = [vals EXCEPT ![p] = w] /\ agree' = [agree EXCEPT ![p] = y]
                  /\ DOMAIN w = Blocks \cup {0} /\ Opened(w, p, st, i + 1, n)
                  /\ NonceOpened(w, p, st, i + 1, n)
  BY <1>7
<1>9. vals'[p] = w /\ k'[p] = i + 1 /\ pc'[p] = st /\ call'[p] = n
  BY <1>1, <1>3, <1>4, <1>8 DEF VarsInv, Whatever, FlowType
<1>10. \A a \in Parties \ {p} : Rests(a)
  BY <1>3, <1>4, <1>6, <1>8 DEF Rests, VarsInv, Whatever, FlowType
<1>11. VarsInv'
  <2>1. Whatever(vals') /\ Whatever(consHash') /\ Whatever(openHash') /\ Whatever(shown')
    BY <1>3, <1>4, <1>6, <1>8 DEF VarsInv, Whatever
  <2>2. agree' \in [Parties -> BOOLEAN] /\ bad' \in [Parties -> BOOLEAN]
    BY <1>4, <1>6, <1>8 DEF VarsInv
  <2>3. \A a \in Parties : DOMAIN vals'[a] = Blocks \cup {0}
    BY <1>4, <1>8, <1>9, <1>10 DEF VarsInv, Rests
  <2> QED
    BY <2>1, <2>2, <2>3 DEF VarsInv, Whatever
<1>12. AgreeInv(p)'
  <2>1. SUFFICES ASSUME st = "shares", Plan[n].check \/ Plan[n].mode = "accept"
                 PROVE  AgreeInv(p)'
    BY <1>9 DEF AgreeInv, Cur
  <2>2. /\ i <= NumPeers => n <= call[PeerAt(p, i)]
        /\ Plan[n].mode = "accept" => i <= NumPeers
        /\ i <= NumPeers => (agree'[p] <=> agree[p] /\ Agrees(p, PeerAt(p, i), n))
    BY <1>1, <1>4, <2>1, TakeCompares
  <2>3. /\ \A j \in 1..NumPeers : j < i => n <= call[PeerAt(p, j)]
        /\ Plan[n].check /\ i <= NumPeers => consHash[p] = shown[p][n]
        /\ i <= NumPeers \/ Plan[n].mode = "accept" => (agree[p] <=> Agreed(p, n, i))
    BY <1>1, <1>4, <2>1 DEF AgreeInv, Cur
  <2>4. NumPeers \in Nat /\ i \in Nat /\ i >= 1
    <3>1. i \in Nat /\ i >= 1
      BY <1>2
    <3>2. NumPeers \in Nat
      BY PeerFacts
    <3> QED
      BY <3>1, <3>2
  <2>5. \A j \in 1..NumPeers : j < i + 1 <=> j < i \/ j = i
    BY <2>4
  <2>6. \A j \in 1..NumPeers : j < i + 1 => n <= call[PeerAt(p, j)]
    BY <2>2, <2>3, <2>4, <2>5
  <2>7. Plan[n].check /\ i + 1 <= NumPeers => consHash'[p] = shown'[p][n]
    <3>1. SUFFICES ASSUME Plan[n].check, i + 1 <= NumPeers PROVE consHash'[p] = shown'[p][n]
      OBVIOUS
    <3>2. i <= NumPeers /\ i # NumPeers
      BY <2>4, <3>1
    <3>3. ~AtLast(p)
      BY <1>1, <3>2 DEF AtLast
    <3> QED
      BY <1>3, <1>4, <1>6, <2>3, <3>1, <3>2, <3>3 DEF VarsInv, Whatever
  <2>8. i + 1 <= NumPeers \/ Plan[n].mode = "accept" => (agree'[p] <=> Agreed(p, n, i + 1))
    <3>1. SUFFICES ASSUME i + 1 <= NumPeers \/ Plan[n].mode = "accept"
                   PROVE  agree'[p] <=> Agreed(p, n, i + 1)
      OBVIOUS
    <3>2. i \in 1..NumPeers
      BY <2>2, <2>4, <3>1
    <3>3. Agreed(p, n, i + 1) <=> Agreed(p, n, i) /\ Agrees(p, PeerAt(p, i), n)
      BY <2>5, <3>2 DEF Agreed
    <3>4. i <= NumPeers
      BY <3>2
    <3> QED
      BY <2>2, <2>3, <3>3, <3>4
  <2>9. Agreed(p, n, i + 1)' <=> Agreed(p, n, i + 1)
    BY <1>3 DEF Agreed, Agrees
  <2> QED
    BY <1>3, <1>9, <2>6, <2>7, <2>8, <2>9 DEF AgreeInv, Cur
<1>13. Opened(vals[p], p, pc[p], k[p], call[p])' /\ NonceOpened(vals[p], p, pc[p], k[p], call[p])'
  BY <1>8, <1>9
<1> QED
  BY <1>5, <1>10, <1>11, <1>12, <1>13, OthersView

(* Flushing changes nothing of it.                                         *)
LEMMA FlushView ==
  ASSUME FlowInv, FlowInv', ViewInv, NEW p \in Parties, RecvFlush(p)
  PROVE  ViewInv'
<1>1. UNCHANGED <<pc, k, call, vals, consHash, openHash, agree, bad, shown, log>>
  BY DEF RecvFlush, FlushTo
<1>2. MsgInv' /\ ShownInv' /\ Grows
  BY <1>1, SameMessages DEF ViewInv
<1>3. VarsInv'
  BY <1>1 DEF ViewInv, VarsInv, Whatever
<1>4. \A a \in Parties : Rests(a)
  BY <1>1 DEF Rests
<1>5. Opened(vals[p], p, pc[p], k[p], call[p])' /\ NonceOpened(vals[p], p, pc[p], k[p], call[p])'
  BY <1>1 DEF ViewInv
<1>6. AgreeInv(p)'
  BY <1>2, <1>4, OthersAgree DEF ViewInv
<1> QED
  BY <1>2, <1>3, <1>4, <1>5, <1>6, OthersView

(* A king that distributes its sums has all shares.                        *)
LEMMA DistributeView ==
  ASSUME FlowInv, FlowInv', ViewInv, NEW p \in Parties, Distribute(p)
  PROVE  ViewInv'
<1>1. /\ call[p] \in DOMAIN Plan /\ Plan[call[p]].mode = "pking"
      /\ call' = call /\ pc' = [pc EXCEPT ![p] = "sums"] /\ k' = [k EXCEPT ![p] = 1]
      /\ \A a, q \in Parties : a # p => log'[a][q] = log[a][q]
  BY DistributeSends
<1>2. UNCHANGED <<vals, consHash, openHash, agree, bad, shown>>
  BY DEF Distribute
<1>3. /\ FlowType /\ VarsInv /\ MsgInv /\ ShownInv
      /\ Opened(vals[p], p, pc[p], k[p], call[p]) /\ NonceOpened(vals[p], p, pc[p], k[p], call[p])
  BY DEF FlowInv, ViewInv
<1>4. /\ HasValues(Cur(p), p) => vals[p][p] \in Of(Parties)
      /\ Cur(p).nonce /\ p = 1 => vals[p][0] \in Of(Parties)
      /\ \A q \in Parties \ {p} : \E O :
           Extends(log'[p][q], log[p][q], O) /\ AllHonest(O, p, call[p], shown[p])
  BY <1>3, DistributeSays
<1>5. pc'[p] = "sums" /\ k'[p] = 1 /\ \A a \in Parties \ {p} : Rests(a)
  BY <1>1, <1>2, <1>3 DEF FlowType, Rests
<1>6. Grows
  BY <1>1, <1>2, <1>3 DEF Grows, FlowType
<1>7. MsgInv'
  <2>1. \A a, q \in Parties : a # p => log'[a][q] = log[a][q] /\ call'[a] = call[a] /\ shown'[a] = shown[a]
    BY <1>1, <1>2
  <2>2. \A q \in Parties \ {p} : \E O :
          Extends(log'[p][q], log[p][q], O) /\ AllHonest(O, p, call'[p], shown'[p])
    BY <1>1, <1>2, <1>4
  <2> QED
    BY <1>3, <1>6, <2>1, <2>2, NewMessages
<1>8. VarsInv' /\ ShownInv'
  BY <1>1, <1>2, <1>3 DEF VarsInv, ShownInv, Whatever
<1>9. AgreeInv(p)'
  BY <1>5 DEF AgreeInv
<1>10. PICK n, v : n = call[p] /\ v = vals[p]
  OBVIOUS
<1>11. Opened(v, p, "sums", 1, n) /\ NonceOpened(v, p, "sums", 1, n)
  <2>1. \A a, s : ~Among(SumReads[p][n], 1, a, s)
    <3>1. PICK R : R = SumReads[p][n] /\ ListOK(R, p, n, {4, 5})
      BY <1>1, <1>10, SumOK
    <3>2. {4, 5} \in SUBSET (1..5) /\ 1 \in Nat
      OBVIOUS
    <3> QED
      BY <3>1, <3>2, AmongFacts
  <2>2. GotAt(p, "sums", 1, n) = Parties /\ NoncesAt(p, "sums", 1, n) = Parties
    BY DEF GotAt, NoncesAt, ReadOf
  <2>3. (\A b : ~SumAt(p, b, "sums", 1, n)) /\ ~ReadOf("sums", 1, p, 1, n, 5)
    BY <2>1 DEF SumAt, ReadOf
  <2>4. Opened(v, p, "sums", 1, n)
    BY <1>1, <1>4, <1>10, <2>2, <2>3 DEF Opened, Cur
  <2>5. NonceOpened(v, p, "sums", 1, n)
    BY <1>1, <1>4, <1>10, <2>2, <2>3 DEF NonceOpened, Cur
  <2> QED
    BY <2>4, <2>5
<1>12. Opened(vals[p], p, pc[p], k[p], call[p])' /\ NonceOpened(vals[p], p, pc[p], k[p], call[p])'
  BY <1>1, <1>2, <1>5, <1>10, <1>11
<1> QED
  BY <1>5, <1>6, <1>7, <1>8, <1>9, <1>12, OthersView

(* Who returns is in no stage.                                             *)
LEMMA ReturnView ==
  ASSUME FlowInv, FlowInv', ViewInv, NEW p \in Parties, Return(p)
  PROVE  ViewInv'
<1>1. PICK e : e \in {"idle", "aborted"} /\ pc' = [pc EXCEPT ![p] = e]
  BY DEF Return, Goto
<1>2. k' = [k EXCEPT ![p] = 1] /\ UNCHANGED <<call, vals, agree, shown, log>>
  BY DEF Return, Goto, netVars
<1>3. FlowType /\ VarsInv /\ MsgInv /\ ShownInv
  BY DEF FlowInv, ViewInv
<1>4. \E x, y, z : /\ consHash' = [consHash EXCEPT ![p] = x] /\ openHash' = [openHash EXCEPT ![p] = y]
                   /\ bad' = [bad EXCEPT ![p] = z] /\ z \in BOOLEAN
  <2>1. PICK x : consHash' = [consHash EXCEPT ![p] = x]
    BY DEF Return, Put
  <2>2. PICK y : openHash' = [openHash EXCEPT ![p] = y]
    BY DEF Return, Verify
  <2>3. PICK z : z \in BOOLEAN /\ bad' = [bad EXCEPT ![p] = z]
    BY DEF Return, Verify
  <2> QED
    BY <2>1, <2>2, <2>3
<1>5. PICK x, y, z : /\ consHash' = [consHash EXCEPT ![p] = x] /\ openHash' = [openHash EXCEPT ![p] = y]
                     /\ bad' = [bad EXCEPT ![p] = z] /\ z \in BOOLEAN
  BY <1>4
<1>6. pc'[p] \notin Stages /\ \A a \in Parties \ {p} : Rests(a)
  <2>1. pc'[p] = e
    BY <1>1, <1>3 DEF FlowType
  <2>2. \A a \in Parties \ {p} : Rests(a)
    BY <1>1, <1>2, <1>3, <1>5 DEF FlowType, VarsInv, Whatever, Rests
  <2> QED
    BY <1>1, <2>1, <2>2 DEF Stages
<1>7. MsgInv' /\ ShownInv' /\ Grows
  BY <1>2, <1>3, SameMessages
<1>8. VarsInv'
  <2>1. Whatever(vals') /\ Whatever(consHash') /\ Whatever(openHash') /\ Whatever(shown')
    BY <1>2, <1>3, <1>5 DEF VarsInv, Whatever
  <2>2. agree' \in [Parties -> BOOLEAN] /\ bad' \in [Parties -> BOOLEAN]
    BY <1>2, <1>3, <1>5 DEF VarsInv
  <2> QED
    BY <1>2, <1>3, <2>1, <2>2 DEF VarsInv, Whatever
<1>9. /\ AgreeInv(p)' /\ Opened(vals[p], p, pc[p], k[p], call[p])'
      /\ NonceOpened(vals[p], p, pc[p], k[p], call[p])'
  BY <1>6 DEF AgreeInv, Opened, NonceOpened, Stages
<1> QED
  BY <1>6, <1>7, <1>8, <1>9, OthersView

(* In the beginning nothing has been said.                                 *)
LEMMA InitView == Init => ViewInv
<1> SUFFICES ASSUME Init PROVE ViewInv
  OBVIOUS
<1>1. /\ pc = [p \in Parties |-> "idle"] /\ call = [p \in Parties |-> 0]
      /\ log = [p \in Parties |-> [q \in Parties |-> << >>]]
      /\ vals = [p \in Parties |-> [b \in Blocks \cup {0} |-> Own(p)]]
      /\ consHash = [p \in Parties |-> << >>] /\ openHash = [p \in Parties |-> << >>]
      /\ shown = [p \in Parties |-> << >>]
      /\ agree = [p \in Parties |-> TRUE] /\ bad = [p \in Parties |-> FALSE]
  BY ReconstructAssumption DEF Init, NetInit
<1>2. IsSeq(<< >>) /\ Len(<< >>) = 0
  BY Short
<1>3. MsgInv
  BY <1>1, <1>2 DEF MsgInv, AllHonest
<1>4. VarsInv
  BY <1>1 DEF VarsInv, Whatever
<1>5. ShownInv
  BY <1>1, <1>2 DEF ShownInv
<1>6. \A p \in Parties : /\ AgreeInv(p) /\ Opened(vals[p], p, pc[p], k[p], call[p])
                          /\ NonceOpened(vals[p], p, pc[p], k[p], call[p])
  BY <1>1 DEF AgreeInv, Opened, NonceOpened, Stages
<1> QED
  BY <1>3, <1>4, <1>5, <1>6 DEF ViewInv

(* What anybody shows, has been told or has opened, throughout.            *)
LEMMA ViewsKept == Spec => [](FlowInv /\ ViewInv)
<1>1. FlowInv /\ FlowInv' /\ ViewInv /\ [Next]_vars => ViewInv'
  <2> SUFFICES ASSUME FlowInv, FlowInv', ViewInv, [Next]_vars PROVE ViewInv'
    OBVIOUS
  <2>1. CASE Next
    <3>1. PICK p \in Parties : Step(p)
      BY <2>1 DEF Next
    <3>2. CASE Start(p)
      BY <3>2, StartView
    <3>3. CASE Take(p)
      BY <3>3, TakeView
    <3>4. CASE RecvFlush(p)
      BY <3>4, FlushView
    <3>5. CASE Distribute(p)
      BY <3>5, DistributeView
    <3>6. CASE Return(p)
      BY <3>6, ReturnView
    <3> QED
      BY <3>1, <3>2, <3>3, <3>4, <3>5, <3>6 DEF Step
  <2>2. CASE UNCHANGED vars
    <3>1. UNCHANGED <<pc, k, call, vals, consHash, openHash, agree, bad, shown, log>>
      BY <2>2 DEF vars, netVars
    <3>2. MsgInv' /\ ShownInv' /\ Grows
      BY <3>1, SameMessages DEF ViewInv
    <3>3. VarsInv'
      BY <3>1 DEF ViewInv, VarsInv, Whatever
    <3>4. \A a \in Parties : Rests(a)
      BY <3>1 DEF Rests
    <3>5. ASSUME NEW a \in Parties
          PROVE  /\ AgreeInv(a)' /\ Opened(vals[a], a, pc[a], k[a], call[a])'
                 /\ NonceOpened(vals[a], a, pc[a], k[a], call[a])'
      <4>1. AgreeInv(a)'
        BY <3>2, <3>4, OthersAgree DEF ViewInv
      <4>2. Opened(vals[a], a, pc[a], k[a], call[a])' /\ NonceOpened(vals[a], a, pc[a], k[a], call[a])'
        BY <3>1 DEF ViewInv
      <4> QED
        BY <4>1, <4>2
    <3> QED
      BY <3>2, <3>3, <3>5 DEF ViewInv
  <2> QED
    BY <2>1, <2>2
<1> QED
  BY <1>1, InitView, FlowCorrect, PTL DEF Spec

-----------------------------------------------------------------------------
(* What a checked opening sees of a party: the calls it has returned from. *)
Returned(p) == IF Ended(p) THEN call[p] ELSE call[p] - 1
Aborted(p)  == pc[p] = "aborted"

Same(a) == Checked(a)' = Checked(a) /\ Returned(a)' = Returned(a) /\ Aborted(a)' = Aborted(a)

(* A party that does nothing looks the same.                               *)
LEMMA RestsSame ==
  ASSUME NEW a, pc'[a] = pc[a], k'[a] = k[a], call'[a] = call[a]
  PROVE  Same(a)
<1>1. Returned(a)' = Returned(a) /\ Aborted(a)' = Aborted(a)
  BY DEF Returned, Ended, Aborted
<1>2. Checked(a)' = Checked(a)
  BY DEF Checked, Cur
<1> QED
  BY <1>1, <1>2 DEF Same

(* Where the digests of the present call are compared.                     *)
LEMMA CheckedFacts ==
  ASSUME FlowInv, NEW p \in Parties, pc[p] \in Stages, NEW n, n = call[p]
  PROVE  /\ n \in DOMAIN Plan /\ n \in Nat /\ n >= 1 /\ Cur(p) = Plan[n]
         /\ NumPeers \in Nat /\ NumPeers >= 1 /\ k[p] \in Nat /\ k[p] >= 1
         /\ Checked(p) = IF pc[p] = "shares" /\ Plan[n].check /\ k[p] <= NumPeers
                         THEN {x \in 1..(n - 1) : Plan[x].check} ELSE {x \in 1..n : Plan[x].check}
<1>1. FlowType /\ NetType
  BY DEF FlowInv
<1>2. n \in DOMAIN Plan /\ k[p] \in Nat /\ k[p] >= 1
  BY <1>1, Counts DEF FlowType
<1>3. n \in Nat /\ n >= 1
  <2>1. n \in Nat /\ n # 0
    BY <1>2, PlanFacts
  <2> QED
    BY <2>1
<1>4. /\ Len(Digests(p, Plan[n])) = IF Plan[n].check THEN NumPeers ELSE 0
      /\ NumPeers \in Nat /\ NumPeers >= 1
  BY <1>2, DigestsWithin
<1>5. k[p] <= Len(Digests(p, Plan[n])) <=> Plan[n].check /\ k[p] <= NumPeers
  BY <1>2, <1>4
<1>6. Checked(p) = IF pc[p] = "shares" /\ Plan[n].check /\ k[p] <= NumPeers
                   THEN {x \in 1..(n - 1) : Plan[x].check} ELSE {x \in 1..n : Plan[x].check}
  BY <1>5 DEF Checked, Cur
<1> QED
  BY <1>2, <1>3, <1>4, <1>6 DEF Cur

(* To start a call is to contribute to it.                                 *)
LEMMA StartContributes ==
  ASSUME FlowInv, FlowInv', ViewInv, NEW p \in Parties, Start(p)
  PROVE  Exchange!Contribute(p)
<1>1. PICK n : n = call[p] + 1
  OBVIOUS
<1>2. /\ n \in DOMAIN Plan /\ n \in Nat
      /\ shown' = [shown EXCEPT ![p] = Append(shown[p], Says(p, Plan[n]))]
  BY <1>1, StartSays DEF ViewInv
<1>3. /\ call' = [call EXCEPT ![p] = n] /\ pc' = [pc EXCEPT ![p] = "shares"] /\ k' = [k EXCEPT ![p] = 1]
      /\ pc[p] = "idle"
  BY <1>1, StartSends
<1>4. FlowType /\ Len(shown[p]) = call[p] /\ call[p] \in Nat /\ call[p] < Len(Plan)
  BY Counts DEF FlowInv, ViewInv, ShownInv, Start
<1>5. call'[p] = n /\ pc'[p] = "shares" /\ k'[p] = 1
  BY <1>3, <1>4 DEF FlowType
<1>6. ASSUME NEW a \in Parties PROVE Same(a)
  <2>1. CASE a # p
    BY <1>3, <1>4, <2>1, RestsSame DEF FlowType
  <2>2. CASE a = p
    <3>1. Returned(p)' = Returned(p) /\ Aborted(p)' = Aborted(p)
      BY <1>1, <1>3, <1>4, <1>5 DEF Returned, Ended, Aborted
    <3>2. Checked(p) = {x \in 1..call[p] : Plan[x].check}
      BY <1>3 DEF Checked
    <3>3. Checked(p)' = {x \in 1..call[p] : Plan[x].check}
      <4>1. /\ Len(Digests(p, Plan[n])) = IF Plan[n].check THEN NumPeers ELSE 0
            /\ NumPeers \in Nat /\ NumPeers >= 1
        BY <1>2, DigestsWithin
      <4>2. Cur(p)' = Plan[n]
        BY <1>5 DEF Cur
      <4>3. CASE Plan[n].check
        <5>1. Checked(p)' = {x \in 1..(n - 1) : Plan[x].check}
          BY <1>5, <4>1, <4>2, <4>3 DEF Checked
        <5>2. n - 1 = call[p]
          BY <1>1, <1>4
        <5> QED
          BY <5>1, <5>2
      <4>4. CASE ~Plan[n].check
        <5>1. Checked(p)' = {x \in 1..n : Plan[x].check}
          BY <1>5, <4>1, <4>2, <4>4 DEF Checked
        <5>2. \A x \in 1..n : Plan[x].check => x \in 1..call[p]
          BY <1>1, <1>4, <4>4
        <5>3. \A x \in 1..call[p] : x \in 1..n
          BY <1>1, <1>4
        <5> QED
          BY <5>1, <5>2, <5>3
      <4> QED
        BY <4>3, <4>4
    <3> QED
      BY <2>2, <3>1, <3>2, <3>3 DEF Same
  <2> QED
    BY <2>1, <2>2
<1>7. UNCHANGED <<consHash, openHash, bad>>
  BY DEF Start
<1>8. /\ [a \in Parties |-> Checked(a)]' = [a \in Parties |-> Checked(a)]
      /\ [a \in Parties |-> IF Ended(a) THEN call[a] ELSE call[a] - 1]'
           = [a \in Parties |-> IF Ended(a) THEN call[a] ELSE call[a] - 1]
      /\ [a \in Parties |-> pc[a] = "aborted"]' = [a \in Parties |-> pc[a] = "aborted"]
  BY <1>6 DEF Same, Returned, Aborted
<1>9. [a \in Parties |-> IF Ended(a) THEN call[a] ELSE call[a] - 1][p] = Len(shown[p])
  BY <1>3, <1>4 DEF Ended
<1>10. ~[a \in Parties |-> pc[a] = "aborted"][p]
  BY <1>3
<1>11. shown' = [shown EXCEPT ![p] = Append(shown[p], Exchange!Content(p, Plan[Len(shown[p]) + 1]))]
  BY <1>1, <1>2, <1>4 DEF Exchange!Content, Says
<1> QED
  BY <1>4, <1>7, <1>8, <1>9, <1>10, <1>11 DEF Exchange!Contribute, Exchange!Call

(* To read the last digest is to compare all of them ...                   *)
LEMMA LastChecks ==
  ASSUME FlowInv, FlowInv', ViewInv, NEW p \in Parties, Take(p), AtLast(p)
  PROVE  Exchange!Check(p)
<1>1. PICK n : n = call[p]
  OBVIOUS
<1>2. UNCHANGED <<pc, call, shown, openHash>> /\ k' = [k EXCEPT ![p] = k[p] + 1]
  BY DEF Take
<1>3. FlowType /\ MsgInv /\ VarsInv /\ ShownInv /\ AgreeInv(p)
  BY DEF FlowInv, ViewInv
<1>4. pc[p] = "shares" /\ k[p] = NumPeers /\ pc[p] \in Stages
  BY DEF AtLast, Stages
<1>5. /\ n \in DOMAIN Plan /\ n \in Nat /\ n >= 1 /\ Cur(p) = Plan[n]
      /\ NumPeers \in Nat /\ NumPeers >= 1
      /\ Checked(p) = IF pc[p] = "shares" /\ Plan[n].check /\ k[p] <= NumPeers
                      THEN {x \in 1..(n - 1) : Plan[x].check} ELSE {x \in 1..n : Plan[x].check}
  BY <1>1, <1>4, CheckedFacts
<1>6. Plan[n].check /\ Plan[n].mode # "accept"
  <2>1. Plan[n].check
    BY <1>5 DEF AtLast
  <2> QED
    BY <1>5, <2>1, PlanFacts
<1>7. k'[p] = NumPeers + 1 /\ call'[p] = n /\ pc'[p] = "shares"
  BY <1>1, <1>2, <1>3, <1>4 DEF FlowType
<1>8. Checked(p) = {x \in 1..(n - 1) : Plan[x].check} /\ Checked(p)' = {x \in 1..n : Plan[x].check}
  <2>1. NumPeers <= NumPeers /\ ~(NumPeers + 1 <= NumPeers)
    BY <1>5
  <2>2. Len(Digests(p, Plan[n])) = NumPeers /\ Cur(p)' = Plan[n]
    BY <1>5, <1>6, <1>7, DigestsWithin DEF Cur
  <2> QED
    BY <1>4, <1>5, <1>6, <1>7, <2>1, <2>2 DEF Checked
<1>9. Checked(p)' = Checked(p) \cup {n} /\ n \notin Checked(p)
  <2>1. \A x : x \in 1..n <=> x \in 1..(n - 1) \/ x = n
    BY <1>5
  <2>2. n \notin 1..(n - 1)
    BY <1>5
  <2> QED
    BY <1>6, <1>8, <2>1, <2>2
<1>10. \A a \in Parties : a # p => Same(a)
  <2>1. TAKE a \in Parties
  <2>2. SUFFICES ASSUME a # p PROVE Same(a)
    OBVIOUS
  <2> QED
    BY <1>2, <1>3, <2>2, RestsSame DEF FlowType
<1>11. \A i \in 1..NumPeers : n <= call[PeerAt(p, i)]
  <2>1. \A i \in 1..NumPeers : i < k[p] => n <= call[PeerAt(p, i)]
    BY <1>1, <1>3, <1>4, <1>5, <1>6 DEF AgreeInv
  <2>2. n <= call[PeerAt(p, NumPeers)]
    <3>1. NumPeers <= NumPeers
      BY <1>5
    <3> QED
      BY <1>1, <1>3, <1>4, <1>6, <3>1, TakeCompares
  <2>3. \A i \in 1..NumPeers : i < NumPeers \/ i = NumPeers
    BY <1>5
  <2> QED
    BY <1>4, <2>1, <2>2, <2>3
<1>12. \A q \in Parties : n <= call[q] /\ Len(shown[q]) = call[q]
  <2>1. TAKE q \in Parties
  <2>2. Len(shown[q]) = call[q]
    BY <1>3 DEF ShownInv
  <2>3. CASE q = p
    BY <1>1, <1>5, <2>2, <2>3
  <2>4. CASE q # p
    <3>1. PICK i \in 1..NumPeers : PeerAt(p, i) = q
      BY <2>4, PeerFacts
    <3> QED
      BY <1>11, <2>2, <3>1
  <2> QED
    BY <2>3, <2>4
<1>13. agree'[p] <=> ~Exchange!Mismatch(p, n)
  <2>1. agree[p] <=> Agreed(p, n, NumPeers)
    <3>1. NumPeers <= NumPeers
      BY <1>5
    <3> QED
      BY <1>1, <1>3, <1>4, <1>5, <1>6, <3>1 DEF AgreeInv
  <2>2. agree'[p] <=> agree[p] /\ Agrees(p, PeerAt(p, NumPeers), n)
    <3>1. NumPeers <= NumPeers
      BY <1>5
    <3> QED
      BY <1>1, <1>3, <1>4, <1>6, <3>1, TakeCompares
  <2>3. \A a : Agrees(p, a, n) <=> shown[a][n] = shown[p][n]
    BY <1>6 DEF Agrees
  <2>4. NumPeers \in 1..NumPeers /\ \A i \in 1..NumPeers : i < NumPeers \/ i = NumPeers
    BY <1>5
  <2>5. agree'[p] <=> \A i \in 1..NumPeers : shown[PeerAt(p, i)][n] = shown[p][n]
    BY <2>1, <2>2, <2>3, <2>4 DEF Agreed
  <2>6. (\A i \in 1..NumPeers : shown[PeerAt(p, i)][n] = shown[p][n])
          <=> \A q \in Parties : shown[q][n] = shown[p][n]
    <3>1. /\ \A i \in 1..NumPeers : PeerAt(p, i) \in Parties
          /\ \A q \in Parties \ {p} : \E i \in 1..NumPeers : PeerAt(p, i) = q
      BY PeerFacts
    <3> QED
      BY <3>1
  <2> QED
    BY <2>5, <2>6 DEF Exchange!Mismatch
<1>14. /\ consHash' = [consHash EXCEPT ![p] = << >>]
       /\ bad' = [bad EXCEPT ![p] = bad[p] \/ Exchange!Mismatch(p, n)]
  BY <1>3, <1>13, TakeChecks
<1>15. /\ [a \in Parties |-> Checked(a)]' = [[a \in Parties |-> Checked(a)] EXCEPT ![p] = Checked(p) \cup {n}]
       /\ [a \in Parties |-> IF Ended(a) THEN call[a] ELSE call[a] - 1]'
            = [a \in Parties |-> IF Ended(a) THEN call[a] ELSE call[a] - 1]
       /\ [a \in Parties |-> pc[a] = "aborted"]' = [a \in Parties |-> pc[a] = "aborted"]
  <2>1. [a \in Parties |-> Checked(a)]' = [[a \in Parties |-> Checked(a)] EXCEPT ![p] = Checked(p) \cup {n}]
    BY <1>9, <1>10 DEF Same
  <2>2. \A a \in Parties : Ended(a)' = Ended(a) /\ call'[a] = call[a] /\ pc'[a] = pc[a]
    BY <1>2 DEF Ended
  <2> QED
    BY <2>1, <2>2
<1>16. [a \in Parties |-> IF Ended(a) THEN call[a] ELSE call[a] - 1][p] < Len(shown[p])
  BY <1>1, <1>4, <1>5, <1>12 DEF Ended
<1>17. Exchange!AllIn(p)
  BY <1>1, <1>12, <1>16 DEF Exchange!AllIn, Exchange!Call
<1>18. Len(shown[p]) = n /\ [a \in Parties |-> Checked(a)][p] = Checked(p)
  BY <1>1, <1>12
<1> QED
  BY <1>2, <1>6, <1>9, <1>14, <1>15, <1>17, <1>18 DEF Exchange!Check, Exchange!Call

(* ... and no other read, nor a flush, nor the distribution of sums, shows. *)
LEMMA OthersStutter ==
  ASSUME FlowInv, FlowInv', ViewInv, NEW p \in Parties,
         (Take(p) /\ ~AtLast(p)) \/ RecvFlush(p) \/ Distribute(p)
  PROVE  UNCHANGED Exchange!vars
<1>1. FlowType /\ FlowType' /\ MsgInv /\ VarsInv
  BY DEF FlowInv, ViewInv
<1>2. UNCHANGED <<call, shown, openHash>> /\ pc[p] \in Stages /\ pc'[p] \in Stages
  <2>1. CASE Take(p)
    BY <2>1 DEF Take, Reading, Stages
  <2>2. CASE RecvFlush(p)
    BY <2>2 DEF RecvFlush, Reading, Stages
  <2>3. CASE Distribute(p)
    <3>1. pc' = [pc EXCEPT ![p] = "sums"] /\ pc[p] = "shares"
      BY <2>3, DistributeSends
    <3> QED
      BY <1>1, <2>3, <3>1 DEF Distribute, Stages, FlowType
  <2> QED
    BY <2>1, <2>2, <2>3
<1>3. consHash' = consHash /\ bad' = bad
  <2>1. CASE Take(p) /\ ~AtLast(p)
    <3>1. /\ consHash' = [consHash EXCEPT ![p] = consHash[p]]
          /\ bad' = [bad EXCEPT ![p] = bad[p] \/ FALSE]
      BY <1>1, <2>1, TakeChecks
    <3> QED
      BY <1>1, <3>1 DEF VarsInv, Whatever
  <2>2. CASE RecvFlush(p)
    BY <2>2 DEF RecvFlush
  <2>3. CASE Distribute(p)
    BY <2>3 DEF Distribute
  <2> QED
    BY <2>1, <2>2, <2>3
<1>4. \A a \in Parties : a # p => pc'[a] = pc[a] /\ k'[a] = k[a] /\ call'[a] = call[a]
  BY <1>1 DEF Take, RecvFlush, Distribute, Goto, FlowType
<1>5. PICK n : n = call[p]
  OBVIOUS
<1>6. /\ n \in DOMAIN Plan /\ NumPeers \in Nat /\ NumPeers >= 1 /\ k[p] \in Nat
      /\ Checked(p) = IF pc[p] = "shares" /\ Plan[n].check /\ k[p] <= NumPeers
                      THEN {x \in 1..(n - 1) : Plan[x].check} ELSE {x \in 1..n : Plan[x].check}
      /\ Cur(p) = Plan[n]
  BY <1>2, <1>5, CheckedFacts
<1>7. Checked(p)' = IF pc'[p] = "shares" /\ Plan[n].check /\ k'[p] <= NumPeers
                    THEN {x \in 1..(n - 1) : Plan[x].check} ELSE {x \in 1..n : Plan[x].check}
  <2>1. call'[p] = n /\ Cur(p)' = Plan[n] /\ k'[p] \in Nat /\ k'[p] >= 1
    BY <1>1, <1>2, <1>5 DEF Cur, FlowType
  <2>2. Len(Digests(p, Plan[n])) = IF Plan[n].check THEN NumPeers ELSE 0
    BY <1>6, DigestsWithin
  <2>3. k'[p] <= Len(Digests(p, Plan[n])) <=> Plan[n].check /\ k'[p] <= NumPeers
    BY <1>6, <2>1, <2>2
  <2> QED
    BY <2>1, <2>3 DEF Checked
<1>8. Plan[n].check => (pc'[p] = "shares" /\ k'[p] <= NumPeers <=> pc[p] = "shares" /\ k[p] <= NumPeers)
  <2>1. CASE Take(p) /\ ~AtLast(p)
    <3>1. pc'[p] = pc[p] /\ k'[p] = k[p] + 1
      BY <1>1, <2>1 DEF Take, FlowType
    <3>2. ~(pc[p] = "shares" /\ Plan[n].check /\ k[p] = NumPeers)
      BY <1>6, <2>1 DEF AtLast
    <3>3. k[p] # NumPeers => (k[p] + 1 <= NumPeers <=> k[p] <= NumPeers)
      BY <1>6
    <3> QED
      BY <3>1, <3>2, <3>3
  <2>2. CASE RecvFlush(p)
    BY <2>2 DEF RecvFlush
  <2>3. CASE Distribute(p)
    <3>1. pc' = [pc EXCEPT ![p] = "sums"] /\ pc[p] = "shares" /\ k[p] > Len(Reads(p))
      BY <2>3, DistributeSends
    <3>2. pc'[p] = "sums"
      BY <1>1, <3>1 DEF FlowType
    <3>3. Reads(p) = FirstReads[p][n]
      BY <1>5, <3>1 DEF Reads
    <3>4. Plan[n].check => NumPeers <= Len(FirstReads[p][n]) /\ Len(FirstReads[p][n]) \in Nat
      BY <1>6, DigestsWithin
    <3>5. Plan[n].check => ~(k[p] <= NumPeers)
      BY <1>6, <3>1, <3>3, <3>4
    <3> QED
      BY <3>2, <3>5
  <2> QED
    BY <2>1, <2>2, <2>3
<1>9. Checked(p)' = Checked(p)
  BY <1>6, <1>7, <1>8
<1>10. Returned(p)' = Returned(p) /\ Aborted(p)' = Aborted(p)
  BY <1>2 DEF Returned, Aborted, Ended, Stages
<1>11. \A a \in Parties : Same(a)
  BY <1>4, <1>9, <1>10, RestsSame DEF Same
<1>12. /\ [a \in Parties |-> Checked(a)]' = [a \in Parties |-> Checked(a)]
       /\ [a \in Parties |-> IF Ended(a) THEN call[a] ELSE call[a] - 1]'
            = [a \in Parties |-> IF Ended(a) THEN call[a] ELSE call[a] - 1]
       /\ [a \in Parties |-> pc[a] = "aborted"]' = [a \in Parties |-> pc[a] = "aborted"]
  BY <1>11 DEF Same, Returned, Aborted
<1> QED
  BY <1>2, <1>3, <1>12 DEF Exchange!vars

-----------------------------------------------------------------------------
(* Where all sums are in, or all shares, the whole vector is open.         *)
LEMMA AllSeen ==
  ASSUME NEW p \in Parties, NEW n \in DOMAIN Plan, NEW m \in Nat, NEW stage \in Stages, NEW v,
         Opened(v, p, stage, m, n), NonceOpened(v, p, stage, m, n),
         Plan[n].mode # "accept", m > Len(ListOf(stage, p, n)),
         stage = "sums" <=> Plan[n].mode = "pking"
  PROVE  [b \in Blocks \cup {0} |-> IF b \in Hashed(Plan[n]) THEN v[b] ELSE Right[b]]
           \in [Blocks \cup {0} -> Of(Parties)]
<1>1. \A b \in Blocks \cup {0} : Right[b] \in Of(Parties)
  <2>1. {} \in SUBSET Effects
    OBVIOUS
  <2> QED
    BY <2>1, AllOf DEF Right
<1>2. Plan[n].mode \in {"pking", "broadcast"}
  BY PlanFacts
<1>6. 0 \notin Blocks
  BY DEF Blocks
<1>7. SUFFICES ASSUME NEW b \in Hashed(Plan[n]) PROVE v[b] \in Of(Parties)
  BY <1>1
<1>8. CASE b = 0
  <2>1. Plan[n].nonce
    BY <1>6, <1>8 DEF Hashed
  <2>2. CASE Plan[n].mode = "broadcast" \/ p = 1
    <3>1. stage = "shares" => m > Len(FirstReads[p][n])
      BY DEF ListOf
    <3>2. NoncesAt(p, stage, m, n) = Parties
      BY <2>1, <2>2, <3>1, AllNonces
    <3> QED
      BY <1>8, <2>1, <2>2, <3>2 DEF NonceOpened
  <2>3. CASE Plan[n].mode # "broadcast" /\ p # 1
    <3>1. stage = "sums" /\ Plan[n].mode = "pking" /\ m > Len(SumReads[p][n])
      BY <1>2, <2>3 DEF ListOf
    <3>2. PICK R : R = SumReads[p][n]
      OBVIOUS
    <3>3. ListOK(R, p, n, {4, 5}) /\ {4, 5} \in SUBSET (1..5) /\ m > Len(R) /\ 5 \in {4, 5}
      BY <3>1, <3>2, SumOK
    <3>4. 1 \in Parties \ {p} /\ Has(1, p, n, 5)
      BY <2>1, <2>3, <3>1, ReconstructAssumption DEF Has, Parties
    <3>5. Among(R, m, 1, 5)
      BY <3>3, <3>4, AmongFacts
    <3>6. ReadOf(stage, m, p, 1, n, 5)
      BY <3>1, <3>2, <3>5 DEF ReadOf
    <3> QED
      BY <1>8, <2>1, <2>3, <3>1, <3>6 DEF NonceOpened
  <2> QED
    BY <2>2, <2>3
<1>9. CASE b # 0 /\ Plan[n].mode = "broadcast"
  <2>1. stage = "shares" /\ m > Len(FirstReads[p][n])
    BY <1>9 DEF Stages, ListOf
  <2>2. GotAt(p, stage, m, n) = Parties
    BY <1>9, <2>1, AllGot
  <2>3. b \in Blocks
    BY <1>9 DEF Hashed
  <2> QED
    BY <1>9, <2>2, <2>3 DEF Opened
<1>4. CASE b # 0 /\ Plan[n].mode = "pking"
  <2>1. stage = "sums" /\ m > Len(SumReads[p][n])
    BY <1>4 DEF ListOf
  <2>4. b \in Blocks /\ HasValues(Plan[n], b)
    BY <1>4 DEF Hashed
  <2>2. HasValues(Plan[n], p) => v[p] \in Of(Parties)
    <3>1. HasValues(Plan[n], p) => GotAt(p, stage, m, n) = Parties
      BY <1>4, <2>1, AllGot
    <3> QED
      BY <1>4, <3>1 DEF Opened
  <2>3. ASSUME b # p PROVE v[b] \in Of(Parties)
    <3>1. PICK R : R = SumReads[p][n]
      OBVIOUS
    <3>2. ListOK(R, p, n, {4, 5}) /\ {4, 5} \in SUBSET (1..5) /\ m > Len(R) /\ 4 \in {4, 5}
      BY <1>4, <2>1, <3>1, SumOK
    <3>3. b \in Parties \ {p} /\ Has(b, p, n, 4)
      BY <1>4, <2>3, <2>4 DEF Has, Parties, Blocks
    <3>4. Among(R, m, b, 4)
      BY <3>2, <3>3, AmongFacts
    <3>5. SumAt(p, b, stage, m, n)
      BY <2>1, <3>1, <3>4 DEF SumAt, ReadOf
    <3> QED
      BY <1>4, <2>3, <2>4, <3>5 DEF Opened
  <2> QED
    BY <2>2, <2>3, <2>4
<1> QED
  BY <1>2, <1>4, <1>8, <1>9

(* Where a party returns: everybody is in the call, the digests have been  *)
(* compared, what it sees is of all shares, and it knows about an accept   *)
(* what the others say.                                                    *)
LEMMA ReturnFacts ==
  ASSUME FlowInv, ViewInv, NEW p \in Parties, Return(p), NEW n, n = call[p]
  PROVE  /\ n \in DOMAIN Plan /\ n \in Nat /\ n >= 1 /\ Cur(p) = Plan[n] /\ pc[p] \in Stages
         /\ \A q \in Parties : Len(shown[q]) = call[q] /\ call[q] >= n
         /\ Checked(p) = {x \in 1..n : Plan[x].check}
         /\ Plan[n].mode # "accept" => Seen(p) \in [Blocks \cup {0} -> Of(Parties)]
         /\ Plan[n].mode = "accept" => (agree[p] <=> \A q \in Parties : shown[q][n] = TRUE)
<1>1. PICK st, m : st = pc[p] /\ m = k[p]
  OBVIOUS
<1>2. /\ st \in Stages /\ m > Len(Reads(p)) /\ (Plan[n].mode = "pking" => st = "sums")
  BY <1>1 DEF Return, Stages, Cur
<1>3. /\ n \in DOMAIN Plan /\ n \in Nat /\ n >= 1 /\ Cur(p) = Plan[n] /\ m \in Nat
      /\ NumPeers \in Nat /\ NumPeers >= 1
      /\ Checked(p) = IF st = "shares" /\ Plan[n].check /\ m <= NumPeers
                      THEN {x \in 1..(n - 1) : Plan[x].check} ELSE {x \in 1..n : Plan[x].check}
  BY <1>1, <1>2, CheckedFacts
<1>4. (st = "sums" <=> Plan[n].mode = "pking") /\ (st = "shares" <=> st # "sums")
  BY <1>1, <1>2, <1>3 DEF FlowInv, FlowType, Stages
<1>5. m > Len(ListOf(st, p, n))
  BY <1>1, <1>2 DEF Reads, ListOf
<1>6. \A q \in Parties : Len(shown[q]) = call[q] /\ call[q] >= n
  <2>1. TAKE q \in Parties
  <2>2. n <= call[q]
    BY <1>1, <1>2, AllBegan
  <2>3. call[q] \in Nat
    BY Counts DEF FlowInv
  <2> QED
    BY <1>3, <2>2, <2>3 DEF ViewInv, ShownInv
<1>7. (Plan[n].check \/ Plan[n].mode = "accept") /\ st = "shares" => m > NumPeers
  <2>1. SUFFICES ASSUME Plan[n].check \/ Plan[n].mode = "accept", st = "shares" PROVE m > NumPeers
    OBVIOUS
  <2>2. PICK w : w = Len(FirstReads[p][n])
    OBVIOUS
  <2>3. w \in Nat /\ w >= NumPeers
    <3>1. /\ Len(Digests(p, Plan[n])) = IF Plan[n].check THEN NumPeers ELSE 0
          /\ w \in Nat /\ Len(Digests(p, Plan[n])) <= w
          /\ Plan[n].mode = "accept" => w = NumPeers
      BY <1>3, <2>2, DigestsWithin
    <3> QED
      BY <1>3, <2>1, <3>1
  <2>4. m > w
    BY <1>5, <2>1, <2>2 DEF ListOf
  <2> QED
    BY <1>3, <2>3, <2>4
<1>8. Checked(p) = {x \in 1..n : Plan[x].check}
  <2>1. ~(st = "shares" /\ Plan[n].check /\ m <= NumPeers)
    BY <1>3, <1>7
  <2> QED
    BY <1>3, <2>1
<1>9. ASSUME Plan[n].mode # "accept" PROVE Seen(p) \in [Blocks \cup {0} -> Of(Parties)]
  <2>1. PICK v : v = vals[p]
    OBVIOUS
  <2>2. Opened(v, p, st, m, n) /\ NonceOpened(v, p, st, m, n)
    BY <1>1, <2>1 DEF ViewInv
  <2>3. [b \in Blocks \cup {0} |-> IF b \in Hashed(Plan[n]) THEN v[b] ELSE Right[b]]
          \in [Blocks \cup {0} -> Of(Parties)]
    BY <1>2, <1>3, <1>4, <1>5, <1>9, <2>2, AllSeen
  <2>4. Seen(p) = [b \in Blocks \cup {0} |-> IF b \in Hashed(Plan[n]) THEN v[b] ELSE Right[b]]
    BY <1>3, <2>1 DEF Seen
  <2> QED
    BY <2>3, <2>4
<1>10. ASSUME Plan[n].mode = "accept" PROVE agree[p] <=> \A q \in Parties : shown[q][n] = TRUE
  <2>1. st = "shares" /\ m > NumPeers
    BY <1>4, <1>7, <1>10
  <2>2. agree[p] <=> Agreed(p, n, m)
    BY <1>1, <1>3, <1>10, <2>1 DEF ViewInv, AgreeInv
  <2>3. \A a : Agrees(p, a, n) <=> shown[a][n] = TRUE
    BY <1>10 DEF Agrees
  <2>4. \A i \in 1..NumPeers : i < m
    BY <1>3, <2>1
  <2>5. agree[p] <=> shown[p][n] = TRUE /\ \A i \in 1..NumPeers : shown[PeerAt(p, i)][n] = TRUE
    BY <2>2, <2>3, <2>4 DEF Agreed
  <2>6. /\ \A i \in 1..NumPeers : PeerAt(p, i) \in Parties
        /\ \A q \in Parties \ {p} : \E i \in 1..NumPeers : PeerAt(p, i) = q
    BY PeerFacts
  <2> QED
    BY <2>5, <2>6
<1> QED
  BY <1>1, <1>2, <1>3, <1>6, <1>8, <1>9, <1>10

(* To return from a call is to return from it with what has been seen.     *)
LEMMA ReturnReturns ==
  ASSUME FlowInv, FlowInv', ViewInv, NEW p \in Parties, Return(p)
  PROVE  \E v \in [Blocks \cup {0} -> {Block(Whole, off) : off \in SUBSET Effects}] : Exchange!Return(p, v)
<1>1. PICK n : n = call[p]
  OBVIOUS
<1>2. /\ n \in DOMAIN Plan /\ n \in Nat /\ n >= 1 /\ Cur(p) = Plan[n] /\ pc[p] \in Stages
      /\ \A q \in Parties : Len(shown[q]) = call[q] /\ call[q] >= n
      /\ Checked(p) = {x \in 1..n : Plan[x].check}
      /\ Plan[n].mode # "accept" => Seen(p) \in [Blocks \cup {0} -> Of(Parties)]
      /\ Plan[n].mode = "accept" => (agree[p] <=> \A q \in Parties : shown[q][n] = TRUE)
  BY <1>1, ReturnFacts
<1>3. FlowType /\ VarsInv
  BY DEF FlowInv, ViewInv
<1>4. PICK v \in [Blocks \cup {0} -> Of(Parties)] : Plan[n].mode # "accept" => v = Seen(p)
  <2>1. [b \in Blocks \cup {0} |-> Block(Whole, {})] \in [Blocks \cup {0} -> Of(Parties)]
    BY AllOf
  <2> QED
    BY <1>2, <2>1
<1>5. UNCHANGED <<call, shown>> /\ k' = [k EXCEPT ![p] = 1]
  BY DEF Return, Goto
<1>6. pc' = [pc EXCEPT ![p] = IF Plan[n].mode = "accept" /\ ~agree[p] THEN "aborted" ELSE "idle"]
  BY <1>2 DEF Return, Goto
<1>7. pc'[p] = IF Plan[n].mode = "accept" /\ ~agree[p] THEN "aborted" ELSE "idle"
  BY <1>3, <1>6 DEF FlowType
<1>8. \A a \in Parties : a # p => Same(a)
  <2>1. TAKE a \in Parties
  <2>2. SUFFICES ASSUME a # p PROVE Same(a)
    OBVIOUS
  <2> QED
    BY <1>3, <1>5, <1>6, <2>2, RestsSame DEF FlowType
<1>9. Checked(p)' = Checked(p)
  <2>1. pc'[p] # "shares" /\ call'[p] = n
    BY <1>1, <1>5, <1>7
  <2>2. Checked(p)' = {x \in 1..n : Plan[x].check}
    BY <2>1 DEF Checked
  <2> QED
    BY <1>2, <2>2
<1>10. [a \in Parties |-> Checked(a)]' = [a \in Parties |-> Checked(a)]
  BY <1>8, <1>9 DEF Same
<1>11. [a \in Parties |-> IF Ended(a) THEN call[a] ELSE call[a] - 1]'
         = [[a \in Parties |-> IF Ended(a) THEN call[a] ELSE call[a] - 1] EXCEPT ![p] = n]
  <2>1. Returned(p)' = n
    BY <1>1, <1>5, <1>7 DEF Returned, Ended
  <2>2. \A a \in Parties : a # p => Returned(a)' = Returned(a)
    BY <1>8 DEF Same
  <2>3. [a \in Parties |-> Returned(a)]' = [[a \in Parties |-> Returned(a)] EXCEPT ![p] = n]
    BY <2>1, <2>2
  <2> QED
    BY <2>3 DEF Returned
<1>12. Exchange!Refused(p, n) <=> ~\A q \in Parties : shown[q][n] = TRUE
  BY DEF Exchange!Refused
<1>13. [a \in Parties |-> pc[a] = "aborted"]'
         = [[a \in Parties |-> pc[a] = "aborted"] EXCEPT ![p] = Plan[n].mode = "accept" /\ Exchange!Refused(p, n)]
  <2>1. Aborted(p)' = (Plan[n].mode = "accept" /\ Exchange!Refused(p, n))
    BY <1>2, <1>7, <1>12 DEF Aborted
  <2>2. \A a \in Parties : a # p => Aborted(a)' = Aborted(a)
    BY <1>8 DEF Same
  <2>3. [a \in Parties |-> Aborted(a)]'
          = [[a \in Parties |-> Aborted(a)] EXCEPT ![p] = Plan[n].mode = "accept" /\ Exchange!Refused(p, n)]
    BY <2>1, <2>2
  <2> QED
    BY <2>3 DEF Aborted
<1>14. consHash' = [consHash EXCEPT ![p] = IF Plan[n].include THEN Append(consHash[p], v) ELSE consHash[p]]
  <2>1. Plan[n].include => v = Seen(p)
    BY <1>2, <1>4, PlanFacts
  <2> QED
    BY <1>2, <2>1 DEF Return, Put
<1> DEFINE committed == Plan[n].mode # "accept" /\ ~Plan[n].include
           views == IF committed THEN Append(openHash[p], v) ELSE openHash[p]
<1>15. /\ openHash' = [openHash EXCEPT ![p] = IF Plan[n].nonce THEN << >> ELSE views]
       /\ bad' = [bad EXCEPT ![p] = bad[p] \/ (Plan[n].nonce /\ \E i \in DOMAIN views : views[i] # Right)]
  <2>1. views = IF committed THEN Append(openHash[p], Seen(p)) ELSE openHash[p]
    BY <1>4
  <2>2. Verify(p)
    BY DEF Return
  <2> HIDE DEF views
  <2> QED
    BY <1>2, <2>1, <2>2 DEF Verify
<1>16. Len(shown[p]) = n
  BY <1>1, <1>2
<1>17. Exchange!AllIn(p)
  <2>1. [a \in Parties |-> IF Ended(a) THEN call[a] ELSE call[a] - 1][p] = n - 1
    BY <1>1, <1>2 DEF Ended, Stages
  <2>2. n - 1 < n /\ \A q \in Parties : Len(shown[q]) >= n
    BY <1>2
  <2> QED
    BY <1>16, <2>1, <2>2 DEF Exchange!AllIn, Exchange!Call
<1>18. Plan[n].check => n \in [a \in Parties |-> Checked(a)][p]
  BY <1>2
<1>19. Exchange!Return(p, v)
  BY <1>5, <1>10, <1>11, <1>13, <1>14, <1>15, <1>16, <1>17, <1>18 DEF Exchange!Return, Exchange!Call
<1> QED
  BY <1>4, <1>19, AllOf

-----------------------------------------------------------------------------
(* Nothing has been checked in the beginning.                              *)
LEMMA InitExchange == Init => Exchange!Init
<1> SUFFICES ASSUME Init PROVE Exchange!Init
  OBVIOUS
<1>1. /\ pc = [p \in Parties |-> "idle"] /\ call = [p \in Parties |-> 0]
      /\ consHash = [p \in Parties |-> << >>] /\ openHash = [p \in Parties |-> << >>]
      /\ shown = [p \in Parties |-> << >>] /\ bad = [p \in Parties |-> FALSE]
  BY DEF Init
<1>2. ASSUME NEW p \in Parties PROVE Checked(p) = {} /\ call[p] = 0 /\ Ended(p) /\ (pc[p] = "aborted") = FALSE
  <2>1. call[p] = 0 /\ pc[p] = "idle"
    BY <1>1
  <2>2. Checked(p) = {n \in 1..0 : Plan[n].check}
    BY <2>1 DEF Checked
  <2> QED
    BY <2>1, <2>2 DEF Ended
<1> QED
  BY <1>1, <1>2 DEF Exchange!Init

(* Every step of a party is one of a checked opening, or none.             *)
LEMMA StepsImplement ==
  ASSUME FlowInv, FlowInv', ViewInv, [Next]_vars
  PROVE  [Exchange!Next]_(Exchange!vars)
<1>1. CASE Next
  <2>1. PICK p \in Parties : Step(p)
    BY <1>1 DEF Next
  <2>2. CASE Start(p)
    <3>1. Exchange!Contribute(p)
      BY <2>2, StartContributes
    <3> QED
      BY <3>1 DEF Exchange!Next, Exchange!Step
  <2>3. CASE Take(p) /\ AtLast(p)
    <3>1. Exchange!Check(p)
      BY <2>3, LastChecks
    <3> QED
      BY <3>1 DEF Exchange!Next, Exchange!Step
  <2>4. CASE (Take(p) /\ ~AtLast(p)) \/ RecvFlush(p) \/ Distribute(p)
    BY <2>4, OthersStutter
  <2>5. CASE Return(p)
    <3>1. \E v \in [Blocks \cup {0} -> {Block(Whole, off) : off \in SUBSET Effects}] : Exchange!Return(p, v)
      BY <2>5, ReturnReturns
    <3> QED
      BY <3>1 DEF Exchange!Next, Exchange!Step
  <2> QED
    BY <2>1, <2>2, <2>3, <2>4, <2>5 DEF Step
<1>2. CASE UNCHANGED vars
  <2>1. UNCHANGED <<pc, k, call, consHash, openHash, bad, shown>>
    BY <1>2 DEF vars
  <2>2. \A a \in Parties : Same(a)
    BY <2>1, RestsSame
  <2>3. /\ [a \in Parties |-> Checked(a)]' = [a \in Parties |-> Checked(a)]
        /\ [a \in Parties |-> IF Ended(a) THEN call[a] ELSE call[a] - 1]'
             = [a \in Parties |-> IF Ended(a) THEN call[a] ELSE call[a] - 1]
        /\ [a \in Parties |-> pc[a] = "aborted"]' = [a \in Parties |-> pc[a] = "aborted"]
    BY <2>2 DEF Same, Returned, Aborted
  <2> QED
    BY <2>1, <2>3 DEF Exchange!vars
<1> QED
  BY <1>1, <1>2

(* The exchanges implement checked openings: with any number of parties,   *)
(* any plan of calls and any alterations, to start a call is to contribute *)
(* to it, to read the last digest is to compare all of them, and to return *)
(* is to return with a view of the whole vector, once all have contributed *)
(* (606-851, 1726-1771).                                                   *)
THEOREM ImplementsChecking == Spec => ChecksOpenings
<1>1. FlowInv /\ FlowInv' /\ ViewInv /\ [Next]_vars => [Exchange!Next]_(Exchange!vars)
  BY StepsImplement
<1> QED
  BY <1>1, InitExchange, ViewsKept, PTL DEF Spec, ChecksOpenings

-----------------------------------------------------------------------------
(* What is proved of checked openings is then true of the exchanges.       *)
Promise == INSTANCE CheckedOpening_proofs WITH
  Views    <- [Blocks \cup {0} -> {Block(Whole, off) : off \in SUBSET Effects}],
  checked  <- [p \in Parties |-> Checked(p)],
  returned <- [p \in Parties |-> IF Ended(p) THEN call[p] ELSE call[p] - 1],
  kept     <- consHash,
  opened   <- openHash,
  gone     <- [p \in Parties |-> pc[p] = "aborted"]

(* With any number of parties, any plan and any alterations, all give up   *)
(* in the same accept; past an accept all digests of the checks before it  *)
(* were equal, and nobody knows of a mismatch (1611-1616, 1726-1771).      *)
THEOREM ExchangesAgree == Spec => [](Exchange!SameFate /\ Exchange!Agreement /\ Exchange!AllClear)
<1>1. Promise!PlanAssumption
  BY ReconstructAssumption DEF Promise!PlanAssumption
<1>2. Init => Promise!IInv
  BY <1>1, InitExchange, Promise!InitIInv DEF Exchange!Init, Promise!Init
<1>3. FlowInv /\ FlowInv' /\ ViewInv /\ Promise!IInv /\ [Next]_vars => Promise!IInv'
  <2>1. Exchange!Next <=> Promise!Next
    BY DEF Exchange!Next, Promise!Next, Exchange!Step, Promise!Step, Exchange!Contribute, Promise!Contribute,
           Exchange!Check, Promise!Check, Exchange!Return, Promise!Return, Exchange!Call, Promise!Call,
           Exchange!AllIn, Promise!AllIn, Exchange!Content, Promise!Content,
           Exchange!Mismatch, Promise!Mismatch, Exchange!Refused, Promise!Refused
  <2>2. UNCHANGED Exchange!vars <=> UNCHANGED Promise!vars
    BY DEF Exchange!vars, Promise!vars
  <2> QED
    BY <1>1, <2>1, <2>2, StepsImplement, Promise!StepIInv
<1>4. Promise!IInv => Exchange!SameFate /\ Exchange!Agreement /\ Exchange!AllClear
  BY <1>1, Promise!FateFollows, Promise!AgreementFollows, Promise!ClearFollows
  DEF Exchange!SameFate, Promise!SameFate, Exchange!Agreement, Promise!Agreement,
      Exchange!AllClear, Promise!AllClear, Exchange!Call, Promise!Call
<1> QED
  BY <1>2, <1>3, <1>4, ViewsKept, PTL DEF Spec
=============================================================================
