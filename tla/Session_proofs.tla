---------------------------- MODULE Session_proofs ----------------------------
(***************************************************************************)
(* Proofs about Session, for any number of parties, any repetitions and    *)
(* both evaluators in a benchmark or a test: in every part of the program  *)
(* what one process tells another that one gets, in the same order; so     *)
(* that every read finds its own message, nothing is left on the streams,  *)
(* and a sync separates what is done before it from what is done after it. *)
(***************************************************************************)
EXTENDS Session, TLAPS

(* When in a repetition and a part a message of a kind is sent or read.    *)
Rank(s, kind) ==
  IF kind = "sync" THEN 0 ELSE IF kind = "seed" THEN 1
  ELSE IF kind = "output randomizers" THEN (IF s.evaluator = "semi" THEN 2 ELSE 6)
  ELSE IF kind = "gamma" THEN 3 ELSE IF kind = "commits" THEN 4 ELSE IF kind = "randomizers" THEN 5
  ELSE IF kind = "output commit" THEN 7 ELSE IF kind = "inputs" THEN 8 ELSE IF kind = "digest" THEN 9
  ELSE IF kind = "accept" THEN 10 ELSE IF kind = "shares" THEN 11 ELSE IF kind = "proof" THEN 12
  ELSE IF kind = "outputs" THEN 13 ELSE 14

IsSeq(t) == \E S : t \in Seq(S)

(* An operation tells q something of a kind, or reads it from q.           *)
Says(o, q, x) == o.do \in {"send", "sync"} /\ q \in o.peers /\ o.kind = x
Gets(o, q, x) == o.do = "recv" /\ o.peers = {q} /\ o.kind = x

OpOK(o, p) ==
  /\ o.do \in {"send", "sync", "recv", "flush"} /\ o.peers \subseteq Procs \ {p}
  /\ o.do # "send" => \E q \in Procs \ {p} : o.peers = {q}

(* Of the operations of one process, those with one peer are in order.     *)
InOrder(s, A) ==
  \A i, j \in 1..Len(A) : i < j =>
    \A q, x, y : (Says(A[i], q, x) /\ Says(A[j], q, y)) \/ (Gets(A[i], q, x) /\ Gets(A[j], q, y))
                   => Rank(s, x) < Rank(s, y)

(* What is told in A to q, and what is read there.                         *)
Tells(A, q, x) == \E i \in 1..Len(A) : Says(A[i], q, x)
Hears(A, q, x) == \E i \in 1..Len(A) : Gets(A[i], q, x)

(* P[p] is what p does in some stretch of the program: all operations are  *)
(* in order, and what one process tells another that one reads.            *)
Alone(s, A, p, lo, hi) ==
  /\ IsSeq(A) /\ InOrder(s, A)
  /\ \A i \in 1..Len(A) : OpOK(A[i], p) /\ (A[i].do # "flush" => Rank(s, A[i].kind) \in lo..hi)

Good(s, P, lo, hi) ==
  /\ \A p \in Procs : Alone(s, P[p], p, lo, hi)
  /\ \A p, q \in Procs : \A x : Tells(P[p], q, x) <=> Hears(P[q], p, x)

-----------------------------------------------------------------------------
(* Sequences of whatever elements, one after the other.                    *)
LEMMA Joined ==
  ASSUME NEW a, NEW b, IsSeq(a), IsSeq(b)
  PROVE  /\ IsSeq(a \o b) /\ Len(a) \in Nat /\ Len(b) \in Nat /\ Len(a \o b) = Len(a) + Len(b)
         /\ \A i \in 1..Len(a) : (a \o b)[i] = a[i]
         /\ \A i \in 1..Len(b) : (a \o b)[Len(a) + i] = b[i]
         /\ \A i \in 1..Len(a \o b) : i <= Len(a) \/ i - Len(a) \in 1..Len(b)
<1>1. PICK S, T : a \in Seq(S) /\ b \in Seq(T)
  BY DEF IsSeq
<1>2. a \in Seq(S \cup T) /\ b \in Seq(S \cup T)
  BY <1>1
<1>3. a \o b \in Seq(S \cup T)
  BY <1>2
<1>4. Len(a) \in Nat /\ Len(b) \in Nat /\ Len(a \o b) = Len(a) + Len(b)
  BY <1>2
<1>5. \A i \in 1..Len(a) : (a \o b)[i] = a[i]
  BY <1>2
<1>6. \A i \in 1..Len(b) : (a \o b)[Len(a) + i] = b[i]
  BY <1>2, <1>4
<1>7. \A i \in 1..Len(a \o b) : i <= Len(a) \/ i - Len(a) \in 1..Len(b)
  BY <1>4
<1> QED
  BY <1>3, <1>4, <1>5, <1>6, <1>7 DEF IsSeq

(* A function on an interval from 1, a sequence of one element, and none.  *)
LEMMA Listed ==
  ASSUME NEW n \in Nat, NEW f, f = [i \in 1..n |-> f[i]]
  PROVE  IsSeq(f) /\ Len(f) = n
<1>1. f \in Seq({f[i] : i \in 1..n})
  OBVIOUS
<1>2. IsSeq(f)
  BY <1>1 DEF IsSeq
<1>3. DOMAIN f = 1..n
  OBVIOUS
<1>4. Len(f) = n
  BY <1>1, <1>3
<1> QED
  BY <1>2, <1>4

(* The sequences of no and of one element.                                 *)
LEMMA Short ==
  /\ IsSeq(<< >>) /\ Len(<< >>) = 0
  /\ \A e : IsSeq(<<e>>) /\ Len(<<e>>) = 1 /\ <<e>>[1] = e
<1>1. << >> \in Seq({}) /\ Len(<< >>) = 0
  OBVIOUS
<1>2. ASSUME NEW e PROVE IsSeq(<<e>>) /\ Len(<<e>>) = 1 /\ <<e>>[1] = e
  <2>1. <<e>> \in Seq({e})
    OBVIOUS
  <2> QED
    BY <2>1 DEF IsSeq
<1> QED
  BY <1>1, <1>2 DEF IsSeq

(* Two stretches, one after the other: what they do to the order ...       *)
LEMMA AloneJoin ==
  ASSUME NEW s, NEW p, NEW A, NEW B, NEW lo \in Nat, NEW mid \in Nat, NEW mid2 \in Nat, NEW hi \in Nat,
         Alone(s, A, p, lo, mid), Alone(s, B, p, mid2, hi), lo <= mid, mid < mid2, mid2 <= hi
  PROVE  Alone(s, A \o B, p, lo, hi)
<1>1. IsSeq(A) /\ IsSeq(B) /\ InOrder(s, A) /\ InOrder(s, B)
  BY DEF Alone
<1>2. PICK C, a : C = A \o B /\ a = Len(A)
  OBVIOUS
<1>3. /\ IsSeq(C) /\ a \in Nat /\ Len(B) \in Nat /\ Len(C) = a + Len(B)
      /\ \A i \in 1..a : C[i] = A[i]
      /\ \A i \in 1..Len(B) : C[a + i] = B[i]
      /\ \A i \in 1..Len(C) : i <= a \/ i - a \in 1..Len(B)
  BY <1>1, <1>2, Joined
<1>4. \A i \in 1..Len(C) : \/ i \in 1..a /\ C[i] = A[i]
                           \/ i > a /\ i - a \in 1..Len(B) /\ C[i] = B[i - a]
  <2>1. TAKE i \in 1..Len(C)
  <2>2. CASE i <= a
    <3>1. i \in 1..a
      BY <1>3, <2>2
    <3> QED
      BY <1>3, <3>1
  <2>3. CASE i - a \in 1..Len(B)
    <3>1. a + (i - a) = i /\ i > a
      BY <1>3, <2>3
    <3> QED
      BY <1>3, <2>3, <3>1
  <2> QED
    BY <1>3, <2>2, <2>3
<1>5. ASSUME NEW i \in 1..Len(C)
      PROVE  OpOK(C[i], p) /\ (C[i].do # "flush" => Rank(s, C[i].kind) \in lo..hi)
  <2>1. /\ \A j \in 1..a : OpOK(A[j], p) /\ (A[j].do # "flush" => Rank(s, A[j].kind) \in lo..mid)
        /\ \A j \in 1..Len(B) : OpOK(B[j], p) /\ (B[j].do # "flush" => Rank(s, B[j].kind) \in mid2..hi)
    BY <1>2 DEF Alone
  <2>2. \A r : r \in lo..mid \/ r \in mid2..hi => r \in lo..hi
    OBVIOUS
  <2> QED
    BY <1>4, <2>1, <2>2
<1>6. ASSUME NEW i \in 1..Len(C), NEW j \in 1..Len(C), i < j, NEW q, NEW x, NEW y,
             (Says(C[i], q, x) /\ Says(C[j], q, y)) \/ (Gets(C[i], q, x) /\ Gets(C[j], q, y))
      PROVE  Rank(s, x) < Rank(s, y)
  <2>1. CASE i \in 1..a /\ j \in 1..a
    <3>1. C[i] = A[i] /\ C[j] = A[j]
      BY <1>3, <2>1
    <3>2. i \in 1..Len(A) /\ j \in 1..Len(A)
      BY <1>2, <2>1
    <3>3. (Says(A[i], q, x) /\ Says(A[j], q, y)) \/ (Gets(A[i], q, x) /\ Gets(A[j], q, y))
      BY <1>6, <3>1
    <3> QED
      BY <1>1, <1>6, <3>2, <3>3 DEF InOrder
  <2>2. CASE i > a /\ j > a
    <3>1. PICK v, w : v = i - a /\ w = j - a
      OBVIOUS
    <3>2. v \in 1..Len(B) /\ w \in 1..Len(B) /\ C[i] = B[v] /\ C[j] = B[w] /\ v < w
      BY <1>3, <1>4, <1>6, <2>2, <3>1
    <3>3. (Says(B[v], q, x) /\ Says(B[w], q, y)) \/ (Gets(B[v], q, x) /\ Gets(B[w], q, y))
      BY <1>6, <3>2
    <3> QED
      BY <1>1, <3>2, <3>3 DEF InOrder
  <2>3. CASE i \in 1..a /\ j > a
    <3>1. PICK w : w = j - a /\ w \in 1..Len(B) /\ C[j] = B[w] /\ C[i] = A[i]
      BY <1>3, <1>4, <2>3
    <3>2. A[i].do # "flush" /\ B[w].do # "flush" /\ A[i].kind = x /\ B[w].kind = y
      BY <1>6, <3>1 DEF Says, Gets
    <3>3. Rank(s, x) \in lo..mid /\ Rank(s, y) \in mid2..hi
      BY <1>2, <2>3, <3>1, <3>2 DEF Alone
    <3> QED
      BY <3>3
  <2> QED
    BY <1>3, <1>6, <2>1, <2>2, <2>3
<1>7. InOrder(s, C)
  BY <1>6 DEF InOrder
<1> QED
  BY <1>2, <1>3, <1>5, <1>7 DEF Alone

(* ... and what is told and heard in them.                                 *)
LEMMA ToldJoin ==
  ASSUME NEW A, NEW B, IsSeq(A), IsSeq(B), NEW q, NEW x
  PROVE  /\ Tells(A \o B, q, x) <=> Tells(A, q, x) \/ Tells(B, q, x)
         /\ Hears(A \o B, q, x) <=> Hears(A, q, x) \/ Hears(B, q, x)
<1>1. PICK C, a : C = A \o B /\ a = Len(A)
  OBVIOUS
<1>2. /\ a \in Nat /\ Len(B) \in Nat /\ Len(C) = a + Len(B)
      /\ \A i \in 1..a : C[i] = A[i]
      /\ \A i \in 1..Len(B) : C[a + i] = B[i]
      /\ \A i \in 1..Len(C) : i <= a \/ i - a \in 1..Len(B)
  BY <1>1, Joined
<1>3. \A i \in 1..a : i \in 1..Len(C)
  BY <1>2
<1>4. \A i \in 1..Len(B) : a + i \in 1..Len(C)
  BY <1>2
<1>5. \A i \in 1..Len(C) : \/ i \in 1..a /\ C[i] = A[i]
                           \/ i - a \in 1..Len(B) /\ C[i] = B[i - a]
  <2>1. TAKE i \in 1..Len(C)
  <2>2. CASE i <= a
    <3>1. i \in 1..a
      BY <1>2, <2>2
    <3> QED
      BY <1>2, <3>1
  <2>3. CASE i - a \in 1..Len(B)
    <3>1. a + (i - a) = i
      BY <1>2, <2>3
    <3> QED
      BY <1>2, <2>3, <3>1
  <2> QED
    BY <1>2, <2>2, <2>3
<1>6. Tells(C, q, x) <=> Tells(A, q, x) \/ Tells(B, q, x)
  BY <1>1, <1>2, <1>3, <1>4, <1>5 DEF Tells
<1>7. Hears(C, q, x) <=> Hears(A, q, x) \/ Hears(B, q, x)
  BY <1>1, <1>2, <1>3, <1>4, <1>5 DEF Hears
<1> QED
  BY <1>1, <1>6, <1>7

Joins(P, Q, R) == \A p \in Procs : R[p] = P[p] \o Q[p]
Apart(lo, mid, mid2, hi) ==
  lo \in Nat /\ mid \in Nat /\ mid2 \in Nat /\ hi \in Nat /\ lo <= mid /\ mid < mid2 /\ mid2 <= hi

(* Two good stretches, one after the other, are one, if the messages of the*)
(* first come before those of the second.                                  *)
LEMMA GoodJoin ==
  ASSUME NEW s, NEW P, NEW Q, NEW R, NEW lo, NEW mid, NEW mid2, NEW hi,
         Good(s, P, lo, mid), Good(s, Q, mid2, hi), Apart(lo, mid, mid2, hi), Joins(P, Q, R)
  PROVE  Good(s, R, lo, hi)
<1>0. /\ lo \in Nat /\ mid \in Nat /\ mid2 \in Nat /\ hi \in Nat /\ lo <= mid /\ mid < mid2 /\ mid2 <= hi
      /\ \A p \in Procs : R[p] = P[p] \o Q[p]
  BY DEF Apart, Joins
<1>1. ASSUME NEW p \in Procs PROVE Alone(s, R[p], p, lo, hi)
  <2>1. Alone(s, P[p], p, lo, mid) /\ Alone(s, Q[p], p, mid2, hi)
    BY DEF Good
  <2>2. R[p] = P[p] \o Q[p]
    BY <1>0
  <2>3. Alone(s, P[p] \o Q[p], p, lo, hi)
    BY <1>0, <2>1, AloneJoin
  <2> QED
    BY <2>2, <2>3
<1>2. \A p \in Procs : IsSeq(P[p]) /\ IsSeq(Q[p])
  BY DEF Good, Alone
<1>3. ASSUME NEW p \in Procs, NEW q \in Procs, NEW x PROVE Tells(R[p], q, x) <=> Hears(R[q], p, x)
  <2>0. R[p] = P[p] \o Q[p] /\ R[q] = P[q] \o Q[q]
    BY <1>0
  <2>1. Tells(P[p] \o Q[p], q, x) <=> Tells(P[p], q, x) \/ Tells(Q[p], q, x)
    BY <1>2, ToldJoin
  <2>2. Hears(P[q] \o Q[q], p, x) <=> Hears(P[q], p, x) \/ Hears(Q[q], p, x)
    BY <1>2, ToldJoin
  <2> QED
    BY <2>0, <2>1, <2>2 DEF Good
<1> QED
  BY <1>1, <1>3 DEF Good

(* Nothing at all is in order.                                             *)
LEMMA GoodNothing ==
  ASSUME NEW s, NEW P, \A p \in Procs : P[p] = << >>, NEW lo, NEW hi
  PROVE  Good(s, P, lo, hi)
<1>1. \A p \in Procs : IsSeq(P[p]) /\ Len(P[p]) = 0
  BY Short
<1>2. \A i : i \notin 1..0
  OBVIOUS
<1>3. \A p \in Procs : ~\E i : i \in 1..Len(P[p])
  BY <1>1, <1>2
<1> QED
  BY <1>1, <1>3 DEF Good, Alone, InOrder, Tells, Hears

(* A range may be wider.                                                   *)
LEMMA GoodWider ==
  ASSUME NEW s, NEW P, NEW lo \in Nat, NEW hi \in Nat, NEW l \in Nat, NEW h \in Nat,
         Good(s, P, lo, hi), l <= lo, hi <= h
  PROVE  Good(s, P, l, h)
<1>1. \A r : r \in lo..hi => r \in l..h
  OBVIOUS
<1> QED
  BY <1>1 DEF Good, Alone

-----------------------------------------------------------------------------
(* The dealer, the parties, and the loops over a party's peers.            *)
LEMMA ProcFacts ==
  /\ nP \in Nat /\ nP >= 2 /\ Procs = 0..nP /\ Parties = 1..nP /\ Dealer = 0
  /\ Dealer \in Procs /\ Dealer \notin Parties /\ Parties \subseteq Procs
  /\ \A p \in Procs : p \in Parties <=> p # Dealer
  /\ 1 \in Parties /\ nP \in Parties /\ nP - 1 \in Nat /\ Repeat \in Nat /\ Repeat >= 1
  BY SessionAssumption DEF Parties, Dealer

(* The loops over the other parties reach each of them once.               *)
LEMMA PeerFacts ==
  ASSUME NEW p \in Parties
  PROVE  /\ \A i \in 1..(nP - 1) : PeerAt(p, i) \in Parties \ {p}
         /\ \A i, j \in 1..(nP - 1) : PeerAt(p, i) = PeerAt(p, j) => i = j
         /\ \A q \in Parties \ {p} : \E i \in 1..(nP - 1) : PeerAt(p, i) = q
<1>1. nP \in Nat /\ nP >= 2 /\ p \in 1..nP /\ Parties = 1..nP
  BY ProcFacts
<1>2. ASSUME NEW q \in Parties \ {p} PROVE \E i \in 1..(nP - 1) : PeerAt(p, i) = q
  <2>1. CASE q < p
    <3>1. q \in 1..(nP - 1) /\ PeerAt(p, q) = q
      BY <1>1, <2>1 DEF PeerAt
    <3> QED
      BY <3>1
  <2>2. CASE q > p
    <3>1. q - 1 \in 1..(nP - 1) /\ PeerAt(p, q - 1) = q
      BY <1>1, <2>2 DEF PeerAt
    <3> QED
      BY <3>1
  <2> QED
    BY <1>1, <2>1, <2>2
<1>3. \A i, j \in 1..(nP - 1) : PeerAt(p, i) = PeerAt(p, j) => i = j
  BY <1>1 DEF PeerAt
<1>4. \A i \in 1..(nP - 1) : PeerAt(p, i) \in Parties \ {p}
  BY <1>1 DEF PeerAt
<1> QED
  BY <1>2, <1>3, <1>4

(* The dealer's mail: it is sent to some parties, and those read it.       *)
LEMMA GoodMail ==
  ASSUME NEW s, NEW kind, NEW dsts \in SUBSET Parties, NEW r \in Nat, Rank(s, kind) = r,
         NEW P, \A p \in Procs : P[p] = FromDealer(p, dsts, kind)
  PROVE  Good(s, P, r, r)
<1>1. Procs = 0..nP /\ Dealer \in Procs /\ Dealer \notin Parties /\ Parties \subseteq Procs /\ r \in r..r
  BY ProcFacts
<1>2. PICK o, e : o = SendTo(dsts, kind) /\ e = Recv(Dealer, kind)
  OBVIOUS
<1>3. /\ o.do = "send" /\ o.peers = dsts /\ o.kind = kind
      /\ e.do = "recv" /\ e.peers = {Dealer} /\ e.kind = kind
  BY <1>2 DEF SendTo, Recv
<1>4. /\ P[Dealer] = <<o>>
      /\ \A p \in Procs : p # Dealer => P[p] = IF p \in dsts THEN <<e>> ELSE << >>
  BY <1>1, <1>2 DEF FromDealer
<1>5. /\ IsSeq(P[Dealer]) /\ Len(P[Dealer]) = 1 /\ P[Dealer][1] = o
      /\ \A p \in dsts : IsSeq(P[p]) /\ Len(P[p]) = 1 /\ P[p][1] = e
      /\ \A p \in Procs : p # Dealer /\ p \notin dsts => IsSeq(P[p]) /\ Len(P[p]) = 0
  BY <1>1, <1>4, Short
<1>6. \A i : (i \in 1..1 <=> i = 1) /\ i \notin 1..0
  OBVIOUS
<1>7. \A p \in Procs : \A i \in 1..Len(P[p]) : i = 1 /\ (p = Dealer \/ p \in dsts) /\ P[p][i] = IF p = Dealer THEN o ELSE e
  <2>1. TAKE p \in Procs
  <2>2. CASE p = Dealer
    BY <1>5, <1>6, <2>2
  <2>3. CASE p \in dsts
    BY <1>1, <1>5, <1>6, <2>3
  <2>4. CASE p # Dealer /\ p \notin dsts
    BY <1>5, <1>6, <2>4
  <2> QED
    BY <2>2, <2>3, <2>4
<1>8. ASSUME NEW p \in Procs PROVE Alone(s, P[p], p, r, r)
  <2>1. IsSeq(P[p])
    BY <1>5
  <2>2. InOrder(s, P[p])
    <3>1. \A i, j \in 1..Len(P[p]) : ~(i < j)
      <4>1. ~(1 < 1)
        OBVIOUS
      <4> QED
        BY <1>7, <4>1
    <3> QED
      BY <3>1 DEF InOrder
  <2>3. OpOK(o, Dealer) /\ \A q \in dsts : OpOK(e, q)
    BY <1>1, <1>3 DEF OpOK
  <2> QED
    BY <1>1, <1>3, <1>7, <2>1, <2>2, <2>3 DEF Alone
<1>9. ASSUME NEW p \in Procs, NEW q \in Procs, NEW x PROVE Tells(P[p], q, x) <=> Hears(P[q], p, x)
  <2>1. Tells(P[p], q, x) <=> p = Dealer /\ q \in dsts /\ x = kind
    <3>1. ASSUME Tells(P[p], q, x) PROVE p = Dealer /\ q \in dsts /\ x = kind
      BY <1>3, <1>7, <3>1 DEF Tells, Says
    <3>2. ASSUME p = Dealer, q \in dsts, x = kind PROVE Tells(P[p], q, x)
      BY <1>3, <1>5, <1>6, <3>2 DEF Tells, Says
    <3> QED
      BY <3>1, <3>2
  <2>2. Hears(P[q], p, x) <=> p = Dealer /\ q \in dsts /\ x = kind
    <3>1. ASSUME Hears(P[q], p, x) PROVE p = Dealer /\ q \in dsts /\ x = kind
      BY <1>3, <1>7, <3>1 DEF Hears, Gets
    <3>2. ASSUME p = Dealer, q \in dsts, x = kind PROVE Hears(P[q], p, x)
      BY <1>3, <1>5, <1>6, <3>2 DEF Hears, Gets
    <3> QED
      BY <3>1, <3>2
  <2> QED
    BY <2>1, <2>2
<1> QED
  BY <1>8, <1>9 DEF Good

(* A round among the parties: those in S tell all others, who read it.     *)
Round(p, kind, S) ==
  IF p = Dealer THEN << >>
  ELSE (IF p \in S THEN <<SendTo(Parties \ {p}, kind)>> ELSE << >>)
         \o [i \in 1..(nP - 1) |-> IF PeerAt(p, i) \in S THEN Recv(PeerAt(p, i), kind)
                                   ELSE RecvNothing(PeerAt(p, i))]

RoundOK(A, p, kind, S, a) ==
  /\ IsSeq(A) /\ Len(A) = a + (nP - 1) /\ (a = 1 <=> p \in S)
  /\ a = 1 => A[1] = SendTo(Parties \ {p}, kind)
  /\ \A i \in 1..(nP - 1) :
       A[a + i] = IF PeerAt(p, i) \in S THEN Recv(PeerAt(p, i), kind) ELSE RecvNothing(PeerAt(p, i))
  /\ \A i \in 1..Len(A) : (a = 1 /\ i = 1) \/ (i > a /\ i - a \in 1..(nP - 1))

(* The sequence that a round is to a party.                                *)
LEMMA RoundFacts ==
  ASSUME NEW p \in Parties, NEW kind, NEW S, NEW A, A = Round(p, kind, S)
  PROVE  \E a \in {0, 1} : RoundOK(A, p, kind, S, a)
<1>1. p # Dealer /\ nP - 1 \in Nat
  BY ProcFacts
<1>2. PICK B : B = [i \in 1..(nP - 1) |-> IF PeerAt(p, i) \in S THEN Recv(PeerAt(p, i), kind)
                                          ELSE RecvNothing(PeerAt(p, i))]
  OBVIOUS
<1>3. IsSeq(B) /\ Len(B) = nP - 1
  <2>1. B = [i \in 1..(nP - 1) |-> B[i]]
    BY <1>2
  <2> QED
    BY <1>1, <2>1, Listed
<1>4. PICK H : H = IF p \in S THEN <<SendTo(Parties \ {p}, kind)>> ELSE << >>
  OBVIOUS
<1>5. PICK a : a = IF p \in S THEN 1 ELSE 0
  OBVIOUS
<1>6. IsSeq(H) /\ Len(H) = a /\ (a = 1 => H[1] = SendTo(Parties \ {p}, kind))
  BY <1>4, <1>5, Short
<1>7. A = H \o B
  BY <1>1, <1>2, <1>4 DEF Round
<1>8. /\ IsSeq(A) /\ Len(A) = a + (nP - 1)
      /\ \A i \in 1..a : A[i] = H[i]
      /\ \A i \in 1..(nP - 1) : A[a + i] = B[i]
      /\ \A i \in 1..Len(A) : i <= a \/ i - a \in 1..(nP - 1)
  <2>1. /\ IsSeq(H \o B) /\ Len(H \o B) = Len(H) + Len(B)
        /\ \A i \in 1..Len(H) : (H \o B)[i] = H[i]
        /\ \A i \in 1..Len(B) : (H \o B)[Len(H) + i] = B[i]
        /\ \A i \in 1..Len(H \o B) : i <= Len(H) \/ i - Len(H) \in 1..Len(B)
    BY <1>3, <1>6, Joined
  <2> QED
    BY <1>3, <1>6, <1>7, <2>1
<1>9. \A i \in 1..Len(A) : (a = 1 /\ i = 1) \/ (i > a /\ i - a \in 1..(nP - 1))
  BY <1>1, <1>5, <1>8
<1>10. \A i \in 1..(nP - 1) :
         A[a + i] = IF PeerAt(p, i) \in S THEN Recv(PeerAt(p, i), kind) ELSE RecvNothing(PeerAt(p, i))
  BY <1>2, <1>8
<1>11. a = 1 => A[1] = SendTo(Parties \ {p}, kind)
  BY <1>6, <1>8
<1> QED
  BY <1>5, <1>8, <1>9, <1>10, <1>11 DEF RoundOK

(* What a party tells and hears in it.                                     *)
LEMMA RoundAlone ==
  ASSUME NEW s, NEW p \in Parties, NEW kind, NEW S, NEW r \in Nat, Rank(s, kind) = r,
         NEW A, A = Round(p, kind, S)
  PROVE  /\ Alone(s, A, p, r, r)
         /\ \A q \in Procs : \A x : Tells(A, q, x) <=> q \in Parties \ {p} /\ p \in S /\ x = kind
         /\ \A q \in Procs : \A x : Hears(A, q, x) <=> q \in Parties \ {p} /\ q \in S /\ x = kind
<1>0. PICK a \in {0, 1} : RoundOK(A, p, kind, S, a)
  BY RoundFacts
<1>1. /\ IsSeq(A) /\ Len(A) = a + (nP - 1) /\ (a = 1 <=> p \in S)
      /\ a = 1 => A[1] = SendTo(Parties \ {p}, kind)
      /\ \A i \in 1..(nP - 1) :
           A[a + i] = IF PeerAt(p, i) \in S THEN Recv(PeerAt(p, i), kind) ELSE RecvNothing(PeerAt(p, i))
      /\ \A i \in 1..Len(A) : (a = 1 /\ i = 1) \/ (i > a /\ i - a \in 1..(nP - 1))
  BY <1>0 DEF RoundOK
<1>2. /\ nP - 1 \in Nat /\ nP >= 2 /\ Parties \subseteq Procs /\ r \in r..r
  BY ProcFacts
<1>3. /\ \A i \in 1..(nP - 1) : PeerAt(p, i) \in Parties \ {p}
      /\ \A i, j \in 1..(nP - 1) : PeerAt(p, i) = PeerAt(p, j) => i = j
      /\ \A q \in Parties \ {p} : \E i \in 1..(nP - 1) : PeerAt(p, i) = q
  BY PeerFacts
<1>4. \A i \in 1..Len(A) : i > a => A[i] = IF PeerAt(p, i - a) \in S THEN Recv(PeerAt(p, i - a), kind)
                                           ELSE RecvNothing(PeerAt(p, i - a))
  <2>1. TAKE i \in 1..Len(A)
  <2>2. SUFFICES ASSUME i > a
                 PROVE  A[i] = IF PeerAt(p, i - a) \in S THEN Recv(PeerAt(p, i - a), kind)
                               ELSE RecvNothing(PeerAt(p, i - a))
    OBVIOUS
  <2>3. PICK j : j = i - a
    OBVIOUS
  <2>4. j \in 1..(nP - 1) /\ i = a + j
    BY <1>1, <2>2, <2>3
  <2> QED
    BY <1>1, <2>3, <2>4
<1>5. \A q : /\ Recv(q, kind).do = "recv" /\ Recv(q, kind).peers = {q} /\ Recv(q, kind).kind = kind
             /\ RecvNothing(q).do = "flush" /\ RecvNothing(q).peers = {q}
  BY DEF Recv, RecvNothing
<1>6. /\ SendTo(Parties \ {p}, kind).do = "send" /\ SendTo(Parties \ {p}, kind).kind = kind
      /\ SendTo(Parties \ {p}, kind).peers = Parties \ {p}
  BY DEF SendTo
<1>7. \A i \in 1..Len(A) : \A q, x :
        /\ Says(A[i], q, x) <=> a = 1 /\ i = 1 /\ q \in Parties \ {p} /\ x = kind
        /\ Gets(A[i], q, x) <=> i > a /\ PeerAt(p, i - a) = q /\ q \in S /\ x = kind
  <2>1. TAKE i \in 1..Len(A)
  <2>2. TAKE q, x
  <2>3. CASE a = 1 /\ i = 1
    <3>0. A[i] = SendTo(Parties \ {p}, kind) /\ ~(i > a)
      BY <1>1, <2>3
    <3>1. A[i].do = "send" /\ A[i].peers = Parties \ {p} /\ A[i].kind = kind /\ ~(i > a)
      BY <1>6, <3>0
    <3>2. Says(A[i], q, x) <=> q \in Parties \ {p} /\ x = kind
      BY <3>1 DEF Says
    <3>3. ~Gets(A[i], q, x)
      BY <3>1 DEF Gets
    <3> QED
      BY <2>3, <3>1, <3>2, <3>3
  <2>4. CASE i > a
    <3>1. ~(a = 1 /\ i = 1)
      BY <2>4
    <3>2. A[i].do \in {"recv", "flush"}
      BY <1>4, <1>5, <2>4
    <3>3. PICK b : b = PeerAt(p, i - a)
      OBVIOUS
    <3>4. Gets(A[i], q, x) <=> b \in S /\ b = q /\ x = kind
      <4>1. CASE b \in S
        <5>1. A[i].do = "recv" /\ A[i].peers = {b} /\ A[i].kind = kind
          BY <1>4, <1>5, <2>4, <3>3, <4>1
        <5> QED
          BY <4>1, <5>1 DEF Gets
      <4>2. CASE b \notin S
        <5>1. A[i].do = "flush"
          BY <1>4, <1>5, <2>4, <3>3, <4>2
        <5> QED
          BY <4>2, <5>1 DEF Gets
      <4> QED
        BY <4>1, <4>2
    <3> QED
      BY <2>4, <3>1, <3>2, <3>3, <3>4 DEF Says
  <2> QED
    BY <1>1, <2>3, <2>4
<1>8. InOrder(s, A)
  <2>1. SUFFICES ASSUME NEW i \in 1..Len(A), NEW j \in 1..Len(A), i < j, NEW q, NEW x, NEW y,
                        (Says(A[i], q, x) /\ Says(A[j], q, y)) \/ (Gets(A[i], q, x) /\ Gets(A[j], q, y))
                 PROVE  FALSE
    BY DEF InOrder
  <2>2. CASE Says(A[i], q, x) /\ Says(A[j], q, y)
    <3>1. i = 1 /\ j = 1
      BY <1>7, <2>2
    <3> QED
      BY <2>1, <3>1
  <2>3. CASE Gets(A[i], q, x) /\ Gets(A[j], q, y)
    <3>1. i > a /\ j > a /\ PeerAt(p, i - a) = PeerAt(p, j - a)
      BY <1>7, <2>3
    <3>2. i - a \in 1..(nP - 1) /\ j - a \in 1..(nP - 1)
      BY <1>1, <3>1
    <3>3. i - a = j - a
      BY <1>3, <3>1, <3>2
    <3> QED
      BY <2>1, <3>3
  <2> QED
    BY <2>1, <2>2, <2>3
<1>9. ASSUME NEW i \in 1..Len(A)
      PROVE  OpOK(A[i], p) /\ (A[i].do # "flush" => Rank(s, A[i].kind) \in r..r)
  <2>1. CASE a = 1 /\ i = 1
    BY <1>1, <1>2, <1>6, <2>1 DEF OpOK
  <2>2. CASE i > a
    <3>1. PeerAt(p, i - a) \in Procs \ {p}
      BY <1>1, <1>2, <1>3, <2>2
    <3> QED
      BY <1>2, <1>4, <1>5, <2>2, <3>1 DEF OpOK
  <2> QED
    BY <1>1, <2>1, <2>2
<1>10. ASSUME NEW q \in Procs, NEW x
       PROVE  /\ Tells(A, q, x) <=> q \in Parties \ {p} /\ p \in S /\ x = kind
              /\ Hears(A, q, x) <=> q \in Parties \ {p} /\ q \in S /\ x = kind
  <2>1. ASSUME Tells(A, q, x) PROVE q \in Parties \ {p} /\ p \in S /\ x = kind
    BY <1>1, <1>7, <2>1 DEF Tells
  <2>2. ASSUME q \in Parties \ {p}, p \in S, x = kind PROVE Tells(A, q, x)
    <3>1. a = 1 /\ 1 \in 1..Len(A)
      BY <1>1, <1>2, <2>2
    <3> QED
      BY <1>7, <2>2, <3>1 DEF Tells
  <2>3. ASSUME Hears(A, q, x) PROVE q \in Parties \ {p} /\ q \in S /\ x = kind
    <3>1. PICK i \in 1..Len(A) : Gets(A[i], q, x)
      BY <2>3 DEF Hears
    <3>2. i > a /\ PeerAt(p, i - a) = q /\ q \in S /\ x = kind
      BY <1>7, <3>1
    <3>3. i - a \in 1..(nP - 1)
      BY <1>1, <3>2
    <3> QED
      BY <1>3, <3>2, <3>3
  <2>4. ASSUME q \in Parties \ {p}, q \in S, x = kind PROVE Hears(A, q, x)
    <3>1. PICK i \in 1..(nP - 1) : PeerAt(p, i) = q
      BY <1>3, <2>4
    <3>2. PICK j : j = a + i
      OBVIOUS
    <3>3. j \in 1..Len(A) /\ j > a /\ j - a = i
      BY <1>1, <1>2, <3>2
    <3> QED
      BY <1>7, <2>4, <3>1, <3>3 DEF Hears
  <2> QED
    BY <2>1, <2>2, <2>3, <2>4
<1> QED
  BY <1>1, <1>8, <1>9, <1>10 DEF Alone

(* Rounds are in order.                                                    *)
LEMMA GoodRound ==
  ASSUME NEW s, NEW kind, NEW S \in SUBSET Parties, NEW r \in Nat, Rank(s, kind) = r,
         NEW P, \A p \in Procs : P[p] = Round(p, kind, S)
  PROVE  Good(s, P, r, r)
<1>1. /\ Dealer \in Procs /\ Dealer \notin Parties /\ Parties \subseteq Procs
      /\ \A p \in Procs : p \in Parties <=> p # Dealer
  BY ProcFacts
<1>2. \A p \in Parties :
         /\ Alone(s, P[p], p, r, r)
         /\ \A q \in Procs : \A x : Tells(P[p], q, x) <=> q \in Parties \ {p} /\ p \in S /\ x = kind
         /\ \A q \in Procs : \A x : Hears(P[p], q, x) <=> q \in Parties \ {p} /\ q \in S /\ x = kind
  <2>1. TAKE p \in Parties
  <2>2. PICK A : A = Round(p, kind, S)
    OBVIOUS
  <2>3. P[p] = A
    BY <1>1, <2>2
  <2>4. /\ Alone(s, A, p, r, r)
        /\ \A q \in Procs : \A x : Tells(A, q, x) <=> q \in Parties \ {p} /\ p \in S /\ x = kind
        /\ \A q \in Procs : \A x : Hears(A, q, x) <=> q \in Parties \ {p} /\ q \in S /\ x = kind
    BY <2>2, RoundAlone
  <2> QED
    BY <2>3, <2>4
<1>3. IsSeq(P[Dealer]) /\ Len(P[Dealer]) = 0
  BY <1>1, Short DEF Round
<1>4. \A i : i \notin 1..Len(P[Dealer])
  BY <1>3
<1>5. /\ Alone(s, P[Dealer], Dealer, r, r)
      /\ \A q, x : ~Tells(P[Dealer], q, x) /\ ~Hears(P[Dealer], q, x)
  BY <1>3, <1>4 DEF Alone, InOrder, Tells, Hears
<1>6. ASSUME NEW p \in Procs, NEW q \in Procs, NEW x PROVE Tells(P[p], q, x) <=> Hears(P[q], p, x)
  <2>1. CASE p = Dealer \/ q = Dealer
    BY <1>1, <1>2, <1>5, <2>1
  <2>2. CASE p \in Parties /\ q \in Parties
    BY <1>1, <1>2, <2>2, SMTT(30)
  <2> QED
    BY <1>1, <2>1, <2>2
<1> QED
  BY <1>1, <1>2, <1>5, <1>6 DEF Good

(* An exchange is a round in which all parties speak.                      *)
LEMMA ExchangeIsRound ==
  ASSUME NEW p \in Procs, NEW kind
  PROVE  Exchange(p, kind) = Round(p, kind, Parties)
<1>1. CASE p = Dealer
  BY <1>1 DEF Exchange, Round
<1>2. CASE p \in Parties
  <2>1. \A i \in 1..(nP - 1) : PeerAt(p, i) \in Parties
    BY <1>2, PeerFacts
  <2>2. [i \in 1..(nP - 1) |-> Recv(PeerAt(p, i), kind)]
          = [i \in 1..(nP - 1) |-> IF PeerAt(p, i) \in Parties THEN Recv(PeerAt(p, i), kind)
                                   ELSE RecvNothing(PeerAt(p, i))]
    BY <2>1
  <2> QED
    BY <1>2, <2>2, ProcFacts DEF Exchange, Round, PerPeer
<1> QED
  BY <1>1, <1>2, ProcFacts

(* So exchanges are in order (the rounds of reconstruct, of the proof, the *)
(* digests and the accept bits).                                           *)
LEMMA GoodExchange ==
  ASSUME NEW s, NEW kind, NEW r \in Nat, Rank(s, kind) = r,
         NEW P, \A p \in Procs : P[p] = Exchange(p, kind)
  PROVE  Good(s, P, r, r)
<1>1. \A p \in Procs : P[p] = Round(p, kind, Parties)
  BY ExchangeIsRound
<1> QED
  BY <1>1, GoodRound

-----------------------------------------------------------------------------
(* The operations of a sync: operation i is of the n-th pair, with q.      *)
SyncAt(A, p, i, n, q) ==
  /\ n \in 0..(nP - 1) /\ q = PeerAt(p, n)
  /\ \/ i = 2 * n + 1 /\ A[i] = SyncSend(q)
     \/ i = 2 * n + 2 /\ A[i] = SyncRecv(q)

SyncOK(A, p) ==
  /\ IsSeq(A) /\ Len(A) = 2 * nP
  /\ \A i \in 1..Len(A) : \E n : \E q \in Procs \ {p} : SyncAt(A, p, i, n, q)
  /\ \A q \in Procs \ {p} : \E i \in 1..Len(A) : A[i] = SyncSend(q)
  /\ \A q \in Procs \ {p} : \E i \in 1..Len(A) : A[i] = SyncRecv(q)

(* All others have their turn, once each.                                  *)
LEMMA SyncFacts ==
  ASSUME NEW p \in Procs, NEW A, A = Sync(p)
  PROVE  SyncOK(A, p)
<1> DEFINE q(n) == PeerAt(p, n)
           f == [i \in 1..(2 * nP) |-> IF i % 2 = 1 THEN SyncSend(q((i - 1) \div 2)) ELSE SyncRecv(q((i - 1) \div 2))]
<1>1. nP \in Nat /\ nP >= 2 /\ Procs = 0..nP
  BY ProcFacts
<1>2. A = f
  BY DEF Sync
<1>3. \A n \in 0..(nP - 1) : q(n) \in Procs \ {p}
  BY <1>1 DEF PeerAt
<1>4. \A x \in Procs \ {p} : \E n \in 0..(nP - 1) : q(n) = x
  <2>1. TAKE x \in Procs \ {p}
  <2>2. CASE x < p
    <3>1. x \in 0..(nP - 1) /\ q(x) = x
      BY <1>1, <2>2 DEF PeerAt
    <3> QED
      BY <3>1
  <2>3. CASE x > p
    <3>1. x - 1 \in 0..(nP - 1) /\ q(x - 1) = x
      BY <1>1, <2>3 DEF PeerAt
    <3> QED
      BY <3>1
  <2> QED
    BY <1>1, <2>2, <2>3
<1>5. \A n \in 0..(nP - 1) :
        /\ 2 * n + 1 \in 1..(2 * nP) /\ (2 * n + 1) % 2 = 1 /\ (2 * n + 1 - 1) \div 2 = n
        /\ 2 * n + 2 \in 1..(2 * nP) /\ (2 * n + 2) % 2 = 0 /\ (2 * n + 2 - 1) \div 2 = n
  BY <1>1
<1>6. \A i \in 1..(2 * nP) : \E n \in 0..(nP - 1) : i = 2 * n + 1 \/ i = 2 * n + 2
  <2>1. TAKE i \in 1..(2 * nP)
  <2>2. PICK n : n = (i - 1) \div 2
    OBVIOUS
  <2>3. n \in 0..(nP - 1) /\ (i = 2 * n + 1 \/ i = 2 * n + 2)
    BY <1>1, <2>2 DEF PeerAt
  <2> QED
    BY <2>3
<1>7. IsSeq(A) /\ Len(A) = 2 * nP
  <2>1. 2 * nP \in Nat /\ A = [i \in 1..(2 * nP) |-> A[i]]
    BY <1>1, <1>2
  <2> QED
    BY <2>1, Listed
<1> HIDE DEF q
<1>8. ASSUME NEW n \in 0..(nP - 1) PROVE A[2 * n + 1] = SyncSend(q(n)) /\ A[2 * n + 2] = SyncRecv(q(n))
  <2>1. PICK x, y : x = 2 * n + 1 /\ y = 2 * n + 2
    OBVIOUS
  <2>2. x \in 1..(2 * nP) /\ x % 2 = 1 /\ (x - 1) \div 2 = n /\ y \in 1..(2 * nP) /\ y % 2 = 0 /\ (y - 1) \div 2 = n
    BY <1>5, <2>1
  <2>3. A[x] = SyncSend(q(n)) /\ A[y] = SyncRecv(q(n))
    BY <1>2, <2>2
  <2> QED
    BY <2>1, <2>3
<1> HIDE DEF f
<1>9. \A i \in 1..Len(A) : \E n : \E x \in Procs \ {p} : SyncAt(A, p, i, n, x)
  <2>1. TAKE i \in 1..Len(A)
  <2>2. PICK n \in 0..(nP - 1) : i = 2 * n + 1 \/ i = 2 * n + 2
    BY <1>6, <1>7
  <2>3. PICK x : x = q(n)
    OBVIOUS
  <2>4. x \in Procs \ {p} /\ x = PeerAt(p, n)
    BY <1>3, <2>3 DEF q
  <2>5. SyncAt(A, p, i, n, x)
    BY <1>8, <2>2, <2>3, <2>4 DEF SyncAt
  <2> QED
    BY <2>4, <2>5
<1>10. ASSUME NEW x \in Procs \ {p}
       PROVE  (\E i \in 1..Len(A) : A[i] = SyncSend(x)) /\ (\E i \in 1..Len(A) : A[i] = SyncRecv(x))
  <2>1. PICK n \in 0..(nP - 1) : q(n) = x
    BY <1>4
  <2>2. 2 * n + 1 \in 1..Len(A) /\ 2 * n + 2 \in 1..Len(A)
    BY <1>5, <1>7
  <2> QED
    BY <1>8, <2>1, <2>2
<1> QED
  BY <1>7, <1>9, <1>10 DEF SyncOK

(* sync is in order, and every process hears from every other in it.       *)
LEMMA GoodSync ==
  ASSUME NEW s, NEW P, \A p \in Procs : P[p] = Sync(p)
  PROVE  Good(s, P, 0, 0)
<1>1. Rank(s, "sync") = 0 /\ nP \in Nat /\ Procs = 0..nP
  BY ProcFacts DEF Rank
<1>2. \A q : /\ SyncSend(q).do = "sync" /\ SyncSend(q).peers = {q} /\ SyncSend(q).kind = "sync"
             /\ SyncRecv(q).do = "recv" /\ SyncRecv(q).peers = {q} /\ SyncRecv(q).kind = "sync"
  BY DEF SyncSend, SyncRecv, Recv
<1>3. ASSUME NEW p \in Procs
      PROVE  /\ SyncOK(P[p], p)
             /\ \A i \in 1..Len(P[p]) : \E q \in Procs \ {p} : P[p][i] = SyncSend(q) \/ P[p][i] = SyncRecv(q)
  <2>1. PICK A : A = Sync(p)
    OBVIOUS
  <2>2. P[p] = A
    BY <2>1
  <2>3. SyncOK(A, p)
    BY <2>1, SyncFacts
  <2>4. \A i \in 1..Len(A) : \E q \in Procs \ {p} : A[i] = SyncSend(q) \/ A[i] = SyncRecv(q)
    <3>1. TAKE i \in 1..Len(A)
    <3>2. PICK n : \E q \in Procs \ {p} : SyncAt(A, p, i, n, q)
      BY <2>3 DEF SyncOK
    <3> QED
      BY <3>2 DEF SyncAt
  <2> QED
    BY <2>2, <2>3, <2>4
<1>4. ASSUME NEW p \in Procs PROVE Alone(s, P[p], p, 0, 0)
  <2>1. ASSUME NEW i \in 1..Len(P[p])
        PROVE  OpOK(P[p][i], p) /\ (P[p][i].do # "flush" => Rank(s, P[p][i].kind) \in 0..0)
    <3>1. PICK q \in Procs \ {p} : P[p][i] = SyncSend(q) \/ P[p][i] = SyncRecv(q)
      BY <1>3
    <3>2. 0 \in 0..0
      OBVIOUS
    <3> QED
      BY <1>1, <1>2, <3>1, <3>2 DEF OpOK
  <2>2. InOrder(s, P[p])
    <3>1. SUFFICES ASSUME NEW i \in 1..Len(P[p]), NEW j \in 1..Len(P[p]), i < j, NEW q, NEW x, NEW y,
                          (Says(P[p][i], q, x) /\ Says(P[p][j], q, y)) \/ (Gets(P[p][i], q, x) /\ Gets(P[p][j], q, y))
                   PROVE  FALSE
      BY DEF InOrder
    <3>2. PICK n, l : (\E a \in Procs \ {p} : SyncAt(P[p], p, i, n, a)) /\ (\E b \in Procs \ {p} : SyncAt(P[p], p, j, l, b))
      BY <1>3 DEF SyncOK
    <3>3. PICK a \in Procs \ {p}, b \in Procs \ {p} : SyncAt(P[p], p, i, n, a) /\ SyncAt(P[p], p, j, l, b)
      BY <3>2
    <3>4. a = b => n = l
      BY <1>1, <3>3 DEF SyncAt, PeerAt
    <3>5. CASE Says(P[p][i], q, x) /\ Says(P[p][j], q, y)
      <4>1. P[p][i] = SyncSend(a) /\ P[p][j] = SyncSend(b) /\ a = q /\ b = q
        BY <1>2, <3>2, <3>3, <3>5 DEF Says, SyncAt
      <4>2. SyncSend(a) # SyncRecv(a) /\ SyncSend(b) # SyncRecv(b)
        BY <1>2
      <4>3. i = 2 * n + 1 /\ j = 2 * l + 1
        BY <3>2, <3>3, <4>1, <4>2 DEF SyncAt
      <4> QED
        BY <3>1, <3>3, <3>4, <4>1, <4>3 DEF SyncAt, PeerAt
    <3>6. CASE Gets(P[p][i], q, x) /\ Gets(P[p][j], q, y)
      <4>1. P[p][i] = SyncRecv(a) /\ P[p][j] = SyncRecv(b) /\ {a} = {q} /\ {b} = {q}
        BY <1>2, <3>2, <3>3, <3>6 DEF Gets, SyncAt
      <4>2. SyncSend(a) # SyncRecv(a) /\ SyncSend(b) # SyncRecv(b) /\ a = b
        BY <1>2, <4>1
      <4>3. i = 2 * n + 2 /\ j = 2 * l + 2
        BY <3>2, <3>3, <4>1, <4>2 DEF SyncAt
      <4> QED
        BY <3>1, <3>2, <3>3, <3>4, <4>2, <4>3 DEF SyncAt, PeerAt
    <3> QED
      BY <3>1, <3>5, <3>6
  <2> QED
    BY <1>3, <2>1, <2>2 DEF Alone, SyncOK
<1>5. ASSUME NEW p \in Procs, NEW q \in Procs, NEW x
      PROVE  /\ Tells(P[p], q, x) <=> p # q /\ x = "sync"
             /\ Hears(P[q], p, x) <=> p # q /\ x = "sync"
  <2>1. ASSUME Tells(P[p], q, x) PROVE p # q /\ x = "sync"
    <3>1. PICK i \in 1..Len(P[p]) : Says(P[p][i], q, x)
      BY <2>1 DEF Tells
    <3>2. PICK a \in Procs \ {p} : P[p][i] = SyncSend(a) \/ P[p][i] = SyncRecv(a)
      BY <1>3
    <3> QED
      BY <1>2, <3>1, <3>2 DEF Says
  <2>2. ASSUME p # q, x = "sync" PROVE Tells(P[p], q, x)
    <3>1. PICK i \in 1..Len(P[p]) : P[p][i] = SyncSend(q)
      BY <1>3, <2>2 DEF SyncOK
    <3> QED
      BY <1>2, <2>2, <3>1 DEF Tells, Says
  <2>3. ASSUME Hears(P[q], p, x) PROVE p # q /\ x = "sync"
    <3>1. PICK i \in 1..Len(P[q]) : Gets(P[q][i], p, x)
      BY <2>3 DEF Hears
    <3>2. PICK a \in Procs \ {q} : P[q][i] = SyncSend(a) \/ P[q][i] = SyncRecv(a)
      BY <1>3
    <3>3. {a} = {p} /\ x = "sync"
      BY <1>2, <3>1, <3>2 DEF Gets
    <3> QED
      BY <3>2, <3>3
  <2>4. ASSUME p # q, x = "sync" PROVE Hears(P[q], p, x)
    <3>1. PICK i \in 1..Len(P[q]) : P[q][i] = SyncRecv(p)
      BY <1>3, <2>4 DEF SyncOK
    <3> QED
      BY <1>2, <2>4, <3>1 DEF Hears, Gets
  <2> QED
    BY <2>1, <2>2, <2>3, <2>4
<1> QED
  BY <1>4, <1>5 DEF Good

-----------------------------------------------------------------------------
(* The stretches between two syncs, put together from the methods.         *)
Before(s, p) == IF s.evaluator = "semi" THEN OutputRandomizers(p) ELSE << >>
After(s, p)  == IF s.evaluator = "zkfliop" THEN SetupOutputPhaseB(p) ELSE << >>

(* The parts of a script; all but the first begin with a sync.             *)
Programmed(s, p, f) ==
  IF s.caller = "benchmark"
  THEN /\ Len(f) = 3
       /\ f[1] = Evaluator(p) \o Before(s, p)
       /\ f[2] = Sync(p) \o (RunSetup(s, p) \o After(s, p) \o SetInputs(s, p))
       /\ f[3] = Sync(p) \o (EvaluateCircuit(s, p) \o GetOutputs(s, p))
  ELSE /\ Len(f) = 4
       /\ f[1] = Evaluator(p)
       /\ f[2] = Sync(p) \o (Before(s, p) \o RunSetup(s, p) \o After(s, p))
       /\ f[3] = Sync(p) \o (SetInputs(s, p) \o EvaluateCircuit(s, p) \o GetOutputs(s, p))
       /\ f[4] = Sync(p) \o << >>

(* The script of a process, part by part.                                  *)
LEMMA ScriptIs ==
  ASSUME NEW s \in Sessions, NEW p \in Procs
  PROVE  Programmed(s, p, Script[s][p])
<1>1. PICK P, f : P = Parts(s, p) /\ f = Script[s][p]
  OBVIOUS
<1>2. f = [i \in 1..Len(P) |-> IF i = 1 THEN P[i] ELSE Sync(p) \o P[i]]
  BY <1>1 DEF Script
<1>3. PICK a, b, c, d, e, g :
        /\ a = Evaluator(p) \o Before(s, p)
        /\ b = RunSetup(s, p) \o After(s, p) \o SetInputs(s, p)
        /\ c = EvaluateCircuit(s, p) \o GetOutputs(s, p)
        /\ d = Evaluator(p)
        /\ e = Before(s, p) \o RunSetup(s, p) \o After(s, p)
        /\ g = SetInputs(s, p) \o EvaluateCircuit(s, p) \o GetOutputs(s, p)
  OBVIOUS
<1>4. P = IF s.caller = "benchmark" THEN <<a, b, c>> ELSE <<d, e, g, << >>>>
  BY <1>1, <1>3 DEF Parts, Before, After
<1>5. CASE s.caller = "benchmark"
  <2>1. Len(P) = 3 /\ P[1] = a /\ P[2] = b /\ P[3] = c
    BY <1>4, <1>5
  <2>2. f = [i \in 1..3 |-> IF i = 1 THEN P[i] ELSE Sync(p) \o P[i]]
    BY <1>2, <2>1
  <2>3. Len(f) = 3
    <3>1. f = [i \in 1..3 |-> f[i]] /\ 3 \in Nat
      BY <2>2
    <3> QED
      BY <3>1, Listed
  <2>4. f[1] = a /\ f[2] = Sync(p) \o b /\ f[3] = Sync(p) \o c
    <3>1. 1 \in 1..3 /\ 2 \in 1..3 /\ 3 \in 1..3 /\ 2 # 1 /\ 3 # 1
      OBVIOUS
    <3>2. \A i \in 1..3 : f[i] = IF i = 1 THEN P[i] ELSE Sync(p) \o P[i]
      BY <2>2
    <3> QED
      BY <2>1, <3>1, <3>2
  <2> QED
    BY <1>1, <1>3, <1>5, <2>3, <2>4 DEF Programmed
<1>6. CASE s.caller # "benchmark"
  <2>1. Len(P) = 4 /\ P[1] = d /\ P[2] = e /\ P[3] = g /\ P[4] = << >>
    BY <1>4, <1>6
  <2>2. f = [i \in 1..4 |-> IF i = 1 THEN P[i] ELSE Sync(p) \o P[i]]
    BY <1>2, <2>1
  <2>3. Len(f) = 4
    <3>1. f = [i \in 1..4 |-> f[i]] /\ 4 \in Nat
      BY <2>2
    <3> QED
      BY <3>1, Listed
  <2>4. f[1] = d /\ f[2] = Sync(p) \o e /\ f[3] = Sync(p) \o g /\ f[4] = Sync(p) \o << >>
    <3>1. 1 \in 1..4 /\ 2 \in 1..4 /\ 3 \in 1..4 /\ 4 \in 1..4 /\ 2 # 1 /\ 3 # 1 /\ 4 # 1
      OBVIOUS
    <3>2. \A i \in 1..4 : f[i] = IF i = 1 THEN P[i] ELSE Sync(p) \o P[i]
      BY <2>2
    <3> QED
      BY <2>1, <3>1, <3>2
  <2> QED
    BY <1>1, <1>3, <1>6, <2>3, <2>4 DEF Programmed
<1> QED
  BY <1>5, <1>6

(* What holds of the mail or is empty, whatever the evaluator.             *)
LEMMA GoodMethods ==
  ASSUME NEW s \in Sessions
  PROVE  /\ Good(s, [p \in Procs |-> Evaluator(p)], 1, 1)
         /\ Good(s, [p \in Procs |-> Before(s, p)], 2, 2)
         /\ Good(s, [p \in Procs |-> RunSetup(s, p)], 3, 5)
         /\ Good(s, [p \in Procs |-> After(s, p)], 6, 7)
<1>1. /\ Parties \in SUBSET Parties /\ {1} \in SUBSET Parties /\ {nP} \in SUBSET Parties
      /\ 1 \in Nat /\ 2 \in Nat /\ 3 \in Nat /\ 4 \in Nat /\ 5 \in Nat /\ 6 \in Nat /\ 7 \in Nat
  BY ProcFacts
<1>2. /\ s.evaluator \in {"semi", "zkfliop"}
      /\ Rank(s, "seed") = 1 /\ Rank(s, "gamma") = 3 /\ Rank(s, "commits") = 4 /\ Rank(s, "randomizers") = 5
      /\ Rank(s, "output commit") = 7 /\ (s.evaluator = "semi" => Rank(s, "output randomizers") = 2)
      /\ (s.evaluator = "zkfliop" => Rank(s, "output randomizers") = 6)
  BY SessionAssumption DEF Rank
<1> DEFINE Mail(dsts, kind) == [p \in Procs |-> FromDealer(p, dsts, kind)]
           None == [p \in Procs |-> << >>]
<1>3. ASSUME NEW dsts \in SUBSET Parties, NEW kind, NEW r \in Nat, Rank(s, kind) = r
      PROVE  Good(s, Mail(dsts, kind), r, r)
  <2>1. PICK P : P = Mail(dsts, kind)
    OBVIOUS
  <2>2. \A p \in Procs : P[p] = FromDealer(p, dsts, kind)
    BY <2>1
  <2>3. Good(s, P, r, r)
    BY <1>3, <2>2, GoodMail
  <2> QED
    BY <2>1, <2>3
<1>4. ASSUME NEW lo, NEW hi PROVE Good(s, None, lo, hi)
  <2>1. \A p \in Procs : None[p] = << >>
    OBVIOUS
  <2> QED
    BY <2>1, GoodNothing
<1>5. \A dsts, kind : \A p \in Procs : Mail(dsts, kind)[p] = FromDealer(p, dsts, kind)
  OBVIOUS
<1>6. \A p \in Procs : None[p] = << >>
  OBVIOUS
<1>11. Apart(6, 6, 7, 7) /\ Apart(4, 4, 5, 5) /\ Apart(3, 3, 4, 5)
  BY DEF Apart
<1>7. Good(s, [p \in Procs |-> Evaluator(p)], 1, 1)
  <2>1. [p \in Procs |-> Evaluator(p)] = Mail(Parties, "seed")
    BY DEF Evaluator
  <2> QED
    BY <1>1, <1>2, <1>3, <2>1
<1>8. Good(s, [p \in Procs |-> Before(s, p)], 2, 2)
  <2>1. CASE s.evaluator = "semi"
    <3>1. [p \in Procs |-> Before(s, p)] = Mail({1}, "output randomizers")
      BY <2>1 DEF Before, OutputRandomizers
    <3> QED
      BY <1>1, <1>2, <1>3, <2>1, <3>1
  <2>2. CASE s.evaluator # "semi"
    <3>1. [p \in Procs |-> Before(s, p)] = None
      BY <2>2 DEF Before
    <3> QED
      BY <1>4, <3>1
  <2> QED
    BY <2>1, <2>2
<1>9. Good(s, [p \in Procs |-> After(s, p)], 6, 7)
  <2>1. CASE s.evaluator = "zkfliop"
    <3>1. PICK P, Q, R : /\ P = Mail({1}, "output randomizers") /\ Q = Mail(Parties, "output commit")
                         /\ R = [p \in Procs |-> After(s, p)]
      OBVIOUS
    <3>2. Good(s, P, 6, 6) /\ Good(s, Q, 7, 7)
      BY <1>1, <1>2, <1>3, <2>1, <3>1
    <3>3. Joins(P, Q, R)
      BY <1>5, <2>1, <3>1 DEF Joins, After, SetupOutputPhaseB, OutputRandomizers
    <3>4. Good(s, R, 6, 7)
      BY <1>1, <1>11, <3>2, <3>3, GoodJoin
    <3> QED
      BY <3>1, <3>4
  <2>2. CASE s.evaluator # "zkfliop"
    <3>1. [p \in Procs |-> After(s, p)] = None
      BY <2>2 DEF After
    <3> QED
      BY <1>4, <3>1
  <2> QED
    BY <2>1, <2>2
<1>10. Good(s, [p \in Procs |-> RunSetup(s, p)], 3, 5)
  <2>1. PICK G, C, V, R : /\ G = Mail({nP}, "gamma") /\ C = Mail(Parties, "commits") /\ V = Mail({1}, "randomizers")
                          /\ R = [p \in Procs |-> RunSetup(s, p)]
    OBVIOUS
  <2>2. Good(s, G, 3, 3)
    BY <1>1, <1>2, <1>3, <2>1
  <2>3. PICK W : W = IF s.evaluator = "zkfliop" THEN [p \in Procs |-> SetupVerify(p)] ELSE None
    OBVIOUS
  <2>4. Good(s, W, 4, 5)
    <3>1. CASE s.evaluator = "zkfliop"
      <4>1. Good(s, C, 4, 4) /\ Good(s, V, 5, 5)
        BY <1>1, <1>2, <1>3, <2>1
      <4>2. Joins(C, V, W)
        BY <1>5, <2>1, <2>3, <3>1 DEF Joins, SetupVerify
      <4> QED
        BY <1>1, <1>11, <4>1, <4>2, GoodJoin
    <3>2. CASE s.evaluator # "zkfliop"
      BY <1>4, <2>3, <3>2
    <3> QED
      BY <3>1, <3>2
  <2>5. Joins(G, W, R)
    <3>1. \A p \in Procs : W[p] = IF s.evaluator = "zkfliop" THEN SetupVerify(p) ELSE << >>
      BY <1>6, <2>3
    <3> QED
      BY <1>5, <2>1, <3>1 DEF Joins, RunSetup
  <2>6. Good(s, R, 3, 5)
    BY <1>1, <1>11, <2>2, <2>4, <2>5, GoodJoin
  <2> QED
    BY <2>1, <2>6
<1> QED
  BY <1>7, <1>8, <1>9, <1>10

(* The rounds among the parties.                                           *)
LEMMA GoodRounds ==
  ASSUME NEW s \in Sessions
  PROVE  /\ Good(s, [p \in Procs |-> SetInputs(s, p)], 8, 10)
         /\ Good(s, [p \in Procs |-> EvaluateCircuit(s, p)], 11, 12)
         /\ Good(s, [p \in Procs |-> GetOutputs(s, p)], 13, 14)
<1>1. /\ 8 \in Nat /\ 9 \in Nat /\ 10 \in Nat /\ 11 \in Nat /\ 12 \in Nat /\ 13 \in Nat /\ 14 \in Nat
      /\ s.providers \in SUBSET Parties
  BY SessionAssumption
<1>2. /\ Rank(s, "inputs") = 8 /\ Rank(s, "digest") = 9 /\ Rank(s, "accept") = 10 /\ Rank(s, "shares") = 11
      /\ Rank(s, "proof") = 12 /\ Rank(s, "outputs") = 13 /\ Rank(s, "output accept") = 14
  BY DEF Rank
<1> DEFINE Xchg(kind) == [p \in Procs |-> Exchange(p, kind)]
           None == [p \in Procs |-> << >>]
<1>3. ASSUME NEW kind, NEW r \in Nat, Rank(s, kind) = r PROVE Good(s, Xchg(kind), r, r)
  <2>1. PICK P : P = Xchg(kind)
    OBVIOUS
  <2>2. \A p \in Procs : P[p] = Exchange(p, kind)
    BY <2>1
  <2>3. Good(s, P, r, r)
    BY <1>3, <2>2, GoodExchange
  <2> QED
    BY <2>1, <2>3
<1>4. ASSUME NEW lo, NEW hi PROVE Good(s, None, lo, hi)
  <2>1. \A p \in Procs : None[p] = << >>
    OBVIOUS
  <2> QED
    BY <2>1, GoodNothing
<1>5. \A kind : \A p \in Procs : Xchg(kind)[p] = Exchange(p, kind)
  OBVIOUS
<1>6. \A p \in Procs : None[p] = << >>
  OBVIOUS
<1>7. /\ Apart(9, 9, 10, 10) /\ Apart(8, 8, 9, 10) /\ Apart(11, 11, 12, 12) /\ Apart(13, 13, 14, 14)
  BY DEF Apart
<1>8. Good(s, [p \in Procs |-> SetInputs(s, p)], 8, 10)
  <2>1. PICK I, D, A, R, W, N : /\ I = [p \in Procs |-> Round(p, "inputs", s.providers)]
                                /\ D = Xchg("digest") /\ A = Xchg("accept")
                                /\ R = [p \in Procs |-> SetInputs(s, p)]
                                /\ N = [p \in Procs |-> D[p] \o A[p]]
                                /\ W = IF s.evaluator = "zkfliop" THEN N ELSE None
    OBVIOUS
  <2>2. Good(s, I, 8, 8)
    <3>1. \A p \in Procs : I[p] = Round(p, "inputs", s.providers)
      BY <2>1
    <3> QED
      BY <1>1, <1>2, <3>1, GoodRound
  <2>3. Good(s, W, 9, 10)
    <3>1. CASE s.evaluator = "zkfliop"
      <4>1. Good(s, D, 9, 9) /\ Good(s, A, 10, 10)
        BY <1>1, <1>2, <1>3, <2>1
      <4>2. Joins(D, A, W)
        BY <2>1, <3>1 DEF Joins
      <4> QED
        BY <1>7, <4>1, <4>2, GoodJoin
    <3>2. CASE s.evaluator # "zkfliop"
      BY <1>4, <2>1, <3>2
    <3> QED
      BY <3>1, <3>2
  <2>4. ASSUME NEW p \in Procs PROVE SetInputs(s, p) = I[p] \o W[p]
    <3>1. W[p] = IF s.evaluator = "zkfliop" THEN Exchange(p, "digest") \o Exchange(p, "accept") ELSE << >>
      <4>1. D[p] = Exchange(p, "digest") /\ A[p] = Exchange(p, "accept")
        BY <1>5, <2>1
      <4> QED
        BY <1>6, <2>1, <4>1
    <3>2. CASE p = Dealer
      <4>1. SetInputs(s, p) = << >> /\ I[p] = << >> /\ Exchange(p, "digest") = << >> /\ Exchange(p, "accept") = << >>
        BY <2>1, <3>2 DEF SetInputs, Round, Exchange
      <4>2. << >> \o << >> = << >>
        OBVIOUS
      <4>3. W[p] = << >>
        BY <3>1, <4>1, <4>2
      <4> QED
        BY <4>1, <4>2, <4>3
    <3>3. CASE p # Dealer
      <4>1. I[p] = Round(p, "inputs", s.providers)
        BY <2>1
      <4>2. PICK L : L = [i \in 1..(nP - 1) |-> IF PeerAt(p, i) \in s.providers THEN Recv(PeerAt(p, i), "inputs")
                                                ELSE RecvNothing(PeerAt(p, i))]
        OBVIOUS
      <4>3. PerPeer(p, LAMBDA q : IF q \in s.providers THEN Recv(q, "inputs") ELSE RecvNothing(q)) = L
        BY <4>2 DEF PerPeer
      <4>4. I[p] = (IF p \in s.providers THEN <<SendTo(Parties \ {p}, "inputs")>> ELSE << >>) \o L
        BY <3>3, <4>1, <4>2 DEF Round
      <4> QED
        BY <3>1, <3>3, <4>3, <4>4 DEF SetInputs
    <3> QED
      BY <3>2, <3>3
  <2>5. Joins(I, W, R)
    <3>1. \A p \in Procs : R[p] = SetInputs(s, p)
      BY <2>1
    <3> QED
      BY <2>4, <3>1 DEF Joins
  <2>6. Good(s, R, 8, 10)
    BY <1>7, <2>2, <2>3, <2>5, GoodJoin
  <2> QED
    BY <2>1, <2>6
<1>9. ASSUME NEW a, NEW b, NEW lo, NEW mid, NEW R, Rank(s, a) = lo, Rank(s, b) = mid, Apart(lo, lo, mid, mid),
             \A p \in Procs : R[p] = Exchange(p, a) \o (IF s.evaluator = "zkfliop" THEN Exchange(p, b) ELSE << >>)
      PROVE  Good(s, R, lo, mid)
  <2>1. lo \in Nat /\ mid \in Nat
    BY <1>9 DEF Apart
  <2>2. PICK A, B : A = Xchg(a) /\ B = IF s.evaluator = "zkfliop" THEN Xchg(b) ELSE None
    OBVIOUS
  <2>3. Good(s, A, lo, lo) /\ Good(s, B, mid, mid)
    BY <1>3, <1>4, <1>9, <2>1, <2>2
  <2>4. \A p \in Procs : A[p] = Exchange(p, a) /\ B[p] = IF s.evaluator = "zkfliop" THEN Exchange(p, b) ELSE << >>
    BY <1>5, <1>6, <2>2
  <2>5. Joins(A, B, R)
    BY <1>9, <2>4 DEF Joins
  <2> QED
    BY <1>9, <2>3, <2>5, GoodJoin
<1>10. Good(s, [p \in Procs |-> EvaluateCircuit(s, p)], 11, 12)
  <2>1. PICK R : R = [p \in Procs |-> EvaluateCircuit(s, p)]
    OBVIOUS
  <2>2. \A p \in Procs : R[p] = Exchange(p, "shares") \o (IF s.evaluator = "zkfliop" THEN Exchange(p, "proof") ELSE << >>)
    BY <2>1 DEF EvaluateCircuit
  <2>3. Good(s, R, 11, 12)
    BY <1>2, <1>7, <1>9, <2>2
  <2> QED
    BY <2>1, <2>3
<1>11. Good(s, [p \in Procs |-> GetOutputs(s, p)], 13, 14)
  <2>1. PICK R : R = [p \in Procs |-> GetOutputs(s, p)]
    OBVIOUS
  <2>2. \A p \in Procs :
          R[p] = Exchange(p, "outputs") \o (IF s.evaluator = "zkfliop" THEN Exchange(p, "output accept") ELSE << >>)
    BY <2>1 DEF GetOutputs
  <2>3. Good(s, R, 13, 14)
    BY <1>2, <1>7, <1>9, <2>2
  <2> QED
    BY <2>1, <2>3
<1> QED
  BY <1>8, <1>10, <1>11

-----------------------------------------------------------------------------
(* What is to be known of a script: how many parts it has, that what they  *)
(* tell is heard in the same part, in order, and that every part but the   *)
(* first begins with a sync.                                               *)
(* The stretches P and Q, one after the other, and the ranks of what follows *)
(* a sync.                                                                 *)
J(P, Q) == [p \in Procs |-> P[p] \o Q[p]]

Within(lo, hi) == lo \in Nat /\ hi \in Nat /\ 1 <= lo /\ hi <= 14

PartOK(s, t) ==
  /\ Good(s, [p \in Procs |-> Script[s][p][t]], 0, 14)
  /\ t > 1 => \A p \in Procs : \E A : IsSeq(A) /\ Script[s][p][t] = Sync(p) \o A

(* Every part of every program is in order, and what is told in it is heard*)
(* in the same part.                                                       *)
LEMMA ScriptFacts ==
  ASSUME NEW s \in Sessions
  PROVE  \E n \in {3, 4} : (\A p \in Procs : Len(Script[s][p]) = n) /\ \A t \in 1..n : PartOK(s, t)
<1>1. PICK E, B, S, A, I, C, O, Y, N :
        /\ E = [p \in Procs |-> Evaluator(p)] /\ B = [p \in Procs |-> Before(s, p)]
        /\ S = [p \in Procs |-> RunSetup(s, p)] /\ A = [p \in Procs |-> After(s, p)]
        /\ I = [p \in Procs |-> SetInputs(s, p)] /\ C = [p \in Procs |-> EvaluateCircuit(s, p)]
        /\ O = [p \in Procs |-> GetOutputs(s, p)] /\ Y = [p \in Procs |-> Sync(p)] /\ N = [p \in Procs |-> << >>]
  OBVIOUS
<1>2. /\ Good(s, E, 1, 1) /\ Good(s, B, 2, 2) /\ Good(s, S, 3, 5) /\ Good(s, A, 6, 7)
  BY <1>1, GoodMethods
<1>3. Good(s, I, 8, 10) /\ Good(s, C, 11, 12) /\ Good(s, O, 13, 14)
  BY <1>1, GoodRounds
<1>4. \A p \in Procs :
        /\ E[p] = Evaluator(p) /\ B[p] = Before(s, p) /\ S[p] = RunSetup(s, p) /\ A[p] = After(s, p)
        /\ I[p] = SetInputs(s, p) /\ C[p] = EvaluateCircuit(s, p) /\ O[p] = GetOutputs(s, p)
        /\ Y[p] = Sync(p) /\ N[p] = << >>
  BY <1>1
<1>5. ASSUME NEW P, NEW Q PROVE Joins(P, Q, J(P, Q)) /\ \A p \in Procs : J(P, Q)[p] = P[p] \o Q[p]
  BY DEF Joins, J
<1>6. Good(s, Y, 0, 0) /\ Good(s, N, 1, 14)
  <2>1. Good(s, Y, 0, 0)
    BY <1>4, GoodSync
  <2>2. Good(s, N, 1, 14)
    BY <1>4, GoodNothing
  <2> QED
    BY <2>1, <2>2
<1>7. /\ Apart(1, 1, 2, 2) /\ Apart(3, 5, 6, 7) /\ Apart(3, 7, 8, 10) /\ Apart(11, 12, 13, 14) /\ Apart(2, 2, 3, 5)
      /\ Apart(2, 5, 6, 7) /\ Apart(8, 10, 11, 12) /\ Apart(8, 12, 13, 14) /\ Apart(0, 0, 1, 14)
  BY DEF Apart
<1>8. ASSUME NEW P, NEW Q, NEW lo, NEW mid, NEW mid2, NEW hi,
             Good(s, P, lo, mid), Good(s, Q, mid2, hi), Apart(lo, mid, mid2, hi)
      PROVE  Good(s, J(P, Q), lo, hi)
  <2>1. PICK R : R = J(P, Q)
    OBVIOUS
  <2>2. Joins(P, Q, R)
    BY <1>5, <2>1
  <2>3. Good(s, R, lo, hi)
    BY <1>8, <2>2, GoodJoin
  <2> QED
    BY <2>1, <2>3
<1>9. ASSUME NEW P, NEW lo, NEW hi, Good(s, P, lo, hi), Within(lo, hi)
      PROVE  Good(s, P, 0, 14) /\ Good(s, J(Y, P), 0, 14)
  <2>1. Good(s, P, 1, 14) /\ Good(s, P, 0, 14)
    <3>1. /\ 1 \in Nat /\ 0 \in Nat /\ 14 \in Nat /\ 0 <= lo
          /\ lo \in Nat /\ hi \in Nat /\ 1 <= lo /\ hi <= 14
      BY <1>9 DEF Within
    <3>2. PICK l, m, h : l = 0 /\ m = 1 /\ h = 14
      OBVIOUS
    <3>3. Good(s, P, m, h)
      BY <1>9, <3>1, <3>2, GoodWider
    <3>4. Good(s, P, l, h)
      BY <1>9, <3>1, <3>2, GoodWider
    <3> QED
      BY <3>2, <3>3, <3>4
  <2>2. Good(s, J(Y, P), 0, 14)
    BY <1>6, <1>7, <1>8, <2>1
  <2> QED
    BY <2>1, <2>2
<1>11. \A P, lo, hi : Good(s, P, lo, hi) => \A p \in Procs : IsSeq(P[p])
  BY DEF Good, Alone
<1>12. /\ Within(1, 1) /\ Within(1, 2) /\ Within(1, 14) /\ Within(2, 7) /\ Within(3, 10) /\ Within(8, 14)
       /\ Within(11, 14)
  BY DEF Within
<1>13. ASSUME NEW P, NEW lo, NEW hi, Good(s, P, lo, hi), NEW t, \A p \in Procs : Script[s][p][t] = P[p],
              Good(s, P, 0, 14), ~(t > 1)
       PROVE  PartOK(s, t)
  <2>1. PICK f : f = [p \in Procs |-> Script[s][p][t]]
    OBVIOUS
  <2>2. \A p \in Procs : f[p] = P[p]
    BY <1>13, <2>1
  <2>3. Good(s, f, 0, 14)
    BY <1>13, <2>2 DEF Good
  <2> QED
    BY <1>13, <2>1, <2>3 DEF PartOK
<1>14. ASSUME NEW P, NEW lo, NEW hi, Good(s, P, lo, hi), Within(lo, hi),
              NEW t, \A p \in Procs : Script[s][p][t] = Sync(p) \o P[p]
       PROVE  PartOK(s, t)
  <2>1. PICK f : f = [p \in Procs |-> Script[s][p][t]]
    OBVIOUS
  <2>2. Good(s, J(Y, P), 0, 14) /\ \A p \in Procs : IsSeq(P[p])
    BY <1>9, <1>11, <1>14
  <2>3. \A p \in Procs : f[p] = J(Y, P)[p] /\ Script[s][p][t] = f[p]
    BY <1>4, <1>14, <2>1 DEF J
  <2>4. Good(s, f, 0, 14)
    BY <2>2, <2>3 DEF Good
  <2> QED
    BY <1>14, <2>1, <2>2, <2>4 DEF PartOK
<1>15. \A p \in Procs : Programmed(s, p, Script[s][p])
  BY ScriptIs
<1>16. CASE s.caller = "benchmark"
  <2>1. PICK F, G, H : F = J(E, B) /\ G = J(J(S, A), I) /\ H = J(C, O)
    OBVIOUS
  <2>2. Good(s, F, 1, 2)
    BY <1>2, <1>7, <1>8, <2>1
  <2>3. Good(s, G, 3, 10)
    <3>1. Good(s, J(S, A), 3, 7)
      BY <1>2, <1>7, <1>8
    <3> QED
      BY <1>3, <1>7, <1>8, <2>1, <3>1
  <2>4. Good(s, H, 11, 14)
    BY <1>3, <1>7, <1>8, <2>1
  <2>5. ASSUME NEW p \in Procs
        PROVE  /\ Len(Script[s][p]) = 3 /\ Script[s][p][1] = F[p]
               /\ Script[s][p][2] = Sync(p) \o G[p] /\ Script[s][p][3] = Sync(p) \o H[p]
    <3>1. F[p] = Evaluator(p) \o Before(s, p) /\ H[p] = EvaluateCircuit(s, p) \o GetOutputs(s, p)
      BY <1>4, <2>1 DEF J
    <3>2. G[p] = RunSetup(s, p) \o After(s, p) \o SetInputs(s, p)
      BY <1>4, <2>1 DEF J
    <3> QED
      BY <1>15, <1>16, <3>1, <3>2 DEF Programmed
  <2>6. PartOK(s, 1)
    <3>1. Good(s, F, 0, 14) /\ ~(1 > 1)
      BY <1>9, <1>12, <2>2
    <3> QED
      BY <1>13, <2>2, <2>5, <3>1
  <2>7. PartOK(s, 2)
    BY <1>12, <1>14, <2>3, <2>5
  <2>8. PartOK(s, 3)
    BY <1>12, <1>14, <2>4, <2>5
  <2>9. \A t \in 1..3 : t = 1 \/ t = 2 \/ t = 3
    OBVIOUS
  <2>10. 3 \in {3, 4} /\ (\A p \in Procs : Len(Script[s][p]) = 3) /\ \A t \in 1..3 : PartOK(s, t)
    BY <2>5, <2>6, <2>7, <2>8, <2>9
  <2> QED
    BY <2>10
<1>17. CASE s.caller # "benchmark"
  <2>1. PICK G, H : G = J(J(B, S), A) /\ H = J(J(I, C), O)
    OBVIOUS
  <2>2. Good(s, G, 2, 7)
    <3>1. Good(s, J(B, S), 2, 5)
      BY <1>2, <1>7, <1>8
    <3> QED
      BY <1>2, <1>7, <1>8, <2>1, <3>1
  <2>3. Good(s, H, 8, 14)
    <3>1. Good(s, J(I, C), 8, 12)
      BY <1>3, <1>7, <1>8
    <3> QED
      BY <1>3, <1>7, <1>8, <2>1, <3>1
  <2>4. ASSUME NEW p \in Procs
        PROVE  /\ Len(Script[s][p]) = 4 /\ Script[s][p][1] = E[p]
               /\ Script[s][p][2] = Sync(p) \o G[p] /\ Script[s][p][3] = Sync(p) \o H[p]
               /\ Script[s][p][4] = Sync(p) \o N[p]
    <3>1. G[p] = Before(s, p) \o RunSetup(s, p) \o After(s, p)
      BY <1>4, <2>1 DEF J
    <3>2. H[p] = SetInputs(s, p) \o EvaluateCircuit(s, p) \o GetOutputs(s, p)
      BY <1>4, <2>1 DEF J
    <3> QED
      BY <1>4, <1>15, <1>17, <3>1, <3>2 DEF Programmed
  <2>5. PartOK(s, 1)
    <3>1. Good(s, E, 0, 14) /\ ~(1 > 1)
      BY <1>2, <1>9, <1>12
    <3> QED
      BY <1>2, <1>13, <2>4, <3>1
  <2>6. PartOK(s, 2)
    BY <1>12, <1>14, <2>2, <2>4
  <2>7. PartOK(s, 3)
    BY <1>12, <1>14, <2>3, <2>4
  <2>8. PartOK(s, 4)
    BY <1>6, <1>12, <1>14, <2>4, SMTT(30)
  <2>9. \A t \in 1..4 : t = 1 \/ t = 2 \/ t = 3 \/ t = 4
    OBVIOUS
  <2>10. 4 \in {3, 4} /\ (\A p \in Procs : Len(Script[s][p]) = 4) /\ \A t \in 1..4 : PartOK(s, t)
    BY <2>4, <2>5, <2>6, <2>7, <2>8, <2>9
  <2> QED
    BY <2>10
<1> QED
  BY <1>16, <1>17

-----------------------------------------------------------------------------
Prog(p, t) == Script[session][p][t]

Spoken(p, t) == {Prog(p, t)[i].kind : i \in 1..Len(Prog(p, t))}
Kinds    == UNION {Spoken(p, t) : p \in Procs, t \in 1..NumParts}
Messages == [kind : Kinds, part : 1..NumParts, rep : 1..Repeat]

ProgOK(p, t) ==
  /\ IsSeq(Prog(p, t)) /\ Len(Prog(p, t)) \in Nat /\ InOrder(session, Prog(p, t))
  /\ \A i \in 1..Len(Prog(p, t)) : OpOK(Prog(p, t)[i], p)

(* What the chosen program is like.                                        *)
LEMMA ProgFacts ==
  ASSUME session \in Sessions
  PROVE  /\ NumParts \in {3, 4}
         /\ \A p \in Procs : \A t \in 1..NumParts : ProgOK(p, t)
         /\ \A p, q \in Procs : \A t \in 1..NumParts : \A x : Tells(Prog(p, t), q, x) <=> Hears(Prog(q, t), p, x)
<1>1. PICK n \in {3, 4} : (\A p \in Procs : Len(Script[session][p]) = n) /\ \A t \in 1..n : PartOK(session, t)
  BY ScriptFacts
<1>2. NumParts = n
  BY <1>1, ProcFacts DEF NumParts
<1>3. ASSUME NEW t \in 1..NumParts
      PROVE  /\ \A p \in Procs : ProgOK(p, t)
             /\ \A p, q \in Procs : \A x : Tells(Prog(p, t), q, x) <=> Hears(Prog(q, t), p, x)
  <2>1. PICK f : f = [p \in Procs |-> Script[session][p][t]]
    OBVIOUS
  <2>2. Good(session, f, 0, 14)
    BY <1>1, <1>2, <2>1 DEF PartOK
  <2>3. \A p \in Procs : f[p] = Prog(p, t)
    BY <2>1 DEF Prog
  <2>4. ASSUME NEW p \in Procs PROVE ProgOK(p, t)
    <3>1. Alone(session, Prog(p, t), p, 0, 14)
      BY <2>2, <2>3 DEF Good
    <3>2. PICK A : A = Prog(p, t)
      OBVIOUS
    <3>3. IsSeq(A) /\ InOrder(session, A) /\ \A i \in 1..Len(A) : OpOK(A[i], p)
      BY <3>1, <3>2 DEF Alone
    <3>4. Len(A) \in Nat
      BY <3>3, Joined
    <3> QED
      BY <3>2, <3>3, <3>4 DEF ProgOK
  <2>5. ASSUME NEW p \in Procs, NEW q \in Procs, NEW x
        PROVE  Tells(Prog(p, t), q, x) <=> Hears(Prog(q, t), p, x)
    BY <2>2, <2>3 DEF Good
  <2> QED
    BY <2>4, <2>5
<1> QED
  BY <1>1, <1>2, <1>3

(* Behind its first part a process has heard from all others in a sync.    *)
LEMMA SyncHeard ==
  ASSUME session \in Sessions, NEW p \in Procs, NEW t \in 1..NumParts, t > 1, NEW q \in Procs, q # p
  PROVE  \E i \in 1..Len(Sync(p)) : i \in 1..Len(Prog(p, t)) /\ Gets(Prog(p, t)[i], q, "sync")
<1>1. PICK n \in {3, 4} : (\A o \in Procs : Len(Script[session][o]) = n) /\ \A u \in 1..n : PartOK(session, u)
  BY ScriptFacts
<1>2. NumParts = n
  BY <1>1, ProcFacts DEF NumParts
<1>3. PICK A, B, C : IsSeq(A) /\ B = Sync(p) /\ C = Prog(p, t) /\ C = B \o A
  <2>1. PartOK(session, t)
    BY <1>1, <1>2
  <2>2. PICK A : IsSeq(A) /\ Script[session][p][t] = Sync(p) \o A
    BY <2>1 DEF PartOK
  <2> QED
    BY <2>2 DEF Prog
<1>4. SyncOK(B, p)
  BY <1>3, SyncFacts
<1>5. IsSeq(B) /\ \E i \in 1..Len(B) : B[i] = SyncRecv(q)
  BY <1>4 DEF SyncOK
<1>6. PICK i \in 1..Len(B) : B[i] = SyncRecv(q)
  BY <1>5
<1>7. Len(B) \in Nat /\ Len(A) \in Nat /\ Len(C) = Len(B) + Len(A) /\ C[i] = B[i]
  BY <1>3, <1>5, Joined
<1>8. i \in 1..Len(C)
  BY <1>7
<1>9. Gets(C[i], q, "sync")
  BY <1>6, <1>7 DEF Gets, SyncRecv, Recv
<1> QED
  BY <1>3, <1>8, <1>9

(* Ranks are numbers.                                                      *)
LEMMA Ranked ==
  ASSUME NEW s, NEW x
  PROVE  Rank(s, x) \in Nat
  BY DEF Rank

-----------------------------------------------------------------------------
(* Messages in the order in which the program sends them.                  *)
Earlier(s, x, y) ==
  \/ x.rep < y.rep
  \/ x.rep = y.rep /\ x.part < y.part
  \/ x.rep = y.rep /\ x.part = y.part /\ Rank(s, x.kind) < Rank(s, y.kind)

(* L holds the messages W in order, and the first r of them are H.         *)
Fits(s, L, r, W, H) ==
  /\ H \subseteq W /\ r <= Len(L)
  /\ \A i \in 1..Len(L) : L[i] \in W
  /\ \A m \in W : \E i \in 1..Len(L) : L[i] = m
  /\ \A i, j \in 1..Len(L) : i < j => Earlier(s, L[i], L[j])
  /\ \A i \in 1..Len(L) : i <= r <=> L[i] \in H

Timed(m) == m.rep \in Int /\ m.part \in Int

(* Of two messages at most one is earlier than the other.                  *)
LEMMA NotBoth ==
  ASSUME NEW s, NEW x, NEW y, Timed(x), Timed(y), Earlier(s, x, y)
  PROVE  x # y /\ ~Earlier(s, y, x)
<1>1. Rank(s, x.kind) \in Nat /\ Rank(s, y.kind) \in Nat
  BY Ranked
<1> QED
  BY <1>1 DEF Earlier, Timed

(* One more message is written: a new one, behind all others.              *)
LEMMA FitsWrite ==
  ASSUME NEW s, NEW M, NEW L \in Seq(M), NEW r \in Nat, NEW W, NEW H, Fits(s, L, r, W, H),
         NEW m \in M, m \notin W, \A x \in W : Earlier(s, x, m)
  PROVE  Fits(s, Append(L, m), r, W \cup {m}, H)
<1>1. PICK K, n : K = Append(L, m) /\ n = Len(L)
  OBVIOUS
<1>2. n \in Nat /\ Len(K) = n + 1 /\ K[n + 1] = m /\ \A i \in 1..n : K[i] = L[i]
  BY <1>1
<1>3. \A i \in 1..Len(K) : (i \in 1..n /\ K[i] = L[i]) \/ (i = n + 1 /\ K[i] = m)
  BY <1>2
<1>4. /\ H \subseteq W /\ r <= n
      /\ \A i \in 1..n : L[i] \in W
      /\ \A x \in W : \E i \in 1..n : L[i] = x
      /\ \A i, j \in 1..n : i < j => Earlier(s, L[i], L[j])
      /\ \A i \in 1..n : i <= r <=> L[i] \in H
  BY <1>1 DEF Fits
<1>5. r <= Len(K) /\ 1..n \subseteq 1..Len(K) /\ n + 1 \in 1..Len(K)
  BY <1>2, <1>4
<1>6. \A i \in 1..Len(K) : K[i] \in W \cup {m}
  BY <1>3, <1>4
<1>7. \A x \in W \cup {m} : \E i \in 1..Len(K) : K[i] = x
  BY <1>2, <1>4, <1>5
<1>8. ASSUME NEW i \in 1..Len(K), NEW j \in 1..Len(K), i < j PROVE Earlier(s, K[i], K[j])
  <2>1. i \in 1..n
    BY <1>2, <1>8
  <2>2. CASE j \in 1..n
    BY <1>2, <1>4, <1>8, <2>1, <2>2
  <2>3. CASE j = n + 1
    BY <1>2, <1>4, <2>1, <2>3
  <2> QED
    BY <1>3, <2>2, <2>3
<1>9. \A i \in 1..Len(K) : i <= r <=> K[i] \in H
  <2>1. TAKE i \in 1..Len(K)
  <2>2. CASE i \in 1..n
    BY <1>2, <1>4, <2>2
  <2>3. CASE i = n + 1
    BY <1>2, <1>4, <2>3
  <2> QED
    BY <1>3, <2>2, <2>3
<1>10. Fits(s, K, r, W \cup {m}, H)
  BY <1>4, <1>5, <1>6, <1>7, <1>8, <1>9 DEF Fits
<1> QED
  BY <1>1, <1>10

(* One more message is read: the next one.                                 *)
LEMMA FitsRead ==
  ASSUME NEW s, NEW M, NEW L \in Seq(M), NEW r \in Nat, NEW W, NEW H, Fits(s, L, r, W, H),
         r < Len(L), \A m \in M : Timed(m)
  PROVE  Fits(s, L, r + 1, W, H \cup {L[r + 1]})
<1>1. PICK n, k : n = Len(L) /\ k = r + 1
  OBVIOUS
<1>2. n \in Nat /\ k \in 1..n /\ k = r + 1
  BY <1>1
<1>3. /\ H \subseteq W /\ r <= n
      /\ \A i \in 1..n : L[i] \in W
      /\ \A x \in W : \E i \in 1..n : L[i] = x
      /\ \A i, j \in 1..n : i < j => Earlier(s, L[i], L[j])
      /\ \A i \in 1..n : i <= r <=> L[i] \in H
  BY <1>1 DEF Fits
<1>4. H \cup {L[k]} \subseteq W /\ k <= n
  BY <1>2, <1>3
<1>5. ASSUME NEW i \in 1..n, L[i] = L[k] PROVE i = k
  <2>1. L[i] \in M /\ L[k] \in M
    BY <1>1, <1>2
  <2>2. Timed(L[i]) /\ Timed(L[k])
    BY <2>1
  <2>3. ~(i < k) /\ ~(k < i)
    BY <1>2, <1>3, <1>5, <2>2, NotBoth
  <2> QED
    BY <1>2, <2>3
<1>6. \A i \in 1..n : i <= k <=> L[i] \in H \cup {L[k]}
  <2>1. TAKE i \in 1..n
  <2>2. i <= k <=> i <= r \/ i = k
    BY <1>2
  <2> QED
    BY <1>3, <1>5, <2>2
<1>7. Fits(s, L, k, W, H \cup {L[k]})
  BY <1>1, <1>3, <1>4, <1>6 DEF Fits
<1> QED
  BY <1>1, <1>7

-----------------------------------------------------------------------------
(* Process p is past operation i of the part and repetition of m.          *)
Past(p, m, i) ==
  \/ m.rep < rep[p]
  \/ m.rep = rep[p] /\ m.part < part[p]
  \/ m.rep = rep[p] /\ m.part = part[p] /\ i < at[p]

(* What p has told q so far, and what it has heard from q.                 *)
Told(p, q) ==
  {m \in Messages : \E i \in 1..Len(Prog(p, m.part)) : Says(Prog(p, m.part)[i], q, m.kind) /\ Past(p, m, i)}
Got(p, q) ==
  {m \in Messages : \E i \in 1..Len(Prog(p, m.part)) : Gets(Prog(p, m.part)[i], q, m.kind) /\ Past(p, m, i)}

Places ==
  /\ session \in Sessions /\ rep \in [Procs -> 1..Repeat] /\ part \in [Procs -> 1..NumParts]
  /\ at \in [Procs -> Nat] /\ \A p \in Procs : at[p] \in 1..(Len(Prog(p, part[p])) + 1)

(* The operation a process is at.                                          *)
LEMMA OpFacts ==
  ASSUME Places, NEW p \in Procs, Busy(p)
  PROVE  /\ part[p] \in 1..NumParts /\ rep[p] \in 1..Repeat /\ at[p] \in 1..Len(Prog(p, part[p]))
         /\ Op(p) = Prog(p, part[p])[at[p]] /\ ProgOK(p, part[p]) /\ OpOK(Op(p), p)
         /\ Message(p) \in Messages /\ Message(p).part = part[p] /\ Message(p).rep = rep[p]
         /\ Message(p).kind = Op(p).kind
<1>1. part[p] \in 1..NumParts /\ rep[p] \in 1..Repeat /\ at[p] \in Nat /\ at[p] \in 1..(Len(Prog(p, part[p])) + 1)
  BY DEF Places
<1>2. Op(p) = Prog(p, part[p])[at[p]] /\ at[p] <= Len(Prog(p, part[p]))
  BY DEF Op, Ops, Busy, Prog
<1>3. ProgOK(p, part[p])
  BY <1>1, ProgFacts DEF Places
<1>4. at[p] \in 1..Len(Prog(p, part[p]))
  BY <1>1, <1>2, <1>3 DEF ProgOK
<1>5. OpOK(Op(p), p)
  BY <1>2, <1>3, <1>4 DEF ProgOK
<1>6. Op(p).kind \in Kinds
  <2>1. Op(p).kind \in Spoken(p, part[p])
    BY <1>2, <1>4 DEF Spoken
  <2> QED
    BY <1>1, <2>1 DEF Kinds
<1>7. Message(p) \in Messages
  BY <1>1, <1>6 DEF Message, Messages
<1>8. Message(p).part = part[p] /\ Message(p).rep = rep[p] /\ Message(p).kind = Op(p).kind
  BY DEF Message
<1> QED
  BY <1>1, <1>2, <1>3, <1>4, <1>5, <1>7, <1>8

(* A message is from a part and a repetition, and has nothing else.        *)
LEMMA MessageFacts ==
  ASSUME session \in Sessions, NEW m \in Messages
  PROVE  /\ m.part \in 1..NumParts /\ m.rep \in 1..Repeat /\ m.part \in Int /\ m.rep \in Int /\ Timed(m)
         /\ m = [kind |-> m.kind, part |-> m.part, rep |-> m.rep]
<1>1. NumParts \in Nat /\ Repeat \in Nat
  BY ProgFacts, ProcFacts
<1>2. /\ m.part \in 1..NumParts /\ m.rep \in 1..Repeat
      /\ m = [kind |-> m.kind, part |-> m.part, rep |-> m.rep]
  BY DEF Messages
<1> QED
  BY <1>1, <1>2 DEF Timed

(* Two operations that both tell q something, or both read from it.        *)
Alike(a, b, q, x, y) == (Says(a, q, x) /\ Says(b, q, y)) \/ (Gets(a, q, x) /\ Gets(b, q, y))

Once(p, t) ==
  \A i, j \in 1..Len(Prog(p, t)) : \A q, x, y :
    Alike(Prog(p, t)[i], Prog(p, t)[j], q, x, y) =>
      /\ i \in Nat /\ j \in Nat
      /\ i < j <=> Rank(session, x) < Rank(session, y)
      /\ i = j <=> x = y

(* A process never says or gets the same twice in a part, and what it says *)
(* to one peer, or gets from it, comes in the order of the ranks.          *)
LEMMA OncePerPart ==
  ASSUME session \in Sessions, NEW p \in Procs, NEW t \in 1..NumParts
  PROVE  Once(p, t)
<1> SUFFICES ASSUME NEW i \in 1..Len(Prog(p, t)), NEW j \in 1..Len(Prog(p, t)), NEW q, NEW x, NEW y,
                    Alike(Prog(p, t)[i], Prog(p, t)[j], q, x, y)
             PROVE  /\ i \in Nat /\ j \in Nat
                    /\ i < j <=> Rank(session, x) < Rank(session, y)
                    /\ i = j <=> x = y
  BY DEF Once
<1>1. ProgOK(p, t)
  BY ProgFacts
<1>2. PICK A : A = Prog(p, t)
  OBVIOUS
<1>3. InOrder(session, A) /\ Len(A) \in Nat /\ i \in 1..Len(A) /\ j \in 1..Len(A)
  BY <1>1, <1>2 DEF ProgOK
<1>4. (Says(A[i], q, x) /\ Says(A[j], q, y)) \/ (Gets(A[i], q, x) /\ Gets(A[j], q, y))
  BY <1>2 DEF Alike
<1>5. (Says(A[j], q, y) /\ Says(A[i], q, x)) \/ (Gets(A[j], q, y) /\ Gets(A[i], q, x))
  BY <1>4
<1>6. i < j => Rank(session, x) < Rank(session, y)
  BY <1>3, <1>4 DEF InOrder
<1>7. j < i => Rank(session, y) < Rank(session, x)
  BY <1>3, <1>5 DEF InOrder
<1>8. i = j => x = y
  BY <1>4 DEF Says, Gets
<1>9. i \in Nat /\ j \in Nat
  BY <1>3
<1>10. Rank(session, x) \in Nat /\ Rank(session, y) \in Nat
  BY Ranked
<1> QED
  BY <1>6, <1>7, <1>8, <1>9, <1>10

(* A process goes past one operation: what it said and got before is less, *)
(* and earlier.                                                            *)
LEMMA GoPast ==
  ASSUME Places, NEW p \in Procs, Busy(p), Advance(p), NEW q
  PROVE  /\ Places' /\ Messages' = Messages
         /\ \A o \in Procs : o # p => Told(o, q)' = Told(o, q) /\ Got(o, q)' = Got(o, q)
         /\ Told(p, q)' = Told(p, q) \cup (IF Says(Op(p), q, Op(p).kind) THEN {Message(p)} ELSE {})
         /\ Got(p, q)' = Got(p, q) \cup (IF Gets(Op(p), q, Op(p).kind) THEN {Message(p)} ELSE {})
<1>1. /\ session' = session /\ rep' = rep /\ part' = part
      /\ at' = [at EXCEPT ![p] = at[p] + 1] /\ at[p] \in Nat
  BY DEF Advance, Places
<1>2. \A o, t : Prog(o, t)' = Prog(o, t)
  BY <1>1 DEF Prog
<1>3. NumParts' = NumParts
  BY <1>1 DEF NumParts
<1>4. Kinds' = Kinds
  BY <1>2, <1>3, SMTT(30) DEF Kinds, Spoken
<1>5. Messages' = Messages
  BY <1>3, <1>4 DEF Messages
<1>6. at' \in [Procs -> Nat] /\ at'[p] = at[p] + 1 /\ \A o \in Procs : o # p => at'[o] = at[o]
  BY <1>1 DEF Places
<1>7. /\ part[p] \in 1..NumParts /\ rep[p] \in 1..Repeat /\ at[p] \in 1..Len(Prog(p, part[p]))
      /\ Op(p) = Prog(p, part[p])[at[p]] /\ ProgOK(p, part[p])
      /\ Message(p) \in Messages /\ Message(p).part = part[p] /\ Message(p).rep = rep[p]
      /\ Message(p).kind = Op(p).kind
  BY OpFacts
<1>8. Places'
  <2>1. \A o \in Procs : at'[o] \in 1..(Len(Prog(o, part[o])) + 1)
    <3>1. TAKE o \in Procs
    <3>2. at[o] \in 1..(Len(Prog(o, part[o])) + 1)
      BY DEF Places
    <3>3. CASE o = p
      BY <1>6, <1>7, <3>2, <3>3 DEF ProgOK
    <3>4. CASE o # p
      BY <1>6, <3>2, <3>4
    <3> QED
      BY <3>3, <3>4
  <2>2. /\ session \in Sessions /\ rep \in [Procs -> 1..Repeat] /\ part \in [Procs -> 1..NumParts]
    BY DEF Places
  <2> QED
    BY <1>1, <1>2, <1>3, <1>6, <2>1, <2>2 DEF Places
<1>9. ASSUME NEW o \in Procs, o # p, NEW m, NEW i PROVE Past(o, m, i)' <=> Past(o, m, i)
  BY <1>1, <1>6, <1>9 DEF Past
<1>10. ASSUME NEW m, NEW i \in Nat
       PROVE  Past(p, m, i)' <=> Past(p, m, i) \/ (m.rep = rep[p] /\ m.part = part[p] /\ i = at[p])
  BY <1>1, <1>6, <1>10 DEF Past
<1>11. \A t \in 1..NumParts : \A i \in 1..Len(Prog(p, t)) : i \in Nat
  BY ProgFacts DEF ProgOK, Places
<1>12. \A m \in Messages : m.part \in 1..NumParts /\ m = [kind |-> m.kind, part |-> m.part, rep |-> m.rep]
  BY MessageFacts DEF Places
<1>13. ASSUME NEW o \in Procs, o # p PROVE Told(o, q)' = Told(o, q) /\ Got(o, q)' = Got(o, q)
  <2>1. Told(o, q)' = Told(o, q)
    BY <1>2, <1>5, <1>9, <1>13 DEF Told
  <2>2. Got(o, q)' = Got(o, q)
    BY <1>2, <1>5, <1>9, <1>13 DEF Got
  <2> QED
    BY <2>1, <2>2
<1>14. \A m \in Messages : m.rep = rep[p] /\ m.part = part[p] /\ m.kind = Op(p).kind <=> m = Message(p)
  BY <1>7, <1>12 DEF Message
<1>15. Told(p, q)' = Told(p, q) \cup (IF Says(Op(p), q, Op(p).kind) THEN {Message(p)} ELSE {})
  <2>1. ASSUME NEW m \in Messages
        PROVE  m \in Told(p, q)' <=> m \in Told(p, q) \/ (m = Message(p) /\ Says(Op(p), q, Op(p).kind))
    <3>1. m \in Told(p, q)' <=> \E i \in 1..Len(Prog(p, m.part)) : Says(Prog(p, m.part)[i], q, m.kind) /\ Past(p, m, i)'
      BY <1>2, <1>5 DEF Told
    <3>2. ASSUME NEW i \in 1..Len(Prog(p, m.part)), Says(Prog(p, m.part)[i], q, m.kind), Past(p, m, i)'
          PROVE  m \in Told(p, q) \/ (m = Message(p) /\ Says(Op(p), q, Op(p).kind))
      <4>1. i \in Nat
        BY <1>11, <1>12
      <4>2. CASE Past(p, m, i)
        BY <3>2, <4>2 DEF Told
      <4>3. CASE m.rep = rep[p] /\ m.part = part[p] /\ i = at[p]
        <5>1. Says(Op(p), q, m.kind)
          BY <1>7, <3>2, <4>3
        <5>2. m.kind = Op(p).kind
          BY <5>1 DEF Says
        <5> QED
          BY <1>14, <4>3, <5>1, <5>2
      <4> QED
        BY <1>10, <3>2, <4>1, <4>2, <4>3
    <3>3. ASSUME m \in Told(p, q) PROVE m \in Told(p, q)'
      <4>1. PICK i \in 1..Len(Prog(p, m.part)) : Says(Prog(p, m.part)[i], q, m.kind) /\ Past(p, m, i)
        BY <3>3 DEF Told
      <4>2. i \in Nat
        BY <1>11, <1>12
      <4> QED
        BY <1>10, <3>1, <4>1, <4>2
    <3>4. ASSUME m = Message(p), Says(Op(p), q, Op(p).kind) PROVE m \in Told(p, q)'
      <4>0. PICK k : k = at[p]
        OBVIOUS
      <4>1. k \in 1..Len(Prog(p, m.part)) /\ Says(Prog(p, m.part)[k], q, m.kind) /\ k \in Nat
        BY <1>1, <1>7, <3>4, <4>0
      <4>2. Past(p, m, k)'
        BY <1>7, <1>10, <3>4, <4>0, <4>1
      <4> QED
        BY <3>1, <4>1, <4>2
    <3> QED
      BY <3>1, <3>2, <3>3, <3>4
  <2>2. Told(p, q) \subseteq Messages /\ Told(p, q)' \subseteq Messages
    BY <1>5 DEF Told
  <2> QED
    BY <1>7, <2>1, <2>2
<1>16. Got(p, q)' = Got(p, q) \cup (IF Gets(Op(p), q, Op(p).kind) THEN {Message(p)} ELSE {})
  <2>1. ASSUME NEW m \in Messages
        PROVE  m \in Got(p, q)' <=> m \in Got(p, q) \/ (m = Message(p) /\ Gets(Op(p), q, Op(p).kind))
    <3>1. m \in Got(p, q)' <=> \E i \in 1..Len(Prog(p, m.part)) : Gets(Prog(p, m.part)[i], q, m.kind) /\ Past(p, m, i)'
      BY <1>2, <1>5 DEF Got
    <3>2. ASSUME NEW i \in 1..Len(Prog(p, m.part)), Gets(Prog(p, m.part)[i], q, m.kind), Past(p, m, i)'
          PROVE  m \in Got(p, q) \/ (m = Message(p) /\ Gets(Op(p), q, Op(p).kind))
      <4>1. i \in Nat
        BY <1>11, <1>12
      <4>2. CASE Past(p, m, i)
        BY <3>2, <4>2 DEF Got
      <4>3. CASE m.rep = rep[p] /\ m.part = part[p] /\ i = at[p]
        <5>1. Gets(Op(p), q, m.kind)
          BY <1>7, <3>2, <4>3
        <5>2. m.kind = Op(p).kind
          BY <5>1 DEF Gets
        <5> QED
          BY <1>14, <4>3, <5>1, <5>2
      <4> QED
        BY <1>10, <3>2, <4>1, <4>2, <4>3
    <3>3. ASSUME m \in Got(p, q) PROVE m \in Got(p, q)'
      <4>1. PICK i \in 1..Len(Prog(p, m.part)) : Gets(Prog(p, m.part)[i], q, m.kind) /\ Past(p, m, i)
        BY <3>3 DEF Got
      <4>2. i \in Nat
        BY <1>11, <1>12
      <4> QED
        BY <1>10, <3>1, <4>1, <4>2
    <3>4. ASSUME m = Message(p), Gets(Op(p), q, Op(p).kind) PROVE m \in Got(p, q)'
      <4>0. PICK k : k = at[p]
        OBVIOUS
      <4>1. k \in 1..Len(Prog(p, m.part)) /\ Gets(Prog(p, m.part)[k], q, m.kind) /\ k \in Nat
        BY <1>1, <1>7, <3>4, <4>0
      <4>2. Past(p, m, k)'
        BY <1>7, <1>10, <3>4, <4>0, <4>1
      <4> QED
        BY <3>1, <4>1, <4>2
    <3> QED
      BY <3>1, <3>2, <3>3, <3>4
  <2>2. Got(p, q) \subseteq Messages /\ Got(p, q)' \subseteq Messages
    BY <1>5 DEF Got
  <2> QED
    BY <1>7, <2>1, <2>2
<1> QED
  BY <1>5, <1>8, <1>13, <1>15, <1>16

-----------------------------------------------------------------------------
(* The inductive invariant: on every stream, what the program has told so  *)
(* far, in order, and of it the peer has read what its program got so far. *)
AllFit ==
  \A p, q \in Procs : Fits(session, log[p][q], read[p][q], Told(p, q), Got(q, p))

IInv == Places /\ NetTypeOK(Messages) /\ NetOK /\ AllFit

(* Operations other than sends have one peer, which is another process.    *)
LEMMA PeerOf ==
  ASSUME Places, NEW p \in Procs, Busy(p), Op(p).do # "send"
  PROVE  Peer(p) \in Procs \ {p} /\ Op(p).peers = {Peer(p)}
<1>1. PICK q \in Procs \ {p} : Op(p).peers = {q}
  BY OpFacts DEF OpOK
<1>2. Peer(p) = q
  BY <1>1 DEF Peer
<1> QED
  BY <1>1, <1>2

(* What a process is about to say it has not said, and comes last.         *)
LEMMA SaidLast ==
  ASSUME Places, NEW p \in Procs, Busy(p), NEW q, Says(Op(p), q, Op(p).kind)
  PROVE  Message(p) \notin Told(p, q) /\ \A x \in Told(p, q) : Earlier(session, x, Message(p))
<1>1. /\ part[p] \in 1..NumParts /\ rep[p] \in 1..Repeat /\ at[p] \in 1..Len(Prog(p, part[p]))
      /\ Op(p) = Prog(p, part[p])[at[p]]
      /\ Message(p) \in Messages /\ Message(p).part = part[p] /\ Message(p).rep = rep[p]
      /\ Message(p).kind = Op(p).kind
  BY OpFacts
<1>2. session \in Sessions
  BY DEF Places
<1>3. ASSUME NEW x \in Told(p, q) PROVE Earlier(session, x, Message(p))
  <2>1. x \in Messages
    BY DEF Told
  <2>2. PICK i \in 1..Len(Prog(p, x.part)) : Says(Prog(p, x.part)[i], q, x.kind) /\ Past(p, x, i)
    BY DEF Told
  <2>3. CASE x.rep < rep[p] \/ (x.rep = rep[p] /\ x.part < part[p])
    BY <1>1, <2>3 DEF Earlier
  <2>4. CASE x.rep = rep[p] /\ x.part = part[p] /\ i < at[p]
    <3>1. Alike(Prog(p, part[p])[i], Prog(p, part[p])[at[p]], q, x.kind, Op(p).kind) /\ i \in 1..Len(Prog(p, part[p]))
      BY <1>1, <2>2, <2>4 DEF Alike
    <3>2. Rank(session, x.kind) < Rank(session, Op(p).kind)
      BY <1>1, <1>2, <2>4, <3>1, OncePerPart DEF Once
    <3> QED
      BY <1>1, <2>4, <3>2 DEF Earlier
  <2> QED
    BY <2>2, <2>3, <2>4 DEF Past
<1>4. Timed(Message(p))
  BY <1>1, <1>2, MessageFacts
<1> QED
  BY <1>3, <1>4, NotBoth

(* The first message not read yet is the one that the process is to read:  *)
(* it would have got an earlier one that was told, and it will get all.    *)
LEMMA NextRead ==
  ASSUME IInv, NEW p \in Procs, Busy(p), NEW q \in Procs, q # p, Gets(Op(p), q, Op(p).kind),
         read[q][p] < Len(log[q][p])
  PROVE  NextMsg(p, q) = Message(p)
<1>1. /\ part[p] \in 1..NumParts /\ rep[p] \in 1..Repeat /\ at[p] \in 1..Len(Prog(p, part[p]))
      /\ Op(p) = Prog(p, part[p])[at[p]] /\ Message(p) \in Messages /\ Message(p).part = part[p]
      /\ Message(p).rep = rep[p] /\ Message(p).kind = Op(p).kind
  BY OpFacts DEF IInv
<1>2. session \in Sessions /\ Repeat \in Nat /\ NumParts \in Nat
  <2>1. session \in Sessions
    BY DEF IInv, Places
  <2>2. NumParts \in {3, 4}
    BY <2>1, ProgFacts
  <2> QED
    BY <2>1, <2>2, ProcFacts
<1>3. PICK L, r, k, W, H, m : /\ L = log[q][p] /\ r = read[q][p] /\ k = read[q][p] + 1 /\ W = Told(q, p) /\ H = Got(p, q)
                              /\ m = Message(p)
  OBVIOUS
<1>4. L \in Seq(Messages) /\ r \in Nat /\ k = r + 1 /\ r < Len(L) /\ Len(L) \in Nat /\ k \in 1..Len(L)
  BY <1>3, SMTT(30) DEF IInv, NetTypeOK
<1>5. Fits(session, L, r, W, H)
  BY <1>3 DEF IInv, AllFit
<1>6. PICK x : x = L[k]
  OBVIOUS
<1>7. x \in Messages /\ x \in W /\ x \notin H
  BY <1>4, <1>5, <1>6 DEF Fits
<1>8. PICK i \in 1..Len(Prog(q, x.part)) : Says(Prog(q, x.part)[i], p, x.kind) /\ Past(q, x, i)
  BY <1>3, <1>7 DEF Told
<1>9. /\ x.part \in 1..NumParts /\ x.rep \in 1..Repeat /\ x.part \in Int /\ x.rep \in Int /\ Timed(x)
      /\ x = [kind |-> x.kind, part |-> x.part, rep |-> x.rep]
  BY <1>2, <1>7, MessageFacts
<1>10. PICK j \in 1..Len(Prog(p, x.part)) : Gets(Prog(p, x.part)[j], q, x.kind)
  <2>1. Tells(Prog(q, x.part), p, x.kind)
    BY <1>8 DEF Tells
  <2>2. Hears(Prog(p, x.part), q, x.kind)
    BY <1>2, <1>9, <2>1, ProgFacts
  <2> QED
    BY <2>2 DEF Hears
<1>11. ~Past(p, x, j)
  BY <1>3, <1>7, <1>10 DEF Got
<1>12. j \in Nat /\ i \in Nat /\ at[p] \in Nat /\ part[p] \in Nat /\ rep[p] \in Nat
  <2>1. Len(Prog(p, x.part)) \in Nat /\ Len(Prog(q, x.part)) \in Nat /\ Len(Prog(p, part[p])) \in Nat
    BY <1>1, <1>2, <1>9, ProgFacts DEF ProgOK
  <2> QED
    BY <1>1, <1>2, <2>1
<1>13. CASE x.rep = rep[p] /\ x.part = part[p] /\ j = at[p]
  <2>1. x.kind = Op(p).kind
    BY <1>1, <1>10, <1>13 DEF Gets
  <2>2. x = m
    BY <1>3, <1>9, <1>13, <2>1 DEF Message
  <2> QED
    BY <1>3, <1>6, <2>2 DEF NextMsg
<1>14. CASE x.rep > rep[p] \/ (x.rep = rep[p] /\ x.part > part[p]) \/ (x.rep = rep[p] /\ x.part = part[p] /\ j > at[p])
  <2>1. m.rep = rep[p] /\ m.part = part[p] /\ m.kind = Op(p).kind /\ m \in Messages
    BY <1>1, <1>3
  <2>2. Earlier(session, m, x)
    <3>1. CASE x.rep = rep[p] /\ x.part = part[p] /\ j > at[p]
      <4>1. /\ Alike(Prog(p, part[p])[at[p]], Prog(p, part[p])[j], q, m.kind, x.kind)
            /\ j \in 1..Len(Prog(p, part[p]))
        BY <1>1, <1>10, <2>1, <3>1 DEF Alike
      <4>2. at[p] < j
        BY <1>12, <3>1
      <4>3. part[p] \in 1..NumParts /\ at[p] \in 1..Len(Prog(p, part[p])) /\ session \in Sessions
        BY <1>1, <1>2
      <4>4. at[p] < j <=> Rank(session, m.kind) < Rank(session, x.kind)
        <5>1. Once(p, part[p])
          BY <4>3, OncePerPart
        <5> QED
          BY <4>1, <4>3, <5>1 DEF Once
      <4> QED
        BY <2>1, <3>1, <4>2, <4>4 DEF Earlier
    <3>2. CASE x.rep > rep[p] \/ (x.rep = rep[p] /\ x.part > part[p])
      BY <1>9, <1>12, <2>1, <3>2 DEF Earlier
    <3> QED
      BY <1>14, <3>1, <3>2
  <2>3. PICK h \in 1..Len(Prog(q, m.part)) : Says(Prog(q, m.part)[h], p, m.kind)
    <3>1. Hears(Prog(p, part[p]), q, m.kind)
      BY <1>1, <2>1 DEF Hears
    <3>2. Tells(Prog(q, part[p]), p, m.kind)
      BY <1>1, <1>2, <3>1, ProgFacts
    <3> QED
      BY <2>1, <3>2 DEF Tells
  <2>4. m \in W
    <3>1. CASE m.rep < x.rep \/ (m.rep = x.rep /\ m.part < x.part)
      <4>1. rep[q] \in Nat /\ part[q] \in Nat
        BY <1>2, SMTT(30) DEF IInv, Places
      <4>2. Past(q, m, h)
        BY <1>8, <1>9, <1>12, <2>1, <3>1, <4>1, SMTT(30) DEF Past
      <4> QED
        BY <1>3, <2>1, <2>3, <4>2 DEF Told
    <3>2. CASE m.rep = x.rep /\ m.part = x.part /\ Rank(session, m.kind) < Rank(session, x.kind)
      <4>1. Alike(Prog(q, x.part)[h], Prog(q, x.part)[i], p, m.kind, x.kind) /\ h \in 1..Len(Prog(q, x.part))
        BY <1>8, <2>3, <3>2 DEF Alike
      <4>5. x.part \in 1..NumParts /\ session \in Sessions /\ i \in 1..Len(Prog(q, x.part))
        BY <1>2, <1>8, <1>9
      <4>2. h < i /\ h \in Nat
        <5>1. Once(q, x.part)
          BY <4>5, OncePerPart
        <5> QED
          BY <3>2, <4>1, <4>5, <5>1, SMTT(30) DEF Once
      <4>3. at[q] \in Nat
        BY DEF IInv, Places
      <4>4. Past(q, m, h)
        BY <1>8, <1>12, <3>2, <4>2, <4>3 DEF Past
      <4> QED
        BY <1>3, <2>1, <2>3, <4>4 DEF Told
    <3> QED
      BY <2>2, <3>1, <3>2 DEF Earlier
  <2>5. PICK l \in 1..Len(L) : L[l] = m
    BY <1>5, <2>4 DEF Fits
  <2>6. l <= r
    <3>1. Timed(m)
      BY <1>2, <2>1, MessageFacts
    <3>2. ~Earlier(session, x, m) /\ x # m
      BY <1>9, <2>2, <3>1, NotBoth
    <3>3. k < l => Earlier(session, x, m)
      BY <1>4, <1>5, <1>6, <2>5 DEF Fits
    <3> QED
      BY <1>4, <1>6, <2>5, <3>2, <3>3
  <2>7. m \in H
    BY <1>5, <2>5, <2>6 DEF Fits
  <2>8. PICK g \in 1..Len(Prog(p, m.part)) : Gets(Prog(p, m.part)[g], q, m.kind) /\ Past(p, m, g)
    BY <1>3, <2>7 DEF Got
  <2>9. g < at[p]
    BY <1>12, <2>1, <2>8 DEF Past
  <2>10. Alike(Prog(p, part[p])[g], Prog(p, part[p])[at[p]], q, m.kind, m.kind) /\ g \in 1..Len(Prog(p, part[p]))
    BY <1>1, <2>1, <2>8 DEF Alike
  <2>12. part[p] \in 1..NumParts /\ at[p] \in 1..Len(Prog(p, part[p])) /\ session \in Sessions
    BY <1>1, <1>2
  <2>11. g = at[p]
    <3>1. Once(p, part[p])
      BY <2>12, OncePerPart
    <3>2. PICK u, d : u = at[p] /\ d = m.kind
      OBVIOUS
    <3>3. u \in 1..Len(Prog(p, part[p])) /\ Alike(Prog(p, part[p])[g], Prog(p, part[p])[u], q, d, d)
      BY <2>10, <2>12, <3>2
    <3>4. g = u
      BY <2>10, <3>1, <3>3, SMTT(30) DEF Once
    <3> QED
      BY <3>2, <3>4
  <2> QED
    BY <1>12, <2>9, <2>11
<1> QED
  BY <1>9, <1>11, <1>12, <1>13, <1>14 DEF Past

-----------------------------------------------------------------------------
(* Nothing is said before the program begins.                              *)
LEMMA InitFits ==
  ASSUME Init
  PROVE  IInv
<1>1. session \in Sessions /\ nP \in Nat /\ Repeat \in Nat /\ Repeat >= 1
  BY ProcFacts DEF Init
<1>2. NumParts \in {3, 4} /\ \A p \in Procs : \A t \in 1..NumParts : ProgOK(p, t)
  BY <1>1, ProgFacts
<1>3. Places
  <2>1. 1 \in 1..Repeat /\ 1 \in 1..NumParts
    BY <1>1, <1>2
  <2>2. \A p \in Procs : rep[p] = 1 /\ part[p] = 1 /\ at[p] = 1
    BY DEF Init
  <2>3. rep \in [Procs -> 1..Repeat] /\ part \in [Procs -> 1..NumParts] /\ at \in [Procs -> Nat]
    BY <2>1 DEF Init
  <2>4. \A p \in Procs : at[p] \in 1..(Len(Prog(p, part[p])) + 1)
    <3>1. TAKE p \in Procs
    <3>2. Len(Prog(p, 1)) \in Nat
      BY <1>2, <2>1 DEF ProgOK
    <3>3. 1 \in 1..(Len(Prog(p, 1)) + 1)
      BY <3>2
    <3> QED
      BY <2>2, <3>3
  <2> QED
    BY <1>1, <2>3, <2>4 DEF Places
<1>4. /\ log = [p \in Procs |-> [q \in Procs |-> << >>]]
      /\ flushed = [p \in Procs |-> [q \in Procs |-> 0]]
      /\ read = [p \in Procs |-> [q \in Procs |-> 0]]
  BY DEF Init, NetInit
<1>5. \A p, q \in Procs : log[p][q] = << >> /\ flushed[p][q] = 0 /\ read[p][q] = 0
  BY <1>4
<1>6. NetTypeOK(Messages) /\ NetOK
  <2>1. << >> \in Seq(Messages) /\ Len(<< >>) = 0
    OBVIOUS
  <2> QED
    BY <1>4, <1>5, <2>1 DEF NetTypeOK, NetOK
<1>7. ASSUME NEW p \in Procs, NEW q PROVE Told(p, q) = {} /\ Got(p, q) = {}
  <2>1. ASSUME NEW m \in Messages, NEW i \in 1..Len(Prog(p, m.part)) PROVE ~Past(p, m, i)
    <3>1. m.part \in 1..NumParts /\ m.rep \in 1..Repeat
      BY <1>1, MessageFacts
    <3>2. Len(Prog(p, m.part)) \in Nat
      BY <1>2, <3>1 DEF ProgOK
    <3>3. rep[p] = 1 /\ part[p] = 1 /\ at[p] = 1
      BY DEF Init
    <3> QED
      BY <1>1, <1>2, <3>1, <3>2, <3>3 DEF Past
  <2> QED
    BY <2>1 DEF Told, Got
<1>8. ASSUME NEW p \in Procs, NEW q \in Procs
      PROVE  Fits(session, log[p][q], read[p][q], Told(p, q), Got(q, p))
  <2>1. log[p][q] = << >> /\ read[p][q] = 0 /\ Told(p, q) = {} /\ Got(q, p) = {}
    BY <1>5, <1>7
  <2>2. Len(<< >>) = 0 /\ \A i : i \notin 1..0
    OBVIOUS
  <2>3. Fits(session, << >>, 0, {}, {})
    BY <2>2 DEF Fits
  <2> QED
    BY <2>1, <2>3
<1> QED
  BY <1>3, <1>6, <1>8 DEF IInv, AllFit

(* An operation that writes: the message goes to all its peers.            *)
LEMMA WriteFits ==
  ASSUME IInv, NEW p \in Procs, Busy(p), Advance(p), Op(p).do \in {"send", "sync"},
         \A a, b \in Procs : log'[a][b] = IF a = p /\ b \in Op(p).peers THEN Append(log[a][b], Message(p)) ELSE log[a][b],
         read' = read
  PROVE  AllFit'
<1>1. Places /\ session' = session
  BY DEF IInv, Advance
<1>2. SUFFICES ASSUME NEW a \in Procs, NEW b \in Procs
               PROVE  Fits(session, log'[a][b], read[a][b], Told(a, b)', Got(b, a)')
  BY <1>1 DEF AllFit
<1>3. /\ \A o \in Procs : o # p => Told(o, b)' = Told(o, b)
      /\ Told(p, b)' = Told(p, b) \cup (IF Says(Op(p), b, Op(p).kind) THEN {Message(p)} ELSE {})
  BY <1>1, GoPast
<1>4. /\ \A o \in Procs : o # p => Got(o, a)' = Got(o, a)
      /\ Got(p, a)' = Got(p, a) \cup (IF Gets(Op(p), a, Op(p).kind) THEN {Message(p)} ELSE {})
  BY <1>1, GoPast
<1>5. ~Gets(Op(p), a, Op(p).kind) /\ (Says(Op(p), b, Op(p).kind) <=> b \in Op(p).peers)
  BY DEF Gets, Says
<1>6. Got(b, a)' = Got(b, a)
  BY <1>4, <1>5
<1>7. PICK L, r, W, H, m : L = log[a][b] /\ r = read[a][b] /\ W = Told(a, b) /\ H = Got(b, a) /\ m = Message(p)
  OBVIOUS
<1>8. Fits(session, L, r, W, H) /\ L \in Seq(Messages) /\ r \in Nat
  BY <1>7 DEF IInv, AllFit, NetTypeOK
<1>9. CASE a = p /\ b \in Op(p).peers
  <2>1. Says(Op(p), b, Op(p).kind)
    BY <1>5, <1>9
  <2>2. m \notin W /\ \A x \in W : Earlier(session, x, m)
    BY <1>1, <1>7, <1>9, <2>1, SaidLast
  <2>3. m \in Messages
    BY <1>1, <1>7, OpFacts
  <2>4. Fits(session, Append(L, m), r, W \cup {m}, H)
    BY <1>8, <2>2, <2>3, FitsWrite
  <2>5. log'[a][b] = Append(L, m) /\ Told(a, b)' = W \cup {m}
    BY <1>3, <1>7, <1>9, <2>1
  <2> QED
    BY <1>6, <1>7, <2>4, <2>5
<1>10. CASE ~(a = p /\ b \in Op(p).peers)
  <2>1. log'[a][b] = log[a][b] /\ Told(a, b)' = Told(a, b)
    BY <1>3, <1>5, <1>10
  <2> QED
    BY <1>6, <1>7, <1>8, <2>1
<1> QED
  BY <1>9, <1>10

(* An operation that reads a message.                                      *)
LEMMA ReadFits ==
  ASSUME IInv, NEW p \in Procs, Busy(p), Advance(p), NEW q \in Procs, q # p, Gets(Op(p), q, Op(p).kind),
         read[q][p] < Len(log[q][p]), log' = log,
         \A a, b \in Procs : read'[a][b] = IF a = q /\ b = p THEN read[a][b] + 1 ELSE read[a][b]
  PROVE  AllFit'
<1>1. Places /\ session' = session
  BY DEF IInv, Advance
<1>2. SUFFICES ASSUME NEW a \in Procs, NEW b \in Procs
               PROVE  Fits(session, log[a][b], read'[a][b], Told(a, b)', Got(b, a)')
  BY <1>1 DEF AllFit
<1>3. /\ \A o \in Procs : o # p => Told(o, b)' = Told(o, b)
      /\ Told(p, b)' = Told(p, b) \cup (IF Says(Op(p), b, Op(p).kind) THEN {Message(p)} ELSE {})
  BY <1>1, GoPast
<1>4. /\ \A o \in Procs : o # p => Got(o, a)' = Got(o, a)
      /\ Got(p, a)' = Got(p, a) \cup (IF Gets(Op(p), a, Op(p).kind) THEN {Message(p)} ELSE {})
  BY <1>1, GoPast
<1>5. ~Says(Op(p), b, Op(p).kind) /\ (Gets(Op(p), a, Op(p).kind) <=> a = q)
  BY DEF Gets, Says
<1>6. Told(a, b)' = Told(a, b)
  BY <1>3, <1>5
<1>7. PICK L, r, W, H, m : L = log[a][b] /\ r = read[a][b] /\ W = Told(a, b) /\ H = Got(b, a) /\ m = Message(p)
  OBVIOUS
<1>8. Fits(session, L, r, W, H) /\ L \in Seq(Messages) /\ r \in Nat
  BY <1>7 DEF IInv, AllFit, NetTypeOK
<1>9. CASE a = q /\ b = p
  <2>1. L[r + 1] = m
    BY <1>7, <1>9, NextRead DEF NextMsg
  <2>2. \A x \in Messages : Timed(x)
    BY <1>1, MessageFacts DEF Places
  <2>3. Fits(session, L, r + 1, W, H \cup {L[r + 1]})
    BY <1>7, <1>8, <1>9, <2>2, FitsRead
  <2>4. read'[a][b] = r + 1 /\ Got(b, a)' = H \cup {m}
    BY <1>4, <1>5, <1>7, <1>9
  <2> QED
    BY <1>6, <1>7, <2>1, <2>3, <2>4
<1>10. CASE ~(a = q /\ b = p)
  <2>1. read'[a][b] = read[a][b] /\ Got(b, a)' = Got(b, a)
    BY <1>4, <1>5, <1>10
  <2> QED
    BY <1>6, <1>7, <1>8, <2>1
<1> QED
  BY <1>9, <1>10

(* Past the last operation a process has said and got the same as before   *)
(* the first of the next part.                                             *)
LEMMA PartFits ==
  ASSUME IInv, NEW p \in Procs, NextPart(p)
  PROVE  Places' /\ Messages' = Messages /\ AllFit'
<1>1. session' = session /\ log' = log /\ flushed' = flushed /\ read' = read
  BY DEF NextPart, netVars
<1>2. Places /\ session \in Sessions
  BY DEF IInv, Places
<1>3. NumParts \in {3, 4} /\ Repeat \in Nat /\ Repeat >= 1 /\ \A o \in Procs : \A t \in 1..NumParts : ProgOK(o, t)
  BY <1>2, ProgFacts, ProcFacts
<1>4. \A o, t : Prog(o, t)' = Prog(o, t)
  BY <1>1 DEF Prog
<1>5. NumParts' = NumParts
  BY <1>1 DEF NumParts
<1>6. Kinds' = Kinds
  BY <1>4, <1>5 DEF Kinds, Spoken
<1>7. Messages' = Messages
  BY <1>5, <1>6 DEF Messages
<1>8. /\ rep \in [Procs -> 1..Repeat] /\ part \in [Procs -> 1..NumParts] /\ at \in [Procs -> Nat]
      /\ \A o \in Procs : at[o] \in 1..(Len(Prog(o, part[o])) + 1)
  BY <1>2 DEF Places
<1>9. /\ rep' = [rep EXCEPT ![p] = IF part[p] < NumParts THEN rep[p] ELSE rep[p] + 1]
      /\ part' = [part EXCEPT ![p] = IF part[p] < NumParts THEN part[p] + 1 ELSE 1]
      /\ at' = [at EXCEPT ![p] = 1]
      /\ part[p] < NumParts \/ rep[p] < Repeat
  BY DEF NextPart
<1>10. ~(at[p] <= Len(Prog(p, part[p])))
  BY DEF NextPart, Busy, Ops, Prog
<1>11. /\ rep'[p] = (IF part[p] < NumParts THEN rep[p] ELSE rep[p] + 1)
       /\ part'[p] = (IF part[p] < NumParts THEN part[p] + 1 ELSE 1) /\ at'[p] = 1
       /\ \A o \in Procs : o # p => rep'[o] = rep[o] /\ part'[o] = part[o] /\ at'[o] = at[o]
  BY <1>8, <1>9
<1>12. part[p] \in 1..NumParts /\ rep[p] \in 1..Repeat /\ Len(Prog(p, part[p])) \in Nat
  BY <1>3, <1>8 DEF ProgOK
<1>13. rep'[p] \in 1..Repeat /\ part'[p] \in 1..NumParts
  BY <1>3, <1>9, <1>11, <1>12
<1>14. Places'
  <2>1. \A o \in Procs : rep'[o] \in 1..Repeat /\ part'[o] \in 1..NumParts /\ at'[o] \in Nat
    BY <1>8, <1>11, <1>13
  <2>2. rep' \in [Procs -> 1..Repeat] /\ part' \in [Procs -> 1..NumParts] /\ at' \in [Procs -> Nat]
    BY <1>8, <1>9, <2>1
  <2>3. \A o \in Procs : at'[o] \in 1..(Len(Prog(o, part'[o])) + 1)
    <3>1. TAKE o \in Procs
    <3>2. CASE o = p
      <4>1. Len(Prog(p, part'[p])) \in Nat
        BY <1>3, <1>13 DEF ProgOK
      <4> QED
        BY <1>11, <3>2, <4>1
    <3>3. CASE o # p
      BY <1>8, <1>11, <3>3
    <3> QED
      BY <3>2, <3>3
  <2> QED
    BY <1>1, <1>2, <1>4, <1>5, <2>2, <2>3 DEF Places
<1>15. ASSUME NEW o \in Procs, NEW m \in Messages, NEW i \in 1..Len(Prog(o, m.part)) PROVE Past(o, m, i)' <=> Past(o, m, i)
  <2>1. m.part \in 1..NumParts /\ m.rep \in 1..Repeat
    BY <1>2, MessageFacts
  <2>2. Len(Prog(o, m.part)) \in Nat
    BY <1>3, <2>1 DEF ProgOK
  <2>3. CASE o # p
    BY <1>11, <2>3 DEF Past
  <2>4. CASE o = p /\ part[p] < NumParts
    <3>1. rep'[p] = rep[p] /\ part'[p] = part[p] + 1 /\ at'[p] = 1
      BY <1>11, <2>4
    <3>2. m.part = part[p] => i < at[p]
      BY <1>8, <1>10, <1>12, <2>2, <2>4
    <3> QED
      BY <1>3, <1>12, <2>1, <2>2, <2>4, <3>1, <3>2 DEF Past
  <2>5. CASE o = p /\ part[p] = NumParts
    <3>1. rep'[p] = rep[p] + 1 /\ part'[p] = 1 /\ at'[p] = 1
      BY <1>3, <1>11, <2>5
    <3>2. m.part = part[p] => i < at[p]
      BY <1>8, <1>10, <1>12, <2>2, <2>5
    <3> QED
      BY <1>3, <1>12, <2>1, <2>2, <2>5, <3>1, <3>2, SMTT(30) DEF Past
  <2> QED
    BY <1>3, <1>12, <2>3, <2>4, <2>5
<1>16. ASSUME NEW o \in Procs, NEW q \in Procs PROVE Told(o, q)' = Told(o, q) /\ Got(o, q)' = Got(o, q)
  <2>1. Told(o, q)' = Told(o, q)
    BY <1>4, <1>7, <1>15 DEF Told
  <2>2. Got(o, q)' = Got(o, q)
    BY <1>4, <1>7, <1>15 DEF Got
  <2> QED
    BY <2>1, <2>2
<1>17. AllFit'
  BY <1>1, <1>16 DEF AllFit, IInv
<1> QED
  BY <1>7, <1>14, <1>17

-----------------------------------------------------------------------------
(* The steps, one lemma each.  A loop of sends writes to all its peers.     *)
LEMMA SendFits ==
  ASSUME IInv, NEW p \in Procs, SendStep(p)
  PROVE  IInv'
<1>1. Busy(p) /\ Op(p).do = "send" /\ Advance(p) /\ Places
  BY DEF SendStep, IInv
<1>2. PICK m, D, msgs : m = Message(p) /\ D = Op(p).peers /\ msgs = [q \in D |-> m]
  OBVIOUS
<1>3. D \subseteq Procs /\ m \in Messages
  BY <1>1, <1>2, OpFacts DEF OpOK
<1>4. DOMAIN msgs = D /\ \A q \in D : msgs[q] = m
  BY <1>2
<1>5. Send(p, msgs)
  BY <1>2 DEF SendStep
<1>6. /\ log \in [Procs -> [Procs -> Seq(Messages)]] /\ flushed \in [Procs -> [Procs -> Nat]]
      /\ read \in [Procs -> [Procs -> Nat]]
      /\ \A a, b \in Procs : read[a][b] <= flushed[a][b] /\ flushed[a][b] <= Len(log[a][b])
  BY DEF IInv, NetTypeOK, NetOK
<1>7. read' = read
  BY <1>5 DEF Send
<1>8. log' = [log EXCEPT ![p] = [q \in Procs |-> IF q \in D THEN Append(log[p][q], m) ELSE log[p][q]]]
  <2>1. log' = [log EXCEPT ![p] = [q \in Procs |-> IF q \in D THEN Append(log[p][q], msgs[q]) ELSE log[p][q]]]
    BY <1>4, <1>5 DEF Send
  <2>2. \A q \in Procs : (IF q \in D THEN Append(log[p][q], msgs[q]) ELSE log[p][q])
                           = (IF q \in D THEN Append(log[p][q], m) ELSE log[p][q])
    BY <1>4
  <2>3. [q \in Procs |-> IF q \in D THEN Append(log[p][q], msgs[q]) ELSE log[p][q]]
          = [q \in Procs |-> IF q \in D THEN Append(log[p][q], m) ELSE log[p][q]]
    BY <2>2
  <2> QED
    BY <2>1, <2>3
<1>9. \A a, b \in Procs : log'[a][b] = IF a = p /\ b \in D THEN Append(log[a][b], m) ELSE log[a][b]
  BY <1>6, <1>8
<1>10. log' \in [Procs -> [Procs -> Seq(Messages)]]
  <2>1. [q \in Procs |-> IF q \in D THEN Append(log[p][q], m) ELSE log[p][q]] \in [Procs -> Seq(Messages)]
    BY <1>3, <1>6
  <2> QED
    BY <1>6, <1>8, <2>1
<1>11. PICK g : /\ flushed' = [flushed EXCEPT ![p] = [q \in Procs |-> IF q \in D THEN g[q] ELSE flushed[p][q]]]
                /\ \A q \in D : g[q] \in {Len(log[p][q]) + 1, Len(log[p][q]), flushed[p][q]}
  <2>1. PICK cut \in [DOMAIN msgs -> Cuts] :
          flushed' = [flushed EXCEPT ![p] = [q \in Procs |->
            IF q \in DOMAIN msgs THEN (IF cut[q] = "all" THEN Len(log[p][q]) + 1
                             ELSE IF cut[q] = "older" THEN Len(log[p][q]) ELSE flushed[p][q])
            ELSE flushed[p][q]]]
    BY <1>5, Zenon DEF Send
  <2>2. PICK g : g = [q \in D |-> IF cut[q] = "all" THEN Len(log[p][q]) + 1
                                  ELSE IF cut[q] = "older" THEN Len(log[p][q]) ELSE flushed[p][q]]
    OBVIOUS
  <2>3. \A q \in D : g[q] = (IF cut[q] = "all" THEN Len(log[p][q]) + 1
                             ELSE IF cut[q] = "older" THEN Len(log[p][q]) ELSE flushed[p][q])
    BY <2>2
  <2>4. [q \in Procs |-> IF q \in DOMAIN msgs THEN (IF cut[q] = "all" THEN Len(log[p][q]) + 1
                                          ELSE IF cut[q] = "older" THEN Len(log[p][q]) ELSE flushed[p][q])
                         ELSE flushed[p][q]]
          = [q \in Procs |-> IF q \in D THEN g[q] ELSE flushed[p][q]]
    BY <1>4, <2>3
  <2>5. \A q \in D : g[q] \in {Len(log[p][q]) + 1, Len(log[p][q]), flushed[p][q]}
    BY <2>3
  <2> QED
    BY <2>1, <2>4, <2>5
<1>12. /\ flushed' \in [Procs -> [Procs -> Nat]]
       /\ \A a, b \in Procs : flushed'[a][b] = IF a = p /\ b \in D THEN g[b] ELSE flushed[a][b]
  <2>1. \A q \in D : g[q] \in Nat
    <3>1. TAKE q \in D
    <3>2. log[p][q] \in Seq(Messages) /\ flushed[p][q] \in Nat /\ q \in Procs
      BY <1>3, <1>6
    <3>3. Len(log[p][q]) \in Nat /\ Len(log[p][q]) + 1 \in Nat
      BY <3>2
    <3> QED
      BY <1>11, <3>2, <3>3
  <2>2. [q \in Procs |-> IF q \in D THEN g[q] ELSE flushed[p][q]] \in [Procs -> Nat]
    BY <1>6, <2>1
  <2> QED
    BY <1>6, <1>11, <2>2
<1>13. ASSUME NEW a \in Procs, NEW b \in Procs
       PROVE  read'[a][b] <= flushed'[a][b] /\ flushed'[a][b] <= Len(log'[a][b])
  <2>1. CASE a = p /\ b \in D
    <3>1. log'[a][b] = Append(log[a][b], m) /\ flushed'[a][b] = g[b]
      BY <1>9, <1>12, <2>1
    <3>2. log[a][b] \in Seq(Messages) /\ read[a][b] \in Nat /\ flushed[a][b] \in Nat
      BY <1>6
    <3>3. Len(log'[a][b]) = Len(log[a][b]) + 1 /\ Len(log[a][b]) \in Nat
      BY <1>3, <3>1, <3>2
    <3> QED
      <4>1. g[b] \in {Len(log[a][b]) + 1, Len(log[a][b]), flushed[a][b]}
        BY <1>11, <2>1
      <4>2. read[a][b] <= flushed[a][b] /\ flushed[a][b] <= Len(log[a][b]) /\ read' = read
        BY <1>6, <1>7
      <4> QED
        BY <3>1, <3>2, <3>3, <4>1, <4>2
  <2>2. CASE ~(a = p /\ b \in D)
    BY <1>6, <1>7, <1>9, <1>12, <2>2
  <2> QED
    BY <2>1, <2>2
<1>14. Places' /\ Messages' = Messages
  BY <1>1, GoPast
<1>15. AllFit'
  BY <1>1, <1>2, <1>7, <1>9, WriteFits
<1>16. NetTypeOK(Messages)'
  BY <1>6, <1>7, <1>10, <1>12, <1>14 DEF NetTypeOK
<1>17. NetOK'
  BY <1>13 DEF NetOK
<1> QED
  BY <1>14, <1>15, <1>16, <1>17 DEF IInv

(* A byte of sync is written, and leaves the buffer at once.               *)
LEMMA SyncFits ==
  ASSUME IInv, NEW p \in Procs, SyncStep(p)
  PROVE  IInv'
<1>1. Busy(p) /\ Op(p).do = "sync" /\ Advance(p) /\ Places
  BY DEF SyncStep, IInv
<1>2. PICK m, q : m = Message(p) /\ q = Peer(p)
  OBVIOUS
<1>3. q \in Procs /\ Op(p).peers = {q} /\ m \in Messages
  BY <1>1, <1>2, PeerOf, OpFacts
<1>4. /\ log \in [Procs -> [Procs -> Seq(Messages)]] /\ flushed \in [Procs -> [Procs -> Nat]]
      /\ read \in [Procs -> [Procs -> Nat]]
      /\ \A a, b \in Procs : read[a][b] <= flushed[a][b] /\ flushed[a][b] <= Len(log[a][b])
  BY DEF IInv, NetTypeOK, NetOK
<1>5. /\ log' = [log EXCEPT ![p][q] = Append(log[p][q], m)] /\ read' = read
      /\ flushed' = [flushed EXCEPT ![p][q] = Len(log[p][q]) + 1]
  BY <1>2 DEF SyncStep, SendNow
<1>6. /\ \A a, b \in Procs : log'[a][b] = IF a = p /\ b = q THEN Append(log[a][b], m) ELSE log[a][b]
      /\ \A a, b \in Procs : flushed'[a][b] = IF a = p /\ b = q THEN Len(log[a][b]) + 1 ELSE flushed[a][b]
  BY <1>3, <1>4, <1>5
<1>7. log' \in [Procs -> [Procs -> Seq(Messages)]] /\ flushed' \in [Procs -> [Procs -> Nat]]
  BY <1>3, <1>4, <1>5, SMTT(30)
<1>8. ASSUME NEW a \in Procs, NEW b \in Procs
      PROVE  read'[a][b] <= flushed'[a][b] /\ flushed'[a][b] <= Len(log'[a][b])
  <2>1. log[a][b] \in Seq(Messages) /\ read[a][b] \in Nat /\ flushed[a][b] \in Nat
    BY <1>4
  <2>2. CASE a = p /\ b = q
    <3>1. log'[a][b] = Append(log[a][b], m) /\ flushed'[a][b] = Len(log[a][b]) + 1
      BY <1>6, <2>2
    <3>2. Len(log'[a][b]) = Len(log[a][b]) + 1 /\ Len(log[a][b]) \in Nat
      BY <1>3, <2>1, <3>1
    <3> QED
      <4>1. read[a][b] <= flushed[a][b] /\ flushed[a][b] <= Len(log[a][b]) /\ read' = read
        BY <1>4, <1>5
      <4> QED
        BY <2>1, <3>1, <3>2, <4>1
  <2>3. CASE ~(a = p /\ b = q)
    <3>1. log'[a][b] = log[a][b] /\ flushed'[a][b] = flushed[a][b]
      BY <1>6, <2>3
    <3>2. read[a][b] <= flushed[a][b] /\ flushed[a][b] <= Len(log[a][b]) /\ read' = read
      BY <1>4, <1>5
    <3> QED
      BY <3>1, <3>2
  <2> QED
    BY <2>2, <2>3
<1>9. Places' /\ Messages' = Messages
  BY <1>1, GoPast
<1>10. AllFit'
  <2>1. \A a, b \in Procs : log'[a][b] = IF a = p /\ b \in Op(p).peers THEN Append(log[a][b], Message(p)) ELSE log[a][b]
    BY <1>2, <1>3, <1>6
  <2> QED
    BY <1>1, <1>5, <2>1, WriteFits
<1>11. NetTypeOK(Messages)'
  BY <1>4, <1>5, <1>7, <1>9 DEF NetTypeOK
<1>12. NetOK'
  BY <1>8 DEF NetOK
<1> QED
  BY <1>9, <1>10, <1>11, <1>12 DEF IInv

(* A message is read: it is the one the program gets there.                *)
LEMMA RecvFits ==
  ASSUME IInv, NEW p \in Procs, RecvStep(p)
  PROVE  IInv'
<1>1. Busy(p) /\ Op(p).do = "recv" /\ Advance(p) /\ Places
  BY DEF RecvStep, IInv
<1>2. PICK q : q = Peer(p)
  OBVIOUS
<1>3. q \in Procs /\ q # p /\ Op(p).peers = {q}
  BY <1>1, <1>2, PeerOf
<1>4. /\ log \in [Procs -> [Procs -> Seq(Messages)]] /\ flushed \in [Procs -> [Procs -> Nat]]
      /\ read \in [Procs -> [Procs -> Nat]]
      /\ \A a, b \in Procs : read[a][b] <= flushed[a][b] /\ flushed[a][b] <= Len(log[a][b])
  BY DEF IInv, NetTypeOK, NetOK
<1>5. /\ read' = [read EXCEPT ![q][p] = read[q][p] + 1] /\ log' = log /\ flushed' = flushed
      /\ read[q][p] < flushed[q][p]
  BY <1>2 DEF RecvStep, Consume, Arrived
<1>6. \A a, b \in Procs : read'[a][b] = IF a = q /\ b = p THEN read[a][b] + 1 ELSE read[a][b]
  BY <1>3, <1>4, <1>5
<1>7. read' \in [Procs -> [Procs -> Nat]]
  BY <1>3, <1>4, <1>5, SMTT(30)
<1>8. NetOK'
  <2>1. \A a, b \in Procs : read[a][b] \in Nat /\ flushed[a][b] \in Nat
    BY <1>4
  <2>2. \A a, b \in Procs : read'[a][b] <= flushed[a][b] /\ flushed[a][b] <= Len(log[a][b])
    <3>1. TAKE a, b \in Procs
    <3>2. CASE a = q /\ b = p
      BY <1>4, <1>5, <1>6, <2>1, <3>2
    <3>3. CASE ~(a = q /\ b = p)
      BY <1>4, <1>6, <3>3
    <3> QED
      BY <3>2, <3>3
  <2> QED
    BY <1>5, <2>2 DEF NetOK
<1>9. Places' /\ Messages' = Messages
  BY <1>1, GoPast
<1>10. AllFit'
  <2>1. Gets(Op(p), q, Op(p).kind)
    BY <1>1, <1>3 DEF Gets
  <2>2. read[q][p] < Len(log[q][p])
    <3>1. read[q][p] \in Nat /\ flushed[q][p] \in Nat /\ Len(log[q][p]) \in Nat
      BY <1>3, <1>4
    <3> QED
      BY <1>3, <1>4, <1>5, <3>1
  <2> QED
    BY <1>1, <1>3, <1>5, <1>6, <2>1, <2>2, ReadFits
<1>11. NetTypeOK(Messages)'
  BY <1>4, <1>5, <1>7, <1>9 DEF NetTypeOK
<1> QED
  BY <1>8, <1>9, <1>10, <1>11 DEF IInv

(* A receive flushes first, which tells nobody anything new.               *)
LEMMA FlushFits ==
  ASSUME IInv, NEW p \in Procs, RecvFlush(p)
  PROVE  IInv'
<1>1. /\ Busy(p) /\ Op(p).do # "send" /\ Places
      /\ session' = session /\ rep' = rep /\ part' = part /\ at' = at
  BY DEF RecvFlush, IInv
<1>2. PICK q : q = Peer(p)
  OBVIOUS
<1>3. q \in Procs /\ q # p
  BY <1>1, <1>2, PeerOf
<1>4. /\ log \in [Procs -> [Procs -> Seq(Messages)]] /\ flushed \in [Procs -> [Procs -> Nat]]
      /\ read \in [Procs -> [Procs -> Nat]]
      /\ \A a, b \in Procs : read[a][b] <= flushed[a][b] /\ flushed[a][b] <= Len(log[a][b])
  BY DEF IInv, NetTypeOK, NetOK
<1>5. log' = log /\ read' = read /\ flushed' = [flushed EXCEPT ![p][q] = Len(log[p][q])]
  BY <1>2 DEF RecvFlush, FlushTo
<1>6. \A a, b \in Procs : flushed'[a][b] = IF a = p /\ b = q THEN Len(log[a][b]) ELSE flushed[a][b]
  BY <1>3, <1>4, <1>5
<1>7. flushed' \in [Procs -> [Procs -> Nat]]
  BY <1>3, <1>4, <1>5
<1>8. NetOK'
  <2>1. \A a, b \in Procs : read[a][b] \in Nat /\ flushed[a][b] \in Nat /\ Len(log[a][b]) \in Nat
    BY <1>4
  <2> QED
    <3>1. ASSUME NEW a \in Procs, NEW b \in Procs
          PROVE  read[a][b] <= flushed'[a][b] /\ flushed'[a][b] <= Len(log[a][b])
      <4>1. CASE a = p /\ b = q
        BY <1>4, <1>6, <2>1, <4>1
      <4>2. CASE ~(a = p /\ b = q)
        BY <1>4, <1>6, <4>2
      <4> QED
        BY <4>1, <4>2
    <3> QED
      BY <1>5, <3>1 DEF NetOK
<1>9. NumParts' = NumParts /\ \A o, t : Prog(o, t)' = Prog(o, t)
  BY <1>1 DEF NumParts, Prog
<1>10. Kinds' = Kinds
  BY <1>9 DEF Kinds, Spoken
<1>11. Messages' = Messages
  BY <1>9, <1>10 DEF Messages
<1>12. \A o, m, i : Past(o, m, i)' <=> Past(o, m, i)
  BY <1>1 DEF Past
<1>13. Places'
  BY <1>1, <1>9 DEF Places
<1>14. \A o, r : Told(o, r)' = Told(o, r) /\ Got(o, r)' = Got(o, r)
  BY <1>9, <1>11, <1>12 DEF Told, Got
<1>15. AllFit'
  BY <1>1, <1>5, <1>14 DEF AllFit, IInv
<1>16. NetTypeOK(Messages)'
  BY <1>4, <1>5, <1>7, <1>11 DEF NetTypeOK
<1> QED
  BY <1>8, <1>13, <1>15, <1>16 DEF IInv

(* A receive of nothing leaves the streams alone.                          *)
LEMMA NothingFits ==
  ASSUME IInv, NEW p \in Procs, RecvNothingStep(p)
  PROVE  IInv'
<1>1. /\ Busy(p) /\ Op(p).do = "flush" /\ Advance(p) /\ Places
      /\ session' = session /\ log' = log /\ flushed' = flushed /\ read' = read
  BY DEF RecvNothingStep, Advance, IInv, netVars
<1>2. Places' /\ Messages' = Messages
  BY <1>1, GoPast
<1>3. \A q : ~Says(Op(p), q, Op(p).kind) /\ ~Gets(Op(p), q, Op(p).kind)
  BY <1>1 DEF Says, Gets
<1>4. ASSUME NEW o \in Procs, NEW q \in Procs PROVE Told(o, q)' = Told(o, q) /\ Got(o, q)' = Got(o, q)
  <2>1. /\ o # p => Told(o, q)' = Told(o, q) /\ Got(o, q)' = Got(o, q)
        /\ Told(p, q)' = Told(p, q) \cup (IF Says(Op(p), q, Op(p).kind) THEN {Message(p)} ELSE {})
        /\ Got(p, q)' = Got(p, q) \cup (IF Gets(Op(p), q, Op(p).kind) THEN {Message(p)} ELSE {})
    BY <1>1, GoPast
  <2> QED
    BY <1>3, <2>1
<1>5. AllFit'
  BY <1>1, <1>4 DEF AllFit, IInv
<1>6. NetTypeOK(Messages)' /\ NetOK'
  BY <1>1, <1>2 DEF NetTypeOK, NetOK, IInv
<1> QED
  BY <1>2, <1>5, <1>6 DEF IInv

(* All steps.                                                              *)
LEMMA Inductive ==
  ASSUME IInv, [Next]_vars
  PROVE  IInv'
<1>1. CASE Next
  <2>1. PICK p \in Procs : Step(p)
    BY <1>1 DEF Next
  <2>2. CASE SendStep(p)
    BY <2>2, SendFits
  <2>3. CASE SyncStep(p)
    BY <2>3, SyncFits
  <2>4. CASE RecvStep(p)
    BY <2>4, RecvFits
  <2>5. CASE RecvFlush(p)
    BY <2>5, FlushFits
  <2>6. CASE RecvNothingStep(p)
    BY <2>6, NothingFits
  <2>7. CASE NextPart(p)
    <3>1. Places' /\ Messages' = Messages /\ AllFit'
      BY <2>7, PartFits
    <3>2. log' = log /\ flushed' = flushed /\ read' = read
      BY <2>7 DEF NextPart, netVars
    <3>3. NetTypeOK(Messages)' /\ NetOK'
      BY <3>1, <3>2 DEF NetTypeOK, NetOK, IInv
    <3> QED
      BY <3>1, <3>3 DEF IInv
  <2> QED
    BY <2>1, <2>2, <2>3, <2>4, <2>5, <2>6, <2>7 DEF Step
<1>2. CASE UNCHANGED vars
  <2>1. /\ session' = session /\ rep' = rep /\ part' = part /\ at' = at
        /\ log' = log /\ flushed' = flushed /\ read' = read
    BY <1>2 DEF vars, netVars
  <2>2. NumParts' = NumParts /\ \A o, t : Prog(o, t)' = Prog(o, t)
    BY <2>1 DEF NumParts, Prog
  <2>3. Kinds' = Kinds
    BY <2>2 DEF Kinds, Spoken
  <2>4. Messages' = Messages
    BY <2>2, <2>3 DEF Messages
  <2>5. \A o, m, i : Past(o, m, i)' <=> Past(o, m, i)
    BY <2>1 DEF Past
  <2>6. \A o, r : Told(o, r)' = Told(o, r) /\ Got(o, r)' = Got(o, r)
    BY <2>2, <2>4, <2>5 DEF Told, Got
  <2>7. AllFit'
    BY <2>1, <2>6 DEF AllFit, IInv
  <2>8. Places'
    BY <2>1, <2>2 DEF Places, IInv
  <2>9. NetTypeOK(Messages)' /\ NetOK'
    BY <2>1, <2>4 DEF NetTypeOK, NetOK, IInv
  <2> QED
    BY <2>7, <2>8, <2>9 DEF IInv
<1> QED
  BY <1>1, <1>2

(* Every stream always holds what its writer's program has said so far, in *)
(* the order of the program, and the peer has read what its program got.   *)
THEOREM StreamsFollowProgram == Spec => []IInv
<1>1. Init => IInv
  BY InitFits
<1>2. IInv /\ [Next]_vars => IInv'
  BY Inductive
<1> QED
  BY <1>1, <1>2, PTL DEF Spec

(* The types, and no process beyond the end of a part.                     *)
THEOREM TypeCorrect == Spec => []TypeOK
<1>1. IInv => TypeOK
  <2>1. SUFFICES ASSUME IInv PROVE TypeOK
    OBVIOUS
  <2>2. ASSUME NEW p \in Procs PROVE part[p] \in 1..NumParts /\ at[p] \in 1..(Len(Ops(p)) + 1)
    BY <2>1 DEF IInv, Places, Ops, Prog
  <2> QED
    BY <2>1, <2>2 DEF TypeOK, IInv, Places
<1> QED
  BY <1>1, StreamsFollowProgram, PTL

(* What a process is about to read was sent for that read: in the same part*)
(* and repetition, as what it is read as.  Data and the bytes of sync never*)
(* mix, although neither carries a tag (netmp.h:112-161, 230-244).         *)
THEOREM FramingCorrect == Spec => []Framing
<1>1. IInv => Framing
  <2>1. SUFFICES ASSUME IInv, NEW p \in Procs, Busy(p), Op(p).do = "recv", Arrived(p, Peer(p))
                 PROVE  NextMsg(p, Peer(p)) = Message(p)
    BY DEF Framing
  <2>2. PICK q : q = Peer(p)
    OBVIOUS
  <2>3. q \in Procs /\ q # p /\ Op(p).peers = {q}
    BY <2>1, <2>2, PeerOf DEF IInv
  <2>4. Gets(Op(p), q, Op(p).kind)
    BY <2>1, <2>3 DEF Gets
  <2>5. read[q][p] < Len(log[q][p])
    <3>1. read[q][p] \in Nat /\ flushed[q][p] \in Nat /\ Len(log[q][p]) \in Nat /\ flushed[q][p] <= Len(log[q][p])
      BY <2>1, <2>3 DEF IInv, NetTypeOK, NetOK
    <3> QED
      BY <2>1, <2>2, <3>1 DEF Arrived
  <2> QED
    BY <2>1, <2>2, <2>3, <2>4, <2>5, NextRead
<1> QED
  BY <1>1, StreamsFollowProgram, PTL

(* When all processes have ended nothing is left on the streams: whatever  *)
(* one of them sent another one, also the dealer's mail, has been read     *)
(* (netmp.h:112-161).                                                      *)
THEOREM NothingLeftCorrect == Spec => []NothingLeft
<1>1. IInv => NothingLeft
  <2>1. SUFFICES ASSUME IInv, \A p \in Procs : Ended(p), NEW p \in Procs, NEW q \in Procs
                 PROVE  read[p][q] = Len(log[p][q])
    BY DEF NothingLeft
  <2>2. session \in Sessions
    BY <2>1 DEF IInv, Places
  <2>3. \A t \in 1..NumParts : ProgOK(q, t)
    BY <2>2, ProgFacts
  <2>4. PICK L, r, W, H : L = log[p][q] /\ r = read[p][q] /\ W = Told(p, q) /\ H = Got(q, p)
    OBVIOUS
  <2>5. Fits(session, L, r, W, H) /\ L \in Seq(Messages) /\ r \in Nat /\ Len(L) \in Nat
    BY <2>1, <2>4 DEF IInv, AllFit, NetTypeOK
  <2>6. /\ rep[q] = Repeat /\ part[q] = NumParts /\ ~(at[q] <= Len(Prog(q, part[q])))
        /\ at[q] \in Nat /\ Repeat \in Nat /\ NumParts \in {3, 4}
    BY <2>1, <2>2, ProcFacts, ProgFacts DEF Ended, Busy, Ops, Prog, IInv, Places
  <2>7. ASSUME NEW i \in 1..Len(L) PROVE i <= r
    <3>1. PICK x : x = L[i]
      OBVIOUS
    <3>2. x \in Messages /\ x \in W
      BY <2>5, <3>1 DEF Fits
    <3>3. x.part \in 1..NumParts /\ x.rep \in 1..Repeat
      BY <2>2, <3>2, MessageFacts
    <3>4. Tells(Prog(p, x.part), q, x.kind)
      BY <2>4, <3>2 DEF Told, Tells
    <3>5. Hears(Prog(q, x.part), p, x.kind)
      BY <2>2, <3>3, <3>4, ProgFacts
    <3>6. PICK j \in 1..Len(Prog(q, x.part)) : Gets(Prog(q, x.part)[j], p, x.kind)
      BY <3>5 DEF Hears
    <3>7. Len(Prog(q, x.part)) \in Nat
      BY <2>3, <3>3 DEF ProgOK
    <3>8. x.part = part[q] => j < at[q]
      BY <2>6, <3>6, <3>7
    <3>9. Past(q, x, j)
      BY <2>6, <3>3, <3>8 DEF Past
    <3>10. x \in H
      BY <2>4, <3>2, <3>6, <3>9 DEF Got
    <3> QED
      BY <2>5, <3>1, <3>10 DEF Fits
  <2>8. r <= Len(L)
    BY <2>5 DEF Fits
  <2>9. r = Len(L)
    BY <2>5, <2>7, <2>8
  <2> QED
    BY <2>4, <2>9
<1> QED
  BY <1>1, StreamsFollowProgram, PTL

(* Behind a sync a process knows that all others have come to it, so what  *)
(* they did before it is over: what a benchmark measures in one part is not*)
(* disturbed by another part of anybody (benchmark/fliop.cpp:184-199).     *)
THEOREM SyncSeparatesCorrect == Spec => []SyncSeparates
<1>1. IInv => SyncSeparates
  <2>1. SUFFICES ASSUME IInv, NEW p \in Procs, part[p] > 1, at[p] > Len(Sync(p)), NEW q \in Procs
                 PROVE  Stage(q) >= Stage(p)
    BY DEF SyncSeparates
  <2>2. /\ session \in Sessions /\ part[p] \in 1..NumParts /\ rep[p] \in 1..Repeat /\ at[p] \in Nat
        /\ part[q] \in 1..NumParts /\ rep[q] \in 1..Repeat
    BY <2>1 DEF IInv, Places
  <2>3. NumParts \in {3, 4} /\ Repeat \in Nat
    BY <2>2, ProgFacts, ProcFacts
  <2>4. CASE q = p
    BY <2>2, <2>3, <2>4 DEF Stage
  <2>5. CASE q # p
    <3>1. PICK i \in 1..Len(Sync(p)) : i \in 1..Len(Prog(p, part[p])) /\ Gets(Prog(p, part[p])[i], q, "sync")
      BY <2>1, <2>2, <2>5, SyncHeard
    <3>2. PICK m : m = [kind |-> "sync", part |-> part[p], rep |-> rep[p]]
      OBVIOUS
    <3>3. m.kind = "sync" /\ m.part = part[p] /\ m.rep = rep[p]
      BY <3>2
    <3>4. m \in Messages
      <4>1. Prog(p, part[p])[i].kind = "sync"
        BY <3>1 DEF Gets
      <4>2. "sync" \in Kinds
        <5>1. "sync" \in Spoken(p, part[p])
          BY <3>1, <4>1 DEF Spoken
        <5> QED
          BY <2>2, <5>1 DEF Kinds
      <4> QED
        BY <2>2, <3>2, <4>2 DEF Messages
    <3>5. i < at[p]
      <4>1. Len(Sync(p)) \in Nat
        <5>1. PICK A : A = Sync(p)
          OBVIOUS
        <5>2. IsSeq(A)
          BY <5>1, SyncFacts DEF SyncOK
        <5>3. Len(A) \in Nat
          BY <5>2, Joined
        <5> QED
          BY <5>1, <5>3
      <4> QED
        BY <2>1, <2>2, <3>1, <4>1
    <3>6. m \in Got(p, q)
      <4>1. Past(p, m, i)
        BY <3>3, <3>5 DEF Past
      <4> QED
        BY <3>1, <3>3, <3>4, <4>1 DEF Got
    <3>7. m \in Told(q, p)
      BY <2>1, <3>6 DEF IInv, AllFit, Fits
    <3>8. \E j : Past(q, m, j)
      BY <3>7 DEF Told
    <3>9. m.rep < rep[q] \/ (m.rep = rep[q] /\ m.part <= part[q])
      BY <2>2, <2>3, <3>3, <3>8 DEF Past
    <3>10. rep[p] < rep[q] \/ (rep[p] = rep[q] /\ part[p] <= part[q])
      BY <3>3, <3>9
    <3>11. PICK n, a, b, c, d : n = NumParts /\ a = rep[p] /\ b = part[p] /\ c = rep[q] /\ d = part[q]
      OBVIOUS
    <3>12. n \in {3, 4} /\ a \in Nat /\ b \in 1..n /\ c \in Nat /\ d \in 1..n
      BY <2>2, <2>3, <3>11
    <3>13. a < c \/ (a = c /\ b <= d)
      BY <3>10, <3>11
    <3>14. n * c + d >= n * a + b
      <4>1. CASE n = 3
        BY <3>12, <3>13, <4>1
      <4>2. CASE n = 4
        BY <3>12, <3>13, <4>2
      <4> QED
        BY <3>12, <4>1, <4>2
    <3> QED
      BY <3>11, <3>14 DEF Stage
  <2> QED
    BY <2>4, <2>5
<1> QED
  BY <1>1, StreamsFollowProgram, PTL
=============================================================================
