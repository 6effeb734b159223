----------------------- MODULE ReconstructPking_proofs -----------------------
(***************************************************************************)
(* Proofs about ReconstructPking, for every number of parties, of values   *)
(* and of calls.  First for vectors that leave no block empty, then for    *)
(* those that leave all but the last one empty, where most of the waiting  *)
(* that keeps the parties together is gone; the theorems are at the end.   *)
(***************************************************************************)
EXTENDS ReconstructPking, TLAPS

(* The code's block boundaries cut 0..NumVals-1 into nP disjoint pieces    *)
(* whatever the two numbers are, also when there are fewer values than     *)
(* parties (semi_evaluator.cpp:461-471).                                   *)
LEMMA DivisionFacts ==
  /\ PerPartyComm \in Nat
  /\ LastPartyComm \in Nat
  /\ NumVals = PerPartyComm * nP + (NumVals % nP)
  /\ NumVals % nP \in Nat
BY PkingAssumption, SMT DEF PerPartyComm, LastPartyComm

(* Multiplying by a natural number keeps the order.                         *)
LEMMA Monotone == ASSUME NEW a \in Nat, NEW b \in Nat, NEW c \in Nat, a <= b PROVE a * c <= b * c
OBVIOUS

(* Every index has a P_king: no value of the vector is left out.            *)
LEMMA BlockCover == \A x \in Idx : \E j \in Parties : x \in Block(j)
<1> USE PkingAssumption, DivisionFacts DEF Parties, Idx
<1>1. SUFFICES ASSUME NEW x \in Idx PROVE \E j \in Parties : x \in Block(j)
  OBVIOUS
<1>2. CASE (nP - 1) * PerPartyComm <= x
  <2>1. (nP - 1) * PerPartyComm + LastPartyComm = NumVals
    BY SMT DEF LastPartyComm
  <2>2. x \in Block(nP)
    BY <1>2, <2>1 DEF Block
  <2> QED BY <2>2
<1>3. CASE x < (nP - 1) * PerPartyComm
  <2> DEFINE j == (x \div PerPartyComm) + 1
  <2>1. PerPartyComm > 0
    BY <1>3, SMT
  <2>2. x = PerPartyComm * (x \div PerPartyComm) + (x % PerPartyComm) /\ x % PerPartyComm \in 0..(PerPartyComm - 1)
    BY <2>1, SMT
  <2>3. x \div PerPartyComm \in Nat
    BY <2>1, SMT
  <2>4. x \div PerPartyComm < nP - 1
    <3>1. SUFFICES ASSUME nP - 1 <= x \div PerPartyComm PROVE FALSE
      BY <2>3
    <3>2. (nP - 1) * PerPartyComm <= (x \div PerPartyComm) * PerPartyComm
      BY <3>1, <2>3, Monotone
    <3>3. x >= (nP - 1) * PerPartyComm
      BY <2>2, <2>3, <3>2, SMT
    <3> QED BY <3>3, <1>3, SMT
  <2>5. j \in Parties /\ j # nP
    BY <2>3, <2>4
  <2>6. (j - 1) * PerPartyComm <= x /\ x < (j - 1) * PerPartyComm + PerPartyComm
    BY <2>2, <2>3, SMT
  <2>7. x \in Block(j)
    BY <2>5, <2>6 DEF Block
  <2> QED BY <2>5, <2>7
<1> QED BY <1>2, <1>3, SMT

(* With at least as many values as parties no recv is of zero bytes.       *)
LEMMA NoEmptyBlock == ASSUME NumVals >= nP PROVE \A j \in Parties : Block(j) # {} /\ HasValues(j)
<1> USE PkingAssumption, DivisionFacts DEF Parties, Idx
<1>1. SUFFICES ASSUME NEW j \in Parties PROVE Block(j) # {}
  BY DEF HasValues
<1> DEFINE x == (j - 1) * PerPartyComm
<1>2. PerPartyComm > 0
  BY SMT DEF PerPartyComm
<1>3. j * PerPartyComm <= nP * PerPartyComm
  BY Monotone
<1>4. x + PerPartyComm = j * PerPartyComm /\ x \in Nat
  BY SMT
<1>5. nP * PerPartyComm <= NumVals
  BY SMT
<1>6. x \in Idx
  BY <1>2, <1>3, <1>4, <1>5
<1>7. LastPartyComm > 0
  BY <1>2, SMT DEF LastPartyComm
<1>8. x \in Block(j)
  BY <1>2, <1>4, <1>6, <1>7 DEF Block
<1> QED BY <1>8

(* No index has two.                                                        *)
LEMMA BlockDisjoint ==
  \A i, j \in Parties : \A x \in Idx : x \in Block(i) /\ x \in Block(j) => i = j
<1> USE PkingAssumption, DivisionFacts DEF Parties, Idx
<1>1. ASSUME NEW i \in Parties, NEW j \in Parties, NEW x \in Idx, i < j, x \in Block(i), x \in Block(j)
      PROVE  FALSE
  <2>1. x < (i - 1) * PerPartyComm + PerPartyComm
    BY <1>1 DEF Block
  <2>2. (j - 1) * PerPartyComm <= x
    BY <1>1 DEF Block
  <2>3. i * PerPartyComm <= (j - 1) * PerPartyComm
    BY <1>1, Monotone, j - 1 \in Nat
  <2>4. (i - 1) * PerPartyComm + PerPartyComm = i * PerPartyComm
    BY SMT
  <2> QED BY <2>1, <2>2, <2>3, <2>4, SMT
<1>2. ASSUME NEW i \in Parties, NEW j \in Parties, NEW x \in Idx, x \in Block(i), x \in Block(j), i # j
      PROVE  FALSE
  <2>1. CASE i < j
    BY <1>1, <1>2, <2>1
  <2>2. CASE j < i
    BY <1>1, <1>2, <2>2
  <2> QED BY <1>2, <2>1, <2>2
<1> QED BY <1>2

-----------------------------------------------------------------------------
(* The loop `for (i = 1; i <= nP; i++) if (i == id) continue': before it   *)
(* comes to j it has dealt with exactly the others below j.                *)
LEMMA FirstPeerFacts ==
  ASSUME NEW p \in Parties
  PROVE  /\ FirstPeer(p) \in 1..(nP + 1)
         /\ FirstPeer(p) # p
         /\ \A q \in Others(p) : ~(q < FirstPeer(p))
BY PkingAssumption DEF FirstPeer, Parties, Others

(* After peer j the loop comes to the next one that is not the party itself; *)
(* exactly j is added to those dealt with.                                  *)
LEMMA PeerAfterFacts ==
  ASSUME NEW p \in Parties, NEW j \in Others(p)
  PROVE  /\ PeerAfter(p, j) \in 1..(nP + 1)
         /\ PeerAfter(p, j) # p
         /\ \A q \in Others(p) : q < PeerAfter(p, j) <=> (q < j \/ q = j)
         /\ p < PeerAfter(p, j) <=> p < j \/ PeerAfter(p, j) = j + 2
BY PkingAssumption DEF PeerAfter, Parties, Others

(* When the loop is over, everybody has been dealt with.                    *)
LEMMA LoopEnd ==
  ASSUME NEW p \in Parties, NEW j \in 1..(nP + 1), j > nP
  PROVE  \A q \in Parties : q < j
BY PkingAssumption DEF Parties

(* What the two sends write has the type of the messages.                   *)
LEMMA DataFacts ==
  /\ \A p, q \in Parties : [x \in Block(q) |-> Share(p)] \in Data
  /\ \A p \in Parties : [x \in Block(p) |-> Sum] \in Data
<1>1. \A p \in Parties : Share(p) \in [Parties -> 0..1]
  BY DEF Share
<1>2. Sum \in [Parties -> 0..1]
  BY DEF Sum
<1> QED BY <1>1, <1>2 DEF Data

(* Appending to a sequence keeps what was there.                            *)
LEMMA AppendFacts ==
  ASSUME NEW S, NEW s \in Seq(S), NEW e \in S
  PROVE  /\ Len(Append(s, e)) = Len(s) + 1
         /\ \A i \in 1..Len(s) : Append(s, e)[i] = s[i]
         /\ Append(s, e)[Len(s) + 1] = e
OBVIOUS

(* What a loop of sends does to the streams.                               *)
LEMMA SendFacts ==
  ASSUME NetTypeOK(Msg), NetOK, NEW p \in Parties,
         NEW msgs, DOMAIN msgs \subseteq Others(p), \A q \in DOMAIN msgs : msgs[q] \in Msg,
         Send(p, msgs)
  PROVE  /\ NetTypeOK(Msg)'
         /\ NetOK'
         /\ read' = read
         /\ \A q \in DOMAIN msgs : log'[p][q] = Append(log[p][q], msgs[q])
         /\ \A q \in Parties : q \notin DOMAIN msgs => log'[p][q] = log[p][q]
         /\ \A r \in Parties : r # p => log'[r] = log[r]
<1> USE PkingAssumption
<1>1. PICK cut \in [DOMAIN msgs -> Cuts] :
        flushed' = [flushed EXCEPT ![p] =
          [q \in Procs |-> IF q \in DOMAIN msgs
             THEN IF cut[q] = "all" THEN Len(log[p][q]) + 1
                  ELSE IF cut[q] = "older" THEN Len(log[p][q]) ELSE flushed[p][q]
             ELSE flushed[p][q]]]
  BY Zenon DEF Send
<1>2. log' = [log EXCEPT ![p] = [q \in Procs |->
                IF q \in DOMAIN msgs THEN Append(log[p][q], msgs[q]) ELSE log[p][q]]]
  BY Zenon DEF Send
<1>3. read' = read
  BY DEF Send
<1>4. log' \in [Procs -> [Procs -> Seq(Msg)]]
  BY <1>2 DEF NetTypeOK, Others
<1>5. flushed' \in [Procs -> [Procs -> Nat]]
  <2> DEFINE row == [q \in Procs |-> IF q \in DOMAIN msgs
             THEN IF cut[q] = "all" THEN Len(log[p][q]) + 1
                  ELSE IF cut[q] = "older" THEN Len(log[p][q]) ELSE flushed[p][q]
             ELSE flushed[p][q]]
  <2>1. \A q \in Procs : Len(log[p][q]) \in Nat /\ flushed[p][q] \in Nat
    BY DEF NetTypeOK
  <2>2. row \in [Procs -> Nat]
    BY <2>1
  <2>3. flushed' = [flushed EXCEPT ![p] = row]
    BY <1>1
  <2> HIDE DEF row
  <2> QED BY <2>2, <2>3 DEF NetTypeOK
<1>6. \A q \in DOMAIN msgs : log'[p][q] = Append(log[p][q], msgs[q])
  BY <1>2 DEF NetTypeOK, Others
<1>7. /\ \A q \in Parties : q \notin DOMAIN msgs => log'[p][q] = log[p][q]
      /\ \A r \in Parties : r # p => log'[r] = log[r]
  BY <1>2 DEF NetTypeOK, Others
<1>8. \A q \in Parties : Len(log'[p][q]) = IF q \in DOMAIN msgs THEN Len(log[p][q]) + 1 ELSE Len(log[p][q])
  BY <1>6, <1>7, SMTT(60) DEF NetTypeOK, Others
<1>9. NetOK'
  <2>1. SUFFICES ASSUME NEW r \in Procs, NEW q \in Procs
                 PROVE  read[r][q] <= flushed'[r][q] /\ flushed'[r][q] <= Len(log'[r][q])
    BY <1>3 DEF NetOK
  <2>2. CASE r = p
    BY <2>2, <1>1, <1>8, SMTT(30) DEF NetOK, NetTypeOK
  <2>3. CASE r # p
    BY <2>3, <1>1, <1>7 DEF NetOK, NetTypeOK
  <2> QED BY <2>2, <2>3
<1> QED BY <1>3, <1>4, <1>5, <1>6, <1>7, <1>9 DEF NetTypeOK

-----------------------------------------------------------------------------
(* The inductive invariant holds initially.                                *)
LEMMA InitIInv == Init => IInv
<1> SUFFICES ASSUME Init PROVE IInv
  OBVIOUS
<1> USE PkingAssumption DEF Init, NetInit
<1>1. TypeOK
  BY DEF TypeOK, NetTypeOK, Share, Parties
<1>2. NetOK
  BY DEF NetOK
<1>3. ControlInv /\ StreamInv /\ NoSelfInv
  BY DEF ControlInv, StreamInv, NoSelfInv, NSent, NRead, Others, Parties
<1>4. ContentInv
  BY DEF ContentInv, Others, Parties
<1>5. ValsInv
  BY DEF ValsInv
<1> QED BY <1>1, <1>2, <1>3, <1>4, <1>5 DEF IInv

(* The start of a call keeps the invariant.                                 *)
LEMMA SendSharesIInv ==
  ASSUME NumVals >= nP, IInv, NEW p \in Parties, SendShares(p)
  PROVE  IInv'
<1> USE PkingAssumption
<1> DEFINE msgs == [king \in Others(p) |-> ShareMsg(p, king, call[p] + 1)]
<1>1. TypeOK /\ NetOK /\ ControlInv /\ StreamInv /\ ContentInv /\ NoSelfInv /\ ValsInv
  BY DEF IInv
<1>2. /\ pc[p] = "idle" /\ call[p] < Calls
      /\ call' = [call EXCEPT ![p] = @ + 1]
      /\ vals' = [vals EXCEPT ![p] = [x \in Idx |-> Share(p)]]
      /\ Send(p, msgs)
      /\ pc' = [pc EXCEPT ![p] = "collect"]
      /\ k'  = [k EXCEPT ![p] = FirstPeer(p)]
  <2>1. {q \in Others(p) : HasValues(q)} = Others(p)
    BY NoEmptyBlock DEF Others
  <2> QED BY <2>1 DEF SendShares, ShareMsg
<1>3. call[p] \in Nat /\ call[p] + 1 \in Nat \ {0}
  BY <1>1 DEF TypeOK
<1>4. \A q \in Others(p) : msgs[q] \in Msg
  BY <1>3, DataFacts DEF ShareMsg, Msg, Others
<1> HIDE DEF msgs
<1>5. /\ NetTypeOK(Msg)'
      /\ NetOK'
      /\ read' = read
      /\ \A q \in Others(p) : log'[p][q] = Append(log[p][q], msgs[q])
      /\ log'[p][p] = log[p][p]
      /\ \A r \in Parties : r # p => log'[r] = log[r]
  <2>1. DOMAIN msgs = Others(p) /\ DOMAIN msgs \subseteq Others(p)
    BY DEF msgs
  <2>2. \A q \in DOMAIN msgs : msgs[q] \in Msg
    BY <1>4, <2>1
  <2>3. /\ NetTypeOK(Msg)' /\ NetOK' /\ read' = read
        /\ \A q \in DOMAIN msgs : log'[p][q] = Append(log[p][q], msgs[q])
        /\ \A q \in Parties : q \notin DOMAIN msgs => log'[p][q] = log[p][q]
        /\ \A r \in Parties : r # p => log'[r] = log[r]
    BY <1>1, <1>2, <2>1, <2>2, SendFacts DEF TypeOK
  <2> QED BY <2>1, <2>3 DEF Others
<1>6. TypeOK'
  BY <1>1, <1>2, <1>5, FirstPeerFacts DEF TypeOK, Share
<1>7. ControlInv'
  BY <1>1, <1>2, <1>3, FirstPeerFacts DEF ControlInv, TypeOK
<1>8. \A r \in Parties : r # p => pc'[r] = pc[r] /\ call'[r] = call[r] /\ k'[r] = k[r] /\ vals'[r] = vals[r]
  BY <1>1, <1>2 DEF TypeOK
<1>9. pc'[p] = "collect" /\ call'[p] = call[p] + 1 /\ k'[p] = FirstPeer(p) /\ vals'[p] = [x \in Idx |-> Share(p)]
  BY <1>1, <1>2 DEF TypeOK
<1>10. StreamInv'
  <2>1. SUFFICES ASSUME NEW a \in Parties, NEW b \in Others(a)
                 PROVE  Len(log'[a][b]) = NSent(a)' /\ read'[b][a] = NRead(a, b)'
    BY DEF StreamInv
  <2>2. CASE a = p
    <3>1. Len(log'[a][b]) = Len(log[a][b]) + 1
      <4>1. log[p][b] \in Seq(Msg) /\ msgs[b] \in Msg /\ log'[p][b] = Append(log[p][b], msgs[b])
        BY <1>1, <1>4, <1>5, <2>2 DEF TypeOK, NetTypeOK, Others
      <4> QED BY <2>2, <4>1, AppendFacts
    <3>2. Len(log[a][b]) = 2 * call[p] /\ read[b][a] = 2 * call[p]
      BY <1>1, <1>2, <2>2 DEF StreamInv, NSent, NRead
    <3>3. ~(b < FirstPeer(p))
      BY <2>2, FirstPeerFacts
    <3> QED BY <1>3, <1>5, <1>9, <2>2, <3>1, <3>2, <3>3, SMTT(60) DEF NSent, NRead
  <2>3. CASE a # p
    BY <1>1, <1>5, <1>8, <2>3, ZenonT(60) DEF StreamInv, NSent, NRead
  <2> QED BY <2>2, <2>3
<1>11. ContentInv'
  <2>1. SUFFICES ASSUME NEW a \in Parties, NEW b \in Others(a), NEW c \in Nat \ {0}
                 PROVE  /\ 2 * c - 1 <= Len(log'[a][b]) => log'[a][b][2 * c - 1] = ShareMsg(a, b, c)
                        /\ 2 * c <= Len(log'[a][b])     => log'[a][b][2 * c] = SumMsg(a, c)
    BY DEF ContentInv, ShareMsg, SumMsg
  <2>2. CASE a = p
    <3>1. Len(log[a][b]) = 2 * call[p]
      BY <1>1, <1>2, <2>2 DEF StreamInv, NSent
    <3>2. log[a][b] \in Seq(Msg) /\ msgs[b] \in Msg /\ log'[a][b] = Append(log[a][b], msgs[b])
      BY <1>1, <1>4, <1>5, <2>2 DEF TypeOK, NetTypeOK, Others
    <3>3. msgs[b] = ShareMsg(p, b, call[p] + 1)
      BY <2>2 DEF msgs
    <3>4. /\ 2 * c - 1 <= Len(log[a][b]) => log[a][b][2 * c - 1] = ShareMsg(a, b, c)
          /\ 2 * c <= Len(log[a][b])     => log[a][b][2 * c] = SumMsg(a, c)
      BY <1>1 DEF ContentInv
    <3>5. /\ Len(log'[a][b]) = 2 * call[p] + 1
          /\ \A i \in 1..(2 * call[p]) : log'[a][b][i] = log[a][b][i]
          /\ log'[a][b][2 * call[p] + 1] = ShareMsg(a, b, call[p] + 1)
      BY <2>2, <3>1, <3>2, <3>3, AppendFacts
    <3>6. CASE c <= call[p]
      <4>1. 2 * c - 1 \in 1..(2 * call[p]) /\ 2 * c \in 1..(2 * call[p])
        BY <1>3, <3>6
      <4>2. log'[a][b][2 * c - 1] = log[a][b][2 * c - 1] /\ log'[a][b][2 * c] = log[a][b][2 * c]
        BY <3>5, <4>1
      <4>3. 2 * c - 1 <= Len(log[a][b]) /\ 2 * c <= Len(log[a][b])
        BY <3>1, <4>1
      <4> QED BY <3>4, <4>2, <4>3
    <3>7. CASE c = call[p] + 1
      <4>1. 2 * c - 1 = 2 * call[p] + 1 /\ ~(2 * c <= 2 * call[p] + 1)
        BY <1>3, <3>7
      <4> QED BY <3>5, <3>7, <4>1
    <3>8. CASE c > call[p] + 1
      BY <1>3, <3>5, <3>8
    <3> QED BY <1>3, <3>6, <3>7, <3>8
  <2>3. CASE a # p
    BY <1>1, <1>5, <2>3 DEF ContentInv
  <2> QED BY <2>2, <2>3
<1>12. NoSelfInv'
  BY <1>1, <1>5 DEF NoSelfInv
<1>13. ValsInv'
  <2>1. SUFFICES ASSUME NEW a \in Parties, NEW x \in Idx
                 PROVE  /\ pc'[a] = "collect" =>
                             vals'[a][x] = IF x \in Block(a) THEN Absorbed(a, k'[a]) ELSE Share(a)
                        /\ pc'[a] = "receive" =>
                             \A j \in Parties : x \in Block(j) /\ (j = a \/ j < k'[a]) => vals'[a][x] = Sum
                        /\ pc'[a] = "idle" /\ call'[a] > 0 => vals'[a][x] = Sum
    BY DEF ValsInv, Absorbed, Share, Sum, Block
  <2>2. CASE a = p
    <3>1. Absorbed(p, FirstPeer(p)) = Share(p)
      BY FirstPeerFacts DEF Absorbed, Share, Others
    <3> QED BY <1>9, <2>2, <3>1
  <2>3. CASE a # p
    BY <1>1, <1>8, <2>3 DEF ValsInv
  <2> QED BY <2>2, <2>3
<1> QED BY <1>5, <1>6, <1>7, <1>10, <1>11, <1>12, <1>13 DEF IInv

(* A recv only moves the read cursor of one stream, over a flushed message. *)
LEMMA ConsumeFacts ==
  ASSUME TypeOK, NetOK, NEW p \in Parties, NEW j \in Others(p),
         Arrived(p, j), Consume(p, j)
  PROVE  /\ NetTypeOK(Msg)'
         /\ NetOK'
         /\ log' = log
         /\ read'[j][p] = read[j][p] + 1
         /\ \A a \in Parties, b \in Parties : ~(a = p /\ b = j) => read'[b][a] = read[b][a]
         /\ read[j][p] + 1 <= Len(log[j][p])
         /\ NextMsg(p, j) = log[j][p][read[j][p] + 1]
<1> USE PkingAssumption DEF Others
<1>1. read' = [read EXCEPT ![j][p] = @ + 1] /\ log' = log /\ flushed' = flushed
  BY DEF Consume
<1>2. read[j][p] < flushed[j][p] /\ flushed[j][p] <= Len(log[j][p])
  BY DEF Arrived, NetOK
<1>3. read'[j][p] = read[j][p] + 1
      /\ \A a \in Parties, b \in Parties : ~(a = p /\ b = j) => read'[b][a] = read[b][a]
  BY <1>1 DEF TypeOK, NetTypeOK
<1>4. NetTypeOK(Msg)'
  <2>1. read \in [Procs -> [Procs -> Nat]]
    BY DEF TypeOK, NetTypeOK
  <2>2. read' \in [Procs -> [Procs -> Nat]]
    BY <1>1, <2>1
  <2> QED BY <1>1, <2>2 DEF TypeOK, NetTypeOK
<1>5. NetOK'
  <2>1. SUFFICES ASSUME NEW r \in Parties, NEW q \in Parties
                 PROVE  read'[r][q] <= flushed'[r][q] /\ flushed'[r][q] <= Len(log'[r][q])
    BY DEF NetOK
  <2>2. CASE r = j /\ q = p
    BY <2>2, <1>1, <1>2, <1>3, SMTT(60) DEF NetOK, TypeOK, NetTypeOK
  <2>3. CASE ~(r = j /\ q = p)
    BY <2>3, <1>1, <1>3 DEF NetOK, TypeOK, NetTypeOK
  <2> QED BY <2>2, <2>3
<1>6. read[j][p] + 1 <= Len(log[j][p])
  BY <1>2, SMTT(60) DEF TypeOK, NetTypeOK
<1> QED BY <1>1, <1>3, <1>4, <1>5, <1>6 DEF NextMsg

(* A party in one of the loops has started a call, and is not at itself.    *)
LEMMA ActiveCall ==
  ASSUME TypeOK, ControlInv, NEW p \in Parties, pc[p] # "idle"
  PROVE  call[p] \in Nat \ {0} /\ k[p] # p
<1>1. call[p] \in Nat
  BY DEF TypeOK
<1>2. call[p] > 0 /\ k[p] # p
  BY DEF ControlInv
<1> QED BY <1>1, <1>2

(* How much p has read from j, when j is the peer its loop has come to.    *)
LEMMA ReadSoFar ==
  ASSUME StreamInv, NEW p \in Parties, NEW j \in Others(p), k[p] = j
  PROVE  /\ pc[p] = "collect" => read[j][p] = 2 * call[p] - 2 + 0
         /\ pc[p] = "receive" => read[j][p] = 2 * call[p] - 1 + 0
<1>1. read[j][p] = NRead(p, j)
  BY DEF StreamInv
<1>2. ~(j < j)
  BY PkingAssumption DEF Others, Parties
<1> QED BY <1>1, <1>2 DEF NRead

(* What the next message of the stream is, in either loop.                 *)
LEMMA NextMessage ==
  ASSUME IInv, NEW p \in Parties, NEW j \in Others(p), k[p] = j, Arrived(p, j)
  PROVE  /\ pc[p] = "collect" => NextMsg(p, j) = ShareMsg(j, p, call[p])
         /\ pc[p] = "receive" => NextMsg(p, j) = SumMsg(j, call[p])
<1> USE PkingAssumption DEF Others
<1>1. TypeOK /\ NetOK /\ ControlInv /\ StreamInv /\ ContentInv
  BY DEF IInv
<1>2. read[j][p] + 1 <= Len(log[j][p]) /\ NextMsg(p, j) = log[j][p][read[j][p] + 1]
  BY <1>1, SMTT(60) DEF Arrived, NetOK, NextMsg, TypeOK, NetTypeOK
<1>3. CASE pc[p] = "collect"
  <2>1. call[p] \in Nat \ {0}
    BY <1>1, <1>3, ActiveCall
  <2>2. read[j][p] = 2 * call[p] - 2 + 0
    BY <1>1, <1>3, ReadSoFar
  <2>3. read[j][p] + 1 = 2 * call[p] - 1
    BY <2>1, <2>2
  <2> QED BY <1>1, <1>2, <1>3, <2>1, <2>3 DEF ContentInv
<1>4. CASE pc[p] = "receive"
  <2>1. call[p] \in Nat \ {0}
    BY <1>1, <1>4, ActiveCall
  <2>2. read[j][p] = 2 * call[p] - 1 + 0
    BY <1>1, <1>4, ReadSoFar
  <2>3. read[j][p] + 1 = 2 * call[p]
    BY <2>1, <2>2
  <2> QED BY <1>1, <1>2, <1>4, <2>1, <2>3 DEF ContentInv
<1> QED BY <1>3, <1>4

(* Adding a provider's shares keeps the invariant.                          *)
LEMMA CollectIInv ==
  ASSUME NumVals >= nP, IInv, NEW p \in Parties, Collect(p)
  PROVE  IInv'
<1> USE PkingAssumption
<1> DEFINE j == k[p]
<1>1. TypeOK /\ NetOK /\ ControlInv /\ StreamInv /\ ContentInv /\ NoSelfInv /\ ValsInv
  BY DEF IInv
<1>2. /\ pc[p] = "collect" /\ j \in Parties /\ Arrived(p, j) /\ Consume(p, j)
      /\ k' = [k EXCEPT ![p] = PeerAfter(p, j)]
      /\ pc' = pc /\ call' = call
  BY NoEmptyBlock DEF Collect, RecvBlock
<1>3. j \in Others(p) /\ call[p] \in Nat \ {0}
  BY <1>1, <1>2 DEF ControlInv, Others, TypeOK
<1>4. NextMsg(p, j) = ShareMsg(j, p, call[p])
  BY <1>2, <1>3, NextMessage
<1>5. vals' = [vals EXCEPT ![p] = [x \in Idx |->
         IF x \in Block(p) THEN Plus(vals[p][x], Share(j)) ELSE vals[p][x]]]
  <2>1. vals' = [vals EXCEPT ![p] = [x \in Idx |->
         IF x \in Block(p) THEN Plus(vals[p][x], NextMsg(p, j).data[x]) ELSE vals[p][x]]]
    BY NoEmptyBlock DEF Collect, RecvBlock
  <2>2. \A x \in Block(p) : NextMsg(p, j).data[x] = Share(j)
    BY <1>4 DEF ShareMsg
  <2> QED BY <2>1, <2>2
<1> HIDE DEF j
<1>6. /\ NetTypeOK(Msg)'
      /\ NetOK'
      /\ log' = log
      /\ read'[j][p] = read[j][p] + 1
      /\ \A a \in Parties, b \in Parties : ~(a = p /\ b = j) => read'[b][a] = read[b][a]
  BY <1>1, <1>2, <1>3, ConsumeFacts
<1>7. \A v, w \in [Parties -> Nat] : Plus(v, w) \in [Parties -> Nat]
  BY DEF Plus
<1>8. Share(j) \in [Parties -> Nat]
  BY DEF Share
<1>9. vals' \in [Parties -> [Idx -> [Parties -> Nat]]]
  BY <1>1, <1>5, <1>7, <1>8 DEF TypeOK
<1>10. TypeOK'
  BY <1>1, <1>2, <1>3, <1>6, <1>9, PeerAfterFacts DEF TypeOK
<1>11. ControlInv'
  BY <1>1, <1>2, <1>3, PeerAfterFacts DEF ControlInv, TypeOK
<1>12. \A r \in Parties : r # p => k'[r] = k[r] /\ vals'[r] = vals[r]
  BY <1>1, <1>2, <1>5 DEF TypeOK
<1>13. k'[p] = PeerAfter(p, j)
  BY <1>1, <1>2 DEF TypeOK
<1>14. StreamInv'
  <2>1. SUFFICES ASSUME NEW a \in Parties, NEW b \in Others(a)
                 PROVE  Len(log'[a][b]) = NSent(a)' /\ read'[b][a] = NRead(a, b)'
    BY DEF StreamInv
  <2>2. Len(log'[a][b]) = NSent(a)'
    BY <1>1, <1>2, <1>6 DEF StreamInv, NSent
  <2>3. CASE a = p
    <3>1. b < PeerAfter(p, j) <=> (b < j \/ b = j)
      BY <1>3, <2>3, PeerAfterFacts
    <3>2. read[b][p] = 2 * call[p] - 2 + (IF b < j THEN 1 ELSE 0)
      BY <1>1, <1>2, <2>3 DEF StreamInv, NRead, j
    <3>3. NRead(a, b)' = 2 * call[p] - 2 + (IF b < j \/ b = j THEN 1 ELSE 0)
      BY <1>2, <1>13, <2>3, <3>1 DEF NRead
    <3>4. CASE b = j
      <4>1. ~(b < j) /\ read'[b][p] = read[b][p] + 1
        BY <1>3, <1>6, <3>4, PkingAssumption DEF Others, Parties
      <4> QED BY <1>3, <2>2, <2>3, <3>2, <3>3, <3>4, <4>1
    <3>5. CASE b # j
      <4>1. read'[b][p] = read[b][p]
        BY <1>6, <2>3, <3>5 DEF Others
      <4> QED BY <2>2, <2>3, <3>2, <3>3, <3>5, <4>1
    <3> QED BY <3>4, <3>5
  <2>4. CASE a # p
    <3>1. read'[b][a] = read[b][a]
      BY <1>6, <2>4 DEF Others
    <3>2. NRead(a, b)' = NRead(a, b)
      BY <1>2, <1>12, <2>4 DEF NRead
    <3>3. read[b][a] = NRead(a, b)
      BY <1>1 DEF StreamInv
    <3> QED BY <2>2, <3>1, <3>2, <3>3
  <2> QED BY <2>3, <2>4
<1>15. ContentInv' /\ NoSelfInv'
  BY <1>1, <1>6 DEF ContentInv, NoSelfInv, ShareMsg, SumMsg
<1>16. ValsInv'
  <2>1. SUFFICES ASSUME NEW a \in Parties, NEW x \in Idx
                 PROVE  /\ pc'[a] = "collect" =>
                             vals'[a][x] = IF x \in Block(a) THEN Absorbed(a, k'[a]) ELSE Share(a)
                        /\ pc'[a] = "receive" =>
                             \A i \in Parties : x \in Block(i) /\ (i = a \/ i < k'[a]) => vals'[a][x] = Sum
                        /\ pc'[a] = "idle" /\ call'[a] > 0 => vals'[a][x] = Sum
    BY DEF ValsInv, Absorbed, Share, Sum, Block
  <2>2. CASE a = p
    <3>1. vals[p][x] = IF x \in Block(p) THEN Absorbed(p, j) ELSE Share(p)
      BY <1>1, <1>2 DEF ValsInv, j
    <3>2. vals'[p][x] = IF x \in Block(p) THEN Plus(vals[p][x], Share(j)) ELSE vals[p][x]
      BY <1>1, <1>5 DEF TypeOK
    <3>3. Plus(Absorbed(p, j), Share(j)) = Absorbed(p, PeerAfter(p, j))
      <4>1. \A s \in Parties : Absorbed(p, j)[s] + Share(j)[s] = Absorbed(p, PeerAfter(p, j))[s]
        <5>1. SUFFICES ASSUME NEW s \in Parties
                       PROVE  Absorbed(p, j)[s] + Share(j)[s] = Absorbed(p, PeerAfter(p, j))[s]
          OBVIOUS
        <5>2. CASE s = p
          BY <1>3, <5>2 DEF Absorbed, Share, Others
        <5>3. CASE s = j
          BY <1>3, <5>3, PeerAfterFacts, PkingAssumption DEF Absorbed, Share, Others, Parties
        <5>4. CASE s # p /\ s # j
          <6>1. s < PeerAfter(p, j) <=> s < j
            BY <1>3, <5>4, PeerAfterFacts DEF Others
          <6> QED BY <5>4, <6>1 DEF Absorbed, Share
        <5> QED BY <5>2, <5>3, <5>4
      <4> QED BY <4>1 DEF Plus, Absorbed
    <3> QED BY <1>2, <1>13, <2>2, <3>1, <3>2, <3>3
  <2>3. CASE a # p
    BY <1>1, <1>2, <1>12, <2>3 DEF ValsInv
  <2> QED BY <2>2, <2>3
<1> QED BY <1>6, <1>10, <1>11, <1>14, <1>15, <1>16 DEF IInv

(* At the end of the collecting loop the king has everybody's shares.      *)
LEMMA AbsorbedAll ==
  ASSUME NEW p \in Parties, NEW j \in 1..(nP + 1), j > nP
  PROVE  Absorbed(p, j) = Sum
BY LoopEnd DEF Absorbed, Sum

(* Sending the sums of the own block keeps the invariant.                   *)
LEMMA DistributeIInv ==
  ASSUME NumVals >= nP, IInv, NEW p \in Parties, Distribute(p)
  PROVE  IInv'
<1> USE PkingAssumption
<1> DEFINE msgs == [receiver \in Others(p) |-> SumMsg(p, call[p])]
<1>1. TypeOK /\ NetOK /\ ControlInv /\ StreamInv /\ ContentInv /\ NoSelfInv /\ ValsInv
  BY DEF IInv
<1>2. /\ pc[p] = "collect" /\ k[p] > nP
      /\ pc' = [pc EXCEPT ![p] = "receive"]
      /\ k'  = [k EXCEPT ![p] = FirstPeer(p)]
      /\ vals' = vals /\ call' = call
  BY DEF Distribute
<1>3. call[p] \in Nat \ {0} /\ k[p] \in 1..(nP + 1)
  BY <1>1, <1>2, ActiveCall DEF TypeOK
<1>4. \A x \in Block(p) : x \in Idx /\ vals[p][x] = Sum
  BY <1>1, <1>2, <1>3, AbsorbedAll DEF ValsInv, Block
<1>5. Restricted(vals[p], Block(p)) = [x \in Block(p) |-> Sum]
  BY <1>4 DEF Restricted
<1>6. Send(p, msgs)
  <2>1. Send(p, [receiver \in Others(p) |->
                [call |-> call[p], kind |-> "sum", data |-> Restricted(vals[p], Block(p))]])
    <3>1. {q \in Others(p) : HasValues(p)} = Others(p)
      BY NoEmptyBlock
    <3> QED BY <3>1 DEF Distribute
  <2> QED BY <1>5, <2>1 DEF SumMsg
<1>7. \A q \in Others(p) : msgs[q] \in Msg
  BY <1>3, DataFacts DEF SumMsg, Msg, Others
<1> HIDE DEF msgs
<1>8. /\ NetTypeOK(Msg)'
      /\ NetOK'
      /\ read' = read
      /\ \A q \in Others(p) : log'[p][q] = Append(log[p][q], msgs[q])
      /\ log'[p][p] = log[p][p]
      /\ \A r \in Parties : r # p => log'[r] = log[r]
  <2>1. DOMAIN msgs = Others(p) /\ DOMAIN msgs \subseteq Others(p)
    BY DEF msgs
  <2>2. \A q \in DOMAIN msgs : msgs[q] \in Msg
    BY <1>7, <2>1
  <2>3. /\ NetTypeOK(Msg)' /\ NetOK' /\ read' = read
        /\ \A q \in DOMAIN msgs : log'[p][q] = Append(log[p][q], msgs[q])
        /\ \A q \in Parties : q \notin DOMAIN msgs => log'[p][q] = log[p][q]
        /\ \A r \in Parties : r # p => log'[r] = log[r]
    BY <1>1, <1>6, <2>1, <2>2, SendFacts DEF TypeOK
  <2> QED BY <2>1, <2>3 DEF Others
<1>9. TypeOK'
  BY <1>1, <1>2, <1>8, FirstPeerFacts DEF TypeOK
<1>10. ControlInv'
  BY <1>1, <1>2, <1>3, FirstPeerFacts DEF ControlInv, TypeOK
<1>11. \A r \in Parties : r # p => pc'[r] = pc[r] /\ k'[r] = k[r]
  BY <1>1, <1>2 DEF TypeOK
<1>12. pc'[p] = "receive" /\ k'[p] = FirstPeer(p)
  BY <1>1, <1>2 DEF TypeOK
<1>13. StreamInv'
  <2>1. SUFFICES ASSUME NEW a \in Parties, NEW b \in Others(a)
                 PROVE  Len(log'[a][b]) = NSent(a)' /\ read'[b][a] = NRead(a, b)'
    BY DEF StreamInv
  <2>2. CASE a = p
    <3>1. Len(log'[a][b]) = Len(log[a][b]) + 1
      <4>1. log[p][b] \in Seq(Msg) /\ msgs[b] \in Msg /\ log'[p][b] = Append(log[p][b], msgs[b])
        BY <1>1, <1>7, <1>8, <2>2 DEF TypeOK, NetTypeOK, Others
      <4> QED BY <2>2, <4>1, AppendFacts
    <3>2. Len(log[a][b]) = 2 * call[p] - 1
      BY <1>1, <1>2, <2>2 DEF StreamInv, NSent
    <3>3. b < k[p]
      BY <1>2, <1>3, LoopEnd DEF Others
    <3>4. read[b][a] = 2 * call[p] - 2 + 1
      BY <1>1, <1>2, <2>2, <3>3 DEF StreamInv, NRead
    <3>5. ~(b < FirstPeer(p))
      BY <2>2, FirstPeerFacts
    <3>6. NRead(a, b)' = 2 * call[p] - 1 + 0 /\ NSent(a)' = 2 * call[p]
      BY <1>2, <1>12, <2>2, <3>5 DEF NRead, NSent
    <3> QED BY <1>3, <1>8, <3>1, <3>2, <3>4, <3>6
  <2>3. CASE a # p
    <3>1. log'[a] = log[a] /\ read'[b][a] = read[b][a]
      BY <1>8, <2>3
    <3>2. NSent(a)' = NSent(a) /\ NRead(a, b)' = NRead(a, b)
      BY <1>2, <1>11, <2>3 DEF NSent, NRead
    <3>3. Len(log[a][b]) = NSent(a) /\ read[b][a] = NRead(a, b)
      BY <1>1 DEF StreamInv
    <3> QED BY <3>1, <3>2, <3>3
  <2> QED BY <2>2, <2>3
<1>14. ContentInv'
  <2>1. SUFFICES ASSUME NEW a \in Parties, NEW b \in Others(a), NEW c \in Nat \ {0}
                 PROVE  /\ 2 * c - 1 <= Len(log'[a][b]) => log'[a][b][2 * c - 1] = ShareMsg(a, b, c)
                        /\ 2 * c <= Len(log'[a][b])     => log'[a][b][2 * c] = SumMsg(a, c)
    BY DEF ContentInv, ShareMsg, SumMsg
  <2>2. CASE a = p
    <3>1. Len(log[a][b]) = 2 * call[p] - 1
      BY <1>1, <1>2, <2>2 DEF StreamInv, NSent
    <3>2. log[a][b] \in Seq(Msg) /\ msgs[b] \in Msg /\ log'[a][b] = Append(log[a][b], msgs[b])
      BY <1>1, <1>7, <1>8, <2>2 DEF TypeOK, NetTypeOK, Others
    <3>3. msgs[b] = SumMsg(p, call[p])
      BY <2>2 DEF msgs
    <3>4. /\ 2 * c - 1 <= Len(log[a][b]) => log[a][b][2 * c - 1] = ShareMsg(a, b, c)
          /\ 2 * c <= Len(log[a][b])     => log[a][b][2 * c] = SumMsg(a, c)
      BY <1>1 DEF ContentInv
    <3>5. /\ Len(log'[a][b]) = 2 * call[p]
          /\ \A i \in 1..(2 * call[p] - 1) : log'[a][b][i] = log[a][b][i]
          /\ log'[a][b][2 * call[p]] = SumMsg(a, call[p])
      <4>1. Len(log[a][b]) + 1 = 2 * call[p]
        BY <1>3, <3>1
      <4> QED BY <2>2, <3>1, <3>2, <3>3, <4>1, AppendFacts
    <3>6. CASE c < call[p]
      <4>1. 2 * c - 1 \in 1..(2 * call[p] - 1) /\ 2 * c \in 1..(2 * call[p] - 1)
        BY <1>3, <3>6
      <4>2. log'[a][b][2 * c - 1] = log[a][b][2 * c - 1] /\ log'[a][b][2 * c] = log[a][b][2 * c]
        BY <3>5, <4>1
      <4>3. 2 * c - 1 <= Len(log[a][b]) /\ 2 * c <= Len(log[a][b])
        BY <3>1, <4>1
      <4> QED BY <3>4, <4>2, <4>3
    <3>7. CASE c = call[p]
      <4>1. 2 * c - 1 \in 1..(2 * call[p] - 1) /\ 2 * c - 1 <= Len(log[a][b])
        BY <1>3, <3>1, <3>7
      <4>2. log'[a][b][2 * c - 1] = log[a][b][2 * c - 1]
        BY <3>5, <4>1
      <4> QED BY <3>4, <3>5, <3>7, <4>1, <4>2
    <3>8. CASE c > call[p]
      BY <1>3, <3>5, <3>8
    <3> QED BY <1>3, <3>6, <3>7, <3>8
  <2>3. CASE a # p
    BY <1>1, <1>8, <2>3 DEF ContentInv
  <2> QED BY <2>2, <2>3
<1>15. NoSelfInv'
  BY <1>1, <1>8 DEF NoSelfInv
<1>16. ValsInv'
  <2>1. SUFFICES ASSUME NEW a \in Parties, NEW x \in Idx
                 PROVE  /\ pc'[a] = "collect" =>
                             vals'[a][x] = IF x \in Block(a) THEN Absorbed(a, k'[a]) ELSE Share(a)
                        /\ pc'[a] = "receive" =>
                             \A i \in Parties : x \in Block(i) /\ (i = a \/ i < k'[a]) => vals'[a][x] = Sum
                        /\ pc'[a] = "idle" /\ call'[a] > 0 => vals'[a][x] = Sum
    BY DEF ValsInv, Absorbed, Share, Sum, Block
  <2>2. CASE a = p
    <3>1. \A i \in Parties : (i = p \/ i < FirstPeer(p)) => i = p
      BY FirstPeerFacts DEF Others
    <3> QED BY <1>2, <1>4, <1>12, <2>2, <3>1
  <2>3. CASE a # p
    BY <1>1, <1>2, <1>11, <2>3 DEF ValsInv
  <2> QED BY <2>2, <2>3
<1> QED BY <1>8, <1>9, <1>10, <1>13, <1>14, <1>15, <1>16 DEF IInv

(* Taking a king's sums keeps the invariant.                                *)
LEMMA ReceiveIInv ==
  ASSUME NumVals >= nP, IInv, NEW p \in Parties, Receive(p)
  PROVE  IInv'
<1> USE PkingAssumption
<1> DEFINE j == k[p]
<1>1. TypeOK /\ NetOK /\ ControlInv /\ StreamInv /\ ContentInv /\ NoSelfInv /\ ValsInv
  BY DEF IInv
<1>2. /\ pc[p] = "receive" /\ j \in Parties /\ Arrived(p, j) /\ Consume(p, j)
      /\ k' = [k EXCEPT ![p] = PeerAfter(p, j)]
      /\ pc' = pc /\ call' = call
  BY NoEmptyBlock DEF Receive, RecvBlock
<1>3. j \in Others(p) /\ call[p] \in Nat \ {0}
  BY <1>1, <1>2, ActiveCall DEF Others
<1>4. NextMsg(p, j) = SumMsg(j, call[p])
  BY <1>2, <1>3, NextMessage
<1>5. vals' = [vals EXCEPT ![p] = [x \in Idx |-> IF x \in Block(j) THEN Sum ELSE vals[p][x]]]
  <2>1. vals' = [vals EXCEPT ![p] = [x \in Idx |->
         IF x \in Block(j) THEN NextMsg(p, j).data[x] ELSE vals[p][x]]]
    BY <1>2, NoEmptyBlock DEF Receive, RecvBlock
  <2>2. \A x \in Block(j) : NextMsg(p, j).data[x] = Sum
    BY <1>4 DEF SumMsg
  <2> QED BY <2>1, <2>2
<1> HIDE DEF j
<1>6. /\ NetTypeOK(Msg)'
      /\ NetOK'
      /\ log' = log
      /\ read'[j][p] = read[j][p] + 1
      /\ \A a \in Parties, b \in Parties : ~(a = p /\ b = j) => read'[b][a] = read[b][a]
  BY <1>1, <1>2, <1>3, ConsumeFacts
<1>7. Sum \in [Parties -> Nat]
  BY DEF Sum
<1>8. vals' \in [Parties -> [Idx -> [Parties -> Nat]]]
  BY <1>1, <1>5, <1>7 DEF TypeOK
<1>9. TypeOK'
  BY <1>1, <1>2, <1>3, <1>6, <1>8, PeerAfterFacts DEF TypeOK
<1>10. ControlInv'
  BY <1>1, <1>2, <1>3, PeerAfterFacts DEF ControlInv, TypeOK
<1>11. \A r \in Parties : r # p => k'[r] = k[r] /\ vals'[r] = vals[r]
  BY <1>1, <1>2, <1>5 DEF TypeOK
<1>12. k'[p] = PeerAfter(p, j)
  BY <1>1, <1>2 DEF TypeOK
<1>13. StreamInv'
  <2>1. SUFFICES ASSUME NEW a \in Parties, NEW b \in Others(a)
                 PROVE  Len(log'[a][b]) = NSent(a)' /\ read'[b][a] = NRead(a, b)'
    BY DEF StreamInv
  <2>2. Len(log'[a][b]) = NSent(a)'
    BY <1>1, <1>2, <1>6 DEF StreamInv, NSent
  <2>3. CASE a = p
    <3>1. b < PeerAfter(p, j) <=> (b < j \/ b = j)
      BY <1>3, <2>3, PeerAfterFacts
    <3>2. read[b][p] = 2 * call[p] - 1 + (IF b < j THEN 1 ELSE 0)
      BY <1>1, <1>2, <2>3 DEF StreamInv, NRead, j
    <3>3. NRead(a, b)' = 2 * call[p] - 1 + (IF b < j \/ b = j THEN 1 ELSE 0)
      BY <1>2, <1>12, <2>3, <3>1 DEF NRead
    <3>4. CASE b = j
      <4>1. ~(b < j) /\ read'[b][p] = read[b][p] + 1
        BY <1>3, <1>6, <3>4, PkingAssumption DEF Others, Parties
      <4> QED BY <1>3, <2>2, <2>3, <3>2, <3>3, <3>4, <4>1
    <3>5. CASE b # j
      <4>1. read'[b][p] = read[b][p]
        BY <1>6, <2>3, <3>5 DEF Others
      <4> QED BY <2>2, <2>3, <3>2, <3>3, <3>5, <4>1
    <3> QED BY <3>4, <3>5
  <2>4. CASE a # p
    <3>1. read'[b][a] = read[b][a]
      BY <1>6, <2>4 DEF Others
    <3>2. NRead(a, b)' = NRead(a, b)
      BY <1>2, <1>11, <2>4 DEF NRead
    <3>3. read[b][a] = NRead(a, b)
      BY <1>1 DEF StreamInv
    <3> QED BY <2>2, <3>1, <3>2, <3>3
  <2> QED BY <2>3, <2>4
<1>14. ContentInv' /\ NoSelfInv'
  BY <1>1, <1>6 DEF ContentInv, NoSelfInv, ShareMsg, SumMsg
<1>15. ValsInv'
  <2>1. SUFFICES ASSUME NEW a \in Parties, NEW x \in Idx
                 PROVE  /\ pc'[a] = "collect" =>
                             vals'[a][x] = IF x \in Block(a) THEN Absorbed(a, k'[a]) ELSE Share(a)
                        /\ pc'[a] = "receive" =>
                             \A i \in Parties : x \in Block(i) /\ (i = a \/ i < k'[a]) => vals'[a][x] = Sum
                        /\ pc'[a] = "idle" /\ call'[a] > 0 => vals'[a][x] = Sum
    BY DEF ValsInv, Absorbed, Share, Sum, Block
  <2>2. CASE a = p
    <3>1. \A i \in Parties : x \in Block(i) /\ (i = p \/ i < j) => vals[p][x] = Sum
      BY <1>1, <1>2 DEF ValsInv, j
    <3>2. vals'[p][x] = IF x \in Block(j) THEN Sum ELSE vals[p][x]
      BY <1>1, <1>5 DEF TypeOK
    <3>3. \A i \in Parties : (i = p \/ i < PeerAfter(p, j)) => (i = p \/ i < j \/ i = j)
      BY <1>3, PeerAfterFacts DEF Others
    <3> QED BY <1>2, <1>12, <2>2, <3>1, <3>2, <3>3
  <2>3. CASE a # p
    BY <1>1, <1>2, <1>11, <2>3 DEF ValsInv
  <2> QED BY <2>2, <2>3
<1> QED BY <1>6, <1>9, <1>10, <1>13, <1>14, <1>15 DEF IInv

(* The end of a call keeps the invariant.                                   *)
LEMMA ReturnIInv ==
  ASSUME IInv, NEW p \in Parties, Return(p)
  PROVE  IInv'
<1> USE PkingAssumption
<1>1. TypeOK /\ NetOK /\ ControlInv /\ StreamInv /\ ContentInv /\ NoSelfInv /\ ValsInv
  BY DEF IInv
<1>2. /\ pc[p] = "receive" /\ k[p] > nP
      /\ pc' = [pc EXCEPT ![p] = "idle"]
      /\ k' = k /\ vals' = vals /\ call' = call /\ log' = log /\ flushed' = flushed /\ read' = read
  BY DEF Return, netVars
<1>3. k[p] = nP + 1 /\ call[p] \in Nat \ {0}
  BY <1>1, <1>2, ActiveCall DEF TypeOK
<1>4. pc'[p] = "idle" /\ \A r \in Parties : r # p => pc'[r] = pc[r]
  BY <1>1, <1>2 DEF TypeOK
<1>5. TypeOK' /\ NetOK' /\ ContentInv' /\ NoSelfInv'
  <2>1. NetTypeOK(Msg)'
    BY <1>1, <1>2 DEF TypeOK, NetTypeOK
  <2>2. TypeOK'
    BY <1>1, <1>2, <2>1 DEF TypeOK
  <2>3. NetOK' /\ ContentInv' /\ NoSelfInv'
    BY <1>1, <1>2 DEF NetOK, ContentInv, NoSelfInv, ShareMsg, SumMsg
  <2> QED BY <2>2, <2>3
<1>6. ControlInv'
  BY <1>1, <1>2, <1>3, <1>4 DEF ControlInv
<1>7. StreamInv'
  <2>1. SUFFICES ASSUME NEW a \in Parties, NEW b \in Others(a)
                 PROVE  Len(log'[a][b]) = NSent(a)' /\ read'[b][a] = NRead(a, b)'
    BY DEF StreamInv
  <2>2. Len(log[a][b]) = NSent(a) /\ read[b][a] = NRead(a, b)
    BY <1>1 DEF StreamInv
  <2>3. CASE a = p
    <3>1. b < k[p]
      BY <1>2, <1>3, LoopEnd DEF Others, Parties
    <3>2. NRead(a, b) = 2 * call[p] - 1 + 1 /\ NSent(a) = 2 * call[p]
      BY <1>2, <2>3, <3>1 DEF NRead, NSent
    <3>3. NRead(a, b)' = 2 * call[p] /\ NSent(a)' = 2 * call[p]
      BY <1>2, <1>4, <2>3 DEF NRead, NSent
    <3> QED BY <1>2, <1>3, <2>2, <3>2, <3>3
  <2>4. CASE a # p
    <3>1. NSent(a)' = NSent(a) /\ NRead(a, b)' = NRead(a, b)
      BY <1>2, <1>4, <2>4 DEF NSent, NRead
    <3> QED BY <1>2, <2>2, <3>1
  <2> QED BY <2>3, <2>4
<1>8. ValsInv'
  <2>1. SUFFICES ASSUME NEW a \in Parties, NEW x \in Idx
                 PROVE  /\ pc'[a] = "collect" =>
                             vals'[a][x] = IF x \in Block(a) THEN Absorbed(a, k'[a]) ELSE Share(a)
                        /\ pc'[a] = "receive" =>
                             \A i \in Parties : x \in Block(i) /\ (i = a \/ i < k'[a]) => vals'[a][x] = Sum
                        /\ pc'[a] = "idle" /\ call'[a] > 0 => vals'[a][x] = Sum
    BY DEF ValsInv, Absorbed, Share, Sum, Block
  <2>2. CASE a = p
    <3>1. PICK i \in Parties : x \in Block(i)
      BY BlockCover
    <3>2. i < k[p]
      BY <1>2, <1>3, LoopEnd
    <3>3. vals[p][x] = Sum
      BY <1>1, <1>2, <3>1, <3>2 DEF ValsInv
    <3> QED BY <1>2, <1>4, <2>2, <3>3
  <2>3. CASE a # p
    BY <1>1, <1>2, <1>4, <2>3 DEF ValsInv
  <2> QED BY <2>2, <2>3
<1> QED BY <1>5, <1>6, <1>7, <1>8 DEF IInv

(* The flush of a recv takes nothing from what is known of the streams.     *)
LEMMA FlushFacts ==
  ASSUME TypeOK, NetOK, NEW p \in Parties, RecvFlush(p)
  PROVE  /\ TypeOK' /\ NetOK'
         /\ log' = log /\ read' = read /\ pc' = pc /\ k' = k /\ vals' = vals /\ call' = call
<1> USE PkingAssumption
<1>1. TypeOK /\ NetOK
  OBVIOUS
<1>2. /\ k[p] \in Parties
      /\ flushed' = [flushed EXCEPT ![p][k[p]] = Len(log[p][k[p]])]
      /\ log' = log /\ read' = read /\ pc' = pc /\ k' = k /\ vals' = vals /\ call' = call
  BY DEF RecvFlush, FlushTo
<1>3. TypeOK'
  <2>1. Len(log[p][k[p]]) \in Nat
    BY <1>1, <1>2 DEF TypeOK, NetTypeOK
  <2>2. flushed' \in [Procs -> [Procs -> Nat]]
    BY <1>1, <1>2, <2>1 DEF TypeOK, NetTypeOK
  <2>3. NetTypeOK(Msg)'
    BY <1>1, <1>2, <2>2 DEF TypeOK, NetTypeOK
  <2> QED BY <1>1, <1>2, <2>3 DEF TypeOK
<1>4. NetOK'
  <2>1. SUFFICES ASSUME NEW a \in Parties, NEW b \in Parties
                 PROVE  read'[a][b] <= flushed'[a][b] /\ flushed'[a][b] <= Len(log'[a][b])
    BY DEF NetOK
  <2>2. flushed'[a][b] = flushed[a][b] \/ flushed'[a][b] = Len(log[a][b])
    BY <1>1, <1>2 DEF TypeOK, NetTypeOK
  <2>3. /\ read[a][b] \in Nat /\ flushed[a][b] \in Nat /\ Len(log[a][b]) \in Nat
        /\ read[a][b] <= flushed[a][b] /\ flushed[a][b] <= Len(log[a][b])
    BY <1>1 DEF NetOK, TypeOK, NetTypeOK
  <2> QED BY <1>2, <2>2, <2>3
<1> QED BY <1>2, <1>3, <1>4

(* It keeps the invariant.                                                  *)
LEMMA RecvFlushIInv ==
  ASSUME IInv, NEW p \in Parties, RecvFlush(p)
  PROVE  IInv'
<1>1. TypeOK /\ NetOK /\ ControlInv /\ StreamInv /\ ContentInv /\ NoSelfInv /\ ValsInv
  BY DEF IInv
<1>2. /\ TypeOK' /\ NetOK'
      /\ log' = log /\ read' = read /\ pc' = pc /\ k' = k /\ vals' = vals /\ call' = call
  BY <1>1, FlushFacts
<1>3. ControlInv' /\ StreamInv' /\ NoSelfInv'
  BY <1>1, <1>2 DEF ControlInv, StreamInv, NoSelfInv, NSent, NRead
<1>4. ContentInv' /\ ValsInv'
  BY <1>1, <1>2 DEF ContentInv, ValsInv, ShareMsg, SumMsg, Absorbed
<1> QED BY <1>2, <1>3, <1>4 DEF IInv

(* Every step of every party keeps the invariant.                           *)
LEMMA NextIInv == ASSUME NumVals >= nP PROVE IInv /\ [Next]_vars => IInv'
<1> SUFFICES ASSUME IInv, [Next]_vars PROVE IInv'
  OBVIOUS
<1>1. ASSUME NEW p \in Parties, Step(p) PROVE IInv'
  BY <1>1, SendSharesIInv, CollectIInv, DistributeIInv, ReceiveIInv, ReturnIInv, RecvFlushIInv
  DEF Step
<1>2. CASE UNCHANGED vars
  <2>1. NetTypeOK(Msg)'
    BY <1>2 DEF IInv, TypeOK, NetTypeOK, vars, netVars
  <2>2. TypeOK' /\ NetOK' /\ NoSelfInv' /\ ControlInv'
    BY <1>2, <2>1 DEF IInv, TypeOK, NetOK, NoSelfInv, ControlInv, vars, netVars
  <2>3. StreamInv'
    BY <1>2 DEF IInv, StreamInv, NSent, NRead, vars, netVars
  <2>4. ContentInv' /\ ValsInv'
    BY <1>2 DEF IInv, ContentInv, ValsInv, ShareMsg, SumMsg, Absorbed, vars, netVars
  <2> QED BY <2>2, <2>3, <2>4 DEF IInv
<1> QED BY <1>1, <1>2 DEF Next

(* Hence the invariant holds in every reachable state.                      *)
LEMMA Invariance == ASSUME NumVals >= nP PROVE Spec => []IInv
BY InitIInv, NextIInv, PTL DEF Spec

-----------------------------------------------------------------------------
(* Every reconstruction ends, at every party and at every index, with each *)
(* share added exactly once (semi_evaluator.cpp:464).                      *)
LEMMA AllSums == IInv => Reconstructed
<1>1. SUFFICES ASSUME IInv, NEW p \in Parties, pc[p] = "idle", call[p] > 0
               PROVE  vals[p] = [x \in Idx |-> Sum]
  BY DEF Reconstructed
<1>2. vals[p] \in [Idx -> [Parties -> Nat]]
  BY <1>1 DEF IInv, TypeOK
<1>3. \A x \in Idx : vals[p][x] = Sum
  BY <1>1 DEF IInv, ValsInv
<1> QED BY <1>2, <1>3

(* Every recv finds the message meant for it, whichever party runs ahead   *)
(* (semi_evaluator.cpp:495-541).                                           *)
LEMMA AllFramed == IInv => Framing
<1>1. SUFFICES ASSUME IInv, NEW p \in Parties, pc[p] \in {"collect", "receive"},
                      k[p] \in Parties, Arrived(p, k[p])
               PROVE  /\ NextMsg(p, k[p]).call = call[p]
                      /\ NextMsg(p, k[p]).kind = IF pc[p] = "collect" THEN "share" ELSE "sum"
                      /\ DOMAIN NextMsg(p, k[p]).data = Block(IF pc[p] = "collect" THEN p ELSE k[p])
  BY DEF Framing
<1>2. k[p] \in Others(p)
  BY <1>1, ActiveCall DEF IInv, Others
<1> QED BY <1>1, <1>2, NextMessage DEF ShareMsg, SumMsg

(* The reconstruction is a barrier for any number of parties.              *)
LEMMA NobodyFarAhead == IInv => OneCallAhead
<1>1. SUFFICES ASSUME IInv, NEW p \in Parties, NEW q \in Parties PROVE call[p] <= call[q] + 1
  BY DEF OneCallAhead
<1>2. CASE p = q
  BY <1>1, <1>2 DEF IInv, TypeOK
<1>3. CASE p # q
  <2>1. q \in Others(p) /\ p \in Others(q)
    BY <1>3 DEF Others
  <2>2. read[q][p] = NRead(p, q) /\ Len(log[q][p]) = NSent(q)
    BY <1>1, <2>1 DEF IInv, StreamInv
  <2>3. read[q][p] <= Len(log[q][p])
    BY <1>1, PkingAssumption, SMTT(60) DEF IInv, NetOK, TypeOK, NetTypeOK
  <2>4. call[p] \in Nat /\ call[q] \in Nat /\ pc[p] \in {"idle", "collect", "receive"}
    BY <1>1 DEF IInv, TypeOK
  <2>5. NRead(p, q) >= 2 * call[p] - 2
    BY <2>4 DEF NRead
  <2>6. NSent(q) <= 2 * call[q]
    BY <2>4 DEF NSent
  <2>7. NRead(p, q) \in Int /\ NSent(q) \in Int
    BY <2>4 DEF NRead, NSent
  <2> QED BY <2>2, <2>3, <2>4, <2>5, <2>6, <2>7
<1> QED BY <1>2, <1>3

(* With cp and cq calls, a party that has sent sp messages and read rp of  *)
(* the sq ones of the other is at most two ahead of the other's reads.     *)
LEMMA TwoAhead ==
  ASSUME NEW cp \in Nat, NEW cq \in Nat, NEW sp \in Int, NEW sq \in Int,
         NEW rp \in Int, NEW rq \in Int, rp <= sq,
         (sp = 2 * cp - 1 /\ rp >= 2 * cp - 2) \/ (sp = 2 * cp /\ rp >= 2 * cp - 1),
         (sq = 2 * cq - 1 /\ rq >= 2 * cq - 2) \/ (sq = 2 * cq /\ rq >= 2 * cq - 1)
  PROVE  sp - rq <= 2
<1>1. CASE sp = 2 * cp - 1 /\ rp >= 2 * cp - 2
  BY <1>1
<1>2. CASE sp = 2 * cp /\ rp >= 2 * cp - 1
  BY <1>2
<1> QED BY <1>1, <1>2

(* A stream never holds more than two messages its reader has not taken,   *)
(* for any number of parties and of calls.                                 *)
LEMMA NoBacklog == IInv => BoundedBacklog
<1>1. SUFFICES ASSUME IInv, NEW p \in Parties, NEW q \in Parties
               PROVE Len(log[p][q]) - read[p][q] <= 2
  BY DEF BoundedBacklog
<1>2. read[p][q] \in Nat
  BY <1>1, PkingAssumption DEF IInv, TypeOK, NetTypeOK
<1>3. CASE p = q
  <2>1. log[p][q] = << >>
    BY <1>1, <1>3 DEF IInv, NoSelfInv
  <2>2. Len(log[p][q]) = 0
    BY <2>1
  <2> QED BY <1>2, <2>2
<1>4. CASE p # q
  <2>1. q \in Others(p) /\ p \in Others(q)
    BY <1>4 DEF Others
  <2>2. /\ Len(log[p][q]) = NSent(p) /\ read[p][q] = NRead(q, p)
        /\ Len(log[q][p]) = NSent(q) /\ read[q][p] = NRead(p, q)
    BY <1>1, <2>1 DEF IInv, StreamInv
  <2>3. NRead(p, q) <= NSent(q)
    <3>1. /\ read[q][p] <= flushed[q][p] /\ flushed[q][p] <= Len(log[q][p])
          /\ read[q][p] \in Nat /\ flushed[q][p] \in Nat /\ Len(log[q][p]) \in Nat
      BY <1>1, PkingAssumption DEF IInv, NetOK, TypeOK, NetTypeOK
    <3> QED BY <2>2, <3>1
  <2>4. /\ call[p] \in Nat /\ call[q] \in Nat
        /\ pc[p] \in {"idle", "collect", "receive"} /\ pc[q] \in {"idle", "collect", "receive"}
    BY <1>1 DEF IInv, TypeOK
  <2>5. ASSUME NEW r \in {p, q}, NEW s \in {p, q}
        PROVE  /\ NSent(r) \in Int /\ NRead(r, s) \in Int
               /\ \/ NSent(r) = 2 * call[r] - 1 /\ NRead(r, s) >= 2 * call[r] - 2
                  \/ NSent(r) = 2 * call[r] /\ NRead(r, s) >= 2 * call[r] - 1
    <3>1. CASE pc[r] = "idle"
      BY <2>4, <2>5, <3>1 DEF NSent, NRead
    <3>2. CASE pc[r] = "collect"
      BY <2>4, <2>5, <3>2 DEF NSent, NRead
    <3>3. CASE pc[r] = "receive"
      BY <2>4, <2>5, <3>3 DEF NSent, NRead
    <3> QED BY <2>4, <2>5, <3>1, <3>2, <3>3
  <2>6. NSent(p) - NRead(q, p) <= 2
    BY <2>3, <2>4, <2>5, TwoAhead
  <2> QED BY <2>2, <2>6
<1> QED BY <1>3, <1>4

(* Whatever a king has put on a stream as a sum holds every party's share. *)
LEMMA FullSums == IInv => OnlyFullSumsSent
<1>1. SUFFICES ASSUME IInv, NEW p \in Parties, NEW q \in Parties, NEW i \in 1..Len(log[p][q]),
                      log[p][q][i].kind = "sum"
               PROVE log[p][q][i].data = [x \in Block(p) |-> Sum]
  BY DEF OnlyFullSumsSent
<1>2. q \in Others(p)
  <2>1. CASE p = q
    <3>1. log[p][q] = << >>
      BY <1>1, <2>1 DEF IInv, NoSelfInv
    <3>2. Len(log[p][q]) = 0
      BY <3>1
    <3> QED BY <1>1, <3>2
  <2> QED BY <2>1 DEF Others
<1>3. Len(log[p][q]) \in Nat
  BY <1>1, PkingAssumption DEF IInv, TypeOK, NetTypeOK
<1>4. PICK c \in Nat \ {0} : i = 2 * c - 1 \/ i = 2 * c
  <2>1. i \in Nat \ {0}
    BY <1>1, <1>3
  <2>2. i = 2 * ((i + 1) \div 2) - 1 \/ i = 2 * ((i + 1) \div 2)
    BY <2>1, Z3
  <2>3. (i + 1) \div 2 \in Nat \ {0}
    BY <2>1, Z3
  <2> QED BY <2>2, <2>3
<1>5. CASE i = 2 * c - 1
  <2>1. 2 * c - 1 <= Len(log[p][q]) => log[p][q][2 * c - 1] = ShareMsg(p, q, c)
    BY <1>1, <1>2 DEF IInv, ContentInv
  <2>2. log[p][q][i] = ShareMsg(p, q, c)
    BY <1>1, <1>3, <1>5, <2>1
  <2>3. log[p][q][i].kind = "share"
    BY <2>2 DEF ShareMsg
  <2> QED BY <1>1, <2>3
<1>6. CASE i = 2 * c
  <2>1. 2 * c <= Len(log[p][q]) => log[p][q][2 * c] = SumMsg(p, c)
    BY <1>1, <1>2 DEF IInv, ContentInv
  <2>2. log[p][q][i] = SumMsg(p, c)
    BY <1>1, <1>3, <1>6, <2>1
  <2> QED BY <2>2 DEF SumMsg
<1> QED BY <1>4, <1>5, <1>6

-----------------------------------------------------------------------------
(* A party that has come to the end of its second loop has read what every *)
(* other party sent in this call: they have all contributed.               *)
LEMMA EveryoneContributed ==
  ASSUME IInv, NEW p \in Parties, pc[p] = "receive", k[p] > nP, NEW q \in Parties
  PROVE  call[q] >= call[p]
<1>1. CASE p = q
  BY <1>1 DEF IInv, TypeOK
<1>2. CASE p # q
  <2>1. q \in Others(p) /\ p \in Others(q)
    BY <1>2 DEF Others
  <2>2. read[q][p] = NRead(p, q) /\ Len(log[q][p]) = NSent(q) /\ read[q][p] <= Len(log[q][p])
    <3>1. read[q][p] = NRead(p, q) /\ Len(log[q][p]) = NSent(q)
      BY <2>1 DEF IInv, StreamInv
    <3>2. /\ read[q][p] <= flushed[q][p] /\ flushed[q][p] <= Len(log[q][p])
          /\ read[q][p] \in Nat /\ flushed[q][p] \in Nat /\ Len(log[q][p]) \in Nat
      BY PkingAssumption DEF IInv, NetOK, TypeOK, NetTypeOK
    <3> QED BY <3>1, <3>2
  <2>3. call[p] \in Nat /\ call[q] \in Nat
    BY DEF IInv, TypeOK
  <2>4. q < k[p]
    BY LoopEnd DEF IInv, TypeOK
  <2>5. NRead(p, q) = 2 * call[p] - 1 + 1
    BY <2>4 DEF NRead
  <2>6. NSent(q) <= 2 * call[q] /\ NSent(q) \in Int
    BY <2>3 DEF NSent
  <2> QED BY <2>2, <2>3, <2>5, <2>6
<1> QED BY <1>1, <1>2

-----------------------------------------------------------------------------
(* With fewer values than parties, party nP is the P_king of all values:   *)
(* the other parties send it their shares, go through their first loop     *)
(* without waiting for anybody, and wait for it alone in the second.       *)
Clients == Parties \ {nP}

(* Integer division by more than there is leaves nP the remainder: all.    *)
LEMMA LastBlock ==
  ASSUME NumVals < nP
  PROVE  /\ nP \in Parties /\ nP >= 2
         /\ Block(nP) = Idx /\ HasValues(nP)
         /\ \A j \in Clients : Block(j) = {} /\ ~HasValues(j)
<1> USE PkingAssumption DEF Parties, Idx
<1>1. PerPartyComm = 0
  <2>1. nP \in Nat \ {0} /\ NumVals \in Nat /\ NumVals < nP
    OBVIOUS
  <2>2. NumVals \div nP = 0
    BY <2>1, Z3
  <2> QED BY <2>2 DEF PerPartyComm
<1>2. LastPartyComm = NumVals
  BY <1>1, DivisionFacts DEF LastPartyComm
<1>3. \A n \in Int : n * PerPartyComm = 0
  BY <1>1
<1>4. Block(nP) = Idx
  <2>1. Block(nP) = {x \in Idx : 0 <= x /\ x < NumVals}
    BY <1>2, <1>3 DEF Block
  <2> QED BY <2>1
<1>5. 0 \in Idx
  OBVIOUS
<1>6. ASSUME NEW j \in Clients PROVE Block(j) = {}
  <2>1. Block(j) = {x \in Idx : 0 <= x /\ x < 0}
    BY <1>1, <1>3 DEF Block, Clients
  <2> QED BY <2>1
<1> QED BY <1>4, <1>5, <1>6 DEF HasValues

(* The sums that nP has sent to each client.                               *)
SumsSent == IF pc[nP] = "collect" THEN call[nP] - 1 ELSE call[nP]

(* The shares that nP has read of client p, and the sums p has of nP.      *)
SharesRead(p) == IF pc[nP] = "collect" /\ ~(p < k[nP]) THEN call[nP] - 1 ELSE call[nP]
SumsRead(p) == IF pc[p] = "collect" \/ (pc[p] = "receive" /\ k[p] <= nP) THEN call[p] - 1 ELSE call[p]

ClientStreams(p) ==
  /\ Len(log[p][nP]) = call[p] /\ read[p][nP] = SharesRead(p)
  /\ \A c \in 1..call[p] : log[p][nP][c] = ShareMsg(p, nP, c)
  /\ Len(log[nP][p]) = SumsSent /\ read[nP][p] = SumsRead(p)
  /\ \A c \in 1..SumsSent : log[nP][p][c] = SumMsg(nP, c)

SilentStreams ==
  \A p, q \in Parties : (p = q \/ (p \in Clients /\ q \in Clients)) => log[p][q] = << >>

(* What a vector holds at every index: alike at all of them.               *)
FewVals(p, x) ==
  /\ p = nP /\ pc[p] = "collect" => vals[p][x] = Absorbed(p, k[p])
  /\ p = nP /\ pc[p] = "receive" => vals[p][x] = Sum
  /\ p # nP /\ pc[p] = "receive" /\ k[p] > nP => vals[p][x] = Sum
  /\ pc[p] = "idle" /\ call[p] > 0 => vals[p][x] = Sum

(* All of it together is inductive if NumVals < nP.                        *)
FewInv ==
  /\ TypeOK /\ NetOK /\ ControlInv /\ SilentStreams
  /\ \A p \in Clients : ClientStreams(p)
  /\ \A p \in Parties : \A x \in Idx : FewVals(p, x)

(* No call, no message: the invariant of vectors shorter than nP holds.    *)
LEMMA InitFew == NumVals < nP /\ Init => FewInv
<1> SUFFICES ASSUME NumVals < nP, Init PROVE FewInv
  OBVIOUS
<1>1. TypeOK /\ NetOK /\ ControlInv
  BY InitIInv DEF IInv
<1>2. /\ \A p \in Parties : pc[p] = "idle" /\ call[p] = 0
      /\ \A p, q \in Parties : log[p][q] = << >> /\ read[p][q] = 0
  BY PkingAssumption DEF Init, NetInit
<1>3. nP \in Parties
  BY LastBlock
<1>4. ASSUME NEW p \in Clients PROVE ClientStreams(p)
  BY <1>2, <1>3, <1>4 DEF ClientStreams, SharesRead, SumsRead, SumsSent, Clients
<1>5. SilentStreams /\ \A p \in Parties : \A x \in Idx : FewVals(p, x)
  BY <1>2 DEF SilentStreams, FewVals
<1> QED BY <1>1, <1>4, <1>5 DEF FewInv

(* How far one may be ahead of another.                                    *)
LEMMA FewCounts ==
  ASSUME NumVals < nP, FewInv, NEW p \in Clients
  PROVE  /\ p \in Parties /\ nP \in Parties /\ p # nP /\ p < nP
         /\ call[p] \in Nat /\ call[nP] \in Nat
         /\ SumsSent \in Int /\ SharesRead(p) \in Nat /\ SumsRead(p) \in Nat
         /\ SharesRead(p) <= call[p] /\ SumsRead(p) <= SumsSent
         /\ SumsSent <= SharesRead(p) /\ SumsSent <= call[nP]
         /\ SharesRead(p) >= call[nP] - 1 /\ SumsRead(p) >= call[p] - 1
<1>1. p \in Parties /\ nP \in Parties /\ p # nP /\ p < nP
  BY LastBlock, PkingAssumption DEF Clients, Parties
<1>2. call[p] \in Nat /\ call[nP] \in Nat
  BY <1>1 DEF FewInv, TypeOK
<1>3. ClientStreams(p)
  BY DEF FewInv
<1>4. /\ read[p][nP] \in Nat /\ flushed[p][nP] \in Nat /\ Len(log[p][nP]) \in Nat
      /\ read[nP][p] \in Nat /\ flushed[nP][p] \in Nat /\ Len(log[nP][p]) \in Nat
      /\ read[p][nP] <= flushed[p][nP] /\ flushed[p][nP] <= Len(log[p][nP])
      /\ read[nP][p] <= flushed[nP][p] /\ flushed[nP][p] <= Len(log[nP][p])
  BY <1>1, PkingAssumption DEF FewInv, TypeOK, NetTypeOK, NetOK
<1>5. SharesRead(p) <= call[p] /\ SumsRead(p) <= SumsSent
  BY <1>3, <1>4 DEF ClientStreams
<1>6. SumsSent <= SharesRead(p) /\ SumsSent <= call[nP] /\ SharesRead(p) >= call[nP] - 1
      /\ SumsRead(p) >= call[p] - 1 /\ SumsSent \in Int
  BY <1>2 DEF SumsSent, SharesRead, SumsRead
<1> QED BY <1>1, <1>2, <1>3, <1>4, <1>5, <1>6 DEF ClientStreams

(* Every stream between the parties is a client's, in one direction or the *)
(* other, or silent.                                                       *)
LEMMA StreamKinds ==
  ASSUME NEW p \in Parties, NEW q \in Parties
  PROVE  \/ p = q \/ (p \in Clients /\ q \in Clients)
         \/ p \in Clients /\ q = nP
         \/ p = nP /\ q \in Clients
BY DEF Clients

(* The next message, whichever of the two loops waits for it.              *)
LEMMA FewNext ==
  ASSUME NumVals < nP, FewInv, NEW p \in Clients
  PROVE  /\ pc[nP] = "collect" /\ k[nP] = p /\ Arrived(nP, p) => NextMsg(nP, p) = ShareMsg(p, nP, call[nP])
         /\ pc[p] = "receive" /\ k[p] = nP /\ Arrived(p, nP) => NextMsg(p, nP) = SumMsg(nP, call[p])
<1>1. /\ p \in Parties /\ nP \in Parties /\ p # nP
      /\ call[p] \in Nat /\ call[nP] \in Nat /\ SumsSent \in Int
  BY FewCounts
<1>2. ClientStreams(p)
  BY DEF FewInv
<1>3. /\ read[p][nP] \in Nat /\ flushed[p][nP] \in Nat /\ flushed[p][nP] <= Len(log[p][nP])
      /\ read[nP][p] \in Nat /\ flushed[nP][p] \in Nat /\ flushed[nP][p] <= Len(log[nP][p])
  BY <1>1, PkingAssumption DEF FewInv, TypeOK, NetTypeOK, NetOK
<1>4. ASSUME pc[nP] = "collect", k[nP] = p, Arrived(nP, p) PROVE NextMsg(nP, p) = ShareMsg(p, nP, call[nP])
  <2>1. read[p][nP] = call[nP] - 1 /\ read[p][nP] < flushed[p][nP] /\ Len(log[p][nP]) = call[p]
    <3>1. ~(p < k[nP])
      BY <1>1, <1>4, PkingAssumption DEF Parties
    <3> QED BY <1>2, <1>4, <3>1 DEF Arrived, ClientStreams, SharesRead
  <2>2. read[p][nP] + 1 = call[nP] /\ call[nP] \in 1..call[p]
    BY <1>1, <1>3, <2>1
  <2> QED BY <1>2, <2>2 DEF NextMsg, ClientStreams
<1>5. ASSUME pc[p] = "receive", k[p] = nP, Arrived(p, nP) PROVE NextMsg(p, nP) = SumMsg(nP, call[p])
  <2>1. read[nP][p] = call[p] - 1 /\ read[nP][p] < flushed[nP][p] /\ Len(log[nP][p]) = SumsSent
    <3>1. k[p] <= nP
      BY <1>5, PkingAssumption
    <3> QED BY <1>2, <1>5, <3>1 DEF Arrived, ClientStreams, SumsRead
  <2>2. read[nP][p] + 1 = call[p] /\ call[p] \in 1..SumsSent
    BY <1>1, <1>3, <2>1
  <2> QED BY <1>2, <2>2 DEF NextMsg, ClientStreams
<1> QED BY <1>4, <1>5

(* A step of p that neither sends nor reads anything.                       *)
LEMMA FewQuiet ==
  ASSUME NumVals < nP, FewInv, NEW p \in Parties, TypeOK', NetOK', ControlInv',
         \A a, b \in Parties : log'[a][b] = log[a][b] /\ read'[a][b] = read[a][b],
         call' = call, vals' = vals,
         \A r \in Parties : r # p => pc'[r] = pc[r] /\ k'[r] = k[r],
         p = nP => SumsSent' = SumsSent /\ \A a \in Clients : SharesRead(a)' = SharesRead(a),
         p # nP => SumsRead(p)' = SumsRead(p),
         \A x \in Idx : FewVals(p, x)'
  PROVE  FewInv'
<1>1. SilentStreams'
  BY DEF FewInv, SilentStreams
<1>2. ASSUME NEW a \in Clients PROVE ClientStreams(a)'
  <2>1. a \in Parties /\ nP \in Parties /\ a # nP
    BY FewCounts
  <2>2. ClientStreams(a)
    BY DEF FewInv
  <2>3. SumsSent' = SumsSent /\ SharesRead(a)' = SharesRead(a)
    BY <2>1 DEF SumsSent, SharesRead
  <2>4. SumsRead(a)' = SumsRead(a)
    BY <2>1 DEF SumsRead
  <2>5. /\ log'[a][nP] = log[a][nP] /\ read'[a][nP] = read[a][nP] /\ call'[a] = call[a]
        /\ log'[nP][a] = log[nP][a] /\ read'[nP][a] = read[nP][a]
    BY <2>1
  <2> QED BY <2>2, <2>3, <2>4, <2>5 DEF ClientStreams, ShareMsg, SumMsg
<1>3. ASSUME NEW a \in Parties, NEW x \in Idx PROVE FewVals(a, x)'
  <2>1. FewVals(a, x)
    BY DEF FewInv
  <2> QED BY <2>1 DEF FewVals, Absorbed, Sum
<1> QED BY <1>1, <1>2, <1>3 DEF FewInv

(* A step that sends nothing leaves the streams as they are.               *)
LEMMA SendNothing ==
  ASSUME TypeOK, NetOK, NEW p \in Parties, NEW msgs, DOMAIN msgs = {}, Send(p, msgs)
  PROVE  /\ NetTypeOK(Msg)' /\ NetOK'
         /\ \A a, b \in Parties : log'[a][b] = log[a][b] /\ read'[a][b] = read[a][b]
<1>1. DOMAIN msgs \subseteq Others(p) /\ \A q \in DOMAIN msgs : msgs[q] \in Msg
  OBVIOUS
<1>2. /\ NetTypeOK(Msg)' /\ NetOK' /\ read' = read
      /\ \A q \in Parties : q \notin DOMAIN msgs => log'[p][q] = log[p][q]
      /\ \A r \in Parties : r # p => log'[r] = log[r]
  BY <1>1, SendFacts DEF TypeOK
<1> QED BY <1>2

(* A client sends its one message, nP none.                                *)
LEMMA SendSharesFew ==
  ASSUME NumVals < nP, FewInv, NEW p \in Parties, SendShares(p)
  PROVE  FewInv'
<1> USE PkingAssumption
<1> DEFINE msgs == [king \in {q \in Others(p) : HasValues(q)} |-> ShareMsg(p, king, call[p] + 1)]
<1>1. TypeOK /\ NetOK /\ ControlInv
  BY DEF FewInv
<1>2. /\ pc[p] = "idle" /\ call[p] < Calls
      /\ call' = [call EXCEPT ![p] = @ + 1]
      /\ vals' = [vals EXCEPT ![p] = [x \in Idx |-> Share(p)]]
      /\ Send(p, msgs)
      /\ pc' = [pc EXCEPT ![p] = "collect"]
      /\ k'  = [k EXCEPT ![p] = FirstPeer(p)]
  BY DEF SendShares, ShareMsg
<1>3. call[p] \in Nat /\ nP \in Parties /\ nP >= 2
  BY <1>1, LastBlock DEF TypeOK
<1>4. DOMAIN msgs = (IF p = nP THEN {} ELSE {nP}) /\ (p # nP => msgs[nP] = ShareMsg(p, nP, call[p] + 1))
  BY LastBlock, <1>3 DEF Others, Clients
<1>5. DOMAIN msgs \subseteq Others(p) /\ \A q \in DOMAIN msgs : msgs[q] \in Msg
  <2>1. ShareMsg(p, nP, call[p] + 1) \in Msg
    BY <1>3, DataFacts DEF ShareMsg, Msg
  <2> QED BY <1>3, <1>4, <2>1 DEF Others
<1> HIDE DEF msgs
<1>6. /\ NetTypeOK(Msg)' /\ NetOK' /\ read' = read
      /\ \A q \in DOMAIN msgs : log'[p][q] = Append(log[p][q], msgs[q])
      /\ \A q \in Parties : q \notin DOMAIN msgs => log'[p][q] = log[p][q]
      /\ \A r \in Parties : r # p => log'[r] = log[r]
  BY <1>1, <1>2, <1>5, SendFacts DEF TypeOK
<1>7. TypeOK'
  BY <1>1, <1>2, <1>6, FirstPeerFacts DEF TypeOK, Share
<1>8. ControlInv'
  BY <1>1, <1>2, <1>3, FirstPeerFacts DEF ControlInv, TypeOK
<1>9. \A r \in Parties : r # p => pc'[r] = pc[r] /\ call'[r] = call[r] /\ k'[r] = k[r] /\ vals'[r] = vals[r]
  BY <1>1, <1>2 DEF TypeOK
<1>10. pc'[p] = "collect" /\ call'[p] = call[p] + 1 /\ k'[p] = FirstPeer(p) /\ vals'[p] = [x \in Idx |-> Share(p)]
  BY <1>1, <1>2 DEF TypeOK
<1>11. SilentStreams'
  <2> SUFFICES ASSUME NEW a \in Parties, NEW b \in Parties, a = b \/ (a \in Clients /\ b \in Clients)
               PROVE  log'[a][b] = << >>
    BY DEF SilentStreams
  <2>1. log[a][b] = << >>
    BY DEF FewInv, SilentStreams
  <2>2. a = p => b \notin DOMAIN msgs
    BY <1>4 DEF Clients
  <2> QED BY <1>6, <2>1, <2>2
<1>12. ASSUME NEW a \in Clients PROVE ClientStreams(a)'
  <2>1. a \in Parties /\ a # nP
    BY DEF Clients
  <2>2. ClientStreams(a)
    BY DEF FewInv
  <2>3. CASE a = p
    <3>1. SumsSent' = SumsSent /\ SharesRead(a)' = SharesRead(a)
      BY <1>3, <1>9, <2>1, <2>3 DEF SumsSent, SharesRead
    <3>2. SumsRead(a) = call[a] /\ SumsRead(a)' = call[a]
      BY <1>2, <1>3, <1>10, <2>3 DEF SumsRead
    <3>3. log'[nP] = log[nP] /\ read' = read
      BY <1>3, <1>6, <2>1, <2>3
    <3>4. log[a][nP] \in Seq(Msg) /\ log'[a][nP] = Append(log[a][nP], ShareMsg(a, nP, call[a] + 1))
          /\ ShareMsg(a, nP, call[a] + 1) \in Msg
      <4>1. nP \in DOMAIN msgs /\ msgs[nP] = ShareMsg(a, nP, call[a] + 1)
        BY <1>4, <2>1, <2>3
      <4>2. msgs[nP] \in Msg /\ log'[a][nP] = Append(log[a][nP], msgs[nP])
        BY <1>5, <1>6, <2>3, <4>1
      <4>3. log[a][nP] \in Seq(Msg)
        BY <1>1, <1>3, <2>1 DEF TypeOK, NetTypeOK
      <4> QED BY <4>1, <4>2, <4>3
    <3>5. /\ Len(log'[a][nP]) = call[a] + 1 /\ log'[a][nP][call[a] + 1] = ShareMsg(a, nP, call[a] + 1)
          /\ \A c \in 1..call[a] : log'[a][nP][c] = log[a][nP][c]
      BY <2>2, <3>4, AppendFacts DEF ClientStreams
    <3>6. ASSUME NEW c \in 1..(call[a] + 1) PROVE log'[a][nP][c] = ShareMsg(a, nP, c)
      <4>1. c \in 1..call[a] \/ c = call[a] + 1
        BY <1>3, <2>3
      <4> QED BY <2>2, <3>5, <4>1 DEF ClientStreams
    <3>7. /\ Len(log'[a][nP]) = call'[a] /\ read'[a][nP] = SharesRead(a)'
          /\ \A c \in 1..call'[a] : log'[a][nP][c] = ShareMsg(a, nP, c)
      BY <1>10, <2>2, <2>3, <3>1, <3>3, <3>5, <3>6 DEF ClientStreams
    <3>8. Len(log'[nP][a]) = SumsSent' /\ read'[nP][a] = SumsRead(a)'
          /\ \A c \in 1..SumsSent' : log'[nP][a][c] = SumMsg(nP, c)
      BY <2>2, <3>1, <3>2, <3>3 DEF ClientStreams
    <3> QED BY <3>7, <3>8 DEF ClientStreams, ShareMsg, SumMsg
  <2>4. CASE a # p
    <3>1. log'[a][nP] = log[a][nP] /\ log'[nP][a] = log[nP][a] /\ read' = read /\ call'[a] = call[a]
      BY <1>3, <1>4, <1>6, <1>9, <2>1, <2>4
    <3>2. SumsRead(a)' = SumsRead(a)
      BY <1>9, <2>1, <2>4 DEF SumsRead
    <3>3. SumsSent' = SumsSent /\ SharesRead(a)' = SharesRead(a)
      <4>1. CASE p = nP
        <5>1. ~(a < FirstPeer(p))
          BY <2>1, <2>4, FirstPeerFacts DEF Others
        <5> QED BY <1>2, <1>3, <1>10, <4>1, <5>1 DEF SumsSent, SharesRead
      <4>2. CASE p # nP
        BY <1>3, <1>9, <4>2 DEF SumsSent, SharesRead
      <4> QED BY <4>1, <4>2
    <3> QED BY <2>2, <3>1, <3>2, <3>3 DEF ClientStreams, ShareMsg, SumMsg
  <2> QED BY <2>3, <2>4
<1>13. ASSUME NEW a \in Parties, NEW x \in Idx PROVE FewVals(a, x)'
  <2>1. FewVals(a, x)
    BY DEF FewInv
  <2>2. CASE a = p
    <3>1. Absorbed(p, FirstPeer(p)) = Share(p)
      BY FirstPeerFacts DEF Absorbed, Share, Others
    <3>2. vals'[a][x] = Share(p)
      BY <1>10, <2>2
    <3>3. vals'[a][x] = Absorbed(a, k'[a])
      BY <1>10, <2>2, <3>1, <3>2
    <3> QED BY <1>10, <2>2, <3>3 DEF FewVals, Absorbed
  <2>3. CASE a # p
    BY <1>9, <2>1, <2>3 DEF FewVals, Absorbed, Sum
  <2> QED BY <2>2, <2>3
<1> QED BY <1>6, <1>7, <1>8, <1>11, <1>12, <1>13 DEF FewInv

(* A client's first loop passes over all peers, nP's adds a share.         *)
LEMMA CollectFew ==
  ASSUME NumVals < nP, FewInv, NEW p \in Parties, Collect(p)
  PROVE  FewInv'
<1> USE PkingAssumption
<1>1. TypeOK /\ NetOK /\ ControlInv /\ nP \in Parties
  BY LastBlock DEF FewInv
<1>2. /\ pc[p] = "collect" /\ k[p] \in Others(p) /\ call[p] \in Nat \ {0}
      /\ pc' = pc /\ call' = call /\ k' = [k EXCEPT ![p] = PeerAfter(p, @)]
  BY <1>1, ActiveCall DEF Collect, Others
<1>3. k'[p] = PeerAfter(p, k[p]) /\ \A r \in Parties : r # p => k'[r] = k[r]
  BY <1>1, <1>2 DEF TypeOK
<1>4. ControlInv'
  BY <1>1, <1>2, <1>3, PeerAfterFacts DEF ControlInv, TypeOK
<1>5. CASE p # nP
  <2>1. UNCHANGED <<vals, netVars>>
    <3>1. Block(p) = {}
      BY <1>5, LastBlock DEF Clients
    <3> QED BY <3>1 DEF Collect, RecvBlock
  <2>2. TypeOK' /\ NetOK'
    BY <1>1, <1>2, <2>1, PeerAfterFacts DEF TypeOK, NetTypeOK, NetOK, netVars
  <2>3. SumsRead(p)' = SumsRead(p) /\ \A x \in Idx : FewVals(p, x)'
    BY <1>2, <1>5 DEF SumsRead, FewVals
  <2> QED BY <1>2, <1>3, <1>4, <1>5, <2>1, <2>2, <2>3, FewQuiet DEF netVars
<1>6. CASE p = nP
  <2> DEFINE j == k[p]
  <2>1. j \in Clients /\ j \in Parties
    BY <1>2, <1>6 DEF Clients, Others
  <2>2. Arrived(nP, j) /\ Consume(nP, j)
        /\ vals' = [vals EXCEPT ![p] = [x \in Idx |->
             IF x \in Block(p) THEN Plus(vals[p][x], NextMsg(p, j).data[x]) ELSE vals[p][x]]]
    <3>1. Block(p) # {}
      BY <1>6, LastBlock DEF HasValues
    <3> QED BY <1>6, <3>1 DEF Collect, RecvBlock
  <2>3. NextMsg(p, j) = ShareMsg(j, nP, call[nP])
    BY <1>2, <1>6, <2>1, <2>2, FewNext
  <2>4. vals' = [vals EXCEPT ![p] = [x \in Idx |-> Plus(vals[p][x], Share(j))]]
    <3>1. Block(p) = Idx
      BY <1>6, LastBlock
    <3>2. \A x \in Idx : NextMsg(p, j).data[x] = Share(j)
      BY <1>6, <2>3, <3>1 DEF ShareMsg
    <3> QED BY <2>2, <3>1, <3>2
  <2> HIDE DEF j
  <2>5. /\ NetTypeOK(Msg)' /\ NetOK' /\ log' = log /\ read'[j][nP] = read[j][nP] + 1
        /\ \A a \in Parties, b \in Parties : ~(a = nP /\ b = j) => read'[b][a] = read[b][a]
    <3>1. j \in Others(nP)
      BY <2>1 DEF Clients, Others
    <3> QED BY <1>1, <2>2, <3>1, ConsumeFacts
  <2>6. vals'[p] = [x \in Idx |-> Plus(vals[p][x], Share(j))]
        /\ \A r \in Parties : r # p => vals'[r] = vals[r]
    BY <1>1, <2>4 DEF TypeOK
  <2>7. TypeOK'
    <3>1. \A v, w \in [Parties -> Nat] : Plus(v, w) \in [Parties -> Nat]
      BY DEF Plus
    <3>2. Share(j) \in [Parties -> Nat]
      BY DEF Share
    <3>3. vals' \in [Parties -> [Idx -> [Parties -> Nat]]]
      BY <1>1, <2>4, <3>1, <3>2 DEF TypeOK
    <3> QED BY <1>1, <1>2, <2>5, <3>3, PeerAfterFacts DEF TypeOK
  <2>8. SilentStreams'
    BY <2>5 DEF FewInv, SilentStreams
  <2>9. ASSUME NEW a \in Clients PROVE ClientStreams(a)'
    <3>1. a \in Parties /\ a # nP /\ a \in Others(p)
      BY <1>6 DEF Clients, Others
    <3>2. ClientStreams(a)
      BY DEF FewInv
    <3>3. SumsSent' = SumsSent /\ SumsRead(a)' = SumsRead(a)
      BY <1>2, <1>3, <1>6, <3>1 DEF SumsSent, SumsRead
    <3>4. a < k'[p] <=> (a < j \/ a = j)
      BY <1>2, <1>3, <3>1, PeerAfterFacts DEF j
    <3>5. read'[a][nP] = SharesRead(a)'
      <4>1. CASE a = j
        <5>1. SharesRead(a) = call[nP] - 1
          BY <1>2, <1>6, <2>1, <4>1 DEF SharesRead, j, Parties
        <5>2. SharesRead(a)' = call[nP]
          BY <1>2, <1>6, <3>4, <4>1 DEF SharesRead
        <5> QED BY <1>2, <1>6, <2>5, <3>2, <4>1, <5>1, <5>2 DEF ClientStreams
      <4>2. CASE a # j
        <5>1. SharesRead(a)' = SharesRead(a)
          BY <1>2, <1>6, <3>4, <4>2 DEF SharesRead, j
        <5> QED BY <2>5, <3>1, <3>2, <4>2, <5>1, <1>1 DEF ClientStreams
      <4> QED BY <4>1, <4>2
    <3>6. read'[nP][a] = read[nP][a]
      BY <1>1, <2>5, <3>1
    <3> QED BY <1>2, <2>5, <3>2, <3>3, <3>5, <3>6 DEF ClientStreams, ShareMsg, SumMsg
  <2>10. ASSUME NEW a \in Parties, NEW x \in Idx PROVE FewVals(a, x)'
    <3>1. FewVals(a, x)
      BY DEF FewInv
    <3>2. CASE a = p
      <4>1. vals'[p][x] = Plus(Absorbed(p, j), Share(j))
        BY <1>2, <1>6, <2>6, <3>1, <3>2 DEF FewVals, j
      <4>2. Plus(Absorbed(p, j), Share(j)) = Absorbed(p, PeerAfter(p, j))
        <5>1. ASSUME NEW s \in Parties
              PROVE  Absorbed(p, j)[s] + Share(j)[s] = Absorbed(p, PeerAfter(p, j))[s]
          <6>1. j # p /\ j \in Others(p)
            BY <1>2 DEF j, Others
          <6>2. s # p => (s < PeerAfter(p, j) <=> (s < j \/ s = j))
            BY <6>1, PeerAfterFacts DEF Others
          <6> QED BY <2>1, <6>1, <6>2 DEF Absorbed, Share, Parties
        <5> QED BY <5>1 DEF Plus, Absorbed
      <4>3. vals'[a][x] = Absorbed(a, k'[a])
        BY <1>3, <3>2, <4>1, <4>2 DEF j
      <4> QED BY <1>2, <3>2, <4>3 DEF FewVals, Absorbed
    <3>3. CASE a # p
      BY <1>2, <1>3, <2>6, <3>1, <3>3 DEF FewVals, Absorbed, Sum
    <3> QED BY <3>2, <3>3
  <2> QED BY <1>4, <2>5, <2>7, <2>8, <2>9, <2>10 DEF FewInv
<1> QED BY <1>5, <1>6

(* Second loop: only the sums of nP are waited for.                        *)
LEMMA ReceiveFew ==
  ASSUME NumVals < nP, FewInv, NEW p \in Parties, Receive(p)
  PROVE  FewInv'
<1> USE PkingAssumption
<1>1. TypeOK /\ NetOK /\ ControlInv /\ nP \in Parties
  BY LastBlock DEF FewInv
<1>2. /\ pc[p] = "receive" /\ k[p] \in Others(p) /\ call[p] \in Nat \ {0}
      /\ pc' = pc /\ call' = call /\ k' = [k EXCEPT ![p] = PeerAfter(p, @)]
  BY <1>1, ActiveCall DEF Receive, Others
<1>3. k'[p] = PeerAfter(p, k[p]) /\ \A r \in Parties : r # p => k'[r] = k[r]
  BY <1>1, <1>2 DEF TypeOK
<1>4. ControlInv'
  BY <1>1, <1>2, <1>3, PeerAfterFacts DEF ControlInv, TypeOK
<1>5. CASE k[p] # nP
  <2>1. UNCHANGED <<vals, netVars>>
    <3>1. Block(k[p]) = {}
      BY <1>2, <1>5, LastBlock DEF Clients, Others
    <3> QED BY <3>1 DEF Receive, RecvBlock
  <2>2. TypeOK' /\ NetOK'
    BY <1>1, <1>2, <2>1, PeerAfterFacts DEF TypeOK, NetTypeOK, NetOK, netVars
  <2>3. p # nP => k[p] <= nP /\ k'[p] <= nP
    BY <1>2, <1>3, <1>5 DEF PeerAfter, Parties, Others
  <2>4. p # nP => SumsRead(p)' = SumsRead(p)
    BY <1>2, <2>3 DEF SumsRead
  <2>5. p = nP => SumsSent' = SumsSent /\ \A a \in Clients : SharesRead(a)' = SharesRead(a)
    BY <1>2 DEF SumsSent, SharesRead
  <2>6. ASSUME NEW x \in Idx PROVE FewVals(p, x)'
    <3>1. FewVals(p, x) /\ vals' = vals
      BY <2>1 DEF FewInv
    <3>2. p # nP => ~(k'[p] > nP)
      <4>1. k'[p] \in 1..(nP + 1)
        BY <1>2, <1>3, PeerAfterFacts
      <4> QED BY <2>3, <4>1
    <3> QED BY <1>2, <3>1, <3>2 DEF FewVals, Sum
  <2> QED BY <1>2, <1>3, <1>4, <2>1, <2>2, <2>4, <2>5, <2>6, FewQuiet DEF netVars
<1>6. CASE k[p] = nP
  <2>1. p \in Clients /\ p # nP /\ p < nP
    BY <1>2, <1>6 DEF Clients, Others, Parties
  <2>2. Arrived(p, nP) /\ Consume(p, nP)
        /\ vals' = [vals EXCEPT ![p] = [x \in Idx |->
             IF x \in Block(nP) THEN NextMsg(p, nP).data[x] ELSE vals[p][x]]]
    <3>1. Block(nP) # {}
      BY LastBlock DEF HasValues
    <3> QED BY <1>6, <3>1 DEF Receive, RecvBlock
  <2>3. NextMsg(p, nP) = SumMsg(nP, call[p])
    BY <1>2, <1>6, <2>1, <2>2, FewNext
  <2>4. vals' = [vals EXCEPT ![p] = [x \in Idx |-> Sum]]
    <3>1. Block(nP) = Idx
      BY LastBlock
    <3>2. \A x \in Idx : NextMsg(p, nP).data[x] = Sum
      BY <2>3, <3>1 DEF SumMsg
    <3> QED BY <2>2, <3>1, <3>2
  <2>5. /\ NetTypeOK(Msg)' /\ NetOK' /\ log' = log /\ read'[nP][p] = read[nP][p] + 1
        /\ \A a \in Parties, b \in Parties : ~(a = p /\ b = nP) => read'[b][a] = read[b][a]
    <3>1. nP \in Others(p)
      BY <1>1, <2>1 DEF Others
    <3> QED BY <1>1, <2>2, <3>1, ConsumeFacts
  <2>6. vals'[p] = [x \in Idx |-> Sum] /\ \A r \in Parties : r # p => vals'[r] = vals[r]
    BY <1>1, <2>4 DEF TypeOK
  <2>7. TypeOK'
    <3>1. Sum \in [Parties -> Nat]
      BY DEF Sum
    <3>2. vals' \in [Parties -> [Idx -> [Parties -> Nat]]]
      BY <1>1, <2>4, <3>1 DEF TypeOK
    <3> QED BY <1>1, <1>2, <2>5, <3>2, PeerAfterFacts DEF TypeOK
  <2>8. SilentStreams'
    BY <2>5 DEF FewInv, SilentStreams
  <2>9. k'[p] > nP /\ ~(k'[p] <= nP)
    BY <1>3, <1>6, <2>1 DEF PeerAfter, Parties
  <2>10. ASSUME NEW a \in Clients PROVE ClientStreams(a)'
    <3>1. a \in Parties /\ a # nP
      BY DEF Clients
    <3>2. ClientStreams(a)
      BY DEF FewInv
    <3>3. SumsSent' = SumsSent /\ SharesRead(a)' = SharesRead(a)
      BY <1>2, <1>3, <2>1 DEF SumsSent, SharesRead
    <3>4. read'[nP][a] = SumsRead(a)'
      <4>1. CASE a = p
        <5>1. SumsRead(a) = call[p] - 1 /\ SumsRead(a)' = call[p]
          BY <1>2, <1>6, <2>9, <4>1 DEF SumsRead
        <5> QED BY <1>2, <2>5, <3>2, <4>1, <5>1 DEF ClientStreams
      <4>2. CASE a # p
        <5>1. SumsRead(a)' = SumsRead(a)
          BY <1>2, <1>3, <3>1, <4>2 DEF SumsRead
        <5> QED BY <1>1, <2>5, <3>1, <3>2, <4>2, <5>1 DEF ClientStreams
      <4> QED BY <4>1, <4>2
    <3>5. read'[a][nP] = read[a][nP]
      BY <1>1, <2>1, <2>5, <3>1
    <3> QED BY <1>2, <2>5, <3>2, <3>3, <3>4, <3>5 DEF ClientStreams, ShareMsg, SumMsg
  <2>11. ASSUME NEW a \in Parties, NEW x \in Idx PROVE FewVals(a, x)'
    <3>1. FewVals(a, x)
      BY DEF FewInv
    <3>2. CASE a = p
      <4>1. vals'[a][x] = Sum
        BY <2>6, <3>2
      <4> QED BY <1>2, <2>1, <3>2, <4>1 DEF FewVals, Sum
    <3>3. CASE a # p
      BY <1>2, <1>3, <2>6, <3>1, <3>3 DEF FewVals, Absorbed, Sum
    <3> QED BY <3>2, <3>3
  <2> QED BY <1>4, <2>5, <2>7, <2>8, <2>10, <2>11 DEF FewInv
<1> QED BY <1>5, <1>6

(* nP sends the sums to all clients, a client nothing.                     *)
LEMMA DistributeFew ==
  ASSUME NumVals < nP, FewInv, NEW p \in Parties, Distribute(p)
  PROVE  FewInv'
<1> USE PkingAssumption
<1> DEFINE msgs == [receiver \in {q \in Others(p) : HasValues(p)} |->
                      [call |-> call[p], kind |-> "sum", data |-> Restricted(vals[p], Block(p))]]
<1>1. TypeOK /\ NetOK /\ ControlInv /\ nP \in Parties
  BY LastBlock DEF FewInv
<1>2. /\ pc[p] = "collect" /\ k[p] > nP /\ Send(p, msgs)
      /\ pc' = [pc EXCEPT ![p] = "receive"] /\ k' = [k EXCEPT ![p] = FirstPeer(p)]
      /\ vals' = vals /\ call' = call
  BY DEF Distribute
<1>3. call[p] \in Nat \ {0} /\ k[p] \in 1..(nP + 1)
  BY <1>1, <1>2, ActiveCall DEF TypeOK
<1>4. /\ pc'[p] = "receive" /\ k'[p] = FirstPeer(p)
      /\ \A r \in Parties : r # p => pc'[r] = pc[r] /\ k'[r] = k[r]
  BY <1>1, <1>2 DEF TypeOK
<1>5. ControlInv'
  BY <1>1, <1>2, <1>3, <1>4, FirstPeerFacts DEF ControlInv, TypeOK
<1>6. CASE p # nP
  <2>1. DOMAIN msgs = {}
    BY <1>6, LastBlock DEF Clients
  <2> HIDE DEF msgs
  <2>2. /\ NetTypeOK(Msg)' /\ NetOK'
        /\ \A a, b \in Parties : log'[a][b] = log[a][b] /\ read'[a][b] = read[a][b]
    BY <1>1, <1>2, <2>1, SendNothing
  <2>3. TypeOK'
    BY <1>1, <1>2, <2>2, FirstPeerFacts DEF TypeOK
  <2>4. k'[p] <= nP /\ ~(k'[p] > nP)
    BY <1>4, <1>6 DEF FirstPeer, Parties
  <2>5. SumsRead(p)' = SumsRead(p)
    BY <1>2, <1>4, <2>4 DEF SumsRead
  <2>6. ASSUME NEW x \in Idx PROVE FewVals(p, x)'
    BY <1>4, <1>6, <2>4 DEF FewVals
  <2> QED BY <1>1, <1>2, <1>4, <1>5, <1>6, <2>2, <2>3, <2>5, <2>6, FewQuiet
<1>7. CASE p = nP
  <2>1. vals[p] = [x \in Idx |-> Sum]
    <3>1. Absorbed(p, k[p]) = Sum
      BY <1>2, <1>3, AbsorbedAll
    <3>2. \A x \in Idx : vals[p][x] = Sum
      BY <1>2, <1>7, <3>1 DEF FewInv, FewVals
    <3>3. vals[p] \in [Idx -> [Parties -> Nat]]
      BY <1>1 DEF TypeOK
    <3> QED BY <3>2, <3>3
  <2>2. DOMAIN msgs = Clients /\ \A q \in Clients : msgs[q] = SumMsg(nP, call[nP])
    <3>1. {q \in Others(p) : HasValues(p)} = Clients
      BY <1>7, LastBlock DEF Others, Clients
    <3>2. Restricted(vals[p], Block(p)) = [x \in Block(nP) |-> Sum]
      BY <1>7, <2>1, LastBlock DEF Restricted
    <3> QED BY <1>7, <3>1, <3>2 DEF SumMsg
  <2> HIDE DEF msgs
  <2>3. DOMAIN msgs \subseteq Others(p) /\ \A q \in DOMAIN msgs : msgs[q] \in Msg
    <3>1. SumMsg(nP, call[nP]) \in Msg
      BY <1>1, <1>3, <1>7, DataFacts DEF SumMsg, Msg
    <3> QED BY <1>7, <2>2, <3>1 DEF Clients, Others
  <2>4. /\ NetTypeOK(Msg)' /\ NetOK' /\ read' = read
        /\ \A q \in DOMAIN msgs : log'[p][q] = Append(log[p][q], msgs[q])
        /\ \A q \in Parties : q \notin DOMAIN msgs => log'[p][q] = log[p][q]
        /\ \A r \in Parties : r # p => log'[r] = log[r]
    <3>1. NetTypeOK(Msg) /\ NetOK /\ Send(p, msgs)
      BY <1>1, <1>2 DEF TypeOK
    <3> QED BY <2>3, <3>1, SendFacts
  <2>5. TypeOK'
    BY <1>1, <1>2, <2>4, FirstPeerFacts DEF TypeOK
  <2>6. SilentStreams'
    <3> SUFFICES ASSUME NEW a \in Parties, NEW b \in Parties, a = b \/ (a \in Clients /\ b \in Clients)
                 PROVE  log'[a][b] = << >>
      BY DEF SilentStreams
    <3>1. log[a][b] = << >>
      BY DEF FewInv, SilentStreams
    <3>2. a = p => b \notin DOMAIN msgs
      BY <1>7, <2>2 DEF Clients
    <3> QED BY <2>4, <3>1, <3>2
  <2>7. ASSUME NEW a \in Clients PROVE ClientStreams(a)'
    <3>1. a \in Parties /\ a # nP /\ a < nP
      BY FewCounts
    <3>2. ClientStreams(a)
      BY DEF FewInv
    <3>3. SumsSent = call[nP] - 1 /\ SumsSent' = call[nP] /\ SumsRead(a)' = SumsRead(a)
      BY <1>2, <1>4, <1>7, <3>1 DEF SumsSent, SumsRead
    <3>4. SharesRead(a)' = SharesRead(a)
      <4>1. a < k[nP]
        BY <1>2, <1>3, <1>7, <3>1, LoopEnd
      <4> QED BY <1>2, <1>4, <1>7, <4>1 DEF SharesRead
    <3>5. log[nP][a] \in Seq(Msg) /\ log'[nP][a] = Append(log[nP][a], SumMsg(nP, call[nP]))
          /\ SumMsg(nP, call[nP]) \in Msg
      <4>1. log[nP][a] \in Seq(Msg)
        BY <1>1, <3>1 DEF TypeOK, NetTypeOK
      <4> QED BY <1>7, <2>2, <2>3, <2>4, <4>1
    <3>6. /\ Len(log'[nP][a]) = SumsSent + 1 /\ log'[nP][a][SumsSent + 1] = SumMsg(nP, call[nP])
          /\ \A c \in 1..SumsSent : log'[nP][a][c] = log[nP][a][c]
      BY <3>2, <3>5, AppendFacts DEF ClientStreams
    <3>7. ASSUME NEW c \in 1..call[nP] PROVE log'[nP][a][c] = SumMsg(nP, c)
      <4>1. call[nP] \in Nat \ {0}
        BY <1>3, <1>7
      <4>2. c \in 1..SumsSent \/ (c = call[nP] /\ c = SumsSent + 1)
        BY <3>3, <4>1
      <4> QED BY <3>2, <3>6, <4>2 DEF ClientStreams
    <3>8. SumsSent + 1 = call[nP]
      BY <1>3, <1>7, <3>3
    <3>9. log'[a] = log[a]
      BY <1>7, <2>4, <3>1
    <3>10. /\ Len(log'[a][nP]) = call'[a] /\ read'[a][nP] = SharesRead(a)'
           /\ \A c \in 1..call'[a] : log'[a][nP][c] = ShareMsg(a, nP, c)
      BY <1>2, <2>4, <3>2, <3>4, <3>9 DEF ClientStreams
    <3>11. /\ Len(log'[nP][a]) = SumsSent' /\ read'[nP][a] = SumsRead(a)'
           /\ \A c \in 1..SumsSent' : log'[nP][a][c] = SumMsg(nP, c)
      BY <2>4, <3>2, <3>3, <3>6, <3>7, <3>8 DEF ClientStreams
    <3> QED BY <3>10, <3>11 DEF ClientStreams, ShareMsg, SumMsg
  <2>8. ASSUME NEW a \in Parties, NEW x \in Idx PROVE FewVals(a, x)'
    <3>1. FewVals(a, x) /\ vals' = vals
      BY <1>2 DEF FewInv
    <3>2. CASE a = p
      <4>1. vals'[a][x] = Sum
        BY <1>2, <2>1, <3>2
      <4> QED BY <1>4, <1>7, <3>2, <4>1 DEF FewVals, Sum
    <3>3. CASE a # p
      BY <1>2, <1>4, <3>1, <3>3 DEF FewVals, Absorbed, Sum
    <3> QED BY <3>2, <3>3
  <2> QED BY <1>5, <2>4, <2>5, <2>6, <2>7, <2>8 DEF FewInv
<1> QED BY <1>6, <1>7

(* Returning changes no stream, and no vector.                             *)
LEMMA ReturnFew ==
  ASSUME NumVals < nP, FewInv, NEW p \in Parties, Return(p)
  PROVE  FewInv'
<1> USE PkingAssumption
<1>1. TypeOK /\ NetOK /\ ControlInv /\ nP \in Parties
  BY LastBlock DEF FewInv
<1>2. /\ pc[p] = "receive" /\ k[p] > nP
      /\ pc' = [pc EXCEPT ![p] = "idle"]
      /\ k' = k /\ vals' = vals /\ call' = call /\ log' = log /\ flushed' = flushed /\ read' = read
  BY DEF Return, netVars
<1>3. k[p] = nP + 1 /\ call[p] \in Nat \ {0} /\ ~(k[p] <= nP)
  <2>1. k[p] \in 1..(nP + 1)
    BY <1>1 DEF TypeOK
  <2>2. call[p] \in Nat \ {0}
    BY <1>1, <1>2, ActiveCall
  <2> QED BY <1>2, <2>1, <2>2
<1>4. pc'[p] = "idle" /\ \A r \in Parties : r # p => pc'[r] = pc[r]
  BY <1>1, <1>2 DEF TypeOK
<1>5. TypeOK' /\ NetOK'
  <2>1. NetTypeOK(Msg)'
    BY <1>1, <1>2 DEF TypeOK, NetTypeOK
  <2> QED BY <1>1, <1>2, <2>1 DEF TypeOK, NetOK
<1>6. ControlInv'
  BY <1>1, <1>2, <1>3, <1>4 DEF ControlInv
<1>7. p # nP => SumsRead(p)' = SumsRead(p)
  BY <1>2, <1>3, <1>4 DEF SumsRead
<1>8. p = nP => SumsSent' = SumsSent /\ \A a \in Clients : SharesRead(a)' = SharesRead(a)
  BY <1>2, <1>4 DEF SumsSent, SharesRead
<1>9. ASSUME NEW x \in Idx PROVE FewVals(p, x)'
  <2>1. FewVals(p, x)
    BY DEF FewInv
  <2>2. vals[p][x] = Sum
    BY <1>2, <2>1 DEF FewVals
  <2> QED BY <1>2, <1>4, <2>2 DEF FewVals, Sum
<1> QED BY <1>2, <1>4, <1>5, <1>6, <1>7, <1>8, <1>9, FewQuiet

(* Every step of every party keeps the invariant.                          *)
LEMMA NextFew == NumVals < nP /\ FewInv /\ [Next]_vars => FewInv'
<1> SUFFICES ASSUME NumVals < nP, FewInv, [Next]_vars PROVE FewInv'
  OBVIOUS
<1>1. ASSUME NEW p \in Parties, RecvFlush(p) PROVE FewInv'
  <2>1. /\ TypeOK' /\ NetOK'
        /\ log' = log /\ read' = read /\ pc' = pc /\ k' = k /\ vals' = vals /\ call' = call
    BY <1>1, FlushFacts DEF FewInv
  <2>2. ControlInv'
    BY <2>1 DEF FewInv, ControlInv
  <2>3. SumsSent' = SumsSent /\ SumsRead(p)' = SumsRead(p) /\ \A a \in Clients : SharesRead(a)' = SharesRead(a)
    BY <2>1 DEF SumsSent, SumsRead, SharesRead
  <2>4. ASSUME NEW x \in Idx PROVE FewVals(p, x)'
    <3>1. FewVals(p, x)
      BY <1>1 DEF FewInv
    <3> QED BY <2>1, <3>1 DEF FewVals, Absorbed, Sum
  <2> QED BY <1>1, <2>1, <2>2, <2>3, <2>4, FewQuiet
<1>2. ASSUME NEW p \in Parties, Step(p) PROVE FewInv'
  BY <1>1, <1>2, SendSharesFew, CollectFew, DistributeFew, ReceiveFew, ReturnFew DEF Step
<1>3. CASE UNCHANGED vars
  <2>1. nP \in Parties
    BY LastBlock
  <2>2. TypeOK' /\ NetOK' /\ ControlInv' /\ SumsSent' = SumsSent /\ SumsRead(nP)' = SumsRead(nP)
        /\ \A a \in Clients : SharesRead(a)' = SharesRead(a)
    BY <1>3 DEF FewInv, TypeOK, NetTypeOK, NetOK, ControlInv, SumsSent, SumsRead, SharesRead, vars, netVars
  <2>3. ASSUME NEW x \in Idx PROVE FewVals(nP, x)'
    <3>1. FewVals(nP, x)
      BY <2>1 DEF FewInv
    <3> QED BY <1>3, <3>1 DEF FewVals, Absorbed, Sum, vars
  <2> QED BY <1>3, <2>1, <2>2, <2>3, FewQuiet DEF vars, netVars
<1> QED BY <1>2, <1>3 DEF Next

(* Nobody is at the end of a call before everybody has begun it, since nP   *)
(* sums nothing before.                                                    *)
LEMMA FewTogether ==
  ASSUME NumVals < nP, FewInv, NEW p \in Parties, pc[p] = "receive", k[p] > nP, NEW q \in Parties
  PROVE  call[q] >= call[p]
<1>1. nP \in Parties /\ call[p] \in Nat /\ call[q] \in Nat /\ call[nP] \in Nat
  BY LastBlock DEF FewInv, TypeOK
<1>2. call[p] <= SumsSent
  <2>1. CASE p = nP
    BY <2>1, <1>1 DEF SumsSent
  <2>2. CASE p # nP
    <3>1. p \in Clients
      BY <2>2 DEF Clients
    <3>2. SumsRead(p) = call[p]
      <4>1. ~(k[p] <= nP)
        BY PkingAssumption DEF FewInv, TypeOK
      <4> QED BY <4>1 DEF SumsRead
    <3> QED BY <3>1, <3>2, FewCounts
  <2> QED BY <2>1, <2>2
<1>3. SumsSent <= call[q] /\ SumsSent \in Int
  <2>1. CASE q = nP
    BY <2>1, <1>1 DEF SumsSent
  <2>2. CASE q # nP
    <3>1. q \in Clients
      BY <2>2 DEF Clients
    <3>2. SumsSent <= SharesRead(q) /\ SharesRead(q) <= call[q] /\ SumsSent \in Int /\ SharesRead(q) \in Nat
      BY <3>1, FewCounts
    <3> QED BY <1>1, <3>2
  <2> QED BY <2>1, <2>2
<1> QED BY <1>1, <1>2, <1>3

(* All calls are compared with the number of sums sent.                    *)
LEMMA FewAhead == NumVals < nP /\ FewInv => OneCallAhead
<1> SUFFICES ASSUME NumVals < nP, FewInv, NEW p \in Parties, NEW q \in Parties
             PROVE  call[p] <= call[q] + 1
  BY DEF OneCallAhead
<1>1. nP \in Parties /\ call[p] \in Nat /\ call[q] \in Nat /\ call[nP] \in Nat
  BY LastBlock DEF FewInv, TypeOK
<1>2. call[p] - 1 <= SumsSent /\ SumsSent \in Int
  <2>1. CASE p = nP
    BY <2>1, <1>1 DEF SumsSent
  <2>2. CASE p # nP
    <3>1. p \in Clients
      BY <2>2 DEF Clients
    <3>2. SumsRead(p) <= SumsSent /\ SumsRead(p) >= call[p] - 1 /\ SumsSent \in Int /\ SumsRead(p) \in Nat
      BY <3>1, FewCounts
    <3> QED BY <1>1, <3>2
  <2> QED BY <2>1, <2>2
<1>3. SumsSent <= call[q]
  <2>1. CASE q = nP
    BY <2>1, <1>1 DEF SumsSent
  <2>2. CASE q # nP
    <3>1. q \in Clients
      BY <2>2 DEF Clients
    <3>2. SumsSent <= SharesRead(q) /\ SharesRead(q) <= call[q] /\ SumsSent \in Int /\ SharesRead(q) \in Nat
      BY <3>1, FewCounts
    <3> QED BY <1>1, <3>2
  <2> QED BY <2>1, <2>2
<1> QED BY <1>1, <1>2, <1>3

(* At most one message is unread on a stream.                              *)
LEMMA FewBacklog == NumVals < nP /\ FewInv => BoundedBacklog
<1> SUFFICES ASSUME NumVals < nP, FewInv, NEW p \in Parties, NEW q \in Parties
             PROVE  Len(log[p][q]) - read[p][q] <= 2
  BY DEF BoundedBacklog
<1>1. read[p][q] \in Nat
  BY PkingAssumption DEF FewInv, TypeOK, NetTypeOK
<1>2. CASE p = q \/ (p \in Clients /\ q \in Clients)
  <2>1. log[p][q] = << >>
    BY <1>2 DEF FewInv, SilentStreams
  <2>2. Len(log[p][q]) = 0
    BY <2>1
  <2> QED BY <1>1, <2>2
<1>3. CASE p \in Clients /\ q = nP
  <2>1. Len(log[p][q]) = call[p] /\ read[p][q] = SharesRead(p)
    BY <1>3 DEF FewInv, ClientStreams
  <2>2. /\ SumsRead(p) <= SumsSent /\ SumsSent <= SharesRead(p) /\ SumsRead(p) >= call[p] - 1
        /\ call[p] \in Nat /\ SumsSent \in Int /\ SumsRead(p) \in Nat /\ SharesRead(p) \in Nat
    BY <1>3, FewCounts
  <2> QED BY <2>1, <2>2
<1>4. CASE p = nP /\ q \in Clients
  <2>1. Len(log[p][q]) = SumsSent /\ read[p][q] = SumsRead(q)
    BY <1>4 DEF FewInv, ClientStreams
  <2>2. /\ SumsSent <= SharesRead(q) /\ SharesRead(q) <= call[q] /\ SumsRead(q) >= call[q] - 1
        /\ call[q] \in Nat /\ SumsSent \in Int /\ SumsRead(q) \in Nat /\ SharesRead(q) \in Nat
    BY <1>4, FewCounts
  <2> QED BY <2>1, <2>2
<1> QED BY <1>2, <1>3, <1>4, StreamKinds

(* What nP sends as a sum is complete.                                     *)
LEMMA FewFullSums == NumVals < nP /\ FewInv => OnlyFullSumsSent
<1> SUFFICES ASSUME NumVals < nP, FewInv, NEW p \in Parties, NEW q \in Parties,
                    NEW i \in 1..Len(log[p][q]), log[p][q][i].kind = "sum"
             PROVE  log[p][q][i].data = [x \in Block(p) |-> Sum]
  BY DEF OnlyFullSumsSent
<1>1. CASE p = q \/ (p \in Clients /\ q \in Clients)
  <2>1. log[p][q] = << >>
    BY <1>1 DEF FewInv, SilentStreams
  <2>2. Len(log[p][q]) = 0
    BY <2>1
  <2> QED BY <2>2
<1>2. CASE p \in Clients /\ q = nP
  <2>1. log[p][q][i] = ShareMsg(p, nP, i)
    BY <1>2 DEF FewInv, ClientStreams
  <2> QED BY <2>1 DEF ShareMsg
<1>3. CASE p = nP /\ q \in Clients
  <2>1. log[p][q][i] = SumMsg(nP, i)
    BY <1>3 DEF FewInv, ClientStreams
  <2> QED BY <1>3, <2>1 DEF SumMsg
<1> QED BY <1>1, <1>2, <1>3, StreamKinds

(* Who is back from a call has all sums.                                   *)
LEMMA FewSums == NumVals < nP /\ FewInv => Reconstructed
<1> SUFFICES ASSUME NumVals < nP, FewInv, NEW p \in Parties, pc[p] = "idle", call[p] > 0
             PROVE  vals[p] = [x \in Idx |-> Sum]
  BY DEF Reconstructed
<1>1. vals[p] \in [Idx -> [Parties -> Nat]]
  BY DEF FewInv, TypeOK
<1>2. \A x \in Idx : vals[p][x] = Sum
  BY DEF FewInv, FewVals
<1> QED BY <1>1, <1>2

(* Both loops read what is meant for them.                                 *)
LEMMA FewFramed == NumVals < nP /\ FewInv => Framing
<1> DEFINE From(p) == IF pc[p] = "collect" THEN p ELSE k[p]
<1> SUFFICES ASSUME NumVals < nP, FewInv, NEW p \in Parties, pc[p] \in {"collect", "receive"},
                    k[p] \in Parties, Arrived(p, k[p]), Block(From(p)) # {}
             PROVE  /\ NextMsg(p, k[p]).call = call[p]
                    /\ NextMsg(p, k[p]).kind = IF pc[p] = "collect" THEN "share" ELSE "sum"
                    /\ DOMAIN NextMsg(p, k[p]).data = Block(From(p))
  BY DEF Framing
<1>1. k[p] # p /\ From(p) = nP
  <2>1. k[p] # p
    BY ActiveCall DEF FewInv
  <2> QED BY <2>1, LastBlock DEF Clients
<1>2. CASE pc[p] = "collect"
  <2>1. p = nP /\ k[p] \in Clients
    BY <1>1, <1>2 DEF Clients
  <2> QED BY <1>1, <1>2, <2>1, FewNext DEF ShareMsg
<1>3. CASE pc[p] = "receive"
  <2>1. k[p] = nP /\ p \in Clients
    BY <1>1, <1>3 DEF Clients
  <2> QED BY <1>1, <1>3, <2>1, FewNext DEF SumMsg
<1> QED BY <1>2, <1>3

-----------------------------------------------------------------------------
(* Both invariants keep the same promises, so that the theorems hold for   *)
(* any number of parties and any length of the vectors.                    *)
ReadyTogether ==
  \A p, q \in Parties : pc[p] = "receive" /\ k[p] > nP => call[q] >= call[p]

Promises ==
  /\ TypeOK /\ ControlInv /\ ReadyTogether
  /\ Reconstructed /\ Framing /\ OneCallAhead /\ BoundedBacklog /\ OnlyFullSumsSent

(* One of the two invariants holds in every reachable state.               *)
LEMMA PromisesKept == Spec => []Promises
<1>1. IInv => Promises
  BY AllSums, AllFramed, NobodyFarAhead, NoBacklog, FullSums, EveryoneContributed
  DEF IInv, Promises, ReadyTogether
<1>2. NumVals < nP /\ FewInv => Promises
  BY FewSums, FewFramed, FewAhead, FewBacklog, FewFullSums, FewTogether
  DEF FewInv, Promises, ReadyTogether
<1>3. CASE NumVals >= nP
  BY <1>1, <1>3, Invariance, PTL
<1>4. CASE NumVals < nP
  BY <1>2, <1>4, InitFew, NextFew, PTL DEF Spec
<1>5. NumVals >= nP \/ NumVals < nP
  BY PkingAssumption
<1> QED BY <1>3, <1>4, <1>5

(* Type correctness of the P_king reconstruction (semi_evaluator.cpp       *)
(* 458-544) for every number of parties, values and calls.                 *)
THEOREM TypeCorrect == Spec => []TypeOK
BY PromisesKept, PTL DEF Promises

(* Every reconstruction ends, at every party and at every index, with each *)
(* share added exactly once (semi_evaluator.cpp:464), also when most       *)
(* blocks are empty.                                                       *)
THEOREM ReconstructionCorrect == Spec => []Reconstructed
BY PromisesKept, PTL DEF Promises

(* Every recv finds the message meant for it, whichever party runs ahead   *)
(* (semi_evaluator.cpp:495-541).                                           *)
THEOREM FramingCorrect == Spec => []Framing
BY PromisesKept, PTL DEF Promises

(* The reconstruction is a barrier, also when most parties wait for nP      *)
(* alone.                                                                  *)
THEOREM Barrier == Spec => []OneCallAhead
BY PromisesKept, PTL DEF Promises

(* A stream never holds more than two messages its reader has not taken,   *)
(* for any number of parties and of calls.                                 *)
THEOREM ShortStreams == Spec => []BoundedBacklog
BY PromisesKept, PTL DEF Promises

(* Whatever a king has put on a stream as a sum holds every party's share. *)
THEOREM SumsAreFull == Spec => []OnlyFullSumsSent
BY PromisesKept, PTL DEF Promises

Returned(p) == IF pc[p] = "idle" THEN call[p] ELSE call[p] - 1

(* The P_king reconstruction implements the atomic opening: no party       *)
(* returns before all have contributed, and then with every share summed.  *)
THEOREM ImplementsOpening == Spec => Atomic!Init /\ [][Atomic!Next]_(Atomic!vars)
<1>1. Init => Atomic!Init
  BY PkingAssumption DEF Init, Atomic!Init, Result, Parties
<1>2. ASSUME Promises, Promises', NEW p \in Parties, SendShares(p)
      PROVE  Atomic!Contribute(p)
  <2>1. /\ pc[p] = "idle" /\ call[p] < Calls
        /\ call' = [call EXCEPT ![p] = @ + 1]
        /\ vals' = [vals EXCEPT ![p] = [x \in Idx |-> Share(p)]]
        /\ pc' = [pc EXCEPT ![p] = "collect"]
    BY <1>2 DEF SendShares
  <2>2. \A r \in Parties : r # p => pc'[r] = pc[r] /\ call'[r] = call[r] /\ vals'[r] = vals[r]
    BY <1>2, <2>1 DEF Promises, TypeOK
  <2>3. pc'[p] = "collect" /\ call'[p] = call[p] + 1 /\ call[p] \in Nat
    BY <1>2, <2>1 DEF Promises, TypeOK
  <2>4. [r \in Parties |-> Returned(r)]' = [r \in Parties |-> Returned(r)]
    BY <2>1, <2>2, <2>3 DEF Returned
  <2>5. [r \in Parties |-> Result(r)]' = [[r \in Parties |-> Result(r)] EXCEPT ![p] = << >>]
    BY <2>2, <2>3 DEF Result
  <2> QED BY <2>1, <2>4, <2>5 DEF Atomic!Contribute, Returned
<1>3. ASSUME Promises, Promises', NEW p \in Parties, Return(p)
      PROVE  Atomic!Return(p)
  <2>1. /\ pc[p] = "receive" /\ k[p] > nP
        /\ pc' = [pc EXCEPT ![p] = "idle"]
        /\ vals' = vals /\ call' = call
    BY <1>3 DEF Return
  <2>2. pc'[p] = "idle" /\ \A r \in Parties : r # p => pc'[r] = pc[r]
    BY <1>3, <2>1 DEF Promises, TypeOK
  <2>3. call[p] \in Nat /\ call[p] > 0 /\ \A q \in Parties : call[q] >= call[p]
    BY <1>3, <2>1, ActiveCall DEF Promises, ReadyTogether
  <2>4. vals[p] = [x \in Idx |-> Sum]
    <3>1. Reconstructed'
      BY <1>3 DEF Promises
    <3>2. vals'[p] = [x \in Idx |-> Sum]
      BY <2>1, <2>2, <2>3, <3>1 DEF Reconstructed, Sum
    <3> QED BY <2>1, <3>2
  <2>5. [r \in Parties |-> Returned(r)]' = [[r \in Parties |-> Returned(r)] EXCEPT ![p] = call[p]]
    BY <2>1, <2>2 DEF Returned
  <2>6. [r \in Parties |-> Result(r)]' = [[r \in Parties |-> Result(r)] EXCEPT ![p] = [x \in Idx |-> Sum]]
    BY <2>1, <2>2, <2>3, <2>4 DEF Result
  <2>7. Returned(p) < call[p]
    BY <2>1, <2>3 DEF Returned
  <2> QED BY <2>1, <2>3, <2>5, <2>6, <2>7 DEF Atomic!Return, Returned
<1>4. ASSUME Promises, Promises', NEW p \in Parties, Collect(p) \/ Distribute(p) \/ Receive(p) \/ RecvFlush(p)
      PROVE  UNCHANGED Atomic!vars
  <2>1. call' = call /\ pc[p] # "idle" /\ pc'[p] # "idle"
    BY <1>4 DEF Collect, Distribute, Receive, RecvBlock, RecvFlush, Promises, TypeOK
  <2>2. \A r \in Parties : r # p => pc'[r] = pc[r] /\ vals'[r] = vals[r]
    BY <1>4 DEF Collect, Distribute, Receive, RecvBlock, RecvFlush, Promises, TypeOK
  <2>3. \A r \in Parties : Returned(r)' = Returned(r) /\ Result(r)' = Result(r)
    BY <2>1, <2>2 DEF Returned, Result
  <2> QED BY <2>1, <2>3 DEF Atomic!vars, Returned
<1>5. Promises /\ Promises' /\ [Next]_vars => [Atomic!Next]_(Atomic!vars)
  <2>1. CASE UNCHANGED vars
    BY <2>1 DEF vars, Atomic!vars, Result
  <2>2. ASSUME Promises, Promises', NEW p \in Parties, Step(p) PROVE [Atomic!Next]_(Atomic!vars)
    BY <2>2, <1>2, <1>3, <1>4 DEF Step, Atomic!Next
  <2> QED BY <2>1, <2>2 DEF Next
<1> QED BY <1>1, <1>5, PromisesKept, PTL DEF Spec
=============================================================================
