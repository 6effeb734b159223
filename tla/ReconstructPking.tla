-------------------------- MODULE ReconstructPking --------------------------
(***************************************************************************)
(* semi::Evaluator::reconstructPking (src/src/protocol/semi_evaluator.cpp, *)
(* lines 458-544): every party holds one additive share of a vector, and   *)
(* all of them must end with the vector of sums.  The indices are cut into *)
(* one block per party; party k is P_king of block k: it gets the others'  *)
(* shares of that block, sums them and distributes the sums.               *)
(*                                                                         *)
(* Values are formal sums: vals[p][x][r] is how often the share of party r *)
(* is added into entry x of p's vector.  A share lost, or added twice, is  *)
(* then visible whatever the ring.                                         *)
(***************************************************************************)
EXTENDS NetIOMP

CONSTANTS nP,        \* number of computing parties
          NumVals,   \* vals.size()
          Calls      \* bound: how many reconstructions follow one another

Parties == 1..nP
Idx     == 0..(NumVals - 1)

ASSUME PkingAssumption ==
  /\ nP \in Nat \ {0}
  /\ NumVals \in Nat \ {0}
  /\ Calls \in Nat
  /\ Procs = Parties

PerPartyComm  == NumVals \div nP
LastPartyComm == PerPartyComm + (NumVals % nP)

(* The indices whose P_king is party k; the last party takes the remainder. *)
Block(k) ==
  {x \in Idx : /\ (k - 1) * PerPartyComm <= x
               /\ x < (k - 1) * PerPartyComm
                        + (IF k = nP THEN LastPartyComm ELSE PerPartyComm)}

(* With fewer values than parties only the last block has any.  The sends   *)
(* and receives of the others are of zero bytes: nothing is written, and    *)
(* recv returns without waiting.                                           *)
HasValues(j) == Block(j) # {}

Share(r)  == [s \in Parties |-> IF s = r THEN 1 ELSE 0]
Sum       == [s \in Parties |-> 1]
Plus(v, w) == [s \in Parties |-> v[s] + w[s]]

Restricted(v, B) == [x \in B |-> v[x]]

VARIABLES pc,    \* "idle" between two calls, else the loop p is in
          k,     \* the provider or the king p's loop has come to
          vals,  \* p's vector
          call   \* how many calls p has started

vars == <<pc, k, vals, call, netVars>>

(* Both receiving loops run over 1, 2, ..., nP and skip the party itself.  *)
Others(p)   == Parties \ {p}
FirstPeer(p)   == IF p = 1 THEN 2 ELSE 1
(* Variant: both loops stop before the last party. *)
PeerAfter_StopsShort(p, j) ==
  LET next == IF j + 1 = p THEN j + 2 ELSE j + 1
  IN  IF next >= nP THEN nP + 1 ELSE next
PeerAfter(p, j) == IF j + 1 = p THEN j + 2 ELSE j + 1

Init ==
  /\ pc   = [p \in Parties |-> "idle"]
  /\ k    = [p \in Parties |-> nP + 1]
  /\ vals = [p \in Parties |-> [x \in Idx |-> Share(p)]]
  /\ call = [p \in Parties |-> 0]
  /\ NetInit

(* recv of the block of values B from j, after which p's vector is new.     *)
RecvBlock(p, j, B, new) ==
  /\ ~MustFlush(p, j)
  /\ \/ B = {} /\ UNCHANGED <<vals, netVars>>
     \/ B # {} /\ Arrived(p, j) /\ Consume(p, j) /\ vals' = [vals EXCEPT ![p] = new]

(* The call, with fresh shares: send to every king the shares of its block. *)
SendShares(p) ==
  /\ pc[p] = "idle" /\ call[p] < Calls
  /\ call' = [call EXCEPT ![p] = @ + 1]
  /\ vals' = [vals EXCEPT ![p] = [x \in Idx |-> Share(p)]]
  /\ Send(p, [king \in {q \in Others(p) : HasValues(q)} |->
                [call |-> call[p] + 1, kind |-> "share",
                 data |-> [x \in Block(king) |-> Share(p)]]])
  /\ pc' = [pc EXCEPT ![p] = "collect"]
  /\ k'  = [k EXCEPT ![p] = FirstPeer(p)]

(* Variant: the received share replaces the sum so far. *)
Collect_Overwrites(p) ==
  /\ pc[p] = "collect" /\ k[p] \in Parties
  /\ RecvBlock(p, k[p], Block(p), [x \in Idx |->
       IF x \in Block(p) THEN NextMsg(p, k[p]).data[x] ELSE vals[p][x]])
  /\ k' = [k EXCEPT ![p] = PeerAfter(p, @)]
  /\ UNCHANGED <<pc, call>>

(* As P_king, add the next provider's shares of my block.                  *)
Collect(p) ==
  /\ pc[p] = "collect" /\ k[p] \in Parties
  /\ RecvBlock(p, k[p], Block(p), [x \in Idx |->
       IF x \in Block(p) THEN Plus(vals[p][x], NextMsg(p, k[p]).data[x]) ELSE vals[p][x]])
  /\ k' = [k EXCEPT ![p] = PeerAfter(p, @)]
  /\ UNCHANGED <<pc, call>>

(* As P_king, send the sums of my block to everybody else.                 *)
Distribute(p) ==
  /\ pc[p] = "collect" /\ k[p] > nP
  /\ Send(p, [receiver \in {q \in Others(p) : HasValues(p)} |->
                [call |-> call[p], kind |-> "sum", data |-> Restricted(vals[p], Block(p))]])
  /\ pc' = [pc EXCEPT ![p] = "receive"]
  /\ k'  = [k EXCEPT ![p] = FirstPeer(p)]
  /\ UNCHANGED <<vals, call>>

(* Take the sums of the next king's block.                                 *)
Receive(p) ==
  /\ pc[p] = "receive" /\ k[p] \in Parties
  /\ RecvBlock(p, k[p], Block(k[p]), [x \in Idx |->
       IF x \in Block(k[p]) THEN NextMsg(p, k[p]).data[x] ELSE vals[p][x]])
  /\ k' = [k EXCEPT ![p] = PeerAfter(p, @)]
  /\ UNCHANGED <<pc, call>>

(* The call returns when the sums of all kings are in.                     *)
Return(p) ==
  /\ pc[p] = "receive" /\ k[p] > nP
  /\ pc' = [pc EXCEPT ![p] = "idle"]
  /\ UNCHANGED <<k, vals, call, netVars>>

(* The flush every recv starts with.                                       *)
RecvFlush(p) ==
  /\ pc[p] \in {"collect", "receive"} /\ k[p] \in Parties
  /\ FlushTo(p, k[p])
  /\ UNCHANGED <<pc, k, vals, call>>

Step(p) == SendShares(p) \/ Collect(p) \/ Distribute(p) \/ Receive(p) \/ Return(p)
             \/ RecvFlush(p)

Next == \E p \in Parties : Step(p)

(* Each party is a thread that runs whenever it is not blocked in a recv.  *)
Fairness == \A p \in Parties : WF_vars(Step(p))

Spec == Init /\ [][Next]_vars /\ Fairness

-----------------------------------------------------------------------------
(* What travels: the entries of one block, each share counted at most once. *)
Data == UNION {[Block(j) -> [Parties -> 0..1]] : j \in Parties}
Msg  == [call : Nat, kind : {"share", "sum"}, data : Data]

(* The types: a party's loop never leaves 1..nP+1, and what it adds up are  *)
(* counts of shares, never negative (semi_evaluator.cpp:458-544).           *)
TypeOK ==
  /\ pc   \in [Parties -> {"idle", "collect", "receive"}]
  /\ k    \in [Parties -> 1..(nP + 1)]
  /\ vals \in [Parties -> [Idx -> [Parties -> Nat]]]
  /\ call \in [Parties -> Nat]
  /\ NetTypeOK(Msg)

(* Framing: the next message on the stream a party is about to read is the *)
(* one this recv is meant for, of this call and for this loop, even though *)
(* the sender may already be a call ahead (semi_evaluator.cpp:495-541).    *)
Framing ==
  \A p \in Parties :
    pc[p] \in {"collect", "receive"} /\ k[p] \in Parties /\ Arrived(p, k[p]) =>
      LET m == NextMsg(p, k[p])
          B == Block(IF pc[p] = "collect" THEN p ELSE k[p])
      IN  B # {} =>
            /\ m.call = call[p]
            /\ m.kind = IF pc[p] = "collect" THEN "share" ELSE "sum"
            /\ DOMAIN m.data = B

(* "At the end, each party's val vector should be the sum over all val     *)
(* vectors at the start" (semi_evaluator.cpp:464): every share counted     *)
(* exactly once at every index.                                            *)
Reconstructed ==
  \A p \in Parties :
    pc[p] = "idle" /\ call[p] > 0 => vals[p] = [x \in Idx |-> Sum]

(* A king never distributes a sum that misses a share: what is on any      *)
(* stream as a sum is complete.                                            *)
OnlyFullSumsSent ==
  \A p, q \in Parties : \A i \in 1..Len(log[p][q]) :
    log[p][q][i].kind = "sum" => log[p][q][i].data = [x \in Block(p) |-> Sum]

(* The reconstruction is a barrier: no party is ever more than one call    *)
(* ahead of another, so at most one call's messages wait behind another's. *)
OneCallAhead == \A p, q \in Parties : call[p] <= call[q] + 1

(* All-ahead streams stay short: what a party has not read yet is at most  *)
(* the end of its own call and the start of the next.                      *)
BoundedBacklog == \A p, q \in Parties : Len(log[p][q]) - read[p][q] <= 2

(* Although sends stay in the sender's buffer, nobody waits forever:       *)
(* every party gets through all its calls.                                 *)
AllReturn == <>(\A p \in Parties : pc[p] = "idle" /\ call[p] = Calls)

-----------------------------------------------------------------------------
(***************************************************************************)
(* The inductive invariant: how far p has come determines how many         *)
(* messages it has written to, and read from, each peer; what the i-th     *)
(* message of a stream is; and which shares its vector has absorbed.  It    *)
(* is stated for NumVals >= nP, where every block has values and no recv is  *)
(* of zero bytes.                                                          *)
(***************************************************************************)
NSent(p) == IF pc[p] = "collect" THEN 2 * call[p] - 1 ELSE 2 * call[p]

NRead(p, q) ==
  CASE pc[p] = "idle"    -> 2 * call[p]
    [] pc[p] = "collect" -> 2 * call[p] - 2 + (IF q < k[p] THEN 1 ELSE 0)
    [] pc[p] = "receive" -> 2 * call[p] - 1 + (IF q < k[p] THEN 1 ELSE 0)

ControlInv ==
  \A p \in Parties :
    /\ pc[p] # "idle" => call[p] > 0 /\ k[p] # p
    /\ pc[p] = "idle" => k[p] = nP + 1

StreamInv ==
  \A p \in Parties : \A q \in Others(p) :
    /\ Len(log[p][q]) = NSent(p)
    /\ read[q][p] = NRead(p, q)

ShareMsg(p, q, c) ==
  [call |-> c, kind |-> "share", data |-> [x \in Block(q) |-> Share(p)]]

SumMsg(p, c) == [call |-> c, kind |-> "sum", data |-> [x \in Block(p) |-> Sum]]

ContentInv ==
  \A p \in Parties : \A q \in Others(p) : \A c \in Nat \ {0} :
    /\ 2 * c - 1 <= Len(log[p][q]) => log[p][q][2 * c - 1] = ShareMsg(p, q, c)
    /\ 2 * c <= Len(log[p][q])     => log[p][q][2 * c] = SumMsg(p, c)

NoSelfInv == \A p \in Parties : log[p][p] = << >>

(* The shares party p has added, as P_king, when its loop has come to j.   *)
Absorbed(p, j) == [s \in Parties |-> IF s = p \/ s < j THEN 1 ELSE 0]

ValsInv ==
  \A p \in Parties : \A x \in Idx :
    /\ pc[p] = "collect" =>
         vals[p][x] = IF x \in Block(p) THEN Absorbed(p, k[p]) ELSE Share(p)
    /\ pc[p] = "receive" =>
         \A j \in Parties : x \in Block(j) /\ (j = p \/ j < k[p]) => vals[p][x] = Sum
    /\ pc[p] = "idle" /\ call[p] > 0 => vals[p][x] = Sum

(* All of it together is inductive.                                         *)
IInv == TypeOK /\ NetOK /\ ControlInv /\ StreamInv /\ ContentInv /\ NoSelfInv /\ ValsInv

-----------------------------------------------------------------------------
(* The abstract specification: an atomic opening, in which nobody returns  *)
(* before everybody has contributed.                                       *)
Result(p) == IF pc[p] = "idle" /\ call[p] > 0 THEN vals[p] ELSE << >>

Atomic == INSTANCE Opening WITH
            Value       <- [x \in Idx |-> Sum],
            None        <- << >>,
            contributed <- call,
            returned    <- [p \in Parties |-> IF pc[p] = "idle" THEN call[p] ELSE call[p] - 1],
            result      <- [p \in Parties |-> Result(p)]

(* Every behaviour of the message-level reconstruction, seen through call   *)
(* counts and results, is one of the atomic opening: nobody returns from    *)
(* semi_evaluator.cpp:458-544 with anything but the sums, nor before        *)
(* everybody has contributed, and everybody does return.                    *)
AtomicOpening == Atomic!Spec
=============================================================================
