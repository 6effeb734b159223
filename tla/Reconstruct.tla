---------------------------- MODULE Reconstruct ----------------------------
(***************************************************************************)
(* The exchanges of zkfliop::Evaluator message by message: reconstruct     *)
(* with its two strategies, the digests and the nonce that ride along, and *)
(* the accept bits (src/src/protocol/zkfliop_evaluator.cpp, 606-851 and     *)
(* 1726-1771).  Plan is the sequence of calls that all parties make.        *)
(*                                                                         *)
(* A vector is held as its blocks, one per party (the block that the party *)
(* is P_king of), the nonce as block 0.  A block is the number of times     *)
(* each party's share is in it, and the effects of faults that are in it.   *)
(***************************************************************************)
EXTENDS NetIOMP, SequencesExt

CONSTANTS nP,         \* number of computing parties
          Plan,       \* the calls: [mode, n, include, check, nonce], where n
                      \*   is vals.size()
          MaxFaults   \* bound: how many times a party alters what it sends

Parties == 1..nP
Blocks  == 1..nP

ASSUME ReconstructAssumption ==
  /\ nP \in Nat /\ nP >= 2 /\ Procs = Parties /\ MaxFaults \in Nat
  /\ Len(Plan) \in Nat /\ DOMAIN Plan = 1..Len(Plan)
  /\ \A i \in DOMAIN Plan :
       /\ Plan[i].n \in Nat \ {0} /\ Plan[i].mode \in {"pking", "broadcast", "accept"}
       /\ {Plan[i].include, Plan[i].check, Plan[i].nonce} \subseteq BOOLEAN
       /\ Plan[i].include => ~Plan[i].check /\ ~Plan[i].nonce
       /\ Plan[i].mode = "accept" => ~Plan[i].include /\ ~Plan[i].check /\ ~Plan[i].nonce

VARIABLES pc,        \* "idle", the stage of the call p is in, or "aborted"
          k,         \* p's next read in this stage
          call,      \* how many calls p has started
          vals,      \* p's vector and nonce
          consHash,  \* what is in pking_consistency_hash_
          openHash,  \* what is in check_opening_hash_
          agree,     \* match, or accept: what p has read so far agrees
          bad,       \* pairwise_consistency_mismatch_ or opening_commit_mismatch_
          rounds,    \* proof_rounds_
          faults,    \* how many alterations there have been
          shown      \* history: the digest or bit that p sent in every call

vars == <<pc, k, call, vals, consHash, openHash, agree, bad, rounds, faults, shown, netVars>>

Cur(p) == Plan[call[p]]

(* With fewer values than parties only the last block has any.             *)
HasValues(c, b) == b = nP \/ c.n >= nP

(* No fault need have the effect of another.                               *)
Effects == 1..MaxFaults

Block(share, off) == [share |-> share, off |-> off]
Whole      == [q \in Parties |-> 1]
Right      == [b \in Blocks \cup {0} |-> Block(Whole, {})]
Own(p)     == Block([q \in Parties |-> IF q = p THEN 1 ELSE 0], {})
Plus(v, w) == Block([q \in Parties |-> v.share[q] + w.share[q]], v.off \cup w.off)

(* All loops run over 1, 2, ..., nP and skip the party itself.             *)
NumPeers        == nP - 1
PeerAt(p, i)    == IF i < p THEN i ELSE i + 1
Only(cond, seq) == IF cond THEN seq ELSE << >>

-----------------------------------------------------------------------------
(* What a party sends and reads in a call.  A message or a read names its   *)
(* kind and the blocks it carries.                                         *)
Read(q, kind, blocks) == [from |-> q, kind |-> kind, blocks |-> blocks]

Digests(p, c) == Only(c.check, [i \in 1..NumPeers |-> Read(PeerAt(p, i), "digest", {})])

Share(p, c, q) ==
  CASE c.mode = "pking"     -> Read(q, "share", {p})
    [] c.mode = "broadcast" -> Read(q, "share", Blocks)
    [] c.mode = "accept"    -> Read(q, "bit", {})

(* A nonce is read right after the share of the same peer.                 *)
Shares(p, c) ==
  IF c.nonce /\ (c.mode = "broadcast" \/ p = 1)
  THEN [i \in 1..(2 * NumPeers) |-> LET q == PeerAt(p, (i + 1) \div 2)
                                    IN  IF i % 2 = 1 THEN Share(p, c, q) ELSE Read(q, "nonce", {0})]
  ELSE [i \in 1..NumPeers |-> Share(p, c, PeerAt(p, i))]

(* Variant: the digests are read last. *)
FirstReads_DigestsLast == [p \in Parties |-> [n \in DOMAIN Plan |->
  Shares(p, Plan[n]) \o Digests(p, Plan[n])]]

FirstReads == [p \in Parties |-> [n \in DOMAIN Plan |->
  Digests(p, Plan[n]) \o Shares(p, Plan[n])]]

SumReads == [p \in Parties |-> [n \in DOMAIN Plan |->
  [i \in 1..NumPeers |-> LET q == PeerAt(p, i) IN Read(q, "sum", {q})]
    \o Only(Plan[n].nonce /\ p > 1, <<Read(1, "nonceSum", {0})>>)]]

Reads(p) == IF pc[p] = "sums" THEN SumReads[p][call[p]] ELSE FirstReads[p][call[p]]

Reading(p) == pc[p] \in {"shares", "sums"} /\ k[p] <= Len(Reads(p))

-----------------------------------------------------------------------------
Init ==
  /\ pc = [p \in Parties |-> "idle"] /\ k = [p \in Parties |-> 1]
  /\ call = [p \in Parties |-> 0]
  /\ vals = [p \in Parties |-> [b \in Blocks \cup {0} |-> Own(p)]]
  /\ consHash = [p \in Parties |-> << >>] /\ openHash = [p \in Parties |-> << >>]
  /\ agree = [p \in Parties |-> TRUE]
  /\ bad = [p \in Parties |-> FALSE] /\ rounds = [p \in Parties |-> 0]
  /\ faults = 0 /\ shown = [p \in Parties |-> << >>] /\ NetInit

Goto(p, s) == pc' = [pc EXCEPT ![p] = s] /\ k' = [k EXCEPT ![p] = 1]

Data(v, blocks) == [b \in blocks |-> v[b]]

(* A fault may send every receiver something else: alter[q] is what it does *)
(* to what q is sent, to its block b or to the nonce.                       *)
Alterations(p)   == [Parties \ {p} -> SUBSET Effects]
Target(b, nonce) == IF nonce THEN 0 ELSE b
None(alter)      == \A q \in DOMAIN alter : alter[q] = {}
Altered(v, b, e) == [v EXCEPT ![b].off = @ \cup e]

Faulty(alter) == /\ None(alter) \/ faults < MaxFaults
                 /\ faults' = faults + (IF None(alter) THEN 0 ELSE 1)

Fresh(p) == [b \in Blocks \cup {0} |-> Own(p)]

(* What a call tells the others besides values: the digest or the bit.     *)
Says(p, c) == IF c.mode = "accept" THEN ~bad[p] ELSE IF c.check THEN consHash[p] ELSE << >>

(* What p sends to q when call n begins, where it holds v: the digest, the  *)
(* block that q is king of or the whole vector, the nonce to party 1 or to  *)
(* all; or the bit.                                                        *)
Outgoing(p, q, n, v) ==
  LET c == Plan[n]
      M(kind, data) == [call |-> n, kind |-> kind, data |-> data]
  IN  Only(c.check, <<M("digest", Says(p, c))>>) \o
      (CASE c.mode = "pking"     -> Only(HasValues(c, q), <<M("share", Data(v, {q}))>>)
                                      \o Only(c.nonce /\ q = 1, <<M("nonce", Data(v, {0}))>>)
         [] c.mode = "broadcast" -> <<M("share", Data(v, Blocks))>>
                                      \o Only(c.nonce, <<M("nonce", Data(v, {0}))>>)
         [] c.mode = "accept"    -> <<M("bit", Says(p, c))>>)

(* A call begins with all its sends.                                       *)
Start(p) ==
  LET n == call[p] + 1
      c == Plan[n]
  IN  /\ pc[p] = "idle" /\ call[p] < Len(Plan)
      /\ call' = [call EXCEPT ![p] = n]
      /\ vals' = [vals EXCEPT ![p] = Fresh(p)]
      /\ agree' = [agree EXCEPT ![p] = IF c.mode = "accept" THEN Says(p, c) ELSE TRUE]
      /\ shown' = [shown EXCEPT ![p] = Append(@, Says(p, c))]
      /\ \E alter \in Alterations(p), nonce \in {FALSE, c.nonce} :
           /\ c.mode = "accept" => None(alter)
           /\ Faulty(alter)
           /\ SendAll(p, [q \in Parties \ {p} |->
                Outgoing(p, q, n, Altered(Fresh(p), Target(q, nonce), alter[q]))])
      /\ Goto(p, "shares")
      /\ UNCHANGED <<consHash, openHash, bad, rounds>>

(* Variant: the others' bits are read and forgotten. *)
Compared_OwnBit(p, kind, m) ==
  IF kind = "digest" THEN agree[p] /\ m.data = consHash[p] ELSE agree[p]

(* What a read does to match, or to accept.                                *)
Compared(p, kind, m) ==
  CASE kind = "digest" -> agree[p] /\ m.data = consHash[p]
    [] kind = "bit"    -> agree[p] /\ m.data
    [] OTHER           -> agree[p]

(* The next read: a digest or a bit is compared, shares are added, sums    *)
(* replace what was there.  Zero bytes are read without waiting.           *)
Take(p) ==
  LET r == Reads(p)[k[p]]
      m == NextMsg(p, r.from)
      empty == r.kind \in {"share", "sum"} /\ \A b \in r.blocks : ~HasValues(Cur(p), b)
      says == Compared(p, r.kind, m)
      lastDigest == r.kind = "digest" /\ r.from = PeerAt(p, NumPeers)
  IN  /\ Reading(p) /\ ~MustFlush(p, r.from)
      /\ IF empty THEN UNCHANGED <<vals, agree, bad, consHash, netVars>>
         ELSE /\ Arrived(p, r.from) /\ Consume(p, r.from)
              /\ vals' = [vals EXCEPT ![p] = [b \in DOMAIN @ |->
                   IF b \notin r.blocks THEN @[b]
                   ELSE IF r.kind \in {"sum", "nonceSum"} THEN m.data[b]
                   ELSE Plus(@[b], m.data[b])]]
              /\ agree' = [agree EXCEPT ![p] = says]
              /\ bad' = [bad EXCEPT ![p] = @ \/ (lastDigest /\ ~says)]
              /\ consHash' = [consHash EXCEPT ![p] = IF lastDigest THEN << >> ELSE @]
      /\ k' = [k EXCEPT ![p] = @ + 1]
      /\ UNCHANGED <<pc, call, openHash, rounds, faults, shown>>

RecvFlush(p) ==
  /\ Reading(p) /\ FlushTo(p, Reads(p)[k[p]].from)
  /\ UNCHANGED <<pc, k, call, vals, consHash, openHash, agree, bad, rounds, faults, shown>>

Sums(p, q, v) ==
  LET M(kind, data) == [call |-> call[p], kind |-> kind, data |-> data]
  IN  Only(HasValues(Cur(p), p), <<M("sum", Data(v, {p}))>>)
        \o Only(Cur(p).nonce /\ p = 1, <<M("nonceSum", Data(v, {0}))>>)

(* A king has all shares of its block and sends out the sums, party 1 the  *)
(* nonce along with them.                                                  *)
Distribute(p) ==
  /\ pc[p] = "shares" /\ Cur(p).mode = "pking" /\ k[p] > Len(Reads(p))
  /\ \E alter \in Alterations(p), nonce \in {FALSE, Cur(p).nonce /\ p = 1} :
       /\ ~HasValues(Cur(p), p) /\ ~nonce => None(alter)
       /\ Faulty(alter)
       /\ SendAll(p, [q \in Parties \ {p} |-> Sums(p, q, Altered(vals[p], Target(p, nonce), alter[q]))])
  /\ rounds' = [rounds EXCEPT ![p] = @ + 1]
  /\ Goto(p, "sums")
  /\ UNCHANGED <<call, vals, consHash, openHash, agree, bad, shown>>

(* The vector as it is hashed: there is nothing of an empty block, and the *)
(* nonce only where one is opened, which is what a digest is taken at.      *)
Hashed(c) == {b \in Blocks : c.mode = "pking" => HasValues(c, b)} \cup IF c.nonce THEN {0} ELSE {}
Seen(p)   == [b \in Blocks \cup {0} |-> IF b \in Hashed(Cur(p)) THEN vals[p][b] ELSE Right[b]]

(* Variant: whatever is opened goes into the hash. *)
Put_Always(p) == consHash' = [consHash EXCEPT ![p] = Append(@, Seen(p))]

(* reconstruct itself keeps what the parties will compare ...              *)
Put(p) ==
  consHash' = [consHash EXCEPT ![p] = IF Cur(p).include THEN Append(@, Seen(p)) ELSE @]

(* ... and openAdditive, which includes nothing, what it will compare with  *)
(* the dealer's commitment once the nonce is open.                         *)
Verify(p) ==
  LET c == Cur(p)
      committed == c.mode # "accept" /\ ~c.include
      hash == IF committed THEN Append(openHash[p], Seen(p)) ELSE openHash[p]
  IN  /\ openHash' = [openHash EXCEPT ![p] = IF c.nonce THEN << >> ELSE hash]
      /\ bad' = [bad EXCEPT ![p] = @ \/ (c.nonce /\ \E i \in DOMAIN hash : hash[i] # Right)]

(* The call returns; an accept that failed throws instead.                 *)
Return(p) ==
  LET c == Cur(p)
  IN  /\ pc[p] \in {"shares", "sums"} /\ (c.mode = "pking" => pc[p] = "sums")
      /\ k[p] > Len(Reads(p))
      /\ Put(p) /\ Verify(p)
      /\ rounds' = [rounds EXCEPT ![p] = @ + 1]
      /\ Goto(p, IF c.mode = "accept" /\ ~agree[p] THEN "aborted" ELSE "idle")
      /\ UNCHANGED <<call, vals, agree, faults, shown, netVars>>

Step(p) == Start(p) \/ Take(p) \/ RecvFlush(p) \/ Distribute(p) \/ Return(p)

Next == \E p \in Parties : Step(p)

Spec == Init /\ [][Next]_vars /\ \A p \in Parties : WF_vars(Step(p))

-----------------------------------------------------------------------------
TypeOK ==
  /\ pc \in [Parties -> {"idle", "shares", "sums", "aborted"}]
  /\ call \in [Parties -> 0..Len(Plan)]
  /\ \A p \in Parties : pc[p] \in {"shares", "sums"} => k[p] \in 1..(Len(Reads(p)) + 1)
  /\ \A p \in Parties : DOMAIN vals[p] = Blocks \cup {0}
  /\ agree \in [Parties -> BOOLEAN] /\ bad \in [Parties -> BOOLEAN]
  /\ rounds \in [Parties -> Nat] /\ faults \in 0..MaxFaults

(* Digests, blocks, nonces and bits travel over the same streams: what a    *)
(* party is about to read is what the read is meant for, of this call       *)
(* (637-671, 682-714, 743-768, 795-839).                                   *)
Framing ==
  \A p \in Parties : Reading(p) =>
    LET r == Reads(p)[k[p]]
        m == NextMsg(p, r.from)
    IN  Arrived(p, r.from) /\ (r.kind \in {"share", "sum"} =>
                                 \E b \in r.blocks : HasValues(Cur(p), b)) =>
          /\ m.call = call[p] /\ m.kind = r.kind
          /\ r.blocks # {} => DOMAIN m.data = r.blocks

(* Nobody waits for ever, although sends may stay in the sender's buffer    *)
(* and parties may give up: each party makes all the calls or aborts.      *)
AllReturn == <>(\A p \in Parties : pc[p] = "aborted" \/ (pc[p] = "idle" /\ call[p] = Len(Plan)))

-----------------------------------------------------------------------------
(* The calls that p has compared the digests of.                           *)
Checked(p) ==
  LET over == IF pc[p] = "shares" /\ k[p] <= Len(Digests(p, Cur(p)))
              THEN call[p] - 1 ELSE call[p]
  IN  {n \in 1..over : Plan[n].check}

Ended(p) == pc[p] \in {"idle", "aborted"}

Exchange == INSTANCE CheckedOpening WITH
  Views    <- [Blocks \cup {0} -> {Block(Whole, off) : off \in SUBSET Effects}],
  checked  <- [p \in Parties |-> Checked(p)],
  returned <- [p \in Parties |-> IF Ended(p) THEN call[p] ELSE call[p] - 1],
  kept     <- consHash,
  opened   <- openHash,
  gone     <- [p \in Parties |-> pc[p] = "aborted"]

(* The exchanges implement checked openings: every check compares what all  *)
(* parties kept when they entered the call, every view is of the whole      *)
(* vector, nobody returns before all have contributed, and everybody gives  *)
(* up who should (607-851, 1726-1771).  That calls end is AllReturn.  What  *)
(* CheckedOpening proves of all parties then holds of the exchanges: one    *)
(* fate, agreement on all that was checked, and no mismatch left behind.    *)
ChecksOpenings == Exchange!Init /\ [][Exchange!Next]_(Exchange!vars)
=============================================================================
