------------------------------ MODULE Session ------------------------------
(***************************************************************************)
(* A whole run of a benchmark or a test program: every process creates an  *)
(* evaluator on the same connections, again for each repetition, and calls *)
(* its methods; what the methods do is reduced to the messages they send   *)
(* and receive.  The seed of the shared stream (rand_gen_pool.cpp), the     *)
(* dealer's mail, the exchanges among the parties and the bytes of sync    *)
(* follow each other on the same streams.                                  *)
(***************************************************************************)
EXTENDS NetIOMP

CONSTANTS nP,         \* number of computing parties
          Repeat,     \* the repetitions
          Sessions    \* the programs: [caller, evaluator, providers], where
                      \*   providers are the parties with input wires

Dealer  == 0
Parties == 1..nP

ASSUME SessionAssumption ==
  /\ nP \in Nat /\ nP >= 2 /\ Repeat \in Nat \ {0} /\ Procs = 0..nP
  /\ \A s \in Sessions : /\ s.caller \in {"benchmark", "test"}
                         /\ s.evaluator \in {"semi", "zkfliop"}
                         /\ s.providers \subseteq Parties /\ s.providers # {}

VARIABLES session,    \* the program that runs
          rep,        \* rep[p]: the repetition p is in
          part,       \* part[p]: which part of it
          at          \* at[p]: p's next operation in this part

vars == <<session, rep, part, at, netVars>>

-----------------------------------------------------------------------------
(* What the methods put on the streams.  Messages that are sent together   *)
(* and read together are one.  A receive of zero bytes does not wait, but  *)
(* flushes like any other.                                                 *)
SendTo(dsts, kind) == [do |-> "send", peers |-> dsts, kind |-> kind]
Recv(q, kind)      == [do |-> "recv", peers |-> {q}, kind |-> kind]
RecvNothing(q)     == [do |-> "flush", peers |-> {q}, kind |-> "nothing"]

(* The loops over the other parties go through them in order.              *)
PeerAt(p, i) == IF i < p THEN i ELSE i + 1
PerPeer(p, Each(_)) == [i \in 1..(nP - 1) |-> Each(PeerAt(p, i))]

FromDealer(p, dsts, kind) ==
  IF p = Dealer THEN <<SendTo(dsts, kind)>> ELSE IF p \in dsts THEN <<Recv(Dealer, kind)>> ELSE << >>

Exchange(p, kind) ==
  IF p = Dealer THEN << >> ELSE <<SendTo(Parties \ {p}, kind)>> \o PerPeer(p, LAMBDA q : Recv(q, kind))

(* The evaluator's constructor makes the pool of generators.               *)
Evaluator(p) == FromDealer(p, Parties, "seed")

(* Variant: every party is sent the randomizers of the proof. *)
SetupVerify_ToAll(p) ==
  FromDealer(p, Parties, "commits")
    \o (IF p = Dealer THEN <<SendTo(Parties, "randomizers")>> ELSE FromDealer(p, {1}, "randomizers"))

SetupVerify(p) == FromDealer(p, Parties, "commits") \o FromDealer(p, {1}, "randomizers")

RunSetup(s, p) ==
  FromDealer(p, {nP}, "gamma") \o (IF s.evaluator = "zkfliop" THEN SetupVerify(p) ELSE << >>)

(* setupOutputPhase of the one evaluator, parts A and B of the other.      *)
OutputRandomizers(p) == FromDealer(p, {1}, "output randomizers")

(* Variant: party 1 reads the commitment first. *)
SetupOutputPhaseB_Swapped(p) ==
  IF p = 1 THEN <<Recv(Dealer, "output commit"), Recv(Dealer, "output randomizers")>>
  ELSE OutputRandomizers(p) \o FromDealer(p, Parties, "output commit")

SetupOutputPhaseB(p) == OutputRandomizers(p) \o FromDealer(p, Parties, "output commit")

SetInputs(s, p) ==
  IF p = Dealer THEN << >>
  ELSE (IF p \in s.providers THEN <<SendTo(Parties \ {p}, "inputs")>> ELSE << >>)
         \o PerPeer(p, LAMBDA q : IF q \in s.providers THEN Recv(q, "inputs") ELSE RecvNothing(q))
         \o (IF s.evaluator = "zkfliop" THEN Exchange(p, "digest") \o Exchange(p, "accept") ELSE << >>)

EvaluateCircuit(s, p) ==
  Exchange(p, "shares") \o (IF s.evaluator = "zkfliop" THEN Exchange(p, "proof") ELSE << >>)

GetOutputs(s, p) ==
  Exchange(p, "outputs") \o (IF s.evaluator = "zkfliop" THEN Exchange(p, "output accept") ELSE << >>)

(* The two ends of a pair send each other a byte and wait for it.          *)
SyncSend(q) == [do |-> "sync", peers |-> {q}, kind |-> "sync"]
SyncRecv(q) == Recv(q, "sync")

(* Variant: every process begins with the next one. *)
Sync_Rotated(p) ==
  [i \in 1..(2 * nP) |-> LET q == (p + (i + 1) \div 2) % (nP + 1)
                         IN  IF i % 2 = 1 THEN SyncSend(q) ELSE SyncRecv(q)]

(* Variant: who is first in a pair does not wait for the other. *)
Sync_OneSided(p) ==
  [i \in 1..(nP + p) |-> LET q == (i - 1) \div 2
                         IN  IF i > 2 * p THEN SyncSend(i - p)
                             ELSE IF i % 2 = 1 THEN SyncSend(q) ELSE SyncRecv(q)]

(* sync goes through all pairs of processes in the same order, and calls    *)
(* emp's NetIO::sync on both connections of a pair.  That is not in the     *)
(* repository: it is taken to send a byte, flush it and wait for the peer's. *)
(* One exchange in a pair stands for the two, the second of which begins    *)
(* where both ends have just met and leaves nothing on the streams.        *)
Sync(p) ==
  [i \in 1..(2 * nP) |-> LET q == PeerAt(p, (i - 1) \div 2)
                         IN  IF i % 2 = 1 THEN SyncSend(q) ELSE SyncRecv(q)]

(* Variant: tests provide the inputs before they synchronize. *)
Parts_InputsEarly(s, p) ==
  LET before == IF s.evaluator = "semi" THEN OutputRandomizers(p) ELSE << >>
      after  == IF s.evaluator = "zkfliop" THEN SetupOutputPhaseB(p) ELSE << >>
  IN  <<Evaluator(p), before \o RunSetup(s, p) \o after \o SetInputs(s, p),
        EvaluateCircuit(s, p) \o GetOutputs(s, p), << >>>>

(* What a process does in a repetition, cut where it calls sync.           *)
Parts(s, p) ==
  LET before == IF s.evaluator = "semi" THEN OutputRandomizers(p) ELSE << >>
      after  == IF s.evaluator = "zkfliop" THEN SetupOutputPhaseB(p) ELSE << >>
  IN  IF s.caller = "benchmark"
      THEN <<Evaluator(p) \o before,
             RunSetup(s, p) \o after \o SetInputs(s, p),
             EvaluateCircuit(s, p) \o GetOutputs(s, p)>>
      ELSE <<Evaluator(p),
             before \o RunSetup(s, p) \o after,
             SetInputs(s, p) \o EvaluateCircuit(s, p) \o GetOutputs(s, p), << >>>>

Script == [s \in Sessions |-> [p \in Procs |->
  LET parts == Parts(s, p)
  IN  [i \in 1..Len(parts) |-> IF i = 1 THEN parts[i] ELSE Sync(p) \o parts[i]]]]

-----------------------------------------------------------------------------
Init ==
  /\ session \in Sessions
  /\ rep = [p \in Procs |-> 1] /\ part = [p \in Procs |-> 1] /\ at = [p \in Procs |-> 1]
  /\ NetInit

NumParts == Len(Script[session][Dealer])

Ops(p)  == Script[session][p][part[p]]
Busy(p) == at[p] <= Len(Ops(p))
Op(p)   == Ops(p)[at[p]]
Peer(p) == CHOOSE q \in Op(p).peers : TRUE

Advance(p) == at' = [at EXCEPT ![p] = @ + 1] /\ UNCHANGED <<session, rep, part>>

(* For the properties, a message tells where in the program it was sent.   *)
Message(p) == [kind |-> Op(p).kind, part |-> part[p], rep |-> rep[p]]

SendStep(p) ==
  /\ Busy(p) /\ Op(p).do = "send"
  /\ Send(p, [q \in Op(p).peers |-> Message(p)])
  /\ Advance(p)

SyncStep(p) ==
  /\ Busy(p) /\ Op(p).do = "sync"
  /\ SendNow(p, Peer(p), Message(p))
  /\ Advance(p)

RecvStep(p) ==
  /\ Busy(p) /\ Op(p).do = "recv"
  /\ Arrived(p, Peer(p)) /\ Consume(p, Peer(p))
  /\ Advance(p)

RecvFlush(p) ==
  /\ Busy(p) /\ Op(p).do \in {"recv", "flush"}
  /\ FlushTo(p, Peer(p))
  /\ UNCHANGED <<session, rep, part, at>>

RecvNothingStep(p) ==
  /\ Busy(p) /\ Op(p).do = "flush" /\ ~MustFlush(p, Peer(p))
  /\ Advance(p)
  /\ UNCHANGED netVars

(* The next part, or the next repetition.                                  *)
NextPart(p) ==
  /\ ~Busy(p) /\ (part[p] < NumParts \/ rep[p] < Repeat)
  /\ rep' = [rep EXCEPT ![p] = IF part[p] < NumParts THEN @ ELSE @ + 1]
  /\ part' = [part EXCEPT ![p] = IF @ < NumParts THEN @ + 1 ELSE 1]
  /\ at' = [at EXCEPT ![p] = 1]
  /\ UNCHANGED <<session, netVars>>

Step(p) ==
  SendStep(p) \/ SyncStep(p) \/ RecvStep(p) \/ RecvFlush(p) \/ RecvNothingStep(p) \/ NextPart(p)

Next == \E p \in Procs : Step(p)

Spec == Init /\ [][Next]_vars /\ \A p \in Procs : WF_vars(Step(p))

-----------------------------------------------------------------------------
TypeOK ==
  /\ session \in Sessions /\ rep \in [Procs -> 1..Repeat]
  /\ \A p \in Procs : part[p] \in 1..NumParts /\ at[p] \in 1..(Len(Ops(p)) + 1)
  /\ NetOK

(* What a process is about to read, from whichever part of the program it   *)
(* comes, is what the read is meant for, of the same part and repetition; a *)
(* byte of sync is never taken for data, nor the reverse (netmp.h:112-161,  *)
(* 230-244).                                                               *)
Framing ==
  \A p \in Procs : Busy(p) /\ Op(p).do = "recv" /\ Arrived(p, Peer(p)) =>
    NextMsg(p, Peer(p)) = Message(p)

(* When all processes have ended, every message has been read, also those  *)
(* of the dealer, who never waits for a party outside sync.                *)
Ended(p) == ~Busy(p) /\ part[p] = NumParts /\ rep[p] = Repeat
NothingLeft ==
  (\A p \in Procs : Ended(p)) => \A p, q \in Procs : read[p][q] = Len(log[p][q])

(* What a program measures after a sync does not overlap with what another  *)
(* process does before it (benchmark/fliop.cpp:184-199).                    *)
Stage(p) == NumParts * rep[p] + part[p]
SyncSeparates ==
  \A p \in Procs : part[p] > 1 /\ at[p] > Len(Sync(p)) => \A q \in Procs : Stage(q) >= Stage(p)

(* A party that waits never waits for bytes in its own buffer to do good:   *)
(* everybody gets through all repetitions.                                 *)
AllFinish == <>(\A p \in Procs : Ended(p))
=============================================================================
