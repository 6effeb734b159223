---------------------------- MODULE Verify_proofs ----------------------------
(***************************************************************************)
(* Proofs about the control and the checks of Verify, for any number of    *)
(* parties, any circuit and any faults.  First: the mail of the dealer is  *)
(* read in order, no party is more than a round ahead, and all come to the *)
(* same verdicts.  Then: nothing is left unchecked when the triple and the *)
(* outputs are opened, and what is relied on has been seen alike and as it  *)
(* is by all parties.  At the end: the dealer's run of verify() and the    *)
(* parties' draw the same from their streams and come to the same digests, *)
(* and in a run without faults no check fails; what proof_rounds_ counts,   *)
(* and the types.                                                          *)
(***************************************************************************)
EXTENDS Verify, FiniteSetTheorems, TLAPS

(* The steps of the two kinds of processes.                                *)
Setup       == {"outputA", "gates"} \cup DOMAIN Expected
PartySteps  == Setup \cup RoundSteps \cup {"y_0", "done", "aborted"}
DealerSteps == VerifySteps \cup {"outputA", "gates", "verified", "sendRandomizers", "outputB",
                                 "sendOutputCommit", "done"}

Bits    == BOOLEAN \X BOOLEAN
Entries == [step : Openings, view : {0, 1}]
Digests == Seq(Entries)
Messages == [step : RoundSteps, content : Bits \cup Digests]
Verdicts == [step : Accepts, bits : Bits]

FlowType ==
  /\ pc \in [Procs -> PartySteps \cup DealerSteps]
  /\ pc[0] \in DealerSteps /\ \A p \in Parties : pc[p] \in PartySteps
  /\ waiting \in [Procs -> BOOLEAN] /\ \A p \in Parties : waiting[p] => pc[p] \in RoundSteps
  /\ level \in [Procs -> 1..MultLevels]
  /\ DOMAIN size = Procs
  /\ sent \in [Parties -> Seq(Messages)]
  /\ verdicts \in [Parties -> Seq(Verdicts)]
  /\ views \in [Parties -> Digests] /\ consHash \in [Parties -> Digests]
  /\ consBad \in [Parties -> BOOLEAN] /\ openBad \in [Parties -> BOOLEAN]

-----------------------------------------------------------------------------
(* The round a party is in, or about to enter; y_0 and the setup take place *)
(* before one.                                                             *)
RoundOf(s) == IF s \in Setup THEN "inputs" ELSE IF s = "y_0" THEN "triple" ELSE s
At(p)      == RoundOf(pc[p])
Round(p)   == IF waiting[p] THEN LastRound(p) ELSE LastRound(p) + 1

SamePlace(p, q) ==
  /\ At(q) = At(p) /\ level[q] = level[p] /\ size[q] = size[p]
  /\ verdicts[q] = verdicts[p]

(* Whoever has completed the round that p is in: what has become of it can  *)
(* be told from what p has got.                                            *)
GivesUp(p)   == At(p) \in Accepts /\ ~Accepted(Verdict(p))
NextAt(p)    == IF GivesUp(p) THEN "aborted" ELSE RoundOf(AfterRound(p, At(p)))
NextLevel(p) == IF At(p) = "online" /\ ~LastLevel(level[p]) THEN level[p] + 1 ELSE level[p]
NextSize(p)  == SizeAfter(At(p), size[p])
NextVerdicts(p) ==
  IF At(p) \in Accepts THEN Append(verdicts[p], [step |-> At(p), bits |-> Verdict(p)])
  ELSE verdicts[p]

OneAhead(q, p) ==
  /\ waiting[p] \/ At(p) = "inputs"
  /\ At(q) = NextAt(p) /\ level[q] = NextLevel(p) /\ size[q] = NextSize(p)
  /\ verdicts[q] = NextVerdicts(p)

PairInv(p, q) ==
  /\ Round(q) <= Round(p) + 1
  /\ Round(q) = Round(p) => SamePlace(p, q)
  /\ Round(q) = Round(p) + 1 => OneAhead(q, p)

(* What was sent in a round was sent for the same step by all.             *)
SentInv(p) ==
  /\ waiting[p] => LastRound(p) >= 1 /\ sent[p][LastRound(p)].step = pc[p]
  /\ At(p) = "inputs" <=> Round(p) = 1
  /\ LastRound(p) >= 1 => sent[p][1].step = "inputs"

SameSteps(p, q) ==
  \A r \in DOMAIN sent[p] \cap DOMAIN sent[q] : sent[p][r].step = sent[q][r].step

RoundInv ==
  /\ \A p \in Parties : SentInv(p)
  /\ \A p, q \in Parties : PairInv(p, q) /\ SameSteps(p, q)

-----------------------------------------------------------------------------
(* The dealer is process 0, the others are the parties.                    *)
LEMMA ProcFacts ==
  /\ Procs = Parties \cup {0} /\ 0 \notin Parties /\ 1 \in Parties /\ nP \in Parties
  /\ nP # 1 /\ nP \in Nat
BY VerifyAssumption DEF Parties, VerifyAssumption

(* Where the steps of verify() lead, and those of the rounds.              *)
LEMMA AfterFacts ==
  /\ \A s \in VerifySteps : \A n : After(s, n) \in VerifySteps \cup {"verified"}
  /\ \A s \in VerifySteps \cap RoundSteps : \A n :
       s # "accept3" => After(s, n) \in (VerifySteps \cap RoundSteps) \cup {"y_0"}
  /\ \A n : After("y_0", n) = "triple"
BY DEF After, VerifySteps, PrgSteps, SumSteps, RevealSteps, AcceptSteps, RoundSteps, Openings,
       Accepts, OneBit

(* A round leads to another one, to y_0 or to the end of the run.          *)
LEMMA AfterRoundFacts ==
  ASSUME NEW p, NEW s \in RoundSteps
  PROVE  /\ AfterRound(p, s) \in RoundSteps \cup {"y_0", "done"}
         /\ AfterRound(p, s) # "inputs"
<1>1. CASE s \in {"inputs", "inputDigest", "acceptInputs", "online", "outputs",
                  "acceptOutputs", "accept3"}
  BY <1>1 DEF AfterRound, RoundSteps, Openings, Accepts, OneBit, PrgSteps, AcceptSteps
<1>2. CASE s \notin {"inputs", "inputDigest", "acceptInputs", "online", "outputs",
                     "acceptOutputs", "accept3"}
  <2>1. s \in VerifySteps \cap RoundSteps /\ s # "accept3"
    BY <1>2 DEF VerifySteps, RoundSteps, Openings, Accepts, OneBit
  <2>2. AfterRound(p, s) = After(s, SizeAfter(s, size[p]))
    BY <1>2 DEF AfterRound
  <2>3. "inputs" \notin VerifySteps
    BY DEF VerifySteps, PrgSteps, SumSteps, RevealSteps, AcceptSteps
  <2> QED
    BY <2>1, <2>2, <2>3, AfterFacts
<1> QED
  BY <1>1, <1>2

(* The setup, the rounds and the ends of a party are different steps.      *)
LEMMA StepFacts ==
  /\ \A s \in Setup : s \notin RoundSteps /\ s \notin {"y_0", "done", "aborted"}
  /\ \A s \in {"y_0", "done", "aborted"} : s \notin RoundSteps
  /\ "inputs" \in RoundSteps /\ "triple" \in RoundSteps
  /\ \A s \in RoundSteps : s \in Openings \/ s \in Accepts \/ s = "inputDigest"
  /\ \A s \in Accepts : s \notin Openings /\ s # "inputDigest" /\ s \in RoundSteps
  /\ \A s \in Openings : s \in RoundSteps
  /\ "inputs" \notin Accepts /\ "online" \notin Accepts /\ "alpha" \notin Accepts
BY DEF Setup, Expected, RoundSteps, Openings, Accepts, OneBit, PrgSteps, SumSteps, RevealSteps,
       AcceptSteps

(* What a party sends in an accept round is a pair of bits.                *)
LEMMA OwnBitsType ==
  ASSUME NEW p, NEW ok \in BOOLEAN, pc[p] \in Accepts, consBad[p] \in BOOLEAN,
         openBad[p] \in BOOLEAN
  PROVE  OwnBits(p, ok) \in Bits
BY DEF OwnBits, Bits, AllSameAs, Accepts, OneBit, AcceptSteps

(* What a party sends in a round has its type.                             *)
LEMMA ContentType ==
  ASSUME FlowType, NEW p \in Parties, NEW ok \in BOOLEAN, pc[p] \in RoundSteps
  PROVE  Content(p, ok) \in Bits \cup Digests
<1>1. << >> \in Digests
  BY DEF Digests
<1>2. views[p] \in Digests /\ consHash[p] \in Digests
  BY DEF FlowType
<1>3. pc[p] \in Accepts => OwnBits(p, ok) \in Bits
  BY OwnBitsType DEF FlowType
<1> QED
  BY <1>1, <1>2, <1>3 DEF Content

(* The bits of all, combined with AND, are a pair of bits again.           *)
LEMMA VerdictType ==
  ASSUME NEW p
  PROVE  Verdict(p) \in Bits
BY DEF Verdict, Bits

-----------------------------------------------------------------------------
(* Appending to one of the sequences of a function keeps its type.         *)
LEMMA AppendType ==
  ASSUME NEW D, NEW S, NEW f \in [D -> Seq(S)], NEW p \in D, NEW e \in S
  PROVE  [f EXCEPT ![p] = Append(@, e)] \in [D -> Seq(S)]
OBVIOUS

(* The processes begin in states of the right types.                       *)
LEMMA TypeInit == Init => FlowType
<1> SUFFICES ASSUME Init PROVE FlowType
  OBVIOUS
<1>1. << >> \in Digests /\ << >> \in Seq(Messages)
      /\ << >> \in Seq(Verdicts)
  BY DEF Digests
<1>2. "outputA" \in Setup /\ "outputA" \in DealerSteps
  BY DEF Setup, DealerSteps
<1>3. 1 \in 1..MultLevels
  BY VerifyAssumption DEF VerifyAssumption, NumMults
<1> QED
  BY <1>1, <1>2, <1>3, ProcFacts DEF Init, FlowType, PartySteps

(* The dealer's steps.                                                     *)
LEMMA DealerType ==
  ASSUME FlowType, Dealer
  PROVE  /\ \E s \in DealerSteps : Goto(0, s)
         /\ UNCHANGED <<level, sent, verdicts, views, consHash, consBad, openBad>>
         /\ DOMAIN size' = Procs
<1>1. CASE DealerLocal
  BY <1>1 DEF DealerLocal, FlowType, checks, DealerSteps, VerifySteps, PrgSteps
<1>2. CASE DealerVerify
  <2>1. \A n : After(pc[0], n) \in DealerSteps
    BY <1>2, AfterFacts DEF DealerVerify, DealerSteps
  <2> QED
    BY <1>2, <2>1 DEF DealerVerify, FlowType
<1>3. CASE SendCommits \/ SendRandomizers \/ SendOutputRandomizers \/ SendOutputCommit
  BY <1>3 DEF SendCommits, SendRandomizers, SendOutputRandomizers, SendOutputCommit, FlowType,
              checks, DealerSteps
<1> QED
  BY <1>1, <1>2, <1>3 DEF Dealer

(* A step of a party that sends nothing and completes no round.            *)
LocalStep(p) ==
  /\ \E s \in PartySteps : Goto(p, s) /\ RoundOf(s) = At(p)
  /\ ~waiting[p]
  /\ UNCHANGED <<level, size, sent, verdicts, views, consHash, consBad, openBad>>

(* The setup, reading the mail of the dealer and drawing y_0 take place    *)
(* before a round.                                                         *)
LEMMA LocalSteps ==
  ASSUME FlowType, NEW p \in Parties,
         PartyOutputA(p) \/ PartyGates(p) \/ ReadMail(p) \/ DrawY0(p)
  PROVE  LocalStep(p)
<1>1. waiting[p] => pc[p] \in RoundSteps
  BY DEF FlowType
<1>2. CASE PartyOutputA(p)
  BY <1>1, <1>2, StepFacts DEF PartyOutputA, LocalStep, checks, PartySteps, Setup, At, RoundOf
<1>3. CASE PartyGates(p)
  BY <1>1, <1>3, StepFacts DEF PartyGates, LocalStep, checks, PartySteps, Setup, At, RoundOf, Expected
<1>4. CASE ReadMail(p)
  <2>1. pc[p] \in Setup /\ pc[p] \in DOMAIN Expected
    BY <1>4 DEF ReadMail, Setup
  <2>2. AfterMail(p, pc[p]) \in Setup \cup {"inputs"}
    BY <2>1 DEF AfterMail, Setup, Expected
  <2>3. RoundOf(AfterMail(p, pc[p])) = "inputs" /\ At(p) = "inputs"
    BY <2>1, <2>2 DEF RoundOf, At
  <2> QED
    BY <1>1, <1>4, <2>1, <2>2, <2>3, StepFacts DEF ReadMail, LocalStep, PartySteps
<1>5. CASE DrawY0(p)
  <2>1. pc[p] = "y_0" /\ Goto(p, "triple")
    BY <1>5, AfterFacts DEF DrawY0
  <2>2. "y_0" \notin Setup /\ "triple" \notin Setup
    BY StepFacts
  <2> QED
    BY <1>1, <1>5, <2>1, <2>2, StepFacts DEF DrawY0, LocalStep, PartySteps, checks, At, RoundOf
<1> QED
  BY <1>2, <1>3, <1>4, <1>5

(* A process that goes to a step of its kind is in that step.              *)
LEMMA GotoType ==
  ASSUME FlowType, NEW p \in Procs, NEW s, Goto(p, s),
         s \in IF p = 0 THEN DealerSteps ELSE PartySteps
  PROVE  /\ pc' \in [Procs -> PartySteps \cup DealerSteps]
         /\ pc'[0] \in DealerSteps /\ \A q \in Parties : pc'[q] \in PartySteps
         /\ waiting' \in [Procs -> BOOLEAN]
         /\ \A q \in Parties : waiting'[q] => pc'[q] \in RoundSteps
         /\ pc'[p] = s /\ waiting'[p] = FALSE
         /\ \A q \in Procs : q # p => pc'[q] = pc[q] /\ waiting'[q] = waiting[q]
BY ProcFacts DEF FlowType, Goto

(* A party that goes to a step leaves the other processes where they are.  *)
LEMMA PartyGoto ==
  ASSUME FlowType, NEW p \in Parties, NEW s \in PartySteps, Goto(p, s)
  PROVE  /\ pc'[p] = s /\ waiting'[p] = FALSE /\ At(p)' = RoundOf(s) /\ pc'[0] = pc[0]
         /\ \A q \in Parties : q # p =>
              pc'[q] = pc[q] /\ waiting'[q] = waiting[q] /\ At(q)' = At(q)
<1>1. p \in Procs /\ p # 0 /\ 0 \in Procs /\ \A q \in Parties : q \in Procs
  BY ProcFacts
<1>2. pc'[p] = s /\ waiting'[p] = FALSE
      /\ \A q \in Procs : q # p => pc'[q] = pc[q] /\ waiting'[q] = waiting[q]
  BY <1>1, GotoType
<1> QED
  BY <1>1, <1>2 DEF At

(* The dealer leaves the parties where they are.                           *)
LEMMA DealerGoto ==
  ASSUME FlowType, Dealer
  PROVE  \A q \in Parties : pc'[q] = pc[q] /\ waiting'[q] = waiting[q] /\ At(q)' = At(q)
<1>1. PICK s \in DealerSteps : Goto(0, s)
  BY DealerType
<1>2. 0 \in Procs /\ \A q \in Parties : q \in Procs /\ q # 0
  BY ProcFacts
<1>3. \A q \in Procs : q # 0 => pc'[q] = pc[q] /\ waiting'[q] = waiting[q]
  BY <1>1, <1>2, GotoType
<1> QED
  BY <1>2, <1>3 DEF At

(* Every step of the dealer or of a party keeps the types.                 *)
LEMMA TypeStep == FlowType /\ [Next]_vars => FlowType'
<1> SUFFICES ASSUME FlowType, [Next]_vars PROVE FlowType'
  OBVIOUS
<1>1. CASE Dealer
  <2>1. PICK s \in DealerSteps : Goto(0, s)
    BY <1>1, DealerType
  <2> QED
    BY <1>1, <2>1, DealerType, GotoType, ProcFacts DEF FlowType
<1>2. ASSUME NEW p \in Parties, LocalStep(p) PROVE FlowType'
  <2>1. PICK s \in PartySteps : Goto(p, s)
    BY <1>2 DEF LocalStep
  <2> QED
    BY <1>2, <2>1, GotoType, ProcFacts DEF FlowType, LocalStep
<1>3. ASSUME NEW p \in Parties, Contribute(p) PROVE FlowType'
  <2>1. pc[p] \in RoundSteps
    BY <1>3 DEF Contribute
  <2>2. PICK ok \in BOOLEAN :
          sent' = [sent EXCEPT ![p] = Append(@, [step |-> pc[p], content |-> Content(p, ok)])]
    BY <1>3 DEF Contribute
  <2>3. sent' \in [Parties -> Seq(Messages)]
    <3>1. [step |-> pc[p], content |-> Content(p, ok)] \in Messages
      BY <2>1, ContentType DEF Messages
    <3> QED
      BY <2>2, <3>1, AppendType DEF FlowType
  <2> QED
    BY <1>3, <2>1, <2>3, ProcFacts DEF Contribute, FlowType, checks
<1>4. ASSUME NEW p \in Parties, NEW v \in {0, 1}, SeeOpening(p, v) PROVE FlowType'
  <2>1. pc[p] \in Openings /\ pc[p] \in RoundSteps
    BY <1>4, StepFacts DEF SeeOpening
  <2>2. AfterRound(p, pc[p]) \in PartySteps
    BY <2>1, AfterRoundFacts DEF PartySteps
  <2>3. Entry(pc[p], v) \in Entries
    BY <2>1 DEF Entry, Entries
  <2>4. views' \in [Parties -> Digests] /\ consHash' \in [Parties -> Digests]
    BY <1>4, <2>3 DEF SeeOpening, FlowType, Digests
  <2>5. consBad' \in [Parties -> BOOLEAN] /\ openBad' \in [Parties -> BOOLEAN]
    BY <1>4 DEF SeeOpening, FlowType, AllSameAs, CheckingConsistency, Verifying
  <2>6. level' \in [Procs -> 1..MultLevels] /\ DOMAIN size' = Procs
    <3>1. MultLevels \in Nat
      BY VerifyAssumption DEF VerifyAssumption, NumMults
    <3>2. level[p] \in 1..MultLevels
      BY ProcFacts DEF FlowType
    <3>3. level[p] # MultLevels => level[p] + 1 \in 1..MultLevels
      BY <3>1, <3>2
    <3>4. level' = [level EXCEPT ![p] = IF pc[p] = "online" /\ level[p] # MultLevels
                                        THEN level[p] + 1 ELSE level[p]]
      BY <1>4 DEF SeeOpening, LastLevel
    <3> QED
      BY <1>4, <3>2, <3>3, <3>4 DEF SeeOpening, FlowType
  <2>7. Goto(p, AfterRound(p, pc[p])) /\ sent' = sent /\ verdicts' = verdicts
    BY <1>4 DEF SeeOpening
  <2> QED
    BY <2>2, <2>4, <2>5, <2>6, <2>7, GotoType, ProcFacts DEF FlowType
<1>5. ASSUME NEW p \in Parties, ReadDigests(p) PROVE FlowType'
  <2>1. Goto(p, "acceptInputs") /\ "acceptInputs" \in PartySteps
    BY <1>5 DEF ReadDigests, PartySteps, RoundSteps, Accepts, OneBit
  <2> QED
    BY <1>5, <2>1, GotoType, ProcFacts DEF ReadDigests, FlowType, checks
<1>6. ASSUME NEW p \in Parties, CheckForAccept(p) PROVE FlowType'
  <2>1. pc[p] \in Accepts /\ pc[p] \in RoundSteps
    BY <1>6, StepFacts DEF CheckForAccept
  <2>2. PICK s \in PartySteps : Goto(p, s)
    BY <1>6, <2>1, AfterRoundFacts DEF CheckForAccept, PartySteps
  <2>3. verdicts' \in [Parties -> Seq(Verdicts)]
    <3>1. [step |-> pc[p], bits |-> Verdict(p)] \in Verdicts
      BY <2>1, VerdictType DEF Verdicts
    <3> QED
      BY <1>6, <3>1, AppendType DEF CheckForAccept, FlowType
  <2> QED
    BY <1>6, <2>2, <2>3, GotoType, ProcFacts DEF CheckForAccept, FlowType, checks
<1>7. CASE UNCHANGED vars
  BY <1>7 DEF vars, flow, checks, FlowType
<1> QED
  BY <1>1, <1>2, <1>3, <1>4, <1>5, <1>6, <1>7, LocalSteps DEF Next, Party

-----------------------------------------------------------------------------
(* The rounds of a party are numbered from 1 by what it has broadcast.     *)
LEMMA RoundType ==
  ASSUME FlowType, NEW p \in Parties
  PROVE  /\ LastRound(p) \in Nat /\ Round(p) \in Nat
         /\ sent[p] \in Seq(Messages) /\ DOMAIN sent[p] = 1..LastRound(p)
         /\ Round(p) = LastRound(p) \/ Round(p) = LastRound(p) + 1
         /\ waiting[p] => Round(p) = LastRound(p)
         /\ ~waiting[p] => Round(p) = LastRound(p) + 1
<1>1. sent[p] \in Seq(Messages)
  BY DEF FlowType
<1> QED
  BY <1>1 DEF LastRound, Round

(* A round that somebody has completed has been entered by all, unless it  *)
(* is that of the inputs.                                                  *)
LEMMA AllEntered ==
  ASSUME FlowType, RoundInv, NEW p \in Parties, NEW q \in Parties,
         Round(q) = Round(p) + 1, At(p) # "inputs", NEW r \in Parties
  PROVE  /\ waiting[p] /\ Round(p) = LastRound(p)
         /\ LastRound(r) >= LastRound(p)
<1>1. waiting[p] /\ Round(p) = LastRound(p)
  BY RoundType DEF RoundInv, PairInv, OneAhead
<1>2. Round(q) <= Round(r) + 1 /\ PairInv(r, q) /\ PairInv(p, r) /\ PairInv(r, p)
  BY DEF RoundInv, PairInv
<1>3. CASE Round(r) = Round(p)
  <2>1. OneAhead(q, r) /\ SamePlace(p, r)
    BY <1>2, <1>3 DEF PairInv
  <2>2. waiting[r]
    BY <2>1 DEF OneAhead, SamePlace
  <2> QED
    BY <1>1, <1>3, <2>2, RoundType
<1>4. CASE Round(r) # Round(p)
  BY <1>1, <1>2, <1>4, RoundType
<1> QED
  BY <1>1, <1>3, <1>4

(* Nothing that the rounds depend on changes.                              *)
LEMMA Frame ==
  ASSUME FlowType, RoundInv, sent' = sent,
         \A p \in Parties : /\ At(p)' = At(p) /\ waiting'[p] = waiting[p]
                            /\ level'[p] = level[p] /\ size'[p] = size[p]
                            /\ verdicts'[p] = verdicts[p]
                            /\ waiting[p] => pc'[p] = pc[p]
  PROVE  RoundInv'
<1>1. \A p \in Parties : /\ LastRound(p)' = LastRound(p) /\ Round(p)' = Round(p)
                         /\ Verdict(p)' = Verdict(p)
  BY DEF LastRound, Round, Verdict, Heard
<1>2. \A p \in Parties : NextAt(p)' = NextAt(p)
  <2>1. \A p \in Parties : AfterRound(p, At(p))' = AfterRound(p, At(p))
    BY DEF AfterRound
  <2> QED
    BY <1>1, <2>1 DEF NextAt, GivesUp
<1>3. \A p \in Parties : /\ NextLevel(p)' = NextLevel(p) /\ NextSize(p)' = NextSize(p)
                         /\ NextVerdicts(p)' = NextVerdicts(p)
  BY <1>1 DEF NextLevel, NextSize, NextVerdicts
<1>4. ASSUME NEW p \in Parties, NEW q \in Parties PROVE PairInv(p, q)'
  <2>1. PairInv(p, q)
    BY DEF RoundInv
  <2> QED
    BY <1>1, <1>2, <1>3, <2>1 DEF PairInv, SamePlace, OneAhead
<1>5. ASSUME NEW p \in Parties PROVE SentInv(p)'
  <2>1. SentInv(p)
    BY DEF RoundInv
  <2> QED
    BY <1>1, <2>1 DEF SentInv
<1>6. \A p, q \in Parties : SameSteps(p, q)'
  BY DEF RoundInv, SameSteps
<1> QED
  BY <1>4, <1>5, <1>6 DEF RoundInv

(* A party contributes to its round.                                       *)
LEMMA ContributeStep ==
  ASSUME FlowType, RoundInv, NEW p \in Parties, Contribute(p)
  PROVE  RoundInv'
<1> DEFINE s == pc[p]
           n == LastRound(p) + 1
<1>1. /\ s \in RoundSteps /\ ~waiting[p] /\ At(p) = s
      /\ waiting' = [waiting EXCEPT ![p] = TRUE]
      /\ UNCHANGED <<pc, level, size, verdicts>>
  BY StepFacts DEF Contribute, checks, At, RoundOf
<1>2. PICK ok \in BOOLEAN :
        sent' = [sent EXCEPT ![p] = Append(@, [step |-> s, content |-> Content(p, ok)])]
  BY DEF Contribute
<1> DEFINE e == [step |-> s, content |-> Content(p, ok)]
<1>3. e \in Messages
  BY <1>1, ContentType DEF Messages
<1>4. /\ sent'[p] = Append(sent[p], e) /\ Len(sent'[p]) = n /\ DOMAIN sent'[p] = 1..n
      /\ sent'[p][n] = e /\ \A r \in 1..LastRound(p) : sent'[p][r] = sent[p][r]
      /\ \A q \in Parties : q # p => sent'[q] = sent[q]
  <2> HIDE DEF e
  <2>1. sent \in [Parties -> Seq(Messages)] /\ sent[p] \in Seq(Messages)
    BY DEF FlowType
  <2> QED
    BY <1>2, <1>3, <2>1 DEF e, LastRound
<1>5. \A q \in Parties : /\ Round(q)' = Round(q) /\ At(q)' = At(q)
                         /\ q # p => LastRound(q)' = LastRound(q) /\ waiting'[q] = waiting[q]
  BY <1>1, <1>4, RoundType, ProcFacts DEF Round, LastRound, At, FlowType
<1>6. LastRound(p)' = n /\ waiting'[p] /\ Round(p) = n
  BY <1>1, <1>4, RoundType, ProcFacts DEF LastRound, FlowType
<1>7. ASSUME NEW x \in Parties, NEW y \in Parties, Round(y) = Round(x) + 1, At(x) # "inputs"
      PROVE  x # p /\ Verdict(x)' = Verdict(x)
  <2>1. waiting[x] /\ \A z \in Parties : LastRound(z) >= LastRound(x)
    BY <1>7, AllEntered
  <2>2. x # p
    BY <1>1, <2>1
  <2>3. LastRound(x)' = LastRound(x) /\ LastRound(x) \in 1..LastRound(p)
    BY <1>5, <2>1, <2>2, RoundType DEF RoundInv, SentInv
  <2>4. \A z \in Parties : Heard(x, z)' = Heard(x, z)
    BY <1>4, <2>3 DEF Heard
  <2> QED
    BY <2>2, <2>4 DEF Verdict
<1>8. ASSUME NEW x \in Parties, NEW y \in Parties PROVE PairInv(x, y)'
  <2>1. PairInv(x, y)
    BY DEF RoundInv
  <2>2. ASSUME Round(y) = Round(x) + 1 PROVE OneAhead(y, x)'
    <3>1. OneAhead(y, x)
      BY <2>1, <2>2 DEF PairInv
    <3>2. waiting'[x] \/ At(x)' = "inputs"
      BY <1>5, <1>6, <3>1 DEF OneAhead
    <3>3. AfterRound(x, At(x))' = AfterRound(x, At(x))
      BY <1>1, <1>5 DEF AfterRound
    <3>4. At(x) \in Accepts => Verdict(x)' = Verdict(x)
      BY <1>7, <2>2, StepFacts
    <3>5. /\ NextAt(x)' = NextAt(x) /\ NextVerdicts(x)' = NextVerdicts(x)
          /\ NextLevel(x)' = NextLevel(x) /\ NextSize(x)' = NextSize(x)
      BY <1>1, <1>5, <3>3, <3>4 DEF NextAt, GivesUp, NextVerdicts, NextLevel, NextSize
    <3> QED
      BY <1>1, <1>5, <3>1, <3>2, <3>5 DEF OneAhead
  <2>3. Round(y) = Round(x) => SamePlace(x, y)'
    BY <1>1, <1>5, <2>1 DEF PairInv, SamePlace
  <2> QED
    BY <1>5, <2>1, <2>2, <2>3 DEF PairInv
<1>9. SentInv(p)
  BY DEF RoundInv
<1>10. LastRound(p) = 0 => s = "inputs"
  BY <1>1, <1>6, <1>9 DEF SentInv
<1>11. ASSUME NEW x \in Parties PROVE SentInv(x)'
  <2>1. SentInv(x)
    BY DEF RoundInv
  <2>2. CASE x = p
    <3>1. LastRound(p) \in Nat /\ n >= 1
      BY RoundType
    <3>2. sent'[p][n].step = s /\ pc' = pc
      BY <1>1, <1>4
    <3>3. sent'[p][1].step = "inputs"
      <4>1. CASE LastRound(p) = 0
        BY <1>10, <3>2, <4>1
      <4>2. CASE LastRound(p) # 0
        BY <1>4, <1>9, <3>1, <4>2 DEF SentInv
      <4> QED
        BY <4>1, <4>2
    <3>4. At(p)' = "inputs" <=> Round(p)' = 1
      BY <1>5, <1>9 DEF SentInv
    <3> QED
      BY <1>6, <2>2, <3>1, <3>2, <3>3, <3>4 DEF SentInv
  <2>3. CASE x # p
    BY <1>1, <1>4, <1>5, <2>1, <2>3 DEF SentInv
  <2> QED
    BY <2>2, <2>3
<1>12. ASSUME NEW q \in Parties, q # p, LastRound(q) >= n PROVE sent[q][n].step = s
  <2>1. SentInv(q) /\ PairInv(p, q)
    BY DEF RoundInv
  <2>2. CASE Round(q) = n
    BY <1>1, <1>6, <1>12, <2>1, <2>2, RoundType, StepFacts
       DEF PairInv, SamePlace, SentInv, At, RoundOf, FlowType
  <2>3. CASE Round(q) # n
    <3>1. Round(q) = Round(p) + 1
      BY <1>6, <1>12, <2>1, <2>3, RoundType DEF PairInv
    <3>2. s = "inputs"
      BY <1>1, <2>1, <3>1 DEF PairInv, OneAhead
    <3>3. n = 1
      BY <1>1, <1>6, <1>9, <3>2 DEF SentInv
    <3> QED
      BY <1>12, <2>1, <3>2, <3>3 DEF SentInv
  <2> QED
    BY <2>2, <2>3
<1>13. ASSUME NEW x \in Parties, NEW y \in Parties PROVE SameSteps(x, y)'
  <2> SUFFICES ASSUME NEW r \in DOMAIN sent'[x] \cap DOMAIN sent'[y]
               PROVE  sent'[x][r].step = sent'[y][r].step
    BY DEF SameSteps
  <2>1. SameSteps(x, y)
    BY DEF RoundInv
  <2>2. CASE r \in DOMAIN sent[x] \cap DOMAIN sent[y]
    <3>1. sent'[x][r] = sent[x][r] /\ sent'[y][r] = sent[y][r]
      BY <1>4, <2>2, RoundType
    <3> QED
      BY <2>1, <2>2, <3>1 DEF SameSteps
  <2>3. CASE r \notin DOMAIN sent[x] \cap DOMAIN sent[y]
    <3>1. r = n /\ (x = p \/ y = p)
      BY <1>4, <2>3, RoundType, SMTT(30)
    <3>2. ASSUME NEW q \in Parties, q # p, r \in DOMAIN sent'[q] PROVE sent'[q][r].step = s
      <4>1. sent'[q] = sent[q] /\ DOMAIN sent[q] = 1..LastRound(q) /\ LastRound(q) \in Nat
        BY <1>4, <3>2, RoundType
      <4>2. LastRound(q) >= n
        BY <3>1, <3>2, <4>1, RoundType
      <4> QED
        BY <1>12, <3>1, <3>2, <4>1, <4>2
    <3> QED
      BY <1>4, <3>1, <3>2
  <2> QED
    BY <2>2, <2>3
<1> QED
  BY <1>8, <1>11, <1>13 DEF RoundInv

(* Who completes a round finds everybody in it or past it.                 *)
LEMMA CompleteRounds ==
  ASSUME FlowType, RoundInv, NEW p \in Parties, Complete(p), sent' = sent, ~waiting'[p],
         \A q \in Parties : q # p => waiting'[q] = waiting[q]
  PROVE  /\ waiting[p] /\ pc[p] \in RoundSteps /\ At(p) = pc[p]
         /\ Round(p) = LastRound(p) /\ Round(p)' = Round(p) + 1
         /\ LastRound(p) \in Nat /\ LastRound(p) >= 1
         /\ \A q \in Parties :
              /\ Round(q) \in Nat /\ Round(q) >= Round(p) /\ Round(q) <= Round(p) + 1
              /\ At(p) # "inputs" => LastRound(q) >= LastRound(p)
              /\ LastRound(q)' = LastRound(q) /\ (q # p => Round(q)' = Round(q))
<1>1. /\ waiting[p] /\ pc[p] \in RoundSteps /\ At(p) = pc[p]
      /\ Round(p) = LastRound(p) /\ Round(p)' = Round(p) + 1
      /\ LastRound(p) \in Nat /\ LastRound(p) >= 1
  <2>1. waiting[p] /\ pc[p] \in RoundSteps /\ SentInv(p)
    BY DEF Complete, FlowType, RoundInv
  <2> QED
    BY <2>1, StepFacts, RoundType DEF At, RoundOf, Round, LastRound, SentInv
<1>2. ASSUME NEW q \in Parties
      PROVE  LastRound(q)' = LastRound(q) /\ (q # p => Round(q)' = Round(q))
  BY <1>2 DEF LastRound, Round
<1>3. ASSUME NEW q \in Parties
      PROVE  /\ Round(q) \in Nat /\ Round(q) >= Round(p) /\ Round(q) <= Round(p) + 1
             /\ At(p) # "inputs" => LastRound(q) >= LastRound(p)
  <2>1. PairInv(p, q) /\ SentInv(p) /\ SentInv(q)
    BY DEF RoundInv
  <2>2. CASE At(p) = "inputs"
    BY <1>1, <2>1, <2>2, RoundType DEF SentInv, PairInv
  <2>3. CASE At(p) # "inputs"
    BY <1>1, <2>1, <2>3, RoundType DEF Complete, Awaited, PairInv
  <2> QED
    BY <2>2, <2>3
<1> QED
  BY <1>1, <1>2, <1>3

(* A party has got what it awaits and goes on to the next round.           *)
LEMMA CompleteStep ==
  ASSUME FlowType, RoundInv, NEW p \in Parties, Complete(p), sent' = sent,
         ~waiting'[p], At(p)' = NextAt(p), level'[p] = NextLevel(p), size'[p] = NextSize(p),
         verdicts'[p] = NextVerdicts(p),
         \A q \in Parties : q # p =>
           /\ pc'[q] = pc[q] /\ waiting'[q] = waiting[q]
           /\ level'[q] = level[q] /\ size'[q] = size[q] /\ verdicts'[q] = verdicts[q]
  PROVE  RoundInv'
<1>1. /\ waiting[p] /\ pc[p] \in RoundSteps /\ At(p) = pc[p]
      /\ Round(p) = LastRound(p) /\ Round(p)' = Round(p) + 1
      /\ LastRound(p) \in Nat /\ LastRound(p) >= 1
  BY CompleteRounds
<1>2. ASSUME NEW q \in Parties
      PROVE  /\ LastRound(q)' = LastRound(q)
             /\ q # p => Round(q)' = Round(q) /\ At(q)' = At(q)
  BY <1>2, CompleteRounds DEF At
<1>3. ASSUME NEW q \in Parties
      PROVE  /\ Round(q) \in Nat /\ Round(q) >= Round(p) /\ Round(q) <= Round(p) + 1
             /\ At(p) # "inputs" => LastRound(q) >= LastRound(p)
  BY <1>3, CompleteRounds
<1>4. ASSUME NEW x \in Parties PROVE Verdict(x)' = Verdict(x)
  BY DEF Verdict, Heard, LastRound
<1>5. ASSUME NEW x \in Parties, x # p
      PROVE  /\ NextAt(x)' = NextAt(x) /\ NextLevel(x)' = NextLevel(x)
             /\ NextSize(x)' = NextSize(x) /\ NextVerdicts(x)' = NextVerdicts(x)
  <2>1. AfterRound(x, At(x))' = AfterRound(x, At(x))
    BY <1>2, <1>5 DEF AfterRound
  <2> QED
    BY <1>2, <1>4, <1>5, <2>1 DEF NextAt, GivesUp, NextLevel, NextSize, NextVerdicts
<1>6. ASSUME NEW x \in Parties, NEW y \in Parties, x # p, y # p PROVE PairInv(x, y)'
  <2>1. PairInv(x, y)
    BY DEF RoundInv
  <2> QED
    BY <1>2, <1>5, <1>6, <2>1 DEF PairInv, SamePlace, OneAhead
<1>7. ASSUME NEW q \in Parties, q # p, Round(q) = Round(p) PROVE PairInv(q, p)' /\ PairInv(p, q)'
  <2>1. SamePlace(p, q)
    BY <1>7 DEF RoundInv, PairInv
  <2>2. waiting[q] \/ At(q) = "inputs"
    BY <1>1, <1>3, <1>7, <2>1, RoundType DEF SamePlace
  <2>3. At(p) \in Accepts => Verdict(q) = Verdict(p)
    <3>1. At(p) \in Accepts => LastRound(q) = LastRound(p)
      BY <1>1, <1>7, <2>1, <2>2, RoundType, StepFacts DEF SamePlace
    <3> QED
      BY <3>1 DEF Verdict, Heard
  <2>4. AfterRound(q, At(q)) = AfterRound(p, At(p))
    BY <2>1 DEF SamePlace, AfterRound
  <2>5. /\ NextAt(q) = NextAt(p) /\ NextLevel(q) = NextLevel(p)
        /\ NextSize(q) = NextSize(p) /\ NextVerdicts(q) = NextVerdicts(p)
    BY <2>1, <2>3, <2>4 DEF SamePlace, NextAt, GivesUp, NextLevel, NextSize, NextVerdicts
  <2>6. OneAhead(p, q)'
    BY <1>2, <1>5, <1>7, <2>2, <2>5 DEF OneAhead
  <2> QED
    BY <1>1, <1>2, <1>3, <1>7, <2>6 DEF PairInv
<1>8. ASSUME NEW q \in Parties, q # p, Round(q) = Round(p) + 1
      PROVE  PairInv(q, p)' /\ PairInv(p, q)'
  <2>1. OneAhead(q, p)
    BY <1>8 DEF RoundInv, PairInv
  <2>2. SamePlace(p, q)' /\ SamePlace(q, p)'
    BY <1>2, <1>8, <2>1 DEF OneAhead, SamePlace
  <2> QED
    BY <1>1, <1>2, <1>3, <1>8, <2>2 DEF PairInv
<1>9. PairInv(p, p)'
  BY <1>1 DEF PairInv, SamePlace
<1>10. ASSUME NEW x \in Parties, NEW y \in Parties PROVE PairInv(x, y)'
  <2>1. \A q \in Parties : q # p => Round(q) = Round(p) \/ Round(q) = Round(p) + 1
    BY <1>1, <1>3
  <2> QED
    BY <1>6, <1>7, <1>8, <1>9, <2>1
<1>11. NextAt(p) # "inputs"
  <2>1. AfterRound(p, At(p)) # "inputs" /\ AfterRound(p, At(p)) \in RoundSteps \cup {"y_0", "done"}
    BY <1>1, AfterRoundFacts
  <2> QED
    BY <2>1, StepFacts DEF NextAt, RoundOf
<1>12. ASSUME NEW x \in Parties PROVE SentInv(x)'
  <2>1. SentInv(x)
    BY DEF RoundInv
  <2>2. CASE x = p
    BY <1>1, <1>2, <1>11, <2>1, <2>2 DEF SentInv
  <2>3. CASE x # p
    BY <1>2, <2>1, <2>3 DEF SentInv
  <2> QED
    BY <2>2, <2>3
<1>13. \A x, y \in Parties : SameSteps(x, y)'
  BY DEF RoundInv, SameSteps
<1> QED
  BY <1>10, <1>12, <1>13 DEF RoundInv

(* All begin before the first round.                                       *)
LEMMA RoundInit == Init => RoundInv
<1> SUFFICES ASSUME Init PROVE RoundInv
  OBVIOUS
<1>1. \A p \in Parties : /\ ~waiting[p] /\ sent[p] = << >> /\ At(p) = "inputs" /\ verdicts[p] = << >>
                         /\ level[p] = 1 /\ size[p] = VectorLength
  BY ProcFacts DEF Init, At, RoundOf, Setup
<1>2. \A p \in Parties : LastRound(p) = 0 /\ Round(p) = 1
  BY <1>1 DEF LastRound, Round
<1>3. \A p, q \in Parties : PairInv(p, q)
  BY <1>1, <1>2 DEF PairInv, SamePlace
<1>4. \A p \in Parties : SentInv(p)
  BY <1>1, <1>2 DEF SentInv
<1>5. \A p, q \in Parties : SameSteps(p, q)
  BY <1>1 DEF SameSteps
<1> QED
  BY <1>3, <1>4, <1>5 DEF RoundInv

(* No step lets a party get more than a round ahead, nor to another place  *)
(* than the others in the same round (reconstruct, checkForDoubleAccept).  *)
LEMMA RoundStep == FlowType /\ RoundInv /\ [Next]_vars => RoundInv'
<1> SUFFICES ASSUME FlowType, RoundInv, [Next]_vars PROVE RoundInv'
  OBVIOUS
<1>1. CASE Dealer
  <2>1. \A p \in Parties : pc'[p] = pc[p] /\ waiting'[p] = waiting[p]
    BY <1>1, DealerGoto
  <2>2. \A p \in Parties : size'[p] = size[p]
    <3>1. CASE DealerVerify
      BY <3>1, ProcFacts DEF DealerVerify, FlowType
    <3>2. CASE ~DealerVerify
      BY <1>1, <3>2 DEF Dealer, DealerLocal, SendCommits, SendRandomizers,
                        SendOutputRandomizers, SendOutputCommit
    <3> QED
      BY <3>1, <3>2
  <2> QED
    BY <1>1, <2>1, <2>2, DealerType, Frame DEF At
<1>2. ASSUME NEW p \in Parties, LocalStep(p) PROVE RoundInv'
  <2>1. PICK s \in PartySteps : Goto(p, s) /\ RoundOf(s) = At(p)
    BY <1>2 DEF LocalStep
  <2>2. /\ \A q \in Parties : At(q)' = At(q) /\ waiting'[q] = waiting[q]
        /\ \A q \in Parties : waiting[q] => pc'[q] = pc[q]
    <3>1. waiting[p] = FALSE
      BY <1>2, ProcFacts DEF LocalStep, FlowType
    <3> QED
      BY <1>2, <2>1, <3>1, PartyGoto DEF LocalStep
  <2> QED
    BY <1>2, <2>2, Frame DEF LocalStep
<1>3. ASSUME NEW p \in Parties, NEW v \in {0, 1}, SeeOpening(p, v) PROVE RoundInv'
  <2>1. /\ Complete(p) /\ Goto(p, AfterRound(p, pc[p])) /\ sent' = sent /\ verdicts' = verdicts
        /\ pc[p] \in Openings /\ pc[p] \in RoundSteps /\ At(p) = pc[p]
    BY <1>3, StepFacts DEF SeeOpening, At, RoundOf
  <2>2. AfterRound(p, pc[p]) \in PartySteps
    BY <2>1, AfterRoundFacts DEF PartySteps
  <2>3. At(p)' = NextAt(p) /\ ~waiting'[p]
        /\ \A q \in Parties : q # p => pc'[q] = pc[q] /\ waiting'[q] = waiting[q]
    BY <2>1, <2>2, PartyGoto, StepFacts, ZenonT(60) DEF NextAt, GivesUp
  <2>4. level'[p] = NextLevel(p) /\ size'[p] = NextSize(p)
        /\ \A q \in Parties : q # p => level'[q] = level[q] /\ size'[q] = size[q]
    BY <1>3, <2>1, ProcFacts DEF SeeOpening, NextLevel, NextSize, FlowType
  <2>5. verdicts'[p] = NextVerdicts(p)
    BY <2>1, StepFacts DEF NextVerdicts
  <2> QED
    BY <2>1, <2>3, <2>4, <2>5, CompleteStep
<1>4. ASSUME NEW p \in Parties, ReadDigests(p) PROVE RoundInv'
  <2>1. /\ Complete(p) /\ Goto(p, "acceptInputs") /\ sent' = sent /\ verdicts' = verdicts
        /\ pc[p] = "inputDigest" /\ level' = level /\ size' = size
    BY <1>4 DEF ReadDigests
  <2>2. At(p) = "inputDigest" /\ "acceptInputs" \in PartySteps /\ "acceptInputs" \notin Setup
        /\ "inputDigest" \notin Accepts
    BY <2>1, StepFacts DEF At, RoundOf, PartySteps, RoundSteps, Accepts, OneBit, Setup, Expected,
                           AcceptSteps
  <2>3. At(p)' = NextAt(p) /\ ~waiting'[p]
        /\ \A q \in Parties : q # p => pc'[q] = pc[q] /\ waiting'[q] = waiting[q]
    BY <2>1, <2>2, PartyGoto DEF NextAt, GivesUp, RoundOf, AfterRound
  <2>4. level'[p] = NextLevel(p) /\ size'[p] = NextSize(p) /\ verdicts'[p] = NextVerdicts(p)
    BY <2>1, <2>2 DEF NextLevel, NextSize, SizeAfter, NextVerdicts
  <2> QED
    BY <2>1, <2>3, <2>4, CompleteStep
<1>5. ASSUME NEW p \in Parties, CheckForAccept(p) PROVE RoundInv'
  <2>1. /\ Complete(p) /\ sent' = sent /\ level' = level /\ size' = size
        /\ Goto(p, IF Accepted(Verdict(p)) THEN AfterRound(p, pc[p]) ELSE "aborted")
        /\ pc[p] \in Accepts /\ pc[p] \in RoundSteps /\ At(p) = pc[p]
        /\ verdicts' = [verdicts EXCEPT ![p] = Append(@, [step |-> pc[p], bits |-> Verdict(p)])]
    BY <1>5, StepFacts DEF CheckForAccept, At, RoundOf
  <2>2. AfterRound(p, pc[p]) \in PartySteps /\ "aborted" \in PartySteps /\ RoundOf("aborted") = "aborted"
    BY <2>1, AfterRoundFacts, StepFacts DEF PartySteps, RoundOf
  <2>3. At(p)' = NextAt(p) /\ ~waiting'[p]
        /\ \A q \in Parties : q # p => pc'[q] = pc[q] /\ waiting'[q] = waiting[q]
    BY <2>1, <2>2, PartyGoto DEF NextAt, GivesUp
  <2>4. level'[p] = NextLevel(p) /\ size'[p] = NextSize(p)
    BY <2>1, StepFacts DEF NextLevel, NextSize, SizeAfter
  <2>5. verdicts'[p] = NextVerdicts(p)
        /\ \A q \in Parties : q # p => verdicts'[q] = verdicts[q]
    BY <2>1 DEF NextVerdicts, FlowType
  <2> QED
    BY <2>1, <2>3, <2>4, <2>5, CompleteStep
<1>6. CASE UNCHANGED vars
  BY <1>6, Frame DEF vars, flow, checks, At
<1> QED
  BY <1>1, <1>2, <1>3, <1>4, <1>5, <1>6, LocalSteps, ContributeStep DEF Next, Party

-----------------------------------------------------------------------------
(* Whatever the parties do, none of them is more than one round ahead of   *)
(* another, those in the same round are at the same step with vectors of   *)
(* the same length, and whoever is ahead has gone where the others will    *)
(* go: the broadcasts of a round are all of the same step (reconstruct,    *)
(* checkForDoubleAccept, zkfliop_evaluator.cpp:1726-1771).                 *)
THEOREM FlowCorrect == Spec => [](FlowType /\ RoundInv)
<1>1. Init => FlowType /\ RoundInv
  BY TypeInit, RoundInit
<1>2. FlowType /\ RoundInv /\ [Next]_vars => (FlowType /\ RoundInv)'
  BY TypeStep, RoundStep
<1> QED
  BY <1>1, <1>2, PTL DEF Spec

(* All parties come to the same verdicts: they give up together, at the    *)
(* same check, or not at all (zkfliop_evaluator.cpp:1726-1771).            *)
THEOREM VerdictsAgree == Spec => []SameVerdict
<1>1. FlowType /\ RoundInv => SameVerdict
  <2> SUFFICES ASSUME FlowType, RoundInv, NEW p \in Parties, NEW q \in Parties,
                      NEW k \in DOMAIN verdicts[p] \cap DOMAIN verdicts[q]
               PROVE  verdicts[p][k] = verdicts[q][k]
    BY DEF SameVerdict
  <2>1. PairInv(p, q) /\ PairInv(q, p)
    BY DEF RoundInv
  <2>2. verdicts[p] \in Seq(Verdicts) /\ verdicts[q] \in Seq(Verdicts)
    BY DEF FlowType
  <2>3. CASE Round(p) = Round(q)
    BY <2>1, <2>3 DEF PairInv, SamePlace
  <2>4. ASSUME NEW x \in Parties, NEW y \in Parties, Round(y) = Round(x) + 1,
               k \in DOMAIN verdicts[x] PROVE verdicts[y][k] = verdicts[x][k]
    <3>1. verdicts[y] = NextVerdicts(x)
      BY <2>4 DEF RoundInv, PairInv, OneAhead
    <3>2. verdicts[x] \in Seq(Verdicts)
      BY DEF FlowType
    <3>3. \A e : k \in DOMAIN verdicts[x] => Append(verdicts[x], e)[k] = verdicts[x][k]
      BY <3>2
    <3> QED
      BY <2>4, <3>1, <3>3 DEF NextVerdicts
  <2> QED
    BY <2>1, <2>3, <2>4, RoundType DEF PairInv
<1> QED
  BY <1>1, FlowCorrect, PTL

-----------------------------------------------------------------------------

(* A commitment is made to openings that nothing has altered.              *)
Commitments == {d \in Digests : d # << >> /\ \A e \in DOMAIN d : d[e].view = 0}
OutputCommitment == <<Entry("outputs", 0)>>

Mail == [kind : {"gamma", "randomizers", "outputRandomizers"}]
        \cup [kind : {"commits"}, digests : {c \in Seq(Commitments) : Len(c) = 3}]
        \cup [kind : {"outputCommit"}, digest : {OutputCommitment}]

(* What the dealer has committed to so far.                                *)
NumCommits(s) ==
  IF s \in {"accept1", "openTriple"} THEN 1
  ELSE IF s \in {"accept2", "openOutput"} THEN 2
  ELSE IF s \in {"accept3", "verified"} THEN 3 ELSE 0

DealerInv ==
  /\ DOMAIN openHash = Procs /\ DOMAIN commits = Procs
  /\ openHash[0] \in Digests /\ \A e \in DOMAIN openHash[0] : openHash[0][e].view = 0
  /\ commits[0] \in Seq(Commitments) /\ Len(commits[0]) = NumCommits(pc[0])

(* The mail of party q: that of nP begins with gamma, party 1 gets the     *)
(* randomizers.                                                            *)
First(q) == IF q = nP THEN 1 ELSE 0
Extra(q) == IF q = 1 THEN 2 ELSE 0

KindAt(q, i) ==
  IF i = First(q) THEN "gamma"
  ELSE IF i = First(q) + 1 THEN "commits"
  ELSE IF i = First(q) + 2 + Extra(q) THEN "outputCommit"
  ELSE IF i = First(q) + 2 THEN "randomizers" ELSE "outputRandomizers"

(* How much of it the dealer has written, and how much q has read.         *)
Written(q) ==
  LET s == pc[0] IN
  IF s \in {"outputA", "gates"} THEN 0
  ELSE IF s = "sendRandomizers"  THEN First(q) + 1
  ELSE IF s = "outputB"          THEN First(q) + (IF q = 1 THEN 2 ELSE 1)
  ELSE IF s = "sendOutputCommit" THEN First(q) + 1 + Extra(q)
  ELSE IF s = "done"             THEN First(q) + 2 + Extra(q)
  ELSE First(q)

Received(q) ==
  LET s == pc[q] IN
  IF s \in {"outputA", "gates", "recvGamma"} THEN 0
  ELSE IF s = "recvCommits"           THEN First(q)
  ELSE IF s = "recvRandomizers"       THEN First(q) + 1
  ELSE IF s = "recvOutputRandomizers" THEN First(q) + 2
  ELSE IF s = "recvOutputCommit"      THEN First(q) + 1 + Extra(q)
  ELSE First(q) + 2 + Extra(q)

NetType ==
  /\ log \in [Procs -> [Procs -> Seq(Mail)]]
  /\ flushed \in [Procs -> [Procs -> Nat]] /\ read \in [Procs -> [Procs -> Nat]]

BoxInv(q) ==
  /\ Len(log[0][q]) = Written(q) /\ flushed[0][q] <= Written(q) /\ read[0][q] = Received(q)
  /\ \A i \in DOMAIN log[0][q] : log[0][q][i].kind = KindAt(q, i)
  /\ pc[q] = "recvGamma" => q = nP
  /\ pc[q] \in {"recvRandomizers", "recvOutputRandomizers"} => q = 1

MailInv == NetType /\ DealerInv /\ \A q \in Parties : BoxInv(q)

-----------------------------------------------------------------------------
(* The commitments that the dealer sends are three, the output commitment  *)
(* is one.                                                                 *)
LEMMA MailKinds ==
  ASSUME NEW m \in Mail
  PROVE  /\ m.kind = "commits" => m.digests \in Seq(Commitments) /\ Len(m.digests) = 3
         /\ m.kind = "outputCommit" => m.digest = OutputCommitment
BY DEF Mail

(* What the dealer puts into its hash is never altered.                    *)
LEMMA HashOne ==
  ASSUME NEW s \in PrgSteps \cup RevealSteps, NEW h \in Digests,
         \A e \in DOMAIN h : h[e].view = 0
  PROVE  /\ Append(h, Entry(s, 0)) \in Digests /\ Append(h, Entry(s, 0)) # << >>
         /\ \A e \in DOMAIN Append(h, Entry(s, 0)) : Append(h, Entry(s, 0))[e].view = 0
<1>1. Entry(s, 0) \in Entries /\ Entry(s, 0).view = 0
  BY DEF Entry, Entries, Openings
<1> QED
  BY <1>1 DEF Digests

(* The dealer sends to the parties in D.                                   *)
LEMMA SendFacts ==
  ASSUME NetType, NEW D \in SUBSET Parties, NEW msgs \in [D -> Mail], Send(0, msgs)
  PROVE  /\ NetType' /\ read' = read
         /\ \A q \in D : log'[0][q] = Append(log[0][q], msgs[q])
                         /\ flushed'[0][q] = Len(log[0][q]) + 1
         /\ \A q \in Parties \ D : log'[0][q] = log[0][q] /\ flushed'[0][q] = flushed[0][q]
<1>1. D \subseteq Procs /\ 0 \in Procs /\ DOMAIN msgs = D /\ Parties \subseteq Procs
  BY ProcFacts
<1>2. log' = [log EXCEPT ![0] = [q \in Procs |-> IF q \in D THEN Append(log[0][q], msgs[q])
                                                 ELSE log[0][q]]]
      /\ read' = read
  BY <1>1 DEF Send
<1>3. flushed' = [flushed EXCEPT ![0] = [q \in Procs |-> IF q \in D THEN Len(log[0][q]) + 1
                                                         ELSE flushed[0][q]]]
  <2>1. Cuts = {"all"}
    BY VerifyAssumption DEF VerifyAssumption, Cuts
  <2> QED
    BY <1>1, <2>1, ZenonT(60) DEF Send
<1>4. \A q \in Procs : log[0][q] \in Seq(Mail) /\ flushed[0][q] \in Nat
  BY <1>1 DEF NetType
<1>5. [q \in Procs |-> IF q \in D THEN Append(log[0][q], msgs[q]) ELSE log[0][q]]
        \in [Procs -> Seq(Mail)]
  BY <1>1, <1>4
<1>6. [q \in Procs |-> IF q \in D THEN Len(log[0][q]) + 1 ELSE flushed[0][q]] \in [Procs -> Nat]
  BY <1>1, <1>4
<1>7. NetType'
  BY <1>1, <1>2, <1>3, <1>5, <1>6 DEF NetType
<1> QED
  BY <1>1, <1>2, <1>3, <1>7 DEF NetType

(* A message more in the box of q.                                         *)
LEMMA WriteBox ==
  ASSUME NetType, NEW q \in Parties, BoxInv(q), pc'[q] = pc[q], read' = read,
         NEW m \in Mail, log'[0][q] = Append(log[0][q], m),
         flushed'[0][q] = Len(log[0][q]) + 1,
         m.kind = KindAt(q, Written(q) + 1), Written(q)' = Written(q) + 1
  PROVE  BoxInv(q)'
<1>1. log[0][q] \in Seq(Mail) /\ Len(log[0][q]) = Written(q) /\ Len(log[0][q]) \in Nat
  BY ProcFacts DEF NetType, BoxInv
<1>2. /\ Len(log'[0][q]) = Written(q) + 1 /\ DOMAIN log'[0][q] = 1..(Written(q) + 1)
      /\ log'[0][q][Written(q) + 1] = m
      /\ \A i \in DOMAIN log[0][q] : log'[0][q][i] = log[0][q][i]
  BY <1>1
<1>3. \A i \in DOMAIN log'[0][q] : log'[0][q][i].kind = KindAt(q, i)
  BY <1>1, <1>2 DEF BoxInv
<1>4. Received(q)' = Received(q) /\ \A i : KindAt(q, i)' = KindAt(q, i)
  BY DEF Received, KindAt, First, Extra
<1> QED
  BY <1>1, <1>2, <1>3, <1>4 DEF BoxInv, KindAt, First, Extra

(* Nothing happens to the box of q.                                        *)
LEMMA KeepBox ==
  ASSUME NEW q \in Parties, BoxInv(q), pc'[q] = pc[q], log'[0][q] = log[0][q],
         flushed'[0][q] = flushed[0][q], read'[0][q] = read[0][q],
         Written(q)' = Written(q)
  PROVE  BoxInv(q)'
BY DEF BoxInv, Received, KindAt, First, Extra

(* The dealer sends the messages of the setup in the order of KindAt       *)
(* (runSetup, setup_verify and setupOutputPhase_B).                        *)
LEMMA DealerMail ==
  ASSUME FlowType, MailInv, Dealer
  PROVE  MailInv'
<1> DEFINE s == pc[0]
<1>1. \A q \in Parties : q \in Procs /\ q # 0 /\ First(q) \in Nat /\ Extra(q) \in Nat
  BY ProcFacts DEF First, Extra
<1>2. \A q \in Parties : pc'[q] = pc[q]
  BY DealerGoto
<1>3. NetType /\ DealerInv /\ \A q \in Parties : BoxInv(q)
  BY DEF MailInv
<1>4. CASE DealerLocal /\ s = "outputA"
  <2>1. pc'[0] = "gates" /\ UNCHANGED netVars /\ openHash' = openHash /\ commits' = commits
    BY <1>4, ProcFacts DEF DealerLocal, Goto, checks, FlowType
  <2>2. NetType' /\ DealerInv'
    BY <1>3, <1>4, <2>1 DEF NetType, DealerInv, netVars, NumCommits
  <2>3. \A q \in Parties : BoxInv(q)'
    BY <1>2, <1>3, <1>4, <2>1, KeepBox DEF netVars, Written
  <2> QED
    BY <2>2, <2>3 DEF MailInv
<1>5. CASE DealerLocal /\ s = "gates"
  <2> DEFINE msgs == [q \in {nP} |-> [kind |-> "gamma"]]
  <2>1. /\ pc'[0] = "r_bits" /\ openHash' = openHash /\ commits' = commits /\ Send(0, msgs)
    BY <1>5, ProcFacts DEF DealerLocal, Goto, checks, FlowType
  <2>2. msgs \in [{nP} -> Mail] /\ msgs[nP] = [kind |-> "gamma"] /\ msgs[nP] \in Mail
    BY DEF Mail
  <2>3. /\ NetType' /\ read' = read /\ log'[0][nP] = Append(log[0][nP], msgs[nP])
        /\ flushed'[0][nP] = Len(log[0][nP]) + 1
        /\ \A q \in Parties \ {nP} : log'[0][q] = log[0][q] /\ flushed'[0][q] = flushed[0][q]
    <3> HIDE DEF msgs
    <3>1. {nP} \in SUBSET Parties
      BY ProcFacts
    <3> QED
      BY <1>3, <2>1, <2>2, <3>1, SendFacts
  <2>4. DealerInv'
    BY <1>3, <1>5, <2>1 DEF DealerInv, NumCommits
  <2>5. BoxInv(nP)'
    BY <1>2, <1>3, <1>5, <2>1, <2>2, <2>3, WriteBox, ProcFacts DEF Written, KindAt, First
  <2>6. \A q \in Parties \ {nP} : BoxInv(q)'
    BY <1>2, <1>3, <1>5, <2>1, <2>3, KeepBox DEF Written, First
  <2> QED
    BY <2>3, <2>4, <2>5, <2>6, ProcFacts DEF MailInv
<1>6. CASE DealerVerify
  <2> DEFINE n == SizeAfter(s, size[0])
  <2>1. /\ s \in VerifySteps /\ pc'[0] = After(s, n) /\ UNCHANGED netVars
        /\ openHash'[0] = IF Verifying(s) THEN << >>
                          ELSE IF s \in PrgSteps \cup RevealSteps
                          THEN Append(openHash[0], Entry(s, 0)) ELSE openHash[0]
        /\ commits'[0] = IF Verifying(s)
                         THEN Append(commits[0], Append(openHash[0], Entry(s, 0)))
                         ELSE commits[0]
    BY <1>3, <1>6, ProcFacts DEF DealerVerify, Goto, FlowType, DealerInv
  <2>2. /\ After(s, n) \in VerifySteps \cup {"verified"}
        /\ NumCommits(After(s, n)) = IF Verifying(s) THEN NumCommits(s) + 1 ELSE NumCommits(s)
    BY <2>1 DEF After, NumCommits, Verifying, VerifySteps, PrgSteps, SumSteps, RevealSteps, AcceptSteps
  <2>3. DOMAIN openHash' = Procs /\ DOMAIN commits' = Procs
    BY <1>3, <1>6 DEF DealerVerify, DealerInv
  <2>4. openHash'[0] \in Digests /\ \A e \in DOMAIN openHash'[0] : openHash'[0][e].view = 0
    <3>1. CASE Verifying(s)
      BY <2>1, <3>1 DEF Digests
    <3>2. CASE s \notin PrgSteps \cup RevealSteps
      BY <1>3, <2>1, <3>2 DEF Verifying, DealerInv, PrgSteps
    <3>3. CASE s \in PrgSteps \cup RevealSteps /\ ~Verifying(s)
      BY <1>3, <2>1, <3>3, HashOne DEF DealerInv
    <3> QED
      BY <3>1, <3>2, <3>3
  <2>5. commits'[0] \in Seq(Commitments) /\ Len(commits'[0]) = NumCommits(After(s, n))
    <3>1. CASE Verifying(s)
      <4>1. s \in PrgSteps \cup RevealSteps
        BY <3>1 DEF Verifying, PrgSteps
      <4>2. Append(openHash[0], Entry(s, 0)) \in Commitments
        BY <1>3, <4>1, HashOne DEF DealerInv, Commitments
      <4> QED
        BY <1>3, <2>1, <2>2, <3>1, <4>2 DEF DealerInv
    <3>2. CASE ~Verifying(s)
      BY <1>3, <2>1, <2>2, <3>2 DEF DealerInv
    <3> QED
      BY <3>1, <3>2
  <2>6. NetType'
    BY <1>3, <2>1 DEF NetType, netVars
  <2>7. \A q \in Parties : Written(q)' = Written(q)
    BY <2>1, <2>2 DEF Written, VerifySteps, PrgSteps, SumSteps, RevealSteps, AcceptSteps
  <2>8. \A q \in Parties : BoxInv(q)'
    BY <1>2, <1>3, <2>1, <2>7, KeepBox DEF netVars
  <2> QED
    BY <2>1, <2>3, <2>4, <2>5, <2>6, <2>8 DEF MailInv, DealerInv
<1>7. CASE SendCommits
  <2> DEFINE msgs == [q \in Parties |-> [kind |-> "commits", digests |-> commits[0]]]
  <2>1. /\ s = "verified" /\ pc'[0] = "sendRandomizers" /\ openHash' = openHash
        /\ commits' = [commits EXCEPT ![0] = << >>] /\ Send(0, msgs)
    BY <1>7, ProcFacts DEF SendCommits, Goto, FlowType
  <2>2. msgs \in [Parties -> Mail] /\ \A q \in Parties : msgs[q].kind = "commits"
    <3>1. commits[0] \in Seq(Commitments) /\ Len(commits[0]) = 3
      BY <1>3, <2>1 DEF DealerInv, NumCommits
    <3>2. [kind |-> "commits", digests |-> commits[0]] \in Mail
      BY <3>1 DEF Mail
    <3> QED
      BY <3>2
  <2> HIDE DEF msgs
  <2>3. /\ NetType' /\ read' = read
        /\ \A q \in Parties : log'[0][q] = Append(log[0][q], msgs[q])
                              /\ flushed'[0][q] = Len(log[0][q]) + 1
    BY <1>3, <2>1, <2>2, SendFacts
  <2>4. DealerInv'
    BY <1>3, <2>1, ProcFacts DEF DealerInv, NumCommits
  <2>5. \A q \in Parties : Written(q)' = Written(q) + 1 /\ KindAt(q, Written(q) + 1) = "commits"
    BY <1>1, <2>1 DEF Written, KindAt, First
  <2>6. ASSUME NEW q \in Parties PROVE BoxInv(q)'
    BY <1>2, <1>3, <2>2, <2>3, <2>5, WriteBox
  <2> QED
    BY <2>3, <2>4, <2>6 DEF MailInv
<1>8. CASE SendOutputCommit
  <2> DEFINE msgs == [q \in Parties |-> [kind |-> "outputCommit", digest |-> <<Entry("outputs", 0)>>]]
  <2>1. /\ s = "sendOutputCommit" /\ pc'[0] = "done" /\ openHash' = openHash
        /\ commits' = commits /\ Send(0, msgs)
    BY <1>8, ProcFacts DEF SendOutputCommit, Goto, FlowType, checks
  <2>2. msgs \in [Parties -> Mail] /\ \A q \in Parties : msgs[q].kind = "outputCommit"
    BY DEF Mail, OutputCommitment
  <2> HIDE DEF msgs
  <2>3. /\ NetType' /\ read' = read
        /\ \A q \in Parties : log'[0][q] = Append(log[0][q], msgs[q])
                              /\ flushed'[0][q] = Len(log[0][q]) + 1
    BY <1>3, <2>1, <2>2, SendFacts
  <2>4. DealerInv'
    BY <1>3, <2>1 DEF DealerInv, NumCommits
  <2>5. \A q \in Parties : Written(q)' = Written(q) + 1 /\ KindAt(q, Written(q) + 1) = "outputCommit"
    BY <1>1, <2>1 DEF Written, KindAt, First, Extra
  <2>6. ASSUME NEW q \in Parties PROVE BoxInv(q)'
    BY <1>2, <1>3, <2>2, <2>3, <2>5, WriteBox
  <2> QED
    BY <2>3, <2>4, <2>6 DEF MailInv
<1>9. CASE SendRandomizers \/ SendOutputRandomizers
  <2>1. PICK k \in {"randomizers", "outputRandomizers"} :
          /\ Send(0, [q \in {1} |-> [kind |-> k]])
          /\ k = "randomizers" => s = "sendRandomizers" /\ pc'[0] = "outputB"
          /\ k = "outputRandomizers" => s = "outputB" /\ pc'[0] = "sendOutputCommit"
    BY <1>9, ProcFacts DEF SendRandomizers, SendOutputRandomizers, Goto, FlowType
  <2> DEFINE msgs == [q \in {1} |-> [kind |-> k]]
  <2>2. openHash' = openHash /\ commits' = commits
    BY <1>9 DEF SendRandomizers, SendOutputRandomizers, checks
  <2>3. msgs \in [{1} -> Mail] /\ msgs[1].kind = k /\ Send(0, msgs) /\ {1} \in SUBSET Parties
    BY <2>1, ProcFacts DEF Mail
  <2> HIDE DEF msgs
  <2>4. /\ NetType' /\ read' = read /\ log'[0][1] = Append(log[0][1], msgs[1])
        /\ flushed'[0][1] = Len(log[0][1]) + 1
        /\ \A q \in Parties \ {1} : log'[0][q] = log[0][q] /\ flushed'[0][q] = flushed[0][q]
    BY <1>3, <2>3, SendFacts
  <2>5. DealerInv'
    BY <1>3, <2>1, <2>2 DEF DealerInv, NumCommits
  <2>6. BoxInv(1)'
    <3>1. Written(1)' = Written(1) + 1 /\ KindAt(1, Written(1) + 1) = k
      BY <2>1, ProcFacts DEF Written, KindAt, First, Extra
    <3> QED
      BY <1>2, <1>3, <2>3, <2>4, <3>1, WriteBox, ProcFacts
  <2>7. ASSUME NEW q \in Parties, q # 1 PROVE BoxInv(q)'
    <3>1. Written(q)' = Written(q)
      BY <2>1, <2>7 DEF Written, First, Extra
    <3> QED
      BY <1>2, <1>3, <2>4, <2>7, <3>1, KeepBox
  <2> QED
    BY <2>4, <2>5, <2>6, <2>7 DEF MailInv
<1> QED
  BY <1>4, <1>5, <1>6, <1>7, <1>8, <1>9 DEF Dealer, DealerLocal

(* A party reads the next message; nobody else touches the mail.           *)
LEMMA PartyMail ==
  ASSUME FlowType, MailInv, NEW p \in Parties, Party(p)
  PROVE  MailInv'
<1>1. NetType /\ DealerInv /\ \A q \in Parties : BoxInv(q)
  BY DEF MailInv
<1>2. CASE ReadMail(p)
  <2> DEFINE s == pc[p]
  <2>1. /\ s \in DOMAIN Expected /\ Consume(p, 0) /\ Goto(p, AfterMail(p, s)) /\ openHash' = openHash
        /\ Arrived(p, 0)
    BY <1>2 DEF ReadMail
  <2>2. AfterMail(p, s) \in PartySteps
    BY <2>1 DEF AfterMail, PartySteps, Setup, Expected, RoundSteps, Openings
  <2>3. /\ pc'[p] = AfterMail(p, s) /\ pc'[0] = pc[0]
        /\ \A q \in Parties : q # p => pc'[q] = pc[q]
    BY <2>1, <2>2, PartyGoto
  <2>4. /\ log' = log /\ flushed' = flushed
        /\ read' = [read EXCEPT ![0][p] = @ + 1]
    BY <2>1 DEF Consume
  <2>5. NetType'
    <3>1. 0 \in Procs /\ p \in Procs
      BY ProcFacts
    <3>2. read[0] \in [Procs -> Nat] /\ read[0][p] \in Nat
      BY <1>1, <3>1 DEF NetType
    <3>3. [read[0] EXCEPT ![p] = @ + 1] \in [Procs -> Nat]
      BY <3>1, <3>2
    <3>4. read' = [read EXCEPT ![0] = [read[0] EXCEPT ![p] = @ + 1]]
      BY <2>4
    <3>5. read' \in [Procs -> [Procs -> Nat]]
      BY <1>1, <3>1, <3>3, <3>4 DEF NetType
    <3> QED
      BY <1>1, <2>4, <3>5 DEF NetType
  <2>6. commits'[0] = commits[0] /\ DOMAIN commits' = Procs
    BY <1>1, <1>2, ProcFacts DEF ReadMail, DealerInv
  <2>7. DealerInv'
    BY <1>1, <2>1, <2>3, <2>6 DEF DealerInv, NumCommits
  <2>8. ASSUME NEW q \in Parties, q # p PROVE BoxInv(q)'
    <3>1. read'[0][q] = read[0][q] /\ Written(q)' = Written(q)
      BY <1>1, <2>3, <2>4, <2>8, ProcFacts DEF NetType, Written
    <3> QED
      BY <1>1, <2>3, <2>4, <2>8, <3>1, KeepBox
  <2>9. BoxInv(p)'
    <3>1. BoxInv(p) /\ First(p) \in Nat /\ Extra(p) \in Nat /\ (p = 1 => Extra(p) = 2)
          /\ (p = nP => First(p) = 1) /\ (p # 1 => Extra(p) = 0) /\ (p # nP => First(p) = 0)
      BY <1>1 DEF First, Extra
    <3>2. read'[0][p] = Received(p) + 1
      <4>1. 0 \in Procs /\ p \in Procs
        BY ProcFacts
      <4>2. read[0] \in [Procs -> Nat] /\ DOMAIN read = Procs
        BY <1>1, <4>1 DEF NetType
      <4> QED
        BY <2>4, <3>1, <4>1, <4>2 DEF BoxInv
    <3>3. Received(p)' = Received(p) + 1
      <4>1. s \in {"recvGamma", "recvCommits", "recvRandomizers", "recvOutputRandomizers",
                   "recvOutputCommit"}
        BY <2>1 DEF Expected
      <4> QED
        BY <2>3, <3>1, <4>1 DEF Received, AfterMail, BoxInv, First, Extra
    <3>4. /\ pc'[p] = "recvGamma" => p = nP
          /\ pc'[p] \in {"recvRandomizers", "recvOutputRandomizers"} => p = 1
      BY <2>1, <2>3, <3>1 DEF AfterMail, BoxInv, Expected
    <3>5. Written(p)' = Written(p) /\ \A i : KindAt(p, i)' = KindAt(p, i)
      BY <2>3 DEF Written, KindAt, First, Extra
    <3> QED
      BY <2>4, <3>1, <3>2, <3>3, <3>4, <3>5 DEF BoxInv
  <2> QED
    BY <2>5, <2>7, <2>8, <2>9 DEF MailInv
<1>3. CASE ~ReadMail(p)
  <2>1. UNCHANGED netVars
    BY <1>3 DEF Party, PartyOutputA, PartyGates, Contribute, SeeOpening, ReadDigests,
                CheckForAccept, DrawY0
  <2>2. openHash'[0] = openHash[0] /\ DOMAIN openHash' = Procs /\ commits'[0] = commits[0] /\ DOMAIN commits' = Procs
    BY <1>1, <1>3, ProcFacts, ZenonT(60)
       DEF Party, PartyOutputA, PartyGates, Contribute, SeeOpening, ReadDigests,
           CheckForAccept, DrawY0, checks, DealerInv
  <2>3. \A r : pc[p] \notin Setup /\ r \notin Setup /\ pc'[p] = r => Received(p)' = Received(p)
    BY DEF Received, Setup, Expected, First, Extra
  <2>4. /\ pc'[0] = pc[0] /\ \A q \in Parties : q # p => pc'[q] = pc[q]
        /\ Received(p)' = Received(p)
        /\ pc'[p] = "recvGamma" => pc[p] = "recvGamma" \/ p = nP
        /\ pc'[p] \in {"recvRandomizers", "recvOutputRandomizers"} => pc'[p] = pc[p]
    <3>1. CASE PartyOutputA(p)
      <4>1. pc[p] = "outputA" /\ Goto(p, "gates") /\ "gates" \in PartySteps
        BY <3>1 DEF PartyOutputA, PartySteps, Setup
      <4> QED
        BY <4>1, PartyGoto DEF Received
    <3>2. CASE PartyGates(p)
      <4>1. /\ pc[p] = "gates" /\ Goto(p, IF p = nP THEN "recvGamma" ELSE "recvCommits")
            /\ "recvGamma" \in PartySteps /\ "recvCommits" \in PartySteps
        BY <3>2 DEF PartyGates, PartySteps, Setup, Expected
      <4> QED
        BY <4>1, PartyGoto DEF Received, First
    <3>3. CASE Contribute(p)
      BY <3>3 DEF Contribute, Received, First, Extra
    <3>4. ASSUME NEW r \in RoundSteps \cup {"y_0", "done", "aborted"}, Goto(p, r),
                 pc[p] \in RoundSteps \cup {"y_0"}
          PROVE  /\ pc'[0] = pc[0] /\ \A q \in Parties : q # p => pc'[q] = pc[q]
                 /\ Received(p)' = Received(p)
                 /\ pc'[p] = "recvGamma" => pc[p] = "recvGamma" \/ p = nP
                 /\ pc'[p] \in {"recvRandomizers", "recvOutputRandomizers"} => pc'[p] = pc[p]
      <4>1. pc[p] \notin Setup /\ r \notin Setup
        BY <3>4, StepFacts
      <4>2. r \in PartySteps
        BY DEF PartySteps
      <4>3. r \notin {"recvGamma", "recvRandomizers", "recvOutputRandomizers"}
        BY <4>1 DEF Setup, Expected
      <4> QED
        BY <2>3, <3>4, <4>1, <4>2, <4>3, PartyGoto
    <3>5. ASSUME NEW v \in {0, 1}, SeeOpening(p, v) PROVE Goto(p, AfterRound(p, pc[p])) /\ pc[p] \in RoundSteps
      BY <3>5, StepFacts DEF SeeOpening
    <3>6. ASSUME CheckForAccept(p)
          PROVE  /\ pc[p] \in RoundSteps
                 /\ \E r \in {AfterRound(p, pc[p]), "aborted"} : Goto(p, r)
      BY <3>6, StepFacts DEF CheckForAccept
    <3>7. ASSUME ReadDigests(p) PROVE Goto(p, "acceptInputs") /\ pc[p] \in RoundSteps
      BY <3>7 DEF ReadDigests, RoundSteps
    <3>8. ASSUME DrawY0(p) PROVE Goto(p, "triple") /\ pc[p] = "y_0"
      BY <3>8, AfterFacts DEF DrawY0
    <3>9. "acceptInputs" \in RoundSteps /\ "triple" \in RoundSteps
      BY StepFacts DEF RoundSteps, Accepts, OneBit
    <3> QED
      BY <1>3, <3>1, <3>2, <3>3, <3>4, <3>5, <3>6, <3>7, <3>8, <3>9, AfterRoundFacts DEF Party
  <2>5. NetType' /\ DealerInv'
    BY <1>1, <2>1, <2>2, <2>4 DEF NetType, netVars, DealerInv, NumCommits
  <2>6. ASSUME NEW q \in Parties PROVE BoxInv(q)'
    <3>1. Written(q)' = Written(q) /\ \A i : KindAt(q, i)' = KindAt(q, i)
      BY <2>4 DEF Written, KindAt, First, Extra
    <3>2. CASE q # p
      BY <1>1, <2>1, <2>4, <3>1, <3>2, KeepBox DEF netVars
    <3>3. CASE q = p
      BY <1>1, <2>1, <2>4, <3>1, <3>3 DEF netVars, BoxInv
    <3> QED
      BY <3>2, <3>3
  <2> QED
    BY <2>5, <2>6 DEF MailInv
<1> QED
  BY <1>2, <1>3

(* All boxes begin empty.                                                  *)
LEMMA MailInit == Init => MailInv
<1> SUFFICES ASSUME Init PROVE MailInv
  OBVIOUS
<1>1. NetType
  BY DEF Init, NetInit, NetType
<1>2. DealerInv
  BY ProcFacts DEF Init, DealerInv, NumCommits, Digests
<1>3. ASSUME NEW q \in Parties PROVE BoxInv(q)
  <2>1. log[0][q] = << >> /\ flushed[0][q] = 0 /\ read[0][q] = 0 /\ pc[0] = "outputA" /\ pc[q] = "outputA"
    BY ProcFacts DEF Init, NetInit
  <2> QED
    BY <2>1 DEF BoxInv, Written, Received
<1> QED
  BY <1>1, <1>2, <1>3 DEF MailInv

(* The messages of the dealer to a party are written and read in the order *)
(* of KindAt (zkfliop_evaluator.cpp:233-239, 527-559, 1015-1057).          *)
THEOREM MailCorrect == Spec => []MailInv
<1>1. FlowType /\ MailInv /\ [Next]_vars => MailInv'
  <2> SUFFICES ASSUME FlowType, MailInv, [Next]_vars PROVE MailInv'
    OBVIOUS
  <2>1. CASE UNCHANGED vars
    BY <2>1 DEF vars, flow, checks, netVars, MailInv, NetType, DealerInv, NumCommits, BoxInv, Written,
                Received, KindAt, First, Extra
  <2> QED
    BY <2>1, DealerMail, PartyMail DEF Next
<1> QED
  BY <1>1, MailInit, FlowCorrect, PTL DEF Spec

(* What a party reads next is what it expects.                             *)
LEMMA NextMail ==
  ASSUME MailInv, NEW p \in Parties, pc[p] \in DOMAIN Expected, Arrived(p, 0)
  PROVE  NextMsg(p, 0) \in Mail /\ NextMsg(p, 0).kind = Expected[pc[p]]
<1>1. 0 \in Procs /\ p \in Procs /\ NetType /\ BoxInv(p)
  BY ProcFacts DEF MailInv
<1>2. /\ log[0] \in [Procs -> Seq(Mail)] /\ flushed[0] \in [Procs -> Nat]
      /\ read[0] \in [Procs -> Nat]
  BY <1>1 DEF NetType
<1>3. log[0][p] \in Seq(Mail) /\ flushed[0][p] \in Nat /\ read[0][p] \in Nat
  BY <1>1, <1>2
<1>4. Received(p) + 1 \in DOMAIN log[0][p]
  BY <1>1, <1>3 DEF Arrived, BoxInv
<1>5. NextMsg(p, 0) \in Mail /\ NextMsg(p, 0).kind = KindAt(p, Received(p) + 1)
  BY <1>1, <1>3, <1>4 DEF NextMsg, BoxInv
<1>6. KindAt(p, Received(p) + 1) = Expected[pc[p]]
  BY <1>1, ProcFacts DEF KindAt, Received, Expected, First, Extra, BoxInv
<1> QED
  BY <1>5, <1>6

(* A party that waits for the dealer reads the message it takes it for,    *)
(* whatever its part in the setup (zkfliop_evaluator.cpp:233-239, 527-559, *)
(* 1015-1057).                                                             *)
THEOREM MailIsInOrder == Spec => []MailInOrder
<1>1. MailInv => MailInOrder
  BY NextMail DEF MailInOrder
<1> QED
  BY <1>1, MailCorrect, PTL

-----------------------------------------------------------------------------

(* The steps from which a check can only lie behind a party.               *)
PastCheck   == {"accept1", "openTriple", "accept2", "openOutput", "accept3", "outputs",
                "acceptOutputs", "done", "aborted"}
PastReveal  == {"accept3", "outputs", "acceptOutputs", "done", "aborted"}
PastOutputs == {"acceptOutputs", "done", "aborted"}

NumLeft(s) ==
  IF s \in {"outputA", "gates", "recvGamma", "recvCommits"} THEN 0
  ELSE IF s \in {"accept1", "openTriple"} THEN 2
  ELSE IF s \in {"accept2", "openOutput"} THEN 1
  ELSE IF s \in PastCheck THEN 0 ELSE 3

CommitInv(p) ==
  /\ openHash[p] \in Digests /\ commits[p] \in Seq(Commitments)
  /\ pc[p] # "aborted" => Len(commits[p]) = NumLeft(pc[p])
  /\ pc[p] \notin Setup => outCommit[p] = OutputCommitment

(* p has seen something else than what the shares of a step in S sum to.   *)
Dirty(p, S) == \E k \in DOMAIN views[p] : views[p][k].step \in S /\ views[p][k].view # 0

(* What an altered opening leaves behind: in the hash until it is compared *)
(* with the commitment, and in the flag from then on.                      *)
TraceInv(p) ==
  /\ pc[p] \in PastCheck /\ pc[p] # "aborted" => openHash[p] = << >> /\ consHash[p] = << >>
  /\ pc[p] \notin PastCheck /\ Dirty(p, PrgSteps) =>
       \E e \in DOMAIN openHash[p] : openHash[p][e].view # 0
  /\ pc[p] \in PastCheck /\ pc[p] # "aborted" /\ Dirty(p, PrgSteps) => openBad[p]
  /\ Dirty(p, RevealSteps) => openBad[p]
  /\ \A k \in DOMAIN views[p] :
       views[p][k].step = "outputs" => pc[p] \in PastOutputs /\ k = Len(views[p])

HasSent(p, r, s) == r \in DOMAIN sent[p] /\ sent[p][r].step = s
Yes(p, r, i)     == sent[p][r].content[i]

(* What the messages of p say about p.                                     *)
WordInv(p) ==
  /\ \A r \in DOMAIN sent[p] : HasSent(p, r, "alphaBeta") =>
       \/ pc[p] \in PastCheck
       \/ /\ pc[p] = "alphaBeta" /\ waiting[p] /\ r = LastRound(p)
          /\ sent[p][r].content = consHash[p]
  /\ \A r \in DOMAIN sent[p] : HasSent(p, r, "accept1") =>
       /\ pc[p] \in PastCheck /\ \E i \in DOMAIN sent[p] : HasSent(p, i, "alphaBeta")
       /\ Yes(p, r, 1) => ~consBad[p]
       /\ Yes(p, r, 2) => ~Dirty(p, PrgSteps)
  /\ \A r \in DOMAIN sent[p] : HasSent(p, r, "accept3") =>
       pc[p] \in PastReveal /\ (Yes(p, r, 1) => ~Dirty(p, RevealSteps))
  /\ \A r \in DOMAIN sent[p] : HasSent(p, r, "acceptOutputs") =>
       pc[p] \in PastOutputs /\ (Yes(p, r, 1) => ~Dirty(p, {"outputs"}))
  /\ pc[p] \in PastCheck /\ pc[p] # "aborted" => \E i \in DOMAIN sent[p] : HasSent(p, i, "alphaBeta")

(* Who got past an accept has a yes of everybody.                          *)
PassedInv(p) ==
  /\ \A s \in Accepts : Passed(p, s) =>
       \E r \in DOMAIN sent[p] : \A q \in Parties : HasSent(q, r, s) /\ Yes(q, r, 1) /\ Yes(q, r, 2)
  /\ pc[p] \in {"outputs", "acceptOutputs", "done"} => Passed(p, "accept3")
  /\ pc[p] = "done" => Passed(p, "acceptOutputs")

(* How many openings q has seen, and kept for the check, compared to p.    *)
NextSeen(p) == Len(views[p]) + (IF At(p) \in Openings THEN 1 ELSE 0)
NextKept(p) == IF CheckingConsistency(At(p)) THEN 0
               ELSE Len(consHash[p]) + (IF Consistent(At(p)) THEN 1 ELSE 0)

SeenInv(p, q) ==
  /\ \A k \in DOMAIN views[p] \cap DOMAIN views[q] : views[p][k].step = views[q][k].step
  /\ Round(q) = Round(p) =>
       Len(views[q]) = Len(views[p]) /\ Len(consHash[q]) = Len(consHash[p])
  /\ Round(q) = Round(p) + 1 =>
       /\ Len(views[q]) = NextSeen(p) /\ Len(consHash[q]) = NextKept(p)
       /\ At(p) \in Openings => views[q][Len(views[q])].step = At(p)
       /\ Consistent(At(p)) => consHash[q][Len(consHash[q])] = views[q][Len(views[q])]

(* Two parties have seen an opening differently that both have seen and    *)
(* that the consistency check covers.                                      *)
Differ(p, q) ==
  \E k \in DOMAIN views[p] \cap DOMAIN views[q] :
    Consistent(views[q][k].step) /\ views[q][k] # views[p][k]

DifferInv(p, q) ==
  Differ(p, q) =>
    /\ pc[p] \notin PastCheck /\ pc[q] \notin PastCheck =>
         \E j \in DOMAIN consHash[p] \cap DOMAIN consHash[q] : consHash[p][j] # consHash[q][j]
    /\ \A r \in DOMAIN sent[p] : HasSent(p, r, "alphaBeta") /\ HasSent(q, r, "alphaBeta") =>
         sent[p][r].content # sent[q][r].content

(* Who has compared and found no mismatch had the same digest as all.      *)
ComparedInv(p) ==
  \A r \in DOMAIN sent[p] : HasSent(p, r, "alphaBeta") /\ pc[p] \in PastCheck /\ ~consBad[p] =>
    \A q \in Parties : HasSent(q, r, "alphaBeta") /\ sent[q][r].content = sent[p][r].content

CheckInv ==
  /\ DOMAIN outCommit = Parties
  /\ \A p \in Parties : CommitInv(p) /\ TraceInv(p) /\ WordInv(p) /\ PassedInv(p) /\ ComparedInv(p)
  /\ \A p, q \in Parties : SeenInv(p, q) /\ DifferInv(p, q)

-----------------------------------------------------------------------------
(* The order of the steps after the consistency check, and before it.      *)
LEMMA Order ==
  ASSUME NEW p, NEW s \in RoundSteps
  PROVE  /\ s = "alphaBeta" => AfterRound(p, s) = "accept1"
         /\ s = "accept1" => AfterRound(p, s) = "openTriple"
         /\ s = "openTriple" => AfterRound(p, s) = "accept2"
         /\ s = "accept2" => AfterRound(p, s) = "openOutput"
         /\ s = "openOutput" => AfterRound(p, s) = "accept3"
         /\ s = "accept3" => AfterRound(p, s) = "outputs"
         /\ s = "outputs" => AfterRound(p, s) = "acceptOutputs"
         /\ s = "acceptOutputs" => AfterRound(p, s) = "done"
         /\ s \notin PastCheck /\ s # "alphaBeta" => AfterRound(p, s) \notin PastCheck
<1>1. CASE s \in {"inputs", "inputDigest", "acceptInputs", "online"}
  BY <1>1 DEF AfterRound, PastCheck
<1>2. CASE s \in {"outputs", "acceptOutputs", "accept3"}
  BY <1>2 DEF AfterRound, PastCheck
<1>3. CASE s \notin {"inputs", "inputDigest", "acceptInputs", "online", "outputs",
                     "acceptOutputs", "accept3"}
  <2>1. AfterRound(p, s) = After(s, SizeAfter(s, size[p]))
    BY <1>3 DEF AfterRound
  <2>2. s \in VerifySteps
    BY <1>3 DEF VerifySteps, RoundSteps, Openings, Accepts, OneBit
  <2> QED
    BY <1>3, <2>1, <2>2
       DEF After, PastCheck, VerifySteps, PrgSteps, SumSteps, RevealSteps, AcceptSteps
<1> QED
  BY <1>1, <1>2, <1>3

(* What is checked, and when.                                              *)
LEMMA Kinds ==
  /\ \A s : Verifying(s) <=> s \in {"openTriple", "openOutput", "alphaBeta"}
  /\ \A s : CheckingConsistency(s) <=> s = "alphaBeta"
  /\ \A s : Committed(s) <=> s \in PrgSteps \cup RevealSteps
  /\ \A s : Verifying(s) => Committed(s)
  /\ \A s : Consistent(s) => s \notin PastCheck /\ s # "alphaBeta" /\ ~Committed(s) /\ s \in Openings
  /\ \A s \in PrgSteps : s \notin PastCheck /\ s \notin RevealSteps /\ s # "outputs" /\ s \in Openings
  /\ RevealSteps = {"openTriple", "openOutput"} /\ "alphaBeta" \in PrgSteps
  /\ \A s \in PastReveal : s \in PastCheck /\ s \notin RevealSteps
  /\ \A s \in PastOutputs : s \in PastReveal /\ s # "outputs"
  /\ "outputs" \in PastReveal /\ "outputs" \in Openings /\ "alphaBeta" \notin PastCheck
  /\ \A s \in Setup \cup {"inputs", "triple", "y_0", "inputDigest", "acceptInputs"} :
       s \notin PastCheck /\ s # "alphaBeta"
BY DEF Verifying, CheckingConsistency, Committed, Consistent, PrgSteps, RevealSteps, SumSteps,
       Openings, PastCheck, PastReveal, PastOutputs, Setup, Expected

(* A commitment is taken in every step that is verified, and there is one  *)
(* left.                                                                   *)
LEMMA NumLeftFacts ==
  /\ \A s \in {"openTriple", "openOutput", "alphaBeta"} : NumLeft(s) >= 1
  /\ \A p : \A s \in RoundSteps :
       NumLeft(AfterRound(p, s)) = IF Verifying(s) THEN NumLeft(s) - 1 ELSE NumLeft(s)
<1>1. \A s \in {"openTriple", "openOutput", "alphaBeta"} : NumLeft(s) >= 1
  BY DEF NumLeft, PastCheck
<1>2. ASSUME NEW p, NEW s \in RoundSteps
      PROVE  NumLeft(AfterRound(p, s)) = IF Verifying(s) THEN NumLeft(s) - 1 ELSE NumLeft(s)
  <2>1. s \notin PastCheck /\ s # "alphaBeta" => NumLeft(s) = 3 /\ NumLeft(AfterRound(p, s)) = 3
    <3>1. \A t \in RoundSteps \cup {"y_0", "done"} : t \notin PastCheck => NumLeft(t) = 3
      BY StepFacts DEF NumLeft, PastCheck, Setup, Expected
    <3> QED
      BY <3>1, AfterRoundFacts, Order
  <2>2. s \in PastCheck => s \in {"accept1", "openTriple", "accept2", "openOutput", "accept3",
                                  "outputs", "acceptOutputs"}
    BY StepFacts DEF PastCheck
  <2>3. CASE s \notin PastCheck /\ s # "alphaBeta"
    BY <2>1, <2>3, Kinds DEF PastCheck
  <2>4. CASE s \in PastCheck \/ s = "alphaBeta"
    BY <2>2, <2>4, Kinds, Order DEF NumLeft, PastCheck
  <2> QED
    BY <2>3, <2>4
<1> QED
  BY <1>1, <1>2

(* What a party has seen and kept has its type.                            *)
LEMMA ViewTypes ==
  ASSUME FlowType, NEW p \in Parties
  PROVE  /\ views[p] \in Digests /\ consHash[p] \in Digests
         /\ DOMAIN views[p] = 1..Len(views[p]) /\ Len(views[p]) \in Nat
         /\ DOMAIN consHash[p] = 1..Len(consHash[p]) /\ Len(consHash[p]) \in Nat
         /\ \A k \in DOMAIN views[p] : views[p][k] \in Entries
<1>1. views[p] \in Digests /\ consHash[p] \in Digests
  BY DEF FlowType
<1> QED
  BY <1>1 DEF Digests

(* Nothing changes but the place of some parties before a round.           *)
LEMMA CheckFrame ==
  ASSUME FlowType, CheckInv, UNCHANGED <<sent, views, consHash, consBad, openBad, verdicts>>,
         \A q \in Parties : /\ openHash'[q] = openHash[q] /\ waiting'[q] = waiting[q]
                            /\ At(q)' = At(q)
                            /\ pc'[q] = pc[q] \/ (~waiting[q] /\ pc[q] \notin PastCheck
                                                  /\ pc'[q] \notin PastCheck)
  PROVE  /\ \A p \in Parties : TraceInv(p)' /\ WordInv(p)' /\ PassedInv(p)' /\ ComparedInv(p)'
         /\ \A p, q \in Parties : SeenInv(p, q)' /\ DifferInv(p, q)'
<1>1. ASSUME NEW q \in Parties
      PROVE  /\ LastRound(q)' = LastRound(q) /\ Round(q)' = Round(q)
             /\ pc'[q] \in PastCheck <=> pc[q] \in PastCheck
             /\ pc'[q] \in PastReveal <=> pc[q] \in PastReveal
             /\ pc'[q] \in PastOutputs <=> pc[q] \in PastOutputs
  BY <1>1, Kinds DEF LastRound, Round
<1>2. ASSUME NEW p \in Parties PROVE TraceInv(p)'
  <2>1. TraceInv(p) /\ \A S : Dirty(p, S)' = Dirty(p, S)
    BY DEF CheckInv, Dirty
  <2>2. pc'[p] = "aborted" <=> pc[p] = "aborted"
    BY DEF PastCheck
  <2> QED
    BY <1>1, <2>1, <2>2 DEF TraceInv, Dirty
<1>3. ASSUME NEW p \in Parties PROVE WordInv(p)'
  <2>1. WordInv(p)
    BY DEF CheckInv
  <2>2. pc'[p] = "aborted" <=> pc[p] = "aborted"
    BY DEF PastCheck
  <2> QED
    BY <1>1, <2>1, <2>2 DEF WordInv, HasSent, Yes, Dirty
<1>4. ASSUME NEW p \in Parties PROVE PassedInv(p)'
  <2>1. PassedInv(p)
    BY DEF CheckInv
  <2>2. \A s : Passed(p, s)' = Passed(p, s)
    BY DEF Passed
  <2>3. /\ pc'[p] \in {"outputs", "acceptOutputs", "done"} => pc'[p] = pc[p]
        /\ pc'[p] = "done" => pc'[p] = pc[p]
    BY DEF PastCheck
  <2>4. \A q, r, s : HasSent(q, r, s)' = HasSent(q, r, s) /\ \A i : Yes(q, r, i)' = Yes(q, r, i)
    BY DEF HasSent, Yes
  <2> QED
    BY <2>1, <2>2, <2>3, <2>4 DEF PassedInv
<1>5. ASSUME NEW p \in Parties PROVE ComparedInv(p)'
  BY <1>1 DEF CheckInv, ComparedInv, HasSent
<1>6. ASSUME NEW p \in Parties, NEW q \in Parties PROVE SeenInv(p, q)' /\ DifferInv(p, q)'
  <2>1. SeenInv(p, q) /\ DifferInv(p, q)
    BY DEF CheckInv
  <2>2. SeenInv(p, q)'
    BY <1>1, <2>1 DEF SeenInv, NextSeen, NextKept
  <2>3. DifferInv(p, q)'
    BY <1>1, <2>1 DEF DifferInv, Differ, HasSent
  <2> QED
    BY <2>2, <2>3
<1> QED
  BY <1>2, <1>3, <1>4, <1>5, <1>6

(* What comes after an empty sequence is all there is.                     *)
LEMMA EmptyConcat ==
  ASSUME NEW S, NEW a \in Seq(S), NEW b \in Seq(S), Len(a) = 0
  PROVE  a \o b \in Seq(S) /\ Len(a \o b) = Len(b)
OBVIOUS

(* A step that leaves a party alone keeps what its commitments promise.    *)
LEMMA SameCommits ==
  ASSUME NEW q \in Parties, CommitInv(q), pc'[q] = pc[q], openHash'[q] = openHash[q],
         commits'[q] = commits[q], outCommit'[q] = outCommit[q]
  PROVE  CommitInv(q)'
BY DEF CommitInv

(* The dealer touches nothing that the checks of the parties rest on.      *)
LEMMA DealerChecks ==
  ASSUME FlowType, MailInv, CheckInv, Dealer
  PROVE  CheckInv'
<1>1. \A q \in Parties : q \in Procs /\ q # 0 /\ pc'[q] = pc[q] /\ waiting'[q] = waiting[q]
  BY DealerGoto, ProcFacts
<1>2. /\ UNCHANGED <<sent, views, consHash, consBad, openBad, verdicts, outCommit>>
      /\ \A q \in Parties : openHash'[q] = openHash[q] /\ commits'[q] = commits[q]
  BY <1>1 DEF MailInv, DealerInv, Dealer, DealerLocal, DealerVerify, SendCommits, SendRandomizers,
              SendOutputRandomizers, SendOutputCommit, checks
<1>3. \A q \in Parties : CommitInv(q)'
  BY <1>1, <1>2, SameCommits DEF CheckInv
<1>4. \A q \in Parties : At(q)' = At(q)
  BY <1>1 DEF At
<1> QED
  BY <1>1, <1>2, <1>3, <1>4, CheckFrame DEF CheckInv

(* Nor does a party between two rounds, but for the commitments it reads   *)
(* (setup_verify).                                                         *)
LEMMA LocalChecks ==
  ASSUME FlowType, MailInv, CheckInv, NEW p \in Parties,
         PartyOutputA(p) \/ PartyGates(p) \/ ReadMail(p) \/ DrawY0(p)
  PROVE  CheckInv'
<1> DEFINE s == pc[p]
<1>1. LocalStep(p) /\ waiting[p] = FALSE
  BY LocalSteps, ProcFacts DEF LocalStep, FlowType
<1>2. PICK t \in PartySteps : Goto(p, t) /\ RoundOf(t) = At(p)
  BY <1>1 DEF LocalStep
<1>3. /\ pc'[p] = t /\ waiting'[p] = FALSE
      /\ \A q \in Parties : At(q)' = At(q) /\ waiting'[q] = waiting[q]
      /\ \A q \in Parties : q # p => pc'[q] = pc[q]
  BY <1>1, <1>2, PartyGoto
<1>4. s \in Setup \cup {"y_0"} /\ (s = "y_0" => t = "triple") /\ t \in Setup \cup {"inputs", "triple"}
  <2>1. CASE ReadMail(p)
    <3>1. s \in Setup /\ Goto(p, AfterMail(p, s)) /\ AfterMail(p, s) \in Setup \cup {"inputs"}
      BY <2>1 DEF ReadMail, AfterMail, Setup, Expected
    <3>2. "y_0" \notin Setup
      BY StepFacts
    <3>3. AfterMail(p, s) \in PartySteps
      BY <3>1, StepFacts DEF PartySteps
    <3> QED
      BY <1>3, <3>1, <3>2, <3>3, PartyGoto
  <2>2. CASE PartyOutputA(p)
    BY <1>3, <2>2, PartyGoto DEF PartyOutputA, Setup, PartySteps
  <2>3. CASE PartyGates(p)
    <3>1. s = "gates" /\ Goto(p, IF p = nP THEN "recvGamma" ELSE "recvCommits")
      BY <2>3 DEF PartyGates
    <3>2. {"gates", "recvGamma", "recvCommits"} \subseteq Setup /\ Setup \subseteq PartySteps
      BY DEF Setup, Expected, PartySteps
    <3> QED
      BY <1>3, <3>1, <3>2, PartyGoto
  <2>4. CASE DrawY0(p)
    <3>1. s = "y_0" /\ Goto(p, "triple") /\ "triple" \in PartySteps
      BY <2>4, AfterFacts, StepFacts DEF DrawY0, PartySteps
    <3> QED
      BY <1>3, <3>1, PartyGoto
  <2> QED
    BY <2>1, <2>2, <2>3, <2>4
<1>5. openHash' = openHash /\ \A q \in Parties : q # p =>
        commits'[q] = commits[q] /\ outCommit'[q] = outCommit[q]
  BY ProcFacts DEF PartyOutputA, PartyGates, ReadMail, DrawY0, checks, MailInv, DealerInv, CheckInv
<1>6. DOMAIN outCommit' = Parties
  BY DEF PartyOutputA, PartyGates, ReadMail, DrawY0, checks, CheckInv
<1>7. CommitInv(p) /\ DOMAIN commits = Procs /\ DOMAIN outCommit = Parties /\ p \in Procs
  BY ProcFacts DEF CheckInv, MailInv, DealerInv
<1>8. CommitInv(p)'
  <2>1. CASE ReadMail(p) /\ s = "recvCommits"
    <3>1. NextMsg(p, 0) \in Mail /\ NextMsg(p, 0).kind = "commits"
      BY <2>1, NextMail DEF ReadMail, Expected
    <3>2. NextMsg(p, 0).digests \in Seq(Commitments) /\ Len(NextMsg(p, 0).digests) = 3
      BY <3>1, MailKinds
    <3>3. commits'[p] = commits[p] \o NextMsg(p, 0).digests /\ outCommit'[p] = outCommit[p]
      BY <1>7, <2>1 DEF ReadMail
    <3>4. commits[p] \in Seq(Commitments) /\ Len(commits[p]) = 0
      BY <1>7, <2>1 DEF CommitInv, NumLeft
    <3>5. commits'[p] \in Seq(Commitments) /\ Len(commits'[p]) = 3
      <4> DEFINE a == commits[p]
                 b == NextMsg(p, 0).digests
      <4>1. a \in Seq(Commitments) /\ b \in Seq(Commitments) /\ Len(a) = 0 /\ Len(b) = 3
        BY <3>2, <3>4
      <4>2. commits'[p] = a \o b
        BY <3>3
      <4> HIDE DEF a, b
      <4> QED
        BY <4>1, <4>2, EmptyConcat
    <3>6. Goto(p, AfterMail(p, s)) /\ AfterMail(p, s) \in {"recvRandomizers", "recvOutputCommit"}
      BY <2>1 DEF ReadMail, AfterMail
    <3>7. pc'[p] \in {"recvRandomizers", "recvOutputCommit"}
      BY <3>6, PartyGoto DEF PartySteps, Setup, Expected
    <3> QED
      BY <1>5, <1>7, <3>5, <3>7 DEF CommitInv, NumLeft, Setup, Expected, PastCheck
  <2>2. CASE ReadMail(p) /\ s = "recvOutputCommit"
    <3>1. NextMsg(p, 0) \in Mail /\ NextMsg(p, 0).kind = "outputCommit"
      BY <2>2, NextMail DEF ReadMail, Expected
    <3>2. NextMsg(p, 0).digest = OutputCommitment
      BY <3>1, MailKinds
    <3>3. commits'[p] = commits[p] /\ outCommit'[p] = NextMsg(p, 0).digest
      BY <1>7, <2>2 DEF ReadMail
    <3>4. pc'[p] = "inputs"
      BY <2>2, PartyGoto, StepFacts DEF ReadMail, AfterMail, PartySteps
    <3> QED
      BY <1>5, <1>7, <2>2, <3>2, <3>3, <3>4 DEF CommitInv, NumLeft, PastCheck
  <2>3. CASE ReadMail(p) /\ s \notin {"recvCommits", "recvOutputCommit"}
    <3>1. commits'[p] = commits[p]
      BY <1>7, <2>3 DEF ReadMail
    <3>2. /\ s \in {"recvGamma", "recvRandomizers", "recvOutputRandomizers"}
          /\ Goto(p, AfterMail(p, s))
          /\ AfterMail(p, s) \in {"recvCommits", "recvOutputRandomizers", "recvOutputCommit"}
          /\ s = "recvGamma" <=> AfterMail(p, s) = "recvCommits"
      BY <2>3 DEF ReadMail, Expected, AfterMail
    <3>3. pc'[p] = AfterMail(p, s)
      BY <3>2, PartyGoto DEF PartySteps, Setup, Expected
    <3> QED
      BY <1>5, <1>7, <3>1, <3>2, <3>3 DEF CommitInv, NumLeft, Setup, Expected, PastCheck
  <2>4. CASE PartyOutputA(p) \/ PartyGates(p)
    <3>1. s \in {"outputA", "gates"} /\ pc'[p] \in {"gates", "recvGamma", "recvCommits"}
          /\ commits' = commits
      BY <2>4, PartyGoto DEF PartyOutputA, PartyGates, PartySteps, Setup, Expected, checks
    <3> QED
      BY <1>5, <1>7, <3>1 DEF CommitInv, NumLeft, Setup, Expected
  <2>5. CASE DrawY0(p)
    <3>1. s = "y_0" /\ pc'[p] = "triple" /\ commits' = commits /\ outCommit' = outCommit
      BY <1>3, <1>4, <2>5 DEF DrawY0, checks
    <3>2. "y_0" \notin Setup
      BY StepFacts
    <3> QED
      BY <1>5, <1>7, <3>1, <3>2 DEF CommitInv, NumLeft, PastCheck
  <2> QED
    BY <2>1, <2>2, <2>3, <2>4, <2>5
<1>9. \A q \in Parties : CommitInv(q)'
  BY <1>3, <1>5, <1>8, SameCommits DEF CheckInv
<1>10. \A q \in Parties : pc'[q] = pc[q] \/ (~waiting[q] /\ pc[q] \notin PastCheck
                                            /\ pc'[q] \notin PastCheck)
  BY <1>1, <1>3, <1>4, Kinds
<1> QED
  BY <1>1, <1>3, <1>5, <1>6, <1>9, <1>10, CheckFrame DEF CheckInv, LocalStep

(* Pairs of bits.                                                          *)
LEMMA PairOf == ASSUME NEW a, NEW b PROVE <<a, b>>[1] = a /\ <<a, b>>[2] = b
OBVIOUS

(* What a party tells the others about its checks.                         *)
LEMMA OwnWords ==
  ASSUME FlowType, NEW p \in Parties, NEW ok
  PROVE  /\ pc[p] = "accept1" => (Content(p, ok)[1] => ~consBad[p]) /\ (Content(p, ok)[2] => ~openBad[p])
         /\ pc[p] = "accept3" => (Content(p, ok)[1] => ~openBad[p])
         /\ pc[p] = "acceptOutputs" => (Content(p, ok)[1] => outCommit[p] = <<Last(views[p])>>)
         /\ pc[p] = "alphaBeta" => Content(p, ok) = consHash[p]
<1>0. pc[p] \in Accepts => Content(p, ok) = OwnBits(p, ok)
  BY DEF Content, CheckingConsistency, Accepts, OneBit, AcceptSteps
<1>5. "accept1" \in Accepts /\ "accept3" \in Accepts /\ "acceptOutputs" \in Accepts /\ "alphaBeta" \notin Accepts
  BY DEF Accepts, OneBit, AcceptSteps
<1>1. ASSUME pc[p] = "accept1" PROVE (Content(p, ok)[1] => ~consBad[p]) /\ (Content(p, ok)[2] => ~openBad[p])
  <2>1. Content(p, ok) = <<~consBad[p], ~openBad[p]>>
    BY <1>0, <1>5, <1>1 DEF OwnBits
  <2> DEFINE a == ~consBad[p]
             b == ~openBad[p]
  <2>2. Content(p, ok) = <<a, b>>
    BY <2>1
  <2> HIDE DEF a, b
  <2>3. Content(p, ok)[1] = a /\ Content(p, ok)[2] = b
    BY <2>2, PairOf
  <2> QED
    BY <2>3 DEF a, b
<1>2. ASSUME pc[p] = "accept3" PROVE (Content(p, ok)[1] => ~openBad[p])
  <2>1. Content(p, ok) = <<~openBad[p], ok>>
    BY <1>0, <1>5, <1>2 DEF OwnBits
  <2> DEFINE a == ~openBad[p]
  <2>2. Content(p, ok) = <<a, ok>>
    BY <2>1
  <2> HIDE DEF a
  <2>3. Content(p, ok)[1] = a
    BY <2>2, PairOf
  <2> QED
    BY <2>3 DEF a
<1>3. ASSUME pc[p] = "acceptOutputs" PROVE (Content(p, ok)[1] => outCommit[p] = <<Last(views[p])>>)
  <2> DEFINE a == outCommit[p] = <<Last(views[p])>>
  <2>1. Content(p, ok) = <<a, TRUE>>
    BY <1>0, <1>5, <1>3 DEF OwnBits
  <2> HIDE DEF a
  <2>3. Content(p, ok)[1] = a
    BY <2>1, PairOf
  <2> QED
    BY <2>3 DEF a
<1>4. pc[p] = "alphaBeta" => Content(p, ok) = consHash[p]
  BY <1>5 DEF Content, CheckingConsistency
<1> QED
  BY <1>1, <1>2, <1>3, <1>4

(* What a party sends says what it has seen (openAdditive, checkForAccept  *)
(* and checkForDoubleAccept).                                              *)
LEMMA ContributeChecks ==
  ASSUME FlowType, RoundInv, CheckInv, NEW p \in Parties, Contribute(p)
  PROVE  CheckInv'
<1> DEFINE s == pc[p]
           n == LastRound(p) + 1
<1>1. /\ s \in RoundSteps /\ ~waiting[p] /\ At(p) = s
      /\ waiting' = [waiting EXCEPT ![p] = TRUE]
      /\ UNCHANGED <<pc, verdicts, views, consHash, consBad, openBad, openHash, commits, outCommit>>
  BY StepFacts DEF Contribute, checks, At, RoundOf
<1>2. PICK ok \in BOOLEAN :
        sent' = [sent EXCEPT ![p] = Append(@, [step |-> s, content |-> Content(p, ok)])]
  BY DEF Contribute
<1> DEFINE e == [step |-> s, content |-> Content(p, ok)]
<1>3. e \in Messages
  BY <1>1, ContentType DEF Messages
<1>4. /\ Len(sent'[p]) = n /\ DOMAIN sent'[p] = 1..n /\ LastRound(p) \in Nat
      /\ sent'[p][n] = e /\ \A r \in 1..LastRound(p) : sent'[p][r] = sent[p][r]
      /\ \A q \in Parties : q # p => sent'[q] = sent[q]
  <2> HIDE DEF e
  <2>1. sent \in [Parties -> Seq(Messages)] /\ sent[p] \in Seq(Messages)
    BY DEF FlowType
  <2> QED
    BY <1>2, <1>3, <2>1 DEF e, LastRound
<1>5. \A q \in Parties : Round(q)' = Round(q) /\ At(q)' = At(q)
  BY <1>1, <1>4, RoundType, ProcFacts DEF Round, LastRound, At, FlowType
<1>6. \A q \in Parties : CommitInv(q)' /\ TraceInv(q)'
  BY <1>1 DEF CheckInv, CommitInv, TraceInv, Dirty
<1>7. \A x, y \in Parties : SeenInv(x, y)'
  <2> SUFFICES ASSUME NEW x \in Parties, NEW y \in Parties PROVE SeenInv(x, y)'
    OBVIOUS
  <2>1. SeenInv(x, y)
    BY DEF CheckInv
  <2> QED
    BY <1>1, <1>5, <2>1 DEF SeenInv, NextSeen, NextKept
(* What was sent stays; what is new is sent for the current step.          *)
<1>8. ASSUME NEW q \in Parties, NEW r, NEW t
      PROVE  /\ HasSent(q, r, t) => HasSent(q, r, t)' /\ sent'[q][r] = sent[q][r]
             /\ HasSent(q, r, t)' => HasSent(q, r, t) \/ (q = p /\ r = n /\ t = s)
  <2>1. DOMAIN sent[q] = 1..LastRound(q) /\ LastRound(q) \in Nat
    BY RoundType
  <2>2. CASE q = p
    BY <1>4, <2>1, <2>2 DEF HasSent
  <2>3. CASE q # p
    BY <1>4, <2>3 DEF HasSent
  <2> QED
    BY <2>2, <2>3
<1>10. LastRound(p)' = n /\ waiting'[p] = TRUE
       /\ \A q \in Parties : q # p => LastRound(q)' = LastRound(q) /\ waiting'[q] = waiting[q]
  BY <1>1, <1>4, ProcFacts DEF LastRound, FlowType
<1>11. WordInv(p) /\ TraceInv(p) /\ CommitInv(p)
  BY DEF CheckInv
<1>12. \A S : Dirty(p, S)' = Dirty(p, S)
  BY <1>1 DEF Dirty
<1>13. e.content = Content(p, ok) /\ e.step = s
  OBVIOUS
<1>14. /\ s = "alphaBeta" => e.content = consHash[p]
       /\ s = "accept1" => (e.content[1] => ~consBad[p]) /\ (e.content[2] => ~openBad[p])
       /\ s = "accept3" => (e.content[1] => ~openBad[p])
  BY <1>13, OwnWords
<1>16. s = "acceptOutputs" => (e.content[1] => ~Dirty(p, {"outputs"}))
  <2> SUFFICES ASSUME s = "acceptOutputs", e.content[1] PROVE ~Dirty(p, {"outputs"})
    OBVIOUS
  <2>1. outCommit[p] = <<Last(views[p])>>
    BY <1>13, OwnWords
  <2>2. s \notin Setup
    BY DEF Setup, Expected
  <2>3. <<Last(views[p])>> = <<Entry("outputs", 0)>>
    BY <1>11, <2>1, <2>2 DEF CommitInv, OutputCommitment
  <2>4. Last(views[p]) = Entry("outputs", 0)
    BY <2>3
  <2>5. Last(views[p]).view = 0
    BY <2>4 DEF Entry
  <2> QED
    BY <1>11, <2>5 DEF Dirty, TraceInv, Last
<1>17. \A r, j : r = n => Yes(p, r, j)' = e.content[j]
  BY <1>4 DEF Yes
<1>18. \A q \in Parties : \A r, t, j : HasSent(q, r, t) => Yes(q, r, j)' = Yes(q, r, j)
  BY <1>8 DEF Yes
<1>19. \A q \in Parties : \A r, t : HasSent(q, r, t) => r \in DOMAIN sent[q] /\ r \in DOMAIN sent'[q]
  BY <1>4, RoundType DEF HasSent
<1> HIDE DEF e, n, s
<1>20. WordInv(p)'
  <2>1. ASSUME NEW r \in DOMAIN sent'[p], HasSent(p, r, "alphaBeta")'
        PROVE  \/ pc'[p] \in PastCheck
               \/ /\ pc'[p] = "alphaBeta" /\ waiting'[p] /\ r = LastRound(p)'
                  /\ sent'[p][r].content = consHash'[p]
    <3>1. CASE HasSent(p, r, "alphaBeta")
      BY <1>1, <1>11, <1>19, <3>1 DEF WordInv
    <3>2. CASE r = n /\ s = "alphaBeta"
      BY <1>1, <1>4, <1>10, <1>14, <3>2 DEF s
    <3> QED
      BY <1>8, <2>1, <3>1, <3>2
  <2>2. ASSUME NEW r \in DOMAIN sent'[p], HasSent(p, r, "accept1")'
        PROVE  /\ pc'[p] \in PastCheck /\ \E i \in DOMAIN sent'[p] : HasSent(p, i, "alphaBeta")'
               /\ Yes(p, r, 1)' => ~consBad'[p]
               /\ Yes(p, r, 2)' => ~Dirty(p, PrgSteps)'
    <3>1. CASE HasSent(p, r, "accept1")
      BY <1>1, <1>8, <1>11, <1>12, <1>18, <1>19, <3>1 DEF WordInv
    <3>2. CASE r = n /\ s = "accept1"
      <4>1. pc[p] \in PastCheck /\ pc[p] # "aborted" /\ \E i \in DOMAIN sent[p] : HasSent(p, i, "alphaBeta")
        BY <1>11, <3>2 DEF WordInv, PastCheck, s
      <4> QED
        BY <1>1, <1>8, <1>11, <1>12, <1>14, <1>17, <1>19, <3>2, <4>1 DEF TraceInv
    <3> QED
      BY <1>8, <2>2, <3>1, <3>2
  <2>3. ASSUME NEW r \in DOMAIN sent'[p], HasSent(p, r, "accept3")'
        PROVE  pc'[p] \in PastReveal /\ (Yes(p, r, 1)' => ~Dirty(p, RevealSteps)')
    <3>1. CASE HasSent(p, r, "accept3")
      BY <1>1, <1>11, <1>12, <1>18, <1>19, <3>1 DEF WordInv
    <3>2. CASE r = n /\ s = "accept3"
      BY <1>1, <1>11, <1>12, <1>14, <1>17, <3>2 DEF TraceInv, PastReveal, s
    <3> QED
      BY <1>8, <2>3, <3>1, <3>2
  <2>4. ASSUME NEW r \in DOMAIN sent'[p], HasSent(p, r, "acceptOutputs")'
        PROVE  pc'[p] \in PastOutputs /\ (Yes(p, r, 1)' => ~Dirty(p, {"outputs"})')
    <3>1. CASE HasSent(p, r, "acceptOutputs")
      BY <1>1, <1>11, <1>12, <1>18, <1>19, <3>1 DEF WordInv
    <3>2. CASE r = n /\ s = "acceptOutputs"
      BY <1>1, <1>12, <1>16, <1>17, <3>2 DEF PastOutputs, s
    <3> QED
      BY <1>8, <2>4, <3>1, <3>2
  <2>5. pc'[p] \in PastCheck /\ pc'[p] # "aborted" =>
          \E i \in DOMAIN sent'[p] : HasSent(p, i, "alphaBeta")'
    BY <1>1, <1>8, <1>11, <1>19 DEF WordInv
  <2> QED
    BY <2>1, <2>2, <2>3, <2>4, <2>5 DEF WordInv
<1>21. ASSUME NEW q \in Parties, q # p PROVE WordInv(q)'
  <2>1. WordInv(q)
    BY DEF CheckInv
  <2> QED
    BY <1>1, <1>4, <1>10, <1>21, <2>1 DEF WordInv, HasSent, Yes, Dirty
<1>22. ASSUME NEW q \in Parties PROVE PassedInv(q)'
  <2>1. PassedInv(q) /\ \A t : Passed(q, t)' = Passed(q, t)
    BY <1>1 DEF CheckInv, Passed
  <2>2. ASSUME NEW t \in Accepts, Passed(q, t)
        PROVE  \E r \in DOMAIN sent'[q] : \A x \in Parties :
                 HasSent(x, r, t)' /\ Yes(x, r, 1)' /\ Yes(x, r, 2)'
    <3>1. PICK r \in DOMAIN sent[q] : \A x \in Parties : HasSent(x, r, t) /\ Yes(x, r, 1) /\ Yes(x, r, 2)
      BY <2>1, <2>2 DEF PassedInv
    <3>2. \A x \in Parties : HasSent(x, r, t)' /\ Yes(x, r, 1)' /\ Yes(x, r, 2)'
      BY <1>8, <1>18, <3>1
    <3> QED
      BY <1>19, <3>1, <3>2
  <2> QED
    BY <1>1, <2>1, <2>2 DEF PassedInv
<1>23. ASSUME NEW x \in Parties PROVE ComparedInv(x)'
  <2> SUFFICES ASSUME NEW r \in DOMAIN sent'[x], HasSent(x, r, "alphaBeta")', pc'[x] \in PastCheck,
                      ~consBad'[x], NEW q \in Parties
               PROVE  HasSent(q, r, "alphaBeta")' /\ sent'[q][r].content = sent'[x][r].content
    BY DEF ComparedInv
  <2>1. HasSent(x, r, "alphaBeta")
    BY <1>1, <1>8, Kinds DEF s
  <2>2. HasSent(q, r, "alphaBeta") /\ sent[q][r].content = sent[x][r].content
    BY <1>1, <1>19, <2>1 DEF CheckInv, ComparedInv
  <2> QED
    BY <1>8, <2>1, <2>2
(* Only one party contributes at a time: the other has done so in the same *)
(* round, and has kept what it sent.                                       *)
<1>24. ASSUME NEW q \in Parties, q # p, HasSent(q, n, "alphaBeta"), s = "alphaBeta"
       PROVE  pc[q] = "alphaBeta" /\ sent[q][n].content = consHash[q]
  <2>1. PairInv(p, q) /\ WordInv(q) /\ PairInv(q, p)
    BY DEF RoundInv, CheckInv
  <2>2. LastRound(q) >= n
    BY <1>19, <1>24, RoundType DEF HasSent
  <2>3. Round(p) = n
    BY <1>1, RoundType DEF n
  <2>4. Round(q) = Round(p)
    BY <1>1, <1>24, <2>1, <2>2, <2>3, RoundType DEF PairInv, OneAhead
  <2>5. At(q) = "alphaBeta"
    BY <1>1, <1>24, <2>1, <2>4 DEF PairInv, SamePlace
  <2>6. pc[q] = "alphaBeta"
    BY <2>5 DEF At, RoundOf
  <2> QED
    BY <1>19, <1>24, <2>1, <2>6, Kinds DEF WordInv
<1>25. ASSUME NEW x \in Parties, NEW y \in Parties PROVE DifferInv(x, y)'
  <2> SUFFICES ASSUME Differ(x, y)'  PROVE DifferInv(x, y)'
    BY DEF DifferInv
  <2>1. Differ(x, y) /\ DifferInv(x, y)
    BY <1>1 DEF Differ, CheckInv
  <2>2. pc'[x] \notin PastCheck /\ pc'[y] \notin PastCheck =>
         \E j \in DOMAIN consHash'[x] \cap DOMAIN consHash'[y] : consHash'[x][j] # consHash'[y][j]
    BY <1>1, <2>1 DEF DifferInv
  <2>3. ASSUME NEW r \in DOMAIN sent'[x], HasSent(x, r, "alphaBeta")', HasSent(y, r, "alphaBeta")'
        PROVE  sent'[x][r].content # sent'[y][r].content
    <3>1. x # y
      BY <2>1 DEF Differ
    <3>2. CASE HasSent(x, r, "alphaBeta") /\ HasSent(y, r, "alphaBeta")
      BY <1>8, <1>19, <2>1, <3>2 DEF DifferInv
    <3>3. ASSUME NEW q \in {x, y}, q # p, r = n, s = "alphaBeta", p \in {x, y},
                 HasSent(q, r, "alphaBeta")
          PROVE  sent'[x][r].content # sent'[y][r].content
      <4>1. pc[q] = "alphaBeta" /\ sent[q][n].content = consHash[q]
        BY <1>24, <3>3
      <4>2. sent'[q][n].content = consHash[q] /\ sent'[p][n].content = consHash[p]
        BY <1>4, <1>8, <1>14, <3>3, <4>1
      <4>3. pc[x] \notin PastCheck /\ pc[y] \notin PastCheck
        BY <3>1, <3>3, <4>1, Kinds DEF s
      <4>4. consHash[x] # consHash[y]
        BY <2>1, <4>3 DEF DifferInv
      <4> QED
        BY <3>1, <3>3, <4>2, <4>4
    <3> QED
      BY <1>8, <2>3, <3>1, <3>2, <3>3
  <2> QED
    BY <2>1, <2>2, <2>3 DEF DifferInv
<1> QED
  BY <1>1, <1>6, <1>7, <1>20, <1>21, <1>22, <1>23, <1>25 DEF CheckInv

(* Where a round leads that comes after a check, and what comes before it. *)
LEMMA Past ==
  ASSUME NEW p, NEW s \in RoundSteps
  PROVE  /\ s # "aborted" /\ AfterRound(p, s) # "aborted"
         /\ s \in PastCheck => AfterRound(p, s) \in PastCheck
         /\ s \in PastReveal => AfterRound(p, s) \in PastReveal
         /\ s \in PastOutputs => AfterRound(p, s) \in PastOutputs
         /\ AfterRound(p, s) \in PastCheck => s \in PastCheck \/ s = "alphaBeta"
         /\ AfterRound(p, s) \in {"outputs", "acceptOutputs", "done"} =>
              s \in {"accept3", "outputs", "acceptOutputs"}
         /\ AfterRound(p, s) = "outputs" => s = "accept3"
         /\ AfterRound(p, s) = "done" => s = "acceptOutputs"
<1>1. s \in PastCheck => s \in {"accept1", "openTriple", "accept2", "openOutput", "accept3",
                                "outputs", "acceptOutputs"}
  BY StepFacts DEF PastCheck
<1>2. s # "aborted" /\ AfterRound(p, s) # "aborted"
  BY StepFacts, AfterRoundFacts
<1>3. CASE s \in PastCheck \/ s = "alphaBeta"
  BY <1>1, <1>2, <1>3, Order DEF PastCheck, PastReveal, PastOutputs
<1>4. CASE s \notin PastCheck /\ s # "alphaBeta"
  <2>1. AfterRound(p, s) \notin PastCheck
    BY <1>4, Order
  <2> QED
    BY <1>2, <1>4, <2>1 DEF PastCheck, PastReveal, PastOutputs
<1> QED
  BY <1>3, <1>4

(* Only an opening is seen.                                                *)
LEMMA SeenCases ==
  ASSUME NEW p, Len(views[p]) \in Nat
  PROVE  /\ At(p) \in Openings => NextSeen(p) = Len(views[p]) + 1
         /\ At(p) \notin Openings => NextSeen(p) = Len(views[p])
<1>1. CASE At(p) \in Openings
  <2>1. NextSeen(p) = Len(views[p]) + 1
    BY <1>1 DEF NextSeen
  <2> QED
    BY <1>1, <2>1
<1>2. CASE ~(At(p) \in Openings)
  <2>1. NextSeen(p) = Len(views[p]) + 0
    BY <1>2 DEF NextSeen
  <2> QED
    BY <1>2, <2>1
<1> QED
  BY <1>1, <1>2

(* Whoever completes a round has seen and kept what it opens; the others    *)
(* who have completed it have done so, too, and those who have not will.   *)
LEMMA SeenStep ==
  ASSUME FlowType, FlowType', RoundInv, CheckInv, NEW p \in Parties, Complete(p), sent' = sent,
         ~waiting'[p],
         \A q \in Parties : q # p => /\ waiting'[q] = waiting[q] /\ At(q)' = At(q)
                                     /\ views'[q] = views[q] /\ consHash'[q] = consHash[q],
         Len(views'[p]) = NextSeen(p), Len(consHash'[p]) = NextKept(p),
         \A k \in DOMAIN views[p] : views'[p][k] = views[p][k],
         At(p) \in Openings => views'[p][Len(views'[p])].step = At(p),
         Consistent(At(p)) => consHash'[p][Len(consHash'[p])] = views'[p][Len(views'[p])]
  PROVE  \A x, y \in Parties : SeenInv(x, y)'
<1>1. /\ Round(p)' = Round(p) + 1 /\ Round(p) \in Nat
      /\ \A q \in Parties : /\ Round(q) \in Nat
                            /\ Round(q) = Round(p) \/ Round(q) = Round(p) + 1
                            /\ q # p => Round(q)' = Round(q)
  BY CompleteRounds, RoundType
<1>2. \A q \in Parties : /\ DOMAIN views[q] = 1..Len(views[q]) /\ Len(views[q]) \in Nat
                         /\ Len(consHash[q]) \in Nat
  BY ViewTypes
<1>3. DOMAIN views'[p] = 1..Len(views'[p]) /\ Len(views'[p]) \in Nat
  BY DEF FlowType, Digests
<1>8. \/ Len(views'[p]) = Len(views[p])
      \/ At(p) \in Openings /\ Len(views'[p]) = Len(views[p]) + 1
  BY <1>2, SeenCases
<1>4. ASSUME NEW x \in Parties, NEW y \in Parties, x # p, y # p PROVE SeenInv(x, y)'
  <2>1. SeenInv(x, y)
    BY DEF CheckInv
  <2> QED
    BY <1>1, <1>4, <2>1, ZenonT(60) DEF SeenInv, NextSeen, NextKept
<1>5. SeenInv(p, p)'
  BY <1>1 DEF SeenInv
<1>6. ASSUME NEW q \in Parties, q # p, Round(q) = Round(p) + 1
      PROVE  SeenInv(p, q)' /\ SeenInv(q, p)'
  <2>1. SeenInv(p, q)
    BY DEF CheckInv
  <2>2. Len(views[q]) = Len(views'[p]) /\ Len(consHash[q]) = Len(consHash'[p])
    BY <1>6, <2>1 DEF SeenInv
  <2>3. ASSUME NEW k \in DOMAIN views'[p] \cap DOMAIN views[q]
        PROVE  views'[p][k].step = views[q][k].step
    <3>1. CASE k \in DOMAIN views[p]
      BY <2>1, <3>1 DEF SeenInv
    <3>2. CASE k \notin DOMAIN views[p]
      <4>1. At(p) \in Openings /\ k = Len(views'[p])
        BY <1>2, <1>3, <1>8, <3>2
      <4> QED
        BY <1>6, <2>1, <2>2, <4>1 DEF SeenInv
    <3> QED
      BY <3>1, <3>2
  <2> QED
    BY <1>1, <1>6, <2>2, <2>3 DEF SeenInv
<1>7. ASSUME NEW q \in Parties, q # p, Round(q) = Round(p)
      PROVE  SeenInv(p, q)' /\ SeenInv(q, p)'
  <2>1. SeenInv(p, q) /\ At(q) = At(p)
    BY <1>7 DEF CheckInv, RoundInv, PairInv, SamePlace
  <2>2. Len(views[q]) = Len(views[p]) /\ Len(consHash[q]) = Len(consHash[p])
    BY <1>7, <2>1 DEF SeenInv
  <2>3. NextSeen(q) = NextSeen(p) /\ NextKept(q) = NextKept(p)
    BY <2>1, <2>2 DEF NextSeen, NextKept
  <2>4. NextSeen(q)' = NextSeen(q) /\ NextKept(q)' = NextKept(q)
    BY <1>7 DEF NextSeen, NextKept
  <2>5. \A k \in DOMAIN views[q] : k \in DOMAIN views[p] /\ views'[p][k].step = views[q][k].step
    BY <1>2, <2>1, <2>2 DEF SeenInv
  <2> QED
    BY <1>1, <1>7, <2>1, <2>3, <2>4, <2>5, SMTT(30) DEF SeenInv
<1> QED
  BY <1>1, <1>4, <1>5, <1>6, <1>7

(* Who sees something else than another does keeps it for the check, or    *)
(* did so, and its digest tells.                                           *)
LEMMA DifferStep ==
  ASSUME FlowType, FlowType', RoundInv, CheckInv, NEW p \in Parties, Complete(p), sent' = sent,
         ~waiting'[p],
         \A q \in Parties : q # p => /\ waiting'[q] = waiting[q] /\ pc'[q] = pc[q]
                                     /\ views'[q] = views[q] /\ consHash'[q] = consHash[q],
         Len(views'[p]) = NextSeen(p), Len(consHash'[p]) = NextKept(p),
         \A k \in DOMAIN views[p] : views'[p][k] = views[p][k],
         At(p) \in Openings => views'[p][Len(views'[p])].step = At(p),
         Consistent(At(p)) => consHash'[p][Len(consHash'[p])] = views'[p][Len(views'[p])],
         pc'[p] \notin PastCheck => /\ pc[p] \notin PastCheck
                                    /\ \A j \in DOMAIN consHash[p] :
                                         j \in DOMAIN consHash'[p] /\ consHash'[p][j] = consHash[p][j]
  PROVE  \A x, y \in Parties : DifferInv(x, y)'
<1>1. /\ pc[p] \in RoundSteps /\ At(p) = pc[p]
      /\ \A q \in Parties : Round(q) = Round(p) \/ Round(q) = Round(p) + 1
  BY CompleteRounds, RoundType
<1>2. \A q \in Parties : /\ DOMAIN views[q] = 1..Len(views[q]) /\ Len(views[q]) \in Nat
                         /\ DOMAIN consHash[q] = 1..Len(consHash[q]) /\ Len(consHash[q]) \in Nat
                         /\ \A k \in DOMAIN views[q] : views[q][k] \in Entries
  BY ViewTypes
<1>3. /\ DOMAIN views'[p] = 1..Len(views'[p]) /\ Len(views'[p]) \in Nat
      /\ DOMAIN consHash'[p] = 1..Len(consHash'[p]) /\ Len(consHash'[p]) \in Nat
  BY DEF FlowType, Digests
<1>4. ASSUME NEW x \in Parties, NEW y \in Parties, Differ(x, y) PROVE DifferInv(x, y)'
  <2>1. DifferInv(x, y)
    BY DEF CheckInv
  <2>2. \A r \in DOMAIN sent'[x] : HasSent(x, r, "alphaBeta")' /\ HasSent(y, r, "alphaBeta")' =>
          sent'[x][r].content # sent'[y][r].content
    BY <1>4, <2>1 DEF DifferInv, HasSent
  <2>3. ASSUME pc'[x] \notin PastCheck, pc'[y] \notin PastCheck
        PROVE  \E j \in DOMAIN consHash'[x] \cap DOMAIN consHash'[y] :
                 consHash'[x][j] # consHash'[y][j]
    <3>1. pc[x] \notin PastCheck /\ pc[y] \notin PastCheck
      BY <2>3
    <3>2. PICK j \in DOMAIN consHash[x] \cap DOMAIN consHash[y] : consHash[x][j] # consHash[y][j]
      BY <1>4, <2>1, <3>1 DEF DifferInv
    <3>3. \A q \in {x, y} : j \in DOMAIN consHash'[q] /\ consHash'[q][j] = consHash[q][j]
      BY <2>3, <3>2
    <3> QED
      BY <3>2, <3>3
  <2> QED
    BY <2>2, <2>3 DEF DifferInv
<1>5. ASSUME NEW x \in Parties, NEW y \in Parties, Differ(x, y)', ~Differ(x, y)
      PROVE  DifferInv(x, y)'
  <2>1. PICK k \in DOMAIN views'[x] \cap DOMAIN views'[y] :
          Consistent(views'[y][k].step) /\ views'[y][k] # views'[x][k]
    BY <1>5 DEF Differ
  <2>2. PICK q \in Parties : q # p /\ ((x = p /\ y = q) \/ (x = q /\ y = p))
    <3>1. x # y
      BY <2>1
    <3>2. x = p \/ y = p
      BY <1>5, <2>1 DEF Differ
    <3> QED
      BY <3>1, <3>2
  <2>3. k \notin DOMAIN views[p] /\ k \in DOMAIN views'[p] /\ k \in DOMAIN views[q]
    BY <1>5, <2>1, <2>2 DEF Differ
  <2>4. At(p) \in Openings /\ k = Len(views[p]) + 1 /\ k = Len(views'[p])
    <3>1. \/ Len(views'[p]) = Len(views[p])
          \/ At(p) \in Openings /\ Len(views'[p]) = Len(views[p]) + 1
      BY <1>2, SeenCases
    <3> QED
      BY <1>2, <1>3, <2>3, <3>1
  <2>5. SeenInv(p, q)
    BY DEF CheckInv
  <2>6. Round(q) = Round(p) + 1 /\ k = Len(views[q])
    BY <1>1, <1>2, <2>3, <2>4, <2>5 DEF SeenInv, NextSeen
  <2>7. views[q][k].step = At(p) /\ views'[p][k].step = At(p)
    BY <2>4, <2>5, <2>6 DEF SeenInv
  <2>8. Consistent(At(p)) /\ views[q][k] # views'[p][k]
    BY <2>1, <2>2, <2>7
  <2>9. pc[p] \notin PastCheck /\ pc[p] # "alphaBeta"
    BY <1>1, <2>8, Kinds
  <2>10. \A r : ~HasSent(p, r, "alphaBeta")
    BY <2>9 DEF CheckInv, WordInv, HasSent
  <2>11. consHash[q][Len(consHash[q])] = views[q][k] /\ Len(consHash[q]) = Len(consHash'[p])
    BY <2>5, <2>6, <2>8 DEF SeenInv
  <2>12. consHash'[p][Len(consHash'[p])] = views'[p][k] /\ Len(consHash'[p]) >= 1
    BY <1>1, <1>2, <2>4, <2>8, <2>9, Kinds, SMTT(30) DEF NextKept
  <2>13. \E j \in DOMAIN consHash'[x] \cap DOMAIN consHash'[y] : consHash'[x][j] # consHash'[y][j]
    <3> DEFINE j == Len(consHash'[p])
    <3>1. j \in DOMAIN consHash'[p] /\ j \in DOMAIN consHash[q] /\ consHash'[q] = consHash[q]
      BY <1>2, <1>3, <2>2, <2>11, <2>12
    <3>2. consHash'[p][j] # consHash[q][j]
      BY <2>8, <2>11, <2>12
    <3> HIDE DEF j
    <3> QED
      BY <2>2, <3>1, <3>2
  <2> QED
    BY <2>2, <2>10, <2>13 DEF DifferInv, HasSent
<1> QED
  BY <1>4, <1>5 DEF DifferInv

(* A step of p completes a round, whichever it is.                         *)
Completes(p) ==
  /\ Complete(p) /\ sent' = sent /\ waiting'[p] = FALSE
  /\ \/ pc'[p] = AfterRound(p, pc[p])
     \/ pc'[p] = "aborted" /\ pc[p] \in Accepts
  /\ \A q \in Parties : q # p =>
       /\ pc'[q] = pc[q] /\ At(q)' = At(q) /\ waiting'[q] = waiting[q]
       /\ views'[q] = views[q] /\ consHash'[q] = consHash[q] /\ consBad'[q] = consBad[q]
       /\ openHash'[q] = openHash[q] /\ openBad'[q] = openBad[q] /\ verdicts'[q] = verdicts[q]

(* Everybody has sent something for the round that p has completed, if it  *)
(* is not the one of the inputs.                                           *)
LEMMA AllSent ==
  ASSUME FlowType, RoundInv, NEW p \in Parties, Completes(p)
  PROVE  /\ pc[p] \in RoundSteps /\ LastRound(p) \in DOMAIN sent[p]
         /\ HasSent(p, LastRound(p), pc[p])
         /\ pc[p] # "inputs" => \A q \in Parties : HasSent(q, LastRound(p), pc[p])
<1>1. /\ waiting[p] /\ pc[p] \in RoundSteps /\ At(p) = pc[p]
      /\ LastRound(p) \in Nat /\ LastRound(p) >= 1
      /\ \A q \in Parties : At(p) # "inputs" => LastRound(q) >= LastRound(p)
  BY CompleteRounds DEF Completes
<1>2. LastRound(p) \in DOMAIN sent[p] /\ sent[p][LastRound(p)].step = pc[p]
  BY <1>1, RoundType DEF RoundInv, SentInv
<1>3. ASSUME NEW q \in Parties, pc[p] # "inputs" PROVE HasSent(q, LastRound(p), pc[p])
  <2>1. LastRound(p) \in DOMAIN sent[q] /\ SameSteps(p, q)
    BY <1>1, <1>3, RoundType DEF RoundInv
  <2> QED
    BY <1>2, <2>1 DEF SameSteps, HasSent
<1> QED
  BY <1>1, <1>2, <1>3 DEF HasSent

(* What was said holds: nothing that comes later is of the kind it is      *)
(* about.                                                                  *)
LEMMA WordStep ==
  ASSUME FlowType, RoundInv, CheckInv, NEW p \in Parties, Completes(p),
         consBad'[p] => consBad[p] \/ pc[p] = "alphaBeta",
         \A k \in DOMAIN views'[p] : \/ k \in DOMAIN views[p] /\ views'[p][k] = views[p][k]
                                     \/ views'[p][k].step = pc[p]
  PROVE  \A q \in Parties : WordInv(q)'
<1> DEFINE s == pc[p]
<1>1. s \in RoundSteps /\ HasSent(p, LastRound(p), s) /\ LastRound(p) \in DOMAIN sent[p]
  BY AllSent
<1>2. WordInv(p) /\ sent' = sent /\ \A q, r, t : HasSent(q, r, t)' = HasSent(q, r, t)
      /\ \A a, b, i : Yes(a, b, i)' = Yes(a, b, i)
  BY DEF CheckInv, Completes, HasSent, Yes
<1>3. /\ s \in PastCheck => pc'[p] \in PastCheck
      /\ s \in PastReveal => pc'[p] \in PastReveal
      /\ s \in PastOutputs => pc'[p] \in PastOutputs
      /\ s = "alphaBeta" => pc'[p] \in PastCheck
      /\ pc'[p] \in PastCheck /\ pc'[p] # "aborted" => s \in PastCheck \/ s = "alphaBeta"
      /\ s # "aborted"
  <2>1. "aborted" \in PastCheck /\ "aborted" \in PastReveal /\ "aborted" \in PastOutputs
        /\ "accept1" \in PastCheck /\ "alphaBeta" \notin Accepts
    BY DEF PastCheck, PastReveal, PastOutputs, Accepts, OneBit, AcceptSteps
  <2>2. CASE pc'[p] = AfterRound(p, s)
    BY <1>1, <2>1, <2>2, Past, Order
  <2>3. CASE pc'[p] = "aborted"
    BY <1>1, <2>1, <2>3, StepFacts, Past, Order DEF Completes
  <2> QED
    BY <2>2, <2>3 DEF Completes
<1>4. \A S : Dirty(p, S)' => Dirty(p, S) \/ s \in S
  BY DEF Dirty
<1> HIDE DEF s
<1>5. WordInv(p)'
  <2>1. ASSUME NEW r \in DOMAIN sent[p], HasSent(p, r, "alphaBeta") PROVE pc'[p] \in PastCheck
    BY <1>2, <1>3, <2>1 DEF WordInv, s
  <2>2. ASSUME NEW r \in DOMAIN sent[p], HasSent(p, r, "accept1")
        PROVE  /\ pc'[p] \in PastCheck /\ \E i \in DOMAIN sent[p] : HasSent(p, i, "alphaBeta")
               /\ Yes(p, r, 1) => ~consBad'[p]
               /\ Yes(p, r, 2) => ~Dirty(p, PrgSteps)'
    <3>1. s \in PastCheck /\ s # "alphaBeta" /\ s \notin PrgSteps
      BY <1>2, <2>2, Kinds DEF WordInv, s
    <3> QED
      BY <1>2, <1>3, <1>4, <2>2, <3>1 DEF WordInv, s
  <2>3. ASSUME NEW r \in DOMAIN sent[p], HasSent(p, r, "accept3")
        PROVE  pc'[p] \in PastReveal /\ (Yes(p, r, 1) => ~Dirty(p, RevealSteps)')
    <3>1. s \in PastReveal /\ s \notin RevealSteps
      BY <1>2, <2>3, Kinds DEF WordInv, s
    <3> QED
      BY <1>2, <1>3, <1>4, <2>3, <3>1 DEF WordInv, s
  <2>4. ASSUME NEW r \in DOMAIN sent[p], HasSent(p, r, "acceptOutputs")
        PROVE  pc'[p] \in PastOutputs /\ (Yes(p, r, 1) => ~Dirty(p, {"outputs"})')
    <3>1. s \in PastOutputs /\ s \notin {"outputs"}
      BY <1>2, <2>4, Kinds DEF WordInv, s
    <3> QED
      BY <1>2, <1>3, <1>4, <2>4, <3>1 DEF WordInv, s
  <2>5. pc'[p] \in PastCheck /\ pc'[p] # "aborted" =>
          \E i \in DOMAIN sent[p] : HasSent(p, i, "alphaBeta")
    BY <1>1, <1>2, <1>3 DEF WordInv, s
  <2> QED
    BY <1>2, <2>1, <2>2, <2>3, <2>4, <2>5 DEF WordInv
<1>6. ASSUME NEW q \in Parties, q # p PROVE WordInv(q)'
  <2>1. WordInv(q) /\ pc'[q] = pc[q] /\ waiting'[q] = waiting[q] /\ consHash'[q] = consHash[q]
        /\ consBad'[q] = consBad[q] /\ views'[q] = views[q]
    BY <1>6 DEF CheckInv, Completes
  <2> QED
    BY <1>2, <2>1 DEF WordInv, Dirty, LastRound
<1> QED
  BY <1>5, <1>6

(* Who compares finds a mismatch, or has the same digest as all.           *)
LEMMA ComparedStep ==
  ASSUME FlowType, RoundInv, CheckInv, NEW p \in Parties, Completes(p),
         consBad[p] => consBad'[p], pc[p] = "alphaBeta" /\ ~consBad'[p] => AllSameAs(p)
  PROVE  \A q \in Parties : ComparedInv(q)'
<1>1. pc[p] \in RoundSteps /\ (pc[p] # "inputs" => \A q \in Parties : HasSent(q, LastRound(p), pc[p]))
  BY AllSent
<1>2. sent' = sent /\ \A q, r, t : HasSent(q, r, t)' = HasSent(q, r, t)
  BY DEF Completes, HasSent
<1>3. ASSUME NEW q \in Parties, q # p PROVE ComparedInv(q)'
  <2>1. ComparedInv(q) /\ pc'[q] = pc[q] /\ consBad'[q] = consBad[q]
    BY <1>3 DEF CheckInv, Completes
  <2> QED
    BY <1>2, <2>1 DEF ComparedInv
<1>4. ComparedInv(p)'
  <2> SUFFICES ASSUME NEW r \in DOMAIN sent[p], HasSent(p, r, "alphaBeta"), ~consBad'[p],
                      NEW q \in Parties
               PROVE  HasSent(q, r, "alphaBeta") /\ sent[q][r].content = sent[p][r].content
    BY <1>2 DEF ComparedInv
  <2>1. WordInv(p) /\ ComparedInv(p) /\ ~consBad[p]
    BY DEF CheckInv
  <2>2. CASE pc[p] \in PastCheck
    BY <2>1, <2>2 DEF ComparedInv
  <2>3. CASE pc[p] \notin PastCheck
    <3>1. pc[p] = "alphaBeta" /\ r = LastRound(p)
      BY <2>1, <2>3 DEF WordInv
    <3> QED
      BY <1>1, <3>1 DEF AllSameAs, Heard
  <2> QED
    BY <2>2, <2>3
<1> QED
  BY <1>3, <1>4

(* What p does with an opening, and that nobody else does anything.        *)
LEMMA OpeningFacts ==
  ASSUME FlowType, RoundInv, MailInv, CheckInv, NEW p \in Parties, NEW v \in {0, 1},
         SeeOpening(p, v)
  PROVE  /\ Completes(p) /\ pc[p] \in Openings /\ pc[p] \in RoundSteps /\ At(p) = pc[p]
         /\ pc'[p] = AfterRound(p, pc[p]) /\ verdicts' = verdicts /\ outCommit' = outCommit
         /\ views'[p] = Append(views[p], Entry(pc[p], v))
         /\ consHash'[p] = IF CheckingConsistency(pc[p]) THEN << >>
                           ELSE IF Consistent(pc[p]) THEN Append(consHash[p], Entry(pc[p], v))
                           ELSE consHash[p]
         /\ consBad'[p] = (consBad[p] \/ (CheckingConsistency(pc[p]) /\ ~AllSameAs(p)))
         /\ openHash'[p] = IF Verifying(pc[p]) THEN << >>
                           ELSE IF Committed(pc[p]) THEN Append(openHash[p], Entry(pc[p], v))
                           ELSE openHash[p]
         /\ openBad'[p] = (openBad[p] \/ (Verifying(pc[p])
                             /\ Head(commits[p]) # Append(openHash[p], Entry(pc[p], v))))
         /\ commits'[p] = IF Verifying(pc[p]) THEN Tail(commits[p]) ELSE commits[p]
         /\ \A q \in Parties : q # p => commits'[q] = commits[q]
<1>1. pc[p] \in Openings /\ pc[p] \in RoundSteps /\ At(p) = pc[p]
  BY StepFacts DEF SeeOpening, At, RoundOf
<1>2. Goto(p, AfterRound(p, pc[p])) /\ AfterRound(p, pc[p]) \in PartySteps
  BY <1>1, AfterRoundFacts DEF SeeOpening, PartySteps
<1>3. /\ pc'[p] = AfterRound(p, pc[p]) /\ waiting'[p] = FALSE
      /\ \A q \in Parties : q # p => pc'[q] = pc[q] /\ waiting'[q] = waiting[q] /\ At(q)' = At(q)
  BY <1>2, PartyGoto
<1>4. /\ DOMAIN views = Parties /\ DOMAIN consHash = Parties /\ DOMAIN consBad = Parties
      /\ DOMAIN openBad = Parties /\ DOMAIN openHash = Procs /\ DOMAIN commits = Procs
      /\ p \in Procs
  BY ProcFacts DEF FlowType, MailInv, DealerInv
<1>5. /\ Complete(p) /\ sent' = sent /\ verdicts' = verdicts /\ outCommit' = outCommit
      /\ views' = [views EXCEPT ![p] = Append(@, Entry(pc[p], v))]
      /\ consHash' = [consHash EXCEPT ![p] =
                        IF CheckingConsistency(pc[p]) THEN << >>
                        ELSE IF Consistent(pc[p]) THEN Append(@, Entry(pc[p], v)) ELSE @]
      /\ consBad' = [consBad EXCEPT ![p] = @ \/ (CheckingConsistency(pc[p]) /\ ~AllSameAs(p))]
      /\ openHash' = [openHash EXCEPT ![p] =
                        IF Verifying(pc[p]) THEN << >>
                        ELSE IF Committed(pc[p]) THEN Append(openHash[p], Entry(pc[p], v)) ELSE @]
      /\ openBad' = [openBad EXCEPT ![p] = @ \/ (Verifying(pc[p])
                       /\ Head(commits[p]) # Append(openHash[p], Entry(pc[p], v)))]
      /\ commits' = [commits EXCEPT ![p] = IF Verifying(pc[p]) THEN Tail(@) ELSE @]
  BY DEF SeeOpening, TakeCommit
<1>6. /\ views'[p] = Append(views[p], Entry(pc[p], v))
      /\ consHash'[p] = IF CheckingConsistency(pc[p]) THEN << >>
                        ELSE IF Consistent(pc[p]) THEN Append(consHash[p], Entry(pc[p], v))
                        ELSE consHash[p]
      /\ openHash'[p] = IF Verifying(pc[p]) THEN << >>
                        ELSE IF Committed(pc[p]) THEN Append(openHash[p], Entry(pc[p], v))
                        ELSE openHash[p]
      /\ commits'[p] = IF Verifying(pc[p]) THEN Tail(commits[p]) ELSE commits[p]
  BY <1>4, <1>5
<1>7. consBad'[p] = (consBad[p] \/ (CheckingConsistency(pc[p]) /\ ~AllSameAs(p)))
  BY <1>4, <1>5
<1>8. openBad'[p] = (openBad[p] \/ (Verifying(pc[p])
                             /\ Head(commits[p]) # Append(openHash[p], Entry(pc[p], v))))
  BY <1>4, <1>5
<1>9. \A q \in Parties : q # p =>
        /\ views'[q] = views[q] /\ consHash'[q] = consHash[q] /\ consBad'[q] = consBad[q]
        /\ openHash'[q] = openHash[q] /\ openBad'[q] = openBad[q] /\ commits'[q] = commits[q]
  BY <1>4, <1>5, ProcFacts
<1> QED
  BY <1>1, <1>3, <1>5, <1>6, <1>7, <1>8, <1>9 DEF Completes

(* The digest of something altered is no commitment.                       *)
LEMMA NoCommitment ==
  ASSUME NEW c \in Commitments, NEW h \in Digests, NEW s, NEW v,
         v # 0 \/ \E e \in DOMAIN h : h[e].view # 0
  PROVE  c # Append(h, Entry(s, v))
<1> SUFFICES ASSUME c = Append(h, Entry(s, v)) PROVE FALSE
  OBVIOUS
<1>1. \A e \in DOMAIN c : c[e].view = 0
  BY DEF Commitments
<1>2. /\ Len(h) + 1 \in DOMAIN c /\ c[Len(h) + 1] = Entry(s, v)
      /\ \A e \in DOMAIN h : e \in DOMAIN c /\ c[e] = h[e]
  <2> DEFINE x == Entry(s, v)
  <2>1. h \in Seq(Entries) /\ c = Append(h, x)
    BY DEF Digests
  <2> HIDE DEF x
  <2>2. DOMAIN c = 1..(Len(h) + 1) /\ DOMAIN h = 1..Len(h) /\ Len(h) \in Nat
    BY <2>1
  <2>3. c[Len(h) + 1] = x /\ \A e \in DOMAIN h : c[e] = h[e]
    BY <2>1, <2>2
  <2> QED
    BY <2>2, <2>3 DEF x
<1>3. Entry(s, v).view = v
  BY DEF Entry
<1> QED
  BY <1>1, <1>2, <1>3

(* The elements of a sequence that something is appended to.               *)
LEMMA Longer ==
  ASSUME NEW S, NEW h \in Seq(S), NEW e
  PROVE  /\ Len(Append(h, e)) = Len(h) + 1 /\ DOMAIN Append(h, e) = 1..(Len(h) + 1)
         /\ Len(h) \in Nat /\ DOMAIN h = 1..Len(h)
         /\ Append(h, e)[Len(h) + 1] = e
         /\ \A i \in DOMAIN h : i \in DOMAIN Append(h, e) /\ Append(h, e)[i] = h[i]
         /\ e \in S => Append(h, e) \in Seq(S)
OBVIOUS

(* An altered opening is traced, and what is checked is forgotten.         *)
LEMMA OpeningTrace ==
  ASSUME FlowType, RoundInv, MailInv, CheckInv, NEW p \in Parties, NEW v \in {0, 1},
         SeeOpening(p, v)
  PROVE  TraceInv(p)' /\ CommitInv(p)'
<1> DEFINE s == pc[p]
           x == Entry(s, v)
<1>1. /\ s \in Openings /\ s \in RoundSteps /\ pc'[p] = AfterRound(p, s)
      /\ views'[p] = Append(views[p], x)
      /\ CheckingConsistency(s) => consHash'[p] = << >>
      /\ ~CheckingConsistency(s) /\ ~Consistent(s) => consHash'[p] = consHash[p]
      /\ Verifying(s) => openHash'[p] = << >>
      /\ ~Verifying(s) /\ Committed(s) => openHash'[p] = Append(openHash[p], x)
      /\ ~Verifying(s) /\ ~Committed(s) => openHash'[p] = openHash[p]
      /\ Verifying(s) => commits'[p] = Tail(commits[p])
      /\ ~Verifying(s) => commits'[p] = commits[p]
      /\ outCommit' = outCommit
  BY OpeningFacts
<1>2. /\ openBad[p] => openBad'[p]
      /\ Verifying(s) /\ Head(commits[p]) # Append(openHash[p], x) => openBad'[p]
  BY OpeningFacts
<1>3. CommitInv(p) /\ TraceInv(p) /\ s \notin Setup /\ s # "aborted"
  BY <1>1, StepFacts DEF CheckInv
<1>4. views[p] \in Digests /\ openHash[p] \in Digests /\ commits[p] \in Seq(Commitments)
      /\ Len(commits[p]) = NumLeft(s)
  BY <1>3, ViewTypes DEF CommitInv
<1>5. x.step = s /\ x.view = v /\ x \in Entries
  BY <1>1 DEF Entry, Entries
<1> HIDE DEF x
<1>6. /\ DOMAIN views'[p] = 1..(Len(views[p]) + 1) /\ Len(views'[p]) = Len(views[p]) + 1
      /\ Len(views[p]) \in Nat /\ DOMAIN views[p] = 1..Len(views[p])
      /\ views'[p][Len(views[p]) + 1] = x
      /\ \A k \in DOMAIN views[p] : views'[p][k] = views[p][k]
  BY <1>1, <1>4, <1>5, Longer DEF Digests
<1>7. \A S : Dirty(p, S)' => Dirty(p, S) \/ (s \in S /\ v # 0)
  BY <1>5, <1>6 DEF Dirty
<1>8. Verifying(s) => commits[p] # << >> /\ Head(commits[p]) \in Commitments
                      /\ Tail(commits[p]) \in Seq(Commitments)
                      /\ Len(Tail(commits[p])) = Len(commits[p]) - 1
  <2>1. Verifying(s) => NumLeft(s) >= 1
    BY Kinds, NumLeftFacts
  <2> QED
    BY <1>4, <2>1
<1>9. Verifying(s) /\ (v # 0 \/ \E e \in DOMAIN openHash[p] : openHash[p][e].view # 0) => openBad'[p]
  BY <1>2, <1>4, <1>8, NoCommitment DEF x
<1>10. /\ pc'[p] \notin PastCheck => s \notin PastCheck /\ s # "alphaBeta"
       /\ pc'[p] \in PastCheck => s \in PastCheck \/ s = "alphaBeta"
       /\ s \in PastCheck => s \in {"openTriple", "openOutput", "outputs"}
  <2>1. pc'[p] \notin PastCheck => s \notin PastCheck /\ s # "alphaBeta"
    BY <1>1, Past, Order DEF PastCheck
  <2>2. s \in PastCheck => s \in {"openTriple", "openOutput", "outputs"}
    BY <1>1, StepFacts DEF PastCheck, Accepts, AcceptSteps, OneBit
  <2> QED
    BY <1>1, <2>1, <2>2, Past
<1> HIDE DEF s
<1>11. CommitInv(p)'
  <2>1. openHash'[p] \in Digests
    <3>1. << >> \in Digests /\ Append(openHash[p], x) \in Digests
      BY <1>4, <1>5 DEF Digests
    <3> QED
      BY <1>1, <1>4, <3>1
  <2>2. commits'[p] \in Seq(Commitments) /\ Len(commits'[p]) = NumLeft(pc'[p])
    BY <1>1, <1>4, <1>8, NumLeftFacts
  <2>3. outCommit'[p] = OutputCommitment
    BY <1>1, <1>3 DEF CommitInv, s
  <2> QED
    BY <2>1, <2>2, <2>3 DEF CommitInv
<1>12. pc'[p] \in PastCheck => openHash'[p] = << >> /\ consHash'[p] = << >>
  <2>1. CASE s = "alphaBeta"
    BY <1>1, <2>1, Kinds
  <2>2. CASE s \in {"openTriple", "openOutput", "outputs"} /\ s \in PastCheck
    <3>1. openHash[p] = << >> /\ consHash[p] = << >>
      BY <1>3, <2>2 DEF TraceInv, s
    <3>2. ~CheckingConsistency(s) /\ ~Consistent(s) /\ (s = "outputs" => ~Verifying(s) /\ ~Committed(s))
          /\ (s # "outputs" => Verifying(s))
      BY <2>2, Kinds
    <3> QED
      BY <1>1, <3>1, <3>2
  <2> QED
    BY <1>10, <2>1, <2>2
<1>13. pc'[p] \notin PastCheck /\ Dirty(p, PrgSteps)' =>
         \E e \in DOMAIN openHash'[p] : openHash'[p][e].view # 0
  <2> SUFFICES ASSUME pc'[p] \notin PastCheck, Dirty(p, PrgSteps)'
               PROVE  \E e \in DOMAIN openHash'[p] : openHash'[p][e].view # 0
    OBVIOUS
  <2>1. s \notin PastCheck /\ ~Verifying(s)
    BY <1>10, Kinds DEF PastCheck
  <2>2. CASE Dirty(p, PrgSteps)
    <3>1. PICK e \in DOMAIN openHash[p] : openHash[p][e].view # 0
      BY <1>3, <2>1, <2>2 DEF TraceInv, s
    <3>2. e \in DOMAIN openHash'[p] /\ openHash'[p][e] = openHash[p][e]
      BY <1>1, <1>4, <1>5, <2>1, Longer, SMTT(30) DEF Digests
    <3> QED
      BY <3>1, <3>2
  <2>3. CASE s \in PrgSteps /\ v # 0
    <3>1. openHash'[p] = Append(openHash[p], x)
      BY <1>1, <2>1, <2>3, Kinds
    <3>2. Len(openHash[p]) + 1 \in DOMAIN openHash'[p]
          /\ openHash'[p][Len(openHash[p]) + 1] = x
      BY <1>4, <1>5, <3>1, Longer DEF Digests
    <3> QED
      BY <1>5, <2>3, <3>2
  <2> QED
    BY <1>7, <2>2, <2>3
<1>14. pc'[p] \in PastCheck /\ Dirty(p, PrgSteps)' => openBad'[p]
  <2> SUFFICES ASSUME pc'[p] \in PastCheck, Dirty(p, PrgSteps)' PROVE openBad'[p]
    OBVIOUS
  <2>1. CASE s = "alphaBeta"
    BY <1>3, <1>7, <1>9, <2>1, Kinds DEF TraceInv, s
  <2>2. CASE s \in PastCheck
    BY <1>2, <1>3, <1>7, <2>2, Kinds DEF TraceInv, s
  <2> QED
    BY <1>10, <2>1, <2>2
<1>15. Dirty(p, RevealSteps)' => openBad'[p]
  BY <1>2, <1>3, <1>7, <1>9, Kinds DEF TraceInv
<1>16. \A k \in DOMAIN views'[p] :
         views'[p][k].step = "outputs" => pc'[p] \in PastOutputs /\ k = Len(views'[p])
  <2>1. s \notin PastOutputs
    BY <1>1, StepFacts DEF PastOutputs, Accepts, OneBit
  <2>2. \A k \in DOMAIN views[p] : views[p][k].step # "outputs"
    BY <1>3, <2>1 DEF TraceInv, s
  <2>3. s = "outputs" => pc'[p] \in PastOutputs
    BY <1>1, Order DEF PastOutputs
  <2> QED
    BY <1>5, <1>6, <2>2, <2>3
<1> QED
  BY <1>11, <1>12, <1>13, <1>14, <1>15, <1>16 DEF TraceInv

(* An opening keeps what the checks rest on (reconstruct, openAdditive).   *)
LEMMA OpeningChecks ==
  ASSUME FlowType, FlowType', RoundInv, MailInv, CheckInv, NEW p \in Parties, NEW v \in {0, 1},
         SeeOpening(p, v)
  PROVE  CheckInv'
<1> DEFINE s == pc[p]
           x == Entry(s, v)
<1>1. /\ Completes(p) /\ s \in Openings /\ s \in RoundSteps /\ At(p) = s
      /\ pc'[p] = AfterRound(p, s) /\ verdicts' = verdicts /\ outCommit' = outCommit
      /\ views'[p] = Append(views[p], x)
      /\ CheckingConsistency(s) => consHash'[p] = << >>
      /\ ~CheckingConsistency(s) /\ Consistent(s) => consHash'[p] = Append(consHash[p], x)
      /\ ~CheckingConsistency(s) /\ ~Consistent(s) => consHash'[p] = consHash[p]
      /\ \A q \in Parties : q # p => commits'[q] = commits[q]
  BY OpeningFacts
<1>2. /\ consBad[p] => consBad'[p]
      /\ consBad'[p] => consBad[p] \/ s = "alphaBeta"
      /\ s = "alphaBeta" /\ ~consBad'[p] => AllSameAs(p)
  <2>1. consBad'[p] = (consBad[p] \/ (CheckingConsistency(s) /\ ~AllSameAs(p)))
    BY OpeningFacts
  <2>2. CheckingConsistency(s) <=> s = "alphaBeta"
    BY <1>1, Kinds
  <2> HIDE DEF s
  <2> QED
    BY <2>1, <2>2
<1>3. x.step = s
  BY DEF Entry
<1> HIDE DEF x
<1>4. /\ Len(views'[p]) = Len(views[p]) + 1 /\ DOMAIN views'[p] = 1..(Len(views[p]) + 1)
      /\ Len(views[p]) \in Nat /\ DOMAIN views[p] = 1..Len(views[p])
      /\ views'[p][Len(views[p]) + 1] = x
      /\ \A k \in DOMAIN views[p] : views'[p][k] = views[p][k]
  BY <1>1, ViewTypes, Longer DEF Digests
<1>5. /\ Consistent(s) => ~CheckingConsistency(s) /\ Len(consHash'[p]) = Len(consHash[p]) + 1
                          /\ consHash'[p][Len(consHash[p]) + 1] = x
      /\ ~CheckingConsistency(s) => \A j \in DOMAIN consHash[p] :
           j \in DOMAIN consHash'[p] /\ consHash'[p][j] = consHash[p][j]
      /\ Len(consHash[p]) \in Nat
  <2>1. Consistent(s) => ~CheckingConsistency(s)
    BY Kinds
  <2>2. consHash[p] \in Seq(Entries)
    BY ViewTypes DEF Digests
  <2> QED
    BY <1>1, <2>1, <2>2, Longer
<1>6. Len(views'[p]) = NextSeen(p)
  BY <1>1, <1>4, SeenCases
<1>7. Len(consHash'[p]) = NextKept(p)
  <2>1. CASE CheckingConsistency(s)
    BY <1>1, <2>1 DEF NextKept
  <2>2. CASE ~CheckingConsistency(s) /\ Consistent(s)
    <3>1. NextKept(p) = Len(consHash[p]) + 1
      BY <1>1, <2>2 DEF NextKept
    <3> QED
      BY <1>5, <2>2, <3>1
  <2>3. CASE ~CheckingConsistency(s) /\ ~Consistent(s)
    <3>1. NextKept(p) = Len(consHash[p]) + 0
      BY <1>1, <2>3 DEF NextKept
    <3> QED
      BY <1>1, <1>5, <2>3, <3>1
  <2> QED
    BY <2>1, <2>2, <2>3
<1>8. pc'[p] \notin PastCheck => s \notin PastCheck /\ s # "alphaBeta"
  BY <1>1, Past, Order DEF PastCheck
<1>9. \A a, b \in Parties : SeenInv(a, b)'
  BY <1>1, <1>3, <1>4, <1>5, <1>6, <1>7, SeenStep DEF Completes
<1>10. \A a, b \in Parties : DifferInv(a, b)'
  BY <1>1, <1>3, <1>4, <1>5, <1>6, <1>7, <1>8, Kinds, DifferStep, ZenonT(60) DEF Completes
<1>11. \A q \in Parties : WordInv(q)'
  BY <1>1, <1>2, <1>3, <1>4, WordStep
<1>12. \A q \in Parties : ComparedInv(q)'
  BY <1>1, <1>2, ComparedStep
<1>13. ASSUME NEW q \in Parties PROVE TraceInv(q)' /\ CommitInv(q)'
  <2>1. CASE q = p
    BY <2>1, OpeningTrace
  <2>2. CASE q # p
    BY <1>1, <2>2, SMTT(30) DEF Completes, CheckInv, TraceInv, CommitInv, Dirty
  <2> QED
    BY <2>1, <2>2
<1>14. ASSUME NEW q \in Parties PROVE PassedInv(q)'
  <2>1. PassedInv(q) /\ \A t : Passed(q, t)' = Passed(q, t)
    BY <1>1 DEF CheckInv, Passed
  <2>2. \A a, r, t : HasSent(a, r, t)' = HasSent(a, r, t) /\ \A i : Yes(a, r, i)' = Yes(a, r, i)
    BY <1>1 DEF Completes, HasSent, Yes
  <2>3. pc'[q] \in {"outputs", "acceptOutputs", "done"} =>
          pc[q] \in {"outputs", "acceptOutputs", "done"} /\ (pc'[q] = "done" => pc[q] = "done")
    <3>1. CASE q = p
      <4>1. s \notin {"accept3", "acceptOutputs"}
        BY <1>1, StepFacts DEF Accepts, OneBit, AcceptSteps
      <4> QED
        BY <1>1, <3>1, <4>1, Past
    <3>2. CASE q # p
      BY <1>1, <3>2 DEF Completes
    <3> QED
      BY <3>1, <3>2
  <2> QED
    BY <1>1, <2>1, <2>2, <2>3 DEF PassedInv, Completes
<1>15. DOMAIN outCommit' = Parties
  BY <1>1 DEF CheckInv
<1> QED
  BY <1>9, <1>10, <1>11, <1>12, <1>13, <1>14, <1>15 DEF CheckInv

(* The rounds in which nothing is opened.                                  *)
LEMMA QuietChecks ==
  ASSUME FlowType, FlowType', RoundInv, CheckInv, NEW p \in Parties, Completes(p),
         pc[p] \notin Openings, UNCHANGED <<views, checks>>,
         pc'[p] # "aborted" => pc'[p] = AfterRound(p, pc[p])
  PROVE  /\ \A q \in Parties : CommitInv(q)' /\ TraceInv(q)' /\ WordInv(q)' /\ ComparedInv(q)'
         /\ \A a, b \in Parties : SeenInv(a, b)' /\ DifferInv(a, b)'
<1> DEFINE s == pc[p]
<1>1. s \in RoundSteps /\ At(p) = s /\ s # "alphaBeta"
  <2>1. s \in RoundSteps
    BY AllSent
  <2> QED
    BY <2>1, StepFacts, Kinds DEF At, RoundOf
<1>2. ~Consistent(s) /\ ~CheckingConsistency(s) /\ ~Verifying(s)
  BY Kinds, StepFacts DEF Openings
<1>3. Len(views[p]) \in Nat /\ Len(consHash[p]) \in Nat
  BY ViewTypes
<1>4. Len(views'[p]) = NextSeen(p)
  BY <1>1, <1>3, SeenCases
<1>5. Len(consHash'[p]) = NextKept(p)
  <2>1. NextKept(p) = Len(consHash[p]) + 0
    BY <1>1, <1>2 DEF NextKept
  <2> QED
    BY <1>3, <2>1 DEF checks
<1>6. \A a, b \in Parties : SeenInv(a, b)'
  BY <1>1, <1>2, <1>4, <1>5, SeenStep DEF Completes
<1>7. /\ pc'[p] \notin PastCheck => s \notin PastCheck
      /\ pc'[p] \in PastCheck /\ pc'[p] # "aborted" => s \in PastCheck
      /\ s \in PastOutputs => pc'[p] \in PastOutputs
      /\ s # "aborted" /\ s \notin Setup
  BY <1>1, Past, StepFacts DEF PastCheck, PastOutputs
<1>8. \A a, b \in Parties : DifferInv(a, b)'
  BY <1>1, <1>2, <1>4, <1>5, <1>7, DifferStep DEF Completes, checks
<1>9. \A q \in Parties : WordInv(q)' /\ ComparedInv(q)'
  BY <1>1, WordStep, ComparedStep DEF checks
<1>10. ASSUME NEW q \in Parties PROVE CommitInv(q)' /\ TraceInv(q)'
  <2>1. CommitInv(q) /\ TraceInv(q) /\ UNCHANGED <<openHash, commits, outCommit, openBad, consHash>>
    BY DEF CheckInv, checks
  <2>2. CASE q # p
    BY <2>1, <2>2 DEF Completes, CommitInv, TraceInv, Dirty
  <2>3. CASE q = p
    <3>1. CommitInv(p)'
      BY <1>1, <1>2, <1>7, <2>1, <2>3, NumLeftFacts DEF CommitInv
    <3>2. TraceInv(p)'
      BY <1>7, <2>1, <2>3 DEF TraceInv, Dirty
    <3> QED
      BY <2>3, <3>1, <3>2
  <2> QED
    BY <2>2, <2>3
<1> QED
  BY <1>6, <1>8, <1>9, <1>10

(* Comparing the digests of the inputs opens nothing.                      *)
LEMMA DigestChecks ==
  ASSUME FlowType, FlowType', RoundInv, CheckInv, NEW p \in Parties, ReadDigests(p)
  PROVE  CheckInv'
<1>1. /\ Complete(p) /\ Goto(p, "acceptInputs") /\ pc[p] = "inputDigest"
      /\ UNCHANGED <<sent, views, checks, verdicts>>
  BY DEF ReadDigests
<1>2. /\ "acceptInputs" \in PartySteps /\ pc[p] \notin Openings
      /\ AfterRound(p, pc[p]) = "acceptInputs"
  BY <1>1, StepFacts DEF PartySteps, RoundSteps, Accepts, OneBit, AfterRound, Openings, PrgSteps,
                         SumSteps, RevealSteps
<1>3. pc'[p] = "acceptInputs" /\ Completes(p)
  BY <1>1, <1>2, PartyGoto DEF Completes, checks
<1>4. ASSUME NEW q \in Parties PROVE PassedInv(q)'
  <2>1. PassedInv(q) /\ \A t : Passed(q, t)' = Passed(q, t)
    BY <1>1 DEF CheckInv, Passed
  <2>2. \A a, r, t : HasSent(a, r, t)' = HasSent(a, r, t) /\ \A i : Yes(a, r, i)' = Yes(a, r, i)
    BY <1>1 DEF HasSent, Yes
  <2>3. pc'[q] \in {"outputs", "done"} => pc'[q] = pc[q]
    BY <1>3 DEF Completes
  <2>4. q # p => pc'[q] = pc[q]
    BY <1>3 DEF Completes
  <2> QED
    BY <1>1, <1>3, <2>1, <2>2, <2>3, <2>4 DEF PassedInv
<1> QED
  BY <1>1, <1>2, <1>3, <1>4, QuietChecks DEF CheckInv, checks

(* A verdict in which everybody says yes is the only one that is accepted. *)
LEMMA YesOfAll ==
  ASSUME NEW p, Accepted(Verdict(p))
  PROVE  /\ Verdict(p) = <<TRUE, TRUE>>
         /\ \A q \in Parties : Heard(p, q)[1] /\ Heard(p, q)[2]
<1> DEFINE a == \A q \in Parties : Heard(p, q)[1]
           b == \A q \in Parties : Heard(p, q)[2]
<1>1. Verdict(p) = <<a, b>>
  BY DEF Verdict
<1>2. a \in BOOLEAN /\ b \in BOOLEAN
  OBVIOUS
<1> HIDE DEF a, b
<1>3. Verdict(p)[1] = a /\ Verdict(p)[2] = b
  BY <1>1, PairOf
<1>4. a /\ b
  BY <1>3 DEF Accepted
<1>5. a = TRUE /\ b = TRUE
  BY <1>2, <1>4
<1> QED
  BY <1>1, <1>4, <1>5 DEF a, b

(* An accept round lets nobody past without a yes of everybody             *)
(* (checkForAccept, checkForDoubleAccept).                                 *)
LEMMA AcceptChecks ==
  ASSUME FlowType, FlowType', RoundInv, CheckInv, NEW p \in Parties, CheckForAccept(p)
  PROVE  CheckInv'
<1> DEFINE s == pc[p]
           e == [step |-> s, bits |-> Verdict(p)]
<1>1. /\ s \in Accepts /\ s \in RoundSteps /\ s \notin Openings /\ s # "inputs" /\ Complete(p)
      /\ UNCHANGED <<sent, views, checks>>
      /\ Goto(p, IF Accepted(Verdict(p)) THEN AfterRound(p, s) ELSE "aborted")
      /\ verdicts' = [verdicts EXCEPT ![p] = Append(@, e)]
  BY StepFacts DEF CheckForAccept
<1>2. AfterRound(p, s) \in PartySteps /\ "aborted" \in PartySteps
  BY <1>1, AfterRoundFacts DEF PartySteps
<1>3. /\ waiting'[p] = FALSE
      /\ Accepted(Verdict(p)) => pc'[p] = AfterRound(p, s)
      /\ ~Accepted(Verdict(p)) => pc'[p] = "aborted"
      /\ \A q \in Parties : q # p => pc'[q] = pc[q] /\ waiting'[q] = waiting[q] /\ At(q)' = At(q)
  BY <1>1, <1>2, PartyGoto
<1>4. /\ verdicts[p] \in Seq(Verdicts) /\ verdicts'[p] = Append(verdicts[p], e)
      /\ \A q \in Parties : q # p => verdicts'[q] = verdicts[q]
  BY <1>1 DEF FlowType
<1>5. Completes(p)
  BY <1>1, <1>3, <1>4 DEF Completes, checks
<1>6. /\ \A k \in DOMAIN verdicts[p] : k \in DOMAIN verdicts'[p] /\ verdicts'[p][k] = verdicts[p][k]
      /\ Len(verdicts[p]) + 1 \in DOMAIN verdicts'[p]
      /\ verdicts'[p][Len(verdicts[p]) + 1] = e
      /\ \A k \in DOMAIN verdicts'[p] : k \in DOMAIN verdicts[p] \/ k = Len(verdicts[p]) + 1
  <2> HIDE DEF e
  <2>1. /\ DOMAIN verdicts'[p] = 1..(Len(verdicts[p]) + 1) /\ Len(verdicts[p]) \in Nat
        /\ DOMAIN verdicts[p] = 1..Len(verdicts[p])
        /\ verdicts'[p][Len(verdicts[p]) + 1] = e
        /\ \A k \in DOMAIN verdicts[p] : verdicts'[p][k] = verdicts[p][k]
    BY <1>4, Longer
  <2> QED
    BY <2>1
<1>8. \A t : Passed(p, t) => Passed(p, t)'
  BY <1>6 DEF Passed
<1>9. ASSUME NEW t, Passed(p, t)', ~Passed(p, t) PROVE t = s /\ Verdict(p) = <<TRUE, TRUE>>
  <2>1. PICK k \in DOMAIN verdicts'[p] : verdicts'[p][k] = [step |-> t, bits |-> <<TRUE, TRUE>>]
    BY <1>9 DEF Passed
  <2>2. k \notin DOMAIN verdicts[p]
    BY <1>6, <1>9, <2>1 DEF Passed
  <2>3. e = [step |-> t, bits |-> <<TRUE, TRUE>>]
    BY <1>6, <2>1, <2>2
  <2> QED
    BY <2>3
<1>10. ASSUME NEW t, t = s, Accepted(Verdict(p)) PROVE Passed(p, t)'
  BY <1>6, <1>10, YesOfAll DEF Passed
<1>11. ASSUME NEW q \in Parties, q # p PROVE PassedInv(q)'
  <2>1. PassedInv(q) /\ \A t : Passed(q, t)' = Passed(q, t)
    BY <1>4, <1>11 DEF CheckInv, Passed
  <2>2. \A a, r, t : HasSent(a, r, t)' = HasSent(a, r, t) /\ \A i : Yes(a, r, i)' = Yes(a, r, i)
    BY <1>1 DEF HasSent, Yes
  <2> QED
    BY <1>1, <1>3, <1>11, <2>1, <2>2 DEF PassedInv
<1>12. PassedInv(p)'
  <2>1. PassedInv(p)
    BY DEF CheckInv
  <2>2. \A a, r, t : HasSent(a, r, t)' = HasSent(a, r, t) /\ \A i : Yes(a, r, i)' = Yes(a, r, i)
    BY <1>1 DEF HasSent, Yes
  <2>3. ASSUME NEW t \in Accepts, Passed(p, t)'
        PROVE  \E r \in DOMAIN sent[p] : \A q \in Parties : HasSent(q, r, t) /\ Yes(q, r, 1) /\ Yes(q, r, 2)
    <3>1. CASE Passed(p, t)
      BY <2>1, <3>1 DEF PassedInv
    <3>2. CASE t = s /\ Verdict(p) = <<TRUE, TRUE>>
      <4>1. Accepted(Verdict(p))
        BY <3>2, PairOf DEF Accepted
      <4>2. \A q \in Parties : Heard(p, q)[1] /\ Heard(p, q)[2]
        BY <4>1, YesOfAll
      <4>3. LastRound(p) \in DOMAIN sent[p] /\ \A q \in Parties : HasSent(q, LastRound(p), s)
        BY <1>1, <1>5, AllSent
      <4> QED
        BY <3>2, <4>2, <4>3 DEF Heard, Yes
    <3> QED
      BY <1>9, <2>3, <3>1, <3>2
  <2>4. pc'[p] \in {"outputs", "acceptOutputs", "done"} => Passed(p, "accept3")'
    <3> SUFFICES ASSUME pc'[p] \in {"outputs", "acceptOutputs", "done"} PROVE Passed(p, "accept3")'
      OBVIOUS
    <3>1. Accepted(Verdict(p)) /\ s \in {"accept3", "outputs", "acceptOutputs"}
      BY <1>1, <1>3, Past
    <3>2. CASE s = "accept3"
      BY <1>10, <3>1, <3>2
    <3>3. CASE s # "accept3"
      BY <1>8, <2>1, <3>1, <3>3 DEF PassedInv
    <3> QED
      BY <3>2, <3>3
  <2>5. pc'[p] = "done" => Passed(p, "acceptOutputs")'
    BY <1>1, <1>3, <1>10, Past
  <2> QED
    BY <1>1, <2>2, <2>3, <2>4, <2>5 DEF PassedInv
<1> QED
  BY <1>1, <1>3, <1>5, <1>11, <1>12, QuietChecks DEF CheckInv, checks

(* At the beginning nothing has been seen or said.                         *)
LEMMA CheckInit == Init => CheckInv
<1> SUFFICES ASSUME Init PROVE CheckInv
  OBVIOUS
<1>1. \A p \in Parties :
        /\ pc[p] = "outputA" /\ ~waiting[p] /\ sent[p] = << >> /\ views[p] = << >>
        /\ openHash[p] = << >> /\ consHash[p] = << >> /\ commits[p] = << >> /\ verdicts[p] = << >>
        /\ consBad[p] = FALSE /\ openBad[p] = FALSE
  BY ProcFacts DEF Init
<1>2. "outputA" \in Setup /\ "outputA" \notin PastCheck /\ DOMAIN outCommit = Parties
  BY DEF Setup, PastCheck, Init
<1>3. ASSUME NEW p \in Parties
      PROVE  CommitInv(p) /\ TraceInv(p) /\ WordInv(p) /\ PassedInv(p) /\ ComparedInv(p)
  <2>1. \A S : ~Dirty(p, S)
    BY <1>1 DEF Dirty
  <2>2. CommitInv(p)
    <3>1. openHash[p] \in Digests /\ commits[p] \in Seq(Commitments) /\ Len(commits[p]) = 0
      <4>1. << >> \in Digests /\ << >> \in Seq(Commitments) /\ Len(<< >>) = 0
        BY DEF Digests
      <4> QED
        BY <1>1, <4>1
    <3> QED
      BY <1>1, <1>2, <3>1 DEF CommitInv, NumLeft
  <2>3. TraceInv(p) /\ WordInv(p)
    BY <1>1, <1>2, <2>1 DEF TraceInv, WordInv
  <2>4. \A s : ~Passed(p, s)
    BY <1>1 DEF Passed
  <2>5. PassedInv(p) /\ ComparedInv(p)
    BY <1>1, <1>2, <2>4 DEF PassedInv, ComparedInv
  <2> QED
    BY <2>2, <2>3, <2>5
<1>4. ASSUME NEW p \in Parties, NEW q \in Parties PROVE SeenInv(p, q) /\ DifferInv(p, q)
  <2>1. Round(p) = Round(q) /\ Round(p) = 1
    BY <1>1 DEF Round, LastRound
  <2>2. SeenInv(p, q)
    BY <1>1, <2>1 DEF SeenInv
  <2>3. DifferInv(p, q)
    BY <1>1 DEF DifferInv, Differ
  <2> QED
    BY <2>2, <2>3
<1> QED
  BY <1>2, <1>3, <1>4 DEF CheckInv

(* Every step of the dealer or of a party keeps what the checks rest on.   *)
LEMMA CheckStep ==
  FlowType /\ FlowType' /\ RoundInv /\ MailInv /\ CheckInv /\ [Next]_vars => CheckInv'
<1> SUFFICES ASSUME FlowType, FlowType', RoundInv, MailInv, CheckInv, [Next]_vars PROVE CheckInv'
  OBVIOUS
<1>1. CASE UNCHANGED vars
  <2>1. \A q \in Parties : CommitInv(q)'
    BY <1>1 DEF vars, flow, checks, CheckInv, CommitInv
  <2>2. /\ UNCHANGED <<sent, views, consHash, consBad, openBad, verdicts, outCommit>>
        /\ \A q \in Parties : openHash'[q] = openHash[q] /\ waiting'[q] = waiting[q]
                              /\ At(q)' = At(q) /\ pc'[q] = pc[q]
    BY <1>1 DEF vars, flow, checks, At
  <2> QED
    BY <2>1, <2>2, CheckFrame DEF CheckInv
<1> QED
  BY <1>1, DealerChecks, LocalChecks, ContributeChecks, OpeningChecks, DigestChecks, AcceptChecks
     DEF Next, Party

(* The flags, digests and accept bits of the parties tell what they have   *)
(* seen, at every step from the first opening to the outputs               *)
(* (openAdditive, checkForAccept, zkfliop_evaluator.cpp:1611-1616,         *)
(* 1658-1718).                                                             *)
THEOREM ChecksCorrect == Spec => []CheckInv
<1>1. FlowType /\ RoundInv /\ MailInv /\ CheckInv /\ [Next]_vars => CheckInv'
  BY TypeStep, CheckStep
<1> QED
  BY <1>1, CheckInit, FlowCorrect, MailCorrect, PTL DEF Spec

(* Nothing is left unchecked when the triple is opened, nor when verify()  *)
(* returns: the assertions of zkfliop_evaluator.cpp:1616 and 1717-1718.    *)
THEOREM AllIsChecked == Spec => []NothingUnchecked
<1>1. CheckInv => NothingUnchecked
  <2> SUFFICES ASSUME CheckInv, NEW p \in Parties, pc[p] \in {"openTriple", "outputs"}
               PROVE  openHash[p] = << >> /\ consHash[p] = << >>
    BY DEF NothingUnchecked
  <2>1. TraceInv(p) /\ pc[p] \in PastCheck /\ pc[p] # "aborted"
    BY DEF CheckInv, PastCheck
  <2> QED
    BY <2>1 DEF TraceInv
<1> QED
  BY <1>1, ChecksCorrect, PTL

(* Past the first double accept, nobody has seen an altered opening that   *)
(* was committed to, nor another one than p of what the consistency check   *)
(* covers (zkfliop_evaluator.cpp:1536-1547 and 1611-1616).                 *)
THEOREM CheckedFirst == Spec => []CheckedBeforeOpening
<1>1. CheckInv => CheckedBeforeOpening
  <2> SUFFICES ASSUME CheckInv, NEW p \in Parties, NEW q \in Parties, Passed(p, "accept1")
               PROVE  /\ \A k \in DOMAIN views[p] \cap DOMAIN views[q] :
                           views[q][k].step \in SumSteps \cup {"online"} => views[q][k] = views[p][k]
                      /\ \A k \in DOMAIN views[q] :
                           views[q][k].step \in PrgSteps => views[q][k].view = 0
    BY DEF CheckedBeforeOpening
  <2>1. PICK r \in DOMAIN sent[p] : \A x \in Parties :
          HasSent(x, r, "accept1") /\ Yes(x, r, 1) /\ Yes(x, r, 2)
    <3>1. "accept1" \in Accepts
      BY DEF Accepts, AcceptSteps
    <3> QED
      BY <3>1 DEF CheckInv, PassedInv
  <2>2. \A x \in Parties : /\ pc[x] \in PastCheck /\ ~consBad[x] /\ ~Dirty(x, PrgSteps)
                           /\ \E i \in DOMAIN sent[x] : HasSent(x, i, "alphaBeta")
    BY <2>1 DEF CheckInv, WordInv, HasSent
  <2>3. PICK i \in DOMAIN sent[p] : HasSent(p, i, "alphaBeta")
    BY <2>2
  <2>4. HasSent(q, i, "alphaBeta") /\ sent[q][i].content = sent[p][i].content
    BY <2>2, <2>3 DEF CheckInv, ComparedInv
  <2>5. ~Differ(p, q)
    BY <2>3, <2>4 DEF CheckInv, DifferInv
  <2> QED
    BY <2>2, <2>5 DEF Differ, Dirty, Consistent
<1> QED
  BY <1>1, ChecksCorrect, PTL

(* Who has its outputs has seen them and what they rest on as they are,    *)
(* and so has everybody else (zkfliop_evaluator.cpp:1658-1713, 573-590).   *)
THEOREM OutputsRight == Spec => []OutputsTrusted
<1>1. CheckInv => OutputsTrusted
  <2> SUFFICES ASSUME CheckInv, NEW p \in Parties, NEW q \in Parties, pc[p] = "done"
               PROVE  \A k \in DOMAIN views[q] :
                        views[q][k].step \in RevealSteps \cup {"outputs"} => views[q][k].view = 0
    BY DEF OutputsTrusted
  <2>1. Passed(p, "accept3") /\ Passed(p, "acceptOutputs")
        /\ "accept3" \in Accepts /\ "acceptOutputs" \in Accepts
    BY DEF CheckInv, PassedInv, Accepts, AcceptSteps, OneBit
  <2>2. PICK r \in DOMAIN sent[p] : \A x \in Parties : HasSent(x, r, "accept3") /\ Yes(x, r, 1)
    BY <2>1 DEF CheckInv, PassedInv
  <2>3. PICK i \in DOMAIN sent[p] : \A x \in Parties : HasSent(x, i, "acceptOutputs") /\ Yes(x, i, 1)
    BY <2>1 DEF CheckInv, PassedInv
  <2>4. ~Dirty(q, RevealSteps) /\ ~Dirty(q, {"outputs"})
    BY <2>2, <2>3 DEF CheckInv, WordInv, HasSent
  <2> QED
    BY <2>4 DEF Dirty
<1> QED
  BY <1>1, ChecksCorrect, PTL

-----------------------------------------------------------------------------
(* What the dealer's run of setup and verify() is at each of its steps: a   *)
(* script that the dealer writes and a party follows.                      *)
Drawing == {"outputA", "gates"} \cup VerifySteps

Start == [step |-> "outputA", size |-> VectorLength, tape |-> [i \in Parties |-> << >>],
          hash |-> << >>, made |-> << >>]

AfterDraw(s, n) == IF s = "outputA" THEN "gates" ELSE IF s = "gates" THEN "r_bits" ELSE After(s, n)

StepFrom(h) ==
  LET s == h.step
      n == SizeAfter(s, h.size)
      d == Append(h.hash, Entry(s, 0))
  IN  [step |-> AfterDraw(s, n), size |-> n,
       tape |-> [i \in Parties |-> h.tape[i] \o DealerDraws(s, i, h.size)],
       hash |-> IF Verifying(s) THEN << >> ELSE IF Committed(s) THEN d ELSE h.hash,
       made |-> IF Verifying(s) THEN Append(h.made, d) ELSE h.made]

IsSeq(t)     == \E S : t \in Seq(S)
Prefix(a, b) == Len(a) <= Len(b) /\ \A k \in 1..Len(a) : a[k] = b[k]

StepsAt(k) ==
  IF k = 1 THEN {"outputA"} ELSE IF k = 2 THEN {"gates"} ELSE VerifySteps \cup {"verified"}

(* The script as far as it is written: n steps of H.                       *)
Script(H, n) ==
  /\ n \in Nat /\ n >= 1 /\ H[1] = Start
  /\ \A k \in 1..(n - 1) : H[k].step \in Drawing /\ H[k + 1] = StepFrom(H[k])
  /\ \A k \in 1..n : H[k].step \in StepsAt(k) /\ (k <= 3 => H[k].made = << >>)
  /\ \A k \in 1..n : IsSeq(H[k].made) /\ \A i \in Parties : IsSeq(H[k].tape[i])
  /\ \A j, k \in 1..n : j <= k => /\ Prefix(H[j].made, H[k].made)
                                  /\ \A i \in Parties : Prefix(H[j].tape[i], H[k].tape[i])

(* The dealer is at its end, or still before verify().                     *)
DealerAt(H, n) ==
  /\ pc[0] \in Drawing \cup {"verified"} => \E d \in 1..n :
       /\ d = n \/ (d < 3 /\ n = 3)
       /\ H[d].step = pc[0] /\ H[d].size = size[0] /\ H[d].tape = dealt
       /\ H[d].hash = openHash[0] /\ H[d].made = commits[0]
  /\ pc[0] \notin Drawing \cup {"verified"} => H[n].step = "verified" /\ H[n].tape = dealt
  /\ \A q \in Parties : \A i \in DOMAIN log[0][q] :
       log[0][q][i].kind = "commits" => H[n].step = "verified" /\ log[0][q][i].digests = H[n].made

(* Where a party is in the script.                                         *)
NoCommits == {"outputA", "gates", "recvGamma", "recvCommits"}

PlaceOf(s) ==
  IF s \in Drawing THEN s
  ELSE IF s \in {"outputs", "acceptOutputs", "done"} THEN "verified" ELSE "r_bits"

Drawn(p, H, j) == IF waiting[p] /\ pc[p] \in VerifySteps THEN H[j + 1].tape[p] ELSE H[j].tape[p]

Place(H, n, p, j) ==
  /\ drawn[p] = Drawn(p, H, j)
  /\ pc[p] # "aborted" =>
       /\ H[j].step = PlaceOf(pc[p]) /\ H[j].size = size[p]
       /\ faults = 0 => openHash[p] = H[j].hash
       /\ pc[p] \in NoCommits => H[j].made = << >>
       /\ pc[p] \notin NoCommits =>
            /\ Len(H[n].made) = Len(H[j].made) + Len(commits[p])
            /\ \A k \in 1..Len(commits[p]) : commits[p][k] = H[n].made[Len(H[j].made) + k]

PartyAt(H, n, p) ==
  /\ pc[p] \notin NoCommits => H[n].step = "verified"
  /\ \E j \in 1..n : Place(H, n, p, j)

Follows(H, n) == Script(H, n) /\ n >= 3 /\ DealerAt(H, n) /\ \A p \in Parties : PartyAt(H, n, p)

StreamInv == DOMAIN drawn = Parties /\ faults \in Nat /\ \E H, n : Follows(H, n)

(* In a run without faults all see the same, keep the same for the check   *)
(* and say yes.                                                            *)
NextCons(p) ==
  IF CheckingConsistency(At(p)) THEN << >>
  ELSE IF Consistent(At(p)) THEN Append(consHash[p], Entry(At(p), 0)) ELSE consHash[p]

SameCons(p, q) ==
  /\ Round(q) = Round(p) => consHash[q] = consHash[p]
  /\ Round(q) = Round(p) + 1 => consHash[q] = NextCons(p)
  /\ \A r : HasSent(p, r, "alphaBeta") /\ HasSent(q, r, "alphaBeta") =>
       sent[q][r].content = sent[p][r].content

InputDigest == <<Entry("inputs", 0)>>

QuietInv(p) ==
  /\ ~consBad[p] /\ ~openBad[p] /\ pc[p] # "aborted"
  /\ pc[p] \in Setup \cup {"inputs"} => views[p] = << >>
  /\ pc[p] = "inputDigest" => views[p] = InputDigest
  /\ pc[p] = "acceptOutputs" => views[p] # << >> /\ Last(views[p]) = Entry("outputs", 0)
  /\ \A r : HasSent(p, r, "inputDigest") => sent[p][r].content = InputDigest
  /\ \A s \in Accepts : \A r : HasSent(p, r, s) => sent[p][r].content = <<TRUE, TRUE>>

(* Who is about to say what came of the input digests has got them all.    *)
DigestsHeard(p) ==
  pc[p] = "acceptInputs" /\ ~waiting[p] =>
    \A q \in Parties : HasSent(q, LastRound(p), "inputDigest")

NoFaultInv ==
  /\ \A p \in Parties : DigestsHeard(p)
  /\ faults = 0 => (\A p \in Parties : QuietInv(p)) /\ (\A p, q \in Parties : SameCons(p, q))

-----------------------------------------------------------------------------
(* Sequences of whatever elements.                                         *)
LEMMA Joined ==
  ASSUME NEW a, NEW b, IsSeq(a), IsSeq(b)
  PROVE  IsSeq(a \o b) /\ Prefix(a, a \o b) /\ IsSeq(<< >>)
<1>1. PICK S, T : a \in Seq(S) /\ b \in Seq(T)
  BY DEF IsSeq
<1>2. a \in Seq(S \cup T) /\ b \in Seq(S \cup T)
  BY <1>1
<1>3. a \o b \in Seq(S \cup T) /\ Prefix(a, a \o b)
  BY <1>2 DEF Prefix
<1>4. << >> \in Seq({})
  OBVIOUS
<1> QED
  BY <1>3, <1>4 DEF IsSeq

(* What is appended to a sequence comes after what was in it.              *)
LEMMA Added ==
  ASSUME NEW a, NEW e, IsSeq(a)
  PROVE  /\ IsSeq(Append(a, e)) /\ Prefix(a, Append(a, e)) /\ Len(Append(a, e)) = Len(a) + 1
         /\ Append(a, e)[Len(a) + 1] = e /\ Len(a) \in Nat
<1>1. PICK S : a \in Seq(S)
  BY DEF IsSeq
<1>2. a \in Seq(S \cup {e}) /\ e \in S \cup {e}
  BY <1>1
<1>3. Append(a, e) \in Seq(S \cup {e}) /\ Prefix(a, Append(a, e)) /\ Len(Append(a, e)) = Len(a) + 1
      /\ Append(a, e)[Len(a) + 1] = e /\ Len(a) \in Nat
  BY <1>2 DEF Prefix
<1> QED
  BY <1>3 DEF IsSeq

(* A prefix of a prefix is a prefix.                                       *)
LEMMA PrefixOrder ==
  ASSUME NEW a, NEW b, NEW c, IsSeq(a), IsSeq(b), IsSeq(c)
  PROVE  Prefix(a, a) /\ (Prefix(a, b) /\ Prefix(b, c) => Prefix(a, c))
<1>1. Len(a) \in Nat /\ Len(b) \in Nat /\ Len(c) \in Nat
  BY DEF IsSeq
<1>2. Prefix(a, a)
  BY <1>1 DEF Prefix
<1>3. ASSUME Prefix(a, b), Prefix(b, c) PROVE Prefix(a, c)
  <2>1. Len(a) <= Len(c) /\ \A k \in 1..Len(a) : k \in 1..Len(b)
    BY <1>1, <1>3 DEF Prefix
  <2> QED
    BY <1>3, <2>1 DEF Prefix
<1> QED
  BY <1>2, <1>3

(* A prefix is one in the sense of SequencesExt, too.                      *)
LEMMA PrefixIs ==
  ASSUME NEW a, NEW b, IsSeq(a), IsSeq(b), Prefix(a, b)
  PROVE  IsPrefix(a, b)
<1>1. PICK S, T : a \in Seq(S) /\ b \in Seq(T)
  BY DEF IsSeq
<1>2. Len(a) \in Nat /\ Len(b) \in Nat /\ Len(a) <= Len(b) /\ \A k \in 1..Len(a) : a[k] = b[k]
  BY <1>1 DEF Prefix
<1>3. SubSeq(a, 1, Len(a)) = SubSeq(b, 1, Len(a))
  BY <1>1, <1>2
<1> QED
  BY <1>2, <1>3 DEF IsPrefix

(* A party's part of the stream is the dealer's, step by step.             *)
LEMMA SameDraws ==
  ASSUME NEW p \in Parties, NEW s, NEW n
  PROVE  PartyDraws(s, p, n) = DealerDraws(s, p, n)
<1>1. p \in 1..nP /\ nP \in Nat
  BY ProcFacts DEF Parties
<1>2. p # 1 <=> p >= 2
  BY <1>1
<1>3. p < nP <=> p # nP
  BY <1>1
<1>4. \A m : PartyZeros(p, m) = DealerZeros(p, m)
  BY <1>2 DEF PartyZeros, DealerZeros
<1>5. (IF p = nP THEN NumMults ELSE 2 * NumMults) = (IF p < nP THEN 2 * NumMults ELSE NumMults)
  BY <1>3
<1> QED
  BY <1>4, <1>5 DEF PartyDraws, DealerDraws

(* What is drawn in a step is a sequence of draws.                         *)
LEMMA DrawsAreSeqs ==
  ASSUME NEW i, NEW s, NEW n
  PROVE  IsSeq(DealerDraws(s, i, n))
<1>1. \A w, m : IsSeq(<<Draw(w, m)>>) /\ IsSeq(<< >>)
  <2>1. ASSUME NEW w, NEW m PROVE IsSeq(<<Draw(w, m)>>)
    <3> DEFINE x == Draw(w, m)
    <3> HIDE DEF x
    <3>1. <<x>> \in Seq({x})
      OBVIOUS
    <3> QED
      BY <3>1 DEF IsSeq, x
  <2>2. << >> \in Seq({})
    OBVIOUS
  <2> QED
    BY <2>1, <2>2 DEF IsSeq
<1>2. IsSeq(NonceDraw) /\ IsSeq(<< >>)
  BY <1>1 DEF NonceDraw
<1>3. \A m : IsSeq(DealerZeros(i, m))
  BY <1>1 DEF DealerZeros
<1>4. \A m : IsSeq(DealerZeros(i, m) \o NonceDraw)
  BY <1>2, <1>3, Joined
<1>5. IsSeq(<<Draw("seed", 1)>> \o (IF Verifying(s) THEN NonceDraw ELSE << >>))
  BY <1>1, <1>2, Joined
<1> QED
  BY <1>1, <1>2, <1>4, <1>5 DEF DealerDraws

(* The script goes on from the setup to verify() and through its steps.    *)
LEMMA DrawSteps ==
  /\ \A n : AfterDraw("outputA", n) = "gates" /\ AfterDraw("gates", n) = "r_bits"
  /\ \A s \in VerifySteps : \A n : AfterDraw(s, n) = After(s, n)
  /\ \A s \in VerifySteps : \A n : AfterDraw(s, n) \in VerifySteps \cup {"verified"}
  /\ "verified" \notin Drawing /\ "outputA" \notin VerifySteps /\ "gates" \notin VerifySteps
  /\ "r_bits" \in VerifySteps /\ VerifySteps \subseteq Drawing
  /\ \A s \in {"outputA", "gates"} : s \in Drawing /\ ~Verifying(s) /\ ~Committed(s)
  /\ \A s \in Drawing \ {"outputA", "gates"} : s \in VerifySteps
<1>1. \A s \in VerifySteps : s \notin {"outputA", "gates", "verified"}
  BY DEF VerifySteps, PrgSteps, SumSteps, RevealSteps, AcceptSteps
<1>2. \A s \in VerifySteps : \A n : AfterDraw(s, n) = After(s, n)
  BY <1>1 DEF AfterDraw
<1>3. "r_bits" \in VerifySteps
  BY DEF VerifySteps, PrgSteps
<1>4. \A s \in {"outputA", "gates"} : ~Verifying(s) /\ ~Committed(s)
  BY Kinds DEF PrgSteps, RevealSteps
<1> QED
  BY <1>1, <1>2, <1>3, <1>4, AfterFacts DEF AfterDraw, Drawing

(* A step of the script, by its fields.                                    *)
LEMMA NextFields ==
  ASSUME NEW h, IsSeq(h.made), \A i \in Parties : IsSeq(h.tape[i])
  PROVE  /\ StepFrom(h).step = AfterDraw(h.step, SizeAfter(h.step, h.size))
         /\ StepFrom(h).size = SizeAfter(h.step, h.size)
         /\ StepFrom(h).tape = [i \in Parties |-> h.tape[i] \o DealerDraws(h.step, i, h.size)]
         /\ \A i \in Parties : /\ StepFrom(h).tape[i] = h.tape[i] \o DealerDraws(h.step, i, h.size)
                               /\ IsSeq(StepFrom(h).tape[i]) /\ Prefix(h.tape[i], StepFrom(h).tape[i])
         /\ StepFrom(h).hash = IF Verifying(h.step) THEN << >>
                               ELSE IF Committed(h.step) THEN Append(h.hash, Entry(h.step, 0))
                               ELSE h.hash
         /\ StepFrom(h).made = IF Verifying(h.step)
                               THEN Append(h.made, Append(h.hash, Entry(h.step, 0))) ELSE h.made
         /\ IsSeq(StepFrom(h).made) /\ Prefix(h.made, StepFrom(h).made)
<1>1. /\ StepFrom(h).step = AfterDraw(h.step, SizeAfter(h.step, h.size))
      /\ StepFrom(h).size = SizeAfter(h.step, h.size)
      /\ StepFrom(h).tape = [i \in Parties |-> h.tape[i] \o DealerDraws(h.step, i, h.size)]
      /\ StepFrom(h).hash = IF Verifying(h.step) THEN << >>
                            ELSE IF Committed(h.step) THEN Append(h.hash, Entry(h.step, 0))
                            ELSE h.hash
      /\ StepFrom(h).made = IF Verifying(h.step)
                            THEN Append(h.made, Append(h.hash, Entry(h.step, 0))) ELSE h.made
  BY DEF StepFrom
<1>2. ASSUME NEW i \in Parties
      PROVE  /\ StepFrom(h).tape[i] = h.tape[i] \o DealerDraws(h.step, i, h.size)
             /\ IsSeq(StepFrom(h).tape[i]) /\ Prefix(h.tape[i], StepFrom(h).tape[i])
  <2> DEFINE a == h.tape[i]
             b == DealerDraws(h.step, i, h.size)
  <2>1. StepFrom(h).tape[i] = a \o b
    BY <1>1
  <2>2. IsSeq(a) /\ IsSeq(b)
    BY DrawsAreSeqs
  <2> HIDE DEF a, b
  <2>3. IsSeq(a \o b) /\ Prefix(a, a \o b)
    BY <2>2, Joined
  <2> QED
    BY <2>1, <2>3 DEF a, b
<1>3. IsSeq(StepFrom(h).made) /\ Prefix(h.made, StepFrom(h).made)
  BY <1>1, Added, PrefixOrder
<1> QED
  BY <1>1, <1>2, <1>3

(* The script can go on for as long as there is something to draw.         *)
LEMMA Extend ==
  ASSUME NEW H, NEW n, Script(H, n), H[n].step \in Drawing
  PROVE  \E G : /\ Script(G, n + 1) /\ G[n + 1] = StepFrom(H[n])
                /\ \A k \in 1..n : G[k] = H[k]
<1> DEFINE G == [k \in 1..(n + 1) |-> IF k = n + 1 THEN StepFrom(H[n]) ELSE H[k]]
<1>1. n \in Nat /\ n >= 1
  BY DEF Script
<1>2. G[n + 1] = StepFrom(H[n]) /\ \A k \in 1..n : G[k] = H[k]
  BY <1>1
<1> HIDE DEF G
<1>3. /\ G[n + 1].step = AfterDraw(H[n].step, SizeAfter(H[n].step, H[n].size))
      /\ IsSeq(G[n + 1].made) /\ Prefix(H[n].made, G[n + 1].made)
      /\ \A i \in Parties : IsSeq(G[n + 1].tape[i]) /\ Prefix(H[n].tape[i], G[n + 1].tape[i])
      /\ ~Verifying(H[n].step) => G[n + 1].made = H[n].made
  <2>1. IsSeq(H[n].made) /\ \A i \in Parties : IsSeq(H[n].tape[i])
    BY <1>1 DEF Script
  <2> QED
    BY <1>2, <2>1, NextFields
<1>4. \A k \in 1..n : G[k].step \in Drawing /\ G[k + 1] = StepFrom(G[k])
  <2>1. ASSUME NEW k \in 1..n PROVE G[k].step \in Drawing /\ G[k + 1] = StepFrom(G[k])
    <3>1. CASE k = n
      BY <1>1, <1>2, <3>1
    <3>2. CASE k # n
      <4>1. k \in 1..(n - 1) /\ k + 1 \in 1..n
        BY <1>1, <3>2
      <4> QED
        BY <1>2, <4>1 DEF Script
    <3> QED
      BY <3>1, <3>2
  <2> QED
    BY <2>1
<1>5. G[n + 1].step \in StepsAt(n + 1) /\ (n + 1 <= 3 => G[n + 1].made = << >>)
  <2>1. H[n].step \in StepsAt(n) /\ (n <= 3 => H[n].made = << >>)
    BY <1>1 DEF Script
  <2>2. CASE n = 1
    BY <1>3, <2>1, <2>2, DrawSteps DEF StepsAt
  <2>3. CASE n = 2
    BY <1>3, <2>1, <2>3, DrawSteps DEF StepsAt
  <2>4. CASE n > 2
    <3>1. H[n].step \in VerifySteps
      BY <1>1, <2>1, <2>4, DrawSteps DEF StepsAt
    <3> QED
      BY <1>1, <1>3, <2>4, <3>1, DrawSteps DEF StepsAt
  <2> QED
    BY <1>1, <2>2, <2>3, <2>4
<1>6. ASSUME NEW k \in 1..(n + 1)
      PROVE  /\ G[k].step \in StepsAt(k) /\ (k <= 3 => G[k].made = << >>)
             /\ IsSeq(G[k].made) /\ \A i \in Parties : IsSeq(G[k].tape[i])
  <2>1. CASE k = n + 1
    BY <1>3, <1>5, <2>1
  <2>2. CASE k # n + 1
    <3>1. k \in 1..n
      BY <1>1, <2>2
    <3> QED
      BY <1>2, <3>1 DEF Script
  <2> QED
    BY <2>1, <2>2
<1>7. ASSUME NEW j \in 1..(n + 1), NEW k \in 1..(n + 1), j <= k
      PROVE  /\ Prefix(G[j].made, G[k].made)
             /\ \A i \in Parties : Prefix(G[j].tape[i], G[k].tape[i])
  <2>1. CASE k # n + 1
    <3>1. k \in 1..n /\ j \in 1..n
      BY <1>1, <1>7, <2>1
    <3> QED
      BY <1>2, <1>7, <3>1 DEF Script
  <2>2. CASE j = n + 1
    <3>1. k = j
      BY <1>1, <1>7, <2>2
    <3> QED
      BY <1>6, <3>1, PrefixOrder
  <2>3. CASE k = n + 1 /\ j # n + 1
    <3>1. j \in 1..n /\ n \in 1..n /\ j <= n
      BY <1>1, <2>3
    <3>2. Prefix(H[j].made, H[n].made) /\ \A i \in Parties : Prefix(H[j].tape[i], H[n].tape[i])
      BY <3>1 DEF Script
    <3>3. /\ IsSeq(H[j].made) /\ IsSeq(H[n].made)
          /\ \A i \in Parties : IsSeq(H[j].tape[i]) /\ IsSeq(H[n].tape[i])
      BY <3>1 DEF Script
    <3> QED
      BY <1>2, <1>3, <2>3, <3>1, <3>2, <3>3, PrefixOrder
  <2> QED
    BY <2>1, <2>2, <2>3
<1>8. Script(G, n + 1)
  <2>1. n + 1 \in Nat /\ n + 1 >= 1 /\ (n + 1) - 1 = n /\ G[1] = Start
    BY <1>1, <1>2 DEF Script
  <2> QED
    BY <1>4, <1>6, <1>7, <2>1 DEF Script
<1> QED
  BY <1>2, <1>8

(* The script up to the beginning of verify() is there from the start.     *)
LEMMA Scripted == \E H : Script(H, 3)
<1> DEFINE F == [k \in 1..1 |-> Start]
<1>1. F[1] = Start
  OBVIOUS
<1> HIDE DEF F
<1>2. /\ Start.step = "outputA" /\ Start.made = << >>
      /\ \A i \in Parties : Start.tape[i] = << >>
  BY DEF Start
<1>3. IsSeq(<< >>)
  <2>1. << >> \in Seq({})
    OBVIOUS
  <2> QED
    BY <2>1 DEF IsSeq
<1>4. Script(F, 1)
  <2>1. 1..1 = {1} /\ 1..(1 - 1) = {}
    OBVIOUS
  <2> QED
    BY <1>1, <1>2, <1>3, <2>1, PrefixOrder DEF Script, StepsAt
<1>5. PICK G : Script(G, 2) /\ G[2] = StepFrom(F[1])
  <2>1. F[1].step \in Drawing /\ 1 + 1 = 2
    BY <1>1, <1>2 DEF Drawing
  <2> QED
    BY <1>4, <2>1, Extend
<1>6. G[2].step \in Drawing
  <2>1. 2 \in 1..2
    OBVIOUS
  <2> QED
    BY <1>5, <2>1 DEF Script, StepsAt, Drawing
<1>7. 2 + 1 = 3
  OBVIOUS
<1> QED
  BY <1>5, <1>6, <1>7, Extend

(* What the dealer leaves alone in a party.                                *)
Untouched(p) ==
  /\ pc'[p] = pc[p] /\ waiting'[p] = waiting[p] /\ drawn'[p] = drawn[p] /\ size'[p] = size[p]
  /\ openHash'[p] = openHash[p] /\ commits'[p] = commits[p]

(* The dealer leaves every party alone, and makes no fault.                *)
LEMMA DealerUntouched ==
  ASSUME FlowType, MailInv, Dealer, NEW p \in Parties
  PROVE  Untouched(p) /\ faults' = faults /\ drawn' = drawn
<1>1. pc'[p] = pc[p] /\ waiting'[p] = waiting[p] /\ p \in Procs /\ p # 0
  BY DealerGoto, ProcFacts
<1>2. drawn' = drawn /\ faults' = faults
  BY DEF Dealer, DealerLocal, DealerVerify, SendCommits, SendRandomizers, SendOutputRandomizers,
         SendOutputCommit, streams
<1>3. size'[p] = size[p] /\ openHash'[p] = openHash[p] /\ commits'[p] = commits[p]
  <2>1. DOMAIN size = Procs /\ DOMAIN openHash = Procs /\ DOMAIN commits = Procs
    BY DEF FlowType, MailInv, DealerInv
  <2>2. CASE DealerVerify
    BY <1>1, <2>1, <2>2 DEF DealerVerify
  <2>3. CASE SendCommits
    BY <1>1, <2>1, <2>3 DEF SendCommits
  <2>4. CASE DealerLocal \/ SendRandomizers \/ SendOutputRandomizers \/ SendOutputCommit
    BY <2>4 DEF DealerLocal, SendRandomizers, SendOutputRandomizers, SendOutputCommit, checks
  <2> QED
    BY <2>2, <2>3, <2>4 DEF Dealer
<1> QED
  BY <1>1, <1>2, <1>3 DEF Untouched

(* A party that is left alone stays where it is in the script.             *)
LEMMA KeepParty ==
  ASSUME NEW H, NEW n, NEW p \in Parties, PartyAt(H, n, p), Untouched(p), faults' = 0 => faults = 0
  PROVE  PartyAt(H, n, p)'
<1>1. \A j : Drawn(p, H, j)' = Drawn(p, H, j)
  BY DEF Drawn, Untouched
<1> QED
  BY <1>1 DEF PartyAt, Place, Untouched

(* ... also when the script grows.                                         *)
LEMMA PartyGrows ==
  ASSUME NEW H, NEW n \in Nat, NEW G, NEW p \in Parties, PartyAt(H, n, p), H[n].step \in Drawing,
         \A k \in 1..n : G[k] = H[k]
  PROVE  PartyAt(G, n + 1, p)
<1>1. pc[p] \in NoCommits /\ pc[p] # "aborted" /\ pc[p] \notin VerifySteps
  BY DrawSteps DEF PartyAt, NoCommits, VerifySteps, PrgSteps, SumSteps, RevealSteps, AcceptSteps
<1>2. PICK j \in 1..n : Place(H, n, p, j)
  BY DEF PartyAt
<1>3. G[j] = H[j] /\ j \in 1..(n + 1)
  OBVIOUS
<1>4. drawn[p] = Drawn(p, G, j)
  BY <1>1, <1>2, <1>3 DEF Place, Drawn
<1> QED
  BY <1>1, <1>2, <1>3, <1>4 DEF PartyAt, Place

(* The dealer's own steps of the setup and of verify() are the script's.   *)
LEMMA DealerWrites ==
  ASSUME FlowType, MailInv, DealerLocal \/ DealerVerify, NEW h,
         h.step = pc[0], h.size = size[0], h.tape = dealt, h.hash = openHash[0],
         h.made = commits[0]
  PROVE  /\ pc[0] \in Drawing /\ pc'[0] \in Drawing \cup {"verified"}
         /\ pc[0] \in VerifySteps <=> DealerVerify
         /\ StepFrom(h).step = pc'[0] /\ StepFrom(h).size = size'[0]
         /\ StepFrom(h).tape = dealt' /\ StepFrom(h).hash = openHash'[0]
         /\ StepFrom(h).made = commits'[0]
         /\ \A q \in Parties : \A i \in DOMAIN log'[0][q] : log'[0][q][i].kind = "commits" =>
              i \in DOMAIN log[0][q] /\ log'[0][q][i] = log[0][q][i]
<1> DEFINE s == pc[0]
           n == SizeAfter(s, size[0])
<1>1. /\ 0 \in Procs /\ DOMAIN pc = Procs /\ DOMAIN size = Procs /\ DOMAIN openHash = Procs
      /\ DOMAIN commits = Procs /\ NetType
  BY ProcFacts DEF FlowType, MailInv, DealerInv
<1>2. CASE DealerLocal
  <2>1. s \in {"outputA", "gates"} /\ n = size[0] /\ s \in Drawing /\ s \notin VerifySteps
    BY <1>2, DrawSteps DEF DealerLocal, SizeAfter
  <2>2. pc'[0] = AfterDraw(s, n) /\ pc'[0] \in Drawing
    BY <1>1, <1>2, <2>1, DrawSteps DEF DealerLocal, Goto
  <2>3. size' = size /\ openHash' = openHash /\ commits' = commits
        /\ dealt' = [i \in Parties |-> dealt[i] \o DealerDraws(s, i, size[0])]
    BY <1>2 DEF DealerLocal, DealerDrawing, checks
  <2>4. ~Verifying(s) /\ ~Committed(s)
    BY <2>1, DrawSteps
  <2>5. ~DealerVerify
    BY <2>1 DEF DealerVerify
  <2>6. ASSUME NEW q \in Parties, NEW i \in DOMAIN log'[0][q], log'[0][q][i].kind = "commits"
        PROVE  i \in DOMAIN log[0][q] /\ log'[0][q][i] = log[0][q][i]
    <3>1. CASE s = "outputA"
      BY <1>2, <2>6, <3>1 DEF DealerLocal, netVars
    <3>2. CASE s = "gates"
      <4> DEFINE msgs == [r \in {nP} |-> [kind |-> "gamma"]]
      <4>1. msgs \in [{nP} -> Mail] /\ msgs[nP].kind = "gamma" /\ Send(0, msgs) /\ {nP} \in SUBSET Parties
        BY <1>2, <3>2, ProcFacts DEF Mail, DealerLocal
      <4> HIDE DEF msgs
      <4>2. /\ log'[0][nP] = Append(log[0][nP], msgs[nP])
            /\ \A r \in Parties \ {nP} : log'[0][r] = log[0][r]
        BY <1>1, <4>1, SendFacts
      <4>3. log[0][nP] \in Seq(Mail)
        BY <1>1, ProcFacts DEF NetType
      <4>4. q = nP => i \in 1..(Len(log[0][nP]) + 1) /\ Len(log[0][nP]) \in Nat
                      /\ log'[0][nP][Len(log[0][nP]) + 1] = msgs[nP]
        BY <2>6, <4>2, <4>3, Longer
      <4>5. q = nP => i # Len(log[0][nP]) + 1
        BY <2>6, <4>1, <4>4
      <4> QED
        BY <2>6, <4>2, <4>3, <4>4, <4>5, Longer
    <3> QED
      BY <2>1, <3>1, <3>2
  <2> QED
    BY <1>2, <2>1, <2>2, <2>3, <2>4, <2>5, <2>6 DEF StepFrom
<1>3. CASE DealerVerify
  <2>1. s \in VerifySteps /\ s \in Drawing /\ pc'[0] = AfterDraw(s, n) /\ size'[0] = n
    BY <1>1, <1>3, DrawSteps DEF DealerVerify, Goto
  <2>2. pc'[0] \in Drawing \cup {"verified"}
    BY <2>1, DrawSteps
  <2>3. /\ dealt' = [i \in Parties |-> dealt[i] \o DealerDraws(s, i, size[0])]
        /\ openHash'[0] = IF Verifying(s) THEN << >>
                          ELSE IF Committed(s) THEN Append(openHash[0], Entry(s, 0)) ELSE openHash[0]
        /\ commits'[0] = IF Verifying(s) THEN Append(commits[0], Append(openHash[0], Entry(s, 0)))
                         ELSE commits[0]
        /\ log' = log
    BY <1>1, <1>3 DEF DealerVerify, DealerDrawing, Committed, netVars
  <2> QED
    BY <1>3, <2>1, <2>2, <2>3 DEF StepFrom
<1> QED
  BY <1>2, <1>3

(* The dealer keeps to the script, or writes its next step.                *)
LEMMA DealerStreams ==
  ASSUME FlowType, MailInv, StreamInv, Dealer
  PROVE  StreamInv'
<1>1. PICK H, n : Follows(H, n)
  BY DEF StreamInv
<1>2. n \in Nat /\ n >= 3 /\ Script(H, n) /\ DealerAt(H, n) /\ \A p \in Parties : PartyAt(H, n, p)
  BY <1>1 DEF Follows, Script
<1>3. faults' = faults /\ drawn' = drawn /\ \A p \in Parties : Untouched(p)
  BY DealerUntouched, ProcFacts
<1>4. DOMAIN drawn' = Parties /\ faults' \in Nat
  BY <1>3 DEF StreamInv
<1>5. \A p \in Parties : PartyAt(H, n, p)'
  BY <1>2, <1>3, KeepParty
<1>6. CASE DealerLocal \/ DealerVerify
  <2>1. pc[0] \in Drawing
    BY <1>6, DrawSteps DEF DealerLocal, DealerVerify
  <2>2. PICK d \in 1..n :
          /\ d = n \/ (d < 3 /\ n = 3)
          /\ H[d].step = pc[0] /\ H[d].size = size[0] /\ H[d].tape = dealt
          /\ H[d].hash = openHash[0] /\ H[d].made = commits[0]
    BY <1>2, <2>1 DEF DealerAt
  <2> DEFINE g == StepFrom(H[d])
  <2>3. /\ pc'[0] \in Drawing \cup {"verified"}
        /\ g.step = pc'[0] /\ g.size = size'[0] /\ g.tape = dealt' /\ g.hash = openHash'[0]
        /\ g.made = commits'[0]
        /\ \A q \in Parties : \A i \in DOMAIN log'[0][q] : log'[0][q][i].kind = "commits" =>
             i \in DOMAIN log[0][q] /\ log'[0][q][i] = log[0][q][i]
    BY <1>6, <2>2, DealerWrites
  <2> HIDE DEF g
  <2>4. CASE d = n
    <3>1. PICK G : Script(G, n + 1) /\ G[n + 1] = g /\ \A k \in 1..n : G[k] = H[k]
      BY <1>2, <2>1, <2>2, <2>4, Extend DEF g
    <3>2. ASSUME NEW p \in Parties PROVE PartyAt(G, n + 1, p)'
      <4>1. PartyAt(G, n + 1, p)
        BY <1>2, <2>1, <2>2, <2>4, <3>1, PartyGrows
      <4> QED
        BY <1>3, <4>1, KeepParty
    <3>3. \A q \in Parties : \A i \in DOMAIN log[0][q] : log[0][q][i].kind # "commits"
      BY <1>2, <2>1, <2>2, <2>4, DrawSteps DEF DealerAt
    <3>4. DealerAt(G, n + 1)'
      <4>1. n + 1 \in 1..(n + 1)
        BY <1>2
      <4>2. \A q \in Parties : \A i \in DOMAIN log'[0][q] : log'[0][q][i].kind # "commits"
        BY <2>3, <3>3
      <4> QED
        BY <2>3, <3>1, <4>1, <4>2 DEF DealerAt
    <3>5. Follows(G, n + 1)'
      BY <1>2, <3>1, <3>2, <3>4 DEF Follows
    <3> QED
      BY <1>4, <3>5 DEF StreamInv
  <2>5. CASE d < 3 /\ n = 3
    <3>1. d + 1 \in 1..n /\ d \in 1..(n - 1) /\ (d + 1 = n \/ (d + 1 < 3 /\ n = 3))
      BY <2>5
    <3>2. H[d + 1] = g
      BY <1>2, <3>1 DEF Script, g
    <3>3. DealerAt(H, n)'
      BY <1>2, <2>3, <3>1, <3>2 DEF DealerAt
    <3>4. Follows(H, n)'
      BY <1>2, <1>5, <3>3 DEF Follows
    <3> QED
      BY <1>4, <3>4 DEF StreamInv
  <2> QED
    BY <2>2, <2>4, <2>5
<1>7. CASE SendCommits
  <2> DEFINE m == [kind |-> "commits", digests |-> commits[0]]
             msgs == [q \in Parties |-> m]
  <2>1. /\ pc[0] = "verified" /\ pc'[0] = "sendRandomizers" /\ dealt' = dealt /\ Send(0, msgs)
    BY <1>7, ProcFacts DEF SendCommits, Goto, FlowType, streams
  <2>2. "sendRandomizers" \notin Drawing \cup {"verified"}
    BY DEF Drawing, VerifySteps, PrgSteps, SumSteps, RevealSteps, AcceptSteps
  <2>3. PICK d \in 1..n :
          /\ d = n \/ (d < 3 /\ n = 3)
          /\ H[d].step = "verified" /\ H[d].tape = dealt /\ H[d].made = commits[0]
    BY <1>2, <2>1 DEF DealerAt
  <2>4. d = n
    <3>1. d < 3 => d = 1 \/ d = 2
      OBVIOUS
    <3>2. H[d].step \in StepsAt(d)
      BY <1>2 DEF Script
    <3> QED
      BY <2>3, <3>1, <3>2 DEF StepsAt
  <2>5. m \in Mail /\ m.kind = "commits" /\ m.digests = commits[0]
    <3>1. commits[0] \in Seq(Commitments) /\ Len(commits[0]) = 3
      BY <2>1 DEF MailInv, DealerInv, NumCommits
    <3> QED
      BY <3>1 DEF Mail
  <2>6. msgs \in [Parties -> Mail] /\ \A q \in Parties : msgs[q] = m
    BY <2>5
  <2> HIDE DEF m, msgs
  <2>7. \A q \in Parties : log'[0][q] = Append(log[0][q], m) /\ log[0][q] \in Seq(Mail)
    <3>1. NetType /\ Parties \in SUBSET Parties /\ \A q \in Parties : log[0][q] \in Seq(Mail)
      BY ProcFacts DEF MailInv, NetType
    <3>2. \A q \in Parties : log'[0][q] = Append(log[0][q], msgs[q])
      BY <2>1, <2>6, <3>1, SendFacts
    <3> QED
      BY <2>6, <3>1, <3>2
  <2>8. ASSUME NEW q \in Parties, NEW i \in DOMAIN log'[0][q], log'[0][q][i].kind = "commits"
        PROVE  log'[0][q][i].digests = H[n].made
    <3>1. i \in 1..(Len(log[0][q]) + 1) /\ Len(log[0][q]) \in Nat /\ DOMAIN log[0][q] = 1..Len(log[0][q])
      BY <2>7, <2>8, Longer
    <3>2. CASE i = Len(log[0][q]) + 1
      BY <2>3, <2>4, <2>5, <2>7, <3>2, Longer
    <3>3. CASE i # Len(log[0][q]) + 1
      <4>1. i \in DOMAIN log[0][q]
        BY <3>1, <3>3
      <4>2. log'[0][q][i] = log[0][q][i]
        BY <2>7, <4>1, Longer
      <4> QED
        BY <1>2, <2>8, <4>1, <4>2 DEF DealerAt
    <3> QED
      BY <3>2, <3>3
  <2>9. DealerAt(H, n)'
    BY <2>1, <2>2, <2>3, <2>4, <2>8 DEF DealerAt
  <2>10. Follows(H, n)'
    BY <1>2, <1>5, <2>9 DEF Follows
  <2> QED
    BY <1>4, <2>10 DEF StreamInv
<1>8. CASE SendRandomizers \/ SendOutputRandomizers \/ SendOutputCommit
  <2>1. PICK D \in SUBSET Parties, m \in Mail :
          /\ Send(0, [q \in D |-> m]) /\ m.kind # "commits"
    <3>1. CASE SendRandomizers
      <4>1. [kind |-> "randomizers"] \in Mail /\ {1} \in SUBSET Parties
        BY ProcFacts DEF Mail
      <4> QED
        BY <3>1, <4>1 DEF SendRandomizers
    <3>2. CASE SendOutputRandomizers
      <4>1. [kind |-> "outputRandomizers"] \in Mail /\ {1} \in SUBSET Parties
        BY ProcFacts DEF Mail
      <4> QED
        BY <3>2, <4>1 DEF SendOutputRandomizers
    <3>3. CASE SendOutputCommit
      <4> DEFINE x == [kind |-> "outputCommit", digest |-> <<Entry("outputs", 0)>>]
      <4>1. x \in Mail /\ x.kind # "commits" /\ Parties \in SUBSET Parties
        BY DEF Mail, OutputCommitment
      <4>2. Send(0, [q \in Parties |-> x])
        BY <3>3 DEF SendOutputCommit
      <4> HIDE DEF x
      <4> QED
        BY <4>1, <4>2
    <3> QED
      BY <1>8, <3>1, <3>2, <3>3
  <2>2. /\ pc[0] \in {"sendRandomizers", "outputB", "sendOutputCommit"}
        /\ pc'[0] \in {"outputB", "sendOutputCommit", "done"} /\ dealt' = dealt
    BY <1>8, ProcFacts DEF SendRandomizers, SendOutputRandomizers, SendOutputCommit, Goto, FlowType, streams
  <2>3. \A s \in {"sendRandomizers", "outputB", "sendOutputCommit", "done"} :
          s \notin Drawing \cup {"verified"}
    BY DEF Drawing, VerifySteps, PrgSteps, SumSteps, RevealSteps, AcceptSteps
  <2> DEFINE msgs == [q \in D |-> m]
  <2>4. msgs \in [D -> Mail] /\ Send(0, msgs) /\ \A q \in D : msgs[q] = m
    BY <2>1
  <2> HIDE DEF msgs
  <2>5. /\ \A q \in D : log'[0][q] = Append(log[0][q], m)
        /\ \A q \in Parties \ D : log'[0][q] = log[0][q]
        /\ \A q \in Parties : log[0][q] \in Seq(Mail)
    <3>1. NetType /\ \A q \in Parties : log[0][q] \in Seq(Mail)
      BY ProcFacts DEF MailInv, NetType
    <3>2. /\ \A q \in D : log'[0][q] = Append(log[0][q], msgs[q])
          /\ \A q \in Parties \ D : log'[0][q] = log[0][q]
      BY <2>4, <3>1, SendFacts
    <3> QED
      BY <2>4, <3>1, <3>2
  <2>6. ASSUME NEW q \in Parties, NEW i \in DOMAIN log'[0][q], log'[0][q][i].kind = "commits"
        PROVE  i \in DOMAIN log[0][q] /\ log'[0][q][i] = log[0][q][i]
    <3>1. CASE q \in D
      <4>1. /\ DOMAIN log'[0][q] = 1..(Len(log[0][q]) + 1) /\ Len(log[0][q]) \in Nat
            /\ DOMAIN log[0][q] = 1..Len(log[0][q]) /\ log'[0][q][Len(log[0][q]) + 1] = m
            /\ \A k \in DOMAIN log[0][q] : log'[0][q][k] = log[0][q][k]
        BY <2>5, <3>1, Longer
      <4>2. i # Len(log[0][q]) + 1
        BY <2>1, <2>6, <4>1
      <4> QED
        BY <2>6, <4>1, <4>2
    <3>2. CASE q \notin D
      BY <2>5, <2>6, <3>2
    <3> QED
      BY <3>1, <3>2
  <2>7. DealerAt(H, n)'
    BY <1>2, <2>2, <2>3, <2>6 DEF DealerAt
  <2>8. Follows(H, n)'
    BY <1>2, <1>5, <2>7 DEF Follows
  <2> QED
    BY <1>4, <2>8 DEF StreamInv
<1> QED
  BY <1>6, <1>7, <1>8 DEF Dealer

(* A step of the script, as a party takes it.                              *)
Advances(H, j, p) ==
  /\ H[j].step \in Drawing
  /\ H[j + 1].step = AfterDraw(H[j].step, SizeAfter(H[j].step, H[j].size))
  /\ H[j + 1].size = SizeAfter(H[j].step, H[j].size)
  /\ H[j + 1].tape[p] = H[j].tape[p] \o PartyDraws(H[j].step, p, H[j].size)
  /\ H[j + 1].hash = IF Verifying(H[j].step) THEN << >>
                     ELSE IF Committed(H[j].step) THEN Append(H[j].hash, Entry(H[j].step, 0))
                     ELSE H[j].hash
  /\ ~Verifying(H[j].step) => H[j + 1].made = H[j].made
  /\ Verifying(H[j].step) =>
       H[j + 1].made = Append(H[j].made, Append(H[j].hash, Entry(H[j].step, 0)))

(* Every step but the last is followed by the next one.                    *)
LEMMA NextOfScript ==
  ASSUME NEW H, NEW n, Script(H, n), NEW j \in 1..n, j # n, NEW p \in Parties
  PROVE  j + 1 \in 1..n /\ Advances(H, j, p)
<1>1. n \in Nat /\ j \in 1..(n - 1) /\ j + 1 \in 1..n
  BY DEF Script
<1>2. H[j + 1] = StepFrom(H[j]) /\ H[j].step \in Drawing
  BY <1>1 DEF Script
<1>3. IsSeq(H[j].made) /\ \A i \in Parties : IsSeq(H[j].tape[i])
  BY DEF Script
<1>4. /\ H[j + 1].step = AfterDraw(H[j].step, SizeAfter(H[j].step, H[j].size))
      /\ H[j + 1].size = SizeAfter(H[j].step, H[j].size)
      /\ H[j + 1].tape[p] = H[j].tape[p] \o DealerDraws(H[j].step, p, H[j].size)
      /\ H[j + 1].hash = IF Verifying(H[j].step) THEN << >>
                         ELSE IF Committed(H[j].step) THEN Append(H[j].hash, Entry(H[j].step, 0))
                         ELSE H[j].hash
      /\ H[j + 1].made = IF Verifying(H[j].step)
                         THEN Append(H[j].made, Append(H[j].hash, Entry(H[j].step, 0))) ELSE H[j].made
  <2> DEFINE h == H[j]
  <2>1. IsSeq(h.made) /\ (\A i \in Parties : IsSeq(h.tape[i])) /\ H[j + 1] = StepFrom(h)
    BY <1>2, <1>3
  <2> HIDE DEF h
  <2>2. /\ StepFrom(h).step = AfterDraw(h.step, SizeAfter(h.step, h.size))
        /\ StepFrom(h).size = SizeAfter(h.step, h.size)
        /\ StepFrom(h).tape[p] = h.tape[p] \o DealerDraws(h.step, p, h.size)
        /\ StepFrom(h).hash = IF Verifying(h.step) THEN << >>
                              ELSE IF Committed(h.step) THEN Append(h.hash, Entry(h.step, 0))
                              ELSE h.hash
        /\ StepFrom(h).made = IF Verifying(h.step)
                              THEN Append(h.made, Append(h.hash, Entry(h.step, 0))) ELSE h.made
    BY <2>1, NextFields
  <2> QED
    BY <2>1, <2>2 DEF h
<1> QED
  BY <1>1, <1>2, <1>4, SameDraws DEF Advances

(* The steps of a party, as the script sees them.                          *)
LEMMA Places ==
  /\ \A s \in VerifySteps : PlaceOf(s) = s /\ s \notin NoCommits /\ s # "verified" /\ s # "aborted"
  /\ \A s \in RoundSteps : s \notin NoCommits /\ s # "aborted"
  /\ \A p : \A s \in RoundSteps \ VerifySteps :
       /\ AfterRound(p, s) \notin NoCommits /\ AfterRound(p, s) # "aborted"
       /\ PlaceOf(AfterRound(p, s)) = PlaceOf(s)
       /\ ~Verifying(s) /\ ~Committed(s) /\ \A m : SizeAfter(s, m) = m
  /\ \A p : \A s \in RoundSteps \cap VerifySteps :
       /\ AfterRound(p, s) \notin NoCommits /\ AfterRound(p, s) # "aborted"
       /\ PlaceOf(AfterRound(p, s)) = AfterDraw(s, SizeAfter(s, size[p]))
  /\ \A s \in DOMAIN Expected : PlaceOf(s) = "r_bits" /\ s \notin VerifySteps /\ s # "aborted"
  /\ "aborted" \notin NoCommits /\ "y_0" \in VerifySteps /\ "y_0" \notin RoundSteps
  /\ "aborted" \notin VerifySteps
<1>1. /\ \A s \in VerifySteps : s \notin NoCommits /\ s # "verified" /\ s # "aborted"
                                /\ s \notin {"outputs", "acceptOutputs", "done"}
      /\ "y_0" \in VerifySteps
  BY DEF VerifySteps, NoCommits, PrgSteps, SumSteps, RevealSteps, AcceptSteps
<1>2. \A s \in VerifySteps : PlaceOf(s) = s
  BY DEF PlaceOf, Drawing
<1>3. \A s \in RoundSteps : s \notin NoCommits /\ s # "aborted" /\ s # "y_0"
  BY DEF RoundSteps, Openings, Accepts, OneBit, AcceptSteps, NoCommits, PrgSteps, SumSteps, RevealSteps
<1>4. \A s \in {"inputs", "inputDigest", "acceptInputs", "online", "outputs", "acceptOutputs", "done"} :
        /\ s \notin VerifySteps /\ s \notin Drawing /\ s \notin NoCommits
        /\ PlaceOf(s) = IF s \in {"outputs", "acceptOutputs", "done"} THEN "verified" ELSE "r_bits"
  BY DEF VerifySteps, Drawing, PlaceOf, NoCommits, PrgSteps, SumSteps, RevealSteps, AcceptSteps
<1>5. \A s \in RoundSteps \ VerifySteps :
        s \in {"inputs", "inputDigest", "acceptInputs", "online", "outputs", "acceptOutputs"}
  BY DEF RoundSteps, VerifySteps, Openings, Accepts, OneBit
<1>6. ASSUME NEW p, NEW s \in RoundSteps \ VerifySteps
      PROVE  /\ AfterRound(p, s) \notin NoCommits /\ AfterRound(p, s) # "aborted"
             /\ PlaceOf(AfterRound(p, s)) = PlaceOf(s)
             /\ ~Verifying(s) /\ ~Committed(s) /\ \A m : SizeAfter(s, m) = m
  <2>1. s \in {"inputs", "inputDigest", "acceptInputs", "online", "outputs", "acceptOutputs"}
    BY <1>5
  <2>2. AfterRound(p, s) =
          CASE s = "inputs" -> "inputDigest" [] s = "inputDigest" -> "acceptInputs"
            [] s = "acceptInputs" -> "online" [] s = "outputs" -> "acceptOutputs"
            [] s = "acceptOutputs" -> "done"
            [] s = "online" -> IF LastLevel(level[p]) THEN "r_bits" ELSE "online"
    BY <2>1 DEF AfterRound
  <2>3. "r_bits" \in VerifySteps /\ PlaceOf("r_bits") = "r_bits"
    BY <1>2, DrawSteps
  <2>4. ~Verifying(s) /\ ~Committed(s)
    BY <2>1, Kinds DEF PrgSteps, RevealSteps
  <2>5. \A m : SizeAfter(s, m) = m
    BY <2>1 DEF SizeAfter
  <2> QED
    BY <1>1, <1>4, <2>1, <2>2, <2>3, <2>4, <2>5
<1>7. ASSUME NEW p, NEW s \in RoundSteps \cap VerifySteps
      PROVE  /\ AfterRound(p, s) \notin NoCommits /\ AfterRound(p, s) # "aborted"
             /\ PlaceOf(AfterRound(p, s)) = AfterDraw(s, SizeAfter(s, size[p]))
  <2>1. AfterDraw(s, SizeAfter(s, size[p])) = After(s, SizeAfter(s, size[p]))
    BY DrawSteps
  <2>2. CASE s = "accept3"
    <3>1. AfterRound(p, s) = "outputs" /\ After(s, SizeAfter(s, size[p])) = "verified"
      BY <2>2, Order DEF After
    <3> QED
      BY <1>4, <2>1, <3>1
  <2>3. CASE s # "accept3"
    <3>1. AfterRound(p, s) = After(s, SizeAfter(s, size[p]))
      BY <1>4, <2>3 DEF AfterRound
    <3>2. After(s, SizeAfter(s, size[p])) \in VerifySteps
      BY <1>1, <2>3, AfterFacts
    <3> QED
      BY <1>1, <1>2, <2>1, <3>1, <3>2
  <2> QED
    BY <2>2, <2>3
<1>8. \A s \in DOMAIN Expected : PlaceOf(s) = "r_bits" /\ s \notin VerifySteps /\ s # "aborted"
  BY DEF Expected, PlaceOf, Drawing, VerifySteps, PrgSteps, SumSteps, RevealSteps, AcceptSteps
<1>9. "aborted" \notin NoCommits /\ "aborted" \notin VerifySteps
  BY DEF NoCommits, VerifySteps, PrgSteps, SumSteps, RevealSteps, AcceptSteps
<1> QED
  BY <1>1, <1>2, <1>3, <1>6, <1>7, <1>8, <1>9

(* What a party leaves alone in the dealer and in the others.              *)
LEMMA PartyUntouched ==
  ASSUME FlowType, MailInv, DOMAIN drawn = Parties, faults \in Nat, NEW p \in Parties, Party(p)
  PROVE  /\ pc'[0] = pc[0] /\ size'[0] = size[0] /\ dealt' = dealt /\ openHash'[0] = openHash[0]
         /\ commits'[0] = commits[0] /\ log' = log
         /\ DOMAIN drawn' = Parties /\ faults' \in Nat /\ (faults' = 0 => faults = 0)
         /\ \A q \in Parties : q # p => Untouched(q)
<1>1. /\ p \in Procs /\ p # 0 /\ 0 \in Procs /\ \A q \in Parties : q \in Procs
      /\ DOMAIN pc = Procs /\ DOMAIN waiting = Procs /\ DOMAIN size = Procs
      /\ DOMAIN openHash = Procs /\ DOMAIN commits = Procs
  BY ProcFacts DEF FlowType, MailInv, DealerInv
<1>2. CASE PartyOutputA(p) \/ PartyGates(p) \/ DrawY0(p)
  <2>1. /\ UNCHANGED <<size, dealt, faults, openHash, commits, log>>
        /\ (\E s : Goto(p, s)) /\ (\E t : PartyDrawing(p, t))
    BY <1>2 DEF PartyOutputA, PartyGates, DrawY0, checks, netVars
  <2> QED
    BY <1>1, <2>1 DEF Goto, PartyDrawing, Untouched
<1>3. CASE ReadMail(p)
  <2>1. /\ UNCHANGED <<size, dealt, drawn, faults, openHash, log>> /\ \E s : Goto(p, s)
        /\ \A q \in Procs : q # p => commits'[q] = commits[q]
    BY <1>1, <1>3 DEF ReadMail, streams, Consume
  <2> QED
    BY <1>1, <2>1 DEF Goto, Untouched
<1>4. CASE Contribute(p)
  <2>1. /\ UNCHANGED <<pc, size, dealt, faults, openHash, commits, log>>
        /\ waiting' = [waiting EXCEPT ![p] = TRUE]
        /\ PartyDrawing(p, pc[p]) \/ UNCHANGED drawn
    BY <1>4 DEF Contribute, checks, netVars
  <2> QED
    BY <1>1, <2>1 DEF PartyDrawing, Untouched
<1>5. CASE \E v \in {0, 1} : SeeOpening(p, v)
  <2>1. PICK v \in {0, 1} : SeeOpening(p, v)
    BY <1>5
  <2>2. /\ UNCHANGED <<dealt, drawn, log>> /\ Goto(p, AfterRound(p, pc[p]))
        /\ \A q \in Procs : q # p => openHash'[q] = openHash[q]
    BY <1>1, <2>1 DEF SeeOpening, streams, netVars
  <2>3. \A q \in Procs : q # p => commits'[q] = commits[q] /\ size'[q] = size[q]
    BY <1>1, <2>1 DEF SeeOpening
  <2>4. faults' = faults + v
    BY <2>1 DEF SeeOpening
  <2>5. faults' \in Nat /\ (faults' = 0 => faults = 0)
    BY <2>4
  <2> QED
    BY <1>1, <2>2, <2>3, <2>5 DEF Goto, Untouched
<1>6. CASE ReadDigests(p) \/ CheckForAccept(p)
  <2>1. UNCHANGED <<size, dealt, drawn, faults, openHash, commits, log>> /\ \E s : Goto(p, s)
    BY <1>6 DEF ReadDigests, CheckForAccept, streams, checks, netVars
  <2> QED
    BY <1>1, <2>1 DEF Goto, Untouched
<1> QED
  BY <1>2, <1>3, <1>4, <1>5, <1>6 DEF Party

(* A party's step keeps to the script if the party itself does.            *)
LEMMA PartyMoves ==
  ASSUME FlowType, MailInv, DOMAIN drawn = Parties, faults \in Nat, NEW p \in Parties, Party(p),
         NEW H, NEW n, Follows(H, n), PartyAt(H, n, p)'
  PROVE  StreamInv'
<1>1. /\ pc'[0] = pc[0] /\ size'[0] = size[0] /\ dealt' = dealt /\ openHash'[0] = openHash[0]
      /\ commits'[0] = commits[0] /\ log' = log
      /\ DOMAIN drawn' = Parties /\ faults' \in Nat /\ (faults' = 0 => faults = 0)
      /\ \A q \in Parties : q # p => Untouched(q)
  BY PartyUntouched
<1>2. DealerAt(H, n)'
  BY <1>1 DEF DealerAt, Follows
<1>3. \A q \in Parties : PartyAt(H, n, q)'
  BY <1>1, KeepParty DEF Follows
<1>4. Follows(H, n)'
  BY <1>2, <1>3 DEF Follows
<1> QED
  BY <1>1, <1>4 DEF StreamInv

(* The setup of a party: the first two steps of the script.                *)
LEMMA SetupStreams ==
  ASSUME FlowType, MailInv, StreamInv, NEW p \in Parties, PartyOutputA(p) \/ PartyGates(p)
  PROVE  StreamInv'
<1>1. PICK H, n : Follows(H, n)
  BY DEF StreamInv
<1>2. n \in Nat /\ n >= 3 /\ Script(H, n) /\ PartyAt(H, n, p) /\ DOMAIN drawn = Parties /\ faults \in Nat
  BY <1>1 DEF Follows, Script, StreamInv
<1> DEFINE s == pc[p]
<1>3. /\ p \in Procs /\ DOMAIN pc = Procs /\ DOMAIN waiting = Procs
      /\ s \in {"outputA", "gates"} /\ s \in NoCommits /\ s \notin VerifySteps /\ s # "aborted"
      /\ PlaceOf(s) = s
  BY ProcFacts, DrawSteps DEF FlowType, PartyOutputA, PartyGates, NoCommits, PlaceOf
<1>4. PICK j \in 1..n : Place(H, n, p, j)
  BY <1>2 DEF PartyAt
<1>5. drawn[p] = H[j].tape[p] /\ H[j].step = s /\ H[j].size = size[p]
      /\ (faults = 0 => openHash[p] = H[j].hash)
  BY <1>3, <1>4 DEF Place, Drawn
<1>6. (s = "outputA" => j = 1) /\ (s = "gates" => j = 2)
  <2>1. H[j].step \in StepsAt(j)
    BY <1>2 DEF Script
  <2> QED
    BY <1>3, <1>5, <2>1, DrawSteps DEF StepsAt
<1>7. j # n /\ j + 1 \in 1..n /\ j + 1 <= 3
  BY <1>2, <1>3, <1>6
<1>8. /\ H[j + 1].step = AfterDraw(s, size[p]) /\ H[j + 1].size = size[p]
      /\ H[j + 1].tape[p] = drawn[p] \o PartyDraws(s, p, size[p]) /\ H[j + 1].hash = H[j].hash
  <2>1. SizeAfter(s, size[p]) = size[p] /\ ~Verifying(s) /\ ~Committed(s)
    BY <1>3, DrawSteps DEF SizeAfter
  <2>2. j + 1 \in 1..n /\ Advances(H, j, p)
    BY <1>2, <1>7, NextOfScript
  <2> QED
    BY <1>5, <2>1, <2>2 DEF Advances
<1>9. H[j + 1].made = << >>
  BY <1>2, <1>7 DEF Script
<1>10. /\ drawn'[p] = H[j + 1].tape[p] /\ size' = size /\ openHash' = openHash /\ faults' = faults
       /\ waiting'[p] = FALSE
       /\ pc'[p] \in {"gates", "recvGamma", "recvCommits"} /\ PlaceOf(pc'[p]) = AfterDraw(s, size[p])
  <2>1. CASE PartyOutputA(p)
    BY <1>2, <1>3, <1>8, <2>1, DrawSteps DEF PartyOutputA, PartyDrawing, Goto, checks, PlaceOf
  <2>2. CASE PartyGates(p)
    <3>1. pc'[p] \in {"recvGamma", "recvCommits"} /\ s = "gates"
      BY <1>3, <2>2 DEF PartyGates, Goto
    <3>2. PlaceOf(pc'[p]) = "r_bits"
      BY <3>1, Places DEF Expected
    <3> QED
      BY <1>2, <1>3, <1>8, <2>2, <3>1, <3>2, DrawSteps DEF PartyGates, PartyDrawing, Goto, checks
  <2> QED
    BY <2>1, <2>2
<1>11. pc'[p] \in NoCommits /\ pc'[p] # "aborted"
  BY <1>10, Places DEF NoCommits
<1>12. Place(H, n, p, j + 1)'
  BY <1>5, <1>8, <1>9, <1>10, <1>11 DEF Place, Drawn
<1>13. PartyAt(H, n, p)'
  BY <1>7, <1>11, <1>12 DEF PartyAt
<1> QED
  BY <1>1, <1>2, <1>13, PartyMoves DEF Party

(* Reading the mail: the commitments a party gets are all that the dealer   *)
(* has made (setup_verify).                                                *)
LEMMA MailStreams ==
  ASSUME FlowType, MailInv, CheckInv, StreamInv, NEW p \in Parties, ReadMail(p)
  PROVE  StreamInv'
<1>1. PICK H, n : Follows(H, n)
  BY DEF StreamInv
<1>2. /\ n \in Nat /\ n >= 3 /\ Script(H, n) /\ PartyAt(H, n, p) /\ DealerAt(H, n)
      /\ DOMAIN drawn = Parties /\ faults \in Nat
  BY <1>1 DEF Follows, Script, StreamInv
<1> DEFINE s == pc[p]
<1>3. /\ p \in Procs /\ DOMAIN pc = Procs /\ DOMAIN waiting = Procs /\ DOMAIN commits = Procs
      /\ s \in DOMAIN Expected /\ s \notin VerifySteps /\ s # "aborted" /\ PlaceOf(s) = "r_bits"
  BY ProcFacts, Places DEF FlowType, MailInv, DealerInv, ReadMail
<1>4. PICK j \in 1..n : Place(H, n, p, j)
  BY <1>2 DEF PartyAt
<1>5. drawn[p] = H[j].tape[p] /\ H[j].step = "r_bits" /\ H[j].size = size[p]
      /\ (faults = 0 => openHash[p] = H[j].hash)
  BY <1>3, <1>4 DEF Place, Drawn
<1>6. /\ UNCHANGED <<size, drawn, faults, openHash>>
      /\ pc'[p] = AfterMail(p, s)
      /\ commits'[p] = IF s = "recvCommits" THEN commits[p] \o NextMsg(p, 0).digests ELSE commits[p]
  BY <1>3 DEF ReadMail, Goto, streams
<1>7. /\ pc'[p] \in DOMAIN Expected \cup {"inputs"}
      /\ s = "recvGamma" => pc'[p] = "recvCommits"
      /\ s # "recvGamma" => pc'[p] \notin NoCommits
  BY <1>3, <1>6 DEF AfterMail, Expected, NoCommits
<1>8. PlaceOf(pc'[p]) = "r_bits" /\ pc'[p] \notin VerifySteps /\ pc'[p] # "aborted"
  <2>1. "inputs" \notin VerifySteps /\ PlaceOf("inputs") = "r_bits"
    BY DEF VerifySteps, Drawing, PlaceOf, PrgSteps, SumSteps, RevealSteps, AcceptSteps
  <2> QED
    BY <1>7, <2>1, Places
<1>9. CASE s = "recvGamma"
  <2>1. s \in NoCommits /\ pc'[p] \in NoCommits
    BY <1>7, <1>9 DEF NoCommits
  <2>2. Place(H, n, p, j)'
    BY <1>3, <1>4, <1>5, <1>6, <1>8, <2>1 DEF Place, Drawn
  <2>3. PartyAt(H, n, p)'
    BY <2>1, <2>2 DEF PartyAt
  <2> QED
    BY <1>1, <1>2, <2>3, PartyMoves DEF Party
<1>10. CASE s = "recvCommits"
  <2> DEFINE a == commits[p]
             b == NextMsg(p, 0).digests
  <2>1. NextMsg(p, 0) \in Mail /\ NextMsg(p, 0).kind = "commits"
    BY <1>10, NextMail DEF ReadMail, Expected
  <2>2. b \in Seq(Commitments)
    BY <2>1, MailKinds
  <2>3. a \in Seq(Commitments) /\ Len(a) = 0
    BY <1>10 DEF CheckInv, CommitInv, NumLeft
  <2>4. H[n].step = "verified" /\ b = H[n].made
    <3>1. read[0][p] \in Nat /\ flushed[0][p] \in Nat /\ read[0][p] < flushed[0][p]
          /\ flushed[0][p] <= Written(p) /\ Len(log[0][p]) = Written(p) /\ log[0][p] \in Seq(Mail)
      BY <1>3, ProcFacts DEF MailInv, NetType, BoxInv, ReadMail, Arrived
    <3>2. read[0][p] + 1 \in DOMAIN log[0][p]
      <4>1. Len(log[0][p]) \in Nat /\ DOMAIN log[0][p] = 1..Len(log[0][p])
        BY <3>1
      <4> QED
        BY <3>1, <4>1
    <3> QED
      BY <1>2, <2>1, <3>2 DEF DealerAt, NextMsg
  <2>5. commits'[p] = b
    <3>1. commits'[p] = a \o b
      BY <1>6, <1>10
    <3> HIDE DEF a, b
    <3>2. a \o b = b
      BY <2>2, <2>3
    <3> QED
      BY <3>1, <3>2
  <2>6. H[j].made = << >>
    BY <1>4, <1>10 DEF Place, NoCommits
  <2>7. Len(H[n].made) \in Nat
    BY <2>2, <2>4
  <2> HIDE DEF a, b
  <2>8. /\ Len(H[n].made) = Len(H[j].made) + Len(commits'[p])
        /\ \A k \in 1..Len(commits'[p]) : commits'[p][k] = H[n].made[Len(H[j].made) + k]
    BY <2>4, <2>5, <2>6, <2>7
  <2>9. pc'[p] \notin NoCommits
    BY <1>7, <1>10
  <2>10. Place(H, n, p, j)'
    BY <1>5, <1>6, <1>8, <2>8, <2>9 DEF Place, Drawn
  <2>11. PartyAt(H, n, p)'
    BY <2>4, <2>10 DEF PartyAt
  <2> QED
    BY <1>1, <1>2, <2>11, PartyMoves DEF Party
<1>11. CASE s \notin {"recvGamma", "recvCommits"}
  <2>1. s \notin NoCommits /\ pc'[p] \notin NoCommits /\ commits'[p] = commits[p]
    BY <1>3, <1>6, <1>7, <1>11 DEF NoCommits, Expected
  <2>2. Place(H, n, p, j)'
    BY <1>3, <1>4, <1>5, <1>6, <1>8, <2>1 DEF Place, Drawn
  <2>3. PartyAt(H, n, p)'
    BY <1>2, <2>1, <2>2 DEF PartyAt
  <2> QED
    BY <1>1, <1>2, <2>3, PartyMoves DEF Party
<1> QED
  BY <1>9, <1>10, <1>11

(* A party draws for a round of verify() when it contributes to it.        *)
LEMMA ContributeStreams ==
  ASSUME FlowType, MailInv, StreamInv, NEW p \in Parties, Contribute(p)
  PROVE  StreamInv'
<1>1. PICK H, n : Follows(H, n)
  BY DEF StreamInv
<1>2. /\ n \in Nat /\ n >= 3 /\ Script(H, n) /\ PartyAt(H, n, p)
      /\ DOMAIN drawn = Parties /\ faults \in Nat
  BY <1>1 DEF Follows, Script, StreamInv
<1> DEFINE s == pc[p]
<1>3. /\ p \in Procs /\ DOMAIN waiting = Procs
      /\ s \in RoundSteps /\ s \notin NoCommits /\ s # "aborted" /\ H[n].step = "verified"
      /\ ~waiting[p]
  BY <1>2, ProcFacts, Places DEF FlowType, Contribute, PartyAt
<1>4. PICK j \in 1..n : Place(H, n, p, j)
  BY <1>2 DEF PartyAt
<1>5. UNCHANGED <<pc, size, faults, openHash, commits>> /\ waiting'[p] = TRUE
      /\ (IF s \in VerifySteps THEN PartyDrawing(p, s) ELSE UNCHANGED drawn)
  BY <1>3 DEF Contribute, checks
<1>6. drawn[p] = H[j].tape[p]
  BY <1>3, <1>4 DEF Place, Drawn
<1>7. drawn'[p] = IF s \in VerifySteps THEN H[j + 1].tape[p] ELSE H[j].tape[p]
  <2>1. CASE s \in VerifySteps
    <3>1. H[j].step = s /\ H[j].size = size[p] /\ j # n
      BY <1>3, <1>4, <2>1, Places DEF Place
    <3>2. Advances(H, j, p)
      BY <1>2, <3>1, NextOfScript
    <3> QED
      BY <1>2, <1>5, <1>6, <2>1, <3>1, <3>2 DEF PartyDrawing, Advances
  <2> QED
    BY <1>5, <1>6, <2>1
<1>8. Place(H, n, p, j)'
  BY <1>4, <1>5, <1>7 DEF Place, Drawn
<1>9. PartyAt(H, n, p)'
  BY <1>3, <1>8 DEF PartyAt
<1> QED
  BY <1>1, <1>2, <1>9, PartyMoves DEF Party

(* The share of y_0 is drawn without a message.                            *)
LEMMA DrawY0Streams ==
  ASSUME FlowType, MailInv, StreamInv, NEW p \in Parties, DrawY0(p)
  PROVE  StreamInv'
<1>1. PICK H, n : Follows(H, n)
  BY DEF StreamInv
<1>2. /\ n \in Nat /\ n >= 3 /\ Script(H, n) /\ PartyAt(H, n, p)
      /\ DOMAIN drawn = Parties /\ faults \in Nat
  BY <1>1 DEF Follows, Script, StreamInv
<1>3. /\ p \in Procs /\ DOMAIN pc = Procs /\ DOMAIN waiting = Procs
      /\ pc[p] = "y_0" /\ "y_0" \in VerifySteps /\ PlaceOf("y_0") = "y_0" /\ "y_0" \notin RoundSteps
      /\ "y_0" \notin NoCommits /\ "y_0" # "verified"
  BY ProcFacts, Places DEF FlowType, DrawY0
<1>4. PICK j \in 1..n : Place(H, n, p, j)
  BY <1>2 DEF PartyAt
<1>5. ~waiting[p] /\ H[n].step = "verified"
  BY <1>2, <1>3 DEF FlowType, PartyAt
<1>6. /\ drawn[p] = H[j].tape[p] /\ H[j].step = "y_0" /\ H[j].size = size[p] /\ j # n
      /\ (faults = 0 => openHash[p] = H[j].hash)
      /\ Len(H[n].made) = Len(H[j].made) + Len(commits[p])
      /\ \A k \in 1..Len(commits[p]) : commits[p][k] = H[n].made[Len(H[j].made) + k]
  BY <1>3, <1>4, <1>5 DEF Place, Drawn
<1>7. SizeAfter("y_0", size[p]) = size[p] /\ ~Verifying("y_0") /\ ~Committed("y_0")
  BY Kinds DEF SizeAfter, PrgSteps, RevealSteps
<1>8. /\ j + 1 \in 1..n /\ H[j + 1].step = "triple" /\ H[j + 1].size = size[p]
      /\ H[j + 1].tape[p] = drawn[p] \o PartyDraws("y_0", p, size[p])
      /\ H[j + 1].hash = H[j].hash /\ H[j + 1].made = H[j].made
  <2>1. AfterDraw("y_0", size[p]) = "triple"
    BY <1>3, DrawSteps, AfterFacts
  <2>2. j + 1 \in 1..n /\ Advances(H, j, p)
    BY <1>2, <1>6, NextOfScript
  <2> QED
    BY <1>6, <1>7, <2>1, <2>2 DEF Advances
<1>9. /\ pc'[p] = "triple" /\ waiting'[p] = FALSE /\ drawn'[p] = H[j + 1].tape[p]
      /\ UNCHANGED <<size, faults, openHash, commits>>
  BY <1>2, <1>3, <1>8, AfterFacts DEF DrawY0, Goto, PartyDrawing, checks
<1>10. "triple" \in VerifySteps /\ PlaceOf("triple") = "triple" /\ "triple" \notin NoCommits
  <2>1. "triple" \in VerifySteps
    BY DEF VerifySteps, SumSteps
  <2> QED
    BY <2>1, Places
<1>11. Place(H, n, p, j + 1)'
  BY <1>6, <1>8, <1>9, <1>10 DEF Place, Drawn
<1>12. PartyAt(H, n, p)'
  BY <1>5, <1>8, <1>11 DEF PartyAt
<1> QED
  BY <1>1, <1>2, <1>12, PartyMoves DEF Party

(* What is left of a queue of commitments when one has been taken.         *)
LEMMA Taken ==
  ASSUME NEW c, c \in Seq(Commitments), Len(c) >= 1
  PROVE  /\ Tail(c) \in Seq(Commitments) /\ Len(Tail(c)) = Len(c) - 1 /\ Len(c) \in Nat
         /\ \A k \in 1..Len(Tail(c)) : Tail(c)[k] = c[k + 1]
         /\ Head(c) = c[1]
OBVIOUS

(* A party that completes a round of verify() is at the next step of the   *)
(* script; the other rounds are not in it.                                 *)
LEMMA CompletesStreams ==
  ASSUME FlowType, NEW H, NEW n, Script(H, n), NEW p \in Parties, PartyAt(H, n, p), CommitInv(p),
         waiting[p], waiting'[p] = FALSE, drawn' = drawn, faults' = 0 => faults = 0,
         pc[p] \in RoundSteps, pc'[p] = AfterRound(p, pc[p]) \/ pc'[p] = "aborted",
         size'[p] = SizeAfter(pc[p], size[p]),
         faults' = 0 => openHash'[p] = IF Verifying(pc[p]) THEN << >>
                                       ELSE IF Committed(pc[p]) THEN Append(openHash[p], Entry(pc[p], 0))
                                       ELSE openHash[p],
         commits'[p] = IF Verifying(pc[p]) THEN Tail(commits[p]) ELSE commits[p]
  PROVE  PartyAt(H, n, p)'
<1> DEFINE s == pc[p]
<1>1. s \notin NoCommits /\ s # "aborted" /\ H[n].step = "verified" /\ pc'[p] \notin NoCommits
  BY Places DEF PartyAt
<1>2. PICK j \in 1..n : Place(H, n, p, j)
  BY DEF PartyAt
<1>3. /\ H[j].step = PlaceOf(s) /\ H[j].size = size[p]
      /\ (faults = 0 => openHash[p] = H[j].hash)
      /\ Len(H[n].made) = Len(H[j].made) + Len(commits[p])
      /\ \A k \in 1..Len(commits[p]) : commits[p][k] = H[n].made[Len(H[j].made) + k]
  BY <1>1, <1>2 DEF Place
<1>4. CASE s \notin VerifySteps
  <2>1. drawn[p] = H[j].tape[p]
    BY <1>2, <1>4 DEF Place, Drawn
  <2>2. /\ PlaceOf(AfterRound(p, s)) = PlaceOf(s) /\ ~Verifying(s) /\ ~Committed(s)
        /\ size'[p] = size[p]
    BY <1>4, Places
  <2>3. commits'[p] = commits[p] /\ (faults' = 0 => openHash'[p] = H[j].hash)
    BY <1>3, <2>2
  <2>4. Place(H, n, p, j)'
    BY <1>1, <1>3, <2>1, <2>2, <2>3 DEF Place, Drawn
  <2> QED
    BY <1>1, <2>4 DEF PartyAt
<1>5. CASE s \in VerifySteps
  <2>1. drawn[p] = H[j + 1].tape[p] /\ H[j].step = s /\ j # n
    BY <1>1, <1>2, <1>3, <1>5, Places DEF Place, Drawn
  <2>2. j + 1 \in 1..n /\ Advances(H, j, p)
    BY <2>1, NextOfScript
  <2>3. /\ H[j + 1].step = AfterDraw(s, SizeAfter(s, size[p])) /\ H[j + 1].size = size'[p]
        /\ (faults' = 0 => openHash'[p] = H[j + 1].hash)
    BY <1>3, <2>1, <2>2 DEF Advances
  <2>4. PlaceOf(AfterRound(p, s)) = AfterDraw(s, SizeAfter(s, size[p]))
    BY <1>5, Places
  <2>5. /\ Len(H[n].made) = Len(H[j + 1].made) + Len(commits'[p])
        /\ \A k \in 1..Len(commits'[p]) : commits'[p][k] = H[n].made[Len(H[j + 1].made) + k]
    <3>1. CASE ~Verifying(s)
      BY <1>3, <2>1, <2>2, <3>1 DEF Advances
    <3>2. CASE Verifying(s)
      <4> DEFINE c == commits[p]
                 m == Len(H[j].made)
      <4>1. s \in {"openTriple", "openOutput", "alphaBeta"}
        BY <3>2, Kinds
      <4>2. c \in Seq(Commitments) /\ Len(c) >= 1
        BY <1>1, <4>1, NumLeftFacts DEF CommitInv
      <4>3. IsSeq(H[j].made)
        BY DEF Script
      <4>4. m \in Nat /\ Len(H[j + 1].made) = m + 1
        <5> DEFINE a == H[j].made
                   e == Append(H[j].hash, Entry(s, 0))
        <5>1. H[j + 1].made = Append(a, e) /\ IsSeq(a)
          BY <2>1, <2>2, <3>2, <4>3 DEF Advances
        <5> HIDE DEF a, e
        <5>2. Len(a) \in Nat /\ Len(Append(a, e)) = Len(a) + 1
          BY <5>1, Added
        <5> QED
          BY <5>1, <5>2 DEF a
      <4>5. commits'[p] = Tail(c)
        BY <3>2
      <4>6. Len(H[n].made) = m + Len(c) /\ \A k \in 1..Len(c) : c[k] = H[n].made[m + k]
        BY <1>3
      <4> HIDE DEF c, m
      <4>7. /\ Len(c) \in Nat /\ Len(Tail(c)) = Len(c) - 1
            /\ \A k \in 1..Len(Tail(c)) : Tail(c)[k] = c[k + 1]
        BY <4>2, Taken
      <4>8. Len(H[n].made) = (m + 1) + Len(Tail(c))
        <5> DEFINE x == Len(c)
                   y == Len(Tail(c))
        <5>1. x \in Nat /\ y = x - 1 /\ Len(H[n].made) = m + x /\ m \in Nat
          BY <4>4, <4>6, <4>7
        <5> HIDE DEF x, y
        <5>2. Len(H[n].made) = (m + 1) + y
          BY <5>1
        <5> QED
          BY <5>2 DEF y
      <4>9. ASSUME NEW k \in 1..Len(Tail(c)) PROVE Tail(c)[k] = H[n].made[(m + 1) + k]
        <5>1. k + 1 \in 1..Len(c) /\ m + (k + 1) = (m + 1) + k
          BY <4>4, <4>7
        <5>2. Tail(c)[k] = c[k + 1] /\ c[k + 1] = H[n].made[m + (k + 1)]
          BY <4>6, <4>7, <5>1
        <5> QED
          BY <5>1, <5>2
      <4> QED
        BY <4>4, <4>5, <4>8, <4>9
    <3> QED
      BY <3>1, <3>2
  <2>6. Place(H, n, p, j + 1)'
    BY <1>1, <2>1, <2>3, <2>4, <2>5 DEF Place, Drawn
  <2> QED
    BY <1>1, <2>2, <2>6 DEF PartyAt
<1> QED
  BY <1>4, <1>5

(* A party that completes a round draws nothing, and is where the script   *)
(* goes on.                                                                *)
LEMMA RoundStreams ==
  ASSUME FlowType, RoundInv, MailInv, CheckInv, StreamInv, NEW p \in Parties,
         (\E v \in {0, 1} : SeeOpening(p, v)) \/ ReadDigests(p) \/ CheckForAccept(p)
  PROVE  StreamInv'
<1>1. PICK H, n : Follows(H, n)
  BY DEF StreamInv
<1>2. /\ n \in Nat /\ n >= 3 /\ Script(H, n) /\ PartyAt(H, n, p)
      /\ DOMAIN drawn = Parties /\ faults \in Nat /\ CommitInv(p)
  BY <1>1 DEF Follows, Script, StreamInv, CheckInv
<1>3. /\ p \in Procs /\ DOMAIN pc = Procs /\ DOMAIN waiting = Procs /\ DOMAIN size = Procs
      /\ DOMAIN openHash = Procs /\ DOMAIN commits = Procs
  BY ProcFacts DEF FlowType, MailInv, DealerInv
<1>4. Party(p)
  BY DEF Party
<1>5. faults' = 0 => faults = 0
  BY <1>2, <1>4, PartyUntouched
<1>6. CASE \E v \in {0, 1} : SeeOpening(p, v)
  <2>1. PICK v \in {0, 1} : SeeOpening(p, v)
    BY <1>6
  <2>2. /\ Completes(p) /\ pc[p] \in RoundSteps /\ pc'[p] = AfterRound(p, pc[p])
        /\ openHash'[p] = IF Verifying(pc[p]) THEN << >>
                          ELSE IF Committed(pc[p]) THEN Append(openHash[p], Entry(pc[p], v))
                          ELSE openHash[p]
        /\ commits'[p] = IF Verifying(pc[p]) THEN Tail(commits[p]) ELSE commits[p]
    BY <2>1, OpeningFacts
  <2>3. waiting[p] /\ waiting'[p] = FALSE
    BY <2>2 DEF Completes, Complete
  <2>4. drawn' = drawn /\ faults' = faults + v /\ size'[p] = SizeAfter(pc[p], size[p])
    BY <1>3, <2>1 DEF SeeOpening, streams
  <2>5. faults' = 0 => v = 0
    BY <1>2, <2>4
  <2>6. PartyAt(H, n, p)'
    BY <1>2, <1>5, <2>2, <2>3, <2>4, <2>5, CompletesStreams
  <2> QED
    BY <1>1, <1>2, <1>4, <2>6, PartyMoves
<1>7. CASE ReadDigests(p) \/ CheckForAccept(p)
  <2>1. /\ pc[p] \in Accepts \cup {"inputDigest"} /\ Complete(p)
        /\ UNCHANGED <<size, drawn, faults, openHash, commits>>
    BY <1>7 DEF ReadDigests, CheckForAccept, streams, checks
  <2>2. pc[p] \in RoundSteps /\ ~Committed(pc[p]) /\ ~Verifying(pc[p])
        /\ SizeAfter(pc[p], size[p]) = size[p]
    <3>1. pc[p] \in RoundSteps /\ pc[p] \notin Openings /\ pc[p] # "alpha"
      BY <2>1, StepFacts DEF RoundSteps, Openings, PrgSteps, SumSteps, RevealSteps
    <3>2. ~Committed(pc[p])
      BY <3>1, Kinds DEF Openings
    <3> QED
      BY <3>1, <3>2, Kinds DEF SizeAfter
  <2>3. waiting[p] /\ waiting'[p] = FALSE /\ (pc'[p] = AfterRound(p, pc[p]) \/ pc'[p] = "aborted")
    <3>1. CASE ReadDigests(p)
      BY <1>3, <2>1, <3>1 DEF Complete, ReadDigests, Goto, AfterRound
    <3>2. CASE CheckForAccept(p)
      BY <1>3, <2>1, <3>2 DEF Complete, CheckForAccept, Goto
    <3> QED
      BY <1>7, <3>1, <3>2
  <2>4. PartyAt(H, n, p)'
    <3>1. faults' = 0 => openHash'[p] = H[1].hash \/ openHash'[p] = openHash[p]
      BY <2>1
    <3> QED
      BY <1>2, <1>5, <2>1, <2>2, <2>3, CompletesStreams
  <2> QED
    BY <1>1, <1>2, <1>4, <2>4, PartyMoves
<1> QED
  BY <1>6, <1>7

(* At the beginning nobody has drawn anything.                             *)
LEMMA StreamInit == Init => StreamInv
<1> SUFFICES ASSUME Init PROVE StreamInv
  OBVIOUS
<1>1. PICK H : Script(H, 3)
  BY Scripted
<1>2. H[1] = Start /\ 1 \in 1..3
  BY <1>1 DEF Script
<1>3. 0 \in Procs /\ \A p \in Parties : p \in Procs
  BY ProcFacts
<1>4. /\ \A p \in Procs : /\ pc[p] = "outputA" /\ waiting[p] = FALSE /\ size[p] = VectorLength
                          /\ openHash[p] = << >> /\ commits[p] = << >>
      /\ dealt = [p \in Parties |-> << >>] /\ faults = 0
      /\ DOMAIN drawn = Parties /\ \A p \in Parties : drawn[p] = << >> /\ log[0][p] = << >>
  BY <1>3 DEF Init, NetInit
<1>5. "outputA" \in Drawing /\ "outputA" \in NoCommits /\ PlaceOf("outputA") = "outputA"
      /\ "outputA" \notin VerifySteps
  BY DrawSteps DEF Drawing, NoCommits, PlaceOf
<1>6. /\ Start.step = "outputA" /\ Start.size = VectorLength /\ Start.hash = << >> /\ Start.made = << >>
      /\ Start.tape = dealt
  BY <1>4 DEF Start
<1>7. DealerAt(H, 3)
  BY <1>2, <1>3, <1>4, <1>5, <1>6 DEF DealerAt
<1>8. ASSUME NEW p \in Parties PROVE PartyAt(H, 3, p)
  <2>1. Start.tape[p] = << >>
    BY DEF Start
  <2>2. Place(H, 3, p, 1)
    BY <1>2, <1>3, <1>4, <1>5, <1>6, <2>1 DEF Place, Drawn
  <2> QED
    BY <1>2, <1>3, <1>4, <1>5, <2>2 DEF PartyAt
<1>9. Follows(H, 3)
  BY <1>1, <1>7, <1>8 DEF Follows
<1> QED
  BY <1>4, <1>9 DEF StreamInv

(* Every step of the dealer or of a party keeps to the script.             *)
LEMMA StreamStep ==
  FlowType /\ RoundInv /\ MailInv /\ CheckInv /\ StreamInv /\ [Next]_vars => StreamInv'
<1> SUFFICES ASSUME FlowType, RoundInv, MailInv, CheckInv, StreamInv, [Next]_vars PROVE StreamInv'
  OBVIOUS
<1>1. CASE Dealer
  BY <1>1, DealerStreams
<1>2. ASSUME NEW p \in Parties, Party(p) PROVE StreamInv'
  BY <1>2, SetupStreams, MailStreams, ContributeStreams, DrawY0Streams, RoundStreams DEF Party
<1>3. CASE UNCHANGED vars
  <2>1. UNCHANGED <<pc, waiting, size, drawn, dealt, openHash, commits, faults, log>>
    BY <1>3 DEF vars, flow, streams, checks, netVars
  <2>2. PICK H, n : Follows(H, n)
    BY DEF StreamInv
  <2>3. DealerAt(H, n)'
    BY <2>1, <2>2 DEF Follows, DealerAt
  <2>4. \A p \in Parties : PartyAt(H, n, p)'
    BY <2>1, <2>2, KeepParty DEF Follows, Untouched
  <2>5. Follows(H, n)'
    BY <2>2, <2>3, <2>4 DEF Follows
  <2> QED
    BY <2>1, <2>5 DEF StreamInv
<1> QED
  BY <1>1, <1>2, <1>3 DEF Next

(* The dealer and every party follow the same script of draws, digests and *)
(* sizes (runSetup, setup_verify, zkfliop_evaluator.cpp:481-488 and        *)
(* 1015-1057).                                                             *)
THEOREM StreamsCorrect == Spec => []StreamInv
<1>1. Init => StreamInv
  BY StreamInit
<1>2. FlowType /\ RoundInv /\ MailInv /\ CheckInv /\ StreamInv /\ [Next]_vars => StreamInv'
  BY StreamStep
<1> QED
  BY <1>1, <1>2, FlowCorrect, MailCorrect, ChecksCorrect, PTL DEF Spec

(* What two ends of a stream have drawn are two tapes of the script, one   *)
(* of which the other goes on from.                                        *)
LEMMA Aligned == StreamInv => StreamsAligned
<1> SUFFICES ASSUME StreamInv, NEW p \in Parties
             PROVE  IsPrefix(drawn[p], dealt[p]) \/ IsPrefix(dealt[p], drawn[p])
  BY DEF StreamsAligned
<1>1. PICK H, n : Follows(H, n)
  BY DEF StreamInv
<1>2. n \in Nat /\ n >= 3 /\ Script(H, n) /\ PartyAt(H, n, p) /\ DealerAt(H, n)
  BY <1>1 DEF Follows, Script
<1>3. PICK d \in 1..n : H[d].tape = dealt
  BY <1>2 DEF DealerAt
<1>4. PICK j \in 1..n : Place(H, n, p, j)
  BY <1>2 DEF PartyAt
<1>5. PICK k \in 1..n : drawn[p] = H[k].tape[p]
  <2>1. CASE waiting[p] /\ pc[p] \in VerifySteps
    <3>1. H[n].step = "verified" /\ H[j].step = pc[p] /\ pc[p] # "verified"
      BY <1>2, <1>4, <2>1, Places DEF PartyAt, Place
    <3>2. j + 1 \in 1..n
      BY <1>2, <3>1, NextOfScript
    <3> QED
      BY <1>4, <2>1, <3>2 DEF Place, Drawn
  <2>2. CASE ~(waiting[p] /\ pc[p] \in VerifySteps)
    BY <1>4, <2>2 DEF Place, Drawn
  <2> QED
    BY <2>1, <2>2
<1>6. IsSeq(H[d].tape[p]) /\ IsSeq(H[k].tape[p])
  BY <1>2 DEF Script
<1>7. Prefix(H[d].tape[p], H[k].tape[p]) \/ Prefix(H[k].tape[p], H[d].tape[p])
  <2>1. d <= k \/ k <= d
    OBVIOUS
  <2> QED
    BY <1>2, <2>1 DEF Script
<1> QED
  BY <1>3, <1>5, <1>6, <1>7, PrefixIs

(* The dealer and a party draw the same things from their stream in the    *)
(* same order, although the dealer draws for verify() during the setup and *)
(* the party online.                                                       *)
THEOREM StreamsAgree == Spec => []StreamsAligned
  BY StreamsCorrect, Aligned, PTL

(* The commitment a party compares with is the digest it has come to, as   *)
(* long as there are no faults (openAdditive).                             *)
LEMMA CommitmentMet ==
  ASSUME FlowType, StreamInv, NEW p \in Parties, CommitInv(p), faults = 0,
         pc[p] \in RoundSteps, Verifying(pc[p])
  PROVE  Head(commits[p]) = Append(openHash[p], Entry(pc[p], 0))
<1> DEFINE s == pc[p]
           c == commits[p]
           d == Append(openHash[p], Entry(s, 0))
<1>1. PICK H, n : Follows(H, n)
  BY DEF StreamInv
<1>2. n \in Nat /\ n >= 3 /\ Script(H, n) /\ PartyAt(H, n, p)
  BY <1>1 DEF Follows, Script
<1>3. s \in {"openTriple", "openOutput", "alphaBeta"} /\ s \in VerifySteps
  <2>1. s \in {"openTriple", "openOutput", "alphaBeta"}
    BY Kinds
  <2> QED
    BY <2>1 DEF VerifySteps, PrgSteps, RevealSteps
<1>4. s \notin NoCommits /\ s # "aborted" /\ H[n].step = "verified" /\ s # "verified" /\ PlaceOf(s) = s
  BY <1>2, <1>3, Places DEF PartyAt
<1>5. PICK j \in 1..n : Place(H, n, p, j)
  BY <1>2 DEF PartyAt
<1> DEFINE a == H[j].made
<1>6. /\ H[j].step = s /\ openHash[p] = H[j].hash /\ j # n
      /\ Len(H[n].made) = Len(a) + Len(c)
      /\ \A k \in 1..Len(c) : c[k] = H[n].made[Len(a) + k]
  BY <1>4, <1>5 DEF Place
<1>7. j + 1 \in 1..n /\ Advances(H, j, p)
  BY <1>2, <1>6, NextOfScript
<1>8. H[j + 1].made = Append(a, d) /\ IsSeq(a)
  BY <1>2, <1>6, <1>7 DEF Advances, Script
<1>9. Prefix(H[j + 1].made, H[n].made)
  <2>1. n \in 1..n /\ j + 1 <= n
    BY <1>2, <1>7
  <2> QED
    BY <1>2, <1>7, <2>1 DEF Script
<1>10. c \in Seq(Commitments) /\ Len(c) >= 1
  BY <1>3, <1>4, NumLeftFacts DEF CommitInv
<1> HIDE DEF a, c, d
<1>11. Head(c) = c[1] /\ Len(c) \in Nat
  BY <1>10, Taken
<1>12. Len(a) \in Nat /\ Len(Append(a, d)) = Len(a) + 1 /\ Append(a, d)[Len(a) + 1] = d
  BY <1>8, Added
<1>13. H[n].made[Len(a) + 1] = d
  BY <1>8, <1>9, <1>12 DEF Prefix
<1>14. c[1] = H[n].made[Len(a) + 1]
  BY <1>6, <1>10, <1>11
<1> QED
  BY <1>11, <1>13, <1>14 DEF c, d

-----------------------------------------------------------------------------
(* Nothing happens but that a party comes closer to its next round.        *)
LEMMA NoFaultFrame ==
  ASSUME NoFaultInv, faults' = 0 => faults = 0, sent' = sent,
         UNCHANGED <<views, consHash, consBad, openBad>>,
         \A q \in Parties : At(q)' = At(q) /\ waiting'[q] = waiting[q]
  PROVE  NoFaultInv'
<1>1. "inputDigest" \notin Setup /\ "acceptOutputs" \notin Setup /\ "acceptInputs" \notin Setup
      /\ "aborted" \notin Setup /\ "inputs" \notin Setup
  BY DEF Setup, Expected
<1>2. ASSUME NEW q \in Parties
      PROVE  /\ \A s \in {"inputDigest", "acceptOutputs", "acceptInputs", "aborted"} :
                  pc'[q] = s => pc[q] = s
             /\ pc'[q] \in Setup \cup {"inputs"} => pc[q] \in Setup \cup {"inputs"}
  BY <1>1 DEF At, RoundOf
<1>3. \A q \in Parties : LastRound(q)' = LastRound(q) /\ Round(q)' = Round(q)
  BY DEF LastRound, Round
<1>4. \A q, r, s : HasSent(q, r, s)' = HasSent(q, r, s)
  BY DEF HasSent
<1>5. ASSUME NEW q \in Parties PROVE DigestsHeard(q)'
  BY <1>2, <1>3, <1>4 DEF NoFaultInv, DigestsHeard
<1>6. ASSUME NEW q \in Parties, QuietInv(q) PROVE QuietInv(q)'
  BY <1>2, <1>4, <1>6 DEF QuietInv
<1>7. ASSUME NEW x \in Parties, NEW y \in Parties, SameCons(x, y) PROVE SameCons(x, y)'
  <2>1. NextCons(x)' = NextCons(x)
    BY DEF NextCons
  <2> QED
    BY <1>3, <1>4, <1>7, <2>1 DEF SameCons
<1> QED
  BY <1>5, <1>6, <1>7 DEF NoFaultInv

(* What a party tells the others in a run without faults.                  *)
LEMMA QuietWords ==
  ASSUME FlowType, NoFaultInv, CheckInv, faults = 0, NEW p \in Parties, pc[p] \in RoundSteps,
         ~waiting[p], NEW ok, ok = TRUE
  PROVE  /\ pc[p] \in Accepts => Content(p, ok) = <<TRUE, TRUE>>
         /\ pc[p] = "inputDigest" => Content(p, ok) = InputDigest
         /\ pc[p] = "alphaBeta" => Content(p, ok) = consHash[p]
<1> DEFINE s == pc[p]
<1>1. QuietInv(p) /\ DigestsHeard(p) /\ \A q \in Parties : QuietInv(q)
  BY DEF NoFaultInv
<1>2. ~consBad[p] = TRUE /\ ~openBad[p] = TRUE
  BY <1>1 DEF QuietInv
<1>3. /\ s \in Accepts => s # "inputDigest" /\ ~CheckingConsistency(s)
      /\ "inputDigest" \notin Accepts /\ ~CheckingConsistency("inputDigest")
      /\ "alphaBeta" \notin Accepts
  BY Kinds DEF Accepts, AcceptSteps, OneBit
<1>4. CASE s \in Accepts
  <2>1. Content(p, ok) = OwnBits(p, ok)
    BY <1>4, <1>3 DEF Content
  <2>2. CASE s = "acceptInputs"
    <3>1. \A q \in Parties : Heard(p, q) = InputDigest
      BY <1>1, <2>2 DEF DigestsHeard, QuietInv, Heard
    <3>2. AllSameAs(p) = TRUE
      BY <3>1 DEF AllSameAs
    <3> QED
      BY <2>1, <2>2, <3>2 DEF OwnBits
  <2>3. CASE s \in AcceptSteps
    BY <1>2, <2>1, <2>3 DEF OwnBits, AcceptSteps
  <2>4. CASE s = "acceptOutputs"
    <3>1. s \notin Setup
      BY <2>4 DEF Setup, Expected
    <3>2. outCommit[p] = <<Entry("outputs", 0)>> /\ Last(views[p]) = Entry("outputs", 0)
      BY <1>1, <2>4, <3>1 DEF QuietInv, CheckInv, CommitInv, OutputCommitment
    <3> DEFINE met == outCommit[p] = <<Last(views[p])>>
    <3>3. OwnBits(p, ok) = <<met, TRUE>>
      BY <2>4 DEF OwnBits, AcceptSteps
    <3>4. met = TRUE
      BY <3>2
    <3> HIDE DEF met
    <3> QED
      BY <2>1, <2>4, <3>3, <3>4
  <2> QED
    BY <1>4, <2>2, <2>3, <2>4 DEF Accepts, OneBit
<1>5. CASE s = "inputDigest"
  BY <1>1, <1>5, <1>3 DEF Content, QuietInv
<1>6. CASE s = "alphaBeta"
  BY <1>3, <1>6, OwnWords
<1> QED
  BY <1>4, <1>5, <1>6

(* A contribution keeps all this.                                          *)
LEMMA NoFaultContribute ==
  ASSUME FlowType, RoundInv, CheckInv, NoFaultInv, NEW p \in Parties, Contribute(p)
  PROVE  NoFaultInv'
<1> DEFINE s == pc[p]
           n == LastRound(p) + 1
<1>1. /\ s \in RoundSteps /\ ~waiting[p] /\ At(p) = s
      /\ waiting' = [waiting EXCEPT ![p] = TRUE]
      /\ UNCHANGED <<pc, views, consHash, consBad, openBad, faults>>
  BY StepFacts DEF Contribute, checks, At, RoundOf
<1>2. PICK ok \in BOOLEAN :
        /\ sent' = [sent EXCEPT ![p] = Append(@, [step |-> s, content |-> Content(p, ok)])]
        /\ faults = 0 => ok = TRUE
  BY DEF Contribute
<1> DEFINE e == [step |-> s, content |-> Content(p, ok)]
<1>3. e \in Messages /\ e.content = Content(p, ok) /\ e.step = s
  BY <1>1, ContentType DEF Messages
<1>4. /\ Len(sent'[p]) = n /\ DOMAIN sent'[p] = 1..n /\ LastRound(p) \in Nat
      /\ sent'[p][n] = e /\ \A r \in 1..LastRound(p) : sent'[p][r] = sent[p][r]
      /\ \A q \in Parties : q # p => sent'[q] = sent[q]
  <2> HIDE DEF e
  <2>1. sent \in [Parties -> Seq(Messages)] /\ sent[p] \in Seq(Messages)
    BY DEF FlowType
  <2> QED
    BY <1>2, <1>3, <2>1 DEF e, LastRound
<1> HIDE DEF e
<1>5. \A q \in Parties : Round(q)' = Round(q) /\ At(q)' = At(q)
  BY <1>1, <1>4, RoundType, ProcFacts DEF Round, LastRound, At, FlowType
<1>6. /\ LastRound(p)' = n /\ waiting'[p] = TRUE
      /\ \A q \in Parties : q # p => LastRound(q)' = LastRound(q) /\ waiting'[q] = waiting[q]
  BY <1>1, <1>4, ProcFacts DEF LastRound, FlowType
<1>7. ASSUME NEW q \in Parties, NEW r, NEW t
      PROVE  /\ HasSent(q, r, t) => HasSent(q, r, t)' /\ sent'[q][r] = sent[q][r]
             /\ HasSent(q, r, t)' => HasSent(q, r, t) \/ (q = p /\ r = n /\ t = s)
  <2>1. DOMAIN sent[q] = 1..LastRound(q) /\ LastRound(q) \in Nat
    BY RoundType
  <2>2. CASE q = p
    BY <1>3, <1>4, <2>1, <2>2 DEF HasSent
  <2>3. CASE q # p
    BY <1>4, <2>3 DEF HasSent
  <2> QED
    BY <2>2, <2>3
<1>8. ASSUME NEW q \in Parties PROVE DigestsHeard(q)'
  <2>1. DigestsHeard(q)
    BY DEF NoFaultInv
  <2> QED
    BY <1>1, <1>6, <1>7, <2>1 DEF DigestsHeard
<1>9. ASSUME faults' = 0, NEW q \in Parties PROVE QuietInv(q)'
  <2>1. faults = 0 /\ QuietInv(q) /\ QuietInv(p) /\ ok = TRUE
    BY <1>1, <1>2, <1>9 DEF NoFaultInv
  <2>2. /\ s \in Accepts => e.content = <<TRUE, TRUE>>
        /\ s = "inputDigest" => e.content = InputDigest
    BY <1>1, <1>3, <2>1, QuietWords
  <2>3. ASSUME NEW r, HasSent(q, r, "inputDigest")' PROVE sent'[q][r].content = InputDigest
    <3>1. CASE HasSent(q, r, "inputDigest")
      BY <1>7, <2>1, <3>1 DEF QuietInv
    <3>2. CASE q = p /\ r = n /\ "inputDigest" = s
      BY <1>4, <2>2, <3>2
    <3> QED
      BY <1>7, <2>3, <3>1, <3>2
  <2>4. ASSUME NEW t \in Accepts, NEW r, HasSent(q, r, t)' PROVE sent'[q][r].content = <<TRUE, TRUE>>
    <3>1. CASE HasSent(q, r, t)
      BY <1>7, <2>1, <3>1 DEF QuietInv
    <3>2. CASE q = p /\ r = n /\ t = s
      BY <1>4, <2>2, <3>2
    <3> QED
      BY <1>7, <2>4, <3>1, <3>2
  <2> QED
    BY <1>1, <2>1, <2>3, <2>4 DEF QuietInv
<1>10. ASSUME NEW q \in Parties, q # p, HasSent(q, n, "alphaBeta"), s = "alphaBeta"
       PROVE  sent[q][n].content = consHash[q] /\ Round(q) = Round(p)
  <2>1. PairInv(p, q) /\ WordInv(q)
    BY DEF RoundInv, CheckInv
  <2>2. n \in DOMAIN sent[q] /\ LastRound(q) >= n
    BY <1>10, RoundType DEF HasSent
  <2>3. Round(p) = n
    BY <1>1, RoundType
  <2>4. Round(q) = Round(p)
    BY <1>1, <1>10, <2>1, <2>2, <2>3, RoundType DEF PairInv, OneAhead
  <2>5. At(q) = "alphaBeta"
    BY <1>1, <1>10, <2>1, <2>4 DEF PairInv, SamePlace
  <2>6. pc[q] = "alphaBeta"
    BY <2>5 DEF At, RoundOf
  <2> QED
    BY <1>10, <2>1, <2>2, <2>4, <2>6, Kinds DEF WordInv
<1>11. ASSUME faults' = 0, NEW x \in Parties, NEW y \in Parties PROVE SameCons(x, y)'
  <2>1. faults = 0 /\ ok = TRUE /\ \A a, b \in Parties : SameCons(a, b)
    BY <1>1, <1>2, <1>11 DEF NoFaultInv
  <2>2. NextCons(x)' = NextCons(x)
    BY <1>1, <1>5 DEF NextCons
  <2>3. s = "alphaBeta" => sent'[p][n].content = consHash[p]
    BY <1>1, <1>3, <1>4, <2>1, OwnWords
  <2>4. ASSUME NEW r, HasSent(x, r, "alphaBeta")', HasSent(y, r, "alphaBeta")'
        PROVE  sent'[y][r].content = sent'[x][r].content
    <3>1. CASE HasSent(x, r, "alphaBeta") /\ HasSent(y, r, "alphaBeta")
      BY <1>7, <2>1, <3>1 DEF SameCons
    <3>2. ASSUME NEW q \in Parties, q # p, HasSent(q, r, "alphaBeta"), r = n, s = "alphaBeta"
          PROVE  sent'[q][r].content = sent'[p][r].content
      <4>1. sent[q][n].content = consHash[q] /\ Round(q) = Round(p)
        BY <1>10, <3>2
      <4>2. consHash[q] = consHash[p]
        BY <2>1, <4>1 DEF SameCons
      <4> QED
        BY <1>4, <2>3, <3>2, <4>1, <4>2
    <3> QED
      BY <1>7, <2>4, <3>1, <3>2
  <2> QED
    BY <1>1, <1>5, <2>1, <2>2, <2>4 DEF SameCons
<1> QED
  BY <1>8, <1>9, <1>11 DEF NoFaultInv

(* Where a round leads, as far as it matters to what was said of inputs    *)
(* and outputs.                                                            *)
LEMMA AfterOnce ==
  ASSUME NEW p, NEW s \in RoundSteps
  PROVE  /\ AfterRound(p, s) = "inputDigest" => s = "inputs"
         /\ AfterRound(p, s) = "acceptInputs" => s = "inputDigest"
         /\ AfterRound(p, s) = "acceptOutputs" => s = "outputs"
         /\ AfterRound(p, s) \notin Setup \cup {"inputs", "aborted"}
<1>1. AfterRound(p, s) \notin Setup \cup {"inputs", "aborted"}
  BY AfterRoundFacts, StepFacts, Past
<1>2. CASE s \in VerifySteps
  <2>1. CASE s = "accept3"
    BY <1>1, <2>1, Order
  <2>2. CASE s # "accept3"
    <3>1. s \notin {"inputs", "inputDigest", "acceptInputs", "online", "outputs", "acceptOutputs"}
      BY <1>2 DEF VerifySteps, PrgSteps, SumSteps, RevealSteps, AcceptSteps
    <3>2. AfterRound(p, s) = After(s, SizeAfter(s, size[p]))
      BY <2>2, <3>1 DEF AfterRound
    <3>3. AfterRound(p, s) \in VerifySteps \cup {"verified"}
      BY <1>2, <3>2, AfterFacts
    <3>4. AfterRound(p, s) \notin {"inputDigest", "acceptInputs", "acceptOutputs"}
      BY <3>3 DEF VerifySteps, PrgSteps, SumSteps, RevealSteps, AcceptSteps
    <3> QED
      BY <1>1, <3>4
  <2> QED
    BY <2>1, <2>2
<1>3. CASE s \notin VerifySteps
  <2>1. s \in {"inputs", "inputDigest", "acceptInputs", "online", "outputs", "acceptOutputs"}
    BY <1>3 DEF RoundSteps, VerifySteps, Openings, Accepts, OneBit
  <2>2. AfterRound(p, s) =
          CASE s = "inputs" -> "inputDigest" [] s = "inputDigest" -> "acceptInputs"
            [] s = "acceptInputs" -> "online" [] s = "outputs" -> "acceptOutputs"
            [] s = "acceptOutputs" -> "done"
            [] s = "online" -> IF LastLevel(level[p]) THEN "r_bits" ELSE "online"
    BY <2>1 DEF AfterRound
  <2> QED
    BY <1>1, <2>1, <2>2
<1> QED
  BY <1>2, <1>3

(* The digests of the consistency check stay the same for all.             *)
LEMMA ConsStep ==
  ASSUME FlowType, RoundInv, NEW p \in Parties, Completes(p), consHash'[p] = NextCons(p),
         \A x, y \in Parties : SameCons(x, y)
  PROVE  \A x, y \in Parties : SameCons(x, y)'
<1>1. /\ Complete(p) /\ sent' = sent /\ ~waiting'[p]
      /\ \A q \in Parties : q # p => At(q)' = At(q) /\ waiting'[q] = waiting[q] /\ consHash'[q] = consHash[q]
  BY DEF Completes
<1>2. /\ Round(p)' = Round(p) + 1 /\ Round(p) \in Nat
      /\ \A q \in Parties : /\ Round(q) \in Nat
                            /\ Round(q) = Round(p) \/ Round(q) = Round(p) + 1
                            /\ q # p => Round(q)' = Round(q)
  BY <1>1, CompleteRounds, RoundType
<1>3. \A x, y \in Parties : \A r :
        HasSent(x, r, "alphaBeta")' /\ HasSent(y, r, "alphaBeta")' =>
          sent'[y][r].content = sent'[x][r].content
  BY <1>1 DEF SameCons, HasSent
<1>4. \A q \in Parties : q # p => NextCons(q)' = NextCons(q)
  BY <1>1 DEF NextCons
<1>5. ASSUME NEW x \in Parties, NEW y \in Parties, x # p, y # p PROVE SameCons(x, y)'
  BY <1>1, <1>2, <1>3, <1>4, <1>5 DEF SameCons
<1>6. SameCons(p, p)'
  BY <1>2, <1>3 DEF SameCons
<1>7. ASSUME NEW q \in Parties, q # p, Round(q) = Round(p) + 1
      PROVE  SameCons(p, q)' /\ SameCons(q, p)'
  <2>1. consHash'[q] = consHash'[p]
    BY <1>1, <1>7 DEF SameCons
  <2> QED
    BY <1>2, <1>3, <1>7, <2>1 DEF SameCons
<1>8. ASSUME NEW q \in Parties, q # p, Round(q) = Round(p)
      PROVE  SameCons(p, q)' /\ SameCons(q, p)'
  <2>1. At(q) = At(p) /\ consHash[q] = consHash[p]
    BY <1>8 DEF RoundInv, PairInv, SamePlace, SameCons
  <2>2. NextCons(q)' = consHash'[p]
    BY <1>4, <1>8, <2>1 DEF NextCons
  <2> QED
    BY <1>2, <1>3, <1>8, <2>2 DEF SameCons
<1> QED
  BY <1>2, <1>5, <1>6, <1>7, <1>8

(* A completed round keeps all this, if it does so for who completes it.   *)
LEMMA NoFaultCompletes ==
  ASSUME FlowType, RoundInv, CheckInv, NoFaultInv, NEW p \in Parties, Completes(p),
         faults' = 0 =>
           /\ faults = 0 /\ consHash'[p] = NextCons(p) /\ ~consBad'[p] /\ ~openBad'[p]
           /\ pc'[p] = AfterRound(p, pc[p])
           /\ pc[p] = "inputs" => views'[p] = InputDigest
           /\ pc[p] = "outputs" => views'[p] # << >> /\ Last(views'[p]) = Entry("outputs", 0)
  PROVE  NoFaultInv'
<1>1. pc[p] \in RoundSteps /\ (pc[p] # "inputs" => \A q \in Parties : HasSent(q, LastRound(p), pc[p]))
  BY AllSent
<1>2. /\ sent' = sent /\ waiting'[p] = FALSE
      /\ pc'[p] = AfterRound(p, pc[p]) \/ pc'[p] = "aborted"
      /\ \A q \in Parties : q # p =>
           /\ pc'[q] = pc[q] /\ At(q)' = At(q) /\ waiting'[q] = waiting[q] /\ views'[q] = views[q]
           /\ consBad'[q] = consBad[q] /\ openBad'[q] = openBad[q]
  BY DEF Completes
<1>3. \A q, r, s : HasSent(q, r, s)' = HasSent(q, r, s)
  BY <1>2 DEF HasSent
<1>4. \A q \in Parties : LastRound(q)' = LastRound(q)
  BY <1>2 DEF LastRound
<1>5. ASSUME NEW q \in Parties PROVE DigestsHeard(q)'
  <2>1. CASE q = p
    <3>1. pc'[p] = "acceptInputs" => pc[p] = "inputDigest"
      BY <1>1, <1>2, AfterOnce
    <3> QED
      BY <1>1, <1>3, <1>4, <2>1, <3>1 DEF DigestsHeard
  <2>2. CASE q # p
    BY <1>2, <1>3, <1>4, <2>2 DEF NoFaultInv, DigestsHeard
  <2> QED
    BY <2>1, <2>2
<1>6. ASSUME faults' = 0, NEW q \in Parties PROVE QuietInv(q)'
  <2>1. QuietInv(q)
    BY <1>6 DEF NoFaultInv
  <2>2. CASE q = p
    <3>1. /\ pc'[p] = "inputDigest" => pc[p] = "inputs"
          /\ pc'[p] = "acceptOutputs" => pc[p] = "outputs"
          /\ pc'[p] \notin Setup \cup {"inputs", "aborted"}
      BY <1>1, <1>6, AfterOnce
    <3> QED
      BY <1>2, <1>3, <1>6, <2>1, <2>2, <3>1 DEF QuietInv
  <2>3. CASE q # p
    BY <1>2, <1>3, <2>1, <2>3 DEF QuietInv
  <2> QED
    BY <2>2, <2>3
<1>7. ASSUME faults' = 0 PROVE \A x, y \in Parties : SameCons(x, y)'
  BY <1>7, ConsStep DEF NoFaultInv
<1> QED
  BY <1>5, <1>6, <1>7 DEF NoFaultInv

(* Nothing that is opened is altered, so all checks are passed.            *)
LEMMA NoFaultOpening ==
  ASSUME FlowType, RoundInv, MailInv, CheckInv, StreamInv, NoFaultInv, NEW p \in Parties,
         NEW v \in {0, 1}, SeeOpening(p, v)
  PROVE  NoFaultInv'
<1> DEFINE s == pc[p]
<1>1. /\ Completes(p) /\ s \in Openings /\ s \in RoundSteps /\ At(p) = s
      /\ pc'[p] = AfterRound(p, s) /\ views'[p] = Append(views[p], Entry(s, v))
      /\ consHash'[p] = IF CheckingConsistency(s) THEN << >>
                        ELSE IF Consistent(s) THEN Append(consHash[p], Entry(s, v)) ELSE consHash[p]
      /\ consBad'[p] = (consBad[p] \/ (CheckingConsistency(s) /\ ~AllSameAs(p)))
      /\ openBad'[p] = (openBad[p] \/ (Verifying(s) /\ Head(commits[p]) # Append(openHash[p], Entry(s, v))))
  BY OpeningFacts
<1>2. faults' = faults + v /\ faults \in Nat
  BY DEF SeeOpening, StreamInv
<1>3. ASSUME faults' = 0
      PROVE  /\ faults = 0 /\ consHash'[p] = NextCons(p) /\ ~consBad'[p] /\ ~openBad'[p]
             /\ s = "inputs" => views'[p] = InputDigest
             /\ s = "outputs" => views'[p] # << >> /\ Last(views'[p]) = Entry("outputs", 0)
  <2>1. faults = 0 /\ v = 0 /\ QuietInv(p)
    BY <1>2, <1>3 DEF NoFaultInv
  <2>2. consHash'[p] = NextCons(p)
    BY <1>1, <2>1 DEF NextCons
  <2>3. CheckingConsistency(s) => AllSameAs(p)
    <3> SUFFICES ASSUME s = "alphaBeta" PROVE AllSameAs(p)
      BY Kinds
    <3>1. \A q \in Parties : HasSent(q, LastRound(p), "alphaBeta")
      BY <1>1, AllSent
    <3>2. \A q \in Parties : SameCons(p, q)
      BY <2>1 DEF NoFaultInv
    <3> QED
      BY <3>1, <3>2 DEF AllSameAs, Heard, SameCons
  <2>4. ~consBad'[p]
    BY <1>1, <2>1, <2>3 DEF QuietInv
  <2>5. Verifying(s) => Head(commits[p]) = Append(openHash[p], Entry(s, v))
    BY <1>1, <2>1, CommitmentMet DEF CheckInv
  <2>6. ~openBad'[p]
    BY <1>1, <2>1, <2>5 DEF QuietInv
  <2> DEFINE d == Entry(s, 0)
  <2>7. views'[p] = Append(views[p], d)
    BY <1>1, <2>1
  <2>8. s = "inputs" => views'[p] = InputDigest
    <3>1. s = "inputs" => views[p] = << >>
      BY <2>1 DEF QuietInv
    <3>2. Append(<< >>, d) = <<d>>
      <4> HIDE DEF d
      <4> QED
        OBVIOUS
    <3> QED
      BY <2>7, <3>1, <3>2 DEF InputDigest
  <2>9. views'[p] # << >> /\ Last(views'[p]) = d
    <3>1. views[p] \in Seq(Entries)
      BY ViewTypes DEF Digests
    <3> HIDE DEF d
    <3>2. /\ Len(views'[p]) = Len(views[p]) + 1 /\ Len(views[p]) \in Nat
          /\ views'[p][Len(views[p]) + 1] = d
      BY <2>7, <3>1, Longer
    <3>3. views'[p] # << >>
      BY <3>2
    <3> QED
      BY <3>2, <3>3 DEF Last
  <2> QED
    BY <2>1, <2>2, <2>4, <2>6, <2>8, <2>9
<1> QED
  BY <1>1, <1>3, NoFaultCompletes

(* The digests of the inputs and the verdicts: everybody says yes.         *)
LEMMA NoFaultRounds ==
  ASSUME FlowType, RoundInv, CheckInv, NoFaultInv, NEW p \in Parties,
         ReadDigests(p) \/ CheckForAccept(p)
  PROVE  NoFaultInv'
<1> DEFINE s == pc[p]
<1>1. /\ s \in Accepts \cup {"inputDigest"} /\ Complete(p) /\ s \in RoundSteps
      /\ UNCHANGED <<sent, faults, views, consHash, consBad, openBad, openHash>>
      /\ s # "inputs" /\ s # "outputs"
  BY StepFacts DEF ReadDigests, CheckForAccept, checks, Accepts, OneBit, AcceptSteps, RoundSteps
<1>2. PICK t \in PartySteps : Goto(p, t) /\ (t = AfterRound(p, s) \/ (t = "aborted" /\ s \in Accepts))
  <2>1. AfterRound(p, s) \in PartySteps /\ "aborted" \in PartySteps
    BY <1>1, AfterRoundFacts DEF PartySteps
  <2>2. CASE ReadDigests(p)
    BY <2>1, <2>2 DEF ReadDigests, AfterRound
  <2>3. CASE CheckForAccept(p)
    BY <2>1, <2>3 DEF CheckForAccept
  <2> QED
    BY <2>2, <2>3
<1>3. /\ pc'[p] = t /\ waiting'[p] = FALSE
      /\ \A q \in Parties : q # p => pc'[q] = pc[q] /\ waiting'[q] = waiting[q] /\ At(q)' = At(q)
  BY <1>2, PartyGoto
<1>4. \A q \in Parties : q # p => verdicts'[q] = verdicts[q]
  BY DEF ReadDigests, CheckForAccept, FlowType
<1>5. Completes(p)
  BY <1>1, <1>2, <1>3, <1>4 DEF Completes
<1>6. ASSUME faults = 0 PROVE pc'[p] = AfterRound(p, s)
  <2>1. CASE ReadDigests(p)
    BY <1>3, <2>1, PartyGoto DEF ReadDigests, AfterRound, PartySteps, RoundSteps, Accepts, OneBit
  <2>2. CASE CheckForAccept(p)
    <3>1. s \in Accepts /\ s # "inputs"
      BY <1>1, <2>2 DEF CheckForAccept
    <3>2. \A q \in Parties : HasSent(q, LastRound(p), s) /\ QuietInv(q)
      BY <1>5, <1>6, <3>1, AllSent DEF NoFaultInv
    <3>3. \A q \in Parties : Heard(p, q) = <<TRUE, TRUE>>
      BY <3>1, <3>2 DEF QuietInv, Heard
    <3>4. \A q \in Parties : Heard(p, q)[1] = TRUE /\ Heard(p, q)[2] = TRUE
      BY <3>3, PairOf
    <3>5. Verdict(p) = <<TRUE, TRUE>>
      <4> DEFINE a == \A q \in Parties : Heard(p, q)[1]
                 b == \A q \in Parties : Heard(p, q)[2]
      <4>1. a = TRUE /\ b = TRUE
        BY <3>4
      <4>2. Verdict(p) = <<a, b>>
        BY DEF Verdict
      <4> HIDE DEF a, b
      <4> QED
        BY <4>1, <4>2
    <3>6. Accepted(Verdict(p))
      BY <3>5, PairOf DEF Accepted
    <3>7. Goto(p, AfterRound(p, s)) /\ AfterRound(p, s) \in PartySteps
      BY <1>1, <2>2, <3>6, AfterRoundFacts DEF CheckForAccept, PartySteps
    <3> QED
      BY <3>7, PartyGoto
  <2> QED
    BY <2>1, <2>2
<1>7. NextCons(p) = consHash[p]
  <2>1. At(p) = s /\ s \notin Openings
    BY <1>1, StepFacts DEF At, RoundOf, RoundSteps, Openings, PrgSteps, SumSteps, RevealSteps
  <2>2. ~CheckingConsistency(s) /\ ~Consistent(s)
    BY <2>1, Kinds
  <2> QED
    BY <2>1, <2>2 DEF NextCons
<1>8. faults' = 0 =>
        /\ faults = 0 /\ consHash'[p] = NextCons(p) /\ ~consBad'[p] /\ ~openBad'[p]
        /\ pc'[p] = AfterRound(p, s)
  BY <1>1, <1>6, <1>7 DEF NoFaultInv, QuietInv
<1> QED
  BY <1>1, <1>5, <1>8, NoFaultCompletes

(* At the beginning nothing has been compared.                             *)
LEMMA NoFaultInit == Init => NoFaultInv
<1> SUFFICES ASSUME Init PROVE NoFaultInv
  OBVIOUS
<1>1. \A p \in Parties : /\ pc[p] = "outputA" /\ waiting[p] = FALSE /\ views[p] = << >>
                         /\ sent[p] = << >> /\ consHash[p] = << >>
                         /\ consBad[p] = FALSE /\ openBad[p] = FALSE
  BY ProcFacts DEF Init
<1>2. \A p \in Parties : \A r, s : ~HasSent(p, r, s)
  BY <1>1 DEF HasSent
<1>3. \A p, q \in Parties : Round(p) = 1
  BY <1>1 DEF Round, LastRound
<1>4. ASSUME NEW p \in Parties PROVE DigestsHeard(p) /\ QuietInv(p)
  BY <1>1, <1>2 DEF DigestsHeard, QuietInv
<1>5. ASSUME NEW p \in Parties, NEW q \in Parties PROVE SameCons(p, q)
  BY <1>1, <1>2, <1>3 DEF SameCons
<1> QED
  BY <1>4, <1>5 DEF NoFaultInv

(* No step makes a check fail as long as nothing that is opened is         *)
(* altered.                                                                *)
LEMMA NoFaultStep ==
  FlowType /\ RoundInv /\ MailInv /\ CheckInv /\ StreamInv /\ NoFaultInv /\ [Next]_vars => NoFaultInv'
<1> SUFFICES ASSUME FlowType, RoundInv, MailInv, CheckInv, StreamInv, NoFaultInv, [Next]_vars
             PROVE  NoFaultInv'
  OBVIOUS
<1>1. CASE Dealer
  <2>1. \A q \in Parties : At(q)' = At(q) /\ waiting'[q] = waiting[q]
    BY <1>1, DealerGoto
  <2>2. faults' = faults
    BY <1>1, DealerUntouched, ProcFacts
  <2>3. UNCHANGED <<sent, views, consHash, consBad, openBad>>
    BY <1>1, DealerType
  <2> QED
    BY <2>1, <2>2, <2>3, NoFaultFrame
<1>2. ASSUME NEW p \in Parties, PartyOutputA(p) \/ PartyGates(p) \/ ReadMail(p) \/ DrawY0(p)
      PROVE  NoFaultInv'
  <2>1. LocalStep(p)
    BY <1>2, LocalSteps
  <2>2. PICK t \in PartySteps : Goto(p, t) /\ RoundOf(t) = At(p)
    BY <2>1 DEF LocalStep
  <2>3. waiting[p] = FALSE
    BY <2>1, ProcFacts DEF LocalStep, FlowType
  <2>4. \A q \in Parties : At(q)' = At(q) /\ waiting'[q] = waiting[q]
    BY <2>2, <2>3, PartyGoto
  <2>5. UNCHANGED <<sent, views, consHash, consBad, openBad>>
    BY <2>1 DEF LocalStep
  <2>6. faults' = faults
    BY <1>2 DEF PartyOutputA, PartyGates, ReadMail, DrawY0
  <2> QED
    BY <2>4, <2>5, <2>6, NoFaultFrame
<1>3. ASSUME NEW p \in Parties, Party(p) PROVE NoFaultInv'
  BY <1>2, <1>3, NoFaultContribute, NoFaultOpening, NoFaultRounds DEF Party
<1>4. CASE UNCHANGED vars
  <2>1. UNCHANGED <<pc, waiting, sent, views, consHash, consBad, openBad, faults>>
    BY <1>4 DEF vars, flow, checks
  <2> QED
    BY <2>1, NoFaultFrame DEF At
<1> QED
  BY <1>1, <1>3, <1>4 DEF Next

(* In a run without faults all have the same digests and all say yes       *)
(* (openAdditive, checkForAccept).                                         *)
THEOREM QuietRuns == Spec => []NoFaultInv
<1>1. Init => NoFaultInv
  BY NoFaultInit
<1>2. FlowType /\ RoundInv /\ MailInv /\ CheckInv /\ StreamInv /\ NoFaultInv /\ [Next]_vars
        => NoFaultInv'
  BY NoFaultStep
<1> QED
  BY <1>1, <1>2, FlowCorrect, MailCorrect, ChecksCorrect, StreamsCorrect, PTL DEF Spec

(* Without a fault no check fails: none of the throws of                   *)
(* zkfliop_evaluator.cpp:1726-1771 is reached.                             *)
THEOREM NothingFails == Spec => []NoFalseAlarm
<1>1. NoFaultInv => NoFalseAlarm
  BY DEF NoFaultInv, QuietInv, NoFalseAlarm
<1> QED
  BY <1>1, QuietRuns, PTL

-----------------------------------------------------------------------------
(* The rounds of verify(), as proof_rounds_ counts them.  A seed is opened *)
(* in SeedRounds, a shareSum takes SumRounds.                              *)
SeedRounds == RoundsOf("r_bits")
SumRounds  == RoundsOf("triple")

(* The vectors are reduced R times, len[k] entries being left after k.     *)
Reductions(R, len) ==
  /\ R \in Nat /\ len[0] = VectorLength /\ ~(len[R] > Compression)
  /\ \A k \in 0..(R - 1) : len[k] > Compression /\ len[k + 1] = Reduced(len[k])

(* Rounds when k reductions are over, and when all are.                    *)
UpTo(k)     == 2 * SeedRounds + SumRounds + k * (SeedRounds + SumRounds)
AllRounds(R) == 4 * SeedRounds + 3 * SumRounds + 3 + R * (SeedRounds + SumRounds)

BeforeVerify == Setup \cup {"inputs", "inputDigest", "acceptInputs", "online"}

(* Who is at step s with vectors of n entries has counted c rounds.        *)
Counted(R, len, s, n, c) ==
  /\ s \in BeforeVerify \cup {"r_bits", "shareGamma", "r_merge"} => n = len[0]
  /\ s = "r_bits" => c = 0
  /\ s = "shareGamma" => c = SeedRounds
  /\ s = "r_merge" => c = SeedRounds + SumRounds
  /\ s = "reduce" => \E k \in 0..(R - 1) : n = len[k] /\ c = UpTo(k)
  /\ s = "alpha" => \E k \in 0..(R - 1) : n = len[k] /\ c = UpTo(k) + SumRounds
  /\ s \in {"y_0", "triple"} => c = UpTo(R)
  /\ s = "alphaBeta" => c = UpTo(R) + SumRounds
  /\ s = "accept1" => c = UpTo(R) + SumRounds + SeedRounds
  /\ s = "openTriple" => c = UpTo(R) + SumRounds + SeedRounds + 1
  /\ s = "accept2" => c = UpTo(R) + SumRounds + 2 * SeedRounds + 1
  /\ s = "openOutput" => c = UpTo(R) + SumRounds + 2 * SeedRounds + 2
  /\ s = "accept3" => c = UpTo(R) + 2 * SumRounds + 2 * SeedRounds + 2
  /\ s = "outputs" => c = AllRounds(R)

CountInv(R, len) ==
  /\ DOMAIN rounds = Parties
  /\ \A p \in Parties : Counted(R, len, pc[p], size[p], rounds[p])

(* What the steps of verify() cost.                                        *)
LEMMA Costs ==
  /\ SeedRounds \in 1..2 /\ SumRounds \in 1..2
  /\ \A s \in PrgSteps \cup {"openTriple"} : RoundsOf(s) = SeedRounds
  /\ \A s \in SumSteps \cup {"openOutput"} : RoundsOf(s) = SumRounds
  /\ \A s \in AcceptSteps : RoundsOf(s) = 1
  /\ \A k \in Nat : UpTo(k) \in Nat /\ UpTo(k + 1) = UpTo(k) + SumRounds + SeedRounds
  /\ UpTo(0) = 2 * SeedRounds + SumRounds
  /\ \A k \in Nat : AllRounds(k) = UpTo(k) + 2 * SumRounds + 2 * SeedRounds + 3
<1>1. /\ SeedRounds \in 1..2 /\ SumRounds \in 1..2
      /\ \A s \in PrgSteps \cup {"openTriple"} : RoundsOf(s) = SeedRounds
      /\ \A s \in SumSteps \cup {"openOutput"} : RoundsOf(s) = SumRounds
      /\ \A s \in AcceptSteps : RoundsOf(s) = 1
  BY DEF SeedRounds, SumRounds, RoundsOf, UsesPking, PrgSteps, SumSteps, AcceptSteps
<1> DEFINE c == SeedRounds + SumRounds
<1>2. c \in Nat
  BY <1>1
<1> HIDE DEF c
<1>3. \A k \in Nat : k * c \in Nat /\ (k + 1) * c = k * c + c /\ 0 * c = 0
  BY <1>2
<1>4. \A k \in Nat : /\ UpTo(k) = 2 * SeedRounds + SumRounds + k * c
                     /\ AllRounds(k) = 4 * SeedRounds + 3 * SumRounds + 3 + k * c
  BY DEF UpTo, AllRounds, c
<1>5. c = SeedRounds + SumRounds
  BY DEF c
<1>6. \A k \in Nat : UpTo(k) \in Nat /\ UpTo(k + 1) = UpTo(k) + SumRounds + SeedRounds
  <2> SUFFICES ASSUME NEW k \in Nat PROVE UpTo(k) \in Nat /\ UpTo(k + 1) = UpTo(k) + SumRounds + SeedRounds
    OBVIOUS
  <2> DEFINE a == k * c
             b == (k + 1) * c
  <2>1. a \in Nat /\ b = a + c /\ UpTo(k) = 2 * SeedRounds + SumRounds + a
        /\ UpTo(k + 1) = 2 * SeedRounds + SumRounds + b
    BY <1>3, <1>4
  <2> HIDE DEF a, b
  <2> QED BY <1>1, <1>5, <2>1
<1>7. UpTo(0) = 2 * SeedRounds + SumRounds
  BY <1>1, <1>3, <1>4
<1>8. ASSUME NEW k \in Nat PROVE AllRounds(k) = UpTo(k) + 2 * SumRounds + 2 * SeedRounds + 3
  <2> DEFINE a == k * c
  <2>1. a \in Nat /\ UpTo(k) = 2 * SeedRounds + SumRounds + a
        /\ AllRounds(k) = 4 * SeedRounds + 3 * SumRounds + 3 + a
    BY <1>3, <1>4
  <2> HIDE DEF a
  <2> QED BY <1>1, <2>1
<1> QED BY <1>1, <1>6, <1>7, <1>8

(* After k reductions, verify() reduces once more or goes on to the triple. *)
LEMMA NextReduction ==
  ASSUME NEW R, NEW len, Reductions(R, len), NEW k \in 0..R, NEW s \in {"r_merge", "alpha"}
  PROVE  \/ After(s, len[k]) = "reduce" /\ k \in 0..(R - 1)
         \/ After(s, len[k]) = "y_0" /\ k = R
<1>1. k \in 0..(R - 1) \/ k = R
  BY DEF Reductions
<1>2. After(s, len[k]) = IF len[k] > Compression THEN "reduce" ELSE "y_0"
  BY DEF After
<1> QED BY <1>1, <1>2 DEF Reductions

(* A round counts what it costs.                                           *)
LEMMA RoundCounted ==
  ASSUME NEW R, NEW len, Reductions(R, len), NEW p, NEW s \in RoundSteps,
         Counted(R, len, s, size[p], rounds[p])
  PROVE  Counted(R, len, AfterRound(p, s), SizeAfter(s, size[p]),
                 IF AfterRound(p, s) = "r_bits" THEN 0 ELSE rounds[p] + RoundsOf(s))
<1> DEFINE t == AfterRound(p, s)
           n == SizeAfter(s, size[p])
           c == IF t = "r_bits" THEN 0 ELSE rounds[p] + RoundsOf(s)
<1>1. R \in Nat /\ len[0] = VectorLength /\ 0 \in 0..R
  BY DEF Reductions
<1>2. SeedRounds \in 1..2 /\ SumRounds \in 1..2 /\ UpTo(R) \in Nat
  BY <1>1, Costs
<1>3. s # "alpha" => n = size[p]
  BY DEF SizeAfter
<1>4. CASE s \in {"inputs", "inputDigest", "acceptInputs", "online"}
  <2>1. n = len[0] /\ t \in {"inputDigest", "acceptInputs", "online", "r_bits"}
    BY <1>3, <1>4 DEF Counted, BeforeVerify, AfterRound
  <2>2. t = "r_bits" => c = 0
    OBVIOUS
  <2> HIDE DEF t, n, c
  <2>3. Counted(R, len, t, n, c)
    BY <2>1, <2>2 DEF Counted
  <2> QED BY <2>3 DEF t, n, c
<1>5. CASE s = "r_bits"
  <2>1. n = len[0] /\ t = "shareGamma" /\ c = SeedRounds
    BY <1>2, <1>3, <1>5, Costs DEF Counted, AfterRound, After, PrgSteps
  <2> HIDE DEF t, n, c
  <2>2. Counted(R, len, t, n, c)
    BY <2>1 DEF Counted
  <2> QED BY <2>2 DEF t, n, c
<1>6. CASE s = "shareGamma"
  <2>1. n = len[0] /\ t = "r_merge" /\ c = SeedRounds + SumRounds
    BY <1>2, <1>3, <1>6, Costs DEF Counted, AfterRound, After, SumSteps
  <2> HIDE DEF t, n, c
  <2>2. Counted(R, len, t, n, c)
    BY <2>1 DEF Counted
  <2> QED BY <2>2 DEF t, n, c
<1>7. ASSUME NEW k \in 0..R, s \in {"r_merge", "alpha"}, n = len[k], c = UpTo(k)
      PROVE  Counted(R, len, t, n, c)
  <2>1. t = After(s, len[k])
    BY <1>7 DEF AfterRound
  <2>2. (t = "reduce" /\ k \in 0..(R - 1)) \/ (t = "y_0" /\ k = R)
    BY <1>7, <2>1, NextReduction
  <2> HIDE DEF t, n, c
  <2> QED BY <1>7, <2>2 DEF Counted, BeforeVerify, Setup, Expected
<1>8. CASE s = "r_merge"
  <2>1. n = len[0] /\ c = UpTo(0)
    <3>1. t # "r_bits"
      BY <1>8 DEF AfterRound, After
    <3> QED BY <1>2, <1>3, <1>8, <3>1, Costs DEF Counted, PrgSteps
  <2> QED BY <1>1, <1>7, <1>8, <2>1
<1>9. CASE s = "reduce"
  <2>1. PICK k \in 0..(R - 1) : size[p] = len[k] /\ rounds[p] = UpTo(k)
    BY <1>9 DEF Counted
  <2>2. k \in Nat
    BY <1>1
  <2>3. n = len[k] /\ t = "alpha" /\ c = UpTo(k) + SumRounds
    BY <1>3, <1>9, <2>1, Costs DEF AfterRound, After, SumSteps
  <2> HIDE DEF t, n, c
  <2>4. Counted(R, len, t, n, c)
    BY <2>3 DEF Counted, BeforeVerify, Setup, Expected
  <2> QED BY <2>4 DEF t, n, c
<1>10. CASE s = "alpha"
  <2>1. PICK k \in 0..(R - 1) : size[p] = len[k] /\ rounds[p] = UpTo(k) + SumRounds
    BY <1>10 DEF Counted
  <2>2. k \in Nat /\ k + 1 \in 0..R
    BY <1>1
  <2>3. n = len[k + 1]
    BY <1>10, <2>1 DEF Reductions, SizeAfter
  <2>4. c = UpTo(k + 1)
    <3>1. t # "r_bits"
      BY <1>10 DEF AfterRound, After
    <3> QED BY <1>2, <1>10, <2>1, <2>2, <3>1, Costs DEF PrgSteps
  <2> QED BY <1>7, <1>10, <2>2, <2>3, <2>4
<1>11. CASE s = "triple"
  <2>1. t = "alphaBeta" /\ c = UpTo(R) + SumRounds
    BY <1>2, <1>11, Costs DEF Counted, AfterRound, After, SumSteps
  <2> HIDE DEF t, n, c
  <2>2. Counted(R, len, t, n, c)
    BY <2>1 DEF Counted, BeforeVerify, Setup, Expected
  <2> QED BY <2>2 DEF t, n, c
<1>12. CASE s = "alphaBeta"
  <2>1. t = "accept1" /\ c = UpTo(R) + SumRounds + SeedRounds
    BY <1>2, <1>12, Costs DEF Counted, AfterRound, After, PrgSteps
  <2> HIDE DEF t, n, c
  <2>2. Counted(R, len, t, n, c)
    BY <2>1 DEF Counted, BeforeVerify, Setup, Expected
  <2> QED BY <2>2 DEF t, n, c
<1>13. CASE s = "accept1"
  <2>1. t = "openTriple" /\ c = UpTo(R) + SumRounds + SeedRounds + 1
    BY <1>2, <1>13, Costs DEF Counted, AfterRound, After, AcceptSteps
  <2> HIDE DEF t, n, c
  <2>2. Counted(R, len, t, n, c)
    BY <2>1 DEF Counted, BeforeVerify, Setup, Expected
  <2> QED BY <2>2 DEF t, n, c
<1>14. CASE s = "openTriple"
  <2>1. t = "accept2" /\ c = UpTo(R) + SumRounds + 2 * SeedRounds + 1
    BY <1>2, <1>14, Costs DEF Counted, AfterRound, After
  <2> HIDE DEF t, n, c
  <2>2. Counted(R, len, t, n, c)
    BY <2>1 DEF Counted, BeforeVerify, Setup, Expected
  <2> QED BY <2>2 DEF t, n, c
<1>15. CASE s = "accept2"
  <2>1. t = "openOutput" /\ c = UpTo(R) + SumRounds + 2 * SeedRounds + 2
    BY <1>2, <1>15, Costs DEF Counted, AfterRound, After, AcceptSteps
  <2> HIDE DEF t, n, c
  <2>2. Counted(R, len, t, n, c)
    BY <2>1 DEF Counted, BeforeVerify, Setup, Expected
  <2> QED BY <2>2 DEF t, n, c
<1>16. CASE s = "openOutput"
  <2>1. t = "accept3" /\ c = UpTo(R) + 2 * SumRounds + 2 * SeedRounds + 2
    BY <1>2, <1>16, Costs DEF Counted, AfterRound, After
  <2> HIDE DEF t, n, c
  <2>2. Counted(R, len, t, n, c)
    BY <2>1 DEF Counted, BeforeVerify, Setup, Expected
  <2> QED BY <2>2 DEF t, n, c
<1>17. CASE s = "accept3"
  <2>1. t = "outputs" /\ c = AllRounds(R)
    BY <1>1, <1>2, <1>17, Costs DEF Counted, AfterRound, AcceptSteps
  <2> HIDE DEF t, n, c
  <2>2. Counted(R, len, t, n, c)
    BY <2>1 DEF Counted, BeforeVerify, Setup, Expected
  <2> QED BY <2>2 DEF t, n, c
<1>18. CASE s \in {"outputs", "acceptOutputs"}
  <2>1. t \in {"acceptOutputs", "done"}
    BY <1>18 DEF AfterRound
  <2> HIDE DEF t, n, c
  <2>2. Counted(R, len, t, n, c)
    BY <2>1 DEF Counted, BeforeVerify, Setup, Expected
  <2> QED BY <2>2 DEF t, n, c
<1> QED
  BY <1>4, <1>5, <1>6, <1>8, <1>9, <1>10, <1>11, <1>12, <1>13, <1>14, <1>15, <1>16, <1>17, <1>18
  DEF RoundSteps, Openings, Accepts, OneBit, PrgSteps, SumSteps, RevealSteps, AcceptSteps

(* A step of one party keeps the count if it does for that party.          *)
LEMMA CountFrame ==
  ASSUME NEW R, NEW len, FlowType, CountInv(R, len), NEW p \in Parties, NEW s \in PartySteps, Goto(p, s),
         DOMAIN rounds' = Parties, \A q \in Parties : q # p => size'[q] = size[q] /\ rounds'[q] = rounds[q],
         Counted(R, len, s, size'[p], rounds'[p])
  PROVE  CountInv(R, len)'
<1>1. pc'[p] = s /\ \A q \in Parties : q # p => pc'[q] = pc[q]
  BY PartyGoto
<1> QED BY <1>1 DEF CountInv

(* Every step keeps it.                                                    *)
LEMMA CountStep ==
  ASSUME NEW R, NEW len, Reductions(R, len), FlowType, CountInv(R, len), [Next]_vars
  PROVE  CountInv(R, len)'
<1>1. DOMAIN rounds = Parties /\ DOMAIN size = Procs /\ 0 \notin Parties /\ \A p \in Parties : p \in Procs
  BY ProcFacts DEF FlowType, CountInv
<1>2. \A p \in Parties : Counted(R, len, pc[p], size[p], rounds[p])
  BY DEF CountInv
<1>3. CASE Dealer
  <2>1. \A p \in Parties : pc'[p] = pc[p]
    BY <1>3, DealerGoto
  <2>2. rounds' = rounds /\ \A p \in Parties : size'[p] = size[p]
    BY <1>1, <1>3 DEF Dealer, DealerLocal, DealerVerify, SendCommits, SendRandomizers, SendOutputRandomizers,
                      SendOutputCommit
  <2> QED BY <1>1, <1>2, <2>1, <2>2 DEF CountInv
<1>4. ASSUME NEW p \in Parties, PartyOutputA(p) \/ PartyGates(p) \/ ReadMail(p) PROVE CountInv(R, len)'
  <2>1. pc[p] \in Setup /\ \E s \in Setup \cup {"inputs"} : Goto(p, s)
    BY <1>4 DEF PartyOutputA, PartyGates, ReadMail, Setup, Expected, AfterMail
  <2>2. rounds' = rounds /\ size' = size
    BY <1>4 DEF PartyOutputA, PartyGates, ReadMail
  <2>3. PICK s \in Setup \cup {"inputs"} : Goto(p, s)
    BY <2>1
  <2>4. s \in PartySteps /\ Counted(R, len, s, size[p], rounds[p])
    BY <1>2, <2>1, <2>3, StepFacts DEF Counted, BeforeVerify, Setup, Expected, PartySteps
  <2> QED BY <1>1, <2>2, <2>3, <2>4, CountFrame
<1>5. ASSUME NEW p \in Parties, DrawY0(p) PROVE CountInv(R, len)'
  <2>1. pc[p] = "y_0" /\ Goto(p, "triple") /\ rounds' = rounds /\ size' = size
    BY <1>5, AfterFacts DEF DrawY0
  <2>2. "triple" \in PartySteps /\ Counted(R, len, "triple", size[p], rounds[p])
    BY <1>2, <2>1, StepFacts DEF Counted, BeforeVerify, Setup, Expected, PartySteps
  <2> QED BY <1>1, <2>1, <2>2, CountFrame
<1>6. ASSUME NEW p \in Parties, Contribute(p) PROVE CountInv(R, len)'
  <2>1. pc' = pc /\ size' = size /\ rounds' = rounds
    BY <1>6 DEF Contribute
  <2> QED BY <1>1, <1>2, <2>1 DEF CountInv
<1>7. ASSUME NEW p \in Parties, NEW v \in {0, 1}, SeeOpening(p, v) PROVE CountInv(R, len)'
  <2>1. /\ pc[p] \in RoundSteps /\ Goto(p, AfterRound(p, pc[p])) /\ CountRounds(p, pc[p])
        /\ size' = [size EXCEPT ![p] = SizeAfter(pc[p], @)]
    BY <1>7, StepFacts DEF SeeOpening
  <2>2. /\ DOMAIN rounds' = Parties /\ \A q \in Parties : q # p => size'[q] = size[q] /\ rounds'[q] = rounds[q]
        /\ size'[p] = SizeAfter(pc[p], size[p])
        /\ rounds'[p] = IF AfterRound(p, pc[p]) = "r_bits" THEN 0 ELSE rounds[p] + RoundsOf(pc[p])
    BY <1>1, <2>1 DEF CountRounds
  <2>3. AfterRound(p, pc[p]) \in PartySteps
    BY <2>1, AfterRoundFacts DEF PartySteps
  <2>4. Counted(R, len, AfterRound(p, pc[p]), size'[p], rounds'[p])
    BY <1>2, <2>1, <2>2, RoundCounted
  <2> QED BY <2>1, <2>2, <2>3, <2>4, CountFrame
<1>8. ASSUME NEW p \in Parties, ReadDigests(p) PROVE CountInv(R, len)'
  <2>1. pc[p] = "inputDigest" /\ Goto(p, "acceptInputs") /\ rounds' = rounds /\ size' = size
    BY <1>8 DEF ReadDigests
  <2>2. "acceptInputs" \in PartySteps /\ Counted(R, len, "acceptInputs", size[p], rounds[p])
    BY <1>2, <2>1 DEF Counted, BeforeVerify, PartySteps, RoundSteps, Accepts, OneBit
  <2> QED BY <1>1, <2>1, <2>2, CountFrame
<1>9. ASSUME NEW p \in Parties, CheckForAccept(p) PROVE CountInv(R, len)'
  <2> DEFINE t == IF Accepted(Verdict(p)) THEN AfterRound(p, pc[p]) ELSE "aborted"
  <2>1. /\ pc[p] \in RoundSteps /\ pc[p] \in Accepts /\ Goto(p, t) /\ CountRounds(p, pc[p]) /\ size' = size
    BY <1>9, StepFacts DEF CheckForAccept
  <2>2. /\ DOMAIN rounds' = Parties /\ \A q \in Parties : q # p => rounds'[q] = rounds[q]
        /\ rounds'[p] = IF AfterRound(p, pc[p]) = "r_bits" THEN 0 ELSE rounds[p] + RoundsOf(pc[p])
    BY <1>1, <2>1 DEF CountRounds
  <2>3. AfterRound(p, pc[p]) \in PartySteps /\ "aborted" \in PartySteps /\ size[p] = SizeAfter(pc[p], size[p])
    BY <2>1, AfterRoundFacts, StepFacts DEF PartySteps, SizeAfter
  <2>4. Counted(R, len, AfterRound(p, pc[p]), SizeAfter(pc[p], size[p]), rounds'[p])
    BY <1>2, <2>1, <2>2, RoundCounted
  <2>5. Counted(R, len, "aborted", size[p], rounds'[p])
    BY DEF Counted, BeforeVerify, Setup, Expected
  <2>6. t \in PartySteps /\ Counted(R, len, t, size'[p], rounds'[p])
    BY <2>1, <2>3, <2>4, <2>5
  <2> HIDE DEF t
  <2> QED BY <2>1, <2>2, <2>6, CountFrame
<1>10. CASE UNCHANGED vars
  <2>1. pc' = pc /\ size' = size /\ rounds' = rounds
    BY <1>10 DEF vars, flow
  <2> QED BY <1>1, <1>2, <2>1 DEF CountInv
<1> QED BY <1>3, <1>4, <1>5, <1>6, <1>7, <1>8, <1>9, <1>10 DEF Next, Party

(* Nothing is counted at first.                                            *)
LEMMA CountInit ==
  ASSUME NEW R, NEW len, Reductions(R, len), Init
  PROVE  CountInv(R, len)
<1>1. /\ DOMAIN rounds = Parties
      /\ \A p \in Parties : pc[p] = "outputA" /\ size[p] = VectorLength
  BY ProcFacts DEF Init
<1>2. "outputA" \in BeforeVerify
  BY DEF BeforeVerify, Setup
<1> QED BY <1>1, <1>2 DEF CountInv, Counted, Reductions

(* proof_rounds_, as the benchmark reads it between verify() and           *)
(* getOutputs(): for any circuit, its vectors being reduced R times, and   *)
(* each choice of pking_verify (zkfliop_evaluator.cpp:1059-1208).          *)
THEOREM RoundsCounted ==
  ASSUME NEW R, NEW len, Reductions(R, len)
  PROVE  Spec => [](\A p \in Parties : pc[p] = "outputs" => rounds[p] = AllRounds(R))
<1>1. Init => CountInv(R, len)
  BY CountInit
<1>2. FlowType /\ CountInv(R, len) /\ [Next]_vars => CountInv(R, len)'
  BY CountStep
<1>3. CountInv(R, len) => \A p \in Parties : pc[p] = "outputs" => rounds[p] = AllRounds(R)
  BY DEF CountInv, Counted
<1> QED BY <1>1, <1>2, <1>3, FlowCorrect, PTL DEF Spec

(* With two reductions and the default pking_verify, 19 rounds, as         *)
(* README.md:159 reports (RoundsAsDocumented).                             *)
THEOREM RoundsAreDocumented ==
  ASSUME PkingVerify = 1, VectorLength > Compression, Reduced(VectorLength) > Compression,
         ~(Reduced(Reduced(VectorLength)) > Compression)
  PROVE  Spec => []RoundsAsDocumented
<1> DEFINE len == [k \in 0..2 |-> IF k = 0 THEN VectorLength
                                  ELSE IF k = 1 THEN Reduced(VectorLength)
                                  ELSE Reduced(Reduced(VectorLength))]
<1>1. Reductions(2, len)
  <2>1. /\ len[0] = VectorLength /\ len[1] = Reduced(VectorLength) /\ len[2] = Reduced(Reduced(VectorLength))
    OBVIOUS
  <2> HIDE DEF len
  <2>2. ASSUME NEW k \in 0..(2 - 1) PROVE len[k] > Compression /\ len[k + 1] = Reduced(len[k])
    <3>1. k = 0 \/ k = 1
      OBVIOUS
    <3>2. CASE k = 0
      BY <2>1, <3>2
    <3>3. CASE k = 1
      BY <2>1, <3>3
    <3> QED BY <3>1, <3>2, <3>3
  <2> QED BY <2>1, <2>2 DEF Reductions
<1> HIDE DEF len
<1>2. Init => CountInv(2, len)
  BY <1>1, CountInit
<1>3. FlowType /\ CountInv(2, len) /\ [Next]_vars => CountInv(2, len)'
  BY <1>1, CountStep
<1>4. CountInv(2, len) => RoundsAsDocumented
  <2>1. AllRounds(2) = 19
    BY DEF AllRounds, SeedRounds, SumRounds, RoundsOf, UsesPking, PrgSteps, SumSteps
  <2> QED BY <2>1 DEF CountInv, Counted, RoundsAsDocumented
<1> QED BY <1>2, <1>3, <1>4, FlowCorrect, PTL DEF Spec

-----------------------------------------------------------------------------
(* The vectors have a length, and reducing leaves a part of it.            *)
LEMMA VectorLengthFacts == VectorLength \in Nat /\ VectorLength >= 1
<1> DEFINE Part(i) == {i} \X (1..(2 * Dims[i] + 1))
           Pieces == {Part(i) : i \in DOMAIN Dims}
           f == [i \in DOMAIN Dims |-> Part(i)]
<1>1. /\ DOMAIN Dims = 1..Len(Dims) /\ Len(Dims) \in Nat /\ 1 \in DOMAIN Dims
      /\ \A i \in DOMAIN Dims : Dims[i] \in Nat
  BY VerifyAssumption DEF VerifyAssumption
<1>2. IsFiniteSet(DOMAIN Dims)
  BY <1>1, FS_Interval
<1>3. IsFiniteSet(Pieces)
  <2>1. f \in [DOMAIN Dims -> Pieces] /\ \A T \in Pieces : \E i \in DOMAIN Dims : f[i] = T
    OBVIOUS
  <2> HIDE DEF f, Pieces
  <2>2. f \in Surjection(DOMAIN Dims, Pieces)
    BY <2>1 DEF Surjection
  <2> QED BY <1>2, <2>2, FS_Surjection
<1>4. \A T \in Pieces : IsFiniteSet(T)
  <2> SUFFICES ASSUME NEW i \in DOMAIN Dims PROVE IsFiniteSet(Part(i))
    OBVIOUS
  <2>1. 2 * Dims[i] + 1 \in Int /\ 1 \in Int
    BY <1>1
  <2>2. IsFiniteSet(1..(2 * Dims[i] + 1))
    BY <2>1, FS_Interval
  <2>3. IsFiniteSet({i})
    BY FS_Singleton
  <2> QED BY <2>2, <2>3, FS_Product
<1>5. IsFiniteSet(Slots)
  BY <1>3, <1>4, FS_UNION DEF Slots
<1>6. Slots # {}
  <2>1. <<1, 1>> \in Part(1)
    BY <1>1
  <2> QED BY <1>1, <2>1 DEF Slots
<1>7. Cardinality(Slots) \in Nat /\ Cardinality(Slots) # 0
  BY <1>5, <1>6, FS_CardinalityType, FS_EmptySet
<1> QED BY <1>7 DEF VectorLength

LEMMA ReducedFacts ==
  ASSUME NEW n \in 1..VectorLength
  PROVE  Reduced(n) \in 1..VectorLength
<1> DEFINE C == Compression
           a == n + C - 1
           q == a \div C
<1>1. n \in Nat /\ n >= 1 /\ C \in Nat /\ C >= 2 /\ VectorLength \in Nat
  BY VectorLengthFacts, VerifyAssumption DEF VerifyAssumption
<1>2. a \in Nat /\ a >= C
  BY <1>1
<1> HIDE DEF C
<1>3. q \in Int /\ C * q <= a /\ a < C * q + C
  <2> HIDE DEF a
  <2> QED BY <1>1, <1>2
<1> HIDE DEF q
<1>4. q >= 1
  <2> SUFFICES ASSUME q <= 0 PROVE FALSE
    BY <1>3
  <2>1. C * q <= 0
    BY <1>1, <1>3
  <2> QED BY <1>1, <1>2, <1>3, <2>1
<1>5. q <= n
  <2> SUFFICES ASSUME q >= n + 1 PROVE FALSE
    BY <1>1, <1>3
  <2>1. C * q >= C * (n + 1)
    BY <1>1, <1>3
  <2>2. C * (n + 1) = C * n + C /\ C * n >= n /\ C * n \in Int /\ C * q \in Int
    BY <1>1, <1>3
  <2> QED BY <1>1, <1>3, <2>1, <2>2
<1>6. Reduced(n) = q
  BY DEF Reduced, q, a, C
<1> QED BY <1>1, <1>3, <1>4, <1>5, <1>6

(* What the other invariants do not say of the types.                      *)
RestType ==
  /\ size \in [Procs -> 1..VectorLength] /\ rounds \in [Parties -> Nat]
  /\ prg \in [Parties -> PrgSteps \cup {"none"}] /\ faults \in 0..MaxFaults

LEMMA RoundsNat == \A s : RoundsOf(s) \in Nat
  BY DEF RoundsOf

LEMMA RestStep == FlowType /\ RestType /\ [Next]_vars => RestType'
<1> SUFFICES ASSUME FlowType, RestType, [Next]_vars PROVE RestType'
  OBVIOUS
<1>0. /\ MaxFaults \in Nat /\ \A p \in Parties : p \in Procs
      /\ \A s, n : n \in 1..VectorLength => SizeAfter(s, n) \in 1..VectorLength
  BY ProcFacts, ReducedFacts, VerifyAssumption DEF VerifyAssumption, SizeAfter
<1>1. CASE Dealer
  <2>1. rounds' = rounds /\ prg' = prg /\ faults' = faults
    BY <1>1 DEF Dealer, DealerLocal, DealerVerify, SendCommits, SendRandomizers, SendOutputRandomizers,
                SendOutputCommit, coinVars
  <2>2. size' = size \/ size' = [size EXCEPT ![0] = SizeAfter(pc[0], @)]
    BY <1>1 DEF Dealer, DealerLocal, DealerVerify, SendCommits, SendRandomizers, SendOutputRandomizers,
                SendOutputCommit
  <2> QED BY <1>0, <2>1, <2>2, ProcFacts DEF RestType
<1>2. ASSUME NEW p \in Parties,
             PartyOutputA(p) \/ PartyGates(p) \/ ReadMail(p) \/ DrawY0(p) \/ Contribute(p) \/ ReadDigests(p)
      PROVE  RestType'
  <2>1. UNCHANGED <<size, rounds, prg, faults>>
    BY <1>2 DEF PartyOutputA, PartyGates, ReadMail, DrawY0, Contribute, ReadDigests, coinVars
  <2> QED BY <2>1 DEF RestType
<1>3. ASSUME NEW p \in Parties, CountRounds(p, pc[p]) PROVE rounds' \in [Parties -> Nat]
  <2>1. rounds[p] + RoundsOf(pc[p]) \in Nat
    BY RoundsNat DEF RestType
  <2> QED BY <1>3, <2>1 DEF CountRounds, RestType
<1>4. ASSUME NEW p \in Parties, NEW v \in {0, 1}, SeeOpening(p, v) PROVE RestType'
  <2>1. rounds' \in [Parties -> Nat]
    BY <1>3, <1>4 DEF SeeOpening
  <2>2. /\ size' = [size EXCEPT ![p] = SizeAfter(pc[p], @)] /\ faults' = faults + v
        /\ v = 0 \/ (v = 1 /\ faults < MaxFaults)
        /\ prg' = [prg EXCEPT ![p] = IF pc[p] = "r_bits" THEN pc[p] ELSE @]
    BY <1>4 DEF SeeOpening
  <2>3. faults' \in 0..MaxFaults
    BY <1>0, <2>2 DEF RestType
  <2>4. prg' \in [Parties -> PrgSteps \cup {"none"}]
    BY <2>2 DEF RestType, PrgSteps
  <2>5. size' \in [Procs -> 1..VectorLength]
    BY <1>0, <2>2 DEF RestType
  <2> QED BY <2>1, <2>3, <2>4, <2>5 DEF RestType
<1>5. ASSUME NEW p \in Parties, CheckForAccept(p) PROVE RestType'
  <2>1. rounds' \in [Parties -> Nat] /\ UNCHANGED <<size, prg, faults>>
    BY <1>3, <1>5 DEF CheckForAccept, coinVars
  <2> QED BY <2>1 DEF RestType
<1>6. CASE UNCHANGED vars
  BY <1>6 DEF vars, flow, coinVars, RestType
<1> QED BY <1>1, <1>2, <1>4, <1>5, <1>6 DEF Next, Party

LEMMA RestInit == Init => RestType
  BY VectorLengthFacts, VerifyAssumption DEF VerifyAssumption, Init, RestType

(* Every variable keeps its type, whatever the circuit and the faults      *)
(* (TypeOK): sizes, levels and counters stay within what the circuit has,  *)
(* and queues hold digests of openings.                                    *)
THEOREM TypeCorrect == Spec => []TypeOK
<1>1. Spec => []RestType
  BY RestInit, RestStep, FlowCorrect, PTL DEF Spec
<1>2. FlowType /\ RestType /\ MailInv /\ CheckInv => TypeOK
  <2> SUFFICES ASSUME FlowType, RestType, MailInv, CheckInv PROVE TypeOK
    OBVIOUS
  <2>1. \A p \in Procs : commits[p] \in Seq(Commitments)
    BY ProcFacts DEF MailInv, DealerInv, CheckInv, CommitInv
  <2>2. ASSUME NEW d \in Commitments PROVE d # << >> /\ \A e \in DOMAIN d : d[e].step \in Openings
    <3>1. d \in Seq(Entries) /\ d # << >>
      BY DEF Commitments, Digests
    <3>2. \A e \in DOMAIN d : d[e] \in Entries
      <4> HIDE DEF Entries
      <4> QED BY <3>1
    <3> QED BY <3>1, <3>2 DEF Entries
  <2>3. ASSUME NEW p \in Procs, NEW k \in DOMAIN commits[p] PROVE commits[p][k] \in Commitments
    BY <2>1
  <2>4. ASSUME NEW p \in Parties
        PROVE  /\ \A r \in DOMAIN sent[p] : sent[p][r].step \in RoundSteps
               /\ \A k \in DOMAIN views[p] : views[p][k].step \in Openings /\ views[p][k].view \in {0, 1}
    <3>1. sent[p] \in Seq(Messages) /\ views[p] \in Seq(Entries)
      BY DEF FlowType, Digests
    <3>2. ASSUME NEW r \in DOMAIN sent[p] PROVE sent[p][r] \in Messages
      BY <3>1
    <3>3. ASSUME NEW k \in DOMAIN views[p] PROVE views[p][k] \in Entries
      BY <3>1
    <3>4. \A m \in Messages : m.step \in RoundSteps
      BY DEF Messages
    <3>5. \A e \in Entries : e.step \in Openings /\ e.view \in {0, 1}
      BY DEF Entries
    <3> QED BY <3>2, <3>3, <3>4, <3>5
  <2>5. \A p \in Procs : pc[p] \in VerifySteps \cup RoundSteps \cup DOMAIN Expected \cup
          {"outputA", "gates", "verified", "sendRandomizers", "outputB", "sendOutputCommit", "done", "aborted"}
    BY DEF FlowType, PartySteps, DealerSteps, Setup, VerifySteps
  <2> QED BY <2>2, <2>3, <2>4, <2>5 DEF TypeOK, FlowType, RestType
<1> QED BY <1>1, <1>2, FlowCorrect, MailCorrect, ChecksCorrect, PTL
=============================================================================
