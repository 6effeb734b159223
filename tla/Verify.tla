------------------------------- MODULE Verify -------------------------------
(***************************************************************************)
(* The control of the verified evaluators zkfliop::Evaluator               *)
(* (src/src/protocol/zkfliop_evaluator.cpp) and, for dot products,         *)
(* DotPEvaluator (zkfliop_evaluator_dotp.cpp): setup, inputs, evaluation,  *)
(* the distributed proof verify() and the outputs.  The dealer runs        *)
(* verify() during the setup, all alone, and hands out commitments; the    *)
(* parties run the same method much later, online.                         *)
(*                                                                         *)
(* Values are abstracted to what a party sees of an opened vector: its     *)
(* view is 0 if it is what the shares sum to, else what a fault made of    *)
(* it.  A digest is the sequence of what was put into the hash.  The       *)
(* parties' exchanges (reconstruct, the digests, the accept bits) are      *)
(* rounds: a party broadcasts a message, then reads one of every other; in *)
(* the round of the inputs it reads only from parties that provide some.    *)
(* Faults alter what is opened; digests and accept bits arrive as sent.     *)
(***************************************************************************)
EXTENDS NetIOMP, SequencesExt

CONSTANTS nP,            \* number of computing parties
          Dims,          \* the dimensions of the multiplications: 1 for kMul
          MultLevels,    \* levels with multiplications
          NumOutputs,    \* circ_.outputs.size()
          Providers,     \* the parties that provide inputs
          Compression,   \* compression_factor_
          SSEC,          \* statistical security parameter
          PkingSemi,     \* pking_semi_
          PkingVerify,   \* pking_verify_
          MaxFaults      \* bound: how many views are altered in a run

Parties  == 1..nP
NumMults == Len(Dims)                                         \* m, mordotp

(* The vectors have 3 entries for kMul and 2n + 1 for a kDotprod of n      *)
(* terms: the derived class, which has the control of the base class       *)
(* otherwise.                                                              *)
Slots        == UNION {{i} \X (1..(2 * Dims[i] + 1)) : i \in DOMAIN Dims}
VectorLength == Cardinality(Slots)

(* A factor of 1 never shrinks a vector, and no multiplication leaves an   *)
(* empty one: both are outside what verify() can run on.                   *)
ASSUME VerifyAssumption ==
  /\ nP \in Nat /\ nP >= 2 /\ Procs = 0..nP /\ EagerFlush
  /\ Dims \in Seq(Nat \ {0}) /\ Dims # << >>
  /\ MultLevels \in 1..NumMults /\ NumOutputs \in Nat \ {0}
  /\ Providers \subseteq Parties
  /\ Compression \in Nat /\ Compression >= 2 /\ SSEC \in Nat \ {0}
  /\ PkingSemi \in BOOLEAN /\ PkingVerify \in 0..2 /\ MaxFaults \in Nat

VARIABLES pc,          \* the step a process is in
          waiting,     \* TRUE between a party's broadcast and its reads
          level,       \* the multiplication level being evaluated
          size,        \* y.size(), the length of the vectors of the proof
          drawn,       \* drawn[p]: what p has drawn from its stream
          dealt,       \* dealt[p]: what the dealer has drawn from it
          sent,        \* sent[p]: the broadcasts of p, one per round
          views,       \* views[p]: what p saw of every opened vector
          openHash,    \* check_opening_hash_; number_unchecked_openings_ is 0
                       \*   exactly when nothing is in it
          consHash,    \* pking_consistency_hash_ of the parties, and in the
                       \*   same way number_unchecked_consistency_
          commits,     \* the deque of commitments
          outCommit,   \* output_commit
          consBad,     \* pairwise_consistency_mismatch_
          openBad,     \* opening_commit_mismatch_
          verdicts,    \* what the accept rounds of p came to
          rounds,      \* proof_rounds_
          prg,         \* the step whose seed the PRG named prg expands
          coins,       \* [use, seed]: the last coefficients, their seed's step
          faults       \* how many views have been altered

flow     == <<pc, waiting, level, size>>
streams  == <<drawn, dealt>>
checks   == <<openHash, consHash, commits, outCommit, consBad, openBad>>
coinVars == <<prg, coins>>
vars == <<flow, streams, sent, views, checks, verdicts, rounds, coinVars, faults, netVars>>

-----------------------------------------------------------------------------
(* The steps of verify(), named for what they compute.                     *)
PrgSteps    == {"r_bits", "r_merge", "alpha", "alphaBeta"}    \* generateNewPRG
SumSteps    == {"shareGamma", "reduce", "triple"}             \* shareSum
RevealSteps == {"openTriple", "openOutput"}                   \* rerandomize and open
AcceptSteps == {"accept1", "accept2", "accept3"}              \* checkForDoubleAccept
VerifySteps == PrgSteps \cup SumSteps \cup RevealSteps \cup AcceptSteps \cup {"y_0"}

(* openAdditive checks the commitment in these steps ...                   *)
Verifying(s) == s \in RevealSteps \cup {"alphaBeta"}
(* Variant: the check is left to a separate round that nobody runs. *)
CheckingConsistency_Never(s) == FALSE

(* ... and in this one the pairwise consistency check rides along.         *)
CheckingConsistency(s) == s = "alphaBeta"

(* Pi_reduceDeg splits a vector into Compression parts, padded to fit.     *)
Reduced(n) == (n + Compression - 1) \div Compression

Values(s, n) ==
  CASE s = "shareGamma"   -> SSEC
    [] s = "reduce"       -> Compression * Compression - 1
    [] s = "triple"       -> n * n + n - 1
    [] s = "openTriple"   -> 2
    [] s = "openOutput"   -> SSEC

(* The step after s; n is the length of the vectors when s is over.        *)
After(s, n) ==
  CASE s = "r_bits"     -> "shareGamma"
    [] s = "shareGamma" -> "r_merge"
    [] s \in {"r_merge", "alpha"} -> IF n > Compression THEN "reduce" ELSE "y_0"
    [] s = "reduce"     -> "alpha"
    [] s = "y_0"        -> "triple"
    [] s = "triple"     -> "alphaBeta"
    [] s = "alphaBeta"  -> "accept1"
    [] s = "accept1"    -> "openTriple"
    [] s = "openTriple" -> "accept2"
    [] s = "accept2"    -> "openOutput"
    [] s = "openOutput" -> "accept3"
    [] s = "accept3"    -> "verified"

SizeAfter(s, n) == IF s = "alpha" THEN Reduced(n) ELSE n

-----------------------------------------------------------------------------
(* What the two ends draw from their stream in a step, in the order they   *)
(* do, and how much of it.                                                 *)
Draw(what, n) == [what |-> what, n |-> n]
NonceDraw     == <<Draw("nonce", 3)>>

(* Shares of zero: party 1's is what the others' lack, and is sent to it.  *)
DealerZeros(i, n) == IF i >= 2 THEN <<Draw("zero", n)>> ELSE << >>

(* Variant: party 1 draws its share as well. *)
PartyZeros_Everyone(p, n) == <<Draw("zero", n)>>

PartyZeros(p, n) == IF p # 1 THEN <<Draw("zero", n)>> ELSE << >>

DealerDraws(s, i, n) ==
  CASE s = "outputA"      -> DealerZeros(i, NumOutputs) \o NonceDraw
    [] s = "gates"        -> <<Draw("gate", IF i < nP THEN 2 * NumMults ELSE NumMults)>>
    [] s \in PrgSteps     -> <<Draw("seed", 1)>> \o (IF Verifying(s) THEN NonceDraw ELSE << >>)
    [] s \in SumSteps     -> <<Draw("mask", Values(s, n))>>
    [] s = "y_0"          -> <<Draw("y_0", 1)>>
    [] s \in RevealSteps  -> DealerZeros(i, Values(s, n)) \o NonceDraw
    [] OTHER              -> << >>

PartyDraws(s, p, n) ==
  CASE s = "outputA"      -> PartyZeros(p, NumOutputs) \o NonceDraw
    [] s = "gates"        -> <<Draw("gate", IF p = nP THEN NumMults ELSE 2 * NumMults)>>
    [] s \in PrgSteps     -> <<Draw("seed", 1)>> \o (IF Verifying(s) THEN NonceDraw ELSE << >>)
    [] s \in SumSteps     -> <<Draw("mask", Values(s, n))>>
    [] s = "y_0"          -> <<Draw("y_0", 1)>>
    [] s \in RevealSteps  -> PartyZeros(p, Values(s, n)) \o NonceDraw
    [] OTHER              -> << >>

DealerDrawing(s) == dealt' = [i \in Parties |-> dealt[i] \o DealerDraws(s, i, size[0])]
PartyDrawing(p, s) == drawn' = [drawn EXCEPT ![p] = @ \o PartyDraws(s, p, size[p])]

Goto(p, s) ==
  /\ pc' = [pc EXCEPT ![p] = s]
  /\ waiting' = [waiting EXCEPT ![p] = FALSE]

Entry(step, view) == [step |-> step, view |-> view]

Init ==
  /\ pc = [p \in Procs |-> "outputA"] /\ waiting = [p \in Procs |-> FALSE]
  /\ level = [p \in Procs |-> 1] /\ size = [p \in Procs |-> VectorLength]
  /\ drawn = [p \in Parties |-> << >>] /\ dealt = [p \in Parties |-> << >>]
  /\ sent = [p \in Parties |-> << >>] /\ views = [p \in Parties |-> << >>]
  /\ openHash = [p \in Procs |-> << >>] /\ consHash = [p \in Parties |-> << >>]
  /\ commits = [p \in Procs |-> << >>] /\ outCommit = [p \in Parties |-> << >>]
  /\ consBad = [p \in Parties |-> FALSE] /\ openBad = [p \in Parties |-> FALSE]
  /\ verdicts = [p \in Parties |-> << >>] /\ rounds = [p \in Parties |-> 0]
  /\ prg = [p \in Parties |-> "none"]
  /\ coins = [p \in Parties |-> [use |-> "none", seed |-> "none"]]
  /\ faults = 0
  /\ NetInit

-----------------------------------------------------------------------------
(* The dealer: setupOutputPhase_A, the gates of runSetup, all of verify()  *)
(* without its exchanges, what setup_verify sends, setupOutputPhase_B.     *)
DealerLocal ==
  /\ pc[0] \in {"outputA", "gates"}
  /\ DealerDrawing(pc[0])
  /\ IF pc[0] = "outputA"
     THEN Goto(0, "gates") /\ UNCHANGED netVars
     ELSE Goto(0, "r_bits") /\ Send(0, [q \in {nP} |-> [kind |-> "gamma"]])
  /\ UNCHANGED <<level, size, drawn, sent, views, checks, verdicts, rounds, coinVars, faults>>

DealerVerify ==
  LET s == pc[0]
      opens == s \in PrgSteps \cup RevealSteps
      hash  == Append(openHash[0], Entry(s, 0))
  IN  /\ s \in VerifySteps
      /\ DealerDrawing(s)
      /\ openHash'  = [openHash  EXCEPT ![0] =
                         IF Verifying(s) THEN << >> ELSE IF opens THEN hash ELSE @]
      /\ commits' = [commits EXCEPT ![0] = IF Verifying(s) THEN Append(@, hash) ELSE @]
      /\ size' = [size EXCEPT ![0] = SizeAfter(s, @)]
      /\ Goto(0, After(s, SizeAfter(s, size[0])))
      /\ UNCHANGED <<level, drawn, sent, views, consHash, outCommit, consBad, openBad,
                     verdicts, rounds, coinVars, faults, netVars>>

(* Variant: the last commitment comes first. *)
SendCommits_Reversed ==
  /\ pc[0] = "verified"
  /\ Send(0, [q \in Parties |-> [kind |-> "commits", digests |-> Reverse(commits[0])]])
  /\ commits' = [commits EXCEPT ![0] = << >>]
  /\ Goto(0, "sendRandomizers")
  /\ UNCHANGED <<level, size, streams, sent, views, openHash, consHash, outCommit, consBad, openBad,
                 verdicts, rounds, coinVars, faults>>

(* setup_verify: every party gets all the commitments.                     *)
SendCommits ==
  /\ pc[0] = "verified"
  /\ Send(0, [q \in Parties |-> [kind |-> "commits", digests |-> commits[0]]])
  /\ commits' = [commits EXCEPT ![0] = << >>]
  /\ Goto(0, "sendRandomizers")
  /\ UNCHANGED <<level, size, streams, sent, views, openHash, consHash, outCommit, consBad, openBad,
                 verdicts, rounds, coinVars, faults>>

(* Variant: every party is sent randomizers. *)
SendRandomizers_ToAll ==
  /\ pc[0] = "sendRandomizers"
  /\ Send(0, [q \in Parties |-> [kind |-> "randomizers"]])
  /\ Goto(0, "outputB")
  /\ UNCHANGED <<level, size, streams, sent, views, checks, verdicts, rounds, coinVars, faults>>

SendRandomizers ==
  /\ pc[0] = "sendRandomizers"
  /\ Send(0, [q \in {1} |-> [kind |-> "randomizers"]])
  /\ Goto(0, "outputB")
  /\ UNCHANGED <<level, size, streams, sent, views, checks, verdicts, rounds, coinVars, faults>>

SendOutputRandomizers ==
  /\ pc[0] = "outputB"
  /\ Send(0, [q \in {1} |-> [kind |-> "outputRandomizers"]])
  /\ Goto(0, "sendOutputCommit")
  /\ UNCHANGED <<level, size, streams, sent, views, checks, verdicts, rounds, coinVars, faults>>

SendOutputCommit ==
  /\ pc[0] = "sendOutputCommit"
  /\ Send(0, [q \in Parties |-> [kind |-> "outputCommit", digest |-> <<Entry("outputs", 0)>>]])
  /\ Goto(0, "done")
  /\ UNCHANGED <<level, size, streams, sent, views, checks, verdicts, rounds, coinVars, faults>>

Dealer == \/ DealerLocal \/ DealerVerify \/ SendCommits \/ SendRandomizers
          \/ SendOutputRandomizers \/ SendOutputCommit

-----------------------------------------------------------------------------
(* A party's setup, up to the first message it reads from the dealer.      *)
PartyOutputA(p) ==
  /\ pc[p] = "outputA"
  /\ PartyDrawing(p, "outputA")
  /\ Goto(p, "gates")
  /\ UNCHANGED <<level, size, dealt, sent, views, checks, verdicts, rounds, coinVars, faults,
                 netVars>>

PartyGates(p) ==
  /\ pc[p] = "gates"
  /\ PartyDrawing(p, "gates")
  /\ Goto(p, IF p = nP THEN "recvGamma" ELSE "recvCommits")
  /\ UNCHANGED <<level, size, dealt, sent, views, checks, verdicts, rounds, coinVars, faults,
                 netVars>>

(* What a party expects of the dealer when it reads, and what comes next.  *)
Expected == [recvGamma |-> "gamma", recvCommits |-> "commits", recvRandomizers |-> "randomizers",
             recvOutputRandomizers |-> "outputRandomizers", recvOutputCommit |-> "outputCommit"]

AfterMail(p, s) ==
  CASE s = "recvGamma"             -> "recvCommits"
    [] s = "recvCommits"           -> IF p = 1 THEN "recvRandomizers" ELSE "recvOutputCommit"
    [] s = "recvRandomizers"       -> "recvOutputRandomizers"
    [] s = "recvOutputRandomizers" -> "recvOutputCommit"
    [] s = "recvOutputCommit"      -> "inputs"

(* Bytes are read whatever they were sent as; MailInOrder is about that.   *)
ReadMail(p) ==
  LET s == pc[p] IN
  /\ s \in DOMAIN Expected /\ Arrived(p, 0)
  /\ Consume(p, 0)
  /\ commits' = [commits EXCEPT ![p] =
                   IF s = "recvCommits" THEN @ \o NextMsg(p, 0).digests ELSE @]
  /\ outCommit' = [outCommit EXCEPT ![p] =
                   IF s = "recvOutputCommit" THEN NextMsg(p, 0).digest ELSE @]
  /\ Goto(p, AfterMail(p, s))
  /\ UNCHANGED <<level, size, streams, sent, views, openHash, consHash, consBad, openBad,
                 verdicts, rounds, coinVars, faults>>

-----------------------------------------------------------------------------
(* Rounds among the parties.  Nobody reads the answers of a round before   *)
(* it has sent its own share of it.                                        *)
Openings == {"inputs", "online", "outputs"} \cup PrgSteps \cup SumSteps \cup RevealSteps
OneBit   == {"acceptInputs", "acceptOutputs"}                 \* checkForAccept
Accepts  == AcceptSteps \cup OneBit
RoundSteps == Openings \cup Accepts \cup {"inputDigest"}

(* Variant: evaluateGatesAtDepth leaves its openings out of the check. *)
Consistent_SumsOnly(s) == s \in SumSteps

(* The openings that the pairwise consistency check covers, and those that *)
(* openAdditive puts into the hash that commitments are compared with.     *)
Consistent(s) == s \in SumSteps \cup {"online"}
Committed(s)  == s \in PrgSteps \cup RevealSteps

LastRound(p) == Len(sent[p])
Awaited(s)   == IF s = "inputs" THEN Providers ELSE Parties
Complete(p)  == waiting[p] /\ \A q \in Awaited(pc[p]) : LastRound(q) >= LastRound(p)
Heard(p, q)  == sent[q][LastRound(p)].content
AllSameAs(p) == \A q \in Parties : Heard(p, q) = Heard(p, p)

(* The pair of bits a party sends; ok is the outcome of its arithmetic.    *)
OwnBits(p, ok) ==
  CASE pc[p] = "acceptInputs"  -> <<AllSameAs(p), TRUE>>
    [] pc[p] = "accept1"       -> <<~consBad[p], ~openBad[p]>>
    [] pc[p] \in {"accept2", "accept3"} -> <<~openBad[p], ok>>
    [] pc[p] = "acceptOutputs" -> <<outCommit[p] = <<Last(views[p])>>, TRUE>>

(* What the others compare or combine of a party's message.                *)
Content(p, ok) ==
  CASE pc[p] \in Accepts          -> OwnBits(p, ok)
    [] pc[p] = "inputDigest"      -> views[p]
    [] CheckingConsistency(pc[p]) -> consHash[p]
    [] OTHER                      -> << >>

(* Every party sends what it has for the round.  The proof's equations     *)
(* hold in a run without faults; otherwise they may or may not.            *)
Contribute(p) ==
  LET s == pc[p] IN
  /\ s \in RoundSteps /\ ~waiting[p]
  /\ \E ok \in (IF faults = 0 \/ s \notin {"accept2", "accept3"} THEN {TRUE} ELSE BOOLEAN) :
       sent' = [sent EXCEPT ![p] = Append(@, [step |-> s, content |-> Content(p, ok)])]
  /\ IF s \in VerifySteps THEN PartyDrawing(p, s) ELSE UNCHANGED drawn
  /\ waiting' = [waiting EXCEPT ![p] = TRUE]
  /\ UNCHANGED <<pc, level, size, dealt, views, checks, verdicts, rounds, coinVars, faults,
                 netVars>>

(* reconstruct goes over P_king in two rounds or takes one broadcast.      *)
UsesPking(s) ==
  \/ s \in {"online", "outputs"} /\ PkingSemi
  \/ s \in PrgSteps \cup {"openTriple"} /\ PkingVerify = 2
  \/ s \in SumSteps \cup {"openOutput"} /\ PkingVerify >= 1

RoundsOf(s) == IF s \in {"inputs", "inputDigest"} THEN 0 ELSE IF UsesPking(s) THEN 2 ELSE 1

LastLevel(l) == l = MultLevels

AfterRound(p, s) ==
  CASE s = "inputs"        -> "inputDigest"
    [] s = "inputDigest"   -> "acceptInputs"
    [] s = "acceptInputs"  -> "online"
    [] s = "online"        -> IF LastLevel(level[p]) THEN "r_bits" ELSE "online"
    [] s = "outputs"       -> "acceptOutputs"
    [] s = "acceptOutputs" -> "done"
    [] s = "accept3"       -> "outputs"
    [] OTHER               -> After(s, SizeAfter(s, size[p]))

(* Variant: the rounds of the inputs and levels are counted, too. *)
CountRounds_NoReset(p, s) == rounds' = [rounds EXCEPT ![p] = @ + RoundsOf(s)]

(* verify() begins by resetting proof_rounds_.                             *)
CountRounds(p, s) ==
  rounds' = [rounds EXCEPT ![p] =
               IF AfterRound(p, s) = "r_bits" THEN 0 ELSE @ + RoundsOf(s)]

TakeCommit(queue) == Tail(queue)

(* A party opens a vector and sees the view v of it.                       *)
SeeOpening(p, v) ==
  LET s    == pc[p]
      hash == Append(openHash[p], Entry(s, v))
  IN  /\ s \in Openings /\ Complete(p)
      /\ v = 0 \/ (v = 1 /\ faults < MaxFaults)
      /\ faults' = faults + v
      /\ views' = [views EXCEPT ![p] = Append(@, Entry(s, v))]
      /\ consHash' = [consHash EXCEPT ![p] =
                        IF CheckingConsistency(s) THEN << >>
                        ELSE IF Consistent(s) THEN Append(@, Entry(s, v)) ELSE @]
      /\ consBad' = [consBad EXCEPT ![p] = @ \/ (CheckingConsistency(s) /\ ~AllSameAs(p))]
      /\ openHash' = [openHash EXCEPT ![p] =
                        IF Verifying(s) THEN << >> ELSE IF Committed(s) THEN hash ELSE @]
      /\ openBad' = [openBad EXCEPT ![p] = @ \/ (Verifying(s) /\ Head(commits[p]) # hash)]
      /\ commits' = [commits EXCEPT ![p] = IF Verifying(s) THEN TakeCommit(@) ELSE @]
      /\ prg' = [prg EXCEPT ![p] = IF s = "r_bits" THEN s ELSE @]
      /\ coins' = [coins EXCEPT ![p] =
                     IF s \in PrgSteps THEN [use |-> s, seed |-> prg'[p]] ELSE @]
      /\ level' = [level EXCEPT ![p] = IF s = "online" /\ ~LastLevel(@) THEN @ + 1 ELSE @]
      /\ size' = [size EXCEPT ![p] = SizeAfter(s, @)]
      /\ CountRounds(p, s)
      /\ Goto(p, AfterRound(p, s))
      /\ UNCHANGED <<streams, sent, outCommit, verdicts, netVars>>

(* The digests of the inputs are compared; the verdict is the next round.  *)
ReadDigests(p) ==
  /\ pc[p] = "inputDigest" /\ Complete(p)
  /\ Goto(p, "acceptInputs")
  /\ UNCHANGED <<level, size, streams, sent, views, checks, verdicts, rounds, coinVars, faults,
                 netVars>>

(* Variant: a party listens to itself. *)
Verdict_OwnOnly(p) == Heard(p, p)

(* All accept or all give up: the bits of all are combined with AND.       *)
Verdict(p) == <<\A q \in Parties : Heard(p, q)[1], \A q \in Parties : Heard(p, q)[2]>>

(* Variant: any bit of the two is taken for success. *)
Accepted_Any(bits) == bits[1] \/ bits[2]

Accepted(bits) == bits[1] /\ bits[2]

CheckForAccept(p) ==
  LET s == pc[p]
      bits == Verdict(p)
  IN  /\ s \in Accepts /\ Complete(p)
      /\ verdicts' = [verdicts EXCEPT ![p] = Append(@, [step |-> s, bits |-> bits])]
      /\ CountRounds(p, s)
      /\ Goto(p, IF Accepted(bits) THEN AfterRound(p, s) ELSE "aborted")
      /\ UNCHANGED <<level, size, streams, sent, views, checks, coinVars, faults, netVars>>

(* y_0 is shared without a message.                                        *)
DrawY0(p) ==
  /\ pc[p] = "y_0"
  /\ PartyDrawing(p, "y_0")
  /\ Goto(p, After("y_0", size[p]))
  /\ UNCHANGED <<level, size, dealt, sent, views, checks, verdicts, rounds, coinVars, faults,
                 netVars>>

Party(p) ==
  \/ PartyOutputA(p) \/ PartyGates(p) \/ ReadMail(p)
  \/ Contribute(p) \/ (\E v \in {0, 1} : SeeOpening(p, v)) \/ ReadDigests(p)
  \/ CheckForAccept(p) \/ DrawY0(p)

Next == Dealer \/ \E p \in Parties : Party(p)

Spec == Init /\ [][Next]_vars /\ WF_vars(Dealer) /\ \A p \in Parties : WF_vars(Party(p))

-----------------------------------------------------------------------------

(* Every variable keeps its type: in particular no party evaluates a level *)
(* the circuit does not have, and the commitments stay a queue of digests. *)
TypeOK ==
  /\ \A p \in Procs : pc[p] \in VerifySteps \cup RoundSteps \cup DOMAIN Expected \cup
       {"outputA", "gates", "verified", "sendRandomizers", "outputB", "sendOutputCommit",
        "done", "aborted"}
  /\ waiting \in [Procs -> BOOLEAN]
  /\ level \in [Procs -> 1..MultLevels] /\ size \in [Procs -> 1..VectorLength]
  /\ \A p \in Parties :
       /\ \A r \in DOMAIN sent[p] : sent[p][r].step \in RoundSteps
       /\ \A k \in DOMAIN views[p] : views[p][k].step \in Openings /\ views[p][k].view \in {0, 1}
  /\ \A p \in Procs : \A k \in DOMAIN commits[p] :
       commits[p][k] # << >> /\ \A e \in DOMAIN commits[p][k] : commits[p][k][e].step \in Openings
  /\ consBad \in [Parties -> BOOLEAN] /\ openBad \in [Parties -> BOOLEAN]
  /\ rounds \in [Parties -> Nat] /\ prg \in [Parties -> PrgSteps \cup {"none"}]
  /\ faults \in 0..MaxFaults

(* The dealer and a party draw the same things from their stream in the    *)
(* same order, although the dealer draws for verify() during the setup and *)
(* the party online (setupOutputPhase_A, zkfliop_evaluator.cpp:481-488).   *)
StreamsAligned ==
  \A p \in Parties : IsPrefix(drawn[p], dealt[p]) \/ IsPrefix(dealt[p], drawn[p])

(* A party that waits for the dealer reads the message it takes it for:    *)
(* the dealer's sends in runSetup, setup_verify and setupOutputPhase_B     *)
(* come in the order of the party's reads (zkfliop_evaluator.cpp:233-239,   *)
(* 1015-1057 and 527-559).                                                 *)
MailInOrder ==
  \A p \in Parties :
    pc[p] \in DOMAIN Expected /\ Arrived(p, 0) => NextMsg(p, 0).kind = Expected[pc[p]]

Passed(p, s) ==
  \E k \in DOMAIN verdicts[p] : verdicts[p][k] = [step |-> s, bits |-> <<TRUE, TRUE>>]

(* Section 4.2.5 as quoted in zkfliop_evaluator.cpp:1536-1547 and 1611-     *)
(* 1616: nothing is opened in Pi_checkTriple step 7 before every earlier    *)
(* opening was checked.  Once a party got past the first double accept, no *)
(* party has seen another value than it of anything opened for            *)
(* consistency, nor an altered one of anything committed to.               *)
CheckedBeforeOpening ==
  \A p, q \in Parties : Passed(p, "accept1") =>
    /\ \A k \in DOMAIN views[p] \cap DOMAIN views[q] :
         views[q][k].step \in SumSteps \cup {"online"} => views[q][k] = views[p][k]
    /\ \A k \in DOMAIN views[q] : views[q][k].step \in PrgSteps => views[q][k].view = 0

(* The assertions of zkfliop_evaluator.cpp:1616 and 1717-1718: no opening  *)
(* is left unchecked when the triple is opened, nor when verify() returns. *)
NothingUnchecked ==
  \A p \in Parties : pc[p] \in {"openTriple", "outputs"} /\ ~waiting[p] =>
    openHash[p] = << >> /\ consHash[p] = << >>

(* All parties come to the same verdicts: they give up together, at the    *)
(* same check, or not at all (zkfliop_evaluator.cpp:1726-1771).            *)
SameVerdict ==
  \A p, q \in Parties : \A k \in DOMAIN verdicts[p] \cap DOMAIN verdicts[q] :
    verdicts[p][k] = verdicts[q][k]

(* Who has its outputs has seen them, and all that they rest on, as they   *)
(* are, and so has every other party: getOutputs returns only after        *)
(* verify() and its own check (zkfliop_evaluator.cpp:1658-1713, 573-590).  *)
OutputsTrusted ==
  \A p, q \in Parties : pc[p] = "done" =>
    \A k \in DOMAIN views[q] :
      views[q][k].step \in RevealSteps \cup {"outputs"} => views[q][k].view = 0

(* Without a fault no check fails: the digests that the dealer prepares    *)
(* during the setup are those the parties come to online, so none of the   *)
(* throws of zkfliop_evaluator.cpp:1726-1771 is reached.                   *)
NoFalseAlarm == \A p \in Parties : faults = 0 => pc[p] # "aborted"

(* README.md:159 reports "verification rounds: 19" for a circuit whose     *)
(* vectors are reduced twice and the default pking_verify of 1; the        *)
(* benchmark reads proof_rounds_ between verify() and getOutputs().        *)
RoundsAsDocumented ==
  \A p \in Parties : pc[p] = "outputs" /\ ~waiting[p] => rounds[p] = 19

(* Coefficients come from the seed that was opened for them, "sample       *)
(* <seed>, expand" (zkfliop_evaluator.cpp:1266, 1396 and 1535).            *)
ChallengeFresh == \A p \in Parties : coins[p].use = coins[p].seed

(* Nobody waits for ever: every party gets its outputs or gives up, also    *)
(* when a check fails and parties leave (zkfliop_evaluator.cpp:1742-1744).  *)
EveryoneEnds == <>(\A p \in Parties : pc[p] \in {"done", "aborted"})
=============================================================================
