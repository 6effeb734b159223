# A TLA+ model of TheOneProof

TheOneProof evaluates arithmetic circuits among `nP` parties and a dealer
(party 0) that takes part in the setup only.  `semi::Evaluator` is secure
against parties that follow the protocol; `zkfliop::Evaluator` adds a
distributed zero-knowledge proof (`verify()`) that all multiplications were
computed correctly, before any output is opened.  This directory holds TLA+
modules of the protocol code, TLC configurations that check them on small
instances, and TLAPS proofs for instances of every size.

Line numbers below are those of `src/src/protocol/semi_evaluator.cpp` (*semi*),
`src/src/protocol/zkfliop_evaluator.cpp` (*zk*), its `_dotp.cpp` (*dotp*),
`src/src/utils/circuit.h` (*circuit*) and `src/src/io/netmp.h` (*netmp*).

## 1. Inventory

| Component | State it keeps | Operations | Interacts with |
|---|---|---|---|
| `io::NetIOMP` | per pair of processes two connections, one for each direction; stdio buffers; `sent[]` flags | `send`, `recv` (flushes first), `flush`, `sync` | evaluators call it; blocks in `recv` |
| `RandGenPool` | a PRG per partner, shared with the dealer | constructor (the dealer sends each party a seed), `p0(i)`, `self()` | NetIOMP for the seed; then both ends draw on their own |
| `Circuit` | list of gates, outputs | `newInputWire`, `addGate`, `addConstOpGate`, `orderGatesByLevel`, `strictlyOrderGatesByLevel` | evaluators walk `gates_by_level` |
| `semi::Evaluator`, `semi::DotPEvaluator` | masks, gamma shares, masked values, output randomizers | `setupOutputPhase`, `runSetup`, `setInputs`, `evaluateCircuit`, `getOutputs`, `reconstruct` | NetIOMP, RandGenPool, Circuit |
| `zkfliop::Evaluator`, `zkfliop::DotPEvaluator` | the above; the transcript of multiplications; running hashes of openings; deque of commitments; mismatch flags; round counter | `setupOutputPhase_A`, `runSetup` (calls `setup_verify`), `setupOutputPhase_B`, `setInputs`, `evaluateCircuit` (calls `verify`), `getOutputs`; `openAdditive`, `shareSum`, `generateNewPRG`, `checkForAccept`, `checkForDoubleAccept` | NetIOMP, RandGenPool, Circuit |
| Benchmarks, tests | the repetition | call the methods in one fixed order, benchmarks with `sync` between the phases; a new evaluator on the same connections for every repetition | evaluators, NetIOMP |
| Scripts, benchmark results | - | network emulation, tables | - |

The order of the calls:

    semi:     setupOutputPhase, sync, runSetup, setInputs, sync, evaluateCircuit, getOutputs
    zkfliop:  setupOutputPhase_A, sync, runSetup, setupOutputPhase_B, setInputs, sync,
              evaluateCircuit, getOutputs

What is hard about each, and what makes it correct:

* **NetIOMP** carries bytes without saying what they are.  A message that is
  read in the wrong place is not noticed.  Outside a clang build a message may
  stay in the sender's buffer until the sender itself receives from the same
  peer, so a set of parties could wait for each other for ever.
* **reconstruct** has no message identifiers and no barrier of its own; a fast
  party's next call already writes to the streams a slow party is reading.
  Correct: each recv gets the message it is meant for, every share is counted
  once, every call returns.
* **Circuit** levelling relies on gates being listed after their inputs, in two
  nested passes.  Correct: levels are strict, homogeneous, and cost no round.
* **The threads of a level** (OpenMP) evaluate its gates in any order, meet only at
  the end of a loop, and write their shares to a vector at the gate's place in the
  level.  Correct: the result is that of evaluating the gates one by one.
* **semi::Evaluator** keeps the dealer and each party in step by nothing more
  than the order of two loops in two programs.  Correct: the shares that the
  two ends derive fit together, and whoever finishes has the plain outputs.
* **zkfliop::Evaluator** uses what is opened long before it is checked: digests
  are collected, compared and reset in different methods, the dealer's
  commitments are consumed in the order it made them during the setup.
  Correct: nothing is revealed unchecked, all parties give up together or none
  does, an honest run raises no alarm, no one waits for ever.
* **Its arithmetic** runs twice, at the dealer before any message exists and at
  the parties online, in two rings, over vectors that are laid out by different
  loops at the two ends.  Correct: the dealer's numbers stay the sum of
  the parties', an error is neither lost nor made up on the way to the verdict.
* **The programs** put the seed, the dealer's mail, the exchanges and the bytes
  of `sync` on the same streams, repetition after repetition, while the dealer
  runs ahead.  Correct: nothing is read as something else, nothing is left
  over, all get through.

The full list of hazards, each at its line and with the properties aimed at it,
is `hazards` in `PROJECT.json`.

## 2. Modules

    Levels <-- Threads           NetIOMP
      | (promises assumed by)      |-- ReconstructPking -- refines --> Opening
      v                            |-- Semi         (reconstruct = Opening)
     Semi                          |-- Reconstruct  -- refines --> CheckedOpening
                                   |-- Verify       (rounds = CheckedOpening)
    ZkProof                        `-- Session      (methods = their messages)

Every module but NetIOMP, Opening and Levels, which is checked within Threads, has a module `MC...` that gives its
constants values.  ReconstructPking, Reconstruct, Threads (with Levels), Semi, Verify, ZkProof,
CheckedOpening and Session have a module `..._proofs`.

**NetIOMP** (*netmp*).  A stream is the log of everything ever written to it and
two cursors, `flushed` and `read`.  `Send` appends to several streams at once
(the loops of sends never wait for anybody), and chooses for each stream
how much of it has left the buffer; with `EagerFlush`, the clang build, all of
it.  `FlushTo` is the flush a `recv` starts with; `Arrived` its
blocking condition.  `SendAll` sends a different message on each stream,
`SendNow` sends and flushes.  `Semi` and `Verify` use `EagerFlush = TRUE`; builds
that buffer are examined in `ReconstructPking`, `Reconstruct` and `Session`,
where it can matter.

**ReconstructPking** (*semi* 458-544).  Party `k` is P_king of the `k`-th block
of the indices.  Actions: `SendShares`, `Collect` (one provider),
`Distribute`, `Receive` (one king), `Return`, and `RecvFlush`.  Shares are
formal: `vals[p][x][r]` counts how often party `r`'s share went into
entry `x`, so that a share lost or added twice shows whatever the ring.
With fewer values than parties all blocks but the last are empty: sends and
receives of zero bytes put nothing on a stream and do not wait.

**Opening** is the abstract specification: an atomic opening that no party
leaves before all have entered it, with the opened value.

**Levels** (*circuit* 121-346).  The builder methods, then the loop of
`orderGatesByLevel`, one gate per step, then the nested loops of
`strictlyOrderGatesByLevel`, one gate per step.  Gates keep their type and
the set of wires they read.  Wires count from 1.

**Threads** (*semi* 277-384 and 438-447, alike in the other evaluators) extends `Levels`:
a circuit is built, levelled, and then evaluated.  `EvaluateCircuit`, `Reconstruct` and
`NextLevel` go through the levels and the two loops of each; `Begin(g)` and `Finish(g)` are
the two ends of an iteration of a parallel loop, by any of `NumThreads` threads.  A masked
value is unset, right or wrong; `mult_vals` holds the gate whose share was written to each
index.  An iteration that reads an unset wire, or a share that another has overwritten,
makes what depends on it wrong.
`EvaluatorSpec` implements `Levels` (`OrderingUndisturbed`), so one run checks both.  How OpenMP chunks the loop is left open.

**Semi** (*semi* 8-456 and the dot products of `semi_evaluator_dotp.cpp`).  The
dealer and the parties run each method loop by loop: one action per gate of
`runSetup`, per message, per level.  The stream that the dealer shares with a
party is `tape[i]`, an arbitrary sequence of ring elements; `dpos` and `ppos`
count what the two ends have drawn.  An opening is atomic, as
`ReconstructPking` justifies (`reconstructBroadcast` is `Opening` itself): `shares[p]` are the vectors contributed so far,
and a party gets the sums once everybody has contributed as many.  What
`Levels` shows of every circuit is an assumption here (`LayersAssumption`).  Sums and the
lists of multiplications and of a party's inputs are recursive functions (`SumTo`, `Chosen`).

**Verify** (*zk* and *dotp*).  The control of the whole evaluator.  The dealer
executes the steps of `verify()` alone during the setup and turns what it would open
into commitments; the parties execute the same steps online.  `DealerDraws` and
`PartyDraws` say what each end draws in a step; `After` is the order of the
steps, with the loop of reductions as long as `size` demands.  The vectors have
`2n + 1` entries for a product of `n` terms, so `Dims` = all ones is the base
class and anything else `DotPEvaluator`, which overrides what computes but not what
exchanges.  A party's *view* of an opened vector is 0 if it is what the
shares sum to, and 1 if a fault made something else of it: a wrong share, a P_king that
sends different sums to different parties.  A digest is the sequence of what was hashed,
hence equal exactly for equal inputs.  Exchanges are rounds: `Contribute` broadcasts,
`SeeOpening`, `ReadDigests` and `CheckForAccept` complete the round when all
awaited messages are there.  Whether the equations of the proof hold is a free
choice once something was altered.

**CheckedOpening** is the abstract specification of those rounds: a sequence of
calls, the same at all parties, that open a vector, compare digests of what was
kept, compare with a commitment when a nonce is opened, or accept.  A call goes
on once everybody has contributed, and every party may see anything.

**Reconstruct** (*zk* 606-851, 1726-1771).  `reconstruct` message by message:
digests first, then the shares of each block to its P_king or the whole vector
to everybody, then sums, and the nonce along with them.  A party
may send every peer something else instead of the right block, nonce or sum; what it does to it is
any set of effects, which add up.  What is hashed and compared is the whole vector, and with it
the nonce where one is opened.
`FirstReads` and `SumReads` list the reads of a call in the order of the code's loops;
`Take` is one of them.  The two strategies, the check and the nonce are the
modes of `Plan`; the accept bits are a call like any other.

**ZkProof** (*zk* and *dotp*).  The arithmetic, over the rings Z/4 and Z/64 instead of
Z/2^32 and Z/2^128: masks and shares, the evaluation, `verify()` with lifting,
the layout of a and b, the random subsets, merging, the reductions with their
padding, the triple and the verdict.  One action per step, taken by the dealer and all
parties together, since the order of the steps is Verify's subject.  The
randomness is a choice of streams, `Streams[seed][i]`, each a sequence that starts over at its
end.  Vectors are functions of an index and sums recursive functions (`SumTo`), the shape that
proofs can use.  A multiplication gone wrong (`cheat`)
and an opening gone wrong (`bend`) are what the verdict should tell apart from an
honest run.

**Session** (`src/benchmark/*.cpp`, `src/test/*.cpp`, `rand_gen_pool.cpp`).
Four programs: the benchmark and the test of `semi` and of `zkfliop`.  A process
is its sequence of sends, receives and syncs, by parts, with the
seed that every new evaluator's pool begins with, over streams that go on from
one repetition to the next.  `sync` goes through the pairs of processes, in the same order
everywhere; the two ends of a pair send each other a byte, flushed, and wait for it, on the
same streams.  The code does this twice in every pair, once per connection; the second exchange
begins where both ends have just met and leaves nothing behind, so the model makes one.

`sync` occurs in Session only.  It removes interleavings (and flushes), so
the safety properties of the other modules are checked for more behaviours than the
program has, and their liveness properties do not count on it.

### Plan

Done: the modules above, with the proofs of section 4.  Left, in this order:

1. A composition of Verify with Reconstruct in place of its rounds.

## 3. Runs

| Run | Question | Bounds |
|---|---|---|
| `pking_lazy` | Do back-to-back reconstructions over buffering streams stay framed, count every share once, end, and look atomic? | 3 parties, 4 values (blocks of 1, 1, 2), 2 calls |
| `pking_few` | ... with empty blocks, where most receives do not wait? | 3 parties, 2 values, 2 calls |
| `levels` | Are all circuits levelled as promised, and does evaluating their levels in parallel change nothing? | every circuit of up to 4 gates, 2 threads |
| `semi_circuit` | Do the parties, in any order, evaluate the circuit? | dealer and 3 parties, Z/4, 8 gates of all kinds, 2 tapes, 2 input vectors |
| `verify_faults` | Is everything checked before it is relied on, do all agree, does everybody end? | dealer and 3 parties, a multiplication and a dot product of 2 terms, compression 2, up to 2 altered views |
| `zkproof` | Do dealer and parties compute the same, and is the verdict the deserved one? | 4 circuits, compression 2, 3, 4, 2 choices of all streams, 4 cheats, 6 bends |
| `reconstruct_faults` | Do the exchanges implement checked openings, though a party sends different things to different peers? | 3 parties, 6 calls with both strategies, 1 alteration |
| `reconstruct_lazy` | Do they end in builds that buffer? | 3 parties, 3 calls |
| `checked_views` | Do checks and accepts keep the parties together, whatever each sees? | 3 parties, 5 calls, 2 views |
| `session_all` | Do whole programs stay framed over all repetitions and end, with nothing left over? | dealer and 3 parties, 4 programs, 2 repetitions |
| `session_lazy` | Do they end in builds that buffer? | the same without the benchmark of zkfliop |
| `verify_fresh` | Are coefficients expanded from the seed opened for them? (violated) | as `verify_faults`, without faults |

Why these bounds are enough to meet the interesting cases.  Three parties are
the smallest number with a first, a middle and a last one, which the code
treats differently everywhere (party 1 adds constants and completes shares of
zero, party `nP` gets gamma from the dealer, loops skip the party itself).  Two
calls are what it takes for one party to be a call ahead of another;
the theorem `Barrier` says it can be no more.  Four gates allow two
multiplicative layers with a linear gate between or beside them.  The circuit
of `MCSemi` has two multiplications in one round, a dot product that reads
both, a party with two inputs and one with none, and an output that is named
twice; the streams of its first tape differ from each other and none is constant, so
that a shifted stream changes a mask.  In `verify_faults` vectors of length 8 are reduced
to 4 and to 2, so the loop of reductions runs twice; two
faults make it possible that different parties see the same vector differently,
and that a second one hides behind a first.  The vectors of `zkproof` have 3, 8, 5 and
11 entries, so that with the three factors there are none, one, two and three
reductions, with and without padding; operands are squared, fed
through linear gates and from one product to the next.  Two of the cheats
shift a product by an amount that vanishes in some of the random sums,
one of the bends by an amount that vanishes in the small ring only.  The plan of
`reconstruct_faults` keeps an opening for a check that rides along with a later
one, checks by P_king and by broadcast, and opens vectors shorter than the
number of parties.  In the benchmarks one party has all inputs, in the tests
everybody has some; the second repetition is where bytes left by the first
would be read.

What the properties say.  Each module also defines `TypeOK`, which can be added
to the `INVARIANTS` of its run; it is proved for ReconstructPking, Levels, Semi, Verify and Session.
The theorems of section 4 state most of the others for all constants.

* `OneCallAhead`: a peer may be a call ahead when a party reads from it, and
  never more.  `Reconstructed`: every share is counted once.
  `AtomicOpening`: the whole is an `Opening`.  `pking_few` repeats what
  differs where most streams stay silent.
* `StrictOrder`, `Homogeneous`: the promises of *circuit* 79-99 and the assertion
  at 342.  `RoundsAreDepth`: making levels strict costs no round.
  `OrderingEnds`: the loops end.
* `AsSequential`: whatever the schedule of the threads, no gate reads a value that is
  not final, every share has an index of its own, and no index stays empty.
* `GammaMatch`: the shares that the dealer and the parties draw and send
  sum to the products of masks, for which their draws must stay in step.  `MaskedValues`, `OutputsCorrect`: the online phase
  keeps value minus mask on every wire at every party, and ends with
  the plain outputs.
* `StreamsAligned`, `MailInOrder` (Verify): the dealer's solo
  run of `verify()` and the parties' later one fit together, draw for draw and
  message for message.
* `CheckedBeforeOpening`, `NothingUnchecked`, `OutputsTrusted`:
  what is relied on has been checked; *zk* 1536-1547 and the assertions at 1616
  and 1717.  `SameVerdict`, `EveryoneEnds`: all give up together, nobody waits.
  `NoFalseAlarm`: without a fault nobody gives up.
* `RoundsAsDocumented`: the counter `proof_rounds_` is 19 for two reductions, the
  number the repository's README reports at its line 159.
* `DealerInStep`: the dealer's y and z are at every step the sums of the parties'
  shares in the large ring.  `DefectKept`: the claimed product differs from the
  true one by exactly what an altered opening makes of it, through
  merging, padding and folding.  `CommitsOpened`: what the dealer commits to is what is
  opened, whatever the parties did to the masked values.  `VerdictDeserved`:
  accepted if and only if it should be.
* `Framing` (Reconstruct, Session): digests, blocks, nonces, bits, mail and the bytes
  of `sync` are read as what they were sent as, of the same call, or of the same part
  and repetition of the program.
* `ChecksOpenings`: `Reconstruct` implements `CheckedOpening`.  Of the latter,
  `SameFate`: all give up in the same accept.  `Agreement`: past an accept, all
  digests of all checks before it were equal.  `AllClear`: past an accept nobody
  knows of a mismatch.
* `NothingLeft`: when a program ends, every message has been read.
  `SyncSeparates`: what is measured after a `sync` does not overlap with what
  another process does before it.
* `AllReturn`, `AllFinish`: nobody waits for ever, also where sends stay in
  buffers.

Every run says `CHECK_DEADLOCK FALSE` because each program ends: all modelled
processes stop when their last method returns.  That they stop only there
is what the liveness properties say.

**Fairness.**  Each process is a program of its own that keeps running unless a
`recv` blocks it, so there is one weak fairness condition per process, on the
disjunction of all its steps (in Levels, on the steps of the one call that orders
the gates; nothing makes anybody build a circuit).  There is no fairness on
buffers: a message that is not flushed may stay where it is.

**Builds that do not flush.**  The build files support clang, where every `send`
flushes.  `session_lazy` asks what would happen elsewhere.  The semi programs and the test of
zkfliop end.  The benchmark of zkfliop may not: the parties exchange inputs before
the `sync` that follows (`src/benchmark/fliop.cpp` 193-196), and the dealer's
mail may be in its buffer until it gets to that `sync`, while the parties
wait for the mail first.  The benchmark is left out of the run for that reason;
the order is the variant `Parts_InputsEarly`.

### Finding

`verify_fresh` (`ChallengeFresh`): the comments say that coefficients are
"sample SSEC many randoms => sample <seed>, expand" (*zk* 1266; similarly before
1396 and 1535).  `generateNewPRG` does open a new seed in each of these steps and returns its
PRG as `prg_9`, `prg_reduce` and so on, but the merging coefficients (*zk* 1270), the alphas
(1400) and the betas (1551) are drawn from `prg`, the PRG of the first seed, which
is still in scope.  The new seeds are opened and committed to, and not used.
The dealer and the parties do so alike, so results agree and no test fails.

## 4. Proofs

Checked by TLAPS, for every value of the constants.

**ReconstructPking_proofs.**  `TypeCorrect`, `ReconstructionCorrect`,
`FramingCorrect`, `Barrier`, `ShortStreams`, `SumsAreFull` state the types, `Reconstructed`, that
a recv gets the message meant for it, `OneCallAhead`, that at most two
messages wait on a stream, and that no P_king distributes a partial sum, for any number of parties, values
and calls; `ImplementsOpening` the safety part
of the refinement of `Opening`.  None of these invariants is inductive: that a recv gets the right message
depends on everything ever written to and read from its stream.  `IInv` says it where every
party has at least one value (`NumVals >= nP`):

* `StreamInv`: how many messages a party has written to and read from each
  peer is a function of its call count, its loop and its loop variable;
* `ContentInv`: the message at position 2c-1 of any stream is the share
  message of call c, at 2c the sum message of call c;
* `ValsInv`: the entries of the own block have absorbed exactly the
  shares of the parties the loop has passed; those of a king passed in the
  second loop are complete;
* `ControlInv`, `NoSelfInv`, `NetOK`, `TypeOK`: a loop is never at the party
  itself, no one writes to itself, cursors are in order.

Under it `Framing` is arithmetic on positions, `OneCallAhead` compares what a
returning party has read with what its peer can have written, and the refinement
follows since a party at the end of its second loop has read every peer's second
message.  `BlockCover` and `BlockDisjoint` show that the block boundaries
cut the indices into one piece per party, for any two numbers, from
the properties of integer division.

With fewer values than parties party `nP` is the king of all of them (`LastBlock`), the others
(`Clients`) pass most of their loops without waiting, and no stream between two clients carries anything.
What kept the parties together before is gone, and it is `nP` alone that does: it sums
call c only after all shares of call c.  `FewInv` counts every stream against that:
`SharesRead` and `SumsSent` of `nP`, `SumsRead` of a client, which `FewCounts` puts in order.
TLC has found it to hold of three parties and two values.  Both invariants imply `Promises`, which holds for all vectors therefore (`PromisesKept`).  The proofs assume `PkingAssumption` and
`EagerFlushAssumption`, which TLC evaluates in the runs.

**Threads_proofs, first part.**  Of Levels: `TypeCorrect`, `LayersAreOrdered`, `LevelsAreStrict`,
`LevelsAreHomogeneous`, `InputsAreLevelZero`, `NoExtraRounds`, `RoundsAreTheDepth` and
`InputsComeFirst`, for circuits of any size.  The promises concern finished
orderings; the invariant has to say where a gate is in the middle of one.
`StdInv`: a gate's layer is that of its deepest input, one more for a multiplication.
`LayerInv`: the strict loop has placed the lower layers completely and nothing
of the higher ones.  `PlaceInv`: a placed gate of an earlier layer lies below
the base of the current one, a multiplication of this layer at the base, any
other gate of it above the base.  `BaseInv`: only the layer of the inputs
has base 0.  `PairInv`: two placed gates on one level are both
multiplications or neither, and two multiplications share a level exactly if
they share a layer.  Homogeneity, the hardest of the promises, follows
because above the inputs the level at the base is taken by multiplications only.
The number of rounds takes one more invariant: `DepthInv`, no layer is without a
multiplication.  With it the layers and the interactive levels correspond one to one.

**Threads_proofs, second part.**  `ParallelIsSequential` is `AsSequential` for every circuit, every number
of threads and every schedule.  It builds on the invariant of Levels: a gate reads only from
lower levels (`LevelInv`: those are complete), so whoever has begun an iteration has read right
values (`IterInv`).  That shares do not collide is counted: the place of a gate in its level is
the number of gates up to it, which differs from gate to gate (`PositionsDiffer`) and, as a level
with a multiplication has nothing else, neither exceeds the size of `mult_vals`
(`PositionInside`) nor leaves a gap (`PositionsFill`); hence `EntryInv` and `DoneInv`.
`OrderingUndisturbed`: the evaluation leaves the ordering what `Levels` says.

**Semi_proofs.**  `GammaCorrect`, `MaskedCorrect` and `OutputsRight` are `GammaMatch`,
`MaskedValues` and `OutputsCorrect` for every circuit, any number of parties, any modulus, all
inputs and all contents of the shared streams; `TypeCorrect` is `TypeOK`.  The first half is
about data and knows no states.  A mask is defined along the wires, a draw along the
gates, a share of a dot product is a sum over terms and an opening a sum over parties, so
induction over data is needed.  The prover has no induction with a predicate, but the
natural numbers are well founded: a set of numbers that has 0 and the successor of each of its elements
leaves out no number, or it would leave out a least one (`LeastElement`, `SetInduction`).  From
that follow, in this order:

* recursive functions on `0..n` exist and are unique (`Iteration`, `SumFacts`, `ChosenFacts`);
  sums may be split, scaled, and summed by rows or columns (`SumSwap`), and taken modulo
  the ring at any point (`SameOps`, `SumSameMod`);
* the order of the loops over the levels has every gate once and behind its inputs (`OrderFacts`:
  as many entries as gates, and all gates among them), so that what is defined gate by
  gate is defined (`WireRecursion`: `Plain`, `Mask`) and what goes from inputs to gates holds of all
  wires (`WireInduction`);
* the parties' shares of a mask sum to the mask the dealer computes (`MaskSum`), those of a
  product of masks to the product (`GammaSum`), those of zero to zero (`ZeroSum`);
* hence, if all hold the right masked inputs of a gate, what they contribute sums to its masked
  value (`ShareSum`), for linear gates likewise (`AddMasked`, `ScaleMasked`); and the
  randomized masks of the outputs sum to the masks (`OutputSum`).

In the second half `IInv` (`Invariant`; TLC finds it to hold in `semi_circuit`) says what each
process has at each point of its methods as a function of the streams and inputs alone:
`DrawsOk`, the position in each stream, for the dealer and for the party, is the sum of
the draws of the gates passed, which is why the loops that two programs run on their own stay in step;
`MasksOk`, `GammasOk`, `ZerosOk`, what was computed from the draws; `MaskedOk`, the masked
values of the inputs received and of the levels done; `SharesOk`, how many openings a
party has contributed to and what, so that the n-th vectors of all parties are of the same level;
`StreamsInv`, the messages on the streams.  Most steps change one process and no stream
(`FrameInv`, `QuietInv`), so interleaving costs little here; the work is in the data.

`SemiAssumption` (at least two parties, the build that flushes), `GatesAssumption` (gates as the
builder methods make them, a multiplication among them), `LayersAssumption` (what
is proved of Levels) and `TapesAssumption` (a stream does not end) are evaluated in `semi_circuit`.

**ZkProof_proofs.**  `DealerStaysInStep`, `DefectIsKept`, `OpenedAsCommitted` and
`VerdictIsDeserved` are `DealerInStep`, `DefectKept`, `CommitsOpened` and `VerdictDeserved` for
every circuit with a multiplication, any number of parties, any two rings of which the larger's
modulus is a multiple of the smaller's, any compression factor of at least 2, any number of random subsets, all
contents of the streams and any deviation.  What the verdict means is thereby fixed without
counting: the triple is rejected exactly if `defect` is not zero, the sums exactly if a random
subset shows the deviations, and a run without deviations is accepted.

`ProofInv` (`ProofInvariant`) says for each step of verify() what holds before it, up to
multiples of the moduli (`Same`):

* `MaskedOk`, after the evaluation: a masked output is the sum of what the parties contribute
  plus the deviation; `MergeReady`: the sums over the random subsets are those of the products
  of a and b, part by part, plus a bent opening, and with `Lambdas` they come to the
  deviations;
* `Claimed`, from merging on: x and all y have the same length, the dealer's y and mask are the
  parties' sums, and the claimed product is the product plus `defect` (`Ready`);
* `Parts`, `TripleParts`: in addition the sums opened are those of the products of the parts,
  but for the one bent; `Scalars`: vectors of one entry;
* `GammasOk`: the truncated gammas still say what the sums said, modulo the smaller ring;
* `Deserved`: the verdict.

Most of the module is the algebra below it.  The identity the protocol rests on is
`FoldProduct`: folding x and y with coefficients yields vectors whose product is the folded
matrix of the products of their parts.  `FoldDefect` adds what becomes of an entry of
that matrix that is off: on the diagonal it also spoils the missing entry (`RemainingDefect`).
`DotShares`, `SharedFold`: all of this may be done to shares.  Reductions and the triple
are the same lemmas with different numbers of parts (`FoldStep`), the padding and the appended
entry are lemmas of their own (`PaddedReady`, `AppendedReady`).  That a and b are laid
out right is `PartyProduct`: a multiplication's part of a party's product is its share of the masked
output, without the products of masked values, which `Lambdas` has (`BitTotal`).  That the dealer
has the parties' sum in the larger ring, too, holds because it lifts share by share (`BFacts`).  Induction is over sets of numbers, as in `Semi_proofs`.

`ZkProofAssumption`, `CircuitsAssumption` (gates as the builder makes them, a multiplication
among them), `StreamsAssumption` and `DeviationsAssumption` are evaluated in `zkproof`.

**CheckedOpening_proofs.**  `AllStopTogether`, `ChecksAgree` and
`NobodyHidesAMismatch` are `SameFate`, `Agreement` and `AllClear` for any parties, any
plan and any views; since `Reconstruct` implements CheckedOpening
(`ImplementsChecking`), they hold of the exchanges.  The difficulty is that
parties are in different calls, and that a party may say yes in an accept and
find a mismatch before a slower one has read its bit.  `IInv` (`Invariance`):

* `OrderInv`, `BarrierInv`: a party is in one call, and returns from none that
  somebody has not contributed to;
* `CheckInv`, `KnowInv`: a party has compared the digests of all checks it
  is past, and each comparison came out equal or the party knows of a mismatch;
* `YesInv`: who said yes in an accept had found all digests up to then equal;
* `LaterInv`: who said yes and knows of a mismatch now has found it in a
  later call, which all have entered, so nobody is still at that accept;
* `PassedInv`, `GoneInv`: who got past an accept saw everybody say yes, who
  gave up saw somebody say no, and a contribution never changes.

`PlanAssumption`, which TLC evaluates in `checked_views`, is all they need.

**Reconstruct_proofs.**  `FramingCorrect` is `Framing` of Reconstruct, for any number of
parties, any plan, any faults, fewer values than parties included, and both kinds of
builds.  A call puts up to five messages on a stream (digest, share or bit, nonce, sum, nonce of
the sum), and which of them depends on the call, the strategy, the two parties and whether a block
is empty; `Has` says which, in numbered slots, and `Before` counts those before a slot.  `ListOK` connects
this with the loops: the reads of a stage are those slots, each once, and those of one
peer in the order of the slots.  Then `FlowInv` (`FlowCorrect`):

* `FlowType`, `NetType`: a party outside the two stages of a call has ended its last call;
* `BarrierInv`: nobody is more than one call ahead, nor past a call that somebody has not begun;
* `Aligned`: with `Base` the place where the messages of the reader's call begin on a stream,
  found from what has been read, the stream holds what its sender has sent of that call and of
  the next, in the slots' order, and nothing else.

The barrier is the subtle part: nobody waits for a party whose block is empty, or sends to
it.  A party with an empty block hears from party `nP`, whose block never is, and only
after party `nP` has heard from everybody (`AllBegan`).

`ImplementsChecking` rests on a second invariant, `ViewInv` (`ViewsKept`):

* `MsgInv`, `ShownInv`: a digest or a bit on a stream is what its sender has shown in that call; a
  share has nothing but the sender's share in it, a sum everybody's, and the effects of faults;
* `AgreeInv`: what a party has found so far is the agreement of those it has read;
* `Opened`, `NonceOpened`: its block and the nonce have the shares of those it has read, and what it
  has got from others has all.

A party that returns has read everybody, so what it hashes, nonce included, is a view of the whole
vector (`AllSeen`).

**Verify_proofs.**  For any number of parties, any circuit and compression factor, and
any faults.  `VerdictsAgree` is `SameVerdict`; it follows from how far the parties can be
apart (`FlowCorrect`).  A party's round is the number of messages it has broadcast, or is about
to:

* `SentInv`: what a party has sent last was sent in the step it waits in, and
  round 1 is that of the inputs;
* `SameSteps`: whatever two parties sent in the same round, they sent in the same step;
* `PairInv`: no one is more than a round ahead.  Two parties in one round are at the
  same step and level, have vectors of the same size and have come to the same
  verdicts (`SamePlace`).  Of one that is a round ahead, all of that can be told from
  what the other has got and is about to conclude (`OneAhead`), whether to give up included.

The loop of reductions needs no count of its own: two parties enter it with
the same size and leave it with the same size.  `MailIsInOrder` is `MailInOrder`.  `BoxInv`: how much the
dealer has written to a party depends on the dealer's step only (`Written`), how much the
party has read on the party's (`Received`), and what is at each place is fixed (`KindAt`), with
one message more for party `nP` and two for party 1.

In the second half, `AllIsChecked`, `CheckedFirst` and `OutputsRight` are
`NothingUnchecked`, `CheckedBeforeOpening` and `OutputsTrusted`.  None of them speaks of
hashes or messages, and all depend on them; `CheckInv` (`ChecksCorrect`) connects what
a party has seen with what it kept, said and heard:

* `CommitInv`: how many commitments are left is known from the step, so that each
  is used for the check it was made for;
* `TraceInv`: an altered opening that was committed to shows in the running hash until the hash is
  compared, and in the flag from then on;
* `WordInv`: a party that said yes had seen nothing altered up to then, and the digest
  it sent is that of what it had kept;
* `PassedInv`: who got past an accept has a yes of everybody;
* `SeenInv`, `DifferInv`: two parties have seen the same openings in the same order
  but for the last one, and if they saw one differently, their hashes and then their digests
  differ;
* `ComparedInv`: who has compared the digests and found no mismatch had the same as all.

Hence, if someone passes the first double accept, all said yes, all had compared, and all
hashes were equal, so no two parties saw a covered opening differently.

In the last part, `StreamsAgree` is `StreamsAligned`: the dealer's run alone during
the setup, and the parties' later ones, draw the same from the shared streams, however
many reductions the size of the circuit demands.  `StreamInv` (`StreamsCorrect`): there is a script,
the sequence of what the dealer was at in each of its steps (`StepFrom`: step, vector
length, draws, hash, commitments), written as far as the dealer has got, and each party is at
some place in it (`PartyAt`) with the same step and size, and the same draws but
for those it makes before it waits.  What a party has left of the commitments is the tail of what the
dealer made after that place.  Two places in one script have tapes of which one is a
prefix of the other.  `NothingFails` is `NoFalseAlarm`: in a run without faults
(`NoFaultInv`, `QuietRuns`) all hash the same, everyone's digests are equal (`SameCons`), and a
digest compared with a commitment is the hash at the same place of the script
(`CommitmentMet`), so each flag stays down and everybody says yes.

`RoundsCounted` says what `proof_rounds_` is when `verify()` returns, for any circuit: with R
reductions, an opening that takes `SeedRounds` and a sum that takes `SumRounds`, it is
`4 * SeedRounds + 3 * SumRounds + 3 + R * (SeedRounds + SumRounds)`.  The lengths of the vectors
are named by a sequence `len` (`Reductions`), which tells the reductions still to come from
the size a party is at (`Counted`).  `RoundsAreDocumented` is `RoundsAsDocumented`, the 19 of
the repository's README, for every circuit whose vectors are reduced twice, with the
default `pking_verify`.  `TypeCorrect` is `TypeOK`: a reduction leaves at least one entry and no
more than there were (`ReducedFacts`).

The module assumes `VerifyAssumption` and `EagerFlushAssumption`; TLC evaluates both in
`verify_faults`.  `VerifyAssumption` asks for at least two parties, a multiplication, positive
dimensions, a compression factor of at least 2, and the build that flushes every send.

**Session_proofs.**  For any number of parties, any number of repetitions, both evaluators, as
benchmark and as test, any set of parties with inputs, and builds that buffer as well as those
that flush.  `FramingCorrect`, `NothingLeftCorrect` and `SyncSeparatesCorrect` are `Framing`,
`NothingLeft` and `SyncSeparates`.  Half of the proof is about the program, without any steps: in
a `Good` stretch each process has its messages with each peer in a fixed order of kinds
(`Rank`), and tells a peer what the peer gets in the same stretch.  The mail
(`GoodMail`), an exchange (`GoodExchange`), the inputs, which only some send (`GoodRound`), and
a sync (`GoodSync`) are good, one good stretch after another is good if its kinds come later
(`GoodJoin`), so every part of every program is (`ScriptFacts`).

The other half is `StreamsFollowProgram`: on a stream from p to q is what p's
program has told q up to the operation p is at (`Told`), in order, and read of it is
what q's program got (`Got`).  It counts no messages, so it need not know how many
each part has.  Then the first message not read is the one the reader's program gets next: an
earlier one would have been told as well, lie before it on the stream and still be unread
(`NextRead`).  With the programs at their ends all that was told has been got; and who
has passed a sync has got a byte from everybody, who has told it in the same part.
TLC has found `IInv`, the invariant, to hold of two parties with two
repetitions, in both builds, and of three parties with one.  Assumed are
`SessionAssumption` and `EagerFlushAssumption`, which TLC evaluates in `session_all`.

**Only model-checked**: liveness and everything that needs `ENABLED`
(`AllReturn`, `OrderingEnds`, `AllFinish`, `EveryoneEnds`, the fairness of
`Opening`); of ZkProof, `TypeOK`: what its
proofs need of it is part of their invariant.

## 5. Not modelled

* Connection setup and byte counters of NetIOMP, the
  relative and bit-packed send variants (no evaluator uses them).  The code under
  emp's `NetIO`, whose buffering and `sync` NetIOMP relies on, is not in the
  repository: its `sync` is taken to be a byte in each direction, flushed at once.
* Buffers of the operating system.  All parties send everything before they
  receive; whether very large vectors can make all sends block depends on
  buffer sizes the code does not know.
* The PRG: a tape is any sequence.  Soundness in the sense of probability:
  ZkProof shows for each choice of the randomness that the verdict is the one
  the equations call for, not how often a cheater is lucky.
* A circuit without multiplications and a compression factor below 2, which are
  excluded by assumption: the vectors would be empty, or never shrink.
* Faults in digests and accept bits themselves.  A digest in the model
  never collides and an accept bit reaches every party alike: what is
  examined is the honest code's handling of what it opened.
* `checkConsistency()` as a method of its own, which the code
  defines and does not call.
* The parallel loops inside `verify()`: their iterations write entries of their own or
  into an OpenMP reduction.  Which thread gets which iteration.
* A second call of a method on one evaluator: the callers make one each.
* Command lines, measurements, the scripts and stored results.
