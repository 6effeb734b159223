-------------------------------- MODULE Semi --------------------------------
(***************************************************************************)
(* The semi-honest evaluator semi::Evaluator (src/src/protocol/            *)
(* semi_evaluator.cpp and, for dot products, semi_evaluator_dotp.cpp).     *)
(*                                                                         *)
(* A dealer, process 0, and the parties 1..nP evaluate a circuit on        *)
(* secret-shared wires.  Wire w has a mask that is the sum of the parties' *)
(* lambda[p][w]; the dealer knows the whole mask as lambda[0][w].  Online  *)
(* all parties hold the same m[p][w], the wire's value minus its mask.     *)
(* The dealer shares one pseudorandom stream with each party, and both     *)
(* ends draw from it on their own, in the order of their loops.            *)
(*                                                                         *)
(* What the dealer sends and the broadcast of the masked inputs go over    *)
(* NetIOMP; a reconstruct is an atomic opening (module Opening, which      *)
(* ReconstructPking is shown to implement): a party contributes a vector   *)
(* of shares and gets the sums once everybody has contributed as many.     *)
(* With EagerFlush, recv finds nothing left to flush.                      *)
(***************************************************************************)
EXTENDS NetIOMP, SequencesExt

CONSTANTS nP,          \* number of computing parties
          Modulus,     \* the ring is Z / Modulus (2^32 in the code)
          Gates,       \* Gates[w]: type, in1, in2 (sequences of wires), cval
          Layers,      \* gates_by_level: a sequence of sequences of wires
          Outputs,     \* circ_.outputs, possibly with repetitions
          Owner,       \* input_mapping: the party that provides an input
          InputChoices, \* possible plaintext inputs
          Tapes        \* Tapes[i]: possible streams of dealer and party i

Parties == 1..nP
Wires   == 1..Len(Gates)
Ring    == 0..(Modulus - 1)
Type(w) == Gates[w].type
IsMult(w)  == Type(w) \in {"kMul", "kDotprod"}
InputWires == {w \in Wires : Type(w) = "kInp"}
Ins(w)     == Range(Gates[w].in1) \cup Range(Gates[w].in2)
Width(w)   == Len(Gates[w].in1)      \* how many products a multiplication sums
In1(w, j)  == Gates[w].in1[j]
In2(w, j)  == Gates[w].in2[j]

(* v[1] + ... + v[n], and the elements of s that are in T, in their order:  *)
(* recursive functions, which the provers can reason about.                *)
SumTo(n, v) ==
  LET sum[k \in 0..n] == IF k = 0 THEN 0 ELSE sum[k - 1] + v[k] IN sum[n]

Chosen(n, s, T) ==   \* among s[1], ..., s[n]
  LET pick[k \in 0..n] ==
        IF k = 0 THEN << >> ELSE IF s[k] \in T THEN Append(pick[k - 1], s[k]) ELSE pick[k - 1]
  IN  pick[n]

(* The order in which the loops over all levels and gates visit the gates. *)
Order      == FlattenSeq(Layers)
MultOrder  == Chosen(Len(Order), Order, {w \in Wires : IsMult(w)})
InputsOf(p) == Chosen(Len(Layers[1]), Layers[1], {w \in InputWires : Owner[w] = p})

ASSUME SemiAssumption ==
  /\ nP \in Nat /\ nP >= 2 /\ Modulus \in Nat \ {0} /\ EagerFlush
  /\ Procs = 0..nP
  /\ Outputs \in Seq(Wires) /\ Outputs # << >>
  /\ Owner \in [InputWires -> Parties] /\ InputChoices \subseteq [InputWires -> Ring]

(* Gates as Circuit builds them: two wires to add, one to scale, as many   *)
(* left as right factors; and something to multiply.                       *)
ASSUME GatesAssumption ==
  /\ Len(Gates) \in Nat
  /\ \A w \in Wires :
       /\ Type(w) \in {"kInp", "kAdd", "kConstMul", "kMul", "kDotprod"}
       /\ Gates[w].in1 \in Seq(Wires) /\ Gates[w].in2 \in Seq(Wires) /\ Gates[w].cval \in Int
       /\ Type(w) \in {"kAdd", "kConstMul"} => Len(Gates[w].in1) = 1
       /\ Type(w) \in {"kAdd", "kMul", "kDotprod"} => Len(Gates[w].in2) = Len(Gates[w].in1)
  /\ \E w \in Wires : IsMult(w)

(* What Levels shows of every circuit: each gate on one level, strict      *)
(* order, homogeneous levels, the inputs on the first one.                 *)
ASSUME LayersAssumption ==
  /\ Layers \in Seq(Seq(Wires)) /\ Layers # << >>
  /\ UNION {Range(Layers[l]) : l \in DOMAIN Layers} = Wires /\ Len(Order) = Len(Gates)
  /\ Range(Layers[1]) = InputWires
  /\ \A l \in DOMAIN Layers : \A v, w \in Range(Layers[l]) : IsMult(v) <=> IsMult(w)
  /\ \A l \in DOMAIN Layers : \A w \in Range(Layers[l]) :
       Ins(w) \subseteq UNION {Range(Layers[k]) : k \in 1..(l - 1)}

(* A stream never ends: it is long enough for every draw.                  *)
ASSUME TapesAssumption ==
  \A t \in Tapes : /\ t \in [Parties -> Seq(Ring)]
                   /\ \A i \in Parties : Len(t[i]) >= Len(Outputs) + 2 * Len(Gates)

VARIABLES pc,          \* the method a process is in
          at,          \* where its loop is: gate, peer or level
          tape,        \* the streams: tape[i] is shared by the dealer and i
          dpos, ppos,  \* draws made from stream i by the dealer, by party i
          lambda,      \* masks (dealer) and mask shares (parties)
          gamma,       \* gamma_share: shares of the products of two masks
          toSend,      \* gamma_to_send of the dealer
          rerand,      \* output_randomizers_ring
          inputs,      \* the plaintext inputs
          m,           \* masked values
          shares,      \* shares[p]: the vectors p has contributed to openings
          outvals      \* what getOutputs returns

randVars   == <<tape, inputs>>
setupVars  == <<dpos, ppos, lambda, gamma, toSend, rerand>>
onlineVars == <<m, shares, outvals>>
vars == <<pc, at, randVars, setupVars, onlineVars, netVars>>

(* The next element of the stream of dealer and party i, n draws ahead.    *)
DealerDraw(i, n) == tape[i][dpos[i] + 1 + n]
PartyDraw(i, n)  == tape[i][ppos[i] + 1 + n]

Init ==
  /\ pc = [p \in Procs |-> "outputSetup"]
  /\ at = [p \in Procs |-> 1]
  /\ tape \in Tapes
  /\ inputs \in InputChoices
  /\ dpos = [i \in Parties |-> 0] /\ ppos = [i \in Parties |-> 0]
  /\ lambda = [p \in Procs |-> [w \in Wires |-> 0]]
  /\ gamma  = [p \in Parties |-> [w \in Wires |-> 0]]
  /\ toSend = << >>
  /\ rerand = [p \in Procs |-> [k \in DOMAIN Outputs |-> 0]]
  /\ m = [p \in Parties |-> [w \in Wires |-> 0]]
  /\ shares = [p \in Parties |-> << >>]
  /\ outvals = [p \in Parties |-> << >>]
  /\ NetInit

Goto(p, method, start) ==
  /\ pc' = [pc EXCEPT ![p] = method]
  /\ at' = [at EXCEPT ![p] = start]

Advance(p) == Goto(p, pc[p], at[p] + 1)

-----------------------------------------------------------------------------
(* setupOutputPhase: shares of zero for every output.                      *)

(* Variant: party 1's share repeats the sum of the others. *)
OutputSetupDealer_Sign ==
  LET drawn(k) == [i \in Parties |-> IF i = 1 THEN 0 ELSE DealerDraw(i, k - 1)]
      first == [k \in DOMAIN Outputs |-> SumTo(nP, drawn(k)) % Modulus]
  IN  /\ pc[0] = "outputSetup"
      /\ rerand' = [rerand EXCEPT ![0] = first]
      /\ Send(0, [q \in {1} |-> first])
      /\ dpos' = [i \in Parties |-> IF i = 1 THEN dpos[i] ELSE dpos[i] + Len(Outputs)]
      /\ Goto(0, "setup", 1)
      /\ UNCHANGED <<randVars, onlineVars, ppos, lambda, gamma, toSend>>

(* The dealer completes the drawn shares of 2..nP by one for party 1.      *)
OutputSetupDealer ==
  LET drawn(k) == [i \in Parties |-> IF i = 1 THEN 0 ELSE DealerDraw(i, k - 1)]
      first == [k \in DOMAIN Outputs |-> (0 - SumTo(nP, drawn(k))) % Modulus]
  IN  /\ pc[0] = "outputSetup"
      /\ rerand' = [rerand EXCEPT ![0] = first]
      /\ Send(0, [q \in {1} |-> first])
      /\ dpos' = [i \in Parties |-> IF i = 1 THEN dpos[i] ELSE dpos[i] + Len(Outputs)]
      /\ Goto(0, "setup", 1)
      /\ UNCHANGED <<randVars, onlineVars, ppos, lambda, gamma, toSend>>

(* The share for party 1 arrives with the dealer's message.                *)
OutputSetupFirst ==
  /\ pc[1] = "outputSetup" /\ Arrived(1, 0)
  /\ rerand' = [rerand EXCEPT ![1] = NextMsg(1, 0)]
  /\ Consume(1, 0)
  /\ Goto(1, "setup", 1)
  /\ UNCHANGED <<randVars, onlineVars, dpos, ppos, lambda, gamma, toSend>>

OutputSetupOther(p) ==
  /\ pc[p] = "outputSetup" /\ p >= 2
  /\ rerand' = [rerand EXCEPT ![p] = [k \in DOMAIN Outputs |-> PartyDraw(p, k - 1)]]
  /\ ppos' = [ppos EXCEPT ![p] = @ + Len(Outputs)]
  /\ Goto(p, "setup", 1)
  /\ UNCHANGED <<randVars, onlineVars, netVars, dpos, lambda, gamma, toSend>>

-----------------------------------------------------------------------------
(* runSetup: one round of its loop over the gates per action.              *)
AtGate(p, g) == pc[p] = "setup" /\ at[p] <= Len(Order) /\ g = Order[at[p]]

SetMask(p, g, x) == lambda' = [lambda EXCEPT ![p][g] = x % Modulus]

SetupLinear(p, g) ==
  /\ AtGate(p, g)
  /\ \/ Type(g) = "kAdd" /\ SetMask(p, g, lambda[p][In1(g, 1)] + lambda[p][In2(g, 1)])
     \/ Type(g) = "kConstMul" /\ SetMask(p, g, lambda[p][In1(g, 1)] * Gates[g].cval)
  /\ Advance(p)
  /\ UNCHANGED <<randVars, onlineVars, netVars, dpos, ppos, gamma, toSend, rerand>>

(* Only the provider has a share of an input's mask; it knows all of it.   *)
SetupInputDealer(g) ==
  /\ AtGate(0, g) /\ Type(g) = "kInp"
  /\ SetMask(0, g, DealerDraw(Owner[g], 0))
  /\ dpos' = [dpos EXCEPT ![Owner[g]] = @ + 1]
  /\ Advance(0)
  /\ UNCHANGED <<randVars, onlineVars, netVars, ppos, gamma, toSend, rerand>>

SetupInputParty(p, g) ==
  /\ AtGate(p, g) /\ Type(g) = "kInp" /\ p # 0
  /\ SetMask(p, g, IF p = Owner[g] THEN PartyDraw(p, 0) ELSE 0)
  /\ ppos' = [ppos EXCEPT ![p] = IF p = Owner[g] THEN @ + 1 ELSE @]
  /\ Advance(p)
  /\ UNCHANGED <<randVars, onlineVars, netVars, dpos, gamma, toSend, rerand>>

(* The product of the two masks, summed over the terms of a dot product.   *)
MaskProduct(g) ==
  SumTo(Width(g), [j \in 1..Width(g) |-> lambda[0][In1(g, j)] * lambda[0][In2(g, j)]])

(* From every stream but the last the dealer draws a share of gamma, then  *)
(* one of the output mask; from the last only the mask.  What is missing   *)
(* to gamma will be sent to party nP.                                      *)
SetupMultDealer(g) ==
  /\ AtGate(0, g) /\ IsMult(g)
  /\ SetMask(0, g, SumTo(nP - 1, [i \in Parties |-> DealerDraw(i, 1)]) + DealerDraw(nP, 0))
  /\ toSend' = Append(toSend,
       (MaskProduct(g) - SumTo(nP - 1, [i \in Parties |-> DealerDraw(i, 0)])) % Modulus)
  /\ dpos' = [i \in Parties |-> IF i < nP THEN dpos[i] + 2 ELSE dpos[i] + 1]
  /\ Advance(0)
  /\ UNCHANGED <<randVars, onlineVars, netVars, ppos, gamma, rerand>>

(* Variant: the party draws its share of the mask first. *)
SetupMultParty_MaskFirst(p, g) ==
  /\ AtGate(p, g) /\ IsMult(g) /\ p \in 1..(nP - 1)
  /\ gamma' = [gamma EXCEPT ![p][g] = PartyDraw(p, 1)]
  /\ SetMask(p, g, PartyDraw(p, 0))
  /\ ppos' = [ppos EXCEPT ![p] = @ + 2]
  /\ Advance(p)
  /\ UNCHANGED <<randVars, onlineVars, netVars, dpos, toSend, rerand>>

SetupMultParty(p, g) ==
  /\ AtGate(p, g) /\ IsMult(g) /\ p \in 1..(nP - 1)
  /\ gamma' = [gamma EXCEPT ![p][g] = PartyDraw(p, 0)]
  /\ SetMask(p, g, PartyDraw(p, 1))
  /\ ppos' = [ppos EXCEPT ![p] = @ + 2]
  /\ Advance(p)
  /\ UNCHANGED <<randVars, onlineVars, netVars, dpos, toSend, rerand>>

SetupMultLast(g) ==
  /\ AtGate(nP, g) /\ IsMult(g)
  /\ SetMask(nP, g, PartyDraw(nP, 0))
  /\ ppos' = [ppos EXCEPT ![nP] = @ + 1]
  /\ Advance(nP)
  /\ UNCHANGED <<randVars, onlineVars, netVars, dpos, gamma, toSend, rerand>>

(* The loop over, one message brings party nP all its shares of gamma, in  *)
(* the order of the gates; the dealer has no part in what follows.         *)
SendGamma ==
  /\ pc[0] = "setup" /\ at[0] > Len(Order)
  /\ Send(0, [q \in {nP} |-> toSend])
  /\ Goto(0, "done", 1)
  /\ UNCHANGED <<randVars, onlineVars, setupVars>>

RecvGamma ==
  /\ pc[nP] = "setup" /\ at[nP] > Len(Order) /\ Arrived(nP, 0)
  /\ gamma' = [gamma EXCEPT ![nP] = [w \in Wires |->
                 IF IsMult(w)
                 THEN NextMsg(nP, 0)[CHOOSE j \in DOMAIN MultOrder : MultOrder[j] = w]
                 ELSE @[w]]]
  /\ Consume(nP, 0)
  /\ Goto(nP, "setInputs", 1)
  /\ UNCHANGED <<randVars, onlineVars, dpos, ppos, lambda, toSend, rerand>>

EndSetup(p) ==
  /\ pc[p] = "setup" /\ at[p] > Len(Order) /\ p \in 1..(nP - 1)
  /\ Goto(p, "setInputs", 1)
  /\ UNCHANGED <<randVars, onlineVars, setupVars, netVars>>

-----------------------------------------------------------------------------
(* setInputs: mask one's own inputs, broadcast them, receive the others'.  *)
(* A party without inputs sends zero bytes, which puts nothing on a stream, *)
(* and the recv from it returns at once.  The code copies what it received *)
(* into the wires after the last recv; nothing reads them before.          *)
FirstPeer(p)   == IF p = 1 THEN 2 ELSE 1
PeerAfter(p, j) == IF j + 1 = p THEN j + 2 ELSE j + 1

(* Variant: the loop that broadcasts stops before nP_. *)
Receivers_NotLast(p) == {i \in 1..(nP - 1) : i # p /\ InputsOf(p) # << >>}
Receivers(p)         == {i \in Parties \ {p} : InputsOf(p) # << >>}

SendInputs(p) ==
  LET masked(w) == (inputs[w] - lambda[p][w]) % Modulus
  IN  /\ pc[p] = "setInputs"
      /\ m' = [m EXCEPT ![p] = [w \in Wires |->
                 IF w \in Range(InputsOf(p)) THEN masked(w) ELSE m[p][w]]]
      /\ Send(p, [q \in Receivers(p) |-> [j \in DOMAIN InputsOf(p) |-> masked(InputsOf(p)[j])]])
      /\ Goto(p, "recvInputs", FirstPeer(p))
      /\ UNCHANGED <<randVars, setupVars, shares, outvals>>

RecvFrom(p, i, new) ==
  /\ ~MustFlush(p, i)
  /\ \/ InputsOf(i) = << >> /\ UNCHANGED <<m, netVars>>
     \/ InputsOf(i) # << >> /\ Arrived(p, i) /\ Consume(p, i) /\ m' = [m EXCEPT ![p] = new]

RecvInputs(p) ==
  LET i == at[p]
  IN  /\ pc[p] = "recvInputs" /\ i \in Parties
      /\ RecvFrom(p, i, [w \in Wires |->
           IF w \in Range(InputsOf(i))
           THEN NextMsg(p, i)[CHOOSE j \in DOMAIN InputsOf(i) : InputsOf(i)[j] = w]
           ELSE m[p][w]])
      /\ Goto(p, "recvInputs", PeerAfter(p, i))
      /\ UNCHANGED <<randVars, setupVars, shares, outvals>>

EndInputs(p) ==
  /\ pc[p] = "recvInputs" /\ at[p] > nP
  /\ Goto(p, "evaluateCircuit", 1)
  /\ UNCHANGED <<randVars, setupVars, onlineVars, netVars>>

-----------------------------------------------------------------------------
(* evaluateCircuit: level by level; the gates of one level are independent *)
(* of each other (StrictOrder in Levels), which the parallel loops need.   *)
AtLevel(p, l) == pc[p] = "evaluateCircuit" /\ at[p] \in DOMAIN Layers /\ l = at[p]
Interactive(l) == \E w \in Range(Layers[l]) : IsMult(w)   \* level_mults[l] > 0

LinearValue(p, w) ==
  (CASE Type(w) = "kAdd"      -> m[p][In1(w, 1)] + m[p][In2(w, 1)]
     [] Type(w) = "kConstMul" -> m[p][In1(w, 1)] * Gates[w].cval
     [] OTHER                 -> m[p][w]) % Modulus

EvalLinear(p, l) ==
  /\ AtLevel(p, l) /\ ~Interactive(l)
  /\ m' = [m EXCEPT ![p] = [w \in Wires |->
             IF w \in Range(Layers[l]) THEN LinearValue(p, w) ELSE m[p][w]]]
  /\ Advance(p)
  /\ UNCHANGED <<randVars, setupVars, netVars, shares, outvals>>

(* Variant: every party adds the constant. *)
MultShare_EveryoneAdds(p, w) ==
  LET term(x, y) == m[p][x] * lambda[p][y] + lambda[p][x] * m[p][y] + m[p][x] * m[p][y]
  IN  (SumTo(Width(w), [j \in 1..Width(w) |-> term(In1(w, j), In2(w, j))])
         + gamma[p][w] - lambda[p][w]) % Modulus

(* A party's share of the masked product; only party 1 adds the constant.  *)
MultShare(p, w) ==
  LET term(x, y) == m[p][x] * lambda[p][y] + lambda[p][x] * m[p][y]
                      + (IF p = 1 THEN m[p][x] * m[p][y] ELSE 0)
  IN  (SumTo(Width(w), [j \in 1..Width(w) |-> term(In1(w, j), In2(w, j))])
         + gamma[p][w] - lambda[p][w]) % Modulus

Contribute(p, vector) == shares' = [shares EXCEPT ![p] = Append(@, vector)]

(* The opening that p has contributed to last is complete; its sums.       *)
Complete(p) == \A q \in Parties : Len(shares[q]) >= Len(shares[p])
Opened(p, i) == SumTo(nP, [q \in Parties |-> shares[q][Len(shares[p])][i]]) % Modulus

MultSend(p, l) ==
  /\ AtLevel(p, l) /\ Interactive(l)
  /\ Contribute(p, [i \in DOMAIN Layers[l] |-> MultShare(p, Layers[l][i])])
  /\ Goto(p, "reconstructMult", l)
  /\ UNCHANGED <<randVars, setupVars, netVars, m, outvals>>

MultRecv(p) ==
  LET level == Layers[at[p]]
  IN  /\ pc[p] = "reconstructMult" /\ Complete(p)
      /\ m' = [m EXCEPT ![p] = [w \in Wires |->
                 IF w \in Range(level)
                 THEN Opened(p, CHOOSE i \in DOMAIN level : level[i] = w) ELSE m[p][w]]]
      /\ Goto(p, "evaluateCircuit", at[p] + 1)
      /\ UNCHANGED <<randVars, setupVars, netVars, shares, outvals>>

-----------------------------------------------------------------------------
(* getOutputs: rerandomize the masks of the outputs in place, one after    *)
(* the other, and open them.                                               *)
RerandUpTo(p, w, k) ==
  SumTo(k, [j \in DOMAIN Outputs |-> IF Outputs[j] = w THEN rerand[p][j] ELSE 0])

OutputSend(p) ==
  /\ pc[p] = "evaluateCircuit" /\ at[p] > Len(Layers)
  /\ Contribute(p, [k \in DOMAIN Outputs |->
       (lambda[p][Outputs[k]] + RerandUpTo(p, Outputs[k], k)) % Modulus])
  /\ lambda' = [lambda EXCEPT ![p] = [w \in Wires |->
       (lambda[p][w] + RerandUpTo(p, w, Len(Outputs))) % Modulus]]
  /\ Goto(p, "getOutputs", 1)
  /\ UNCHANGED <<randVars, netVars, dpos, ppos, gamma, toSend, rerand, m, outvals>>

OutputRecv(p) ==
  /\ pc[p] = "getOutputs" /\ Complete(p)
  /\ outvals' = [outvals EXCEPT ![p] =
       [k \in DOMAIN Outputs |-> (m[p][Outputs[k]] + Opened(p, k)) % Modulus]]
  /\ Goto(p, "done", 1)
  /\ UNCHANGED <<randVars, setupVars, netVars, m, shares>>

-----------------------------------------------------------------------------
DealerStep ==
  \/ OutputSetupDealer \/ SendGamma
  \/ \E g \in Wires : SetupLinear(0, g) \/ SetupInputDealer(g) \/ SetupMultDealer(g)

PartyStep(p) ==
  \/ p = 1 /\ OutputSetupFirst
  \/ OutputSetupOther(p)
  \/ \E g \in Wires : SetupLinear(p, g) \/ SetupInputParty(p, g) \/ SetupMultParty(p, g)
  \/ p = nP /\ (RecvGamma \/ \E g \in Wires : SetupMultLast(g))
  \/ EndSetup(p) \/ SendInputs(p) \/ RecvInputs(p) \/ EndInputs(p)
  \/ \E l \in DOMAIN Layers : EvalLinear(p, l) \/ MultSend(p, l)
  \/ MultRecv(p) \/ OutputSend(p) \/ OutputRecv(p)

Next == DealerStep \/ \E p \in Parties : PartyStep(p)

(* Every process is a program of its own that runs unless a recv blocks.   *)
Spec == Init /\ [][Next]_vars /\ WF_vars(DealerStep) /\ \A p \in Parties : WF_vars(PartyStep(p))

-----------------------------------------------------------------------------
Methods == {"outputSetup", "setup", "setInputs", "recvInputs", "evaluateCircuit",
            "reconstructMult", "getOutputs", "done"}

(* The types: masks, shares and masked values stay in the ring, the streams *)
(* carry vectors of ring elements only (semi_evaluator.cpp:32-456).         *)
TypeOK ==
  /\ tape \in Tapes /\ inputs \in InputChoices
  /\ pc \in [Procs -> Methods] /\ at \in [Procs -> Nat]
  /\ dpos \in [Parties -> Nat] /\ ppos \in [Parties -> Nat]
  /\ lambda \in [Procs -> [Wires -> Ring]] /\ gamma \in [Parties -> [Wires -> Ring]]
  /\ toSend \in Seq(Ring) /\ rerand \in [Procs -> [DOMAIN Outputs -> Ring]]
  /\ m \in [Parties -> [Wires -> Ring]]
  /\ shares \in [Parties -> Seq(Seq(Ring))] /\ outvals \in [Parties -> Seq(Ring)]
  /\ NetTypeOK(Seq(Ring)) /\ NetOK

(* The circuit on the plaintext inputs: the reference.                     *)
Plain ==
  LET v[w \in Wires] ==
        (CASE Type(w) = "kInp"      -> inputs[w]
           [] Type(w) = "kAdd"      -> v[In1(w, 1)] + v[In2(w, 1)]
           [] Type(w) = "kConstMul" -> v[In1(w, 1)] * Gates[w].cval
           [] OTHER ->
                SumTo(Width(w), [j \in 1..Width(w) |-> v[In1(w, j)] * v[In2(w, j)]])) % Modulus
  IN  v

(* The gates whose masks p has set, the wires whose masked value it has.   *)
Visited(p) ==
  CASE pc[p] = "outputSetup" -> {}
    [] pc[p] = "setup"       -> {Order[j] : j \in 1..(at[p] - 1)}
    [] OTHER                 -> Wires

HasM(p) ==
  CASE pc[p] \in {"outputSetup", "setup", "setInputs"} -> {}
    [] pc[p] = "recvInputs" -> {w \in InputWires : Owner[w] < at[p] \/ Owner[w] = p}
    [] pc[p] \in {"evaluateCircuit", "reconstructMult"} ->
         InputWires \cup UNION {Range(Layers[l]) : l \in 1..(at[p] - 1)}
    [] OTHER -> Wires

(* The gamma shares sum to the product of the masks: those drawn and those *)
(* party nP picks out of the dealer's one message.                         *)
GammaMatch ==
  (\A p \in Procs : pc[p] \notin {"outputSetup", "setup"}) =>
    \A w \in Wires : IsMult(w) =>
      SumTo(nP, [p \in Parties |-> gamma[p][w]]) % Modulus = MaskProduct(w) % Modulus

(* The masked values a party computes or receives are the wire's value     *)
(* minus its mask, at every party and for every interleaving.              *)
MaskedValues ==
  \A p \in Parties : \A w \in HasM(p) \cap Visited(0) :
    (m[p][w] + lambda[0][w]) % Modulus = Plain[w]

(* Whoever finishes has the circuit's outputs, an output wire named twice  *)
(* included.                                                               *)
OutputsCorrect ==
  \A p \in Parties : pc[p] = "done" => outvals[p] = [k \in DOMAIN Outputs |-> Plain[Outputs[k]]]

(* Everybody finishes: no order of the sends and receives blocks for good. *)
AllFinish == <>(\A p \in Procs : pc[p] = "done")
=============================================================================
