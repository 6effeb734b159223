--------------------------- MODULE Threads_proofs ---------------------------
(***************************************************************************)
(* Proofs about Levels and Threads.                                        *)
(*                                                                         *)
(* Levels: the promises of StrictLevelOrderedCircuit and the assertion of  *)
(* strictlyOrderGatesByLevel, for every circuit.  Threads, which adds the  *)
(* evaluation to the ordering: for every circuit, every number of threads  *)
(* and every schedule, a level evaluated in parallel is evaluated right.   *)
(***************************************************************************)
EXTENDS Threads, TLAPS, FiniteSetTheorems

-----------------------------------------------------------------------------
(* The ordering.                                                           *)

Ordered == phase \in {"strict", "done"}

(* What orderGatesByLevel has established of gate h: it lies at the level  *)
(* of its deepest input, a multiplication above all of them.               *)
StdFact(h) ==
  /\ level[h] <= depth
  /\ Type(h) = "kInp" => level[h] = 0
  /\ IsMult(h) => level[h] > 0 /\ \A i \in Ins(h) : level[i] < level[h]
  /\ Type(h) \in {"kAdd", "kConstMul"} =>
       (\A i \in Ins(h) : level[i] <= level[h]) /\ (\E i \in Ins(h) : level[i] = level[h])

(* It holds of the gates the loop has passed, and afterwards of all.       *)
StdInv ==
  /\ phase = "std" => \A h \in Wires : h < next => StdFact(h)
  /\ Ordered => \A h \in Wires : StdFact(h)

Placed == Wires \ todo

(* The strict loop works layer by layer: what it has placed lies in layers *)
(* up to the current one, what is left in layers from the current one.     *)
LayerInv ==
  Ordered =>
    /\ \A h \in Placed : level[h] <= layer
    /\ \A h \in todo : level[h] >= layer
    /\ phase = "done" => todo = {}

(* Where a placed gate is, relative to the base of the current layer.      *)
PlaceFact(h) ==
  /\ Ins(h) \subseteq Placed
  /\ \A i \in Ins(h) : slevel[i] < slevel[h]
  /\ slevel[h] <= sdepth
  /\ Type(h) = "kInp" => slevel[h] = 0
  /\ Type(h) # "kInp" => slevel[h] > 0
  /\ level[h] < layer => slevel[h] < base
  /\ level[h] = layer /\ Type(h) # "kInp" => slevel[h] >= base
  /\ level[h] = layer /\ IsMult(h) => slevel[h] = base
  /\ level[h] = layer /\ layer > 0 /\ ~IsMult(h) => slevel[h] > base

(* The base is 0 in the layer of the inputs only.                          *)
BaseInv ==
  Ordered => /\ layer > 0 => base > 0
             /\ layer = 0 => base = 0
             /\ \A h \in todo : slevel[h] = 0

PlaceInv == Ordered => \A h \in Placed : PlaceFact(h)

(* Same strict level: both interactive or neither; same round: same depth. *)
PairInv ==
  Ordered =>
    \A g, h \in Placed :
      /\ slevel[g] = slevel[h] => (IsMult(g) <=> IsMult(h))
      /\ IsMult(g) /\ IsMult(h) => (slevel[g] = slevel[h] <=> level[g] = level[h])

IInv == TypeOK /\ StdInv /\ LayerInv /\ BaseInv /\ PlaceInv /\ PairInv

-----------------------------------------------------------------------------
(* An element of a sequence of gates is a gate (sequences of any set).      *)
LEMMA SeqElement == ASSUME NEW S, NEW s \in Seq(S), NEW i \in 1..Len(s) PROVE s[i] \in S
OBVIOUS

(* Every gate of the circuit has one of the five types.                     *)
LEMMA TypeOfGate == ASSUME TypeOK, NEW g \in Wires PROVE Type(g) \in GateType
<1> DEFINE Gates == [type : GateType, ins : SUBSET (1..MaxGates)]
<1>1. gates \in Seq(Gates)
  BY DEF TypeOK
<1>2. gates[g] \in Gates
  BY <1>1, SeqElement DEF Wires
<1> QED BY <1>2 DEF Type

(* The empty circuit satisfies the invariant.                               *)
LEMMA InitIInv == Init => IInv
BY MaxGatesAssumption DEF Init, IInv, TypeOK, StdInv, LayerInv, BaseInv, PlaceInv, PairInv, Ordered, Wires

(* Building adds a gate whose inputs are already there.                    *)
LEMMA BuildIInv ==
  ASSUME IInv, Build
  PROVE  IInv'
<1>1. PICK type \in GateType, ins \in SUBSET Wires :
        /\ Add(type, ins)
        /\ type \in {"kAdd", "kMul", "kConstMul"} => ins # {}
        /\ type = "kInp" => ins = {}
  <2>1. CASE NewInputWire
    BY <2>1 DEF NewInputWire, GateType
  <2>2. CASE \E in1, in2 \in AnyWire, type \in {"kAdd", "kMul"} : AddGate(type, in1, in2)
    BY <2>2 DEF AddGate, Valid, GateType
  <2>3. CASE \E in \in AnyWire : AddConstOpGate(in)
    BY <2>3 DEF AddConstOpGate, Valid, GateType
  <2>4. CASE \E ins \in SUBSET AnyWire : AddDotprod(ins)
    BY <2>4 DEF AddDotprod, Valid, GateType
  <2> QED BY <2>1, <2>2, <2>3, <2>4 DEF Build
<1> DEFINE gate == [type |-> type, ins |-> ins]
           Gates == [type : GateType, ins : SUBSET (1..MaxGates)]
<1>2. /\ phase = "build" /\ Len(gates) < MaxGates /\ gates' = Append(gates, gate)
      /\ phase' = phase /\ next' = next /\ level' = level /\ depth' = depth
      /\ layer' = layer /\ todo' = todo /\ slevel' = slevel /\ base' = base /\ sdepth' = sdepth
  BY <1>1 DEF Add, stdVars, strictVars
<1>3. gates \in Seq(Gates) /\ gate \in Gates
  BY <1>1, <1>2, MaxGatesAssumption DEF IInv, TypeOK, Wires
<1>4. /\ gates' \in Seq(Gates) /\ Wires' = 1..(Len(gates) + 1)
      /\ \A g \in Wires : gates'[g] = gates[g]
      /\ gates'[Len(gates) + 1] = gate
  BY <1>2, <1>3 DEF Wires
<1>5. \A g \in Wires' : GateOK(g)'
  <2>1. SUFFICES ASSUME NEW g \in Wires' PROVE GateOK(g)'
    OBVIOUS
  <2>2. CASE g \in Wires
    BY <1>4, <2>2 DEF GateOK, Ins, Type, IInv, TypeOK
  <2>3. CASE g = Len(gates) + 1
    BY <1>1, <1>3, <1>4, <2>3 DEF GateOK, Ins, Type, Wires
  <2>4. Len(gates) \in Nat
    BY <1>3
  <2> QED BY <1>4, <2>2, <2>3, <2>4 DEF Wires
<1>6. TypeOK'
  BY <1>2, <1>4, <1>5 DEF IInv, TypeOK
<1> QED BY <1>2, <1>6 DEF IInv, StdInv, LayerInv, BaseInv, PlaceInv, PairInv, Ordered

(* Starting the ordering keeps the invariant: nothing is levelled yet.      *)
LEMMA OrderIInv ==
  ASSUME IInv, Order
  PROVE  IInv'
<1>1. /\ phase' = "std" /\ next' = 1 /\ depth' = 0 /\ level' = [g \in Wires |-> 0]
      /\ gates' = gates /\ layer' = layer /\ base' = base /\ sdepth' = sdepth
  BY DEF Order, strictVars
<1>2. TypeOK'
  BY <1>1 DEF IInv, TypeOK, Wires, GateOK, Ins, Type
<1>3. StdInv'
  BY <1>1 DEF StdInv, Ordered, Wires
<1> QED BY <1>1, <1>2, <1>3 DEF IInv, LayerInv, BaseInv, PlaceInv, PairInv, Ordered

(* One gate of orderGatesByLevel: the gates before it keep their level, and *)
(* its inputs are among them.                                              *)
LEMMA StdGateIInv ==
  ASSUME IInv, StdGate
  PROVE  IInv'
<1>1. PICK top \in {0} \cup {level[i] : i \in Ins(next)} :
        /\ \A i \in Ins(next) : level[i] <= top
        /\ level' = [level EXCEPT ![next] = IF IsMult(next) THEN top + 1 ELSE top]
        /\ depth' = Max2(depth, IF IsMult(next) THEN top + 1 ELSE top)
  BY DEF StdGate
<1>2. /\ phase = "std" /\ next \in Wires /\ next' = next + 1 /\ phase' = phase
      /\ gates' = gates /\ layer' = layer /\ todo' = todo /\ slevel' = slevel
      /\ base' = base /\ sdepth' = sdepth
  BY DEF StdGate, strictVars
<1>3. TypeOK /\ level \in [Wires -> Nat] /\ next \in Nat /\ depth \in Nat
      /\ GateOK(next) /\ Type(next) \in GateType
  <2>1. TypeOK /\ level \in [Wires -> Nat] /\ next \in Nat /\ depth \in Nat /\ GateOK(next)
    BY <1>2 DEF IInv, TypeOK
  <2> QED BY <1>2, <2>1, TypeOfGate
<1>4. \A i \in Ins(next) : i \in Wires /\ i < next
  BY <1>2, <1>3 DEF GateOK, Wires
<1>5. top \in Nat
  BY <1>1, <1>3, <1>4
<1>6. level' \in [Wires -> Nat] /\ depth' \in Nat
  <2>1. (IF IsMult(next) THEN top + 1 ELSE top) \in Nat
    BY <1>5
  <2> QED BY <1>1, <1>3, <2>1 DEF Max2
<1>7. TypeOK'
  BY <1>2, <1>3, <1>6, SMTT(30) DEF TypeOK, Wires, GateOK, Ins, Type
<1>8. /\ \A h \in Wires : h # next => level'[h] = level[h]
      /\ level'[next] = (IF IsMult(next) THEN top + 1 ELSE top)
      /\ depth' >= depth /\ depth' >= level'[next]
  BY <1>1, <1>2, <1>3, <1>5 DEF Max2
<1>9. ASSUME NEW h \in Wires, h < next + 1
      PROVE  StdFact(h)'
  <2>1. h \in Nat /\ GateOK(h) /\ Ins(h)' = Ins(h) /\ Type(h)' = Type(h) /\ IsMult(h)' = IsMult(h)
    BY <1>2, <1>3 DEF TypeOK, Wires, Ins, Type, IsMult
  <2>2. \A i \in Ins(h) : i \in Wires /\ i < h
    BY <1>9, <2>1 DEF GateOK, Wires
  <2>3. \A i \in Ins(h) : level'[i] = level[i]
    BY <1>8, <1>9, <1>3, <2>1, <2>2 DEF Wires
  <2>4. CASE h < next
    <3>1. StdFact(h)
      BY <1>2, <2>4 DEF IInv, StdInv
    <3>2. level'[h] = level[h] /\ level[h] \in Nat
      BY <1>3, <1>8, <2>1, <2>4
    <3> QED BY <1>3, <1>6, <1>8, <2>1, <2>3, <3>1, <3>2 DEF StdFact
  <2>5. CASE h = next
    <3>1. level'[h] <= depth'
      BY <1>8, <2>5
    <3>2. \A i \in Ins(h) : level'[i] <= top
      BY <1>1, <2>3, <2>5
    <3>3. CASE IsMult(h)
      <4>1. level'[h] = top + 1
        BY <1>8, <2>5, <3>3
      <4>2. \A i \in Ins(h) : level'[i] < level'[h]
        BY <1>3, <1>5, <2>2, <2>3, <3>2, <4>1
      <4> QED BY <1>5, <2>1, <3>1, <3>3, <4>1, <4>2 DEF StdFact, IsMult
    <3>4. CASE Type(h) = "kInp"
      <4>1. Ins(h) = {} /\ ~IsMult(h)
        BY <2>1, <3>4 DEF GateOK, IsMult
      <4>2. top = 0 /\ level'[h] = 0
        BY <1>1, <1>8, <2>5, <4>1
      <4> QED BY <2>1, <3>1, <3>4, <4>1, <4>2 DEF StdFact
    <3>5. CASE Type(h) \in {"kAdd", "kConstMul"}
      <4>1. Ins(h) # {} /\ ~IsMult(h)
        BY <2>1, <3>5 DEF GateOK, IsMult
      <4>2. level'[h] = top
        BY <1>8, <2>5, <4>1
      <4>3. \E i \in Ins(h) : level[i] = top
        <5>1. CASE top = 0
          <6>1. PICK i \in Ins(h) : TRUE
            BY <4>1
          <6>2. level[i] \in Nat /\ level[i] <= 0
            BY <1>1, <1>3, <2>2, <2>5, <5>1
          <6> QED BY <5>1, <6>2
        <5>2. CASE top # 0
          BY <1>1, <2>5, <5>2
        <5> QED BY <5>1, <5>2
      <4> QED BY <2>1, <2>3, <3>1, <3>2, <3>5, <4>1, <4>2, <4>3 DEF StdFact
    <3> QED BY <1>3, <2>5, <3>3, <3>4, <3>5 DEF GateType, IsMult
  <2> QED BY <1>3, <1>9, <2>1, <2>4, <2>5
<1>10. StdInv'
  <2>1. Wires' = Wires
    BY <1>2 DEF Wires
  <2> QED BY <1>2, <1>9, <2>1 DEF StdInv, Ordered
<1> QED BY <1>2, <1>7, <1>10 DEF IInv, LayerInv, BaseInv, PlaceInv, PairInv, Ordered

(* The end of orderGatesByLevel hands every gate's layer to the strict loop. *)
LEMMA StdDoneIInv ==
  ASSUME IInv, StdDone
  PROVE  IInv'
<1>1. /\ phase = "std" /\ next > Len(gates) /\ phase' = "strict"
      /\ layer' = 0 /\ todo' = Wires /\ base' = 0 /\ sdepth' = 0
      /\ slevel' = [g \in Wires |-> 0]
      /\ gates' = gates /\ next' = next /\ level' = level /\ depth' = depth
  BY DEF StdDone, stdVars
<1>2. TypeOK'
  BY <1>1 DEF IInv, TypeOK, Wires, GateOK, Ins, Type
<1>3. Len(gates) \in Nat /\ next \in Nat /\ level \in [Wires -> Nat]
  BY <1>1 DEF IInv, TypeOK
<1>4. \A h \in Wires : StdFact(h)
  BY <1>1, <1>3 DEF IInv, StdInv, Wires
<1>5. StdInv'
  BY <1>1, <1>4 DEF StdInv, StdFact, Ordered, Wires, Ins, Type, IsMult
<1>6. Placed' = {} /\ LayerInv' /\ BaseInv'
  BY <1>1, <1>3 DEF Placed, LayerInv, BaseInv, Wires, Ordered
<1> QED BY <1>2, <1>5, <1>6 DEF IInv, PlaceInv, PairInv

(* The gate g the strict loop takes: its inputs are placed, and where it   *)
(* goes relative to them and to the base of the layer.                     *)
LEMMA StrictGateFacts ==
  ASSUME IInv, phase = "strict", NEW g \in LayerTodo, \A h \in LayerTodo : g <= h
  PROVE  /\ g \in todo /\ g \in Wires /\ level[g] = layer
         /\ Ins(g) \subseteq Placed
         /\ \A i \in Ins(g) : level[i] <= layer
         /\ IsMult(g) => layer > 0 /\ \A i \in Ins(g) : level[i] < layer
         /\ ~IsMult(g) /\ Type(g) # "kInp" => \E i \in Ins(g) : level[i] = layer
         /\ Type(g) = "kInp" => layer = 0
         /\ Type(g) \in GateType
<1>1. g \in todo /\ g \in Wires /\ level[g] = layer /\ todo \subseteq Wires
  BY DEF LayerTodo, IInv, TypeOK
<1>2. TypeOK /\ level \in [Wires -> Nat] /\ layer \in Nat /\ GateOK(g) /\ StdFact(g)
  BY <1>1 DEF IInv, TypeOK, StdInv, Ordered
<1>3. Type(g) \in GateType
  BY <1>1, <1>2, TypeOfGate
<1>4. \A i \in Ins(g) : i \in Wires /\ i < g /\ level[i] \in Nat
  BY <1>1, <1>2 DEF GateOK, Wires
<1>5. \A i \in Ins(g) : level[i] <= layer
  BY <1>1, <1>2, <1>3, <1>4 DEF StdFact, IsMult, GateType, GateOK
<1>6. Ins(g) \subseteq Placed
  <2>1. SUFFICES ASSUME NEW i \in Ins(g), i \in todo PROVE FALSE
    BY <1>4 DEF Placed
  <2>2. level[i] >= layer
    BY <2>1 DEF IInv, LayerInv, Ordered
  <2>3. level[i] = layer
    BY <1>2, <1>4, <1>5, <2>1, <2>2
  <2>4. g <= i
    BY <2>1, <2>3 DEF LayerTodo
  <2> QED BY <1>1, <1>4, <2>1, <2>4 DEF Wires
<1>7. IsMult(g) => layer > 0 /\ \A i \in Ins(g) : level[i] < layer
  BY <1>1, <1>2 DEF StdFact
<1>8. ~IsMult(g) /\ Type(g) # "kInp" => \E i \in Ins(g) : level[i] = layer
  BY <1>1, <1>2, <1>3 DEF StdFact, IsMult, GateType
<1>9. Type(g) = "kInp" => layer = 0
  BY <1>1, <1>2 DEF StdFact
<1> QED BY <1>1, <1>3, <1>5, <1>6, <1>7, <1>8, <1>9

(* Placing one gate of the strict loop keeps the invariant.                 *)
LEMMA StrictGateIInv ==
  ASSUME IInv, StrictGate
  PROVE  IInv'
<1>1. PICK g \in LayerTodo :
        /\ \A h \in LayerTodo : g <= h
        /\ todo' = todo \ {g}
        /\ IF Type(g) = "kInp"
           THEN UNCHANGED <<slevel, sdepth>>
           ELSE \E top \in {0} \cup {slevel[i] : i \in Ins(g)} :
                  /\ \A i \in Ins(g) : slevel[i] <= top
                  /\ slevel' = [slevel EXCEPT ![g] = Max2(base, top + 1)]
                  /\ sdepth' = Max2(sdepth, Max2(base, top + 1))
  BY DEF StrictGate
<1>2. /\ phase = "strict" /\ phase' = phase /\ gates' = gates /\ next' = next
      /\ level' = level /\ depth' = depth /\ layer' = layer /\ base' = base
  BY DEF StrictGate, stdVars
<1>3. /\ g \in todo /\ g \in Wires /\ level[g] = layer
      /\ Ins(g) \subseteq Placed
      /\ \A i \in Ins(g) : level[i] <= layer
      /\ IsMult(g) => layer > 0 /\ \A i \in Ins(g) : level[i] < layer
      /\ ~IsMult(g) /\ Type(g) # "kInp" => \E i \in Ins(g) : level[i] = layer
      /\ Type(g) = "kInp" => layer = 0
      /\ Type(g) \in GateType
  BY <1>1, <1>2, StrictGateFacts
<1>4. /\ TypeOK /\ level \in [Wires -> Nat] /\ slevel \in [Wires -> Nat] /\ todo \subseteq Wires
      /\ layer \in Nat /\ base \in Nat /\ sdepth \in Nat
      /\ (layer > 0 => base > 0) /\ (layer = 0 => base = 0)
  BY <1>2 DEF IInv, TypeOK, BaseInv, Ordered
<1>5. \A h \in Placed : h \in Wires /\ h # g /\ PlaceFact(h) /\ level[h] <= layer
  BY <1>2, <1>3 DEF Placed, IInv, PlaceInv, LayerInv, Ordered
<1>6. Wires' = Wires /\ Placed' = Placed \cup {g}
  BY <1>1, <1>2, <1>3 DEF Placed, Wires
(* The new level of g, in either case of the code.                         *)
<1>7. /\ slevel' \in [Wires -> Nat] /\ sdepth' \in Nat /\ sdepth' >= sdepth
      /\ \A h \in Wires : h # g => slevel'[h] = slevel[h]
      /\ Type(g) = "kInp" => slevel'[g] = slevel[g]
      /\ Type(g) # "kInp" =>
           /\ slevel'[g] >= base /\ slevel'[g] > 0 /\ slevel'[g] <= sdepth'
           /\ \A i \in Ins(g) : slevel[i] < slevel'[g]
           /\ \/ slevel'[g] = base
              \/ slevel'[g] = 1
              \/ \E i \in Ins(g) : slevel'[g] = slevel[i] + 1
  <2>1. CASE Type(g) = "kInp"
    BY <1>1, <1>4, <2>1
  <2>2. CASE Type(g) # "kInp"
    <3>1. PICK top \in {0} \cup {slevel[i] : i \in Ins(g)} :
            /\ \A i \in Ins(g) : slevel[i] <= top
            /\ slevel' = [slevel EXCEPT ![g] = Max2(base, top + 1)]
            /\ sdepth' = Max2(sdepth, Max2(base, top + 1))
      BY <1>1, <2>2
    <3>2. \A i \in Ins(g) : slevel[i] \in Nat
      BY <1>3, <1>4, <1>5
    <3>3. top \in Nat
      BY <3>1, <3>2
    <3>4. Max2(base, top + 1) \in Nat /\ Max2(base, top + 1) >= base /\ Max2(base, top + 1) >= top + 1
          /\ (Max2(base, top + 1) = base \/ Max2(base, top + 1) = top + 1)
      BY <1>4, <3>3 DEF Max2
    <3>5. slevel' \in [Wires -> Nat] /\ slevel'[g] = Max2(base, top + 1)
          /\ \A h \in Wires : h # g => slevel'[h] = slevel[h]
      BY <1>3, <1>4, <3>1, <3>4
    <3>6. sdepth' \in Nat /\ sdepth' >= sdepth /\ sdepth' >= slevel'[g]
      BY <1>4, <3>1, <3>4, <3>5 DEF Max2
    <3>7. \A i \in Ins(g) : slevel[i] < slevel'[g]
      BY <3>1, <3>2, <3>3, <3>4, <3>5
    <3>8. slevel'[g] = base \/ slevel'[g] = 1 \/ \E i \in Ins(g) : slevel'[g] = slevel[i] + 1
      BY <3>1, <3>4, <3>5
    <3> QED BY <1>4, <2>2, <3>3, <3>4, <3>5, <3>6, <3>7, <3>8
  <2> QED BY <2>1, <2>2
<1>8. TypeOK'
  <2>1. todo' \subseteq Wires
    BY <1>1, <1>4
  <2> QED BY <1>2, <1>4, <1>6, <1>7, <2>1 DEF TypeOK, GateOK, Ins, Type
<1>9. \A h \in Wires : Ins(h)' = Ins(h) /\ Type(h)' = Type(h) /\ IsMult(h)' = IsMult(h)
                       /\ (IsMult(h) => Type(h) # "kInp")
  BY <1>2 DEF Ins, Type, IsMult
<1>10. StdInv'
  BY <1>2, <1>6, <1>9 DEF IInv, StdInv, StdFact, Ordered, Ins, Type, IsMult
<1>11. LayerInv' /\ BaseInv'
  <2>1. \A h \in Placed' : level'[h] <= layer'
    BY <1>2, <1>3, <1>4, <1>5, <1>6
  <2>2. \A h \in todo' : level'[h] >= layer'
    BY <1>1, <1>2 DEF IInv, LayerInv, Ordered
  <2>3. \A h \in todo' : slevel'[h] = 0
    BY <1>1, <1>2, <1>4, <1>7 DEF IInv, BaseInv, Ordered
  <2> QED BY <1>2, <1>4, <2>1, <2>2, <2>3 DEF LayerInv, BaseInv, Ordered

<1>12. \A h \in Placed : /\ h \in Wires /\ h # g /\ slevel'[h] = slevel[h]
                         /\ slevel[h] \in Nat /\ level[h] \in Nat /\ StdFact(h) /\ PlaceFact(h)
  BY <1>2, <1>4, <1>5, <1>7 DEF IInv, StdInv, Ordered
<1>13. \A i \in Ins(g) : i \in Placed
  BY <1>3
<1>14. Type(g) # "kInp" /\ IsMult(g) => slevel'[g] = base
  <2>1. SUFFICES ASSUME Type(g) # "kInp", IsMult(g) PROVE slevel'[g] = base
    OBVIOUS
  <2>2. \A i \in Ins(g) : slevel[i] < base
    BY <1>3, <1>12, <1>13, <2>1 DEF PlaceFact
  <2>3. base > 0 /\ slevel'[g] \in Nat
    BY <1>3, <1>4, <1>7, <2>1
  <2>4. \A i \in Ins(g) : slevel[i] \in Nat
    BY <1>12, <1>13
  <2> QED BY <1>4, <1>7, <2>1, <2>2, <2>3, <2>4
<1>15. Type(g) # "kInp" /\ ~IsMult(g) /\ layer > 0 => slevel'[g] > base
  <2>1. SUFFICES ASSUME Type(g) # "kInp", ~IsMult(g), layer > 0 PROVE slevel'[g] > base
    OBVIOUS
  <2>2. PICK i \in Ins(g) : level[i] = layer
    BY <1>3, <2>1
  <2>3. i \in Placed /\ StdFact(i) /\ PlaceFact(i)
    BY <1>12, <1>13
  <2>4. Type(i) # "kInp"
    BY <1>4, <2>1, <2>2, <2>3 DEF StdFact
  <2>5. slevel[i] >= base /\ slevel[i] < slevel'[g] /\ slevel[i] \in Nat /\ slevel'[g] \in Nat
    BY <1>3, <1>7, <1>12, <2>1, <2>2, <2>3, <2>4 DEF PlaceFact
  <2> QED BY <1>4, <2>5
<1>16. Type(g) = "kInp" => Ins(g) = {} /\ slevel'[g] = 0 /\ layer = 0 /\ ~IsMult(g)
  <2>1. slevel[g] = 0
    BY <1>2, <1>3 DEF IInv, BaseInv, Ordered
  <2> QED BY <1>3, <1>4, <1>7, <2>1 DEF TypeOK, GateOK, IsMult
<1>17. PlaceFact(g)'
  <2>1. CASE Type(g) = "kInp"
    BY <1>2, <1>3, <1>4, <1>6, <1>7, <1>9, <1>16, <2>1 DEF PlaceFact
  <2>2. CASE Type(g) # "kInp"
    <3>1. Ins(g)' \subseteq Placed' /\ \A i \in Ins(g)' : slevel'[i] < slevel'[g]
      BY <1>3, <1>6, <1>7, <1>9, <1>12, <1>13, <2>2
    <3>2. slevel'[g] <= sdepth' /\ slevel'[g] > 0 /\ slevel'[g] >= base'
      BY <1>2, <1>7, <2>2
    <3>3. ~(level'[g] < layer') /\ (IsMult(g) => slevel'[g] = base')
          /\ (layer' > 0 /\ ~IsMult(g) => slevel'[g] > base')
      BY <1>2, <1>3, <1>4, <1>14, <1>15, <2>2
    <3> QED BY <1>3, <1>9, <2>2, <3>1, <3>2, <3>3 DEF PlaceFact
  <2> QED BY <2>1, <2>2
<1>18. PlaceInv'
  <2>1. SUFFICES ASSUME NEW h \in Placed PROVE PlaceFact(h)'
    BY <1>6, <1>17 DEF PlaceInv
  <2>2. h \in Wires /\ slevel'[h] = slevel[h] /\ PlaceFact(h) /\ slevel[h] \in Nat
    BY <1>12
  <2>3. Ins(h)' = Ins(h) /\ Type(h)' = Type(h) /\ IsMult(h)' = IsMult(h)
    BY <1>9, <2>2
  <2>4. Ins(h)' \subseteq Placed' /\ \A i \in Ins(h)' : slevel'[i] < slevel'[h]
    BY <1>6, <1>12, <2>2, <2>3 DEF PlaceFact
  <2>5. slevel'[h] <= sdepth'
    BY <1>4, <1>7, <2>2 DEF PlaceFact
  <2> QED BY <1>2, <2>2, <2>3, <2>4, <2>5 DEF PlaceFact
(* A gate placed before g compared with g.                                 *)
<1>19. ASSUME NEW h \in Placed
       PROVE  /\ slevel'[g] = slevel'[h] => (IsMult(g) <=> IsMult(h))
              /\ IsMult(g) /\ IsMult(h) => (slevel'[g] = slevel'[h] <=> level[g] = level[h])
  <2>1. /\ h \in Wires /\ slevel'[h] = slevel[h] /\ slevel[h] \in Nat /\ level[h] \in Nat
        /\ StdFact(h) /\ PlaceFact(h) /\ level[h] <= layer
    BY <1>5, <1>12
  <2>2. IsMult(h) => Type(h) # "kInp"
    BY <1>9, <2>1
  <2>3. slevel'[g] \in Nat
    BY <1>3, <1>7
  <2>4. CASE Type(g) = "kInp"
    BY <1>16, <2>1, <2>2, <2>4 DEF PlaceFact
  <2>5. CASE Type(g) # "kInp" /\ level[h] < layer
    <3>1. slevel[h] < base /\ base <= slevel'[g]
      BY <1>7, <2>1, <2>5 DEF PlaceFact
    <3> QED BY <1>3, <1>4, <2>1, <2>3, <2>5, <3>1
  <2>6. CASE Type(g) # "kInp" /\ level[h] = layer /\ layer = 0
    BY <1>3, <1>4, <2>1, <2>6 DEF StdFact
  <2>7. CASE Type(g) # "kInp" /\ level[h] = layer /\ layer > 0
    <3>1. Type(h) # "kInp"
      BY <1>4, <2>1, <2>7 DEF StdFact
    <3>2. (IsMult(h) => slevel[h] = base) /\ (~IsMult(h) => slevel[h] > base)
      BY <2>1, <2>7, <3>1 DEF PlaceFact
    <3> QED BY <1>3, <1>4, <1>14, <1>15, <2>1, <2>3, <2>7, <3>2
  <2> QED BY <1>4, <2>1, <2>4, <2>5, <2>6, <2>7
<1>20. PairInv'
  <2>1. SUFFICES ASSUME NEW a \in Placed', NEW b \in Placed'
                 PROVE  /\ slevel'[a] = slevel'[b] => (IsMult(a)' <=> IsMult(b)')
                        /\ IsMult(a)' /\ IsMult(b)' => (slevel'[a] = slevel'[b] <=> level'[a] = level'[b])
    BY DEF PairInv
  <2>2. a \in Wires /\ b \in Wires
    BY <1>3, <1>6, <1>12
  <2>3. (IsMult(a)' <=> IsMult(a)) /\ (IsMult(b)' <=> IsMult(b))
    BY <1>9, <2>2
  <2>4. CASE a \in Placed /\ b \in Placed
    BY <1>2, <1>12, <2>3, <2>4 DEF IInv, PairInv, Ordered
  <2>5. CASE a = g /\ b \in Placed
    BY <1>2, <1>19, <2>3, <2>5
  <2>6. CASE a \in Placed /\ b = g
    BY <1>2, <1>19, <2>3, <2>6
  <2>7. CASE a = g /\ b = g
    BY <2>7
  <2> QED BY <1>6, <2>4, <2>5, <2>6, <2>7
<1> QED BY <1>8, <1>10, <1>11, <1>18, <1>20 DEF IInv

(* A layer ends: everything placed so far lies below the next layer's base. *)
LEMMA LayerDoneIInv ==
  ASSUME IInv, LayerDone
  PROVE  IInv'
<1>1. /\ phase = "strict" /\ phase' = phase /\ gates' = gates /\ next' = next
      /\ level' = level /\ depth' = depth /\ layer' = layer + 1 /\ base' = sdepth + 1
      /\ todo' = todo /\ slevel' = slevel /\ sdepth' = sdepth /\ LayerTodo = {}
  BY DEF LayerDone, stdVars
<1>2. /\ TypeOK /\ level \in [Wires -> Nat] /\ slevel \in [Wires -> Nat] /\ todo \subseteq Wires
      /\ layer \in Nat /\ base \in Nat /\ sdepth \in Nat
  BY <1>1 DEF IInv, TypeOK
<1>3. Wires' = Wires /\ Placed' = Placed
  BY <1>1 DEF Wires, Placed
<1>4. \A h \in Wires : Ins(h)' = Ins(h) /\ Type(h)' = Type(h) /\ IsMult(h)' = IsMult(h)
  BY <1>1 DEF Ins, Type, IsMult
<1>5. TypeOK'
  BY <1>1, <1>2, <1>3 DEF TypeOK, GateOK, Ins, Type
<1>6. StdInv'
  BY <1>1, <1>3, <1>4 DEF IInv, StdInv, StdFact, Ordered, Ins, Type, IsMult
<1>7. LayerInv' /\ BaseInv'
  <2>1. \A h \in Placed : level[h] <= layer /\ level[h] \in Nat
    BY <1>1, <1>2 DEF IInv, LayerInv, Ordered, Placed
  <2>2. \A h \in todo : level[h] >= layer /\ level[h] # layer /\ level[h] \in Nat
    BY <1>1, <1>2 DEF IInv, LayerInv, Ordered, LayerTodo
  <2>3. \A h \in Placed' : level'[h] <= layer'
    BY <1>1, <1>2, <1>3, <2>1
  <2>4. \A h \in todo' : level'[h] >= layer'
    BY <1>1, <1>2, <2>2
  <2>5. LayerInv'
    BY <1>1, <2>3, <2>4 DEF LayerInv
  <2> QED BY <1>1, <1>2, <2>5 DEF IInv, BaseInv, Ordered
<1>8. PlaceInv'
  <2>1. SUFFICES ASSUME NEW h \in Placed PROVE PlaceFact(h)'
    BY <1>3 DEF PlaceInv
  <2>2. PlaceFact(h) /\ level[h] <= layer /\ h \in Wires /\ slevel[h] \in Nat /\ level[h] \in Nat
    BY <1>1, <1>2 DEF IInv, PlaceInv, LayerInv, Ordered, Placed
  <2>3. slevel[h] < sdepth + 1 /\ level[h] < layer + 1
    BY <1>2, <2>2 DEF PlaceFact
  <2> QED BY <1>1, <1>2, <1>3, <1>4, <2>2, <2>3 DEF PlaceFact
<1>9. PairInv'
  BY <1>1, <1>2, <1>3, <1>4 DEF IInv, PairInv, Ordered, Placed
<1> QED BY <1>5, <1>6, <1>7, <1>8, <1>9 DEF IInv

(* The loop over the layers has passed the deepest one: nothing is left.   *)
LEMMA StrictDoneIInv ==
  ASSUME IInv, StrictDone
  PROVE  IInv'
<1>1. /\ phase = "strict" /\ phase' = "done" /\ layer > depth /\ gates' = gates /\ next' = next
      /\ level' = level /\ depth' = depth /\ layer' = layer /\ base' = base
      /\ todo' = todo /\ slevel' = slevel /\ sdepth' = sdepth
  BY DEF StrictDone, stdVars, strictVars
<1>2. todo = {}
  <2>1. SUFFICES ASSUME NEW h \in todo PROVE FALSE
    OBVIOUS
  <2>2. h \in Wires /\ level[h] \in Nat /\ depth \in Nat /\ layer \in Nat
    BY <1>1 DEF IInv, TypeOK
  <2>3. level[h] <= depth /\ level[h] >= layer
    BY <1>1, <2>2 DEF IInv, StdInv, StdFact, LayerInv, Ordered
  <2> QED BY <1>1, <2>2, <2>3
<1>3. Wires' = Wires /\ Placed' = Placed
  BY <1>1 DEF Wires, Placed
<1>4. \A h \in Wires : Ins(h)' = Ins(h) /\ Type(h)' = Type(h) /\ IsMult(h)' = IsMult(h)
  BY <1>1 DEF Ins, Type, IsMult
<1>5. TypeOK'
  BY <1>1, <1>3 DEF IInv, TypeOK, GateOK, Ins, Type
<1>6. StdInv' /\ LayerInv' /\ BaseInv'
  BY <1>1, <1>2, <1>3, <1>4
  DEF IInv, StdInv, StdFact, LayerInv, BaseInv, Ordered, Ins, Type, IsMult
<1>7. PlaceInv' /\ PairInv'
  BY <1>1, <1>3, <1>4 DEF IInv, PlaceInv, PairInv, PlaceFact, Ordered, Placed, Ins, Type, IsMult
<1> QED BY <1>5, <1>6, <1>7 DEF IInv

(* Every step of the builder and of the ordering keeps the invariant.       *)
LEMMA NextIInv == IInv /\ [Next]_vars => IInv'
<1> SUFFICES ASSUME IInv, [Next]_vars PROVE IInv'
  OBVIOUS
<1>1. CASE UNCHANGED vars
  <2> USE <1>1 DEF vars, stdVars, strictVars
  <2>1. TypeOK' /\ StdInv'
    BY DEF IInv, TypeOK, StdInv, StdFact, Ordered, Wires, GateOK, Ins, Type, IsMult
  <2>2. LayerInv' /\ BaseInv' /\ PlaceInv' /\ PairInv'
    BY DEF IInv, LayerInv, BaseInv, PlaceInv, PairInv, PlaceFact, Ordered, Placed, Wires, Ins, Type, IsMult
  <2> QED BY <2>1, <2>2 DEF IInv
<1> QED BY <1>1, BuildIInv, OrderIInv, StdGateIInv, StdDoneIInv, StrictGateIInv, LayerDoneIInv,
           StrictDoneIInv DEF Next, Ordering

(* Hence the invariant holds in every reachable state.                      *)
LEMMA Invariance == Spec => []IInv
BY InitIInv, NextIInv, PTL DEF Spec

-----------------------------------------------------------------------------
(* The builder and both levellings keep their data well formed.            *)
THEOREM TypeCorrect == Spec => []TypeOK
<1>1. IInv => TypeOK
  BY DEF IInv
<1> QED BY <1>1, Invariance, PTL

(* In a finished ordering everything is placed.                            *)
LEMMA AllPlaced == ASSUME IInv, phase = "done" PROVE Placed = Wires
BY DEF IInv, LayerInv, Ordered, Placed

(* orderGatesByLevel (circuit.h:79-82): no gate lies below an input of it, *)
(* and a multiplication lies strictly above, in every circuit.             *)
THEOREM LayersAreOrdered == Spec => []LayersOrdered
<1>1. IInv => LayersOrdered
  <2>1. SUFFICES ASSUME IInv, Ordered, NEW g \in Wires, NEW i \in Ins(g)
                 PROVE IF IsMult(g) THEN level[i] < level[g] ELSE level[i] <= level[g]
    BY DEF LayersOrdered, Ordered
  <2>2. StdFact(g) /\ GateOK(g) /\ Type(g) \in GateType
    BY <2>1, TypeOfGate DEF IInv, StdInv, TypeOK
  <2> QED BY <2>2 DEF StdFact, GateOK, GateType, IsMult
<1> QED BY <1>1, Invariance, PTL

(* strictlyOrderGatesByLevel (circuit.h:94-99): whatever a gate reads is on *)
(* an earlier level, in every circuit.                                     *)
THEOREM LevelsAreStrict == Spec => []StrictOrder
<1>1. IInv => StrictOrder
  BY AllPlaced DEF IInv, StrictOrder, PlaceInv, PlaceFact, Ordered
<1> QED BY <1>1, Invariance, PTL

(* The assertion at circuit.h:342 holds for every circuit.                 *)
THEOREM LevelsAreHomogeneous == Spec => []Homogeneous
<1>1. IInv => Homogeneous
  BY AllPlaced DEF IInv, Homogeneous, PairInv, Ordered
<1> QED BY <1>1, Invariance, PTL

(* The evaluators may take level 0 to be exactly the inputs, whatever the  *)
(* circuit: an addition of inputs, or an empty dot product, is above.      *)
THEOREM InputsAreLevelZero == Spec => []LevelZeroIsInputs
<1>1. IInv => LevelZeroIsInputs
  BY AllPlaced DEF IInv, LevelZeroIsInputs, PlaceInv, PlaceFact, Ordered
<1> QED BY <1>1, Invariance, PTL

(* Making the levels strict costs no round (circuit.h:262-264): it splits  *)
(* no multiplicative layer and merges no two.                              *)
THEOREM NoExtraRounds == Spec => []RoundsKept
<1>1. IInv => RoundsKept
  BY AllPlaced DEF IInv, RoundsKept, PairInv, Ordered
<1> QED BY <1>1, Invariance, PTL

(* strictlyOrderGatesByLevel reads the level of a wire only after it has   *)
(* set it: the layer-by-layer order visits the inputs first.               *)
THEOREM InputsComeFirst == Spec => []InputsPlacedFirst
<1>1. IInv => InputsPlacedFirst
  BY DEF IInv, InputsPlacedFirst, PlaceInv, PlaceFact, Ordered, Placed
<1> QED BY <1>1, Invariance, PTL

-----------------------------------------------------------------------------
(* The number of rounds.  Every layer up to the deepest one found so far   *)
(* has a multiplication: a gate is at most one deeper than the others.     *)
DepthInv ==
  phase # "build" =>
    \A d \in 1..depth : \E h \in Wires :
      IsMult(h) /\ level[h] = d /\ (phase = "std" => h < next)

(* The gate that is placed next is at most one deeper than the others.     *)
LEMMA StdGateDepthInv ==
  ASSUME IInv, DepthInv, StdGate
  PROVE  DepthInv'
<1>1. PICK top \in {0} \cup {level[i] : i \in Ins(next)} :
        /\ level' = [level EXCEPT ![next] = IF IsMult(next) THEN top + 1 ELSE top]
        /\ depth' = Max2(depth, IF IsMult(next) THEN top + 1 ELSE top)
  BY DEF StdGate
<1>2. phase = "std" /\ next \in Wires /\ gates' = gates
  BY DEF StdGate
<1>3. level \in [Wires -> Nat] /\ next \in Nat /\ depth \in Nat /\ GateOK(next)
  BY <1>2 DEF IInv, TypeOK
<1>4. \A i \in Ins(next) : i \in Wires /\ i < next
  BY <1>2, <1>3 DEF GateOK, Wires
<1>5. top \in Nat /\ top <= depth
  <2>1. \A i \in Ins(next) : level[i] \in Nat /\ level[i] <= depth
    BY <1>2, <1>3, <1>4 DEF IInv, StdInv, StdFact
  <2> QED BY <1>3, <2>1
<1>6. \A h \in Wires : IsMult(h)' = IsMult(h) /\ h \in Wires'
  BY <1>2 DEF IsMult, Type, Wires
<1>7. /\ \A h \in Wires : h # next => level'[h] = level[h]
      /\ IsMult(next) => level'[next] = top + 1
      /\ depth' = Max2(depth, IF IsMult(next) THEN top + 1 ELSE top)
  BY <1>1, <1>2, <1>3, <1>5
<1>8. ASSUME NEW d \in 1..depth'
      PROVE  \E h \in Wires' : IsMult(h)' /\ level'[h] = d /\ h < next + 1
  <2>1. CASE d = top + 1 /\ IsMult(next)
    BY <1>2, <1>3, <1>6, <1>7, <2>1
  <2>2. CASE ~(d = top + 1 /\ IsMult(next))
    <3>1. d \in 1..depth
      BY <1>3, <1>5, <1>7, <1>8, <2>2 DEF Max2
    <3>2. PICK h \in Wires : IsMult(h) /\ level[h] = d /\ h < next
      BY <1>2, <3>1 DEF DepthInv
    <3>3. h \in Nat /\ h # next
      BY <1>3, <3>2 DEF Wires
    <3> QED BY <1>3, <1>6, <1>7, <3>2, <3>3
  <2> QED BY <2>1, <2>2
<1>9. next' = next + 1 /\ phase' = phase
  BY DEF StdGate
<1> QED BY <1>2, <1>8, <1>9 DEF DepthInv

(* All other steps leave the layers as they are, or begin them.            *)
LEMMA DepthInvariance == Spec => []DepthInv
<1>1. Init => DepthInv
  BY DEF Init, DepthInv
<1>2. IInv /\ DepthInv /\ [Next]_vars => DepthInv'
  <2> SUFFICES ASSUME IInv, DepthInv, [Next]_vars PROVE DepthInv'
    OBVIOUS
  <2>1. CASE Build
    <3>1. phase' = "build"
      BY <2>1 DEF Build, NewInputWire, AddGate, AddConstOpGate, AddDotprod, Add
    <3> QED BY <3>1 DEF DepthInv
  <2>2. CASE Order
    BY <2>2 DEF Order, DepthInv
  <2>3. CASE StdGate
    BY <2>3, StdGateDepthInv
  <2>4. CASE StdDone \/ StrictGate \/ LayerDone \/ StrictDone \/ UNCHANGED vars
    <3>1. /\ gates' = gates /\ level' = level /\ depth' = depth /\ next' = next
          /\ phase # "build" \/ phase' = "build"
          /\ phase' = "std" => phase = "std"
      BY <2>4 DEF StdDone, StrictGate, LayerDone, StrictDone, vars, stdVars
    <3> QED BY <3>1 DEF DepthInv, Wires, IsMult, Type
  <2> QED BY <2>1, <2>2, <2>3, <2>4 DEF Next, Ordering
<1> QED BY <1>1, <1>2, Invariance, PTL DEF Spec

(* Strict levelling keeps the number of rounds at the multiplicative depth *)
(* (circuit.h:262-264), in every circuit: the interactive levels and the   *)
(* layers that are not the inputs' are in one-to-one correspondence.       *)
THEOREM RoundsAreTheDepth == Spec => []RoundsAreDepth
<1>1. IInv /\ DepthInv => RoundsAreDepth
  <2> SUFFICES ASSUME IInv, DepthInv, phase = "done"
               PROVE  Cardinality({l \in 0..sdepth : LevelMults(l) > 0}) = depth
    BY DEF RoundsAreDepth
  <2> DEFINE Rounds == {l \in 0..sdepth : LevelMults(l) > 0}
             Mults == {g \in Wires : IsMult(g)}
             f == [d \in 1..depth |-> slevel[CHOOSE h \in Mults : level[h] = d]]
  <2>1. /\ Placed = Wires /\ depth \in Nat /\ sdepth \in Nat
        /\ level \in [Wires -> Nat] /\ slevel \in [Wires -> Nat]
    BY AllPlaced DEF IInv, TypeOK
  <2>2. \A g \in Mults : level[g] \in 1..depth /\ slevel[g] \in 0..sdepth
    BY <2>1 DEF IInv, StdInv, StdFact, PlaceInv, PlaceFact, Ordered
  <2>3. \A g, h \in Mults : slevel[g] = slevel[h] <=> level[g] = level[h]
    BY <2>1 DEF IInv, PairInv, Ordered
  <2>4. \A d \in 1..depth : \E h \in Mults : level[h] = d
    BY DEF DepthInv
  <2>5. ASSUME NEW l \in 0..sdepth
        PROVE  LevelMults(l) > 0 <=> \E g \in Mults : slevel[g] = l
    <3> DEFINE S == {g \in GatesByLevel(l) : IsMult(g)}
    <3>1. Len(gates) \in Nat
      BY DEF IInv, TypeOK
    <3>2. S \subseteq 1..Len(gates)
      BY DEF GatesByLevel, Wires
    <3>3. IsFiniteSet(S)
      <4>1. IsFiniteSet(1..Len(gates))
        BY <3>1, FS_Interval
      <4> HIDE DEF S
      <4> QED BY <3>2, <4>1, FS_Subset
    <3>4. Cardinality(S) \in Nat /\ (Cardinality(S) = 0 <=> S = {})
      BY <3>3, FS_CardinalityType, FS_EmptySet
    <3>5. S = {} <=> ~ \E g \in Mults : slevel[g] = l
      BY DEF GatesByLevel
    <3>6. LevelMults(l) = Cardinality(S)
      BY DEF LevelMults
    <3> HIDE DEF S
    <3> QED BY <3>4, <3>5, <3>6
  <2>6. \A d \in 1..depth : \E h \in Mults : level[h] = d /\ f[d] = slevel[h]
    <3>1. SUFFICES ASSUME NEW d \in 1..depth
                   PROVE  \E h \in Mults : level[h] = d /\ f[d] = slevel[h]
      OBVIOUS
    <3> DEFINE h == CHOOSE h \in Mults : level[h] = d
    <3>2. h \in Mults /\ level[h] = d
      BY <2>4
    <3>3. f[d] = slevel[h]
      OBVIOUS
    <3> QED BY <3>2, <3>3
  <2>7. DOMAIN f = 1..depth /\ f = [d \in 1..depth |-> f[d]]
    OBVIOUS
  <2> HIDE DEF f, Mults
  <2>8. f \in [1..depth -> Rounds]
    BY <2>2, <2>5, <2>6, <2>7
  <2>9. \A a, b \in 1..depth : f[a] = f[b] => a = b
    BY <2>3, <2>6
  <2>10. \A l \in Rounds : \E d \in 1..depth : f[d] = l
    <3>1. SUFFICES ASSUME NEW l \in Rounds PROVE \E d \in 1..depth : f[d] = l
      OBVIOUS
    <3>2. PICK g \in Mults : slevel[g] = l
      BY <2>5, <3>1
    <3>3. PICK h \in Mults : level[h] = level[g] /\ f[level[g]] = slevel[h]
      BY <2>2, <2>6
    <3> QED BY <2>2, <2>3, <3>2, <3>3
  <2>11. ExistsBijection(1..depth, Rounds)
    <3> HIDE DEF Rounds
    <3>1. f \in Bijection(1..depth, Rounds)
      BY <2>7, <2>8, <2>9, <2>10 DEF Bijection, Injection, Surjection, IsInjective
    <3> QED BY <3>1 DEF ExistsBijection
  <2> HIDE DEF Rounds
  <2>12. Cardinality(Rounds) = depth
    BY <2>1, <2>11, FS_CountingElements
  <2> QED BY <2>12 DEF Rounds
<1> QED BY <1>1, Invariance, DepthInvariance, PTL

-----------------------------------------------------------------------------
(* The evaluation.                                                         *)

Values == {"unset", "right", "wrong"}

(* Between two levels everything below the current one is there.           *)
LevelInv ==
  /\ at \in Nat /\ at <= sdepth
  /\ m \in [Wires -> Values]
  /\ \A w \in Wires : m[w] # "wrong"
  /\ \A w \in Wires : slevel[w] < at \/ Type(w) = "kInp" => m[w] = "right"

(* Whoever has begun an iteration has read right values.                   *)
IterInv ==
  /\ ready = busy /\ left \cap busy = {}
  /\ IF loop \in {"send", "recv"} THEN left \cup busy \subseteq Iterations(loop, at)
     ELSE left = {} /\ busy = {}

(* The entries of mult_vals that have been written are at their gates'     *)
(* positions.                                                              *)
EntryInv ==
  loop \in {"send", "recv"} =>
    /\ mult_vals \in [1..LevelMults(at) -> Wires \cup {0}]
    /\ \A g \in Iterations("send", at) :
         loop = "recv" \/ g \notin left \cup busy => mult_vals[Position(g)] = g

(* What the second loop has passed is there.                               *)
DoneInv ==
  /\ loop = "recv" => \A g \in Iterations("recv", at) : g \notin left \cup busy => m[g] = "right"
  /\ loop = "end" => \A w \in Wires : m[w] = "right"

ThreadInv ==
  /\ IInv
  /\ loop \in {"off", "send", "recv", "end"}
  /\ IterInv
  /\ loop # "off" => phase = "done" /\ LevelInv /\ EntryInv /\ DoneInv

-----------------------------------------------------------------------------
(* What the ordering has established when it is over.                      *)
LEMMA Levelled ==
  ASSUME IInv, phase = "done"
  PROVE  /\ Wires = 1..Len(gates) /\ Len(gates) \in Nat
         /\ slevel \in [Wires -> Nat] /\ level \in [Wires -> Nat] /\ sdepth \in Nat
         /\ \A g \in Wires : slevel[g] <= sdepth
         /\ \A g \in Wires : \A i \in Ins(g) : i \in Wires /\ slevel[i] < slevel[g]
         /\ \A g \in Wires : Type(g) # "kInp" => slevel[g] > 0
         /\ \A g, h \in Wires : slevel[g] = slevel[h] => (IsMult(g) <=> IsMult(h))
<1>1. Placed = Wires /\ Ordered
  BY AllPlaced DEF Ordered
<1>2. \A g \in Wires : PlaceFact(g)
  BY <1>1 DEF IInv, PlaceInv
<1>3. \A g \in Wires : GateOK(g)
  BY DEF IInv, TypeOK
<1>4. Wires = 1..Len(gates) /\ Len(gates) \in Nat
  BY DEF IInv, TypeOK, Wires
<1>5. \A g \in Wires : \A i \in Ins(g) : i \in Wires
  BY <1>1, <1>2 DEF PlaceFact
<1> QED
  BY <1>1, <1>2, <1>4, <1>5 DEF IInv, TypeOK, PairInv, PlaceFact

(* There are finitely many iterations of a level.                          *)
LEMMA LevelFinite ==
  ASSUME IInv, phase = "done", NEW d
  PROVE  /\ GatesByLevel(d) \subseteq Wires
         /\ IsFiniteSet(GatesByLevel(d)) /\ IsFiniteSet(Iterations("send", d))
         /\ LevelMults(d) = Cardinality(Iterations("send", d)) /\ LevelMults(d) \in Nat
<1>1. GatesByLevel(d) \subseteq Wires /\ Iterations("send", d) \subseteq GatesByLevel(d)
  BY DEF GatesByLevel, Iterations
<1>2. IsFiniteSet(Wires)
  BY Levelled, FS_Interval
<1>3. IsFiniteSet(GatesByLevel(d))
  BY <1>1, <1>2, FS_Subset
<1>4. IsFiniteSet(Iterations("send", d))
  BY <1>1, <1>3, FS_Subset
<1>5. LevelMults(d) = Cardinality(Iterations("send", d))
  BY DEF LevelMults, Iterations
<1> QED BY <1>1, <1>3, <1>4, <1>5, FS_CardinalityType

(* The position of a multiplication is an index of mult_vals.              *)
LEMMA PositionInside ==
  ASSUME IInv, phase = "done", NEW d, NEW g \in Iterations("send", d)
  PROVE  Position(g) \in 1..LevelMults(d)
<1> DEFINE P == {h \in GatesByLevel(slevel[g]) : Before(h, g)}
<1>1. g \in Wires /\ slevel[g] = d /\ IsMult(g) /\ g \in Nat
  BY Levelled DEF Iterations, GatesByLevel
<1>2. P \subseteq Iterations("send", d)
  BY <1>1, Levelled DEF Iterations, GatesByLevel
<1>3. g \in P
  BY <1>1, Levelled DEF GatesByLevel, Before
<1>4. IsFiniteSet(P) /\ Cardinality(P) <= LevelMults(d) /\ Cardinality(P) \in Nat
  BY <1>2, LevelFinite, FS_Subset, FS_CardinalityType
<1>5. Cardinality(P) # 0
  BY <1>3, <1>4, FS_EmptySet
<1>6. Position(g) = Cardinality(P)
  BY DEF Position
<1> HIDE DEF P
<1> QED BY <1>4, <1>5, <1>6, LevelFinite

(* Two multiplications of a level have different positions.                *)
LEMMA PositionsDiffer ==
  ASSUME IInv, phase = "done", NEW d,
         NEW g \in Iterations("send", d), NEW h \in Iterations("send", d), g # h
  PROVE  Position(g) # Position(h)
<1>1. ASSUME NEW a \in Iterations("send", d), NEW b \in Iterations("send", d), a # b, Before(a, b)
      PROVE  Position(a) # Position(b)
  <2> DEFINE P(c) == {x \in GatesByLevel(d) : Before(x, c)}
  <2>1. /\ a \in Wires /\ b \in Wires /\ slevel[a] = d /\ slevel[b] = d
        /\ a \in Nat /\ b \in Nat /\ level[a] \in Nat /\ level[b] \in Nat
    BY Levelled DEF Iterations, GatesByLevel
  <2>2. \A x \in GatesByLevel(d) : x \in Nat /\ level[x] \in Nat
    BY Levelled DEF GatesByLevel
  <2>3. P(a) \subseteq P(b)
    BY <1>1, <2>1, <2>2 DEF Before
  <2>4. b \in P(b) /\ b \notin P(a)
    BY <1>1, <2>1 DEF Before, GatesByLevel
  <2>5. IsFiniteSet(P(b))
    BY LevelFinite, FS_Subset
  <2>6. Cardinality(P(a)) # Cardinality(P(b))
    <3>1. P(a) \in SUBSET P(b) /\ P(b) # P(a)
      BY <2>3, <2>4
    <3> HIDE DEF P
    <3> QED BY <3>1, <2>5, FS_Subset
  <2>7. Position(a) = Cardinality(P(a)) /\ Position(b) = Cardinality(P(b))
    BY <2>1 DEF Position
  <2> QED BY <2>6, <2>7
<1>2. Before(g, h) \/ Before(h, g)
  BY Levelled DEF Before, Iterations, GatesByLevel
<1> QED BY <1>1, <1>2

(* Hence they fill mult_vals.                                              *)
LEMMA PositionsFill ==
  ASSUME IInv, phase = "done", NEW d, NEW i \in 1..LevelMults(d)
  PROVE  \E g \in Iterations("send", d) : Position(g) = i
<1> DEFINE S == Iterations("send", d)
           T == 1..LevelMults(d)
           f == [g \in S |-> Position(g)]
<1>1. f \in Injection(S, T)
  BY PositionInside, PositionsDiffer DEF Injection, IsInjective
<1>2. IsFiniteSet(T) /\ Cardinality(T) = Cardinality(S)
  BY LevelFinite, FS_Interval
<1>3. f \in Surjection(S, T)
  BY <1>1, <1>2, FS_Injection
<1> QED BY <1>3 DEF Surjection

-----------------------------------------------------------------------------
(* Nothing runs before the circuit is ordered.                             *)
LEMMA InitThreadInv == EvaluatorInit => ThreadInv
BY InitIInv DEF EvaluatorInit, ThreadInit, ThreadInv, IterInv

(* Building and ordering leave the evaluation alone, which starts when     *)
(* they are over.                                                          *)
LEMMA OrderThreadInv ==
  ASSUME ThreadInv, Next, UNCHANGED threadVars
  PROVE  ThreadInv'
<1>1. IInv'
  BY NextIInv DEF ThreadInv
<1>2. phase # "done"
  BY DEF Next, Build, NewInputWire, AddGate, AddConstOpGate, AddDotprod, Add, Order,
         Ordering, StdGate, StdDone, StrictGate, LayerDone, StrictDone
<1>3. loop = "off"
  BY <1>2 DEF ThreadInv
<1> QED BY <1>1, <1>3 DEF ThreadInv, IterInv, threadVars

(* While the circuit stays as it is, only the evaluation's own variables   *)
(* matter to the invariant.                                                *)
LEMMA SameCircuit ==
  ASSUME ThreadInv, UNCHANGED vars, phase = "done",
         loop' \in {"send", "recv", "end"}, ready' = busy', left' \cap busy' = {},
         IF loop' \in {"send", "recv"} THEN left' \cup busy' \subseteq Iterations(loop', at')
         ELSE left' = {} /\ busy' = {},
         at' \in Nat, at' <= sdepth, m' \in [Wires -> Values],
         \A w \in Wires : m'[w] # "wrong",
         \A w \in Wires : slevel[w] < at' \/ Type(w) = "kInp" => m'[w] = "right",
         loop' \in {"send", "recv"} =>
           /\ mult_vals' \in [1..LevelMults(at') -> Wires \cup {0}]
           /\ \A g \in Iterations("send", at') :
                loop' = "recv" \/ g \notin left' \cup busy' => mult_vals'[Position(g)] = g,
         loop' = "recv" => \A g \in Iterations("recv", at') : g \notin left' \cup busy' => m'[g] = "right",
         loop' = "end" => \A w \in Wires : m'[w] = "right"
  PROVE  ThreadInv'
<1> USE DEF vars, stdVars, strictVars
<1>1. IInv'
  BY NextIInv DEF ThreadInv
<1>2. /\ gates' = gates /\ slevel' = slevel /\ level' = level /\ phase' = phase /\ sdepth' = sdepth
      /\ Wires' = Wires
  BY DEF Wires
<1>3. IterInv'
  BY <1>2 DEF IterInv, Iterations, GatesByLevel, Wires, IsMult, Type
<1>4. LevelInv'
  BY <1>2 DEF LevelInv, Wires, Type
<1>5. EntryInv'
  BY <1>2 DEF EntryInv, Iterations, GatesByLevel, LevelMults, Position, Before, Wires, IsMult, Type
<1>6. DoneInv'
  BY <1>2 DEF DoneInv, Iterations, GatesByLevel, Wires, IsMult, Type
<1> QED BY <1>1, <1>2, <1>3, <1>4, <1>5, <1>6 DEF ThreadInv

(* The evaluation starts at the level of the inputs, which are there.      *)
LEMMA EvaluateCircuitInv ==
  ASSUME ThreadInv, EvaluateCircuit
  PROVE  ThreadInv'
<1>1. /\ phase = "done" /\ loop = "off" /\ loop' = "send" /\ at' = 0
      /\ left' = Iterations("send", 0) /\ mult_vals' = [i \in 1..LevelMults(0) |-> 0]
      /\ m' = [w \in Wires |-> IF Type(w) = "kInp" THEN "right" ELSE "unset"]
      /\ busy' = busy /\ ready' = ready /\ UNCHANGED vars
  BY DEF EvaluateCircuit, Enter
<1>2. IInv /\ busy = {} /\ ready = {}
  BY <1>1 DEF ThreadInv, IterInv
<1>3. 0 <= sdepth /\ \A w \in Wires : ~(slevel[w] < 0)
  BY <1>1, <1>2, Levelled
<1>4. m' \in [Wires -> Values] /\ \A w \in Wires : m'[w] # "wrong"
  BY <1>1 DEF Values
<1>5. \A w \in Wires : slevel[w] < 0 \/ Type(w) = "kInp" => m'[w] = "right"
  BY <1>1, <1>3
<1> QED BY <1>1, <1>2, <1>3, <1>4, <1>5, SameCircuit

(* A thread that begins an iteration reads only what is right: wires of    *)
(* lower levels, or an entry of mult_vals that the first loop has written. *)
LEMMA BeginInv ==
  ASSUME ThreadInv, NEW g \in left, Begin(g)
  PROVE  ThreadInv'
<1>1. /\ loop \in {"send", "recv"} /\ left' = left \ {g} /\ busy' = busy \cup {g}
      /\ ready' = (IF ReadsRight(g) THEN ready \cup {g} ELSE ready)
      /\ loop' = loop /\ at' = at /\ m' = m /\ mult_vals' = mult_vals /\ UNCHANGED vars
  BY DEF Begin
<1>2. IInv /\ phase = "done" /\ LevelInv /\ EntryInv /\ DoneInv /\ IterInv
  BY <1>1 DEF ThreadInv
<1>3. g \in Iterations(loop, at) /\ g \in Wires /\ slevel[g] = at
  BY <1>1, <1>2 DEF IterInv, Iterations, GatesByLevel
<1>4. ReadsRight(g)
  <2>1. CASE loop = "recv" /\ IsMult(g)
    <3>1. g \in Iterations("send", at)
      BY <1>3, <2>1 DEF Iterations
    <3>2. Position(g) \in 1..LevelMults(at)
      BY <1>2, <3>1, PositionInside
    <3> QED BY <1>2, <2>1, <3>1, <3>2 DEF ReadsRight, EntryInv
  <2>2. CASE ~(loop = "recv" /\ IsMult(g))
    <3>1. \A i \in Ins(g) : i \in Wires /\ slevel[i] < at
      BY <1>2, <1>3, Levelled
    <3> QED BY <1>2, <2>2, <3>1 DEF ReadsRight, LevelInv
  <2> QED BY <2>1, <2>2
<1>5. ready' = busy' /\ left' \cap busy' = {} /\ left' \cup busy' = left \cup busy
  BY <1>1, <1>2, <1>4 DEF IterInv
<1>6. left' \cup busy' \subseteq Iterations(loop', at')
  BY <1>1, <1>2, <1>5 DEF IterInv
<1>7. at \in Nat /\ at <= sdepth /\ m \in [Wires -> Values] /\ (\A w \in Wires : m[w] # "wrong")
      /\ \A w \in Wires : slevel[w] < at \/ Type(w) = "kInp" => m[w] = "right"
  BY <1>2 DEF LevelInv
<1>8. /\ mult_vals \in [1..LevelMults(at) -> Wires \cup {0}]
      /\ \A h \in Iterations("send", at) :
           loop = "recv" \/ h \notin left \cup busy => mult_vals[Position(h)] = h
  BY <1>1, <1>2 DEF EntryInv
<1>9. loop = "recv" => \A h \in Iterations("recv", at) : h \notin left \cup busy => m[h] = "right"
  BY <1>2 DEF DoneInv
<1>10. UNCHANGED <<loop, at, m, mult_vals>> /\ loop' # "end"
  BY <1>1
<1> QED BY <1>1, <1>2, <1>5, <1>6, <1>7, <1>8, <1>9, <1>10, SameCircuit

(* A share goes to an entry of its own; a value is what was to be computed. *)
LEMMA FinishInv ==
  ASSUME ThreadInv, NEW g \in busy, Finish(g)
  PROVE  ThreadInv'
<1>1. loop \in {"send", "recv"}
  BY DEF ThreadInv, IterInv
<1>2. IInv /\ phase = "done" /\ LevelInv /\ EntryInv /\ DoneInv /\ IterInv
  BY <1>1 DEF ThreadInv
<1>3. /\ busy' = busy \ {g} /\ ready' = ready \ {g}
      /\ loop' = loop /\ at' = at /\ left' = left /\ UNCHANGED vars
  BY DEF Finish
<1>4. g \in ready /\ g \in Iterations(loop, at) /\ g \in Wires /\ slevel[g] = at
  BY <1>1, <1>2 DEF IterInv, Iterations, GatesByLevel
<1>5. ready' = busy' /\ left' \cap busy' = {} /\ left' \cup busy' = (left \cup busy) \ {g}
  BY <1>2, <1>3 DEF IterInv
<1>6. left' \cup busy' \subseteq Iterations(loop', at')
  BY <1>1, <1>2, <1>3, <1>5 DEF IterInv
<1>7. at \in Nat /\ at <= sdepth /\ m \in [Wires -> Values] /\ (\A w \in Wires : m[w] # "wrong")
      /\ \A w \in Wires : slevel[w] < at \/ Type(w) = "kInp" => m[w] = "right"
  BY <1>2 DEF LevelInv
<1>8. /\ mult_vals \in [1..LevelMults(at) -> Wires \cup {0}]
      /\ \A h \in Iterations("send", at) :
           loop = "recv" \/ h \notin left \cup busy => mult_vals[Position(h)] = h
  BY <1>1, <1>2 DEF EntryInv
<1>9. CASE loop = "send"
  <2>1. m' = m /\ mult_vals' = [i \in DOMAIN mult_vals |-> IF i # Position(g) THEN mult_vals[i] ELSE g]
    BY <1>4, <1>9 DEF Finish
  <2>2. mult_vals' \in [1..LevelMults(at) -> Wires \cup {0}]
    BY <1>4, <1>8, <2>1
  <2>3. ASSUME NEW h \in Iterations("send", at), h \notin left' \cup busy'
        PROVE  mult_vals'[Position(h)] = h
    <3>1. Position(h) \in 1..LevelMults(at)
      BY <1>2, PositionInside
    <3>2. CASE h = g
      BY <1>8, <2>1, <3>1, <3>2
    <3>3. CASE h # g
      <4>1. Position(h) # Position(g)
        BY <1>2, <1>4, <1>9, <3>3, PositionsDiffer
      <4>2. mult_vals[Position(h)] = h
        BY <1>5, <1>8, <2>3, <3>3
      <4> QED BY <1>8, <2>1, <3>1, <4>1, <4>2
    <3> QED BY <3>2, <3>3
  <2> QED BY <1>2, <1>3, <1>5, <1>6, <1>7, <1>9, <2>1, <2>2, <2>3, SameCircuit
<1>10. CASE loop = "recv"
  <2>1. m' = [m EXCEPT ![g] = "right"] /\ mult_vals' = mult_vals
    BY <1>4, <1>10 DEF Finish
  <2>2. /\ m' \in [Wires -> Values] /\ m'[g] = "right"
        /\ \A w \in Wires : w # g => m'[w] = m[w]
    BY <1>4, <1>7, <2>1 DEF Values
  <2>3. /\ \A w \in Wires : m'[w] # "wrong"
        /\ \A w \in Wires : slevel[w] < at \/ Type(w) = "kInp" => m'[w] = "right"
    BY <1>7, <2>2
  <2>4. ASSUME NEW h \in Iterations("recv", at), h \notin left' \cup busy'
        PROVE  m'[h] = "right"
    <3>1. h \in Wires
      BY DEF Iterations, GatesByLevel
    <3> QED BY <1>2, <1>5, <1>10, <2>2, <2>4, <3>1 DEF DoneInv
  <2> QED BY <1>2, <1>3, <1>5, <1>6, <1>7, <1>8, <1>10, <2>1, <2>2, <2>3, <2>4, SameCircuit
<1> QED BY <1>1, <1>9, <1>10

(* When the first loop is over, mult_vals is complete.                     *)
LEMMA ReconstructInv ==
  ASSUME ThreadInv, Reconstruct
  PROVE  ThreadInv'
<1>1. /\ loop = "send" /\ left = {} /\ busy = {} /\ loop' = "recv" /\ left' = Iterations("recv", at)
      /\ at' = at /\ busy' = busy /\ ready' = ready /\ m' = m /\ mult_vals' = mult_vals
      /\ UNCHANGED vars
  BY DEF Reconstruct, LoopOver
<1>2. phase = "done" /\ LevelInv /\ EntryInv /\ IterInv
  BY <1>1 DEF ThreadInv
<1>3. ready' = busy' /\ left' \cap busy' = {} /\ left' \cup busy' = Iterations("recv", at)
  BY <1>1, <1>2 DEF IterInv
<1>4. at \in Nat /\ at <= sdepth /\ m \in [Wires -> Values] /\ (\A w \in Wires : m[w] # "wrong")
      /\ \A w \in Wires : slevel[w] < at \/ Type(w) = "kInp" => m[w] = "right"
  BY <1>2 DEF LevelInv
<1>5. /\ mult_vals \in [1..LevelMults(at) -> Wires \cup {0}]
      /\ \A g \in Iterations("send", at) : mult_vals[Position(g)] = g
  BY <1>1, <1>2 DEF EntryInv
<1> QED BY <1>1, <1>2, <1>3, <1>4, <1>5, SameCircuit

(* When the second is, everything on the level is there: the next one, or  *)
(* the whole circuit, stands on right values.                              *)
LEMMA NextLevelInv ==
  ASSUME ThreadInv, NextLevel
  PROVE  ThreadInv'
<1>1. /\ loop = "recv" /\ left = {} /\ busy = {}
      /\ busy' = busy /\ ready' = ready /\ m' = m /\ UNCHANGED vars
  BY DEF NextLevel, LoopOver
<1>2. IInv /\ phase = "done" /\ LevelInv /\ DoneInv /\ IterInv
  BY <1>1 DEF ThreadInv
<1>3. at \in Nat /\ at <= sdepth /\ m \in [Wires -> Values] /\ (\A w \in Wires : m[w] # "wrong")
      /\ \A w \in Wires : slevel[w] < at \/ Type(w) = "kInp" => m[w] = "right"
  BY <1>2 DEF LevelInv
<1>4. sdepth \in Nat /\ \A w \in Wires : slevel[w] \in Nat /\ slevel[w] <= sdepth
  BY <1>2, Levelled
<1>5. \A w \in Wires : slevel[w] = at /\ Type(w) # "kInp" => m[w] = "right"
  BY <1>1, <1>2 DEF DoneInv, Iterations, GatesByLevel
<1>6. \A w \in Wires : slevel[w] < at + 1 \/ Type(w) = "kInp" => m[w] = "right"
  BY <1>3, <1>4, <1>5
<1>7. ready' = busy' /\ busy' = {}
  BY <1>1, <1>2 DEF IterInv
<1>8. CASE at < sdepth
  <2>1. /\ loop' = "send" /\ at' = at + 1 /\ left' = Iterations("send", at + 1)
        /\ mult_vals' = [i \in 1..LevelMults(at + 1) |-> 0]
    BY <1>8 DEF NextLevel, Enter
  <2>2. at' \in Nat /\ at' <= sdepth
    BY <1>3, <1>4, <1>8, <2>1
  <2> QED BY <1>1, <1>2, <1>3, <1>6, <1>7, <2>1, <2>2, SameCircuit
<1>9. CASE ~(at < sdepth)
  <2>1. loop' = "end" /\ at' = at /\ left' = {} /\ mult_vals' = mult_vals
    BY <1>1, <1>9 DEF NextLevel
  <2>2. \A w \in Wires : m[w] = "right"
    BY <1>3, <1>4, <1>6, <1>9
  <2> QED BY <1>1, <1>2, <1>3, <1>7, <2>1, <2>2, SameCircuit
<1> QED BY <1>8, <1>9

(* Every step keeps the invariant.                                         *)
LEMMA EvaluatorInv == ThreadInv /\ [EvaluatorNext]_<<vars, threadVars>> => ThreadInv'
<1> SUFFICES ASSUME ThreadInv, [EvaluatorNext]_<<vars, threadVars>> PROVE ThreadInv'
  OBVIOUS
<1>1. CASE UNCHANGED <<vars, threadVars>>
  <2>1. CASE loop = "off"
    <3>1. IInv'
      BY <1>1, NextIInv DEF ThreadInv
    <3> QED BY <1>1, <2>1, <3>1 DEF ThreadInv, IterInv, threadVars
  <2>2. CASE loop # "off"
    <3>1. phase = "done" /\ LevelInv /\ EntryInv /\ DoneInv /\ IterInv
      BY <2>2 DEF ThreadInv
    <3>2. UNCHANGED <<loop, at, left, busy, ready, m, mult_vals>> /\ UNCHANGED vars
      BY <1>1 DEF threadVars
    <3>3. loop \in {"send", "recv", "end"}
      BY <2>2 DEF ThreadInv
    <3> QED BY <3>1, <3>2, <3>3, SameCircuit DEF LevelInv, EntryInv, DoneInv, IterInv
  <2> QED BY <2>1, <2>2
<1>2. CASE Next /\ UNCHANGED threadVars
  BY <1>2, OrderThreadInv
<1>3. CASE Evaluate
  BY <1>3, EvaluateCircuitInv, ReconstructInv, NextLevelInv, BeginInv, FinishInv DEF Evaluate
<1> QED BY <1>1, <1>2, <1>3 DEF EvaluatorNext, Next, Ordering

(* The loops over a level may be parallel, whatever the circuit, the number *)
(* of threads and their schedule: no gate reads a value that is not final,  *)
(* no two shares have the same entry of mult_vals, and what comes out is    *)
(* what evaluating the gates one after the other gives (circuit.h:94-99,    *)
(* semi_evaluator.cpp:277-389).                                             *)
THEOREM ParallelIsSequential == EvaluatorSpec => []AsSequential
<1>1. ThreadInv => AsSequential
  <2>1. SUFFICES ASSUME ThreadInv, loop # "off" PROVE AsSequential
    BY DEF AsSequential
  <2>2. IInv /\ phase = "done" /\ LevelInv /\ EntryInv /\ DoneInv
    BY <2>1 DEF ThreadInv
  <2>3. ASSUME loop = "recv", NEW i \in DOMAIN mult_vals
        PROVE  mult_vals[i] # 0
    <3>1. i \in 1..LevelMults(at)
      BY <2>2, <2>3 DEF EntryInv
    <3>2. PICK g \in Iterations("send", at) : Position(g) = i
      BY <2>2, <3>1, PositionsFill
    <3>3. mult_vals[i] = g
      BY <2>2, <2>3, <3>2 DEF EntryInv
    <3>4. g \in 1..Len(gates) /\ Len(gates) \in Nat
      BY <2>2, Levelled DEF Iterations, GatesByLevel
    <3> QED BY <3>3, <3>4
  <2> QED BY <2>2, <2>3 DEF AsSequential, LevelInv, DoneInv
<1>2. ThreadInv /\ [EvaluatorNext]_<<vars, threadVars>> => ThreadInv'
  BY EvaluatorInv
<1> QED BY <1>1, <1>2, InitThreadInv, PTL DEF EvaluatorSpec

(* The evaluation does not interfere with the ordering: what is shown of   *)
(* it above holds here, too.                                               *)
THEOREM OrderingUndisturbed == EvaluatorSpec => Spec
<1>1. [EvaluatorNext]_<<vars, threadVars>> => [Next]_vars
  BY DEF EvaluatorNext, Next, Ordering, Evaluate, EvaluateCircuit, Begin, Finish, Reconstruct, NextLevel
<1>2. EvaluatorInit => Init
  BY DEF EvaluatorInit
<1> QED BY <1>1, <1>2, PTL DEF EvaluatorSpec, Spec
=============================================================================
