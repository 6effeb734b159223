------------------------------- MODULE Levels -------------------------------
(***************************************************************************)
(* Building a circuit and ordering its gates by level                      *)
(* (common::utils::Circuit, src/src/utils/circuit.h).                      *)
(*                                                                         *)
(* A wire is named by the gate that drives it.  Wires are numbered from 1  *)
(* here, from 0 in the code.  Of a gate, its type and the set of the wires *)
(* it reads are kept: the order of the inputs and the constants do not     *)
(* matter to the levels.                                                   *)
(***************************************************************************)
EXTENDS Integers, Sequences, FiniteSets

CONSTANT MaxGates     \* bound: the longest circuit that is built

ASSUME MaxGatesAssumption == MaxGates \in Nat

GateType == {"kInp", "kAdd", "kMul", "kConstMul", "kDotprod"}

VARIABLES gates,      \* the circuit's gates, in the order they were added
          phase,      \* "build", "std" (orderGatesByLevel), "strict", "done"
          next,       \* the gate the loop of orderGatesByLevel has come to
          level,      \* gate_level of orderGatesByLevel: multiplicative depth
          depth,      \* its highest level so far
          layer,      \* the multiplicative layer the strict loop works on
          todo,       \* the gates the strict loop has not reached
          slevel,     \* gate_level of strictlyOrderGatesByLevel
          base,       \* current_layer_base_level
          sdepth      \* the highest strict level so far

stdVars    == <<next, level, depth>>
strictVars == <<layer, todo, slevel, base, sdepth>>
vars       == <<gates, phase, stdVars, strictVars>>

Wires      == 1..Len(gates)
Ins(g)     == gates[g].ins
Type(g)    == gates[g].type
IsMult(g)  == Type(g) \in {"kMul", "kDotprod"}

Max2(a, b) == IF a >= b THEN a ELSE b

(* isWireValid: only wires of gates already added.                         *)
Valid(ws)  == ws \subseteq Wires

Init ==
  /\ gates = << >> /\ phase = "build"
  /\ next = 1 /\ level = << >> /\ depth = 0
  /\ layer = 0 /\ todo = {} /\ slevel = << >> /\ base = 0 /\ sdepth = 0

Add(type, ins) ==
  /\ phase = "build" /\ Len(gates) < MaxGates
  /\ gates' = Append(gates, [type |-> type, ins |-> ins])
  /\ UNCHANGED <<phase, stdVars, strictVars>>

NewInputWire == Add("kInp", {})

(* addGate with two input wires; an invalid wire or type is an exception.  *)
AddGate(type, in1, in2) ==
  /\ type \in {"kAdd", "kMul"} /\ Valid({in1, in2})
  /\ Add(type, {in1, in2})

AddConstOpGate(in) == Valid({in}) /\ Add("kConstMul", {in})

(* addGate with two vectors of wires of the same length, possibly empty.   *)
AddDotprod(ins) == Valid(ins) /\ Add("kDotprod", ins)

(* Any wire number the caller may pass.                                    *)
AnyWire == 1..MaxGates

Build ==
  \/ NewInputWire
  \/ \E in1, in2 \in AnyWire, type \in {"kAdd", "kMul"} : AddGate(type, in1, in2)
  \/ \E in \in AnyWire : AddConstOpGate(in)
  \/ \E ins \in SUBSET AnyWire : AddDotprod(ins)

(* The call of strictlyOrderGatesByLevel, which calls orderGatesByLevel.   *)
Order ==
  /\ phase = "build"
  /\ phase' = "std"
  /\ next' = 1 /\ depth' = 0 /\ level' = [g \in Wires |-> 0]
  /\ UNCHANGED <<gates, strictVars>>

(* Variant: every gate is one deeper than its inputs. *)
StdGate_EveryGate ==
  /\ phase = "std" /\ next \in Wires
  /\ \E top \in {0} \cup {level[i] : i \in Ins(next)} :
       /\ \A i \in Ins(next) : level[i] <= top
       /\ level' = [level EXCEPT ![next] = IF Type(next) = "kInp" THEN top ELSE top + 1]
       /\ depth' = Max2(depth, IF Type(next) = "kInp" THEN top ELSE top + 1)
  /\ next' = next + 1
  /\ UNCHANGED <<gates, phase, strictVars>>

(* One round of the loop of orderGatesByLevel: only multiplications and    *)
(* dot products are deeper than their deepest input, top.                  *)
StdGate ==
  /\ phase = "std" /\ next \in Wires
  /\ \E top \in {0} \cup {level[i] : i \in Ins(next)} :
       /\ \A i \in Ins(next) : level[i] <= top
       /\ level' = [level EXCEPT ![next] = IF IsMult(next) THEN top + 1 ELSE top]
       /\ depth' = Max2(depth, IF IsMult(next) THEN top + 1 ELSE top)
  /\ next' = next + 1
  /\ UNCHANGED <<gates, phase, strictVars>>

(* The gates are put into gates_by_level in the order they were added; the *)
(* strict levelling starts on them.                                        *)
StdDone ==
  /\ phase = "std" /\ next > Len(gates)
  /\ phase' = "strict"
  /\ layer' = 0 /\ todo' = Wires /\ base' = 0 /\ sdepth' = 0
  /\ slevel' = [g \in Wires |-> 0]
  /\ UNCHANGED <<gates, stdVars>>

(* The gates of the current layer still to do, first added first.          *)
LayerTodo == {g \in todo : level[g] = layer}

(* Variant: a gate may share the level of its inputs. *)
StrictGate_SameLevel ==
  /\ phase = "strict"
  /\ \E g \in LayerTodo :
       /\ \A h \in LayerTodo : g <= h
       /\ todo' = todo \ {g}
       /\ IF Type(g) = "kInp"
          THEN UNCHANGED <<slevel, sdepth>>
          ELSE \E top \in {0} \cup {slevel[i] : i \in Ins(g)} :
                 /\ \A i \in Ins(g) : slevel[i] <= top
                 /\ slevel' = [slevel EXCEPT ![g] = Max2(base, top)]
                 /\ sdepth' = Max2(sdepth, Max2(base, top))
  /\ UNCHANGED <<gates, phase, stdVars, layer, base>>

(* One gate of the current multiplicative layer: one level above its       *)
(* highest input, but not below the layer's base; inputs stay on level 0.  *)
StrictGate ==
  /\ phase = "strict"
  /\ \E g \in LayerTodo :
       /\ \A h \in LayerTodo : g <= h
       /\ todo' = todo \ {g}
       /\ IF Type(g) = "kInp"
          THEN UNCHANGED <<slevel, sdepth>>
          ELSE \E top \in {0} \cup {slevel[i] : i \in Ins(g)} :
                 /\ \A i \in Ins(g) : slevel[i] <= top
                 /\ slevel' = [slevel EXCEPT ![g] = Max2(base, top + 1)]
                 /\ sdepth' = Max2(sdepth, Max2(base, top + 1))
  /\ UNCHANGED <<gates, phase, stdVars, layer, base>>

(* Variant: the next layer starts on the last level of this one. *)
LayerDone_SameBase ==
  /\ phase = "strict" /\ layer <= depth /\ LayerTodo = {}
  /\ base' = sdepth
  /\ layer' = layer + 1
  /\ UNCHANGED <<gates, phase, stdVars, todo, slevel, sdepth>>

(* Variant: the layer is not advanced. *)
LayerDone_Stuck ==
  /\ phase = "strict" /\ layer <= depth /\ LayerTodo = {}
  /\ base' = sdepth + 1
  /\ UNCHANGED <<gates, phase, stdVars, layer, todo, slevel, sdepth>>

(* The next multiplicative layer starts above everything placed so far.    *)
LayerDone ==
  /\ phase = "strict" /\ layer <= depth /\ LayerTodo = {}
  /\ base' = sdepth + 1
  /\ layer' = layer + 1
  /\ UNCHANGED <<gates, phase, stdVars, todo, slevel, sdepth>>

StrictDone ==
  /\ phase = "strict" /\ layer > depth
  /\ phase' = "done"
  /\ UNCHANGED <<gates, stdVars, strictVars>>

Ordering == StdGate \/ StdDone \/ StrictGate \/ LayerDone \/ StrictDone

Next == Build \/ Order \/ Ordering

(* The ordering is one call: once entered it runs to its end.              *)
Spec == Init /\ [][Next]_vars /\ WF_vars(Ordering)

(* The result: the gates of each strict level, and how many of them are    *)
(* interactive, the reference the evaluators' loops use.                   *)
GatesByLevel(l) == {g \in Wires : slevel[g] = l}
LevelMults(l)   == Cardinality({g \in GatesByLevel(l) : IsMult(g)})

-----------------------------------------------------------------------------
GateOK(g) ==
  /\ Ins(g) \subseteq 1..(g - 1)
  /\ Type(g) \in {"kAdd", "kMul", "kConstMul"} => Ins(g) # {}
  /\ Type(g) = "kInp" => Ins(g) = {}

(* The types; and of every gate that it reads only wires of earlier gates,  *)
(* which addGate's checks of its inputs establish (circuit.h:121-194).      *)
TypeOK ==
  /\ gates \in Seq([type : GateType, ins : SUBSET (1..MaxGates)])
  /\ \A g \in Wires : GateOK(g)
  /\ phase \in {"build", "std", "strict", "done"}
  /\ next \in Nat /\ depth \in Nat /\ layer \in Nat /\ base \in Nat /\ sdepth \in Nat
  /\ phase # "build" => level \in [Wires -> Nat]
  /\ phase \in {"strict", "done"} => slevel \in [Wires -> Nat] /\ todo \subseteq Wires

(* The LevelOrderedCircuit promise (circuit.h:79-82): a gate is never on a *)
(* lower multiplicative layer than an input of it, a multiplication always *)
(* on a higher one.                                                        *)
LayersOrdered ==
  phase \in {"strict", "done"} =>
    \A g \in Wires : \A i \in Ins(g) :
      IF IsMult(g) THEN level[i] < level[g] ELSE level[i] <= level[g]

(* The StrictLevelOrderedCircuit promise (circuit.h:94-99): whatever a     *)
(* gate reads is on some earlier level, so a level can run in parallel.    *)
StrictOrder ==
  phase = "done" => \A g \in Wires : \A i \in Ins(g) : slevel[i] < slevel[g]

(* The assertion at circuit.h:342: a level has only multiplications and    *)
(* dot products, or none; the evaluators index their messages by it.       *)
Homogeneous ==
  phase = "done" =>
    \A g, h \in Wires : slevel[g] = slevel[h] => (IsMult(g) <=> IsMult(h))

(* Level 0 is exactly the inputs: the evaluators treat it apart, and take  *)
(* every other level without multiplications to be additions and constant  *)
(* multiplications (semi_evaluator.cpp:32-87).                             *)
LevelZeroIsInputs ==
  phase = "done" => \A g \in Wires : slevel[g] = 0 <=> Type(g) = "kInp"

(* "do normal leveling to minimize round complexity" (circuit.h:262-264):  *)
(* making the levels strict splits no multiplicative layer, so two         *)
(* multiplications share a round exactly if they had the same depth.       *)
RoundsKept ==
  phase = "done" =>
    \A g, h \in Wires : IsMult(g) /\ IsMult(h) => (slevel[g] = slevel[h] <=> level[g] = level[h])

(* ... and the number of interactive levels is the multiplicative depth.   *)
RoundsAreDepth ==
  phase = "done" => Cardinality({l \in 0..sdepth : LevelMults(l) > 0}) = depth

(* The strict loop never reads the level of a gate it has not placed yet.  *)
InputsPlacedFirst ==
  phase = "strict" => \A g \in Wires \ todo : Ins(g) \cap todo = {}

(* The two nested loops of strictlyOrderGatesByLevel come to an end on every *)
(* circuit (circuit.h:259-346).                                             *)
OrderingEnds == phase = "std" ~> phase = "done"
=============================================================================
