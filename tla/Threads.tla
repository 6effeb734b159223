------------------------------ MODULE Threads ------------------------------
(***************************************************************************)
(* The threads that evaluate a level.  A party's evaluateCircuit goes      *)
(* through the levels that Circuit made; at each of them two parallel      *)
(* loops over its gates compute the shares to open and take in what was     *)
(* opened (evaluateGatesAtDepth, src/src/protocol/semi_evaluator.cpp, and  *)
(* alike in zkfliop_evaluator.cpp and the evaluators with dot products).    *)
(* OpenMP shares the iterations out among the threads, and all threads     *)
(* meet at the end of a loop; which iteration runs when is left open here.  *)
(*                                                                         *)
(* Of a masked value m it is kept whether it is there and whether it is    *)
(* what evaluating the gates one by one makes of it.  The exchange between *)
(* the two loops gives back the vector it was given (see Opening).         *)
(***************************************************************************)
EXTENDS Levels

CONSTANT NumThreads    \* omp_get_max_threads()

ASSUME NumThreadsAssumption == NumThreads \in Nat \ {0}

VARIABLES loop,      \* "off", "send" or "recv": the loop that runs, "end"
          at,        \* the level being evaluated
          left,      \* the gates whose iterations no thread has begun
          busy,      \* the gates whose iterations are under way
          ready,     \* those of them that have read nothing but right values
          m,         \* m[w]: "unset", "right" or "wrong"
          mult_vals  \* mult_vals[i]: the gate whose share it is, 0 for none

threadVars == <<loop, at, left, busy, ready, m, mult_vals>>

(* gates_by_level is filled walking the layers of the first levelling.     *)
Before(h, g) == level[h] < level[g] \/ (level[h] = level[g] /\ h <= g)

(* The index that the loops use for a gate, from 1.                        *)
Position(g) == Cardinality({h \in GatesByLevel(slevel[g]) : Before(h, g)})

(* The iterations that do anything: inputs are passed over, and only       *)
(* multiplications and dot products have a share to open.                  *)
Iterations(l, d) ==
  {g \in GatesByLevel(d) : IF l = "send" THEN IsMult(g) ELSE Type(g) # "kInp"}

ThreadInit ==
  /\ loop = "off" /\ at = 0 /\ left = {} /\ busy = {} /\ ready = {}
  /\ m = << >> /\ mult_vals = << >>

(* evaluateGatesAtDepth begins: mult_vals has an entry per multiplication. *)
Enter(d) ==
  /\ loop' = "send" /\ at' = d
  /\ left' = Iterations("send", d)
  /\ mult_vals' = [i \in 1..LevelMults(d) |-> 0]

(* The inputs have been set when evaluateCircuit is called.                *)
EvaluateCircuit ==
  /\ phase = "done" /\ loop = "off"
  /\ Enter(0)
  /\ m' = [w \in Wires |-> IF Type(w) = "kInp" THEN "right" ELSE "unset"]
  /\ UNCHANGED <<vars, busy, ready>>

(* In the second loop a multiplication takes its entry of mult_vals, any   *)
(* other gate the values of its inputs.                                    *)
ReadsRight(g) ==
  IF loop = "recv" /\ IsMult(g)
  THEN Position(g) \in DOMAIN mult_vals /\ mult_vals[Position(g)] = g
  ELSE \A i \in Ins(g) : m[i] = "right"

(* A thread begins an iteration and reads what it needs ...                *)
Begin(g) ==
  /\ loop \in {"send", "recv"} /\ g \in left /\ Cardinality(busy) < NumThreads
  /\ left' = left \ {g} /\ busy' = busy \cup {g}
  /\ ready' = IF ReadsRight(g) THEN ready \cup {g} ELSE ready
  /\ UNCHANGED <<vars, loop, at, m, mult_vals>>

(* ... and writes its result; an index outside of mult_vals writes         *)
(* somewhere else.                                                         *)
Finish(g) ==
  /\ g \in busy
  /\ busy' = busy \ {g} /\ ready' = ready \ {g}
  /\ IF loop = "send"
     THEN /\ mult_vals' = [i \in DOMAIN mult_vals |->
                             IF i # Position(g) THEN mult_vals[i] ELSE IF g \in ready THEN g ELSE 0]
          /\ UNCHANGED m
     ELSE /\ m' = [m EXCEPT ![g] = IF g \in ready THEN "right" ELSE "wrong"]
          /\ UNCHANGED mult_vals
  /\ UNCHANGED <<vars, loop, at, left>>

LoopOver == left = {} /\ busy = {}

(* The shares are opened, and the second loop begins.                      *)
Reconstruct ==
  /\ loop = "send" /\ LoopOver
  /\ loop' = "recv" /\ left' = Iterations("recv", at)
  /\ UNCHANGED <<vars, at, busy, ready, m, mult_vals>>

NextLevel ==
  /\ loop = "recv" /\ LoopOver
  /\ IF at < sdepth THEN Enter(at + 1)
     ELSE loop' = "end" /\ UNCHANGED <<at, left, mult_vals>>
  /\ UNCHANGED <<vars, busy, ready, m>>

Evaluate ==
  \/ EvaluateCircuit \/ Reconstruct \/ NextLevel
  \/ \E g \in left : Begin(g)
  \/ \E g \in busy : Finish(g)

EvaluatorInit == Init /\ ThreadInit

(* A circuit is built and ordered, then evaluated; only the ordering is    *)
(* asked to come to an end, as in Levels.                                  *)
EvaluatorNext ==
  \/ Build /\ UNCHANGED threadVars
  \/ Order /\ UNCHANGED threadVars
  \/ StdGate /\ UNCHANGED threadVars
  \/ StdDone /\ UNCHANGED threadVars
  \/ StrictGate /\ UNCHANGED threadVars
  \/ LayerDone /\ UNCHANGED threadVars
  \/ StrictDone /\ UNCHANGED threadVars
  \/ Evaluate

EvaluatorSpec ==
  EvaluatorInit /\ [][EvaluatorNext]_<<vars, threadVars>> /\ WF_vars(Ordering)

-----------------------------------------------------------------------------
(* However the threads interleave, every gate reads values that are final, *)
(* every share has its own entry in mult_vals, inside of it, and in the    *)
(* end all wires have the values of a sequential evaluation: what the      *)
(* levels are made for (circuit.h:94-99 and 338-342).                      *)
AsSequential ==
  loop # "off" =>
    /\ \A w \in Wires : m[w] # "wrong"
    /\ loop = "recv" => 0 \notin {mult_vals[i] : i \in DOMAIN mult_vals}
    /\ loop = "end" => \A w \in Wires : m[w] = "right"
=============================================================================
