------------------------------- MODULE MCSemi -------------------------------
(* A dealer and three parties over Z/4, a circuit with every kind of gate: *)
(* two multiplications in one round, a dot product in the next one, two    *)
(* inputs of one party, none of another, an output that is named twice.    *)
EXTENDS Semi

MCProcs == 0..nP

Gate(type, in1, in2, cval) == [type |-> type, in1 |-> in1, in2 |-> in2, cval |-> cval]

MCGates == <<
  Gate("kInp", << >>, << >>, 0),
  Gate("kInp", << >>, << >>, 0),
  Gate("kInp", << >>, << >>, 0),
  Gate("kMul", <<1>>, <<2>>, 0),
  Gate("kMul", <<3>>, <<3>>, 0),
  Gate("kAdd", <<4>>, <<1>>, 0),
  Gate("kConstMul", <<6>>, << >>, 3),
  Gate("kDotprod", <<7, 5>>, <<2, 4>>, 0) >>

MCLayers  == << <<1, 2, 3>>, <<4, 5>>, <<6>>, <<7>>, <<8>> >>
MCOutputs == <<8, 5, 8>>
MCOwner   == [w \in {1, 2, 3} |-> IF w = 2 THEN 3 ELSE 1]

(* Streams long enough for every draw, all different from each other.      *)
MCTape(a, b) == [i \in 1..nP |-> [j \in 1..20 |-> (a * i + b * j + i * j * j) % Modulus]]
MCInputs == {[w \in 1..3 |-> w], [w \in 1..3 |-> 4 - w]}

MCTapes == {MCTape(1, 1), MCTape(3, 2)}
=============================================================================
