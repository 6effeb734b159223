----------------------------- MODULE MCZkProof -----------------------------
(* A dealer and three parties, Z/4 and Z/64; circuits whose vectors have   *)
(* 3, 8, 5 and 11 entries: a single multiplication (its operand squared),  *)
(* a multiplication that feeds a dot product over linear gates, a lone dot  *)
(* product, and two dot products around a multiplication.                  *)
EXTENDS ZkProof

Gate(type, in1, in2, cval, owner) ==
  [type |-> type, in1 |-> in1, in2 |-> in2, cval |-> cval, owner |-> owner]
Inp(p)       == Gate("kInp", << >>, << >>, 0, p)
Add(v, w)    == Gate("kAdd", <<v>>, <<w>>, 0, 0)
CMul(w, c)   == Gate("kConstMul", <<w>>, << >>, c, 0)
Mul(v, w)    == Gate("kMul", <<v>>, <<w>>, 0, 0)
Dot(vs, ws)  == Gate("kDotprod", vs, ws, 0, 0)

MCCircuits == {
  <<Inp(2), Mul(1, 1)>>,
  <<Inp(1), Inp(3), Mul(1, 2), Add(3, 1), CMul(4, 3), Dot(<<5, 2>>, <<3, 4>>)>>,
  <<Inp(1), Inp(2), Add(1, 2), Dot(<<1, 3>>, <<2, 3>>)>>,
  <<Inp(1), Inp(2), Dot(<<1, 2>>, <<2, 2>>), Mul(3, 1), Mul(4, 3)>> }

(* No two draws alike in a row, odd and even ones mixed.                   *)
MCStream(s, i) ==
  [j \in 1..131 |-> LET k == j - 1 IN (s * 7 + 13 * i + 5 * k + (k * k) \div 2 + i * k * s) % 64]
MCStreams == [s \in {1, 2} |-> [i \in 0..3 |-> MCStream(s, i)]]

MCCheats == {[gate |-> 0, by |-> 0], [gate |-> 1, by |-> 1], [gate |-> 2, by |-> 3],
             [gate |-> 2, by |-> 2]}
MCBends  == {[sum |-> 0, entry |-> 0, by |-> 0], [sum |-> 1, entry |-> 2, by |-> 1],
             [sum |-> 1, entry |-> 1, by |-> 60], [sum |-> 2, entry |-> 1, by |-> 5],
             [sum |-> 2, entry |-> 3, by |-> 17], [sum |-> 3, entry |-> 3, by |-> 1]}
=============================================================================
