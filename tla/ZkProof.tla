------------------------------ MODULE ZkProof ------------------------------
(***************************************************************************)
(* The arithmetic of verify(), for zkfliop::Evaluator                      *)
(* (src/src/protocol/zkfliop_evaluator.cpp) and zkfliop::DotPEvaluator     *)
(* (zkfliop_evaluator_dotp.cpp): a multiplication is a dot product of one  *)
(* term.                                                                   *)
(*                                                                         *)
(* All processes advance together: each action is one step of verify() at  *)
(* the dealer and at every party.  That they do take the same steps,       *)
(* whatever the order, and that the two ends of a stream draw the same, is *)
(* the subject of Verify.  What all parties hold alike (m values, x) is    *)
(* kept once; y and z_l are kept per process, the dealer's as number 0.    *)
(* Indices count from 0 in the code and from 1 here.                       *)
(*                                                                         *)
(* Two things may go wrong: the masked output of one multiplication is off *)
(* (cheat), or one entry of one opening inside shareSum is (bend); all     *)
(* parties see the same, which the consistency check takes care of.        *)
(***************************************************************************)
EXTENDS Integers, Sequences

CONSTANTS nP,              \* number of computing parties
          RingSize,        \* 2^32 in the code
          LargeRingSize,   \* 2^128 in the code
          SSEC,            \* statistical security parameter
          Circuits,        \* circuits: sequences of gates, by level
          Compressions,    \* values of compression_factor_
          Seeds,           \* choices of all the randomness
          Streams,         \* Streams[seed][i]: the stream of party i and the
                           \*   dealer; i = 0: what all parties know
          Cheats,          \* [gate, by]: which multiplication is off, by what
          Bends            \* [sum, entry, by]: which opening of shareSum is off

Parties == 1..nP
Procs   == 0..nP

(* Truncation to Ring has to respect what LargeRing computes.              *)
ASSUME ZkProofAssumption ==
  /\ nP \in Nat /\ nP >= 2 /\ SSEC \in Nat \ {0}
  /\ RingSize \in Nat \ {0} /\ LargeRingSize \in Nat \ {0} /\ LargeRingSize % RingSize = 0
  /\ \A c \in Compressions : c \in Nat /\ c >= 2

(* Gates as Circuit builds them: two wires to add, one to scale, as many   *)
(* left as right factors, inputs of gates before them; and something to    *)
(* multiply, which is what verify() can run on.                            *)
ASSUME CircuitsAssumption ==
  \A g \in Circuits :
    /\ Len(g) \in Nat
    /\ \A w \in 1..Len(g) :
         /\ g[w].type \in {"kInp", "kAdd", "kConstMul", "kMul", "kDotprod"}
         /\ g[w].in1 \in Seq(1..(w - 1)) /\ g[w].in2 \in Seq(1..(w - 1)) /\ g[w].cval \in Int
         /\ g[w].type \in {"kAdd", "kConstMul"} => Len(g[w].in1) = 1
         /\ g[w].type \in {"kAdd", "kMul", "kDotprod"} => Len(g[w].in2) = Len(g[w].in1)
         /\ g[w].type = "kInp" => g[w].owner \in Parties
    /\ \E w \in 1..Len(g) : g[w].type \in {"kMul", "kDotprod"}

(* A stream starts over at its end, however far that is.                   *)
ASSUME StreamsAssumption ==
  \A s \in Seeds, i \in Procs : Streams[s][i] \in Seq(Nat) /\ Streams[s][i] # << >>

ASSUME DeviationsAssumption ==
  /\ \A c \in Cheats : c.gate \in Nat /\ c.by \in Int
  /\ \A b \in Bends : b.sum \in Nat /\ b.entry \in Nat /\ b.by \in Int

VARIABLES pc,       \* the step of the protocol
          gates,    \* the circuit: gates[w] has type, in1, in2, cval, owner
          C,        \* compression_factor_
          seed, pos, \* the randomness, and how much of every stream is used
          mask,     \* the dealer's masks of the wires
          dealt,    \* dealt[i]: lambda_shares of party i, as the dealer has them
          lifted,   \* sum_lifted_gamma_minus_lambda of the multiplications
          lambda,   \* lambda[p]: the masks' shares of party p
          gamma,    \* gamma[p]: its shares of the products of two masks
          m,        \* masked values
          Lambdas,  \* the sums of m_x * m_y - m_z
          x, y,     \* the vectors whose product is in question
          z_m, z_l, \* the claimed product: public part and shares of its mask
          sums,     \* [ms, ls]: what the last shareSum returned
          gammas,   \* [ms, ls]: c truncated to Ring
          commits,  \* what the dealer commits to
          opened,   \* what the parties open against a commitment
          verdict,  \* what verify() came to
          cheat, bend, nsum,  \* the deviations, the calls of shareSum
          defect    \* history: what z is off the product, by the equations

setupVars == <<mask, dealt, lifted, lambda, gamma>>
proofVars == <<Lambdas, x, y, z_m, z_l, sums, gammas, nsum>>
endVars   == <<commits, opened, verdict>>
choices   == <<gates, C, seed, cheat, bend>>
vars == <<pc, choices, pos, setupVars, m, proofVars, endVars, defect>>

-----------------------------------------------------------------------------
(* Casts: to a narrower type they truncate, to a wider one they lift.      *)
Ring(v)      == v % RingSize
LargeRing(v) == v % LargeRingSize

(* v[1] + ... + v[n], as a recursive function, which the provers can       *)
(* reason about, and the inner product of two vectors.                     *)
SumTo(n, v) ==
  LET sum[k \in 0..n] == IF k = 0 THEN 0 ELSE sum[k - 1] + v[k] IN sum[n]

Inner(u, v) == LargeRing(SumTo(Len(u), [k \in DOMAIN u |-> u[k] * v[k]]))

(* The k-th element of the stream of dealer and party i.                   *)
Draw(i, k) == Streams[seed][i][(k % Len(Streams[seed][i])) + 1]

Wires      == 1..Len(gates)
Type(w)    == gates[w].type
IsMult(w)  == Type(w) \in {"kMul", "kDotprod"}

(* The multiplications, in the order of their gates.                       *)
MultOrder ==
  LET pick[w \in 0..Len(gates)] ==
        IF w = 0 THEN << >> ELSE IF IsMult(w) THEN Append(pick[w - 1], w) ELSE pick[w - 1]
  IN  pick[Len(gates)]

NumMults   == Len(MultOrder)            \* m or mordotp
Mults      == 1..NumMults
Out(i)     == MultOrder[i]
In1(i, j)  == gates[Out(i)].in1[j]
In2(i, j)  == gates[Out(i)].in2[j]
Dim(i)     == Len(gates[Out(i)].in1)    \* 1 for kMul
Size(i)    == 2 * Dim(i) + 1            \* its entries in the vectors

Init ==
  /\ gates \in Circuits /\ C \in Compressions /\ seed \in Seeds
  /\ cheat \in Cheats /\ bend \in Bends
  /\ pc = "setup" /\ pos = 2 * Len(gates)
  /\ mask = << >> /\ dealt = << >> /\ lifted = << >> /\ lambda = << >> /\ gamma = << >>
  /\ m = << >> /\ Lambdas = << >> /\ x = << >> /\ y = << >> /\ z_m = 0 /\ z_l = << >>
  /\ sums = << >> /\ gammas = << >> /\ nsum = 0
  /\ commits = << >> /\ opened = << >> /\ verdict = "none" /\ defect = 0

-----------------------------------------------------------------------------
(* runSetup.  Draw w of a stream is for the mask of wire w, draw           *)
(* Len(gates) + w for its share of gamma.                                  *)
GammaDraw(i, w) == Ring(Draw(i, Len(gates) + w))

(* A mask or a share of one for every wire: its own for an input and for a *)
(* product, computed along linear gates.                                   *)
AlongGates(own) ==
  LET f[w \in Wires] ==
        CASE Type(w) = "kAdd"      -> Ring(f[gates[w].in1[1]] + f[gates[w].in2[1]])
          [] Type(w) = "kConstMul" -> Ring(f[gates[w].in1[1]] * gates[w].cval)
          [] OTHER                 -> own[w]
  IN  f

(* Party i's shares of all masks; only the provider has one of an input's. *)
Shares(i) ==
  AlongGates([w \in Wires |->
    IF Type(w) = "kInp" /\ gates[w].owner # i THEN 0 ELSE Ring(Draw(i, w))])

(* The dealer computes the masks themselves in the same way.               *)
Masks ==
  AlongGates([w \in Wires |->
    IF Type(w) = "kInp" THEN Ring(Draw(gates[w].owner, w))
    ELSE Ring(SumTo(nP, [i \in Parties |-> Ring(Draw(i, w))]))])

(* The shares of gamma: drawn, except for party nP's, which completes them. *)
GammaShare(p, i) ==
  LET w == Out(i)
      product == SumTo(Dim(i), [j \in 1..Dim(i) |-> Masks[In1(i, j)] * Masks[In2(i, j)]])
  IN  IF p < nP THEN GammaDraw(p, w)
      ELSE Ring(product - SumTo(nP - 1, [q \in Parties |-> GammaDraw(q, w)]))

(* Every share of gamma - lambda is lifted before they are added.          *)
Lifted(i) ==
  LargeRing(SumTo(nP, [p \in Parties |-> Ring(GammaShare(p, i) - Shares(p)[Out(i)])]))

Setup ==
  /\ pc = "setup" /\ pc' = "evaluate"
  /\ mask' = Masks
  /\ dealt' = [i \in Parties |-> Shares(i)] /\ lambda' = [i \in Parties |-> Shares(i)]
  /\ gamma' = [p \in Parties |-> [i \in Mults |-> GammaShare(p, i)]]
  /\ lifted' = [i \in Mults |-> Lifted(i)]
  /\ UNCHANGED <<choices, pos, m, proofVars, endVars, defect>>

(* evaluateGatesAtDepth, all levels in one go.  f is m so far.             *)
MultShare(p, i, f) ==
  LET term(u, v) == f[u] * lambda[p][v] + f[v] * lambda[p][u]
                      + (IF p = 1 THEN f[u] * f[v] ELSE 0)
  IN  SumTo(Dim(i), [j \in 1..Dim(i) |-> term(In1(i, j), In2(i, j))])
        + gamma[p][i] - lambda[p][Out(i)]

Off(i)   == IF i = cheat.gate THEN cheat.by ELSE 0
Index(w) == CHOOSE i \in Mults : Out(i) = w

Masked ==
  LET f[w \in Wires] ==
        CASE Type(w) = "kInp"      -> Ring(Draw(0, w) - mask[w])
          [] Type(w) = "kAdd"      -> Ring(f[gates[w].in1[1]] + f[gates[w].in2[1]])
          [] Type(w) = "kConstMul" -> Ring(f[gates[w].in1[1]] * gates[w].cval)
          [] OTHER -> Ring(SumTo(nP, [p \in Parties |-> MultShare(p, Index(w), f)])
                             + Off(Index(w)))
  IN  f

Evaluate ==
  /\ pc = "evaluate" /\ pc' = "products"
  /\ m' = Masked
  /\ UNCHANGED <<choices, pos, setupVars, proofVars, endVars, defect>>

-----------------------------------------------------------------------------
(* shareSum: locals[p] is what party p wants summed.  Every party opens    *)
(* its input minus a mask that the dealer knows, too.                      *)
ShareSum(locals, n) ==
  LET Mask(p, k) == LargeRing(Draw(p, pos + k))
      Bent(k) == IF bend.sum = nsum + 1 /\ bend.entry = k THEN bend.by ELSE 0
  IN  /\ sums' = [ms |-> [k \in 1..n |->
                            LargeRing(SumTo(nP, [p \in Parties |-> locals[p][k] - Mask(p, k)])
                                        + Bent(k))],
                  ls |-> [p \in Procs |-> [k \in 1..n |->
                            IF p = 0 THEN LargeRing(SumTo(nP, [q \in Parties |-> Mask(q, k)]))
                            ELSE Mask(p, k)]]]
      /\ pos' = pos + n
      /\ nsum' = nsum + 1

(* The vectors a and b have 2n + 1 entries for a dot product of n terms,   *)
(* one after the other in the order of the gates.                          *)
Offset(i) == SumTo(i - 1, [h \in Mults |-> Size(h)])
Bvs       == SumTo(NumMults, [h \in Mults |-> Size(h)])
GateOf(k) == CHOOSE i \in Mults : k - Offset(i) \in 1..Size(i)

(* b is filled by index: lambda_y and lambda_x of every term, then         *)
(* gamma - lambda_z.  wire[w] is a lifted mask (share), last[i] the end.   *)
FillB(wire, last) ==
  [k \in 1..Bvs |->
     LET i == GateOf(k)
         e == k - Offset(i)
     IN  IF e = Size(i) THEN last[i]
         ELSE IF e % 2 = 1 THEN wire[In2(i, (e + 1) \div 2)] ELSE wire[In1(i, e \div 2)]]

(* Variant: the dealer lifts the masks instead of their shares. *)
DealerB_LiftMask == FillB(mask, lifted)

(* The dealer lifts the shares of all parties one by one and adds them up. *)
DealerB ==
  FillB([w \in Wires |-> LargeRing(SumTo(nP, [p \in Parties |-> dealt[p][w]]))], lifted)

PartyB(p) == FillB(lambda[p], [i \in Mults |-> Ring(gamma[p][i] - lambda[p][Out(i)])])

(* a is filled by appending: m_x and m_y of every term, then 1.            *)
Factors(i) ==
  [e \in 1..Size(i) |->
     IF e = Size(i) THEN 1
     ELSE IF e % 2 = 1 THEN m[In1(i, (e + 1) \div 2)] ELSE m[In2(i, e \div 2)]]

A ==
  LET a[i \in 0..NumMults] == IF i = 0 THEN << >> ELSE a[i - 1] \o Factors(i)
  IN  a[NumMults]

(* r_i^l, the random bits, and the sums over the multiplications with 1.   *)
RBit(i, l) == Draw(0, Len(gates) + i * SSEC + l) % 2
BitSum(l, v) == SumTo(NumMults, [i \in Mults |-> RBit(i, l) * v[i]])

(* Variant: the first term only, as in the base class. *)
LambdaSum_OneTerm(l) ==
  Ring(BitSum(l, [i \in Mults |-> m[In1(i, 1)] * m[In2(i, 1)] - m[Out(i)]]))

LambdaSum(l) ==
  Ring(BitSum(l, [i \in Mults |->
         SumTo(Dim(i), [j \in 1..Dim(i) |-> m[In1(i, j)] * m[In2(i, j)]]) - m[Out(i)]]))

(* The part of the product of u and v that belongs to a multiplication.    *)
SubProduct(i, u, v) ==
  SumTo(Size(i), [e \in 1..Size(i) |-> u[Offset(i) + e] * v[Offset(i) + e]])

(* Pi_verify steps 1 to 7.                                                 *)
Products ==
  LET a == A
      b == [p \in Procs |-> IF p = 0 THEN DealerB ELSE PartyB(p)]
      cs == [p \in Parties |-> [l \in 1..SSEC |->
               LargeRing(BitSum(l, [i \in Mults |-> SubProduct(i, a, b[p])]))]]
  IN  /\ pc = "products" /\ pc' = "merge"
      /\ Lambdas' = [l \in 1..SSEC |-> LambdaSum(l)]
      /\ x' = a /\ y' = b
      /\ ShareSum(cs, SSEC)
      /\ UNCHANGED <<choices, setupVars, m, z_m, z_l, gammas, endVars, defect>>

-----------------------------------------------------------------------------
(* Coefficients known to all, n of them from draw k on.                    *)
Coefficients(k, n) == [l \in 1..n |-> LargeRing(Draw(0, 2 * Len(gates) + k + l))]

Factor(i, rm) == LargeRing(SumTo(SSEC, [l \in 1..SSEC |-> RBit(i, l) * rm[l]]))

(* Steps 8 to 11: truncate, then merge the SSEC products into one.         *)
Merge ==
  LET rm == Coefficients(pos, SSEC)
  IN  /\ pc = "merge" /\ pc' = IF Len(y[0]) > C THEN "reduceSum" ELSE "tripleSum"
      /\ gammas' = [ms |-> [l \in 1..SSEC |-> Ring(sums.ms[l])],
                    ls |-> [p \in Procs |-> [l \in 1..SSEC |-> Ring(sums.ls[p][l])]]]
      /\ x' = [k \in 1..Len(x) |-> LargeRing(x[k] * Factor(GateOf(k), rm))]
      /\ z_m' = Inner(rm, sums.ms)
      /\ z_l' = [p \in Procs |-> Inner(rm, sums.ls[p])]
      /\ defect' = IF bend.sum = 1 /\ bend.entry \in 1..SSEC
                   THEN LargeRing(rm[bend.entry] * bend.by) ELSE 0
      /\ pos' = pos + SSEC
      /\ UNCHANGED <<choices, setupVars, m, Lambdas, y, sums, nsum, endVars>>

(* The products of part i of u and part j of v, parts of d entries, for    *)
(* all pairs i, j < n or cols but 0, 0: row by row.                        *)
Position(i, j, cols) == i * cols + j
Row(k, cols)    == k \div cols
Column(k, cols) == k % cols

PartProducts(u, v, d, n, cols) ==
  [k \in 1..(n * cols - 1) |->
     LargeRing(SumTo(d, [e \in 1..d |-> u[Row(k, cols) * d + e] * v[Column(k, cols) * d + e]]))]

(* Step 4: z is the sum of all z_(i,i), which yields the missing one.      *)
(* Variant: the position of z_(i,i) as in the other of the two protocols. *)
Remaining_Stride(z, zs, n, cols) ==
  z - SumTo(n - 1, [i \in 1..(n - 1) |-> zs[Position(i, i, n)]])

Remaining(z, zs, n, cols) ==
  z - SumTo(n - 1, [i \in 1..(n - 1) |-> zs[Position(i, i, cols)]])

(* Step 6: the sum of alpha_i * beta_j * z_(i,j), the missing one included. *)
FoldZ(z, zs, alpha, beta) ==
  LET n    == Len(alpha)
      cols == Len(beta)
      coefficient(k) == alpha[Row(k, cols) + 1] * beta[Column(k, cols) + 1]
  IN  LargeRing(coefficient(0) * Remaining(z, zs, n, cols)
        + SumTo(n * cols - 1, [k \in 1..(n * cols - 1) |-> coefficient(k) * zs[k]]))

(* The sum of the parts of v, d entries each, times their coefficients.    *)
FoldVector(v, d, coefficient) ==
  [e \in 1..d |->
     LargeRing(SumTo(Len(coefficient),
                     [l \in 1..Len(coefficient) |-> coefficient[l] * v[(l - 1) * d + e]]))]

(* History: how a bent entry and an earlier defect enter the new z.        *)
NextDefect(alpha, beta) ==
  LET n    == Len(alpha)
      cols == Len(beta)
      hit  == bend.sum = nsum /\ bend.entry \in 1..(n * cols - 1)
      i    == Row(bend.entry, cols)
      j    == Column(bend.entry, cols)
      lost == IF hit /\ i = j THEN bend.by ELSE 0
      new  == IF hit THEN alpha[i + 1] * beta[j + 1] * bend.by ELSE 0
  IN  LargeRing(alpha[1] * beta[1] * (defect - lost) + new)

(* Pi_reduceDeg step 1: split into C parts of D entries, padded to fit.    *)
D(v) == Len(v) \div C + (IF Len(v) % C # 0 THEN 1 ELSE 0)

Padded(v) == [k \in 1..(D(v) * C) |-> IF k <= Len(v) THEN v[k] ELSE 0]

(* Steps 2 and 3.                                                          *)
ReduceSum ==
  LET xs == Padded(x)
      ys == [p \in Procs |-> Padded(y[p])]
  IN  /\ pc = "reduceSum" /\ pc' = "reduceFold"
      /\ x' = xs /\ y' = ys
      /\ ShareSum([p \in Parties |-> PartProducts(xs, ys[p], D(y[0]), C, C)], C * C - 1)
      /\ UNCHANGED <<choices, setupVars, m, Lambdas, z_m, z_l, gammas, endVars, defect>>

(* Steps 4 to 6.                                                           *)
ReduceFold ==
  LET alpha == Coefficients(pos, C)
      beta  == Coefficients(pos + C, C)
      d     == Len(y[0]) \div C
  IN  /\ pc = "reduceFold" /\ pc' = IF d > C THEN "reduceSum" ELSE "tripleSum"
      /\ x' = FoldVector(x, d, alpha)
      /\ y' = [p \in Procs |-> FoldVector(y[p], d, beta)]
      /\ z_m' = FoldZ(z_m, sums.ms, alpha, beta)
      /\ z_l' = [p \in Procs |-> FoldZ(z_l[p], sums.ls[p], alpha, beta)]
      /\ defect' = NextDefect(alpha, beta)
      /\ pos' = pos + 2 * C
      /\ UNCHANGED <<choices, setupVars, m, Lambdas, sums, gammas, nsum, endVars>>

-----------------------------------------------------------------------------
(* Pi_checkTriple steps 1 to 3: a random entry is appended to y, and all   *)
(* products of an entry of x and an entry of y are summed.                 *)
TripleSum ==
  LET d  == Len(x)
      y0 == [p \in Parties |-> LargeRing(Draw(p, pos))]
      ys == [p \in Procs |-> Append(y[p], IF p = 0 THEN LargeRing(SumTo(nP, y0)) ELSE y0[p])]
  IN  /\ pc = "tripleSum" /\ pc' = "tripleFold"
      /\ y' = ys
      /\ ShareSum([p \in Parties |-> PartProducts(x, ys[p], 1, d, d + 1)], d * d + d - 1)
      /\ UNCHANGED <<choices, setupVars, m, Lambdas, x, z_m, z_l, gammas, endVars, defect>>

(* Steps 4 to 6: down to scalars.  The appended entry goes in with the     *)
(* coefficient 1.                                                          *)
TripleFold ==
  LET d     == Len(x)
      alpha == Coefficients(pos, d)
      beta  == Append(Coefficients(pos + d, d), 1)
  IN  /\ pc = "tripleFold" /\ pc' = "openTriple"
      /\ x' = FoldVector(x, 1, alpha)
      /\ y' = [p \in Procs |-> FoldVector(y[p], 1, beta)]
      /\ z_m' = FoldZ(z_m, sums.ms, alpha, beta)
      /\ z_l' = [p \in Procs |-> FoldZ(z_l[p], sums.ls[p], alpha, beta)]
      /\ defect' = NextDefect(alpha, beta)
      /\ pos' = pos + 2 * d
      /\ UNCHANGED <<choices, setupVars, m, Lambdas, sums, gammas, nsum, endVars>>

(* Party p's share of zero number k: party 1's is what the others' lack.   *)
OthersZeros(k) == SumTo(nP, [q \in Parties |-> IF q = 1 THEN 0 ELSE Draw(q, pos + k)])

(* Variant: what the others draw is added, not subtracted. *)
Zero_Sign(p, k) == IF p = 1 THEN OthersZeros(k) ELSE Draw(p, pos + k)

Zero(p, k) == IF p = 1 THEN 0 - OthersZeros(k) ELSE Draw(p, pos + k)

(* The sum of the parties' v[p], opened with shares of zero number k.      *)
Opened(v, k) == SumTo(nP, [p \in Parties |-> v[p] + Zero(p, k)])

(* Step 7: y and the mask of z are opened; the dealer commits to its own.  *)
OpenTriple ==
  LET ySum == LargeRing(Opened([p \in Parties |-> y[p][1]], 1))
      zSum == LargeRing(Opened(z_l, 2))
      holds == LargeRing(x[1] * ySum) = LargeRing(z_m + zSum)
  IN  /\ pc = "openTriple" /\ pc' = IF holds THEN "openOutput" ELSE "done"
      /\ commits' = Append(commits, <<y[0][1], z_l[0]>>)
      /\ opened' = Append(opened, <<ySum, zSum>>)
      /\ verdict' = IF holds THEN verdict ELSE "triple rejected"
      /\ pos' = pos + 2
      /\ UNCHANGED <<choices, setupVars, m, proofVars, defect>>

(* Pi_verify step 14: the masks of the gammas are opened.                  *)
OpenOutput ==
  LET gSum == [l \in 1..SSEC |-> Ring(Opened([p \in Parties |-> gammas.ls[p][l]], l))]
      accept == \A l \in 1..SSEC : Ring(Lambdas[l] + gammas.ms[l] + gSum[l]) = 0
  IN  /\ pc = "openOutput" /\ pc' = "done"
      /\ commits' = Append(commits, gammas.ls[0])
      /\ opened' = Append(opened, gSum)
      /\ verdict' = IF accept THEN "accepted" ELSE "sums rejected"
      /\ pos' = pos + SSEC
      /\ UNCHANGED <<choices, setupVars, m, proofVars, defect>>

Next == \/ Setup \/ Evaluate \/ Products \/ Merge \/ ReduceSum \/ ReduceFold
        \/ TripleSum \/ TripleFold \/ OpenTriple \/ OpenOutput

Spec == Init /\ [][Next]_vars

-----------------------------------------------------------------------------
Merged == pc \in {"reduceSum", "reduceFold", "tripleSum", "tripleFold", "openTriple"}

(* Types: masked values and shares of masks are of Ring, the vectors of the *)
(* proof of LargeRing; x and every process's y have the same length, so     *)
(* that no inner product runs past an end (zkfliop_evaluator.cpp:1363), and *)
(* the vectors that are folded are multiples of C.                         *)
TypeOK ==
  /\ pc # "setup" => \A p \in Parties : \A w \in Wires : lambda[p][w] \in 0..(RingSize - 1)
  /\ pc \notin {"setup", "evaluate"} => \A w \in Wires : m[w] \in 0..(RingSize - 1)
  /\ \A k \in DOMAIN x : x[k] \in 0..(LargeRingSize - 1)
  /\ \A p \in DOMAIN y : \A k \in DOMAIN y[p] : y[p][k] \in 0..(LargeRingSize - 1)
  /\ \A p \in DOMAIN y : Len(y[p]) = Len(x) + (IF pc = "tripleFold" THEN 1 ELSE 0)
  /\ pc = "reduceFold" => Len(x) % C = 0
  /\ pc \in {"tripleSum", "tripleFold"} => Len(x) \in 1..C

(* What the parties' shares of entry k of y sum to.                        *)
Whole(k) == SumTo(nP, [p \in Parties |-> y[p][k]])

(* The dealer, who sees no message of the parties, holds at every step what *)
(* their shares of y and of the mask of z sum to in the large ring: shares  *)
(* are lifted one by one on both sides (zkfliop_evaluator.cpp:1167-1187,    *)
(* runSetup's sum_lifted_gamma_minus_lambda, shareSum).                     *)
DealerInStep ==
  Merged =>
    /\ \A k \in DOMAIN y[0] : y[0][k] = LargeRing(Whole(k))
    /\ z_l[0] = LargeRing(SumTo(nP, z_l))

(* The claimed product is off by exactly what the bent opening makes of it: *)
(* merging, padding, the two layouts of z without its first entry, and the  *)
(* coefficients lose nothing and add nothing (zkfliop_evaluator.cpp:        *)
(* 1324-1447 and 1480-1605).  Without a bent opening x * y = z throughout.  *)
DefectKept ==
  Merged =>
    LargeRing(z_m + SumTo(nP, z_l) - Inner(x, [k \in DOMAIN x |-> Whole(k)])) = defect

(* What the dealer commits to during the setup is what the parties open      *)
(* online, whatever anybody made of the masked values: a deviation there is *)
(* never taken for a wrong opening (zkfliop_evaluator.cpp:1618-1658, 1680). *)
CommitsOpened == opened = commits

(* verify() accepts if and only if it should: the triple is rejected when   *)
(* the product is off, the sums when the outputs of the multiplications in  *)
(* some random subset (or its bent sum) are off in total; in particular a   *)
(* run in which nobody deviates is accepted (zkfliop_evaluator.cpp:1659,    *)
(* 1708-1713).  The circuit may feed a wrong output to other gates.         *)
VerdictDeserved ==
  LET error(l) == (IF bend.sum = 1 /\ bend.entry = l THEN bend.by ELSE 0)
                    - (IF cheat.gate \in Mults THEN RBit(cheat.gate, l) * cheat.by ELSE 0)
  IN  pc = "done" =>
        verdict = IF defect # 0 THEN "triple rejected"
                  ELSE IF \E l \in 1..SSEC : Ring(error(l)) # 0 THEN "sums rejected"
                  ELSE "accepted"
=============================================================================
