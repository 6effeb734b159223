---------------------------- MODULE Semi_proofs ----------------------------
(***************************************************************************)
(* Proofs about Semi: for every circuit, every number of parties, every    *)
(* modulus, all inputs and all contents of the shared streams, the         *)
(* semi-honest evaluator computes the circuit.                             *)
(*                                                                         *)
(* First the data: sums in the ring, the order of the gates, the masks and *)
(* their shares as functions of the streams, the masked values and their   *)
(* shares.  Facts about all wires are proved by induction along the order  *)
(* of the gates: a set of positions that is not everything would miss a    *)
(* least one.  Then the states: IInv says of every process and every       *)
(* stream what it holds at each point of the code.                         *)
(***************************************************************************)
EXTENDS Semi, TLAPS, WellFoundedInduction, FiniteSetTheorems

-----------------------------------------------------------------------------
(* Induction, with a set in place of a predicate.                          *)
LEMMA LeastElement ==
  ASSUME NEW T \in SUBSET Nat, T # {}
  PROVE  \E x \in T : \A y \in T : ~(y < x)
<1> DEFINE R == OpToRel(<, Nat)
<1>1. IsWellFoundedOn(R, Nat)
  BY NatLessThanWellFounded
<1>2. \E x \in T : \A y \in T : ~ (<<y, x>> \in R)
  <2> HIDE DEF R
  <2> QED BY <1>1, WFMin
<1>3. \A x, y \in T : y < x => <<y, x>> \in R
  BY DEF OpToRel
<1> HIDE DEF R
<1> QED BY <1>2, <1>3

(* Hence a set of naturals with 0 and the successors of its elements has   *)
(* them all.                                                               *)
LEMMA SetInduction ==
  ASSUME NEW S, 0 \in S, \A n \in Nat : n \in S => n + 1 \in S
  PROVE  Nat \subseteq S
<1> DEFINE T == Nat \ S
<1> SUFFICES ASSUME T # {} PROVE FALSE
  OBVIOUS
<1>1. PICK x \in T : \A y \in T : ~(y < x)
  BY LeastElement
<1>2. x \in Nat /\ x # 0
  OBVIOUS
<1>3. x - 1 \in Nat /\ x - 1 < x /\ (x - 1) + 1 = x
  BY <1>2
<1> QED BY <1>1, <1>2, <1>3

(* The same with all smaller numbers in the hypothesis.                    *)
LEMMA StrongInduction ==
  ASSUME NEW S, \A n \in Nat : (\A k \in Nat : k < n => k \in S) => n \in S
  PROVE  Nat \subseteq S
<1> DEFINE T == Nat \ S
<1> SUFFICES ASSUME T # {} PROVE FALSE
  OBVIOUS
<1>1. PICK x \in T : \A y \in T : ~(y < x)
  BY LeastElement
<1> QED BY <1>1

(* A step function can be iterated.                                        *)
Iterates(f, X, x0, n, G) ==
  f \in [0..n -> X] /\ f[0] = x0 /\ \A k \in 1..n : f[k] = G[<<k, f[k - 1]>>]

(* A function of a number and a value can be iterated from any value on.   *)
LEMMA Iteration ==
  ASSUME NEW X, NEW x0 \in X, NEW N \in Nat, NEW G \in [(1..N) \X X -> X]
  PROVE  \E f : Iterates(f, X, x0, N, G)
<1> DEFINE Ok(n) == \E f : Iterates(f, X, x0, n, G)
           S == {n \in Nat : n <= N => Ok(n)}
<1>1. Ok(0)
  <2> DEFINE f == [i \in 0..0 |-> x0]
  <2>1. Iterates(f, X, x0, 0, G)
    BY DEF Iterates
  <2> HIDE DEF f
  <2> QED BY <2>1
<1>2. ASSUME NEW n \in Nat, n + 1 <= N, Ok(n) PROVE Ok(n + 1)
  <2>1. PICK f : Iterates(f, X, x0, n, G)
    BY <1>2
  <2> DEFINE g == [k \in 0..(n + 1) |-> IF k = n + 1 THEN G[<<n + 1, f[n]>>] ELSE f[k]]
  <2>2. G[<<n + 1, f[n]>>] \in X
    <3>1. f[n] \in X /\ n + 1 \in 1..N BY <1>2, <2>1 DEF Iterates
    <3> QED BY <3>1
  <2>3. g \in [0..(n + 1) -> X]
    BY <2>1, <2>2 DEF Iterates
  <2>4. g[0] = x0
    BY <2>1 DEF Iterates
  <2>5. ASSUME NEW k \in 1..(n + 1) PROVE g[k] = G[<<k, g[k - 1]>>]
    <3>1. CASE k = n + 1
      <4>1. g[n + 1] = G[<<n + 1, f[n]>>] /\ g[n] = f[n] /\ (n + 1) - 1 = n
        OBVIOUS
      <4> HIDE DEF g
      <4> QED BY <3>1, <4>1
    <3>2. CASE k \in 1..n
      <4>1. g[k] = f[k] /\ g[k - 1] = f[k - 1]
        BY <3>2
      <4> HIDE DEF g
      <4> QED BY <3>2, <2>1, <4>1 DEF Iterates
    <3> QED BY <3>1, <3>2
  <2> HIDE DEF g
  <2>6. Iterates(g, X, x0, n + 1, G)
    BY <2>3, <2>4, <2>5 DEF Iterates
  <2> QED BY <2>6
<1>3. Nat \subseteq S
  <2> HIDE DEF Ok
  <2>1. 0 \in S BY <1>1
  <2>2. \A n \in Nat : n \in S => n + 1 \in S BY <1>2
  <2> HIDE DEF S
  <2> QED BY <2>1, <2>2, SetInduction
<1>4. Ok(N)
  <2> HIDE DEF Ok
  <2> QED BY <1>3
<1> QED BY <1>4

-----------------------------------------------------------------------------
(* Sums.                                                                   *)
IntVector(n, v) == \A k \in 1..n : v[k] \in Int

(* The equations of a sum have one solution: two differ nowhere first.     *)
LEMMA SumUnique ==
  ASSUME NEW n \in Nat, NEW v, NEW g, g[0] = 0, \A k \in 1..n : g[k] = g[k - 1] + v[k],
         IntVector(n, v)
  PROVE  SumTo(n, v) = g[n] /\ g[n] \in Int
<1> DEFINE F(s) == [k \in 0..n |-> IF k = 0 THEN 0 ELSE s[k - 1] + v[k]]
           h == [k \in 0..n |-> g[k]]
           sum == CHOOSE s : s = F(s)
<1>1. \A k \in 1..n : k - 1 \in 0..n /\ k \in 0..n
  OBVIOUS
<1>2. h = F(h)
  BY <1>1
<1>3. sum = F(sum)
  <2> HIDE DEF h, F
  <2> QED BY <1>2
<1>4. SumTo(n, v) = sum[n]
  BY DEF SumTo
<1>5. sum[0] = 0 /\ \A k \in 1..n : sum[k] = sum[k - 1] + v[k]
  <2> HIDE DEF sum
  <2> QED BY <1>1, <1>3
<1>6. \A k \in Nat : k <= n => sum[k] = g[k] /\ g[k] \in Int
  <2> DEFINE S == {k \in Nat : k <= n => sum[k] = g[k] /\ g[k] \in Int}
  <2> HIDE DEF sum
  <2>1. 0 \in S BY <1>5
  <2>2. ASSUME NEW k \in Nat, k \in S PROVE k + 1 \in S
    <3> SUFFICES ASSUME k + 1 <= n PROVE sum[k + 1] = g[k + 1] /\ g[k + 1] \in Int
      OBVIOUS
    <3>1. k + 1 \in 1..n /\ (k + 1) - 1 = k
      OBVIOUS
    <3> QED BY <3>1, <2>2, <1>5 DEF IntVector
  <2> HIDE DEF S
  <2>3. Nat \subseteq S
    BY <2>1, <2>2, SetInduction
  <2> QED BY <2>3 DEF S
<1> HIDE DEF sum
<1> QED BY <1>4, <1>6

(* They have one: the iteration of adding the next element.                *)
LEMMA SumExists ==
  ASSUME NEW N \in Nat, NEW v, IntVector(N, v)
  PROVE  \E s \in [0..N -> Int] : s[0] = 0 /\ \A k \in 1..N : s[k] = s[k - 1] + v[k]
<1> DEFINE G == [z \in (1..N) \X Int |-> z[2] + v[z[1]]]
<1>1. G \in [(1..N) \X Int -> Int]
  BY DEF IntVector
<1>2. PICK s : Iterates(s, Int, 0, N, G)
  <2> HIDE DEF G
  <2>1. 0 \in Int OBVIOUS
  <2> QED BY <1>1, <2>1, Iteration
<1>3. s \in [0..N -> Int] /\ s[0] = 0 /\ \A k \in 1..N : s[k] = G[<<k, s[k - 1]>>]
  BY <1>2 DEF Iterates
<1>4. \A k \in 1..N : s[k - 1] \in Int
  BY <1>3
<1>5. \A k \in 1..N : s[k] = s[k - 1] + v[k]
  BY <1>3, <1>4
<1> QED BY <1>3, <1>5

(* So SumTo is what its recursive definition says.                         *)
LEMMA SumFacts ==
  ASSUME NEW N \in Nat, NEW v, IntVector(N, v)
  PROVE  /\ SumTo(0, v) = 0
         /\ \A n \in 0..N : SumTo(n, v) \in Int
         /\ \A n \in 1..N : SumTo(n, v) = SumTo(n - 1, v) + v[n]
<1>1. PICK s \in [0..N -> Int] : s[0] = 0 /\ \A k \in 1..N : s[k] = s[k - 1] + v[k]
  BY SumExists
<1>2. ASSUME NEW n \in 0..N PROVE SumTo(n, v) = s[n]
  <2>1. n \in Nat /\ \A k \in 1..n : k \in 1..N
    OBVIOUS
  <2>2. IntVector(n, v)
    BY <2>1 DEF IntVector
  <2>3. \A k \in 1..n : s[k] = s[k - 1] + v[k]
    BY <1>1, <2>1
  <2> QED BY <1>1, <2>1, <2>2, <2>3, SumUnique
<1>3. \A n \in 1..N : n - 1 \in 0..N /\ n \in 0..N
  OBVIOUS
<1> QED BY <1>1, <1>2, <1>3

(* Vectors that agree up to n have the same sum up to n.                   *)
LEMMA SumSame ==
  ASSUME NEW N \in Nat, NEW u, NEW v, IntVector(N, u), \A k \in 1..N : u[k] = v[k]
  PROVE  SumTo(N, u) = SumTo(N, v)
<1>1. IntVector(N, v)
  BY DEF IntVector
<1> DEFINE S == {n \in Nat : n <= N => SumTo(n, u) = SumTo(n, v)}
<1>2. 0 \in S
  BY <1>1, SumFacts
<1>3. ASSUME NEW n \in Nat, n \in S PROVE n + 1 \in S
  <2> SUFFICES ASSUME n + 1 <= N PROVE SumTo(n + 1, u) = SumTo(n + 1, v)
    OBVIOUS
  <2>1. n + 1 \in 1..N /\ (n + 1) - 1 = n
    OBVIOUS
  <2> QED BY <1>1, <1>3, <2>1, SumFacts
<1> HIDE DEF S
<1>4. Nat \subseteq S
  BY <1>2, <1>3, SetInduction
<1> QED BY <1>4 DEF S

(* A sum of sums, element by element.                                      *)
LEMMA SumAdd ==
  ASSUME NEW N \in Nat, NEW u, NEW v, NEW w, IntVector(N, u), IntVector(N, v),
         \A k \in 1..N : w[k] = u[k] + v[k]
  PROVE  SumTo(N, w) = SumTo(N, u) + SumTo(N, v) /\ IntVector(N, w)
<1>1. IntVector(N, w)
  BY DEF IntVector
<1> DEFINE S == {n \in Nat : n <= N => SumTo(n, w) = SumTo(n, u) + SumTo(n, v)}
<1>2. 0 \in S
  BY <1>1, SumFacts
<1>3. ASSUME NEW n \in Nat, n \in S PROVE n + 1 \in S
  <2> SUFFICES ASSUME n + 1 <= N PROVE SumTo(n + 1, w) = SumTo(n + 1, u) + SumTo(n + 1, v)
    OBVIOUS
  <2>1. n + 1 \in 1..N /\ (n + 1) - 1 = n /\ n \in 0..N
    OBVIOUS
  <2>2. /\ SumTo(n + 1, w) = SumTo(n, w) + w[n + 1]
        /\ SumTo(n + 1, u) = SumTo(n, u) + u[n + 1]
        /\ SumTo(n + 1, v) = SumTo(n, v) + v[n + 1]
    BY <1>1, <2>1, SumFacts
  <2>3. SumTo(n, u) \in Int /\ SumTo(n, v) \in Int
    BY <2>1, SumFacts
  <2> QED BY <1>3, <2>1, <2>2, <2>3 DEF IntVector
<1> HIDE DEF S
<1>4. Nat \subseteq S
  BY <1>2, <1>3, SetInduction
<1> QED BY <1>1, <1>4 DEF S

(* A common factor of a sum.                                               *)
LEMMA SumScale ==
  ASSUME NEW N \in Nat, NEW u, NEW w, NEW c \in Int, IntVector(N, u),
         \A k \in 1..N : w[k] = c * u[k]
  PROVE  SumTo(N, w) = c * SumTo(N, u) /\ IntVector(N, w)
<1>1. IntVector(N, w)
  BY DEF IntVector
<1> DEFINE S == {n \in Nat : n <= N => SumTo(n, w) = c * SumTo(n, u)}
<1>2. 0 \in S
  BY <1>1, SumFacts
<1>3. ASSUME NEW n \in Nat, n \in S PROVE n + 1 \in S
  <2> SUFFICES ASSUME n + 1 <= N PROVE SumTo(n + 1, w) = c * SumTo(n + 1, u)
    OBVIOUS
  <2>1. n + 1 \in 1..N /\ (n + 1) - 1 = n /\ n \in 0..N
    OBVIOUS
  <2>2. /\ SumTo(n + 1, w) = SumTo(n, w) + w[n + 1]
        /\ SumTo(n + 1, u) = SumTo(n, u) + u[n + 1]
    BY <1>1, <2>1, SumFacts
  <2>3. SumTo(n, u) \in Int /\ u[n + 1] \in Int
    BY <2>1, SumFacts DEF IntVector
  <2>4. \A a, b \in Int : c * (a + b) = c * a + c * b
    OBVIOUS
  <2>5. SumTo(n, w) = c * SumTo(n, u) /\ w[n + 1] = c * u[n + 1]
    BY <1>3, <2>1
  <2> QED BY <2>2, <2>3, <2>4, <2>5
<1> HIDE DEF S
<1>4. Nat \subseteq S
  BY <1>2, <1>3, SetInduction
<1> QED BY <1>1, <1>4 DEF S

(* Only one summand is not zero.                                           *)
LEMMA SumSingle ==
  ASSUME NEW N \in Nat, NEW i \in 1..N, NEW c \in Int, NEW w,
         \A k \in 1..N : w[k] = IF k = i THEN c ELSE 0
  PROVE  SumTo(N, w) = c /\ IntVector(N, w)
<1>1. IntVector(N, w)
  BY DEF IntVector
<1> DEFINE S == {n \in Nat : n <= N => SumTo(n, w) = IF n < i THEN 0 ELSE c}
<1>2. 0 \in S
  BY <1>1, SumFacts
<1>3. ASSUME NEW n \in Nat, n \in S PROVE n + 1 \in S
  <2> SUFFICES ASSUME n + 1 <= N PROVE SumTo(n + 1, w) = IF n + 1 < i THEN 0 ELSE c
    OBVIOUS
  <2>1. n + 1 \in 1..N /\ (n + 1) - 1 = n /\ n \in 0..N
    OBVIOUS
  <2>2. SumTo(n + 1, w) = SumTo(n, w) + w[n + 1]
    BY <1>1, <2>1, SumFacts
  <2>3. SumTo(n, w) = (IF n < i THEN 0 ELSE c) /\ w[n + 1] = IF n + 1 = i THEN c ELSE 0
    BY <1>3, <2>1
  <2> QED BY <2>2, <2>3
<1> HIDE DEF S
<1>4. Nat \subseteq S
  BY <1>2, <1>3, SetInduction
<1> QED BY <1>1, <1>4 DEF S

(* A matrix of N rows and M columns, summed by rows (a) and columns (b).   *)
RowsAndColumns(N, M, R, C, a, b) ==
  /\ \A i \in 1..N : IntVector(M, R[i]) /\ a[i] = SumTo(M, R[i])
  /\ \A j \in 1..M : IntVector(N, C[j]) /\ b[j] = SumTo(N, C[j])
  /\ \A i \in 1..N : \A j \in 1..M : R[i][j] = C[j][i]

(* The rows of a table and its columns have the same sum: the parties'     *)
(* shares of a dot product, party by party or term by term.                *)
LEMMA SumSwap ==
  ASSUME NEW N \in Nat, NEW M \in Nat, NEW R, NEW C, NEW a, NEW b,
         RowsAndColumns(N, M, R, C, a, b)
  PROVE  SumTo(N, a) = SumTo(M, b) /\ IntVector(N, a) /\ IntVector(M, b)
<1>0. /\ \A i \in 1..N : IntVector(M, R[i]) /\ a[i] = SumTo(M, R[i])
      /\ \A j \in 1..M : IntVector(N, C[j]) /\ b[j] = SumTo(N, C[j])
      /\ \A i \in 1..N : \A j \in 1..M : R[i][j] = C[j][i]
  BY DEF RowsAndColumns
<1> DEFINE row(i) == R[i]
           col(j) == C[j]
           B(n) == [j \in 1..M |-> SumTo(n, col(j))]
<1>1. \A i \in 1..N : IntVector(M, row(i))
  BY <1>0
<1>2. \A j \in 1..M : IntVector(N, col(j))
  BY <1>0
<1>3. IntVector(N, a)
  <2> SUFFICES ASSUME NEW i \in 1..N PROVE a[i] \in Int
    BY DEF IntVector
  <2>1. IntVector(M, row(i)) /\ M \in 0..M
    BY <1>1
  <2>2. SumTo(M, row(i)) \in Int
    BY <2>1, SumFacts
  <2> QED BY <1>0, <2>2
<1>4. \A n \in 0..N : IntVector(M, B(n))
  <2> SUFFICES ASSUME NEW n \in 0..N, NEW j \in 1..M PROVE B(n)[j] \in Int
    BY DEF IntVector
  <2>1. IntVector(N, col(j))
    BY <1>2
  <2> HIDE DEF col
  <2>2. SumTo(n, col(j)) \in Int
    BY <2>1, SumFacts
  <2> QED BY <2>2
<1>5. IntVector(M, b) /\ SumTo(M, b) = SumTo(M, B(N))
  <2>1. N \in 0..N OBVIOUS
  <2>2. IntVector(M, B(N)) BY <1>4, <2>1
  <2>3. \A j \in 1..M : B(N)[j] = b[j]
    BY <1>0
  <2> HIDE DEF B
  <2>4. IntVector(M, b) BY <2>2, <2>3 DEF IntVector
  <2> QED BY <2>2, <2>3, <2>4, SumSame
<1> DEFINE S == {n \in Nat : n <= N => SumTo(n, a) = SumTo(M, B(n))}
<1>6. 0 \in S
  <2>1. \A j \in 1..M : SumTo(0, col(j)) = 0
    <3> HIDE DEF col
    <3> QED BY <1>2, SumFacts
  <2>2. \A j \in 1..M : B(0)[j] = 0 * B(0)[j]
    BY <2>1
  <2>3. IntVector(M, B(0))
    <3>1. 0 \in 0..N OBVIOUS
    <3> HIDE DEF B
    <3> QED BY <1>4, <3>1
  <2> HIDE DEF B
  <2>4. SumTo(M, B(0)) = 0 * SumTo(M, B(0)) /\ M \in 0..M
    BY <2>2, <2>3, SumScale
  <2>5. SumTo(M, B(0)) = 0
    BY <2>3, <2>4, SumFacts
  <2>6. SumTo(0, a) = 0
    BY <1>3, SumFacts
  <2> QED BY <2>5, <2>6
<1>7. ASSUME NEW n \in Nat, n \in S PROVE n + 1 \in S
  <2> SUFFICES ASSUME n + 1 <= N PROVE SumTo(n + 1, a) = SumTo(M, B(n + 1))
    OBVIOUS
  <2>1. n + 1 \in 1..N /\ (n + 1) - 1 = n /\ n \in 0..N /\ n + 1 \in 0..N
    OBVIOUS
  <2>2. SumTo(n + 1, a) = SumTo(n, a) + a[n + 1]
    BY <1>3, <2>1, SumFacts
  <2>3. \A j \in 1..M : B(n + 1)[j] = B(n)[j] + row(n + 1)[j]
    <3> SUFFICES ASSUME NEW j \in 1..M PROVE SumTo(n + 1, col(j)) = SumTo(n, col(j)) + row(n + 1)[j]
      OBVIOUS
    <3>1. col(j)[n + 1] = row(n + 1)[j] /\ IntVector(N, col(j))
      BY <1>0, <1>2, <2>1
    <3> QED BY <3>1, <2>1, SumFacts
  <2>4. IntVector(M, B(n)) /\ IntVector(M, row(n + 1))
    BY <1>1, <1>4, <2>1
  <2>5. a[n + 1] = SumTo(M, row(n + 1)) /\ SumTo(n, a) = SumTo(M, B(n))
    BY <1>0, <1>7, <2>1
  <2> HIDE DEF B, row
  <2>6. SumTo(M, B(n + 1)) = SumTo(M, B(n)) + SumTo(M, row(n + 1))
    BY <2>3, <2>4, SumAdd
  <2> QED BY <2>2, <2>5, <2>6
<1> HIDE DEF S
<1>8. Nat \subseteq S
  BY <1>6, <1>7, SetInduction
<1> QED BY <1>3, <1>5, <1>8 DEF S

(* The partial sums of natural numbers never fall.                         *)
LEMMA SumMonotone ==
  ASSUME NEW N \in Nat, NEW v, \A k \in 1..N : v[k] \in Nat, NEW a \in 0..N, NEW b \in a..N
  PROVE  SumTo(a, v) <= SumTo(b, v) /\ SumTo(a, v) \in Nat /\ SumTo(b, v) \in Nat
<1>1. IntVector(N, v)
  BY DEF IntVector
<1> DEFINE S == {n \in Nat : n <= N => SumTo(n, v) \in Nat /\ (a <= n => SumTo(a, v) <= SumTo(n, v))}
<1>2. 0 \in S
  BY <1>1, SumFacts
<1>3. ASSUME NEW n \in Nat, n \in S PROVE n + 1 \in S
  <2> SUFFICES ASSUME n + 1 <= N
               PROVE SumTo(n + 1, v) \in Nat /\ (a <= n + 1 => SumTo(a, v) <= SumTo(n + 1, v))
    OBVIOUS
  <2>1. n + 1 \in 1..N /\ (n + 1) - 1 = n /\ n \in 0..N
    OBVIOUS
  <2>2. SumTo(n + 1, v) = SumTo(n, v) + v[n + 1]
    BY <1>1, <2>1, SumFacts
  <2>3. SumTo(n, v) \in Nat /\ (a <= n => SumTo(a, v) <= SumTo(n, v)) /\ v[n + 1] \in Nat
    BY <1>3, <2>1
  <2>4. a \in Nat /\ SumTo(a, v) \in Int
    BY <1>1, SumFacts
  <2> QED BY <2>2, <2>3, <2>4
<1> HIDE DEF S
<1>4. Nat \subseteq S
  BY <1>2, <1>3, SetInduction
<1> QED BY <1>4 DEF S

-----------------------------------------------------------------------------
(* Arithmetic in the ring.                                                 *)
Same(a, b) == a % Modulus = b % Modulus

(* The ring is not empty.                                                  *)
LEMMA ModulusPositive == Modulus \in Nat \ {0} /\ Ring = 0..(Modulus - 1)
BY SemiAssumption DEF Ring

(* Division with remainder, by the modulus.                                *)
LEMMA DivFacts ==
  ASSUME NEW a \in Int
  PROVE  /\ a % Modulus \in Ring /\ a \div Modulus \in Int
         /\ a = (Modulus * (a \div Modulus)) + (a % Modulus)
BY ModulusPositive

(* The remainder is the element of the ring that is a multiple of the      *)
(* modulus away.                                                           *)
LEMMA ModUnique ==
  ASSUME NEW a \in Int, NEW k \in Int, NEW r \in Ring, a = (Modulus * k) + r
  PROVE  a % Modulus = r
<1> DEFINE q == a \div Modulus
           s == a % Modulus
<1>1. q \in Int /\ s \in Ring /\ a = (Modulus * q) + s
  BY DivFacts
<1> HIDE DEF q, s
<1>2. Modulus \in Nat /\ Modulus > 0 /\ r \in 0..(Modulus - 1) /\ s \in 0..(Modulus - 1)
  BY <1>1, ModulusPositive
<1>3. Modulus * (k - q) = s - r
  BY <1>1, <1>2
<1>4. k - q = 0
  <2>1. CASE k - q >= 1
    <3>1. Modulus * (k - q) >= Modulus BY <2>1, <1>1, <1>2
    <3> QED BY <1>2, <1>3, <3>1
  <2>2. CASE k - q <= -1
    <3>1. Modulus * (k - q) <= 0 - Modulus BY <2>2, <1>1, <1>2
    <3> QED BY <1>2, <1>3, <3>1
  <2> QED BY <2>1, <2>2, <1>1
<1> QED BY <1>1, <1>2, <1>3, <1>4 DEF s

(* Numbers are the same in the ring when they are a multiple of the        *)
(* modulus apart.                                                          *)
LEMMA SameShift ==
  ASSUME NEW a \in Int, NEW b \in Int
  PROVE  Same(a, b) <=> \E k \in Int : a = b + (Modulus * k)
<1> DEFINE q == a \div Modulus
           r == a % Modulus
           s == b % Modulus
           u == b \div Modulus
<1>1. q \in Int /\ r \in Ring /\ a = (Modulus * q) + r
  BY DivFacts
<1>2. u \in Int /\ s \in Ring /\ b = (Modulus * u) + s
  BY DivFacts
<1>3. Same(a, b) <=> r = s
  BY DEF Same
<1> HIDE DEF q, r, s, u
<1>4. Modulus \in Nat /\ \A x \in Ring : x \in Int
  BY ModulusPositive
<1>5. ASSUME r = s PROVE \E k \in Int : a = b + (Modulus * k)
  <2>1. q - u \in Int /\ a = b + (Modulus * (q - u))
    BY <1>1, <1>2, <1>4, <1>5
  <2> QED BY <2>1
<1>6. ASSUME NEW k \in Int, a = b + (Modulus * k) PROVE r = s
  <2>1. a = (Modulus * (u + k)) + s /\ u + k \in Int
    BY <1>6, <1>2, <1>4
  <2>2. a % Modulus = s
    BY <1>2, <2>1, ModUnique
  <2> QED BY <2>2 DEF r
<1> QED BY <1>3, <1>5, <1>6

(* Elements of the ring are reduced.                                       *)
LEMMA SameRing == ASSUME NEW a \in Ring PROVE a % Modulus = a /\ a \in Int
<1>1. a \in Int /\ a = (Modulus * 0) + a
  BY ModulusPositive
<1> QED BY <1>1, ModUnique

(* Reducing changes nothing in the ring.                                   *)
LEMMA SameMod == ASSUME NEW a \in Int PROVE Same(a % Modulus, a) /\ a % Modulus \in Int
BY DivFacts, SameRing DEF Same

(* Sums, differences and products of the same are the same.                *)
LEMMA SameOps ==
  ASSUME NEW a \in Int, NEW b \in Int, NEW c \in Int, NEW d \in Int, Same(a, b), Same(c, d)
  PROVE  Same(a + c, b + d) /\ Same(a - c, b - d) /\ Same(a * c, b * d)
<1>1. PICK k \in Int : a = b + (Modulus * k)
  BY SameShift
<1>2. PICK l \in Int : c = d + (Modulus * l)
  BY SameShift
<1>3. Modulus \in Int
  BY ModulusPositive
<1>4. a + c = (b + d) + (Modulus * (k + l)) /\ k + l \in Int
  BY <1>1, <1>2, <1>3
<1>5. a - c = (b - d) + (Modulus * (k - l)) /\ k - l \in Int
  BY <1>1, <1>2, <1>3
<1>6. a * c = (b * d) + (Modulus * (b * l + k * d + Modulus * k * l)) /\ b * l + k * d + Modulus * k * l \in Int
  <2>1. a * c = (b + (Modulus * k)) * (d + (Modulus * l))
    BY <1>1, <1>2
  <2> QED BY <2>1, <1>3
<1>7. a + c \in Int /\ a - c \in Int /\ a * c \in Int /\ b + d \in Int /\ b - d \in Int /\ b * d \in Int
  OBVIOUS
<1>8. Same(a + c, b + d)
  BY <1>4, <1>7, SameShift
<1>9. Same(a - c, b - d)
  BY <1>5, <1>7, SameShift
<1>10. Same(a * c, b * d)
  BY <1>6, <1>7, SameShift
<1> QED BY <1>8, <1>9, <1>10

(* Reducing the elements of a sum does not change it in the ring.          *)
LEMMA SumSameMod ==
  ASSUME NEW N \in Nat, NEW u, NEW v, IntVector(N, u), IntVector(N, v),
         \A k \in 1..N : Same(u[k], v[k])
  PROVE  Same(SumTo(N, u), SumTo(N, v))
<1> DEFINE S == {n \in Nat : n <= N => Same(SumTo(n, u), SumTo(n, v))}
<1>1. 0 \in S
  BY SumFacts DEF Same
<1>2. ASSUME NEW n \in Nat, n \in S PROVE n + 1 \in S
  <2> SUFFICES ASSUME n + 1 <= N PROVE Same(SumTo(n + 1, u), SumTo(n + 1, v))
    OBVIOUS
  <2>1. n + 1 \in 1..N /\ (n + 1) - 1 = n /\ n \in 0..N
    OBVIOUS
  <2>2. /\ SumTo(n + 1, u) = SumTo(n, u) + u[n + 1]
        /\ SumTo(n + 1, v) = SumTo(n, v) + v[n + 1]
    BY <2>1, SumFacts
  <2>3. /\ SumTo(n, u) \in Int /\ u[n + 1] \in Int
        /\ SumTo(n, v) \in Int /\ v[n + 1] \in Int
    BY <2>1, SumFacts DEF IntVector
  <2>4. Same(SumTo(n, u), SumTo(n, v)) /\ Same(u[n + 1], v[n + 1])
    BY <1>2, <2>1
  <2> QED BY <2>2, <2>3, <2>4, SameOps
<1> HIDE DEF S
<1>3. Nat \subseteq S
  BY <1>1, <1>2, SetInduction
<1> QED BY <1>3 DEF S

-----------------------------------------------------------------------------
(* Parts of sequences.                                                     *)
Elements(n, s) == {s[k] : k \in 1..n}

(* Chosen is what its recursive definition says.                           *)
LEMMA ChosenFacts ==
  ASSUME NEW N \in Nat, NEW s, NEW T, NEW X, \A k \in 1..N : s[k] \in X
  PROVE  /\ Chosen(0, s, T) = << >>
         /\ \A n \in 0..N : Chosen(n, s, T) \in Seq(X)
         /\ \A n \in 1..N : Chosen(n, s, T) = IF s[n] \in T THEN Append(Chosen(n - 1, s, T), s[n])
                                              ELSE Chosen(n - 1, s, T)
<1> DEFINE G == [z \in (1..N) \X Seq(X) |-> IF s[z[1]] \in T THEN Append(z[2], s[z[1]]) ELSE z[2]]
           Rule(g, k) == IF s[k] \in T THEN Append(g[k - 1], s[k]) ELSE g[k - 1]
           Fcn(n, g) == [k \in 0..n |-> IF k = 0 THEN << >> ELSE Rule(g, k)]
           pick(n) == CHOOSE g : g = Fcn(n, g)
<1>1. G \in [(1..N) \X Seq(X) -> Seq(X)]
  <2> SUFFICES ASSUME NEW k \in 1..N, NEW x \in Seq(X)
               PROVE  (IF s[k] \in T THEN Append(x, s[k]) ELSE x) \in Seq(X)
    OBVIOUS
  <2> QED OBVIOUS
<1>2. PICK g : Iterates(g, Seq(X), << >>, N, G)
  <2> HIDE DEF G
  <2>1. << >> \in Seq(X) OBVIOUS
  <2> QED BY <1>1, <2>1, Iteration
<1>3. g \in [0..N -> Seq(X)] /\ g[0] = << >> /\ \A k \in 1..N : g[k] = Rule(g, k)
  <2>1. g \in [0..N -> Seq(X)] /\ g[0] = << >> /\ \A k \in 1..N : g[k] = G[<<k, g[k - 1]>>]
    BY <1>2 DEF Iterates
  <2>2. \A k \in 1..N : g[k - 1] \in Seq(X)
    BY <2>1
  <2> QED BY <2>1, <2>2
<1>4. ASSUME NEW n \in 0..N PROVE Chosen(n, s, T) = g[n]
  <2> DEFINE h == [k \in 0..n |-> g[k]]
  <2>1. \A k \in 1..n : k \in 1..N /\ k - 1 \in 0..n
    OBVIOUS
  <2>2. h = Fcn(n, h)
    BY <1>3, <2>1
  <2>3. pick(n) = Fcn(n, pick(n))
    <3> HIDE DEF h, Fcn
    <3> QED BY <2>2
  <2>4. Chosen(n, s, T) = pick(n)[n]
    BY DEF Chosen
  <2> HIDE DEF pick
  <2>5. pick(n)[0] = << >> /\ \A k \in 1..n : pick(n)[k] = Rule(pick(n), k)
    <3>1. 0 \in 0..n /\ \A k \in 1..n : k \in 0..n /\ k # 0
      OBVIOUS
    <3> HIDE DEF Rule
    <3> QED BY <2>3, <3>1
  <2> DEFINE S == {k \in Nat : k <= n => pick(n)[k] = g[k]}
  <2>6. 0 \in S
    BY <1>3, <2>5
  <2>7. ASSUME NEW k \in Nat, k \in S PROVE k + 1 \in S
    <3> SUFFICES ASSUME k + 1 <= n PROVE pick(n)[k + 1] = g[k + 1]
      OBVIOUS
    <3>1. k + 1 \in 1..n /\ k + 1 \in 1..N /\ (k + 1) - 1 = k /\ pick(n)[k] = g[k]
      BY <2>7
    <3> QED BY <1>3, <2>5, <3>1
  <2>8. Nat \subseteq S
    <3> HIDE DEF S
    <3> QED BY <2>6, <2>7, SetInduction
  <2> QED BY <2>4, <2>8
<1>5. \A n \in 1..N : n - 1 \in 0..N /\ n \in 0..N
  OBVIOUS
<1>6. Chosen(0, s, T) = << >> /\ \A n \in 0..N : Chosen(n, s, T) \in Seq(X)
  BY <1>3, <1>4
<1>7. ASSUME NEW n \in 1..N
      PROVE  Chosen(n, s, T) = IF s[n] \in T THEN Append(Chosen(n - 1, s, T), s[n])
                               ELSE Chosen(n - 1, s, T)
  <2>1. Chosen(n, s, T) = g[n] /\ Chosen(n - 1, s, T) = g[n - 1]
    BY <1>4, <1>5
  <2>2. g[n] = Rule(g, n)
    BY <1>3
  <2> QED BY <2>1, <2>2
<1> QED BY <1>6, <1>7

(* What one more element adds to a sequence.                               *)
LEMMA AppendRange ==
  ASSUME NEW X, NEW c \in Seq(X), NEW x \in X
  PROVE  Range(Append(c, x)) = Range(c) \cup {x}
<1> DEFINE d == Append(c, x)
           n == Len(c)
<1>1. /\ n \in Nat /\ DOMAIN c = 1..n /\ DOMAIN d = 1..(n + 1) /\ d[n + 1] = x
      /\ \A k \in 1..n : d[k] = c[k]
  OBVIOUS
<1> HIDE DEF d, n
<1>2. \A k : k \in 1..(n + 1) <=> k \in 1..n \/ k = n + 1
  BY <1>1
<1>3. Range(d) = Range(c) \cup {x}
  BY <1>1, <1>2 DEF Range
<1> QED BY <1>3 DEF d

(* The chosen elements are those in the set, among the first n.            *)
LEMMA ChosenElements ==
  ASSUME NEW N \in Nat, NEW s, NEW T, NEW X, \A k \in 1..N : s[k] \in X
  PROVE  \A n \in 0..N : Range(Chosen(n, s, T)) = Elements(n, s) \cap T
<1> DEFINE C(n) == Chosen(n, s, T)
           S == {n \in Nat : n <= N => Range(C(n)) = Elements(n, s) \cap T}
<1>0. /\ \A n \in 0..N : C(n) \in Seq(X)
      /\ \A n \in 1..N : C(n) = IF s[n] \in T THEN Append(C(n - 1), s[n]) ELSE C(n - 1)
  BY ChosenFacts
<1>1. 0 \in S
  <2>1. C(0) = << >>
    BY ChosenFacts
  <2> HIDE DEF C
  <2> QED BY <2>1 DEF Range, Elements
<1>2. ASSUME NEW n \in Nat, n \in S PROVE n + 1 \in S
  <2> SUFFICES ASSUME n + 1 <= N PROVE Range(C(n + 1)) = Elements(n + 1, s) \cap T
    OBVIOUS
  <2>1. n + 1 \in 1..N /\ (n + 1) - 1 = n /\ n \in 0..N
    OBVIOUS
  <2>2. C(n) \in Seq(X) /\ s[n + 1] \in X
       /\ C(n + 1) = IF s[n + 1] \in T THEN Append(C(n), s[n + 1]) ELSE C(n)
    <3> HIDE DEF C
    <3> QED BY <2>1, <1>0
  <2>3. Range(C(n)) = Elements(n, s) \cap T
    BY <1>2, <2>1
  <2> HIDE DEF C
  <2>4. Elements(n + 1, s) = Elements(n, s) \cup {s[n + 1]}
    <3>1. \A k : k \in 1..(n + 1) <=> k \in 1..n \/ k = n + 1
      OBVIOUS
    <3> QED BY <3>1 DEF Elements
  <2>5. CASE s[n + 1] \in T
    <3>1. Range(Append(C(n), s[n + 1])) = Range(C(n)) \cup {s[n + 1]}
      BY <2>2, AppendRange
    <3> QED BY <2>2, <2>3, <2>4, <2>5, <3>1
  <2> QED BY <2>2, <2>3, <2>4, <2>5
<1> HIDE DEF S
<1>3. Nat \subseteq S
  BY <1>1, <1>2, SetInduction
<1> QED BY <1>3 DEF S

-----------------------------------------------------------------------------
(* The circuit and the order in which its gates are visited.               *)
NumGates == Len(Gates)

(* The assumption about the gates, in the terms of the model.              *)
LEMMA GateFacts ==
  ASSUME NEW w \in Wires
  PROVE  /\ Width(w) \in Nat /\ Gates[w].cval \in Int
         /\ Type(w) \in {"kInp", "kAdd", "kConstMul", "kMul", "kDotprod"}
         /\ IsMult(w) <=> Type(w) \in {"kMul", "kDotprod"}
         /\ Type(w) \in {"kAdd", "kConstMul"} => Width(w) = 1 /\ In1(w, 1) \in Wires /\ In1(w, 1) \in Ins(w)
         /\ Type(w) = "kAdd" => In2(w, 1) \in Wires /\ In2(w, 1) \in Ins(w)
         /\ IsMult(w) => \A j \in 1..Width(w) : /\ In1(w, j) \in Wires /\ In2(w, j) \in Wires
                                                /\ In1(w, j) \in Ins(w) /\ In2(w, j) \in Ins(w)
         /\ Ins(w) \subseteq Wires
<1> DEFINE g == Gates[w]
<1>1. /\ g.in1 \in Seq(Wires) /\ g.in2 \in Seq(Wires) /\ g.cval \in Int
      /\ g.type \in {"kInp", "kAdd", "kConstMul", "kMul", "kDotprod"}
      /\ g.type \in {"kAdd", "kConstMul"} => Len(g.in1) = 1
      /\ g.type \in {"kAdd", "kMul", "kDotprod"} => Len(g.in2) = Len(g.in1)
  BY GatesAssumption DEF Type
<1> HIDE DEF g
<1>2. /\ Type(w) = g.type /\ Width(w) = Len(g.in1)
      /\ \A j : In1(w, j) = g.in1[j] /\ In2(w, j) = g.in2[j]
      /\ Ins(w) = Range(g.in1) \cup Range(g.in2)
  BY DEF Type, Width, In1, In2, Ins, g
<1>3. Width(w) \in Nat /\ Gates[w].cval \in Int
  BY <1>1, <1>2 DEF g
<1>4. IsMult(w) <=> Type(w) \in {"kMul", "kDotprod"}
  BY DEF IsMult
<1>5. /\ \A j \in 1..Len(g.in1) : g.in1[j] \in Wires /\ g.in1[j] \in Range(g.in1)
      /\ \A j \in 1..Len(g.in2) : g.in2[j] \in Wires /\ g.in2[j] \in Range(g.in2)
      /\ Range(g.in1) \subseteq Wires /\ Range(g.in2) \subseteq Wires
  BY <1>1 DEF Range
<1>6. Type(w) \in {"kAdd", "kConstMul"} => Width(w) = 1 /\ In1(w, 1) \in Wires /\ In1(w, 1) \in Ins(w)
  BY <1>1, <1>2, <1>5
<1>7. Type(w) = "kAdd" => In2(w, 1) \in Wires /\ In2(w, 1) \in Ins(w)
  BY <1>1, <1>2, <1>5
<1>8. IsMult(w) => Len(g.in2) = Width(w) /\ Len(g.in1) = Width(w)
  BY <1>1, <1>2, <1>4
<1> QED BY <1>1, <1>2, <1>3, <1>4, <1>5, <1>6, <1>7, <1>8

Below(l) == UNION {Range(Layers[k]) : k \in 1..l}
Closed(s) == \A b \in 1..Len(s) : \A w \in Ins(s[b]) : \E a \in 1..(b - 1) : s[a] = w

(* A level appended to an order that has all its inputs is in order.       *)
LEMMA ConcatClosed ==
  ASSUME NEW s \in Seq(Wires), NEW t \in Seq(Wires), Closed(s),
         \A w \in Range(t) : Ins(w) \subseteq Range(s)
  PROVE  /\ s \o t \in Seq(Wires) /\ Range(s \o t) = Range(s) \cup Range(t)
         /\ Closed(s \o t)
<1> DEFINE u == s \o t
           n == Len(s)
<1>1. /\ u \in Seq(Wires) /\ Len(u) = n + Len(t) /\ n \in Nat /\ Len(t) \in Nat
      /\ \A k \in 1..n : u[k] = s[k]
      /\ \A k \in 1..Len(t) : u[n + k] = t[k]
      /\ \A k \in (n + 1)..(n + Len(t)) : u[k] = t[k - n]
      /\ DOMAIN u = 1..(n + Len(t)) /\ DOMAIN s = 1..n /\ DOMAIN t = 1..Len(t)
  OBVIOUS
<1> HIDE DEF u, n
<1>2. Range(u) = Range(s) \cup Range(t)
  <2>1. ASSUME NEW x \in Range(u) PROVE x \in Range(s) \cup Range(t)
    <3>1. PICK k \in 1..(n + Len(t)) : u[k] = x
      BY <1>1 DEF Range
    <3>2. CASE k <= n
      <4>1. k \in 1..n
        BY <1>1, <3>2
      <4> QED BY <1>1, <3>1, <4>1 DEF Range
    <3>3. CASE k > n
      <4>1. k - n \in 1..Len(t) /\ k \in (n + 1)..(n + Len(t))
        BY <1>1, <3>3
      <4> QED BY <1>1, <3>1, <4>1 DEF Range
    <3> QED BY <1>1, <3>2, <3>3
  <2>2. ASSUME NEW x \in Range(s) PROVE x \in Range(u)
    <3>1. PICK k \in 1..n : s[k] = x
      BY <1>1 DEF Range
    <3>2. k \in 1..(n + Len(t))
      BY <1>1
    <3> QED BY <1>1, <3>1, <3>2 DEF Range
  <2>3. ASSUME NEW x \in Range(t) PROVE x \in Range(u)
    <3>1. PICK k \in 1..Len(t) : t[k] = x
      BY <1>1 DEF Range
    <3>2. n + k \in 1..(n + Len(t))
      BY <1>1
    <3> QED BY <1>1, <3>1, <3>2 DEF Range
  <2> QED BY <2>1, <2>2, <2>3
<1>3. ASSUME NEW b \in 1..Len(u), NEW w \in Ins(u[b]) PROVE \E a \in 1..(b - 1) : u[a] = w
  <2>1. CASE b <= n
    <3>1. PICK a \in 1..(b - 1) : s[a] = w
      <4>1. b \in 1..n /\ u[b] = s[b]
        BY <1>1, <2>1
      <4> QED BY <4>1 DEF Closed, n
    <3>2. a \in 1..n
      BY <1>1, <2>1
    <3> QED BY <1>1, <3>1, <3>2
  <2>2. CASE b > n
    <3>1. b - n \in 1..Len(t) /\ b \in (n + 1)..(n + Len(t))
      BY <1>1, <2>2
    <3>2. u[b] \in Range(t)
      BY <1>1, <3>1 DEF Range
    <3>3. PICK a \in 1..n : s[a] = w
      BY <1>1, <3>2 DEF Range
    <3>4. a \in 1..(b - 1)
      BY <1>1, <2>2
    <3> QED BY <1>1, <3>3, <3>4
  <2> QED BY <1>1, <2>1, <2>2
<1> QED BY <1>1, <1>2, <1>3 DEF Closed, u

(* The order in which the loops visit the gates has every gate, its inputs *)
(* first.                                                                  *)
LEMMA OrderClosed == Order \in Seq(Wires) /\ Range(Order) = Wires /\ Closed(Order)
<1> DEFINE L == Len(Layers)
           Fcn(g) == [i \in 1..L |-> IF i = 1 THEN Layers[i] ELSE g[i - 1] \o Layers[i]]
           flat == CHOOSE g : g = Fcn(g)
           G == [z \in (1..(L - 1)) \X Seq(Wires) |-> z[2] \o Layers[z[1] + 1]]
<1>1. L \in Nat /\ L >= 1 /\ (\A l \in 1..L : Layers[l] \in Seq(Wires)) /\ DOMAIN Layers = 1..L
  BY LayersAssumption
<1>2. G \in [(1..(L - 1)) \X Seq(Wires) -> Seq(Wires)]
  <2> HIDE DEF L
  <2> SUFFICES ASSUME NEW k \in 1..(L - 1), NEW x \in Seq(Wires) PROVE x \o Layers[k + 1] \in Seq(Wires)
    OBVIOUS
  <2>1. k + 1 \in 1..L
    BY <1>1
  <2>2. Layers[k + 1] \in Seq(Wires)
    BY <1>1, <2>1
  <2> QED BY <2>2
<1>3. PICK f : Iterates(f, Seq(Wires), Layers[1], L - 1, G)
  <2>1. L - 1 \in Nat /\ Layers[1] \in Seq(Wires)
    BY <1>1
  <2> HIDE DEF G, L
  <2> QED BY <1>2, <2>1, Iteration
<1> DEFINE h == [i \in 1..L |-> f[i - 1]]
<1> HIDE DEF L
<1>4. h = Fcn(h)
  <2>1. f \in [0..(L - 1) -> Seq(Wires)] /\ f[0] = Layers[1] /\ \A k \in 1..(L - 1) : f[k] = G[<<k, f[k - 1]>>]
    BY <1>3 DEF Iterates
  <2>2. ASSUME NEW i \in 1..L, i # 1 PROVE h[i] = h[i - 1] \o Layers[i]
    <3>1. i - 1 \in 1..(L - 1) /\ (i - 1) - 1 \in 0..(L - 1) /\ (i - 1) + 1 = i /\ i - 1 \in 1..L
      BY <1>1, <2>2
    <3>2. f[(i - 1) - 1] \in Seq(Wires)
      BY <2>1, <3>1
    <3>3. f[i - 1] = f[(i - 1) - 1] \o Layers[i]
      <4>1. f[i - 1] = G[<<i - 1, f[(i - 1) - 1]>>]
        BY <2>1, <3>1
      <4> QED BY <3>1, <3>2, <4>1
    <3> QED BY <3>1, <3>3
  <2>3. h[1] = Layers[1]
    BY <1>1, <2>1
  <2>4. \A i \in 1..L : h[i] = IF i = 1 THEN Layers[i] ELSE h[i - 1] \o Layers[i]
    <3> HIDE DEF h
    <3> QED BY <2>2, <2>3
  <2>5. h = [i \in 1..L |-> h[i]]
    OBVIOUS
  <2> HIDE DEF h
  <2> QED BY <2>4, <2>5
<1>5. flat = Fcn(flat)
  <2> HIDE DEF h, Fcn
  <2> QED BY <1>4
<1>6. Order = flat[L]
  <2>1. L # 0
    BY <1>1
  <2> QED BY <2>1 DEF Order, FlattenSeq, L
<1> HIDE DEF flat
<1>7. flat[1] = Layers[1] /\ \A i \in 2..L : flat[i] = flat[i - 1] \o Layers[i]
  <2>1. 1 \in 1..L /\ \A i \in 2..L : i \in 1..L /\ i # 1
    BY <1>1
  <2> QED BY <1>5, <2>1
<1> HIDE DEF Fcn
<1>8. \A l \in 1..L : \A w \in Range(Layers[l]) : Ins(w) \subseteq Below(l - 1)
  BY <1>1, LayersAssumption DEF Below
<1> DEFINE Good(i) == flat[i] \in Seq(Wires) /\ Range(flat[i]) = Below(i) /\ Closed(flat[i])
           S == {n \in Nat : n + 1 <= L => Good(n + 1)}
<1>9. 0 \in S
  <2>1. Below(1) = Range(Layers[1]) /\ Below(0) = {}
    <3>1. 1..1 = {1} /\ 1..0 = {}
      OBVIOUS
    <3> QED BY <3>1 DEF Below
  <2>2. \A b \in 1..Len(Layers[1]) : Layers[1][b] \in Range(Layers[1])
    <3>1. Layers[1] \in Seq(Wires)
      BY <1>1
    <3> QED BY <3>1 DEF Range
  <2>3. \A w \in Range(Layers[1]) : Ins(w) = {}
    BY <1>1, <1>8, <2>1
  <2>4. Closed(Layers[1])
    BY <2>2, <2>3 DEF Closed
  <2>5. Good(1)
    BY <1>1, <1>7, <2>1, <2>4
  <2> QED BY <2>5
<1>10. ASSUME NEW n \in Nat, n \in S PROVE n + 1 \in S
  <2> SUFFICES ASSUME n + 2 <= L PROVE Good(n + 2)
    OBVIOUS
  <2>1. n + 2 \in 2..L /\ n + 2 \in 1..L /\ (n + 2) - 1 = n + 1
    OBVIOUS
  <2>2. Good(n + 1)
    BY <1>10, <1>1
  <2>3. flat[n + 2] = flat[n + 1] \o Layers[n + 2]
    BY <1>7, <2>1
  <2>4. Below(n + 2) = Below(n + 1) \cup Range(Layers[n + 2])
    <3>1. \A k : k \in 1..(n + 2) <=> k \in 1..(n + 1) \/ k = n + 2
      OBVIOUS
    <3> QED BY <3>1 DEF Below
  <2>5. \A w \in Range(Layers[n + 2]) : Ins(w) \subseteq Range(flat[n + 1])
    BY <1>8, <2>1, <2>2
  <2>6. Layers[n + 2] \in Seq(Wires)
    BY <1>1, <2>1
  <2> QED BY <2>2, <2>3, <2>4, <2>5, <2>6, ConcatClosed
<1>11. Nat \subseteq S
  <2> HIDE DEF S
  <2> QED BY <1>9, <1>10, SetInduction
<1>12. Good(L)
  <2>1. L - 1 \in Nat /\ (L - 1) + 1 = L
    BY <1>1
  <2>2. L - 1 \in S
    <3> HIDE DEF S
    <3> QED BY <1>11, <2>1
  <2> HIDE DEF Good
  <2> QED BY <1>1, <2>1, <2>2
<1>13. Below(L) = Wires
  BY <1>1, LayersAssumption DEF Below
<1> QED BY <1>6, <1>12, <1>13

(* It has every gate once: as many entries as gates.                       *)
LEMMA OrderFacts ==
  /\ NumGates \in Nat /\ Len(Order) = NumGates /\ DOMAIN Order = 1..NumGates /\ Wires = 1..NumGates
  /\ \A k \in 1..NumGates : Order[k] \in Wires
  /\ \A w \in Wires : \E k \in 1..NumGates : Order[k] = w
  /\ \A j, k \in 1..NumGates : Order[j] = Order[k] => j = k
  /\ \A b \in 1..NumGates : \A w \in Ins(Order[b]) : \E a \in 1..(b - 1) : Order[a] = w
<1>1. NumGates \in Nat /\ Len(Order) = NumGates /\ Wires = 1..NumGates
  BY LayersAssumption, GatesAssumption DEF NumGates, Wires
<1>2. Order \in Seq(Wires) /\ Range(Order) = Wires /\ Closed(Order)
  BY OrderClosed
<1>3. /\ DOMAIN Order = 1..NumGates /\ Order \in [1..NumGates -> Wires]
      /\ \A w \in Wires : \E k \in 1..NumGates : Order[k] = w
  <2>1. DOMAIN Order = 1..NumGates /\ Order \in [1..NumGates -> Wires]
    BY <1>1, <1>2
  <2> QED BY <1>2, <2>1 DEF Range
<1>4. Order \in Surjection(1..NumGates, Wires)
  BY <1>3 DEF Surjection
<1>5. IsFiniteSet(1..NumGates)
  BY <1>1, FS_Interval
<1>6. Order \in Injection(1..NumGates, Wires)
  BY <1>1, <1>4, <1>5, FS_SurjSameCardinalityImpliesInj
<1>7. \A j, k \in 1..NumGates : Order[j] = Order[k] => j = k
  BY <1>3, <1>6 DEF Injection, IsInjective
<1> QED BY <1>1, <1>2, <1>3, <1>7 DEF Closed

(* Where a gate is in the order.                                           *)
Pos(w) == CHOOSE k \in 1..NumGates : Order[k] = w

(* Every gate has a position in it, behind those of its inputs.            *)
LEMMA PosFacts ==
  /\ \A w \in Wires : Pos(w) \in 1..NumGates /\ Order[Pos(w)] = w
  /\ \A k \in 1..NumGates : Pos(Order[k]) = k
  /\ \A w \in Wires : \A v \in Ins(w) : v \in Wires /\ Pos(v) < Pos(w)
<1>1. \A w \in Wires : Pos(w) \in 1..NumGates /\ Order[Pos(w)] = w
  BY OrderFacts DEF Pos
<1>2. \A k \in 1..NumGates : Pos(Order[k]) = k
  BY <1>1, OrderFacts
<1>3. ASSUME NEW w \in Wires, NEW v \in Ins(w) PROVE v \in Wires /\ Pos(v) < Pos(w)
  <2>1. Pos(w) \in 1..NumGates /\ Order[Pos(w)] = w
    BY <1>1
  <2>2. PICK a \in 1..(Pos(w) - 1) : Order[a] = v
    BY <2>1, OrderFacts
  <2>3. a \in 1..NumGates /\ a < Pos(w)
    BY <2>1, OrderFacts
  <2> QED BY <2>2, <2>3, <1>2, OrderFacts
<1> QED BY <1>1, <1>2, <1>3

(* Induction along the wires.                                              *)
LEMMA WireInduction ==
  ASSUME NEW S, \A w \in Wires : Ins(w) \subseteq S => w \in S
  PROVE  Wires \subseteq S
<1> DEFINE T == {n \in Nat : n \in 1..NumGates => Order[n] \in S}
<1>1. ASSUME NEW n \in Nat, \A k \in Nat : k < n => k \in T PROVE n \in T
  <2> SUFFICES ASSUME n \in 1..NumGates PROVE Order[n] \in S
    OBVIOUS
  <2>1. Order[n] \in Wires
    BY OrderFacts
  <2>2. ASSUME NEW v \in Ins(Order[n]) PROVE v \in S
    <3>1. PICK a \in 1..(n - 1) : Order[a] = v
      BY OrderFacts
    <3>2. a \in Nat /\ a < n /\ a \in 1..NumGates
      BY OrderFacts
    <3>3. a \in T
      BY <1>1, <3>2
    <3> QED BY <3>1, <3>2, <3>3
  <2> QED BY <2>1, <2>2
<1>2. Nat \subseteq T
  <2> HIDE DEF T
  <2> QED BY <1>1, StrongInduction
<1>3. ASSUME NEW w \in Wires PROVE w \in S
  <2>1. Pos(w) \in 1..NumGates /\ Order[Pos(w)] = w
    BY PosFacts
  <2>2. Pos(w) \in Nat
    BY <2>1
  <2>3. Pos(w) \in T
    BY <1>2, <2>2
  <2> QED BY <2>1, <2>3
<1> QED BY <1>3

(* A rule that gives every wire a value from those of the wires it comes   *)
(* from defines the values of all.                                         *)
Obeys(f, G) == \A w \in Wires : f[w] = G[<<w, f>>]
Local(G, X) ==
  \A w \in Wires : \A f, g \in [Wires -> X] :
    (\A v \in Ins(w) : f[v] = g[v]) => G[<<w, f>>] = G[<<w, g>>]

(* A rule that looks at the inputs of a gate only has a solution for all   *)
(* wires.                                                                  *)
LEMMA WireRecursion ==
  ASSUME NEW X, NEW d \in X, NEW G \in [Wires \X [Wires -> X] -> X], Local(G, X)
  PROVE  \E f \in [Wires -> X] : Obeys(f, G)
<1> DEFINE Y == [Wires -> X]
           H == [z \in (1..NumGates) \X Y |->
                   [w \in Wires |-> IF w = Order[z[1]] THEN G[<<w, z[2]>>] ELSE z[2][w]]]
<1>0. \A w \in Wires : \A f \in Y : G[<<w, f>>] \in X
  OBVIOUS
<1>1. H \in [(1..NumGates) \X Y -> Y]
  <2> SUFFICES ASSUME NEW k \in 1..NumGates, NEW f \in Y
               PROVE  [w \in Wires |-> IF w = Order[k] THEN G[<<w, f>>] ELSE f[w]] \in Y
    OBVIOUS
  <2>1. \A w \in Wires : (IF w = Order[k] THEN G[<<w, f>>] ELSE f[w]) \in X
    BY <1>0
  <2> QED BY <2>1
<1> DEFINE f0 == [w \in Wires |-> d]
<1>2. PICK s : Iterates(s, Y, f0, NumGates, H)
  <2>1. f0 \in Y /\ NumGates \in Nat
    BY OrderFacts
  <2> HIDE DEF H, Y, f0
  <2> QED BY <1>1, <2>1, Iteration
<1>3. s \in [0..NumGates -> Y] /\ \A k \in 1..NumGates : s[k] = H[<<k, s[k - 1]>>]
  <2> HIDE DEF H, Y, f0
  <2> QED BY <1>2 DEF Iterates
<1>4. ASSUME NEW k \in 1..NumGates, NEW w \in Wires
      PROVE  s[k][w] = IF w = Order[k] THEN G[<<w, s[k - 1]>>] ELSE s[k - 1][w]
  <2>1. s[k - 1] \in Y
    <3>1. k - 1 \in 0..NumGates
      BY OrderFacts
    <3> QED BY <1>3, <3>1
  <2>2. s[k] = H[<<k, s[k - 1]>>]
    BY <1>3
  <2>3. \A f \in Y : H[<<k, f>>] = [v \in Wires |-> IF v = Order[k] THEN G[<<v, f>>] ELSE f[v]]
    OBVIOUS
  <2>4. s[k] = [v \in Wires |-> IF v = Order[k] THEN G[<<v, s[k - 1]>>] ELSE s[k - 1][v]]
    <3> HIDE DEF H
    <3> QED BY <2>1, <2>2, <2>3
  <2> QED BY <2>4
<1> HIDE DEF H
<1> DEFINE Done(n) == \A j \in 1..n : s[n][Order[j]] = G[<<Order[j], s[n]>>]
           S == {n \in Nat : n <= NumGates => Done(n)}
<1>5. 0 \in S
  OBVIOUS
<1>6. ASSUME NEW n \in Nat, n \in S PROVE n + 1 \in S
  <2> SUFFICES ASSUME n + 1 <= NumGates, NEW j \in 1..(n + 1)
               PROVE  s[n + 1][Order[j]] = G[<<Order[j], s[n + 1]>>]
    OBVIOUS
  <2>1. n + 1 \in 1..NumGates /\ (n + 1) - 1 = n /\ j \in 1..NumGates /\ n \in 0..NumGates /\ n + 1 \in 0..NumGates
    BY OrderFacts
  <2>2. s[n] \in Y /\ s[n + 1] \in Y /\ Order[j] \in Wires
    BY <1>3, <2>1, OrderFacts
  <2>3. ASSUME NEW v \in Ins(Order[j]) PROVE s[n][v] = s[n + 1][v]
    <3>1. PICK a \in 1..(j - 1) : Order[a] = v
      BY <2>1, OrderFacts
    <3>2. a \in 1..NumGates /\ a # n + 1 /\ v \in Wires
      BY <2>1, <3>1, OrderFacts
    <3>3. v # Order[n + 1]
      BY <2>1, <3>1, <3>2, OrderFacts
    <3>4. s[n + 1][v] = s[(n + 1) - 1][v]
      BY <1>4, <2>1, <3>2, <3>3
    <3> QED BY <2>1, <3>4
  <2>4. G[<<Order[j], s[n]>>] = G[<<Order[j], s[n + 1]>>]
    BY <2>2, <2>3 DEF Local
  <2>5. CASE j = n + 1
    BY <1>4, <2>1, <2>2, <2>4, <2>5
  <2>6. CASE j # n + 1
    <3>1. j \in 1..n /\ n <= NumGates
      BY <2>1, <2>6
    <3>2. s[n][Order[j]] = G[<<Order[j], s[n]>>]
      BY <1>6, <3>1
    <3>3. Order[j] # Order[n + 1]
      BY <2>1, <2>6, OrderFacts
    <3>4. s[n + 1][Order[j]] = s[(n + 1) - 1][Order[j]]
      BY <1>4, <2>1, <2>2, <3>3
    <3> QED BY <2>1, <2>4, <3>2, <3>4
  <2> QED BY <2>5, <2>6
<1>7. Nat \subseteq S
  <2> HIDE DEF S
  <2> QED BY <1>5, <1>6, SetInduction
<1>8. Done(NumGates) /\ s[NumGates] \in Y
  <2>1. NumGates \in Nat /\ NumGates \in 0..NumGates
    BY OrderFacts
  <2>2. NumGates \in S
    <3> HIDE DEF S
    <3> QED BY <1>7, <2>1
  <2> HIDE DEF Done, Y
  <2> QED BY <1>3, <2>1, <2>2
<1>9. ASSUME NEW w \in Wires PROVE s[NumGates][w] = G[<<w, s[NumGates]>>]
  <2>1. Pos(w) \in 1..NumGates /\ Order[Pos(w)] = w
    BY PosFacts
  <2> QED BY <1>8, <2>1
<1> QED BY <1>8, <1>9 DEF Obeys

-----------------------------------------------------------------------------
(* What the evaluation is about: the plain values of the wires, ...        *)
PlainRule(x, v, w) ==
  (CASE Type(w) = "kInp"      -> x[w]
     [] Type(w) = "kAdd"      -> v[In1(w, 1)] + v[In2(w, 1)]
     [] Type(w) = "kConstMul" -> v[In1(w, 1)] * Gates[w].cval
     [] OTHER ->
          SumTo(Width(w), [j \in 1..Width(w) |-> v[In1(w, j)] * v[In2(w, j)]])) % Modulus

(* ... the n-th element that a gate draws from stream i, ...               *)
DrawsAt(i, w) ==
  IF Type(w) = "kInp" THEN (IF Owner[w] = i THEN 1 ELSE 0)
  ELSE IF IsMult(w) THEN (IF i < nP THEN 2 ELSE 1) ELSE 0

Drawn(i, k) ==   \* draws from stream i before the k first gates are over
  (IF i = 1 THEN 0 ELSE Len(Outputs)) + SumTo(k, [j \in 1..NumGates |-> DrawsAt(i, Order[j])])

Draw(t, i, w, n) == t[i][Drawn(i, Pos(w) - 1) + n]

(* ... the mask of a wire (p = 0) and p's share of it, ...                 *)
DealtMask(t, w) ==
  (SumTo(nP - 1, [i \in Parties |-> Draw(t, i, w, 2)]) + Draw(t, nP, w, 1)) % Modulus

MaskRule(t, p, v, w) ==
  IF Type(w) = "kAdd" THEN (v[In1(w, 1)] + v[In2(w, 1)]) % Modulus
  ELSE IF Type(w) = "kConstMul" THEN (v[In1(w, 1)] * Gates[w].cval) % Modulus
  ELSE IF Type(w) = "kInp" THEN (IF p \in {0, Owner[w]} THEN Draw(t, Owner[w], w, 1) ELSE 0)
  ELSE IF p = 0 THEN DealtMask(t, w)
  ELSE IF p < nP THEN Draw(t, p, w, 2) ELSE Draw(t, nP, w, 1)

Mask(t, p) == CHOOSE v \in [Wires -> Ring] : \A w \in Wires : v[w] = MaskRule(t, p, v, w)

(* ... the product of the masks and p's share of it, ...                   *)
Product(t, w) ==
  SumTo(Width(w), [j \in 1..Width(w) |-> Mask(t, 0)[In1(w, j)] * Mask(t, 0)[In2(w, j)]])

GammaOf(t, p, w) ==
  IF p < nP THEN Draw(t, p, w, 1)
  ELSE (Product(t, w) - SumTo(nP - 1, [i \in Parties |-> Draw(t, i, w, 1)])) % Modulus

(* ... and its share of zero for an output.                                *)
OtherZeros(t, k) == SumTo(nP, [i \in Parties |-> IF i = 1 THEN 0 ELSE t[i][k]])
ZeroOf(t, p, k) == IF p >= 2 THEN t[p][k] ELSE (0 - OtherZeros(t, k)) % Modulus

-----------------------------------------------------------------------------
(* Facts about the constants that are needed all over.                     *)
LEMMA Basics ==
  /\ nP \in Nat /\ nP >= 2 /\ nP - 1 \in Nat /\ Parties = 1..nP /\ Procs = 0..nP
  /\ nP \in Parties /\ 1 \in Parties /\ \A i \in 1..(nP - 1) : i \in Parties /\ i < nP
  /\ \A r \in Ring : r \in Int /\ r % Modulus = r
  /\ \A a \in Int : a % Modulus \in Ring /\ a % Modulus \in Int
  /\ 0 \in Ring
  /\ \A w \in InputWires : w \in Wires /\ Type(w) = "kInp" /\ Owner[w] \in Parties
  /\ \A w \in Wires : Type(w) = "kInp" => w \in InputWires
<1>1. /\ nP \in Nat /\ nP >= 2 /\ nP - 1 \in Nat /\ Parties = 1..nP /\ Procs = 0..nP
      /\ nP \in Parties /\ 1 \in Parties /\ \A i \in 1..(nP - 1) : i \in Parties /\ i < nP
  BY SemiAssumption DEF Parties
<1>2. \A r \in Ring : r \in Int /\ r % Modulus = r
  BY SameRing
<1>3. \A a \in Int : a % Modulus \in Ring
  BY DivFacts
<1>4. 0 \in Ring
  BY ModulusPositive
<1>5. /\ \A w \in InputWires : w \in Wires /\ Type(w) = "kInp" /\ Owner[w] \in Parties
      /\ \A w \in Wires : Type(w) = "kInp" => w \in InputWires
  BY SemiAssumption DEF InputWires
<1> QED BY <1>1, <1>2, <1>3, <1>4, <1>5

(* There is an output.                                                     *)
LEMMA OutputFacts ==
  /\ Len(Outputs) \in Nat /\ Len(Outputs) >= 1 /\ DOMAIN Outputs = 1..Len(Outputs)
  /\ \A k \in DOMAIN Outputs : Outputs[k] \in Wires
<1>1. Outputs \in Seq(Wires) /\ Outputs # << >>
  BY SemiAssumption
<1> QED BY <1>1

(* The rule of the plain values looks at the inputs of a gate only.        *)
LEMMA PlainRuleFacts ==
  ASSUME NEW x \in InputChoices
  PROVE  /\ \A w \in Wires : \A v \in [Wires -> Ring] : PlainRule(x, v, w) \in Ring
         /\ \A w \in Wires : \A u, v :
              (\A a \in Ins(w) : u[a] = v[a]) => PlainRule(x, u, w) = PlainRule(x, v, w)
<1>1. ASSUME NEW w \in Wires, NEW v \in [Wires -> Ring] PROVE PlainRule(x, v, w) \in Ring
  <2>1. CASE Type(w) = "kInp"
    <3>1. x[w] \in Ring
      BY <2>1, Basics, SemiAssumption
    <3> QED BY <2>1, <3>1, Basics DEF PlainRule
  <2>2. CASE Type(w) = "kAdd"
    <3>1. v[In1(w, 1)] + v[In2(w, 1)] \in Int
      BY <2>2, Basics, GateFacts
    <3> QED BY <2>2, <3>1, Basics DEF PlainRule
  <2>3. CASE Type(w) = "kConstMul"
    <3>1. v[In1(w, 1)] * Gates[w].cval \in Int
      BY <2>3, Basics, GateFacts
    <3> QED BY <2>3, <3>1, Basics DEF PlainRule
  <2>4. CASE IsMult(w)
    <3> DEFINE u == [j \in 1..Width(w) |-> v[In1(w, j)] * v[In2(w, j)]]
    <3>1. IntVector(Width(w), u) /\ Width(w) \in Nat
      BY <2>4, Basics, GateFacts DEF IntVector
    <3>2. PlainRule(x, v, w) = SumTo(Width(w), u) % Modulus
      BY <2>4, GateFacts DEF PlainRule
    <3> HIDE DEF u
    <3>3. SumTo(Width(w), u) \in Int
      BY <3>1, SumFacts
    <3> QED BY <3>2, <3>3, Basics
  <2> QED BY <2>1, <2>2, <2>3, <2>4, GateFacts
<1>2. ASSUME NEW w \in Wires, NEW u, NEW v,
             \A a \in Ins(w) : u[a] = v[a]
      PROVE  PlainRule(x, u, w) = PlainRule(x, v, w)
  <2>1. CASE Type(w) \in {"kInp", "kAdd", "kConstMul"}
    BY <1>2, <2>1, GateFacts DEF PlainRule
  <2>2. CASE IsMult(w)
    <3>1. \A j \in 1..Width(w) : u[In1(w, j)] * u[In2(w, j)] = v[In1(w, j)] * v[In2(w, j)]
      BY <1>2, <2>2, GateFacts
    <3>2. [j \in 1..Width(w) |-> u[In1(w, j)] * u[In2(w, j)]] = [j \in 1..Width(w) |-> v[In1(w, j)] * v[In2(w, j)]]
      BY <3>1
    <3> QED BY <2>2, <3>2, GateFacts DEF PlainRule
  <2> QED BY <2>1, <2>2, GateFacts
<1> QED BY <1>1, <1>2

(* Hence the plain circuit has values: the recursive definition of Plain   *)
(* holds.                                                                  *)
LEMMA PlainFacts ==
  ASSUME inputs \in InputChoices
  PROVE  Plain \in [Wires -> Ring] /\ \A w \in Wires : Plain[w] = PlainRule(inputs, Plain, w)
<1> DEFINE G == [z \in Wires \X [Wires -> Ring] |-> PlainRule(inputs, z[2], z[1])]
           Fcn(f) == [w \in Wires |-> PlainRule(inputs, f, w)]
           v == CHOOSE f : f = Fcn(f)
<1>1. G \in [Wires \X [Wires -> Ring] -> Ring]
  BY PlainRuleFacts
<1>2. \A w \in Wires : \A f \in [Wires -> Ring] : G[<<w, f>>] = PlainRule(inputs, f, w)
  OBVIOUS
<1>3. Local(G, Ring)
  <2> HIDE DEF G
  <2> QED BY <1>2, PlainRuleFacts DEF Local
<1>4. PICK f \in [Wires -> Ring] : Obeys(f, G)
  <2> HIDE DEF G
  <2> QED BY <1>1, <1>3, Basics, WireRecursion
<1>5. f = Fcn(f)
  <2> HIDE DEF G
  <2>1. \A w \in Wires : f[w] = PlainRule(inputs, f, w)
    BY <1>2, <1>4 DEF Obeys
  <2> QED BY <2>1
<1>6. v = Fcn(v)
  <2> HIDE DEF Fcn
  <2> QED BY <1>5
<1>7. Plain = v
  BY DEF Plain, PlainRule
<1> HIDE DEF v
<1>8. v = [w \in Wires |-> v[w]] /\ \A w \in Wires : v[w] = PlainRule(inputs, v, w)
  BY <1>6
<1>9. v = f
  <2> DEFINE S == {w \in Wires : v[w] = f[w]}
  <2>1. ASSUME NEW w \in Wires, Ins(w) \subseteq S PROVE w \in S
    <3>1. PlainRule(inputs, v, w) = PlainRule(inputs, f, w)
      BY <2>1, PlainRuleFacts
    <3>2. f[w] = PlainRule(inputs, f, w)
      BY <1>2, <1>4 DEF Obeys
    <3> QED BY <1>8, <3>1, <3>2
  <2>2. Wires \subseteq S
    <3> HIDE DEF S
    <3> QED BY <2>1, WireInduction
  <2>3. \A w \in Wires : v[w] = f[w]
    BY <2>2
  <2> HIDE DEF S
  <2>4. f = [w \in Wires |-> f[w]]
    OBVIOUS
  <2> QED BY <1>8, <2>3, <2>4
<1> QED BY <1>7, <1>8, <1>9

(* Every gate draws its own stretch of each stream.                        *)
LEMMA DrawnFacts ==
  ASSUME NEW i \in Parties
  PROVE  /\ \A w \in Wires : DrawsAt(i, w) \in 0..2
         /\ \A k \in 0..NumGates : Drawn(i, k) \in Nat /\ Drawn(i, k) <= Len(Outputs) + 2 * k
         /\ \A k \in 1..NumGates : Drawn(i, k) = Drawn(i, k - 1) + DrawsAt(i, Order[k])
         /\ Drawn(i, 0) = IF i = 1 THEN 0 ELSE Len(Outputs)
<1> DEFINE v == [j \in 1..NumGates |-> DrawsAt(i, Order[j])]
           base == IF i = 1 THEN 0 ELSE Len(Outputs)
<1>1. \A w \in Wires : DrawsAt(i, w) \in 0..2
  BY DEF DrawsAt
<1>2. IntVector(NumGates, v) /\ NumGates \in Nat /\ \A k \in 1..NumGates : v[k] \in 0..2 /\ v[k] = DrawsAt(i, Order[k])
  <2>1. NumGates \in Nat
    BY OrderFacts
  <2>2. ASSUME NEW k \in 1..NumGates PROVE v[k] \in 0..2 /\ v[k] = DrawsAt(i, Order[k])
    <3>1. Order[k] \in Wires
      BY OrderFacts
    <3> QED BY <1>1, <3>1
  <2> HIDE DEF v
  <2> QED BY <2>1, <2>2 DEF IntVector
<1>3. Len(Outputs) \in Nat
  BY OutputFacts
<1>4. \A k : Drawn(i, k) = base + SumTo(k, v)
  BY DEF Drawn
<1> HIDE DEF v
<1>5. \A k \in 1..NumGates : Drawn(i, k) = Drawn(i, k - 1) + DrawsAt(i, Order[k])
  <2> TAKE k \in 1..NumGates
  <2>1. SumTo(k, v) = SumTo(k - 1, v) + v[k] /\ k - 1 \in 0..NumGates
    BY <1>2, SumFacts
  <2>2. SumTo(k - 1, v) \in Int /\ v[k] \in Int
    BY <1>2, <2>1, SumFacts
  <2> QED BY <1>2, <1>3, <1>4, <2>1, <2>2
<1>6. Drawn(i, 0) = base
  BY <1>2, <1>3, <1>4, SumFacts
<1> DEFINE S == {k \in Nat : k <= NumGates => Drawn(i, k) \in Nat /\ Drawn(i, k) <= Len(Outputs) + 2 * k}
<1>7. 0 \in S
  BY <1>3, <1>6
<1>8. ASSUME NEW k \in Nat, k \in S PROVE k + 1 \in S
  <2> SUFFICES ASSUME k + 1 <= NumGates
               PROVE Drawn(i, k + 1) \in Nat /\ Drawn(i, k + 1) <= Len(Outputs) + 2 * (k + 1)
    OBVIOUS
  <2>1. k + 1 \in 1..NumGates /\ (k + 1) - 1 = k
    BY <1>2
  <2>2. Drawn(i, k) \in Nat /\ Drawn(i, k) <= Len(Outputs) + 2 * k
    BY <1>8, <1>2
  <2>3. DrawsAt(i, Order[k + 1]) \in 0..2
    BY <1>1, <2>1, OrderFacts
  <2>4. Drawn(i, k + 1) = Drawn(i, k) + DrawsAt(i, Order[k + 1])
    BY <1>5, <2>1
  <2> QED BY <1>3, <2>2, <2>3, <2>4
<1>9. Nat \subseteq S
  <2> HIDE DEF S
  <2> QED BY <1>7, <1>8, SetInduction
<1> QED BY <1>1, <1>5, <1>6, <1>9, <1>2

(* The streams are long enough for what a loop over all gates draws.       *)
LEMMA TapeFacts ==
  ASSUME NEW t \in Tapes, NEW i \in Parties
  PROVE  /\ \A n \in 1..(Len(Outputs) + 2 * NumGates) : t[i][n] \in Ring
         /\ \A k \in DOMAIN Outputs : t[i][k] \in Ring
<1>1. t[i] \in Seq(Ring) /\ Len(t[i]) >= Len(Outputs) + 2 * NumGates
  BY TapesAssumption DEF NumGates
<1>2. DOMAIN Outputs = 1..Len(Outputs) /\ Len(Outputs) \in Nat /\ NumGates \in Nat
  BY OutputFacts, OrderFacts
<1>3. \A n \in 1..Len(t[i]) : t[i][n] \in Ring
  BY <1>1
<1>4. \A n \in 1..(Len(Outputs) + 2 * NumGates) : n \in 1..Len(t[i])
  BY <1>1, <1>2
<1>5. \A k \in 1..Len(Outputs) : k \in 1..(Len(Outputs) + 2 * NumGates)
  BY <1>2
<1> QED BY <1>2, <1>3, <1>4, <1>5

(* Every draw is an element of the ring.                                   *)
LEMMA DrawFacts ==
  ASSUME NEW t \in Tapes, NEW i \in Parties, NEW w \in Wires, NEW n \in 1..DrawsAt(i, w)
  PROVE  Draw(t, i, w, n) \in Ring
<1>1. Pos(w) \in 1..NumGates /\ Order[Pos(w)] = w
  BY PosFacts
<1>2. Pos(w) - 1 \in 0..NumGates /\ Pos(w) \in 0..NumGates /\ NumGates \in Nat /\ Len(Outputs) \in Nat
  <2>1. NumGates \in Nat
    BY OrderFacts
  <2> QED BY <1>1, <2>1, OutputFacts
<1>3. /\ Drawn(i, Pos(w) - 1) \in Nat
      /\ Drawn(i, Pos(w)) = Drawn(i, Pos(w) - 1) + DrawsAt(i, w)
      /\ Drawn(i, Pos(w)) <= Len(Outputs) + 2 * Pos(w)
  BY <1>1, <1>2, DrawnFacts
<1>4. DrawsAt(i, w) \in 0..2
  BY DrawnFacts
<1>5. Drawn(i, Pos(w) - 1) + n \in 1..(Len(Outputs) + 2 * NumGates)
  BY <1>1, <1>2, <1>3, <1>4
<1> QED BY <1>5, TapeFacts DEF Draw

(* The values a gate draws.                                                *)
LEMMA MultDraws ==
  ASSUME NEW t \in Tapes, NEW w \in Wires
  PROVE  /\ IsMult(w) => /\ \A i \in 1..(nP - 1) : Draw(t, i, w, 1) \in Ring /\ Draw(t, i, w, 2) \in Ring
                         /\ Draw(t, nP, w, 1) \in Ring
                         /\ IntVector(nP - 1, [i \in Parties |-> Draw(t, i, w, 1)])
                         /\ IntVector(nP - 1, [i \in Parties |-> Draw(t, i, w, 2)])
         /\ Type(w) = "kInp" => Draw(t, Owner[w], w, 1) \in Ring
<1>1. ASSUME IsMult(w), NEW i \in 1..(nP - 1)
      PROVE  Draw(t, i, w, 1) \in Ring /\ Draw(t, i, w, 2) \in Ring
  <2>1. DrawsAt(i, w) = 2 /\ i \in Parties
    BY <1>1, Basics, GateFacts DEF DrawsAt
  <2> QED BY <2>1, DrawFacts
<1>2. ASSUME IsMult(w) PROVE Draw(t, nP, w, 1) \in Ring
  <2>1. DrawsAt(nP, w) = 1 /\ nP \in Parties
    BY <1>2, Basics, GateFacts DEF DrawsAt
  <2> QED BY <2>1, DrawFacts
<1>3. ASSUME Type(w) = "kInp" PROVE Draw(t, Owner[w], w, 1) \in Ring
  <2>1. DrawsAt(Owner[w], w) = 1 /\ Owner[w] \in Parties
    BY <1>3, Basics DEF DrawsAt
  <2> QED BY <2>1, DrawFacts
<1>4. ASSUME IsMult(w), NEW n \in 1..2 PROVE IntVector(nP - 1, [i \in Parties |-> Draw(t, i, w, n)])
  <2>1. \A i \in 1..(nP - 1) : i \in Parties /\ Draw(t, i, w, n) \in Int
    <3>1. n = 1 \/ n = 2
      OBVIOUS
    <3> QED BY <1>1, <1>4, <3>1, Basics
  <2> QED BY <2>1 DEF IntVector
<1> QED BY <1>1, <1>2, <1>3, <1>4

(* The rule of the masks looks at the inputs of a gate only.               *)
LEMMA MaskRuleFacts ==
  ASSUME NEW t \in Tapes, NEW p \in Procs
  PROVE  /\ \A w \in Wires : \A v \in [Wires -> Ring] : MaskRule(t, p, v, w) \in Ring
         /\ \A w \in Wires : \A u, v :
              (\A a \in Ins(w) : u[a] = v[a]) => MaskRule(t, p, u, w) = MaskRule(t, p, v, w)
<1>1. ASSUME NEW w \in Wires, NEW v \in [Wires -> Ring] PROVE MaskRule(t, p, v, w) \in Ring
  <2>1. CASE Type(w) = "kInp"
    BY <2>1, Basics, MultDraws DEF MaskRule
  <2>2. CASE Type(w) = "kAdd"
    <3>1. v[In1(w, 1)] + v[In2(w, 1)] \in Int
      BY <2>2, Basics, GateFacts
    <3> QED BY <2>2, <3>1, Basics DEF MaskRule
  <2>3. CASE Type(w) = "kConstMul"
    <3>1. v[In1(w, 1)] * Gates[w].cval \in Int
      BY <2>3, Basics, GateFacts
    <3> QED BY <2>3, <3>1, Basics DEF MaskRule
  <2>4. CASE IsMult(w)
    <3>1. DealtMask(t, w) \in Ring
      <4> DEFINE u == [i \in Parties |-> Draw(t, i, w, 2)]
      <4>1. IntVector(nP - 1, u) /\ nP - 1 \in Nat
        BY <2>4, MultDraws, Basics
      <4> HIDE DEF u
      <4>2. SumTo(nP - 1, u) \in Int
        BY <4>1, SumFacts
      <4>3. Draw(t, nP, w, 1) \in Int
        BY <2>4, MultDraws, Basics
      <4>5. SumTo(nP - 1, u) + Draw(t, nP, w, 1) \in Int
        BY <4>2, <4>3
      <4> QED BY <4>5, Basics DEF DealtMask, u
    <3>2. p # 0 /\ p < nP => Draw(t, p, w, 2) \in Ring
      <4>1. p # 0 /\ p < nP => p \in 1..(nP - 1)
        BY Basics
      <4> QED BY <2>4, <4>1, MultDraws
    <3>3. MaskRule(t, p, v, w) = IF p = 0 THEN DealtMask(t, w)
                                 ELSE IF p < nP THEN Draw(t, p, w, 2) ELSE Draw(t, nP, w, 1)
      BY <2>4, GateFacts DEF MaskRule
    <3> QED BY <2>4, <3>1, <3>2, <3>3, MultDraws
  <2> QED BY <2>1, <2>2, <2>3, <2>4, GateFacts
<1>2. ASSUME NEW w \in Wires, NEW u, NEW v, \A a \in Ins(w) : u[a] = v[a]
      PROVE  MaskRule(t, p, u, w) = MaskRule(t, p, v, w)
  BY <1>2, GateFacts DEF MaskRule
<1> QED BY <1>1, <1>2

(* Hence the masks that the setup's loops compute exist.                   *)
LEMMA MaskFacts ==
  ASSUME NEW t \in Tapes, NEW p \in Procs
  PROVE  /\ Mask(t, p) \in [Wires -> Ring]
         /\ \A w \in Wires : Mask(t, p)[w] = MaskRule(t, p, Mask(t, p), w) /\ Mask(t, p)[w] \in Int
<1> DEFINE G == [z \in Wires \X [Wires -> Ring] |-> MaskRule(t, p, z[2], z[1])]
<1>1. G \in [Wires \X [Wires -> Ring] -> Ring]
  BY MaskRuleFacts
<1>2. \A w \in Wires : \A f \in [Wires -> Ring] : G[<<w, f>>] = MaskRule(t, p, f, w)
  OBVIOUS
<1>3. Local(G, Ring)
  <2> HIDE DEF G
  <2> QED BY <1>2, MaskRuleFacts DEF Local
<1>4. PICK f \in [Wires -> Ring] : Obeys(f, G)
  <2> HIDE DEF G
  <2> QED BY <1>1, <1>3, Basics, WireRecursion
<1>5. \A w \in Wires : f[w] = MaskRule(t, p, f, w)
  <2> HIDE DEF G
  <2> QED BY <1>2, <1>4 DEF Obeys
<1>6. /\ Mask(t, p) \in [Wires -> Ring]
      /\ \A w \in Wires : Mask(t, p)[w] = MaskRule(t, p, Mask(t, p), w)
  BY <1>5 DEF Mask
<1> QED BY <1>6, Basics

(* The parties' shares of a mask sum to it.                                *)
MaskShares(t, w) == [p \in Parties |-> Mask(t, p)[w]]

(* The parties' shares of a mask sum to the mask the dealer knows: for     *)
(* drawn masks by the dealer's sum, for linear gates by induction over the *)
(* wires.                                                                  *)
LEMMA MaskSum ==
  ASSUME NEW t \in Tapes
  PROVE  \A w \in Wires : IntVector(nP, MaskShares(t, w)) /\ Same(SumTo(nP, MaskShares(t, w)), Mask(t, 0)[w])
<1>0. \A p \in Parties : p \in Procs /\ p # 0 /\ 0 \in Procs
  BY Basics
<1>1. ASSUME NEW w \in Wires
      PROVE  /\ IntVector(nP, MaskShares(t, w)) /\ Mask(t, 0)[w] \in Int
             /\ \A p \in 1..nP : MaskShares(t, w)[p] = Mask(t, p)[w] /\ Mask(t, p)[w] \in Ring
  BY <1>0, MaskFacts, Basics DEF MaskShares, IntVector
<1> DEFINE S == {w \in Wires : Same(SumTo(nP, MaskShares(t, w)), Mask(t, 0)[w])}
<1>2. ASSUME NEW w \in Wires, Ins(w) \subseteq S PROVE w \in S
  <2> DEFINE v == MaskShares(t, w)
             s == Mask(t, 0)[w]
  <2>0. /\ IntVector(nP, v) /\ nP \in Nat /\ s \in Int
        /\ \A p \in 1..nP : v[p] = Mask(t, p)[w] /\ p \in Parties
        /\ \A p \in Parties : Mask(t, p)[w] = MaskRule(t, p, Mask(t, p), w)
        /\ s = MaskRule(t, 0, Mask(t, 0), w)
    BY <1>0, <1>1, Basics, MaskFacts
  <2> SUFFICES Same(SumTo(nP, v), s)
    OBVIOUS
  <2> HIDE DEF v, s
  <2>1. CASE Type(w) = "kInp"
    <3>1. Owner[w] \in 1..nP /\ Draw(t, Owner[w], w, 1) \in Int
      BY <2>1, Basics, MultDraws
    <3>2. \A p \in 1..nP : v[p] = IF p = Owner[w] THEN Draw(t, Owner[w], w, 1) ELSE 0
      BY <1>0, <2>0, <2>1 DEF MaskRule
    <3>3. s = Draw(t, Owner[w], w, 1)
      BY <2>0, <2>1 DEF MaskRule
    <3>4. SumTo(nP, v) = s
      BY <2>0, <3>1, <3>2, <3>3, SumSingle
    <3> QED BY <3>4 DEF Same
  <2>2. CASE Type(w) = "kAdd"
    <3> DEFINE a == In1(w, 1)
               b == In2(w, 1)
               u == [p \in 1..nP |-> Mask(t, p)[a] + Mask(t, p)[b]]
               va == MaskShares(t, a)
               vb == MaskShares(t, b)
               sa == Mask(t, 0)[a]
               sb == Mask(t, 0)[b]
    <3>1. a \in Wires /\ b \in Wires /\ a \in S /\ b \in S
      BY <1>2, <2>2, GateFacts
    <3>2. /\ IntVector(nP, va) /\ IntVector(nP, vb) /\ sa \in Int /\ sb \in Int
          /\ \A p \in 1..nP : u[p] = va[p] + vb[p]
          /\ Same(SumTo(nP, va), sa) /\ Same(SumTo(nP, vb), sb)
      BY <1>1, <3>1
    <3>3. \A p \in 1..nP : v[p] = u[p] % Modulus
      BY <2>0, <2>2 DEF MaskRule
    <3>4. s = (sa + sb) % Modulus
      BY <2>0, <2>2 DEF MaskRule
    <3> HIDE DEF va, vb, u, sa, sb, S
    <3>5. SumTo(nP, u) = SumTo(nP, va) + SumTo(nP, vb) /\ IntVector(nP, u)
      BY <2>0, <3>2, SumAdd
    <3>6. \A p \in 1..nP : Same(v[p], u[p])
      BY <3>3, <3>5, SameMod DEF IntVector
    <3>7. Same(SumTo(nP, v), SumTo(nP, u))
      BY <2>0, <3>5, <3>6, SumSameMod
    <3>8. SumTo(nP, va) \in Int /\ SumTo(nP, vb) \in Int
      BY <2>0, <3>2, SumFacts
    <3>9. Same(SumTo(nP, va) + SumTo(nP, vb), sa + sb) /\ sa + sb \in Int
      BY <3>2, <3>8, SameOps
    <3>10. Same((sa + sb) % Modulus, sa + sb)
      BY <3>9, SameMod
    <3> QED BY <3>4, <3>5, <3>7, <3>9, <3>10 DEF Same
  <2>3. CASE Type(w) = "kConstMul"
    <3> DEFINE a == In1(w, 1)
               c == Gates[w].cval
               u == [p \in 1..nP |-> c * Mask(t, p)[a]]
               va == MaskShares(t, a)
               sa == Mask(t, 0)[a]
    <3>1. a \in Wires /\ a \in S /\ c \in Int
      BY <1>2, <2>3, GateFacts
    <3>2. /\ IntVector(nP, va) /\ sa \in Int
          /\ \A p \in 1..nP : u[p] = c * va[p] /\ Mask(t, p)[a] \in Int
          /\ Same(SumTo(nP, va), sa)
      BY <1>1, <3>1, Basics
    <3>3. \A p \in 1..nP : v[p] = u[p] % Modulus
      <4> TAKE p \in 1..nP
      <4>1. v[p] = (Mask(t, p)[a] * c) % Modulus
        BY <2>0, <2>3 DEF MaskRule
      <4>2. Mask(t, p)[a] * c = c * Mask(t, p)[a]
        BY <3>1, <3>2
      <4> QED BY <4>1, <4>2
    <3>4. s = (c * sa) % Modulus
      <4>1. s = (sa * c) % Modulus
        BY <2>0, <2>3 DEF MaskRule
      <4>2. sa * c = c * sa
        BY <3>1, <3>2
      <4> QED BY <4>1, <4>2
    <3> HIDE DEF va, u, sa, S, c
    <3>5. SumTo(nP, u) = c * SumTo(nP, va) /\ IntVector(nP, u)
      BY <2>0, <3>1, <3>2, SumScale
    <3>6. \A p \in 1..nP : Same(v[p], u[p])
      BY <3>3, <3>5, SameMod DEF IntVector
    <3>7. Same(SumTo(nP, v), SumTo(nP, u))
      BY <2>0, <3>5, <3>6, SumSameMod
    <3>8. SumTo(nP, va) \in Int
      BY <2>0, <3>2, SumFacts
    <3>9. Same(c * SumTo(nP, va), c * sa) /\ c * sa \in Int
      <4>1. Same(c, c)
        BY DEF Same
      <4> QED BY <3>1, <3>2, <3>8, <4>1, SameOps
    <3>10. Same((c * sa) % Modulus, c * sa)
      BY <3>9, SameMod
    <3> QED BY <3>4, <3>5, <3>7, <3>9, <3>10 DEF Same
  <2>4. CASE IsMult(w)
    <3> DEFINE u == [i \in Parties |-> Draw(t, i, w, 2)]
               last == Draw(t, nP, w, 1)
    <3>1. \A p \in 1..nP : v[p] = IF p < nP THEN u[p] ELSE last
      BY <1>0, <2>0, <2>4, GateFacts DEF MaskRule
    <3>2. s = DealtMask(t, w)
      BY <2>0, <2>4, GateFacts DEF MaskRule
    <3>3. s = (SumTo(nP - 1, u) + last) % Modulus /\ IntVector(nP - 1, u) /\ last \in Int
      BY <2>4, <3>2, MultDraws, Basics DEF DealtMask
    <3> HIDE DEF u, last
    <3>4. SumTo(nP - 1, u) = SumTo(nP - 1, v)
      <4>1. \A p \in 1..(nP - 1) : u[p] = v[p]
        BY <3>1, Basics
      <4> QED BY <3>3, <4>1, Basics, SumSame
    <3>5. SumTo(nP, v) = SumTo(nP - 1, v) + v[nP]
      BY <2>0, Basics, SumFacts
    <3>6. v[nP] = last
      BY <3>1, Basics
    <3>7. SumTo(nP - 1, u) \in Int
      BY <3>3, Basics, SumFacts
    <3>8. Same((SumTo(nP - 1, u) + last) % Modulus, SumTo(nP - 1, u) + last)
      BY <3>3, <3>7, SameMod
    <3> QED BY <3>3, <3>4, <3>5, <3>6, <3>8 DEF Same
  <2> QED BY <2>1, <2>2, <2>3, <2>4, GateFacts
<1>3. Wires \subseteq S
  <2> HIDE DEF S
  <2> QED BY <1>2, WireInduction
<1> QED BY <1>1, <1>3

(* The shares of a product of masks sum to it, those of zero to zero.      *)
GammaShares(t, w) == [p \in Parties |-> GammaOf(t, p, w)]
ZeroShares(t, k) == [p \in Parties |-> ZeroOf(t, p, k)]

(* The product of two masks is a number.                                   *)
LEMMA ProductFacts ==
  ASSUME NEW t \in Tapes, NEW w \in Wires, IsMult(w)
  PROVE  /\ \A p \in Procs : \A j \in 1..Width(w) : /\ Mask(t, p)[In1(w, j)] \in Int
                                                    /\ Mask(t, p)[In2(w, j)] \in Int
         /\ IntVector(Width(w), [j \in 1..Width(w) |-> Mask(t, 0)[In1(w, j)] * Mask(t, 0)[In2(w, j)]])
         /\ Product(t, w) \in Int
<1>0. 0 \in Procs /\ Width(w) \in Nat
  BY Basics, GateFacts
<1>1. ASSUME NEW p \in Procs, NEW j \in 1..Width(w)
      PROVE  Mask(t, p)[In1(w, j)] \in Int /\ Mask(t, p)[In2(w, j)] \in Int
  BY GateFacts, MaskFacts
<1> DEFINE u == [j \in 1..Width(w) |-> Mask(t, 0)[In1(w, j)] * Mask(t, 0)[In2(w, j)]]
<1>2. IntVector(Width(w), u)
  BY <1>0, <1>1 DEF IntVector
<1>3. Product(t, w) = SumTo(Width(w), u)
  BY DEF Product
<1> HIDE DEF u
<1>4. Product(t, w) \in Int
  BY <1>0, <1>2, <1>3, SumFacts
<1> QED BY <1>1, <1>2, <1>4 DEF u

(* What is sent to party nP completes the drawn shares of a product of     *)
(* masks.                                                                  *)
LEMMA GammaSum ==
  ASSUME NEW t \in Tapes, NEW w \in Wires, IsMult(w)
  PROVE  /\ \A p \in Parties : GammaOf(t, p, w) \in Ring
         /\ IntVector(nP, GammaShares(t, w))
         /\ Same(SumTo(nP, GammaShares(t, w)), Product(t, w))
<1> DEFINE u == [i \in Parties |-> Draw(t, i, w, 1)]
           g == GammaShares(t, w)
           s == SumTo(nP - 1, u)
           d == Product(t, w) - s
<1>1. IntVector(nP - 1, u) /\ \A i \in 1..(nP - 1) : u[i] \in Ring
  BY MultDraws, Basics
<1>2. s \in Int /\ d \in Int
  <2> HIDE DEF u
  <2>1. s \in Int
    BY <1>1, Basics, SumFacts
  <2>2. Product(t, w) \in Int
    BY ProductFacts
  <2> HIDE DEF s
  <2> QED BY <2>1, <2>2
<1>3. \A p \in 1..nP : g[p] = GammaOf(t, p, w) /\ g[p] = IF p < nP THEN u[p] ELSE d % Modulus
  BY Basics DEF GammaShares, GammaOf
<1> HIDE DEF u, g, s, d
<1>4. d % Modulus \in Ring
  BY <1>2, Basics
<1>5. \A p \in 1..nP : g[p] \in Ring
  <2> TAKE p \in 1..nP
  <2>1. p < nP => p \in 1..(nP - 1)
    BY Basics
  <2> QED BY <1>1, <1>3, <1>4, <2>1
<1>6. IntVector(nP, g)
  BY <1>5, Basics DEF IntVector
<1>7. SumTo(nP - 1, u) = SumTo(nP - 1, g)
  <2>1. \A p \in 1..(nP - 1) : u[p] = g[p]
    BY <1>3, Basics
  <2> QED BY <1>1, <2>1, Basics, SumSame
<1>8. SumTo(nP, g) = SumTo(nP - 1, g) + g[nP]
  BY <1>6, Basics, SumFacts
<1>9. SumTo(nP, g) = s + (d % Modulus)
  BY <1>3, <1>7, <1>8, Basics DEF s
<1>10. Same(d % Modulus, d) /\ d % Modulus \in Int /\ Same(s, s)
  BY <1>2, SameMod DEF Same
<1>11. Same(s + (d % Modulus), s + d)
  BY <1>2, <1>10, SameOps
<1>12. s + d = Product(t, w)
  <2>1. Product(t, w) \in Int
    BY ProductFacts
  <2>2. d = Product(t, w) - s
    BY DEF d
  <2> QED BY <1>2, <2>1, <2>2
<1> QED BY <1>3, <1>5, <1>6, <1>9, <1>11, <1>12, Basics DEF g

(* What is sent to party 1 completes the drawn shares of zero.             *)
LEMMA ZeroSum ==
  ASSUME NEW t \in Tapes, NEW k \in DOMAIN Outputs
  PROVE  /\ \A p \in Procs : ZeroOf(t, p, k) \in Ring
         /\ IntVector(nP, ZeroShares(t, k))
         /\ Same(SumTo(nP, ZeroShares(t, k)), 0)
<1> DEFINE u == [i \in Parties |-> IF i = 1 THEN 0 ELSE t[i][k]]
           z == ZeroShares(t, k)
           s == SumTo(nP, u)
           e == (0 - s) % Modulus
           first == [i \in Parties |-> IF i = 1 THEN e ELSE 0]
<1>1. IntVector(nP, u) /\ \A i \in Parties : t[i][k] \in Ring
  <2>1. \A i \in Parties : t[i][k] \in Ring /\ t[i][k] \in Int
    BY TapeFacts, Basics
  <2> QED BY <2>1, Basics DEF IntVector
<1>2. s \in Int /\ 0 - s \in Int
  <2> HIDE DEF u
  <2>1. s \in Int
    BY <1>1, Basics, SumFacts
  <2> HIDE DEF s
  <2> QED BY <2>1
<1>3. e \in Ring /\ e \in Int /\ Same(e, 0 - s)
  <2> HIDE DEF s
  <2> QED BY <1>2, Basics, SameMod
<1>4. \A p \in Procs : ZeroOf(t, p, k) = IF p >= 2 THEN t[p][k] ELSE e
  BY DEF ZeroOf, OtherZeros
<1>5. \A p \in 1..nP : z[p] = IF p = 1 THEN e ELSE t[p][k]
  BY <1>4, Basics DEF ZeroShares
<1>6. \A p \in 1..nP : z[p] = u[p] + first[p]
  <2> HIDE DEF e, z
  <2>1. \A p \in 1..nP : p \in Parties /\ t[p][k] \in Int
    BY <1>1, Basics
  <2> QED BY <1>3, <1>5, <2>1
<1>7. \A p \in 1..nP : first[p] = IF p = 1 THEN e ELSE 0
  BY Basics
<1> HIDE DEF z, u, first, e, s
<1>8. SumTo(nP, first) = e /\ IntVector(nP, first)
  <2>1. 1 \in 1..nP
    BY Basics
  <2> QED BY <1>3, <1>7, <2>1, Basics, SumSingle
<1>9. SumTo(nP, z) = s + e /\ IntVector(nP, z)
  BY <1>1, <1>6, <1>8, Basics, SumAdd DEF s
<1>10. Same(s + e, s + (0 - s)) /\ s + (0 - s) = 0
  <2>1. Same(s, s)
    BY DEF Same
  <2> QED BY <1>2, <1>3, <2>1, SameOps
<1>11. \A p \in Procs : ZeroOf(t, p, k) \in Ring
  <2> TAKE p \in Procs
  <2>1. p >= 2 => p \in Parties
    BY Basics
  <2> QED BY <1>1, <1>3, <1>4, <2>1
<1> QED BY <1>9, <1>10, <1>11 DEF z

-----------------------------------------------------------------------------
(* Masked values: what all parties hold of a wire once it is evaluated.    *)
MaskedOf(t, v, w) == (v[w] - Mask(t, 0)[w]) % Modulus

(* v are the plain values of the wires for the inputs x.                   *)
PlainValues(x, v) == v \in [Wires -> Ring] /\ \A w \in Wires : v[w] = PlainRule(x, v, w)

(* A masked value and the mask give the value.                             *)
LEMMA MaskedFacts ==
  ASSUME NEW t \in Tapes, NEW x \in InputChoices, NEW v, PlainValues(x, v), NEW w \in Wires
  PROVE  /\ MaskedOf(t, v, w) \in Ring /\ MaskedOf(t, v, w) \in Int
         /\ v[w] \in Ring /\ v[w] \in Int /\ Mask(t, 0)[w] \in Int
         /\ Same(MaskedOf(t, v, w), v[w] - Mask(t, 0)[w])
         /\ (MaskedOf(t, v, w) + Mask(t, 0)[w]) % Modulus = v[w]
<1> DEFINE d == MaskedOf(t, v, w)
           a == v[w]
           b == Mask(t, 0)[w]
<1>1. a \in Ring /\ a \in Int /\ a % Modulus = a /\ b \in Int
  <2>1. 0 \in Procs
    BY Basics
  <2> QED BY <2>1, MaskFacts, Basics DEF PlainValues
<1>2. d = (a - b) % Modulus
  BY DEF MaskedOf
<1> HIDE DEF a, b, d
<1>3. a - b \in Int
  BY <1>1
<1>4. d \in Ring /\ d \in Int /\ Same(d, a - b)
  BY <1>2, <1>3, Basics, SameMod
<1>5. Same(d + b, (a - b) + b)
  <2>1. Same(b, b)
    BY DEF Same
  <2> QED BY <1>1, <1>3, <1>4, <2>1, SameOps
<1>6. (a - b) + b = a
  BY <1>1
<1>7. (d + b) % Modulus = a
  BY <1>1, <1>5, <1>6 DEF Same
<1> QED BY <1>1, <1>4, <1>7 DEF a, b, d

(* A residue is determined by what it is congruent to.                     *)
LEMMA SameMasked ==
  ASSUME NEW t \in Tapes, NEW x \in InputChoices, NEW v, PlainValues(x, v), NEW w \in Wires,
         NEW a \in Int, Same(a, v[w] - Mask(t, 0)[w])
  PROVE  a % Modulus = MaskedOf(t, v, w)
BY DEF Same, MaskedOf

(* Adding masked values masks the sum: the mask of a sum is the sum of     *)
(* masks.                                                                  *)
LEMMA AddMasked ==
  ASSUME NEW t \in Tapes, NEW x \in InputChoices, NEW v, PlainValues(x, v), NEW w \in Wires,
         Type(w) = "kAdd"
  PROVE  (MaskedOf(t, v, In1(w, 1)) + MaskedOf(t, v, In2(w, 1))) % Modulus = MaskedOf(t, v, w)
<1> DEFINE a == In1(w, 1)
           b == In2(w, 1)
           L == Mask(t, 0)
<1>1. a \in Wires /\ b \in Wires /\ 0 \in Procs
  BY GateFacts, Basics
<1>2. v[w] = (v[a] + v[b]) % Modulus
  BY DEF PlainValues, PlainRule
<1>3. L[w] = (L[a] + L[b]) % Modulus
  BY <1>1, MaskFacts DEF MaskRule
<1>4. /\ v[a] \in Int /\ v[b] \in Int /\ L[a] \in Int /\ L[b] \in Int
      /\ MaskedOf(t, v, a) \in Int /\ Same(MaskedOf(t, v, a), v[a] - L[a])
      /\ MaskedOf(t, v, b) \in Int /\ Same(MaskedOf(t, v, b), v[b] - L[b])
  BY <1>1, MaskedFacts
<1>5. v[w] \in Int /\ L[w] \in Int
  BY MaskedFacts
<1> HIDE DEF L, a, b
<1>6. Same(v[w], v[a] + v[b]) /\ Same(L[w], L[a] + L[b])
  BY <1>2, <1>3, <1>4, SameMod
<1>7. Same(v[w] - L[w], (v[a] + v[b]) - (L[a] + L[b]))
  <2>1. v[a] + v[b] \in Int /\ L[a] + L[b] \in Int
    BY <1>4
  <2> QED BY <1>5, <1>6, <2>1, SameOps
<1>8. Same(MaskedOf(t, v, a) + MaskedOf(t, v, b), (v[a] - L[a]) + (v[b] - L[b]))
  <2>1. v[a] - L[a] \in Int /\ v[b] - L[b] \in Int
    BY <1>4
  <2> QED BY <1>4, <2>1, SameOps
<1>9. (v[a] - L[a]) + (v[b] - L[b]) = (v[a] + v[b]) - (L[a] + L[b])
  BY <1>4
<1>10. Same(MaskedOf(t, v, a) + MaskedOf(t, v, b), v[w] - L[w])
  BY <1>7, <1>8, <1>9 DEF Same
<1> QED BY <1>4, <1>10, SameMasked DEF L, a, b

(* Likewise for the multiplication by a constant.                          *)
LEMMA ScaleMasked ==
  ASSUME NEW t \in Tapes, NEW x \in InputChoices, NEW v, PlainValues(x, v), NEW w \in Wires,
         Type(w) = "kConstMul"
  PROVE  (MaskedOf(t, v, In1(w, 1)) * Gates[w].cval) % Modulus = MaskedOf(t, v, w)
<1> DEFINE a == In1(w, 1)
           c == Gates[w].cval
           L == Mask(t, 0)
<1>1. a \in Wires /\ c \in Int /\ 0 \in Procs
  BY GateFacts, Basics
<1>2. v[w] = (v[a] * c) % Modulus
  BY DEF PlainValues, PlainRule
<1>3. L[w] = (L[a] * c) % Modulus
  BY <1>1, MaskFacts DEF MaskRule
<1>4. /\ v[a] \in Int /\ L[a] \in Int
      /\ MaskedOf(t, v, a) \in Int /\ Same(MaskedOf(t, v, a), v[a] - L[a])
  BY <1>1, MaskedFacts
<1>5. v[w] \in Int /\ L[w] \in Int
  BY MaskedFacts
<1> HIDE DEF L, a, c
<1>6. Same(v[w], v[a] * c) /\ Same(L[w], L[a] * c) /\ Same(c, c)
  BY <1>1, <1>2, <1>3, <1>4, SameMod DEF Same
<1>7. v[a] * c \in Int /\ L[a] * c \in Int /\ v[a] - L[a] \in Int
  BY <1>1, <1>4
<1>8. Same(v[w] - L[w], (v[a] * c) - (L[a] * c))
  BY <1>5, <1>6, <1>7, SameOps
<1>9. Same(MaskedOf(t, v, a) * c, (v[a] - L[a]) * c)
  BY <1>1, <1>4, <1>6, <1>7, SameOps
<1>10. (v[a] - L[a]) * c = (v[a] * c) - (L[a] * c)
  BY <1>1, <1>4
<1>11. Same(MaskedOf(t, v, a) * c, v[w] - L[w]) /\ MaskedOf(t, v, a) * c \in Int
  BY <1>1, <1>4, <1>8, <1>9, <1>10 DEF Same
<1> QED BY <1>11, SameMasked DEF L, a, c

(* The provider of an input knows its whole mask.                          *)
LEMMA InputMasked ==
  ASSUME NEW t \in Tapes, NEW x \in InputChoices, NEW v, PlainValues(x, v), NEW w \in InputWires
  PROVE  (x[w] - Mask(t, Owner[w])[w]) % Modulus = MaskedOf(t, v, w)
<1>1. w \in Wires /\ Type(w) = "kInp" /\ Owner[w] \in Procs /\ 0 \in Procs
  BY Basics
<1>2. Mask(t, Owner[w])[w] = Mask(t, 0)[w]
  BY <1>1, MaskFacts DEF MaskRule
<1>3. x[w] \in Ring
  BY SemiAssumption
<1>4. v[w] = x[w]
  BY <1>1, <1>3, Basics DEF PlainValues, PlainRule
<1> QED BY <1>2, <1>4 DEF MaskedOf

(* What p contributes for a multiplication when it holds the right values. *)
Term(t, v, p, x, y) ==
  MaskedOf(t, v, x) * Mask(t, p)[y] + Mask(t, p)[x] * MaskedOf(t, v, y)
    + (IF p = 1 THEN MaskedOf(t, v, x) * MaskedOf(t, v, y) ELSE 0)

ShareOf(t, v, p, w) ==
  (SumTo(Width(w), [j \in 1..Width(w) |-> Term(t, v, p, In1(w, j), In2(w, j))])
     + GammaOf(t, p, w) - Mask(t, p)[w]) % Modulus

(* The parties' terms for a product miss the product of the masks only.    *)
LEMMA TermSum ==
  ASSUME NEW t \in Tapes, NEW x \in InputChoices, NEW v, PlainValues(x, v),
         NEW a \in Wires, NEW b \in Wires
  PROVE  /\ \A p \in Parties : Term(t, v, p, a, b) \in Int
         /\ Same(SumTo(nP, [p \in 1..nP |-> Term(t, v, p, a, b)]) + Mask(t, 0)[a] * Mask(t, 0)[b],
                 v[a] * v[b])
<1> DEFINE ma == MaskedOf(t, v, a)
           mb == MaskedOf(t, v, b)
           La == Mask(t, 0)[a]
           Lb == Mask(t, 0)[b]
           la == MaskShares(t, a)
           lb == MaskShares(t, b)
           f == [p \in 1..nP |-> Term(t, v, p, a, b)]
           f1 == [p \in 1..nP |-> ma * lb[p]]
           f2 == [p \in 1..nP |-> mb * la[p]]
           f3 == [p \in 1..nP |-> IF p = 1 THEN ma * mb ELSE 0]
           f4 == [p \in 1..nP |-> f1[p] + f2[p]]
<1>1. /\ ma \in Int /\ mb \in Int /\ La \in Int /\ Lb \in Int /\ v[a] \in Int /\ v[b] \in Int
      /\ (ma + La) % Modulus = v[a] /\ (mb + Lb) % Modulus = v[b]
  BY MaskedFacts
<1>2. /\ IntVector(nP, la) /\ Same(SumTo(nP, la), La)
      /\ IntVector(nP, lb) /\ Same(SumTo(nP, lb), Lb)
  BY MaskSum
<1>3. \A p \in 1..nP : /\ la[p] \in Int /\ lb[p] \in Int
                       /\ f[p] = (ma * lb[p] + la[p] * mb) + (IF p = 1 THEN ma * mb ELSE 0)
  BY <1>2, Basics DEF MaskShares, Term, IntVector
<1>4. \A p \in 1..nP : /\ f1[p] = ma * lb[p] /\ f2[p] = mb * la[p]
                       /\ f3[p] = (IF p = 1 THEN ma * mb ELSE 0) /\ f4[p] = f1[p] + f2[p]
  OBVIOUS
<1> HIDE DEF ma, mb, La, Lb, la, lb, f, f1, f2, f3, f4
<1>0. nP \in Nat /\ 1 \in 1..nP
  BY Basics
<1>5. SumTo(nP, f1) = ma * SumTo(nP, lb) /\ IntVector(nP, f1)
  <2>1. ma \in Int /\ IntVector(nP, lb) /\ \A p \in 1..nP : f1[p] = ma * lb[p]
    BY <1>1, <1>2, <1>4
  <2> QED BY <1>0, <2>1, SumScale
<1>6. SumTo(nP, f2) = mb * SumTo(nP, la) /\ IntVector(nP, f2)
  <2>1. mb \in Int /\ IntVector(nP, la) /\ \A p \in 1..nP : f2[p] = mb * la[p]
    BY <1>1, <1>2, <1>4
  <2> QED BY <1>0, <2>1, SumScale
<1>7. SumTo(nP, f3) = ma * mb /\ IntVector(nP, f3)
  <2>1. ma * mb \in Int /\ \A p \in 1..nP : f3[p] = IF p = 1 THEN ma * mb ELSE 0
    BY <1>1, <1>4
  <2> DEFINE c == ma * mb
  <2> HIDE DEF c
  <2>2. c \in Int /\ \A p \in 1..nP : f3[p] = IF p = 1 THEN c ELSE 0
    BY <2>1 DEF c
  <2>3. SumTo(nP, f3) = c /\ IntVector(nP, f3)
    BY <1>0, <2>2, SumSingle
  <2> QED BY <2>3 DEF c
<1>8. SumTo(nP, f4) = SumTo(nP, f1) + SumTo(nP, f2) /\ IntVector(nP, f4)
  BY <1>4, <1>5, <1>6, Basics, SumAdd
<1>9. \A p \in 1..nP : f[p] = f4[p] + f3[p]
  <2> TAKE p \in 1..nP
  <2>1. la[p] * mb = mb * la[p] /\ ma * lb[p] \in Int /\ mb * la[p] \in Int /\ ma * mb \in Int
    BY <1>1, <1>3
  <2> QED BY <1>3, <1>4, <2>1
<1>10. SumTo(nP, f) = SumTo(nP, f4) + SumTo(nP, f3) /\ IntVector(nP, f)
  BY <1>7, <1>8, <1>9, Basics, SumAdd
<1>11. SumTo(nP, la) \in Int /\ SumTo(nP, lb) \in Int
  BY <1>2, Basics, SumFacts
<1>12. Same(ma * SumTo(nP, lb), ma * Lb) /\ Same(mb * SumTo(nP, la), mb * La)
  <2>1. Same(ma, ma) /\ Same(mb, mb)
    BY DEF Same
  <2> QED BY <1>1, <1>2, <1>11, <2>1, SameOps
<1>13. /\ ma * SumTo(nP, lb) \in Int /\ ma * Lb \in Int /\ mb * SumTo(nP, la) \in Int /\ mb * La \in Int
       /\ ma * mb \in Int /\ La * Lb \in Int
  BY <1>1, <1>11
<1>14. Same(SumTo(nP, f4), ma * Lb + mb * La) /\ SumTo(nP, f4) \in Int /\ ma * Lb + mb * La \in Int
  <2>1. Same((ma * SumTo(nP, lb)) + (mb * SumTo(nP, la)), (ma * Lb) + (mb * La))
    BY <1>12, <1>13, SameOps
  <2> QED BY <1>5, <1>6, <1>8, <1>13, <2>1
<1>15. Same(SumTo(nP, f) + La * Lb, (ma * Lb + mb * La) + (ma * mb + La * Lb))
  <2>1. Same(ma * mb + La * Lb, ma * mb + La * Lb) /\ ma * mb + La * Lb \in Int
    BY <1>13 DEF Same
  <2>2. Same(SumTo(nP, f4) + (ma * mb + La * Lb), (ma * Lb + mb * La) + (ma * mb + La * Lb))
    BY <1>14, <2>1, SameOps
  <2>3. SumTo(nP, f) + La * Lb = SumTo(nP, f4) + (ma * mb + La * Lb)
    BY <1>7, <1>10, <1>13, <1>14
  <2> QED BY <2>2, <2>3
<1>16. (ma * Lb + mb * La) + (ma * mb + La * Lb) = (ma + La) * (mb + Lb)
  BY <1>1
<1>17. ma + La \in Int /\ mb + Lb \in Int
  BY <1>1
<1>18. Same(v[a], ma + La) /\ Same(v[b], mb + Lb)
  BY <1>1, <1>17, SameMod
<1>19. Same(v[a] * v[b], (ma + La) * (mb + Lb))
  BY <1>1, <1>17, <1>18, SameOps
<1>20. Same(SumTo(nP, f) + La * Lb, v[a] * v[b])
  BY <1>15, <1>16, <1>19 DEF Same
<1>21. \A p \in 1..nP : f[p] \in Int
  BY <1>10 DEF IntVector
<1> QED BY <1>20, <1>21, Basics DEF La, Lb, f

(* A share of a product is an element of the ring.                         *)
LEMMA ShareFacts ==
  ASSUME NEW t \in Tapes, NEW x \in InputChoices, NEW v, PlainValues(x, v),
         NEW w \in Wires, IsMult(w), NEW p \in Parties
  PROVE  ShareOf(t, v, p, w) \in Ring
<1> DEFINE u == [j \in 1..Width(w) |-> Term(t, v, p, In1(w, j), In2(w, j))]
           g == GammaOf(t, p, w)
           l == Mask(t, p)[w]
<1>1. IntVector(Width(w), u) /\ Width(w) \in Nat
  <2>1. \A j \in 1..Width(w) : In1(w, j) \in Wires /\ In2(w, j) \in Wires
    BY GateFacts
  <2>2. \A j \in 1..Width(w) : Term(t, v, p, In1(w, j), In2(w, j)) \in Int
    BY <2>1, TermSum
  <2> QED BY <2>2, GateFacts DEF IntVector
<1>2. g \in Int /\ l \in Int
  <2>1. p \in Procs
    BY Basics
  <2> QED BY <2>1, GammaSum, MaskFacts, Basics
<1>3. ShareOf(t, v, p, w) = (SumTo(Width(w), u) + g - l) % Modulus
  BY DEF ShareOf
<1> HIDE DEF u, g, l
<1>4. SumTo(Width(w), u) \in Int
  BY <1>1, SumFacts
<1>5. SumTo(Width(w), u) + g - l \in Int
  BY <1>2, <1>4
<1> QED BY <1>3, <1>5, Basics

(* The contributions to a multiplication open to its masked value.         *)
LEMMA ShareSum ==
  ASSUME NEW t \in Tapes, NEW x \in InputChoices, NEW v, PlainValues(x, v),
         NEW w \in Wires, IsMult(w)
  PROVE  SumTo(nP, [p \in Parties |-> ShareOf(t, v, p, w)]) % Modulus = MaskedOf(t, v, w)
<1> DEFINE W == Width(w)
           R == [i \in 1..nP |-> [j \in 1..W |-> Term(t, v, i, In1(w, j), In2(w, j))]]
           C == [j \in 1..W |-> [i \in 1..nP |-> Term(t, v, i, In1(w, j), In2(w, j))]]
           a == [i \in 1..nP |-> SumTo(W, R[i])]
           b == [j \in 1..W |-> SumTo(nP, C[j])]
           pr == [j \in 1..W |-> Mask(t, 0)[In1(w, j)] * Mask(t, 0)[In2(w, j)]]
           pl == [j \in 1..W |-> v[In1(w, j)] * v[In2(w, j)]]
           bp == [j \in 1..W |-> b[j] + pr[j]]
           g == GammaShares(t, w)
           l == MaskShares(t, w)
           neg == [p \in 1..nP |-> (0 - 1) * l[p]]
           ag == [p \in 1..nP |-> a[p] + g[p]]
           e == [p \in 1..nP |-> ag[p] + neg[p]]
           s == [p \in Parties |-> ShareOf(t, v, p, w)]
<1>0. nP \in Nat /\ W \in Nat /\ Parties = 1..nP
  BY Basics, GateFacts
<1>1. \A j \in 1..W : In1(w, j) \in Wires /\ In2(w, j) \in Wires
  BY GateFacts
<1>2. /\ \A i \in 1..nP : IntVector(W, R[i])
      /\ \A j \in 1..W : IntVector(nP, C[j])
      /\ \A i \in 1..nP : \A j \in 1..W : R[i][j] = C[j][i]
  <2>1. \A i \in 1..nP : \A j \in 1..W : Term(t, v, i, In1(w, j), In2(w, j)) \in Int
    BY <1>0, <1>1, TermSum
  <2> QED BY <2>1 DEF IntVector
<1>3. \A j \in 1..W : /\ pr[j] \in Int /\ pl[j] \in Int
                      /\ Same(b[j] + pr[j], pl[j])
  <2> TAKE j \in 1..W
  <2> DEFINE x1 == In1(w, j)
             x2 == In2(w, j)
  <2>1. x1 \in Wires /\ x2 \in Wires
    BY <1>1
  <2>3. b[j] = SumTo(nP, [i \in 1..nP |-> Term(t, v, i, x1, x2)])
    OBVIOUS
  <2>4. pr[j] = Mask(t, 0)[x1] * Mask(t, 0)[x2] /\ pl[j] = v[x1] * v[x2]
    OBVIOUS
  <2>5. Mask(t, 0)[x1] \in Int /\ Mask(t, 0)[x2] \in Int /\ v[x1] \in Int /\ v[x2] \in Int
    BY <2>1, MaskedFacts
  <2> HIDE DEF b, pr, pl, x1, x2
  <2>6. pr[j] \in Int /\ pl[j] \in Int
    BY <2>4, <2>5
  <2>7. Same(SumTo(nP, [i \in 1..nP |-> Term(t, v, i, x1, x2)]) + Mask(t, 0)[x1] * Mask(t, 0)[x2], v[x1] * v[x2])
    BY <2>1, TermSum
  <2> QED BY <2>3, <2>4, <2>6, <2>7
<1>4. /\ \A i \in 1..nP : a[i] = SumTo(W, R[i])
      /\ \A j \in 1..W : b[j] = SumTo(nP, C[j])
  OBVIOUS
<1>5. Product(t, w) = SumTo(W, pr) /\ v[w] = SumTo(W, pl) % Modulus
  BY GateFacts DEF Product, PlainValues, PlainRule
<1>6. /\ IntVector(nP, g) /\ Same(SumTo(nP, g), Product(t, w)) /\ Product(t, w) \in Int
      /\ IntVector(nP, l) /\ Same(SumTo(nP, l), Mask(t, 0)[w])
      /\ v[w] \in Int /\ Mask(t, 0)[w] \in Int
  BY GammaSum, MaskSum, ProductFacts, MaskedFacts
<1>7. \A p \in 1..nP : s[p] = (a[p] + g[p] - l[p]) % Modulus
  <2> TAKE p \in 1..nP
  <2>2. a[p] = SumTo(W, [j \in 1..W |-> Term(t, v, p, In1(w, j), In2(w, j))])
    OBVIOUS
  <2>3. g[p] = GammaOf(t, p, w) /\ l[p] = Mask(t, p)[w] /\ s[p] = ShareOf(t, v, p, w)
    BY <1>0 DEF GammaShares, MaskShares
  <2> QED BY <2>2, <2>3 DEF ShareOf
<1>8. /\ \A j \in 1..W : bp[j] = b[j] + pr[j]
      /\ \A p \in 1..nP : neg[p] = (0 - 1) * l[p]
      /\ \A p \in 1..nP : ag[p] = a[p] + g[p]
      /\ \A p \in 1..nP : e[p] = ag[p] + neg[p]
  OBVIOUS
<1> HIDE DEF W, R, C, a, b, pr, pl, bp, g, l, neg, ag, e, s
<1>9. SumTo(nP, a) = SumTo(W, b) /\ IntVector(nP, a) /\ IntVector(W, b)
  <2>1. RowsAndColumns(nP, W, R, C, a, b)
    BY <1>2, <1>4 DEF RowsAndColumns
  <2> QED BY <1>0, <2>1, SumSwap
<1>10. IntVector(W, pr) /\ IntVector(W, pl)
  BY <1>3 DEF IntVector
<1>11. SumTo(W, bp) = SumTo(W, b) + SumTo(W, pr) /\ IntVector(W, bp)
  <2>1. \A j \in 1..W : bp[j] = b[j] + pr[j]
    BY <1>8
  <2> QED BY <1>0, <1>9, <1>10, <2>1, SumAdd
<1>12. Same(SumTo(W, bp), SumTo(W, pl))
  <2>1. \A j \in 1..W : Same(bp[j], pl[j])
    BY <1>3, <1>8
  <2> QED BY <1>0, <1>10, <1>11, <2>1, SumSameMod
<1>13. SumTo(W, b) \in Int /\ SumTo(W, pl) \in Int /\ SumTo(nP, g) \in Int /\ SumTo(nP, l) \in Int
  BY <1>0, <1>6, <1>9, <1>10, SumFacts
<1>14. Same(SumTo(nP, a) + Product(t, w), v[w])
  <2>1. SumTo(nP, a) + Product(t, w) = SumTo(W, bp)
    BY <1>5, <1>9, <1>11
  <2>2. Same(v[w], SumTo(W, pl))
    BY <1>5, <1>13, SameMod
  <2> QED BY <1>12, <2>1, <2>2 DEF Same
<1>15. SumTo(nP, neg) = (0 - 1) * SumTo(nP, l) /\ IntVector(nP, neg)
  <2>1. \A p \in 1..nP : neg[p] = (0 - 1) * l[p]
    BY <1>8
  <2>2. 0 - 1 \in Int
    OBVIOUS
  <2> DEFINE c == 0 - 1
  <2> HIDE DEF c
  <2>3. c \in Int /\ \A p \in 1..nP : neg[p] = c * l[p]
    BY <2>1, <2>2 DEF c
  <2>4. SumTo(nP, neg) = c * SumTo(nP, l) /\ IntVector(nP, neg)
    BY <1>0, <1>6, <2>3, SumScale
  <2> QED BY <2>4 DEF c
<1>16. SumTo(nP, ag) = SumTo(nP, a) + SumTo(nP, g) /\ IntVector(nP, ag)
  <2>1. \A p \in 1..nP : ag[p] = a[p] + g[p]
    BY <1>8
  <2> QED BY <1>0, <1>6, <1>9, <2>1, SumAdd
<1>17. SumTo(nP, e) = SumTo(nP, ag) + SumTo(nP, neg) /\ IntVector(nP, e)
  <2>1. \A p \in 1..nP : e[p] = ag[p] + neg[p]
    BY <1>8
  <2> QED BY <1>0, <1>15, <1>16, <2>1, SumAdd
<1>18. SumTo(nP, e) = (SumTo(nP, a) + SumTo(nP, g)) - SumTo(nP, l)
  <2>1. SumTo(nP, a) \in Int
    BY <1>9, <1>13
  <2> QED BY <1>13, <1>15, <1>16, <1>17, <2>1
<1>19. Same(SumTo(nP, e), v[w] - Mask(t, 0)[w])
  <2>1. SumTo(nP, a) \in Int
    BY <1>9, <1>13
  <2>2. Same(SumTo(nP, a), SumTo(nP, a))
    BY DEF Same
  <2>3. Same(SumTo(nP, a) + SumTo(nP, g), SumTo(nP, a) + Product(t, w))
    BY <1>6, <1>13, <2>1, <2>2, SameOps
  <2>4. Same(SumTo(nP, a) + SumTo(nP, g), v[w])
    BY <1>14, <2>3 DEF Same
  <2>5. SumTo(nP, a) + SumTo(nP, g) \in Int
    BY <1>13, <2>1
  <2> QED BY <1>6, <1>13, <1>18, <2>4, <2>5, SameOps
<1>20. \A p \in 1..nP : s[p] = e[p] % Modulus
  <2> TAKE p \in 1..nP
  <2>1. a[p] \in Int /\ g[p] \in Int /\ l[p] \in Int
    BY <1>6, <1>9 DEF IntVector
  <2>2. e[p] = a[p] + g[p] - l[p]
    BY <1>8, <2>1
  <2> QED BY <1>7, <2>2
<1>21. \A p \in 1..nP : Same(s[p], e[p]) /\ s[p] \in Int
  BY <1>17, <1>20, SameMod DEF IntVector
<1>22. IntVector(nP, s)
  BY <1>21 DEF IntVector
<1>23. Same(SumTo(nP, s), SumTo(nP, e))
  BY <1>0, <1>17, <1>21, <1>22, SumSameMod
<1>24. Same(SumTo(nP, s), v[w] - Mask(t, 0)[w])
  BY <1>19, <1>23 DEF Same
<1>25. SumTo(nP, s) \in Int
  BY <1>0, <1>22, SumFacts
<1> QED BY <1>24, <1>25, SameMasked DEF s

(* p's mask of w once the first k outputs are rerandomized.                *)
ZerosOf(t, p, w) == [j \in DOMAIN Outputs |-> IF Outputs[j] = w THEN ZeroOf(t, p, j) ELSE 0]
OutMask(t, p, w, k) == (Mask(t, p)[w] + SumTo(k, ZerosOf(t, p, w))) % Modulus

(* What is added to the share of an output's mask is a number.             *)
LEMMA ZerosFacts ==
  ASSUME NEW t \in Tapes, NEW p \in Procs, NEW w \in Wires
  PROVE  /\ \A k \in 0..Len(Outputs) : /\ IntVector(k, ZerosOf(t, p, w))
                                       /\ SumTo(k, ZerosOf(t, p, w)) \in Int
                                       /\ OutMask(t, p, w, k) \in Ring
<1> DEFINE z == ZerosOf(t, p, w)
           l == Mask(t, p)[w]
<1>1. \A j \in 1..Len(Outputs) : z[j] \in Int
  <2> TAKE j \in 1..Len(Outputs)
  <2>1. j \in DOMAIN Outputs
    BY OutputFacts
  <2>2. ZeroOf(t, p, j) \in Int
    BY <2>1, ZeroSum, Basics
  <2> QED BY <2>1, <2>2 DEF ZerosOf
<1>2. l \in Int
  BY MaskFacts
<1> HIDE DEF z, l
<1>3. ASSUME NEW k \in 0..Len(Outputs)
      PROVE  IntVector(k, z) /\ SumTo(k, z) \in Int /\ (l + SumTo(k, z)) % Modulus \in Ring
  <2>1. k \in Nat /\ \A j \in 1..k : j \in 1..Len(Outputs)
    BY OutputFacts
  <2>2. IntVector(k, z)
    BY <1>1, <2>1 DEF IntVector
  <2>3. SumTo(k, z) \in Int
    BY <2>1, <2>2, SumFacts
  <2>4. l + SumTo(k, z) \in Int
    BY <1>2, <2>3
  <2> QED BY <2>2, <2>3, <2>4, Basics
<1> QED BY <1>3 DEF OutMask, z, l

(* Rerandomizing leaves the sum of the shares of a mask alone.             *)
LEMMA OutputSum ==
  ASSUME NEW t \in Tapes, NEW w \in Wires, NEW k \in 0..Len(Outputs)
  PROVE  SumTo(nP, [p \in Parties |-> OutMask(t, p, w, k)]) % Modulus = Mask(t, 0)[w]
<1> DEFINE R == [p \in 1..nP |-> ZerosOf(t, p, w)]
           C == [j \in 1..k |-> [p \in 1..nP |-> ZerosOf(t, p, w)[j]]]
           a == [p \in 1..nP |-> SumTo(k, R[p])]
           b == [j \in 1..k |-> SumTo(nP, C[j])]
           n == [j \in 1..k |-> 0 * b[j]]
           l == MaskShares(t, w)
           e == [p \in 1..nP |-> l[p] + a[p]]
           s == [p \in Parties |-> OutMask(t, p, w, k)]
           L == Mask(t, 0)[w]
<1>0. nP \in Nat /\ k \in Nat /\ Parties = 1..nP /\ \A j \in 1..k : j \in DOMAIN Outputs
  BY Basics, OutputFacts
<1>1. \A p \in 1..nP : p \in Procs
  BY Basics
<1>2. RowsAndColumns(nP, k, R, C, a, b)
  <2>1. \A p \in 1..nP : IntVector(k, R[p])
    BY <1>1, ZerosFacts
  <2>2. \A j \in 1..k : IntVector(nP, C[j])
    BY <2>1 DEF IntVector
  <2> QED BY <2>1, <2>2 DEF RowsAndColumns
<1>3. \A j \in 1..k : Same(b[j], 0)
  <2> TAKE j \in 1..k
  <2>1. j \in DOMAIN Outputs
    BY <1>0
  <2> DEFINE z == ZeroShares(t, j)
  <2>2. IntVector(nP, z) /\ Same(SumTo(nP, z), 0)
    BY <2>1, ZeroSum
  <2>3. \A p \in 1..nP : C[j][p] = IF Outputs[j] = w THEN z[p] ELSE 0
    BY <1>0, <2>1 DEF ZerosOf, ZeroShares
  <2>4. b[j] = SumTo(nP, C[j])
    OBVIOUS
  <2> DEFINE c == C[j]
  <2> HIDE DEF C, b, z, c
  <2>5. CASE Outputs[j] = w
    <3>1. \A p \in 1..nP : z[p] = c[p]
      BY <2>3, <2>5 DEF c
    <3>2. SumTo(nP, z) = SumTo(nP, c)
      BY <1>0, <2>2, <3>1, SumSame
    <3> QED BY <2>2, <2>4, <3>2 DEF c
  <2>6. CASE Outputs[j] # w
    <3>1. \A p \in 1..nP : c[p] = 0 * z[p]
      <4> TAKE p \in 1..nP
      <4>1. z[p] \in Int /\ c[p] = 0
        BY <2>2, <2>3, <2>6 DEF IntVector, c
      <4> QED BY <4>1
    <3>2. SumTo(nP, c) = 0 * SumTo(nP, z) /\ SumTo(nP, z) \in Int
      BY <1>0, <2>2, <3>1, SumScale, SumFacts
    <3>3. SumTo(nP, c) = 0
      BY <3>2
    <3> QED BY <2>4, <3>3 DEF Same, c
  <2> QED BY <2>5, <2>6
<1>4. IntVector(nP, l) /\ Same(SumTo(nP, l), L) /\ L \in Ring /\ L \in Int
  <2>1. 0 \in Procs
    BY Basics
  <2> QED BY <2>1, MaskSum, MaskFacts, Basics
<1>5. /\ \A j \in 1..k : n[j] = 0 * b[j]
      /\ \A p \in 1..nP : e[p] = l[p] + a[p]
      /\ \A p \in 1..nP : s[p] = (l[p] + a[p]) % Modulus
  BY <1>0 DEF OutMask, MaskShares
<1> HIDE DEF R, C, a, b, n, l, e, s, L
<1>6. SumTo(nP, a) = SumTo(k, b) /\ IntVector(nP, a) /\ IntVector(k, b)
  BY <1>0, <1>2, SumSwap
<1>7. SumTo(k, n) = 0 * SumTo(k, b) /\ IntVector(k, n) /\ SumTo(k, b) \in Int
  <2>1. \A j \in 1..k : n[j] = 0 * b[j]
    BY <1>5
  <2>2. 0 \in Int
    OBVIOUS
  <2>3. SumTo(k, n) = 0 * SumTo(k, b) /\ IntVector(k, n)
    BY <1>0, <1>6, <2>1, <2>2, SumScale
  <2> QED BY <1>0, <1>6, <2>3, SumFacts
<1>8. \A j \in 1..k : Same(b[j], n[j])
  <2> TAKE j \in 1..k
  <2>1. b[j] \in Int
    BY <1>6 DEF IntVector
  <2>2. n[j] = 0
    BY <1>5, <2>1
  <2> QED BY <1>3, <2>2
<1>9. Same(SumTo(k, b), SumTo(k, n))
  BY <1>0, <1>6, <1>7, <1>8, SumSameMod
<1>10. Same(SumTo(nP, a), 0) /\ SumTo(nP, a) \in Int
  <2>1. 0 * SumTo(k, b) = 0
    BY <1>7
  <2> QED BY <1>6, <1>7, <1>9, <2>1
<1>11. SumTo(nP, e) = SumTo(nP, l) + SumTo(nP, a) /\ IntVector(nP, e)
  <2>1. \A p \in 1..nP : e[p] = l[p] + a[p]
    BY <1>5
  <2> QED BY <1>0, <1>4, <1>6, <2>1, SumAdd
<1>12. SumTo(nP, l) \in Int
  BY <1>0, <1>4, SumFacts
<1>13. Same(SumTo(nP, e), L)
  <2>1. Same(SumTo(nP, l) + SumTo(nP, a), L + 0)
    BY <1>4, <1>10, <1>12, SameOps
  <2> QED BY <1>4, <1>11, <2>1
<1>14. \A p \in 1..nP : Same(s[p], e[p]) /\ s[p] \in Int
  <2> TAKE p \in 1..nP
  <2>1. e[p] \in Int /\ s[p] = e[p] % Modulus
    BY <1>5, <1>11 DEF IntVector
  <2> QED BY <2>1, SameMod
<1>15. IntVector(nP, s)
  BY <1>14 DEF IntVector
<1>16. Same(SumTo(nP, s), SumTo(nP, e))
  BY <1>0, <1>11, <1>14, <1>15, SumSameMod
<1>17. L % Modulus = L
  BY <1>4, Basics
<1> QED BY <1>13, <1>16, <1>17 DEF Same, s, L

-----------------------------------------------------------------------------
(* The inductive invariant: every variable of a process is determined by   *)
(* where the process is, the streams and the inputs.                       *)
Early == {"outputSetup", "setup", "setInputs"}

(* The gates whose round of runSetup is over.                              *)
Steps(c, n) == IF c = "outputSetup" THEN 0 ELSE IF c = "setup" THEN n - 1 ELSE NumGates

PlaceOk(p, c, n) ==
  /\ c = "setup" => n \in 1..(NumGates + 1)
  /\ c = "recvInputs" => n \in (1..(nP + 1)) \ {p}
  /\ c = "evaluateCircuit" => n \in 1..(Len(Layers) + 1)
  /\ c = "reconstructMult" => n \in DOMAIN Layers /\ Interactive(n)

DrawsOk(i, c, n, d) == d = IF c = "outputSetup" THEN 0 ELSE Drawn(i, Steps(c, n))

ZerosOk(t, p, c, r) == c # "outputSetup" => \A k \in DOMAIN Outputs : r[k] = ZeroOf(t, p, k)

MasksOk(t, p, c, n, l) ==
  \A w \in Wires : Pos(w) <= Steps(c, n) =>
    l[w] = IF p # 0 /\ c \in {"getOutputs", "done"} THEN OutMask(t, p, w, Len(Outputs))
           ELSE Mask(t, p)[w]

GammasOk(t, p, c, n, g) ==
  \A w \in Wires : /\ IsMult(w) /\ Pos(w) <= Steps(c, n)
                   /\ p < nP \/ c \notin {"outputSetup", "setup"}
                   => g[w] = GammaOf(t, p, w)

Mults(n) == Chosen(n, Order, {w \in Wires : IsMult(w)})
GammaMsg(t, n) == [j \in DOMAIN Mults(n) |-> GammaOf(t, nP, Mults(n)[j])]

Known(p, c, n) ==
  CASE c \in Early -> {}
    [] c = "recvInputs" -> {w \in InputWires : Owner[w] < n \/ Owner[w] = p}
    [] c \in {"evaluateCircuit", "reconstructMult"} -> InputWires \cup Below(n - 1)
    [] OTHER -> Wires

MaskedOk(t, v, p, c, n, mm) == \A w \in Known(p, c, n) : mm[w] = MaskedOf(t, v, w)

(* The openings of the levels up to l, and all p has contributed to.       *)
LevelOpens == [l \in DOMAIN Layers |-> IF Interactive(l) THEN 1 ELSE 0]
Opens(l) == SumTo(l, LevelOpens)
Contributed(c, n) ==
  CASE c \in Early \cup {"recvInputs"} -> 0
    [] c = "evaluateCircuit" -> Opens(n - 1)
    [] c = "reconstructMult" -> Opens(n)
    [] OTHER -> Opens(Len(Layers)) + 1

LevelShares(t, v, p, l) == [i \in DOMAIN Layers[l] |-> ShareOf(t, v, p, Layers[l][i])]
OutputShares(t, p) == [k \in DOMAIN Outputs |-> OutMask(t, p, Outputs[k], k)]

SharesOk(t, v, p, c, n, s) ==
  /\ Len(s) = Contributed(c, n)
  /\ \A l \in DOMAIN Layers : Interactive(l) /\ Opens(l) <= Len(s) => s[Opens(l)] = LevelShares(t, v, p, l)
  /\ Len(s) = Opens(Len(Layers)) + 1 => s[Len(s)] = OutputShares(t, p)

OutvalsOk(v, c, o) == c = "done" => o = [k \in DOMAIN Outputs |-> v[Outputs[k]]]

DealerInv ==
  /\ pc[0] \in {"outputSetup", "setup", "done"} /\ PlaceOk(0, pc[0], at[0])
  /\ \A i \in Parties : DrawsOk(i, pc[0], at[0], dpos[i])
  /\ ZerosOk(tape, 0, pc[0], rerand[0])
  /\ MasksOk(tape, 0, pc[0], at[0], lambda[0])
  /\ toSend = GammaMsg(tape, Steps(pc[0], at[0]))

PartyInv(p) ==
  /\ PlaceOk(p, pc[p], at[p])
  /\ DrawsOk(p, pc[p], at[p], ppos[p])
  /\ ZerosOk(tape, p, pc[p], rerand[p])
  /\ MasksOk(tape, p, pc[p], at[p], lambda[p])
  /\ GammasOk(tape, p, pc[p], at[p], gamma[p])
  /\ MaskedOk(tape, Plain, p, pc[p], at[p], m[p])
  /\ SharesOk(tape, Plain, p, pc[p], at[p], shares[p])
  /\ OutvalsOk(Plain, pc[p], outvals[p])

(* What is on the streams: at most one message on each.                    *)
ZeroMsg(t) == [k \in DOMAIN Outputs |-> ZeroOf(t, 1, k)]
InputMsg(t, v, i) == [j \in DOMAIN InputsOf(i) |-> MaskedOf(t, v, InputsOf(i)[j])]
Sends(i) == InputsOf(i) # << >>
GotInputs(p, c, n, i) == c \notin Early /\ (c = "recvInputs" => i < n)

StreamsInv ==
  /\ log[0][1] = IF pc[0] = "outputSetup" THEN << >> ELSE << ZeroMsg(tape) >>
  /\ read[0][1] = IF pc[1] = "outputSetup" THEN 0 ELSE 1
  /\ log[0][nP] = IF pc[0] = "done" THEN << GammaMsg(tape, NumGates) >> ELSE << >>
  /\ read[0][nP] = IF pc[nP] \in {"outputSetup", "setup"} THEN 0 ELSE 1
  /\ \A i, p \in Parties : i # p =>
       /\ log[i][p] = IF pc[i] \in Early \/ ~Sends(i) THEN << >> ELSE << InputMsg(tape, Plain, i) >>
       /\ read[i][p] = IF GotInputs(p, pc[p], at[p], i) /\ Sends(i) THEN 1 ELSE 0

AllFlushed == \A p, q \in Procs : flushed[p][q] = Len(log[p][q])

NetInv == NetTypeOK(Seq(Ring)) /\ NetOK /\ AllFlushed /\ StreamsInv

LocalTypes ==
  /\ tape \in Tapes /\ inputs \in InputChoices
  /\ pc \in [Procs -> Methods] /\ at \in [Procs -> Nat]
  /\ dpos \in [Parties -> Nat] /\ ppos \in [Parties -> Nat]
  /\ lambda \in [Procs -> [Wires -> Ring]] /\ gamma \in [Parties -> [Wires -> Ring]]
  /\ toSend \in Seq(Ring) /\ rerand \in [Procs -> [DOMAIN Outputs -> Ring]]
  /\ m \in [Parties -> [Wires -> Ring]]
  /\ shares \in [Parties -> Seq(Seq(Ring))] /\ outvals \in [Parties -> Seq(Ring)]

IInv == LocalTypes /\ DealerInv /\ (\A p \in Parties : PartyInv(p)) /\ NetInv

(* A step of process p leaves the state of the others alone ...            *)
Frame(p) ==
  /\ tape' = tape /\ inputs' = inputs
  /\ \A q \in Procs \ {p} : /\ pc'[q] = pc[q] /\ at'[q] = at[q]
                            /\ lambda'[q] = lambda[q] /\ rerand'[q] = rerand[q]
  /\ \A q \in Parties \ {p} : /\ ppos'[q] = ppos[q] /\ gamma'[q] = gamma[q] /\ m'[q] = m[q]
                              /\ shares'[q] = shares[q] /\ outvals'[q] = outvals[q]
  /\ p # 0 => dpos' = dpos /\ toSend' = toSend

(* The plain values depend on the inputs only.                             *)
LEMMA PlainSame == ASSUME inputs' = inputs PROVE Plain' = Plain
BY DEF Plain

(* What a step leaves alone keeps its part of the invariant.               *)
LEMMA FrameInv ==
  ASSUME DealerInv, \A p \in Parties : PartyInv(p), NEW p \in Procs, Frame(p)
  PROVE  (\A q \in Parties : q # p => PartyInv(q)') /\ (p # 0 => DealerInv')
<1>1. tape' = tape /\ Plain' = Plain
  BY PlainSame DEF Frame
<1>2. ASSUME NEW q \in Parties, q # p PROVE PartyInv(q)'
  <2>1. q \in Procs \ {p} /\ q \in Parties \ {p}
    BY <1>2, Basics
  <2>2. PartyInv(q)
    BY <1>2
  <2> QED BY <1>1, <2>1, <2>2 DEF Frame, PartyInv
<1>3. ASSUME p # 0 PROVE DealerInv'
  <2>1. 0 \in Procs \ {p}
    BY <1>3, Basics
  <2> QED BY <1>1, <1>3, <2>1 DEF Frame, DealerInv
<1> QED BY <1>2, <1>3

(* ... and the streams, unless it sends or receives.                       *)
Quiet(p) ==
  /\ netVars' = netVars
  /\ p \in {0, 1} => (pc'[p] = "outputSetup" <=> pc[p] = "outputSetup")
  /\ p = 0 => (pc'[p] = "done" <=> pc[p] = "done")
  /\ p = nP => (pc'[p] \in {"outputSetup", "setup"} <=> pc[p] \in {"outputSetup", "setup"})
  /\ p # 0 => (pc'[p] \in Early <=> pc[p] \in Early)
  /\ p # 0 => \A i \in Parties : i # p /\ Sends(i) =>
       (GotInputs(p, pc'[p], at'[p], i) <=> GotInputs(p, pc[p], at[p], i))

(* So do the streams under a quiet step.                                   *)
LEMMA QuietInv ==
  ASSUME NetInv, NEW p \in Procs, Frame(p), Quiet(p)
  PROVE  NetInv'
<1>1. tape' = tape /\ Plain' = Plain /\ log' = log /\ flushed' = flushed /\ read' = read
  BY PlainSame DEF Frame, Quiet, netVars
<1>2. NetTypeOK(Seq(Ring))' /\ NetOK' /\ AllFlushed'
  BY <1>1 DEF NetInv, NetTypeOK, NetOK, AllFlushed
<1>3. \A q \in Procs : q # p => pc'[q] = pc[q] /\ at'[q] = at[q]
  BY DEF Frame
<1>4. /\ (pc'[0] = "outputSetup" <=> pc[0] = "outputSetup") /\ (pc'[0] = "done" <=> pc[0] = "done")
      /\ (pc'[1] = "outputSetup" <=> pc[1] = "outputSetup")
      /\ (pc'[nP] \in {"outputSetup", "setup"} <=> pc[nP] \in {"outputSetup", "setup"})
  BY <1>3, Basics DEF Quiet
<1>5. ASSUME NEW q \in Parties
      PROVE  /\ pc'[q] \in Early <=> pc[q] \in Early
             /\ \A i \in Parties : i # q =>
                  ((GotInputs(q, pc'[q], at'[q], i) /\ Sends(i)) <=> (GotInputs(q, pc[q], at[q], i) /\ Sends(i)))
  <2>1. q \in Procs /\ q # 0
    BY Basics
  <2>2. CASE q = p
    BY <2>1, <2>2 DEF Quiet
  <2>3. CASE q # p
    BY <1>3, <2>1, <2>3
  <2> QED BY <2>2, <2>3
<1>6. StreamsInv'
  <2>1. StreamsInv
    BY DEF NetInv
  <2>2. /\ log[0][1] = IF pc'[0] = "outputSetup" THEN << >> ELSE << ZeroMsg(tape) >>
        /\ read[0][1] = IF pc'[1] = "outputSetup" THEN 0 ELSE 1
        /\ log[0][nP] = IF pc'[0] = "done" THEN << GammaMsg(tape, NumGates) >> ELSE << >>
        /\ read[0][nP] = IF pc'[nP] \in {"outputSetup", "setup"} THEN 0 ELSE 1
    BY <1>4, <2>1 DEF StreamsInv
  <2>3. ASSUME NEW i \in Parties, NEW q \in Parties, i # q
        PROVE /\ log[i][q] = IF pc'[i] \in Early \/ ~Sends(i) THEN << >> ELSE << InputMsg(tape, Plain, i) >>
              /\ read[i][q] = IF GotInputs(q, pc'[q], at'[q], i) /\ Sends(i) THEN 1 ELSE 0
    BY <1>5, <2>1, <2>3 DEF StreamsInv
  <2> QED BY <1>1, <2>2, <2>3 DEF StreamsInv
<1> QED BY <1>2, <1>6 DEF NetInv

(* What remains to be shown of a party's step ...                          *)
LEMMA FromStep ==
  ASSUME IInv, NEW p \in Parties, Frame(p), LocalTypes', PartyInv(p)', NetInv'
  PROVE  IInv'
<1>1. p \in Procs /\ p # 0
  BY Basics
<1> QED BY <1>1, FrameInv DEF IInv

(* ... and of the dealer's.                                                *)
LEMMA FromDealerStep ==
  ASSUME IInv, Frame(0), LocalTypes', DealerInv', NetInv'
  PROVE  IInv'
<1>1. 0 \in Procs /\ \A q \in Parties : q # 0
  BY Basics
<1> QED BY <1>1, FrameInv DEF IInv

-----------------------------------------------------------------------------
(* What a send and a receive do to the streams.                            *)
LEMMA SendFacts ==
  ASSUME NetTypeOK(Seq(Ring)), NetOK, AllFlushed, NEW p \in Procs, NEW msgs,
         DOMAIN msgs \subseteq Procs, \A q \in DOMAIN msgs : msgs[q] \in Seq(Ring), Send(p, msgs)
  PROVE  /\ \A a, b \in Procs :
              log'[a][b] = IF a = p /\ b \in DOMAIN msgs THEN Append(log[a][b], msgs[b]) ELSE log[a][b]
         /\ read' = read
         /\ NetTypeOK(Seq(Ring))' /\ NetOK' /\ AllFlushed'
<1> DEFINE Written(q) == IF q \in DOMAIN msgs THEN Append(log[p][q], msgs[q]) ELSE log[p][q]
<1>0. /\ log \in [Procs -> [Procs -> Seq(Seq(Ring))]] /\ flushed \in [Procs -> [Procs -> Nat]]
      /\ read \in [Procs -> [Procs -> Nat]] /\ EagerFlush
  BY SemiAssumption DEF NetTypeOK
<1>1. log' = [log EXCEPT ![p] = [q \in Procs |-> Written(q)]] /\ read' = read
  BY DEF Send
<1>2. PICK cut \in [DOMAIN msgs -> Cuts] :
        flushed' = [flushed EXCEPT ![p] = [q \in Procs |->
          IF q \in DOMAIN msgs
          THEN IF cut[q] = "all" THEN Len(log[p][q]) + 1
               ELSE IF cut[q] = "older" THEN Len(log[p][q]) ELSE flushed[p][q]
          ELSE flushed[p][q]]]
  BY DEF Send
<1>3. \A q \in DOMAIN msgs : cut[q] = "all"
  BY <1>0, <1>2 DEF Cuts
<1>4. ASSUME NEW b \in Procs
      PROVE  Written(b) \in Seq(Seq(Ring)) /\ Len(Written(b)) = IF b \in DOMAIN msgs THEN Len(log[p][b]) + 1 ELSE Len(log[p][b])
  <2>1. log[p][b] \in Seq(Seq(Ring))
    BY <1>0
  <2>2. CASE b \in DOMAIN msgs
    <3>1. msgs[b] \in Seq(Ring)
      BY <2>2
    <3> QED BY <2>1, <2>2, <3>1
  <2>3. CASE b \notin DOMAIN msgs
    BY <2>1, <2>3
  <2> QED BY <2>2, <2>3
<1>5. ASSUME NEW a \in Procs, NEW b \in Procs
      PROVE  /\ log'[a][b] = IF a = p THEN Written(b) ELSE log[a][b]
             /\ flushed'[a][b] = IF a = p /\ b \in DOMAIN msgs THEN Len(log[a][b]) + 1 ELSE flushed[a][b]
  <2> HIDE DEF Written
  <2> QED BY <1>0, <1>1, <1>2, <1>3
<1> DEFINE W == [q \in Procs |-> Written(q)]
<1>6. W \in [Procs -> Seq(Seq(Ring))]
  BY <1>4
<1>7. log' \in [Procs -> [Procs -> Seq(Seq(Ring))]]
  <2>1. log' = [log EXCEPT ![p] = W]
    BY <1>1
  <2> HIDE DEF W
  <2> QED BY <1>0, <1>6, <2>1
<1>8. flushed' \in [Procs -> [Procs -> Nat]]
  <2> DEFINE F == [q \in Procs |-> IF q \in DOMAIN msgs THEN Len(log[p][q]) + 1 ELSE flushed[p][q]]
  <2>1. F \in [Procs -> Nat]
    <3>1. \A q \in Procs : Len(log[p][q]) \in Nat /\ flushed[p][q] \in Nat
      BY <1>0
    <3> QED BY <3>1
  <2>2. flushed' = [flushed EXCEPT ![p] = F]
    BY <1>2, <1>3
  <2> HIDE DEF F
  <2> QED BY <1>0, <2>1, <2>2
<1>9. NetTypeOK(Seq(Ring))'
  BY <1>0, <1>1, <1>7, <1>8 DEF NetTypeOK
<1> HIDE DEF W
<1>10. AllFlushed'
  <2> SUFFICES ASSUME NEW a \in Procs, NEW b \in Procs PROVE flushed'[a][b] = Len(log'[a][b])
    BY DEF AllFlushed
  <2>1. flushed[a][b] = Len(log[a][b])
    BY DEF AllFlushed
  <2>2. Len(Written(b)) = IF b \in DOMAIN msgs THEN Len(log[p][b]) + 1 ELSE Len(log[p][b])
    BY <1>4
  <2> HIDE DEF Written
  <2> QED BY <1>5, <2>1, <2>2
<1>11. NetOK'
  <2> SUFFICES ASSUME NEW a \in Procs, NEW b \in Procs
               PROVE read'[a][b] <= flushed'[a][b] /\ flushed'[a][b] <= Len(log'[a][b])
    BY DEF NetOK
  <2>1. flushed'[a][b] = Len(log'[a][b]) /\ flushed[a][b] = Len(log[a][b]) /\ read[a][b] <= flushed[a][b]
    BY <1>10 DEF AllFlushed, NetOK
  <2>2. flushed[a][b] \in Nat /\ read[a][b] \in Nat /\ flushed'[a][b] \in Nat
    BY <1>0, <1>8
  <2>3. flushed'[a][b] = flushed[a][b] + 1 \/ flushed'[a][b] = flushed[a][b]
    BY <1>5, <2>1
  <2> QED BY <1>1, <2>1, <2>2, <2>3
<1> QED BY <1>1, <1>5, <1>9, <1>10, <1>11

(* A receive counts one message more.                                      *)
LEMMA ConsumeFacts ==
  ASSUME NetTypeOK(Seq(Ring)), NetOK, AllFlushed, NEW p \in Procs, NEW src \in Procs,
         Arrived(p, src), Consume(p, src)
  PROVE  /\ \A a, b \in Procs : read'[a][b] = IF a = src /\ b = p THEN read[a][b] + 1 ELSE read[a][b]
         /\ log' = log /\ read[src][p] < Len(log[src][p])
         /\ NetTypeOK(Seq(Ring))' /\ NetOK' /\ AllFlushed'
<1>0. /\ log \in [Procs -> [Procs -> Seq(Seq(Ring))]] /\ flushed \in [Procs -> [Procs -> Nat]]
      /\ read \in [Procs -> [Procs -> Nat]]
  BY DEF NetTypeOK
<1>1. read' = [read EXCEPT ![src][p] = @ + 1] /\ log' = log /\ flushed' = flushed
  BY DEF Consume
<1>2. read[src][p] < flushed[src][p] /\ flushed[src][p] = Len(log[src][p])
  BY DEF Arrived, AllFlushed
<1>3. \A a, b \in Procs : read'[a][b] = IF a = src /\ b = p THEN read[a][b] + 1 ELSE read[a][b]
  BY <1>0, <1>1
<1>4. read' \in [Procs -> [Procs -> Nat]]
  BY <1>0, <1>1
<1>5. NetTypeOK(Seq(Ring))' /\ AllFlushed'
  BY <1>0, <1>1, <1>4 DEF NetTypeOK, AllFlushed
<1>6. NetOK'
  <2> SUFFICES ASSUME NEW a \in Procs, NEW b \in Procs
               PROVE read'[a][b] <= flushed'[a][b] /\ flushed'[a][b] <= Len(log'[a][b])
    BY DEF NetOK
  <2>1. flushed[a][b] \in Nat /\ read[a][b] \in Nat /\ read[a][b] <= flushed[a][b] /\ flushed[a][b] <= Len(log[a][b])
    BY <1>0 DEF NetOK
  <2> QED BY <1>1, <1>2, <1>3, <2>1
<1> QED BY <1>1, <1>2, <1>3, <1>5, <1>6

(* The assumption about the levels, in the terms of the model.             *)
LEMMA LayerFacts ==
  /\ Len(Layers) \in Nat /\ Len(Layers) >= 1 /\ DOMAIN Layers = 1..Len(Layers) /\ 1 \in DOMAIN Layers
  /\ \A l \in DOMAIN Layers : /\ Layers[l] \in Seq(Wires) /\ Len(Layers[l]) \in Nat
                              /\ DOMAIN Layers[l] = 1..Len(Layers[l])
                              /\ \A i \in DOMAIN Layers[l] : Layers[l][i] \in Wires /\ Layers[l][i] \in Range(Layers[l])
                              /\ Range(Layers[l]) \subseteq Wires
                              /\ \A w \in Range(Layers[l]) : \E i \in DOMAIN Layers[l] : Layers[l][i] = w
<1>1. /\ Len(Layers) \in Nat /\ Len(Layers) >= 1 /\ DOMAIN Layers = 1..Len(Layers)
      /\ \A l \in DOMAIN Layers : Layers[l] \in Seq(Wires)
  BY LayersAssumption
<1>2. ASSUME NEW l \in DOMAIN Layers
      PROVE  /\ Len(Layers[l]) \in Nat /\ DOMAIN Layers[l] = 1..Len(Layers[l])
             /\ \A i \in DOMAIN Layers[l] : Layers[l][i] \in Wires
  BY <1>1
<1>3. ASSUME NEW l \in DOMAIN Layers
      PROVE  /\ \A i \in DOMAIN Layers[l] : Layers[l][i] \in Range(Layers[l])
             /\ Range(Layers[l]) \subseteq Wires
             /\ \A w \in Range(Layers[l]) : \E i \in DOMAIN Layers[l] : Layers[l][i] = w
  BY <1>2 DEF Range
<1> QED BY <1>1, <1>2, <1>3

(* The openings up to a level, counted.                                    *)
LEMMA OpensFacts ==
  /\ Opens(0) = 0
  /\ \A l \in 0..Len(Layers) : Opens(l) \in Nat
  /\ \A l \in DOMAIN Layers : Opens(l) = Opens(l - 1) + (IF Interactive(l) THEN 1 ELSE 0)
  /\ \A k, l \in 0..Len(Layers) : k <= l => Opens(k) <= Opens(l)
<1> DEFINE v == LevelOpens
           L == Len(Layers)
<1>1. \A l \in 1..L : v[l] = (IF Interactive(l) THEN 1 ELSE 0) /\ v[l] \in Nat
  BY LayerFacts DEF LevelOpens
<1>2. L \in Nat /\ DOMAIN Layers = 1..L /\ IntVector(L, v)
  BY <1>1, LayerFacts DEF IntVector
<1> HIDE DEF v, L
<1>3. SumTo(0, v) = 0 /\ \A l \in 1..L : SumTo(l, v) = SumTo(l - 1, v) + v[l]
  BY <1>2, SumFacts
<1>4. ASSUME NEW k \in 0..L, NEW l \in 0..L, k <= l
      PROVE  SumTo(k, v) <= SumTo(l, v) /\ SumTo(l, v) \in Nat
  <2>1. l \in k..L /\ \A i \in 1..L : v[i] \in Nat
    BY <1>1, <1>2, <1>4
  <2> QED BY <1>2, <2>1, SumMonotone
<1>5. \A l \in 0..L : SumTo(l, v) \in Nat
  BY <1>2, <1>4
<1> QED BY <1>1, <1>2, <1>3, <1>4, <1>5 DEF Opens, v, L

(* Nobody has done anything yet.                                           *)
LEMMA InitInv == Init => IInv
<1> SUFFICES ASSUME Init PROVE IInv
  OBVIOUS
<1>1. LocalTypes
  <2>1. "outputSetup" \in Methods
    BY DEF Methods
  <2>2. << >> \in Seq(Ring) /\ << >> \in Seq(Seq(Ring)) /\ 0 \in Nat /\ 1 \in Nat
    OBVIOUS
  <2> QED BY <2>1, <2>2, Basics DEF Init, LocalTypes
<1>2. \A p \in Procs : pc[p] = "outputSetup" /\ at[p] = 1 /\ Steps(pc[p], at[p]) = 0
  BY DEF Init, Steps
<1>3. \A w \in Wires : ~(Pos(w) <= 0)
  BY PosFacts, OrderFacts
<1>4. 0 \in Procs /\ \A p \in Parties : p \in Procs
  BY Basics
<1>5. Mults(0) = << >>
  <2>1. \A k \in 1..0 : Order[k] \in Wires
    OBVIOUS
  <2> QED BY ChosenFacts DEF Mults
<1>6. DealerInv
  <2>1. GammaMsg(tape, 0) = << >>
    BY <1>5 DEF GammaMsg
  <2>2. toSend = << >>
    BY DEF Init
  <2>3. MasksOk(tape, 0, pc[0], at[0], lambda[0])
    BY <1>2, <1>3, <1>4 DEF MasksOk
  <2>4. ZerosOk(tape, 0, pc[0], rerand[0]) /\ PlaceOk(0, pc[0], at[0])
    BY <1>2, <1>4 DEF ZerosOk, PlaceOk
  <2>5. \A i \in Parties : DrawsOk(i, pc[0], at[0], dpos[i])
    BY <1>2, <1>4 DEF DrawsOk, Init
  <2> QED BY <1>2, <1>4, <2>1, <2>2, <2>3, <2>4, <2>5 DEF DealerInv
<1>7. ASSUME NEW p \in Parties PROVE PartyInv(p)
  <2>1. PlaceOk(p, pc[p], at[p]) /\ ZerosOk(tape, p, pc[p], rerand[p]) /\ OutvalsOk(Plain, pc[p], outvals[p])
    BY <1>2, <1>4 DEF PlaceOk, ZerosOk, OutvalsOk
  <2>2. DrawsOk(p, pc[p], at[p], ppos[p])
    BY <1>2, <1>4 DEF DrawsOk, Init
  <2>3. MasksOk(tape, p, pc[p], at[p], lambda[p]) /\ GammasOk(tape, p, pc[p], at[p], gamma[p])
    BY <1>2, <1>3, <1>4 DEF MasksOk, GammasOk
  <2>4. MaskedOk(tape, Plain, p, pc[p], at[p], m[p])
    BY <1>2, <1>4 DEF MaskedOk, Known, Early
  <2>5. SharesOk(tape, Plain, p, pc[p], at[p], shares[p])
    <3>1. Contributed(pc[p], at[p]) = 0
      BY <1>2, <1>4 DEF Contributed, Early
    <3>2. shares[p] = << >> /\ Len(shares[p]) = 0
      BY DEF Init
    <3>3. \A l \in DOMAIN Layers : Interactive(l) => ~(Opens(l) <= 0)
      <4> TAKE l \in DOMAIN Layers
      <4>1. l - 1 \in 0..Len(Layers)
        BY LayerFacts
      <4>2. Opens(l - 1) \in Nat
        BY <4>1, OpensFacts
      <4>3. Interactive(l) => Opens(l) = Opens(l - 1) + 1
        BY OpensFacts
      <4> QED BY <4>2, <4>3
    <3>4. Opens(Len(Layers)) + 1 # 0
      <4>1. Len(Layers) \in 0..Len(Layers)
        BY LayerFacts
      <4> QED BY <4>1, OpensFacts
    <3> QED BY <3>1, <3>2, <3>3, <3>4 DEF SharesOk
  <2> QED BY <2>1, <2>2, <2>3, <2>4, <2>5 DEF PartyInv
<1>8. NetInv
  <2>1. /\ \A p, q \in Procs : log[p][q] = << >> /\ flushed[p][q] = 0 /\ read[p][q] = 0
        /\ log \in [Procs -> [Procs -> Seq(Seq(Ring))]]
        /\ flushed \in [Procs -> [Procs -> Nat]] /\ read \in [Procs -> [Procs -> Nat]]
    <3>1. << >> \in Seq(Seq(Ring))
      OBVIOUS
    <3> QED BY <3>1 DEF Init, NetInit
  <2>2. NetTypeOK(Seq(Ring)) /\ NetOK /\ AllFlushed
    BY <2>1 DEF NetTypeOK, NetOK, AllFlushed
  <2>3. StreamsInv
    <3>1. 1 \in Procs /\ nP \in Procs
      BY Basics
    <3> QED BY <1>2, <1>4, <2>1, <3>1 DEF StreamsInv, Early, GotInputs
  <2> QED BY <2>2, <2>3 DEF NetInv
<1> QED BY <1>1, <1>6, <1>7, <1>8 DEF IInv

-----------------------------------------------------------------------------
(* One round of the loop over the gates.                                   *)
LEMMA GateStep ==
  ASSUME LocalTypes, NEW p \in Procs, NEW g, AtGate(p, g), PlaceOk(p, pc[p], at[p]), Advance(p)
  PROVE  /\ g \in Wires /\ at[p] \in 1..NumGates /\ Pos(g) = at[p] /\ g = Order[at[p]]
         /\ pc[p] = "setup" /\ Steps(pc[p], at[p]) = at[p] - 1
         /\ pc'[p] = "setup" /\ at'[p] = at[p] + 1 /\ Steps(pc'[p], at'[p]) = at[p]
         /\ PlaceOk(p, pc'[p], at'[p])
         /\ pc' \in [Procs -> Methods] /\ at' \in [Procs -> Nat]
         /\ \A q \in Procs \ {p} : pc'[q] = pc[q] /\ at'[q] = at[q]
         /\ \A i \in Parties : Drawn(i, at[p]) = Drawn(i, at[p] - 1) + DrawsAt(i, g)
         /\ \A v \in Ins(g) : v \in Wires /\ Pos(v) <= at[p] - 1
         /\ netVars' = netVars => Quiet(p)
<1>1. pc[p] = "setup" /\ at[p] <= Len(Order) /\ g = Order[at[p]] /\ Len(Order) = NumGates /\ NumGates \in Nat
  BY OrderFacts DEF AtGate
<1>2. at[p] \in 1..NumGates
  BY <1>1 DEF PlaceOk
<1>3. g \in Wires /\ Pos(g) = at[p]
  BY <1>1, <1>2, OrderFacts, PosFacts
<1>4. pc' = [pc EXCEPT ![p] = pc[p]] /\ at' = [at EXCEPT ![p] = at[p] + 1]
  BY DEF Advance, Goto
<1>5. pc \in [Procs -> Methods] /\ at \in [Procs -> Nat]
  BY DEF LocalTypes
<1>6. at[p] + 1 \in Nat
  BY <1>2
<1>7. /\ pc' \in [Procs -> Methods] /\ at' \in [Procs -> Nat]
      /\ pc'[p] = "setup" /\ at'[p] = at[p] + 1
      /\ \A q \in Procs \ {p} : pc'[q] = pc[q] /\ at'[q] = at[q]
  BY <1>1, <1>4, <1>5, <1>6
<1>8. Steps(pc[p], at[p]) = at[p] - 1 /\ Steps(pc'[p], at'[p]) = at[p]
  BY <1>1, <1>2, <1>7 DEF Steps
<1>9. PlaceOk(p, pc'[p], at'[p])
  BY <1>1, <1>2, <1>7 DEF PlaceOk
<1>10. \A i \in Parties : Drawn(i, at[p]) = Drawn(i, at[p] - 1) + DrawsAt(i, g)
  BY <1>1, <1>2, DrawnFacts
<1>11. ASSUME NEW v \in Ins(g) PROVE v \in Wires /\ Pos(v) <= at[p] - 1
  <2>1. v \in Wires /\ Pos(v) < at[p]
    BY <1>3, PosFacts
  <2>2. Pos(v) \in 1..NumGates
    BY <2>1, PosFacts
  <2> QED BY <1>2, <2>1, <2>2
<1>12. netVars' = netVars => Quiet(p)
  BY <1>1, <1>7 DEF Quiet, Early, GotInputs
<1> QED BY <1>1, <1>2, <1>3, <1>7, <1>8, <1>9, <1>10, <1>11, <1>12

(* The masks of the gates visited are right, so this one is.               *)
LEMMA MaskStep ==
  ASSUME LocalTypes, NEW p \in Procs, NEW g, AtGate(p, g), PlaceOk(p, pc[p], at[p]), Advance(p),
         MasksOk(tape, p, pc[p], at[p], lambda[p]), tape' = tape,
         NEW x, x % Modulus = Mask(tape, p)[g], SetMask(p, g, x)
  PROVE  /\ MasksOk(tape', p, pc'[p], at'[p], lambda'[p])
         /\ lambda' \in [Procs -> [Wires -> Ring]]
         /\ \A q \in Procs \ {p} : lambda'[q] = lambda[q]
<1>1. /\ g \in Wires /\ at[p] \in 1..NumGates /\ Pos(g) = at[p]
      /\ pc[p] = "setup" /\ Steps(pc[p], at[p]) = at[p] - 1
      /\ pc'[p] = "setup" /\ Steps(pc'[p], at'[p]) = at[p]
  BY GateStep
<1> DEFINE r == Mask(tape, p)[g]
<1>2. r \in Ring /\ lambda' = [lambda EXCEPT ![p][g] = r] /\ lambda \in [Procs -> [Wires -> Ring]]
  <2>1. tape \in Tapes /\ lambda \in [Procs -> [Wires -> Ring]]
    BY DEF LocalTypes
  <2>2. r \in Ring
    BY <1>1, <2>1, MaskFacts
  <2> QED BY <2>1, <2>2 DEF SetMask
<1> HIDE DEF r
<1>3. /\ lambda' \in [Procs -> [Wires -> Ring]]
      /\ \A q \in Procs \ {p} : lambda'[q] = lambda[q]
      /\ \A w \in Wires : lambda'[p][w] = IF w = g THEN r ELSE lambda[p][w]
  BY <1>1, <1>2
<1>4. ASSUME NEW w \in Wires, Pos(w) <= at[p] PROVE lambda'[p][w] = Mask(tape, p)[w]
  <2>1. CASE w = g
    BY <1>3, <2>1 DEF r
  <2>2. CASE w # g
    <3>1. Pos(w) # at[p]
      BY <1>1, <2>2, PosFacts
    <3>2. Pos(w) \in 1..NumGates
      BY PosFacts
    <3>3. Pos(w) <= at[p] - 1
      BY <1>1, <1>4, <3>1, <3>2
    <3>4. lambda[p][w] = Mask(tape, p)[w]
      BY <1>1, <3>3 DEF MasksOk
    <3> QED BY <1>3, <2>2, <3>4
  <2> QED BY <2>1, <2>2
<1> QED BY <1>1, <1>3, <1>4 DEF MasksOk

(* Before the inputs are sent nothing online has happened.                 *)
LEMMA EarlyKeep ==
  ASSUME NEW p, PartyInv(p), pc[p] \in Early, pc'[p] \in Early,
         shares' = shares, tape' = tape, inputs' = inputs
  PROVE  /\ MaskedOk(tape, Plain, p, pc[p], at[p], m[p])'
         /\ SharesOk(tape, Plain, p, pc[p], at[p], shares[p])'
         /\ OutvalsOk(Plain, pc[p], outvals[p])'
<1>1. Plain' = Plain
  BY PlainSame
<1>2. Contributed(pc[p], at[p]) = 0 /\ Contributed(pc'[p], at'[p]) = 0
  BY DEF Contributed, Early
<1>3. SharesOk(tape, Plain, p, pc[p], at[p], shares[p])
  BY DEF PartyInv
<1>4. SharesOk(tape, Plain, p, pc[p], at[p], shares[p])'
  BY <1>1, <1>2, <1>3 DEF SharesOk
<1>5. MaskedOk(tape, Plain, p, pc[p], at[p], m[p])'
  BY DEF MaskedOk, Known, Early
<1>6. OutvalsOk(Plain, pc[p], outvals[p])'
  BY DEF OutvalsOk, Early
<1> QED BY <1>4, <1>5, <1>6

(* The multiplications in the order of the loops, one by one.              *)
LEMMA MultsFacts ==
  /\ \A n \in 0..NumGates : /\ Mults(n) \in Seq(Wires)
                            /\ \A j \in DOMAIN Mults(n) : Mults(n)[j] \in Wires /\ IsMult(Mults(n)[j])
  /\ \A n \in 1..NumGates : Mults(n) = IF IsMult(Order[n]) THEN Append(Mults(n - 1), Order[n]) ELSE Mults(n - 1)
  /\ \A w \in Wires : IsMult(w) => \E j \in DOMAIN Mults(NumGates) : Mults(NumGates)[j] = w
<1> DEFINE T == {w \in Wires : IsMult(w)}
<1>1. NumGates \in Nat /\ \A k \in 1..NumGates : Order[k] \in Wires
  BY OrderFacts
<1>2. \A n \in 0..NumGates : Mults(n) = Chosen(n, Order, T)
  BY DEF Mults
<1>3. /\ \A n \in 0..NumGates : Chosen(n, Order, T) \in Seq(Wires)
      /\ \A n \in 1..NumGates : Chosen(n, Order, T) = IF Order[n] \in T THEN Append(Chosen(n - 1, Order, T), Order[n])
                                                      ELSE Chosen(n - 1, Order, T)
  <2> HIDE DEF T
  <2> QED BY <1>1, ChosenFacts
<1>4. \A n \in 0..NumGates : Range(Chosen(n, Order, T)) = Elements(n, Order) \cap T
  <2> HIDE DEF T
  <2> QED BY <1>1, ChosenElements
<1>5. ASSUME NEW n \in 0..NumGates, NEW j \in DOMAIN Mults(n)
      PROVE  Mults(n)[j] \in Wires /\ IsMult(Mults(n)[j])
  <2>1. Mults(n)[j] \in Range(Mults(n))
    BY DEF Range
  <2>2. Mults(n)[j] \in T
    BY <1>2, <1>4, <2>1
  <2> QED BY <2>2
<1>6. ASSUME NEW w \in Wires, IsMult(w) PROVE \E j \in DOMAIN Mults(NumGates) : Mults(NumGates)[j] = w
  <2>1. w \in Elements(NumGates, Order)
    BY OrderFacts DEF Elements
  <2>2. NumGates \in 0..NumGates
    BY <1>1
  <2>3. w \in Range(Mults(NumGates))
    BY <1>2, <1>4, <1>6, <2>1, <2>2
  <2> QED BY <2>3 DEF Range
<1>7. ASSUME NEW n \in 1..NumGates
      PROVE Mults(n) = IF IsMult(Order[n]) THEN Append(Mults(n - 1), Order[n]) ELSE Mults(n - 1)
  <2>1. n \in 0..NumGates /\ n - 1 \in 0..NumGates
    BY <1>1
  <2> QED BY <1>1, <1>2, <1>3, <2>1
<1>8. \A n \in 0..NumGates : Mults(n) \in Seq(Wires)
  BY <1>2, <1>3
<1> HIDE DEF T
<1> QED BY <1>5, <1>6, <1>7, <1>8

(* A multiplication adds an element to what will be sent to party nP.      *)
LEMMA GammaMsgFacts ==
  ASSUME NEW t \in Tapes
  PROVE  /\ \A n \in 0..NumGates : GammaMsg(t, n) \in Seq(Ring)
         /\ \A n \in 1..NumGates : GammaMsg(t, n) = IF IsMult(Order[n])
                THEN Append(GammaMsg(t, n - 1), GammaOf(t, nP, Order[n])) ELSE GammaMsg(t, n - 1)
<1>1. ASSUME NEW n \in 0..NumGates PROVE GammaMsg(t, n) \in Seq(Ring)
  <2>1. Mults(n) \in Seq(Wires) /\ \A j \in DOMAIN Mults(n) : Mults(n)[j] \in Wires /\ IsMult(Mults(n)[j])
    BY <1>1, MultsFacts
  <2>2. \A j \in DOMAIN Mults(n) : GammaOf(t, nP, Mults(n)[j]) \in Ring
    BY <2>1, GammaSum, Basics
  <2>3. DOMAIN Mults(n) = 1..Len(Mults(n)) /\ Len(Mults(n)) \in Nat
    BY <2>1
  <2> QED BY <2>2, <2>3 DEF GammaMsg
<1>2. ASSUME NEW n \in 1..NumGates
      PROVE GammaMsg(t, n) = IF IsMult(Order[n])
              THEN Append(GammaMsg(t, n - 1), GammaOf(t, nP, Order[n])) ELSE GammaMsg(t, n - 1)
  <2>1. Mults(n) = IF IsMult(Order[n]) THEN Append(Mults(n - 1), Order[n]) ELSE Mults(n - 1)
    BY MultsFacts
  <2>2. n - 1 \in 0..NumGates /\ Order[n] \in Wires
    BY OrderFacts
  <2>3. CASE IsMult(Order[n])
    <3> DEFINE c == Mults(n - 1)
               d == Mults(n)
               k == Len(c)
    <3>1. c \in Seq(Wires) /\ d = Append(c, Order[n])
      BY <2>1, <2>2, <2>3, MultsFacts
    <3>2. /\ k \in Nat /\ DOMAIN c = 1..k /\ DOMAIN d = 1..(k + 1) /\ d[k + 1] = Order[n]
          /\ \A j \in 1..k : d[j] = c[j]
      <4> HIDE DEF c, d
      <4> QED BY <2>2, <3>1
    <3> DEFINE u == GammaMsg(t, n - 1)
               a == GammaOf(t, nP, Order[n])
    <3>3. u \in Seq(Ring) /\ Len(u) = k /\ \A j \in 1..k : u[j] = GammaOf(t, nP, c[j])
      <4>1. u \in Seq(Ring)
        BY <1>1, <2>2
      <4>2. u = [j \in 1..k |-> GammaOf(t, nP, c[j])]
        BY <3>2 DEF GammaMsg
      <4> HIDE DEF u, c, k
      <4> QED BY <3>2, <4>1, <4>2
    <3>4. GammaMsg(t, n) = [j \in 1..(k + 1) |-> GammaOf(t, nP, d[j])]
      BY <3>2 DEF GammaMsg
    <3> HIDE DEF c, d, k, u
    <3>5. Append(u, a) = [j \in 1..(k + 1) |-> IF j = k + 1 THEN a ELSE u[j]]
      <4> DEFINE e == Append(u, a)
      <4>1. a \in Ring
        BY <2>2, <2>3, GammaSum, Basics
      <4> HIDE DEF a
      <4>2. /\ e \in Seq(Ring) /\ Len(e) = k + 1 /\ e[k + 1] = a
            /\ \A j \in 1..k : e[j] = u[j]
        BY <3>2, <3>3, <4>1
      <4> HIDE DEF e
      <4>3. e = [j \in 1..(k + 1) |-> e[j]]
        BY <3>2, <4>2
      <4>4. \A j \in 1..(k + 1) : e[j] = IF j = k + 1 THEN a ELSE u[j]
        <5> TAKE j \in 1..(k + 1)
        <5>1. j # k + 1 => j \in 1..k
          BY <3>2
        <5> QED BY <4>2, <5>1
      <4> QED BY <4>3, <4>4 DEF e
    <3>6. \A j \in 1..(k + 1) : GammaOf(t, nP, d[j]) = IF j = k + 1 THEN a ELSE u[j]
      <4> TAKE j \in 1..(k + 1)
      <4>1. j # k + 1 => j \in 1..k
        BY <3>2
      <4> QED BY <3>2, <3>3, <4>1
    <3>7. Append(u, a) = GammaMsg(t, n)
      BY <3>4, <3>5, <3>6
    <3> QED BY <2>3, <3>7 DEF u
  <2>4. CASE ~IsMult(Order[n])
    BY <2>1, <2>4 DEF GammaMsg
  <2> QED BY <2>3, <2>4
<1> QED BY <1>1, <1>2

(* A gate's round is over once the loop is behind its position.            *)
LEMMA PosBelow ==
  ASSUME NEW w \in Wires, NEW k \in 1..NumGates, Pos(w) <= k, Pos(w) # k
  PROVE  Pos(w) <= k - 1
BY PosFacts, OrderFacts

-----------------------------------------------------------------------------
(* A round of a party's setup loop, whatever the gate: what is left to     *)
(* show.                                                                   *)
LEMMA PartyGate ==
  ASSUME IInv, NEW p \in Parties, NEW g, AtGate(p, g), Advance(p),
         NEW x, x % Modulus = Mask(tape, p)[g], SetMask(p, g, x),
         UNCHANGED <<randVars, onlineVars, netVars, dpos, toSend, rerand>>,
         ppos' \in [Parties -> Nat], ppos'[p] = ppos[p] + DrawsAt(p, g),
         \A q \in Parties \ {p} : ppos'[q] = ppos[q],
         gamma' \in [Parties -> [Wires -> Ring]], \A q \in Parties \ {p} : gamma'[q] = gamma[q],
         \A w \in Wires : gamma'[p][w] = IF w = g /\ IsMult(g) /\ p < nP THEN GammaOf(tape, p, g) ELSE gamma[p][w]
  PROVE  IInv'
<1>0. p \in Procs /\ p # 0
  BY Basics
<1>1. LocalTypes /\ PartyInv(p) /\ PlaceOk(p, pc[p], at[p]) /\ MasksOk(tape, p, pc[p], at[p], lambda[p])
  BY DEF IInv, PartyInv
<1>2. /\ tape' = tape /\ inputs' = inputs /\ m' = m /\ shares' = shares /\ outvals' = outvals
      /\ netVars' = netVars /\ dpos' = dpos /\ toSend' = toSend /\ rerand' = rerand
  BY DEF randVars, onlineVars
<1>3. /\ g \in Wires /\ at[p] \in 1..NumGates /\ Pos(g) = at[p]
      /\ pc[p] = "setup" /\ Steps(pc[p], at[p]) = at[p] - 1
      /\ pc'[p] = "setup" /\ at'[p] = at[p] + 1 /\ Steps(pc'[p], at'[p]) = at[p]
      /\ PlaceOk(p, pc'[p], at'[p])
      /\ pc' \in [Procs -> Methods] /\ at' \in [Procs -> Nat]
      /\ \A q \in Procs \ {p} : pc'[q] = pc[q] /\ at'[q] = at[q]
      /\ Drawn(p, at[p]) = Drawn(p, at[p] - 1) + DrawsAt(p, g)
      /\ Quiet(p)
  BY <1>0, <1>1, <1>2, GateStep
<1>4. /\ MasksOk(tape', p, pc'[p], at'[p], lambda'[p])
      /\ lambda' \in [Procs -> [Wires -> Ring]]
      /\ \A q \in Procs \ {p} : lambda'[q] = lambda[q]
  BY <1>0, <1>1, <1>2, MaskStep
<1>6. LocalTypes'
  BY <1>1, <1>2, <1>3, <1>4 DEF LocalTypes
<1>7. Frame(p)
  BY <1>0, <1>2, <1>3, <1>4 DEF Frame
<1>8. DrawsOk(p, pc'[p], at'[p], ppos'[p])
  <2>1. ppos[p] = Drawn(p, at[p] - 1)
    BY <1>1, <1>3 DEF PartyInv, DrawsOk
  <2> QED BY <1>3, <2>1 DEF DrawsOk
<1>9. GammasOk(tape, p, pc'[p], at'[p], gamma'[p])
  <2> SUFFICES ASSUME NEW w \in Wires, IsMult(w), Pos(w) <= at[p], p < nP
               PROVE  gamma'[p][w] = GammaOf(tape, p, w)
    BY <1>3 DEF GammasOk
  <2>1. CASE w = g
    BY <2>1
  <2>2. CASE w # g
    <3>1. Pos(w) # at[p] /\ Pos(w) \in 1..NumGates
      BY <1>3, <2>2, PosFacts
    <3>2. Pos(w) <= at[p] - 1
      <4>1. at[p] \in 1..NumGates /\ Pos(w) <= at[p]
        BY <1>3
      <4> QED BY <3>1, <4>1, PosBelow
    <3>3. gamma[p][w] = GammaOf(tape, p, w)
      BY <1>1, <1>3, <3>2 DEF PartyInv, GammasOk
    <3> QED BY <2>2, <3>3
  <2> QED BY <2>1, <2>2
<1>10. ZerosOk(tape, p, pc'[p], rerand[p])
  BY <1>1, <1>3 DEF PartyInv, ZerosOk
<1>11. /\ MaskedOk(tape, Plain, p, pc[p], at[p], m[p])'
       /\ SharesOk(tape, Plain, p, pc[p], at[p], shares[p])'
       /\ OutvalsOk(Plain, pc[p], outvals[p])'
  <2>1. pc[p] \in Early /\ pc'[p] \in Early
    BY <1>3 DEF Early
  <2> QED BY <1>1, <1>2, <2>1, EarlyKeep
<1>12. PartyInv(p)'
  BY <1>2, <1>3, <1>4, <1>8, <1>9, <1>10, <1>11 DEF PartyInv
<1>13. NetInv'
  BY <1>0, <1>3, <1>7, QuietInv DEF IInv
<1> QED BY <1>6, <1>7, <1>12, <1>13, FromStep

(* The same for the dealer.                                                *)
LEMMA DealerGate ==
  ASSUME IInv, NEW g, AtGate(0, g), Advance(0),
         NEW x, x % Modulus = Mask(tape, 0)[g], SetMask(0, g, x),
         UNCHANGED <<randVars, onlineVars, netVars, ppos, gamma, rerand>>,
         dpos' \in [Parties -> Nat], \A i \in Parties : dpos'[i] = dpos[i] + DrawsAt(i, g),
         toSend' = IF IsMult(g) THEN Append(toSend, GammaOf(tape, nP, g)) ELSE toSend
  PROVE  IInv'
<1>0. 0 \in Procs /\ \A q \in Parties : q # 0
  BY Basics
<1>1. LocalTypes /\ DealerInv /\ PlaceOk(0, pc[0], at[0]) /\ MasksOk(tape, 0, pc[0], at[0], lambda[0])
  BY DEF IInv, DealerInv
<1>2. /\ tape' = tape /\ inputs' = inputs /\ m' = m /\ shares' = shares /\ outvals' = outvals
      /\ netVars' = netVars /\ ppos' = ppos /\ gamma' = gamma /\ rerand' = rerand
  BY DEF randVars, onlineVars
<1>3. /\ g \in Wires /\ at[0] \in 1..NumGates /\ g = Order[at[0]]
      /\ pc[0] = "setup" /\ Steps(pc[0], at[0]) = at[0] - 1
      /\ pc'[0] = "setup" /\ at'[0] = at[0] + 1 /\ Steps(pc'[0], at'[0]) = at[0]
      /\ PlaceOk(0, pc'[0], at'[0])
      /\ pc' \in [Procs -> Methods] /\ at' \in [Procs -> Nat]
      /\ \A q \in Procs \ {0} : pc'[q] = pc[q] /\ at'[q] = at[q]
      /\ \A i \in Parties : Drawn(i, at[0]) = Drawn(i, at[0] - 1) + DrawsAt(i, g)
      /\ Quiet(0)
  BY <1>0, <1>1, <1>2, GateStep
<1>4. /\ MasksOk(tape', 0, pc'[0], at'[0], lambda'[0])
      /\ lambda' \in [Procs -> [Wires -> Ring]]
      /\ \A q \in Procs \ {0} : lambda'[q] = lambda[q]
  BY <1>0, <1>1, <1>2, MaskStep
<1>5. toSend' = GammaMsg(tape, at[0]) /\ toSend' \in Seq(Ring)
  <2>1. toSend = GammaMsg(tape, at[0] - 1) /\ tape \in Tapes
    BY <1>1, <1>3 DEF DealerInv, LocalTypes
  <2>2. at[0] \in 0..NumGates
    BY <1>3, OrderFacts
  <2> QED BY <1>3, <2>1, <2>2, GammaMsgFacts
<1>6. LocalTypes'
  BY <1>1, <1>2, <1>3, <1>4, <1>5 DEF LocalTypes
<1>7. Frame(0)
  BY <1>0, <1>2, <1>3, <1>4 DEF Frame
<1>8. ASSUME NEW i \in Parties PROVE DrawsOk(i, pc'[0], at'[0], dpos'[i])
  <2>1. dpos[i] = Drawn(i, at[0] - 1)
    BY <1>1, <1>3 DEF DealerInv, DrawsOk
  <2> QED BY <1>3, <2>1 DEF DrawsOk
<1>9. ZerosOk(tape, 0, pc'[0], rerand[0])
  BY <1>1, <1>3 DEF DealerInv, ZerosOk
<1>10. DealerInv'
  BY <1>2, <1>3, <1>4, <1>5, <1>8, <1>9 DEF DealerInv
<1>11. NetInv'
  BY <1>0, <1>3, <1>7, QuietInv DEF IInv
<1> QED BY <1>6, <1>7, <1>10, <1>11, FromDealerStep

(* What is drawn at a gate is the stretch of the streams that belongs to it. *)
LEMMA PartyDraws ==
  ASSUME IInv, NEW p \in Parties, NEW g, AtGate(p, g)
  PROVE  PartyDraw(p, 0) = Draw(tape, p, g, 1) /\ PartyDraw(p, 1) = Draw(tape, p, g, 2)
<1>1. PlaceOk(p, pc[p], at[p]) /\ DrawsOk(p, pc[p], at[p], ppos[p]) /\ ppos[p] \in Nat
  BY DEF IInv, PartyInv, LocalTypes
<1>2. pc[p] = "setup" /\ at[p] \in 1..NumGates /\ Pos(g) = at[p]
  BY <1>1, OrderFacts, PosFacts DEF AtGate, PlaceOk
<1>3. ppos[p] = Drawn(p, Pos(g) - 1)
  BY <1>1, <1>2 DEF DrawsOk, Steps
<1>4. ppos[p] + 1 + 0 = ppos[p] + 1 /\ ppos[p] + 1 + 1 = ppos[p] + 2
  BY <1>1
<1> QED BY <1>3, <1>4 DEF PartyDraw, Draw

(* The dealer's draws of a round continue each stream where the party      *)
(* does.                                                                   *)
LEMMA DealerDraws ==
  ASSUME IInv, NEW g, AtGate(0, g), NEW i \in Parties
  PROVE  DealerDraw(i, 0) = Draw(tape, i, g, 1) /\ DealerDraw(i, 1) = Draw(tape, i, g, 2)
<1>1. PlaceOk(0, pc[0], at[0]) /\ DrawsOk(i, pc[0], at[0], dpos[i]) /\ dpos[i] \in Nat
  BY DEF IInv, DealerInv, LocalTypes
<1>2. pc[0] = "setup" /\ at[0] \in 1..NumGates /\ Pos(g) = at[0]
  BY <1>1, OrderFacts, PosFacts DEF AtGate, PlaceOk
<1>3. dpos[i] = Drawn(i, Pos(g) - 1)
  BY <1>1, <1>2 DEF DrawsOk, Steps
<1>4. dpos[i] + 1 + 0 = dpos[i] + 1 /\ dpos[i] + 1 + 1 = dpos[i] + 2
  BY <1>1
<1> QED BY <1>3, <1>4 DEF DealerDraw, Draw

(* The inputs of the gate at hand have their masks.                        *)
LEMMA VisitedMasks ==
  ASSUME IInv, NEW p \in Procs, NEW g, AtGate(p, g)
  PROVE  /\ g \in Wires /\ tape \in Tapes
         /\ \A v \in Ins(g) : lambda[p][v] = Mask(tape, p)[v]
         /\ Mask(tape, p)[g] = MaskRule(tape, p, Mask(tape, p), g) /\ Mask(tape, p)[g] \in Ring
         /\ Mask(tape, p)[g] % Modulus = Mask(tape, p)[g]
<1>1. p = 0 \/ p \in Parties
  BY Basics
<1>2. /\ PlaceOk(p, pc[p], at[p]) /\ MasksOk(tape, p, pc[p], at[p], lambda[p])
      /\ tape \in Tapes
  BY <1>1 DEF IInv, PartyInv, DealerInv, LocalTypes
<1>3. pc[p] = "setup" /\ at[p] \in 1..NumGates /\ Pos(g) = at[p] /\ g \in Wires
  BY <1>2, OrderFacts, PosFacts DEF AtGate, PlaceOk
<1>4. ASSUME NEW v \in Ins(g) PROVE lambda[p][v] = Mask(tape, p)[v]
  <2>1. v \in Wires /\ Pos(v) < at[p] /\ Pos(v) \in 1..NumGates
    BY <1>3, PosFacts
  <2>2. Pos(v) <= at[p] - 1
    BY <1>3, <2>1
  <2> QED BY <1>2, <1>3, <2>1, <2>2 DEF MasksOk, Steps
<1>5. Mask(tape, p)[g] = MaskRule(tape, p, Mask(tape, p), g) /\ Mask(tape, p)[g] \in Ring
  BY <1>2, <1>3, MaskFacts
<1> QED BY <1>2, <1>3, <1>4, <1>5, Basics

-----------------------------------------------------------------------------
(* SetupLinear: a linear gate combines the masks of its inputs and draws   *)
(* nothing.                                                                *)
LEMMA SetupLinearInv ==
  ASSUME IInv, NEW p \in Procs, NEW g \in Wires, SetupLinear(p, g)
  PROVE  IInv'
<1>1. /\ AtGate(p, g) /\ Advance(p) /\ Type(g) \in {"kAdd", "kConstMul"}
      /\ UNCHANGED <<randVars, onlineVars, netVars, dpos, ppos, gamma, toSend, rerand>>
  BY DEF SetupLinear
<1>2. /\ \A v \in Ins(g) : lambda[p][v] = Mask(tape, p)[v]
      /\ Mask(tape, p)[g] = MaskRule(tape, p, Mask(tape, p), g)
  BY <1>1, VisitedMasks
<1>3. PICK x : SetMask(p, g, x) /\ x % Modulus = Mask(tape, p)[g]
  <2>1. CASE Type(g) = "kAdd" /\ SetMask(p, g, lambda[p][In1(g, 1)] + lambda[p][In2(g, 1)])
    <3>1. In1(g, 1) \in Ins(g) /\ In2(g, 1) \in Ins(g)
      BY <2>1, GateFacts
    <3> QED BY <1>2, <2>1, <3>1 DEF MaskRule
  <2>2. CASE Type(g) = "kConstMul" /\ SetMask(p, g, lambda[p][In1(g, 1)] * Gates[g].cval)
    <3>1. In1(g, 1) \in Ins(g)
      BY <2>2, GateFacts
    <3> QED BY <1>2, <2>2, <3>1 DEF MaskRule
  <2> QED BY <2>1, <2>2 DEF SetupLinear
<1>4. \A i \in Parties : DrawsAt(i, g) = 0 /\ ~IsMult(g)
  BY <1>1, GateFacts DEF DrawsAt
<1>5. /\ dpos \in [Parties -> Nat] /\ ppos \in [Parties -> Nat] /\ gamma \in [Parties -> [Wires -> Ring]]
      /\ \A i \in Parties : dpos[i] + 0 = dpos[i] /\ ppos[i] + 0 = ppos[i]
  BY DEF IInv, LocalTypes
<1>6. CASE p = 0
  BY <1>1, <1>3, <1>4, <1>5, <1>6, GateFacts, DealerGate
<1>7. CASE p \in Parties
  <2>1. gamma' = gamma /\ ppos' = ppos
    BY <1>1
  <2> QED BY <1>1, <1>3, <1>4, <1>5, <1>7, <2>1, PartyGate
<1> QED BY <1>6, <1>7, Basics

(* SetupInputDealer: the dealer draws from the provider's stream.          *)
LEMMA SetupInputDealerInv ==
  ASSUME IInv, NEW g \in Wires, SetupInputDealer(g)
  PROVE  IInv'
<1>1. /\ AtGate(0, g) /\ Advance(0) /\ Type(g) = "kInp"
      /\ SetMask(0, g, DealerDraw(Owner[g], 0))
      /\ dpos' = [dpos EXCEPT ![Owner[g]] = @ + 1]
      /\ UNCHANGED <<randVars, onlineVars, netVars, ppos, gamma, toSend, rerand>>
  BY DEF SetupInputDealer
<1>2. Owner[g] \in Parties /\ 0 \in Procs /\ ~IsMult(g)
  BY <1>1, Basics, GateFacts
<1>3. /\ Mask(tape, 0)[g] = MaskRule(tape, 0, Mask(tape, 0), g)
      /\ Mask(tape, 0)[g] % Modulus = Mask(tape, 0)[g]
  BY <1>1, <1>2, VisitedMasks
<1>4. DealerDraw(Owner[g], 0) % Modulus = Mask(tape, 0)[g]
  <2>1. DealerDraw(Owner[g], 0) = Draw(tape, Owner[g], g, 1)
    BY <1>1, <1>2, DealerDraws
  <2> QED BY <1>1, <1>3, <2>1 DEF MaskRule
<1>5. dpos' \in [Parties -> Nat] /\ \A i \in Parties : dpos'[i] = dpos[i] + DrawsAt(i, g)
  <2>1. \A i \in Parties : DrawsAt(i, g) = IF Owner[g] = i THEN 1 ELSE 0
    BY <1>1 DEF DrawsAt
  <2>2. dpos \in [Parties -> Nat]
    BY DEF IInv, LocalTypes
  <2> QED BY <1>1, <1>2, <2>1, <2>2
<1> QED BY <1>1, <1>2, <1>4, <1>5, DealerGate

(* SetupInputParty: the provider draws the same, the others nothing.       *)
LEMMA SetupInputPartyInv ==
  ASSUME IInv, NEW p \in Parties, NEW g \in Wires, SetupInputParty(p, g)
  PROVE  IInv'
<1>1. /\ AtGate(p, g) /\ Advance(p) /\ Type(g) = "kInp"
      /\ SetMask(p, g, IF p = Owner[g] THEN PartyDraw(p, 0) ELSE 0)
      /\ ppos' = [ppos EXCEPT ![p] = IF p = Owner[g] THEN @ + 1 ELSE @]
      /\ UNCHANGED <<randVars, onlineVars, netVars, dpos, gamma, toSend, rerand>>
  BY DEF SetupInputParty
<1>2. p \in Procs /\ p # 0 /\ ~IsMult(g)
  BY <1>1, Basics, GateFacts
<1>3. /\ Mask(tape, p)[g] = MaskRule(tape, p, Mask(tape, p), g)
      /\ Mask(tape, p)[g] % Modulus = Mask(tape, p)[g]
  BY <1>1, <1>2, VisitedMasks
<1> DEFINE x == IF p = Owner[g] THEN PartyDraw(p, 0) ELSE 0
<1>4. x % Modulus = Mask(tape, p)[g]
  <2>1. PartyDraw(p, 0) = Draw(tape, p, g, 1)
    BY <1>1, PartyDraws
  <2>2. x = Mask(tape, p)[g]
    BY <1>1, <1>2, <1>3, <2>1 DEF MaskRule
  <2> QED BY <1>3, <2>2
<1>5. /\ ppos' \in [Parties -> Nat] /\ ppos'[p] = ppos[p] + DrawsAt(p, g)
      /\ \A q \in Parties \ {p} : ppos'[q] = ppos[q]
  <2>1. DrawsAt(p, g) = IF Owner[g] = p THEN 1 ELSE 0
    BY <1>1 DEF DrawsAt
  <2>2. ppos \in [Parties -> Nat]
    BY DEF IInv, LocalTypes
  <2> QED BY <1>1, <1>2, <2>1, <2>2
<1>6. gamma' = gamma /\ gamma \in [Parties -> [Wires -> Ring]]
  BY <1>1 DEF IInv, LocalTypes
<1>7. SetMask(p, g, x)
  BY <1>1
<1> HIDE DEF x
<1> QED BY <1>1, <1>2, <1>4, <1>5, <1>6, <1>7, PartyGate

(* SetupMultDealer: what is missing to gamma is appended for party nP.     *)
LEMMA SetupMultDealerInv ==
  ASSUME IInv, NEW g \in Wires, SetupMultDealer(g)
  PROVE  IInv'
<1> DEFINE x == SumTo(nP - 1, [i \in Parties |-> DealerDraw(i, 1)]) + DealerDraw(nP, 0)
           y == (MaskProduct(g) - SumTo(nP - 1, [i \in Parties |-> DealerDraw(i, 0)])) % Modulus
<1>1. /\ AtGate(0, g) /\ Advance(0) /\ IsMult(g) /\ SetMask(0, g, x)
      /\ toSend' = Append(toSend, y)
      /\ dpos' = [i \in Parties |-> IF i < nP THEN dpos[i] + 2 ELSE dpos[i] + 1]
      /\ UNCHANGED <<randVars, onlineVars, netVars, ppos, gamma, rerand>>
  BY DEF SetupMultDealer
<1>2. 0 \in Procs /\ nP \in Parties
  BY Basics
<1>3. /\ Mask(tape, 0)[g] = MaskRule(tape, 0, Mask(tape, 0), g)
      /\ \A v \in Ins(g) : lambda[0][v] = Mask(tape, 0)[v]
  BY <1>1, <1>2, VisitedMasks
<1>4. \A i \in Parties : DealerDraw(i, 0) = Draw(tape, i, g, 1) /\ DealerDraw(i, 1) = Draw(tape, i, g, 2)
  BY <1>1, DealerDraws
<1>5. x % Modulus = Mask(tape, 0)[g]
  <2>1. [i \in Parties |-> DealerDraw(i, 1)] = [i \in Parties |-> Draw(tape, i, g, 2)]
    BY <1>4
  <2>2. DealerDraw(nP, 0) = Draw(tape, nP, g, 1)
    BY <1>2, <1>4
  <2>3. x % Modulus = DealtMask(tape, g)
    BY <2>1, <2>2 DEF DealtMask
  <2> QED BY <1>1, <1>3, <2>3, GateFacts DEF MaskRule
<1>6. y = GammaOf(tape, nP, g)
  <2>1. [i \in Parties |-> DealerDraw(i, 0)] = [i \in Parties |-> Draw(tape, i, g, 1)]
    BY <1>4
  <2>2. MaskProduct(g) = Product(tape, g)
    <3>1. \A j \in 1..Width(g) : In1(g, j) \in Ins(g) /\ In2(g, j) \in Ins(g)
      BY <1>1, GateFacts
    <3>2. [j \in 1..Width(g) |-> lambda[0][In1(g, j)] * lambda[0][In2(g, j)]]
            = [j \in 1..Width(g) |-> Mask(tape, 0)[In1(g, j)] * Mask(tape, 0)[In2(g, j)]]
      BY <1>3, <3>1
    <3> QED BY <3>2 DEF MaskProduct, Product
  <2>3. ~(nP < nP)
    BY Basics
  <2> QED BY <2>1, <2>2, <2>3 DEF GammaOf
<1>7. dpos' \in [Parties -> Nat] /\ \A i \in Parties : dpos'[i] = dpos[i] + DrawsAt(i, g)
  <2>1. \A i \in Parties : DrawsAt(i, g) = IF i < nP THEN 2 ELSE 1
    BY <1>1, GateFacts DEF DrawsAt
  <2>2. dpos \in [Parties -> Nat]
    BY DEF IInv, LocalTypes
  <2> QED BY <1>1, <2>1, <2>2
<1> HIDE DEF x, y
<1> QED BY <1>1, <1>5, <1>6, <1>7, DealerGate

(* SetupMultParty: gamma first, then the mask, as the dealer draws them.   *)
LEMMA SetupMultPartyInv ==
  ASSUME IInv, NEW p \in Parties, NEW g \in Wires, SetupMultParty(p, g)
  PROVE  IInv'
<1>1. /\ AtGate(p, g) /\ Advance(p) /\ IsMult(g) /\ p \in 1..(nP - 1)
      /\ gamma' = [gamma EXCEPT ![p][g] = PartyDraw(p, 0)]
      /\ SetMask(p, g, PartyDraw(p, 1))
      /\ ppos' = [ppos EXCEPT ![p] = @ + 2]
      /\ UNCHANGED <<randVars, onlineVars, netVars, dpos, toSend, rerand>>
  BY DEF SetupMultParty
<1>2. p \in Procs /\ p # 0 /\ p < nP
  BY <1>1, Basics
<1>3. /\ Mask(tape, p)[g] = MaskRule(tape, p, Mask(tape, p), g) /\ tape \in Tapes
      /\ Mask(tape, p)[g] % Modulus = Mask(tape, p)[g]
  BY <1>1, <1>2, VisitedMasks
<1>4. PartyDraw(p, 0) = Draw(tape, p, g, 1) /\ PartyDraw(p, 1) = Draw(tape, p, g, 2)
  BY <1>1, PartyDraws
<1>5. PartyDraw(p, 1) % Modulus = Mask(tape, p)[g]
  BY <1>1, <1>2, <1>3, <1>4, GateFacts DEF MaskRule
<1>6. /\ ppos' \in [Parties -> Nat] /\ ppos'[p] = ppos[p] + DrawsAt(p, g)
      /\ \A q \in Parties \ {p} : ppos'[q] = ppos[q]
  <2>1. DrawsAt(p, g) = 2
    BY <1>1, <1>2, GateFacts DEF DrawsAt
  <2>2. ppos \in [Parties -> Nat]
    BY DEF IInv, LocalTypes
  <2> QED BY <1>1, <2>1, <2>2
<1> DEFINE y == GammaOf(tape, p, g)
<1>7. gamma' = [gamma EXCEPT ![p][g] = y] /\ y \in Ring /\ gamma \in [Parties -> [Wires -> Ring]]
  <2>1. y = Draw(tape, p, g, 1)
    BY <1>2 DEF GammaOf
  <2>2. y \in Ring
    BY <1>1, <1>3, GammaSum
  <2> QED BY <1>1, <1>4, <2>1, <2>2 DEF IInv, LocalTypes
<1> HIDE DEF y
<1>8. /\ gamma' \in [Parties -> [Wires -> Ring]] /\ \A q \in Parties \ {p} : gamma'[q] = gamma[q]
      /\ \A w \in Wires : gamma'[p][w] = IF w = g THEN y ELSE gamma[p][w]
  BY <1>7
<1> QED BY <1>1, <1>2, <1>5, <1>6, <1>8, PartyGate DEF y

(* SetupMultLast: party nP draws its share of the mask only.               *)
LEMMA SetupMultLastInv ==
  ASSUME IInv, NEW g \in Wires, SetupMultLast(g)
  PROVE  IInv'
<1>1. /\ AtGate(nP, g) /\ Advance(nP) /\ IsMult(g)
      /\ SetMask(nP, g, PartyDraw(nP, 0))
      /\ ppos' = [ppos EXCEPT ![nP] = @ + 1]
      /\ UNCHANGED <<randVars, onlineVars, netVars, dpos, gamma, toSend, rerand>>
  BY DEF SetupMultLast
<1>2. nP \in Procs /\ nP # 0 /\ nP \in Parties /\ ~(nP < nP)
  BY Basics
<1>3. /\ Mask(tape, nP)[g] = MaskRule(tape, nP, Mask(tape, nP), g)
      /\ Mask(tape, nP)[g] % Modulus = Mask(tape, nP)[g]
  BY <1>1, <1>2, VisitedMasks
<1>4. PartyDraw(nP, 0) % Modulus = Mask(tape, nP)[g]
  <2>1. PartyDraw(nP, 0) = Draw(tape, nP, g, 1)
    BY <1>1, <1>2, PartyDraws
  <2> QED BY <1>1, <1>2, <1>3, <2>1, GateFacts DEF MaskRule
<1>5. /\ ppos' \in [Parties -> Nat] /\ ppos'[nP] = ppos[nP] + DrawsAt(nP, g)
      /\ \A q \in Parties \ {nP} : ppos'[q] = ppos[q]
  <2>1. DrawsAt(nP, g) = 1
    BY <1>1, <1>2, GateFacts DEF DrawsAt
  <2>2. ppos \in [Parties -> Nat]
    BY DEF IInv, LocalTypes
  <2> QED BY <1>1, <1>2, <2>1, <2>2
<1>6. gamma' = gamma /\ gamma \in [Parties -> [Wires -> Ring]]
  BY <1>1 DEF IInv, LocalTypes
<1> QED BY <1>1, <1>2, <1>4, <1>5, <1>6, PartyGate

(* Moving on to a method.                                                  *)
LEMMA GotoFacts ==
  ASSUME LocalTypes, NEW p \in Procs, NEW c \in Methods, NEW n \in Nat, Goto(p, c, n)
  PROVE  /\ pc' \in [Procs -> Methods] /\ at' \in [Procs -> Nat] /\ pc'[p] = c /\ at'[p] = n
         /\ \A q \in Procs \ {p} : pc'[q] = pc[q] /\ at'[q] = at[q]
BY DEF LocalTypes, Goto

(* The first message of a stream.                                          *)
LEMMA AppendEmpty == ASSUME NEW x PROVE Append(<< >>, x) = << x >>
OBVIOUS

(* Before the loop no gate's round is over, after it every gate's is.      *)
LEMMA Unvisited == \A w \in Wires : ~(Pos(w) <= 0) /\ Pos(w) <= NumGates
BY PosFacts, OrderFacts

(* A party that has its shares of zero begins the loop over the gates.     *)
LEMMA BeginParty ==
  ASSUME IInv, NEW p \in Parties, pc[p] = "outputSetup", Goto(p, "setup", 1),
         UNCHANGED <<randVars, onlineVars, dpos, lambda, gamma, toSend>>,
         rerand' \in [Procs -> [DOMAIN Outputs -> Ring]],
         \A q \in Procs \ {p} : rerand'[q] = rerand[q],
         \A k \in DOMAIN Outputs : rerand'[p][k] = ZeroOf(tape, p, k),
         ppos' \in [Parties -> Nat], \A q \in Parties \ {p} : ppos'[q] = ppos[q],
         ppos'[p] = Drawn(p, 0)
  PROVE  LocalTypes' /\ Frame(p) /\ PartyInv(p)' /\ pc'[p] = "setup" /\ at'[p] = 1
<1>0. p \in Procs /\ p # 0 /\ "setup" \in Methods /\ 1 \in Nat
  BY Basics DEF Methods
<1>1. LocalTypes /\ PartyInv(p)
  BY DEF IInv
<1>2. /\ pc' \in [Procs -> Methods] /\ at' \in [Procs -> Nat] /\ pc'[p] = "setup" /\ at'[p] = 1
      /\ \A q \in Procs \ {p} : pc'[q] = pc[q] /\ at'[q] = at[q]
  BY <1>0, <1>1, GotoFacts
<1>3. /\ tape' = tape /\ inputs' = inputs /\ m' = m /\ shares' = shares /\ outvals' = outvals
      /\ dpos' = dpos /\ lambda' = lambda /\ gamma' = gamma /\ toSend' = toSend
  BY DEF randVars, onlineVars
<1>4. LocalTypes'
  BY <1>1, <1>2, <1>3 DEF LocalTypes
<1>5. Frame(p)
  BY <1>2, <1>3 DEF Frame
<1>6. PlaceOk(p, pc'[p], at'[p])
  BY <1>2, OrderFacts DEF PlaceOk
<1>7. Steps(pc'[p], at'[p]) = 0
  BY <1>2 DEF Steps
<1>8. DrawsOk(p, pc'[p], at'[p], ppos'[p]) /\ ZerosOk(tape, p, pc'[p], rerand'[p])
  BY <1>2, <1>7 DEF DrawsOk, ZerosOk
<1>9. MasksOk(tape, p, pc'[p], at'[p], lambda[p]) /\ GammasOk(tape, p, pc'[p], at'[p], gamma[p])
  BY <1>7, Unvisited DEF MasksOk, GammasOk
<1>10. /\ MaskedOk(tape, Plain, p, pc[p], at[p], m[p])'
       /\ SharesOk(tape, Plain, p, pc[p], at[p], shares[p])'
       /\ OutvalsOk(Plain, pc[p], outvals[p])'
  <2>1. pc[p] \in Early /\ pc'[p] \in Early
    BY <1>2 DEF Early
  <2> QED BY <1>1, <1>3, <2>1, EarlyKeep
<1>11. PartyInv(p)'
  BY <1>3, <1>6, <1>8, <1>9, <1>10 DEF PartyInv
<1> QED BY <1>2, <1>4, <1>5, <1>11

(* OutputSetupOther: these parties draw their shares of zero.              *)
LEMMA OutputSetupOtherInv ==
  ASSUME IInv, NEW p \in Parties, OutputSetupOther(p)
  PROVE  IInv'
<1> DEFINE z == [k \in DOMAIN Outputs |-> PartyDraw(p, k - 1)]
<1>1. /\ pc[p] = "outputSetup" /\ p >= 2 /\ Goto(p, "setup", 1)
      /\ rerand' = [rerand EXCEPT ![p] = z]
      /\ ppos' = [ppos EXCEPT ![p] = @ + Len(Outputs)]
      /\ UNCHANGED <<randVars, onlineVars, netVars, dpos, lambda, gamma, toSend>>
  BY DEF OutputSetupOther
<1>2. p \in Procs /\ p # 0 /\ p # 1
  BY <1>1, Basics
<1>3. /\ tape \in Tapes /\ ppos \in [Parties -> Nat] /\ rerand \in [Procs -> [DOMAIN Outputs -> Ring]]
      /\ ppos[p] = 0
  BY <1>1 DEF IInv, LocalTypes, PartyInv, DrawsOk
<1>4. \A k \in DOMAIN Outputs : z[k] = ZeroOf(tape, p, k) /\ z[k] \in Ring
  <2> TAKE k \in DOMAIN Outputs
  <2>1. k \in Nat
    BY OutputFacts
  <2>2. ppos[p] + 1 + (k - 1) = k
    BY <1>3, <2>1
  <2>3. z[k] = tape[p][k]
    BY <2>2 DEF PartyDraw
  <2>4. tape[p][k] \in Ring
    BY <1>3, TapeFacts
  <2> QED BY <1>1, <2>3, <2>4 DEF ZeroOf
<1>5. z \in [DOMAIN Outputs -> Ring]
  BY <1>4
<1> HIDE DEF z
<1>6. /\ rerand' \in [Procs -> [DOMAIN Outputs -> Ring]] /\ rerand'[p] = z
      /\ \A q \in Procs \ {p} : rerand'[q] = rerand[q]
  BY <1>1, <1>2, <1>3, <1>5
<1>7. /\ ppos' \in [Parties -> Nat] /\ ppos'[p] = Drawn(p, 0)
      /\ \A q \in Parties \ {p} : ppos'[q] = ppos[q]
  <2>1. Len(Outputs) \in Nat /\ Drawn(p, 0) = Len(Outputs)
    BY <1>2, OutputFacts, DrawnFacts
  <2> QED BY <1>1, <1>3, <2>1
<1>8. LocalTypes' /\ Frame(p) /\ PartyInv(p)' /\ pc'[p] = "setup" /\ at'[p] = 1
  BY <1>1, <1>4, <1>6, <1>7, BeginParty
<1>9. Quiet(p)
  BY <1>1, <1>2, <1>8 DEF Quiet, Early, GotInputs
<1>10. NetInv'
  BY <1>2, <1>8, <1>9, QuietInv DEF IInv
<1> QED BY <1>8, <1>10, FromStep

(* The streams that carry nothing but what a process sends at one place.   *)
LEMMA OutputSetupFirstInv ==
  ASSUME IInv, OutputSetupFirst
  PROVE  IInv'
<1>1. /\ pc[1] = "outputSetup" /\ Arrived(1, 0) /\ rerand' = [rerand EXCEPT ![1] = NextMsg(1, 0)]
      /\ Consume(1, 0) /\ Goto(1, "setup", 1)
      /\ UNCHANGED <<randVars, onlineVars, dpos, ppos, lambda, gamma, toSend>>
  BY DEF OutputSetupFirst
<1>2. /\ 0 \in Procs /\ 1 \in Procs /\ 1 \in Parties /\ nP \in Parties /\ nP \in Procs /\ nP # 1
      /\ \A i \in Parties : i # 0 /\ i \in Procs
  BY Basics
<1>3. NetTypeOK(Seq(Ring)) /\ NetOK /\ AllFlushed /\ StreamsInv
  BY DEF IInv, NetInv
<1>4. /\ \A a, b \in Procs : read'[a][b] = IF a = 0 /\ b = 1 THEN read[a][b] + 1 ELSE read[a][b]
      /\ log' = log /\ read[0][1] < Len(log[0][1])
      /\ NetTypeOK(Seq(Ring))' /\ NetOK' /\ AllFlushed'
  BY <1>1, <1>2, <1>3, ConsumeFacts
<1>5. read[0][1] = 0 /\ log[0][1] = << ZeroMsg(tape) >> /\ pc[0] # "outputSetup"
  <2>1. read[0][1] = 0
    BY <1>1, <1>3 DEF StreamsInv
  <2>2. log[0][1] # << >>
    BY <1>4, <2>1
  <2> QED BY <1>3, <2>1, <2>2 DEF StreamsInv
<1>6. NextMsg(1, 0) = ZeroMsg(tape)
  BY <1>5 DEF NextMsg
<1>7. /\ tape \in Tapes /\ ppos \in [Parties -> Nat] /\ rerand \in [Procs -> [DOMAIN Outputs -> Ring]]
      /\ ppos[1] = 0
  BY <1>1, <1>2 DEF IInv, LocalTypes, PartyInv, DrawsOk
<1>8. ZeroMsg(tape) \in [DOMAIN Outputs -> Ring]
  <2>1. \A k \in DOMAIN Outputs : ZeroOf(tape, 1, k) \in Ring
    BY <1>2, <1>7, ZeroSum
  <2> QED BY <2>1 DEF ZeroMsg
<1>9. /\ rerand' \in [Procs -> [DOMAIN Outputs -> Ring]] /\ rerand'[1] = ZeroMsg(tape)
      /\ \A q \in Procs \ {1} : rerand'[q] = rerand[q]
  BY <1>1, <1>2, <1>6, <1>7, <1>8
<1>10. \A k \in DOMAIN Outputs : rerand'[1][k] = ZeroOf(tape, 1, k)
  BY <1>9 DEF ZeroMsg
<1>11. ppos' = ppos /\ ppos[1] = Drawn(1, 0)
  BY <1>1, <1>2, <1>7, DrawnFacts
<1>12. LocalTypes' /\ Frame(1) /\ PartyInv(1)' /\ pc'[1] = "setup" /\ at'[1] = 1
  BY <1>1, <1>2, <1>7, <1>9, <1>10, <1>11, BeginParty
<1>13. /\ tape' = tape /\ Plain' = Plain
       /\ \A q \in Procs \ {1} : pc'[q] = pc[q] /\ at'[q] = at[q]
  BY <1>12, PlainSame DEF Frame
<1>14. StreamsInv'
  <2>1. /\ log[0][1] = IF pc'[0] = "outputSetup" THEN << >> ELSE << ZeroMsg(tape) >>
        /\ read'[0][1] = IF pc'[1] = "outputSetup" THEN 0 ELSE 1
        /\ log[0][nP] = IF pc'[0] = "done" THEN << GammaMsg(tape, NumGates) >> ELSE << >>
        /\ read'[0][nP] = IF pc'[nP] \in {"outputSetup", "setup"} THEN 0 ELSE 1
    BY <1>2, <1>3, <1>4, <1>5, <1>12, <1>13 DEF StreamsInv
  <2>2. ASSUME NEW i \in Parties, NEW p \in Parties, i # p
        PROVE  /\ log[i][p] = IF pc'[i] \in Early \/ ~Sends(i) THEN << >> ELSE << InputMsg(tape, Plain, i) >>
               /\ read'[i][p] = IF GotInputs(p, pc'[p], at'[p], i) /\ Sends(i) THEN 1 ELSE 0
    <3>1. pc'[i] \in Early <=> pc[i] \in Early
      BY <1>1, <1>2, <1>12, <1>13 DEF Early
    <3>2. GotInputs(p, pc'[p], at'[p], i) <=> GotInputs(p, pc[p], at[p], i)
      BY <1>1, <1>2, <1>12, <1>13 DEF GotInputs, Early
    <3>3. read'[i][p] = read[i][p]
      BY <1>2, <1>4
    <3> QED BY <1>3, <2>2, <3>1, <3>2, <3>3 DEF StreamsInv
  <2> QED BY <1>4, <1>13, <2>1, <2>2 DEF StreamsInv
<1>15. NetInv'
  BY <1>4, <1>14 DEF NetInv
<1> QED BY <1>2, <1>12, <1>15, FromStep

(* OutputSetupDealer: the dealer draws the same and completes them.        *)
LEMMA OutputSetupDealerInv ==
  ASSUME IInv, OutputSetupDealer
  PROVE  IInv'
<1> DEFINE drawn(k) == [i \in Parties |-> IF i = 1 THEN 0 ELSE DealerDraw(i, k - 1)]
           first == [k \in DOMAIN Outputs |-> (0 - SumTo(nP, drawn(k))) % Modulus]
           msgs == [q \in {1} |-> first]
<1>1. /\ pc[0] = "outputSetup" /\ rerand' = [rerand EXCEPT ![0] = first] /\ Send(0, msgs)
      /\ dpos' = [i \in Parties |-> IF i = 1 THEN dpos[i] ELSE dpos[i] + Len(Outputs)]
      /\ Goto(0, "setup", 1)
      /\ UNCHANGED <<randVars, onlineVars, ppos, lambda, gamma, toSend>>
  BY DEF OutputSetupDealer
<1>2. /\ 0 \in Procs /\ 1 \in Procs /\ 1 \in Parties /\ nP \in Parties /\ nP \in Procs /\ nP # 1
      /\ (\A i \in Parties : i # 0 /\ i \in Procs) /\ "setup" \in Methods /\ 1 \in Nat
  BY Basics DEF Methods
<1>3. LocalTypes /\ DealerInv /\ NetTypeOK(Seq(Ring)) /\ NetOK /\ AllFlushed /\ StreamsInv
  BY DEF IInv, NetInv
<1>4. /\ tape \in Tapes /\ dpos \in [Parties -> Nat] /\ rerand \in [Procs -> [DOMAIN Outputs -> Ring]]
      /\ \A i \in Parties : dpos[i] = 0
  BY <1>1, <1>3 DEF DealerInv, LocalTypes, DrawsOk
<1>5. first = ZeroMsg(tape) /\ \A k \in DOMAIN Outputs : first[k] = ZeroOf(tape, 0, k)
  <2>1. ASSUME NEW k \in DOMAIN Outputs
        PROVE  first[k] = ZeroOf(tape, 0, k) /\ first[k] = ZeroOf(tape, 1, k)
    <3>1. k \in Nat
      BY OutputFacts
    <3>2. \A i \in Parties : DealerDraw(i, k - 1) = tape[i][k]
      <4> TAKE i \in Parties
      <4>1. dpos[i] + 1 + (k - 1) = k
        BY <1>4, <3>1
      <4> QED BY <4>1 DEF DealerDraw
    <3>3. drawn(k) = [i \in Parties |-> IF i = 1 THEN 0 ELSE tape[i][k]]
      BY <3>2
    <3>4. first[k] = (0 - OtherZeros(tape, k)) % Modulus
      BY <3>3 DEF OtherZeros
    <3> HIDE DEF first
    <3> QED BY <3>4 DEF ZeroOf
  <2>2. first = [k \in DOMAIN Outputs |-> first[k]]
    OBVIOUS
  <2> HIDE DEF first
  <2> QED BY <2>1, <2>2 DEF ZeroMsg
<1>6. ZeroMsg(tape) \in [DOMAIN Outputs -> Ring] /\ ZeroMsg(tape) \in Seq(Ring)
  <2>1. \A k \in DOMAIN Outputs : ZeroOf(tape, 1, k) \in Ring
    BY <1>2, <1>4, ZeroSum
  <2>2. DOMAIN Outputs = 1..Len(Outputs) /\ Len(Outputs) \in Nat
    BY OutputFacts
  <2> QED BY <2>1, <2>2 DEF ZeroMsg
<1>7. DOMAIN msgs = {1} /\ msgs[1] = ZeroMsg(tape)
  BY <1>5
<1> HIDE DEF first, msgs
<1>8. /\ \A a, b \in Procs :
           log'[a][b] = IF a = 0 /\ b \in {1} THEN Append(log[a][b], msgs[b]) ELSE log[a][b]
      /\ read' = read /\ NetTypeOK(Seq(Ring))' /\ NetOK' /\ AllFlushed'
  <2>1. DOMAIN msgs \subseteq Procs /\ \A q \in DOMAIN msgs : msgs[q] \in Seq(Ring)
    BY <1>2, <1>6, <1>7
  <2> QED BY <1>1, <1>2, <1>3, <1>7, <2>1, SendFacts
<1>9. /\ pc' \in [Procs -> Methods] /\ at' \in [Procs -> Nat] /\ pc'[0] = "setup" /\ at'[0] = 1
      /\ \A q \in Procs \ {0} : pc'[q] = pc[q] /\ at'[q] = at[q]
  BY <1>1, <1>2, <1>3, GotoFacts
<1>10. /\ tape' = tape /\ inputs' = inputs /\ m' = m /\ shares' = shares /\ outvals' = outvals
       /\ ppos' = ppos /\ lambda' = lambda /\ gamma' = gamma /\ toSend' = toSend
  BY <1>1 DEF randVars, onlineVars
<1>11. /\ rerand' \in [Procs -> [DOMAIN Outputs -> Ring]] /\ rerand'[0] = first
       /\ \A q \in Procs \ {0} : rerand'[q] = rerand[q]
  BY <1>1, <1>2, <1>4, <1>5, <1>6
<1>12. dpos' \in [Parties -> Nat] /\ \A i \in Parties : dpos'[i] = Drawn(i, 0)
  <2>1. Len(Outputs) \in Nat
    BY OutputFacts
  <2>2. \A i \in Parties : Drawn(i, 0) = IF i = 1 THEN 0 ELSE Len(Outputs)
    BY DrawnFacts
  <2> QED BY <1>1, <1>4, <2>1, <2>2
<1>13. LocalTypes'
  BY <1>3, <1>9, <1>10, <1>11, <1>12 DEF LocalTypes
<1>14. Frame(0)
  BY <1>2, <1>9, <1>10, <1>11 DEF Frame
<1>15. DealerInv'
  <2>1. Steps(pc[0], at[0]) = 0 /\ Steps(pc'[0], at'[0]) = 0
    BY <1>1, <1>9 DEF Steps
  <2>2. PlaceOk(0, pc'[0], at'[0])
    BY <1>9, OrderFacts DEF PlaceOk
  <2>3. \A i \in Parties : DrawsOk(i, pc'[0], at'[0], dpos'[i])
    BY <1>9, <1>12, <2>1 DEF DrawsOk
  <2>4. ZerosOk(tape, 0, pc'[0], rerand'[0])
    BY <1>5, <1>11 DEF ZerosOk
  <2>5. MasksOk(tape, 0, pc'[0], at'[0], lambda[0])
    BY <2>1, Unvisited DEF MasksOk
  <2> QED BY <1>3, <1>9, <1>10, <2>1, <2>2, <2>3, <2>4, <2>5 DEF DealerInv
<1>16. StreamsInv'
  <2>1. log'[0][1] = << ZeroMsg(tape) >>
    <3>1. log[0][1] = << >>
      BY <1>1, <1>3 DEF StreamsInv
    <3>2. log'[0][1] = Append(<< >>, ZeroMsg(tape))
      BY <1>2, <1>7, <1>8, <3>1
    <3> QED BY <3>2, AppendEmpty
  <2>2. \A a, b \in Procs : a # 0 \/ b # 1 => log'[a][b] = log[a][b]
    BY <1>8
  <2>3. Plain' = Plain
    BY <1>10, PlainSame
  <2>4. /\ log'[0][1] = IF pc'[0] = "outputSetup" THEN << >> ELSE << ZeroMsg(tape) >>
        /\ read[0][1] = IF pc'[1] = "outputSetup" THEN 0 ELSE 1
        /\ log'[0][nP] = IF pc'[0] = "done" THEN << GammaMsg(tape, NumGates) >> ELSE << >>
        /\ read[0][nP] = IF pc'[nP] \in {"outputSetup", "setup"} THEN 0 ELSE 1
    BY <1>1, <1>2, <1>3, <1>9, <2>1, <2>2 DEF StreamsInv
  <2>5. ASSUME NEW i \in Parties, NEW p \in Parties, i # p
        PROVE  /\ log'[i][p] = IF pc'[i] \in Early \/ ~Sends(i) THEN << >> ELSE << InputMsg(tape, Plain, i) >>
               /\ read[i][p] = IF GotInputs(p, pc'[p], at'[p], i) /\ Sends(i) THEN 1 ELSE 0
    <3>1. pc'[i] = pc[i] /\ pc'[p] = pc[p] /\ at'[p] = at[p] /\ log'[i][p] = log[i][p]
      BY <1>2, <1>9, <2>2
    <3> QED BY <1>3, <2>5, <3>1 DEF StreamsInv
  <2> QED BY <1>8, <1>10, <2>3, <2>4, <2>5 DEF StreamsInv
<1>17. NetInv'
  BY <1>8, <1>16 DEF NetInv
<1> QED BY <1>13, <1>14, <1>15, <1>17, FromDealerStep

(* At the end of the loop every gate's round is over.                      *)
LEMMA AllGates ==
  ASSUME NEW p, PlaceOk(p, pc[p], at[p]), pc[p] = "setup", at[p] > Len(Order)
  PROVE  Steps(pc[p], at[p]) = NumGates
<1>1. NumGates \in Nat /\ at[p] \in 1..(NumGates + 1) /\ at[p] > NumGates
  BY OrderFacts DEF PlaceOk
<1>2. at[p] - 1 = NumGates
  BY <1>1
<1> QED BY <1>2 DEF Steps

(* A party with all its shares of gamma leaves the setup.                  *)
LEMMA LeaveSetup ==
  ASSUME IInv, NEW p \in Parties, pc[p] = "setup", at[p] > Len(Order), Goto(p, "setInputs", 1),
         UNCHANGED <<randVars, onlineVars, dpos, ppos, lambda, toSend, rerand>>,
         gamma' \in [Parties -> [Wires -> Ring]], \A q \in Parties \ {p} : gamma'[q] = gamma[q],
         GammasOk(tape, p, "setInputs", 1, gamma'[p])
  PROVE  LocalTypes' /\ Frame(p) /\ PartyInv(p)' /\ pc'[p] = "setInputs" /\ at'[p] = 1
<1>0. p \in Procs /\ p # 0 /\ "setInputs" \in Methods /\ 1 \in Nat
  BY Basics DEF Methods
<1>1. LocalTypes /\ PartyInv(p)
  BY DEF IInv
<1>2. /\ pc' \in [Procs -> Methods] /\ at' \in [Procs -> Nat] /\ pc'[p] = "setInputs" /\ at'[p] = 1
      /\ \A q \in Procs \ {p} : pc'[q] = pc[q] /\ at'[q] = at[q]
  BY <1>0, <1>1, GotoFacts
<1>3. /\ tape' = tape /\ inputs' = inputs /\ m' = m /\ shares' = shares /\ outvals' = outvals
      /\ dpos' = dpos /\ ppos' = ppos /\ lambda' = lambda /\ toSend' = toSend /\ rerand' = rerand
  BY DEF randVars, onlineVars
<1>4. LocalTypes'
  BY <1>1, <1>2, <1>3 DEF LocalTypes
<1>5. Frame(p)
  BY <1>2, <1>3 DEF Frame
<1>6. PlaceOk(p, pc'[p], at'[p])
  BY <1>2 DEF PlaceOk
<1>7. Steps(pc'[p], at'[p]) = NumGates /\ Steps(pc[p], at[p]) = NumGates
  BY <1>1, <1>2, AllGates DEF Steps, PartyInv
<1>8. DrawsOk(p, pc'[p], at'[p], ppos[p]) /\ ZerosOk(tape, p, pc'[p], rerand[p])
  BY <1>1, <1>2, <1>7 DEF DrawsOk, ZerosOk, PartyInv
<1>9. MasksOk(tape, p, pc'[p], at'[p], lambda[p])
  BY <1>1, <1>2, <1>7 DEF MasksOk, PartyInv
<1>10. /\ MaskedOk(tape, Plain, p, pc[p], at[p], m[p])'
       /\ SharesOk(tape, Plain, p, pc[p], at[p], shares[p])'
       /\ OutvalsOk(Plain, pc[p], outvals[p])'
  <2>1. pc[p] \in Early /\ pc'[p] \in Early
    BY <1>2 DEF Early
  <2> QED BY <1>1, <1>3, <2>1, EarlyKeep
<1>11. PartyInv(p)'
  BY <1>2, <1>3, <1>6, <1>8, <1>9, <1>10 DEF PartyInv
<1> QED BY <1>2, <1>4, <1>5, <1>11

(* EndSetup: the others have drawn theirs.                                 *)
LEMMA EndSetupInv ==
  ASSUME IInv, NEW p \in Parties, EndSetup(p)
  PROVE  IInv'
<1>1. /\ pc[p] = "setup" /\ at[p] > Len(Order) /\ p \in 1..(nP - 1) /\ Goto(p, "setInputs", 1)
      /\ UNCHANGED <<randVars, onlineVars, dpos, ppos, lambda, gamma, toSend, rerand, netVars>>
  BY DEF EndSetup, setupVars
<1>2. p \in Procs /\ p # 0 /\ p < nP
  BY <1>1, Basics
<1>3. gamma' = gamma /\ gamma \in [Parties -> [Wires -> Ring]]
  BY <1>1 DEF IInv, LocalTypes
<1>4. GammasOk(tape, p, "setInputs", 1, gamma'[p])
  <2>1. GammasOk(tape, p, pc[p], at[p], gamma[p]) /\ Steps(pc[p], at[p]) = NumGates
    BY <1>1, AllGates DEF IInv, PartyInv
  <2> QED BY <1>2, <1>3, <2>1 DEF GammasOk, Steps
<1>5. LocalTypes' /\ Frame(p) /\ PartyInv(p)' /\ pc'[p] = "setInputs" /\ at'[p] = 1
  BY <1>1, <1>3, <1>4, LeaveSetup
<1>6. Quiet(p)
  BY <1>1, <1>2, <1>5 DEF Quiet, Early, GotInputs
<1>7. NetInv'
  BY <1>2, <1>5, <1>6, QuietInv DEF IInv
<1> QED BY <1>5, <1>7, FromStep

(* RecvGamma: party nP finds its shares at the positions of the dealer's   *)
(* loop.                                                                   *)
LEMMA RecvGammaInv ==
  ASSUME IInv, RecvGamma
  PROVE  IInv'
<1> DEFINE chosen(w) == NextMsg(nP, 0)[CHOOSE j \in DOMAIN MultOrder : MultOrder[j] = w]
           g == [w \in Wires |-> IF IsMult(w) THEN chosen(w) ELSE gamma[nP][w]]
<1>1. /\ pc[nP] = "setup" /\ at[nP] > Len(Order) /\ Arrived(nP, 0)
      /\ gamma' = [gamma EXCEPT ![nP] = g]
      /\ Consume(nP, 0) /\ Goto(nP, "setInputs", 1)
      /\ UNCHANGED <<randVars, onlineVars, dpos, ppos, lambda, toSend, rerand>>
  <2>1. gamma' = [gamma EXCEPT ![nP] = [w \in Wires |->
                 IF IsMult(w)
                 THEN NextMsg(nP, 0)[CHOOSE j \in DOMAIN MultOrder : MultOrder[j] = w]
                 ELSE @[w]]]
    BY DEF RecvGamma
  <2> QED BY <2>1 DEF RecvGamma
<1>2. /\ 0 \in Procs /\ 1 \in Procs /\ 1 \in Parties /\ nP \in Parties /\ nP \in Procs /\ nP # 1
      /\ \A i \in Parties : i # 0 /\ i \in Procs
  BY Basics
<1>3. NetTypeOK(Seq(Ring)) /\ NetOK /\ AllFlushed /\ StreamsInv
  BY DEF IInv, NetInv
<1>4. /\ \A a, b \in Procs : read'[a][b] = IF a = 0 /\ b = nP THEN read[a][b] + 1 ELSE read[a][b]
      /\ log' = log /\ read[0][nP] < Len(log[0][nP])
      /\ NetTypeOK(Seq(Ring))' /\ NetOK' /\ AllFlushed'
  BY <1>1, <1>2, <1>3, ConsumeFacts
<1>5. read[0][nP] = 0 /\ log[0][nP] = << GammaMsg(tape, NumGates) >>
  <2>1. read[0][nP] = 0
    BY <1>1, <1>3 DEF StreamsInv
  <2>2. log[0][nP] # << >>
    BY <1>4, <2>1
  <2> QED BY <1>3, <2>1, <2>2 DEF StreamsInv
<1>6. NextMsg(nP, 0) = GammaMsg(tape, NumGates)
  BY <1>5 DEF NextMsg
<1>7. tape \in Tapes /\ gamma \in [Parties -> [Wires -> Ring]]
  BY DEF IInv, LocalTypes
<1>8. ASSUME NEW w \in Wires, IsMult(w) PROVE chosen(w) = GammaOf(tape, nP, w)
  <2>1. MultOrder = Mults(NumGates)
    BY OrderFacts DEF MultOrder, Mults
  <2> DEFINE j == CHOOSE j \in DOMAIN MultOrder : MultOrder[j] = w
  <2>2. j \in DOMAIN Mults(NumGates) /\ Mults(NumGates)[j] = w
    BY <1>8, <2>1, MultsFacts
  <2>3. chosen(w) = GammaMsg(tape, NumGates)[j]
    BY <1>6
  <2> HIDE DEF j
  <2> QED BY <2>2, <2>3 DEF GammaMsg
<1>9. g \in [Wires -> Ring] /\ \A w \in Wires : IsMult(w) => g[w] = GammaOf(tape, nP, w)
  <2> HIDE DEF chosen
  <2>1. ASSUME NEW w \in Wires PROVE g[w] \in Ring /\ (IsMult(w) => g[w] = GammaOf(tape, nP, w))
    <3>1. IsMult(w) => GammaOf(tape, nP, w) \in Ring
      BY <1>2, <1>7, GammaSum
    <3>2. gamma[nP][w] \in Ring
      BY <1>2, <1>7
    <3> QED BY <1>8, <3>1, <3>2
  <2> QED BY <2>1
<1> HIDE DEF g
<1>10. /\ gamma' \in [Parties -> [Wires -> Ring]] /\ gamma'[nP] = g
       /\ \A q \in Parties \ {nP} : gamma'[q] = gamma[q]
  BY <1>1, <1>2, <1>7, <1>9
<1>11. GammasOk(tape, nP, "setInputs", 1, gamma'[nP])
  BY <1>9, <1>10 DEF GammasOk
<1>12. LocalTypes' /\ Frame(nP) /\ PartyInv(nP)' /\ pc'[nP] = "setInputs" /\ at'[nP] = 1
  BY <1>1, <1>2, <1>10, <1>11, LeaveSetup
<1>13. /\ tape' = tape /\ Plain' = Plain
       /\ \A q \in Procs \ {nP} : pc'[q] = pc[q] /\ at'[q] = at[q]
  BY <1>12, PlainSame DEF Frame
<1>14. StreamsInv'
  <2>1. /\ log[0][1] = IF pc'[0] = "outputSetup" THEN << >> ELSE << ZeroMsg(tape) >>
        /\ read'[0][1] = IF pc'[1] = "outputSetup" THEN 0 ELSE 1
        /\ log[0][nP] = IF pc'[0] = "done" THEN << GammaMsg(tape, NumGates) >> ELSE << >>
        /\ read'[0][nP] = IF pc'[nP] \in {"outputSetup", "setup"} THEN 0 ELSE 1
    BY <1>2, <1>3, <1>4, <1>5, <1>12, <1>13 DEF StreamsInv
  <2>2. ASSUME NEW i \in Parties, NEW p \in Parties, i # p
        PROVE  /\ log[i][p] = IF pc'[i] \in Early \/ ~Sends(i) THEN << >> ELSE << InputMsg(tape, Plain, i) >>
               /\ read'[i][p] = IF GotInputs(p, pc'[p], at'[p], i) /\ Sends(i) THEN 1 ELSE 0
    <3>1. pc'[i] \in Early <=> pc[i] \in Early
      BY <1>1, <1>2, <1>12, <1>13 DEF Early
    <3>2. GotInputs(p, pc'[p], at'[p], i) <=> GotInputs(p, pc[p], at[p], i)
      BY <1>1, <1>2, <1>12, <1>13 DEF GotInputs, Early
    <3>3. read'[i][p] = read[i][p]
      BY <1>2, <1>4
    <3> QED BY <1>3, <2>2, <3>1, <3>2, <3>3 DEF StreamsInv
  <2> QED BY <1>4, <1>13, <2>1, <2>2 DEF StreamsInv
<1>15. NetInv'
  BY <1>4, <1>14 DEF NetInv
<1> QED BY <1>2, <1>12, <1>15, FromStep

(* SendGamma: the dealer's message is complete, and its last.              *)
LEMMA SendGammaInv ==
  ASSUME IInv, SendGamma
  PROVE  IInv'
<1> DEFINE msgs == [q \in {nP} |-> toSend]
<1>1. /\ pc[0] = "setup" /\ at[0] > Len(Order) /\ Send(0, msgs) /\ Goto(0, "done", 1)
      /\ UNCHANGED <<randVars, onlineVars, dpos, ppos, lambda, gamma, toSend, rerand>>
  BY DEF SendGamma, setupVars
<1>2. /\ 0 \in Procs /\ 1 \in Procs /\ 1 \in Parties /\ nP \in Parties /\ nP \in Procs /\ nP # 1
      /\ (\A i \in Parties : i # 0 /\ i \in Procs) /\ "done" \in Methods /\ 1 \in Nat
  BY Basics DEF Methods
<1>3. LocalTypes /\ DealerInv /\ NetTypeOK(Seq(Ring)) /\ NetOK /\ AllFlushed /\ StreamsInv
  BY DEF IInv, NetInv
<1>4. /\ pc' \in [Procs -> Methods] /\ at' \in [Procs -> Nat] /\ pc'[0] = "done" /\ at'[0] = 1
      /\ \A q \in Procs \ {0} : pc'[q] = pc[q] /\ at'[q] = at[q]
  BY <1>1, <1>2, <1>3, GotoFacts
<1>5. Steps(pc[0], at[0]) = NumGates /\ Steps(pc'[0], at'[0]) = NumGates
  BY <1>1, <1>3, <1>4, AllGates DEF Steps, DealerInv
<1>6. toSend = GammaMsg(tape, NumGates) /\ toSend \in Seq(Ring)
  BY <1>3, <1>5 DEF DealerInv, LocalTypes
<1>7. DOMAIN msgs = {nP} /\ msgs[nP] = toSend
  OBVIOUS
<1> HIDE DEF msgs
<1>8. /\ \A a, b \in Procs :
           log'[a][b] = IF a = 0 /\ b \in {nP} THEN Append(log[a][b], msgs[b]) ELSE log[a][b]
      /\ read' = read /\ NetTypeOK(Seq(Ring))' /\ NetOK' /\ AllFlushed'
  <2>1. DOMAIN msgs \subseteq Procs /\ \A q \in DOMAIN msgs : msgs[q] \in Seq(Ring)
    BY <1>2, <1>6, <1>7
  <2> QED BY <1>1, <1>2, <1>3, <1>7, <2>1, SendFacts
<1>10. /\ tape' = tape /\ inputs' = inputs /\ m' = m /\ shares' = shares /\ outvals' = outvals
       /\ dpos' = dpos /\ ppos' = ppos /\ lambda' = lambda /\ gamma' = gamma /\ toSend' = toSend /\ rerand' = rerand
  BY <1>1 DEF randVars, onlineVars
<1>13. LocalTypes'
  BY <1>3, <1>4, <1>10 DEF LocalTypes
<1>14. Frame(0)
  BY <1>2, <1>4, <1>10 DEF Frame
<1>15. DealerInv'
  <2>2. PlaceOk(0, pc'[0], at'[0])
    BY <1>4 DEF PlaceOk
  <2>3. \A i \in Parties : DrawsOk(i, pc'[0], at'[0], dpos[i])
    BY <1>1, <1>3, <1>4, <1>5 DEF DrawsOk, DealerInv
  <2>4. ZerosOk(tape, 0, pc'[0], rerand[0])
    BY <1>1, <1>3 DEF ZerosOk, DealerInv
  <2>5. MasksOk(tape, 0, pc'[0], at'[0], lambda[0])
    BY <1>1, <1>3, <1>5 DEF MasksOk, DealerInv
  <2> QED BY <1>4, <1>5, <1>6, <1>10, <2>2, <2>3, <2>4, <2>5 DEF DealerInv
<1>16. StreamsInv'
  <2>1. log'[0][nP] = << GammaMsg(tape, NumGates) >>
    <3>1. log[0][nP] = << >>
      BY <1>1, <1>3 DEF StreamsInv
    <3>2. log'[0][nP] = Append(<< >>, GammaMsg(tape, NumGates))
      BY <1>2, <1>6, <1>7, <1>8, <3>1
    <3> QED BY <3>2, AppendEmpty
  <2>2. \A a, b \in Procs : a # 0 \/ b # nP => log'[a][b] = log[a][b]
    BY <1>8
  <2>3. Plain' = Plain
    BY <1>10, PlainSame
  <2>4. /\ log'[0][1] = IF pc'[0] = "outputSetup" THEN << >> ELSE << ZeroMsg(tape) >>
        /\ read[0][1] = IF pc'[1] = "outputSetup" THEN 0 ELSE 1
        /\ log'[0][nP] = IF pc'[0] = "done" THEN << GammaMsg(tape, NumGates) >> ELSE << >>
        /\ read[0][nP] = IF pc'[nP] \in {"outputSetup", "setup"} THEN 0 ELSE 1
    BY <1>1, <1>2, <1>3, <1>4, <2>1, <2>2 DEF StreamsInv
  <2>5. ASSUME NEW i \in Parties, NEW p \in Parties, i # p
        PROVE  /\ log'[i][p] = IF pc'[i] \in Early \/ ~Sends(i) THEN << >> ELSE << InputMsg(tape, Plain, i) >>
               /\ read[i][p] = IF GotInputs(p, pc'[p], at'[p], i) /\ Sends(i) THEN 1 ELSE 0
    <3>1. pc'[i] = pc[i] /\ pc'[p] = pc[p] /\ at'[p] = at[p] /\ log'[i][p] = log[i][p]
      BY <1>2, <1>4, <2>2
    <3> QED BY <1>3, <2>5, <3>1 DEF StreamsInv
  <2> QED BY <1>8, <1>10, <2>3, <2>4, <2>5 DEF StreamsInv
<1>17. NetInv'
  BY <1>8, <1>16 DEF NetInv
<1> QED BY <1>13, <1>14, <1>15, <1>17, FromDealerStep

(* The inputs a party provides, as sender and receivers list them.         *)
LEMMA InputsFacts ==
  ASSUME NEW p
  PROVE  /\ InputsOf(p) \in Seq(Wires) /\ Len(InputsOf(p)) \in Nat /\ DOMAIN InputsOf(p) = 1..Len(InputsOf(p))
         /\ \A j \in DOMAIN InputsOf(p) : InputsOf(p)[j] \in InputWires /\ Owner[InputsOf(p)[j]] = p
         /\ Range(InputsOf(p)) = {w \in InputWires : Owner[w] = p}
         /\ \A w \in InputWires : Owner[w] = p => \E j \in DOMAIN InputsOf(p) : InputsOf(p)[j] = w
<1> DEFINE s == Layers[1]
           n == Len(s)
           T == {w \in InputWires : Owner[w] = p}
           c == InputsOf(p)
<1>1. n \in Nat /\ DOMAIN s = 1..n /\ (\A k \in 1..n : s[k] \in Wires) /\ Range(s) = InputWires
  BY LayerFacts, LayersAssumption
<1>2. c = Chosen(n, s, T)
  BY DEF InputsOf
<1> HIDE DEF s, n, T, c
<1>3. n \in 0..n
  BY <1>1
<1>4. c \in Seq(Wires) /\ Range(c) = Elements(n, s) \cap T
  <2>1. Chosen(n, s, T) \in Seq(Wires)
    BY <1>1, <1>3, ChosenFacts
  <2>2. Range(Chosen(n, s, T)) = Elements(n, s) \cap T
    <3>1. n \in Nat /\ \A k \in 1..n : s[k] \in Wires
      BY <1>1
    <3>2. \A k \in 0..n : Range(Chosen(k, s, T)) = Elements(k, s) \cap T
      BY <3>1, ChosenElements
    <3> QED BY <1>3, <3>2
  <2> QED BY <1>2, <2>1, <2>2
<1>5. Elements(n, s) = InputWires
  BY <1>1 DEF Elements, Range
<1>6. Range(c) = T
  BY <1>4, <1>5 DEF T
<1>7. Len(c) \in Nat /\ DOMAIN c = 1..Len(c)
  BY <1>4
<1>8. /\ \A j \in DOMAIN c : c[j] \in T
      /\ \A w \in T : \E j \in DOMAIN c : c[j] = w
  BY <1>6 DEF Range
<1> QED BY <1>4, <1>6, <1>7, <1>8 DEF T, c

(* The values and the streams of a state.                                  *)
LEMMA PlainOk ==
  ASSUME LocalTypes
  PROVE  PlainValues(inputs, Plain) /\ tape \in Tapes /\ inputs \in InputChoices
BY PlainFacts DEF LocalTypes, PlainValues

(* The parties are processes, and not the dealer.                          *)
LEMMA PartyIsProc == ASSUME NEW p \in Parties PROVE p \in Procs /\ p # 0
BY Basics

(* A step of p behind the setup, to method c with its loop at n.           *)
Online(p, c, n) ==
  /\ pc[p] \notin {"outputSetup", "setup"}
  /\ c \in Methods \ {"outputSetup", "setup"} /\ n \in Nat /\ Goto(p, c, n)
  /\ UNCHANGED <<randVars, dpos, ppos, gamma, toSend, rerand>>
  /\ lambda' \in [Procs -> [Wires -> Ring]] /\ \A q \in Procs \ {p} : lambda'[q] = lambda[q]
  /\ m' \in [Parties -> [Wires -> Ring]] /\ \A q \in Parties \ {p} : m'[q] = m[q]
  /\ shares' \in [Parties -> Seq(Seq(Ring))] /\ \A q \in Parties \ {p} : shares'[q] = shares[q]
  /\ outvals' \in [Parties -> Seq(Ring)] /\ \A q \in Parties \ {p} : outvals'[q] = outvals[q]

(* The setup's results stay, and so do the contributions not added to.     *)
LEMMA OnlineStep ==
  ASSUME IInv, NEW p \in Parties, NEW c, NEW n, Online(p, c, n)
  PROVE  /\ LocalTypes' /\ Frame(p) /\ pc'[p] = c /\ at'[p] = n
         /\ tape' = tape /\ Plain' = Plain
         /\ DrawsOk(p, pc[p], at[p], ppos[p])' /\ ZerosOk(tape, p, pc[p], rerand[p])'
         /\ GammasOk(tape, p, pc[p], at[p], gamma[p])'
         /\ lambda'[p] = lambda[p] /\ (c \in {"getOutputs", "done"} <=> pc[p] \in {"getOutputs", "done"})
              => MasksOk(tape, p, pc[p], at[p], lambda[p])'
         /\ shares'[p] = shares[p] /\ Contributed(c, n) = Contributed(pc[p], at[p])
              => SharesOk(tape, Plain, p, pc[p], at[p], shares[p])'
         /\ c # "done" => OutvalsOk(Plain, pc[p], outvals[p])'
<1>0. p \in Procs /\ p # 0
  BY PartyIsProc
<1> USE DEF Online
<1>1. LocalTypes /\ PartyInv(p)
  BY DEF IInv
<1>2. /\ pc' \in [Procs -> Methods] /\ at' \in [Procs -> Nat] /\ pc'[p] = c /\ at'[p] = n
      /\ \A q \in Procs \ {p} : pc'[q] = pc[q] /\ at'[q] = at[q]
  BY <1>0, <1>1, GotoFacts
<1>3. /\ tape' = tape /\ inputs' = inputs /\ Plain' = Plain
      /\ dpos' = dpos /\ ppos' = ppos /\ gamma' = gamma /\ toSend' = toSend /\ rerand' = rerand
  BY PlainSame DEF randVars
<1>4. LocalTypes'
  BY <1>1, <1>2, <1>3 DEF LocalTypes
<1>5. Frame(p)
  BY <1>2, <1>3 DEF Frame
<1>6. Steps(pc[p], at[p]) = NumGates /\ Steps(pc'[p], at'[p]) = NumGates
  BY <1>2 DEF Steps
<1>7. /\ DrawsOk(p, pc[p], at[p], ppos[p])' /\ ZerosOk(tape, p, pc[p], rerand[p])'
      /\ GammasOk(tape, p, pc[p], at[p], gamma[p])'
  BY <1>1, <1>2, <1>3, <1>6 DEF PartyInv, DrawsOk, ZerosOk, GammasOk
<1>8. ASSUME lambda'[p] = lambda[p], c \in {"getOutputs", "done"} <=> pc[p] \in {"getOutputs", "done"}
      PROVE  MasksOk(tape, p, pc[p], at[p], lambda[p])'
  BY <1>1, <1>2, <1>3, <1>6, <1>8 DEF PartyInv, MasksOk
<1>9. ASSUME shares'[p] = shares[p], Contributed(c, n) = Contributed(pc[p], at[p])
      PROVE  SharesOk(tape, Plain, p, pc[p], at[p], shares[p])'
  BY <1>1, <1>2, <1>3, <1>9 DEF PartyInv, SharesOk
<1>10. ASSUME c # "done" PROVE OutvalsOk(Plain, pc[p], outvals[p])'
  BY <1>2, <1>10 DEF OutvalsOk
<1> QED BY <1>2, <1>3, <1>4, <1>5, <1>7, <1>8, <1>9, <1>10

-----------------------------------------------------------------------------
(* SendInputs: the masked inputs are right, and so is the message with     *)
(* them.                                                                   *)
LEMMA SendInputsInv ==
  ASSUME IInv, NEW p \in Parties, SendInputs(p)
  PROVE  IInv'
<1> DEFINE masked(w) == (inputs[w] - lambda[p][w]) % Modulus
           mm == [w \in Wires |-> IF w \in Range(InputsOf(p)) THEN masked(w) ELSE m[p][w]]
           msgs == [q \in {i \in Parties \ {p} : InputsOf(p) # << >>} |->
                      [j \in DOMAIN InputsOf(p) |-> masked(InputsOf(p)[j])]]
           msg == InputMsg(tape, Plain, p)
<1>1. /\ pc[p] = "setInputs" /\ m' = [m EXCEPT ![p] = mm] /\ Send(p, msgs)
      /\ Goto(p, "recvInputs", FirstPeer(p))
      /\ UNCHANGED <<randVars, dpos, ppos, lambda, gamma, toSend, rerand, shares, outvals>>
  BY DEF SendInputs, Receivers, setupVars
<1>2. /\ p \in Procs /\ p # 0 /\ (\A q \in Parties : q # 0 /\ q \in Procs) /\ 0 \in Procs
      /\ nP \in Parties /\ 1 \in Parties
  BY Basics
<1>3. LocalTypes /\ PartyInv(p) /\ NetTypeOK(Seq(Ring)) /\ NetOK /\ AllFlushed /\ StreamsInv
  BY DEF IInv, NetInv
<1>4. PlainValues(inputs, Plain) /\ tape \in Tapes /\ inputs \in InputChoices
  BY <1>3, PlainOk
<1>5. ASSUME NEW w \in InputWires, Owner[w] = p
      PROVE  masked(w) = MaskedOf(tape, Plain, w) /\ MaskedOf(tape, Plain, w) \in Ring
  <2>1. w \in Wires
    BY Basics
  <2>2. lambda[p][w] = Mask(tape, p)[w]
    BY <1>1, <1>3, <2>1, Unvisited DEF PartyInv, MasksOk, Steps
  <2>3. (inputs[w] - Mask(tape, Owner[w])[w]) % Modulus = MaskedOf(tape, Plain, w)
    BY <1>4, InputMasked
  <2>4. MaskedOf(tape, Plain, w) \in Ring
    BY <1>4, <2>1, MaskedFacts
  <2> QED BY <1>5, <2>2, <2>3, <2>4
<1>6. /\ mm \in [Wires -> Ring]
      /\ \A w \in InputWires : Owner[w] = p => mm[w] = MaskedOf(tape, Plain, w)
  <2> HIDE DEF masked
  <2>1. ASSUME NEW w \in Wires PROVE mm[w] \in Ring
    <3>1. m[p][w] \in Ring
      BY <1>3 DEF LocalTypes
    <3> QED BY <1>5, <3>1, InputsFacts
  <2>2. \A w \in InputWires : Owner[w] = p => mm[w] = MaskedOf(tape, Plain, w)
    BY <1>5, InputsFacts, Basics
  <2> QED BY <2>1, <2>2
<1>7. [j \in DOMAIN InputsOf(p) |-> masked(InputsOf(p)[j])] = msg /\ msg \in Seq(Ring)
  <2>1. \A j \in DOMAIN InputsOf(p) : /\ masked(InputsOf(p)[j]) = MaskedOf(tape, Plain, InputsOf(p)[j])
                                      /\ MaskedOf(tape, Plain, InputsOf(p)[j]) \in Ring
    BY <1>5, InputsFacts
  <2>2. DOMAIN InputsOf(p) = 1..Len(InputsOf(p)) /\ Len(InputsOf(p)) \in Nat
    BY InputsFacts
  <2> HIDE DEF masked
  <2> QED BY <2>1, <2>2 DEF InputMsg
<1>8. DOMAIN msgs = {i \in Parties \ {p} : Sends(p)} /\ \A q \in DOMAIN msgs : msgs[q] = msg
  BY <1>7 DEF Sends
<1> HIDE DEF mm, msgs, msg
<1>9. /\ \A a, b \in Procs :
           log'[a][b] = IF a = p /\ b \in DOMAIN msgs THEN Append(log[a][b], msgs[b]) ELSE log[a][b]
      /\ read' = read /\ NetTypeOK(Seq(Ring))' /\ NetOK' /\ AllFlushed'
  <2>1. DOMAIN msgs \subseteq Procs /\ \A q \in DOMAIN msgs : msgs[q] \in Seq(Ring)
    BY <1>2, <1>7, <1>8
  <2> QED BY <1>1, <1>2, <1>3, <2>1, SendFacts
<1>10. /\ FirstPeer(p) \in 1..nP /\ FirstPeer(p) # p /\ FirstPeer(p) \in Nat
       /\ \A i \in Parties : i # p => ~(i < FirstPeer(p))
       /\ \A i \in Parties : i < FirstPeer(p) => i = p
  BY Basics DEF FirstPeer
<1>11. m' \in [Parties -> [Wires -> Ring]] /\ m'[p] = mm /\ \A q \in Parties \ {p} : m'[q] = m[q]
  BY <1>1, <1>3, <1>6 DEF LocalTypes
<1>12. /\ lambda' = lambda /\ shares' = shares /\ outvals' = outvals
       /\ lambda \in [Procs -> [Wires -> Ring]] /\ shares \in [Parties -> Seq(Seq(Ring))]
       /\ outvals \in [Parties -> Seq(Ring)]
  BY <1>1, <1>3 DEF LocalTypes
<1>13. Contributed("recvInputs", FirstPeer(p)) = Contributed(pc[p], at[p])
  BY <1>1 DEF Contributed, Early
<1>14. /\ LocalTypes' /\ Frame(p) /\ pc'[p] = "recvInputs" /\ at'[p] = FirstPeer(p)
       /\ tape' = tape /\ Plain' = Plain
       /\ DrawsOk(p, pc[p], at[p], ppos[p])' /\ ZerosOk(tape, p, pc[p], rerand[p])'
       /\ GammasOk(tape, p, pc[p], at[p], gamma[p])'
       /\ MasksOk(tape, p, pc[p], at[p], lambda[p])'
       /\ SharesOk(tape, Plain, p, pc[p], at[p], shares[p])'
       /\ OutvalsOk(Plain, pc[p], outvals[p])'
  <2>1. "recvInputs" \in Methods \ {"outputSetup", "setup"} /\ pc[p] \notin {"outputSetup", "setup"}
    BY <1>1 DEF Methods
  <2>2. UNCHANGED <<randVars, dpos, ppos, gamma, toSend, rerand>>
    BY <1>1
  <2>3. Online(p, "recvInputs", FirstPeer(p))
    BY <1>1, <1>10, <1>11, <1>12, <2>1, <2>2 DEF Online
  <2>4. /\ lambda'[p] = lambda[p] /\ shares'[p] = shares[p]
        /\ "recvInputs" \in {"getOutputs", "done"} <=> pc[p] \in {"getOutputs", "done"}
    BY <1>1, <1>12
  <2> HIDE DEF masked
  <2> QED BY <1>13, <2>3, <2>4, OnlineStep
<1>15. PlaceOk(p, pc[p], at[p])'
  <2>1. nP \in Nat
    BY Basics
  <2> QED BY <1>10, <1>14, <2>1 DEF PlaceOk
<1>16. MaskedOk(tape, Plain, p, pc[p], at[p], m[p])'
  <2>1. Known(p, pc'[p], at'[p]) = {w \in InputWires : Owner[w] < FirstPeer(p) \/ Owner[w] = p}
    BY <1>14 DEF Known, Early
  <2>2. \A w \in Known(p, pc'[p], at'[p]) : w \in InputWires /\ Owner[w] = p
    BY <1>10, <2>1, Basics
  <2> QED BY <1>6, <1>11, <1>14, <2>2 DEF MaskedOk
<1>17. PartyInv(p)'
  BY <1>14, <1>15, <1>16 DEF PartyInv
<1>18. \A q \in Procs \ {p} : pc'[q] = pc[q] /\ at'[q] = at[q]
  BY <1>14 DEF Frame
<1>19. StreamsInv'
  <2>1. \A q \in Procs : log'[0][q] = log[0][q]
    BY <1>2, <1>9
  <2>2. /\ log'[0][1] = IF pc'[0] = "outputSetup" THEN << >> ELSE << ZeroMsg(tape) >>
        /\ read[0][1] = IF pc'[1] = "outputSetup" THEN 0 ELSE 1
        /\ log'[0][nP] = IF pc'[0] = "done" THEN << GammaMsg(tape, NumGates) >> ELSE << >>
        /\ read[0][nP] = IF pc'[nP] \in {"outputSetup", "setup"} THEN 0 ELSE 1
    BY <1>1, <1>2, <1>3, <1>14, <1>18, <2>1 DEF StreamsInv
  <2>3. ASSUME NEW i \in Parties, NEW q \in Parties, i # q
        PROVE  /\ log'[i][q] = IF pc'[i] \in Early \/ ~Sends(i) THEN << >> ELSE << InputMsg(tape, Plain, i) >>
               /\ read[i][q] = IF GotInputs(q, pc'[q], at'[q], i) /\ Sends(i) THEN 1 ELSE 0
    <3>0. i \in Procs /\ q \in Procs
      BY <1>2
    <3>1. GotInputs(q, pc'[q], at'[q], i) <=> GotInputs(q, pc[q], at[q], i)
      <4>1. CASE q = p
        BY <1>1, <1>10, <1>14, <2>3, <4>1 DEF GotInputs, Early
      <4>2. CASE q # p
        BY <1>18, <3>0, <4>2
      <4> QED BY <4>1, <4>2
    <3>2. read[i][q] = IF GotInputs(q, pc[q], at[q], i) /\ Sends(i) THEN 1 ELSE 0
      BY <1>3, <2>3 DEF StreamsInv
    <3>3. log[i][q] = IF pc[i] \in Early \/ ~Sends(i) THEN << >> ELSE << InputMsg(tape, Plain, i) >>
      BY <1>3, <2>3 DEF StreamsInv
    <3>4. CASE i = p
      <4>1. pc[i] \in Early /\ pc'[i] \notin Early
        BY <1>1, <1>14, <3>4 DEF Early
      <4>2. CASE Sends(p)
        <5>1. log'[i][q] = Append(<< >>, msg)
          BY <1>8, <1>9, <2>3, <3>0, <3>3, <3>4, <4>1, <4>2
        <5>2. log'[i][q] = << msg >>
          BY <5>1, AppendEmpty
        <5> QED BY <3>1, <3>2, <3>4, <4>1, <4>2, <5>2 DEF msg
      <4>3. CASE ~Sends(p)
        <5>1. log'[i][q] = log[i][q]
          BY <1>8, <1>9, <3>0, <4>3
        <5> QED BY <3>1, <3>2, <3>3, <3>4, <4>3, <5>1
      <4> QED BY <4>2, <4>3
    <3>5. CASE i # p
      <4>1. log'[i][q] = log[i][q] /\ pc'[i] = pc[i]
        BY <1>9, <1>18, <3>0, <3>5
      <4> QED BY <3>1, <3>2, <3>3, <4>1
    <3> QED BY <3>4, <3>5
  <2> QED BY <1>9, <1>14, <2>2, <2>3 DEF StreamsInv
<1>20. NetInv'
  BY <1>9, <1>19 DEF NetInv
<1> QED BY <1>14, <1>17, <1>20, FromStep

(* The loop over the peers comes to each of them, but not to the party     *)
(* itself.                                                                 *)
LEMMA PeerFacts ==
  ASSUME NEW p \in Parties, NEW i \in Parties, i # p
  PROVE  /\ PeerAfter(p, i) \in (1..(nP + 1)) \ {p} /\ PeerAfter(p, i) \in Nat
         /\ \A o \in Parties : o < PeerAfter(p, i) => o < i \/ o = i \/ o = p
         /\ \A o \in Parties : o < i \/ o = i => o < PeerAfter(p, i)
<1>1. nP \in Nat /\ Parties = 1..nP
  BY Basics DEF Parties
<1> QED BY <1>1 DEF PeerAfter

(* RecvInputs: the one message on the stream, or none without inputs.      *)
LEMMA RecvInputsInv ==
  ASSUME IInv, NEW p \in Parties, RecvInputs(p)
  PROVE  IInv'
<1> DEFINE i == at[p]
           n == PeerAfter(p, i)
           sent(w) == NextMsg(p, i)[CHOOSE j \in DOMAIN InputsOf(i) : InputsOf(i)[j] = w]
           new == [w \in Wires |-> IF w \in Range(InputsOf(i)) THEN sent(w) ELSE m[p][w]]
<1>1. /\ pc[p] = "recvInputs" /\ i \in Parties /\ RecvFrom(p, i, new)
      /\ Goto(p, "recvInputs", n)
      /\ UNCHANGED <<randVars, dpos, ppos, lambda, gamma, toSend, rerand, shares, outvals>>
  BY DEF RecvInputs, setupVars
<1>2. /\ p \in Procs /\ p # 0 /\ i \in Procs /\ i # 0 /\ 0 \in Procs /\ 1 \in Procs /\ nP \in Procs
      /\ nP \in Parties /\ \A q \in Parties : q \in Procs /\ q # 0
  BY <1>1, Basics
<1>3. LocalTypes /\ PartyInv(p) /\ NetTypeOK(Seq(Ring)) /\ NetOK /\ AllFlushed /\ StreamsInv
  BY DEF IInv, NetInv
<1>4. i # p
  BY <1>1, <1>3 DEF PartyInv, PlaceOk
<1> HIDE DEF i
<1>5. /\ n \in (1..(nP + 1)) \ {p} /\ n \in Nat
      /\ \A o \in Parties : o < n => o < i \/ o = i \/ o = p
      /\ \A o \in Parties : o < i \/ o = i => o < n
  BY <1>1, <1>4, PeerFacts
<1> HIDE DEF n
<1>6. PlainValues(inputs, Plain) /\ tape \in Tapes /\ inputs \in InputChoices
  BY <1>3, PlainOk
<1>7. m \in [Parties -> [Wires -> Ring]] /\ m[p] \in [Wires -> Ring]
  BY <1>3 DEF LocalTypes
<1>8. \A w \in InputWires : Owner[w] < i \/ Owner[w] = p => m[p][w] = MaskedOf(tape, Plain, w)
  <2>1. Known(p, pc[p], at[p]) = {w \in InputWires : Owner[w] < i \/ Owner[w] = p}
    BY <1>1 DEF Known, Early, i
  <2> QED BY <1>3, <2>1 DEF PartyInv, MaskedOk
<1>9. \A w \in InputWires : w \in Wires /\ Owner[w] \in Parties
  BY Basics
(* Either nothing was sent, or the one message on the stream is taken.     *)
<1>10. ASSUME ~Sends(i)
       PROVE  /\ \A a, b \in Procs : read'[a][b] = IF a = i /\ b = p /\ Sends(i) THEN read[a][b] + 1 ELSE read[a][b]
              /\ log' = log /\ NetTypeOK(Seq(Ring))' /\ NetOK' /\ AllFlushed'
              /\ m' \in [Parties -> [Wires -> Ring]] /\ \A q \in Parties \ {p} : m'[q] = m[q]
              /\ \A w \in InputWires : Owner[w] < n \/ Owner[w] = p => m'[p][w] = MaskedOf(tape, Plain, w)
  <2>1. InputsOf(i) = << >>
    BY <1>10 DEF Sends
  <2>2. m' = m /\ log' = log /\ flushed' = flushed /\ read' = read
    BY <1>1, <2>1 DEF RecvFrom, netVars
  <2>3. NetTypeOK(Seq(Ring))' /\ NetOK' /\ AllFlushed'
    BY <1>3, <2>2 DEF NetTypeOK, NetOK, AllFlushed
  <2>4. \A w \in InputWires : Owner[w] # i
    <3>1. ASSUME NEW w \in InputWires, Owner[w] = i PROVE FALSE
      <4>1. \E j \in DOMAIN InputsOf(i) : InputsOf(i)[j] = w
        BY <3>1, InputsFacts
      <4> QED BY <2>1, <4>1
    <3> QED BY <3>1
  <2>5. \A w \in InputWires : Owner[w] < n \/ Owner[w] = p => m'[p][w] = MaskedOf(tape, Plain, w)
    BY <1>5, <1>8, <1>9, <2>2, <2>4
  <2> QED BY <1>7, <1>10, <2>2, <2>3, <2>5
<1>11. ASSUME Sends(i)
       PROVE  /\ \A a, b \in Procs : read'[a][b] = IF a = i /\ b = p /\ Sends(i) THEN read[a][b] + 1 ELSE read[a][b]
              /\ log' = log /\ NetTypeOK(Seq(Ring))' /\ NetOK' /\ AllFlushed'
              /\ m' \in [Parties -> [Wires -> Ring]] /\ \A q \in Parties \ {p} : m'[q] = m[q]
              /\ \A w \in InputWires : Owner[w] < n \/ Owner[w] = p => m'[p][w] = MaskedOf(tape, Plain, w)
  <2>1. Arrived(p, i) /\ Consume(p, i) /\ m' = [m EXCEPT ![p] = new]
    <3>1. InputsOf(i) # << >>
      BY <1>11 DEF Sends
    <3> HIDE DEF new
    <3> QED BY <1>1, <3>1 DEF RecvFrom
  <2>2. /\ \A a, b \in Procs : read'[a][b] = IF a = i /\ b = p THEN read[a][b] + 1 ELSE read[a][b]
        /\ log' = log /\ read[i][p] < Len(log[i][p])
        /\ NetTypeOK(Seq(Ring))' /\ NetOK' /\ AllFlushed'
    BY <1>2, <1>3, <2>1, ConsumeFacts
  <2>3. read[i][p] = 0
    <3>1. ~GotInputs(p, pc[p], at[p], i)
      <4>1. ~(i < i)
        BY <1>1, Basics DEF Parties
      <4> QED BY <1>1, <4>1 DEF GotInputs, i
    <3> QED BY <1>1, <1>3, <1>4, <3>1 DEF StreamsInv
  <2>4. log[i][p] = << InputMsg(tape, Plain, i) >>
    <3>1. log[i][p] = << >> \/ log[i][p] = << InputMsg(tape, Plain, i) >>
      BY <1>1, <1>3, <1>4 DEF StreamsInv
    <3> QED BY <2>2, <2>3, <3>1
  <2>5. NextMsg(p, i) = InputMsg(tape, Plain, i)
    BY <2>3, <2>4 DEF NextMsg
  <2>6. ASSUME NEW w \in InputWires, Owner[w] = i PROVE sent(w) = MaskedOf(tape, Plain, w)
    <3> DEFINE j == CHOOSE j \in DOMAIN InputsOf(i) : InputsOf(i)[j] = w
    <3>1. j \in DOMAIN InputsOf(i) /\ InputsOf(i)[j] = w
      <4>1. \E k \in DOMAIN InputsOf(i) : InputsOf(i)[k] = w
        BY <2>6, InputsFacts
      <4> QED BY <4>1
    <3>2. sent(w) = InputMsg(tape, Plain, i)[j]
      BY <2>5
    <3> HIDE DEF j
    <3> QED BY <3>1, <3>2 DEF InputMsg
  <2>7. Range(InputsOf(i)) = {w \in InputWires : Owner[w] = i}
    BY InputsFacts
  <2>8. ASSUME NEW w \in Wires
        PROVE  /\ new[w] \in Ring
               /\ w \in InputWires /\ (Owner[w] < n \/ Owner[w] = p) => new[w] = MaskedOf(tape, Plain, w)
    <3>1. MaskedOf(tape, Plain, w) \in Ring
      BY <1>6, MaskedFacts
    <3>2. new[w] = IF w \in Range(InputsOf(i)) THEN sent(w) ELSE m[p][w]
      OBVIOUS
    <3>3. m[p][w] \in Ring
      BY <1>7
    <3> HIDE DEF new, sent
    <3> QED BY <1>5, <1>8, <1>9, <2>6, <2>7, <3>1, <3>2, <3>3
  <2>9. new \in [Wires -> Ring]
    <3>1. \A w \in Wires : new[w] \in Ring
      BY <2>8
    <3> HIDE DEF sent
    <3> QED BY <3>1
  <2> HIDE DEF new
  <2>10. m' \in [Parties -> [Wires -> Ring]] /\ m'[p] = new /\ \A q \in Parties \ {p} : m'[q] = m[q]
    BY <1>7, <2>1, <2>9
  <2> QED BY <1>9, <1>11, <2>2, <2>8, <2>10
<1> HIDE DEF new
<1>12. /\ \A a, b \in Procs : read'[a][b] = IF a = i /\ b = p /\ Sends(i) THEN read[a][b] + 1 ELSE read[a][b]
       /\ log' = log /\ NetTypeOK(Seq(Ring))' /\ NetOK' /\ AllFlushed'
       /\ m' \in [Parties -> [Wires -> Ring]] /\ \A q \in Parties \ {p} : m'[q] = m[q]
       /\ \A w \in InputWires : Owner[w] < n \/ Owner[w] = p => m'[p][w] = MaskedOf(tape, Plain, w)
  <2>1. CASE Sends(i)
    BY <1>11, <2>1
  <2>2. CASE ~Sends(i)
    BY <1>10, <2>2
  <2> QED BY <2>1, <2>2
<1>13. /\ LocalTypes' /\ Frame(p) /\ pc'[p] = "recvInputs" /\ at'[p] = n
       /\ tape' = tape /\ Plain' = Plain
       /\ DrawsOk(p, pc[p], at[p], ppos[p])' /\ ZerosOk(tape, p, pc[p], rerand[p])'
       /\ GammasOk(tape, p, pc[p], at[p], gamma[p])'
       /\ MasksOk(tape, p, pc[p], at[p], lambda[p])'
       /\ SharesOk(tape, Plain, p, pc[p], at[p], shares[p])'
       /\ OutvalsOk(Plain, pc[p], outvals[p])'
  <2>1. "recvInputs" \in Methods \ {"outputSetup", "setup"} /\ pc[p] \notin {"outputSetup", "setup"}
    BY <1>1 DEF Methods
  <2>2. /\ lambda' = lambda /\ shares' = shares /\ outvals' = outvals
        /\ lambda \in [Procs -> [Wires -> Ring]] /\ shares \in [Parties -> Seq(Seq(Ring))]
        /\ outvals \in [Parties -> Seq(Ring)]
    BY <1>1, <1>3 DEF LocalTypes
  <2>3. UNCHANGED <<randVars, dpos, ppos, gamma, toSend, rerand>>
    BY <1>1
  <2>4. Online(p, "recvInputs", n)
    BY <1>1, <1>5, <1>12, <2>1, <2>2, <2>3 DEF Online
  <2>5. Contributed("recvInputs", n) = Contributed(pc[p], at[p])
    BY <1>1 DEF Contributed, Early
  <2>6. /\ lambda'[p] = lambda[p] /\ shares'[p] = shares[p]
        /\ "recvInputs" \in {"getOutputs", "done"} <=> pc[p] \in {"getOutputs", "done"}
    BY <1>1, <2>2
  <2> QED BY <2>4, <2>5, <2>6, OnlineStep
<1>14. PlaceOk(p, pc[p], at[p])'
  BY <1>5, <1>13 DEF PlaceOk
<1>15. MaskedOk(tape, Plain, p, pc[p], at[p], m[p])'
  <2>1. Known(p, pc'[p], at'[p]) = {w \in InputWires : Owner[w] < n \/ Owner[w] = p}
    BY <1>13 DEF Known, Early
  <2> QED BY <1>12, <1>13, <2>1 DEF MaskedOk
<1>16. PartyInv(p)'
  BY <1>13, <1>14, <1>15 DEF PartyInv
<1>17. \A q \in Procs \ {p} : pc'[q] = pc[q] /\ at'[q] = at[q]
  BY <1>13 DEF Frame
<1>18. StreamsInv'
  <2>1. /\ log[0][1] = IF pc'[0] = "outputSetup" THEN << >> ELSE << ZeroMsg(tape) >>
        /\ read'[0][1] = IF pc'[1] = "outputSetup" THEN 0 ELSE 1
        /\ log[0][nP] = IF pc'[0] = "done" THEN << GammaMsg(tape, NumGates) >> ELSE << >>
        /\ read'[0][nP] = IF pc'[nP] \in {"outputSetup", "setup"} THEN 0 ELSE 1
    <3>1. read'[0][1] = read[0][1] /\ read'[0][nP] = read[0][nP] /\ pc'[0] = pc[0]
      BY <1>2, <1>12, <1>17
    <3>2. pc'[1] = "outputSetup" <=> pc[1] = "outputSetup"
      BY <1>1, <1>2, <1>13, <1>17
    <3>3. pc'[nP] \in {"outputSetup", "setup"} <=> pc[nP] \in {"outputSetup", "setup"}
      BY <1>1, <1>2, <1>13, <1>17
    <3> QED BY <1>3, <3>1, <3>2, <3>3 DEF StreamsInv
  <2>2. ASSUME NEW k \in Parties, NEW q \in Parties, k # q
        PROVE  /\ log[k][q] = IF pc'[k] \in Early \/ ~Sends(k) THEN << >> ELSE << InputMsg(tape, Plain, k) >>
               /\ read'[k][q] = IF GotInputs(q, pc'[q], at'[q], k) /\ Sends(k) THEN 1 ELSE 0
    <3>0. k \in Procs /\ q \in Procs
      BY <1>2
    <3>1. pc'[k] \in Early <=> pc[k] \in Early
      BY <1>1, <1>13, <1>17, <3>0 DEF Early
    <3>2. log[k][q] = IF pc[k] \in Early \/ ~Sends(k) THEN << >> ELSE << InputMsg(tape, Plain, k) >>
      BY <1>3, <2>2 DEF StreamsInv
    <3>3. read[k][q] = IF GotInputs(q, pc[q], at[q], k) /\ Sends(k) THEN 1 ELSE 0
      BY <1>3, <2>2 DEF StreamsInv
    <3>4. read'[k][q] = IF k = i /\ q = p /\ Sends(i) THEN read[k][q] + 1 ELSE read[k][q]
      BY <1>12, <3>0
    <3>5. CASE q # p
      BY <1>17, <3>0, <3>1, <3>2, <3>3, <3>4, <3>5
    <3>6. CASE q = p /\ k # i
      <4>1. GotInputs(q, pc'[q], at'[q], k) <=> k < n
        BY <1>13, <3>6 DEF GotInputs, Early
      <4>2. GotInputs(q, pc[q], at[q], k) <=> k < i
        BY <1>1, <3>6 DEF GotInputs, Early, i
      <4>3. k < n <=> k < i
        BY <1>5, <2>2, <3>6
      <4> QED BY <3>1, <3>2, <3>3, <3>4, <3>6, <4>1, <4>2, <4>3
    <3>7. CASE q = p /\ k = i
      <4>1. GotInputs(q, pc'[q], at'[q], k) <=> k < n
        BY <1>13, <3>7 DEF GotInputs, Early
      <4>2. GotInputs(q, pc[q], at[q], k) <=> k < i
        BY <1>1, <3>7 DEF GotInputs, Early, i
      <4>3. k < n /\ ~(k < i)
        BY <1>1, <1>5, <3>7, Basics DEF Parties
      <4> QED BY <3>1, <3>2, <3>3, <3>4, <3>7, <4>1, <4>2, <4>3
    <3> QED BY <3>5, <3>6, <3>7
  <2> QED BY <1>12, <1>13, <2>1, <2>2 DEF StreamsInv
<1>19. NetInv'
  BY <1>12, <1>18 DEF NetInv
<1> QED BY <1>13, <1>16, <1>19, FromStep

(* EndInputs: every input has come, from a peer or from the party itself.  *)
LEMMA EndInputsInv ==
  ASSUME IInv, NEW p \in Parties, EndInputs(p)
  PROVE  IInv'
<1>1. /\ pc[p] = "recvInputs" /\ at[p] > nP /\ Goto(p, "evaluateCircuit", 1)
      /\ UNCHANGED <<randVars, dpos, ppos, lambda, gamma, toSend, rerand, m, shares, outvals, netVars>>
  BY DEF EndInputs, setupVars, onlineVars
<1>2. /\ p \in Procs /\ p # 0 /\ nP \in Nat /\ Parties = 1..nP
      /\ \A w \in InputWires : w \in Wires /\ Owner[w] \in Parties
  BY Basics DEF Parties
<1>3. LocalTypes /\ PartyInv(p) /\ NetInv
  BY DEF IInv
<1>4. at[p] = nP + 1 /\ \A i \in Parties : i < at[p]
  BY <1>1, <1>2, <1>3 DEF PartyInv, PlaceOk
<1>5. /\ lambda' = lambda /\ shares' = shares /\ outvals' = outvals /\ m' = m
      /\ lambda \in [Procs -> [Wires -> Ring]] /\ shares \in [Parties -> Seq(Seq(Ring))]
      /\ outvals \in [Parties -> Seq(Ring)] /\ m \in [Parties -> [Wires -> Ring]]
  BY <1>1, <1>3 DEF LocalTypes
<1>6. Online(p, "evaluateCircuit", 1)
  <2>1. "evaluateCircuit" \in Methods \ {"outputSetup", "setup"} /\ pc[p] \notin {"outputSetup", "setup"}
    BY <1>1 DEF Methods
  <2>2. UNCHANGED <<randVars, dpos, ppos, gamma, toSend, rerand>>
    BY <1>1
  <2> QED BY <1>1, <1>5, <2>1, <2>2 DEF Online
<1>7. Contributed("evaluateCircuit", 1) = Contributed(pc[p], at[p])
  <2>1. Contributed("evaluateCircuit", 1) = Opens(0)
    BY DEF Contributed, Early
  <2>2. Contributed(pc[p], at[p]) = 0
    BY <1>1 DEF Contributed
  <2> QED BY <2>1, <2>2, OpensFacts
<1>8. /\ LocalTypes' /\ Frame(p) /\ pc'[p] = "evaluateCircuit" /\ at'[p] = 1
      /\ tape' = tape /\ Plain' = Plain
      /\ DrawsOk(p, pc[p], at[p], ppos[p])' /\ ZerosOk(tape, p, pc[p], rerand[p])'
      /\ GammasOk(tape, p, pc[p], at[p], gamma[p])'
      /\ MasksOk(tape, p, pc[p], at[p], lambda[p])'
      /\ SharesOk(tape, Plain, p, pc[p], at[p], shares[p])'
      /\ OutvalsOk(Plain, pc[p], outvals[p])'
  <2>1. /\ lambda'[p] = lambda[p] /\ shares'[p] = shares[p]
        /\ "evaluateCircuit" \in {"getOutputs", "done"} <=> pc[p] \in {"getOutputs", "done"}
    BY <1>1, <1>5
  <2> QED BY <1>6, <1>7, <2>1, OnlineStep
<1>9. PlaceOk(p, pc[p], at[p])'
  <2>1. 1 \in 1..(Len(Layers) + 1)
    BY LayerFacts
  <2> QED BY <1>8, <2>1 DEF PlaceOk
<1>10. MaskedOk(tape, Plain, p, pc[p], at[p], m[p])'
  <2>1. Known(p, pc'[p], at'[p]) = InputWires \cup Below(0)
    BY <1>8 DEF Known, Early
  <2>2. Below(0) = {}
    BY DEF Below
  <2>3. Known(p, pc[p], at[p]) = {w \in InputWires : Owner[w] < at[p] \/ Owner[w] = p}
    BY <1>1 DEF Known, Early
  <2>4. Known(p, pc'[p], at'[p]) \subseteq Known(p, pc[p], at[p])
    BY <1>2, <1>4, <2>1, <2>2, <2>3
  <2> QED BY <1>3, <1>5, <1>8, <2>4 DEF PartyInv, MaskedOk
<1>11. PartyInv(p)'
  BY <1>8, <1>9, <1>10 DEF PartyInv
<1>12. Quiet(p)
  <2>1. \A i \in Parties : GotInputs(p, pc'[p], at'[p], i) <=> GotInputs(p, pc[p], at[p], i)
    BY <1>1, <1>4, <1>8 DEF GotInputs, Early
  <2>2. netVars' = netVars
    BY <1>1
  <2> QED BY <1>1, <1>2, <1>8, <2>1, <2>2 DEF Quiet, Early
<1>13. NetInv'
  BY <1>2, <1>3, <1>8, <1>12, QuietInv
<1> QED BY <1>8, <1>11, <1>13, FromStep

(* The inputs of a level's gates are below it.                             *)
LEMMA BelowFacts ==
  /\ Below(Len(Layers)) = Wires
  /\ \A l \in DOMAIN Layers : /\ Below(l) = Below(l - 1) \cup Range(Layers[l])
                              /\ Below(l) \subseteq Wires /\ Below(l - 1) \subseteq Wires
                              /\ \A w \in Range(Layers[l]) : Ins(w) \subseteq Below(l - 1)
<1>1. Len(Layers) \in Nat /\ DOMAIN Layers = 1..Len(Layers)
  BY LayerFacts
<1>2. Below(Len(Layers)) = Wires
  BY <1>1, LayersAssumption DEF Below
<1>3. \A l \in 0..Len(Layers) : Below(l) \subseteq Wires
  <2>1. \A k \in 1..Len(Layers) : Range(Layers[k]) \subseteq Wires
    BY <1>1, LayerFacts
  <2> QED BY <1>1, <2>1 DEF Below
<1>4. ASSUME NEW l \in DOMAIN Layers
      PROVE  /\ Below(l) = Below(l - 1) \cup Range(Layers[l])
             /\ l \in 0..Len(Layers) /\ l - 1 \in 0..Len(Layers)
             /\ \A w \in Range(Layers[l]) : Ins(w) \subseteq Below(l - 1)
  <2>1. \A k : k \in 1..l <=> k \in 1..(l - 1) \/ k = l
    BY <1>1
  <2>2. \A w \in Range(Layers[l]) : Ins(w) \subseteq Below(l - 1)
    BY LayersAssumption DEF Below
  <2> QED BY <1>1, <2>1, <2>2 DEF Below
<1> QED BY <1>2, <1>3, <1>4

(* A party in the middle of the circuit.                                   *)
LEMMA LevelFacts ==
  ASSUME IInv, NEW p \in Parties, pc[p] \in {"evaluateCircuit", "reconstructMult"}, at[p] \in DOMAIN Layers
  PROVE  /\ p \in Procs /\ LocalTypes /\ PartyInv(p) /\ NetInv
         /\ PlainValues(inputs, Plain) /\ tape \in Tapes /\ inputs \in InputChoices
         /\ lambda \in [Procs -> [Wires -> Ring]] /\ shares \in [Parties -> Seq(Seq(Ring))]
         /\ outvals \in [Parties -> Seq(Ring)] /\ m \in [Parties -> [Wires -> Ring]]
         /\ pc[p] \notin {"outputSetup", "setup"}
         /\ at[p] \in Nat /\ at[p] + 1 \in Nat /\ (at[p] + 1) - 1 = at[p] /\ at[p] + 1 \in 1..(Len(Layers) + 1)
         /\ \A w \in InputWires \cup Below(at[p] - 1) : m[p][w] = MaskedOf(tape, Plain, w)
         /\ \A w \in Wires : lambda[p][w] = Mask(tape, p)[w]
         /\ \A w \in Wires : IsMult(w) => gamma[p][w] = GammaOf(tape, p, w)
<1>1. p \in Procs /\ LocalTypes /\ PartyInv(p) /\ NetInv
  BY PartyIsProc DEF IInv
<1>2. PlainValues(inputs, Plain) /\ tape \in Tapes /\ inputs \in InputChoices
  BY <1>1, PlainOk
<1>3. Known(p, pc[p], at[p]) = InputWires \cup Below(at[p] - 1)
  BY DEF Known, Early
<1>4. \A w \in Wires : Pos(w) <= Steps(pc[p], at[p])
  <2>1. Steps(pc[p], at[p]) = NumGates
    BY DEF Steps
  <2> QED BY <2>1, PosFacts
<1>5. \A w \in InputWires \cup Below(at[p] - 1) : m[p][w] = MaskedOf(tape, Plain, w)
  BY <1>1, <1>3 DEF PartyInv, MaskedOk
<1>6. \A w \in Wires : lambda[p][w] = Mask(tape, p)[w]
  BY <1>1, <1>4 DEF PartyInv, MasksOk
<1>7. \A w \in Wires : IsMult(w) => gamma[p][w] = GammaOf(tape, p, w)
  BY <1>1, <1>4 DEF PartyInv, GammasOk
<1>8. /\ at[p] \in Nat /\ at[p] + 1 \in Nat /\ (at[p] + 1) - 1 = at[p] /\ at[p] + 1 \in 1..(Len(Layers) + 1)
  BY LayerFacts
<1> QED BY <1>1, <1>2, <1>5, <1>6, <1>7, <1>8 DEF LocalTypes

(* A step behind the exchange of the inputs leaves the streams alone.      *)
LEMMA QuietOnline ==
  ASSUME IInv, NEW p \in Parties, NEW c, NEW n, Online(p, c, n), netVars' = netVars,
         pc[p] \notin Early \cup {"recvInputs"}, c \notin Early \cup {"recvInputs"}
  PROVE  NetInv'
<1>1. /\ pc'[p] = c /\ Frame(p) /\ p \in Procs /\ p # 0
  BY OnlineStep, PartyIsProc
<1>2. Quiet(p)
  BY <1>1 DEF Quiet, GotInputs, Early
<1> QED BY <1>1, <1>2, QuietInv DEF IInv

(* EvalLinear: linear gates of right masked values give right masked       *)
(* values.                                                                 *)
LEMMA EvalLinearInv ==
  ASSUME IInv, NEW p \in Parties, NEW l \in DOMAIN Layers, EvalLinear(p, l)
  PROVE  IInv'
<1> DEFINE mm == [w \in Wires |-> IF w \in Range(Layers[l]) THEN LinearValue(p, w) ELSE m[p][w]]
<1>1. /\ pc[p] = "evaluateCircuit" /\ at[p] = l /\ ~Interactive(l)
      /\ m' = [m EXCEPT ![p] = mm] /\ Goto(p, "evaluateCircuit", l + 1)
      /\ UNCHANGED <<randVars, dpos, ppos, lambda, gamma, toSend, rerand, netVars, shares, outvals>>
  BY DEF EvalLinear, AtLevel, Advance, setupVars
<1>2. /\ p \in Procs /\ LocalTypes /\ PartyInv(p) /\ NetInv
      /\ PlainValues(inputs, Plain) /\ tape \in Tapes /\ inputs \in InputChoices
      /\ lambda \in [Procs -> [Wires -> Ring]] /\ shares \in [Parties -> Seq(Seq(Ring))]
      /\ outvals \in [Parties -> Seq(Ring)] /\ m \in [Parties -> [Wires -> Ring]]
      /\ l + 1 \in Nat /\ (l + 1) - 1 = l /\ l + 1 \in 1..(Len(Layers) + 1)
      /\ \A w \in InputWires \cup Below(l - 1) : m[p][w] = MaskedOf(tape, Plain, w)
  BY <1>1, LevelFacts
<1>3. /\ Below(l) = Below(l - 1) \cup Range(Layers[l]) /\ Below(l) \subseteq Wires
      /\ \A w \in Range(Layers[l]) : Ins(w) \subseteq Below(l - 1)
  BY BelowFacts
<1>4. ASSUME NEW w \in Range(Layers[l]) PROVE LinearValue(p, w) = MaskedOf(tape, Plain, w) /\ w \in Wires
  <2>1. w \in Wires /\ ~IsMult(w)
    BY <1>1, <1>3 DEF Interactive
  <2>2. Type(w) \in {"kInp", "kAdd", "kConstMul"}
    BY <2>1, GatesAssumption DEF IsMult
  <2>3. CASE Type(w) = "kInp"
    <3>1. m[p][w] = MaskedOf(tape, Plain, w)
      BY <1>2, <2>1, <2>3, Basics
    <3>2. LinearValue(p, w) = m[p][w] % Modulus
      BY <2>3 DEF LinearValue
    <3>3. m[p][w] \in Ring
      BY <1>2, <2>1
    <3> QED BY <2>1, <3>1, <3>2, <3>3, Basics
  <2>4. CASE Type(w) = "kAdd"
    <3>1. In1(w, 1) \in Ins(w) /\ In2(w, 1) \in Ins(w)
      BY <2>1, <2>4, GateFacts
    <3>2. m[p][In1(w, 1)] = MaskedOf(tape, Plain, In1(w, 1)) /\ m[p][In2(w, 1)] = MaskedOf(tape, Plain, In2(w, 1))
      BY <1>2, <1>3, <3>1
    <3>3. LinearValue(p, w) = (m[p][In1(w, 1)] + m[p][In2(w, 1)]) % Modulus
      BY <2>4 DEF LinearValue
    <3>4. (MaskedOf(tape, Plain, In1(w, 1)) + MaskedOf(tape, Plain, In2(w, 1))) % Modulus = MaskedOf(tape, Plain, w)
      BY <1>2, <2>1, <2>4, AddMasked
    <3> QED BY <2>1, <3>2, <3>3, <3>4
  <2>5. CASE Type(w) = "kConstMul"
    <3>1. In1(w, 1) \in Ins(w)
      BY <2>1, <2>5, GateFacts
    <3>2. m[p][In1(w, 1)] = MaskedOf(tape, Plain, In1(w, 1))
      BY <1>2, <1>3, <3>1
    <3>3. LinearValue(p, w) = (m[p][In1(w, 1)] * Gates[w].cval) % Modulus
      BY <2>5 DEF LinearValue
    <3>4. (MaskedOf(tape, Plain, In1(w, 1)) * Gates[w].cval) % Modulus = MaskedOf(tape, Plain, w)
      BY <1>2, <2>1, <2>5, ScaleMasked
    <3> QED BY <2>1, <3>2, <3>3, <3>4
  <2> QED BY <2>2, <2>3, <2>4, <2>5
<1>5. /\ mm \in [Wires -> Ring]
      /\ \A w \in InputWires \cup Below(l) : mm[w] = MaskedOf(tape, Plain, w)
  <2>1. ASSUME NEW w \in Wires
        PROVE  /\ mm[w] \in Ring
               /\ w \in InputWires \cup Below(l) => mm[w] = MaskedOf(tape, Plain, w)
    <3>1. MaskedOf(tape, Plain, w) \in Ring
      BY <1>2, MaskedFacts
    <3>2. m[p][w] \in Ring
      BY <1>2
    <3>3. mm[w] = IF w \in Range(Layers[l]) THEN LinearValue(p, w) ELSE m[p][w]
      OBVIOUS
    <3> HIDE DEF mm
    <3> QED BY <1>2, <1>3, <1>4, <3>1, <3>2, <3>3
  <2>2. \A w \in InputWires \cup Below(l) : w \in Wires
    BY <1>3, Basics
  <2>3. \A w \in Wires : mm[w] \in Ring
    BY <2>1
  <2> QED BY <2>1, <2>2, <2>3
<1> HIDE DEF mm
<1>6. /\ m' \in [Parties -> [Wires -> Ring]] /\ m'[p] = mm /\ \A q \in Parties \ {p} : m'[q] = m[q]
      /\ lambda' = lambda /\ shares' = shares /\ outvals' = outvals
  BY <1>1, <1>2, <1>5
<1>7. Online(p, "evaluateCircuit", l + 1)
  <2>1. "evaluateCircuit" \in Methods \ {"outputSetup", "setup"} /\ pc[p] \notin {"outputSetup", "setup"}
    BY <1>1 DEF Methods
  <2>2. UNCHANGED <<randVars, dpos, ppos, gamma, toSend, rerand>>
    BY <1>1
  <2> QED BY <1>1, <1>2, <1>6, <2>1, <2>2 DEF Online
<1>8. Contributed("evaluateCircuit", l + 1) = Contributed(pc[p], at[p])
  <2>1. Contributed("evaluateCircuit", l + 1) = Opens(l) /\ Contributed(pc[p], at[p]) = Opens(l - 1)
    BY <1>1, <1>2 DEF Contributed, Early
  <2>2. Opens(l) = Opens(l - 1) + 0 /\ Opens(l - 1) \in Nat
    <3>1. l - 1 \in 0..Len(Layers)
      BY LayerFacts
    <3>2. Opens(l) = Opens(l - 1) + (IF Interactive(l) THEN 1 ELSE 0)
      BY OpensFacts
    <3> QED BY <1>1, <3>1, <3>2, OpensFacts
  <2> QED BY <2>1, <2>2
<1>9. /\ LocalTypes' /\ Frame(p) /\ pc'[p] = "evaluateCircuit" /\ at'[p] = l + 1
      /\ tape' = tape /\ Plain' = Plain
      /\ DrawsOk(p, pc[p], at[p], ppos[p])' /\ ZerosOk(tape, p, pc[p], rerand[p])'
      /\ GammasOk(tape, p, pc[p], at[p], gamma[p])'
      /\ MasksOk(tape, p, pc[p], at[p], lambda[p])'
      /\ SharesOk(tape, Plain, p, pc[p], at[p], shares[p])'
      /\ OutvalsOk(Plain, pc[p], outvals[p])'
  <2>1. /\ lambda'[p] = lambda[p] /\ shares'[p] = shares[p]
        /\ "evaluateCircuit" \in {"getOutputs", "done"} <=> pc[p] \in {"getOutputs", "done"}
    BY <1>1, <1>6
  <2> QED BY <1>7, <1>8, <2>1, OnlineStep
<1>10. PlaceOk(p, pc[p], at[p])'
  BY <1>2, <1>9 DEF PlaceOk
<1>11. MaskedOk(tape, Plain, p, pc[p], at[p], m[p])'
  <2>1. Known(p, pc'[p], at'[p]) = InputWires \cup Below(l)
    BY <1>2, <1>9 DEF Known, Early
  <2> QED BY <1>5, <1>6, <1>9, <2>1 DEF MaskedOk
<1>12. PartyInv(p)'
  BY <1>9, <1>10, <1>11 DEF PartyInv
<1>13. NetInv'
  <2>1. netVars' = netVars /\ pc[p] \notin Early \cup {"recvInputs"} /\ "evaluateCircuit" \notin Early \cup {"recvInputs"}
    BY <1>1 DEF Early
  <2> QED BY <1>7, <2>1, QuietOnline
<1> QED BY <1>9, <1>12, <1>13, FromStep

(* An interactive level has an opening of its own.                         *)
LEMMA OpensUnique ==
  /\ \A l \in DOMAIN Layers : Interactive(l) => /\ Opens(l) = Opens(l - 1) + 1 /\ Opens(l - 1) \in Nat
                                                /\ Opens(l) <= Opens(Len(Layers)) /\ Opens(Len(Layers)) \in Nat
  /\ \A k, l \in DOMAIN Layers :
       Interactive(k) /\ Interactive(l) /\ Opens(k) <= Opens(l) => k = l \/ Opens(k) <= Opens(l - 1)
<1>1. Len(Layers) \in Nat /\ DOMAIN Layers = 1..Len(Layers)
  BY LayerFacts
<1>2. ASSUME NEW l \in DOMAIN Layers, Interactive(l)
      PROVE  /\ Opens(l) = Opens(l - 1) + 1 /\ Opens(l - 1) \in Nat
             /\ Opens(l) <= Opens(Len(Layers)) /\ Opens(Len(Layers)) \in Nat
  <2>1. l - 1 \in 0..Len(Layers) /\ l \in 0..Len(Layers) /\ Len(Layers) \in 0..Len(Layers) /\ l <= Len(Layers)
    BY <1>1
  <2>2. Opens(l) = Opens(l - 1) + (IF Interactive(l) THEN 1 ELSE 0)
    BY OpensFacts
  <2>3. Opens(l) <= Opens(Len(Layers)) /\ Opens(l - 1) \in Nat /\ Opens(Len(Layers)) \in Nat
    BY <2>1, OpensFacts
  <2> QED BY <1>2, <2>2, <2>3
<1>3. ASSUME NEW k \in DOMAIN Layers, NEW l \in DOMAIN Layers, Interactive(k), Interactive(l), Opens(k) <= Opens(l)
      PROVE  k = l \/ Opens(k) <= Opens(l - 1)
  <2>1. CASE k < l
    <3>1. k \in 0..Len(Layers) /\ l - 1 \in 0..Len(Layers) /\ k <= l - 1
      BY <1>1, <2>1
    <3> QED BY <3>1, OpensFacts
  <2>2. CASE k > l
    <3>1. l \in 0..Len(Layers) /\ k - 1 \in 0..Len(Layers) /\ l <= k - 1
      BY <1>1, <2>2
    <3>2. Opens(l) <= Opens(k - 1) /\ Opens(l) \in Nat
      BY <3>1, OpensFacts
    <3>3. Opens(k) = Opens(k - 1) + 1 /\ Opens(k - 1) \in Nat
      BY <1>2, <1>3
    <3> QED BY <1>3, <3>2, <3>3
  <2> QED BY <1>1, <2>1, <2>2
<1> QED BY <1>2, <1>3

(* An interactive level has multiplications only.                          *)
LEMMA LevelSharesFacts ==
  ASSUME LocalTypes, NEW p \in Parties, NEW l \in DOMAIN Layers, Interactive(l)
  PROVE  /\ \A w \in Range(Layers[l]) : w \in Wires /\ IsMult(w)
         /\ LevelShares(tape, Plain, p, l) \in Seq(Ring)
<1>1. /\ DOMAIN Layers[l] = 1..Len(Layers[l]) /\ Len(Layers[l]) \in Nat
      /\ \A i \in DOMAIN Layers[l] : Layers[l][i] \in Range(Layers[l])
      /\ Range(Layers[l]) \subseteq Wires
  BY LayerFacts
<1>2. \A w \in Range(Layers[l]) : w \in Wires /\ IsMult(w)
  BY <1>1, LayersAssumption DEF Interactive
<1>3. \A i \in DOMAIN Layers[l] : ShareOf(tape, Plain, p, Layers[l][i]) \in Ring
  <2>1. PlainValues(inputs, Plain) /\ tape \in Tapes /\ inputs \in InputChoices
    BY PlainOk
  <2> QED BY <1>1, <1>2, <2>1, ShareFacts
<1> QED BY <1>1, <1>2, <1>3 DEF LevelShares

(* MultSend: what is contributed are the shares, at the level's place in   *)
(* the order of the openings.                                              *)
LEMMA MultSendInv ==
  ASSUME IInv, NEW p \in Parties, NEW l \in DOMAIN Layers, MultSend(p, l)
  PROVE  IInv'
<1> DEFINE vector == [i \in DOMAIN Layers[l] |-> MultShare(p, Layers[l][i])]
           all == LevelShares(tape, Plain, p, l)
<1>1. /\ pc[p] = "evaluateCircuit" /\ at[p] = l /\ Interactive(l)
      /\ shares' = [shares EXCEPT ![p] = Append(shares[p], vector)] /\ Goto(p, "reconstructMult", l)
      /\ UNCHANGED <<randVars, dpos, ppos, lambda, gamma, toSend, rerand, netVars, m, outvals>>
  <2>1. shares' = [shares EXCEPT ![p] = Append(@, vector)]
    BY DEF MultSend, Contribute
  <2> QED BY <2>1 DEF MultSend, AtLevel, setupVars
<1>2. /\ p \in Procs /\ LocalTypes /\ PartyInv(p) /\ NetInv
      /\ PlainValues(inputs, Plain) /\ tape \in Tapes /\ inputs \in InputChoices
      /\ lambda \in [Procs -> [Wires -> Ring]] /\ shares \in [Parties -> Seq(Seq(Ring))]
      /\ outvals \in [Parties -> Seq(Ring)] /\ m \in [Parties -> [Wires -> Ring]]
      /\ l \in Nat
      /\ \A w \in InputWires \cup Below(l - 1) : m[p][w] = MaskedOf(tape, Plain, w)
      /\ \A w \in Wires : lambda[p][w] = Mask(tape, p)[w]
      /\ \A w \in Wires : IsMult(w) => gamma[p][w] = GammaOf(tape, p, w)
  BY <1>1, LevelFacts
<1>3. /\ \A w \in Range(Layers[l]) : Ins(w) \subseteq Below(l - 1) /\ w \in Wires /\ IsMult(w)
      /\ all \in Seq(Ring)
  BY <1>1, <1>2, BelowFacts, LevelSharesFacts
<1>4. ASSUME NEW w \in Range(Layers[l]) PROVE MultShare(p, w) = ShareOf(tape, Plain, p, w)
  <2> DEFINE term(x, y) == m[p][x] * lambda[p][y] + lambda[p][x] * m[p][y]
                             + (IF p = 1 THEN m[p][x] * m[p][y] ELSE 0)
  <2>1. w \in Wires /\ IsMult(w)
    BY <1>3
  <2>2. ASSUME NEW j \in 1..Width(w)
        PROVE  term(In1(w, j), In2(w, j)) = Term(tape, Plain, p, In1(w, j), In2(w, j))
    <3>1. /\ In1(w, j) \in Wires /\ In2(w, j) \in Wires /\ In1(w, j) \in Ins(w) /\ In2(w, j) \in Ins(w)
      BY <2>1, GateFacts
    <3>2. In1(w, j) \in Below(l - 1) /\ In2(w, j) \in Below(l - 1)
      BY <1>3, <3>1
    <3>3. /\ m[p][In1(w, j)] = MaskedOf(tape, Plain, In1(w, j)) /\ m[p][In2(w, j)] = MaskedOf(tape, Plain, In2(w, j))
          /\ lambda[p][In1(w, j)] = Mask(tape, p)[In1(w, j)] /\ lambda[p][In2(w, j)] = Mask(tape, p)[In2(w, j)]
      BY <1>2, <3>1, <3>2
    <3> QED BY <3>3 DEF Term
  <2>3. [j \in 1..Width(w) |-> term(In1(w, j), In2(w, j))]
          = [j \in 1..Width(w) |-> Term(tape, Plain, p, In1(w, j), In2(w, j))]
    <3> HIDE DEF term
    <3> QED BY <2>2
  <2>4. lambda[p][w] = Mask(tape, p)[w] /\ gamma[p][w] = GammaOf(tape, p, w)
    BY <1>2, <2>1
  <2>5. MultShare(p, w) = (SumTo(Width(w), [j \in 1..Width(w) |-> term(In1(w, j), In2(w, j))])
                             + gamma[p][w] - lambda[p][w]) % Modulus
    BY DEF MultShare
  <2> HIDE DEF term
  <2> QED BY <2>3, <2>4, <2>5 DEF ShareOf
<1>5. vector = all
  <2>1. \A i \in DOMAIN Layers[l] : Layers[l][i] \in Range(Layers[l])
    BY LayerFacts
  <2> QED BY <1>4, <2>1 DEF LevelShares
<1> HIDE DEF vector, all
<1>6. shares[p] \in Seq(Seq(Ring)) /\ Len(shares[p]) = Opens(l - 1)
  <2>1. Contributed(pc[p], at[p]) = Opens(l - 1)
    BY <1>1 DEF Contributed, Early
  <2> QED BY <1>2, <2>1 DEF PartyInv, SharesOk
<1>7. /\ Append(shares[p], all) \in Seq(Seq(Ring)) /\ Len(Append(shares[p], all)) = Opens(l - 1) + 1
      /\ Append(shares[p], all)[Opens(l - 1) + 1] = all
      /\ \A k \in 1..Opens(l - 1) : Append(shares[p], all)[k] = shares[p][k]
  BY <1>3, <1>6
<1>8. shares' = [shares EXCEPT ![p] = Append(shares[p], all)]
  BY <1>1, <1>5
<1>9. /\ shares' \in [Parties -> Seq(Seq(Ring))] /\ shares'[p] = Append(shares[p], all)
      /\ \A q \in Parties \ {p} : shares'[q] = shares[q]
  BY <1>2, <1>7, <1>8
<1>10. m' = m /\ lambda' = lambda /\ outvals' = outvals
  BY <1>1
<1>11. Online(p, "reconstructMult", l)
  <2>1. "reconstructMult" \in Methods \ {"outputSetup", "setup"} /\ pc[p] \notin {"outputSetup", "setup"}
    BY <1>1 DEF Methods
  <2>2. UNCHANGED <<randVars, dpos, ppos, gamma, toSend, rerand>>
    BY <1>1
  <2> QED BY <1>1, <1>2, <1>9, <1>10, <2>1, <2>2 DEF Online
<1>12. /\ LocalTypes' /\ Frame(p) /\ pc'[p] = "reconstructMult" /\ at'[p] = l
       /\ tape' = tape /\ Plain' = Plain
       /\ DrawsOk(p, pc[p], at[p], ppos[p])' /\ ZerosOk(tape, p, pc[p], rerand[p])'
       /\ GammasOk(tape, p, pc[p], at[p], gamma[p])'
       /\ MasksOk(tape, p, pc[p], at[p], lambda[p])'
       /\ OutvalsOk(Plain, pc[p], outvals[p])'
  <2>1. /\ lambda'[p] = lambda[p]
        /\ "reconstructMult" \in {"getOutputs", "done"} <=> pc[p] \in {"getOutputs", "done"}
    BY <1>1, <1>10
  <2> QED BY <1>11, <2>1, OnlineStep
<1>13. SharesOk(tape, Plain, p, pc[p], at[p], shares[p])'
  <2>1. Opens(l) = Opens(l - 1) + 1 /\ Opens(l - 1) \in Nat /\ Opens(l) <= Opens(Len(Layers)) /\ Opens(Len(Layers)) \in Nat
    BY <1>1, OpensUnique
  <2>2. Len(shares'[p]) = Opens(l) /\ shares'[p][Opens(l)] = all
    BY <1>7, <1>9, <2>1
  <2>3. Contributed(pc'[p], at'[p]) = Opens(l)
    BY <1>12 DEF Contributed, Early
  <2>4. ASSUME NEW k \in DOMAIN Layers, Interactive(k), Opens(k) <= Opens(l)
        PROVE  shares'[p][Opens(k)] = LevelShares(tape, Plain, p, k)
    <3>1. CASE k = l
      BY <2>2, <3>1 DEF all
    <3>2. CASE k # l
      <4>1. Opens(k) <= Opens(l - 1)
        BY <1>1, <2>4, <3>2, OpensUnique
      <4>2. Opens(k) \in 1..Opens(l - 1)
        <5>1. Opens(k) = Opens(k - 1) + 1 /\ Opens(k - 1) \in Nat
          BY <2>4, OpensUnique
        <5> QED BY <2>1, <4>1, <5>1
      <4>3. shares[p][Opens(k)] = LevelShares(tape, Plain, p, k)
        BY <1>2, <1>6, <2>4, <4>1 DEF PartyInv, SharesOk
      <4> QED BY <1>7, <1>9, <4>2, <4>3
    <3> QED BY <3>1, <3>2
  <2>5. Opens(l) # Opens(Len(Layers)) + 1
    BY <2>1
  <2>6. SharesOk(tape, Plain, p, pc'[p], at'[p], shares'[p])
    BY <2>2, <2>3, <2>4, <2>5 DEF SharesOk
  <2> QED BY <1>12, <2>6
<1>14. PlaceOk(p, pc[p], at[p])'
  BY <1>1, <1>12 DEF PlaceOk
<1>15. MaskedOk(tape, Plain, p, pc[p], at[p], m[p])'
  <2>1. Known(p, pc'[p], at'[p]) = InputWires \cup Below(l - 1)
    BY <1>12 DEF Known, Early
  <2> QED BY <1>2, <1>10, <1>12, <2>1 DEF MaskedOk
<1>16. PartyInv(p)'
  BY <1>12, <1>13, <1>14, <1>15 DEF PartyInv
<1>17. NetInv'
  <2>1. netVars' = netVars /\ pc[p] \notin Early \cup {"recvInputs"} /\ "reconstructMult" \notin Early \cup {"recvInputs"}
    BY <1>1 DEF Early
  <2> QED BY <1>11, <2>1, QuietOnline
<1> QED BY <1>12, <1>16, <1>17, FromStep

(* MultRecv: what is opened are everybody's shares of this level.          *)
LEMMA MultRecvInv ==
  ASSUME IInv, NEW p \in Parties, MultRecv(p)
  PROVE  IInv'
<1> DEFINE l == at[p]
           choice(w) == CHOOSE i \in DOMAIN Layers[l] : Layers[l][i] = w
           mm == [w \in Wires |-> IF w \in Range(Layers[l]) THEN Opened(p, choice(w)) ELSE m[p][w]]
<1>1. /\ pc[p] = "reconstructMult" /\ Complete(p)
      /\ m' = [m EXCEPT ![p] = mm] /\ Goto(p, "evaluateCircuit", l + 1)
      /\ UNCHANGED <<randVars, dpos, ppos, lambda, gamma, toSend, rerand, netVars, shares, outvals>>
  BY DEF MultRecv, setupVars
<1>2. l \in DOMAIN Layers /\ Interactive(l)
  BY <1>1 DEF IInv, PartyInv, PlaceOk
<1>3. /\ p \in Procs /\ LocalTypes /\ PartyInv(p) /\ NetInv
      /\ PlainValues(inputs, Plain) /\ tape \in Tapes /\ inputs \in InputChoices
      /\ lambda \in [Procs -> [Wires -> Ring]] /\ shares \in [Parties -> Seq(Seq(Ring))]
      /\ outvals \in [Parties -> Seq(Ring)] /\ m \in [Parties -> [Wires -> Ring]]
      /\ l \in Nat /\ l + 1 \in Nat /\ (l + 1) - 1 = l /\ l + 1 \in 1..(Len(Layers) + 1)
      /\ \A w \in InputWires \cup Below(l - 1) : m[p][w] = MaskedOf(tape, Plain, w)
  BY <1>1, <1>2, LevelFacts
<1>4. Contributed(pc[p], at[p]) = Opens(l)
  BY <1>1 DEF Contributed, Early
<1> HIDE DEF l
<1>5. /\ Below(l) = Below(l - 1) \cup Range(Layers[l]) /\ Below(l) \subseteq Wires
      /\ \A w \in Range(Layers[l]) : w \in Wires /\ IsMult(w)
  BY <1>2, <1>3, BelowFacts, LevelSharesFacts
<1>6. Len(shares[p]) = Opens(l)
  BY <1>3, <1>4 DEF PartyInv, SharesOk
<1>7. ASSUME NEW q \in Parties PROVE shares[q][Opens(l)] = LevelShares(tape, Plain, q, l)
  <2>1. Opens(l) <= Len(shares[q])
    <3>1. Len(shares[q]) >= Len(shares[p])
      BY <1>1 DEF Complete
    <3>2. Len(shares[q]) \in Nat /\ Len(shares[p]) \in Nat
      BY <1>3
    <3> QED BY <1>6, <3>1, <3>2
  <2>2. SharesOk(tape, Plain, q, pc[q], at[q], shares[q])
    BY DEF IInv, PartyInv
  <2> QED BY <1>2, <2>1, <2>2 DEF SharesOk
<1>8. ASSUME NEW w \in Range(Layers[l]) PROVE Opened(p, choice(w)) = MaskedOf(tape, Plain, w)
  <2> DEFINE i == choice(w)
  <2>1. i \in DOMAIN Layers[l] /\ Layers[l][i] = w
    <3>1. \E k \in DOMAIN Layers[l] : Layers[l][k] = w
      BY <1>2, LayerFacts
    <3> QED BY <3>1
  <2> HIDE DEF i
  <2>2. ASSUME NEW q \in Parties PROVE shares[q][Len(shares[p])][i] = ShareOf(tape, Plain, q, w)
    <3>1. shares[q][Len(shares[p])] = LevelShares(tape, Plain, q, l)
      BY <1>6, <1>7
    <3>2. LevelShares(tape, Plain, q, l)[i] = ShareOf(tape, Plain, q, Layers[l][i])
      BY <2>1 DEF LevelShares
    <3> QED BY <2>1, <3>1, <3>2
  <2>3. [q \in Parties |-> shares[q][Len(shares[p])][i]] = [q \in Parties |-> ShareOf(tape, Plain, q, w)]
    BY <2>2
  <2>4. Opened(p, i) = SumTo(nP, [q \in Parties |-> ShareOf(tape, Plain, q, w)]) % Modulus
    BY <2>3 DEF Opened
  <2>5. SumTo(nP, [q \in Parties |-> ShareOf(tape, Plain, q, w)]) % Modulus = MaskedOf(tape, Plain, w)
    BY <1>3, <1>5, ShareSum
  <2> QED BY <2>4, <2>5 DEF i
<1> HIDE DEF choice
<1>9. /\ mm \in [Wires -> Ring]
      /\ \A w \in InputWires \cup Below(l) : mm[w] = MaskedOf(tape, Plain, w)
  <2>1. ASSUME NEW w \in Wires
        PROVE  /\ mm[w] \in Ring
               /\ w \in InputWires \cup Below(l) => mm[w] = MaskedOf(tape, Plain, w)
    <3>1. MaskedOf(tape, Plain, w) \in Ring
      BY <1>3, MaskedFacts
    <3>2. m[p][w] \in Ring
      BY <1>3
    <3>3. mm[w] = IF w \in Range(Layers[l]) THEN Opened(p, choice(w)) ELSE m[p][w]
      OBVIOUS
    <3> HIDE DEF mm
    <3> QED BY <1>3, <1>5, <1>8, <3>1, <3>2, <3>3
  <2>2. \A w \in InputWires \cup Below(l) : w \in Wires
    BY <1>5, Basics
  <2>3. \A w \in Wires : mm[w] \in Ring
    BY <2>1
  <2> QED BY <2>1, <2>2, <2>3
<1> HIDE DEF mm
<1>10. /\ m' \in [Parties -> [Wires -> Ring]] /\ m'[p] = mm /\ \A q \in Parties \ {p} : m'[q] = m[q]
       /\ lambda' = lambda /\ shares' = shares /\ outvals' = outvals
  BY <1>1, <1>3, <1>9
<1>11. Online(p, "evaluateCircuit", l + 1)
  <2>1. "evaluateCircuit" \in Methods \ {"outputSetup", "setup"} /\ pc[p] \notin {"outputSetup", "setup"}
    BY <1>1 DEF Methods
  <2>2. UNCHANGED <<randVars, dpos, ppos, gamma, toSend, rerand>>
    BY <1>1
  <2> QED BY <1>1, <1>3, <1>10, <2>1, <2>2 DEF Online
<1>12. Contributed("evaluateCircuit", l + 1) = Contributed(pc[p], at[p])
  <2>1. Contributed("evaluateCircuit", l + 1) = Opens(l)
    BY <1>3 DEF Contributed, Early
  <2> QED BY <1>4, <2>1
<1>13. /\ LocalTypes' /\ Frame(p) /\ pc'[p] = "evaluateCircuit" /\ at'[p] = l + 1
       /\ tape' = tape /\ Plain' = Plain
       /\ DrawsOk(p, pc[p], at[p], ppos[p])' /\ ZerosOk(tape, p, pc[p], rerand[p])'
       /\ GammasOk(tape, p, pc[p], at[p], gamma[p])'
       /\ MasksOk(tape, p, pc[p], at[p], lambda[p])'
       /\ SharesOk(tape, Plain, p, pc[p], at[p], shares[p])'
       /\ OutvalsOk(Plain, pc[p], outvals[p])'
  <2>1. /\ lambda'[p] = lambda[p] /\ shares'[p] = shares[p]
        /\ "evaluateCircuit" \in {"getOutputs", "done"} <=> pc[p] \in {"getOutputs", "done"}
    BY <1>1, <1>10
  <2> QED BY <1>11, <1>12, <2>1, OnlineStep
<1>14. PlaceOk(p, pc[p], at[p])'
  BY <1>3, <1>13 DEF PlaceOk
<1>15. MaskedOk(tape, Plain, p, pc[p], at[p], m[p])'
  <2>1. Known(p, pc'[p], at'[p]) = InputWires \cup Below(l)
    BY <1>3, <1>13 DEF Known, Early
  <2> QED BY <1>9, <1>10, <1>13, <2>1 DEF MaskedOk
<1>16. PartyInv(p)'
  BY <1>13, <1>14, <1>15 DEF PartyInv
<1>17. NetInv'
  <2>1. netVars' = netVars /\ pc[p] \notin Early \cup {"recvInputs"} /\ "evaluateCircuit" \notin Early \cup {"recvInputs"}
    BY <1>1 DEF Early
  <2> QED BY <1>11, <2>1, QuietOnline
<1> QED BY <1>13, <1>16, <1>17, FromStep

(* OutputSend: the k-th output's share has the shares of zero up to k on   *)
(* it.                                                                     *)
LEMMA OutputSendInv ==
  ASSUME IInv, NEW p \in Parties, OutputSend(p)
  PROVE  IInv'
<1> DEFINE N == Len(Outputs)
           L == Len(Layers)
           own == OutputShares(tape, p)
           vector == [k \in DOMAIN Outputs |->
                        (lambda[p][Outputs[k]] + RerandUpTo(p, Outputs[k], k)) % Modulus]
           masks == [w \in Wires |-> (lambda[p][w] + RerandUpTo(p, w, N)) % Modulus]
<1>1. /\ pc[p] = "evaluateCircuit" /\ at[p] > Len(Layers)
      /\ shares' = [shares EXCEPT ![p] = Append(shares[p], vector)]
      /\ lambda' = [lambda EXCEPT ![p] = masks] /\ Goto(p, "getOutputs", 1)
      /\ UNCHANGED <<randVars, netVars, dpos, ppos, gamma, toSend, rerand, m, outvals>>
  <2>1. shares' = [shares EXCEPT ![p] = Append(@, vector)]
    BY DEF OutputSend, Contribute
  <2> QED BY <2>1 DEF OutputSend
<1>2. p \in Procs /\ LocalTypes /\ PartyInv(p) /\ NetInv
  BY PartyIsProc DEF IInv
<1>3. /\ tape \in Tapes /\ lambda \in [Procs -> [Wires -> Ring]] /\ shares \in [Parties -> Seq(Seq(Ring))]
      /\ outvals \in [Parties -> Seq(Ring)] /\ m \in [Parties -> [Wires -> Ring]]
  BY <1>2 DEF LocalTypes
<1>4. at[p] = L + 1 /\ L \in Nat /\ (L + 1) - 1 = L
  BY <1>1, <1>2, LayerFacts DEF PartyInv, PlaceOk
<1>5. N \in Nat /\ DOMAIN Outputs = 1..N /\ \A k \in 1..N : Outputs[k] \in Wires /\ k \in 0..N
  BY OutputFacts
<1>6. \A w \in Wires : Pos(w) <= Steps(pc[p], at[p])
  <2>1. Steps(pc[p], at[p]) = NumGates
    BY <1>1 DEF Steps
  <2> QED BY <2>1, PosFacts
<1>7. ASSUME NEW w \in Wires, NEW k \in 0..N
      PROVE  (lambda[p][w] + RerandUpTo(p, w, k)) % Modulus = OutMask(tape, p, w, k)
  <2>1. lambda[p][w] = Mask(tape, p)[w]
    BY <1>1, <1>2, <1>6 DEF PartyInv, MasksOk
  <2>2. \A j \in DOMAIN Outputs : rerand[p][j] = ZeroOf(tape, p, j)
    BY <1>1, <1>2 DEF PartyInv, ZerosOk
  <2>3. [j \in DOMAIN Outputs |-> IF Outputs[j] = w THEN rerand[p][j] ELSE 0] = ZerosOf(tape, p, w)
    BY <2>2 DEF ZerosOf
  <2> QED BY <2>1, <2>3 DEF OutMask, RerandUpTo
<1>8. vector = own
  <2>1. \A k \in DOMAIN Outputs :
          (lambda[p][Outputs[k]] + RerandUpTo(p, Outputs[k], k)) % Modulus = OutMask(tape, p, Outputs[k], k)
    BY <1>5, <1>7
  <2> QED BY <2>1 DEF OutputShares
<1>9. /\ masks \in [Wires -> Ring]
      /\ \A w \in Wires : masks[w] = OutMask(tape, p, w, N)
  <2>1. \A w \in Wires : (lambda[p][w] + RerandUpTo(p, w, N)) % Modulus = OutMask(tape, p, w, N)
    BY <1>5, <1>7
  <2>2. \A w \in Wires : OutMask(tape, p, w, N) \in Ring
    <3>1. N \in 0..N
      BY <1>5
    <3> QED BY <1>2, <1>3, <3>1, ZerosFacts
  <2> QED BY <2>1, <2>2
<1>10. own \in Seq(Ring)
  <2>1. \A k \in 1..N : OutMask(tape, p, Outputs[k], k) \in Ring
    BY <1>2, <1>3, <1>5, ZerosFacts
  <2> QED BY <1>5, <2>1 DEF OutputShares
<1> HIDE DEF vector, masks, own
<1>11. shares[p] \in Seq(Seq(Ring)) /\ Len(shares[p]) = Opens(L) /\ Opens(L) \in Nat
  <2>1. Contributed(pc[p], at[p]) = Opens(L)
    BY <1>1, <1>4 DEF Contributed, Early
  <2>2. Opens(L) \in Nat
    BY <1>4, OpensFacts
  <2> QED BY <1>2, <1>3, <2>1, <2>2 DEF PartyInv, SharesOk
<1>12. /\ Append(shares[p], own) \in Seq(Seq(Ring)) /\ Len(Append(shares[p], own)) = Opens(L) + 1
       /\ Append(shares[p], own)[Opens(L) + 1] = own
       /\ \A k \in 1..Opens(L) : Append(shares[p], own)[k] = shares[p][k]
  BY <1>10, <1>11
<1>13. /\ shares' \in [Parties -> Seq(Seq(Ring))] /\ shares'[p] = Append(shares[p], own)
       /\ \A q \in Parties \ {p} : shares'[q] = shares[q]
  <2>1. shares' = [shares EXCEPT ![p] = Append(shares[p], own)]
    BY <1>1, <1>8
  <2> QED BY <1>3, <1>12, <2>1
<1>14. /\ lambda' \in [Procs -> [Wires -> Ring]] /\ lambda'[p] = masks
       /\ \A q \in Procs \ {p} : lambda'[q] = lambda[q]
  BY <1>1, <1>2, <1>3, <1>9
<1>15. m' = m /\ outvals' = outvals
  BY <1>1
<1>16. Online(p, "getOutputs", 1)
  <2>1. "getOutputs" \in Methods \ {"outputSetup", "setup"} /\ pc[p] \notin {"outputSetup", "setup"} /\ 1 \in Nat
    BY <1>1 DEF Methods
  <2>2. UNCHANGED <<randVars, dpos, ppos, gamma, toSend, rerand>>
    BY <1>1
  <2> QED BY <1>1, <1>3, <1>13, <1>14, <1>15, <2>1, <2>2 DEF Online
<1>17. /\ LocalTypes' /\ Frame(p) /\ pc'[p] = "getOutputs" /\ at'[p] = 1
       /\ tape' = tape /\ Plain' = Plain
       /\ DrawsOk(p, pc[p], at[p], ppos[p])' /\ ZerosOk(tape, p, pc[p], rerand[p])'
       /\ GammasOk(tape, p, pc[p], at[p], gamma[p])'
       /\ OutvalsOk(Plain, pc[p], outvals[p])'
  BY <1>16, OnlineStep
<1>18. MasksOk(tape, p, pc[p], at[p], lambda[p])'
  <2>1. \A w \in Wires : lambda'[p][w] = OutMask(tape, p, w, Len(Outputs))
    BY <1>9, <1>14
  <2>2. p # 0
    BY PartyIsProc
  <2> QED BY <1>17, <2>1, <2>2 DEF MasksOk
<1>19. SharesOk(tape, Plain, p, pc[p], at[p], shares[p])'
  <2>1. Contributed(pc'[p], at'[p]) = Opens(L) + 1
    BY <1>17 DEF Contributed, Early
  <2>2. ASSUME NEW k \in DOMAIN Layers, Interactive(k)
        PROVE  shares'[p][Opens(k)] = LevelShares(tape, Plain, p, k)
    <3>1. Opens(k) <= Opens(L) /\ Opens(k) = Opens(k - 1) + 1 /\ Opens(k - 1) \in Nat
      BY <2>2, OpensUnique
    <3>2. Opens(k) \in 1..Opens(L)
      BY <1>11, <3>1
    <3>3. shares[p][Opens(k)] = LevelShares(tape, Plain, p, k)
      BY <1>2, <1>11, <2>2, <3>1 DEF PartyInv, SharesOk
    <3> QED BY <1>12, <1>13, <3>2, <3>3
  <2>3. Len(shares'[p]) = Opens(L) + 1 /\ shares'[p][Len(shares'[p])] = OutputShares(tape, p)
    BY <1>12, <1>13 DEF own
  <2>4. SharesOk(tape, Plain, p, pc'[p], at'[p], shares'[p])
    BY <2>1, <2>2, <2>3 DEF SharesOk
  <2> QED BY <1>17, <2>4
<1>20. PlaceOk(p, pc[p], at[p])'
  BY <1>17 DEF PlaceOk
<1>21. MaskedOk(tape, Plain, p, pc[p], at[p], m[p])'
  <2>1. Known(p, pc[p], at[p]) = InputWires \cup Below(L)
    BY <1>1, <1>4 DEF Known, Early
  <2>2. Below(L) = Wires
    BY BelowFacts
  <2>3. \A w \in Wires : m[p][w] = MaskedOf(tape, Plain, w)
    BY <1>2, <2>1, <2>2 DEF PartyInv, MaskedOk
  <2>4. Known(p, pc'[p], at'[p]) = Wires
    BY <1>17 DEF Known, Early
  <2> QED BY <1>15, <1>17, <2>3, <2>4 DEF MaskedOk
<1>22. PartyInv(p)'
  BY <1>17, <1>18, <1>19, <1>20, <1>21 DEF PartyInv
<1>23. NetInv'
  <2>1. netVars' = netVars /\ pc[p] \notin Early \cup {"recvInputs"} /\ "getOutputs" \notin Early \cup {"recvInputs"}
    BY <1>1 DEF Early
  <2> QED BY <1>16, <2>1, QuietOnline
<1> QED BY <1>17, <1>22, <1>23, FromStep

(* The opening of the outputs is the last one.                             *)
LEMMA LastOpening ==
  ASSUME NEW q, PlaceOk(q, pc[q], at[q])
  PROVE  Contributed(pc[q], at[q]) <= Opens(Len(Layers)) + 1
<1>1. Len(Layers) \in Nat /\ DOMAIN Layers = 1..Len(Layers) /\ Opens(Len(Layers)) \in Nat
  BY LayerFacts, OpensFacts
<1>2. CASE pc[q] \in Early \cup {"recvInputs"}
  <2>1. Contributed(pc[q], at[q]) = 0
    BY <1>2 DEF Contributed, Early
  <2> QED BY <1>1, <2>1
<1>3. CASE pc[q] = "evaluateCircuit"
  <2>1. at[q] - 1 \in 0..Len(Layers) /\ at[q] - 1 <= Len(Layers) /\ Len(Layers) \in 0..Len(Layers)
    BY <1>1, <1>3 DEF PlaceOk
  <2>2. Opens(at[q] - 1) <= Opens(Len(Layers)) /\ Opens(at[q] - 1) \in Nat
    BY <2>1, OpensFacts
  <2>3. Contributed(pc[q], at[q]) = Opens(at[q] - 1)
    BY <1>3 DEF Contributed, Early
  <2> QED BY <1>1, <2>2, <2>3
<1>4. CASE pc[q] = "reconstructMult"
  <2>1. Opens(at[q]) <= Opens(Len(Layers)) /\ at[q] \in 0..Len(Layers)
    BY <1>1, <1>4, OpensUnique DEF PlaceOk
  <2>2. Contributed(pc[q], at[q]) = Opens(at[q]) /\ Opens(at[q]) \in Nat
    BY <1>4, <2>1, OpensFacts DEF Contributed, Early
  <2> QED BY <1>1, <2>1, <2>2
<1>5. CASE pc[q] \notin Early \cup {"recvInputs", "evaluateCircuit", "reconstructMult"}
  <2>1. Contributed(pc[q], at[q]) = Opens(Len(Layers)) + 1
    BY <1>5 DEF Contributed
  <2> QED BY <1>1, <2>1
<1> QED BY <1>2, <1>3, <1>4, <1>5

(* OutputRecv: the opened masks take the masks off the outputs.            *)
LEMMA OutputRecvInv ==
  ASSUME IInv, NEW p \in Parties, OutputRecv(p)
  PROVE  IInv'
<1> DEFINE N == Len(Outputs)
           n == Opens(Len(Layers)) + 1
           res == [k \in DOMAIN Outputs |-> (m[p][Outputs[k]] + Opened(p, k)) % Modulus]
           want == [k \in DOMAIN Outputs |-> Plain[Outputs[k]]]
<1>1. /\ pc[p] = "getOutputs" /\ Complete(p)
      /\ outvals' = [outvals EXCEPT ![p] = res] /\ Goto(p, "done", 1)
      /\ UNCHANGED <<randVars, dpos, ppos, lambda, gamma, toSend, rerand, netVars, m, shares>>
  BY DEF OutputRecv, setupVars
<1>2. p \in Procs /\ LocalTypes /\ PartyInv(p) /\ NetInv
  BY PartyIsProc DEF IInv
<1>3. /\ tape \in Tapes /\ lambda \in [Procs -> [Wires -> Ring]] /\ shares \in [Parties -> Seq(Seq(Ring))]
      /\ outvals \in [Parties -> Seq(Ring)] /\ m \in [Parties -> [Wires -> Ring]]
      /\ PlainValues(inputs, Plain) /\ inputs \in InputChoices
  BY <1>2, PlainOk DEF LocalTypes
<1>4. N \in Nat /\ DOMAIN Outputs = 1..N /\ \A k \in 1..N : Outputs[k] \in Wires /\ k \in 0..N
  BY OutputFacts
<1>5. Len(shares[p]) = n
  <2>1. Contributed(pc[p], at[p]) = n
    BY <1>1 DEF Contributed, Early
  <2> QED BY <1>2, <2>1 DEF PartyInv, SharesOk
<1>6. ASSUME NEW q \in Parties PROVE shares[q][n] = OutputShares(tape, q)
  <2>1. Len(shares[q]) >= n /\ Len(shares[q]) \in Nat /\ n \in Nat
    <3>1. Len(shares[q]) >= Len(shares[p]) /\ Len(shares[q]) \in Nat /\ Len(shares[p]) \in Nat
      BY <1>1, <1>3 DEF Complete
    <3> QED BY <1>5, <3>1
  <2>2. /\ SharesOk(tape, Plain, q, pc[q], at[q], shares[q]) /\ PlaceOk(q, pc[q], at[q])
    BY DEF IInv, PartyInv
  <2>3. Len(shares[q]) <= n
    BY <2>2, LastOpening DEF SharesOk
  <2>4. Len(shares[q]) = n
    BY <2>1, <2>3
  <2> QED BY <2>2, <2>4 DEF SharesOk
<1>7. ASSUME NEW k \in DOMAIN Outputs PROVE (m[p][Outputs[k]] + Opened(p, k)) % Modulus = Plain[Outputs[k]]
  <2> DEFINE w == Outputs[k]
  <2>1. w \in Wires /\ k \in 0..N
    BY <1>4
  <2> HIDE DEF w
  <2>2. m[p][w] = MaskedOf(tape, Plain, w)
    <3>1. Known(p, pc[p], at[p]) = Wires
      BY <1>1 DEF Known, Early
    <3> QED BY <1>2, <2>1, <3>1 DEF PartyInv, MaskedOk
  <2>3. ASSUME NEW q \in Parties PROVE shares[q][Len(shares[p])][k] = OutMask(tape, q, w, k)
    <3>1. shares[q][Len(shares[p])] = OutputShares(tape, q)
      BY <1>5, <1>6
    <3>2. OutputShares(tape, q)[k] = OutMask(tape, q, w, k)
      BY DEF OutputShares, w
    <3> QED BY <3>1, <3>2
  <2>4. [q \in Parties |-> shares[q][Len(shares[p])][k]] = [q \in Parties |-> OutMask(tape, q, w, k)]
    BY <2>3
  <2>5. Opened(p, k) = SumTo(nP, [q \in Parties |-> OutMask(tape, q, w, k)]) % Modulus
    BY <2>4 DEF Opened
  <2>6. SumTo(nP, [q \in Parties |-> OutMask(tape, q, w, k)]) % Modulus = Mask(tape, 0)[w]
    BY <1>3, <2>1, OutputSum
  <2>7. (MaskedOf(tape, Plain, w) + Mask(tape, 0)[w]) % Modulus = Plain[w]
    BY <1>3, <2>1, MaskedFacts
  <2> QED BY <2>2, <2>5, <2>6, <2>7 DEF w
<1>8. res = want
  BY <1>7
<1>9. want \in Seq(Ring)
  <2>1. \A k \in 1..N : Plain[Outputs[k]] \in Ring
    BY <1>3, <1>4 DEF PlainValues
  <2> QED BY <1>4, <2>1
<1> HIDE DEF res, want
<1>10. /\ outvals' \in [Parties -> Seq(Ring)] /\ outvals'[p] = want
       /\ \A q \in Parties \ {p} : outvals'[q] = outvals[q]
       /\ lambda' = lambda /\ shares' = shares /\ m' = m
  BY <1>1, <1>3, <1>8, <1>9
<1>11. Online(p, "done", 1)
  <2>1. "done" \in Methods \ {"outputSetup", "setup"} /\ pc[p] \notin {"outputSetup", "setup"} /\ 1 \in Nat
    BY <1>1 DEF Methods
  <2>2. UNCHANGED <<randVars, dpos, ppos, gamma, toSend, rerand>>
    BY <1>1
  <2> QED BY <1>1, <1>3, <1>10, <2>1, <2>2 DEF Online
<1>12. Contributed("done", 1) = Contributed(pc[p], at[p])
  BY <1>1 DEF Contributed, Early
<1>13. /\ LocalTypes' /\ Frame(p) /\ pc'[p] = "done" /\ at'[p] = 1
       /\ tape' = tape /\ Plain' = Plain
       /\ DrawsOk(p, pc[p], at[p], ppos[p])' /\ ZerosOk(tape, p, pc[p], rerand[p])'
       /\ GammasOk(tape, p, pc[p], at[p], gamma[p])'
       /\ MasksOk(tape, p, pc[p], at[p], lambda[p])'
       /\ SharesOk(tape, Plain, p, pc[p], at[p], shares[p])'
  <2>1. /\ lambda'[p] = lambda[p] /\ shares'[p] = shares[p]
        /\ "done" \in {"getOutputs", "done"} <=> pc[p] \in {"getOutputs", "done"}
    BY <1>1, <1>10
  <2> QED BY <1>11, <1>12, <2>1, OnlineStep
<1>14. OutvalsOk(Plain, pc[p], outvals[p])'
  BY <1>10, <1>13 DEF OutvalsOk, want
<1>15. PlaceOk(p, pc[p], at[p])'
  BY <1>13 DEF PlaceOk
<1>16. MaskedOk(tape, Plain, p, pc[p], at[p], m[p])'
  <2>1. Known(p, pc'[p], at'[p]) = Known(p, pc[p], at[p])
    BY <1>1, <1>13 DEF Known, Early
  <2> QED BY <1>2, <1>10, <1>13, <2>1 DEF PartyInv, MaskedOk
<1>17. PartyInv(p)'
  BY <1>13, <1>14, <1>15, <1>16 DEF PartyInv
<1>18. NetInv'
  <2>1. netVars' = netVars /\ pc[p] \notin Early \cup {"recvInputs"} /\ "done" \notin Early \cup {"recvInputs"}
    BY <1>1 DEF Early
  <2> QED BY <1>11, <2>1, QuietOnline
<1> QED BY <1>13, <1>17, <1>18, FromStep

(* Every step of the dealer keeps the invariant.                           *)
LEMMA DealerStepInv ==
  ASSUME IInv, DealerStep
  PROVE  IInv'
<1>1. CASE OutputSetupDealer
  BY <1>1, OutputSetupDealerInv
<1>2. CASE SendGamma
  BY <1>2, SendGammaInv
<1>3. ASSUME NEW g \in Wires, SetupLinear(0, g) PROVE IInv'
  <2>1. 0 \in Procs
    BY Basics
  <2> QED BY <1>3, <2>1, SetupLinearInv
<1>4. ASSUME NEW g \in Wires, SetupInputDealer(g) PROVE IInv'
  BY <1>4, SetupInputDealerInv
<1>5. ASSUME NEW g \in Wires, SetupMultDealer(g) PROVE IInv'
  BY <1>5, SetupMultDealerInv
<1> QED BY <1>1, <1>2, <1>3, <1>4, <1>5 DEF DealerStep

(* Every step of a party does.                                             *)
LEMMA PartyStepInv ==
  ASSUME IInv, NEW p \in Parties, PartyStep(p)
  PROVE  IInv'
<1>1. CASE OutputSetupFirst
  BY <1>1, OutputSetupFirstInv
<1>2. CASE OutputSetupOther(p)
  BY <1>2, OutputSetupOtherInv
<1>3. ASSUME NEW g \in Wires, SetupLinear(p, g) PROVE IInv'
  <2>1. p \in Procs
    BY PartyIsProc
  <2> QED BY <1>3, <2>1, SetupLinearInv
<1>4. ASSUME NEW g \in Wires, SetupInputParty(p, g) PROVE IInv'
  BY <1>4, SetupInputPartyInv
<1>5. ASSUME NEW g \in Wires, SetupMultParty(p, g) PROVE IInv'
  BY <1>5, SetupMultPartyInv
<1>6. ASSUME NEW g \in Wires, SetupMultLast(g) PROVE IInv'
  BY <1>6, SetupMultLastInv
<1>7. CASE RecvGamma
  BY <1>7, RecvGammaInv
<1>8. CASE EndSetup(p)
  BY <1>8, EndSetupInv
<1>9. CASE SendInputs(p)
  BY <1>9, SendInputsInv
<1>10. CASE RecvInputs(p)
  BY <1>10, RecvInputsInv
<1>11. CASE EndInputs(p)
  BY <1>11, EndInputsInv
<1>12. ASSUME NEW l \in DOMAIN Layers, EvalLinear(p, l) PROVE IInv'
  BY <1>12, EvalLinearInv
<1>13. ASSUME NEW l \in DOMAIN Layers, MultSend(p, l) PROVE IInv'
  BY <1>13, MultSendInv
<1>14. CASE MultRecv(p)
  BY <1>14, MultRecvInv
<1>15. CASE OutputSend(p)
  BY <1>15, OutputSendInv
<1>16. CASE OutputRecv(p)
  BY <1>16, OutputRecvInv
<1> QED BY <1>1, <1>2, <1>3, <1>4, <1>5, <1>6, <1>7, <1>8, <1>9, <1>10, <1>11, <1>12, <1>13,
           <1>14, <1>15, <1>16 DEF PartyStep

(* So does a step that changes nothing.                                    *)
LEMMA StutterInv ==
  ASSUME IInv, vars' = vars
  PROVE  IInv'
<1>1. /\ pc' = pc /\ at' = at /\ tape' = tape /\ inputs' = inputs /\ dpos' = dpos /\ ppos' = ppos
      /\ lambda' = lambda /\ gamma' = gamma /\ toSend' = toSend /\ rerand' = rerand
      /\ m' = m /\ shares' = shares /\ outvals' = outvals
      /\ log' = log /\ flushed' = flushed /\ read' = read
  BY DEF vars, randVars, setupVars, onlineVars, netVars
<1>2. Plain' = Plain
  BY <1>1, PlainSame
<1>3. LocalTypes' /\ DealerInv' /\ \A p \in Parties : PartyInv(p)'
  BY <1>1, <1>2 DEF IInv, LocalTypes, DealerInv, PartyInv
<1>4. NetTypeOK(Seq(Ring))' /\ NetOK' /\ AllFlushed' /\ StreamsInv'
  BY <1>1, <1>2 DEF IInv, NetInv, NetTypeOK, NetOK, AllFlushed, StreamsInv
<1> QED BY <1>3, <1>4 DEF IInv, NetInv

(* In every reachable state every process holds what its place in the code *)
(* says: masks, shares, masked values and outputs are functions of the     *)
(* streams and the inputs, whatever the interleaving                       *)
(* (semi_evaluator.cpp:32-456).                                            *)
THEOREM Invariant == Spec => []IInv
<1>1. IInv /\ [Next]_vars => IInv'
  BY DealerStepInv, PartyStepInv, StutterInv DEF Next
<1> QED BY <1>1, InitInv, PTL DEF Spec

(* Masks, shares and masked values stay in the ring, the streams carry     *)
(* vectors of ring elements: no unreduced value, no foreign message.       *)
THEOREM TypeCorrect == Spec => []TypeOK
<1>1. IInv => TypeOK
  BY DEF IInv, LocalTypes, NetInv, TypeOK
<1> QED BY <1>1, Invariant, PTL

(* After the setup the parties' shares of the product of two masks sum to  *)
(* it, for every circuit, number of parties and content of the streams:    *)
(* dealer and parties draw in the same order, and party nP finds what was  *)
(* sent to it (semi_evaluator.cpp:83-270).                                 *)
THEOREM GammaCorrect == Spec => []GammaMatch
<1>1. IInv => GammaMatch
  <2> SUFFICES ASSUME IInv, \A p \in Procs : pc[p] \notin {"outputSetup", "setup"},
                      NEW w \in Wires, IsMult(w)
               PROVE  SumTo(nP, [p \in Parties |-> gamma[p][w]]) % Modulus = MaskProduct(w) % Modulus
    BY DEF GammaMatch
  <2>1. \A p \in Procs : Steps(pc[p], at[p]) = NumGates
    BY DEF Steps
  <2>2. \A v \in Wires : Pos(v) <= NumGates
    BY PosFacts, OrderFacts
  <2>3. ASSUME NEW p \in Parties PROVE gamma[p][w] = GammaOf(tape, p, w)
    <3>1. p \in Procs
      BY PartyIsProc
    <3> QED BY <2>1, <2>2, <3>1 DEF IInv, PartyInv, GammasOk
  <2>4. [p \in Parties |-> gamma[p][w]] = GammaShares(tape, w)
    BY <2>3 DEF GammaShares
  <2>5. \A v \in Wires : lambda[0][v] = Mask(tape, 0)[v]
    <3>1. 0 \in Procs
      BY Basics
    <3> QED BY <2>1, <2>2, <3>1 DEF IInv, DealerInv, MasksOk
  <2>6. MaskProduct(w) = Product(tape, w)
    <3>1. \A j \in 1..Width(w) : In1(w, j) \in Wires /\ In2(w, j) \in Wires
      BY GateFacts
    <3>2. [j \in 1..Width(w) |-> lambda[0][In1(w, j)] * lambda[0][In2(w, j)]]
            = [j \in 1..Width(w) |-> Mask(tape, 0)[In1(w, j)] * Mask(tape, 0)[In2(w, j)]]
      BY <2>5, <3>1
    <3> QED BY <3>2 DEF MaskProduct, Product
  <2>7. Same(SumTo(nP, GammaShares(tape, w)), Product(tape, w))
    <3>1. tape \in Tapes
      BY DEF IInv, LocalTypes
    <3> QED BY <3>1, GammaSum
  <2> QED BY <2>4, <2>6, <2>7 DEF Same
<1> QED BY <1>1, Invariant, PTL

(* Every masked value a party has computed or received is the wire's value *)
(* minus its mask, for additions, scalings, multiplications and dot        *)
(* products (semi_evaluator.cpp:272-430).                                  *)
THEOREM MaskedCorrect == Spec => []MaskedValues
<1>1. IInv => MaskedValues
  <2> SUFFICES ASSUME IInv, NEW p \in Parties, NEW w \in HasM(p), w \in Visited(0)
               PROVE  (m[p][w] + lambda[0][w]) % Modulus = Plain[w]
    BY DEF MaskedValues
  <2>1. LocalTypes /\ PartyInv(p) /\ DealerInv
    BY DEF IInv
  <2>2. PlainValues(inputs, Plain) /\ tape \in Tapes /\ inputs \in InputChoices
    BY <2>1, PlainOk
  <2>3. w \in Known(p, pc[p], at[p])
    BY DEF HasM, Known, Early, Below
  <2>4. m[p][w] = MaskedOf(tape, Plain, w)
    BY <2>1, <2>3 DEF PartyInv, MaskedOk
  <2>5. w \in Wires /\ Pos(w) <= Steps(pc[0], at[0])
    <3>1. CASE pc[0] = "outputSetup"
      BY <3>1 DEF Visited
    <3>2. CASE pc[0] = "setup"
      <4>1. at[0] \in 1..(NumGates + 1) /\ NumGates \in Nat
        BY <2>1, <3>2, OrderFacts DEF DealerInv, PlaceOk
      <4>2. PICK j \in 1..(at[0] - 1) : w = Order[j]
        BY <3>2 DEF Visited
      <4>3. j \in 1..NumGates /\ j <= at[0] - 1
        BY <4>1
      <4>4. w \in Wires /\ Pos(w) = j
        BY <4>2, <4>3, PosFacts, OrderFacts
      <4> QED BY <3>2, <4>3, <4>4 DEF Steps
    <3>3. CASE pc[0] \notin {"outputSetup", "setup"}
      <4>1. w \in Wires /\ Steps(pc[0], at[0]) = NumGates
        BY <3>3 DEF Visited, Steps
      <4> QED BY <4>1, PosFacts, OrderFacts
    <3> QED BY <3>1, <3>2, <3>3
  <2>6. lambda[0][w] = Mask(tape, 0)[w]
    BY <2>1, <2>5 DEF DealerInv, MasksOk
  <2>7. (MaskedOf(tape, Plain, w) + Mask(tape, 0)[w]) % Modulus = Plain[w]
    BY <2>2, <2>5, MaskedFacts
  <2> QED BY <2>4, <2>6, <2>7
<1> QED BY <1>1, Invariant, PTL

(* Whoever finishes returns the outputs of the circuit on the plaintext    *)
(* inputs, with an output wire named any number of times.                  *)
THEOREM OutputsRight == Spec => []OutputsCorrect
<1>1. IInv => OutputsCorrect
  BY DEF IInv, PartyInv, OutvalsOk, OutputsCorrect
<1> QED BY <1>1, Invariant, PTL
=============================================================================
