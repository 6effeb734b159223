--------------------------- MODULE ZkProof_proofs ---------------------------
(***************************************************************************)
(* Proofs about ZkProof: for every circuit, number of parties, pair of     *)
(* rings, compression factor, statistical parameter, contents of the       *)
(* streams and deviations, verify() keeps the dealer in step with the      *)
(* parties, the claimed product right but for what a bent opening makes of *)
(* it, and comes to the verdict deserved.                                  *)
(*                                                                         *)
(* First the algebra: sums, arithmetic modulo the two ring sizes, inner    *)
(* products by blocks and by parts, and the identity on which folding      *)
(* rests (FoldProduct, FoldDefect).  Then what every operator of the model *)
(* computes from these: masks and masked values, the vectors a and b, the  *)
(* products of their parts, shareSum, the folds.  Then the steps, one      *)
(* lemma each, from the predicate that holds before to the one after, and  *)
(* ProofInv, which says which of them holds at which step.  Induction is   *)
(* over sets of natural numbers, each with a least element.                *)
(***************************************************************************)
EXTENDS ZkProof, TLAPS, WellFoundedInduction

-----------------------------------------------------------------------------
(* Induction, with a set in place of a predicate.                          *)
LEMMA LeastElement ==
  ASSUME NEW T \in SUBSET Nat, T # {}
  PROVE  \E e \in T : \A t \in T : ~(t < e)
<1> DEFINE R == OpToRel(<, Nat)
<1>1. IsWellFoundedOn(R, Nat)
  BY NatLessThanWellFounded
<1>2. \E e \in T : \A t \in T : ~ (<<t, e>> \in R)
  <2> HIDE DEF R
  <2> QED BY <1>1, WFMin
<1>3. \A e, t \in T : t < e => <<t, e>> \in R
  BY DEF OpToRel
<1> HIDE DEF R
<1> QED BY <1>2, <1>3

(* Hence a set of naturals with 0 and the successors of its elements has   *)
(* them all.                                                               *)
LEMMA SetInduction ==
  ASSUME NEW S, 0 \in S, \A n \in Nat : n \in S => n + 1 \in S
  PROVE  Nat \subseteq S
<1> DEFINE T == Nat \ S
<1> SUFFICES ASSUME T # {} PROVE FALSE
  OBVIOUS
<1>1. PICK e \in T : \A t \in T : ~(t < e)
  BY LeastElement
<1>2. e \in Nat /\ e # 0
  OBVIOUS
<1>3. e - 1 \in Nat /\ e - 1 < e /\ (e - 1) + 1 = e
  BY <1>2
<1> QED BY <1>1, <1>2, <1>3

(* The same with all smaller numbers in the hypothesis.                    *)
LEMMA StrongInduction ==
  ASSUME NEW S, \A n \in Nat : (\A k \in Nat : k < n => k \in S) => n \in S
  PROVE  Nat \subseteq S
<1> DEFINE T == Nat \ S
<1> SUFFICES ASSUME T # {} PROVE FALSE
  OBVIOUS
<1>1. PICK e \in T : \A t \in T : ~(t < e)
  BY LeastElement
<1> QED BY <1>1

(* A step function can be iterated.                                        *)
Iterates(f, X, x0, n, G) ==
  f \in [0..n -> X] /\ f[0] = x0 /\ \A k \in 1..n : f[k] = G[<<k, f[k - 1]>>]

(* A function of a number and a value can be iterated from any value on.   *)
LEMMA Iteration ==
  ASSUME NEW X, NEW x0 \in X, NEW N \in Nat, NEW G \in [(1..N) \X X -> X]
  PROVE  \E f : Iterates(f, X, x0, N, G)
<1> DEFINE Ok(n) == \E f : Iterates(f, X, x0, n, G)
           S == {n \in Nat : n <= N => Ok(n)}
<1>1. Ok(0)
  <2> DEFINE f == [i \in 0..0 |-> x0]
  <2>1. Iterates(f, X, x0, 0, G)
    BY DEF Iterates
  <2> HIDE DEF f
  <2> QED BY <2>1
<1>2. ASSUME NEW n \in Nat, n + 1 <= N, Ok(n) PROVE Ok(n + 1)
  <2>1. PICK f : Iterates(f, X, x0, n, G)
    BY <1>2
  <2> DEFINE g == [k \in 0..(n + 1) |-> IF k = n + 1 THEN G[<<n + 1, f[n]>>] ELSE f[k]]
  <2>2. G[<<n + 1, f[n]>>] \in X
    <3>1. f[n] \in X /\ n + 1 \in 1..N BY <1>2, <2>1 DEF Iterates
    <3> QED BY <3>1
  <2>3. g \in [0..(n + 1) -> X]
    BY <2>1, <2>2 DEF Iterates
  <2>4. g[0] = x0
    BY <2>1 DEF Iterates
  <2>5. ASSUME NEW k \in 1..(n + 1) PROVE g[k] = G[<<k, g[k - 1]>>]
    <3>1. CASE k = n + 1
      <4>1. g[n + 1] = G[<<n + 1, f[n]>>] /\ g[n] = f[n] /\ (n + 1) - 1 = n
        OBVIOUS
      <4> HIDE DEF g
      <4> QED BY <3>1, <4>1
    <3>2. CASE k \in 1..n
      <4>1. g[k] = f[k] /\ g[k - 1] = f[k - 1]
        BY <3>2
      <4> HIDE DEF g
      <4> QED BY <3>2, <2>1, <4>1 DEF Iterates
    <3> QED BY <3>1, <3>2
  <2> HIDE DEF g
  <2>6. Iterates(g, X, x0, n + 1, G)
    BY <2>3, <2>4, <2>5 DEF Iterates
  <2> QED BY <2>6
<1>3. Nat \subseteq S
  <2> HIDE DEF Ok
  <2>1. 0 \in S BY <1>1
  <2>2. \A n \in Nat : n \in S => n + 1 \in S BY <1>2
  <2> HIDE DEF S
  <2> QED BY <2>1, <2>2, SetInduction
<1>4. Ok(N)
  <2> HIDE DEF Ok
  <2> QED BY <1>3
<1> QED BY <1>4

-----------------------------------------------------------------------------
(* Sums.                                                                   *)
IntVector(n, v) == \A k \in 1..n : v[k] \in Int

(* The equations of a sum have one solution: two differ nowhere first.     *)
LEMMA SumUnique ==
  ASSUME NEW n \in Nat, NEW v, NEW g, g[0] = 0, \A k \in 1..n : g[k] = g[k - 1] + v[k],
         IntVector(n, v)
  PROVE  SumTo(n, v) = g[n] /\ g[n] \in Int
<1> DEFINE F(s) == [k \in 0..n |-> IF k = 0 THEN 0 ELSE s[k - 1] + v[k]]
           h == [k \in 0..n |-> g[k]]
           sum == CHOOSE s : s = F(s)
<1>1. \A k \in 1..n : k - 1 \in 0..n /\ k \in 0..n
  OBVIOUS
<1>2. h = F(h)
  BY <1>1
<1>3. sum = F(sum)
  <2> HIDE DEF h, F
  <2> QED BY <1>2
<1>4. SumTo(n, v) = sum[n]
  BY DEF SumTo
<1>5. sum[0] = 0 /\ \A k \in 1..n : sum[k] = sum[k - 1] + v[k]
  <2> HIDE DEF sum
  <2> QED BY <1>1, <1>3
<1>6. \A k \in Nat : k <= n => sum[k] = g[k] /\ g[k] \in Int
  <2> DEFINE S == {k \in Nat : k <= n => sum[k] = g[k] /\ g[k] \in Int}
  <2> HIDE DEF sum
  <2>1. 0 \in S BY <1>5
  <2>2. ASSUME NEW k \in Nat, k \in S PROVE k + 1 \in S
    <3> SUFFICES ASSUME k + 1 <= n PROVE sum[k + 1] = g[k + 1] /\ g[k + 1] \in Int
      OBVIOUS
    <3>1. k + 1 \in 1..n /\ (k + 1) - 1 = k
      OBVIOUS
    <3> QED BY <3>1, <2>2, <1>5 DEF IntVector
  <2> HIDE DEF S
  <2>3. Nat \subseteq S
    BY <2>1, <2>2, SetInduction
  <2> QED BY <2>3 DEF S
<1> HIDE DEF sum
<1> QED BY <1>4, <1>6

(* They have one: the iteration of adding the next element.                *)
LEMMA SumExists ==
  ASSUME NEW N \in Nat, NEW v, IntVector(N, v)
  PROVE  \E s \in [0..N -> Int] : s[0] = 0 /\ \A k \in 1..N : s[k] = s[k - 1] + v[k]
<1> DEFINE G == [z \in (1..N) \X Int |-> z[2] + v[z[1]]]
<1>1. G \in [(1..N) \X Int -> Int]
  BY DEF IntVector
<1>2. PICK s : Iterates(s, Int, 0, N, G)
  <2> HIDE DEF G
  <2>1. 0 \in Int OBVIOUS
  <2> QED BY <1>1, <2>1, Iteration
<1>3. s \in [0..N -> Int] /\ s[0] = 0 /\ \A k \in 1..N : s[k] = G[<<k, s[k - 1]>>]
  BY <1>2 DEF Iterates
<1>4. \A k \in 1..N : s[k - 1] \in Int
  BY <1>3
<1>5. \A k \in 1..N : s[k] = s[k - 1] + v[k]
  BY <1>3, <1>4
<1> QED BY <1>3, <1>5

(* So SumTo is what its recursive definition says.                         *)
LEMMA SumFacts ==
  ASSUME NEW N \in Nat, NEW v, IntVector(N, v)
  PROVE  /\ SumTo(0, v) = 0
         /\ \A n \in 0..N : SumTo(n, v) \in Int
         /\ \A n \in 1..N : SumTo(n, v) = SumTo(n - 1, v) + v[n]
<1>1. PICK s \in [0..N -> Int] : s[0] = 0 /\ \A k \in 1..N : s[k] = s[k - 1] + v[k]
  BY SumExists
<1>2. ASSUME NEW n \in 0..N PROVE SumTo(n, v) = s[n]
  <2>1. n \in Nat /\ \A k \in 1..n : k \in 1..N
    OBVIOUS
  <2>2. IntVector(n, v)
    BY <2>1 DEF IntVector
  <2>3. \A k \in 1..n : s[k] = s[k - 1] + v[k]
    BY <1>1, <2>1
  <2> QED BY <1>1, <2>1, <2>2, <2>3, SumUnique
<1>3. \A n \in 1..N : n - 1 \in 0..N /\ n \in 0..N
  OBVIOUS
<1> QED BY <1>1, <1>2, <1>3

(* Vectors that agree up to n have the same sum up to n.                   *)
LEMMA SumSame ==
  ASSUME NEW N \in Nat, NEW u, NEW v, IntVector(N, u), \A k \in 1..N : u[k] = v[k]
  PROVE  SumTo(N, u) = SumTo(N, v)
<1>1. IntVector(N, v)
  BY DEF IntVector
<1> DEFINE S == {n \in Nat : n <= N => SumTo(n, u) = SumTo(n, v)}
<1>2. 0 \in S
  BY <1>1, SumFacts
<1>3. ASSUME NEW n \in Nat, n \in S PROVE n + 1 \in S
  <2> SUFFICES ASSUME n + 1 <= N PROVE SumTo(n + 1, u) = SumTo(n + 1, v)
    OBVIOUS
  <2>1. n + 1 \in 1..N /\ (n + 1) - 1 = n
    OBVIOUS
  <2> QED BY <1>1, <1>3, <2>1, SumFacts
<1> HIDE DEF S
<1>4. Nat \subseteq S
  BY <1>2, <1>3, SetInduction
<1> QED BY <1>4 DEF S

(* A sum of sums, element by element.                                      *)
LEMMA SumAdd ==
  ASSUME NEW N \in Nat, NEW u, NEW v, NEW w, IntVector(N, u), IntVector(N, v),
         \A k \in 1..N : w[k] = u[k] + v[k]
  PROVE  SumTo(N, w) = SumTo(N, u) + SumTo(N, v) /\ IntVector(N, w)
<1>1. IntVector(N, w)
  BY DEF IntVector
<1> DEFINE S == {n \in Nat : n <= N => SumTo(n, w) = SumTo(n, u) + SumTo(n, v)}
<1>2. 0 \in S
  BY <1>1, SumFacts
<1>3. ASSUME NEW n \in Nat, n \in S PROVE n + 1 \in S
  <2> SUFFICES ASSUME n + 1 <= N PROVE SumTo(n + 1, w) = SumTo(n + 1, u) + SumTo(n + 1, v)
    OBVIOUS
  <2>1. n + 1 \in 1..N /\ (n + 1) - 1 = n /\ n \in 0..N
    OBVIOUS
  <2>2. /\ SumTo(n + 1, w) = SumTo(n, w) + w[n + 1]
        /\ SumTo(n + 1, u) = SumTo(n, u) + u[n + 1]
        /\ SumTo(n + 1, v) = SumTo(n, v) + v[n + 1]
    BY <1>1, <2>1, SumFacts
  <2>3. SumTo(n, u) \in Int /\ SumTo(n, v) \in Int
    BY <2>1, SumFacts
  <2> QED BY <1>3, <2>1, <2>2, <2>3 DEF IntVector
<1> HIDE DEF S
<1>4. Nat \subseteq S
  BY <1>2, <1>3, SetInduction
<1> QED BY <1>1, <1>4 DEF S

(* A common factor of a sum.                                               *)
LEMMA SumScale ==
  ASSUME NEW N \in Nat, NEW u, NEW w, NEW c \in Int, IntVector(N, u),
         \A k \in 1..N : w[k] = c * u[k]
  PROVE  SumTo(N, w) = c * SumTo(N, u) /\ IntVector(N, w)
<1>1. IntVector(N, w)
  BY DEF IntVector
<1> DEFINE S == {n \in Nat : n <= N => SumTo(n, w) = c * SumTo(n, u)}
<1>2. 0 \in S
  BY <1>1, SumFacts
<1>3. ASSUME NEW n \in Nat, n \in S PROVE n + 1 \in S
  <2> SUFFICES ASSUME n + 1 <= N PROVE SumTo(n + 1, w) = c * SumTo(n + 1, u)
    OBVIOUS
  <2>1. n + 1 \in 1..N /\ (n + 1) - 1 = n /\ n \in 0..N
    OBVIOUS
  <2>2. /\ SumTo(n + 1, w) = SumTo(n, w) + w[n + 1]
        /\ SumTo(n + 1, u) = SumTo(n, u) + u[n + 1]
    BY <1>1, <2>1, SumFacts
  <2>3. SumTo(n, u) \in Int /\ u[n + 1] \in Int
    BY <2>1, SumFacts DEF IntVector
  <2>4. \A a, b \in Int : c * (a + b) = c * a + c * b
    OBVIOUS
  <2>5. SumTo(n, w) = c * SumTo(n, u) /\ w[n + 1] = c * u[n + 1]
    BY <1>3, <2>1
  <2> QED BY <2>2, <2>3, <2>4, <2>5
<1> HIDE DEF S
<1>4. Nat \subseteq S
  BY <1>2, <1>3, SetInduction
<1> QED BY <1>1, <1>4 DEF S

(* Only one summand is not zero.                                           *)
LEMMA SumSingle ==
  ASSUME NEW N \in Nat, NEW i \in 1..N, NEW c \in Int, NEW w,
         \A k \in 1..N : w[k] = IF k = i THEN c ELSE 0
  PROVE  SumTo(N, w) = c /\ IntVector(N, w)
<1>1. IntVector(N, w)
  BY DEF IntVector
<1> DEFINE S == {n \in Nat : n <= N => SumTo(n, w) = IF n < i THEN 0 ELSE c}
<1>2. 0 \in S
  BY <1>1, SumFacts
<1>3. ASSUME NEW n \in Nat, n \in S PROVE n + 1 \in S
  <2> SUFFICES ASSUME n + 1 <= N PROVE SumTo(n + 1, w) = IF n + 1 < i THEN 0 ELSE c
    OBVIOUS
  <2>1. n + 1 \in 1..N /\ (n + 1) - 1 = n /\ n \in 0..N
    OBVIOUS
  <2>2. SumTo(n + 1, w) = SumTo(n, w) + w[n + 1]
    BY <1>1, <2>1, SumFacts
  <2>3. SumTo(n, w) = (IF n < i THEN 0 ELSE c) /\ w[n + 1] = IF n + 1 = i THEN c ELSE 0
    BY <1>3, <2>1
  <2> QED BY <2>2, <2>3
<1> HIDE DEF S
<1>4. Nat \subseteq S
  BY <1>2, <1>3, SetInduction
<1> QED BY <1>1, <1>4 DEF S

(* A matrix of N rows and M columns, summed by rows (a) and columns (b).   *)
RowsAndColumns(N, M, R, K, a, b) ==
  /\ \A i \in 1..N : IntVector(M, R[i]) /\ a[i] = SumTo(M, R[i])
  /\ \A j \in 1..M : IntVector(N, K[j]) /\ b[j] = SumTo(N, K[j])
  /\ \A i \in 1..N : \A j \in 1..M : R[i][j] = K[j][i]

(* The rows of a table and its columns have the same sum: the parties'     *)
(* shares of a dot product, party by party or term by term.                *)
LEMMA SumSwap ==
  ASSUME NEW N \in Nat, NEW M \in Nat, NEW R, NEW K, NEW a, NEW b,
         RowsAndColumns(N, M, R, K, a, b)
  PROVE  SumTo(N, a) = SumTo(M, b) /\ IntVector(N, a) /\ IntVector(M, b)
<1>0. /\ \A i \in 1..N : IntVector(M, R[i]) /\ a[i] = SumTo(M, R[i])
      /\ \A j \in 1..M : IntVector(N, K[j]) /\ b[j] = SumTo(N, K[j])
      /\ \A i \in 1..N : \A j \in 1..M : R[i][j] = K[j][i]
  BY DEF RowsAndColumns
<1> DEFINE row(i) == R[i]
           col(j) == K[j]
           B(n) == [j \in 1..M |-> SumTo(n, col(j))]
<1>1. \A i \in 1..N : IntVector(M, row(i))
  BY <1>0
<1>2. \A j \in 1..M : IntVector(N, col(j))
  BY <1>0
<1>3. IntVector(N, a)
  <2> SUFFICES ASSUME NEW i \in 1..N PROVE a[i] \in Int
    BY DEF IntVector
  <2>1. IntVector(M, row(i)) /\ M \in 0..M
    BY <1>1
  <2>2. SumTo(M, row(i)) \in Int
    BY <2>1, SumFacts
  <2> QED BY <1>0, <2>2
<1>4. \A n \in 0..N : IntVector(M, B(n))
  <2> SUFFICES ASSUME NEW n \in 0..N, NEW j \in 1..M PROVE B(n)[j] \in Int
    BY DEF IntVector
  <2>1. IntVector(N, col(j))
    BY <1>2
  <2> HIDE DEF col
  <2>2. SumTo(n, col(j)) \in Int
    BY <2>1, SumFacts
  <2> QED BY <2>2
<1>5. IntVector(M, b) /\ SumTo(M, b) = SumTo(M, B(N))
  <2>1. N \in 0..N OBVIOUS
  <2>2. IntVector(M, B(N)) BY <1>4, <2>1
  <2>3. \A j \in 1..M : B(N)[j] = b[j]
    BY <1>0
  <2> HIDE DEF B
  <2>4. IntVector(M, b) BY <2>2, <2>3 DEF IntVector
  <2> QED BY <2>2, <2>3, <2>4, SumSame
<1> DEFINE S == {n \in Nat : n <= N => SumTo(n, a) = SumTo(M, B(n))}
<1>6. 0 \in S
  <2>1. \A j \in 1..M : SumTo(0, col(j)) = 0
    <3> HIDE DEF col
    <3> QED BY <1>2, SumFacts
  <2>2. \A j \in 1..M : B(0)[j] = 0 * B(0)[j]
    BY <2>1
  <2>3. IntVector(M, B(0))
    <3>1. 0 \in 0..N OBVIOUS
    <3> HIDE DEF B
    <3> QED BY <1>4, <3>1
  <2> HIDE DEF B
  <2>4. SumTo(M, B(0)) = 0 * SumTo(M, B(0)) /\ M \in 0..M
    BY <2>2, <2>3, SumScale
  <2>5. SumTo(M, B(0)) = 0
    BY <2>3, <2>4, SumFacts
  <2>6. SumTo(0, a) = 0
    BY <1>3, SumFacts
  <2> QED BY <2>5, <2>6
<1>7. ASSUME NEW n \in Nat, n \in S PROVE n + 1 \in S
  <2> SUFFICES ASSUME n + 1 <= N PROVE SumTo(n + 1, a) = SumTo(M, B(n + 1))
    OBVIOUS
  <2>1. n + 1 \in 1..N /\ (n + 1) - 1 = n /\ n \in 0..N /\ n + 1 \in 0..N
    OBVIOUS
  <2>2. SumTo(n + 1, a) = SumTo(n, a) + a[n + 1]
    BY <1>3, <2>1, SumFacts
  <2>3. \A j \in 1..M : B(n + 1)[j] = B(n)[j] + row(n + 1)[j]
    <3> SUFFICES ASSUME NEW j \in 1..M PROVE SumTo(n + 1, col(j)) = SumTo(n, col(j)) + row(n + 1)[j]
      OBVIOUS
    <3>1. col(j)[n + 1] = row(n + 1)[j] /\ IntVector(N, col(j))
      BY <1>0, <1>2, <2>1
    <3> QED BY <3>1, <2>1, SumFacts
  <2>4. IntVector(M, B(n)) /\ IntVector(M, row(n + 1))
    BY <1>1, <1>4, <2>1
  <2>5. a[n + 1] = SumTo(M, row(n + 1)) /\ SumTo(n, a) = SumTo(M, B(n))
    BY <1>0, <1>7, <2>1
  <2> HIDE DEF B, row
  <2>6. SumTo(M, B(n + 1)) = SumTo(M, B(n)) + SumTo(M, row(n + 1))
    BY <2>3, <2>4, SumAdd
  <2> QED BY <2>2, <2>5, <2>6
<1> HIDE DEF S
<1>8. Nat \subseteq S
  BY <1>6, <1>7, SetInduction
<1> QED BY <1>3, <1>5, <1>8 DEF S

(* The partial sums of natural numbers never fall.                         *)
LEMMA SumMonotone ==
  ASSUME NEW N \in Nat, NEW v, \A k \in 1..N : v[k] \in Nat, NEW a \in 0..N, NEW b \in a..N
  PROVE  SumTo(a, v) <= SumTo(b, v) /\ SumTo(a, v) \in Nat /\ SumTo(b, v) \in Nat
<1>1. IntVector(N, v)
  BY DEF IntVector
<1> DEFINE S == {n \in Nat : n <= N => SumTo(n, v) \in Nat /\ (a <= n => SumTo(a, v) <= SumTo(n, v))}
<1>2. 0 \in S
  BY <1>1, SumFacts
<1>3. ASSUME NEW n \in Nat, n \in S PROVE n + 1 \in S
  <2> SUFFICES ASSUME n + 1 <= N
               PROVE SumTo(n + 1, v) \in Nat /\ (a <= n + 1 => SumTo(a, v) <= SumTo(n + 1, v))
    OBVIOUS
  <2>1. n + 1 \in 1..N /\ (n + 1) - 1 = n /\ n \in 0..N
    OBVIOUS
  <2>2. SumTo(n + 1, v) = SumTo(n, v) + v[n + 1]
    BY <1>1, <2>1, SumFacts
  <2>3. SumTo(n, v) \in Nat /\ (a <= n => SumTo(a, v) <= SumTo(n, v)) /\ v[n + 1] \in Nat
    BY <1>3, <2>1
  <2>4. a \in Nat /\ SumTo(a, v) \in Int
    BY <1>1, SumFacts
  <2> QED BY <2>2, <2>3, <2>4
<1> HIDE DEF S
<1>4. Nat \subseteq S
  BY <1>2, <1>3, SetInduction
<1> QED BY <1>4 DEF S

-----------------------------------------------------------------------------
(* Arithmetic modulo M: of both rings.                                     *)
Same(M, a, b) == a % M = b % M

(* Division with remainder.                                                *)
LEMMA DivFacts ==
  ASSUME NEW M \in Nat \ {0}, NEW a \in Int
  PROVE  /\ a % M \in 0..(M - 1) /\ a \div M \in Int
         /\ a = (M * (a \div M)) + (a % M)
OBVIOUS

(* The remainder is the number below M that is a multiple of M away.       *)
LEMMA ModUnique ==
  ASSUME NEW M \in Nat \ {0}, NEW a \in Int, NEW k \in Int, NEW r \in 0..(M - 1), a = (M * k) + r
  PROVE  a % M = r /\ a \div M = k
<1> DEFINE q == a \div M
           s == a % M
<1>1. q \in Int /\ s \in 0..(M - 1) /\ a = (M * q) + s
  BY DivFacts
<1> HIDE DEF q, s
<1>2. M \in Nat /\ M > 0
  OBVIOUS
<1>3. M * (k - q) = s - r
  BY <1>1, <1>2
<1>4. k - q = 0
  <2>1. CASE k - q >= 1
    <3>1. M * (k - q) >= M BY <2>1, <1>1, <1>2
    <3> QED BY <1>1, <1>2, <1>3, <3>1
  <2>2. CASE k - q <= -1
    <3>1. M * (k - q) <= 0 - M BY <2>2, <1>1, <1>2
    <3> QED BY <1>1, <1>2, <1>3, <3>1
  <2> QED BY <2>1, <2>2, <1>1
<1>5. k = q /\ s = r
  BY <1>1, <1>2, <1>3, <1>4
<1> QED BY <1>5 DEF q, s

(* Numbers are the same modulo M when they are a multiple of M apart.      *)
LEMMA SameShift ==
  ASSUME NEW M \in Nat \ {0}, NEW a \in Int, NEW b \in Int
  PROVE  Same(M, a, b) <=> \E k \in Int : a = b + (M * k)
<1> DEFINE q == a \div M
           r == a % M
           s == b % M
           u == b \div M
<1>1. q \in Int /\ r \in 0..(M - 1) /\ a = (M * q) + r
  BY DivFacts
<1>2. u \in Int /\ s \in 0..(M - 1) /\ b = (M * u) + s
  BY DivFacts
<1>3. Same(M, a, b) <=> r = s
  BY DEF Same
<1> HIDE DEF q, r, s, u
<1>5. ASSUME r = s PROVE \E k \in Int : a = b + (M * k)
  <2>1. q - u \in Int /\ a = b + (M * (q - u))
    BY <1>1, <1>2, <1>5
  <2> QED BY <2>1
<1>6. ASSUME NEW k \in Int, a = b + (M * k) PROVE r = s
  <2>1. a = (M * (u + k)) + s /\ u + k \in Int
    BY <1>6, <1>2
  <2>2. a % M = s
    BY <1>2, <2>1, ModUnique
  <2> QED BY <2>2 DEF r
<1> QED BY <1>3, <1>5, <1>6

(* Reducing changes nothing modulo M, nor a number below M.                *)
LEMMA SameMod ==
  ASSUME NEW M \in Nat \ {0}, NEW a \in Int
  PROVE  /\ Same(M, a % M, a) /\ a % M \in Int /\ a % M \in 0..(M - 1)
         /\ a \in 0..(M - 1) => a % M = a
<1>1. ASSUME NEW r \in 0..(M - 1) PROVE r % M = r
  <2>1. r \in Int /\ r = (M * 0) + r
    OBVIOUS
  <2> QED BY <2>1, ModUnique
<1>2. a % M \in 0..(M - 1)
  BY DivFacts
<1> QED BY <1>1, <1>2 DEF Same

(* Sums, differences and products of the same are the same.                *)
LEMMA SameOps ==
  ASSUME NEW M \in Nat \ {0}, NEW a \in Int, NEW b \in Int, NEW c \in Int, NEW d \in Int,
         Same(M, a, b), Same(M, c, d)
  PROVE  Same(M, a + c, b + d) /\ Same(M, a - c, b - d) /\ Same(M, a * c, b * d)
<1>1. PICK k \in Int : a = b + (M * k)
  BY SameShift
<1>2. PICK l \in Int : c = d + (M * l)
  BY SameShift
<1>4. a + c = (b + d) + (M * (k + l)) /\ k + l \in Int
  BY <1>1, <1>2
<1>5. a - c = (b - d) + (M * (k - l)) /\ k - l \in Int
  BY <1>1, <1>2
<1>6. a * c = (b * d) + (M * (b * l + k * d + M * k * l)) /\ b * l + k * d + M * k * l \in Int
  <2>1. a * c = (b + (M * k)) * (d + (M * l))
    BY <1>1, <1>2
  <2> QED BY <2>1
<1>7. a + c \in Int /\ a - c \in Int /\ a * c \in Int /\ b + d \in Int /\ b - d \in Int /\ b * d \in Int
  OBVIOUS
<1>8. Same(M, a + c, b + d)
  BY <1>4, <1>7, SameShift
<1>9. Same(M, a - c, b - d)
  BY <1>5, <1>7, SameShift
<1>10. Same(M, a * c, b * d)
  BY <1>6, <1>7, SameShift
<1> QED BY <1>8, <1>9, <1>10

(* What is the same modulo a multiple of M is the same modulo M.           *)
LEMMA SameDivisor ==
  ASSUME NEW M \in Nat \ {0}, NEW N \in Nat \ {0}, N % M = 0,
         NEW a \in Int, NEW b \in Int, Same(N, a, b)
  PROVE  Same(M, a, b)
<1>1. PICK k \in Int : a = b + (N * k)
  BY SameShift
<1>2. N \div M \in Int /\ N = M * (N \div M) + 0
  BY DivFacts
<1>3. a = b + (M * ((N \div M) * k)) /\ (N \div M) * k \in Int
  BY <1>1, <1>2
<1> QED BY <1>3, SameShift

(* Being the same is an equivalence.                                       *)
LEMMA SameTrans ==
  ASSUME NEW M, NEW a, NEW b, Same(M, a, b)
  PROVE  Same(M, b, a) /\ \A c : Same(M, b, c) => Same(M, a, c)
BY DEF Same

(* Reducing the elements of a sum does not change it modulo M.             *)
LEMMA SumSameMod ==
  ASSUME NEW M \in Nat \ {0}, NEW N \in Nat, NEW u, NEW v, IntVector(N, u), IntVector(N, v),
         \A k \in 1..N : Same(M, u[k], v[k])
  PROVE  Same(M, SumTo(N, u), SumTo(N, v))
<1> DEFINE S == {n \in Nat : n <= N => Same(M, SumTo(n, u), SumTo(n, v))}
<1>1. 0 \in S
  BY SumFacts DEF Same
<1>2. ASSUME NEW n \in Nat, n \in S PROVE n + 1 \in S
  <2> SUFFICES ASSUME n + 1 <= N PROVE Same(M, SumTo(n + 1, u), SumTo(n + 1, v))
    OBVIOUS
  <2>1. n + 1 \in 1..N /\ (n + 1) - 1 = n /\ n \in 0..N
    OBVIOUS
  <2>2. /\ SumTo(n + 1, u) = SumTo(n, u) + u[n + 1]
        /\ SumTo(n + 1, v) = SumTo(n, v) + v[n + 1]
    BY <2>1, SumFacts
  <2>3. /\ SumTo(n, u) \in Int /\ u[n + 1] \in Int
        /\ SumTo(n, v) \in Int /\ v[n + 1] \in Int
    BY <2>1, SumFacts DEF IntVector
  <2>4. Same(M, SumTo(n, u), SumTo(n, v)) /\ Same(M, u[n + 1], v[n + 1])
    BY <1>2, <2>1
  <2> QED BY <2>2, <2>3, <2>4, SameOps
<1> HIDE DEF S
<1>3. Nat \subseteq S
  BY <1>1, <1>2, SetInduction
<1> QED BY <1>3 DEF S

-----------------------------------------------------------------------------
(* More about sums.                                                        *)

(* The sum of integers is one.                                             *)
LEMMA SumInt == ASSUME NEW N \in Nat, NEW v, IntVector(N, v) PROVE SumTo(N, v) \in Int
<1>1. N \in 0..N
  OBVIOUS
<1> QED BY <1>1, SumFacts

(* Nothing sums to nothing.                                                *)
LEMMA SumZeros ==
  ASSUME NEW N \in Nat, NEW v, \A k \in 1..N : v[k] = 0
  PROVE  SumTo(N, v) = 0 /\ IntVector(N, v)
<1>1. IntVector(N, v)
  BY DEF IntVector
<1>2. \A k \in 1..N : v[k] = 0 * v[k]
  OBVIOUS
<1>3. SumTo(N, v) = 0 * SumTo(N, v) /\ SumTo(N, v) \in Int
  BY <1>1, <1>2, SumScale, SumInt
<1> QED BY <1>1, <1>3

(* A sum in two pieces.                                                    *)
Shifted(a, b, v, w) == \A k \in 1..b : w[k] = v[a + k]

(* A sum is that of the first elements and that of the rest.               *)
LEMMA SumConcat ==
  ASSUME NEW a \in Nat, NEW b \in Nat, NEW v, NEW w, IntVector(a + b, v), Shifted(a, b, v, w)
  PROVE  SumTo(a + b, v) = SumTo(a, v) + SumTo(b, w) /\ IntVector(a, v) /\ IntVector(b, w)
<1>1. IntVector(a, v) /\ IntVector(b, w)
  <2>1. \A k \in 1..a : k \in 1..(a + b)
    OBVIOUS
  <2>2. \A k \in 1..b : a + k \in 1..(a + b)
    OBVIOUS
  <2> QED BY <2>1, <2>2 DEF IntVector, Shifted
<1> DEFINE S == {n \in Nat : n <= b => SumTo(a + n, v) = SumTo(a, v) + SumTo(n, w)}
<1>2. SumTo(a, v) \in Int
  BY <1>1, SumInt
<1>3. 0 \in S
  BY <1>1, <1>2, SumFacts
<1>4. ASSUME NEW n \in Nat, n \in S PROVE n + 1 \in S
  <2> SUFFICES ASSUME n + 1 <= b PROVE SumTo(a + (n + 1), v) = SumTo(a, v) + SumTo(n + 1, w)
    OBVIOUS
  <2>1. n + 1 \in 1..b /\ (n + 1) - 1 = n /\ n \in 0..b /\ a + (n + 1) \in 1..(a + b)
        /\ (a + (n + 1)) - 1 = a + n /\ a + b \in Nat
    OBVIOUS
  <2>2. /\ SumTo(a + (n + 1), v) = SumTo(a + n, v) + v[a + (n + 1)]
        /\ SumTo(n + 1, w) = SumTo(n, w) + w[n + 1] /\ SumTo(n, w) \in Int
    BY <1>1, <2>1, SumFacts
  <2>3. w[n + 1] = v[a + (n + 1)] /\ w[n + 1] \in Int /\ SumTo(a + n, v) = SumTo(a, v) + SumTo(n, w)
    BY <1>1, <1>4, <2>1 DEF IntVector, Shifted
  <2> QED BY <1>2, <2>2, <2>3
<1> HIDE DEF S
<1>5. Nat \subseteq S
  BY <1>3, <1>4, SetInduction
<1> QED BY <1>1, <1>5 DEF S

(* A sum in blocks of any sizes, one after the other.                      *)
Blocks(n, size, v, part, total) ==
  /\ \A i \in 1..n : size[i] \in Nat
  /\ IntVector(SumTo(n, size), v)
  /\ \A i \in 1..n : \A e \in 1..size[i] : part[i][e] = v[SumTo(i - 1, size) + e]
  /\ \A i \in 1..n : total[i] = SumTo(size[i], part[i])

(* The sum over blocks is the sum of the blocks' sums.                     *)
LEMMA SumBlocks ==
  ASSUME NEW n \in Nat, NEW size, NEW v, NEW part, NEW total, Blocks(n, size, v, part, total)
  PROVE  /\ SumTo(n, total) = SumTo(SumTo(n, size), v) /\ IntVector(n, total)
         /\ \A i \in 1..n : IntVector(size[i], part[i])
<1>0. /\ \A i \in 1..n : size[i] \in Nat
      /\ IntVector(SumTo(n, size), v)
      /\ \A i \in 1..n : \A e \in 1..size[i] : part[i][e] = v[SumTo(i - 1, size) + e]
      /\ \A i \in 1..n : total[i] = SumTo(size[i], part[i])
  BY DEF Blocks
<1> DEFINE off(i) == SumTo(i, size)
<1>1. IntVector(n, size)
  BY <1>0 DEF IntVector
<1>2. off(0) = 0 /\ \A i \in 1..n : off(i) = off(i - 1) + size[i]
  BY <1>1, SumFacts
<1>3. \A i \in 0..n : off(i) \in Nat /\ off(i) <= off(n)
  <2> SUFFICES ASSUME NEW i \in 0..n PROVE off(i) \in Nat /\ off(i) <= off(n)
    OBVIOUS
  <2>1. n \in i..n
    OBVIOUS
  <2> QED BY <1>0, <2>1, SumMonotone
<1>4. IntVector(off(n), v)
  BY <1>0
<1>5. \A i \in 1..n : \A e \in 1..size[i] : part[i][e] = v[off(i - 1) + e]
  BY <1>0
<1> HIDE DEF off
<1>6. ASSUME NEW i \in 1..n
      PROVE  /\ SumTo(off(i), v) = SumTo(off(i - 1), v) + SumTo(size[i], part[i])
             /\ IntVector(size[i], part[i]) /\ IntVector(off(i - 1), v) /\ SumTo(size[i], part[i]) \in Int
  <2>1. off(i - 1) \in Nat /\ off(i) \in Nat /\ off(i) <= off(n) /\ size[i] \in Nat
        /\ off(i) = off(i - 1) + size[i] /\ off(n) \in Nat
    BY <1>0, <1>2, <1>3
  <2>2. IntVector(off(i - 1) + size[i], v)
    BY <1>4, <2>1 DEF IntVector
  <2> DEFINE w == part[i]
  <2>3. \A e \in 1..size[i] : w[e] = v[off(i - 1) + e]
    BY <1>5
  <2> DEFINE a == off(i - 1)
           b == size[i]
  <2>a. a \in Nat /\ b \in Nat /\ IntVector(a + b, v) /\ Shifted(a, b, v, w)
    BY <2>1, <2>2, <2>3 DEF Shifted
  <2> HIDE DEF w, a, b
  <2>b. SumTo(a + b, v) = SumTo(a, v) + SumTo(b, w) /\ IntVector(a, v) /\ IntVector(b, w)
    BY <2>a, SumConcat
  <2>4. SumTo(off(i - 1) + size[i], v) = SumTo(off(i - 1), v) + SumTo(size[i], w)
        /\ IntVector(off(i - 1), v) /\ IntVector(size[i], w)
    BY <2>b DEF a, b
  <2>5. SumTo(size[i], w) \in Int
    BY <2>1, <2>4, SumInt
  <2> QED BY <2>1, <2>4, <2>5 DEF w
<1>7. IntVector(n, total)
  BY <1>0, <1>6 DEF IntVector
<1> DEFINE S == {k \in Nat : k <= n => SumTo(k, total) = SumTo(off(k), v)}
<1>8. 0 \in S
  <2>1. IntVector(0, v)
    BY DEF IntVector
  <2>2. SumTo(0, v) = 0 /\ SumTo(0, total) = 0
    BY <2>1, <1>7, SumFacts
  <2> QED BY <1>2, <2>2
<1>9. ASSUME NEW k \in Nat, k \in S PROVE k + 1 \in S
  <2> SUFFICES ASSUME k + 1 <= n PROVE SumTo(k + 1, total) = SumTo(off(k + 1), v)
    OBVIOUS
  <2>1. k + 1 \in 1..n /\ (k + 1) - 1 = k
    OBVIOUS
  <2>2. SumTo(k + 1, total) = SumTo(k, total) + total[k + 1]
    BY <1>7, <2>1, SumFacts
  <2>3. SumTo(k, total) = SumTo(off(k), v) /\ total[k + 1] = SumTo(size[k + 1], part[k + 1])
    BY <1>0, <1>9, <2>1
  <2>4. SumTo(off(k + 1), v) = SumTo(off(k), v) + SumTo(size[k + 1], part[k + 1])
    BY <1>6, <2>1
  <2> QED BY <2>2, <2>3, <2>4
<1> HIDE DEF S
<1>10. Nat \subseteq S
  BY <1>8, <1>9, SetInduction
<1>11. SumTo(n, total) = SumTo(off(n), v)
  BY <1>10 DEF S
<1> QED BY <1>6, <1>7, <1>11 DEF off

(* Every position is in one block.                                         *)
LEMMA BlockOf ==
  ASSUME NEW n \in Nat, NEW size, \A i \in 1..n : size[i] \in Nat
  PROVE  /\ SumTo(n, size) \in Nat
         /\ \A i \in 1..n : /\ SumTo(i - 1, size) \in Nat
                            /\ SumTo(i - 1, size) + size[i] <= SumTo(n, size)
         /\ \A k \in 1..SumTo(n, size) : \E i \in 1..n : k - SumTo(i - 1, size) \in 1..size[i]
         /\ \A k : \A i, j \in 1..n : k \in Nat
              /\ k - SumTo(i - 1, size) \in 1..size[i] /\ k - SumTo(j - 1, size) \in 1..size[j] => i = j
<1> DEFINE off(i) == SumTo(i, size)
<1>1. IntVector(n, size)
  BY DEF IntVector
<1>2. off(0) = 0 /\ \A i \in 1..n : off(i) = off(i - 1) + size[i]
  BY <1>1, SumFacts
<1>3. \A a \in 0..n : \A b \in a..n : off(a) \in Nat /\ off(b) \in Nat /\ off(a) <= off(b)
  BY SumMonotone
<1> HIDE DEF off
<1>4. off(n) \in Nat /\ \A i \in 1..n : off(i - 1) \in Nat /\ off(i) \in Nat /\ off(i) <= off(n)
  <2>1. n \in 0..n /\ n \in n..n /\ \A i \in 1..n : i - 1 \in 0..n /\ i \in 0..n /\ n \in i..n /\ i \in (i - 1)..n
    OBVIOUS
  <2> QED BY <2>1, <1>3
<1>5. ASSUME NEW k \in 1..off(n) PROVE \E i \in 1..n : k - off(i - 1) \in 1..size[i]
  <2> DEFINE T == {i \in Nat : i <= n /\ k <= off(i)}
  <2>1. n \in T
    BY <1>4
  <2>2. T \in SUBSET Nat /\ T # {}
    BY <2>1
  <2>3. PICK i \in T : \A j \in T : ~(j < i)
    <3> HIDE DEF T
    <3> QED BY <2>2, LeastElement
  <2>4. i # 0
    BY <1>2, <1>4
  <2>5. i \in 1..n /\ i - 1 \in Nat /\ i - 1 <= n /\ i - 1 < i /\ k <= off(i)
    BY <2>4
  <2>6. i - 1 \notin T
    <3> HIDE DEF T
    <3> QED BY <2>3, <2>5
  <2>7. ~(k <= off(i - 1))
    BY <2>5, <2>6
  <2> QED BY <2>5, <2>7, <1>2, <1>4
<1>6. ASSUME NEW k \in Nat, NEW i \in 1..n, NEW j \in 1..n,
             k - off(i - 1) \in 1..size[i], k - off(j - 1) \in 1..size[j], i < j
      PROVE  FALSE
  <2>1. off(i) <= off(j - 1)
    <3>1. i \in 0..n /\ j - 1 \in i..n
      BY <1>6
    <3> QED BY <1>3, <3>1
  <2> QED BY <1>6, <2>1, <1>2, <1>4
<1>7. \A k : \A i, j \in 1..n : k \in Nat
        /\ k - off(i - 1) \in 1..size[i] /\ k - off(j - 1) \in 1..size[j] => i = j
  BY <1>6
<1>8. \A i \in 1..n : off(i - 1) + size[i] <= off(n)
  BY <1>2, <1>4
<1> QED BY <1>4, <1>5, <1>7, <1>8 DEF off

(* The inner product of two vectors.                                       *)
Dot(n, u, v) == SumTo(n, [k \in 1..n |-> u[k] * v[k]])

(* Inner products of integer vectors are integers, in either order.        *)
LEMMA DotInt ==
  ASSUME NEW n \in Nat, NEW u, NEW v, IntVector(n, u), IntVector(n, v)
  PROVE  Dot(n, u, v) \in Int /\ Dot(n, u, v) = Dot(n, v, u)
         /\ IntVector(n, [k \in 1..n |-> u[k] * v[k]])
<1> DEFINE a == [k \in 1..n |-> u[k] * v[k]]
           b == [k \in 1..n |-> v[k] * u[k]]
<1>1. IntVector(n, a) /\ \A k \in 1..n : a[k] = b[k]
  BY DEF IntVector
<1> HIDE DEF a, b
<1>2. SumTo(n, a) \in Int /\ SumTo(n, a) = SumTo(n, b)
  BY <1>1, SumInt, SumSame
<1> QED BY <1>1, <1>2 DEF Dot, a, b

(* Inner products of vectors that agree, modulo M, do.                     *)
LEMMA DotSame ==
  ASSUME NEW M \in Nat \ {0}, NEW n \in Nat, NEW u, NEW v, NEW w,
         IntVector(n, u), IntVector(n, v), IntVector(n, w), \A k \in 1..n : Same(M, v[k], w[k])
  PROVE  Same(M, Dot(n, u, v), Dot(n, u, w))
<1> DEFINE a == [k \in 1..n |-> u[k] * v[k]]
           b == [k \in 1..n |-> u[k] * w[k]]
<1>1. IntVector(n, a) /\ IntVector(n, b)
  BY DEF IntVector
<1>2. \A k \in 1..n : Same(M, a[k], b[k])
  <2> SUFFICES ASSUME NEW k \in 1..n PROVE Same(M, u[k] * v[k], u[k] * w[k])
    OBVIOUS
  <2>1. Same(M, u[k], u[k]) /\ u[k] \in Int /\ v[k] \in Int /\ w[k] \in Int
    BY DEF Same, IntVector
  <2> QED BY <2>1, SameOps
<1> HIDE DEF a, b
<1>3. Same(M, SumTo(n, a), SumTo(n, b))
  BY <1>1, <1>2, SumSameMod
<1> QED BY <1>3 DEF Dot, a, b

(* The inner product of a vector and a sum of vectors, one by one.         *)
Column1(P, zs, k) == [p \in 1..P |-> zs[p][k]]

Summed(P, n, c, u, w, d) ==
  /\ IntVector(n, c) /\ \A p \in 1..P : IntVector(n, u[p])
  /\ \A k \in 1..n : w[k] = SumTo(P, Column1(P, u, k))
  /\ \A p \in 1..P : d[p] = Dot(n, c, u[p])

(* A vector's product with a sum of vectors is the sum of its products     *)
(* with them: the parties' shares of a dot product.                        *)
LEMMA DotShares ==
  ASSUME NEW P \in Nat, NEW n \in Nat, NEW c, NEW u, NEW w, NEW d, Summed(P, n, c, u, w, d)
  PROVE  Dot(n, c, w) = SumTo(P, d) /\ IntVector(P, d) /\ IntVector(n, w)
<1> DEFINE R == [p \in 1..P |-> [k \in 1..n |-> c[k] * u[p][k]]]
           K == [k \in 1..n |-> [p \in 1..P |-> c[k] * u[p][k]]]
           column(k) == Column1(P, u, k)
           b == [k \in 1..n |-> c[k] * w[k]]
<1>0. /\ IntVector(n, c) /\ \A p \in 1..P : IntVector(n, u[p])
      /\ \A k \in 1..n : w[k] = SumTo(P, column(k))
      /\ \A p \in 1..P : d[p] = Dot(n, c, u[p])
  BY DEF Summed
<1>1. \A p \in 1..P : IntVector(n, R[p]) /\ d[p] = SumTo(n, R[p])
  <2> SUFFICES ASSUME NEW p \in 1..P PROVE IntVector(n, R[p]) /\ d[p] = SumTo(n, R[p])
    OBVIOUS
  <2>1. R[p] = [k \in 1..n |-> c[k] * u[p][k]] /\ IntVector(n, u[p])
    BY <1>0
  <2>2. d[p] = SumTo(n, R[p])
    BY <1>0, <2>1 DEF Dot
  <2> QED BY <1>0, <2>1, <2>2 DEF IntVector
<1>2. ASSUME NEW k \in 1..n
      PROVE IntVector(P, K[k]) /\ b[k] = SumTo(P, K[k]) /\ w[k] \in Int
  <2>1. IntVector(P, column(k)) /\ IntVector(P, K[k]) /\ c[k] \in Int
        /\ \A p \in 1..P : K[k][p] = c[k] * column(k)[p]
    BY <1>0 DEF IntVector, Column1
  <2>2. w[k] = SumTo(P, column(k)) /\ b[k] = c[k] * w[k]
    BY <1>0
  <2> DEFINE e == K[k]
           col == column(k)
           ck == c[k]
  <2>3. IntVector(P, col) /\ ck \in Int /\ \A p \in 1..P : e[p] = ck * col[p]
    BY <2>1
  <2> HIDE DEF col, e, ck
  <2>4. SumTo(P, e) = ck * SumTo(P, col) /\ SumTo(P, col) \in Int
    <3> HIDE DEF R, K, b, column
    <3>1. SumTo(P, e) = ck * SumTo(P, col)
      BY <2>3, SumScale
    <3>2. SumTo(P, col) \in Int
      BY <2>3, SumInt
    <3> QED BY <3>1, <3>2
  <2>5. IntVector(P, e) /\ w[k] = SumTo(P, col) /\ b[k] = ck * w[k]
    BY <2>1, <2>2 DEF col, e, ck
  <2>6. b[k] = SumTo(P, e) /\ w[k] \in Int
    BY <2>4, <2>5
  <2> QED BY <2>5, <2>6 DEF e
<1>3. \A p \in 1..P : \A k \in 1..n : R[p][k] = K[k][p]
  OBVIOUS
<1>4. RowsAndColumns(P, n, R, K, d, b)
  BY <1>1, <1>2, <1>3 DEF RowsAndColumns
<1>5. Dot(n, c, w) = SumTo(n, b) /\ IntVector(n, w)
  BY <1>2 DEF Dot, IntVector
<1> HIDE DEF R, K, b
<1> QED BY <1>4, <1>5, SumSwap

-----------------------------------------------------------------------------
(* Pairs of indices, counted row by row.                                   *)
RowByRow(n, c) ==
  /\ n * c \in Nat
  /\ \A i \in 1..n : \A j \in 1..c :
       /\ (i - 1) * c + j \in 1..(n * c)
       /\ Row(((i - 1) * c + j) - 1, c) = i - 1 /\ Column(((i - 1) * c + j) - 1, c) = j - 1
  /\ \A k \in 0..(n * c - 1) :
       /\ Row(k, c) \in 0..(n - 1) /\ Column(k, c) \in 0..(c - 1)
       /\ k = Row(k, c) * c + Column(k, c)

(* Row and Column count all pairs of indices, each once.                   *)
LEMMA PairFacts ==
  ASSUME NEW n \in Nat, NEW c \in Nat \ {0}
  PROVE  RowByRow(n, c)
<1>1. n * c \in Nat
  OBVIOUS
<1>2. ASSUME NEW i \in 1..n, NEW j \in 1..c
      PROVE  /\ (i - 1) * c + j \in 1..(n * c)
             /\ Row(((i - 1) * c + j) - 1, c) = i - 1 /\ Column(((i - 1) * c + j) - 1, c) = j - 1
  <2>1. (i - 1) * c \in Nat /\ (i - 1) * c + c = i * c /\ n * c = i * c + (n - i) * c /\ (n - i) * c \in Nat
        /\ i * c \in Nat
    OBVIOUS
  <2>2. (i - 1) * c + j \in 1..(n * c)
    <3> DEFINE a == (i - 1) * c
               b == i * c
               r == (n - i) * c
               t == n * c
    <3>1. a \in Nat /\ a + c = b /\ t = b + r /\ r \in Nat /\ b \in Nat /\ t \in Nat
      BY <2>1
    <3> HIDE DEF a, b, r, t
    <3>2. a + j \in 1..t
      BY <3>1
    <3> QED BY <3>2 DEF a, t
  <2>3. ((i - 1) * c + j) - 1 = (c * (i - 1)) + (j - 1) /\ ((i - 1) * c + j) - 1 \in Int
        /\ i - 1 \in Int /\ j - 1 \in 0..(c - 1)
    OBVIOUS
  <2>4. (((i - 1) * c + j) - 1) % c = j - 1 /\ (((i - 1) * c + j) - 1) \div c = i - 1
    BY <2>3, ModUnique
  <2> QED BY <2>2, <2>4 DEF Row, Column
<1>3. ASSUME NEW k \in 0..(n * c - 1)
      PROVE  /\ Row(k, c) \in 0..(n - 1) /\ Column(k, c) \in 0..(c - 1)
             /\ k = Row(k, c) * c + Column(k, c)
  <2> DEFINE q == Row(k, c)
             r == Column(k, c)
  <2>1. k \in Nat /\ k < n * c
    BY <1>1
  <2>2. q \in Int /\ r \in 0..(c - 1) /\ k = (c * q) + r
    BY <2>1, DivFacts DEF Row, Column
  <2> HIDE DEF q, r
  <2>3. k = q * c + r
    BY <2>2
  <2>4. q < n
    <3> SUFFICES ASSUME q >= n PROVE FALSE
      BY <2>2
    <3>1. q * c = n * c + (q - n) * c /\ (q - n) * c >= 0
      BY <2>2
    <3> QED BY <3>1, <2>1, <2>2, <2>3
  <2>5. q >= 0
    <3> SUFFICES ASSUME q <= -1 PROVE FALSE
      BY <2>2
    <3>1. q * c <= 0 - c
      BY <2>2
    <3> QED BY <3>1, <2>1, <2>2, <2>3
  <2> QED BY <2>2, <2>3, <2>4, <2>5 DEF q, r
<1> QED BY <1>1, <1>2, <1>3 DEF RowByRow

(* A constant, summed.                                                     *)
Constant(n, v, c) == \A k \in 1..n : v[k] = c

(* The sum of a constant is a multiple of it.                              *)
LEMMA SumConstant ==
  ASSUME NEW n \in Nat, NEW c \in Nat, NEW v, Constant(n, v, c)
  PROVE  \A k \in 0..n : SumTo(k, v) = k * c
<1>0. \A k \in 1..n : v[k] = c
  BY DEF Constant
<1>1. IntVector(n, v)
  BY <1>0 DEF IntVector
<1> DEFINE S == {k \in Nat : k <= n => SumTo(k, v) = k * c}
<1>2. 0 \in S
  <2>1. SumTo(0, v) = 0 /\ 0 * c = 0
    BY <1>1, SumFacts
  <2> QED BY <2>1
<1>3. ASSUME NEW k \in Nat, k \in S PROVE k + 1 \in S
  <2> SUFFICES ASSUME k + 1 <= n PROVE SumTo(k + 1, v) = (k + 1) * c
    OBVIOUS
  <2>1. k + 1 \in 1..n /\ (k + 1) - 1 = k
    OBVIOUS
  <2>2. SumTo(k + 1, v) = SumTo(k, v) + v[k + 1] /\ SumTo(k, v) = k * c /\ v[k + 1] = c
    BY <1>0, <1>1, <1>3, <2>1, SumFacts
  <2>3. (k + 1) * c = k * c + c
    OBVIOUS
  <2> QED BY <2>2, <2>3
<1> HIDE DEF S
<1>4. Nat \subseteq S
  BY <1>2, <1>3, SetInduction
<1> QED BY <1>4 DEF S

(* A sum row by row.                                                       *)
Grid(n, c, v, row, total) ==
  /\ IntVector(n * c, v)
  /\ \A i \in 1..n : \A j \in 1..c : row[i][j] = v[(i - 1) * c + j]
  /\ \A i \in 1..n : total[i] = SumTo(c, row[i])

(* The sum over a grid is the sum of the rows' sums.                       *)
LEMMA SumGrid ==
  ASSUME NEW n \in Nat, NEW c \in Nat, NEW v, NEW row, NEW total, Grid(n, c, v, row, total)
  PROVE  /\ SumTo(n * c, v) = SumTo(n, total) /\ IntVector(n, total)
         /\ \A i \in 1..n : IntVector(c, row[i])
<1> DEFINE size == [i \in 1..n |-> c]
<1>1. \A i \in 1..n : size[i] = c /\ size[i] \in Nat
  OBVIOUS
<1>a. Constant(n, size, c)
  BY DEF Constant
<1>b. /\ IntVector(n * c, v)
      /\ \A i \in 1..n : \A j \in 1..c : row[i][j] = v[(i - 1) * c + j]
      /\ \A i \in 1..n : total[i] = SumTo(c, row[i])
  BY DEF Grid
<1> HIDE DEF size
<1>2. \A k \in 0..n : SumTo(k, size) = k * c
  BY <1>a, SumConstant
<1>3. SumTo(n, size) = n * c
  BY <1>2
<1>4. \A i \in 1..n : \A j \in 1..size[i] : row[i][j] = v[SumTo(i - 1, size) + j]
  <2>1. \A i \in 1..n : i - 1 \in 0..n
    OBVIOUS
  <2> QED BY <1>b, <1>1, <1>2, <2>1
<1>5. \A i \in 1..n : total[i] = SumTo(size[i], row[i])
  BY <1>b, <1>1
<1>6. IntVector(SumTo(n, size), v)
  BY <1>b, <1>3
<1>7. /\ SumTo(n, total) = SumTo(SumTo(n, size), v) /\ IntVector(n, total)
      /\ \A i \in 1..n : IntVector(size[i], row[i])
  <2>1. Blocks(n, size, v, row, total)
    BY <1>1, <1>4, <1>5, <1>6 DEF Blocks
  <2> QED BY <2>1, SumBlocks
<1> QED BY <1>1, <1>3, <1>7



-----------------------------------------------------------------------------
(* Folding.                                                                *)

(* All products of two elements sum to the product of the sums.            *)
Pairs(n, c, a, b, v) ==
  \A k \in 1..(n * c) : v[k] = a[Row(k - 1, c) + 1] * b[Column(k - 1, c) + 1]

(* All products of two elements, and where they are.                       *)
LEMMA PairsInt ==
  ASSUME NEW n \in Nat, NEW c \in Nat \ {0}, NEW a, NEW b, NEW v,
         IntVector(n, a), IntVector(c, b), Pairs(n, c, a, b, v)
  PROVE  /\ IntVector(n * c, v)
         /\ \A i \in 1..n : \A j \in 1..c : v[(i - 1) * c + j] = a[i] * b[j]
<1>1. RowByRow(n, c)
  BY PairFacts
<1>2. ASSUME NEW k \in 1..(n * c) PROVE v[k] \in Int
  <2>1. n * c \in Nat
    OBVIOUS
  <2>2. k - 1 \in 0..(n * c - 1)
    BY <2>1
  <2>3. Row(k - 1, c) \in 0..(n - 1) /\ Column(k - 1, c) \in 0..(c - 1)
    BY <1>1, <2>2 DEF RowByRow
  <2> DEFINE i == Row(k - 1, c) + 1
             j == Column(k - 1, c) + 1
  <2>4. i \in 1..n /\ j \in 1..c /\ v[k] = a[i] * b[j]
    BY <2>3 DEF Pairs
  <2> HIDE DEF i, j
  <2> QED BY <2>4 DEF IntVector
<1>3. ASSUME NEW i \in 1..n, NEW j \in 1..c PROVE v[(i - 1) * c + j] = a[i] * b[j]
  <2> DEFINE k == (i - 1) * c + j
  <2>1. k \in 1..(n * c) /\ Row(k - 1, c) = i - 1 /\ Column(k - 1, c) = j - 1
    BY <1>1 DEF RowByRow
  <2> HIDE DEF k
  <2>2. v[k] = a[(i - 1) + 1] * b[(j - 1) + 1]
    BY <2>1 DEF Pairs
  <2>3. (i - 1) + 1 = i /\ (j - 1) + 1 = j
    OBVIOUS
  <2> QED BY <2>2, <2>3 DEF k
<1> QED BY <1>2, <1>3 DEF IntVector

(* They sum to the product of the two sums.                                *)
LEMMA GridProduct ==
  ASSUME NEW n \in Nat, NEW c \in Nat \ {0}, NEW a, NEW b, NEW v,
         IntVector(n, a), IntVector(c, b), Pairs(n, c, a, b, v)
  PROVE  SumTo(n * c, v) = SumTo(n, a) * SumTo(c, b)
<1>1. IntVector(n * c, v) /\ \A i \in 1..n : \A j \in 1..c : v[(i - 1) * c + j] = a[i] * b[j]
  BY PairsInt
<1> DEFINE row == [i \in 1..n |-> [j \in 1..c |-> v[(i - 1) * c + j]]]
           total == [i \in 1..n |-> SumTo(c, row[i])]
           S == SumTo(c, b)
<1>2. /\ \A i \in 1..n : \A j \in 1..c : row[i][j] = v[(i - 1) * c + j] /\ row[i][j] = a[i] * b[j]
      /\ \A i \in 1..n : total[i] = SumTo(c, row[i])
  BY <1>1
<1>3. S \in Int
  BY SumInt
<1> HIDE DEF row, total, S
<1>4. ASSUME NEW i \in 1..n PROVE total[i] = S * a[i]
  <2> DEFINE r == row[i]
             q == a[i]
  <2>1. q \in Int /\ \A j \in 1..c : r[j] = q * b[j]
    BY <1>2 DEF IntVector
  <2>2. total[i] = SumTo(c, r)
    BY <1>2
  <2> HIDE DEF r, q
  <2>3. SumTo(c, r) = q * SumTo(c, b)
    BY <2>1, SumScale
  <2>4. SumTo(c, r) = S * q
    BY <1>3, <2>1, <2>3 DEF S
  <2> QED BY <2>2, <2>4 DEF q
<1>5. SumTo(n, total) = S * SumTo(n, a)
  BY <1>3, <1>4, SumScale
<1>6. Grid(n, c, v, row, total)
  BY <1>1, <1>2 DEF Grid
<1>7. SumTo(n * c, v) = SumTo(n, total)
  <2>1. c \in Nat OBVIOUS
  <2> QED BY <1>6, <2>1, SumGrid
<1>8. SumTo(n, a) \in Int
  BY SumInt
<1> QED BY <1>3, <1>5, <1>7, <1>8 DEF S

(* The parts of X, d elements each, added up with coefficients; and the    *)
(* products of each part of X with each part of Y.                         *)
FoldTerms(n, d, alpha, X, e) == [l \in 1..n |-> alpha[l] * X[(l - 1) * d + e]]
PartTerms(d, X, Y, i, j)     == [e \in 1..d |-> X[i * d + e] * Y[j * d + e]]

Folded(n, d, alpha, X, X1) ==
  \A e \in 1..d : X1[e] = SumTo(n, FoldTerms(n, d, alpha, X, e))

Parted(n, c, d, X, Y, G) ==
  \A k \in 1..(n * c) : G[k] = SumTo(d, PartTerms(d, X, Y, Row(k - 1, c), Column(k - 1, c)))

(* What is folded are integers.                                            *)
LEMMA FoldedInt ==
  ASSUME NEW n \in Nat, NEW d \in Nat \ {0}, NEW alpha, NEW X, NEW X1,
         IntVector(n, alpha), IntVector(n * d, X), Folded(n, d, alpha, X, X1)
  PROVE  /\ IntVector(d, X1)
         /\ \A e \in 1..d : IntVector(n, FoldTerms(n, d, alpha, X, e))
<1>1. ASSUME NEW e \in 1..d, NEW l \in 1..n PROVE (l - 1) * d + e \in 1..(n * d)
  BY PairFacts DEF RowByRow
<1>2. ASSUME NEW e \in 1..d
      PROVE  IntVector(n, FoldTerms(n, d, alpha, X, e)) /\ X1[e] \in Int
  <2> DEFINE s == FoldTerms(n, d, alpha, X, e)
  <2>1. ASSUME NEW l \in 1..n PROVE s[l] \in Int
    <3>1. alpha[l] \in Int /\ X[(l - 1) * d + e] \in Int
      BY <1>1 DEF IntVector
    <3>2. s[l] = alpha[l] * X[(l - 1) * d + e]
      BY DEF FoldTerms
    <3> HIDE DEF s
    <3> QED BY <3>1, <3>2
  <2>2. X1[e] = SumTo(n, s)
    BY DEF Folded
  <2> HIDE DEF s
  <2>3. IntVector(n, s)
    BY <2>1 DEF IntVector
  <2>4. SumTo(n, s) \in Int
    BY <2>3, SumInt
  <2> QED BY <2>2, <2>3, <2>4 DEF s
<1> QED BY <1>2 DEF IntVector

(* The product of two folded vectors is the sum of the products of their   *)
(* parts with the products of the coefficients.                            *)
LEMMA FoldProduct ==
  ASSUME NEW n \in Nat \ {0}, NEW c \in Nat \ {0}, NEW d \in Nat \ {0},
         NEW alpha, NEW beta, NEW coef, NEW X, NEW Y, NEW X1, NEW Y1, NEW G,
         IntVector(n, alpha), IntVector(c, beta), Pairs(n, c, alpha, beta, coef),
         IntVector(n * d, X), IntVector(c * d, Y),
         Folded(n, d, alpha, X, X1), Folded(c, d, beta, Y, Y1), Parted(n, c, d, X, Y, G)
  PROVE  /\ Dot(d, X1, Y1) = Dot(n * c, coef, G)
         /\ IntVector(n * c, coef) /\ IntVector(n * c, G)
<1> DEFINE N == n * c
           P(e) == FoldTerms(n, d, alpha, X, e)
           B(e) == FoldTerms(c, d, beta, Y, e)
           row(k) == Row(k - 1, c)
           col(k) == Column(k - 1, c)
           term(k) == PartTerms(d, X, Y, row(k), col(k))
           M == [e \in 1..d |-> [k \in 1..N |-> coef[k] * term(k)[e]]]
           K == [k \in 1..N |-> [e \in 1..d |-> coef[k] * term(k)[e]]]
           s == [e \in 1..d |-> X1[e] * Y1[e]]
           t == [k \in 1..N |-> coef[k] * G[k]]
<1>1. N \in Nat /\ n \in Nat /\ c \in Nat /\ d \in Nat
  OBVIOUS
<1>2. IntVector(N, coef)
  BY PairsInt
<1>3. \A k \in 1..N : /\ row(k) \in 0..(n - 1) /\ col(k) \in 0..(c - 1)
                      /\ coef[k] = alpha[row(k) + 1] * beta[col(k) + 1]
  <2> SUFFICES ASSUME NEW k \in 1..N PROVE row(k) \in 0..(n - 1) /\ col(k) \in 0..(c - 1)
    BY DEF Pairs
  <2>1. k - 1 \in 0..(n * c - 1)
    BY <1>1
  <2> QED BY <2>1, PairFacts DEF RowByRow
<1> HIDE DEF row, col
<1>4. ASSUME NEW k \in 1..N, NEW e \in 1..d
      PROVE  /\ X[row(k) * d + e] \in Int /\ Y[col(k) * d + e] \in Int
             /\ P(e)[row(k) + 1] = alpha[row(k) + 1] * X[row(k) * d + e]
             /\ B(e)[col(k) + 1] = beta[col(k) + 1] * Y[col(k) * d + e]
  <2>1. row(k) + 1 \in 1..n /\ col(k) + 1 \in 1..c /\ (row(k) + 1) - 1 = row(k) /\ (col(k) + 1) - 1 = col(k)
    BY <1>3
  <2>2. ((row(k) + 1) - 1) * d + e \in 1..(n * d)
    <3>1. RowByRow(n, d)
      BY PairFacts
    <3> QED BY <2>1, <3>1 DEF RowByRow
  <2>3. ((col(k) + 1) - 1) * d + e \in 1..(c * d)
    <3>1. RowByRow(c, d)
      BY PairFacts
    <3> QED BY <2>1, <3>1 DEF RowByRow
  <2>4. row(k) * d + e \in 1..(n * d) /\ col(k) * d + e \in 1..(c * d)
    BY <2>1, <2>2, <2>3
  <2>5. X[row(k) * d + e] \in Int /\ Y[col(k) * d + e] \in Int
    BY <2>4 DEF IntVector
  <2> QED BY <2>1, <2>5 DEF FoldTerms
<1>5. ASSUME NEW k \in 1..N, NEW e \in 1..d
      PROVE  term(k)[e] \in Int /\ coef[k] * term(k)[e] = P(e)[row(k) + 1] * B(e)[col(k) + 1]
  <2> DEFINE xx == X[row(k) * d + e]
             yy == Y[col(k) * d + e]
             aa == alpha[row(k) + 1]
             bb == beta[col(k) + 1]
  <2>1. xx \in Int /\ yy \in Int /\ term(k)[e] = xx * yy
    BY <1>4 DEF PartTerms
  <2>2. row(k) + 1 \in 1..n /\ col(k) + 1 \in 1..c
    BY <1>3
  <2>3. aa \in Int /\ bb \in Int /\ coef[k] = aa * bb
    BY <1>3, <2>2 DEF IntVector
  <2>4. P(e)[row(k) + 1] = aa * xx /\ B(e)[col(k) + 1] = bb * yy
    BY <1>4
  <2> HIDE DEF xx, yy, aa, bb, P, B, term
  <2> QED BY <2>1, <2>3, <2>4
<1>6. \A e \in 1..d : IntVector(n, P(e)) /\ IntVector(c, B(e)) /\ X1[e] \in Int /\ Y1[e] \in Int
        /\ X1[e] = SumTo(n, P(e)) /\ Y1[e] = SumTo(c, B(e))
  <2>1. IntVector(d, X1) /\ \A e \in 1..d : IntVector(n, P(e))
    BY <1>1, FoldedInt
  <2>2. IntVector(d, Y1) /\ \A e \in 1..d : IntVector(c, B(e))
    BY <1>1, FoldedInt
  <2>3. \A e \in 1..d : X1[e] = SumTo(n, P(e)) /\ Y1[e] = SumTo(c, B(e))
    BY DEF Folded
  <2> HIDE DEF P, B
  <2> QED BY <2>1, <2>2, <2>3 DEF IntVector
<1>7. \A k \in 1..N : G[k] = SumTo(d, term(k))
  BY DEF Parted, row, col
<1>8. ASSUME NEW e \in 1..d
      PROVE  IntVector(N, M[e]) /\ s[e] = SumTo(N, M[e])
  <2> DEFINE v == M[e]
             a == P(e)
             b == B(e)
  <2>1. \A k \in 1..N : v[k] = a[row(k) + 1] * b[col(k) + 1]
    <3> HIDE DEF P, B, term
    <3> QED BY <1>5
  <2>2. IntVector(n, a) /\ IntVector(c, b) /\ s[e] = SumTo(n, a) * SumTo(c, b)
    BY <1>6
  <2> HIDE DEF v, a, b, s
  <2>3. Pairs(n, c, a, b, v)
    BY <2>1 DEF Pairs, row, col
  <2>4. IntVector(n * c, v) /\ SumTo(n * c, v) = SumTo(n, a) * SumTo(c, b)
    BY <1>1, <2>2, <2>3, PairsInt, GridProduct
  <2> QED BY <2>2, <2>4 DEF v
<1>9. ASSUME NEW k \in 1..N
      PROVE  IntVector(d, K[k]) /\ t[k] = SumTo(d, K[k]) /\ G[k] \in Int
  <2> DEFINE v == K[k]
             u == term(k)
             q == coef[k]
  <2>1. q \in Int /\ \A e \in 1..d : v[e] = q * u[e]
    BY <1>2 DEF IntVector
  <2>2. IntVector(d, u)
    BY <1>5 DEF IntVector
  <2>3. t[k] = q * SumTo(d, u) /\ G[k] = SumTo(d, u)
    BY <1>7
  <2> HIDE DEF v, u, q, t
  <2>4. SumTo(d, v) = q * SumTo(d, u) /\ IntVector(d, v)
    BY <1>1, <2>1, <2>2, SumScale
  <2>5. SumTo(d, u) \in Int
    BY <1>1, <2>2, SumInt
  <2> QED BY <2>3, <2>4, <2>5 DEF v
<1>10. \A e \in 1..d : \A k \in 1..N : M[e][k] = K[k][e]
  OBVIOUS
<1>11. IntVector(N, G)
  BY <1>9 DEF IntVector
<1>12. Dot(d, X1, Y1) = SumTo(d, s) /\ Dot(N, coef, G) = SumTo(N, t)
  BY DEF Dot
<1> HIDE DEF M, K, s, t
<1>13. RowsAndColumns(d, N, M, K, s, t)
  BY <1>8, <1>9, <1>10 DEF RowsAndColumns
<1>14. SumTo(d, s) = SumTo(N, t)
  BY <1>1, <1>13, SumSwap
<1> QED BY <1>2, <1>11, <1>12, <1>14

(* What is assumed of the constants, in the form that the proofs need.     *)
LEMMA Moduli ==
  /\ RingSize \in Nat \ {0} /\ LargeRingSize \in Nat \ {0} /\ LargeRingSize % RingSize = 0
  /\ nP \in Nat /\ nP >= 2 /\ nP - 1 \in Nat /\ SSEC \in Nat \ {0}
  /\ Parties = 1..nP /\ Procs = 0..nP
BY ZkProofAssumption DEF Parties, Procs

(* LargeRing and Ring reduce.                                              *)
LEMMA LargeRingFacts ==
  ASSUME NEW a \in Int
  PROVE  /\ LargeRing(a) \in Int /\ LargeRing(a) \in 0..(LargeRingSize - 1)
         /\ Same(LargeRingSize, LargeRing(a), a) /\ Same(LargeRingSize, a, LargeRing(a))
BY Moduli, SameMod DEF LargeRing, Same

(* The same of Ring.                                                       *)
LEMMA RingFacts ==
  ASSUME NEW a \in Int
  PROVE  /\ Ring(a) \in Int /\ Ring(a) \in 0..(RingSize - 1)
         /\ Same(RingSize, Ring(a), a) /\ Same(RingSize, a, Ring(a))
BY Moduli, SameMod DEF Ring, Same

(* Differences of sums.                                                    *)
LEMMA SumSub ==
  ASSUME NEW N \in Nat, NEW u, NEW v, NEW w, IntVector(N, u), IntVector(N, v),
         \A k \in 1..N : w[k] = u[k] - v[k]
  PROVE  SumTo(N, w) = SumTo(N, u) - SumTo(N, v) /\ IntVector(N, w)
<1>1. IntVector(N, w)
  BY DEF IntVector
<1>2. \A k \in 1..N : u[k] = w[k] + v[k]
  BY DEF IntVector
<1>3. SumTo(N, u) = SumTo(N, w) + SumTo(N, v)
  BY <1>1, <1>2, SumAdd
<1>4. SumTo(N, u) \in Int /\ SumTo(N, v) \in Int /\ SumTo(N, w) \in Int
  BY <1>1, SumInt
<1> QED BY <1>1, <1>3, <1>4

(* The entries on the diagonal are entries.                                *)
LEMMA Diagonal ==
  ASSUME NEW n \in Nat \ {0}, NEW c \in Nat, n <= c
  PROVE  /\ n * c - 1 \in Nat /\ 1 + (n * c - 1) = n * c /\ n * c \in Nat /\ c \in Nat \ {0}
         /\ \A i \in 1..(n - 1) : Position(i, i, c) \in 1..(n * c - 1)
<1>1. n * c \in Nat /\ n * c >= 1 /\ c >= 1
  <2>1. n >= 1 /\ c >= 1
    OBVIOUS
  <2> QED BY <2>1
<1>2. ASSUME NEW i \in 1..(n - 1) PROVE Position(i, i, c) \in 1..(n * c - 1)
  <2>1. i * c \in Nat /\ n * c = (i + 1) * c + (n - (i + 1)) * c /\ (i + 1) * c = i * c + c
        /\ (n - (i + 1)) * c \in Nat /\ i < c /\ i \in Nat /\ i >= 1
    OBVIOUS
  <2> DEFINE a == i * c
             b == n * c
             r == (n - (i + 1)) * c
             s == (i + 1) * c
  <2>2. a \in Nat /\ b = s + r /\ s = a + c /\ r \in Nat /\ i < c /\ i \in Nat /\ i >= 1 /\ c \in Nat
    BY <2>1
  <2> HIDE DEF a, b, r, s
  <2>3. a + i \in 1..(b - 1)
    BY <2>2
  <2> QED BY <2>3 DEF Position, a, b
<1> QED BY <1>1, <1>2

(* The products that shareSum returns, preceded by the missing one.        *)
Extended(n, c, z, zs, ext) ==
  /\ ext[1] = Remaining(z, zs, n, c)
  /\ \A k \in 1..(n * c - 1) : ext[k + 1] = zs[k]

DiagonalOf(n, c, zs) == [i \in 1..(n - 1) |-> zs[Position(i, i, c)]]

(* What is left of z when the products on the diagonal but the first are   *)
(* subtracted.                                                             *)
LEMMA RemainingFacts ==
  ASSUME NEW n \in Nat \ {0}, NEW c \in Nat, n <= c, NEW z \in Int, NEW zs, IntVector(n * c - 1, zs)
  PROVE  /\ Remaining(z, zs, n, c) = z - SumTo(n - 1, DiagonalOf(n, c, zs))
         /\ IntVector(n - 1, DiagonalOf(n, c, zs)) /\ SumTo(n - 1, DiagonalOf(n, c, zs)) \in Int
         /\ Remaining(z, zs, n, c) \in Int
<1>1. IntVector(n - 1, DiagonalOf(n, c, zs))
  BY Diagonal DEF DiagonalOf, IntVector
<1>2. n - 1 \in Nat
  OBVIOUS
<1>3. SumTo(n - 1, DiagonalOf(n, c, zs)) \in Int
  BY <1>1, <1>2, SumInt
<1>4. Remaining(z, zs, n, c) = z - SumTo(n - 1, DiagonalOf(n, c, zs))
  BY DEF Remaining, DiagonalOf
<1> QED BY <1>1, <1>3, <1>4

(* The products with the missing one in front.                             *)
LEMMA ExtendedInt ==
  ASSUME NEW n \in Nat \ {0}, NEW c \in Nat, n <= c, NEW z \in Int, NEW zs, IntVector(n * c - 1, zs),
         NEW ext, Extended(n, c, z, zs, ext)
  PROVE  IntVector(n * c, ext)
<1> DEFINE N == n * c
<1>1. N - 1 \in Nat /\ N \in Nat
  BY Diagonal
<1>2. ext[1] \in Int
  BY RemainingFacts DEF Extended
<1>3. ASSUME NEW k \in 1..N PROVE ext[k] \in Int
  <2>1. CASE k = 1
    BY <1>2, <2>1
  <2>2. CASE k # 1
    <3> DEFINE j == k - 1
    <3>1. j \in 1..(N - 1) /\ k = j + 1
      BY <1>1, <2>2
    <3> HIDE DEF j
    <3>2. ext[j + 1] = zs[j] /\ zs[j] \in Int
      BY <3>1 DEF Extended, IntVector
    <3> QED BY <3>1, <3>2
  <2> QED BY <2>1, <2>2
<1> QED BY <1>3 DEF IntVector

Coefs(n, c, alpha, beta) == [k \in 1..(n * c) |-> alpha[Row(k - 1, c) + 1] * beta[Column(k - 1, c) + 1]]

(* FoldZ is an inner product.                                              *)
LEMMA FoldZFacts ==
  ASSUME NEW n \in Nat \ {0}, NEW c \in Nat, n <= c, NEW z \in Int, NEW zs, IntVector(n * c - 1, zs),
         NEW ext, Extended(n, c, z, zs, ext), NEW alpha, NEW beta, Len(alpha) = n, Len(beta) = c,
         IntVector(n, alpha), IntVector(c, beta)
  PROVE  /\ FoldZ(z, zs, alpha, beta) = LargeRing(Dot(n * c, Coefs(n, c, alpha, beta), ext))
         /\ Dot(n * c, Coefs(n, c, alpha, beta), ext) \in Int
         /\ IntVector(n * c, Coefs(n, c, alpha, beta))
<1> DEFINE N == n * c
           coef == Coefs(n, c, alpha, beta)
           v == [k \in 1..N |-> coef[k] * ext[k]]
           w == [k \in 1..(N - 1) |-> (alpha[Row(k, c) + 1] * beta[Column(k, c) + 1]) * zs[k]]
           first == (alpha[Row(0, c) + 1] * beta[Column(0, c) + 1]) * Remaining(z, zs, n, c)
<1>1. N - 1 \in Nat /\ 1 + (N - 1) = N /\ N \in Nat /\ c \in Nat \ {0} /\ n \in Nat
  BY Diagonal
<1>2. IntVector(N, coef)
  <2>1. Pairs(n, c, alpha, beta, coef)
    BY DEF Pairs, Coefs
  <2> HIDE DEF coef
  <2> QED BY <1>1, <2>1, PairsInt
<1>3. IntVector(N, ext)
  BY ExtendedInt
<1>4. IntVector(N, v) /\ Dot(N, coef, ext) = SumTo(N, v) /\ Dot(N, coef, ext) \in Int
  <2> HIDE DEF coef, N
  <2>1. IntVector(N, v)
    <3> SUFFICES ASSUME NEW k \in 1..N PROVE v[k] \in Int
      BY DEF IntVector
    <3> QED BY <1>2, <1>3 DEF IntVector
  <2>2. Dot(N, coef, ext) = SumTo(N, v)
    BY DEF Dot
  <2>3. Dot(N, coef, ext) \in Int
    BY <1>1, <1>2, <1>3, DotInt
  <2> QED BY <2>1, <2>2, <2>3
<1>5. FoldZ(z, zs, alpha, beta) = LargeRing(first + SumTo(N - 1, w))
  BY DEF FoldZ
<1>6. v[1] = first
  <2>1. 1 \in 1..N /\ 1 - 1 = 0
    BY <1>1
  <2> QED BY <2>1 DEF Coefs, Extended
<1>7. \A k \in 1..(N - 1) : w[k] = v[1 + k]
  <2> SUFFICES ASSUME NEW k \in 1..(N - 1) PROVE w[k] = v[1 + k]
    OBVIOUS
  <2>1. 1 + k \in 1..N /\ (1 + k) - 1 = k /\ k + 1 = 1 + k
    BY <1>1
  <2>2. ext[1 + k] = zs[k]
    BY <2>1 DEF Extended
  <2>3. coef[1 + k] = alpha[Row(k, c) + 1] * beta[Column(k, c) + 1]
    BY <2>1 DEF Coefs
  <2>4. v[1 + k] = coef[1 + k] * ext[1 + k]
    BY <2>1
  <2> HIDE DEF v, coef
  <2> QED BY <2>2, <2>3, <2>4
<1> HIDE DEF v, w, first, coef
<1>8. SumTo(N, v) = SumTo(1, v) + SumTo(N - 1, w)
  <2> DEFINE M == N - 1
  <2>1. M \in Nat /\ 1 + M = N /\ 1 \in Nat
    BY <1>1
  <2>2. IntVector(1 + M, v) /\ Shifted(1, M, v, w)
    BY <1>4, <1>7, <2>1 DEF Shifted
  <2> HIDE DEF M, N
  <2>3. SumTo(1 + M, v) = SumTo(1, v) + SumTo(M, w)
    BY <2>1, <2>2, SumConcat
  <2> QED BY <2>1, <2>3 DEF M
<1>9. SumTo(1, v) = v[1]
  <2>1. IntVector(1, v) /\ v[1] \in Int
    BY <1>1, <1>4 DEF IntVector
  <2>2. 1 \in 1..1 /\ 1 - 1 = 0
    OBVIOUS
  <2>3. SumTo(1, v) = SumTo(0, v) + v[1] /\ SumTo(0, v) = 0
    BY <2>1, <2>2, SumFacts
  <2> QED BY <2>1, <2>3
<1>10. FoldZ(z, zs, alpha, beta) = LargeRing(SumTo(N, v))
  BY <1>5, <1>6, <1>8, <1>9
<1> QED BY <1>2, <1>4, <1>10 DEF coef

(* Shares of a vector and of its elements.                                 *)
SharesOf(P, N, ws, zs) ==
  /\ IntVector(N, ws) /\ \A p \in 1..P : IntVector(N, zs[p])
  /\ \A k \in 1..N : Same(LargeRingSize, ws[k], SumTo(P, Column1(P, zs, k)))

(* The parties' elements of an index sum to an integer.                    *)
LEMMA ColumnInt ==
  ASSUME NEW P \in Nat, NEW N \in Nat, NEW zs, \A p \in 1..P : IntVector(N, zs[p]), NEW k \in 1..N
  PROVE  IntVector(P, Column1(P, zs, k)) /\ SumTo(P, Column1(P, zs, k)) \in Int
<1>1. IntVector(P, Column1(P, zs, k))
  BY DEF Column1, IntVector
<1> QED BY <1>1, SumInt

(* An inner product of shares is a share of the inner product.             *)
LEMMA SharedDot ==
  ASSUME NEW P \in Nat, NEW N \in Nat, NEW c, IntVector(N, c), NEW ws, NEW zs, SharesOf(P, N, ws, zs),
         NEW d, \A p \in 1..P : d[p] = Dot(N, c, zs[p])
  PROVE  /\ Same(LargeRingSize, Dot(N, c, ws), SumTo(P, d)) /\ IntVector(P, d)
         /\ Dot(N, c, ws) \in Int
<1> DEFINE w == [k \in 1..N |-> SumTo(P, Column1(P, zs, k))]
<1>1. \A p \in 1..P : IntVector(N, zs[p])
  BY DEF SharesOf
<1>2. \A k \in 1..N : w[k] = SumTo(P, Column1(P, zs, k))
  OBVIOUS
<1>3. \A k \in 1..N : Same(LargeRingSize, ws[k], w[k])
  BY DEF SharesOf
<1>4. IntVector(N, ws)
  BY DEF SharesOf
<1> HIDE DEF w
<1>5. Dot(N, c, w) = SumTo(P, d) /\ IntVector(P, d) /\ IntVector(N, w)
  <2>1. Summed(P, N, c, zs, w, d)
    BY <1>1, <1>2 DEF Summed
  <2> QED BY <2>1, DotShares
<1>6. Same(LargeRingSize, Dot(N, c, ws), Dot(N, c, w))
  BY <1>3, <1>4, <1>5, Moduli, DotSame
<1>7. Dot(N, c, ws) \in Int
  BY <1>4, DotInt
<1> QED BY <1>5, <1>6, <1>7

(* What remains of a shared z is shared.                                   *)
LEMMA SharedRemaining ==
  ASSUME NEW P \in Nat, NEW n \in Nat \ {0}, NEW c \in Nat, n <= c,
         NEW w \in Int, NEW z, IntVector(P, z), Same(LargeRingSize, w, SumTo(P, z)),
         NEW ws, NEW zs, SharesOf(P, n * c - 1, ws, zs),
         NEW rem, \A p \in 1..P : rem[p] = Remaining(z[p], zs[p], n, c)
  PROVE  IntVector(P, rem) /\ Same(LargeRingSize, Remaining(w, ws, n, c), SumTo(P, rem))
<1> DEFINE M == n - 1
           N == n * c - 1
           L == LargeRingSize
           row == [p \in 1..P |-> DiagonalOf(n, c, zs[p])]
           col == [i \in 1..M |-> Column1(P, zs, Position(i, i, c))]
           a == [p \in 1..P |-> SumTo(M, row[p])]
           b == [i \in 1..M |-> SumTo(P, col[i])]
           dw == DiagonalOf(n, c, ws)
<1>1. M \in Nat /\ N \in Nat /\ L \in Nat \ {0} /\ \A i \in 1..M : Position(i, i, c) \in 1..N
  <2>1. M \in Nat
    OBVIOUS
  <2>2. N \in Nat /\ \A i \in 1..M : Position(i, i, c) \in 1..N
    BY Diagonal
  <2>3. L \in Nat \ {0}
    BY Moduli
  <2> QED BY <2>1, <2>2, <2>3
<1>2. IntVector(N, ws) /\ (\A p \in 1..P : IntVector(N, zs[p]))
      /\ \A k \in 1..N : Same(L, ws[k], SumTo(P, Column1(P, zs, k)))
  BY DEF SharesOf
<1>3. ASSUME NEW p \in 1..P
      PROVE  /\ rem[p] = z[p] - a[p] /\ IntVector(M, row[p]) /\ a[p] = SumTo(M, row[p]) /\ a[p] \in Int
             /\ z[p] \in Int
  <2>1. z[p] \in Int /\ IntVector(n * c - 1, zs[p])
    BY <1>2 DEF IntVector
  <2> DEFINE q == z[p]
             y1 == zs[p]
  <2>2. rem[p] = Remaining(q, y1, n, c) /\ row[p] = DiagonalOf(n, c, y1) /\ q \in Int /\ IntVector(n * c - 1, y1)
    BY <2>1
  <2> HIDE DEF q, y1
  <2>3. Remaining(q, y1, n, c) = q - SumTo(n - 1, DiagonalOf(n, c, y1)) /\ IntVector(n - 1, DiagonalOf(n, c, y1))
        /\ SumTo(n - 1, DiagonalOf(n, c, y1)) \in Int
    BY <2>2, RemainingFacts
  <2>4. a[p] = SumTo(M, row[p])
    OBVIOUS
  <2> HIDE DEF row, a
  <2> QED BY <2>2, <2>3, <2>4 DEF q
<1>4. ASSUME NEW i \in 1..M
      PROVE  IntVector(P, col[i]) /\ b[i] = SumTo(P, col[i]) /\ dw[i] \in Int /\ b[i] \in Int /\ Same(L, dw[i], b[i])
  <2> DEFINE k == Position(i, i, c)
  <2>1. k \in 1..N /\ dw[i] = ws[k] /\ col[i] = Column1(P, zs, k) /\ b[i] = SumTo(P, col[i])
    BY <1>1 DEF DiagonalOf
  <2> HIDE DEF k, dw, col, b, N
  <2>2. IntVector(P, Column1(P, zs, k)) /\ SumTo(P, Column1(P, zs, k)) \in Int
    BY <1>1, <1>2, <2>1, ColumnInt
  <2> QED BY <1>2, <2>1, <2>2 DEF IntVector
<1>5. \A p \in 1..P : \A i \in 1..M : row[p][i] = col[i][p]
  BY DEF DiagonalOf, Column1
<1>6. Remaining(w, ws, n, c) = w - SumTo(M, dw) /\ IntVector(M, dw) /\ SumTo(M, dw) \in Int
  BY <1>2, RemainingFacts
<1> HIDE DEF row, col, a, b, dw, M, N
<1>7. RowsAndColumns(P, M, row, col, a, b)
  BY <1>3, <1>4, <1>5 DEF RowsAndColumns
<1>8. SumTo(P, a) = SumTo(M, b) /\ IntVector(P, a) /\ IntVector(M, b)
  BY <1>1, <1>7, SumSwap
<1>9. SumTo(P, rem) = SumTo(P, z) - SumTo(P, a) /\ IntVector(P, rem)
  BY <1>3, <1>8, SumSub
<1>10. Same(L, SumTo(M, dw), SumTo(M, b))
  BY <1>1, <1>4, <1>6, <1>8, SumSameMod
<1>11. SumTo(P, z) \in Int /\ SumTo(M, b) \in Int
  BY <1>1, <1>8, SumInt
<1>12. Same(L, w - SumTo(M, dw), SumTo(P, z) - SumTo(M, b))
  BY <1>1, <1>6, <1>10, <1>11, SameOps
<1> QED BY <1>6, <1>8, <1>9, <1>12

(* FoldZ of shares yields shares.                                          *)
LEMMA SharedFold ==
  ASSUME NEW P \in Nat, NEW n \in Nat \ {0}, NEW c \in Nat, n <= c,
         NEW w \in Int, NEW z, IntVector(P, z), Same(LargeRingSize, w, SumTo(P, z)),
         NEW ws, NEW zs, SharesOf(P, n * c - 1, ws, zs),
         NEW alpha, NEW beta, Len(alpha) = n, Len(beta) = c, IntVector(n, alpha), IntVector(c, beta),
         NEW out, \A p \in 1..P : out[p] = FoldZ(z[p], zs[p], alpha, beta)
  PROVE  IntVector(P, out) /\ Same(LargeRingSize, FoldZ(w, ws, alpha, beta), SumTo(P, out))
<1> DEFINE N == n * c
           L == LargeRingSize
           coef == Coefs(n, c, alpha, beta)
           Ext(q, zq) == [k \in 1..N |-> IF k = 1 THEN Remaining(q, zq, n, c) ELSE zq[k - 1]]
           ext == [p \in 1..P |-> Ext(z[p], zs[p])]
           xw == Ext(w, ws)
           d == [p \in 1..P |-> Dot(N, coef, ext[p])]
           rem == [p \in 1..P |-> Remaining(z[p], zs[p], n, c)]
<1>1. N - 1 \in Nat /\ 1 + (N - 1) = N /\ N \in Nat /\ L \in Nat \ {0}
  BY Diagonal, Moduli
<1>2. IntVector(N - 1, ws) /\ (\A p \in 1..P : IntVector(N - 1, zs[p]))
      /\ \A k \in 1..(N - 1) : Same(L, ws[k], SumTo(P, Column1(P, zs, k)))
  BY DEF SharesOf
<1>3. ASSUME NEW q, NEW zq PROVE Extended(n, c, q, zq, Ext(q, zq))
  <2>1. 1 \in 1..N /\ \A k \in 1..(N - 1) : k + 1 \in 1..N /\ k + 1 # 1 /\ (k + 1) - 1 = k
    BY <1>1
  <2> QED BY <2>1 DEF Extended
<1>4. ASSUME NEW p \in 1..P
      PROVE  IntVector(N, ext[p]) /\ out[p] = LargeRing(d[p]) /\ d[p] = Dot(N, coef, ext[p]) /\ d[p] \in Int
  <2> DEFINE q == z[p]
             zq == zs[p]
             e == ext[p]
  <2>1. q \in Int /\ IntVector(n * c - 1, zq) /\ Extended(n, c, q, zq, e)
    <3>1. z[p] \in Int
      BY DEF IntVector
    <3>2. e = Ext(q, zq)
      OBVIOUS
    <3> HIDE DEF Ext
    <3> QED BY <1>2, <1>3, <3>1, <3>2
  <2>2. out[p] = FoldZ(q, zq, alpha, beta) /\ d[p] = Dot(N, coef, e)
    OBVIOUS
  <2> HIDE DEF q, zq, e, d
  <2>3. IntVector(n * c, e)
    BY <2>1, ExtendedInt
  <2>4. FoldZ(q, zq, alpha, beta) = LargeRing(Dot(n * c, coef, e)) /\ Dot(n * c, coef, e) \in Int
    BY <2>1, FoldZFacts
  <2> QED BY <2>2, <2>3, <2>4 DEF e
<1>5. /\ FoldZ(w, ws, alpha, beta) = LargeRing(Dot(N, coef, xw)) /\ Dot(N, coef, xw) \in Int
      /\ IntVector(N, coef) /\ IntVector(N, xw)
  <2>1. Extended(n, c, w, ws, xw)
    <3> HIDE DEF Ext
    <3> QED BY <1>3
  <2> HIDE DEF xw
  <2>2. IntVector(n * c, xw)
    BY <1>2, <2>1, ExtendedInt
  <2>3. /\ FoldZ(w, ws, alpha, beta) = LargeRing(Dot(n * c, coef, xw)) /\ Dot(n * c, coef, xw) \in Int
        /\ IntVector(n * c, coef)
    BY <1>2, <2>1, FoldZFacts
  <2> QED BY <2>2, <2>3
<1>6. IntVector(P, rem) /\ Same(L, Remaining(w, ws, n, c), SumTo(P, rem))
  <2>1. \A p \in 1..P : rem[p] = Remaining(z[p], zs[p], n, c)
    OBVIOUS
  <2> HIDE DEF rem
  <2> QED BY <2>1, SharedRemaining
<1>7. ASSUME NEW k \in 1..N PROVE Same(L, xw[k], SumTo(P, Column1(P, ext, k)))
  <2>1. CASE k = 1
    <3>1. Column1(P, ext, k) = rem /\ xw[k] = Remaining(w, ws, n, c)
      BY <2>1 DEF Column1
    <3> QED BY <1>6, <3>1
  <2>2. CASE k # 1
    <3> DEFINE j == k - 1
    <3>1. j \in 1..(N - 1)
      BY <1>1, <2>2
    <3>2. Column1(P, ext, k) = Column1(P, zs, j) /\ xw[k] = ws[j]
      BY <2>2 DEF Column1
    <3> HIDE DEF j, ext, xw
    <3> QED BY <1>2, <3>1, <3>2
  <2> QED BY <2>1, <2>2
<1>8. SharesOf(P, N, xw, ext)
  <2>1. \A p \in 1..P : IntVector(N, ext[p])
    BY <1>4
  <2> HIDE DEF xw, ext
  <2> QED BY <1>5, <1>7, <2>1 DEF SharesOf
<1>9. \A p \in 1..P : d[p] = Dot(N, coef, ext[p])
  OBVIOUS
<1> HIDE DEF ext, xw, d, coef, N
<1>10. Same(L, Dot(N, coef, xw), SumTo(P, d)) /\ IntVector(P, d)
  BY <1>1, <1>5, <1>8, <1>9, SharedDot
<1>11. \A p \in 1..P : out[p] \in Int /\ Same(L, d[p], out[p])
  BY <1>4, LargeRingFacts
<1>12. IntVector(P, out)
  BY <1>11 DEF IntVector
<1>13. Same(L, SumTo(P, d), SumTo(P, out))
  BY <1>1, <1>10, <1>11, <1>12, SumSameMod
<1>14. Same(L, FoldZ(w, ws, alpha, beta), Dot(N, coef, xw))
  BY <1>5, LargeRingFacts
<1> QED BY <1>10, <1>12, <1>13, <1>14, SameTrans

(* The product of two vectors is the sum of the products of their parts    *)
(* with equal indices.                                                     *)
DiagonalParts(n, c, G) == [i \in 1..(n - 1) |-> G[Position(i, i, c) + 1]]

(* The product of two vectors is the sum of the products of their parts    *)
(* with equal indices.                                                     *)
LEMMA PartsDiagonal ==
  ASSUME NEW n \in Nat \ {0}, NEW c \in Nat, n <= c, NEW d \in Nat \ {0}, NEW X, NEW Y, NEW G,
         IntVector(n * d, X), IntVector(c * d, Y), Parted(n, c, d, X, Y, G), IntVector(n * c, G)
  PROVE  /\ Dot(n * d, X, Y) = G[1] + SumTo(n - 1, DiagonalParts(n, c, G))
         /\ IntVector(n - 1, DiagonalParts(n, c, G))
<1> DEFINE v == [k \in 1..(n * d) |-> X[k] * Y[k]]
           row == [i \in 1..n |-> PartTerms(d, X, Y, i - 1, i - 1)]
           total == [i \in 1..n |-> SumTo(d, row[i])]
           M == n - 1
           w == DiagonalParts(n, c, G)
<1>1. /\ n \in Nat /\ d \in Nat /\ c \in Nat \ {0} /\ M \in Nat /\ 1 + M = n /\ n * d \in Nat
      /\ \A k \in 1..(n * d) : k \in 1..(c * d)
  <2>1. n * d <= c * d /\ n * d \in Nat /\ c * d \in Nat
    BY SMTT(30)
  <2>2. n \in Nat /\ d \in Nat /\ c \in Nat \ {0} /\ M \in Nat /\ 1 + M = n
    OBVIOUS
  <2> QED BY <2>1, <2>2
<1>2. IntVector(n * d, v)
  <2> SUFFICES ASSUME NEW k \in 1..(n * d) PROVE X[k] * Y[k] \in Int
    BY DEF IntVector
  <2>1. X[k] \in Int /\ Y[k] \in Int
    BY <1>1 DEF IntVector
  <2> QED BY <2>1
<1>3. RowByRow(n, d) /\ RowByRow(n, c)
  BY <1>1, PairFacts
<1>4. ASSUME NEW i \in 1..n, NEW e \in 1..d PROVE row[i][e] = v[(i - 1) * d + e]
  <2>1. (i - 1) * d + e \in 1..(n * d)
    BY <1>3 DEF RowByRow
  <2> QED BY <2>1 DEF PartTerms
<1>5. ASSUME NEW i \in 1..n PROVE total[i] = G[(i - 1) * c + i] /\ (i - 1) * c + i \in 1..(n * c)
  <2> DEFINE k == (i - 1) * c + i
  <2>0. i \in 1..c
    BY <1>1
  <2>1. k \in 1..(n * c) /\ Row(k - 1, c) = i - 1 /\ Column(k - 1, c) = i - 1
    BY <1>3, <2>0 DEF RowByRow
  <2> HIDE DEF k
  <2>2. G[k] = SumTo(d, PartTerms(d, X, Y, i - 1, i - 1))
    BY <2>1 DEF Parted
  <2> QED BY <2>1, <2>2 DEF k
<1>6. \A i \in 1..n : total[i] = SumTo(d, row[i])
  OBVIOUS
<1>7. Dot(n * d, X, Y) = SumTo(n * d, v)
  BY DEF Dot
<1> HIDE DEF v, row, total
<1>8. SumTo(n * d, v) = SumTo(n, total) /\ IntVector(n, total)
  <2>1. Grid(n, d, v, row, total)
    BY <1>2, <1>4, <1>6 DEF Grid
  <2> QED BY <1>1, <2>1, SumGrid
<1>9. \A i \in 1..M : w[i] = total[1 + i]
  <2> SUFFICES ASSUME NEW i \in 1..M PROVE w[i] = total[1 + i]
    OBVIOUS
  <2>1. 1 + i \in 1..n /\ (1 + i) - 1 = i
    BY <1>1
  <2>2. i * c + (1 + i) = Position(i, i, c) + 1
    BY <1>1 DEF Position
  <2> QED BY <1>5, <2>1, <2>2 DEF DiagonalParts
<1>10. total[1] = G[1]
  <2>1. 1 \in 1..n /\ (1 - 1) * c + 1 = 1
    BY <1>1
  <2> QED BY <1>5, <2>1
<1> HIDE DEF M, w
<1>11. SumTo(1 + M, total) = SumTo(1, total) + SumTo(M, w) /\ IntVector(M, w) /\ IntVector(1, total)
  <2>1. IntVector(1 + M, total) /\ 1 \in Nat /\ M \in Nat /\ Shifted(1, M, total, w)
    BY <1>1, <1>8, <1>9 DEF Shifted
  <2> QED BY <2>1, SumConcat
<1>12. SumTo(1, total) = total[1]
  <2>1. 1 \in 1..1 /\ 1 - 1 = 0 /\ total[1] \in Int
    BY <1>11 DEF IntVector
  <2>2. SumTo(1, total) = SumTo(0, total) + total[1] /\ SumTo(0, total) = 0
    BY <1>11, <2>1, SumFacts
  <2> QED BY <2>1, <2>2
<1> QED BY <1>1, <1>7, <1>8, <1>10, <1>11, <1>12 DEF M, w

(* What one deviation among the products adds to those on the diagonal.    *)
Deviation(entry, by, k) == IF k = entry THEN by ELSE 0

Lost(n, c, entry, by) ==
  IF entry \in 1..(n * c - 1) /\ Row(entry, c) = Column(entry, c) THEN by ELSE 0

(* The deviations on the diagonal sum to the one there is, if it is there. *)
LEMMA LostFacts ==
  ASSUME NEW n \in Nat \ {0}, NEW c \in Nat, n <= c, NEW entry \in Nat, NEW by \in Int, NEW v,
         \A i \in 1..(n - 1) : v[i] = Deviation(entry, by, Position(i, i, c))
  PROVE  SumTo(n - 1, v) = Lost(n, c, entry, by) /\ IntVector(n - 1, v)
<1> DEFINE M == n - 1
           N == n * c - 1
<1>1. /\ M \in Nat /\ n \in Nat /\ N \in Nat /\ c \in Nat \ {0}
      /\ \A i \in 1..M : Position(i, i, c) \in 1..N
  <2>1. M \in Nat /\ n \in Nat
    OBVIOUS
  <2> QED BY <2>1, Diagonal
<1>2. RowByRow(n, c)
  BY <1>1, PairFacts
<1>3. ASSUME NEW i \in 1..M PROVE Row(Position(i, i, c), c) = i /\ Column(Position(i, i, c), c) = i
  <2> DEFINE a == i + 1
  <2>1. a \in 1..n /\ a \in 1..c /\ a - 1 = i
    BY <1>1
  <2>2. Row(((a - 1) * c + a) - 1, c) = a - 1 /\ Column(((a - 1) * c + a) - 1, c) = a - 1
    BY <1>2, <2>1 DEF RowByRow
  <2>3. ((a - 1) * c + a) - 1 = Position(i, i, c)
    BY <1>1 DEF Position
  <2> HIDE DEF a
  <2> QED BY <2>1, <2>2, <2>3
<1>4. CASE \E i \in 1..M : entry = Position(i, i, c)
  <2>1. PICK i0 \in 1..M : entry = Position(i0, i0, c)
    BY <1>4
  <2>2. entry \in 1..N /\ Row(entry, c) = i0 /\ Column(entry, c) = i0
    BY <1>1, <1>3, <2>1
  <2>3. \A i \in 1..M : v[i] = IF i = i0 THEN by ELSE 0
    <3> SUFFICES ASSUME NEW i \in 1..M PROVE Position(i, i, c) = entry <=> i = i0
      BY DEF Deviation
    <3>1. Position(i, i, c) = entry => i = i0
      BY <1>3, <2>2
    <3> QED BY <2>1, <3>1
  <2>4. SumTo(M, v) = by /\ IntVector(M, v)
    <3> HIDE DEF M
    <3> QED BY <1>1, <2>3, SumSingle
  <2> QED BY <2>2, <2>4 DEF Lost
<1>5. CASE ~ \E i \in 1..M : entry = Position(i, i, c)
  <2>1. \A i \in 1..M : v[i] = 0
    BY <1>5 DEF Deviation
  <2>2. SumTo(M, v) = 0 /\ IntVector(M, v)
    <3> HIDE DEF M
    <3> QED BY <1>1, <2>1, SumZeros
  <2>3. ASSUME entry \in 1..N, Row(entry, c) = Column(entry, c) PROVE FALSE
    <3> DEFINE i == Row(entry, c)
    <3>1. entry \in 0..(n * c - 1)
      BY <2>3
    <3>2. i \in 0..(n - 1) /\ entry = i * c + i
      BY <1>2, <2>3, <3>1 DEF RowByRow
    <3> HIDE DEF i
    <3>3. i # 0
      BY <2>3, <3>2
    <3>4. i \in 1..M /\ entry = Position(i, i, c)
      BY <3>2, <3>3 DEF Position
    <3> QED BY <1>5, <3>4
  <2> QED BY <2>2, <2>3 DEF Lost
<1> QED BY <1>4, <1>5

(* What a deviation makes of the folded product.                           *)
New(n, c, alpha, beta, entry, by) ==
  IF entry \in 1..(n * c - 1) THEN alpha[Row(entry, c) + 1] * beta[Column(entry, c) + 1] * by ELSE 0

(* The products that shareSum returned are right, but for a deviation.     *)
Products1(n, c, zs, G, entry, by) ==
  /\ IntVector(n * c - 1, zs)
  /\ \A k \in 1..(n * c - 1) : Same(LargeRingSize, zs[k], G[k + 1] + Deviation(entry, by, k))

(* So the remaining product is right, but for the defect of z and the      *)
(* deviation, if it is on the diagonal.                                    *)
LEMMA RemainingDefect ==
  ASSUME NEW n \in Nat \ {0}, NEW c \in Nat, n <= c, NEW G, IntVector(n * c, G),
         NEW entry \in Nat, NEW by \in Int, NEW z \in Int, NEW zs, Products1(n, c, zs, G, entry, by),
         NEW df \in Int, IntVector(n - 1, DiagonalParts(n, c, G)),
         Same(LargeRingSize, z, (G[1] + SumTo(n - 1, DiagonalParts(n, c, G))) + df)
  PROVE  /\ Same(LargeRingSize, Remaining(z, zs, n, c), G[1] + (df - Lost(n, c, entry, by)))
         /\ Lost(n, c, entry, by) \in Int /\ G[1] \in Int
<1> DEFINE M == n - 1
           N == n * c - 1
           L == LargeRingSize
           dz == DiagonalOf(n, c, zs)
           dG == DiagonalParts(n, c, G)
           dE == [i \in 1..M |-> Deviation(entry, by, Position(i, i, c))]
           u == [i \in 1..M |-> dG[i] + dE[i]]
           lost == Lost(n, c, entry, by)
<1>1. /\ M \in Nat /\ L \in Nat \ {0} /\ N \in Nat /\ \A i \in 1..M : Position(i, i, c) \in 1..N
  <2>1. M \in Nat OBVIOUS
  <2> QED BY <2>1, Diagonal, Moduli
<1>2. SumTo(M, dE) = lost /\ IntVector(M, dE)
  <2>1. \A i \in 1..M : dE[i] = Deviation(entry, by, Position(i, i, c))
    OBVIOUS
  <2> HIDE DEF dE
  <2> QED BY <2>1, LostFacts
<1>3. SumTo(M, u) = SumTo(M, dG) + SumTo(M, dE) /\ IntVector(M, u)
  <2>1. \A i \in 1..M : u[i] = dG[i] + dE[i]
    OBVIOUS
  <2>2. IntVector(M, dG)
    OBVIOUS
  <2> HIDE DEF u, dG, dE, M
  <2> QED BY <1>1, <1>2, <2>1, <2>2, SumAdd
<1>4. Remaining(z, zs, n, c) = z - SumTo(M, dz) /\ IntVector(M, dz) /\ SumTo(M, dz) \in Int
  <2>1. IntVector(n * c - 1, zs)
    BY DEF Products1
  <2> QED BY <2>1, RemainingFacts
<1>5. \A i \in 1..M : Same(L, dz[i], u[i])
  <2> SUFFICES ASSUME NEW i \in 1..M PROVE Same(L, dz[i], u[i])
    OBVIOUS
  <2> DEFINE k == Position(i, i, c)
  <2>1. k \in 1..(n * c - 1)
    BY <1>1
  <2>2. dz[i] = zs[k] /\ u[i] = G[k + 1] + Deviation(entry, by, k)
    BY DEF DiagonalOf, DiagonalParts
  <2> HIDE DEF k, dz, u
  <2> QED BY <2>1, <2>2 DEF Products1
<1>6. IntVector(M, dG)
  OBVIOUS
<1>7. G[1] \in Int
  <2>1. 1 \in 1..(n * c)
    BY Diagonal
  <2> QED BY <2>1 DEF IntVector
<1>8. Same(L, z, (G[1] + SumTo(M, dG)) + df)
  OBVIOUS
<1> HIDE DEF dz, dG, dE, u, lost, M
<1>9. Same(L, SumTo(M, dz), SumTo(M, u))
  BY <1>1, <1>3, <1>4, <1>5, SumSameMod
<1>10. SumTo(M, dG) \in Int /\ SumTo(M, dE) \in Int /\ SumTo(M, u) \in Int
  BY <1>1, <1>2, <1>3, <1>6, SumInt
<1>11. Same(L, z - SumTo(M, dz), ((G[1] + SumTo(M, dG)) + df) - SumTo(M, u))
  <2> DEFINE q == (G[1] + SumTo(M, dG)) + df
  <2>1. q \in Int /\ Same(L, z, q)
    BY <1>7, <1>8, <1>10
  <2> HIDE DEF q
  <2>2. Same(L, z - SumTo(M, dz), q - SumTo(M, u))
    BY <1>1, <1>4, <1>9, <1>10, <2>1, SameOps
  <2> QED BY <2>2 DEF q
<1>12. ((G[1] + SumTo(M, dG)) + df) - SumTo(M, u) = G[1] + (df - lost)
  BY <1>2, <1>3, <1>7, <1>10
<1> QED BY <1>2, <1>4, <1>7, <1>10, <1>11, <1>12 DEF lost

(* An inner product with one or two elements.                              *)
Single(N, v, i, q)  == \A k \in 1..N : v[k] = IF k = i THEN q ELSE 0
Plus(N, u, v, w)    == \A k \in 1..N : w[k] = u[k] + v[k]
Missing(n, c, alpha, beta, v, q, entry, by) ==
  /\ IntVector(n, alpha) /\ IntVector(c, beta)
  /\ \A k \in 1..(n * c) : v[k] = IF k = 1 THEN q ELSE Deviation(entry, by, k - 1)

(* Only one element counts.                                                *)
LEMMA DotSingle ==
  ASSUME NEW N \in Nat, NEW coef, IntVector(N, coef), NEW i \in 1..N, NEW q \in Int, NEW v, Single(N, v, i, q)
  PROVE  Dot(N, coef, v) = coef[i] * q /\ IntVector(N, v)
<1> DEFINE w == [k \in 1..N |-> coef[k] * v[k]]
           r == coef[i] * q
<1>1. coef[i] \in Int /\ \A k \in 1..N : coef[k] \in Int
  BY DEF IntVector
<1>2. r \in Int /\ \A k \in 1..N : w[k] = IF k = i THEN r ELSE 0
  BY <1>1 DEF Single
<1>3. Dot(N, coef, v) = SumTo(N, w)
  BY DEF Dot
<1> HIDE DEF w, r
<1>4. SumTo(N, w) = r
  BY <1>2, SumSingle
<1>5. IntVector(N, v)
  BY DEF IntVector, Single
<1> QED BY <1>3, <1>4, <1>5 DEF r

(* The inner product with a sum of two vectors.                            *)
LEMMA DotAdd ==
  ASSUME NEW N \in Nat, NEW coef, IntVector(N, coef), NEW u, NEW v, NEW w,
         IntVector(N, u), IntVector(N, v), Plus(N, u, v, w)
  PROVE  /\ Dot(N, coef, w) = Dot(N, coef, u) + Dot(N, coef, v) /\ IntVector(N, w)
         /\ Dot(N, coef, u) \in Int /\ Dot(N, coef, v) \in Int
<1> DEFINE a == [k \in 1..N |-> coef[k] * u[k]]
           b == [k \in 1..N |-> coef[k] * v[k]]
           s == [k \in 1..N |-> coef[k] * w[k]]
<1>1. \A k \in 1..N : coef[k] \in Int /\ u[k] \in Int /\ v[k] \in Int /\ w[k] \in Int
  BY DEF IntVector, Plus
<1>2. IntVector(N, a) /\ IntVector(N, b)
  BY <1>1 DEF IntVector
<1>3. ASSUME NEW k \in 1..N PROVE s[k] = a[k] + b[k]
  <2>1. w[k] = u[k] + v[k]
    BY DEF Plus
  <2>2. coef[k] * (u[k] + v[k]) = coef[k] * u[k] + coef[k] * v[k]
    BY <1>1
  <2> QED BY <2>1, <2>2
<1>4. Dot(N, coef, w) = SumTo(N, s) /\ Dot(N, coef, u) = SumTo(N, a) /\ Dot(N, coef, v) = SumTo(N, b)
  BY DEF Dot
<1> HIDE DEF a, b, s
<1>5. SumTo(N, s) = SumTo(N, a) + SumTo(N, b)
  BY <1>2, <1>3, SumAdd
<1>6. SumTo(N, a) \in Int /\ SumTo(N, b) \in Int
  BY <1>2, SumInt
<1>7. IntVector(N, w)
  BY <1>1 DEF IntVector
<1> QED BY <1>4, <1>5, <1>6, <1>7

(* Only the missing product and the deviating one count.                   *)
LEMMA DotDeviation ==
  ASSUME NEW n \in Nat \ {0}, NEW c \in Nat, n <= c, NEW alpha, NEW beta,
         NEW entry \in Nat, NEW by \in Int, NEW df \in Int, NEW E, Missing(n, c, alpha, beta, E, df, entry, by)
  PROVE  /\ Dot(n * c, Coefs(n, c, alpha, beta), E) = alpha[1] * beta[1] * df + New(n, c, alpha, beta, entry, by)
         /\ IntVector(n * c, E) /\ IntVector(n * c, Coefs(n, c, alpha, beta))
         /\ alpha[1] * beta[1] * df \in Int /\ New(n, c, alpha, beta, entry, by) \in Int
<1> DEFINE N == n * c
           coef == Coefs(n, c, alpha, beta)
           E1 == [k \in 1..N |-> IF k = 1 THEN df ELSE 0]
           E2 == [k \in 1..N |-> IF k = entry + 1 /\ k # 1 THEN by ELSE 0]
<1>0. IntVector(n, alpha) /\ IntVector(c, beta)
      /\ \A k \in 1..N : E[k] = IF k = 1 THEN df ELSE Deviation(entry, by, k - 1)
  BY DEF Missing
<1>1. N \in Nat /\ N >= 1 /\ c \in Nat \ {0} /\ n \in Nat
  BY Diagonal
<1>2. IntVector(N, coef)
  <2>1. Pairs(n, c, alpha, beta, coef)
    BY DEF Pairs, Coefs
  <2> HIDE DEF coef
  <2> QED BY <1>0, <1>1, <2>1, PairsInt
<1>3. Dot(N, coef, E1) = coef[1] * df /\ IntVector(N, E1)
  <2>1. 1 \in 1..N /\ Single(N, E1, 1, df)
    BY <1>1 DEF Single
  <2> HIDE DEF coef, E1, N
  <2> QED BY <1>1, <1>2, <2>1, DotSingle
<1>4. RowByRow(n, c)
  BY <1>1, PairFacts
<1>5. coef[1] = alpha[1] * beta[1] /\ alpha[1] \in Int /\ beta[1] \in Int
  <2>0. 1 \in 1..n /\ 1 \in 1..c /\ (1 - 1) * c + 1 = 1
    BY <1>1
  <2>1. Row(1 - 1, c) = 1 - 1 /\ Column(1 - 1, c) = 1 - 1
    BY <1>4, <2>0 DEF RowByRow
  <2>2. 1 \in 1..N /\ (1 - 1) + 1 = 1
    BY <1>1
  <2>3. coef[1] = alpha[1] * beta[1]
    BY <2>1, <2>2 DEF Coefs
  <2> QED BY <1>0, <2>0, <2>3 DEF IntVector
<1>6. Dot(N, coef, E2) = New(n, c, alpha, beta, entry, by) /\ IntVector(N, E2)
      /\ New(n, c, alpha, beta, entry, by) \in Int
  <2>1. CASE entry \in 1..(N - 1)
    <3> DEFINE i == entry + 1
    <3>1. i \in 1..N /\ i # 1 /\ i - 1 = entry /\ Single(N, E2, i, by)
      BY <2>1, <1>1 DEF Single
    <3>2. coef[i] = alpha[Row(entry, c) + 1] * beta[Column(entry, c) + 1] /\ coef[i] \in Int
      BY <1>2, <3>1 DEF Coefs, IntVector
    <3> HIDE DEF i, E2, coef, N
    <3>3. Dot(N, coef, E2) = coef[i] * by /\ IntVector(N, E2)
      BY <1>1, <1>2, <3>1, DotSingle
    <3>4. New(n, c, alpha, beta, entry, by) = coef[i] * by
      BY <2>1, <3>2 DEF New, N
    <3> QED BY <3>2, <3>3, <3>4
  <2>2. CASE entry \notin 1..(N - 1)
    <3>1. \A k \in 1..N : E2[k] = 0
      BY <2>2, <1>1
    <3>2. New(n, c, alpha, beta, entry, by) = 0
      BY <2>2 DEF New
    <3>3. Single(N, E2, 1, 0)
      BY <3>1 DEF Single
    <3> HIDE DEF E2, coef, N
    <3>4. 1 \in 1..N /\ 0 \in Int
      BY <1>1
    <3>5. Dot(N, coef, E2) = coef[1] * 0 /\ IntVector(N, E2)
      BY <1>1, <1>2, <3>3, <3>4, DotSingle
    <3>6. coef[1] * 0 = 0
      BY <1>5
    <3> QED BY <3>2, <3>5, <3>6
  <2> QED BY <2>1, <2>2
<1>7. Plus(N, E1, E2, E)
  BY <1>0, <1>1 DEF Deviation, Plus
<1> HIDE DEF coef, E1, E2, N
<1>8. Dot(N, coef, E) = Dot(N, coef, E1) + Dot(N, coef, E2) /\ IntVector(N, E)
  BY <1>1, <1>2, <1>3, <1>6, <1>7, DotAdd
<1>9. alpha[1] * beta[1] * df \in Int /\ coef[1] * df = alpha[1] * beta[1] * df
  BY <1>5
<1> QED BY <1>2, <1>3, <1>6, <1>8, <1>9 DEF coef, N

(* The fold of products that are right, but for a deviation and an earlier *)
(* defect of z, is the product of the folded vectors, but for what becomes *)
(* of these.                                                               *)
LEMMA FoldDefect ==
  ASSUME NEW n \in Nat \ {0}, NEW c \in Nat, n <= c, NEW d \in Nat \ {0}, NEW X, NEW Y, NEW G,
         IntVector(n * d, X), IntVector(c * d, Y), Parted(n, c, d, X, Y, G),
         NEW alpha, NEW beta, Len(alpha) = n, Len(beta) = c, IntVector(n, alpha), IntVector(c, beta),
         NEW X1, NEW Y1, Folded(n, d, alpha, X, X1), Folded(c, d, beta, Y, Y1),
         NEW entry \in Nat, NEW by \in Int, NEW z \in Int, NEW zs, Products1(n, c, zs, G, entry, by),
         NEW df \in Int, Same(LargeRingSize, z, Dot(n * d, X, Y) + df)
  PROVE  /\ Same(LargeRingSize, FoldZ(z, zs, alpha, beta),
                 Dot(d, X1, Y1) + (alpha[1] * beta[1] * (df - Lost(n, c, entry, by))
                                     + New(n, c, alpha, beta, entry, by)))
         /\ alpha[1] * beta[1] * (df - Lost(n, c, entry, by)) \in Int
         /\ New(n, c, alpha, beta, entry, by) \in Int
<1> DEFINE N == n * c
           L == LargeRingSize
           coef == Coefs(n, c, alpha, beta)
           rest == df - Lost(n, c, entry, by)
           E == [k \in 1..N |-> IF k = 1 THEN rest ELSE Deviation(entry, by, k - 1)]
           ext == [k \in 1..N |-> IF k = 1 THEN Remaining(z, zs, n, c) ELSE zs[k - 1]]
           GE == [k \in 1..N |-> G[k] + E[k]]
<1>1. N \in Nat /\ N >= 1 /\ L \in Nat \ {0} /\ c \in Nat \ {0} /\ N - 1 \in Nat
  BY Diagonal, Moduli
<1>2. /\ Dot(d, X1, Y1) = Dot(N, coef, G) /\ IntVector(N, coef) /\ IntVector(N, G)
  <2>1. Pairs(n, c, alpha, beta, coef)
    BY DEF Pairs, Coefs
  <2> HIDE DEF coef
  <2> QED BY <1>1, <2>1, FoldProduct
<1>3. /\ Dot(n * d, X, Y) = G[1] + SumTo(n - 1, DiagonalParts(n, c, G))
      /\ IntVector(n - 1, DiagonalParts(n, c, G))
  BY <1>2, PartsDiagonal
<1>4. Same(L, Remaining(z, zs, n, c), G[1] + rest) /\ rest \in Int /\ G[1] \in Int
  <2>1. Same(L, z, (G[1] + SumTo(n - 1, DiagonalParts(n, c, G))) + df)
    BY <1>3
  <2>2. IntVector(n * c, G)
    BY <1>2
  <2> QED BY <1>3, <2>1, <2>2, RemainingDefect
<1>5. IntVector(N - 1, zs) /\ \A k \in 1..(N - 1) : Same(L, zs[k], G[k + 1] + Deviation(entry, by, k))
  BY DEF Products1
<1>6. Extended(n, c, z, zs, ext)
  <2>1. 1 \in 1..N /\ \A k \in 1..(N - 1) : k + 1 \in 1..N /\ k + 1 # 1 /\ (k + 1) - 1 = k
    BY <1>1
  <2> QED BY <2>1 DEF Extended
<1>7. FoldZ(z, zs, alpha, beta) = LargeRing(Dot(N, coef, ext)) /\ Dot(N, coef, ext) \in Int /\ IntVector(N, ext)
  <2> HIDE DEF ext
  <2>1. IntVector(n * c, ext)
    BY <1>5, <1>6, ExtendedInt
  <2>2. FoldZ(z, zs, alpha, beta) = LargeRing(Dot(n * c, coef, ext)) /\ Dot(n * c, coef, ext) \in Int
    BY <1>5, <1>6, FoldZFacts
  <2> QED BY <2>1, <2>2
<1>8. ASSUME NEW k \in 1..N PROVE Same(L, ext[k], GE[k])
  <2>1. CASE k = 1
    BY <1>4, <2>1
  <2>2. CASE k # 1
    <3> DEFINE j == k - 1
    <3>1. j \in 1..(N - 1) /\ k = j + 1
      BY <1>1, <2>2
    <3>2. ext[k] = zs[j] /\ GE[k] = G[k] + Deviation(entry, by, j)
      BY <2>2
    <3> HIDE DEF j, ext, GE
    <3> QED BY <1>5, <3>1, <3>2
  <2> QED BY <2>1, <2>2
<1>9. /\ Dot(N, coef, E) = alpha[1] * beta[1] * rest + New(n, c, alpha, beta, entry, by)
      /\ IntVector(N, E)
      /\ alpha[1] * beta[1] * rest \in Int /\ New(n, c, alpha, beta, entry, by) \in Int
  <2>1. Missing(n, c, alpha, beta, E, rest, entry, by)
    BY DEF Missing
  <2> HIDE DEF E, rest, coef, ext, GE, L, N
  <2>2. rest \in Int
    BY <1>4
  <2>3. Dot(n * c, Coefs(n, c, alpha, beta), E) = alpha[1] * beta[1] * rest + New(n, c, alpha, beta, entry, by)
    BY <2>1, <2>2, DotDeviation
  <2>4. IntVector(n * c, E)
    BY <2>1, <2>2, DotDeviation
  <2>5. alpha[1] * beta[1] * rest \in Int
    BY <2>1, <2>2, DotDeviation
  <2>6. New(n, c, alpha, beta, entry, by) \in Int
    BY <2>1, <2>2, DotDeviation
  <2> QED BY <2>3, <2>4, <2>5, <2>6 DEF coef, N
<1>10. Plus(N, G, E, GE)
  BY DEF Plus
<1> HIDE DEF E, ext, GE, coef, N
<1>11. Dot(N, coef, GE) = Dot(N, coef, G) + Dot(N, coef, E) /\ IntVector(N, GE)
  BY <1>1, <1>2, <1>9, <1>10, DotAdd
<1>12. Same(L, Dot(N, coef, ext), Dot(N, coef, GE))
  BY <1>1, <1>2, <1>7, <1>8, <1>11, DotSame
<1>13. Same(L, FoldZ(z, zs, alpha, beta), Dot(N, coef, ext))
  BY <1>7, LargeRingFacts
<1> QED BY <1>2, <1>9, <1>11, <1>12, <1>13, SameTrans

-----------------------------------------------------------------------------
(* Recursion along the wires: a rule that looks at smaller numbers only    *)
(* has a solution.                                                         *)
Local(N, X, G) ==
  \A w \in 1..N : \A f, g \in [1..N -> X] :
    (\A v \in 1..(w - 1) : f[v] = g[v]) => G[<<w, f>>] = G[<<w, g>>]

Obeys(N, f, G) == \A w \in 1..N : f[w] = G[<<w, f>>]

(* Such a rule has a solution: the iteration that fills in wire by wire.   *)
LEMMA Recursion ==
  ASSUME NEW N \in Nat, NEW X, NEW d \in X, NEW G \in [(1..N) \X [1..N -> X] -> X], Local(N, X, G)
  PROVE  \E f \in [1..N -> X] : Obeys(N, f, G)
<1> DEFINE Y == [1..N -> X]
           H == [z \in (1..N) \X Y |->
                   [w \in 1..N |-> IF w = z[1] THEN G[<<w, z[2]>>] ELSE z[2][w]]]
<1>0. \A w \in 1..N : \A f \in Y : G[<<w, f>>] \in X
  OBVIOUS
<1>1. H \in [(1..N) \X Y -> Y]
  <2> SUFFICES ASSUME NEW k \in 1..N, NEW f \in Y
               PROVE  [w \in 1..N |-> IF w = k THEN G[<<w, f>>] ELSE f[w]] \in Y
    OBVIOUS
  <2>1. \A w \in 1..N : (IF w = k THEN G[<<w, f>>] ELSE f[w]) \in X
    BY <1>0
  <2> QED BY <2>1
<1> DEFINE f0 == [w \in 1..N |-> d]
<1>2. PICK s : Iterates(s, Y, f0, N, H)
  <2>1. f0 \in Y /\ N \in Nat
    OBVIOUS
  <2> HIDE DEF H, Y, f0
  <2> QED BY <1>1, <2>1, Iteration
<1>3. s \in [0..N -> Y] /\ \A k \in 1..N : s[k] = H[<<k, s[k - 1]>>]
  <2> HIDE DEF H, Y, f0
  <2> QED BY <1>2 DEF Iterates
<1>4. ASSUME NEW k \in 1..N, NEW w \in 1..N
      PROVE  s[k][w] = IF w = k THEN G[<<w, s[k - 1]>>] ELSE s[k - 1][w]
  <2>1. s[k - 1] \in Y
    <3>1. k - 1 \in 0..N
      OBVIOUS
    <3> QED BY <1>3, <3>1
  <2>2. s[k] = H[<<k, s[k - 1]>>]
    BY <1>3
  <2>3. \A f \in Y : H[<<k, f>>] = [v \in 1..N |-> IF v = k THEN G[<<v, f>>] ELSE f[v]]
    OBVIOUS
  <2>4. s[k] = [v \in 1..N |-> IF v = k THEN G[<<v, s[k - 1]>>] ELSE s[k - 1][v]]
    <3> HIDE DEF H
    <3> QED BY <2>1, <2>2, <2>3
  <2> QED BY <2>4
<1> HIDE DEF H
<1> DEFINE Done(n) == \A j \in 1..n : s[n][j] = G[<<j, s[n]>>]
           S == {n \in Nat : n <= N => Done(n)}
<1>5. 0 \in S
  OBVIOUS
<1>6. ASSUME NEW n \in Nat, n \in S PROVE n + 1 \in S
  <2> SUFFICES ASSUME n + 1 <= N PROVE Done(n + 1)
    <3> HIDE DEF Done
    <3> QED OBVIOUS
  <2> SUFFICES ASSUME NEW j \in 1..(n + 1) PROVE s[n + 1][j] = G[<<j, s[n + 1]>>]
    OBVIOUS
  <2>1. n + 1 \in 1..N /\ (n + 1) - 1 = n /\ j \in 1..N /\ n \in 0..N /\ n + 1 \in 0..N
    OBVIOUS
  <2>2. s[n] \in Y /\ s[n + 1] \in Y
    BY <1>3, <2>1
  <2>3. ASSUME NEW v \in 1..(j - 1) PROVE s[n][v] = s[n + 1][v]
    <3>1. v \in 1..N /\ v # n + 1
      BY <2>1
    <3>2. s[n + 1][v] = s[(n + 1) - 1][v]
      BY <1>4, <2>1, <3>1
    <3> QED BY <2>1, <3>2
  <2>4. G[<<j, s[n]>>] = G[<<j, s[n + 1]>>]
    BY <2>1, <2>2, <2>3 DEF Local
  <2>5. CASE j = n + 1
    BY <1>4, <2>1, <2>2, <2>4, <2>5
  <2>6. CASE j # n + 1
    <3>1. j \in 1..n /\ n <= N
      BY <2>1, <2>6
    <3>2. s[n][j] = G[<<j, s[n]>>]
      BY <1>6, <3>1
    <3>4. s[n + 1][j] = s[(n + 1) - 1][j]
      BY <1>4, <2>1, <2>2, <2>6
    <3> QED BY <2>1, <2>4, <3>2, <3>4
  <2> QED BY <2>5, <2>6
<1>7. Nat \subseteq S
  <2> HIDE DEF S
  <2> QED BY <1>5, <1>6, SetInduction
<1>8. Done(N) /\ s[N] \in Y
  <2>1. N \in 0..N
    OBVIOUS
  <2>2. N \in S
    <3> HIDE DEF S
    <3> QED BY <1>7
  <2> HIDE DEF Done, Y
  <2> QED BY <1>3, <2>1, <2>2
<1> QED BY <1>8 DEF Obeys

-----------------------------------------------------------------------------
(* The choices and the counters.                                           *)
Base ==
  /\ gates \in Circuits /\ C \in Compressions /\ seed \in Seeds /\ cheat \in Cheats /\ bend \in Bends
  /\ pos \in Nat /\ nsum \in Nat

(* The choices are among those that are assumed.                           *)
LEMMA BaseFacts ==
  ASSUME Base
  PROVE  /\ Len(gates) \in Nat /\ Wires = 1..Len(gates) /\ C \in Nat /\ C >= 2
         /\ cheat.gate \in Nat /\ cheat.by \in Int
         /\ bend.sum \in Nat /\ bend.entry \in Nat /\ bend.by \in Int
         /\ pos \in Nat /\ nsum \in Nat
BY CircuitsAssumption, ZkProofAssumption, DeviationsAssumption DEF Base, Wires

(* Every draw from a stream is a natural number.                           *)
LEMMA DrawFacts ==
  ASSUME Base, NEW i \in Procs, NEW k \in Int
  PROVE  Draw(i, k) \in Nat /\ Draw(i, k) \in Int
<1> DEFINE s == Streams[seed][i]
<1>1. s \in Seq(Nat) /\ s # << >>
  BY StreamsAssumption DEF Base
<1> HIDE DEF s
<1>2. Len(s) \in Nat /\ Len(s) # 0
  BY <1>1
<1>3. (k % Len(s)) + 1 \in 1..Len(s)
  BY <1>2
<1>4. s[(k % Len(s)) + 1] \in Nat
  BY <1>1, <1>3
<1> QED BY <1>4 DEF Draw, s

(* What is known of a sequence over a set.                                 *)
LEMMA Elements ==
  ASSUME NEW S, NEW s \in Seq(S)
  PROVE  Len(s) \in Nat /\ DOMAIN s = 1..Len(s) /\ \A j \in 1..Len(s) : s[j] \in S
OBVIOUS

(* What is assumed of a gate; its inputs are before it.                    *)
LEMMA GateFacts ==
  ASSUME Base, NEW w \in Wires
  PROVE  /\ Type(w) \in {"kInp", "kAdd", "kConstMul", "kMul", "kDotprod"}
         /\ Len(gates[w].in1) \in Nat /\ gates[w].cval \in Int
         /\ \A j \in 1..Len(gates[w].in1) : gates[w].in1[j] \in 1..(w - 1) /\ gates[w].in1[j] \in Wires
         /\ IsMult(w) => \A j \in 1..Len(gates[w].in1) : /\ gates[w].in2[j] \in 1..(w - 1)
                                                         /\ gates[w].in2[j] \in Wires
         /\ Type(w) \in {"kAdd", "kConstMul"} => /\ gates[w].in1[1] \in 1..(w - 1)
                                                 /\ gates[w].in1[1] \in Wires
         /\ Type(w) = "kAdd" => gates[w].in2[1] \in 1..(w - 1) /\ gates[w].in2[1] \in Wires
         /\ Type(w) = "kInp" => gates[w].owner \in Parties
<1> DEFINE g == gates[w]
           u == g.in1
           v == g.in2
<1>0. w \in 1..Len(gates) /\ Len(gates) \in Nat
  BY BaseFacts
<1>1. /\ g.type \in {"kInp", "kAdd", "kConstMul", "kMul", "kDotprod"}
      /\ u \in Seq(1..(w - 1)) /\ v \in Seq(1..(w - 1)) /\ g.cval \in Int
      /\ g.type \in {"kAdd", "kConstMul"} => Len(u) = 1
      /\ g.type \in {"kAdd", "kMul", "kDotprod"} => Len(v) = Len(u)
      /\ g.type = "kInp" => g.owner \in Parties
  BY <1>0, CircuitsAssumption DEF Base
<1>2. \A a \in 1..(w - 1) : a \in Wires
  BY <1>0 DEF Wires
<1>3. Type(w) = g.type /\ (IsMult(w) <=> g.type \in {"kMul", "kDotprod"})
  BY DEF Type, IsMult
<1> HIDE DEF u, v
<1>4. Len(u) \in Nat /\ \A j \in 1..Len(u) : u[j] \in 1..(w - 1)
  <2> DEFINE T == 1..(w - 1)
  <2>1. u \in Seq(T)
    BY <1>1
  <2> HIDE DEF T
  <2>2. Len(u) \in Nat /\ \A j \in 1..Len(u) : u[j] \in T
    BY <2>1, Elements
  <2> QED BY <2>2 DEF T
<1>5. Len(v) \in Nat /\ \A j \in 1..Len(v) : v[j] \in 1..(w - 1)
  <2> DEFINE T == 1..(w - 1)
  <2>1. v \in Seq(T)
    BY <1>1
  <2> HIDE DEF T
  <2>2. Len(v) \in Nat /\ \A j \in 1..Len(v) : v[j] \in T
    BY <2>1, Elements
  <2> QED BY <2>2 DEF T
<1>6. g.type \in {"kAdd", "kConstMul"} => u[1] \in 1..(w - 1)
  BY <1>1, <1>4
<1>7. g.type = "kAdd" => v[1] \in 1..(w - 1)
  BY <1>1, <1>5
<1>8. IsMult(w) => \A j \in 1..Len(u) : v[j] \in 1..(w - 1)
  BY <1>1, <1>3, <1>5
<1> QED BY <1>1, <1>2, <1>3, <1>4, <1>6, <1>7, <1>8 DEF u, v

(* The multiplications up to wire k, each once.                            *)
Picked(k, s) ==
  /\ s \in Seq(Nat)
  /\ \A i \in 1..Len(s) : s[i] \in 1..k /\ IsMult(s[i])
  /\ \A w \in 1..k : IsMult(w) => \E i \in 1..Len(s) : s[i] = w
  /\ \A i, j \in 1..Len(s) : s[i] = s[j] => i = j

(* One more wire is looked at.                                             *)
LEMMA PickedNext ==
  ASSUME NEW k \in Nat, NEW s, Picked(k, s)
  PROVE  Picked(k + 1, IF IsMult(k + 1) THEN Append(s, k + 1) ELSE s)
<1>1. /\ s \in Seq(Nat) /\ Len(s) \in Nat
      /\ \A i \in 1..Len(s) : s[i] \in 1..k /\ IsMult(s[i]) /\ s[i] \in 1..(k + 1) /\ s[i] # k + 1
      /\ \A w \in 1..k : IsMult(w) => \E i \in 1..Len(s) : s[i] = w
      /\ \A i, j \in 1..Len(s) : s[i] = s[j] => i = j
  BY DEF Picked
<1>2. \A w \in 1..(k + 1) : w = k + 1 \/ w \in 1..k
  OBVIOUS
<1>3. CASE ~IsMult(k + 1)
  BY <1>1, <1>2, <1>3 DEF Picked
<1>4. CASE IsMult(k + 1)
  <2> DEFINE t == Append(s, k + 1)
             n == Len(s)
  <2>1. t \in Seq(Nat) /\ Len(t) = n + 1 /\ t[n + 1] = k + 1 /\ \A i \in 1..n : t[i] = s[i]
    BY <1>1
  <2> HIDE DEF t
  <2>2. \A i \in 1..(n + 1) : i = n + 1 \/ i \in 1..n
    BY <1>1
  <2>3. n + 1 \in 1..(n + 1) /\ \A i \in 1..n : i \in 1..(n + 1)
    BY <1>1
  <2> HIDE DEF n
  <2>4. \A i \in 1..(n + 1) : t[i] \in 1..(k + 1) /\ IsMult(t[i])
    <3> SUFFICES ASSUME NEW i \in 1..(n + 1) PROVE t[i] \in 1..(k + 1) /\ IsMult(t[i])
      OBVIOUS
    <3>1. CASE i = n + 1
      <4>1. k + 1 \in 1..(k + 1)
        OBVIOUS
      <4> QED BY <1>4, <2>1, <3>1, <4>1
    <3>2. CASE i \in 1..n
      BY <1>1, <2>1, <3>2 DEF n
    <3> QED BY <2>2, <3>1, <3>2
  <2>5. \A w \in 1..(k + 1) : IsMult(w) => \E i \in 1..(n + 1) : t[i] = w
    BY <1>1, <1>2, <2>1, <2>3 DEF n
  <2>6. \A i, j \in 1..(n + 1) : t[i] = t[j] => i = j
    BY <1>1, <2>1, <2>2 DEF n
  <2> QED BY <1>4, <2>1, <2>4, <2>5, <2>6 DEF Picked, t
<1> QED BY <1>3, <1>4

(* MultOrder lists all multiplications, each once; there is one.           *)
LEMMA OrderFacts ==
  ASSUME Base
  PROVE  /\ NumMults \in Nat \ {0} /\ Mults = 1..NumMults
         /\ \A i \in Mults : Out(i) \in Wires /\ IsMult(Out(i))
         /\ \A w \in Wires : IsMult(w) => \E i \in Mults : Out(i) = w
         /\ \A i, j \in Mults : Out(i) = Out(j) => i = j
<1> DEFINE n == Len(gates)
           X == Seq(Nat)
           F(p) == [w \in 0..n |-> IF w = 0 THEN << >>
                                   ELSE IF IsMult(w) THEN Append(p[w - 1], w) ELSE p[w - 1]]
           pick == CHOOSE p : p = F(p)
           G == [z \in (1..n) \X X |-> IF IsMult(z[1]) THEN Append(z[2], z[1]) ELSE z[2]]
<1>1. n \in Nat /\ Wires = 1..n
  BY BaseFacts
<1>2. G \in [(1..n) \X X -> X]
  <2> SUFFICES ASSUME NEW k \in 1..n, NEW s \in X PROVE (IF IsMult(k) THEN Append(s, k) ELSE s) \in X
    OBVIOUS
  <2>1. k \in Nat /\ Append(s, k) \in X
    BY <1>1
  <2> QED BY <2>1
<1>3. PICK s : Iterates(s, X, << >>, n, G)
  <2>1. << >> \in X
    OBVIOUS
  <2> HIDE DEF G, X
  <2> QED BY <1>1, <1>2, <2>1, Iteration
<1>4. s \in [0..n -> X] /\ s[0] = << >> /\ \A k \in 1..n : s[k] = G[<<k, s[k - 1]>>]
  <2> HIDE DEF G, X
  <2> QED BY <1>3 DEF Iterates
<1>5. \A k \in 1..n : s[k] = IF IsMult(k) THEN Append(s[k - 1], k) ELSE s[k - 1]
  <2> SUFFICES ASSUME NEW k \in 1..n PROVE s[k] = IF IsMult(k) THEN Append(s[k - 1], k) ELSE s[k - 1]
    OBVIOUS
  <2>1. k - 1 \in 0..n
    BY <1>1
  <2>2. s[k - 1] \in X
    BY <1>4, <2>1
  <2>3. \A t \in X : G[<<k, t>>] = IF IsMult(k) THEN Append(t, k) ELSE t
    OBVIOUS
  <2> HIDE DEF G, X
  <2> QED BY <1>4, <2>2, <2>3
<1>6. s = F(s)
  <2>1. \A w \in 0..n : s[w] = IF w = 0 THEN << >>
                               ELSE IF IsMult(w) THEN Append(s[w - 1], w) ELSE s[w - 1]
    <3>1. \A w \in 0..n : w # 0 => w \in 1..n
      BY <1>1
    <3> HIDE DEF n
    <3> QED BY <1>4, <1>5, <3>1
  <2>2. s = [w \in 0..n |-> s[w]]
    BY <1>4
  <2> HIDE DEF n
  <2> QED BY <2>1, <2>2
<1>7. pick = F(pick)
  <2> HIDE DEF F
  <2> QED BY <1>6
<1>8. MultOrder = pick[n]
  BY DEF MultOrder
<1>9. pick[0] = << >> /\ \A w \in 1..n : pick[w] = IF IsMult(w) THEN Append(pick[w - 1], w) ELSE pick[w - 1]
  <2> HIDE DEF pick, n
  <2>1. 0 \in 0..n /\ \A w \in 1..n : w \in 0..n /\ w # 0
    BY <1>1
  <2> QED BY <1>7, <2>1
<1> HIDE DEF pick, F, G
<1> DEFINE S == {k \in Nat : k <= n => Picked(k, pick[k])}
<1>10. 0 \in S
  <2>1. Picked(0, << >>)
    BY DEF Picked
  <2> QED BY <1>9, <2>1
<1>11. ASSUME NEW k \in Nat, k \in S PROVE k + 1 \in S
  <2> SUFFICES ASSUME k + 1 <= n PROVE Picked(k + 1, pick[k + 1])
    OBVIOUS
  <2>1. k + 1 \in 1..n /\ (k + 1) - 1 = k /\ k <= n
    BY <1>1
  <2>2. Picked(k, pick[k]) /\ pick[k + 1] = IF IsMult(k + 1) THEN Append(pick[k], k + 1) ELSE pick[k]
    BY <1>9, <1>11, <2>1
  <2> QED BY <2>2, PickedNext
<1>12. Picked(n, MultOrder)
  <2> HIDE DEF S
  <2>1. Nat \subseteq S
    BY <1>10, <1>11, SetInduction
  <2>2. n \in S
    BY <1>1, <2>1
  <2> QED BY <1>1, <1>8, <2>2 DEF S
<1>13. NumMults \in Nat /\ NumMults = Len(MultOrder)
  BY <1>12 DEF Picked, NumMults
<1>14. \E w \in 1..n : IsMult(w)
  BY CircuitsAssumption DEF Base, IsMult, Type
<1>15. /\ \A i \in 1..NumMults : MultOrder[i] \in 1..n /\ IsMult(MultOrder[i])
       /\ \A w \in 1..n : IsMult(w) => \E i \in 1..NumMults : MultOrder[i] = w
       /\ \A i, j \in 1..NumMults : MultOrder[i] = MultOrder[j] => i = j
  <2> HIDE DEF n
  <2> QED BY <1>12, <1>13 DEF Picked
<1>16. NumMults # 0
  BY <1>13, <1>14, <1>15
<1> QED BY <1>1, <1>13, <1>15, <1>16 DEF Mults, Out

(* Index is the inverse of Out.                                            *)
LEMMA IndexFacts ==
  ASSUME Base, NEW i \in Mults
  PROVE  Index(Out(i)) = i
<1>1. i \in Mults /\ Out(i) = Out(i) /\ \A j \in Mults : Out(j) = Out(i) => j = i
  BY OrderFacts
<1> QED BY <1>1 DEF Index

(* What every multiplication reads.                                        *)
LEMMA FactorWires ==
  ASSUME Base, NEW i \in Mults
  PROVE  /\ Out(i) \in Wires /\ Dim(i) \in Nat /\ Size(i) \in Nat /\ Size(i) = 2 * Dim(i) + 1
         /\ \A j \in 1..Dim(i) : /\ In1(i, j) \in Wires /\ In1(i, j) \in 1..(Out(i) - 1)
                                 /\ In2(i, j) \in Wires /\ In2(i, j) \in 1..(Out(i) - 1)
<1>1. Out(i) \in Wires /\ IsMult(Out(i))
  BY OrderFacts
<1> DEFINE w == Out(i)
<1>2. w \in Wires /\ IsMult(w) /\ Dim(i) = Len(gates[w].in1) /\ Size(i) = 2 * Dim(i) + 1
      /\ \A j : In1(i, j) = gates[w].in1[j] /\ In2(i, j) = gates[w].in2[j]
  BY <1>1 DEF Dim, Size, In1, In2
<1> HIDE DEF w
<1>3. /\ Len(gates[w].in1) \in Nat
      /\ \A j \in 1..Len(gates[w].in1) : gates[w].in1[j] \in 1..(w - 1) /\ gates[w].in1[j] \in Wires
      /\ \A j \in 1..Len(gates[w].in1) : gates[w].in2[j] \in 1..(w - 1) /\ gates[w].in2[j] \in Wires
  BY <1>2, GateFacts
<1> QED BY <1>2, <1>3 DEF w

-----------------------------------------------------------------------------
(* Masks: what AlongGates computes.                                        *)
LinearRule(own, f, w) ==
  CASE Type(w) = "kAdd"      -> Ring(f[gates[w].in1[1]] + f[gates[w].in2[1]])
    [] Type(w) = "kConstMul" -> Ring(f[gates[w].in1[1]] * gates[w].cval)
    [] OTHER                 -> own[w]

(* The rule reads smaller wires only.                                      *)
LEMMA LinearRuleFacts ==
  ASSUME Base, NEW own, \A w \in Wires : own[w] \in Int, NEW w \in Wires
  PROVE  /\ \A f : (\A v \in 1..(w - 1) : f[v] \in Int) => LinearRule(own, f, w) \in Int
         /\ \A f, g : (\A v \in 1..(w - 1) : f[v] = g[v]) => LinearRule(own, f, w) = LinearRule(own, g, w)
<1>1. CASE Type(w) = "kAdd"
  <2>1. gates[w].in1[1] \in 1..(w - 1) /\ gates[w].in2[1] \in 1..(w - 1)
    BY <1>1, GateFacts
  <2>2. \A f : LinearRule(own, f, w) = Ring(f[gates[w].in1[1]] + f[gates[w].in2[1]])
    BY <1>1 DEF LinearRule
  <2> QED BY <2>1, <2>2, RingFacts
<1>2. CASE Type(w) = "kConstMul"
  <2>1. gates[w].in1[1] \in 1..(w - 1) /\ gates[w].cval \in Int
    BY <1>2, GateFacts
  <2>2. \A f : LinearRule(own, f, w) = Ring(f[gates[w].in1[1]] * gates[w].cval)
    BY <1>2 DEF LinearRule
  <2> QED BY <2>1, <2>2, RingFacts
<1>3. CASE Type(w) \notin {"kAdd", "kConstMul"}
  <2>1. \A f : LinearRule(own, f, w) = own[w]
    BY <1>3 DEF LinearRule
  <2> QED BY <2>1
<1> QED BY <1>1, <1>2, <1>3

(* A function of itself on smaller numbers only, if it exists, has integer *)
(* values when the rule yields some.                                       *)
LEMMA AlongFacts ==
  ASSUME Base, NEW own, \A w \in Wires : own[w] \in Int
  PROVE  \A w \in Wires : /\ AlongGates(own)[w] \in Int
                          /\ AlongGates(own)[w] = LinearRule(own, AlongGates(own), w)
<1> DEFINE n == Len(gates)
           G == [z \in (1..n) \X [1..n -> Int] |-> LinearRule(own, z[2], z[1])]
           F(f) == [w \in 1..n |-> LinearRule(own, f, w)]
           h == CHOOSE f : f = F(f)
<1>1. n \in Nat /\ Wires = 1..n /\ \A w \in 1..n : \A v \in 1..(w - 1) : v \in 1..n
  BY BaseFacts
<1>2. G \in [(1..n) \X [1..n -> Int] -> Int]
  <2> SUFFICES ASSUME NEW w \in 1..n, NEW f \in [1..n -> Int] PROVE LinearRule(own, f, w) \in Int
    OBVIOUS
  <2>1. \A v \in 1..(w - 1) : f[v] \in Int
    BY <1>1
  <2> QED BY <1>1, <2>1, LinearRuleFacts
<1>3. \A w \in 1..n : \A f \in [1..n -> Int] : G[<<w, f>>] = LinearRule(own, f, w)
  OBVIOUS
<1>4. Local(n, Int, G)
  <2> HIDE DEF G, n
  <2> SUFFICES ASSUME NEW w \in 1..n, NEW f \in [1..n -> Int], NEW g \in [1..n -> Int],
                      \A v \in 1..(w - 1) : f[v] = g[v]
               PROVE  G[<<w, f>>] = G[<<w, g>>]
    BY DEF Local
  <2>1. LinearRule(own, f, w) = LinearRule(own, g, w)
    BY <1>1, LinearRuleFacts
  <2> QED BY <1>3, <2>1
<1>5. PICK f \in [1..n -> Int] : Obeys(n, f, G)
  <2> HIDE DEF G, n
  <2>1. 0 \in Int OBVIOUS
  <2> QED BY <1>1, <1>2, <1>4, <2>1, Recursion
<1>6. f = F(f)
  <2> HIDE DEF G
  <2>1. \A w \in 1..n : f[w] = LinearRule(own, f, w)
    BY <1>3, <1>5 DEF Obeys
  <2> QED BY <2>1
<1>7. h = F(h)
  <2> HIDE DEF F
  <2> QED BY <1>6
<1>8. AlongGates(own) = h
  BY <1>1 DEF AlongGates, LinearRule
<1> HIDE DEF h
<1>9. \A w \in 1..n : h[w] = LinearRule(own, h, w)
  BY <1>7
<1> DEFINE S == {w \in Nat : w \in 1..n => h[w] \in Int}
<1>10. ASSUME NEW w \in Nat, \A k \in Nat : k < w => k \in S PROVE w \in S
  <2> SUFFICES ASSUME w \in 1..n PROVE h[w] \in Int
    OBVIOUS
  <2>1. \A v \in 1..(w - 1) : h[v] \in Int
    <3> SUFFICES ASSUME NEW v \in 1..(w - 1) PROVE h[v] \in Int
      OBVIOUS
    <3>1. v \in Nat /\ v < w /\ v \in 1..n
      BY <1>1
    <3> QED BY <1>10, <3>1
  <2> HIDE DEF n
  <2> QED BY <1>1, <1>9, <2>1, LinearRuleFacts
<1>11. \A w \in 1..n : h[w] \in Int
  <2> HIDE DEF S
  <2>1. Nat \subseteq S
    BY <1>10, StrongInduction
  <2> QED BY <2>1 DEF S
<1> QED BY <1>1, <1>8, <1>9, <1>11

(* The shares of the masks are integers.                                   *)
LEMMA SharesInt == ASSUME Base, NEW i \in Parties PROVE \A w \in Wires : Shares(i)[w] \in Int
<1> DEFINE own == [w \in Wires |-> IF Type(w) = "kInp" /\ gates[w].owner # i THEN 0 ELSE Ring(Draw(i, w))]
<1>1. ASSUME NEW w \in Wires PROVE own[w] \in Int
  <2>1. i \in Procs /\ w \in Int
    BY BaseFacts, Moduli
  <2>2. Ring(Draw(i, w)) \in Int
    BY <2>1, DrawFacts, RingFacts
  <2> QED BY <2>2
<1>2. Shares(i) = AlongGates(own)
  BY DEF Shares
<1> HIDE DEF own
<1> QED BY <1>1, <1>2, AlongFacts

(* The masks are integers.                                                 *)
LEMMA MasksInt == ASSUME Base PROVE \A w \in Wires : Masks[w] \in Int
<1> DEFINE drawn(w) == [i \in Parties |-> Ring(Draw(i, w))]
           own == [w \in Wires |-> IF Type(w) = "kInp" THEN Ring(Draw(gates[w].owner, w))
                                   ELSE Ring(SumTo(nP, drawn(w)))]
<1>1. ASSUME NEW w \in Wires PROVE own[w] \in Int
  <2>1. w \in Int /\ \A i \in Parties : i \in Procs
    BY BaseFacts, Moduli
  <2>2. \A i \in Parties : Ring(Draw(i, w)) \in Int
    BY <2>1, DrawFacts, RingFacts
  <2>3. Type(w) = "kInp" => gates[w].owner \in Parties
    BY GateFacts
  <2>4. IntVector(nP, drawn(w))
    BY <2>2 DEF IntVector, Parties
  <2>5. SumTo(nP, drawn(w)) \in Int
    <3> HIDE DEF drawn
    <3> QED BY <2>4, Moduli, SumInt
  <2>6. Ring(SumTo(nP, drawn(w))) \in Int
    BY <2>5, RingFacts
  <2> HIDE DEF drawn
  <2> QED BY <2>2, <2>3, <2>6
<1>2. Masks = AlongGates(own)
  BY DEF Masks
<1> HIDE DEF own
<1> QED BY <1>1, <1>2, AlongFacts

(* The shares of gamma are integers.                                       *)
LEMMA GammaInt == ASSUME Base, NEW i \in Mults, NEW p \in Parties PROVE GammaShare(p, i) \in Int
<1> DEFINE n == Dim(i)
           v == [j \in 1..Dim(i) |-> Masks[In1(i, j)] * Masks[In2(i, j)]]
           u == [q \in Parties |-> GammaDraw(q, Out(i))]
<1>1. n \in Nat /\ Out(i) \in Wires /\ \A j \in 1..n : In1(i, j) \in Wires /\ In2(i, j) \in Wires
  BY FactorWires
<1>2. \A w \in Wires : Masks[w] \in Int
  BY MasksInt
<1>3. IntVector(n, v)
  <2> SUFFICES ASSUME NEW j \in 1..n PROVE Masks[In1(i, j)] * Masks[In2(i, j)] \in Int
    BY DEF IntVector
  <2>1. Masks[In1(i, j)] \in Int /\ Masks[In2(i, j)] \in Int
    BY <1>1, <1>2
  <2> QED BY <2>1
<1>4. \A q \in Parties : GammaDraw(q, Out(i)) \in Int
  <2> SUFFICES ASSUME NEW q \in Parties PROVE GammaDraw(q, Out(i)) \in Int
    OBVIOUS
  <2>1. q \in Procs /\ Len(gates) + Out(i) \in Int
    BY <1>1, BaseFacts, Moduli
  <2> QED BY <2>1, DrawFacts, RingFacts DEF GammaDraw
<1>5. IntVector(nP - 1, u)
  <2>1. \A q \in 1..(nP - 1) : q \in Parties
    BY Moduli
  <2> QED BY <1>4, <2>1 DEF IntVector
<1>6. GammaShare(p, i) = IF p < nP THEN GammaDraw(p, Out(i)) ELSE Ring(SumTo(n, v) - SumTo(nP - 1, u))
  BY DEF GammaShare
<1> HIDE DEF n, v, u
<1>7. SumTo(n, v) - SumTo(nP - 1, u) \in Int
  <2>1. SumTo(n, v) \in Int
    BY <1>1, <1>3, SumInt
  <2>2. SumTo(nP - 1, u) \in Int
    BY <1>5, Moduli, SumInt
  <2> QED BY <2>1, <2>2
<1>8. Ring(SumTo(n, v) - SumTo(nP - 1, u)) \in Int
  BY <1>7, RingFacts
<1> QED BY <1>4, <1>6, <1>8

-----------------------------------------------------------------------------
(* The setup: the dealer knows the shares of all masks, and what the       *)
(* lifted shares of gamma - lambda sum to.                                 *)
LastShares(i) == [p \in Parties |-> Ring(gamma[p][i] - lambda[p][Out(i)])]

SetupOk ==
  /\ \A w \in Wires : mask[w] \in Int
  /\ \A p \in Parties : \A w \in Wires : lambda[p][w] \in Int /\ dealt[p][w] = lambda[p][w]
  /\ \A p \in Parties : \A i \in Mults : gamma[p][i] \in Int
  /\ \A i \in Mults : lifted[i] = LargeRing(SumTo(nP, LastShares(i)))

Term(p, i, f, j) ==
  f[In1(i, j)] * lambda[p][In2(i, j)] + f[In2(i, j)] * lambda[p][In1(i, j)]
    + (IF p = 1 THEN f[In1(i, j)] * f[In2(i, j)] ELSE 0)

Terms(p, i, f) == [j \in 1..Dim(i) |-> Term(p, i, f, j)]

(* A party's share of a masked output, from the masked values before it.   *)
LEMMA MultShareFacts ==
  ASSUME Base, SetupOk, NEW i \in Mults, NEW p \in Parties, NEW f, \A v \in 1..(Out(i) - 1) : f[v] \in Int
  PROVE  /\ MultShare(p, i, f) \in Int
         /\ IntVector(Dim(i), Terms(p, i, f))
         /\ MultShare(p, i, f) = SumTo(Dim(i), Terms(p, i, f)) + gamma[p][i] - lambda[p][Out(i)]
         /\ gamma[p][i] \in Int /\ lambda[p][Out(i)] \in Int
         /\ \A g : (\A v \in 1..(Out(i) - 1) : f[v] = g[v]) => MultShare(p, i, g) = MultShare(p, i, f)
<1>1. /\ Dim(i) \in Nat /\ Out(i) \in Wires
      /\ \A j \in 1..Dim(i) : /\ In1(i, j) \in Wires /\ In1(i, j) \in 1..(Out(i) - 1)
                              /\ In2(i, j) \in Wires /\ In2(i, j) \in 1..(Out(i) - 1)
  BY FactorWires
<1>2. /\ \A w \in Wires : lambda[p][w] \in Int
      /\ gamma[p][i] \in Int
  BY DEF SetupOk
<1>3. ASSUME NEW j \in 1..Dim(i) PROVE Terms(p, i, f)[j] \in Int
  <2>1. f[In1(i, j)] \in Int /\ f[In2(i, j)] \in Int /\ lambda[p][In1(i, j)] \in Int /\ lambda[p][In2(i, j)] \in Int
    BY <1>1, <1>2
  <2> QED BY <2>1 DEF Terms, Term
<1>4. IntVector(Dim(i), Terms(p, i, f))
  BY <1>3 DEF IntVector
<1>5. \A g : MultShare(p, i, g) = SumTo(Dim(i), Terms(p, i, g)) + gamma[p][i] - lambda[p][Out(i)]
  BY DEF MultShare, Terms, Term
<1>6. SumTo(Dim(i), Terms(p, i, f)) \in Int
  BY <1>1, <1>4, SumInt
<1>7. ASSUME NEW g, \A v \in 1..(Out(i) - 1) : f[v] = g[v] PROVE MultShare(p, i, g) = MultShare(p, i, f)
  <2>1. \A j \in 1..Dim(i) : Terms(p, i, f)[j] = Terms(p, i, g)[j]
    BY <1>1, <1>7 DEF Terms, Term
  <2>2. SumTo(Dim(i), Terms(p, i, f)) = SumTo(Dim(i), Terms(p, i, g))
    BY <1>1, <1>4, <2>1, SumSame
  <2> QED BY <1>5, <2>2
<1> QED BY <1>1, <1>2, <1>4, <1>5, <1>6, <1>7

(* The masked values.                                                      *)
MultShares(i, f) == [p \in Parties |-> MultShare(p, i, f)]

MaskedRule(f, w) ==
  CASE Type(w) = "kInp"      -> Ring(Draw(0, w) - mask[w])
    [] Type(w) = "kAdd"      -> Ring(f[gates[w].in1[1]] + f[gates[w].in2[1]])
    [] Type(w) = "kConstMul" -> Ring(f[gates[w].in1[1]] * gates[w].cval)
    [] OTHER -> Ring(SumTo(nP, MultShares(Index(w), f)) + Off(Index(w)))

(* The deviation of a multiplication is an integer.                        *)
LEMMA OffInt == ASSUME Base, NEW i PROVE Off(i) \in Int
BY BaseFacts DEF Off

(* All parties' shares of a masked output.                                 *)
LEMMA MultSharesFacts ==
  ASSUME Base, SetupOk, NEW i \in Mults, NEW f, \A v \in 1..(Out(i) - 1) : f[v] \in Int
  PROVE  /\ IntVector(nP, MultShares(i, f)) /\ SumTo(nP, MultShares(i, f)) \in Int
         /\ \A g : (\A v \in 1..(Out(i) - 1) : f[v] = g[v])
                      => SumTo(nP, MultShares(i, g)) = SumTo(nP, MultShares(i, f))
<1>1. IntVector(nP, MultShares(i, f))
  BY MultShareFacts DEF MultShares, IntVector, Parties
<1>2. SumTo(nP, MultShares(i, f)) \in Int
  BY <1>1, Moduli, SumInt
<1>3. ASSUME NEW g, \A v \in 1..(Out(i) - 1) : f[v] = g[v]
      PROVE  SumTo(nP, MultShares(i, g)) = SumTo(nP, MultShares(i, f))
  <2>1. \A p \in 1..nP : MultShares(i, f)[p] = MultShares(i, g)[p]
    <3> SUFFICES ASSUME NEW p \in Parties PROVE MultShare(p, i, f) = MultShare(p, i, g)
      BY DEF MultShares, Parties
    <3> QED BY <1>3, MultShareFacts
  <2> QED BY <1>1, <2>1, Moduli, SumSame
<1> QED BY <1>1, <1>2, <1>3

(* The rule of the masked values reads smaller wires only.                 *)
LEMMA MaskedRuleFacts ==
  ASSUME Base, SetupOk, NEW w \in Wires, NEW f, \A v \in 1..(w - 1) : f[v] \in Int
  PROVE  /\ MaskedRule(f, w) \in Int
         /\ \A g : (\A v \in 1..(w - 1) : f[v] = g[v]) => MaskedRule(f, w) = MaskedRule(g, w)
<1>1. CASE Type(w) = "kInp"
  <2>1. 0 \in Procs /\ w \in Int /\ mask[w] \in Int
    BY BaseFacts, Moduli DEF SetupOk
  <2>2. Draw(0, w) - mask[w] \in Int
    BY <2>1, DrawFacts
  <2>3. \A g : MaskedRule(g, w) = Ring(Draw(0, w) - mask[w])
    BY <1>1 DEF MaskedRule
  <2> QED BY <2>2, <2>3, RingFacts
<1>2. CASE Type(w) = "kAdd"
  <2>1. gates[w].in1[1] \in 1..(w - 1) /\ gates[w].in2[1] \in 1..(w - 1)
    BY <1>2, GateFacts
  <2>2. \A g : MaskedRule(g, w) = Ring(g[gates[w].in1[1]] + g[gates[w].in2[1]])
    BY <1>2 DEF MaskedRule
  <2> QED BY <2>1, <2>2, RingFacts
<1>3. CASE Type(w) = "kConstMul"
  <2>1. gates[w].in1[1] \in 1..(w - 1) /\ gates[w].cval \in Int
    BY <1>3, GateFacts
  <2>2. \A g : MaskedRule(g, w) = Ring(g[gates[w].in1[1]] * gates[w].cval)
    BY <1>3 DEF MaskedRule
  <2> QED BY <2>1, <2>2, RingFacts
<1>4. CASE Type(w) \notin {"kInp", "kAdd", "kConstMul"}
  <2>1. IsMult(w)
    BY <1>4, GateFacts DEF IsMult
  <2>2. PICK i \in Mults : Out(i) = w
    BY <2>1, OrderFacts
  <2>3. Index(w) = i
    BY <2>2, IndexFacts
  <2>4. \A g : MaskedRule(g, w) = Ring(SumTo(nP, MultShares(i, g)) + Off(i))
    BY <1>4, <2>3 DEF MaskedRule
  <2>5. \A v \in 1..(Out(i) - 1) : f[v] \in Int
    BY <2>2
  <2>6. SumTo(nP, MultShares(i, f)) + Off(i) \in Int
    BY <2>5, MultSharesFacts, OffInt
  <2>7. ASSUME NEW g, \A v \in 1..(w - 1) : f[v] = g[v]
        PROVE  SumTo(nP, MultShares(i, g)) = SumTo(nP, MultShares(i, f))
    BY <2>2, <2>5, <2>7, MultSharesFacts
  <2> QED BY <2>4, <2>6, <2>7, RingFacts
<1> QED BY <1>1, <1>2, <1>3, <1>4

(* Evaluating makes every masked output what the parties' shares sum to,   *)
(* but for its deviation.                                                  *)
LEMMA MaskedFacts ==
  ASSUME Base, SetupOk
  PROVE  /\ \A w \in Wires : Masked[w] \in Int
         /\ \A i \in Mults : Same(RingSize, Masked[Out(i)], SumTo(nP, MultShares(i, Masked)) + Off(i))
<1> DEFINE n == Len(gates)
           G == [z \in (1..n) \X [1..n -> Int] |-> MaskedRule(z[2], z[1])]
           F(f) == [w \in 1..n |-> MaskedRule(f, w)]
           h == CHOOSE f : f = F(f)
<1>1. n \in Nat /\ Wires = 1..n /\ \A w \in 1..n : \A v \in 1..(w - 1) : v \in 1..n
  BY BaseFacts
<1>2. G \in [(1..n) \X [1..n -> Int] -> Int]
  <2> SUFFICES ASSUME NEW w \in 1..n, NEW f \in [1..n -> Int] PROVE MaskedRule(f, w) \in Int
    OBVIOUS
  <2>1. \A v \in 1..(w - 1) : f[v] \in Int
    BY <1>1
  <2> QED BY <1>1, <2>1, MaskedRuleFacts
<1>3. \A w \in 1..n : \A f \in [1..n -> Int] : G[<<w, f>>] = MaskedRule(f, w)
  OBVIOUS
<1>4. Local(n, Int, G)
  <2> HIDE DEF G, n
  <2> SUFFICES ASSUME NEW w \in 1..n, NEW f \in [1..n -> Int], NEW g \in [1..n -> Int],
                      \A v \in 1..(w - 1) : f[v] = g[v]
               PROVE  G[<<w, f>>] = G[<<w, g>>]
    BY DEF Local
  <2>1. \A v \in 1..(w - 1) : f[v] \in Int
    BY <1>1
  <2>2. MaskedRule(f, w) = MaskedRule(g, w)
    BY <1>1, <2>1, MaskedRuleFacts
  <2> QED BY <1>3, <2>2
<1>5. PICK f \in [1..n -> Int] : Obeys(n, f, G)
  <2> HIDE DEF G, n
  <2>1. 0 \in Int OBVIOUS
  <2> QED BY <1>1, <1>2, <1>4, <2>1, Recursion
<1>6. f = F(f)
  <2> HIDE DEF G
  <2>1. \A w \in 1..n : f[w] = MaskedRule(f, w)
    BY <1>3, <1>5 DEF Obeys
  <2> QED BY <2>1
<1>7. h = F(h)
  <2> HIDE DEF F
  <2> QED BY <1>6
<1>8. Masked = h
  BY <1>1 DEF Masked, MaskedRule, MultShares
<1> HIDE DEF h
<1>9. \A w \in 1..n : h[w] = MaskedRule(h, w)
  BY <1>7
<1> DEFINE S == {w \in Nat : w \in 1..n => h[w] \in Int}
<1>10. ASSUME NEW w \in Nat, \A k \in Nat : k < w => k \in S PROVE w \in S
  <2> SUFFICES ASSUME w \in 1..n PROVE h[w] \in Int
    OBVIOUS
  <2>1. \A v \in 1..(w - 1) : h[v] \in Int
    <3> SUFFICES ASSUME NEW v \in 1..(w - 1) PROVE h[v] \in Int
      OBVIOUS
    <3>1. v \in Nat /\ v < w /\ v \in 1..n
      BY <1>1
    <3> QED BY <1>10, <3>1
  <2> HIDE DEF n
  <2> QED BY <1>1, <1>9, <2>1, MaskedRuleFacts
<1>11. \A w \in 1..n : h[w] \in Int
  <2> HIDE DEF S
  <2>1. Nat \subseteq S
    BY <1>10, StrongInduction
  <2> QED BY <2>1 DEF S
<1>12. ASSUME NEW i \in Mults PROVE Same(RingSize, h[Out(i)], SumTo(nP, MultShares(i, h)) + Off(i))
  <2>1. Out(i) \in Wires /\ IsMult(Out(i)) /\ Index(Out(i)) = i
    BY OrderFacts, IndexFacts
  <2>2. h[Out(i)] = Ring(SumTo(nP, MultShares(i, h)) + Off(i))
    <3>1. h[Out(i)] = MaskedRule(h, Out(i))
      BY <1>1, <1>9, <2>1
    <3> QED BY <2>1, <3>1 DEF MaskedRule, IsMult
  <2>3. \A v \in 1..(Out(i) - 1) : h[v] \in Int
    <3>1. \A v \in 1..(Out(i) - 1) : v \in 1..n
      BY <1>1, <2>1
    <3> HIDE DEF n
    <3> QED BY <1>11, <3>1
  <2>4. SumTo(nP, MultShares(i, h)) + Off(i) \in Int
    BY <2>3, MultSharesFacts, OffInt
  <2> QED BY <2>2, <2>4, RingFacts
<1> HIDE DEF n
<1> QED BY <1>1, <1>8, <1>11, <1>12

-----------------------------------------------------------------------------
(* Vectors.                                                                *)
LEMMA VectorFacts ==
  ASSUME NEW n \in Nat, NEW v \in [1..n -> Int]
  PROVE  Len(v) = n /\ DOMAIN v = 1..n /\ IntVector(n, v)
<1>1. v \in Seq(Int)
  OBVIOUS
<1>2. Len(v) = n
  BY <1>1
<1> QED BY <1>2 DEF IntVector

(* A function of the first n numbers with integer values.                  *)
LEMMA VectorIs ==
  ASSUME NEW n \in Nat, NEW v, v = [k \in 1..n |-> v[k]], IntVector(n, v)
  PROVE  v \in [1..n -> Int]
<1>1. \A k \in 1..n : v[k] \in Int
  BY DEF IntVector
<1> HIDE DEF IntVector
<1>2. [k \in 1..n |-> v[k]] \in [1..n -> Int]
  BY <1>1
<1> QED BY <1>2

(* What the parties' vectors sum to.                                       *)
WholeVector(n, yy) == [k \in 1..n |-> SumTo(nP, Column1(nP, yy, k))]

(* It is an integer vector when the parties' are.                          *)
LEMMA WholeFacts ==
  ASSUME NEW n \in Nat, NEW yy, \A p \in Parties : IntVector(n, yy[p])
  PROVE  /\ IntVector(n, WholeVector(n, yy))
         /\ \A k \in 1..n : IntVector(nP, Column1(nP, yy, k)) /\ SumTo(nP, Column1(nP, yy, k)) \in Int
<1>1. ASSUME NEW k \in 1..n
      PROVE  IntVector(nP, Column1(nP, yy, k)) /\ SumTo(nP, Column1(nP, yy, k)) \in Int
  BY Moduli, ColumnInt
<1>2. IntVector(n, WholeVector(n, yy))
  BY <1>1 DEF IntVector, WholeVector
<1> QED BY <1>1, <1>2

-----------------------------------------------------------------------------
(* shareSum: public part and shares of the masks make up the parties'      *)
(* inputs and a deviation, and the dealer knows the masks.                 *)
Bent(ns, k) == IF bend.sum = ns /\ bend.entry = k THEN bend.by ELSE 0

SummedUp(s, n, locals, ns) ==
  /\ IntVector(n, s.ms) /\ \A p \in Procs : IntVector(n, s.ls[p])
  /\ \A k \in 1..n :
       /\ Same(LargeRingSize, s.ms[k] + SumTo(nP, Column1(nP, s.ls, k)),
               SumTo(nP, Column1(nP, locals, k)) + Bent(ns, k))
       /\ Same(LargeRingSize, s.ls[0][k], SumTo(nP, Column1(nP, s.ls, k)))

(* This is what shareSum does, and it uses up n draws.                     *)
LEMMA ShareSumFacts ==
  ASSUME Base, NEW n \in Nat, NEW locals, \A p \in Parties : IntVector(n, locals[p]), ShareSum(locals, n)
  PROVE  SummedUp(sums', n, locals, nsum + 1) /\ pos' = pos + n /\ nsum' = nsum + 1
<1> DEFINE L == LargeRingSize
           Mask(p, k) == LargeRing(Draw(p, pos + k))
           ms == [k \in 1..n |->
                    LargeRing(SumTo(nP, [p \in Parties |-> locals[p][k] - Mask(p, k)]) + Bent(nsum + 1, k))]
           ls == [p \in Procs |-> [k \in 1..n |->
                    IF p = 0 THEN LargeRing(SumTo(nP, [q \in Parties |-> Mask(q, k)])) ELSE Mask(p, k)]]
<1>1. sums' = [ms |-> ms, ls |-> ls] /\ pos' = pos + n /\ nsum' = nsum + 1
  BY DEF ShareSum, Bent
<1>2. sums'.ms = ms /\ sums'.ls = ls
  BY <1>1
<1>3. ASSUME NEW k \in 1..n
      PROVE  /\ ms[k] \in Int /\ \A p \in Procs : ls[p][k] \in Int
             /\ Same(L, ms[k] + SumTo(nP, Column1(nP, ls, k)), SumTo(nP, Column1(nP, locals, k)) + Bent(nsum + 1, k))
             /\ Same(L, ls[0][k], SumTo(nP, Column1(nP, ls, k)))
  <2> DEFINE mk == [p \in Parties |-> Mask(p, k)]
             lk == Column1(nP, locals, k)
             df == [p \in Parties |-> locals[p][k] - Mask(p, k)]
             bt == Bent(nsum + 1, k)
  <2>0. nP \in Nat /\ Parties = 1..nP /\ Procs = 0..nP /\ L \in Nat \ {0} /\ pos + k \in Int
        /\ \A p \in Parties : p \in Procs /\ p # 0
    BY Moduli, BaseFacts
  <2>1. \A p \in Parties : Mask(p, k) \in Int /\ mk[p] = Mask(p, k) /\ locals[p][k] \in Int
                           /\ lk[p] = locals[p][k] /\ df[p] = locals[p][k] - Mask(p, k)
    <3> SUFFICES ASSUME NEW p \in Parties PROVE Mask(p, k) \in Int /\ locals[p][k] \in Int /\ lk[p] = locals[p][k]
      OBVIOUS
    <3>1. Draw(p, pos + k) \in Int
      BY <2>0, DrawFacts
    <3> QED BY <2>0, <3>1, LargeRingFacts DEF IntVector, Column1
  <2>2. Column1(nP, ls, k) = mk
    BY <2>0 DEF Column1
  <2>3. bt \in Int
    BY BaseFacts DEF Bent
  <2>4. ms[k] = LargeRing(SumTo(nP, df) + bt) /\ ls[0][k] = LargeRing(SumTo(nP, mk))
    BY <2>0
  <2>5. \A p \in Parties : ls[p][k] = Mask(p, k)
    BY <2>0
  <2> HIDE DEF mk, lk, df, bt, ms, ls, Mask
  <2>6. IntVector(nP, mk) /\ IntVector(nP, lk) /\ SumTo(nP, df) = SumTo(nP, lk) - SumTo(nP, mk) /\ IntVector(nP, df)
    <3>1. IntVector(nP, mk) /\ IntVector(nP, lk) /\ \A p \in 1..nP : df[p] = lk[p] - mk[p]
      BY <2>0, <2>1 DEF IntVector
    <3> QED BY <2>0, <3>1, SumSub
  <2>7. SumTo(nP, mk) \in Int /\ SumTo(nP, lk) \in Int
    BY <2>0, <2>6, SumInt
  <2> DEFINE sm == SumTo(nP, mk)
             sl == SumTo(nP, lk)
  <2>8. sm \in Int /\ sl \in Int /\ ms[k] = LargeRing((sl - sm) + bt) /\ ls[0][k] = LargeRing(sm)
        /\ (sl - sm) + bt \in Int
    BY <2>3, <2>4, <2>6, <2>7
  <2> HIDE DEF sm, sl
  <2>9. ms[k] \in Int /\ ls[0][k] \in Int /\ Same(L, ms[k], (sl - sm) + bt) /\ Same(L, ls[0][k], sm)
    BY <2>8, LargeRingFacts
  <2>10. Same(L, sm, sm)
    BY DEF Same
  <2>11. Same(L, ms[k] + sm, ((sl - sm) + bt) + sm)
    BY <2>0, <2>8, <2>9, <2>10, SameOps
  <2>12. ((sl - sm) + bt) + sm = sl + bt
    BY <2>3, <2>8
  <2>13. \A p \in Procs : ls[p][k] \in Int
    <3>1. \A p \in Procs : p = 0 \/ p \in Parties
      BY <2>0
    <3> QED BY <2>1, <2>5, <2>9, <3>1
  <2> QED BY <2>2, <2>9, <2>11, <2>12, <2>13 DEF sm, sl, lk, bt
<1> HIDE DEF ms, ls
<1>4. IntVector(n, ms) /\ \A p \in Procs : IntVector(n, ls[p])
  BY <1>3 DEF IntVector
<1> QED BY <1>1, <1>2, <1>3, <1>4 DEF SummedUp

-----------------------------------------------------------------------------
(* The places of a multiplication in the vectors.                          *)
Sizes == [h \in Mults |-> Size(h)]

(* Every multiplication has Size places in the vectors, every place is one *)
(* multiplication's.                                                       *)
LEMMA PlaceFacts ==
  ASSUME Base
  PROVE  /\ Bvs \in Nat \ {0} /\ NumMults \in Nat /\ Mults = 1..NumMults
         /\ Bvs = SumTo(NumMults, Sizes) /\ \A i \in Mults : Offset(i) = SumTo(i - 1, Sizes)
         /\ \A i \in Mults : Sizes[i] = Size(i) /\ Size(i) \in Nat
         /\ \A i \in Mults : Offset(i) \in Nat /\ Offset(i) + Size(i) <= Bvs
         /\ \A i \in Mults : \A e \in 1..Size(i) :
              Offset(i) + e \in 1..Bvs /\ GateOf(Offset(i) + e) = i
         /\ \A k \in 1..Bvs : GateOf(k) \in Mults /\ k - Offset(GateOf(k)) \in 1..Size(GateOf(k))
<1>1. NumMults \in Nat \ {0} /\ Mults = 1..NumMults
  BY OrderFacts
<1>2. \A i \in Mults : Size(i) \in Nat /\ Size(i) >= 1
  BY FactorWires
<1>3. \A i \in 1..NumMults : Sizes[i] = Size(i) /\ Sizes[i] \in Nat
  BY <1>1, <1>2 DEF Sizes
<1>4. Bvs = SumTo(NumMults, Sizes) /\ \A i \in Mults : Offset(i) = SumTo(i - 1, Sizes)
  BY DEF Bvs, Offset, Sizes
<1> HIDE DEF Sizes
<1>5. /\ Bvs \in Nat
      /\ \A i \in Mults : Offset(i) \in Nat /\ Offset(i) + Size(i) <= Bvs
      /\ \A k \in 1..Bvs : \E i \in Mults : k - Offset(i) \in 1..Size(i)
      /\ \A k : \A i, j \in Mults : k \in Nat
           /\ k - Offset(i) \in 1..Size(i) /\ k - Offset(j) \in 1..Size(j) => i = j
  <2>1. NumMults \in Nat
    BY <1>1
  <2>2. /\ SumTo(NumMults, Sizes) \in Nat
        /\ \A i \in 1..NumMults : /\ SumTo(i - 1, Sizes) \in Nat
                            /\ SumTo(i - 1, Sizes) + Sizes[i] <= SumTo(NumMults, Sizes)
        /\ \A k \in 1..SumTo(NumMults, Sizes) :
             \E i \in 1..NumMults : k - SumTo(i - 1, Sizes) \in 1..Sizes[i]
        /\ \A k : \A i, j \in 1..NumMults : k \in Nat
              /\ k - SumTo(i - 1, Sizes) \in 1..Sizes[i] /\ k - SumTo(j - 1, Sizes) \in 1..Sizes[j] => i = j
    BY <1>3, <2>1, BlockOf
  <2>3. \A i \in Mults : Offset(i) \in Nat /\ Offset(i) + Size(i) <= Bvs
    BY <1>1, <1>3, <1>4, <2>2
  <2>4. \A k \in 1..Bvs : \E i \in Mults : k - Offset(i) \in 1..Size(i)
    BY <1>1, <1>3, <1>4, <2>2
  <2>5. ASSUME NEW k, NEW i \in Mults, NEW j \in Mults, k \in Nat,
               k - Offset(i) \in 1..Size(i), k - Offset(j) \in 1..Size(j)
        PROVE  i = j
    BY <1>1, <1>3, <1>4, <2>2, <2>5
  <2> QED BY <1>4, <2>2, <2>3, <2>4, <2>5
<1>6. Bvs # 0
  <2>1. 1 \in Mults
    BY <1>1
  <2> QED BY <1>2, <1>5, <2>1
<1>7. ASSUME NEW i \in Mults, NEW e \in 1..Size(i)
      PROVE  Offset(i) + e \in 1..Bvs /\ GateOf(Offset(i) + e) = i
  <2>1. Offset(i) + e \in 1..Bvs /\ (Offset(i) + e) - Offset(i) \in 1..Size(i) /\ Offset(i) + e \in Nat
    BY <1>2, <1>5
  <2>2. \A j \in Mults : (Offset(i) + e) - Offset(j) \in 1..Size(j) => i = j
    BY <1>5, <2>1
  <2> DEFINE k == Offset(i) + e
  <2>3. k - Offset(i) \in 1..Size(i) /\ \A j \in Mults : k - Offset(j) \in 1..Size(j) => i = j
    BY <2>1, <2>2
  <2> HIDE DEF k
  <2>4. GateOf(k) = i
    BY <2>3 DEF GateOf
  <2> QED BY <2>1, <2>4 DEF k
<1>8. ASSUME NEW k \in 1..Bvs PROVE GateOf(k) \in Mults /\ k - Offset(GateOf(k)) \in 1..Size(GateOf(k))
  <2>1. \E i \in Mults : k - Offset(i) \in 1..Size(i)
    BY <1>5
  <2> QED BY <2>1 DEF GateOf
<1> QED BY <1>1, <1>2, <1>3, <1>4, <1>5, <1>6, <1>7, <1>8

(* Two entries for every term, and a last one.                             *)
LEMMA EntryFacts ==
  ASSUME Base, NEW i \in Mults, NEW e \in 1..Size(i), e # Size(i)
  PROVE  /\ e % 2 = 1 => (e + 1) \div 2 \in 1..Dim(i)
         /\ e % 2 # 1 => e \div 2 \in 1..Dim(i)
<1>1. Dim(i) \in Nat /\ Size(i) = 2 * Dim(i) + 1
  BY FactorWires
<1> QED BY <1>1

FillEntry(wire, last, i, e) ==
  IF e = Size(i) THEN last[i]
  ELSE IF e % 2 = 1 THEN wire[In2(i, (e + 1) \div 2)] ELSE wire[In1(i, e \div 2)]

(* What FillB puts in a place.                                             *)
LEMMA FillFacts ==
  ASSUME Base, NEW wire, NEW last,
         \A w \in Wires : wire[w] \in Int, \A i \in Mults : last[i] \in Int
  PROVE  /\ FillB(wire, last) \in [1..Bvs -> Int]
         /\ \A i \in Mults : \A e \in 1..Size(i) :
              /\ FillB(wire, last)[Offset(i) + e] = FillEntry(wire, last, i, e)
              /\ FillEntry(wire, last, i, e) \in Int
<1>1. ASSUME NEW i \in Mults, NEW e \in 1..Size(i) PROVE FillEntry(wire, last, i, e) \in Int
  <2>1. \A j \in 1..Dim(i) : In1(i, j) \in Wires /\ In2(i, j) \in Wires
    BY FactorWires
  <2>2. e # Size(i) => /\ e % 2 = 1 => (e + 1) \div 2 \in 1..Dim(i)
                       /\ e % 2 # 1 => e \div 2 \in 1..Dim(i)
    BY EntryFacts
  <2> QED BY <2>1, <2>2 DEF FillEntry
<1>2. FillB(wire, last) = [k \in 1..Bvs |-> FillEntry(wire, last, GateOf(k), k - Offset(GateOf(k)))]
  BY DEF FillB, FillEntry
<1>3. ASSUME NEW i \in Mults, NEW e \in 1..Size(i)
      PROVE  FillB(wire, last)[Offset(i) + e] = FillEntry(wire, last, i, e)
  <2>1. Offset(i) + e \in 1..Bvs /\ GateOf(Offset(i) + e) = i /\ Offset(i) \in Nat
    BY PlaceFacts
  <2>2. (Offset(i) + e) - Offset(i) = e
    BY <2>1
  <2> QED BY <1>2, <2>1, <2>2
<1>4. FillB(wire, last) \in [1..Bvs -> Int]
  <2>1. \A k \in 1..Bvs : FillEntry(wire, last, GateOf(k), k - Offset(GateOf(k))) \in Int
    BY <1>1, PlaceFacts
  <2> QED BY <1>2, <2>1
<1> QED BY <1>1, <1>3, <1>4

-----------------------------------------------------------------------------
(* b: the dealer's is the sum of the parties'.                             *)
DealtSum(w) == [p \in Parties |-> dealt[p][w]]
DealerWire  == [w \in Wires |-> LargeRing(SumTo(nP, DealtSum(w)))]
PartyLast(p) == [i \in Mults |-> Ring(gamma[p][i] - lambda[p][Out(i)])]

(* The last entry of a multiplication, party by party.                     *)
LEMMA LastFacts ==
  ASSUME Base, SetupOk, NEW i \in Mults
  PROVE  /\ IntVector(nP, LastShares(i)) /\ SumTo(nP, LastShares(i)) \in Int
         /\ \A p \in Parties : LastShares(i)[p] = PartyLast(p)[i] /\ PartyLast(p)[i] \in Int
                               /\ Same(RingSize, PartyLast(p)[i], gamma[p][i] - lambda[p][Out(i)])
                               /\ gamma[p][i] \in Int /\ lambda[p][Out(i)] \in Int
<1>1. ASSUME NEW p \in Parties
      PROVE  /\ LastShares(i)[p] = PartyLast(p)[i] /\ PartyLast(p)[i] \in Int
             /\ Same(RingSize, PartyLast(p)[i], gamma[p][i] - lambda[p][Out(i)])
             /\ gamma[p][i] \in Int /\ lambda[p][Out(i)] \in Int
  <2>1. Out(i) \in Wires
    BY OrderFacts
  <2>2. gamma[p][i] \in Int /\ lambda[p][Out(i)] \in Int
    BY <2>1 DEF SetupOk
  <2>3. gamma[p][i] - lambda[p][Out(i)] \in Int
    BY <2>2
  <2> QED BY <2>2, <2>3, RingFacts DEF LastShares, PartyLast
<1>2. IntVector(nP, LastShares(i))
  BY <1>1 DEF IntVector, Parties
<1> QED BY <1>1, <1>2, Moduli, SumInt

(* The dealer's sum of the shares of a mask.                               *)
LEMMA DealtFacts ==
  ASSUME Base, SetupOk, NEW w \in Wires
  PROVE  /\ IntVector(nP, DealtSum(w)) /\ SumTo(nP, DealtSum(w)) \in Int
         /\ \A p \in Parties : DealtSum(w)[p] = lambda[p][w]
         /\ DealerWire[w] = LargeRing(SumTo(nP, DealtSum(w))) /\ DealerWire[w] \in Int
<1>1. \A p \in Parties : DealtSum(w)[p] = lambda[p][w] /\ lambda[p][w] \in Int
  BY DEF DealtSum, SetupOk
<1>2. IntVector(nP, DealtSum(w))
  BY <1>1 DEF IntVector, Parties
<1>3. SumTo(nP, DealtSum(w)) \in Int
  BY <1>2, Moduli, SumInt
<1>4. DealerWire[w] = LargeRing(SumTo(nP, DealtSum(w)))
  BY DEF DealerWire
<1> QED BY <1>1, <1>2, <1>3, <1>4, LargeRingFacts

BOf == [p \in Procs |-> IF p = 0 THEN DealerB ELSE PartyB(p)]

(* Process 0 holds the sum of what the others hold, below LargeRingSize.   *)
InStep(n, yy) ==
  /\ \A p \in Procs : yy[p] \in [1..n -> Int]
  /\ \A k \in 1..n : yy[0][k] \in 0..(LargeRingSize - 1)
                     /\ Same(LargeRingSize, yy[0][k], SumTo(nP, Column1(nP, yy, k)))

(* After the products, the dealer is in step with the parties: what it     *)
(* lifts and adds up is the sum of what they lift one by one.              *)
LEMMA BFacts ==
  ASSUME Base, SetupOk
  PROVE  /\ InStep(Bvs, BOf)
         /\ \A p \in Parties : \A i \in Mults : \A e \in 1..Size(i) :
              /\ BOf[p][Offset(i) + e] = FillEntry(lambda[p], PartyLast(p), i, e)
<1>1. \A p \in Parties : /\ \A w \in Wires : lambda[p][w] \in Int
                         /\ \A i \in Mults : PartyLast(p)[i] \in Int
  BY LastFacts DEF SetupOk
<1>2. /\ \A w \in Wires : DealerWire[w] \in Int
      /\ \A i \in Mults : lifted[i] \in Int /\ lifted[i] = LargeRing(SumTo(nP, LastShares(i)))
  BY DealtFacts, LastFacts, LargeRingFacts DEF SetupOk
<1>3. \A p \in Parties : BOf[p] = FillB(lambda[p], PartyLast(p))
  BY Moduli DEF BOf, PartyB, PartyLast
<1>4. BOf[0] = FillB(DealerWire, lifted)
  BY Moduli DEF BOf, DealerB, DealerWire, DealtSum
<1>5. \A p \in Parties : /\ BOf[p] \in [1..Bvs -> Int]
         /\ \A i \in Mults : \A e \in 1..Size(i) :
              /\ BOf[p][Offset(i) + e] = FillEntry(lambda[p], PartyLast(p), i, e)
              /\ FillEntry(lambda[p], PartyLast(p), i, e) \in Int
  <2> SUFFICES ASSUME NEW p \in Parties
               PROVE  /\ FillB(lambda[p], PartyLast(p)) \in [1..Bvs -> Int]
                      /\ \A i \in Mults : \A e \in 1..Size(i) :
                           /\ FillB(lambda[p], PartyLast(p))[Offset(i) + e] = FillEntry(lambda[p], PartyLast(p), i, e)
                           /\ FillEntry(lambda[p], PartyLast(p), i, e) \in Int
    BY <1>3
  <2> QED BY <1>1, FillFacts
<1>6. /\ BOf[0] \in [1..Bvs -> Int]
      /\ \A i \in Mults : \A e \in 1..Size(i) : BOf[0][Offset(i) + e] = FillEntry(DealerWire, lifted, i, e)
  BY <1>2, <1>4, FillFacts
<1>7. ASSUME NEW k \in 1..Bvs
      PROVE  BOf[0][k] \in 0..(LargeRingSize - 1)
             /\ Same(LargeRingSize, BOf[0][k], SumTo(nP, Column1(nP, BOf, k)))
  <2> DEFINE i == GateOf(k)
             e == k - Offset(i)
  <2>1. i \in Mults /\ e \in 1..Size(i) /\ k = Offset(i) + e
    BY PlaceFacts
  <2> HIDE DEF i, e
  <2>2. BOf[0][k] = FillEntry(DealerWire, lifted, i, e)
        /\ \A p \in Parties : BOf[p][k] = FillEntry(lambda[p], PartyLast(p), i, e)
    BY <1>5, <1>6, <2>1
  <2>3. Column1(nP, BOf, k) = [p \in 1..nP |-> FillEntry(lambda[p], PartyLast(p), i, e)]
    BY <2>2 DEF Column1, Parties
  <2>4. CASE e = Size(i)
    <3>1. Column1(nP, BOf, k) = LastShares(i)
      BY <2>1, <2>3, <2>4 DEF FillEntry, LastShares, PartyLast, Parties
    <3>2. BOf[0][k] = LargeRing(SumTo(nP, LastShares(i)))
      BY <1>2, <2>1, <2>2, <2>4 DEF FillEntry
    <3> QED BY <2>1, <3>1, <3>2, LastFacts, LargeRingFacts
  <2>5. ASSUME NEW w \in Wires,
               BOf[0][k] = DealerWire[w], \A p \in 1..nP : Column1(nP, BOf, k)[p] = lambda[p][w]
        PROVE  BOf[0][k] \in 0..(LargeRingSize - 1)
               /\ Same(LargeRingSize, BOf[0][k], SumTo(nP, Column1(nP, BOf, k)))
    <3>1. \A p \in 1..nP : DealtSum(w)[p] = Column1(nP, BOf, k)[p]
      BY <2>5, DealtFacts DEF Parties
    <3>2. IntVector(nP, DealtSum(w)) /\ SumTo(nP, DealtSum(w)) \in Int
          /\ DealerWire[w] = LargeRing(SumTo(nP, DealtSum(w)))
      BY DealtFacts
    <3>3. SumTo(nP, DealtSum(w)) = SumTo(nP, Column1(nP, BOf, k))
      BY <3>1, <3>2, Moduli, SumSame
    <3> QED BY <2>5, <3>2, <3>3, LargeRingFacts
  <2>6. CASE e # Size(i)
    <3>1. /\ e % 2 = 1 => (e + 1) \div 2 \in 1..Dim(i)
          /\ e % 2 # 1 => e \div 2 \in 1..Dim(i)
      BY <2>1, <2>6, EntryFacts
    <3>2. \A j \in 1..Dim(i) : In1(i, j) \in Wires /\ In2(i, j) \in Wires
      BY <2>1, FactorWires
    <3> DEFINE w == IF e % 2 = 1 THEN In2(i, (e + 1) \div 2) ELSE In1(i, e \div 2)
    <3>3. w \in Wires
      BY <3>1, <3>2
    <3>4. BOf[0][k] = DealerWire[w] /\ \A p \in 1..nP : Column1(nP, BOf, k)[p] = lambda[p][w]
      BY <2>2, <2>3, <2>6 DEF FillEntry
    <3> HIDE DEF w
    <3> QED BY <2>5, <3>3, <3>4
  <2> QED BY <2>4, <2>6
<1>8. \A p \in Procs : BOf[p] \in [1..Bvs -> Int]
  <2>1. \A p \in Procs : p = 0 \/ p \in Parties
    BY Moduli
  <2> QED BY <1>5, <1>6, <2>1
<1> QED BY <1>5, <1>7, <1>8 DEF InStep

-----------------------------------------------------------------------------
(* a: the masked factors, multiplication by multiplication.                *)
MaskedInt == \A w \in Wires : m[w] \in Int

(* The factors of one multiplication.                                      *)
LEMMA FactorsFacts ==
  ASSUME Base, MaskedInt, NEW i \in Mults
  PROVE  Factors(i) \in Seq(Int) /\ Len(Factors(i)) = Size(i) /\ \A e \in 1..Size(i) : Factors(i)[e] \in Int
<1>1. Size(i) \in Nat
  BY FactorWires
<1>2. ASSUME NEW e \in 1..Size(i) PROVE Factors(i)[e] \in Int
  <2>1. \A j \in 1..Dim(i) : In1(i, j) \in Wires /\ In2(i, j) \in Wires
    BY FactorWires
  <2>2. e # Size(i) => /\ e % 2 = 1 => (e + 1) \div 2 \in 1..Dim(i)
                       /\ e % 2 # 1 => e \div 2 \in 1..Dim(i)
    BY EntryFacts
  <2> QED BY <2>1, <2>2 DEF Factors, MaskedInt
<1>3. Factors(i) = [e \in 1..Size(i) |-> Factors(i)[e]]
  BY DEF Factors
<1>4. Factors(i) \in [1..Size(i) -> Int]
  BY <1>2, <1>3
<1> HIDE DEF Factors
<1>5. Factors(i) \in Seq(Int)
  BY <1>1, <1>4
<1>6. Len(Factors(i)) = Size(i)
  BY <1>1, <1>4, VectorFacts
<1> QED BY <1>2, <1>5, <1>6

(* What is known of two sequences in a row.                                *)
LEMMA ConcatFacts ==
  ASSUME NEW s \in Seq(Int), NEW g \in Seq(Int)
  PROVE  /\ s \o g \in Seq(Int) /\ Len(s \o g) = Len(s) + Len(g)
         /\ \A j \in 1..(Len(s) + Len(g)) : (s \o g)[j] = IF j <= Len(s) THEN s[j] ELSE g[j - Len(s)]
<1>1. s \o g \in Seq(Int) /\ Len(s \o g) = Len(s) + Len(g)
  OBVIOUS
<1>2. \A j \in 1..(Len(s) + Len(g)) : (s \o g)[j] = IF j <= Len(s) THEN s[j] ELSE g[j - Len(s)]
  OBVIOUS
<1> QED BY <1>1, <1>2

Placed(k, s) ==
  /\ s \in Seq(Int) /\ Len(s) = SumTo(k, Sizes)
  /\ \A i \in 1..k : \A e \in 1..Size(i) : s[Offset(i) + e] = Factors(i)[e]

(* The next multiplication's places follow.                                *)
LEMMA OffsetNext ==
  ASSUME Base, NEW k \in Nat, k + 1 \in Mults
  PROVE  /\ SumTo(k + 1, Sizes) = SumTo(k, Sizes) + Size(k + 1) /\ Offset(k + 1) = SumTo(k, Sizes)
         /\ SumTo(k, Sizes) \in Nat
         /\ \A i \in 1..k : i \in Mults /\ Offset(i) \in Nat /\ Offset(i) + Size(i) <= SumTo(k, Sizes)
<1>1. /\ NumMults \in Nat /\ Mults = 1..NumMults
      /\ \A i \in Mults : Sizes[i] = Size(i) /\ Size(i) \in Nat
      /\ \A i \in Mults : Offset(i) = SumTo(i - 1, Sizes)
  BY PlaceFacts
<1>2. IntVector(NumMults, Sizes)
  BY <1>1 DEF IntVector
<1>3. \A h \in 1..NumMults : SumTo(h, Sizes) = SumTo(h - 1, Sizes) + Sizes[h]
  BY <1>1, <1>2, SumFacts
<1>4. (k + 1) - 1 = k /\ k \in 0..NumMults /\ k <= NumMults
  BY <1>1
<1>5. SumTo(k + 1, Sizes) = SumTo(k, Sizes) + Size(k + 1) /\ Offset(k + 1) = SumTo(k, Sizes)
  BY <1>1, <1>3, <1>4
<1>6. /\ SumTo(k, Sizes) \in Nat
      /\ \A i \in 1..k : SumTo(i - 1, Sizes) \in Nat /\ SumTo(i - 1, Sizes) + Sizes[i] <= SumTo(k, Sizes)
  <2>1. \A i \in 1..k : i \in 1..NumMults /\ Sizes[i] \in Nat
    BY <1>1, <1>4
  <2> HIDE DEF Sizes
  <2> QED BY <2>1, BlockOf
<1>7. \A i \in 1..k : i \in Mults
  BY <1>1, <1>4
<1> QED BY <1>1, <1>5, <1>6, <1>7

(* Appending its factors puts them in its places.                          *)
LEMMA PlacedNext ==
  ASSUME Base, MaskedInt, NEW k \in Nat, k + 1 \in Mults, NEW s, Placed(k, s)
  PROVE  Placed(k + 1, s \o Factors(k + 1))
<1> DEFINE g == Factors(k + 1)
           t == s \o g
           a == SumTo(k, Sizes)
<1>1. g \in Seq(Int) /\ Len(g) = Size(k + 1)
  BY FactorsFacts
<1>2. s \in Seq(Int) /\ Len(s) = a
  BY DEF Placed
<1>3. /\ SumTo(k + 1, Sizes) = a + Size(k + 1) /\ Offset(k + 1) = a /\ a \in Nat
      /\ \A i \in 1..k : i \in Mults /\ Offset(i) \in Nat /\ Offset(i) + Size(i) <= a
  BY OffsetNext
<1>4. Size(k + 1) \in Nat
  BY FactorWires
<1>5. \A i \in 1..k : \A e \in 1..Size(i) : s[Offset(i) + e] = Factors(i)[e]
  BY DEF Placed
<1> HIDE DEF g, a
<1>6. t \in Seq(Int) /\ Len(t) = a + Size(k + 1)
      /\ (\A j \in 1..a : t[j] = s[j]) /\ \A e \in 1..Size(k + 1) : t[a + e] = g[e]
  <2>1. t \in Seq(Int) /\ Len(t) = a + Size(k + 1)
    BY <1>1, <1>2, ConcatFacts
  <2>2. \A j \in 1..(a + Size(k + 1)) : t[j] = IF j <= a THEN s[j] ELSE g[j - a]
    BY <1>1, <1>2, ConcatFacts
  <2> HIDE DEF t
  <2>3. \A j \in 1..a : t[j] = s[j]
    BY <1>3, <1>4, <2>2
  <2>4. ASSUME NEW e \in 1..Size(k + 1) PROVE t[a + e] = g[e]
    <3>1. a + e \in 1..(a + Size(k + 1)) /\ ~(a + e <= a) /\ (a + e) - a = e
      BY <1>3, <1>4
    <3> QED BY <2>2, <3>1
  <2> QED BY <2>1, <2>3, <2>4
<1> HIDE DEF t
<1>7. ASSUME NEW i \in 1..(k + 1), NEW e \in 1..Size(i) PROVE t[Offset(i) + e] = Factors(i)[e]
  <2>1. CASE i = k + 1
    BY <1>3, <1>6, <2>1 DEF g
  <2>2. CASE i \in 1..k
    <3>1. Size(i) \in Nat
      BY <1>3, <2>2, FactorWires
    <3>2. Offset(i) + e \in 1..a
      BY <1>3, <2>2, <3>1
    <3> QED BY <1>5, <1>6, <2>2, <3>2
  <2> QED BY <2>1, <2>2
<1> QED BY <1>3, <1>6, <1>7 DEF Placed, t, g

(* So a has every factor in its place.                                     *)
LEMMA AFacts ==
  ASSUME Base, MaskedInt
  PROVE  A \in [1..Bvs -> Int] /\ \A i \in Mults : \A e \in 1..Size(i) : A[Offset(i) + e] = Factors(i)[e]
<1> DEFINE n == NumMults
           X == Seq(Int)
           F(p) == [i \in 0..n |-> IF i = 0 THEN << >> ELSE p[i - 1] \o Factors(i)]
           a == CHOOSE p : p = F(p)
           G == [z \in (1..n) \X X |-> z[2] \o Factors(z[1])]
<1>1. n \in Nat /\ Mults = 1..n
  BY PlaceFacts
<1>2. G \in [(1..n) \X X -> X]
  <2> SUFFICES ASSUME NEW k \in 1..n, NEW s \in X PROVE s \o Factors(k) \in X
    OBVIOUS
  <2>1. Factors(k) \in X
    BY <1>1, FactorsFacts
  <2> QED BY <2>1
<1>3. PICK s : Iterates(s, X, << >>, n, G)
  <2>1. << >> \in X
    OBVIOUS
  <2> HIDE DEF G, X, n
  <2> QED BY <1>1, <1>2, <2>1, Iteration
<1>4. s \in [0..n -> X] /\ s[0] = << >> /\ \A k \in 1..n : s[k] = G[<<k, s[k - 1]>>]
  <2> HIDE DEF G, X, n
  <2> QED BY <1>3 DEF Iterates
<1>5. \A k \in 1..n : s[k] = s[k - 1] \o Factors(k)
  <2> SUFFICES ASSUME NEW k \in 1..n PROVE s[k] = s[k - 1] \o Factors(k)
    OBVIOUS
  <2>1. k - 1 \in 0..n
    BY <1>1
  <2>2. s[k - 1] \in X
    BY <1>4, <2>1
  <2>3. \A t \in X : G[<<k, t>>] = t \o Factors(k)
    OBVIOUS
  <2> HIDE DEF G, X
  <2> QED BY <1>4, <2>2, <2>3
<1>6. s = F(s)
  <2>1. \A w \in 0..n : s[w] = IF w = 0 THEN << >> ELSE s[w - 1] \o Factors(w)
    <3>1. \A w \in 0..n : w # 0 => w \in 1..n
      BY <1>1
    <3> HIDE DEF n
    <3> QED BY <1>4, <1>5, <3>1
  <2>2. s = [w \in 0..n |-> s[w]]
    BY <1>4
  <2> HIDE DEF n
  <2> QED BY <2>1, <2>2
<1>7. a = F(a)
  <2> HIDE DEF F
  <2> QED BY <1>6
<1>8. A = a[n]
  BY DEF A
<1>9. a[0] = << >> /\ \A w \in 1..n : a[w] = a[w - 1] \o Factors(w)
  <2> HIDE DEF a, n
  <2>1. 0 \in 0..n /\ \A w \in 1..n : w \in 0..n /\ w # 0
    BY <1>1
  <2> QED BY <1>7, <2>1
<1> HIDE DEF a, F, G
<1> DEFINE S == {k \in Nat : k <= n => Placed(k, a[k])}
<1>10. 0 \in S
  <2>1. SumTo(0, Sizes) = 0
    <3>1. IntVector(n, Sizes)
      <4>1. \A h \in 1..n : Sizes[h] \in Int
        BY <1>1, PlaceFacts
      <4> QED BY <4>1 DEF IntVector
    <3> HIDE DEF n
    <3> QED BY <1>1, <3>1, SumFacts
  <2>2. Placed(0, << >>)
    BY <2>1 DEF Placed
  <2> QED BY <1>9, <2>2
<1>11. ASSUME NEW k \in Nat, k \in S PROVE k + 1 \in S
  <2> SUFFICES ASSUME k + 1 <= n PROVE Placed(k + 1, a[k + 1])
    OBVIOUS
  <2>1. k + 1 \in 1..n /\ k + 1 \in Mults /\ (k + 1) - 1 = k /\ k <= n
    BY <1>1
  <2>2. Placed(k, a[k]) /\ a[k + 1] = a[k] \o Factors(k + 1)
    BY <1>9, <1>11, <2>1
  <2> QED BY <2>1, <2>2, PlacedNext
<1>12. Placed(n, A)
  <2> HIDE DEF S
  <2>1. Nat \subseteq S
    BY <1>10, <1>11, SetInduction
  <2>2. n \in S
    BY <1>1, <2>1
  <2> QED BY <1>1, <1>8, <2>2 DEF S
<1>13. A \in Seq(Int) /\ Len(A) = Bvs /\ \A i \in Mults : \A e \in 1..Size(i) : A[Offset(i) + e] = Factors(i)[e]
  BY <1>1, <1>12, PlaceFacts DEF Placed
<1>14. A \in [1..Bvs -> Int]
  BY <1>13
<1> QED BY <1>13, <1>14

-----------------------------------------------------------------------------
(* The products of the parts, from the parties' shares.                    *)
LEMMA PartIndex ==
  ASSUME NEW n \in Nat, NEW d \in Nat \ {0}, NEW i \in 0..(n - 1), NEW e \in 1..d
  PROVE  i * d + e \in 1..(n * d)
<1>1. RowByRow(n, d)
  BY PairFacts
<1>2. i + 1 \in 1..n /\ (i + 1) - 1 = i
  OBVIOUS
<1>3. ((i + 1) - 1) * d + e \in 1..(n * d)
  BY <1>1, <1>2 DEF RowByRow
<1> QED BY <1>2, <1>3

Slice(d, v, j) == [e \in 1..d |-> v[j * d + e]]

(* Part j of a vector.                                                     *)
LEMMA SliceFacts ==
  ASSUME NEW n \in Nat, NEW d \in Nat \ {0}, NEW v, IntVector(n * d, v), NEW j \in 0..(n - 1)
  PROVE  IntVector(d, Slice(d, v, j)) /\ \A e \in 1..d : j * d + e \in 1..(n * d) /\ Slice(d, v, j)[e] = v[j * d + e]
<1>1. \A e \in 1..d : j * d + e \in 1..(n * d)
  BY PartIndex
<1> QED BY <1>1 DEF IntVector, Slice

(* An inner product with a slice of a sum of vectors.                      *)
LEMMA SliceShares ==
  ASSUME NEW n \in Nat, NEW d \in Nat \ {0}, NEW j \in 0..(n - 1), NEW u, IntVector(d, u),
         NEW yy, \A p \in Parties : IntVector(n * d, yy[p]), n * d \in Nat,
         NEW r, IntVector(nP, r),
         \A p \in Parties : Same(LargeRingSize, r[p], Dot(d, u, Slice(d, yy[p], j)))
  PROVE  /\ Same(LargeRingSize, SumTo(nP, r), Dot(d, u, Slice(d, WholeVector(n * d, yy), j)))
         /\ Dot(d, u, Slice(d, WholeVector(n * d, yy), j)) \in Int
<1> DEFINE W  == WholeVector(n * d, yy)
           us == [p \in Parties |-> Slice(d, yy[p], j)]
           ds == [p \in Parties |-> Dot(d, u, us[p])]
           w  == Slice(d, W, j)
<1>1. \A p \in Parties : IntVector(d, us[p]) /\ us[p] = Slice(d, yy[p], j)
  BY SliceFacts
<1>2. IntVector(n * d, W) /\ \A k \in 1..(n * d) : W[k] = SumTo(nP, Column1(nP, yy, k))
  BY WholeFacts DEF WholeVector
<1>3. ASSUME NEW e \in 1..d PROVE w[e] = SumTo(nP, Column1(nP, us, e))
  <2>1. j * d + e \in 1..(n * d) /\ w[e] = W[j * d + e]
    BY PartIndex DEF Slice
  <2>2. \A p \in Parties : us[p][e] = yy[p][j * d + e]
    BY DEF Slice
  <2>3. Column1(nP, us, e) = Column1(nP, yy, j * d + e)
    BY <2>2 DEF Column1, Parties
  <2> QED BY <1>2, <2>1, <2>3
<1>4. \A p \in 1..nP : ds[p] = Dot(d, u, us[p]) /\ IntVector(d, us[p]) /\ p \in Parties
  BY <1>1 DEF Parties
<1> HIDE DEF us, ds, w, W
<1>5. Summed(nP, d, u, us, w, ds)
  BY <1>3, <1>4 DEF Summed
<1>6. Dot(d, u, w) = SumTo(nP, ds) /\ IntVector(nP, ds) /\ IntVector(d, w)
  BY <1>5, Moduli, DotShares
<1>7. Dot(d, u, w) \in Int
  BY <1>6, DotInt
<1>8. \A p \in 1..nP : Same(LargeRingSize, r[p], ds[p])
  BY <1>1, <1>4
<1>9. Same(LargeRingSize, SumTo(nP, r), SumTo(nP, ds))
  BY <1>6, <1>8, Moduli, SumSameMod
<1> QED BY <1>6, <1>7, <1>9 DEF w, W

GOf(n, c, d, X, Y) == [k \in 1..(n * c) |-> SumTo(d, PartTerms(d, X, Y, Row(k - 1, c), Column(k - 1, c)))]

(* The product of two parts is an inner product.                           *)
LEMMA PartTermsDot ==
  ASSUME NEW d, NEW X, NEW Y, NEW i, NEW j
  PROVE  PartTerms(d, X, Y, i, j) = [e \in 1..d |-> Slice(d, X, i)[e] * Slice(d, Y, j)[e]]
BY DEF PartTerms, Slice

LocalParts(n, c, d, xx, yy, locals, W) ==
  /\ IntVector(n * d, xx) /\ \A p \in Parties : IntVector(c * d, yy[p])
  /\ \A p \in Parties : locals[p] = PartProducts(xx, yy[p], d, n, c)
  /\ W = WholeVector(c * d, yy)

(* What the parties compute locally sums to the products of the parts.     *)
LEMMA PartShares ==
  ASSUME NEW n \in Nat \ {0}, NEW c \in Nat \ {0}, NEW d \in Nat \ {0},
         NEW xx, NEW yy, NEW locals, NEW W, LocalParts(n, c, d, xx, yy, locals, W)
  PROVE  /\ IntVector(c * d, W) /\ Parted(n, c, d, xx, W, GOf(n, c, d, xx, W))
         /\ \A p \in Parties : IntVector(n * c - 1, locals[p])
         /\ \A k \in 1..(n * c - 1) :
              Same(LargeRingSize, SumTo(nP, Column1(nP, locals, k)), GOf(n, c, d, xx, W)[k + 1])
<1>0. /\ IntVector(n * d, xx) /\ \A p \in Parties : IntVector(c * d, yy[p])
      /\ \A p \in Parties : locals[p] = PartProducts(xx, yy[p], d, n, c)
      /\ W = WholeVector(c * d, yy) /\ c * d \in Nat /\ n * c \in Nat
  BY PairFacts DEF LocalParts, RowByRow
<1>1. IntVector(c * d, W)
  BY <1>0, WholeFacts
<1>2. Parted(n, c, d, xx, W, GOf(n, c, d, xx, W))
  BY DEF Parted, GOf
<1>3. RowByRow(n, c)
  BY PairFacts
<1>4. \A k \in 1..(n * c - 1) : Row(k, c) \in 0..(n - 1) /\ Column(k, c) \in 0..(c - 1)
  BY <1>3 DEF RowByRow
<1>5. ASSUME NEW p \in Parties, NEW k \in 1..(n * c - 1)
      PROVE  /\ locals[p][k] = LargeRing(Dot(d, Slice(d, xx, Row(k, c)), Slice(d, yy[p], Column(k, c))))
             /\ Dot(d, Slice(d, xx, Row(k, c)), Slice(d, yy[p], Column(k, c))) \in Int
  <2>1. locals[p][k] = LargeRing(SumTo(d, PartTerms(d, xx, yy[p], Row(k, c), Column(k, c))))
    BY <1>0 DEF PartProducts, PartTerms
  <2>2. IntVector(d, Slice(d, xx, Row(k, c))) /\ IntVector(d, Slice(d, yy[p], Column(k, c)))
    BY <1>0, <1>4, SliceFacts
  <2> QED BY <2>1, <2>2, PartTermsDot, DotInt DEF Dot
<1>6. ASSUME NEW p \in Parties PROVE IntVector(n * c - 1, locals[p])
  BY <1>5, LargeRingFacts DEF IntVector
<1>7. ASSUME NEW k \in 1..(n * c - 1)
      PROVE  Same(LargeRingSize, SumTo(nP, Column1(nP, locals, k)), GOf(n, c, d, xx, W)[k + 1])
  <2> DEFINE u == Slice(d, xx, Row(k, c))
             r == Column1(nP, locals, k)
             j == Column(k, c)
  <2>1. IntVector(d, u) /\ j \in 0..(c - 1)
    BY <1>0, <1>4, SliceFacts
  <2>2. \A p \in Parties : r[p] = locals[p][k]
    BY DEF Column1, Parties
  <2>3. \A p \in Parties : r[p] \in Int /\ Same(LargeRingSize, r[p], Dot(d, u, Slice(d, yy[p], j)))
    BY <1>5, <2>2, LargeRingFacts
  <2>4. IntVector(nP, r)
    BY <2>3 DEF IntVector, Parties
  <2>5. GOf(n, c, d, xx, W)[k + 1] = Dot(d, u, Slice(d, W, j))
    <3>1. k + 1 \in 1..(n * c) /\ (k + 1) - 1 = k
      OBVIOUS
    <3>2. GOf(n, c, d, xx, W)[k + 1] = SumTo(d, PartTerms(d, xx, W, Row(k, c), Column(k, c)))
      BY <3>1 DEF GOf
    <3> QED BY <3>2, PartTermsDot DEF Dot
  <2> HIDE DEF u, r, j
  <2>6. Same(LargeRingSize, SumTo(nP, r), Dot(d, u, Slice(d, W, j)))
    BY <1>0, <2>1, <2>3, <2>4, SliceShares
  <2> QED BY <2>5, <2>6 DEF r
<1> QED BY <1>1, <1>2, <1>6, <1>7

-----------------------------------------------------------------------------
(* Folding x, and y at every process.                                      *)
(* The elements that meet in element e of the folded vector.               *)
Met(n, d, v, e) == [l \in 1..n |-> v[(l - 1) * d + e]]

(* They are integers, and in the vector.                                   *)
LEMMA MetFacts ==
  ASSUME NEW n \in Nat, NEW d \in Nat \ {0}, NEW v, IntVector(n * d, v), NEW e \in 1..d
  PROVE  IntVector(n, Met(n, d, v, e)) /\ \A l \in 1..n : (l - 1) * d + e \in 1..(n * d)
<1>1. \A l \in 1..n : (l - 1) * d + e \in 1..(n * d)
  <2> SUFFICES ASSUME NEW l \in 1..n PROVE (l - 1) * d + e \in 1..(n * d)
    OBVIOUS
  <2>1. l - 1 \in 0..(n - 1)
    OBVIOUS
  <2> QED BY <2>1, PartIndex
<1> QED BY <1>1 DEF IntVector, Met

(* Folding is an inner product with the coefficients.                      *)
LEMMA DotMet ==
  ASSUME NEW n, NEW d, NEW alpha, NEW v, NEW e
  PROVE  Dot(n, alpha, Met(n, d, v, e)) = SumTo(n, FoldTerms(n, d, alpha, v, e))
<1>1. FoldTerms(n, d, alpha, v, e) = [l \in 1..n |-> alpha[l] * Met(n, d, v, e)[l]]
  BY DEF FoldTerms, Met
<1> QED BY <1>1 DEF Dot

(* What FoldVector computes, up to multiples of LargeRingSize.             *)
LEMMA FoldVectorFacts ==
  ASSUME NEW n \in Nat \ {0}, NEW d \in Nat \ {0}, NEW alpha, Len(alpha) = n, IntVector(n, alpha),
         NEW v, IntVector(n * d, v)
  PROVE  /\ FoldVector(v, d, alpha) \in [1..d -> Int]
         /\ \A e \in 1..d :
              /\ FoldVector(v, d, alpha)[e] \in 0..(LargeRingSize - 1)
              /\ Same(LargeRingSize, FoldVector(v, d, alpha)[e], Dot(n, alpha, Met(n, d, v, e)))
              /\ Dot(n, alpha, Met(n, d, v, e)) \in Int
              /\ Dot(n, alpha, Met(n, d, v, e)) = SumTo(n, FoldTerms(n, d, alpha, v, e))
<1>1. ASSUME NEW e \in 1..d
      PROVE  /\ Dot(n, alpha, Met(n, d, v, e)) \in Int
             /\ Dot(n, alpha, Met(n, d, v, e)) = SumTo(n, FoldTerms(n, d, alpha, v, e))
             /\ FoldVector(v, d, alpha)[e] = LargeRing(Dot(n, alpha, Met(n, d, v, e)))
  <2>1. Dot(n, alpha, Met(n, d, v, e)) \in Int
    BY MetFacts, DotInt
  <2>2. FoldTerms(n, d, alpha, v, e) = [l \in 1..n |-> alpha[l] * Met(n, d, v, e)[l]]
    BY DEF FoldTerms, Met
  <2>3. FoldVector(v, d, alpha)[e] = LargeRing(SumTo(n, FoldTerms(n, d, alpha, v, e)))
    BY DEF FoldVector, FoldTerms
  <2> QED BY <2>1, <2>2, <2>3 DEF Dot
<1>2. ASSUME NEW e \in 1..d
      PROVE  /\ FoldVector(v, d, alpha)[e] \in 0..(LargeRingSize - 1)
             /\ FoldVector(v, d, alpha)[e] \in Int
             /\ Same(LargeRingSize, FoldVector(v, d, alpha)[e], Dot(n, alpha, Met(n, d, v, e)))
  BY <1>1, LargeRingFacts
<1>3. FoldVector(v, d, alpha) = [e \in 1..d |-> FoldVector(v, d, alpha)[e]]
  BY DEF FoldVector
<1>4. FoldVector(v, d, alpha) \in [1..d -> Int]
  <2>1. IntVector(d, FoldVector(v, d, alpha))
    BY <1>2 DEF IntVector
  <2> QED BY <1>3, <2>1, VectorIs
<1> QED BY <1>1, <1>2, <1>4

(* Folding keeps the dealer in step.                                       *)
LEMMA FoldedShares ==
  ASSUME NEW n \in Nat \ {0}, NEW d \in Nat \ {0}, n * d \in Nat,
         NEW beta, Len(beta) = n, IntVector(n, beta),
         NEW yy, InStep(n * d, yy),
         NEW y1, \A p \in Procs : y1[p] = FoldVector(yy[p], d, beta)
  PROVE  /\ InStep(d, y1) /\ IntVector(d, WholeVector(d, y1))
         /\ \A e \in 1..d : Same(LargeRingSize, WholeVector(d, y1)[e],
                                 SumTo(n, FoldTerms(n, d, beta, WholeVector(n * d, yy), e)))
<1> DEFINE W == WholeVector(n * d, yy)
<1>0. Parties = 1..nP /\ nP \in Nat /\ LargeRingSize \in Nat \ {0} /\ 0 \in Procs /\ \A p \in Parties : p \in Procs
  BY Moduli
<1>1. \A p \in Procs : IntVector(n * d, yy[p])
  BY VectorFacts DEF InStep
<1>2. IntVector(n * d, W) /\ \A k \in 1..(n * d) : W[k] = SumTo(nP, Column1(nP, yy, k)) /\ W[k] \in Int
  BY <1>0, <1>1, WholeFacts DEF WholeVector, IntVector
<1>3. \A p \in Procs : y1[p] \in [1..d -> Int] /\ IntVector(d, y1[p])
  BY <1>1, FoldVectorFacts, VectorFacts
<1> HIDE DEF W
<1>4. ASSUME NEW e \in 1..d
      PROVE  /\ y1[0][e] \in 0..(LargeRingSize - 1)
             /\ Same(LargeRingSize, y1[0][e], SumTo(nP, Column1(nP, y1, e)))
             /\ Same(LargeRingSize, SumTo(nP, Column1(nP, y1, e)), SumTo(n, FoldTerms(n, d, beta, W, e)))
  <2> DEFINE us == [p \in Parties |-> Met(n, d, yy[p], e)]
             ds == [p \in Parties |-> Dot(n, beta, us[p])]
             w  == Met(n, d, W, e)
             r  == Column1(nP, y1, e)
             t  == Dot(n, beta, w)
  <2>1. \A l \in 1..n : (l - 1) * d + e \in 1..(n * d)
    BY <1>2, MetFacts
  <2>2. \A l \in 1..n : w[l] = SumTo(nP, Column1(nP, us, l))
    <3> SUFFICES ASSUME NEW l \in 1..n PROVE w[l] = SumTo(nP, Column1(nP, us, l))
      OBVIOUS
    <3>1. \A p \in Parties : us[p][l] = yy[p][(l - 1) * d + e]
      BY DEF Met
    <3>2. Column1(nP, us, l) = Column1(nP, yy, (l - 1) * d + e)
      BY <3>1 DEF Column1, Parties
    <3>3. w[l] = W[(l - 1) * d + e]
      BY DEF Met
    <3> QED BY <1>2, <2>1, <3>2, <3>3
  <2>3. \A p \in 1..nP : IntVector(n, us[p]) /\ ds[p] = Dot(n, beta, us[p]) /\ us[p] = Met(n, d, yy[p], e)
    BY <1>0, <1>1, MetFacts
  <2>4. \A p \in 1..nP : r[p] = y1[p][e] /\ r[p] \in Int /\ Same(LargeRingSize, r[p], ds[p])
    <3> SUFFICES ASSUME NEW p \in Parties PROVE r[p] = y1[p][e] /\ r[p] \in Int /\ Same(LargeRingSize, r[p], ds[p])
      BY DEF Parties
    <3>1. r[p] = y1[p][e] /\ r[p] \in Int
      BY <1>0, <1>3 DEF Column1, IntVector
    <3>2. Same(LargeRingSize, y1[p][e], Dot(n, beta, Met(n, d, yy[p], e)))
      BY <1>0, <1>1, FoldVectorFacts
    <3> QED BY <3>1, <3>2
  <2>5. /\ y1[0][e] \in 0..(LargeRingSize - 1)
        /\ Same(LargeRingSize, y1[0][e], Dot(n, beta, Met(n, d, yy[0], e)))
    BY <1>0, <1>1, FoldVectorFacts
  <2>6. t = SumTo(n, FoldTerms(n, d, beta, W, e)) /\ IntVector(n, w)
    <3>1. IntVector(n * d, W)
      BY <1>2
    <3>2. Dot(n, beta, Met(n, d, W, e)) = SumTo(n, FoldTerms(n, d, beta, W, e))
      BY DotMet
    <3>3. IntVector(n, Met(n, d, W, e))
      BY <3>1, MetFacts
    <3> QED BY <3>2, <3>3
  <2>7. \A l \in 1..n : Same(LargeRingSize, Met(n, d, yy[0], e)[l], w[l])
    <3> SUFFICES ASSUME NEW l \in 1..n PROVE Same(LargeRingSize, Met(n, d, yy[0], e)[l], w[l])
      OBVIOUS
    <3>1. Met(n, d, yy[0], e)[l] = yy[0][(l - 1) * d + e] /\ w[l] = W[(l - 1) * d + e]
      BY DEF Met
    <3>2. (l - 1) * d + e \in 1..(n * d)
      BY <2>1
    <3>3. Same(LargeRingSize, yy[0][(l - 1) * d + e], W[(l - 1) * d + e])
      BY <1>2, <3>2 DEF InStep
    <3> QED BY <3>1, <3>3
  <2> HIDE DEF us, ds, w, r
  <2>8. Summed(nP, n, beta, us, w, ds)
    BY <2>2, <2>3 DEF Summed
  <2>9. t = SumTo(nP, ds) /\ IntVector(nP, ds)
    BY <1>0, <2>8, DotShares
  <2>10. IntVector(nP, r)
    BY <2>4 DEF IntVector
  <2>11. Same(LargeRingSize, SumTo(nP, r), SumTo(nP, ds))
    BY <1>0, <2>4, <2>9, <2>10, SumSameMod
  <2>12. Same(LargeRingSize, Dot(n, beta, Met(n, d, yy[0], e)), t)
    <3>1. IntVector(n, Met(n, d, yy[0], e))
      BY <1>0, <1>1, MetFacts
    <3> QED BY <1>0, <2>6, <2>7, <3>1, DotSame
  <2> HIDE DEF t
  <2>13. Same(LargeRingSize, y1[0][e], t) /\ Same(LargeRingSize, t, SumTo(nP, r))
    BY <2>5, <2>9, <2>11, <2>12 DEF Same
  <2> QED BY <2>5, <2>6, <2>13 DEF r, Same
<1>5. InStep(d, y1)
  BY <1>3, <1>4 DEF InStep
<1>6. IntVector(d, WholeVector(d, y1))
  BY <1>0, <1>3, WholeFacts
<1>7. \A e \in 1..d : WholeVector(d, y1)[e] = SumTo(nP, Column1(nP, y1, e))
  BY DEF WholeVector
<1> QED BY <1>4, <1>5, <1>6, <1>7 DEF W

-----------------------------------------------------------------------------
(* The claim: z is the product of x and y, but for df.                     *)
Claim(zm, zl) ==
  /\ zm \in Int /\ \A p \in Procs : zl[p] \in Int
  /\ zl[0] \in 0..(LargeRingSize - 1) /\ Same(LargeRingSize, zl[0], SumTo(nP, zl))

Ready(n, xx, c, yy, zm, zl, df) ==
  /\ xx \in [1..n -> Int] /\ InStep(c, yy) /\ Claim(zm, zl) /\ df \in 0..(LargeRingSize - 1)
  /\ Same(LargeRingSize, zm + SumTo(nP, zl), Dot(n, xx, WholeVector(c, yy)) + df)

(* What is claimed are integers.                                           *)
LEMMA ClaimFacts ==
  ASSUME NEW zm, NEW zl, Claim(zm, zl)
  PROVE  zm \in Int /\ IntVector(nP, zl) /\ SumTo(nP, zl) \in Int /\ \A p \in Procs : zl[p] \in Int
<1>1. IntVector(nP, zl)
  BY Moduli DEF Claim, IntVector
<1> QED BY <1>1, Moduli, SumInt DEF Claim

(* What shareSum returned for the products of the parts.                   *)
SumsOfParts(s, n, c, d, xx, yy, ns) ==
  /\ IntVector(n * c - 1, s.ms) /\ \A p \in Procs : IntVector(n * c - 1, s.ls[p])
  /\ \A k \in 1..(n * c - 1) :
       /\ Same(LargeRingSize, s.ms[k] + SumTo(nP, Column1(nP, s.ls, k)),
               GOf(n, c, d, xx, WholeVector(c * d, yy))[k + 1] + Bent(ns, k))
       /\ Same(LargeRingSize, s.ls[0][k], SumTo(nP, Column1(nP, s.ls, k)))

(* The deviation of an opening is an integer, of one entry.                *)
LEMMA BentFacts ==
  ASSUME Base, NEW ns
  PROVE  /\ \A k : Bent(ns, k) \in Int
         /\ (IF bend.sum = ns THEN bend.by ELSE 0) \in Int
         /\ \A k : Bent(ns, k) = Deviation(bend.entry, IF bend.sum = ns THEN bend.by ELSE 0, k)
BY BaseFacts DEF Bent, Deviation

(* The products of the parts are integers.                                 *)
LEMMA GInt ==
  ASSUME NEW n \in Nat \ {0}, NEW c \in Nat \ {0}, NEW d \in Nat \ {0},
         NEW xx, IntVector(n * d, xx), NEW W, IntVector(c * d, W)
  PROVE  IntVector(n * c, GOf(n, c, d, xx, W))
<1>1. RowByRow(n, c)
  BY PairFacts
<1>2. ASSUME NEW k \in 1..(n * c) PROVE GOf(n, c, d, xx, W)[k] \in Int
  <2>1. k - 1 \in 0..(n * c - 1) /\ n * c \in Nat
    BY <1>1 DEF RowByRow
  <2>2. Row(k - 1, c) \in 0..(n - 1) /\ Column(k - 1, c) \in 0..(c - 1)
    BY <1>1, <2>1 DEF RowByRow
  <2>3. IntVector(d, Slice(d, xx, Row(k - 1, c))) /\ IntVector(d, Slice(d, W, Column(k - 1, c)))
    BY <2>2, SliceFacts
  <2>4. GOf(n, c, d, xx, W)[k] = Dot(d, Slice(d, xx, Row(k - 1, c)), Slice(d, W, Column(k - 1, c)))
    BY PartTermsDot DEF GOf, Dot
  <2>5. Dot(d, Slice(d, xx, Row(k - 1, c)), Slice(d, W, Column(k - 1, c))) \in Int
    BY <2>3, DotInt
  <2> QED BY <2>4, <2>5
<1> QED BY <1>2 DEF IntVector

(* This is what shareSum does with the parts.                              *)
LEMMA SumParts ==
  ASSUME Base, NEW n \in Nat \ {0}, NEW c \in Nat \ {0}, NEW d \in Nat \ {0},
         NEW xx, NEW yy, NEW locals, NEW W, LocalParts(n, c, d, xx, yy, locals, W),
         NEW N, N = n * c - 1, ShareSum(locals, N)
  PROVE  SumsOfParts(sums', n, c, d, xx, yy, nsum + 1) /\ pos' = pos + N /\ nsum' = nsum + 1 /\ N \in Nat
<1>1. n * c \in Nat \ {0} /\ N \in Nat
  BY PairFacts DEF RowByRow
<1>2. IntVector(n * d, xx) /\ W = WholeVector(c * d, yy)
  BY DEF LocalParts
<1>3. /\ IntVector(c * d, W)
      /\ \A p \in Parties : IntVector(N, locals[p])
      /\ \A k \in 1..N : Same(LargeRingSize, SumTo(nP, Column1(nP, locals, k)), GOf(n, c, d, xx, W)[k + 1])
  BY PartShares
<1>4. SummedUp(sums', N, locals, nsum + 1) /\ pos' = pos + N /\ nsum' = nsum + 1
  BY <1>1, <1>3, ShareSumFacts
<1>5. ASSUME NEW k \in 1..N
      PROVE  Same(LargeRingSize, sums'.ms[k] + SumTo(nP, Column1(nP, sums'.ls, k)),
                  GOf(n, c, d, xx, W)[k + 1] + Bent(nsum + 1, k))
  <2>1. Same(LargeRingSize, sums'.ms[k] + SumTo(nP, Column1(nP, sums'.ls, k)),
             SumTo(nP, Column1(nP, locals, k)) + Bent(nsum + 1, k))
    BY <1>4 DEF SummedUp
  <2>2. SumTo(nP, Column1(nP, locals, k)) \in Int
    <3>1. \A p \in 1..nP : IntVector(N, locals[p])
      BY <1>3 DEF Parties
    <3> QED BY <1>1, <3>1, Moduli, ColumnInt
  <2>3. GOf(n, c, d, xx, W)[k + 1] \in Int
    <3>1. k + 1 \in 1..(n * c)
      BY <1>1
    <3>2. IntVector(n * c, GOf(n, c, d, xx, W))
      BY <1>2, <1>3, GInt
    <3> QED BY <3>1, <3>2 DEF IntVector
  <2>4. Same(LargeRingSize, Bent(nsum + 1, k), Bent(nsum + 1, k)) /\ Bent(nsum + 1, k) \in Int
    BY BentFacts DEF Same
  <2>5. Same(LargeRingSize, SumTo(nP, Column1(nP, locals, k)), GOf(n, c, d, xx, W)[k + 1])
    BY <1>3
  <2> DEFINE a == SumTo(nP, Column1(nP, locals, k))
             b == GOf(n, c, d, xx, W)[k + 1]
             e == Bent(nsum + 1, k)
  <2>6. a \in Int /\ b \in Int /\ e \in Int /\ Same(LargeRingSize, a, b) /\ Same(LargeRingSize, e, e)
    BY <2>2, <2>3, <2>4, <2>5
  <2>7. Same(LargeRingSize, a + e, b + e)
    <3> HIDE DEF a, b, e
    <3> QED BY <2>6, Moduli, SameOps
  <2> QED BY <2>1, <2>7 DEF Same
<1>6. n * c - 1 = N
  OBVIOUS
<1> QED BY <1>1, <1>2, <1>4, <1>5, <1>6 DEF SumsOfParts, SummedUp

-----------------------------------------------------------------------------
(* The public part and the shares of z, folded.                            *)
LEMMA SumOneMore ==
  ASSUME NEW P \in Nat, NEW u, IntVector(P, u), NEW v, \A p \in 1..P : v[p] = u[p], v[P + 1] \in Int
  PROVE  SumTo(P + 1, v) = v[P + 1] + SumTo(P, u) /\ IntVector(P + 1, v) /\ SumTo(P, u) \in Int
<1>1. IntVector(P + 1, v)
  <2>1. \A p \in 1..(P + 1) : p = P + 1 \/ p \in 1..P
    OBVIOUS
  <2> QED BY <2>1 DEF IntVector
<1>2. P + 1 \in 1..(P + 1) /\ (P + 1) - 1 = P /\ P + 1 \in Nat
  OBVIOUS
<1>3. SumTo(P + 1, v) = SumTo(P, v) + v[P + 1]
  BY <1>1, <1>2, SumFacts
<1>4. SumTo(P, u) = SumTo(P, v) /\ SumTo(P, u) \in Int
  BY SumSame, SumInt
<1> QED BY <1>1, <1>3, <1>4

(* FoldZ yields a number of the large ring.                                *)
LEMMA FoldZInt ==
  ASSUME NEW n \in Nat \ {0}, NEW c \in Nat, n <= c, NEW z \in Int, NEW zs, IntVector(n * c - 1, zs),
         NEW alpha, NEW beta, Len(alpha) = n, Len(beta) = c, IntVector(n, alpha), IntVector(c, beta)
  PROVE  FoldZ(z, zs, alpha, beta) \in Int /\ FoldZ(z, zs, alpha, beta) \in 0..(LargeRingSize - 1)
<1> DEFINE ext == [k \in 1..(n * c) |-> IF k = 1 THEN Remaining(z, zs, n, c) ELSE zs[k - 1]]
<1>1. Extended(n, c, z, zs, ext)
  <2>1. n * c - 1 \in Nat /\ 1 \in 1..(n * c) /\ n * c \in Nat
    BY Diagonal
  <2>2. \A k \in 1..(n * c - 1) : k + 1 \in 1..(n * c) /\ k + 1 # 1 /\ (k + 1) - 1 = k
    BY <2>1
  <2> QED BY <2>1, <2>2 DEF Extended
<1> HIDE DEF ext
<1>2. /\ FoldZ(z, zs, alpha, beta) = LargeRing(Dot(n * c, Coefs(n, c, alpha, beta), ext))
      /\ Dot(n * c, Coefs(n, c, alpha, beta), ext) \in Int
  BY <1>1, FoldZFacts
<1> QED BY <1>2, LargeRingFacts

TotalOf(N, s) == [k \in 1..N |-> s.ms[k] + SumTo(nP, Column1(nP, s.ls, k))]

(* The public part and the shares of z, folded one by one, sum to what     *)
(* folding z would yield.                                                  *)
LEMMA FoldZTotal ==
  ASSUME NEW n \in Nat \ {0}, NEW c \in Nat, n <= c, NEW N, N = n * c - 1,
         NEW zm, NEW zl, Claim(zm, zl),
         NEW s, IntVector(N, s.ms), \A p \in Procs : IntVector(N, s.ls[p]),
         NEW alpha, NEW beta, Len(alpha) = n, Len(beta) = c, IntVector(n, alpha), IntVector(c, beta),
         NEW z1, \A p \in Procs : z1[p] = FoldZ(zl[p], s.ls[p], alpha, beta)
  PROVE  /\ IntVector(N, TotalOf(N, s)) /\ SumTo(nP, z1) \in Int
         /\ Same(LargeRingSize, FoldZ(zm + SumTo(nP, zl), TotalOf(N, s), alpha, beta),
                 FoldZ(zm, s.ms, alpha, beta) + SumTo(nP, z1))
<1> DEFINE P   == nP + 1
           z   == [p \in 1..P |-> IF p = P THEN zm ELSE zl[p]]
           zs  == [p \in 1..P |-> IF p = P THEN s.ms ELSE s.ls[p]]
           out == [p \in 1..P |-> IF p = P THEN FoldZ(zm, s.ms, alpha, beta) ELSE z1[p]]
           T   == TotalOf(N, s)
<1>0. nP \in Nat /\ P \in Nat /\ P \in 1..P /\ (\A p \in 1..nP : p \in 1..P /\ p # P /\ p \in Procs)
      /\ (\A p \in 1..P : p = P \/ p \in 1..nP) /\ N \in Nat
  <2>1. N \in Nat
    BY Diagonal
  <2>2. nP \in Nat /\ Procs = 0..nP
    BY Moduli
  <2> QED BY <2>1, <2>2
<1>1. zm \in Int /\ IntVector(nP, zl) /\ SumTo(nP, zl) \in Int /\ \A p \in Procs : zl[p] \in Int
  BY ClaimFacts
<1>2. SumTo(P, z) = zm + SumTo(nP, zl) /\ IntVector(P, z)
  <2>1. z[nP + 1] = zm /\ \A p \in 1..nP : z[p] = zl[p]
    BY <1>0
  <2> HIDE DEF z
  <2> QED BY <1>0, <1>1, <2>1, SumOneMore
<1>3. \A p \in 1..P : IntVector(N, zs[p])
  BY <1>0
<1>4. ASSUME NEW k \in 1..N
      PROVE  T[k] = SumTo(P, Column1(P, zs, k)) /\ T[k] \in Int
  <2> DEFINE u == Column1(nP, s.ls, k)
             v == Column1(P, zs, k)
  <2>1. IntVector(nP, u)
    <3>1. \A p \in 1..nP : IntVector(N, s.ls[p])
      BY <1>0
    <3> QED BY <1>0, <3>1, ColumnInt
  <2>2. v[nP + 1] = s.ms[k] /\ \A p \in 1..nP : v[p] = u[p]
    BY <1>0 DEF Column1
  <2>3. s.ms[k] \in Int
    BY DEF IntVector
  <2>4. T[k] = s.ms[k] + SumTo(nP, u)
    BY DEF TotalOf
  <2> HIDE DEF u, v, T
  <2>5. SumTo(P, v) = s.ms[k] + SumTo(nP, u) /\ SumTo(nP, u) \in Int
    BY <1>0, <2>1, <2>2, <2>3, SumOneMore
  <2> QED BY <2>3, <2>4, <2>5 DEF v
<1>5. SharesOf(P, N, T, zs)
  <2>1. IntVector(N, T)
    BY <1>4 DEF IntVector
  <2> HIDE DEF T, zs
  <2> QED BY <1>3, <1>4, <2>1 DEF SharesOf, Same
<1>6. \A p \in 1..P : out[p] = FoldZ(z[p], zs[p], alpha, beta)
  <2>1. out[P] = FoldZ(z[P], zs[P], alpha, beta)
    BY <1>0
  <2>2. \A p \in 1..nP : out[p] = FoldZ(z[p], zs[p], alpha, beta)
    BY <1>0
  <2> HIDE DEF out, P
  <2> QED BY <1>0, <2>1, <2>2
<1>7. Same(LargeRingSize, zm + SumTo(nP, zl), SumTo(P, z)) /\ zm + SumTo(nP, zl) \in Int
  BY <1>1, <1>2 DEF Same
<1>7a. out[nP + 1] = FoldZ(zm, s.ms, alpha, beta) /\ \A p \in 1..nP : out[p] = z1[p]
  BY <1>0
<1> HIDE DEF z, zs, out, T
<1>8. IntVector(P, out) /\ Same(LargeRingSize, FoldZ(zm + SumTo(nP, zl), T, alpha, beta), SumTo(P, out))
  <2> DEFINE w == zm + SumTo(nP, zl)
  <2>1. SharesOf(P, n * c - 1, T, zs)
    BY <1>5
  <2>2. w \in Int /\ Same(LargeRingSize, w, SumTo(P, z)) /\ IntVector(P, z) /\ P \in Nat
    BY <1>0, <1>2, <1>7
  <2> HIDE DEF P, w
  <2>3. IntVector(P, out) /\ Same(LargeRingSize, FoldZ(w, T, alpha, beta), SumTo(P, out))
    BY <1>6, <2>1, <2>2, SharedFold
  <2> QED BY <2>3 DEF w
<1>9. SumTo(P, out) = FoldZ(zm, s.ms, alpha, beta) + SumTo(nP, z1) /\ SumTo(nP, z1) \in Int
  <2>1. IntVector(nP, z1) /\ out[nP + 1] \in Int
    BY <1>0, <1>7a, <1>8 DEF IntVector
  <2> QED BY <1>0, <1>7a, <2>1, SumOneMore
<1> QED BY <1>5, <1>8, <1>9 DEF SharesOf, T

-----------------------------------------------------------------------------
(* A fold keeps the claim.                                                 *)
Weights(n, alpha) == Len(alpha) = n /\ IntVector(n, alpha)

FoldedFrom(n, c, d, alpha, beta, xx, yy, zm, zl, s, x1, y1, zm1, z1) ==
  /\ x1 = FoldVector(xx, d, alpha)
  /\ \A p \in Procs : y1[p] = FoldVector(yy[p], d, beta)
  /\ zm1 = FoldZ(zm, s.ms, alpha, beta)
  /\ \A p \in Procs : z1[p] = FoldZ(zl[p], s.ls[p], alpha, beta)

ByIn(ns) == IF bend.sum = ns THEN bend.by ELSE 0

DefectOf(n, c, alpha, beta, df, ns) ==
  alpha[1] * beta[1] * (df - Lost(n, c, bend.entry, ByIn(ns))) + New(n, c, alpha, beta, bend.entry, ByIn(ns))

(* The dealer stays in step.                                               *)
LEMMA FoldClaim ==
  ASSUME NEW n \in Nat \ {0}, NEW c \in Nat, n <= c, NEW d, NEW xx, NEW yy, NEW zm, NEW zl, Claim(zm, zl),
         NEW s, NEW ns, SumsOfParts(s, n, c, d, xx, yy, ns),
         NEW alpha, NEW beta, Weights(n, alpha), Weights(c, beta),
         NEW x1, NEW y1, NEW zm1, NEW z1, FoldedFrom(n, c, d, alpha, beta, xx, yy, zm, zl, s, x1, y1, zm1, z1)
  PROVE  /\ Claim(zm1, z1) /\ IntVector(n * c - 1, TotalOf(n * c - 1, s))
         /\ Same(LargeRingSize, FoldZ(zm + SumTo(nP, zl), TotalOf(n * c - 1, s), alpha, beta),
                 zm1 + SumTo(nP, z1))
         /\ SumTo(nP, z1) \in Int
<1> DEFINE N == n * c - 1
           w == zl[0]
           ws == s.ls[0]
<1>0. nP \in Nat /\ 0 \in Procs /\ (\A p \in 1..nP : p \in Procs) /\ N \in Nat
  <2>1. N \in Nat
    BY Diagonal
  <2> QED BY <2>1, Moduli
<1>1. Len(alpha) = n /\ Len(beta) = c /\ IntVector(n, alpha) /\ IntVector(c, beta)
  BY DEF Weights
<1>2. IntVector(N, s.ms) /\ \A p \in Procs : IntVector(N, s.ls[p])
  BY DEF SumsOfParts
<1>3. \A k \in 1..N : Same(LargeRingSize, s.ls[0][k], SumTo(nP, Column1(nP, s.ls, k)))
  BY DEF SumsOfParts
<1>4. zm1 = FoldZ(zm, s.ms, alpha, beta) /\ \A p \in Procs : z1[p] = FoldZ(zl[p], s.ls[p], alpha, beta)
  BY DEF FoldedFrom
<1>5. zm \in Int /\ IntVector(nP, zl) /\ SumTo(nP, zl) \in Int /\ \A p \in Procs : zl[p] \in Int
  BY ClaimFacts
<1>6. IntVector(N, TotalOf(N, s)) /\ SumTo(nP, z1) \in Int
      /\ Same(LargeRingSize, FoldZ(zm + SumTo(nP, zl), TotalOf(N, s), alpha, beta), zm1 + SumTo(nP, z1))
  <2>1. N = n * c - 1
    OBVIOUS
  <2> HIDE DEF N
  <2> QED BY <1>1, <1>2, <1>4, <2>1, FoldZTotal
<1>7. zm1 \in Int
  BY <1>1, <1>2, <1>4, <1>5, FoldZInt
<1>8. \A p \in Procs : z1[p] \in Int /\ z1[p] \in 0..(LargeRingSize - 1)
  <2> SUFFICES ASSUME NEW p \in Procs PROVE z1[p] \in Int /\ z1[p] \in 0..(LargeRingSize - 1)
    OBVIOUS
  <2> QED BY <1>1, <1>2, <1>4, <1>5, FoldZInt
<1>9. Same(LargeRingSize, z1[0], SumTo(nP, z1))
  <2>1. w \in Int /\ Same(LargeRingSize, w, SumTo(nP, zl)) /\ IntVector(nP, zl)
    BY <1>0, <1>5 DEF Claim
  <2>2. SharesOf(nP, N, ws, s.ls)
    BY <1>0, <1>2, <1>3 DEF SharesOf
  <2>3. \A p \in 1..nP : z1[p] = FoldZ(zl[p], s.ls[p], alpha, beta)
    BY <1>0, <1>4
  <2>4. z1[0] = FoldZ(w, ws, alpha, beta)
    BY <1>0, <1>4
  <2> DEFINE zs == s.ls
  <2>5. SharesOf(nP, n * c - 1, ws, zs) /\ \A p \in 1..nP : z1[p] = FoldZ(zl[p], zs[p], alpha, beta)
    BY <2>2, <2>3
  <2> HIDE DEF w, ws, zs
  <2>6. Same(LargeRingSize, FoldZ(w, ws, alpha, beta), SumTo(nP, z1))
    BY <1>0, <1>1, <2>1, <2>5, SharedFold
  <2> QED BY <2>4, <2>6
<1> QED BY <1>0, <1>6, <1>7, <1>8, <1>9 DEF Claim

(* The folded vectors.                                                     *)
FoldSums(n, d, alpha, X, X1) == X1 = [e \in 1..d |-> SumTo(n, FoldTerms(n, d, alpha, X, e))]

(* FoldVector yields them, up to multiples of LargeRingSize.               *)
LEMMA FoldSumsFacts ==
  ASSUME NEW n \in Nat \ {0}, NEW d \in Nat \ {0}, NEW alpha, Weights(n, alpha),
         NEW X, IntVector(n * d, X), NEW X1, FoldSums(n, d, alpha, X, X1)
  PROVE  /\ FoldVector(X, d, alpha) \in [1..d -> Int] /\ IntVector(d, X1)
         /\ \A e \in 1..d : Same(LargeRingSize, FoldVector(X, d, alpha)[e], X1[e])
<1>1. Len(alpha) = n /\ IntVector(n, alpha)
  BY DEF Weights
<1>2. FoldVector(X, d, alpha) \in [1..d -> Int]
  BY <1>1, FoldVectorFacts
<1>3. ASSUME NEW e \in 1..d
      PROVE  /\ Same(LargeRingSize, FoldVector(X, d, alpha)[e], Dot(n, alpha, Met(n, d, X, e)))
             /\ Dot(n, alpha, Met(n, d, X, e)) \in Int
  BY <1>1, FoldVectorFacts
<1>4. \A e \in 1..d : X1[e] = Dot(n, alpha, Met(n, d, X, e))
  BY DotMet DEF FoldSums
<1>5. \A e \in 1..d : X1[e] \in Int /\ Same(LargeRingSize, FoldVector(X, d, alpha)[e], X1[e])
  BY <1>3, <1>4
<1>6. IntVector(d, X1)
  BY <1>5 DEF IntVector
<1> QED BY <1>2, <1>5, <1>6

(* The product of what the processes hold after folding is that of the     *)
(* folded vectors.                                                         *)
LEMMA FoldDot ==
  ASSUME NEW n \in Nat \ {0}, NEW c \in Nat \ {0}, NEW d \in Nat \ {0},
         NEW xx, xx \in [1..(n * d) -> Int], NEW yy, InStep(c * d, yy),
         NEW alpha, NEW beta, Weights(n, alpha), Weights(c, beta), NEW s, NEW zm, NEW zl,
         NEW x1, NEW y1, NEW zm1, NEW z1, FoldedFrom(n, c, d, alpha, beta, xx, yy, zm, zl, s, x1, y1, zm1, z1),
         NEW W, W = WholeVector(c * d, yy),
         NEW X1, FoldSums(n, d, alpha, xx, X1), NEW Y1, FoldSums(c, d, beta, W, Y1)
  PROVE  /\ x1 \in [1..d -> Int] /\ InStep(d, y1)
         /\ Same(LargeRingSize, Dot(d, x1, WholeVector(d, y1)), Dot(d, X1, Y1))
         /\ Dot(d, x1, WholeVector(d, y1)) \in Int /\ Dot(d, X1, Y1) \in Int
<1> DEFINE W1 == WholeVector(d, y1)
<1>0. n * d \in Nat /\ c * d \in Nat /\ LargeRingSize \in Nat \ {0} /\ (\A p \in Parties : p \in Procs)
  BY PairFacts, Moduli DEF RowByRow
<1>1. Len(alpha) = n /\ Len(beta) = c /\ IntVector(n, alpha) /\ IntVector(c, beta)
  BY DEF Weights
<1>2. IntVector(n * d, xx)
  BY <1>0, VectorFacts
<1>3. x1 \in [1..d -> Int] /\ (\A e \in 1..d : Same(LargeRingSize, x1[e], X1[e])) /\ IntVector(d, X1)
  <2>1. x1 = FoldVector(xx, d, alpha)
    BY DEF FoldedFrom
  <2> QED BY <1>2, <2>1, FoldSumsFacts
<1>4. InStep(d, y1) /\ IntVector(d, W1)
      /\ \A e \in 1..d : Same(LargeRingSize, W1[e], SumTo(c, FoldTerms(c, d, beta, W, e)))
  BY <1>0, <1>1, FoldedShares DEF FoldedFrom
<1>5. IntVector(c * d, W)
  <2>1. \A p \in Parties : IntVector(c * d, yy[p])
    BY <1>0, VectorFacts DEF InStep
  <2> QED BY <1>0, <2>1, WholeFacts
<1>6. \A e \in 1..d : Same(LargeRingSize, W1[e], Y1[e])
  BY <1>4 DEF FoldSums
<1> HIDE DEF W1
<1>7. IntVector(d, x1) /\ IntVector(d, X1) /\ IntVector(d, Y1) /\ IntVector(d, W1)
  <2>1. IntVector(d, Y1)
    BY <1>5, FoldSumsFacts
  <2> QED BY <1>3, <1>4, <2>1 DEF IntVector
<1>8. Same(LargeRingSize, Dot(d, x1, W1), Dot(d, x1, Y1))
  BY <1>0, <1>6, <1>7, DotSame
<1>9. Same(LargeRingSize, Dot(d, Y1, x1), Dot(d, Y1, X1))
  BY <1>0, <1>3, <1>7, DotSame
<1>10. Dot(d, x1, Y1) = Dot(d, Y1, x1) /\ Dot(d, Y1, X1) = Dot(d, X1, Y1) /\ Dot(d, x1, W1) \in Int /\ Dot(d, X1, Y1) \in Int
  BY <1>7, DotInt
<1> QED BY <1>3, <1>4, <1>8, <1>9, <1>10 DEF Same, W1

(* Folding keeps the claim, but for what it makes of the defect.           *)
LEMMA FoldStep ==
  ASSUME Base, NEW n \in Nat \ {0}, NEW c \in Nat, n <= c, NEW d \in Nat \ {0},
         NEW xx, NEW yy, NEW zm, NEW zl, NEW df, Ready(n * d, xx, c * d, yy, zm, zl, df),
         NEW s, NEW ns, SumsOfParts(s, n, c, d, xx, yy, ns),
         NEW alpha, NEW beta, Weights(n, alpha), Weights(c, beta),
         NEW x1, NEW y1, NEW zm1, NEW z1, FoldedFrom(n, c, d, alpha, beta, xx, yy, zm, zl, s, x1, y1, zm1, z1),
         NEW df1, df1 = LargeRing(DefectOf(n, c, alpha, beta, df, ns))
  PROVE  Ready(d, x1, d, y1, zm1, z1, df1)
<1> DEFINE N == n * c - 1
           W == WholeVector(c * d, yy)
           W1 == WholeVector(d, y1)
           G == GOf(n, c, d, xx, W)
           T == TotalOf(N, s)
           z == zm + SumTo(nP, zl)
           X1 == [e \in 1..d |-> SumTo(n, FoldTerms(n, d, alpha, xx, e))]
           Y1 == [e \in 1..d |-> SumTo(c, FoldTerms(c, d, beta, W, e))]
           entry == bend.entry
           by == ByIn(ns)
           D1 == DefectOf(n, c, alpha, beta, df, ns)
<1>0. /\ n * d \in Nat /\ c * d \in Nat /\ LargeRingSize \in Nat \ {0} /\ (\A p \in Parties : p \in Procs)
      /\ c \in Nat \ {0} /\ N \in Nat
  <2>1. c \in Nat \ {0}
    OBVIOUS
  <2>2. N \in Nat
    BY Diagonal
  <2> QED BY <2>1, <2>2, PairFacts, Moduli DEF RowByRow
<1>1. /\ xx \in [1..(n * d) -> Int] /\ InStep(c * d, yy) /\ Claim(zm, zl) /\ df \in 0..(LargeRingSize - 1)
      /\ Same(LargeRingSize, z, Dot(n * d, xx, W) + df)
  BY DEF Ready
<1>2. IntVector(n * d, xx) /\ IntVector(c * d, W)
  <2>1. \A p \in Parties : IntVector(c * d, yy[p])
    BY <1>0, <1>1, VectorFacts DEF InStep
  <2> QED BY <1>0, <1>1, <2>1, VectorFacts, WholeFacts
<1>3. Len(alpha) = n /\ Len(beta) = c /\ IntVector(n, alpha) /\ IntVector(c, beta)
  BY DEF Weights
<1>4. Claim(zm1, z1) /\ IntVector(N, T) /\ SumTo(nP, z1) \in Int
      /\ Same(LargeRingSize, FoldZ(z, T, alpha, beta), zm1 + SumTo(nP, z1))
  BY <1>1, FoldClaim
<1>5. x1 \in [1..d -> Int] /\ InStep(d, y1)
      /\ Same(LargeRingSize, Dot(d, x1, W1), Dot(d, X1, Y1))
      /\ Dot(d, x1, W1) \in Int /\ Dot(d, X1, Y1) \in Int
  <2>1. W = WholeVector(c * d, yy) /\ FoldSums(n, d, alpha, xx, X1) /\ FoldSums(c, d, beta, W, Y1)
    BY DEF FoldSums
  <2> HIDE DEF W, X1, Y1
  <2> QED BY <1>0, <1>1, <2>1, FoldDot
<1>6. entry \in Nat /\ by \in Int /\ z \in Int /\ df \in Int
  BY <1>0, <1>1, BaseFacts, ClaimFacts DEF ByIn
<1>7. Products1(n, c, T, G, entry, by)
  <2>1. \A k \in 1..N : T[k] = s.ms[k] + SumTo(nP, Column1(nP, s.ls, k))
    BY DEF TotalOf
  <2>2. \A k \in 1..N : Same(LargeRingSize, s.ms[k] + SumTo(nP, Column1(nP, s.ls, k)), G[k + 1] + Bent(ns, k))
    BY DEF SumsOfParts
  <2>3. \A k : Bent(ns, k) = Deviation(entry, by, k)
    BY BentFacts DEF ByIn
  <2> HIDE DEF T, G, entry, by
  <2> QED BY <1>4, <2>1, <2>2, <2>3 DEF Products1
<1>8. Folded(n, d, alpha, xx, X1) /\ Folded(c, d, beta, W, Y1) /\ Parted(n, c, d, xx, W, G)
  BY DEF Folded, Parted, GOf
<1>9. D1 = alpha[1] * beta[1] * (df - Lost(n, c, entry, by)) + New(n, c, alpha, beta, entry, by)
  BY DEF DefectOf
<1> HIDE DEF W, W1, G, T, X1, Y1, entry, by, z, D1
<1>10. Same(LargeRingSize, z, Dot(n * d, xx, W) + df)
  BY <1>1
<1>11. /\ Same(LargeRingSize, FoldZ(z, T, alpha, beta), Dot(d, X1, Y1) + D1)
       /\ D1 \in Int
  <2>1. /\ Same(LargeRingSize, FoldZ(z, T, alpha, beta),
                 Dot(d, X1, Y1) + (alpha[1] * beta[1] * (df - Lost(n, c, entry, by))
                                     + New(n, c, alpha, beta, entry, by)))
         /\ alpha[1] * beta[1] * (df - Lost(n, c, entry, by)) \in Int
         /\ New(n, c, alpha, beta, entry, by) \in Int
    BY <1>2, <1>3, <1>6, <1>7, <1>8, <1>10, FoldDefect
  <2> QED BY <1>9, <2>1
<1>12. df1 \in 0..(LargeRingSize - 1) /\ df1 \in Int /\ Same(LargeRingSize, D1, df1)
  BY <1>11, LargeRingFacts DEF D1
<1>13. Same(LargeRingSize, Dot(d, X1, Y1) + D1, Dot(d, x1, W1) + df1)
  <2> DEFINE a == Dot(d, X1, Y1)
             b == Dot(d, x1, W1)
  <2>1. a \in Int /\ b \in Int /\ Same(LargeRingSize, a, b)
    BY <1>5 DEF Same
  <2> HIDE DEF a, b
  <2>2. Same(LargeRingSize, a + D1, b + df1)
    BY <1>0, <1>11, <1>12, <2>1, SameOps
  <2> QED BY <2>2 DEF a, b
<1>14. Same(LargeRingSize, zm1 + SumTo(nP, z1), Dot(d, x1, W1) + df1)
  BY <1>4, <1>11, <1>13 DEF Same
<1> QED BY <1>4, <1>5, <1>12, <1>14 DEF Ready, W1

-----------------------------------------------------------------------------
(* The coefficients.                                                       *)
LEMMA CoefficientsFacts ==
  ASSUME Base, NEW k \in Int, NEW n \in Nat
  PROVE  /\ Coefficients(k, n) \in [1..n -> Int] /\ Weights(n, Coefficients(k, n))
         /\ \A l \in 1..n : Coefficients(k, n)[l] = LargeRing(Draw(0, 2 * Len(gates) + k + l))
<1>1. \A l \in 1..n : LargeRing(Draw(0, 2 * Len(gates) + k + l)) \in Int
  <2> SUFFICES ASSUME NEW l \in 1..n PROVE LargeRing(Draw(0, 2 * Len(gates) + k + l)) \in Int
    OBVIOUS
  <2>1. 0 \in Procs /\ 2 * Len(gates) + k + l \in Int
    BY BaseFacts, Moduli
  <2> QED BY <2>1, DrawFacts, LargeRingFacts
<1>2. Coefficients(k, n) \in [1..n -> Int]
  BY <1>1 DEF Coefficients
<1>3. Weights(n, Coefficients(k, n))
  BY <1>2, VectorFacts DEF Weights
<1> QED BY <1>2, <1>3 DEF Coefficients

(* A sequence of integers as a vector.                                     *)
LEMMA SeqVector ==
  ASSUME NEW n \in Nat, NEW s \in Seq(Int), Len(s) = n
  PROVE  s \in [1..n -> Int]
OBVIOUS

(* A vector with an element appended.                                      *)
LEMMA AppendFacts ==
  ASSUME NEW n \in Nat, NEW v \in [1..n -> Int], NEW a \in Int
  PROVE  /\ Append(v, a) \in [1..(n + 1) -> Int] /\ Append(v, a)[n + 1] = a
         /\ \A k \in 1..n : Append(v, a)[k] = v[k]
<1>1. v \in Seq(Int) /\ Len(v) = n
  BY VectorFacts
<1>2. Append(v, a) \in Seq(Int) /\ Len(Append(v, a)) = n + 1
  BY <1>1
<1>3. Append(v, a)[n + 1] = a /\ \A k \in 1..n : Append(v, a)[k] = v[k]
  BY <1>1
<1>4. Append(v, a) \in [1..(n + 1) -> Int]
  <2> DEFINE t == Append(v, a)
             k == n + 1
  <2>1. t \in Seq(Int) /\ Len(t) = k /\ k \in Nat
    BY <1>2
  <2> HIDE DEF t, k
  <2>2. t \in [1..k -> Int]
    BY <2>1, SeqVector
  <2> QED BY <2>2 DEF t, k
<1> QED BY <1>3, <1>4

(* The coefficients of the triple, with 1 for the appended entry.          *)
LEMMA AppendWeights ==
  ASSUME NEW n \in Nat, NEW v \in [1..n -> Int]
  PROVE  Weights(n + 1, Append(v, 1))
<1>1. Append(v, 1) \in [1..(n + 1) -> Int] /\ n + 1 \in Nat
  BY AppendFacts
<1> QED BY <1>1, VectorFacts DEF Weights

(* NextDefect is what a fold makes of the defect.                          *)
LEMMA NextDefectFacts ==
  ASSUME Base, NEW n \in Nat \ {0}, NEW c \in Nat, n <= c, NEW alpha, NEW beta,
         Weights(n, alpha), Weights(c, beta)
  PROVE  NextDefect(alpha, beta) = LargeRing(DefectOf(n, c, alpha, beta, defect, nsum))
<1> DEFINE in   == bend.entry \in 1..(n * c - 1)
           hit  == bend.sum = nsum /\ in
           i    == Row(bend.entry, c)
           j    == Column(bend.entry, c)
           lost == IF hit /\ i = j THEN bend.by ELSE 0
           new  == IF hit THEN alpha[i + 1] * beta[j + 1] * bend.by ELSE 0
<1>1. Len(alpha) = n /\ Len(beta) = c /\ IntVector(n, alpha) /\ IntVector(c, beta)
  BY DEF Weights
<1>2. NextDefect(alpha, beta) = LargeRing(alpha[1] * beta[1] * (defect - lost) + new)
  BY <1>1 DEF NextDefect
<1>3. lost = Lost(n, c, bend.entry, ByIn(nsum))
  BY DEF Lost, ByIn
<1>4. new = New(n, c, alpha, beta, bend.entry, ByIn(nsum))
  <2>1. CASE hit
    BY <2>1 DEF New, ByIn
  <2>2. CASE ~in
    BY <2>2 DEF New
  <2>3. CASE in /\ bend.sum # nsum
    <3>1. i \in 0..(n - 1) /\ j \in 0..(c - 1)
      <4>1. RowByRow(n, c) /\ c \in Nat \ {0}
        BY PairFacts
      <4>2. bend.entry \in 0..(n * c - 1)
        BY <2>3
      <4> QED BY <4>1, <4>2 DEF RowByRow
    <3>2. alpha[i + 1] \in Int /\ beta[j + 1] \in Int
      <4>1. i + 1 \in 1..n /\ j + 1 \in 1..c
        BY <3>1
      <4> QED BY <1>1, <4>1 DEF IntVector
    <3>3. ByIn(nsum) = 0
      BY <2>3 DEF ByIn
    <3>4. New(n, c, alpha, beta, bend.entry, ByIn(nsum)) = alpha[i + 1] * beta[j + 1] * 0
      BY <2>3, <3>3 DEF New
    <3>5. alpha[i + 1] * beta[j + 1] * 0 = 0
      BY <3>2
    <3>6. new = 0
      BY <2>3
    <3> QED BY <3>4, <3>5, <3>6
  <2> QED BY <2>1, <2>2, <2>3
<1> HIDE DEF lost, new
<1> QED BY <1>2, <1>3, <1>4 DEF DefectOf

-----------------------------------------------------------------------------
(* Padding with zeros changes no product.                                  *)
Prolonged(n, N, v, w) == \A k \in 1..N : w[k] = IF k <= n THEN v[k] ELSE 0

(* The zeros do not count in a sum.                                        *)
LEMMA SumProlonged ==
  ASSUME NEW n \in Nat, NEW N \in Nat, n <= N, NEW v, IntVector(n, v), NEW w, Prolonged(n, N, v, w)
  PROVE  SumTo(N, w) = SumTo(n, v) /\ IntVector(N, w)
<1> DEFINE b == N - n
           t == [k \in 1..b |-> w[n + k]]
<1>1. b \in Nat /\ n + b = N
  OBVIOUS
<1>2. \A k \in 1..b : t[k] = 0
  <2> SUFFICES ASSUME NEW k \in 1..b PROVE w[n + k] = 0
    OBVIOUS
  <2>1. n + k \in 1..N /\ ~(n + k <= n)
    OBVIOUS
  <2> QED BY <2>1 DEF Prolonged
<1>3. IntVector(N, w)
  <2> SUFFICES ASSUME NEW k \in 1..N PROVE w[k] \in Int
    BY DEF IntVector
  <2>1. k <= n => k \in 1..n
    OBVIOUS
  <2> QED BY <2>1 DEF IntVector, Prolonged
<1>4. Shifted(n, b, w, t)
  BY DEF Shifted
<1> HIDE DEF b, t
<1>5. SumTo(n + b, w) = SumTo(n, w) + SumTo(b, t)
  BY <1>1, <1>3, <1>4, SumConcat
<1>6. SumTo(b, t) = 0
  BY <1>1, <1>2, SumZeros
<1>7. SumTo(n, w) = SumTo(n, v) /\ SumTo(n, v) \in Int
  <2>1. \A k \in 1..n : v[k] = w[k]
    <3> SUFFICES ASSUME NEW k \in 1..n PROVE v[k] = w[k]
      OBVIOUS
    <3>1. k \in 1..N /\ k <= n
      OBVIOUS
    <3> QED BY <3>1 DEF Prolonged
  <2> QED BY <2>1, SumSame, SumInt
<1> QED BY <1>1, <1>3, <1>5, <1>6, <1>7

(* They do not count in an inner product.                                  *)
LEMMA DotProlonged ==
  ASSUME NEW n \in Nat, NEW N \in Nat, n <= N, NEW u, NEW v, IntVector(n, u), IntVector(n, v),
         NEW u1, NEW v1, Prolonged(n, N, u, u1), Prolonged(n, N, v, v1)
  PROVE  Dot(N, u1, v1) = Dot(n, u, v)
<1> DEFINE p  == [k \in 1..n |-> u[k] * v[k]]
           p1 == [k \in 1..N |-> u1[k] * v1[k]]
<1>1. IntVector(n, p)
  BY DotInt
<1>2. Prolonged(n, N, p, p1)
  <2> SUFFICES ASSUME NEW k \in 1..N PROVE p1[k] = IF k <= n THEN p[k] ELSE 0
    BY DEF Prolonged
  <2>1. u1[k] = (IF k <= n THEN u[k] ELSE 0) /\ v1[k] = (IF k <= n THEN v[k] ELSE 0)
    BY DEF Prolonged
  <2>2. k <= n => k \in 1..n
    OBVIOUS
  <2> QED BY <2>1, <2>2
<1> HIDE DEF p, p1
<1>3. SumTo(N, p1) = SumTo(n, p)
  BY <1>1, <1>2, SumProlonged
<1> QED BY <1>3 DEF Dot, p, p1

(* D entries in each of C parts are enough for all, and Padded fills up    *)
(* with zeros.                                                             *)
LEMMA DFacts ==
  ASSUME Base, NEW n \in Nat \ {0}, NEW v \in [1..n -> Int]
  PROVE  /\ D(v) \in Nat \ {0} /\ n <= D(v) * C /\ D(v) * C \in Nat /\ D(v) * C = C * D(v)
         /\ \A w \in [1..n -> Int] : D(w) = D(v)
         /\ Padded(v) \in [1..(D(v) * C) -> Int] /\ Prolonged(n, D(v) * C, v, Padded(v))
<1> DEFINE q == n \div C
           r == n % C
           d == q + (IF r # 0 THEN 1 ELSE 0)
<1>1. C \in Nat \ {0} /\ C >= 2 /\ n \in Nat
  BY BaseFacts
<1>2. \A w \in [1..n -> Int] : Len(w) = n /\ D(w) = d
  BY <1>1, VectorFacts DEF D
<1>3. q \in Int /\ r \in 0..(C - 1) /\ n = (C * q) + r
  BY <1>1, DivFacts
<1>4. q >= 0
  <2> SUFFICES ASSUME q <= -1 PROVE FALSE
    BY <1>3
  <2> HIDE DEF q, r
  <2>1. C * q <= -C
    <3>1. C * (q + 1) <= 0
      BY <1>1, <1>3
    <3>2. C * (q + 1) = C * q + C
      BY <1>1, <1>3
    <3> QED BY <1>1, <1>3, <3>1, <3>2
  <2> QED BY <1>1, <1>3, <2>1
<1>5. d \in Nat
  BY <1>3, <1>4
<1>6. d * C = C * d /\ C * d \in Nat /\ n <= C * d /\ d # 0
  <2> HIDE DEF q, r
  <2>1. C * q \in Nat
    BY <1>1, <1>3, <1>4
  <2>2. CASE r = 0
    <3>1. d = q /\ n = C * q
      BY <1>1, <1>3, <2>1, <2>2
    <3>2. q # 0
      BY <1>1, <3>1
    <3> QED BY <1>1, <1>5, <2>1, <3>1, <3>2
  <2>3. CASE r # 0
    <3>1. d = q + 1
      BY <2>3
    <3>2. C * (q + 1) = C * q + C
      BY <1>1, <1>3
    <3>3. (q + 1) * C = C * (q + 1)
      BY <1>1, <1>3
    <3> QED BY <1>1, <1>3, <1>4, <2>1, <3>1, <3>2, <3>3
  <2> QED BY <2>2, <2>3
<1> HIDE DEF d
<1>7. Padded(v) = [k \in 1..(d * C) |-> IF k <= n THEN v[k] ELSE 0]
  BY <1>2 DEF Padded
<1>8. Padded(v) \in [1..(d * C) -> Int]
  <2>1. \A k \in 1..(d * C) : (IF k <= n THEN v[k] ELSE 0) \in Int
    <3> SUFFICES ASSUME NEW k \in 1..(d * C) PROVE (IF k <= n THEN v[k] ELSE 0) \in Int
      OBVIOUS
    <3>1. k <= n => k \in 1..n
      BY <1>6
    <3> QED BY <3>1
  <2> QED BY <1>7, <2>1
<1>9. Prolonged(n, d * C, v, Padded(v))
  BY <1>7 DEF Prolonged
<1>10. D(v) = d
  BY <1>2
<1> QED BY <1>2, <1>5, <1>6, <1>8, <1>9, <1>10

-----------------------------------------------------------------------------
(* The claim survives padding and the appended entry.                      *)
LEMMA ReadyFacts ==
  ASSUME NEW n \in Nat, NEW xx, NEW c \in Nat, NEW yy, NEW zm, NEW zl, NEW df, Ready(n, xx, c, yy, zm, zl, df)
  PROVE  /\ IntVector(n, xx) /\ IntVector(c, WholeVector(c, yy))
         /\ \A p \in Procs : yy[p] \in [1..c -> Int] /\ IntVector(c, yy[p])
         /\ Len(xx) = n /\ Len(yy[0]) = c /\ xx \in [1..n -> Int] /\ InStep(c, yy) /\ Claim(zm, zl)
<1>1. xx \in [1..n -> Int] /\ InStep(c, yy) /\ Claim(zm, zl)
  BY DEF Ready
<1>2. \A p \in Procs : yy[p] \in [1..c -> Int]
  BY <1>1 DEF InStep
<1>3. \A p \in Procs : IntVector(c, yy[p]) /\ Len(yy[p]) = c
  BY <1>2, VectorFacts
<1>4. IntVector(c, WholeVector(c, yy))
  <2>1. \A p \in Parties : p \in Procs
    BY Moduli
  <2> QED BY <1>3, <2>1, WholeFacts
<1>5. IntVector(n, xx) /\ Len(xx) = n
  BY <1>1, VectorFacts
<1>6. 0 \in Procs
  BY Moduli
<1> QED BY <1>1, <1>2, <1>3, <1>4, <1>5, <1>6

(* The claim is about the product only.                                    *)
LEMMA SameClaim ==
  ASSUME NEW n, NEW xx, NEW c, NEW yy, NEW zm, NEW zl, NEW df, Ready(n, xx, c, yy, zm, zl, df),
         NEW n1, NEW x1, NEW c1, NEW y1, x1 \in [1..n1 -> Int], InStep(c1, y1),
         Dot(n1, x1, WholeVector(c1, y1)) = Dot(n, xx, WholeVector(c, yy))
  PROVE  Ready(n1, x1, c1, y1, zm, zl, df)
BY DEF Ready

(* Padding changes no product, so the claim is kept.                       *)
LEMMA PaddedReady ==
  ASSUME Base, NEW n \in Nat \ {0}, NEW xx, NEW yy, NEW zm, NEW zl, NEW df, Ready(n, xx, n, yy, zm, zl, df),
         NEW ys, \A p \in Procs : ys[p] = Padded(yy[p]), NEW d, d = D(xx)
  PROVE  Ready(C * d, Padded(xx), C * d, ys, zm, zl, df) /\ d \in Nat \ {0} /\ d = D(yy[0])
<1> DEFINE N == C * d
           xs == Padded(xx)
           W == WholeVector(n, yy)
           V == WholeVector(N, ys)
<1>0. n \in Nat /\ nP \in Nat /\ Parties = 1..nP /\ 0 \in Procs /\ (\A p \in Parties : p \in Procs)
  BY Moduli
<1>1. /\ IntVector(n, xx) /\ IntVector(n, W) /\ \A p \in Procs : yy[p] \in [1..n -> Int] /\ IntVector(n, yy[p])
      /\ xx \in [1..n -> Int] /\ InStep(n, yy)
  BY <1>0, ReadyFacts
<1>2. d \in Nat \ {0} /\ n <= N /\ N \in Nat /\ xs \in [1..N -> Int] /\ Prolonged(n, N, xx, xs)
      /\ \A w \in [1..n -> Int] : D(w) = d
  BY <1>1, DFacts
<1>3. \A p \in Procs : ys[p] \in [1..N -> Int] /\ Prolonged(n, N, yy[p], ys[p])
  <2> SUFFICES ASSUME NEW p \in Procs PROVE ys[p] \in [1..N -> Int] /\ Prolonged(n, N, yy[p], ys[p])
    OBVIOUS
  <2>1. yy[p] \in [1..n -> Int] /\ ys[p] = Padded(yy[p])
    BY <1>1
  <2>2. D(yy[p]) = d
    BY <1>2, <2>1
  <2>3. D(yy[p]) * C = C * D(yy[p]) /\ Padded(yy[p]) \in [1..(D(yy[p]) * C) -> Int]
        /\ Prolonged(n, D(yy[p]) * C, yy[p], Padded(yy[p]))
    BY <2>1, DFacts
  <2> QED BY <2>1, <2>2, <2>3
<1> HIDE DEF N, xs
<1>4. ASSUME NEW k \in 1..N, k <= n
      PROVE  SumTo(nP, Column1(nP, ys, k)) = SumTo(nP, Column1(nP, yy, k)) /\ ys[0][k] = yy[0][k] /\ k \in 1..n
  <2>1. \A p \in Procs : ys[p][k] = yy[p][k]
    BY <1>3, <1>4 DEF Prolonged
  <2>2. Column1(nP, ys, k) = Column1(nP, yy, k)
    BY <1>0, <2>1 DEF Column1
  <2> QED BY <1>0, <1>4, <2>1, <2>2
<1>5. ASSUME NEW k \in 1..N, ~(k <= n)
      PROVE  SumTo(nP, Column1(nP, ys, k)) = 0 /\ ys[0][k] = 0
  <2>1. \A p \in Procs : ys[p][k] = 0
    BY <1>3, <1>5 DEF Prolonged
  <2>2. \A p \in 1..nP : Column1(nP, ys, k)[p] = 0
    BY <1>0, <2>1 DEF Column1
  <2> QED BY <1>0, <2>1, <2>2, SumZeros
<1>6. InStep(N, ys)
  <2>1. ASSUME NEW k \in 1..N
        PROVE  ys[0][k] \in 0..(LargeRingSize - 1) /\ Same(LargeRingSize, ys[0][k], SumTo(nP, Column1(nP, ys, k)))
    <3>1. CASE k <= n
      BY <1>1, <1>4, <3>1 DEF InStep
    <3>2. CASE ~(k <= n)
      BY <1>5, <3>2, Moduli DEF Same
    <3> QED BY <3>1, <3>2
  <2> QED BY <1>3, <2>1 DEF InStep
<1>7. Prolonged(n, N, W, V)
  <2>1. \A k \in 1..N : k <= n => k \in 1..n
    BY <1>0
  <2> QED BY <1>4, <1>5, <2>1 DEF Prolonged, WholeVector
<1> HIDE DEF W, V
<1>8. Dot(N, xs, V) = Dot(n, xx, W)
  BY <1>0, <1>1, <1>2, <1>7, DotProlonged
<1>9. Ready(N, xs, N, ys, zm, zl, df)
  BY <1>2, <1>6, <1>8, SameClaim DEF W, V
<1> QED BY <1>0, <1>1, <1>2, <1>9 DEF N, xs

(* Nor does an entry that x has no counterpart of.                         *)
LEMMA AppendedReady ==
  ASSUME NEW d \in Nat \ {0}, NEW xx, NEW yy, NEW zm, NEW zl, NEW df, Ready(d, xx, d, yy, zm, zl, df),
         NEW r, \A p \in Procs : r[p] \in Int, r[0] \in 0..(LargeRingSize - 1),
         Same(LargeRingSize, r[0], SumTo(nP, r)),
         NEW ys, \A p \in Procs : ys[p] = Append(yy[p], r[p])
  PROVE  Ready(d, xx, d + 1, ys, zm, zl, df)
<1> DEFINE n == d + 1
<1>0. d \in Nat /\ n \in Nat /\ n \in 1..n /\ (\A k \in 1..n : k = n \/ k \in 1..d)
      /\ nP \in Nat /\ Parties = 1..nP /\ 0 \in Procs /\ (\A p \in Parties : p \in Procs) /\ (\A k \in 1..d : k \in 1..n)
  BY Moduli
<1>1. /\ \A p \in Procs : yy[p] \in [1..d -> Int]
      /\ xx \in [1..d -> Int] /\ InStep(d, yy) /\ IntVector(d, xx)
      /\ IntVector(d, WholeVector(d, yy))
  BY <1>0, ReadyFacts
<1>2. \A p \in Procs : ys[p] \in [1..n -> Int] /\ ys[p][n] = r[p] /\ \A k \in 1..d : ys[p][k] = yy[p][k]
  <2> SUFFICES ASSUME NEW p \in Procs
               PROVE  ys[p] \in [1..n -> Int] /\ ys[p][n] = r[p] /\ \A k \in 1..d : ys[p][k] = yy[p][k]
    OBVIOUS
  <2>1. yy[p] \in [1..d -> Int] /\ r[p] \in Int /\ ys[p] = Append(yy[p], r[p])
    BY <1>1
  <2> DEFINE v == yy[p]
             a == r[p]
  <2>2. v \in [1..d -> Int] /\ a \in Int
    BY <2>1
  <2> HIDE DEF v, a
  <2>3. /\ Append(v, a) \in [1..(d + 1) -> Int] /\ Append(v, a)[d + 1] = a
        /\ \A k \in 1..d : Append(v, a)[k] = v[k]
    BY <1>0, <2>2, AppendFacts
  <2>4. ys[p] = Append(v, a) /\ a = r[p] /\ v = yy[p]
    BY <2>1 DEF v, a
  <2> QED BY <2>3, <2>4
<1> HIDE DEF n
<1>3. \A k \in 1..d : Column1(nP, ys, k) = Column1(nP, yy, k)
  BY <1>0, <1>2 DEF Column1
<1>4. SumTo(nP, Column1(nP, ys, n)) = SumTo(nP, r)
  <2>1. \A p \in 1..nP : r[p] = Column1(nP, ys, n)[p]
    BY <1>0, <1>2 DEF Column1
  <2>2. IntVector(nP, r)
    BY <1>0 DEF IntVector
  <2> QED BY <1>0, <2>1, <2>2, SumSame
<1>5. InStep(n, ys)
  <2>1. ASSUME NEW k \in 1..n
        PROVE  ys[0][k] \in 0..(LargeRingSize - 1) /\ Same(LargeRingSize, ys[0][k], SumTo(nP, Column1(nP, ys, k)))
    <3>1. CASE k = n
      BY <1>0, <1>2, <1>4, <3>1
    <3>2. CASE k \in 1..d
      BY <1>0, <1>1, <1>2, <1>3, <3>2 DEF InStep
    <3> QED BY <1>0, <3>1, <3>2
  <2> QED BY <1>2, <2>1 DEF InStep
<1>6. \A k \in 1..d : WholeVector(n, ys)[k] = WholeVector(d, yy)[k]
  BY <1>0, <1>3 DEF WholeVector
<1>7. Dot(d, xx, WholeVector(n, ys)) = Dot(d, xx, WholeVector(d, yy))
  BY <1>6 DEF Dot
<1>8. Ready(d, xx, n, ys, zm, zl, df)
  BY <1>1, <1>5, <1>7, SameClaim
<1> QED BY <1>8 DEF n

-----------------------------------------------------------------------------
(* The claim at the steps of the reductions and of the triple.             *)
Claimed ==
  \E n \in Nat \ {0} : Ready(n, x, n, y, z_m, z_l, defect)
Parts ==
  \E d \in Nat \ {0} : /\ Ready(C * d, x, C * d, y, z_m, z_l, defect)
                       /\ SumsOfParts(sums, C, C, d, x, y, nsum)
TripleParts ==
  \E d \in Nat \ {0} : /\ Ready(d, x, d + 1, y, z_m, z_l, defect)
                       /\ SumsOfParts(sums, d, d + 1, 1, x, y, nsum)
Scalars == Ready(1, x, 1, y, z_m, z_l, defect)

Stays == gates' = gates /\ C' = C /\ seed' = seed /\ cheat' = cheat /\ bend' = bend

(* How Parts comes to hold.                                                *)
LEMMA PartsNext ==
  ASSUME Stays, NEW e \in Nat \ {0}, Ready(C * e, x', C * e, y', z_m', z_l', defect'),
         SumsOfParts(sums', C, C, e, x', y', nsum')
  PROVE  Parts'
<1>1. Ready(C * e, x, C * e, y, z_m, z_l, defect)'
  BY DEF Stays
<1>2. SumsOfParts(sums, C, C, e, x, y, nsum)'
  BY DEF SumsOfParts, Bent, Stays
<1> QED BY <1>1, <1>2 DEF Parts

(* ReduceSum: the sums of the products of the parts.                       *)
LEMMA ReduceSumStep ==
  ASSUME Base, Claimed, ReduceSum
  PROVE  Parts' /\ pos' \in Nat /\ nsum' \in Nat /\ Stays /\ pc' = "reduceFold"
<1>1. PICK n \in Nat \ {0} : Ready(n, x, n, y, z_m, z_l, defect)
  BY DEF Claimed
<1> DEFINE d == D(x)
           xs == Padded(x)
           ys == [p \in Procs |-> Padded(y[p])]
           N == C * C - 1
           locals == [p \in Parties |-> PartProducts(xs, ys[p], D(y[0]), C, C)]
<1>2. Stays /\ x' = xs /\ y' = ys /\ z_m' = z_m /\ z_l' = z_l /\ defect' = defect /\ pc' = "reduceFold"
  BY DEF ReduceSum, Stays, choices
<1>3. ShareSum(locals, N)
  BY DEF ReduceSum
<1>4. (\A p \in Procs : ys[p] = Padded(y[p])) /\ d = D(x)
      /\ \A p \in Parties : locals[p] = PartProducts(xs, ys[p], D(y[0]), C, C) /\ p \in Procs
  BY Moduli
<1> HIDE DEF d, ys, locals
<1>5. Ready(C * d, xs, C * d, ys, z_m, z_l, defect) /\ d \in Nat \ {0} /\ d = D(y[0])
  BY <1>1, <1>4, PaddedReady
<1> HIDE DEF xs
<1>6. C \in Nat \ {0} /\ C * d \in Nat /\ C \in Nat
  <2>1. C \in Nat \ {0}
    BY BaseFacts
  <2> QED BY <1>5, <2>1, PairFacts DEF RowByRow
<1>7. IntVector(C * d, xs) /\ \A p \in Procs : IntVector(C * d, ys[p])
  BY <1>5, <1>6, ReadyFacts
<1>8. LocalParts(C, C, d, xs, ys, locals, WholeVector(C * d, ys))
  BY <1>4, <1>5, <1>7 DEF LocalParts
<1>9. N = C * C - 1
  OBVIOUS
<1> HIDE DEF N
<1>10. SumsOfParts(sums', C, C, d, xs, ys, nsum + 1) /\ pos' = pos + N /\ nsum' = nsum + 1 /\ N \in Nat
  BY <1>3, <1>5, <1>6, <1>8, <1>9, SumParts
<1>11. Parts'
  <2>1. PICK e \in Nat \ {0} : e = d
    BY <1>5
  <2>2. Ready(C * e, x', C * e, y', z_m', z_l', defect')
    BY <1>2, <1>5, <2>1
  <2>3. SumsOfParts(sums', C, C, e, x', y', nsum')
    BY <1>2, <1>10, <2>1
  <2> QED BY <1>2, <2>2, <2>3, PartsNext
<1> QED BY <1>2, <1>10, <1>11, BaseFacts

(* ReduceFold: the folded vectors, and z folded, are as claimed.           *)
LEMMA ReduceFoldStep ==
  ASSUME Base, Parts, ReduceFold
  PROVE  Claimed' /\ pos' \in Nat /\ nsum' \in Nat /\ Stays /\ pc' \in {"reduceSum", "tripleSum"}
<1>1. PICK d \in Nat \ {0} : /\ Ready(C * d, x, C * d, y, z_m, z_l, defect)
                              /\ SumsOfParts(sums, C, C, d, x, y, nsum)
  BY DEF Parts
<1> DEFINE alpha == Coefficients(pos, C)
           beta  == Coefficients(pos + C, C)
           e     == Len(y[0]) \div C
<1>2. /\ Stays /\ pc' = (IF e > C THEN "reduceSum" ELSE "tripleSum")
      /\ x' = FoldVector(x, e, alpha) /\ y' = [p \in Procs |-> FoldVector(y[p], e, beta)]
      /\ z_m' = FoldZ(z_m, sums.ms, alpha, beta) /\ z_l' = [p \in Procs |-> FoldZ(z_l[p], sums.ls[p], alpha, beta)]
      /\ defect' = NextDefect(alpha, beta) /\ pos' = pos + 2 * C /\ nsum' = nsum
  BY DEF ReduceFold, Stays, choices
<1>3. C \in Nat \ {0} /\ C * d \in Nat /\ C \in Nat /\ pos \in Nat /\ nsum \in Nat /\ C <= C
  <2>1. C \in Nat \ {0}
    BY BaseFacts
  <2> QED BY <2>1, BaseFacts, PairFacts DEF RowByRow
<1>4. e = d
  <2>1. Len(y[0]) = C * d
    BY <1>1, <1>3, ReadyFacts
  <2>2. C * d = (C * d) + 0 /\ 0 \in 0..(C - 1)
    BY <1>3
  <2>3. (C * d) \div C = d
    <3> DEFINE a == C * d
    <3>1. a \in Int /\ a = (C * d) + 0 /\ d \in Int
      BY <1>3
    <3> HIDE DEF a
    <3>2. a \div C = d
      BY <1>3, <2>2, <3>1, ModUnique
    <3> QED BY <3>2 DEF a
  <2> QED BY <2>1, <2>3
<1>5. Weights(C, alpha) /\ Weights(C, beta)
  <2>1. pos \in Int /\ pos + C \in Int
    BY <1>3
  <2> QED BY <1>3, <2>1, CoefficientsFacts
<1> HIDE DEF alpha, beta, e
<1>6. FoldedFrom(C, C, d, alpha, beta, x, y, z_m, z_l, sums, x', y', z_m', z_l')
  BY <1>2, <1>4 DEF FoldedFrom
<1>7. defect' = LargeRing(DefectOf(C, C, alpha, beta, defect, nsum))
  BY <1>2, <1>3, <1>5, NextDefectFacts
<1>8. Ready(d, x', d, y', z_m', z_l', defect')
  BY <1>1, <1>3, <1>5, <1>6, <1>7, FoldStep
<1>9. Claimed'
  BY <1>8 DEF Claimed
<1> QED BY <1>2, <1>3, <1>9

(* TripleSum: the sums of the products of the entries.                     *)
LEMMA TripleSumStep ==
  ASSUME Base, Claimed, TripleSum
  PROVE  TripleParts' /\ pos' \in Nat /\ nsum' \in Nat /\ Stays /\ pc' = "tripleFold"
<1>1. PICK n \in Nat \ {0} : Ready(n, x, n, y, z_m, z_l, defect)
  BY DEF Claimed
<1> DEFINE d == Len(x)
           y0 == [p \in Parties |-> LargeRing(Draw(p, pos))]
           r  == [p \in Procs |-> IF p = 0 THEN LargeRing(SumTo(nP, y0)) ELSE y0[p]]
           ys == [p \in Procs |-> Append(y[p], IF p = 0 THEN LargeRing(SumTo(nP, y0)) ELSE y0[p])]
           N == d * d + d - 1
           locals == [p \in Parties |-> PartProducts(x, ys[p], 1, d, d + 1)]
<1>2. Stays /\ x' = x /\ y' = ys /\ z_m' = z_m /\ z_l' = z_l /\ defect' = defect /\ pc' = "tripleFold"
  BY DEF TripleSum, Stays, choices
<1>3. ShareSum(locals, N)
  BY DEF TripleSum
<1>4. /\ \A p \in Procs : ys[p] = Append(y[p], r[p])
      /\ \A p \in Parties : locals[p] = PartProducts(x, ys[p], 1, d, d + 1)
  OBVIOUS
<1>5. /\ nP \in Nat /\ Parties = 1..nP /\ 0 \in Procs /\ (\A p \in Parties : p \in Procs /\ p # 0)
      /\ \A p \in Procs : p = 0 \/ p \in Parties
  BY Moduli
<1>6. \A p \in Parties : y0[p] \in Int
  <2> SUFFICES ASSUME NEW p \in Parties PROVE LargeRing(Draw(p, pos)) \in Int
    OBVIOUS
  <2>1. Draw(p, pos) \in Int
    BY <1>5, BaseFacts, DrawFacts
  <2> QED BY <2>1, LargeRingFacts
<1>7. r[0] = LargeRing(SumTo(nP, y0)) /\ \A p \in Parties : r[p] = y0[p]
  BY <1>5
<1> HIDE DEF y0, r, ys, locals
<1>8. (\A p \in Procs : r[p] \in Int) /\ r[0] \in 0..(LargeRingSize - 1) /\ Same(LargeRingSize, r[0], SumTo(nP, r))
  <2>1. IntVector(nP, y0)
    BY <1>5, <1>6 DEF IntVector
  <2>2. SumTo(nP, y0) \in Int /\ SumTo(nP, y0) = SumTo(nP, r)
    BY <1>5, <1>7, <2>1, SumInt, SumSame
  <2>3. r[0] \in Int /\ r[0] \in 0..(LargeRingSize - 1) /\ Same(LargeRingSize, r[0], SumTo(nP, r))
    BY <1>7, <2>2, LargeRingFacts
  <2> QED BY <1>5, <1>6, <1>7, <2>3
<1>9. Ready(n, x, n + 1, ys, z_m, z_l, defect)
  BY <1>1, <1>4, <1>8, AppendedReady
<1>10. d = n
  <2>1. n \in Nat
    OBVIOUS
  <2> QED BY <1>1, <2>1, ReadyFacts
<1> HIDE DEF d
<1>11. LocalParts(n, n + 1, 1, x, ys, locals, WholeVector((n + 1) * 1, ys))
  <2>1. IntVector(n, x) /\ \A p \in Procs : IntVector(n + 1, ys[p])
    <3>1. n \in Nat /\ n + 1 \in Nat
      OBVIOUS
    <3> QED BY <1>9, <3>1, ReadyFacts
  <2>2. n * 1 = n /\ (n + 1) * 1 = n + 1
    OBVIOUS
  <2> QED BY <1>4, <1>5, <1>10, <2>1, <2>2 DEF LocalParts
<1>12. N = n * (n + 1) - 1
  <2>1. N = n * n + n - 1
    BY <1>10
  <2>2. n * (n + 1) = n * n + n
    OBVIOUS
  <2> QED BY <2>1, <2>2
<1> HIDE DEF N
<1>13. SumsOfParts(sums', n, n + 1, 1, x, ys, nsum + 1) /\ pos' = pos + N /\ nsum' = nsum + 1 /\ N \in Nat
  <2>1. n + 1 \in Nat \ {0} /\ 1 \in Nat \ {0}
    OBVIOUS
  <2> DEFINE c == n + 1
  <2> HIDE DEF c
  <2>2. c \in Nat \ {0} /\ N = n * c - 1 /\ LocalParts(n, c, 1, x, ys, locals, WholeVector(c * 1, ys))
    BY <1>11, <1>12, <2>1 DEF c
  <2>3. SumsOfParts(sums', n, c, 1, x, ys, nsum + 1) /\ pos' = pos + N /\ nsum' = nsum + 1 /\ N \in Nat
    BY <1>3, <2>1, <2>2, SumParts
  <2> QED BY <2>3 DEF c
<1>14. TripleParts'
  <2>1. Ready(n, x', n + 1, y', z_m', z_l', defect')
    BY <1>2, <1>9
  <2>2. SumsOfParts(sums', n, n + 1, 1, x', y', nsum')
    BY <1>2, <1>13
  <2>3. SumsOfParts(sums, n, n + 1, 1, x, y, nsum)'
    BY <1>2, <2>2 DEF SumsOfParts, Bent, Stays
  <2> QED BY <2>1, <2>3 DEF TripleParts
<1> QED BY <1>2, <1>13, <1>14, BaseFacts

(* TripleFold: the scalars are as claimed.                                 *)
LEMMA TripleFoldStep ==
  ASSUME Base, TripleParts, TripleFold
  PROVE  Scalars' /\ pos' \in Nat /\ nsum' \in Nat /\ Stays /\ pc' = "openTriple"
<1>1. PICK n \in Nat \ {0} : /\ Ready(n, x, n + 1, y, z_m, z_l, defect)
                              /\ SumsOfParts(sums, n, n + 1, 1, x, y, nsum)
  BY DEF TripleParts
<1> DEFINE d     == Len(x)
           alpha == Coefficients(pos, d)
           beta  == Append(Coefficients(pos + d, d), 1)
           c     == n + 1
<1>2. /\ Stays /\ pc' = "openTriple"
      /\ x' = FoldVector(x, 1, alpha) /\ y' = [p \in Procs |-> FoldVector(y[p], 1, beta)]
      /\ z_m' = FoldZ(z_m, sums.ms, alpha, beta) /\ z_l' = [p \in Procs |-> FoldZ(z_l[p], sums.ls[p], alpha, beta)]
      /\ defect' = NextDefect(alpha, beta) /\ pos' = pos + 2 * d /\ nsum' = nsum
  BY DEF TripleFold, Stays, choices
<1>3. c \in Nat /\ c \in Nat \ {0} /\ n <= c /\ pos \in Nat /\ nsum \in Nat /\ n \in Nat /\ 1 \in Nat \ {0}
      /\ n * 1 = n /\ c * 1 = c
  BY BaseFacts
<1>4. d = n
  BY <1>1, <1>3, ReadyFacts
<1>5. Weights(n, alpha) /\ Weights(c, beta)
  <2>1. pos \in Int /\ pos + d \in Int
    BY <1>3, <1>4
  <2>2. Weights(n, alpha) /\ Coefficients(pos + d, d) \in [1..n -> Int]
    BY <1>3, <1>4, <2>1, CoefficientsFacts
  <2> QED BY <1>3, <2>2, AppendWeights
<1> HIDE DEF alpha, beta, d, c
<1>6. FoldedFrom(n, c, 1, alpha, beta, x, y, z_m, z_l, sums, x', y', z_m', z_l')
  BY <1>2 DEF FoldedFrom
<1>7. defect' = LargeRing(DefectOf(n, c, alpha, beta, defect, nsum))
  BY <1>2, <1>3, <1>5, NextDefectFacts
<1>8. Ready(n * 1, x, c * 1, y, z_m, z_l, defect) /\ SumsOfParts(sums, n, c, 1, x, y, nsum)
  BY <1>1, <1>3 DEF c
<1>9. Ready(1, x', 1, y', z_m', z_l', defect')
  BY <1>3, <1>5, <1>6, <1>7, <1>8, FoldStep
<1>10. Scalars'
  BY <1>9 DEF Scalars
<1> QED BY <1>2, <1>3, <1>4, <1>10

-----------------------------------------------------------------------------
(* The part of the vectors that belongs to a multiplication.               *)
Part(i, u) == [e \in 1..Size(i) |-> u[Offset(i) + e]]

(* It is a vector of Size integers.                                        *)
LEMMA PartFacts ==
  ASSUME Base, NEW u, IntVector(Bvs, u), NEW i \in Mults
  PROVE  IntVector(Size(i), Part(i, u)) /\ \A e \in 1..Size(i) : Part(i, u)[e] = u[Offset(i) + e]
<1>1. \A e \in 1..Size(i) : Offset(i) + e \in 1..Bvs
  BY PlaceFacts
<1> QED BY <1>1 DEF IntVector, Part

(* SubProduct is the inner product of two of them.                         *)
LEMMA SubDot ==
  ASSUME Base, NEW u, IntVector(Bvs, u), NEW v, IntVector(Bvs, v), NEW i \in Mults
  PROVE  SubProduct(i, u, v) = Dot(Size(i), Part(i, u), Part(i, v)) /\ SubProduct(i, u, v) \in Int
<1>1. SubProduct(i, u, v) = Dot(Size(i), Part(i, u), Part(i, v))
  <2>1. [e \in 1..Size(i) |-> u[Offset(i) + e] * v[Offset(i) + e]]
          = [e \in 1..Size(i) |-> Part(i, u)[e] * Part(i, v)[e]]
    BY DEF Part
  <2> QED BY <2>1 DEF SubProduct, Dot
<1>2. Size(i) \in Nat
  BY FactorWires
<1>3. IntVector(Size(i), Part(i, u)) /\ IntVector(Size(i), Part(i, v))
  BY PartFacts
<1>4. Dot(Size(i), Part(i, u), Part(i, v)) \in Int
  BY <1>2, <1>3, DotInt
<1> QED BY <1>1, <1>4

SubShares(i, u, yy) == [p \in Parties |-> SubProduct(i, u, yy[p])]

(* The parties' parts of a product sum to the part of the whole.           *)
LEMMA SubSharesFacts ==
  ASSUME Base, NEW u, IntVector(Bvs, u), NEW yy, \A p \in Parties : IntVector(Bvs, yy[p]), NEW i \in Mults
  PROVE  /\ SubProduct(i, u, WholeVector(Bvs, yy)) = SumTo(nP, SubShares(i, u, yy))
         /\ IntVector(nP, SubShares(i, u, yy)) /\ SubProduct(i, u, WholeVector(Bvs, yy)) \in Int
         /\ IntVector(Bvs, WholeVector(Bvs, yy))
<1> DEFINE W  == WholeVector(Bvs, yy)
           c  == Part(i, u)
           us == [p \in Parties |-> Part(i, yy[p])]
           w  == Part(i, W)
           ds == SubShares(i, u, yy)
           n  == Size(i)
<1>0. Bvs \in Nat /\ n \in Nat /\ Parties = 1..nP /\ nP \in Nat
  BY PlaceFacts, FactorWires, Moduli
<1>1. IntVector(Bvs, W) /\ \A k \in 1..Bvs : W[k] = SumTo(nP, Column1(nP, yy, k))
  BY <1>0, WholeFacts DEF WholeVector
<1>2. IntVector(n, c) /\ \A p \in 1..nP : IntVector(n, us[p]) /\ us[p] = Part(i, yy[p])
  BY <1>0, PartFacts
<1>3. ASSUME NEW e \in 1..n PROVE w[e] = SumTo(nP, Column1(nP, us, e))
  <2>1. Offset(i) + e \in 1..Bvs
    BY PlaceFacts
  <2>2. w[e] = W[Offset(i) + e]
    BY DEF Part
  <2>3. \A p \in Parties : us[p][e] = yy[p][Offset(i) + e]
    BY DEF Part
  <2>4. Column1(nP, us, e) = Column1(nP, yy, Offset(i) + e)
    BY <1>0, <2>3 DEF Column1
  <2> QED BY <1>1, <2>1, <2>2, <2>4
<1>4. \A p \in 1..nP : ds[p] = Dot(n, c, us[p])
  <2> SUFFICES ASSUME NEW p \in Parties PROVE ds[p] = Dot(n, c, us[p])
    BY <1>0
  <2>1. ds[p] = SubProduct(i, u, yy[p]) /\ us[p] = Part(i, yy[p])
    BY DEF SubShares
  <2> QED BY <2>1, SubDot
<1>5. SubProduct(i, u, W) = Dot(n, c, w) /\ SubProduct(i, u, W) \in Int
  BY <1>1, SubDot
<1> HIDE DEF us, ds, w, W, c, n
<1>6. Summed(nP, n, c, us, w, ds)
  BY <1>2, <1>3, <1>4 DEF Summed
<1>7. Dot(n, c, w) = SumTo(nP, ds) /\ IntVector(nP, ds)
  BY <1>0, <1>6, DotShares
<1> QED BY <1>1, <1>5, <1>7 DEF W, ds

-----------------------------------------------------------------------------
(* What a party's part of the product is: its share of the masked output   *)
(* without the products of masked values.                                  *)
LEMMA SumPairs ==
  ASSUME NEW n \in Nat, NEW v, IntVector(n * 2, v), NEW t, \A j \in 1..n : t[j] = v[2 * j - 1] + v[2 * j]
  PROVE  SumTo(n * 2, v) = SumTo(n, t) /\ IntVector(n, t)
<1> DEFINE row == [j \in 1..n |-> [k \in 1..2 |-> v[(j - 1) * 2 + k]]]
<1>1. \A j \in 1..n : \A k \in 1..2 : row[j][k] = v[(j - 1) * 2 + k]
  OBVIOUS
<1>2. ASSUME NEW j \in 1..n PROVE t[j] = SumTo(2, row[j])
  <2>1. (j - 1) * 2 + 1 = 2 * j - 1 /\ (j - 1) * 2 + 2 = 2 * j /\ 2 * j - 1 \in 1..(n * 2) /\ 2 * j \in 1..(n * 2)
    OBVIOUS
  <2>2. row[j][1] = v[2 * j - 1] /\ row[j][2] = v[2 * j]
    <3>1. row[j][1] = v[(j - 1) * 2 + 1] /\ row[j][2] = v[(j - 1) * 2 + 2]
      BY <1>1
    <3> QED BY <2>1, <3>1
  <2> DEFINE r == row[j]
  <2>3. r[1] \in Int /\ r[2] \in Int /\ t[j] = r[1] + r[2]
    BY <2>1, <2>2 DEF IntVector
  <2> HIDE DEF r
  <2>4. IntVector(2, r)
    <3>1. \A k \in 1..2 : k = 1 \/ k = 2
      OBVIOUS
    <3> QED BY <2>3, <3>1 DEF IntVector
  <2>5. SumTo(0, r) = 0 /\ SumTo(1, r) = SumTo(0, r) + r[1] /\ SumTo(2, r) = SumTo(1, r) + r[2]
    <3>1. 2 \in Nat /\ 1 \in 1..2 /\ 2 \in 1..2 /\ 1 - 1 = 0 /\ 2 - 1 = 1
      OBVIOUS
    <3> QED BY <2>4, <3>1, SumFacts
  <2>6. t[j] = SumTo(2, r)
    BY <2>3, <2>5
  <2> QED BY <2>6 DEF r
<1> HIDE DEF row
<1>3. Grid(n, 2, v, row, t)
  BY <1>1, <1>2 DEF Grid
<1> QED BY <1>3, SumGrid

Plain(i) == SumTo(Dim(i), [j \in 1..Dim(i) |-> m[In1(i, j)] * m[In2(i, j)]])

(* They are integers.                                                      *)
LEMMA PlainFacts ==
  ASSUME Base, MaskedInt, NEW i \in Mults
  PROVE  Plain(i) \in Int /\ IntVector(Dim(i), [j \in 1..Dim(i) |-> m[In1(i, j)] * m[In2(i, j)]])
<1>1. Dim(i) \in Nat /\ \A j \in 1..Dim(i) : In1(i, j) \in Wires /\ In2(i, j) \in Wires
  BY FactorWires
<1>2. \A j \in 1..Dim(i) : m[In1(i, j)] * m[In2(i, j)] \in Int
  <2> SUFFICES ASSUME NEW j \in 1..Dim(i) PROVE m[In1(i, j)] * m[In2(i, j)] \in Int
    OBVIOUS
  <2>1. m[In1(i, j)] \in Int /\ m[In2(i, j)] \in Int
    BY <1>1 DEF MaskedInt
  <2> QED BY <2>1
<1>3. IntVector(Dim(i), [j \in 1..Dim(i) |-> m[In1(i, j)] * m[In2(i, j)]])
  BY <1>2 DEF IntVector
<1> QED BY <1>1, <1>3, SumInt DEF Plain

(* A party's part of the product is its share of the masked output,        *)
(* without the products of masked values.                                  *)
LEMMA PartyProduct ==
  ASSUME Base, SetupOk, MaskedInt, NEW i \in Mults, NEW p \in Parties
  PROVE  /\ Same(RingSize, SubProduct(i, A, BOf[p]), MultShare(p, i, m) - (IF p = 1 THEN Plain(i) ELSE 0))
         /\ SubProduct(i, A, BOf[p]) \in Int /\ MultShare(p, i, m) \in Int
<1> DEFINE n == Dim(i)
           N == Size(i)
           v == [e \in 1..N |-> A[Offset(i) + e] * BOf[p][Offset(i) + e]]
           t == [j \in 1..n |-> v[2 * j - 1] + v[2 * j]]
           q == [j \in 1..n |-> IF p = 1 THEN m[In1(i, j)] * m[In2(i, j)] ELSE 0]
           last == PartyLast(p)[i]
           ts == Terms(p, i, m)
<1>1. /\ n \in Nat /\ N = 2 * n + 1 /\ Out(i) \in Wires /\ N \in Nat
      /\ \A j \in 1..n : In1(i, j) \in Wires /\ In2(i, j) \in Wires
  BY FactorWires
<1>2. \A w \in Wires : m[w] \in Int /\ lambda[p][w] \in Int
  BY DEF MaskedInt, SetupOk
<1>3. last \in Int /\ Same(RingSize, last, gamma[p][i] - lambda[p][Out(i)])
      /\ gamma[p][i] \in Int /\ lambda[p][Out(i)] \in Int
  BY LastFacts
<1>4. \A e \in 1..N : v[e] = Factors(i)[e] * FillEntry(lambda[p], PartyLast(p), i, e)
  <2>1. \A e \in 1..N : A[Offset(i) + e] = Factors(i)[e]
    BY AFacts
  <2>2. \A e \in 1..N : BOf[p][Offset(i) + e] = FillEntry(lambda[p], PartyLast(p), i, e)
    BY BFacts
  <2> QED BY <2>1, <2>2
<1>5. v[N] = last
  <2>1. N \in 1..N
    BY <1>1
  <2>2. Factors(i)[N] = 1 /\ FillEntry(lambda[p], PartyLast(p), i, N) = last
    BY <2>1 DEF Factors, FillEntry
  <2>3. v[N] = 1 * last
    BY <1>4, <2>1, <2>2
  <2> QED BY <1>3, <2>3
<1>6. ASSUME NEW j \in 1..n
      PROVE  /\ v[2 * j - 1] = m[In1(i, j)] * lambda[p][In2(i, j)]
             /\ v[2 * j] = m[In2(i, j)] * lambda[p][In1(i, j)]
             /\ m[In1(i, j)] \in Int /\ m[In2(i, j)] \in Int
             /\ lambda[p][In1(i, j)] \in Int /\ lambda[p][In2(i, j)] \in Int
  <2>1. 2 * j - 1 \in 1..N /\ 2 * j \in 1..N /\ 2 * j - 1 # N /\ 2 * j # N
    BY <1>1
  <2>2. (2 * j - 1) % 2 = 1 /\ ((2 * j - 1) + 1) \div 2 = j /\ (2 * j) % 2 # 1 /\ (2 * j) \div 2 = j
    OBVIOUS
  <2>3. Factors(i)[2 * j - 1] = m[In1(i, j)] /\ Factors(i)[2 * j] = m[In2(i, j)]
    BY <2>1, <2>2 DEF Factors
  <2>4. /\ FillEntry(lambda[p], PartyLast(p), i, 2 * j - 1) = lambda[p][In2(i, j)]
        /\ FillEntry(lambda[p], PartyLast(p), i, 2 * j) = lambda[p][In1(i, j)]
    BY <2>1, <2>2 DEF FillEntry
  <2>5. /\ v[2 * j - 1] = Factors(i)[2 * j - 1] * FillEntry(lambda[p], PartyLast(p), i, 2 * j - 1)
        /\ v[2 * j] = Factors(i)[2 * j] * FillEntry(lambda[p], PartyLast(p), i, 2 * j)
    BY <1>4, <2>1
  <2> QED BY <1>1, <1>2, <2>3, <2>4, <2>5
<1>7. \A j \in 1..n : t[j] = v[2 * j - 1] + v[2 * j]
  OBVIOUS
<1>8. SubProduct(i, A, BOf[p]) = SumTo(N, v)
  BY DEF SubProduct
<1>9. MultShare(p, i, m) \in Int /\ IntVector(n, ts)
      /\ MultShare(p, i, m) = SumTo(n, ts) + gamma[p][i] - lambda[p][Out(i)]
  <2>1. \A w \in 1..(Out(i) - 1) : m[w] \in Int
    BY <1>1, <1>2, BaseFacts
  <2> QED BY <2>1, MultShareFacts
<1>10. \A j \in 1..n : ts[j] = m[In1(i, j)] * lambda[p][In2(i, j)] + m[In2(i, j)] * lambda[p][In1(i, j)] + q[j]
  BY DEF Terms, Term
<1> HIDE DEF v, t, ts, last
<1>11. \A e \in 1..N : v[e] \in Int
  <2> SUFFICES ASSUME NEW e \in 1..N PROVE v[e] \in Int
    OBVIOUS
  <2>1. e = N \/ (\E j \in 1..n : e = 2 * j - 1) \/ (\E j \in 1..n : e = 2 * j)
    <3>1. CASE e % 2 = 1
      <4>1. e = N \/ ((e + 1) \div 2 \in 1..n /\ e = 2 * ((e + 1) \div 2) - 1)
        BY <1>1, <3>1
      <4> QED BY <4>1
    <3>2. CASE e % 2 # 1
      <4>1. e \div 2 \in 1..n /\ e = 2 * (e \div 2)
        BY <1>1, <3>2
      <4> QED BY <4>1
    <3> QED BY <3>1, <3>2
  <2> QED BY <1>3, <1>5, <1>6, <2>1
<1>12. IntVector(N, v) /\ IntVector(n * 2, v)
  <2>1. \A e \in 1..(n * 2) : e \in 1..N
    BY <1>1
  <2> QED BY <1>11, <2>1 DEF IntVector
<1>13. SumTo(N, v) = SumTo(n * 2, v) + last
  <2>1. N \in 1..N /\ N - 1 = n * 2
    BY <1>1
  <2>2. SumTo(N, v) = SumTo(N - 1, v) + v[N]
    BY <1>1, <1>12, <2>1, SumFacts
  <2> QED BY <1>5, <2>1, <2>2
<1>14. SumTo(n * 2, v) = SumTo(n, t) /\ IntVector(n, t)
  BY <1>1, <1>7, <1>12, SumPairs
<1>15. SumTo(n, q) = (IF p = 1 THEN Plain(i) ELSE 0) /\ IntVector(n, q)
  <2>1. CASE p = 1
    <3>1. q = [j \in 1..Dim(i) |-> m[In1(i, j)] * m[In2(i, j)]]
      BY <2>1
    <3> HIDE DEF q
    <3>2. SumTo(n, q) = Plain(i) /\ IntVector(n, q)
      BY <3>1, PlainFacts DEF Plain
    <3> QED BY <2>1, <3>2
  <2>2. CASE p # 1
    <3>1. \A j \in 1..n : q[j] = 0
      BY <2>2
    <3> HIDE DEF q
    <3>2. SumTo(n, q) = 0 /\ IntVector(n, q)
      BY <1>1, <3>1, SumZeros
    <3> QED BY <2>2, <3>2
  <2> QED BY <2>1, <2>2
<1> HIDE DEF q, n, N
<1>16. SumTo(n, ts) = SumTo(n, t) + SumTo(n, q)
  <2>1. \A j \in 1..n : ts[j] = t[j] + q[j]
    BY <1>6, <1>7, <1>10
  <2> QED BY <1>1, <1>14, <1>15, <2>1, SumAdd
<1> DEFINE st == SumTo(n, t)
           plain == IF p = 1 THEN Plain(i) ELSE 0
<1>17. st \in Int /\ plain \in Int
  <2>1. SumTo(n, t) \in Int
    BY <1>1, <1>14, SumInt
  <2>2. Plain(i) \in Int
    BY PlainFacts
  <2> QED BY <2>1, <2>2
<1>18. SubProduct(i, A, BOf[p]) = st + last
  BY <1>8, <1>13, <1>14
<1>19. MultShare(p, i, m) - plain = st + (gamma[p][i] - lambda[p][Out(i)])
  <2>1. MultShare(p, i, m) = (st + plain) + gamma[p][i] - lambda[p][Out(i)]
    BY <1>9, <1>15, <1>16
  <2> HIDE DEF st, plain
  <2> QED BY <1>3, <1>17, <2>1
<1> HIDE DEF st, plain
<1>20. Same(RingSize, st + last, st + (gamma[p][i] - lambda[p][Out(i)]))
  <2> DEFINE b == gamma[p][i] - lambda[p][Out(i)]
  <2>1. b \in Int /\ Same(RingSize, last, b) /\ Same(RingSize, st, st)
    BY <1>3 DEF Same
  <2> HIDE DEF b
  <2>2. Same(RingSize, st + last, st + b)
    BY <1>3, <1>17, <2>1, Moduli, SameOps
  <2> QED BY <2>2 DEF b
<1> QED BY <1>3, <1>9, <1>17, <1>18, <1>19, <1>20 DEF plain

MaskedOk ==
  \A i \in Mults : Same(RingSize, m[Out(i)], SumTo(nP, MultShares(i, m)) + Off(i))

(* All parties' parts: the masked output without its deviation and without *)
(* the products of masked values.                                          *)
LEMMA PartsTotal ==
  ASSUME Base, SetupOk, MaskedInt, MaskedOk, NEW i \in Mults
  PROVE  /\ Same(RingSize, SubProduct(i, A, WholeVector(Bvs, BOf)), m[Out(i)] - Off(i) - Plain(i))
         /\ SubProduct(i, A, WholeVector(Bvs, BOf)) \in Int
         /\ m[Out(i)] \in Int /\ Off(i) \in Int /\ Plain(i) \in Int
<1> DEFINE sh == SubShares(i, A, BOf)
           ms == MultShares(i, m)
           one == [p \in Parties |-> IF p = 1 THEN Plain(i) ELSE 0]
           df == [p \in Parties |-> ms[p] - one[p]]
           pl == Plain(i)
           of == Off(i)
           mo == m[Out(i)]
           sp == SubProduct(i, A, WholeVector(Bvs, BOf))
<1>0. nP \in Nat /\ Parties = 1..nP /\ 1 \in 1..nP /\ RingSize \in Nat \ {0} /\ (\A p \in Parties : p \in Procs)
  BY Moduli
<1>1. pl \in Int /\ of \in Int /\ mo \in Int
  BY PlainFacts, OffInt, OrderFacts DEF MaskedInt
<1>2. Bvs \in Nat /\ IntVector(Bvs, A) /\ \A p \in Parties : IntVector(Bvs, BOf[p])
  <2>1. Bvs \in Nat
    BY PlaceFacts
  <2> QED BY <1>0, <2>1, AFacts, BFacts, VectorFacts DEF InStep
<1>3. sp = SumTo(nP, sh) /\ IntVector(nP, sh) /\ sp \in Int
  BY <1>2, SubSharesFacts
<1>4. \A p \in Parties : /\ ms[p] = MultShare(p, i, m) /\ ms[p] \in Int
                         /\ one[p] = (IF p = 1 THEN pl ELSE 0) /\ df[p] = ms[p] - one[p]
                         /\ Same(RingSize, sh[p], df[p])
  <2> SUFFICES ASSUME NEW p \in Parties
               PROVE  /\ ms[p] = MultShare(p, i, m) /\ ms[p] \in Int
                      /\ Same(RingSize, sh[p], df[p])
    OBVIOUS
  <2>1. ms[p] = MultShare(p, i, m) /\ sh[p] = SubProduct(i, A, BOf[p])
    BY DEF MultShares, SubShares
  <2> QED BY <2>1, PartyProduct
<1> HIDE DEF sh, ms, one, df, pl, of, mo, sp
<1>5. IntVector(nP, ms) /\ IntVector(nP, one) /\ SumTo(nP, one) = pl
  <2>1. IntVector(nP, ms)
    BY <1>0, <1>4 DEF IntVector
  <2> QED BY <1>0, <1>1, <1>4, <2>1, SumSingle
<1>6. SumTo(nP, df) = SumTo(nP, ms) - pl /\ IntVector(nP, df) /\ SumTo(nP, ms) \in Int
  <2>1. \A p \in 1..nP : df[p] = ms[p] - one[p]
    BY <1>0, <1>4
  <2>2. SumTo(nP, df) = SumTo(nP, ms) - SumTo(nP, one) /\ IntVector(nP, df)
    BY <1>0, <1>5, <2>1, SumSub
  <2>3. SumTo(nP, ms) \in Int
    BY <1>0, <1>5, SumInt
  <2> QED BY <1>5, <2>2, <2>3
<1>7. Same(RingSize, sp, SumTo(nP, ms) - pl)
  <2>1. Same(RingSize, SumTo(nP, sh), SumTo(nP, df))
    BY <1>0, <1>3, <1>4, <1>6, SumSameMod
  <2> QED BY <1>3, <1>6, <2>1
<1> DEFINE sm == SumTo(nP, ms)
<1>8. Same(RingSize, mo, sm + of)
  BY DEF MaskedOk, mo, ms, of
<1>9. sm \in Int /\ Same(RingSize, sp, sm - pl)
  BY <1>6, <1>7
<1> HIDE DEF sm
<1>10. Same(RingSize, mo - (of + pl), (sm + of) - (of + pl))
  <2>1. Same(RingSize, of + pl, of + pl) /\ of + pl \in Int /\ sm + of \in Int
    BY <1>1, <1>9 DEF Same
  <2> QED BY <1>0, <1>1, <1>8, <2>1, SameOps
<1>11. (sm + of) - (of + pl) = sm - pl /\ mo - (of + pl) = mo - of - pl
  BY <1>1, <1>9
<1>12. Same(RingSize, sp, mo - of - pl)
  BY <1>9, <1>10, <1>11 DEF Same
<1> QED BY <1>1, <1>3, <1>12 DEF sp, mo, of, pl

-----------------------------------------------------------------------------
(* The random bits.                                                        *)
Bits(l) == [i \in Mults |-> RBit(i, l)]

(* A random bit for every multiplication.                                  *)
LEMMA BitFacts ==
  ASSUME Base, NEW l \in 1..SSEC
  PROVE  /\ IntVector(NumMults, Bits(l)) /\ NumMults \in Nat /\ Mults = 1..NumMults
         /\ \A i \in Mults : Bits(l)[i] = RBit(i, l) /\ RBit(i, l) \in Int
         /\ \A v : BitSum(l, v) = Dot(NumMults, Bits(l), v)
<1>1. NumMults \in Nat /\ Mults = 1..NumMults
  BY OrderFacts
<1>2. ASSUME NEW i \in Mults PROVE RBit(i, l) \in Int
  <2>1. 0 \in Procs /\ Len(gates) + i * SSEC + l \in Int
    BY <1>1, BaseFacts, Moduli
  <2>2. Draw(0, Len(gates) + i * SSEC + l) \in Int
    BY <2>1, DrawFacts
  <2> DEFINE a == Draw(0, Len(gates) + i * SSEC + l)
  <2>3. a \in Int
    BY <2>2
  <2> HIDE DEF a
  <2>4. a % 2 \in Int
    BY <2>3
  <2> QED BY <2>4 DEF RBit, a
<1>3. \A v : BitSum(l, v) = Dot(NumMults, Bits(l), v)
  BY <1>1 DEF BitSum, Dot, Bits
<1>4. IntVector(NumMults, Bits(l))
  BY <1>1, <1>2 DEF IntVector, Bits
<1> QED BY <1>1, <1>2, <1>3, <1>4 DEF Bits

SubProducts(u, v) == [i \in Mults |-> SubProduct(i, u, v)]

CheatTerm(l) == IF cheat.gate \in Mults THEN RBit(cheat.gate, l) * cheat.by ELSE 0

(* With Lambdas, a random subset of the parts comes to nothing but the     *)
(* deviation, if it is in the subset.                                      *)
LEMMA BitTotal ==
  ASSUME Base, SetupOk, MaskedInt, MaskedOk, NEW l \in 1..SSEC
  PROVE  /\ Same(RingSize, LambdaSum(l) + BitSum(l, SubProducts(A, WholeVector(Bvs, BOf))), 0 - CheatTerm(l))
         /\ LambdaSum(l) \in Int /\ LambdaSum(l) \in 0..(RingSize - 1)
         /\ BitSum(l, SubProducts(A, WholeVector(Bvs, BOf))) \in Int
         /\ CheatTerm(l) \in Int
<1> DEFINE n  == NumMults
           b  == Bits(l)
           pl == [i \in Mults |-> Plain(i) - m[Out(i)]]
           sp == SubProducts(A, WholeVector(Bvs, BOf))
           w  == [i \in 1..n |-> pl[i] + sp[i]]
           of == [i \in 1..n |-> 0 - Off(i)]
<1>0. n \in Nat /\ Mults = 1..n /\ RingSize \in Nat \ {0}
  BY OrderFacts, Moduli
<1>1. IntVector(n, b) /\ (\A v : BitSum(l, v) = Dot(n, b, v)) /\ \A i \in Mults : b[i] = RBit(i, l) /\ RBit(i, l) \in Int
  BY BitFacts
<1>2. ASSUME NEW i \in Mults
      PROVE  /\ pl[i] \in Int /\ sp[i] \in Int /\ of[i] \in Int /\ of[i] = 0 - Off(i) /\ w[i] = pl[i] + sp[i]
             /\ Same(RingSize, w[i], of[i])
  <2> DEFINE mo == m[Out(i)]
             p0 == Plain(i)
             o0 == Off(i)
             s0 == SubProduct(i, A, WholeVector(Bvs, BOf))
  <2>1. Same(RingSize, s0, mo - o0 - p0) /\ s0 \in Int /\ mo \in Int /\ o0 \in Int /\ p0 \in Int
    BY PartsTotal
  <2>2. pl[i] = p0 - mo /\ sp[i] = s0 /\ of[i] = 0 - o0 /\ w[i] = pl[i] + sp[i]
    BY <1>0 DEF SubProducts
  <2>a. of[i] = 0 - Off(i)
    BY <1>0
  <2> HIDE DEF mo, p0, o0, s0, pl, sp, of, w
  <2>3. Same(RingSize, p0 - mo, p0 - mo) /\ p0 - mo \in Int /\ mo - o0 - p0 \in Int
    BY <2>1 DEF Same
  <2>4. Same(RingSize, (p0 - mo) + s0, (p0 - mo) + (mo - o0 - p0))
    BY <1>0, <2>1, <2>3, SameOps
  <2>5. (p0 - mo) + (mo - o0 - p0) = 0 - o0
    BY <2>1
  <2>6. pl[i] \in Int /\ sp[i] \in Int /\ of[i] \in Int
    BY <2>1, <2>2
  <2>7. Same(RingSize, w[i], of[i])
    BY <2>2, <2>4, <2>5
  <2> QED BY <2>a, <2>2, <2>6, <2>7
<1>3. LambdaSum(l) = Ring(BitSum(l, pl))
  BY DEF LambdaSum, Plain
<1> HIDE DEF b, pl, sp, w, of
<1>4. IntVector(n, pl) /\ IntVector(n, sp) /\ IntVector(n, of) /\ Plus(n, pl, sp, w)
  BY <1>0, <1>2 DEF IntVector, Plus
<1> HIDE DEF n
<1>5. /\ Dot(n, b, w) = Dot(n, b, pl) + Dot(n, b, sp) /\ IntVector(n, w)
      /\ Dot(n, b, pl) \in Int /\ Dot(n, b, sp) \in Int
  BY <1>0, <1>1, <1>4, DotAdd
<1>6. Same(RingSize, Dot(n, b, w), Dot(n, b, of))
  BY <1>0, <1>1, <1>2, <1>4, <1>5, DotSame
<1>7. Dot(n, b, of) = 0 - CheatTerm(l) /\ CheatTerm(l) \in Int
  <2>0. cheat.by \in Int
    BY BaseFacts
  <2>1. CASE cheat.gate \in Mults
    <3> DEFINE g == cheat.gate
               q == 0 - cheat.by
    <3>1. g \in 1..n /\ q \in Int
      BY <1>0, <2>0, <2>1
    <3>2. Single(n, of, g, q)
      <4>1. ASSUME NEW i \in 1..n PROVE of[i] = IF i = g THEN q ELSE 0
        <5>1. of[i] = 0 - Off(i)
          BY <1>0, <1>2
        <5> QED BY <5>1 DEF Off
      <4> QED BY <4>1 DEF Single
    <3> HIDE DEF g, q
    <3>3. Dot(n, b, of) = b[g] * q
      BY <1>0, <1>1, <3>1, <3>2, DotSingle
    <3>4. b[g] = RBit(cheat.gate, l) /\ RBit(cheat.gate, l) \in Int
      BY <1>1, <2>1 DEF g
    <3>5. RBit(cheat.gate, l) * (0 - cheat.by) = 0 - RBit(cheat.gate, l) * cheat.by
      BY <2>0, <3>4
    <3> QED BY <2>0, <2>1, <3>3, <3>4, <3>5 DEF CheatTerm, q
  <2>2. CASE cheat.gate \notin Mults
    <3>1. \A i \in 1..n : of[i] = 0
      <4> SUFFICES ASSUME NEW i \in 1..n PROVE of[i] = 0
        OBVIOUS
      <4>1. of[i] = 0 - Off(i) /\ i # cheat.gate
        BY <1>0, <1>2, <2>2
      <4> QED BY <4>1 DEF Off
    <3> DEFINE v == [i \in 1..n |-> b[i] * of[i]]
    <3>2. \A i \in 1..n : v[i] = 0
      <4> SUFFICES ASSUME NEW i \in 1..n PROVE b[i] * of[i] = 0
        OBVIOUS
      <4>1. b[i] \in Int
        BY <1>1 DEF IntVector
      <4> QED BY <3>1, <4>1
    <3> HIDE DEF v
    <3>3. SumTo(n, v) = 0
      BY <1>0, <3>2, SumZeros
    <3> QED BY <2>2, <3>3 DEF CheatTerm, Dot, v
  <2> QED BY <2>1, <2>2
<1> DEFINE dp == Dot(n, b, pl)
           ds == Dot(n, b, sp)
<1>8. dp \in Int /\ ds \in Int /\ Same(RingSize, dp + ds, 0 - CheatTerm(l)) /\ LambdaSum(l) = Ring(dp)
      /\ BitSum(l, sp) = ds
  BY <1>1, <1>3, <1>5, <1>6, <1>7
<1> HIDE DEF dp, ds
<1>9. LambdaSum(l) \in Int /\ LambdaSum(l) \in 0..(RingSize - 1) /\ Same(RingSize, LambdaSum(l), dp)
  BY <1>8, RingFacts
<1>10. Same(RingSize, LambdaSum(l) + ds, dp + ds)
  <2>1. Same(RingSize, ds, ds)
    BY DEF Same
  <2> QED BY <1>0, <1>8, <1>9, <2>1, SameOps
<1>11. Same(RingSize, LambdaSum(l) + ds, 0 - CheatTerm(l))
  BY <1>8, <1>10 DEF Same
<1> QED BY <1>7, <1>8, <1>9, <1>11 DEF sp

-----------------------------------------------------------------------------
(* The circuit stays, and all that is defined by it.                       *)
LEMMA GatesStay ==
  ASSUME gates' = gates
  PROVE  /\ Wires' = Wires /\ NumMults' = NumMults /\ Mults' = Mults /\ Bvs' = Bvs
         /\ \A i : Out(i)' = Out(i) /\ Dim(i)' = Dim(i) /\ Size(i)' = Size(i) /\ Offset(i)' = Offset(i)
         /\ \A i, j : In1(i, j)' = In1(i, j) /\ In2(i, j)' = In2(i, j)
<1>1. MultOrder' = MultOrder
  BY DEF MultOrder, IsMult, Type
<1>2. NumMults' = NumMults /\ Mults' = Mults
  BY <1>1 DEF Mults, NumMults
<1>3. \A i : Out(i)' = Out(i)
  BY <1>1 DEF Out
<1>4. \A i : Dim(i)' = Dim(i) /\ Size(i)' = Size(i)
  BY <1>3 DEF Dim, Size
<1>5. \A i, j : In1(i, j)' = In1(i, j) /\ In2(i, j)' = In2(i, j)
  BY <1>3 DEF In1, In2
<1>6. Bvs' = Bvs /\ \A i : Offset(i)' = Offset(i)
  BY <1>2, <1>4 DEF Bvs, Offset
<1>7. Wires' = Wires
  BY DEF Wires
<1> QED BY <1>2, <1>3, <1>4, <1>5, <1>6, <1>7

(* Setup: the dealer has dealt what the parties hold.                      *)
LEMMA SetupStep ==
  ASSUME Base, Setup
  PROVE  SetupOk' /\ Stays /\ pos' = pos /\ nsum' = nsum /\ pc' = "evaluate"
<1>1. /\ Stays /\ pos' = pos /\ nsum' = nsum /\ gates' = gates /\ pc' = "evaluate"
      /\ mask' = Masks
      /\ dealt' = [i \in Parties |-> Shares(i)] /\ lambda' = [i \in Parties |-> Shares(i)]
      /\ gamma' = [p \in Parties |-> [i \in Mults |-> GammaShare(p, i)]]
      /\ lifted' = [i \in Mults |-> Lifted(i)]
  BY DEF Setup, Stays, choices, proofVars
<1>2. \A p \in Parties : dealt'[p] = Shares(p) /\ lambda'[p] = Shares(p)
  BY <1>1
<1>3. \A p \in Parties : \A i \in Mults : gamma'[p][i] = GammaShare(p, i)
  BY <1>1
<1>4. \A p \in Parties : \A w \in Wires : lambda'[p][w] \in Int /\ dealt'[p][w] = lambda'[p][w]
  BY <1>2, SharesInt
<1>5. \A p \in Parties : \A i \in Mults : gamma'[p][i] \in Int
  BY <1>3, GammaInt
<1>6. \A w \in Wires : mask'[w] \in Int
  BY <1>1, MasksInt
<1>7. ASSUME NEW i \in Mults PROVE lifted'[i] = LargeRing(SumTo(nP, LastShares(i)'))
  <2>1. LastShares(i)' = [p \in Parties |-> Ring(gamma'[p][i] - lambda'[p][Out(i)])]
    BY <1>1, GatesStay DEF LastShares
  <2>2. LastShares(i)' = [p \in Parties |-> Ring(GammaShare(p, i) - Shares(p)[Out(i)])]
    BY <1>2, <1>3, <2>1
  <2>3. lifted'[i] = Lifted(i)
    BY <1>1
  <2> QED BY <2>2, <2>3 DEF Lifted
<1>8. Wires' = Wires /\ Mults' = Mults
  BY <1>1, GatesStay
<1>9. SetupOk'
  BY <1>4, <1>5, <1>6, <1>7, <1>8 DEF SetupOk
<1> QED BY <1>1, <1>9

(* It still has when nothing of it changes.                                *)
LEMMA SetupStays ==
  ASSUME SetupOk, gates' = gates, setupVars' = setupVars
  PROVE  SetupOk'
<1>1. mask' = mask /\ dealt' = dealt /\ lifted' = lifted /\ lambda' = lambda /\ gamma' = gamma
  BY DEF setupVars
<1>2. Wires' = Wires /\ Mults' = Mults /\ \A i : LastShares(i)' = LastShares(i)
  BY <1>1, GatesStay DEF LastShares
<1> QED BY <1>1, <1>2 DEF SetupOk

(* Evaluate: every masked output is what the shares sum to, but for its    *)
(* deviation.                                                              *)
LEMMA EvaluateStep ==
  ASSUME Base, SetupOk, Evaluate
  PROVE  SetupOk' /\ MaskedInt' /\ MaskedOk' /\ Stays /\ pos' = pos /\ nsum' = nsum /\ pc' = "products"
<1>1. Stays /\ pos' = pos /\ nsum' = nsum /\ gates' = gates /\ cheat' = cheat /\ setupVars' = setupVars
      /\ m' = Masked /\ pc' = "products" /\ lambda' = lambda /\ gamma' = gamma
  BY DEF Evaluate, Stays, choices, proofVars, setupVars
<1>2. SetupOk'
  BY <1>1, SetupStays
<1>3. Wires' = Wires /\ Mults' = Mults /\ \A i : Out(i)' = Out(i)
  BY <1>1, GatesStay
<1>4. MaskedInt'
  BY <1>1, <1>3, MaskedFacts DEF MaskedInt
<1>5. \A i : Off(i)' = Off(i)
  BY <1>1 DEF Off
<1>6. ASSUME NEW i PROVE MultShares(i, m)' = MultShares(i, Masked)
  <2>1. \A p : MultShare(p, i, m)' = MultShare(p, i, Masked)
    <3> SUFFICES ASSUME NEW p PROVE MultShare(p, i, m)' = MultShare(p, i, Masked)
      OBVIOUS
    <3> DEFINE M == Masked
    <3>1. m' = M
      BY <1>1
    <3> HIDE DEF M
    <3>a. Dim(i)' = Dim(i) /\ Out(i)' = Out(i) /\ \A j : In1(i, j)' = In1(i, j) /\ In2(i, j)' = In2(i, j)
      BY <1>1, GatesStay
    <3>b. \A j : Term(p, i, m, j)' = Term(p, i, M, j)
      BY <1>1, <3>1, <3>a DEF Term
    <3>c. Terms(p, i, m)' = Terms(p, i, M)
      BY <3>a, <3>b DEF Terms
    <3>d. MultShare(p, i, m)' = SumTo(Dim(i)', Terms(p, i, m)') + gamma'[p][i] - lambda'[p][Out(i)']
      BY DEF MultShare, Terms, Term
    <3>e. MultShare(p, i, M) = SumTo(Dim(i), Terms(p, i, M)) + gamma[p][i] - lambda[p][Out(i)]
      BY DEF MultShare, Terms, Term
    <3>2. MultShare(p, i, m)' = MultShare(p, i, M)
      BY <1>1, <3>a, <3>c, <3>d, <3>e
    <3> QED BY <3>2 DEF M
  <2> QED BY <2>1 DEF MultShares
<1>7. MaskedOk'
  <2> SUFFICES ASSUME NEW i \in Mults PROVE Same(RingSize, m'[Out(i)'], SumTo(nP, MultShares(i, m)') + Off(i)')
    BY <1>3 DEF MaskedOk
  <2> QED BY <1>1, <1>3, <1>5, <1>6, MaskedFacts
<1> QED BY <1>1, <1>2, <1>4, <1>7

-----------------------------------------------------------------------------
(* The SSEC products and their sums.                                       *)
LEMMA SubProductsFacts ==
  ASSUME Base, NEW u, IntVector(Bvs, u), NEW v, IntVector(Bvs, v), NEW l \in 1..SSEC
  PROVE  /\ IntVector(NumMults, SubProducts(u, v)) /\ BitSum(l, SubProducts(u, v)) \in Int
         /\ \A i \in Mults : SubProducts(u, v)[i] = SubProduct(i, u, v) /\ SubProduct(i, u, v) \in Int
<1>1. NumMults \in Nat /\ Mults = 1..NumMults
  BY OrderFacts
<1>2. \A i \in Mults : SubProducts(u, v)[i] = SubProduct(i, u, v) /\ SubProduct(i, u, v) \in Int
  BY SubDot DEF SubProducts
<1>3. IntVector(NumMults, SubProducts(u, v))
  BY <1>1, <1>2 DEF IntVector
<1>4. BitSum(l, SubProducts(u, v)) \in Int
  <2>1. Dot(NumMults, Bits(l), SubProducts(u, v)) \in Int
    BY <1>1, <1>3, BitFacts, DotInt
  <2> QED BY <2>1, BitFacts
<1> QED BY <1>2, <1>3, <1>4

(* The parties' local sums.                                                *)
LocalSums(u, yy, cs) ==
  \A p \in Parties : \A l \in 1..SSEC : cs[p][l] = LargeRing(BitSum(l, SubProducts(u, yy[p])))

(* They sum to the random subset of the whole product.                     *)
LEMMA LocalSumsFacts ==
  ASSUME Base, NEW u, IntVector(Bvs, u), NEW yy, \A p \in Parties : IntVector(Bvs, yy[p]),
         NEW cs, LocalSums(u, yy, cs)
  PROVE  /\ \A p \in Parties : IntVector(SSEC, cs[p])
         /\ \A l \in 1..SSEC : Same(LargeRingSize, SumTo(nP, Column1(nP, cs, l)),
                                    BitSum(l, SubProducts(u, WholeVector(Bvs, yy))))
<1>0. nP \in Nat /\ Parties = 1..nP /\ LargeRingSize \in Nat \ {0} /\ NumMults \in Nat /\ Mults = 1..NumMults
      /\ Bvs \in Nat
  BY Moduli, PlaceFacts
<1>1. \A p \in Parties : IntVector(SSEC, cs[p])
  BY SubProductsFacts, LargeRingFacts DEF IntVector, LocalSums
<1>2. ASSUME NEW l \in 1..SSEC
      PROVE  Same(LargeRingSize, SumTo(nP, Column1(nP, cs, l)), BitSum(l, SubProducts(u, WholeVector(Bvs, yy))))
  <2> DEFINE n  == NumMults
             W  == WholeVector(Bvs, yy)
             c  == Bits(l)
             us == [p \in Parties |-> SubProducts(u, yy[p])]
             w  == SubProducts(u, W)
             ds == [p \in Parties |-> BitSum(l, us[p])]
             r  == Column1(nP, cs, l)
  <2>1. IntVector(n, c) /\ (\A v : BitSum(l, v) = Dot(n, c, v))
    BY BitFacts
  <2>2. \A p \in 1..nP : us[p] = SubProducts(u, yy[p]) /\ ds[p] = BitSum(l, us[p])
    BY <1>0
  <2>3. \A p \in 1..nP : IntVector(n, us[p]) /\ ds[p] \in Int
    BY <1>0, <2>2, SubProductsFacts
  <2>4. ASSUME NEW i \in 1..n PROVE w[i] = SumTo(nP, Column1(nP, us, i))
    <3>1. w[i] = SubProduct(i, u, W)
      BY <1>0 DEF SubProducts
    <3>2. SubProduct(i, u, W) = SumTo(nP, SubShares(i, u, yy))
      BY <1>0, SubSharesFacts
    <3>3. Column1(nP, us, i) = SubShares(i, u, yy)
      BY <1>0 DEF Column1, SubShares, SubProducts
    <3> QED BY <3>1, <3>2, <3>3
  <2>5. \A p \in 1..nP : r[p] = LargeRing(ds[p])
    <3> SUFFICES ASSUME NEW p \in Parties PROVE r[p] = LargeRing(ds[p])
      BY <1>0
    <3>1. r[p] = cs[p][l]
      BY <1>0 DEF Column1
    <3> QED BY <3>1 DEF LocalSums
  <2> HIDE DEF us, w, ds, r, W, n, c
  <2>6. Summed(nP, n, c, us, w, ds)
    BY <2>1, <2>2, <2>3, <2>4 DEF Summed
  <2>7. Dot(n, c, w) = SumTo(nP, ds) /\ IntVector(nP, ds)
    BY <1>0, <2>6, DotShares DEF n
  <2>8. \A p \in 1..nP : r[p] \in Int /\ Same(LargeRingSize, r[p], ds[p])
    BY <2>3, <2>5, LargeRingFacts
  <2>9. IntVector(nP, r)
    BY <2>8 DEF IntVector
  <2>10. Same(LargeRingSize, SumTo(nP, r), SumTo(nP, ds))
    BY <1>0, <2>7, <2>8, <2>9, SumSameMod
  <2> QED BY <2>1, <2>7, <2>10 DEF r, w, W
<1> QED BY <1>1, <1>2

(* After Products.                                                         *)
SumsOfBits(s, u, yy, ns) ==
  /\ IntVector(SSEC, s.ms) /\ \A p \in Procs : IntVector(SSEC, s.ls[p])
  /\ \A l \in 1..SSEC :
       /\ Same(LargeRingSize, s.ms[l] + SumTo(nP, Column1(nP, s.ls, l)),
               BitSum(l, SubProducts(u, WholeVector(Bvs, yy))) + Bent(ns, l))
       /\ Same(LargeRingSize, s.ls[0][l], SumTo(nP, Column1(nP, s.ls, l)))

LambdasOk(ls, u, yy) ==
  \A l \in 1..SSEC :
    /\ ls[l] \in Int /\ CheatTerm(l) \in Int
    /\ Same(RingSize, ls[l] + BitSum(l, SubProducts(u, WholeVector(Bvs, yy))), 0 - CheatTerm(l))

MergeReady ==
  /\ nsum = 1 /\ x \in [1..Bvs -> Int] /\ InStep(Bvs, y)
  /\ SumsOfBits(sums, x, y, 1) /\ LambdasOk(Lambdas, x, y)

(* The deviations and the random bits stay.                                *)
LEMMA DefinedByGates ==
  ASSUME Stays
  PROVE  /\ Bvs' = Bvs /\ \A ns, k : Bent(ns, k)' = Bent(ns, k)
         /\ \A l : CheatTerm(l)' = CheatTerm(l)
         /\ \A l, u, v : BitSum(l, SubProducts(u, v))' = BitSum(l, SubProducts(u, v))
<1>1. gates' = gates /\ seed' = seed /\ bend' = bend /\ cheat' = cheat
  BY DEF Stays
<1>2. Bvs' = Bvs /\ NumMults' = NumMults /\ Mults' = Mults
      /\ \A i : Size(i)' = Size(i) /\ Offset(i)' = Offset(i)
  BY <1>1, GatesStay
<1>3. \A i, l : RBit(i, l)' = RBit(i, l)
  BY <1>1 DEF RBit, Draw
<1>4. \A ns, k : Bent(ns, k)' = Bent(ns, k)
  BY <1>1 DEF Bent
<1>5. \A l : CheatTerm(l)' = CheatTerm(l)
  BY <1>1, <1>2, <1>3 DEF CheatTerm
<1>6. \A i, u, v : SubProduct(i, u, v)' = SubProduct(i, u, v)
  BY <1>2 DEF SubProduct
<1>7. \A l, u, v : BitSum(l, SubProducts(u, v))' = BitSum(l, SubProducts(u, v))
  BY <1>2, <1>3, <1>6 DEF BitSum, SubProducts
<1> QED BY <1>2, <1>4, <1>5, <1>7

(* The sum of the products of the next x and y.                            *)
LEMMA BitsNext ==
  ASSUME Stays, NEW U, NEW W, x' = U, WholeVector(Bvs', y') = W
  PROVE  \A l : BitSum(l, SubProducts(x, WholeVector(Bvs, y)))' = BitSum(l, SubProducts(U, W))
<1>1. gates' = gates /\ seed' = seed
  BY DEF Stays
<1>2. NumMults' = NumMults /\ Mults' = Mults /\ \A i : Size(i)' = Size(i) /\ Offset(i)' = Offset(i)
  BY <1>1, GatesStay
<1>3. \A i, l : RBit(i, l)' = RBit(i, l)
  BY <1>1 DEF RBit, Draw
<1>4. \A i : SubProduct(i, x, WholeVector(Bvs, y))' = SubProduct(i, U, W)
  BY <1>2 DEF SubProduct
<1>5. SubProducts(x, WholeVector(Bvs, y))' = SubProducts(U, W)
  BY <1>2, <1>4 DEF SubProducts
<1> QED BY <1>2, <1>3, <1>5 DEF BitSum

(* Products: the vectors are in step, and the sums are those of the random *)
(* subsets.                                                                *)
LEMMA ProductsStep ==
  ASSUME Base, SetupOk, MaskedInt, MaskedOk, nsum = 0, Products
  PROVE  MergeReady' /\ Stays /\ pos' \in Nat /\ nsum' \in Nat /\ pc' = "merge"
<1> DEFINE cs == [p \in Parties |-> [l \in 1..SSEC |->
                    LargeRing(BitSum(l, [i \in Mults |-> SubProduct(i, A, BOf[p])]))]]
           W == WholeVector(Bvs, BOf)
<1>0. SSEC \in Nat /\ Bvs \in Nat /\ \A p \in Parties : p \in Procs
  BY Moduli, PlaceFacts
<1>1. /\ Stays /\ x' = A /\ y' = BOf /\ Lambdas' = [l \in 1..SSEC |-> LambdaSum(l)] /\ ShareSum(cs, SSEC)
      /\ pc' = "merge"
  BY DEF Products, Stays, choices, BOf
<1>2. \A p \in Parties : \A l \in 1..SSEC : cs[p][l] = LargeRing(BitSum(l, SubProducts(A, BOf[p])))
  BY DEF SubProducts
<1> HIDE DEF cs
<1>3. IntVector(Bvs, A) /\ A \in [1..Bvs -> Int]
  BY <1>0, AFacts, VectorFacts
<1>4. InStep(Bvs, BOf) /\ \A p \in Parties : IntVector(Bvs, BOf[p])
  <2>1. InStep(Bvs, BOf)
    BY BFacts
  <2> QED BY <1>0, <2>1, VectorFacts DEF InStep
<1>5. LocalSums(A, BOf, cs)
  BY <1>2 DEF LocalSums
<1>6. /\ \A p \in Parties : IntVector(SSEC, cs[p])
      /\ \A l \in 1..SSEC : Same(LargeRingSize, SumTo(nP, Column1(nP, cs, l)), BitSum(l, SubProducts(A, W)))
  BY <1>3, <1>4, <1>5, LocalSumsFacts
<1>7. SummedUp(sums', SSEC, cs, 1) /\ pos' = pos + SSEC /\ nsum' = 1
  <2>1. nsum + 1 = 1
    OBVIOUS
  <2> QED BY <1>0, <1>1, <1>6, <2>1, ShareSumFacts
<1>8. IntVector(Bvs, W)
  BY <1>0, <1>4, WholeFacts
<1> HIDE DEF W
<1>9. SumsOfBits(sums', A, BOf, 1)
  <2>1. ASSUME NEW l \in 1..SSEC
        PROVE  Same(LargeRingSize, sums'.ms[l] + SumTo(nP, Column1(nP, sums'.ls, l)),
                    BitSum(l, SubProducts(A, W)) + Bent(1, l))
    <3> DEFINE a == SumTo(nP, Column1(nP, cs, l))
               b == BitSum(l, SubProducts(A, W))
               e == Bent(1, l)
    <3>1. a \in Int
      <4>1. \A p \in 1..nP : IntVector(SSEC, cs[p])
        BY <1>6 DEF Parties
      <4> QED BY <1>0, <4>1, Moduli, ColumnInt
    <3>2. b \in Int
      BY <1>3, <1>8, SubProductsFacts
    <3>3. e \in Int /\ Same(LargeRingSize, e, e)
      BY BentFacts DEF Same
    <3>4. Same(LargeRingSize, a, b)
      BY <1>6
    <3>5. Same(LargeRingSize, sums'.ms[l] + SumTo(nP, Column1(nP, sums'.ls, l)), a + e)
      BY <1>7 DEF SummedUp
    <3> HIDE DEF a, b, e
    <3>6. Same(LargeRingSize, a + e, b + e)
      BY <3>1, <3>2, <3>3, <3>4, Moduli, SameOps
    <3>7. Same(LargeRingSize, sums'.ms[l] + SumTo(nP, Column1(nP, sums'.ls, l)), b + e)
      BY <3>5, <3>6 DEF Same
    <3> QED BY <3>7 DEF b, e
  <2> QED BY <1>7, <2>1 DEF SumsOfBits, SummedUp, W
<1>10. LambdasOk(Lambdas', A, BOf)
  <2> SUFFICES ASSUME NEW l \in 1..SSEC
               PROVE  /\ Lambdas'[l] \in Int /\ CheatTerm(l) \in Int
                      /\ Same(RingSize, Lambdas'[l] + BitSum(l, SubProducts(A, WholeVector(Bvs, BOf))), 0 - CheatTerm(l))
    BY DEF LambdasOk
  <2>1. Lambdas'[l] = LambdaSum(l)
    BY <1>1
  <2> QED BY <2>1, BitTotal
<1>b. \A l : BitSum(l, SubProducts(x, WholeVector(Bvs, y)))' = BitSum(l, SubProducts(A, W))
  <2> DEFINE U == A
  <2>1. x' = U /\ WholeVector(Bvs', y') = W
    BY <1>1, DefinedByGates DEF W
  <2> HIDE DEF U
  <2>2. \A l : BitSum(l, SubProducts(x, WholeVector(Bvs, y)))' = BitSum(l, SubProducts(U, W))
    BY <1>1, <2>1, BitsNext
  <2> QED BY <2>2 DEF U
<1>11. SumsOfBits(sums, x, y, 1)'
  <2>1. \A ns, k : Bent(ns, k)' = Bent(ns, k)
    BY <1>1, DefinedByGates
  <2> QED BY <1>9, <2>1, <1>b DEF SumsOfBits, W
<1>12. LambdasOk(Lambdas, x, y)'
  <2>1. \A l : CheatTerm(l)' = CheatTerm(l)
    BY <1>1, DefinedByGates
  <2> QED BY <1>10, <2>1, <1>b DEF LambdasOk, W
<1>13. x' \in [1..Bvs' -> Int] /\ InStep(Bvs', y') /\ Bvs' = Bvs
  BY <1>1, <1>3, <1>4, DefinedByGates
<1>14. InStep(Bvs, y)'
  <2>1. \A k : Column1(nP, y', k) = Column1(nP, y, k)'
    BY DEF Column1
  <2> QED BY <1>13 DEF InStep
<1>15. MergeReady'
  BY <1>7, <1>11, <1>12, <1>13, <1>14 DEF MergeReady
<1>16. pos' \in Nat /\ nsum' \in Nat
  BY <1>0, <1>7, BaseFacts
<1> QED BY <1>1, <1>15, <1>16

-----------------------------------------------------------------------------
(* Merging: one product with random coefficients instead of SSEC products  *)
(* with random bits.                                                       *)
LEMMA InnerFacts ==
  ASSUME NEW n \in Nat, NEW u \in [1..n -> Int], NEW v, IntVector(n, v)
  PROVE  /\ Inner(u, v) = LargeRing(Dot(n, u, v)) /\ Dot(n, u, v) \in Int
         /\ Inner(u, v) \in Int /\ Inner(u, v) \in 0..(LargeRingSize - 1)
         /\ Same(LargeRingSize, Inner(u, v), Dot(n, u, v))
<1>1. Len(u) = n /\ DOMAIN u = 1..n /\ IntVector(n, u)
  BY VectorFacts
<1>2. Inner(u, v) = LargeRing(Dot(n, u, v))
  BY <1>1 DEF Inner, Dot
<1>3. Dot(n, u, v) \in Int
  BY <1>1, DotInt
<1> QED BY <1>2, <1>3, LargeRingFacts

(* The coefficients of the multiplications.                                *)
FactorTerms(i, rm) == [l \in 1..SSEC |-> RBit(i, l) * rm[l]]
Exact(i, rm) == SumTo(SSEC, FactorTerms(i, rm))

(* They are integers, up to multiples of LargeRingSize the sums of the     *)
(* random bits times the random numbers.                                   *)
LEMMA FactorFacts ==
  ASSUME Base, NEW rm, IntVector(SSEC, rm), NEW i \in Mults
  PROVE  /\ IntVector(SSEC, FactorTerms(i, rm)) /\ Exact(i, rm) \in Int
         /\ Factor(i, rm) \in Int /\ Same(LargeRingSize, Factor(i, rm), Exact(i, rm))
         /\ \A l \in 1..SSEC : FactorTerms(i, rm)[l] = RBit(i, l) * rm[l] /\ RBit(i, l) \in Int
<1>1. \A l \in 1..SSEC : RBit(i, l) \in Int
  BY BitFacts
<1>2. \A l \in 1..SSEC : RBit(i, l) * rm[l] \in Int
  BY <1>1 DEF IntVector
<1>3. IntVector(SSEC, FactorTerms(i, rm))
  BY <1>2 DEF FactorTerms, IntVector
<1>4. Exact(i, rm) \in Int
  BY <1>3, Moduli, SumInt DEF Exact
<1>5. Factor(i, rm) = LargeRing(Exact(i, rm))
  BY DEF Factor, Exact, FactorTerms
<1>6. Factor(i, rm) \in Int /\ Same(LargeRingSize, Factor(i, rm), Exact(i, rm))
  BY <1>4, <1>5, LargeRingFacts
<1> QED BY <1>1, <1>3, <1>4, <1>6 DEF FactorTerms

(* x, every part times the coefficient of its multiplication.              *)
Weighted(u, rm) == [k \in 1..Bvs |-> u[k] * Exact(GateOf(k), rm)]

(* What x is after Merge, up to multiples of LargeRingSize.                *)
LEMMA WeightedFacts ==
  ASSUME Base, NEW rm, IntVector(SSEC, rm), NEW u, IntVector(Bvs, u)
  PROVE  /\ IntVector(Bvs, Weighted(u, rm))
         /\ \A k \in 1..Bvs : Same(LargeRingSize, LargeRing(u[k] * Factor(GateOf(k), rm)), Weighted(u, rm)[k])
         /\ \A k \in 1..Bvs : LargeRing(u[k] * Factor(GateOf(k), rm)) \in Int
<1> SUFFICES ASSUME NEW k \in 1..Bvs
             PROVE  /\ Weighted(u, rm)[k] \in Int
                    /\ Same(LargeRingSize, LargeRing(u[k] * Factor(GateOf(k), rm)), Weighted(u, rm)[k])
                    /\ LargeRing(u[k] * Factor(GateOf(k), rm)) \in Int
  BY DEF IntVector
<1> DEFINE i == GateOf(k)
           f == Factor(i, rm)
           g == Exact(i, rm)
<1>1. i \in Mults
  BY PlaceFacts
<1>2. f \in Int /\ g \in Int /\ Same(LargeRingSize, f, g)
  BY <1>1, FactorFacts
<1>3. u[k] \in Int /\ Same(LargeRingSize, u[k], u[k])
  BY DEF IntVector, Same
<1>4. Weighted(u, rm)[k] = u[k] * g
  BY DEF Weighted
<1> HIDE DEF f, g, i
<1>5. u[k] * f \in Int /\ u[k] * g \in Int
  BY <1>2, <1>3
<1>6. Same(LargeRingSize, u[k] * f, u[k] * g)
  BY <1>2, <1>3, Moduli, SameOps
<1>7. LargeRing(u[k] * f) \in Int /\ Same(LargeRingSize, LargeRing(u[k] * f), u[k] * f)
  BY <1>5, LargeRingFacts
<1>8. Same(LargeRingSize, LargeRing(u[k] * f), u[k] * g)
  BY <1>6, <1>7 DEF Same
<1> QED BY <1>4, <1>5, <1>7, <1>8 DEF f, i

(* Its product with another vector, multiplication by multiplication.      *)
WeightedParts(u, v, rm) == [i \in Mults |-> Exact(i, rm) * SubProduct(i, u, v)]

(* It is the sum of the parts' products, each times its coefficient.       *)
LEMMA WeightedProduct ==
  ASSUME Base, NEW rm, IntVector(SSEC, rm), NEW u, IntVector(Bvs, u), NEW v, IntVector(Bvs, v)
  PROVE  Dot(Bvs, Weighted(u, rm), v) = SumTo(NumMults, WeightedParts(u, v, rm))
<1> DEFINE w     == [k \in 1..Bvs |-> Weighted(u, rm)[k] * v[k]]
           part  == [i \in Mults |-> [e \in 1..Size(i) |-> w[Offset(i) + e]]]
           total == [i \in Mults |-> SumTo(Size(i), part[i])]
<1>1. /\ Bvs \in Nat /\ NumMults \in Nat /\ Mults = 1..NumMults
      /\ Bvs = SumTo(NumMults, Sizes) /\ \A i \in Mults : Offset(i) = SumTo(i - 1, Sizes)
      /\ \A i \in Mults : Sizes[i] = Size(i) /\ Size(i) \in Nat
      /\ \A i \in Mults : \A e \in 1..Size(i) : Offset(i) + e \in 1..Bvs /\ GateOf(Offset(i) + e) = i
  BY PlaceFacts
<1>2. IntVector(Bvs, Weighted(u, rm))
  BY WeightedFacts
<1>3. IntVector(Bvs, w) /\ Dot(Bvs, Weighted(u, rm), v) = SumTo(Bvs, w)
  <2>1. IntVector(Bvs, w)
    BY <1>1, <1>2, DotInt
  <2> QED BY <2>1 DEF Dot
<1>4. ASSUME NEW i \in Mults
      PROVE  /\ total[i] = Exact(i, rm) * SubProduct(i, u, v)
             /\ \A e \in 1..Size(i) : part[i][e] = w[Offset(i) + e]
             /\ total[i] = SumTo(Size(i), part[i])
  <2> DEFINE q == [e \in 1..Size(i) |-> u[Offset(i) + e] * v[Offset(i) + e]]
             g == Exact(i, rm)
  <2>1. g \in Int
    BY FactorFacts
  <2>2. ASSUME NEW e \in 1..Size(i) PROVE q[e] \in Int /\ part[i][e] = g * q[e]
    <3> DEFINE k == Offset(i) + e
    <3>1. k \in 1..Bvs /\ GateOf(k) = i
      BY <1>1
    <3>2. u[k] \in Int /\ v[k] \in Int
      BY <3>1 DEF IntVector
    <3>3. Weighted(u, rm)[k] = u[k] * g
      BY <3>1 DEF Weighted
    <3>4. w[k] = (u[k] * g) * v[k]
      BY <3>1, <3>3
    <3>5. part[i][e] = w[k] /\ q[e] = u[k] * v[k]
      OBVIOUS
    <3> HIDE DEF g, k, w, part, q
    <3>6. u[k] * v[k] \in Int /\ (u[k] * g) * v[k] = g * (u[k] * v[k])
      BY <2>1, <3>2
    <3> QED BY <3>4, <3>5, <3>6
  <2>3. SubProduct(i, u, v) = SumTo(Size(i), q)
    BY DEF SubProduct
  <2>4. total[i] = SumTo(Size(i), part[i]) /\ \A e \in 1..Size(i) : part[i][e] = w[Offset(i) + e]
    OBVIOUS
  <2>5. IntVector(Size(i), q)
    BY <2>2 DEF IntVector
  <2>6. Size(i) \in Nat
    BY <1>1
  <2> HIDE DEF g, q, part, total, w
  <2>7. SumTo(Size(i), part[i]) = g * SumTo(Size(i), q)
    BY <2>1, <2>2, <2>5, <2>6, SumScale
  <2> QED BY <2>3, <2>4, <2>7 DEF g
<1>5. Blocks(NumMults, Sizes, w, part, total)
  <2> HIDE DEF w, part, total
  <2> QED BY <1>1, <1>3, <1>4 DEF Blocks
<1> HIDE DEF w, part, total
<1>6. SumTo(NumMults, total) = SumTo(Bvs, w) /\ IntVector(NumMults, total)
  BY <1>1, <1>5, SumBlocks
<1>7. \A i \in 1..NumMults : total[i] = WeightedParts(u, v, rm)[i]
  BY <1>1, <1>4 DEF WeightedParts
<1>8. SumTo(NumMults, total) = SumTo(NumMults, WeightedParts(u, v, rm))
  BY <1>1, <1>6, <1>7, SumSame
<1> QED BY <1>3, <1>6, <1>8

(* The same, random bits by random bits.                                   *)
BitSums(u, v) == [l \in 1..SSEC |-> BitSum(l, SubProducts(u, v))]

(* So it is the sum of the random subsets, each times its random number.   *)
LEMMA WeightedByBits ==
  ASSUME Base, NEW rm, IntVector(SSEC, rm), NEW u, IntVector(Bvs, u), NEW v, IntVector(Bvs, v)
  PROVE  SumTo(NumMults, WeightedParts(u, v, rm)) = Dot(SSEC, rm, BitSums(u, v))
<1> DEFINE sp == SubProducts(u, v)
           R == [i \in 1..NumMults |-> [l \in 1..SSEC |-> (RBit(i, l) * rm[l]) * sp[i]]]
           K == [l \in 1..SSEC |-> [i \in 1..NumMults |-> (RBit(i, l) * rm[l]) * sp[i]]]
           a == WeightedParts(u, v, rm)
           b == [l \in 1..SSEC |-> rm[l] * BitSums(u, v)[l]]
<1>1. NumMults \in Nat /\ Mults = 1..NumMults /\ SSEC \in Nat
  BY PlaceFacts, Moduli
<1>2. \A i \in 1..NumMults : sp[i] = SubProduct(i, u, v) /\ sp[i] \in Int
  <2>1. ASSUME NEW i \in Mults PROVE SubProduct(i, u, v) \in Int
    BY SubDot
  <2> QED BY <1>1, <2>1 DEF SubProducts
<1>a. \A l \in 1..SSEC : \A i \in 1..NumMults : RBit(i, l) \in Int
  BY <1>1, BitFacts
<1>3. ASSUME NEW i \in 1..NumMults
      PROVE  IntVector(SSEC, R[i]) /\ a[i] = SumTo(SSEC, R[i])
  <2>1. IntVector(SSEC, FactorTerms(i, rm)) /\ \A l \in 1..SSEC : FactorTerms(i, rm)[l] = RBit(i, l) * rm[l]
    BY <1>1, FactorFacts
  <2>2. a[i] = Exact(i, rm) * sp[i]
    BY <1>1, <1>2 DEF WeightedParts
  <2>3. \A l \in 1..SSEC : R[i][l] = FactorTerms(i, rm)[l] * sp[i]
    BY <2>1
  <2> HIDE DEF R, sp, a
  <2>4. \A l \in 1..SSEC : FactorTerms(i, rm)[l] * sp[i] = sp[i] * FactorTerms(i, rm)[l]
    BY <1>2, <2>1 DEF IntVector
  <2>5. \A l \in 1..SSEC : R[i][l] = sp[i] * FactorTerms(i, rm)[l]
    BY <2>3, <2>4
  <2>6. SumTo(SSEC, R[i]) = sp[i] * SumTo(SSEC, FactorTerms(i, rm)) /\ IntVector(SSEC, R[i])
    BY <1>1, <1>2, <2>1, <2>5, SumScale
  <2>7. Exact(i, rm) \in Int /\ Exact(i, rm) = SumTo(SSEC, FactorTerms(i, rm))
    BY <1>1, FactorFacts DEF Exact
  <2>8. sp[i] * Exact(i, rm) = Exact(i, rm) * sp[i]
    BY <1>2, <2>7
  <2> QED BY <2>2, <2>6, <2>7, <2>8
<1>4. ASSUME NEW l \in 1..SSEC
      PROVE  IntVector(NumMults, K[l]) /\ b[l] = SumTo(NumMults, K[l])
  <2> DEFINE q == [i \in Mults |-> RBit(i, l) * sp[i]]
  <2>1. BitSums(u, v)[l] = SumTo(NumMults, q)
    BY DEF BitSums, BitSum
  <2>2. b[l] = rm[l] * SumTo(NumMults, q)
    BY <2>1
  <2>3. \A i \in 1..NumMults : q[i] = RBit(i, l) * sp[i] /\ K[l][i] = (RBit(i, l) * rm[l]) * sp[i]
    BY <1>1
  <2>4. rm[l] \in Int
    BY DEF IntVector
  <2> HIDE DEF q, K, sp, b
  <2>5. ASSUME NEW i \in 1..NumMults PROVE q[i] \in Int /\ K[l][i] = rm[l] * q[i]
    <3>1. RBit(i, l) \in Int /\ sp[i] \in Int
      BY <1>2, <1>a
    <3> DEFINE r == RBit(i, l)
    <3> HIDE DEF r
    <3>2. r * sp[i] \in Int /\ (r * rm[l]) * sp[i] = rm[l] * (r * sp[i])
      BY <2>4, <3>1 DEF r
    <3> QED BY <2>3, <3>2 DEF r
  <2>6. IntVector(NumMults, q)
    BY <2>5 DEF IntVector
  <2>7. SumTo(NumMults, K[l]) = rm[l] * SumTo(NumMults, q) /\ IntVector(NumMults, K[l])
    <3> DEFINE c == rm[l]
               Kl == K[l]
    <3>1. c \in Int /\ \A i \in 1..NumMults : Kl[i] = c * q[i]
      BY <2>4, <2>5
    <3> HIDE DEF c, Kl
    <3>2. SumTo(NumMults, Kl) = c * SumTo(NumMults, q) /\ IntVector(NumMults, Kl)
      BY <1>1, <2>6, <3>1, SumScale
    <3> QED BY <3>2 DEF c, Kl
  <2> QED BY <2>2, <2>7
<1>5. \A i \in 1..NumMults : \A l \in 1..SSEC : R[i][l] = K[l][i]
  OBVIOUS
<1> HIDE DEF R, K, a, b, sp
<1>6. RowsAndColumns(NumMults, SSEC, R, K, a, b)
  BY <1>3, <1>4, <1>5 DEF RowsAndColumns
<1>7. SumTo(NumMults, a) = SumTo(SSEC, b)
  BY <1>1, <1>6, SumSwap
<1> QED BY <1>7 DEF a, b, Dot

(* Hence the product of the merged x with y is the merged product.         *)
LEMMA MergedVector ==
  ASSUME Base, NEW rm, IntVector(SSEC, rm), NEW u, IntVector(Bvs, u), NEW v, IntVector(Bvs, v),
         NEW x1, x1 = [k \in 1..Bvs |-> LargeRing(u[k] * Factor(GateOf(k), rm))]
  PROVE  /\ x1 \in [1..Bvs -> Int] /\ Dot(Bvs, x1, v) \in Int
         /\ Same(LargeRingSize, Dot(Bvs, x1, v), Dot(SSEC, rm, BitSums(u, v)))
<1>1. Bvs \in Nat
  BY PlaceFacts
<1>2. /\ IntVector(Bvs, Weighted(u, rm))
      /\ \A k \in 1..Bvs : x1[k] \in Int /\ Same(LargeRingSize, x1[k], Weighted(u, rm)[k])
  BY WeightedFacts
<1>3. IntVector(Bvs, x1)
  BY <1>2 DEF IntVector
<1>4. x1 \in [1..Bvs -> Int]
  <2>1. x1 = [k \in 1..Bvs |-> x1[k]]
    OBVIOUS
  <2> QED BY <1>1, <1>3, <2>1, VectorIs
<1>5. Same(LargeRingSize, Dot(Bvs, v, x1), Dot(Bvs, v, Weighted(u, rm)))
  BY <1>1, <1>2, <1>3, Moduli, DotSame
<1>6. /\ Dot(Bvs, v, x1) = Dot(Bvs, x1, v) /\ Dot(Bvs, x1, v) \in Int
      /\ Dot(Bvs, v, Weighted(u, rm)) = Dot(Bvs, Weighted(u, rm), v)
  BY <1>1, <1>2, <1>3, DotInt
<1>7. Dot(Bvs, Weighted(u, rm), v) = Dot(SSEC, rm, BitSums(u, v))
  BY WeightedProduct, WeightedByBits
<1> QED BY <1>4, <1>5, <1>6, <1>7

(* What shareSum returned, merged.                                         *)
Returned(n, s) ==
  /\ IntVector(n, s.ms) /\ \A p \in Procs : IntVector(n, s.ls[p])
  /\ \A k \in 1..n : Same(LargeRingSize, s.ls[0][k], SumTo(nP, Column1(nP, s.ls, k)))

(* What it returned are integers, and so is what they sum to.              *)
LEMMA ReturnedFacts ==
  ASSUME NEW n \in Nat, NEW s, Returned(n, s)
  PROVE  /\ IntVector(n, WholeVector(n, s.ls)) /\ IntVector(n, TotalOf(n, s))
         /\ \A k \in 1..n : /\ WholeVector(n, s.ls)[k] = SumTo(nP, Column1(nP, s.ls, k))
                            /\ TotalOf(n, s)[k] = s.ms[k] + WholeVector(n, s.ls)[k]
                            /\ s.ms[k] \in Int
<1>1. \A p \in Parties : IntVector(n, s.ls[p])
  BY Moduli DEF Returned
<1> DEFINE ls == s.ls
<1>2. \A p \in Parties : IntVector(n, ls[p])
  BY <1>1
<1> HIDE DEF ls
<1>3. IntVector(n, WholeVector(n, ls))
  BY <1>2, WholeFacts
<1>4. \A k \in 1..n : WholeVector(n, ls)[k] = SumTo(nP, Column1(nP, ls, k))
  BY DEF WholeVector
<1>5. \A k \in 1..n : TotalOf(n, s)[k] = s.ms[k] + WholeVector(n, ls)[k]
  BY <1>4 DEF TotalOf, ls
<1>6. \A k \in 1..n : s.ms[k] \in Int /\ WholeVector(n, ls)[k] \in Int
  BY <1>3 DEF Returned, IntVector
<1>7. IntVector(n, TotalOf(n, s))
  BY <1>5, <1>6 DEF IntVector
<1> QED BY <1>3, <1>4, <1>5, <1>6, <1>7 DEF ls

Inners(n, rm, v, r) ==
  \A p \in Procs : /\ r[p] = Inner(rm, v[p]) /\ r[p] \in Int /\ r[p] \in 0..(LargeRingSize - 1)
                   /\ Dot(n, rm, v[p]) \in Int /\ Same(LargeRingSize, r[p], Dot(n, rm, v[p]))

(* The parties' merged shares sum to the merged sums.                      *)
LEMMA MergedShares ==
  ASSUME NEW n \in Nat, NEW rm, IntVector(n, rm), NEW v, \A p \in Procs : IntVector(n, v[p]),
         NEW r, Inners(n, rm, v, r)
  PROVE  /\ SumTo(nP, r) \in Int
         /\ Same(LargeRingSize, SumTo(nP, r), Dot(n, rm, WholeVector(n, v)))
<1> DEFINE d == [p \in 1..nP |-> Dot(n, rm, v[p])]
           W == WholeVector(n, v)
<1>1. nP \in Nat /\ LargeRingSize \in Nat \ {0} /\ \A p \in 1..nP : p \in Procs /\ p \in Parties
  BY Moduli
<1>2. \A p \in 1..nP : IntVector(n, v[p])
  BY <1>1
<1>3. \A k \in 1..n : W[k] = SumTo(nP, Column1(nP, v, k))
  BY DEF WholeVector
<1>4. \A p \in 1..nP : d[p] = Dot(n, rm, v[p])
  OBVIOUS
<1> HIDE DEF d, W
<1>5. Summed(nP, n, rm, v, W, d)
  BY <1>2, <1>3, <1>4 DEF Summed
<1>6. Dot(n, rm, W) = SumTo(nP, d) /\ IntVector(nP, d)
  BY <1>1, <1>5, DotShares
<1>7. IntVector(nP, r)
  BY <1>1 DEF Inners, IntVector
<1>8. \A p \in 1..nP : Same(LargeRingSize, r[p], d[p])
  BY <1>1, <1>4 DEF Inners
<1>9. Same(LargeRingSize, SumTo(nP, r), SumTo(nP, d))
  BY <1>1, <1>6, <1>7, <1>8, SumSameMod
<1>10. SumTo(nP, r) \in Int
  BY <1>1, <1>7, SumInt
<1> QED BY <1>6, <1>9, <1>10 DEF W

(* Merging keeps the dealer in step, and merges what was summed.           *)
LEMMA MergedClaim ==
  ASSUME NEW n \in Nat, NEW rm \in [1..n -> Int], NEW s, Returned(n, s),
         NEW zm, NEW zl, zm = Inner(rm, s.ms), zl = [p \in Procs |-> Inner(rm, s.ls[p])]
  PROVE  /\ Claim(zm, zl)
         /\ Same(LargeRingSize, zm + SumTo(nP, zl), Dot(n, rm, TotalOf(n, s)))
         /\ Dot(n, rm, TotalOf(n, s)) \in Int
<1> DEFINE ls == s.ls
           W  == WholeVector(n, ls)
           t  == TotalOf(n, s)
           ms == s.ms
<1>1. IntVector(n, rm) /\ 0 \in Procs /\ LargeRingSize \in Nat \ {0}
  BY VectorFacts, Moduli
<1>2. /\ IntVector(n, W) /\ IntVector(n, t) /\ IntVector(n, ms) /\ \A p \in Procs : IntVector(n, ls[p])
      /\ \A k \in 1..n : t[k] = ms[k] + W[k] /\ Same(LargeRingSize, ls[0][k], W[k])
  BY ReturnedFacts DEF Returned
<1>3. zl = [p \in Procs |-> Inner(rm, ls[p])] /\ zm = Inner(rm, ms)
  OBVIOUS
<1>d. W = WholeVector(n, ls) /\ t = TotalOf(n, s)
  OBVIOUS
<1> HIDE DEF ls, W, t, ms
<1>4. Inners(n, rm, ls, zl)
  <2> SUFFICES ASSUME NEW p \in Procs
               PROVE  /\ zl[p] = Inner(rm, ls[p]) /\ zl[p] \in Int /\ zl[p] \in 0..(LargeRingSize - 1)
                      /\ Dot(n, rm, ls[p]) \in Int /\ Same(LargeRingSize, zl[p], Dot(n, rm, ls[p]))
    BY DEF Inners
  <2> DEFINE v == ls[p]
  <2>1. IntVector(n, v) /\ zl[p] = Inner(rm, v)
    BY <1>2, <1>3
  <2> HIDE DEF v
  <2>2. /\ Inner(rm, v) \in Int /\ Inner(rm, v) \in 0..(LargeRingSize - 1)
        /\ Dot(n, rm, v) \in Int /\ Same(LargeRingSize, Inner(rm, v), Dot(n, rm, v))
    BY <2>1, InnerFacts
  <2> QED BY <2>1, <2>2 DEF v
<1>5. zm \in Int /\ Same(LargeRingSize, zm, Dot(n, rm, ms)) /\ Dot(n, rm, ms) \in Int
  BY <1>2, <1>3, InnerFacts
<1>6. SumTo(nP, zl) \in Int /\ Same(LargeRingSize, SumTo(nP, zl), Dot(n, rm, W))
  BY <1>1, <1>2, <1>4, <1>d, MergedShares
<1>7. Same(LargeRingSize, Dot(n, rm, ls[0]), Dot(n, rm, W))
  <2> DEFINE v == ls[0]
  <2>1. IntVector(n, v) /\ \A k \in 1..n : Same(LargeRingSize, v[k], W[k])
    BY <1>1, <1>2
  <2> HIDE DEF v
  <2>2. Same(LargeRingSize, Dot(n, rm, v), Dot(n, rm, W))
    BY <1>1, <1>2, <2>1, DotSame
  <2> QED BY <2>2 DEF v
<1>8. Claim(zm, zl)
  <2>1. /\ \A p \in Procs : zl[p] \in Int
        /\ zl[0] \in 0..(LargeRingSize - 1) /\ Same(LargeRingSize, zl[0], Dot(n, rm, ls[0]))
    BY <1>1, <1>4 DEF Inners
  <2>2. Same(LargeRingSize, zl[0], SumTo(nP, zl))
    BY <1>6, <1>7, <2>1 DEF Same
  <2> QED BY <1>5, <2>1, <2>2 DEF Claim
<1>9. Dot(n, rm, t) = Dot(n, rm, ms) + Dot(n, rm, W) /\ Dot(n, rm, W) \in Int
  <2>1. Plus(n, ms, W, t)
    BY <1>2 DEF Plus
  <2> QED BY <1>1, <1>2, <2>1, DotAdd
<1>10. Same(LargeRingSize, zm + SumTo(nP, zl), Dot(n, rm, ms) + Dot(n, rm, W))
  BY <1>1, <1>5, <1>6, <1>9, SameOps
<1> QED BY <1>5, <1>8, <1>9, <1>10, <1>d

(* A bent entry is one of those that are merged, or not.                   *)
BentVector(ns) == [l \in 1..SSEC |-> Bent(ns, l)]
MergedBend(ns, rm) == IF bend.sum = ns /\ bend.entry \in 1..SSEC THEN rm[bend.entry] * bend.by ELSE 0

(* It adds its deviation times the random number.                          *)
LEMMA BentProduct ==
  ASSUME Base, NEW rm, IntVector(SSEC, rm), NEW ns
  PROVE  /\ Dot(SSEC, rm, BentVector(ns)) = MergedBend(ns, rm) /\ MergedBend(ns, rm) \in Int
         /\ IntVector(SSEC, BentVector(ns))
<1> DEFINE v == BentVector(ns)
<1>1. SSEC \in Nat /\ bend.by \in Int /\ \A l \in 1..SSEC : v[l] = Bent(ns, l) /\ Bent(ns, l) \in Int
  BY Moduli, BaseFacts, BentFacts DEF BentVector
<1>2. IntVector(SSEC, v)
  BY <1>1 DEF IntVector
<1>3. CASE bend.sum = ns /\ bend.entry \in 1..SSEC
  <2> DEFINE i == bend.entry
             q == bend.by
  <2>1. \A l \in 1..SSEC : v[l] = IF l = i THEN q ELSE 0
    BY <1>1, <1>3 DEF Bent
  <2>2. MergedBend(ns, rm) = rm[i] * q /\ i \in 1..SSEC /\ q \in Int
    BY <1>1, <1>3 DEF MergedBend
  <2> HIDE DEF v, i, q
  <2>3. Single(SSEC, v, i, q)
    BY <2>1 DEF Single
  <2>4. Dot(SSEC, rm, v) = rm[i] * q
    BY <1>1, <2>2, <2>3, DotSingle
  <2>5. Dot(SSEC, rm, v) \in Int
    BY <1>1, <1>2, DotInt
  <2> QED BY <1>2, <2>2, <2>4, <2>5 DEF v
<1>4. CASE ~(bend.sum = ns /\ bend.entry \in 1..SSEC)
  <2>1. \A l \in 1..SSEC : v[l] = 0
    BY <1>1, <1>4 DEF Bent
  <2>2. MergedBend(ns, rm) = 0
    BY <1>4 DEF MergedBend
  <2> HIDE DEF v
  <2>3. \A l \in 1..SSEC : [k \in 1..SSEC |-> rm[k] * v[k]][l] = 0
    BY <2>1 DEF IntVector
  <2>4. Dot(SSEC, rm, v) = 0
    BY <1>1, <2>3, SumZeros DEF Dot
  <2> QED BY <1>2, <2>2, <2>4 DEF v
<1> QED BY <1>3, <1>4

-----------------------------------------------------------------------------
(* The sums, truncated: with Lambdas they come to nothing but the two      *)
(* deviations.                                                             *)
GammasOf(g, ls) ==
  /\ g.ls[0] \in [1..SSEC -> Int]
  /\ \A l \in 1..SSEC :
       /\ g.ms[l] \in Int /\ \A p \in Procs : g.ls[p][l] \in Int
       /\ ls[l] \in Int /\ Bent(1, l) \in Int /\ CheatTerm(l) \in Int
       /\ g.ls[0][l] \in 0..(RingSize - 1)
       /\ Same(RingSize, g.ls[0][l], SumTo(nP, Column1(nP, g.ls, l)))
       /\ Same(RingSize, (ls[l] + g.ms[l]) + SumTo(nP, Column1(nP, g.ls, l)), Bent(1, l) - CheatTerm(l))

(* What is the same in the large ring is the same in the small one.        *)
LEMMA SmallerRing ==
  ASSUME NEW a \in Int, NEW b \in Int, Same(LargeRingSize, a, b)
  PROVE  Same(RingSize, a, b)
  BY Moduli, SameDivisor

(* This is what truncating makes of the sums.                              *)
LEMMA TruncatedGammas ==
  ASSUME Base, NEW u, IntVector(Bvs, u), NEW yy, \A p \in Parties : IntVector(Bvs, yy[p]),
         NEW s, SumsOfBits(s, u, yy, 1), NEW ls, LambdasOk(ls, u, yy),
         NEW g, g = [ms |-> [l \in 1..SSEC |-> Ring(s.ms[l])],
                     ls |-> [p \in Procs |-> [l \in 1..SSEC |-> Ring(s.ls[p][l])]]]
  PROVE  GammasOf(g, ls)
<1>1. /\ \A l \in 1..SSEC : g.ms[l] = Ring(s.ms[l])
      /\ \A p \in Procs : g.ls[p] = [l \in 1..SSEC |-> Ring(s.ls[p][l])]
      /\ \A p \in Procs : \A l \in 1..SSEC : g.ls[p][l] = Ring(s.ls[p][l])
  OBVIOUS
<1>2. /\ SSEC \in Nat /\ nP \in Nat /\ Procs = 0..nP /\ RingSize \in Nat \ {0} /\ 0 \in Procs
      /\ \A p \in 1..nP : p \in Procs
  BY Moduli
<1>3. \A p \in Procs : \A l \in 1..SSEC : s.ls[p][l] \in Int /\ s.ms[l] \in Int
  BY DEF SumsOfBits, IntVector
<1>4. \A p \in Procs : \A l \in 1..SSEC :
        /\ g.ls[p][l] \in Int /\ g.ls[p][l] \in 0..(RingSize - 1) /\ Same(RingSize, g.ls[p][l], s.ls[p][l])
        /\ g.ms[l] \in Int /\ Same(RingSize, g.ms[l], s.ms[l])
  BY <1>1, <1>3, RingFacts
<1>5. g.ls[0] \in [1..SSEC -> Int]
  BY <1>1, <1>2, <1>4
<1>6. IntVector(Bvs, WholeVector(Bvs, yy))
  BY PlaceFacts, WholeFacts
<1>7. ASSUME NEW l \in 1..SSEC
      PROVE  /\ ls[l] \in Int /\ Bent(1, l) \in Int /\ CheatTerm(l) \in Int
             /\ Same(RingSize, g.ls[0][l], SumTo(nP, Column1(nP, g.ls, l)))
             /\ Same(RingSize, (ls[l] + g.ms[l]) + SumTo(nP, Column1(nP, g.ls, l)), Bent(1, l) - CheatTerm(l))
  <2> DEFINE a  == s.ms[l]
             b  == SumTo(nP, Column1(nP, s.ls, l))
             c  == BitSum(l, SubProducts(u, WholeVector(Bvs, yy)))
             e  == Bent(1, l)
             t  == CheatTerm(l)
             q  == ls[l]
             a1 == g.ms[l]
             b1 == SumTo(nP, Column1(nP, g.ls, l))
             o  == s.ls[0][l]
             o1 == g.ls[0][l]
  <2>1. /\ Same(LargeRingSize, a + b, c + e) /\ Same(LargeRingSize, o, b)
    BY DEF SumsOfBits
  <2>2. q \in Int /\ t \in Int /\ Same(RingSize, q + c, 0 - t)
    BY DEF LambdasOk
  <2>3. c \in Int
    BY <1>6, SubProductsFacts
  <2>4. e \in Int
    BY BentFacts
  <2>5. a \in Int /\ a1 \in Int /\ Same(RingSize, a1, a) /\ o \in Int /\ o1 \in Int /\ Same(RingSize, o1, o)
    BY <1>2, <1>3, <1>4
  <2>6. b \in Int /\ b1 \in Int /\ Same(RingSize, b1, b)
    <3> DEFINE v == Column1(nP, s.ls, l)
               w == Column1(nP, g.ls, l)
    <3>1. \A p \in 1..nP : v[p] = s.ls[p][l] /\ w[p] = g.ls[p][l]
      BY DEF Column1
    <3>2. ASSUME NEW p \in 1..nP PROVE v[p] \in Int /\ w[p] \in Int /\ Same(RingSize, w[p], v[p])
      <4>1. v[p] = s.ls[p][l] /\ w[p] = g.ls[p][l] /\ p \in Procs
        BY <1>2, <3>1
      <4>2. s.ls[p][l] \in Int
        BY <1>3, <4>1
      <4>3. g.ls[p][l] \in Int /\ Same(RingSize, g.ls[p][l], s.ls[p][l])
        BY <1>4, <4>1
      <4> HIDE DEF v, w
      <4> QED BY <4>1, <4>2, <4>3
    <3>3. IntVector(nP, v) /\ IntVector(nP, w)
      BY <3>2 DEF IntVector
    <3> HIDE DEF v, w
    <3>4. SumTo(nP, v) \in Int /\ SumTo(nP, w) \in Int /\ Same(RingSize, SumTo(nP, w), SumTo(nP, v))
      BY <1>2, <3>2, <3>3, SumInt, SumSameMod
    <3> QED BY <3>4 DEF v, w
  <2> HIDE DEF a, b, c, e, t, q, a1, b1, o, o1
  <2>7. Same(RingSize, a + b, c + e) /\ Same(RingSize, o, b)
    BY <2>1, <2>3, <2>4, <2>5, <2>6, SmallerRing
  <2>8. Same(RingSize, o1, b1)
    BY <2>5, <2>6, <2>7 DEF Same
  <2>9. Same(RingSize, a1 + b1, a + b)
    BY <1>2, <2>5, <2>6, SameOps
  <2>10. Same(RingSize, a1 + b1, c + e)
    BY <2>7, <2>9 DEF Same
  <2>11. Same(RingSize, q + (a1 + b1), q + (c + e))
    <3>1. Same(RingSize, q, q) /\ a1 + b1 \in Int /\ c + e \in Int
      BY <2>3, <2>4, <2>5, <2>6 DEF Same
    <3> QED BY <1>2, <2>2, <2>10, <3>1, SameOps
  <2>12. Same(RingSize, (q + c) + e, (0 - t) + e)
    <3>1. Same(RingSize, e, e) /\ q + c \in Int /\ 0 - t \in Int
      BY <2>2, <2>3 DEF Same
    <3> QED BY <1>2, <2>2, <2>4, <3>1, SameOps
  <2>13. q + (a1 + b1) = (q + a1) + b1 /\ q + (c + e) = (q + c) + e /\ (0 - t) + e = e - t
    BY <2>2, <2>3, <2>4, <2>5, <2>6
  <2>14. Same(RingSize, (q + a1) + b1, e - t)
    BY <2>11, <2>12, <2>13 DEF Same
  <2> QED BY <2>2, <2>4, <2>8, <2>14 DEF e, t, q, a1, b1, o1
<1> QED BY <1>2, <1>4, <1>5, <1>7 DEF GammasOf

GammasOk == GammasOf(gammas, Lambdas)

(* It stays when the gammas do.                                            *)
LEMMA GammasStay ==
  ASSUME GammasOk, Stays, gammas' = gammas, Lambdas' = Lambdas
  PROVE  GammasOk'
<1>1. /\ \A ns, k : Bent(ns, k)' = Bent(ns, k)
      /\ \A l : CheatTerm(l)' = CheatTerm(l)
  BY DefinedByGates
<1> QED BY <1>1 DEF GammasOk, GammasOf, Column1

(* The claim of the merged product.                                        *)
LEMMA MergedReady ==
  ASSUME Base, NEW u \in [1..Bvs -> Int], NEW yy, InStep(Bvs, yy), NEW s, SumsOfBits(s, u, yy, 1),
         NEW rm \in [1..SSEC -> Int], NEW x1, x1 = [k \in 1..Bvs |-> LargeRing(u[k] * Factor(GateOf(k), rm))],
         NEW zm, NEW zl, zm = Inner(rm, s.ms), zl = [p \in Procs |-> Inner(rm, s.ls[p])],
         NEW df, df = LargeRing(MergedBend(1, rm))
  PROVE  Ready(Bvs, x1, Bvs, yy, zm, zl, df)
<1> DEFINE W == WholeVector(Bvs, yy)
           B == BitSums(u, W)
           t == TotalOf(SSEC, s)
           N == SSEC
           n == Bvs
           E == BentVector(1)
           be == MergedBend(1, rm)
<1>1. /\ N \in Nat /\ n \in Nat /\ IntVector(n, u) /\ IntVector(N, rm) /\ LargeRingSize \in Nat \ {0}
      /\ \A p \in Parties : p \in Procs
  <2>1. SSEC \in Nat /\ LargeRingSize \in Nat \ {0} /\ \A p \in Parties : p \in Procs
    BY Moduli
  <2>2. Bvs \in Nat
    BY PlaceFacts
  <2>3. IntVector(Bvs, u)
    BY <2>2, VectorFacts
  <2>4. IntVector(SSEC, rm)
    BY <2>1, VectorFacts
  <2> QED BY <2>1, <2>2, <2>3, <2>4
<1>2. IntVector(n, W)
  <2>1. \A p \in Parties : IntVector(n, yy[p])
    BY <1>1, VectorFacts DEF InStep
  <2> QED BY <1>1, <2>1, WholeFacts
<1>3. Returned(N, s)
  BY DEF SumsOfBits, Returned
<1>4. /\ x1 \in [1..n -> Int] /\ Dot(n, x1, W) \in Int /\ Same(LargeRingSize, Dot(n, x1, W), Dot(N, rm, B))
  BY <1>1, <1>2, MergedVector
<1>5. Claim(zm, zl) /\ Same(LargeRingSize, zm + SumTo(nP, zl), Dot(N, rm, t)) /\ Dot(N, rm, t) \in Int
  BY <1>1, <1>3, MergedClaim
<1>6. /\ Dot(N, rm, E) = be /\ be \in Int /\ IntVector(N, E)
  BY <1>1, BentProduct
<1>7. IntVector(N, t)
  BY <1>1, <1>3, ReturnedFacts
<1>8. IntVector(N, B) /\ \A l \in 1..N : B[l] = BitSum(l, SubProducts(u, W))
  <2>1. \A l \in 1..SSEC : B[l] = BitSum(l, SubProducts(u, W))
    BY DEF BitSums
  <2>2. \A l \in 1..SSEC : BitSum(l, SubProducts(u, W)) \in Int
    BY <1>1, <1>2, SubProductsFacts
  <2> QED BY <2>1, <2>2 DEF IntVector
<1> DEFINE BE == [l \in 1..N |-> B[l] + E[l]]
<1>9. \A l \in 1..N : Same(LargeRingSize, t[l], BE[l])
  <2> SUFFICES ASSUME NEW l \in 1..SSEC PROVE Same(LargeRingSize, t[l], BE[l])
    OBVIOUS
  <2>1. t[l] = s.ms[l] + SumTo(nP, Column1(nP, s.ls, l))
    BY DEF TotalOf
  <2>2. BE[l] = BitSum(l, SubProducts(u, W)) + Bent(1, l)
    BY <1>8 DEF BentVector
  <2> HIDE DEF t, BE
  <2> QED BY <2>1, <2>2 DEF SumsOfBits, W
<1>10. \A l \in 1..N : BE[l] = B[l] + E[l]
  OBVIOUS
<1> HIDE DEF W, B, t, N, n, E, be, BE
<1>11. Dot(N, rm, BE) = Dot(N, rm, B) + Dot(N, rm, E) /\ IntVector(N, BE) /\ Dot(N, rm, B) \in Int
  <2>1. Plus(N, B, E, BE)
    BY <1>10 DEF Plus
  <2> QED BY <1>1, <1>6, <1>8, <2>1, DotAdd
<1>12. Same(LargeRingSize, Dot(N, rm, t), Dot(N, rm, BE))
  BY <1>1, <1>7, <1>9, <1>11, DotSame
<1>13. df \in 0..(LargeRingSize - 1) /\ df \in Int /\ Same(LargeRingSize, df, be)
  <2>1. df = LargeRing(be)
    BY DEF be
  <2> QED BY <1>6, <2>1, LargeRingFacts
<1>14. Same(LargeRingSize, Dot(n, x1, W) + df, Dot(N, rm, B) + be)
  BY <1>1, <1>4, <1>6, <1>11, <1>13, SameOps
<1>15. Same(LargeRingSize, zm + SumTo(nP, zl), Dot(n, x1, W) + df)
  BY <1>5, <1>6, <1>11, <1>12, <1>14 DEF Same
<1> QED BY <1>4, <1>5, <1>13, <1>15 DEF Ready, W, n

(* Merge: x and y have the product that is claimed, but for the bent       *)
(* entry.                                                                  *)
LEMMA MergeStep ==
  ASSUME Base, MergeReady, Merge
  PROVE  /\ Claimed' /\ GammasOk' /\ Stays /\ pos' \in Nat /\ nsum' \in Nat
         /\ pc' \in {"reduceSum", "tripleSum"}
<1> DEFINE rm == Coefficients(pos, SSEC)
<1>1. /\ Stays /\ pc' = (IF Len(y[0]) > C THEN "reduceSum" ELSE "tripleSum")
      /\ gammas' = [ms |-> [l \in 1..SSEC |-> Ring(sums.ms[l])],
                    ls |-> [p \in Procs |-> [l \in 1..SSEC |-> Ring(sums.ls[p][l])]]]
      /\ x' = [k \in 1..Len(x) |-> LargeRing(x[k] * Factor(GateOf(k), rm))]
      /\ z_m' = Inner(rm, sums.ms) /\ z_l' = [p \in Procs |-> Inner(rm, sums.ls[p])]
      /\ defect' = (IF bend.sum = 1 /\ bend.entry \in 1..SSEC THEN LargeRing(rm[bend.entry] * bend.by) ELSE 0)
      /\ pos' = pos + SSEC /\ y' = y /\ nsum' = nsum /\ Lambdas' = Lambdas
  BY DEF Merge, Stays, choices
<1>2. /\ x \in [1..Bvs -> Int] /\ InStep(Bvs, y) /\ SumsOfBits(sums, x, y, 1) /\ LambdasOk(Lambdas, x, y)
  BY DEF MergeReady
<1>3. /\ SSEC \in Nat /\ Bvs \in Nat \ {0} /\ pos \in Nat /\ pos \in Int /\ nsum \in Nat
      /\ \A p \in Parties : p \in Procs /\ LargeRingSize \in Nat \ {0}
  BY Moduli, PlaceFacts, BaseFacts
<1>4. rm \in [1..SSEC -> Int]
  BY <1>3, CoefficientsFacts
<1>5. Len(x) = Bvs /\ IntVector(Bvs, x)
  BY <1>2, <1>3, VectorFacts
<1>6. \A p \in Parties : IntVector(Bvs, y[p])
  BY <1>2, <1>3, VectorFacts DEF InStep
<1> HIDE DEF rm
<1>7. defect' = LargeRing(MergedBend(1, rm))
  <2>1. LargeRing(0) = 0
    <3>1. 0 \in 0..(LargeRingSize - 1) /\ LargeRingSize \in Nat \ {0}
      BY Moduli
    <3> QED BY <3>1, SameMod DEF LargeRing
  <2> QED BY <1>1, <2>1 DEF MergedBend
<1>8. x' = [k \in 1..Bvs |-> LargeRing(x[k] * Factor(GateOf(k), rm))]
  BY <1>1, <1>5
<1>9. Ready(Bvs, x', Bvs, y, z_m', z_l', defect')
  BY <1>1, <1>2, <1>4, <1>7, <1>8, MergedReady
<1>10. Claimed'
  <2>1. Ready(Bvs, x', Bvs, y', z_m', z_l', defect')
    BY <1>1, <1>9
  <2> DEFINE n == Bvs
  <2>2. n \in Nat \ {0} /\ Ready(n, x', n, y', z_m', z_l', defect')
    BY <1>3, <2>1
  <2> HIDE DEF n
  <2>3. \E k \in Nat \ {0} : Ready(k, x', k, y', z_m', z_l', defect')
    BY <2>2
  <2> QED BY <2>3 DEF Claimed
<1>11. GammasOk'
  <2>1. GammasOf(gammas', Lambdas)
    BY <1>1, <1>2, <1>5, <1>6, TruncatedGammas
  <2>2. GammasOf(gammas', Lambdas')
    BY <1>1, <2>1
  <2>3. /\ \A ns, k : Bent(ns, k)' = Bent(ns, k)
        /\ \A l : CheatTerm(l)' = CheatTerm(l)
    BY <1>1, DefinedByGates
  <2> QED BY <2>2, <2>3 DEF GammasOk, GammasOf, Column1
<1>12. pos' \in Nat
  BY <1>1, <1>3
<1> QED BY <1>1, <1>3, <1>10, <1>11, <1>12

-----------------------------------------------------------------------------
(* Opening: the shares of zero add nothing.                                *)
Zeros(k) == [p \in Parties |-> Zero(p, k)]

(* Party 1's share of a zero is what the others' lack.                     *)
LEMMA ZeroSum ==
  ASSUME Base, NEW k \in Nat
  PROVE  IntVector(nP, Zeros(k)) /\ SumTo(nP, Zeros(k)) = 0
<1> DEFINE o == [q \in Parties |-> IF q = 1 THEN 0 ELSE Draw(q, pos + k)]
           b == [q \in Parties |-> IF q = 1 THEN 0 - OthersZeros(k) ELSE 0]
           z == Zeros(k)
           t == 0 - OthersZeros(k)
<1>1. nP \in Nat /\ 1 \in 1..nP /\ Parties = 1..nP /\ pos + k \in Int /\ \A p \in Parties : p \in Procs
  BY Moduli, BaseFacts
<1>2. \A q \in Parties : Draw(q, pos + k) \in Int
  BY <1>1, DrawFacts
<1>3. IntVector(nP, o)
  BY <1>1, <1>2 DEF IntVector
<1>4. OthersZeros(k) = SumTo(nP, o)
  BY DEF OthersZeros
<1>5. SumTo(nP, o) \in Int
  BY <1>1, <1>3, SumInt
<1>6. t \in Int /\ \A q \in 1..nP : b[q] = IF q = 1 THEN t ELSE 0
  BY <1>1, <1>4, <1>5
<1>7. \A q \in 1..nP : z[q] = o[q] + b[q]
  <2> SUFFICES ASSUME NEW q \in 1..nP PROVE z[q] = o[q] + b[q]
    OBVIOUS
  <2>1. z[q] = Zero(q, k)
    BY <1>1 DEF Zeros
  <2>2. CASE q = 1
    BY <1>1, <1>4, <1>5, <2>1, <2>2 DEF Zero
  <2>3. CASE q # 1
    BY <1>1, <1>2, <2>1, <2>3 DEF Zero
  <2> QED BY <2>2, <2>3
<1>8. t = 0 - SumTo(nP, o)
  BY <1>4
<1> HIDE DEF o, b, z, t
<1>9. SumTo(nP, b) = t /\ IntVector(nP, b)
  BY <1>1, <1>6, SumSingle
<1>10. SumTo(nP, z) = SumTo(nP, o) + SumTo(nP, b) /\ IntVector(nP, z)
  BY <1>1, <1>3, <1>7, <1>9, SumAdd
<1>11. SumTo(nP, z) = 0
  BY <1>5, <1>8, <1>9, <1>10
<1> QED BY <1>10, <1>11 DEF z

(* So what is opened is the sum of the parties' shares.                    *)
LEMMA OpenedFacts ==
  ASSUME Base, NEW k \in Nat, NEW v, IntVector(nP, v)
  PROVE  Opened(v, k) = SumTo(nP, v) /\ SumTo(nP, v) \in Int
<1> DEFINE w == [p \in Parties |-> v[p] + Zero(p, k)]
           z == Zeros(k)
<1>1. nP \in Nat /\ Parties = 1..nP
  BY Moduli
<1>2. \A p \in 1..nP : w[p] = v[p] + z[p]
  BY <1>1 DEF Zeros
<1>3. IntVector(nP, z) /\ SumTo(nP, z) = 0
  BY ZeroSum
<1>4. Opened(v, k) = SumTo(nP, w)
  BY DEF Opened
<1> HIDE DEF w, z
<1>5. SumTo(nP, w) = SumTo(nP, v) + SumTo(nP, z) /\ SumTo(nP, v) \in Int
  BY <1>1, <1>2, <1>3, SumAdd, SumInt
<1> QED BY <1>3, <1>4, <1>5

(* A number below the modulus is the remainder of all that are the same.   *)
LEMMA Reduced ==
  ASSUME NEW M \in Nat \ {0}, NEW a \in 0..(M - 1), NEW b \in Int, Same(M, a, b)
  PROVE  a = b % M
<1>1. a \in Int
  OBVIOUS
<1>2. a % M = a
  BY <1>1, SameMod
<1> QED BY <1>2 DEF Same

(* The opened triple is right if and only if nothing is defective.         *)
LEMMA SumDefect ==
  ASSUME NEW M \in Nat \ {0}, NEW a \in Int, NEW df \in 0..(M - 1)
  PROVE  Same(M, a, a + df) <=> df = 0
<1>1. CASE df = 0
  BY <1>1 DEF Same
<1>2. ASSUME Same(M, a, a + df) PROVE df = 0
  <2>1. a + df \in Int /\ df \in Int /\ Same(M, a, a)
    BY DEF Same
  <2>2. Same(M, (a + df) - a, a - a)
    <3>1. Same(M, a + df, a)
      BY <1>2 DEF Same
    <3> QED BY <2>1, <3>1, SameOps
  <2>3. (a + df) - a = df /\ a - a = 0
    OBVIOUS
  <2>4. Same(M, df, 0)
    BY <2>2, <2>3
  <2>5. df % M = df /\ 0 % M = 0
    <3>1. 0 \in 0..(M - 1) /\ 0 \in Int
      OBVIOUS
    <3> QED BY <2>1, <3>1, SameMod
  <2> QED BY <2>4, <2>5 DEF Same
<1> QED BY <1>1, <1>2

Holds(ySum, zSum) == LargeRing(x[1] * ySum) = LargeRing(z_m + zSum)

(* What is opened is what the dealer holds, and the triple is right if and *)
(* only if there is no defect.                                             *)
LEMMA ScalarsFacts ==
  ASSUME Base, Scalars
  PROVE  /\ LargeRing(Opened([p \in Parties |-> y[p][1]], 1)) = y[0][1]
         /\ LargeRing(Opened(z_l, 2)) = z_l[0]
         /\ Holds(y[0][1], z_l[0]) <=> defect = 0
<1> DEFINE yp == [p \in Parties |-> y[p][1]]
           w  == SumTo(nP, Column1(nP, y, 1))
           a  == y[0][1]
           zs == SumTo(nP, z_l)
           b  == z_l[0]
           xe == x[1]
<1>1. /\ nP \in Nat /\ Parties = 1..nP /\ LargeRingSize \in Nat \ {0} /\ 0 \in Procs
      /\ \A p \in Parties : p \in Procs
  BY Moduli
<1>2. /\ x \in [1..1 -> Int] /\ InStep(1, y) /\ Claim(z_m, z_l) /\ defect \in 0..(LargeRingSize - 1)
      /\ Same(LargeRingSize, z_m + SumTo(nP, z_l), Dot(1, x, WholeVector(1, y)) + defect)
  BY DEF Scalars, Ready
<1>3. a \in 0..(LargeRingSize - 1) /\ Same(LargeRingSize, a, w) /\ xe \in Int
  <2>1. 1 \in 1..1
    OBVIOUS
  <2> QED BY <1>1, <1>2, <2>1 DEF InStep
<1>4. \A p \in Parties : y[p][1] \in Int
  <2>1. 1 \in 1..1
    OBVIOUS
  <2> QED BY <1>1, <1>2, <2>1 DEF InStep
<1>5. IntVector(nP, yp) /\ SumTo(nP, yp) = w
  <2>1. \A p \in 1..nP : yp[p] = Column1(nP, y, 1)[p] /\ yp[p] \in Int
    BY <1>1, <1>4 DEF Column1
  <2>2. IntVector(nP, yp)
    BY <2>1 DEF IntVector
  <2> HIDE DEF yp
  <2> QED BY <1>1, <2>1, <2>2, SumSame
<1>6. Opened(yp, 1) = w /\ w \in Int
  <2>1. 1 \in Nat
    OBVIOUS
  <2> HIDE DEF yp
  <2> QED BY <1>5, <2>1, OpenedFacts
<1>7. LargeRing(Opened(yp, 1)) = a
  <2> HIDE DEF yp, w, a
  <2> QED BY <1>1, <1>3, <1>6, Reduced DEF LargeRing
<1>8. /\ z_m \in Int /\ IntVector(nP, z_l) /\ zs \in Int
      /\ b \in 0..(LargeRingSize - 1) /\ Same(LargeRingSize, b, zs)
  <2>1. b \in 0..(LargeRingSize - 1) /\ Same(LargeRingSize, b, zs)
    BY <1>2 DEF Claim
  <2> QED BY <1>2, <2>1, ClaimFacts
<1>9. Opened(z_l, 2) = zs
  BY <1>8, OpenedFacts
<1>10. LargeRing(Opened(z_l, 2)) = b
  <2> HIDE DEF zs, b
  <2> QED BY <1>1, <1>8, <1>9, Reduced DEF LargeRing
<1>11. Dot(1, x, WholeVector(1, y)) = xe * w
  <2> DEFINE v == [k \in 1..1 |-> x[k] * WholeVector(1, y)[k]]
  <2>1. v[1] = xe * w
    BY DEF WholeVector
  <2>2. xe * w \in Int
    BY <1>3, <1>6
  <2>3. \A k \in 1..1 : v[k] = IF k = 1 THEN xe * w ELSE 0
    BY <2>1
  <2> DEFINE q == xe * w
  <2>4. q \in Int /\ \A k \in 1..1 : v[k] = IF k = 1 THEN q ELSE 0
    BY <2>2, <2>3
  <2> HIDE DEF v, q, xe, w
  <2>5. SumTo(1, v) = q
    <3>1. 1 \in Nat /\ 1 \in 1..1
      OBVIOUS
    <3> QED BY <2>4, <3>1, SumSingle
  <2> QED BY <2>5 DEF Dot, v, q
<1>12. Holds(a, b) <=> Same(LargeRingSize, xe * a, z_m + b)
  BY DEF Holds, LargeRing, Same
<1>d. Same(LargeRingSize, z_m + zs, xe * w + defect)
  BY <1>2, <1>11
<1> HIDE DEF yp, w, a, zs, b, xe
<1>13. Same(LargeRingSize, xe * a, xe * w) /\ xe * a \in Int /\ xe * w \in Int
  <2>1. Same(LargeRingSize, xe, xe) /\ a \in Int
    BY <1>3 DEF Same
  <2> QED BY <1>1, <1>3, <1>6, <2>1, SameOps
<1>14. Same(LargeRingSize, z_m + b, z_m + zs)
  <2>1. Same(LargeRingSize, z_m, z_m) /\ b \in Int
    BY <1>8 DEF Same
  <2> QED BY <1>1, <1>8, <2>1, SameOps
<1>15. Same(LargeRingSize, xe * a, z_m + b) <=> Same(LargeRingSize, xe * w, xe * w + defect)
  BY <1>13, <1>14, <1>d DEF Same
<1>16. Same(LargeRingSize, xe * w, xe * w + defect) <=> defect = 0
  <2> DEFINE q == xe * w
  <2>1. q \in Int
    BY <1>13
  <2> HIDE DEF q
  <2>2. Same(LargeRingSize, q, q + defect) <=> defect = 0
    BY <1>1, <1>2, <2>1, SumDefect
  <2> QED BY <2>2 DEF q
<1> QED BY <1>7, <1>10, <1>12, <1>15, <1>16 DEF yp, a, b

(* OpenTriple: the opened scalars are those committed to; a defect is what *)
(* the triple is rejected for.                                             *)
LEMMA OpenTripleStep ==
  ASSUME Base, Scalars, GammasOk, commits = opened, OpenTriple
  PROVE  /\ Stays /\ GammasOk' /\ pos' \in Nat /\ nsum' \in Nat /\ commits' = opened' /\ defect' = defect
         /\ \/ pc' = "openOutput" /\ defect = 0
            \/ pc' = "done" /\ defect # 0 /\ verdict' = "triple rejected"
<1> DEFINE ySum == LargeRing(Opened([p \in Parties |-> y[p][1]], 1))
           zSum == LargeRing(Opened(z_l, 2))
<1>1. /\ Stays /\ gammas' = gammas /\ Lambdas' = Lambdas /\ nsum' = nsum /\ defect' = defect /\ pos' = pos + 2
      /\ pc' = (IF Holds(ySum, zSum) THEN "openOutput" ELSE "done")
      /\ commits' = Append(commits, <<y[0][1], z_l[0]>>) /\ opened' = Append(opened, <<ySum, zSum>>)
      /\ verdict' = (IF Holds(ySum, zSum) THEN verdict ELSE "triple rejected")
  BY DEF OpenTriple, Holds, Stays, choices, proofVars
<1>2. ySum = y[0][1] /\ zSum = z_l[0] /\ (Holds(y[0][1], z_l[0]) <=> defect = 0)
  BY ScalarsFacts
<1> HIDE DEF ySum, zSum
<1>3. commits' = opened'
  BY <1>1, <1>2
<1>4. GammasOk'
  BY <1>1, GammasStay
<1>5. pos' \in Nat /\ nsum' \in Nat
  <2>1. pos \in Nat /\ nsum \in Nat
    BY BaseFacts
  <2>2. pos' = pos + 2 /\ nsum' = nsum
    BY <1>1
  <2> QED BY <2>1, <2>2
<1>6. Holds(ySum, zSum) <=> defect = 0
  BY <1>2
<1> QED BY <1>1, <1>3, <1>4, <1>5, <1>6

(* verify() accepts when nothing is defective and no sum is off.           *)
Deserved ==
  verdict = IF defect # 0 THEN "triple rejected"
            ELSE IF \E l \in 1..SSEC : Ring(Bent(1, l) - CheatTerm(l)) # 0 THEN "sums rejected"
            ELSE "accepted"

(* The masks opened are what the dealer holds, and the sums come to the    *)
(* two deviations.                                                         *)
LEMMA GammasFacts ==
  ASSUME Base, GammasOk, NEW l \in 1..SSEC
  PROVE  /\ Ring(Opened([p \in Parties |-> gammas.ls[p][l]], l)) = gammas.ls[0][l]
         /\ Ring(Lambdas[l] + gammas.ms[l] + gammas.ls[0][l]) = Ring(Bent(1, l) - CheatTerm(l))
<1> DEFINE v == [p \in Parties |-> gammas.ls[p][l]]
           w == SumTo(nP, Column1(nP, gammas.ls, l))
           o == gammas.ls[0][l]
           a == gammas.ms[l]
           q == Lambdas[l]
           e == Bent(1, l) - CheatTerm(l)
<1>1. /\ nP \in Nat /\ Parties = 1..nP /\ RingSize \in Nat \ {0} /\ \A p \in Parties : p \in Procs
      /\ l \in Nat /\ 0 \in Procs
  BY Moduli
<1>2. /\ a \in Int /\ q \in Int /\ e \in Int /\ o \in 0..(RingSize - 1) /\ Same(RingSize, o, w)
      /\ Same(RingSize, (q + a) + w, e) /\ \A p \in Procs : gammas.ls[p][l] \in Int
  BY DEF GammasOk, GammasOf
<1>3. IntVector(nP, v) /\ SumTo(nP, v) = w
  <2>1. \A p \in 1..nP : v[p] = Column1(nP, gammas.ls, l)[p] /\ v[p] \in Int
    BY <1>1, <1>2 DEF Column1
  <2>2. IntVector(nP, v)
    BY <2>1 DEF IntVector
  <2> HIDE DEF v
  <2> QED BY <1>1, <2>1, <2>2, SumSame
<1>4. Opened(v, l) = w /\ w \in Int
  <2> HIDE DEF v
  <2> QED BY <1>1, <1>3, OpenedFacts
<1> HIDE DEF v, w, o, a, q, e
<1>5. Ring(Opened(v, l)) = o
  BY <1>1, <1>2, <1>4, Reduced DEF Ring
<1>6. Same(RingSize, (q + a) + o, (q + a) + w)
  <2>1. Same(RingSize, q + a, q + a) /\ q + a \in Int /\ o \in Int
    BY <1>2 DEF Same
  <2> QED BY <1>1, <1>2, <1>4, <2>1, SameOps
<1>7. Ring((q + a) + o) = Ring(e)
  BY <1>2, <1>6 DEF Same, Ring
<1> QED BY <1>5, <1>7 DEF v, o, a, q, e

(* OpenOutput: the verdict is the one deserved.                            *)
LEMMA OpenOutputStep ==
  ASSUME Base, GammasOk, commits = opened, defect = 0, OpenOutput
  PROVE  /\ Stays /\ pos' \in Nat /\ nsum' \in Nat /\ commits' = opened' /\ pc' = "done" /\ Deserved'
<1> DEFINE gSum == [l \in 1..SSEC |-> Ring(Opened([p \in Parties |-> gammas.ls[p][l]], l))]
           accept == \A l \in 1..SSEC : Ring(Lambdas[l] + gammas.ms[l] + gSum[l]) = 0
<1>1. /\ Stays /\ nsum' = nsum /\ defect' = defect /\ pos' = pos + SSEC /\ pc' = "done"
      /\ commits' = Append(commits, gammas.ls[0]) /\ opened' = Append(opened, gSum)
      /\ verdict' = (IF accept THEN "accepted" ELSE "sums rejected")
  BY DEF OpenOutput, Stays, choices, proofVars
<1>2. gammas.ls[0] \in [1..SSEC -> Int]
  BY DEF GammasOk, GammasOf
<1>3. gSum = gammas.ls[0]
  <2>1. \A l \in 1..SSEC : gSum[l] = gammas.ls[0][l]
    BY GammasFacts
  <2> QED BY <1>2, <2>1
<1>4. accept <=> \A l \in 1..SSEC : Ring(Bent(1, l) - CheatTerm(l)) = 0
  <2> HIDE DEF gSum
  <2> QED BY <1>3, GammasFacts
<1> HIDE DEF gSum, accept
<1>5. /\ \A ns, k : Bent(ns, k)' = Bent(ns, k)
      /\ \A l : CheatTerm(l)' = CheatTerm(l)
  BY <1>1, DefinedByGates
<1>6. Deserved'
  BY <1>1, <1>4, <1>5 DEF Deserved
<1>7. pos' \in Nat /\ nsum' \in Nat
  <2>1. pos \in Nat /\ nsum \in Nat /\ SSEC \in Nat
    BY BaseFacts, Moduli
  <2>2. pos' = pos + SSEC /\ nsum' = nsum
    BY <1>1
  <2> QED BY <2>1, <2>2
<1> QED BY <1>1, <1>3, <1>6, <1>7

-----------------------------------------------------------------------------
(* The inductive invariant: what holds at every step of verify().          *)
Reducing == {"reduceSum", "reduceFold", "tripleSum", "tripleFold", "openTriple"}
Steps    == {"setup", "evaluate", "products", "merge", "openOutput", "done"} \cup Reducing

AtStep ==
  /\ pc \in {"setup", "evaluate", "products"} => nsum = 0
  /\ pc \in {"evaluate", "products"} => SetupOk
  /\ pc = "products" => MaskedInt /\ MaskedOk
  /\ pc = "merge" => MergeReady
  /\ pc \in {"reduceSum", "tripleSum"} => Claimed
  /\ pc = "reduceFold" => Parts
  /\ pc = "tripleFold" => TripleParts
  /\ pc = "openTriple" => Scalars
  /\ pc \in Reducing \cup {"openOutput"} => GammasOk
  /\ pc = "openOutput" => defect = 0
  /\ pc = "done" => Deserved

ProofInv == Base /\ pc \in Steps /\ commits = opened /\ AtStep

(* It holds at first.                                                      *)
LEMMA InitInv == Init => ProofInv
<1> SUFFICES ASSUME Init PROVE ProofInv
  OBVIOUS
<1>1. /\ gates \in Circuits /\ C \in Compressions /\ seed \in Seeds /\ cheat \in Cheats /\ bend \in Bends
      /\ pc = "setup" /\ pos = 2 * Len(gates) /\ nsum = 0 /\ commits = opened
  BY DEF Init
<1>2. Len(gates) \in Nat
  BY <1>1, CircuitsAssumption
<1>3. Base
  BY <1>1, <1>2 DEF Base
<1> QED BY <1>1, <1>3 DEF ProofInv, AtStep, Steps, Reducing

(* The choices stay, the counters count.                                   *)
LEMMA BaseNext ==
  ASSUME Base, Stays, pos' \in Nat, nsum' \in Nat
  PROVE  Base'
  BY DEF Base, Stays

(* Every step keeps it.                                                    *)
LEMMA NextInv ==
  ASSUME ProofInv, Next
  PROVE  ProofInv'
<1>1. Base /\ commits = opened /\ pc \in Steps /\ AtStep
  BY DEF ProofInv
<1>2. CASE Setup
  <2>1. pc = "setup" /\ commits' = commits /\ opened' = opened
    BY <1>2 DEF Setup, endVars
  <2>2. nsum = 0 /\ pos \in Nat /\ nsum \in Nat
    BY <1>1, <2>1, BaseFacts DEF AtStep
  <2>3. SetupOk' /\ Stays /\ pos' = pos /\ nsum' = nsum /\ pc' = "evaluate"
    BY <1>1, <1>2, SetupStep
  <2>4. Base'
    BY <1>1, <2>2, <2>3, BaseNext
  <2> QED BY <1>1, <2>1, <2>2, <2>3, <2>4 DEF ProofInv, AtStep, Steps, Reducing
<1>3. CASE Evaluate
  <2>1. pc = "evaluate" /\ commits' = commits /\ opened' = opened
    BY <1>3 DEF Evaluate, endVars
  <2>2. nsum = 0 /\ pos \in Nat /\ nsum \in Nat /\ SetupOk
    BY <1>1, <2>1, BaseFacts DEF AtStep
  <2>3. SetupOk' /\ MaskedInt' /\ MaskedOk' /\ Stays /\ pos' = pos /\ nsum' = nsum /\ pc' = "products"
    BY <1>1, <1>3, <2>2, EvaluateStep
  <2>4. Base'
    BY <1>1, <2>2, <2>3, BaseNext
  <2> QED BY <1>1, <2>1, <2>2, <2>3, <2>4 DEF ProofInv, AtStep, Steps, Reducing
<1>4. CASE Products
  <2>1. pc = "products" /\ commits' = commits /\ opened' = opened
    BY <1>4 DEF Products, endVars
  <2>2. nsum = 0 /\ SetupOk /\ MaskedInt /\ MaskedOk
    BY <1>1, <2>1 DEF AtStep
  <2>3. MergeReady' /\ Stays /\ pos' \in Nat /\ nsum' \in Nat /\ pc' = "merge"
    BY <1>1, <1>4, <2>2, ProductsStep
  <2>4. Base'
    BY <1>1, <2>3, BaseNext
  <2> QED BY <1>1, <2>1, <2>3, <2>4 DEF ProofInv, AtStep, Steps, Reducing
<1>5. CASE Merge
  <2>1. pc = "merge" /\ commits' = commits /\ opened' = opened
    BY <1>5 DEF Merge, endVars
  <2>2. MergeReady
    BY <1>1, <2>1 DEF AtStep
  <2>3. /\ Claimed' /\ GammasOk' /\ Stays /\ pos' \in Nat /\ nsum' \in Nat
        /\ pc' \in {"reduceSum", "tripleSum"}
    BY <1>1, <1>5, <2>2, MergeStep
  <2>4. Base'
    BY <1>1, <2>3, BaseNext
  <2> QED BY <1>1, <2>1, <2>3, <2>4 DEF ProofInv, AtStep, Steps, Reducing
<1>6. CASE ReduceSum
  <2>1. /\ pc = "reduceSum" /\ commits' = commits /\ opened' = opened
        /\ gammas' = gammas /\ Lambdas' = Lambdas
    BY <1>6 DEF ReduceSum, endVars
  <2>2. Claimed /\ GammasOk
    BY <1>1, <2>1 DEF AtStep, Reducing
  <2>3. Parts' /\ pos' \in Nat /\ nsum' \in Nat /\ Stays /\ pc' = "reduceFold"
    BY <1>1, <1>6, <2>2, ReduceSumStep
  <2>4. Base' /\ GammasOk'
    BY <1>1, <2>1, <2>2, <2>3, BaseNext, GammasStay
  <2> QED BY <1>1, <2>1, <2>3, <2>4 DEF ProofInv, AtStep, Steps, Reducing
<1>7. CASE ReduceFold
  <2>1. /\ pc = "reduceFold" /\ commits' = commits /\ opened' = opened
        /\ gammas' = gammas /\ Lambdas' = Lambdas
    BY <1>7 DEF ReduceFold, endVars
  <2>2. Parts /\ GammasOk
    BY <1>1, <2>1 DEF AtStep, Reducing
  <2>3. Claimed' /\ pos' \in Nat /\ nsum' \in Nat /\ Stays /\ pc' \in {"reduceSum", "tripleSum"}
    BY <1>1, <1>7, <2>2, ReduceFoldStep
  <2>4. Base' /\ GammasOk'
    BY <1>1, <2>1, <2>2, <2>3, BaseNext, GammasStay
  <2> QED BY <1>1, <2>1, <2>3, <2>4 DEF ProofInv, AtStep, Steps, Reducing
<1>8. CASE TripleSum
  <2>1. /\ pc = "tripleSum" /\ commits' = commits /\ opened' = opened
        /\ gammas' = gammas /\ Lambdas' = Lambdas
    BY <1>8 DEF TripleSum, endVars
  <2>2. Claimed /\ GammasOk
    BY <1>1, <2>1 DEF AtStep, Reducing
  <2>3. TripleParts' /\ pos' \in Nat /\ nsum' \in Nat /\ Stays /\ pc' = "tripleFold"
    BY <1>1, <1>8, <2>2, TripleSumStep
  <2>4. Base' /\ GammasOk'
    BY <1>1, <2>1, <2>2, <2>3, BaseNext, GammasStay
  <2> QED BY <1>1, <2>1, <2>3, <2>4 DEF ProofInv, AtStep, Steps, Reducing
<1>9. CASE TripleFold
  <2>1. /\ pc = "tripleFold" /\ commits' = commits /\ opened' = opened
        /\ gammas' = gammas /\ Lambdas' = Lambdas
    BY <1>9 DEF TripleFold, endVars
  <2>2. TripleParts /\ GammasOk
    BY <1>1, <2>1 DEF AtStep, Reducing
  <2>3. Scalars' /\ pos' \in Nat /\ nsum' \in Nat /\ Stays /\ pc' = "openTriple"
    BY <1>1, <1>9, <2>2, TripleFoldStep
  <2>4. Base' /\ GammasOk'
    BY <1>1, <2>1, <2>2, <2>3, BaseNext, GammasStay
  <2> QED BY <1>1, <2>1, <2>3, <2>4 DEF ProofInv, AtStep, Steps, Reducing
<1>10. CASE OpenTriple
  <2>1. pc = "openTriple"
    BY <1>10 DEF OpenTriple
  <2>2. Scalars /\ GammasOk
    BY <1>1, <2>1 DEF AtStep, Reducing
  <2>3. /\ Stays /\ GammasOk' /\ pos' \in Nat /\ nsum' \in Nat /\ commits' = opened' /\ defect' = defect
        /\ \/ pc' = "openOutput" /\ defect = 0
           \/ pc' = "done" /\ defect # 0 /\ verdict' = "triple rejected"
    BY <1>1, <1>10, <2>2, OpenTripleStep
  <2>4. Base'
    BY <1>1, <2>3, BaseNext
  <2>5. CASE pc' = "openOutput" /\ defect = 0
    BY <2>3, <2>4, <2>5 DEF ProofInv, AtStep, Steps, Reducing
  <2>6. CASE pc' = "done" /\ defect # 0 /\ verdict' = "triple rejected"
    <3>1. Deserved'
      BY <2>3, <2>6 DEF Deserved
    <3> QED BY <2>3, <2>4, <2>6, <3>1 DEF ProofInv, AtStep, Steps, Reducing
  <2> QED BY <2>3, <2>5, <2>6
<1>11. CASE OpenOutput
  <2>1. pc = "openOutput"
    BY <1>11 DEF OpenOutput
  <2>2. GammasOk /\ defect = 0
    BY <1>1, <2>1 DEF AtStep, Reducing
  <2>3. Stays /\ pos' \in Nat /\ nsum' \in Nat /\ commits' = opened' /\ pc' = "done" /\ Deserved'
    BY <1>1, <1>11, <2>2, OpenOutputStep
  <2>4. Base'
    BY <1>1, <2>3, BaseNext
  <2> QED BY <2>3, <2>4 DEF ProofInv, AtStep, Steps, Reducing
<1> QED BY <1>2, <1>3, <1>4, <1>5, <1>6, <1>7, <1>8, <1>9, <1>10, <1>11 DEF Next

(* A step that changes nothing keeps it.                                   *)
LEMMA ValuesStay ==
  ASSUME Stays, setupVars' = setupVars, m' = m, MaskedInt, MaskedOk
  PROVE  MaskedInt' /\ MaskedOk'
<1>1. gates' = gates /\ cheat' = cheat /\ lambda' = lambda /\ gamma' = gamma
  BY DEF Stays, setupVars
<1>2. /\ Wires' = Wires /\ Mults' = Mults
      /\ \A i : Out(i)' = Out(i) /\ Dim(i)' = Dim(i)
      /\ \A i, j : In1(i, j)' = In1(i, j) /\ In2(i, j)' = In2(i, j)
  BY <1>1, GatesStay
<1>3. ASSUME NEW i PROVE MultShares(i, m)' = MultShares(i, m)
  <2>1. ASSUME NEW p PROVE MultShare(p, i, m)' = MultShare(p, i, m)
    <3>1. \A j : Term(p, i, m, j)' = Term(p, i, m, j)
      BY <1>1, <1>2 DEF Term
    <3>2. Terms(p, i, m)' = Terms(p, i, m)
      BY <1>2, <3>1 DEF Terms
    <3>3. MultShare(p, i, m)' = SumTo(Dim(i)', Terms(p, i, m)') + gamma'[p][i] - lambda'[p][Out(i)']
      BY DEF MultShare, Terms, Term
    <3>4. MultShare(p, i, m) = SumTo(Dim(i), Terms(p, i, m)) + gamma[p][i] - lambda[p][Out(i)]
      BY DEF MultShare, Terms, Term
    <3> QED BY <1>1, <1>2, <3>2, <3>3, <3>4
  <2> QED BY <2>1 DEF MultShares
<1>4. \A i : Off(i)' = Off(i)
  BY <1>1 DEF Off
<1> QED BY <1>2, <1>3, <1>4 DEF MaskedInt, MaskedOk

(* The same of what Products leaves behind.                                *)
LEMMA MergeReadyStays ==
  ASSUME Stays, x' = x, y' = y, sums' = sums, Lambdas' = Lambdas, nsum' = nsum, MergeReady
  PROVE  MergeReady'
<1>1. /\ Bvs' = Bvs /\ \A ns, k : Bent(ns, k)' = Bent(ns, k)
      /\ \A l : CheatTerm(l)' = CheatTerm(l)
  BY DefinedByGates
<1>2. \A l : BitSum(l, SubProducts(x, WholeVector(Bvs, y)))' = BitSum(l, SubProducts(x, WholeVector(Bvs, y)))
  <2> DEFINE U == x
             W == WholeVector(Bvs, y)
  <2>1. x' = U /\ WholeVector(Bvs', y') = W
    BY <1>1
  <2> HIDE DEF U, W
  <2>2. \A l : BitSum(l, SubProducts(x, WholeVector(Bvs, y)))' = BitSum(l, SubProducts(U, W))
    BY <2>1, BitsNext
  <2> QED BY <2>2 DEF U, W
<1>3. nsum = 1 /\ x \in [1..Bvs -> Int] /\ InStep(Bvs, y) /\ SumsOfBits(sums, x, y, 1) /\ LambdasOk(Lambdas, x, y)
  BY DEF MergeReady
<1>4. SumsOfBits(sums, x, y, 1)'
  BY <1>1, <1>2, <1>3 DEF SumsOfBits, Column1
<1>5. LambdasOk(Lambdas, x, y)'
  BY <1>1, <1>2, <1>3 DEF LambdasOk
<1>6. InStep(Bvs, y)'
  BY <1>1, <1>3 DEF InStep, Column1
<1> QED BY <1>1, <1>3, <1>4, <1>5, <1>6 DEF MergeReady

(* The same of the whole invariant.                                        *)
LEMMA StutterInv ==
  ASSUME ProofInv, vars' = vars
  PROVE  ProofInv'
<1>1. /\ pc' = pc /\ Stays /\ pos' = pos /\ setupVars' = setupVars /\ m' = m /\ Lambdas' = Lambdas
      /\ x' = x /\ y' = y /\ z_m' = z_m /\ z_l' = z_l /\ sums' = sums /\ gammas' = gammas /\ nsum' = nsum
      /\ commits' = commits /\ opened' = opened /\ verdict' = verdict /\ defect' = defect
  BY DEF vars, choices, Stays, proofVars, endVars
<1>2. Base /\ commits = opened /\ pc \in Steps /\ AtStep
  BY DEF ProofInv
<1>3. Base'
  <2>1. pos' \in Nat /\ nsum' \in Nat
    BY <1>1, <1>2 DEF Base
  <2> QED BY <1>1, <1>2, <2>1, BaseNext
<1>4. SetupOk => SetupOk'
  BY <1>1, SetupStays DEF Stays
<1>5. MaskedInt /\ MaskedOk => MaskedInt' /\ MaskedOk'
  BY <1>1, ValuesStay
<1>6. MergeReady => MergeReady'
  BY <1>1, MergeReadyStays
<1>7. Claimed => Claimed'
  BY <1>1 DEF Claimed
<1>8. Parts => Parts'
  <2> SUFFICES ASSUME Parts PROVE Parts'
    OBVIOUS
  <2>1. PICK e \in Nat \ {0} : /\ Ready(C * e, x, C * e, y, z_m, z_l, defect)
                                /\ SumsOfParts(sums, C, C, e, x, y, nsum)
    BY DEF Parts
  <2>2. /\ Ready(C * e, x', C * e, y', z_m', z_l', defect')
        /\ SumsOfParts(sums', C, C, e, x', y', nsum')
    BY <1>1, <2>1
  <2> QED BY <1>1, <2>2, PartsNext
<1>9. TripleParts => TripleParts'
  <2> SUFFICES ASSUME TripleParts PROVE TripleParts'
    OBVIOUS
  <2>1. PICK d \in Nat \ {0} : /\ Ready(d, x, d + 1, y, z_m, z_l, defect)
                                /\ SumsOfParts(sums, d, d + 1, 1, x, y, nsum)
    BY DEF TripleParts
  <2>2. Ready(d, x, d + 1, y, z_m, z_l, defect)'
    BY <1>1, <2>1
  <2>3. SumsOfParts(sums, d, d + 1, 1, x, y, nsum)'
    BY <1>1, <2>1 DEF SumsOfParts, Bent, Stays
  <2> QED BY <2>2, <2>3 DEF TripleParts
<1>10. Scalars => Scalars'
  BY <1>1 DEF Scalars
<1>11. GammasOk => GammasOk'
  BY <1>1, GammasStay
<1>12. Deserved => Deserved'
  <2>1. /\ \A ns, k : Bent(ns, k)' = Bent(ns, k)
        /\ \A l : CheatTerm(l)' = CheatTerm(l)
    BY <1>1, DefinedByGates
  <2> QED BY <1>1, <2>1 DEF Deserved
<1>13. AtStep'
  BY <1>1, <1>2, <1>4, <1>5, <1>6, <1>7, <1>8, <1>9, <1>10, <1>11, <1>12 DEF AtStep
<1> QED BY <1>1, <1>2, <1>3, <1>13 DEF ProofInv

(* At every step of verify() the state is what ProofInv says of it.        *)
THEOREM ProofInvariant == Spec => []ProofInv
<1>1. Init => ProofInv
  BY InitInv
<1>2. ProofInv /\ [Next]_vars => ProofInv'
  BY NextInv, StutterInv
<1> QED BY <1>1, <1>2, PTL DEF Spec

-----------------------------------------------------------------------------
(* What is claimed at every step of the reductions.                        *)
LEMMA ReadyAtStep ==
  ASSUME ProofInv, Merged
  PROVE  \E n \in Nat \ {0} : \E c \in Nat : n <= c /\ Ready(n, x, c, y, z_m, z_l, defect)
<1>1. Base /\ AtStep
  BY DEF ProofInv
<1>2. C \in Nat \ {0}
  BY <1>1, BaseFacts
<1>3. CASE pc \in {"reduceSum", "tripleSum"}
  BY <1>1, <1>3 DEF AtStep, Claimed
<1>4. CASE pc = "reduceFold"
  <2>1. PICK e \in Nat \ {0} : Ready(C * e, x, C * e, y, z_m, z_l, defect)
    BY <1>1, <1>4 DEF AtStep, Parts
  <2>2. C * e \in Nat \ {0}
    BY <1>2
  <2> QED BY <2>1, <2>2
<1>5. CASE pc = "tripleFold"
  <2>1. PICK d \in Nat \ {0} : Ready(d, x, d + 1, y, z_m, z_l, defect)
    BY <1>1, <1>5 DEF AtStep, TripleParts
  <2> QED BY <2>1
<1>6. CASE pc = "openTriple"
  BY <1>1, <1>6 DEF AtStep, Scalars
<1> QED BY <1>3, <1>4, <1>5, <1>6 DEF Merged

(* What the parties' shares sum to, in the words of the properties.        *)
LEMMA WholeIs == \A c \in Nat : \A k \in 1..c : Whole(k) = WholeVector(c, y)[k] /\ Whole(k) = SumTo(nP, Column1(nP, y, k))
  BY Moduli DEF Whole, WholeVector, Column1

(* The invariant says that the dealer is in step.                          *)
LEMMA InStepAtStep ==
  ASSUME ProofInv
  PROVE  DealerInStep
<1> SUFFICES ASSUME Merged
             PROVE  /\ \A k \in DOMAIN y[0] : y[0][k] = LargeRing(Whole(k))
                    /\ z_l[0] = LargeRing(SumTo(nP, z_l))
  BY DEF DealerInStep
<1>1. PICK n \in Nat \ {0} : \E c \in Nat : n <= c /\ Ready(n, x, c, y, z_m, z_l, defect)
  BY ReadyAtStep
<1>2. PICK c \in Nat : n <= c /\ Ready(n, x, c, y, z_m, z_l, defect)
  BY <1>1
<1>3. /\ InStep(c, y) /\ Claim(z_m, z_l) /\ IntVector(c, WholeVector(c, y)) /\ y[0] \in [1..c -> Int]
      /\ SumTo(nP, z_l) \in Int /\ LargeRingSize \in Nat \ {0}
  <2>1. n \in Nat /\ LargeRingSize \in Nat \ {0}
    BY Moduli
  <2>2. /\ InStep(c, y) /\ Claim(z_m, z_l) /\ IntVector(c, WholeVector(c, y))
        /\ \A p \in Procs : y[p] \in [1..c -> Int]
    BY <1>2, <2>1, ReadyFacts
  <2>3. SumTo(nP, z_l) \in Int
    BY <2>2, ClaimFacts
  <2>4. 0 \in Procs
    BY Moduli
  <2> QED BY <2>1, <2>2, <2>3, <2>4
<1>4. ASSUME NEW k \in DOMAIN y[0] PROVE y[0][k] = LargeRing(Whole(k))
  <2>1. k \in 1..c
    BY <1>3
  <2>2. Whole(k) \in Int /\ Whole(k) = SumTo(nP, Column1(nP, y, k))
    BY <1>3, <2>1, WholeIs DEF IntVector
  <2>3. y[0][k] \in 0..(LargeRingSize - 1) /\ Same(LargeRingSize, y[0][k], Whole(k))
    BY <1>3, <2>1, <2>2 DEF InStep
  <2> QED BY <1>3, <2>2, <2>3, Reduced DEF LargeRing
<1>5. z_l[0] = LargeRing(SumTo(nP, z_l))
  BY <1>3, Reduced DEF Claim, LargeRing
<1> QED BY <1>4, <1>5

(* It says what the claim is off by.                                       *)
LEMMA DefectAtStep ==
  ASSUME ProofInv
  PROVE  DefectKept
<1> DEFINE v == [k \in DOMAIN x |-> Whole(k)]
<1> SUFFICES ASSUME Merged
             PROVE  LargeRing(z_m + SumTo(nP, z_l) - Inner(x, v)) = defect
  BY DEF DefectKept
<1>1. PICK n \in Nat \ {0} : \E c \in Nat : n <= c /\ Ready(n, x, c, y, z_m, z_l, defect)
  BY ReadyAtStep
<1>2. PICK c \in Nat : n <= c /\ Ready(n, x, c, y, z_m, z_l, defect)
  BY <1>1
<1> DEFINE W == WholeVector(c, y)
           t == z_m + SumTo(nP, z_l)
           a == Dot(n, x, W)
           b == Inner(x, v)
<1>3. /\ IntVector(c, W) /\ IntVector(n, x) /\ Claim(z_m, z_l) /\ x \in [1..n -> Int]
      /\ SumTo(nP, z_l) \in Int /\ z_m \in Int /\ LargeRingSize \in Nat \ {0} /\ n \in Nat
  <2>1. n \in Nat /\ LargeRingSize \in Nat \ {0}
    BY Moduli
  <2>2. /\ Claim(z_m, z_l) /\ IntVector(c, WholeVector(c, y)) /\ IntVector(n, x) /\ x \in [1..n -> Int]
    BY <1>2, <2>1, ReadyFacts
  <2>3. SumTo(nP, z_l) \in Int /\ z_m \in Int
    BY <2>2, ClaimFacts
  <2> QED BY <2>1, <2>2, <2>3
<1>4. defect \in 0..(LargeRingSize - 1) /\ Same(LargeRingSize, t, a + defect)
  BY <1>2 DEF Ready
<1>5. \A k \in 1..n : v[k] = W[k] /\ k \in 1..c
  BY <1>2, <1>3, WholeIs
<1>6. IntVector(n, v) /\ IntVector(n, W)
  BY <1>3, <1>5 DEF IntVector
<1>7. Dot(n, x, v) = a
  <2>1. [k \in 1..n |-> x[k] * v[k]] = [k \in 1..n |-> x[k] * W[k]]
    BY <1>5
  <2> QED BY <2>1 DEF Dot
<1> HIDE DEF v, W
<1>8. b \in Int /\ Same(LargeRingSize, b, a) /\ a \in Int
  BY <1>3, <1>6, <1>7, InnerFacts
<1>9. t \in Int /\ defect \in Int
  BY <1>3, <1>4
<1> HIDE DEF t, a, b
<1>10. Same(LargeRingSize, t - b, (a + defect) - a)
  <2>1. a + defect \in Int
    BY <1>8, <1>9
  <2> QED BY <1>3, <1>4, <1>8, <1>9, <2>1, SameOps
<1>11. (a + defect) - a = defect
  BY <1>8, <1>9
<1>12. t - b \in Int /\ Same(LargeRingSize, defect, t - b)
  BY <1>8, <1>9, <1>10, <1>11 DEF Same
<1>13. defect = LargeRing(t - b)
  BY <1>3, <1>4, <1>12, Reduced DEF LargeRing
<1>14. t - b = z_m + SumTo(nP, z_l) - Inner(x, v)
  BY <1>3, <1>8 DEF t, b
<1> QED BY <1>13, <1>14

(* It says what verify() comes to.                                         *)
LEMMA VerdictAtEnd ==
  ASSUME ProofInv
  PROVE  VerdictDeserved
<1>1. pc = "done" => Deserved
  BY DEF ProofInv, AtStep
<1> QED BY <1>1 DEF VerdictDeserved, Deserved, Bent, CheatTerm

(* Whatever the circuit, the number of parties, the two rings, the         *)
(* compression factor, the randomness and the deviations: the dealer, who  *)
(* sees no message, holds at every step what the parties' shares sum to    *)
(* (DealerInStep; zkfliop_evaluator.cpp:1167-1187).                        *)
THEOREM DealerStaysInStep == Spec => []DealerInStep
  BY ProofInvariant, InStepAtStep, PTL

(* The claimed product is off by exactly what the bent opening makes of    *)
(* it, through merging, padding and both folds (DefectKept;                *)
(* zkfliop_evaluator.cpp:1324-1447 and 1480-1605).                         *)
THEOREM DefectIsKept == Spec => []DefectKept
  BY ProofInvariant, DefectAtStep, PTL

(* What the parties open is what the dealer has committed to               *)
(* (CommitsOpened; zkfliop_evaluator.cpp:1618-1658).                       *)
THEOREM OpenedAsCommitted == Spec => []CommitsOpened
<1>1. ProofInv => CommitsOpened
  BY DEF ProofInv, CommitsOpened
<1> QED BY <1>1, ProofInvariant, PTL

(* verify() accepts if and only if it should, given the defect and the     *)
(* random subsets (VerdictDeserved; zkfliop_evaluator.cpp:1659,            *)
(* 1708-1713).                                                             *)
THEOREM VerdictIsDeserved == Spec => []VerdictDeserved
  BY ProofInvariant, VerdictAtEnd, PTL

=============================================================================
