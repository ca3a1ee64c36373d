------------------------- MODULE ScilArraysProofs --------------------------
(***************************************************************************)
(* What the walks over arrays promise, for every datatype, width, format   *)
(* and tolerance, all hints, all ranges of any number of dimensions, and   *)
(* all lengths of arrays and blocks: an inductive invariant of each walk.  *)
(* Recursive functions are reasoned about by the lemma Recursion, which    *)
(* shows that their equation has a solution.                               *)
(***************************************************************************)
EXTENDS ScilArrays, ScilPowers, FiniteSetTheorems, WellFoundedInduction, NaturalsInduction, TLAPS

-----------------------------------------------------------------------------
(* Numbers *)

(* Quotient and remainder of an integer *)
LEMMA Division ==
  ASSUME NEW n \in Int, NEW m \in Nat \ {0}
  PROVE n = m * (n \div m) + (n % m) /\ n % m \in 0 .. m - 1 /\ n \div m \in Int
OBVIOUS

(* Quotient and remainder are determined by what they are for. *)
LEMMA Division2 ==
  ASSUME NEW n \in Int, NEW m \in Nat \ {0}, NEW q \in Int, NEW r \in Int, n = m * q + r, 0 <= r, r < m
  PROVE n \div m = q /\ n % m = r
OBVIOUS

(* An integer is a multiple and a remainder. *)
LEMMA Quotient ==
  ASSUME NEW n \in Int, NEW m \in Nat \ {0}
  PROVE  \E q \in Int, r \in Int :
             n = m * q + r /\ q = n \div m /\ r = n % m /\ 0 <= r /\ r < m
<1>1. n = m * (n \div m) + (n % m) /\ n % m \in 0 .. m - 1 /\ n \div m \in Int
  BY Division
<1>2. n % m \in Int /\ 0 <= n % m /\ n % m < m
  BY <1>1
<1> WITNESS n \div m \in Int, n % m \in Int
<1> QED BY <1>1, <1>2

(* A set of numbers has a least one. *)
LEMMA Least ==
  ASSUME NEW T \in SUBSET Nat, T # {} PROVE \E n \in T : \A m \in T : n <= m
<1>1. IsWellFoundedOn(OpToRel(<, Nat), Nat)
  BY NatLessThanWellFounded
<1>2. \E n \in T : \A m \in T : ~(<<m, n>> \in OpToRel(<, Nat))
  BY <1>1, WFMin
<1>3. PICK n \in T : \A m \in T : ~(<<m, n>> \in OpToRel(<, Nat))
  BY <1>2
<1>4. ASSUME NEW m \in T PROVE n <= m
  <2>1. ~(<<m, n>> \in {ss \in Nat \X Nat : ss[1] < ss[2]})
    BY <1>3 DEF OpToRel
  <2> QED BY <2>1
<1> QED BY <1>4

(* A property that passes from each number of a set to the next one *)
LEMMA Induction ==
  ASSUME NEW b \in Nat, NEW S \in SUBSET Nat, NEW T, b \in T,
         \A k \in S : k = b \/ (k > b /\ k - 1 \in S),
         \A k \in S : k # b /\ k - 1 \in T => k \in T
  PROVE  S \subseteq T
<1> SUFFICES ASSUME S \ T # {} PROVE FALSE
  OBVIOUS
<1>1. PICK n \in S \ T : \A m \in S \ T : n <= m
  BY Least
<1>2. n # b /\ n \in Nat /\ n - 1 \in S
  BY <1>1
<1>3. n - 1 \in T
  BY <1>1, <1>2
<1> QED BY <1>1, <1>2, <1>3

(* What is known of the first k numbers of a function defined by recursion *)
Begun(g, k, b, S, D, a, H) ==
    /\ g \in [{j \in S : j <= k} -> D]
    /\ \A j \in S : j <= k => g[j] = IF j = b THEN a ELSE H[j][g[j - 1]]

(* f begins with a and goes on as H says. *)
Follows(f, b, S, a, H) == \A k \in S : f[k] = IF k = b THEN a ELSE H[k][f[k - 1]]

(* A recursive definition over the numbers from b on defines a function. *)
LEMMA Recursion ==
  ASSUME NEW b \in Nat, NEW S \in SUBSET Nat, b \in S,
         \A k \in S : k = b \/ (k > b /\ k - 1 \in S),
         NEW D, NEW a \in D, NEW H, \A k \in S : H[k] \in [D -> D]
  PROVE  \E f \in [S -> D] : Follows(f, b, S, a, H)
<1> DEFINE T == {k \in S : \E g : Begun(g, k, b, S, D, a, H)}
<1> DEFINE Knows(g, k) == Begun(g, k, b, S, D, a, H)
<1>1. b \in T
  <2>1. ASSUME NEW j \in S, j <= b PROVE j = b
    <3>1. (j = b \/ j > b) /\ j \in Nat
      OBVIOUS
    <3> QED BY <2>1, <3>1
  <2>2. Knows([j \in {j \in S : j <= b} |-> a], b)
    BY <2>1 DEF Begun
  <2> QED BY <2>2
<1>2. ASSUME NEW k \in S, k # b, k - 1 \in T PROVE k \in T
  <2>1. PICK g : Knows(g, k - 1)
    BY <1>2
  <2>2. k \in Nat /\ k - 1 \in S
    BY <1>2
  <2>3. g[k - 1] \in D
    BY <2>1, <2>2 DEF Begun
  <2> DEFINE h == [j \in {j \in S : j <= k} |-> IF j = k THEN H[k][g[k - 1]] ELSE g[j]]
  <2>4. \A j \in S : j <= k => j = k \/ j <= k - 1
    BY <2>2
  <2>5. h \in [{j \in S : j <= k} -> D]
    <3> SUFFICES ASSUME NEW j \in S, j <= k PROVE h[j] \in D
      OBVIOUS
    <3>1. CASE j = k
      <4>1. h[j] = H[k][g[k - 1]]
        BY <3>1
      <4> QED BY <2>3, <4>1
    <3>2. CASE j # k
      <4>1. g[j] \in D
        BY <2>1, <2>4, <3>2 DEF Begun
      <4> QED BY <3>2, <4>1
    <3> QED BY <3>1, <3>2
  <2>6. ASSUME NEW j \in S, j <= k
        PROVE  h[j] = IF j = b THEN a ELSE H[j][h[j - 1]]
    <3>1. CASE j = k
      <4>1. h[j] = H[k][g[k - 1]] /\ h[k - 1] = g[k - 1] /\ k # b
        BY <1>2, <2>2, <3>1
      <4> QED BY <3>1, <4>1
    <3>2. CASE j # k
      <4>1. h[j] = g[j] /\ j <= k - 1
        BY <2>4, <2>6, <3>2
      <4>2. g[j] = IF j = b THEN a ELSE H[j][g[j - 1]]
        BY <2>1, <4>1 DEF Begun
      <4>3. j # b => h[j - 1] = g[j - 1]
        <5>1. j # b => j - 1 \in S /\ j - 1 <= k /\ j - 1 # k
          BY <2>2, <4>1
        <5> QED BY <5>1
      <4> QED BY <4>1, <4>2, <4>3
    <3> QED BY <3>1, <3>2
  <2>7. Knows(h, k)
    <3> HIDE DEF h
    <3> QED BY <2>5, <2>6 DEF Begun
  <2> QED BY <2>7
<1>3. S \subseteq T
  <2> HIDE DEF T
  <2> QED BY <1>1, <1>2, Induction
<1>4. ASSUME NEW m \in S, NEW n \in S, m <= n, NEW g, NEW h, Knows(g, m), Knows(h, n)
      PROVE  g[m] = h[m]
  <2> DEFINE U == {k \in S : k <= m => g[k] = h[k]}
  <2>1. b \in U
    <3>1. b <= m => b <= n
      BY <1>4
    <3> QED BY <1>4, <3>1 DEF Begun
  <2>2. ASSUME NEW k \in S, k # b, k - 1 \in U PROVE k \in U
    <3> SUFFICES ASSUME k <= m PROVE g[k] = h[k]
      OBVIOUS
    <3>9. k \in Nat /\ m \in Nat /\ n \in Nat
      OBVIOUS
    <3>1. k <= n /\ k - 1 <= m
      BY <1>4, <3>9
    <3>3. g[k - 1] = h[k - 1]
      BY <2>2, <3>1
    <3>2. g[k] = H[k][g[k - 1]] /\ h[k] = H[k][h[k - 1]]
      BY <1>4, <2>2, <3>9, <3>1 DEF Begun
    <3> QED BY <3>2, <3>3
  <2>3. S \subseteq U
    <3> HIDE DEF U
    <3> QED BY <2>1, <2>2, Induction
  <2> QED BY <1>4, <2>3
<1> DEFINE G(k) == CHOOSE g : Knows(g, k)
           f == [k \in S |-> G(k)[k]]
<1>5. \A k \in S : Knows(G(k), k)
  BY <1>3
<1> HIDE DEF Knows, T, G
<1>6. ASSUME NEW k \in S
      PROVE  f[k] \in D /\ f[k] = IF k = b THEN a ELSE H[k][f[k - 1]]
  <2>1. f[k] = G(k)[k] /\ Knows(G(k), k)
    BY <1>5
  <2>2. G(k)[k] \in D /\ G(k)[k] = IF k = b THEN a ELSE H[k][G(k)[k - 1]]
    <3>1. PICK g : g = G(k) /\ Begun(g, k, b, S, D, a, H)
      BY <2>1 DEF Knows
    <3>2. k <= k
      OBVIOUS
    <3>3. g[k] \in D
      BY <3>1, <3>2 DEF Begun
    <3>4. g[k] = IF k = b THEN a ELSE H[k][g[k - 1]]
      BY <3>1, <3>2 DEF Begun
    <3> QED BY <3>1, <3>3, <3>4
  <2>3. CASE k # b
    <3>9. k - 1 \in S /\ k \in Nat
      BY <2>3
    <3>1. k - 1 <= k /\ f[k - 1] = G(k - 1)[k - 1]
      BY <3>9
    <3>2. Knows(G(k - 1), k - 1) /\ Knows(G(k), k)
      BY <1>5, <3>9
    <3>3. G(k - 1)[k - 1] = G(k)[k - 1]
      BY <1>4, <3>9, <3>1, <3>2
    <3> QED BY <2>1, <2>2, <2>3, <3>1, <3>3
  <2> QED BY <2>1, <2>2, <2>3
<1>7. f \in [S -> D]
  BY <1>6
<1>8. Follows(f, b, S, a, H)
  BY <1>6 DEF Follows
<1> QED BY <1>7, <1>8

(* The powers of two are what their recursion says. *)
LEMMA TwoIs == Two \in [Nat -> Nat \ {0}] /\ Two[0] = 1 /\ \A n \in Nat : Two[n + 1] = 2 * Two[n]
<1> DEFINE H == [k \in Nat |-> [v \in Nat \ {0} |-> 2 * v]]
<1>1. ASSUME NEW b \in {0}, NEW a \in {1}, NEW D, D = Nat \ {0}
      PROVE  \E f \in [Nat -> D] : Follows(f, b, Nat, a, H)
  <2>1. \A k \in Nat : H[k] \in [D -> D]
    BY <1>1
  <2>2. \A k \in Nat : k = b \/ (k > b /\ k - 1 \in Nat)
    OBVIOUS
  <2>3. b \in Nat /\ a \in D /\ Nat \in SUBSET Nat
    BY <1>1
  <2> HIDE DEF H
  <2> QED BY <2>1, <2>2, <2>3, Recursion
<1>2. \E f \in [Nat -> Nat \ {0}] : Follows(f, 0, Nat, 1, H)
  <2> HIDE DEF H
  <2> QED BY <1>1
<1>3. PICK f \in [Nat -> Nat \ {0}] : Follows(f, 0, Nat, 1, H)
  BY <1>2
<1>4. \A k \in Nat : f[k] = IF k = 0 THEN 1 ELSE 2 * f[k - 1]
  <2> SUFFICES ASSUME NEW k \in Nat, k # 0 PROVE H[k][f[k - 1]] = 2 * f[k - 1]
    BY <1>3 DEF Follows
  <2>1. f[k - 1] \in Nat \ {0}
    OBVIOUS
  <2> QED BY <2>1
<1>5. f = [k \in Nat |-> IF k = 0 THEN 1 ELSE 2 * f[k - 1]]
  <2> HIDE DEF H
  <2> QED BY <1>4
<1>6. Two = [n \in Nat |-> IF n = 0 THEN 1 ELSE 2 * Two[n - 1]]
  BY <1>5 DEF Two
<1>7. \A n \in Nat : Two[n] = IF n = 0 THEN 1 ELSE 2 * Two[n - 1]
  BY <1>6
<1> DEFINE T == {n \in Nat : Two[n] \in Nat \ {0}}
<1>8. \A n \in Nat : Two[n] \in Nat \ {0}
  <2>1. 0 \in T
    BY <1>7
  <2>2. ASSUME NEW k \in Nat, k # 0, k - 1 \in T PROVE k \in T
    BY <1>7, <2>2
  <2>3. \A k \in Nat : k = 0 \/ (k > 0 /\ k - 1 \in Nat)
    OBVIOUS
  <2> HIDE DEF T
  <2>4. Nat \subseteq T
    BY <2>1, <2>2, <2>3, Induction
  <2> QED BY <2>4 DEF T
<1>9. Two \in [Nat -> Nat \ {0}]
  BY <1>6, <1>8
<1> QED BY <1>7, <1>9

(* Of finitely many numbers one is the smallest and one the largest. *)
LEMMA Extremes ==
  ASSUME NEW c \in Nat \ {0}, NEW f \in [0 .. c - 1 -> Int]
  PROVE  /\ \E m \in 0 .. c - 1 : \A n \in 0 .. c - 1 : f[m] <= f[n]
         /\ \E m \in 0 .. c - 1 : \A n \in 0 .. c - 1 : f[n] <= f[m]
<1> DEFINE Lowest(k)  == \E m \in 0 .. k : \A n \in 0 .. k : f[m] <= f[n]
           Highest(k) == \E m \in 0 .. k : \A n \in 0 .. k : f[n] <= f[m]
           S == 0 .. c - 1
           T == {k \in S : Lowest(k) /\ Highest(k)}
<1>0. \A n \in S : f[n] \in Int
  OBVIOUS
<1>1. 0 \in T
  <2>1. 0 \in S /\ \A n \in 0 .. 0 : n = 0
    OBVIOUS
  <2> QED BY <1>0, <2>1
<1>2. ASSUME NEW k \in S, k # 0, k - 1 \in T PROVE k \in T
  <2>1. \A n \in 0 .. k : n \in S /\ (n = k \/ n \in 0 .. k - 1)
    OBVIOUS
  <2>2. \A n \in 0 .. k - 1 : n \in 0 .. k
    OBVIOUS
  <2>3. PICK m \in 0 .. k - 1 : \A n \in 0 .. k - 1 : f[m] <= f[n]
    BY <1>2
  <2>4. PICK h \in 0 .. k - 1 : \A n \in 0 .. k - 1 : f[n] <= f[h]
    BY <1>2
  <2>5. f[m] \in Int /\ f[h] \in Int /\ f[k] \in Int /\ k \in 0 .. k
    BY <1>0, <2>1, <2>2
  <2>6. Lowest(k)
    <3>1. CASE f[m] <= f[k]
      BY <2>1, <2>2, <2>3, <2>5, <3>1
    <3>2. CASE ~(f[m] <= f[k])
      <4>1. \A n \in 0 .. k : f[k] <= f[n]
        <5> SUFFICES ASSUME NEW n \in 0 .. k, n \in 0 .. k - 1 PROVE f[k] <= f[n]
          BY <2>1, <2>5
        <5>1. f[m] <= f[n] /\ f[n] \in Int
          BY <1>0, <2>1, <2>3
        <5> QED BY <2>5, <3>2, <5>1
      <4> QED BY <2>5, <4>1
    <3> QED BY <3>1, <3>2
  <2>7. Highest(k)
    <3>1. CASE f[k] <= f[h]
      BY <2>1, <2>2, <2>4, <2>5, <3>1
    <3>2. CASE ~(f[k] <= f[h])
      <4>1. \A n \in 0 .. k : f[n] <= f[k]
        <5> SUFFICES ASSUME NEW n \in 0 .. k, n \in 0 .. k - 1 PROVE f[n] <= f[k]
          BY <2>1, <2>5
        <5>1. f[n] <= f[h] /\ f[n] \in Int
          BY <1>0, <2>1, <2>4
        <5> QED BY <2>5, <3>2, <5>1
      <4> QED BY <2>5, <4>1
    <3> QED BY <3>1, <3>2
  <2> QED BY <2>6, <2>7
<1>3. S \subseteq T
  <2>1. S \in SUBSET Nat /\ \A k \in S : k = 0 \/ (k > 0 /\ k - 1 \in S)
    OBVIOUS
  <2> HIDE DEF T, S
  <2> QED BY <1>1, <1>2, <2>1, Induction
<1>4. c - 1 \in S
  OBVIOUS
<1> HIDE DEF S
<1> QED BY <1>3, <1>4

(* A product grows with its factor. *)
LEMMA MultiplyMonotone ==
  ASSUME NEW x \in Nat, NEW y \in Nat, NEW z \in Nat, x <= y PROVE x * z <= y * z
OBVIOUS

(* A positive factor of both sides can be left out. *)
LEMMA MultiplyCancel ==
  ASSUME NEW x \in Nat, NEW y \in Nat, NEW z \in Nat \ {0}, x * z <= y * z PROVE x <= y
OBVIOUS

(* Products are numbers, and their factors can be swapped. *)
LEMMA Products ==
  /\ \A x, y \in Nat : x * y \in Nat /\ x * y = y * x
  /\ \A x, y, z \in Nat : (x * y) * z = x * (y * z)
OBVIOUS

(* A power divides each higher one, and what is left is even. *)
LEMMA PowersDivide ==
  ASSUME NEW w \in Nat
  PROVE  \A t \in 0 .. w : \E e \in Nat :
             Two[w] = Two[t] * e /\ (t < w => \E g \in Nat : e = 2 * g)
<1> DEFINE P(t) == \E e \in Nat : Two[w] = Two[t] * e /\ (t < w => \E g \in Nat : e = 2 * g)
           S == 0 .. w
           T == {j \in S : P(w - j)}
<1>1. \A n \in Nat : Two[n] \in Nat \ {0} /\ Two[n + 1] = 2 * Two[n]
  BY TwoIs
<1>2. 0 \in T
  <2>1. Two[w] = Two[w] * 1
    BY <1>1
  <2>2. w - 0 = w
    OBVIOUS
  <2> QED BY <2>1, <2>2
<1>3. ASSUME NEW k \in S, k # 0, k - 1 \in T PROVE k \in T
  <2>1. w - k \in Nat /\ w - (k - 1) = (w - k) + 1 /\ w - k < w
    BY <1>3
  <2>2. PICK e \in Nat : Two[w] = Two[(w - k) + 1] * e
    BY <1>3, <2>1
  <2>3. Two[(w - k) + 1] = 2 * Two[w - k] /\ Two[w - k] \in Nat
    BY <1>1, <2>1
  <2>4. (2 * Two[w - k]) * e = Two[w - k] * (2 * e)
    BY <2>3
  <2>5. Two[w] = Two[w - k] * (2 * e) /\ 2 * e \in Nat
    BY <2>2, <2>3, <2>4
  <2> QED BY <2>1, <2>5
<1>4. S \subseteq T
  <2>1. \A k \in S : k = 0 \/ (k > 0 /\ k - 1 \in S)
    OBVIOUS
  <2>2. S \in SUBSET Nat
    OBVIOUS
  <2> HIDE DEF S, T
  <2> QED BY <1>2, <1>3, <2>1, <2>2, Induction
<1>5. ASSUME NEW t \in 0 .. w PROVE P(t)
  <2>1. w - t \in S /\ w - (w - t) = t
    OBVIOUS
  <2> QED BY <1>4, <2>1
<1> QED BY <1>5

(* The powers grow. *)
LEMMA PowersGrow ==
  ASSUME NEW n \in Nat, NEW m \in 0 .. n PROVE Two[m] <= Two[n]
<1>1. Two[m] \in Nat \ {0} /\ Two[n] \in Nat \ {0}
  BY TwoIs
<1>2. PICK e \in Nat : Two[n] = Two[m] * e
  BY PowersDivide
<1>3. PICK x \in Nat \ {0} : x = Two[m]
  BY <1>1
<1>4. e # 0
  BY <1>1, <1>2
<1>5. PICK d \in Nat : e = d + 1
  <2>1. e - 1 \in Nat /\ e = (e - 1) + 1
    BY <1>4
  <2> QED BY <2>1
<1>6. x * e = x * d + x /\ x * d \in Nat
  BY <1>5
<1> QED BY <1>2, <1>3, <1>6

(* The power of a sum is the product of the powers. *)
LEMMA PowerOfSum ==
  ASSUME NEW m \in Nat, NEW n \in Nat PROVE Two[m + n] = Two[m] * Two[n]
<1> DEFINE T == {k \in Nat : Two[m + k] = Two[m] * Two[k]}
<1>0. \A k \in Nat : Two[k] \in Nat \ {0} /\ Two[k + 1] = 2 * Two[k]
  BY TwoIs
<1>1. 0 \in T
  <2>1. Two[0] = 1 /\ Two[m] \in Nat /\ m + 0 = m
    BY TwoIs
  <2> QED BY <2>1
<1>2. ASSUME NEW k \in Nat, k # 0, k - 1 \in T PROVE k \in T
  <2>1. PICK j \in Nat : j = k - 1 /\ k = j + 1 /\ m + k = (m + j) + 1
    <3>1. k - 1 \in Nat /\ k = (k - 1) + 1 /\ m + k = (m + (k - 1)) + 1
      BY <1>2
    <3> QED BY <3>1
  <2>2. PICK x \in Nat, y \in Nat : x = Two[m] /\ y = Two[j]
    BY <1>0
  <2>3. Two[m + j] = x * y
    BY <1>2, <2>1, <2>2
  <2>4. Two[k] = 2 * y /\ Two[m + k] = 2 * (x * y)
    <3>1. m + j \in Nat
      OBVIOUS
    <3> QED BY <1>0, <2>1, <2>2, <2>3, <3>1
  <2>5. 2 * (x * y) = x * (2 * y)
    OBVIOUS
  <2> QED BY <2>2, <2>4, <2>5
<1>3. \A k \in Nat : k = 0 \/ (k > 0 /\ k - 1 \in Nat)
  OBVIOUS
<1>4. Nat \subseteq T
  <2> HIDE DEF T
  <2> QED BY <1>1, <1>2, <1>3, Induction
<1> QED BY <1>4

-----------------------------------------------------------------------------
(* The quantizer (ScilQuantize) *)

-----------------------------------------------------------------------------
QuantizerTypeOK == type \in Types /\ tol \in Tolerances

(* The codes of the array, and the codes of which the array was made *)
CodeOf(n)     == Quantizer!Code(source[n], Quantizer!Minimum(source), tol)
RestoredOf(n) == Quantizer!Value(stored.codes[n], stored.min, stored.tol)

(* What is stored are the codes of the array, as long as their width, if   *)
(* one of the packing algorithms made them.                                *)
QuantizerInv ==
    /\ QuantizerTypeOK
    /\ coding \in {"stored", "restored"} =>
          source \in Quantizer!Data /\ algo \in {"abstol", "allquant", "quantize", "swage"}
    /\ coding \in {"stored", "restored"} /\ algo # "swage" =>
          stored.min = Quantizer!Minimum(source) /\ stored.tol = tol
    /\ coding \in {"stored", "restored"} /\ algo = "quantize" =>
          /\ type.kind = "float"
          /\ \A n \in Quantizer!Index : stored.codes[n] = CodeOf(n)
    /\ coding \in {"stored", "restored"} /\ algo \in {"abstol", "allquant"} =>
          /\ stored.bits = Quantizer!Bits(Quantizer!Minimum(source), Quantizer!Maximum(source), tol)
          /\ \A n \in Quantizer!Index : stored.codes[n] = CodeOf(n) % Two[stored.bits]
    /\ coding = "restored" /\ algo # "swage" =>
          \A n \in Quantizer!Index : restored[n] = RestoredOf(n)

(* What the quantizer is given *)
LEMMA QuantizerConstants ==
  ASSUME QuantizerTypeOK
  PROVE  /\ type.kind \in {"int", "wide", "float"} /\ type.bits \in Nat \ {0}
         /\ \A v \in type.values : v \in Int
         /\ type.kind # "float" =>
              \A v \in type.values : v \in -Two[type.bits - 1] .. Two[type.bits - 1] - 1
         /\ tol \in Nat \ {0} /\ Denom \in Nat \ {0} /\ Elements \in Nat \ {0}
         /\ Quantizer!Index = 0 .. Elements - 1
         /\ Quantizer!Two = Two
<1>1. Quantizer!QuantizeAssumption
  BY ArraysAssumption DEF ArraysAssumption
<1>2. Quantizer!Two = Two
  BY DEF Quantizer!Two, Two
<1>3. /\ type.kind \in {"int", "wide", "float"} /\ type.bits \in Nat \ {0}
      /\ type.values \subseteq
            (IF type.kind = "float" THEN Int ELSE -Two[type.bits - 1] .. Two[type.bits - 1] - 1)
  BY <1>1, <1>2 DEF Quantizer!QuantizeAssumption, QuantizerTypeOK
<1>4. Two[type.bits - 1] \in Int
  BY <1>3, TwoIs
<1>5. tol \in Nat \ {0} /\ Denom \in Nat \ {0} /\ Elements \in Nat \ {0}
  BY <1>1 DEF Quantizer!QuantizeAssumption, QuantizerTypeOK
<1>6. Quantizer!Index = 0 .. Elements - 1
  BY DEF Quantizer!Index
<1>7. type.kind # "float" =>
         \A v \in type.values : v \in -Two[type.bits - 1] .. Two[type.bits - 1] - 1
  BY <1>3
<1>8. \A v \in type.values : v \in Int
  <2>1. CASE type.kind = "float"
    BY <1>3, <2>1
  <2>2. CASE type.kind # "float"
    BY <1>4, <1>7, <2>2
  <2> QED BY <2>1, <2>2
<1> QED BY <1>2, <1>3, <1>5, <1>6, <1>7, <1>8

(* The smallest and the largest element *)
LEMMA MinimumIs ==
  ASSUME QuantizerTypeOK, source \in Quantizer!Data
  PROVE  /\ Quantizer!Minimum(source) \in type.values
         /\ Quantizer!Maximum(source) \in type.values
         /\ \A n \in Quantizer!Index :
               /\ source[n] \in type.values
               /\ Quantizer!Minimum(source) <= source[n]
               /\ source[n] <= Quantizer!Maximum(source)
<1> DEFINE S == {source[n] : n \in Quantizer!Index}
<1>1. /\ \A n \in Quantizer!Index : source[n] \in type.values /\ source[n] \in Int
      /\ source \in [Quantizer!Index -> type.values]
  BY QuantizerConstants DEF Quantizer!Data
<1>2. /\ \E m \in Quantizer!Index : \A n \in Quantizer!Index : source[m] <= source[n]
      /\ \E m \in Quantizer!Index : \A n \in Quantizer!Index : source[n] <= source[m]
  <2>1. source \in [0 .. Elements - 1 -> Int] /\ Elements \in Nat \ {0}
    BY <1>1, QuantizerConstants
  <2>2. /\ \E m \in 0 .. Elements - 1 : \A n \in 0 .. Elements - 1 : source[m] <= source[n]
        /\ \E m \in 0 .. Elements - 1 : \A n \in 0 .. Elements - 1 : source[n] <= source[m]
    BY <2>1, Extremes
  <2> QED BY <2>2, QuantizerConstants
<1>3. /\ Quantizer!Minimum(source) \in S
      /\ \A n \in Quantizer!Index : Quantizer!Minimum(source) <= source[n]
  <2>1. \E v \in S : \A n \in Quantizer!Index : v <= source[n]
    BY <1>2
  <2> QED BY <2>1 DEF Quantizer!Minimum
<1>4. \A m, n \in Quantizer!Index : source[n] <= source[m] <=> source[m] >= source[n]
  BY <1>1
<1>5. /\ Quantizer!Maximum(source) \in S
      /\ \A n \in Quantizer!Index : Quantizer!Maximum(source) >= source[n]
  <2>1. \E v \in S : \A n \in Quantizer!Index : v >= source[n]
    BY <1>2, <1>4
  <2> QED BY <2>1 DEF Quantizer!Maximum
<1>6. \A n \in Quantizer!Index : source[n] <= Quantizer!Maximum(source)
  <2>1. PICK m \in Quantizer!Index : Quantizer!Maximum(source) = source[m]
    BY <1>5
  <2> QED BY <1>4, <1>5, <2>1
<1> QED BY <1>1, <1>3, <1>5, <1>6

-----------------------------------------------------------------------------
(* Rounding to the nearest code *)
Rounds(q, d, t) ==
    /\ q \in Nat
    /\ \E p \in Nat, r \in Nat : p = t * q /\ 2 * d + t = 2 * p + r /\ r < 2 * t

(* Rounding finds the nearest code. *)
LEMMA RoundingIs ==
  ASSUME NEW d \in Nat, NEW t \in Nat \ {0}
  PROVE  Rounds((2 * d + t) \div (2 * t), d, t)
<1>1. PICK n \in Nat, m \in Nat \ {0} : n = 2 * d + t /\ m = 2 * t
  OBVIOUS
<1>2. n = m * (n \div m) + (n % m) /\ n % m \in 0 .. m - 1
  BY Division
<1>3. PICK q \in Nat : q = n \div m
  OBVIOUS
<1>4. PICK r \in Nat : r = n % m /\ r < m
  BY <1>2
<1>5. PICK p \in Nat : p = t * q
  BY Products
<1>6. (2 * t) * q = 2 * (t * q)
  OBVIOUS
<1>7. 2 * d + t = 2 * p + r /\ r < 2 * t
  <2>1. m * q = 2 * p
    BY <1>1, <1>5, <1>6
  <2> QED BY <1>1, <1>2, <1>3, <1>4, <2>1
<1> QED BY <1>1, <1>3, <1>5, <1>7 DEF Rounds

(* A code is smaller than the number of codes. *)
LEMMA RoundingFits ==
  ASSUME NEW d \in Nat, NEW e \in Nat, NEW t \in Nat \ {0}, NEW w \in Nat, NEW q,
         Rounds(q, d, t), d <= e, t * w >= t + e
  PROVE  q < w
<1>1. PICK p \in Nat, r \in Nat : p = t * q /\ 2 * d + t = 2 * p + r
  BY DEF Rounds
<1>2. q \in Nat
  BY DEF Rounds
<1>3. PICK u \in Nat : u = t * w
  BY Products
<1>4. CASE ~(q < w)
  <2>1. w * t <= q * t
    BY <1>2, <1>4, MultiplyMonotone
  <2>2. w * t = t * w /\ q * t = t * q
    BY <1>2, Products
  <2>3. u <= p
    BY <1>1, <1>3, <2>1, <2>2
  <2> QED BY <1>1, <1>3, <2>3
<1> QED BY <1>4

(* There are more powers than numbers. *)
LEMMA PowersExceed == \A n \in Nat : Two[n] > n
<1> DEFINE T == {n \in Nat : Two[n] > n}
<1>1. 0 \in T
  BY TwoIs
<1>2. ASSUME NEW k \in Nat, k # 0, k - 1 \in T PROVE k \in T
  <2>1. PICK j \in Nat : j = k - 1 /\ k = j + 1
    <3>1. k - 1 \in Nat /\ k = (k - 1) + 1
      BY <1>2
    <3> QED BY <3>1
  <2>2. Two[j] > j /\ Two[j] \in Nat /\ Two[j + 1] = 2 * Two[j]
    BY <1>2, <2>1, TwoIs
  <2> QED BY <2>1, <2>2
<1>3. \A k \in Nat : k = 0 \/ (k > 0 /\ k - 1 \in Nat)
  OBVIOUS
<1>4. Nat \subseteq T
  <2> HIDE DEF T
  <2> QED BY <1>1, <1>2, <1>3, Induction
<1> QED BY <1>4

(* The width that is computed is enough for a span. *)
LEMMA WidthEnough ==
  ASSUME QuantizerTypeOK, NEW a, NEW b, NEW d \in Nat, d = Quantizer!Difference(b, a)
  PROVE  Quantizer!Bits(a, b, tol) \in Nat /\ tol * Two[Quantizer!Bits(a, b, tol)] >= tol + d
<1>1. PICK t \in Nat \ {0} : t = tol
  BY QuantizerConstants
<1>2. \A n \in Nat : Two[n] \in Nat
  BY TwoIs
<1>3. \A n \in Nat : t * Two[n] \in Nat
  BY <1>2, Products
<1> DEFINE T == {n \in 0 .. t + d : t * Two[n] >= t + d}
<1>4. T \in SUBSET Nat /\ t + d \in T
  <2>1. PICK w \in Nat : w = Two[t + d] /\ w > t + d
    <3>1. t + d \in Nat
      OBVIOUS
    <3> QED BY <1>2, <3>1, PowersExceed
  <2>2. t * w >= w
    OBVIOUS
  <2> QED BY <2>1, <2>2
<1>5. PICK n \in T : \A m \in T : n <= m
  <2> HIDE DEF T
  <2> QED BY <1>4, Least
<1>6. \A c \in 0 .. n - 1 : ~(t * Two[c] >= t + d)
  <2> SUFFICES ASSUME NEW c \in 0 .. n - 1, t * Two[c] >= t + d PROVE FALSE
    OBVIOUS
  <2>1. c \in 0 .. t + d /\ ~(n <= c)
    OBVIOUS
  <2> QED BY <1>5, <2>1
<1>7. ~(t + d <= 0) /\ ~(2 * (t + d) <= t)
  OBVIOUS
<1>8. \A c \in Nat : Quantizer!Enough(c, d, t) <=> t * Two[c] >= t + d
  <2>1. Quantizer!Two = Two
    BY QuantizerConstants
  <2> QED BY <2>1 DEF Quantizer!Enough
<1>9. /\ n \in 0 .. t + d /\ Quantizer!Enough(n, d, t)
      /\ \A c \in 0 .. n - 1 : ~Quantizer!Enough(c, d, t)
  BY <1>5, <1>6, <1>8
<1>10. Quantizer!Bits(a, b, t) =
         CHOOSE m \in 0 .. t + d : /\ Quantizer!Enough(m, d, t)
                                   /\ \A c \in 0 .. m - 1 : ~Quantizer!Enough(c, d, t)
  BY <1>7 DEF Quantizer!Bits
<1>11. Quantizer!Bits(a, b, t) \in 0 .. t + d /\ Quantizer!Enough(Quantizer!Bits(a, b, t), d, t)
  BY <1>9, <1>10
<1>12. Quantizer!Bits(a, b, t) \in Nat
  BY <1>11
<1> QED BY <1>1, <1>8, <1>11, <1>12

(* Numbers that fit wrap to themselves, smaller ones to the other end. *)
LEMMA WrapIs ==
  ASSUME QuantizerTypeOK, NEW x \in Int, NEW w \in Nat \ {0}, w = Two[type.bits - 1],
         type.kind # "float"
  PROVE  /\ -w <= x /\ x < w => Quantizer!Wrap(x) = x
         /\ -(2 * w) <= x /\ x < -w => Quantizer!Wrap(x) = x + 2 * w
<1>1. Quantizer!Wrap(x) = ((x + w) % (2 * w)) - w
  <2>1. Quantizer!Two = Two
    BY QuantizerConstants
  <2> QED BY <2>1 DEF Quantizer!Wrap, Quantizer!Half, Quantizer!Kind
<1>2. PICK m \in Nat \ {0} : m = 2 * w
  OBVIOUS
<1>3. ASSUME -w <= x, x < w PROVE Quantizer!Wrap(x) = x
  <2>1. PICK r \in Int : r = x + w /\ 0 <= r /\ r < m
    BY <1>2, <1>3
  <2>2. PICK n \in Int : n = x + w
    OBVIOUS
  <2>3. PICK q \in Int : n = m * q + r
    <3>1. \A q \in {0} : q \in Int /\ n = m * q + r
      BY <2>1, <2>2
    <3> QED BY <3>1
  <2>4. n % m = r
    BY <2>1, <2>3, Division2
  <2> QED BY <1>1, <1>2, <2>1, <2>2, <2>4
<1>4. ASSUME -(2 * w) <= x, x < -w PROVE Quantizer!Wrap(x) = x + 2 * w
  <2>1. PICK r \in Int : r = (x + w) + m /\ 0 <= r /\ r < m
    BY <1>2, <1>4
  <2>2. PICK n \in Int : n = x + w
    OBVIOUS
  <2>3. PICK q \in Int : n = m * q + r
    <3>1. \A q \in {-1} : q \in Int /\ n = m * q + r
      BY <2>1, <2>2
    <3> QED BY <3>1
  <2>4. n % m = r
    BY <2>1, <2>3, Division2
  <2> QED BY <1>1, <1>2, <2>1, <2>2, <2>4
<1> QED BY <1>3, <1>4

(* What a difference is counted in *)
Unit == IF type.kind = "float" THEN 1 ELSE Denom

(* The differences to the smallest element *)
LEMMA SpanIs ==
  ASSUME QuantizerTypeOK, source \in Quantizer!Data, ~Quantizer!Unsafe,
         NEW v \in type.values, Quantizer!Minimum(source) <= v, v <= Quantizer!Maximum(source)
  PROVE  /\ v - Quantizer!Minimum(source) \in Nat
         /\ Quantizer!Difference(v, Quantizer!Minimum(source))
              = Unit * (v - Quantizer!Minimum(source))
         /\ Quantizer!Difference(v, Quantizer!Minimum(source)) \in Nat
<1>1. PICK a \in Int, b \in Int :
         a = Quantizer!Minimum(source) /\ b = Quantizer!Maximum(source)
  BY MinimumIs, QuantizerConstants
<1>2. PICK x \in Int : x = v /\ a <= x /\ x <= b
  BY <1>1, QuantizerConstants
<1>3. PICK k \in Nat : k = x - a
  BY <1>2
<1>4. CASE type.kind = "float"
  <2>1. Quantizer!Difference(v, a) = k /\ Unit = 1
    BY <1>2, <1>3, <1>4 DEF Quantizer!Difference, Quantizer!Kind, Unit
  <2> QED BY <1>1, <1>2, <1>3, <2>1
<1>5. CASE type.kind = "int"
  <2>1. Quantizer!Difference(v, a) = Denom * k /\ Unit = Denom
    BY <1>2, <1>3, <1>5 DEF Quantizer!Difference, Quantizer!Kind, Unit
  <2>2. Denom * k \in Nat
    BY QuantizerConstants, Products
  <2> QED BY <1>1, <1>2, <1>3, <2>1, <2>2
<1>6. CASE type.kind = "wide"
  <2>1. PICK w \in Nat \ {0} : w = Two[type.bits - 1]
    <3>1. type.bits - 1 \in Nat
      BY QuantizerConstants
    <3> QED BY <3>1, TwoIs
  <2>2. b - a < w
    <3>1. Quantizer!Half = w
      BY <2>1, QuantizerConstants DEF Quantizer!Half
    <3>2. ~(b - a >= w)
      BY <1>1, <1>6, <3>1 DEF Quantizer!Unsafe, Quantizer!Kind
    <3> QED BY <3>2
  <2>3. Quantizer!Wrap(k) = k
    <3>1. k \in Int /\ -w <= k /\ k < w /\ type.kind # "float"
      BY <1>2, <1>3, <1>6, <2>2
    <3> QED BY <2>1, <3>1, WrapIs
  <2>4. Quantizer!Difference(v, a) = Denom * k /\ Unit = Denom
    BY <1>2, <1>3, <1>6, <2>3 DEF Quantizer!Difference, Quantizer!Kind, Unit
  <2>5. Denom * k \in Nat
    BY QuantizerConstants, Products
  <2> QED BY <1>1, <1>2, <1>3, <2>4, <2>5
<1> QED BY <1>4, <1>5, <1>6, QuantizerConstants

(* The code of an element, and that it fits *)
LEMMA CodeOfIs ==
  ASSUME QuantizerTypeOK, source \in Quantizer!Data, ~Quantizer!Unsafe,
         NEW n \in Quantizer!Index
  PROVE  /\ source[n] - Quantizer!Minimum(source) \in Nat
         /\ Rounds(CodeOf(n), Unit * (source[n] - Quantizer!Minimum(source)), tol)
         /\ Quantizer!Bits(Quantizer!Minimum(source), Quantizer!Maximum(source), tol) \in Nat
         /\ CodeOf(n) < Two[Quantizer!Bits(Quantizer!Minimum(source), Quantizer!Maximum(source), tol)]
<1>1. PICK a \in Int, b \in Int, x \in Int :
         a = Quantizer!Minimum(source) /\ b = Quantizer!Maximum(source) /\ x = source[n]
         /\ a <= x /\ x <= b
  BY MinimumIs, QuantizerConstants
<1>2. PICK t \in Nat \ {0} : t = tol
  BY QuantizerConstants
<1>3. b \in type.values /\ x \in type.values /\ a <= b
  BY <1>1, MinimumIs
<1>4. PICK d \in Nat, e \in Nat :
         /\ d = Quantizer!Difference(x, a) /\ d = Unit * (x - a)
         /\ e = Quantizer!Difference(b, a) /\ e = Unit * (b - a)
  <2>1. /\ Quantizer!Difference(x, a) = Unit * (x - a)
        /\ Quantizer!Difference(x, a) \in Nat
    BY <1>1, <1>3, SpanIs
  <2>2. /\ Quantizer!Difference(b, a) = Unit * (b - a)
        /\ Quantizer!Difference(b, a) \in Nat
    BY <1>1, <1>3, SpanIs
  <2> QED BY <2>1, <2>2
<1>5. d <= e
  <2>1. PICK u \in Nat : u = Unit
    BY QuantizerConstants DEF Unit
  <2>2. PICK k \in Nat, j \in Nat : k = x - a /\ j = b - a /\ k <= j
    BY <1>1
  <2>3. k * u <= j * u /\ k * u = u * k /\ j * u = u * j
    BY <2>2, MultiplyMonotone, Products
  <2> QED BY <1>4, <2>1, <2>2, <2>3
<1>6. Rounds(CodeOf(n), d, t)
  <2>1. CodeOf(n) = (2 * d + t) \div (2 * t)
    BY <1>1, <1>2, <1>4 DEF CodeOf, Quantizer!Code
  <2> QED BY <2>1, RoundingIs
<1>7. Quantizer!Bits(a, b, tol) \in Nat /\ tol * Two[Quantizer!Bits(a, b, tol)] >= tol + e
  BY <1>4, WidthEnough
<1>8. PICK w \in Nat : w = Two[Quantizer!Bits(a, b, tol)]
  BY <1>7, TwoIs
<1>9. CodeOf(n) < w
  BY <1>2, <1>5, <1>6, <1>7, <1>8, RoundingFits
<1>10. x - a \in Nat
  BY <1>1
<1> QED BY <1>1, <1>2, <1>4, <1>6, <1>7, <1>8, <1>9, <1>10

-----------------------------------------------------------------------------
(* What rounding and the cut of the cast lose together, in units of u *)
LEMMA CutIs ==
  ASSUME NEW u \in Nat \ {0}, NEW t \in Nat \ {0}, NEW k \in Nat, NEW q, Rounds(q, u * k, t)
  PROVE  /\ (q * t) \div u \in Nat
         /\ t >= u => u * (k - (q * t) \div u) <= t
         /\ 2 * (u * ((q * t) \div u)) <= 2 * (u * k) + t
<1>1. PICK c \in Nat : c = u * k
  BY Products
<1>2. PICK p \in Nat, r \in Nat : p = t * q /\ 2 * c + t = 2 * p + r /\ r < 2 * t
  BY <1>1 DEF Rounds
<1>3. q * t = p
  BY <1>2, Products DEF Rounds
<1>4. PICK x \in Nat, s \in Nat : x = p \div u /\ p = u * x + s /\ s < u
  <2>1. p = u * (p \div u) + (p % u) /\ p % u \in 0 .. u - 1
    <3>1. p \in Int
      OBVIOUS
    <3> QED BY <3>1, Division
  <2>2. p \div u \in Nat
    OBVIOUS
  <2> QED BY <2>1, <2>2
<1>5. PICK w \in Nat : w = u * x
  BY Products
<1>6. u * (k - x) = c - w
  BY <1>1, <1>5
<1>7. 2 * (c - w) + t = 2 * s + r
  <2>1. p = w + s
    BY <1>4, <1>5
  <2> QED BY <1>2, <2>1
<1>8. 2 * w <= 2 * c + t
  BY <1>7
<1>9. ASSUME t >= u PROVE c - w <= t
  <2>1. CASE k <= x + 1
    <3>1. k * u <= (x + 1) * u /\ k * u = c /\ (x + 1) * u = w + u
      <4>1. (x + 1) * u = u * x + u /\ k * u = u * k /\ x + 1 \in Nat
        OBVIOUS
      <4> QED BY <1>1, <1>5, <2>1, <4>1, MultiplyMonotone
    <3> QED BY <1>9, <3>1
  <2>2. CASE ~(k <= x + 1)
    <3>1. x + 2 \in Nat /\ x + 2 <= k
      BY <2>2
    <3>2. (x + 2) * u <= k * u /\ k * u = c
      BY <1>1, <3>1, MultiplyMonotone
    <3>3. (x + 2) * u = w + 2 * u
      <4>1. (x + 2) * u = u * x + 2 * u
        OBVIOUS
      <4> QED BY <1>5, <4>1
    <3> QED BY <1>2, <1>4, <1>7, <3>2, <3>3
  <2> QED BY <2>1, <2>2
<1> QED BY <1>1, <1>3, <1>4, <1>5, <1>6, <1>8, <1>9

(* A restored element of a floating-point type *)
LEMMA FloatKept ==
  ASSUME QuantizerTypeOK, NEW a \in Int, NEW x \in Int, NEW q, a <= x,
         Rounds(q, x - a, tol), type.kind = "float"
  PROVE  2 * 1 * Quantizer!Abs(x - Quantizer!Value(q, a, tol)) <= tol
<1>1. PICK t \in Nat \ {0} : t = tol
  BY QuantizerConstants
<1>2. PICK k \in Nat : k = x - a
  OBVIOUS
<1>3. PICK p \in Nat, r \in Nat : p = t * q /\ 2 * k + t = 2 * p + r /\ r < 2 * t
  BY <1>1, <1>2 DEF Rounds
<1>4. q * t = p
  BY <1>3, Products DEF Rounds
<1>5. Quantizer!Value(q, a, t) = a + p
  BY <1>4 DEF Quantizer!Value, Quantizer!Kind
<1>6. PICK e \in Int : e = x - (a + p) /\ 2 * e + t = r
  <2>1. x - (a + p) \in Int /\ 2 * (x - (a + p)) + t = r
    BY <1>2, <1>3
  <2> QED BY <2>1
<1>7. 2 * Quantizer!Abs(e) <= t
  BY <1>3, <1>6 DEF Quantizer!Abs
<1>8. Quantizer!Abs(e) \in Int
  BY DEF Quantizer!Abs
<1> QED BY <1>1, <1>5, <1>6, <1>7, <1>8

(* A restored element of an integer type *)
LEMMA IntegerKept ==
  ASSUME QuantizerTypeOK, NEW a \in type.values, NEW b \in type.values, NEW x \in Int,
         a <= x, x <= b, NEW q, Rounds(q, Denom * (x - a), tol),
         type.kind # "float", tol >= Denom,
         NEW w \in Nat \ {0}, w = Two[type.bits - 1],
         type.kind = "wide" => b - a < w,
         2 * Denom * (b - w + 1) + tol <= 0
  PROVE  1 * Denom * Quantizer!Abs(x - Quantizer!Value(q, a, tol)) <= tol
<1>1. PICK t \in Nat \ {0}, u \in Nat \ {0} : t = tol /\ u = Denom
  BY QuantizerConstants
<1>2. PICK k \in Nat : k = x - a
  BY QuantizerConstants
<1>3. a \in -w .. w - 1 /\ b \in -w .. w - 1
  BY QuantizerConstants
<1>4. a \in Int /\ b \in Int /\ -w <= a /\ a < w
  BY <1>3
<1>5. PICK y \in Nat : y = (w - 1) - b
  BY <1>3
<1>6. PICK c \in Nat : /\ c = (q * t) \div u
                       /\ u * (k - c) <= t
                       /\ 2 * (u * c) <= 2 * (u * k) + t
  <2>1. Rounds(q, u * k, t)
    BY <1>1, <1>2
  <2> QED BY <1>1, <2>1, CutIs
<1>7. PICK f \in Nat, g \in Nat, h \in Nat : f = u * c /\ g = u * k /\ h = u * y
  BY Products
<1>8. t <= 2 * h
  <2>1. b - w + 1 = -y
    BY <1>5, <1>4
  <2>2. 2 * u * (-y) = -(2 * h)
    BY <1>7
  <2> QED BY <1>1, <2>1, <2>2
<1>9. c <= k + y
  <2>1. f <= g + h
    BY <1>6, <1>7, <1>8
  <2>2. (k + y) * u = g + h /\ c * u = f /\ k + y \in Nat
    BY <1>7
  <2> QED BY <2>1, <2>2, MultiplyCancel
<1>10. a + c < w /\ -w <= a + c
  BY <1>2, <1>5, <1>4, <1>9
<1>11. ASSUME NEW e \in Int, u * e <= t, u * (-e) <= t
       PROVE  1 * Denom * Quantizer!Abs(e) <= tol
  <2>1. CASE e < 0
    <3>1. Quantizer!Abs(e) = -e
      BY <2>1 DEF Quantizer!Abs
    <3> QED BY <1>1, <1>11, <3>1
  <2>2. CASE ~(e < 0)
    <3>1. Quantizer!Abs(e) = e
      BY <2>2 DEF Quantizer!Abs
    <3> QED BY <1>1, <1>11, <3>1
  <2> QED BY <2>1, <2>2
<1>12. u * (k - c) <= t /\ u * (c - k) <= t
  <2>1. u * (c - k) = f - g
    BY <1>7
  <2>2. f - g <= t
    BY <1>6, <1>7
  <2> QED BY <1>6, <2>1, <2>2
<1>13. Quantizer!Value(q, a, t) = Quantizer!Wrap(a + Quantizer!Cast(c))
  BY <1>1, <1>6 DEF Quantizer!Value, Quantizer!Kind
<1>14. Quantizer!Half = w
  BY QuantizerConstants DEF Quantizer!Half
<1>15. CASE ~(type.kind = "wide" /\ c >= w)
  <2>1. Quantizer!Cast(c) = c
    BY <1>14, <1>15 DEF Quantizer!Cast, Quantizer!Kind
  <2>2. PICK n \in Int : n = a + c
    BY <1>4
  <2>3. Quantizer!Wrap(n) = n
    BY <1>10, <2>2, WrapIs
  <2>4. x - Quantizer!Value(q, a, t) = k - c
    BY <1>2, <1>4, <1>13, <2>1, <2>2, <2>3
  <2>5. PICK e \in Int : e = k - c /\ -e = c - k
    OBVIOUS
  <2> QED BY <1>1, <1>11, <1>12, <2>4, <2>5
<1>16. CASE type.kind = "wide" /\ c >= w
  <2>1. Quantizer!Cast(c) = -w
    BY <1>14, <1>16 DEF Quantizer!Cast, Quantizer!Kind
  <2>2. PICK n \in Int : n = a + (-w) /\ -(2 * w) <= n /\ n < -w
    <3>1. c >= w
      BY <1>16
    <3>2. a < 0
      BY <1>4, <1>10, <3>1
    <3>3. PICK n \in Int : n = a + (-w)
      BY <1>4
    <3> QED BY <1>4, <3>2, <3>3
  <2>3. Quantizer!Wrap(n) = n + 2 * w
    BY <2>2, WrapIs
  <2>4. x - Quantizer!Value(q, a, t) = k - w
    BY <1>2, <1>4, <1>13, <2>1, <2>2, <2>3
  <2>5. k < w
    BY <1>2, <1>4, <1>16
  <2>6. PICK e \in Int : e = k - w /\ -e = w - k
    OBVIOUS
  <2>7. PICK i \in Nat, j \in Nat : i = w - k /\ j = c - k /\ i <= j
    BY <1>16, <2>5
  <2>8. u * i <= u * j
    <3>1. i * u <= j * u /\ i * u = u * i /\ j * u = u * j
      BY <2>7, MultiplyMonotone, Products
    <3> QED BY <3>1
  <2>9. u * (-e) <= t
    <3>1. u * i \in Nat /\ u * j \in Nat
      BY Products
    <3> QED BY <1>12, <2>6, <2>7, <2>8, <3>1
  <2>10. u * e <= t
    <3>1. u * e = -(u * i) /\ u * i \in Nat
      <4>1. e = -i
        BY <2>6, <2>7
      <4> QED BY <4>1, Products
    <3> QED BY <3>1
  <2> QED BY <1>1, <1>11, <2>4, <2>6, <2>9, <2>10
<1> QED BY <1>15, <1>16

(* A restored element is within the tolerance. *)
LEMMA ElementKept ==
  ASSUME QuantizerTypeOK, source \in Quantizer!Data, ~Quantizer!Unsafe,
         NEW n \in Quantizer!Index
  PROVE  (IF Quantizer!Kind = "float" THEN 2 ELSE 1) * Quantizer!Scale
           * Quantizer!Abs(source[n] -
                 Quantizer!Value(CodeOf(n), Quantizer!Minimum(source), tol)) <= tol
<1>1. PICK a, b, x : a = Quantizer!Minimum(source) /\ b = Quantizer!Maximum(source)
                     /\ x = source[n]
  OBVIOUS
<1>2. /\ a \in type.values /\ b \in type.values /\ a \in Int /\ b \in Int /\ x \in Int
      /\ a <= x /\ x <= b
  BY <1>1, MinimumIs, QuantizerConstants
<1>3. Rounds(CodeOf(n), Unit * (x - a), tol)
  BY <1>1, CodeOfIs
<1>4. CASE type.kind = "float"
  <2>1. Unit * (x - a) = x - a
    BY <1>2, <1>4 DEF Unit
  <2>2. 2 * 1 * Quantizer!Abs(x - Quantizer!Value(CodeOf(n), a, tol)) <= tol
    BY <1>2, <1>3, <1>4, <2>1, FloatKept
  <2> QED BY <1>1, <1>4, <2>2 DEF Quantizer!Kind, Quantizer!Scale
<1>5. CASE type.kind # "float"
  <2>1. PICK w \in Nat \ {0} : w = Two[type.bits - 1] /\ Quantizer!Half = w
    <3>1. type.bits - 1 \in Nat
      BY QuantizerConstants
    <3> QED BY <3>1, TwoIs, QuantizerConstants DEF Quantizer!Half
  <2>2. /\ tol >= Denom
        /\ type.kind = "wide" => b - a < w
        /\ 2 * Denom * (b - w + 1) + tol <= 0
    <3>1. /\ ~(tol < Denom) /\ ~(b - a >= w /\ type.kind = "wide")
          /\ ~(2 * Denom * (b - w + 1) + tol > 0)
      BY <1>1, <1>5, <2>1 DEF Quantizer!Unsafe, Quantizer!Kind
    <3>2. tol \in Nat /\ Denom \in Nat
      BY QuantizerConstants
    <3>3. PICK m \in Int : m = 2 * Denom * (b - w + 1)
      BY <1>2, <3>2
    <3>4. m + tol <= 0
      BY <3>1, <3>2, <3>3
    <3> QED BY <1>2, <3>1, <3>2, <3>3, <3>4
  <2>3. Rounds(CodeOf(n), Denom * (x - a), tol)
    BY <1>3, <1>5 DEF Unit
  <2>4. 1 * Denom * Quantizer!Abs(x - Quantizer!Value(CodeOf(n), a, tol)) <= tol
    BY <1>2, <1>5, <2>1, <2>2, <2>3, IntegerKept
  <2> QED BY <1>1, <1>5, <2>4 DEF Quantizer!Kind, Quantizer!Scale
<1> QED BY <1>4, <1>5

-----------------------------------------------------------------------------
(* What depends on the type, the tolerance and the array only *)
LEMMA SameQuantizer ==
  ASSUME type' = type, tol' = tol
  PROVE  /\ Quantizer!Data' = Quantizer!Data
         /\ \A q, a, t : Quantizer!Value(q, a, t)' = Quantizer!Value(q, a, t)
         /\ \A v, a, t : Quantizer!Code(v, a, t)' = Quantizer!Code(v, a, t)
         /\ \A a, b, t : Quantizer!Bits(a, b, t)' = Quantizer!Bits(a, b, t)
BY DEF Quantizer!Data, Quantizer!Value, Quantizer!Code, Quantizer!Bits, Quantizer!Difference,
       Quantizer!Wrap, Quantizer!Cast, Quantizer!Kind, Quantizer!Half

(* And of an array that has come *)
LEMMA SameArray ==
  ASSUME type' = type, tol' = tol, NEW d, source' = d
  PROVE  /\ \A n : CodeOf(n)' = Quantizer!Code(d[n], Quantizer!Minimum(d), tol)
         /\ Quantizer!Minimum(source)' = Quantizer!Minimum(d)
         /\ Quantizer!Bits(Quantizer!Minimum(source), Quantizer!Maximum(source), tol)'
              = Quantizer!Bits(Quantizer!Minimum(d), Quantizer!Maximum(d), tol)
BY DEF CodeOf, Quantizer!Code, Quantizer!Bits, Quantizer!Difference, Quantizer!Wrap,
       Quantizer!Kind, Quantizer!Half, Quantizer!Minimum, Quantizer!Maximum

(* What stays as long as the array and what is stored stay *)
LEMMA SameStored ==
  ASSUME type' = type, tol' = tol, source' = source, stored' = stored
  PROVE  /\ \A n : CodeOf(n)' = CodeOf(n) /\ RestoredOf(n)' = RestoredOf(n)
         /\ Quantizer!Minimum(source)' = Quantizer!Minimum(source)
         /\ Quantizer!Bits(Quantizer!Minimum(source), Quantizer!Maximum(source), tol)'
              = Quantizer!Bits(Quantizer!Minimum(source), Quantizer!Maximum(source), tol)
BY DEF CodeOf, RestoredOf, Quantizer!Code, Quantizer!Bits, Quantizer!Difference, Quantizer!Wrap,
       Quantizer!Kind, Quantizer!Half, Quantizer!Minimum, Quantizer!Maximum, Quantizer!Value,
       Quantizer!Cast

(* Nothing has been quantized. *)
LEMMA QuantizerInit == Quantizer!Init => QuantizerInv
BY DEF Quantizer!Init, QuantizerInv, QuantizerTypeOK

(* An array is quantized and packed. *)
LEMMA QuantizerCompress ==
  ASSUME QuantizerInv, NEW who \in {"abstol", "allquant"}, Quantizer!Compress(who)
  PROVE  QuantizerInv'
<1> DEFINE low(d) == Quantizer!Minimum(d)
           width(d) == Quantizer!Bits(low(d), Quantizer!Maximum(d), tol)
<1>1. /\ type' = type /\ tol' = tol
      /\ \/ coding' = "failed"
         \/ /\ coding' = "stored" /\ algo' = who /\ source' \in Quantizer!Data
            /\ stored' = [Quantizer!Header(low(source'), width(source')) EXCEPT
                   !.codes = Quantizer!Packed(Quantizer!Codes(source', low(source')),
                                              width(source'))]
  BY DEF Quantizer!Compress, Quantizer!Fail
<1>2. QuantizerTypeOK'
  BY <1>1 DEF QuantizerInv, QuantizerTypeOK
<1>3. CASE coding' = "failed"
  BY <1>2, <1>3 DEF QuantizerInv
<1>4. CASE coding' # "failed"
  <2>1. PICK d \in Quantizer!Data : d = source'
    BY <1>1, <1>4
  <2>2. /\ coding' = "stored" /\ algo' = who
        /\ stored' = [min |-> low(d), tol |-> tol, bits |-> width(d),
                      codes |-> Quantizer!Packed(Quantizer!Codes(d, low(d)), width(d))]
    BY <1>1, <1>4, <2>1 DEF Quantizer!Header
  <2>3. Quantizer!Two = Two
    BY QuantizerConstants DEF QuantizerInv
  <2>4. \A n \in Quantizer!Index :
           stored'.codes[n] = Quantizer!Code(d[n], low(d), tol) % Two[width(d)]
    BY <2>2, <2>3 DEF Quantizer!Packed, Quantizer!Codes
  <2>5. /\ Quantizer!Minimum(source)' = low(d)
        /\ Quantizer!Bits(Quantizer!Minimum(source), Quantizer!Maximum(source), tol)' = width(d)
        /\ \A n : CodeOf(n)' = Quantizer!Code(d[n], low(d), tol)
    BY <1>1, <2>1, SameArray
  <2>6. stored'.min = low(d) /\ stored'.tol = tol /\ stored'.bits = width(d)
    BY <2>2
  <2>7. source' \in Quantizer!Data'
    BY <1>1, <2>1, SameQuantizer
  <2> HIDE DEF low, width
  <2> QED BY <1>1, <1>2, <2>2, <2>4, <2>5, <2>6, <2>7 DEF QuantizerInv
<1> QED BY <1>3, <1>4

(* An array is quantized and its codes are left as they are. *)
LEMMA QuantizerQuantize ==
  ASSUME QuantizerInv, Quantizer!Quantize PROVE QuantizerInv'
<1> DEFINE low(d) == Quantizer!Minimum(d)
           width(d) == Quantizer!Bits(low(d), Quantizer!Maximum(d), tol) % 256
<1>1. /\ type' = type /\ tol' = tol /\ type.kind = "float"
      /\ \/ coding' = "failed"
         \/ /\ coding' = "stored" /\ algo' = "quantize" /\ source' \in Quantizer!Data
            /\ stored' = [Quantizer!Header(low(source'), width(source')) EXCEPT
                   !.codes = Quantizer!Codes(source', low(source'))]
  BY DEF Quantizer!Quantize, Quantizer!Fail, Quantizer!Kind
<1>2. QuantizerTypeOK'
  BY <1>1 DEF QuantizerInv, QuantizerTypeOK
<1>3. CASE coding' = "failed"
  BY <1>2, <1>3 DEF QuantizerInv
<1>4. CASE coding' # "failed"
  <2>1. PICK d \in Quantizer!Data : d = source'
    BY <1>1, <1>4
  <2>2. /\ coding' = "stored" /\ algo' = "quantize"
        /\ stored' = [min |-> low(d), tol |-> tol, bits |-> width(d),
                      codes |-> Quantizer!Codes(d, low(d))]
    BY <1>1, <1>4, <2>1 DEF Quantizer!Header
  <2>3. \A n \in Quantizer!Index : stored'.codes[n] = Quantizer!Code(d[n], low(d), tol)
    BY <2>2 DEF Quantizer!Codes
  <2>4. /\ Quantizer!Minimum(source)' = low(d)
        /\ \A n : CodeOf(n)' = Quantizer!Code(d[n], low(d), tol)
    BY <1>1, <2>1, SameArray
  <2>5. stored'.min = low(d) /\ stored'.tol = tol
    BY <2>2
  <2>6. source' \in Quantizer!Data'
    BY <1>1, <2>1, SameQuantizer
  <2> HIDE DEF low, width
  <2> QED BY <1>1, <1>2, <2>2, <2>3, <2>4, <2>5, <2>6 DEF QuantizerInv
<1> QED BY <1>3, <1>4

(* Integers are packed with the width of somebody else. *)
LEMMA QuantizerSwage ==
  ASSUME QuantizerInv, Quantizer!Swage PROVE QuantizerInv'
<1>1. /\ type' = type /\ tol' = tol /\ coding' = "stored" /\ algo' = "swage"
      /\ source' \in Quantizer!Data
  BY DEF Quantizer!Swage
<1>2. QuantizerTypeOK'
  BY <1>1 DEF QuantizerInv, QuantizerTypeOK
<1>3. source' \in Quantizer!Data'
  BY <1>1, SameQuantizer
<1> QED BY <1>1, <1>2, <1>3 DEF QuantizerInv

(* Integers are unpacked to nothing. *)
LEMMA QuantizerUnswage ==
  ASSUME QuantizerInv, Quantizer!Unswage PROVE QuantizerInv'
<1>1. /\ type' = type /\ tol' = tol /\ coding = "stored" /\ algo = "swage" /\ algo' = algo
      /\ source' = source /\ coding' = "restored"
  BY DEF Quantizer!Unswage
<1>2. QuantizerTypeOK'
  BY <1>1 DEF QuantizerInv, QuantizerTypeOK
<1>3. source' \in Quantizer!Data'
  BY <1>1, SameQuantizer DEF QuantizerInv
<1> QED BY <1>1, <1>2, <1>3 DEF QuantizerInv

(* The elements are computed from the codes. *)
LEMMA QuantizerDecompress ==
  ASSUME QuantizerInv, NEW who \in {"abstol", "allquant", "quantize"}, Quantizer!Decompress(who)
  PROVE  QuantizerInv'
<1>1. /\ type' = type /\ tol' = tol /\ coding = "stored" /\ coding' = "restored"
      /\ algo' = algo /\ source' = source /\ stored' = stored
      /\ restored' = Quantizer!Restored
  BY DEF Quantizer!Decompress
<1>2. QuantizerTypeOK'
  BY <1>1 DEF QuantizerInv, QuantizerTypeOK
<1>3. source' \in Quantizer!Data'
  BY <1>1, SameQuantizer DEF QuantizerInv
<1>4. \A n \in Quantizer!Index : restored'[n] = RestoredOf(n)
  BY <1>1 DEF Quantizer!Restored, RestoredOf
<1> QED BY <1>1, <1>2, <1>3, <1>4, SameStored DEF QuantizerInv

(* Nothing is left of the arrays. *)
LEMMA QuantizerRelease ==
  ASSUME QuantizerInv, Quantizer!Release PROVE QuantizerInv'
BY DEF Quantizer!Release, QuantizerInv, QuantizerTypeOK

(* The quantizer rests. *)
LEMMA QuantizerStutter ==
  ASSUME QuantizerInv, UNCHANGED quantizerVars PROVE QuantizerInv'
<1>1. /\ type' = type /\ tol' = tol /\ coding' = coding /\ algo' = algo /\ source' = source
      /\ stored' = stored /\ restored' = restored
  BY DEF quantizerVars
<1>2. QuantizerTypeOK'
  BY <1>1 DEF QuantizerInv, QuantizerTypeOK
<1> QED BY <1>1, <1>2, SameStored, SameQuantizer DEF QuantizerInv

(* The invariant of the quantizer is inductive. *)
LEMMA QuantizerStep ==
  ASSUME QuantizerInv, [Next]_vars PROVE QuantizerInv'
<1>1. CASE walk = "quantize" /\ Quantizer!Next
  <2>1. Quantizer!CompressAbstol \/ Quantizer!CompressAllquant => QuantizerInv'
    BY QuantizerCompress DEF Quantizer!CompressAbstol, Quantizer!CompressAllquant
  <2>2. Quantizer!DecompressAbstol \/ Quantizer!DecompressAllquant \/ Quantizer!Unquantize
          => QuantizerInv'
    BY QuantizerDecompress
    DEF Quantizer!DecompressAbstol, Quantizer!DecompressAllquant, Quantizer!Unquantize
  <2> QED BY <1>1, <2>1, <2>2, QuantizerQuantize, QuantizerSwage, QuantizerUnswage,
             QuantizerRelease DEF Quantizer!Next
<1>2. CASE UNCHANGED quantizerVars
  BY <1>2, QuantizerStutter
<1> QED BY <1>1, <1>2 DEF Next, vars, codecVars

(* Where the tolerance can be kept, it is, and no code is cut. *)
LEMMA QuantizerClose == QuantizerInv => QuantizedIsClose
<1> SUFFICES ASSUME QuantizerInv PROVE QuantizedIsClose
  OBVIOUS
<1>0. QuantizerTypeOK
  BY DEF QuantizerInv
<1>1. ASSUME coding \in {"stored", "restored"}, algo # "swage", ~Quantizer!Unsafe,
             NEW n \in Quantizer!Index
      PROVE  /\ stored.codes[n] = CodeOf(n)
             /\ algo # "quantize" =>
                  Quantizer!Code(source[n], stored.min, tol) < Two[stored.bits]
  <2>1. source \in Quantizer!Data /\ stored.min = Quantizer!Minimum(source)
    BY <1>1 DEF QuantizerInv
  <2>2. CASE algo = "quantize"
    BY <1>1, <2>2 DEF QuantizerInv
  <2>3. CASE algo # "quantize"
    <3>1. /\ stored.bits = Quantizer!Bits(Quantizer!Minimum(source), Quantizer!Maximum(source), tol)
          /\ stored.codes[n] = CodeOf(n) % Two[stored.bits]
      BY <1>1, <2>3 DEF QuantizerInv
    <3>2. stored.bits \in Nat /\ CodeOf(n) < Two[stored.bits] /\ CodeOf(n) \in Nat
      BY <1>0, <1>1, <2>1, <3>1, CodeOfIs DEF Rounds
    <3>3. PICK w \in Nat \ {0}, c \in Nat : w = Two[stored.bits] /\ c = CodeOf(n) /\ c < w
      BY <3>2, TwoIs
    <3>4. c % w = c
      <4>1. PICK q \in Int : c = w * q + c
        <5>1. \A q \in {0} : q \in Int /\ c = w * q + c
          OBVIOUS
        <5> QED BY <5>1
      <4>2. c \in Int /\ 0 <= c
        OBVIOUS
      <4> QED BY <3>3, <4>1, <4>2, Division2
    <3> QED BY <2>1, <3>1, <3>2, <3>3, <3>4 DEF CodeOf
  <2> QED BY <2>2, <2>3
<1>2. Quantizer!CodesFit
  <2>1. Quantizer!Two = Two
    BY <1>0, QuantizerConstants
  <2> QED BY <1>1, <2>1 DEF Quantizer!CodesFit
<1>3. Quantizer!ToleranceKept
  <2> SUFFICES ASSUME coding = "restored", algo # "swage", ~Quantizer!Unsafe,
                      NEW n \in Quantizer!Index
               PROVE  (IF Quantizer!Kind = "float" THEN 2 ELSE 1) * Quantizer!Scale
                        * Quantizer!Abs(source[n] - restored[n]) <= tol
    BY DEF Quantizer!ToleranceKept
  <2>1. /\ source \in Quantizer!Data /\ stored.min = Quantizer!Minimum(source)
        /\ stored.tol = tol /\ restored[n] = RestoredOf(n)
    BY DEF QuantizerInv
  <2>2. restored[n] = Quantizer!Value(CodeOf(n), Quantizer!Minimum(source), tol)
    BY <1>1, <2>1 DEF RestoredOf
  <2> QED BY <1>0, <2>1, <2>2, ElementKept
<1> QED BY <1>2, <1>3 DEF QuantizedIsClose, Quantizer!QuantizedIsClose

(* What scil_abstol, scil_allquant and scil_quantize restore is within the *)
(* absolute tolerance (half of it for floating-point data), for all types, *)
(* tolerances and arrays but the three cases of Unsafe, and the width of   *)
(* the codes is enough for each of them.                                   *)
THEOREM QuantizerKeepsTolerance == Spec => []QuantizedIsClose
<1>1. Init => QuantizerInv
  BY QuantizerInit DEF Init
<1>2. QuantizerInv /\ [Next]_vars => QuantizerInv'
  BY QuantizerStep
<1> QED BY <1>1, <1>2, QuantizerClose, PTL DEF Spec

-----------------------------------------------------------------------------
(* Significant bits (ScilSigbits) *)

-----------------------------------------------------------------------------
(* What significant bits are worth *)
DroppedBits == format.mantissa - (bits - 1)

NumberArray == [Sigbits!Index -> Sigbits!Numbers]

(* Behind the bits that are kept there are none. *)
IsCut(a) == \A n \in Sigbits!Index : a[n].mantissa % Two[DroppedBits] = 0

(* A number without the bits that are not kept *)
Kept(v) == [v EXCEPT !.mantissa = (@ \div Two[DroppedBits]) * Two[DroppedBits]]

SigbitsTypeOK ==
    /\ packing \in {"idle", "stored", "restored", "failed"}
    /\ format \in Formats
    /\ bits \in {-1, 0} \cup 1 .. format.mantissa
    /\ numbers \in NumberArray
    /\ trip \in (IF packing = "idle" THEN {0, 1} ELSE {1, 2})

(* What a header says of the fields of a number *)
HeaderFits(h, v) ==
    /\ h.signs \in 0 .. 2 /\ h.exponentBits \in Nat /\ h.minimum \in Nat
    /\ h.mantissaBits = bits - 1
    /\ h.minimum <= v.exponent /\ v.exponent - h.minimum < Two[h.exponentBits]
    /\ h.signs # 2 => h.signs = v.sign

(* What is stored was made of the numbers, and what comes back is theirs;  *)
(* at the second trip there is nothing left to cut.                        *)
SigbitsInv ==
    /\ SigbitsTypeOK
    /\ packing = "idle" /\ trip = 1 /\ bits # -1 => IsCut(numbers)
    /\ packing \in {"stored", "restored"} =>
          /\ bits # 0
          /\ bits # -1 => \A n \in Sigbits!Index : HeaderFits(header, numbers[n])
          /\ trip = 2 /\ bits # -1 => IsCut(numbers)
    /\ packing = "stored" /\ bits # -1 =>
          \A n \in Sigbits!Index : codes[n] = Sigbits!CompressValue(numbers[n], header)
    /\ packing = "restored" =>
          /\ back \in NumberArray
          /\ bits # -1 => IsCut(back)
          /\ bits # -1 /\ Sigbits!MaskCovers(header) =>
                \A n \in Sigbits!Index : back[n] = Kept(numbers[n])

(* What sigbits is given *)
LEMMA SigbitsConstants ==
  ASSUME NEW f \in Formats
  PROVE  /\ f \in [mantissa : Nat \ {0}, exponent : Nat \ {0}]
         /\ 0 \in Sigbits!Index /\ Sigbits!Index \subseteq Nat
         /\ Elements \in Nat \ {0}
         /\ Sigbits!Two = Two
BY ArraysAssumption
   DEF ArraysAssumption, Sigbits!SigbitsAssumption, Sigbits!Index, Sigbits!Two, Two

(* The lengths that the bits of a hint leave *)
LEMMA LengthsAre ==
  ASSUME SigbitsTypeOK, bits # -1, bits # 0
  PROVE  /\ bits - 1 \in Nat /\ DroppedBits \in Nat /\ format.mantissa \in Nat \ {0}
         /\ format.exponent \in Nat \ {0}
         /\ Two[bits - 1] \in Nat \ {0} /\ Two[DroppedBits] \in Nat \ {0}
         /\ Two[format.mantissa] = Two[bits - 1] * Two[DroppedBits]
         /\ Two[format.exponent] \in Nat \ {0}
<1>1. format.mantissa \in Nat \ {0} /\ format.exponent \in Nat \ {0}
  BY SigbitsConstants DEF SigbitsTypeOK
<1>2. bits - 1 \in Nat /\ DroppedBits \in Nat /\ format.mantissa = (bits - 1) + DroppedBits
  BY <1>1 DEF SigbitsTypeOK, DroppedBits
<1>3. Two[format.mantissa] = Two[bits - 1] * Two[DroppedBits]
  BY <1>2, PowerOfSum
<1> QED BY <1>1, <1>2, <1>3, TwoIs

(* The fields of a number *)
LEMMA FieldsAre ==
  ASSUME SigbitsTypeOK, NEW v \in Sigbits!Numbers
  PROVE  /\ v = [sign |-> v.sign, exponent |-> v.exponent, mantissa |-> v.mantissa]
         /\ v.sign \in 0 .. 1
         /\ v.exponent \in Nat /\ v.exponent < Two[format.exponent]
         /\ v.mantissa \in Nat /\ v.mantissa < Two[format.mantissa]
         /\ Two[format.exponent] \in Nat \ {0} /\ Two[format.mantissa] \in Nat \ {0}
<1>1. Two[format.exponent] \in Nat \ {0} /\ Two[format.mantissa] \in Nat \ {0}
  BY SigbitsConstants, TwoIs DEF SigbitsTypeOK
<1>2. Sigbits!Two = Two
  BY SigbitsConstants DEF SigbitsTypeOK
<1> QED
  BY <1>1, <1>2 DEF Sigbits!Numbers, Sigbits!ExponentLength, Sigbits!MantissaLength

(* The smallest and the largest exponent of an array *)
LEMMA ExponentsAre ==
  ASSUME SigbitsTypeOK, NEW a \in NumberArray
  PROVE  /\ Sigbits!MinExponent(a) \in 0 .. Two[format.exponent] - 1
         /\ Sigbits!MaxExponent(a) \in 0 .. Two[format.exponent] - 1
         /\ \A n \in Sigbits!Index : /\ Sigbits!MinExponent(a) <= a[n].exponent
                                     /\ a[n].exponent <= Sigbits!MaxExponent(a)
<1> DEFINE T == {a[n].exponent : n \in Sigbits!Index}
<1>1. PICK w \in Nat \ {0} : w = Two[format.exponent]
  BY SigbitsConstants, TwoIs DEF SigbitsTypeOK
<1>2. \A n \in Sigbits!Index : a[n].exponent \in 0 .. w - 1
  <2> SUFFICES ASSUME NEW n \in Sigbits!Index PROVE a[n].exponent \in 0 .. w - 1
    OBVIOUS
  <2>1. a[n] \in Sigbits!Numbers
    BY DEF NumberArray
  <2> QED BY <1>1, <2>1, FieldsAre
<1>3. /\ \E k \in Sigbits!Index : \A n \in Sigbits!Index : a[k].exponent <= a[n].exponent
      /\ \E k \in Sigbits!Index : \A n \in Sigbits!Index : a[n].exponent <= a[k].exponent
  <2> DEFINE f == [n \in Sigbits!Index |-> a[n].exponent]
  <2>1. f \in [0 .. Elements - 1 -> Int] /\ Elements \in Nat \ {0}
    BY <1>2, SigbitsConstants DEF SigbitsTypeOK, Sigbits!Index
  <2>2. /\ \E k \in 0 .. Elements - 1 : \A n \in 0 .. Elements - 1 : f[k] <= f[n]
        /\ \E k \in 0 .. Elements - 1 : \A n \in 0 .. Elements - 1 : f[n] <= f[k]
    <3> HIDE DEF f
    <3> QED BY <2>1, Extremes
  <2> QED BY <2>2 DEF Sigbits!Index
<1>4. \A m, n \in Sigbits!Index : a[m].exponent <= a[n].exponent <=> a[n].exponent >= a[m].exponent
  BY <1>2
<1>5. /\ Sigbits!MinExponent(a) \in T
      /\ \A n \in Sigbits!Index : Sigbits!MinExponent(a) <= a[n].exponent
  <2>1. \E e \in T : \A n \in Sigbits!Index : e <= a[n].exponent
    BY <1>3
  <2> QED BY <2>1 DEF Sigbits!MinExponent
<1>6. /\ Sigbits!MaxExponent(a) \in T
      /\ \A n \in Sigbits!Index : Sigbits!MaxExponent(a) >= a[n].exponent
  <2>1. \E e \in T : \A n \in Sigbits!Index : e >= a[n].exponent
    BY <1>3, <1>4
  <2> QED BY <2>1 DEF Sigbits!MaxExponent
<1>7. \A n \in Sigbits!Index : a[n].exponent <= Sigbits!MaxExponent(a)
  <2>1. PICK k \in Sigbits!Index : Sigbits!MaxExponent(a) = a[k].exponent
    BY <1>6
  <2> QED BY <1>4, <1>6, <2>1
<1>8. Sigbits!MinExponent(a) \in 0 .. w - 1 /\ Sigbits!MaxExponent(a) \in 0 .. w - 1
  BY <1>2, <1>5, <1>6
<1> QED BY <1>1, <1>5, <1>7, <1>8

(* The exponent bits hold every exponent of the range. *)
LEMMA ExponentBitsAre ==
  ASSUME SigbitsTypeOK, NEW min \in Nat, NEW max \in Nat, min <= max,
         max < Two[format.exponent]
  PROVE  /\ Sigbits!ExponentBits(min, max) \in Nat
         /\ max - min < Two[Sigbits!ExponentBits(min, max)]
<1>0. format.exponent \in Nat
  BY SigbitsConstants DEF SigbitsTypeOK
<1>1. \A n \in Nat : Two[n] \in Nat
  BY TwoIs
<1> DEFINE T == {b \in 0 .. format.exponent : Two[b] >= max - min + 1}
<1>2. T \in SUBSET Nat /\ format.exponent \in T
  <2>1. Two[format.exponent] \in Nat
    BY <1>0, <1>1
  <2>2. Two[format.exponent] >= max - min + 1
    BY <2>1
  <2> QED BY <1>0, <2>2
<1>3. PICK b \in T : \A m \in T : b <= m
  <2> HIDE DEF T
  <2> QED BY <1>2, Least
<1>4. \A c \in 0 .. b - 1 : Two[c] < max - min + 1
  <2> SUFFICES ASSUME NEW c \in 0 .. b - 1 PROVE Two[c] < max - min + 1
    OBVIOUS
  <2>1. c \in 0 .. format.exponent /\ c < b /\ c \in Nat
    BY <1>0
  <2>2. c \notin T
    BY <1>3, <2>1
  <2>3. ~(Two[c] >= max - min + 1)
    BY <2>1, <2>2
  <2>4. Two[c] \in Nat
    BY <1>1, <2>1
  <2> QED BY <2>3, <2>4
<1>5. /\ b \in 0 .. format.exponent /\ Two[b] >= max - min + 1
      /\ \A c \in 0 .. b - 1 : Two[c] < max - min + 1
  BY <1>4
<1>6. /\ Sigbits!ExponentBits(min, max) \in 0 .. format.exponent
      /\ Two[Sigbits!ExponentBits(min, max)] >= max - min + 1
  <2>1. Sigbits!Two = Two
    BY SigbitsConstants DEF SigbitsTypeOK
  <2> QED BY <1>5, <2>1 DEF Sigbits!ExponentBits, Sigbits!ExponentLength
<1>7. PICK k \in Nat : k = Sigbits!ExponentBits(min, max) /\ Two[k] >= max - min + 1
  BY <1>0, <1>6
<1> QED BY <1>1, <1>7

(* The fields of a code *)
IsCode(c, s, e, m, x, y) == c = (s * x + e) * y + m

Decodes(c, s, e, m, x, y) ==
    /\ c \in Nat /\ c < 2 * (x * y) /\ (s = 0 => c < x * y)
    /\ c \div y = s * x + e /\ c % y = m
    /\ (s * x + e) % x = e /\ c \div (x * y) = s

(* The fields of a code can be taken apart. *)
LEMMA Assembled ==
  ASSUME NEW x \in Nat \ {0}, NEW y \in Nat \ {0}, NEW s \in 0 .. 1,
         NEW e \in 0 .. x - 1, NEW m \in 0 .. y - 1, NEW c,
         IsCode(c, s, e, m, x, y)
  PROVE  Decodes(c, s, e, m, x, y)
<1>0. c = (s * x + e) * y + m
  BY DEF IsCode
<1>1. PICK p \in Nat : p = x * y
  BY Products
<1>2. PICK r \in Nat : r = e * y /\ r <= p - y
  <2>1. e <= x - 1 /\ e \in Nat /\ x - 1 \in Nat /\ y \in Nat
    OBVIOUS
  <2>2. e * y <= (x - 1) * y /\ e * y \in Nat
    BY <2>1, MultiplyMonotone, Products
  <2>3. (x - 1) * y = x * y - y
    OBVIOUS
  <2> QED BY <1>1, <2>2, <2>3
<1>3. PICK u \in Nat : u = s * x + e /\ u * y = s * p + r
  <2>1. CASE s = 0
    <3>1. s * x + e = e /\ s * p + r = r
      BY <2>1
    <3> QED BY <1>2, <3>1
  <2>2. CASE s = 1
    <3>1. s * x + e = x + e /\ s * p + r = p + r /\ (x + e) * y = x * y + e * y
      BY <2>2
    <3>2. x + e \in Nat
      OBVIOUS
    <3> QED BY <1>1, <1>2, <3>1, <3>2
  <2> QED BY <2>1, <2>2
<1>4. c = s * p + (r + m) /\ c = u * y + m /\ r + m \in 0 .. p - 1
  BY <1>0, <1>1, <1>2, <1>3
<1>5. c \in Nat /\ c < 2 * p /\ (s = 0 => c < p)
  <2>1. CASE s = 0
    BY <1>4, <2>1
  <2>2. CASE s = 1
    BY <1>4, <2>2
  <2> QED BY <2>1, <2>2
<1>6. c \div y = u /\ c % y = m
  <2>1. y * u = u * y
    BY Products
  <2>2. c = y * u + m
    BY <1>4, <2>1
  <2>3. c \in Int /\ u \in Int /\ m \in Int /\ 0 <= m /\ m < y
    BY <1>5
  <2> QED BY <2>2, <2>3, Division2
<1>7. u % x = e
  <2>1. u = x * s + e
    BY <1>3
  <2> QED BY <2>1, Division2
<1>8. c \div p = s
  <2>1. c = p * s + (r + m) /\ p \in Nat \ {0}
    BY <1>4
  <2>2. PICK k \in Int : k = r + m /\ 0 <= k /\ k < p
    BY <1>4
  <2>3. c \in Int /\ s \in Int /\ c = p * s + k
    BY <1>5, <2>1, <2>2
  <2> QED BY <2>1, <2>2, <2>3, Division2
<1> QED BY <1>1, <1>3, <1>5, <1>6, <1>7, <1>8 DEF Decodes

(* The header that is computed fits. *)
LEMMA HeaderIs ==
  ASSUME SigbitsTypeOK, bits # -1, bits # 0, NEW a \in NumberArray, NEW n \in Sigbits!Index
  PROVE  HeaderFits(Sigbits!HeaderOf(a), a[n])
<1> DEFINE min == Sigbits!MinExponent(a)
           max == Sigbits!MaxExponent(a)
           h == Sigbits!HeaderOf(a)
<1>1. 0 \in Sigbits!Index
  BY SigbitsConstants DEF SigbitsTypeOK
<1>2. Two[format.exponent] \in Nat \ {0}
  BY LengthsAre
<1>3. min \in Nat /\ max \in Nat /\ min <= a[n].exponent /\ a[n].exponent <= max
      /\ max < Two[format.exponent]
  BY <1>2, ExponentsAre
<1>4. a[n] \in Sigbits!Numbers /\ a[0] \in Sigbits!Numbers
  BY <1>1 DEF NumberArray
<1>5. a[n].exponent \in Nat /\ a[n].sign \in 0 .. 1 /\ a[0].sign \in 0 .. 1
  BY <1>4, FieldsAre
<1>6. min <= max
  BY <1>3, <1>5
<1>7. /\ Sigbits!ExponentBits(min, max) \in Nat
      /\ max - min < Two[Sigbits!ExponentBits(min, max)]
  <2> HIDE DEF min, max
  <2> QED BY <1>3, <1>6, ExponentBitsAre
<1>8. PICK w \in Nat : w = Two[Sigbits!ExponentBits(min, max)]
  BY <1>7, TwoIs
<1>9. a[n].exponent - min < Two[Sigbits!ExponentBits(min, max)]
  <2> HIDE DEF min, max
  <2> QED BY <1>3, <1>5, <1>7, <1>8
<1>10. /\ Sigbits!SignsId(a) \in 0 .. 2
       /\ Sigbits!SignsId(a) # 2 => Sigbits!SignsId(a) = a[n].sign
  BY <1>5 DEF Sigbits!SignsId
<1>11. /\ h.signs = Sigbits!SignsId(a) /\ h.exponentBits = Sigbits!ExponentBits(min, max)
       /\ h.mantissaBits = bits - 1 /\ h.minimum = min
  BY DEF Sigbits!HeaderOf
<1> HIDE DEF h, min, max
<1>12. HeaderFits(h, a[n])
  BY <1>3, <1>7, <1>9, <1>10, <1>11 DEF HeaderFits
<1> QED BY <1>12 DEF h

(* A number without its last bits *)
LEMMA KeptIs ==
  ASSUME SigbitsTypeOK, bits # -1, bits # 0, NEW v \in Sigbits!Numbers
  PROVE  /\ Kept(v) \in Sigbits!Numbers
         /\ Kept(v) = [sign |-> v.sign, exponent |-> v.exponent,
                       mantissa |-> (v.mantissa \div Two[DroppedBits]) * Two[DroppedBits]]
         /\ Kept(v).mantissa % Two[DroppedBits] = 0
         /\ v.mantissa % Two[DroppedBits] = 0 => Kept(v) = v
         /\ Sigbits!Keeps(v, Kept(v), bits - 1)
         /\ v.mantissa \div Two[DroppedBits] \in 0 .. Two[bits - 1] - 1
<1>1. PICK z \in Nat \ {0} : z = Two[DroppedBits]
  BY LengthsAre
<1>2. PICK y \in Nat \ {0} : y = Two[bits - 1] /\ Two[format.mantissa] = y * z
  BY <1>1, LengthsAre
<1>3. PICK m \in Nat : m = v.mantissa /\ m < y * z
  BY <1>2, FieldsAre
<1>4. PICK q \in Nat : q = m \div z
  <2>1. m \div z \in Nat
    OBVIOUS
  <2> QED BY <2>1
<1>5. PICK r \in 0 .. z - 1 : r = m % z /\ m = z * q + r
  <2>1. m = z * (m \div z) + (m % z) /\ m % z \in 0 .. z - 1
    <3>1. m \in Int
      OBVIOUS
    <3> QED BY <3>1, Division
  <2> QED BY <1>4, <2>1
<1>6. q * z \in Nat /\ q * z = z * q /\ q * z <= m /\ m = q * z + r
  <2>1. z * q \in Nat /\ z * q = q * z
    BY Products
  <2> QED BY <1>5, <2>1
<1>7. q < y
  <2>1. CASE ~(q < y)
    <3>1. y * z <= q * z
      BY <2>1, MultiplyMonotone
    <3>2. y * z \in Nat
      BY Products
    <3> QED BY <1>3, <1>6, <3>1, <3>2
  <2> QED BY <2>1
<1>8. (q * z) % z = 0
  <2>1. q * z = z * q + 0
    BY <1>6
  <2> QED BY <1>6, <2>1, Division2
<1>9. v = [sign |-> v.sign, exponent |-> v.exponent, mantissa |-> m]
  BY <1>3, FieldsAre
<1>10. Kept(v) = [sign |-> v.sign, exponent |-> v.exponent, mantissa |-> q * z]
  BY <1>1, <1>3, <1>4, <1>9 DEF Kept
<1>11. Kept(v) \in Sigbits!Numbers
  <2>1. Sigbits!Two = Two
    BY SigbitsConstants DEF SigbitsTypeOK
  <2>2. q * z \in 0 .. Two[format.mantissa] - 1
    <3>1. y * z \in Nat
      BY Products
    <3> QED BY <1>2, <1>3, <1>6, <3>1
  <2>3. v.sign \in 0 .. 1 /\ v.exponent \in 0 .. Two[format.exponent] - 1
    BY FieldsAre
  <2> QED BY <1>10, <2>1, <2>2, <2>3 DEF Sigbits!Numbers, Sigbits!ExponentLength, Sigbits!MantissaLength
<1>12. m % z = 0 => Kept(v) = v
  <2>1. m % z = 0 => q * z = m
    BY <1>5, <1>6
  <2> QED BY <1>9, <1>10, <2>1
<1>13. Sigbits!Keeps(v, Kept(v), bits - 1)
  <2>1. Sigbits!Two = Two
    BY SigbitsConstants DEF SigbitsTypeOK
  <2>2. Sigbits!MantissaLength = format.mantissa
    BY DEF Sigbits!MantissaLength
  <2>3. PICK t \in Nat : t = v.exponent * Two[format.mantissa]
    <3>1. v.exponent \in Nat /\ Two[format.mantissa] \in Nat
      BY FieldsAre
    <3> QED BY <3>1, Products
  <2>4. Sigbits!Magnitude(v) = t + m /\ Sigbits!Magnitude(Kept(v)) = t + q * z
    BY <1>3, <1>10, <2>1, <2>2, <2>3 DEF Sigbits!Magnitude
  <2>5. Sigbits!Magnitude(v) - Sigbits!Magnitude(Kept(v)) = r
    BY <1>6, <2>4
  <2>6. Two[format.mantissa - (bits - 1)] = z
    BY <1>1 DEF DroppedBits
  <2>7. Kept(v).sign = v.sign
    BY <1>10
  <2> QED BY <1>5, <2>1, <2>2, <2>5, <2>6, <2>7 DEF Sigbits!Keeps
<1> QED BY <1>1, <1>2, <1>3, <1>4, <1>7, <1>8, <1>10, <1>11, <1>12, <1>13

(* The width of a code *)
LEMMA WidthIs ==
  ASSUME SigbitsTypeOK, bits # -1, bits # 0, NEW h,
         h.signs \in 0 .. 2, h.exponentBits \in Nat, h.mantissaBits = bits - 1
  PROVE  /\ Sigbits!BitsPerValue(h) \in Nat
         /\ Two[h.exponentBits] \in Nat \ {0} /\ Two[bits - 1] \in Nat \ {0}
         /\ h.signs # 2 => Two[Sigbits!BitsPerValue(h)] = Two[h.exponentBits] * Two[bits - 1]
         /\ h.signs = 2 =>
              /\ Two[Sigbits!BitsPerValue(h)] = 2 * (Two[h.exponentBits] * Two[bits - 1])
              /\ Two[Sigbits!BitsPerValue(h) - 1] = Two[h.exponentBits] * Two[bits - 1]
<1>1. PICK y \in Nat : y = bits - 1
  BY LengthsAre
<1>2. PICK x \in Nat : x = h.exponentBits
  OBVIOUS
<1>3. Two[x + y] = Two[x] * Two[y] /\ Two[(x + y) + 1] = 2 * Two[x + y]
  <2>1. x + y \in Nat
    OBVIOUS
  <2>2. \A k \in Nat : Two[k + 1] = 2 * Two[k]
    BY TwoIs
  <2>3. Two[x + y] = Two[x] * Two[y]
    BY PowerOfSum
  <2> QED BY <2>1, <2>2, <2>3
<1>4. h.signs # 2 => Sigbits!BitsPerValue(h) = x + y
  BY <1>1, <1>2 DEF Sigbits!BitsPerValue
<1>5. h.signs = 2 => /\ Sigbits!BitsPerValue(h) = (x + y) + 1
                     /\ Sigbits!BitsPerValue(h) - 1 = x + y
  BY <1>1, <1>2 DEF Sigbits!BitsPerValue
<1> QED BY <1>1, <1>2, <1>3, <1>4, <1>5, TwoIs

(* A code holds the fields of its number. *)
LEMMA CodeIs ==
  ASSUME SigbitsTypeOK, bits # -1, bits # 0, NEW v \in Sigbits!Numbers, NEW h,
         HeaderFits(h, v)
  PROVE  /\ Sigbits!CompressValue(v, h) \in 0 .. Two[Sigbits!BitsPerValue(h)] - 1
         /\ Sigbits!MaskCovers(h) => \A beyond \in {0, 1} :
              Sigbits!DecompressValue(Sigbits!CompressValue(v, h), h, beyond) = Kept(v)
<1>0. /\ h.signs \in 0 .. 2 /\ h.exponentBits \in Nat /\ h.minimum \in Nat
      /\ h.mantissaBits = bits - 1
      /\ h.minimum <= v.exponent /\ v.exponent - h.minimum < Two[h.exponentBits]
      /\ h.signs # 2 => h.signs = v.sign
  BY DEF HeaderFits
<1>1. PICK x \in Nat \ {0}, y \in Nat \ {0} :
         x = Two[h.exponentBits] /\ y = Two[bits - 1]
  BY <1>0, WidthIs
<1>2. PICK z \in Nat \ {0} : z = Two[DroppedBits]
  BY LengthsAre
<1>3. /\ Sigbits!Two = Two
      /\ Sigbits!MantissaLength = format.mantissa /\ Sigbits!ExponentLength = format.exponent
  BY SigbitsConstants DEF SigbitsTypeOK, Sigbits!MantissaLength, Sigbits!ExponentLength
<1>4. PICK m \in 0 .. y - 1 : m = v.mantissa \div z
  BY <1>1, <1>2, KeptIs
<1>5. PICK e \in 0 .. x - 1 : e = v.exponent - h.minimum
  <2>1. v.exponent \in Nat
    BY FieldsAre
  <2> QED BY <1>0, <1>1, <2>1
<1>6. PICK s \in 0 .. 1 : s = IF h.signs = 2 THEN v.sign ELSE 0
  BY FieldsAre
<1>7. s * x \in Nat
  BY Products
<1>8. PICK c : c = (s * x + e) * y + m
  OBVIOUS
<1>9. Sigbits!CompressValue(v, h) = c
  <2>1. format.mantissa - h.mantissaBits = DroppedBits
    BY <1>0 DEF DroppedBits
  <2>2. CASE h.signs = 2
    <3>1. v.sign \in 0 .. 1 /\ v.exponent \in Nat /\ v.sign = s
      BY <1>6, <2>2, FieldsAre
    <3>2. Sigbits!CompressValue(v, h) = (v.sign * x + v.exponent - h.minimum) * y + m
      BY <1>0, <1>1, <1>2, <1>3, <1>4, <2>1, <2>2 DEF Sigbits!CompressValue
    <3>3. s * x + v.exponent - h.minimum = s * x + e
      BY <1>0, <1>5, <1>7, <3>1
    <3> QED BY <1>8, <3>1, <3>2, <3>3
  <2>3. CASE h.signs # 2
    <3>1. v.exponent \in Nat /\ s = 0
      BY <1>6, <2>3, FieldsAre
    <3>2. Sigbits!CompressValue(v, h) = (0 + v.exponent - h.minimum) * y + m
      BY <1>0, <1>1, <1>2, <1>3, <1>4, <2>1, <2>3 DEF Sigbits!CompressValue
    <3>3. s * x = 0
      BY <3>1
    <3>4. 0 + v.exponent - h.minimum = s * x + e
      BY <1>0, <1>5, <3>1, <3>3
    <3> QED BY <1>8, <3>2, <3>4
  <2> QED BY <2>2, <2>3
<1>10. /\ c \in Nat /\ c < 2 * (x * y) /\ (s = 0 => c < x * y)
       /\ c \div y = s * x + e /\ c % y = m
       /\ (s * x + e) % x = e /\ c \div (x * y) = s
  <2>1. IsCode(c, s, e, m, x, y)
    BY <1>8 DEF IsCode
  <2>2. Decodes(c, s, e, m, x, y)
    BY <2>1, Assembled
  <2> QED BY <2>2 DEF Decodes
<1>11. c \in 0 .. Two[Sigbits!BitsPerValue(h)] - 1
  <2>1. PICK p \in Nat : p = x * y
    BY Products
  <2>2. CASE h.signs = 2
    <3>1. Two[Sigbits!BitsPerValue(h)] = 2 * p
      BY <1>0, <1>1, <2>1, <2>2, WidthIs
    <3> QED BY <1>10, <2>1, <3>1
  <2>3. CASE h.signs # 2
    <3>1. Two[Sigbits!BitsPerValue(h)] = p /\ s = 0
      BY <1>0, <1>1, <1>6, <2>1, <2>3, WidthIs
    <3> QED BY <1>10, <2>1, <3>1
  <2> QED BY <2>2, <2>3
<1>12. ASSUME Sigbits!MaskCovers(h), NEW beyond \in {0, 1}
       PROVE  Sigbits!DecompressValue(c, h, beyond) = Kept(v)
  <2>1. Sigbits!GetSign(c, h) = v.sign
    <3>1. CASE h.signs = 2
      <4>1. Two[Sigbits!BitsPerValue(h) - 1] = x * y
        BY <1>0, <1>1, <3>1, WidthIs
      <4> QED BY <1>3, <1>6, <1>10, <3>1, <4>1 DEF Sigbits!GetSign
    <3>2. CASE h.signs # 2
      BY <1>0, <3>2 DEF Sigbits!GetSign
    <3> QED BY <3>1, <3>2
  <2>2. Sigbits!GetExponent(c, h, beyond) = v.exponent
    <3>1. v.exponent \in Nat /\ v.exponent < Two[format.exponent] /\ Two[format.exponent] \in Nat \ {0}
      BY FieldsAre
    <3>2. h.minimum + e = v.exponent
      BY <1>0, <1>5, <3>1
    <3>3. v.exponent % Two[format.exponent] = v.exponent
      <4>1. PICK w \in Nat \ {0} : w = Two[format.exponent]
        BY <3>1
      <4>2. v.exponent = w * 0 + v.exponent
        BY <3>1
      <4>3. \A q \in {0} : v.exponent = w * q + v.exponent
        BY <4>2
      <4> QED BY <3>1, <4>1, <4>3, Division2
    <3>4. Sigbits!GetExponent(c, h, beyond) = (h.minimum + ((c \div y) % x)) % Two[format.exponent]
      BY <1>0, <1>1, <1>3, <1>12 DEF Sigbits!GetExponent
    <3> QED BY <1>10, <3>2, <3>3, <3>4
  <2>3. Sigbits!GetMantissa(c, h) = m * z
    <3>1. format.mantissa - h.mantissaBits = DroppedBits
      BY <1>0 DEF DroppedBits
    <3> QED BY <1>0, <1>1, <1>2, <1>3, <1>10, <3>1 DEF Sigbits!GetMantissa
  <2>4. Kept(v) = [sign |-> v.sign, exponent |-> v.exponent, mantissa |-> m * z]
    BY <1>2, <1>4, KeptIs
  <2> QED BY <2>1, <2>2, <2>3, <2>4 DEF Sigbits!DecompressValue
<1> QED BY <1>9, <1>11, <1>12

(* Any code of that width is one of a number. *)
LEMMA RestoredIs ==
  ASSUME SigbitsTypeOK, bits # -1, bits # 0, NEW h,
         h.signs \in 0 .. 2, h.exponentBits \in Nat, h.mantissaBits = bits - 1,
         h.minimum \in Nat,
         NEW c \in 0 .. Two[Sigbits!BitsPerValue(h)] - 1, NEW beyond \in {0, 1}
  PROVE  /\ Sigbits!DecompressValue(c, h, beyond) \in Sigbits!Numbers
         /\ Sigbits!DecompressValue(c, h, beyond).mantissa % Two[DroppedBits] = 0
<1>1. PICK x \in Nat \ {0}, y \in Nat \ {0} :
         x = Two[h.exponentBits] /\ y = Two[bits - 1]
  BY WidthIs
<1>2. PICK z \in Nat \ {0}, w \in Nat \ {0} :
         z = Two[DroppedBits] /\ w = Two[format.exponent] /\ Two[format.mantissa] = y * z
  BY <1>1, LengthsAre
<1>3. /\ Sigbits!Two = Two
      /\ Sigbits!MantissaLength = format.mantissa /\ Sigbits!ExponentLength = format.exponent
  BY SigbitsConstants DEF SigbitsTypeOK, Sigbits!MantissaLength, Sigbits!ExponentLength
<1>4. c \in Nat /\ c < Two[Sigbits!BitsPerValue(h)]
  <2>1. Two[Sigbits!BitsPerValue(h)] \in Nat
    BY WidthIs, TwoIs
  <2> QED BY <2>1
<1>5. Sigbits!GetSign(c, h) \in 0 .. 1
  <2>1. CASE h.signs = 2
    <3>1. PICK p \in Nat \ {0} : p = x * y /\ Two[Sigbits!BitsPerValue(h) - 1] = p
                                 /\ Two[Sigbits!BitsPerValue(h)] = 2 * p
      <4>1. x * y \in Nat /\ x * y # 0
        OBVIOUS
      <4> QED BY <1>1, <2>1, <4>1, WidthIs
    <3>2. c \in Nat /\ c < 2 * p
      BY <1>4, <3>1
    <3>3. c \div p \in 0 .. 1
      <4>1. PICK q \in Nat : q = c \div p
        <5>1. c \div p \in Nat
          BY <3>2
        <5> QED BY <5>1
      <4>2. c % p \in Nat /\ c = p * q + (c % p)
        <5>1. c \in Int /\ c % p \in 0 .. p - 1
          BY <1>4, Division
        <5> QED BY <4>1, <5>1, Division
      <4>3. q < 2
        <5>1. CASE ~(q < 2)
          <6>1. \A t \in {2} : t * p <= q * p
            <7> SUFFICES ASSUME NEW t \in {2} PROVE t * p <= q * p
              OBVIOUS
            <7> QED BY <5>1, MultiplyMonotone
          <6>2. 2 * p <= q * p
            BY <6>1
          <6>3. p * q = q * p /\ p * q \in Nat
            BY Products
          <6> QED BY <3>2, <4>2, <6>2, <6>3
        <5> QED BY <5>1
      <4> QED BY <4>1, <4>3
    <3> QED BY <1>3, <2>1, <3>1, <3>3 DEF Sigbits!GetSign
  <2>2. CASE h.signs # 2
    BY <2>2 DEF Sigbits!GetSign
  <2> QED BY <2>1, <2>2
<1>6. Sigbits!GetExponent(c, h, beyond) \in 0 .. w - 1
  <2>1. c \div y \in Nat
    BY <1>4
  <2>2. (c \div y) % x \in Nat
    BY <2>1
  <2>3. \A u \in Nat : (h.minimum + u) % w \in 0 .. w - 1
    OBVIOUS
  <2>4. \E u \in Nat : Sigbits!GetExponent(c, h, beyond) = (h.minimum + u) % w
    <3>1. CASE Sigbits!MaskCovers(h)
      <4>1. Sigbits!GetExponent(c, h, beyond) = (h.minimum + ((c \div y) % x)) % w
        BY <1>1, <1>2, <1>3, <3>1 DEF Sigbits!GetExponent
      <4> QED BY <2>2, <4>1
    <3>2. CASE ~Sigbits!MaskCovers(h)
      <4>1. Sigbits!GetExponent(c, h, beyond)
              = (h.minimum + (IF beyond = 0 THEN 0 ELSE c \div y)) % w
        BY <1>1, <1>2, <1>3, <3>2 DEF Sigbits!GetExponent
      <4>2. (IF beyond = 0 THEN 0 ELSE c \div y) \in Nat
        BY <2>1
      <4> QED BY <4>1, <4>2
    <3> QED BY <3>1, <3>2
  <2> QED BY <2>3, <2>4
<1>7. PICK m \in 0 .. y - 1 : m = c % y /\ Sigbits!GetMantissa(c, h) = m * z
  <2>1. format.mantissa - h.mantissaBits = DroppedBits
    BY DEF DroppedBits
  <2>2. c % y \in 0 .. y - 1
    BY <1>4
  <2>3. Sigbits!GetMantissa(c, h) = (c % y) * z
    BY <1>1, <1>2, <1>3, <2>1 DEF Sigbits!GetMantissa
  <2> QED BY <2>2, <2>3
<1>8. m * z \in 0 .. y * z - 1 /\ (m * z) % z = 0
  <2>1. y - 1 \in Nat /\ m \in Nat /\ m <= y - 1
    OBVIOUS
  <2>2. m * z <= (y - 1) * z /\ m * z \in Nat /\ y * z \in Nat /\ m * z = z * m
    BY <2>1, MultiplyMonotone, Products
  <2>3. (y - 1) * z = y * z - z
    OBVIOUS
  <2>4. (m * z) % z = 0
    <3>1. m * z = z * m + 0
      BY <2>2
    <3> QED BY <2>2, <3>1, Division2
  <2> QED BY <2>2, <2>3, <2>4
<1>9. Sigbits!DecompressValue(c, h, beyond) =
        [sign |-> Sigbits!GetSign(c, h), exponent |-> Sigbits!GetExponent(c, h, beyond),
         mantissa |-> m * z]
  BY <1>7 DEF Sigbits!DecompressValue
<1>10. m * z \in 0 .. Two[format.mantissa] - 1
  BY <1>2, <1>8
<1> QED
  BY <1>2, <1>3, <1>5, <1>6, <1>8, <1>9, <1>10
  DEF Sigbits!Numbers, Sigbits!ExponentLength, Sigbits!MantissaLength

(* What depends on the format and the hint only *)
LEMMA SameFormat ==
  ASSUME format' = format, bits' = bits
  PROVE  /\ Sigbits!Numbers' = Sigbits!Numbers /\ NumberArray' = NumberArray
         /\ DroppedBits' = DroppedBits /\ Sigbits!Index' = Sigbits!Index
         /\ \A v : Kept(v)' = Kept(v)
         /\ \A h, v : Sigbits!CompressValue(v, h)' = Sigbits!CompressValue(v, h)
BY DEF Sigbits!Numbers, NumberArray, DroppedBits, Kept, Sigbits!CompressValue, Sigbits!Index,
       Sigbits!MantissaLength, Sigbits!ExponentLength

(* No numbers are numbers of a format, too. *)
LEMMA NothingIs ==
  ASSUME format \in Formats PROVE Sigbits!Nothing \in NumberArray
<1>1. Two[format.exponent] \in Nat \ {0} /\ Two[format.mantissa] \in Nat \ {0}
  BY SigbitsConstants, TwoIs
<1>2. Sigbits!Two = Two
  BY SigbitsConstants
<1> QED
  BY <1>1, <1>2
  DEF Sigbits!Nothing, Sigbits!Zero, NumberArray, Sigbits!Numbers, Sigbits!MantissaLength,
      Sigbits!ExponentLength

(* Nothing has been compressed. *)
LEMMA SigbitsInit == Sigbits!Init => SigbitsInv
<1> SUFFICES ASSUME Sigbits!Init PROVE SigbitsInv
  OBVIOUS
<1>1. /\ packing = "idle" /\ format \in Formats /\ trip = 0
      /\ bits \in {-1, 0} \cup 1 .. format.mantissa /\ numbers = Sigbits!Nothing
  BY DEF Sigbits!Init, Sigbits!FINEST, Sigbits!IGNORE, Sigbits!MantissaLength
<1>2. numbers \in NumberArray
  BY <1>1, NothingIs
<1> QED BY <1>1, <1>2 DEF SigbitsInv, SigbitsTypeOK

(* The array is compressed. *)
LEMMA SigbitsCompress ==
  ASSUME SigbitsInv, Sigbits!Compress PROVE SigbitsInv'
<1>1. /\ packing = "idle" /\ format' = format /\ bits' = bits /\ trip' = trip + 1
      /\ IF trip = 0 THEN numbers' \in NumberArray ELSE numbers' = numbers
      /\ \/ bits = 0 /\ packing' = "failed"
         \/ /\ bits # 0 /\ packing' = "stored" /\ header' = Sigbits!HeaderOf(numbers')
            /\ bits # -1 => codes' = Sigbits!CompressBuffer(numbers', header')
  <2>1. bits \in Int
    BY SigbitsConstants DEF SigbitsInv, SigbitsTypeOK
  <2> QED BY <2>1 DEF Sigbits!Compress, Sigbits!FINEST, NumberArray
<1>2. PICK a \in NumberArray : a = numbers'
  BY <1>1 DEF SigbitsInv, SigbitsTypeOK
<1>3. SigbitsTypeOK
  BY DEF SigbitsInv
<1>4. SigbitsTypeOK'
  <2>1. trip \in {0, 1} /\ trip' \in {1, 2}
    BY <1>1, <1>3 DEF SigbitsTypeOK
  <2> QED BY <1>1, <1>2, <1>3, <2>1, SameFormat DEF SigbitsTypeOK
<1>5. CASE bits = 0
  BY <1>1, <1>4, <1>5 DEF SigbitsInv
<1>6. CASE bits = -1
  BY <1>1, <1>4, <1>6 DEF SigbitsInv
<1>7. CASE bits # 0 /\ bits # -1
  <2>1. packing' = "stored" /\ header' = Sigbits!HeaderOf(a)
        /\ codes' = Sigbits!CompressBuffer(a, header')
    BY <1>1, <1>2, <1>7
  <2>2. \A n \in Sigbits!Index : HeaderFits(header', a[n])
    <3> SUFFICES ASSUME NEW n \in Sigbits!Index PROVE HeaderFits(Sigbits!HeaderOf(a), a[n])
      BY <2>1
    <3> QED BY <1>3, <1>7, HeaderIs
  <2>3. \A n \in Sigbits!Index : HeaderFits(header, numbers[n])'
    BY <1>1, <1>2, <2>2, SameFormat DEF HeaderFits
  <2>4. ASSUME NEW n \in Sigbits!Index PROVE codes'[n] = Sigbits!CompressValue(a[n], header')
    <3>1. PICK h : h = header'
      OBVIOUS
    <3>2. HeaderFits(h, a[n]) /\ a[n] \in Sigbits!Numbers
      BY <2>2, <3>1 DEF NumberArray
    <3>3. PICK c : c = Sigbits!CompressValue(a[n], h)
      OBVIOUS
    <3>4. c \in 0 .. Two[Sigbits!BitsPerValue(h)] - 1
      BY <1>3, <1>7, <3>2, <3>3, CodeIs
    <3>5. Two[Sigbits!BitsPerValue(h)] \in Nat \ {0}
      <4>1. h.signs \in 0 .. 2 /\ h.exponentBits \in Nat /\ h.mantissaBits = bits - 1
        BY <3>2 DEF HeaderFits
      <4>2. Sigbits!BitsPerValue(h) \in Nat
        BY <1>3, <1>7, <4>1, WidthIs
      <4> QED BY <4>2, TwoIs
    <3>6. PICK w \in Nat \ {0} : w = Two[Sigbits!BitsPerValue(h)]
      BY <3>5
    <3>7. c % w = c
      <4>1. \A q \in {0} : c = w * q + c
        BY <3>4, <3>6
      <4>2. c \in Int /\ 0 <= c /\ c < w
        BY <3>4, <3>6
      <4> QED BY <4>1, <4>2, Division2
    <3>8. Sigbits!Two = Two
      BY <1>3, SigbitsConstants DEF SigbitsTypeOK
    <3>9. codes'[n] = c % w
      BY <2>1, <3>1, <3>3, <3>6, <3>8 DEF Sigbits!CompressBuffer
    <3> QED BY <3>1, <3>3, <3>7, <3>9
  <2>5. \A n \in Sigbits!Index : codes'[n] = Sigbits!CompressValue(numbers[n], header)'
    <3> SUFFICES ASSUME NEW n \in Sigbits!Index
                 PROVE  codes'[n] = Sigbits!CompressValue(numbers[n], header)'
      OBVIOUS
    <3>1. codes'[n] = Sigbits!CompressValue(a[n], header')
      BY <2>4
    <3> QED BY <1>1, <1>2, <3>1 DEF Sigbits!CompressValue, Sigbits!MantissaLength
  <2>6. trip' = 2 => IsCut(a)
    <3>1. trip' = 2 => trip = 1 /\ a = numbers
      BY <1>1, <1>2, <1>3 DEF SigbitsTypeOK
    <3> QED BY <1>1, <1>7, <3>1 DEF SigbitsInv
  <2>7. trip' = 2 => IsCut(numbers)'
    BY <1>1, <1>2, <2>6, SameFormat DEF IsCut
  <2> QED BY <1>1, <1>4, <1>7, <2>1, <2>3, <2>5, <2>7, SameFormat DEF SigbitsInv
<1> QED BY <1>5, <1>6, <1>7

(* The array comes back. *)
LEMMA SigbitsDecompress ==
  ASSUME SigbitsInv, Sigbits!Decompress PROVE SigbitsInv'
<1>1. /\ packing = "stored" /\ packing' = "restored" /\ format' = format /\ bits' = bits
      /\ trip' = trip /\ numbers' = numbers /\ header' = header
  BY DEF Sigbits!Decompress
<1>2. SigbitsTypeOK /\ bits # 0
  BY <1>1 DEF SigbitsInv
<1>3. SigbitsTypeOK'
  BY <1>1, <1>2, SameFormat DEF SigbitsTypeOK
<1>4. bits # -1 => \A n \in Sigbits!Index : HeaderFits(header, numbers[n])
  BY <1>1 DEF SigbitsInv
<1>5. bits' # -1 => \A n \in Sigbits!Index' : HeaderFits(header, numbers[n])'
  BY <1>1, <1>4, SameFormat DEF HeaderFits
<1>6. trip' = 2 /\ bits' # -1 => IsCut(numbers)'
  <2>1. trip = 2 /\ bits # -1 => IsCut(numbers)
    BY <1>1 DEF SigbitsInv
  <2> QED BY <1>1, <2>1, SameFormat DEF IsCut
<1>7. CASE bits = -1
  <2>1. PICK v \in {Sigbits!Zero, [Sigbits!Zero EXCEPT !.exponent = 1]} :
           back' = [n \in Sigbits!Index |-> v]
    BY <1>7 DEF Sigbits!Decompress, Sigbits!FINEST
  <2>2. v = [sign |-> 0, exponent |-> 0, mantissa |-> 0]
        \/ v = [sign |-> 0, exponent |-> 1, mantissa |-> 0]
    BY <2>1 DEF Sigbits!Zero
  <2>3. Two[format.mantissa] \in Nat \ {0} /\ Two[format.exponent] \in Nat
        /\ Two[format.exponent] >= 2
    <3>1. format.mantissa \in Nat /\ format.exponent \in Nat \ {0}
      BY <1>2, SigbitsConstants DEF SigbitsTypeOK
    <3>2. PICK k \in Nat : format.exponent = k + 1
      <4>1. format.exponent - 1 \in Nat /\ format.exponent = (format.exponent - 1) + 1
        BY <3>1
      <4> QED BY <4>1
    <3>3. Two[k] \in Nat \ {0} /\ Two[k + 1] = 2 * Two[k]
      BY TwoIs
    <3> QED BY <3>1, <3>2, <3>3, TwoIs
  <2>4. v \in Sigbits!Numbers
    <3>1. Sigbits!Two = Two
      BY <1>2, SigbitsConstants DEF SigbitsTypeOK
    <3> QED BY <2>2, <2>3, <3>1 DEF Sigbits!Numbers, Sigbits!MantissaLength, Sigbits!ExponentLength
  <2>5. back' \in NumberArray'
    BY <1>1, <2>1, <2>4, SameFormat DEF NumberArray
  <2> QED BY <1>1, <1>2, <1>3, <1>7, <2>5 DEF SigbitsInv
<1>8. CASE bits # -1
  <2>1. PICK beyond \in {0, 1} :
           back' = [n \in Sigbits!Index |-> Sigbits!DecompressValue(codes[n], header, beyond)]
    BY <1>8 DEF Sigbits!Decompress, Sigbits!FINEST
  <2>2. ASSUME NEW n \in Sigbits!Index
        PROVE  /\ back'[n] \in Sigbits!Numbers
               /\ back'[n].mantissa % Two[DroppedBits] = 0
               /\ Sigbits!MaskCovers(header) => back'[n] = Kept(numbers[n])
    <3>1. HeaderFits(header, numbers[n]) /\ numbers[n] \in Sigbits!Numbers
      BY <1>2, <1>4, <1>8 DEF SigbitsTypeOK, NumberArray
    <3>2. codes[n] = Sigbits!CompressValue(numbers[n], header)
      BY <1>1, <1>8 DEF SigbitsInv
    <3>3. /\ codes[n] \in 0 .. Two[Sigbits!BitsPerValue(header)] - 1
          /\ Sigbits!MaskCovers(header) =>
                Sigbits!DecompressValue(codes[n], header, beyond) = Kept(numbers[n])
      BY <1>2, <1>8, <3>1, <3>2, CodeIs
    <3>4. /\ header.signs \in 0 .. 2 /\ header.exponentBits \in Nat
          /\ header.mantissaBits = bits - 1 /\ header.minimum \in Nat
      BY <3>1 DEF HeaderFits
    <3>5. /\ Sigbits!DecompressValue(codes[n], header, beyond) \in Sigbits!Numbers
          /\ Sigbits!DecompressValue(codes[n], header, beyond).mantissa % Two[DroppedBits] = 0
      BY <1>2, <1>8, <3>3, <3>4, RestoredIs
    <3> QED BY <2>1, <3>3, <3>5
  <2>3. back' \in NumberArray
    BY <2>1, <2>2 DEF NumberArray
  <2>4. IsCut(back)'
    BY <1>1, <2>2, SameFormat DEF IsCut
  <2>5. Sigbits!MaskCovers(header)' =>
           \A n \in Sigbits!Index : back'[n] = Kept(numbers[n])'
    <3>1. Sigbits!MaskCovers(header)' <=> Sigbits!MaskCovers(header)
      BY <1>1 DEF Sigbits!MaskCovers
    <3>2. \A n \in Sigbits!Index : Kept(numbers[n])' = Kept(numbers[n])
      BY <1>1, SameFormat DEF Kept
    <3> QED BY <2>2, <3>1, <3>2
  <2> QED BY <1>1, <1>2, <1>3, <1>5, <1>6, <1>8, <2>3, <2>4, <2>5, SameFormat DEF SigbitsInv
<1> QED BY <1>7, <1>8

(* What came back is to be compressed once more. *)
LEMMA SigbitsAgain ==
  ASSUME SigbitsInv, Sigbits!Again PROVE SigbitsInv'
<1>1. /\ packing = "restored" /\ packing' = "idle" /\ trip = 1 /\ trip' = 1
      /\ format' = format /\ bits' = bits /\ numbers' = back
  BY DEF Sigbits!Again
<1>2. SigbitsTypeOK /\ back \in NumberArray /\ (bits # -1 => IsCut(back))
  BY <1>1 DEF SigbitsInv
<1>3. SigbitsTypeOK'
  BY <1>1, <1>2, SameFormat DEF SigbitsTypeOK
<1>4. bits' # -1 => IsCut(numbers)'
  BY <1>1, <1>2, SameFormat DEF IsCut
<1> QED BY <1>1, <1>3, <1>4 DEF SigbitsInv

(* Nothing is left of the arrays. *)
LEMMA SigbitsRelease ==
  ASSUME SigbitsInv, Sigbits!Release PROVE SigbitsInv'
<1>1. /\ packing' = "idle" /\ trip' = 0 /\ format' = format /\ bits' = bits
      /\ numbers' = Sigbits!Nothing
  BY DEF Sigbits!Release
<1>2. SigbitsTypeOK
  BY DEF SigbitsInv
<1>3. Sigbits!Nothing \in NumberArray
  BY <1>2, NothingIs DEF SigbitsTypeOK
<1>4. SigbitsTypeOK'
  BY <1>1, <1>2, <1>3, SameFormat DEF SigbitsTypeOK
<1> QED BY <1>1, <1>4 DEF SigbitsInv

(* Sigbits rests. *)
LEMMA SigbitsStutter ==
  ASSUME SigbitsInv, UNCHANGED sigbitsVars PROVE SigbitsInv'
<1>1. /\ format' = format /\ packing' = packing /\ trip' = trip /\ bits' = bits
      /\ numbers' = numbers /\ back' = back /\ header' = header /\ codes' = codes
  BY DEF sigbitsVars
<1>2. SigbitsTypeOK'
  BY <1>1, SameFormat DEF SigbitsInv, SigbitsTypeOK
<1>3. (IsCut(numbers)' <=> IsCut(numbers)) /\ (IsCut(back)' <=> IsCut(back))
  BY <1>1, SameFormat DEF IsCut
<1>4. \A n : /\ HeaderFits(header, numbers[n])' <=> HeaderFits(header, numbers[n])
             /\ Kept(numbers[n])' = Kept(numbers[n])
             /\ Sigbits!CompressValue(numbers[n], header)' = Sigbits!CompressValue(numbers[n], header)
  BY <1>1, SameFormat
  DEF HeaderFits, Kept, Sigbits!CompressValue, Sigbits!MantissaLength
<1>5. Sigbits!MaskCovers(header)' <=> Sigbits!MaskCovers(header)
  BY <1>1 DEF Sigbits!MaskCovers
<1> QED BY <1>1, <1>2, <1>3, <1>4, <1>5, SameFormat DEF SigbitsInv

(* The invariant of sigbits is inductive. *)
LEMMA SigbitsStep ==
  ASSUME SigbitsInv, [Next]_vars PROVE SigbitsInv'
<1>1. CASE walk = "sigbits" /\ Sigbits!Next
  BY <1>1, SigbitsCompress, SigbitsDecompress, SigbitsAgain, SigbitsRelease DEF Sigbits!Next
<1>2. CASE UNCHANGED sigbitsVars
  BY <1>2, SigbitsStutter
<1> QED BY <1>1, <1>2 DEF Next, vars, codecVars

(* The bits that are asked for are kept, and nothing is cut twice. *)
LEMMA SigbitsKept == SigbitsInv => BitsSurvive
<1> SUFFICES ASSUME SigbitsInv PROVE BitsSurvive
  OBVIOUS
<1>1. ASSUME packing = "restored", bits # -1, Sigbits!MaskCovers(header)
      PROVE  /\ \A n \in Sigbits!Index : Sigbits!Keeps(numbers[n], back[n], bits - 1)
             /\ trip = 2 => back = numbers
  <2>1. /\ SigbitsTypeOK /\ bits # 0 /\ back \in NumberArray /\ numbers \in NumberArray
        /\ \A n \in Sigbits!Index : back[n] = Kept(numbers[n])
        /\ trip = 2 => IsCut(numbers)
    BY <1>1 DEF SigbitsInv, SigbitsTypeOK
  <2>2. ASSUME NEW n \in Sigbits!Index
        PROVE  /\ Sigbits!Keeps(numbers[n], back[n], bits - 1)
               /\ trip = 2 => back[n] = numbers[n]
    <3>1. numbers[n] \in Sigbits!Numbers
      BY <2>1 DEF NumberArray
    <3>2. trip = 2 => numbers[n].mantissa % Two[DroppedBits] = 0
      BY <2>1 DEF IsCut
    <3>3. /\ numbers[n].mantissa % Two[DroppedBits] = 0 => Kept(numbers[n]) = numbers[n]
          /\ Sigbits!Keeps(numbers[n], Kept(numbers[n]), bits - 1)
      BY <1>1, <2>1, <3>1, KeptIs
    <3> QED BY <2>1, <3>2, <3>3
  <2>3. trip = 2 => back = numbers
    BY <2>1, <2>2 DEF NumberArray
  <2> QED BY <2>2, <2>3
<1> QED BY <1>1 DEF BitsSurvive, Sigbits!BitsSurvive, Sigbits!CoveredBitsKept,
           Sigbits!SecondTripExact, Sigbits!FINEST

(* What sigbits keeps of a number - the sign, the exponent and as many     *)
(* first bits of the mantissa as the hint asks for - survives every trip   *)
(* through scil_sigbits_compress and scil_sigbits_decompress, for all      *)
(* formats, hints and arrays whose codes the table of masks covers.        *)
THEOREM BitsSurviveTrips == Spec => []BitsSurvive
<1>1. Init => SigbitsInv
  BY SigbitsInit DEF Init
<1>2. SigbitsInv /\ [Next]_vars => SigbitsInv'
  BY SigbitsStep
<1> QED BY <1>1, <1>2, SigbitsKept, PTL DEF Spec

-----------------------------------------------------------------------------
(* Validation (ScilValidate) *)

(* The accuracy while it is measured *)
Measures == [set : BOOLEAN, absolute : Nat, percent : Validation!Ratio, finest : Nat,
             bits : 1 .. Width]

ErrorOf(k)    == Validation!Error(data_out[k], data_uncompressed[k])
RelativeOf(k) == Validation!Relative(data_out[k], data_uncompressed[k])
BitsOf(k)     == Validation!Bits(data_out[k], data_uncompressed[k])

IsRatio(q) == q \in Nat \X Nat /\ (q[2] = 0 => q[1] > 0)

(* What is known of an accuracy that the elements before n went into *)
Largest(acc, n) ==
    /\ \A k \in Validation!Index : k < n => ErrorOf(k) <= acc.absolute
    /\ acc.absolute = 0 \/ \E k \in Validation!Index : k < n /\ ErrorOf(k) = acc.absolute

LargestRelative(acc, n) ==
    /\ IsRatio(acc.percent)
    /\ \A k \in Validation!Index :
          k < n /\ ErrorOf(k) >= threshold =>
              ~Validation!Exceeds(RelativeOf(k), acc.percent)
    /\ \/ acc.percent = <<0, 1>>
       \/ \E k \in Validation!Index :
             k < n /\ ErrorOf(k) >= threshold /\ RelativeOf(k) = acc.percent

LargestFine(acc, n) ==
    /\ \A k \in Validation!Index :
          k < n /\ ErrorOf(k) < threshold => ErrorOf(k) <= acc.finest
    /\ \/ acc.finest = 0
       \/ \E k \in Validation!Index :
             k < n /\ ErrorOf(k) < threshold /\ ErrorOf(k) = acc.finest

FewestBits(acc, n) == \A k \in Validation!Index : k < n => acc.bits <= BitsOf(k)

Known(acc, n) ==
    /\ acc \in Measures
    /\ Largest(acc, n) /\ LargestRelative(acc, n) /\ LargestFine(acc, n) /\ FewestBits(acc, n)

ValidationTypeOK ==
    /\ pc \in {"decompress", "measure", "done"}
    /\ data_uncompressed \in Validation!Array /\ data_out \in Validation!Array
    /\ hints \in Validation!Hint /\ lossless \in BOOLEAN /\ threshold \in Int
    /\ element \in Nat \ {0}
    /\ accuracy \in Measures

ValidationInv ==
    /\ ValidationTypeOK
    /\ pc = "measure" => /\ Known(accuracy, element) /\ ret # "precision"
                         /\ threshold \in Validation!Casts(hints.finest)
    /\ pc = "done" /\ ret # "failed" =>
          /\ \E acc : Known(acc, Length + 1) /\ accuracy = Validation!Final(acc)
          /\ threshold \in Validation!Casts(hints.finest)
          /\ ret = "ok" /\ ~lossless => Validation!MeetsHints(accuracy)
          /\ ret = "precision" => ~Validation!MeetsHints(accuracy)

(* What validation is given *)
LEMMA ValidationConstants ==
  /\ Width \in Nat \ {0} /\ Length \in Nat /\ Hints \subseteq Validation!Hint
  /\ Parts \in Nat \ {0} /\ Ulps \in Nat \ {0}
  /\ \A c1 \in Validation!Value \ {0}, c2 \in Validation!Value : Validation!IsRounded(c1, c2)
  /\ Validation!Two = Two
<1>1. Validation!ValidateAssumption
  BY ArraysAssumption DEF ArraysAssumption
<1> QED BY <1>1 DEF Validation!ValidateAssumption, Validation!Two, Two

(* The values of a type of this width are integers. *)
LEMMA ValuesAre ==
  /\ Validation!Half \in Nat \ {0}
  /\ Validation!Value \subseteq Int
  /\ \A m \in Nat : Validation!Two[m] \in Nat \ {0}
<1>1. Width - 1 \in Nat
  BY ValidationConstants
<1> QED BY <1>1, ValidationConstants, TwoIs DEF Validation!Half, Validation!Value

(* The absolute value of an integer *)
LEMMA AbsIs == \A n \in Int : Validation!Abs(n) \in Nat /\ (Validation!Abs(n) = 0 <=> n = 0)
BY DEF Validation!Abs

(* The absolute error of an element, and where it is 0 *)
LEMMA ErrorIs ==
  ASSUME NEW c1 \in Validation!Value, NEW c2 \in Validation!Value
  PROVE  /\ Validation!Error(c1, c2) \in Int
         /\ Validation!Abs(c1 - c2) \in Nat
         /\ Validation!Abs(c1 - c2) < Validation!Half =>
               Validation!Error(c1, c2) = Validation!Abs(c1 - c2)
         /\ Validation!Abs(c1 - c2) >= Validation!Half => Validation!Error(c1, c2) < 0
<1>1. c1 \in Int /\ c2 \in Int /\ Validation!Half \in Nat
  BY ValuesAre
<1>2. /\ -Validation!Half <= c1 /\ c1 < Validation!Half
      /\ -Validation!Half <= c2 /\ c2 < Validation!Half
  BY <1>1 DEF Validation!Value
<1> QED BY <1>1, <1>2 DEF Validation!Error, Validation!Abs

(* A quotient whose denominator is positive can be compared. *)
LEMMA RatioIs == ASSUME NEW q \in Nat \X Nat, q[2] > 0 PROVE IsRatio(q)
<1>1. PICK q1 \in Nat, q2 \in Nat : q = <<q1, q2>>
  OBVIOUS
<1> QED BY <1>1 DEF IsRatio

(* The relative error of an element is a quotient that can be compared. *)
LEMMA RelativeIs ==
  ASSUME NEW c1 \in Validation!Value, NEW c2 \in Validation!Value
  PROVE  /\ IsRatio(Validation!Relative(c1, c2))
         /\ c1 = 0 /\ c2 = 0 => Validation!Relative(c1, c2) = <<0, 1>>
         /\ c1 = 0 /\ c2 # 0 => Validation!Relative(c1, c2) = <<1, 0>>
         /\ c1 # 0 => /\ Validation!Relative(c1, c2) = Deviation[c1, c2]
                      /\ Validation!IsRounded(c1, c2)
<1>1. CASE c1 = 0 /\ c2 = 0
  <2>1. Validation!Relative(c1, c2) = <<0, 1>>
    BY <1>1 DEF Validation!Relative
  <2> QED BY <1>1, <2>1 DEF IsRatio
<1>2. CASE c1 = 0 /\ c2 # 0
  <2>1. Validation!Relative(c1, c2) = <<1, 0>>
    BY <1>2 DEF Validation!Relative
  <2> QED BY <1>2, <2>1 DEF IsRatio
<1>3. CASE c1 # 0
  <2>1. Validation!Relative(c1, c2) = Deviation[c1, c2]
    BY <1>3 DEF Validation!Relative
  <2>2. Validation!IsRounded(c1, c2)
    BY <1>3, ValidationConstants
  <2>3. Deviation[c1, c2] \in Nat \X Nat /\ Deviation[c1, c2][2] > 0
    BY <2>2 DEF Validation!IsRounded, Validation!Ratio
  <2>4. IsRatio(Deviation[c1, c2])
    BY <2>3, RatioIs
  <2> QED BY <1>3, <2>1, <2>2, <2>4
<1> QED BY <1>1, <1>2, <1>3

(* The finest tolerance in the type of the values is an integer: its whole *)
(* part, if the type can hold that.                                        *)
LEMMA CastsAre ==
  ASSUME NEW f \in Nat
  PROVE  /\ f \div Parts \in Nat
         /\ \A t \in Validation!Casts(f) :
               /\ t \in Int
               /\ f \div Parts < Validation!Half => t = f \div Parts
<1>1. f \div Parts \in Nat
  BY ValidationConstants
<1> QED BY <1>1, ValuesAre DEF Validation!Casts

(* The bits an element has in common are between 1 and the width. *)
LEMMA BitsIs ==
  ASSUME NEW c1 \in Validation!Value, NEW c2 \in Validation!Value
  PROVE  /\ Validation!Bits(c1, c2) \in 1 .. Width
         /\ \A m \in 0 .. Width - 1 :
               m > Width - Validation!Bits(c1, c2) =>
                   (c1 \div Two[m]) % 2 = (c2 \div Two[m]) % 2
<1> DEFINE Differ == {m \in 0 .. Width - 1 : (c1 \div Two[m]) % 2 # (c2 \div Two[m]) % 2}
<1>0. Width \in Nat \ {0} /\ Validation!Two = Two
  BY ValidationConstants
<1>1. CASE Differ = {}
  <2>1. Validation!Bits(c1, c2) = Width
    BY <1>0, <1>1 DEF Validation!Bits
  <2> QED BY <1>0, <1>1, <2>1
<1>2. CASE Differ # {}
  <2>1. Differ \in SUBSET Nat /\ \A m \in Differ : m <= Width
    BY <1>0
  <2>2. \E m \in Differ : \A k \in Differ : k <= m
    <3> DEFINE Above == {Width - m : m \in Differ}
    <3>1. Above \in SUBSET Nat /\ Above # {}
      BY <1>0, <1>2
    <3>2. \E n \in Above : \A k \in Above : n <= k
      <4> HIDE DEF Above
      <4> QED BY <3>1, Least
    <3>3. PICK m \in Differ : \A k \in Above : Width - m <= k
      BY <3>2
    <3>4. \A k \in Differ : Width - m <= Width - k
      BY <3>3
    <3> HIDE DEF Above, Differ
    <3> QED BY <1>0, <2>1, <3>3, <3>4
  <2> DEFINE top == CHOOSE m \in Differ : \A k \in Differ : k <= m
  <2>3. top \in Differ /\ \A k \in Differ : k <= top
    <3> HIDE DEF Differ
    <3> QED BY <2>2
  <2>4. Validation!Bits(c1, c2) = Width - top
    BY <1>0, <1>2 DEF Validation!Bits
  <2> HIDE DEF top
  <2>5. top \in 0 .. Width - 1
    BY <2>3
  <2>6. Validation!Bits(c1, c2) \in 1 .. Width /\ Width - Validation!Bits(c1, c2) = top
    BY <1>0, <2>4, <2>5
  <2>7. ASSUME NEW m \in 0 .. Width - 1, m > top
        PROVE  (c1 \div Two[m]) % 2 = (c2 \div Two[m]) % 2
    <3>1. ~(m <= top)
      BY <1>0, <2>5, <2>7
    <3>2. m \notin Differ
      BY <2>3, <3>1
    <3> QED BY <3>2
  <2> QED BY <2>6, <2>7
<1> QED BY <1>1, <1>2

(* The three measurements of an element *)
LEMMA ElementsAre ==
  ASSUME ValidationTypeOK, NEW k \in Validation!Index
  PROVE  /\ data_out[k] \in Validation!Value /\ data_uncompressed[k] \in Validation!Value
         /\ k \in Nat /\ ErrorOf(k) \in Int /\ IsRatio(RelativeOf(k)) /\ BitsOf(k) \in 1 .. Width
         /\ threshold \in Int
<1>1. data_out[k] \in Validation!Value /\ data_uncompressed[k] \in Validation!Value
  BY DEF ValidationTypeOK, Validation!Array
<1>2. k \in Nat
  BY DEF Validation!Index
<1>3. threshold \in Int
  BY DEF ValidationTypeOK
<1> QED BY <1>1, <1>2, <1>3, ErrorIs, RelativeIs, BitsIs DEF ErrorOf, RelativeOf, BitsOf

(* A measured element changes the parts of the accuracy one by one. *)
LEMMA WithIs ==
  ASSUME ValidationTypeOK, NEW acc \in Measures, IsRatio(acc.percent),
         NEW n \in Validation!Index,
         NEW new, new = Validation!With(acc, data_out[n], data_uncompressed[n])
  PROVE  /\ new \in Measures /\ IsRatio(new.percent)
         /\ new.absolute = Validation!Larger(ErrorOf(n), acc.absolute)
         /\ new.finest = IF ErrorOf(n) >= threshold THEN acc.finest
                         ELSE Validation!Larger(ErrorOf(n), acc.finest)
         /\ new.percent = IF ErrorOf(n) >= threshold
                              /\ Validation!Exceeds(RelativeOf(n), acc.percent)
                          THEN RelativeOf(n) ELSE acc.percent
         /\ new.bits = Validation!Smaller(BitsOf(n), acc.bits)
<1>1. /\ ErrorOf(n) \in Int /\ IsRatio(RelativeOf(n)) /\ BitsOf(n) \in 1 .. Width
  BY ElementsAre
<1> DEFINE x == Validation!Larger(ErrorOf(n), acc.absolute)
           y == IF ErrorOf(n) >= threshold THEN acc.finest
                ELSE Validation!Larger(ErrorOf(n), acc.finest)
           z == IF ErrorOf(n) >= threshold /\ Validation!Exceeds(RelativeOf(n), acc.percent)
                THEN RelativeOf(n) ELSE acc.percent
           w == Validation!Smaller(BitsOf(n), acc.bits)
<1>2. new = [acc EXCEPT !.absolute = x, !.finest = y, !.percent = z, !.bits = w]
  BY DEF Validation!With, ErrorOf, RelativeOf, BitsOf, Measures
<1>3. /\ acc.absolute \in Nat /\ acc.finest \in Nat /\ acc.bits \in 1 .. Width
      /\ acc.percent \in Nat \X Nat
  BY DEF Measures, Validation!Ratio
<1>4. x \in Nat /\ y \in Nat /\ w \in 1 .. Width
  BY <1>1, <1>3 DEF Validation!Larger, Validation!Smaller
<1>5. z \in Validation!Ratio /\ IsRatio(z)
  BY <1>1 DEF IsRatio, Validation!Ratio
<1> HIDE DEF x, y, z, w
<1>6. /\ new \in Measures /\ new.absolute = x /\ new.finest = y /\ new.percent = z /\ new.bits = w
  BY <1>2, <1>4, <1>5 DEF Measures
<1> QED BY <1>5, <1>6 DEF x, y, z, w

(* What the largest quotient so far bounds, a larger one bounds. *)
LEMMA ExceedsTransitive ==
  ASSUME NEW p, NEW q, NEW r, IsRatio(p), IsRatio(q), IsRatio(r),
         ~Validation!Exceeds(r, p), Validation!Exceeds(q, p)
  PROVE  ~Validation!Exceeds(r, q)
<1>a. PICK p1 \in Nat, p2 \in Nat : p = <<p1, p2>>
  BY DEF IsRatio
<1>b. PICK q1 \in Nat, q2 \in Nat : q = <<q1, q2>>
  BY DEF IsRatio
<1>c. PICK r1 \in Nat, r2 \in Nat : r = <<r1, r2>>
  BY DEF IsRatio
<1>1. p = <<p1, p2>> /\ q = <<q1, q2>> /\ r = <<r1, r2>>
  BY <1>a, <1>b, <1>c
<1>2. /\ p2 = 0 => p1 > 0
      /\ r2 = 0 => r1 > 0
  BY <1>1 DEF IsRatio
<1>3. r1 * p2 <= p1 * r2 /\ q1 * p2 > p1 * q2
  BY <1>1, Products DEF Validation!Exceeds
<1>4. p2 # 0 /\ r2 # 0
  <2>1. CASE p2 = 0
    BY <1>3, <2>1, Products
  <2>2. CASE p2 # 0 /\ r2 = 0
    <3>1. r1 \in Nat \ {0} /\ p2 \in Nat \ {0}
      BY <1>1, <2>2 DEF IsRatio
    <3>2. r1 * p2 > 0
      BY <3>1
    <3> QED BY <1>3, <2>2, <3>2
  <2> QED BY <2>1, <2>2
<1>5. (r1 * p2) * q2 <= (p1 * r2) * q2
  BY <1>3, Products, MultiplyMonotone
<1>6. (p1 * q2) * r2 <= (q1 * p2) * r2
  <2>1. p1 * q2 \in Nat /\ q1 * p2 \in Nat /\ p1 * q2 <= q1 * p2
    BY <1>3, Products
  <2> QED BY <2>1, MultiplyMonotone
<1>7. (r1 * p2) * q2 = (r1 * q2) * p2
  OBVIOUS
<1>8. (p1 * r2) * q2 = (p1 * q2) * r2
  OBVIOUS
<1>9. (q1 * p2) * r2 = (q1 * r2) * p2
  OBVIOUS
<1>10. (r1 * q2) * p2 <= (q1 * r2) * p2
  <2>1. /\ (r1 * p2) * q2 \in Nat /\ (p1 * r2) * q2 \in Nat /\ (p1 * q2) * r2 \in Nat
        /\ (q1 * p2) * r2 \in Nat
    BY Products
  <2> QED BY <1>5, <1>6, <1>7, <1>8, <1>9, <2>1
<1>11. r1 * q2 <= q1 * r2
  <2>1. r1 * q2 \in Nat /\ q1 * r2 \in Nat /\ p2 \in Nat \ {0}
    BY <1>4, Products
  <2> QED BY <1>10, <2>1, MultiplyCancel
<1> QED BY <1>1, <1>11, Products DEF Validation!Exceeds

(* To exceed a quotient is to have the larger cross product. *)
LEMMA ExceedsIs ==
  ASSUME NEW q, NEW r, IsRatio(q), IsRatio(r)
  PROVE  Validation!Exceeds(q, r) => ~Validation!Exceeds(r, q)
<1>1. PICK q1 \in Nat, q2 \in Nat, r1 \in Nat, r2 \in Nat : q = <<q1, q2>> /\ r = <<r1, r2>>
  BY DEF IsRatio
<1> QED BY <1>1, Products DEF Validation!Exceeds

(* No quotient exceeds itself. *)
LEMMA ExceedsSelf == ASSUME NEW q, IsRatio(q) PROVE ~Validation!Exceeds(q, q)
BY ExceedsIs

(* One more element is known. *)
LEMMA KnowsOneMore ==
  ASSUME ValidationTypeOK, NEW acc, NEW n \in Validation!Index, Known(acc, n),
         NEW new, new = Validation!With(acc, data_out[n], data_uncompressed[n])
  PROVE  Known(new, n + 1)
<1>1. acc \in Measures /\ IsRatio(acc.percent)
  BY DEF Known, LargestRelative
<1>2. /\ new \in Measures /\ IsRatio(new.percent)
      /\ new.absolute = Validation!Larger(ErrorOf(n), acc.absolute)
      /\ new.finest = IF ErrorOf(n) >= threshold THEN acc.finest
                      ELSE Validation!Larger(ErrorOf(n), acc.finest)
      /\ new.percent = IF ErrorOf(n) >= threshold
                           /\ Validation!Exceeds(RelativeOf(n), acc.percent)
                       THEN RelativeOf(n) ELSE acc.percent
      /\ new.bits = Validation!Smaller(BitsOf(n), acc.bits)
  BY <1>1, WithIs
<1>3. \A k \in Validation!Index : /\ k \in Nat /\ ErrorOf(k) \in Int /\ IsRatio(RelativeOf(k))
                                  /\ BitsOf(k) \in 1 .. Width /\ threshold \in Int
  BY ElementsAre
<1>4. \A k \in Validation!Index : k < n + 1 <=> k < n \/ k = n
  BY <1>3
<1>5. acc.absolute \in Nat /\ acc.finest \in Nat /\ acc.bits \in 1 .. Width
  BY <1>1 DEF Measures
<1>6. Largest(new, n + 1)
  <2>1. ErrorOf(n) <= new.absolute /\ acc.absolute <= new.absolute /\ new.absolute \in Nat
    BY <1>2, <1>3, <1>5 DEF Validation!Larger
  <2>2. \A k \in Validation!Index : k < n + 1 => ErrorOf(k) <= new.absolute
    <3> SUFFICES ASSUME NEW k \in Validation!Index, k < n + 1 PROVE ErrorOf(k) <= new.absolute
      OBVIOUS
    <3>1. CASE k = n
      BY <2>1, <3>1
    <3>2. CASE k < n
      <4>1. ErrorOf(k) <= acc.absolute /\ ErrorOf(k) \in Int
        BY <1>3, <3>2 DEF Known, Largest
      <4> QED BY <1>5, <2>1, <4>1
    <3> QED BY <1>4, <3>1, <3>2
  <2>3. new.absolute = ErrorOf(n) \/ new.absolute = acc.absolute
    BY <1>2 DEF Validation!Larger
  <2>4. new.absolute = 0 \/ \E k \in Validation!Index : k < n + 1 /\ ErrorOf(k) = new.absolute
    BY <1>4, <2>3 DEF Known, Largest
  <2> QED BY <2>2, <2>4 DEF Largest
<1>7. LargestFine(new, n + 1)
  <2>1. /\ new.finest \in Nat /\ acc.finest <= new.finest
        /\ ErrorOf(n) < threshold => ErrorOf(n) <= new.finest
    BY <1>2, <1>3, <1>5 DEF Validation!Larger
  <2>2. \A k \in Validation!Index :
           k < n + 1 /\ ErrorOf(k) < threshold => ErrorOf(k) <= new.finest
    <3> SUFFICES ASSUME NEW k \in Validation!Index, k < n + 1, ErrorOf(k) < threshold
                 PROVE  ErrorOf(k) <= new.finest
      OBVIOUS
    <3>1. CASE k = n
      BY <2>1, <3>1
    <3>2. CASE k < n
      <4>1. ErrorOf(k) <= acc.finest /\ ErrorOf(k) \in Int
        BY <1>3, <3>2 DEF Known, LargestFine
      <4> QED BY <1>5, <2>1, <4>1
    <3> QED BY <1>4, <3>1, <3>2
  <2>3. \/ new.finest = ErrorOf(n) /\ ErrorOf(n) < threshold
        \/ new.finest = acc.finest
    BY <1>2, <1>3 DEF Validation!Larger
  <2>4. \/ new.finest = 0
        \/ \E k \in Validation!Index :
              k < n + 1 /\ ErrorOf(k) < threshold /\ ErrorOf(k) = new.finest
    <3>1. CASE new.finest = ErrorOf(n) /\ ErrorOf(n) < threshold
      BY <1>4, <3>1
    <3>2. CASE new.finest = acc.finest
      BY <1>4, <3>2 DEF Known, LargestFine
    <3> QED BY <2>3, <3>1, <3>2
  <2> QED BY <2>2, <2>4 DEF LargestFine
<1>8. FewestBits(new, n + 1)
  <2>1. new.bits \in 1 .. Width /\ new.bits <= acc.bits /\ new.bits <= BitsOf(n)
    <3>1. Width \in Nat
      BY ValidationConstants
    <3> QED BY <1>2, <1>3, <1>5, <3>1 DEF Validation!Smaller
  <2> SUFFICES ASSUME NEW k \in Validation!Index, k < n + 1 PROVE new.bits <= BitsOf(k)
    BY DEF FewestBits
  <2>2. CASE k = n
    BY <2>1, <2>2
  <2>3. CASE k < n
    <3>1. acc.bits <= BitsOf(k) /\ BitsOf(k) \in 1 .. Width
      BY <1>3, <2>3 DEF Known, FewestBits
    <3>2. Width \in Nat
      BY ValidationConstants
    <3> QED BY <1>5, <2>1, <3>1, <3>2
  <2> QED BY <1>4, <2>2, <2>3
<1>9. LargestRelative(new, n + 1)
  <2>1. CASE ErrorOf(n) >= threshold /\ Validation!Exceeds(RelativeOf(n), acc.percent)
    <3>1. new.percent = RelativeOf(n)
      BY <1>2, <2>1
    <3>2. ASSUME NEW k \in Validation!Index, k < n + 1, ErrorOf(k) >= threshold
          PROVE  ~Validation!Exceeds(RelativeOf(k), new.percent)
      <4>1. CASE k = n
        BY <1>3, <3>1, <4>1, ExceedsSelf
      <4>2. CASE k < n
        <5>1. ~Validation!Exceeds(RelativeOf(k), acc.percent)
          BY <3>2, <4>2 DEF Known, LargestRelative
        <5>2. IsRatio(RelativeOf(k)) /\ IsRatio(RelativeOf(n))
          BY <1>3
        <5> QED BY <1>1, <2>1, <3>1, <5>1, <5>2, ExceedsTransitive
      <4> QED BY <1>4, <3>2, <4>1, <4>2
    <3>3. n < n + 1
      BY <1>4
    <3> QED BY <1>2, <2>1, <3>1, <3>2, <3>3 DEF LargestRelative
  <2>2. CASE ~(ErrorOf(n) >= threshold /\ Validation!Exceeds(RelativeOf(n), acc.percent))
    <3>1. new.percent = acc.percent
      BY <1>2, <2>2
    <3>2. ASSUME NEW k \in Validation!Index, k < n + 1, ErrorOf(k) >= threshold
          PROVE  ~Validation!Exceeds(RelativeOf(k), new.percent)
      BY <1>4, <2>2, <3>1, <3>2 DEF Known, LargestRelative
    <3>3. \/ new.percent = <<0, 1>>
          \/ \E k \in Validation!Index :
                k < n + 1 /\ ErrorOf(k) >= threshold /\ RelativeOf(k) = new.percent
      BY <1>4, <3>1 DEF Known, LargestRelative
    <3> QED BY <1>2, <3>2, <3>3 DEF LargestRelative
  <2> QED BY <2>1, <2>2
<1> QED BY <1>2, <1>6, <1>7, <1>8, <1>9 DEF Known

(* Nothing is known before the first element. *)
LEMMA UnsetIs ==
  /\ Validation!Unset \in Measures
  /\ \A b \in BOOLEAN : [Validation!Unset EXCEPT !.set = b] \in Measures
<1>1. Width \in 1 .. Width
  BY ValidationConstants
<1>2. <<0, 1>> \in Validation!Ratio /\ 0 \in Nat
  BY DEF Validation!Ratio
<1>3. Validation!Unset \in Measures
  BY <1>1, <1>2 DEF Measures, Validation!Unset
<1> QED BY <1>3 DEF Measures

(* What the end of the measurement changes *)
LEMMA FinalIs ==
  ASSUME NEW acc \in Measures, NEW f, f = Validation!Final(acc)
  PROVE  /\ f \in Measures /\ f.absolute = acc.absolute /\ f.bits = acc.bits
         /\ f.percent = <<100 * acc.percent[1], acc.percent[2]>>
         /\ f.finest = IF acc.finest = 0 THEN acc.absolute ELSE acc.finest
<1> DEFINE x == <<100 * acc.percent[1], acc.percent[2]>>
           y == IF acc.finest = 0 THEN acc.absolute ELSE acc.finest
<1>1. f = [acc EXCEPT !.percent = x, !.finest = y]
  BY DEF Validation!Final, Measures
<1>2. /\ acc.percent \in Nat \X Nat /\ acc.absolute \in Nat /\ acc.finest \in Nat
  BY DEF Measures, Validation!Ratio
<1>3. x \in Validation!Ratio /\ y \in Nat
  BY <1>2 DEF Validation!Ratio
<1> HIDE DEF x, y
<1>4. f \in Measures /\ f.absolute = acc.absolute /\ f.bits = acc.bits /\ f.percent = x /\ f.finest = y
  BY <1>1, <1>3 DEF Measures
<1> QED BY <1>4 DEF x, y

(* What is known depends on the arrays and the hints only. *)
LEMMA SameKnown ==
  ASSUME threshold' = threshold, data_out' = data_out, data_uncompressed' = data_uncompressed
  PROVE  \A acc, n : Known(acc, n)' <=> Known(acc, n)
BY DEF Known, Measures, Largest, LargestFine, LargestRelative, FewestBits, ErrorOf, RelativeOf,
       BitsOf, IsRatio, Validation!Index, Validation!Ratio, Validation!Error, Validation!Abs,
       Validation!Half, Validation!Relative, Validation!Bits, Validation!Exceeds

(* And so do the types. *)
LEMMA SameTypes ==
  /\ Validation!Array' = Validation!Array /\ Validation!Hint' = Validation!Hint
  /\ Measures' = Measures
BY DEF Validation!Array, Validation!Hint, Measures, Validation!Index, Validation!Value,
       Validation!Half, Validation!Ratio

(* A validation that has not begun *)
LEMMA ValidationInit == Init => ValidationInv
<1> SUFFICES ASSUME Init PROVE ValidationInv
  OBVIOUS
<1>1. Validation!Init
  BY DEF Init
<1>2. Hints \subseteq Validation!Hint
  BY ValidationConstants
<1>3. ValidationTypeOK
  BY <1>1, <1>2, UnsetIs DEF Validation!Init, ValidationTypeOK
<1> QED BY <1>1, <1>3 DEF Validation!Init, ValidationInv

(* The decompression failed. *)
LEMMA ValidationFail ==
  ASSUME ValidationInv, Validation!Fail PROVE ValidationInv'
<1>1. /\ ret' = "failed" /\ pc' = "done" /\ threshold' = threshold /\ data_uncompressed' = data_uncompressed /\ hints' = hints
      /\ lossless' = lossless /\ data_out' = data_out /\ element' = element /\ accuracy' = accuracy
  BY DEF Validation!Fail, Validation!call
<1>2. ValidationTypeOK'
  BY <1>1, SameTypes DEF ValidationInv, ValidationTypeOK
<1> QED BY <1>1, <1>2 DEF ValidationInv

(* The data is decompressed, and the measurement begins. *)
LEMMA ValidationDecompress ==
  ASSUME ValidationInv, Validation!Decompress PROVE ValidationInv'
<1>1. /\ pc' = "measure" /\ data_uncompressed' = data_uncompressed /\ hints' = hints
      /\ lossless' = lossless /\ element' = 1
      /\ accuracy' = [Validation!Unset EXCEPT !.set = TRUE]
      /\ ret' \in {"ok", "differs"} /\ threshold' \in Validation!Casts(hints.finest)
  BY DEF Validation!Decompress, Validation!call
<1>2. data_out' \in Validation!Array
  BY DEF Validation!Decompress, ValidationInv, ValidationTypeOK
<1>3. accuracy' \in Measures
  BY <1>1, UnsetIs
<1>6. hints.finest \in Nat
  BY DEF ValidationInv, ValidationTypeOK, Validation!Hint
<1>7. threshold' \in Int
  BY <1>1, <1>6, CastsAre
<1>8. Validation!Casts(hints.finest)' = Validation!Casts(hints.finest)
  BY <1>1 DEF Validation!Casts, Validation!Half, Validation!Value
<1>4. ValidationTypeOK'
  BY <1>1, <1>2, <1>3, <1>7, SameTypes DEF ValidationInv, ValidationTypeOK
<1>5. Known(accuracy, element)'
  <2>1. \A k \in Validation!Index : ~(k < 1)
    BY DEF Validation!Index
  <2>2. /\ accuracy' \in Measures /\ accuracy'.absolute = 0 /\ accuracy'.finest = 0
        /\ accuracy'.percent = <<0, 1>>
    BY <1>1, UnsetIs DEF Validation!Unset
  <2>3. IsRatio(<<0, 1>>)'
    BY DEF IsRatio
  <2>4. Validation!Index' = Validation!Index
    BY DEF Validation!Index
  <2> QED BY <1>1, <2>1, <2>2, <2>3, <2>4, SameTypes
          DEF Known, Largest, LargestFine, LargestRelative, FewestBits, IsRatio
<1> QED BY <1>1, <1>4, <1>5, <1>8 DEF ValidationInv

(* An element is measured. *)
LEMMA ValidationMeasure ==
  ASSUME ValidationInv, Validation!Measure PROVE ValidationInv'
<1>1. /\ pc = "measure" /\ element <= Length /\ element' = element + 1
      /\ accuracy' = Validation!With(accuracy, data_out[element], data_uncompressed[element])
      /\ pc' = pc /\ ret' = ret /\ data_uncompressed' = data_uncompressed /\ hints' = hints
      /\ lossless' = lossless /\ data_out' = data_out /\ threshold' = threshold
  BY DEF Validation!Measure, Validation!call
<1>2. /\ ValidationTypeOK /\ Known(accuracy, element) /\ ret # "precision"
      /\ threshold \in Validation!Casts(hints.finest)
  BY <1>1 DEF ValidationInv
<1>3. element \in Validation!Index
  BY <1>1, <1>2, ValidationConstants DEF ValidationTypeOK, Validation!Index
<1>4. Known(accuracy', element')
  BY <1>1, <1>2, <1>3, KnowsOneMore
<1>5. accuracy' \in Measures
  BY <1>4 DEF Known
<1>6. ValidationTypeOK'
  BY <1>1, <1>2, <1>5, SameTypes DEF ValidationTypeOK
<1>7. Known(accuracy, element)'
  <2>1. \A acc, n : Known(acc, n)' <=> Known(acc, n)
    BY <1>1, SameKnown
  <2> QED BY <1>4, <2>1
<1>8. Validation!Casts(hints.finest)' = Validation!Casts(hints.finest)
  BY <1>1 DEF Validation!Casts, Validation!Half, Validation!Value
<1> QED BY <1>1, <1>2, <1>6, <1>7, <1>8 DEF ValidationInv

(* The measurement ends, and the hints decide. *)
LEMMA ValidationReturn ==
  ASSUME ValidationInv, Validation!Return PROVE ValidationInv'
<1>1. /\ pc = "measure" /\ element > Length /\ accuracy' = Validation!Final(accuracy)
      /\ ret' = (IF lossless \/ Validation!MeetsHints(Validation!Final(accuracy)) THEN ret
                 ELSE "precision")
      /\ pc' = "done" /\ data_uncompressed' = data_uncompressed /\ hints' = hints
      /\ lossless' = lossless /\ data_out' = data_out /\ element' = element
      /\ threshold' = threshold
  BY DEF Validation!Return, Validation!call
<1>2. /\ ValidationTypeOK /\ Known(accuracy, element) /\ ret # "precision"
      /\ threshold \in Validation!Casts(hints.finest)
  BY <1>1 DEF ValidationInv
<1>3. accuracy' \in Measures
  BY <1>1, <1>2, FinalIs DEF Known
<1>4. ValidationTypeOK'
  BY <1>1, <1>2, <1>3, SameTypes DEF ValidationTypeOK
<1>5. Known(accuracy, Length + 1)
  <2>1. \A k \in Validation!Index : k < Length + 1 <=> k < element
    BY <1>1, <1>2, ValidationConstants DEF Validation!Index, ValidationTypeOK
  <2> QED BY <1>2, <2>1 DEF Known, Largest, LargestFine, LargestRelative, FewestBits
<1>6. \E acc : Known(acc, Length + 1)' /\ accuracy' = Validation!Final(acc)'
  <2>1. \A acc : Validation!Final(acc)' = Validation!Final(acc)
    BY DEF Validation!Final
  <2>2. \A acc, n : Known(acc, n)' <=> Known(acc, n)
    BY <1>1, SameKnown
  <2> QED BY <1>1, <1>5, <2>1, <2>2
<1>7. \A acc : Validation!MeetsHints(acc)' <=> Validation!MeetsHints(acc)
  BY <1>1 DEF Validation!MeetsHints, Validation!Exceeds
<1>8. Validation!MeetsHints(accuracy)' <=> Validation!MeetsHints(accuracy')
  BY <1>1 DEF Validation!MeetsHints, Validation!Exceeds
<1>9. ret' = "ok" /\ ~lossless' => Validation!MeetsHints(accuracy)'
  BY <1>1, <1>8
<1>10. ret' = "precision" => ~Validation!MeetsHints(accuracy)'
  BY <1>1, <1>2, <1>8
<1>11. Validation!Casts(hints.finest)' = Validation!Casts(hints.finest)
  BY <1>1 DEF Validation!Casts, Validation!Half, Validation!Value
<1> QED BY <1>1, <1>2, <1>4, <1>6, <1>9, <1>10, <1>11 DEF ValidationInv

(* The accuracy becomes the hints, and validation begins again. *)
LEMMA ValidationRevalidate ==
  ASSUME ValidationInv, Validation!Revalidate PROVE ValidationInv'
<1>1. /\ hints' = [absolute |-> Parts * accuracy.absolute, percent |-> accuracy.percent,
                   finest |-> Parts * accuracy.finest]
      /\ lossless' = FALSE /\ pc' = "decompress" /\ data_uncompressed' = data_uncompressed
      /\ data_out' = data_out /\ element' = element /\ accuracy' = accuracy /\ ret' = ret
      /\ threshold' = threshold
  BY DEF Validation!Revalidate
<1>2. ValidationTypeOK
  BY DEF ValidationInv
<1>3. hints' \in Validation!Hint
  <2>1. /\ accuracy.absolute \in Nat /\ accuracy.finest \in Nat
        /\ accuracy.percent \in Validation!Ratio
    BY <1>2 DEF ValidationTypeOK, Measures
  <2>2. Parts * accuracy.absolute \in Nat /\ Parts * accuracy.finest \in Nat
    BY <2>1, ValidationConstants, Products
  <2> QED BY <1>1, <2>1, <2>2 DEF Validation!Hint
<1>4. ValidationTypeOK'
  BY <1>1, <1>2, <1>3, SameTypes DEF ValidationTypeOK
<1> QED BY <1>1, <1>4 DEF ValidationInv

(* Validation rests. *)
LEMMA ValidationStutter ==
  ASSUME ValidationInv, UNCHANGED validationVars PROVE ValidationInv'
<1>1. /\ pc' = pc /\ data_uncompressed' = data_uncompressed /\ hints' = hints
      /\ lossless' = lossless /\ data_out' = data_out /\ element' = element
      /\ accuracy' = accuracy /\ ret' = ret /\ threshold' = threshold
  BY DEF validationVars
<1>2. ValidationTypeOK'
  BY <1>1, SameTypes DEF ValidationInv, ValidationTypeOK
<1>3. \A acc, n : Known(acc, n)' <=> Known(acc, n)
  BY <1>1, SameKnown
<1>4. \A acc : Validation!Final(acc)' = Validation!Final(acc)
  BY DEF Validation!Final
<1>5. Validation!MeetsHints(accuracy)' <=> Validation!MeetsHints(accuracy)
  BY <1>1 DEF Validation!MeetsHints, Validation!Exceeds
<1>6. Known(accuracy, element)' <=> Known(accuracy, element)
  BY <1>1, <1>3 DEF Known, Measures, Largest, LargestFine, LargestRelative, FewestBits, ErrorOf, RelativeOf,
       BitsOf, IsRatio, Validation!Index, Validation!Ratio, Validation!Error, Validation!Abs,
       Validation!Half, Validation!Relative, Validation!Bits, Validation!Exceeds
<1>7. Validation!Casts(hints.finest)' = Validation!Casts(hints.finest)
  BY <1>1 DEF Validation!Casts, Validation!Half, Validation!Value
<1> QED BY <1>1, <1>2, <1>3, <1>4, <1>5, <1>6, <1>7 DEF ValidationInv

(* The invariant of validation is inductive. *)
LEMMA ValidationStep ==
  ASSUME ValidationInv, [Next]_vars PROVE ValidationInv'
<1>1. CASE walk = "validate" /\ Validation!Next
  BY <1>1, ValidationFail, ValidationDecompress, ValidationMeasure, ValidationReturn,
     ValidationRevalidate DEF Validation!Next
<1>2. CASE UNCHANGED validationVars
  BY <1>2, ValidationStutter
<1> QED BY <1>1, <1>2 DEF Next, vars

-----------------------------------------------------------------------------
(* The distance is the error that is computed, or the error is negative. *)
LEMMA DistanceIs ==
  ASSUME ValidationTypeOK, NEW k \in Validation!Index
  PROVE  /\ Validation!Distance(k) \in Nat /\ Validation!Half \in Nat
         /\ Validation!Distance(k) < Validation!Half => ErrorOf(k) = Validation!Distance(k)
         /\ ErrorOf(k) >= 0 => /\ Validation!Distance(k) < Validation!Half
                               /\ ErrorOf(k) = Validation!Distance(k)
<1>1. data_out[k] \in Validation!Value /\ data_uncompressed[k] \in Validation!Value
  BY ElementsAre
<1>2. Validation!Half \in Nat
  BY ValuesAre
<1> QED BY <1>1, <1>2, ErrorIs DEF Validation!Distance, ErrorOf

(* More units are more parts. *)
LEMMA PartsOf ==
  ASSUME NEW x \in Nat, NEW y \in Nat, x <= y PROVE Parts * x <= Parts * y
<1>1. x * Parts <= y * Parts
  BY ValidationConstants, MultiplyMonotone
<1>2. Parts * x = x * Parts /\ Parts * y = y * Parts
  BY ValidationConstants, Products
<1> QED BY <1>1, <1>2

(* What is above a tolerance is no less than its whole part. *)
LEMMA FinestIs ==
  ASSUME NEW f \in Nat, NEW x \in Nat, Parts * x > f PROVE x >= f \div Parts
<1>1. Parts \in Nat \ {0}
  BY ValidationConstants
<1>2. PICK q \in Int, t \in Int :
         f = Parts * q + t /\ q = f \div Parts /\ t = f % Parts /\ 0 <= t /\ t < Parts
  BY <1>1, Quotient
<1>3. q \in Nat
  BY <1>1, <1>2, CastsAre
<1>4. ASSUME x < q PROVE FALSE
  <2>1. x <= q
    BY <1>3, <1>4
  <2>2. Parts * x <= Parts * q
    BY <1>3, <2>1, PartsOf
  <2>3. Parts * x \in Nat /\ Parts * q \in Nat
    BY <1>1, <1>3, Products
  <2> QED BY <1>2, <2>2, <2>3
<1> QED BY <1>2, <1>3, <1>4

(* A quotient n/m is as close to d/c as rounding leaves it. *)
Close(n, m, d, c) == Validation!Abs(n * c - d * m) * Ulps <= (c + d) * m

(* The percentage h1/h2, and the distance d with w/Ulps for its rounding *)
Bounds(h1, h2, d, w, c) == (100 * h2) * (Ulps * d + w) <= (Ulps * h1) * c

(* Three products of whose factors two are swapped *)
LEMMA Swapped ==
  ASSUME NEW x \in Int, NEW y \in Int, NEW z \in Int
  PROVE  (x * y) * z = (x * z) * y /\ x * (y * z) = (x * y) * z
OBVIOUS

(* Multiplying both sides of an inequality by a number *)
LEMMA Scaled ==
  ASSUME NEW x \in Int, NEW y \in Int, NEW z \in Nat, x <= y PROVE x * z <= y * z
OBVIOUS

(* Dividing both sides of an inequality by a positive number *)
LEMMA Unscaled ==
  ASSUME NEW x \in Int, NEW y \in Int, NEW z \in Nat \ {0}, x * z <= y * z PROVE x <= y
OBVIOUS

(* What a close quotient lies between, multiplied out *)
LEMMA CloseIs ==
  ASSUME NEW n \in Nat, NEW m \in Nat, NEW d \in Nat, NEW c \in Nat, Close(n, m, d, c)
  PROVE  /\ (Ulps * d - (c + d)) * m <= (n * c) * Ulps
         /\ (n * c) * Ulps <= (Ulps * d + (c + d)) * m
<1>1. PICK u \in Nat : u = Ulps
  BY ValidationConstants
<1>2. PICK x \in Int, y \in Int, w \in Int, t \in Int :
         x = n * c /\ y = d * m /\ w = (c + d) * m /\ t = x - y
  OBVIOUS
<1>3. Validation!Abs(t) * u <= w
  BY <1>1, <1>2 DEF Close
<1>4. t * u <= w /\ (-t) * u <= w
  <2>1. t <= Validation!Abs(t) /\ -t <= Validation!Abs(t) /\ Validation!Abs(t) \in Int
    BY DEF Validation!Abs
  <2>2. t * u <= Validation!Abs(t) * u
    BY <2>1, Scaled
  <2>3. (-t) * u <= Validation!Abs(t) * u
    BY <2>1, Scaled
  <2>4. t * u \in Int /\ (-t) * u \in Int /\ Validation!Abs(t) * u \in Int
    BY <2>1
  <2> QED BY <1>3, <2>2, <2>3, <2>4
<1>5. t * u = x * u - y * u /\ (-t) * u = y * u - x * u
  BY <1>2
<1>6. y * u = (u * d) * m
  <2>1. y * u = (d * m) * u /\ (d * m) * u = (d * u) * m /\ d * u = u * d
    BY <1>2, Swapped
  <2> QED BY <2>1
<1>7. PICK p \in Int, q \in Int : p = u * d /\ q = c + d
  OBVIOUS
<1>8. (p - q) * m = p * m - q * m /\ (p + q) * m = p * m + q * m
  OBVIOUS
<1>9. PICK e \in Int, f \in Int, g \in Int : e = x * u /\ f = p * m /\ g = q * m
  OBVIOUS
<1>10. e - f <= g /\ f - e <= g
  BY <1>2, <1>4, <1>5, <1>6, <1>7, <1>9
<1>11. f - g <= e /\ e <= f + g
  BY <1>10
<1> QED BY <1>1, <1>2, <1>7, <1>8, <1>9, <1>11

(* A close quotient that is no more than the percentage *)
LEMMA CloseWithin ==
  ASSUME NEW n \in Nat, NEW m \in Nat \ {0}, NEW d \in Nat, NEW c \in Nat,
         NEW h1 \in Nat, NEW h2 \in Nat, Close(n, m, d, c), (100 * n) * h2 <= h1 * m
  PROVE  Bounds(h1, h2, d, -(c + d), c)
<1>1. PICK u \in Nat, X \in Int, H \in Nat : u = Ulps /\ X = u * d - (c + d) /\ H = 100 * h2
  BY ValidationConstants
<1>2. X * m <= (n * c) * u
  BY <1>1, CloseIs
<1>3. (X * m) * H <= ((n * c) * u) * H
  <2>1. X * m \in Int /\ (n * c) * u \in Int
    OBVIOUS
  <2> QED BY <1>2, <2>1, Scaled
<1>4. (n * H) * (c * u) <= (h1 * m) * (c * u)
  <2>1. n * H = (100 * n) * h2
    BY <1>1
  <2>2. n * H \in Int /\ h1 * m \in Int /\ c * u \in Nat
    BY Products
  <2>3. n * H <= h1 * m
    BY <2>1
  <2> QED BY <2>2, <2>3, Scaled
<1>5. ((n * c) * u) * H = (n * H) * (c * u)
  OBVIOUS
<1>6. (X * m) * H = (H * X) * m
  OBVIOUS
<1>7. (h1 * m) * (c * u) = ((u * h1) * c) * m
  OBVIOUS
<1>8. (H * X) * m <= ((u * h1) * c) * m
  <2>1. /\ (X * m) * H \in Int /\ ((n * c) * u) * H \in Int /\ (h1 * m) * (c * u) \in Int
    OBVIOUS
  <2> QED BY <1>3, <1>4, <1>5, <1>6, <1>7, <2>1
<1>9. H * X <= (u * h1) * c
  <2>1. H * X \in Int /\ (u * h1) * c \in Int
    OBVIOUS
  <2> QED BY <1>8, <2>1, Unscaled
<1>10. X = Ulps * d + (-(c + d))
  BY <1>1
<1> QED BY <1>1, <1>9, <1>10 DEF Bounds

(* A close quotient of a distance that, rounded up, is within the          *)
(* percentage                                                              *)
LEMMA WithinClose ==
  ASSUME NEW n \in Nat, NEW m \in Nat \ {0}, NEW d \in Nat, NEW c \in Nat \ {0},
         NEW h1 \in Nat, NEW h2 \in Nat, Close(n, m, d, c), Bounds(h1, h2, d, c + d, c)
  PROVE  (100 * n) * h2 <= h1 * m
<1>1. PICK u \in Nat \ {0}, Y \in Nat, H \in Nat : u = Ulps /\ Y = u * d + (c + d) /\ H = 100 * h2
  <2>1. Ulps * d + (c + d) \in Nat /\ 100 * h2 \in Nat /\ Ulps \in Nat \ {0}
    BY ValidationConstants, Products
  <2> QED BY <2>1
<1>2. (n * c) * u <= Y * m
  BY <1>1, CloseIs
<1>3. H * Y <= (u * h1) * c
  BY <1>1 DEF Bounds
<1>4. (H * Y) * m <= ((u * h1) * c) * m
  <2>1. H * Y \in Int /\ (u * h1) * c \in Int
    OBVIOUS
  <2> QED BY <1>3, <2>1, Scaled
<1>5. ((n * c) * u) * H <= (Y * m) * H
  <2>1. (n * c) * u \in Int /\ Y * m \in Int
    OBVIOUS
  <2> QED BY <1>2, <2>1, Scaled
<1>6. (Y * m) * H = (H * Y) * m
  OBVIOUS
<1>7. ((n * c) * u) * H = (n * H) * (c * u)
  OBVIOUS
<1>8. ((u * h1) * c) * m = (h1 * m) * (c * u)
  OBVIOUS
<1>9. (n * H) * (c * u) <= (h1 * m) * (c * u)
  <2>1. /\ ((n * c) * u) * H \in Int /\ (Y * m) * H \in Int /\ ((u * h1) * c) * m \in Int
    OBVIOUS
  <2> QED BY <1>4, <1>5, <1>6, <1>7, <1>8, <2>1
<1>10. n * H <= h1 * m
  <2>1. n * H \in Int /\ h1 * m \in Int /\ c * u \in Nat \ {0}
    OBVIOUS
  <2> QED BY <1>9, <2>1, Unscaled
<1>11. n * H = (100 * n) * h2
  BY <1>1
<1> QED BY <1>10, <1>11

(* The relative error of an element, in the units of the hint *)
LEMMA PercentOf ==
  ASSUME ValidationTypeOK, NEW k \in Validation!Index,
         NEW scaled, scaled = <<100 * RelativeOf(k)[1], RelativeOf(k)[2]>>
  PROVE  /\ ~Validation!Exceeds(scaled, hints.percent) =>
              Validation!WithinPercent(k, -Validation!Rounding(k))
         /\ Validation!Exceeds(scaled, hints.percent) =>
              ~Validation!WithinPercent(k, Validation!Rounding(k))
<1>0. data_out[k] \in Validation!Value /\ data_uncompressed[k] \in Validation!Value
  BY ElementsAre
<1>9. data_out[k] \in Int /\ data_uncompressed[k] \in Int
  BY <1>0, ValuesAre
<1>1. /\ data_out[k] \in Validation!Value /\ data_uncompressed[k] \in Validation!Value
      /\ data_out[k] \in Int /\ data_uncompressed[k] \in Int
      /\ data_out[k] - data_uncompressed[k] \in Int
  BY <1>0, <1>9
<1>2. PICK h1 \in Nat, h2 \in Nat : hints.percent = <<h1, h2>>
  BY DEF ValidationTypeOK, Validation!Hint, Validation!Ratio
<1>3. PICK D \in Nat : D = Validation!Distance(k)
  BY <1>1, AbsIs DEF Validation!Distance
<1>4. PICK c \in Nat : c = Validation!Abs(data_out[k])
  BY <1>1, AbsIs
<1>10. PICK w \in Nat : w = Validation!Rounding(k) /\ w = IF D = 0 THEN 0 ELSE c + D
  BY <1>3, <1>4 DEF Validation!Rounding
<1>11. /\ D = 0 <=> data_out[k] = data_uncompressed[k]
       /\ c = 0 <=> data_out[k] = 0
  BY <1>1, <1>3, <1>4, AbsIs DEF Validation!Distance
<1>5. \A x \in Int : Validation!WithinPercent(k, x) <=> Bounds(h1, h2, D, x, c)
  BY <1>2, <1>3, <1>4 DEF Validation!WithinPercent, Bounds
<1>12. Ulps \in Nat \ {0}
  BY ValidationConstants
<1>6. CASE c = 0 /\ data_uncompressed[k] = 0
  <2>1. RelativeOf(k) = <<0, 1>> /\ D = 0 /\ w = 0
    BY <1>1, <1>6, <1>10, <1>11, RelativeIs DEF RelativeOf
  <2>2. scaled = <<0, 1>>
    BY <2>1
  <2>3. ~Validation!Exceeds(scaled, hints.percent)
    BY <1>2, <2>2 DEF Validation!Exceeds
  <2>4. Bounds(h1, h2, D, -w, c)
    BY <1>6, <1>12, <2>1 DEF Bounds
  <2> QED BY <1>5, <1>10, <2>3, <2>4
<1>7. CASE c = 0 /\ data_uncompressed[k] # 0
  <2>1. RelativeOf(k) = <<1, 0>> /\ D # 0 /\ w = D
    <3>1. data_out[k] = 0 /\ data_uncompressed[k] # 0
      BY <1>7, <1>11
    <3>2. D # 0
      BY <1>11, <3>1
    <3>3. w = D
      BY <1>7, <1>10, <3>2
    <3> QED BY <1>1, <3>1, <3>2, <3>3, RelativeIs DEF RelativeOf
  <2>2. scaled = <<100, 0>>
    BY <2>1
  <2>3. Validation!Exceeds(scaled, hints.percent) <=> h2 > 0
    BY <1>2, <2>2 DEF Validation!Exceeds
  <2>4. h2 > 0 => ~Bounds(h1, h2, D, w, c)
    <3> SUFFICES ASSUME h2 > 0 PROVE ~Bounds(h1, h2, D, w, c)
      OBVIOUS
    <3>1. PICK x \in Nat : x = Ulps * D
      BY <1>12, Products
    <3>2. x + w \in Nat \ {0} /\ 100 * h2 \in Nat \ {0} /\ (Ulps * h1) * c = 0
      BY <1>7, <1>12, <2>1
    <3>3. (100 * h2) * (x + w) > 0
      BY <3>2
    <3> QED BY <3>1, <3>2, <3>3 DEF Bounds
  <2>5. h2 = 0 => Bounds(h1, h2, D, -w, c)
    BY <1>7, <1>12 DEF Bounds
  <2> QED BY <1>5, <1>10, <2>3, <2>4, <2>5
<1>8. CASE c # 0
  <2>1. /\ RelativeOf(k) = Deviation[data_out[k], data_uncompressed[k]]
        /\ Validation!IsRounded(data_out[k], data_uncompressed[k])
    BY <1>1, <1>8, <1>11, RelativeIs DEF RelativeOf
  <2>0. IsRatio(RelativeOf(k))
    BY <1>1, RelativeIs DEF RelativeOf
  <2>2. PICK n \in Nat, m \in Nat : RelativeOf(k) = <<n, m>>
    BY <2>0 DEF IsRatio
  <2>3. m \in Nat \ {0} /\ (D = 0 => n = 0) /\ Close(n, m, D, c)
    BY <1>3, <1>4, <1>11, <2>1, <2>2 DEF Validation!IsRounded, Close, Validation!Distance
  <2>4. Validation!Exceeds(scaled, hints.percent) <=> (100 * n) * h2 > h1 * m
    BY <1>2, <2>2 DEF Validation!Exceeds
  <2>5. (100 * n) * h2 \in Nat /\ h1 * m \in Nat
    BY Products
  <2>6. CASE D = 0
    <3>1. n = 0 /\ w = 0
      BY <1>10, <2>3, <2>6
    <3>2. (100 * n) * h2 = 0 /\ (Ulps * h1) * c \in Nat /\ (100 * h2) * (Ulps * D + (-w)) = 0
      BY <1>12, <2>6, <3>1, Products
    <3> QED BY <1>5, <1>10, <2>4, <2>5, <3>2 DEF Bounds
  <2>7. CASE D # 0
    <3>1. w = c + D
      BY <1>10, <2>7
    <3>2. (100 * n) * h2 <= h1 * m => Bounds(h1, h2, D, -w, c)
      BY <2>3, <3>1, CloseWithin
    <3>3. Bounds(h1, h2, D, w, c) => (100 * n) * h2 <= h1 * m
      BY <1>8, <2>3, <3>1, WithinClose
    <3> QED BY <1>5, <1>10, <2>4, <2>5, <3>2, <3>3
  <2> QED BY <2>6, <2>7
<1> QED BY <1>6, <1>7, <1>8

(* A percentage that bounds the larger quotient bounds the smaller one. *)
LEMMA PercentMonotone ==
  ASSUME NEW q, NEW p, NEW h \in Nat \X Nat, IsRatio(q), IsRatio(p), ~Validation!Exceeds(q, p),
         ~Validation!Exceeds(<<100 * p[1], p[2]>>, h)
  PROVE  ~Validation!Exceeds(<<100 * q[1], q[2]>>, h)
<1>0. PICK h1 \in Nat, h2 \in Nat : h = <<h1, h2>>
  OBVIOUS
<1>1. PICK p1 \in Nat, p2 \in Nat, q1 \in Nat, q2 \in Nat :
         p = <<p1, p2>> /\ q = <<q1, q2>> /\ h = <<h1, h2>>
  BY <1>0 DEF IsRatio
<1>2. p2 = 0 => p1 > 0
  BY <1>1 DEF IsRatio
<1>3. q1 * p2 <= p1 * q2 /\ (100 * p1) * h2 <= h1 * p2
  BY <1>1, Products DEF Validation!Exceeds
<1>4. (100 * q1) * h2 <= h1 * q2
  <2>1. CASE p2 = 0
    <3>1. 100 * p1 \in Nat \ {0} /\ h1 * p2 = 0
      BY <1>2, <2>1
    <3>2. h2 = 0
      <4>1. h2 # 0 => (100 * p1) * h2 > 0
        BY <3>1
      <4> QED BY <1>3, <3>1, <4>1
    <3> QED BY <3>2, Products
  <2>2. CASE p2 # 0
    <3>1. (q1 * p2) * (100 * h2) <= (p1 * q2) * (100 * h2)
      BY <1>3, Products, MultiplyMonotone
    <3>2. ((100 * p1) * h2) * q2 <= (h1 * p2) * q2
      BY <1>3, Products, MultiplyMonotone
    <3>3. (q1 * p2) * (100 * h2) = ((100 * q1) * h2) * p2
      OBVIOUS
    <3>4. (p1 * q2) * (100 * h2) = ((100 * p1) * h2) * q2
      OBVIOUS
    <3>5. (h1 * p2) * q2 = (h1 * q2) * p2
      OBVIOUS
    <3>6. ((100 * q1) * h2) * p2 <= (h1 * q2) * p2
      <4>1. /\ (q1 * p2) * (100 * h2) \in Nat /\ (p1 * q2) * (100 * h2) \in Nat
            /\ (h1 * p2) * q2 \in Nat
        BY Products
      <4> QED BY <3>1, <3>2, <3>3, <3>4, <3>5, <4>1
    <3>7. (100 * q1) * h2 \in Nat /\ h1 * q2 \in Nat /\ p2 \in Nat \ {0}
      BY <2>2, Products
    <3> QED BY <3>6, <3>7, MultiplyCancel
  <2> QED BY <2>1, <2>2
<1>5. <<100 * q[1], q[2]>> = <<100 * q1, q2>>
  BY <1>1
<1> QED BY <1>1, <1>4, <1>5, Products DEF Validation!Exceeds

(* What is accepted is within the relative tolerance. *)
LEMMA RelativeKept == ValidationInv => Validation!AcceptedMeetsRelative
<1> SUFFICES ASSUME ValidationInv, Validation!Accepts, hints.percent[1] > 0,
                    NEW k \in Validation!Index,
                    Validation!Distance(k) \in Validation!Finest .. Validation!Half - 1
             PROVE  Validation!WithinPercent(k, -Validation!Rounding(k))
  BY DEF Validation!AcceptedMeetsRelative
<1>1. /\ ValidationTypeOK /\ Validation!MeetsHints(accuracy)
      /\ threshold \in Validation!Casts(hints.finest)
  BY DEF ValidationInv, Validation!Accepts, Validation!Returned
<1>2. PICK acc : Known(acc, Length + 1) /\ accuracy = Validation!Final(acc)
  BY DEF ValidationInv, Validation!Accepts, Validation!Returned
<1>3. k < Length + 1 /\ IsRatio(RelativeOf(k)) /\ ErrorOf(k) >= threshold
  <2>1. hints.finest \in Nat
    BY <1>1 DEF ValidationTypeOK, Validation!Hint
  <2>2. Validation!Finest \in Nat /\ (Validation!Finest < Validation!Half => threshold = Validation!Finest)
    BY <1>1, <2>1, CastsAre DEF Validation!Finest
  <2>3. /\ Validation!Half \in Nat /\ Validation!Distance(k) \in Nat
        /\ Validation!Distance(k) < Validation!Half => ErrorOf(k) = Validation!Distance(k)
    BY <1>1, DistanceIs
  <2>4. ErrorOf(k) >= threshold
    BY <2>2, <2>3
  <2> QED BY <1>1, <2>4, ElementsAre, ValidationConstants DEF Validation!Index
<1>4. ~Validation!Exceeds(RelativeOf(k), acc.percent) /\ IsRatio(acc.percent)
  BY <1>2, <1>3 DEF Known, LargestRelative
<1>5. accuracy.percent = <<100 * acc.percent[1], acc.percent[2]>>
  BY <1>2, FinalIs DEF Known
<1>6. ~Validation!Exceeds(<<100 * acc.percent[1], acc.percent[2]>>, hints.percent)
  BY <1>1, <1>5 DEF Validation!MeetsHints
<1>7. hints.percent \in Nat \X Nat
  BY <1>1 DEF ValidationTypeOK, Validation!Hint, Validation!Ratio
<1>8. ~Validation!Exceeds(<<100 * RelativeOf(k)[1], RelativeOf(k)[2]>>, hints.percent)
  BY <1>3, <1>4, <1>6, <1>7, PercentMonotone
<1> QED BY <1>1, <1>8, PercentOf

(* What is accepted is within the absolute tolerance. *)
LEMMA AbsoluteKept == ValidationInv => AcceptedMeetsAbsolute
<1> SUFFICES ASSUME ValidationInv, Validation!Accepts, hints.absolute > 0,
                    NEW k \in Validation!Index, Validation!Distance(k) < Validation!Half
             PROVE  Parts * Validation!Distance(k) <= hints.absolute
  BY DEF AcceptedMeetsAbsolute, Validation!AcceptedMeetsAbsolute
<1>1. ValidationTypeOK /\ Validation!MeetsHints(accuracy)
  BY DEF ValidationInv, Validation!Accepts, Validation!Returned
<1>2. PICK acc : Known(acc, Length + 1) /\ accuracy = Validation!Final(acc)
  BY DEF ValidationInv, Validation!Accepts, Validation!Returned
<1>3. k < Length + 1 /\ Validation!Distance(k) = ErrorOf(k) /\ Validation!Distance(k) \in Nat
  BY <1>1, DistanceIs, ValidationConstants DEF Validation!Index
<1>4. ErrorOf(k) <= acc.absolute /\ acc.absolute \in Nat
  BY <1>2, <1>3 DEF Known, Largest, Measures
<1>5. accuracy.absolute = acc.absolute
  BY <1>2, FinalIs DEF Known
<1>6. Parts * accuracy.absolute <= hints.absolute /\ hints.absolute \in Nat
  BY <1>1 DEF Validation!MeetsHints, ValidationTypeOK, Validation!Hint
<1>7. Parts * Validation!Distance(k) <= Parts * acc.absolute
  BY <1>3, <1>4, PartsOf
<1>8. Parts * Validation!Distance(k) \in Nat /\ Parts * acc.absolute \in Nat
  BY <1>3, <1>4, ValidationConstants, Products
<1> QED BY <1>5, <1>6, <1>7, <1>8

(* What is rejected misses a hint. *)
LEMMA RejectedRight == ValidationInv => Validation!RejectsOnlyUnmet
<1> SUFFICES ASSUME ValidationInv, Validation!Returned, ret = "precision"
             PROVE  \/ \E k \in Validation!Index :
                          hints.absolute > 0 /\ Parts * Validation!Distance(k) > hints.absolute
                    \/ /\ hints.percent[1] > 0
                       /\ \E k \in Validation!Index :
                             /\ Validation!Finest < Validation!Half =>
                                   Validation!Distance(k) >= Validation!Finest
                             /\ ~Validation!WithinPercent(k, Validation!Rounding(k))
                    \/ /\ hints.finest > 0
                       /\ \E k \in Validation!Index :
                             Parts * Validation!Distance(k) > hints.finest
                       /\ \A k \in Validation!Index :
                             Validation!Distance(k) \notin 1 .. Validation!Finest - 1
  BY DEF Validation!RejectsOnlyUnmet
<1>1. /\ ValidationTypeOK /\ ~Validation!MeetsHints(accuracy)
      /\ threshold \in Validation!Casts(hints.finest)
  BY DEF ValidationInv, Validation!Returned
<1>2. PICK acc : Known(acc, Length + 1) /\ accuracy = Validation!Final(acc)
  BY DEF ValidationInv, Validation!Returned
<1>3. \A k \in Validation!Index :
         /\ k < Length + 1 /\ Validation!Distance(k) \in Nat /\ Validation!Half \in Nat
         /\ ErrorOf(k) \in Int
         /\ Validation!Distance(k) < Validation!Half => ErrorOf(k) = Validation!Distance(k)
         /\ ErrorOf(k) >= 0 => /\ Validation!Distance(k) < Validation!Half
                               /\ ErrorOf(k) = Validation!Distance(k)
  BY <1>1, DistanceIs, ElementsAre, ValidationConstants DEF Validation!Index
<1>4. /\ accuracy.absolute = acc.absolute
      /\ accuracy.percent = <<100 * acc.percent[1], acc.percent[2]>>
      /\ accuracy.finest = IF acc.finest = 0 THEN acc.absolute ELSE acc.finest
  BY <1>2, FinalIs DEF Known
<1>5. /\ acc.absolute \in Nat /\ acc.finest \in Nat /\ threshold \in Int
      /\ hints.absolute \in Nat /\ hints.finest \in Nat /\ hints.percent \in Nat \X Nat
  BY <1>1, <1>2 DEF Known, Measures, ValidationTypeOK, Validation!Hint, Validation!Ratio
<1>9. /\ Validation!Finest \in Nat
      /\ Validation!Finest < Validation!Half => threshold = Validation!Finest
  BY <1>1, <1>5, CastsAre DEF Validation!Finest
<1>10. Parts * 0 = 0 /\ Parts * acc.absolute \in Nat /\ Parts * acc.finest \in Nat
  BY <1>5, ValidationConstants, Products
<1>6. CASE hints.absolute > 0 /\ ~(Parts * accuracy.absolute <= hints.absolute)
  <2>1. acc.absolute # 0
    BY <1>4, <1>5, <1>6, <1>10
  <2>2. PICK k \in Validation!Index : ErrorOf(k) = acc.absolute
    BY <1>2, <2>1 DEF Known, Largest
  <2>3. Validation!Distance(k) = acc.absolute
    BY <1>3, <1>5, <2>2
  <2>4. Parts * Validation!Distance(k) > hints.absolute
    BY <1>4, <1>5, <1>6, <1>10, <2>3
  <2> QED BY <1>6, <2>4
<1>7. CASE hints.percent[1] > 0 /\ Validation!Exceeds(accuracy.percent, hints.percent)
  <2>1. acc.percent # <<0, 1>>
    <3>1. ASSUME acc.percent = <<0, 1>> PROVE FALSE
      <4>1. accuracy.percent = <<0, 1>>
        BY <1>4, <3>1
      <4>2. PICK h1 \in Nat, h2 \in Nat : hints.percent = <<h1, h2>>
        BY <1>5
      <4> QED BY <1>7, <4>1, <4>2 DEF Validation!Exceeds
    <3> QED BY <3>1
  <2>2. PICK k \in Validation!Index : ErrorOf(k) >= threshold /\ RelativeOf(k) = acc.percent
    BY <1>2, <2>1 DEF Known, LargestRelative
  <2>3. Validation!Exceeds(<<100 * RelativeOf(k)[1], RelativeOf(k)[2]>>, hints.percent)
    BY <1>4, <1>7, <2>2
  <2>4. ~Validation!WithinPercent(k, Validation!Rounding(k))
    BY <1>1, <2>3, PercentOf
  <2>5. Validation!Finest < Validation!Half => Validation!Distance(k) >= Validation!Finest
    BY <1>3, <1>9, <2>2
  <2> QED BY <1>7, <2>4, <2>5
<1>8. CASE hints.finest > 0 /\ ~(Parts * accuracy.finest <= hints.finest)
  <2>0. /\ accuracy.finest \in Nat
        /\ \A x \in Nat : Parts * x > hints.finest => x >= Validation!Finest
    BY <1>4, <1>5, FinestIs DEF Validation!Finest
  <2>1. acc.finest = 0
    <3>1. ASSUME acc.finest # 0 PROVE FALSE
      <4>1. PICK k \in Validation!Index : ErrorOf(k) < threshold /\ ErrorOf(k) = acc.finest
        BY <1>2, <3>1 DEF Known, LargestFine
      <4>2. accuracy.finest = acc.finest /\ Parts * acc.finest > hints.finest
        BY <1>4, <1>5, <1>8, <1>10, <3>1
      <4>3. acc.finest >= Validation!Finest
        BY <1>5, <2>0, <4>2
      <4>4. acc.finest < Validation!Half /\ Validation!Half \in Nat
        BY <1>3, <1>5, <4>1
      <4> QED BY <1>3, <1>5, <1>9, <4>1, <4>3, <4>4
    <3> QED BY <3>1
  <2>2. accuracy.finest = acc.absolute /\ Parts * acc.absolute > hints.finest
    BY <1>4, <1>5, <1>8, <1>10, <2>1
  <2>3. acc.absolute # 0
    BY <1>5, <1>10, <2>2
  <2>4. PICK k \in Validation!Index : ErrorOf(k) = acc.absolute
    BY <1>2, <2>3 DEF Known, Largest
  <2>5. /\ Validation!Distance(k) = acc.absolute /\ acc.absolute < Validation!Half
        /\ Validation!Half \in Nat
    BY <1>3, <1>5, <2>4
  <2>6. Parts * Validation!Distance(k) > hints.finest
    BY <2>2, <2>5
  <2>7. threshold = Validation!Finest /\ Validation!Finest < Validation!Half
    <3>1. acc.absolute >= Validation!Finest
      BY <1>5, <2>0, <2>2
    <3> QED BY <1>5, <1>9, <2>5, <3>1
  <2>8. ASSUME NEW j \in Validation!Index
        PROVE  Validation!Distance(j) \notin 1 .. Validation!Finest - 1
    <3>1. ErrorOf(j) < threshold => ErrorOf(j) <= 0
      BY <1>2, <1>3, <2>1 DEF Known, LargestFine
    <3> QED BY <1>3, <1>5, <1>9, <2>7, <3>1
  <2> QED BY <1>8, <2>6, <2>8
<1> QED BY <1>1, <1>6, <1>7, <1>8 DEF Validation!MeetsHints

-----------------------------------------------------------------------------
(* The bits of a number from one on, and those of its residue *)
LEMMA BitOfResidue ==
  ASSUME NEW w \in Nat, NEW t \in 0 .. w - 1, NEW c \in Int
  PROVE  ((c % Two[w]) \div Two[t]) % 2 = (c \div Two[t]) % 2
<1>1. t \in Nat /\ t \in 0 .. w /\ t < w
  OBVIOUS
<1>2. Two[w] \in Nat \ {0} /\ Two[t] \in Nat \ {0}
  BY <1>1, TwoIs
<1>3. PICK g \in Nat : Two[w] = Two[t] * (2 * g)
  <2>1. PICK e \in Nat : Two[w] = Two[t] * e /\ (t < w => \E g \in Nat : e = 2 * g)
    BY <1>1, PowersDivide
  <2> QED BY <1>1, <2>1
<1>4. PICK q \in Int, u \in Int : /\ c = Two[w] * q + u /\ u = c % Two[w] /\ 0 <= u
  BY <1>2, Quotient
<1>5. PICK v \in Int, s \in Int : /\ u = Two[t] * v + s /\ v = u \div Two[t]
                                  /\ 0 <= s /\ s < Two[t]
  BY <1>2, Quotient
<1>6. (Two[t] * (2 * g)) * q = Two[t] * (2 * (g * q))
  BY <1>2
<1>7. Two[t] * (2 * (g * q)) + Two[t] * v = Two[t] * (2 * (g * q) + v)
  BY <1>2
<1>8. c = Two[t] * (2 * (g * q) + v) + s
  <2>1. PICK x \in Int, y \in Int : x = Two[t] * (2 * (g * q)) /\ y = Two[t] * v
    BY <1>2
  <2>2. c = (Two[t] * (2 * g)) * q + u
    BY <1>3, <1>4
  <2>3. c = x + u /\ u = y + s
    BY <1>5, <1>6, <2>1, <2>2
  <2>4. c = (x + y) + s
    BY <2>3
  <2> QED BY <1>7, <2>1, <2>4
<1>9. PICK f \in Int : f = g * q
  OBVIOUS
<1>10. c \div Two[t] = 2 * f + v
  <2>1. 2 * f + v \in Int /\ c = Two[t] * (2 * f + v) + s
    BY <1>8, <1>9
  <2> QED BY <1>2, <1>5, <2>1, Division2
<1>11. (2 * f + v) % 2 = v % 2
  <2>1. PICK two \in {2} : TRUE
    OBVIOUS
  <2>2. PICK h \in Int, b \in Int : v = 2 * h + b /\ 0 <= b /\ b < 2 /\ b = v % 2
    OBVIOUS
  <2>3. 2 * f + v = two * (f + h) + b /\ f + h \in Int /\ 2 * f + v \in Int /\ two \in Nat \ {0}
    BY <2>1, <2>2
  <2>4. (2 * f + v) % two = b
    BY <2>2, <2>3, <2>1, Division2
  <2> QED BY <2>1, <2>2, <2>4
<1> QED BY <1>4, <1>5, <1>10, <1>11

(* One bit more is left of a number when it is divided once less. *)
LEMMA OneBitMore ==
  ASSUME NEW n \in Int, NEW t \in Nat
  PROVE  n \div Two[t] = 2 * (n \div Two[t + 1]) + ((n \div Two[t]) % 2)
<1>1. Two[t] \in Nat \ {0} /\ Two[t + 1] = 2 * Two[t] /\ Two[t + 1] \in Nat \ {0}
  BY TwoIs
<1>2. PICK q \in Int, r \in Int : /\ n = Two[t] * q + r /\ q = n \div Two[t]
                                  /\ 0 <= r /\ r < Two[t]
  BY <1>1, Quotient
<1>3. PICK h \in Int, b \in {0, 1} : q = 2 * h + b /\ b = q % 2
  OBVIOUS
<1>4. PICK s \in Int : s = Two[t] * b + r /\ 0 <= s /\ s < 2 * Two[t]
  BY <1>1, <1>2
<1>5. n = (2 * Two[t]) * h + s
  <2>1. Two[t] * (2 * h + b) = (2 * Two[t]) * h + Two[t] * b
    BY <1>1
  <2>2. PICK x \in Int, y \in Int : x = (2 * Two[t]) * h /\ y = Two[t] * b
    BY <1>1
  <2>3. n = (x + y) + r /\ s = y + r
    BY <1>2, <1>3, <1>4, <2>1, <2>2
  <2>4. n = x + s
    BY <2>2, <2>3
  <2> QED BY <2>2, <2>4
<1>6. n \div Two[t + 1] = h
  BY <1>1, <1>4, <1>5, Division2
<1> QED BY <1>2, <1>3, <1>6

(* Two numbers have in common what is above the highest bit they differ in.*)
LEMMA LeadingEqual ==
  ASSUME NEW w \in Nat, NEW c1 \in Int, NEW c2 \in Int, NEW t \in 0 .. w,
         \A m \in 0 .. w - 1 : m >= t => (c1 \div Two[m]) % 2 = (c2 \div Two[m]) % 2
  PROVE  (c1 % Two[w]) \div Two[t] = (c2 % Two[w]) \div Two[t]
<1> DEFINE L(c, n) == (c % Two[w]) \div Two[n]
           S == 0 .. w - t
           T == {j \in S : L(c1, w - j) = L(c2, w - j)}
<1>0. Two[w] \in Nat \ {0}
  BY TwoIs
<1>1. 0 \in T
  <2>1. ASSUME NEW c \in Int PROVE L(c, w) = 0
    <3>1. PICK r \in 0 .. Two[w] - 1 : r = c % Two[w]
      BY <1>0, Division
    <3>2. PICK z \in {0} : TRUE
      OBVIOUS
    <3>3. r = Two[w] * z + r /\ 0 <= r /\ r < Two[w] /\ r \in Int /\ z \in Int
      BY <1>0, <3>1, <3>2
    <3>4. r \div Two[w] = z
      BY <1>0, <3>3, Division2
    <3> QED BY <3>1, <3>2, <3>4
  <2>2. w - 0 = w
    OBVIOUS
  <2> QED BY <2>1, <2>2
<1>2. ASSUME NEW k \in S, k # 0, k - 1 \in T PROVE k \in T
  <2>1. /\ w - k \in Nat /\ w - (k - 1) = (w - k) + 1 /\ w - k \in 0 .. w - 1 /\ w - k >= t
    BY <1>2
  <2>2. PICK m \in 0 .. w - 1 : m = w - k /\ m >= t /\ m \in Nat
    BY <2>1
  <2>3. L(c1, m + 1) = L(c2, m + 1)
    BY <1>2, <2>1, <2>2
  <2>4. c1 % Two[w] \in Int /\ c2 % Two[w] \in Int
    BY <1>0, Division
  <2>5. L(c1, m) % 2 = L(c2, m) % 2
    BY <2>2, BitOfResidue
  <2>6. /\ L(c1, m) = 2 * L(c1, m + 1) + (L(c1, m) % 2)
        /\ L(c2, m) = 2 * L(c2, m + 1) + (L(c2, m) % 2)
    BY <2>2, <2>4, OneBitMore
  <2>7. L(c1, m) = L(c2, m)
    BY <2>3, <2>5, <2>6
  <2> HIDE DEF L
  <2> QED BY <2>2, <2>7
<1>3. S \subseteq T
  <2>1. \A k \in S : k = 0 \/ (k > 0 /\ k - 1 \in S)
    OBVIOUS
  <2>2. S \in SUBSET Nat
    OBVIOUS
  <2> HIDE DEF S, T
  <2> QED BY <1>1, <1>2, <2>1, <2>2, Induction
<1>4. w - t \in S /\ w - (w - t) = t
  OBVIOUS
<1> QED BY <1>3, <1>4

(* The bits reported are in common. *)
LEMMA BitsKept == ValidationInv => Validation!BitsInCommon
<1> SUFFICES ASSUME ValidationInv, Validation!Returned, NEW k \in Validation!Index
             PROVE  Validation!Leading(data_out[k], accuracy.bits - 1)
                      = Validation!Leading(data_uncompressed[k], accuracy.bits - 1)
  BY DEF Validation!BitsInCommon
<1>1. PICK acc : Known(acc, Length + 1) /\ accuracy = Validation!Final(acc)
  BY DEF ValidationInv, Validation!Returned
<1>2. ValidationTypeOK
  BY DEF ValidationInv
<1>3. k < Length + 1 /\ BitsOf(k) \in 1 .. Width
  BY <1>2, ElementsAre, ValidationConstants DEF Validation!Index
<1>4. accuracy.bits = acc.bits /\ acc.bits \in 1 .. Width /\ acc.bits <= BitsOf(k)
  BY <1>1, <1>3, FinalIs DEF Known, Measures, FewestBits
<1>5. /\ data_out[k] \in Validation!Value /\ data_uncompressed[k] \in Validation!Value
  BY <1>2, ElementsAre
<1>6. data_out[k] \in Int /\ data_uncompressed[k] \in Int
  BY <1>5, ValuesAre
<1>7. Width \in Nat \ {0} /\ Validation!Two = Two
  BY ValidationConstants
<1>8. PICK t \in 0 .. Width : t = Width - (accuracy.bits - 1) /\ t > Width - BitsOf(k)
  BY <1>3, <1>4, <1>7
<1>9. \A m \in 0 .. Width - 1 : m >= t =>
         (data_out[k] \div Two[m]) % 2 = (data_uncompressed[k] \div Two[m]) % 2
  <2>1. \A m \in 0 .. Width - 1 : m >= t => m > Width - BitsOf(k)
    BY <1>3, <1>7, <1>8
  <2> QED BY <1>5, <2>1, BitsIs DEF BitsOf
<1>10. (data_out[k] % Two[Width]) \div Two[t] = (data_uncompressed[k] % Two[Width]) \div Two[t]
  BY <1>6, <1>7, <1>9, LeadingEqual
<1> QED BY <1>7, <1>8, <1>10 DEF Validation!Leading

(* In every state of scil_validate_compression the accuracy is the one of  *)
(* the elements that scil_determine_accuracy has measured so far.          *)
THEOREM ValidationInductive == Spec => []ValidationInv
BY ValidationInit, ValidationStep, PTL DEF Spec

(* What scil_validate_compression accepts is within the absolute tolerance,*)
(* wherever the type can hold the distances.                               *)
THEOREM AbsoluteToleranceKept == Spec => []AcceptedMeetsAbsolute
BY ValidationInductive, AbsoluteKept, PTL

(* The verdict of scil_validate_compression, and the accuracy it reports:  *)
(* what is accepted keeps the relative tolerance, what is rejected misses a*)
(* hint, and the bits reported are in common.                              *)
THEOREM VerdictRight == Spec => []VerdictIsRight
<1>1. ValidationInv => VerdictIsRight
  BY RelativeKept, RejectedRight, BitsKept DEF VerdictIsRight, Validation!VerdictIsRight
<1> QED BY <1>1, ValidationInductive, PTL

-----------------------------------------------------------------------------
(* The iteration (ScilGrid) *)

Before(p, q, s) == \E j \in 1 .. s : p[j] < q[j] /\ \A k \in 1 .. j - 1 : p[k] = q[k]
Same(p, q, s)   == \A k \in 1 .. s : p[k] = q[k]

GridTypeOK ==
    /\ place \in {"idle", "walk", "propagate", "done"}
    /\ place # "idle" => iteration \in Calls
    /\ place = "walk" => stackpos = Grid!Rank
    /\ place = "propagate" => stackpos \in 0 .. Grid!Rank - 1

(* What was visited comes before the position, and after the step of a     *)
(* dimension before or at it, as far as the dimensions go that are left.   *)
Visiting ==
    /\ pos \in Grid!Positions(iteration)
    /\ visited \in Seq(Grid!Positions(iteration))
    /\ Grid!IsInjective(visited)
    /\ place = "walk" =>
          Grid!AsSet = {p \in Grid!Positions(iteration) : Before(p, pos, Grid!Rank - 1)}
    /\ place = "propagate" =>
          /\ Grid!AsSet = {p \in Grid!Positions(iteration) :
                              Before(p, pos, stackpos) \/ Same(p, pos, stackpos)}
          /\ \A j \in stackpos + 1 .. Grid!Rank - 1 : pos[j] = iteration.offset[j]
    /\ place = "done" => Grid!AsSet = Grid!Positions(iteration)

GridInv == GridTypeOK /\ (place # "idle" /\ Grid!NotEmpty(iteration) => Visiting)

(* The arguments of an iteration *)
LEMMA GridConstants ==
  ASSUME NEW c \in Calls
  PROVE  /\ c.dims \in Seq(Nat \ {0}) /\ Len(c.dims) \in Nat \ {0}
         /\ DOMAIN c.dims = 1 .. Len(c.dims)
         /\ \A j \in DOMAIN c.dims :
               /\ c.dims[j] \in Nat \ {0} /\ c.offset[j] \in Nat /\ c.ende[j] \in Nat
               /\ c.iter[j] \in Nat \ {0} /\ c.ende[j] <= c.dims[j]
         /\ c.offset \in [DOMAIN c.dims -> Nat]
<1>1. Grid!GridAssumption
  BY ArraysAssumption DEF ArraysAssumption
<1>2. /\ c.dims \in Seq(Nat \ {0}) /\ Len(c.dims) > 0
      /\ c.offset \in [DOMAIN c.dims -> Nat] /\ c.ende \in [DOMAIN c.dims -> Nat]
      /\ c.iter \in [DOMAIN c.dims -> Nat \ {0}]
      /\ \A j \in DOMAIN c.dims : c.ende[j] <= c.dims[j]
  BY <1>1 DEF Grid!GridAssumption
<1>3. DOMAIN c.dims = 1 .. Len(c.dims) /\ Len(c.dims) \in Nat \ {0}
  BY <1>2
<1>4. \A j \in DOMAIN c.dims : c.dims[j] \in Nat \ {0}
  BY <1>2, <1>3
<1> QED BY <1>2, <1>3, <1>4

(* The steps of a dimension, where there are some *)
LEMMA StepsAre ==
  ASSUME NEW c \in Calls, NEW j \in DOMAIN c.dims
  PROVE  /\ Grid!Steps(c, j) \subseteq Nat
         /\ \A k \in Grid!Steps(c, j) : c.offset[j] <= k /\ k < c.ende[j]
         /\ c.offset[j] < c.ende[j] => c.offset[j] \in Grid!Steps(c, j)
         /\ \A k \in Grid!Steps(c, j) :
               k + c.iter[j] < c.ende[j] => k + c.iter[j] \in Grid!Steps(c, j)
         /\ \A k, m \in Grid!Steps(c, j) : k < m => k + c.iter[j] <= m
<1> DEFINE lo == c.offset[j]
           hi == c.ende[j]
           s == c.iter[j]
<1>1. lo \in Nat /\ hi \in Nat /\ s \in Nat \ {0}
  BY GridConstants
<1>2. Grid!Steps(c, j) = {k \in lo .. hi - 1 : (k - lo) % s = 0}
  BY DEF Grid!Steps
<1> HIDE DEF lo, hi, s
<1>3. ASSUME NEW k \in Grid!Steps(c, j)
      PROVE  k \in Nat /\ lo <= k /\ k < hi /\ \E q \in Nat : k = lo + s * q
  <2>1. k \in lo .. hi - 1 /\ (k - lo) % s = 0 /\ k - lo \in Nat
    BY <1>1, <1>2, <1>3
  <2>2. PICK q \in Int : k - lo = s * q /\ q = (k - lo) \div s
    <3>1. k - lo = s * ((k - lo) \div s) + ((k - lo) % s) /\ (k - lo) \div s \in Int
      BY <1>1, <2>1, Division
    <3> QED BY <1>1, <2>1, <3>1
  <2>3. q \in Nat
    BY <1>1, <2>1, <2>2
  <2>4. PICK x \in Nat : x = s * q /\ k - lo = x
    BY <1>1, <2>2, <2>3
  <2>5. k = lo + x
    BY <1>1, <2>1, <2>4
  <2>6. k = lo + s * q
    BY <2>4, <2>5
  <2> QED BY <1>1, <2>1, <2>3, <2>6
<1>4. ASSUME NEW q \in Nat, lo + s * q < hi PROVE lo + s * q \in Grid!Steps(c, j)
  <2>1. s * q \in Nat
    BY <1>1
  <2>2. PICK z \in {0} : TRUE
    OBVIOUS
  <2>3. PICK n \in Nat : n = s * q + z
    BY <2>1, <2>2
  <2>4. n % s = z
    BY <1>1, <2>2, <2>3, Division2
  <2>5. (lo + s * q) - lo = n
    BY <1>1, <2>1, <2>2, <2>3
  <2> QED BY <1>1, <1>2, <1>4, <2>1, <2>2, <2>4, <2>5
<1>5. lo < hi => lo \in Grid!Steps(c, j)
  BY <1>1, <1>2
<1>6. ASSUME NEW k \in Grid!Steps(c, j), k + s < hi PROVE k + s \in Grid!Steps(c, j)
  <2>1. PICK q \in Nat : k = lo + s * q
    BY <1>3
  <2>2. s * (q + 1) = s * q + s /\ s * q \in Nat
    BY <1>1
  <2>3. k + s = lo + s * (q + 1) /\ q + 1 \in Nat
    BY <1>1, <2>1, <2>2
  <2> QED BY <1>4, <1>6, <2>3
<1>7. ASSUME NEW k \in Grid!Steps(c, j), NEW m \in Grid!Steps(c, j), k < m PROVE k + s <= m
  <2>1. PICK q \in Nat, r \in Nat : k = lo + s * q /\ m = lo + s * r
    BY <1>3
  <2>2. s * q \in Nat /\ s * r \in Nat
    BY <1>1
  <2>3. s * q < s * r
    BY <1>1, <1>7, <2>1, <2>2
  <2>4. q < r
    <3>1. ASSUME r <= q PROVE FALSE
      <4>1. PICK d \in Nat : q = r + d
        BY <3>1
      <4>2. s * q = s * r + s * d /\ s * d \in Nat
        BY <1>1, <4>1
      <4> QED BY <2>2, <2>3, <4>2
    <3> QED BY <3>1
  <2>5. PICK d \in Nat : r = (q + 1) + d
    BY <2>4
  <2>6. s * r = (s * q + s) + s * d /\ s * d \in Nat
    BY <1>1, <2>5
  <2> QED BY <1>1, <2>1, <2>2, <2>6
<1> QED BY <1>3, <1>5, <1>6, <1>7 DEF lo, hi, s

(* The passes of the loop over a dimension meet each of its steps once. *)
LEMMA PassesAre ==
  ASSUME NEW c \in Calls, NEW j \in DOMAIN c.dims, c.offset[j] < c.ende[j]
  PROVE  /\ Grid!Passes(c, j) \in Nat \ {0}
         /\ \A m \in 1 .. Grid!Passes(c, j) : Grid!At(c, j, m) \in Grid!Steps(c, j)
         /\ \A k \in Grid!Steps(c, j) : \E m \in 1 .. Grid!Passes(c, j) : k = Grid!At(c, j, m)
         /\ \A m, n \in 1 .. Grid!Passes(c, j) : Grid!At(c, j, m) = Grid!At(c, j, n) => m = n
<1> DEFINE lo == c.offset[j]
           hi == c.ende[j]
           s == c.iter[j]
<1>1. lo \in Nat /\ hi \in Nat /\ s \in Nat \ {0} /\ lo < hi
  BY GridConstants
<1>2. Grid!Steps(c, j) = {k \in lo .. hi - 1 : (k - lo) % s = 0}
  BY DEF Grid!Steps
<1>3. /\ Grid!Passes(c, j) = ((hi - lo) - 1) \div s + 1
      /\ \A m : Grid!At(c, j, m) = lo + (m - 1) * s
  BY <1>1 DEF Grid!Passes, Grid!At
<1> HIDE DEF lo, hi, s
<1>4. PICK d \in Nat, q \in Nat, r \in Nat :
         d = (hi - lo) - 1 /\ q = d \div s /\ d = s * q + r /\ r < s
  <2>1. PICK d \in Nat : d = (hi - lo) - 1
    BY <1>1
  <2>2. d = s * (d \div s) + (d % s) /\ d % s \in 0 .. s - 1 /\ d \div s \in Int
    BY <1>1, <2>1, Division
  <2>3. d \div s \in Nat
    BY <1>1, <2>1, <2>2
  <2> QED BY <1>1, <2>1, <2>2, <2>3
<1>5. Grid!Passes(c, j) = q + 1
  BY <1>3, <1>4
<1>6. ASSUME NEW m \in 1 .. q + 1 PROVE Grid!At(c, j, m) \in Grid!Steps(c, j)
  <2>1. PICK n \in Nat : n = m - 1 /\ n <= q
    OBVIOUS
  <2>2. PICK f \in Nat : q = n + f
    BY <2>1
  <2>3. s * q = s * n + s * f /\ s * n \in Nat /\ s * f \in Nat /\ n * s = s * n
    BY <1>1, <2>2
  <2>4. s * n <= (hi - lo) - 1
    BY <1>1, <1>4, <2>3
  <2>5. PICK z \in {0} : TRUE
    OBVIOUS
  <2>6. PICK e \in Nat : e = s * n + z
    BY <2>3, <2>5
  <2>7. e % s = z
    BY <1>1, <2>5, <2>6, Division2
  <2>8. Grid!At(c, j, m) = lo + e /\ (lo + e) - lo = e /\ lo + e \in lo .. hi - 1
    BY <1>1, <1>3, <2>1, <2>3, <2>4, <2>5, <2>6
  <2> QED BY <1>2, <2>5, <2>7, <2>8
<1>7. ASSUME NEW k \in Grid!Steps(c, j) PROVE \E m \in 1 .. q + 1 : k = Grid!At(c, j, m)
  <2>1. k \in lo .. hi - 1 /\ (k - lo) % s = 0 /\ k - lo \in Nat /\ k - lo <= d
    BY <1>1, <1>2, <1>4, <1>7
  <2>2. PICK n \in Int : k - lo = s * n
    <3>1. k - lo = s * ((k - lo) \div s) + ((k - lo) % s) /\ (k - lo) \div s \in Int
      BY <1>1, <2>1, Division
    <3> QED BY <1>1, <2>1, <3>1
  <2>3. n \in Nat
    BY <1>1, <2>1, <2>2
  <2>4. n <= q
    <3>1. ASSUME n > q PROVE FALSE
      <4>1. PICK f \in Nat : n = (q + 1) + f
        BY <2>3, <3>1
      <4>2. s * n = (s * q + s) + s * f /\ s * f \in Nat /\ s * q \in Nat
        BY <1>1, <4>1
      <4> QED BY <1>1, <1>4, <2>1, <2>2, <4>2
    <3> QED BY <2>3, <3>1
  <2>5. n + 1 \in 1 .. q + 1 /\ (n + 1) - 1 = n /\ n * s = s * n
    BY <1>1, <2>3, <2>4
  <2>6. k = Grid!At(c, j, n + 1)
    <3>1. Grid!At(c, j, n + 1) = lo + n * s
      BY <1>3, <2>5
    <3>2. PICK x \in Nat : x = n * s /\ k - lo = x
      BY <1>1, <2>2, <2>3, <2>5
    <3>3. k = lo + x
      BY <1>1, <2>1, <3>2
    <3> QED BY <3>1, <3>2, <3>3
  <2> QED BY <2>5, <2>6
<1>8. ASSUME NEW m \in 1 .. q + 1, NEW n \in 1 .. q + 1, Grid!At(c, j, m) = Grid!At(c, j, n)
      PROVE  m = n
  <2>1. PICK x \in Nat, y \in Nat : x = m - 1 /\ y = n - 1
    OBVIOUS
  <2>2. x * s = y * s
    <3>1. x * s \in Nat /\ y * s \in Nat
      BY <1>1
    <3> QED BY <1>1, <1>3, <1>8, <2>1, <3>1
  <2>3. x = y
    BY <1>1, <2>2
  <2> QED BY <2>1, <2>3
<1> QED BY <1>5, <1>6, <1>7, <1>8

(* A position is a step of each dimension. *)
LEMMA PositionsAre ==
  ASSUME NEW c \in Calls
  PROVE  /\ \A p \in Grid!Positions(c) :
               /\ p \in [1 .. Len(c.dims) -> Nat]
               /\ \A j \in 1 .. Len(c.dims) : p[j] \in Grid!Steps(c, j)
         /\ \A p : p \in [1 .. Len(c.dims) -> Nat]
                      /\ (\A j \in 1 .. Len(c.dims) : p[j] \in Grid!Steps(c, j))
                      => p \in Grid!Positions(c)
<1>1. DOMAIN c.dims = 1 .. Len(c.dims)
  BY GridConstants
<1>2. \A j \in DOMAIN c.dims : Grid!Steps(c, j) \subseteq Nat
  BY StepsAre
<1>3. UNION {Grid!Steps(c, j) : j \in DOMAIN c.dims} \subseteq Nat
  BY <1>2
<1> QED BY <1>1, <1>3 DEF Grid!Positions

(* The number of elements is the product of the lengths. *)
LEMMA CountIs ==
  ASSUME Grid!Rank \in Nat \ {0}, \A k \in 1 .. Grid!Rank : iteration.dims[k] \in Nat
  PROVE  \E f \in [0 .. Grid!Rank -> Nat] :
            /\ Grid!Count = f[Grid!Rank]
            /\ \A k \in 0 .. Grid!Rank : f[k] = IF k = 0 THEN 1 ELSE f[k - 1] * iteration.dims[k]
<1> DEFINE S == 0 .. Grid!Rank
           H == [k \in S |-> [v \in Nat |-> IF k = 0 THEN 1 ELSE v * iteration.dims[k]]]
<1>1. ASSUME NEW b \in {0}, NEW a \in {1}, NEW D, D = Nat
      PROVE  \E f \in [S -> D] : Follows(f, b, S, a, H)
  <2>0. \A k \in S : k \in Nat /\ (k = 0 \/ iteration.dims[k] \in Nat)
    OBVIOUS
  <2>1. \A k \in S : H[k] \in [D -> D]
    BY <1>1, <2>0
  <2>2. \A k \in S : k = b \/ (k > b /\ k - 1 \in S)
    OBVIOUS
  <2>3. b \in Nat /\ a \in D /\ S \in SUBSET Nat /\ b \in S
    BY <1>1
  <2> HIDE DEF H, S
  <2> QED BY <2>1, <2>2, <2>3, Recursion
<1>2. \E f \in [S -> Nat] : Follows(f, 0, S, 1, H)
  <2> HIDE DEF H, S
  <2> QED BY <1>1
<1>3. PICK f \in [S -> Nat] : Follows(f, 0, S, 1, H)
  BY <1>2
<1>4. \A k \in S : f[k] = IF k = 0 THEN 1 ELSE f[k - 1] * iteration.dims[k]
  <2> SUFFICES ASSUME NEW k \in S, k # 0 PROVE H[k][f[k - 1]] = f[k - 1] * iteration.dims[k]
    BY <1>3 DEF Follows
  <2>1. f[k - 1] \in Nat
    OBVIOUS
  <2> QED BY <2>1
<1> DEFINE product[k \in 0 .. Grid!Rank] == IF k = 0 THEN 1 ELSE product[k - 1] * iteration.dims[k]
<1>5. f = [k \in 0 .. Grid!Rank |-> IF k = 0 THEN 1 ELSE f[k - 1] * iteration.dims[k]]
  BY <1>4
<1>6. product = [k \in 0 .. Grid!Rank |-> IF k = 0 THEN 1 ELSE product[k - 1] * iteration.dims[k]]
  BY <1>5
<1>7. Grid!Count = product[Grid!Rank]
  BY DEF Grid!Count
<1>8. PICK g : g = product
  OBVIOUS
<1>9. g = [k \in S |-> IF k = 0 THEN 1 ELSE g[k - 1] * iteration.dims[k]] /\ Grid!Count = g[Grid!Rank]
  BY <1>6, <1>7, <1>8
<1> DEFINE T == {k \in S : g[k] \in Nat}
<1> HIDE DEF product, H
<1>10. S \subseteq T
  <2>1. 0 \in T
    BY <1>9
  <2>2. ASSUME NEW k \in S, k # 0, k - 1 \in T PROVE k \in T
    <3>1. g[k] = g[k - 1] * iteration.dims[k] /\ iteration.dims[k] \in Nat /\ g[k - 1] \in Nat
      BY <1>9, <2>2
    <3> QED BY <3>1
  <2>3. \A k \in S : k = 0 \/ (k > 0 /\ k - 1 \in S)
    OBVIOUS
  <2>4. S \in SUBSET Nat
    OBVIOUS
  <2> HIDE DEF T, S
  <2> QED BY <2>1, <2>2, <2>3, <2>4, Induction
<1>11. g \in [S -> Nat]
  BY <1>9, <1>10
<1>12. \A k \in S : g[k] = IF k = 0 THEN 1 ELSE g[k - 1] * iteration.dims[k]
  BY <1>9
<1> QED BY <1>9, <1>11, <1>12

-----------------------------------------------------------------------------
(* The rank of the array that is walked *)
LEMMA GridRank ==
  ASSUME GridTypeOK, place # "idle"
  PROVE  /\ iteration \in Calls /\ Grid!Rank \in Nat \ {0} /\ Grid!Rank = Len(iteration.dims)
         /\ DOMAIN iteration.dims = 1 .. Grid!Rank
BY GridConstants DEF GridTypeOK, Grid!Rank

(* What depends on the arguments alone *)
LEMMA SameCall ==
  ASSUME iteration' = iteration
  PROVE  Grid!Rank' = Grid!Rank /\ Grid!Positions(iteration)' = Grid!Positions(iteration)
         /\ Grid!NotEmpty(iteration)' = Grid!NotEmpty(iteration)
BY DEF Grid!Rank, Grid!Positions, Grid!Steps, Grid!NotEmpty

(* No iteration has begun. *)
LEMMA GridInit == Grid!Init => GridInv
BY DEF Grid!Init, GridInv, GridTypeOK

(* An iteration begins at its offset, and has visited nothing. *)
LEMMA GridBegin ==
  ASSUME GridInv, place = "idle", NEW c \in Calls, Grid!Begin(c) PROVE GridInv'
<1>1. /\ iteration' = c /\ pos' = c.offset /\ stackpos' = Len(c.dims) /\ visited' = <<>>
      /\ place' = "walk"
  BY DEF Grid!Begin
<1>2. Grid!Rank' = Len(c.dims) /\ Grid!Positions(iteration)' = Grid!Positions(c)
      /\ Grid!NotEmpty(iteration)' = Grid!NotEmpty(c)
  BY <1>1 DEF Grid!Rank, Grid!Positions, Grid!Steps, Grid!NotEmpty
<1>3. GridTypeOK'
  BY <1>1, <1>2 DEF GridTypeOK
<1>4. ASSUME Grid!NotEmpty(c) PROVE Visiting'
  <2>1. Len(c.dims) \in Nat \ {0} /\ DOMAIN c.dims = 1 .. Len(c.dims)
        /\ c.offset \in [1 .. Len(c.dims) -> Nat]
    BY GridConstants
  <2>2. \A j \in 1 .. Len(c.dims) : c.offset[j] \in Grid!Steps(c, j)
    BY <1>4, <2>1, StepsAre DEF Grid!NotEmpty
  <2>3. c.offset \in Grid!Positions(c)
    BY <2>1, <2>2, PositionsAre
  <2>4. ASSUME NEW p \in Grid!Positions(c) PROVE ~Before(p, c.offset, Len(c.dims) - 1)
    <3>1. ASSUME NEW j \in 1 .. Len(c.dims) PROVE ~(p[j] < c.offset[j])
      <4>1. p[j] \in Grid!Steps(c, j) /\ j \in DOMAIN c.dims /\ c.offset[j] \in Nat
        BY <2>1, PositionsAre
      <4>2. c.offset[j] <= p[j] /\ p[j] \in Nat
        BY <4>1, StepsAre
      <4> QED BY <4>1, <4>2
    <3> QED BY <2>1, <3>1 DEF Before
  <2>5. Grid!AsSet' = {}
    BY <1>1 DEF Grid!AsSet
  <2>6. Grid!AsSet' = {p \in Grid!Positions(c) : Before(p, c.offset, Len(c.dims) - 1)}
    BY <2>4, <2>5
  <2>7. Grid!IsInjective(visited)'
    BY <1>1 DEF Grid!IsInjective
  <2>8. visited' \in Seq(Grid!Positions(c))
    BY <1>1
  <2>9. \A p, q, s : Before(p, q, s)' = Before(p, q, s)
    BY DEF Before
  <2>10. {p \in Grid!Positions(iteration) : Before(p, pos, Grid!Rank - 1)}'
            = {p \in Grid!Positions(c) : Before(p, c.offset, Len(c.dims) - 1)}
    BY <1>1, <1>2 DEF Before
  <2> QED BY <1>1, <1>2, <2>3, <2>6, <2>7, <2>8, <2>10 DEF Visiting
<1> QED BY <1>1, <1>2, <1>3, <1>4 DEF GridInv

(* A sequence with another one behind it *)
LEMMA Appended ==
  ASSUME NEW P, NEW s \in Seq(P), NEW n \in Nat, NEW f \in [1 .. n -> P],
         NEW t, t = s \o f
  PROVE  /\ t \in Seq(P)
         /\ \A k \in DOMAIN s : k \in DOMAIN t /\ t[k] = s[k]
         /\ \A k \in 1 .. n : Len(s) + k \in DOMAIN t /\ t[Len(s) + k] = f[k]
         /\ \A k \in DOMAIN t :
               k \in DOMAIN s \/ (k - Len(s) \in 1 .. n /\ k = Len(s) + (k - Len(s)))
<1>1. f \in Seq(P) /\ Len(f) = n /\ DOMAIN f = 1 .. n
  OBVIOUS
<1>2. /\ t \in Seq(P) /\ Len(t) = Len(s) + n /\ Len(s) \in Nat
      /\ DOMAIN s = 1 .. Len(s) /\ DOMAIN t = 1 .. Len(s) + n
  BY <1>1
<1>3. \A k \in DOMAIN s : k \in DOMAIN t /\ t[k] = s[k]
  BY <1>1, <1>2
<1>4. \A k \in 1 .. n : Len(s) + k \in DOMAIN t /\ t[Len(s) + k] = f[k]
  BY <1>1, <1>2
<1>5. \A k \in DOMAIN t : k \in DOMAIN s \/ (k - Len(s) \in 1 .. n /\ k = Len(s) + (k - Len(s)))
  BY <1>1, <1>2
<1> QED BY <1>2, <1>3, <1>4, <1>5

Apart(s, f) == \A j \in DOMAIN s, k \in DOMAIN f : s[j] # f[k]

(* The elements of a sequence are those of two others. *)
Joined(t, s, f) ==
    /\ \A k \in DOMAIN t : (\E j \in DOMAIN s : t[k] = s[j]) \/ (\E j \in DOMAIN f : t[k] = f[j])
    /\ \A j \in DOMAIN s : \E k \in DOMAIN t : t[k] = s[j]
    /\ \A j \in DOMAIN f : \E k \in DOMAIN t : t[k] = f[j]

(* The same, of elements none of which is there twice *)
LEMMA AppendedOnce ==
  ASSUME NEW P, NEW s \in Seq(P), NEW n \in Nat, NEW f \in [1 .. n -> P],
         Grid!IsInjective(s), Grid!IsInjective(f), Apart(s, f), NEW t, t = s \o f
  PROVE  t \in Seq(P) /\ Joined(t, s, f) /\ Grid!IsInjective(t)
<1>0. DOMAIN f = 1 .. n
  OBVIOUS
<1>2. /\ \A j, k \in DOMAIN s : s[j] = s[k] => j = k
      /\ \A j, k \in 1 .. n : f[j] = f[k] => j = k
      /\ \A j \in DOMAIN s, k \in 1 .. n : s[j] # f[k]
  BY <1>0 DEF Grid!IsInjective, Apart
<1>1. t \in Seq(P)
  BY Appended
<1>3. \A k \in DOMAIN s : k \in DOMAIN t /\ t[k] = s[k]
  BY Appended
<1>4. \A k \in 1 .. n : Len(s) + k \in DOMAIN t /\ t[Len(s) + k] = f[k]
  BY Appended
<1>5. \A k \in DOMAIN t : k \in DOMAIN s \/ (k - Len(s) \in 1 .. n /\ k = Len(s) + (k - Len(s)))
  BY Appended
<1>7. ASSUME NEW i \in DOMAIN t, NEW m \in DOMAIN t, t[i] = t[m] PROVE i = m
  <2>1. CASE i \in DOMAIN s /\ m \in DOMAIN s
    BY <1>2, <1>3, <1>7, <2>1
  <2>2. CASE i \in DOMAIN s /\ m \notin DOMAIN s
    BY <1>2, <1>3, <1>4, <1>5, <1>7, <2>2
  <2>3. CASE i \notin DOMAIN s /\ m \in DOMAIN s
    BY <1>2, <1>3, <1>4, <1>5, <1>7, <2>3
  <2>4. CASE i \notin DOMAIN s /\ m \notin DOMAIN s
    BY <1>2, <1>3, <1>4, <1>5, <1>7, <2>4
  <2> QED BY <2>1, <2>2, <2>3, <2>4
<1>8. ASSUME NEW k \in DOMAIN t
      PROVE  (\E j \in DOMAIN s : t[k] = s[j]) \/ (\E j \in DOMAIN f : t[k] = f[j])
  <2>1. CASE k \in DOMAIN s
    BY <1>3, <2>1
  <2>2. CASE k \notin DOMAIN s
    <3>1. PICK j \in 1 .. n : k = Len(s) + j
      BY <1>5, <2>2
    <3>2. t[k] = f[j]
      BY <1>4, <3>1
    <3> QED BY <1>0, <3>2
  <2> QED BY <2>1, <2>2
<1>9. \A j \in DOMAIN s : \E k \in DOMAIN t : t[k] = s[j]
  BY <1>3
<1>10. \A j \in DOMAIN f : \E k \in DOMAIN t : t[k] = f[j]
  BY <1>0, <1>4
<1>11. Joined(t, s, f)
  BY <1>8, <1>9, <1>10 DEF Joined
<1>12. Grid!IsInjective(t)
  BY <1>7 DEF Grid!IsInjective
<1> QED BY <1>1, <1>11, <1>12

(* The walk over the last dimension visits the row of the position. *)
LEMMA GridWalk ==
  ASSUME GridInv, Grid!Walk PROVE GridInv'
<1> DEFINE R == Grid!Rank
           passes == Grid!Passes(iteration, R)
           line == [k \in 1 .. passes |-> [pos EXCEPT ![R] = Grid!At(iteration, R, k)]]
<1>1. /\ place = "walk" /\ place' = "propagate" /\ stackpos = R /\ stackpos' = R - 1
      /\ iteration' = iteration /\ visited' = visited \o line
      /\ pos' = IF passes = 0 THEN pos ELSE [pos EXCEPT ![R] = Grid!At(iteration, R, passes)]
      /\ GridTypeOK
  BY DEF Grid!Walk, GridInv, GridTypeOK
<1>2. /\ iteration \in Calls /\ R \in Nat \ {0} /\ R = Len(iteration.dims)
      /\ DOMAIN iteration.dims = 1 .. R
  BY <1>1, GridRank
<1>3. /\ Grid!Rank' = R /\ Grid!Positions(iteration)' = Grid!Positions(iteration)
      /\ Grid!NotEmpty(iteration)' = Grid!NotEmpty(iteration)
  BY <1>1, SameCall
<1>4. GridTypeOK'
  BY <1>1, <1>2, <1>3 DEF GridTypeOK
<1>5. ASSUME Grid!NotEmpty(iteration) PROVE Visiting'
  <2> DEFINE P == Grid!Positions(iteration)
  <2>1. /\ pos \in P /\ visited \in Seq(P) /\ Grid!IsInjective(visited)
        /\ Grid!AsSet = {p \in P : Before(p, pos, R - 1)}
    BY <1>1, <1>5 DEF GridInv, Visiting
  <2>2. R \in DOMAIN iteration.dims /\ iteration.offset[R] < iteration.ende[R]
    BY <1>2, <1>5 DEF Grid!NotEmpty
  <2>3. /\ passes \in Nat \ {0}
        /\ \A m \in 1 .. passes : Grid!At(iteration, R, m) \in Grid!Steps(iteration, R)
        /\ \A k \in Grid!Steps(iteration, R) : \E m \in 1 .. passes : k = Grid!At(iteration, R, m)
        /\ \A m, n \in 1 .. passes :
              Grid!At(iteration, R, m) = Grid!At(iteration, R, n) => m = n
    BY <1>2, <2>2, PassesAre
  <2> HIDE DEF passes
  <2>4. /\ pos \in [1 .. R -> Nat]
        /\ \A j \in 1 .. R : pos[j] \in Grid!Steps(iteration, j)
    BY <1>2, <2>1, PositionsAre
  <2>5. ASSUME NEW m \in 1 .. passes
        PROVE  /\ [pos EXCEPT ![R] = Grid!At(iteration, R, m)] \in P
               /\ [pos EXCEPT ![R] = Grid!At(iteration, R, m)][R] = Grid!At(iteration, R, m)
               /\ Same([pos EXCEPT ![R] = Grid!At(iteration, R, m)], pos, R - 1)
    <3> DEFINE p == [pos EXCEPT ![R] = Grid!At(iteration, R, m)]
    <3>1. Grid!At(iteration, R, m) \in Grid!Steps(iteration, R)
      BY <2>3
    <3>2. Grid!At(iteration, R, m) \in Nat
      BY <1>2, <2>2, <3>1, StepsAre
    <3>3. /\ p \in [1 .. R -> Nat] /\ p[R] = Grid!At(iteration, R, m)
          /\ \A j \in 1 .. R - 1 : p[j] = pos[j]
      BY <1>2, <2>4, <3>2
    <3> HIDE DEF p
    <3>4. \A j \in 1 .. R : p[j] \in Grid!Steps(iteration, j)
      BY <1>2, <2>4, <3>1, <3>3
    <3>5. p \in P
      BY <1>2, <3>3, <3>4, PositionsAre
    <3>6. Same(p, pos, R - 1)
      BY <3>3 DEF Same
    <3> QED BY <3>3, <3>5, <3>6 DEF p
  <2>6. line \in [1 .. passes -> P]
    BY <2>5
  <2>7. \A j, k \in 1 .. passes : line[j] = line[k] => j = k
    BY <2>3, <2>5
  <2>8. {line[k] : k \in 1 .. passes} = {p \in P : Same(p, pos, R - 1)}
    <3>1. ASSUME NEW k \in 1 .. passes PROVE line[k] \in P /\ Same(line[k], pos, R - 1)
      BY <2>5
    <3>2. ASSUME NEW p \in P, Same(p, pos, R - 1) PROVE \E k \in 1 .. passes : p = line[k]
      <4>1. p \in [1 .. R -> Nat] /\ p[R] \in Grid!Steps(iteration, R)
        BY <1>2, PositionsAre
      <4>2. PICK m \in 1 .. passes : p[R] = Grid!At(iteration, R, m)
        BY <2>3, <4>1
      <4>3. \A j \in 1 .. R : j = R \/ p[j] = pos[j]
        BY <1>2, <3>2 DEF Same
      <4>4. p = [pos EXCEPT ![R] = Grid!At(iteration, R, m)]
        BY <1>2, <2>4, <4>1, <4>2, <4>3
      <4> QED BY <4>4
    <3> HIDE DEF line
    <3> QED BY <3>1, <3>2
  <2> HIDE DEF line
  <2>9. \A j \in DOMAIN visited, k \in 1 .. passes : visited[j] # line[k]
    <3> SUFFICES ASSUME NEW j \in DOMAIN visited, NEW k \in 1 .. passes, visited[j] = line[k]
                 PROVE  FALSE
      OBVIOUS
    <3>1. visited[j] \in Grid!AsSet
      BY DEF Grid!AsSet
    <3>2. Before(line[k], pos, R - 1)
      BY <2>1, <3>1
    <3>3. Same(line[k], pos, R - 1) /\ line[k] \in P
      BY <2>8
    <3>4. line[k] \in [1 .. R -> Nat]
      BY <1>2, <3>3, PositionsAre
    <3>5. PICK i \in 1 .. R - 1 : line[k][i] < pos[i]
      BY <3>2 DEF Before
    <3>6. line[k][i] = pos[i] /\ line[k][i] \in Nat
      BY <1>2, <3>3, <3>4 DEF Same
    <3> QED BY <3>5, <3>6
  <2>11. visited' \in Seq(P) /\ Joined(visited', visited, line) /\ Grid!IsInjective(visited')
    <3>1. passes \in Nat /\ visited \in Seq(P) /\ line \in [1 .. passes -> P]
      BY <2>1, <2>3, <2>6
    <3>2. visited' = visited \o line
      BY <1>1 DEF line, passes
    <3> HIDE DEF P
    <3>3. DOMAIN line = 1 .. passes
      BY <3>1
    <3>4. Grid!IsInjective(line)
      BY <2>7, <3>3 DEF Grid!IsInjective
    <3>5. Apart(visited, line)
      BY <2>9, <3>3 DEF Apart
    <3> QED BY <2>1, <3>1, <3>2, <3>4, <3>5, AppendedOnce
  <2>12. pos' \in P /\ Same(pos', pos, R - 1)
    <3>1. passes \in 1 .. passes /\ passes # 0
      BY <2>3
    <3> QED BY <1>1, <2>5, <3>1
  <2>13. \A p : Before(p, pos', R - 1) = Before(p, pos, R - 1)
                /\ Same(p, pos', R - 1) = Same(p, pos, R - 1)
    <3>1. \A k \in 1 .. R - 1 : pos'[k] = pos[k]
      BY <2>12 DEF Same
    <3>2. \A j \in 1 .. R - 1 : \A k \in 1 .. j - 1 : k \in 1 .. R - 1
      BY <1>2
    <3> QED BY <3>1, <3>2 DEF Before, Same
  <2>14. Grid!AsSet' = {p \in P : Before(p, pos', R - 1) \/ Same(p, pos', R - 1)}
    <3>1. Grid!AsSet' = {p \in P : Before(p, pos, R - 1)} \cup {p \in P : Same(p, pos, R - 1)}
      <4>0. DOMAIN line = 1 .. passes
        BY <2>6
      <4>1. ASSUME NEW p \in Grid!AsSet' PROVE p \in Grid!AsSet \/ \E k \in 1 .. passes : p = line[k]
        BY <2>11, <4>0 DEF Grid!AsSet, Joined
      <4>2. ASSUME NEW p \in Grid!AsSet PROVE p \in Grid!AsSet'
        BY <2>11 DEF Grid!AsSet, Joined
      <4>3. ASSUME NEW k \in 1 .. passes PROVE line[k] \in Grid!AsSet'
        BY <2>11, <4>0 DEF Grid!AsSet, Joined
      <4>4. \A p : (\E k \in 1 .. passes : p = line[k]) <=> p \in P /\ Same(p, pos, R - 1)
        BY <2>8
      <4> HIDE DEF P
      <4> QED BY <2>1, <4>1, <4>2, <4>3, <4>4
    <3> HIDE DEF P
    <3> QED BY <2>13, <3>1
  <2>15. {p \in P : Before(p, pos', R - 1) \/ Same(p, pos', R - 1)}
           = {p \in Grid!Positions(iteration) : Before(p, pos, stackpos) \/ Same(p, pos, stackpos)}'
    BY <1>1, <1>3 DEF Before, Same
  <2>16. Grid!IsInjective(visited)'
    BY <2>11 DEF Grid!IsInjective
  <2>17. (\A j \in stackpos + 1 .. Grid!Rank - 1 : pos[j] = iteration.offset[j])'
    BY <1>1, <1>2, <1>3
  <2> QED BY <1>1, <1>3, <2>11, <2>12, <2>14, <2>15, <2>16, <2>17 DEF Visiting
<1> QED BY <1>1, <1>3, <1>4, <1>5 DEF GridInv

(* The next row, or on to the dimension above *)
LEMMA GridPropagate ==
  ASSUME GridInv, Grid!Propagate PROVE GridInv'
<1> DEFINE R == Grid!Rank
           s == stackpos
           next == pos[s] + iteration.iter[s]
<1>1. /\ place = "propagate" /\ s > 0 /\ iteration' = iteration /\ visited' = visited
      /\ IF next < iteration.ende[s]
           THEN pos' = [pos EXCEPT ![s] = next] /\ stackpos' = R /\ place' = "walk"
           ELSE /\ pos' = [pos EXCEPT ![s] = iteration.offset[s]] /\ stackpos' = s - 1
                /\ place' = place
      /\ GridTypeOK
  BY DEF Grid!Propagate, GridInv
<1>2. /\ iteration \in Calls /\ R \in Nat \ {0} /\ R = Len(iteration.dims)
      /\ DOMAIN iteration.dims = 1 .. R /\ s \in 1 .. R - 1
  <2>1. s \in 0 .. R - 1
    BY <1>1 DEF GridTypeOK
  <2> QED BY <1>1, <2>1, GridRank
<1>3. /\ Grid!Rank' = R /\ Grid!Positions(iteration)' = Grid!Positions(iteration)
      /\ Grid!NotEmpty(iteration)' = Grid!NotEmpty(iteration)
  BY <1>1, SameCall
<1>4. GridTypeOK'
  <2>1. s - 1 \in 0 .. R - 1
    BY <1>2
  <2> QED BY <1>1, <1>2, <1>3, <2>1 DEF GridTypeOK
<1>5. ASSUME Grid!NotEmpty(iteration) PROVE Visiting'
  <2> DEFINE P == Grid!Positions(iteration)
  <2>1. /\ pos \in P /\ visited \in Seq(P) /\ Grid!IsInjective(visited)
        /\ Grid!AsSet = {p \in P : Before(p, pos, s) \/ Same(p, pos, s)}
        /\ \A j \in s + 1 .. R - 1 : pos[j] = iteration.offset[j]
    BY <1>1, <1>5 DEF GridInv, Visiting
  <2>2. \A p \in P : /\ p \in [1 .. R -> Nat]
                     /\ \A j \in 1 .. R : p[j] \in Grid!Steps(iteration, j)
    BY <1>2, PositionsAre
  <2>3. s \in 1 .. R /\ s \in DOMAIN iteration.dims
    BY <1>2
  <2>4. /\ iteration.iter[s] \in Nat \ {0} /\ iteration.offset[s] \in Nat
        /\ iteration.ende[s] \in Nat /\ iteration.offset[s] < iteration.ende[s]
    BY <1>2, <1>5, <2>3, GridConstants DEF Grid!NotEmpty
  <2>5. /\ pos[s] \in Grid!Steps(iteration, s) /\ pos[s] \in Nat
        /\ iteration.offset[s] \in Grid!Steps(iteration, s)
        /\ next < iteration.ende[s] => next \in Grid!Steps(iteration, s)
        /\ \A k \in Grid!Steps(iteration, s) : k < iteration.ende[s]
    BY <1>2, <2>1, <2>2, <2>3, <2>4, StepsAre
  <2>6. ASSUME NEW p \in P
        PROVE  /\ p[s] \in Nat /\ p[s] < iteration.ende[s] /\ iteration.offset[s] <= p[s]
               /\ pos[s] < p[s] => next <= p[s]
    BY <1>2, <2>2, <2>3, <2>5, StepsAre
  <2>7. next \in Nat /\ pos[s] < next
    BY <2>4, <2>5
  <2>8. Grid!AsSet' = Grid!AsSet /\ Grid!IsInjective(visited)' /\ visited' \in Seq(P)
    BY <1>1, <2>1 DEF Grid!AsSet, Grid!IsInjective
  <2> HIDE DEF next
  <2>9. ASSUME NEW v \in Grid!Steps(iteration, s), v \in Nat, pos' = [pos EXCEPT ![s] = v]
        PROVE  pos' \in P /\ pos'[s] = v /\ \A j \in 1 .. R : j # s => pos'[j] = pos[j]
    <3>1. /\ pos' \in [1 .. R -> Nat] /\ pos'[s] = v
          /\ \A j \in 1 .. R : j # s => pos'[j] = pos[j]
      BY <2>1, <2>2, <2>3, <2>9
    <3>2. \A j \in 1 .. R : pos'[j] \in Grid!Steps(iteration, j)
      BY <2>1, <2>2, <2>9, <3>1
    <3> QED BY <1>2, <3>1, <3>2, PositionsAre
  <2>10. CASE next < iteration.ende[s]
    <3>1. pos' = [pos EXCEPT ![s] = next] /\ stackpos' = R /\ place' = "walk"
      BY <1>1, <2>10
    <3>2. /\ pos' \in P /\ pos'[s] = next /\ \A j \in 1 .. R : j # s => pos'[j] = pos[j]
      BY <2>5, <2>7, <2>9, <2>10, <3>1
    <3>3. ASSUME NEW p \in P
          PROVE  Before(p, pos', R - 1) <=> Before(p, pos, s) \/ Same(p, pos, s)
      <4>1. ASSUME Before(p, pos', R - 1) PROVE Before(p, pos, s) \/ Same(p, pos, s)
        <5>1. PICK j \in 1 .. R - 1 : p[j] < pos'[j] /\ \A k \in 1 .. j - 1 : p[k] = pos'[k]
          BY <4>1 DEF Before
        <5>2. CASE j < s
          <6>1. p[j] < pos[j] /\ \A k \in 1 .. j - 1 : p[k] = pos[k]
            BY <1>2, <3>2, <5>1, <5>2
          <6>2. j \in 1 .. s
            BY <1>2, <5>2
          <6> QED BY <6>1, <6>2 DEF Before
        <5>3. CASE j = s
          <6>1. \A k \in 1 .. s - 1 : p[k] = pos[k]
            BY <1>2, <3>2, <5>1, <5>3
          <6>2. p[s] < next
            BY <3>2, <5>1, <5>3
          <6>3. p[s] <= pos[s] /\ p[s] \in Nat
            BY <2>5, <2>6, <2>7, <6>2
          <6>4. CASE p[s] = pos[s]
            <7>1. \A k \in 1 .. s : p[k] = pos[k]
              BY <1>2, <6>1, <6>4
            <7> QED BY <7>1 DEF Same
          <6>5. CASE p[s] < pos[s]
            <7>1. s \in 1 .. s
              BY <1>2
            <7> QED BY <6>1, <6>5, <7>1 DEF Before
          <6> QED BY <2>5, <6>3, <6>4, <6>5
        <5>4. CASE j > s
          <6>1. j \in s + 1 .. R - 1 /\ j \in 1 .. R /\ j # s /\ j \in DOMAIN iteration.dims
            BY <1>2, <5>4
          <6>2. pos'[j] = iteration.offset[j]
            BY <2>1, <3>2, <6>1
          <6>3. p[j] \in Grid!Steps(iteration, j) /\ p[j] \in Nat
            BY <2>2, <6>1
          <6>4. iteration.offset[j] <= p[j] /\ iteration.offset[j] \in Nat
            BY <1>2, <6>1, <6>3, StepsAre, GridConstants
          <6> QED BY <5>1, <6>2, <6>3, <6>4
        <5> QED BY <1>2, <5>2, <5>3, <5>4
      <4>2. ASSUME Before(p, pos, s) PROVE Before(p, pos', R - 1)
        <5>1. PICK j \in 1 .. s : p[j] < pos[j] /\ \A k \in 1 .. j - 1 : p[k] = pos[k]
          BY <4>2 DEF Before
        <5>2. j \in 1 .. R - 1 /\ \A k \in 1 .. j - 1 : k \in 1 .. R /\ k # s
          BY <1>2
        <5>3. \A k \in 1 .. j - 1 : p[k] = pos'[k]
          BY <3>2, <5>1, <5>2
        <5>4. p[j] < pos'[j]
          <6>1. CASE j = s
            BY <2>5, <2>6, <2>7, <3>2, <5>1, <6>1
          <6>2. CASE j # s
            BY <1>2, <3>2, <5>1, <5>2, <6>2
          <6> QED BY <6>1, <6>2
        <5> QED BY <5>2, <5>3, <5>4 DEF Before
      <4>3. ASSUME Same(p, pos, s) PROVE Before(p, pos', R - 1)
        <5>1. \A k \in 1 .. s : p[k] = pos[k]
          BY <4>3 DEF Same
        <5>2. s \in 1 .. R - 1 /\ s \in 1 .. s
          BY <1>2
        <5>3. p[s] < pos'[s]
          BY <2>7, <3>2, <5>1, <5>2
        <5>4. \A k \in 1 .. s - 1 : p[k] = pos'[k]
          BY <1>2, <3>2, <5>1
        <5> QED BY <5>2, <5>3, <5>4 DEF Before
      <4> QED BY <4>1, <4>2, <4>3
    <3>4. Grid!AsSet' = {p \in P : Before(p, pos', R - 1)}
      <4> HIDE DEF P
      <4> QED BY <2>1, <2>8, <3>3
    <3>5. {p \in P : Before(p, pos', R - 1)}
             = {p \in Grid!Positions(iteration) : Before(p, pos, Grid!Rank - 1)}'
      BY <1>3 DEF Before
    <3> QED BY <1>3, <2>8, <3>1, <3>2, <3>4, <3>5 DEF Visiting
  <2>11. CASE ~(next < iteration.ende[s])
    <3>1. /\ pos' = [pos EXCEPT ![s] = iteration.offset[s]] /\ stackpos' = s - 1
          /\ place' = "propagate"
      BY <1>1, <2>11
    <3>2. /\ pos' \in P /\ pos'[s] = iteration.offset[s]
          /\ \A j \in 1 .. R : j # s => pos'[j] = pos[j]
      BY <2>4, <2>5, <2>9, <3>1
    <3>3. ASSUME NEW p \in P
          PROVE  Before(p, pos', s - 1) \/ Same(p, pos', s - 1)
                   <=> Before(p, pos, s) \/ Same(p, pos, s)
      <4>1. \A k \in 1 .. s - 1 : pos'[k] = pos[k]
        BY <1>2, <3>2
      <4>2. Before(p, pos', s - 1) <=> Before(p, pos, s - 1)
        <5>1. \A j \in 1 .. s - 1 : \A k \in 1 .. j - 1 : k \in 1 .. s - 1
          BY <1>2
        <5> QED BY <4>1, <5>1 DEF Before
      <4>3. Same(p, pos', s - 1) <=> Same(p, pos, s - 1)
        BY <4>1 DEF Same
      <4>4. p[s] <= pos[s] /\ p[s] \in Nat
        <5>1. pos[s] < p[s] => FALSE
          BY <2>4, <2>6, <2>7, <2>11
        <5> QED BY <2>5, <2>6, <5>1
      <4>5. \A j : j \in 1 .. s <=> j \in 1 .. s - 1 \/ j = s
        BY <1>2
      <4>6. Before(p, pos, s) <=> Before(p, pos, s - 1) \/ (p[s] < pos[s] /\ Same(p, pos, s - 1))
        BY <4>5 DEF Before, Same
      <4>7. Same(p, pos, s) <=> Same(p, pos, s - 1) /\ p[s] = pos[s]
        BY <4>5 DEF Same
      <4>8. p[s] < pos[s] \/ p[s] = pos[s]
        BY <2>5, <4>4
      <4> QED BY <4>2, <4>3, <4>6, <4>7, <4>8
    <3>4. Grid!AsSet' = {p \in P : Before(p, pos', s - 1) \/ Same(p, pos', s - 1)}
      <4> HIDE DEF P
      <4> QED BY <2>1, <2>8, <3>3
    <3>5. {p \in P : Before(p, pos', s - 1) \/ Same(p, pos', s - 1)}
             = {p \in Grid!Positions(iteration) :
                  Before(p, pos, stackpos) \/ Same(p, pos, stackpos)}'
      BY <1>3, <3>1 DEF Before, Same
    <3>6. (\A j \in stackpos + 1 .. Grid!Rank - 1 : pos[j] = iteration.offset[j])'
      <4>1. ASSUME NEW j \in (s - 1) + 1 .. R - 1 PROVE pos'[j] = iteration.offset[j]
        <5>1. j = s \/ (j \in s + 1 .. R - 1 /\ j \in 1 .. R /\ j # s)
          BY <1>2
        <5> QED BY <2>1, <3>2, <5>1
      <4> QED BY <1>1, <1>3, <3>1, <4>1
    <3> QED BY <1>3, <2>8, <3>1, <3>2, <3>4, <3>5, <3>6 DEF Visiting
  <2> QED BY <2>10, <2>11
<1> QED BY <1>3, <1>4, <1>5 DEF GridInv

(* The iteration ends above the first dimension. *)
LEMMA GridFinish ==
  ASSUME GridInv, Grid!Finish PROVE GridInv'
<1>1. /\ place = "propagate" /\ stackpos = 0 /\ place' = "done" /\ iteration' = iteration
      /\ pos' = pos /\ stackpos' = stackpos /\ visited' = visited /\ GridTypeOK
  BY DEF Grid!Finish, GridInv
<1>2. /\ Grid!Rank' = Grid!Rank /\ Grid!Positions(iteration)' = Grid!Positions(iteration)
      /\ Grid!NotEmpty(iteration)' = Grid!NotEmpty(iteration)
  BY <1>1, SameCall
<1>3. GridTypeOK'
  BY <1>1, <1>2 DEF GridTypeOK
<1>4. ASSUME Grid!NotEmpty(iteration) PROVE Visiting'
  <2>1. Visiting
    BY <1>1, <1>4 DEF GridInv
  <2>2. \A p : Same(p, pos, 0)
    BY DEF Same
  <2>3. Grid!AsSet = Grid!Positions(iteration)
    BY <1>1, <2>1, <2>2 DEF Visiting
  <2>4. Grid!AsSet' = Grid!AsSet /\ Grid!IsInjective(visited)' = Grid!IsInjective(visited)
    BY <1>1 DEF Grid!AsSet, Grid!IsInjective
  <2> QED BY <1>1, <1>2, <2>1, <2>3, <2>4 DEF Visiting
<1> QED BY <1>2, <1>3, <1>4 DEF GridInv

(* Nothing is left of the call. *)
LEMMA GridReturn ==
  ASSUME GridInv, Grid!Return PROVE GridInv'
BY DEF Grid!Return, GridInv, GridTypeOK

(* The iteration rests. *)
LEMMA GridStutter ==
  ASSUME GridInv, UNCHANGED gridVars PROVE GridInv'
<1>1. /\ place' = place /\ iteration' = iteration
      /\ pos' = pos /\ stackpos' = stackpos /\ visited' = visited
  BY DEF gridVars
<1>2. /\ Grid!Rank' = Grid!Rank /\ Grid!Positions(iteration)' = Grid!Positions(iteration)
      /\ Grid!NotEmpty(iteration)' = Grid!NotEmpty(iteration)
  BY <1>1, SameCall
<1>3. GridTypeOK' = GridTypeOK
  BY <1>1, <1>2 DEF GridTypeOK
<1>4. Grid!AsSet' = Grid!AsSet /\ Grid!IsInjective(visited)' = Grid!IsInjective(visited)
  BY <1>1 DEF Grid!AsSet, Grid!IsInjective
<1>5. Visiting' = Visiting
  BY <1>1, <1>2, <1>4 DEF Visiting, Before, Same
<1> QED BY <1>1, <1>2, <1>3, <1>5 DEF GridInv

(* The invariant of the iteration is inductive. *)
LEMMA GridStep ==
  ASSUME GridInv, [Next]_vars PROVE GridInv'
<1>1. CASE walk = "grid" /\ Grid!Next
  <2>1. ASSUME NEW c \in Calls, place = "idle", Grid!Begin(c) PROVE GridInv'
    BY <2>1, GridBegin
  <2> QED BY <1>1, <2>1, GridWalk, GridPropagate, GridFinish, GridReturn DEF Grid!Next, Grid!Iterate
<1>2. CASE UNCHANGED gridVars
  BY <1>2, GridStutter
<1> QED BY <1>1, <1>2 DEF Next, vars

-----------------------------------------------------------------------------
(* At the end the range is what was visited. *)
LEMMA Visits == GridInv => Grid!VisitsRange
BY DEF GridInv, Visiting, Grid!VisitsRange

(* The number that n digits of base b are, digit by digit from the last on *)
Number(f, p, n, b) ==
    /\ f \in [1 .. n -> Nat]
    /\ \A k \in 1 .. n : f[k] = IF k = 1 THEN p[n] ELSE f[k - 1] * b + p[n - k + 1]

Powers(h, n, b) ==
    /\ h \in [0 .. n -> Nat]
    /\ \A k \in 0 .. n : h[k] = IF k = 0 THEN 1 ELSE h[k - 1] * b

AllAre(size, n, b) == n = Len(size) /\ \A k \in 1 .. n : size[k] = b

(* The place of an element is such a number. *)
LEMMA PlaceIs ==
  ASSUME NEW size, NEW n \in Nat \ {0}, NEW p \in [1 .. n -> Nat],
         NEW b \in Nat, AllAre(size, n, b)
  PROVE  \E f : Grid!DataPos(p, size) = f[n] /\ Number(f, p, n, b)
<1> DEFINE S == 1 .. n
           H == [k \in S |-> [v \in Nat |-> IF k = 1 THEN 0
                                            ELSE v * size[n - k + 2] + p[n - k + 1]]]
<1>a. n = Len(size) /\ \A k \in 1 .. n : size[k] = b
  BY DEF AllAre
<1>0. ASSUME NEW k \in S, k # 1
      PROVE  n - k + 2 \in 1 .. n /\ n - k + 1 \in 1 .. n /\ size[n - k + 2] = b
             /\ p[n - k + 1] \in Nat
  <2>1. n - k + 2 \in 1 .. n /\ n - k + 1 \in 1 .. n
    BY <1>0
  <2> QED BY <1>a, <2>1
<1>1. ASSUME NEW c \in {1}, NEW a \in {p[n]}, NEW D, D = Nat
      PROVE  \E f \in [S -> D] : Follows(f, c, S, a, H)
  <2>1. \A k \in S : H[k] \in [D -> D]
    <3>1. ASSUME NEW k \in S, NEW v \in Nat
          PROVE  (IF k = 1 THEN 0 ELSE v * size[n - k + 2] + p[n - k + 1]) \in Nat
      <4>1. CASE k = 1
        BY <4>1
      <4>2. CASE k # 1
        <5>1. PICK x \in Nat, y \in Nat : x = size[n - k + 2] /\ y = p[n - k + 1]
          BY <1>0, <4>2
        <5>2. v * x \in Nat
          OBVIOUS
        <5>3. v * x + y \in Nat
          BY <5>2
        <5> QED BY <4>2, <5>1, <5>3
      <4> QED BY <4>1, <4>2
    <3> QED BY <1>1, <3>1
  <2>2. \A k \in S : k = c \/ (k > c /\ k - 1 \in S)
    OBVIOUS
  <2>3. c \in Nat /\ a \in D /\ S \in SUBSET Nat /\ c \in S
    BY <1>1
  <2> HIDE DEF H, S
  <2> QED BY <2>1, <2>2, <2>3, Recursion
<1>2. \E f \in [S -> Nat] : Follows(f, 1, S, p[n], H)
  <2> HIDE DEF H, S
  <2> QED BY <1>1
<1>3. PICK f \in [S -> Nat] : Follows(f, 1, S, p[n], H)
  BY <1>2
<1>4. \A k \in S : f[k] = IF k = 1 THEN p[n] ELSE f[k - 1] * size[n - k + 2] + p[n - k + 1]
  <2> SUFFICES ASSUME NEW k \in S, k # 1
               PROVE  H[k][f[k - 1]] = f[k - 1] * size[n - k + 2] + p[n - k + 1]
    BY <1>3 DEF Follows
  <2>1. f[k - 1] \in Nat
    OBVIOUS
  <2> QED BY <2>1
<1> DEFINE cur[k \in 1 .. n] ==
              IF k = 1 THEN p[n] ELSE cur[k - 1] * size[n - k + 2] + p[n - k + 1]
<1> HIDE DEF H
<1>5. f = [k \in 1 .. n |->
             IF k = 1 THEN p[n] ELSE f[k - 1] * size[n - k + 2] + p[n - k + 1]]
  BY <1>4
<1>6. cur = [k \in 1 .. n |->
               IF k = 1 THEN p[n] ELSE cur[k - 1] * size[n - k + 2] + p[n - k + 1]]
  BY <1>5
<1>7. Grid!DataPos(p, size) = cur[n]
  BY <1>a DEF Grid!DataPos
<1>8. PICK g : /\ Grid!DataPos(p, size) = g[n]
               /\ g = [k \in 1 .. n |->
                         IF k = 1 THEN p[n] ELSE g[k - 1] * size[n - k + 2] + p[n - k + 1]]
  <2> HIDE DEF cur, S
  <2> QED BY <1>6, <1>7
<1>9. /\ Grid!DataPos(p, size) = g[n]
      /\ g = [k \in S |-> IF k = 1 THEN p[n] ELSE g[k - 1] * size[n - k + 2] + p[n - k + 1]]
  BY <1>8
<1> DEFINE T == {k \in S : g[k] \in Nat}
<1> HIDE DEF cur, H
<1>10. S \subseteq T
  <2>0. PICK c \in {1} : TRUE
    OBVIOUS
  <2>1. c \in T /\ c \in Nat
    BY <1>9, <2>0
  <2>2. ASSUME NEW k \in S, k # c, k - 1 \in T PROVE k \in T
    <3>1. g[k] = g[k - 1] * size[n - k + 2] + p[n - k + 1] /\ g[k - 1] \in Nat
      BY <1>9, <2>0, <2>2
    <3>2. size[n - k + 2] \in Nat /\ p[n - k + 1] \in Nat
      BY <1>0, <2>0, <2>2
    <3>3. PICK x \in Nat, y \in Nat, z \in Nat :
              x = g[k - 1] /\ y = size[n - k + 2] /\ z = p[n - k + 1]
      BY <3>1, <3>2
    <3>4. x * y \in Nat
      OBVIOUS
    <3>5. PICK w \in Nat : w = x * y
      BY <3>4
    <3>6. w + z \in Nat
      OBVIOUS
    <3>7. g[k] = w + z
      BY <3>1, <3>3, <3>5
    <3> QED BY <3>6, <3>7
  <2>3. \A k \in S : k = c \/ (k > c /\ k - 1 \in S)
    BY <2>0
  <2>4. S \in SUBSET Nat
    OBVIOUS
  <2> HIDE DEF T, S
  <2> QED BY <2>1, <2>2, <2>3, <2>4, Induction
<1>11. g \in [S -> Nat]
  BY <1>9, <1>10
<1>12. \A k \in S : g[k] = IF k = 1 THEN p[n] ELSE g[k - 1] * b + p[n - k + 1]
  BY <1>0, <1>9
<1> QED BY <1>9, <1>11, <1>12 DEF Number

Digit(p, n, b) == p \in [1 .. n -> 0 .. b - 1]

(* A number with one digit more *)
Extended(x, u, b) == x * b + u

(* The last digit of a number, and the others, are known by its value. *)
LEMMA DigitsSame ==
  ASSUME NEW b \in Nat \ {0}, NEW x \in Nat, NEW y \in Nat,
         NEW u \in 0 .. b - 1, NEW v \in 0 .. b - 1,
         Extended(x, u, b) = Extended(y, v, b)
  PROVE  x = y /\ u = v
<1>1. PICK m \in Nat : m = x * b
  BY Products
<1>2. PICK k \in Nat : k = m + u
  OBVIOUS
<1>3. x * b = b * x /\ y * b = b * y
  BY Products
<1>4. k = b * x + u /\ k = b * y + v
  BY <1>1, <1>2, <1>3 DEF Extended
<1>5. k \in Int /\ x \in Int /\ y \in Int /\ u \in Int /\ v \in Int
      /\ 0 <= u /\ u < b /\ 0 <= v /\ v < b
  OBVIOUS
<1>6. k \div b = x /\ k % b = u
  BY <1>4, <1>5, Division2
<1>7. k \div b = y /\ k % b = v
  BY <1>4, <1>5, Division2
<1> QED BY <1>6, <1>7

(* Numbers of n digits of the same base are different if a digit is. *)
LEMMA Digits ==
  ASSUME NEW n \in Nat \ {0}, NEW b \in Nat \ {0},
         NEW p, Digit(p, n, b), NEW q, Digit(q, n, b),
         NEW f, Number(f, p, n, b), NEW g, Number(g, q, n, b), NEW h, Powers(h, n, b)
  PROVE  f[n] \in 0 .. h[n] - 1 /\ (f[n] = g[n] => p = q)
<1> DEFINE S == 1 .. n
           T == {k \in S : f[k] < h[k] /\
                           (f[k] = g[k] => \A j \in n - k + 1 .. n : p[j] = q[j])}
<1> p \in [1 .. n -> 0 .. b - 1] /\ q \in [1 .. n -> 0 .. b - 1]
  BY DEF Digit
<1>0. PICK c \in {1} : TRUE
  OBVIOUS
<1>a. f \in [1 .. n -> Nat] /\ g \in [1 .. n -> Nat] /\ h \in [0 .. n -> Nat]
  BY DEF Number, Powers
<1>b. /\ f[1] = p[n] /\ g[1] = q[n] /\ h[0] = 1
      /\ \A k \in 2 .. n : f[k] = f[k - 1] * b + p[n - k + 1]
      /\ \A k \in 2 .. n : g[k] = g[k - 1] * b + q[n - k + 1]
      /\ \A k \in 1 .. n : h[k] = h[k - 1] * b
  <2>1. 1 \in 1 .. n /\ 0 \in 0 .. n /\ (\A k \in 2 .. n : k \in 1 .. n /\ k # 1)
        /\ \A k \in 1 .. n : k \in 0 .. n /\ k # 0
    OBVIOUS
  <2> QED BY <2>1 DEF Number, Powers
<1>1. c \in T
  <2>1. f[1] = p[n] /\ g[1] = q[n] /\ h[1] = b
    <3>1. 1 \in 1 .. n /\ 1 \in 0 .. n /\ 0 \in 0 .. n /\ 1 - 1 = 0
      OBVIOUS
    <3>2. h[0] = 1 /\ h[1] = h[0] * b
      BY <1>b, <3>1
    <3> QED BY <1>b, <3>1, <3>2
  <2>2. p[n] \in 0 .. b - 1
    OBVIOUS
  <2>3. \A j \in n - 1 + 1 .. n : j = n
    OBVIOUS
  <2> QED BY <1>0, <2>1, <2>2, <2>3
<1>2. ASSUME NEW k \in S, k # c, k - 1 \in T PROVE k \in T
  <2>1. /\ k - 1 \in S /\ k - 1 \in 0 .. n /\ k \in 0 .. n /\ n - k + 1 \in 1 .. n
        /\ n - (k - 1) + 1 = (n - k + 1) + 1
    BY <1>0, <1>2
  <2>2. PICK x \in Nat, y \in Nat, z \in Nat : x = f[k - 1] /\ y = g[k - 1] /\ z = h[k - 1]
    BY <1>a, <2>1
  <2>3. PICK u \in 0 .. b - 1, v \in 0 .. b - 1 : u = p[n - k + 1] /\ v = q[n - k + 1]
    BY <2>1
  <2>4. f[k] = x * b + u /\ g[k] = y * b + v /\ h[k] = z * b
    <3>1. k \in 2 .. n /\ k \in 1 .. n
      BY <1>0, <1>2
    <3> QED BY <1>b, <2>2, <2>3, <3>1
  <2>5. x < z /\ (x = y => \A j \in n - (k - 1) + 1 .. n : p[j] = q[j])
    BY <1>2, <2>2
  <2>6. f[k] < h[k]
    <3>1. PICK d \in Nat : z = (x + 1) + d
      BY <2>5
    <3>2. z * b = (x * b + b) + d * b
      BY <3>1
    <3>3. PICK e \in Nat, a \in Nat : e = d * b /\ a = x * b
      <4>1. d * b \in Nat /\ x * b \in Nat
        OBVIOUS
      <4> QED BY <4>1
    <3>4. h[k] = (a + b) + e /\ f[k] = a + u
      BY <2>4, <3>2, <3>3
    <3> QED BY <2>3, <3>4
  <2>7. ASSUME f[k] = g[k], NEW j \in n - k + 1 .. n PROVE p[j] = q[j]
    <3>1. Extended(x, u, b) = Extended(y, v, b)
      BY <2>4, <2>7 DEF Extended
    <3>2. x = y /\ u = v
      BY <3>1, DigitsSame
    <3>3. j = n - k + 1 \/ j \in n - (k - 1) + 1 .. n
      BY <2>1, <2>7
    <3> QED BY <2>3, <2>5, <3>2, <3>3
  <2> QED BY <2>6, <2>7
<1>3. S \subseteq T
  <2>1. \A k \in S : k = c \/ (k > c /\ k - 1 \in S)
    BY <1>0
  <2>2. S \in SUBSET Nat /\ c \in Nat
    BY <1>0
  <2> HIDE DEF T, S
  <2> QED BY <1>1, <1>2, <2>1, <2>2, Induction
<1>4. n \in T /\ n - n + 1 = 1
  BY <1>3
<1>5. f[n] = g[n] => p = q
  BY <1>4
<1>6. f[n] \in Nat /\ h[n] \in Nat /\ f[n] < h[n]
  BY <1>a, <1>4
<1> QED BY <1>5, <1>6

(* Where all lengths are equal, places are numbers of that base. *)
LEMMA PlacesDiffer == GridInv => Grid!EqualLengthsHavePlaces
<1> SUFFICES ASSUME GridInv, place = "done",
                    \A k \in 1 .. Grid!Rank : iteration.dims[k] = iteration.dims[1],
                    Grid!NotEmpty(iteration),
                    NEW p \in Grid!AsSet, NEW q \in Grid!AsSet
             PROVE  /\ Grid!DataPos(p, iteration.dims) \in 0 .. Grid!Count - 1
                    /\ Grid!DataPos(p, iteration.dims) = Grid!DataPos(q, iteration.dims) => p = q
  BY DEF Grid!EqualLengthsHavePlaces, Grid!OneToOne
<1>1. Visiting /\ Grid!AsSet = Grid!Positions(iteration)
  BY DEF GridInv, Visiting
<1>2. /\ iteration \in Calls /\ Grid!Rank \in Nat \ {0} /\ Grid!Rank = Len(iteration.dims)
      /\ DOMAIN iteration.dims = 1 .. Grid!Rank
  BY GridRank DEF GridInv
<1>3. PICK n \in Nat \ {0} : n = Grid!Rank
  BY <1>2
<1>4. PICK b \in Nat \ {0} : b = iteration.dims[1]
  BY <1>2, GridConstants
<1>5. \A k \in 1 .. n : /\ iteration.dims[k] = b /\ k \in DOMAIN iteration.dims
                        /\ iteration.ende[k] <= b /\ iteration.ende[k] \in Nat
  BY <1>2, <1>3, <1>4, GridConstants
<1>6. ASSUME NEW r \in Grid!Positions(iteration) PROVE r \in [1 .. n -> 0 .. b - 1]
  <2>1. r \in [1 .. n -> Nat] /\ \A k \in 1 .. n : r[k] \in Grid!Steps(iteration, k)
    BY <1>2, <1>3, PositionsAre
  <2>2. ASSUME NEW k \in 1 .. n PROVE r[k] \in 0 .. b - 1
    <3>1. r[k] < iteration.ende[k] /\ r[k] \in Nat
      BY <1>2, <1>5, <2>1, StepsAre
    <3> QED BY <1>5, <3>1
  <2> QED BY <2>1, <2>2
<1>7. p \in [1 .. n -> 0 .. b - 1] /\ q \in [1 .. n -> 0 .. b - 1]
  BY <1>1, <1>6
<1>8. p \in [1 .. n -> Nat] /\ q \in [1 .. n -> Nat]
  BY <1>7
<1>9. n = Len(iteration.dims) /\ b \in Nat /\ \A k \in 1 .. n : iteration.dims[k] = b
  BY <1>2, <1>3, <1>5
<1>10. AllAre(iteration.dims, n, b)
  BY <1>9 DEF AllAre
<1>11. PICK f : Grid!DataPos(p, iteration.dims) = f[n] /\ Number(f, p, n, b)
  BY <1>8, <1>9, <1>10, PlaceIs
<1>12. PICK g : Grid!DataPos(q, iteration.dims) = g[n] /\ Number(g, q, n, b)
  BY <1>8, <1>9, <1>10, PlaceIs
<1>13. PICK h : Grid!Count = h[n] /\ Powers(h, n, b)
  <2>1. \A k \in 1 .. Grid!Rank : iteration.dims[k] \in Nat
    BY <1>3, <1>9
  <2>2. PICK h \in [0 .. Grid!Rank -> Nat] :
            /\ Grid!Count = h[Grid!Rank]
            /\ \A k \in 0 .. Grid!Rank : h[k] = IF k = 0 THEN 1 ELSE h[k - 1] * iteration.dims[k]
    BY <1>2, <2>1, CountIs
  <2>3. \A k \in 0 .. n : k # 0 => iteration.dims[k] = b
    BY <1>9
  <2>4. \A k \in 0 .. n : h[k] = IF k = 0 THEN 1 ELSE h[k - 1] * b
    BY <1>3, <2>2, <2>3
  <2> QED BY <1>3, <2>2, <2>4 DEF Powers
<1>14. Digit(p, n, b) /\ Digit(q, n, b)
  BY <1>7 DEF Digit
<1>15. Number(f, p, n, b) /\ Number(g, q, n, b) /\ Powers(h, n, b)
  BY <1>11, <1>12, <1>13
<1>16. f[n] \in 0 .. h[n] - 1 /\ (f[n] = g[n] => p = q)
  BY <1>14, <1>15, Digits
<1> QED BY <1>11, <1>12, <1>13, <1>16

(* scilG_iter visits every element of its range once, and scilG_data_pos   *)
(* gives each of them a place of its own in an array of equal lengths,     *)
(* whatever the rank, the steps and the offsets.                           *)
THEOREM ElementsOnce == Spec => []EveryElementOnce
<1>1. Init => GridInv
  BY GridInit DEF Init
<1>2. GridInv /\ [Next]_vars => GridInv'
  BY GridStep
<1>3. GridInv => EveryElementOnce
  BY Visits, PlacesDiffer DEF EveryElementOnce, Grid!EveryElementOnce
<1> QED BY <1>1, <1>2, <1>3, PTL DEF Spec

(* Why scilG_iter ends: each row takes positions from a finite set, the     *)
(* range, that were not visited before, and between two rows the counter   *)
(* of dimensions falls.                                                    *)
Ahead == Grid!Positions(iteration) \ Grid!AsSet

RangeShrinks ==
    Grid!NotEmpty(iteration) =>
        /\ place = "walk" => Ahead' \subseteq Ahead /\ Ahead' # Ahead
        /\ place = "propagate" => Ahead' = Ahead /\ (place' # "propagate" \/ stackpos' < stackpos)

(* A row has a position that was not visited. *)
LEMMA WalkShrinks ==
  ASSUME GridInv, GridInv', Grid!Walk, Grid!NotEmpty(iteration)
  PROVE  Ahead' \subseteq Ahead /\ Ahead' # Ahead
<1> DEFINE R == Grid!Rank
           P == Grid!Positions(iteration)
<1>1. /\ place = "walk" /\ place' = "propagate" /\ stackpos = R /\ stackpos' = R - 1
      /\ iteration' = iteration /\ GridTypeOK
  BY DEF Grid!Walk, GridInv, GridTypeOK
<1>2. /\ iteration \in Calls /\ R \in Nat \ {0} /\ DOMAIN iteration.dims = 1 .. R
      /\ R = Len(iteration.dims)
  BY <1>1, GridRank
<1>3. Grid!Rank' = R /\ Grid!Positions(iteration)' = P /\ Grid!NotEmpty(iteration)'
  BY <1>1, SameCall
<1>4. /\ pos \in P /\ visited \in Seq(P)
      /\ Grid!AsSet = {p \in P : Before(p, pos, R - 1)}
  BY <1>1 DEF GridInv, Visiting
<1>5. Visiting'
  BY <1>1, <1>3 DEF GridInv
<1>6. /\ pos' \in P
      /\ Grid!AsSet' = {p \in P : Before(p, pos', R - 1) \/ Same(p, pos', R - 1)}
  BY <1>1, <1>3, <1>5 DEF Visiting, Before, Same
<1>7. pos \in [1 .. R -> Nat] /\ pos' \in [1 .. R -> Nat]
  BY <1>2, <1>4, <1>6, PositionsAre
<1>8. \A j \in 1 .. R - 1 : pos'[j] = pos[j]
  <2>1. pos' = pos \/ \E x : pos' = [pos EXCEPT ![R] = x]
    BY <1>1 DEF Grid!Walk
  <2> QED BY <1>2, <1>7, <2>1
<1>9. pos' \in Grid!AsSet'
  BY <1>6 DEF Same
<1>10. pos' \notin Grid!AsSet
  <2> SUFFICES ASSUME Before(pos', pos, R - 1) PROVE FALSE
    BY <1>4
  <2>1. PICK j \in 1 .. R - 1 : pos'[j] < pos[j]
    BY DEF Before
  <2>2. pos'[j] = pos[j]
    BY <1>8
  <2>3. pos[j] \in Nat
    <3>1. j \in 1 .. R
      BY <1>2
    <3> HIDE DEF R
    <3> QED BY <1>7, <3>1
  <2> QED BY <2>1, <2>2, <2>3
<1>11. Grid!AsSet \subseteq Grid!AsSet'
  <2> SUFFICES ASSUME NEW p \in P, Before(p, pos, R - 1) PROVE Before(p, pos', R - 1)
    BY <1>4, <1>6
  <2>1. PICK j \in 1 .. R - 1 : p[j] < pos[j] /\ \A k \in 1 .. j - 1 : p[k] = pos[k]
    BY DEF Before
  <2>2. \A k \in 1 .. j - 1 : k \in 1 .. R - 1
    BY <1>2
  <2> QED BY <1>8, <2>1, <2>2 DEF Before
<1> HIDE DEF R, P
<1>12. Ahead = P \ Grid!AsSet /\ Ahead' = P \ Grid!AsSet'
  BY <1>3 DEF Ahead, P
<1> QED BY <1>6, <1>9, <1>10, <1>11, <1>12

(* Every iteration over a range that is not empty ends for that reason. *)
THEOREM RowsAreNew == Spec => [][RangeShrinks]_gridVars
<1>1. ASSUME GridInv, GridInv', Next, Grid!NotEmpty(iteration), ~UNCHANGED gridVars
      PROVE  RangeShrinks
  <2>1. Grid!Next
    BY <1>1 DEF Next
  <2>2. CASE \E c \in Calls : place = "idle" /\ Grid!Begin(c)
    BY <2>2 DEF RangeShrinks
  <2>3. CASE Grid!Walk
    <3>1. place = "walk"
      BY <2>3 DEF Grid!Walk
    <3> QED BY <1>1, <2>3, <3>1, WalkShrinks DEF RangeShrinks
  <2>4. CASE Grid!Propagate \/ Grid!Finish
    <3>1. place = "propagate" /\ iteration' = iteration /\ visited' = visited
      BY <2>4 DEF Grid!Propagate, Grid!Finish
    <3>2. Ahead' = Ahead
      BY <3>1, SameCall DEF Ahead, Grid!AsSet
    <3>3. stackpos \in Int
      <4>1. stackpos \in 0 .. Grid!Rank - 1
        BY <1>1, <3>1 DEF GridInv, GridTypeOK
      <4> QED BY <4>1
    <3>4. place' # "propagate" \/ stackpos' < stackpos
      BY <2>4, <3>3 DEF Grid!Propagate, Grid!Finish
    <3> QED BY <3>1, <3>2, <3>4 DEF RangeShrinks
  <2>5. CASE Grid!Return
    BY <2>5 DEF Grid!Return, RangeShrinks
  <2> QED BY <2>1, <2>2, <2>3, <2>4, <2>5 DEF Grid!Next, Grid!Iterate
<1>2. GridInv /\ GridInv' /\ [Next]_vars => [RangeShrinks]_gridVars
  <2>1. CASE UNCHANGED gridVars
    BY <2>1
  <2>2. CASE ~UNCHANGED gridVars /\ ~Grid!NotEmpty(iteration)
    BY <2>2 DEF RangeShrinks
  <2>3. CASE ~UNCHANGED gridVars /\ Grid!NotEmpty(iteration)
    BY <1>1, <2>3 DEF vars
  <2> QED BY <2>1, <2>2, <2>3
<1>3. Init => GridInv
  BY GridInit DEF Init
<1>4. GridInv /\ [Next]_vars => GridInv'
  BY GridStep
<1> QED BY <1>2, <1>3, <1>4, PTL DEF Spec

-----------------------------------------------------------------------------
(* The mutators (ScilMutators) *)

(* The first element of the block that an element is in *)
BlockOf(p) == [k \in DOMAIN dims |-> (p[k] \div block) * block]

InBlocks(p) == \A k \in DOMAIN dims : p[k] % block = 0

(* An element that is kept, or computed for this or an earlier dimension *)
IsFinal(p) == Mutators!IsPoint(p) \/ data[p] \in {Mutators!Smooth, Mutators!NaN}

(* A row of two dimensions that the last one has computed *)
InRow(p) == p[1] % block = 0 \/ p[1] = dims[1] - 1

MutatorTypeOK ==
    /\ stage \in {"idle", "repeat", "inner", "edge", "done"}
    /\ stage # "idle" =>
        /\ dims \in Cubes /\ block \in Blocks
        /\ DOMAIN data = Mutators!Positions(dims)
        /\ dim \in 0 .. Len(dims)
        /\ stage \in {"inner", "edge"} => dim > 0 /\ todo = {}
        /\ stage = "repeat" => dim = 0 /\ todo \subseteq {p \in DOMAIN data : InBlocks(p)}
        /\ stage = "done" => todo = {} /\ dim = 0

(* The blocks that were copied are constant, the others as they were. *)
Repeating ==
    /\ \A p \in DOMAIN data :
          data[p] = Mutators!Raw(IF BlockOf(p) \in todo THEN p ELSE BlockOf(p))

(* What is final after a dimension, or the inner part of it *)
Interpolating ==
    Len(dims) < 3 =>
        /\ Len(dims) = 1 /\ stage # "inner" => \A p \in DOMAIN data : IsFinal(p)
        /\ Len(dims) = 2 /\ dim = 2 /\ stage = "edge" =>
              \A p \in DOMAIN data : p[1] % block = 0 /\ p[1] < dims[1] - 1 => IsFinal(p)
        /\ Len(dims) = 2 /\ dim = 1 =>
              \A p \in DOMAIN data : InRow(p) => IsFinal(p)
        /\ Len(dims) = 2 /\ dim = 1 /\ stage = "edge" =>
              \A p \in DOMAIN data : p[2] < dims[2] - 1 => IsFinal(p)
        /\ Len(dims) = 2 /\ stage = "done" => \A p \in DOMAIN data : IsFinal(p)

NoNumbers == \A p \in DOMAIN data : data[p] = Mutators!NaN => dims[1] % block = 1

Repeater == \A p \in DOMAIN data : data[p] \in Mutators!Positions(dims)

MutatorInv ==
    /\ MutatorTypeOK
    /\ stage = "repeat" => Repeating
    /\ stage \in {"inner", "edge"} => Interpolating
    /\ stage = "done" => Interpolating \/ Repeater
    /\ Mutators!NumbersIfBlocksFit

(* The arrays and blocks of the mutators *)
LEMMA MutatorConstants ==
  /\ \A d \in Cubes : /\ d \in Seq(Nat \ {0}) /\ Len(d) \in Nat \ {0} /\ DOMAIN d = 1 .. Len(d)
                      /\ d[1] \in Nat \ {0}
                      /\ \A k \in DOMAIN d : d[k] = d[1]
  /\ \A b \in Blocks : b \in Nat \ {0, 1}
<1>1. Mutators!MutatorAssumption
  BY ArraysAssumption DEF ArraysAssumption
<1>2. ASSUME NEW d \in Cubes
      PROVE  /\ d \in Seq(Nat \ {0}) /\ Len(d) \in Nat \ {0} /\ DOMAIN d = 1 .. Len(d)
             /\ d[1] \in Nat \ {0} /\ \A k \in DOMAIN d : d[k] = d[1]
  <2>1. d \in Seq(Nat \ {0}) /\ Len(d) > 0 /\ \A k \in DOMAIN d : d[k] = d[1]
    BY <1>1 DEF Mutators!MutatorAssumption
  <2> QED BY <2>1
<1> QED BY <1>1, <1>2 DEF Mutators!MutatorAssumption

(* Rounding down to a multiple *)
LEMMA BlockStart ==
  ASSUME NEW n \in Nat, NEW b \in Nat \ {0, 1}
  PROVE  /\ (n \div b) * b \in 0 .. n /\ n - (n \div b) * b \in 0 .. b - 1
         /\ ((n \div b) * b) % b = 0
         /\ n % b = n - (n \div b) * b
<1>1. n = b * (n \div b) + (n % b) /\ n % b \in 0 .. b - 1 /\ n \div b \in Nat
  OBVIOUS
<1> DEFINE q == n \div b
<1>2. q \in Nat /\ b * q = q * b /\ q * b \in Nat
  BY <1>1
<1> HIDE DEF q
<1>3. (q * b) % b = 0
  BY <1>2, Division2
<1> QED BY <1>1, <1>2, <1>3 DEF q

(* Only one multiple is at most b - 1 below a number. *)
LEMMA BlockOnly ==
  ASSUME NEW n \in Nat, NEW b \in Nat \ {0, 1}, NEW m \in Nat, m % b = 0, m <= n, n < m + b
  PROVE  (n \div b) * b = m
<1>1. m = b * (m \div b) + (m % b) /\ m \div b \in Nat
  OBVIOUS
<1>2. \A q \in Nat : b * q = q * b
  OBVIOUS
<1>3. n \div b = m \div b
  <2>1. PICK q \in Nat : q = m \div b
    BY <1>1
  <2>2. PICK r \in Nat : r = n - m
    OBVIOUS
  <2>3. n = b * q + r /\ 0 <= r /\ r < b
    BY <1>1, <2>1, <2>2
  <2>4. n \in Int /\ b \in Nat \ {0} /\ q \in Int /\ r \in Int
    OBVIOUS
  <2>5. n \div b = q
    BY <2>3, <2>4, Division2
  <2> QED BY <2>1, <2>5
<1> QED BY <1>1, <1>2, <1>3

(* The beginning of a block is the first element of its own block. *)
LEMMA Blocked ==
  ASSUME MutatorTypeOK, stage # "idle", NEW p \in Mutators!Positions(dims)
  PROVE  /\ BlockOf(p) \in Mutators!Positions(dims) /\ InBlocks(BlockOf(p))
         /\ InBlocks(p) => BlockOf(p) = p
<1>1. block \in Nat \ {0, 1} /\ dims[1] \in Nat \ {0} /\ p \in [DOMAIN dims -> 0 .. dims[1] - 1]
  BY MutatorConstants DEF MutatorTypeOK, Mutators!Positions
<1>2. \A k \in DOMAIN dims : /\ (p[k] \div block) * block \in 0 .. dims[1] - 1
                             /\ ((p[k] \div block) * block) % block = 0
                             /\ p[k] % block = 0 => (p[k] \div block) * block = p[k]
  <2> SUFFICES ASSUME NEW k \in DOMAIN dims
               PROVE  /\ (p[k] \div block) * block \in 0 .. dims[1] - 1
                      /\ ((p[k] \div block) * block) % block = 0
                      /\ p[k] % block = 0 => (p[k] \div block) * block = p[k]
    OBVIOUS
  <2>1. p[k] \in 0 .. dims[1] - 1 /\ p[k] \in Nat
    BY <1>1
  <2>2. /\ (p[k] \div block) * block \in 0 .. p[k]
        /\ ((p[k] \div block) * block) % block = 0
        /\ p[k] % block = p[k] - (p[k] \div block) * block
    BY <1>1, <2>1, BlockStart
  <2> QED BY <1>1, <2>1, <2>2
<1>3. BlockOf(p) \in Mutators!Positions(dims)
  BY <1>2 DEF BlockOf, Mutators!Positions
<1>4. InBlocks(BlockOf(p))
  BY <1>2 DEF BlockOf, InBlocks
<1>5. InBlocks(p) => BlockOf(p) = p
  BY <1>1, <1>2 DEF BlockOf, InBlocks
<1> QED BY <1>3, <1>4, <1>5

(* A block that begins at p is what the repeater visits from there. *)
LEMMA BlockVisited ==
  ASSUME MutatorTypeOK, stage # "idle",
         NEW p \in Mutators!Positions(dims), InBlocks(p), NEW q \in Mutators!Positions(dims)
  PROVE  q \in Mutators!Visited(p, Mutators!Extend(p), Mutators!One) <=> BlockOf(q) = p
<1>1. /\ block \in Nat \ {0, 1} /\ dims[1] \in Nat \ {0}
      /\ p \in [DOMAIN dims -> 0 .. dims[1] - 1] /\ q \in [DOMAIN dims -> 0 .. dims[1] - 1]
      /\ \A k \in DOMAIN dims : dims[k] = dims[1]
  BY MutatorConstants DEF MutatorTypeOK, Mutators!Positions
<1>2. ASSUME NEW k \in DOMAIN dims
      PROVE  /\ q[k] >= p[k] /\ q[k] < Mutators!Extend(p)[k] <=> (q[k] \div block) * block = p[k]
             /\ (q[k] - p[k]) % Mutators!One[k] = 0
  <2>1. p[k] \in 0 .. dims[1] - 1 /\ q[k] \in 0 .. dims[1] - 1 /\ dims[k] = dims[1]
    BY <1>1
  <2>2. Mutators!Extend(p)[k] = IF p[k] + block < dims[k] THEN p[k] + block ELSE dims[k]
    BY DEF Mutators!Extend, Mutators!Least
  <2>3. q[k] < Mutators!Extend(p)[k] <=> q[k] < p[k] + block
    BY <1>1, <2>1, <2>2
  <2>4. p[k] % block = 0 /\ p[k] \in Nat /\ q[k] \in Nat
    BY <2>1 DEF InBlocks
  <2>5. q[k] >= p[k] /\ q[k] < p[k] + block => (q[k] \div block) * block = p[k]
    BY <1>1, <2>4, BlockOnly
  <2>6. (q[k] \div block) * block \in 0 .. q[k] /\ q[k] - (q[k] \div block) * block \in 0 .. block - 1
    BY <1>1, <2>4, BlockStart
  <2>7. Mutators!One[k] = 1 /\ \A n \in Int : n % 1 = 0
    BY DEF Mutators!One
  <2> QED BY <1>1, <2>1, <2>3, <2>5, <2>6, <2>7
<1>3. DOMAIN q = DOMAIN dims /\ DOMAIN p = DOMAIN dims
  BY <1>1
<1>4. BlockOf(q) = p <=> \A k \in DOMAIN dims : (q[k] \div block) * block = p[k]
  BY <1>1 DEF BlockOf
<1> QED BY <1>2, <1>4 DEF Mutators!Visited

(* No mutator has begun. *)
LEMMA MutatorInit == Mutators!Init => MutatorInv
BY DEF Mutators!Init, MutatorInv, MutatorTypeOK, Mutators!NumbersIfBlocksFit, Mutators!NoArray

(* What depends on the array alone *)
LEMMA SameMutator ==
  ASSUME dims' = dims, block' = block
  PROVE  /\ \A p : BlockOf(p)' = BlockOf(p) /\ InBlocks(p)' = InBlocks(p)
         /\ \A p : InRow(p)' = InRow(p) /\ Mutators!IsPoint(p)' = Mutators!IsPoint(p)
         /\ \A d : Mutators!Positions(d)' = Mutators!Positions(d)
BY DEF BlockOf, InBlocks, InRow, Mutators!IsPoint, Mutators!Positions

(* The repeater begins, with all blocks to do. *)
LEMMA MutatorRepeat ==
  ASSUME MutatorInv, stage = "idle", NEW d \in Cubes, NEW b \in Blocks, Mutators!Repeat(d, b)
  PROVE  MutatorInv'
<1>1. /\ dims' = d /\ block' = b /\ data' = [p \in Mutators!Positions(d) |-> Mutators!Raw(p)]
      /\ stage' = "repeat" /\ dim' = 0
      /\ todo' = {p \in Mutators!Positions(d) : \A k \in DOMAIN d : p[k] % b = 0}
  BY DEF Mutators!Repeat, Mutators!Call
<1>2. Len(d) \in Nat
  BY MutatorConstants
<1>3. MutatorTypeOK'
  BY <1>1, <1>2 DEF MutatorTypeOK, InBlocks, Mutators!Positions
<1>4. Repeating'
  <2> SUFFICES ASSUME NEW p \in Mutators!Positions(d)
               PROVE  data'[p] = Mutators!Raw(IF BlockOf(p)' \in todo' THEN p ELSE BlockOf(p)')
    BY <1>1 DEF Repeating, Mutators!Raw
  <2>1. BlockOf(p)' \in Mutators!Positions(d) /\ InBlocks(BlockOf(p))'
    <3>1. d[1] \in Nat \ {0} /\ b \in Nat \ {0, 1} /\ p \in [DOMAIN d -> 0 .. d[1] - 1]
      BY MutatorConstants DEF Mutators!Positions
    <3>2. \A k \in DOMAIN d : /\ (p[k] \div b) * b \in 0 .. d[1] - 1
                              /\ ((p[k] \div b) * b) % b = 0
      <4> SUFFICES ASSUME NEW k \in DOMAIN d
                   PROVE  (p[k] \div b) * b \in 0 .. d[1] - 1 /\ ((p[k] \div b) * b) % b = 0
        OBVIOUS
      <4>1. p[k] \in 0 .. d[1] - 1 /\ p[k] \in Nat
        BY <3>1
      <4>2. (p[k] \div b) * b \in 0 .. p[k] /\ ((p[k] \div b) * b) % b = 0
        BY <3>1, <4>1, BlockStart
      <4> QED BY <3>1, <4>1, <4>2
    <3>3. BlockOf(p)' = [k \in DOMAIN d |-> (p[k] \div b) * b]
      BY <1>1 DEF BlockOf
    <3> QED BY <1>1, <3>2, <3>3 DEF InBlocks, Mutators!Positions
  <2>2. BlockOf(p)' \in todo'
    BY <1>1, <2>1 DEF InBlocks
  <2> QED BY <1>1, <2>2
<1>5. Mutators!NumbersIfBlocksFit'
  <2> SUFFICES ASSUME NEW p \in Mutators!Positions(d) PROVE data'[p] # Mutators!NaN
    BY <1>1 DEF Mutators!NumbersIfBlocksFit
  <2>1. p \in [DOMAIN d -> 0 .. d[1] - 1] /\ d[1] \in Nat /\ 1 \in DOMAIN d
    BY MutatorConstants DEF Mutators!Positions
  <2>2. p[1] # -1
    BY <2>1
  <2> QED BY <1>1, <2>2 DEF Mutators!NaN, Mutators!Raw
<1> QED BY <1>1, <1>3, <1>4, <1>5 DEF MutatorInv

(* The interpolator begins with the last dimension. *)
LEMMA MutatorInterpolate ==
  ASSUME MutatorInv, stage = "idle", NEW d \in Cubes, NEW b \in Blocks, Mutators!Interpolate(d, b)
  PROVE  MutatorInv'
<1>1. /\ dims' = d /\ block' = b /\ data' = [p \in Mutators!Positions(d) |-> Mutators!Raw(p)]
      /\ stage' = "inner" /\ dim' = Len(d) /\ todo' = {}
  BY DEF Mutators!Interpolate, Mutators!Call
<1>2. Len(d) \in Nat \ {0}
  BY MutatorConstants
<1>3. MutatorTypeOK'
  BY <1>1, <1>2 DEF MutatorTypeOK, Mutators!Positions
<1>4. Interpolating'
  BY <1>1, <1>2 DEF Interpolating
<1>5. Mutators!NumbersIfBlocksFit'
  <2> SUFFICES ASSUME NEW p \in Mutators!Positions(d) PROVE data'[p] # Mutators!NaN
    BY <1>1 DEF Mutators!NumbersIfBlocksFit
  <2>1. p \in [DOMAIN d -> 0 .. d[1] - 1] /\ d[1] \in Nat /\ 1 \in DOMAIN d
    BY MutatorConstants DEF Mutators!Positions
  <2>2. p[1] # -1
    BY <2>1
  <2> QED BY <1>1, <2>2 DEF Mutators!NaN, Mutators!Raw
<1> QED BY <1>1, <1>3, <1>4, <1>5 DEF MutatorInv

(* A block is copied. *)
LEMMA MutatorRepeatBlock ==
  ASSUME MutatorInv, Mutators!RepeatBlock PROVE MutatorInv'
<1>1. PICK p \in todo : /\ data' = [q \in DOMAIN data |->
                              IF q \in Mutators!Visited(p, Mutators!Extend(p), Mutators!One)
                                THEN data[p] ELSE data[q]]
                        /\ todo' = todo \ {p}
  BY DEF Mutators!RepeatBlock
<1>2. /\ stage = "repeat" /\ stage' = stage /\ dims' = dims /\ block' = block /\ dim' = dim
      /\ DOMAIN data' = DOMAIN data
  BY <1>1 DEF Mutators!RepeatBlock
<1>3. /\ p \in Mutators!Positions(dims) /\ InBlocks(p) /\ DOMAIN data = Mutators!Positions(dims)
      /\ MutatorTypeOK /\ Repeating
  BY <1>1, <1>2 DEF MutatorInv, MutatorTypeOK
<1>4. data[p] = Mutators!Raw(p) /\ BlockOf(p) = p
  BY <1>1, <1>2, <1>3, Blocked DEF Repeating
<1>5. ASSUME NEW q \in DOMAIN data
      PROVE  data'[q] = Mutators!Raw(IF BlockOf(q) \in todo' THEN q ELSE BlockOf(q))
  <2>1. CASE BlockOf(q) = p
    <3>1. q \in Mutators!Visited(p, Mutators!Extend(p), Mutators!One)
      BY <1>2, <1>3, <2>1, BlockVisited
    <3> QED BY <1>1, <1>4, <2>1, <3>1
  <2>2. CASE BlockOf(q) # p
    <3>1. q \notin Mutators!Visited(p, Mutators!Extend(p), Mutators!One)
      BY <1>2, <1>3, <2>2, BlockVisited
    <3>2. data'[q] = data[q]
      BY <1>1, <3>1
    <3> QED BY <1>1, <1>3, <2>2, <3>2 DEF Repeating
  <2> QED BY <2>1, <2>2
<1>6. Repeating'
  BY <1>2, <1>5, SameMutator DEF Repeating, Mutators!Raw
<1>7. MutatorTypeOK'
  BY <1>1, <1>2, <1>3, SameMutator DEF MutatorTypeOK
<1>8. Mutators!NumbersIfBlocksFit'
  BY <1>1, <1>2, <1>3 DEF MutatorInv, Mutators!NumbersIfBlocksFit
<1> QED BY <1>2, <1>6, <1>7, <1>8 DEF MutatorInv

(* The repeater ends. *)
LEMMA MutatorRepeated ==
  ASSUME MutatorInv, Mutators!Repeated PROVE MutatorInv'
<1>1. /\ stage = "repeat" /\ todo = {} /\ stage' = "done" /\ dims' = dims /\ block' = block
      /\ dim' = dim /\ data' = data /\ todo' = todo
  BY DEF Mutators!Repeated
<1>2. MutatorTypeOK /\ Repeating
  BY <1>1 DEF MutatorInv
<1>3. MutatorTypeOK'
  BY <1>1, <1>2, SameMutator DEF MutatorTypeOK
<1>4. Repeater'
  BY <1>1, <1>2, SameMutator, Blocked DEF Repeater, Repeating, MutatorTypeOK, Mutators!Raw
<1>5. Mutators!NumbersIfBlocksFit'
  BY <1>1 DEF MutatorInv, Mutators!NumbersIfBlocksFit
<1> QED BY <1>1, <1>3, <1>4, <1>5 DEF MutatorInv

(* What the interpolator has at hand *)
LEMMA InterpolatorIs ==
  ASSUME MutatorInv, stage \in {"inner", "edge"}
  PROVE  /\ block \in Nat \ {0, 1} /\ dims[1] \in Nat \ {0} /\ Len(dims) \in Nat
         /\ DOMAIN dims = 1 .. Len(dims) /\ \A k \in DOMAIN dims : dims[k] = dims[1]
         /\ dim \in DOMAIN dims /\ todo = {}
         /\ DOMAIN data = [DOMAIN dims -> 0 .. dims[1] - 1]
         /\ DOMAIN data = Mutators!Positions(dims)
         /\ dims \in Cubes /\ block \in Blocks
<1>1. MutatorTypeOK
  BY DEF MutatorInv
<1>2. dims \in Cubes /\ block \in Blocks /\ dim \in 0 .. Len(dims) /\ dim > 0 /\ todo = {}
  BY <1>1 DEF MutatorTypeOK
<1>3. DOMAIN data = Mutators!Positions(dims)
  BY <1>1 DEF MutatorTypeOK
<1> QED BY <1>2, <1>3, MutatorConstants DEF Mutators!Positions

(* The ends of the interval of an element lie on its line, each of them at *)
(* the beginning of a block or at the end of the array.                    *)
LEMMA IntervalOf ==
  ASSUME MutatorInv, stage \in {"inner", "edge"}, NEW p \in DOMAIN data
  PROVE  /\ Mutators!StartOf(p) \in DOMAIN data /\ Mutators!EndOf(p) \in DOMAIN data
         /\ \A k \in DOMAIN dims \ {dim} :
               Mutators!StartOf(p)[k] = p[k] /\ Mutators!EndOf(p)[k] = p[k]
         /\ Mutators!StartOf(p)[dim] % block = 0
         /\ Mutators!EndOf(p)[dim] % block = 0 \/ Mutators!EndOf(p)[dim] = dims[dim] - 1
         /\ Mutators!StartOf(p) = p => p[dim] % block = 0
         /\ Mutators!StartOf(p) = Mutators!EndOf(p) => dims[1] % block = 1
<1>1. /\ block \in Nat \ {0, 1} /\ dims[1] \in Nat \ {0} /\ dim \in DOMAIN dims
      /\ DOMAIN data = [DOMAIN dims -> 0 .. dims[1] - 1]
      /\ dims[dim] = dims[1] /\ block \in Nat \ {0} /\ block \in Int
  BY InterpolatorIs
<1> DEFINE s == (p[dim] \div block) * block
           e == IF s + block < dims[dim] - 1 THEN s + block ELSE dims[dim] - 1
<1>2. p \in [DOMAIN dims -> 0 .. dims[1] - 1] /\ p[dim] \in 0 .. dims[1] - 1 /\ p[dim] \in Nat
  BY <1>1
<1>3. s \in 0 .. p[dim] /\ s % block = 0 /\ p[dim] % block = p[dim] - s
  BY <1>1, <1>2, BlockStart
<1>4. Mutators!StartOf(p) = [p EXCEPT ![dim] = s]
  BY DEF Mutators!StartOf
<1>5. Mutators!EndOf(p) = [p EXCEPT ![dim] = e]
  BY DEF Mutators!EndOf, Mutators!Least
<1>6. (s + block) % block = 0
  <2>1. PICK q \in Nat : q = p[dim] \div block
    BY <1>1, <1>2
  <2>2. s + block = block * (q + 1) + 0
    BY <1>1, <2>1
  <2>3. PICK r \in {0} : TRUE
    OBVIOUS
  <2>4. PICK m \in Nat : m = s + block
    BY <1>1, <1>3
  <2>5. PICK k \in Nat : k = q + 1
    OBVIOUS
  <2>6. m = block * k + r /\ 0 <= r /\ r < block
    BY <1>1, <2>2, <2>3, <2>4, <2>5
  <2>7. m % block = r
    BY <1>1, <2>6, Division2
  <2> QED BY <2>3, <2>4, <2>7
<1> HIDE DEF s
<1>7. e \in 0 .. dims[1] - 1 /\ (e % block = 0 \/ e = dims[dim] - 1)
  BY <1>1, <1>2, <1>3, <1>6
<1>8. s = e => dims[1] % block = 1
  <2> SUFFICES ASSUME s = e PROVE dims[1] % block = 1
    OBVIOUS
  <2>1. s = dims[1] - 1
    BY <1>1, <1>3
  <2>2. PICK q \in Nat : s = q * block
    <3>1. p[dim] \div block \in Nat
      BY <1>1, <1>2
    <3> QED BY <3>1 DEF s
  <2>3. PICK r \in {1} : TRUE
    OBVIOUS
  <2>4. PICK m \in Nat : m = dims[1]
    BY <1>1
  <2>5. m = block * q + r /\ 0 <= r /\ r < block
    BY <1>1, <2>1, <2>2, <2>3, <2>4
  <2>7. m \in Int /\ q \in Int /\ r \in Int
    OBVIOUS
  <2>6. m % block = r
    BY <1>1, <2>5, <2>7, Division2
  <2> QED BY <2>3, <2>4, <2>6
<1> HIDE DEF e
<1>9. Mutators!StartOf(p) \in DOMAIN data /\ Mutators!EndOf(p) \in DOMAIN data
  BY <1>1, <1>2, <1>3, <1>4, <1>5, <1>7
<1>10. /\ Mutators!StartOf(p)[dim] = s /\ Mutators!EndOf(p)[dim] = e
       /\ \A k \in DOMAIN dims \ {dim} :
             Mutators!StartOf(p)[k] = p[k] /\ Mutators!EndOf(p)[k] = p[k]
  BY <1>1, <1>2, <1>4, <1>5
<1> QED BY <1>1, <1>2, <1>3, <1>7, <1>8, <1>9, <1>10

(* A value that is computed is no noise, unless the element begins a block *)
(* and is kept.                                                            *)
LEMMA InterpolatedIs ==
  ASSUME MutatorInv, stage \in {"inner", "edge"}, NEW p \in DOMAIN data
  PROVE  /\ Mutators!Interpolated(p) \in {Mutators!NaN, Mutators!Smooth, data[p]}
         /\ Mutators!Interpolated(p) \in {Mutators!NaN, Mutators!Smooth} \/ p[dim] % block = 0
         /\ Mutators!Interpolated(p) = Mutators!NaN => dims[1] % block = 1
<1>1. \A q \in DOMAIN data : data[q] = Mutators!NaN => dims[1] % block = 1
  BY DEF MutatorInv, Mutators!NumbersIfBlocksFit
<1>2. Mutators!Smooth # Mutators!NaN
  BY DEF Mutators!Smooth, Mutators!NaN
<1>3. CASE Mutators!StartOf(p) = Mutators!EndOf(p)
  <2>1. Mutators!Interpolated(p) = Mutators!NaN
    BY <1>3 DEF Mutators!Interpolated
  <2> QED BY <1>3, <2>1, IntervalOf
<1>4. CASE /\ Mutators!StartOf(p) # Mutators!EndOf(p)
           /\ Mutators!NaN \in {data[Mutators!StartOf(p)], data[Mutators!EndOf(p)]}
  <2>1. Mutators!Interpolated(p) = Mutators!NaN
    BY <1>4 DEF Mutators!Interpolated
  <2> QED BY <1>1, <1>4, <2>1, IntervalOf
<1>5. CASE /\ Mutators!StartOf(p) # Mutators!EndOf(p)
           /\ Mutators!NaN \notin {data[Mutators!StartOf(p)], data[Mutators!EndOf(p)]}
  <2>1. Mutators!Interpolated(p) = IF p = Mutators!StartOf(p) THEN data[p] ELSE Mutators!Smooth
    BY <1>5 DEF Mutators!Interpolated
  <2> QED BY <1>1, <1>2, <1>5, <2>1, IntervalOf
<1> QED BY <1>3, <1>4, <1>5

(* Which elements the two iterations of a dimension meet *)
LEMMA PointsAre ==
  ASSUME MutatorInv, stage \in {"inner", "edge"}, Len(dims) < 3, NEW p \in DOMAIN data
  PROVE  /\ Len(dims) = 1 => /\ p \in Mutators!InnerPoints <=> p[1] < dims[1] - 1
                             /\ p \in Mutators!EdgePoints
         /\ Len(dims) = 2 /\ dim = 2 =>
               /\ p \in Mutators!InnerPoints <=>
                    p[1] % block = 0 /\ p[1] < dims[1] - 1 /\ p[2] < dims[2] - 1
               /\ p \in Mutators!EdgePoints <=> p[1] = dims[1] - 1
         /\ Len(dims) = 2 /\ dim = 1 =>
               /\ p \in Mutators!InnerPoints <=> p[1] < dims[1] - 1 /\ p[2] < dims[2] - 1
               /\ p \in Mutators!EdgePoints <=> p[2] = dims[2] - 1
<1>1. /\ block \in Nat \ {0, 1} /\ dims[1] \in Nat \ {0} /\ Len(dims) \in Nat
      /\ DOMAIN dims = 1 .. Len(dims) /\ \A k \in DOMAIN dims : dims[k] = dims[1]
      /\ dim \in DOMAIN dims
      /\ DOMAIN data = [DOMAIN dims -> 0 .. dims[1] - 1]
      /\ DOMAIN data = Mutators!Positions(dims)
  BY InterpolatorIs
<1>2. \A k \in DOMAIN dims : p[k] \in 0 .. dims[1] - 1
  BY <1>1
<1>3. \A n \in Int : n % 1 = 0
  OBVIOUS
<1>4. p \in Mutators!InnerPoints <=>
        \A k \in DOMAIN dims : p[k] < dims[1] - 1 /\ (k < dim => p[k] % block = 0)
  <2>1. ASSUME NEW k \in DOMAIN dims
        PROVE  /\ p[k] >= Mutators!Zero[k] /\ p[k] < Mutators!Final[k]
               /\ (p[k] - Mutators!Zero[k]) % Mutators!Stride[k] = 0
               <=> p[k] < dims[1] - 1 /\ (k < dim => p[k] % block = 0)
    <3>1. Mutators!Zero[k] = 0 /\ Mutators!Final[k] = dims[1] - 1
      BY <1>1 DEF Mutators!Zero, Mutators!Final
    <3>2. Mutators!Stride[k] = IF k >= dim THEN 1 ELSE block
      BY DEF Mutators!Stride
    <3>3. p[k] - 0 = p[k] /\ p[k] >= 0 /\ p[k] \in Int /\ k \in Int /\ dim \in Int
      BY <1>1, <1>2
    <3>4. CASE k >= dim
      BY <1>3, <3>1, <3>2, <3>3, <3>4
    <3>5. CASE k < dim
      BY <3>1, <3>2, <3>3, <3>5
    <3> QED BY <3>3, <3>4, <3>5
  <2> QED BY <1>1, <2>1 DEF Mutators!InnerPoints, Mutators!Visited
<1>5. p \in Mutators!EdgePoints <=> \A k \in DOMAIN dims \ {dim} : p[k] = dims[1] - 1
  <2>1. ASSUME NEW k \in DOMAIN dims
        PROVE  /\ p[k] >= [Mutators!Final EXCEPT ![dim] = 0][k] /\ p[k] < dims[k]
               /\ (p[k] - [Mutators!Final EXCEPT ![dim] = 0][k]) % Mutators!Stride[k] = 0
               <=> k = dim \/ p[k] = dims[1] - 1
    <3>1. [Mutators!Final EXCEPT ![dim] = 0][k] = IF k = dim THEN 0 ELSE dims[1] - 1
      BY <1>1 DEF Mutators!Final
    <3>2. Mutators!Stride[k] = IF k >= dim THEN 1 ELSE block
      BY DEF Mutators!Stride
    <3>3. /\ p[k] - 0 = p[k] /\ p[k] \in 0 .. dims[1] - 1 /\ p[k] \in Int /\ k \in Int
          /\ dim \in Int /\ dims[k] = dims[1]
      BY <1>1, <1>2
    <3>4. CASE k = dim
      <4>1. Mutators!Stride[k] = 1
        BY <3>2, <3>3, <3>4
      <4> QED BY <1>1, <1>3, <3>1, <3>3, <3>4, <4>1
    <3>5. CASE k # dim
      <4>1. 0 % block = 0 /\ 0 % 1 = 0
        BY <1>1
      <4>2. p[k] = dims[1] - 1 => p[k] - (dims[1] - 1) = 0
        BY <1>1, <3>3
      <4>3. p[k] >= dims[1] - 1 <=> p[k] = dims[1] - 1
        BY <1>1, <3>3
      <4> QED BY <1>1, <3>1, <3>2, <3>3, <3>5, <4>1, <4>2, <4>3
    <3> QED BY <3>4, <3>5
  <2> QED BY <1>1, <2>1 DEF Mutators!EdgePoints, Mutators!Visited
<1>6. CASE Len(dims) = 1
  BY <1>1, <1>4, <1>5, <1>6
<1>7. CASE Len(dims) = 2
  <2>1. DOMAIN dims = {1, 2} /\ dims[2] = dims[1]
    BY <1>1, <1>7
  <2> QED BY <1>4, <1>5, <1>7, <2>1
<1> QED BY <1>1, <1>6, <1>7

(* What the iteration of this moment computes *)
Points == IF stage = "inner" THEN Mutators!InnerPoints ELSE Mutators!EdgePoints

(* What an iteration reads is final. *)
LEMMA ReadsFinal ==
  ASSUME MutatorInv, stage \in {"inner", "edge"}, Len(dims) < 3, NEW p \in DOMAIN data,
         p \in Points, NEW q \in {Mutators!StartOf(p), Mutators!EndOf(p)}
  PROVE  IsFinal(q)
<1>1. /\ Len(dims) \in Nat /\ DOMAIN dims = 1 .. Len(dims) /\ dim \in DOMAIN dims
      /\ \A k \in DOMAIN dims : dims[k] = dims[1]
  BY InterpolatorIs
<1>2. /\ q \in DOMAIN data /\ \A k \in DOMAIN dims \ {dim} : q[k] = p[k]
      /\ q[dim] % block = 0 \/ q[dim] = dims[dim] - 1
  BY IntervalOf
<1>3. CASE Len(dims) = 1
  BY <1>1, <1>2, <1>3 DEF IsFinal, Mutators!IsPoint
<1>4. CASE Len(dims) = 2
  <2>1. DOMAIN dims = {1, 2} /\ dims[2] = dims[1]
    BY <1>1, <1>4
  <2>2. CASE dim = 2
    <3>1. p[1] % block = 0 \/ p[1] = dims[1] - 1
      BY <1>4, <2>2, PointsAre DEF Points
    <3> QED BY <1>2, <2>1, <2>2, <3>1 DEF IsFinal, Mutators!IsPoint
  <2>3. CASE dim = 1
    <3>1. InRow(q)
      BY <1>2, <2>3 DEF InRow
    <3>2. \A p2 \in DOMAIN data : InRow(p2) => IsFinal(p2)
      BY <1>4, <2>3 DEF MutatorInv, Interpolating
    <3> QED BY <1>2, <3>1, <3>2
  <2> QED BY <1>1, <2>1, <2>2, <2>3
<1> QED BY <1>1, <1>3, <1>4

(* An iteration of the interpolator: its elements become final as far as   *)
(* those are that it keeps.                                                *)
LEMMA Computes ==
  ASSUME MutatorInv, stage \in {"inner", "edge"}, Mutators!Compute(Points),
         dims' = dims, block' = block
  PROVE  /\ DOMAIN data' = DOMAIN data
         /\ \A p \in DOMAIN data : IsFinal(p) => IsFinal(p)'
         /\ \A p \in DOMAIN data : p \in Points /\ p[dim] % block # 0 => IsFinal(p)'
         /\ Mutators!NumbersIfBlocksFit'
<1>1. data' = [p \in DOMAIN data |-> IF p \in Points THEN Mutators!Interpolated(p) ELSE data[p]]
  BY DEF Mutators!Compute
<1>2. ASSUME NEW p \in DOMAIN data
      PROVE  /\ data'[p] \in {data[p], Mutators!Smooth, Mutators!NaN}
             /\ p \in Points /\ p[dim] % block # 0 => data'[p] \in {Mutators!Smooth, Mutators!NaN}
             /\ data'[p] = Mutators!NaN => dims[1] % block = 1
  <2>1. data[p] = Mutators!NaN => dims[1] % block = 1
    BY DEF MutatorInv, Mutators!NumbersIfBlocksFit
  <2> QED BY <1>1, <2>1, InterpolatedIs
<1>3. \A p : IsFinal(p)' <=> Mutators!IsPoint(p) \/ data'[p] \in {Mutators!Smooth, Mutators!NaN}
  BY SameMutator DEF IsFinal, Mutators!Smooth, Mutators!NaN
<1>4. Mutators!NumbersIfBlocksFit'
  BY <1>1, <1>2 DEF Mutators!NumbersIfBlocksFit, Mutators!NaN
<1> QED BY <1>1, <1>2, <1>3, <1>4 DEF IsFinal

(* The inner part of a dimension is interpolated. *)
LEMMA MutatorInner ==
  ASSUME MutatorInv, Mutators!Inner PROVE MutatorInv'
<1>1. /\ stage = "inner" /\ stage' = "edge" /\ dims' = dims /\ block' = block /\ dim' = dim
      /\ todo' = todo /\ Mutators!Compute(Points)
  BY DEF Mutators!Inner, Points
<1>2. /\ DOMAIN data' = DOMAIN data
      /\ \A p \in DOMAIN data : IsFinal(p) => IsFinal(p)'
      /\ \A p \in DOMAIN data : p \in Points /\ p[dim] % block # 0 => IsFinal(p)'
      /\ Mutators!NumbersIfBlocksFit'
  BY <1>1, Computes
<1>3. /\ Len(dims) \in Nat \ {0} /\ DOMAIN dims = 1 .. Len(dims) /\ dim \in DOMAIN dims
      /\ \A k \in DOMAIN dims : dims[k] = dims[1]
      /\ dims[1] \in Nat \ {0}
      /\ DOMAIN data = [DOMAIN dims -> 0 .. dims[1] - 1]
  BY <1>1, InterpolatorIs, MutatorConstants
<1>4. \A p : Mutators!IsPoint(p) => IsFinal(p)'
  BY <1>1, SameMutator DEF IsFinal
<1>5. \A p \in DOMAIN data : IsFinal(p)' \/ p \notin Points \/ p[dim] % block = 0
  BY <1>2
<1>6. MutatorTypeOK'
  BY <1>1, <1>2, SameMutator DEF MutatorInv, MutatorTypeOK
<1>7. CASE Len(dims) = 1
  <2>1. ASSUME NEW p \in DOMAIN data PROVE IsFinal(p)'
    <3>1. CASE p[1] = dims[1] - 1 \/ p[1] % block = 0
      <4>1. Mutators!IsPoint(p)
        BY <1>3, <1>7, <3>1 DEF Mutators!IsPoint
      <4> QED BY <1>4, <4>1
    <3>2. CASE p[1] # dims[1] - 1 /\ p[1] % block # 0
      <4>1. p[1] < dims[1] - 1 /\ dim = 1
        BY <1>3, <1>7, <3>2
      <4>2. p \in Points
        BY <1>1, <1>7, <4>1, PointsAre DEF Points
      <4> QED BY <1>5, <3>2, <4>1, <4>2
    <3> QED BY <3>1, <3>2
  <2>2. Interpolating'
    BY <1>1, <1>2, <1>7, <2>1 DEF Interpolating
  <2> QED BY <1>1, <1>2, <1>6, <2>2 DEF MutatorInv
<1>8. CASE Len(dims) = 2
  <2>1. DOMAIN dims = {1, 2} /\ dims[2] = dims[1] /\ Len(dims) < 3
    BY <1>3, <1>8
  <2>2. CASE dim = 2
    <3>1. ASSUME NEW p \in DOMAIN data, p[1] % block = 0, p[1] < dims[1] - 1 PROVE IsFinal(p)'
      <4>1. CASE p[2] = dims[2] - 1 \/ p[2] % block = 0
        <5>1. Mutators!IsPoint(p)
          BY <2>1, <3>1, <4>1 DEF Mutators!IsPoint
        <5> QED BY <1>4, <5>1
      <4>2. CASE p[2] # dims[2] - 1 /\ p[2] % block # 0
        <5>3. p[2] \in 0 .. dims[2] - 1 /\ dims[2] \in Nat
          BY <1>3, <2>1
        <5>1. p[2] < dims[2] - 1
          BY <4>2, <5>3
        <5>2. p \in Points
          BY <1>1, <1>8, <2>1, <2>2, <3>1, <5>1, PointsAre DEF Points
        <5> QED BY <1>5, <2>2, <4>2, <5>2
      <4> QED BY <4>1, <4>2
    <3>2. Interpolating'
      BY <1>1, <1>2, <1>8, <2>2, <3>1 DEF Interpolating
    <3> QED BY <1>1, <1>2, <1>6, <3>2 DEF MutatorInv
  <2>3. CASE dim = 1
    <3>1. ASSUME NEW p \in DOMAIN data, InRow(p) PROVE IsFinal(p)'
      <4>1. IsFinal(p)
        BY <1>1, <1>8, <2>1, <2>3, <3>1 DEF MutatorInv, Interpolating
      <4> QED BY <1>2, <4>1
    <3>2. ASSUME NEW p \in DOMAIN data, p[2] < dims[2] - 1 PROVE IsFinal(p)'
      <4>1. CASE InRow(p)
        BY <3>1, <4>1
      <4>2. CASE ~InRow(p)
        <5>1. p[1] % block # 0 /\ p[1] < dims[1] - 1
          BY <1>3, <2>1, <4>2 DEF InRow
        <5>2. p \in Points
          BY <1>1, <1>8, <2>1, <2>3, <3>2, <5>1, PointsAre DEF Points
        <5> QED BY <1>5, <2>3, <5>1, <5>2
      <4> QED BY <4>1, <4>2
    <3>3. \A p : InRow(p)' = InRow(p)
      BY <1>1, SameMutator
    <3>4. Interpolating'
      BY <1>1, <1>2, <1>8, <2>3, <3>1, <3>2, <3>3 DEF Interpolating
    <3> QED BY <1>1, <1>2, <1>6, <3>4 DEF MutatorInv
  <2> QED BY <1>3, <2>1, <2>2, <2>3
<1>9. CASE Len(dims) > 2
  BY <1>1, <1>2, <1>3, <1>6, <1>9 DEF MutatorInv, Interpolating
<1> QED BY <1>3, <1>7, <1>8, <1>9

(* The edge of a dimension is interpolated, and the next one begins. *)
LEMMA MutatorEdge ==
  ASSUME MutatorInv, Mutators!Edge PROVE MutatorInv'
<1>1. /\ stage = "edge" /\ stage' = (IF dim = 1 THEN "done" ELSE "inner") /\ dims' = dims
      /\ block' = block /\ dim' = dim - 1
      /\ todo' = todo /\ Mutators!Compute(Points)
  BY DEF Mutators!Edge, Points
<1>2. /\ DOMAIN data' = DOMAIN data
      /\ \A p \in DOMAIN data : IsFinal(p) => IsFinal(p)'
      /\ \A p \in DOMAIN data : p \in Points /\ p[dim] % block # 0 => IsFinal(p)'
      /\ Mutators!NumbersIfBlocksFit'
  BY <1>1, Computes
<1>3. /\ Len(dims) \in Nat \ {0} /\ DOMAIN dims = 1 .. Len(dims) /\ dim \in DOMAIN dims
      /\ \A k \in DOMAIN dims : dims[k] = dims[1]
      /\ dims[1] \in Nat \ {0} /\ todo = {}
      /\ DOMAIN data = [DOMAIN dims -> 0 .. dims[1] - 1]
  BY <1>1, InterpolatorIs, MutatorConstants
<1>4. \A p : Mutators!IsPoint(p) => IsFinal(p)'
  BY <1>1, SameMutator DEF IsFinal
<1>5. \A p \in DOMAIN data : IsFinal(p)' \/ p \notin Points \/ p[dim] % block = 0
  BY <1>2
<1>6. MutatorTypeOK'
  <2>1. dim - 1 \in 0 .. Len(dims) /\ (dim # 1 => dim - 1 > 0)
    BY <1>3
  <2> QED BY <1>1, <1>2, <1>3, <2>1, SameMutator DEF MutatorInv, MutatorTypeOK
<1>7. CASE Len(dims) = 1
  <2>1. dim = 1 /\ Len(dims) < 3
    BY <1>3, <1>7
  <2>2. ASSUME NEW p \in DOMAIN data PROVE IsFinal(p)'
    <3>1. IsFinal(p)
      BY <1>1, <1>7, <2>1 DEF MutatorInv, Interpolating
    <3> QED BY <1>2, <3>1
  <2>3. Interpolating'
    BY <1>1, <1>2, <1>7, <2>1, <2>2 DEF Interpolating
  <2> QED BY <1>1, <1>2, <1>6, <2>1, <2>3 DEF MutatorInv
<1>8. CASE Len(dims) = 2
  <2>1. DOMAIN dims = {1, 2} /\ dims[2] = dims[1] /\ Len(dims) < 3
    BY <1>3, <1>8
  <2>2. CASE dim = 2
    <3>1. ASSUME NEW p \in DOMAIN data, InRow(p) PROVE IsFinal(p)'
      <4>1. CASE p[1] # dims[1] - 1
        <5>1. p[1] % block = 0 /\ p[1] < dims[1] - 1
          BY <1>3, <2>1, <3>1, <4>1 DEF InRow
        <5>2. IsFinal(p)
          BY <1>1, <1>8, <2>1, <2>2, <5>1 DEF MutatorInv, Interpolating
        <5> QED BY <1>2, <5>2
      <4>2. CASE p[1] = dims[1] - 1 /\ p[2] % block = 0
        <5>1. Mutators!IsPoint(p)
          BY <2>1, <4>2 DEF Mutators!IsPoint
        <5> QED BY <1>4, <5>1
      <4>3. CASE p[1] = dims[1] - 1 /\ p[2] % block # 0
        <5>2. p \in Points
          BY <1>1, <1>8, <2>1, <2>2, <4>3, PointsAre DEF Points
        <5> QED BY <1>5, <2>2, <4>3, <5>2
      <4> QED BY <4>1, <4>2, <4>3
    <3>2. \A p : InRow(p)' = InRow(p)
      BY <1>1, SameMutator
    <3>3. dim' = 1 /\ stage' = "inner"
      BY <1>1, <2>2
    <3>4. Interpolating'
      BY <1>1, <1>2, <1>8, <3>1, <3>2, <3>3 DEF Interpolating
    <3> QED BY <1>2, <1>6, <3>3, <3>4 DEF MutatorInv
  <2>3. CASE dim = 1
    <3>1. ASSUME NEW p \in DOMAIN data PROVE IsFinal(p)'
      <4>1. CASE InRow(p)
        <5>1. IsFinal(p)
          BY <1>1, <1>8, <2>1, <2>3, <4>1 DEF MutatorInv, Interpolating
        <5> QED BY <1>2, <5>1
      <4>2. CASE p[2] < dims[2] - 1
        <5>1. IsFinal(p)
          BY <1>1, <1>8, <2>1, <2>3, <4>2 DEF MutatorInv, Interpolating
        <5> QED BY <1>2, <5>1
      <4>3. CASE ~InRow(p) /\ ~(p[2] < dims[2] - 1)
        <5>3. p[2] \in 0 .. dims[2] - 1 /\ dims[2] \in Nat
          BY <1>3, <2>1
        <5>1. p[1] % block # 0 /\ p[2] = dims[2] - 1
          BY <4>3, <5>3 DEF InRow
        <5>2. p \in Points
          BY <1>1, <1>8, <2>1, <2>3, <5>1, PointsAre DEF Points
        <5> QED BY <1>5, <2>3, <5>1, <5>2
      <4> QED BY <4>1, <4>2, <4>3
    <3>2. dim' = 0 /\ stage' = "done"
      BY <1>1, <2>3
    <3>3. Interpolating'
      BY <1>1, <1>2, <1>8, <3>1, <3>2 DEF Interpolating
    <3> QED BY <1>2, <1>6, <3>2, <3>3 DEF MutatorInv
  <2> QED BY <1>3, <2>1, <2>2, <2>3
<1>9. CASE Len(dims) > 2
  <2>1. ~(Len(dims) < 3)
    BY <1>3, <1>9
  <2>2. Interpolating'
    BY <1>1, <2>1 DEF Interpolating
  <2>3. stage' \in {"inner", "done"}
    BY <1>1
  <2> QED BY <1>2, <1>6, <2>2, <2>3 DEF MutatorInv
<1> QED BY <1>3, <1>7, <1>8, <1>9

(* Nothing is left of the call. *)
LEMMA MutatorReturn ==
  ASSUME MutatorInv, Mutators!Return PROVE MutatorInv'
BY DEF Mutators!Return, MutatorInv, MutatorTypeOK, Mutators!NumbersIfBlocksFit, Mutators!NoArray

(* The mutators rest. *)
LEMMA MutatorStutter ==
  ASSUME MutatorInv, UNCHANGED mutatorVars PROVE MutatorInv'
<1>1. /\ stage' = stage /\ dims' = dims /\ block' = block /\ dim' = dim /\ data' = data
      /\ todo' = todo
  BY DEF mutatorVars
<1>2. MutatorTypeOK'
  BY <1>1, SameMutator DEF MutatorInv, MutatorTypeOK
<1>3. \A p : IsFinal(p)' <=> IsFinal(p)
  BY <1>1, SameMutator DEF IsFinal, Mutators!Smooth, Mutators!NaN
<1>4. Repeating' = Repeating
  BY <1>1, SameMutator DEF Repeating, Mutators!Raw
<1>5. Interpolating' = Interpolating
  BY <1>1, <1>3, SameMutator DEF Interpolating
<1>6. Repeater' = Repeater
  BY <1>1, SameMutator DEF Repeater
<1>7. Mutators!NumbersIfBlocksFit' = Mutators!NumbersIfBlocksFit
  BY <1>1 DEF Mutators!NumbersIfBlocksFit, Mutators!NaN
<1> QED BY <1>1, <1>2, <1>4, <1>5, <1>6, <1>7 DEF MutatorInv

(* The invariant of the mutators is inductive. *)
LEMMA MutatorStep ==
  ASSUME MutatorInv, [Next]_vars PROVE MutatorInv'
<1>1. CASE walk = "mutators" /\ Mutators!Next
  <2>1. ASSUME NEW d \in Cubes, NEW b \in Blocks, stage = "idle", Mutators!Repeat(d, b)
        PROVE  MutatorInv'
    BY <2>1, MutatorRepeat
  <2>2. ASSUME NEW d \in Cubes, NEW b \in Blocks, stage = "idle", Mutators!Interpolate(d, b)
        PROVE  MutatorInv'
    BY <2>2, MutatorInterpolate
  <2> QED BY <1>1, <2>1, <2>2, MutatorRepeatBlock, MutatorRepeated, MutatorInner, MutatorEdge,
             MutatorReturn DEF Mutators!Next
<1>2. CASE UNCHANGED mutatorVars
  BY <1>2, MutatorStutter
<1> QED BY <1>1, <1>2 DEF Next, vars

(* The three parts of MutatedAsMeant follow. *)
LEMMA MutatorsMean == MutatorInv => MutatedAsMeant
<1> SUFFICES ASSUME MutatorInv PROVE MutatedAsMeant
  OBVIOUS
<1>1. Mutators!BlocksAreConstant
  <2> SUFFICES ASSUME stage = "repeat", todo = {}, NEW p \in DOMAIN data
               PROVE  data[p] = Mutators!Raw([k \in DOMAIN dims |-> (p[k] \div block) * block])
    BY DEF Mutators!BlocksAreConstant
  <2> QED BY DEF MutatorInv, Repeating, BlockOf
<1>2. Mutators!NothingRawBetween
  <2> SUFFICES ASSUME stage = "done", Len(dims) < 3, NEW q \in DOMAIN data,
                      data[q] = Mutators!Smooth, NEW p \in DOMAIN data
               PROVE  IsFinal(p)
    BY DEF Mutators!NothingRawBetween, IsFinal
  <2>1. dims \in Cubes /\ dim = 0
    BY DEF MutatorInv, MutatorTypeOK
  <2>2. Len(dims) \in Nat \ {0} /\ 1 \in DOMAIN dims
    BY <2>1, MutatorConstants
  <2>3. ~Repeater
    <3>1. ASSUME Mutators!Smooth \in Mutators!Positions(dims) PROVE FALSE
      BY <2>2, <3>1 DEF Mutators!Smooth, Mutators!Positions
    <3> QED BY <3>1 DEF Repeater
  <2>4. Interpolating
    BY <2>3 DEF MutatorInv
  <2>5. Len(dims) = 1 \/ Len(dims) = 2
    <3>1. PICK n \in Nat \ {0} : n = Len(dims)
      BY <2>2
    <3>2. n < 3
      BY <3>1
    <3> QED BY <3>1, <3>2
  <2> QED BY <2>4, <2>5 DEF Interpolating
<1> QED BY <1>1, <1>2 DEF MutatorInv, MutatedAsMeant, Mutators!MutatedAsMeant

(* The repeater leaves blocks of one value, and the interpolator of arrays *)
(* of one or two dimensions smooth values between the points it keeps,     *)
(* whatever the lengths of the array and of the blocks.                    *)
THEOREM MutatedRight == Spec => []MutatedAsMeant
<1>1. Init => MutatorInv
  BY MutatorInit DEF Init
<1>2. MutatorInv /\ [Next]_vars => MutatorInv'
  BY MutatorStep
<1> QED BY <1>1, <1>2, MutatorsMean, PTL DEF Spec

(* An iteration of the interpolator reads only points that are kept and    *)
(* values that an earlier one has computed.                                *)
THEOREM ReadsRight == Spec => ReadsAreFinal
<1>1. MutatorInv /\ [Next]_vars =>
        [(stage = "inner" \/ stage = "edge") /\ Len(dims) < 3 =>
            \A p \in IF stage = "inner" THEN Mutators!InnerPoints ELSE Mutators!EdgePoints :
                \A q \in {Mutators!StartOf(p), Mutators!EndOf(p)} :
                    Mutators!IsPoint(q) \/ data[q] \in {Mutators!Smooth, Mutators!NaN}]_Mutators!vars
  <2> SUFFICES ASSUME MutatorInv, stage \in {"inner", "edge"}, Len(dims) < 3, NEW p \in Points,
                      NEW q \in {Mutators!StartOf(p), Mutators!EndOf(p)}
               PROVE  IsFinal(q)
    BY DEF Points, IsFinal
  <2>1. p \in DOMAIN data
    <3>1. DOMAIN data = Mutators!Positions(dims)
      BY InterpolatorIs
    <3> QED BY <3>1 DEF Points, Mutators!InnerPoints, Mutators!EdgePoints, Mutators!Visited
  <2> QED BY <2>1, ReadsFinal
<1>2. Init => MutatorInv
  BY MutatorInit DEF Init
<1>3. MutatorInv /\ [Next]_vars => MutatorInv'
  BY MutatorStep
<1> QED BY <1>1, <1>2, <1>3, PTL DEF Spec, ReadsAreFinal, Mutators!ReadsAreFinal

-----------------------------------------------------------------------------
(* The characteristics of data (ScilStatistics) *)

(* The names that ScilStatistics has of the modules it extends *)
LEMMA StatisticsNames ==
  /\ \A S : Statistics!Cardinality(S) = Cardinality(S)
  /\ \A x \in Int : Statistics!Abs(x) \in Nat /\ (Statistics!Abs(x) = x \/ Statistics!Abs(x) = -x)
BY DEF Statistics!Cardinality, Cardinality, Statistics!Abs

(* What the buffers are *)
LEMMA StatisticsConstants ==
  ASSUME NEW a \in Arrays
  PROVE  /\ a.length \in Seq(Nat \ {0}) /\ Len(a.length) \in 1 .. 4
         /\ DOMAIN a.length = 1 .. Len(a.length)
         /\ \A k \in DOMAIN a.length : a.length[k] \in Nat \ {0}
         /\ a.data \in [0 .. Statistics!ElementsOf(a.length) - 1 -> Int]
<1>1. Statistics!StatisticsAssumption
  BY ArraysAssumption DEF ArraysAssumption
<1>2. a.length \in Seq(Nat \ {0}) /\ Len(a.length) \in 1 .. 4
  BY <1>1 DEF Statistics!StatisticsAssumption
<1>3. a.data \in [0 .. Statistics!ElementsOf(a.length) - 1 -> Int]
  BY <1>1 DEF Statistics!StatisticsAssumption
<1> QED BY <1>2, <1>3

(* A set of numbers with a bound has a largest one. *)
LEMMA Greatest ==
  ASSUME NEW T \in SUBSET Nat, T # {}, NEW b \in Nat, \A n \in T : n <= b
  PROVE  Statistics!Max(T) \in T /\ \A n \in T : n <= Statistics!Max(T)
<1> DEFINE U == {n \in 0 .. b : b - n \in T}
<1>0. U \in SUBSET Nat
  OBVIOUS
<1>1. U # {}
  <2>1. PICK n \in T : TRUE
    OBVIOUS
  <2>2. b - n \in 0 .. b /\ b - (b - n) = n
    BY <2>1
  <2>3. b - n \in U
    BY <2>1, <2>2
  <2> QED BY <2>3
<1>2. PICK m \in U : \A n \in U : m <= n
  <2> HIDE DEF U
  <2> QED BY <1>0, <1>1, Least
<1>3. b - m \in T /\ \A n \in T : b - m >= n
  <2> SUFFICES ASSUME NEW n \in T PROVE b - m >= n
    OBVIOUS
  <2>1. b - n \in 0 .. b /\ b - (b - n) = n
    OBVIOUS
  <2>2. m <= b - n
    BY <1>2, <2>1
  <2> QED BY <2>2
<1>4. \E x \in T : \A y \in T : x >= y
  BY <1>3
<1>5. Statistics!Max(T) \in T /\ \A n \in T : Statistics!Max(T) >= n
  BY <1>4 DEF Statistics!Max
<1> QED BY <1>5

(* The number of elements of a buffer *)
LEMMA BufferCount ==
  ASSUME NEW n \in Nat, NEW f, DOMAIN f = 0 .. n - 1
  PROVE  Statistics!Count(f) = n /\ IsFiniteSet(DOMAIN f)
<1>1. IsFiniteSet(0 .. n - 1) /\ Cardinality(0 .. n - 1) = IF 0 > n - 1 THEN 0 ELSE (n - 1) - 0 + 1
  BY FS_Interval
<1>2. Cardinality(0 .. n - 1) = n
  BY <1>1
<1> QED BY <1>1, <1>2, StatisticsNames DEF Statistics!Count

(* The volumes of the first dimensions are products. *)
LEMMA VolumeIs ==
  ASSUME NEW l \in Seq(Nat \ {0})
  PROVE  /\ Statistics!Volume(l) \in [0 .. Len(l) -> Nat \ {0}]
         /\ Statistics!Volume(l)[0] = 1
         /\ \A k \in 1 .. Len(l) : Statistics!Volume(l)[k] = Statistics!Volume(l)[k - 1] * l[k]
<1> DEFINE S == 0 .. Len(l)
           D == Nat \ {0}
           H == [k \in S |-> [v \in D |-> IF k = 0 THEN 1 ELSE v * l[k]]]
           Equation(part) == part = [k \in S |-> IF k = 0 THEN 1 ELSE part[k - 1] * l[k]]
           V == Statistics!Volume(l)
<1>0. Len(l) \in Nat /\ \A k \in 1 .. Len(l) : l[k] \in D
  OBVIOUS
<1>1. \E f \in [S -> D] : Follows(f, 0, S, 1, H)
  <2>1. \A k \in S : H[k] \in [D -> D]
    <3> SUFFICES ASSUME NEW k \in S, NEW v \in D PROVE (IF k = 0 THEN 1 ELSE v * l[k]) \in D
      OBVIOUS
    <3>1. k # 0 => k \in 1 .. Len(l)
      BY <1>0
    <3> QED BY <1>0, <3>1
  <2>2. /\ \A k \in S : k = 0 \/ (k > 0 /\ k - 1 \in S)
        /\ 0 \in S /\ S \in SUBSET Nat /\ 1 \in D /\ 0 \in Nat
    BY <1>0
  <2> HIDE DEF S, H, D
  <2> QED BY <2>1, <2>2, Recursion
<1>2. PICK f \in [S -> D] : Follows(f, 0, S, 1, H)
  BY <1>1
<1>3. ASSUME NEW k \in S PROVE f[k] = IF k = 0 THEN 1 ELSE f[k - 1] * l[k]
  <2>1. f[k] = IF k = 0 THEN 1 ELSE H[k][f[k - 1]]
    BY <1>2 DEF Follows
  <2>2. CASE k # 0
    <3>1. k - 1 \in S
      BY <1>0, <2>2
    <3>2. f[k - 1] \in D
      BY <3>1
    <3>3. H[k][f[k - 1]] = f[k - 1] * l[k]
      BY <2>2, <3>2
    <3> QED BY <2>1, <2>2, <3>3
  <2> QED BY <2>1, <2>2
<1>4. Equation(f)
  <2> HIDE DEF H, D
  <2> QED BY <1>2, <1>3
<1>5. V = CHOOSE part : Equation(part)
  BY DEF Statistics!Volume
<1>6. Equation(V)
  <2> HIDE DEF Equation, V
  <2> QED BY <1>4, <1>5
<1>7. \A k \in S : V[k] = IF k = 0 THEN 1 ELSE V[k - 1] * l[k]
  <2> HIDE DEF V
  <2> QED BY <1>6
<1> DEFINE T == {k \in S : V[k] \in D}
<1> HIDE DEF V
<1>8. 0 \in T
  BY <1>0, <1>7
<1>9. ASSUME NEW k \in S, k # 0, k - 1 \in T PROVE k \in T
  <2>1. V[k] = V[k - 1] * l[k] /\ V[k - 1] \in D /\ l[k] \in D
    BY <1>0, <1>7, <1>9
  <2>2. \A x, y \in D : x * y \in D
    OBVIOUS
  <2> QED BY <2>1, <2>2
<1>10. S \subseteq T
  <2>1. S \in SUBSET Nat /\ \A k \in S : k = 0 \/ (k > 0 /\ k - 1 \in S)
    BY <1>0
  <2> HIDE DEF S, T
  <2> QED BY <1>8, <1>9, <2>1, Induction
<1>11. V \in [S -> D]
  <2> HIDE DEF D
  <2> QED BY <1>6, <1>10
<1>12. \A k \in 1 .. Len(l) : k \in S /\ k # 0
  BY <1>0
<1> QED BY <1>0, <1>7, <1>8, <1>11, <1>12 DEF V

(* s are the sums of the first values of f. *)
Sums(s, f, n) ==
    /\ s \in [0 .. n -> Int] /\ s[0] = 0
    /\ \A k \in 1 .. n : s[k] = s[k - 1] + f[k - 1]

(* The loop that adds the values of f *)
LEMMA SumIs ==
  ASSUME NEW n \in Nat, NEW f \in [0 .. n - 1 -> Int]
  PROVE  \E s : Sums(s, f, n) /\ Statistics!Sum(f) = s[n]
<1> DEFINE S == 0 .. n
           H == [k \in S |-> [v \in Int |-> IF k = 0 THEN 0 ELSE v + f[k - 1]]]
           Equation(s) == s = [k \in S |-> IF k = 0 THEN 0 ELSE s[k - 1] + f[k - 1]]
           W == CHOOSE s : Equation(s)
<1>0. \A k \in 1 .. n : k - 1 \in 0 .. n - 1 /\ f[k - 1] \in Int
  OBVIOUS
<1>1. \E s \in [S -> Int] : Follows(s, 0, S, 0, H)
  <2>1. \A k \in S : H[k] \in [Int -> Int]
    <3> SUFFICES ASSUME NEW k \in S, NEW v \in Int PROVE (IF k = 0 THEN 0 ELSE v + f[k - 1]) \in Int
      OBVIOUS
    <3>1. k # 0 => k \in 1 .. n
      OBVIOUS
    <3> QED BY <1>0, <3>1
  <2>2. /\ \A k \in S : k = 0 \/ (k > 0 /\ k - 1 \in S)
        /\ 0 \in S /\ S \in SUBSET Nat /\ 0 \in Int /\ 0 \in Nat
    OBVIOUS
  <2> HIDE DEF S, H
  <2> QED BY <2>1, <2>2, Recursion
<1>2. PICK s \in [S -> Int] : Follows(s, 0, S, 0, H)
  BY <1>1
<1>3. ASSUME NEW k \in S PROVE s[k] = IF k = 0 THEN 0 ELSE s[k - 1] + f[k - 1]
  <2>1. s[k] = IF k = 0 THEN 0 ELSE H[k][s[k - 1]]
    BY <1>2 DEF Follows
  <2>2. CASE k # 0
    <3>1. k - 1 \in S
      BY <2>2
    <3>2. s[k - 1] \in Int
      BY <3>1
    <3>3. H[k][s[k - 1]] = s[k - 1] + f[k - 1]
      BY <2>2, <3>2
    <3> QED BY <2>1, <2>2, <3>3
  <2> QED BY <2>1, <2>2
<1>4. Equation(s)
  <2> HIDE DEF H
  <2> QED BY <1>2, <1>3
<1>5. Statistics!Sum(f) = W[n]
  <2>1. Statistics!Count(f) = n
    BY BufferCount
  <2> QED BY <2>1 DEF Statistics!Sum
<1>6. Equation(W)
  <2> HIDE DEF Equation
  <2> QED BY <1>4
<1>7. \A k \in S : W[k] = IF k = 0 THEN 0 ELSE W[k - 1] + f[k - 1]
  <2> HIDE DEF W
  <2> QED BY <1>6
<1> DEFINE T == {k \in S : W[k] \in Int}
<1> HIDE DEF W
<1>8. 0 \in T
  BY <1>7
<1>9. ASSUME NEW k \in S, k # 0, k - 1 \in T PROVE k \in T
  <2>1. k \in 1 .. n
    BY <1>9
  <2>2. W[k] = W[k - 1] + f[k - 1] /\ W[k - 1] \in Int /\ f[k - 1] \in Int
    BY <1>0, <1>7, <1>9, <2>1
  <2> QED BY <2>2
<1>10. S \subseteq T
  <2>1. S \in SUBSET Nat /\ \A k \in S : k = 0 \/ (k > 0 /\ k - 1 \in S)
    OBVIOUS
  <2> HIDE DEF S, T
  <2> QED BY <1>8, <1>9, <2>1, Induction
<1>11. W \in [S -> Int]
  BY <1>6, <1>10
<1>12. \A k \in 1 .. n : k \in S /\ k # 0
  OBVIOUS
<1>13. Sums(W, f, n)
  BY <1>7, <1>8, <1>11, <1>12 DEF Sums
<1> QED BY <1>5, <1>13

(* One more value in each of the three sums: n times the value less the    *)
(* mean, squared                                                           *)
LEMMA SquareIs ==
  ASSUME NEW n \in Int, NEW m \in Int, NEW k \in Int, NEW x \in Int, NEW s \in Int, NEW q \in Int
  PROVE  ((n * n) * q - 2 * (n * (m * s)) + k * (m * m)) + (n * x - m) * (n * x - m)
           = (n * n) * (q + x * x) - 2 * (n * (m * (s + x))) + (k + 1) * (m * m)
<1>1. (n * x - m) * (n * x - m) = (n * n) * (x * x) - 2 * (n * (m * x)) + m * m
  OBVIOUS
<1>2. (n * n) * (q + x * x) = (n * n) * q + (n * n) * (x * x)
  OBVIOUS
<1>3. n * (m * (s + x)) = n * (m * s) + n * (m * x)
  OBVIOUS
<1>4. (k + 1) * (m * m) = k * (m * m) + m * m
  OBVIOUS
<1> QED BY <1>1, <1>2, <1>3, <1>4

(* Both formulas of the deviation give the same number, whatever the data. *)
LEMMA FormulasAgree ==
  ASSUME NEW n \in Nat, NEW f \in [0 .. n - 1 -> Int]
  PROVE  Statistics!Variance(f, Statistics!MeanSum(f)) = Statistics!VarianceAlt(f)
<1> DEFINE m  == Statistics!Sum(f)
           g  == [i \in 0 .. n - 1 |-> f[i] * f[i]]
           h  == [i \in 0 .. n - 1 |-> (n * f[i] - m) * (n * f[i] - m)]
<1>1. PICK s : Sums(s, f, n) /\ m = s[n]
  BY SumIs
<1>2. m \in Int /\ \A i \in 0 .. n - 1 : f[i] \in Int
  <2>1. n \in 0 .. n
    OBVIOUS
  <2> QED BY <1>1, <2>1 DEF Sums
<1> HIDE DEF m
<1>3. g \in [0 .. n - 1 -> Int] /\ h \in [0 .. n - 1 -> Int]
  <2>1. \A x, y \in Int : x * y \in Int /\ x - y \in Int
    OBVIOUS
  <2> QED BY <1>2, <2>1
<1>4. PICK q : Sums(q, g, n) /\ Statistics!Sum(g) = q[n]
  <2> HIDE DEF g
  <2> QED BY <1>3, SumIs
<1>5. PICK v : Sums(v, h, n) /\ Statistics!Sum(h) = v[n]
  <2> HIDE DEF h
  <2> QED BY <1>3, SumIs
<1>6. Statistics!Count(f) = n /\ DOMAIN f = 0 .. n - 1
  BY BufferCount
<1>7. Statistics!Variance(f, Statistics!MeanSum(f)) = v[n]
  BY <1>5, <1>6 DEF Statistics!Variance, Statistics!MeanSum, m
<1>8. Statistics!VarianceAlt(f) = n * (n * q[n] - m * m)
  BY <1>4, <1>6 DEF Statistics!VarianceAlt, m
<1> DEFINE Mean(k) == (n * n) * q[k] - 2 * (n * (m * s[k])) + k * (m * m)
           S == 0 .. n
           T == {k \in S : v[k] = Mean(k)}
<1>9. 0 \in T
  <2>1. v[0] = 0 /\ q[0] = 0 /\ s[0] = 0
    BY <1>1, <1>4, <1>5 DEF Sums
  <2>2. (n * n) * 0 - 2 * (n * (m * 0)) + 0 * (m * m) = 0
    BY <1>2
  <2> QED BY <2>1, <2>2
<1>10. ASSUME NEW k \in S, k # 0, k - 1 \in T PROVE k \in T
  <2>1. k \in 1 .. n /\ k - 1 \in 0 .. n - 1 /\ k - 1 \in 0 .. n /\ (k - 1) + 1 = k
    BY <1>10
  <2>2. /\ v[k] = v[k - 1] + h[k - 1] /\ q[k] = q[k - 1] + g[k - 1] /\ s[k] = s[k - 1] + f[k - 1]
        /\ q[k - 1] \in Int /\ s[k - 1] \in Int
    BY <1>1, <1>4, <1>5, <2>1 DEF Sums
  <2>3. PICK x \in Int : x = f[k - 1]
    BY <1>2, <2>1
  <2>4. g[k - 1] = x * x /\ h[k - 1] = (n * x - m) * (n * x - m)
    BY <2>1, <2>3
  <2>5. v[k - 1] = (n * n) * q[k - 1] - 2 * (n * (m * s[k - 1])) + (k - 1) * (m * m)
    BY <1>10
  <2>6. v[k] = (n * n) * (q[k - 1] + x * x) - 2 * (n * (m * (s[k - 1] + x))) + ((k - 1) + 1) * (m * m)
    <3> HIDE DEF g, h, T, S
    <3>1. PICK j \in Int, y \in Int, z \in Int : j = k - 1 /\ y = q[k - 1] /\ z = s[k - 1]
      BY <2>1, <2>2
    <3>2. ((n * n) * y - 2 * (n * (m * z)) + j * (m * m)) + (n * x - m) * (n * x - m)
            = (n * n) * (y + x * x) - 2 * (n * (m * (z + x))) + (j + 1) * (m * m)
      BY <1>2, SquareIs
    <3>3. v[k] = v[k - 1] + (n * x - m) * (n * x - m)
      BY <2>2, <2>4
    <3> QED BY <2>5, <3>1, <3>2, <3>3
  <2>7. v[k] = Mean(k)
    <3> HIDE DEF g, h, T, S
    <3>1. q[k] = q[k - 1] + x * x /\ s[k] = s[k - 1] + x
      BY <2>2, <2>3, <2>4
    <3> QED BY <2>1, <2>6, <3>1
  <2> QED BY <2>7
<1>11. S \subseteq T
  <2>1. S \in SUBSET Nat /\ \A k \in S : k = 0 \/ (k > 0 /\ k - 1 \in S)
    OBVIOUS
  <2>2. 0 \in Nat /\ 0 \in S
    OBVIOUS
  <2> HIDE DEF S, T
  <2> QED BY <1>9, <1>10, <2>1, <2>2, Induction
<1>12. v[n] = Mean(n)
  <2>1. n \in S
    OBVIOUS
  <2> QED BY <1>11, <2>1
<1>13. PICK c \in Int : c = q[n]
  <2>1. n \in 0 .. n
    OBVIOUS
  <2> QED BY <1>4, <2>1 DEF Sums
<1>14. (n * n) * c - 2 * (n * (m * m)) + n * (m * m) = n * (n * c - m * m)
  <2>1. (n * n) * c = n * (n * c) /\ n * (n * c - m * m) = n * (n * c) - n * (m * m)
    BY <1>2
  <2> QED BY <1>2, <2>1
<1> HIDE DEF T, S, g, h
<1> QED BY <1>1, <1>7, <1>8, <1>12, <1>13, <1>14

(* The elements that come before one when the buffer is sorted *)
Earlier(f, i) == {j \in DOMAIN f : f[j] < f[i] \/ (f[j] = f[i] /\ j < i)}

LEMMA RankIs ==
  ASSUME NEW n \in Nat, NEW f \in [0 .. n - 1 -> Int], NEW i \in 0 .. n - 1
  PROVE  /\ IsFiniteSet(Earlier(f, i)) /\ Statistics!Rank(f, i) = Cardinality(Earlier(f, i))
         /\ Statistics!Rank(f, i) \in 0 .. n - 1
<1>1. Statistics!Rank(f, i) = Cardinality(Earlier(f, i))
  BY StatisticsNames DEF Statistics!Rank, Earlier
<1>2. IsFiniteSet(DOMAIN f) /\ DOMAIN f = 0 .. n - 1 /\ Cardinality(DOMAIN f) = n
  <2>1. Statistics!Count(f) = n /\ IsFiniteSet(DOMAIN f)
    BY BufferCount
  <2> QED BY <2>1, StatisticsNames DEF Statistics!Count
<1>3. Earlier(f, i) \in SUBSET (DOMAIN f \ {i})
  BY <1>2 DEF Earlier
<1>4. IsFiniteSet(DOMAIN f \ {i}) /\ Cardinality(DOMAIN f \ {i}) = n - 1
  BY <1>2, FS_RemoveElement
<1>5. IsFiniteSet(Earlier(f, i)) /\ Cardinality(Earlier(f, i)) <= n - 1
  BY <1>3, <1>4, FS_Subset
<1>6. Cardinality(Earlier(f, i)) \in Nat
  BY <1>5, FS_CardinalityType
<1> QED BY <1>1, <1>5, <1>6

(* Of two elements the earlier one has the lower rank. *)
LEMMA RankGrows ==
  ASSUME NEW n \in Nat, NEW f \in [0 .. n - 1 -> Int], NEW i \in 0 .. n - 1, NEW j \in 0 .. n - 1,
         i \in Earlier(f, j)
  PROVE  Statistics!Rank(f, i) < Statistics!Rank(f, j)
<1>1. /\ IsFiniteSet(Earlier(f, i)) /\ Statistics!Rank(f, i) = Cardinality(Earlier(f, i))
      /\ IsFiniteSet(Earlier(f, j)) /\ Statistics!Rank(f, j) = Cardinality(Earlier(f, j))
      /\ Statistics!Rank(f, i) \in Nat /\ Statistics!Rank(f, j) \in Nat
  BY RankIs
<1>2. \A k \in 0 .. n - 1 : f[k] \in Int
  OBVIOUS
<1>3. Earlier(f, i) \subseteq Earlier(f, j)
  BY <1>2 DEF Earlier
<1>4. i \notin Earlier(f, i)
  BY <1>2 DEF Earlier
<1>5. Cardinality(Earlier(f, i)) <= Cardinality(Earlier(f, j))
  BY <1>1, <1>3, FS_Subset
<1>6. Cardinality(Earlier(f, j)) # Cardinality(Earlier(f, i))
  <2> SUFFICES ASSUME Cardinality(Earlier(f, j)) = Cardinality(Earlier(f, i)) PROVE FALSE
    OBVIOUS
  <2>1. Earlier(f, j) = Earlier(f, i)
    BY <1>1, <1>3, FS_Subset
  <2> QED BY <1>4, <2>1
<1> QED BY <1>1, <1>5, <1>6

(* Each place of the sorted copy has its element. *)
LEMMA EveryRank ==
  ASSUME NEW n \in Nat, NEW f \in [0 .. n - 1 -> Int], NEW r \in 0 .. n - 1
  PROVE  \E i \in 0 .. n - 1 : Statistics!Rank(f, i) = r
<1> DEFINE N == 0 .. n - 1
           g == [i \in N |-> Statistics!Rank(f, i)]
<1>1. g \in [N -> N]
  BY RankIs
<1>2. \A i \in N : f[i] \in Int
  OBVIOUS
<1>3. ASSUME NEW i \in N, NEW j \in N, g[i] = g[j] PROVE i = j
  <2>1. ASSUME i # j PROVE FALSE
    <3>1. i \in Earlier(f, j) \/ j \in Earlier(f, i)
      <4>1. f[i] < f[j] \/ f[j] < f[i] \/ (f[i] = f[j] /\ (i < j \/ j < i))
        BY <1>2, <2>1
      <4> QED BY <4>1 DEF Earlier
    <3>2. Statistics!Rank(f, i) < Statistics!Rank(f, j) \/ Statistics!Rank(f, j) < Statistics!Rank(f, i)
      BY <3>1, RankGrows
    <3>3. g[i] = Statistics!Rank(f, i) /\ g[j] = Statistics!Rank(f, j)
      OBVIOUS
    <3>4. \A k \in Nat : ~(k < k)
      OBVIOUS
    <3>5. Statistics!Rank(f, i) \in Nat
      BY RankIs
    <3> HIDE DEF g
    <3> QED BY <1>3, <3>2, <3>3, <3>4, <3>5
  <2> QED BY <2>1
<1>4. IsFiniteSet(N)
  BY FS_Interval
<1> HIDE DEF N
<1>5. g \in Injection(N, N)
  <2> HIDE DEF g
  <2> QED BY <1>1, <1>3 DEF Injection, IsInjective
<1>6. g \in Surjection(N, N)
  <2> HIDE DEF g
  <2> QED BY <1>4, <1>5, FS_Injection
<1>7. \E i \in N : g[i] = r
  <2> HIDE DEF g
  <2> QED BY <1>6 DEF Surjection, N
<1> QED BY <1>7 DEF N

(* Of an odd number of values the median has as many below as above. *)
LEMMA MedianBalances ==
  ASSUME NEW n \in Nat, n % 2 = 1, NEW f \in [0 .. n - 1 -> Int], NEW garbage
  PROVE  Statistics!Balanced(f, Statistics!Median(f, garbage))
<1>1. PICK h \in Nat : n = 2 * h + 1 /\ n \div 2 = h
  <2>1. n = 2 * (n \div 2) + (n % 2) /\ n \div 2 \in Nat
    OBVIOUS
  <2> QED BY <2>1
<1>2. Statistics!Count(f) = n /\ IsFiniteSet(DOMAIN f) /\ DOMAIN f = 0 .. n - 1
  BY BufferCount
<1> DEFINE c == CHOOSE i \in DOMAIN f : Statistics!Rank(f, i) = h
<1>3. c \in 0 .. n - 1 /\ Statistics!Rank(f, c) = h
  <2>1. h \in 0 .. n - 1
    BY <1>1
  <2>2. \E i \in 0 .. n - 1 : Statistics!Rank(f, i) = h
    BY <2>1, EveryRank
  <2> QED BY <1>2, <2>2
<1>4. Statistics!Median(f, garbage) = 2 * f[c]
  <2>1. Statistics!SortedCopy(f, garbage)[h] = f[c]
    <3>1. h \in 0 .. n /\ h < n
      BY <1>1
    <3> HIDE DEF c
    <3> QED BY <1>2, <3>1 DEF Statistics!SortedCopy, c
  <2> QED BY <1>1, <1>2, <2>1 DEF Statistics!Median
<1> HIDE DEF c
<1> DEFINE below == {i \in DOMAIN f : 2 * f[i] < 2 * f[c]}
           above == {i \in DOMAIN f : 2 * f[i] > 2 * f[c]}
<1>5. \A i \in DOMAIN f : f[i] \in Int
  BY <1>2
<1>6. IsFiniteSet(Earlier(f, c)) /\ Cardinality(Earlier(f, c)) = h
  BY <1>3, RankIs
<1>7. IsFiniteSet(below) /\ Cardinality(below) <= h
  <2>1. below \in SUBSET Earlier(f, c)
    BY <1>2, <1>3, <1>5 DEF Earlier
  <2> HIDE DEF below
  <2> QED BY <1>6, <2>1, FS_Subset
<1>8. above \in SUBSET ((DOMAIN f \ Earlier(f, c)) \ {c})
  BY <1>2, <1>3, <1>5 DEF Earlier
<1>9. IsFiniteSet((DOMAIN f \ Earlier(f, c)) \ {c}) /\ Cardinality((DOMAIN f \ Earlier(f, c)) \ {c}) = h
  <2>1. DOMAIN f \cap Earlier(f, c) = Earlier(f, c) /\ c \in DOMAIN f \ Earlier(f, c)
    BY <1>2, <1>3, <1>5 DEF Earlier
  <2>2. Cardinality(DOMAIN f) = n
    BY <1>2, StatisticsNames DEF Statistics!Count
  <2>3. IsFiniteSet(DOMAIN f \ Earlier(f, c)) /\ Cardinality(DOMAIN f \ Earlier(f, c)) = n - h
    BY <1>2, <1>6, <2>1, <2>2, FS_Difference
  <2>4. n - h - 1 = h
    BY <1>1
  <2>5. PICK R : R = DOMAIN f \ Earlier(f, c)
    OBVIOUS
  <2>6. IsFiniteSet(R) /\ c \in R /\ Cardinality(R) = n - h
    BY <2>1, <2>3, <2>5
  <2>7. IsFiniteSet(R \ {c}) /\ Cardinality(R \ {c}) = Cardinality(R) - 1
    BY <2>6, FS_RemoveElement
  <2> QED BY <2>4, <2>5, <2>6, <2>7
<1>10. IsFiniteSet(above) /\ Cardinality(above) <= h
  <2> HIDE DEF above
  <2> QED BY <1>8, <1>9, FS_Subset
<1>11. Cardinality(below) \in Nat /\ Cardinality(above) \in Nat
  <2> HIDE DEF above, below
  <2> QED BY <1>7, <1>10, FS_CardinalityType
<1>12. 2 * Cardinality(below) <= n /\ 2 * Cardinality(above) <= n
  <2> HIDE DEF above, below
  <2> QED BY <1>1, <1>7, <1>10, <1>11
<1>13. Statistics!Cardinality(below) = Cardinality(below) /\ Statistics!Cardinality(above) = Cardinality(above)
  BY StatisticsNames
<1> QED BY <1>2, <1>4, <1>12, <1>13 DEF Statistics!Balanced

-----------------------------------------------------------------------------
(* Flat positions *)

(* Numbers with two digits of different bases *)
LEMMA TwoDigits ==
  ASSUME NEW a \in Nat \ {0}, NEW b \in Nat \ {0}, NEW x \in 0 .. a - 1, NEW y \in 0 .. b - 1
  PROVE  x + a * y \in 0 .. a * b - 1
<1>1. a * y \in Nat /\ a * b \in Nat
  OBVIOUS
<1>2. PICK d \in Nat : b = y + 1 + d
  <2>1. b - y - 1 \in Nat /\ b = y + 1 + (b - y - 1)
    OBVIOUS
  <2> QED BY <2>1
<1>3. a * b = a * y + a + a * d /\ a * d \in Nat
  BY <1>2
<1> QED BY <1>1, <1>3

LEMMA DigitsOf ==
  ASSUME NEW a \in Nat \ {0}, NEW b \in Nat \ {0}, NEW n \in 0 .. a * b - 1
  PROVE  n % a \in 0 .. a - 1 /\ n \div a \in 0 .. b - 1 /\ n = (n \div a) * a + (n % a)
<1>0. n \in Int
  <2>1. a * b \in Int
    OBVIOUS
  <2> QED BY <2>1
<1>1. PICK q \in Int, r \in 0 .. a - 1 : q = n \div a /\ r = n % a /\ n = a * q + r
  <2>1. n = a * (n \div a) + (n % a) /\ n % a \in 0 .. a - 1 /\ n \div a \in Int
    BY <1>0, Division
  <2> QED BY <2>1
<1>2. q \in Nat
  <2>1. ASSUME q < 0 PROVE FALSE
    <3>1. PICK z \in Nat : q = -1 - z
      <4>1. -1 - q \in Nat /\ q = -1 - (-1 - q)
        BY <2>1
      <4> QED BY <4>1
    <3>2. a * q = -a - a * z /\ a * z \in Nat
      BY <3>1
    <3> QED BY <1>1, <3>2
  <2> QED BY <2>1
<1>3. q < b
  <2>1. ASSUME q >= b PROVE FALSE
    <3>1. PICK z \in Nat : q = b + z
      <4>1. q - b \in Nat /\ q = b + (q - b)
        BY <2>1
      <4> QED BY <4>1
    <3>2. a * q = a * b + a * z /\ a * z \in Nat /\ a * b \in Nat
      BY <3>1
    <3> QED BY <1>1, <3>2
  <2> QED BY <2>1
<1>4. a * q = q * a
  OBVIOUS
<1> QED BY <1>1, <1>2, <1>3, <1>4

(* Positions and lengths of four dimensions *)
Lengths4 == [1 .. 4 -> Nat \ {0}]

IsPosition(x, m) == x \in [1 .. 4 -> Nat] /\ \A k \in 1 .. 4 : x[k] < m[k]

Flat(x, m) == ((x[4] * m[3] + x[3]) * m[2] + x[2]) * m[1] + x[1]

Side(m, k) ==
    IF k = 1 THEN 1
    ELSE IF k = 2 THEN m[1]
    ELSE IF k = 3 THEN m[1] * m[2] ELSE (m[1] * m[2]) * m[3]

Total(m) == ((m[1] * m[2]) * m[3]) * m[4]

(* A position by its digit of one dimension, what is below and above it *)
Divided(x, m, k, lo, hi) ==
    /\ lo \in Nat /\ hi \in Nat /\ lo < Side(m, k)
    /\ \A y \in Nat : Flat([x EXCEPT ![k] = y], m) = lo + Side(m, k) * (y + m[k] * hi)

LEMMA Mixed1 ==
  ASSUME NEW m \in Lengths4, NEW x, IsPosition(x, m) PROVE \E lo, hi : Divided(x, m, 1, lo, hi)
<1>1. PICK m1 \in Nat \ {0}, m2 \in Nat \ {0}, m3 \in Nat \ {0} : m1 = m[1] /\ m2 = m[2] /\ m3 = m[3]
  BY DEF Lengths4
<1>2. PICK x2 \in Nat, x3 \in Nat, x4 \in Nat : x2 = x[2] /\ x3 = x[3] /\ x4 = x[4]
  BY DEF IsPosition
<1>3. PICK hi \in Nat : hi = (x4 * m3 + x3) * m2 + x2
  OBVIOUS
<1>4. \A y \in Nat : Flat([x EXCEPT ![1] = y], m) = hi * m1 + y
  BY <1>1, <1>2, <1>3 DEF Flat, IsPosition
<1>5. \A y \in Nat : hi * m1 + y = 0 + 1 * (y + m1 * hi)
  OBVIOUS
<1>6. Side(m, 1) = 1 /\ 0 < 1
  BY DEF Side
<1>7. Divided(x, m, 1, 0, hi)
  BY <1>1, <1>4, <1>5, <1>6 DEF Divided
<1> QED BY <1>7

LEMMA Mixed2 ==
  ASSUME NEW m \in Lengths4, NEW x, IsPosition(x, m) PROVE \E lo, hi : Divided(x, m, 2, lo, hi)
<1>1. PICK m1 \in Nat \ {0}, m2 \in Nat \ {0}, m3 \in Nat \ {0} : m1 = m[1] /\ m2 = m[2] /\ m3 = m[3]
  BY DEF Lengths4
<1>2. PICK x1 \in Nat, x3 \in Nat, x4 \in Nat : x1 = x[1] /\ x3 = x[3] /\ x4 = x[4] /\ x1 < m1
  BY <1>1 DEF IsPosition
<1>3. PICK hi \in Nat : hi = x4 * m3 + x3
  OBVIOUS
<1>4. \A y \in Nat : Flat([x EXCEPT ![2] = y], m) = (hi * m2 + y) * m1 + x1
  BY <1>1, <1>2, <1>3 DEF Flat, IsPosition
<1>5. \A y \in Nat : (hi * m2 + y) * m1 + x1 = x1 + m1 * (y + m2 * hi)
  <2> SUFFICES ASSUME NEW y \in Nat PROVE (hi * m2 + y) * m1 + x1 = x1 + m1 * (y + m2 * hi)
    OBVIOUS
  <2>1. hi * m2 + y = y + m2 * hi
    OBVIOUS
  <2>2. PICK z \in Nat : z = y + m2 * hi
    OBVIOUS
  <2>3. z * m1 = m1 * z
    OBVIOUS
  <2> QED BY <2>1, <2>2, <2>3
<1>6. Side(m, 2) = m1
  BY <1>1 DEF Side
<1>7. Divided(x, m, 2, x1, hi)
  BY <1>1, <1>2, <1>4, <1>5, <1>6 DEF Divided
<1> QED BY <1>7

LEMMA Mixed3 ==
  ASSUME NEW m \in Lengths4, NEW x, IsPosition(x, m) PROVE \E lo, hi : Divided(x, m, 3, lo, hi)
<1>1. PICK m1 \in Nat \ {0}, m2 \in Nat \ {0}, m3 \in Nat \ {0} : m1 = m[1] /\ m2 = m[2] /\ m3 = m[3]
  BY DEF Lengths4
<1>2. PICK x1 \in Nat, x2 \in Nat, x4 \in Nat :
         x1 = x[1] /\ x2 = x[2] /\ x4 = x[4] /\ x1 < m1 /\ x2 < m2
  BY <1>1 DEF IsPosition
<1>3. \A y \in Nat : Flat([x EXCEPT ![3] = y], m) = ((x4 * m3 + y) * m2 + x2) * m1 + x1
  BY <1>1, <1>2 DEF Flat, IsPosition
<1>4. \A y \in Nat : ((x4 * m3 + y) * m2 + x2) * m1 + x1 = (x1 + m1 * x2) + (m1 * m2) * (y + m3 * x4)
  <2> SUFFICES ASSUME NEW y \in Nat
               PROVE  ((x4 * m3 + y) * m2 + x2) * m1 + x1 = (x1 + m1 * x2) + (m1 * m2) * (y + m3 * x4)
    OBVIOUS
  <2>1. x4 * m3 + y = y + m3 * x4
    OBVIOUS
  <2>2. PICK z \in Nat : z = y + m3 * x4
    OBVIOUS
  <2>3. (z * m2 + x2) * m1 = (z * m2) * m1 + m1 * x2 /\ (z * m2) * m1 = (m1 * m2) * z
    OBVIOUS
  <2> QED BY <2>1, <2>2, <2>3
<1>5. Side(m, 3) = m1 * m2
  BY <1>1 DEF Side
<1>6. x1 + m1 * x2 \in 0 .. m1 * m2 - 1
  <2>1. x1 \in 0 .. m1 - 1 /\ x2 \in 0 .. m2 - 1
    BY <1>2
  <2> QED BY <2>1, TwoDigits
<1>7. PICK lo \in Nat : lo = x1 + m1 * x2 /\ lo < m1 * m2
  <2>1. m1 * m2 \in Nat
    OBVIOUS
  <2> QED BY <1>6, <2>1
<1>8. Divided(x, m, 3, lo, x4)
  BY <1>1, <1>2, <1>3, <1>4, <1>5, <1>7 DEF Divided
<1> QED BY <1>8

LEMMA Mixed4 ==
  ASSUME NEW m \in Lengths4, NEW x, IsPosition(x, m) PROVE \E lo, hi : Divided(x, m, 4, lo, hi)
<1>1. PICK m1 \in Nat \ {0}, m2 \in Nat \ {0}, m3 \in Nat \ {0}, m4 \in Nat \ {0} :
         m1 = m[1] /\ m2 = m[2] /\ m3 = m[3] /\ m4 = m[4]
  BY DEF Lengths4
<1>2. PICK x1 \in Nat, x2 \in Nat, x3 \in Nat :
         x1 = x[1] /\ x2 = x[2] /\ x3 = x[3] /\ x1 < m1 /\ x2 < m2 /\ x3 < m3
  BY <1>1 DEF IsPosition
<1>3. \A y \in Nat : Flat([x EXCEPT ![4] = y], m) = ((y * m3 + x3) * m2 + x2) * m1 + x1
  BY <1>1, <1>2 DEF Flat, IsPosition
<1>4. PICK c \in Nat \ {0} : c = m1 * m2
  OBVIOUS
<1>5. PICK low \in 0 .. c - 1 : low = x1 + m1 * x2
  BY <1>2, <1>4, TwoDigits
<1>6. low + c * x3 \in 0 .. c * m3 - 1
  BY <1>2, TwoDigits
<1>7. PICK lo \in Nat : lo = low + c * x3 /\ lo < c * m3
  <2>1. c * m3 \in Nat
    OBVIOUS
  <2> QED BY <1>6, <2>1
<1>8. \A y \in Nat : ((y * m3 + x3) * m2 + x2) * m1 + x1 = lo + (c * m3) * (y + m4 * 0)
  <2> SUFFICES ASSUME NEW y \in Nat
               PROVE  ((y * m3 + x3) * m2 + x2) * m1 + x1 = lo + (c * m3) * (y + m4 * 0)
    OBVIOUS
  <2>1. PICK z \in Nat : z = y * m3 + x3
    OBVIOUS
  <2>2. (z * m2 + x2) * m1 = (z * m2) * m1 + m1 * x2 /\ (z * m2) * m1 = (m1 * m2) * z
    OBVIOUS
  <2>3. (z * m2 + x2) * m1 + x1 = low + c * z
    BY <1>4, <1>5, <2>2
  <2>4. c * z = c * x3 + c * (y * m3) /\ c * (y * m3) = (c * m3) * y
    BY <2>1
  <2>5. y + m4 * 0 = y
    OBVIOUS
  <2> QED BY <1>7, <2>1, <2>3, <2>4, <2>5
<1>9. Side(m, 4) = c * m3
  BY <1>1, <1>4 DEF Side
<1>10. Divided(x, m, 4, lo, 0)
  BY <1>1, <1>3, <1>7, <1>8, <1>9 DEF Divided
<1> QED BY <1>10

(* Each dimension divides the flat position. *)
LEMMA Mixed ==
  ASSUME NEW m \in Lengths4, NEW x, IsPosition(x, m), NEW k \in 1 .. 4
  PROVE  \E lo, hi : Divided(x, m, k, lo, hi)
<1>1. k = 1 \/ k = 2 \/ k = 3 \/ k = 4
  OBVIOUS
<1> QED BY <1>1, Mixed1, Mixed2, Mixed3, Mixed4

(* n is q times the stride and something below it. *)
IsDivided(n, s, lo, q) == n = lo + s * q

LEMMA QuotientOf ==
  ASSUME NEW s \in Nat \ {0}, NEW lo \in Nat, lo < s, NEW q \in Int, NEW n \in Int,
         IsDivided(n, s, lo, q)
  PROVE  n \div s = q
<1>1. n = s * q + lo /\ 0 <= lo /\ lo \in Int
  BY DEF IsDivided
<1> QED BY <1>1, Division2

(* The flat position n has the digit x of a dimension. *)
HasDigit(n, s, l, lo, hi, x) == n = lo + s * (x + l * hi)

(* j is a stride above i, and in the same row. *)
InOneRow(i, j, s, l) == j = i + s /\ (i \div s) \div l = (j \div s) \div l

(* A step down along a dimension stays in its row. *)
LEMMA StepDown ==
  ASSUME NEW s \in Nat \ {0}, NEW l \in Nat \ {0}, NEW lo \in Nat, lo < s, NEW hi \in Nat,
         NEW x \in 1 .. l - 1, NEW i \in Int, NEW j \in Int,
         HasDigit(j, s, l, lo, hi, x), HasDigit(i, s, l, lo, hi, x - 1)
  PROVE  InOneRow(i, j, s, l)
<1>1. PICK a \in Nat : a = l * hi
  OBVIOUS
<1>2. j = lo + s * (x + a) /\ i = lo + s * ((x - 1) + a)
  BY <1>1 DEF HasDigit
<1>3. s * (x + a) = s * ((x - 1) + a) + s
  OBVIOUS
<1>4. j \div s = x + a /\ i \div s = (x - 1) + a
  <2>1. PICK u \in Int, v \in Int : u = x + a /\ v = (x - 1) + a
    OBVIOUS
  <2>2. IsDivided(j, s, lo, u) /\ IsDivided(i, s, lo, v)
    BY <1>2, <2>1 DEF IsDivided
  <2>3. j \div s = u
    BY <2>2, QuotientOf
  <2>4. i \div s = v
    BY <2>2, QuotientOf
  <2> QED BY <2>1, <2>3, <2>4
<1>5. (x + a) \div l = hi /\ ((x - 1) + a) \div l = hi
  <2>1. PICK z \in Nat, y \in Nat, h \in Int : z = x /\ z < l /\ y = x - 1 /\ y < l /\ h = hi
    OBVIOUS
  <2>2. PICK u \in Int, v \in Int : u = x + a /\ v = (x - 1) + a
    OBVIOUS
  <2>3. IsDivided(u, l, z, h) /\ IsDivided(v, l, y, h)
    BY <1>1, <2>1, <2>2 DEF IsDivided
  <2>4. u \div l = h
    BY <2>1, <2>3, QuotientOf
  <2>5. v \div l = h
    BY <2>1, <2>3, QuotientOf
  <2> QED BY <2>1, <2>2, <2>4, <2>5
<1> QED BY <1>2, <1>3, <1>4, <1>5 DEF InOneRow

(* Whatever is a stride below in the same row is a step down. *)
LEMMA StepUp ==
  ASSUME NEW s \in Nat \ {0}, NEW l \in Nat \ {0}, NEW lo \in Nat, lo < s, NEW hi \in Nat,
         NEW x \in 0 .. l - 1, NEW i \in Int, NEW j \in Int,
         HasDigit(j, s, l, lo, hi, x), InOneRow(i, j, s, l)
  PROVE  x \in 1 .. l - 1 /\ HasDigit(i, s, l, lo, hi, x - 1)
<1>0. j = lo + s * (x + l * hi) /\ j = i + s /\ (i \div s) \div l = (j \div s) \div l
  BY DEF HasDigit, InOneRow
<1>1. PICK a \in Nat : a = l * hi
  OBVIOUS
<1>2. s * (x + a) = s * ((x - 1) + a) + s
  OBVIOUS
<1>3. i = lo + s * ((x - 1) + a)
  <2>1. PICK u \in Int, v \in Int : u = s * (x + a) /\ v = s * ((x - 1) + a)
    OBVIOUS
  <2> QED BY <1>0, <1>1, <1>2, <2>1
<1>4. j \div s = x + a /\ i \div s = (x - 1) + a
  <2>1. PICK u \in Int, v \in Int : u = x + a /\ v = (x - 1) + a
    OBVIOUS
  <2>2. IsDivided(j, s, lo, u) /\ IsDivided(i, s, lo, v)
    BY <1>0, <1>1, <1>3, <2>1 DEF IsDivided
  <2>3. j \div s = u
    BY <2>2, QuotientOf
  <2>4. i \div s = v
    BY <2>2, QuotientOf
  <2> QED BY <2>1, <2>3, <2>4
<1>5. (x + a) \div l = hi
  <2>1. PICK u \in Int, z \in Nat, h \in Int : u = x + a /\ z = x /\ z < l /\ h = hi
    OBVIOUS
  <2>2. IsDivided(u, l, z, h)
    BY <1>1, <2>1 DEF IsDivided
  <2>3. u \div l = h
    BY <2>1, <2>2, QuotientOf
  <2> QED BY <2>1, <2>3
<1>6. x # 0
  <2> SUFFICES ASSUME x = 0 PROVE FALSE
    OBVIOUS
  <2>1. l * (hi - 1) = l * hi - l
    OBVIOUS
  <2>2. (x - 1) + a = (l - 1) + l * (hi - 1)
    BY <1>1, <2>1
  <2>3. PICK r \in Nat, h \in Int, n \in Int : r = l - 1 /\ h = hi - 1 /\ n = (x - 1) + a
    OBVIOUS
  <2>4. n \div l = h
    <3>1. IsDivided(n, l, r, h) /\ r < l
      BY <2>2, <2>3 DEF IsDivided
    <3> QED BY <3>1, QuotientOf
  <2> QED BY <1>0, <1>4, <1>5, <2>3, <2>4
<1> QED BY <1>1, <1>3, <1>6 DEF HasDigit

(* Flat positions are those of the buffer. *)
LEMMA FlatBelow ==
  ASSUME NEW m \in Lengths4, NEW x, IsPosition(x, m) PROVE Flat(x, m) \in 0 .. Total(m) - 1
<1>1. PICK m1 \in Nat \ {0}, m2 \in Nat \ {0}, m3 \in Nat \ {0}, m4 \in Nat \ {0} :
         m1 = m[1] /\ m2 = m[2] /\ m3 = m[3] /\ m4 = m[4]
  BY DEF Lengths4
<1>2. PICK x1 \in 0 .. m1 - 1, x2 \in 0 .. m2 - 1, x3 \in 0 .. m3 - 1, x4 \in 0 .. m4 - 1 :
         x1 = x[1] /\ x2 = x[2] /\ x3 = x[3] /\ x4 = x[4]
  BY <1>1 DEF IsPosition
<1>3. PICK a \in 0 .. m3 * m4 - 1 : a = x3 + m3 * x4
  BY TwoDigits
<1>4. m3 * m4 \in Nat \ {0} /\ m2 * (m3 * m4) \in Nat \ {0}
  OBVIOUS
<1>5. PICK b \in 0 .. m2 * (m3 * m4) - 1 : b = x2 + m2 * a
  BY <1>4, TwoDigits
<1>6. x1 + m1 * b \in 0 .. m1 * (m2 * (m3 * m4)) - 1
  BY <1>4, TwoDigits
<1>7. Flat(x, m) = x1 + m1 * b
  <2>1. x4 * m3 + x3 = a /\ a * m2 + x2 = b /\ b * m1 + x1 = x1 + m1 * b
    BY <1>3, <1>5
  <2> QED BY <1>1, <1>2, <2>1 DEF Flat
<1>8. m1 * (m2 * (m3 * m4)) = ((m1 * m2) * m3) * m4
  OBVIOUS
<1> QED BY <1>1, <1>6, <1>7, <1>8 DEF Total

(* Each place of the buffer has its position. *)
LEMMA FlatReached ==
  ASSUME NEW m \in Lengths4, NEW n \in 0 .. Total(m) - 1
  PROVE  \E x : IsPosition(x, m) /\ Flat(x, m) = n
<1>1. PICK m1 \in Nat \ {0}, m2 \in Nat \ {0}, m3 \in Nat \ {0}, m4 \in Nat \ {0} :
         m1 = m[1] /\ m2 = m[2] /\ m3 = m[3] /\ m4 = m[4]
  BY DEF Lengths4
<1>2. m3 * m4 \in Nat \ {0} /\ m2 * (m3 * m4) \in Nat \ {0}
  OBVIOUS
<1>3. m1 * (m2 * (m3 * m4)) = ((m1 * m2) * m3) * m4
  OBVIOUS
<1>4. n \in 0 .. m1 * (m2 * (m3 * m4)) - 1
  BY <1>1, <1>3 DEF Total
<1>5. PICK x1 \in 0 .. m1 - 1, b \in 0 .. m2 * (m3 * m4) - 1 : n = b * m1 + x1
  BY <1>2, <1>4, DigitsOf
<1>6. PICK x2 \in 0 .. m2 - 1, a \in 0 .. m3 * m4 - 1 : b = a * m2 + x2
  BY <1>2, DigitsOf
<1>7. PICK x3 \in 0 .. m3 - 1, x4 \in 0 .. m4 - 1 : a = x4 * m3 + x3
  BY DigitsOf
<1> DEFINE x == [k \in 1 .. 4 |->
                   IF k = 1 THEN x1 ELSE IF k = 2 THEN x2 ELSE IF k = 3 THEN x3 ELSE x4]
<1>8. x[1] = x1 /\ x[2] = x2 /\ x[3] = x3 /\ x[4] = x4
  OBVIOUS
<1>9. IsPosition(x, m)
  <2>1. x \in [1 .. 4 -> Nat]
    OBVIOUS
  <2>2. \A k \in 1 .. 4 : k = 1 \/ k = 2 \/ k = 3 \/ k = 4
    OBVIOUS
  <2>3. x1 < m1 /\ x2 < m2 /\ x3 < m3 /\ x4 < m4
    OBVIOUS
  <2> HIDE DEF x
  <2>4. \A k \in 1 .. 4 : x[k] < m[k]
    BY <1>1, <1>8, <2>2, <2>3
  <2> QED BY <2>1, <2>4 DEF IsPosition
<1>10. Flat(x, m) = n
  <2> HIDE DEF x
  <2> QED BY <1>1, <1>5, <1>6, <1>7, <1>8 DEF Flat
<1> QED BY <1>9, <1>10

(* A position, or the lengths, of an array as of one of four dimensions *)
Padded(p, l, e) == [k \in 1 .. 4 |-> IF k <= Len(l) THEN p[k] ELSE e]

(* The number of dimensions *)
LEMMA OneToFour ==
  ASSUME NEW n \in 1 .. 4 PROVE n \in Nat \ {0}
OBVIOUS

(* The positions that the loops go through *)
LEMMA BufferPositions ==
  ASSUME NEW l \in Seq(Nat \ {0}), Len(l) \in 1 .. 4, NEW p
  PROVE  p \in Statistics!Positions(l) <=>
             p \in [1 .. Len(l) -> Nat] /\ \A k \in 1 .. Len(l) : p[k] < l[k]
<1> DEFINE n == Len(l)
           g == [i \in 0 .. n - 1 |-> l[i + 1]]
           V == Statistics!ValuesOf(l)
<1>1. n \in Nat \ {0} /\ DOMAIN l = 1 .. n /\ \A k \in 1 .. n : l[k] \in Nat \ {0}
  <2>2. Len(l) \in Nat \ {0}
    BY OneToFour
  <2>3. l \in [1 .. Len(l) -> Nat \ {0}]
    OBVIOUS
  <2> QED BY <2>2, <2>3
<1>2. V = {l[k] : k \in 1 .. n}
  BY <1>1 DEF Statistics!ValuesOf
<1>3. \E b \in Nat : \A v \in V : v <= b
  <2>1. g \in [0 .. n - 1 -> Int]
    BY <1>1
  <2>2. \E m \in 0 .. n - 1 : \A i \in 0 .. n - 1 : g[i] <= g[m]
    <3> HIDE DEF g
    <3> QED BY <1>1, <2>1, Extremes
  <2>3. PICK m \in 0 .. n - 1 : \A i \in 0 .. n - 1 : g[i] <= g[m]
    BY <2>2
  <2>4. \A k \in 1 .. n : k - 1 \in 0 .. n - 1 /\ g[k - 1] = l[k]
    BY <1>1
  <2>5. g[m] \in Nat
    BY <1>1
  <2> HIDE DEF g, n
  <2> QED BY <1>2, <2>3, <2>4, <2>5
<1>4. V \in SUBSET Nat /\ V # {}
  BY <1>1, <1>2
<1>5. Statistics!Max(V) \in Nat /\ \A v \in V : v <= Statistics!Max(V)
  <2> HIDE DEF V
  <2>1. PICK b \in Nat : \A v \in V : v <= b
    BY <1>3
  <2>2. Statistics!Max(V) \in V /\ \A v \in V : v <= Statistics!Max(V)
    BY <1>4, <2>1, Greatest
  <2> QED BY <1>4, <2>2
<1>6. PICK b \in Nat : b = Statistics!Max(V) /\ \A k \in 1 .. n : l[k] <= b
  BY <1>2, <1>5
<1>7. p \in Statistics!Positions(l) <=> p \in [1 .. n -> 0 .. b - 1] /\ \A k \in 1 .. n : p[k] < l[k]
  BY <1>1, <1>6 DEF Statistics!Positions
<1>8. ASSUME p \in [1 .. n -> Nat], \A k \in 1 .. n : p[k] < l[k] PROVE p \in [1 .. n -> 0 .. b - 1]
  <2>1. \A k \in 1 .. n : p[k] \in 0 .. b - 1
    <3> SUFFICES ASSUME NEW k \in 1 .. n PROVE p[k] \in 0 .. b - 1
      OBVIOUS
    <3>1. p[k] \in Nat /\ p[k] < l[k] /\ l[k] <= b /\ l[k] \in Nat
      BY <1>1, <1>6, <1>8
    <3> QED BY <3>1
  <2> QED BY <1>8, <2>1
<1>9. ASSUME p \in [1 .. n -> 0 .. b - 1] PROVE p \in [1 .. n -> Nat]
  BY <1>9
<1> QED BY <1>7, <1>8, <1>9

(* Positions in four dimensions *)
LEMMA PaddedIs ==
  ASSUME NEW l \in Seq(Nat \ {0}), Len(l) \in 1 .. 4
  PROVE  /\ Padded(l, l, 1) \in Lengths4
         /\ \A k \in 1 .. Len(l) : Padded(l, l, 1)[k] = l[k]
         /\ \A p \in Statistics!Positions(l) :
               /\ IsPosition(Padded(p, l, 0), Padded(l, l, 1))
               /\ \A k \in 1 .. Len(l) : Padded(p, l, 0)[k] = p[k]
         /\ \A x : IsPosition(x, Padded(l, l, 1)) =>
               \E p \in Statistics!Positions(l) : Padded(p, l, 0) = x
<1> DEFINE n == Len(l)
           m == Padded(l, l, 1)
<1>1. /\ n \in 1 .. 4 /\ \A k \in 1 .. n : l[k] \in Nat \ {0} /\ k \in 1 .. 4 /\ k <= n
      /\ \A k \in 1 .. 4 : k <= n => k \in 1 .. n
  <2>1. l \in [1 .. Len(l) -> Nat \ {0}]
    OBVIOUS
  <2>2. PICK c \in 1 .. 4 : c = Len(l)
    OBVIOUS
  <2> QED BY <2>1, <2>2
<1>2. /\ DOMAIN m = 1 .. 4 /\ \A k \in 1 .. 4 : m[k] = IF k <= n THEN l[k] ELSE 1
      /\ m = [k \in 1 .. 4 |-> m[k]]
  BY DEF Padded
<1> HIDE DEF m, n
<1>3. m \in Lengths4 /\ \A k \in 1 .. n : m[k] = l[k]
  <2>1. \A k \in 1 .. 4 : m[k] \in Nat \ {0}
    BY <1>1, <1>2
  <2> QED BY <1>1, <1>2, <2>1 DEF Lengths4
<1>4. ASSUME NEW p \in Statistics!Positions(l)
      PROVE  IsPosition(Padded(p, l, 0), m) /\ \A k \in 1 .. n : Padded(p, l, 0)[k] = p[k]
  <2>1. p \in [1 .. n -> Nat] /\ \A k \in 1 .. n : p[k] < l[k]
    BY BufferPositions DEF n
  <2>2. \A k \in 1 .. 4 : Padded(p, l, 0)[k] = IF k <= n THEN p[k] ELSE 0
    BY DEF Padded, n
  <2>3. DOMAIN Padded(p, l, 0) = 1 .. 4 /\ Padded(p, l, 0) = [k \in 1 .. 4 |-> Padded(p, l, 0)[k]]
    BY DEF Padded
  <2>4. ASSUME NEW k \in 1 .. 4 PROVE Padded(p, l, 0)[k] \in Nat /\ Padded(p, l, 0)[k] < m[k]
    <3>1. CASE k <= n
      <4>1. k \in 1 .. n /\ Padded(p, l, 0)[k] = p[k] /\ m[k] = l[k]
        BY <1>1, <1>2, <2>2, <3>1
      <4> QED BY <2>1, <4>1
    <3>2. CASE ~(k <= n)
      <4>1. Padded(p, l, 0)[k] = 0 /\ m[k] = 1
        BY <1>2, <2>2, <3>2
      <4> QED BY <4>1
    <3> QED BY <3>1, <3>2
  <2>5. Padded(p, l, 0) \in [1 .. 4 -> Nat]
    BY <2>3, <2>4
  <2> QED BY <1>1, <2>2, <2>4, <2>5 DEF IsPosition
<1>5. ASSUME NEW x, IsPosition(x, m)
      PROVE  \E p \in Statistics!Positions(l) : Padded(p, l, 0) = x
  <2> DEFINE p == [k \in 1 .. n |-> x[k]]
  <2>1. x \in [1 .. 4 -> Nat] /\ \A k \in 1 .. 4 : x[k] < m[k]
    BY <1>5 DEF IsPosition
  <2>2. \A k \in 1 .. n : p[k] = x[k] /\ x[k] \in Nat /\ x[k] < l[k]
    BY <1>1, <1>3, <2>1
  <2>3. p \in Statistics!Positions(l)
    <3>1. p \in [1 .. n -> Nat] /\ \A k \in 1 .. n : p[k] < l[k]
      BY <2>2
    <3> HIDE DEF p
    <3> QED BY <3>1, BufferPositions DEF n
  <2>4. \A k \in 1 .. 4 : ~(k <= n) => x[k] = 0
    BY <1>2, <2>1
  <2>5. \A k \in 1 .. 4 : (IF k <= n THEN p[k] ELSE 0) = x[k]
    BY <1>1, <2>2, <2>4
  <2>6. Padded(p, l, 0) = [k \in 1 .. 4 |-> x[k]]
    <3> HIDE DEF p
    <3> QED BY <2>5 DEF Padded, n
  <2>7. Padded(p, l, 0) = x
    BY <2>1, <2>6
  <2> QED BY <2>3, <2>7
<1> QED BY <1>3, <1>4, <1>5 DEF m, n

(* Strides and the number of elements are the products of the lengths. *)
LEMMA StridesAre ==
  ASSUME NEW l \in Seq(Nat \ {0}), Len(l) \in 1 .. 4
  PROVE  /\ \A k \in 1 .. Len(l) : /\ Statistics!Stride(l, k) = Side(Padded(l, l, 1), k)
                                   /\ Statistics!Stride(l, k) \in Nat \ {0}
         /\ Statistics!ElementsOf(l) = Total(Padded(l, l, 1))
         /\ Statistics!ElementsOf(l) \in Nat \ {0}
<1>1. PICK n \in 1 .. 4 : n = Len(l)
  OBVIOUS
<1>2. PICK m : m = Padded(l, l, 1)
  OBVIOUS
<1>3. PICK v : v = Statistics!Volume(l)
  OBVIOUS
<1>4. /\ v \in [0 .. n -> Nat \ {0}] /\ v[0] = 1 /\ \A k \in 1 .. n : v[k] = v[k - 1] * l[k]
  BY <1>1, <1>3, VolumeIs
<1>5. m \in Lengths4 /\ \A k \in 1 .. 4 : m[k] = IF k <= n THEN l[k] ELSE 1
  BY <1>1, <1>2, PaddedIs DEF Padded
<1>6. PICK m1 \in Nat \ {0}, m2 \in Nat \ {0}, m3 \in Nat \ {0}, m4 \in Nat \ {0} :
         m1 = m[1] /\ m2 = m[2] /\ m3 = m[3] /\ m4 = m[4]
  BY <1>5 DEF Lengths4
<1>7. /\ n >= 1 => v[1] = m1
      /\ n >= 2 => v[2] = m1 * m2
      /\ n >= 3 => v[3] = (m1 * m2) * m3
      /\ n >= 4 => v[4] = ((m1 * m2) * m3) * m4
  <2>0. n >= 1 => v[1] = v[1 - 1] * l[1] /\ 1 - 1 = 0
    BY <1>4
  <2>1. n >= 1 => v[1] = 1 * l[1] /\ l[1] = m1
    <3>1. n >= 1 => l[1] = m1
      BY <1>5, <1>6
    <3> QED BY <1>4, <2>0, <3>1
  <2>2. n >= 2 => v[2] = v[1] * l[2] /\ l[2] = m2
    BY <1>4, <1>5, <1>6
  <2>3. n >= 3 => v[3] = v[2] * l[3] /\ l[3] = m3
    BY <1>4, <1>5, <1>6
  <2>4. n >= 4 => v[4] = v[3] * l[4] /\ l[4] = m4
    BY <1>4, <1>5, <1>6
  <2>5. 1 * m1 = m1
    OBVIOUS
  <2>6. (n >= 2 => n >= 1) /\ (n >= 3 => n >= 2) /\ (n >= 4 => n >= 3)
    OBVIOUS
  <2> QED BY <2>1, <2>2, <2>3, <2>4, <2>5, <2>6
<1>8. ASSUME NEW k \in 1 .. n
      PROVE  Statistics!Stride(l, k) = Side(m, k) /\ Statistics!Stride(l, k) \in Nat \ {0}
  <2>1. Statistics!Stride(l, k) = v[k - 1] /\ k - 1 \in 0 .. n
    BY <1>3 DEF Statistics!Stride
  <2>2. k = 1 \/ k = 2 \/ k = 3 \/ k = 4
    OBVIOUS
  <2>3. v[k - 1] = Side(m, k)
    <3>1. CASE k = 1
      BY <1>4, <3>1 DEF Side
    <3>2. CASE k = 2
      BY <1>6, <1>7, <3>2 DEF Side
    <3>3. CASE k = 3
      BY <1>6, <1>7, <3>3 DEF Side
    <3>4. CASE k = 4
      BY <1>6, <1>7, <3>4 DEF Side
    <3> QED BY <2>2, <3>1, <3>2, <3>3, <3>4
  <2> QED BY <1>4, <2>1, <2>3
<1>9. Statistics!ElementsOf(l) = v[n]
  BY <1>1, <1>3 DEF Statistics!ElementsOf
<1>10. v[n] = ((m1 * m2) * m3) * m4
  <2>1. n = 1 \/ n = 2 \/ n = 3 \/ n = 4
    OBVIOUS
  <2>2. (n < 2 => m2 = 1) /\ (n < 3 => m3 = 1) /\ (n < 4 => m4 = 1)
    BY <1>5, <1>6
  <2>3. PICK a \in Nat, b \in Nat : a = m1 * m2 /\ b = a * m3
    OBVIOUS
  <2>4. (m2 = 1 => a = m1) /\ (m3 = 1 => b = a) /\ (m4 = 1 => b * m4 = b)
    BY <2>3
  <2>5. CASE n = 1
    BY <1>7, <2>2, <2>3, <2>4, <2>5
  <2>6. CASE n = 2
    BY <1>7, <2>2, <2>3, <2>4, <2>6
  <2>7. CASE n = 3
    BY <1>7, <2>2, <2>3, <2>4, <2>7
  <2>8. CASE n = 4
    BY <1>7, <2>8
  <2> QED BY <2>1, <2>5, <2>6, <2>7, <2>8
<1>11. v[n] \in Nat \ {0}
  BY <1>4
<1> QED BY <1>1, <1>2, <1>6, <1>8, <1>9, <1>10, <1>11 DEF Total

(* The flat position of an element, whatever the number of dimensions *)
FlatOf(l) == [p \in Statistics!Positions(l) |-> Flat(Padded(p, l, 0), Padded(l, l, 1))]

LEMMA FlatOfIs ==
  ASSUME NEW l \in Seq(Nat \ {0}), Len(l) \in 1 .. 4
  PROVE  /\ Len(l) = 1 => FlatOf(l) = [p \in Statistics!Positions(l) |-> Statistics!Index1d(p, l)]
         /\ Len(l) = 2 => FlatOf(l) = [p \in Statistics!Positions(l) |-> Statistics!Index2d(p, l)]
         /\ Len(l) = 3 => FlatOf(l) = [p \in Statistics!Positions(l) |-> Statistics!Index3d(p, l)]
         /\ Len(l) = 4 => FlatOf(l) = [p \in Statistics!Positions(l) |-> Statistics!Index4d(p, l)]
<1>1. Len(l) \in 1 .. 4
  OBVIOUS
<1>2. PICK m : m = Padded(l, l, 1)
  OBVIOUS
<1>3. m \in Lengths4 /\ \A k \in 1 .. 4 : m[k] = IF k <= Len(l) THEN l[k] ELSE 1
  BY <1>1, <1>2, PaddedIs DEF Padded
<1>4. PICK m1 \in Nat \ {0}, m2 \in Nat \ {0}, m3 \in Nat \ {0} : m1 = m[1] /\ m2 = m[2] /\ m3 = m[3]
  BY <1>3 DEF Lengths4
<1>5. ASSUME NEW p \in Statistics!Positions(l)
      PROVE  Flat(Padded(p, l, 0), m) =
               IF Len(l) = 1 THEN Statistics!Index1d(p, l)
               ELSE IF Len(l) = 2 THEN Statistics!Index2d(p, l)
               ELSE IF Len(l) = 3 THEN Statistics!Index3d(p, l)
               ELSE Statistics!Index4d(p, l)
  <2>1. PICK x : x = Padded(p, l, 0)
    OBVIOUS
  <2>2. IsPosition(x, m) /\ \A k \in 1 .. 4 : x[k] = IF k <= Len(l) THEN p[k] ELSE 0
    <3>1. IsPosition(x, m)
      BY <1>1, <1>2, <2>1, PaddedIs
    <3>2. \A k \in 1 .. 4 : x[k] = IF k <= Len(l) THEN p[k] ELSE 0
      BY <2>1 DEF Padded
    <3> QED BY <3>1, <3>2
  <2>3. PICK x1 \in Nat, x2 \in Nat, x3 \in Nat, x4 \in Nat :
           x1 = x[1] /\ x2 = x[2] /\ x3 = x[3] /\ x4 = x[4]
    BY <2>2 DEF IsPosition
  <2>4. Flat(x, m) = ((x4 * m3 + x3) * m2 + x2) * m1 + x1
    BY <1>4, <2>3 DEF Flat
  <2>5. \A y, z \in Nat : 0 * y = 0 /\ 0 + z = z /\ 0 * y + z = z
    OBVIOUS
  <2>6. Len(l) = 1 \/ Len(l) = 2 \/ Len(l) = 3 \/ Len(l) = 4
    BY <1>1
  <2>7. CASE Len(l) = 1
    <3>1. x4 = 0 /\ x3 = 0 /\ x2 = 0 /\ x1 = p[1]
      BY <2>2, <2>3, <2>7
    <3>2. ((0 * m3 + 0) * m2 + 0) * m1 + x1 = x1
      BY <2>5
    <3> QED BY <2>1, <2>4, <2>7, <3>1, <3>2 DEF Statistics!Index1d
  <2>8. CASE Len(l) = 2
    <3>1. x4 = 0 /\ x3 = 0 /\ x2 = p[2] /\ x1 = p[1] /\ m1 = l[1]
      BY <1>3, <1>4, <2>2, <2>3, <2>8
    <3>2. (0 * m3 + 0) * m2 + x2 = x2
      BY <2>5
    <3> QED BY <2>1, <2>4, <2>8, <3>1, <3>2 DEF Statistics!Index2d
  <2>9. CASE Len(l) = 3
    <3>1. x4 = 0 /\ x3 = p[3] /\ x2 = p[2] /\ x1 = p[1] /\ m1 = l[1] /\ m2 = l[2]
      BY <1>3, <1>4, <2>2, <2>3, <2>9
    <3>2. 0 * m3 + x3 = x3
      BY <2>5
    <3> QED BY <2>1, <2>4, <2>9, <3>1, <3>2 DEF Statistics!Index3d
  <2>10. CASE Len(l) = 4
    <3>1. x4 = p[4] /\ x3 = p[3] /\ x2 = p[2] /\ x1 = p[1] /\ m1 = l[1] /\ m2 = l[2] /\ m3 = l[3]
      BY <1>3, <1>4, <2>2, <2>3, <2>10
    <3> QED BY <2>1, <2>4, <2>10, <3>1 DEF Statistics!Index4d
  <2> QED BY <2>6, <2>7, <2>8, <2>9, <2>10
<1> DEFINE P == Statistics!Positions(l)
<1>6. /\ Len(l) = 1 => FlatOf(l) = [p \in P |-> Statistics!Index1d(p, l)]
      /\ Len(l) = 2 => FlatOf(l) = [p \in P |-> Statistics!Index2d(p, l)]
      /\ Len(l) = 3 => FlatOf(l) = [p \in P |-> Statistics!Index3d(p, l)]
      /\ Len(l) = 4 => FlatOf(l) = [p \in P |-> Statistics!Index4d(p, l)]
  <2>1. FlatOf(l) = [p \in P |-> Flat(Padded(p, l, 0), m)]
    BY <1>2 DEF FlatOf
  <2> HIDE DEF P
  <2>2. CASE Len(l) = 1
    <3>1. \A p \in P : Flat(Padded(p, l, 0), m) = Statistics!Index1d(p, l)
      BY <1>5, <2>2 DEF P
    <3> QED BY <2>1, <2>2, <3>1
  <2>3. CASE Len(l) = 2
    <3>1. \A p \in P : Flat(Padded(p, l, 0), m) = Statistics!Index2d(p, l)
      BY <1>5, <2>3 DEF P
    <3> QED BY <2>1, <2>3, <3>1
  <2>4. CASE Len(l) = 3
    <3>1. \A p \in P : Flat(Padded(p, l, 0), m) = Statistics!Index3d(p, l)
      BY <1>5, <2>4 DEF P
    <3> QED BY <2>1, <2>4, <3>1
  <2>5. CASE Len(l) = 4
    <3>1. \A p \in P : Flat(Padded(p, l, 0), m) = Statistics!Index4d(p, l)
      BY <1>5, <2>5 DEF P
    <3> QED BY <2>1, <2>5, <3>1
  <2> QED BY <1>1, <2>2, <2>3, <2>4, <2>5
<1> QED BY <1>6

(* The loops of each number of dimensions compare the same pairs. *)
LEMMA MaxStepIs ==
  ASSUME NEW a \in Arrays
  PROVE  Statistics!MaxStep(a) = Statistics!Max({0} \cup Statistics!Steps(a, FlatOf(a.length)))
<1>1. a.length \in Seq(Nat \ {0}) /\ Len(a.length) \in 1 .. 4
  BY StatisticsConstants
<1> DEFINE P  == Statistics!Positions(a.length)
           l1 == [p \in P |-> Statistics!Index1d(p, a.length)]
           l2 == [p \in P |-> Statistics!Index2d(p, a.length)]
           l3 == [p \in P |-> Statistics!Index3d(p, a.length)]
           l4 == [p \in P |-> Statistics!Index4d(p, a.length)]
           Step(at) == Statistics!Max({0} \cup Statistics!Steps(a, at))
<1>2. /\ Len(a.length) = 1 => FlatOf(a.length) = l1
      /\ Len(a.length) = 2 => FlatOf(a.length) = l2
      /\ Len(a.length) = 3 => FlatOf(a.length) = l3
      /\ Len(a.length) = 4 => FlatOf(a.length) = l4
  BY <1>1, FlatOfIs
<1>3. /\ Statistics!MaxStep1d(a) = Step(l1) /\ Statistics!MaxStep2d(a) = Step(l2)
      /\ Statistics!MaxStep3d(a) = Step(l3) /\ Statistics!MaxStep4d(a) = Step(l4)
  BY DEF Statistics!MaxStep1d, Statistics!MaxStep2d, Statistics!MaxStep3d, Statistics!MaxStep4d
<1>4. Len(a.length) = 1 \/ Len(a.length) = 2 \/ Len(a.length) = 3 \/ Len(a.length) = 4
  BY <1>1
<1>5. /\ Len(a.length) = 1 => Statistics!MaxStep(a) = Statistics!MaxStep1d(a)
      /\ Len(a.length) = 2 => Statistics!MaxStep(a) = Statistics!MaxStep2d(a)
      /\ Len(a.length) = 3 => Statistics!MaxStep(a) = Statistics!MaxStep3d(a)
      /\ Len(a.length) = 4 => Statistics!MaxStep(a) = Statistics!MaxStep4d(a)
  BY DEF Statistics!MaxStep
<1> HIDE DEF l1, l2, l3, l4
<1> QED BY <1>2, <1>3, <1>4, <1>5

(* A step of the loops *)
IsStep(l, k, p, i, j) ==
    /\ k \in DOMAIN l /\ p \in Statistics!Positions(l) /\ p[k] >= 1
    /\ j = FlatOf(l)[p] /\ i = FlatOf(l)[[p EXCEPT ![k] = @ - 1]]

(* Where its two elements are *)
PlacedAt(l, k, p, s, lo, hi) ==
    /\ s = Statistics!Stride(l, k) /\ lo < s
    /\ p[k] \in 0 .. l[k] - 1 /\ l[k] \in Nat \ {0}
    /\ HasDigit(FlatOf(l)[p], s, l[k], lo, hi, p[k])
    /\ FlatOf(l)[p] \in 0 .. Statistics!ElementsOf(l) - 1
    /\ p[k] >= 1 =>
         /\ HasDigit(FlatOf(l)[[p EXCEPT ![k] = @ - 1]], s, l[k], lo, hi, p[k] - 1)
         /\ FlatOf(l)[[p EXCEPT ![k] = @ - 1]] \in 0 .. Statistics!ElementsOf(l) - 1

(* Where a position and the one below it in a dimension are *)
LEMMA StepPlaces ==
  ASSUME NEW l \in Seq(Nat \ {0}), Len(l) \in 1 .. 4,
         NEW k \in DOMAIN l, NEW p \in Statistics!Positions(l)
  PROVE  \E s \in Nat \ {0}, lo \in Nat, hi \in Nat : PlacedAt(l, k, p, s, lo, hi)
<1> DEFINE q == [p EXCEPT ![k] = @ - 1]
<1>1. k \in 1 .. Len(l) /\ k \in 1 .. 4 /\ k <= Len(l) /\ Len(l) \in 1 .. 4
  BY DEF Lengths4
<1>2. PICK m \in Lengths4 : m = Padded(l, l, 1) /\ m[k] = l[k]
  BY <1>1, PaddedIs
<1>3. PICK x : x = Padded(p, l, 0) /\ IsPosition(x, m) /\ x[k] = p[k]
  BY <1>1, <1>2, PaddedIs
<1>4. PICK lo, hi : Divided(x, m, k, lo, hi)
  BY <1>1, <1>3, Mixed
<1>5. PICK s \in Nat \ {0} : s = Statistics!Stride(l, k) /\ s = Side(m, k)
  BY <1>1, <1>2, StridesAre
<1>6. Total(m) = Statistics!ElementsOf(l)
  BY <1>2, StridesAre
<1>7. lo \in Nat /\ hi \in Nat /\ lo < s
      /\ \A y \in Nat : Flat([x EXCEPT ![k] = y], m) = lo + s * (y + m[k] * hi)
  BY <1>4, <1>5 DEF Divided
<1>8. x[k] \in Nat /\ x[k] < m[k] /\ x \in [1 .. 4 -> Nat] /\ m[k] \in Nat \ {0}
  BY <1>1, <1>3 DEF IsPosition, Lengths4
<1>9. /\ FlatOf(l)[p] = lo + s * (p[k] + l[k] * hi)
      /\ FlatOf(l)[p] \in 0 .. Statistics!ElementsOf(l) - 1
  <2>1. [x EXCEPT ![k] = x[k]] = x
    BY <1>8
  <2>2. FlatOf(l)[p] = Flat(x, m)
    BY <1>2, <1>3 DEF FlatOf
  <2>3. Flat(x, m) = lo + s * (x[k] + m[k] * hi)
    BY <1>7, <1>8, <2>1
  <2>4. Flat(x, m) \in 0 .. Total(m) - 1
    BY <1>3, FlatBelow
  <2> QED BY <1>2, <1>3, <1>6, <2>2, <2>3, <2>4
<1>10. ASSUME p[k] >= 1
       PROVE  /\ q \in Statistics!Positions(l)
              /\ FlatOf(l)[q] = lo + s * ((p[k] - 1) + l[k] * hi)
              /\ FlatOf(l)[q] \in 0 .. Statistics!ElementsOf(l) - 1
  <2>1. p \in [1 .. Len(l) -> Nat] /\ \A d \in 1 .. Len(l) : p[d] < l[d]
    BY BufferPositions
  <2>2. p[k] \in Nat /\ p[k] - 1 \in Nat /\ p[k] - 1 < l[k]
    <3>1. PICK c \in Nat, y \in Nat : c = l[k] /\ y = p[k] /\ y < c
      BY <1>2, <1>3, <1>8
    <3>2. y - 1 \in Nat /\ y - 1 < c
      BY <1>10, <3>1
    <3> QED BY <3>1, <3>2
  <2>3. /\ q \in [1 .. Len(l) -> Nat] /\ q[k] = p[k] - 1
        /\ \A d \in 1 .. Len(l) : q[d] = IF d = k THEN p[k] - 1 ELSE p[d]
    BY <1>1, <2>1, <2>2
  <2> HIDE DEF q
  <2>4. q \in Statistics!Positions(l)
    <3>1. \A d \in 1 .. Len(l) : q[d] < l[d]
      BY <2>1, <2>2, <2>3
    <3> QED BY <2>3, <3>1, BufferPositions
  <2>5. Padded(q, l, 0) = [x EXCEPT ![k] = p[k] - 1]
    <3>1. \A d \in 1 .. 4 : d <= Len(l) => d \in 1 .. Len(l)
      BY <1>1
    <3>2. \A d \in 1 .. 4 : (IF d <= Len(l) THEN q[d] ELSE 0)
                              = IF d = k THEN p[k] - 1 ELSE IF d <= Len(l) THEN p[d] ELSE 0
      BY <1>1, <2>3, <3>1
    <3>3. x = [d \in 1 .. 4 |-> IF d <= Len(l) THEN p[d] ELSE 0]
      BY <1>3 DEF Padded
    <3>4. [x EXCEPT ![k] = p[k] - 1]
            = [d \in 1 .. 4 |-> IF d = k THEN p[k] - 1 ELSE IF d <= Len(l) THEN p[d] ELSE 0]
      BY <3>3
    <3>5. Padded(q, l, 0) = [d \in 1 .. 4 |-> IF d <= Len(l) THEN q[d] ELSE 0]
      BY DEF Padded
    <3> QED BY <3>2, <3>4, <3>5
  <2>6. FlatOf(l)[q] = Flat(Padded(q, l, 0), m)
    BY <1>2, <2>4 DEF FlatOf
  <2>7. Flat([x EXCEPT ![k] = p[k] - 1], m) = lo + s * ((p[k] - 1) + m[k] * hi)
    BY <1>7, <2>2
  <2>8. IsPosition(Padded(q, l, 0), m)
    BY <1>1, <1>2, <2>4, PaddedIs
  <2>9. Flat(Padded(q, l, 0), m) \in 0 .. Total(m) - 1
    BY <2>8, FlatBelow
  <2> QED BY <1>2, <1>6, <2>4, <2>5, <2>6, <2>7, <2>9
<1>11. p[k] \in 0 .. l[k] - 1 /\ l[k] \in Nat \ {0}
  BY <1>2, <1>3, <1>8
<1> HIDE DEF q
<1>12. p[k] >= 1 =>
            /\ HasDigit(FlatOf(l)[q], s, l[k], lo, hi, p[k] - 1)
            /\ FlatOf(l)[q] \in 0 .. Statistics!ElementsOf(l) - 1
  BY <1>10 DEF HasDigit
<1>13. HasDigit(FlatOf(l)[p], s, l[k], lo, hi, p[k])
  BY <1>9 DEF HasDigit
<1>14. PlacedAt(l, k, p, s, lo, hi)
  BY <1>5, <1>7, <1>9, <1>11, <1>12, <1>13 DEF PlacedAt, q
<1> QED BY <1>7, <1>14

(* The loops compare neighbours, *)
LEMMA StepsAreNeighbours ==
  ASSUME NEW l \in Seq(Nat \ {0}), Len(l) \in 1 .. 4, NEW k, NEW p, NEW i, NEW j, IsStep(l, k, p, i, j)
  PROVE  /\ i \in 0 .. Statistics!ElementsOf(l) - 1 /\ j \in 0 .. Statistics!ElementsOf(l) - 1
         /\ Statistics!Beside(i, j, l)
<1>1. /\ k \in DOMAIN l /\ p \in Statistics!Positions(l) /\ p[k] >= 1
      /\ j = FlatOf(l)[p] /\ i = FlatOf(l)[[p EXCEPT ![k] = @ - 1]]
  BY DEF IsStep
<1>2. PICK s \in Nat \ {0}, lo \in Nat, hi \in Nat : PlacedAt(l, k, p, s, lo, hi)
  BY <1>1, StepPlaces
<1>3. i \in 0 .. Statistics!ElementsOf(l) - 1 /\ j \in 0 .. Statistics!ElementsOf(l) - 1
  BY <1>1, <1>2 DEF PlacedAt
<1>4. PICK c \in Nat \ {0}, x \in Int : c = l[k] /\ x = p[k] /\ x \in 1 .. c - 1
  <2>1. l[k] \in Nat \ {0} /\ p[k] \in 0 .. l[k] - 1
    BY <1>2 DEF PlacedAt
  <2> QED BY <1>1, <2>1
<1>5. i \in Int /\ j \in Int /\ HasDigit(j, s, c, lo, hi, x) /\ HasDigit(i, s, c, lo, hi, x - 1)
  <2>1. Statistics!ElementsOf(l) \in Nat
    BY StridesAre
  <2> QED BY <1>1, <1>2, <1>3, <1>4, <2>1 DEF PlacedAt
<1>6. InOneRow(i, j, s, c)
  <2>1. lo < s
    BY <1>2 DEF PlacedAt
  <2> QED BY <1>4, <1>5, <2>1, StepDown
<1>7. Statistics!Beside(i, j, l)
  BY <1>1, <1>2, <1>4, <1>6 DEF Statistics!Beside, InOneRow, PlacedAt
<1> QED BY <1>3, <1>7

(* and all of them. *)
LEMMA NeighboursAreSteps ==
  ASSUME NEW l \in Seq(Nat \ {0}), Len(l) \in 1 .. 4,
         NEW i \in 0 .. Statistics!ElementsOf(l) - 1, NEW j \in 0 .. Statistics!ElementsOf(l) - 1,
         Statistics!Beside(i, j, l)
  PROVE  \E k, p : IsStep(l, k, p, i, j)
<1>1. PICK k \in DOMAIN l :
         /\ j = i + Statistics!Stride(l, k)
         /\ (i \div Statistics!Stride(l, k)) \div l[k] = (j \div Statistics!Stride(l, k)) \div l[k]
  BY DEF Statistics!Beside
<1>2. Statistics!ElementsOf(l) \in Nat \ {0}
  BY StridesAre
<1>3. PICK p \in Statistics!Positions(l) : FlatOf(l)[p] = j
  <2>1. PICK m \in Lengths4 : m = Padded(l, l, 1) /\ Total(m) = Statistics!ElementsOf(l)
    BY PaddedIs, StridesAre
  <2>2. PICK x : IsPosition(x, m) /\ Flat(x, m) = j
    BY <2>1, FlatReached
  <2>3. PICK p \in Statistics!Positions(l) : Padded(p, l, 0) = x
    BY <2>1, <2>2, PaddedIs
  <2>4. FlatOf(l)[p] = j
    BY <2>1, <2>2, <2>3 DEF FlatOf
  <2> QED BY <2>4
<1>4. PICK s \in Nat \ {0}, lo \in Nat, hi \in Nat : PlacedAt(l, k, p, s, lo, hi)
  BY StepPlaces
<1>5. PICK c \in Nat \ {0}, x \in Int : c = l[k] /\ x = p[k] /\ x \in 0 .. c - 1
  BY <1>4 DEF PlacedAt
<1>6. i \in Int /\ j \in Int /\ lo < s /\ HasDigit(j, s, c, lo, hi, x) /\ InOneRow(i, j, s, c)
  BY <1>1, <1>2, <1>3, <1>4, <1>5 DEF PlacedAt, InOneRow
<1>7. x \in 1 .. c - 1 /\ HasDigit(i, s, c, lo, hi, x - 1)
  BY <1>5, <1>6, StepUp
<1>8. p[k] >= 1
  BY <1>5, <1>7
<1>9. i = FlatOf(l)[[p EXCEPT ![k] = @ - 1]]
  <2>1. HasDigit(FlatOf(l)[[p EXCEPT ![k] = @ - 1]], s, c, lo, hi, x - 1)
    BY <1>4, <1>5, <1>8 DEF PlacedAt
  <2> QED BY <1>7, <2>1 DEF HasDigit
<1>10. IsStep(l, k, p, i, j)
  BY <1>3, <1>8, <1>9 DEF IsStep
<1> QED BY <1>10

(* What the loops compare *)
LEMMA BufferSteps ==
  ASSUME NEW a \in Arrays, NEW v
  PROVE  v \in Statistics!Steps(a, FlatOf(a.length)) <=>
            \E k, p, i, j : IsStep(a.length, k, p, i, j) /\ v = Statistics!Abs(a.data[j] - a.data[i])
<1>1. ASSUME v \in Statistics!Steps(a, FlatOf(a.length))
      PROVE  \E k, p, i, j : IsStep(a.length, k, p, i, j) /\ v = Statistics!Abs(a.data[j] - a.data[i])
  <2>1. PICK k \in DOMAIN a.length, p \in Statistics!Positions(a.length) :
           /\ p[k] >= 1
           /\ v = Statistics!Abs(a.data[FlatOf(a.length)[p]]
                                   - a.data[FlatOf(a.length)[[p EXCEPT ![k] = @ - 1]]])
    BY <1>1 DEF Statistics!Steps
  <2>2. IsStep(a.length, k, p, FlatOf(a.length)[[p EXCEPT ![k] = @ - 1]], FlatOf(a.length)[p])
    BY <2>1 DEF IsStep
  <2> QED BY <2>1, <2>2
<1>2. ASSUME NEW k, NEW p, NEW i, NEW j, IsStep(a.length, k, p, i, j),
             v = Statistics!Abs(a.data[j] - a.data[i])
      PROVE  v \in Statistics!Steps(a, FlatOf(a.length))
  <2>1. k \in DOMAIN a.length /\ p \in {q \in Statistics!Positions(a.length) : q[k] >= 1}
    BY <1>2 DEF IsStep
  <2>2. v = Statistics!Abs(a.data[FlatOf(a.length)[p]]
                             - a.data[FlatOf(a.length)[[p EXCEPT ![k] = @ - 1]]])
    BY <1>2 DEF IsStep
  <2>3. v \in {Statistics!Abs(a.data[FlatOf(a.length)[q]]
                                - a.data[FlatOf(a.length)[[q EXCEPT ![k] = @ - 1]]]) :
                  q \in {q \in Statistics!Positions(a.length) : q[k] >= 1}}
    BY <2>1, <2>2
  <2> QED BY <2>1, <2>3 DEF Statistics!Steps
<1> QED BY <1>1, <1>2

(* The largest step is the largest difference between neighbours. *)
LEMMA Steepest ==
  ASSUME NEW a \in Arrays, NEW d, d = a.data
  PROVE  /\ \A i, j \in DOMAIN d :
              Statistics!Beside(i, j, a.length) => Statistics!Abs(d[i] - d[j]) <= Statistics!MaxStep(a)
         /\ Statistics!MaxStep(a) > 0 =>
              \E i, j \in DOMAIN d :
                 Statistics!Beside(i, j, a.length) /\ Statistics!Abs(d[i] - d[j]) = Statistics!MaxStep(a)
<1> DEFINE l == a.length
<1>1. l \in Seq(Nat \ {0}) /\ Len(l) \in 1 .. 4
  BY StatisticsConstants
<1>2. PICK c \in Nat \ {0} : c = Statistics!ElementsOf(l)
  BY <1>1, StridesAre
<1>3. d \in [0 .. c - 1 -> Int] /\ DOMAIN d = 0 .. c - 1 /\ \A i \in 0 .. c - 1 : d[i] \in Int
  BY <1>1, <1>2, StatisticsConstants
<1>4. \A i, j \in 0 .. c - 1 : /\ Statistics!Abs(d[i] - d[j]) \in Nat
                               /\ Statistics!Abs(d[i] - d[j]) = Statistics!Abs(d[j] - d[i])
  BY <1>3 DEF Statistics!Abs
<1>5. \E b \in Nat : \A i, j \in 0 .. c - 1 : Statistics!Abs(d[i] - d[j]) <= b
  <2>1. /\ \E m \in 0 .. c - 1 : \A n \in 0 .. c - 1 : d[m] <= d[n]
        /\ \E m \in 0 .. c - 1 : \A n \in 0 .. c - 1 : d[n] <= d[m]
    BY <1>3, Extremes
  <2>2. PICK u \in 0 .. c - 1 : \A n \in 0 .. c - 1 : d[u] <= d[n]
    BY <2>1
  <2>3. PICK v \in 0 .. c - 1 : \A n \in 0 .. c - 1 : d[n] <= d[v]
    BY <2>1
  <2>4. d[v] - d[u] \in Nat
    BY <1>3, <2>2
  <2>5. ASSUME NEW i \in 0 .. c - 1, NEW j \in 0 .. c - 1
        PROVE  Statistics!Abs(d[i] - d[j]) <= d[v] - d[u]
    <3>1. /\ d[i] \in Int /\ d[j] \in Int /\ d[v] \in Int /\ d[u] \in Int
          /\ d[u] <= d[i] /\ d[u] <= d[j] /\ d[i] <= d[v] /\ d[j] <= d[v]
      BY <1>3, <2>2, <2>3
    <3> QED BY <3>1 DEF Statistics!Abs
  <2> QED BY <2>4, <2>5
<1>6. PICK b \in Nat : \A i, j \in 0 .. c - 1 : Statistics!Abs(d[i] - d[j]) <= b
  BY <1>5
<1> DEFINE T == {0} \cup Statistics!Steps(a, FlatOf(a.length))
<1>7. ASSUME NEW v \in Statistics!Steps(a, FlatOf(a.length))
      PROVE  \E i, j \in 0 .. c - 1 : Statistics!Beside(i, j, l) /\ v = Statistics!Abs(d[i] - d[j])
  <2>0. \E k, p, i, j : IsStep(a.length, k, p, i, j) /\ v = Statistics!Abs(a.data[j] - a.data[i])
    BY <1>7, BufferSteps
  <2>1. PICK k, p, i, j : IsStep(l, k, p, i, j) /\ v = Statistics!Abs(d[j] - d[i])
    BY <2>0
  <2>2. i \in 0 .. c - 1 /\ j \in 0 .. c - 1 /\ Statistics!Beside(i, j, l)
    BY <1>1, <1>2, <2>1, StepsAreNeighbours
  <2> QED BY <1>4, <2>1, <2>2
<1>8. T \in SUBSET Nat /\ T # {} /\ \A n \in T : n <= b
  <2>1. \A v \in Statistics!Steps(a, FlatOf(a.length)) : v \in Nat /\ v <= b
    BY <1>4, <1>6, <1>7
  <2> QED BY <2>1
<1>9. Statistics!MaxStep(a) \in T /\ \A n \in T : n <= Statistics!MaxStep(a)
  <2>1. Statistics!MaxStep(a) = Statistics!Max(T)
    BY MaxStepIs
  <2> HIDE DEF T
  <2> QED BY <1>8, <2>1, Greatest
<1>10. ASSUME NEW i \in 0 .. c - 1, NEW j \in 0 .. c - 1, Statistics!Beside(i, j, l)
       PROVE  Statistics!Abs(d[i] - d[j]) <= Statistics!MaxStep(a)
  <2>1. PICK k, p : IsStep(l, k, p, i, j)
    BY <1>1, <1>2, <1>10, NeighboursAreSteps
  <2>2. Statistics!Abs(d[j] - d[i]) \in T
    BY <1>1, <2>1, BufferSteps
  <2> QED BY <1>4, <1>9, <2>2
<1>11. ASSUME Statistics!MaxStep(a) > 0
       PROVE  \E i, j \in 0 .. c - 1 :
                 Statistics!Beside(i, j, l) /\ Statistics!Abs(d[i] - d[j]) = Statistics!MaxStep(a)
  <2>1. Statistics!MaxStep(a) \in Statistics!Steps(a, FlatOf(a.length))
    BY <1>8, <1>9, <1>11
  <2> QED BY <1>7, <2>1
<1> QED BY <1>1, <1>3, <1>10, <1>11

(* What is written of a buffer was computed from it. *)
StatisticsInv ==
    /\ phase \in {"idle", "generated", "described"}
    /\ phase # "idle" => array \in Arrays
    /\ phase = "described" => \E garbage : current = Statistics!Characteristics(array, garbage)

(* The invariant is inductive. *)
LEMMA StatisticsStep ==
  ASSUME StatisticsInv, [Next]_vars PROVE StatisticsInv'
<1>1. CASE Statistics!SetDataCharacteristics
  <2>1. phase = "generated" /\ phase' = "described" /\ array' = array
    BY <1>1 DEF Statistics!SetDataCharacteristics
  <2>2. PICK garbage : current' = Statistics!Characteristics(array, garbage)
    BY <1>1 DEF Statistics!SetDataCharacteristics
  <2>3. array' \in Arrays
    BY <2>1 DEF StatisticsInv
  <2>4. Statistics!Characteristics(array, garbage)' = Statistics!Characteristics(array', garbage)
    BY DEF Statistics!Characteristics
  <2>5. \E g : current' = Statistics!Characteristics(array, g)'
    BY <2>1, <2>2, <2>4
  <2> QED BY <2>1, <2>3, <2>5 DEF StatisticsInv
<1>2. CASE Statistics!Generate
  BY <1>2 DEF Statistics!Generate, StatisticsInv
<1>3. CASE Statistics!Free
  BY <1>3 DEF Statistics!Free, StatisticsInv
<1>4. CASE UNCHANGED statVars
  <2>1. phase' = phase /\ array' = array /\ current' = current
    BY <1>4 DEF statVars
  <2> QED BY <2>1 DEF StatisticsInv, Statistics!Characteristics
<1> QED BY <1>1, <1>2, <1>3, <1>4 DEF Next, vars, Statistics!Next

(* The three parts of CharacteristicsAreRight follow. *)
LEMMA StatisticsMean == StatisticsInv => CharacteristicsAreRight
<1> SUFFICES ASSUME StatisticsInv, phase = "described" PROVE CharacteristicsAreRight
  BY DEF CharacteristicsAreRight, Statistics!CharacteristicsAreRight, Statistics!StepIsSteepest,
         Statistics!DeviationsAgree, Statistics!OddMedianIsMiddle
<1>1. array \in Arrays
  BY DEF StatisticsInv
<1>2. PICK garbage : current = Statistics!Characteristics(array, garbage)
  BY DEF StatisticsInv
<1>3. /\ current.median = Statistics!Median(array.data, garbage)
      /\ current.stddev = Statistics!Variance(array.data, Statistics!MeanSum(array.data))
      /\ current.maxstep = Statistics!MaxStep(array)
  BY <1>2 DEF Statistics!Characteristics
<1>4. PICK n \in Nat : array.data \in [0 .. n - 1 -> Int]
  <2>1. array.length \in Seq(Nat \ {0}) /\ Len(array.length) \in 1 .. 4
        /\ array.data \in [0 .. Statistics!ElementsOf(array.length) - 1 -> Int]
    BY <1>1, StatisticsConstants
  <2>2. Statistics!ElementsOf(array.length) \in Nat
    BY <2>1, StridesAre
  <2> QED BY <2>1, <2>2
<1>5. Statistics!StepIsSteepest
  BY <1>1, <1>3, Steepest DEF Statistics!StepIsSteepest
<1>6. Statistics!DeviationsAgree
  BY <1>3, <1>4, FormulasAgree DEF Statistics!DeviationsAgree
<1>7. Statistics!OddMedianIsMiddle
  <2>1. Statistics!Count(array.data) = n
    BY <1>4, BufferCount
  <2>2. n % 2 = 1 => Statistics!Balanced(array.data, Statistics!Median(array.data, garbage))
    BY <1>4, MedianBalances
  <2> QED BY <1>3, <2>1, <2>2 DEF Statistics!OddMedianIsMiddle
<1> QED BY <1>5, <1>6, <1>7 DEF CharacteristicsAreRight, Statistics!CharacteristicsAreRight

(* The characteristics written are right, of buffers of any length in one  *)
(* to four dimensions, whatever their values: the largest step is that     *)
(* between neighbours, both formulas of the deviation agree, and an odd    *)
(* number of values has its median.                                        *)
THEOREM CharacteristicsRight == Spec => []CharacteristicsAreRight
<1>1. Init => StatisticsInv
  BY DEF Init, Statistics!Init, StatisticsInv
<1>2. StatisticsInv /\ [Next]_vars => StatisticsInv'
  BY StatisticsStep
<1> QED BY <1>1, <1>2, StatisticsMean, PTL DEF Spec
=============================================================================
