---------------------------- MODULE MulDivProofs ----------------------------
(***************************************************************************)
(* rvntt_muldiv for every width: the powers of two, the algebra of one     *)
(* restoring step, the loop invariant, the signed fix-up, and the          *)
(* refinement of MulDivUnit.                                               *)
(***************************************************************************)
EXTENDS MulDiv, WellFoundedInduction, TLAPS

-----------------------------------------------------------------------------
(* Powers of two.                                                          *)

(* LeastElement: a set of naturals that is not empty has a least element;  *)
(* the form of induction used below.                                       *)
LEMMA LeastElement ==
  ASSUME NEW T, T \subseteq Nat, T # {}
  PROVE  \E n \in T : \A m \in T : n <= m
<1> DEFINE Less == {ss \in Nat \X Nat : ss[1] < ss[2]}
<1>1. IsWellFoundedOn(Less, Nat)  BY NatLessThanWellFounded DEF OpToRel
<1> HIDE DEF Less
<1>2. PICK n \in T : \A m \in T : ~(<<m, n>> \in Less)  BY <1>1, WFMin
<1>3. ASSUME NEW m \in T PROVE n <= m
  <2>1. n \in Nat /\ m \in Nat /\ <<m, n>> \notin Less  BY <1>2
  <2> QED  BY <2>1 DEF Less
<1> QED  BY <1>3

\* g is Pow2 as far as n.
Doubles(g, n) == \A i \in 0 .. n : g[i] = IF i = 0 THEN 1 ELSE 2 * g[i - 1]

(* DoublesUnique: the recursion determines the values up to n.             *)
LEMMA DoublesUnique ==
  ASSUME NEW n \in Nat, NEW g, NEW h, Doubles(g, n), Doubles(h, n)
  PROVE  \A i \in 0 .. n : g[i] = h[i]
<1> DEFINE T == {i \in 0 .. n : g[i] # h[i]}
<1> SUFFICES ASSUME T # {} PROVE FALSE  OBVIOUS
<1>1. PICK i \in T : \A j \in T : i <= j
  <2>1. T \subseteq Nat  OBVIOUS
  <2> QED  BY <2>1, LeastElement
<1>2. i \in 0 .. n /\ g[i] # h[i]  OBVIOUS
<1>3. CASE i = 0  BY <1>2, <1>3 DEF Doubles
<1>4. CASE i # 0
  <2>1. i - 1 \in 0 .. n /\ i - 1 \notin T  BY <1>1, <1>2, <1>4
  <2>2. g[i - 1] = h[i - 1]  BY <2>1
  <2> QED  BY <1>2, <1>4, <2>2 DEF Doubles
<1> QED  BY <1>3, <1>4

(* DoublesExists: there are such values, which are positive.               *)
LEMMA DoublesExists ==
  ASSUME NEW n \in Nat
  PROVE  \E g \in [0 .. n -> Nat \ {0}] : Doubles(g, n)
<1> DEFINE T == {m \in Nat : ~\E g \in [0 .. m -> Nat \ {0}] : Doubles(g, m)}
<1> SUFFICES ASSUME T # {} PROVE FALSE  OBVIOUS
<1>1. PICK m \in T : \A j \in T : m <= j  BY LeastElement
<1>2. m \in Nat /\ ~\E g \in [0 .. m -> Nat \ {0}] : Doubles(g, m)  OBVIOUS
<1>3. CASE m = 0
  <2> DEFINE g == [i \in 0 .. 0 |-> 1]
  <2>1. g \in [0 .. m -> Nat \ {0}] /\ Doubles(g, m)  BY <1>3 DEF Doubles
  <2> QED  BY <1>2, <2>1
<1>4. CASE m # 0
  <2>1. m - 1 \in Nat /\ m - 1 \notin T  BY <1>1, <1>2, <1>4
  <2>2. PICK h \in [0 .. m - 1 -> Nat \ {0}] : Doubles(h, m - 1)  BY <2>1
  <2> DEFINE g == [i \in 0 .. m |-> IF i = m THEN 2 * h[m - 1] ELSE h[i]]
  <2>3. g \in [0 .. m -> Nat \ {0}]
    <3>1. h[m - 1] \in Nat \ {0}  BY <2>1, <2>2
    <3>2. \A i \in 0 .. m : i # m => h[i] \in Nat \ {0}  BY <1>2, <2>2
    <3> QED  BY <3>1, <3>2
  <2>4. ASSUME NEW i \in 0 .. m
        PROVE  g[i] = IF i = 0 THEN 1 ELSE 2 * g[i - 1]
    <3>1. CASE i = m  BY <1>2, <1>4, <3>1
    <3>2. CASE i # m
      <4>1. i \in 0 .. m - 1 /\ g[i] = h[i]  BY <1>2, <3>2
      <4>2. h[i] = IF i = 0 THEN 1 ELSE 2 * h[i - 1]  BY <2>2, <4>1 DEF Doubles
      <4>3. i # 0 => g[i - 1] = h[i - 1]  BY <1>2, <4>1
      <4> QED  BY <4>1, <4>2, <4>3
    <3> QED  BY <3>1, <3>2
  <2>5. Doubles(g, m)  BY <2>4 DEF Doubles
  <2> QED  BY <1>2, <2>3, <2>5
<1> QED  BY <1>3, <1>4

(* Pow2Rec: the recursive definition of Pow2 defines a function.           *)
LEMMA Pow2Rec ==
  /\ Pow2[0] = 1
  /\ \A n \in Nat : Pow2[n] \in Nat \ {0} /\ Pow2[n + 1] = 2 * Pow2[n]
<1> DEFINE upto(n) == CHOOSE g \in [0 .. n -> Nat \ {0}] : Doubles(g, n)
           f == [n \in Nat |-> upto(n)[n]]
<1>1. ASSUME NEW n \in Nat
      PROVE  upto(n) \in [0 .. n -> Nat \ {0}] /\ Doubles(upto(n), n)
  BY DoublesExists
<1> HIDE DEF upto
<1>2. ASSUME NEW n \in Nat PROVE f[n] \in Nat \ {0}
  BY <1>1
<1>3. ASSUME NEW n \in Nat, n # 0
      PROVE  upto(n)[n - 1] = upto(n - 1)[n - 1]
  <2>1. n - 1 \in Nat /\ n - 1 \in 0 .. n - 1  BY <1>3
  <2>2. Doubles(upto(n), n - 1)  BY <1>1, <2>1 DEF Doubles
  <2>3. Doubles(upto(n - 1), n - 1)  BY <1>1, <2>1
  <2> QED  BY <2>1, <2>2, <2>3, DoublesUnique
<1>4. ASSUME NEW n \in Nat
      PROVE  f[n] = IF n = 0 THEN 1 ELSE 2 * f[n - 1]
  <2>1. upto(n)[n] = IF n = 0 THEN 1 ELSE 2 * upto(n)[n - 1]
    BY <1>1 DEF Doubles
  <2>2. n # 0 => f[n - 1] = upto(n - 1)[n - 1]  OBVIOUS
  <2> QED  BY <1>3, <2>1, <2>2
<1>5. f = [n \in Nat |-> IF n = 0 THEN 1 ELSE 2 * f[n - 1]]
  <2> HIDE DEF f
  <2>1. f = [n \in Nat |-> f[n]]  BY DEF f
  <2> QED  BY <1>4, <2>1
<1> HIDE DEF f
<1>6. Pow2 = [n \in Nat |-> IF n = 0 THEN 1 ELSE 2 * Pow2[n - 1]]
  <2> DEFINE Rec(g) == g = [n \in Nat |-> IF n = 0 THEN 1 ELSE 2 * g[n - 1]]
  <2>1. Rec(f)  BY <1>5
  <2>2. Pow2 = CHOOSE g : Rec(g)  BY DEF Pow2
  <2> HIDE DEF Rec
  <2>3. Rec(Pow2)  BY <2>1, <2>2
  <2> QED  BY <2>3 DEF Rec
<1>7. ASSUME NEW n \in Nat
      PROVE  Pow2[n] = IF n = 0 THEN 1 ELSE 2 * Pow2[n - 1]
  BY <1>6
<1>8. ASSUME NEW n \in Nat PROVE Pow2[n] = f[n]
  <2>1. Doubles(Pow2, n)  BY <1>7 DEF Doubles
  <2>2. Doubles(f, n)  BY <1>4 DEF Doubles
  <2> QED  BY <2>1, <2>2, DoublesUnique
<1>9. ASSUME NEW n \in Nat PROVE Pow2[n + 1] = 2 * Pow2[n]
  <2>1. n + 1 \in Nat /\ n + 1 # 0 /\ (n + 1) - 1 = n  OBVIOUS
  <2> QED  BY <1>7, <2>1
<1> QED  BY <1>2, <1>7, <1>8, <1>9

(* Pow2Sum: powers of two multiply by adding their exponents.              *)
LEMMA Pow2Sum ==
  ASSUME NEW a \in Nat, NEW b \in Nat
  PROVE  Pow2[a + b] = Pow2[a] * Pow2[b]
<1> DEFINE T == {n \in Nat : Pow2[a + n] # Pow2[a] * Pow2[n]}
<1> SUFFICES ASSUME T # {} PROVE FALSE  OBVIOUS
<1>1. PICK n \in T : \A j \in T : n <= j  BY LeastElement
<1>2. n \in Nat /\ Pow2[a + n] # Pow2[a] * Pow2[n]  OBVIOUS
<1>3. Pow2[a] \in Nat  BY Pow2Rec
<1>4. CASE n = 0
  BY <1>2, <1>3, <1>4, Pow2Rec
<1>5. CASE n # 0
  <2>1. n - 1 \in Nat /\ n - 1 \notin T  BY <1>1, <1>2, <1>5
  <2>2. Pow2[a + (n - 1)] = Pow2[a] * Pow2[n - 1]  BY <2>1
  <2>3. Pow2[n] = 2 * Pow2[n - 1] /\ Pow2[n - 1] \in Nat
    <3>1. Pow2[(n - 1) + 1] = 2 * Pow2[n - 1]  BY <2>1, Pow2Rec
    <3>2. (n - 1) + 1 = n  BY <1>2
    <3> QED  BY <2>1, <3>1, <3>2, Pow2Rec
  <2>4. Pow2[a + n] = 2 * Pow2[a + (n - 1)]
    <3>1. Pow2[(a + (n - 1)) + 1] = 2 * Pow2[a + (n - 1)]  BY <2>1, Pow2Rec
    <3>2. (a + (n - 1)) + 1 = a + n  BY <1>2
    <3> QED  BY <3>1, <3>2
  <2>5. Pow2[a] * Pow2[n] = 2 * (Pow2[a] * Pow2[n - 1])
    BY <1>3, <2>3
  <2> QED  BY <1>2, <2>2, <2>4, <2>5
<1> QED  BY <1>4, <1>5

-----------------------------------------------------------------------------
(* Division.                                                               *)

(* Euclid: quotient and remainder, and that nothing else has their         *)
(* properties.                                                             *)
LEMMA Euclid ==
  ASSUME NEW x \in Nat, NEW n \in Nat \ {0}
  PROVE  /\ x \div n \in Nat /\ x % n \in 0 .. n - 1
         /\ x = (n * (x \div n)) + (x % n)
OBVIOUS

Divides(n, x, q, r) ==
  n \in Nat \ {0} /\ q \in Nat /\ r \in 0 .. n - 1 /\ x = (n * q) + r

LEMMA EuclidUnique ==
  ASSUME NEW n, NEW x, NEW q, NEW r, Divides(n, x, q, r)
  PROVE  x \div n = q /\ x % n = r
BY DEF Divides

LEMMA SmallRemainder ==
  ASSUME NEW n \in Nat \ {0}, NEW x \in 0 .. n - 1
  PROVE  x % n = x
OBVIOUS

(* QuotientBelow: a quotient is below what the divisor times it bounds.    *)
LEMMA QuotientBelow ==
  ASSUME NEW n \in Nat \ {0}, NEW m \in Nat, NEW x \in Nat, x < n * m
  PROVE  x \div n < m
<1> DEFINE q == x \div n
<1>1. q \in Nat /\ x % n \in Nat /\ x = (n * q) + (x % n)  BY Euclid
<1> HIDE DEF q
<1>2. n * q < n * m  BY <1>1
<1>3. q < m  BY <1>1, <1>2
<1> QED  BY <1>3 DEF q

-----------------------------------------------------------------------------
(* One restoring step, on numbers: K = 2^k, n = 2^(Width-k-1), so that the *)
(* word's top bit weighs K*n.  A is the dividend, D the divisor, R and Q   *)
(* the partial remainder and the quotient register before the step.        *)

\* What the loop has established after the k steps of K = 2^k; N = 2^(Width-k).
Divided(A, D, R, Q, K, N) ==
  /\ Q \div K = A % N
  /\ R + ((Q % K) * D) = A \div N
  /\ R < D

\* The registers by their digits: t is the bit shifted out, v the dividend bits
\* still to come and f the quotient bits found.
Digits(K, n, A, Q, t, v, f) ==
  /\ t \in 0 .. 1 /\ v \in 0 .. n - 1 /\ f \in 0 .. K - 1
  /\ f = Q % K
  /\ A % n = v
  /\ A \div n = (2 * (A \div (2 * n))) + t
  /\ Q \div (K * n) = t
  /\ Q = ((K * n) * t) + ((K * v) + f)

(* StepDigits: before a step the registers have such digits.               *)
LEMMA StepDigits ==
  ASSUME NEW K \in Nat \ {0}, NEW n \in Nat \ {0}, NEW A \in Nat, NEW Q \in Nat,
         Q < 2 * (K * n), Q \div K = A % (2 * n)
  PROVE  \E t, v, f : Digits(K, n, A, Q, t, v, f)
<1> DEFINE N == 2 * n
           u == A % N
           g == A \div N
           f == Q % K
           t == u \div n
           v == u % n
<1>1. /\ N \in Nat \ {0} /\ g \in Nat /\ u \in 0 .. N - 1
      /\ A = (N * g) + u
  <2>1. N \in Nat \ {0}  OBVIOUS
  <2> HIDE DEF N
  <2> QED  BY <2>1, Euclid
<1>2. f \in 0 .. K - 1 /\ Q = (K * u) + f
  <2>1. Q \div K = u  OBVIOUS
  <2> QED  BY <2>1, Euclid
<1>3. t \in Nat /\ v \in 0 .. n - 1 /\ u = (n * t) + v
  BY <1>1, Euclid
<1>4. t < 2
  <2>1. u \in Nat /\ u < n * 2  BY <1>1
  <2> HIDE DEF u
  <2> QED  BY <2>1, QuotientBelow
<1> HIDE DEF u, g, f, t, v
<1>5. A = (n * ((2 * g) + t)) + v
  BY <1>1, <1>3
<1>6. A % n = v /\ A \div n = (2 * g) + t
  <2>1. (2 * g) + t \in Nat  BY <1>1, <1>3
  <2>2. Divides(n, A, (2 * g) + t, v)  BY <1>3, <1>5, <2>1 DEF Divides
  <2> QED  BY <2>2, EuclidUnique
<1>7. Q = ((K * n) * t) + ((K * v) + f)
  <2>1. K * ((n * t) + v) = ((K * n) * t) + (K * v)  BY <1>3
  <2> QED  BY <1>2, <1>3, <2>1
<1>8. (K * v) + f \in 0 .. (K * n) - 1
  <2>1. f \in 0 .. K - 1 /\ K * v \in Nat /\ K * n \in Nat  BY <1>2, <1>3
  <2>2. K * (v + 1) <= K * n  BY <1>3
  <2>3. K * (v + 1) = (K * v) + K  BY <1>3
  <2>4. (K * v) + K <= K * n  BY <2>2, <2>3
  <2> QED  BY <2>1, <2>4
<1>9. Q \div (K * n) = t
  <2>1. K * n \in Nat \ {0}  OBVIOUS
  <2>2. Divides(K * n, Q, t, (K * v) + f)
    BY <1>3, <1>7, <1>8, <2>1 DEF Divides
  <2> QED  BY <2>2, EuclidUnique
<1>10. t \in 0 .. 1  BY <1>3, <1>4
<1>11. Digits(K, n, A, Q, t, v, f)
  <2>1. f = Q % K /\ g = A \div (2 * n)  BY DEF f, g
  <2> QED  BY <1>2, <1>3, <1>6, <1>7, <1>9, <1>10, <2>1 DEF Digits
<1> QED  BY <1>11

(* ShiftedFits: before a step the partial remainder is what the quotient   *)
(* bits found leave of the bits of A seen, so doubling it and shifting in  *)
(* a bit stays within the word.                                            *)
LEMMA ShiftedFits ==
  ASSUME NEW K \in Nat \ {0}, NEW n \in Nat \ {0}, NEW A \in Nat, NEW D \in Nat,
         NEW R \in Nat, NEW Q \in Nat, NEW t \in 0 .. 1,
         A < 2 * (K * n), Divided(A, D, R, Q, K, 2 * n)
  PROVE  (2 * R) + t < 2 * (K * n)
<1> DEFINE N == 2 * n
           f == Q % K
<1>1. N \in Nat \ {0}  OBVIOUS
<1>2. A < N * K
  <2>1. (2 * n) * K = 2 * (K * n)  OBVIOUS
  <2> QED  BY <2>1
<1>3. R + (f * D) = A \div N  BY DEF Divided
<1> HIDE DEF N
<1>4. A \div N < K  BY <1>1, <1>2, QuotientBelow
<1>5. f \in Nat  BY Euclid
<1> HIDE DEF f
<1>6. f * D \in Nat  BY <1>5
<1>7. A \div N \in Nat  BY <1>1, Euclid
<1>8. R < K  BY <1>3, <1>4, <1>6, <1>7
<1>9. K * n \in Nat /\ K <= K * n  OBVIOUS
<1> QED  BY <1>8, <1>9

(* QuotientShifts: doubling the quotient register and adding the new bit,  *)
(* within the word, drops the digit shifted out.                           *)
LEMMA QuotientShifts ==
  ASSUME NEW K \in Nat \ {0}, NEW n \in Nat \ {0}, NEW Q \in Nat,
         NEW A, NEW t, NEW v, NEW f, Digits(K, n, A, Q, t, v, f),
         NEW M, M = 2 * (K * n), NEW L, L = 2 * K,
         NEW b \in 0 .. 1, NEW Q2, Q2 = ((2 * Q) + b) % M
  PROVE  Q2 \div L = v /\ Q2 % L = (2 * f) + b
<1>1. /\ t \in 0 .. 1 /\ v \in 0 .. n - 1 /\ f \in 0 .. K - 1
      /\ Q = ((K * n) * t) + ((K * v) + f)
  BY DEF Digits
<1>2. M \in Nat \ {0} /\ L \in Nat \ {0} /\ K * v \in Nat /\ K * n \in Nat
  BY <1>1
<1> DEFINE r == (L * v) + ((2 * f) + b)
<1>3. r = (2 * (K * v)) + ((2 * f) + b)  BY <1>1
<1> HIDE DEF r
<1>4. r \in 0 .. M - 1
  <2>1. K * (v + 1) <= K * n  BY <1>1
  <2>2. K * (v + 1) = (K * v) + K  BY <1>1
  <2>3. (K * v) + K <= K * n  BY <2>1, <2>2
  <2> QED  BY <1>1, <1>2, <1>3, <2>3
<1>5. (2 * Q) + b = (M * t) + r
  <2>1. M * t = 2 * ((K * n) * t) /\ (K * n) * t \in Nat  BY <1>1
  <2> QED  BY <1>1, <1>2, <1>3, <2>1
<1>6. Q2 = r
  <2>1. Divides(M, (2 * Q) + b, t, r)  BY <1>1, <1>2, <1>4, <1>5 DEF Divides
  <2> QED  BY <2>1, EuclidUnique
<1>7. r \div L = v /\ r % L = (2 * f) + b
  <2>1. (2 * f) + b \in 0 .. L - 1 /\ v \in Nat  BY <1>1
  <2>2. r = (L * v) + ((2 * f) + b)  BY DEF r
  <2>3. Divides(L, r, v, (2 * f) + b)  BY <1>2, <2>1, <2>2 DEF Divides
  <2> QED  BY <2>3, EuclidUnique
<1> QED  BY <1>6, <1>7

\* The registers' values R2 and Q2 after a step, S being the shifted remainder.
Steps(M, K, n, D, R, Q, S, R2, Q2) ==
  /\ M = 2 * (K * n)
  /\ S = (2 * R) + (Q \div (K * n))
  /\ R2 = (IF S >= D THEN S - D ELSE S) % M
  /\ Q2 = ((2 * Q) + (IF S >= D THEN 1 ELSE 0)) % M

(* RestoringStep: a step takes the invariant from K to 2*K.                *)
LEMMA RestoringStep ==
  ASSUME NEW K \in Nat \ {0}, NEW n \in Nat \ {0}, NEW A \in Nat, NEW D \in Nat,
         NEW R \in Nat, NEW Q \in Nat, NEW M, NEW S, NEW R2, NEW Q2,
         A < M, Q < M, D < M,
         Divided(A, D, R, Q, K, 2 * n), Steps(M, K, n, D, R, Q, S, R2, Q2)
  PROVE  S < M /\ Divided(A, D, R2, Q2, 2 * K, n)
<1> DEFINE b  == IF S >= D THEN 1 ELSE 0
           R1 == IF S >= D THEN S - D ELSE S
           L  == 2 * K
<1>0. /\ M = 2 * (K * n) /\ S = (2 * R) + (Q \div (K * n))
      /\ R2 = R1 % M /\ Q2 = ((2 * Q) + b) % M
  BY DEF Steps
<1> DEFINE g == A \div (2 * n)
<1>1. /\ Q \div K = A % (2 * n)
      /\ R + ((Q % K) * D) = g
      /\ R < D
  BY DEF Divided
<1>2. PICK t, v, f : Digits(K, n, A, Q, t, v, f)
  <2>1. Q < 2 * (K * n)  BY <1>0
  <2> QED  BY <1>1, <2>1, StepDigits
<1>3. /\ t \in 0 .. 1 /\ v \in 0 .. n - 1 /\ f \in 0 .. K - 1
      /\ Q % K = f /\ A % n = v /\ A \div n = (2 * g) + t
      /\ Q \div (K * n) = t
  BY <1>2 DEF Digits
<1>4. S = (2 * R) + t /\ S < M  BY <1>0, <1>3, ShiftedFits
<1> HIDE DEF g
<1>5. b \in 0 .. 1  OBVIOUS
<1> HIDE DEF b, R1, L
<1>6. Q2 \div L = v /\ Q2 % L = (2 * f) + b
  <2>1. L = 2 * K  BY DEF L
  <2>2. M = 2 * (K * n) /\ Q2 = ((2 * Q) + b) % M  BY <1>0
  <2> QED  BY <1>2, <1>5, <2>1, <2>2, QuotientShifts
<1>7. M \in Nat \ {0} /\ S \in Nat  BY <1>0, <1>3, <1>4
<1>8. R1 \in Nat /\ R1 < D /\ R1 < M /\ R1 = S - (b * D)
  <2>1. CASE S >= D
    <3>1. b = 1 /\ R1 = S - D /\ b * D = D  BY <2>1 DEF b, R1
    <3> QED  BY <1>1, <1>3, <1>4, <1>7, <2>1, <3>1
  <2>2. CASE ~(S >= D)
    <3>1. b = 0 /\ R1 = S /\ b * D = 0  BY <2>2 DEF b, R1
    <3> QED  BY <1>4, <1>7, <2>2, <3>1
  <2> QED  BY <2>1, <2>2
<1>9. R2 = R1
  <2>1. R1 \in 0 .. M - 1  BY <1>7, <1>8
  <2> QED  BY <1>0, <1>7, <2>1, SmallRemainder
<1>10. R1 + (((2 * f) + b) * D) = A \div n
  <2>1. ((2 * f) + b) * D = (2 * (f * D)) + (b * D)  BY <1>3, <1>5
  <2>2. f * D \in Nat /\ b * D \in Nat  BY <1>3, <1>5
  <2>3. R + (f * D) = g  BY <1>1, <1>3
  <2>4. g \in Nat  BY <2>2, <2>3
  <2> QED  BY <1>3, <1>4, <1>8, <2>1, <2>2, <2>3, <2>4
<1>11. Divided(A, D, R2, Q2, 2 * K, n)
  BY <1>3, <1>6, <1>8, <1>9, <1>10 DEF Divided, L
<1> QED  BY <1>4, <1>11

-----------------------------------------------------------------------------
(* The width.                                                              *)

(* WordSizes: the word is twice its top bit's weight.                      *)
LEMMA WordSizes ==
  /\ Width \in Nat /\ Width - 1 \in Nat
  /\ Pow2[Width - 1] \in Nat \ {0}
  /\ Pow2[Width] \in Nat \ {0}
  /\ Pow2[Width] = 2 * Pow2[Width - 1]
<1>1. Width \in Nat /\ Width - 1 \in Nat /\ (Width - 1) + 1 = Width
  BY WidthAssumption
<1>2. Pow2[(Width - 1) + 1] = 2 * Pow2[Width - 1]  BY <1>1, Pow2Rec
<1> QED  BY <1>1, <1>2, Pow2Rec

(* StepSizes: before step k of the loop the word is 2^k * 2^(Width-k).     *)
LEMMA StepSizes ==
  ASSUME NEW k \in Nat, k < Width
  PROVE  /\ Pow2[k] \in Nat \ {0} /\ Pow2[k + 1] = 2 * Pow2[k]
         /\ Pow2[Width - (k + 1)] \in Nat \ {0}
         /\ Pow2[Width - k] = 2 * Pow2[Width - (k + 1)]
         /\ Pow2[Width - 1] = Pow2[k] * Pow2[Width - (k + 1)]
<1>1. Width \in Nat  BY WordSizes
<1>2. /\ Width - (k + 1) \in Nat
      /\ (Width - (k + 1)) + 1 = Width - k
      /\ k + (Width - (k + 1)) = Width - 1
  BY <1>1
<1>3. Pow2[(Width - (k + 1)) + 1] = 2 * Pow2[Width - (k + 1)]  BY <1>2, Pow2Rec
<1>4. Pow2[k + (Width - (k + 1))] = Pow2[k] * Pow2[Width - (k + 1)]
  BY <1>2, Pow2Sum
<1> QED  BY <1>2, <1>3, <1>4, Pow2Rec

(* OpBits: the bits of funct3 that the datapath looks at.                  *)
LEMMA OpBits ==
  ASSUME NEW op \in Nat
  PROVE  Bit(op, 0) = (op % 2 = 1) /\ Bit(op, 1) = ((op \div 2) % 2 = 1)
<1>1. Pow2[0] = 1 /\ Pow2[1] = 2
  <2>1. Pow2[0 + 1] = 2 * Pow2[0] /\ 0 + 1 = 1  BY Pow2Rec
  <2> QED  BY <2>1, Pow2Rec
<1>2. op \div 1 = op  OBVIOUS
<1> QED  BY <1>1, <1>2 DEF Bit

(* SignedRange: the signed reading of a word.                              *)
LEMMA SignedRange ==
  ASSUME NEW x \in Word
  PROVE  /\ x \in Nat /\ x < Pow2[Width]
         /\ Signed(x) \in -Pow2[Width - 1] .. Pow2[Width - 1] - 1
         /\ Signed(x) \in -Pow2[Width] .. Pow2[Width] - 1
BY WordSizes DEF Word, Signed

\* An operand as a division reads it.
Operand(j, x) == IF Bit(j.op, 0) THEN x ELSE Signed(x)

(* MagnitudeIsAbs: what the divider captures of an operand is its absolute *)
(* value, which is a word and zero only for zero.                          *)
LEMMA MagnitudeIsAbs ==
  ASSUME NEW j \in Jobs, NEW x \in Word
  PROVE  /\ Magnitude(j, x) \in Word
         /\ Magnitude(j, x) = Abs(Operand(j, x))
         /\ Negative(j, x) <=> Operand(j, x) < 0
         /\ Magnitude(j, x) = 0 <=> x = 0
<1> DEFINE H == Pow2[Width - 1]
           M == Pow2[Width]
<1>1. H \in Nat \ {0} /\ M = 2 * H /\ x \in 0 .. M - 1  BY WordSizes DEF Word
<1>2. CASE Bit(j.op, 0)
  <2>1. ~Negative(j, x) /\ Magnitude(j, x) = x /\ Operand(j, x) = x
    BY <1>2 DEF Negative, Magnitude, Operand
  <2>2. Abs(x) = x /\ ~(x < 0)  BY <1>1 DEF Abs
  <2> QED  BY <2>1, <2>2
<1>3. CASE ~Bit(j.op, 0) /\ x < H
  <2>1. ~Negative(j, x) /\ Magnitude(j, x) = x /\ Operand(j, x) = x
    BY <1>1, <1>3 DEF Negative, Magnitude, Operand, Signed
  <2>2. Abs(x) = x /\ ~(x < 0)  BY <1>1 DEF Abs
  <2> QED  BY <2>1, <2>2
<1>4. CASE ~Bit(j.op, 0) /\ ~(x < H)
  <2>1. /\ Negative(j, x) /\ Magnitude(j, x) = Negate(x)
        /\ Operand(j, x) = x - M
    BY <1>1, <1>4 DEF Negative, Magnitude, Operand, Signed
  <2>2. M - x \in 0 .. M - 1 /\ M \in Nat \ {0}  BY <1>1, <1>4
  <2>3. Negate(x) = M - x
    <3>1. (M - x) % M = M - x  BY <2>2, SmallRemainder
    <3> QED  BY <3>1 DEF Negate
  <2>4. x - M < 0 /\ Abs(x - M) = M - x /\ M - x # 0 /\ x # 0
    BY <1>1, <1>4 DEF Abs
  <2> QED  BY <2>1, <2>2, <2>3, <2>4 DEF Word
<1> QED  BY <1>2, <1>3, <1>4

(* WrapWord: a word, its negation and its signed reading as words.         *)
LEMMA WrapWord ==
  ASSUME NEW x \in Word
  PROVE  Wrap(x) = x /\ Wrap(-x) = Negate(x) /\ Wrap(Signed(x)) = x
<1> DEFINE M == Pow2[Width]
<1>1. M \in Nat \ {0} /\ x \in 0 .. M - 1  BY WordSizes DEF Word
<1>2. x % M = x  BY <1>1, SmallRemainder
<1>3. (-x) % M = (M - x) % M  BY <1>1
<1>4. (x - M) % M = x  BY <1>1
<1> QED  BY <1>2, <1>3, <1>4 DEF Wrap, Negate, Signed

(* ReferenceDiv: the reference for the four divisions, in one form.        *)
LEMMA ReferenceDiv ==
  ASSUME NEW j \in Jobs, OpIsDiv(j.op)
  PROVE  Reference(j) = IF Bit(j.op, 1)
                        THEN Wrap(Remainder(Operand(j, j.a), Operand(j, j.b)))
                        ELSE Wrap(Quotient(Operand(j, j.a), Operand(j, j.b)))
<1>1. j.op \in {4, 5, 6, 7}  BY DEF Jobs, Ops, OpIsDiv
<1>2. /\ Bit(j.op, 0) <=> j.op % 2 = 1
      /\ Bit(j.op, 1) <=> (j.op \div 2) % 2 = 1
  BY <1>1, OpBits
<1>3. CASE j.op = 4
  <2>1. ~Bit(j.op, 0) /\ ~Bit(j.op, 1)  BY <1>2, <1>3
  <2>2. Reference(j) = Wrap(Quotient(Signed(j.a), Signed(j.b)))
    BY <1>3 DEF Reference
  <2> QED  BY <2>1, <2>2 DEF Operand
<1>4. CASE j.op = 5
  <2>1. Bit(j.op, 0) /\ ~Bit(j.op, 1)  BY <1>2, <1>4
  <2>2. Reference(j) = Wrap(Quotient(j.a, j.b))  BY <1>4 DEF Reference
  <2> QED  BY <2>1, <2>2 DEF Operand
<1>5. CASE j.op = 6
  <2>1. ~Bit(j.op, 0) /\ Bit(j.op, 1)  BY <1>2, <1>5
  <2>2. Reference(j) = Wrap(Remainder(Signed(j.a), Signed(j.b)))
    BY <1>5 DEF Reference
  <2> QED  BY <2>1, <2>2 DEF Operand
<1>6. CASE j.op = 7
  <2>1. Bit(j.op, 0) /\ Bit(j.op, 1)  BY <1>2, <1>6
  <2>2. Reference(j) = Wrap(Remainder(j.a, j.b))  BY <1>6 DEF Reference
  <2> QED  BY <2>1, <2>2 DEF Operand
<1> QED  BY <1>1, <1>3, <1>4, <1>5, <1>6

(* ReferenceMul: the reference for the four multiplications is what the    *)
(* multiplier computes from the operands it captures.                      *)
LEMMA ReferenceMul ==
  ASSUME NEW j \in Jobs, ~OpIsDiv(j.op), mul = MulCapture(j)
  PROVE  Reference(j) = MulResult
<1>1. j.op \in {0, 1, 2, 3}  BY DEF Jobs, Ops, OpIsDiv
<1>2. Bit(j.op, 1) <=> (j.op \div 2) % 2 = 1
  BY <1>1, OpBits
<1>3. /\ mul.a = Extend(j.op % 4 # 3, j.a)
      /\ mul.b = Extend(~Bit(j.op, 1), j.b)
      /\ mul.hi <=> j.op % 4 # 0
  BY DEF MulCapture
<1>4. CASE j.op = 0
  <2>1. Reference(j) = Wrap(Signed(j.a) * Signed(j.b))  BY <1>4 DEF Reference
  <2>2. mul.a = Signed(j.a) /\ mul.b = Signed(j.b) /\ ~mul.hi
    BY <1>2, <1>3, <1>4 DEF Extend
  <2> QED  BY <2>1, <2>2 DEF MulResult, Product, Wrap
<1>5. CASE j.op = 1
  <2>1. Reference(j) = Wrap((Signed(j.a) * Signed(j.b)) \div Pow2[Width])
    BY <1>5 DEF Reference
  <2>2. mul.a = Signed(j.a) /\ mul.b = Signed(j.b) /\ mul.hi
    BY <1>2, <1>3, <1>5 DEF Extend
  <2> QED  BY <2>1, <2>2 DEF MulResult, Product, Wrap
<1>6. CASE j.op = 2
  <2>1. Reference(j) = Wrap((Signed(j.a) * j.b) \div Pow2[Width])
    BY <1>6 DEF Reference
  <2>2. mul.a = Signed(j.a) /\ mul.b = j.b /\ mul.hi
    BY <1>2, <1>3, <1>6 DEF Extend
  <2> QED  BY <2>1, <2>2 DEF MulResult, Product, Wrap
<1>7. CASE j.op = 3
  <2>1. Reference(j) = Wrap((j.a * j.b) \div Pow2[Width])
    BY <1>7 DEF Reference
  <2>2. mul.a = j.a /\ mul.b = j.b /\ mul.hi
    BY <1>2, <1>3, <1>7 DEF Extend
  <2> QED  BY <2>1, <2>2 DEF MulResult, Product, Wrap
<1> QED  BY <1>1, <1>4, <1>5, <1>6, <1>7

(* SignedDivision: division rounding toward zero, from the division of the *)
(* absolute values.                                                        *)
LEMMA SignedDivision ==
  ASSUME NEW x \in Int, NEW y \in Int, y # 0,
         NEW q \in Nat, NEW r \in Nat, Divides(Abs(y), Abs(x), q, r)
  PROVE  /\ Quotient(x, y) = IF (x < 0) # (y < 0) THEN -q ELSE q
         /\ Remainder(x, y) = IF x < 0 THEN -r ELSE r
<1>1. Abs(x) \div Abs(y) = q  BY EuclidUnique
<1>2. Abs(x) = (Abs(y) * q) + r  BY DEF Divides
<1>3. Quotient(x, y) = IF (x < 0) # (y < 0) THEN -q ELSE q
  BY <1>1 DEF Quotient
<1>4. Remainder(x, y) = x - (y * Quotient(x, y))  BY DEF Remainder
<1>5. CASE x < 0 /\ y < 0
  <2>1. -x = ((-y) * q) + r /\ Quotient(x, y) = q  BY <1>2, <1>3, <1>5 DEF Abs
  <2> QED  BY <1>3, <1>4, <1>5, <2>1
<1>6. CASE x < 0 /\ ~(y < 0)
  <2>1. -x = (y * q) + r /\ Quotient(x, y) = -q  BY <1>2, <1>3, <1>6 DEF Abs
  <2> QED  BY <1>3, <1>4, <1>6, <2>1
<1>7. CASE ~(x < 0) /\ y < 0
  <2>1. x = ((-y) * q) + r /\ Quotient(x, y) = -q  BY <1>2, <1>3, <1>7 DEF Abs
  <2> QED  BY <1>3, <1>4, <1>7, <2>1
<1>8. CASE ~(x < 0) /\ ~(y < 0)
  <2>1. x = (y * q) + r /\ Quotient(x, y) = q  BY <1>2, <1>3, <1>8 DEF Abs
  <2> QED  BY <1>3, <1>4, <1>8, <2>1
<1> QED  BY <1>5, <1>6, <1>7, <1>8

-----------------------------------------------------------------------------
(* The inductive invariant.                                                *)

(* HoldsOperation: the divider's registers are those captured of j, all    *)
(* but the two that the loop works on.                                     *)
HoldsOperation(d, j) ==
  /\ d.divisor = Magnitude(j, j.b) /\ d.dividend = j.a
  /\ d.negQuo <=> Negative(j, j.a) # Negative(j, j.b)
  /\ d.negRem <=> Negative(j, j.a)
  /\ d.byZero <=> j.b = 0
  /\ d.wantRem <=> Bit(j.op, 1)

(* Captured: while an operation is active, the count is within its time    *)
(* and the datapath holds what it captured of that operation.              *)
Captured ==
  active =>
    /\ isDiv <=> OpIsDiv(job.op)
    /\ cnt \in 1 .. Target
    /\ ~isDiv => mul = MulCapture(job)
    /\ isDiv => HoldsOperation(div, job)

(* LoopInv: the loop has established Divided as far as the count says.     *)
LoopInv ==
  active /\ isDiv /\ ~div.byZero =>
    Divided(Magnitude(job, job.a), div.divisor, div.rem, div.quo,
            Pow2[cnt - 1], Pow2[Width - (cnt - 1)])

UnitInv == TypeOK /\ Captured /\ LoopInv

LEMMA CaptureHolds ==
  ASSUME NEW j \in Jobs
  PROVE  /\ HoldsOperation(DivCapture(j), j)
         /\ DivCapture(j).rem = 0 /\ DivCapture(j).quo = Magnitude(j, j.a)
BY DEF DivCapture, RemSign, HoldsOperation

(* CaptureTypes: what is captured fits the registers.                      *)
LEMMA CaptureTypes ==
  ASSUME NEW j \in Jobs
  PROVE  /\ MulCapture(j) \in [a : -Pow2[Width] .. Pow2[Width] - 1,
                               b : -Pow2[Width] .. Pow2[Width] - 1, hi : BOOLEAN]
         /\ DivCapture(j) \in [divisor : Word, rem : Word, quo : Word,
                               dividend : Word, negQuo : BOOLEAN,
                               negRem : BOOLEAN, byZero : BOOLEAN,
                               wantRem : BOOLEAN]
<1>1. j.a \in Word /\ j.b \in Word /\ j.op \in 0 .. 7  BY DEF Jobs, Ops
<1>2. 0 \in Word  BY WordSizes DEF Word
<1>3. Magnitude(j, j.a) \in Word /\ Magnitude(j, j.b) \in Word
  BY <1>1, MagnitudeIsAbs
<1>4. ASSUME NEW x \in Word, NEW s \in BOOLEAN
      PROVE  Extend(s, x) \in -Pow2[Width] .. Pow2[Width] - 1
  <2>1. x \in -Pow2[Width] .. Pow2[Width] - 1  BY WordSizes DEF Word
  <2> QED  BY <2>1, SignedRange DEF Extend
<1>5. Extend(j.op % 4 # 3, j.a) \in -Pow2[Width] .. Pow2[Width] - 1
  BY <1>1, <1>4
<1>6. Extend(~Bit(j.op, 1), j.b) \in -Pow2[Width] .. Pow2[Width] - 1
  BY <1>1, <1>4
<1>7. MulCapture(j) \in [a : -Pow2[Width] .. Pow2[Width] - 1,
                        b : -Pow2[Width] .. Pow2[Width] - 1, hi : BOOLEAN]
  BY <1>5, <1>6 DEF MulCapture
<1>8. /\ Negative(j, j.a) \in BOOLEAN /\ RemSign(j) \in BOOLEAN
      /\ (Negative(j, j.a) # Negative(j, j.b)) \in BOOLEAN
      /\ Bit(j.op, 1) \in BOOLEAN /\ (j.b = 0) \in BOOLEAN
  BY DEF Negative, RemSign, Bit
<1> QED  BY <1>1, <1>2, <1>3, <1>7, <1>8 DEF DivCapture

(* RestoredFields: an iteration changes the two registers the loop works   *)
(* on, and keeps them words.                                               *)
LEMMA RestoredFields ==
  ASSUME TypeOK
  PROVE  LET rem == (IF Fits THEN Shifted - div.divisor ELSE Shifted) % Pow2[Width]
             quo == (2 * div.quo + (IF Fits THEN 1 ELSE 0)) % Pow2[Width]
         IN  /\ rem \in Word /\ quo \in Word
             /\ Restored = [div EXCEPT !.rem = rem, !.quo = quo]
<1>1. div.rem \in Int /\ div.quo \in Int /\ div.divisor \in Int
  BY WordSizes DEF TypeOK, Word
<1>2. Pow2[Width] \in Nat \ {0} /\ Pow2[Width - 1] \in Nat \ {0}  BY WordSizes
<1>3. Shifted \in Int  BY <1>1, <1>2 DEF Shifted, TopBit
<1>4. ASSUME NEW x \in Int PROVE x % Pow2[Width] \in Word
  BY <1>2 DEF Word
<1>5. (IF Fits THEN Shifted - div.divisor ELSE Shifted) \in Int  BY <1>1, <1>3
<1>6. (2 * div.quo + (IF Fits THEN 1 ELSE 0)) \in Int  BY <1>1
<1>7. Restored = [div EXCEPT
        !.rem = (IF Fits THEN Shifted - div.divisor ELSE Shifted) % Pow2[Width],
        !.quo = (2 * div.quo + (IF Fits THEN 1 ELSE 0)) % Pow2[Width]]
  BY DEF Restored, TypeOK
<1> QED  BY <1>4, <1>5, <1>6, <1>7

\* The fields of the divider's registers.
DivRegs == [divisor : Word, rem : Word, quo : Word, dividend : Word,
            negQuo : BOOLEAN, negRem : BOOLEAN, byZero : BOOLEAN,
            wantRem : BOOLEAN]

(* DatapathTypes: an edge keeps the registers' widths.                     *)
LEMMA DatapathTypes ==
  ASSUME TypeOK, DatapathKeeps
  PROVE  /\ mul' \in [a : -Pow2[Width] .. Pow2[Width] - 1,
                      b : -Pow2[Width] .. Pow2[Width] - 1, hi : BOOLEAN]
         /\ div' \in DivRegs
<1>1. div \in DivRegs  BY DEF TypeOK, DivRegs
<1>2. PICK rem, quo \in Word : Restored = [div EXCEPT !.rem = rem, !.quo = quo]
  BY RestoredFields
<1>3. Restored \in DivRegs
  <2>1. [div EXCEPT !.rem = rem] \in DivRegs  BY <1>1 DEF DivRegs
  <2> QED  BY <1>2, <2>1 DEF DivRegs
<1> QED  BY <1>1, <1>3 DEF DatapathKeeps, TypeOK

(* LoopStep: an iteration of the loop, from the invariant.                 *)
LEMMA LoopStep ==
  ASSUME UnitInv, Iterate, ~div.byZero
  PROVE  /\ Shifted < Pow2[Width]
         /\ Divided(Magnitude(job, job.a), div.divisor, Restored.rem, Restored.quo,
                    Pow2[cnt], Pow2[Width - cnt])
<1> DEFINE k == cnt - 1
           K == Pow2[k]
           n == Pow2[Width - (k + 1)]
           M == Pow2[Width]
           A == Magnitude(job, job.a)
<1>1. /\ active /\ isDiv /\ cnt \in 1 .. Width
      /\ job \in Jobs /\ job.a \in Word
  <2>1. active /\ isDiv /\ cnt <= Width  BY DEF Iterate
  <2>2. cnt \in 1 .. Target  BY <2>1 DEF UnitInv, Captured
  <2>3. Target \in Int  BY <2>1, OccupancyAssumption, WordSizes DEF Target
  <2> QED  BY <2>1, <2>2, <2>3 DEF UnitInv, TypeOK, Jobs
<1>2. /\ A \in Word /\ div.divisor \in Word /\ div.rem \in Word
      /\ div.quo \in Word
  BY <1>1, MagnitudeIsAbs DEF UnitInv, TypeOK
<1>3. k \in Nat /\ k < Width /\ k + 1 = cnt  BY <1>1, WordSizes
<1> HIDE DEF k
<1>4. /\ K \in Nat \ {0} /\ Pow2[cnt] = 2 * K
      /\ n \in Nat \ {0} /\ Pow2[Width - k] = 2 * n
      /\ Pow2[Width - 1] = K * n
  BY <1>3, StepSizes
<1>5. M = 2 * (K * n)  BY <1>4, WordSizes
<1>6. Divided(A, div.divisor, div.rem, div.quo, K, 2 * n)
  <2>1. Divided(A, div.divisor, div.rem, div.quo, K, Pow2[Width - k])
    BY <1>1 DEF UnitInv, LoopInv, k
  <2> QED  BY <1>4, <2>1
<1>7. Shifted = (2 * div.rem) + (div.quo \div (K * n))
  BY <1>4 DEF Shifted, TopBit
<1>8. Steps(M, K, n, div.divisor, div.rem, div.quo,
            Shifted, Restored.rem, Restored.quo)
  <2>1. div \in DivRegs  BY DEF UnitInv, TypeOK, DivRegs
  <2>2. Fits <=> Shifted >= div.divisor  BY DEF Fits
  <2>3. /\ Restored.rem = (IF Fits THEN Shifted - div.divisor ELSE Shifted) % M
        /\ Restored.quo = ((2 * div.quo) + (IF Fits THEN 1 ELSE 0)) % M
    BY <2>1 DEF Restored, DivRegs
  <2> HIDE DEF M, K, n
  <2> QED  BY <1>5, <1>7, <2>2, <2>3 DEF Steps
<1>9. /\ A \in Nat /\ A < M /\ div.quo \in Nat /\ div.quo < M
      /\ div.divisor \in Nat /\ div.divisor < M /\ div.rem \in Nat
  BY <1>2, WordSizes DEF Word
<1> HIDE DEF A, K, n, M
<1>10. /\ Shifted < M
       /\ Divided(A, div.divisor, Restored.rem, Restored.quo, 2 * K, n)
  BY <1>4, <1>6, <1>8, <1>9, RestoringStep
<1>11. n = Pow2[Width - cnt]  BY <1>3 DEF n
<1> QED  BY <1>4, <1>10, <1>11 DEF A, M

(* StartStep: a start establishes the invariant: no quotient bit is found  *)
(* and all of the dividend is still to come.                               *)
LEMMA StartStep ==
  ASSUME UnitInv, NEW j \in Jobs, Start(j)
  PROVE  UnitInv'
<1>1. /\ active' = TRUE /\ cnt' = 1 /\ job' = j /\ isDiv' = OpIsDiv(j.op)
      /\ mul' = MulCapture(j) /\ div' = DivCapture(j)
  BY DEF Start
<1>0. OpIsDiv(j.op) \in BOOLEAN  BY DEF OpIsDiv
<1>2. Target' \in Nat /\ 1 <= Target' /\ 1 \in 0 .. DivCycles - 1
  BY OccupancyAssumption, WordSizes DEF Target
<1>3. TypeOK'  BY <1>0, <1>1, <1>2, CaptureTypes DEF TypeOK
<1>4. j.a \in Word /\ j.b \in Word  BY DEF Jobs
<1>5. /\ 0 \in Word /\ Magnitude(j, j.a) \in Word /\ Magnitude(j, j.b) \in Word
      /\ (Magnitude(j, j.b) = 0 <=> j.b = 0)
  BY <1>4, MagnitudeIsAbs, WordSizes DEF Word
<1>7. Captured'
  <2>1. HoldsOperation(div', j)  BY <1>1, CaptureHolds
  <2>2. cnt' \in 1 .. Target'  BY <1>1, <1>2
  <2> QED  BY <1>1, <2>1, <2>2 DEF Captured
<1>8. ASSUME j.b # 0
      PROVE  Divided(Magnitude(j, j.a), Magnitude(j, j.b), 0, Magnitude(j, j.a),
                     Pow2[0], Pow2[Width])
  <2> DEFINE A == Magnitude(j, j.a)
             D == Magnitude(j, j.b)
             M == Pow2[Width]
  <2>1. A \in 0 .. M - 1 /\ M \in Nat \ {0} /\ D \in Nat /\ 0 < D
    BY <1>5, <1>8, WordSizes DEF Word
  <2> HIDE DEF A, D, M
  <2>2. A \div 1 = A /\ A % 1 = 0 /\ 0 + (0 * D) = 0  BY <2>1
  <2>3. A % M = A /\ A \div M = 0
    <3>1. Divides(M, A, 0, A)  BY <2>1 DEF Divides
    <3> QED  BY <3>1, EuclidUnique
  <2>4. Divided(A, D, 0, A, 1, M)  BY <2>1, <2>2, <2>3 DEF Divided
  <2> QED  BY <2>4, Pow2Rec DEF A, D, M
<1>9. LoopInv'
  <2>1. /\ div'.divisor = Magnitude(j, j.b) /\ div'.rem = 0
        /\ div'.quo = Magnitude(j, j.a) /\ (div'.byZero <=> j.b = 0)
    BY <1>1, CaptureHolds DEF HoldsOperation
  <2>2. cnt' - 1 = 0 /\ Width - (cnt' - 1) = Width  BY <1>1, WordSizes
  <2> QED  BY <1>1, <1>8, <2>1, <2>2 DEF LoopInv
<1> QED  BY <1>3, <1>7, <1>9 DEF UnitInv

(* IterationKeeps: an edge of an operation under way keeps what was        *)
(* captured and takes the loop one step on.                                *)
LEMMA IterationKeeps ==
  ASSUME UnitInv, active, DatapathKeeps, cnt < Target
  PROVE  /\ ~isDiv => mul' = MulCapture(job)
         /\ isDiv => HoldsOperation(div', job)
         /\ isDiv /\ ~div'.byZero =>
              Divided(Magnitude(job, job.a), div'.divisor, div'.rem, div'.quo,
                      Pow2[cnt], Pow2[Width - cnt])
<1>1. ~isDiv => mul' = MulCapture(job)
  BY DEF UnitInv, Captured, DatapathKeeps
<1>2. ASSUME isDiv PROVE Iterate /\ div' = Restored
  <2>1. cnt <= Width
    BY <1>2, OccupancyAssumption, WordSizes DEF Target, UnitInv, TypeOK
  <2> QED  BY <1>2, <2>1 DEF Iterate, DatapathKeeps
<1>3. ASSUME isDiv
      PROVE  /\ HoldsOperation(div', job)
             /\ div'.byZero = div.byZero /\ div'.divisor = div.divisor
  <2>1. HoldsOperation(div, job)  BY <1>3 DEF UnitInv, Captured
  <2>2. div \in DivRegs  BY DEF UnitInv, TypeOK, DivRegs
  <2>3. /\ Restored.divisor = div.divisor /\ Restored.dividend = div.dividend
        /\ Restored.negQuo = div.negQuo /\ Restored.negRem = div.negRem
        /\ Restored.byZero = div.byZero /\ Restored.wantRem = div.wantRem
    BY <2>2 DEF Restored, DivRegs
  <2> QED  BY <1>2, <1>3, <2>1, <2>3 DEF HoldsOperation
<1>4. ASSUME isDiv, ~div'.byZero
      PROVE  Divided(Magnitude(job, job.a), div'.divisor, div'.rem, div'.quo,
                     Pow2[cnt], Pow2[Width - cnt])
  <2>1. ~div.byZero /\ div'.divisor = div.divisor  BY <1>3, <1>4
  <2> QED  BY <1>2, <1>4, <2>1, LoopStep
<1> QED  BY <1>1, <1>3, <1>4

(* CountStep: the count moves on and stays within the operation's time, so *)
(* its six bits do not wrap.                                               *)
LEMMA CountStep ==
  ASSUME UnitInv, Count
  PROVE  UnitInv' /\ cnt' = cnt + 1 /\ cnt < Target
<1>1. active /\ cnt # Target  BY DEF Count, Ready
<1>2. cnt \in 1 .. Target /\ Target \in 1 .. DivCycles - 1 /\ DivCycles - 1 < 64
  <2>1. Target \in 1 .. DivCycles - 1 /\ DivCycles - 1 < 64
    BY OccupancyAssumption, WidthAssumption DEF Target
  <2> QED  BY <1>1, <2>1 DEF UnitInv, Captured
<1>3. cnt < Target /\ cnt' = cnt + 1
  <2>1. cnt < Target  BY <1>1, <1>2
  <2>2. cnt + 1 \in 0 .. 64 - 1  BY <1>2, <2>1, OccupancyAssumption, WordSizes
  <2>3. (cnt + 1) % 64 = cnt + 1  BY <2>2, SmallRemainder
  <2> QED  BY <2>1, <2>3 DEF Count
<1>4. /\ active' = active /\ isDiv' = isDiv /\ job' = job /\ DatapathKeeps
  BY DEF Count
<1>5. Target' = Target  BY <1>4 DEF Target
<1>6. cnt' \in 1 .. Target' /\ cnt' \in 0 .. DivCycles - 1
  BY <1>2, <1>3, <1>5, OccupancyAssumption, WordSizes
<1>7. TypeOK'
  <2>1. mul' \in [a : -Pow2[Width] .. Pow2[Width] - 1,
                  b : -Pow2[Width] .. Pow2[Width] - 1, hi : BOOLEAN]
        /\ div' \in DivRegs
    BY <1>4, DatapathTypes DEF UnitInv
  <2> QED  BY <1>4, <1>6, <2>1 DEF UnitInv, TypeOK, DivRegs
<1>8. Captured'
  <2>1. isDiv <=> OpIsDiv(job.op)  BY <1>1 DEF UnitInv, Captured
  <2> QED  BY <1>1, <1>3, <1>4, <1>6, <2>1, IterationKeeps DEF Captured
<1>9. LoopInv'
  <2>1. cnt' - 1 = cnt  BY <1>2, <1>3
  <2> QED  BY <1>1, <1>3, <1>4, <2>1, IterationKeeps DEF LoopInv
<1> QED  BY <1>3, <1>7, <1>8, <1>9 DEF UnitInv

(* IdleStep: with no operation active, only the types are left to keep.    *)
LEMMA IdleStep ==
  ASSUME UnitInv, Done \/ NoReq \/ Reset
  PROVE  UnitInv' /\ ~active'
<1>1. active' = FALSE /\ job' = job  BY DEF Done, NoReq, Reset
<1>2. /\ cnt' \in 0 .. DivCycles - 1 /\ isDiv' \in BOOLEAN
  <2>1. 0 \in 0 .. DivCycles - 1  BY OccupancyAssumption, WordSizes
  <2>2. CASE UNCHANGED <<cnt, isDiv>>  BY <2>2 DEF UnitInv, TypeOK
  <2>3. CASE cnt' = 0 /\ isDiv' = FALSE  BY <2>1, <2>3
  <2> QED  BY <2>2, <2>3 DEF Done, NoReq, Reset
<1>3. /\ mul' \in [a : -Pow2[Width] .. Pow2[Width] - 1,
                   b : -Pow2[Width] .. Pow2[Width] - 1, hi : BOOLEAN]
      /\ div' \in DivRegs
  <2>1. CASE DatapathKeeps  BY <2>1, DatapathTypes DEF UnitInv
  <2>2. CASE UNCHANGED <<mul, div>>
    BY <2>2 DEF UnitInv, TypeOK, DivRegs
  <2> QED  BY <2>1, <2>2 DEF Done, NoReq, Reset
<1>4. TypeOK'  BY <1>1, <1>2, <1>3 DEF UnitInv, TypeOK, DivRegs
<1> QED  BY <1>1, <1>4 DEF UnitInv, Captured, LoopInv

LEMMA UnitInvInit == Init => UnitInv
<1> SUFFICES ASSUME Init PROVE UnitInv  OBVIOUS
<1>1. 0 \in Word /\ 0 \in -Pow2[Width] .. Pow2[Width] - 1 /\ 0 \in 0 .. DivCycles - 1
  BY WordSizes, OccupancyAssumption DEF Word
<1>2. job \in Jobs  BY <1>1 DEF Init, ZeroJob, Jobs, Ops
<1>3. TypeOK  BY <1>1, <1>2 DEF Init, TypeOK
<1> QED  BY <1>3 DEF Init, UnitInv, Captured, LoopInv

LEMMA UnitInvStep == UnitInv /\ [Next]_vars => UnitInv'
<1> SUFFICES ASSUME UnitInv, [Next]_vars PROVE UnitInv'  OBVIOUS
<1>1. ASSUME NEW j \in Jobs, Start(j) PROVE UnitInv'  BY <1>1, StartStep
<1>2. CASE Count  BY <1>2, CountStep
<1>3. CASE Done \/ NoReq \/ Reset  BY <1>3, IdleStep
<1>4. CASE UNCHANGED vars
  BY <1>4 DEF vars, UnitInv, TypeOK, Captured, LoopInv, Target
<1> QED  BY <1>1, <1>2, <1>3, <1>4 DEF Next

(* DividerLoop: the divider's loop invariant, at every width.              *)
THEOREM DividerLoop == Spec => []LoopInvariant
<1>1. UnitInv => LoopInvariant
  <2> SUFFICES ASSUME UnitInv, active, isDiv, ~div.byZero
      PROVE  LET k == cnt - 1
                 dividend == Magnitude(job, job.a)
                 found == div.quo % Pow2[k]
             IN  /\ div.quo \div Pow2[k] = dividend % Pow2[Width - k]
                 /\ div.rem + found * div.divisor = dividend \div Pow2[Width - k]
                 /\ div.rem < div.divisor
                 /\ Iterate => Shifted < Pow2[Width]
    BY DEF UnitInv, LoopInvariant
  <2> QED  BY LoopStep DEF UnitInv, LoopInv, Divided
<1> QED  BY <1>1, UnitInvInit, UnitInvStep, PTL DEF Spec

-----------------------------------------------------------------------------
(* The result, and the refinement.                                         *)

(* LoopEnds: on the done cycle of a division that is not by zero the       *)
(* registers hold the quotient and remainder of the magnitudes.            *)
LEMMA LoopEnds ==
  ASSUME UnitInv, Ready, isDiv, ~div.byZero
  PROVE  /\ Divides(Magnitude(job, job.b), Magnitude(job, job.a), div.quo, div.rem)
         /\ div.quo \in Word /\ div.rem \in Word
<1> DEFINE A == Magnitude(job, job.a)
           D == Magnitude(job, job.b)
           M == Pow2[Width]
<1>1. active /\ cnt - 1 = Width /\ Width - (cnt - 1) = 0
  BY OccupancyAssumption, WordSizes DEF Ready, Target
<1>2. Divided(A, div.divisor, div.rem, div.quo, M, 1) /\ div.divisor = D
  <2>1. div.divisor = D  BY <1>1 DEF UnitInv, Captured, HoldsOperation
  <2>2. Divided(A, div.divisor, div.rem, div.quo, M, Pow2[0])
    BY <1>1 DEF UnitInv, LoopInv
  <2> QED  BY <2>1, <2>2, Pow2Rec
<1>3. job \in Jobs /\ job.a \in Word /\ job.b \in Word  BY DEF UnitInv, TypeOK, Jobs
<1>4. A \in Word /\ D \in Word  BY <1>3, MagnitudeIsAbs
<1>5. div.quo \in Word /\ div.rem \in Word  BY DEF UnitInv, TypeOK
<1>6. /\ A \in Nat /\ D \in Nat /\ M \in Nat \ {0}
      /\ div.quo \in 0 .. M - 1 /\ div.rem \in Nat
  BY <1>4, <1>5, WordSizes DEF Word
<1> HIDE DEF A, D, M
<1>7. div.quo % M = div.quo  BY <1>6, SmallRemainder
<1>8. A \div 1 = A  BY <1>6
<1>9. div.rem + (div.quo * D) = A /\ div.rem < D
  BY <1>2, <1>7, <1>8 DEF Divided
<1>10. D \in Nat \ {0} /\ div.rem \in 0 .. D - 1  BY <1>6, <1>9
<1>11. A = (D * div.quo) + div.rem
  <2>1. div.quo \in Nat /\ D * div.quo = div.quo * D /\ D * div.quo \in Nat
    BY <1>6
  <2> QED  BY <1>6, <1>9, <2>1
<1>12. Divides(D, A, div.quo, div.rem)
  <2>1. div.quo \in Nat  BY <1>6
  <2> QED  BY <1>10, <1>11, <2>1 DEF Divides
<1> QED  BY <1>5, <1>12 DEF A, D

(* DivResultCorrect: the sign fix-up gives the ISA's value, division by    *)
(* zero and the overflow of the most negative number by -1 included.       *)
LEMMA DivResultCorrect ==
  ASSUME UnitInv, Ready, isDiv
  PROVE  DivResult = Reference(job)
<1> DEFINE x == Operand(job, job.a)
           y == Operand(job, job.b)
<1>1. /\ job \in Jobs /\ job.a \in Word /\ job.b \in Word
      /\ OpIsDiv(job.op) /\ HoldsOperation(div, job)
  BY DEF UnitInv, TypeOK, Jobs, Ready, Captured
<1>2. Reference(job) = IF Bit(job.op, 1) THEN Wrap(Remainder(x, y))
                                         ELSE Wrap(Quotient(x, y))
  BY <1>1, ReferenceDiv
<1>3. /\ Magnitude(job, job.a) = Abs(x) /\ Magnitude(job, job.b) = Abs(y)
      /\ Negative(job, job.a) <=> x < 0
      /\ Negative(job, job.b) <=> y < 0
      /\ Magnitude(job, job.b) = 0 <=> job.b = 0
  BY <1>1, MagnitudeIsAbs
<1>4. x \in Int /\ y \in Int  BY <1>1, SignedRange, WordSizes DEF Operand
<1>5. y = 0 <=> job.b = 0
  <2>1. Abs(y) = 0 <=> y = 0  BY <1>4 DEF Abs
  <2> QED  BY <1>3, <2>1
<1>6. Wrap(x) = job.a  BY <1>1, WrapWord DEF Operand
<1> HIDE DEF x, y
<1>7. /\ div.dividend = job.a
      /\ div.negQuo <=> (x < 0) # (y < 0)
      /\ div.negRem <=> x < 0
      /\ div.byZero <=> y = 0
      /\ div.wantRem <=> Bit(job.op, 1)
  <2> DEFINE na == Negative(job, job.a)
             nb == Negative(job, job.b)
  <2>1. na \in BOOLEAN /\ nb \in BOOLEAN  BY DEF Negative
  <2>2. /\ div.dividend = job.a /\ (div.negQuo <=> na # nb) /\ (div.negRem <=> na)
        /\ (div.byZero <=> job.b = 0) /\ (div.wantRem <=> Bit(job.op, 1))
    BY <1>1 DEF HoldsOperation
  <2>3. (na <=> x < 0) /\ (nb <=> y < 0)  BY <1>3
  <2> HIDE DEF na, nb
  <2>4. (na # nb) <=> (x < 0) # (y < 0)  BY <2>1, <2>3
  <2> QED  BY <1>5, <2>2, <2>3, <2>4
<1>8. CASE div.byZero
  <2>1. Quotient(x, y) = -1 /\ Remainder(x, y) = x
    BY <1>7, <1>8 DEF Quotient, Remainder
  <2>2. Wrap(-1) = Pow2[Width] - 1  BY WordSizes DEF Wrap
  <2>3. CASE div.wantRem
    BY <1>2, <1>6, <1>7, <1>8, <2>1, <2>3 DEF DivResult
  <2>4. CASE ~div.wantRem
    BY <1>2, <1>7, <1>8, <2>1, <2>2, <2>4 DEF DivResult
  <2> QED  BY <2>3, <2>4
<1>9. CASE ~div.byZero
  <2> DEFINE q == div.quo
             r == div.rem
  <2>1. Divides(Abs(y), Abs(x), q, r) /\ q \in Word /\ r \in Word
    BY <1>3, <1>9, LoopEnds
  <2>2. q \in Nat /\ r \in Nat  BY <2>1 DEF Divides, Word
  <2> HIDE DEF q, r
  <2>3. /\ Quotient(x, y) = IF (x < 0) # (y < 0) THEN -q ELSE q
        /\ Remainder(x, y) = IF x < 0 THEN -r ELSE r
    BY <1>4, <1>7, <1>9, <2>1, <2>2, SignedDivision
  <2>4. /\ Wrap(q) = q /\ Wrap(-q) = Negate(q)
        /\ Wrap(r) = r /\ Wrap(-r) = Negate(r)
    BY <2>1, WrapWord
  <2>5. CASE div.wantRem
    <3>1. DivResult = Fix(div.negRem, r)  BY <1>9, <2>5 DEF DivResult, r
    <3>2. Wrap(Remainder(x, y)) = Fix(div.negRem, r)
      BY <1>7, <2>3, <2>4 DEF Fix
    <3> QED  BY <1>2, <1>7, <2>5, <3>1, <3>2
  <2>6. CASE ~div.wantRem
    <3>1. DivResult = Fix(div.negQuo, q)  BY <1>9, <2>6 DEF DivResult, q
    <3>2. Wrap(Quotient(x, y)) = Fix(div.negQuo, q)
      BY <1>7, <2>3, <2>4 DEF Fix
    <3> QED  BY <1>2, <1>7, <2>6, <3>1, <3>2
  <2> QED  BY <2>5, <2>6
<1> QED  BY <1>8, <1>9

(* ResultCorrect: on the done cycle the unit presents the ISA's value.     *)
LEMMA ResultCorrect == UnitInv /\ Ready => Result = Reference(job)
<1> SUFFICES ASSUME UnitInv, Ready PROVE Result = Reference(job)  OBVIOUS
<1>1. CASE isDiv  BY <1>1, DivResultCorrect DEF Result
<1>2. CASE ~isDiv
  <2>1. job \in Jobs /\ ~OpIsDiv(job.op) /\ mul = MulCapture(job)
    BY <1>2 DEF UnitInv, TypeOK, Ready, Captured
  <2> QED  BY <1>2, <2>1, ReferenceMul DEF Result
<1> QED  BY <1>1, <1>2

LEMMA ResultCorrectNext == UnitInv' /\ Ready' => Result' = Reference(job')
<1>1. (UnitInv /\ Ready => Result = Reference(job))'  BY ResultCorrect, PTL
<1> QED  BY <1>1 DEF Reference

(* SameIsa: the abstract unit's operations are the reference's.            *)
LEMMA SameIsa ==
  /\ Promise!Jobs = Jobs
  /\ \A j : Promise!Reference(j) = Reference(j)
  /\ \A op : Promise!Latency(op) = IF OpIsDiv(op) THEN DivCycles ELSE MulCycles
BY DEF Promise!Jobs, Jobs, Promise!Ops, Ops, Promise!Word, Word, Promise!Pow2, Pow2,
       Promise!Reference, Reference, Promise!Signed, Signed, Promise!Wrap, Wrap,
       Promise!Quotient, Quotient, Promise!Remainder, Remainder, Promise!Abs, Abs,
       Promise!Latency, Promise!OpIsDiv, OpIsDiv

(* RefinementStep: a start is a start of the abstract unit, the done cycle *)
(* a delivery, any other edge of an operation a wait, and a request that   *)
(* is withdrawn, or a reset, an abandonment; the rest are stutters.        *)
LEMMA RefinementStep == UnitInv /\ [Next]_vars => [Promise!Next]_(Promise!vars)
<1> SUFFICES ASSUME UnitInv, [Next]_vars
             PROVE  Promise!Next \/ UNCHANGED Promise!vars
  OBVIOUS
<1> DEFINE left == IF active THEN Target - cnt + 1 ELSE 0
           value == IF Ready THEN Result ELSE -1
<1>1. UnitInv'  BY UnitInvStep
<1>2. /\ active => left \in Nat \ {0} /\ (left = 1 <=> Ready)
      /\ ~active => left = 0 /\ ~Ready
      /\ Ready => value = Reference(job)
      /\ ~Ready => value = -1
  <2>1. active => cnt \in 1 .. Target /\ Target \in Int
    BY OccupancyAssumption, WordSizes DEF UnitInv, Captured, Target
  <2> QED  BY <2>1, ResultCorrect DEF Ready
<1>3. /\ active' => left' \in Nat \ {0} /\ (left' = 1 <=> Ready')
      /\ ~active' => left' = 0 /\ ~Ready'
      /\ Ready' => value' = Reference(job')
      /\ ~Ready' => value' = -1
  <2>1. active' => cnt' \in 1 .. Target' /\ Target' \in Int
    BY <1>1, OccupancyAssumption, WordSizes DEF UnitInv, Captured, Target
  <2>2. Ready' => Result' = Reference(job')  BY <1>1, ResultCorrectNext
  <2> QED  BY <2>1, <2>2 DEF Ready
<1>4. value' = Promise!Presented(left', job')
  BY <1>3, SameIsa DEF Promise!Presented, Promise!NoValue
<1> HIDE DEF left, value
<1>5. ASSUME NEW j \in Jobs, Start(j) PROVE Promise!Start
  <2>1. ~active /\ active' /\ job' = j /\ cnt' = 1 /\ isDiv' = OpIsDiv(j.op)
    BY <1>5 DEF Start
  <2>2. left = 0  BY <1>2, <2>1
  <2>3. left' = Target'  BY <2>1, OccupancyAssumption, WordSizes DEF left, Target
  <2>4. Target' = Promise!Latency(j.op) - 1
    BY <2>1, SameIsa DEF Target
  <2> QED  BY <1>4, <1>5, <2>1, <2>2, <2>3, <2>4, SameIsa DEF Promise!Start, left, value
<1>6. ASSUME Done \/ NoReq \/ Reset PROVE Promise!Next \/ UNCHANGED Promise!vars
  <2>1. ~active' /\ job' = job  BY <1>6 DEF Done, NoReq, Reset
  <2>2. left' = 0 /\ value' = -1  BY <1>3, <2>1
  <2>3. CASE ~active
    <3>1. left = 0 /\ value = -1  BY <1>2, <2>3
    <3> QED  BY <2>1, <2>2, <3>1 DEF Promise!vars, left, value
  <2>4. CASE active
    <3>1. left > 0  BY <1>2, <2>4
    <3>2. Promise!Abandon
      BY <2>1, <2>2, <3>1 DEF Promise!Abandon, Promise!NoValue, left, value
    <3> QED  BY <3>2 DEF Promise!Next
  <2> QED  BY <2>3, <2>4
<1>7. ASSUME Count PROVE Promise!Wait
  <2>1. active /\ ~Ready /\ active' /\ job' = job /\ isDiv' = isDiv
    BY <1>7 DEF Count
  <2>2. cnt' = cnt + 1 /\ cnt \in Int /\ Target \in Int /\ Target' = Target
    BY <1>7, <2>1, CountStep, OccupancyAssumption, WordSizes DEF Target, UnitInv, TypeOK
  <2>3. left' = left - 1  BY <2>1, <2>2 DEF left
  <2>4. left > 1  BY <1>2, <2>1
  <2> QED  BY <1>4, <2>1, <2>3, <2>4 DEF Promise!Wait, left, value
<1>8. CASE UNCHANGED vars
  BY <1>8 DEF vars, Promise!vars, Ready, Result, Target, DivResult, MulResult, Product
<1> QED  BY <1>5, <1>6, <1>7, <1>8 DEF Next, Promise!Next

(* UnitImplementsIsa: for every width the unit presents the ISA's value a  *)
(* fixed number of cycles after the start.                                 *)
THEOREM UnitImplementsIsa == Spec => ImplementsUnit
<1>1. Init => Promise!Init
  BY UnitInvInit, SameIsa DEF Init, Promise!Init, Promise!NoValue, UnitInv, TypeOK, Ready
<1> QED  BY <1>1, UnitInvInit, UnitInvStep, RefinementStep, PTL
         DEF Spec, ImplementsUnit, Promise!Spec
=============================================================================
