---------------------------- MODULE IssFpProofs ----------------------------
(***************************************************************************)
(* The data path of the reference interpreter, for every width of a byte,   *)
(* every size of memory and register files and every byte order.            *)
(***************************************************************************)
EXTENDS IssFp, FiniteSetTheorems, FunctionTheorems, WellFoundedInduction, TLAPS

(* Induction: a set of naturals has a least element. *)

LEMMA LeastOf ==
    ASSUME NEW R, NEW S, IsWellFoundedOn(R, S), NEW T, T \subseteq S, T # {}
    PROVE  S = Nat /\ (\A x, y \in Nat : x < y => <<x, y>> \in R) => \E n \in T : \A m \in T : n <= m
<1>1. PICK x \in T : \A y \in T : ~ (<<y, x>> \in R)
  BY WFMin, SMTT(60)
<1> HAVE S = Nat /\ \A y, z \in Nat : y < z => <<y, z>> \in R
<1>2. \A y \in T : ~(y < x)
  BY <1>1, Zenon
<1> QED
  BY <1>2

LEMMA LessRel == \A x, y \in Nat : x < y => <<x, y>> \in OpToRel(<, Nat)
BY DEF OpToRel

LEMMA LeastNat ==
    ASSUME NEW T, T \subseteq Nat, T # {} PROVE \E n \in T : \A m \in T : n <= m
BY NatLessThanWellFounded, LessRel, LeastOf, Zenon

\* A set of naturals closed under successor from 0 holds them all.
LEMMA InductiveSet ==
    ASSUME NEW T, 0 \in T, \A n \in Nat : n \in T => n + 1 \in T PROVE \A n \in Nat : n \in T
<1> DEFINE U == {n \in Nat : n \notin T}
<1> SUFFICES ASSUME U # {} PROVE FALSE
  OBVIOUS
<1>1. PICK n \in U : \A m \in U : n <= m
  BY LeastNat
<1>2. n # 0 /\ n \in Nat /\ n \notin T
  OBVIOUS
<1>3. n - 1 \in Nat /\ n - 1 \notin U
  BY <1>1, <1>2
<1>4. n - 1 \in T
  BY <1>3
<1> QED
  BY <1>2, <1>3, <1>4
-----------------------------------------------------------------------------
(* Powers of two, by counting subsets. *)

LEMMA PowCard == ASSUME NEW S, IsFiniteSet(S) PROVE Cardinality(SUBSET S) = 2^Cardinality(S)
BY FS_SUBSET

LEMMA PowPos == \A n \in Nat : 2^n \in Nat /\ 2^n > 0
<1> SUFFICES ASSUME NEW n \in Nat PROVE 2^n \in Nat /\ 2^n > 0
  OBVIOUS
<1>1. IsFiniteSet(1..n) /\ Cardinality(1..n) = n
  BY FS_Interval
<1>2. IsFiniteSet(SUBSET (1..n)) /\ Cardinality(SUBSET (1..n)) = 2^n
  BY <1>1, FS_SUBSET
<1>3. {} \in SUBSET (1..n)
  OBVIOUS
<1> QED
  BY <1>2, <1>3, FS_CardinalityType, FS_EmptySet

\* The subsets of A and B, disjoint, are the pairs of a subset of each.
LEMMA PairsOfSubsets ==
    ASSUME NEW A, NEW B, IsFiniteSet(A), IsFiniteSet(B), A \cap B = {}
    PROVE  Cardinality(SUBSET (A \cup B)) = Cardinality(SUBSET A) * Cardinality(SUBSET B)
<1> DEFINE f == [p \in (SUBSET A) \X (SUBSET B) |-> p[1] \cup p[2]]
           P == (SUBSET A) \X (SUBSET B)
           U == SUBSET (A \cup B)
<1>1. f \in [P -> U]
  OBVIOUS
<1>2. ASSUME NEW p \in P, NEW q \in P, f[p] = f[q] PROVE p = q
  <2>1. p[1] = f[p] \cap A /\ q[1] = f[q] \cap A /\ p[2] = f[p] \cap B /\ q[2] = f[q] \cap B
    OBVIOUS
  <2> QED
    BY <1>2, <2>1
<1>3. ASSUME NEW u \in U PROVE \E p \in P : f[p] = u
  <2>1. <<u \cap A, u \cap B>> \in P /\ f[<<u \cap A, u \cap B>>] = u
    OBVIOUS
  <2> QED
    BY <2>1
<1> HIDE DEF f
<1>4. f \in Bijection(P, U)
  BY <1>1, <1>2, <1>3, Fun_IsBij, Zenon
<1>5. IsFiniteSet(P) /\ Cardinality(P) = Cardinality(SUBSET A) * Cardinality(SUBSET B)
  BY FS_SUBSET, FS_Product
<1> QED
  BY <1>4, <1>5, FS_Bijection DEF ExistsBijection

LEMMA PowSum == ASSUME NEW m \in Nat, NEW n \in Nat PROVE 2^(m + n) = 2^m * 2^n
<1> DEFINE A == 1..m
           B == (m + 1)..(m + n)
<1>1. IsFiniteSet(A) /\ Cardinality(A) = m
  BY FS_Interval
<1>2. IsFiniteSet(B) /\ Cardinality(B) = n
  <2>1. m + 1 \in Int /\ m + n \in Int
    OBVIOUS
  <2> QED
    BY <2>1, FS_Interval
<1>3. A \cup B = 1..(m + n) /\ A \cap B = {}
  OBVIOUS
<1> HIDE DEF A, B
<1>4. IsFiniteSet(1..(m + n)) /\ Cardinality(1..(m + n)) = m + n
  <2>1. PICK k \in Int : k = m + n /\ k >= 0
    OBVIOUS
  <2>2. IsFiniteSet(1..k) /\ Cardinality(1..k) = IF 1 > k THEN 0 ELSE k - 1 + 1
    <3>1. 1 \in Int
      OBVIOUS
    <3> QED
      BY <3>1, FS_Interval, Zenon
  <2> QED
    BY <2>1, <2>2
<1>5. Cardinality(SUBSET A) = 2^m
  BY <1>1, PowCard, Zenon
<1>6. Cardinality(SUBSET B) = 2^n
  BY <1>2, PowCard, Zenon
<1>7. Cardinality(SUBSET (A \cup B)) = 2^(m + n)
  BY <1>3, <1>4, PowCard, Zenon
<1> QED
  BY <1>1, <1>2, <1>3, <1>5, <1>6, <1>7, PairsOfSubsets, ZenonT(30)

\* Half of a power.
LEMMA PowHalf == ASSUME NEW n \in Nat, n # 0 PROVE 2^n = 2 * 2^(n - 1)
<1>1. PICK m \in Nat : m = n - 1
  OBVIOUS
<1>2. 2^(m + 1) = 2^m * 2^1
  BY PowSum
<1>3. 2^1 = 2
  OBVIOUS
<1>4. 2^m \in Nat
  BY PowPos
<1>5. n = m + 1
  BY <1>1
<1> QED
  BY <1>1, <1>2, <1>3, <1>4, <1>5

LEMMA PowLeq == ASSUME NEW m \in Nat, NEW n \in Nat, m <= n PROVE 2^m <= 2^n
<1>1. PICK k \in Nat : n = m + k
  <2>1. n - m \in Nat /\ n = m + (n - m)
    OBVIOUS
  <2> QED
    BY <2>1
<1>2. 2^n = 2^m * 2^k
  BY <1>1, PowSum
<1>3. 2^m \in Nat /\ 2^m > 0 /\ 2^k \in Nat /\ 2^k > 0
  BY PowPos
<1>4. \A a, b \in Nat : a > 0 /\ b > 0 => a <= a * b
  OBVIOUS
<1> QED
  BY <1>2, <1>3, <1>4, Zenon
-----------------------------------------------------------------------------
(* Division. *)

LEMMA DivMod ==
    ASSUME NEW x \in Int, NEW k \in Nat, k > 0
    PROVE  /\ x \div k \in Int /\ x % k \in Nat /\ x % k < k
           /\ x = (x \div k) * k + (x % k)
OBVIOUS

LEMMA MulLess == ASSUME NEW a \in Int, NEW b \in Int, NEW k \in Nat, a < b PROVE a * k + k <= b * k
<1>1. (b - a - 1) * k >= 0
  <2>1. \A c \in Nat : c * k >= 0
    OBVIOUS
  <2> QED
    BY <2>1
<1>2. (b - a - 1) * k = b * k - a * k - k
  OBVIOUS
<1> QED
  BY <1>1, <1>2

LEMMA DivUnique ==
    ASSUME NEW k \in Nat, k > 0, NEW q \in Int, NEW r \in Nat, r < k
    PROVE  (q * k + r) \div k = q /\ (q * k + r) % k = r
<1> DEFINE x == q * k + r
           p == x \div k
           s == x % k
<1>1. x \in Int
  OBVIOUS
<1>2. p \in Int /\ s \in Nat /\ s < k /\ x = p * k + s
  BY <1>1, DivMod
<1> HIDE DEF p, s
<1>3. ~(p < q)
  BY <1>2, MulLess
<1>4. ~(q < p)
  BY <1>2, MulLess
<1>5. p = q
  BY <1>2, <1>3, <1>4
<1>6. s = r
  BY <1>2, <1>5
<1> QED
  BY <1>5, <1>6 DEF p, s

LEMMA Divided ==
    ASSUME NEW x \in Int, NEW k \in Nat, k > 0
    PROVE  \E a \in Int, r \in Nat : a = x \div k /\ r = x % k /\ r < k /\ x = a * k + r
<1>1. PICK a, r : a = x \div k /\ r = x % k
  OBVIOUS
<1>2. a \in Int /\ r \in Nat /\ r < k /\ x = a * k + r
  BY <1>1, DivMod
<1> QED
  BY <1>1, <1>2

LEMMA Distribute ==
    ASSUME NEW a \in Int, NEW z \in Int, NEW p \in Int PROVE (a + z) * p = a * p + z * p
OBVIOUS

\* A multiple of the divisor changes the quotient only.
LEMMA DivShift ==
    ASSUME NEW k \in Nat, k > 0, NEW x \in Int, NEW z \in Int
    PROVE  (x + z * k) \div k = (x \div k) + z /\ (x + z * k) % k = x % k
<1>1. PICK a \in Int, r \in Nat : a = x \div k /\ r = x % k /\ r < k /\ x = a * k + r
  BY Divided
<1>2. PICK b \in Int : b = a + z
  OBVIOUS
<1>3. b * k = a * k + z * k
  BY <1>2, Distribute
<1>4. (b * k + r) \div k = b /\ (b * k + r) % k = r
  BY <1>1, DivUnique
<1>5. x + z * k = b * k + r
  BY <1>1, <1>3
<1> QED
  BY <1>1, <1>2, <1>4, <1>5

LEMMA DivOfLess ==
    ASSUME NEW k \in Nat, NEW x \in Nat, x < k PROVE x \div k = 0 /\ x % k = x
<1>1. (0 * k + x) \div k = 0 /\ (0 * k + x) % k = x
  BY DivUnique
<1> QED
  BY <1>1

\* The quotient of a number below a product.
LEMMA DivBelow ==
    ASSUME NEW k \in Nat, k > 0, NEW m \in Int, NEW x \in Int, x < m * k
    PROVE  x \div k < m
<1>1. PICK a \in Int, r \in Nat : a = x \div k /\ r = x % k /\ r < k /\ x = a * k + r
  BY Divided
<1>2. ~(m <= a)
  <2>1. m < a => m * k + k <= a * k
    BY <1>1, MulLess
  <2> QED
    BY <1>1, <2>1
<1> QED
  BY <1>1, <1>2

LEMMA DivAtLeast ==
    ASSUME NEW k \in Nat, k > 0, NEW m \in Int, NEW x \in Int, m * k <= x
    PROVE  m <= x \div k
<1>1. PICK a \in Int, r \in Nat : a = x \div k /\ r = x % k /\ r < k /\ x = a * k + r
  BY Divided
<1>2. ~(a < m)
  <2>1. a < m => a * k + k <= m * k
    BY <1>1, MulLess
  <2> QED
    BY <1>1, <2>1
<1> QED
  BY <1>1, <1>2
-----------------------------------------------------------------------------
(* Widths. *)

\* What the proofs use of a width of n bits: p = 2^n, h its half.
LEMMA Halves == ASSUME NEW n \in Nat, n # 0 PROVE \E h \in Nat : h > 0 /\ 2^(n - 1) = h /\ 2^n = h + h
<1>1. 2^n = 2 * 2^(n - 1)
  BY PowHalf
<1>2. n - 1 \in Nat
  OBVIOUS
<1>3. PICK h : h = 2^(n - 1)
  OBVIOUS
<1>4. h \in Nat /\ h > 0
  BY <1>2, <1>3, PowPos
<1> QED
  BY <1>1, <1>3, <1>4

LEMMA WidthNat == BB \in Nat /\ BB > 0 /\ H \in Nat /\ H # 0 /\ W \in Nat /\ W # 0 /\ D \in Nat /\ D # 0 /\ D = W + W /\ W = H + H
BY DataAssumption DEF H, W, D

\* A word has 2 h values, a doubleword 2 q, the square of that.
LEMMA Widths ==
    \E h, q \in Nat : /\ h >= 8 /\ 2^(W - 1) = h /\ 2^W = h + h
                      /\ q > 0 /\ 2^(D - 1) = q /\ 2^D = q + q
                      /\ q + q = (h + h) * (h + h)
<1>1. PICK h \in Nat : h > 0 /\ 2^(W - 1) = h /\ 2^W = h + h
  BY WidthNat, Halves
<1>2. PICK q \in Nat : q > 0 /\ 2^(D - 1) = q /\ 2^D = q + q
  BY WidthNat, Halves
<1>3. 2^D = 2^W * 2^W
  BY WidthNat, PowSum
<1>4. h >= 8
  <2>1. 3 \in Nat /\ W - 1 \in Nat /\ 3 <= W - 1
    BY WidthNat DEF W
  <2>2. 2^3 <= 2^(W - 1)
    BY <2>1, PowLeq
  <2>3. 2^3 = 8
    OBVIOUS
  <2> QED
    BY <1>1, <2>2, <2>3
<1>5. q + q = (h + h) * (h + h)
  BY <1>1, <1>2, <1>3
<1> QED
  BY <1>1, <1>2, <1>4, <1>5

\* The signed reading of n bits, and back.
LEMMA SgnRange ==
    ASSUME NEW n \in Nat, n # 0, NEW x \in 0..(2^n - 1)
    PROVE  sgn(x, n) \in -(2^(n - 1))..(2^(n - 1) - 1) /\ sgn(x, n) % 2^n = x
<1>1. PICK h \in Nat : h > 0 /\ 2^(n - 1) = h /\ 2^n = h + h
  BY Halves
<1>2. x \in Nat /\ x < h + h /\ sgn(x, n) = IF x >= h THEN x - (h + h) ELSE x
  BY <1>1 DEF sgn
<1>3. sgn(x, n) \in -h..(h - 1)
  BY <1>2
<1>4. sgn(x, n) % (h + h) = x
  <2>1. PICK k \in Nat : k = h + h /\ k > 0
    BY <1>1
  <2>2. ((-1) * k + x) % k = x /\ (0 * k + x) % k = x
    BY <1>2, <2>1, DivUnique
  <2>3. (-1) * k + x = x - k /\ 0 * k + x = x
    BY <1>2
  <2> QED
    BY <1>2, <2>1, <2>2, <2>3
<1> QED
  BY <1>1, <1>3, <1>4

LEMMA SgnOfMod ==
    ASSUME NEW n \in Nat, n # 0, NEW v \in Int, v \in -(2^(n - 1))..(2^(n - 1) - 1)
    PROVE  sgn(v % 2^n, n) = v
<1>1. PICK h \in Nat : h > 0 /\ 2^(n - 1) = h /\ 2^n = h + h
  BY Halves
<1>2. v \in Int /\ v >= -h /\ v < h
  BY <1>1
<1>3. PICK k \in Nat : k = h + h /\ k > 0
  BY <1>1
<1>4. CASE v >= 0
  <2>1. (0 * k + v) % k = v
    BY <1>2, <1>3, <1>4, DivUnique
  <2>2. v % k = v
    BY <1>2, <2>1
  <2> QED
    BY <1>1, <1>2, <1>3, <1>4, <2>2 DEF sgn
<1>5. CASE v < 0
  <2>0. v + k \in Nat /\ v + k < k
    BY <1>2, <1>3, <1>5
  <2>1. ((-1) * k + (v + k)) % k = v + k
    BY <1>3, <2>0, DivUnique
  <2>2. v % k = v + k
    <3>1. (-1) * k + (v + k) = v
      BY <1>2
    <3> QED
      BY <2>1, <3>1
  <2> QED
    BY <1>1, <1>2, <1>3, <1>5, <2>2 DEF sgn
<1> QED
  BY <1>2, <1>4, <1>5
-----------------------------------------------------------------------------
(* Sign-extended words. *)

Word == 0..(2^W - 1)
SWord == -(2^(W - 1))..(2^(W - 1) - 1)

LEMMA LoWord == ASSUME NEW x \in Int PROVE Lo(x) \in Word
<1>1. PICK k \in Nat : k = 2^W /\ k > 0
  BY WidthNat, PowPos
<1>2. x % k \in Nat /\ x % k < k
  BY <1>1, DivMod
<1> QED
  BY <1>1, <1>2 DEF Lo, Word

\* The words that are sign extensions are the lowest and the highest of a doubleword.
LEMMA CanonicalRange ==
    ASSUME NEW v \in Int, v \in SWord
    PROVE  /\ v % 2^D \in DWord /\ Lo(v % 2^D) = v % 2^W
           /\ Canonical64(v % 2^D)
<1>1. PICK h, q \in Nat : /\ h >= 8 /\ 2^(W - 1) = h /\ 2^W = h + h
                          /\ q > 0 /\ 2^(D - 1) = q /\ 2^D = q + q
                          /\ q + q = (h + h) * (h + h)
  BY Widths
<1>2. v >= -h /\ v < h
  BY <1>1 DEF SWord
<1>3. PICK k \in Nat : k = h + h /\ k > 0
  BY <1>1
<1>4. PICK d \in Nat : d = q + q /\ d > 0 /\ d = k * k
  BY <1>1, <1>3
<1>5. k <= d
  <2>1. \A a \in Nat : a > 0 => a <= a * a
    OBVIOUS
  <2> QED
    BY <1>3, <1>4, <2>1
<1>6. PICK x : x = v % d
  OBVIOUS
<1>7. x = IF v >= 0 THEN v ELSE v + d
  <2>1. CASE v >= 0
    <3>1. (0 * d + v) % d = v
      BY <1>2, <1>3, <1>4, <1>5, <2>1, DivUnique
    <3> QED
      BY <1>6, <2>1, <3>1
  <2>2. CASE v < 0
    <3>0. v + d \in Nat /\ v + d < d
      BY <1>2, <1>3, <1>5, <2>2
    <3>1. ((-1) * d + (v + d)) % d = v + d
      BY <1>4, <3>0, DivUnique
    <3>2. (-1) * d + (v + d) = v
      OBVIOUS
    <3> QED
      BY <1>6, <2>2, <3>1, <3>2
  <2> QED
    BY <2>1, <2>2
<1>8. x \in Nat /\ x < d
  BY <1>2, <1>3, <1>5, <1>7
<1>9. x % k = v % k
  <2>1. CASE v >= 0
    BY <1>7, <2>1
  <2>2. CASE v < 0
    <3>0. v + k \in Nat /\ v + k < k
      BY <1>2, <1>3, <2>2
    <3>1. ((-1) * k + (v + k)) % k = v + k
      BY <1>3, <3>0, DivUnique
    <3>4. ((k - 1) * k + (v + k)) % k = v + k
      <4>1. k - 1 \in Int
        OBVIOUS
      <4> QED
        BY <1>3, <3>0, <4>1, DivUnique
    <3>2. (-1) * k + (v + k) = v
      OBVIOUS
    <3>3. (k - 1) * k + (v + k) = v + k * k
      OBVIOUS
    <3> QED
      BY <1>4, <1>7, <2>2, <3>1, <3>2, <3>3, <3>4
  <2> QED
    BY <2>1, <2>2
<1>10. Lo(x) = v % 2^W
  BY <1>1, <1>3, <1>9 DEF Lo
<1>11. sgn(v % 2^W, W) = v
  BY WidthNat, SgnOfMod DEF SWord
<1>12. Canonical64(x)
  BY <1>1, <1>4, <1>6, <1>10, <1>11 DEF Canonical64, sext64
<1> QED
  BY <1>1, <1>4, <1>6, <1>8, <1>10, <1>12 DEF DWord

LEMMA SextWord ==
    ASSUME NEW w \in Word
    PROVE  /\ sext64(w) \in DWord /\ Lo(sext64(w)) = w /\ Canonical64(sext64(w))
           /\ sgn(w, W) \in SWord /\ SD(sext64(w)) = sgn(w, W)
<1>1. PICK v : v = sgn(w, W)
  OBVIOUS
<1>2. v \in SWord /\ v % 2^W = w
  BY <1>1, WidthNat, SgnRange DEF Word, SWord
<1>3. v \in Int
  BY <1>2, WidthNat, Widths DEF SWord
<1>4. v % 2^D \in DWord /\ Lo(v % 2^D) = v % 2^W /\ Canonical64(v % 2^D)
  BY <1>2, <1>3, CanonicalRange
<1>5. sext64(w) = v % 2^D
  BY <1>1 DEF sext64
<1>6. v \in -(2^(D - 1))..(2^(D - 1) - 1)
  <2>1. PICK h, q \in Nat : /\ h >= 8 /\ 2^(W - 1) = h /\ 2^W = h + h
                            /\ q > 0 /\ 2^(D - 1) = q /\ 2^D = q + q
                            /\ q + q = (h + h) * (h + h)
    BY Widths
  <2>2. h <= q
    BY <2>1
  <2> QED
    BY <1>2, <1>3, <2>1, <2>2 DEF SWord
<1>7. sgn(v % 2^D, D) = v
  BY <1>3, <1>6, WidthNat, SgnOfMod
<1> QED
  BY <1>1, <1>2, <1>4, <1>5, <1>7 DEF SD

\* A canonical doubleword and its low word are the same signed number.
LEMMA CanonicalSd ==
    ASSUME NEW x \in DWord, Canonical64(x)
    PROVE  SD(x) = SW(x) /\ SW(x) \in SWord
<1>1. x \in Int
  BY WidthNat, PowPos DEF DWord
<1>2. PICK w \in Word : w = Lo(x)
  BY <1>1, LoWord
<1>3. x = sext64(w)
  BY <1>2 DEF Canonical64
<1> QED
  BY <1>2, <1>3, SextWord DEF SW

LEMMA SmallCanonical == ASSUME NEW x \in Nat, x < 2^(W - 1) PROVE x \in DWord /\ Canonical64(x)
<1>1. PICK h, q \in Nat : /\ h >= 8 /\ 2^(W - 1) = h /\ 2^W = h + h
                          /\ q > 0 /\ 2^(D - 1) = q /\ 2^D = q + q
                          /\ q + q = (h + h) * (h + h)
  BY Widths
<1>2. x \in SWord
  BY <1>1 DEF SWord
<1>3. PICK d \in Nat : d = 2^D /\ d > x
  <2>1. h <= q
    BY <1>1
  <2> QED
    BY <1>1, <2>1
<1>4. (0 * d + x) % d = x
  BY <1>3, DivUnique
<1>5. x % d = x
  BY <1>4
<1> QED
  BY <1>2, <1>3, <1>5, CanonicalRange

\* The halves of a doubleword.
LEMMA HighLow ==
    ASSUME NEW x \in DWord
    PROVE  High(x) \in Word /\ Lo(x) \in Word /\ x = High(x) * 2^W + Lo(x)
<1>1. PICK h, q \in Nat : /\ h >= 8 /\ 2^(W - 1) = h /\ 2^W = h + h
                          /\ q > 0 /\ 2^(D - 1) = q /\ 2^D = q + q
                          /\ q + q = (h + h) * (h + h)
  BY Widths
<1>2. PICK k \in Nat : k = h + h /\ k > 0
  BY <1>1
<1>3. x \in Nat /\ x < k * k
  BY <1>1, <1>2 DEF DWord
<1>4. PICK a, b : a = x \div k /\ b = x % k
  OBVIOUS
<1>5. a \in Int /\ b \in Nat /\ b < k /\ x = a * k + b
  BY <1>2, <1>3, <1>4, DivMod
<1>6. ~(a < 0)
  BY <1>3, <1>5, MulLess
<1>7. ~(k <= a)
  <2>1. k < a => k * k + k <= a * k
    BY <1>5, MulLess
  <2>2. k = a => k * k = a * k
    OBVIOUS
  <2> QED
    BY <1>2, <1>3, <1>5, <2>1, <2>2
<1>8. High(x) = a /\ Lo(x) = b
  BY <1>1, <1>2, <1>4 DEF High, Lo
<1> QED
  BY <1>1, <1>2, <1>5, <1>6, <1>7, <1>8 DEF Word

LEMMA Joined ==
    ASSUME NEW a \in Word, NEW b \in Word
    PROVE  a * 2^W + b \in DWord /\ High(a * 2^W + b) = a /\ Lo(a * 2^W + b) = b
<1>1. PICK h, q \in Nat : /\ h >= 8 /\ 2^(W - 1) = h /\ 2^W = h + h
                          /\ q > 0 /\ 2^(D - 1) = q /\ 2^D = q + q
                          /\ q + q = (h + h) * (h + h)
  BY Widths
<1>2. PICK k \in Nat : k = h + h /\ k > 0
  BY <1>1
<1>3. a \in Nat /\ a < k /\ b \in Nat /\ b < k
  BY <1>1, <1>2 DEF Word
<1>4. (a * k + b) \div k = a /\ (a * k + b) % k = b
  BY <1>2, <1>3, DivUnique
<1>5. a * k + k <= k * k
  BY <1>3, MulLess
<1>6. a * k + b \in Nat
  BY <1>3
<1> QED
  BY <1>1, <1>2, <1>3, <1>4, <1>5, <1>6 DEF High, Lo, DWord
-----------------------------------------------------------------------------
(* Digits: the number of n digits has these digits and no other number has. *)

Place(b, k) == 2^(b * k)

LEMMA PlacePos == ASSUME NEW b \in Nat, NEW k \in Nat PROVE Place(b, k) \in Nat /\ Place(b, k) > 0
<1>1. PICK m \in Nat : m = b * k
  OBVIOUS
<1> QED
  BY <1>1, PowPos DEF Place

LEMMA PlaceSum ==
    ASSUME NEW b \in Nat, NEW j \in Nat, NEW k \in Nat PROVE Place(b, j + k) = Place(b, j) * Place(b, k)
<1>1. PICK l, m \in Nat : l = b * j /\ m = b * k
  OBVIOUS
<1>2. b * (j + k) = l + m
  BY <1>1
<1> QED
  BY <1>1, <1>2, PowSum DEF Place

LEMMA PlaceEnds == ASSUME NEW b \in Nat PROVE Place(b, 0) = 1 /\ Place(b, 1) = 2^b
<1>1. b * 0 = 0 /\ b * 1 = b
  OBVIOUS
<1>2. 2^0 = 1
  OBVIOUS
<1> QED
  BY <1>1, <1>2 DEF Place

LEMMA DigitPlace == ASSUME NEW x, NEW k, NEW b \in Nat PROVE Digit(x, k, b) = (x \div Place(b, k)) % Place(b, 1)
BY PlaceEnds DEF Digit, Place

LEMMA DigitRange ==
    ASSUME NEW b \in Nat, NEW x \in Nat, NEW k \in Nat PROVE Digit(x, k, b) \in Nat /\ Digit(x, k, b) < Place(b, 1)
<1>1. PICK p, q \in Nat : p = Place(b, k) /\ q = Place(b, 1) /\ p > 0 /\ q > 0
  BY PlacePos
<1>2. PICK y \in Int : y = x \div p
  <2>1. PICK z \in Int : z = x
    OBVIOUS
  <2> QED
    BY <1>1, <2>1, DivMod
<1>3. y % q \in Nat /\ y % q < q
  BY <1>1, <1>2, DivMod
<1> QED
  BY <1>1, <1>2, <1>3, DigitPlace

\* What is added at a higher place does not change a digit.
LEMMA DigitOfSum ==
    ASSUME NEW b \in Nat, NEW n \in Nat, NEW k \in Nat, k < n, NEW x \in Nat, NEW c \in Nat
    PROVE  Digit(x + c * Place(b, n), k, b) = Digit(x, k, b)
<1>1. PICK m \in Nat : n = k + (1 + m)
  <2>1. n - k - 1 \in Nat /\ n = k + (1 + (n - k - 1))
    OBVIOUS
  <2> QED
    BY <2>1
<1>2. PICK p, q, r \in Nat : p = Place(b, k) /\ q = Place(b, 1) /\ r = Place(b, m) /\ p > 0 /\ q > 0
  BY PlacePos
<1>3. Place(b, n) = p * (q * r)
  <2>1. Place(b, 1 + m) = q * r
    BY <1>2, PlaceSum
  <2>2. 1 + m \in Nat
    OBVIOUS
  <2> QED
    BY <1>1, <1>2, <2>1, <2>2, PlaceSum
<1>0. PICK y \in Int : y = x
  OBVIOUS
<1>4. PICK z \in Int : z = (c * r) * q /\ c * (p * (q * r)) = z * p
  <2>1. (c * r) * q \in Int /\ c * (p * (q * r)) = ((c * r) * q) * p
    OBVIOUS
  <2> QED
    BY <2>1
<1>5. (y + z * p) \div p = (y \div p) + z
  BY <1>2, DivShift
<1>6. PICK a \in Int : a = y \div p
  BY <1>2, DivMod
<1>7. (a + (c * r) * q) % q = a % q
  <2>1. PICK e \in Int : e = c * r
    OBVIOUS
  <2> QED
    BY <1>2, <2>1, DivShift
<1> QED
  BY <1>0, <1>2, <1>3, <1>4, <1>5, <1>6, <1>7, DigitPlace

\* The digit above n smaller ones.
LEMMA DigitAbove ==
    ASSUME NEW b \in Nat, NEW n \in Nat, NEW y \in Nat, y < Place(b, n), NEW c \in Nat, c < Place(b, 1)
    PROVE  Digit(y + c * Place(b, n), n, b) = c
<1>1. PICK p, q \in Nat : p = Place(b, n) /\ q = Place(b, 1) /\ p > 0 /\ q > 0
  BY PlacePos
<1>2. (c * p + y) \div p = c
  BY <1>1, DivUnique
<1>3. (0 * q + c) % q = c
  BY <1>1, DivUnique
<1>4. c * p + y = y + c * p /\ 0 * q + c = c
  OBVIOUS
<1> QED
  BY <1>1, <1>2, <1>3, <1>4, DigitPlace

\* A number of n + 1 digits is its highest digit and a number of n digits.
LEMMA DigitSplit ==
    ASSUME NEW b \in Nat, NEW n \in Nat, NEW x \in Nat, x < Place(b, n + 1)
    PROVE  \E y \in Nat : y < Place(b, n) /\ x = y + Digit(x, n, b) * Place(b, n)
<1>1. PICK p, q \in Nat : p = Place(b, n) /\ q = Place(b, 1) /\ p > 0 /\ q > 0
  BY PlacePos
<1>2. x < p * q
  BY <1>1, PlaceSum
<1>3. PICK a \in Int, y \in Nat : a = x \div p /\ y = x % p /\ y < p /\ x = a * p + y
  <2>1. x \in Int
    OBVIOUS
  <2> QED
    BY <1>1, <2>1, Divided
<1>4. a >= 0 /\ a < q
  <2>1. x \in Int /\ q \in Int /\ x < q * p /\ 0 * p <= x
    BY <1>2
  <2>2. x \div p < q
    BY <1>1, <2>1, DivBelow
  <2>3. 0 <= x \div p
    BY <1>1, <2>1, DivAtLeast
  <2> QED
    BY <1>3, <2>2, <2>3
<1>5. a % q = a
  BY <1>1, <1>4, DivOfLess
<1>6. Digit(x, n, b) = a
  BY <1>1, <1>3, <1>5, DigitPlace
<1> QED
  BY <1>1, <1>3, <1>6

SameDigits(x, y, n, b) == \A k \in 0..(n - 1) : Digit(x, k, b) = Digit(y, k, b)

\* Two numbers of n + 1 digits that have the same ones: so have their lower parts.
Shorter(x, y, n, b) == \E u, v \in Nat : /\ u < Place(b, n) /\ v < Place(b, n) /\ (u = v => x = y)
                                          /\ SameDigits(u, v, n, b)

LEMMA DigitsBelow ==
    ASSUME NEW b \in Nat, NEW n \in Nat, NEW x \in Nat, NEW y \in Nat,
           x < Place(b, n + 1), y < Place(b, n + 1), SameDigits(x, y, n + 1, b)
    PROVE  Shorter(x, y, n, b)
<1>1. PICK u \in Nat : u < Place(b, n) /\ x = u + Digit(x, n, b) * Place(b, n)
  BY DigitSplit
<1>2. PICK v \in Nat : v < Place(b, n) /\ y = v + Digit(y, n, b) * Place(b, n)
  BY DigitSplit
<1>3. PICK c \in Nat : c = Digit(x, n, b)
  BY DigitRange
<1>4. c = Digit(y, n, b)
  BY <1>3 DEF SameDigits
<1>5. ASSUME NEW k \in 0..(n - 1) PROVE Digit(u, k, b) = Digit(v, k, b)
  <2>1. PICK j \in Nat : j = k /\ j < n /\ j \in 0..((n + 1) - 1)
    OBVIOUS
  <2>2. Digit(u + c * Place(b, n), j, b) = Digit(u, j, b)
    BY <2>1, DigitOfSum
  <2>3. Digit(v + c * Place(b, n), j, b) = Digit(v, j, b)
    BY <2>1, DigitOfSum
  <2>4. Digit(x, j, b) = Digit(y, j, b)
    BY <2>1 DEF SameDigits
  <2> QED
    BY <1>1, <1>2, <1>3, <1>4, <2>1, <2>2, <2>3, <2>4, Zenon
<1>6. SameDigits(u, v, n, b)
  BY <1>5 DEF SameDigits
<1>7. u = v => x = y
  BY <1>1, <1>2, <1>3, <1>4
<1> QED
  BY <1>1, <1>2, <1>6, <1>7, Zenon DEF Shorter

LEMMA DigitsEqual ==
    ASSUME NEW b \in Nat
    PROVE  \A n \in Nat : \A x, y \in Nat :
              x < Place(b, n) /\ y < Place(b, n) /\ SameDigits(x, y, n, b) => x = y
<1> DEFINE P(n) == \A x, y \in Nat :
                     x < Place(b, n) /\ y < Place(b, n) /\ SameDigits(x, y, n, b) => x = y
           T == {n \in Nat : P(n)}
<1>1. 0 \in T
  <2>1. P(0)
    BY PlaceEnds
  <2> QED
    BY <2>1
<1>2. ASSUME NEW n \in Nat, n \in T PROVE n + 1 \in T
  <2>1. P(n)
    BY <1>2
  <2> SUFFICES ASSUME NEW x \in Nat, NEW y \in Nat, x < Place(b, n + 1), y < Place(b, n + 1),
                      SameDigits(x, y, n + 1, b)
               PROVE  x = y
    OBVIOUS
  <2>2. PICK u, v \in Nat : /\ u < Place(b, n) /\ v < Place(b, n) /\ (u = v => x = y)
                            /\ SameDigits(u, v, n, b)
    <3>1. Shorter(x, y, n, b)
      BY DigitsBelow
    <3> QED
      BY <3>1 DEF Shorter
  <2> QED
    BY <2>1, <2>2
<1> HIDE DEF T
<1>3. \A n \in Nat : n \in T
  BY <1>1, <1>2, InductiveSet
<1> QED
  BY <1>3 DEF T

\* The partial sums of Number.
IsSum(f, n, b, d) == f = [k \in 0..n |-> IF k = 0 THEN 0 ELSE f[k - 1] + d[k - 1] * 2^(b * (k - 1))]

LEMMA SumExists == ASSUME NEW b \in Nat, NEW d PROVE \A n \in Nat : \E f : IsSum(f, n, b, d)
<1> DEFINE T == {n \in Nat : \E f : IsSum(f, n, b, d)}
<1>1. 0 \in T
  <2>1. PICK f : f = [k \in 0..0 |-> 0]
    OBVIOUS
  <2>2. IsSum(f, 0, b, d)
    BY <2>1 DEF IsSum
  <2> QED
    BY <2>2
<1>2. ASSUME NEW n \in Nat, n \in T PROVE n + 1 \in T
  <2>1. PICK g : IsSum(g, n, b, d)
    BY <1>2
  <2> DEFINE h == [k \in 0..(n + 1) |-> IF k = n + 1 THEN g[n] + d[n] * 2^(b * n) ELSE g[k]]
  <2>2. ASSUME NEW k \in 0..(n + 1)
        PROVE  h[k] = IF k = 0 THEN 0 ELSE h[k - 1] + d[k - 1] * 2^(b * (k - 1))
    <3>1. CASE k = n + 1
      BY <3>1
    <3>2. CASE k # n + 1
      BY <2>1, <3>2 DEF IsSum
    <3> QED
      BY <3>1, <3>2
  <2>3. h = [k \in 0..(n + 1) |-> h[k]]
    OBVIOUS
  <2> HIDE DEF h
  <2>4. IsSum(h, n + 1, b, d)
    BY <2>2, <2>3, Zenon DEF IsSum
  <2> QED
    BY <2>4
<1> HIDE DEF T
<1>3. \A n \in Nat : n \in T
  BY <1>1, <1>2, InductiveSet
<1> QED
  BY <1>3 DEF T

LEMMA SumUnique ==
    ASSUME NEW b \in Nat, NEW d, NEW m \in Nat, NEW n \in Nat, m <= n,
           NEW f, IsSum(f, m, b, d), NEW g, IsSum(g, n, b, d)
    PROVE  f[m] = g[m]
<1> DEFINE T == {k \in Nat : k <= m => f[k] = g[k]}
<1>1. 0 \in T
  BY DEF IsSum
<1>2. ASSUME NEW k \in Nat, k \in T PROVE k + 1 \in T
  <2> SUFFICES ASSUME k + 1 <= m PROVE f[k + 1] = g[k + 1]
    OBVIOUS
  <2>1. f[k] = g[k] /\ (k + 1) - 1 = k /\ k + 1 \in 0..m /\ k + 1 \in 0..n /\ k + 1 # 0
    BY <1>2
  <2>2. f[k + 1] = f[k] + d[k] * 2^(b * k)
    BY <2>1 DEF IsSum
  <2>3. g[k + 1] = g[k] + d[k] * 2^(b * k)
    BY <2>1 DEF IsSum
  <2> QED
    BY <2>1, <2>2, <2>3
<1> HIDE DEF T
<1>3. m \in T
  BY <1>1, <1>2, InductiveSet
<1> QED
  BY <1>3 DEF T

LEMMA NumberIsSum ==
    ASSUME NEW b \in Nat, NEW d, NEW n \in Nat
    PROVE  \E f : IsSum(f, n, b, d) /\ Number(n, b, d) = f[n]
<1> DEFINE P(f) == IsSum(f, n, b, d)
<1>1. \E f : P(f)
  BY SumExists
<1>2. P(CHOOSE f : P(f))
  BY <1>1, Zenon
<1>3. Number(n, b, d) = (CHOOSE f : P(f))[n]
  BY DEF Number, IsSum
<1> QED
  BY <1>2, <1>3

LEMMA NumberStep ==
    ASSUME NEW b \in Nat, NEW d, NEW n \in Nat
    PROVE  /\ Number(0, b, d) = 0
           /\ Number(n + 1, b, d) = Number(n, b, d) + d[n] * Place(b, n)
<1>1. PICK f : IsSum(f, 0, b, d) /\ Number(0, b, d) = f[0]
  BY NumberIsSum
<1>2. PICK g : IsSum(g, n, b, d) /\ Number(n, b, d) = g[n]
  BY NumberIsSum
<1>3. PICK h : IsSum(h, n + 1, b, d) /\ Number(n + 1, b, d) = h[n + 1]
  BY NumberIsSum
<1>4. g[n] = h[n]
  BY <1>2, <1>3, SumUnique
<1>5. f[0] = 0
  BY <1>1 DEF IsSum
<1>6. h[n + 1] = h[n] + d[n] * 2^(b * n)
  <2>1. (n + 1) - 1 = n /\ n + 1 \in 0..(n + 1) /\ n + 1 # 0
    OBVIOUS
  <2> QED
    BY <1>3, <2>1 DEF IsSum
<1> QED
  BY <1>1, <1>2, <1>3, <1>4, <1>5, <1>6 DEF Place

\* One more digit.
LEMMA DigitPushed ==
    ASSUME NEW b \in Nat, NEW n \in Nat, NEW x \in Nat, x < Place(b, n), NEW c \in Nat, c < Place(b, 1)
    PROVE  /\ x + c * Place(b, n) \in Nat /\ x + c * Place(b, n) < Place(b, n + 1)
           /\ Digit(x + c * Place(b, n), n, b) = c
           /\ \A k \in 0..(n - 1) : Digit(x + c * Place(b, n), k, b) = Digit(x, k, b)
<1>1. PICK p, q \in Nat : p = Place(b, n) /\ q = Place(b, 1) /\ p > 0 /\ q > 0
  BY PlacePos
<1>2. Place(b, n + 1) = q * p
  BY <1>1, PlaceSum
<1>3. c * p + p <= q * p
  BY <1>1, MulLess
<1>4. c * p \in Nat
  OBVIOUS
<1>5. ASSUME NEW k \in 0..(n - 1) PROVE Digit(x + c * Place(b, n), k, b) = Digit(x, k, b)
  <2>1. PICK j \in Nat : j = k /\ j < n
    OBVIOUS
  <2>2. Digit(x + c * Place(b, n), j, b) = Digit(x, j, b)
    BY <2>1, DigitOfSum
  <2> QED
    BY <2>1, <2>2
<1>6. Digit(x + c * Place(b, n), n, b) = c
  BY DigitAbove
<1> QED
  BY <1>1, <1>2, <1>3, <1>4, <1>5, <1>6

\* The number of n digits is below the next place and has these digits.
LEMMA NumberDigits ==
    ASSUME NEW b \in Nat, NEW d, NEW m \in Nat,
           \A k \in 0..(m - 1) : d[k] \in Nat /\ d[k] < Place(b, 1)
    PROVE  /\ Number(m, b, d) \in Nat /\ Number(m, b, d) < Place(b, m)
           /\ \A k \in 0..(m - 1) : Digit(Number(m, b, d), k, b) = d[k]
<1> DEFINE N(n) == Number(n, b, d)
           P(n) == n <= m => /\ N(n) \in Nat /\ N(n) < Place(b, n)
                             /\ \A k \in 0..(n - 1) : Digit(N(n), k, b) = d[k]
           T == {n \in Nat : P(n)}
<1>0. N(0) = 0 /\ \A n \in Nat : N(n + 1) = N(n) + d[n] * Place(b, n)
  BY NumberStep
<1> HIDE DEF N
<1>1. 0 \in T
  <2>1. P(0)
    BY <1>0, PlaceEnds
  <2> QED
    BY <2>1
<1>2. ASSUME NEW n \in Nat, n \in T PROVE n + 1 \in T
  <2> SUFFICES ASSUME n + 1 <= m
               PROVE  /\ N(n + 1) \in Nat /\ N(n + 1) < Place(b, n + 1)
                      /\ \A k \in 0..n : Digit(N(n + 1), k, b) = d[k]
    OBVIOUS
  <2>1. PICK x \in Nat : x = N(n) /\ x < Place(b, n) /\ \A k \in 0..(n - 1) : Digit(x, k, b) = d[k]
    BY <1>2
  <2>2. PICK c \in Nat : c = d[n] /\ c < Place(b, 1)
    OBVIOUS
  <2>3. N(n + 1) = x + c * Place(b, n)
    BY <1>0, <2>1, <2>2
  <2>4. /\ x + c * Place(b, n) \in Nat /\ x + c * Place(b, n) < Place(b, n + 1)
        /\ Digit(x + c * Place(b, n), n, b) = c
        /\ \A k \in 0..(n - 1) : Digit(x + c * Place(b, n), k, b) = Digit(x, k, b)
    BY <2>1, <2>2, DigitPushed
  <2> QED
    BY <2>1, <2>2, <2>3, <2>4
<1> HIDE DEF T
<1>3. m \in T
  BY <1>1, <1>2, InductiveSet
<1>4. P(m)
  BY <1>3 DEF T
<1> QED
  BY <1>4 DEF N
-----------------------------------------------------------------------------
(* Integer instructions: what each may do to the state. *)

Codes == {"none", "ov", "trap", "ri", "adel", "ades", "fpe", "sigfpe"}

\* Every general register, HI and LO is a sign-extended word.
Canon == (\A r \in DOMAIN gpr : Canonical64(gpr[r])) /\ Canonical64(hi) /\ Canonical64(lo)

\* Types are kept, the floating-point side is left alone, and a step that is no
\* 64-bit operation leaves sign-extended words if it found them.
IntStep ==
    /\ gpr' \in [DOMAIN gpr -> DWord] /\ hi' \in DWord /\ lo' \in DWord /\ mem' \in Memory
    /\ UNCHANGED <<cpr1, fcsr, fccr, mirrored, in64, fr, fpw>>
    /\ ops' = ops + 1 /\ exc' \in Codes /\ wide' \in BOOLEAN
    /\ wide => wide'
    /\ ~wide' /\ Canon => Canon' /\ exc' # "sigfpe"

LEMMA TypeFacts ==
    ASSUME TypeOK
    PROVE  /\ gpr \in [DOMAIN gpr -> DWord] /\ hi \in DWord /\ lo \in DWord /\ mem \in Memory
           /\ \A r \in DOMAIN gpr : gpr[r] \in DWord
           /\ \A t \in Operands : t[1] \in DOMAIN gpr /\ t[2] \in DOMAIN gpr /\ t[3] \in DOMAIN gpr
           /\ \A t \in Operands : gpr[t[1]] \in DWord /\ gpr[t[2]] \in DWord /\ gpr[t[3]] \in DWord
           /\ wide \in BOOLEAN /\ in64 \in BOOLEAN /\ fr \in BOOLEAN
           /\ cpr1 \in [FReg -> DWord]
BY DEF TypeOK

LEMMA ToGprStep ==
    ASSUME TypeOK, NEW i, NEW r, NEW x \in DWord, NEW w64 \in BOOLEAN, ToGpr(i, r, x, w64),
           Canon => w64 \/ Canonical64(x)
    PROVE  IntStep
<1>1. /\ gpr \in [DOMAIN gpr -> DWord] /\ hi \in DWord /\ lo \in DWord /\ mem \in Memory
      /\ wide \in BOOLEAN
  BY TypeFacts
<1>2. /\ ops' = ops + 1 /\ exc' = "none" /\ wide' = (wide \/ w64)
      /\ gpr' = IF r = 0 THEN gpr ELSE [gpr EXCEPT ![r] = x]
      /\ hi' = hi /\ lo' = lo /\ mem' = mem
      /\ UNCHANGED <<cpr1, fcsr, fccr, mirrored, in64, fr, fpw>>
  BY DEF ToGpr, Done, Ran, Put, fpu, mode
<1>3. gpr' \in [DOMAIN gpr -> DWord]
  BY <1>1, <1>2
<1>4. DOMAIN gpr' = DOMAIN gpr
  BY <1>1, <1>2
<1>5. ASSUME ~wide', Canon PROVE Canon'
  <2>1. Canonical64(x)
    BY <1>1, <1>2, <1>5
  <2>2. ASSUME NEW s \in DOMAIN gpr' PROVE Canonical64(gpr'[s])
    <3>1. gpr'[s] = x \/ gpr'[s] = gpr[s]
      BY <1>1, <1>2, <1>4
    <3> QED
      BY <1>4, <1>5, <2>1, <3>1, Zenon DEF Canon
  <2> QED
    BY <1>2, <1>5, <2>2, Zenon DEF Canon
<1> QED
  BY <1>1, <1>2, <1>3, <1>5 DEF IntStep, Codes

LEMMA ToHiLoStep ==
    ASSUME TypeOK, NEW i, NEW h \in DWord, NEW l \in DWord, NEW w64 \in BOOLEAN, ToHiLo(i, h, l, w64),
           Canon => w64 \/ (Canonical64(h) /\ Canonical64(l))
    PROVE  IntStep
<1>1. gpr \in [DOMAIN gpr -> DWord] /\ mem \in Memory /\ wide \in BOOLEAN
  BY TypeFacts
<1>2. /\ ops' = ops + 1 /\ exc' = "none" /\ wide' = (wide \/ w64)
      /\ gpr' = gpr /\ hi' = h /\ lo' = l /\ mem' = mem
      /\ UNCHANGED <<cpr1, fcsr, fccr, mirrored, in64, fr, fpw>>
  BY DEF ToHiLo, Done, Ran, fpu, mode
<1>3. ASSUME ~wide', Canon PROVE Canon'
  <2>1. Canonical64(h) /\ Canonical64(l)
    BY <1>1, <1>2, <1>3
  <2> QED
    BY <1>2, <1>3, <2>1, Zenon DEF Canon
<1> QED
  BY <1>1, <1>2, <1>3 DEF IntStep, Codes

LEMMA ToMemStep ==
    ASSUME TypeOK, NEW i, NEW m \in Memory, NEW p, ToMem(i, m, p)
    PROVE  IntStep
<1>1. gpr \in [DOMAIN gpr -> DWord] /\ hi \in DWord /\ lo \in DWord /\ wide \in BOOLEAN
  BY TypeFacts
<1>2. /\ ops' = ops + 1 /\ exc' = "none" /\ wide' = wide
      /\ gpr' = gpr /\ hi' = hi /\ lo' = lo /\ mem' = m
      /\ UNCHANGED <<cpr1, fcsr, fccr, mirrored, in64, fr, fpw>>
  BY DEF ToMem, Done, Ran, fpu, mode, ireg
<1>3. ASSUME Canon PROVE Canon'
  BY <1>2, <1>3, Zenon DEF Canon
<1> QED
  BY <1>1, <1>2, <1>3 DEF IntStep, Codes

LEMMA RaiseStep ==
    ASSUME TypeOK, NEW i, NEW c \in Codes, raise(c, i), ~wide /\ Canon => c # "sigfpe"
    PROVE  IntStep
<1>1. gpr \in [DOMAIN gpr -> DWord] /\ hi \in DWord /\ lo \in DWord /\ mem \in Memory /\ wide \in BOOLEAN
  BY TypeFacts
<1>2. /\ ops' = ops + 1 /\ exc' = c /\ wide' = wide
      /\ gpr' = gpr /\ hi' = hi /\ lo' = lo /\ mem' = mem
      /\ UNCHANGED <<cpr1, fcsr, fccr, mirrored, in64, fr, fpw>>
  BY DEF raise, Ran, fpu, mode, ireg
<1>3. ASSUME Canon PROVE Canon'
  BY <1>2, <1>3, Zenon DEF Canon
<1> QED
  BY <1>1, <1>2, <1>3 DEF IntStep
-----------------------------------------------------------------------------
(* Results fit their registers. *)

LEMMA DWordNat == ASSUME NEW x \in DWord PROVE x \in Nat /\ x < 2^D
<1>1. 2^D \in Nat
  BY WidthNat, PowPos
<1> QED
  BY <1>1 DEF DWord

LEMMA NatDWord == ASSUME NEW x \in Nat, x < 2^D PROVE x \in DWord
<1>1. 2^D \in Nat
  BY WidthNat, PowPos
<1> QED
  BY <1>1 DEF DWord

LEMMA WordNat == ASSUME NEW x \in Word PROVE x \in Nat /\ x < 2^W
<1>1. 2^W \in Nat
  BY WidthNat, PowPos
<1> QED
  BY <1>1 DEF Word

LEMMA NatWord == ASSUME NEW x \in Nat, x < 2^W PROVE x \in Word
<1>1. 2^W \in Nat
  BY WidthNat, PowPos
<1> QED
  BY <1>1 DEF Word

LEMMA ModDWord == ASSUME NEW x \in Int PROVE x % 2^D \in DWord
<1>1. PICK k \in Nat : k = 2^D /\ k > 0
  BY WidthNat, PowPos
<1>2. x % k \in Nat /\ x % k < k
  BY <1>1, DivMod
<1> QED
  BY <1>1, <1>2, NatDWord

LEMMA ModWord == ASSUME NEW x \in Int PROVE x % 2^W \in Word /\ x % 2^W = Lo(x)
BY LoWord DEF Lo

LEMMA SignedInt == ASSUME NEW x \in DWord PROVE SD(x) \in Int /\ SW(x) \in Int /\ SW(x) \in SWord
<1>1. PICK h, q \in Nat : /\ h >= 8 /\ 2^(W - 1) = h /\ 2^W = h + h
                          /\ q > 0 /\ 2^(D - 1) = q /\ 2^D = q + q
                          /\ q + q = (h + h) * (h + h)
  BY Widths
<1>2. x \in Nat
  BY DWordNat
<1>3. SD(x) \in Int
  BY <1>1, <1>2 DEF SD, sgn
<1>4. Lo(x) \in Word
  BY <1>2, LoWord
<1>5. SW(x) \in SWord
  BY <1>4, SextWord DEF SW
<1>6. SW(x) \in Int
  BY <1>1, <1>5 DEF SWord
<1> QED
  BY <1>3, <1>5, <1>6

LEMMA DivLeq == ASSUME NEW x \in Nat, NEW k \in Nat, k > 0 PROVE x \div k \in Nat /\ x \div k <= x
<1>1. PICK y \in Int : y = x
  OBVIOUS
<1>2. PICK a \in Int, r \in Nat : a = y \div k /\ r = y % k /\ r < k /\ y = a * k + r
  BY Divided
<1>3. a >= 0
  <2>1. 0 * k <= y
    BY <1>1
  <2> QED
    BY <1>2, <2>1, DivAtLeast
<1>4. a <= a * k
  <2>1. \A u, v \in Nat : v > 0 => u <= u * v
    OBVIOUS
  <2> QED
    BY <1>2, <1>3, <2>1
<1> QED
  BY <1>1, <1>2, <1>3, <1>4

LEMMA DivSWord == ASSUME NEW v \in Int, v \in SWord, NEW k \in Nat, k > 0 PROVE v \div k \in Int /\ v \div k \in SWord
<1>1. PICK h \in Nat : h > 0 /\ 2^(W - 1) = h
  BY Widths
<1>2. v >= -h /\ v < h
  BY <1>1 DEF SWord
<1>3. PICK a \in Int : a = v \div k
  BY DivMod
<1>4. h <= h * k /\ (-h) * k <= -h
  <2>1. \A u, w \in Nat : w > 0 => u <= u * w
    OBVIOUS
  <2>2. h <= h * k
    BY <1>1, <2>1
  <2>3. (-h) * k = -(h * k)
    OBVIOUS
  <2> QED
    BY <2>2, <2>3
<1>5. -h \in Int /\ h \in Int
  OBVIOUS
<1>6. -h <= v \div k
  <2>1. (-h) * k <= v
    BY <1>2, <1>4
  <2> QED
    BY <1>5, <2>1, DivAtLeast
<1>7. v \div k < h
  <2>1. v < h * k
    BY <1>2, <1>4
  <2> QED
    BY <1>5, <2>1, DivBelow
<1> QED
  BY <1>1, <1>3, <1>6, <1>7 DEF SWord

LEMMA BoolCanonical == ASSUME NEW b PROVE Bool(b) \in DWord /\ Canonical64(Bool(b))
<1>1. PICK h \in Nat : h >= 8 /\ 2^(W - 1) = h
  BY Widths
<1>2. PICK x \in Nat : x = Bool(b) /\ x < 2^(W - 1)
  BY <1>1 DEF Bool
<1> QED
  BY <1>2, SmallCanonical

LEMMA ZeroCanonical == 0 \in DWord /\ Canonical64(0)
<1>1. PICK h \in Nat : h >= 8 /\ 2^(W - 1) = h
  BY Widths
<1> QED
  BY <1>1, SmallCanonical

\* Immediates, zero- and sign-extended.
LEMMA ImmCanonical ==
    ASSUME NEW i \in Imm
    PROVE  i \in DWord /\ Canonical64(i) /\ simm(i) % 2^D \in DWord /\ Canonical64(simm(i) % 2^D)
<1>1. PICK g \in Nat : g > 0 /\ 2^(H - 1) = g /\ 2^H = g + g
  BY WidthNat, Halves
<1>2. PICK h \in Nat : h > 0 /\ 2^(W - 1) = h
  BY Widths
<1>3. g + g <= h
  <2>1. H <= W - 1 /\ W - 1 \in Nat
    BY WidthNat
  <2>2. 2^H <= 2^(W - 1)
    BY <2>1, WidthNat, PowLeq
  <2> QED
    BY <1>1, <1>2, <2>2
<1>4. i \in Nat /\ i < g + g
  BY <1>1, DataAssumption
<1>5. i \in DWord /\ Canonical64(i)
  BY <1>2, <1>3, <1>4, SmallCanonical
<1>6. PICK v : v = simm(i)
  OBVIOUS
<1>7. v \in Int /\ v >= -g /\ v < g
  BY <1>1, <1>4, <1>6 DEF simm, sgn
<1>8. v \in SWord
  BY <1>2, <1>3, <1>7 DEF SWord
<1>9. v % 2^D \in DWord /\ Canonical64(v % 2^D)
  BY <1>7, <1>8, CanonicalRange
<1> QED
  BY <1>5, <1>6, <1>9

Narrow == {"sll", "srl", "sra", "sllv", "srlv", "srav"}
Shifts == {"sll", "srl", "sra", "sllv", "srlv", "srav", "dsll", "dsrl", "dsra",
           "dsllv", "dsrlv", "dsrav", "dsll32", "dsrl32", "dsra32"}

LEMMA ShiftedRange ==
    ASSUME NEW op \in Shifts, NEW x \in DWord, NEW n \in Nat
    PROVE  Shifted(op, x, n) \in DWord /\ (op \in Narrow => Canonical64(Shifted(op, x, n)))
<1>1. PICK k \in Nat : k = 2^n /\ k > 0
  BY PowPos
<1>2. x \in Nat /\ x < 2^D /\ x \in Int
  BY DWordNat
<1>3. PICK w \in Word : w = Lo(x)
  BY <1>2, LoWord
<1>4. w \in Nat /\ w < 2^W
  BY WordNat
<1>5. CASE op \in {"sll", "sllv"}
  <2>1. w * k \in Int
    BY <1>4
  <2>2. (w * k) % 2^W \in Word
    BY <2>1, ModWord
  <2>3. Shifted(op, x, n) = sext64((w * k) % 2^W)
    BY <1>1, <1>3, <1>5 DEF Shifted
  <2> QED
    BY <2>2, <2>3, SextWord
<1>6. CASE op \in {"srl", "srlv"}
  <2>1. w \div k \in Nat /\ w \div k <= w
    BY <1>1, <1>4, DivLeq
  <2>2. w \div k \in Word
    BY <1>4, <2>1, WidthNat, PowPos, NatWord
  <2>3. Shifted(op, x, n) = sext64(w \div k)
    BY <1>1, <1>3, <1>6 DEF Shifted
  <2> QED
    BY <2>2, <2>3, SextWord
<1>7. CASE op \in {"sra", "srav"}
  <2>1. PICK v \in Int : v = SW(x) /\ v \in SWord
    BY SignedInt
  <2>2. PICK z \in Int : z = v \div k /\ z \in SWord
    BY <1>1, <2>1, DivSWord
  <2>3. Shifted(op, x, n) = z % 2^D
    BY <1>1, <1>7, <2>1, <2>2 DEF Shifted
  <2> QED
    BY <2>2, <2>3, CanonicalRange
<1>8. CASE op \in {"dsll", "dsllv", "dsll32"}
  <2>1. x * k \in Int
    BY <1>2
  <2>2. Shifted(op, x, n) = (x * k) % 2^D
    BY <1>1, <1>8 DEF Shifted
  <2> QED
    BY <1>8, <2>1, <2>2, ModDWord DEF Narrow
<1>9. CASE op \in {"dsrl", "dsrlv", "dsrl32"}
  <2>1. x \div k \in Nat /\ x \div k <= x
    BY <1>1, <1>2, DivLeq
  <2>2. x \div k \in DWord
    BY <1>2, <2>1, WidthNat, PowPos, NatDWord
  <2>3. Shifted(op, x, n) = x \div k
    BY <1>1, <1>9 DEF Shifted
  <2> QED
    BY <1>9, <2>2, <2>3 DEF Narrow
<1>10. CASE op \in {"dsra", "dsrav", "dsra32"}
  <2>1. PICK v \in Int : v = SD(x)
    BY SignedInt
  <2>2. v \div k \in Int
    BY <1>1, DivMod
  <2>3. Shifted(op, x, n) = (v \div k) % 2^D
    BY <1>1, <1>10, <2>1 DEF Shifted
  <2> QED
    BY <1>10, <2>2, <2>3, ModDWord DEF Narrow
<1> QED
  BY <1>5, <1>6, <1>7, <1>8, <1>9, <1>10 DEF Shifts

LEMMA RiStep == ASSUME TypeOK, NEW i, raise("ri", i) PROVE IntStep
<1>1. "ri" \in Codes /\ "ri" # "sigfpe"
  BY DEF Codes
<1> QED
  BY <1>1, RaiseStep

LEMMA CanonGpr == ASSUME Canon, NEW r \in DOMAIN gpr PROVE Canonical64(gpr[r])
BY DEF Canon

LEMMA ShiftStep ==
    ASSUME TypeOK, NEW op \in Shifts, NEW t \in Operands, NEW sa \in Shamt, Shift(op, t, sa)
    PROVE  IntStep
<1>1. gpr[t[1]] \in DWord /\ gpr[t[2]] \in DWord
  BY TypeFacts
<1>2. PICK a \in Nat : a = gpr[t[1]]
  BY <1>1, DWordNat
<1>3. sa \in Nat /\ W \in Nat /\ W # 0 /\ D \in Nat /\ D # 0
  BY DataAssumption, WidthNat
<1>4. a % W \in Nat /\ a % D \in Nat /\ sa + W \in Nat
  BY <1>3
<1>5. PICK n \in Nat : n = CASE op \in {"sllv", "srlv", "srav"}       -> gpr[t[1]] % W
                             [] op \in {"dsllv", "dsrlv", "dsrav"}    -> gpr[t[1]] % D
                             [] op \in {"dsll32", "dsrl32", "dsra32"} -> sa + W
                             [] OTHER                                 -> sa
  BY <1>2, <1>3, <1>4
<1>6. PICK i : ToGpr(i, t[3], Shifted(op, gpr[t[2]], n), op \notin Narrow)
  BY <1>5, Zenon DEF Shift, Narrow
<1>7. PICK x \in DWord : x = Shifted(op, gpr[t[2]], n) /\ (op \in Narrow => Canonical64(x))
  BY <1>1, ShiftedRange
<1>8. PICK w \in BOOLEAN : w = (op \notin Narrow)
  OBVIOUS
<1> QED
  BY <1>6, <1>7, <1>8, ToGprStep

LEMMA AddStep ==
    ASSUME TypeOK, NEW op, NEW t \in Operands, NEW b \in DWord, NEW rd, Add(op, t, b, rd)
    PROVE  IntStep
<1>1. PICK a \in DWord : a = gpr[t[1]]
  BY TypeFacts
<1>2. a \in Nat /\ b \in Nat
  BY DWordNat
<1>3. PICK s \in Int : s = a + b
  BY <1>2
<1>4. s % 2^W \in Word /\ s % 2^D \in DWord
  BY ModWord, ModDWord
<1>5. PICK i : \/ raise("ov", i)
               \/ ToGpr(i, rd, sext64(s % 2^W), W = D)
               \/ ToGpr(i, rd, s % 2^D, D = D)
  <2>1. W # D
    BY WidthNat
  <2> QED
    BY <1>1, <1>3, <2>1 DEF Add
<1>6. "ov" \in Codes /\ "ov" # "sigfpe"
  BY DEF Codes
<1>7. CASE raise("ov", i)
  BY <1>6, <1>7, RaiseStep
<1>8. CASE ToGpr(i, rd, sext64(s % 2^W), W = D)
  <2>1. PICK x \in DWord : x = sext64(s % 2^W) /\ Canonical64(x)
    BY <1>4, SextWord
  <2>2. PICK w \in BOOLEAN : w = (W = D)
    OBVIOUS
  <2> QED
    BY <1>8, <2>1, <2>2, ToGprStep
<1>9. CASE ToGpr(i, rd, s % 2^D, D = D)
  <2>1. PICK x \in DWord : x = s % 2^D
    BY <1>4
  <2>2. PICK w \in BOOLEAN : w = (D = D) /\ w
    OBVIOUS
  <2> QED
    BY <1>9, <2>1, <2>2, ToGprStep
<1> QED
  BY <1>5, <1>7, <1>8, <1>9

LEMMA SubStep == ASSUME TypeOK, NEW op, NEW t \in Operands, Sub(op, t) PROVE IntStep
<1>1. PICK a \in DWord, b \in DWord : a = gpr[t[1]] /\ b = gpr[t[2]]
  BY TypeFacts
<1>2. a \in Nat /\ b \in Nat
  BY DWordNat
<1>3. PICK s \in Int : s = a - b
  BY <1>2
<1>4. s % 2^W \in Word /\ s % 2^D \in DWord
  BY ModWord, ModDWord
<1>5. PICK i : \/ raise("ov", i)
               \/ ToGpr(i, t[3], sext64(s % 2^W), W = D)
               \/ ToGpr(i, t[3], s % 2^D, D = D)
  <2>1. W # D
    BY WidthNat
  <2> QED
    BY <1>1, <1>3, <2>1 DEF Sub
<1>6. "ov" \in Codes /\ "ov" # "sigfpe"
  BY DEF Codes
<1>7. CASE raise("ov", i)
  BY <1>6, <1>7, RaiseStep
<1>8. CASE ToGpr(i, t[3], sext64(s % 2^W), W = D)
  <2>1. PICK x \in DWord : x = sext64(s % 2^W) /\ Canonical64(x)
    BY <1>4, SextWord
  <2>2. PICK w \in BOOLEAN : w = (W = D)
    OBVIOUS
  <2> QED
    BY <1>8, <2>1, <2>2, ToGprStep
<1>9. CASE ToGpr(i, t[3], s % 2^D, D = D)
  <2>1. PICK x \in DWord : x = s % 2^D
    BY <1>4
  <2>2. PICK w \in BOOLEAN : w = (D = D) /\ w
    OBVIOUS
  <2> QED
    BY <1>9, <2>1, <2>2, ToGprStep
<1> QED
  BY <1>5, <1>7, <1>8, <1>9

LEMMA LuiStep == ASSUME TypeOK, NEW i \in Imm, NEW rt, Lui(i, rt) PROVE IntStep
<1>1. i * 2^H \in Int
  <2>1. i \in DWord
    BY ImmCanonical
  <2>2. i \in Nat /\ 2^H \in Nat
    BY <2>1, DWordNat, WidthNat, PowPos
  <2> QED
    BY <2>2
<1>2. PICK x \in DWord : x = sext64((i * 2^H) % 2^W) /\ Canonical64(x)
  BY <1>1, ModWord, SextWord
<1>3. PICK w \in BOOLEAN : w = FALSE
  OBVIOUS
<1> QED
  BY <1>2, <1>3, ToGprStep DEF Lui

LEMMA TrapStep == ASSUME TypeOK, NEW op, NEW t, NEW b, Trap(op, t, b) PROVE IntStep
<1>1. "trap" \in Codes /\ "trap" # "sigfpe"
  BY DEF Codes
<1>2. PICK i : raise("trap", i) \/ ToGpr(i, 0, 0, FALSE)
  BY DEF Trap
<1>3. CASE raise("trap", i)
  BY <1>1, <1>3, RaiseStep
<1>4. CASE ToGpr(i, 0, 0, FALSE)
  <2>1. PICK x \in DWord, w \in BOOLEAN, r \in {0} : x = 0 /\ r = 0 /\ w = FALSE /\ Canonical64(x)
    BY ZeroCanonical
  <2> QED
    BY <1>4, <2>1, ToGprStep
<1> QED
  BY <1>2, <1>3, <1>4

LEMMA CondMoveStep == ASSUME TypeOK, NEW op, NEW t \in Operands, NEW cc, CondMove(op, t, cc) PROVE IntStep
<1>1. /\ gpr[t[1]] \in DWord /\ gpr[t[3]] \in DWord
      /\ t[1] \in DOMAIN gpr /\ t[3] \in DOMAIN gpr
  BY TypeFacts
<1>2. PICK i : raise("ri", i) \/ ToGpr(i, t[3], gpr[t[1]], FALSE) \/ ToGpr(i, t[3], gpr[t[3]], FALSE)
  BY DEF CondMove
<1>3. CASE raise("ri", i)
  BY <1>3, RiStep
<1>4. CASE \E s \in {t[1], t[3]} : ToGpr(i, t[3], gpr[s], FALSE)
  <2>1. PICK s \in DOMAIN gpr : ToGpr(i, t[3], gpr[s], FALSE)
    BY <1>1, <1>4
  <2>2. PICK x \in DWord : x = gpr[s]
    BY TypeFacts
  <2>3. Canon => Canonical64(x)
    BY <2>2, CanonGpr
  <2>4. PICK w \in BOOLEAN : w = FALSE
    OBVIOUS
  <2> QED
    BY <2>1, <2>2, <2>3, <2>4, ToGprStep
<1> QED
  BY <1>2, <1>3, <1>4

LEMMA MoveHiLoStep ==
    ASSUME TypeOK, NEW op \in {"mfhi", "mflo", "mthi", "mtlo"}, NEW t \in Operands, MoveHiLo(op, t)
    PROVE  IntStep
<1>1. gpr[t[1]] \in DWord /\ t[1] \in DOMAIN gpr /\ hi \in DWord /\ lo \in DWord
  BY TypeFacts
<1>2. Canon => Canonical64(hi) /\ Canonical64(lo) /\ Canonical64(gpr[t[1]])
  BY <1>1 DEF Canon
<1>3. PICK w \in BOOLEAN : w = FALSE
  OBVIOUS
<1>4. PICK i : \/ ToGpr(i, t[3], hi, w) \/ ToGpr(i, t[3], lo, w)
               \/ ToHiLo(i, gpr[t[1]], lo, w) \/ ToHiLo(i, hi, gpr[t[1]], w)
  BY <1>3 DEF MoveHiLo
<1>5. CASE ToGpr(i, t[3], hi, w)
  BY <1>1, <1>2, <1>5, ToGprStep
<1>6. CASE ToGpr(i, t[3], lo, w)
  BY <1>1, <1>2, <1>6, ToGprStep
<1>7. CASE ToHiLo(i, gpr[t[1]], lo, w)
  BY <1>1, <1>2, <1>7, ToHiLoStep
<1>8. CASE ToHiLo(i, hi, gpr[t[1]], w)
  BY <1>1, <1>2, <1>8, ToHiLoStep
<1> QED
  BY <1>4, <1>5, <1>6, <1>7, <1>8
-----------------------------------------------------------------------------
(* Logical instructions: a sign-extended word is one whose upper bits agree. *)

LEMMA PlaceOne == ASSUME NEW n \in Nat PROVE Place(1, n) = 2^n
<1>1. 1 * n = n
  OBVIOUS
<1> QED
  BY <1>1 DEF Place

LEMMA BitRange == ASSUME NEW x \in Nat, NEW k \in Nat PROVE Digit(x, k, 1) \in {0, 1}
<1>1. PICK b \in Nat : b = 1
  OBVIOUS
<1>2. Place(b, 1) = 2
  <2>1. 2^1 = 2
    OBVIOUS
  <2> QED
    BY <1>1, <2>1, PlaceEnds
<1>3. Digit(x, k, b) \in Nat /\ Digit(x, k, b) < Place(b, 1)
  BY DigitRange
<1> QED
  BY <1>1, <1>2, <1>3

LEMMA LowDigits ==
    ASSUME NEW x \in DWord, NEW k \in Nat, k < W PROVE Digit(x, k, 1) = Digit(Lo(x), k, 1)
<1>1. High(x) \in Word /\ Lo(x) \in Word /\ x = High(x) * 2^W + Lo(x)
  BY HighLow
<1>2. PICK a, b \in Nat : a = High(x) /\ b = Lo(x)
  BY <1>1, WordNat
<1>3. PICK o, w \in Nat : o = 1 /\ w = W /\ Place(o, w) = 2^W
  BY WidthNat, PlaceOne
<1>4. Digit(b + a * Place(o, w), k, o) = Digit(b, k, o)
  BY <1>3, DigitOfSum
<1>5. x = b + a * Place(o, w)
  <2>1. PICK p \in Nat : p = 2^W
    BY WidthNat, PowPos
  <2> QED
    BY <1>1, <1>2, <1>3, <2>1
<1> QED
  BY <1>2, <1>3, <1>4, <1>5

\* Bit k of a number between -2^k and 2^k, as a doubleword, is its sign.
LEMMA SignBit ==
    ASSUME NEW v \in Int, v \in SWord, NEW k \in Nat, W - 1 <= k, k < D
    PROVE  Digit(v % 2^D, k, 1) = IF v < 0 THEN 1 ELSE 0
<1>1. PICK h, q \in Nat : /\ h >= 8 /\ 2^(W - 1) = h /\ 2^W = h + h
                          /\ q > 0 /\ 2^(D - 1) = q /\ 2^D = q + q
                          /\ q + q = (h + h) * (h + h)
  BY Widths
<1>2. v >= -h /\ v < h
  BY <1>1 DEF SWord
<1>3. PICK p \in Nat : p = 2^k /\ p >= h /\ p > 0
  <2>1. W - 1 \in Nat
    BY WidthNat
  <2> QED
    BY <1>1, <2>1, PowLeq, PowPos
<1>4. PICK m \in Nat : 2^D = (m + m) * p
  <2>1. PICK j \in Nat : D = k + j /\ j # 0
    <3>1. D - k \in Nat /\ D = k + (D - k) /\ D - k # 0
      BY WidthNat
    <3> QED
      BY <3>1
  <2>2. PICK m \in Nat : 2^j = m + m
    BY <2>1, Halves
  <2>3. 2^(k + j) = 2^k * 2^j
    BY PowSum
  <2>4. p * (m + m) = (m + m) * p
    OBVIOUS
  <2> QED
    BY <1>3, <2>1, <2>2, <2>3, <2>4
<1>5. PICK d \in Nat : d = 2^D /\ d = (m + m) * p /\ d > 0 /\ d >= h
  <2>1. h <= q
    BY <1>1
  <2> QED
    BY <1>1, <1>4, <2>1
<1>6. 2^(1 * k) = p /\ 2^1 = 2
  <2>1. 1 * k = k
    OBVIOUS
  <2> QED
    BY <1>3, <2>1
<1>7. CASE v >= 0
  <2>1. PICK x \in Nat : x = v /\ x < d /\ x < p
    BY <1>2, <1>3, <1>5, <1>7
  <2>2. x % d = x /\ x \div p = 0
    BY <2>1, DivOfLess
  <2>3. 0 % 2 = 0
    OBVIOUS
  <2> QED
    BY <1>5, <1>6, <1>7, <2>1, <2>2, <2>3 DEF Digit
<1>8. CASE v < 0
  <2>1. PICK x \in Nat : x = v + d /\ x < d
    BY <1>2, <1>5, <1>8
  <2>2. v % d = x
    <3>1. PICK y, z \in Int : y = x /\ z = -1
      OBVIOUS
    <3>2. (y + z * d) % d = y % d
      BY <1>5, DivShift
    <3>3. y + z * d = v
      BY <2>1, <3>1
    <3>4. x % d = x
      BY <2>1, DivOfLess
    <3> QED
      BY <3>1, <3>2, <3>3, <3>4
  <2>3. PICK r \in Nat : r = v + p /\ r < p
    BY <1>2, <1>3, <1>8
  <2>4. PICK a \in Int : a = m + m - 1
    OBVIOUS
  <2>5. x = a * p + r
    <3>1. PICK e, f \in Int : e = m + m /\ f = -1
      OBVIOUS
    <3>2. (e + f) * p = e * p + f * p
      BY Distribute
    <3> QED
      BY <1>5, <2>1, <2>3, <2>4, <3>1, <3>2
  <2>6. x \div p = a
    BY <1>3, <2>3, <2>5, DivUnique
  <2>7. a % 2 = 1
    BY <2>4
  <2> QED
    BY <1>5, <1>6, <1>8, <2>2, <2>6, <2>7 DEF Digit
<1> QED
  BY <1>7, <1>8

LEMMA CanonicalBits ==
    ASSUME NEW x \in DWord, Canonical64(x), NEW k \in Nat, W - 1 <= k, k < D
    PROVE  Digit(x, k, 1) = Digit(x, W - 1, 1)
<1>1. PICK v \in Int : v \in SWord /\ x = v % 2^D
  <2>1. PICK v \in Int : v = SW(x) /\ v \in SWord
    BY SignedInt
  <2> QED
    BY <2>1 DEF Canonical64, sext64, SW
<1>2. PICK j \in Nat : j = W - 1 /\ W - 1 <= j /\ j < D
  BY WidthNat
<1>3. Digit(v % 2^D, k, 1) = IF v < 0 THEN 1 ELSE 0
  BY <1>1, SignBit
<1>4. Digit(v % 2^D, j, 1) = IF v < 0 THEN 1 ELSE 0
  BY <1>1, <1>2, SignBit, ZenonT(30)
<1> QED
  BY <1>1, <1>2, <1>3, <1>4

LEMMA BitsCanonical ==
    ASSUME NEW x \in DWord,
           \A k \in Nat : W - 1 <= k /\ k < D => Digit(x, k, 1) = Digit(x, W - 1, 1)
    PROVE  Canonical64(x)
<1>1. Lo(x) \in Word
  BY HighLow
<1>2. PICK z \in DWord : z = sext64(Lo(x)) /\ Canonical64(z) /\ Lo(z) = Lo(x)
  BY <1>1, SextWord
<1>3. ASSUME NEW k \in Nat, k < W PROVE Digit(x, k, 1) = Digit(z, k, 1)
  BY <1>2, <1>3, LowDigits
<1>4. PICK j \in Nat : j = W - 1 /\ j < W
  BY WidthNat
<1>5. ASSUME NEW k \in Nat, k < D PROVE Digit(x, k, 1) = Digit(z, k, 1)
  <2>1. CASE k < W
    BY <1>3, <2>1
  <2>2. CASE ~(k < W)
    <3>1. W - 1 <= k
      BY <2>2, WidthNat
    <3>2. Digit(x, k, 1) = Digit(x, W - 1, 1)
      BY <1>5, <3>1
    <3>3. Digit(z, k, 1) = Digit(z, W - 1, 1)
      BY <1>2, <1>5, <3>1, CanonicalBits
    <3>4. Digit(x, j, 1) = Digit(z, j, 1)
      BY <1>3, <1>4
    <3> QED
      BY <1>4, <3>2, <3>3, <3>4
  <2> QED
    BY <2>1, <2>2
<1>6. PICK o, n \in Nat : o = 1 /\ n = D /\ Place(o, n) = 2^D
  BY WidthNat, PlaceOne
<1>7. SameDigits(x, z, n, o)
  BY <1>5, <1>6 DEF SameDigits
<1>8. PICK a, b \in Nat : a = x /\ b = z /\ a < Place(o, n) /\ b < Place(o, n)
  BY <1>6, DWordNat
<1>9. a = b
  BY <1>7, <1>8, DigitsEqual
<1> QED
  BY <1>2, <1>8, <1>9 DEF Canonical64

LogicOps == {"and", "or", "xor", "nor"}
LogicDigits(op, a, b) == [k \in 0..(D - 1) |-> LogicBit(op, Digit(a, k, 1), Digit(b, k, 1))]

LEMMA LogicBitRange ==
    ASSUME NEW op \in LogicOps, NEW x \in {0, 1}, NEW y \in {0, 1} PROVE LogicBit(op, x, y) \in {0, 1}
BY DEF LogicOps, LogicBit, Bool

LEMMA LogicNumber ==
    ASSUME NEW op \in LogicOps, NEW a \in DWord, NEW b \in DWord
    PROVE  LET x == Number(D, 1, LogicDigits(op, a, b)) IN
           /\ x \in DWord
           /\ Canonical64(a) /\ Canonical64(b) => Canonical64(x)
<1>1. PICK o, n \in Nat : o = 1 /\ n = D /\ Place(o, n) = 2^D
  BY WidthNat, PlaceOne
<1>2. PICK d : d = LogicDigits(op, a, b)
  OBVIOUS
<1>3. a \in Nat /\ b \in Nat
  BY DWordNat
<1>4. Place(o, 1) = 2
  <2>1. 2^1 = 2
    OBVIOUS
  <2> QED
    BY <1>1, <2>1, PlaceEnds
<1>5. ASSUME NEW k \in Nat, k < n
      PROVE  d[k] = LogicBit(op, Digit(a, k, 1), Digit(b, k, 1)) /\ d[k] \in {0, 1}
  <2>1. d[k] = LogicBit(op, Digit(a, k, 1), Digit(b, k, 1))
    BY <1>1, <1>2, <1>5 DEF LogicDigits
  <2>2. Digit(a, k, 1) \in {0, 1} /\ Digit(b, k, 1) \in {0, 1}
    BY <1>3, BitRange
  <2> QED
    BY <2>1, <2>2, LogicBitRange, Zenon
<1>6. \A k \in 0..(n - 1) : d[k] \in Nat /\ d[k] < Place(o, 1)
  BY <1>4, <1>5
<1>7. PICK x \in Nat : x = Number(n, o, d) /\ x < Place(o, n) /\ \A k \in 0..(n - 1) : Digit(x, k, o) = d[k]
  BY <1>6, NumberDigits
<1>8. x \in DWord
  BY <1>1, <1>7, NatDWord
<1>9. ASSUME Canonical64(a), Canonical64(b) PROVE Canonical64(x)
  <2>1. ASSUME NEW k \in Nat, W - 1 <= k, k < D PROVE Digit(x, k, 1) = Digit(x, W - 1, 1)
    <3>1. PICK j \in Nat : j = W - 1 /\ j < n
      BY <1>1, WidthNat
    <3>2. Digit(a, k, 1) = Digit(a, W - 1, 1) /\ Digit(b, k, 1) = Digit(b, W - 1, 1)
      BY <1>9, <2>1, CanonicalBits
    <3>3. d[k] = d[j]
      BY <1>1, <1>5, <2>1, <3>1, <3>2
    <3> QED
      BY <1>1, <1>7, <2>1, <3>1, <3>3
  <2> QED
    BY <1>8, <2>1, BitsCanonical
<1> QED
  BY <1>1, <1>2, <1>7, <1>8, <1>9

LEMMA LogicStep ==
    ASSUME TypeOK, NEW op \in {"and", "or", "xor", "nor", "slt", "sltu"}, NEW t \in Operands,
           NEW b \in DWord, Canon => Canonical64(b), NEW rd, Logic(op, t, b, rd)
    PROVE  IntStep
<1>1. PICK a \in DWord : a = gpr[t[1]] /\ (Canon => Canonical64(a))
  BY TypeFacts, CanonGpr
<1>2. PICK w \in BOOLEAN : w = FALSE
  OBVIOUS
<1>3. CASE op \in LogicOps
  <2>1. PICK i : ToGpr(i, rd, Number(D, 1, LogicDigits(op, a, b)), w)
    BY <1>1, <1>2, <1>3 DEF Logic, LogicDigits, LogicOps
  <2>2. PICK x \in DWord : /\ x = Number(D, 1, LogicDigits(op, a, b))
                           /\ Canonical64(a) /\ Canonical64(b) => Canonical64(x)
    BY <1>3, LogicNumber
  <2> QED
    BY <1>1, <1>2, <2>1, <2>2, ToGprStep
<1>4. CASE op \in {"slt", "sltu"}
  <2>1. PICK i, c : ToGpr(i, rd, Bool(c), w)
    BY <1>2, <1>4 DEF Logic
  <2>2. PICK x \in DWord : x = Bool(c) /\ Canonical64(x)
    BY BoolCanonical
  <2> QED
    BY <1>2, <2>1, <2>2, ToGprStep
<1> QED
  BY <1>3, <1>4 DEF LogicOps

LEMMA MultStep ==
    ASSUME TypeOK, NEW op \in {"mult", "multu", "dmult", "dmultu"}, NEW t \in Operands, Mult(op, t)
    PROVE  IntStep
<1>1. PICK a \in DWord, b \in DWord : a = gpr[t[1]] /\ b = gpr[t[2]]
  BY TypeFacts
<1>2. /\ a \in Nat /\ b \in Nat /\ SW(a) \in Int /\ SW(b) \in Int /\ SD(a) \in Int /\ SD(b) \in Int
      /\ Lo(a) \in Nat /\ Lo(b) \in Nat
  BY DWordNat, SignedInt, HighLow, WordNat
<1>3. PICK y : y = CASE op = "mult"   -> SW(a) * SW(b)
                     [] op = "multu"  -> Lo(a) * Lo(b)
                     [] op = "dmult"  -> SD(a) * SD(b)
                     [] op = "dmultu" -> a * b
  OBVIOUS
<1>4. y \in Int
  BY <1>2, <1>3
<1>5. PICK k, d \in Nat : k = 2^W /\ k > 0 /\ d = 2^D /\ d > 0
  BY WidthNat, PowPos
<1>6. y \div k \in Int /\ y \div d \in Int
  BY <1>4, <1>5, DivMod
<1>7. PICK i : IF op \in {"mult", "multu"}
               THEN ToHiLo(i, sext64((y \div 2^W) % 2^W), sext64(y % 2^W), FALSE)
               ELSE ToHiLo(i, (y \div 2^D) % 2^D, y % 2^D, TRUE)
  BY <1>1, <1>3, Zenon DEF Mult
<1>8. CASE op \in {"mult", "multu"}
  <2>1. PICK h \in DWord : h = sext64((y \div 2^W) % 2^W) /\ Canonical64(h)
    BY <1>5, <1>6, ModWord, SextWord
  <2>2. PICK l \in DWord : l = sext64(y % 2^W) /\ Canonical64(l)
    BY <1>4, ModWord, SextWord
  <2>3. PICK w \in BOOLEAN : w = FALSE
    OBVIOUS
  <2> QED
    BY <1>7, <1>8, <2>1, <2>2, <2>3, ToHiLoStep
<1>9. CASE op \notin {"mult", "multu"}
  <2>1. PICK h \in DWord, l \in DWord : h = (y \div 2^D) % 2^D /\ l = y % 2^D
    BY <1>4, <1>5, <1>6, ModDWord
  <2>2. PICK w \in BOOLEAN : w = TRUE
    OBVIOUS
  <2> QED
    BY <1>7, <1>9, <2>1, <2>2, ToHiLoStep
<1> QED
  BY <1>8, <1>9

LEMMA QuotInt == ASSUME NEW a \in Int, NEW b \in Int, b # 0 PROVE Quot(a, b) \in Int /\ Rem(a, b) \in Int
<1>1. PICK u \in Int, k \in Nat : u = Abs(a) /\ k = Abs(b) /\ k > 0
  BY DEF Abs
<1>2. PICK q \in Int : q = u \div k
  BY <1>1, DivMod
<1>3. Quot(a, b) = q \/ Quot(a, b) = -q
  BY <1>1, <1>2 DEF Quot
<1>4. PICK p \in Int : p = Quot(a, b)
  BY <1>2, <1>3
<1> QED
  BY <1>4 DEF Rem

LEMMA DivideStep ==
    ASSUME TypeOK, NEW op \in {"div", "divu", "ddiv", "ddivu"}, NEW t \in Operands, Divide(op, t)
    PROVE  IntStep
<1>1. PICK a \in DWord, b \in DWord : a = gpr[t[1]] /\ b = gpr[t[2]] /\ (Canon => Canonical64(b))
  BY TypeFacts, CanonGpr
<1>2. /\ a \in Nat /\ b \in Nat /\ SW(a) \in Int /\ SW(b) \in Int /\ SD(a) \in Int /\ SD(b) \in Int
      /\ Lo(a) \in Word /\ Lo(b) \in Word /\ Lo(a) \in Nat /\ Lo(b) \in Nat /\ Lo(a) < 2^W /\ Lo(b) < 2^W
      /\ a < 2^D /\ b < 2^D
  BY DWordNat, SignedInt, HighLow, WordNat
<1>3. hi \in DWord /\ lo \in DWord /\ (Canon => Canonical64(hi) /\ Canonical64(lo))
  BY TypeFacts DEF Canon
<1>4. PICK n, y \in BOOLEAN : n = FALSE /\ y = TRUE
  OBVIOUS
<1>5. PICK i : i = Insn(op, t, gpr[t[2]])
  OBVIOUS
<1> DEFINE zero == IF op = "div" THEN SW(b) = 0 ELSE b = 0
<1>6. CASE zero
  <2>1. ToHiLo(i, hi, lo, n)
    BY <1>1, <1>4, <1>5, <1>6 DEF Divide
  <2> QED
    BY <1>3, <1>4, <2>1, ToHiLoStep
<1>7. CASE ~zero /\ op = "div"
  <2>1. ToHiLo(i, sext64(Rem(SW(a), SW(b)) % 2^W), sext64(Quot(SW(a), SW(b)) % 2^W), n)
    BY <1>1, <1>4, <1>5, <1>7 DEF Divide
  <2>2. Quot(SW(a), SW(b)) \in Int /\ Rem(SW(a), SW(b)) \in Int
    BY <1>2, <1>7, QuotInt
  <2>3. PICK h \in DWord : h = sext64(Rem(SW(a), SW(b)) % 2^W) /\ Canonical64(h)
    BY <2>2, ModWord, SextWord
  <2>4. PICK l \in DWord : l = sext64(Quot(SW(a), SW(b)) % 2^W) /\ Canonical64(l)
    BY <2>2, ModWord, SextWord
  <2> QED
    BY <1>4, <2>1, <2>3, <2>4, ToHiLoStep
<1>8. CASE ~zero /\ op = "divu"
  <2>1. PICK u, v \in Nat : u = Lo(a) /\ v = Lo(b) /\ u < 2^W /\ v < 2^W
    BY <1>2
  <2>2. CASE v = 0
    <3>1. raise("sigfpe", i)
      BY <1>1, <1>5, <1>8, <2>1, <2>2 DEF Divide
    <3>2. ~Canon
      <4>1. SUFFICES ASSUME Canon PROVE FALSE
        OBVIOUS
      <4>2. b = sext64(0)
        BY <1>1, <2>1, <2>2, <4>1 DEF Canonical64
      <4>3. 0 = sext64(Lo(0))
        BY ZeroCanonical DEF Canonical64
      <4>4. Lo(0) = 0
        <5>1. PICK p, z \in Nat : p = 2^W /\ z = 0 /\ z < p
          BY WidthNat, PowPos
        <5>2. z % p = z
          BY <5>1, DivOfLess
        <5> QED
          BY <5>1, <5>2 DEF Lo
      <4> QED
        BY <1>8, <4>2, <4>3, <4>4
    <3>3. "sigfpe" \in Codes
      BY DEF Codes
    <3> QED
      BY <3>1, <3>2, <3>3, RaiseStep
  <2>3. CASE v > 0
    <3>0. Lo(b) # 0 /\ b # 0
      BY <1>8, <2>1, <2>3
    <3>1. ToHiLo(i, sext64(u % v), sext64(u \div v), n)
      <4>1. ToHiLo(i, sext64(Lo(a) % Lo(b)), sext64(Lo(a) \div Lo(b)), FALSE)
        BY <1>1, <1>5, <1>8, <3>0, Zenon DEF Divide
      <4> QED
        BY <1>4, <2>1, <4>1
    <3>2. u % v \in Nat /\ u % v < v
      BY <2>3
    <3>3. u \div v \in Nat /\ u \div v <= u
      BY <2>3, DivLeq
    <3>4. u % v \in Word /\ u \div v \in Word
      BY <2>1, <3>2, <3>3, WidthNat, PowPos, NatWord
    <3>5. PICK h \in DWord, l \in DWord : h = sext64(u % v) /\ Canonical64(h) /\ l = sext64(u \div v) /\ Canonical64(l)
      BY <3>4, SextWord
    <3> QED
      BY <1>4, <3>1, <3>5, ToHiLoStep
  <2> QED
    BY <2>1, <2>2, <2>3
<1>9. CASE ~zero /\ op = "ddiv"
  <2>1. \/ ToHiLo(i, 0, a, y)
        \/ ToHiLo(i, Rem(SD(a), SD(b)) % 2^D, Quot(SD(a), SD(b)) % 2^D, y)
    BY <1>1, <1>4, <1>5, <1>9 DEF Divide
  <2>2. SD(b) # 0
    <3>1. PICK q \in Nat : q > 0 /\ 2^(D - 1) = q /\ 2^D = q + q
      BY Widths
    <3> QED
      BY <1>2, <1>9, <3>1 DEF SD, sgn
  <2>3. Quot(SD(a), SD(b)) \in Int /\ Rem(SD(a), SD(b)) \in Int
    BY <1>2, <2>2, QuotInt
  <2>4. PICK h \in DWord, l \in DWord : h = Rem(SD(a), SD(b)) % 2^D /\ l = Quot(SD(a), SD(b)) % 2^D
    BY <2>3, ModDWord
  <2>5. PICK z \in DWord : z = 0
    BY ZeroCanonical
  <2> QED
    BY <1>4, <2>1, <2>4, <2>5, ToHiLoStep
<1>10. CASE ~zero /\ op = "ddivu"
  <2>1. ToHiLo(i, a % b, a \div b, y)
    BY <1>1, <1>4, <1>5, <1>10 DEF Divide
  <2>2. a % b \in Nat /\ a % b < b
    BY <1>2, <1>10
  <2>3. a \div b \in Nat /\ a \div b <= a
    BY <1>2, <1>10, DivLeq
  <2>4. PICK h \in DWord, l \in DWord : h = a % b /\ l = a \div b
    BY <1>2, <2>2, <2>3, WidthNat, PowPos, NatDWord
  <2> QED
    BY <1>4, <2>1, <2>4, ToHiLoStep
<1> QED
  BY <1>6, <1>7, <1>8, <1>9, <1>10
-----------------------------------------------------------------------------
(* Digits of quotients, remainders and sums. *)

LEMMA DivDiv ==
    ASSUME NEW x \in Nat, NEW p \in Nat, p > 0, NEW q \in Nat, q > 0
    PROVE  (x \div p) \div q = x \div (p * q)
<1>1. PICK z \in Int : z = x
  OBVIOUS
<1>2. PICK a \in Int, r \in Nat : a = z \div p /\ r = z % p /\ r < p /\ z = a * p + r
  BY Divided
<1>3. PICK b \in Int, s \in Nat : b = a \div q /\ s = a % q /\ s < q /\ a = b * q + s
  BY Divided
<1>4. PICK k \in Nat : k = p * q /\ k > 0
  <2>1. p * q \in Nat /\ p * q > 0
    OBVIOUS
  <2> QED
    BY <2>1
<1>5. PICK u \in Nat : u = s * p + r /\ u < k
  <2>1. PICK e, f \in Int : e = s /\ f = q /\ e < f
    BY <1>3
  <2>2. e * p + p <= f * p
    BY <2>1, MulLess
  <2>3. s * p + r \in Nat /\ f * p = p * q /\ e * p = s * p
    BY <2>1
  <2> QED
    BY <1>2, <1>4, <2>2, <2>3
<1>6. z = b * k + u
  <2>1. PICK c \in Int : c = b * q
    OBVIOUS
  <2>2. PICK t \in Int : t = s
    OBVIOUS
  <2>3. (c + t) * p = c * p + t * p
    BY Distribute
  <2>4. (b * q) * p = b * (p * q)
    OBVIOUS
  <2> QED
    BY <1>2, <1>3, <1>4, <1>5, <2>1, <2>2, <2>3, <2>4
<1>7. z \div k = b
  BY <1>4, <1>5, <1>6, DivUnique
<1> QED
  BY <1>1, <1>2, <1>3, <1>4, <1>7

LEMMA ModMultiple ==
    ASSUME NEW z \in Nat, NEW p \in Nat, p > 0, NEW q \in Nat, q > 0
    PROVE  (z * p) % (p * q) = (z % q) * p
<1>1. PICK y \in Int : y = z
  OBVIOUS
<1>2. PICK a \in Int, r \in Nat : a = y \div q /\ r = y % q /\ r < q /\ y = a * q + r
  BY Divided
<1>3. PICK k \in Nat : k = p * q /\ k > 0
  <2>1. p * q \in Nat /\ p * q > 0
    OBVIOUS
  <2> QED
    BY <2>1
<1>4. PICK u \in Nat : u = r * p /\ u < k
  <2>1. PICK e, f \in Int : e = r /\ f = q /\ e < f
    BY <1>2
  <2>2. e * p + p <= f * p
    BY <2>1, MulLess
  <2>3. r * p \in Nat /\ f * p = p * q /\ e * p = r * p
    BY <2>1
  <2> QED
    BY <1>3, <2>2, <2>3
<1>5. y * p = a * k + u
  <2>1. PICK c \in Int : c = a * q
    OBVIOUS
  <2>2. PICK t \in Int : t = r
    OBVIOUS
  <2>3. (c + t) * p = c * p + t * p
    BY Distribute
  <2>4. (a * q) * p = a * (p * q)
    OBVIOUS
  <2> QED
    BY <1>2, <1>3, <1>4, <2>1, <2>2, <2>3, <2>4
<1>6. (a * k + u) % k = u
  BY <1>3, <1>4, DivUnique
<1> QED
  BY <1>1, <1>2, <1>3, <1>4, <1>5, <1>6

LEMMA DigitOfDiv ==
    ASSUME NEW b \in Nat, NEW x \in Nat, NEW m \in Nat, NEW k \in Nat
    PROVE  x \div Place(b, m) \in Nat /\ Digit(x \div Place(b, m), k, b) = Digit(x, k + m, b)
<1>1. PICK p, q, o \in Nat : p = Place(b, m) /\ q = Place(b, k) /\ o = Place(b, 1) /\ p > 0 /\ q > 0
  BY PlacePos
<1>2. Place(b, k + m) = p * q
  BY <1>1, PlaceSum
<1>3. (x \div p) \div q = x \div (p * q)
  BY <1>1, DivDiv
<1>4. x \div p \in Nat
  BY <1>1, DivLeq
<1> QED
  BY <1>1, <1>2, <1>3, <1>4, DigitPlace

LEMMA DigitOfMod ==
    ASSUME NEW b \in Nat, NEW x \in Nat, NEW m \in Nat, NEW k \in Nat, k < m
    PROVE  /\ x % Place(b, m) \in Nat /\ x % Place(b, m) < Place(b, m)
           /\ Digit(x % Place(b, m), k, b) = Digit(x, k, b)
<1>1. PICK p \in Nat : p = Place(b, m) /\ p > 0
  BY PlacePos
<1>2. PICK z \in Int : z = x
  OBVIOUS
<1>3. PICK a \in Int, r \in Nat : a = z \div p /\ r = z % p /\ r < p /\ z = a * p + r
  BY <1>1, Divided
<1>4. PICK c \in Nat : c = a
  BY <1>1, <1>2, <1>3, DivLeq
<1>5. Digit(r + c * Place(b, m), k, b) = Digit(r, k, b)
  BY DigitOfSum
<1>6. x = r + c * Place(b, m)
  <2>1. a * p + r = r + a * p
    OBVIOUS
  <2> QED
    BY <1>1, <1>2, <1>3, <1>4, <2>1, Zenon
<1> QED
  BY <1>1, <1>2, <1>3, <1>5, <1>6

LEMMA DigitHigher ==
    ASSUME NEW b \in Nat, NEW m \in Nat, NEW y \in Nat, y < Place(b, m), NEW c \in Nat, NEW k \in Nat, m <= k
    PROVE  Digit(y + c * Place(b, m), k, b) = Digit(c, k - m, b)
<1>1. PICK p \in Nat : p = Place(b, m) /\ p > 0
  BY PlacePos
<1>2. PICK d \in Int : d = c
  OBVIOUS
<1>3. (d * p + y) \div p = d
  BY <1>1, DivUnique
<1>4. PICK x \in Nat : x = y + c * Place(b, m) /\ x = d * p + y
  <2>1. y + c * p \in Nat /\ y + c * p = d * p + y
    BY <1>2
  <2> QED
    BY <1>1, <2>1
<1>5. PICK j \in Nat : j = k - m /\ j + m = k
  <2>1. k - m \in Nat /\ (k - m) + m = k
    OBVIOUS
  <2> QED
    BY <2>1
<1>6. Digit(x \div Place(b, m), j, b) = Digit(x, j + m, b)
  BY DigitOfDiv
<1> QED
  BY <1>1, <1>2, <1>3, <1>4, <1>5, <1>6

\* The sum of a number of m digits and one that has n - m digits above them.
JoinedAs(v, y, c, b, m, n) ==
    /\ v \in Nat /\ v < Place(b, n)
    /\ \A k \in Nat : k < n => Digit(v, k, b) = IF k < m THEN Digit(y, k, b) ELSE Digit(c, k - m, b)

LEMMA DigitsJoined ==
    ASSUME NEW b \in Nat, NEW m \in Nat, NEW n \in Nat, m <= n,
           NEW y \in Nat, y < Place(b, m), NEW c \in Nat, c < Place(b, n - m)
    PROVE  JoinedAs(y + c * Place(b, m), y, c, b, m, n)
<1>1. PICK p, q \in Nat : p = Place(b, m) /\ q = Place(b, n - m) /\ Place(b, n) = q * p
  <2>1. PICK j \in Nat : j = n - m /\ j + m = n
    <3>1. n - m \in Nat /\ (n - m) + m = n
      OBVIOUS
    <3> QED
      BY <3>1
  <2>2. Place(b, j + m) = Place(b, j) * Place(b, m)
    BY PlaceSum
  <2> QED
    BY <2>1, <2>2, PlacePos
<1>2. c * p \in Nat
  OBVIOUS
<1>3. PICK e, f \in Int : e = c /\ f = q /\ e < f
  BY <1>1
<1>4. e * p + p <= f * p
  BY <1>3, MulLess
<1>5. y + c * Place(b, m) \in Nat /\ y + c * Place(b, m) < Place(b, n)
  BY <1>1, <1>2, <1>3, <1>4
<1>6. ASSUME NEW k \in Nat, k < n
      PROVE  Digit(y + c * Place(b, m), k, b) = IF k < m THEN Digit(y, k, b) ELSE Digit(c, k - m, b)
  <2>1. CASE k < m
    BY <2>1, DigitOfSum
  <2>2. CASE ~(k < m)
    <3>1. m <= k
      BY <2>2
    <3> QED
      BY <2>2, <3>1, DigitHigher
  <2> QED
    BY <2>1, <2>2
<1> QED
  BY <1>5, <1>6, Zenon DEF JoinedAs
-----------------------------------------------------------------------------
(* Memory. *)

LEMMA BytePlaces == Place(BB, 4) = 2^W /\ Place(BB, 8) = 2^D /\ Place(BB, 1) = 2^BB
<1>1. BB * 4 = W /\ BB * 8 = D /\ BB * 1 = BB
  BY WidthNat DEF W, D
<1> QED
  BY <1>1 DEF Place

LEMMA LaneRange == ASSUME NEW n \in Nat, NEW k \in 0..(n - 1) PROVE Lane(k, n) \in 0..(n - 1) /\ Lane(Lane(k, n), n) = k
BY DataAssumption DEF Lane

LEMMA MemByte == ASSUME TypeOK, NEW b \in 0..(MemBytes - 1) PROVE mem[b] \in Nat /\ mem[b] < Place(BB, 1)
<1>1. PICK p \in Nat : p = 2^BB /\ p = Place(BB, 1)
  BY WidthNat, PowPos, BytePlaces
<1>2. mem[b] \in 0..(p - 1)
  BY <1>1, TypeFacts DEF Memory
<1> QED
  BY <1>1, <1>2

\* A number read from memory has the bytes of memory.
LEMMA ValueDigits ==
    ASSUME TypeOK, NEW ea \in Nat, NEW n \in Nat, ea + n <= MemBytes
    PROVE  /\ Value(ea, n) \in Nat /\ Value(ea, n) < Place(BB, n)
           /\ \A k \in 0..(n - 1) : Digit(Value(ea, n), k, BB) = mem[ea + Lane(k, n)]
<1>1. PICK d : d = [k \in 0..(n - 1) |-> mem[ea + Lane(k, n)]]
  OBVIOUS
<1>2. ASSUME NEW k \in 0..(n - 1)
      PROVE  d[k] = mem[ea + Lane(k, n)] /\ d[k] \in Nat /\ d[k] < Place(BB, 1)
  <2>1. PICK j \in 0..(n - 1) : j = Lane(k, n)
    BY LaneRange
  <2>2. ea + j \in 0..(MemBytes - 1)
    BY DataAssumption
  <2> QED
    BY <1>1, <2>1, <2>2, MemByte
<1>3. PICK b \in Nat : b = BB
  BY WidthNat
<1>4. /\ Number(n, b, d) \in Nat /\ Number(n, b, d) < Place(b, n)
      /\ \A k \in 0..(n - 1) : Digit(Number(n, b, d), k, b) = d[k]
  BY <1>2, <1>3, NumberDigits
<1>5. Value(ea, n) = Number(n, b, d)
  BY <1>1, <1>3 DEF Value
<1> QED
  BY <1>2, <1>3, <1>4, <1>5

LEMMA StoredMemory ==
    ASSUME TypeOK, NEW ea \in Nat, NEW n \in Nat, NEW x \in Nat PROVE Stored(ea, n, x) \in Memory
<1>1. PICK p \in Nat : p = 2^BB /\ p = Place(BB, 1)
  BY WidthNat, PowPos, BytePlaces
<1>2. mem \in [0..(MemBytes - 1) -> 0..(p - 1)]
  BY <1>1, TypeFacts DEF Memory
<1>3. ASSUME NEW b \in 0..(MemBytes - 1), b \in ea..(ea + n - 1) PROVE Digit(x, Lane(b - ea, n), BB) \in 0..(p - 1)
  <2>1. b - ea \in 0..(n - 1)
    BY <1>3, DataAssumption
  <2>2. PICK k \in Nat : k = Lane(b - ea, n)
    BY <2>1, LaneRange
  <2>3. PICK o \in Nat : o = BB
    BY WidthNat
  <2>4. Digit(x, k, o) \in Nat /\ Digit(x, k, o) < Place(o, 1)
    BY DigitRange
  <2> QED
    BY <1>1, <2>2, <2>3, <2>4
<1>4. Stored(ea, n, x) \in [0..(MemBytes - 1) -> 0..(p - 1)]
  BY <1>2, <1>3 DEF Stored
<1> QED
  BY <1>1, <1>4 DEF Memory

LEMMA AccessFacts ==
    ASSUME TypeOK, NEW n \in {1, 2, 4, 8}, NEW x \in Access(n)
    PROVE  /\ x[1] \in DOMAIN gpr /\ gpr[x[1]] \in DWord /\ gpr[x[1]] \in Nat
           /\ x[2] \in Nat /\ x[2] + n <= MemBytes /\ x[2] < MemBytes
<1>1. x[1] \in {t[2] : t \in Operands} /\ x[2] \in 0..(MemBytes - 1) /\ x[2] + n <= MemBytes
  BY DEF Access, InMem
<1>2. x[1] \in DOMAIN gpr /\ gpr[x[1]] \in DWord
  BY <1>1, TypeFacts
<1>3. gpr[x[1]] \in Nat
  BY <1>2, DWordNat
<1> QED
  BY <1>1, <1>2, <1>3, DataAssumption

\* The unsigned and the signed reading of n bytes.
LEMMA LoadedRange ==
    ASSUME NEW n \in {1, 2, 4, 8}, NEW v \in Nat, v < Place(BB, n)
    PROVE  /\ v \in DWord /\ sgn(v, BB * n) % 2^D \in DWord
           /\ n # 8 => Canonical64(sgn(v, BB * n) % 2^D)
           /\ n \in {1, 2} => Canonical64(v)
<1>1. PICK m \in Nat : m = BB * n /\ m # 0 /\ m <= D /\ (n # 8 => m <= W) /\ (n \in {1, 2} => m <= W - 1)
  <2>1. BB * 1 = BB /\ BB * 2 = BB + BB /\ BB * 4 = W /\ BB * 8 = D
    BY WidthNat DEF W, D
  <2>2. W = 4 * BB /\ D = 8 * BB
    BY DEF W, D
  <2> QED
    BY <2>1, <2>2, WidthNat
<1>2. v < 2^m
  BY <1>1 DEF Place
<1>3. PICK h \in Nat : h > 0 /\ 2^(m - 1) = h /\ 2^m = h + h
  BY <1>1, Halves
<1>4. PICK g, q \in Nat : 2^(W - 1) = g /\ 2^D = q
  BY Widths
<1>5. v \in DWord
  <2>1. 2^m <= 2^D
    BY <1>1, WidthNat, PowLeq
  <2> QED
    BY <1>2, <1>3, <1>4, <2>1, NatDWord
<1>6. PICK s \in Int : s = sgn(v, m) /\ s \in -h..(h - 1)
  <2>2. v \in 0..(2^m - 1)
    BY <1>2, <1>3
  <2>3. sgn(v, m) \in -h..(h - 1)
    BY <1>1, <1>3, <2>2, SgnRange
  <2> QED
    BY <2>3
<1>7. s % 2^D \in DWord
  BY ModDWord
<1>8. ASSUME n # 8 PROVE Canonical64(s % 2^D)
  <2>1. PICK j, k \in Nat : j = m - 1 /\ k = W - 1 /\ j <= k
    BY <1>1, <1>8, WidthNat
  <2>2. 2^j <= 2^k
    BY <2>1, PowLeq
  <2>3. s \in SWord
    BY <1>3, <1>4, <1>6, <2>1, <2>2 DEF SWord
  <2> QED
    BY <2>3, CanonicalRange
<1>9. ASSUME n \in {1, 2} PROVE Canonical64(v)
  <2>1. PICK k \in Nat : k = W - 1 /\ m <= k
    BY <1>1, <1>9, WidthNat
  <2>2. 2^m <= 2^k
    BY <2>1, PowLeq
  <2>3. v < 2^(W - 1)
    BY <1>2, <1>3, <1>4, <2>1, <2>2
  <2> QED
    BY <2>3, SmallCanonical
<1> QED
  BY <1>1, <1>5, <1>6, <1>7, <1>8, <1>9

LEMMA LoadStep ==
    ASSUME TypeOK, NEW n \in {1, 2, 4, 8}, NEW signed \in BOOLEAN, n = 8 => signed, NEW x \in Access(n),
           Load(n, signed, x[1], x[2])
    PROVE  IntStep
<1>1. "adel" \in Codes /\ "adel" # "sigfpe"
  BY DEF Codes
<1>2. PICK i : i = NoOperands("load")
  OBVIOUS
<1>3. x[2] \in Nat /\ x[2] + n <= MemBytes
  BY AccessFacts
<1>4. PICK v \in Nat : v = Value(x[2], n) /\ v < Place(BB, n)
  BY <1>3, ValueDigits
<1>5. PICK w \in BOOLEAN : w = (n = 8 \/ (n = 4 /\ ~signed))
  OBVIOUS
<1>6. PICK y \in DWord : y = (IF signed THEN sgn(v, BB * n) % 2^D ELSE v) /\ (w \/ Canonical64(y))
  BY <1>4, <1>5, LoadedRange
<1>7. raise("adel", i) \/ ToGpr(i, x[1], y, w)
  BY <1>2, <1>4, <1>5, <1>6 DEF Load
<1> QED
  BY <1>1, <1>6, <1>7, RaiseStep, ToGprStep

LEMMA StoreStep ==
    ASSUME TypeOK, NEW n \in {1, 2, 4, 8}, NEW x \in Access(n), Store(n, x[1], x[2])
    PROVE  IntStep
<1>1. "ades" \in Codes /\ "ades" # "sigfpe"
  BY DEF Codes
<1>2. PICK i, p : i = NoOperands("store") /\ p = NoPair
  OBVIOUS
<1>3. x[2] \in Nat /\ gpr[x[1]] \in Nat /\ n \in Nat
  BY AccessFacts
<1>4. PICK m \in Memory : m = Stored(x[2], n, gpr[x[1]])
  BY <1>3, StoredMemory
<1>5. raise("ades", i) \/ ToMem(i, m, p)
  BY <1>2, <1>4 DEF Store
<1> QED
  BY <1>1, <1>5, RaiseStep, ToMemStep

LEMMA StoreCondStep ==
    ASSUME TypeOK, NEW n \in {4, 8}, NEW ok \in BOOLEAN, NEW x \in Access(n), StoreCond(n, x[1], x[2], ok)
    PROVE  IntStep
<1>1. "ades" \in Codes /\ "ades" # "sigfpe" /\ "none" \in Codes
  BY DEF Codes
<1>2. /\ gpr \in [DOMAIN gpr -> DWord] /\ hi \in DWord /\ lo \in DWord /\ mem \in Memory
      /\ wide \in BOOLEAN
  BY TypeFacts
<1>3. x[2] \in Nat /\ gpr[x[1]] \in Nat /\ n \in Nat
  BY AccessFacts
<1>4. CASE raise("ades", NoOperands("sc"))
  BY <1>1, <1>4, RaiseStep
<1>5. CASE ~raise("ades", NoOperands("sc"))
  <2>1. PICK y \in DWord : y = Bool(ok) /\ Canonical64(y)
    BY BoolCanonical
  <2>2. PICK m \in Memory : m = Stored(x[2], n, gpr[x[1]])
    BY <1>3, StoredMemory
  <2>3. /\ ops' = ops + 1 /\ exc' = "none" /\ wide' = wide
        /\ gpr' = IF x[1] = 0 THEN gpr ELSE [gpr EXCEPT ![x[1]] = y]
        /\ hi' = hi /\ lo' = lo /\ (mem' = m \/ mem' = mem)
        /\ UNCHANGED <<cpr1, fcsr, fccr, mirrored, in64, fr, fpw>>
    BY <1>5, <2>1, <2>2 DEF StoreCond, Done, Ran, Put, fpu, mode
  <2>4. gpr' \in [DOMAIN gpr -> DWord] /\ DOMAIN gpr' = DOMAIN gpr
    BY <1>2, <2>3
  <2>5. ASSUME Canon PROVE Canon'
    <3>1. ASSUME NEW s \in DOMAIN gpr' PROVE Canonical64(gpr'[s])
      <4>1. gpr'[s] = y \/ gpr'[s] = gpr[s]
        BY <1>2, <2>3, <2>4
      <4> QED
        BY <2>1, <2>4, <2>5, <4>1, Zenon DEF Canon
    <3> QED
      BY <2>3, <2>5, <3>1, Zenon DEF Canon
  <2>6. mem' \in Memory
    BY <1>2, <2>2, <2>3
  <2> QED
    BY <1>1, <1>2, <2>3, <2>4, <2>5, <2>6 DEF IntStep
<1> QED
  BY <1>4, <1>5
-----------------------------------------------------------------------------
(* Unaligned accesses. *)

\* Number r moved up by m digits, over the m lowest digits of x, in n digits.
LEMMA OverLow ==
    ASSUME NEW b \in Nat, NEW n \in Nat, NEW m \in Nat, m <= n, NEW r \in Nat, NEW y \in Nat, y < Place(b, m)
    PROVE  LET v == ((r * Place(b, m)) % Place(b, n)) + y IN
           /\ v \in Nat /\ v < Place(b, n)
           /\ \A k \in Nat : k < n => Digit(v, k, b) = IF k < m THEN Digit(y, k, b) ELSE Digit(r, k - m, b)
<1>1. PICK j \in Nat : j = n - m /\ m + j = n
  <2>1. n - m \in Nat /\ m + (n - m) = n
    OBVIOUS
  <2> QED
    BY <2>1
<1>2. PICK p, q \in Nat : p = Place(b, m) /\ q = Place(b, j) /\ p > 0 /\ q > 0 /\ Place(b, n) = p * q
  <2>1. Place(b, m + j) = Place(b, m) * Place(b, j)
    BY PlaceSum
  <2> QED
    BY <1>1, <2>1, PlacePos
<1>3. (r * p) % (p * q) = (r % q) * p
  BY <1>2, ModMultiple
<1>4. PICK c \in Nat : c = r % q /\ c < q
  BY <1>2
<1>5. PICK v : v = y + c * Place(b, m)
  OBVIOUS
<1>6. /\ v \in Nat /\ v < Place(b, n)
      /\ \A k \in Nat : k < n => Digit(v, k, b) = IF k < m THEN Digit(y, k, b) ELSE Digit(c, k - m, b)
  <2>1. c < Place(b, n - m)
    BY <1>1, <1>2, <1>4
  <2>2. JoinedAs(y + c * Place(b, m), y, c, b, m, n)
    BY <2>1, DigitsJoined
  <2> QED
    BY <1>5, <2>2, Zenon DEF JoinedAs
<1>7. v = ((r * Place(b, m)) % Place(b, n)) + y
  <2>1. c * p + y = y + c * p
    OBVIOUS
  <2> QED
    BY <1>2, <1>3, <1>4, <1>5, <2>1
<1>8. ASSUME NEW k \in Nat, k < n, ~(k < m) PROVE Digit(c, k - m, b) = Digit(r, k - m, b)
  <2>1. PICK i \in Nat : i = k - m /\ i < j
    BY <1>1, <1>8
  <2>2. Digit(r % Place(b, j), i, b) = Digit(r, i, b)
    BY <2>1, DigitOfMod
  <2> QED
    BY <1>2, <1>4, <2>1, <2>2
<1>9. \A k \in Nat : k < n => Digit(v, k, b) = IF k < m THEN Digit(y, k, b) ELSE Digit(r, k - m, b)
  BY <1>6, <1>8
<1> QED
  BY <1>6, <1>7, <1>9

\* The merge of a left or right partial load, digit by digit.
MergedAs(left, n, r, x, m, v) ==
    \A k \in Nat : k < n => Digit(v, k, BB) =
       IF left THEN IF k < m THEN Digit(x, k, BB) ELSE Digit(r, k - m, BB)
       ELSE IF k < m + 1 THEN Digit(r, k + (n - 1 - m), BB) ELSE Digit(x, k, BB)

LEMMA MergedDigits ==
    ASSUME NEW left \in BOOLEAN, NEW n \in Nat, NEW m \in 0..(n - 1),
           NEW r \in Nat, r < Place(BB, n), NEW x \in Nat
    PROVE  LET v == Merged(left, n, r, x, m) IN
           v \in Nat /\ v < Place(BB, n) /\ MergedAs(left, n, r, x, m, v)
<1>1. PICK b, j, l \in Nat : b = BB /\ j = m /\ l = n - 1 - m
  BY WidthNat
<1>2. PICK v : v = Merged(left, n, r, x, m)
  OBVIOUS
<1>3. CASE left
  <2>1. PICK y \in Nat : y = x % Place(b, j) /\ y < Place(b, j)
    <3>1. PICK p \in Nat : p = Place(b, j) /\ p > 0
      BY PlacePos
    <3> QED
      BY <3>1
  <2>2. v = ((r * Place(b, j)) % Place(b, n)) + y
    BY <1>1, <1>2, <1>3, <2>1 DEF Merged, Place
  <2>3. /\ v \in Nat /\ v < Place(b, n)
        /\ \A k \in Nat : k < n => Digit(v, k, b) = IF k < j THEN Digit(y, k, b) ELSE Digit(r, k - j, b)
    <3>1. j <= n
      BY <1>1
    <3> QED
      BY <2>1, <2>2, <3>1, OverLow
  <2>4. ASSUME NEW k \in Nat, k < j PROVE Digit(y, k, b) = Digit(x, k, b)
    BY <2>1, <2>4, DigitOfMod
  <2>5. \A k \in Nat : k < n => Digit(v, k, b) = IF k < j THEN Digit(x, k, b) ELSE Digit(r, k - j, b)
    BY <2>3, <2>4
  <2> QED
    BY <1>1, <1>2, <1>3, <2>3, <2>5 DEF MergedAs
<1>4. CASE ~left
  <2>1. PICK h \in Nat : h = m + 1 /\ h + l = n /\ h <= n
    BY <1>1
  <2>2. PICK y \in Nat : y = r \div Place(b, l) /\ y < Place(b, h)
    <3>1. PICK p, q \in Nat : p = Place(b, l) /\ q = Place(b, h) /\ p > 0
      BY PlacePos
    <3>2. Place(b, h + l) = Place(b, h) * Place(b, l)
      BY PlaceSum
    <3>3. PICK s, f \in Int : s = r /\ f = q /\ s < f * p
      BY <1>1, <2>1, <3>1, <3>2
    <3>4. s \div p < f
      BY <3>1, <3>3, DivBelow
    <3>5. r \div p \in Nat
      BY <3>1, DivLeq
    <3> QED
      BY <3>1, <3>3, <3>4, <3>5
  <2>3. PICK c \in Nat : c = x \div Place(b, h)
    BY DigitOfDiv
  <2>4. v = ((c * Place(b, h)) % Place(b, n)) + y
    BY <1>1, <1>2, <1>4, <2>1, <2>2, <2>3 DEF Merged, Place
  <2>5. /\ v \in Nat /\ v < Place(b, n)
        /\ \A k \in Nat : k < n => Digit(v, k, b) = IF k < h THEN Digit(y, k, b) ELSE Digit(c, k - h, b)
    BY <2>1, <2>2, <2>4, OverLow
  <2>6. ASSUME NEW k \in Nat PROVE Digit(y, k, b) = Digit(r, k + l, b)
    BY <2>2, DigitOfDiv
  <2>7. ASSUME NEW k \in Nat, ~(k < h) PROVE Digit(c, k - h, b) = Digit(x, k, b)
    <3>1. PICK i \in Nat : i = k - h /\ i + h = k
      BY <2>7
    <3>2. Digit(x \div Place(b, h), i, b) = Digit(x, i + h, b)
      BY DigitOfDiv
    <3> QED
      BY <2>3, <3>1, <3>2
  <2>8. \A k \in Nat : k < n => Digit(v, k, b) = IF k < h THEN Digit(r, k + l, b) ELSE Digit(x, k, b)
    BY <2>5, <2>6, <2>7
  <2> QED
    BY <1>1, <1>2, <1>4, <2>1, <2>5, <2>8 DEF MergedAs
<1> QED
  BY <1>3, <1>4

\* The word a left or right partial store writes back.
SplitAs(left, n, r, x, m, v) ==
    \A k \in Nat : k < n => Digit(v, k, BB) =
       IF left THEN IF k < n - m THEN Digit(x, k + m, BB) ELSE Digit(r, k, BB)
       ELSE IF k < n - 1 - m THEN Digit(r, k, BB) ELSE Digit(x, k - (n - 1 - m), BB)

LEMMA SplitDigits ==
    ASSUME NEW left \in BOOLEAN, NEW n \in Nat, NEW m \in 0..(n - 1),
           NEW r \in Nat, r < Place(BB, n), NEW x \in Nat
    PROVE  LET v == Split(left, n, r, x, m) IN
           v \in Nat /\ SplitAs(left, n, r, x, m, v)
<1>1. PICK b, j, l \in Nat : b = BB /\ j = m /\ l = n - 1 - m
  BY WidthNat
<1>2. PICK v : v = Split(left, n, r, x, m)
  OBVIOUS
<1>3. CASE left
  <2>1. PICK h \in Nat : h = n - m /\ h + j = n /\ h <= n /\ n - h = j
    BY <1>1
  <2>2. PICK z \in Nat : z = x % Place(b, n) /\ z < Place(b, n)
    <3>1. PICK p \in Nat : p = Place(b, n) /\ p > 0
      BY PlacePos
    <3> QED
      BY <3>1
  <2>3. PICK y \in Nat : y = z \div Place(b, j) /\ y < Place(b, h)
    <3>1. PICK p, q \in Nat : p = Place(b, j) /\ q = Place(b, h) /\ p > 0
      BY PlacePos
    <3>2. Place(b, h + j) = Place(b, h) * Place(b, j)
      BY PlaceSum
    <3>3. PICK s, f \in Int : s = z /\ f = q /\ s < f * p
      BY <2>1, <2>2, <3>1, <3>2
    <3>4. s \div p < f
      BY <3>1, <3>3, DivBelow
    <3>5. z \div p \in Nat
      BY <3>1, DivLeq
    <3> QED
      BY <3>1, <3>3, <3>4, <3>5
  <2>4. PICK c \in Nat : c = r \div Place(b, h) /\ c < Place(b, j)
    <3>1. PICK p, q \in Nat : p = Place(b, h) /\ q = Place(b, j) /\ p > 0
      BY PlacePos
    <3>2. Place(b, j + h) = Place(b, j) * Place(b, h)
      BY PlaceSum
    <3>3. PICK s, f \in Int : s = r /\ f = q /\ s < f * p
      BY <1>1, <2>1, <3>1, <3>2
    <3>4. s \div p < f
      BY <3>1, <3>3, DivBelow
    <3>5. r \div p \in Nat
      BY <3>1, DivLeq
    <3> QED
      BY <3>1, <3>3, <3>4, <3>5
  <2>5. v = y + c * Place(b, h)
    <3>1. v = c * Place(b, h) + y
      BY <1>1, <1>2, <1>3, <2>1, <2>2, <2>3, <2>4 DEF Split, Place
    <3>2. Place(b, h) \in Nat
      BY PlacePos
    <3> QED
      BY <3>1, <3>2
  <2>6. /\ v \in Nat
        /\ \A k \in Nat : k < n => Digit(v, k, b) = IF k < h THEN Digit(y, k, b) ELSE Digit(c, k - h, b)
    <3>1. c < Place(b, n - h)
      BY <2>1, <2>4
    <3>2. h <= n /\ y < Place(b, h)
      BY <2>1, <2>3
    <3>3. JoinedAs(y + c * Place(b, h), y, c, b, h, n)
      BY <3>1, <3>2, DigitsJoined
    <3> QED
      BY <2>5, <3>3, Zenon DEF JoinedAs
  <2>7. ASSUME NEW k \in Nat, k < h PROVE Digit(y, k, b) = Digit(x, k + j, b)
    <3>1. Digit(z \div Place(b, j), k, b) = Digit(z, k + j, b)
      BY DigitOfDiv
    <3>2. PICK i \in Nat : i = k + j /\ i < n
      BY <2>1, <2>7
    <3>3. Digit(x % Place(b, n), i, b) = Digit(x, i, b)
      BY <3>2, DigitOfMod
    <3> QED
      BY <2>2, <2>3, <3>1, <3>2, <3>3
  <2>8. ASSUME NEW k \in Nat, ~(k < h) PROVE Digit(c, k - h, b) = Digit(r, k, b)
    <3>1. PICK i \in Nat : i = k - h /\ i + h = k
      BY <2>8
    <3>2. Digit(r \div Place(b, h), i, b) = Digit(r, i + h, b)
      BY DigitOfDiv
    <3> QED
      BY <2>4, <3>1, <3>2
  <2>9. \A k \in Nat : k < n => Digit(v, k, b) = IF k < h THEN Digit(x, k + j, b) ELSE Digit(r, k, b)
    BY <2>6, <2>7, <2>8
  <2> QED
    BY <1>1, <1>2, <1>3, <2>1, <2>6, <2>9 DEF SplitAs
<1>4. CASE ~left
  <2>1. PICK y \in Nat : y = r % Place(b, l) /\ y < Place(b, l)
    <3>1. PICK p \in Nat : p = Place(b, l) /\ p > 0
      BY PlacePos
    <3> QED
      BY <3>1
  <2>2. v = ((x * Place(b, l)) % Place(b, n)) + y
    BY <1>1, <1>2, <1>4, <2>1 DEF Split, Place
  <2>3. /\ v \in Nat
        /\ \A k \in Nat : k < n => Digit(v, k, b) = IF k < l THEN Digit(y, k, b) ELSE Digit(x, k - l, b)
    <3>1. l <= n
      BY <1>1
    <3> QED
      BY <2>1, <2>2, <3>1, OverLow
  <2>4. ASSUME NEW k \in Nat, k < l PROVE Digit(y, k, b) = Digit(r, k, b)
    BY <2>1, <2>4, DigitOfMod
  <2>5. \A k \in Nat : k < n => Digit(v, k, b) = IF k < l THEN Digit(r, k, b) ELSE Digit(x, k - l, b)
    BY <2>3, <2>4
  <2> QED
    BY <1>1, <1>2, <1>4, <2>3, <2>5 DEF SplitAs
<1> QED
  BY <1>3, <1>4

\* A partial access stays within its aligned word or doubleword, and that within memory.
LEMMA PartFacts ==
    ASSUME NEW n \in {4, 8}, NEW ea \in Nat, ea < MemBytes
    PROVE  /\ ma(ea, n) \in 0..(n - 1) /\ Base(ea, n) \in Nat /\ Base(ea, n) + n <= MemBytes
           /\ Base(ea, n) <= ea /\ ea < Base(ea, n) + n
           /\ ma(ea, n) = Lane(n - 1 - (ea - Base(ea, n)), n)
<1>1. ea % n \in 0..(n - 1) /\ ea - (ea % n) \in Nat /\ ea - (ea % n) <= ea
  OBVIOUS
<1>2. ea - (ea % n) + n <= MemBytes
  <2>1. MemBytes \in Nat /\ MemBytes % 8 = 0
    BY DataAssumption
  <2>2. CASE n = 4
    BY <2>1, <2>2
  <2>3. CASE n = 8
    BY <2>1, <2>3
  <2> QED
    BY <2>2, <2>3
<1>3. PICK m \in 0..(n - 1) : m = ea % n
  BY <1>1
<1>4. ea - (ea - m) = m
  OBVIOUS
<1> QED
  BY <1>1, <1>2, <1>3, <1>4 DEF ma, Base, Lane

LEMMA LoadPartStep ==
    ASSUME TypeOK, NEW n \in {4, 8}, NEW left \in BOOLEAN, NEW x \in Access(1), LoadPart(left, n, x[1], x[2])
    PROVE  IntStep
<1>1. "none" \in Codes
  BY DEF Codes
<1>2. /\ gpr \in [DOMAIN gpr -> DWord] /\ hi \in DWord /\ lo \in DWord /\ mem \in Memory
      /\ wide \in BOOLEAN
  BY TypeFacts
<1>3. x[2] \in Nat /\ x[2] < MemBytes /\ gpr[x[1]] \in Nat /\ n \in Nat
  BY AccessFacts
<1>4. PICK e \in Nat, m \in 0..(n - 1) : e = Base(x[2], n) /\ m = ma(x[2], n) /\ e + n <= MemBytes
  BY <1>3, PartFacts
<1>5. PICK r \in Nat : r = Value(e, n) /\ r < Place(BB, n)
  BY <1>3, <1>4, ValueDigits
<1>6. PICK v \in Nat : v = Merged(left, n, r, gpr[x[1]], m) /\ v < Place(BB, n)
  BY <1>3, <1>5, MergedDigits, Zenon
<1>7. PICK y \in DWord : y = (IF n = 4 THEN sext64(v) ELSE v) /\ (n = 8 \/ Canonical64(y))
  <2>1. CASE n = 4
    <3>1. v \in Word
      BY <1>6, <2>1, BytePlaces, NatWord
    <3>2. sext64(v) \in DWord /\ Canonical64(sext64(v))
      BY <3>1, SextWord
    <3> QED
      BY <2>1, <3>2
  <2>2. CASE n = 8
    <3>1. v \in DWord
      BY <1>6, <2>2, BytePlaces, NatDWord
    <3> QED
      BY <2>2, <3>1
  <2> QED
    BY <2>1, <2>2
<1>8. /\ ops' = ops + 1 /\ exc' = "none" /\ wide' = (wide \/ n = 8)
      /\ gpr' = IF x[1] = 0 THEN gpr ELSE [gpr EXCEPT ![x[1]] = y]
      /\ hi' = hi /\ lo' = lo /\ mem' = mem
      /\ UNCHANGED <<cpr1, fcsr, fccr, mirrored, in64, fr, fpw>>
  BY <1>4, <1>5, <1>6, <1>7 DEF LoadPart, Done, Ran, Put, fpu, mode
<1>9. gpr' \in [DOMAIN gpr -> DWord] /\ DOMAIN gpr' = DOMAIN gpr
  BY <1>2, <1>8
<1>10. ASSUME ~wide', Canon PROVE Canon'
  <2>1. Canonical64(y)
    BY <1>2, <1>7, <1>8, <1>10
  <2>2. ASSUME NEW s \in DOMAIN gpr' PROVE Canonical64(gpr'[s])
    <3>1. gpr'[s] = y \/ gpr'[s] = gpr[s]
      BY <1>2, <1>8, <1>9
    <3> QED
      BY <1>9, <1>10, <2>1, <3>1, Zenon DEF Canon
  <2> QED
    BY <1>8, <1>10, <2>2, Zenon DEF Canon
<1> QED
  BY <1>1, <1>2, <1>8, <1>9, <1>10 DEF IntStep

LEMMA StorePartStep ==
    ASSUME TypeOK, NEW n \in {4, 8}, NEW left \in BOOLEAN, NEW x \in Access(1), StorePart(left, n, x[1], x[2])
    PROVE  IntStep
<1>1. x[2] \in Nat /\ x[2] < MemBytes /\ gpr[x[1]] \in Nat /\ n \in Nat
  BY AccessFacts
<1>2. PICK e \in Nat, m \in 0..(n - 1) : e = Base(x[2], n) /\ m = ma(x[2], n) /\ e + n <= MemBytes
  BY <1>1, PartFacts
<1>3. PICK r \in Nat : r = Value(e, n) /\ r < Place(BB, n)
  BY <1>1, <1>2, ValueDigits
<1>4. PICK v \in Nat : v = Split(left, n, r, gpr[x[1]], m)
  BY <1>1, <1>3, SplitDigits
<1>5. PICK k \in Memory : k = Stored(e, n, v)
  BY <1>1, StoredMemory
<1>6. PICK i, p : ToMem(i, k, p)
  BY <1>2, <1>3, <1>4, <1>5 DEF StorePart
<1> QED
  BY <1>6, ToMemStep

\* Every integer instruction, and the reads of coprocessor 1, keep types and sign extension.
LEMMA IntNextStep == ASSUME TypeOK, IntNext PROVE IntStep
<1>1. CASE ExecShift
  <2>1. PICK op \in Shifts, t \in Operands, sa \in Shamt : Gate(op, Shift(op, t, sa))
    BY <1>1 DEF ExecShift, Shifts, Narrow
  <2> QED
    BY <2>1, ShiftStep, RiStep DEF Gate
<1>2. CASE ExecAdd
  <2>1. PICK op \in {"add", "addu", "dadd", "daddu"}, t \in Operands : Gate(op, Add(op, t, gpr[t[2]], t[3]))
    BY <1>2 DEF ExecAdd
  <2>2. gpr[t[2]] \in DWord
    BY TypeFacts
  <2> QED
    BY <2>1, <2>2, AddStep, RiStep DEF Gate
<1>3. CASE ExecAddImm \/ ExecDaddImm
  <2>1. PICK op \in {"addi", "addiu", "daddi", "daddiu"}, t \in Operands, i \in Imm : Gate(op, Add(op, t, simm(i) % 2^D, t[2]))
    BY <1>3 DEF ExecAddImm, ExecDaddImm
  <2>2. simm(i) % 2^D \in DWord
    BY ImmCanonical
  <2> QED
    BY <2>1, <2>2, AddStep, RiStep DEF Gate
<1>4. CASE ExecSub
  <2>1. PICK op \in {"sub", "subu", "dsub", "dsubu"}, t \in Operands : Gate(op, Sub(op, t))
    BY <1>4 DEF ExecSub
  <2> QED
    BY <2>1, SubStep, RiStep DEF Gate
<1>5. CASE ExecLogic
  <2>1. PICK op \in {"and", "or", "xor", "nor", "slt", "sltu"}, t \in Operands : Logic(op, t, gpr[t[2]], t[3])
    BY <1>5 DEF ExecLogic
  <2>2. t[2] \in DOMAIN gpr /\ gpr[t[2]] \in DWord
    BY TypeFacts
  <2>3. Canon => Canonical64(gpr[t[2]])
    BY <2>2 DEF Canon
  <2> QED
    BY <2>1, <2>2, <2>3, LogicStep
<1>6. CASE ExecLogicImm
  <2>1. PICK op \in {"and", "or", "xor", "nor", "slt", "sltu"}, t \in Operands, i \in Imm :
           Logic(op, t, IF op \in {"slt", "sltu"} THEN simm(i) % 2^D ELSE i, t[2])
    BY <1>6 DEF ExecLogicImm
  <2>2. PICK b \in DWord : b = (IF op \in {"slt", "sltu"} THEN simm(i) % 2^D ELSE i) /\ Canonical64(b)
    BY ImmCanonical
  <2> QED
    BY <2>1, <2>2, LogicStep
<1>7. CASE ExecLui
  <2>1. PICK t \in Operands, i \in Imm : Lui(i, t[2])
    BY <1>7 DEF ExecLui
  <2> QED
    BY <2>1, LuiStep
<1>8. CASE ExecTrap
  <2>1. PICK op, t, b : Trap(op, t, b)
    BY <1>8 DEF ExecTrap
  <2> QED
    BY <2>1, TrapStep
<1>9. CASE ExecHiLo
  <2>1. PICK op \in {"mfhi", "mflo", "mthi", "mtlo"}, t \in Operands : MoveHiLo(op, t)
    BY <1>9 DEF ExecHiLo
  <2> QED
    BY <2>1, MoveHiLoStep
<1>10. CASE ExecMult
  <2>1. PICK op \in {"mult", "multu", "dmult", "dmultu"}, t \in Operands : Gate(op, Mult(op, t))
    BY <1>10 DEF ExecMult
  <2> QED
    BY <2>1, MultStep, RiStep DEF Gate
<1>11. CASE ExecDivide
  <2>1. PICK op \in {"div", "divu", "ddiv", "ddivu"}, t \in Operands : Gate(op, Divide(op, t))
    BY <1>11 DEF ExecDivide
  <2> QED
    BY <2>1, DivideStep, RiStep DEF Gate
<1>12. CASE ExecLoad
  <2>1. PICK n \in {1, 2, 4, 8}, signed \in BOOLEAN : n # 8 /\ \E x \in Access(n) : Load(n, signed, x[1], x[2])
    BY <1>12 DEF ExecLoad
  <2>2. PICK x \in Access(n) : Load(n, signed, x[1], x[2])
    BY <2>1
  <2> QED
    BY <2>1, <2>2, LoadStep
<1>13. CASE ExecLd \/ ExecLld
  <2>1. PICK n \in {1, 2, 4, 8} : n = 8
    OBVIOUS
  <2>2. PICK x \in Access(n) : Load(n, TRUE, x[1], x[2]) \/ raise("ri", NoOperands("lld"))
    BY <1>13, <2>1 DEF ExecLd, ExecLld, Gate
  <2> QED
    BY <2>1, <2>2, LoadStep, RiStep
<1>14. CASE ExecStore \/ ExecSd
  <2>1. PICK n \in {1, 2, 4, 8} : \E x \in Access(n) : Store(n, x[1], x[2])
    BY <1>14 DEF ExecStore, ExecSd
  <2>2. PICK x \in Access(n) : Store(n, x[1], x[2])
    BY <2>1
  <2> QED
    BY <2>2, StoreStep
<1>15. CASE ExecStoreCond
  <2>1. PICK n \in {4, 8}, ok \in BOOLEAN : \E x \in Access(n) :
           Gate(IF n = 8 THEN "scd" ELSE "sc", StoreCond(n, x[1], x[2], ok))
    BY <1>15 DEF ExecStoreCond
  <2>2. PICK x \in Access(n) : Gate(IF n = 8 THEN "scd" ELSE "sc", StoreCond(n, x[1], x[2], ok))
    BY <2>1
  <2> QED
    BY <2>2, StoreCondStep, RiStep DEF Gate
<1>16. CASE ExecPart
  <2>1. PICK n \in {4, 8}, left \in BOOLEAN, x \in Access(1) :
           LoadPart(left, n, x[1], x[2]) \/ StorePart(left, n, x[1], x[2])
    BY <1>16 DEF ExecPart
  <2> QED
    BY <2>1, LoadPartStep, StorePartStep
<1> QED
  BY <1>1, <1>2, <1>3, <1>4, <1>5, <1>6, <1>7, <1>8, <1>9, <1>10, <1>11, <1>12, <1>13, <1>14, <1>15, <1>16 DEF IntNext
-----------------------------------------------------------------------------
(* Coprocessor 1. *)

LEMMA FpTypeFacts ==
    ASSUME TypeOK
    PROVE  /\ cpr1 \in [FReg -> DWord] /\ fpw \in [FReg -> SUBSET Word] /\ fr \in BOOLEAN
           /\ \A f \in FReg : f \in Nat /\ even(f) \in FReg /\ cpr1[f] \in DWord
BY DEF TypeOK, Word

LEMMA EvenOdd == ASSUME TypeOK, NEW g \in FReg PROVE g \in Nat /\ even(g) \in FReg /\ (odd(g) \/ even(g) = g)
<1>1. g \in Nat /\ even(g) \in FReg
  BY FpTypeFacts
<1>2. PICK m \in Nat : m = g % 2 /\ (m = 1 \/ m = 0)
  BY <1>1
<1>3. odd(g) \/ even(g) = g
  BY <1>1, <1>2 DEF odd, even
<1> QED
  BY <1>1, <1>3

\* The register that holds single register g, and its half of a doubleword.
Holder(g)  == IF fr THEN g ELSE even(g)
Half(g, x) == IF ~fr /\ odd(g) THEN High(x) ELSE Lo(x)

LEMMA ReadsHalf == ASSUME TypeOK, NEW g \in FReg PROVE Read32(g) = Half(g, cpr1[Holder(g)]) /\ Holder(g) \in FReg
<1>1. g \in Nat /\ even(g) \in FReg /\ (odd(g) \/ even(g) = g)
  BY EvenOdd
<1> QED
  BY <1>1 DEF Read32, Half, Holder

LEMMA ReadsWord == ASSUME TypeOK, NEW g \in FReg PROVE Read32(g) \in Word
<1>1. Holder(g) \in FReg /\ Read32(g) = Half(g, cpr1[Holder(g)])
  BY ReadsHalf
<1>2. PICK x \in DWord : x = cpr1[Holder(g)]
  BY <1>1, FpTypeFacts
<1>3. High(x) \in Word /\ Lo(x) \in Word
  BY HighLow
<1> QED
  BY <1>1, <1>2, <1>3 DEF Half

\* One register e of the file is written, and the words known of the single registers
\* it holds are its new halves.
LEMMA FileHeld ==
    ASSUME TypeOK, SinglesHeld, NEW e \in FReg, NEW v \in DWord, cpr1' = [cpr1 EXCEPT ![e] = v], fr' = fr,
           \A g \in FReg : IF Holder(g) = e THEN \A w \in fpw'[g] : Half(g, v) = w ELSE fpw'[g] \subseteq fpw[g]
    PROVE  SinglesHeld'
<1>1. FReg' = FReg
  BY FpTypeFacts DEF FReg
<1>2. ASSUME NEW g \in FReg PROVE Read32(g)' = IF Holder(g) = e THEN Half(g, v) ELSE Read32(g)
  <2>1. g \in Nat /\ even(g) \in FReg /\ (odd(g) \/ even(g) = g)
    BY EvenOdd
  <2>2. cpr1 \in [FReg -> DWord]
    BY FpTypeFacts
  <2>3. cpr1'[g] = (IF g = e THEN v ELSE cpr1[g]) /\ cpr1'[even(g)] = (IF even(g) = e THEN v ELSE cpr1[even(g)])
    BY <2>1, <2>2
  <2> QED
    BY <2>1, <2>3 DEF Read32, Half, Holder
<1>3. ASSUME NEW g \in FReg, NEW w \in fpw'[g] PROVE Read32(g)' = w
  BY <1>2, <1>3 DEF SinglesHeld
<1> QED
  BY <1>1, <1>3 DEF SinglesHeld

\* What an instruction that writes the file keeps.
FpStep ==
    /\ UNCHANGED <<gpr, hi, lo, mem, fcsr, fccr, mirrored, in64, fr, wide>>
    /\ ops' = ops + 1 /\ exc' = "none"
    /\ cpr1' \in [FReg -> DWord] /\ fpw' \in [FReg -> SUBSET Word]
    /\ SinglesHeld => SinglesHeld'

\* Write32 with Know: mtc1 and lwc1.
LEMMA SingleStep ==
    ASSUME TypeOK, NEW op, NEW f \in FReg, NEW w \in Word, ToFpr(op, Write32(f, w)), Know(f, w)
    PROVE  FpStep
<1>1. /\ UNCHANGED <<gpr, hi, lo, mem, fcsr, fccr, mirrored, in64, fr, wide>>
      /\ ops' = ops + 1 /\ exc' = "none" /\ cpr1' = Write32(f, w) /\ fpw' = [fpw EXCEPT ![f] = {w}]
  BY DEF ToFpr, Know, Done, Ran, ireg, mode
<1>2. cpr1 \in [FReg -> DWord] /\ fpw \in [FReg -> SUBSET Word] /\ even(f) \in FReg /\ f \in Nat /\ fr \in BOOLEAN
  BY FpTypeFacts
<1>3. fpw' \in [FReg -> SUBSET Word]
  BY <1>1, <1>2
<1>4. PICK e \in FReg : e = Holder(f)
  BY <1>2 DEF Holder
<1>5. PICK a, b \in Word : a = High(cpr1[e]) /\ b = Lo(cpr1[e])
  <2>1. cpr1[e] \in DWord
    BY <1>2
  <2> QED
    BY <2>1, HighLow
<1>6. PICK k \in Nat : k = 2^W
  BY WidthNat, PowPos
<1>7. a \in Nat /\ b \in Nat /\ w \in Nat
  BY WordNat
<1>8. PICK v \in DWord : /\ cpr1' = [cpr1 EXCEPT ![e] = v]
                         /\ Half(f, v) = w
                         /\ ~fr => IF odd(f) THEN Lo(v) = b ELSE High(v) = a
  <2>1. CASE fr
    <3>1. sext64(w) \in DWord /\ Lo(sext64(w)) = w
      BY SextWord
    <3> QED
      BY <1>1, <1>4, <2>1, <3>1 DEF Write32, Half, Holder
  <2>2. CASE ~fr /\ odd(f)
    <3>1. PICK v \in DWord : v = w * 2^W + b /\ High(v) = w /\ Lo(v) = b
      BY Joined
    <3>2. v = b + w * 2^W
      BY <1>6, <1>7, <3>1
    <3> QED
      BY <1>1, <1>4, <1>5, <2>2, <3>1, <3>2 DEF Write32, Half, Holder
  <2>3. CASE ~fr /\ ~odd(f)
    <3>1. PICK v \in DWord : v = a * 2^W + w /\ High(v) = a /\ Lo(v) = w
      BY Joined
    <3> QED
      BY <1>1, <1>4, <1>5, <2>3, <3>1 DEF Write32, Half, Holder
  <2> QED
    BY <1>2, <2>1, <2>2, <2>3
<1>9. ASSUME SinglesHeld PROVE SinglesHeld'
  <2>1. ASSUME NEW g \in FReg, Holder(g) = e, NEW u \in fpw'[g] PROVE Half(g, v) = u
    <3>1. CASE g = f
      BY <1>1, <1>2, <1>8, <2>1, <3>1
    <3>2. CASE g # f
      <4>1. u \in fpw[g]
        BY <1>1, <1>2, <2>1, <3>2
      <4>2. Half(g, cpr1[e]) = u
        BY <1>9, <2>1, <4>1, ReadsHalf DEF SinglesHeld
      <4>3. ~fr /\ (odd(g) <=> ~odd(f))
        <5>1. g \in Nat
          BY FpTypeFacts
        <5> QED
          BY <1>2, <1>4, <2>1, <3>2, <5>1 DEF Holder, odd, even
      <4> QED
        BY <1>5, <1>8, <4>2, <4>3 DEF Half
    <3> QED
      BY <3>1, <3>2
  <2>2. ASSUME NEW g \in FReg, Holder(g) # e PROVE fpw'[g] \subseteq fpw[g]
    BY <1>1, <1>2, <1>4, <2>2
  <2> QED
    BY <1>1, <1>8, <1>9, <2>1, <2>2, FileHeld
<1>10. cpr1' \in [FReg -> DWord]
  BY <1>2, <1>8
<1> QED
  BY <1>1, <1>3, <1>9, <1>10 DEF FpStep

\* A write of the whole of register f.
LEMMA WholeStep ==
    ASSUME TypeOK, NEW f \in FReg, NEW v \in DWord,
           Ran, exc' = "none", cpr1' = [cpr1 EXCEPT ![f] = v], Forget(Whole(f)),
           UNCHANGED <<ireg, mem, fcsr, fccr, mirrored, mode, wide>>
    PROVE  FpStep
<1>1. /\ UNCHANGED <<gpr, hi, lo, mem, fcsr, fccr, mirrored, in64, fr, wide>> /\ ops' = ops + 1
      /\ fpw' = [g \in FReg |-> IF g \in Whole(f) THEN {} ELSE fpw[g]]
  BY DEF Forget, Ran, ireg, mode
<1>2. cpr1 \in [FReg -> DWord] /\ fpw \in [FReg -> SUBSET Word] /\ f \in Nat /\ fr \in BOOLEAN
  BY FpTypeFacts
<1>3. cpr1' \in [FReg -> DWord] /\ fpw' \in [FReg -> SUBSET Word]
  BY <1>1, <1>2
<1>4. ASSUME NEW g \in FReg, Holder(g) = f PROVE fpw'[g] = {}
  <2>1. g \in Nat
    BY FpTypeFacts
  <2>2. g \in Whole(f)
    BY <1>2, <1>4, <2>1 DEF Whole, Holder, odd, even
  <2> QED
    BY <1>1, <2>2
<1>5. ASSUME NEW g \in FReg PROVE fpw'[g] \subseteq fpw[g]
  BY <1>1
<1>6. ASSUME SinglesHeld PROVE SinglesHeld'
  BY <1>1, <1>4, <1>5, <1>6, FileHeld
<1> QED
  BY <1>1, <1>3, <1>6 DEF FpStep

\* A write of the low half of register f, which is even at FR = 0.
LEMMA LowStep ==
    ASSUME TypeOK, NEW f \in FReg, ~OddFault({f}), NEW w \in Word,
           Ran, exc' = "none", cpr1' = Low(f, w), Forget({f}),
           UNCHANGED <<ireg, mem, fcsr, fccr, mirrored, mode, wide>>
    PROVE  FpStep
<1>1. /\ UNCHANGED <<gpr, hi, lo, mem, fcsr, fccr, mirrored, in64, fr, wide>> /\ ops' = ops + 1
      /\ fpw' = [g \in FReg |-> IF g \in {f} THEN {} ELSE fpw[g]]
  BY DEF Forget, Ran, ireg, mode
<1>2. cpr1 \in [FReg -> DWord] /\ fpw \in [FReg -> SUBSET Word] /\ f \in Nat /\ fr \in BOOLEAN
  BY FpTypeFacts
<1>3. fr \/ ~odd(f)
  BY DEF OddFault
<1>4. PICK a \in Word : a = High(cpr1[f])
  <2>1. cpr1[f] \in DWord
    BY <1>2
  <2> QED
    BY <2>1, HighLow
<1>5. PICK v \in DWord : v = a * 2^W + w /\ High(v) = a
  BY Joined
<1>6. cpr1' = [cpr1 EXCEPT ![f] = v]
  BY <1>4, <1>5 DEF Low
<1>7. cpr1' \in [FReg -> DWord] /\ fpw' \in [FReg -> SUBSET Word]
  BY <1>1, <1>2, <1>6
<1>8. ASSUME SinglesHeld, NEW g \in FReg, Holder(g) = f, NEW u \in fpw'[g] PROVE Half(g, v) = u
  <2>1. g # f /\ u \in fpw[g]
    BY <1>1, <1>8
  <2>2. Half(g, cpr1[f]) = u
    BY <1>8, <2>1, ReadsHalf DEF SinglesHeld
  <2>3. ~fr /\ odd(g)
    <3>1. g \in Nat
      BY FpTypeFacts
    <3> QED
      BY <1>2, <1>8, <2>1, <3>1 DEF Holder, odd, even
  <2> QED
    BY <1>4, <1>5, <2>2, <2>3 DEF Half
<1>9. ASSUME NEW g \in FReg PROVE fpw'[g] \subseteq fpw[g]
  BY <1>1
<1>10. ASSUME SinglesHeld PROVE SinglesHeld'
  BY <1>1, <1>6, <1>8, <1>9, <1>10, FileHeld
<1> QED
  BY <1>1, <1>7, <1>10 DEF FpStep

LEMMA FpWord == ASSUME NEW w \in FpWords PROVE w \in Word /\ w * 2^W + w \in DWord
<1>1. w \in Word
  BY StartAssumption DEF Word
<1> QED
  BY <1>1, Joined

\* A computed double or long, and a computed single or word.
LEMMA DoubleStep ==
    ASSUME TypeOK, NEW op, NEW f \in FReg, NEW v \in DWord, ToFpr(op, [cpr1 EXCEPT ![f] = v]), Forget(Whole(f))
    PROVE  FpStep
<1>1. /\ Ran /\ exc' = "none" /\ cpr1' = [cpr1 EXCEPT ![f] = v]
      /\ UNCHANGED <<ireg, mem, fcsr, fccr, mirrored, mode, wide>>
  BY DEF ToFpr, Done
<1> QED
  BY <1>1, WholeStep

LEMMA LowerStep ==
    ASSUME TypeOK, NEW op, NEW f \in FReg, ~OddFault({f}), NEW w \in Word, ToFpr(op, Low(f, w)), Forget({f})
    PROVE  FpStep
<1>1. Ran /\ exc' = "none" /\ cpr1' = Low(f, w) /\ UNCHANGED <<ireg, mem, fcsr, fccr, mirrored, mode, wide>>
  BY DEF ToFpr, Done
<1> QED
  BY <1>1, LowStep

LEMMA RtFacts == ASSUME TypeOK, NEW rt \in Rt PROVE rt \in DOMAIN gpr /\ gpr[rt] \in DWord /\ Lo(gpr[rt]) \in Word
<1>1. rt \in DOMAIN gpr /\ gpr[rt] \in DWord
  BY TypeFacts DEF Rt
<1>2. gpr[rt] \in Int
  BY <1>1, DWordNat
<1> QED
  BY <1>1, <1>2, LoWord

LEMMA FpMoveStep == ASSUME TypeOK, FpMove PROVE IntStep \/ FpStep
<1>1. PICK f \in FReg, rt \in Rt : _mtc1(f, rt) \/ _mfc1(f, rt) \/ _dmtc1(f, rt) \/ _dmfc1(f, rt)
  BY DEF FpMove
<1>2. rt \in DOMAIN gpr /\ gpr[rt] \in DWord /\ Lo(gpr[rt]) \in Word
  BY RtFacts
<1>3. CASE _mtc1(f, rt)
  BY <1>2, <1>3, SingleStep DEF _mtc1
<1>4. CASE _mfc1(f, rt)
  <2>1. PICK y \in DWord : y = sext64(Read32(f)) /\ Canonical64(y)
    BY ReadsWord, SextWord
  <2> QED
    BY <1>4, <2>1, ToGprStep DEF _mfc1
<1>5. CASE _dmtc1(f, rt)
  BY <1>2, <1>5, DoubleStep DEF _dmtc1
<1>6. CASE _dmfc1(f, rt)
  <2>1. PICK y \in DWord : y = cpr1[f]
    BY FpTypeFacts
  <2> QED
    BY <1>6, <2>1, ToGprStep DEF _dmfc1
<1> QED
  BY <1>1, <1>3, <1>4, <1>5, <1>6

LEMMA FpMemoryStep == ASSUME TypeOK, FpMemory PROVE IntStep \/ FpStep
<1>1. PICK f \in FReg, x \in BOOLEAN :
         \/ \E ea \in 0..(MemBytes - 4) : Indexed(x, _lwc1(f, ea)) \/ Indexed(x, _swc1(f, ea))
         \/ \E ea \in 0..(MemBytes - 8) : Indexed(x, _ldc1(f, ea)) \/ Indexed(x, _sdc1(f, ea))
  BY DEF FpMemory
<1>2. CASE \E i : raise("ri", i)
  BY <1>2, RiStep
<1>3. CASE \E ea \in 0..(MemBytes - 4) : _lwc1(f, ea) \/ _swc1(f, ea)
  <2>1. PICK ea \in 0..(MemBytes - 4) : _lwc1(f, ea) \/ _swc1(f, ea)
    BY <1>3
  <2>2. PICK n \in Nat : n = 4 /\ ea \in Nat /\ ea + n <= MemBytes
    BY DataAssumption
  <2>3. CASE _lwc1(f, ea)
    <3>1. PICK v \in Nat : v = Value(ea, n) /\ v < Place(BB, n)
      BY <2>2, ValueDigits
    <3>2. v \in Word
      BY <2>2, <3>1, BytePlaces, NatWord
    <3> QED
      BY <2>2, <2>3, <3>1, <3>2, SingleStep DEF _lwc1
  <2>4. CASE _swc1(f, ea)
    <3>1. PICK v \in Nat : v = Read32(f)
      BY ReadsWord, WordNat
    <3>2. PICK m \in Memory : m = Stored(ea, n, v)
      BY <2>2, StoredMemory
    <3> QED
      BY <2>2, <2>4, <3>1, <3>2, ToMemStep DEF _swc1
  <2> QED
    BY <2>1, <2>3, <2>4
<1>4. CASE \E ea \in 0..(MemBytes - 8) : _ldc1(f, ea) \/ _sdc1(f, ea)
  <2>1. PICK ea \in 0..(MemBytes - 8) : _ldc1(f, ea) \/ _sdc1(f, ea)
    BY <1>4
  <2>2. PICK n \in Nat : n = 8 /\ ea \in Nat /\ ea + n <= MemBytes
    BY DataAssumption
  <2>3. CASE _ldc1(f, ea)
    <3>1. PICK v \in Nat : v = Value(ea, n) /\ v < Place(BB, n)
      BY <2>2, ValueDigits
    <3>2. v \in DWord
      BY <2>2, <3>1, BytePlaces, NatDWord
    <3> QED
      BY <1>2, <2>2, <2>3, <3>1, <3>2, DoubleStep DEF _ldc1
  <2>4. CASE _sdc1(f, ea)
    <3>1. PICK v \in Nat : v = cpr1[f]
      BY FpTypeFacts, DWordNat
    <3>2. PICK m \in Memory : m = Stored(ea, n, v)
      BY <2>2, StoredMemory
    <3> QED
      BY <1>2, <2>2, <2>4, <3>1, <3>2, ToMemStep DEF _sdc1
  <2> QED
    BY <2>1, <2>3, <2>4
<1> QED
  BY <1>1, <1>2, <1>3, <1>4 DEF Indexed

LEMMA FpComputeStep == ASSUME TypeOK, FpArith \/ FpMadd \/ FpFormat PROVE IntStep \/ FpStep
<1>1. CASE \E i : raise("ri", i)
  BY <1>1, RiStep
<1>2. CASE FpArith \/ FpMadd
  <2>1. PICK fd \in FReg, w \in FpWords, op \in {"fp", "madd"} :
           \/ raise("ri", NoOperands(op))
           \/ ToFpr(op, [cpr1 EXCEPT ![fd] = w * 2^W + w]) /\ Forget(Whole(fd))
           \/ ~OddFault({fd}) /\ ToFpr(op, Low(fd, w)) /\ Forget({fd})
    BY <1>2 DEF FpArith, FpMadd, OddFault
  <2>2. PICK v \in DWord, u \in Word : v = w * 2^W + w /\ u = w
    BY FpWord
  <2> QED
    BY <1>1, <2>1, <2>2, DoubleStep, LowerStep
<1>3. CASE FpFormat
  <2>1. PICK fd \in FReg, w \in FpWords :
           \/ raise("ri", NoOperands("cvt"))
           \/ _cvtd(fd, w)
           \/ ~OddFault({fd}) /\ _cvts(fd, w)
    BY <1>3 DEF FpFormat, OddFault
  <2>2. PICK v \in DWord, u \in Word : v = w * 2^W + w /\ u = w
    BY FpWord
  <2> QED
    BY <1>1, <2>1, <2>2, DoubleStep, LowerStep DEF _cvts, _cvtd
<1> QED
  BY <1>2, <1>3

LEMMA FpUnimplementedStep == ASSUME TypeOK, FpUnimplemented PROVE IntStep
<1>1. "fpe" \in Codes /\ "fpe" # "sigfpe"
  BY DEF Codes
<1>2. raise("ri", NoOperands("fp")) \/ raise("fpe", NoOperands("fp"))
  BY DEF FpUnimplemented
<1> QED
  BY <1>1, <1>2, RiStep, RaiseStep

LEMMA FpCondMoveStep == ASSUME TypeOK, FpCondMove PROVE IntStep \/ FpStep
<1>1. "fpe" \in Codes /\ "fpe" # "sigfpe"
  BY DEF Codes
<1>2. PICK fs \in FReg, fd \in FReg :
         \/ raise("ri", NoOperands("fmov"))
         \/ raise("fpe", NoOperands("fmov"))
         \/ ToFpr("fmov", [cpr1 EXCEPT ![fd] = cpr1[fs]]) /\ Forget(Whole(fd))
         \/ ToFpr("fmov", cpr1) /\ UNCHANGED fpw
  BY DEF FpCondMove, _movn, _movz, _movc, MoveIf
<1>3. CASE raise("ri", NoOperands("fmov")) \/ raise("fpe", NoOperands("fmov"))
  BY <1>1, <1>3, RiStep, RaiseStep
<1>4. CASE ToFpr("fmov", [cpr1 EXCEPT ![fd] = cpr1[fs]]) /\ Forget(Whole(fd))
  <2>1. cpr1[fs] \in DWord
    BY FpTypeFacts
  <2> QED
    BY <1>4, <2>1, DoubleStep
<1>5. CASE ToFpr("fmov", cpr1) /\ UNCHANGED fpw
  <2>1. /\ UNCHANGED <<gpr, hi, lo, mem, fcsr, fccr, mirrored, in64, fr, wide>>
        /\ ops' = ops + 1 /\ exc' = "none" /\ cpr1' = cpr1 /\ fpw' = fpw
    BY <1>5 DEF ToFpr, Done, Ran, ireg, mode
  <2>2. SinglesHeld => SinglesHeld'
    BY <2>1 DEF SinglesHeld, Read32, FReg
  <2> QED
    BY <2>1, <2>2, FpTypeFacts DEF FpStep
<1> QED
  BY <1>2, <1>3, <1>4, <1>5

LEMMA CondMoveNext == ASSUME TypeOK, ExecCondMove PROVE IntStep
<1>1. PICK op \in {"movn", "movz", "movt", "movf"}, t \in Operands, c \in CC : CondMove(op, t, getConditionCode(c))
  BY DEF ExecCondMove
<1> QED
  BY <1>1, CondMoveStep

LEMMA Cfc1Step == ASSUME TypeOK, _cfc1 PROVE IntStep
<1>1. PICK rt \in Rt, w \in FpWords : ToGpr(NoOperands("cfc1"), rt, sext64(w), FALSE)
  BY DEF _cfc1
<1>2. PICK y \in DWord : y = sext64(w) /\ Canonical64(y)
  BY FpWord, SextWord
<1> QED
  BY <1>1, <1>2, ToGprStep

\* r quarters, a whole number, are q quarters rounded as the mode rm says.
Rounding(q, rm, r) == /\ Abs(q - r) < 4
                      /\ rm = 0 => Abs(q - r) <= 2 /\ (Abs(q - r) = 2 => (r \div 4) % 2 = 0)
                      /\ rm = 1 => Abs(r) <= Abs(q)
                      /\ rm = 2 => r >= q
                      /\ rm = 3 => r <= q

LEMMA TowardsZero ==
    ASSUME NEW z \in Int, NEW f \in Int, 0 <= f, f <= 3, z >= 0 \/ z <= -4
    PROVE  /\ ~(z + f < 0 /\ f # 0) => Abs(z) <= Abs(z + f)
           /\ f # 0 /\ z + f < 0 => Abs(z + 4) <= Abs(z + f)
BY DEF Abs

LEMMA RoundedRounds ==
    ASSUME NEW q \in Int, NEW rm \in 0..3
    PROVE  Rounded(q, rm) \in Int /\ Rounding(q, rm, 4 * Rounded(q, rm))
<1>1. PICK d \in Int, f \in Int : d = Floor(q) /\ f = q - 4 * d /\ f \in 0..3 /\ q = 4 * d + f
  BY DEF Floor
<1>2. PICK x : x = CASE rm = 0 -> IF f < 2 \/ (f = 2 /\ d % 2 = 0) THEN d ELSE d + 1
                     [] rm = 1 -> IF q < 0 /\ f # 0 THEN d + 1 ELSE d
                     [] rm = 2 -> IF f # 0 THEN d + 1 ELSE d
                     [] rm = 3 -> d
  OBVIOUS
<1>3. PICK r \in Int : /\ r = Rounded(q, rm) /\ (r = d \/ r = d + 1)
                       /\ rm = 0 => (r = d <=> f < 2 \/ (f = 2 /\ d % 2 = 0))
                       /\ rm = 1 => (r = d <=> ~(q < 0 /\ f # 0))
                       /\ rm = 2 => (r = d <=> f = 0)
                       /\ rm = 3 => r = d
  <2>1. x = Rounded(q, rm)
    BY <1>1, <1>2 DEF Rounded
  <2>2. x = d \/ x = d + 1
    BY <1>2
  <2>3. d # d + 1
    OBVIOUS
  <2>4. /\ rm = 0 => (x = d <=> f < 2 \/ (f = 2 /\ d % 2 = 0))
        /\ rm = 1 => (x = d <=> ~(q < 0 /\ f # 0))
        /\ rm = 2 => (x = d <=> f = 0)
        /\ rm = 3 => x = d
    BY <1>2, <2>3
  <2> QED
    BY <2>1, <2>2, <2>4
<1>4. PICK z \in Int : z = 4 * d /\ q = z + f /\ (z >= 0 \/ z <= -4)
  BY <1>1
<1>5. 4 * (d + 1) = 4 * d + 4
  OBVIOUS
<1>6. d % 2 # 0 => (d + 1) % 2 = 0
  OBVIOUS
<1>7. CASE r = d
  <2>1. q - 4 * r = f /\ r \in Int /\ (4 * r) \div 4 = r
    BY <1>1, <1>7
  <2>2. Abs(q - 4 * r) = f
    BY <1>1, <2>1 DEF Abs
  <2>3. rm = 1 => Abs(4 * r) <= Abs(q)
    <3>1. ASSUME rm = 1 PROVE ~(q < 0 /\ f # 0)
      BY <1>1, <1>3, <1>7, <3>1
    <3>2. 4 * r = z
      BY <1>7, <1>4
    <3>3. ~(q < 0 /\ f # 0) => Abs(z) <= Abs(q)
      BY <1>1, <1>4, TowardsZero
    <3> QED
      BY <3>1, <3>2, <3>3
  <2>4. rm = 2 => 4 * r >= q
    BY <1>1, <1>3, <1>7, <2>1
  <2>5. rm = 3 => 4 * r <= q
    BY <1>1, <1>7
  <2>6. rm = 0 => f <= 2 /\ (f = 2 => r % 2 = 0)
    BY <1>1, <1>3, <1>7
  <2> QED
    BY <1>1, <1>3, <2>1, <2>2, <2>3, <2>4, <2>5, <2>6 DEF Rounding
<1>8. CASE r = d + 1 /\ r # d
  <2>1. PICK e \in Int : e = 4 * r /\ e = z + 4 /\ e \div 4 = r /\ e % 4 = 0
    BY <1>8, <1>4, <1>5
  <2>2. Abs(q - e) = 4 - f
    <3>1. q = z + f /\ e = z + 4 /\ f \in 0..3
      BY <1>1, <1>4, <2>1, Zenon
    <3>2. PICK g \in Int : g = q - e /\ g = f - 4 /\ g < 0
      BY <3>1
    <3>3. Abs(g) = -g
      BY <3>2 DEF Abs
    <3> QED
      BY <3>1, <3>2, <3>3
  <2>3. f # 0
    BY <1>1, <1>3, <1>8
  <2>4. rm = 1 => Abs(e) <= Abs(q)
    <3>1. ASSUME rm = 1 PROVE q < 0
      BY <1>1, <1>3, <1>8, <3>1
    <3>2. q < 0 => Abs(e) <= Abs(q)
      BY <1>1, <1>4, <2>1, <2>3, TowardsZero
    <3> QED
      BY <3>1, <3>2
  <2>5. e >= q
    BY <1>1, <1>4, <2>1
  <2>6. rm # 3
    BY <1>3, <1>8
  <2>7. rm = 0 => f >= 2 /\ (f = 2 => r % 2 = 0)
    BY <1>1, <1>3, <1>6, <1>8
  <2> QED
    BY <1>1, <1>3, <2>1, <2>2, <2>3, <2>4, <2>5, <2>6, <2>7 DEF Rounding
<1> QED
  BY <1>3, <1>7, <1>8

LEMMA QuartersInt == ASSUME NEW x \in DWord, NEW double \in BOOLEAN PROVE Quarters(x, double) \in Int
BY SignedInt DEF Quarters

\* A result of n bits, or the least or the greatest that fits n - 1.
LEMMA ConvertedRange ==
    ASSUME NEW n \in {W, D}, NEW r \in Int,
           NEW v \in IF InRange(r, n) THEN {r % 2^n} ELSE {2^(n - 1), 2^(n - 1) - 1}
    PROVE  /\ v \in Nat /\ v < 2^n
           /\ InRange(r, n) => v % 2^n = v /\ sgn(v, n) = r
<1>1. n \in Nat /\ n # 0
  BY WidthNat
<1>2. PICK h \in Nat : h > 0 /\ 2^(n - 1) = h /\ 2^n = h + h
  BY <1>1, Halves
<1>3. PICK k \in Nat : k = h + h /\ k > 0
  BY <1>2
<1>4. CASE InRange(r, n)
  <2>1. v = r % k
    BY <1>2, <1>3, <1>4
  <2>2. v \in Nat /\ v < k
    BY <1>3, <2>1, DivMod
  <2>3. v % k = v
    BY <1>3, <2>2, DivOfLess
  <2>4. sgn(r % 2^n, n) = r
    BY <1>1, <1>4, SgnOfMod DEF InRange
  <2> QED
    BY <1>2, <1>3, <2>1, <2>2, <2>3, <2>4
<1>5. CASE ~InRange(r, n)
  BY <1>2, <1>3, <1>5
<1> QED
  BY <1>4, <1>5

LEMMA RmRange == RM \in 0..3
BY DEF RM

LEMMA ConvertStep == ASSUME TypeOK, Convert PROVE (IntStep \/ FpStep) /\ RoundsAsNamed' /\ insn'.op = "cvt"
<1> DEFINE Result(fs, fd, double, long, rm) ==
         LET q == Quarters(cpr1[fs], double)
             r == Rounded(q, rm)
             n == IF long THEN D ELSE W
             i == [NoOperands("cvt") EXCEPT !.a = q, !.b = rm, !.rd = fd, !.n = n] IN
         IF OddFault({fs, fd}) THEN raise("ri", NoOperands("cvt"))
         ELSE \E v \in IF InRange(r, n) THEN {r % 2^n} ELSE {2^(n - 1), 2^(n - 1) - 1} :
              /\ Done(i) /\ cpr1' = (IF long THEN [cpr1 EXCEPT ![fd] = v] ELSE Low(fd, v))
              /\ Forget(IF long THEN Whole(fd) ELSE {fd}) /\ pair' = NoPair
              /\ UNCHANGED <<ireg, mem, fcsr, fccr, mirrored, mode, wide>>
<1>1. PICK fs \in FReg, fd \in FReg, double \in BOOLEAN, long \in BOOLEAN, rm \in 0..3 : Result(fs, fd, double, long, rm)
  <2>1. PICK fs \in FReg, fd \in FReg, double \in BOOLEAN, long \in BOOLEAN, named \in BOOLEAN :
           \E rm \in IF named THEN 0..3 ELSE {RM} : Result(fs, fd, double, long, rm)
    BY Zenon DEF Convert
  <2>2. PICK rm \in IF named THEN 0..3 ELSE {RM} : Result(fs, fd, double, long, rm)
    BY <2>1, Zenon
  <2>3. rm \in 0..3
    BY <2>2, RmRange
  <2> QED
    BY <2>2, <2>3, Zenon
<1>2. CASE OddFault({fs, fd})
  <2>1. raise("ri", NoOperands("cvt"))
    BY <1>1, <1>2
  <2>2. IntStep
    BY <2>1, RiStep
  <2>3. insn' = NoOperands("cvt")
    BY <2>1 DEF raise
  <2>4. insn'.n = 0 /\ insn'.op = "cvt"
    BY <2>3 DEF NoOperands
  <2> QED
    BY <2>2, <2>4 DEF RoundsAsNamed
<1>3. CASE ~OddFault({fs, fd})
  <2>1. PICK q, r \in Int : q = Quarters(cpr1[fs], double) /\ r = Rounded(q, rm) /\ Rounding(q, rm, 4 * r)
    BY FpTypeFacts, QuartersInt, RoundedRounds
  <2>2. PICK n \in {W, D} : n = IF long THEN D ELSE W
    OBVIOUS
  <2>3. PICK i : i = [NoOperands("cvt") EXCEPT !.a = q, !.b = rm, !.rd = fd, !.n = n]
    OBVIOUS
  <2>4. PICK v \in IF InRange(r, n) THEN {r % 2^n} ELSE {2^(n - 1), 2^(n - 1) - 1} :
           /\ Done(i) /\ cpr1' = (IF long THEN [cpr1 EXCEPT ![fd] = v] ELSE Low(fd, v))
           /\ Forget(IF long THEN Whole(fd) ELSE {fd})
           /\ UNCHANGED <<ireg, mem, fcsr, fccr, mirrored, mode, wide>>
    BY <1>1, <1>3, <2>1, <2>2, <2>3, Zenon
  <2>5. v \in Nat /\ v < 2^n /\ (InRange(r, n) => v % 2^n = v /\ sgn(v, n) = r)
    BY ConvertedRange
  <2>6. Ran /\ exc' = "none" /\ insn' = i
    BY <2>4 DEF Done
  <2>7. i.op = "cvt" /\ i.a = q /\ i.b = rm /\ i.rd = fd /\ i.n = n
    BY <2>3 DEF NoOperands
  <2>8. FpStep /\ (InRange(r, n) => cpr1'[fd] % 2^n = v)
    <3>1. CASE long
      <4>1. v \in DWord
        BY <2>2, <2>5, <3>1, NatDWord
      <4>2. FpStep
        BY <2>4, <2>6, <3>1, <4>1, WholeStep
      <4>3. cpr1'[fd] = v
        BY <2>4, <3>1, FpTypeFacts
      <4> QED
        BY <2>5, <4>2, <4>3
    <3>2. CASE ~long
      <4>1. v \in Word
        BY <2>2, <2>5, <3>2, NatWord
      <4>2. ~OddFault({fd})
        BY <1>3 DEF OddFault
      <4>3. cpr1' = Low(fd, v) /\ Forget({fd})
        BY <2>4, <3>2
      <4>4. FpStep
        BY <2>4, <2>6, <4>1, <4>2, <4>3, LowStep
      <4>5. PICK a \in Word : a = High(cpr1[fd])
        <5>1. cpr1[fd] \in DWord
          BY FpTypeFacts
        <5> QED
          BY <5>1, HighLow
      <4>6. cpr1'[fd] = a * 2^W + v
        BY <4>3, <4>5, FpTypeFacts DEF Low
      <4>7. Lo(a * 2^W + v) = v
        BY <4>1, Joined
      <4>8. (a * 2^W + v) % 2^W = v
        BY <4>7 DEF Lo
      <4> QED
        BY <2>2, <3>2, <4>4, <4>6, <4>8
    <3> QED
      BY <3>1, <3>2
  <2>9. RoundsAsNamed'
    <3>1. ASSUME InRange(Rounded(insn'.a, insn'.b), insn'.n)
          PROVE  /\ sgn(cpr1'[insn'.rd] % 2^(insn'.n), insn'.n) = r /\ insn'.a = q /\ insn'.b = rm
      BY <2>1, <2>5, <2>6, <2>7, <2>8, <3>1
    <3> QED
      BY <2>1, <3>1 DEF RoundsAsNamed, Rounding
  <2> QED
    BY <2>6, <2>7, <2>8, <2>9
<1> QED
  BY <1>2, <1>3

\* Condition codes, and the modes.
CcStep ==
    /\ UNCHANGED <<gpr, hi, lo, mem, cpr1, in64, fr, wide, fpw>>
    /\ ops' = ops + 1 /\ exc' = "none"
    /\ mirrored' \in BOOLEAN /\ (FccViews => FccViews')

ModeStep ==
    /\ UNCHANGED <<gpr, hi, lo, mem, cpr1, fcsr, fccr, mirrored, wide>>
    /\ in64' \in BOOLEAN /\ fr' \in BOOLEAN /\ ops' = ops + 1 /\ exc' = "none"
    /\ fpw' \in [FReg -> SUBSET Word]
    /\ SinglesHeld => SinglesHeld'

LEMMA CcFacts == \A c \in CC : c \in Nat /\ fcc_bit(c) = (IF c = 0 THEN 23 ELSE 24 + c)
BY DataAssumption DEF CC, fcc_bit

LEMMA FpCmpStep == ASSUME TypeOK, fpCmp PROVE IntStep \/ CcStep
<1>1. PICK c \in CC, p \in BOOLEAN :
         \/ raise("ri", NoOperands("c"))
         \/ /\ Done([NoOperands("c") EXCEPT !.n = c]) /\ setConditionCode(p, c)
            /\ UNCHANGED <<ireg, mem, cpr1, mode, wide, fpw>>
  <2>1. PICK cond \in 0..7, rel \in {"lt", "eq", "gt", "un"}, c \in CC :
           \/ raise("ri", NoOperands("c"))
           \/ /\ Done([NoOperands("c") EXCEPT !.n = c]) /\ setConditionCode(Predicate(cond, rel), c)
              /\ UNCHANGED <<ireg, mem, cpr1, mode, wide, fpw>>
    BY DEF fpCmp
  <2>2. Predicate(cond, rel) \in BOOLEAN
    BY DEF Predicate
  <2> QED
    BY <2>1, <2>2, Zenon
<1>2. CASE raise("ri", NoOperands("c"))
  BY <1>2, RiStep
<1>3. CASE ~raise("ri", NoOperands("c"))
  <2>1. /\ UNCHANGED <<gpr, hi, lo, mem, cpr1, in64, fr, wide, fpw>>
        /\ ops' = ops + 1 /\ exc' = "none"
    BY <1>1, <1>3 DEF Done, Ran, ireg, mode
  <2>2. fccr' = {k \in CC : fcc_bit(k) \in fcsr'}
    BY <1>1, <1>3, Zenon DEF setConditionCode, fcc_mirror_to_fccr
  <2>3. FccViews'
    BY <2>2 DEF FccViews, getConditionCode, CC, fcc_bit
  <2>4. mirrored' \in BOOLEAN
    BY <1>1, <1>3, Zenon DEF setConditionCode
  <2> QED
    BY <2>1, <2>3, <2>4 DEF CcStep
<1> QED
  BY <1>2, <1>3

LEMMA Ctc1Step == ASSUME TypeOK, _ctc1 PROVE CcStep
<1>1. PICK f, v, m : /\ ToControl(f, v, m) /\ m \in BOOLEAN
                     /\ \/ v = fcc_mirror_to_fccr(f)
                        \/ v \in SUBSET CC /\ f = fcc_mirror_from_fccr(v)
                        \/ f = fcsr /\ v = fccr /\ m = mirrored
                        \/ m = FALSE
  <2>1. mirrored \in BOOLEAN
    BY DEF TypeOK
  <2> QED
    BY <2>1, Zenon DEF _ctc1
<1>2. /\ UNCHANGED <<gpr, hi, lo, mem, cpr1, in64, fr, wide, fpw>>
      /\ ops' = ops + 1 /\ exc' = "none" /\ fcsr' = f /\ fccr' = v
      /\ mirrored' = m /\ mirrored' \in BOOLEAN
  BY <1>1 DEF ToControl, Done, Ran, ireg, mode
<1>3. CASE v = fcc_mirror_to_fccr(f)
  <2>1. FccViews'
    BY <1>2, <1>3 DEF FccViews, getConditionCode, fcc_mirror_to_fccr, CC, fcc_bit
  <2> QED
    BY <1>2, <2>1 DEF CcStep
<1>4. CASE v \in SUBSET CC /\ f = fcc_mirror_from_fccr(v)
  <2>1. ASSUME NEW c \in CC PROVE (c \in v) <=> fcc_bit(c) \in f
    <3>1. ASSUME NEW k \in CC, fcc_bit(k) = fcc_bit(c) PROVE k = c
      BY <3>1, CcFacts
    <3> QED
      BY <1>4, <3>1, Zenon DEF fcc_mirror_from_fccr
  <2>2. FccViews'
    BY <1>2, <2>1 DEF FccViews, getConditionCode, CC, fcc_bit
  <2> QED
    BY <1>2, <2>2 DEF CcStep
<1>5. CASE f = fcsr /\ v = fccr /\ m = mirrored
  <2>1. FccViews => FccViews'
    BY <1>2, <1>5 DEF FccViews, getConditionCode, CC, fcc_bit
  <2> QED
    BY <1>2, <2>1 DEF CcStep
<1>6. CASE m = FALSE
  <2>1. FccViews'
    BY <1>2, <1>6 DEF FccViews
  <2> QED
    BY <1>2, <2>1 DEF CcStep
<1> QED
  BY <1>1, <1>3, <1>4, <1>5, <1>6

LEMMA SetModeStep == ASSUME TypeOK, SetMode PROVE ModeStep
<1>1. /\ UNCHANGED <<gpr, hi, lo, mem, cpr1, fcsr, fccr, mirrored, wide>>
      /\ in64' \in BOOLEAN /\ fr' \in BOOLEAN /\ ops' = ops + 1 /\ exc' = "none"
      /\ fpw' = (IF fr' = fr THEN fpw ELSE [f \in FReg |-> {}])
  BY DEF SetMode, Done, Ran, ireg, fpu
<1>2. fpw \in [FReg -> SUBSET Word] /\ cpr1 \in [FReg -> DWord]
  BY FpTypeFacts
<1>3. fpw' \in [FReg -> SUBSET Word]
  BY <1>1, <1>2
<1>4. FReg' = FReg
  BY <1>1 DEF FReg
<1>5. ASSUME SinglesHeld PROVE SinglesHeld'
  <2>1. CASE fr' = fr
    BY <1>1, <1>5, <2>1 DEF SinglesHeld, Read32, FReg
  <2>2. CASE fr' # fr
    BY <1>1, <1>4, <2>2 DEF SinglesHeld
  <2> QED
    BY <2>1, <2>2
<1> QED
  BY <1>1, <1>3, <1>5 DEF ModeStep

\* Each instruction is a step of one of these kinds.
LEMMA Kinds ==
    ASSUME TypeOK, Next
    PROVE  (Running /\ (IntStep \/ FpStep \/ CcStep \/ ModeStep)) \/ UNCHANGED vars
<1>1. CASE Halt
  BY <1>1 DEF Halt
<1>2. CASE ~Halt
  <2>1. CASE IntNext \/ ExecCondMove \/ _cfc1 \/ FpUnimplemented
    BY <1>2, <2>1, IntNextStep, CondMoveNext, Cfc1Step, FpUnimplementedStep DEF Next
  <2>2. CASE FpMove \/ FpMemory \/ FpArith \/ FpMadd \/ FpFormat \/ FpCondMove \/ Convert
    BY <1>2, <2>2, FpMoveStep, FpMemoryStep, FpComputeStep, FpCondMoveStep, ConvertStep DEF Next
  <2>3. CASE fpCmp \/ _ctc1 \/ SetMode
    BY <1>2, <2>3, FpCmpStep, Ctc1Step, SetModeStep DEF Next
  <2> QED
    BY <1>2, <2>1, <2>2, <2>3 DEF Next
<1> QED
  BY <1>1, <1>2

\* The data path's inductive invariant.
DataInv == TypeOK /\ SignExtended /\ SinglesHeld /\ FccViews

LEMMA DataInit == Init => DataInv
<1> SUFFICES ASSUME Init PROVE DataInv
  OBVIOUS
<1>1. /\ gpr \in GprInit /\ hi = 0 /\ lo = 0 /\ mem \in MemInit /\ cpr1 \in FprInit
      /\ fcsr = {} /\ fccr = {} /\ mirrored = TRUE /\ in64 \in BOOLEAN /\ fr \in BOOLEAN
      /\ exc = "none" /\ ops = 0 /\ wide = FALSE /\ fpw = [f \in DOMAIN cpr1 |-> {}]
  BY DEF Init
<1>2. /\ gpr \in [DOMAIN gpr -> DWord] /\ \A r \in DOMAIN gpr : Canonical64(gpr[r])
      /\ \A t \in Operands : t[1] \in DOMAIN gpr /\ t[2] \in DOMAIN gpr /\ t[3] \in DOMAIN gpr
  BY <1>1, StartAssumption, Zenon
<1>3. cpr1 \in [FReg -> DWord] /\ \A f \in FReg : f \in Nat /\ even(f) \in FReg
  BY <1>1, StartAssumption DEF FReg, even
<1>4. mem \in Memory
  BY <1>1, StartAssumption
<1>5. 0 \in DWord /\ Canonical64(0) /\ ops \in 0..MaxOps
  BY <1>1, ZeroCanonical, DataAssumption
<1>6. fpw \in [FReg -> SUBSET (0..(2^W - 1))]
  BY <1>1 DEF FReg
<1>7. TypeOK
  BY <1>1, <1>2, <1>3, <1>4, <1>5, <1>6 DEF TypeOK
<1>8. SignExtended
  BY <1>1, <1>2, <1>5, Zenon DEF SignExtended
<1>9. SinglesHeld
  BY <1>1 DEF SinglesHeld, FReg
<1>10. FccViews
  BY <1>1 DEF FccViews, getConditionCode
<1> QED
  BY <1>7, <1>8, <1>9, <1>10 DEF DataInv

LEMMA OpsStep == ASSUME TypeOK, Running, ops' = ops + 1 PROVE ops' \in 0..MaxOps
BY DataAssumption DEF TypeOK, Running

LEMMA DataStep == DataInv /\ [Next]_vars => DataInv'
<1> SUFFICES ASSUME DataInv, [Next]_vars PROVE DataInv'
  OBVIOUS
<1>1. TypeOK /\ SignExtended /\ SinglesHeld /\ FccViews
  BY DEF DataInv
<1>2. CASE UNCHANGED vars
  <2>1. /\ UNCHANGED <<gpr, hi, lo, mem, cpr1, fcsr, fccr, mirrored, in64, fr, exc, ops, wide, fpw>>
    BY <1>2 DEF vars, ireg, fpu, mode
  <2>2. TypeOK'
    BY <1>1, <2>1 DEF TypeOK, FReg, even
  <2>3. SignExtended'
    BY <1>1, <2>1, Zenon DEF SignExtended
  <2>4. SinglesHeld'
    BY <1>1, <2>1 DEF SinglesHeld, Read32, FReg
  <2>5. FccViews'
    BY <1>1, <2>1 DEF FccViews, getConditionCode
  <2> QED
    BY <2>2, <2>3, <2>4, <2>5 DEF DataInv
<1>3. CASE Running /\ IntStep
  <2>1. /\ gpr' \in [DOMAIN gpr -> DWord] /\ hi' \in DWord /\ lo' \in DWord /\ mem' \in Memory
        /\ cpr1' = cpr1 /\ fcsr' = fcsr /\ fccr' = fccr /\ mirrored' = mirrored /\ in64' = in64 /\ fr' = fr /\ fpw' = fpw
        /\ exc' \in Codes /\ wide' \in BOOLEAN /\ (wide => wide') /\ ops' = ops + 1
    BY <1>3 DEF IntStep
  <2>2. ops' \in 0..MaxOps
    BY <1>1, <1>3, <2>1, OpsStep
  <2>3. TypeOK'
    BY <1>1, <2>1, <2>2 DEF TypeOK, FReg, even, Codes
  <2>4. SignExtended'
    <3>1. ASSUME ~wide' PROVE Canon' /\ exc' # "sigfpe"
      <4>1. Canon
        BY <1>1, <2>1, <3>1 DEF SignExtended, Canon
      <4> QED
        BY <1>3, <3>1, <4>1 DEF IntStep
    <3> QED
      BY <3>1 DEF SignExtended, Canon
  <2>5. SinglesHeld'
    BY <1>1, <2>1 DEF SinglesHeld, Read32, FReg
  <2>6. FccViews'
    BY <1>1, <2>1 DEF FccViews, getConditionCode
  <2> QED
    BY <2>3, <2>4, <2>5, <2>6 DEF DataInv
<1>4. CASE Running /\ FpStep
  <2>1. /\ UNCHANGED <<gpr, hi, lo, mem, fcsr, fccr, mirrored, in64, fr, wide>>
        /\ ops' = ops + 1 /\ exc' = "none"
        /\ cpr1' \in [FReg -> DWord] /\ fpw' \in [FReg -> SUBSET Word]
    BY <1>4 DEF FpStep
  <2>2. ops' \in 0..MaxOps /\ FReg' = FReg
    BY <1>1, <1>4, <2>1, OpsStep DEF FReg
  <2>3. TypeOK'
    BY <1>1, <2>1, <2>2 DEF TypeOK, even, Word
  <2>4. SignExtended'
    BY <1>1, <2>1 DEF SignExtended
  <2>5. SinglesHeld'
    BY <1>1, <1>4 DEF FpStep
  <2>6. FccViews'
    BY <1>1, <2>1 DEF FccViews, getConditionCode
  <2> QED
    BY <2>3, <2>4, <2>5, <2>6 DEF DataInv
<1>5. CASE Running /\ CcStep
  <2>1. /\ UNCHANGED <<gpr, hi, lo, mem, cpr1, in64, fr, wide, fpw>>
        /\ ops' = ops + 1 /\ exc' = "none" /\ mirrored' \in BOOLEAN
    BY <1>5 DEF CcStep
  <2>2. ops' \in 0..MaxOps
    BY <1>1, <1>5, <2>1, OpsStep
  <2>3. TypeOK'
    BY <1>1, <2>1, <2>2 DEF TypeOK, FReg, even
  <2>4. SignExtended'
    BY <1>1, <2>1 DEF SignExtended
  <2>5. SinglesHeld'
    BY <1>1, <2>1 DEF SinglesHeld, Read32, FReg
  <2>6. FccViews'
    BY <1>1, <1>5 DEF CcStep
  <2> QED
    BY <2>3, <2>4, <2>5, <2>6 DEF DataInv
<1>6. CASE Running /\ ModeStep
  <2>1. /\ UNCHANGED <<gpr, hi, lo, mem, cpr1, fcsr, fccr, mirrored, wide>>
        /\ in64' \in BOOLEAN /\ fr' \in BOOLEAN /\ ops' = ops + 1 /\ exc' = "none"
        /\ fpw' \in [FReg -> SUBSET Word]
    BY <1>6 DEF ModeStep
  <2>2. ops' \in 0..MaxOps
    BY <1>1, <1>6, <2>1, OpsStep
  <2>3. TypeOK'
    BY <1>1, <2>1, <2>2 DEF TypeOK, FReg, even, Word
  <2>4. SignExtended'
    BY <1>1, <2>1 DEF SignExtended
  <2>5. SinglesHeld'
    BY <1>1, <1>6 DEF ModeStep
  <2>6. FccViews'
    BY <1>1, <2>1 DEF FccViews, getConditionCode
  <2> QED
    BY <2>3, <2>4, <2>5, <2>6 DEF DataInv
<1> QED
  BY <1>1, <1>2, <1>3, <1>4, <1>5, <1>6, Kinds
-----------------------------------------------------------------------------
(* Results against the integers. *)

SumOps == {"add", "addi", "dadd", "daddi", "sub", "dsub"}
ExactOps == SumOps \cup {"mult", "dmult", "multu", "dmultu", "div", "ddiv"}
WidthOf(op) == IF op \in {"add", "addi", "sub", "mult", "div"} THEN W ELSE D

\* The last instruction is one that ResultExact says nothing of.
QuietOp == /\ insn.op \notin ExactOps \/ exc = "ri"
           /\ insn.op # "cvt" \/ insn.n = 0

LEMMA QuietExact == ASSUME QuietOp' PROVE ResultExact'
<1>1. RoundsAsNamed'
  BY DEF QuietOp, RoundsAsNamed
<1>2. IntResultExact'
  BY DEF QuietOp, IntResultExact, ExactOps, SumOps
<1> QED
  BY <1>1, <1>2 DEF ResultExact

\* The signed reading of the low n bits is the number less a multiple of 2^n.
LEMMA SignedMod ==
    ASSUME NEW n \in Nat, n # 0, NEW x \in Int
    PROVE  \E z \in Int : /\ x = sgn(x % 2^n, n) + z * 2^n
                          /\ sgn(x % 2^n, n) \in Int /\ InRange(sgn(x % 2^n, n), n)
<1>1. PICK h \in Nat : h > 0 /\ 2^(n - 1) = h /\ 2^n = h + h
  BY Halves
<1>2. PICK m \in Nat : m = h + h /\ m > 0
  BY <1>1
<1>3. PICK a \in Int, r \in Nat : a = x \div m /\ r = x % m /\ r < m /\ x = a * m + r
  BY <1>2, Divided
<1>4. PICK u \in Int : u = a * m /\ x = u + r /\ r < m
  BY <1>3
<1>5. PICK s, d \in Int : s = sgn(r, n) /\ s = r - d /\ (r >= h => d = m) /\ (~(r >= h) => d = 0)
  <2>1. CASE r >= h
    <3>1. sgn(r, n) = r - m
      BY <1>1, <1>2, <2>1 DEF sgn
    <3> QED
      BY <2>1, <3>1
  <2>2. CASE ~(r >= h)
    <3>1. sgn(r, n) = r - 0
      BY <1>1, <1>2, <2>2 DEF sgn
    <3> QED
      BY <2>2, <3>1
  <2> QED
    BY <2>1, <2>2
<1>6. s >= -h /\ s < h
  BY <1>2, <1>4, <1>5
<1>7. InRange(s, n)
  BY <1>1, <1>6 DEF InRange
<1>8. \E z \in Int : x = s + z * m
  <2>1. (a + 1) * m = a * m + 1 * m
    BY Distribute
  <2>2. CASE r >= h
    <3>1. x = s + (u + m)
      BY <1>4, <1>5, <2>2
    <3>2. u + m = (a + 1) * m
      BY <1>4, <2>1
    <3> QED
      BY <3>1, <3>2
  <2>3. CASE ~(r >= h)
    <3>1. x = s + u
      BY <1>4, <1>5, <2>3
    <3> QED
      BY <1>4, <3>1
  <2> QED
    BY <2>2, <2>3
<1> QED
  BY <1>1, <1>2, <1>3, <1>5, <1>7, <1>8

\* A number in range is the signed reading of its residue.
LEMMA InRangeRead ==
    ASSUME NEW n \in Nat, n # 0, NEW v \in Int, InRange(v, n), NEW z \in Int
    PROVE  sgn((v + z * 2^n) % 2^n, n) = v
<1>1. PICK m \in Nat : m = 2^n /\ m > 0
  BY PowPos
<1>2. (v + z * m) % m = v % m
  BY <1>1, DivShift
<1>3. sgn(v % 2^n, n) = v
  BY SgnOfMod DEF InRange
<1> QED
  BY <1>1, <1>2, <1>3

LEMMA TopBit ==
    ASSUME NEW n \in Nat, n # 0, NEW h \in Nat, h > 0, 2^(n - 1) = h, NEW x \in Nat, x < h + h
    PROVE  Top(x, n) = IF x >= h THEN 1 ELSE 0
<1>1. CASE x < h
  <2>1. x \div h = 0
    BY <1>1, DivOfLess
  <2> QED
    BY <1>1, <2>1 DEF Top
<1>2. CASE x >= h
  <2>1. PICK r \in Nat : r = x - h /\ r < h /\ x = h + r
    BY <1>2
  <2>2. (1 * h + r) \div h = 1
    BY <2>1, DivUnique
  <2>3. 1 * h + r = x
    BY <2>1
  <2> QED
    BY <1>2, <2>2, <2>3 DEF Top
<1> QED
  BY <1>1, <1>2

\* The residue of a number within one modulus of the range.
LEMMA NearMod ==
    ASSUME NEW m \in Nat, m > 0, NEW v \in Int, v < m + m, v >= -m
    PROVE  v % m \in Nat /\ v % m = IF v >= m THEN v - m ELSE IF v < 0 THEN v + m ELSE v
<1>1. CASE v >= m
  <2>1. PICK r \in Nat : r = v - m /\ r < m /\ v = m + r
    BY <1>1
  <2>2. (1 * m + r) % m = r
    BY <2>1, DivUnique
  <2>3. 1 * m + r = v
    BY <2>1
  <2> QED
    BY <1>1, <2>1, <2>2, <2>3
<1>2. CASE v < 0
  <2>1. PICK r \in Nat : r = v + m /\ r < m /\ v = r - m
    BY <1>2
  <2>2. ((-1) * m + r) % m = r
    BY <2>1, DivUnique
  <2>3. (-1) * m + r = v
    BY <2>1
  <2> QED
    BY <1>2, <2>1, <2>2, <2>3
<1>3. CASE v >= 0 /\ v < m
  <2>1. v % m = v
    BY <1>3, DivOfLess
  <2> QED
    BY <1>3, <2>1
<1> QED
  BY <1>1, <1>2, <1>3

LEMMA AddTest ==
    ASSUME NEW n \in Nat, n # 0, NEW x \in Nat, x < 2^n, NEW y \in Nat, y < 2^n
    PROVE  AddOverflows(x, y, n) <=> ~InRange(sgn(x, n) + sgn(y, n), n)
<1>1. PICK h \in Nat : h > 0 /\ 2^(n - 1) = h /\ 2^n = h + h
  BY Halves
<1>2. PICK m \in Nat : m = h + h /\ m > 0
  BY <1>1
<1>3. x < m /\ y < m
  BY <1>1, <1>2
<1>4. PICK r \in Nat : r = (x + y) % m /\ r = IF x + y >= m THEN x + y - m ELSE x + y
  <2>1. PICK v \in Int : v = x + y /\ v < m + m /\ v >= 0 /\ v >= -m
    BY <1>3
  <2>2. v % m \in Nat /\ v % m = IF v >= m THEN v - m ELSE IF v < 0 THEN v + m ELSE v
    BY <1>2, <2>1, NearMod
  <2> QED
    BY <2>1, <2>2
<1>5. r < m
  BY <1>3, <1>4
<1>6. PICK s, t \in Int : /\ s = sgn(x, n) /\ s = IF x >= h THEN x - m ELSE x
                          /\ t = sgn(y, n) /\ t = IF y >= h THEN y - m ELSE y
  <2>1. 2^(n - 1) = h /\ 2^n = m
    BY <1>1, <1>2
  <2>2. sgn(x, n) = IF x >= h THEN x - m ELSE x
    BY <2>1, Zenon DEF sgn
  <2>3. sgn(y, n) = IF y >= h THEN y - m ELSE y
    BY <2>1, Zenon DEF sgn
  <2>4. sgn(x, n) \in Int /\ sgn(y, n) \in Int
    BY <2>2, <2>3
  <2> QED
    BY <2>2, <2>3, <2>4
<1>7. /\ Top(x, n) = IF x >= h THEN 1 ELSE 0
      /\ Top(y, n) = IF y >= h THEN 1 ELSE 0
      /\ Top(r, n) = IF r >= h THEN 1 ELSE 0
  BY <1>1, <1>2, <1>3, <1>5, TopBit
<1>8. AddOverflows(x, y, n) <=> ((r >= h) # (y >= h) /\ (x >= h) = (y >= h))
  BY <1>1, <1>2, <1>4, <1>7 DEF AddOverflows
<1>9. InRange(s + t, n) <=> s + t >= -h /\ s + t < h
  BY <1>1 DEF InRange
<1>10. ((r >= h) # (y >= h) /\ (x >= h) = (y >= h)) <=> ~(s + t >= -h /\ s + t < h)
  <2>1. CASE x >= h /\ y >= h
    BY <1>2, <1>3, <1>4, <1>6, <2>1
  <2>2. CASE x >= h /\ ~(y >= h)
    BY <1>2, <1>3, <1>6, <2>2
  <2>3. CASE ~(x >= h) /\ y >= h
    BY <1>2, <1>3, <1>6, <2>3
  <2>4. CASE ~(x >= h) /\ ~(y >= h)
    BY <1>2, <1>3, <1>4, <1>6, <2>4
  <2> QED
    BY <2>1, <2>2, <2>3, <2>4
<1> QED
  BY <1>6, <1>8, <1>9, <1>10

LEMMA SubTest ==
    ASSUME NEW n \in Nat, n # 0, NEW x \in Nat, x < 2^n, NEW y \in Nat, y < 2^n
    PROVE  SubOverflows(x, y, n) <=> ~InRange(sgn(x, n) - sgn(y, n), n)
<1>1. PICK h \in Nat : h > 0 /\ 2^(n - 1) = h /\ 2^n = h + h
  BY Halves
<1>2. PICK m \in Nat : m = h + h /\ m > 0
  BY <1>1
<1>3. x < m /\ y < m
  BY <1>1, <1>2
<1>4. PICK r \in Nat : r = (x - y) % m /\ r = IF x - y < 0 THEN x - y + m ELSE x - y
  <2>1. PICK v \in Int : v = x - y /\ v < m + m /\ v < m /\ v >= -m
    BY <1>3
  <2>2. v % m \in Nat /\ v % m = IF v >= m THEN v - m ELSE IF v < 0 THEN v + m ELSE v
    BY <1>2, <2>1, NearMod
  <2> QED
    BY <2>1, <2>2
<1>5. r < m
  BY <1>3, <1>4
<1>6. PICK s, t \in Int : /\ s = sgn(x, n) /\ s = IF x >= h THEN x - m ELSE x
                          /\ t = sgn(y, n) /\ t = IF y >= h THEN y - m ELSE y
  <2>1. 2^(n - 1) = h /\ 2^n = m
    BY <1>1, <1>2
  <2>2. sgn(x, n) = IF x >= h THEN x - m ELSE x
    BY <2>1, Zenon DEF sgn
  <2>3. sgn(y, n) = IF y >= h THEN y - m ELSE y
    BY <2>1, Zenon DEF sgn
  <2>4. sgn(x, n) \in Int /\ sgn(y, n) \in Int
    BY <2>2, <2>3
  <2> QED
    BY <2>2, <2>3, <2>4
<1>7. /\ Top(x, n) = IF x >= h THEN 1 ELSE 0
      /\ Top(y, n) = IF y >= h THEN 1 ELSE 0
      /\ Top(r, n) = IF r >= h THEN 1 ELSE 0
  BY <1>1, <1>2, <1>3, <1>5, TopBit
<1>8. SubOverflows(x, y, n) <=> ((r >= h) # (x >= h) /\ (x >= h) # (y >= h))
  BY <1>1, <1>2, <1>4, <1>7 DEF SubOverflows
<1>9. InRange(s - t, n) <=> s - t >= -h /\ s - t < h
  BY <1>1 DEF InRange
<1>10. ((r >= h) # (x >= h) /\ (x >= h) # (y >= h)) <=> ~(s - t >= -h /\ s - t < h)
  <2>1. CASE x >= h /\ y >= h
    BY <1>2, <1>3, <1>6, <2>1
  <2>2. CASE x >= h /\ ~(y >= h)
    BY <1>2, <1>3, <1>4, <1>6, <2>2
  <2>3. CASE ~(x >= h) /\ y >= h
    BY <1>2, <1>3, <1>4, <1>6, <2>3
  <2>4. CASE ~(x >= h) /\ ~(y >= h)
    BY <1>2, <1>3, <1>6, <2>4
  <2> QED
    BY <2>1, <2>2, <2>3, <2>4
<1> QED
  BY <1>6, <1>8, <1>9, <1>10

\* What ResultExact asks of a trapping addition or subtraction.
LEMMA SumClause ==
    ASSUME NEW op \in SumOps, NEW a, NEW b, NEW rd, NEW n, NEW v,
           insn'.op = op, insn'.a = a, insn'.b = b, insn'.rd = rd, n = WidthOf(op),
           v = IF op \in {"sub", "dsub"} THEN sgn(a % 2^n, n) - sgn(b % 2^n, n) ELSE sgn(a % 2^n, n) + sgn(b % 2^n, n),
           (exc' = "ov") <=> ~InRange(v, n), exc' = "none" /\ rd # 0 => SD(gpr'[rd]) = v
    PROVE  ResultExact'
<1>1. RoundsAsNamed'
  BY DEF RoundsAsNamed, SumOps
<1>2. InRange(v, n) \in BOOLEAN
  BY DEF InRange
<1>3. IntResultExact'
  BY <1>2 DEF IntResultExact, WidthOf, SumOps
<1> QED
  BY <1>1, <1>3 DEF ResultExact

\* A sum or difference of n bits, as the register shows it.
LEMMA ReadBack ==
    ASSUME NEW n \in {W, D}, NEW s \in Int,
           NEW x, x = IF n = W THEN sext64(s % 2^n) ELSE s % 2^n
    PROVE  SD(x) = sgn(s % 2^n, n)
<1>1. CASE n = W
  <2>1. s % 2^W \in Word
    BY ModWord
  <2> QED
    BY <1>1, <2>1, SextWord
<1>2. CASE n = D
  <2>1. D # W
    BY WidthNat
  <2> QED
    BY <1>2, <2>1 DEF SD
<1> QED
  BY <1>1, <1>2

LEMMA SumMod ==
    ASSUME NEW n \in Nat, n # 0, NEW a \in Nat, NEW b \in Nat
    PROVE  /\ InRange(sgn(a % 2^n, n) + sgn(b % 2^n, n), n) =>
                 sgn((a + b) % 2^n, n) = sgn(a % 2^n, n) + sgn(b % 2^n, n)
           /\ InRange(sgn(a % 2^n, n) - sgn(b % 2^n, n), n) =>
                 sgn((a - b) % 2^n, n) = sgn(a % 2^n, n) - sgn(b % 2^n, n)
<1>1. PICK c, d, m \in Int : c = a /\ d = b /\ m = 2^n
  BY PowPos
<1>2. PICK s, y \in Int : s = sgn(c % 2^n, n) /\ c = s + y * 2^n
  BY SignedMod
<1>3. PICK t, z \in Int : t = sgn(d % 2^n, n) /\ d = t + z * 2^n
  BY SignedMod
<1>4. /\ y + z \in Int /\ y - z \in Int
      /\ (s + y * m) + (t + z * m) = (s + t) + (y + z) * m
      /\ (s + y * m) - (t + z * m) = (s - t) + (y - z) * m
  OBVIOUS
<1>5. c + d = (s + t) + (y + z) * 2^n /\ c - d = (s - t) + (y - z) * 2^n
  BY <1>1, <1>2, <1>3, <1>4
<1>6. PICK e, f, u, v \in Int : e = s + t /\ f = s - t /\ u = y + z /\ v = y - z
  OBVIOUS
<1>7. InRange(e, n) => sgn((e + u * 2^n) % 2^n, n) = e
  BY InRangeRead
<1>8. InRange(f, n) => sgn((f + v * 2^n) % 2^n, n) = f
  BY InRangeRead
<1> QED
  BY <1>1, <1>2, <1>3, <1>5, <1>6, <1>7, <1>8

AddOps == {"add", "addu", "dadd", "daddu", "addi", "addiu", "daddi", "daddiu"}

LEMMA LowRange == ASSUME NEW n \in Nat, NEW x \in Nat PROVE x % 2^n \in Nat /\ x % 2^n < 2^n
<1>1. PICK m \in Nat : m = 2^n /\ m > 0
  BY PowPos
<1>2. PICK z \in Int : z = x
  OBVIOUS
<1>3. z % m \in Nat /\ z % m < m
  BY <1>1, DivMod
<1> QED
  BY <1>1, <1>2, <1>3

LEMMA AddExact ==
    ASSUME TypeOK, NEW op \in AddOps, NEW t \in Operands, NEW b \in DWord, NEW rd \in DOMAIN gpr, Add(op, t, b, rd)
    PROVE  ResultExact'
<1>1. PICK a \in Nat, c \in Nat : a = gpr[t[1]] /\ c = b
  BY TypeFacts, DWordNat
<1>2. PICK n \in {W, D} : n = (IF op \in {"add", "addu", "addi", "addiu"} THEN W ELSE D) /\ n \in Nat /\ n # 0
  BY WidthNat
<1>3. PICK i : i = [Insn(op, t, b) EXCEPT !.rd = rd]
  OBVIOUS
<1>4. i.op = op /\ i.a = a /\ i.b = c /\ i.rd = rd
  BY <1>1, <1>3 DEF Insn
<1>5. PICK o \in BOOLEAN : o <=> AddOverflows(a % 2^n, c % 2^n, n)
  BY DEF AddOverflows
<1>6. PICK x : x = IF n = W THEN sext64((a + c) % 2^n) ELSE (a + c) % 2^n
  OBVIOUS
<1>7. IF op \in {"add", "addi", "dadd", "daddi"} /\ o THEN raise("ov", i) ELSE ToGpr(i, rd, x, n = D)
  BY <1>1, <1>2, <1>3, <1>5, <1>6 DEF Add
<1>8. insn' = i
  BY <1>7 DEF raise, ToGpr, Done
<1>9. CASE op \notin SumOps
  <2>1. QuietOp'
    BY <1>4, <1>8, <1>9 DEF QuietOp, ExactOps, AddOps, SumOps
  <2> QED
    BY <2>1, QuietExact
<1>10. CASE op \in SumOps
  <2>1. op \in {"add", "addi", "dadd", "daddi"} /\ n = WidthOf(op)
    BY <1>2, <1>10 DEF SumOps, AddOps, WidthOf
  <2>2. PICK v : v = sgn(a % 2^n, n) + sgn(c % 2^n, n)
    OBVIOUS
  <2>3. o <=> ~InRange(v, n)
    BY <1>2, <1>5, <2>2, AddTest, LowRange
  <2>4. (exc' = "ov") <=> ~InRange(v, n)
    BY <1>7, <2>1, <2>3 DEF raise, ToGpr, Done
  <2>5. ASSUME exc' = "none", rd # 0 PROVE SD(gpr'[rd]) = v
    <3>1. ~o /\ gpr'[rd] = x
      BY <1>7, <2>1, <2>5, TypeFacts DEF raise, ToGpr, Put
    <3>2. PICK s \in Int : s = a + c
      OBVIOUS
    <3>3. SD(x) = sgn(s % 2^n, n)
      BY <1>6, <3>2, ReadBack
    <3>4. sgn((a + c) % 2^n, n) = v
      BY <1>2, <2>2, <2>3, <3>1, SumMod
    <3> QED
      BY <3>1, <3>2, <3>3, <3>4
  <2> QED
    BY <1>4, <1>8, <1>10, <2>1, <2>2, <2>4, <2>5, SumClause
<1> QED
  BY <1>9, <1>10

LEMMA SubExact ==
    ASSUME TypeOK, NEW op \in {"sub", "subu", "dsub", "dsubu"}, NEW t \in Operands, Sub(op, t)
    PROVE  ResultExact'
<1>1. PICK a \in Nat, c \in Nat : a = gpr[t[1]] /\ c = gpr[t[2]]
  BY TypeFacts, DWordNat
<1>2. PICK n \in {W, D} : n = (IF op \in {"sub", "subu"} THEN W ELSE D) /\ n \in Nat /\ n # 0
  BY WidthNat
<1>3. PICK i : i = Insn(op, t, gpr[t[2]])
  OBVIOUS
<1>4. i.op = op /\ i.a = a /\ i.b = c /\ i.rd = t[3] /\ t[3] \in DOMAIN gpr
  BY <1>1, <1>3, TypeFacts DEF Insn
<1>5. PICK o \in BOOLEAN : o <=> SubOverflows(a % 2^n, c % 2^n, n)
  BY DEF SubOverflows
<1>6. PICK x : x = IF n = W THEN sext64((a - c) % 2^n) ELSE (a - c) % 2^n
  OBVIOUS
<1>7. IF op \in {"sub", "dsub"} /\ o THEN raise("ov", i) ELSE ToGpr(i, t[3], x, n = D)
  BY <1>1, <1>2, <1>3, <1>5, <1>6 DEF Sub
<1>8. insn' = i
  BY <1>7 DEF raise, ToGpr, Done
<1>9. CASE op \notin SumOps
  <2>1. QuietOp'
    BY <1>4, <1>8, <1>9 DEF QuietOp, ExactOps, SumOps
  <2> QED
    BY <2>1, QuietExact
<1>10. CASE op \in SumOps
  <2>1. op \in {"sub", "dsub"} /\ n = WidthOf(op)
    BY <1>2, <1>10 DEF SumOps, WidthOf
  <2>2. PICK v : v = sgn(a % 2^n, n) - sgn(c % 2^n, n)
    OBVIOUS
  <2>3. o <=> ~InRange(v, n)
    BY <1>2, <1>5, <2>2, SubTest, LowRange
  <2>4. (exc' = "ov") <=> ~InRange(v, n)
    BY <1>7, <2>1, <2>3 DEF raise, ToGpr, Done
  <2>5. ASSUME exc' = "none", t[3] # 0 PROVE SD(gpr'[t[3]]) = v
    <3>1. ~o /\ gpr'[t[3]] = x
      BY <1>4, <1>7, <2>1, <2>5, TypeFacts DEF raise, ToGpr, Put
    <3>2. PICK s \in Int : s = a - c
      OBVIOUS
    <3>3. SD(x) = sgn(s % 2^n, n)
      BY <1>6, <3>2, ReadBack
    <3>4. sgn((a - c) % 2^n, n) = v
      BY <1>2, <2>2, <2>3, <3>1, SumMod
    <3> QED
      BY <3>1, <3>2, <3>3, <3>4
  <2>6. PICK rd : rd = t[3]
    OBVIOUS
  <2> QED
    BY <1>4, <1>8, <1>10, <2>1, <2>2, <2>4, <2>5, <2>6, SumClause
<1> QED
  BY <1>9, <1>10

\* The low bits of a result of n bits in its register.
LEMMA ShownLow ==
    ASSUME NEW n \in {W, D}, NEW w \in Nat, w < 2^n, NEW x, x = IF n = W THEN sext64(w) ELSE w
    PROVE  x % 2^n = w
<1>1. CASE n = W
  <2>1. w \in Word
    BY <1>1, NatWord
  <2> QED
    BY <1>1, <2>1, SextWord DEF Lo
<1>2. CASE n = D
  <2>1. D # W
    BY WidthNat
  <2>2. PICK m \in Nat : m = 2^n /\ w < m
    BY <1>2, WidthNat, PowPos
  <2>3. w % m = w
    BY <2>2, DivOfLess
  <2> QED
    BY <1>2, <2>1, <2>2, <2>3
<1> QED
  BY <1>1, <1>2

\* The signed and the unsigned operands of width n, as the code reads them.
LEMMA OperandRead ==
    ASSUME NEW x \in DWord
    PROVE  /\ SW(x) = sgn(x % 2^W, W) /\ SD(x) = sgn(x % 2^D, D)
           /\ Lo(x) = x % 2^W /\ x = x % 2^D
<1>1. PICK m \in Nat : m = 2^D /\ x \in Nat /\ x < m
  BY WidthNat, PowPos, DWordNat
<1>2. x % m = x
  BY <1>1, DivOfLess
<1> QED
  BY <1>1, <1>2 DEF SW, SD, Lo

LEMMA ProductBound ==
    ASSUME NEW h \in Nat, NEW u \in Int, NEW v \in Int, u >= -h, u <= h, v >= -h, v <= h
    PROVE  u * v <= h * h /\ -(h * h) <= u * v
<1>1. ASSUME NEW a \in Nat, NEW b \in Nat, a <= h, b <= h PROVE a * b <= h * h
  <2>1. a * b <= h * b
    <3>1. PICK d \in Nat : d = h - a
      BY <1>1
    <3>2. (a + d) * b = a * b + d * b
      BY Distribute
    <3>3. d * b >= 0 /\ h = a + d
      BY <1>1, <3>1
    <3> QED
      BY <3>2, <3>3
  <2>2. h * b <= h * h
    <3>1. PICK d \in Nat : d = h - b
      BY <1>1
    <3>2. (b + d) * h = b * h + d * h
      BY Distribute
    <3>3. d * h >= 0 /\ h = b + d
      BY <1>1, <3>1
    <3>4. b * h = h * b
      OBVIOUS
    <3> QED
      BY <3>2, <3>3, <3>4
  <2> QED
    BY <2>1, <2>2
<1>2. PICK a, b \in Nat : a <= h /\ b <= h /\ (u = a \/ u = -a) /\ (v = b \/ v = -b)
  <2>1. PICK a \in Nat : a <= h /\ (u = a \/ u = -a)
    <3>1. CASE u >= 0
      BY <3>1
    <3>2. CASE u < 0
      <4>1. PICK a \in Nat : a = -u
        BY <3>2
      <4> QED
        BY <4>1
    <3> QED
      BY <3>1, <3>2
  <2>2. PICK b \in Nat : b <= h /\ (v = b \/ v = -b)
    <3>1. CASE v >= 0
      BY <3>1
    <3>2. CASE v < 0
      <4>1. PICK b \in Nat : b = -v
        BY <3>2
      <4> QED
        BY <4>1
    <3> QED
      BY <3>1, <3>2
  <2> QED
    BY <2>1, <2>2
<1>3. a * b <= h * h /\ 0 <= a * b
  <2>1. \A f, g \in Nat : 0 <= f * g
    OBVIOUS
  <2> QED
    BY <1>1, <1>2, <2>1
<1>4. u * v = a * b \/ u * v = -(a * b)
  <2>1. a * b = (-a) * (-b) /\ (-a) * b = -(a * b) /\ a * (-b) = -(a * b)
    OBVIOUS
  <2> QED
    BY <1>2, <2>1
<1>5. PICK y, k, z \in Int : y = u * v /\ k = h * h /\ z = a * b
  OBVIOUS
<1> QED
  BY <1>3, <1>4, <1>5

\* The high half of a signed product fits.
Product(y, u, v)   == y = u * v
SignedHalves(y, n) == sgn((y \div 2^n) % 2^n, n) * 2^n + (y % 2^n) = y

LEMMA SignedHigh ==
    ASSUME NEW n \in Nat, n # 0, NEW u \in Int, NEW v \in Int, InRange(u, n), InRange(v, n),
           NEW y \in Int, Product(y, u, v)
    PROVE  SignedHalves(y, n)
<1>1. PICK h \in Nat : h > 0 /\ 2^(n - 1) = h /\ 2^n = h + h
  BY Halves
<1>2. PICK m \in Nat : m = h + h /\ m > 0
  BY <1>1
<1>3. u >= -h /\ u <= h /\ v >= -h /\ v <= h
  BY <1>1 DEF InRange
<1>4. PICK k \in Nat : k = h * h /\ k > 0
  <2>1. \A f \in Nat : f > 0 => f * f \in Nat /\ f * f > 0
    OBVIOUS
  <2> QED
    BY <1>1, <2>1
<1>5. y <= k /\ -k <= y
  BY <1>3, <1>4, ProductBound DEF Product
<1>6. h * m = k + k /\ (-h) * m = -(k + k)
  <2>1. h * (h + h) = h * h + h * h /\ (-h) * (h + h) = -(h * h + h * h)
    OBVIOUS
  <2> QED
    BY <1>2, <1>4, <2>1
<1>7. PICK a \in Int, r \in Nat : a = y \div m /\ r = y % m /\ r < m /\ y = a * m + r
  BY <1>2, Divided
<1>8. PICK g, f \in Int : g = -h /\ f = h
  OBVIOUS
<1>9. g <= a
  <2>1. g * m <= y
    BY <1>4, <1>5, <1>6, <1>8
  <2> QED
    BY <1>2, <1>7, <2>1, DivAtLeast
<1>10. a < f
  <2>1. y < f * m
    BY <1>4, <1>5, <1>6, <1>8
  <2> QED
    BY <1>2, <1>7, <2>1, DivBelow
<1>11. InRange(a, n)
  BY <1>1, <1>8, <1>9, <1>10 DEF InRange
<1>12. sgn(a % 2^n, n) = a
  BY <1>11, SgnOfMod DEF InRange
<1> QED
  BY <1>1, <1>2, <1>7, <1>12 DEF SignedHalves

LEMMA UnsignedHigh ==
    ASSUME NEW n \in Nat, NEW u \in Nat, NEW v \in Nat, u < 2^n, v < 2^n, NEW y \in Nat, y = u * v
    PROVE  ((y \div 2^n) % 2^n) * 2^n + (y % 2^n) = y
<1>1. PICK m \in Nat : m = 2^n /\ m > 0
  BY PowPos
<1>2. y < m * m
  <2>1. PICK k \in Nat : k = m - 1 /\ m = k + 1
    BY <1>1
  <2>2. u <= k /\ v <= k
    BY <1>1, <2>1
  <2>3. PICK a, b \in Int : a = u /\ b = v /\ a >= -k /\ b >= -k /\ a <= k /\ b <= k
    BY <2>2
  <2>4. a * b <= k * k
    BY <2>3, ProductBound
  <2>5. (k + 1) * (k + 1) = k * k + k + k + 1
    OBVIOUS
  <2>6. PICK z \in Nat : z = k * k
    OBVIOUS
  <2> QED
    BY <2>1, <2>3, <2>4, <2>5, <2>6
<1>3. PICK x, f \in Int : x = y /\ f = m
  OBVIOUS
<1>4. PICK a \in Int, r \in Nat : a = x \div m /\ r = x % m /\ r < m /\ x = a * m + r
  BY <1>1, Divided
<1>5. a < m
  <2>1. x < f * m
    BY <1>2, <1>3
  <2>2. x \div m < f
    BY <1>1, <2>1, DivBelow
  <2> QED
    BY <1>3, <1>4, <2>2
<1>6. a \in Nat
  BY <1>1, <1>3, <1>4, DivLeq
<1>7. a % m = a
  BY <1>5, <1>6, DivOfLess
<1> QED
  BY <1>1, <1>3, <1>4, <1>7

\* What ResultExact asks of a product.
LEMMA ProductClause ==
    ASSUME NEW op \in {"mult", "dmult", "multu", "dmultu"}, NEW a, NEW b, NEW n,
           insn'.op = op, insn'.a = a, insn'.b = b, n = IF op \in {"mult", "multu"} THEN W ELSE D,
           IF op \in {"mult", "dmult"}
           THEN sgn(a % 2^n, n) * sgn(b % 2^n, n) = sgn(hi' % 2^n, n) * 2^n + (lo' % 2^n)
           ELSE (a % 2^n) * (b % 2^n) = (hi' % 2^n) * 2^n + (lo' % 2^n)
    PROVE  ResultExact'
<1>1. RoundsAsNamed'
  BY DEF RoundsAsNamed
<1>2. IntResultExact'
  BY DEF IntResultExact
<1> QED
  BY <1>1, <1>2 DEF ResultExact

LEMMA MultExact ==
    ASSUME TypeOK, NEW op \in {"mult", "multu", "dmult", "dmultu"}, NEW t \in Operands, Mult(op, t)
    PROVE  ResultExact'
<1>1. PICK a \in DWord, b \in DWord : a = gpr[t[1]] /\ b = gpr[t[2]]
  BY TypeFacts
<1>2. PICK n \in {W, D} : n = (IF op \in {"mult", "multu"} THEN W ELSE D) /\ n \in Nat /\ n # 0
  BY WidthNat
<1>3. PICK u, v : /\ u = IF op \in {"mult", "dmult"} THEN sgn(a % 2^n, n) ELSE a % 2^n
                  /\ v = IF op \in {"mult", "dmult"} THEN sgn(b % 2^n, n) ELSE b % 2^n
  OBVIOUS
<1>4. /\ op = "mult" => SW(a) = u /\ SW(b) = v
      /\ op = "dmult" => SD(a) = u /\ SD(b) = v
      /\ op = "multu" => Lo(a) = u /\ Lo(b) = v
      /\ op = "dmultu" => a = u /\ b = v
  BY <1>2, <1>3, OperandRead
<1>5. /\ op \in {"mult", "dmult"} => u \in Int /\ v \in Int /\ InRange(u, n) /\ InRange(v, n)
      /\ op \notin {"mult", "dmult"} => u \in Nat /\ v \in Nat /\ u < 2^n /\ v < 2^n
  <2>1. PICK c, d \in Nat : c = a /\ d = b
    BY DWordNat
  <2>2. PICK x, y \in Int : x = c /\ y = d
    OBVIOUS
  <2>3. /\ sgn(x % 2^n, n) \in Int /\ InRange(sgn(x % 2^n, n), n)
        /\ sgn(y % 2^n, n) \in Int /\ InRange(sgn(y % 2^n, n), n)
    BY <1>2, SignedMod
  <2>4. c % 2^n \in Nat /\ c % 2^n < 2^n /\ d % 2^n \in Nat /\ d % 2^n < 2^n
    BY <1>2, LowRange
  <2> QED
    BY <1>3, <2>1, <2>2, <2>3, <2>4
<1>6. PICK y \in Int : y = u * v
  BY <1>5
<1>7. PICK i : i = Insn(op, t, gpr[t[2]])
  OBVIOUS
<1>8. i.op = op /\ i.a = a /\ i.b = b
  BY <1>1, <1>7 DEF Insn
<1>9. PICK p, q : p = (y \div 2^n) % 2^n /\ q = y % 2^n
  OBVIOUS
<1>10. p \in Nat /\ p < 2^n /\ q \in Nat /\ q < 2^n
  <2>1. PICK m \in Nat : m = 2^n /\ m > 0
    BY <1>2, PowPos
  <2>2. PICK z \in Int : z = y \div m
    BY <2>1, DivMod
  <2>3. z % m \in Nat /\ z % m < m /\ y % m \in Nat /\ y % m < m
    BY <2>1, DivMod
  <2> QED
    BY <1>9, <2>1, <2>2, <2>3
<1>11. \E w : ToHiLo(i, IF n = W THEN sext64(p) ELSE p, IF n = W THEN sext64(q) ELSE q, w)
  <2>1. D # W
    BY WidthNat
  <2>2. y = CASE op = "mult"   -> SW(a) * SW(b)
              [] op = "multu"  -> Lo(a) * Lo(b)
              [] op = "dmult"  -> SD(a) * SD(b)
              [] op = "dmultu" -> a * b
    BY <1>4, <1>6
  <2> QED
    BY <1>1, <1>2, <1>7, <1>9, <2>1, <2>2 DEF Mult
<1>12. PICK x, z : /\ x = IF n = W THEN sext64(p) ELSE p
                   /\ z = IF n = W THEN sext64(q) ELSE q
                   /\ insn' = i /\ hi' = x /\ lo' = z
  BY <1>11 DEF ToHiLo, Done
<1>13. x % 2^n = p /\ z % 2^n = q
  BY <1>10, <1>12, ShownLow
<1>14. CASE op \in {"mult", "dmult"}
  <2>1. sgn(p, n) * 2^n + q = u * v
    <3>1. PICK e, f \in Int : e = u /\ f = v /\ InRange(e, n) /\ InRange(f, n) /\ Product(y, e, f)
      BY <1>5, <1>6, <1>14 DEF Product
    <3>2. SignedHalves(y, n)
      BY <1>2, <3>1, SignedHigh
    <3> QED
      BY <1>6, <1>9, <3>2 DEF SignedHalves
  <2>2. sgn(a % 2^n, n) * sgn(b % 2^n, n) = sgn(hi' % 2^n, n) * 2^n + (lo' % 2^n)
    BY <1>3, <1>12, <1>13, <1>14, <2>1
  <2> QED
    BY <1>2, <1>8, <1>12, <1>14, <2>2, ProductClause
<1>15. CASE op \notin {"mult", "dmult"}
  <2>1. p * 2^n + q = u * v
    <3>1. PICK c \in Nat : c = u * v /\ c = y
      BY <1>5, <1>6, <1>15
    <3> QED
      BY <1>2, <1>5, <1>9, <1>15, <3>1, UnsignedHigh
  <2>2. (a % 2^n) * (b % 2^n) = (hi' % 2^n) * 2^n + (lo' % 2^n)
    BY <1>3, <1>12, <1>13, <1>15, <2>1
  <2> QED
    BY <1>2, <1>8, <1>12, <1>15, <2>2, ProductClause
<1> QED
  BY <1>14, <1>15

\* Truncating division: the remainder has the dividend's sign and is less than the divisor.
Truncates(a, b) == /\ Quot(a, b) \in Int /\ Rem(a, b) \in Int /\ b * Quot(a, b) + Rem(a, b) = a
                   /\ Abs(Rem(a, b)) < Abs(b)
                   /\ Rem(a, b) = 0 \/ (Rem(a, b) < 0) = (a < 0)

LEMMA Truncated == ASSUME NEW a \in Int, NEW b \in Int, b # 0 PROVE Truncates(a, b)
<1>1. PICK u \in Int, k \in Nat : u = Abs(a) /\ k = Abs(b) /\ k > 0 /\ u >= 0
  BY DEF Abs
<1>2. PICK q \in Int, r \in Nat : q = u \div k /\ r = u % k /\ r < k /\ u = q * k + r
  BY <1>1, Divided
<1>3. PICK z \in Int : z = q * k /\ u = z + r
  BY <1>2
<1>4. PICK w \in Int : w = Quot(a, b) /\ w = IF (a < 0) = (b < 0) THEN q ELSE -q
  <2>1. Quot(a, b) = IF (a < 0) = (b < 0) THEN q ELSE -q
    BY <1>1, <1>2 DEF Quot
  <2> QED
    BY <2>1
<1>5. /\ a = IF a < 0 THEN -u ELSE u
      /\ b = IF b < 0 THEN -k ELSE k
  BY <1>1 DEF Abs
<1>6. b * w = IF a < 0 THEN -z ELSE z
  <2>1. k * q = z /\ k * (-q) = -z /\ (-k) * q = -z /\ (-k) * (-q) = z
    BY <1>3
  <2>2. CASE a < 0 /\ b < 0
    BY <1>4, <1>5, <2>1, <2>2
  <2>3. CASE a < 0 /\ ~(b < 0)
    BY <1>4, <1>5, <2>1, <2>3
  <2>4. CASE ~(a < 0) /\ b < 0
    BY <1>4, <1>5, <2>1, <2>4
  <2>5. CASE ~(a < 0) /\ ~(b < 0)
    BY <1>4, <1>5, <2>1, <2>5
  <2> QED
    BY <2>2, <2>3, <2>4, <2>5
<1>7. PICK y \in Int : y = b * w
  OBVIOUS
<1>8. PICK s \in Int : s = Rem(a, b) /\ s = a - y
  <2>1. Rem(a, b) = a - b * w
    BY <1>4 DEF Rem
  <2> QED
    BY <1>7, <2>1
<1>9. s = IF a < 0 THEN -r ELSE r
  BY <1>3, <1>5, <1>6, <1>7, <1>8
<1>10. Abs(s) < k /\ (s = 0 \/ (s < 0) = (a < 0))
  BY <1>2, <1>9 DEF Abs
<1>11. b * w + s = a
  BY <1>7, <1>8
<1> QED
  BY <1>1, <1>4, <1>8, <1>10, <1>11 DEF Truncates

\* What ResultExact asks of a signed quotient.
Quotient(n, a, b, h, l) ==
    LET s(x) == sgn(x % 2^n, n) IN
    s(b) # 0 => /\ (s(b) * s(l) + s(h)) % 2^n = a % 2^n
                /\ Abs(s(h)) < Abs(s(b)) /\ (s(h) = 0 \/ (s(h) < 0) = (s(a) < 0))

LEMMA QuotientClause ==
    ASSUME NEW op \in {"div", "ddiv"}, NEW a, NEW b, NEW n,
           insn'.op = op, insn'.a = a, insn'.b = b, n = WidthOf(op), Quotient(n, a, b, hi', lo')
    PROVE  ResultExact'
<1>1. RoundsAsNamed'
  BY DEF RoundsAsNamed
<1>2. IntResultExact'
  BY DEF IntResultExact, Quotient, WidthOf
<1> QED
  BY <1>1, <1>2 DEF ResultExact

\* The registers hold the low n bits of quotient and remainder.
LEMMA QuotientShown ==
    ASSUME NEW n \in Nat, n # 0, NEW a \in Nat, NEW b \in Nat, NEW h, NEW l,
           NEW A \in Int, NEW B \in Int, A = sgn(a % 2^n, n), B = sgn(b % 2^n, n), B # 0,
           h % 2^n = Rem(A, B) % 2^n, l % 2^n = Quot(A, B) % 2^n
    PROVE  Quotient(n, a, b, h, l)
<1>1. PICK m \in Nat : m = 2^n /\ m > 0
  BY PowPos
<1>2. PICK k \in Nat : k > 0 /\ 2^(n - 1) = k /\ m = k + k
  BY <1>1, Halves
<1>3. PICK q, r \in Int : /\ q = Quot(A, B) /\ r = Rem(A, B) /\ B * q + r = A
                          /\ Abs(r) < Abs(B) /\ (r = 0 \/ (r < 0) = (A < 0))
  <2>1. Truncates(A, B)
    BY Truncated
  <2> QED
    BY <2>1 DEF Truncates
<1>4. InRange(B, n)
  <2>1. PICK x \in Int : x = b
    OBVIOUS
  <2>2. InRange(sgn(x % 2^n, n), n)
    BY SignedMod
  <2> QED
    BY <2>1, <2>2
<1>5. B >= -k /\ B < k
  BY <1>2, <1>4 DEF InRange
<1>6. r >= -k /\ r < k
  BY <1>3, <1>5 DEF Abs
<1>7. sgn(r % 2^n, n) = r
  <2>1. r \in -(2^(n - 1))..(2^(n - 1) - 1)
    BY <1>2, <1>6
  <2> QED
    BY <2>1, SgnOfMod
<1>8. PICK p, z \in Int : p = sgn(q % 2^n, n) /\ q = p + z * m
  <2>1. PICK p, z \in Int : p = sgn(q % 2^n, n) /\ q = p + z * 2^n
    BY SignedMod, ZenonT(30)
  <2> QED
    BY <1>1, <2>1
<1>9. (B * p + r) % m = A % m
  <2>1. PICK w \in Int : w = -(B * z)
    OBVIOUS
  <2>2. B * p + r = A + w * m
    <3>1. B * (p + z * m) = B * p + (B * z) * m
      OBVIOUS
    <3>2. (-(B * z)) * m = -((B * z) * m)
      OBVIOUS
    <3>3. PICK e, f, g \in Int : e = B * p /\ f = (B * z) * m /\ g = B * q
      OBVIOUS
    <3>4. g = e + f /\ g + r = A /\ w * m = -f
      BY <1>3, <1>8, <2>1, <3>1, <3>2, <3>3
    <3>5. e + r = A + -f
      BY <3>4
    <3> QED
      BY <3>3, <3>4, <3>5
  <2>3. (A + w * m) % m = A % m
    BY <1>1, DivShift
  <2> QED
    BY <2>2, <2>3
<1>10. A % 2^n = a % 2^n
  <2>1. a % 2^n \in 0..(2^n - 1)
    <3>1. a % 2^n \in Nat /\ a % 2^n < 2^n
      BY LowRange
    <3> QED
      BY <1>1, <3>1
  <2> QED
    BY <2>1, SgnRange
<1> QED
  BY <1>1, <1>3, <1>7, <1>8, <1>9, <1>10 DEF Quotient

LEMMA DivideExact ==
    ASSUME TypeOK, NEW op \in {"div", "divu", "ddiv", "ddivu"}, NEW t \in Operands, Divide(op, t)
    PROVE  ResultExact'
<1>1. PICK a \in DWord, b \in DWord : a = gpr[t[1]] /\ b = gpr[t[2]]
  BY TypeFacts
<1>2. PICK i : i = Insn(op, t, gpr[t[2]])
  OBVIOUS
<1>3. i.op = op /\ i.a = a /\ i.b = b
  BY <1>1, <1>2 DEF Insn
<1>4. a \in Nat /\ b \in Nat
  BY DWordNat
<1>5. CASE op \notin {"div", "ddiv"}
  <2>1. insn' = i
    BY <1>2, <1>5 DEF Divide, ToHiLo, raise, Done
  <2>2. QuietOp'
    BY <1>3, <1>5, <2>1 DEF QuietOp, ExactOps, SumOps
  <2> QED
    BY <2>2, QuietExact
<1>6. CASE op = "div"
  <2>1. SW(a) = sgn(a % 2^W, W) /\ SW(b) = sgn(b % 2^W, W) /\ SW(a) \in Int /\ SW(b) \in Int
    BY OperandRead, SignedInt
  <2>2. CASE SW(b) = 0
    <3>1. insn' = i
      BY <1>1, <1>2, <1>6, <2>2 DEF Divide, ToHiLo, Done
    <3>2. Quotient(W, a, b, hi', lo')
      BY <2>1, <2>2 DEF Quotient
    <3> QED
      BY <1>3, <1>6, <3>1, <3>2, QuotientClause DEF WidthOf
  <2>3. CASE SW(b) # 0
    <3>1. PICK A, B \in Int : A = SW(a) /\ B = SW(b)
      BY <2>1
    <3>2. /\ insn' = i
          /\ hi' = sext64(Rem(A, B) % 2^W) /\ lo' = sext64(Quot(A, B) % 2^W)
      BY <1>1, <1>2, <1>6, <2>3, <3>1 DEF Divide, ToHiLo, Done
    <3>3. PICK r, q \in Int : r = Rem(A, B) /\ q = Quot(A, B)
      BY <2>3, <3>1, Truncated DEF Truncates
    <3>4. r % 2^W \in Word /\ q % 2^W \in Word
      BY ModWord
    <3>5. hi' % 2^W = Rem(A, B) % 2^W /\ lo' % 2^W = Quot(A, B) % 2^W
      BY <3>2, <3>3, <3>4, SextWord DEF Lo
    <3>6. Quotient(W, a, b, hi', lo')
      BY <1>4, <2>1, <2>3, <3>1, <3>5, WidthNat, QuotientShown
    <3> QED
      BY <1>3, <1>6, <3>2, <3>6, QuotientClause DEF WidthOf
  <2> QED
    BY <2>2, <2>3
<1>7. CASE op = "ddiv"
  <2>1. SD(a) = sgn(a % 2^D, D) /\ SD(b) = sgn(b % 2^D, D) /\ SD(a) \in Int /\ SD(b) \in Int
    BY OperandRead, SignedInt
  <2>2. PICK m \in Nat, h \in Nat : m = 2^D /\ m > 0 /\ h > 0 /\ h = 2^(D - 1) /\ m = h + h
    BY Widths
  <2>3. CASE b = 0
    <3>1. insn' = i
      BY <1>1, <1>2, <1>7, <2>3 DEF Divide, ToHiLo, Done
    <3>2. SD(b) = 0
      BY <2>2, <2>3 DEF SD, sgn
    <3>3. Quotient(D, a, b, hi', lo')
      BY <2>1, <3>2 DEF Quotient
    <3> QED
      BY <1>3, <1>7, <3>1, <3>3, QuotientClause DEF WidthOf
  <2>4. CASE b # 0 /\ ~(a = 2^(D - 1) /\ SD(b) = -1)
    <3>1. PICK A, B \in Int : A = SD(a) /\ B = SD(b)
      BY <2>1
    <3>2. /\ insn' = i
          /\ hi' = Rem(A, B) % 2^D /\ lo' = Quot(A, B) % 2^D
      BY <1>1, <1>2, <1>7, <2>4, <3>1 DEF Divide, ToHiLo, Done
    <3>3. B # 0
      <4>1. b < m
        BY <2>2, DWordNat
      <4> QED
        BY <1>4, <2>2, <2>4, <3>1, <4>1 DEF SD, sgn
    <3>4. PICK r, q \in Int : r = Rem(A, B) /\ q = Quot(A, B)
      BY <3>3, Truncated DEF Truncates
    <3>5. (r % m) % m = r % m /\ (q % m) % m = q % m
      <4>1. r % m \in Nat /\ r % m < m /\ q % m \in Nat /\ q % m < m
        BY <2>2, DivMod
      <4> QED
        BY <4>1, DivOfLess
    <3>6. hi' % 2^D = Rem(A, B) % 2^D /\ lo' % 2^D = Quot(A, B) % 2^D
      BY <2>2, <3>2, <3>4, <3>5
    <3>7. Quotient(D, a, b, hi', lo')
      BY <1>4, <2>1, <3>1, <3>3, <3>6, WidthNat, QuotientShown
    <3> QED
      BY <1>3, <1>7, <3>2, <3>7, QuotientClause DEF WidthOf
  <2>5. CASE b # 0 /\ a = 2^(D - 1) /\ SD(b) = -1
    <3>1. insn' = i /\ hi' = 0 /\ lo' = a
      BY <1>1, <1>2, <1>7, <2>5 DEF Divide, ToHiLo, Done
    <3>2. 0 % m = 0 /\ a % m = a /\ a = h
      <4>1. 0 < m /\ h < m
        BY <2>2
      <4> QED
        BY <2>2, <2>5, <4>1, DivOfLess
    <3>3. sgn(0, D) = 0 /\ SD(a) = -h
      BY <2>2, <2>5 DEF SD, sgn
    <3>4. (-1) * (-h) + 0 = h
      OBVIOUS
    <3>5. Abs(0) < Abs(-1)
      BY DEF Abs
    <3>6. Quotient(D, a, b, hi', lo')
      BY <2>1, <2>2, <2>5, <3>1, <3>2, <3>3, <3>4, <3>5 DEF Quotient
    <3> QED
      BY <1>3, <1>7, <3>1, <3>6, QuotientClause DEF WidthOf
  <2> QED
    BY <2>3, <2>4, <2>5
<1> QED
  BY <1>5, <1>6, <1>7

QuietInsn(i) == i.op \notin ExactOps /\ (i.op # "cvt" \/ i.n = 0)

LEMMA QuietEnd == ASSUME NEW i, insn' = i, QuietInsn(i) PROVE ResultExact'
<1>1. QuietOp'
  BY DEF QuietOp, QuietInsn
<1> QED
  BY <1>1, QuietExact

\* Instructions that record no operands, and the gate.
LEMMA NoOperandsQuiet == ASSUME NEW op, op \notin ExactOps PROVE QuietInsn(NoOperands(op))
BY DEF QuietInsn, NoOperands

LEMMA GateQuiet == ASSUME NEW op, raise("ri", NoOperands(op)) PROVE ResultExact'
<1>1. insn' = NoOperands(op) /\ exc' = "ri"
  BY DEF raise
<1>2. insn'.n = 0
  BY <1>1 DEF NoOperands
<1>3. QuietOp'
  BY <1>1, <1>2 DEF QuietOp
<1> QED
  BY <1>3, QuietExact

Plain == {"load", "store", "sc", "loadpart", "storepart", "lui", "mfhi", "mflo", "mthi", "mtlo",
          "mtc1", "mfc1", "dmtc1", "dmfc1", "cop1x", "ldc1", "sdc1", "lwc1", "swc1",
          "fp", "madd", "cvt", "cvts", "cvtd", "c", "ctc1", "cfc1", "fmov", "status"}

LEMMA PlainQuiet == ASSUME NEW op \in Plain, insn' = NoOperands(op) PROVE ResultExact'
<1>1. op \notin ExactOps
  BY DEF Plain, ExactOps, SumOps
<1> QED
  BY <1>1, NoOperandsQuiet, QuietEnd

Operated == Shifts \cup {"and", "or", "xor", "nor", "slt", "sltu", "tge", "tgeu", "tlt", "tltu", "teq", "tne",
                         "movn", "movz", "movt", "movf"}

LEMMA OperatedQuiet ==
    ASSUME NEW op \in Operated, NEW t, NEW b, NEW n,
           insn' = Insn(op, t, b) \/ insn' = [Insn(op, t, b) EXCEPT !.n = n]
    PROVE  ResultExact'
<1>1. op \notin ExactOps /\ op # "cvt"
  BY DEF Operated, Shifts, Narrow, ExactOps, SumOps
<1>2. QuietInsn(insn')
  BY <1>1 DEF Insn, QuietInsn
<1> QED
  BY <1>2, QuietEnd

LEMMA IntExact == ASSUME TypeOK, IntNext PROVE ResultExact'
<1>1. CASE ExecShift
  <2>1. PICK op \in Shifts, t \in Operands, sa \in Shamt : Gate(op, Shift(op, t, sa))
    BY <1>1 DEF ExecShift, Shifts, Narrow
  <2>2. raise("ri", NoOperands(op)) \/ \E n : insn' = [Insn(op, t, gpr[t[2]]) EXCEPT !.n = n]
    BY <2>1 DEF Gate, Shift, ToGpr, Done
  <2>3. op \in Operated
    BY DEF Operated
  <2> QED
    BY <2>2, <2>3, GateQuiet, OperatedQuiet
<1>2. CASE ExecAdd
  <2>1. PICK op \in AddOps, t \in Operands : Gate(op, Add(op, t, gpr[t[2]], t[3]))
    BY <1>2 DEF ExecAdd, AddOps
  <2>2. gpr[t[2]] \in DWord /\ t[3] \in DOMAIN gpr
    BY TypeFacts
  <2> QED
    BY <2>1, <2>2, AddExact, GateQuiet DEF Gate
<1>3. CASE ExecAddImm \/ ExecDaddImm
  <2>1. PICK op \in AddOps, t \in Operands, i \in Imm : Gate(op, Add(op, t, simm(i) % 2^D, t[2]))
    BY <1>3 DEF ExecAddImm, ExecDaddImm, AddOps
  <2>2. simm(i) % 2^D \in DWord /\ t[2] \in DOMAIN gpr
    BY ImmCanonical, TypeFacts
  <2> QED
    BY <2>1, <2>2, AddExact, GateQuiet DEF Gate
<1>4. CASE ExecSub
  <2>1. PICK op \in {"sub", "subu", "dsub", "dsubu"}, t \in Operands : Gate(op, Sub(op, t))
    BY <1>4 DEF ExecSub
  <2> QED
    BY <2>1, SubExact, GateQuiet DEF Gate
<1>5. CASE ExecLogic \/ ExecLogicImm
  <2>1. PICK op \in Operated : \E t, b, rd : Logic(op, t, b, rd)
    BY <1>5 DEF ExecLogic, ExecLogicImm, Operated
  <2>2. PICK t, b : insn' = Insn(op, t, b)
    BY <2>1 DEF Logic, ToGpr, Done
  <2> QED
    BY <2>2, OperatedQuiet
<1>6. CASE ExecLui
  <2>1. insn' = NoOperands("lui")
    BY <1>6 DEF ExecLui, Lui, ToGpr, Done
  <2> QED
    BY <2>1, PlainQuiet DEF Plain
<1>7. CASE ExecTrap
  <2>1. PICK op \in Operated : \E t, b : Trap(op, t, b)
    BY <1>7 DEF ExecTrap, Operated
  <2>2. PICK t, b : insn' = Insn(op, t, b)
    BY <2>1 DEF Trap, ToGpr, raise, Done
  <2> QED
    BY <2>2, OperatedQuiet
<1>8. CASE ExecHiLo
  <2>1. PICK op \in Plain : insn' = NoOperands(op)
    BY <1>8 DEF ExecHiLo, MoveHiLo, ToGpr, ToHiLo, Done, Plain
  <2> QED
    BY <2>1, PlainQuiet
<1>9. CASE ExecMult
  <2>1. PICK op \in {"mult", "multu", "dmult", "dmultu"}, t \in Operands : Gate(op, Mult(op, t))
    BY <1>9 DEF ExecMult
  <2> QED
    BY <2>1, MultExact, GateQuiet DEF Gate
<1>10. CASE ExecDivide
  <2>1. PICK op \in {"div", "divu", "ddiv", "ddivu"}, t \in Operands : Gate(op, Divide(op, t))
    BY <1>10 DEF ExecDivide
  <2> QED
    BY <2>1, DivideExact, GateQuiet DEF Gate
<1>11. CASE ExecLoad \/ ExecLd \/ ExecLld \/ ExecStore \/ ExecSd
  <2>1. \/ raise("ri", NoOperands("lld"))
        \/ \E n, signed, x, y : Load(n, signed, x, y)
        \/ \E n, x, y : Store(n, x, y)
    BY <1>11 DEF ExecLoad, ExecLd, ExecLld, ExecStore, ExecSd, Gate
  <2>2. raise("ri", NoOperands("lld")) \/ insn' = NoOperands("load") \/ insn' = NoOperands("store")
    BY <2>1 DEF Load, Store, ToGpr, ToMem, raise, Done
  <2> QED
    BY <2>2, GateQuiet, PlainQuiet DEF Plain
<1>12. CASE ExecStoreCond
  <2>1. (\E op : raise("ri", NoOperands(op))) \/ \E n, x, y, ok : StoreCond(n, x, y, ok)
    BY <1>12 DEF ExecStoreCond, Gate
  <2>2. (\E op : raise("ri", NoOperands(op))) \/ insn' = NoOperands("sc")
    BY <2>1 DEF StoreCond, raise, Done
  <2> QED
    BY <2>2, GateQuiet, PlainQuiet DEF Plain
<1>13. CASE ExecPart
  <2>1. insn' = NoOperands("loadpart") \/ insn' = NoOperands("storepart")
    BY <1>13 DEF ExecPart, LoadPart, StorePart, ToMem, Done
  <2> QED
    BY <2>1, PlainQuiet DEF Plain
<1> QED
  BY <1>1, <1>2, <1>3, <1>4, <1>5, <1>6, <1>7, <1>8, <1>9, <1>10, <1>11, <1>12, <1>13 DEF IntNext

LEMMA FpExact ==
    ASSUME TypeOK,
           \/ ExecCondMove \/ FpMove \/ FpMemory \/ FpArith \/ FpMadd \/ FpFormat
           \/ FpUnimplemented \/ FpCondMove \/ Convert \/ fpCmp \/ _ctc1 \/ _cfc1 \/ SetMode
    PROVE  ResultExact'
<1>1. CASE ExecCondMove
  <2>1. PICK op \in Operated : \E t, c : CondMove(op, t, c)
    BY <1>1 DEF ExecCondMove, Operated
  <2>2. PICK t, b : insn' = Insn(op, t, b)
    BY <2>1 DEF CondMove, ToGpr, raise, Done
  <2> QED
    BY <2>2, OperatedQuiet
<1>2. CASE FpMove \/ FpMemory
  <2>1. PICK op \in Plain : insn' = NoOperands(op)
    BY <1>2 DEF FpMove, FpMemory, _mtc1, _mfc1, _dmtc1, _dmfc1, Indexed, _lwc1, _swc1, _ldc1, _sdc1,
                ToFpr, ToGpr, ToMem, raise, Done, Plain
  <2> QED
    BY <2>1, PlainQuiet
<1>3. CASE FpArith \/ FpMadd \/ FpFormat \/ FpUnimplemented
  <2>1. PICK op \in Plain : insn' = NoOperands(op)
    BY <1>3 DEF FpArith, FpMadd, FpFormat, FpUnimplemented, _cvts, _cvtd, ToFpr, raise, Done, Plain
  <2> QED
    BY <2>1, PlainQuiet
<1>4. CASE FpCondMove
  <2>1. insn' = NoOperands("fmov")
    BY <1>4 DEF FpCondMove, _movn, _movz, _movc, MoveIf, ToFpr, raise, Done
  <2> QED
    BY <2>1, PlainQuiet DEF Plain
<1>5. CASE Convert
  <2>1. RoundsAsNamed' /\ insn'.op = "cvt"
    BY <1>5, ConvertStep
  <2>2. IntResultExact'
    BY <2>1 DEF IntResultExact
  <2> QED
    BY <2>1, <2>2 DEF ResultExact
<1>6. CASE fpCmp
  <2>1. insn' = NoOperands("c") \/ \E n : insn' = [NoOperands("c") EXCEPT !.n = n]
    BY <1>6 DEF fpCmp, raise, Done
  <2>2. QuietInsn(insn')
    BY <2>1 DEF QuietInsn, NoOperands, ExactOps, SumOps
  <2> QED
    BY <2>2, QuietEnd
<1>7. CASE _ctc1 \/ _cfc1 \/ SetMode
  <2>1. PICK op \in Plain : insn' = NoOperands(op)
    BY <1>7 DEF _ctc1, _cfc1, SetMode, ToControl, ToGpr, Done, Plain
  <2> QED
    BY <2>1, PlainQuiet
<1> QED
  BY <1>1, <1>2, <1>3, <1>4, <1>5, <1>6, <1>7

LEMMA ExactStep == TypeOK /\ ResultExact /\ [Next]_vars => ResultExact'
<1> SUFFICES ASSUME TypeOK, ResultExact, [Next]_vars PROVE ResultExact'
  OBVIOUS
<1>1. CASE UNCHANGED vars
  <2>1. UNCHANGED <<gpr, hi, lo, cpr1, exc, insn>>
    BY <1>1 DEF vars, ireg, fpu
  <2>2. IntResultExact' /\ RoundsAsNamed'
    BY <2>1 DEF ResultExact, IntResultExact, RoundsAsNamed
  <2> QED
    BY <2>2 DEF ResultExact
<1>2. CASE Next /\ ~UNCHANGED vars
  BY <1>2, IntExact, FpExact DEF Next, Halt
<1> QED
  BY <1>1, <1>2

LEMMA ExactInit == Init => ResultExact
<1> SUFFICES ASSUME Init PROVE ResultExact
  OBVIOUS
<1>1. insn.op = "none"
  BY DEF Init, NoOperands
<1>2. IntResultExact /\ RoundsAsNamed
  BY <1>1 DEF IntResultExact, RoundsAsNamed
<1> QED
  BY <1>2 DEF ResultExact
-----------------------------------------------------------------------------
(* Pairs of unaligned accesses. *)

\* The address the unaligned datum of a partial access starts at, and the bytes of it
\* within the aligned word or doubleword that is accessed.
Start(left, n, ea)  == IF left = EL THEN ea - (n - 1) ELSE ea
Window(left, n, ea) == {y \in Base(ea, n)..(Base(ea, n) + n - 1) : IF left = EL THEN y <= ea ELSE y >= ea}

\* Both in terms of the place e within the aligned word.
LEMMA WindowFacts ==
    ASSUME NEW n \in {4, 8}, NEW left \in BOOLEAN, NEW ea \in Nat, ea < MemBytes
    PROVE  \E b \in Nat, e \in 0..(n - 1) :
              /\ b = Base(ea, n) /\ ea = b + e /\ b + n <= MemBytes
              /\ ma(ea, n) = IF EL THEN n - 1 - e ELSE e
              /\ \A y \in Int : y \in Window(left, n, ea) <=>
                    y >= b /\ y < b + n /\ (IF left = EL THEN y <= ea ELSE y >= ea)
<1>1. PICK b \in Nat : b = Base(ea, n) /\ b + n <= MemBytes /\ b <= ea /\ ea < b + n
  BY PartFacts
<1>2. PICK e \in 0..(n - 1) : e = ea - b /\ ea = b + e /\ e = ea % n
  <2>1. ea % n \in 0..(n - 1) /\ b = ea - (ea % n)
    BY <1>1 DEF Base
  <2>2. PICK e \in 0..(n - 1) : e = ea % n
    BY <2>1
  <2> QED
    BY <2>1, <2>2
<1>3. ma(ea, n) = IF EL THEN n - 1 - e ELSE e
  BY <1>2 DEF ma
<1>4. \A y \in Int : y \in Window(left, n, ea) <=>
                    y >= b /\ y < b + n /\ (IF left = EL THEN y <= ea ELSE y >= ea)
  BY <1>1 DEF Window
<1> QED
  BY <1>1, <1>2, <1>3, <1>4

LEMMA MergedBytes ==
    ASSUME TypeOK, NEW n \in {4, 8}, NEW left \in BOOLEAN, NEW ea \in Nat, ea < MemBytes, NEW x \in Nat,
           NEW k \in 0..(n - 1), NEW y \in Int, y = Start(left, n, ea) + Lane(k, n)
    PROVE  Digit(Merged(left, n, Value(Base(ea, n), n), x, ma(ea, n)), k, BB) =
              IF y \in Window(left, n, ea) THEN mem[y] ELSE Digit(x, k, BB)
<1>1. PICK b \in Nat, e \in 0..(n - 1) :
              /\ b = Base(ea, n) /\ ea = b + e /\ b + n <= MemBytes
              /\ ma(ea, n) = IF EL THEN n - 1 - e ELSE e
              /\ \A z \in Int : z \in Window(left, n, ea) <=>
                    z >= b /\ z < b + n /\ (IF left = EL THEN z <= ea ELSE z >= ea)
  BY WindowFacts
<1>2. PICK m \in 0..(n - 1) : m = ma(ea, n) /\ m = IF EL THEN n - 1 - e ELSE e
  BY <1>1
<1>3. EL \in BOOLEAN
  BY DataAssumption
<1>4. PICK c \in Nat, h \in Nat : c = n /\ h = k
  OBVIOUS
<1>5. PICK r \in Nat : /\ r = Value(b, c) /\ r < Place(BB, c)
                       /\ \A j \in 0..(c - 1) : Digit(r, j, BB) = mem[b + Lane(j, c)]
  BY <1>1, <1>4, ValueDigits
<1>6. PICK v : v = Merged(left, c, r, x, m)
  OBVIOUS
<1>7. \A j \in Nat : j < c => Digit(v, j, BB) =
                 IF left THEN IF j < m THEN Digit(x, j, BB) ELSE Digit(r, j - m, BB)
                 ELSE IF j < m + 1 THEN Digit(r, j + (c - 1 - m), BB) ELSE Digit(x, j, BB)
  <2>1. m \in 0..(c - 1) /\ r < Place(BB, c)
    BY <1>4, <1>5
  <2>2. MergedAs(left, c, r, x, m, v)
    BY <1>6, <2>1, MergedDigits
  <2> QED
    BY <2>2, Zenon DEF MergedAs
<1>8. Digit(v, k, BB) = IF left THEN IF k < m THEN Digit(x, k, BB) ELSE Digit(r, k - m, BB)
                        ELSE IF k < m + 1 THEN Digit(r, k + (c - 1 - m), BB) ELSE Digit(x, k, BB)
  <2>1. h < c
    BY <1>4
  <2> QED
    BY <1>4, <1>7, <2>1, Zenon
<1>9. y = Start(left, n, ea) + Lane(k, n)
  OBVIOUS
<1>10. y \in Window(left, n, ea) <=> y >= b /\ y < b + n /\ (IF left = EL THEN y <= ea ELSE y >= ea)
  BY <1>1
<1>11. CASE left
  <2>0. (left = EL) <=> EL
    BY <1>3, <1>11, Zenon
  <2>1. y \in Window(left, n, ea) <=> ~(k < m)
    BY <1>1, <1>2, <1>3, <1>9, <1>10, <2>0 DEF Start, Lane
  <2>2. ASSUME ~(k < m) PROVE Digit(r, k - m, BB) = mem[y]
    <3>1. PICK j \in 0..(c - 1) : j = k - m
      BY <1>4, <2>2
    <3>2. b + Lane(j, c) = y
      BY <1>1, <1>2, <1>3, <1>4, <1>9, <2>0, <3>1 DEF Start, Lane
    <3> QED
      BY <1>5, <3>1, <3>2
  <2> QED
    BY <1>1, <1>2, <1>4, <1>5, <1>6, <1>8, <1>11, <2>1, <2>2
<1>12. CASE ~left
  <2>0. (left = EL) <=> ~EL
    BY <1>3, <1>12, Zenon
  <2>1. y \in Window(left, n, ea) <=> k < m + 1
    BY <1>1, <1>2, <1>3, <1>9, <1>10, <2>0 DEF Start, Lane
  <2>2. ASSUME k < m + 1 PROVE Digit(r, k + (c - 1 - m), BB) = mem[y]
    <3>1. PICK j \in 0..(c - 1) : j = k + (c - 1 - m)
      BY <1>4, <2>2
    <3>2. b + Lane(j, c) = y
      BY <1>1, <1>2, <1>3, <1>4, <1>9, <2>0, <3>1 DEF Start, Lane
    <3> QED
      BY <1>5, <3>1, <3>2
  <2> QED
    BY <1>1, <1>2, <1>4, <1>5, <1>6, <1>8, <1>12, <2>1, <2>2
<1> QED
  BY <1>11, <1>12

LEMMA SplitBytes ==
    ASSUME TypeOK, NEW n \in {4, 8}, NEW left \in BOOLEAN, NEW ea \in Nat, ea < MemBytes, NEW x \in Nat,
           NEW y \in 0..(MemBytes - 1)
    PROVE  Stored(Base(ea, n), n, Split(left, n, Value(Base(ea, n), n), x, ma(ea, n)))[y] =
              IF y \in Window(left, n, ea) THEN Digit(x, Lane(y - Start(left, n, ea), n), BB) ELSE mem[y]
<1>1. PICK b \in Nat, e \in 0..(n - 1) :
              /\ b = Base(ea, n) /\ ea = b + e /\ b + n <= MemBytes
              /\ ma(ea, n) = IF EL THEN n - 1 - e ELSE e
              /\ \A z \in Int : z \in Window(left, n, ea) <=>
                    z >= b /\ z < b + n /\ (IF left = EL THEN z <= ea ELSE z >= ea)
  BY WindowFacts
<1>2. PICK m \in 0..(n - 1) : m = ma(ea, n) /\ m = IF EL THEN n - 1 - e ELSE e
  BY <1>1
<1>3. EL \in BOOLEAN
  BY DataAssumption
<1>4. PICK c \in Nat : c = n
  OBVIOUS
<1>5. PICK r \in Nat : /\ r = Value(b, c) /\ r < Place(BB, c)
                       /\ \A j \in 0..(c - 1) : Digit(r, j, BB) = mem[b + Lane(j, c)]
  BY <1>1, <1>4, ValueDigits
<1>6. PICK v : v = Split(left, c, r, x, m)
  OBVIOUS
<1>7. SplitAs(left, c, r, x, m, v)
  <2>1. m \in 0..(c - 1) /\ r < Place(BB, c)
    BY <1>4, <1>5
  <2> QED
    BY <1>6, <2>1, SplitDigits
<1>8. PICK u : u = Stored(Base(ea, n), n, Split(left, n, Value(Base(ea, n), n), x, ma(ea, n)))
  OBVIOUS
<1>9. u[y] = IF y \in b..(b + n - 1) THEN Digit(v, Lane(y - b, n), BB) ELSE mem[y]
  <2>1. DOMAIN mem = 0..(MemBytes - 1)
    BY TypeFacts DEF Memory
  <2>2. u = Stored(b, n, v)
    BY <1>1, <1>2, <1>4, <1>5, <1>6, <1>8
  <2> QED
    BY <2>1, <2>2 DEF Stored
<1>10. PICK z \in Int : z = y
  BY DataAssumption
<1>11. z \in Window(left, n, ea) <=> z >= b /\ z < b + n /\ (IF left = EL THEN z <= ea ELSE z >= ea)
  BY <1>1
<1>12. CASE ~(z >= b /\ z < b + n)
  <2>1. y \notin b..(b + n - 1) /\ y \notin Window(left, n, ea)
    BY <1>10, <1>11, <1>12
  <2> QED
    BY <1>8, <1>9, <2>1
<1>13. CASE z >= b /\ z < b + n
  <2>1. PICK d \in 0..(n - 1) : d = z - b /\ z = b + d
    BY <1>10, <1>13
  <2>2. PICK k \in 0..(n - 1) : k = Lane(d, n) /\ Lane(k, n) = d
    BY <1>4, <2>1, LaneRange
  <2>3. k \in Nat /\ k < c
    BY <1>4
  <2>4. u[y] = Digit(v, k, BB)
    <3>1. y \in b..(b + n - 1) /\ y - b = d
      BY <1>10, <1>13, <2>1
    <3> QED
      BY <1>9, <2>2, <3>1
  <2>5. Digit(r, k, BB) = mem[y]
    <3>1. k \in 0..(c - 1) /\ Lane(k, c) = d /\ b + d = y
      BY <1>4, <1>10, <2>1, <2>2
    <3> QED
      BY <1>5, <3>1
  <2>6. Digit(v, k, BB) = IF left THEN IF k < c - m THEN Digit(x, k + m, BB) ELSE Digit(r, k, BB)
                          ELSE IF k < c - 1 - m THEN Digit(r, k, BB) ELSE Digit(x, k - (c - 1 - m), BB)
    BY <1>7, <2>3, Zenon DEF SplitAs
  <2>7. CASE left
    <3>1. (left = EL) <=> EL
      BY <1>3, <2>7, Zenon
    <3>2. z \in Window(left, n, ea) <=> k < c - m
      BY <1>1, <1>2, <1>3, <1>4, <1>11, <1>13, <2>1, <2>2, <3>1 DEF Lane
    <3>3. k + m = Lane(z - Start(left, n, ea), n)
      BY <1>1, <1>2, <1>3, <2>1, <2>2, <3>1 DEF Start, Lane
    <3> QED
      BY <1>8, <1>10, <2>4, <2>5, <2>6, <2>7, <3>2, <3>3
  <2>8. CASE ~left
    <3>1. (left = EL) <=> ~EL
      BY <1>3, <2>8, Zenon
    <3>2. z \in Window(left, n, ea) <=> ~(k < c - 1 - m)
      BY <1>1, <1>2, <1>3, <1>4, <1>11, <1>13, <2>1, <2>2, <3>1 DEF Lane
    <3>3. k - (c - 1 - m) = Lane(z - Start(left, n, ea), n)
      BY <1>1, <1>2, <1>3, <1>4, <2>1, <2>2, <3>1 DEF Start, Lane
    <3> QED
      BY <1>8, <1>10, <2>4, <2>5, <2>6, <2>8, <3>2, <3>3
  <2> QED
    BY <2>7, <2>8
<1> QED
  BY <1>12, <1>13

\* A left and a right part that make a pair: where they start, and the bytes they cover.
LEMMA TwoWindows ==
    ASSUME NEW n \in {4, 8}, NEW p \in BOOLEAN, NEW q \in BOOLEAN, p # EL, q = EL,
           NEW lo1 \in Nat, NEW hi1 \in Nat, hi1 = lo1 + n - 1, hi1 < MemBytes
    PROVE  /\ Start(p, n, lo1) = lo1 /\ Start(q, n, hi1) = lo1
           /\ \A y \in Int : (y \in Window(p, n, lo1) \/ y \in Window(q, n, hi1)) <=> y >= lo1 /\ y < lo1 + n
<1>1. lo1 < MemBytes
  BY DataAssumption
<1>2. PICK b \in Nat : /\ b = Base(lo1, n)
                       /\ \A y \in Int : y \in Window(p, n, lo1) <=> y >= b /\ y < b + n /\ y >= lo1
  BY <1>1, WindowFacts
<1>3. PICK c \in Nat : /\ c = Base(hi1, n)
                       /\ \A y \in Int : y \in Window(q, n, hi1) <=> y >= c /\ y < c + n /\ y <= hi1
  BY WindowFacts
<1>4. b <= lo1 /\ lo1 < b + n /\ c <= hi1 /\ hi1 < c + n /\ c <= b + n
  <2>1. CASE n = 4
    BY <1>2, <1>3, <2>1 DEF Base
  <2>2. CASE n = 8
    BY <1>2, <1>3, <2>2 DEF Base
  <2> QED
    BY <2>1, <2>2
<1>5. ASSUME NEW y \in Int
      PROVE  (y \in Window(p, n, lo1) \/ y \in Window(q, n, hi1)) <=> y >= lo1 /\ y < lo1 + n
  BY <1>2, <1>3, <1>4
<1>6. Start(p, n, lo1) = lo1 /\ Start(q, n, hi1) = lo1
  BY DEF Start
<1> QED
  BY <1>5, <1>6

\* The two partial accesses of IsPair.
Paired(left1, ea1, left2, ea2, n, ea) ==
    /\ ea = IF EL THEN (IF left1 THEN ea2 ELSE ea1) ELSE (IF left1 THEN ea1 ELSE ea2)
    /\ ea + n - 1 = ea1 + ea2 - ea

LEMMA PairCovers ==
    ASSUME NEW n \in {4, 8}, NEW left1 \in BOOLEAN, NEW left2 \in BOOLEAN, left1 # left2,
           NEW ea1 \in Nat, NEW ea2 \in Nat, ea1 < MemBytes, ea2 < MemBytes,
           NEW ea, Paired(left1, ea1, left2, ea2, n, ea)
    PROVE  /\ ea \in Nat /\ ea + n <= MemBytes
           /\ Start(left1, n, ea1) = ea /\ Start(left2, n, ea2) = ea
           /\ \A y \in Int : (y \in Window(left1, n, ea1) \/ y \in Window(left2, n, ea2)) <=> y >= ea /\ y < ea + n
<1>1. EL \in BOOLEAN /\ MemBytes \in Nat
  BY DataAssumption
<1>2. CASE left1 = EL
  <2>1. left2 # EL
    BY <1>1, <1>2, Zenon
  <2>2. ea = ea2 /\ ea1 = ea2 + n - 1
    <3>1. ea = ea2
      BY <1>1, <1>2, Zenon DEF Paired
    <3> QED
      BY <3>1 DEF Paired
  <2> QED
    BY <1>1, <1>2, <2>1, <2>2, TwoWindows
<1>3. CASE left1 # EL
  <2>1. left2 = EL
    BY <1>1, <1>3, Zenon
  <2>2. ea = ea1 /\ ea2 = ea1 + n - 1
    <3>1. ea = ea1
      BY <1>1, <1>3, Zenon DEF Paired
    <3> QED
      BY <3>1 DEF Paired
  <2> QED
    BY <1>1, <1>3, <2>1, <2>2, TwoWindows
<1> QED
  BY <1>2, <1>3

\* The register after a partial load that merged v.
Extended(n, v) == IF n = 4 THEN sext64(v) ELSE v

LEMMA ExtendedDigits ==
    ASSUME NEW n \in {4, 8}, NEW v \in Nat, v < Place(BB, n)
    PROVE  /\ Extended(n, v) \in Nat /\ Extended(n, v) = sgn(v, BB * n) % 2^D
           /\ \A k \in 0..(n - 1) : Digit(Extended(n, v), k, BB) = Digit(v, k, BB)
<1>1. CASE n = 4
  <2>1. v \in Word
    BY <1>1, BytePlaces, NatWord
  <2>2. PICK x \in Nat : x = sext64(v) /\ Lo(x) = v
    BY <2>1, SextWord, DWordNat
  <2>3. Extended(n, v) = x
    BY <1>1, <2>2 DEF Extended
  <2>4. BB * n = W
    BY <1>1, WidthNat DEF W
  <2>5. PICK b, m \in Nat : b = BB /\ m = 4
    BY WidthNat
  <2>6. ASSUME NEW k \in 0..(n - 1) PROVE Digit(x, k, BB) = Digit(v, k, BB)
    <3>1. PICK j \in Nat : j = k /\ j < m
      BY <1>1, <2>5
    <3>2. Digit(x % Place(b, m), j, b) = Digit(x, j, b)
      BY <3>1, DigitOfMod
    <3>3. x % Place(b, m) = v
      BY <2>2, <2>5, BytePlaces DEF Lo
    <3> QED
      BY <2>5, <3>1, <3>2, <3>3
  <2> QED
    BY <2>2, <2>3, <2>4, <2>6 DEF sext64
<1>2. CASE n = 8
  <2>1. v \in 0..(2^D - 1)
    BY <1>2, BytePlaces, NatDWord DEF DWord
  <2>2. BB * n = D
    BY <1>2, WidthNat DEF D
  <2>3. sgn(v, D) % 2^D = v
    BY <2>1, WidthNat, SgnRange
  <2>4. Extended(n, v) = v
    BY <1>2 DEF Extended
  <2> QED
    BY <2>2, <2>3, <2>4
<1> QED
  BY <1>1, <1>2

\* What a partial load leaves in its register, and a partial store in memory.
LoadLink(left, n, ea, x, m) ==
    \A k \in 0..(n - 1), y \in Int :
        y = Start(left, n, ea) + Lane(k, n) /\ y \in Window(left, n, ea) => Digit(x, k, BB) = m[y]
StoreLink(left, n, ea, x, old, m) ==
    m = [y \in 0..(MemBytes - 1) |-> IF y \in Window(left, n, ea)
                                     THEN Digit(x, Lane(y - Start(left, n, ea), n), BB) ELSE old[y]]

\* What the first of two partial accesses has done when the second one starts.
PairLink ==
    /\ pair.op \in {"none", "load", "store"}
    /\ pair.op # "none" => /\ pair.left \in BOOLEAN /\ pair.n \in {4, 8}
                           /\ pair.ea \in Nat /\ pair.ea < MemBytes /\ pair.rt \in DOMAIN gpr
    /\ pair.op = "load" /\ pair.rt # 0 => LoadLink(pair.left, pair.n, pair.ea, gpr[pair.rt], mem)
    /\ pair.op = "store" => StoreLink(pair.left, pair.n, pair.ea, gpr[pair.rt], pair.mem, mem)

LEMMA PairInit == Init => PairLink
BY DEF Init, PairLink, NoPair, Part

LEMMA UnpairedStep == ASSUME pair' = NoPair PROVE PairLink' /\ PairStep
<1>1. pair'.op = "none"
  BY DEF NoPair, Part
<1>2. PairLink'
  BY <1>1 DEF PairLink
<1>3. PairStep
  BY <1>1 DEF PairStep, IsPair
<1> QED
  BY <1>2, <1>3

LEMMA KeptPair == ASSUME PairLink, UNCHANGED <<pair, gpr, mem>> PROVE PairLink' /\ PairStep
<1>1. PairLink'
  BY DEF PairLink
<1>2. ~IsPair(pair, pair')
  BY DEF IsPair
<1> QED
  BY <1>1, <1>2 DEF PairStep

\* The register after a partial load, byte by byte.
LEMMA LoadPartBytes ==
    ASSUME TypeOK, NEW n \in {4, 8}, NEW left \in BOOLEAN, NEW rt \in DOMAIN gpr, rt # 0,
           NEW ea \in Nat, ea < MemBytes, LoadPart(left, n, rt, ea)
    PROVE  \E v \in Nat :
              /\ v < Place(BB, n) /\ gpr'[rt] = Extended(n, v)
              /\ \A k \in 0..(n - 1), y \in Int : y = Start(left, n, ea) + Lane(k, n) =>
                    Digit(v, k, BB) = IF y \in Window(left, n, ea) THEN mem[y] ELSE Digit(gpr[rt], k, BB)
<1>1. PICK x \in Nat : x = gpr[rt]
  BY TypeFacts, DWordNat
<1>2. PICK v : v = Merged(left, n, Value(Base(ea, n), n), x, ma(ea, n))
  OBVIOUS
<1>3. v \in Nat /\ v < Place(BB, n)
  <2>1. PICK b \in Nat, m \in 0..(n - 1) : b = Base(ea, n) /\ m = ma(ea, n) /\ b + n <= MemBytes
    BY PartFacts
  <2>2. PICK c \in Nat : c = n
    OBVIOUS
  <2>3. PICK r \in Nat : r = Value(b, c) /\ r < Place(BB, c)
    BY <2>1, <2>2, ValueDigits
  <2>4. m \in 0..(c - 1)
    BY <2>2
  <2>5. Merged(left, c, r, x, m) \in Nat /\ Merged(left, c, r, x, m) < Place(BB, c)
    BY <2>3, <2>4, MergedDigits
  <2> QED
    BY <1>2, <2>1, <2>2, <2>3, <2>5
<1>4. gpr'[rt] = Extended(n, v)
  BY <1>1, <1>2 DEF LoadPart, Put, Extended
<1>5. \A k \in 0..(n - 1), y \in Int : y = Start(left, n, ea) + Lane(k, n) =>
                    Digit(v, k, BB) = IF y \in Window(left, n, ea) THEN mem[y] ELSE Digit(x, k, BB)
  BY <1>2, MergedBytes
<1> QED
  BY <1>1, <1>3, <1>4, <1>5

\* Two partial loads, the first with the contents x of its register, merge the datum
\* between them.
LEMMA PairLoaded ==
    ASSUME TypeOK, NEW n \in {4, 8}, NEW left1 \in BOOLEAN, NEW left2 \in BOOLEAN, left1 # left2,
           NEW ea1 \in Nat, NEW ea2 \in Nat, ea1 < MemBytes, ea2 < MemBytes,
           NEW ea, Paired(left1, ea1, left2, ea2, n, ea),
           NEW x \in Nat, LoadLink(left1, n, ea1, x, mem),
           NEW v \in Nat, v < Place(BB, n),
           \A k \in 0..(n - 1), y \in Int : y = Start(left2, n, ea2) + Lane(k, n) =>
               Digit(v, k, BB) = IF y \in Window(left2, n, ea2) THEN mem[y] ELSE Digit(x, k, BB)
    PROVE  v = Value(ea, n)
<1>1. /\ ea \in Nat /\ ea + n <= MemBytes
      /\ Start(left1, n, ea1) = ea /\ Start(left2, n, ea2) = ea
      /\ \A y \in Int : (y \in Window(left1, n, ea1) \/ y \in Window(left2, n, ea2)) <=> y >= ea /\ y < ea + n
  BY PairCovers
<1>2. PICK c \in Nat : c = n
  OBVIOUS
<1>3. PICK r \in Nat : /\ r = Value(ea, c) /\ r < Place(BB, c)
                       /\ \A k \in 0..(c - 1) : Digit(r, k, BB) = mem[ea + Lane(k, c)]
  BY <1>1, <1>2, ValueDigits
<1>4. ASSUME NEW k \in 0..(n - 1) PROVE Digit(v, k, BB) = Digit(r, k, BB)
  <2>1. PICK j \in 0..(n - 1) : j = Lane(k, n)
    BY <1>2, LaneRange
  <2>2. PICK y \in Int : y = ea + j /\ y >= ea /\ y < ea + n
    BY <1>1
  <2>3. y = Start(left1, n, ea1) + Lane(k, n) /\ y = Start(left2, n, ea2) + Lane(k, n)
    BY <1>1, <2>1, <2>2
  <2>4. y \in Window(left1, n, ea1) \/ y \in Window(left2, n, ea2)
    BY <1>1, <2>2
  <2>5. y \in Window(left1, n, ea1) => Digit(x, k, BB) = mem[y]
    BY <2>3 DEF LoadLink
  <2>6. Digit(v, k, BB) = IF y \in Window(left2, n, ea2) THEN mem[y] ELSE Digit(x, k, BB)
    BY <2>3
  <2>7. Digit(r, k, BB) = mem[y]
    BY <1>2, <1>3, <2>1, <2>2
  <2> QED
    BY <2>4, <2>5, <2>6, <2>7
<1>5. SameDigits(v, r, c, BB)
  BY <1>2, <1>4 DEF SameDigits
<1>6. v < Place(BB, c)
  BY <1>2
<1>7. PICK b \in Nat : b = BB
  BY WidthNat
<1> QED
  BY <1>2, <1>3, <1>5, <1>6, <1>7, DigitsEqual

LEMMA PairedParts ==
    ASSUME NEW p, NEW q, IsPair(p, q) PROVE Paired(p.left, p.ea, q.left, q.ea, p.n, PairEa(p, q))
BY DEF IsPair, PairEa, Paired

LEMMA LoadPairStep ==
    ASSUME TypeOK, PairLink, NEW n \in {4, 8}, NEW left \in BOOLEAN, NEW rt \in DOMAIN gpr,
           NEW ea \in Nat, ea < MemBytes, LoadPart(left, n, rt, ea)
    PROVE  PairLink' /\ PairStep
<1>1. /\ pair'.op = "load" /\ pair'.left = left /\ pair'.n = n /\ pair'.rt = rt /\ pair'.ea = ea
      /\ mem' = mem
  BY DEF LoadPart, Part
<1>2. DOMAIN gpr' = DOMAIN gpr
  BY TypeFacts DEF LoadPart, Put
<1>3. ASSUME rt # 0
      PROVE  LoadLink(left, n, ea, gpr'[rt], mem)
  <2>1. PICK v \in Nat :
              /\ v < Place(BB, n) /\ gpr'[rt] = Extended(n, v)
              /\ \A k \in 0..(n - 1), y \in Int : y = Start(left, n, ea) + Lane(k, n) =>
                    Digit(v, k, BB) = IF y \in Window(left, n, ea) THEN mem[y] ELSE Digit(gpr[rt], k, BB)
    BY <1>3, LoadPartBytes
  <2>2. \A k \in 0..(n - 1) : Digit(gpr'[rt], k, BB) = Digit(v, k, BB)
    BY <2>1, ExtendedDigits
  <2> QED
    BY <2>1, <2>2 DEF LoadLink
<1>4. PairLink'
  BY <1>1, <1>2, <1>3 DEF PairLink
<1>5. ASSUME IsPair(pair, pair'), pair.op = "load", pair.rt # 0
      PROVE  gpr'[pair.rt] = sgn(Value(PairEa(pair, pair'), pair.n), BB * pair.n) % 2^D
  <2>1. pair.n = n /\ pair.rt = rt /\ pair.left # left /\ rt # 0
    BY <1>1, <1>5 DEF IsPair
  <2>2. PICK left1 \in BOOLEAN, ea1 \in Nat : left1 = pair.left /\ ea1 = pair.ea /\ ea1 < MemBytes
    BY <1>5 DEF PairLink
  <2>3. PICK e : e = PairEa(pair, pair')
    OBVIOUS
  <2>4. Paired(left1, ea1, left, ea, n, e)
    BY <1>1, <1>5, <2>1, <2>2, <2>3, PairedParts
  <2>5. PICK x \in Nat : x = gpr[rt]
    BY TypeFacts, DWordNat
  <2>6. LoadLink(left1, n, ea1, x, mem)
    BY <1>5, <2>1, <2>2, <2>5 DEF PairLink
  <2>7. PICK v \in Nat :
              /\ v < Place(BB, n) /\ gpr'[rt] = Extended(n, v)
              /\ \A k \in 0..(n - 1), y \in Int : y = Start(left, n, ea) + Lane(k, n) =>
                    Digit(v, k, BB) = IF y \in Window(left, n, ea) THEN mem[y] ELSE Digit(x, k, BB)
    BY <2>1, <2>5, LoadPartBytes
  <2>8. v = Value(e, n)
    BY <2>1, <2>2, <2>4, <2>6, <2>7, PairLoaded
  <2>9. Extended(n, v) = sgn(v, BB * n) % 2^D
    BY <2>7, ExtendedDigits
  <2> QED
    BY <2>1, <2>3, <2>7, <2>8, <2>9
<1>6. ~(IsPair(pair, pair') /\ pair.op = "store")
  BY <1>1 DEF IsPair
<1> QED
  BY <1>4, <1>5, <1>6 DEF PairStep

LEMMA StorePairStep ==
    ASSUME TypeOK, PairLink, NEW n \in {4, 8}, NEW left \in BOOLEAN, NEW rt \in DOMAIN gpr,
           NEW ea \in Nat, ea < MemBytes, StorePart(left, n, rt, ea)
    PROVE  PairLink' /\ PairStep
<1>1. /\ pair'.op = "store" /\ pair'.left = left /\ pair'.n = n /\ pair'.rt = rt /\ pair'.ea = ea
      /\ pair'.mem = mem /\ gpr' = gpr
      /\ mem' = Stored(Base(ea, n), n, Split(left, n, Value(Base(ea, n), n), gpr[rt], ma(ea, n)))
  BY DEF StorePart, ToMem, Part, ireg
<1>2. DOMAIN mem = 0..(MemBytes - 1)
  BY TypeFacts DEF Memory
<1>3. PICK x \in Nat : x = gpr[rt]
  BY TypeFacts, DWordNat
<1>4. \A y \in 0..(MemBytes - 1) : mem'[y] =
              IF y \in Window(left, n, ea) THEN Digit(x, Lane(y - Start(left, n, ea), n), BB) ELSE mem[y]
  BY <1>1, <1>3, SplitBytes
<1>5. StoreLink(left, n, ea, x, mem, mem')
  <2>1. PICK f : f = mem' /\ f = [y \in DOMAIN mem |-> f[y]]
    BY <1>1 DEF Stored
  <2> QED
    BY <1>2, <1>4, <2>1 DEF StoreLink
<1>6. PairLink'
  BY <1>1, <1>3, <1>5 DEF PairLink
<1>7. ASSUME IsPair(pair, pair'), pair.op = "store", NEW e, e = PairEa(pair, pair')
      PROVE  mem' = [b \in DOMAIN mem |-> IF b \in e..(e + pair.n - 1)
                                         THEN Digit(gpr[pair.rt], Lane(b - e, pair.n), BB)
                                         ELSE pair.mem[b]]
  <2>1. pair.n = n /\ pair.rt = rt /\ pair.left # left
    BY <1>1, <1>7 DEF IsPair
  <2>2. PICK left1 \in BOOLEAN, ea1 \in Nat : left1 = pair.left /\ ea1 = pair.ea /\ ea1 < MemBytes
    BY <1>7 DEF PairLink
  <2>3. Paired(left1, ea1, left, ea, n, e)
    BY <1>1, <1>7, <2>1, <2>2, PairedParts
  <2>4. /\ e \in Nat /\ e + n <= MemBytes
        /\ Start(left1, n, ea1) = e /\ Start(left, n, ea) = e
        /\ \A y \in Int : (y \in Window(left1, n, ea1) \/ y \in Window(left, n, ea)) <=> y >= e /\ y < e + n
    BY <2>1, <2>2, <2>3, PairCovers
  <2>5. PICK old : old = pair.mem
    OBVIOUS
  <2>6. StoreLink(left1, n, ea1, x, old, mem)
    BY <1>3, <1>7, <2>1, <2>2, <2>5 DEF PairLink
  <2>7. ASSUME NEW y \in 0..(MemBytes - 1)
        PROVE  mem'[y] = IF y \in e..(e + n - 1) THEN Digit(x, Lane(y - e, n), BB) ELSE old[y]
    <3>1. PICK z \in Int : z = y
      BY DataAssumption
    <3>2. (z \in Window(left1, n, ea1) \/ z \in Window(left, n, ea)) <=> y \in e..(e + n - 1)
      <4>1. z \in e..(e + n - 1) <=> z >= e /\ z < e + n
        BY <2>4
      <4> QED
        BY <2>4, <3>1, <4>1
    <3>3. mem[y] = IF y \in Window(left1, n, ea1) THEN Digit(x, Lane(y - e, n), BB) ELSE old[y]
      BY <2>4, <2>6 DEF StoreLink
    <3>4. mem'[y] = IF y \in Window(left, n, ea) THEN Digit(x, Lane(y - e, n), BB) ELSE mem[y]
      BY <1>4, <2>4
    <3> QED
      BY <3>1, <3>2, <3>3, <3>4
  <2>8. PICK f : f = mem' /\ f = [y \in DOMAIN mem |-> f[y]]
    BY <1>1 DEF Stored
  <2> QED
    BY <1>2, <1>3, <2>1, <2>5, <2>7, <2>8
<1>8. ~(IsPair(pair, pair') /\ pair.op = "load")
  BY <1>1 DEF IsPair
<1>9. IsPair(pair, pair') /\ pair.op = "store" =>
          mem' = [b \in DOMAIN mem |-> IF b \in PairEa(pair, pair')..(PairEa(pair, pair') + pair.n - 1)
                                      THEN Digit(gpr[pair.rt], Lane(b - PairEa(pair, pair'), pair.n), BB)
                                      ELSE pair.mem[b]]
  BY <1>7
<1> QED
  BY <1>6, <1>8, <1>9 DEF PairStep

\* An instruction other than a partial access starts no pair: it ends with none, or
\* raises and leaves the state the pair is about alone.
Unpaired == pair' = NoPair \/ UNCHANGED <<pair, gpr, mem>>

LEMMA RaiseUnpaired == ASSUME NEW c, NEW i, raise(c, i) PROVE Unpaired
BY DEF raise, Unpaired, ireg

LEMMA GateUnpaired == ASSUME NEW op, raise("ri", NoOperands(op)) PROVE Unpaired
BY RaiseUnpaired

LEMMA ToGprUnpaired == ASSUME NEW i, NEW r, NEW x, NEW w, ToGpr(i, r, x, w) PROVE Unpaired
BY DEF ToGpr, Unpaired

LEMMA ToHiLoUnpaired == ASSUME NEW i, NEW h, NEW l, NEW w, ToHiLo(i, h, l, w) PROVE Unpaired
BY DEF ToHiLo, Unpaired

LEMMA ToMemUnpaired == ASSUME NEW i, NEW m, ToMem(i, m, NoPair) PROVE Unpaired
BY DEF ToMem, Unpaired

LEMMA ToFprUnpaired == ASSUME NEW op, NEW file, ToFpr(op, file) PROVE Unpaired
BY DEF ToFpr, Unpaired

LEMMA IntUnpaired == ASSUME IntNext, ~ExecPart PROVE Unpaired
<1>1. CASE ExecShift
  <2>1. PICK op, t, sa : Gate(op, Shift(op, t, sa))
    BY <1>1 DEF ExecShift
  <2> QED
    BY <2>1, GateUnpaired, ToGprUnpaired DEF Gate, Shift
<1>2. CASE ExecAdd \/ ExecAddImm \/ ExecDaddImm
  <2>1. PICK op, t, b, rd : Gate(op, Add(op, t, b, rd))
    BY <1>2 DEF ExecAdd, ExecAddImm, ExecDaddImm
  <2> QED
    BY <2>1, GateUnpaired, RaiseUnpaired, ToGprUnpaired DEF Gate, Add
<1>3. CASE ExecSub
  <2>1. PICK op, t : Gate(op, Sub(op, t))
    BY <1>3 DEF ExecSub
  <2> QED
    BY <2>1, GateUnpaired, RaiseUnpaired, ToGprUnpaired DEF Gate, Sub
<1>4. CASE ExecLogic \/ ExecLogicImm
  <2>1. PICK op, t, b, rd : Logic(op, t, b, rd)
    BY <1>4 DEF ExecLogic, ExecLogicImm
  <2> QED
    BY <2>1, ToGprUnpaired DEF Logic
<1>5. CASE ExecLui
  <2>1. PICK i, rt : Lui(i, rt)
    BY <1>5 DEF ExecLui
  <2> QED
    BY <2>1, ToGprUnpaired DEF Lui
<1>6. CASE ExecTrap
  <2>1. PICK op, t, b : Trap(op, t, b)
    BY <1>6 DEF ExecTrap
  <2> QED
    BY <2>1, RaiseUnpaired, ToGprUnpaired DEF Trap
<1>7. CASE ExecHiLo
  <2>1. PICK op \in {"mfhi", "mflo", "mthi", "mtlo"}, t \in Operands : MoveHiLo(op, t)
    BY <1>7 DEF ExecHiLo
  <2> QED
    BY <2>1, ToGprUnpaired, ToHiLoUnpaired DEF MoveHiLo
<1>8. CASE ExecMult
  <2>1. PICK op, t : Gate(op, Mult(op, t))
    BY <1>8 DEF ExecMult
  <2> QED
    BY <2>1, GateUnpaired, ToHiLoUnpaired DEF Gate, Mult
<1>9. CASE ExecDivide
  <2>1. PICK op \in {"div", "divu", "ddiv", "ddivu"}, t \in Operands : Gate(op, Divide(op, t))
    BY <1>9 DEF ExecDivide
  <2> QED
    BY <2>1, GateUnpaired, RaiseUnpaired, ToHiLoUnpaired DEF Gate, Divide
<1>10. CASE ExecLoad \/ ExecLd \/ ExecLld
  <2>1. (\E n, signed, rt, ea : Load(n, signed, rt, ea)) \/ raise("ri", NoOperands("lld"))
    BY <1>10 DEF ExecLoad, ExecLd, ExecLld, Gate
  <2> QED
    BY <2>1, GateUnpaired, RaiseUnpaired, ToGprUnpaired DEF Load
<1>11. CASE ExecStore \/ ExecSd
  <2>1. PICK n, rt, ea : Store(n, rt, ea)
    BY <1>11 DEF ExecStore, ExecSd
  <2> QED
    BY <2>1, RaiseUnpaired, ToMemUnpaired DEF Store
<1>12. CASE ExecStoreCond
  <2>1. PICK op, n, rt, ea, ok : Gate(op, StoreCond(n, rt, ea, ok))
    BY <1>12 DEF ExecStoreCond
  <2>2. ASSUME StoreCond(n, rt, ea, ok) PROVE Unpaired
    BY <2>2, RaiseUnpaired DEF StoreCond, Unpaired
  <2> QED
    BY <2>1, <2>2, GateUnpaired DEF Gate
<1> QED
  BY <1>1, <1>2, <1>3, <1>4, <1>5, <1>6, <1>7, <1>8, <1>9, <1>10, <1>11, <1>12 DEF IntNext

LEMMA ConvertUnpaired == ASSUME Convert PROVE Unpaired
<1> DEFINE Result(fs, fd, double, long, rm) ==
         LET q == Quarters(cpr1[fs], double)
             r == Rounded(q, rm)
             n == IF long THEN D ELSE W
             i == [NoOperands("cvt") EXCEPT !.a = q, !.b = rm, !.rd = fd, !.n = n] IN
         IF OddFault({fs, fd}) THEN raise("ri", NoOperands("cvt"))
         ELSE \E v \in IF InRange(r, n) THEN {r % 2^n} ELSE {2^(n - 1), 2^(n - 1) - 1} :
              /\ Done(i) /\ cpr1' = (IF long THEN [cpr1 EXCEPT ![fd] = v] ELSE Low(fd, v))
              /\ Forget(IF long THEN Whole(fd) ELSE {fd}) /\ pair' = NoPair
              /\ UNCHANGED <<ireg, mem, fcsr, fccr, mirrored, mode, wide>>
<1>1. PICK fs \in FReg, fd \in FReg, double \in BOOLEAN, long \in BOOLEAN, named \in BOOLEAN :
         \E rm \in IF named THEN 0..3 ELSE {RM} : Result(fs, fd, double, long, rm)
  BY Zenon DEF Convert
<1>2. PICK rm \in IF named THEN 0..3 ELSE {RM} : Result(fs, fd, double, long, rm)
  BY <1>1, Zenon
<1>3. CASE OddFault({fs, fd})
  <2>1. raise("ri", NoOperands("cvt"))
    BY <1>2, <1>3, Zenon
  <2> QED
    BY <2>1, GateUnpaired
<1>4. CASE ~OddFault({fs, fd})
  <2>1. pair' = NoPair
    BY <1>2, <1>4, Zenon
  <2> QED
    BY <2>1 DEF Unpaired
<1> QED
  BY <1>3, <1>4

LEMMA FpUnpaired ==
    ASSUME \/ ExecCondMove \/ FpMove \/ FpMemory \/ FpArith \/ FpMadd \/ FpFormat \/ FpUnimplemented
           \/ FpCondMove \/ Convert \/ fpCmp \/ _ctc1 \/ _cfc1 \/ SetMode
    PROVE  Unpaired
<1>1. CASE ExecCondMove
  <2>1. PICK op, t, cc : CondMove(op, t, cc)
    BY <1>1 DEF ExecCondMove
  <2> QED
    BY <2>1, RaiseUnpaired, ToGprUnpaired DEF CondMove
<1>2. CASE FpMove
  BY <1>2, ToGprUnpaired, ToFprUnpaired DEF FpMove, _mtc1, _mfc1, _dmtc1, _dmfc1
<1>3. CASE FpMemory
  <2>1. PICK x, f, ea : \/ Indexed(x, _lwc1(f, ea)) \/ Indexed(x, _swc1(f, ea))
                        \/ Indexed(x, _ldc1(f, ea)) \/ Indexed(x, _sdc1(f, ea))
    BY <1>3 DEF FpMemory
  <2>2. ASSUME _lwc1(f, ea) PROVE Unpaired
    BY <2>2, ToFprUnpaired DEF _lwc1
  <2>3. ASSUME _swc1(f, ea) PROVE Unpaired
    BY <2>3, ToMemUnpaired DEF _swc1
  <2>4. ASSUME _ldc1(f, ea) PROVE Unpaired
    BY <2>4, RaiseUnpaired, ToFprUnpaired DEF _ldc1
  <2>5. ASSUME _sdc1(f, ea) PROVE Unpaired
    BY <2>5, RaiseUnpaired, ToMemUnpaired DEF _sdc1
  <2> QED
    BY <2>1, <2>2, <2>3, <2>4, <2>5, GateUnpaired DEF Indexed
<1>4. CASE FpArith
  BY <1>4, GateUnpaired, ToFprUnpaired DEF FpArith
<1>5. CASE FpMadd
  BY <1>5, GateUnpaired, ToFprUnpaired DEF FpMadd
<1>6. CASE FpFormat
  BY <1>6, GateUnpaired, ToFprUnpaired DEF FpFormat, _cvts, _cvtd
<1>7. CASE FpUnimplemented
  BY <1>7, RaiseUnpaired DEF FpUnimplemented
<1>8. CASE FpCondMove
  BY <1>8, RaiseUnpaired, ToFprUnpaired DEF FpCondMove, _movn, _movz, _movc, MoveIf
<1>9. CASE Convert
  BY <1>9, ConvertUnpaired
<1>10. CASE fpCmp
  BY <1>10, GateUnpaired DEF fpCmp, Unpaired
<1>11. CASE _ctc1
  BY <1>11 DEF _ctc1, ToControl, Unpaired
<1>12. CASE _cfc1
  BY <1>12, ToGprUnpaired DEF _cfc1
<1>13. CASE SetMode
  BY <1>13 DEF SetMode, Unpaired
<1> QED
  BY <1>1, <1>2, <1>3, <1>4, <1>5, <1>6, <1>7, <1>8, <1>9, <1>10, <1>11, <1>12, <1>13

LEMMA PairLinkStep == TypeOK /\ PairLink /\ [Next]_vars => PairLink' /\ PairStep
<1> SUFFICES ASSUME TypeOK, PairLink, [Next]_vars PROVE PairLink' /\ PairStep
  OBVIOUS
<1>1. CASE UNCHANGED vars
  BY <1>1, KeptPair DEF vars, ireg
<1>2. CASE ExecPart
  <2>1. PICK n \in {4, 8}, left \in BOOLEAN :
           \E x \in Access(1) : LoadPart(left, n, x[1], x[2]) \/ StorePart(left, n, x[1], x[2])
    BY <1>2 DEF ExecPart
  <2>2. PICK x \in Access(1) : LoadPart(left, n, x[1], x[2]) \/ StorePart(left, n, x[1], x[2])
    BY <2>1
  <2>3. PICK rt \in DOMAIN gpr, ea \in Nat : rt = x[1] /\ ea = x[2] /\ ea < MemBytes
    <3>1. x[1] \in {t[2] : t \in Operands} /\ x[2] \in 0..(MemBytes - 1)
      BY DEF Access
    <3> QED
      BY <3>1, TypeFacts, DataAssumption
  <2> QED
    BY <2>1, <2>2, <2>3, LoadPairStep, StorePairStep
<1>3. CASE Unpaired
  BY <1>3, UnpairedStep, KeptPair DEF Unpaired
<1>4. Next => UNCHANGED vars \/ ExecPart \/ Unpaired
  BY IntUnpaired, FpUnpaired, Zenon DEF Next, Halt
<1> QED
  BY <1>1, <1>2, <1>3, <1>4
-----------------------------------------------------------------------------
(* The results. *)

LEMMA DataInvariant == Spec => []DataInv
BY DataInit, DataStep, PTL DEF Spec

\* No instruction leaves a result wider than its register, a byte outside its range or
\* an exception code that execMips does not raise.
THEOREM DataTypeCorrect == Spec => []TypeOK
<1>1. DataInv => TypeOK
  BY DEF DataInv
<1> QED
  BY DataInvariant, <1>1, PTL

\* Without a completed 64-bit operation every general register, HI and LO is the sign
\* extension of its low word, and divu does not divide by zero.
THEOREM NarrowProgramsStayNarrow == Spec => []SignExtended
<1>1. DataInv => SignExtended
  BY DEF DataInv
<1> QED
  BY DataInvariant, <1>1, PTL

\* A word put in a single register reads back until that register is overwritten,
\* under either register-file mode.  A conditional move of a MIPS IV build, which
\* moves the whole register at either format, counts as overwriting both halves.
THEOREM SinglesReadBack == Spec => []SinglesHeld
<1>1. DataInv => SinglesHeld
  BY DEF DataInv
<1> QED
  BY DataInvariant, <1>1, PTL

\* FCSR and FCCR show the same condition codes, from every mirror until a CTC1 to a
\* reserved control number writes FCSR past FCCR (interpret.cc _ctc1).
THEOREM ConditionCodesAgree == Spec => []FccViews
<1>1. DataInv => FccViews
  BY DEF DataInv
<1> QED
  BY DataInvariant, <1>1, PTL

\* A trapping addition or subtraction overflows exactly when its result does not fit,
\* products and quotients are the integers', and conversions round as their mode says.
THEOREM ResultsExact == Spec => []ResultExact
<1>1. DataInv => TypeOK
  BY DEF DataInv
<1> QED
  BY DataInvariant, <1>1, ExactInit, ExactStep, PTL DEF Spec

\* A left and a right partial access, in either order and byte order, load the
\* unaligned word or doubleword between them, and store it and no other byte.
THEOREM UnalignedPairsWhole == Spec => UnalignedPair
<1>1. DataInv => TypeOK
  BY DEF DataInv
<1>2. Spec => []PairLink
  BY DataInvariant, <1>1, PairInit, PairLinkStep, PTL DEF Spec
<1> QED
  BY DataInvariant, <1>1, <1>2, PairLinkStep, PTL DEF Spec, UnalignedPair
=============================================================================
