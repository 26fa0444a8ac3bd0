----------------------------- MODULE KemProofs ------------------------------
(***************************************************************************)
(* The public key encryption and the key encapsulation mechanism, for      *)
(* every ring dimension, code, set of seeds and vectors, and any number of *)
(* reloads and decapsulations.  The first half is about the operators of   *)
(* Pke: the ring of binary polynomials modulo X^n - 1, and why decryption  *)
(* returns what was encrypted.  The second half proves the invariants of   *)
(* Kem.                                                                    *)
(***************************************************************************)
EXTENDS Kem, FiniteSetTheorems, TLAPS

-----------------------------------------------------------------------------
(* Parity of cardinalities.                                                *)

LEMMA OddSum ==
    ASSUME NEW a \in Nat, NEW b \in Nat
    PROVE  Odd(a + b) <=> ~(Odd(a) <=> Odd(b))
  BY DEF Odd

LEMMA SymDiffCardinality ==
    ASSUME NEW S, NEW T, IsFiniteSet(S), IsFiniteSet(T)
    PROVE  /\ IsFiniteSet(SymDiff(S, T))
           /\ Cardinality(SymDiff(S, T)) + 2 * Cardinality(S \cap T)
                  = Cardinality(S) + Cardinality(T)
  <1> DEFINE s == Cardinality(S)
             t == Cardinality(T)
             c == Cardinality(S \cap T)
  <1>1. s \in Nat /\ t \in Nat /\ c \in Nat
    BY FS_CardinalityType, FS_Intersection
  <1>2. T \cap S = S \cap T /\ (S \ T) \cap (T \ S) = {}
    OBVIOUS
  <1>3. /\ IsFiniteSet(S \ T) /\ IsFiniteSet(T \ S)
        /\ Cardinality(S \ T) = s - c
        /\ Cardinality(T \ S) = t - c
    <2>1. IsFiniteSet(S \ T) /\ Cardinality(S \ T) = Cardinality(S) - Cardinality(S \cap T)
      BY FS_Difference
    <2>2. IsFiniteSet(T \ S) /\ Cardinality(T \ S) = Cardinality(T) - Cardinality(T \cap S)
      BY FS_Difference
    <2> QED
      BY <1>2, <2>1, <2>2
  <1> HIDE DEF s, t, c
  <1>4. /\ IsFiniteSet(SymDiff(S, T))
        /\ Cardinality(SymDiff(S, T)) = (s - c) + (t - c) - 0
    BY <1>2, <1>3, FS_Union, FS_EmptySet DEF SymDiff
  <1>5. Cardinality(SymDiff(S, T)) + 2 * c = s + t
    BY <1>1, <1>4
  <1> QED
    BY <1>4, <1>5 DEF s, t, c

LEMMA SymDiffParity ==
    ASSUME NEW S, NEW T, IsFiniteSet(S), IsFiniteSet(T)
    PROVE  Odd(Cardinality(SymDiff(S, T))) <=> ~(Odd(Cardinality(S)) <=> Odd(Cardinality(T)))
  <1> DEFINE s == Cardinality(S)
             t == Cardinality(T)
             c == Cardinality(S \cap T)
             d == Cardinality(SymDiff(S, T))
  <1>1. s \in Nat /\ t \in Nat /\ c \in Nat /\ d \in Nat
    BY FS_CardinalityType, FS_Intersection, SymDiffCardinality
  <1>2. d + 2 * c = s + t
    BY SymDiffCardinality
  <1> HIDE DEF s, t, c, d
  <1>3. Odd(d) <=> Odd(s + t)
    BY <1>1, <1>2 DEF Odd
  <1>4. Odd(s + t) <=> ~(Odd(s) <=> Odd(t))
    BY <1>1, OddSum
  <1> QED
    BY <1>3, <1>4 DEF s, t, d

-----------------------------------------------------------------------------
(* polyMul, coefficient by coefficient.                                    *)

Exponents == 0 .. n - 1

\* The exponent that times X^i gives X^k modulo X^n - 1.
Quotient(k, i) == IF i <= k THEN k - i ELSE k + n - i

\* The factors of a that meet one of b at exponent k.
Meeting(a, b, k) == {i \in a : Quotient(k, i) \in b}

LEMMA QuotientType ==
    ASSUME NEW k \in Exponents, NEW i \in Exponents
    PROVE  Quotient(k, i) \in Exponents
  BY PkeAssumption DEF Quotient, Exponents

LEMMA QuotientsCommute ==
    ASSUME NEW k \in Exponents, NEW i \in Exponents, NEW j \in Exponents
    PROVE  Quotient(Quotient(k, i), j) = Quotient(Quotient(k, j), i)
  BY PkeAssumption DEF Quotient, Exponents

LEMMA PolyFinite ==
    ASSUME NEW a \in Poly
    PROVE  /\ IsFiniteSet(a)
           /\ \A S \in SUBSET a : IsFiniteSet(S) /\ Cardinality(S) \in Nat
  <1>1. IsFiniteSet(0 .. n - 1)
    BY PkeAssumption, FS_Interval
  <1>2. IsFiniteSet(a)
    BY <1>1, FS_Subset DEF Poly
  <1> QED
    BY <1>2, FS_Subset, FS_CardinalityType

(* The carryless product with its fold at n is the cyclic product.          *)
LEMMA Coefficient ==
    ASSUME NEW a \in Poly, NEW b \in Poly, NEW k \in Exponents
    PROVE  k \in polyMul(a, b) <=> Odd(Cardinality(Meeting(a, b, k)))
  <1> DEFINE S == {i \in a : k - i \in b}
             T == {i \in a : k + n - i \in b}
  <1>1. ASSUME NEW i \in a
        PROVE  /\ Quotient(k, i) \in b <=> (k - i \in b \/ k + n - i \in b)
               /\ ~(k - i \in b /\ k + n - i \in b)
    <2>1. /\ k \in Int /\ i \in Int /\ n \in Int
          /\ 0 <= i /\ i < n /\ 0 <= k /\ k < n
          /\ \A j \in b : j \in Int /\ 0 <= j /\ j < n
      BY PkeAssumption DEF Poly, Exponents
    <2>2. CASE i <= k
      BY <2>1, <2>2 DEF Quotient
    <2>3. CASE i > k
      BY <2>1, <2>3 DEF Quotient
    <2> QED
      BY <2>1, <2>2, <2>3
  <1>2. Meeting(a, b, k) = S \cup T /\ S \cap T = {}
    BY <1>1 DEF Meeting
  <1>3. IsFiniteSet(S) /\ IsFiniteSet(T) /\ Cardinality(S) \in Nat /\ Cardinality(T) \in Nat
    BY PolyFinite
  <1>4. k \in polyMul(a, b) <=> Odd(Cardinality(S) + Cardinality(T))
    BY DEF polyMul, Exponents
  <1> HIDE DEF S, T
  <1>5. Cardinality(Meeting(a, b, k)) = Cardinality(S) + Cardinality(T)
    BY <1>2, <1>3, FS_Union, FS_EmptySet
  <1> QED
    BY <1>4, <1>5

LEMMA MulType ==
    ASSUME NEW a, NEW b
    PROVE  polyMul(a, b) \in Poly
  BY DEF polyMul, Poly

LEMMA AddType ==
    ASSUME NEW a \in Poly, NEW b \in Poly
    PROVE  polyAdd(a, b) \in Poly
  BY DEF polyAdd, SymDiff, Poly

LEMMA MulOverRightSum ==
    ASSUME NEW a \in Poly, NEW b \in Poly, NEW c \in Poly
    PROVE  polyMul(a, polyAdd(b, c)) = polyAdd(polyMul(a, b), polyMul(a, c))
  <1> DEFINE s == polyAdd(b, c)
  <1>1. s \in Poly
    BY AddType
  <1>2. ASSUME NEW k \in Exponents
        PROVE  k \in polyMul(a, s) <=> ~(k \in polyMul(a, b) <=> k \in polyMul(a, c))
    <2>1. Meeting(a, s, k) = SymDiff(Meeting(a, b, k), Meeting(a, c, k))
      BY DEF Meeting, polyAdd, SymDiff
    <2>2. IsFiniteSet(Meeting(a, b, k)) /\ IsFiniteSet(Meeting(a, c, k))
      BY PolyFinite DEF Meeting
    <2> HIDE DEF s
    <2>3. Odd(Cardinality(Meeting(a, s, k))) <=>
              ~(Odd(Cardinality(Meeting(a, b, k))) <=> Odd(Cardinality(Meeting(a, c, k))))
      BY <2>1, <2>2, SymDiffParity
    <2> QED
      BY <1>1, <2>3, Coefficient
  <1> HIDE DEF s
  <1>3. polyMul(a, s) \subseteq Exponents /\ polyMul(a, b) \subseteq Exponents /\ polyMul(a, c) \subseteq Exponents
    BY MulType DEF Poly, Exponents
  <1>4. polyMul(a, s) = SymDiff(polyMul(a, b), polyMul(a, c))
    BY <1>2, <1>3 DEF SymDiff
  <1> QED
    BY <1>4 DEF s, polyAdd

LEMMA MulOverLeftSum ==
    ASSUME NEW a \in Poly, NEW b \in Poly, NEW c \in Poly
    PROVE  polyMul(polyAdd(a, b), c) = polyAdd(polyMul(a, c), polyMul(b, c))
  <1> DEFINE s == polyAdd(a, b)
  <1>1. s \in Poly
    BY AddType
  <1>2. ASSUME NEW k \in Exponents
        PROVE  k \in polyMul(s, c) <=> ~(k \in polyMul(a, c) <=> k \in polyMul(b, c))
    <2>1. Meeting(s, c, k) = SymDiff(Meeting(a, c, k), Meeting(b, c, k))
      BY DEF Meeting, polyAdd, SymDiff
    <2>2. IsFiniteSet(Meeting(a, c, k)) /\ IsFiniteSet(Meeting(b, c, k))
      BY PolyFinite DEF Meeting
    <2> HIDE DEF s
    <2>3. Odd(Cardinality(Meeting(s, c, k))) <=>
              ~(Odd(Cardinality(Meeting(a, c, k))) <=> Odd(Cardinality(Meeting(b, c, k))))
      BY <2>1, <2>2, SymDiffParity
    <2> QED
      BY <1>1, <2>3, Coefficient
  <1> HIDE DEF s
  <1>3. polyMul(s, c) \subseteq Exponents /\ polyMul(a, c) \subseteq Exponents /\ polyMul(b, c) \subseteq Exponents
    BY MulType DEF Poly, Exponents
  <1>4. polyMul(s, c) = SymDiff(polyMul(a, c), polyMul(b, c))
    BY <1>2, <1>3 DEF SymDiff
  <1> QED
    BY <1>4 DEF s, polyAdd

-----------------------------------------------------------------------------
(* a(bc) = b(ac), first for a monomial a, then by growing a.               *)

LEMMA MonomialTimes ==
    ASSUME NEW j \in Exponents, NEW c \in Poly, NEW k \in Exponents
    PROVE  k \in polyMul({j}, c) <=> Quotient(k, j) \in c
  <1>1. {j} \in Poly
    BY DEF Poly, Exponents
  <1>2. k \in polyMul({j}, c) <=> Odd(Cardinality(Meeting({j}, c, k)))
    BY <1>1, Coefficient
  <1>3. CASE Quotient(k, j) \in c
    <2>1. Meeting({j}, c, k) = {j}
      BY <1>3 DEF Meeting
    <2>2. Odd(Cardinality({j}))
      <3>1. Cardinality({j}) = 1
        BY FS_Singleton
      <3> QED
        BY <3>1 DEF Odd
    <2> QED
      BY <1>2, <1>3, <2>1, <2>2
  <1>4. CASE Quotient(k, j) \notin c
    <2>1. Meeting({j}, c, k) = {}
      BY <1>4 DEF Meeting
    <2>2. ~Odd(Cardinality({}))
      BY FS_EmptySet DEF Odd
    <2> QED
      BY <1>2, <1>4, <2>1, <2>2
  <1> QED
    BY <1>3, <1>4

LEMMA MonomialCommutes ==
    ASSUME NEW j \in Exponents, NEW b \in Poly, NEW c \in Poly
    PROVE  polyMul({j}, polyMul(b, c)) = polyMul(b, polyMul({j}, c))
  <1> DEFINE bc == polyMul(b, c)
             jc == polyMul({j}, c)
  <1>1. bc \in Poly /\ jc \in Poly
    BY MulType
  <1>2. ASSUME NEW k \in Exponents
        PROVE  k \in polyMul({j}, bc) <=> k \in polyMul(b, jc)
    <2> DEFINE q == Quotient(k, j)
    <2>1. q \in Exponents
      BY QuotientType
    <2>2. k \in polyMul({j}, bc) <=> q \in bc
      BY <1>1, MonomialTimes
    <2>3. q \in bc <=> Odd(Cardinality(Meeting(b, c, q)))
      BY <2>1, Coefficient
    <2>4. ASSUME NEW i \in b
          PROVE  Quotient(k, i) \in jc <=> Quotient(q, i) \in c
      <3>1. i \in Exponents
        BY DEF Poly, Exponents
      <3>2. Quotient(k, i) \in jc <=> Quotient(Quotient(k, i), j) \in c
        BY <3>1, QuotientType, MonomialTimes
      <3> QED
        BY <3>1, <3>2, QuotientsCommute
    <2>5. Meeting(b, jc, k) = Meeting(b, c, q)
      BY <2>4 DEF Meeting
    <2>6. k \in polyMul(b, jc) <=> Odd(Cardinality(Meeting(b, jc, k)))
      BY <1>1, Coefficient
    <2> QED
      BY <2>2, <2>3, <2>5, <2>6
  <1> HIDE DEF bc, jc
  <1>3. polyMul({j}, bc) \subseteq Exponents /\ polyMul(b, jc) \subseteq Exponents
    BY MulType DEF Poly, Exponents
  <1>4. polyMul({j}, bc) = polyMul(b, jc)
    BY <1>2, <1>3
  <1> QED
    BY <1>4 DEF bc, jc

LEMMA ZeroTimes ==
    ASSUME NEW b \in Poly
    PROVE  polyMul({}, b) = {} /\ polyMul(b, {}) = {}
  <1>1. {} \in Poly
    BY DEF Poly
  <1>2. ~Odd(Cardinality({}))
    BY FS_EmptySet DEF Odd
  <1>3. ASSUME NEW k \in Exponents
        PROVE  k \notin polyMul({}, b) /\ k \notin polyMul(b, {})
    <2>1. Meeting({}, b, k) = {} /\ Meeting(b, {}, k) = {}
      BY DEF Meeting
    <2> QED
      BY <1>1, <1>2, <2>1, Coefficient
  <1> QED
    BY <1>3, MulType DEF Poly, Exponents

(* A smallest a for which a(bc) # b(ac) would not be zero, and losing one  *)
(* of its terms would leave a smaller one.                                 *)
LEMMA ProductsCommute ==
    ASSUME NEW a \in Poly, NEW b \in Poly, NEW c \in Poly
    PROVE  polyMul(a, polyMul(b, c)) = polyMul(b, polyMul(a, c))
  <1> DEFINE Good(p) == polyMul(p, polyMul(b, c)) = polyMul(b, polyMul(p, c))
             Bad == {p \in Poly : ~Good(p)}
             R == StrictSubsetOrdering(Exponents)
  <1>1. SUFFICES ASSUME Bad # {} PROVE FALSE
    OBVIOUS
  <1>2. IsWellFoundedOn(R, FiniteSubsetsOf(Exponents)) /\ Bad \subseteq FiniteSubsetsOf(Exponents)
    BY FS_StrictSubsetOrderingWellFounded, PolyFinite DEF FiniteSubsetsOf, Poly, Exponents
  <1>3. PICK p \in Bad : \A q \in Bad : <<q, p>> \notin R
    <2> HIDE DEF R, Bad
    <2> QED
      BY <1>1, <1>2, WFMin
  <1>4. p \in Poly /\ ~Good(p)
    BY <1>3
  <1>5. p # {}
    BY <1>4, ZeroTimes, MulType
  <1>6. PICK j \in p : TRUE
    BY <1>5
  <1> DEFINE q == p \ {j}
  <1>7. q \in Poly /\ {j} \in Poly /\ j \in Exponents /\ p = polyAdd(q, {j})
    BY <1>4, <1>6 DEF Poly, Exponents, polyAdd, SymDiff
  <1>8. Good(q)
    <2>1. <<q, p>> \in R
      BY <1>4, <1>6, <1>7 DEF StrictSubsetOrdering, Poly, Exponents
    <2> QED
      BY <1>3, <1>7, <2>1
  <1>9. Good(p)
    <2> DEFINE bc == polyMul(b, c)
               qc == polyMul(q, c)
               jc == polyMul({j}, c)
    <2>1. bc \in Poly /\ qc \in Poly /\ jc \in Poly
      BY MulType
    <2>2. polyMul(p, bc) = polyAdd(polyMul(q, bc), polyMul({j}, bc))
      BY <1>7, <2>1, MulOverLeftSum
    <2>3. polyMul(p, c) = polyAdd(qc, jc)
      BY <1>7, MulOverLeftSum
    <2>4. polyMul(b, polyAdd(qc, jc)) = polyAdd(polyMul(b, qc), polyMul(b, jc))
      BY <2>1, MulOverRightSum
    <2>5. polyMul(q, bc) = polyMul(b, qc)
      BY <1>8
    <2>6. polyMul({j}, bc) = polyMul(b, jc)
      BY <1>7, MonomialCommutes
    <2> HIDE DEF bc, qc, jc, q
    <2>7. polyMul(p, bc) = polyMul(b, polyMul(p, c))
      BY <2>2, <2>3, <2>4, <2>5, <2>6
    <2> QED
      BY <2>7 DEF bc
  <1> QED
    BY <1>4, <1>9

-----------------------------------------------------------------------------
(* The code: where the noise does not overwhelm a symbol, the word of that *)
(* symbol is the nearest to what was received of it.                       *)

Word == SUBSET (0 .. n1n2 - 1)
Bits == SUBSET (0 .. n2 - 1)

LEMMA ProductGrows ==
    ASSUME NEW a \in Nat, NEW b \in Nat, NEW d \in Nat, a <= b
    PROVE  a * d <= b * d /\ a * d \in Nat
  <1>1. (b - a) * d >= 0
    OBVIOUS
  <1>2. (b - a) * d = b * d - a * d
    OBVIOUS
  <1>3. a * d \in Nat /\ b * d \in Nat
    OBVIOUS
  <1> QED
    BY <1>1, <1>2, <1>3

(* A position of a word is in one block, at one place.                     *)
LEMMA PositionUnique ==
    ASSUME NEW d \in Nat, NEW q \in Nat, NEW p \in Nat, NEW r \in 0 .. d - 1, NEW s \in 0 .. d - 1,
           q * d + r = p * d + s
    PROVE  q = p /\ r = s
  <1>1. q * d \in Nat /\ p * d \in Nat
    BY ProductGrows
  <1>2. ~(q < p)
    <2> SUFFICES ASSUME q < p PROVE FALSE
      OBVIOUS
    <2>1. (q + 1) * d <= p * d
      BY ProductGrows
    <2>2. (q + 1) * d = q * d + d
      OBVIOUS
    <2> QED
      BY <1>1, <2>1, <2>2
  <1>3. ~(p < q)
    <2> SUFFICES ASSUME p < q PROVE FALSE
      OBVIOUS
    <2>1. (p + 1) * d <= q * d
      BY ProductGrows
    <2>2. (p + 1) * d = p * d + d
      OBVIOUS
    <2> QED
      BY <1>1, <2>1, <2>2
  <1>4. q = p
    BY <1>2, <1>3
  <1> QED
    BY <1>1, <1>4

LEMMA PositionBelow ==
    ASSUME NEW i \in 0 .. n1 - 1, NEW j \in 0 .. n2 - 1
    PROVE  i * n2 + j \in 0 .. n1n2 - 1
  <1>1. n1 \in Nat /\ n2 \in Nat
    BY PkeAssumption
  <1>2. (i + 1) * n2 <= n1 * n2 /\ (i + 1) * n2 \in Nat
    BY <1>1, ProductGrows
  <1>3. i * n2 \in Nat /\ n1 * n2 \in Nat /\ (i + 1) * n2 = i * n2 + n2
    BY <1>1
  <1> QED
    BY <1>1, <1>2, <1>3 DEF n1n2

LEMMA CodewordOf ==
    ASSUME NEW m \in Message
    PROVE  /\ codeEncode(m) \in Word
           /\ \A i \in 0 .. n1 - 1 : /\ rsEncode[m][i] \in Symbol
                                    /\ Block(codeEncode(m), i) = SymbolWord[rsEncode[m][i]]
  <1> DEFINE c == rsEncode[m]
             B(i) == SymbolWord[c[i]]
  <1>1. ASSUME NEW i \in 0 .. n1 - 1 PROVE c[i] \in Symbol /\ B(i) \subseteq 0 .. n2 - 1
    BY PkeAssumption DEF Symbols
  <1>2. codeEncode(m) = UNION {{i * n2 + j : j \in B(i)} : i \in 0 .. n1 - 1}
    BY DEF codeEncode, rmEncode
  <1>3. codeEncode(m) \in Word
    <2>1. ASSUME NEW i \in 0 .. n1 - 1, NEW j \in B(i) PROVE i * n2 + j \in 0 .. n1n2 - 1
      BY <1>1, PositionBelow
    <2> HIDE DEF B
    <2> QED
      BY <1>2, <2>1 DEF Word
  <1>4. ASSUME NEW i \in 0 .. n1 - 1, NEW j \in 0 .. n2 - 1
        PROVE  i * n2 + j \in codeEncode(m) <=> j \in B(i)
    <2>1. ASSUME NEW a \in 0 .. n1 - 1, NEW b \in B(a), i * n2 + j = a * n2 + b
          PROVE  a = i /\ b = j
      <3>1. b \in 0 .. n2 - 1 /\ a \in Nat /\ i \in Nat /\ n2 \in Nat
        BY <1>1, PkeAssumption
      <3> QED
        BY <2>1, <3>1, PositionUnique
    <2> HIDE DEF B
    <2> QED
      BY <1>2, <2>1
  <1>5. ASSUME NEW i \in 0 .. n1 - 1 PROVE Block(codeEncode(m), i) = B(i)
    BY <1>1, <1>4 DEF Block
  <1> QED
    BY <1>1, <1>3, <1>5

LEMMA MinIsLeast ==
    ASSUME NEW S \in SUBSET Nat, S # {}
    PROVE  Min(S) \in S /\ \A z \in S : Min(S) <= z
  <1> DEFINE T == {0 .. z - 1 : z \in S}
             R == StrictSubsetOrdering(Nat)
  <1>1. IsWellFoundedOn(R, FiniteSubsetsOf(Nat))
    BY FS_StrictSubsetOrderingWellFounded
  <1>2. T \subseteq FiniteSubsetsOf(Nat) /\ T # {}
    <2>1. ASSUME NEW z \in S PROVE IsFiniteSet(0 .. z - 1) /\ 0 .. z - 1 \subseteq Nat
      BY FS_Interval
    <2> QED
      BY <2>1 DEF FiniteSubsetsOf
  <1>3. PICK t \in T : \A u \in T : <<u, t>> \notin R
    <2> HIDE DEF T, R
    <2> QED
      BY <1>1, <1>2, WFMin
  <1>4. PICK x \in S : t = 0 .. x - 1
    BY <1>3
  <1>5. ASSUME NEW z \in S PROVE x <= z
    <2>1. SUFFICES ASSUME z < x PROVE FALSE
      OBVIOUS
    <2>2. x \in Nat /\ z \in Nat
      OBVIOUS
    <2>3. 0 .. z - 1 \subseteq t /\ z \in t /\ z \notin 0 .. z - 1 /\ t \subseteq Nat
      BY <1>4, <2>1, <2>2
    <2>4. <<0 .. z - 1, t>> \in R
      BY <2>3 DEF StrictSubsetOrdering
    <2> QED
      BY <1>3, <2>4
  <1> QED
    BY <1>5 DEF Min

LEMMA BitsFinite == \A A \in Bits : IsFiniteSet(A)
  <1>1. IsFiniteSet(0 .. n2 - 1)
    BY PkeAssumption, FS_Interval
  <1> QED
    BY <1>1, FS_Subset DEF Bits

LEMMA DistanceFacts ==
    ASSUME NEW A \in Bits, NEW B \in Bits, NEW C \in Bits
    PROVE  /\ Distance(A, B) \in Nat
           /\ Distance(A, B) = Distance(B, A)
           /\ Distance(A, C) <= Distance(A, B) + Distance(B, C)
  <1> DEFINE AB == SymDiff(A, B)
             BC == SymDiff(B, C)
             AC == SymDiff(A, C)
  <1>1. IsFiniteSet(AB) /\ IsFiniteSet(BC) /\ IsFiniteSet(AC)
    BY BitsFinite, SymDiffCardinality
  <1>2. AC \subseteq AB \cup BC /\ AB = SymDiff(B, A)
    BY DEF SymDiff
  <1> HIDE DEF AB, BC, AC
  <1>3. /\ IsFiniteSet(AB \cup BC)
        /\ Cardinality(AB \cup BC) = Cardinality(AB) + Cardinality(BC) - Cardinality(AB \cap BC)
    BY <1>1, FS_Union
  <1>4. Cardinality(AC) <= Cardinality(AB \cup BC)
    BY <1>2, <1>3, FS_Subset
  <1>5. /\ Cardinality(AB) \in Nat /\ Cardinality(BC) \in Nat /\ Cardinality(AC) \in Nat
        /\ Cardinality(AB \cap BC) \in Nat
    BY <1>1, FS_CardinalityType, FS_Intersection
  <1>6. Cardinality(AC) <= Cardinality(AB) + Cardinality(BC)
    BY <1>3, <1>4, <1>5
  <1> QED
    BY <1>2, <1>5, <1>6 DEF Distance, AB, BC, AC

LEMMA RadiusFact ==
    ASSUME NEW x \in Symbol, NEW other \in Symbol, x # other
    PROVE  /\ symbolRadius \in Int
           /\ 2 * symbolRadius < Distance(SymbolWord[x], SymbolWord[other])
  <1> DEFINE D == UNION {{Distance(SymbolWord[a], SymbolWord[b]) : b \in Symbol \ {a}} : a \in Symbol}
             d == Distance(SymbolWord[x], SymbolWord[other])
             least == Min(D)
  <1>1. \A a \in Symbol : SymbolWord[a] \in Bits
    BY PkeAssumption DEF Bits
  <1>2. D \subseteq Nat /\ d \in D
    BY <1>1, DistanceFacts
  <1>3. least \in Nat /\ d \in Nat /\ least <= d
    <2> HIDE DEF D, d
    <2> QED
      BY <1>2, MinIsLeast
  <1>4. symbolRadius = (least - 1) \div 2
    BY DEF symbolRadius
  <1> HIDE DEF D, d, least
  <1>5. symbolRadius \in Int /\ 2 * symbolRadius < d
    BY <1>3, <1>4
  <1> QED
    BY <1>5 DEF d

\* What rmDecode chooses for a block.
Nearest(block) ==
    CHOOSE x \in Symbol :
        \A other \in Symbol : Distance(block, SymbolWord[x]) <= Distance(block, SymbolWord[other])

LEMMA NearestIsSymbol ==
    ASSUME NEW block \in Bits, NEW x \in Symbol
    PROVE  /\ Nearest(block) \in Symbol
           /\ \A other \in Symbol :
                  Distance(block, SymbolWord[Nearest(block)]) <= Distance(block, SymbolWord[other])
  <1> DEFINE D(o) == Distance(block, SymbolWord[o])
             S == {D(o) : o \in Symbol}
  <1>1. \A o \in Symbol : D(o) \in Nat
    BY PkeAssumption, DistanceFacts DEF Bits
  <1>2. S \subseteq Nat /\ S # {}
    BY <1>1
  <1>3. PICK o \in Symbol : \A other \in Symbol : D(o) <= D(other)
    <2>1. Min(S) \in S /\ \A z \in S : Min(S) <= z
      <3> HIDE DEF S
      <3> QED
        BY <1>2, MinIsLeast
    <2> HIDE DEF D
    <2> QED
      BY <2>1
  <1>4. Nearest(block) = CHOOSE z \in Symbol : \A other \in Symbol : D(z) <= D(other)
    BY DEF Nearest
  <1>5. Nearest(block) \in Symbol /\ \A other \in Symbol : D(Nearest(block)) <= D(other)
    <2> HIDE DEF D
    <2> QED
      BY <1>3, <1>4
  <1> QED
    BY <1>5

LEMMA NearestWithinRadius ==
    ASSUME NEW block \in Bits, NEW x \in Symbol, Distance(block, SymbolWord[x]) <= symbolRadius
    PROVE  Nearest(block) = x
  <1> DEFINE o == Nearest(block)
             D(z) == Distance(block, SymbolWord[z])
             d == Distance(SymbolWord[x], SymbolWord[o])
  <1>1. SUFFICES ASSUME o # x PROVE FALSE
    OBVIOUS
  <1>2. o \in Symbol /\ D(o) <= D(x)
    BY NearestIsSymbol
  <1> HIDE DEF o
  <1>3. SymbolWord[x] \in Bits /\ SymbolWord[o] \in Bits
    BY <1>2, PkeAssumption DEF Bits
  <1>4. D(x) \in Nat /\ D(o) \in Nat /\ d \in Nat /\ d <= D(x) + D(o)
    BY <1>3, DistanceFacts
  <1>5. symbolRadius \in Int /\ 2 * symbolRadius < d /\ D(x) <= symbolRadius
    BY <1>1, <1>2, RadiusFact
  <1> HIDE DEF D, d
  <1> QED
    BY <1>2, <1>4, <1>5

(* The two stages: a symbol that is not overwhelmed decodes to itself, and *)
(* the outer code corrects the others when they are at most delta.         *)
LEMMA DecodesCorrectable ==
    ASSUME NEW m \in Message, NEW word \in Word,
           Cardinality(overwhelmed(SymDiff(word, codeEncode(m)))) <= delta
    PROVE  codeDecode(word) = m
  <1> DEFINE c == codeEncode(m)
             own == rsEncode[m]
             got == rmDecode(word)
             bad == overwhelmed(SymDiff(word, c))
  <1>1. ASSUME NEW i \in 0 .. n1 - 1
        PROVE  /\ got[i] = Nearest(Block(word, i)) /\ got[i] \in Symbol
               /\ i \notin bad => got[i] = own[i]
    <2>1. own[i] \in Symbol /\ Block(c, i) = SymbolWord[own[i]]
      BY CodewordOf
    <2>2. Block(word, i) \in Bits
      BY DEF Block, Bits
    <2>3. got[i] = Nearest(Block(word, i))
      BY DEF rmDecode, Nearest
    <2>4. got[i] \in Symbol
      BY <2>1, <2>2, <2>3, NearestIsSymbol
    <2>5. ASSUME i \notin bad PROVE got[i] = own[i]
      <3>1. Block(SymDiff(word, c), i) = SymDiff(Block(word, i), Block(c, i))
        BY DEF Block, SymDiff
      <3>2. Distance(Block(word, i), SymbolWord[own[i]]) = Cardinality(Block(SymDiff(word, c), i))
        BY <2>1, <3>1 DEF Distance
      <3>3. ~(Cardinality(Block(SymDiff(word, c), i)) > symbolRadius)
        BY <2>5 DEF overwhelmed
      <3>4. Distance(Block(word, i), SymbolWord[own[i]]) \in Nat
        BY <2>1, <2>2, PkeAssumption, DistanceFacts DEF Bits
      <3>5. CASE \E other \in Symbol : other # own[i]
        <4>1. symbolRadius \in Int
          BY <2>1, <3>5, RadiusFact
        <4>2. Distance(Block(word, i), SymbolWord[own[i]]) <= symbolRadius
          BY <3>2, <3>3, <3>4, <4>1
        <4> QED
          BY <2>1, <2>2, <2>3, <4>2, NearestWithinRadius
      <3>6. CASE ~\E other \in Symbol : other # own[i]
        BY <2>4, <3>6
      <3> QED
        BY <3>5, <3>6
    <2> QED
      BY <2>3, <2>4, <2>5
  <1>2. got \in Symbols
    <2>1. got = [i \in 0 .. n1 - 1 |-> got[i]]
      BY DEF rmDecode
    <2> HIDE DEF got
    <2> QED
      BY <1>1, <2>1 DEF Symbols
  <1>3. Wrong(got, own) \subseteq bad
    <2> HIDE DEF got, own, bad
    <2> QED
      BY <1>1 DEF Wrong
  <1>4. IsFiniteSet(bad) /\ Cardinality(bad) \in Nat
    <2>1. IsFiniteSet(0 .. n1 - 1)
      BY PkeAssumption, FS_Interval
    <2>2. bad \subseteq 0 .. n1 - 1
      BY DEF overwhelmed
    <2> HIDE DEF bad
    <2> QED
      BY <2>1, <2>2, FS_Subset, FS_CardinalityType
  <1>5. Cardinality(Wrong(got, own)) <= delta
    <2>1. Cardinality(bad) <= delta
      OBVIOUS
    <2> HIDE DEF bad, got, own
    <2>2. /\ Cardinality(Wrong(got, own)) \in Nat
          /\ Cardinality(Wrong(got, own)) <= Cardinality(bad)
      BY <1>3, <1>4, FS_Subset, FS_CardinalityType
    <2> QED
      BY <1>4, <2>1, <2>2, PkeAssumption
  <1>6. rsDecode[got] = m
    <2> HIDE DEF got
    <2> QED
      BY <1>2, <1>5, PkeAssumption
  <1> QED
    BY <1>6 DEF codeDecode

-----------------------------------------------------------------------------
(* With s = x + yh, decrypting what was encrypted with r2, e, r1 presents  *)
(* the codeword plus r2 x + y r1 + e to the decoder.                       *)
LEMMA DecoderInput ==
    ASSUME NEW x \in Poly, NEW y \in Poly, NEW h \in Poly,
           NEW r2 \in Poly, NEW e \in Poly, NEW r1 \in Poly, NEW m \in Message
    PROVE  LET s == polyAdd(x, polyMul(y, h))
               c == hqcPKEEncrypt(h, s, m, <<r2, e, r1>>)
               word == polyAdd(c.v, truncate(polyMul(y, c.u)))
           IN  /\ word \in Word
               /\ SymDiff(word, codeEncode(m)) =
                      truncate(polyAdd(polyAdd(polyMul(r2, x), polyMul(y, r1)), e))
  <1> DEFINE s == polyAdd(x, polyMul(y, h))
             c == hqcPKEEncrypt(h, s, m, <<r2, e, r1>>)
             yh == polyMul(y, h)
             ryh == polyMul(r2, yh)
             rx == polyMul(r2, x)
             yr == polyMul(y, r1)
             G == codeEncode(m)
  <1>1. yh \in Poly /\ polyMul(r2, h) \in Poly
    BY MulType
  <1>2. polyMul(r2, s) = polyAdd(rx, ryh)
    BY <1>1, MulOverRightSum
  <1>3. polyMul(y, polyMul(r2, h)) = ryh
    BY ProductsCommute
  <1>4. polyMul(y, polyAdd(r1, polyMul(r2, h))) = polyAdd(yr, ryh)
    BY <1>1, <1>3, MulOverRightSum
  <1>5. c.v = truncate(polyAdd(polyAdd(e, polyMul(r2, s)), G)) /\ c.u = polyAdd(r1, polyMul(r2, h))
    BY DEF hqcPKEEncrypt
  <1>6. G \in Word
    BY CodewordOf
  <1> HIDE DEF s, c, yh, ryh, rx, yr, G
  <1> DEFINE word == polyAdd(truncate(polyAdd(polyAdd(e, polyAdd(rx, ryh)), G)),
                             truncate(polyAdd(yr, ryh)))
  <1>7. word \in Word
    BY DEF Word, truncate, polyAdd, SymDiff
  <1>8. SymDiff(word, G) = truncate(polyAdd(polyAdd(rx, yr), e))
    BY <1>6 DEF Word, truncate, polyAdd, SymDiff
  <1> HIDE DEF word
  <1>9. word = polyAdd(c.v, truncate(polyMul(y, c.u)))
    BY <1>2, <1>4, <1>5 DEF word
  <1> QED
    BY <1>7, <1>8, <1>9 DEF s, c, rx, yr, G

(* hqcPKEDecrypt returns the message given to hqcPKEEncrypt whenever the   *)
(* noise r2 x + y r1 + e, cut to the length of the code, overwhelms at     *)
(* most delta symbols, for every ring dimension, every inner code and      *)
(* every outer code whose decoder corrects delta symbols.                  *)
THEOREM DecryptionReturnsMessage ==
    ASSUME NEW x \in Poly, NEW y \in Poly, NEW h \in Poly,
           NEW r2 \in Poly, NEW e \in Poly, NEW r1 \in Poly, NEW m \in Message,
           Cardinality(overwhelmed(truncate(polyAdd(polyAdd(polyMul(r2, x), polyMul(y, r1)), e))))
               <= delta
    PROVE  LET s == polyAdd(x, polyMul(y, h))
               c == hqcPKEEncrypt(h, s, m, <<r2, e, r1>>)
           IN  hqcPKEDecrypt(y, c.u, c.v) = m
  <1> DEFINE s == polyAdd(x, polyMul(y, h))
             c == hqcPKEEncrypt(h, s, m, <<r2, e, r1>>)
             word == polyAdd(c.v, truncate(polyMul(y, c.u)))
  <1>1. word \in Word
    BY DecoderInput
  <1>2. SymDiff(word, codeEncode(m)) = truncate(polyAdd(polyAdd(polyMul(r2, x), polyMul(y, r1)), e))
    BY DecoderInput
  <1>3. hqcPKEDecrypt(y, c.u, c.v) = codeDecode(word)
    BY DEF hqcPKEDecrypt
  <1>4. codeDecode(word) = m
    <2>1. Cardinality(overwhelmed(SymDiff(word, codeEncode(m)))) <= delta
      BY <1>2
    <2> HIDE DEF word
    <2> QED
      BY <1>1, <2>1, DecodesCorrectable
  <1> QED
    BY <1>3, <1>4

-----------------------------------------------------------------------------
(* The invariant.                                                          *)

PublicKey == [seedEK : Seed, s : Loaded]
Stored == [pk : PublicKey, seedDK : Seed, sigma : Seed, seedKem : Seed, short : BOOLEAN]
Ciphertext == [u : Loaded, v : Word, salt : Salt]

\* What the expander answered, it answers again.
OracleInv ==
    /\ keyStream \in [Seed -> KeyStreams]
    /\ pubVector \in [Seed -> PublicVectors]
    /\ \A g \in DOMAIN asked : asked[g] \in Streams

\* A key in use satisfies the equation parseDecapsulationKey checks.
Usable(k) ==
    /\ k.bytes \in Stored
    /\ k.ek = parseEncapsulationKey(k.bytes.pk)
    /\ k.y \in Poly /\ k.x \in Poly
    /\ k.ek.s = polyAdd(k.x, polyMul(k.y, k.ek.h))
    /\ k.sigma = k.bytes.sigma

KeyInv ==
    /\ reloads \in 0 .. MaxReloads
    /\ sk # None => sk \in Stored
    /\ IsKey(key) => Usable(key)
    /\ GenerationSucceeds

\* ct is the encryption under pk that the message and the salt of g determine.
Seals(g, pk, ct) ==
    /\ g \in DOMAIN asked
    /\ g = hashG(hashH(pk), g[2], ct.salt)
    /\ LET c == hqcPKEEncrypt(pubVector[pk.seedEK], pk.s, g[2], asked[g])
       IN  ct.u = c.u /\ ct.v = c.v

SentBy(g) ==
    /\ Seals(g, sent.pk, sent.ct)
    /\ g[2] \in Message
    /\ sent.ss = Accepted(g)
    /\ sent.stream = asked[g]

SentInv ==
    /\ sent = None => log = {}
    /\ sent # None => /\ sent.pk \in PublicKey
                      /\ sent.ct \in [u : Poly, v : Word, salt : Salt]
                      /\ \E g \in DOMAIN asked : SentBy(g)

\* The hash of the message that an entry's ciphertext decrypts to.
Opened(d) == hashG(hashH(d.pk), hqcPKEDecrypt(d.yx.y, d.ct.u, d.ct.v), d.ct.salt)

\* A secret is accepted exactly for the ciphertext it seals, and rejected otherwise.
Explained(d) ==
    /\ d.ct \in Ciphertext
    /\ Opened(d) \in DOMAIN asked
    /\ d.ss = IF Seals(Opened(d), d.pk, d.ct) THEN Accepted(Opened(d))
              ELSE Rejected(hashJ(hashH(d.pk), d.sigma, d.ct.u, d.ct.v, d.ct.salt))

LogInv ==
    /\ IsFiniteSet(log) /\ Cardinality(log) <= MaxDecaps
    /\ \A d \in log : Explained(d)

IInv == OracleInv /\ KeyInv /\ SentInv /\ LogInv /\ Agreement

-----------------------------------------------------------------------------
(* Keys.                                                                   *)

LEMMA NoneIsNoKey == ~IsKey(None)
  BY DEF IsKey, None

LEMMA StoredIsSome == \A b \in Stored : b # None
  BY DEF Stored, None

LEMMA ErrorIsNoKey == \A e : ~IsKey([err |-> e])
  BY DEF IsKey

LEMMA StreamTypes ==
    /\ \A p \in KeyStreams : p[1] \in Poly /\ p[2] \in Poly
    /\ \A t \in Streams : /\ t[1] \in Poly /\ t[2] \in Poly /\ t[3] \in Poly
                          /\ t = <<t[1], t[2], t[3]>>
    /\ \A h \in PublicVectors : h \in Poly
  BY KemAssumption

LEMMA PolyLoaded == Poly \subseteq Loaded
  BY PkeAssumption DEF Poly, Loaded

(* Every key that loads satisfies s = x + yh.                              *)
LEMMA ParsedIsUsable ==
    ASSUME OracleInv, NEW b \in Stored, IsKey(parseDecapsulationKey(b))
    PROVE  Usable(parseDecapsulationKey(b))
  <1> DEFINE ek == parseEncapsulationKey(b.pk)
             yx == regenerated(b.seedDK)
             k == [y |-> yx.y, x |-> yx.x, sigma |-> b.sigma, ek |-> ek, bytes |-> b]
  <1>1. parseDecapsulationKey(b) = k /\ polyAdd(yx.x, polyMul(yx.y, ek.h)) = ek.s
    BY ErrorIsNoKey DEF parseDecapsulationKey
  <1>2. keyStream[b.seedDK] \in KeyStreams
    BY DEF OracleInv, Stored
  <1>3. yx.y \in Poly /\ yx.x \in Poly
    BY <1>2, StreamTypes DEF regenerated
  <1> HIDE DEF ek, yx
  <1>4. k.bytes = b /\ k.ek = ek /\ k.y = yx.y /\ k.x = yx.x /\ k.sigma = b.sigma
    OBVIOUS
  <1>5. Usable(k)
    BY <1>1, <1>3, <1>4 DEF Usable, ek
  <1> QED
    BY <1>1, <1>5

(* generateKey assembles a stored key that parses.                         *)
LEMMA GeneratedParses ==
    ASSUME OracleInv, NEW seed \in Seed
    PROVE  /\ generatedBytes(seed) \in Stored
           /\ IsKey(parseDecapsulationKey(generatedBytes(seed)))
  <1> DEFINE b == generatedBytes(seed)
             s == hqcPKEKeygen(keyStream[seed], pubVector[seed])
  <1>1. keyStream[seed] \in KeyStreams /\ pubVector[seed] \in PublicVectors
    BY DEF OracleInv
  <1>2. s = polyAdd(keyStream[seed][2], polyMul(keyStream[seed][1], pubVector[seed]))
    BY DEF hqcPKEKeygen
  <1>3. s \in Poly
    BY <1>1, <1>2, StreamTypes, MulType, AddType
  <1> HIDE DEF s
  <1>4. b = [pk |-> [seedEK |-> seed, s |-> s], seedDK |-> seed, sigma |-> seed,
             seedKem |-> seed, short |-> FALSE]
    BY DEF generatedBytes, s
  <1>5. b \in Stored
    BY <1>3, <1>4, PolyLoaded DEF Stored, PublicKey
  <1>6. /\ b.short = FALSE /\ b.seedDK = seed /\ b.pk = [seedEK |-> seed, s |-> s]
    BY <1>4
  <1> HIDE DEF b
  <1> DEFINE ek == parseEncapsulationKey(b.pk)
             yx == regenerated(b.seedDK)
  <1>7. ek.h = pubVector[seed] /\ ek.s = s
    BY <1>6 DEF parseEncapsulationKey
  <1>8. yx.y = keyStream[seed][1] /\ yx.x = keyStream[seed][2]
    BY <1>6 DEF regenerated
  <1> HIDE DEF ek, yx
  <1>9. parseDecapsulationKey(b) = [y |-> yx.y, x |-> yx.x, sigma |-> b.sigma, ek |-> ek, bytes |-> b]
    BY <1>2, <1>6, <1>7, <1>8 DEF parseDecapsulationKey, ek, yx
  <1>10. IsKey(parseDecapsulationKey(b))
    BY <1>9 DEF IsKey
  <1> QED
    BY <1>5, <1>10 DEF b

LEMMA DamagedIsStored ==
    ASSUME NEW b \in Stored, NEW d \in Damaged(b)
    PROVE  d \in Stored
  <1>1. b.pk \in PublicKey /\ b.pk.s \in Loaded
    BY DEF Stored, PublicKey
  <1>2. \A x \in Seed : [b.pk EXCEPT !.seedEK = x] \in PublicKey
    BY <1>1 DEF PublicKey
  <1>3. ASSUME NEW k \in Flips
        PROVE  [b.pk EXCEPT !.s = SymDiff(b.pk.s, {k})] \in PublicKey
    <2>1. SymDiff(b.pk.s, {k}) \in Loaded
      BY <1>1, KemAssumption DEF Loaded, SymDiff
    <2> QED
      BY <1>1, <2>1 DEF PublicKey
  <1>4. \A p \in PublicKey : [b EXCEPT !.pk = p] \in Stored
    BY DEF Stored
  <1>5. /\ [b EXCEPT !.short = TRUE] \in Stored
        /\ \A x \in Seed : /\ [b EXCEPT !.seedDK = x] \in Stored
                           /\ [b EXCEPT !.sigma = x] \in Stored
                           /\ [b EXCEPT !.seedKem = x] \in Stored
    BY DEF Stored
  <1> QED
    BY <1>2, <1>3, <1>4, <1>5 DEF Damaged

(* The expander's earlier answers stay.                                    *)
LEMMA ExpandsFact ==
    ASSUME OracleInv, NEW g, NEW stream \in Streams, Expands(g, stream)
    PROVE  /\ DOMAIN asked \subseteq DOMAIN asked' /\ g \in DOMAIN asked'
           /\ \A a \in DOMAIN asked : asked'[a] = asked[a]
           /\ asked'[g] = stream
           /\ g \in DOMAIN asked => stream = asked[g]
           /\ \A a \in DOMAIN asked' : asked'[a] \in Streams
  <1>1. CASE g \in DOMAIN asked
    BY <1>1 DEF Expands, OracleInv
  <1>2. CASE g \notin DOMAIN asked
    <2>1. asked' = [a \in DOMAIN asked \cup {g} |-> IF a = g THEN stream ELSE asked[a]]
      BY <1>2 DEF Expands
    <2> QED
      BY <1>2, <2>1 DEF OracleInv
  <1> QED
    BY <1>1, <1>2

(* So what was sealed stays sealed.                                        *)
LEMMA SealsStay ==
    ASSUME NEW g, NEW pk, NEW ct, Seals(g, pk, ct),
           DOMAIN asked \subseteq DOMAIN asked',
           \A a \in DOMAIN asked : asked'[a] = asked[a],
           pubVector' = pubVector
    PROVE  Seals(g, pk, ct)' /\ asked'[g] = asked[g] /\ g \in DOMAIN asked'
  BY DEF Seals

LEMMA SealedThen ==
    ASSUME NEW g \in DOMAIN asked, NEW pk, NEW ct,
           DOMAIN asked \subseteq DOMAIN asked',
           \A a \in DOMAIN asked : asked'[a] = asked[a],
           pubVector' = pubVector
    PROVE  Seals(g, pk, ct)' <=> Seals(g, pk, ct)
  BY DEF Seals

-----------------------------------------------------------------------------
(* Each action preserves the invariant.                                    *)

LEMMA OracleStable ==
    ASSUME OracleInv, UNCHANGED oracle
    PROVE  OracleInv'
  BY DEF OracleInv, oracle

LEMMA MessagesStable ==
    ASSUME SentInv, LogInv, Agreement, UNCHANGED <<oracle, sent, log>>
    PROVE  SentInv' /\ LogInv' /\ Agreement'
  <1> USE DEF oracle
  <1>1. Agreement'
    BY DEF Agreement
  <1>2. SentInv'
    BY DEF SentInv, SentBy, Seals
  <1>3. LogInv'
    BY DEF LogInv, Explained, Seals
  <1> QED
    BY <1>1, <1>2, <1>3

LEMMA KeyStable ==
    ASSUME KeyInv, UNCHANGED <<keyStream, pubVector, sk, key, reloads>>
    PROVE  KeyInv'
  BY DEF KeyInv, GenerationSucceeds, Usable, parseEncapsulationKey

(* generateKey, Reload and Regenerate put a parsed key into use.           *)
LEMMA KeyStep ==
    ASSUME OracleInv, NEW b \in Stored, key' = parseDecapsulationKey(b),
           UNCHANGED <<keyStream, pubVector>>
    PROVE  IsKey(key)' => Usable(key)'
  <1> DEFINE k == parseDecapsulationKey(b)
  <1>1. SUFFICES ASSUME IsKey(key)' PROVE Usable(key)'
    OBVIOUS
  <1>2. Usable(k)
    BY <1>1, ParsedIsUsable DEF IsKey
  <1>3. key' = k
    OBVIOUS
  <1> HIDE DEF k
  <1> QED
    BY <1>2, <1>3 DEF Usable, parseEncapsulationKey

LEMMA GenerateStep ==
    ASSUME IInv, NEW seed \in Seed, generateKey(seed)
    PROVE  IInv'
  <1>1. UNCHANGED <<oracle, reloads, sent, log>>
    BY DEF generateKey
  <1>2. sk' \in Stored /\ key' = parseDecapsulationKey(sk') /\ IsKey(key)'
    BY GeneratedParses DEF generateKey, IInv
  <1>3. IsKey(key)' => Usable(key)'
    BY <1>1, <1>2, KeyStep DEF IInv, oracle
  <1>4. KeyInv'
    BY <1>1, <1>2, <1>3 DEF IInv, KeyInv, GenerationSucceeds
  <1> QED
    BY <1>1, <1>4, OracleStable, MessagesStable DEF IInv

(* A key that replaces another no longer counts as just generated.         *)
LEMMA ReplaceStep ==
    ASSUME IInv, NEW b \in Stored, key' = parseDecapsulationKey(b),
           reloads < MaxReloads, reloads' = reloads + 1,
           UNCHANGED <<oracle, sk, sent, log>>
    PROVE  IInv'
  <1>1. IsKey(key)' => Usable(key)'
    BY KeyStep DEF IInv, oracle
  <1>2. reloads' \in 0 .. MaxReloads /\ reloads' # 0
    BY KemAssumption DEF IInv, KeyInv
  <1>3. KeyInv'
    BY <1>1, <1>2 DEF IInv, KeyInv, GenerationSucceeds
  <1> QED
    BY <1>3, OracleStable, MessagesStable DEF IInv

(* The peer's ciphertext seals its secret, and nothing is decapsulated yet.*)
LEMMA EncapsulateStep ==
    ASSUME IInv, sk # None, NEW pk \in PublicForms(sk.pk), NEW m \in Message, NEW salt \in Salt,
           NEW stream \in Streams, encapsulate(pk, m, salt, stream)
    PROVE  IInv'
  <1> DEFINE ek == parseEncapsulationKey(pk)
             g == hashG(hashH(pk), m, salt)
             c == hqcPKEEncrypt(ek.h, ek.s, m, stream)
  <1>1. /\ sent = None /\ Expands(g, stream)
        /\ sent' = [ct |-> [u |-> c.u, v |-> c.v, salt |-> salt], ss |-> Accepted(g),
                    pk |-> pk, stream |-> stream]
        /\ UNCHANGED <<keyStream, pubVector, sk, key, reloads, log>>
    BY DEF encapsulate, parseEncapsulationKey
  <1>2. log = {} /\ log' = {}
    BY <1>1 DEF IInv, SentInv
  <1>3. pk \in PublicKey
    <2>1. sk.pk \in PublicKey /\ sk.pk.s \in Loaded
      BY DEF IInv, KeyInv, Stored, PublicKey
    <2>2. ASSUME NEW k \in n .. n + Pad - 1
          PROVE  [sk.pk EXCEPT !.s = SymDiff(sk.pk.s, {k})] \in PublicKey
      <3>1. SymDiff(sk.pk.s, {k}) \in Loaded
        BY <2>1, PkeAssumption DEF Loaded, SymDiff
      <3> QED
        BY <2>1, <3>1 DEF PublicKey
    <2> QED
      BY <2>1, <2>2 DEF PublicForms
  <1>4. ek.h = pubVector[pk.seedEK] /\ ek.s = pk.s
    BY DEF parseEncapsulationKey
  <1>5. g = <<hashH(pk), m, salt>> /\ g[2] = m
    BY DEF hashG
  <1>6. c.u \in Poly /\ c.v \in Word
    <2>1. stream[1] \in Poly /\ stream[3] \in Poly
      BY StreamTypes
    <2>2. c.u = polyAdd(stream[3], polyMul(stream[1], ek.h))
      BY DEF hqcPKEEncrypt
    <2>3. c.v \in Word
      BY DEF hqcPKEEncrypt, truncate, Word
    <2> HIDE DEF c, ek
    <2> QED
      BY <2>1, <2>2, <2>3, MulType, AddType
  <1>7. /\ DOMAIN asked \subseteq DOMAIN asked' /\ g \in DOMAIN asked'
        /\ \A a \in DOMAIN asked : asked'[a] = asked[a]
        /\ asked'[g] = stream
        /\ \A a \in DOMAIN asked' : asked'[a] \in Streams
    <2> HIDE DEF g
    <2> QED
      BY <1>1, ExpandsFact DEF IInv
  <1>8. c = hqcPKEEncrypt(pubVector[pk.seedEK], pk.s, m, stream)
    BY <1>4
  <1> HIDE DEF c, ek, g
  <1>9. OracleInv'
    BY <1>1, <1>7 DEF IInv, OracleInv
  <1>10. KeyInv'
    BY <1>1, KeyStable DEF IInv
  <1>11. /\ sent'.pk = pk /\ sent'.stream = stream /\ sent'.ss = Accepted(g)
         /\ sent'.ct = [u |-> c.u, v |-> c.v, salt |-> salt]
         /\ sent'.ct.u = c.u /\ sent'.ct.v = c.v /\ sent'.ct.salt = salt
    BY <1>1
  <1>12. Seals(g, sent.pk, sent.ct)'
    BY <1>1, <1>5, <1>7, <1>8, <1>11 DEF Seals, hashG, hashH
  <1>13. SentBy(g)'
    BY <1>5, <1>7, <1>11, <1>12 DEF SentBy
  <1>14. SentInv'
    BY <1>2, <1>3, <1>6, <1>7, <1>11, <1>13 DEF SentInv
  <1>15. LogInv' /\ Agreement'
    BY <1>2, KemAssumption, FS_EmptySet DEF LogInv, Agreement
  <1> QED
    BY <1>9, <1>10, <1>14, <1>15 DEF IInv

(* What decapsulate returns is explained by its ciphertext: the secret it  *)
(* seals when re-encryption gives the same u and v, the keyed hash         *)
(* otherwise.                                                              *)
LEMMA SelectedBy ==
    ASSUME NEW ct, NEW c
    PROVE  (((mismatch(ct, c) - 1) % 256) % 2 = 1) <=> (ct.u = c.u /\ ct.v = c.v)
  BY DEF mismatch

LEMMA DeliveredFact ==
    ASSUME IInv, sent # None, NEW ct \in Delivered(sent.ct)
    PROVE  ct \in Ciphertext
  <1> DEFINE s == sent.ct
  <1>1. s \in [u : Poly, v : Word, salt : Salt]
    BY DEF IInv, SentInv
  <1>2. s \in Ciphertext /\ s.u \in Loaded /\ s.v \in Word
    BY <1>1, PolyLoaded DEF Ciphertext
  <1>3. ASSUME NEW k \in Flips
        PROVE  [s EXCEPT !.u = SymDiff(s.u, {k})] \in Ciphertext
    <2>1. SymDiff(s.u, {k}) \in Loaded
      BY <1>2, KemAssumption DEF Loaded, SymDiff
    <2> HIDE DEF s
    <2> QED
      BY <1>2, <2>1 DEF Ciphertext
  <1>4. ASSUME NEW k \in Flips \cap (0 .. n1n2 - 1)
        PROVE  [s EXCEPT !.v = SymDiff(s.v, {k})] \in Ciphertext
    <2>1. SymDiff(s.v, {k}) \in Word
      BY <1>2 DEF Word, SymDiff
    <2> HIDE DEF s
    <2> QED
      BY <1>2, <2>1 DEF Ciphertext
  <1>5. \A x \in Salt : [s EXCEPT !.salt = x] \in Ciphertext
    BY <1>2 DEF Ciphertext
  <1> QED
    BY <1>2, <1>3, <1>4, <1>5 DEF Delivered

(* The entry decapsulate adds to the log.                                  *)
Entry(ct, g, c) ==
    [ct |-> ct, pk |-> key.bytes.pk, sigma |-> key.bytes.sigma,
     yx |-> [y |-> key.y, x |-> key.x],
     ss |-> IF ct.u = c.u /\ ct.v = c.v THEN Accepted(g)
            ELSE Rejected(hashJ(hashH(key.bytes.pk), key.bytes.sigma, ct.u, ct.v, ct.salt))]

LEMMA DecapsulateEffect ==
    ASSUME IInv, NEW ct, NEW stream, decapsulate(ct, stream)
    PROVE  \E m, g, c :
               /\ m = hqcPKEDecrypt(key.y, ct.u, ct.v)
               /\ g = hashG(hashH(key.bytes.pk), m, ct.salt)
               /\ c = hqcPKEEncrypt(pubVector[key.bytes.pk.seedEK], key.bytes.pk.s, m, stream)
               /\ IsKey(key) /\ Usable(key) /\ Cardinality(log) < MaxDecaps
               /\ Expands(g, stream)
               /\ log' = log \cup {Entry(ct, g, c)}
               /\ UNCHANGED <<keyStream, pubVector, sk, key, reloads, sent>>
  <1> DEFINE m == hqcPKEDecrypt(key.y, ct.u, ct.v)
             g == hashG(key.ek.hEK, m, ct.salt)
             c == hqcPKEEncrypt(key.ek.h, key.ek.s, m, stream)
             j == hashJ(key.ek.hEK, key.sigma, ct.u, ct.v, ct.salt)
             selectBit == ((mismatch(ct, c) - 1) % 256) % 2
             entry == [ct |-> ct, pk |-> key.bytes.pk, sigma |-> key.bytes.sigma,
                       yx |-> [y |-> key.y, x |-> key.x],
                       ss |-> IF selectBit = 1 THEN Accepted(g) ELSE Rejected(j)]
  <1>1. /\ IsKey(key) /\ Cardinality(log) < MaxDecaps
        /\ Expands(g, stream)
        /\ log' = log \cup {entry}
        /\ UNCHANGED <<keyStream, pubVector, sk, key, reloads, sent>>
    BY DEF decapsulate
  <1>2. Usable(key)
    BY <1>1 DEF IInv, KeyInv
  <1>3. /\ key.ek.h = pubVector[key.bytes.pk.seedEK] /\ key.ek.s = key.bytes.pk.s
        /\ key.ek.hEK = hashH(key.bytes.pk) /\ key.sigma = key.bytes.sigma
    BY <1>2 DEF Usable, parseEncapsulationKey
  <1>4. entry = Entry(ct, g, c)
    BY <1>3, SelectedBy DEF Entry
  <1>5. /\ g = hashG(hashH(key.bytes.pk), m, ct.salt)
        /\ c = hqcPKEEncrypt(pubVector[key.bytes.pk.seedEK], key.bytes.pk.s, m, stream)
    BY <1>3
  <1> HIDE DEF g, c, entry
  <1> QED
    BY <1>1, <1>2, <1>4, <1>5

(* DecryptionReturnsMessage for the three vectors of a stream.             *)
LEMMA PeerDecrypts ==
    ASSUME NEW x \in Poly, NEW y \in Poly, NEW h \in Poly, NEW t \in Streams, NEW m \in Message,
           NEW s, s = polyAdd(x, polyMul(y, h)),
           Cardinality(overwhelmed(truncate(
               polyAdd(polyAdd(polyMul(t[1], x), polyMul(y, t[3])), t[2])))) <= delta
    PROVE  hqcPKEDecrypt(y, hqcPKEEncrypt(h, s, m, t).u, hqcPKEEncrypt(h, s, m, t).v) = m
  <1>1. PICK r2 \in Poly, e \in Poly, r1 \in Poly : t = <<r2, e, r1>>
    BY StreamTypes
  <1>2. t[1] = r2 /\ t[2] = e /\ t[3] = r1
    BY <1>1
  <1>3. Cardinality(overwhelmed(truncate(polyAdd(polyAdd(polyMul(r2, x), polyMul(y, r1)), e))))
            <= delta
    BY <1>2
  <1>4. hqcPKEDecrypt(y, hqcPKEEncrypt(h, polyAdd(x, polyMul(y, h)), m, <<r2, e, r1>>).u,
                         hqcPKEEncrypt(h, polyAdd(x, polyMul(y, h)), m, <<r2, e, r1>>).v) = m
    BY <1>3, DecryptionReturnsMessage
  <1> QED
    BY <1>1, <1>4

(* With the peer's own ciphertext and public key, and at most delta symbols *)
(* overwhelmed, decryption finds the peer's message, so G returns the peer's    *)
(* secret and the expander the peer's vectors: re-encryption agrees.       *)
LEMMA Agrees ==
    ASSUME IInv, sent # None, Usable(key), key.bytes.pk = sent.pk,
           Cardinality(overwhelmed(noise([y |-> key.y, x |-> key.x], sent.stream))) <= delta,
           NEW stream, NEW m, m = hqcPKEDecrypt(key.y, sent.ct.u, sent.ct.v),
           NEW g, g = hashG(hashH(key.bytes.pk), m, sent.ct.salt), Expands(g, stream),
           NEW c, c = hqcPKEEncrypt(pubVector[key.bytes.pk.seedEK], key.bytes.pk.s, m, stream)
    PROVE  Entry(sent.ct, g, c).ss = sent.ss
  <1>1. PICK a \in DOMAIN asked : SentBy(a)
    BY DEF IInv, SentInv
  <1> DEFINE p == a[2]
             t == asked[a]
             h == pubVector[sent.pk.seedEK]
             e == hqcPKEEncrypt(h, sent.pk.s, p, t)
  <1>2. /\ a = hashG(hashH(sent.pk), p, sent.ct.salt) /\ sent.ct.u = e.u /\ sent.ct.v = e.v
        /\ p \in Message /\ sent.ss = Accepted(a) /\ sent.stream = t
    BY <1>1 DEF SentBy, Seals
  <1>3. t \in Streams
    BY DEF IInv, OracleInv
  <1>4. /\ key.x \in Poly /\ key.y \in Poly
        /\ sent.pk.s = polyAdd(key.x, polyMul(key.y, h))
    BY DEF Usable, parseEncapsulationKey
  <1>5. h \in Poly
    <2>1. sent.pk.seedEK \in Seed
      BY DEF IInv, SentInv, PublicKey
    <2> QED
      BY <2>1, StreamTypes DEF IInv, OracleInv
  <1>6. t = <<t[1], t[2], t[3]>> /\ t[1] \in Poly /\ t[2] \in Poly /\ t[3] \in Poly
    BY <1>3, StreamTypes
  <1>7. Cardinality(overwhelmed(truncate(
            polyAdd(polyAdd(polyMul(t[1], key.x), polyMul(key.y, t[3])), t[2])))) <= delta
    BY <1>2 DEF noise
  <1>8. hqcPKEDecrypt(key.y, e.u, e.v) = p
    <2> HIDE DEF h, t, p
    <2> QED
      BY <1>2, <1>3, <1>4, <1>5, <1>7, PeerDecrypts
  <1>9. m = p
    BY <1>2, <1>8
  <1>10. g = a
    BY <1>2, <1>9
  <1>11. stream = t
    BY <1>10 DEF Expands
  <1>12. c = e
    BY <1>9, <1>11
  <1> HIDE DEF e
  <1>13. Entry(sent.ct, g, c).ss = Accepted(g)
    BY <1>2, <1>12 DEF Entry
  <1> QED
    BY <1>2, <1>10, <1>13

LEMMA DecapsulateStep ==
    ASSUME IInv, sent # None, NEW ct \in Delivered(sent.ct), NEW stream \in Streams,
           decapsulate(ct, stream)
    PROVE  IInv'
  <1>1. PICK m, g, c :
            /\ m = hqcPKEDecrypt(key.y, ct.u, ct.v)
            /\ g = hashG(hashH(key.bytes.pk), m, ct.salt)
            /\ c = hqcPKEEncrypt(pubVector[key.bytes.pk.seedEK], key.bytes.pk.s, m, stream)
            /\ IsKey(key) /\ Usable(key) /\ Cardinality(log) < MaxDecaps
            /\ Expands(g, stream)
            /\ log' = log \cup {Entry(ct, g, c)}
            /\ UNCHANGED <<keyStream, pubVector, sk, key, reloads, sent>>
    BY DecapsulateEffect
  <1>2. /\ DOMAIN asked \subseteq DOMAIN asked' /\ g \in DOMAIN asked'
        /\ \A a \in DOMAIN asked : asked'[a] = asked[a]
        /\ asked'[g] = stream
        /\ \A a \in DOMAIN asked' : asked'[a] \in Streams
    BY <1>1, ExpandsFact DEF IInv
  <1>3. OracleInv'
    BY <1>1, <1>2 DEF IInv, OracleInv
  <1>4. KeyInv'
    BY <1>1, KeyStable DEF IInv
  <1>5. SentInv'
    <2>1. PICK a \in DOMAIN asked : SentBy(a)
      BY DEF IInv, SentInv
    <2>2. Seals(a, sent.pk, sent.ct)' /\ asked'[a] = asked[a] /\ a \in DOMAIN asked'
      BY <1>1, <1>2, <2>1, SealsStay DEF SentBy, Seals
    <2>3. SentBy(a)'
      BY <1>1, <2>1, <2>2 DEF SentBy
    <2> QED
      BY <1>1, <2>2, <2>3 DEF IInv, SentInv
  <1> DEFINE d == Entry(ct, g, c)
  <1>6. /\ d.ct = ct /\ d.pk = key.bytes.pk /\ d.sigma = key.bytes.sigma
        /\ d.yx = [y |-> key.y, x |-> key.x]
        /\ d.ss = IF ct.u = c.u /\ ct.v = c.v THEN Accepted(g)
                  ELSE Rejected(hashJ(hashH(key.bytes.pk), key.bytes.sigma, ct.u, ct.v, ct.salt))
    BY DEF Entry
  <1> HIDE DEF d
  <1>7. PICK new : new = d
    OBVIOUS
  <1>8. Explained(new)'
    <2>1. new.ct \in Ciphertext
      BY <1>6, <1>7, DeliveredFact
    <2>2. Opened(new) = g
      BY <1>1, <1>6, <1>7 DEF Opened
    <2>3. g[2] = m
      BY <1>1 DEF hashG
    <2>4. Seals(g, new.pk, new.ct)' <=> (ct.u = c.u /\ ct.v = c.v)
      BY <1>1, <1>2, <1>6, <1>7, <2>3 DEF Seals
    <2>5. new.ss = IF Seals(g, new.pk, new.ct)' THEN Accepted(g)
                   ELSE Rejected(hashJ(hashH(new.pk), new.sigma, new.ct.u, new.ct.v, new.ct.salt))
      BY <1>6, <1>7, <2>4
    <2> QED
      BY <1>2, <2>1, <2>2, <2>5 DEF Explained, Opened
  <1>9. ASSUME NEW old \in log
        PROVE  Explained(old)'
    <2>1. Explained(old)
      BY DEF IInv, LogInv
    <2>2. Opened(old) \in DOMAIN asked
      BY <2>1 DEF Explained
    <2>3. Seals(Opened(old), old.pk, old.ct)' <=> Seals(Opened(old), old.pk, old.ct)
      BY <1>1, <1>2, <2>2, SealedThen
    <2> QED
      BY <1>2, <2>1, <2>2, <2>3 DEF Explained, Opened
  <1>10. LogInv'
    <2>1. IsFiniteSet(log) /\ Cardinality(log) \in Nat /\ log' = log \cup {new}
      BY <1>1, <1>7, FS_CardinalityType DEF IInv, LogInv, d
    <2>2. IsFiniteSet(log') /\ Cardinality(log') \in {Cardinality(log), Cardinality(log) + 1}
      <3>1. IsFiniteSet(log \cup {new})
            /\ Cardinality(log \cup {new}) \in {Cardinality(log), Cardinality(log) + 1}
        <4>1. CASE new \in log
          <5>1. log \cup {new} = log
            BY <4>1
          <5> QED
            BY <2>1, <5>1
        <4>2. CASE new \notin log
          BY <2>1, <4>2, FS_AddElement
        <4> QED
          BY <4>1, <4>2
      <3> QED
        BY <2>1, <3>1
    <2>3. Cardinality(log') <= MaxDecaps
      BY <1>1, <2>1, <2>2, KemAssumption
    <2> QED
      BY <2>1, <2>2, <2>3, <1>8, <1>9 DEF LogInv
  <1>11. Agreement'
    <2>1. log' = log \cup {new} /\ sent' = sent
      BY <1>1, <1>7 DEF d
    <2>2. ASSUME NEW old \in log, old.ct = sent.ct, old.pk = sent.pk,
                 Cardinality(overwhelmed(noise(old.yx, sent.stream))) <= delta
          PROVE  old.ss = sent.ss
      BY <2>2 DEF IInv, Agreement
    <2>3. ASSUME new.ct = sent.ct, new.pk = sent.pk,
                 Cardinality(overwhelmed(noise(new.yx, sent.stream))) <= delta
          PROVE  new.ss = sent.ss
      <3>1. ct = sent.ct /\ key.bytes.pk = sent.pk
        BY <1>6, <1>7, <2>3
      <3>2. Cardinality(overwhelmed(noise([y |-> key.y, x |-> key.x], sent.stream))) <= delta
        BY <1>6, <1>7, <2>3
      <3>3. d.ss = sent.ss
        BY <1>1, <3>1, <3>2, Agrees DEF d
      <3> QED
        BY <1>7, <3>3
    <2>4. ASSUME NEW e \in log', e.ct = sent.ct, e.pk = sent.pk,
                 Cardinality(overwhelmed(noise(e.yx, sent.stream))) <= delta
          PROVE  e.ss = sent.ss
      BY <2>1, <2>2, <2>3, <2>4
    <2> QED
      BY <2>1, <2>4 DEF Agreement, noise
  <1> QED
    BY <1>3, <1>4, <1>5, <1>10, <1>11 DEF IInv

-----------------------------------------------------------------------------
(* The invariant holds in every state.                                     *)

LEMMA Initially == Init => IInv
  <1> SUFFICES ASSUME Init PROVE IInv
    OBVIOUS
  <1>1. DOMAIN asked = {}
    BY DEF Init
  <1>2. OracleInv
    BY <1>1 DEF Init, OracleInv
  <1>3. KeyInv
    BY NoneIsNoKey, KemAssumption DEF Init, KeyInv, GenerationSucceeds
  <1>4. SentInv
    BY DEF Init, SentInv
  <1>5. LogInv /\ Agreement
    BY FS_EmptySet, KemAssumption DEF Init, LogInv, Agreement
  <1> QED
    BY <1>2, <1>3, <1>4, <1>5 DEF IInv

LEMMA Inductive == IInv /\ [Next]_vars => IInv'
  <1> SUFFICES ASSUME IInv, [Next]_vars PROVE IInv'
    OBVIOUS
  <1>1. ASSUME NEW seed \in Seed, generateKey(seed)
        PROVE  IInv'
    BY <1>1, GenerateStep
  <1>2. ASSUME sk # None, NEW bytes \in {sk} \cup Damaged(sk), Reload(bytes)
        PROVE  IInv'
    <2>1. sk \in Stored
      BY <1>2 DEF IInv, KeyInv
    <2>2. bytes \in Stored
      BY <2>1, DamagedIsStored
    <2> QED
      BY <1>2, <2>2, ReplaceStep DEF Reload
  <1>3. ASSUME Regenerate
        PROVE  IInv'
    <2>1. key.bytes.seedKem \in Seed
      BY <1>3 DEF Regenerate, IInv, KeyInv, Usable, Stored
    <2>2. generatedBytes(key.bytes.seedKem) \in Stored
      BY <2>1, GeneratedParses DEF IInv
    <2> QED
      BY <1>3, <2>2, ReplaceStep DEF Regenerate
  <1>4. ASSUME sk # None, NEW pk \in PublicForms(sk.pk), NEW m \in Message, NEW salt \in Salt,
               NEW stream \in Streams, encapsulate(pk, m, salt, stream)
        PROVE  IInv'
    BY <1>4, EncapsulateStep
  <1>5. ASSUME sent # None, NEW ct \in Delivered(sent.ct), NEW stream \in Streams,
               decapsulate(ct, stream)
        PROVE  IInv'
    BY <1>5, DecapsulateStep
  <1>6. CASE UNCHANGED vars
    <2>1. UNCHANGED <<keyStream, pubVector, asked, sk, key, reloads, sent, log>>
      BY <1>6 DEF vars
    <2> QED
      BY <2>1, OracleStable, KeyStable, MessagesStable DEF IInv, oracle
  <1> QED
    BY <1>1, <1>2, <1>3, <1>4, <1>5, <1>6 DEF Next

LEMMA Always == Spec => []IInv
  BY Initially, Inductive, PTL DEF Spec

-----------------------------------------------------------------------------
(* What the invariant says of the program.                                 *)

(* Two entries that agree on an accepted secret seal the same message, salt *)
(* and public key with the same vectors: they are the same ciphertext.      *)
LEMMA SealsOne ==
    ASSUME NEW g, NEW pk, NEW ct, NEW pk2, NEW ct2, Seals(g, pk, ct), Seals(g, pk2, ct2)
    PROVE  pk = pk2 /\ ct.u = ct2.u /\ ct.v = ct2.v /\ ct.salt = ct2.salt
  BY DEF Seals, hashG, hashH

(* An entry's secret is an accepted one it seals or the keyed hash.         *)
LEMMA ExplainedFact ==
    ASSUME NEW d, Explained(d)
    PROVE  /\ d.ct \in Ciphertext
           /\ \/ \E g \in DOMAIN asked : Seals(g, d.pk, d.ct) /\ d.ss = Accepted(g)
              \/ d.ss = Rejected(hashJ(hashH(d.pk), d.sigma, d.ct.u, d.ct.v, d.ct.salt))
  BY DEF Explained

LEMMA CiphertextEqual ==
    ASSUME NEW a \in Ciphertext, NEW b \in Ciphertext, a.u = b.u, a.v = b.v, a.salt = b.salt
    PROVE  a = b
  BY DEF Ciphertext

(* A secret is accepted or rejected, never both.                            *)
LEMMA SecretsDiffer ==
    ASSUME NEW g, NEW j
    PROVE  /\ Accepted(g) # Rejected(j)
           /\ "rejected" \notin DOMAIN Accepted(g)
           /\ Accepted(g).accepted = g /\ Rejected(j).rejected = j
  BY DEF Accepted, Rejected

(* Equal rejections come of equal ciphertexts and sigmas.                   *)
LEMMA RejectionsDiffer ==
    ASSUME NEW a, NEW b, a.ss = b.ss,
           a.ss = Rejected(hashJ(hashH(a.pk), a.sigma, a.ct.u, a.ct.v, a.ct.salt)),
           b.ss = Rejected(hashJ(hashH(b.pk), b.sigma, b.ct.u, b.ct.v, b.ct.salt))
    PROVE  a.sigma = b.sigma /\ a.ct.u = b.ct.u /\ a.ct.v = b.ct.v /\ a.ct.salt = b.ct.salt
  <1> DEFINE i == hashJ(hashH(a.pk), a.sigma, a.ct.u, a.ct.v, a.ct.salt)
             j == hashJ(hashH(b.pk), b.sigma, b.ct.u, b.ct.v, b.ct.salt)
  <1>1. i = j
    <2>1. a.ss = Rejected(i) /\ b.ss = Rejected(j)
      OBVIOUS
    <2> HIDE DEF i, j
    <2>2. Rejected(i).rejected = i /\ Rejected(j).rejected = j
      BY SecretsDiffer
    <2> QED
      BY <2>1, <2>2
  <1> QED
    BY <1>1 DEF hashJ

(* Every vector the program keeps or sends fits its field: the n bits of a  *)
(* key's y and s and of u, the n1n2 bits of v, and the counters stay within *)
(* their bounds.                                                            *)
THEOREM TypesHold == Spec => []TypeOK
  <1>1. IInv => TypeOK
    <2> SUFFICES ASSUME IInv PROVE TypeOK
      OBVIOUS
    <2>1. IsKey(key) => key.ek.s \in Poly /\ key.y \in Poly
      <3> SUFFICES ASSUME Usable(key) PROVE key.ek.s \in Poly /\ key.y \in Poly
        BY DEF IInv, KeyInv
      <3> QED
        BY MulType, AddType DEF Usable
    <2>2. sent # None => sent.ct.u \in Poly /\ sent.ct.v \in SUBSET (0 .. n1n2 - 1)
      BY DEF IInv, SentInv, Word
    <2> QED
      BY <2>1, <2>2 DEF TypeOK, IInv, OracleInv, KeyInv, LogInv
  <1> QED
    BY <1>1, Always, PTL

(* generateKey never returns an error: the seed it stores gives back the    *)
(* vectors its public key was made from.                                    *)
THEOREM GenerationNeverFails == Spec => []GenerationSucceeds
  <1>1. IInv => GenerationSucceeds
    BY DEF IInv, KeyInv
  <1> QED
    BY <1>1, Always, PTL

(* A ciphertext and a public key that arrive as they were sent give the     *)
(* receiver the peer's secret whenever the noise overwhelms at most delta   *)
(* symbols, through any number of reloads and regenerations of the key      *)
(* between, and whichever field of its stored form was damaged.             *)
THEOREM BothSidesAgree == Spec => []Agreement
  <1>1. IInv => Agreement
    BY DEF IInv
  <1> QED
    BY <1>1, Always, PTL

(* decapsulate never gives the peer's secret for a ciphertext, a salt or a  *)
(* public key that differs from what the peer used, in a padding bit or     *)
(* otherwise.                                                               *)
THEOREM NoSecretForTheChanged == Spec => []NoFalseAgreement
  <1>1. IInv => NoFalseAgreement
    <2> SUFFICES ASSUME IInv, NEW d \in log, sent # None, d.ss = sent.ss
                 PROVE  d.ct = sent.ct /\ d.pk = sent.pk
      BY DEF NoFalseAgreement
    <2>1. PICK a \in DOMAIN asked : SentBy(a)
      BY DEF IInv, SentInv
    <2>2. Seals(a, sent.pk, sent.ct) /\ sent.ss = Accepted(a)
      BY <2>1 DEF SentBy
    <2>3. Explained(d)
      BY DEF IInv, LogInv
    <2>4. PICK g \in DOMAIN asked : Seals(g, d.pk, d.ct) /\ d.ss = Accepted(g)
      BY <2>2, <2>3, ExplainedFact, SecretsDiffer
    <2>5. g = a
      BY <2>2, <2>4, SecretsDiffer
    <2>6. d.pk = sent.pk /\ d.ct.u = sent.ct.u /\ d.ct.v = sent.ct.v /\ d.ct.salt = sent.ct.salt
      BY <2>2, <2>4, <2>5, SealsOne
    <2>7. d.ct \in Ciphertext /\ sent.ct \in Ciphertext
      BY <2>3, ExplainedFact, PolyLoaded DEF IInv, SentInv, Ciphertext
    <2> QED
      BY <2>6, <2>7, CiphertextEqual
  <1> QED
    BY <1>1, Always, PTL

(* The secrets two decapsulations return are equal only if their            *)
(* ciphertexts are, whichever keys decapsulated them and whether they were  *)
(* accepted or rejected.                                                    *)
THEOREM SecretsBindCiphertexts == Spec => []Binding
  <1>1. IInv => Binding
    <2> SUFFICES ASSUME IInv, NEW a \in log, NEW b \in log, a.ss = b.ss
                 PROVE  a.ct = b.ct
      BY DEF Binding
    <2>1. Explained(a) /\ Explained(b)
      BY DEF IInv, LogInv
    <2>2. \/ \E g \in DOMAIN asked : Seals(g, b.pk, b.ct) /\ b.ss = Accepted(g)
          \/ b.ss = Rejected(hashJ(hashH(b.pk), b.sigma, b.ct.u, b.ct.v, b.ct.salt))
      BY <2>1, ExplainedFact
    <2>3. \A g, j : Accepted(g) # Rejected(j)
      BY SecretsDiffer
    <2>4. CASE \E g \in DOMAIN asked : Seals(g, a.pk, a.ct) /\ a.ss = Accepted(g)
      <3>1. PICK g \in DOMAIN asked : Seals(g, a.pk, a.ct) /\ a.ss = Accepted(g)
        BY <2>4
      <3>2. PICK f \in DOMAIN asked : Seals(f, b.pk, b.ct) /\ b.ss = Accepted(f)
        BY <2>2, <2>3, <3>1
      <3>3. f = g
        BY <3>1, <3>2, SecretsDiffer
      <3>4. a.ct.u = b.ct.u /\ a.ct.v = b.ct.v /\ a.ct.salt = b.ct.salt
        BY <3>1, <3>2, <3>3, SealsOne
      <3> QED
        BY <2>1, <3>4, ExplainedFact, CiphertextEqual
    <2>5. CASE ~\E g \in DOMAIN asked : Seals(g, a.pk, a.ct) /\ a.ss = Accepted(g)
      <3>1. a.ss = Rejected(hashJ(hashH(a.pk), a.sigma, a.ct.u, a.ct.v, a.ct.salt))
        BY <2>1, <2>5, ExplainedFact
      <3>2. b.ss = Rejected(hashJ(hashH(b.pk), b.sigma, b.ct.u, b.ct.v, b.ct.salt))
        BY <2>2, <2>3, <3>1
      <3>3. a.ct.u = b.ct.u /\ a.ct.v = b.ct.v /\ a.ct.salt = b.ct.salt
        BY <3>1, <3>2, RejectionsDiffer
      <3> QED
        BY <2>1, <3>3, ExplainedFact, CiphertextEqual
    <2> QED
      BY <2>4, <2>5
  <1> QED
    BY <1>1, Always, PTL

(* decapsulate is a function of the ciphertext and the key through every    *)
(* reload and regeneration: it accepts after as it did before, with the     *)
(* same secret, and what it returns for a rejected ciphertext is the same   *)
(* exactly as long as sigma is.                                             *)
THEOREM SameKeySameSecret == Spec => []ReloadsAnswerAlike
  <1>1. IInv => ReloadsAnswerAlike
    <2> SUFFICES ASSUME IInv, NEW a \in log, NEW b \in log,
                        a.ct = b.ct, a.pk = b.pk, a.yx = b.yx
                 PROVE  a.ss = b.ss <=> (a.sigma = b.sigma \/ "accepted" \in DOMAIN a.ss)
      BY DEF ReloadsAnswerAlike
    <2>1. Explained(a) /\ Explained(b)
      BY DEF IInv, LogInv
    <2>2. Opened(a) = Opened(b)
      BY DEF Opened
    <2>3. CASE Seals(Opened(a), a.pk, a.ct)
      <3>1. a.ss = Accepted(Opened(a)) /\ b.ss = Accepted(Opened(a))
        BY <2>1, <2>2, <2>3 DEF Explained
      <3> QED
        BY <3>1 DEF Accepted
    <2>4. CASE ~Seals(Opened(a), a.pk, a.ct)
      <3>1. /\ a.ss = Rejected(hashJ(hashH(a.pk), a.sigma, a.ct.u, a.ct.v, a.ct.salt))
            /\ b.ss = Rejected(hashJ(hashH(b.pk), b.sigma, b.ct.u, b.ct.v, b.ct.salt))
        BY <2>1, <2>2, <2>4 DEF Explained
      <3>2. "accepted" \notin DOMAIN a.ss
        BY <3>1 DEF Rejected
      <3>3. a.sigma = b.sigma => a.ss = b.ss
        BY <3>1
      <3>4. a.ss = b.ss => a.sigma = b.sigma
        BY <3>1, RejectionsDiffer
      <3> QED
        BY <3>2, <3>3, <3>4
    <2> QED
      BY <2>3, <2>4
  <1> QED
    BY <1>1, Always, PTL

=============================================================================
