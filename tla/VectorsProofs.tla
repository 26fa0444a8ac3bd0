--------------------------- MODULE VectorsProofs ----------------------------
(***************************************************************************)
(* Words and vectors, for every word width, byte width and length: the     *)
(* branch-free word operations compute what they stand for, and            *)
(* writeSupport sets exactly the bits of its support and loses none when   *)
(* the support has no repetition.                                          *)
(***************************************************************************)
EXTENDS Vectors, FiniteSetTheorems, TLAPS

-----------------------------------------------------------------------------
(* Words.                                                                  *)

(* compareU32 returns 1 exactly on equal words: of two opposite non-zero   *)
(* differences at least one has its top bit set, at any width.             *)
THEOREM CompareIsEquality ==
    \A a, b \in Word : compareU32(a, b) = IF a = b THEN 1 ELSE 0
  BY ModulusAssumption DEF Word, compareU32, TopBit, Minus

(* condSub is one conditional subtraction as long as n fits in half a word *)
(* and r is below 2n.                                                      *)
THEOREM CondSubReduces ==
    ASSUME NEW n \in Nat, 2 * n <= Modulus, NEW r \in Nat, r < 2 * n
    PROVE  condSub(r, n) = IF r >= n THEN r - n ELSE r
  BY ModulusAssumption DEF condSub, TopBit, Minus, Plus

-----------------------------------------------------------------------------
(* Facts about products and quotients the solver needs one at a time.      *)

LEMMA DivisionBounds ==
    ASSUME NEW a \in Nat, NEW d \in Nat, d > 0
    PROVE  /\ a \div d \in Nat
           /\ (a \div d) * d <= a
           /\ a < (a \div d) * d + d
  OBVIOUS

LEMMA ProductGrows ==
    ASSUME NEW a \in Nat, NEW b \in Nat, NEW c \in Nat, a <= b
    PROVE  a * c <= b * c
  OBVIOUS

LEMMA ProductNat ==
    ASSUME NEW a \in Nat, NEW b \in Nat
    PROVE  a * b \in Nat
  OBVIOUS

LEMMA ProductCancels ==
    ASSUME NEW a \in Nat, NEW b \in Nat, NEW c \in Nat, a * c < b * c
    PROVE  a < b
  OBVIOUS

LEMMA RemainderUnique ==
    ASSUME NEW n \in Nat, n > 0, NEW k \in Nat, NEW r \in Nat, r < n
    PROVE  (k * n + r) % n = r
  OBVIOUS

-----------------------------------------------------------------------------
(* The quotient barrettReduceN estimates is the true one or one less.      *)
LEMMA BarrettQuotient ==
    ASSUME NEW n \in Nat, n > 0, NEW M \in Nat, M > 0, NEW x \in Nat, x < M,
           NEW mu \in Nat, mu = M \div n,
           NEW q \in Nat, q = (x * mu) \div M
    PROVE  q * n <= x /\ x < q * n + 2 * n
  <1>1. mu * n <= M /\ M < mu * n + n
    BY DivisionBounds
  <1>2. x * mu \in Nat
    BY ProductNat
  <1>3. q * M <= x * mu /\ x * mu < q * M + M
    BY <1>2, DivisionBounds
  <1>4. q * n <= x
    <2>1. (q * M) * n <= (x * mu) * n
      BY <1>2, <1>3, ProductNat, ProductGrows
    <2>2. x * (mu * n) <= x * M
      BY <1>1, ProductNat
    <2>3. (q * n) * M <= x * M
      BY <2>1, <2>2
    <2>4. q * n \in Nat
      BY ProductNat
    <2> QED
      BY <2>3, <2>4
  <1>5. x < q * n + 2 * n
    <2>1. x * M <= x * (mu * n + n)
      BY <1>1, ProductNat
    <2>2. (x * mu) * n < (q * M + M) * n
      BY <1>2, <1>3, ProductNat
    <2>3. x * n <= M * n
      BY ProductGrows
    <2>4. x * M < (q * n + 2 * n) * M
      BY <2>1, <2>2, <2>3
    <2>5. q * n + 2 * n \in Nat
      BY ProductNat
    <2> QED
      BY <2>4, <2>5, ProductCancels
  <1> QED
    BY <1>4, <1>5

(* barrettReduceN with nMu = floor(2^32 / n) is reduction modulo n for     *)
(* every word x: one conditional subtraction always suffices and nothing   *)
(* wraps around.                                                           *)
THEOREM BarrettIsModulo ==
    ASSUME NEW n \in Nat, n > 0, 2 * n <= Modulus, NEW x \in Word
    PROVE  barrettReduceN(x, Modulus \div n, n) = x % n
  <1> DEFINE mu == Modulus \div n
             q  == (x * mu) \div Modulus
             r  == x - q * n
  <1>1. x \in Nat /\ x < Modulus /\ Modulus \in Nat /\ Modulus > 0
    BY ModulusAssumption DEF Word
  <1>2. mu \in Nat
    BY <1>1, DivisionBounds
  <1>3. x * mu \in Nat
    BY <1>1, <1>2, ProductNat
  <1>4. q \in Nat
    BY <1>1, <1>3, DivisionBounds
  <1>5. q * n <= x /\ x < q * n + 2 * n
    <2> HIDE DEF q
    <2>1. q = (x * mu) \div Modulus
      BY DEF q
    <2> HIDE DEF mu
    <2>2. mu = Modulus \div n
      BY DEF mu
    <2> QED
      BY <1>1, <1>2, <1>4, <2>1, <2>2, BarrettQuotient
  <1>6. barrettReduceN(x, mu, n) = condSub((x - q * n) % Modulus, n)
    BY DEF barrettReduceN
  <1> HIDE DEF mu, q
  <1>7. q * n \in Nat
    BY <1>4, ProductNat
  <1>8. r \in Nat /\ r < 2 * n /\ r < Modulus /\ x = q * n + r
    BY <1>1, <1>5, <1>7
  <1>9. r % Modulus = r
    <2> HIDE DEF r
    <2> QED
      BY <1>1, <1>8
  <1>10. barrettReduceN(x, mu, n) = IF r >= n THEN r - n ELSE r
    BY <1>6, <1>8, <1>9, CondSubReduces
  <1> HIDE DEF r
  <1>11. CASE r >= n
    <2>1. x = (q + 1) * n + (r - n)
      BY <1>1, <1>4, <1>8
    <2>2. q + 1 \in Nat /\ r - n \in Nat /\ r - n < n
      BY <1>4, <1>8, <1>11
    <2>3. x % n = r - n
      BY <2>1, <2>2, RemainderUnique
    <2> QED
      BY <2>3, <1>10, <1>11 DEF mu
  <1>12. CASE r < n
    <2>1. x % n = r
      BY <1>4, <1>8, <1>12, RemainderUnique
    <2> QED
      BY <2>1, <1>8, <1>10, <1>12 DEF mu
  <1> QED
    BY <1>8, <1>11, <1>12

-----------------------------------------------------------------------------
(* Fixed positions.                                                        *)

LEMMA BitsType == Bits \in Nat /\ Bits > 0
  BY WidthAssumption DEF Bits

LEMMA IsZeroIsEquality ==
    ASSUME NEW a \in Word, NEW b \in Word
    PROVE  isZero(Minus(a, b)) <=> a = b
  BY ModulusAssumption DEF Word, isZero, TopBit, Minus

LEMMA QuotientRemainder ==
    ASSUME NEW p \in Nat, NEW d \in Nat, d > 0
    PROVE  /\ p \div d \in Nat
           /\ p % d \in 0 .. d - 1
           /\ p = (p \div d) * d + (p % d)
  OBVIOUS

LEMMA QuotientBelow ==
    ASSUME NEW p \in Nat, NEW d \in Nat, d > 0, NEW k \in Nat, p < k * d
    PROVE  p \div d < k
  <1>1. (p \div d) * d <= p /\ p \div d \in Nat
    BY DivisionBounds
  <1>2. (p \div d) * d < k * d
    BY <1>1, ProductNat
  <1> QED
    BY <1>1, <1>2, ProductCancels

LEMMA CeilingCovers ==
    ASSUME NEW a \in Nat, NEW b \in Nat, b > 0
    PROVE  ceilDiv(a, b) \in Nat /\ a <= ceilDiv(a, b) * b /\ ceilDiv(a, b) <= a
  <1>1. a + b - 1 \in Nat
    OBVIOUS
  <1> DEFINE c == (a + b - 1) \div b
  <1>2. c \in Nat /\ c * b <= a + b - 1 /\ a + b - 1 < c * b + b
    BY <1>1, DivisionBounds
  <1> HIDE DEF c
  <1>3. c * b \in Nat
    BY <1>2, ProductNat
  <1>4. a <= c * b
    BY <1>2, <1>3
  <1>5. c <= a
    <2>1. c * b < (a + 1) * b
      <3>1. (a + 1) * b = a * b + b
        OBVIOUS
      <3>2. a <= a * b
        OBVIOUS
      <3> QED
        BY <1>2, <1>3, <3>1, <3>2
    <2> QED
      BY <2>1, <1>2, ProductCancels
  <1> QED
    BY <1>2, <1>4, <1>5 DEF ceilDiv, c

LEMMA Len64OfArray ==
    ASSUME NEW len \in Nat, NEW S, NEW a \in Array(len, S)
    PROVE  Len64(a) = len
  <1>1. DOMAIN a = 0 .. len - 1
    BY DEF Array
  <1>2. Cardinality(0 .. len - 1) = len
    BY FS_Interval
  <1> QED
    BY <1>1, <1>2 DEF Len64

(* singleBitMask sets the one bit asked for.                               *)
LEMMA MaskIsSingleton ==
    ASSUME NEW pos \in 0 .. Bits - 1
    PROVE  singleBitMask(pos) = {pos}
  <1>1. 0 .. Bits - 1 \subseteq Word
    BY BitsType, ModulusAssumption, WidthAssumption DEF Word
  <1>2. \A k \in 0 .. Bits - 1 : isZero(Minus(pos, k)) <=> pos = k
    BY <1>1, IsZeroIsEquality
  <1> QED
    BY <1>2 DEF singleBitMask

-----------------------------------------------------------------------------
(* A position p is set in the result exactly when it is in the support.    *)
LEMMA SupportIsWritten ==
    ASSUME NEW len \in Nat, len * Bits <= Modulus, NEW J,
           NEW support \in [J -> 0 .. len * Bits - 1]
    PROVE  Positions(writeSupport(support, len)) = {support[j] : j \in J}
  <1> DEFINE v == writeSupport(support, len)
             bits(k) == UNION {singleBitMask(support[j] % Bits) :
                            j \in {l \in DOMAIN support : isZero(Minus(k, support[l] \div Bits))}}
  <1>1. Bits \in Nat /\ Bits > 0 /\ len * Bits \in Nat
    BY BitsType, ProductNat
  <1>2. len <= Modulus
    BY <1>1, ModulusAssumption
  <1>3. \A j \in J : /\ support[j] \in Nat
                     /\ support[j] \div Bits \in 0 .. len - 1
                     /\ support[j] % Bits \in 0 .. Bits - 1
                     /\ support[j] = (support[j] \div Bits) * Bits + (support[j] % Bits)
    <2> SUFFICES ASSUME NEW j \in J
                 PROVE  /\ support[j] \in Nat
                        /\ support[j] \div Bits \in 0 .. len - 1
                        /\ support[j] % Bits \in 0 .. Bits - 1
                        /\ support[j] = (support[j] \div Bits) * Bits + (support[j] % Bits)
      OBVIOUS
    <2>1. support[j] \in Nat /\ support[j] < len * Bits
      BY <1>1
    <2>2. support[j] \div Bits < len
      BY <1>1, <2>1, QuotientBelow
    <2>3. /\ support[j] \div Bits \in Nat
          /\ support[j] % Bits \in 0 .. Bits - 1
          /\ support[j] = (support[j] \div Bits) * Bits + (support[j] % Bits)
      BY <1>1, <2>1, QuotientRemainder
    <2>4. support[j] \div Bits \in 0 .. len - 1
      BY <2>2, <2>3
    <2> QED
      BY <2>1, <2>3, <2>4
  <1>4. \A k \in 0 .. len - 1, b \in 0 .. Bits - 1 :
            b \in bits(k) <=> \E j \in J : k = support[j] \div Bits /\ b = support[j] % Bits
    <2> TAKE k \in 0 .. len - 1, b \in 0 .. Bits - 1
    <2>1. \A j \in J : isZero(Minus(k, support[j] \div Bits)) <=> k = support[j] \div Bits
      BY <1>2, <1>3, IsZeroIsEquality, ModulusAssumption DEF Word
    <2>2. \A j \in J : singleBitMask(support[j] % Bits) = {support[j] % Bits}
      BY <1>3, MaskIsSingleton
    <2> QED
      BY <2>1, <2>2
  <1>5. v = [k \in 0 .. len - 1 |-> bits(k)]
    BY DEF writeSupport
  <1>6. Len64(v) = len
    <2>1. DOMAIN v = 0 .. len - 1
      BY <1>5
    <2> HIDE DEF v
    <2> QED
      BY <2>1, FS_Interval DEF Len64
  <1>7. ASSUME NEW p \in 0 .. len * Bits - 1
        PROVE  p % Bits \in v[p \div Bits] <=> \E j \in J : p = support[j]
    <2>1. p \in Nat /\ p < len * Bits
      BY <1>1
    <2>2. p \div Bits \in 0 .. len - 1 /\ p % Bits \in 0 .. Bits - 1
      BY <1>1, <2>1, QuotientBelow, QuotientRemainder
    <2>3. p = (p \div Bits) * Bits + (p % Bits)
      BY <1>1, <2>1, QuotientRemainder
    <2>4. v[p \div Bits] = bits(p \div Bits)
      BY <1>5, <2>2
    <2>5. p % Bits \in v[p \div Bits]
              <=> \E j \in J : p \div Bits = support[j] \div Bits /\ p % Bits = support[j] % Bits
      BY <1>4, <2>2, <2>4
    <2>6. \A j \in J : (p \div Bits = support[j] \div Bits /\ p % Bits = support[j] % Bits)
                           <=> p = support[j]
      BY <1>3, <2>3
    <2> QED
      BY <2>5, <2>6
  <1>8. Positions(v) = {p \in 0 .. len * Bits - 1 : p % Bits \in v[p \div Bits]}
    BY <1>6 DEF Positions
  <1> HIDE DEF v
  <1>9. Positions(v) = {p \in 0 .. len * Bits - 1 : \E j \in J : p = support[j]}
    BY <1>7, <1>8
  <1>10. \A j \in J : support[j] \in 0 .. len * Bits - 1
    OBVIOUS
  <1> QED
    BY <1>9, <1>10 DEF v

LEMMA DistinctRange ==
    ASSUME NEW w \in Nat, NEW S, NEW support \in [0 .. w - 1 -> S], IsInjective(support)
    PROVE  Cardinality(Range(support)) = w
  <1> DEFINE T == Range(support)
  <1>1. support \in Bijection(0 .. w - 1, T)
    BY DEF Bijection, Injection, Surjection, Range
  <1>2. ExistsBijection(0 .. w - 1, T)
    BY <1>1 DEF ExistsBijection
  <1>3. IsFiniteSet(0 .. w - 1) /\ Cardinality(0 .. w - 1) = w
    BY FS_Interval
  <1> QED
    BY <1>2, <1>3, FS_Bijection

(* The vector writeSupport makes of w positions below len words' bits, no  *)
(* two of them the same, has weight w: each is set and nothing else is.    *)
THEOREM DistinctSupportWeight ==
    ASSUME NEW len \in Nat, len * Bits <= Modulus, NEW w \in Nat,
           NEW support \in [0 .. w - 1 -> 0 .. len * Bits - 1], IsInjective(support)
    PROVE  Cardinality(Positions(writeSupport(support, len))) = w
  <1>1. Positions(writeSupport(support, len)) = {support[j] : j \in 0 .. w - 1}
    BY SupportIsWritten
  <1>2. {support[j] : j \in 0 .. w - 1} = Range(support)
    BY DEF Range
  <1> QED
    BY <1>1, <1>2, DistinctRange

(* The result is an array of words.                                        *)
LEMMA SupportArrayType ==
    ASSUME NEW len \in Nat, NEW support
    PROVE  writeSupport(support, len) \in WordArrays(len)
  <1>1. \A pos : singleBitMask(pos) \in SUBSET (0 .. Bits - 1)
    BY DEF singleBitMask
  <1> QED
    BY <1>1 DEF writeSupport, WordArrays, Array

=============================================================================
