------------------------ MODULE SamplerKeygenProofs -------------------------
(***************************************************************************)
(* sampler1 returns a vector of exactly the requested weight for every     *)
(* ring dimension, weight and word width, whatever candidates are drawn.   *)
(***************************************************************************)
EXTENDS SamplerKeygen, VectorsProofs

IInv ==
    /\ TypeOK
    /\ \A j, k \in Index : j < i /\ k < i /\ support[j] = support[k] => j = k
    /\ stage = "done" => i = weight /\ v = writeSupport(support, vecNSize64)

LEMMA Sizes ==
    /\ n \in Nat /\ weight \in Nat /\ n > 0 /\ weight > 0 /\ weight <= n
    /\ vecNSize64 \in Nat
    /\ n <= vecNSize64 * Bits
    /\ vecNSize64 * Bits \in Nat
    /\ vecNSize64 * Bits <= Modulus
  <1>1. vecNSize64 \in Nat /\ n <= vecNSize64 * Bits
    BY SizeAssumption, BitsType, CeilingCovers DEF vecNSize64
  <1> QED
    BY <1>1, SizeAssumption, BitsType, ProductNat

LEMMA ReducedRange ==
    ASSUME NEW c \in Candidate
    PROVE  barrettReduceN(c, nMu, n) \in 0 .. n - 1
  <1>1. c \in Word /\ c \in Nat
    BY SizeAssumption, ModulusAssumption DEF Candidate, Word
  <1>2. barrettReduceN(c, nMu, n) = c % n
    BY <1>1, Sizes, SizeAssumption, BarrettIsModulo DEF nMu
  <1>3. c % n \in 0 .. n - 1
    BY <1>1, Sizes, QuotientRemainder
  <1> QED
    BY <1>2, <1>3

LEMMA Initially == Init => IInv
  <1> SUFFICES ASSUME Init PROVE IInv
    OBVIOUS
  <1>1. support \in [Index -> 0 .. n - 1]
    BY Sizes DEF Init
  <1>2. v \in WordArrays(vecNSize64)
    BY DEF Init, WordArrays, Array
  <1> QED
    BY <1>1, <1>2, Sizes DEF Init, IInv, TypeOK, Index

LEMMA AcceptStep ==
    ASSUME IInv, NEW c \in Candidate, Accept(c)
    PROVE  IInv'
  <1> DEFINE p == barrettReduceN(c, nMu, n)
  <1>1. p \in 0 .. n - 1
    BY ReducedRange
  <1>2. /\ stage = "draw" /\ i < weight /\ ~duplicate(p)
        /\ support' = [support EXCEPT ![i] = p]
        /\ i' = i + 1 /\ stage' = stage /\ v' = v
    BY DEF Accept
  <1> HIDE DEF p
  <1>3. i \in Index /\ i' \in 0 .. weight
    BY <1>2, Sizes DEF IInv, TypeOK, Index
  <1>4. support' \in [Index -> 0 .. n - 1]
    BY <1>1, <1>2 DEF IInv, TypeOK
  <1>5. ASSUME NEW j \in Index, j < i
        PROVE  support'[j] = support[j] /\ support[j] # p
    <2>1. j # i
      BY <1>3, <1>5 DEF Index
    <2> QED
      BY <1>2, <1>5, <2>1 DEF IInv, TypeOK, duplicate
  <1>6. support'[i] = p
    BY <1>2, <1>3 DEF IInv, TypeOK
  <1>7. \A j, k \in Index : j < i' /\ k < i' /\ support'[j] = support'[k] => j = k
    <2> SUFFICES ASSUME NEW j \in Index, NEW k \in Index, j < i + 1, k < i + 1,
                        support'[j] = support'[k]
                 PROVE  j = k
      BY <1>2
    <2>1. CASE j < i /\ k < i
      BY <1>5, <2>1 DEF IInv
    <2>2. CASE j = i \/ k = i
      BY <1>3, <1>5, <1>6, <2>2 DEF Index
    <2> QED
      BY <1>3, <2>1, <2>2 DEF Index
  <1> QED
    BY <1>2, <1>3, <1>4, <1>7 DEF IInv, TypeOK

LEMMA WriteStep ==
    ASSUME IInv, Write
    PROVE  IInv'
  <1>1. writeSupport(support, vecNSize64) \in WordArrays(vecNSize64)
    BY Sizes, SupportArrayType
  <1> QED
    BY <1>1 DEF Write, IInv, TypeOK

LEMMA Inductive == IInv /\ [Next]_vars => IInv'
  <1>1. ASSUME IInv, UNCHANGED vars PROVE IInv'
    BY <1>1 DEF IInv, vars, TypeOK
  <1> QED
    BY <1>1, AcceptStep, WriteStep DEF Next, Drop

LEMMA Always == Spec => []IInv
  BY Initially, Inductive, PTL DEF Spec

(* Every accepted position is below n, however the Barrett reduction of    *)
(* its candidate went.                                                     *)
THEOREM TypeCorrect == Spec => []TypeOK
  <1>1. IInv => TypeOK
    BY DEF IInv
  <1> QED
    BY <1>1, Always, PTL

(* The secret vectors x and y have exactly weight omega.                   *)
THEOREM WeightIsExact == Spec => []WeightExact
  <1>1. IInv => WeightExact
    <2> SUFFICES ASSUME IInv, stage = "done"
                 PROVE  /\ Cardinality(Positions(v)) = weight
                        /\ Positions(v) \subseteq 0 .. n - 1
      BY DEF WeightExact
    <2>1. support \in [Index -> 0 .. n - 1]
      BY DEF IInv, TypeOK
    <2>2. support \in [Index -> 0 .. vecNSize64 * Bits - 1]
      BY <2>1, Sizes
    <2>3. Positions(v) = {support[j] : j \in Index}
      BY <2>2, Sizes, SupportIsWritten DEF IInv
    <2>4. support \in [0 .. weight - 1 -> 0 .. n - 1] /\ IsInjective(support)
      BY <2>1, Sizes DEF IInv, Index, IsInjective
    <2>5. support \in [0 .. weight - 1 -> 0 .. vecNSize64 * Bits - 1]
      BY <2>2, Sizes DEF Index
    <2>6. Cardinality(Positions(v)) = weight
      BY <2>4, <2>5, Sizes, DistinctSupportWeight DEF IInv
    <2> QED
      BY <2>1, <2>3, <2>6
  <1> QED
    BY <1>1, Always, PTL

-----------------------------------------------------------------------------
(* Below k * d every residue modulo d occurs k times.                      *)
Residues(d, k, p) == {c \in 0 .. k * d - 1 : c % d = p}

LEMMA ResiduesCounted ==
    ASSUME NEW d \in Nat, d > 0, NEW k \in Nat, NEW p \in 0 .. d - 1
    PROVE  Cardinality(Residues(d, k, p)) = k
  <1> DEFINE T == Residues(d, k, p)
             f == [m \in 0 .. k - 1 |-> m * d + p]
  <1>1. k * d \in Nat
    BY ProductNat
  <1>2. ASSUME NEW m \in 0 .. k - 1
        PROVE  m * d + p \in T
    <2>1. m * d \in Nat /\ m * d + p \in Nat
      BY ProductNat
    <2>2. (m + 1) * d <= k * d /\ (m + 1) * d = m * d + d
      BY ProductGrows
    <2>3. (m * d + p) % d = p
      BY RemainderUnique
    <2> QED
      BY <1>1, <2>1, <2>2, <2>3 DEF Residues
  <1>3. ASSUME NEW c \in T
        PROVE  \E m \in 0 .. k - 1 : c = m * d + p
    <2>1. c \in Nat /\ c < k * d /\ c % d = p
      BY <1>1 DEF Residues
    <2>2. c \div d \in Nat /\ c \div d < k /\ c = (c \div d) * d + p
      BY <2>1, QuotientBelow, QuotientRemainder
    <2>3. c \div d \in 0 .. k - 1
      BY <2>2
    <2> QED
      BY <2>2, <2>3
  <1>4. ASSUME NEW a \in 0 .. k - 1, NEW b \in 0 .. k - 1, a * d + p = b * d + p
        PROVE  a = b
    <2>1. a * d = b * d /\ a * d \in Nat /\ b * d \in Nat
      BY <1>4, ProductNat
    <2>2. ~(a < b)
      <3>1. a < b => (a + 1) * d <= b * d /\ (a + 1) * d = a * d + d
        BY ProductGrows
      <3> QED
        BY <2>1, <3>1
    <2>3. ~(b < a)
      <3>1. b < a => (b + 1) * d <= a * d /\ (b + 1) * d = b * d + d
        BY ProductGrows
      <3> QED
        BY <2>1, <3>1
    <2> QED
      BY <2>2, <2>3
  <1> HIDE DEF T
  <1>5. f \in Bijection(0 .. k - 1, T)
    BY <1>2, <1>3, <1>4 DEF Bijection, Injection, Surjection, IsInjective
  <1>6. ExistsBijection(0 .. k - 1, T)
    BY <1>5 DEF ExistsBijection
  <1>7. IsFiniteSet(0 .. k - 1) /\ Cardinality(0 .. k - 1) = k
    BY FS_Interval
  <1>8. Cardinality(T) = k
    BY <1>6, <1>7, FS_Bijection
  <1> QED
    BY <1>8 DEF T

(* The rejection threshold makes the sampler unbiased: at every draw, each *)
(* free position is the outcome of exactly floor(2^24 / n) candidates.     *)
THEOREM PositionsEquallyLikely == Spec => []EqualChances
  <1> DEFINE k == Candidates \div n
  <1>1. ASSUME NEW p \in 0 .. n - 1
        PROVE  outcomes(p) = k
    <2>1. k \in Nat /\ k * n <= Candidates /\ k * n \in Nat
      BY Sizes, SizeAssumption, ModulusAssumption, DivisionBounds, ProductNat
    <2>2. rejectionThreshold = k * n
      BY DEF rejectionThreshold
    <2> HIDE DEF k
    <2>3. \A c \in Candidate : barrettReduceN(c, nMu, n) = c % n
      BY Sizes, SizeAssumption, ModulusAssumption, BarrettIsModulo DEF nMu, Candidate, Word
    <2>4. Candidates \in Nat
      BY SizeAssumption, ModulusAssumption
    <2>5. {c \in Candidate : c < rejectionThreshold /\ barrettReduceN(c, nMu, n) = p}
              = Residues(n, k, p)
      BY <2>1, <2>2, <2>3, <2>4 DEF Candidate, Residues
    <2> QED
      BY <2>1, <2>5, Sizes, ResiduesCounted DEF outcomes
  <1>2. EqualChances
    BY <1>1 DEF EqualChances
  <1> QED
    BY <1>2, PTL

=============================================================================
