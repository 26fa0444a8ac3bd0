------------------------ MODULE SamplerEncryptProofs ------------------------
(***************************************************************************)
(* sampler2 returns a vector of exactly the requested weight for every     *)
(* ring dimension, weight and word width, whatever the random words are,   *)
(* and if its draws are uniform in their ranges then so is the vector.     *)
(***************************************************************************)
EXTENDS SamplerEncrypt, VectorsProofs, WellFoundedInduction

\* Position j is never drawn below j, so an index that the scan has passed is free.
InPlace(j) == support[j] \in j .. n - 1

IInv ==
    /\ TypeOK
    /\ stage = "draw" => i >= 0 /\ \A j \in Index : j < i => InPlace(j)
    /\ stage # "draw" =>
          /\ i <= weight - 2
          /\ \A j \in Index : InPlace(j)
          /\ \A j, k \in Index : j > i /\ k > i /\ support[j] = support[k] => j = k
    /\ stage = "done" => i = -1 /\ v = writeSupport(support, vecNSize64)

LEMMA Sizes ==
    /\ n \in Nat /\ weight \in Nat /\ weight > 0 /\ weight <= n
    /\ vecNSize64 \in Nat
    /\ n <= vecNSize64 * Bits
    /\ vecNSize64 * Bits \in Nat
    /\ vecNSize64 * Bits <= Modulus
  <1>1. vecNSize64 \in Nat /\ n <= vecNSize64 * Bits
    BY SizeAssumption, BitsType, CeilingCovers DEF vecNSize64
  <1> QED
    BY <1>1, SizeAssumption, BitsType, ProductNat

\* floor(buff * (n - k) / 2^32) is below n - k.
LEMMA PositionRange ==
    ASSUME NEW k \in Index, NEW buff \in Word
    PROVE  position(k, buff) \in k .. n - 1
  <1> DEFINE d == n - k
             q == (buff * d) \div Modulus
  <1>1. k \in Nat /\ d \in Nat /\ d > 0 /\ buff \in Nat /\ buff < Modulus
    BY Sizes, ModulusAssumption DEF Index, Word
  <1>2. Modulus \in Nat /\ Modulus > 0
    BY ModulusAssumption
  <1>3. position(k, buff) = k + q
    BY DEF position
  <1> HIDE DEF d
  <1>4. buff * d \in Nat /\ buff * d < Modulus * d
    BY <1>1, <1>2, ProductNat
  <1>5. q \in Nat /\ q * Modulus <= buff * d
    BY <1>2, <1>4, DivisionBounds
  <1> HIDE DEF q
  <1>6. q * Modulus < d * Modulus
    BY <1>1, <1>2, <1>4, <1>5, ProductNat
  <1>7. q < d
    BY <1>1, <1>2, <1>5, <1>6, ProductCancels
  <1> QED
    BY <1>1, <1>3, <1>5, <1>7, Sizes DEF d

\* What the constant-time scan computes.
LEMMA FoundIsRepeated ==
    ASSUME NEW s \in [Index -> 0 .. n - 1], NEW k \in Index
    PROVE  found(s, k) <=> \E j \in Index : j > k /\ s[j] = s[k]
  <1>1. n <= Modulus
    BY Sizes, ModulusAssumption
  <1>2. \A j \in Index : s[j] \in Word
    BY <1>1, Sizes, ModulusAssumption DEF Word
  <1>3. \A j \in Index : compareU32(s[j], s[k]) = 1 <=> s[j] = s[k]
    BY <1>2, CompareIsEquality
  <1>4. \A j : j \in k + 1 .. weight - 1 <=> j \in Index /\ j > k
    BY Sizes DEF Index
  <1> QED
    BY <1>3, <1>4 DEF found

LEMMA Initially == Init => IInv
  <1> SUFFICES ASSUME Init PROVE IInv
    OBVIOUS
  <1>1. support \in [Index -> 0 .. n - 1]
    BY Sizes DEF Init
  <1>2. v \in WordArrays(vecNSize64)
    BY DEF Init, WordArrays, Array
  <1> QED
    BY <1>1, <1>2, Sizes DEF Init, IInv, TypeOK, Index

LEMMA DrawStep ==
    ASSUME IInv, NEW buff \in Word, Draw(buff)
    PROVE  IInv'
  <1>1. i \in Index /\ stage = "draw"
    BY Sizes DEF IInv, TypeOK, Draw, Index
  <1>2. position(i, buff) \in i .. n - 1
    BY <1>1, PositionRange
  <1>3. support' = [support EXCEPT ![i] = position(i, buff)] /\ v' = v
    BY DEF Draw
  <1>4. support' \in [Index -> 0 .. n - 1]
    BY <1>1, <1>2, <1>3, Sizes DEF IInv, TypeOK, Index
  <1>5. \A j \in Index : j <= i => InPlace(j)'
    BY <1>1, <1>2, <1>3 DEF IInv, TypeOK, InPlace, Index
  <1>6. CASE i < weight - 1
    BY <1>1, <1>3, <1>4, <1>5, <1>6, Sizes DEF Draw, IInv, TypeOK, Index
  <1>7. CASE ~(i < weight - 1)
    <2>1. i = weight - 1 /\ i' = weight - 2 /\ stage' = "resolve"
      BY <1>1, <1>7, Sizes DEF Draw, Index
    <2>2. \A j \in Index : InPlace(j)'
      BY <1>5, <2>1, Sizes DEF Index
    <2>3. \A j, k \in Index : j > i' /\ k > i' => j = k
      BY <2>1, Sizes DEF Index
    <2>4. TypeOK'
      BY <1>3, <1>4, <2>1, Sizes DEF IInv, TypeOK
    <2> QED
      BY <2>1, <2>2, <2>3, <2>4 DEF IInv
  <1> QED
    BY <1>6, <1>7

LEMMA ResolveStep ==
    ASSUME IInv, Resolve
    PROVE  IInv'
  <1>1. i \in Index /\ stage = "resolve" /\ i' = i - 1 /\ stage' = stage /\ v' = v
    BY Sizes DEF IInv, TypeOK, Resolve, Index
  <1>2. support' = [support EXCEPT ![i] = IF found(support, i) THEN i ELSE support[i]]
    BY DEF Resolve, resolved
  <1>3. support \in [Index -> 0 .. n - 1]
    BY DEF IInv, TypeOK
  <1>4. i \in 0 .. n - 1
    BY <1>1, Sizes DEF Index
  <1>5. support' \in [Index -> 0 .. n - 1]
    BY <1>2, <1>3, <1>4
  <1>6. \A j \in Index : InPlace(j)'
    BY <1>1, <1>2, <1>3, <1>4 DEF IInv, InPlace
  <1>7. ASSUME NEW j \in Index, j > i
        PROVE  support'[j] = support[j] /\ support[j] > i /\ support'[i] # support[j]
    <2>1. support'[j] = support[j]
      <3>1. j # i
        BY <1>1, <1>7 DEF Index
      <3> QED
        BY <3>1, <1>2, <1>3
    <2>2. support[j] > i
      BY <1>1, <1>3, <1>7 DEF IInv, InPlace, Index
    <2>3. CASE found(support, i)
      BY <1>1, <1>2, <1>3, <2>1, <2>2, <2>3 DEF Index
    <2>4. CASE ~found(support, i)
      BY <1>1, <1>2, <1>3, <1>7, <2>1, <2>2, <2>4, FoundIsRepeated
    <2> QED
      BY <2>1, <2>2, <2>3, <2>4
  <1>8. \A j, k \in Index : j > i' /\ k > i' /\ support'[j] = support'[k] => j = k
    <2> SUFFICES ASSUME NEW j \in Index, NEW k \in Index, j > i - 1, k > i - 1,
                        support'[j] = support'[k]
                 PROVE  j = k
      BY <1>1
    <2>1. CASE j > i /\ k > i
      BY <1>1, <1>7, <2>1 DEF IInv
    <2>2. CASE j = i \/ k = i
      BY <1>1, <1>7, <2>2 DEF Index
    <2> QED
      BY <1>1, <2>1, <2>2 DEF Index
  <1> QED
    BY <1>1, <1>5, <1>6, <1>8, Sizes DEF IInv, TypeOK, Index

LEMMA WriteStep ==
    ASSUME IInv, Write
    PROVE  IInv'
  <1>1. writeSupport(support, vecNSize64) \in WordArrays(vecNSize64)
    BY Sizes, SupportArrayType
  <1> QED
    BY <1>1 DEF Write, IInv, TypeOK, InPlace

LEMMA Inductive == IInv /\ [Next]_vars => IInv'
  <1>1. ASSUME IInv, UNCHANGED vars PROVE IInv'
    BY <1>1 DEF IInv, vars, TypeOK, InPlace
  <1> QED
    BY <1>1, DrawStep, ResolveStep, WriteStep DEF Next

LEMMA Always == Spec => []IInv
  BY Initially, Inductive, PTL DEF Spec

\* Every loop variable stays in its range and every position below n.
THEOREM TypeCorrect == Spec => []TypeOK
  <1>1. IInv => TypeOK
    BY DEF IInv
  <1> QED
    BY <1>1, Always, PTL

\* r1, r2 and e have exactly the weight the scheme prescribes.
THEOREM WeightIsExact == Spec => []WeightExact
  <1>1. IInv => WeightExact
    <2> SUFFICES ASSUME IInv, stage = "done"
                 PROVE  /\ Cardinality(Positions(v)) = weight
                        /\ Positions(v) \subseteq 0 .. n - 1
      BY DEF WeightExact
    <2>1. support \in [Index -> 0 .. n - 1]
      BY DEF IInv, TypeOK
    <2>2. support \in [Index -> 0 .. vecNSize64 * Bits - 1]
      BY <2>1, Sizes
    <2>3. Positions(v) = {support[j] : j \in Index}
      BY <2>2, Sizes, SupportIsWritten DEF IInv
    <2>4. support \in [0 .. weight - 1 -> 0 .. n - 1] /\ IsInjective(support)
      BY <2>1, Sizes DEF IInv, Index, IsInjective
    <2>5. support \in [0 .. weight - 1 -> 0 .. vecNSize64 * Bits - 1]
      BY <2>2, Sizes DEF Index
    <2>6. Cardinality(Positions(v)) = weight
      BY <2>4, <2>5, Sizes, DistinctSupportWeight DEF IInv
    <2> QED
      BY <2>1, <2>3, <2>6
  <1> QED
    BY <1>1, Always, PTL

-----------------------------------------------------------------------------
(* Induction.                                                              *)

\* A set that holds 0 and each successor holds every natural number.
LEMMA EveryNatural ==
    ASSUME NEW S, 0 \in S, \A k \in Nat : k \in S => k + 1 \in S
    PROVE  Nat \subseteq S
  <1> DEFINE T == Nat \ S
             R == OpToRel(<, Nat)
  <1> SUFFICES ASSUME T # {} PROVE FALSE
    OBVIOUS
  <1>1. IsWellFoundedOn(R, Nat) /\ \A k \in Nat : k # 0 => <<k - 1, k>> \in R
    BY NatLessThanWellFounded DEF OpToRel
  <1> HIDE DEF R
  <1>2. PICK k \in T : \A m \in T : <<m, k>> \notin R
    BY <1>1, WFMin
  <1>3. k \in Nat /\ k # 0 /\ k - 1 \in Nat
    BY <1>2
  <1>4. <<k - 1, k>> \in R
    BY <1>1, <1>3
  <1>5. k - 1 \in S
    BY <1>2, <1>3, <1>4
  <1> QED
    BY <1>2, <1>3, <1>5

-----------------------------------------------------------------------------
(* The factorial.                                                          *)

factorialStep(f, k) == IF k = 0 THEN 1 ELSE k * f[k - 1]

\* The tables of the factorial up to m.
FactorialTables(m) == {f \in [0 .. m -> Nat] : \A k \in 0 .. m : f[k] = factorialStep(f, k)}

LEMMA TablesExist ==
    ASSUME NEW m \in Nat
    PROVE  FactorialTables(m) # {}
  <1> DEFINE S == {k \in Nat : FactorialTables(k) # {}}
  <1>1. 0 \in S
    <2> DEFINE f == [k \in 0 .. 0 |-> 1]
    <2>1. f \in FactorialTables(0)
      BY DEF FactorialTables, factorialStep
    <2> QED
      BY <2>1
  <1>2. ASSUME NEW k \in Nat, k \in S PROVE k + 1 \in S
    <2>1. PICK f : f \in FactorialTables(k)
      BY <1>2
    <2> DEFINE g == [j \in 0 .. k + 1 |-> IF j = k + 1 THEN (k + 1) * f[k] ELSE f[j]]
    <2>2. f \in [0 .. k -> Nat] /\ \A j \in 0 .. k : f[j] = factorialStep(f, j)
      BY <2>1 DEF FactorialTables
    <2>3. (k + 1) * f[k] \in Nat
      BY <2>2, ProductNat
    <2>4. g \in [0 .. k + 1 -> Nat]
      BY <2>2, <2>3
    <2>5. ASSUME NEW j \in 0 .. k + 1 PROVE g[j] = factorialStep(g, j)
      <3>1. CASE j = k + 1
        BY <3>1 DEF factorialStep
      <3>2. CASE j # k + 1
        <4>1. g[j] = f[j] /\ f[j] = factorialStep(f, j)
          BY <2>2, <3>2
        <4>2. j # 0 => g[j - 1] = f[j - 1]
          BY <3>2
        <4> QED
          BY <4>1, <4>2 DEF factorialStep
      <3> QED
        BY <3>1, <3>2
    <2> HIDE DEF g
    <2>6. g \in FactorialTables(k + 1)
      BY <2>4, <2>5 DEF FactorialTables
    <2> QED
      BY <2>6
  <1> HIDE DEF S
  <1>3. Nat \subseteq S
    BY <1>1, <1>2, EveryNatural
  <1> QED
    BY <1>3 DEF S

LEMMA TablesAgree ==
    ASSUME NEW m \in Nat, NEW l \in Nat, NEW f \in FactorialTables(m),
           NEW g \in FactorialTables(l), NEW k \in Nat, k <= m, k <= l
    PROVE  f[k] = g[k]
  <1> DEFINE S == {j \in Nat : j <= m /\ j <= l => f[j] = g[j]}
  <1>0. /\ \A j \in 0 .. m : f[j] = factorialStep(f, j)
        /\ \A j \in 0 .. l : g[j] = factorialStep(g, j)
    BY DEF FactorialTables
  <1>1. 0 \in S
    BY <1>0 DEF factorialStep
  <1>2. ASSUME NEW j \in Nat, j \in S PROVE j + 1 \in S
    <2> SUFFICES ASSUME j + 1 <= m, j + 1 <= l PROVE f[j + 1] = g[j + 1]
      OBVIOUS
    <2>1. f[j] = g[j]
      BY <1>2
    <2>2. f[j + 1] = factorialStep(f, j + 1) /\ g[j + 1] = factorialStep(g, j + 1)
      BY <1>0
    <2>3. (j + 1) - 1 = j /\ j + 1 # 0
      OBVIOUS
    <2> QED
      BY <2>1, <2>2, <2>3 DEF factorialStep
  <1> HIDE DEF S
  <1>3. Nat \subseteq S
    BY <1>1, <1>2, EveryNatural
  <1> QED
    BY <1>3 DEF S

LEMMA FactorialOf ==
    ASSUME NEW m \in Nat
    PROVE  /\ Factorial[m] \in Nat
           /\ Factorial[0] = 1
           /\ Factorial[m + 1] = (m + 1) * Factorial[m]
  <1> DEFINE table(k) == CHOOSE f : f \in FactorialTables(k)
             h == [k \in Nat |-> table(k)[k]]
  <1>1. \A k \in Nat : table(k) \in FactorialTables(k)
    BY TablesExist
  <1> HIDE DEF table
  <1>2. ASSUME NEW k \in Nat PROVE h[k] \in Nat /\ h[k] = factorialStep(h, k)
    <2>1. table(k) \in [0 .. k -> Nat] /\ table(k)[k] = factorialStep(table(k), k)
      BY <1>1 DEF FactorialTables
    <2>2. k # 0 => table(k)[k - 1] = table(k - 1)[k - 1]
      <3> SUFFICES ASSUME k # 0 PROVE table(k)[k - 1] = table(k - 1)[k - 1]
        OBVIOUS
      <3>1. k - 1 \in Nat /\ k - 1 <= k
        OBVIOUS
      <3>2. table(k) \in FactorialTables(k) /\ table(k - 1) \in FactorialTables(k - 1)
        BY <1>1, <3>1
      <3> QED
        BY <3>1, <3>2, TablesAgree
    <2> QED
      BY <2>1, <2>2 DEF factorialStep
  <1> HIDE DEF h
  <1>3. h = [k \in Nat |-> factorialStep(h, k)]
    <2>1. h = [k \in Nat |-> h[k]]
      BY DEF h
    <2> QED
      BY <1>2, <2>1
  <1>4. Factorial = [k \in Nat |-> factorialStep(Factorial, k)]
    <2>1. Factorial = CHOOSE f : f = [k \in Nat |-> factorialStep(f, k)]
      BY DEF Factorial, factorialStep
    <2> QED
      BY <1>3, <2>1
  <1>5. \A k \in Nat : Factorial[k] = factorialStep(Factorial, k)
    BY <1>4
  <1>6. \A k \in Nat : Factorial[k + 1] = (k + 1) * Factorial[k]
    <2> SUFFICES ASSUME NEW k \in Nat PROVE Factorial[k + 1] = (k + 1) * Factorial[k]
      OBVIOUS
    <2>1. k + 1 \in Nat /\ k + 1 # 0 /\ (k + 1) - 1 = k
      OBVIOUS
    <2> QED
      BY <1>5, <2>1 DEF factorialStep
  <1>7. Factorial[0] = 1
    BY <1>5 DEF factorialStep
  <1> DEFINE S == {k \in Nat : Factorial[k] \in Nat}
  <1>8. 0 \in S /\ \A k \in Nat : k \in S => k + 1 \in S
    BY <1>6, <1>7, ProductNat
  <1> HIDE DEF S
  <1>9. Nat \subseteq S
    BY <1>8, EveryNatural
  <1> QED
    BY <1>6, <1>7, <1>9 DEF S

-----------------------------------------------------------------------------
(* Counting.                                                               *)

\* f splits S into parts of c elements, one for each element of T.
Part(S, f, t) == {x \in S : f[x] = t}

Splits(S, T, f, c) ==
    /\ f \in [S -> T]
    /\ \A t \in T : IsFiniteSet(Part(S, f, t)) /\ Cardinality(Part(S, f, t)) = c

LEMMA EqualParts ==
    ASSUME NEW S, NEW T, NEW f, NEW c \in Nat, IsFiniteSet(T), Splits(S, T, f, c)
    PROVE  IsFiniteSet(S) /\ Cardinality(S) = Cardinality(T) * c
  <1> DEFINE part(t) == Part(S, f, t)
             numbering(t) == CHOOSE b : b \in Bijection(1 .. c, part(t))
             whole == [y \in T \X (1 .. c) |-> numbering(y[1])[y[2]]]
  <1>0. /\ f \in [S -> T]
        /\ \A t \in T : IsFiniteSet(Part(S, f, t)) /\ Cardinality(Part(S, f, t)) = c
    BY DEF Splits
  <1>1. ASSUME NEW t \in T PROVE numbering(t) \in Bijection(1 .. c, part(t))
    <2>1. IsFiniteSet(part(t)) /\ Cardinality(part(t)) = c
      BY <1>0
    <2>2. ExistsBijection(1 .. c, part(t))
      BY <2>1, FS_CardinalityType
    <2> QED
      BY <2>2 DEF ExistsBijection
  <1> HIDE DEF numbering
  <1>2. ASSUME NEW t \in T, NEW k \in 1 .. c
        PROVE  numbering(t)[k] \in S /\ f[numbering(t)[k]] = t
    BY <1>1 DEF Bijection, Injection, Part
  <1>3. whole \in [T \X (1 .. c) -> S]
    BY <1>2
  <1>4. ASSUME NEW y \in T \X (1 .. c), NEW z \in T \X (1 .. c), whole[y] = whole[z]
        PROVE  y = z
    <2>1. y[1] = z[1]
      BY <1>2, <1>4
    <2>2. y[2] = z[2]
      <3>1. numbering(y[1]) \in Injection(1 .. c, part(y[1]))
        BY <1>1 DEF Bijection
      <3>2. numbering(y[1])[y[2]] = numbering(y[1])[z[2]]
        BY <1>4, <2>1
      <3> QED
        BY <3>1, <3>2 DEF Injection, IsInjective
    <2> QED
      BY <2>1, <2>2
  <1>5. ASSUME NEW x \in S PROVE \E y \in T \X (1 .. c) : whole[y] = x
    <2>1. f[x] \in T /\ x \in part(f[x])
      BY <1>0 DEF Part
    <2>2. numbering(f[x]) \in Surjection(1 .. c, part(f[x]))
      BY <1>1, <2>1 DEF Bijection
    <2>3. PICK k \in 1 .. c : numbering(f[x])[k] = x
      BY <2>1, <2>2 DEF Surjection
    <2>4. <<f[x], k>> \in T \X (1 .. c) /\ whole[<<f[x], k>>] = x
      BY <2>1, <2>3
    <2> QED
      BY <2>4
  <1> HIDE DEF whole
  <1>6. whole \in Bijection(T \X (1 .. c), S)
    BY <1>3, <1>4, <1>5 DEF Bijection, Injection, Surjection, IsInjective
  <1>7. IsFiniteSet(1 .. c) /\ Cardinality(1 .. c) = c
    BY FS_Interval
  <1>8. IsFiniteSet(T \X (1 .. c)) /\ Cardinality(T \X (1 .. c)) = Cardinality(T) * c
    BY <1>7, FS_Product
  <1> QED
    BY <1>6, <1>8, FS_Bijection DEF ExistsBijection

-----------------------------------------------------------------------------
(* The draws from index k on, and what the scan makes of them.             *)

From(k) == k .. weight - 1

DrawsFrom(k) == {d \in [From(k) -> 0 .. n - 1] : \A j \in From(k) : d[j] >= j}

ImageFrom(s, k) == {s[j] : j \in From(k)}

ResolvedFrom(s, d, k) ==
    /\ s \in [From(k) -> 0 .. n - 1]
    /\ \A j \in From(k) : s[j] = IF d[j] \in ImageFrom(s, j + 1) THEN j ELSE d[j]

\* The draws that lead to the positions A.
LeadingTo(A, k) == {d \in DrawsFrom(k) : \E s : ResolvedFrom(s, d, k) /\ ImageFrom(s, k) = A}

WithoutFirst(s, k) == [j \in From(k + 1) |-> s[j]]

WithFirst(a, s, k) == [j \in From(k) |-> IF j = k THEN a ELSE s[j]]

LEMMA FromFacts ==
    ASSUME NEW k \in Index
    PROVE  /\ k \in Nat /\ k \in From(k) /\ From(k + 1) = From(k) \ {k}
           /\ \A j \in From(k) : j \in Index /\ j >= k /\ j \in 0 .. n - 1
           /\ \A j \in From(k + 1) : j \in From(k) /\ j > k /\ From(j + 1) \subseteq From(k + 1)
           /\ From(k + 1) \subseteq From(k)
  BY Sizes DEF From, Index

LEMMA ImageOfFirst ==
    ASSUME NEW k \in Index, NEW s
    PROVE  ImageFrom(s, k) = ImageFrom(s, k + 1) \cup {s[k]}
  <1>1. From(k) = From(k + 1) \cup {k}
    BY FromFacts
  <1> QED
    BY <1>1 DEF ImageFrom

LEMMA ImageSame ==
    ASSUME NEW k, NEW s, NEW r, \A j \in From(k) : s[j] = r[j]
    PROVE  ImageFrom(s, k) = ImageFrom(r, k)
  BY DEF ImageFrom

\* The first draw, taken off.
LEMMA FirstTakenOff ==
    ASSUME NEW k \in Index, NEW d \in DrawsFrom(k), NEW s, ResolvedFrom(s, d, k)
    PROVE  /\ WithoutFirst(d, k) \in DrawsFrom(k + 1)
           /\ ResolvedFrom(WithoutFirst(s, k), WithoutFirst(d, k), k + 1)
           /\ ImageFrom(WithoutFirst(s, k), k + 1) = ImageFrom(s, k + 1)
           /\ k \notin ImageFrom(s, k + 1)
  <1> DEFINE d1 == WithoutFirst(d, k)
             s1 == WithoutFirst(s, k)
  <1>1. \A j \in From(k + 1) : d1[j] = d[j] /\ s1[j] = s[j]
    BY DEF WithoutFirst
  <1>2. d1 \in DrawsFrom(k + 1)
    BY FromFacts DEF WithoutFirst, DrawsFrom
  <1>3. s1 \in [From(k + 1) -> 0 .. n - 1]
    BY FromFacts DEF WithoutFirst, ResolvedFrom
  <1> HIDE DEF d1, s1
  <1>4. ASSUME NEW j \in From(k + 1)
        PROVE  s1[j] = IF d1[j] \in ImageFrom(s1, j + 1) THEN j ELSE d1[j]
    <2>1. ImageFrom(s1, j + 1) = ImageFrom(s, j + 1)
      <3>1. \A l \in From(j + 1) : s1[l] = s[l]
        BY <1>1, FromFacts
      <3> QED
        BY <3>1, ImageSame
    <2> QED
      BY <1>1, <2>1, FromFacts DEF ResolvedFrom
  <1>5. ImageFrom(s1, k + 1) = ImageFrom(s, k + 1)
    BY <1>1, ImageSame
  <1>6. \A j \in From(k + 1) : s[j] # k
    <2> SUFFICES ASSUME NEW j \in From(k + 1) PROVE s[j] # k
      OBVIOUS
    <2>1. j \in From(k) /\ j > k /\ j \in Nat /\ k \in Nat
      BY FromFacts DEF Index
    <2>2. d[j] >= j /\ d[j] \in Nat /\ (s[j] = j \/ s[j] = d[j])
      BY <2>1 DEF DrawsFrom, ResolvedFrom
    <2> QED
      BY <2>1, <2>2
  <1> QED
    BY <1>2, <1>3, <1>4, <1>5, <1>6 DEF d1, s1, ResolvedFrom, ImageFrom

\* A first draw, put in front.
LEMMA FirstPutOn ==
    ASSUME NEW k \in Index, NEW d \in DrawsFrom(k + 1), NEW s, ResolvedFrom(s, d, k + 1),
           NEW a \in k .. n - 1, NEW b \in k .. n - 1,
           b = IF a \in ImageFrom(s, k + 1) THEN k ELSE a
    PROVE  /\ WithFirst(a, d, k) \in DrawsFrom(k)
           /\ ResolvedFrom(WithFirst(b, s, k), WithFirst(a, d, k), k)
           /\ ImageFrom(WithFirst(b, s, k), k) = ImageFrom(s, k + 1) \cup {b}
  <1> DEFINE d1 == WithFirst(a, d, k)
             s1 == WithFirst(b, s, k)
  <1>1. /\ \A j \in From(k + 1) : d1[j] = d[j] /\ s1[j] = s[j]
        /\ d1[k] = a /\ s1[k] = b
    BY FromFacts DEF WithFirst
  <1>2. d1 \in DrawsFrom(k)
    <2>1. \A j \in From(k) : d1[j] \in 0 .. n - 1 /\ d1[j] >= j
      <3> SUFFICES ASSUME NEW j \in From(k) PROVE d1[j] \in 0 .. n - 1 /\ d1[j] >= j
        OBVIOUS
      <3>1. CASE j = k
        BY <1>1, <3>1, FromFacts, Sizes
      <3>2. CASE j # k
        <4>1. j \in From(k + 1)
          BY <3>2, FromFacts
        <4> QED
          BY <1>1, <4>1 DEF DrawsFrom
      <3> QED
        BY <3>1, <3>2
    <2>2. d1 = [j \in From(k) |-> d1[j]]
      BY DEF WithFirst
    <2> HIDE DEF d1
    <2> QED
      BY <2>1, <2>2 DEF DrawsFrom
  <1>3. s1 \in [From(k) -> 0 .. n - 1]
    <2>1. \A j \in From(k) : s1[j] \in 0 .. n - 1
      <3> SUFFICES ASSUME NEW j \in From(k) PROVE s1[j] \in 0 .. n - 1
        OBVIOUS
      <3>1. CASE j = k
        BY <1>1, <3>1, FromFacts, Sizes
      <3>2. CASE j # k
        <4>1. j \in From(k + 1)
          BY <3>2, FromFacts
        <4> QED
          BY <1>1, <4>1 DEF ResolvedFrom
      <3> QED
        BY <3>1, <3>2
    <2>2. s1 = [j \in From(k) |-> s1[j]]
      BY DEF WithFirst
    <2> HIDE DEF s1
    <2> QED
      BY <2>1, <2>2
  <1> HIDE DEF d1, s1
  <1>4. ImageFrom(s1, k + 1) = ImageFrom(s, k + 1)
    BY <1>1, ImageSame
  <1>5. ASSUME NEW j \in From(k)
        PROVE  s1[j] = IF d1[j] \in ImageFrom(s1, j + 1) THEN j ELSE d1[j]
    <2>1. CASE j = k
      BY <1>1, <1>4, <2>1
    <2>2. CASE j # k
      <3>1. j \in From(k + 1)
        BY <2>2, FromFacts
      <3>2. \A l \in From(j + 1) : s1[l] = s[l]
        BY <1>1, <3>1, FromFacts
      <3>3. ImageFrom(s1, j + 1) = ImageFrom(s, j + 1)
        BY <3>2, ImageSame
      <3> QED
        BY <1>1, <3>1, <3>3 DEF ResolvedFrom
    <2> QED
      BY <2>1, <2>2
  <1>6. ImageFrom(s1, k) = ImageFrom(s, k + 1) \cup {b}
    BY <1>1, <1>4, ImageOfFirst
  <1> QED
    BY <1>2, <1>3, <1>5, <1>6 DEF d1, s1, ResolvedFrom

\* What the draws after the first must lead to, when the first is a and all lead to A.
Rest(A, a, k) == IF k \in A THEN A \ {k} ELSE A \ {a}

LEMMA FirstOfLeading ==
    ASSUME NEW k \in Index, NEW A, NEW d \in LeadingTo(A, k)
    PROVE  d[k] \in A /\ WithoutFirst(d, k) \in LeadingTo(Rest(A, d[k], k), k + 1)
  <1>1. PICK s : ResolvedFrom(s, d, k) /\ ImageFrom(s, k) = A
    BY DEF LeadingTo
  <1>2. d \in DrawsFrom(k)
    BY DEF LeadingTo
  <1> DEFINE B == ImageFrom(s, k + 1)
             t == WithoutFirst(s, k)
             e == WithoutFirst(d, k)
  <1>3. /\ e \in DrawsFrom(k + 1) /\ ResolvedFrom(t, e, k + 1)
        /\ ImageFrom(t, k + 1) = B /\ k \notin B
    BY <1>1, <1>2, FirstTakenOff
  <1>4. A = B \cup {s[k]}
    BY <1>1, ImageOfFirst
  <1>5. s[k] = IF d[k] \in B THEN k ELSE d[k]
    BY <1>1, FromFacts DEF ResolvedFrom
  <1> HIDE DEF B, t, e
  <1>6. d[k] \in A /\ B = Rest(A, d[k], k)
    BY <1>3, <1>4, <1>5 DEF Rest
  <1>7. e \in LeadingTo(B, k + 1)
    BY <1>3 DEF LeadingTo
  <1> QED
    BY <1>6, <1>7 DEF e

LEMMA LeadingFromRest ==
    ASSUME NEW k \in Index, NEW A \in SUBSET (k .. n - 1), NEW a \in A,
           NEW e \in LeadingTo(Rest(A, a, k), k + 1)
    PROVE  WithFirst(a, e, k) \in LeadingTo(A, k)
  <1> DEFINE B == Rest(A, a, k)
  <1>1. PICK t : ResolvedFrom(t, e, k + 1) /\ ImageFrom(t, k + 1) = B
    BY DEF LeadingTo
  <1>2. e \in DrawsFrom(k + 1)
    BY DEF LeadingTo
  <1> DEFINE b == IF a \in B THEN k ELSE a
  <1>3. a \in k .. n - 1 /\ b \in k .. n - 1
    BY FromFacts, Sizes
  <1>4. B \cup {b} = A
    BY DEF Rest
  <1> HIDE DEF b, B
  <1>5. b = IF a \in ImageFrom(t, k + 1) THEN k ELSE a
    BY <1>1 DEF b
  <1>6. /\ WithFirst(a, e, k) \in DrawsFrom(k)
        /\ ResolvedFrom(WithFirst(b, t, k), WithFirst(a, e, k), k)
        /\ ImageFrom(WithFirst(b, t, k), k) = ImageFrom(t, k + 1) \cup {b}
    BY <1>1, <1>2, <1>3, <1>5, FirstPutOn
  <1> QED
    BY <1>1, <1>4, <1>6 DEF LeadingTo

\* The draws that lead to A and begin with a are as many as those that lead to the rest.
LEMMA PartIsRest ==
    ASSUME NEW k \in Index, NEW A \in SUBSET (k .. n - 1), NEW a \in A
    PROVE  ExistsBijection(LeadingTo(Rest(A, a, k), k + 1), {d \in LeadingTo(A, k) : d[k] = a})
  <1> DEFINE S == LeadingTo(Rest(A, a, k), k + 1)
             T == {d \in LeadingTo(A, k) : d[k] = a}
             f == [e \in S |-> WithFirst(a, e, k)]
  <1>0. \A e : WithFirst(a, e, k)[k] = a
    BY FromFacts DEF WithFirst
  <1>1. \A e \in S : WithFirst(a, e, k) \in T
    BY <1>0, LeadingFromRest
  <1>2. ASSUME NEW e \in S PROVE WithoutFirst(WithFirst(a, e, k), k) = e
    <2>1. e = [j \in From(k + 1) |-> e[j]]
      BY DEF LeadingTo, DrawsFrom
    <2>2. \A j \in From(k + 1) : WithFirst(a, e, k)[j] = e[j]
      BY FromFacts DEF WithFirst
    <2> QED
      BY <2>1, <2>2 DEF WithoutFirst
  <1>3. ASSUME NEW d \in T PROVE WithoutFirst(d, k) \in S /\ WithFirst(a, WithoutFirst(d, k), k) = d
    <2>1. WithoutFirst(d, k) \in S
      BY FirstOfLeading
    <2>2. d = [j \in From(k) |-> d[j]] /\ d[k] = a
      BY DEF LeadingTo, DrawsFrom
    <2>3. \A j \in From(k) : j # k => WithoutFirst(d, k)[j] = d[j]
      BY FromFacts DEF WithoutFirst
    <2> QED
      BY <2>1, <2>2, <2>3 DEF WithFirst
  <1> HIDE DEF S, T
  <1>4. f \in [S -> T] /\ \A e \in S : f[e] = WithFirst(a, e, k)
    BY <1>1
  <1>5. \A e, g \in S : f[e] = f[g] => e = g
    BY <1>2, <1>4
  <1>6. \A d \in T : \E e \in S : f[e] = d
    BY <1>3, <1>4
  <1> HIDE DEF f
  <1> QED
    BY <1>4, <1>5, <1>6 DEF ExistsBijection, Bijection, Injection, Surjection, IsInjective, S, T

LEMMA LeadingCounted ==
    ASSUME NEW m \in 0 .. weight, NEW A \in SUBSET ((weight - m) .. n - 1),
           IsFiniteSet(A), Cardinality(A) = m
    PROVE  /\ IsFiniteSet(LeadingTo(A, weight - m))
           /\ Cardinality(LeadingTo(A, weight - m)) = Factorial[m]
  <1> DEFINE counted(C, l) == /\ IsFiniteSet(LeadingTo(C, weight - l))
                              /\ Cardinality(LeadingTo(C, weight - l)) = Factorial[l]
             S == {l \in Nat : l <= weight =>
                     \A C \in SUBSET ((weight - l) .. n - 1) :
                         IsFiniteSet(C) /\ Cardinality(C) = l => counted(C, l)}
  <1>1. 0 \in S
    <2> SUFFICES ASSUME NEW C, IsFiniteSet(C), Cardinality(C) = 0
                 PROVE  /\ IsFiniteSet(LeadingTo(C, weight))
                        /\ Cardinality(LeadingTo(C, weight)) = Factorial[0]
      BY Sizes
    <2>1. C = {} /\ From(weight) = {}
      BY FS_EmptySet, Sizes DEF From
    <2> DEFINE none == [j \in {} |-> 0]
    <2>2. [From(weight) -> 0 .. n - 1] = {none}
      BY <2>1
    <2>3. none \in LeadingTo(C, weight)
      BY <2>1, <2>2 DEF LeadingTo, DrawsFrom, ResolvedFrom, ImageFrom
    <2>4. LeadingTo(C, weight) = {none}
      BY <2>2, <2>3 DEF LeadingTo, DrawsFrom
    <2>5. 0 \in Nat
      OBVIOUS
    <2>6. Factorial[0] = 1
      BY <2>5, FactorialOf
    <2>7. IsFiniteSet({none}) /\ Cardinality({none}) = 1
      BY FS_Singleton
    <2> QED
      BY <2>4, <2>6, <2>7
  <1>2. ASSUME NEW l \in Nat, l \in S PROVE l + 1 \in S
    <2> SUFFICES ASSUME l + 1 <= weight, NEW C \in SUBSET ((weight - (l + 1)) .. n - 1),
                        IsFiniteSet(C), Cardinality(C) = l + 1
                 PROVE  counted(C, l + 1)
      OBVIOUS
    <2> DEFINE k == weight - (l + 1)
               f == [d \in LeadingTo(C, k) |-> d[k]]
    <2>1. k \in Index /\ k + 1 = weight - l /\ k \in Nat /\ C \in SUBSET (k .. n - 1)
      BY Sizes DEF Index
    <2> HIDE DEF k
    <2>2. f \in [LeadingTo(C, k) -> C]
      BY <2>1, FirstOfLeading
    <2>3. ASSUME NEW a \in C
          PROVE  /\ IsFiniteSet(Part(LeadingTo(C, k), f, a))
                 /\ Cardinality(Part(LeadingTo(C, k), f, a)) = Factorial[l]
      <3>1. Rest(C, a, k) \in SUBSET ((weight - l) .. n - 1)
        BY <2>1, Sizes DEF Rest
      <3>2. IsFiniteSet(Rest(C, a, k)) /\ Cardinality(Rest(C, a, k)) = l
        <4> DEFINE x == IF k \in C THEN k ELSE a
        <4>1. x \in C /\ Rest(C, a, k) = C \ {x}
          BY DEF Rest
        <4> HIDE DEF x
        <4>2. IsFiniteSet(C \ {x}) /\ Cardinality(C \ {x}) = (l + 1) - 1
          BY <4>1, FS_RemoveElement
        <4> QED
          BY <4>1, <4>2
      <3>3. counted(Rest(C, a, k), l)
        <4>1. \A D \in SUBSET ((weight - l) .. n - 1) :
                  IsFiniteSet(D) /\ Cardinality(D) = l => counted(D, l)
          BY <1>2, Sizes
        <4> HIDE DEF counted
        <4> QED
          BY <3>1, <3>2, <4>1
      <3>4. Part(LeadingTo(C, k), f, a) = {d \in LeadingTo(C, k) : d[k] = a}
        BY DEF Part
      <3>5. ExistsBijection(LeadingTo(Rest(C, a, k), k + 1), {d \in LeadingTo(C, k) : d[k] = a})
        BY <2>1, PartIsRest
      <3> QED
        BY <2>1, <3>3, <3>4, <3>5, FS_Bijection
    <2>4. Factorial[l] \in Nat /\ Factorial[l + 1] = (l + 1) * Factorial[l]
      BY FactorialOf
    <2> HIDE DEF f
    <2>5. IsFiniteSet(LeadingTo(C, k)) /\ Cardinality(LeadingTo(C, k)) = (l + 1) * Factorial[l]
      <3>1. IsFiniteSet(LeadingTo(C, k))
            /\ Cardinality(LeadingTo(C, k)) = Cardinality(C) * Factorial[l]
        <4> DEFINE D == LeadingTo(C, k)
                   c == Factorial[l]
        <4>1. Splits(LeadingTo(C, k), C, f, Factorial[l])
          BY <2>2, <2>3 DEF Splits
        <4> QED
          BY <2>4, <4>1, EqualParts
      <3> QED
        BY <3>1
    <2> QED
      BY <2>4, <2>5 DEF k
  <1> HIDE DEF S
  <1>3. Nat \subseteq S
    BY <1>1, <1>2, EveryNatural
  <1> QED
    BY <1>3, Sizes DEF S

-----------------------------------------------------------------------------
(* The scan of the specification.                                          *)

\* The arrays the scan leaves at each index.
scanStep(d, f, k) == IF k = weight - 1 THEN d ELSE resolved(f[k + 1], k)

LEMMA ResolvedType ==
    ASSUME NEW s \in [Index -> 0 .. n - 1], NEW k \in Index
    PROVE  resolved(s, k) \in [Index -> 0 .. n - 1]
  BY FromFacts DEF resolved

LEMMA OutcomeIsScan ==
    ASSUME NEW d \in Draws
    PROVE  \E f \in [Index -> [Index -> 0 .. n - 1]] :
               /\ \A k \in Index : f[k] = scanStep(d, f, k)
               /\ outcome(d) = f[0]
  <1> DEFINE Arrays == [Index -> 0 .. n - 1]
             last == weight - 1
             S == {m \in Nat : m <= last =>
                      \E f \in [Index -> Arrays] :
                          \A k \in Index : k >= last - m => f[k] = scanStep(d, f, k)}
  <1>0. d \in Arrays /\ last \in Nat /\ Index = 0 .. last
    BY Sizes DEF Draws, Index
  <1>1. 0 \in S
    <2>1. [k \in Index |-> d] \in [Index -> Arrays]
      BY <1>0
    <2>2. \A k \in Index : k >= last - 0 => [j \in Index |-> d][k] = scanStep(d, [j \in Index |-> d], k)
      BY <1>0 DEF scanStep
    <2> HIDE DEF last, Arrays
    <2> QED
      BY <1>0, <2>1, <2>2
  <1>2. ASSUME NEW m \in Nat, m \in S PROVE m + 1 \in S
    <2> HIDE DEF last, Arrays
    <2> SUFFICES ASSUME m + 1 <= last
                 PROVE  \E f \in [Index -> Arrays] :
                            \A k \in Index : k >= last - (m + 1) => f[k] = scanStep(d, f, k)
      OBVIOUS
    <2>1. PICK f \in [Index -> Arrays] : \A k \in Index : k >= last - m => f[k] = scanStep(d, f, k)
      BY <1>0, <1>2
    <2> DEFINE l == last - (m + 1)
               g == [f EXCEPT ![l] = resolved(f[l + 1], l)]
    <2>2. l \in Index /\ l + 1 \in Index /\ l # last /\ l + 1 = last - m
      BY <1>0
    <2> HIDE DEF l
    <2>3. g \in [Index -> Arrays]
      <3>1. resolved(f[l + 1], l) \in Arrays
        BY <2>2, ResolvedType DEF Arrays
      <3> QED
        BY <3>1
    <2>4. ASSUME NEW k \in Index, k >= l PROVE g[k] = scanStep(d, g, k)
      <3>1. CASE k = l
        <4>1. g[l] = resolved(f[l + 1], l) /\ g[l + 1] = f[l + 1]
          <5>1. l + 1 # l
            BY <1>0, <2>2
          <5> QED
            BY <2>2, <5>1
        <4> HIDE DEF g
        <4> QED
          BY <2>2, <3>1, <4>1 DEF scanStep, last
      <3>2. CASE k # l
        <4>1. k >= last - m /\ k + 1 # l
          BY <1>0, <2>2, <2>4, <3>2
        <4>2. g[k] = f[k] /\ f[k] = scanStep(d, f, k)
          BY <2>1, <3>2, <4>1
        <4>3. k # last => g[k + 1] = f[k + 1]
          <5>1. k # last => k + 1 \in Index
            BY <1>0
          <5> QED
            BY <4>1, <5>1
        <4> QED
          BY <4>2, <4>3 DEF scanStep, last
      <3> QED
        BY <3>1, <3>2
    <2> QED
      BY <2>3, <2>4 DEF l
  <1> HIDE DEF S, last, Arrays
  <1>3. Nat \subseteq S
    BY <1>1, <1>2, EveryNatural
  <1>4. PICK h \in [Index -> Arrays] : \A k \in Index : h[k] = scanStep(d, h, k)
    <2>1. last \in S /\ \A k \in Index : k >= last - last
      BY <1>0, <1>3
    <2> QED
      BY <1>0, <2>1 DEF S
  <1> DEFINE after == CHOOSE f : f = [k \in Index |-> scanStep(d, f, k)]
  <1>5. h = [k \in Index |-> scanStep(d, h, k)]
    <2>1. h = [k \in Index |-> h[k]]
      OBVIOUS
    <2> QED
      BY <1>4, <2>1
  <1>6. after = [k \in Index |-> scanStep(d, after, k)]
    BY <1>5
  <1>7. outcome(d) = after[0]
    BY DEF outcome, scanStep
  <1> HIDE DEF after
  <1>8. \A k \in Index : after[k] = scanStep(d, after, k)
    BY <1>6
  <1>9. \A k \in Index : after[k] = h[k]
    <2> DEFINE R == {m \in Nat : m <= last => after[last - m] = h[last - m]}
    <2>1. 0 \in R
      <3>1. last \in Index /\ last - 0 = last
        BY <1>0
      <3> QED
        BY <1>4, <1>8, <3>1 DEF scanStep, last
    <2>2. ASSUME NEW m \in Nat, m \in R PROVE m + 1 \in R
      <3> SUFFICES ASSUME m + 1 <= last PROVE after[last - (m + 1)] = h[last - (m + 1)]
        OBVIOUS
      <3> DEFINE l == last - (m + 1)
      <3>1. l \in Index /\ l # last /\ l + 1 = last - m
        BY <1>0
      <3>2. after[l + 1] = h[l + 1]
        BY <1>0, <2>2, <3>1
      <3> HIDE DEF l
      <3>3. after[l] = h[l]
        BY <1>4, <1>8, <3>1, <3>2 DEF scanStep
      <3> QED
        BY <3>3 DEF l
    <2> HIDE DEF R
    <2>3. Nat \subseteq R
      BY <2>1, <2>2, EveryNatural
    <2> SUFFICES ASSUME NEW k \in Index PROVE after[k] = h[k]
      OBVIOUS
    <2>4. last - k \in Nat /\ last - k <= last /\ last - (last - k) = k
      BY <1>0
    <2>5. last - k \in R
      BY <2>3, <2>4
    <2> QED
      BY <2>4, <2>5 DEF R
  <1>10. 0 \in Index
    BY <1>0
  <1> QED
    BY <1>4, <1>7, <1>9, <1>10 DEF Arrays

LEMMA FoundInImage ==
    ASSUME NEW s \in [Index -> 0 .. n - 1], NEW k \in Index
    PROVE  found(s, k) <=> s[k] \in ImageFrom(s, k + 1)
  <1>1. \A j : j \in From(k + 1) <=> j \in Index /\ j > k
    BY Sizes DEF From, Index
  <1> QED
    BY <1>1, FoundIsRepeated DEF ImageFrom

\* After the turn at k the positions from k on are resolved and the others as drawn.
LEMMA OutcomeIsResolved ==
    ASSUME NEW d \in Draws
    PROVE  ResolvedFrom(outcome(d), d, 0)
  <1> DEFINE last == weight - 1
             Done(s, k) ==
                 /\ \A j \in Index : j < k => s[j] = d[j]
                 /\ \A j \in From(k) : s[j] = IF d[j] \in ImageFrom(s, j + 1) THEN j ELSE d[j]
  <1>1. PICK f \in [Index -> [Index -> 0 .. n - 1]] :
            /\ \A k \in Index : f[k] = scanStep(d, f, k)
            /\ outcome(d) = f[0]
    BY OutcomeIsScan
  <1>2. last \in Nat /\ last \in Index /\ Index = 0 .. last /\ d \in [Index -> 0 .. n - 1]
    BY Sizes DEF Draws, Index
  <1> DEFINE S == {m \in Nat : m <= last => Done(f[last - m], last - m)}
  <1>3. 0 \in S
    <2>1. f[last] = d /\ last - 0 = last
      BY <1>1, <1>2 DEF scanStep
    <2>2. From(last) = {last} /\ ImageFrom(d, last + 1) = {}
      BY <1>2 DEF From, ImageFrom
    <2> QED
      BY <2>1, <2>2
  <1>4. ASSUME NEW m \in Nat, m \in S PROVE m + 1 \in S
    <2> SUFFICES ASSUME m + 1 <= last PROVE Done(f[last - (m + 1)], last - (m + 1))
      OBVIOUS
    <2> HIDE DEF last, Done
    <2> DEFINE k == last - (m + 1)
               s == f[k + 1]
               r == f[k]
    <2>1. k \in Index /\ k + 1 \in Index /\ k # last /\ k + 1 = last - m /\ k \in Nat
      BY <1>2
    <2>2. Done(s, k + 1)
      <3>1. m <= last
        BY <1>2
      <3>2. Done(f[last - m], last - m)
        BY <1>4, <3>1
      <3> HIDE DEF k
      <3> QED
        BY <2>1, <3>2
    <2>3. s \in [Index -> 0 .. n - 1] /\ r = resolved(s, k)
      BY <1>1, <2>1 DEF scanStep, last
    <2> HIDE DEF k, s, r
    <2> USE DEF Done
    <2>4. \A j \in Index : j # k => r[j] = s[j]
      BY <2>1, <2>3 DEF resolved
    <2>5. s[k] = d[k]
      BY <2>1, <2>2
    <2>6. r[k] = IF d[k] \in ImageFrom(s, k + 1) THEN k ELSE d[k]
      BY <2>1, <2>3, <2>5, FoundInImage DEF resolved
    <2>7. ASSUME NEW j \in From(k) PROVE ImageFrom(r, j + 1) = ImageFrom(s, j + 1)
      <3>1. \A l \in From(j + 1) : l \in Index /\ l # k
        <4>1. j \in Nat /\ j >= k /\ weight \in Nat
          BY <2>1, Sizes DEF From
        <4> QED
          BY <2>1, <4>1 DEF From, Index
      <3> QED
        BY <2>4, <3>1, ImageSame
    <2>8. ASSUME NEW j \in From(k)
          PROVE  r[j] = IF d[j] \in ImageFrom(r, j + 1) THEN j ELSE d[j]
      <3>1. CASE j = k
        BY <2>6, <2>7, <3>1
      <3>2. CASE j # k
        <4>1. j \in From(k + 1) /\ j \in Index
          BY <2>1, <3>2, FromFacts
        <4> QED
          BY <2>2, <2>4, <2>7, <3>2, <4>1
      <3> QED
        BY <3>1, <3>2
    <2>9. \A j \in Index : j < k => r[j] = d[j]
      <3>1. \A j \in Index : j < k => j < k + 1 /\ j # k
        BY <2>1 DEF Index
      <3> QED
        BY <2>2, <2>4, <3>1
    <2> QED
      BY <2>8, <2>9 DEF k, r
  <1> HIDE DEF S
  <1>5. Nat \subseteq S
    BY <1>3, <1>4, EveryNatural
  <1>6. Done(f[0], 0)
    <2>1. last \in S /\ last - last = 0
      BY <1>2, <1>5
    <2> QED
      BY <1>2, <2>1 DEF S
  <1>7. f[0] \in [Index -> 0 .. n - 1] /\ Index = From(0)
    BY <1>2 DEF From, Index
  <1> QED
    BY <1>1, <1>6, <1>7 DEF ResolvedFrom

LEMMA ResolvedUnique ==
    ASSUME NEW d, NEW s, NEW r, ResolvedFrom(s, d, 0), ResolvedFrom(r, d, 0)
    PROVE  s = r
  <1> DEFINE S == {m \in Nat : m <= weight => \A j \in From(weight - m) : s[j] = r[j]}
  <1>1. 0 \in S
    BY Sizes DEF From
  <1>2. ASSUME NEW m \in Nat, m \in S PROVE m + 1 \in S
    <2> SUFFICES ASSUME m + 1 <= weight, NEW j \in From(weight - (m + 1)) PROVE s[j] = r[j]
      OBVIOUS
    <2> DEFINE k == weight - (m + 1)
    <2>1. k \in Index /\ k + 1 = weight - m
      BY Sizes DEF Index
    <2>2. \A l \in From(k + 1) : s[l] = r[l]
      BY <1>2, <2>1, Sizes
    <2>3. j \in From(k)
      OBVIOUS
    <2> HIDE DEF k
    <2>4. CASE j = k
      <3>1. ImageFrom(s, k + 1) = ImageFrom(r, k + 1)
        BY <2>2, ImageSame
      <3>2. k \in From(0)
        BY <2>1, Sizes DEF From, Index
      <3> QED
        BY <2>4, <3>1, <3>2 DEF ResolvedFrom
    <2>5. CASE j # k
      BY <2>1, <2>2, <2>3, <2>5, FromFacts
    <2> QED
      BY <2>4, <2>5
  <1> HIDE DEF S
  <1>3. Nat \subseteq S
    BY <1>1, <1>2, EveryNatural
  <1>4. \A j \in From(0) : s[j] = r[j]
    <2>1. weight \in Nat /\ weight \in S /\ weight - weight = 0 /\ weight <= weight
      BY <1>3, Sizes
    <2> QED
      BY <2>1 DEF S
  <1> QED
    BY <1>4 DEF ResolvedFrom

LEMMA WaysCounted ==
    ASSUME NEW A \in SUBSET (0 .. n - 1), IsFiniteSet(A), Cardinality(A) = weight
    PROVE  ways(A) = Factorial[weight]
  <1>1. From(0) = Index /\ DrawsFrom(0) = Draws /\ weight - weight = 0 /\ weight \in 0 .. weight
    BY Sizes DEF From, Index, DrawsFrom, Draws
  <1>2. \A d \in Draws : ImageFrom(outcome(d), 0) = {outcome(d)[k] : k \in Index}
    BY <1>1 DEF ImageFrom
  <1>3. {d \in Draws : {outcome(d)[k] : k \in Index} = A} = LeadingTo(A, 0)
    <2>1. ASSUME NEW d \in Draws
          PROVE  ImageFrom(outcome(d), 0) = A <=> \E s : ResolvedFrom(s, d, 0) /\ ImageFrom(s, 0) = A
      <3>1. ResolvedFrom(outcome(d), d, 0)
        BY OutcomeIsResolved
      <3>2. \A s : ResolvedFrom(s, d, 0) => s = outcome(d)
        BY <3>1, ResolvedUnique
      <3> QED
        BY <3>1, <3>2
    <2>2. LeadingTo(A, 0) = {d \in Draws : \E s : ResolvedFrom(s, d, 0) /\ ImageFrom(s, 0) = A}
      BY <1>1 DEF LeadingTo
    <2>3. LeadingTo(A, 0) = {d \in Draws : ImageFrom(outcome(d), 0) = A}
      BY <2>1, <2>2
    <2> QED
      BY <1>2, <2>3
  <1>4. Cardinality(LeadingTo(A, 0)) = Factorial[weight]
    <2> DEFINE z == weight - weight
    <2>1. A \in SUBSET (z .. n - 1)
      BY <1>1
    <2>2. Cardinality(LeadingTo(A, z)) = Factorial[weight]
      BY <1>1, <2>1, LeadingCounted
    <2> QED
      BY <1>1, <2>2
  <1> QED
    BY <1>3, <1>4 DEF ways

\* Every support that sampler2 reaches is the outcome of exactly weight! of the draws,
\* if these were uniform in their ranges: the scan that replaces a repeated position by
\* its own index makes no set of positions likelier than another.
THEOREM SupportsEquallyLikely == Spec => []NoSupportFavoured
  <1>1. IInv => NoSupportFavoured
    <2> SUFFICES ASSUME IInv, stage = "done"
                 PROVE  ways({support[k] : k \in Index}) = Factorial[weight]
      BY DEF NoSupportFavoured
    <2> DEFINE A == {support[k] : k \in Index}
    <2>1. support \in [Index -> 0 .. n - 1] /\ Index = 0 .. weight - 1
      BY DEF IInv, TypeOK, Index
    <2>2. support \in Bijection(Index, A)
      BY <2>1, Sizes DEF IInv, Index, Bijection, Injection, Surjection, IsInjective
    <2>3. IsFiniteSet(Index) /\ Cardinality(Index) = weight
      BY <2>1, Sizes, FS_Interval
    <2>4. IsFiniteSet(A) /\ Cardinality(A) = weight
      BY <2>2, <2>3, FS_Bijection DEF ExistsBijection
    <2>5. A \in SUBSET (0 .. n - 1)
      BY <2>1
    <2> HIDE DEF A
    <2>6. ways(A) = Factorial[weight]
      BY <2>4, <2>5, WaysCounted
    <2> QED
      BY <2>6 DEF A
  <1> QED
    BY <1>1, Always, PTL

=============================================================================
