--------------------------- MODULE DecoderProofs ----------------------------
(***************************************************************************)
(* The decoders.  The degrees computeElp computes and compares on 16 bits  *)
(* are those of the integers for every parameter set with 4 * delta below  *)
(* 2^16, and what it computes on them is Berlekamp's algorithm: sigma      *)
(* generates the syndromes.  The wrapped transform of rmDecode holds the   *)
(* signed integers it stands for, whatever the words received are, which   *)
(* tell the distances to all codewords, and the search for the peak finds  *)
(* a nearest one.                                                          *)
(***************************************************************************)
EXTENDS SymbolDecoder, FiniteSetTheorems, SequenceTheorems,
        WellFoundedInduction, TLAPS

-----------------------------------------------------------------------------
(* The degrees of computeElp.                                              *)

\* Either rho is still -1, or rho is an earlier turn and no degree exceeds its turn.
DegreeBounds ==
    mu < 2 * p.delta =>
        /\ degSigma \in 0 .. mu
        /\ \/ pp = Modulus - 1 /\ degSigmaP = 0
           \/ pp \in 0 .. mu - 1 /\ degSigmaP \in 0 .. pp

IInv ==
    /\ p \in ParamSets
    /\ mu \in 0 .. 2 * p.delta
    /\ DegreeBounds

\* The top bit of a difference is the comparison for numbers up to half the modulus.
LEMMA TopBitCompares ==
    ASSUME NEW a \in Nat, NEW b \in Nat, 2 * a < Modulus, 2 * b < Modulus
    PROVE  TopBit(Minus(a, b)) <=> a < b
BY ModulusAssumption, SMT DEF TopBit, Minus

LEMMA DeltaBounds ==
    ASSUME p \in ParamSets
    PROVE  p.delta \in Nat /\ p.delta > 0 /\ 4 * p.delta < Modulus
BY ParamSetsAssumption

\* What the degrees are worth in a turn, and what bounds them after it.
LEMMA DegreesOfATurn ==
    ASSUME IInv, mu < 2 * p.delta
    PROVE  /\ mu \in Nat /\ degSigma \in 0 .. mu
           /\ degXSigmaP = mu - rho + degSigmaP
           /\ degXSigmaP \in 0 .. mu + 1
           /\ lengthens <=> (d # Zero /\ degXSigmaP > degSigma)
<1>1. mu \in Nat /\ degSigma \in 0 .. mu /\ 2 * (mu + 1) < Modulus
  BY DeltaBounds, ModulusAssumption DEF IInv, DegreeBounds
<1>2. degXSigmaP = mu - rho + degSigmaP /\ degXSigmaP \in 0 .. mu + 1
  <2>1. CASE pp = Modulus - 1 /\ degSigmaP = 0
    BY <1>1, <2>1, ModulusAssumption DEF degXSigmaP, degX, Minus, Plus, rho
  <2>2. CASE pp \in 0 .. mu - 1 /\ degSigmaP \in 0 .. pp
    BY <1>1, <2>2, ModulusAssumption DEF degXSigmaP, degX, Minus, Plus, rho
  <2> QED
    BY <2>1, <2>2 DEF IInv, DegreeBounds
<1>3. TopBit(Minus(degSigma, degXSigmaP)) <=> degSigma < degXSigmaP
  <2>1. degSigma \in Nat /\ 2 * degSigma < Modulus
    BY <1>1, ModulusAssumption
  <2>2. degXSigmaP \in Nat /\ 2 * degXSigmaP < Modulus
    BY <1>1, <1>2, ModulusAssumption
  <2> QED
    BY <2>1, <2>2, TopBitCompares
<1>4. degXSigmaP > degSigma <=> degSigma < degXSigmaP
  BY <1>1, <1>2
<1> QED
  BY <1>1, <1>2, <1>3, <1>4 DEF lengthens

LEMMA InitBounds == ElpInit => IInv
BY DeltaBounds DEF ElpInit, ElpIdle, IInv, DegreeBounds

LEMMA StepBounds ==
    IInv /\ [ElpNext]_<<p, syndromes, elpVars>> => IInv'
<1> SUFFICES ASSUME IInv, [ElpNext]_<<p, syndromes, elpVars>>
             PROVE  IInv'
  OBVIOUS
<1>1. CASE UNCHANGED <<p, syndromes, elpVars>>
  BY <1>1 DEF elpVars, IInv, DegreeBounds
<1>2. ASSUME NEW s, ElpBegin(s)
      PROVE  IInv'
  BY <1>2, DeltaBounds DEF ElpBegin, IInv, DegreeBounds
<1>3. CASE ElpStep
  <2>1. mu < 2 * p.delta /\ mu + 1 < 2 * p.delta
    BY <1>3, DeltaBounds DEF ElpStep, IInv
  <2>2. p' \in ParamSets /\ mu' \in 0 .. 2 * p'.delta
    BY <1>3, <2>1, DeltaBounds DEF ElpStep, IInv
  <2>3. degSigma' \in 0 .. mu'
    BY <1>3, <2>1, DegreesOfATurn DEF ElpStep, newDegree
  <2>4. CASE lengthens
    <3>1. pp' = mu /\ degSigmaP' = degSigma
      BY <1>3, <2>4 DEF ElpStep
    <3>2. pp' \in 0 .. mu' - 1 /\ degSigmaP' \in 0 .. pp'
      BY <1>3, <3>1, <2>1, DegreesOfATurn DEF ElpStep
    <3> QED
      BY <2>2, <2>3, <3>2 DEF IInv, DegreeBounds
  <2>5. CASE ~lengthens
    <3>1. pp' = pp /\ degSigmaP' = degSigmaP /\ mu' = mu + 1
      BY <1>3, <2>5 DEF ElpStep
    <3>2. \/ pp' = Modulus - 1 /\ degSigmaP' = 0
          \/ pp' \in 0 .. mu' - 1 /\ degSigmaP' \in 0 .. pp'
      BY <3>1, <2>1, DegreesOfATurn DEF IInv, DegreeBounds
    <3> QED
      BY <2>2, <2>3, <3>2 DEF IInv, DegreeBounds
  <2> QED
    BY <2>4, <2>5
<1>4. CASE ElpLast
  BY <1>4, DeltaBounds DEF ElpLast, IInv, DegreeBounds
<1> QED
  BY <1>1, <1>2, <1>3, <1>4 DEF ElpNext

\* In every turn of every call of computeElp the wrapped degrees are those of
\* Berlekamp's algorithm, and the masks select its branch.
THEOREM DegreesAreExact == ElpSpec => []DegreesExact
<1>1. IInv => DegreesExact
  <2> SUFFICES ASSUME IInv, mu < 2 * p.delta
               PROVE  /\ degXSigmaP = mu - rho + degSigmaP
                      /\ lengthens <=> (d # Zero /\ mu - rho + degSigmaP > degSigma)
    BY DEF DegreesExact
  <2> QED
    BY DegreesOfATurn
<1> QED
  BY InitBounds, StepBounds, <1>1, PTL DEF ElpSpec

-----------------------------------------------------------------------------
(* Addition of field elements, and of all elements of an array.            *)

LEMMA SumType ==
    ASSUME NEW a \in Element, NEW b \in Element
    PROVE  a \oplus b \in Element
BY DEF \oplus, SymDiff, Element

LEMMA SumLaws ==
    ASSUME NEW a, NEW b, NEW c
    PROVE  /\ a \oplus b = b \oplus a
           /\ (a \oplus b) \oplus c = a \oplus (b \oplus c)
           /\ a \oplus a = Zero
           /\ a \oplus Zero = a
BY DEF \oplus, SymDiff, Zero

\* A set that holds 0 and each successor holds every natural number.
LEMMA EveryNatural ==
    ASSUME NEW S, 0 \in S, \A k \in Nat : k \in S => k + 1 \in S
    PROVE  Nat \subseteq S
<1> DEFINE T == Nat \ S
           R == OpToRel(<, Nat)
<1> SUFFICES ASSUME T # {} PROVE FALSE
  OBVIOUS
<1>1. IsWellFoundedOn(R, Nat) /\ \A k \in Nat : k # 0 => <<k - 1, k>> \in R
  BY NatLessThanWellFounded DEF OpToRel
<1> HIDE DEF R
<1>2. PICK k \in T : \A m \in T : <<m, k>> \notin R
  BY <1>1, WFMin
<1>3. k \in Nat /\ k # 0 /\ k - 1 \in Nat
  BY <1>2
<1>4. <<k - 1, k>> \in R
  BY <1>1, <1>3
<1>5. k - 1 \in S
  BY <1>2, <1>3, <1>4
<1> QED
  BY <1>2, <1>3, <1>5

\* The sum of f[0], ..., f[k].
Total(k, f) == XorOver(0 .. k, LAMBDA i : f[i])

\* Those of f[0], ..., f[k] that have bit b.
With(k, f, b) == {i \in 0 .. k : b \in f[i]}

Elements(k, f) == \A i \in 0 .. k : f[i] \in Element

LEMMA WithFacts ==
    ASSUME NEW k \in Nat, NEW f, NEW b
    PROVE  IsFiniteSet(With(k, f, b)) /\ Cardinality(With(k, f, b)) \in Nat
<1>1. IsFiniteSet(0 .. k) /\ With(k, f, b) \subseteq 0 .. k
  BY FS_Interval DEF With
<1> QED
  BY <1>1, FS_Subset, FS_CardinalityType

LEMMA OddBasics == ~Odd(0) /\ Odd(1) /\ \A a \in Nat : Odd(a + 1) <=> ~Odd(a)
BY DEF Odd

\* A total is decided bit by bit: it has the bits that an odd number of elements have.
LEMMA TotalBits ==
    ASSUME NEW k \in Nat, NEW f, NEW b
    PROVE  b \in Total(k, f) <=> Odd(Cardinality(With(k, f, b)))
<1> DEFINE t == [i \in 0 .. k |-> f[i]]
<1>1. Total(k, f) = {x \in UNION {t[i] : i \in 0 .. k} :
                       Odd(Cardinality({i \in 0 .. k : x \in t[i]}))}
  BY DEF Total, XorOver
<1>2. {i \in 0 .. k : b \in t[i]} = With(k, f, b)
  BY DEF With
<1>3. ASSUME With(k, f, b) # {} PROVE b \in UNION {t[i] : i \in 0 .. k}
  <2>1. PICK i \in 0 .. k : b \in f[i]
    BY <1>3 DEF With
  <2>2. t[i] \in {t[j] : j \in 0 .. k} /\ b \in t[i]
    BY <2>1
  <2> QED
    BY <2>2
<1>4. With(k, f, b) = {} => ~Odd(Cardinality(With(k, f, b)))
  BY FS_EmptySet, OddBasics
<1> QED
  BY <1>1, <1>2, <1>3, <1>4

LEMMA TotalZero ==
    ASSUME NEW f
    PROVE  Total(0, f) = f[0]
<1> SUFFICES ASSUME NEW b PROVE b \in Total(0, f) <=> b \in f[0]
  OBVIOUS
<1>1. With(0, f, b) = IF b \in f[0] THEN {0} ELSE {}
  BY DEF With
<1>2. Cardinality({0}) = 1 /\ Cardinality({}) = 0
  BY FS_Singleton, FS_EmptySet
<1>3. b \in Total(0, f) <=> Odd(Cardinality(With(0, f, b)))
  BY TotalBits
<1> QED
  BY <1>1, <1>2, <1>3, OddBasics

LEMMA TotalNext ==
    ASSUME NEW k \in Nat, NEW f
    PROVE  Total(k + 1, f) = Total(k, f) \oplus f[k + 1]
<1> SUFFICES ASSUME NEW b
             PROVE  b \in Total(k + 1, f) <=> ~(b \in Total(k, f) <=> b \in f[k + 1])
  BY DEF \oplus, SymDiff
<1> DEFINE W == With(k, f, b)
           V == With(k + 1, f, b)
<1>1. V = (IF b \in f[k + 1] THEN W \cup {k + 1} ELSE W) /\ k + 1 \notin W
  BY DEF With
<1>2. IsFiniteSet(W) /\ Cardinality(W) \in Nat
  BY WithFacts
<1>3. Cardinality(W \cup {k + 1}) = Cardinality(W) + 1
  BY <1>1, <1>2, FS_AddElement
<1>4. (b \in Total(k, f) <=> Odd(Cardinality(W))) /\ (b \in Total(k + 1, f) <=> Odd(Cardinality(V)))
  BY TotalBits
<1> HIDE DEF W, V
<1>5. Odd(Cardinality(W) + 1) <=> ~Odd(Cardinality(W))
  BY <1>2, OddBasics
<1> QED
  BY <1>1, <1>3, <1>4, <1>5

LEMMA TotalSame ==
    ASSUME NEW k \in Nat, NEW f, NEW g, \A i \in 0 .. k : f[i] = g[i]
    PROVE  Total(k, f) = Total(k, g)
<1> SUFFICES ASSUME NEW b PROVE b \in Total(k, f) <=> b \in Total(k, g)
  OBVIOUS
<1>1. With(k, f, b) = With(k, g, b)
  BY DEF With
<1> QED
  BY <1>1, TotalBits

LEMMA TotalType ==
    ASSUME NEW k \in Nat, NEW f, Elements(k, f)
    PROVE  Total(k, f) \in Element
<1> SUFFICES ASSUME NEW b \in Total(k, f) PROVE b \in 0 .. paramM - 1
  BY DEF Element
<1>1. With(k, f, b) # {}
  BY TotalBits, FS_EmptySet, OddBasics
<1> QED
  BY <1>1 DEF With, Elements, Element

\* An array that is the sum of two, element by element, totals the sum.
LEMMA TotalOfSum ==
    ASSUME NEW m \in Nat, NEW f, NEW g, NEW h, \A i \in 0 .. m : h[i] = f[i] \oplus g[i]
    PROVE  Total(m, h) = Total(m, f) \oplus Total(m, g)
<1> DEFINE Upto(k) == k <= m => Total(k, h) = Total(k, f) \oplus Total(k, g)
           S == {k \in Nat : Upto(k)}
<1>1. 0 \in S
  BY TotalZero
<1>2. ASSUME NEW k \in Nat, k \in S PROVE k + 1 \in S
  <2> SUFFICES ASSUME k + 1 <= m
               PROVE  Total(k + 1, h) = Total(k + 1, f) \oplus Total(k + 1, g)
    OBVIOUS
  <2>1. Total(k, h) = Total(k, f) \oplus Total(k, g)
    BY <1>2
  <2>2. h[k + 1] = f[k + 1] \oplus g[k + 1]
    OBVIOUS
  <2>3. /\ Total(k + 1, h) = Total(k, h) \oplus h[k + 1]
        /\ Total(k + 1, f) = Total(k, f) \oplus f[k + 1]
        /\ Total(k + 1, g) = Total(k, g) \oplus g[k + 1]
    BY TotalNext
  <2>4. \A a, b, c, x : (a \oplus b) \oplus (c \oplus x) = (a \oplus c) \oplus (b \oplus x)
    BY DEF \oplus, SymDiff
  <2> QED
    BY <2>1, <2>2, <2>3, <2>4
<1> HIDE DEF S
<1>3. Nat \subseteq S
  BY <1>1, <1>2, EveryNatural
<1> QED
  BY <1>3 DEF S

\* Zeroes at the end do not count.
LEMMA TotalTail ==
    ASSUME NEW k \in Nat, NEW m \in Nat, k <= m, NEW f, \A i \in k + 1 .. m : f[i] = Zero
    PROVE  Total(m, f) = Total(k, f)
<1> SUFFICES ASSUME NEW b PROVE b \in Total(m, f) <=> b \in Total(k, f)
  OBVIOUS
<1>1. With(m, f, b) = With(k, f, b)
  <2>1. \A i \in 0 .. m : b \in f[i] => i \in 0 .. k
    BY DEF Zero
  <2> QED
    BY <2>1 DEF With
<1> QED
  BY <1>1, TotalBits

\* An array moved up by one place.
LEMMA TotalShifted ==
    ASSUME NEW m \in Nat, NEW f, NEW g, g[0] = Zero, \A i \in 0 .. m : g[i + 1] = f[i]
    PROVE  Total(m + 1, g) = Total(m, f)
<1> DEFINE Upto(k) == k <= m => Total(k + 1, g) = Total(k, f)
           S == {k \in Nat : Upto(k)}
<1>1. 0 \in S
  <2>1. Total(0 + 1, g) = Total(0, g) \oplus g[0 + 1]
    BY TotalNext
  <2>2. Total(0, g) = Zero /\ g[0 + 1] = f[0] /\ Total(0, f) = f[0]
    BY TotalZero
  <2>3. \A a : Zero \oplus a = a
    BY SumLaws
  <2> QED
    BY <2>1, <2>2, <2>3
<1>2. ASSUME NEW k \in Nat, k \in S PROVE k + 1 \in S
  <2> SUFFICES ASSUME k + 1 <= m PROVE Total(k + 1 + 1, g) = Total(k + 1, f)
    OBVIOUS
  <2>1. Total(k + 1, g) = Total(k, f) /\ g[k + 1 + 1] = f[k + 1]
    BY <1>2
  <2>2. Total(k + 1 + 1, g) = Total(k + 1, g) \oplus g[k + 1 + 1]
    BY TotalNext
  <2>3. Total(k + 1, f) = Total(k, f) \oplus f[k + 1]
    BY TotalNext
  <2> QED
    BY <2>1, <2>2, <2>3
<1> HIDE DEF S
<1>3. Nat \subseteq S
  BY <1>1, <1>2, EveryNatural
<1> QED
  BY <1>3 DEF S

\* The sum from 1 on, as newD computes it.
Rest(k, f) == XorOver(1 .. k, LAMBDA i : f[i])

LEMMA TotalFromOne ==
    ASSUME NEW k \in Nat, NEW f
    PROVE  Total(k, f) = f[0] \oplus Rest(k, f)
<1> SUFFICES ASSUME NEW b
             PROVE  b \in Total(k, f) <=> ~(b \in f[0] <=> b \in Rest(k, f))
  BY DEF \oplus, SymDiff
<1> DEFINE W == With(k, f, b)
           V == {i \in 1 .. k : b \in f[i]}
           t == [i \in 1 .. k |-> f[i]]
<1>1. W = (IF b \in f[0] THEN V \cup {0} ELSE V) /\ 0 \notin V
  BY DEF With
<1>2. IsFiniteSet(V) /\ Cardinality(V) \in Nat
  <2>1. IsFiniteSet(1 .. k) /\ V \subseteq 1 .. k
    BY FS_Interval
  <2> QED
    BY <2>1, FS_Subset, FS_CardinalityType
<1>3. Cardinality(V \cup {0}) = Cardinality(V) + 1
  BY <1>1, <1>2, FS_AddElement
<1>4. b \in Rest(k, f) <=> Odd(Cardinality(V))
  <2>1. Rest(k, f)
          = {x \in UNION {t[i] : i \in 1 .. k} : Odd(Cardinality({i \in 1 .. k : x \in t[i]}))}
    BY DEF Rest, XorOver
  <2>2. {i \in 1 .. k : b \in t[i]} = V
    OBVIOUS
  <2>3. ASSUME V # {} PROVE b \in UNION {t[i] : i \in 1 .. k}
    <3>1. PICK i \in 1 .. k : b \in f[i]
      BY <2>3
    <3>2. t[i] \in {t[j] : j \in 1 .. k} /\ b \in t[i]
      BY <3>1
    <3> QED
      BY <3>2
  <2>4. V = {} => ~Odd(Cardinality(V))
    BY FS_EmptySet, OddBasics
  <2> QED
    BY <2>1, <2>2, <2>3, <2>4
<1>5. b \in Total(k, f) <=> Odd(Cardinality(W))
  BY TotalBits
<1> HIDE DEF W, V
<1>6. Odd(Cardinality(V) + 1) <=> ~Odd(Cardinality(V))
  BY <1>2, OddBasics
<1> QED
  BY <1>1, <1>3, <1>4, <1>5, <1>6

-----------------------------------------------------------------------------
(* The laws of the field.  FieldAssumption states those with three elements *)
(* for a monomial as the last; every element is a sum of monomials.        *)

LEMMA MulType ==
    ASSUME NEW a \in Element, NEW b \in Element
    PROVE  gfMul(a, b) \in Element /\ gfMul(a, b) = gfMul(b, a)
BY FieldAssumption

LEMMA BitIsElement == Zero \in Element /\ \A k \in 0 .. 7 : {k} \in Element /\ {k} \in Monomials
BY DEF Zero, Element, paramM, Monomials

LEMMA TimesMonomial ==
    ASSUME NEW a \in Element, NEW b \in Element, NEW x \in Monomials
    PROVE  /\ gfMul(a \oplus x, b) = gfMul(a, b) \oplus gfMul(x, b)
           /\ gfMul(gfMul(a, b), x) = gfMul(a, gfMul(b, x))
BY FieldAssumption

LEMMA ZeroTimes ==
    ASSUME NEW b \in Element
    PROVE  gfMul(Zero, b) = Zero /\ gfMul(b, Zero) = Zero
<1>1. {0} \in Element /\ Zero \in Element /\ 0 \in 0 .. 7
  BY BitIsElement DEF Zero, Element
<1>2. gfMul({0} \oplus {0}, b) = gfMul({0}, b) \oplus gfMul({0}, b)
  BY <1>1, BitIsElement, TimesMonomial
<1>3. gfMul(Zero, b) = Zero
  BY <1>2, SumLaws
<1> QED
  BY <1>1, <1>3, MulType

\* Every element is a sum of bits below some number.
LEMMA BitByBit ==
    ASSUME NEW S, S \subseteq Element, Zero \in S,
           \A c \in S, k \in 0 .. 7 : k \notin c => c \oplus {k} \in S
    PROVE  S = Element
<1> DEFINE T == {m \in Nat : \A c \in Element : c \subseteq 0 .. m - 1 => c \in S}
<1>1. 0 \in T
  <2>1. \A c : c \subseteq 0 .. 0 - 1 => c = Zero
    BY DEF Zero
  <2> QED
    BY <2>1
<1>2. ASSUME NEW m \in Nat, m \in T PROVE m + 1 \in T
  <2> SUFFICES ASSUME NEW c \in Element, c \subseteq 0 .. m, m \in c PROVE c \in S
    <3>1. ASSUME NEW c \in Element, c \subseteq 0 .. m, m \notin c PROVE c \in S
      <4>1. c \subseteq 0 .. m - 1
        BY <3>1
      <4> QED
        BY <1>2, <4>1
    <3>2. 0 .. (m + 1) - 1 = 0 .. m
      OBVIOUS
    <3> QED
      BY <3>1, <3>2
  <2> DEFINE e == c \ {m}
  <2>1. e \in Element /\ e \subseteq 0 .. m - 1 /\ m \in 0 .. 7 /\ m \notin e
    BY DEF Element, paramM
  <2>2. e \in S
    BY <1>2, <2>1
  <2>3. c = e \oplus {m}
    BY DEF \oplus, SymDiff
  <2> HIDE DEF e
  <2> QED
    BY <2>1, <2>2, <2>3
<1> HIDE DEF T
<1>3. 8 \in T
  BY <1>1, <1>2, EveryNatural
<1>4. \A c \in Element : c \subseteq 0 .. 8 - 1
  BY DEF Element, paramM
<1> QED
  BY <1>3, <1>4 DEF T

LEMMA MulOverSum ==
    ASSUME NEW a \in Element, NEW b \in Element, NEW c \in Element
    PROVE  gfMul(a \oplus b, c) = gfMul(a, c) \oplus gfMul(b, c)
<1> DEFINE S == {x \in Element : gfMul(a \oplus x, c) = gfMul(a, c) \oplus gfMul(x, c)}
<1>1. Zero \in S
  <2>1. a \oplus Zero = a /\ gfMul(a, c) \oplus Zero = gfMul(a, c)
    BY SumLaws
  <2>2. gfMul(Zero, c) = Zero
    BY ZeroTimes
  <2> QED
    BY <2>1, <2>2, BitIsElement
<1>2. ASSUME NEW x \in S, NEW k \in 0 .. 7 PROVE x \oplus {k} \in S
  <2>1. x \in Element /\ {k} \in Element /\ x \oplus {k} \in Element /\ a \oplus x \in Element
    BY BitIsElement, SumType
  <2>2. gfMul(a \oplus x, c) = gfMul(a, c) \oplus gfMul(x, c)
    OBVIOUS
  <2>3. a \oplus (x \oplus {k}) = (a \oplus x) \oplus {k}
    BY SumLaws
  <2>4. gfMul((a \oplus x) \oplus {k}, c) = gfMul(a \oplus x, c) \oplus gfMul({k}, c)
    BY <2>1, BitIsElement, TimesMonomial, ZenonT(30)
  <2>5. gfMul(x \oplus {k}, c) = gfMul(x, c) \oplus gfMul({k}, c)
    BY <2>1, BitIsElement, TimesMonomial, ZenonT(30)
  <2>6. gfMul(a \oplus (x \oplus {k}), c) = gfMul(a, c) \oplus gfMul(x \oplus {k}, c)
    BY <2>2, <2>3, <2>4, <2>5, SumLaws
  <2> QED
    BY <2>1, <2>6
<1>3. S = Element
  <2> HIDE DEF S
  <2>1. S \subseteq Element
    BY DEF S
  <2> QED
    BY <1>1, <1>2, <2>1, BitByBit
<1> QED
  BY <1>3

LEMMA MulOverRightSum ==
    ASSUME NEW a \in Element, NEW b \in Element, NEW c \in Element
    PROVE  gfMul(c, a \oplus b) = gfMul(c, a) \oplus gfMul(c, b)
<1>1. a \oplus b \in Element
  BY SumType
<1>2. /\ gfMul(c, a \oplus b) = gfMul(a \oplus b, c)
      /\ gfMul(c, a) = gfMul(a, c) /\ gfMul(c, b) = gfMul(b, c)
  BY <1>1, MulType
<1> QED
  BY <1>2, MulOverSum

LEMMA MulAssociates ==
    ASSUME NEW a \in Element, NEW b \in Element, NEW c \in Element
    PROVE  gfMul(gfMul(a, b), c) = gfMul(a, gfMul(b, c))
<1> DEFINE ab == gfMul(a, b)
           S == {x \in Element : gfMul(ab, x) = gfMul(a, gfMul(b, x))}
<1>0. ab \in Element
  BY MulType
<1>1. Zero \in S
  BY <1>0, ZeroTimes DEF Zero, Element
<1>2. ASSUME NEW x \in S, NEW k \in 0 .. 7 PROVE x \oplus {k} \in S
  <2>1. x \in Element /\ {k} \in Element /\ x \oplus {k} \in Element
        /\ gfMul(b, x) \in Element /\ gfMul(b, {k}) \in Element
    BY BitIsElement, SumType, MulType
  <2>2. gfMul(ab, x) = gfMul(a, gfMul(b, x))
    OBVIOUS
  <2>3. gfMul(ab, {k}) = gfMul(a, gfMul(b, {k}))
    BY BitIsElement, TimesMonomial
  <2> HIDE DEF ab
  <2>4. gfMul(ab, x \oplus {k}) = gfMul(ab, x) \oplus gfMul(ab, {k})
    BY <1>0, <2>1, MulOverRightSum
  <2>5. gfMul(b, x \oplus {k}) = gfMul(b, x) \oplus gfMul(b, {k})
    BY <2>1, MulOverRightSum
  <2>6. gfMul(a, gfMul(b, x) \oplus gfMul(b, {k})) = gfMul(a, gfMul(b, x)) \oplus gfMul(a, gfMul(b, {k}))
    BY <2>1, MulOverRightSum
  <2>7. gfMul(ab, x \oplus {k}) = gfMul(a, gfMul(b, x \oplus {k}))
    BY <2>2, <2>3, <2>4, <2>5, <2>6
  <2> QED
    BY <2>1, <2>7
<1>3. S = Element
  <2> HIDE DEF S
  <2>1. S \subseteq Element
    BY DEF S
  <2> QED
    BY <1>1, <1>2, <2>1, BitByBit
<1> QED
  BY <1>3

\* dd * dP = d: the discrepancy of this turn, from that of turn rho.
LEMMA QuotientTimes ==
    ASSUME NEW a \in Element, NEW b \in Element, b # Zero
    PROVE  /\ gfMul(a, gfInverse(b)) \in Element
           /\ gfMul(gfMul(a, gfInverse(b)), b) = a
<1>1. gfInverse(b) \in Element /\ gfMul(gfInverse(b), b) = One /\ One \in Element
  BY FieldAssumption, BitIsElement, SMTT(30) DEF One
<1>2. gfMul(gfMul(a, gfInverse(b)), b) = gfMul(a, One)
  BY <1>1, MulAssociates
<1>3. gfMul(a, One) = gfMul(One, a) /\ gfMul(One, a) = a
  BY <1>1, MulType, FieldAssumption
<1> QED
  BY <1>1, <1>2, <1>3, MulType

LEMMA TotalScaled ==
    ASSUME NEW m \in Nat, NEW c \in Element, NEW f, NEW h, Elements(m, f),
           \A i \in 0 .. m : h[i] = gfMul(c, f[i])
    PROVE  Total(m, h) = gfMul(c, Total(m, f))
<1> DEFINE Upto(k) == k <= m => Total(k, h) = gfMul(c, Total(k, f))
           S == {k \in Nat : Upto(k)}
<1>1. 0 \in S
  BY TotalZero
<1>2. ASSUME NEW k \in Nat, k \in S PROVE k + 1 \in S
  <2> SUFFICES ASSUME k + 1 <= m PROVE Total(k + 1, h) = gfMul(c, Total(k + 1, f))
    OBVIOUS
  <2>1. Total(k, h) = gfMul(c, Total(k, f)) /\ h[k + 1] = gfMul(c, f[k + 1])
    BY <1>2
  <2>2. Total(k, f) \in Element /\ f[k + 1] \in Element
    <3>1. Elements(k, f) /\ f[k + 1] \in Element
      BY DEF Elements
    <3> QED
      BY <3>1, TotalType
  <2>3. Total(k + 1, h) = Total(k, h) \oplus h[k + 1]
    BY TotalNext
  <2>4. Total(k + 1, f) = Total(k, f) \oplus f[k + 1]
    BY TotalNext
  <2>5. gfMul(c, Total(k, f) \oplus f[k + 1]) = gfMul(c, Total(k, f)) \oplus gfMul(c, f[k + 1])
    BY <2>2, MulOverRightSum
  <2> QED
    BY <2>1, <2>3, <2>4, <2>5
<1> HIDE DEF S
<1>3. Nat \subseteq S
  BY <1>1, <1>2, EveryNatural
<1> QED
  BY <1>3 DEF S

-----------------------------------------------------------------------------
(* Feedback registers.                                                     *)

Terms(s, S, j) == [i \in Nat |-> gfMul(s[i], S[j - i])]

\* What the register of length L with the coefficients s makes of the sequence S at j.
Register(s, S, L, j) == XorOver(0 .. L, LAMBDA i : gfMul(s[i], S[j - i]))

LEMMA RegisterIsTotal ==
    ASSUME NEW s, NEW S, NEW L \in Nat, NEW j
    PROVE  Register(s, S, L, j) = Total(L, Terms(s, S, j))
<1> DEFINE t == [i \in 0 .. L |-> gfMul(s[i], S[j - i])]
           u == [i \in 0 .. L |-> Terms(s, S, j)[i]]
           Sum(f) == {b \in UNION {f[i] : i \in 0 .. L} :
                        Odd(Cardinality({i \in 0 .. L : b \in f[i]}))}
<1>1. t = u
  BY DEF Terms
<1>2. Register(s, S, L, j) = Sum(t)
  BY DEF Register, XorOver
<1>3. Total(L, Terms(s, S, j)) = Sum(u)
  BY DEF Total, XorOver
<1> HIDE DEF t, u, Sum
<1> QED
  BY <1>1, <1>2, <1>3

LEMMA TermsType ==
    ASSUME NEW N \in Nat, NEW S \in [0 .. N - 1 -> Element], NEW j \in 0 .. N - 1,
           NEW L \in 0 .. j, NEW s, \A i \in 0 .. L : s[i] \in Element
    PROVE  Elements(L, Terms(s, S, j))
<1> SUFFICES ASSUME NEW i \in 0 .. L PROVE Terms(s, S, j)[i] \in Element
  BY DEF Elements
<1>1. Terms(s, S, j)[i] = gfMul(s[i], S[j - i]) /\ S[j - i] \in Element /\ s[i] \in Element
  BY DEF Terms
<1> QED
  BY <1>1, MulType

\* The register of a sum: this is what correcting sigma by dd * xSigmaP
\* does to what it makes of the syndromes.
LEMMA RegisterCorrected ==
    ASSUME NEW N \in Nat, NEW S \in [0 .. N - 1 -> Element], NEW j \in 0 .. N - 1,
           NEW L \in 0 .. j, NEW q \in Element, NEW s, NEW x, NEW r,
           \A i \in 0 .. L : s[i] \in Element /\ x[i] \in Element
                             /\ r[i] = s[i] \oplus gfMul(q, x[i])
    PROVE  Register(r, S, L, j)
               = Register(s, S, L, j) \oplus gfMul(q, Register(x, S, L, j))
<1> DEFINE f == Terms(s, S, j)
           g == Terms(x, S, j)
           h == Terms(r, S, j)
           e == [i \in Nat |-> gfMul(q, g[i])]
<1>1. \A i \in 0 .. L : h[i] = f[i] \oplus e[i]
  <2> SUFFICES ASSUME NEW i \in 0 .. L PROVE h[i] = f[i] \oplus e[i]
    OBVIOUS
  <2>1. /\ f[i] = gfMul(s[i], S[j - i]) /\ e[i] = gfMul(q, gfMul(x[i], S[j - i]))
        /\ h[i] = gfMul(r[i], S[j - i])
    BY DEF Terms
  <2>2. S[j - i] \in Element /\ s[i] \in Element /\ x[i] \in Element /\ gfMul(q, x[i]) \in Element
    BY MulType
  <2>3. gfMul(s[i] \oplus gfMul(q, x[i]), S[j - i])
          = gfMul(s[i], S[j - i]) \oplus gfMul(gfMul(q, x[i]), S[j - i])
    BY <2>2, MulOverSum
  <2>4. gfMul(gfMul(q, x[i]), S[j - i]) = gfMul(q, gfMul(x[i], S[j - i]))
    BY <2>2, MulAssociates
  <2> QED
    BY <2>1, <2>3, <2>4
<1>2. Elements(L, g)
  BY TermsType
<1>3. \A i \in 0 .. L : e[i] = gfMul(q, g[i])
  OBVIOUS
<1>4. L \in Nat
  OBVIOUS
<1> HIDE DEF f, g, h, e
<1>5. Total(L, h) = Total(L, f) \oplus Total(L, e)
  BY <1>1, <1>4, TotalOfSum
<1>6. Total(L, e) = gfMul(q, Total(L, g))
  BY <1>2, <1>3, <1>4, TotalScaled
<1> QED
  BY <1>4, <1>5, <1>6, RegisterIsTotal DEF f, g, h

LEMMA RegisterTail ==
    ASSUME NEW N \in Nat, NEW S \in [0 .. N - 1 -> Element], NEW j \in 0 .. N - 1,
           NEW M \in 0 .. j, NEW L \in 0 .. M, NEW s, \A i \in L + 1 .. M : s[i] = Zero
    PROVE  Register(s, S, M, j) = Register(s, S, L, j)
<1>1. ASSUME NEW i \in L + 1 .. M PROVE Terms(s, S, j)[i] = Zero
  <2>1. Terms(s, S, j)[i] = gfMul(Zero, S[j - i]) /\ S[j - i] \in Element
    BY DEF Terms
  <2> QED
    BY <2>1, ZeroTimes
<1>2. L \in Nat /\ M \in Nat /\ L <= M
  OBVIOUS
<1>3. Total(M, Terms(s, S, j)) = Total(L, Terms(s, S, j))
  BY <1>1, <1>2, TotalTail
<1> QED
  BY <1>2, <1>3, RegisterIsTotal

\* xSigmaP moves up by one place with each turn.
LEMMA RegisterShifted ==
    ASSUME NEW N \in Nat, NEW S \in [0 .. N - 1 -> Element], NEW L \in Nat,
           NEW j \in L + 1 .. N - 1, NEW s, NEW x,
           x[0] = Zero, \A i \in 0 .. L : x[i + 1] = s[i]
    PROVE  Register(x, S, L + 1, j) = Register(s, S, L, j - 1)
<1> DEFINE g == Terms(x, S, j)
           f == Terms(s, S, j - 1)
<1>1. g[0] = Zero
  <2>1. g[0] = gfMul(Zero, S[j - 0]) /\ S[j - 0] \in Element
    BY DEF Terms
  <2> QED
    BY <2>1, ZeroTimes
<1>2. ASSUME NEW i \in 0 .. L PROVE g[i + 1] = f[i]
  <2>1. i + 1 \in Nat /\ j - (i + 1) = (j - 1) - i
    OBVIOUS
  <2> QED
    BY <2>1 DEF Terms
<1> HIDE DEF f, g
<1>3. Total(L + 1, g) = Total(L, f)
  BY <1>1, <1>2, TotalShifted
<1> QED
  BY <1>3, RegisterIsTotal DEF f, g

\* The discrepancy newD computes, with the coefficient 1 of sigma left out
\* and over the terms up to limit, whichever of them are zero.
LEMMA RegisterFromOne ==
    ASSUME NEW N \in Nat, NEW S \in [0 .. N - 1 -> Element], NEW m \in Nat, m + 1 < N,
           NEW M \in 0 .. m + 1, NEW L \in 0 .. M, NEW s, s[0] = One,
           \A i \in L + 1 .. M : s[i] = Zero
    PROVE  S[m + 1] \oplus XorOver(1 .. M, LAMBDA i : gfMul(s[i], S[m + 1 - i]))
               = Register(s, S, L, m + 1)
<1> DEFINE j == m + 1
           f == Terms(s, S, j)
           t == [i \in 1 .. M |-> gfMul(s[i], S[m + 1 - i])]
           u == [i \in 1 .. M |-> f[i]]
           Sum(a) == {b \in UNION {a[i] : i \in 1 .. M} :
                        Odd(Cardinality({i \in 1 .. M : b \in a[i]}))}
           given == XorOver(1 .. M, LAMBDA i : gfMul(s[i], S[m + 1 - i]))
<1>1. t = u
  <2>1. ASSUME NEW i \in 1 .. M PROVE gfMul(s[i], S[m + 1 - i]) = f[i]
    <3>1. m + 1 - i = j - i /\ i \in Nat
      OBVIOUS
    <3> QED
      BY <3>1 DEF Terms
  <2> HIDE DEF f
  <2> QED
    BY <2>1
<1>2. given = Sum(t)
  BY DEF XorOver
<1>3. Rest(M, f) = Sum(u)
  BY DEF Rest, XorOver
<1>4. f[0] = S[j]
  <2>1. f[0] = gfMul(One, S[j]) /\ S[j] \in Element
    BY DEF Terms
  <2> QED
    BY <2>1, FieldAssumption
<1>5. M \in Nat
  OBVIOUS
<1> HIDE DEF t, u, Sum
<1>6. Total(M, f) = f[0] \oplus Rest(M, f)
  BY <1>5, TotalFromOne
<1>7. Register(s, S, M, j) = Total(M, f)
  BY <1>5, RegisterIsTotal
<1>8. Register(s, S, M, j) = Register(s, S, L, j)
  <2>1. j \in 0 .. N - 1 /\ M \in 0 .. j
    OBVIOUS
  <2> HIDE DEF j
  <2> QED
    BY <2>1, RegisterTail
<1> HIDE DEF f, given
<1>9. S[j] \oplus given = Register(s, S, L, j)
  BY <1>1, <1>2, <1>3, <1>4, <1>6, <1>7, <1>8
<1> QED
  BY <1>9 DEF given

-----------------------------------------------------------------------------
(* The invariant of computeElp's coefficients.                             *)

\* No coefficient of s above index L is left, up to the delta that are kept.
Whole(s, L) == \A i \in L + 1 .. p.delta : s[i] = Zero

ArrayInv ==
    /\ syndromes \in [0 .. 2 * p.delta - 1 -> Element]
    /\ sigma \in [0 .. 2^p.fft - 1 -> Element]
    /\ mu < 2 * p.delta =>
           /\ xSigmaP \in [0 .. p.delta -> Element] /\ xSigmaP[0] = Zero
           /\ d \in Element /\ dP \in Element /\ dP # Zero

\* sigma, while nothing of it is cut off: what KeyEquation says of it, and its shape.
SigmaInv ==
    degSigma <= p.delta =>
        /\ sigma[0] = One /\ Whole(sigma, degSigma)
        /\ \A j \in degSigma .. mu - 1 : Register(sigma, syndromes, degSigma, j) = Zero
        /\ mu < 2 * p.delta => d = Register(sigma, syndromes, degSigma, mu)

\* X^(mu - rho) * sigma_rho misses syndrome mu by dP and none before it.
PreviousInv ==
    (mu < 2 * p.delta /\ degSigma <= p.delta /\ degXSigmaP <= p.delta) =>
        /\ Whole(xSigmaP, degXSigmaP)
        /\ rho # -1 =>
               /\ \A j \in degXSigmaP .. mu - 1 :
                      Register(xSigmaP, syndromes, degXSigmaP, j) = Zero
               /\ Register(xSigmaP, syndromes, degXSigmaP, mu) = dP

CoefficientInv == syndromes # << >> => ArrayInv /\ SigmaInv /\ PreviousInv

\* The parameters the arrays are declared with.
LEMMA SizeFacts ==
    ASSUME p \in ParamSets
    PROVE  /\ p.delta \in Nat /\ p.delta > 0 /\ 2^p.fft \in Nat
           /\ 0 .. p.delta \subseteq 0 .. 2^p.fft - 1
<1>1. p.delta \in Nat /\ p.delta > 0 /\ 2^p.fft \in Nat /\ p.delta < 2^p.fft
  BY ParamSetsAssumption
<1> DEFINE w == 2^p.fft
<1> HIDE DEF w
<1>2. w \in Nat /\ p.delta < w
  BY <1>1 DEF w
<1>3. 0 .. p.delta \subseteq 0 .. w - 1
  BY <1>1, <1>2
<1> QED
  BY <1>1, <1>3 DEF w

LEMMA KeyEquationFollows == IInv /\ CoefficientInv => KeyEquation
<1> SUFFICES ASSUME IInv, CoefficientInv, syndromes # << >>, degSigma <= p.delta
             PROVE  /\ \A j \in degSigma .. mu - 1 :
                          XorOver(0 .. degSigma, LAMBDA i : gfMul(sigma[i], syndromes[j - i])) = Zero
                    /\ mu < 2 * p.delta =>
                          d = XorOver(0 .. degSigma, LAMBDA i : gfMul(sigma[i], syndromes[mu - i]))
  BY DEF KeyEquation
<1> QED
  BY DEF CoefficientInv, SigmaInv, Register

\* What a turn adds to sigma.
LEMMA TurnTypes ==
    ASSUME IInv, CoefficientInv, syndromes # << >>, mu < 2 * p.delta
    PROVE  /\ limit \in 0 .. p.delta /\ limit \in 0 .. mu + 1
           /\ (limit = p.delta \/ limit = mu + 1)
           /\ dd \in Element
           /\ newSigma \in [0 .. 2^p.fft - 1 -> Element]
           /\ \A i \in 0 .. limit : newSigma[i] = sigma[i] \oplus gfMul(dd, xSigmaP[i])
           /\ \A i \in limit + 1 .. p.delta : newSigma[i] = sigma[i]
<1>1. p \in ParamSets /\ mu \in Nat
  BY DegreesOfATurn DEF IInv
<1>2. limit \in 0 .. p.delta /\ limit \in 0 .. mu + 1 /\ (limit = p.delta \/ limit = mu + 1)
  BY <1>1, SizeFacts DEF limit
<1>3. ArrayInv
  BY DEF CoefficientInv
<1>4. dd \in Element
  BY <1>3, QuotientTimes DEF ArrayInv, dd
<1> DEFINE w == 2^p.fft
<1>5. 0 .. p.delta \subseteq 0 .. w - 1 /\ sigma \in [0 .. w - 1 -> Element]
  BY <1>1, <1>3, SizeFacts DEF ArrayInv
<1> HIDE DEF w
<1>6. ASSUME NEW i \in 0 .. limit
      PROVE  /\ i \in 0 .. w - 1 /\ xSigmaP[i] \in Element /\ sigma[i] \in Element
             /\ gfMul(dd, xSigmaP[i]) \in Element
  <2>1. i \in 0 .. p.delta
    BY <1>1, <1>2, SizeFacts
  <2>2. i \in 0 .. w - 1 /\ xSigmaP[i] \in Element /\ sigma[i] \in Element
    BY <1>3, <1>5, <2>1 DEF ArrayInv
  <2> QED
    BY <1>4, <2>2, MulType
<1>7. newSigma = [i \in 0 .. w - 1 |->
                    IF i \in 1 .. limit THEN sigma[i] \oplus gfMul(dd, xSigmaP[i]) ELSE sigma[i]]
  BY <1>5 DEF newSigma
<1>8. newSigma \in [0 .. w - 1 -> Element]
  <2>1. ASSUME NEW i \in 1 .. limit PROVE sigma[i] \oplus gfMul(dd, xSigmaP[i]) \in Element
    BY <1>2, <1>6, SumType
  <2> QED
    BY <1>5, <1>7, <2>1
<1>9. ASSUME NEW i \in 0 .. limit
      PROVE  newSigma[i] = sigma[i] \oplus gfMul(dd, xSigmaP[i])
  <2>1. CASE i = 0
    <3>1. xSigmaP[0] = Zero /\ gfMul(dd, Zero) = Zero /\ sigma[0] \oplus Zero = sigma[0]
      BY <1>3, <1>4, ZeroTimes, SumLaws DEF ArrayInv
    <3>2. newSigma[0] = sigma[0]
      BY <1>6, <1>7, <2>1
    <3> QED
      BY <2>1, <3>1, <3>2
  <2>2. CASE i # 0
    BY <1>2, <1>6, <1>7, <2>2
  <2> QED
    BY <2>1, <2>2
<1>10. ASSUME NEW i \in limit + 1 .. p.delta PROVE newSigma[i] = sigma[i]
  <2>1. i \in 0 .. p.delta /\ i \notin 1 .. limit
    BY <1>1, <1>2, SizeFacts
  <2>2. i \in 0 .. w - 1
    BY <1>5, <2>1
  <2> QED
    BY <1>7, <2>1, <2>2
<1> QED
  BY <1>2, <1>4, <1>8, <1>9, <1>10 DEF w

LEMMA RegisterSame ==
    ASSUME NEW S, NEW L \in Nat, NEW j, NEW s, NEW r, \A i \in 0 .. L : r[i] = s[i]
    PROVE  Register(r, S, L, j) = Register(s, S, L, j)
<1>1. \A i \in 0 .. L : Terms(r, S, j)[i] = Terms(s, S, j)[i]
  BY DEF Terms
<1> QED
  BY <1>1, TotalSame, RegisterIsTotal

\* While rho is -1, xSigmaP is beyond every syndrome there is.
LEMMA RhoFacts ==
    ASSUME IInv, mu < 2 * p.delta
    PROVE  \/ rho = -1 /\ degXSigmaP = mu + 1
           \/ rho \in 0 .. mu - 1 /\ degXSigmaP \in 1 .. mu
<1>1. mu \in Nat /\ mu < Modulus - 1 /\ degXSigmaP = mu - rho + degSigmaP
  BY DegreesOfATurn, DeltaBounds, ModulusAssumption DEF IInv
<1>2. CASE pp = Modulus - 1 /\ degSigmaP = 0
  BY <1>1, <1>2 DEF rho
<1>3. CASE pp \in 0 .. mu - 1 /\ degSigmaP \in 0 .. pp
  BY <1>1, <1>3, ModulusAssumption DEF rho
<1> QED
  BY <1>2, <1>3 DEF IInv, DegreeBounds

\* After the turn sigma generates one syndrome more.
LEMMA TurnOfSigma ==
    ASSUME IInv, CoefficientInv, syndromes # << >>, mu < 2 * p.delta, newDegree <= p.delta
    PROVE  /\ newDegree \in 0 .. limit
           /\ newSigma[0] = One /\ Whole(newSigma, newDegree)
           /\ \A j \in newDegree .. mu : Register(newSigma, syndromes, newDegree, j) = Zero
<1> DEFINE L == degSigma
           e == degXSigmaP
           K == newDegree
           N == 2 * p.delta
           S == syndromes
<1>1. /\ mu \in Nat /\ L \in 0 .. mu /\ e \in 0 .. mu + 1
      /\ lengthens <=> (d # Zero /\ e > L)
      /\ p.delta \in Nat /\ p.delta > 0 /\ p \in ParamSets
  BY DegreesOfATurn, SizeFacts DEF IInv
<1>2. /\ limit \in 0 .. p.delta /\ limit \in 0 .. mu + 1
      /\ (limit = p.delta \/ limit = mu + 1)
      /\ dd \in Element
      /\ \A i \in 0 .. limit : newSigma[i] = sigma[i] \oplus gfMul(dd, xSigmaP[i])
      /\ \A i \in limit + 1 .. p.delta : newSigma[i] = sigma[i]
  BY TurnTypes
<1>3. K = IF lengthens THEN e ELSE L
  BY DEF newDegree
<1>4. K \in L .. mu + 1 /\ K \in 0 .. limit /\ L <= p.delta /\ K <= p.delta
  BY <1>1, <1>2, <1>3
<1>5. /\ ArrayInv /\ sigma[0] = One /\ Whole(sigma, L)
      /\ \A j \in L .. mu - 1 : Register(sigma, S, L, j) = Zero
      /\ d = Register(sigma, S, L, mu)
  BY <1>4 DEF CoefficientInv, SigmaInv
<1>6. /\ xSigmaP[0] = Zero /\ d \in Element /\ dP \in Element /\ dP # Zero
      /\ S \in [0 .. N - 1 -> Element] /\ N \in Nat
      /\ \A i \in 0 .. p.delta : sigma[i] \in Element /\ xSigmaP[i] \in Element
  BY <1>1, <1>5, SizeFacts, SMTT(30) DEF ArrayInv
<1> HIDE DEF L, e, K, N, S
<1>7. CASE d = Zero
  <2>1. K = L
    BY <1>1, <1>3, <1>7
  <2>2. dd = Zero
    <3>1. dd = gfMul(Zero, gfInverse(dP)) /\ gfInverse(dP) \in Element
      BY <1>6, <1>7, FieldAssumption DEF dd
    <3> QED
      BY <3>1, ZeroTimes
  <2>3. \A i \in 0 .. p.delta : newSigma[i] = sigma[i]
    <3>1. ASSUME NEW i \in 0 .. limit PROVE newSigma[i] = sigma[i]
      <4>1. xSigmaP[i] \in Element
        BY <1>1, <1>2, <1>6
      <4>2. gfMul(dd, xSigmaP[i]) = Zero /\ sigma[i] \oplus Zero = sigma[i]
        BY <2>2, <4>1, ZeroTimes, SumLaws
      <4> QED
        BY <1>2, <4>2
    <3> QED
      BY <1>1, <1>2, <3>1
  <2>4. newSigma[0] = One /\ Whole(newSigma, K)
    BY <1>1, <1>4, <1>5, <2>1, <2>3 DEF Whole
  <2>5. ASSUME NEW j \in K .. mu PROVE Register(newSigma, S, K, j) = Zero
    <3>1. Register(newSigma, S, K, j) = Register(sigma, S, K, j)
      BY <1>1, <1>4, <2>3, RegisterSame
    <3>2. CASE j < mu
      BY <1>1, <1>4, <1>5, <2>1, <3>1, <3>2
    <3>3. CASE j = mu
      BY <1>5, <1>7, <2>1, <3>1, <3>3
    <3> QED
      BY <1>1, <1>4, <3>2, <3>3
  <2> QED
    BY <1>4, <2>4, <2>5 DEF K, S
<1>8. CASE d # Zero
  <2>1. e <= K /\ e \in Nat
    BY <1>1, <1>3, <1>8
  <2>2. /\ Whole(xSigmaP, e)
        /\ rho # -1 =>
               /\ \A j \in e .. mu - 1 : Register(xSigmaP, S, e, j) = Zero
               /\ Register(xSigmaP, S, e, mu) = dP
    <3>1. degSigma <= p.delta /\ degXSigmaP <= p.delta
      BY <1>1, <1>4, <2>1 DEF L, e
    <3> QED
      BY <3>1 DEF CoefficientInv, PreviousInv, e, S
  <2>3. newSigma[0] = One
    <3>1. gfMul(dd, Zero) = Zero /\ One \oplus Zero = One /\ 0 \in 0 .. limit
      BY <1>2, ZeroTimes, SumLaws
    <3> QED
      BY <1>2, <1>5, <1>6, <3>1
  <2>4. Whole(newSigma, K)
    <3> SUFFICES ASSUME NEW i \in K + 1 .. p.delta PROVE newSigma[i] = Zero
      BY DEF Whole
    <3>1. sigma[i] = Zero /\ xSigmaP[i] = Zero
      <4>1. i \in L + 1 .. p.delta /\ i \in e + 1 .. p.delta
        BY <1>1, <1>4, <2>1
      <4> QED
        BY <1>5, <2>2, <4>1 DEF Whole
    <3>2. gfMul(dd, Zero) = Zero /\ Zero \oplus Zero = Zero
      BY <1>2, ZeroTimes, SumLaws
    <3>3. CASE i <= limit
      <4>1. i \in 0 .. limit
        BY <1>2, <1>4, <3>3
      <4> QED
        BY <1>2, <3>1, <3>2, <4>1
    <3>4. CASE ~(i <= limit)
      <4>1. i \in limit + 1 .. p.delta
        BY <1>2, <1>4, <3>4
      <4> QED
        BY <1>2, <3>1, <4>1
    <3> QED
      BY <3>3, <3>4
  <2>5. ASSUME NEW j \in K .. mu PROVE Register(newSigma, S, K, j) = Zero
    <3>1. rho # -1
      BY <1>1, <1>4, <2>1, RhoFacts DEF e
    <3>2. j \in 0 .. N - 1 /\ K \in 0 .. j /\ L \in 0 .. K /\ e \in 0 .. K
      BY <1>1, <1>4, <2>1 DEF N
    <3>3. \A i \in 0 .. K : sigma[i] \in Element /\ xSigmaP[i] \in Element
                            /\ newSigma[i] = sigma[i] \oplus gfMul(dd, xSigmaP[i])
      BY <1>1, <1>2, <1>4, <1>6
    <3>4. Register(newSigma, S, K, j)
            = Register(sigma, S, K, j) \oplus gfMul(dd, Register(xSigmaP, S, K, j))
      BY <1>2, <1>6, <3>2, <3>3, RegisterCorrected
    <3>5. Register(sigma, S, K, j) = Register(sigma, S, L, j)
      <4>1. \A i \in L + 1 .. K : sigma[i] = Zero
        BY <1>1, <1>4, <1>5 DEF Whole
      <4> QED
        BY <1>6, <3>2, <4>1, RegisterTail
    <3>6. Register(xSigmaP, S, K, j) = Register(xSigmaP, S, e, j)
      <4>1. \A i \in e + 1 .. K : xSigmaP[i] = Zero
        BY <1>1, <1>4, <2>2 DEF Whole
      <4> QED
        BY <1>6, <3>2, <4>1, RegisterTail
    <3>7. CASE j < mu
      <4>1. Register(sigma, S, L, j) = Zero /\ Register(xSigmaP, S, e, j) = Zero
        BY <1>1, <1>5, <2>2, <3>1, <3>2, <3>7
      <4>2. gfMul(dd, Zero) = Zero /\ Zero \oplus Zero = Zero
        BY <1>2, ZeroTimes, SumLaws
      <4> QED
        BY <3>4, <3>5, <3>6, <4>1, <4>2
    <3>8. CASE j = mu
      <4>1. Register(sigma, S, L, j) = d /\ Register(xSigmaP, S, e, j) = dP
        BY <1>5, <2>2, <3>1, <3>8
      <4>2. gfMul(dd, dP) = d /\ d \oplus d = Zero
        BY <1>6, QuotientTimes, SumLaws DEF dd
      <4> QED
        BY <3>4, <3>5, <3>6, <4>1, <4>2
    <3> QED
      BY <1>1, <3>2, <3>7, <3>8
  <2> QED
    BY <1>4, <2>3, <2>4, <2>5 DEF K, S
<1> QED
  BY <1>7, <1>8

\* xSigmaP moves up by one place in each turn, or restarts from sigma.
LEMMA DegreeOfNextTurn ==
    ASSUME IInv, syndromes # << >>, ElpStep
    PROVE  /\ degXSigmaP' = (IF lengthens THEN degSigma ELSE degXSigmaP) + 1
           /\ rho' = IF lengthens THEN mu ELSE rho
<1>1. /\ mu \in Nat /\ degSigma \in 0 .. mu /\ degXSigmaP \in 0 .. mu + 1
      /\ degXSigmaP = mu - rho + degSigmaP
      /\ 2 * (mu + 2) < Modulus
  <2>1. p \in ParamSets /\ mu < 2 * p.delta
    BY DeltaBounds DEF ElpStep, IInv
  <2>2. mu \in Nat /\ degSigma \in 0 .. mu /\ degXSigmaP \in 0 .. mu + 1
        /\ degXSigmaP = mu - rho + degSigmaP
    BY <2>1, DegreesOfATurn
  <2> QED
    BY <2>1, <2>2, DeltaBounds, ModulusAssumption DEF ElpStep
<1>2. CASE lengthens
  <2>1. mu' = mu + 1 /\ pp' = mu /\ degSigmaP' = degSigma
    BY <1>2 DEF ElpStep
  <2>2. rho' = mu /\ degXSigmaP' = Plus(Minus(mu + 1, mu), degSigma)
    BY <1>1, <2>1, ModulusAssumption DEF rho, degXSigmaP, degX
  <2>3. Plus(Minus(mu + 1, mu), degSigma) = degSigma + 1
    BY <1>1, ModulusAssumption DEF Plus, Minus
  <2> QED
    BY <1>2, <2>2, <2>3
<1>3. CASE ~lengthens
  <2>1. mu' = mu + 1 /\ pp' = pp /\ degSigmaP' = degSigmaP
    BY <1>3 DEF ElpStep
  <2>2. rho' = rho /\ degXSigmaP' = Plus(Minus(mu + 1, pp), degSigmaP)
    BY <2>1 DEF rho, degXSigmaP, degX
  <2>3. Plus(Minus(mu + 1, pp), degSigmaP) = degXSigmaP + 1
    <3>1. CASE pp = Modulus - 1 /\ degSigmaP = 0
      <4>1. degXSigmaP = mu + 1
        BY <1>1, <3>1, ModulusAssumption DEF rho
      <4>2. Minus(mu + 1, pp) = mu + 2
        BY <1>1, <3>1, ModulusAssumption DEF Minus
      <4> QED
        BY <1>1, <3>1, <4>1, <4>2, ModulusAssumption DEF Plus
    <3>2. CASE pp \in 0 .. mu - 1 /\ degSigmaP \in 0 .. pp
      <4>1. degXSigmaP = mu - pp + degSigmaP
        BY <1>1, <3>2, ModulusAssumption DEF rho
      <4>2. Minus(mu + 1, pp) = (mu + 1) - pp
        BY <1>1, <3>2, ModulusAssumption DEF Minus
      <4> QED
        BY <1>1, <3>2, <4>1, <4>2, ModulusAssumption DEF Plus
    <3> QED
      BY <3>1, <3>2, DeltaBounds DEF IInv, DegreeBounds, ElpStep
  <2> QED
    BY <1>3, <2>2, <2>3
<1> QED
  BY <1>2, <1>3

\* The array that xSigmaP becomes.
newX == [i \in 0 .. p.delta |->
            IF i = 0 THEN xSigmaP[0] ELSE IF lengthens THEN sigma[i - 1] ELSE xSigmaP[i - 1]]

LEMMA NewXType ==
    ASSUME IInv, CoefficientInv, syndromes # << >>, mu < 2 * p.delta
    PROVE  /\ newX \in [0 .. p.delta -> Element] /\ newX[0] = Zero
           /\ \A i \in 0 .. p.delta - 1 :
                  newX[i + 1] = IF lengthens THEN sigma[i] ELSE xSigmaP[i]
<1>1. /\ xSigmaP \in [0 .. p.delta -> Element] /\ xSigmaP[0] = Zero
      /\ p.delta \in Nat
      /\ \A i \in 0 .. p.delta : sigma[i] \in Element
  BY SizeFacts DEF IInv, CoefficientInv, ArrayInv
<1> DEFINE source == IF lengthens THEN sigma ELSE xSigmaP
           n == p.delta
<1>2. newX = [i \in 0 .. n |-> IF i = 0 THEN xSigmaP[0] ELSE source[i - 1]]
  BY DEF newX
<1>3. \A i \in 0 .. n : source[i] \in Element
  BY <1>1
<1>4. \A i \in 0 .. n : source[i] = IF lengthens THEN sigma[i] ELSE xSigmaP[i]
  OBVIOUS
<1>5. n \in Nat /\ xSigmaP[0] = Zero /\ Zero \in Element
  BY <1>1, BitIsElement
<1> HIDE DEF source, n
<1>6. newX \in [0 .. n -> Element]
  <2>1. ASSUME NEW i \in 0 .. n PROVE (IF i = 0 THEN xSigmaP[0] ELSE source[i - 1]) \in Element
    BY <1>3, <1>5
  <2> QED
    BY <1>2, <2>1
<1>7. newX[0] = Zero
  BY <1>2, <1>5
<1>8. \A i \in 0 .. n - 1 : newX[i + 1] = source[i]
  BY <1>2, <1>5
<1>9. \A i \in 0 .. n - 1 : newX[i + 1] = IF lengthens THEN sigma[i] ELSE xSigmaP[i]
  BY <1>4, <1>5, <1>8
<1> QED
  BY <1>6, <1>7, <1>9 DEF n

\* After the turn xSigmaP misses the next syndrome by the new dP and none before it.
LEMMA TurnOfPrevious ==
    ASSUME IInv, CoefficientInv, syndromes # << >>, ElpStep,
           NEW e, e = (IF lengthens THEN degSigma ELSE degXSigmaP) + 1,
           e <= p.delta, newDegree <= p.delta
    PROVE  /\ Whole(newX, e)
           /\ (lengthens \/ rho # -1) =>
                  /\ \A j \in e .. mu : Register(newX, syndromes, e, j) = Zero
                  /\ Register(newX, syndromes, e, mu + 1) = IF lengthens THEN d ELSE dP
<1> DEFINE N == 2 * p.delta
           S == syndromes
           L == IF lengthens THEN degSigma ELSE degXSigmaP
           s == IF lengthens THEN sigma ELSE xSigmaP
<1>1. /\ mu \in Nat /\ mu < 2 * p.delta /\ degSigma \in 0 .. mu /\ degXSigmaP \in 0 .. mu + 1
      /\ lengthens => degSigma < degXSigmaP
      /\ p.delta \in Nat /\ mu + 1 < N /\ N \in Nat
  <2>1. p \in ParamSets /\ mu \in Nat /\ mu < 2 * p.delta - 1 /\ p.delta \in Nat
    BY DeltaBounds DEF IInv, ElpStep
  <2>2. mu < 2 * p.delta /\ mu + 1 < N /\ N \in Nat
    BY <2>1
  <2>3. degSigma \in 0 .. mu /\ degXSigmaP \in 0 .. mu + 1
        /\ (lengthens => degXSigmaP > degSigma)
    BY <2>2, DegreesOfATurn
  <2> QED
    BY <2>1, <2>2, <2>3
<1>2. degSigma <= p.delta /\ (~lengthens => degXSigmaP <= p.delta) /\ L \in Nat /\ L + 1 = e
  BY <1>1 DEF newDegree
<1>3. /\ newX[0] = Zero
      /\ \A i \in 0 .. p.delta - 1 : newX[i + 1] = s[i]
  BY <1>1, NewXType
<1>4. S \in [0 .. N - 1 -> Element]
  BY DEF CoefficientInv, ArrayInv
<1>5. /\ Whole(s, L)
      /\ (lengthens \/ rho # -1) =>
             /\ \A j \in L .. mu - 1 : Register(s, S, L, j) = Zero
             /\ Register(s, S, L, mu) = IF lengthens THEN d ELSE dP
  <2>1. CASE lengthens
    BY <1>1, <1>2, <2>1 DEF CoefficientInv, SigmaInv
  <2>2. CASE ~lengthens
    BY <1>1, <1>2, <2>2 DEF CoefficientInv, PreviousInv
  <2> QED
    BY <2>1, <2>2
<1> DEFINE miss == IF lengthens THEN d ELSE dP
           after == lengthens \/ rho # -1
<1> HIDE DEF N, S, L, s, miss, after
<1>6. Whole(newX, e)
  <2> SUFFICES ASSUME NEW i \in e + 1 .. p.delta PROVE newX[i] = Zero
    BY DEF Whole
  <2>1. i - 1 \in L + 1 .. p.delta /\ i - 1 \in 0 .. p.delta - 1 /\ (i - 1) + 1 = i
    BY <1>1, <1>2
  <2>2. newX[(i - 1) + 1] = s[i - 1] /\ s[i - 1] = Zero
    BY <1>3, <1>5, <2>1 DEF Whole
  <2> QED
    BY <2>1, <2>2
<1>7. ASSUME NEW j \in L + 1 .. mu + 1
      PROVE  Register(newX, S, L + 1, j) = Register(s, S, L, j - 1)
  <2>1. \A i \in 0 .. L : newX[i + 1] = s[i]
    BY <1>1, <1>2, <1>3
  <2>2. j \in L + 1 .. N - 1
    BY <1>1, <1>2
  <2> QED
    BY <1>1, <1>2, <1>3, <1>4, <2>1, <2>2, RegisterShifted
<1>8. ASSUME after, NEW j \in e .. mu PROVE Register(newX, S, e, j) = Zero
  <2>1. j \in L + 1 .. mu + 1 /\ j - 1 \in L .. mu - 1
    BY <1>1, <1>2
  <2> QED
    BY <1>2, <1>5, <1>7, <1>8, <2>1 DEF after
<1>9. ASSUME after PROVE Register(newX, S, e, mu + 1) = miss
  <2>1. mu + 1 \in L + 1 .. mu + 1 /\ (mu + 1) - 1 = mu
    <3>1. L <= mu
      BY <1>1, <1>9, RhoFacts DEF L, after
    <3> QED
      BY <1>1, <1>2, <3>1
  <2> QED
    BY <1>2, <1>5, <1>7, <1>9, <2>1 DEF after, miss
<1> QED
  BY <1>6, <1>8, <1>9 DEF after, miss, S


-----------------------------------------------------------------------------
(* Every step of computeElp keeps the invariant.                           *)

LEMMA BeginKeepsCoefficients ==
    ASSUME IInv, NEW s \in [0 .. 2 * p.delta - 1 -> Element], ElpBegin(s)
    PROVE  CoefficientInv'
<1>1. p \in ParamSets /\ p.delta \in Nat /\ p.delta > 0 /\ 4 * p.delta < Modulus
  BY DeltaBounds DEF IInv
<1>2. /\ p' = p /\ syndromes' = s /\ mu' = 0 /\ degSigma' = 0 /\ degSigmaP' = 0
      /\ pp' = Modulus - 1 /\ dP' = One /\ d' = s[0]
      /\ sigma' = [i \in 0 .. 2^p.fft - 1 |-> IF i = 0 THEN One ELSE Zero]
      /\ xSigmaP' = [i \in 0 .. p.delta |-> IF i = 1 THEN One ELSE Zero]
  BY DEF ElpBegin
<1>3. One \in Element /\ Zero \in Element /\ One # Zero
  BY BitIsElement DEF One, Zero
<1>4. s[0] \in Element
  BY <1>1
<1>5. 0 .. p.delta \subseteq 0 .. 2^p.fft - 1
  BY <1>1, SizeFacts
<1>6. sigma'[0] = One /\ \A i \in 1 .. p.delta : sigma'[i] = Zero
  <2> DEFINE w == 2^p.fft
  <2>1. sigma' = [i \in 0 .. w - 1 |-> IF i = 0 THEN One ELSE Zero]
        /\ 0 .. p.delta \subseteq 0 .. w - 1
    BY <1>2, <1>5
  <2> HIDE DEF w
  <2>2. \A i \in 0 .. p.delta : sigma'[i] = IF i = 0 THEN One ELSE Zero
    BY <2>1
  <2> QED
    BY <1>1, <2>2
<1>7. ArrayInv'
  BY <1>1, <1>2, <1>3, <1>4 DEF ArrayInv
<1>8. SigmaInv'
  <2>1. Register(sigma', s, 0, 0) = s[0]
    <3>1. Register(sigma', s, 0, 0) = Terms(sigma', s, 0)[0]
      BY RegisterIsTotal, TotalZero
    <3>2. Terms(sigma', s, 0)[0] = gfMul(sigma'[0], s[0 - 0])
      BY DEF Terms
    <3> QED
      BY <1>4, <1>6, <3>1, <3>2, FieldAssumption
  <2> QED
    BY <1>2, <1>6, <2>1 DEF SigmaInv, Whole
<1>9. PreviousInv'
  <2>1. degXSigmaP' = 1 /\ rho' = -1
    BY <1>1, <1>2, ModulusAssumption DEF degXSigmaP, degX, Minus, Plus, rho
  <2>2. Whole(xSigmaP, 1)'
    BY <1>2 DEF Whole
  <2> QED
    BY <2>1, <2>2 DEF PreviousInv, Whole
<1> QED
  BY <1>7, <1>8, <1>9 DEF CoefficientInv

LEMMA StepKeepsCoefficients ==
    ASSUME IInv, CoefficientInv, ElpStep
    PROVE  CoefficientInv'
<1> SUFFICES ASSUME syndromes # << >> PROVE (ArrayInv /\ SigmaInv /\ PreviousInv)'
  BY DEF CoefficientInv, ElpStep
<1>1. /\ p \in ParamSets /\ p.delta \in Nat /\ mu \in Nat /\ mu + 1 < 2 * p.delta
      /\ mu < 2 * p.delta
  BY DeltaBounds DEF IInv, ElpStep
<1>2. /\ p' = p /\ syndromes' = syndromes /\ mu' = mu + 1 /\ sigma' = newSigma
      /\ degSigma' = newDegree /\ xSigmaP' = newX /\ d' = newD
      /\ dP' = IF lengthens THEN d ELSE dP
  BY DEF ElpStep, newX
<1>3. /\ syndromes \in [0 .. 2 * p.delta - 1 -> Element]
      /\ d \in Element /\ dP \in Element /\ dP # Zero
  BY <1>1 DEF CoefficientInv, ArrayInv
<1>4. /\ newSigma \in [0 .. 2^p.fft - 1 -> Element]
      /\ limit \in 0 .. mu + 1 /\ limit \in 0 .. p.delta
  BY <1>1, TurnTypes
<1>5. newX \in [0 .. p.delta -> Element] /\ newX[0] = Zero
  BY <1>1, NewXType
<1>6. newD \in Element
  <2> DEFINE t == [i \in 1 .. limit |-> gfMul(newSigma[i], syndromes[mu + 1 - i])]
             sum == XorOver(1 .. limit, LAMBDA i : gfMul(newSigma[i], syndromes[mu + 1 - i]))
  <2>1. sum \subseteq UNION {t[i] : i \in 1 .. limit}
    BY DEF XorOver
  <2>2. ASSUME NEW i \in 1 .. limit PROVE t[i] \in Element
    <3>1. i \in 0 .. p.delta /\ mu + 1 - i \in 0 .. 2 * p.delta - 1
      BY <1>1, <1>4
    <3>2. i \in 0 .. 2^p.fft - 1
      BY <1>1, <3>1, SizeFacts
    <3>3. newSigma[i] \in Element /\ syndromes[mu + 1 - i] \in Element
      BY <1>3, <1>4, <3>1, <3>2
    <3> QED
      BY <3>3, MulType
  <2>3. syndromes[mu + 1] \in Element
    BY <1>1, <1>3
  <2>4. newD = syndromes[mu + 1] \oplus sum
    BY DEF newD
  <2> HIDE DEF t, sum
  <2>5. sum \in Element
    BY <2>1, <2>2 DEF Element
  <2> QED
    BY <2>3, <2>4, <2>5, SumType
<1>7. dP' \in Element /\ dP' # Zero
  <2>1. lengthens => d # Zero
    BY <1>1, DegreesOfATurn
  <2> QED
    BY <1>2, <1>3, <2>1
<1>8. ArrayInv'
  BY <1>2, <1>3, <1>4, <1>5, <1>6, <1>7 DEF ArrayInv
<1>9. SigmaInv'
  <2> SUFFICES ASSUME newDegree <= p.delta
               PROVE  /\ newSigma[0] = One /\ Whole(newSigma, newDegree)
                      /\ \A j \in newDegree .. mu :
                             Register(newSigma, syndromes, newDegree, j) = Zero
                      /\ newD = Register(newSigma, syndromes, newDegree, mu + 1)
    <3>1. (mu + 1) - 1 = mu
      BY <1>1
    <3> QED
      BY <1>2, <3>1 DEF SigmaInv, Whole
  <2>1. /\ newDegree \in 0 .. limit /\ newSigma[0] = One /\ Whole(newSigma, newDegree)
        /\ \A j \in newDegree .. mu : Register(newSigma, syndromes, newDegree, j) = Zero
    BY <1>1, TurnOfSigma
  <2>2. \A i \in newDegree + 1 .. limit : newSigma[i] = Zero
    BY <1>1, <1>4, <2>1 DEF Whole
  <2>3. newD = Register(newSigma, syndromes, newDegree, mu + 1)
    <3> DEFINE N == 2 * p.delta
    <3>1. N \in Nat /\ syndromes \in [0 .. N - 1 -> Element] /\ mu + 1 < N
      BY <1>1, <1>3
    <3> HIDE DEF N
    <3>2. syndromes[mu + 1]
            \oplus XorOver(1 .. limit, LAMBDA i : gfMul(newSigma[i], syndromes[mu + 1 - i]))
              = Register(newSigma, syndromes, newDegree, mu + 1)
      BY <1>1, <1>4, <2>1, <2>2, <3>1, RegisterFromOne, SMTT(30)
    <3> QED
      BY <3>2 DEF newD
  <2> QED
    BY <2>1, <2>3
<1>10. PreviousInv'
  <2> DEFINE e == (IF lengthens THEN degSigma ELSE degXSigmaP) + 1
  <2>1. degXSigmaP' = e /\ rho' = IF lengthens THEN mu ELSE rho
    BY DegreeOfNextTurn
  <2> SUFFICES ASSUME newDegree <= p.delta, e <= p.delta
               PROVE  /\ Whole(newX, e)
                      /\ rho' # -1 =>
                             /\ \A j \in e .. mu : Register(newX, syndromes, e, j) = Zero
                             /\ Register(newX, syndromes, e, mu + 1) = dP'
    <3>1. (mu + 1) - 1 = mu
      BY <1>1
    <3> HIDE DEF e
    <3> QED
      BY <1>2, <2>1, <3>1 DEF PreviousInv, Whole
  <2>2. /\ Whole(newX, e)
        /\ (lengthens \/ rho # -1) =>
               /\ \A j \in e .. mu : Register(newX, syndromes, e, j) = Zero
               /\ Register(newX, syndromes, e, mu + 1) = IF lengthens THEN d ELSE dP
    BY TurnOfPrevious
  <2> QED
    BY <1>2, <2>1, <2>2
<1> QED
  BY <1>8, <1>9, <1>10

\* The last turn leaves no discrepancy to compute.
LEMMA LastKeepsCoefficients ==
    ASSUME IInv, CoefficientInv, ElpLast
    PROVE  CoefficientInv'
<1> SUFFICES ASSUME syndromes # << >> PROVE (ArrayInv /\ SigmaInv /\ PreviousInv)'
  BY DEF CoefficientInv, ElpLast
<1>1. p.delta \in Nat /\ mu \in Nat /\ mu + 1 = 2 * p.delta /\ mu < 2 * p.delta
  BY DeltaBounds DEF IInv, ElpLast
<1>2. /\ p' = p /\ syndromes' = syndromes /\ mu' = 2 * p.delta
      /\ sigma' = newSigma /\ degSigma' = newDegree
  BY <1>1 DEF ElpLast
<1>3. newSigma \in [0 .. 2^p.fft - 1 -> Element]
  BY <1>1, TurnTypes
<1>4. ArrayInv'
  BY <1>1, <1>2, <1>3 DEF CoefficientInv, ArrayInv
<1>5. SigmaInv'
  <2>1. newDegree <= p.delta =>
            /\ newSigma[0] = One /\ Whole(newSigma, newDegree)
            /\ \A j \in newDegree .. mu : Register(newSigma, syndromes, newDegree, j) = Zero
    BY <1>1, TurnOfSigma
  <2>2. 2 * p.delta - 1 = mu
    BY <1>1
  <2> QED
    BY <1>1, <1>2, <2>1, <2>2 DEF SigmaInv, Whole
<1>6. PreviousInv'
  BY <1>1, <1>2 DEF PreviousInv
<1> QED
  BY <1>4, <1>5, <1>6

LEMMA StepCoefficients ==
    IInv /\ CoefficientInv /\ [ElpNext]_<<p, syndromes, elpVars>> => CoefficientInv'
<1> SUFFICES ASSUME IInv, CoefficientInv, [ElpNext]_<<p, syndromes, elpVars>>
             PROVE  CoefficientInv'
  OBVIOUS
<1>1. CASE UNCHANGED <<p, syndromes, elpVars>>
  BY <1>1 DEF elpVars, CoefficientInv, ArrayInv, SigmaInv, PreviousInv, Whole,
              degXSigmaP, degX, rho
<1>2. ASSUME NEW s \in [0 .. 2 * p.delta - 1 -> Element], ElpBegin(s) PROVE CoefficientInv'
  BY <1>2, BeginKeepsCoefficients
<1>3. CASE ElpStep
  BY <1>3, StepKeepsCoefficients
<1>4. CASE ElpLast
  BY <1>4, LastKeepsCoefficients
<1> QED
  BY <1>1, <1>2, <1>3, <1>4 DEF ElpNext

\* Berlekamp's algorithm without branches is correct, for every delta and all
\* syndromes: while the degree is within the radius, the sigma of computeElp is the
\* register that generates the syndromes so far, and the d it carries to the next turn
\* is the amount by which the register misses the next one.
THEOREM RegisterGeneratesSyndromes == ElpSpec => []KeyEquation
<1>1. ElpInit => CoefficientInv
  BY DEF ElpInit, ElpIdle, CoefficientInv
<1> QED
  BY InitBounds, StepBounds, <1>1, StepCoefficients, KeyEquationFollows, PTL DEF ElpSpec

-----------------------------------------------------------------------------
(* The Hadamard transform and the search for its peak.                     *)

\* The integer a word stands for in two's complement.
Signed(t) == IF TopBit(t) THEN t - Modulus ELSE t

Magnitude(n) == IF n < 0 THEN -n ELSE n

Position == 1 .. 128

\* f holds the integers of g, none of them larger than bound.
Holds(f, g, bound) ==
    /\ f \in [Position -> Word]
    /\ \A i \in Position :
           /\ g[i] \in -bound .. bound
           /\ Signed(f[i]) = g[i]

\* The transform over the integers, without the bias of ones and zeros.
intButterfly(g) ==
    [i \in Position |->
        IF i <= 64 THEN g[2 * i - 1] + g[2 * i] ELSE g[2 * (i - 64) - 1] - g[2 * (i - 64)]]

intHadamard(g) ==
    intButterfly(intButterfly(intButterfly(intButterfly(
        intButterfly(intButterfly(intButterfly(g)))))))

intPeaks(src, multiplicity) ==
    LET transform == intHadamard(expandAndSum(src, multiplicity))
    IN  [i \in Position |->
            IF i = 1 THEN transform[1] - 64 * multiplicity ELSE transform[i]]

LEMMA SumOfWords ==
    ASSUME NEW a \in Word, NEW b \in Word, NEW bound \in Nat, 4 * bound < Modulus,
           Signed(a) \in -bound .. bound, Signed(b) \in -bound .. bound
    PROVE  /\ Plus(a, b) \in Word /\ Signed(Plus(a, b)) = Signed(a) + Signed(b)
           /\ Minus(a, b) \in Word /\ Signed(Minus(a, b)) = Signed(a) - Signed(b)
BY ModulusAssumption DEF Word, Signed, TopBit, Plus, Minus

LEMMA FunctionIsSequence ==
    ASSUME NEW S, NEW n \in Nat, NEW f \in [1 .. n -> S]
    PROVE  f \in Seq(S) /\ Len(f) = n
<1>1. f \in Seq(S)
  BY SeqDef, Zenon
<1>2. Len(f) \in Nat /\ DOMAIN f = 1 .. Len(f)
  BY <1>1, LenProperties, Zenon
<1>3. DOMAIN f = 1 .. n
  OBVIOUS
<1> DEFINE k == Len(f)
<1>4. k \in Nat /\ 1 .. k = 1 .. n
  BY <1>2, <1>3, Zenon
<1> HIDE DEF k
<1>5. k = n
  <2>1. k <= n
    <3>1. k >= 1 => k \in 1 .. n
      BY <1>4
    <3> QED
      BY <1>4, <3>1
  <2>2. n <= k
    <3>1. n >= 1 => n \in 1 .. k
      BY <1>4
    <3> QED
      BY <1>4, <3>1
  <2> QED
    BY <1>4, <2>1, <2>2
<1> QED
  BY <1>1, <1>5, Zenon DEF k

halves(lo, hi) == [i \in Position |-> IF i <= 64 THEN lo[i] ELSE hi[i - 64]]

LEMMA ConcatOfHalves ==
    ASSUME NEW S, NEW lo \in [1 .. 64 -> S], NEW hi \in [1 .. 64 -> S]
    PROVE  lo \o hi = halves(lo, hi)
<1>1. lo \in Seq(S) /\ Len(lo) = 64 /\ hi \in Seq(S) /\ Len(hi) = 64
  <2>1. 64 \in Nat
    OBVIOUS
  <2> QED
    BY <2>1, FunctionIsSequence, Zenon
<1>2. /\ lo \o hi \in Seq(S)
      /\ Len(lo \o hi) = Len(lo) + Len(hi)
      /\ \A i \in 1 .. Len(lo) + Len(hi) :
             (lo \o hi)[i] = IF i <= Len(lo) THEN lo[i] ELSE hi[i - Len(lo)]
  <2>1. lo \in Seq(S) /\ hi \in Seq(S)
    BY <1>1
  <2> QED
    BY <2>1, ConcatProperties, Zenon
<1> DEFINE both == lo \o hi
<1>3. /\ both \in [1 .. Len(both) -> S]
      /\ Len(both) = 64 + 64
      /\ \A i \in 1 .. 64 + 64 : both[i] = IF i <= 64 THEN lo[i] ELSE hi[i - 64]
  BY <1>1, <1>2, LenProperties, ZenonT(30)
<1>4. 1 .. 64 + 64 = Position
  BY DEF Position
<1>5. /\ both \in [Position -> S]
      /\ \A i \in Position : both[i] = IF i <= 64 THEN lo[i] ELSE hi[i - 64]
  BY <1>3, <1>4, Zenon
<1> HIDE DEF both
<1>6. both = halves(lo, hi)
  BY <1>5 DEF halves
<1> QED
  BY <1>6, Zenon DEF both

LEMMA ButterflyElements ==
    ASSUME NEW f, \A j \in 1 .. 64 : /\ Plus(f[2 * j - 1], f[2 * j]) \in Word
                                     /\ Minus(f[2 * j - 1], f[2 * j]) \in Word
    PROVE  /\ butterfly(f) \in [Position -> Word]
           /\ \A i \in Position :
                  butterfly(f)[i] = IF i <= 64 THEN Plus(f[2 * i - 1], f[2 * i])
                                    ELSE Minus(f[2 * (i - 64) - 1], f[2 * (i - 64)])
<1> DEFINE lo == [j \in 1 .. 64 |-> Plus(f[2 * j - 1], f[2 * j])]
           hi == [j \in 1 .. 64 |-> Minus(f[2 * j - 1], f[2 * j])]
<1>1. lo \in [1 .. 64 -> Word] /\ hi \in [1 .. 64 -> Word]
  OBVIOUS
<1>2. lo \o hi = halves(lo, hi)
  <2> HIDE DEF lo, hi
  <2> QED
    BY <1>1, ConcatOfHalves, Zenon
<1>3. butterfly(f) = halves(lo, hi)
  BY <1>2, Zenon DEF butterfly
<1>4. ASSUME NEW i \in Position
      PROVE  /\ butterfly(f)[i] = IF i <= 64 THEN Plus(f[2 * i - 1], f[2 * i])
                                  ELSE Minus(f[2 * (i - 64) - 1], f[2 * (i - 64)])
             /\ butterfly(f)[i] \in Word
  <2>1. butterfly(f)[i] = IF i <= 64 THEN lo[i] ELSE hi[i - 64]
    BY <1>3 DEF halves
  <2>2. CASE i <= 64
    <3>1. i \in 1 .. 64
      BY <2>2 DEF Position
    <3> QED
      BY <2>1, <2>2, <3>1
  <2>3. CASE ~(i <= 64)
    <3>1. i - 64 \in 1 .. 64
      BY <2>3 DEF Position
    <3> QED
      BY <2>1, <2>3, <3>1
  <2> QED
    BY <2>2, <2>3
<1>5. butterfly(f) = [i \in Position |-> butterfly(f)[i]]
  BY <1>3 DEF halves
<1> QED
  BY <1>4, <1>5

\* One pass doubles the bound and stays exact.
LEMMA ButterflyIsExact ==
    ASSUME NEW f, NEW g, NEW bound \in Nat, 4 * bound < Modulus, Holds(f, g, bound)
    PROVE  Holds(butterfly(f), intButterfly(g), 2 * bound)
<1>1. ASSUME NEW j \in 1 .. 64
      PROVE  /\ Plus(f[2 * j - 1], f[2 * j]) \in Word
             /\ Minus(f[2 * j - 1], f[2 * j]) \in Word
             /\ Signed(Plus(f[2 * j - 1], f[2 * j])) = g[2 * j - 1] + g[2 * j]
             /\ Signed(Minus(f[2 * j - 1], f[2 * j])) = g[2 * j - 1] - g[2 * j]
             /\ g[2 * j - 1] \in -bound .. bound /\ g[2 * j] \in -bound .. bound
  <2>1. 2 * j - 1 \in 1 .. 128 /\ 2 * j \in 1 .. 128
    OBVIOUS
  <2>2. f[2 * j - 1] \in Word /\ f[2 * j] \in Word
    BY <2>1 DEF Holds, Position
  <2>3. /\ Signed(f[2 * j - 1]) = g[2 * j - 1] /\ g[2 * j - 1] \in -bound .. bound
        /\ Signed(f[2 * j]) = g[2 * j] /\ g[2 * j] \in -bound .. bound
    BY <2>1 DEF Holds, Position
  <2> QED
    BY <2>2, <2>3, SumOfWords
<1>2. /\ butterfly(f) \in [Position -> Word]
      /\ \A i \in Position :
             butterfly(f)[i] = IF i <= 64 THEN Plus(f[2 * i - 1], f[2 * i])
                               ELSE Minus(f[2 * (i - 64) - 1], f[2 * (i - 64)])
  BY <1>1, ButterflyElements
<1>3. ASSUME NEW i \in Position
      PROVE  /\ intButterfly(g)[i] \in -(2 * bound) .. 2 * bound
             /\ Signed(butterfly(f)[i]) = intButterfly(g)[i]
  <2>1. CASE i <= 64
    <3>1. i \in 1 .. 64
      BY <2>1 DEF Position
    <3>2. intButterfly(g)[i] = g[2 * i - 1] + g[2 * i]
      BY <2>1 DEF intButterfly
    <3>3. butterfly(f)[i] = Plus(f[2 * i - 1], f[2 * i])
      BY <2>1, <1>2
    <3>4. /\ Signed(Plus(f[2 * i - 1], f[2 * i])) = g[2 * i - 1] + g[2 * i]
          /\ g[2 * i - 1] \in -bound .. bound /\ g[2 * i] \in -bound .. bound
      BY <3>1, <1>1
    <3> QED
      BY <3>2, <3>3, <3>4
  <2>2. CASE ~(i <= 64)
    <3>1. i - 64 \in 1 .. 64 /\ (i - 64) + 64 = i
      BY <2>2 DEF Position
    <3>2. intButterfly(g)[i] = g[2 * (i - 64) - 1] - g[2 * (i - 64)]
      BY <2>2 DEF intButterfly
    <3>3. butterfly(f)[i] = Minus(f[2 * (i - 64) - 1], f[2 * (i - 64)])
      BY <2>2, <1>2
    <3>4. /\ Signed(Minus(f[2 * (i - 64) - 1], f[2 * (i - 64)]))
                = g[2 * (i - 64) - 1] - g[2 * (i - 64)]
          /\ g[2 * (i - 64) - 1] \in -bound .. bound /\ g[2 * (i - 64)] \in -bound .. bound
      BY <3>1, <1>1
    <3> QED
      BY <3>2, <3>3, <3>4
  <2> QED
    BY <2>1, <2>2
<1> QED
  BY <1>2, <1>3 DEF Holds

\* Seven passes.
LEMMA HadamardIsExact ==
    ASSUME NEW f, NEW g, NEW bound \in Nat, 256 * bound < Modulus, Holds(f, g, bound)
    PROVE  Holds(hadamard(f), intHadamard(g), 128 * bound)
<1> DEFINE f1 == butterfly(f)   g1 == intButterfly(g)
           f2 == butterfly(f1)  g2 == intButterfly(g1)
           f3 == butterfly(f2)  g3 == intButterfly(g2)
           f4 == butterfly(f3)  g4 == intButterfly(g3)
           f5 == butterfly(f4)  g5 == intButterfly(g4)
           f6 == butterfly(f5)  g6 == intButterfly(g5)
           f7 == butterfly(f6)  g7 == intButterfly(g6)
<1>0. hadamard(f) = f7 /\ intHadamard(g) = g7
  BY DEF hadamard, intHadamard
<1>1. Holds(f1, g1, 2 * bound)
  BY ModulusAssumption, ButterflyIsExact
<1> HIDE DEF f1, g1
<1>2. Holds(f2, g2, 2 * (2 * bound))
  BY <1>1, ModulusAssumption, ButterflyIsExact
<1> HIDE DEF f2, g2
<1>3. Holds(f3, g3, 2 * (4 * bound))
  BY <1>2, ModulusAssumption, ButterflyIsExact
<1> HIDE DEF f3, g3
<1>4. Holds(f4, g4, 2 * (8 * bound))
  BY <1>3, ModulusAssumption, ButterflyIsExact
<1> HIDE DEF f4, g4
<1>5. Holds(f5, g5, 2 * (16 * bound))
  BY <1>4, ModulusAssumption, ButterflyIsExact
<1> HIDE DEF f5, g5
<1>6. Holds(f6, g6, 2 * (32 * bound))
  BY <1>5, ModulusAssumption, ButterflyIsExact
<1> HIDE DEF f6, g6
<1>7. Holds(f7, g7, 2 * (64 * bound))
  BY <1>6, ModulusAssumption, ButterflyIsExact
<1> HIDE DEF f7, g7
<1>8. 2 * (64 * bound) = 128 * bound
  OBVIOUS
<1> QED
  BY <1>0, <1>7, <1>8

\* The counts of the ones are words.
LEMMA CountsAreBounded ==
    ASSUME NEW src, NEW multiplicity \in Nat, 4 * multiplicity < Modulus
    PROVE  Holds(expandAndSum(src, multiplicity), expandAndSum(src, multiplicity), multiplicity)
<1> DEFINE copies(i) == {c \in 0 .. multiplicity - 1 :
                            ((i - 1) % 64) \in src[2 * c + (i - 1) \div 64]}
           counts == [i \in 1 .. 128 |-> Cardinality(copies(i))]
<1>1. expandAndSum(src, multiplicity) = counts
  BY DEF expandAndSum
<1>2. ASSUME NEW i \in 1 .. 128
      PROVE  Cardinality(copies(i)) \in 0 .. multiplicity
  <2> DEFINE all == 0 .. multiplicity - 1
  <2>1. copies(i) \in SUBSET all
    OBVIOUS
  <2>2. IsFiniteSet(all) /\ Cardinality(all) = multiplicity
    <3>1. 0 \in Int /\ multiplicity - 1 \in Int
      OBVIOUS
    <3>2. IsFiniteSet(all)
          /\ Cardinality(all) = IF 0 > multiplicity - 1 THEN 0 ELSE (multiplicity - 1) - 0 + 1
      BY <3>1, FS_Interval
    <3> HIDE DEF all
    <3> QED
      BY <3>2
  <2> HIDE DEF copies, all
  <2>3. IsFiniteSet(copies(i)) /\ Cardinality(copies(i)) <= Cardinality(all)
    BY <2>1, <2>2, FS_Subset
  <2>4. Cardinality(copies(i)) \in Nat
    BY <2>3, FS_CardinalityType
  <2> QED
    BY <2>2, <2>3, <2>4
<1> HIDE DEF copies
<1>3. counts \in [1 .. 128 -> 0 .. multiplicity]
  BY <1>2
<1> HIDE DEF counts
<1>4. \A n \in 0 .. multiplicity : n \in Word /\ Signed(n) = n /\ n \in -multiplicity .. multiplicity
  BY ModulusAssumption DEF Word, Signed, TopBit
<1>5. counts \in [1 .. 128 -> Word]
  BY <1>3, <1>4
<1>6. \A i \in 1 .. 128 : counts[i] \in -multiplicity .. multiplicity /\ Signed(counts[i]) = counts[i]
  BY <1>3, <1>4
<1> QED
  BY <1>1, <1>5, <1>6 DEF Holds, Position

\* Comparing two words whose integers are small compares their absolute values.
LEMMA ExceedsIsExact ==
    ASSUME NEW s \in Word, NEW t \in Word, NEW bound \in Nat, 2 * bound < Modulus,
           Signed(s) \in -bound .. bound, Signed(t) \in -bound .. bound
    PROVE  exceeds(absolute(s), absolute(t)) <=> Magnitude(Signed(s)) > Magnitude(Signed(t))
<1>1. ASSUME NEW w \in Word, Signed(w) \in -bound .. bound
      PROVE  absolute(w) = Magnitude(Signed(w)) /\ absolute(w) \in 0 .. bound
  BY <1>1, ModulusAssumption DEF absolute, Magnitude, Signed, TopBit, Minus, Word
<1>2. \A a, b \in 0 .. bound : TopBit(Minus(b, a)) <=> a > b
  BY ModulusAssumption DEF TopBit, Minus
<1>3. absolute(s) \in 0 .. bound /\ absolute(t) \in 0 .. bound
  BY <1>1
<1>4. exceeds(absolute(s), absolute(t)) <=> absolute(s) > absolute(t)
  BY <1>2, <1>3 DEF exceeds
<1> QED
  BY <1>1, <1>4

\* The words of the transform stand for the integers of the transform over the integers.
LEMMA PeaksAreExact ==
    ASSUME NEW src, NEW multiplicity \in Nat, 384 * multiplicity < Modulus
    PROVE  LET peaks  == peaksOf(src, multiplicity)
               values == intPeaks(src, multiplicity)
           IN  \A i \in Position : /\ peaks[i] \in Word /\ Signed(peaks[i]) = values[i]
                                   /\ values[i] \in -(192 * multiplicity) .. 192 * multiplicity
<1> DEFINE counts == expandAndSum(src, multiplicity)
           f == hadamard(counts)
           g == intHadamard(counts)
           peaks  == peaksOf(src, multiplicity)
           values == intPeaks(src, multiplicity)
<1>1. Holds(f, g, 128 * multiplicity)
  BY CountsAreBounded, HadamardIsExact, ModulusAssumption
<1>2. /\ peaks = [f EXCEPT ![1] = Minus(f[1], 64 * multiplicity)]
      /\ \A i \in Position : values[i] = IF i = 1 THEN g[1] - 64 * multiplicity ELSE g[i]
  BY DEF peaksOf, intPeaks
<1> HIDE DEF f, g, peaks, values
<1>3. /\ f \in [Position -> Word]
      /\ \A i \in Position : /\ f[i] \in Word /\ Signed(f[i]) = g[i]
                              /\ g[i] \in -(128 * multiplicity) .. 128 * multiplicity
  BY <1>1 DEF Holds, Position
<1>4. \A i \in Position : peaks[i] = IF i = 1 THEN Minus(f[1], 64 * multiplicity) ELSE f[i]
  BY <1>2, <1>3 DEF Position
<1>5. /\ Minus(f[1], 64 * multiplicity) \in Word
      /\ Signed(Minus(f[1], 64 * multiplicity)) = g[1] - 64 * multiplicity
  <2>1. f[1] \in Word /\ Signed(f[1]) = g[1] /\ g[1] \in -(128 * multiplicity) .. 128 * multiplicity
    BY <1>3 DEF Position
  <2> QED
    BY <2>1, ModulusAssumption DEF Word, Signed, TopBit, Minus
<1>6. \A i \in Position : /\ peaks[i] \in Word /\ Signed(peaks[i]) = values[i]
                           /\ values[i] \in -(192 * multiplicity) .. 192 * multiplicity
  <2> SUFFICES ASSUME NEW i \in Position
               PROVE  /\ peaks[i] \in Word /\ Signed(peaks[i]) = values[i]
                      /\ values[i] \in -(192 * multiplicity) .. 192 * multiplicity
    OBVIOUS
  <2>1. CASE i = 1
    BY <2>1, <1>2, <1>3, <1>4, <1>5
  <2>2. CASE i # 1
    BY <2>2, <1>2, <1>3, <1>4
  <2> QED
    BY <2>1, <2>2
<1> QED
  BY <1>6 DEF peaks, values

\* Whatever words a symbol's copies consist of, its transform on 16 bits holds the
\* integers it stands for, although differences wrap, and one entry replaces another
\* as the peak exactly when its absolute value is larger.  No parameter set comes near
\* the bound, which is 170 copies.
THEOREM PeakSearchIsExact ==
    ASSUME NEW src, NEW multiplicity \in Nat, 384 * multiplicity < Modulus
    PROVE  LET peaks  == peaksOf(src, multiplicity)
               values == intPeaks(src, multiplicity)
           IN  \A i, j \in Position :
                   /\ Signed(peaks[i]) = values[i]
                   /\ exceeds(absolute(peaks[i]), absolute(peaks[j]))
                          <=> Magnitude(values[i]) > Magnitude(values[j])
<1> DEFINE peaks  == peaksOf(src, multiplicity)
           values == intPeaks(src, multiplicity)
<1>1. \A i \in Position : /\ peaks[i] \in Word /\ Signed(peaks[i]) = values[i]
                           /\ values[i] \in -(192 * multiplicity) .. 192 * multiplicity
  BY PeaksAreExact
<1> HIDE DEF peaks, values
<1>2. ASSUME NEW i \in Position, NEW j \in Position
      PROVE  /\ Signed(peaks[i]) = values[i]
             /\ exceeds(absolute(peaks[i]), absolute(peaks[j]))
                    <=> Magnitude(values[i]) > Magnitude(values[j])
  <2>1. 192 * multiplicity \in Nat /\ 2 * (192 * multiplicity) < Modulus
    BY ModulusAssumption
  <2> QED
    BY <1>1, <2>1, ExceedsIsExact
<1> QED
  BY <1>2 DEF peaks, values

-----------------------------------------------------------------------------
(* The transform of a symbol and its distances to the codewords.           *)

bit(l, x) == Odd(x \div 2^l)

\* Pass k leaves at i the sum over the positions x that agree with i in all bits but the
\* first k, each with the sign that tells whether those bits of x have an odd number
\* in common with the k bits of i the passes have written.
Seen(k, i, x)  == x \div 2^k = i % 2^(7 - k)
Meets(k, i, x) == {l \in 0 .. k - 1 : bit(l, x) /\ bit(7 - k + l, i)}
Flips(k, i, x) == Odd(Cardinality(Meets(k, i, x)))

LEMMA MeetsFinite ==
    ASSUME NEW k \in Nat, NEW i, NEW x
    PROVE  IsFiniteSet(Meets(k, i, x)) /\ Cardinality(Meets(k, i, x)) \in Nat
<1>1. IsFiniteSet(0 .. k - 1) /\ Meets(k, i, x) \subseteq 0 .. k - 1
  BY FS_Interval DEF Meets
<1> QED
  BY <1>1, FS_Subset, FS_CardinalityType

LEMMA SeenAtEnds ==
    ASSUME NEW i \in 0 .. 127, NEW x \in 0 .. 127
    PROVE  /\ Seen(0, i, x) <=> x = i
           /\ Seen(7, i, x)
           /\ ~Flips(0, i, x)
<1>1. x \div 2^0 = x /\ i % 2^(7 - 0) = i
  <2>1. x \div 1 = x /\ i % 128 = i
    OBVIOUS
  <2>2. 2^0 = 1 /\ 2^7 = 128 /\ 7 - 0 = 7
    OBVIOUS
  <2> QED
    BY <2>1, <2>2
<1>2. x \div 2^7 = i % 2^(7 - 7)
  <2>1. x \div 128 = 0 /\ i % 1 = 0
    OBVIOUS
  <2>2. 2^0 = 1 /\ 2^7 = 128 /\ 7 - 7 = 0
    OBVIOUS
  <2> QED
    BY <2>1, <2>2
<1>3. Meets(0, i, x) = {}
  BY DEF Meets
<1> QED
  BY <1>1, <1>2, <1>3, FS_EmptySet, OddBasics DEF Seen, Flips

LEMMA SeenNext ==
    ASSUME NEW k \in 0 .. 6, NEW i \in 0 .. 127, NEW x \in 0 .. 127
    PROVE  LET j == 2 * (i % 64)
           IN  /\ Seen(k + 1, i, x) <=> Seen(k, j, x) \/ Seen(k, j + 1, x)
               /\ Seen(k, j, x) => ~bit(k, x)
               /\ Seen(k, j + 1, x) => bit(k, x)
<1> DEFINE j == 2 * (i % 64)
           Holds1(a, b) ==
               /\ x \div (2 * a) = i % b <=> x \div a = j % (2 * b) \/ x \div a = (j + 1) % (2 * b)
               /\ x \div a = j % (2 * b) => (x \div a) % 2 # 1
               /\ x \div a = (j + 1) % (2 * b) => (x \div a) % 2 = 1
<1>1. Holds1(1, 64)
  OBVIOUS
<1>2. Holds1(2, 32)
  OBVIOUS
<1>3. Holds1(4, 16)
  OBVIOUS
<1>4. Holds1(8, 8)
  OBVIOUS
<1>5. Holds1(16, 4)
  OBVIOUS
<1>6. Holds1(32, 2)
  OBVIOUS
<1>7. Holds1(64, 1)
  OBVIOUS
<1>8. k \in {0, 1, 2, 3, 4, 5, 6}
  OBVIOUS
<1>9. \E a, b \in Nat : /\ Holds1(a, b) /\ 2^k = a /\ 2^(k + 1) = 2 * a
                       /\ 2^(7 - k) = 2 * b /\ 2^(7 - (k + 1)) = b
  <2> HIDE DEF Holds1
  <2>1. /\ 2^0 = 1 /\ 2^1 = 2 /\ 2^2 = 4 /\ 2^3 = 8 /\ 2^4 = 16 /\ 2^5 = 32 /\ 2^6 = 64 /\ 2^7 = 128
    OBVIOUS
  <2>2. CASE k = 0
    BY <2>2, <1>1, <2>1
  <2>3. CASE k = 1
    BY <2>3, <1>2, <2>1
  <2>4. CASE k = 2
    BY <2>4, <1>3, <2>1
  <2>5. CASE k = 3
    BY <2>5, <1>4, <2>1
  <2>6. CASE k = 4
    BY <2>6, <1>5, <2>1
  <2>7. CASE k = 5
    BY <2>7, <1>6, <2>1
  <2>8. CASE k = 6
    BY <2>8, <1>7, <2>1
  <2> QED
    BY <1>8, <2>2, <2>3, <2>4, <2>5, <2>6, <2>7, <2>8
<1> QED
  BY <1>9 DEF Seen, bit, Odd

LEMMA BitOfHalf ==
    ASSUME NEW i \in 0 .. 127, NEW j, j = 2 * (i % 64) \/ j = 2 * (i % 64) + 1
    PROVE  /\ \A l \in 0 .. 5 : bit(l, i) <=> bit(l + 1, j)
           /\ bit(6, i) <=> i >= 64
<1>1. /\ (i \div 1) % 2 = (j \div 2) % 2
      /\ (i \div 2) % 2 = (j \div 4) % 2
      /\ (i \div 4) % 2 = (j \div 8) % 2
      /\ (i \div 8) % 2 = (j \div 16) % 2
      /\ (i \div 16) % 2 = (j \div 32) % 2
      /\ (i \div 32) % 2 = (j \div 64) % 2
      /\ (i \div 64) % 2 = 1 <=> i >= 64
  <2>1. (i \div 1) % 2 = (j \div 2) % 2
    OBVIOUS
  <2>2. (i \div 2) % 2 = (j \div 4) % 2
    OBVIOUS
  <2>3. (i \div 4) % 2 = (j \div 8) % 2
    OBVIOUS
  <2>4. (i \div 8) % 2 = (j \div 16) % 2
    OBVIOUS
  <2>5. (i \div 16) % 2 = (j \div 32) % 2
    OBVIOUS
  <2>6. (i \div 32) % 2 = (j \div 64) % 2
    OBVIOUS
  <2>7. (i \div 64) % 2 = 1 <=> i >= 64
    OBVIOUS
  <2> QED
    BY <2>1, <2>2, <2>3, <2>4, <2>5, <2>6, <2>7
<1>2. 2^0 = 1 /\ 2^1 = 2 /\ 2^2 = 4 /\ 2^3 = 8 /\ 2^4 = 16 /\ 2^5 = 32 /\ 2^6 = 64
  OBVIOUS
<1>3. ASSUME NEW l \in 0 .. 5 PROVE (i \div 2^l) % 2 = (j \div 2^(l + 1)) % 2
  <2>1. CASE l = 0
    BY <2>1, <1>1, <1>2
  <2>2. CASE l = 1
    BY <2>2, <1>1, <1>2
  <2>3. CASE l = 2
    BY <2>3, <1>1, <1>2
  <2>4. CASE l = 3
    BY <2>4, <1>1, <1>2
  <2>5. CASE l = 4
    BY <2>5, <1>1, <1>2
  <2>6. CASE l = 5
    BY <2>6, <1>1, <1>2
  <2> QED
    BY <2>1, <2>2, <2>3, <2>4, <2>5, <2>6
<1> QED
  BY <1>1, <1>2, <1>3 DEF bit, Odd

LEMMA OddOfOneMore ==
    ASSUME NEW S, IsFiniteSet(S), NEW e, e \notin S, NEW more \in BOOLEAN
    PROVE  Odd(Cardinality(IF more THEN S \cup {e} ELSE S)) <=> (Odd(Cardinality(S)) <=> ~more)
<1>1. Cardinality(S) \in Nat /\ Cardinality(S \cup {e}) = Cardinality(S) + 1
  BY FS_CardinalityType, FS_AddElement
<1> QED
  BY <1>1, OddBasics

LEMMA FlipsNext ==
    ASSUME NEW k \in 0 .. 6, NEW i \in 0 .. 127, NEW x \in 0 .. 127,
           NEW j, j = 2 * (i % 64) \/ j = 2 * (i % 64) + 1
    PROVE  Flips(k + 1, i, x) <=> (Flips(k, j, x) <=> ~(bit(k, x) /\ i >= 64))
<1> DEFINE more == bit(k, x) /\ i >= 64
<1>1. \A l \in 0 .. k - 1 : bit(7 - (k + 1) + l, i) <=> bit(7 - k + l, j)
  <2> SUFFICES ASSUME NEW l \in 0 .. k - 1 PROVE bit(7 - (k + 1) + l, i) <=> bit(7 - k + l, j)
    OBVIOUS
  <2> DEFINE h == 7 - (k + 1) + l
  <2>1. h \in 0 .. 5 /\ 7 - k + l = h + 1
    OBVIOUS
  <2> HIDE DEF h
  <2>2. bit(h, i) <=> bit(h + 1, j)
    BY <2>1, BitOfHalf
  <2> QED
    BY <2>1, <2>2 DEF h
<1>2. bit(7 - (k + 1) + k, i) <=> i >= 64
  <2>1. 7 - (k + 1) + k = 6
    OBVIOUS
  <2> QED
    BY <2>1, BitOfHalf
<1>3. Meets(k + 1, i, x) = IF more THEN Meets(k, j, x) \cup {k} ELSE Meets(k, j, x)
  <2>1. \A l : l \in 0 .. (k + 1) - 1 <=> l \in 0 .. k - 1 \/ l = k
    OBVIOUS
  <2>2. \A l : l \in Meets(k + 1, i, x) <=> l \in Meets(k, j, x) \/ (l = k /\ more)
    BY <1>1, <1>2, <2>1 DEF Meets
  <2> HIDE DEF more
  <2> QED
    BY <2>2
<1>4. IsFiniteSet(Meets(k, j, x)) /\ k \notin Meets(k, j, x)
  <2>1. k \notin Meets(k, j, x)
    BY DEF Meets
  <2> QED
    BY <2>1, MeetsFinite
<1>5. more \in BOOLEAN
  OBVIOUS
<1> HIDE DEF more
<1>6. Odd(Cardinality(Meets(k + 1, i, x))) <=> (Odd(Cardinality(Meets(k, j, x))) <=> ~more)
  BY <1>3, <1>4, <1>5, OddOfOneMore
<1> QED
  BY <1>6 DEF Flips, more

\* A cell is a bit of the words of a symbol; its position is that in its copy.
Cells(multiplicity)     == (0 .. 2 * multiplicity - 1) \X (0 .. 63)
Ones(src, multiplicity) == {c \in Cells(multiplicity) : c[2] \in src[c[1]]}
positionOf(c)           == 64 * (c[1] % 2) + c[2]

Plusses(k, i, O) == {c \in O : Seen(k, i, positionOf(c)) /\ ~Flips(k, i, positionOf(c))}
Minuses(k, i, O) == {c \in O : Seen(k, i, positionOf(c)) /\ Flips(k, i, positionOf(c))}

\* g is what k passes make of the counts of the cells of O.
Transformed(k, g, O) ==
    \A i \in 0 .. 127 : g[i + 1] = Cardinality(Plusses(k, i, O)) - Cardinality(Minuses(k, i, O))

Placed(O) == IsFiniteSet(O) /\ \A c \in O : positionOf(c) \in 0 .. 127

LEMMA PartsFinite ==
    ASSUME NEW O, Placed(O), NEW k, NEW i
    PROVE  /\ IsFiniteSet(Plusses(k, i, O)) /\ Cardinality(Plusses(k, i, O)) \in Nat
           /\ IsFiniteSet(Minuses(k, i, O)) /\ Cardinality(Minuses(k, i, O)) \in Nat
<1>1. Plusses(k, i, O) \subseteq O /\ Minuses(k, i, O) \subseteq O
  BY DEF Plusses, Minuses
<1> QED
  BY <1>1, FS_Subset, FS_CardinalityType DEF Placed

LEMMA CardinalityOfTwo ==
    ASSUME NEW S, NEW T, IsFiniteSet(S), IsFiniteSet(T), S \cap T = {}
    PROVE  Cardinality(S \cup T) = Cardinality(S) + Cardinality(T)
<1>1. Cardinality(S \cup T) = Cardinality(S) + Cardinality(T) - Cardinality(S \cap T)
  BY FS_Union
<1>2. Cardinality(S) \in Nat /\ Cardinality(T) \in Nat /\ Cardinality(S \cap T) = 0
  BY FS_CardinalityType, FS_EmptySet
<1> QED
  BY <1>1, <1>2

LEMMA PassTransforms ==
    ASSUME NEW O, Placed(O), NEW k \in 0 .. 6, NEW g, Transformed(k, g, O)
    PROVE  Transformed(k + 1, intButterfly(g), O)
<1> SUFFICES ASSUME NEW i \in 0 .. 127
             PROVE  intButterfly(g)[i + 1] = Cardinality(Plusses(k + 1, i, O))
                                             - Cardinality(Minuses(k + 1, i, O))
  BY DEF Transformed
<1> DEFINE j == 2 * (i % 64)
           P0 == Plusses(k, j, O)
           M0 == Minuses(k, j, O)
           P1 == Plusses(k, j + 1, O)
           M1 == Minuses(k, j + 1, O)
           P2 == Plusses(k + 1, i, O)
           M2 == Minuses(k + 1, i, O)
<1>1. j \in 0 .. 127 /\ j + 1 \in 0 .. 127
  OBVIOUS
<1>2. ASSUME NEW c \in O
      PROVE  LET x == positionOf(c)
             IN  /\ Seen(k + 1, i, x) <=> Seen(k, j, x) \/ Seen(k, j + 1, x)
                 /\ ~(Seen(k, j, x) /\ Seen(k, j + 1, x))
                 /\ Seen(k, j, x) => (Flips(k + 1, i, x) <=> Flips(k, j, x))
                 /\ Seen(k, j + 1, x) => (Flips(k + 1, i, x) <=> (Flips(k, j + 1, x) <=> i < 64))
  <2> DEFINE x == positionOf(c)
  <2>1. x \in 0 .. 127
    BY DEF Placed
  <2> HIDE DEF x
  <2>2. /\ Seen(k + 1, i, x) <=> Seen(k, j, x) \/ Seen(k, j + 1, x)
        /\ Seen(k, j, x) => ~bit(k, x)
        /\ Seen(k, j + 1, x) => bit(k, x)
    BY <2>1, SeenNext
  <2>3. Flips(k + 1, i, x) <=> (Flips(k, j, x) <=> ~(bit(k, x) /\ i >= 64))
    BY <2>1, FlipsNext
  <2>4. Flips(k + 1, i, x) <=> (Flips(k, j + 1, x) <=> ~(bit(k, x) /\ i >= 64))
    BY <2>1, FlipsNext
  <2>5. i >= 64 <=> ~(i < 64)
    OBVIOUS
  <2> QED
    BY <2>2, <2>3, <2>4, <2>5 DEF x
<1>3. P0 \cap P1 = {} /\ M0 \cap M1 = {} /\ P0 \cap M1 = {} /\ M0 \cap P1 = {}
  BY <1>2 DEF Plusses, Minuses
<1>4. /\ IsFiniteSet(P0) /\ IsFiniteSet(P1) /\ IsFiniteSet(M0) /\ IsFiniteSet(M1)
      /\ Cardinality(P0) \in Nat /\ Cardinality(P1) \in Nat
      /\ Cardinality(M0) \in Nat /\ Cardinality(M1) \in Nat
  BY PartsFinite
<1>5. g[j + 1] = Cardinality(P0) - Cardinality(M0)
      /\ g[j + 1 + 1] = Cardinality(P1) - Cardinality(M1)
  BY <1>1 DEF Transformed
<1>6. CASE i < 64
  <2>1. P2 = P0 \cup P1 /\ M2 = M0 \cup M1
    BY <1>2, <1>6 DEF Plusses, Minuses
  <2>2. Cardinality(P0 \cup P1) = Cardinality(P0) + Cardinality(P1)
        /\ Cardinality(M0 \cup M1) = Cardinality(M0) + Cardinality(M1)
    <3> HIDE DEF P0, P1, M0, M1
    <3> QED
      BY <1>3, <1>4, CardinalityOfTwo
  <2>3. intButterfly(g)[i + 1] = g[j + 1] + g[j + 1 + 1]
    <3>1. i + 1 \in Position /\ i + 1 <= 64 /\ 2 * (i + 1) - 1 = j + 1 /\ 2 * (i + 1) = j + 1 + 1
      BY <1>6 DEF Position
    <3> HIDE DEF j
    <3> QED
      BY <3>1 DEF intButterfly
  <2> HIDE DEF P0, P1, M0, M1, P2, M2, j
  <2>4. Cardinality(P2) = Cardinality(P0) + Cardinality(P1)
        /\ Cardinality(M2) = Cardinality(M0) + Cardinality(M1)
    BY <2>1, <2>2
  <2>5. intButterfly(g)[i + 1] = Cardinality(P2) - Cardinality(M2)
    BY <2>3, <2>4, <1>4, <1>5
  <2> QED
    BY <2>5 DEF P2, M2
<1>7. CASE ~(i < 64)
  <2>1. P2 = P0 \cup M1 /\ M2 = M0 \cup P1
    BY <1>2, <1>7 DEF Plusses, Minuses
  <2>2. Cardinality(P0 \cup M1) = Cardinality(P0) + Cardinality(M1)
        /\ Cardinality(M0 \cup P1) = Cardinality(M0) + Cardinality(P1)
    <3> HIDE DEF P0, P1, M0, M1
    <3> QED
      BY <1>3, <1>4, CardinalityOfTwo
  <2>3. intButterfly(g)[i + 1] = g[j + 1] - g[j + 1 + 1]
    <3>1. /\ i + 1 \in Position /\ ~(i + 1 <= 64)
          /\ 2 * (i + 1 - 64) - 1 = j + 1 /\ 2 * (i + 1 - 64) = j + 1 + 1
      BY <1>7 DEF Position
    <3> HIDE DEF j
    <3> QED
      BY <3>1 DEF intButterfly
  <2> HIDE DEF P0, P1, M0, M1, P2, M2, j
  <2>4. Cardinality(P2) = Cardinality(P0) + Cardinality(M1)
        /\ Cardinality(M2) = Cardinality(M0) + Cardinality(P1)
    BY <2>1, <2>2
  <2>5. intButterfly(g)[i + 1] = Cardinality(P2) - Cardinality(M2)
    BY <2>3, <2>4, <1>4, <1>5
  <2> QED
    BY <2>5 DEF P2, M2
<1> QED
  BY <1>6, <1>7

LEMMA HadamardTransforms ==
    ASSUME NEW O, Placed(O), NEW g, Transformed(0, g, O)
    PROVE  Transformed(7, intHadamard(g), O)
<1> DEFINE g1 == intButterfly(g)
           g2 == intButterfly(g1)
           g3 == intButterfly(g2)
           g4 == intButterfly(g3)
           g5 == intButterfly(g4)
           g6 == intButterfly(g5)
           g7 == intButterfly(g6)
<1>1. intHadamard(g) = g7
  BY DEF intHadamard
<1>2. \A k \in 0 .. 6 : \A h : Transformed(k, h, O) => Transformed(k + 1, intButterfly(h), O)
  BY PassTransforms
<1>3. Transformed(1, g1, O)
  BY <1>2, 0 \in 0 .. 6, 0 + 1 = 1
<1> HIDE DEF g1
<1>4. Transformed(2, g2, O)
  BY <1>2, <1>3, 1 \in 0 .. 6, 1 + 1 = 2
<1> HIDE DEF g2
<1>5. Transformed(3, g3, O)
  BY <1>2, <1>4, 2 \in 0 .. 6, 2 + 1 = 3
<1> HIDE DEF g3
<1>6. Transformed(4, g4, O)
  BY <1>2, <1>5, 3 \in 0 .. 6, 3 + 1 = 4
<1> HIDE DEF g4
<1>7. Transformed(5, g5, O)
  BY <1>2, <1>6, 4 \in 0 .. 6, 4 + 1 = 5
<1> HIDE DEF g5
<1>8. Transformed(6, g6, O)
  BY <1>2, <1>7, 5 \in 0 .. 6, 5 + 1 = 6
<1> HIDE DEF g6
<1>9. Transformed(7, g7, O)
  BY <1>2, <1>8, 6 \in 0 .. 6, 6 + 1 = 7
<1> HIDE DEF g7
<1> QED
  BY <1>1, <1>9

LEMMA CellsPlaced ==
    ASSUME NEW multiplicity \in Nat, NEW O, O \subseteq Cells(multiplicity)
    PROVE  Placed(O)
<1>1. IsFiniteSet(0 .. 2 * multiplicity - 1) /\ IsFiniteSet(0 .. 63)
  <2>1. 0 \in Int /\ 63 \in Int /\ 2 * multiplicity - 1 \in Int
    OBVIOUS
  <2> QED
    BY <2>1, FS_Interval
<1>2. IsFiniteSet(Cells(multiplicity))
  BY <1>1, FS_Product DEF Cells
<1>3. ASSUME NEW c \in O PROVE positionOf(c) \in 0 .. 127
  <2>1. c[1] \in 0 .. 2 * multiplicity - 1 /\ c[2] \in 0 .. 63
    BY DEF Cells
  <2> QED
    BY <2>1 DEF positionOf
<1> QED
  BY <1>2, <1>3, FS_Subset DEF Placed

\* The counts of a symbol's copies are those of its cells.
LEMMA CountsTransformed ==
    ASSUME NEW multiplicity \in Nat, NEW src
    PROVE  Transformed(0, expandAndSum(src, multiplicity), Ones(src, multiplicity))
<1> DEFINE O == Ones(src, multiplicity)
<1> SUFFICES ASSUME NEW i \in 0 .. 127
             PROVE  expandAndSum(src, multiplicity)[i + 1]
                        = Cardinality(Plusses(0, i, O)) - Cardinality(Minuses(0, i, O))
  BY DEF Transformed
<1> DEFINE copies == {c \in 0 .. multiplicity - 1 : (i % 64) \in src[2 * c + i \div 64]}
           cells  == {c \in O : positionOf(c) = i}
           cell   == [c \in copies |-> <<2 * c + i \div 64, i % 64>>]
<1>1. Placed(O)
  BY CellsPlaced DEF Ones
<1>2. ASSUME NEW c \in O
      PROVE  /\ Seen(0, i, positionOf(c)) <=> positionOf(c) = i
             /\ ~Flips(0, i, positionOf(c))
  BY <1>1, SeenAtEnds DEF Placed
<1>3. Plusses(0, i, O) = cells /\ Minuses(0, i, O) = {}
  <2> HIDE DEF O
  <2> QED
    BY <1>2 DEF Plusses, Minuses
<1>4. ASSUME NEW c \in copies
      PROVE  cell[c] \in cells
  <2>1. 2 * c + i \div 64 \in 0 .. 2 * multiplicity - 1 /\ i % 64 \in 0 .. 63
    OBVIOUS
  <2>2. 64 * ((2 * c + i \div 64) % 2) + (i % 64) = i
    <3>1. (2 * c + i \div 64) % 2 = i \div 64
      OBVIOUS
    <3>2. 64 * (i \div 64) + (i % 64) = i
      OBVIOUS
    <3> QED
      BY <3>1, <3>2
  <2>3. (i % 64) \in src[2 * c + i \div 64] /\ cell[c] = <<2 * c + i \div 64, i % 64>>
    OBVIOUS
  <2> DEFINE w == 2 * c + i \div 64   h == i % 64   y == cell[c]
  <2>4. /\ w \in 0 .. 2 * multiplicity - 1 /\ h \in 0 .. 63 /\ 64 * (w % 2) + h = i
        /\ h \in src[w] /\ y = <<w, h>>
    BY <2>1, <2>2, <2>3
  <2> HIDE DEF w, h, y, cell
  <2>5. y \in cells
    BY <2>4 DEF Ones, Cells, positionOf
  <2> QED
    BY <2>5 DEF y
<1>5. ASSUME NEW c \in cells
      PROVE  \E a \in copies : cell[a] = c
  <2> DEFINE a == c[1] \div 2
  <2>1. /\ c[1] \in 0 .. 2 * multiplicity - 1 /\ c[2] \in 0 .. 63
        /\ c = <<c[1], c[2]>> /\ c[2] \in src[c[1]] /\ 64 * (c[1] % 2) + c[2] = i
    BY DEF Ones, Cells, positionOf
  <2>2. /\ a \in 0 .. multiplicity - 1
        /\ 2 * a + i \div 64 = c[1] /\ i % 64 = c[2]
    <3> DEFINE w == c[1]   h == c[2]
    <3>1. w \in 0 .. 2 * multiplicity - 1 /\ h \in 0 .. 63 /\ 64 * (w % 2) + h = i
      BY <2>1
    <3> HIDE DEF w, h
    <3>2. i \div 64 = w % 2 /\ i % 64 = h
      BY <3>1
    <3>3. 2 * (w \div 2) + (w % 2) = w /\ w \div 2 \in 0 .. multiplicity - 1
      BY <3>1
    <3> QED
      BY <3>2, <3>3 DEF w, h
  <2> HIDE DEF a
  <2>3. a \in copies
    BY <2>1, <2>2
  <2> QED
    BY <2>1, <2>2, <2>3
<1>6. \A a, b \in copies : cell[a] = cell[b] => a = b
  <2> SUFFICES ASSUME NEW a \in copies, NEW b \in copies, cell[a] = cell[b] PROVE a = b
    OBVIOUS
  <2>1. 2 * a + i \div 64 = 2 * b + i \div 64
    OBVIOUS
  <2>2. a \in Int /\ b \in Int /\ i \div 64 \in Int
    OBVIOUS
  <2> QED
    BY <2>1, <2>2
<1>7. cell \in Bijection(copies, cells)
  <2>1. cell \in [copies -> cells]
    BY <1>4
  <2> HIDE DEF copies, cells, cell
  <2> QED
    BY <1>5, <1>6, <2>1 DEF Bijection, Injection, Surjection, IsInjective
<1>8. IsFiniteSet(cells)
  <2>1. cells \subseteq O
    OBVIOUS
  <2> QED
    BY <1>1, <2>1, FS_Subset DEF Placed
<1>9. IsFiniteSet(copies) /\ Cardinality(copies) = Cardinality(cells) /\ Cardinality(copies) \in Nat
  <2> DEFINE all == 0 .. multiplicity - 1
  <2>1. IsFiniteSet(all) /\ copies \subseteq all
    BY FS_Interval
  <2>2. IsFiniteSet(copies)
    BY <2>1, FS_Subset
  <2> HIDE DEF copies, cells, cell
  <2> QED
    BY <1>7, <1>8, <2>2, FS_Bijection, FS_CardinalityType DEF ExistsBijection
<1>10. expandAndSum(src, multiplicity)[i + 1] = Cardinality(copies)
  <2>1. i + 1 \in 1 .. 128 /\ (i + 1) - 1 = i
    OBVIOUS
  <2> QED
    BY <2>1 DEF expandAndSum
<1>11. Cardinality(cells) = Cardinality(cells) - 0 /\ Cardinality({}) = 0
  <2> HIDE DEF copies, cells, cell
  <2> QED
    BY <1>9, FS_EmptySet
<1> HIDE DEF copies, cells, cell, O
<1> QED
  BY <1>3, <1>9, <1>10, <1>11

\* The transform of a constant array is 0 but for its first value.
LEMMA FlatPass ==
    ASSUME NEW half \in 0 .. 64, NEW v \in Int, NEW g,
           \A i \in 0 .. 127 : g[i + 1] = IF i < 2 * half THEN v ELSE 0
    PROVE  \A i \in 0 .. 127 : intButterfly(g)[i + 1] = IF i < half THEN 2 * v ELSE 0
<1> SUFFICES ASSUME NEW i \in 0 .. 127
             PROVE  intButterfly(g)[i + 1] = IF i < half THEN 2 * v ELSE 0
  OBVIOUS
<1> DEFINE j == 2 * (i % 64)
<1>1. /\ j \in 0 .. 127 /\ j + 1 \in 0 .. 127
      /\ (j < 2 * half) <=> (j + 1 < 2 * half)
      /\ i < 64 => (j < 2 * half <=> i < half)
  OBVIOUS
<1>2. g[j + 1] = g[j + 1 + 1] /\ g[j + 1] = IF j < 2 * half THEN v ELSE 0
  <2>1. \A h \in 0 .. 127 : g[h + 1] = IF h < 2 * half THEN v ELSE 0
    OBVIOUS
  <2> HIDE DEF j
  <2> QED
    BY <1>1, <2>1
<1>3. CASE i < 64
  <2>1. i + 1 \in Position /\ i + 1 <= 64 /\ 2 * (i + 1) - 1 = j + 1 /\ 2 * (i + 1) = j + 1 + 1
    BY <1>3 DEF Position
  <2> HIDE DEF j
  <2>2. intButterfly(g)[i + 1] = g[j + 1] + g[j + 1 + 1]
    BY <2>1 DEF intButterfly
  <2>3. CASE i < half
    BY <1>1, <1>2, <1>3, <2>2, <2>3
  <2>4. CASE ~(i < half)
    BY <1>1, <1>2, <1>3, <2>2, <2>4
  <2> QED
    BY <2>3, <2>4
<1>4. CASE ~(i < 64)
  <2>1. /\ i + 1 \in Position /\ ~(i + 1 <= 64)
        /\ 2 * (i + 1 - 64) - 1 = j + 1 /\ 2 * (i + 1 - 64) = j + 1 + 1
    BY <1>4 DEF Position
  <2> HIDE DEF j
  <2>2. intButterfly(g)[i + 1] = g[j + 1] - g[j + 1 + 1]
    BY <2>1 DEF intButterfly
  <2>3. g[j + 1] \in Int
    BY <1>2
  <2>4. intButterfly(g)[i + 1] = 0
    <3>1. \A a \in Int : a - a = 0
      OBVIOUS
    <3> QED
      BY <1>2, <2>2, <2>3, <3>1
  <2>5. ~(i < half)
    BY <1>4
  <2> QED
    BY <2>4, <2>5
<1> QED
  BY <1>3, <1>4

LEMMA FlatTransform ==
    ASSUME NEW v \in Int, NEW g, \A i \in 0 .. 127 : g[i + 1] = v
    PROVE  \A i \in 0 .. 127 : intHadamard(g)[i + 1] = IF i = 0 THEN 128 * v ELSE 0
<1> DEFINE Flat(half, u, h) == \A i \in 0 .. 127 : h[i + 1] = IF i < half THEN u ELSE 0
           g1 == intButterfly(g)
           g2 == intButterfly(g1)
           g3 == intButterfly(g2)
           g4 == intButterfly(g3)
           g5 == intButterfly(g4)
           g6 == intButterfly(g5)
           g7 == intButterfly(g6)
<1>1. intHadamard(g) = g7
  BY DEF intHadamard
<1>2. \A half \in 0 .. 64, u \in Int : \A h :
          Flat(2 * half, u, h) => Flat(half, 2 * u, intButterfly(h))
  BY FlatPass
<1>3. Flat(128, v, g)
  OBVIOUS
<1> HIDE DEF Flat
<1>4. Flat(64, 2 * v, g1)
  BY <1>2, <1>3, 64 \in 0 .. 64, 2 * 64 = 128
<1> HIDE DEF g1
<1>5. Flat(32, 4 * v, g2)
  BY <1>2, <1>4, 32 \in 0 .. 64, 2 * 32 = 64, 2 * (2 * v) = 4 * v, 2 * v \in Int
<1> HIDE DEF g2
<1>6. Flat(16, 8 * v, g3)
  BY <1>2, <1>5, 16 \in 0 .. 64, 2 * 16 = 32, 2 * (4 * v) = 8 * v, 4 * v \in Int
<1> HIDE DEF g3
<1>7. Flat(8, 16 * v, g4)
  BY <1>2, <1>6, 8 \in 0 .. 64, 2 * 8 = 16, 2 * (8 * v) = 16 * v, 8 * v \in Int
<1> HIDE DEF g4
<1>8. Flat(4, 32 * v, g5)
  BY <1>2, <1>7, 4 \in 0 .. 64, 2 * 4 = 8, 2 * (16 * v) = 32 * v, 16 * v \in Int
<1> HIDE DEF g5
<1>9. Flat(2, 64 * v, g6)
  BY <1>2, <1>8, 2 \in 0 .. 64, 2 * 2 = 4, 2 * (32 * v) = 64 * v, 32 * v \in Int
<1> HIDE DEF g6
<1>10. Flat(1, 128 * v, g7)
  BY <1>2, <1>9, 1 \in 0 .. 64, 2 * 1 = 2, 2 * (64 * v) = 128 * v, 64 * v \in Int
<1> HIDE DEF g7
<1>11. \A i \in 0 .. 127 : i < 1 <=> i = 0
  OBVIOUS
<1> QED
  BY <1>1, <1>10, <1>11 DEF Flat

\* Half of the cells are in the codeword of each number but 0.
LEMMA CodewordsBalanced ==
    ASSUME NEW multiplicity \in Nat, NEW i \in 0 .. 127
    PROVE  LET all == Cells(multiplicity)
           IN  /\ Cardinality(Plusses(7, i, all)) = IF i = 0 THEN 128 * multiplicity ELSE 64 * multiplicity
               /\ Cardinality(Minuses(7, i, all)) = IF i = 0 THEN 0 ELSE 64 * multiplicity
<1> DEFINE all == Cells(multiplicity)
           full == [w \in 0 .. 2 * multiplicity - 1 |-> 0 .. 63]
           counts == expandAndSum(full, multiplicity)
           P(j) == Plusses(7, j, all)
           M(j) == Minuses(7, j, all)
<1>1. Ones(full, multiplicity) = all
  BY DEF Ones, Cells
<1>2. Placed(all)
  BY CellsPlaced
<1>3. \A j \in 0 .. 127 : counts[j + 1] = multiplicity
  <2> SUFFICES ASSUME NEW j \in 0 .. 127 PROVE counts[j + 1] = multiplicity
    OBVIOUS
  <2> DEFINE copies == {c \in 0 .. multiplicity - 1 : (j % 64) \in full[2 * c + j \div 64]}
  <2>1. counts[j + 1] = Cardinality(copies)
    <3>1. j + 1 \in 1 .. 128 /\ (j + 1) - 1 = j
      OBVIOUS
    <3> HIDE DEF full
    <3> QED
      BY <3>1 DEF expandAndSum
  <2>2. copies = 0 .. multiplicity - 1
    <3> SUFFICES ASSUME NEW c \in 0 .. multiplicity - 1
                 PROVE  (j % 64) \in full[2 * c + j \div 64]
      OBVIOUS
    <3>1. 2 * c + j \div 64 \in 0 .. 2 * multiplicity - 1 /\ (j % 64) \in 0 .. 63
      OBVIOUS
    <3> QED
      BY <3>1
  <2>3. Cardinality(0 .. multiplicity - 1) = multiplicity
    <3>1. 0 \in Int /\ multiplicity - 1 \in Int
      OBVIOUS
    <3>2. Cardinality(0 .. multiplicity - 1)
              = IF 0 > multiplicity - 1 THEN 0 ELSE (multiplicity - 1) - 0 + 1
      BY <3>1, FS_Interval
    <3> DEFINE n == Cardinality(0 .. multiplicity - 1)
    <3>3. n = IF 0 > multiplicity - 1 THEN 0 ELSE (multiplicity - 1) - 0 + 1
      BY <3>2
    <3> HIDE DEF n
    <3>4. n = multiplicity
      BY <3>3
    <3> QED
      BY <3>4 DEF n
  <2> QED
    BY <2>1, <2>2, <2>3
<1>4. Transformed(7, intHadamard(counts), all)
  <2>1. Transformed(0, counts, all)
    BY <1>1, CountsTransformed
  <2> HIDE DEF counts, all
  <2> QED
    BY <1>2, <2>1, HadamardTransforms
<1>5. \A j \in 0 .. 127 : intHadamard(counts)[j + 1] = IF j = 0 THEN 128 * multiplicity ELSE 0
  <2> HIDE DEF counts
  <2> QED
    BY <1>3, multiplicity \in Int, FlatTransform, SMTT(30)
<1>6. \A j \in 0 .. 127 : Cardinality(P(j)) - Cardinality(M(j)) = IF j = 0 THEN 128 * multiplicity ELSE 0
  BY <1>4, <1>5 DEF Transformed
<1>7. ASSUME NEW j \in 0 .. 127
      PROVE  /\ Cardinality(P(j)) \in Nat /\ Cardinality(M(j)) \in Nat
             /\ Cardinality(all) = Cardinality(P(j)) + Cardinality(M(j))
  <2>1. \A c \in all : Seen(7, j, positionOf(c))
    BY <1>2, SeenAtEnds DEF Placed
  <2>2. P(j) \cup M(j) = all /\ P(j) \cap M(j) = {}
    BY <2>1 DEF Plusses, Minuses
  <2>3. /\ IsFiniteSet(P(j)) /\ IsFiniteSet(M(j))
        /\ Cardinality(P(j)) \in Nat /\ Cardinality(M(j)) \in Nat
    BY <1>2, PartsFinite
  <2> HIDE DEF P, M
  <2> QED
    BY <2>2, <2>3, CardinalityOfTwo
<1>8. Cardinality(M(0)) = 0
  <2>1. \A l \in 0 .. 7 - 1 : ~bit(7 - 7 + l, 0)
    <3> SUFFICES ASSUME NEW l \in 0 .. 6 PROVE ~bit(l, 0)
      OBVIOUS
    <3>1. /\ 0 \div 1 = 0 /\ 0 \div 2 = 0 /\ 0 \div 4 = 0 /\ 0 \div 8 = 0 /\ 0 \div 16 = 0
          /\ 0 \div 32 = 0 /\ 0 \div 64 = 0
      OBVIOUS
    <3>2. 2^0 = 1 /\ 2^1 = 2 /\ 2^2 = 4 /\ 2^3 = 8 /\ 2^4 = 16 /\ 2^5 = 32 /\ 2^6 = 64
      OBVIOUS
    <3>3. 0 \div 2^l = 0
      <4>1. l \in {0, 1, 2, 3, 4, 5, 6}
        OBVIOUS
      <4> QED
        BY <3>1, <3>2, <4>1
    <3> QED
      BY <3>3, OddBasics DEF bit
  <2>2. \A x : Meets(7, 0, x) = {}
    BY <2>1 DEF Meets
  <2>3. \A x : ~Flips(7, 0, x)
    BY <2>2, FS_EmptySet, OddBasics DEF Flips
  <2>4. M(0) = {}
    BY <2>3 DEF Minuses
  <2> HIDE DEF M
  <2> QED
    BY <2>4, FS_EmptySet
<1>9. Cardinality(all) = 128 * multiplicity
  <2> DEFINE a == Cardinality(P(0))   b == Cardinality(M(0))   c == Cardinality(all)
  <2>0. 0 \in 0 .. 127
    OBVIOUS
  <2>1. a \in Nat /\ b = 0 /\ a - b = 128 * multiplicity /\ c = a + b
    BY <1>6, <1>7, <1>8, <2>0
  <2> HIDE DEF a, b, c
  <2>2. c = 128 * multiplicity
    BY <2>1
  <2> QED
    BY <2>2 DEF c
<1>10. /\ Cardinality(P(i)) = IF i = 0 THEN 128 * multiplicity ELSE 64 * multiplicity
       /\ Cardinality(M(i)) = IF i = 0 THEN 0 ELSE 64 * multiplicity
  <2> DEFINE a == Cardinality(P(i))   b == Cardinality(M(i))
  <2>1. /\ a \in Nat /\ b \in Nat /\ a + b = 128 * multiplicity
        /\ a - b = IF i = 0 THEN 128 * multiplicity ELSE 0
    BY <1>6, <1>7, <1>9
  <2> HIDE DEF a, b
  <2>2. /\ a = IF i = 0 THEN 128 * multiplicity ELSE 64 * multiplicity
        /\ b = IF i = 0 THEN 0 ELSE 64 * multiplicity
    BY <2>1
  <2> QED
    BY <2>2 DEF a, b
<1> QED
  BY <1>10

\* What the words of a codeword have at a position.
LEMMA WordsOfCodeword ==
    ASSUME NEW b
    PROVE  LET word == rmEncodeWord(b)
               first(y) == 7 \in b <=> ~Odd(Cardinality({l \in b \cap (0 .. 4) : y \in pattern(l)}))
           IN  /\ word[1] \subseteq 0 .. 63 /\ word[2] \subseteq 0 .. 63
               /\ \A y \in 0 .. 31 :
                      /\ y \in word[1] <=> first(y)
                      /\ y + 32 \in word[1] <=> (first(y) <=> 5 \notin b)
                      /\ y \in word[2] <=> (first(y) <=> 6 \notin b)
                      /\ y + 32 \in word[2] <=> (first(y) <=> (5 \in b <=> 6 \in b))
<1> DEFINE low  == XorOver(b \cap (0 .. 4), pattern)
           fst  == bit0mask(7 \in b) \oplus low
           flip(k, word) == word \oplus bit0mask(k \in b)
           second == flip(5, fst)
           third  == flip(6, second)
           fourth == flip(5, third)
           firstOf(y) == 7 \in b <=> ~Odd(Cardinality({l \in b \cap (0 .. 4) : y \in pattern(l)}))
<1>2. /\ rmEncodeWord(b)[1] = fst \cup ShiftLeft(second, 32, 64)
      /\ rmEncodeWord(b)[2] = fourth \cup ShiftLeft(third, 32, 64)
  BY DEF rmEncodeWord
<1>3. ASSUME NEW y \in 0 .. 31
      PROVE  y \in low <=> Odd(Cardinality({l \in b \cap (0 .. 4) : y \in pattern(l)}))
  <2> DEFINE S == b \cap (0 .. 4)
             t == [l \in S |-> pattern(l)]
             W == {l \in S : y \in t[l]}
  <2>1. low = {x \in UNION {t[l] : l \in S} : Odd(Cardinality({l \in S : x \in t[l]}))}
    BY DEF XorOver
  <2>2. W = {l \in S : y \in pattern(l)}
    OBVIOUS
  <2>3. W # {} => y \in UNION {t[l] : l \in S}
    OBVIOUS
  <2>4. W = {} => ~Odd(Cardinality(W))
    BY FS_EmptySet, OddBasics
  <2>5. y \in low <=> y \in UNION {t[l] : l \in S} /\ Odd(Cardinality(W))
    BY <2>1
  <2> HIDE DEF W, S, t, low
  <2>6. y \in low <=> Odd(Cardinality(W))
    BY <2>3, <2>4, <2>5
  <2> QED
    BY <2>2, <2>6 DEF S
<1>4. \A y \in 0 .. 31 :
          /\ y \in fst <=> firstOf(y)
          /\ y \in second <=> (firstOf(y) <=> 5 \notin b)
          /\ y \in third <=> (firstOf(y) <=> (5 \in b <=> 6 \in b))
          /\ y \in fourth <=> (firstOf(y) <=> 6 \notin b)
  <2> SUFFICES ASSUME NEW y \in 0 .. 31
               PROVE  /\ y \in fst <=> firstOf(y)
                      /\ y \in second <=> (firstOf(y) <=> 5 \notin b)
                      /\ y \in third <=> (firstOf(y) <=> (5 \in b <=> 6 \in b))
                      /\ y \in fourth <=> (firstOf(y) <=> 6 \notin b)
    OBVIOUS
  <2>1. \A k : y \in bit0mask(k \in b) <=> k \in b
    BY DEF bit0mask
  <2>2. \A u, v : y \in u \oplus v <=> ~(y \in u <=> y \in v)
    BY DEF \oplus, SymDiff
  <2>3. \A k, u : y \in flip(k, u) <=> ~(y \in u <=> k \in b)
    BY <2>1, <2>2, Zenon
  <2>4. y \in fst <=> ~(7 \in b <=> y \in low)
    <3> DEFINE mask == bit0mask(7 \in b)
    <3>1. y \in mask <=> 7 \in b
      BY <2>1
    <3> HIDE DEF mask, low
    <3>2. y \in mask \oplus low <=> ~(y \in mask <=> y \in low)
      BY <2>2
    <3>3. fst = mask \oplus low
      BY DEF mask
    <3> QED
      BY <3>1, <3>2, <3>3
  <2>5. y \in fst <=> firstOf(y)
    BY <2>4, <1>3
  <2> HIDE DEF fst, firstOf, flip
  <2>6. y \in second <=> ~(y \in fst <=> 5 \in b)
    BY <2>3
  <2>7. y \in third <=> ~(y \in second <=> 6 \in b)
    BY <2>3
  <2>8. y \in fourth <=> ~(y \in third <=> 5 \in b)
    BY <2>3
  <2> QED
    BY <2>5, <2>6, <2>7, <2>8
<1>5. /\ fst \subseteq 0 .. 31 /\ second \subseteq 0 .. 31
      /\ third \subseteq 0 .. 31 /\ fourth \subseteq 0 .. 31
  <2>1. \A k \in 0 .. 4 : pattern(k) \subseteq 0 .. 31
    BY DEF pattern
  <2>2. low \subseteq 0 .. 31
    <3> DEFINE S == b \cap (0 .. 4)
               t == [l \in S |-> pattern(l)]
    <3>1. low \subseteq UNION {t[l] : l \in S}
      BY DEF XorOver
    <3>2. \A l \in S : t[l] \subseteq 0 .. 31
      BY <2>1
    <3> HIDE DEF S, t, low
    <3> QED
      BY <3>1, <3>2
  <2>3. \A c : bit0mask(c) \subseteq 0 .. 31
    BY DEF bit0mask
  <2>4. \A u, v : u \subseteq 0 .. 31 /\ v \subseteq 0 .. 31 => u \oplus v \subseteq 0 .. 31
    BY DEF \oplus, SymDiff
  <2> HIDE DEF low
  <2>5. fst \subseteq 0 .. 31
    BY <2>2, <2>3, <2>4
  <2> HIDE DEF fst
  <2>6. second \subseteq 0 .. 31
    BY <2>3, <2>4, <2>5
  <2> HIDE DEF second
  <2>7. third \subseteq 0 .. 31
    BY <2>3, <2>4, <2>6
  <2> HIDE DEF third
  <2>8. fourth \subseteq 0 .. 31
    BY <2>3, <2>4, <2>7
  <2> QED
    BY <2>5, <2>6, <2>7, <2>8 DEF fst, second, third
<1> HIDE DEF fst, second, third, fourth, firstOf
<1>6. ASSUME NEW lo, NEW hi, lo \subseteq 0 .. 31, hi \subseteq 0 .. 31, NEW y \in 0 .. 31
      PROVE  /\ y \in lo \cup ShiftLeft(hi, 32, 64) <=> y \in lo
             /\ y + 32 \in lo \cup ShiftLeft(hi, 32, 64) <=> y \in hi
  <2>1. \A z : z \in hi => z \in 0 .. 31
    BY <1>6
  <2>2. \A z : z \in lo => z \in 0 .. 31
    BY <1>6
  <2>3. y \notin ShiftLeft(hi, 32, 64)
    BY <2>1 DEF ShiftLeft
  <2>4. y + 32 \in ShiftLeft(hi, 32, 64) <=> y \in hi
    <3>1. ASSUME y + 32 \in ShiftLeft(hi, 32, 64) PROVE y \in hi
      <4>1. PICK z \in hi : y + 32 = z + 32
        BY <3>1 DEF ShiftLeft
      <4>2. z = y
        BY <2>1, <4>1
      <4> QED
        BY <4>2
    <3>2. y \in hi => y + 32 \in ShiftLeft(hi, 32, 64)
      BY DEF ShiftLeft
    <3> QED
      BY <3>1, <3>2
  <2>5. y + 32 \notin lo
    BY <2>2
  <2> QED
    BY <2>3, <2>4, <2>5
<1>7. ASSUME NEW y \in 0 .. 31
      PROVE  /\ y \in rmEncodeWord(b)[1] <=> firstOf(y)
             /\ y + 32 \in rmEncodeWord(b)[1] <=> (firstOf(y) <=> 5 \notin b)
             /\ y \in rmEncodeWord(b)[2] <=> (firstOf(y) <=> 6 \notin b)
             /\ y + 32 \in rmEncodeWord(b)[2] <=> (firstOf(y) <=> (5 \in b <=> 6 \in b))
  <2>1. /\ y \in fst \cup ShiftLeft(second, 32, 64) <=> y \in fst
        /\ y + 32 \in fst \cup ShiftLeft(second, 32, 64) <=> y \in second
        /\ y \in fourth \cup ShiftLeft(third, 32, 64) <=> y \in fourth
        /\ y + 32 \in fourth \cup ShiftLeft(third, 32, 64) <=> y \in third
    BY <1>5, <1>6, ZenonT(30)
  <2>2. /\ y \in fst <=> firstOf(y)
        /\ y \in second <=> (firstOf(y) <=> 5 \notin b)
        /\ y \in third <=> (firstOf(y) <=> (5 \in b <=> 6 \in b))
        /\ y \in fourth <=> (firstOf(y) <=> 6 \notin b)
    BY <1>4
  <2> QED
    BY <1>2, <2>1, <2>2
<1>8. \A hi : ShiftLeft(hi, 32, 64) \subseteq 0 .. 63
  BY DEF ShiftLeft
<1>9. \A S : S \subseteq 0 .. 31 => S \subseteq 0 .. 63
  OBVIOUS
<1>10. rmEncodeWord(b)[1] \subseteq 0 .. 63 /\ rmEncodeWord(b)[2] \subseteq 0 .. 63
  BY <1>2, <1>5, <1>8, <1>9, ZenonT(30)
<1> QED
  BY <1>7, <1>10 DEF firstOf

\* Bit l of the number of a codeword tells whether its positions with bit l are inverted.
LEMMA CodewordBits ==
    ASSUME NEW j \in 0 .. 127, NEW b, \A l \in 0 .. 6 : l \in b <=> bit(l, j),
           NEW h \in 0 .. 1, NEW i \in 0 .. 63
    PROVE  i \in rmEncodeWord(b)[h + 1] <=> (7 \in b <=> ~Flips(7, j, 64 * h + i))
<1> DEFINE x == 64 * h + i
           y == i % 32
           S == {l \in b \cap (0 .. 4) : y \in pattern(l)}
           five == bit(5, x) /\ 5 \in b
           six  == bit(6, x) /\ 6 \in b
           S5 == IF five THEN S \cup {5} ELSE S
           S6 == IF six THEN S5 \cup {6} ELSE S5
           first == 7 \in b <=> ~Odd(Cardinality(S))
<1>1. x \in 0 .. 127 /\ y \in 0 .. 31
  OBVIOUS
<1>2. \A l \in 0 .. 4 : y \in pattern(l) <=> bit(l, x)
  <2> SUFFICES ASSUME NEW l \in 0 .. 4 PROVE y \in pattern(l) <=> bit(l, x)
    OBVIOUS
  <2>1. y \in pattern(l) <=> bit(l, y)
    BY <1>1 DEF pattern, bit
  <2>2. /\ (y \div 1) % 2 = (x \div 1) % 2 /\ (y \div 2) % 2 = (x \div 2) % 2
        /\ (y \div 4) % 2 = (x \div 4) % 2 /\ (y \div 8) % 2 = (x \div 8) % 2
        /\ (y \div 16) % 2 = (x \div 16) % 2
    OBVIOUS
  <2>3. 2^0 = 1 /\ 2^1 = 2 /\ 2^2 = 4 /\ 2^3 = 8 /\ 2^4 = 16
    OBVIOUS
  <2> HIDE DEF x, y
  <2>4. (y \div 2^l) % 2 = (x \div 2^l) % 2
    <3>1. CASE l = 0
      BY <2>2, <2>3, <3>1
    <3>2. CASE l = 1
      BY <2>2, <2>3, <3>2
    <3>3. CASE l = 2
      BY <2>2, <2>3, <3>3
    <3>4. CASE l = 3
      BY <2>2, <2>3, <3>4
    <3>5. CASE l = 4
      BY <2>2, <2>3, <3>5
    <3> QED
      BY <3>1, <3>2, <3>3, <3>4, <3>5
  <2> QED
    BY <2>1, <2>4 DEF bit, Odd
<1>3. bit(6, x) <=> h = 1
  <2>1. (x \div 64) % 2 = h /\ 2^6 = 64
    OBVIOUS
  <2> QED
    BY <2>1 DEF bit, Odd
<1>4. /\ bit(5, x) <=> i >= 32
      /\ i >= 32 => i = y + 32
      /\ ~(i >= 32) => i = y
  <2>1. ((x \div 32) % 2 = 1 <=> i >= 32) /\ 2^5 = 32
    OBVIOUS
  <2>2. (i >= 32 => i = y + 32) /\ (~(i >= 32) => i = y)
    OBVIOUS
  <2> QED
    BY <2>1, <2>2 DEF bit, Odd
<1>5. Meets(7, j, x) = S6
  <2>1. \A l : l \in Meets(7, j, x) <=> l \in 0 .. 6 /\ bit(l, x) /\ l \in b
    <3>1. \A l : l \in 0 .. 7 - 1 <=> l \in 0 .. 6
      OBVIOUS
    <3>2. \A l \in 0 .. 6 : 7 - 7 + l = l
      OBVIOUS
    <3> HIDE DEF x
    <3> QED
      BY <3>1, <3>2 DEF Meets
  <2>2. \A l : l \in 0 .. 6 <=> l \in 0 .. 4 \/ l = 5 \/ l = 6
    OBVIOUS
  <2> HIDE DEF x, y
  <2>3. \A l : l \in S6 <=> (l \in 0 .. 4 /\ bit(l, x) /\ l \in b) \/ (l = 5 /\ five) \/ (l = 6 /\ six)
    BY <1>2
  <2> HIDE DEF S6
  <2> QED
    BY <2>1, <2>2, <2>3
<1>6. IsFiniteSet(S) /\ IsFiniteSet(S5) /\ 5 \notin S /\ 6 \notin S5
  <2>0. 0 \in Int /\ 4 \in Int
    OBVIOUS
  <2>1. IsFiniteSet(0 .. 4) /\ S \subseteq 0 .. 4
    <3>1. IsFiniteSet(0 .. 4)
      BY <2>0, FS_Interval
    <3> QED
      BY <3>1
  <2>2. IsFiniteSet(S) /\ IsFiniteSet(S \cup {5})
    BY <2>1, FS_Subset, FS_AddElement
  <2> HIDE DEF x, y
  <2> QED
    BY <2>2
<1> HIDE DEF S, x, y
<1>7. Odd(Cardinality(S5)) <=> (Odd(Cardinality(S)) <=> ~five)
  BY <1>6, OddOfOneMore
<1>8. Odd(Cardinality(S6)) <=> (Odd(Cardinality(S5)) <=> ~six)
  <2> HIDE DEF S5
  <2> QED
    BY <1>6, OddOfOneMore
<1>9. Flips(7, j, x) <=> ((Odd(Cardinality(S)) <=> ~five) <=> ~six)
  BY <1>5, <1>7, <1>8 DEF Flips
<1>10. LET word == rmEncodeWord(b)
       IN  /\ y \in word[1] <=> first
           /\ y + 32 \in word[1] <=> (first <=> 5 \notin b)
           /\ y \in word[2] <=> (first <=> 6 \notin b)
           /\ y + 32 \in word[2] <=> (first <=> (5 \in b <=> 6 \in b))
  BY <1>1, WordsOfCodeword DEF S
<1>11. i \in rmEncodeWord(b)[h + 1] <=> (7 \in b <=> ~Flips(7, j, x))
  <2>1. h + 1 = IF h = 1 THEN 2 ELSE 1
    OBVIOUS
  <2>2. CASE h = 0 /\ ~(i >= 32)
    <3>1. h + 1 = 1 /\ i = y /\ ~five /\ ~six
      BY <2>2, <1>3, <1>4
    <3> QED
      BY <3>1, <1>9, <1>10
  <2>3. CASE h = 0 /\ i >= 32
    <3>1. h + 1 = 1 /\ i = y + 32 /\ (five <=> 5 \in b) /\ ~six
      BY <2>3, <1>3, <1>4
    <3> QED
      BY <3>1, <1>9, <1>10
  <2>4. CASE h = 1 /\ ~(i >= 32)
    <3>1. h + 1 = 2 /\ i = y /\ ~five /\ (six <=> 6 \in b)
      BY <2>4, <1>3, <1>4
    <3> QED
      BY <3>1, <1>9, <1>10
  <2>5. CASE h = 1 /\ i >= 32
    <3>1. h + 1 = 2 /\ i = y + 32 /\ (five <=> 5 \in b) /\ (six <=> 6 \in b)
      BY <2>5, <1>3, <1>4
    <3> QED
      BY <3>1, <1>9, <1>10
  <2> QED
    BY <2>2, <2>3, <2>4, <2>5
<1> QED
  BY <1>11 DEF x

\* The words of a symbol's copies, and the bytes whose codeword is at position j or is the
\* complement of the one that is.
Copies(src, multiplicity) == \A w \in 0 .. 2 * multiplicity - 1 : src[w] \subseteq 0 .. 63
Names(b, j) == \A l \in 0 .. 6 : l \in b <=> bit(l, j)

Differing(src, codeword, copies) ==
    UNION {{w} \X (src[w] \oplus codeword[(w % 2) + 1]) : w \in 0 .. 2 * copies - 1}

\* A symbol's copies and a codeword differ at the ones at which the codeword has a zero
\* and at the zeros at which it has a one.
LEMMA DifferingCells ==
    ASSUME NEW multiplicity \in Nat, NEW src, NEW j \in 0 .. 127,
           Copies(src, multiplicity), NEW b, Names(b, j)
    PROVE  LET all == Cells(multiplicity)
               O   == Ones(src, multiplicity)
           IN  Differing(src, rmEncodeWord(b), multiplicity)
                   = IF 7 \in b
                     THEN Minuses(7, j, O) \cup (Plusses(7, j, all) \ Plusses(7, j, O))
                     ELSE Plusses(7, j, O) \cup (Minuses(7, j, all) \ Minuses(7, j, O))
<1> DEFINE all == Cells(multiplicity)
           O   == Ones(src, multiplicity)
           W   == 0 .. 2 * multiplicity - 1
           word == rmEncodeWord(b)
           part(w) == {w} \X (src[w] \oplus word[(w % 2) + 1])
           differ == UNION {part(w) : w \in W}
           flip(c) == Flips(7, j, positionOf(c))
<1>1. word[1] \subseteq 0 .. 63 /\ word[2] \subseteq 0 .. 63
  BY WordsOfCodeword
<1>2. \A h \in 0 .. 1, i \in 0 .. 63 : i \in word[h + 1] <=> (7 \in b <=> ~Flips(7, j, 64 * h + i))
  BY CodewordBits DEF Names
<1>3. ASSUME NEW w \in W
      PROVE  w % 2 \in 0 .. 1 /\ word[(w % 2) + 1] \subseteq 0 .. 63
  <2>1. w % 2 = 0 \/ w % 2 = 1
    OBVIOUS
  <2>2. 0 + 1 = 1 /\ 1 + 1 = 2
    OBVIOUS
  <2> HIDE DEF word
  <2> QED
    BY <1>1, <2>1, <2>2
<1> HIDE DEF word
<1>4. differ \subseteq all
  <2> SUFFICES ASSUME NEW w \in W PROVE part(w) \subseteq all
    OBVIOUS
  <2>1. src[w] \subseteq 0 .. 63 /\ word[(w % 2) + 1] \subseteq 0 .. 63
    BY <1>3 DEF Copies
  <2>2. src[w] \oplus word[(w % 2) + 1] \subseteq 0 .. 63
    BY <2>1 DEF \oplus, SymDiff
  <2> QED
    BY <2>2 DEF Cells
<1>5. \A c \in all : c = <<c[1], c[2]>> /\ c[1] \in W /\ c[2] \in 0 .. 63
  BY DEF Cells
<1>6. ASSUME NEW c \in all
      PROVE  c \in differ <=> ~(c[2] \in src[c[1]] <=> c[2] \in word[(c[1] % 2) + 1])
  <2>1. \A w \in W : c \in part(w) <=> c[1] = w /\ c[2] \in src[w] \oplus word[(w % 2) + 1]
    BY <1>5
  <2>2. c \in differ <=> c[2] \in src[c[1]] \oplus word[(c[1] % 2) + 1]
    <3> HIDE DEF part, W
    <3>1. c \in differ <=> \E w \in W : c \in part(w)
      OBVIOUS
    <3> QED
      BY <1>5, <2>1, <3>1
  <2>3. \A A, B, e : e \in A \oplus B <=> ~(e \in A <=> e \in B)
    BY DEF \oplus, SymDiff
  <2> HIDE DEF differ
  <2> QED
    BY <2>2, <2>3
<1>7. ASSUME NEW c \in all
      PROVE  /\ c \in O <=> c[2] \in src[c[1]]
             /\ c[2] \in word[(c[1] % 2) + 1] <=> (7 \in b <=> ~flip(c))
             /\ Seen(7, j, positionOf(c))
  <2>1. c[1] % 2 \in 0 .. 1 /\ c[2] \in 0 .. 63
    BY <1>3, <1>5
  <2>2. positionOf(c) \in 0 .. 127
    BY <2>1 DEF positionOf
  <2>3. c \in O <=> c[2] \in src[c[1]]
    BY DEF Ones
  <2>4. c[2] \in word[(c[1] % 2) + 1] <=> (7 \in b <=> ~flip(c))
    BY <1>2, <2>1 DEF positionOf
  <2> QED
    BY <2>2, <2>3, <2>4, SeenAtEnds
<1>8. O \subseteq all
  BY DEF Ones
<1>9. /\ \A c : c \in Plusses(7, j, O) <=> c \in O /\ Seen(7, j, positionOf(c)) /\ ~flip(c)
      /\ \A c : c \in Minuses(7, j, O) <=> c \in O /\ Seen(7, j, positionOf(c)) /\ flip(c)
      /\ \A c : c \in Plusses(7, j, all) <=> c \in all /\ Seen(7, j, positionOf(c)) /\ ~flip(c)
      /\ \A c : c \in Minuses(7, j, all) <=> c \in all /\ Seen(7, j, positionOf(c)) /\ flip(c)
  BY DEF Plusses, Minuses
<1> HIDE DEF differ, O, all, flip
<1>10. CASE 7 \in b
  <2>1. \A c : c \in differ <=> c \in Minuses(7, j, O) \cup (Plusses(7, j, all) \ Plusses(7, j, O))
    BY <1>4, <1>6, <1>7, <1>8, <1>9, <1>10
  <2>2. differ = Minuses(7, j, O) \cup (Plusses(7, j, all) \ Plusses(7, j, O))
    BY <2>1
  <2> QED
    BY <2>2, <1>10 DEF differ, word, O, all, Differing
<1>11. CASE 7 \notin b
  <2>1. \A c : c \in differ <=> c \in Plusses(7, j, O) \cup (Minuses(7, j, all) \ Minuses(7, j, O))
    BY <1>4, <1>6, <1>7, <1>8, <1>9, <1>11
  <2>2. differ = Plusses(7, j, O) \cup (Minuses(7, j, all) \ Minuses(7, j, O))
    BY <2>1
  <2> QED
    BY <2>2, <1>11 DEF differ, word, O, all, Differing
<1> QED
  BY <1>10, <1>11

\* The distance of a symbol to a codeword is half the symbol's bits, more by the value the
\* transform has at the codeword's position, or less by it for the inverted codeword.
DistanceIs(src, multiplicity, b, j) ==
    LET value == intPeaks(src, multiplicity)[j + 1]
    IN  /\ value \in Int
        /\ Distance(src, rmEncodeWord(b), multiplicity)
               = IF 7 \in b THEN 64 * multiplicity - value ELSE 64 * multiplicity + value

LEMMA DistanceIsValue ==
    ASSUME NEW multiplicity \in Nat, NEW src, NEW j \in 0 .. 127,
           Copies(src, multiplicity), NEW b, Names(b, j)
    PROVE  DistanceIs(src, multiplicity, b, j)
<1> DEFINE all == Cells(multiplicity)
           O   == Ones(src, multiplicity)
           g   == intHadamard(expandAndSum(src, multiplicity))
           value == intPeaks(src, multiplicity)[j + 1]
           PO == Plusses(7, j, O)
           MO == Minuses(7, j, O)
           PA == Plusses(7, j, all)
           MA == Minuses(7, j, all)
<1>1. O \subseteq all
  BY DEF Ones
<1>2. Placed(O) /\ Placed(all)
  BY <1>1, CellsPlaced
<1>3. Transformed(7, g, O)
  BY <1>2, CountsTransformed, HadamardTransforms
<1>4. g[j + 1] = Cardinality(PO) - Cardinality(MO)
  BY <1>3 DEF Transformed
<1>5. value = IF j = 0 THEN g[j + 1] - 64 * multiplicity ELSE g[j + 1]
  <2>1. j + 1 \in Position /\ (j + 1 = 1 <=> j = 0)
    BY DEF Position
  <2> HIDE DEF g
  <2>2. value = IF j + 1 = 1 THEN g[1] - 64 * multiplicity ELSE g[j + 1]
    BY <2>1 DEF intPeaks, g
  <2> QED
    BY <2>1, <2>2
<1>6. /\ Cardinality(PA) = IF j = 0 THEN 128 * multiplicity ELSE 64 * multiplicity
      /\ Cardinality(MA) = IF j = 0 THEN 0 ELSE 64 * multiplicity
  BY CodewordsBalanced
<1>7. /\ IsFiniteSet(PO) /\ IsFiniteSet(MO) /\ IsFiniteSet(PA) /\ IsFiniteSet(MA)
      /\ Cardinality(PO) \in Nat /\ Cardinality(MO) \in Nat
  BY <1>2, PartsFinite
<1>8. PO \subseteq PA /\ MO \subseteq MA /\ PA \cap MA = {}
  BY <1>1 DEF Plusses, Minuses
<1> HIDE DEF PO, MO, PA, MA, g, O, all, value
<1>9. ASSUME NEW A, NEW B, NEW C, IsFiniteSet(A), IsFiniteSet(B), IsFiniteSet(C),
             A \cap B = {}, C \subseteq B
      PROVE  Cardinality(A \cup (B \ C)) = Cardinality(A) + (Cardinality(B) - Cardinality(C))
  <2>1. IsFiniteSet(B \ C) /\ A \cap (B \ C) = {}
    BY <1>9, FS_Difference
  <2>2. Cardinality(A \cup (B \ C)) = Cardinality(A) + Cardinality(B \ C)
    BY <1>9, <2>1, CardinalityOfTwo
  <2>3. (B \ C) \cup C = B /\ (B \ C) \cap C = {}
    BY <1>9
  <2>4. Cardinality(B) = Cardinality(B \ C) + Cardinality(C)
    BY <1>9, <2>1, <2>3, CardinalityOfTwo
  <2>5. /\ Cardinality(A) \in Nat /\ Cardinality(B) \in Nat /\ Cardinality(C) \in Nat
        /\ Cardinality(B \ C) \in Nat
    BY <1>9, <2>1, FS_CardinalityType
  <2> QED
    BY <2>2, <2>4, <2>5
<1>10. /\ Cardinality(PO \cup (MA \ MO)) = Cardinality(PO) + (Cardinality(MA) - Cardinality(MO))
       /\ Cardinality(MO \cup (PA \ PO)) = Cardinality(MO) + (Cardinality(PA) - Cardinality(PO))
  BY <1>7, <1>8, <1>9
<1>11. Distance(src, rmEncodeWord(b), multiplicity)
           = IF 7 \in b THEN Cardinality(MO \cup (PA \ PO)) ELSE Cardinality(PO \cup (MA \ MO))
  <2>1. Differing(src, rmEncodeWord(b), multiplicity)
            = IF 7 \in b THEN MO \cup (PA \ PO) ELSE PO \cup (MA \ MO)
    BY DifferingCells DEF PO, MO, PA, MA, O, all
  <2>2. Distance(src, rmEncodeWord(b), multiplicity)
            = Cardinality(Differing(src, rmEncodeWord(b), multiplicity))
    BY DEF Distance, Differing
  <2> QED
    BY <2>1, <2>2
<1>12. value \in Int
  BY <1>4, <1>5, <1>7
<1>13. /\ 7 \in b => Distance(src, rmEncodeWord(b), multiplicity) = 64 * multiplicity - value
       /\ 7 \notin b => Distance(src, rmEncodeWord(b), multiplicity) = 64 * multiplicity + value
  BY <1>4, <1>5, <1>6, <1>7, <1>10, <1>11
<1> QED
  BY <1>12, <1>13 DEF value, DistanceIs

\* The bits of the position of a codeword are those of the lower 128, and bit 7 inverts it.
LEMMA BitsOfPosition ==
    ASSUME NEW j \in 0 .. 127
    PROVE  /\ \A l \in 0 .. 6 : l \in Bits(j) <=> bit(l, j)
           /\ \A l \in 0 .. 6 : l \in Bits(j + 128) <=> bit(l, j)
           /\ 7 \notin Bits(j) /\ 7 \in Bits(j + 128)
<1>1. /\ 2^0 = 1 /\ 2^1 = 2 /\ 2^2 = 4 /\ 2^3 = 8 /\ 2^4 = 16 /\ 2^5 = 32 /\ 2^6 = 64 /\ 2^7 = 128
  OBVIOUS
<1>2. /\ ((j + 128) \div 1) % 2 = (j \div 1) % 2 /\ ((j + 128) \div 2) % 2 = (j \div 2) % 2
      /\ ((j + 128) \div 4) % 2 = (j \div 4) % 2 /\ ((j + 128) \div 8) % 2 = (j \div 8) % 2
      /\ ((j + 128) \div 16) % 2 = (j \div 16) % 2 /\ ((j + 128) \div 32) % 2 = (j \div 32) % 2
      /\ ((j + 128) \div 64) % 2 = (j \div 64) % 2
      /\ (j \div 128) % 2 = 0 /\ ((j + 128) \div 128) % 2 = 1
  OBVIOUS
<1>3. ASSUME NEW l \in 0 .. 6 PROVE ((j + 128) \div 2^l) % 2 = (j \div 2^l) % 2
  <2>1. CASE l = 0
    BY <1>1, <1>2, <2>1
  <2>2. CASE l = 1
    BY <1>1, <1>2, <2>2
  <2>3. CASE l = 2
    BY <1>1, <1>2, <2>3
  <2>4. CASE l = 3
    BY <1>1, <1>2, <2>4
  <2>5. CASE l = 4
    BY <1>1, <1>2, <2>5
  <2>6. CASE l = 5
    BY <1>1, <1>2, <2>6
  <2>7. CASE l = 6
    BY <1>1, <1>2, <2>7
  <2> QED
    BY <2>1, <2>2, <2>3, <2>4, <2>5, <2>6, <2>7
<1>4. \A k : 7 \in Bits(k) <=> Odd(k \div 2^7)
  BY DEF Bits
<1>5. \A l \in 0 .. 6 : \A k : l \in Bits(k) <=> bit(l, k)
  BY DEF Bits, bit
<1>6. \A l \in 0 .. 6 : bit(l, j + 128) <=> bit(l, j)
  BY <1>3 DEF bit, Odd
<1> QED
  BY <1>1, <1>2, <1>4, <1>5, <1>6 DEF Odd

Peaks == [abs : Word, peak : Word, pos : 0 .. 127]

\* The peak before position k, and what findPeaks has established of it.
peakStep(f, t, k) == IF k = 0 THEN [abs |-> 0, peak |-> 0, pos |-> 0] ELSE peakWith(f[k - 1], k - 1, t[k])

Largest(s, v, k) ==
    /\ s \in Peaks
    /\ \A q \in 0 .. k - 1 : Magnitude(v[q + 1]) <= s.abs
    /\ \/ s.abs = 0 /\ s.peak = 0 /\ s.pos = 0
       \/ s.abs = Magnitude(v[s.pos + 1]) /\ (TopBit(s.peak) <=> v[s.pos + 1] < 0)

\* findPeaks keeps at each position the first of the largest absolute values so far.
LEMMA PeakStepKeeps ==
    ASSUME NEW t, NEW v, NEW bound \in Nat, 2 * bound < Modulus,
           \A i \in Position : t[i] \in Word /\ Signed(t[i]) = v[i] /\ v[i] \in -bound .. bound,
           NEW f, NEW k \in 1 .. 128, Largest(f[k - 1], v, k - 1), f[k - 1].abs \in 0 .. bound
    PROVE  Largest(peakStep(f, t, k), v, k) /\ peakStep(f, t, k).abs \in 0 .. bound
<1> DEFINE s == f[k - 1]
           w == t[k]
           n == v[k]
           taken == [abs |-> absolute(w), peak |-> w, pos |-> k - 1]
<1>1. w \in Word /\ Signed(w) = n /\ n \in -bound .. bound /\ k - 1 \in 0 .. 127
  BY SMTT(30) DEF Position
<1> HIDE DEF s, w, n
<1>2. absolute(w) = Magnitude(n) /\ absolute(w) \in 0 .. bound /\ (TopBit(w) <=> n < 0)
  BY <1>1, ModulusAssumption DEF absolute, Magnitude, Signed, TopBit, Minus, Word
<1>3. \A a, b \in 0 .. bound : TopBit(Minus(b, a)) <=> a > b
  BY ModulusAssumption DEF TopBit, Minus
<1>4. s.abs \in 0 .. bound
  BY DEF s
<1>5. exceeds(absolute(w), s.abs) <=> absolute(w) > s.abs
  BY <1>2, <1>3, <1>4 DEF exceeds
<1>6. peakStep(f, t, k) = IF absolute(w) > s.abs THEN taken ELSE s
  BY <1>5 DEF peakStep, peakWith, s, w
<1>7. \A q \in 0 .. k - 1 : q = k - 1 \/ q \in 0 .. (k - 1) - 1
  OBVIOUS
<1>8. \A q \in 0 .. k - 1 : v[q + 1] \in Int /\ Magnitude(v[q + 1]) \in Nat
  <2> SUFFICES ASSUME NEW q \in 0 .. k - 1 PROVE v[q + 1] \in Int /\ Magnitude(v[q + 1]) \in Nat
    OBVIOUS
  <2>1. v[q + 1] \in Int
    BY SMTT(30) DEF Position
  <2> QED
    BY <2>1 DEF Magnitude
<1>9. k - 1 + 1 = k
  OBVIOUS
<1>10. Largest(s, v, k - 1)
  BY DEF s
<1> HIDE DEF taken
<1>11. CASE absolute(w) > s.abs
  <2>1. taken \in Peaks /\ taken.abs = absolute(w) /\ taken.peak = w /\ taken.pos = k - 1
    BY <1>1, <1>2, ModulusAssumption DEF Peaks, taken, Word
  <2>2. v[taken.pos + 1] = n
    BY <1>9, <2>1 DEF n
  <2>3. ASSUME NEW q \in 0 .. k - 1 PROVE Magnitude(v[q + 1]) <= taken.abs
    <3>1. CASE q = k - 1
      BY <1>2, <1>8, <2>1, <2>2, <3>1
    <3>2. CASE q \in 0 .. (k - 1) - 1
      BY <1>2, <1>4, <1>8, <1>10, <1>11, <2>1, <3>2 DEF Largest
    <3> QED
      BY <1>7, <3>1, <3>2
  <2>4. Largest(taken, v, k)
    BY <1>2, <2>1, <2>2, <2>3 DEF Largest
  <2> QED
    BY <1>2, <1>6, <1>11, <2>1, <2>4
<1>12. CASE ~(absolute(w) > s.abs)
  <2>1. ASSUME NEW q \in 0 .. k - 1 PROVE Magnitude(v[q + 1]) <= s.abs
    <3>1. CASE q = k - 1
      BY <1>2, <1>4, <1>9, <1>12, <3>1 DEF n
    <3>2. CASE q \in 0 .. (k - 1) - 1
      BY <1>10, <3>2 DEF Largest
    <3> QED
      BY <1>7, <3>1, <3>2
  <2>2. Largest(s, v, k)
    BY <1>10, <2>1 DEF Largest
  <2> QED
    BY <1>4, <1>6, <1>12, <2>2
<1> QED
  BY <1>11, <1>12

\* A word of a list of 128 exists for each step of findPeaks.
LEMMA PeakTableExists ==
    ASSUME NEW t, \A i \in Position : t[i] \in Word
    PROVE  \E f \in [0 .. 128 -> Peaks] : \A k \in 0 .. 128 : f[k] = peakStep(f, t, k)
<1> DEFINE first == [abs |-> 0, peak |-> 0, pos |-> 0]
           UpTo(f, m) == \A k \in 0 .. 128 : k <= m => f[k] = peakStep(f, t, k)
           S == {m \in Nat : \E f \in [0 .. 128 -> Peaks] : UpTo(f, m)}
<1>1. first \in Peaks
  BY ModulusAssumption DEF Peaks, Word
<1>2. 0 \in S
  <2> DEFINE f == [k \in 0 .. 128 |-> first]
  <2>1. f \in [0 .. 128 -> Peaks] /\ f[0] = first
    BY <1>1
  <2>2. UpTo(f, 0)
    BY <2>1 DEF peakStep
  <2> QED
    BY <2>1, <2>2
<1>3. ASSUME NEW m \in Nat, m \in S PROVE m + 1 \in S
  <2>1. PICK f \in [0 .. 128 -> Peaks] : UpTo(f, m)
    BY <1>3
  <2>2. CASE m >= 128
    <3>1. UpTo(f, m + 1)
      BY <2>1, <2>2
    <3> QED
      BY <3>1
  <2>3. CASE m < 128
    <3> DEFINE g == [f EXCEPT ![m + 1] = peakStep(f, t, m + 1)]
    <3>1. m + 1 \in 0 .. 128 /\ (m + 1) - 1 = m /\ m \in 0 .. 127
      BY <2>3
    <3>2. peakStep(f, t, m + 1) \in Peaks
      <4>1. t[m + 1] \in Word
        BY <3>1 DEF Position
      <4>2. absolute(t[m + 1]) \in Word
        BY <4>1, ModulusAssumption DEF absolute, TopBit, Minus, Word
      <4>3. f[m] \in Peaks
        BY <3>1
      <4>4. peakStep(f, t, m + 1) = peakWith(f[m], m, t[m + 1])
        BY <3>1 DEF peakStep
      <4>5. [abs |-> absolute(t[m + 1]), peak |-> t[m + 1], pos |-> m] \in Peaks
        BY <3>1, <4>1, <4>2 DEF Peaks
      <4> QED
        BY <4>3, <4>4, <4>5 DEF peakWith
    <3>3. /\ g \in [0 .. 128 -> Peaks] /\ g[m + 1] = peakStep(f, t, m + 1)
          /\ \A k \in 0 .. 128 : k # m + 1 => g[k] = f[k]
      BY <3>1, <3>2
    <3> HIDE DEF g
    <3>4. ASSUME NEW k \in 0 .. 128, k <= m + 1 PROVE g[k] = peakStep(g, t, k)
      <4>1. k # 0 => k - 1 \in 0 .. 128 /\ k - 1 # m + 1
        BY <3>4
      <4>2. k # 0 => g[k - 1] = f[k - 1]
        BY <3>3, <4>1
      <4>3. peakStep(g, t, k) = peakStep(f, t, k)
        BY <4>2 DEF peakStep
      <4>4. CASE k = m + 1
        BY <3>3, <4>3, <4>4
      <4>5. CASE k # m + 1
        BY <2>1, <3>3, <3>4, <4>3, <4>5
      <4> QED
        BY <4>4, <4>5
    <3> QED
      BY <3>3, <3>4
  <2> QED
    BY <2>2, <2>3
<1> HIDE DEF S
<1>4. 128 \in S
  BY <1>2, <1>3, EveryNatural
<1>5. PICK f \in [0 .. 128 -> Peaks] : UpTo(f, 128)
  BY <1>4 DEF S
<1> QED
  BY <1>5

\* findPeaks ends with the largest.
LEMMA FindPeaksFinds ==
    ASSUME NEW t, NEW v, NEW bound \in Nat, 2 * bound < Modulus,
           \A i \in Position : t[i] \in Word /\ Signed(t[i]) = v[i] /\ v[i] \in -bound .. bound
    PROVE  \E pos \in 0 .. 127 :
               /\ \A q \in 0 .. 127 : Magnitude(v[q + 1]) <= Magnitude(v[pos + 1])
               /\ findPeaks(t) = Bits(pos) \cup (IF v[pos + 1] < 0 THEN {} ELSE {7})
<1> DEFINE next == [at \in Peaks \X (0 .. 127) |-> peakWith(at[1], at[2], t[at[2] + 1])]
           body(f) == [k \in 0 .. 128 |->
                          IF k = 0 THEN [abs |-> 0, peak |-> 0, pos |-> 0] ELSE next[<<f[k - 1], k - 1>>]]
           best == CHOOSE f : f = body(f)
<1>1. findPeaks(t) = Bits(best[128].pos) \cup (IF TopBit(best[128].peak) THEN {} ELSE {7})
  BY DEF findPeaks, Peaks
<1>2. PICK f \in [0 .. 128 -> Peaks] : \A k \in 0 .. 128 : f[k] = peakStep(f, t, k)
  BY PeakTableExists
<1>3. ASSUME NEW h, NEW k \in 1 .. 128, h[k - 1] \in Peaks
      PROVE  next[<<h[k - 1], k - 1>>] = peakStep(h, t, k)
  <2>1. k - 1 \in 0 .. 127 /\ (k - 1) + 1 = k /\ k # 0
    OBVIOUS
  <2>2. next[<<h[k - 1], k - 1>>] = peakWith(h[k - 1], k - 1, t[(k - 1) + 1])
    BY <1>3, <2>1
  <2> QED
    BY <2>1, <2>2 DEF peakStep
<1> HIDE DEF next
<1>4. f = body(f)
  <2>1. \A k \in 0 .. 128 : f[k] = body(f)[k]
    <3> SUFFICES ASSUME NEW k \in 0 .. 128 PROVE f[k] = body(f)[k]
      OBVIOUS
    <3>1. CASE k = 0
      BY <1>2, <3>1 DEF peakStep
    <3>2. CASE k # 0
      <4>1. k \in 1 .. 128 /\ f[k - 1] \in Peaks
        BY <3>2
      <4> QED
        BY <1>2, <1>3, <3>2, <4>1
    <3> QED
      BY <3>1, <3>2
  <2> QED
    BY <2>1
<1>5. best = body(best)
  BY <1>4
<1> HIDE DEF best
<1>5a. \A h : /\ body(h)[0] = [abs |-> 0, peak |-> 0, pos |-> 0]
              /\ \A k \in 1 .. 128 : body(h)[k] = next[<<h[k - 1], k - 1>>]
  OBVIOUS
<1> HIDE DEF body
<1>6. ASSUME NEW k \in 1 .. 128, best[k - 1] \in Peaks
      PROVE  best[k] = peakStep(best, t, k)
  <2>1. best[k] = next[<<best[k - 1], k - 1>>]
    BY <1>5, <1>5a
  <2> QED
    BY <1>3, <1>6, <2>1
<1>7. best[0] = [abs |-> 0, peak |-> 0, pos |-> 0]
  BY <1>5, <1>5a
<1> DEFINE S == {k \in Nat : k <= 128 => Largest(best[k], v, k) /\ best[k].abs \in 0 .. bound}
<1>8. 0 \in S
  <2>1. Largest([abs |-> 0, peak |-> 0, pos |-> 0], v, 0)
    <3>1. 0 \in Word /\ 0 \in 0 .. 127
      BY ModulusAssumption DEF Word
    <3>2. [abs |-> 0, peak |-> 0, pos |-> 0] \in Peaks
      BY <3>1 DEF Peaks
    <3>3. 0 .. 0 - 1 = {}
      OBVIOUS
    <3> QED
      BY <3>2, <3>3 DEF Largest
  <2> QED
    BY <1>7, <2>1
<1>9. ASSUME NEW k \in Nat, k \in S PROVE k + 1 \in S
  <2> SUFFICES ASSUME k + 1 <= 128
               PROVE  Largest(best[k + 1], v, k + 1) /\ best[k + 1].abs \in 0 .. bound
    OBVIOUS
  <2>1. k + 1 \in 1 .. 128 /\ (k + 1) - 1 = k
    OBVIOUS
  <2>2. Largest(best[k], v, k) /\ best[k].abs \in 0 .. bound
    BY <1>9
  <2>3. best[k] \in Peaks
    BY <2>2 DEF Largest
  <2>4. best[k + 1] = peakStep(best, t, k + 1)
    BY <1>6, <2>1, <2>3
  <2>5. Largest(best[(k + 1) - 1], v, (k + 1) - 1) /\ best[(k + 1) - 1].abs \in 0 .. bound
    BY <2>1, <2>2
  <2>6. Largest(peakStep(best, t, k + 1), v, k + 1) /\ peakStep(best, t, k + 1).abs \in 0 .. bound
    BY <2>1, <2>5, PeakStepKeeps
  <2> QED
    BY <2>4, <2>6
<1> HIDE DEF S
<1>10. 128 \in S
  BY <1>8, <1>9, EveryNatural
<1> DEFINE s == best[128]
<1>11. Largest(s, v, 128) /\ s.abs \in 0 .. bound
  BY <1>10 DEF S
<1> HIDE DEF s
<1>12. \A q \in 0 .. 127 : v[q + 1] \in Int /\ Magnitude(v[q + 1]) <= s.abs
  <2>1. \A q \in 0 .. 127 : q + 1 \in Position /\ q \in 0 .. 128 - 1
    BY DEF Position
  <2> QED
    BY <1>11, <2>1 DEF Largest
<1>13. s.pos \in 0 .. 127
  BY <1>11 DEF Largest, Peaks
<1>14. Magnitude(v[s.pos + 1]) = s.abs /\ (TopBit(s.peak) <=> v[s.pos + 1] < 0)
  <2>1. CASE s.abs = 0 /\ s.peak = 0 /\ s.pos = 0
    <3>1. v[s.pos + 1] \in Int /\ Magnitude(v[s.pos + 1]) <= 0
      BY <1>12, <1>13, <2>1
    <3>2. v[s.pos + 1] = 0
      BY <3>1 DEF Magnitude
    <3> QED
      BY <2>1, <3>2, ModulusAssumption DEF Magnitude, TopBit
  <2> QED
    BY <1>11, <2>1 DEF Largest
<1>15. findPeaks(t) = Bits(s.pos) \cup (IF v[s.pos + 1] < 0 THEN {} ELSE {7})
  BY <1>1, <1>14 DEF s
<1> QED
  BY <1>12, <1>13, <1>14, <1>15

LEMMA ProductOfNaturals ==
    ASSUME NEW a \in Nat, NEW b \in Nat
    PROVE  a * b \in Nat
OBVIOUS

LEMMA CodewordOf ==
    ASSUME NEW n \in 1 .. 256
    PROVE  codewords[n] = rmEncodeWord(Bits(n - 1))
<1> DEFINE f == [k \in 1 .. 256 |-> rmEncodeWord(Bits(k - 1))]
           S == {rmEncodeWord(Bits(k - 1)) : k \in 1 .. 256}
<1>1. f \in Seq(S)
  <2>1. \A k \in 1 .. 256 : rmEncodeWord(Bits(k - 1)) \in S
    OBVIOUS
  <2> HIDE DEF S
  <2>2. f \in [1 .. 256 -> S]
    BY <2>1
  <2>3. 256 \in Nat
    OBVIOUS
  <2> HIDE DEF f
  <2> QED
    BY <2>2, <2>3, FunctionIsSequence
<1>2. f \o << >> = f
  <2> HIDE DEF f, S
  <2> QED
    BY <1>1, ConcatEmptySeq
<1>3. codewords = f
  BY <1>2 DEF codewords
<1>4. f[n] = rmEncodeWord(Bits(n - 1))
  OBVIOUS
<1> HIDE DEF f
<1> QED
  BY <1>3, <1>4

\* The words of a symbol are words of the codeword received.
LEMMA SymbolWordsInside ==
    ASSUME NEW q, q.n1 \in Nat, q.multiplicity \in Nat,
           NEW word \in [0 .. 2 * q.n1 * q.multiplicity - 1 -> SUBSET (0 .. 63)],
           NEW i \in 0 .. q.n1 - 1
    PROVE  Copies(symbolWords(q, word, i), q.multiplicity)
<1> DEFINE n == q.n1
           k == q.multiplicity
<1> SUFFICES ASSUME NEW w \in 0 .. 2 * k - 1 PROVE symbolWords(q, word, i)[w] \subseteq 0 .. 63
  BY DEF Copies
<1>1. symbolWords(q, word, i)[w] = word[2 * i * k + w]
  BY DEF symbolWords
<1>2. 2 * i * k + w \in 0 .. 2 * n * k - 1
  <2>1. n \in Nat /\ k \in Nat /\ i \in 0 .. n - 1
    OBVIOUS
  <2> HIDE DEF n, k
  <2>2. i \in Nat /\ n - (i + 1) \in Nat
    BY <2>1
  <2>3. (n - (i + 1)) * k \in Nat /\ i * k \in Nat /\ n * k \in Nat
    BY <2>1, <2>2, ProductOfNaturals
  <2>4. (n - (i + 1)) * k = n * k - (i * k + k)
    BY <2>1, <2>2
  <2>5. 2 * i * k = 2 * (i * k) /\ 2 * n * k = 2 * (n * k)
    BY <2>1, <2>2
  <2>6. w \in Nat /\ w <= 2 * k - 1
    BY <2>1
  <2> HIDE DEF n, k
  <2> QED
    BY <2>1, <2>3, <2>4, <2>5, <2>6
<1>3. \A c \in 0 .. 2 * n * k - 1 : word[c] \subseteq 0 .. 63
  OBVIOUS
<1> HIDE DEF n, k
<1> QED
  BY <1>1, <1>2, <1>3

\* No codeword is nearer to a symbol's copies than the one findPeaks chooses.
LEMMA NoCodewordNearer ==
    ASSUME NEW multiplicity \in Nat, 384 * multiplicity < Modulus, NEW src,
           Copies(src, multiplicity), NEW n \in 1 .. 256
    PROVE  Distance(src, rmEncodeWord(findPeaks(peaksOf(src, multiplicity))), multiplicity)
               <= Distance(src, codewords[n], multiplicity)
<1> DEFINE t == peaksOf(src, multiplicity)
           v == intPeaks(src, multiplicity)
           b == findPeaks(t)
           distance(c) == Distance(src, c, multiplicity)
<1>1. \A k \in Position : /\ t[k] \in Word /\ Signed(t[k]) = v[k]
                           /\ v[k] \in -(192 * multiplicity) .. 192 * multiplicity
  BY PeaksAreExact
<1>2. ASSUME NEW j \in 0 .. 127, NEW c, Names(c, j)
      PROVE  /\ v[j + 1] \in Int
             /\ distance(rmEncodeWord(c)) = IF 7 \in c THEN 64 * multiplicity - v[j + 1]
                                                ELSE 64 * multiplicity + v[j + 1]
  <2>1. DistanceIs(src, multiplicity, c, j)
    BY <1>2, DistanceIsValue
  <2> QED
    BY <2>1 DEF DistanceIs
<1> HIDE DEF t, v, b, distance
<1>3. PICK pos \in 0 .. 127 :
          /\ \A j \in 0 .. 127 : Magnitude(v[j + 1]) <= Magnitude(v[pos + 1])
          /\ b = Bits(pos) \cup (IF v[pos + 1] < 0 THEN {} ELSE {7})
  <2>1. 192 * multiplicity \in Nat /\ 2 * (192 * multiplicity) < Modulus
    OBVIOUS
  <2>2. \E pos \in 0 .. 127 :
            /\ \A j \in 0 .. 127 : Magnitude(v[j + 1]) <= Magnitude(v[pos + 1])
            /\ findPeaks(t) = Bits(pos) \cup (IF v[pos + 1] < 0 THEN {} ELSE {7})
    BY <1>1, <2>1, FindPeaksFinds
  <2> QED
    BY <2>2 DEF b
<1>4. /\ Names(b, pos)
      /\ 7 \in b <=> ~(v[pos + 1] < 0)
  <2>1. \A l \in 0 .. 6 : l # 7
    OBVIOUS
  <2>2. /\ \A l \in 0 .. 6 : l \in Bits(pos) <=> bit(l, pos)
        /\ 7 \notin Bits(pos)
    BY BitsOfPosition
  <2> QED
    BY <1>3, <2>1, <2>2 DEF Names
<1>5. v[pos + 1] \in Int /\ distance(rmEncodeWord(b)) = 64 * multiplicity - Magnitude(v[pos + 1])
  <2>1. /\ v[pos + 1] \in Int
        /\ distance(rmEncodeWord(b)) = IF 7 \in b THEN 64 * multiplicity - v[pos + 1]
                                            ELSE 64 * multiplicity + v[pos + 1]
    BY <1>2, <1>4
  <2> QED
    BY <1>4, <2>1 DEF Magnitude
<1>6. PICK j \in 0 .. 127 : n - 1 = j \/ n - 1 = j + 128
  <2>1. CASE n - 1 < 128
    BY <2>1
  <2>2. CASE ~(n - 1 < 128)
    <3>1. n - 129 \in 0 .. 127 /\ n - 1 = (n - 129) + 128
      BY <2>2
    <3> QED
      BY <3>1
  <2> QED
    BY <2>1, <2>2
<1>7. Names(Bits(n - 1), j)
  BY <1>6, BitsOfPosition DEF Names
<1>8. /\ v[j + 1] \in Int
      /\ distance(codewords[n]) = 64 * multiplicity - v[j + 1] \/ distance(codewords[n]) = 64 * multiplicity + v[j + 1]
  <2>1. codewords[n] = rmEncodeWord(Bits(n - 1))
    BY CodewordOf
  <2> QED
    BY <1>2, <1>7, <2>1
<1>9. Magnitude(v[j + 1]) <= Magnitude(v[pos + 1])
  BY <1>3
<1>10. distance(rmEncodeWord(b)) <= distance(codewords[n])
  BY <1>5, <1>8, <1>9 DEF Magnitude
<1> QED
  BY <1>10 DEF distance, b, t

\* What rmDecode leaves in tmp.
DecodedSymbols ==
    /\ p \in ParamSets
    /\ em \in [0 .. 2 * p.n1 * p.multiplicity - 1 -> SUBSET (0 .. 63)]
    /\ stage = "computeSyndromes" => tmp = rmDecode(p, em)

\* rmDecode in reed_muller.go decodes each symbol to the nearest codeword: whatever bits
\* of however many copies are inverted, for every number of copies the words of 16 bits
\* can count, no other of the 256 codewords differs in fewer bits from what was received.
THEOREM SymbolSpecNearest == SymbolSpec => []NearestSymbol
<1> USE DEF DecodedSymbols
<1>1. SymbolInit => DecodedSymbols
  BY DEF SymbolInit
<1>2. DecodedSymbols /\ [DecodeSymbols]_<<p, stage, em, tmp>> => DecodedSymbols'
  BY DEF DecodeSymbols, Then
<1>3. DecodedSymbols => NearestSymbol
  <2> SUFFICES ASSUME DecodedSymbols, stage = "computeSyndromes", NEW i \in 0 .. p.n1 - 1,
                      NEW n \in 1 .. 256
               PROVE  LET src == symbolWords(p, em, i)
                      IN  Distance(src, rmEncodeWord(tmp[i]), p.multiplicity)
                              <= Distance(src, codewords[n], p.multiplicity)
    BY DEF NearestSymbol
  <2> DEFINE src == symbolWords(p, em, i)
  <2>1. p.n1 \in Nat /\ p.multiplicity \in Nat /\ 384 * p.multiplicity < Modulus
    BY SymbolsAssumption
  <2>2. tmp[i] = findPeaks(peaksOf(src, p.multiplicity))
    BY DEF rmDecode
  <2>3. Copies(src, p.multiplicity)
    BY <2>1, SymbolWordsInside
  <2> HIDE DEF src
  <2>4. Distance(src, rmEncodeWord(tmp[i]), p.multiplicity)
            <= Distance(src, codewords[n], p.multiplicity)
    BY <2>1, <2>2, <2>3, NoCodewordNearer
  <2> QED
    BY <2>4 DEF src
<1> QED
  BY <1>1, <1>2, <1>3, PTL DEF SymbolSpec

=============================================================================
