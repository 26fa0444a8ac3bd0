------------------------------- MODULE Words --------------------------------
(***************************************************************************)
(* The branch-free comparisons and reductions on unsigned machine words    *)
(* that the samplers of vector.go are built from.  A word of w bits is a   *)
(* number below Modulus = 2^w and every operation wraps around.            *)
(***************************************************************************)
EXTENDS Integers

CONSTANT Modulus        \* 2^32 in the code (2^64 in singleBitMask)

ASSUME ModulusAssumption == Modulus \in Nat /\ Modulus > 1

Word == 0 .. Modulus - 1

Minus(a, b) == IF a >= b THEN a - b ELSE a - b + Modulus
Plus(a, b)  == IF a + b < Modulus THEN a + b ELSE a + b - Modulus
TopBit(a)   == 2 * a >= Modulus             \* a >> (w - 1)

\* 1 ^ (((v1 - v2) | (v2 - v1)) >> 31): the top bit of an OR is the OR of the top bits.
compareU32(v1, v2) ==
    IF TopBit(Minus(v1, v2)) \/ TopBit(Minus(v2, v1)) THEN 0 ELSE 1

\* r -= n; the top bit of the difference decides whether n is added back.
condSub(r, n) ==
    LET d == Minus(r, n) IN IF TopBit(d) THEN Plus(d, n) ELSE d

\* Mutant of barrettReduceN: no correction after the approximate quotient.
uncorrected(x, nMu, n) == (x - ((x * nMu) \div Modulus) * n) % Modulus

\* The product x * nMu is 64 bits wide, q * n wraps in 32.
barrettReduceN(x, nMu, n) ==
    condSub((x - ((x * nMu) \div Modulus) * n) % Modulus, n)

=============================================================================
