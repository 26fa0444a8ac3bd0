-------------------------------- MODULE Gf2x --------------------------------
(***************************************************************************)
(* Words of polynomials over GF(2), gf2x.go: the product of two words and  *)
(* the reduction modulo X^n - 1.  A word is the set of its bits, an array  *)
(* of words is indexed from 0.                                             *)
(***************************************************************************)
EXTENDS Integers, FiniteSets

CONSTANTS Width,    \* bits of a word: 64
          Chunk,    \* bits of a chunk of baseMul: 4
          n         \* the ring dimension

ASSUME Gf2xAssumption ==
    /\ Chunk \in Nat \ {0}
    /\ Width \in Nat
    /\ Chunk <= Width
    /\ (Width % Chunk) = 0
    /\ n \in Nat \ {0}
    /\ (n % Width) # 0          \* validateParams

Bit   == 0 .. Width - 1
vecN  == (n + Width - 1) \div Width

Xor(a, b) == (a \ b) \cup (b \ a)
ShiftLeft(w, k)  == {i + k : i \in w} \cap Bit
ShiftRight(w, k) == {i - k : i \in w} \cap Bit

Odd(k) == (k % 2) = 1

\* The exclusive or of word(i) for all i of a set.
XorOver(S, word(_)) == {b \in Bit : Odd(Cardinality({i \in S : b \in word(i)}))}

-----------------------------------------------------------------------------
(* baseMul.                                                                *)

\* The table u: b without its top bits, times every polynomial of Chunk bits.
multiples(b) ==
    LET u[c \in SUBSET (0 .. Chunk - 1)] ==
            IF c = {} THEN {}
            ELSE IF 0 \in c THEN Xor(u[c \ {0}], b \cap (0 .. Width - Chunk - 1))
            ELSE ShiftLeft(u[ShiftRight(c, 1)], 1)
    IN  u

\* (a >> i) & 0x0f
chunkAt(a, i) == ShiftRight(a, i) \cap (0 .. Chunk - 1)

\* c[0] is the low word of the product, c[1] the high one.
baseMul(a, b) ==
    LET u      == multiples(b)
        starts == {i \in Bit : (i % Chunk) = 0}
        top    == b \cap (Width - Chunk .. Width - 1)
    IN  [c \in {0, 1} |->
           IF c = 0
           THEN Xor(XorOver(starts, LAMBDA i : ShiftLeft(u[chunkAt(a, i)], i)),
                    XorOver(top, LAMBDA t : ShiftLeft(a, t)))
           ELSE Xor(XorOver(starts, LAMBDA i : ShiftRight(u[chunkAt(a, i)], Width - i)),
                    XorOver(top, LAMBDA t : ShiftRight(a, Width - t)))]

-----------------------------------------------------------------------------
(* polyReduce.                                                             *)

redMask == 0 .. (n % Width) - 1

\* Mutant of polyReduce: bits at and above n stay in the last word.
withoutMask(a) ==
    LET shift == n % Width
    IN  [i \in 0 .. vecN - 1 |->
            Xor(a[i], Xor(ShiftRight(a[i + vecN - 1], shift),
                          ShiftLeft(a[i + vecN], Width - shift)))]

\* o(x) = a(x) mod X^n - 1, for an array a of 2 * vecN words.
polyReduce(a) ==
    LET shift == n % Width
        o == [i \in 0 .. vecN - 1 |->
                 Xor(a[i], Xor(ShiftRight(a[i + vecN - 1], shift),
                               ShiftLeft(a[i + vecN], Width - shift)))]
    IN  [o EXCEPT ![vecN - 1] = @ \cap redMask]

=============================================================================
