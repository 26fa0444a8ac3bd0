------------------------------- MODULE Bytes --------------------------------
(***************************************************************************)
(* Machine words as sets: a word is the set of its one bits, so XOR and    *)
(* AND are symmetric difference and intersection, and an element of        *)
(* GF(2^8) is the set of the exponents of its polynomial.                  *)
(***************************************************************************)
EXTENDS Integers, FiniteSetsExt, TLC

paramM        == 8
paramGFMulOrd == 255

Element == SUBSET (0 .. paramM - 1)
Zero    == {}
One     == {0}

Odd(k) == (k % 2) = 1

\* The word, of 16 bits, with the value of a number, and back.
Bits(k)  == {i \in 0 .. 15 : Odd(k \div 2^i)}
Value(x) == SumSet({2^i : i \in x})

a \oplus b == SymDiff(a, b)

\* The exclusive or of term(i) for all i of a set.
XorOver(S, term(_)) ==
    LET t == [i \in S |-> term(i)]
    IN  {b \in UNION {t[i] : i \in S} : Odd(Cardinality({i \in S : b \in t[i]}))}

\* The function f itself.  TLC computes the values of a function again at every
\* application, but keeps what @@ returns as a table.
Table(f) == f @@ << >>

\* The array with the elements of lo in 0 .. n - 1 and those of hi after them.
Joined(lo, hi, n) == [i \in 0 .. n - 1 |-> lo[i]] @@ [i \in n .. 2 * n - 1 |-> hi[i - n]]

=============================================================================
