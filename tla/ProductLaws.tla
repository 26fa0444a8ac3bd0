---------------------------- MODULE ProductLaws -----------------------------
(***************************************************************************)
(* Two factors put to the multiplication of gf2x.go, which is compared     *)
(* with the product of the polynomials that the arrays stand for.  Every   *)
(* choice of the factors is an initial state.                              *)
(***************************************************************************)
EXTENDS VectorLaws, Karatsuba

CONSTANT Sizes          \* sizes for which the workspace is measured

ASSUME SizesAssumption == Sizes \subseteq Nat

Exponents(v) == {x \in 0 .. Cardinality(DOMAIN v) * Width - 1 : x % Width \in v[x \div Width]}

\* The product of polynomials, by definition.
Times(e, f) ==
    {k \in {x + y : x \in e, y \in f} : Odd(Cardinality({x \in e : k - x \in f}))}

\* Two factors of `length` words each.
InitFactors ==
    /\ under = "product"
    /\ length \in Nat \ {0}
    /\ first \in [0 .. length - 1 -> SUBSET Bit]
    /\ second \in [0 .. length - 1 -> SUBSET Bit]

ProductSpec == InitFactors /\ [][UNCHANGED operands]_operands

-----------------------------------------------------------------------------
\* Whatever the overlaps of output, operands and workspace, and whether the size
\* is even or odd at each level, karatsuba computes the product.
KaratsubaIsProduct ==
    under = "product" =>
        Exponents(product(first, second, length)) = Times(Exponents(first), Exponents(second))

\* polyMul is multiplication modulo X^n - 1 on operands of vecN words; bits at or
\* above n, which a parsed key or ciphertext can have, are folded once at most.
PolyMulIsModular ==
    (under = "product" /\ length = vecN) =>
        LET whole == Times(Exponents(first), Exponents(second))
        IN  Exponents(polyMul(first, second))
                = {k \in 0 .. n - 1 : (k \in whole) # (k + n \in whole)}

\* The workspace polyMul allocates is enough for every size, those of the three
\* parameter sets included: no slice expression of karatsuba is out of range.
WorkspaceSuffices ==
    (under = "product" /\ length = 1 /\ first = second) =>
        \A k \in Sizes : used[k] <= stackWords(k)

=============================================================================
