---------------------------- MODULE MCArithmetic ----------------------------
(***************************************************************************)
(* Small operands put to the operations of Vectors and Karatsuba, each of  *)
(* them an initial state.  The operations are compared with what they mean *)
(* for the sets of positions (VectorLaws), or of exponents (ProductLaws),  *)
(* that the arrays stand for.                                              *)
(***************************************************************************)
EXTENDS ProductLaws

CONSTANT MaxSize        \* bound on the size of factors

AllSizes == 1 .. 1024

Words(k, e) == [i \in 0 .. k - 1 |-> {j \in Bit : i * Width + j \in e}]

\* One word: all values.  More: all bits set, or at most `ones` of them.
Operands(k, ones) ==
    IF k = 1 THEN SUBSET Bit
    ELSE {0 .. k * Width - 1} \cup UNION {kSubset(j, 0 .. k * Width - 1) : j \in 0 .. ones}

\* Two factors of `length` words each.
InitProduct ==
    /\ under = "product"
    /\ length \in 1 .. MaxSize
    /\ first \in {Words(length, e) : e \in Operands(length, IF length <= vecN THEN 2 ELSE 1)}
    /\ second \in {Words(length, e) : e \in Operands(length, 1)}

Next == UNCHANGED operands

Spec == (InitVectors \/ InitProduct) /\ [][Next]_operands

=============================================================================
