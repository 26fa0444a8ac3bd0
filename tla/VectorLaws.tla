----------------------------- MODULE VectorLaws -----------------------------
(***************************************************************************)
(* Two vectors and a length put to the operations of Vectors, which are    *)
(* compared with what they mean for the sets of positions that the arrays  *)
(* stand for.  Every choice of the three is an initial state.              *)
(***************************************************************************)
EXTENDS Vectors

CONSTANTS vecSize,      \* length of the vectors, in words
          SecondWeight  \* bound on the ones of the second vector

ASSUME LengthAssumption == vecSize \in Nat

VARIABLES under,        \* what is examined: here "vectors"
          first, second,
          length        \* in bits

operands == <<under, first, second, length>>

InitVectors ==
    /\ under = "vectors"
    /\ first \in WordArrays(vecSize)
    /\ second \in {v \in WordArrays(vecSize) : Cardinality(Positions(v)) <= SecondWeight}
    /\ length \in 0 .. vecSize * Bits

VectorSpec == InitVectors /\ [][UNCHANGED operands]_operands

Blank(len) == [i \in 0 .. len - 1 |-> {}]
Bytes(len) == ceilDiv(len, ByteBits)

-----------------------------------------------------------------------------
\* The subtractions by which constantTimeEqualUint64 and vectCompare turn what they
\* accumulate into a single bit return 1 and 0, exactly when two vectors agree in
\* every bit, the first and the last included: no borrow is lost and none runs into
\* the bit that is returned.
ComparisonsAreExact ==
    under = "vectors" =>
        LET bytes(v) == store8Arr(Blank(vecSize * WordBytes), v)
            zero == {}
            one  == {0}
        IN  /\ constantTimeEqualUint64(first, second, vecSize)
                   = (IF first = second THEN one ELSE zero)
            /\ vectCompare(bytes(first), bytes(second), vecSize * WordBytes)
                   = (IF first = second THEN zero ELSE one)

\* vectTruncate and vectResize to a shorter length drop the positions from there on
\* and no other, on a word boundary, inside a word and at the end; vectResize to a
\* longer length keeps all.
LengthChangesKeepPrefix ==
    under = "vectors" =>
        LET kept  == Positions(first) \cap (0 .. length - 1)
            short == vectTruncate(first, length)
        IN  /\ Positions(short) = kept
            /\ Positions(vectResize(Blank(vecSize), length, first, vecSize * Bits)) = kept
            /\ vectResize(Blank(vecSize), vecSize * Bits, short, length) = short

\* A vector of `length` bits survives store8Arr to as many bytes as it needs and load8Arr
\* back, when the last word is only partly stored included.
BytesRoundTrip ==
    under = "vectors" =>
        LET v == vectTruncate(first, length)
        IN  load8Arr(Blank(vecSize), store8Arr(Blank(Bytes(length)), v)) = v

=============================================================================
