------------------------------ MODULE Vectors -------------------------------
(***************************************************************************)
(* Binary vectors as arrays of machine words: the helpers of vector.go and *)
(* the byte conversions of parsing.go.  A word is the set of the positions *)
(* of its one bits, so OR, XOR and AND are union, symmetric difference and *)
(* intersection.                                                           *)
(***************************************************************************)
EXTENDS Words, FiniteSetsExt

CONSTANTS ByteBits,     \* 8
          WordBytes     \* 8

Bits == ByteBits * WordBytes        \* 64

ASSUME WidthAssumption ==
    /\ ByteBits \in Nat \ {0}
    /\ WordBytes \in Nat \ {0}
    /\ Bits <= Modulus

Array(len, elements) == [0 .. len - 1 -> elements]
WordArrays(len) == Array(len, SUBSET (0 .. Bits - 1))
Len64(v) == Cardinality(DOMAIN v)

\* The vector a word array stands for: the set of its one positions.
Positions(v) ==
    {p \in 0 .. Len64(v) * Bits - 1 : p % Bits \in v[p \div Bits]}

-----------------------------------------------------------------------------
(* Fixed positions.                                                        *)

isZero(t) == ~(TopBit(t) \/ TopBit(Minus(0, t)))

singleBitMask(pos) == {i \in 0 .. Bits - 1 : isZero(Minus(pos, i))}

\* Word i collects the bits of the support positions that fall into it.
writeSupport(support, vecNSize64) ==
    [i \in 0 .. vecNSize64 - 1 |->
        UNION {singleBitMask(support[j] % Bits) :
                  j \in {k \in DOMAIN support : isZero(Minus(i, support[k] \div Bits))}}]

-----------------------------------------------------------------------------
(* Comparison and change of length.                                        *)

\* a - b on words of `width` bits.  A bit of b that a has not borrows from the next
\* position, and the borrow runs on until a bit of a that b has not.
Subtract(a, b, width) ==
    LET borrows(i) == \E j \in 0 .. i - 1 :
                          j \in b \ a /\ \A l \in j + 1 .. i - 1 : l \notin a \ b
    IN  {i \in 0 .. width - 1 : ~(borrows(i) <=> i \in SymDiff(a, b))}

\* word >> count
DropLow(word, count) == {i - count : i \in {k \in word : k >= count}}

\* nonzero is the top bit of acc | (0 - acc); the result is 1 - nonzero.
constantTimeEqualUint64(a, b, nWords) ==
    LET acc     == UNION {SymDiff(a[i], b[i]) : i \in 0 .. nWords - 1}
        nonzero == DropLow(acc \cup Subtract({}, acc, Bits), Bits - 1)
    IN  Subtract({0}, nonzero, Bits)

\* Mutant of vectCompare: r starts at 0, and 0 - 1 has all its high bits set.
comparesWithoutGuard(v1, v2, size) ==
    LET r == UNION {SymDiff(v1[i], v2[i]) : i \in 0 .. size - 1}
    IN  DropLow(Subtract(r, {0}, 2 * ByteBits), ByteBits) \cap (0 .. ByteBits - 1)

\* r starts at 0x0100 and is twice as wide as a byte: r - 1 keeps that bit unless
\* nothing was ORed in below it.
vectCompare(v1, v2, size) ==
    LET r == {ByteBits} \cup UNION {SymDiff(v1[i], v2[i]) : i \in 0 .. size - 1}
    IN  DropLow(Subtract(r, {0}, 2 * ByteBits), ByteBits) \cap (0 .. ByteBits - 1)

\* The word n1n2 falls into keeps its low bits, if any; the following are cleared.
vectTruncate(v, n1n2) ==
    LET lastWord == n1n2 \div Bits
        lastBits == n1n2 % Bits
    IN  [i \in DOMAIN v |->
            CASE i < lastWord                   -> v[i]
              [] i = lastWord /\ lastBits # 0   -> v[i] \cap (0 .. lastBits - 1)
              [] OTHER                          -> {}]

ceilDiv(a, b) == (a + b - 1) \div b

\* Mutant of vectResize: the tail of a shorter result is not masked.
resizesWithoutMask(o, sizeO, v, sizeV) ==
    LET nWords == ceilDiv(IF sizeO < sizeV THEN sizeO ELSE sizeV, Bits)
    IN  [i \in DOMAIN o |-> IF i < nWords THEN v[i] ELSE o[i]]

vectResize(o, sizeO, v, sizeV) ==
    LET nWords == ceilDiv(IF sizeO < sizeV THEN sizeO ELSE sizeV, Bits)
        tail   == sizeO % Bits
    IN  [i \in DOMAIN o |->
            CASE i >= nWords                                        -> o[i]
              [] i = nWords - 1 /\ sizeO < sizeV /\ tail # 0        -> v[i] \cap (0 .. tail - 1)
              [] OTHER                                              -> v[i]]

-----------------------------------------------------------------------------
(* Bytes.  A byte array has sets of 0 .. ByteBits - 1 for elements.        *)

ByteArrays(len) == Array(len, SUBSET (0 .. ByteBits - 1))

\* The little-endian word of the bytes in[from .. to].
LittleEndian(in, from, to) ==
    UNION {{(k - from) * ByteBits + b : b \in in[k]} : k \in from .. to}

\* Byte number k of a word.
ByteOf(word, k) == {b \in 0 .. ByteBits - 1 : k * ByteBits + b \in word}

\* Mutant of load8Arr: the bytes of a partial last word are not loaded.
loadsWholeWords(out, in) ==
    [w \in DOMAIN out |->
        IF (w + 1) * WordBytes <= Len64(in)
        THEN LittleEndian(in, w * WordBytes, (w + 1) * WordBytes - 1)
        ELSE out[w]]

\* Whole words first; the remaining bytes, fewer than a word, fill one more.
load8Arr(out, in) ==
    LET len == Len64(in)
    IN  [w \in DOMAIN out |->
            CASE (w + 1) * WordBytes <= len ->
                     LittleEndian(in, w * WordBytes, (w + 1) * WordBytes - 1)
              [] w * WordBytes < len /\ len < (w + 1) * WordBytes ->
                     LittleEndian(in, w * WordBytes, len - 1)
              [] OTHER -> out[w]]

store8Arr(out, in) ==
    [k \in DOMAIN out |->
        IF k \div WordBytes < Len64(in)
        THEN ByteOf(in[k \div WordBytes], k % WordBytes) ELSE out[k]]

=============================================================================
