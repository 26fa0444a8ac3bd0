-------------------------------- MODULE Pke ---------------------------------
(***************************************************************************)
(* HQC-PKE, hqc_pke.go: encryption and decryption of one message over the  *)
(* ring of binary polynomials modulo X^n - 1.  A polynomial is the set of  *)
(* its exponents.  The code of code.go is a concatenated one: a word has   *)
(* n1 blocks of n2 bits, each of which decodes to a symbol by itself, and  *)
(* an outer code then corrects up to delta wrong symbols.  The inner code  *)
(* is any set of words with a decoder that finds a nearest one, the outer  *)
(* code any with a decoder that corrects delta symbols; what either makes  *)
(* of what it cannot correct is fixed but arbitrary.                       *)
(***************************************************************************)
EXTENDS Integers, FiniteSetsExt

CONSTANTS n,            \* ring dimension
          n1, n2,       \* symbols of a codeword, bits of a symbol
          delta,        \* symbols the outer code corrects
          Pad,          \* unused bits of the last byte of an n-bit field
          Message, Symbol,
          SymbolWord,   \* the inner code: the bits of each symbol
          rsEncode, rsDecode    \* the outer code, as functions

n1n2 == n1 * n2

Symbols == [0 .. n1 - 1 -> Symbol]

\* The symbols in which two words of the outer code differ.
Wrong(a, b) == {i \in 0 .. n1 - 1 : a[i] # b[i]}

\* Any outer code whose decoder returns the message when at most delta symbols are wrong.
ASSUME PkeAssumption ==
    /\ n \in Nat \ {0} /\ n1 \in Nat \ {0} /\ n2 \in Nat \ {0}
    /\ n1n2 \in 1 .. n - 1
    /\ delta \in Nat
    /\ Pad \in Nat
    /\ SymbolWord \in [Symbol -> SUBSET (0 .. n2 - 1)]
    /\ rsEncode \in [Message -> Symbols]
    /\ rsDecode \in [Symbols -> Message]
    /\ \A m \in Message, cdw \in Symbols :
           Cardinality(Wrong(cdw, rsEncode[m])) <= delta => rsDecode[cdw] = m

Poly   == SUBSET (0 .. n - 1)
Loaded == SUBSET (0 .. n + Pad - 1)     \* what load8Arr can read from a field

Odd(k) == k % 2 = 1

\* The carryless product, then one fold at n: bit k collects the coefficients of
\* X^k and X^(k+n); anything above is masked off.
polyMul(a, b) ==
    {k \in 0 .. n - 1 :
        Odd(Cardinality({i \in a : k - i \in b}) + Cardinality({i \in a : k + n - i \in b}))}

polyAdd(a, b) == SymDiff(a, b)

\* Mutant of truncate: nothing is cut.
untruncated(a) == a

truncate(a) == a \cap (0 .. n1n2 - 1)

Distance(a, b) == Cardinality(SymDiff(a, b))

\* The bits of block i of a word.
Block(word, i) == {j \in 0 .. n2 - 1 : i * n2 + j \in word}

rmEncode(cdw) == UNION {{i * n2 + j : j \in SymbolWord[cdw[i]]} : i \in 0 .. n1 - 1}

\* Each block becomes a symbol whose word is nearest to it.
rmDecode(word) ==
    [i \in 0 .. n1 - 1 |->
        CHOOSE x \in Symbol :
            \A other \in Symbol :
                Distance(Block(word, i), SymbolWord[x]) <= Distance(Block(word, i), SymbolWord[other])]

codeEncode(m) == rmEncode(rsEncode[m])

codeDecode(word) == rsDecode[rmDecode(word)]

\* The vectors come from the seed expander in the order y, x.
hqcPKEKeygen(stream, h) ==
    LET y == stream[1]
        x == stream[2]
    IN  polyAdd(x, polyMul(y, h))

\* Mutant of hqcPKEEncrypt: s*r2 + e is not cut to the length of the code word
\* before it is added, and the sum is cut one bit short.
encryptsShort(h, s, m, stream) ==
    LET r2 == stream[1]
        e  == stream[2]
        r1 == stream[3]
    IN  [u |-> polyAdd(r1, polyMul(r2, h)),
         v |-> SymDiff(polyAdd(e, polyMul(r2, s)), codeEncode(m)) \cap (0 .. n1n2 - 2)]

\* The seed expander on theta yields r2, then e, then r1.
hqcPKEEncrypt(h, s, m, stream) ==
    LET r2 == stream[1]
        e  == stream[2]
        r1 == stream[3]
    IN  [u |-> polyAdd(r1, polyMul(r2, h)),
         v |-> truncate(polyAdd(polyAdd(e, polyMul(r2, s)), codeEncode(m)))]

hqcPKEDecrypt(y, u, v) == codeDecode(polyAdd(v, truncate(polyMul(y, u))))

=============================================================================
