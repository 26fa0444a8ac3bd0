---------------------------- MODULE SymbolDecoder ---------------------------
(***************************************************************************)
(* The first stage of codeDecode in code.go: the symbols of the word that  *)
(* was received, each of them decoded by itself.                           *)
(***************************************************************************)
EXTENDS ErrorLocator, ReedMuller

ASSUME SymbolsAssumption ==
    \A q \in ParamSets :
        q.n1 \in Nat /\ q.multiplicity \in Nat /\ 384 * q.multiplicity < Modulus

VARIABLES stage,        \* what codeDecode does next
          em,           \* the word received, in words of 64 bits
          tmp           \* the symbols

Then(next) == stage' = next

DecodeSymbols ==
    /\ stage = "rmDecode"
    /\ tmp' = rmDecode(p, em)
    /\ Then("computeSyndromes")
    /\ UNCHANGED <<p, em>>

\* Any word may be received.
SymbolInit ==
    /\ p \in ParamSets
    /\ stage = "rmDecode"
    /\ em \in [0 .. 2 * p.n1 * p.multiplicity - 1 -> SUBSET (0 .. 63)]
    /\ tmp = << >>

SymbolSpec == SymbolInit /\ [][DecodeSymbols]_<<p, stage, em, tmp>>

-----------------------------------------------------------------------------
\* The codewords of all bytes; TLC keeps what \o returns as a table.
codewords == [n \in 1 .. 256 |-> rmEncodeWord(Bits(n - 1))] \o << >>

\* In how many bits the copies of a symbol differ from a codeword.
Distance(src, codeword, copies) ==
    Cardinality(UNION {{w} \X (src[w] \oplus codeword[(w % 2) + 1]) : w \in 0 .. 2 * copies - 1})

\* Whatever bits are inverted, and in however many copies, no codeword of the
\* Reed-Muller code is nearer to what was received than the one rmDecode chooses.
NearestSymbol ==
    (stage = "computeSyndromes" /\ em # << >>) =>
        \A i \in 0 .. p.n1 - 1 :
            LET src  == symbolWords(p, em, i)
                here == Distance(src, rmEncodeWord(tmp[i]), p.multiplicity)
            IN  \A n \in 1 .. 256 : here <= Distance(src, codewords[n], p.multiplicity)

=============================================================================
