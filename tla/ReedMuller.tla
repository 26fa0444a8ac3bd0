----------------------------- MODULE ReedMuller -----------------------------
(***************************************************************************)
(* reed_muller.go: each symbol is one of 256 codewords of 128 bits in two  *)
(* words, repeated.  The decoder's counts are words of 16 bits that wrap.  *)
(***************************************************************************)
EXTENDS Words, Params

\* The masks 0xaaaaaaaa, 0xcccccccc, ... of 32 bits: bit b of the position.
pattern(b)    == {i \in 0 .. 31 : Odd(i \div 2^b)}
bit0mask(bit) == IF bit THEN 0 .. 31 ELSE {}

\* Bit 5 inverts the quarters 1 and 3, bit 6 the quarters 2 and 3, bit 7 all.
rmEncodeWord(message) ==
    LET firstWord == bit0mask(7 \in message)
                     \oplus XorOver(message \cap (0 .. 4), pattern)
        flip(b, word) == word \oplus bit0mask(b \in message)
        second == flip(5, firstWord)
        third  == flip(6, second)
        fourth == flip(5, third)
    IN  <<firstWord \cup ShiftLeft(second, 32, 64), fourth \cup ShiftLeft(third, 32, 64)>>

\* Copy c of symbol i is in the words 2 * (i * multiplicity + c) and the next.
rmEncode(p, msg) ==
    LET word == Table([i \in 0 .. p.n1 - 1 |-> rmEncodeWord(msg[i])])
    IN  Table([w \in 0 .. 2 * p.n1 * p.multiplicity - 1 |->
            word[w \div (2 * p.multiplicity)][(w % 2) + 1]])

\* How many copies have a one at each of the 128 positions; src is the function from
\* the number of a word of the symbol to the word.
expandAndSum(src, multiplicity) ==
    [i \in 1 .. 128 |->
        Cardinality({c \in 0 .. multiplicity - 1 :
                        ((i - 1) % 64) \in src[2 * c + (i - 1) \div 64]})]

butterfly(p1) ==
    [i \in 1 .. 64 |-> Plus(p1[2 * i - 1], p1[2 * i])]
        \o [i \in 1 .. 64 |-> Minus(p1[2 * i - 1], p1[2 * i])]

\* The seven passes.
hadamard(src) ==
    butterfly(butterfly(butterfly(butterfly(butterfly(butterfly(butterfly(src)))))))

absolute(t) == IF TopBit(t) THEN Minus(0, t) ELSE t

exceeds(abs, peakAbs) == TopBit(Minus(peakAbs, abs))

\* Position i is the peak when its absolute value exceeds that of the peak so far.
peakWith(s, i, t) == IF exceeds(absolute(t), s.abs) THEN [abs |-> absolute(t), peak |-> t, pos |-> i] ELSE s

\* The first of the largest absolute values is the position; a positive peak sets
\* bit 7.  best[i] is the peak of the positions before i.
findPeaks(transform) ==
    LET Peak == [abs : Word, peak : Word, pos : 0 .. 127]
        next[at \in Peak \X (0 .. 127)] == peakWith(at[1], at[2], transform[at[2] + 1])
        best[i \in 0 .. 128] ==
            IF i = 0 THEN [abs |-> 0, peak |-> 0, pos |-> 0] ELSE next[<<best[i - 1], i - 1>>]
        found == best[128]
    IN  Bits(found.pos) \cup (IF TopBit(found.peak) THEN {} ELSE {7})

\* Mutant of peaksOf: the bias stays.
peaksWithBias(src, multiplicity) == hadamard(expandAndSum(src, multiplicity))

\* The transform of a symbol, without the bias of ones and zeros.
peaksOf(src, multiplicity) ==
    LET transform == hadamard(expandAndSum(src, multiplicity))
    IN  [transform EXCEPT ![1] = Minus(@, 64 * multiplicity)]

symbolWords(p, cdw, i) ==
    [w \in 0 .. 2 * p.multiplicity - 1 |-> cdw[2 * i * p.multiplicity + w]]

rmDecode(p, cdw) ==
    [i \in 0 .. p.n1 - 1 |-> findPeaks(peaksOf(symbolWords(p, cdw, i), p.multiplicity))]

=============================================================================
