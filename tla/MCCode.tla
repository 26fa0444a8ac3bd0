------------------------------- MODULE MCCode -------------------------------
(***************************************************************************)
(* Codewords of a small code and of the three parameter sets, received     *)
(* with errors: errors in symbols, where Reed-Muller decoding is over, or  *)
(* inverted bits that push symbols towards other codewords.                *)
(***************************************************************************)
EXTENDS Code

\* Two errors can be corrected in six symbols; the coefficients are those of
\* (X - alpha) (X - alpha^2) (X - alpha^3) (X - alpha^4).
Small(copies) ==
    [n1 |-> 6, k |-> 2, g |-> 5, delta |-> 2, fft |-> 2, multiplicity |-> copies,
     rsPolyCoefs |-> <<116, 231, 216, 30, 1>>]

RealSets == {params128, params192, params256}
Sets     == {Small(1), Small(3), Small(5)} \cup RealSets

VARIABLES sent,     \* the symbols of the codeword that was sent
          received  \* history: the symbols after Reed-Muller decoding

Message(q) == [i \in 0 .. q.k - 1 |-> Bits((37 * i + 201) % 256)]

Start(q, word, first) ==
    /\ p = q
    /\ sent = word
    /\ stage = first
    /\ errorPoly = {} /\ zPoly = << >> /\ errorValues = << >> /\ m = << >>
    /\ ElpIdle

-----------------------------------------------------------------------------
\* Errors of these values at these positions; the code is linear, so the first value
\* stands for its multiples.
Values == {One, {1, 5}, {7}}
SymbolErrors ==
    {<< >>}
    \cup {i :> v : i \in 0 .. 5, v \in Element \ {Zero}}
    \cup {q[1] :> One @@ q[2] :> v :
             q \in {r \in (0 .. 5) \X (0 .. 5) : r[1] < r[2]}, v \in Element \ {Zero}}
    \cup {q[1] :> One @@ q[2] :> v @@ q[3] :> u :
             q \in {<<0, 1, 2>>, <<0, 2, 5>>, <<1, 3, 4>>}, v \in Element \ {Zero}, u \in Values}

InitSymbols ==
    \E errors \in SymbolErrors :
        LET word == rsEncode(Small(1), Message(Small(1)))
        IN  /\ Start(Small(1), word, "computeSyndromes")
            /\ em = << >>
            /\ tmp = [i \in 0 .. 5 |-> IF i \in DOMAIN errors THEN word[i] \oplus errors[i] ELSE word[i]]
            /\ received = tmp

\* The bits of a symbol's copies in which it differs from the symbol that differs by
\* `by`, and of these the first `count`.
TowardsBits(copies, by, count) ==
    LET word == rmEncodeWord(by) \* linear, as bit 7 is
        one  == word[1] \cup {64 + i : i \in word[2]}
        weight == Cardinality(one)
    IN  {128 * c + i : c \in 0 .. (count \div weight) - 1, i \in one}
        \cup {128 * (count \div weight) + i :
                 i \in {j \in one : Cardinality({l \in one : l < j}) < count % weight}}

\* Each symbol i is pushed towards by(i), by half the distance and `extra(i)` bits.
NoisyWord(q, word, by(_), extra(_)) ==
    LET em0 == rmEncode(q, word)
        noise == Table([i \in 0 .. q.n1 - 1 |->
                    LET half == q.multiplicity * (IF by(i) = {7} THEN 64 ELSE 32)
                    IN  IF by(i) = Zero THEN {} ELSE TowardsBits(q.multiplicity, by(i), half + extra(i))])
    IN  Table([w \in DOMAIN em0 |->
            em0[w] \oplus {b - 64 * (w % (2 * q.multiplicity)) :
                b \in {x \in noise[w \div (2 * q.multiplicity)] :
                          x \div 64 = w % (2 * q.multiplicity)}}])

InitBits ==
    \E q \in {Small(3), Small(5)}, round \in 0 .. 42, extra \in {-1, 0, 1} :
        LET word == rsEncode(q, Message(q))
        IN  /\ Start(q, word, "rmDecode")
            /\ tmp = << >> /\ received = << >>
            /\ em = NoisyWord(q, word, LAMBDA i : Bits((6 * round + i) % 256), LAMBDA i : extra)

\* As many wrong symbols as can be corrected, or one more, at the beginning or the
\* end; the others are one bit short of being wrong.
InitReal ==
    \E q \in RealSets, more \in {0, 1}, last \in BOOLEAN :
        LET word == rsEncode(q, Message(q))
            wrong == IF last THEN q.n1 - q.delta - more .. q.n1 - 1 ELSE 0 .. q.delta + more - 1
        IN  /\ Start(q, word, "rmDecode")
            /\ tmp = << >> /\ received = << >>
            /\ em = NoisyWord(q, word, LAMBDA i : Bits(1 + ((91 * i) % 255)),
                              LAMBDA i : IF i \in wrong THEN 1 ELSE -1)

MCInit == InitSymbols \/ InitBits \/ InitReal

MCNext ==
    /\ Next
    /\ received' = IF stage = "rmDecode" THEN tmp' ELSE received
    /\ UNCHANGED sent

MCSpec == MCInit /\ [][MCNext]_<<p, syndromes, elpVars, codeVars, sent, received>>

-----------------------------------------------------------------------------
\* rsDecode returns the message when at most delta symbols are wrong, wherever they
\* are, and never changes more than delta symbols, however many roots it finds.
BoundedDistance ==
    stage = "done" =>
        /\ Cardinality({i \in DOMAIN tmp : tmp[i] # received[i]}) <= p.delta
        /\ Cardinality({i \in DOMAIN tmp : sent[i] # received[i]}) <= p.delta =>
               tmp = sent /\ m = Message(p)

=============================================================================
