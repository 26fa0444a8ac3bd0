--------------------------- MODULE SamplerEncrypt ---------------------------
(***************************************************************************)
(* sampleFixedWeightEncrypt (sampler2): a vector of given weight from a    *)
(* fixed number of random words.  Word i gives a position in i .. n-1; a   *)
(* backward scan then replaces a position that a later one repeats by its  *)
(* own index.  One step of the specification is one turn of a loop.        *)
(***************************************************************************)
EXTENDS Vectors

CONSTANTS n,        \* the ring dimension
          weight    \* omegaR or omegaE

vecNSize64 == ceilDiv(n, Bits)

ASSUME SizeAssumption ==
    /\ n \in Nat
    /\ weight \in Nat \ {0}
    /\ weight <= n
    /\ vecNSize64 * Bits <= Modulus

Index == 0 .. weight - 1

VARIABLES support,  \* the positions drawn so far, then resolved
          i,        \* loop variable
          stage,    \* the loop that is running
          v         \* the output vector

vars == <<support, i, stage, v>>

TypeOK ==
    /\ support \in [Index -> 0 .. n - 1]
    /\ i \in -1 .. weight - 1
    /\ stage \in {"draw", "resolve", "done"}
    /\ v \in WordArrays(vecNSize64)

Init ==
    /\ support = [k \in Index |-> 0]
    /\ i = 0
    /\ stage = "draw"
    /\ v = [k \in 0 .. vecNSize64 - 1 |-> {}]

\* Mutant of position: the range is not narrowed as i grows.
positionInFullRange(k, buff) == k + (buff * n) \div Modulus

\* i + floor(buff * (n - i) / 2^32)
position(k, buff) == k + (buff * (n - k)) \div Modulus

Draw(buff) ==
    /\ stage = "draw"
    /\ support' = [support EXCEPT ![i] = position(i, buff)]
    /\ IF i < weight - 1
       THEN i' = i + 1 /\ UNCHANGED stage
       ELSE i' = weight - 2 /\ stage' = "resolve"
    /\ UNCHANGED v

\* Mutant of found: the scan starts one position late.
scansFromSecond(s, k) == \E j \in k + 2 .. weight - 1 : compareU32(s[j], s[k]) = 1

found(s, k) == \E j \in k + 1 .. weight - 1 : compareU32(s[j], s[k]) = 1

\* Mutant of resolved: a repeated position moves to the other end of the range.
resolvedFromTop(s, k) == [s EXCEPT ![k] = IF found(s, k) THEN n - 1 - k ELSE @]

resolved(s, k) == [s EXCEPT ![k] = IF found(s, k) THEN k ELSE @]

Resolve ==
    /\ stage = "resolve"
    /\ i >= 0
    /\ support' = resolved(support, i)
    /\ i' = i - 1
    /\ UNCHANGED <<stage, v>>

Write ==
    /\ stage = "resolve"
    /\ i = -1
    /\ v' = writeSupport(support, vecNSize64)
    /\ stage' = "done"
    /\ UNCHANGED <<support, i>>

Next == (\E buff \in Word : Draw(buff)) \/ Resolve \/ Write

Spec == Init /\ [][Next]_vars

-----------------------------------------------------------------------------
(* Properties.                                                             *)

\* The output has exactly `weight` ones, all below n, whatever the random words:
\* the backward scan never replaces a repeated position by one still in use.
WeightExact ==
    stage = "done" => /\ Cardinality(Positions(v)) = weight
                      /\ Positions(v) \subseteq 0 .. n - 1

-----------------------------------------------------------------------------
(* The distribution of the result.                                         *)

\* What the draws could be if each were uniform in its range, and the outcome of
\* the scan on them.
Draws == {d \in [Index -> 0 .. n - 1] : \A k \in Index : d[k] >= k}

outcome(d) ==
    LET after[k \in Index] == IF k = weight - 1 THEN d ELSE resolved(after[k + 1], k)
    IN  after[0]

ways(s) == Cardinality({d \in Draws : {outcome(d)[k] : k \in Index} = s})

Factorial[k \in Nat] == IF k = 0 THEN 1 ELSE k * Factorial[k - 1]

\* No support is favoured: every set of positions that the sampler reaches is the
\* outcome of exactly weight! of the equally likely draws.
NoSupportFavoured ==
    stage = "done" => ways({support[k] : k \in Index}) = Factorial[weight]

=============================================================================
