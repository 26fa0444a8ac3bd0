--------------------------- MODULE SamplerKeygen ----------------------------
(***************************************************************************)
(* sampleFixedWeightKeygen (sampler1): candidates of three bytes are drawn *)
(* until `weight` different positions below n have been accepted.  A       *)
(* candidate at or above the rejection threshold, or one that repeats an   *)
(* accepted position, is dropped.                                          *)
(***************************************************************************)
EXTENDS Vectors

CONSTANTS n,            \* the ring dimension
          weight,       \* omega
          Candidates    \* 2^24: candidates are below it

vecNSize64 == ceilDiv(n, Bits)

ASSUME SizeAssumption ==
    /\ n \in Nat
    /\ weight \in Nat \ {0}
    /\ weight <= n
    /\ 2 * n <= Modulus
    /\ Candidates \in n .. Modulus
    /\ vecNSize64 * Bits <= Modulus

Index == 0 .. weight - 1

nMu == Modulus \div n

\* Mutants of rejectionThreshold: nothing is rejected; remainder for multiple.
noThreshold        == Candidates
remainderThreshold == Candidates % n

rejectionThreshold == (Candidates \div n) * n

VARIABLES support,  \* the positions accepted so far
          i,        \* how many they are
          stage,
          v         \* the output vector

vars == <<support, i, stage, v>>

TypeOK ==
    /\ support \in [Index -> 0 .. n - 1]
    /\ i \in 0 .. weight
    /\ stage \in {"draw", "done"}
    /\ v \in WordArrays(vecNSize64)

Init ==
    /\ support = [k \in Index |-> 0]
    /\ i = 0
    /\ stage = "draw"
    /\ v = [k \in 0 .. vecNSize64 - 1 |-> {}]

\* Mutant of duplicate: the scan stops one short.
duplicateExceptLast(c) == \E j \in Index : j < i - 1 /\ support[j] = c

duplicate(c) == \E j \in Index : j < i /\ support[j] = c

Accept(c) ==
    LET reduced == barrettReduceN(c, nMu, n)
    IN  /\ stage = "draw"
        /\ i < weight
        /\ c < rejectionThreshold
        /\ ~duplicate(reduced)
        /\ support' = [support EXCEPT ![i] = reduced]
        /\ i' = i + 1
        /\ UNCHANGED <<stage, v>>

Drop(c) ==
    /\ stage = "draw"
    /\ i < weight
    /\ c >= rejectionThreshold \/ duplicate(barrettReduceN(c, nMu, n))
    /\ UNCHANGED vars

Write ==
    /\ stage = "draw"
    /\ i = weight
    /\ v' = writeSupport(support, vecNSize64)
    /\ stage' = "done"
    /\ UNCHANGED <<support, i>>

Candidate == 0 .. Candidates - 1

Next == (\E c \in Candidate : Accept(c) \/ Drop(c)) \/ Write

Spec == Init /\ [][Next]_vars

\* SHAKE256 keeps producing output: it does not repeat rejected values for ever.
FairSpec == Spec /\ WF_vars(\E c \in Candidate : Accept(c)) /\ WF_vars(Write)

-----------------------------------------------------------------------------
(* Properties.                                                             *)

\* x and y have exactly the weight the scheme prescribes, all positions below n,
\* whatever the XOF produces.
WeightExact ==
    stage = "done" => /\ Cardinality(Positions(v)) = weight
                      /\ Positions(v) \subseteq 0 .. n - 1

\* Every position not yet taken is the outcome of the same number of candidates:
\* the threshold leaves no bias towards small positions, whatever was drawn before.
outcomes(p) ==
    Cardinality({c \in Candidate : c < rejectionThreshold /\ barrettReduceN(c, nMu, n) = p})
EqualChances ==
    stage = "draw" =>
        \A p \in {q \in 0 .. n - 1 : ~duplicate(q)} : outcomes(p) = Candidates \div n

\* The loop ends: a free position can always be drawn, up to the last one.
Terminates == <>(stage = "done")

=============================================================================
