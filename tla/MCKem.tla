------------------------------- MODULE MCKem --------------------------------
(***************************************************************************)
(* Kem over the ring of dimension 11, with three symbols of three bits:    *)
(* both the inner and the outer code repeat one bit three times, so that   *)
(* one wrong bit in each symbol and one wrong symbol can be corrected.     *)
(* The noise of the streams overwhelms no symbol, one, or more.            *)
(***************************************************************************)
EXTENDS Kem, TLC

CONSTANTS k1, k2, salt1, salt2

ThreeBits == [x \in {0, 1} |-> IF x = 0 THEN {} ELSE {0, 1, 2}]
Repeat    == [m \in {0, 1} |-> [i \in 0 .. 2 |-> m]]
Majority  == [cdw \in [0 .. 2 -> {0, 1}] |->
                 IF Cardinality({i \in 0 .. 2 : cdw[i] = 1}) > 1 THEN 1 ELSE 0]

TwoKeyStreams == {<<{0}, {3}>>, <<{1}, {0}>>}
TwoVectors    == {{0, 1, 3}, {2}}
FewStreams    == {<<{0, 3}, {1, 9}, {0, 1}>>, <<{0, 4}, {1, 7}, {2}>>, <<{0}, {1, 2}, {6}>>}

Symmetric == Permutations(Seed) \cup Permutations(Salt)

=============================================================================
