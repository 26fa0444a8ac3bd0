----------------------------- MODULE ReedSolomon ----------------------------
(***************************************************************************)
(* The rest of reed_solomon.go: systematic encoding, syndromes, and, from  *)
(* the locator and its roots, the error values and the correction.  Arrays *)
(* are functions from 0; errorPoly is the set of its entries that are 1.   *)
(***************************************************************************)
EXTENDS Params

\* The shift register after each byte of the message, the last byte first.
rsEncode(p, msg) ==
    LET parity == p.n1 - p.k
        register[i \in 0 .. p.k] ==
            IF i = 0 THEN Table([j \in 0 .. parity - 1 |-> Zero])
            ELSE LET cdw == register[i - 1]
                     gateValue == msg[p.k - i] \oplus cdw[parity - 1]
                     tmp(j) == gfMul(gateValue, Bits(p.rsPolyCoefs[j + 1]))
                 IN  Table([j \in 0 .. parity - 1 |->
                               IF j = 0 THEN tmp(0) ELSE cdw[j - 1] \oplus tmp(j)])
        last == register[p.k]
    IN  Table([j \in 0 .. p.n1 - 1 |-> IF j < parity THEN last[j] ELSE msg[j - parity]])

computeSyndromes(p, cdw) ==
    Table([i \in 0 .. 2 * p.delta - 1 |->
        cdw[0] \oplus XorOver(1 .. p.n1 - 1, LAMBDA j : gfMul(cdw[j], alphaIjPow(i, j - 1)))])

\* Mutant of computeZPoly: the products stop one term early.
zWithoutLast(p, sigma, degree, syndromes) ==
    Table([i \in 0 .. p.delta |->
        IF i = 0 THEN One
        ELSE sigma[i] \oplus XorOver(0 .. i - 2, LAMBDA j : gfMul(sigma[j], syndromes[i - j - 1]))])

\* z(x) = sigma(x) * S(x) modulo x^(delta + 1), up to the degree of sigma.
computeZPoly(p, sigma, degree, syndromes) ==
    Table([i \in 0 .. p.delta |->
        IF i = 0 THEN One
        ELSE LET masked(x) == IF i <= degree THEN x ELSE Zero
             IN  masked(sigma[i])
                 \oplus (IF i = 1 THEN syndromes[0] ELSE masked(syndromes[i - 1]))
                 \oplus masked(XorOver(1 .. i - 1, LAMBDA j : gfMul(sigma[j], syndromes[i - j - 1])))])

\* Error positions take the delta slots in their order; the others get none.
slotOf(p, errorPoly, i) == Cardinality({e \in errorPoly : e < i})
located(p, errorPoly) ==
    {i \in errorPoly : i < p.n1 /\ slotOf(p, errorPoly, i) < p.delta}

ProductOver(n, term(_)) ==
    LET prod[k \in 0 .. n] == IF k = 0 THEN One ELSE gfMul(prod[k - 1], term(k)) IN prod[n]

\* Forney's formula; slots without a position hold 0, whose inverse is 0.
computeErrorValues(p, z, errorPoly) ==
    LET found == located(p, errorPoly)
        betaJ == Table([j \in 0 .. p.delta - 1 |->
                    XorOver({i \in found : slotOf(p, errorPoly, i) = j}, gfExp)])
        eJ(i) ==
            LET inverse == gfInverse(betaJ[i])
                power(j) == ProductOver(j, LAMBDA k : inverse)
                tmp1 == One \oplus XorOver(1 .. p.delta, LAMBDA j : gfMul(power(j), z[j]))
                tmp2 == ProductOver(p.delta - 1, LAMBDA k :
                            One \oplus gfMul(inverse, betaJ[(i + k) % p.delta]))
            IN  gfMul(tmp1, gfInverse(tmp2))
    IN  Table([i \in 0 .. p.n1 - 1 |->
            IF i \in found THEN eJ(slotOf(p, errorPoly, i)) ELSE Zero])

correctErrors(p, cdw, errorValues) ==
    Table([i \in 0 .. p.n1 - 1 |-> cdw[i] \oplus errorValues[i]])

\* The message lies behind the parity.
extracted(p, cdw) == Table([i \in 0 .. p.k - 1 |-> cdw[p.g - 1 + i]])

=============================================================================
