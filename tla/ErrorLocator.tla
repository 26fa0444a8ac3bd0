---------------------------- MODULE ErrorLocator ----------------------------
(***************************************************************************)
(* computeElp of reed_solomon.go: Berlekamp's algorithm without branches,  *)
(* one step for each turn of its loop.  Degrees and indices are 16-bit     *)
(* words: rho starts at -1, which pp holds as the largest word.            *)
(***************************************************************************)
EXTENDS Words, Params

CONSTANT ParamSets

ASSUME ParamSetsAssumption ==
    \A q \in ParamSets :
        /\ q.delta \in Nat /\ q.delta > 0 /\ 4 * q.delta < Modulus
        /\ 2^q.fft \in Nat /\ q.delta < 2^q.fft

Monomials == {{i} : i \in 0 .. paramM - 1}

\* gf.go is arithmetic in a field of characteristic 2.  Laws with three elements are
\* stated for a monomial as the last.  No constant occurs here: evaluating it once
\* decides it.
ASSUME FieldAssumption ==
    /\ \A a, b \in Element : gfMul(a, b) \in Element /\ gfMul(a, b) = gfMul(b, a)
    /\ \A a, b \in Element, x \in Monomials :
           /\ gfMul(a \oplus x, b) = gfMul(a, b) \oplus gfMul(x, b)
           /\ gfMul(gfMul(a, b), x) = gfMul(a, gfMul(b, x))
    /\ \A a \in Element : gfMul(One, a) = a /\ gfInverse(a) \in Element
    /\ \A a \in Element \ {Zero} : gfMul(gfInverse(a), a) = One

VARIABLES p,          \* the parameter set
          syndromes,
          mu,
          sigma, degSigma,
          xSigmaP,    \* X^(mu - rho) * sigma_rho, and the degree of sigma_rho
          degSigmaP,
          pp, dP,     \* rho and its discrepancy
          d

elpVars == <<mu, sigma, degSigma, xSigmaP, degSigmaP, pp, dP, d>>

\* No call is running.
ElpIdle ==
    /\ mu = 2 * p.delta
    /\ degSigma = 0 /\ degSigmaP = 0 /\ pp = Modulus - 1
    /\ syndromes = << >> /\ sigma = << >> /\ xSigmaP = << >>
    /\ dP = One /\ d = Zero

ElpBegin(s) ==
    /\ mu = 2 * p.delta
    /\ syndromes' = s
    /\ mu' = 0
    /\ sigma' = [i \in 0 .. 2^p.fft - 1 |-> IF i = 0 THEN One ELSE Zero]
    /\ degSigma' = 0
    /\ xSigmaP' = [i \in 0 .. p.delta |-> IF i = 1 THEN One ELSE Zero]
    /\ degSigmaP' = 0
    /\ pp' = Modulus - 1
    /\ dP' = One
    /\ d' = s[0]
    /\ UNCHANGED p

dd    == gfMul(d, gfInverse(dP))
limit == IF mu + 1 > p.delta THEN p.delta ELSE mu + 1

newSigma ==
    [i \in DOMAIN sigma |->
        IF i \in 1 .. limit THEN sigma[i] \oplus gfMul(dd, xSigmaP[i]) ELSE sigma[i]]

degX       == Minus(mu, pp)
degXSigmaP == Plus(degX, degSigmaP)

\* Mutant of lengthens: an equal degree lengthens sigma, too.
lengthensOnEqual == d # Zero /\ ~TopBit(Minus(degXSigmaP, degSigma))

\* mask12: d is not zero and degXSigmaP exceeds degSigma.
lengthens == d # Zero /\ TopBit(Minus(degSigma, degXSigmaP))

newDegree == IF lengthens THEN degXSigmaP ELSE degSigma

\* Mutant of newD: the sum stops one term early.
newDWithoutLast ==
    syndromes[mu + 1]
    \oplus XorOver(1 .. limit - 1, LAMBDA i : gfMul(newSigma[i], syndromes[mu + 1 - i]))

\* The discrepancy of the next turn.
newD ==
    syndromes[mu + 1]
    \oplus XorOver(1 .. limit, LAMBDA i : gfMul(newSigma[i], syndromes[mu + 1 - i]))

ElpStep ==
    /\ mu < 2 * p.delta - 1
    /\ mu' = mu + 1
    /\ sigma' = newSigma
    /\ degSigma' = newDegree
    /\ pp' = IF lengthens THEN mu ELSE pp
    /\ dP' = IF lengthens THEN d ELSE dP
    /\ xSigmaP' = [i \in 0 .. p.delta |->
                      IF i = 0 THEN xSigmaP[0] ELSE IF lengthens THEN sigma[i - 1] ELSE xSigmaP[i - 1]]
    /\ degSigmaP' = IF lengthens THEN degSigma ELSE degSigmaP
    /\ d' = newD
    /\ UNCHANGED <<p, syndromes>>

\* The last turn leaves the loop when sigma is complete.
ElpLast ==
    /\ mu = 2 * p.delta - 1
    /\ mu' = mu + 1
    /\ sigma' = newSigma
    /\ degSigma' = newDegree
    /\ UNCHANGED <<p, syndromes, xSigmaP, degSigmaP, pp, dP, d>>

\* Calls of computeElp on any syndromes.
ElpInit == p \in ParamSets /\ ElpIdle

ElpNext ==
    \/ \E s \in [0 .. 2 * p.delta - 1 -> Element] : ElpBegin(s)
    \/ ElpStep \/ ElpLast

ElpSpec == ElpInit /\ [][ElpNext]_<<p, syndromes, elpVars>>

-----------------------------------------------------------------------------
(* Properties.                                                             *)

rho == IF pp = Modulus - 1 THEN -1 ELSE pp

\* The degrees computed on 16 bits are those of the integers, for rho = -1 too, and
\* sigma gets the longer degree exactly when Berlekamp's algorithm changes the length
\* of the register: when mu - rho + deg(sigma_rho) exceeds deg(sigma).
DegreesExact ==
    mu < 2 * p.delta =>
        /\ degXSigmaP = mu - rho + degSigmaP
        /\ lengthens <=> (d # Zero /\ mu - rho + degSigmaP > degSigma)

\* While the degree is within the radius, sigma is the feedback polynomial of a
\* register of length degSigma that generates the syndromes before mu, and d is what
\* it misses the next one by.
KeyEquation ==
    (syndromes # << >> /\ degSigma <= p.delta) =>
        LET feedback(j) ==
                XorOver(0 .. degSigma, LAMBDA i : gfMul(sigma[i], syndromes[j - i]))
        IN  /\ \A j \in degSigma .. mu - 1 : feedback(j) = Zero
            /\ mu < 2 * p.delta => d = feedback(mu)

=============================================================================
