------------------------------ MODULE MCField -------------------------------
(***************************************************************************)
(* The field, the FFT and the parameter sets, at their real sizes.  Each   *)
(* state is one question put to one of them.                               *)
(***************************************************************************)
EXTENDS AdditiveFFT, Params

ParamSets ==
    {[params |-> params128, sizes |-> sizes128], [params |-> params192, sizes |-> sizes192],
     [params |-> params256, sizes |-> sizes256]}

VARIABLE item

Init ==
    \/ item \in [kind : {"element"}, e : Element]
    \/ \E q \in ParamSets :
          \/ item = [kind |-> "params", q |-> q]
          \/ item \in [kind : {"polynomial"}, fft : {q.params.fft}, delta : {q.params.delta},
                       constant : {Zero, One}, degree : 0 .. q.params.delta,
                       coef : {{i} : i \in 0 .. paramM - 1}]

Next == UNCHANGED item

Spec == Init /\ [][Next]_item

-----------------------------------------------------------------------------
\* Multiplication by X, by definition.
TimesX(e) ==
    LET y == ShiftLeft(e, 1, 16) IN IF paramM \in y THEN y \oplus paramGFPoly ELSE y

\* gf.go and tables.go implement GF(2)[X] modulo 0x11D: the branch-free product is
\* the sum of shifted multiples, squares and inverses are what they should be, and
\* the two tables are the powers of X and their inverse.
FieldIsExact ==
    item.kind = "element" =>
        LET e == item.e
            multiple[n \in 0 .. paramM - 1] == IF n = 0 THEN e ELSE TimesX(multiple[n - 1])
            multiples == Table(multiple)
        IN  /\ \A f \in Element : gfMul(e, f) = XorOver(f, LAMBDA n : multiples[n])
            /\ gfSquare(e) = gfMul(e, e)
            /\ gfMul(e, gfInverse(e)) = IF e = Zero THEN Zero ELSE One
            /\ e # Zero => /\ gfLog(e) < paramGFMulOrd
                           /\ gfExp(gfLog(e)) = e
                           /\ gfExp(gfLog(e) + 1) = TimesX(e)

\* The polynomials constant + coef * X^degree.
Polynomial ==
    [i \in 0 .. 2^item.fft - 1 |->
        (IF i = 0 THEN item.constant ELSE Zero) \oplus (IF i = item.degree THEN item.coef ELSE Zero)]

PowerOf(e, n) ==
    IF n = 0 THEN One ELSE IF e = Zero THEN Zero ELSE gfExp((gfLog(e) * n) % paramGFMulOrd)

At(e) == item.constant \oplus gfMul(item.coef, PowerOf(e, item.degree))

sums == computeSubsetSums(computeFFTBetas, paramM - 1)

\* For every basis polynomial of the degree a decoder can have, w holds the value at
\* each of the 256 points, by the radix cases, twists and skipped recursion that the
\* parameter set leads to; and errorPoly marks exactly the i with f(alpha^-i) = 0.
FftEvaluates ==
    item.kind = "polynomial" =>
        LET w == fft(item, Polynomial, item.delta + 1)
        IN  /\ \A s \in 0 .. 2^paramM - 1 : w[s] = At(pointOf(sums, s))
            /\ At(Zero) # Zero =>
                 fftRetrieveErrorPoly(w) =
                     {i \in 0 .. paramGFMulOrd - 1 : At(gfExp(paramGFMulOrd - i)) = Zero}

\* Each parameter set passes validateParams, and has the relations the code relies
\* on and does not test: where the message lies in a codeword, positions that have
\* different logarithms, room for every copy of every symbol, peaks that cannot be
\* zero or reach bit 15, an FFT deep enough for its recursion, a generator
\* polynomial whose roots are the points of the syndromes, and the sizes of the API.
ParametersFit ==
    item.kind = "params" =>
        LET p == item.q.params
            z == item.q.sizes
        IN  /\ validateParams(p)
            /\ p.n1 - p.k = p.g - 1
            /\ p.n1 <= paramGFMulOrd
            /\ p.n2 = 128 * p.multiplicity
            /\ p.vecN1N2Size64 = 2 * p.n1 * p.multiplicity
            /\ p.vecN1N2Size64 <= p.vecNSize64
            /\ Odd(p.multiplicity)
            /\ 128 * p.multiplicity < 2^15
            /\ 4 * p.delta < 2^15
            /\ p.fft \in 2 .. paramM
            /\ p.omegaE <= p.omegaR /\ p.omega <= p.omegaR /\ p.omegaR <= p.n
            /\ \A i \in 0 .. 2 * p.delta - 1 :
                 Bits(p.rsPolyCoefs[1]) =
                     XorOver(1 .. p.g - 1, LAMBDA j :
                         gfMul(Bits(p.rsPolyCoefs[j + 1]), alphaIjPow(i, j - 1)))
            /\ z.publicKey  = p.seedLen + p.vecNSizeBytes
            /\ z.secretKey  = z.publicKey + 32 + p.securityBytes + 32
            /\ z.ciphertext = p.vecNSizeBytes + p.vecN1N2SizeBytes + p.saltLen

=============================================================================
