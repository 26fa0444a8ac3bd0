---------------------------- MODULE AdditiveFFT ----------------------------
(***************************************************************************)
(* The additive FFT of fft.go: a polynomial over GF(2^8) is evaluated at   *)
(* all elements of the field, and its roots become error positions.        *)
(* Arrays are functions from 0.                                            *)
(***************************************************************************)
EXTENDS Gf256

\* betas[i] = 1 << (paramM - 1 - i).
computeFFTBetas == Table([i \in 0 .. paramM - 2 |-> {paramM - 1 - i}])

\* subsetSums[(1 << i) + j] = set[i] ^ subsetSums[j], for j < 1 << i.
computeSubsetSums(set, setSize) ==
    LET sums[i \in 0 .. setSize] ==
            IF i = 0 THEN 0 :> Zero
            ELSE LET s == sums[i - 1]
                 IN  Joined(s, [j \in 0 .. 2^(i - 1) - 1 |-> set[i - 1] \oplus s[j]], 2^(i - 1))
    IN  sums[setSize]

-----------------------------------------------------------------------------
\* f(x) = f0(x^2 + x) + x * f1(x^2 + x).  The assignments of a case are in an
\* order in which each finds what it reads.
radix4(f) ==
    LET f15 == f[11] \oplus f[13]
        f05 == f[10] \oplus f[12] \oplus f15
        f04 == f[8] \oplus f[12]
        f13 == f[7] \oplus f[11] \oplus f[15]
        f03 == f[6] \oplus f[10] \oplus f[14] \oplus f13
        f02 == f[4] \oplus f04 \oplus f03 \oplus f13
        f11 == f[3] \oplus f[5] \oplus f[9] \oplus f[13] \oplus f13
        f01 == f[2] \oplus f02 \oplus f11
    IN  [f0 |-> 0 :> f[0] @@ 1 :> f01 @@ 2 :> f02 @@ 3 :> f03 @@ 4 :> f04 @@ 5 :> f05
                @@ 6 :> (f[12] \oplus f[14]) @@ 7 :> (f[14] \oplus f[15]),
         f1 |-> 0 :> (f[1] \oplus f01) @@ 1 :> f11 @@ 2 :> (f[3] \oplus f11 \oplus f03)
                @@ 3 :> f13 @@ 4 :> (f[9] \oplus f[13] \oplus f05) @@ 5 :> f15
                @@ 6 :> (f[13] \oplus f[14]) @@ 7 :> f[15]]

radix3(f) ==
    LET f02 == f[4] \oplus f[6]
        f11 == f[3] \oplus f[5] \oplus f[7]
        f01 == f[2] \oplus f02 \oplus f11
    IN  [f0 |-> 0 :> f[0] @@ 1 :> f01 @@ 2 :> f02 @@ 3 :> (f[6] \oplus f[7]),
         f1 |-> 0 :> (f[1] \oplus f01) @@ 1 :> f11 @@ 2 :> (f[5] \oplus f[6]) @@ 3 :> f[7]]

radix2(f) ==
    LET f01 == f[2] \oplus f[3]
    IN  [f0 |-> 0 :> f[0] @@ 1 :> f01, f1 |-> 0 :> (f[1] \oplus f01) @@ 1 :> f[3]]

radix1(f) == [f0 |-> 0 :> f[0], f1 |-> 0 :> f[1]]

RECURSIVE radix(_, _)

\* Q and R are the quotient and the remainder of f by x^(2n) + x^n, in effect.
radixBig(f, mf) ==
    LET n == 2^(mf - 2)
        Q == [i \in 0 .. n - 1 |-> f[3 * n + i] \oplus f[2 * n + i]]
        hi == radix(Joined(Q, [i \in 0 .. n - 1 |-> f[3 * n + i]], n), mf - 1)
        lo == radix(Joined(f, [i \in 0 .. n - 1 |-> f[n + i] \oplus Q[i]], n), mf - 1)
    IN  [f0 |-> Joined(lo.f0, hi.f0, n), f1 |-> Joined(lo.f1, hi.f1, n)]

radix(f, mf) ==
    CASE mf = 1 -> radix1(f) [] mf = 2 -> radix2(f) [] mf = 3 -> radix3(f)
      [] mf = 4 -> radix4(f) [] OTHER -> radixBig(f, mf)

-----------------------------------------------------------------------------
\* w[i] = u[i] ^ sums[i] * v[i] and w[k + i] = w[i] ^ v[i]; sums[0] is zero.
recombine(u, v, sums, k) ==
    LET lower == Table([i \in 0 .. k - 1 |-> u[i] \oplus gfMul(sums[i], v[i])])
    IN  Joined(lower, [i \in 0 .. k - 1 |-> lower[i] \oplus v[i]], k)

\* Mutant of constantHalf: one coefficient more.
constantHalfOfFour(fCoeffs) == fCoeffs <= 4
constantHalf(fCoeffs)       == fCoeffs <= 3

deltasOf(gammas, size) ==
    Table([i \in 0 .. size - 1 |-> gfSquare(gammas[i]) \oplus gammas[i]])

\* f[i] is multiplied by the i-th power of the last beta.
twisted(f, betas, m, mf) ==
    LET pow[i \in 0 .. 2^mf - 1] == IF i = 0 THEN One ELSE gfMul(pow[i - 1], betas[m - 1])
    IN  IF betas[m - 1] = One THEN f ELSE Table([i \in 0 .. 2^mf - 1 |-> gfMul(pow[i], f[i])])

RECURSIVE fftRec(_, _, _, _, _)

\* With few coefficients f1 is a constant.
fftRec(f, fCoeffs, m, mf, betas) ==
    LET k      == 2^(m - 1)
        steps  == computeSubsetSums([i \in 0 .. m - 1 |-> gfMul(betas[i], f[1])], m)
        halves == radix(twisted(f, betas, m, mf), mf)
        gammas == Table([i \in 0 .. m - 2 |-> gfMul(betas[i], gfInverse(betas[m - 1]))])
        deltas == deltasOf(gammas, m - 1)
        u == fftRec(halves.f0, (fCoeffs + 1) \div 2, m - 1, mf - 1, deltas)
        v == IF constantHalf(fCoeffs) THEN [i \in 0 .. k - 1 |-> halves.f1[0]]
             ELSE fftRec(halves.f1, fCoeffs \div 2, m - 1, mf - 1, deltas)
    IN  IF mf = 1 THEN Table([s \in 0 .. 2^m - 1 |-> f[0] \oplus steps[s]])
        ELSE recombine(u, v, computeSubsetSums(gammas, m - 1), k)

\* At the top level the gammas are the betas, and there is no twist.
fft(p, f, fCoeffs) ==
    LET halves == radix(f, p.fft)
        betas  == computeFFTBetas
        deltas == deltasOf(betas, paramM - 1)
    IN  recombine(fftRec(halves.f0, (fCoeffs + 1) \div 2, paramM - 1, p.fft - 1, deltas),
                  fftRec(halves.f1, fCoeffs \div 2, paramM - 1, p.fft - 1, deltas),
                  computeSubsetSums(betas, paramM - 1), 2^(paramM - 1))

\* The element at which w[s] is the value.
pointOf(sums, s) ==
    LET k == 2^(paramM - 1) IN IF s < k THEN sums[s] ELSE sums[s - k] \oplus One

\* The entry of errorPoly that a root at x inverts; 0 and 1 are looked at apart.
indexOf(x) == IF x \in {Zero, One} THEN 0 ELSE paramGFMulOrd - gfLog(x)

\* errorPoly, as the set of its entries that are 1.
fftRetrieveErrorPoly(w) ==
    LET gammasSums == computeSubsetSums(computeFFTBetas, paramM - 1)
        roots == {pointOf(gammasSums, s) : s \in {t \in 0 .. 2^paramM - 1 : w[t] = Zero}}
    IN  {i \in {indexOf(x) : x \in roots} : Odd(Cardinality({x \in roots : indexOf(x) = i}))}

=============================================================================
