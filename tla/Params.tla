------------------------------- MODULE Params -------------------------------
(***************************************************************************)
(* The three parameter sets of params.go, what init derives from them and  *)
(* what it validates, and the sizes of keys and ciphertexts that           *)
(* hqc128.go, hqc192.go and hqc256.go declare.                             *)
(***************************************************************************)
EXTENDS Gf256, Sequences

ceilDiv(a, b) == (a + b - 1) \div b

\* floor(2^32 / n), bit by bit: TLC's integers end below 2^32.
barrettMultiplier(n) ==
    LET step[i \in 0 .. 32] ==
            IF i = 0 THEN [q |-> 0, r |-> 1]
            ELSE LET s == step[i - 1]
                     b == IF 2 * s.r >= n THEN 1 ELSE 0
                 IN  [q |-> 2 * s.q + b, r |-> 2 * s.r - b * n]
    IN  step[32].q

\* alphaIjPow[i][j], for i < 2 * delta and j < n1 - 1; a mutant of it counts the
\* columns from 0.
alphaIjPowFromZero(i, j) == gfExp(((i + 1) * j) % paramGFMulOrd)
alphaIjPow(i, j) == gfExp(((i + 1) * (j + 1)) % paramGFMulOrd)

\* The table as init lays it out.
alphaTable(p) ==
    [i \in 0 .. 2 * p.delta - 1 |-> [j \in 0 .. p.n1 - 2 |-> alphaIjPow(i, j)]]

\* The other fields that init computes; the mask is the set of its bits, and the
\* table alphaIjPow, which depends on delta and n1 only, is the operator above.
initDerived(p) ==
    p @@ [vecNSize64       |-> ceilDiv(p.n, 64),
          vecN1N2Size64    |-> ceilDiv(p.n1n2, 64),
          vecNSizeBytes    |-> ceilDiv(p.n, 8),
          vecN1N2SizeBytes |-> ceilDiv(p.n1n2, 8),
          redMask          |-> 0 .. (IF p.n % 64 = 0 THEN 63 ELSE (p.n % 64) - 1),
          multiplicity     |-> ceilDiv(p.n2, 128),
          vecKSizeBytes    |-> p.k,
          vecN1SizeBytes   |-> p.n1,
          vecKSize64       |-> ceilDiv(p.k, 8),
          vecN1Size64      |-> ceilDiv(p.n1, 8)]

Common == [m |-> paramM, seedLen |-> 32, saltLen |-> 16]

params128 == initDerived(Common @@
    [n |-> 17669, n1 |-> 46, n2 |-> 384, n1n2 |-> 17664,
     omega |-> 66, omegaE |-> 75, omegaR |-> 75, delta |-> 15, k |-> 16, g |-> 31, fft |-> 4,
     nMu |-> 243079, rejectionThreshold |-> 16767881, securityBytes |-> 16,
     rsPolyCoefs |-> <<
        89, 69, 153, 116, 176, 117, 111, 75, 73, 233, 242, 233, 65, 210, 21, 139, 103, 173,
        67, 118, 105, 210, 174, 110, 74, 69, 228, 82, 255, 181, 1>>])

params192 == initDerived(Common @@
    [n |-> 35851, n1 |-> 56, n2 |-> 640, n1n2 |-> 35840,
     omega |-> 100, omegaE |-> 114, omegaR |-> 114, delta |-> 16, k |-> 24, g |-> 33, fft |-> 5,
     nMu |-> 119800, rejectionThreshold |-> 16742417, securityBytes |-> 24,
     rsPolyCoefs |-> <<
        45, 216, 239, 24, 253, 104, 27, 40, 107, 50, 163, 210, 227, 134, 224, 158, 119, 13,
        158, 1, 238, 164, 82, 43, 15, 232, 246, 142, 50, 189, 29, 232, 1>>])

params256 == initDerived(Common @@
    [n |-> 57637, n1 |-> 90, n2 |-> 640, n1n2 |-> 57600,
     omega |-> 131, omegaE |-> 149, omegaR |-> 149, delta |-> 29, k |-> 32, g |-> 59, fft |-> 5,
     nMu |-> 74517, rejectionThreshold |-> 16772367, securityBytes |-> 32,
     rsPolyCoefs |-> <<
        49, 167, 49, 39, 200, 121, 124, 91, 240, 63, 148, 71, 150, 123, 87, 101, 32, 215,
        159, 71, 201, 115, 97, 210, 186, 183, 141, 217, 123, 12, 31, 243, 180, 219, 152, 239,
        99, 141, 4, 246, 191, 144, 8, 232, 47, 27, 141, 178, 130, 64, 124, 47, 39, 188,
        216, 48, 199, 187, 1>>])

validateParams(p) ==
    /\ p.n1 * p.n2 = p.n1n2
    /\ p.g = 2 * p.delta + 1
    /\ p.n > p.n1n2
    /\ p.n % 64 # 0
    /\ 2^p.fft >= p.delta + 1
    /\ Len(p.rsPolyCoefs) = p.g
    /\ p.seedLen = 32
    /\ p.nMu = barrettMultiplier(p.n)
    /\ p.rejectionThreshold = (2^24 \div p.n) * p.n
    /\ p.securityBytes = p.k
    /\ LET table == alphaTable(p)
       IN  /\ Cardinality(DOMAIN table) = 2 * p.delta
           /\ \A i \in DOMAIN table : Cardinality(DOMAIN table[i]) = p.n1 - 1

\* Sizes in bytes, as the three files of the API declare them.
sizes128 == [publicKey |-> 2241, secretKey |-> 2321, ciphertext |-> 4433]
sizes192 == [publicKey |-> 4514, secretKey |-> 4602, ciphertext |-> 8978]
sizes256 == [publicKey |-> 7237, secretKey |-> 7333, ciphertext |-> 14421]

=============================================================================
