-------------------------------- MODULE Kem ---------------------------------
(***************************************************************************)
(* The key encapsulation mechanism of hqc_internal.go through the life of  *)
(* one key: generated from a seed, stored, damaged and loaded again,       *)
(* regenerated from its seed, sent to a peer, and used to decapsulate the  *)
(* peer's ciphertext, which may have been changed on the way.              *)
(*                                                                         *)
(* SHA-3 and SHAKE are ideal: hashes are the tuples of their inputs, and   *)
(* what the seed expander returns is a choice made once per seed (for      *)
(* theta, when G is first asked about its input) and kept.                 *)
(***************************************************************************)
EXTENDS Pke

CONSTANTS Seed,         \* values of seed_kem; the seeds derived from one bear its name
          Salt,
          KeyStreams,   \* pairs y, x the expander may return on a seed_dk
          PublicVectors,\* vectors h it may return on a seed_ek
          Streams,      \* triples r2, e, r1 it may return on a theta
          Flips,        \* bound: the bits of a field that may arrive inverted
          MaxReloads, MaxDecaps     \* bounds

\* What the samplers return are vectors of the ring.
ASSUME KemAssumption ==
    /\ KeyStreams \subseteq Poly \X Poly
    /\ PublicVectors \subseteq Poly
    /\ Streams \subseteq Poly \X Poly \X Poly
    /\ Flips \subseteq 0 .. n + Pad - 1
    /\ MaxReloads \in Nat
    /\ MaxDecaps \in Nat

VARIABLES keyStream,    \* the expander's output on each seed_dk
          pubVector,    \* and on each seed_ek
          asked,        \* the expander's output on the thetas asked for so far
          sk,           \* the stored secret key, or None
          key,          \* the decapsulation key in use, or an error
          reloads,
          sent,         \* what the peer's Encapsulate returned, or None
          log           \* the decapsulations so far

oracle == <<keyStream, pubVector, asked>>
vars == <<keyStream, pubVector, asked, sk, key, reloads, sent, log>>

None == [none |-> TRUE]
IsKey(k) == "y" \in DOMAIN k

-----------------------------------------------------------------------------
(* Hashes.                                                                 *)

hashH(pk) == pk

\* Mutant of hashG: the salt is not hashed.
hashGWithoutSalt(hEK, m, salt) == <<hEK, m>>

\* K and theta are two halves of one hash: both are named by its input.
hashG(hEK, m, salt) == <<hEK, m, salt>>

hashJ(hEK, sigma, u, v, salt) == <<hEK, sigma, u, v, salt>>

Accepted(g) == [accepted |-> g]
Rejected(j) == [rejected |-> j]

\* The expander on theta = g: the answer already given, or any.
Expands(g, stream) ==
    IF g \in DOMAIN asked
    THEN stream = asked[g] /\ UNCHANGED asked
    ELSE asked' = [a \in DOMAIN asked \cup {g} |-> IF a = g THEN stream ELSE asked[a]]

-----------------------------------------------------------------------------
(* Keys.                                                                   *)

parseEncapsulationKey(pk) ==
    [h |-> pubVector[pk.seedEK], s |-> pk.s, hEK |-> hashH(pk)]

\* Mutant of regenerated: x is taken from the expander before y.
regeneratedSwapped(seedDK) == [y |-> keyStream[seedDK][2], x |-> keyStream[seedDK][1]]

regenerated(seedDK) == [y |-> keyStream[seedDK][1], x |-> keyStream[seedDK][2]]

\* Mutant of parseDecapsulationKey: sigma is read from where seed_kem lies.
parsedSigmaFromSeedKem(bytes) ==
    LET ek == parseEncapsulationKey(bytes.pk)
        yx == regenerated(bytes.seedDK)
    IN  IF bytes.short THEN [err |-> "ErrInvalidKeySize"]
        ELSE IF polyAdd(yx.x, polyMul(yx.y, ek.h)) # ek.s THEN [err |-> "ErrKeyMismatch"]
        ELSE [y |-> yx.y, x |-> yx.x, sigma |-> bytes.seedKem, ek |-> ek, bytes |-> bytes]

\* x and y come from seed_dk again, and must give the stored public key back;
\* sigma and seed_kem are taken as they are.
parseDecapsulationKey(bytes) ==
    LET ek == parseEncapsulationKey(bytes.pk)
        yx == regenerated(bytes.seedDK)
    IN  IF bytes.short THEN [err |-> "ErrInvalidKeySize"]
        ELSE IF polyAdd(yx.x, polyMul(yx.y, ek.h)) # ek.s THEN [err |-> "ErrKeyMismatch"]
        ELSE [y |-> yx.y, x |-> yx.x, sigma |-> bytes.sigma, ek |-> ek, bytes |-> bytes]

\* The bytes generateKey assembles: pk || seed_dk || sigma || seed_kem.
generatedBytes(seed) ==
    [pk     |-> [seedEK |-> seed, s |-> hqcPKEKeygen(keyStream[seed], pubVector[seed])],
     seedDK |-> seed, sigma |-> seed, seedKem |-> seed, short |-> FALSE]

\* One field of a stored key is damaged: cut short, a seed replaced by another, or
\* one bit of s flipped, the padding bits of its last byte included.
Damaged(bytes) ==
    {[bytes EXCEPT !.short = TRUE]}
    \cup {[bytes EXCEPT !.pk.seedEK = x] : x \in Seed}
    \cup {[bytes EXCEPT !.seedDK = x] : x \in Seed}
    \cup {[bytes EXCEPT !.sigma = x] : x \in Seed}
    \cup {[bytes EXCEPT !.seedKem = x] : x \in Seed}
    \cup {[bytes EXCEPT !.pk.s = SymDiff(@, {k})] : k \in Flips}

-----------------------------------------------------------------------------
Init ==
    /\ keyStream \in [Seed -> KeyStreams]
    /\ pubVector \in [Seed -> PublicVectors]
    /\ asked = << >>
    /\ sk = None
    /\ key = None
    /\ reloads = 0
    /\ sent = None
    /\ log = {}

\* Ciphertexts fill their fields exactly: no bit at or beyond n in u, none at or
\* beyond n1n2 in v, though the sum was computed over n bits.
TypeOK ==
    /\ keyStream \in [Seed -> KeyStreams]
    /\ pubVector \in [Seed -> PublicVectors]
    /\ \A g \in DOMAIN asked : asked[g] \in Streams
    /\ reloads \in 0 .. MaxReloads
    /\ IsKey(key) => key.ek.s \in Poly /\ key.y \in Poly
    /\ sent # None => sent.ct.u \in Poly /\ sent.ct.v \in SUBSET (0 .. n1n2 - 1)
    /\ Cardinality(log) <= MaxDecaps

generateKey(seed) ==
    /\ sk = None
    /\ sk' = generatedBytes(seed)
    /\ key' = parseDecapsulationKey(sk')
    /\ UNCHANGED <<oracle, reloads, sent, log>>

\* The key is parsed from its stored form, intact or damaged.
Reload(bytes) ==
    /\ sk # None
    /\ reloads < MaxReloads
    /\ reloads' = reloads + 1
    /\ key' = parseDecapsulationKey(bytes)
    /\ UNCHANGED <<oracle, sk, sent, log>>

\* NewDecapsulationKey on the Seed() of the key in use.
Regenerate ==
    /\ IsKey(key)
    /\ reloads < MaxReloads
    /\ reloads' = reloads + 1
    /\ key' = parseDecapsulationKey(generatedBytes(key.bytes.seedKem))
    /\ UNCHANGED <<oracle, sk, sent, log>>

\* The peer encapsulates to the public key it received, with padding bits as they come.
encapsulate(pk, m, salt, stream) ==
    LET ek == parseEncapsulationKey(pk)
        g  == hashG(ek.hEK, m, salt)
        c  == hqcPKEEncrypt(ek.h, ek.s, m, stream)
    IN  /\ sent = None
        /\ Expands(g, stream)
        /\ sent' = [ct |-> [u |-> c.u, v |-> c.v, salt |-> salt], ss |-> Accepted(g),
                    pk |-> pk, stream |-> stream]
        /\ UNCHANGED <<keyStream, pubVector, sk, key, reloads, log>>

PublicForms(pk) ==
    {pk} \cup {[pk EXCEPT !.s = SymDiff(@, {k})] : k \in n .. n + Pad - 1}

\* What may reach the receiver: the ciphertext, or one with a bit or the salt changed.
Delivered(ct) ==
    {ct}
    \cup {[ct EXCEPT !.u = SymDiff(@, {k})] : k \in Flips}
    \cup {[ct EXCEPT !.v = SymDiff(@, {k})] : k \in Flips \cap (0 .. n1n2 - 1)}
    \cup {[ct EXCEPT !.salt = x] : x \in Salt}

\* Mutant of mismatch: v is not compared.
mismatchInU(ct, c) == IF ct.u = c.u THEN 0 ELSE 1

\* result |= vectCompare(...) for u and v; the third comparison is of the salt
\* with a copy of itself.
mismatch(ct, c) == IF ct.u = c.u /\ ct.v = c.v THEN 0 ELSE 1

decapsulate(ct, stream) ==
    LET m == hqcPKEDecrypt(key.y, ct.u, ct.v)
        g == hashG(key.ek.hEK, m, ct.salt)
        c == hqcPKEEncrypt(key.ek.h, key.ek.s, m, stream)
        j == hashJ(key.ek.hEK, key.sigma, ct.u, ct.v, ct.salt)
        selectBit == ((mismatch(ct, c) - 1) % 256) % 2
    IN  /\ IsKey(key)
        /\ Cardinality(log) < MaxDecaps
        /\ Expands(g, stream)
        /\ log' = log \cup
               {[ct |-> ct, pk |-> key.bytes.pk, sigma |-> key.bytes.sigma,
                 yx |-> [y |-> key.y, x |-> key.x],
                 ss |-> IF selectBit = 1 THEN Accepted(g) ELSE Rejected(j)]}
        /\ UNCHANGED <<keyStream, pubVector, sk, key, reloads, sent>>

Next ==
    \/ \E seed \in Seed : generateKey(seed)
    \/ sk # None /\ \E bytes \in {sk} \cup Damaged(sk) : Reload(bytes)
    \/ Regenerate
    \/ sk # None /\ \E pk \in PublicForms(sk.pk), m \in Message, salt \in Salt, stream \in Streams :
           encapsulate(pk, m, salt, stream)
    \/ sent # None /\ \E ct \in Delivered(sent.ct), stream \in Streams : decapsulate(ct, stream)

Spec == Init /\ [][Next]_vars

-----------------------------------------------------------------------------
(* Properties.                                                             *)

\* Key generation never fails: the vectors parseDecapsulationKey regenerates are
\* those the public key was made from.
GenerationSucceeds == sk # None /\ reloads = 0 => IsKey(key)

\* The error the decoder faces when the peer used the streams in `sent` and the
\* receiving key holds the vectors yx.
noise(yx, stream) ==
    truncate(polyAdd(polyAdd(polyMul(stream[1], yx.x), polyMul(yx.y, stream[3])), stream[2]))

\* The blocks of the noise with more ones than a symbol is sure to survive: half the
\* distance between the two closest words of symbols.
symbolRadius ==
    (Min(UNION {{Distance(SymbolWord[a], SymbolWord[b]) : b \in Symbol \ {a}} : a \in Symbol}) - 1)
        \div 2
overwhelmed(word) == {i \in 0 .. n1 - 1 : Cardinality(Block(word, i)) > symbolRadius}

\* Both sides obtain the same secret whenever the noise overwhelms no more symbols
\* than the outer code corrects, whatever the key went through between generation
\* and use: any key that loads decapsulates, whichever of its fields was damaged.
Agreement ==
    \A d \in log :
        (/\ sent # None
         /\ d.ct = sent.ct
         /\ d.pk = sent.pk
         /\ Cardinality(overwhelmed(noise(d.yx, sent.stream))) <= delta)
        => d.ss = sent.ss

\* A ciphertext or public key that changed on the way, by a padding bit or by its
\* salt included, never yields the peer's secret.
NoFalseAgreement ==
    \A d \in log : (sent # None /\ d.ss = sent.ss) => (d.ct = sent.ct /\ d.pk = sent.pk)

\* Two different ciphertexts never decapsulate to the same secret, accepted or rejected.
Binding == \A a, b \in log : a.ss = b.ss => a.ct = b.ct

\* The same ciphertext, decapsulated before and after the key was stored, damaged,
\* loaded or regenerated, yields the same secret as long as the key is the same, and
\* a damaged sigma shows only where the ciphertext is rejected.
ReloadsAnswerAlike ==
    \A a, b \in log :
        (a.ct = b.ct /\ a.pk = b.pk /\ a.yx = b.yx)
        => (a.ss = b.ss <=> (a.sigma = b.sigma \/ "accepted" \in DOMAIN a.ss))

\* errors.go says that a key is refused when its public key does not match the one
\* derived from the seed.  Seed() of a key in use derives that very key.
SeedDerivesKey ==
    IsKey(key) => generatedBytes(key.bytes.seedKem).pk = key.bytes.pk

=============================================================================
