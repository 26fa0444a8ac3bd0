--------------------------- MODULE SecretBuffers ----------------------------
(***************************************************************************)
(* What becomes of the secret buffers of one call: generateKey,            *)
(* parseDecapsulationKeyInternal, encapsulate and decapsulate, with the    *)
(* PKE, the samplers, the multiplication and the codes they call.  Each    *)
(* function is the list of what it does to its buffers; a call that draws  *)
(* randomness panics when the reader fails, and then only the wipes that   *)
(* were deferred already are carried out.  Left out are scalars, the       *)
(* tables of multiples on the stack of baseMul and gfCarrylessMul, arrays  *)
(* returned by value, and the state inside the hash library.               *)
(***************************************************************************)
EXTENDS Sequences, FiniteSets, Naturals

VARIABLES call,     \* the operation that is running, or ran last
          rest,     \* what it has still to do
          deferred, \* the buffers its deferred function will wipe
          secret,   \* the buffers of the call, and the key's fields, that hold secrets
          outcome

vars == <<call, rest, deferred, secret, outcome>>

-----------------------------------------------------------------------------
(* What functions do to their buffers.                                     *)

Draw(b)    == [do |-> "draw",   bufs |-> {b}]     \* io.ReadFull(randSource, b)
Fill(bs)   == [do |-> "fill",   bufs |-> bs]
Defer(bs)  == [do |-> "defer",  bufs |-> bs]      \* defer func() { Zero... }
Wipe(bs)   == [do |-> "wipe",   bufs |-> bs]      \* ZeroBytes, ZeroUint64s
Refuse(bs) == [do |-> "refuse", bufs |-> bs]      \* wipe, then return an error

KeyFields == {"key.seedDK", "key.sigma", "key.seedKem", "key.x", "key.y", "key.sk"}

\* A function that defers a wipe of all its secrets and cannot fail.
Within(bs) == <<Fill(bs), Wipe(bs)>>

\* The slice h.Sum returns is copied into the function's result.
hashG == <<Fill({"G.result"})>>
hashI == <<Fill({"I.result"})>>
hashJ == <<Fill({"J.result"})>>

polyMul       == Within({"stack", "oKarat"})
sampled       == Within({"randBytes", "support", "indexTab", "bitTab"})
codeEncode    == Within({"symbols", "lfsr"})

\* The arrays are zeroed before each symbol and not after the last.
rmDecode == <<Fill({"expanded", "transform"})>>

\* big: sigma has more than sixteen coefficients and is split by radixBig, which keeps
\* its six arrays; w holds the values of sigma.
fft(big) ==
    Within({"f0", "f1", "fft.u", "fft.v", "fft.tmp"})
    \o (IF big THEN <<Fill({"Q", "R", "Q0", "Q1", "R0", "R1"})>> ELSE << >>)

computeRoots(big) == <<Fill({"w", "errorPoly"})>> \o fft(big)

rsDecode(big) ==
    <<Fill({"syndromes", "elp"})>> \o Within({"sigmaCopy", "xSigmaP"}) \o computeRoots(big)
    \o <<Fill({"z"})>> \o Within({"betaJ", "eJ"}) \o <<Fill({"errorValues"})>>
    \o <<Wipe({"syndromes", "elp", "errorPoly", "z", "errorValues"})>>

codeDecode(big) ==
    rmDecode \o <<Fill({"symbols"})>> \o rsDecode(big) \o <<Wipe({"symbols"})>>

hqcPKEKeygen ==
    hashI \o <<Fill({"keypairSeed"}), Fill({"x", "y"})>> \o sampled \o polyMul
    \o <<Wipe({"x", "y", "keypairSeed"})>>

hqcPKEEncryptCached ==
    <<Fill({"r1", "r2", "e"})>> \o sampled \o polyMul \o <<Fill({"tmp2"})>>
    \o codeEncode \o <<Fill({"tmp1"}), Wipe({"r1", "r2", "e", "tmp1", "tmp2"})>>

hqcPKEDecryptCached(big) ==
    <<Fill({"tmp1"})>> \o polyMul \o <<Fill({"tmp2"})>>
    \o codeDecode(big) \o <<Wipe({"tmp1", "tmp2"})>>

\* Mutant of mismatch: y is forgotten.
mismatchForgetsY == Refuse({"key.seedDK", "key.sigma", "key.seedKem", "key.x", "s2"})

mismatch == Refuse({"key.seedDK", "key.sigma", "key.seedKem", "key.x", "key.y", "s2"})

wrongSize == Refuse({})

\* A key that was just generated passes the checks.
parseDecapsulationKey(generated) ==
    (IF generated THEN << >> ELSE <<wrongSize>>)
    \o <<Fill({"key.seedDK", "key.sigma", "key.seedKem"}), Fill({"key.x", "key.y"})>>
    \o sampled \o polyMul \o <<Fill({"s2"})>>
    \o (IF generated THEN << >> ELSE <<mismatch>>)
    \o <<Wipe({"s2"}), Fill({"key.sk"})>>

generateKey ==
    <<Draw("seedKem"), Fill({"seedPKE"}), Fill({"sigma"})>>
    \o hqcPKEKeygen
    \o <<Fill({"seedDK"}), Fill({"sk"}),
         Wipe({"seedPKE"}), Wipe({"seedKem"}), Wipe({"sigma"}), Wipe({"seedDK"})>>
    \o parseDecapsulationKey(TRUE)

\* Mutant of encapsulate: the deferred function is set up without u and v.
encapsulateDefersM ==
    <<Draw("m"), Draw("salt"), Defer({"m"})>>
    \o hashG \o <<Fill({"kTheta"})>> \o hqcPKEEncryptCached
    \o <<Fill({"u", "v"}), Wipe({"kTheta"})>>

encapsulate ==
    <<Draw("m"), Draw("salt"), Defer({"m", "u", "v"})>>
    \o hashG \o <<Fill({"kTheta"})>> \o hqcPKEEncryptCached
    \o <<Fill({"u", "v"}), Wipe({"kTheta"})>>

decapsulate(big) ==
    <<wrongSize>>
    \o hqcPKEDecryptCached(big)
    \o <<Fill({"m"}), Defer({"m", "u2", "v2"})>>
    \o hashG \o <<Fill({"kThetaPrime"})>> \o hqcPKEEncryptCached
    \o <<Fill({"u2", "v2"}), Fill({"u2Bytes", "v2Bytes"})>> \o hashJ
    \o <<Fill({"KBar"}), Wipe({"kThetaPrime"}), Wipe({"u2Bytes"}), Wipe({"v2Bytes"}), Wipe({"KBar"})>>

destroy == <<Wipe(KeyFields)>>

Body(o, big) ==
    CASE o = "generateKey" -> generateKey
      [] o = "parse"       -> parseDecapsulationKey(FALSE)
      [] o = "encapsulate" -> encapsulate
      [] o = "decapsulate" -> decapsulate(big)
      [] o = "destroy"     -> destroy

Operation == {"generateKey", "parse", "encapsulate", "decapsulate", "destroy"}

\* The salt travels in the ciphertext.
Public == {"salt"}

-----------------------------------------------------------------------------
Init ==
    /\ call = "none"
    /\ rest = << >>
    /\ deferred = {}
    /\ secret = {}
    /\ outcome = "returned"

HasKey == secret \cap KeyFields # {}

\* Behind is what the call has in its buffers, and leaves to the garbage
\* collector when it is over.
Behind == secret \ KeyFields

\* The client holds at most one key; only a client with a key decapsulates.  big
\* tells a key of HQC-192 or HQC-256.
Start(o, big) ==
    /\ outcome # "running"
    /\ o \in {"generateKey", "parse"} => ~HasKey
    /\ o \in {"decapsulate", "destroy"} => HasKey
    /\ call' = o
    /\ rest' = Body(o, big)
    /\ deferred' = {}
    /\ secret' = secret \cap KeyFields
    /\ outcome' = "running"

Doing(kind) == outcome = "running" /\ rest # << >> /\ Head(rest).do = kind

\* A read of randomness, which fills the buffer whole.
DrawAll ==
    /\ Doing("draw")
    /\ secret' = secret \cup (Head(rest).bufs \ Public)
    /\ rest' = Tail(rest)
    /\ UNCHANGED <<call, deferred, outcome>>

\* The reader fails, after some bytes or at once: the function panics, and what
\* it deferred is run.
DrawFails(some) ==
    /\ Doing("draw")
    /\ secret' = (secret \cup (IF some THEN Head(rest).bufs \ Public ELSE {})) \ deferred
    /\ outcome' = "panicked"
    /\ UNCHANGED <<call, rest, deferred>>

Compute ==
    /\ Doing("fill")
    /\ secret' = secret \cup Head(rest).bufs
    /\ rest' = Tail(rest)
    /\ UNCHANGED <<call, deferred, outcome>>

RegisterDefer ==
    /\ Doing("defer")
    /\ deferred' = deferred \cup Head(rest).bufs
    /\ rest' = Tail(rest)
    /\ UNCHANGED <<call, secret, outcome>>

Zero ==
    /\ Doing("wipe")
    /\ secret' = secret \ Head(rest).bufs
    /\ rest' = Tail(rest)
    /\ UNCHANGED <<call, deferred, outcome>>

CheckFails ==
    /\ Doing("refuse")
    /\ secret' = (secret \ Head(rest).bufs) \ deferred
    /\ outcome' = "refused"
    /\ UNCHANGED <<call, rest, deferred>>

CheckPasses ==
    /\ Doing("refuse")
    /\ rest' = Tail(rest)
    /\ UNCHANGED <<call, deferred, secret, outcome>>

Return ==
    /\ outcome = "running"
    /\ rest = << >>
    /\ secret' = secret \ deferred
    /\ outcome' = "returned"
    /\ UNCHANGED <<call, rest, deferred>>

Next ==
    \/ \E o \in Operation, big \in BOOLEAN : Start(o, big)
    \/ DrawAll \/ (\E some \in BOOLEAN : DrawFails(some))
    \/ Compute \/ RegisterDefer \/ Zero \/ CheckFails \/ CheckPasses \/ Return

Spec == Init /\ [][Next]_vars

-----------------------------------------------------------------------------
(* Properties.                                                             *)

\* The buffers that no statement of the code zeroes on a path that returns.
NeverZeroed(o) ==
    CASE o = "generateKey" -> {"sk", "I.result"}
      [] o = "encapsulate" -> {"G.result"}
      [] o = "decapsulate" -> {"G.result", "J.result", "expanded", "transform", "w",
                               "Q", "R", "Q0", "Q1", "R0", "R1"}
      [] OTHER             -> {}

\* A call that returns, or refuses, leaves in memory only the assembled key of
\* generateKey, what hash functions returned, and the decoder's arrays of soft values
\* and of values of sigma: parsing and destroying leave nothing, and no call leaves the
\* message, the vectors it drew, their products or the error positions.
CallsLeaveNothing ==
    outcome \in {"returned", "refused"} => Behind \subseteq NeverZeroed(call)

\* Between calls the client has a whole key or none: a key that was refused, or
\* whose generation panicked, leaves no field behind, and neither does Destroy.
KeyWholeOrNone ==
    outcome # "running" => secret \cap KeyFields \in {{}, KeyFields}

\* doc.go: all secret intermediate buffers are zeroed.  A call that returns leaves
\* nothing behind.
IntermediatesZeroed == outcome = "returned" => Behind = {}

=============================================================================
