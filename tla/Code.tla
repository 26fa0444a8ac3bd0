-------------------------------- MODULE Code --------------------------------
(***************************************************************************)
(* The concatenated code of code.go: codeEncode, and codeDecode stage by   *)
(* stage, each of which finds what the one before left in the buffers.     *)
(***************************************************************************)
EXTENDS SymbolDecoder, ReedSolomon, AdditiveFFT

VARIABLES errorPoly, zPoly, errorValues,
          m             \* the message decoded

codeVars == <<stage, em, tmp, errorPoly, zPoly, errorValues, m>>

codeEncode(q, msg) == rmEncode(q, rsEncode(q, msg))

RmDecode ==
    /\ DecodeSymbols
    /\ UNCHANGED <<errorPoly, zPoly, errorValues, m, syndromes, elpVars>>

ComputeSyndromes ==
    /\ stage = "computeSyndromes"
    /\ ElpBegin(computeSyndromes(p, tmp))
    /\ Then("computeElp")
    /\ UNCHANGED <<em, tmp, errorPoly, zPoly, errorValues, m>>

ComputeElp ==
    /\ stage = "computeElp"
    /\ ElpStep \/ ElpLast
    /\ Then(IF mu' = 2 * p.delta THEN "computeRoots" ELSE "computeElp")
    /\ UNCHANGED <<em, tmp, errorPoly, zPoly, errorValues, m>>

ComputeRoots ==
    /\ stage = "computeRoots"
    /\ errorPoly' = fftRetrieveErrorPoly(fft(p, sigma, p.delta + 1))
    /\ Then("computeZPoly")
    /\ UNCHANGED <<p, em, tmp, zPoly, errorValues, m, syndromes, elpVars>>

ComputeZPoly ==
    /\ stage = "computeZPoly"
    /\ zPoly' = computeZPoly(p, sigma, degSigma, syndromes)
    /\ Then("computeErrorValues")
    /\ UNCHANGED <<p, em, tmp, errorPoly, errorValues, m, syndromes, elpVars>>

ComputeErrorValues ==
    /\ stage = "computeErrorValues"
    /\ errorValues' = computeErrorValues(p, zPoly, errorPoly)
    /\ Then("correctErrors")
    /\ UNCHANGED <<p, em, tmp, errorPoly, zPoly, m, syndromes, elpVars>>

CorrectErrors ==
    /\ stage = "correctErrors"
    /\ tmp' = correctErrors(p, tmp, errorValues)
    /\ m' = extracted(p, tmp')
    /\ Then("done")
    /\ UNCHANGED <<p, em, errorPoly, zPoly, errorValues, syndromes, elpVars>>

Next ==
    \/ RmDecode \/ ComputeSyndromes \/ ComputeElp \/ ComputeRoots
    \/ ComputeZPoly \/ ComputeErrorValues \/ CorrectErrors

=============================================================================
