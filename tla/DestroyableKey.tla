--------------------------- MODULE DestroyableKey ---------------------------
(***************************************************************************)
(* What the documentation of DecapsulationKey128, 192 and 256 promises of  *)
(* a key that goroutines share: every method acts at a single point        *)
(* between its invocation and its return, Destroy is final, a destroyed    *)
(* key refuses, and the public key outlives it.                            *)
(***************************************************************************)
CONSTANTS Goroutine, Operation

VARIABLES alive,  \* the key has not been destroyed
          call    \* the state of each goroutine's current call, if any

Init ==
    /\ alive = TRUE
    /\ call = [g \in Goroutine |-> [phase |-> "idle"]]

Invoke(g, o, fits) ==
    /\ call[g] = [phase |-> "idle"]
    /\ call' = [call EXCEPT ![g] = [phase |-> "called", op |-> o, fits |-> fits]]
    /\ UNCHANGED alive

\* EncapsulationKey() hands out public data: those methods need no decision.
InvokePublic(g, o) ==
    /\ o \in {"Encapsulate", "PublicBytes"}
    /\ call[g] = [phase |-> "idle"]
    /\ call' = [call EXCEPT ![g] =
                   [phase |-> "answered", op |-> o, answer |-> "material"]]
    /\ UNCHANGED alive

\* The answer of a method on the key as it is at this point.
AnswerOf(o, fits) ==
    CASE o = "Destroy"                             -> "done"
      [] o = "Decapsulate" /\ ~alive               -> "ErrDestroyed"
      [] o = "Decapsulate" /\ alive /\ ~fits       -> "ErrInvalidCiphertextSize"
      [] o \in {"Bytes", "Seed"} /\ ~alive         -> "nil"
      [] OTHER                                     -> "material"

Effect(g) ==
    \E o \in Operation, fits \in BOOLEAN :
        /\ call[g] = [phase |-> "called", op |-> o, fits |-> fits]
        /\ call' = [call EXCEPT ![g] =
                       [phase |-> "answered", op |-> o, answer |-> AnswerOf(o, fits)]]
        /\ alive' = (alive /\ o # "Destroy")

Respond(g) ==
    /\ call[g].phase = "answered"
    /\ call' = [call EXCEPT ![g] = [phase |-> "idle"]]
    /\ UNCHANGED alive

Next ==
    \E g \in Goroutine :
        \/ \E o \in Operation, fits \in BOOLEAN : Invoke(g, o, fits)
        \/ \E o \in Operation : InvokePublic(g, o)
        \/ Effect(g)
        \/ Respond(g)

Spec == Init /\ [][Next]_<<alive, call>>

=============================================================================
