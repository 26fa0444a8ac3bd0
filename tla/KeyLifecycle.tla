---------------------------- MODULE KeyLifecycle ----------------------------
(***************************************************************************)
(* A decapsulation key used by several goroutines while one of them (or    *)
(* several) destroys it: hqc_internal.go decapsulate and destroy, and the  *)
(* methods of hqc128.go, hqc192.go and hqc256.go that read the key.        *)
(*                                                                         *)
(* Buffers are abstracted to what the code can tell apart: they hold the   *)
(* key, zeroes, or (half way through ZeroBytes) a mixture.  Neither a copy *)
(* out of a buffer nor its zeroing is one step, so an unprotected overlap  *)
(* of the two is visible as a "torn" result.                               *)
(***************************************************************************)
EXTENDS RWMutex, Naturals, Sequences

CONSTANT Operation      \* the methods the clients call

Locked   == {"Decapsulate", "Bytes", "Seed"}         \* read under dk.mu
Unlocked == {"Encapsulate", "PublicBytes"}           \* through EncapsulationKey()
AllOperations == Locked \cup Unlocked \cup {"Destroy"}

ASSUME OperationAssumption == Operation \subseteq AllOperations

\* Mutants of Secrets: the public key is zeroed too; one buffer is forgotten.
ZeroesPublicKey == <<"seedDK", "sigma", "seedKem", "x", "y", "ek">>
ForgetsX        == <<"seedDK", "sigma", "seedKem", "y", "sk">>

\* The buffers destroy() zeroes, in its order.
Secrets == <<"seedDK", "sigma", "seedKem", "x", "y", "sk">>
Secret  == {"seedDK", "sigma", "seedKem", "x", "y", "sk"}
Buffer  == Secret \cup {"ek"}
Content == {"key", "torn", "zero"}

\* The buffers a method reads, in its order.
Reads(o) ==
    CASE o = "Decapsulate" -> <<"y", "ek", "sigma">>
      [] o = "Bytes"       -> <<"sk">>
      [] o = "Seed"        -> <<"seedKem">>
      [] OTHER             -> <<"ek">>

\* Mutant of Refusal: Decapsulate on a destroyed key returns nil without an error.
RefusesWithNil(o) == "nil"

Refusal(o) == IF o = "Decapsulate" THEN "ErrDestroyed" ELSE "nil"

Result == {"none", "material", "torn", "done", "nil",
           "ErrDestroyed", "ErrInvalidCiphertextSize"}

\* What a method can hold as its result: a secret or an error, never neither, from
\* Decapsulate; bytes or nil from Bytes and Seed; no refusal from the public key.
Results(o) ==
    CASE o = "Decapsulate" ->
             {"none", "material", "torn", "ErrDestroyed", "ErrInvalidCiphertextSize"}
      [] o \in {"Bytes", "Seed"} -> {"none", "material", "torn", "nil"}
      [] o \in Unlocked          -> {"none", "material", "torn"}
      [] OTHER                   -> {"none", "done"}

PC == {"idle", "start", "check", "read", "reading", "runlock",
       "wlock", "wcheck", "zero", "zeroing", "mark", "unlock", "return"}

VARIABLES mem,        \* the contents of the key's buffers
          destroyed,  \* dk.destroyed
          pc, op, ret,
          rightSize,  \* whether the ciphertext passed to Decapsulate has its length
          pos,        \* the buffer a loop has reached
          got,        \* the contents the call has read so far
          ended,      \* history: some Destroy call has returned
          late        \* history: the call began after that

keyVars  == <<mem, destroyed>>
callVars == <<pc, op, ret, rightSize, pos, got>>
history  == <<ended, late>>
vars     == <<mutexVars, keyVars, callVars, history>>

ResultOK == \A g \in Goroutine : ret[g] \in Results(op[g])

\* Every variable keeps its type: a result is one its method documents, a position
\* is one of a buffer, and a buffer holds the key, zeroes or a mixture.
TypeOK ==
    /\ MutexTypeOK
    /\ mem \in [Buffer -> Content]
    /\ destroyed \in BOOLEAN
    /\ pc \in [Goroutine -> PC]
    /\ op \in [Goroutine -> AllOperations]
    /\ ret \in [Goroutine -> Result]
    /\ ResultOK
    /\ rightSize \in [Goroutine -> BOOLEAN]
    /\ pos \in [Goroutine -> 1..6]
    /\ got \in [Goroutine -> SUBSET Content]
    /\ ended \in BOOLEAN
    /\ late \in [Goroutine -> BOOLEAN]

Init ==
    /\ MutexInit
    /\ mem = [b \in Buffer |-> "key"]
    /\ destroyed = FALSE
    /\ pc = [g \in Goroutine |-> "idle"]
    /\ op = [g \in Goroutine |-> "Destroy"]
    /\ ret = [g \in Goroutine |-> "none"]
    /\ rightSize = [g \in Goroutine |-> TRUE]
    /\ pos = [g \in Goroutine |-> 1]
    /\ got = [g \in Goroutine |-> {}]
    /\ ended = FALSE
    /\ late = [g \in Goroutine |-> FALSE]

Goto(g, here, there) ==
    /\ pc[g] = here
    /\ pc' = [pc EXCEPT ![g] = there]

-----------------------------------------------------------------------------
(* A client calls a method.                                                *)

Call(g, o, fits) ==
    /\ Goto(g, "idle", IF o \in Unlocked THEN "read" ELSE "start")
    /\ o # "Decapsulate" => fits
    /\ op' = [op EXCEPT ![g] = o]
    /\ rightSize' = [rightSize EXCEPT ![g] = fits]
    /\ late' = [late EXCEPT ![g] = ended]
    /\ UNCHANGED <<mutexVars, keyVars, ret, pos, got, ended>>

-----------------------------------------------------------------------------
(* Methods that read the key.                                              *)

\* Mutant of ReadLock: dk.destroyed is tested without the lock.
WithoutRLock(g) ==
    /\ op[g] \in Locked
    /\ Goto(g, "start", "check")
    /\ UNCHANGED <<mutexVars, keyVars, op, ret, rightSize, pos, got, history>>

ReadLock(g) ==
    /\ op[g] \in Locked
    /\ Goto(g, "start", "check")
    /\ RLock(g)
    /\ UNCHANGED <<keyVars, op, ret, rightSize, pos, got, history>>

\* Mutant of CheckDestroyed: the early return forgets RUnlock.
ReturnsLocked(g) ==
    /\ g \notin parked
    /\ destroyed
    /\ Goto(g, "check", "return")
    /\ ret' = [ret EXCEPT ![g] = Refusal(op[g])]
    /\ UNCHANGED <<mutexVars, keyVars, op, rightSize, pos, got, history>>

\* Once RLock has returned, dk.destroyed is tested, before the length of the ciphertext.
CheckDestroyed(g) ==
    /\ g \notin parked
    /\ destroyed
    /\ Goto(g, "check", "runlock")
    /\ ret' = [ret EXCEPT ![g] = Refusal(op[g])]
    /\ UNCHANGED <<mutexVars, keyVars, op, rightSize, pos, got, history>>

\* Mutant of CheckLength: the length is tested before dk.destroyed.
LengthFirst(g) ==
    /\ g \notin parked
    /\ ~rightSize[g]
    /\ Goto(g, "check", "runlock")
    /\ ret' = [ret EXCEPT ![g] = "ErrInvalidCiphertextSize"]
    /\ UNCHANGED <<mutexVars, keyVars, op, rightSize, pos, got, history>>

CheckLength(g) ==
    /\ g \notin parked
    /\ ~destroyed
    /\ ~rightSize[g]
    /\ Goto(g, "check", "runlock")
    /\ ret' = [ret EXCEPT ![g] = "ErrInvalidCiphertextSize"]
    /\ UNCHANGED <<mutexVars, keyVars, op, rightSize, pos, got, history>>

\* Mutants of CheckPassed: dk.destroyed is not tested; the read lock is given
\* back once dk.destroyed has been tested.
NotChecked(g) ==
    /\ g \notin parked
    /\ rightSize[g]
    /\ Goto(g, "check", "read")
    /\ UNCHANGED <<mutexVars, keyVars, op, ret, rightSize, pos, got, history>>

UnlocksTooSoon(g) ==
    /\ g \notin parked
    /\ ~destroyed
    /\ rightSize[g]
    /\ Goto(g, "check", "read")
    /\ RUnlock(g)
    /\ UNCHANGED <<keyVars, op, ret, rightSize, pos, got, history>>

CheckPassed(g) ==
    /\ g \notin parked
    /\ ~destroyed
    /\ rightSize[g]
    /\ Goto(g, "check", "read")
    /\ UNCHANGED <<mutexVars, keyVars, op, ret, rightSize, pos, got, history>>

\* Reading a buffer begins and ends: what it saw is what was there at both.
BeginRead(g) ==
    /\ Goto(g, "read", "reading")
    /\ got' = [got EXCEPT ![g] = @ \cup {mem[Reads(op[g])[pos[g]]]}]
    /\ UNCHANGED <<mutexVars, keyVars, op, ret, rightSize, pos, history>>

EndRead(g) ==
    LET seen == got[g] \cup {mem[Reads(op[g])[pos[g]]]}
        last == pos[g] = Len(Reads(op[g]))
    IN  /\ Goto(g, "reading", IF ~last THEN "read"
                              ELSE IF op[g] \in Locked THEN "runlock" ELSE "return")
        /\ got' = [got EXCEPT ![g] = seen]
        /\ pos' = [pos EXCEPT ![g] = IF last THEN @ ELSE @ + 1]
        /\ ret' = [ret EXCEPT ![g] = IF ~last THEN @
                                     ELSE IF seen = {"key"} THEN "material" ELSE "torn"]
        /\ UNCHANGED <<mutexVars, keyVars, op, rightSize, history>>

ReadUnlock(g) ==
    /\ Goto(g, "runlock", "return")
    /\ RUnlock(g)
    /\ UNCHANGED <<keyVars, op, ret, rightSize, pos, got, history>>

-----------------------------------------------------------------------------
(* Destroy.                                                                *)

WriteLock(g) ==
    /\ op[g] = "Destroy"
    /\ Goto(g, "start", "wlock")
    /\ Announce(g)
    /\ UNCHANGED <<keyVars, op, ret, rightSize, pos, got, history>>

WriteEnter(g) ==
    /\ Drained(g)
    /\ Goto(g, "wlock", "wcheck")
    /\ UNCHANGED <<mutexVars, keyVars, op, ret, rightSize, pos, got, history>>

\* Mutant of WriteCheck: a second Destroy returns without unlocking.
ReturnsWriteLocked(g) ==
    /\ Goto(g, "wcheck", IF destroyed THEN "return" ELSE "zero")
    /\ UNCHANGED <<mutexVars, keyVars, op, ret, rightSize, pos, got, history>>

WriteCheck(g) ==
    /\ Goto(g, "wcheck", IF destroyed THEN "unlock" ELSE "zero")
    /\ UNCHANGED <<mutexVars, keyVars, op, ret, rightSize, pos, got, history>>

BeginZero(g) ==
    /\ Goto(g, "zero", "zeroing")
    /\ mem' = [mem EXCEPT ![Secrets[pos[g]]] = "torn"]
    /\ UNCHANGED <<mutexVars, destroyed, op, ret, rightSize, pos, got, history>>

EndZero(g) ==
    /\ Goto(g, "zeroing", IF pos[g] = Len(Secrets) THEN "mark" ELSE "zero")
    /\ mem' = [mem EXCEPT ![Secrets[pos[g]]] = "zero"]
    /\ pos' = [pos EXCEPT ![g] = IF @ = Len(Secrets) THEN @ ELSE @ + 1]
    /\ UNCHANGED <<mutexVars, destroyed, op, ret, rightSize, got, history>>

Mark(g) ==
    /\ Goto(g, "mark", "unlock")
    /\ destroyed' = TRUE
    /\ UNCHANGED <<mutexVars, mem, op, ret, rightSize, pos, got, history>>

WriteUnlock(g) ==
    /\ Goto(g, "unlock", "return")
    /\ Unlock(g)
    /\ ret' = [ret EXCEPT ![g] = "done"]
    /\ UNCHANGED <<keyVars, op, rightSize, pos, got, history>>

-----------------------------------------------------------------------------
(* The call returns to the client.                                         *)

Return(g) ==
    /\ Goto(g, "return", "idle")
    /\ ended' = (ended \/ op[g] = "Destroy")
    /\ op' = [op EXCEPT ![g] = "Destroy"]
    /\ ret' = [ret EXCEPT ![g] = "none"]
    /\ rightSize' = [rightSize EXCEPT ![g] = TRUE]
    /\ pos' = [pos EXCEPT ![g] = 1]
    /\ got' = [got EXCEPT ![g] = {}]
    /\ late' = [late EXCEPT ![g] = FALSE]
    /\ UNCHANGED <<mutexVars, keyVars>>

\* Everything a call does between its invocation and its return.
Body(g) ==
    \/ ReadLock(g) \/ CheckDestroyed(g) \/ CheckLength(g) \/ CheckPassed(g)
    \/ BeginRead(g) \/ EndRead(g) \/ ReadUnlock(g)
    \/ WriteLock(g) \/ WriteEnter(g) \/ WriteCheck(g)
    \/ BeginZero(g) \/ EndZero(g) \/ Mark(g) \/ WriteUnlock(g)
    \/ Return(g)

Next ==
    \E g \in Goroutine :
        \/ \E o \in Operation, fits \in BOOLEAN : Call(g, o, fits)
        \/ Body(g)

Spec == Init /\ [][Next]_vars

(***************************************************************************)
(* The Go scheduler is preemptive and runs every runnable goroutine, so a  *)
(* step that stays enabled is taken; the inner mutex of sync.RWMutex has a *)
(* starvation mode, so a goroutine that keeps finding it free gets it.     *)
(* Nothing obliges a client to make a call.                                *)
(***************************************************************************)
Fairness ==
    \A g \in Goroutine : WF_vars(Body(g)) /\ SF_vars(WriteLock(g))

FairSpec == Spec /\ Fairness

-----------------------------------------------------------------------------
(* Safety.                                                                 *)

\* A call that hands out key material (the shared secret, the secret key, the
\* seed, the public key) computed it from buffers that held the key throughout:
\* no Decapsulate, Bytes or Seed overlaps the zeroing in destroy().
NoTornResult == \A g \in Goroutine : ret[g] # "torn"

\* A call that begins after some Destroy has returned is refused: Decapsulate
\* with ErrDestroyed (whatever the ciphertext's length), Bytes and Seed with nil.
RefusedAfterDestroy ==
    \A g \in Goroutine :
        (late[g] /\ op[g] \in Locked /\ pc[g] = "return") => ret[g] = Refusal(op[g])

\* The public half survives: Encapsulate and PublicBytes never fail, before,
\* during or after Destroy, though they take no lock.
PublicKeySurvives ==
    \A g \in Goroutine :
        (op[g] \in Unlocked /\ pc[g] = "return") => ret[g] = "material"

\* Outside the writer's critical section the buffers agree with the flag:
\* destroyed means every secret is zero, not destroyed means all are intact.
Writing(g) == pc[g] \in {"zero", "zeroing", "mark"}
AllOrNothing ==
    (\A g \in Goroutine : ~Writing(g)) =>
        \A b \in Secret : mem[b] = IF destroyed THEN "zero" ELSE "key"

\* Who is inside an access to dk.destroyed, and to the secret buffers.
ReadsFlag(g)     == pc[g] = "wcheck" \/ (pc[g] = "check" /\ g \notin parked)
WritesFlag(g)    == pc[g] = "mark"
ReadsSecrets(g)  == op[g] \in Locked /\ pc[g] \in {"read", "reading"}
WritesSecrets(g) == pc[g] \in {"zero", "zeroing"}

\* No goroutine accesses dk.destroyed while another writes it, nor the secret
\* buffers while another zeroes them: the Go memory model would call it a data
\* race.  The tests of the flag, in the methods and in destroy(), are accesses too.
NoDataRace ==
    \A g, h \in Goroutine :
        g # h =>
            /\ WritesFlag(g) => ~ReadsFlag(h) /\ ~WritesFlag(h)
            /\ WritesSecrets(g) => ~ReadsSecrets(h) /\ ~WritesSecrets(h)

\* Every path out of a method gives the lock back, the early return on a
\* destroyed key included: a leaked read lock would block Destroy for ever.
NoLeakedLock ==
    \A g \in Goroutine :
        pc[g] \in {"idle", "return"} => g \notin writer \cup readers \cup parked

-----------------------------------------------------------------------------
(* Liveness.                                                               *)

\* Every call returns, Destroy included, however many readers keep arriving
\* and however many goroutines destroy the key at once.
EveryCallReturns == \A g \in Goroutine : pc[g] # "idle" ~> pc[g] = "idle"

-----------------------------------------------------------------------------
(* Refinement: the locked, multi-step key implements an atomic one.        *)

\* What the call will answer is settled at the test of dk.destroyed under the
\* lock; for Destroy, at the write of dk.destroyed or at the test that finds it
\* set; for the lock-free methods at once.
Answer(g) ==
    IF pc[g] \in {"read", "reading"} THEN "material"
    ELSE IF op[g] = "Destroy" THEN "done"
    ELSE ret[g]

Phase(g) ==
    CASE pc[g] = "idle" -> "idle"
      [] pc[g] \in {"read", "reading", "runlock", "unlock", "return"} -> "answered"
      [] OTHER -> "called"

abstractCall ==
    [g \in Goroutine |->
        IF Phase(g) = "idle" THEN [phase |-> "idle"]
        ELSE IF Phase(g) = "called"
        THEN [phase |-> "called", op |-> op[g], fits |-> rightSize[g]]
        ELSE [phase |-> "answered", op |-> op[g], answer |-> Answer(g)]]

Abstract == INSTANCE DestroyableKey
                WITH alive <- ~destroyed, call <- abstractCall

\* Each method takes effect atomically, at one point between its invocation and
\* its return, on a key that is either alive or destroyed for good.
ImplementsDestroyableKey == Abstract!Spec

=============================================================================
