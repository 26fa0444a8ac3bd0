------------------------- MODULE KeyLifecycleProofs -------------------------
(***************************************************************************)
(* Safety of the key's life cycle for any set of goroutines, any number of *)
(* calls and any selection of methods.                                     *)
(***************************************************************************)
EXTENDS KeyLifecycle, TLAPS

WriterPC == {"wlock", "wcheck", "zero", "zeroing", "mark", "unlock"}
ReaderPC == {"check", "read", "reading", "runlock"}

\* Where a call can be, given its method.
WellPlaced(g) ==
    /\ op[g] = "Destroy"   => pc[g] \in {"idle", "start", "return"} \cup WriterPC
    /\ op[g] \in Locked    => pc[g] \in {"start", "return"} \cup ReaderPC
    /\ op[g] \in Unlocked  => pc[g] \in {"read", "reading", "return"}
    /\ pc[g] \in {"idle", "start", "check", "wlock", "wcheck"} => pos[g] = 1
    /\ pc[g] \in {"read", "reading"} => pos[g] \in 1..Len(Reads(op[g]))
    /\ ~rightSize[g] => op[g] = "Decapsulate"

\* Who holds the lock, and that a writer past Lock holds it alone.
Locking(g) ==
    /\ g \in writer <=> pc[g] \in WriterPC
    /\ g \in readers \cup parked <=> (op[g] \in Locked /\ pc[g] \in ReaderPC)
    /\ g \in parked => pc[g] = "check" /\ g \notin readers
    /\ pc[g] \in WriterPC \ {"wlock"} => readers = {}

\* How far destroy() has come.
Zeroed(g) ==
    /\ Writing(g) => ~destroyed
    /\ pc[g] \in {"zero", "zeroing"} =>
           \A i \in 1..6 : i < pos[g] => mem[Secrets[i]] = "zero"
    /\ pc[g] = "mark" => \A i \in 1..6 : mem[Secrets[i]] = "zero"
    /\ pc[g] = "unlock" => destroyed
    /\ pc[g] = "return" /\ op[g] = "Destroy" => destroyed

\* What a reader has seen and will answer.
Answered(g) ==
    /\ got[g] \subseteq {"key"}
    /\ ret[g] # "torn"
    /\ pc[g] = "idle" => ret[g] = "none"
    /\ pc[g] \in {"read", "reading"} /\ op[g] \in Locked => ~destroyed
    /\ pc[g] = "return" /\ op[g] \in Unlocked => ret[g] = "material"

\* A call begun after a Destroy returned meets the destroyed key.
History(g) ==
    /\ late[g] => destroyed
    /\ late[g] /\ op[g] \in Locked /\ pc[g] \in {"runlock", "return"} =>
           ret[g] = Refusal(op[g])

Placement == \A g \in Goroutine : WellPlaced(g)
LockInv   == (\A g \in Goroutine : Locking(g)) /\ (\A g, h \in writer : g = h)
BufferInv == mem["ek"] = "key" /\ AllOrNothing /\ (\A g \in Goroutine : Zeroed(g))
AnswerInv == \A g \in Goroutine : Answered(g)
PastInv   == (ended => destroyed) /\ (\A g \in Goroutine : History(g))

IInv == TypeOK /\ Placement /\ LockInv /\ BufferInv /\ AnswerInv /\ PastInv

-----------------------------------------------------------------------------
(* The two tables of buffers.                                              *)

LEMMA ReadsFact ==
    \A o \in AllOperations :
        /\ Len(Reads(o)) \in 1..3
        /\ 1 \in 1..Len(Reads(o))
        /\ \A i \in 1..Len(Reads(o)) :
               Reads(o)[i] \in Buffer /\ (o \in Unlocked => Reads(o)[i] = "ek")
  BY DEF Reads, AllOperations, Locked, Unlocked, Buffer, Secret

LEMMA SecretsFact ==
    /\ Len(Secrets) = 6
    /\ \A i \in 1..6 : Secrets[i] \in Secret
    /\ \A b \in Secret : \E i \in 1..6 : Secrets[i] = b
    /\ \A i, j \in 1..6 : Secrets[i] = Secrets[j] => i = j
    /\ "ek" \notin Secret
  BY DEF Secrets, Secret

(* A goroutine in the middle of a read finds the key: through dk.mu no     *)
(* writer is past Lock, and the public key is never written.               *)
LEMMA ReadsKey ==
    ASSUME IInv, NEW g \in Goroutine, pc[g] \in {"read", "reading"}
    PROVE  mem[Reads(op[g])[pos[g]]] = "key"
  <1> DEFINE b == Reads(op[g])[pos[g]]
  <1>1. op[g] \in AllOperations
    BY DEF IInv, TypeOK
  <1>2. b \in Buffer /\ (op[g] \in Unlocked => b = "ek")
    BY <1>1, ReadsFact DEF IInv, Placement, WellPlaced
  <1>3. op[g] \in Locked \cup Unlocked
    BY <1>1 DEF AllOperations, IInv, Placement, WellPlaced, WriterPC
  <1>4. CASE op[g] \in Unlocked
    BY <1>2, <1>4 DEF IInv, BufferInv
  <1>5. CASE op[g] \in Locked
    <2>1. g \in readers
      BY <1>5 DEF IInv, LockInv, Locking, ReaderPC
    <2>2. \A k \in Goroutine : ~Writing(k)
      BY <2>1 DEF Writing, IInv, LockInv, Locking, WriterPC
    <2>3. ~destroyed
      BY <1>5 DEF IInv, AnswerInv, Answered
    <2>4. \A c \in Secret : mem[c] = "key"
      BY <2>2, <2>3 DEF IInv, BufferInv, AllOrNothing
    <2> QED
      BY <1>2, <2>4 DEF Buffer, IInv, BufferInv
  <1> QED
    BY <1>3, <1>4, <1>5

-----------------------------------------------------------------------------
(* Each part of the invariant is preserved by every step.                  *)

(* A method's result is one it documents.                                  *)
LEMMA ResultStep ==
    IInv /\ [Next]_vars => ResultOK'
  <1> SUFFICES ASSUME IInv, [Next]_vars PROVE ResultOK'
    OBVIOUS
  <1> USE DEF ResultOK, Goto, Results, Locked, Unlocked
  <1>0. CASE UNCHANGED vars
    BY <1>0 DEF vars, callVars, IInv, TypeOK
  <1>1. ASSUME NEW g \in Goroutine, NEW o \in Operation, NEW fits \in BOOLEAN,
               Call(g, o, fits)
        PROVE  ResultOK'
    <2>1. ret[g] = "none" /\ ret' = ret /\ op' = [op EXCEPT ![g] = o]
      BY <1>1 DEF Call, IInv, AnswerInv, Answered
    <2> QED
      BY <2>1 DEF IInv, TypeOK
  <1>2. ASSUME NEW g \in Goroutine, CheckDestroyed(g) PROVE ResultOK'
    <2>1. op[g] \in Locked /\ ret' = [ret EXCEPT ![g] = Refusal(op[g])] /\ op' = op
      BY <1>2 DEF CheckDestroyed, IInv, TypeOK, Placement, WellPlaced, WriterPC, AllOperations
    <2> QED
      BY <2>1 DEF Refusal, IInv, TypeOK
  <1>3. ASSUME NEW g \in Goroutine, CheckLength(g) PROVE ResultOK'
    <2>1. /\ op[g] = "Decapsulate" /\ op' = op
          /\ ret' = [ret EXCEPT ![g] = "ErrInvalidCiphertextSize"]
      BY <1>3 DEF CheckLength, IInv, Placement, WellPlaced
    <2> QED
      BY <2>1 DEF IInv, TypeOK
  <1>4. ASSUME NEW g \in Goroutine, EndRead(g) PROVE ResultOK'
    <2>1. op[g] \in Locked \cup Unlocked /\ op' = op
      BY <1>4 DEF EndRead, IInv, TypeOK, Placement, WellPlaced, WriterPC, AllOperations
    <2>2. \E r \in {ret[g], "material", "torn"} : ret' = [ret EXCEPT ![g] = r]
      BY <1>4 DEF EndRead
    <2> QED
      BY <2>1, <2>2 DEF IInv, TypeOK
  <1>5. ASSUME NEW g \in Goroutine, WriteUnlock(g) PROVE ResultOK'
    <2>1. op[g] = "Destroy" /\ op' = op /\ ret' = [ret EXCEPT ![g] = "done"]
      BY <1>5 DEF WriteUnlock, IInv, TypeOK, Placement, WellPlaced, ReaderPC, AllOperations
    <2> QED
      BY <2>1 DEF IInv, TypeOK
  <1>6. ASSUME NEW g \in Goroutine, Return(g) PROVE ResultOK'
    <2>1. op' = [op EXCEPT ![g] = "Destroy"] /\ ret' = [ret EXCEPT ![g] = "none"]
      BY <1>6 DEF Return
    <2> QED
      BY <2>1 DEF IInv, TypeOK
  <1>7. ASSUME NEW g \in Goroutine,
               \/ ReadLock(g) \/ CheckPassed(g) \/ BeginRead(g) \/ ReadUnlock(g)
               \/ WriteLock(g) \/ WriteEnter(g) \/ WriteCheck(g)
               \/ BeginZero(g) \/ EndZero(g) \/ Mark(g)
        PROVE  ResultOK'
    <2>1. ret' = ret /\ op' = op
      BY <1>7 DEF ReadLock, CheckPassed, BeginRead, ReadUnlock, WriteLock, WriteEnter,
                 WriteCheck, BeginZero, EndZero, Mark
    <2> QED
      BY <2>1 DEF IInv, TypeOK
  <1> QED
    BY <1>0, <1>1, <1>2, <1>3, <1>4, <1>5, <1>6, <1>7 DEF Next, Body

LEMMA TypeStep ==
    IInv /\ [Next]_vars => TypeOK'
  <1> SUFFICES ASSUME IInv, [Next]_vars, ResultOK' PROVE TypeOK'
    BY ResultStep
  <1> USE DEF IInv, TypeOK, MutexTypeOK, keyVars, history, Goto, PC, Result, Content
  <1>0. CASE UNCHANGED vars
    BY <1>0 DEF vars, mutexVars, callVars
  <1>1. ASSUME NEW g \in Goroutine, NEW o \in Operation, NEW fits \in BOOLEAN,
               Call(g, o, fits)
        PROVE  TypeOK'
    BY <1>1, OperationAssumption DEF Call, mutexVars, AllOperations
  <1>2. ASSUME NEW g \in Goroutine, ReadLock(g) PROVE TypeOK'
    BY <1>2 DEF ReadLock, mutexVars, RLock
  <1>3. ASSUME NEW g \in Goroutine, CheckDestroyed(g) PROVE TypeOK'
    BY <1>3 DEF CheckDestroyed, mutexVars, Refusal
  <1>4. ASSUME NEW g \in Goroutine, CheckLength(g) PROVE TypeOK'
    BY <1>4 DEF CheckLength, mutexVars
  <1>5. ASSUME NEW g \in Goroutine, CheckPassed(g) PROVE TypeOK'
    BY <1>5 DEF CheckPassed, mutexVars
  <1>6. ASSUME NEW g \in Goroutine, BeginRead(g) PROVE TypeOK'
    BY <1>6, ReadsFact DEF BeginRead, mutexVars, Placement, WellPlaced, Buffer
  <1>7. ASSUME NEW g \in Goroutine, EndRead(g) PROVE TypeOK'
    <2>1. mem[Reads(op[g])[pos[g]]] \in Content
      BY <1>7, ReadsFact DEF EndRead, Placement, WellPlaced
    <2>2. Len(Reads(op[g])) \in 1..3 /\ pos[g] \in 1..Len(Reads(op[g]))
      BY <1>7, ReadsFact DEF EndRead, Placement, WellPlaced
    <2>3. pos' \in [Goroutine -> 1..6]
      <3> DEFINE n == Len(Reads(op[g]))
      <3>1. n \in 1..3 /\ pos[g] \in 1..n
        BY <2>2
      <3>2. pos[g] # n => pos[g] + 1 \in 1..6
        <4> HIDE DEF n
        <4> QED
          BY <3>1
      <3>3. pos' = [pos EXCEPT ![g] = IF pos[g] = n THEN pos[g] ELSE pos[g] + 1]
        BY <1>7 DEF EndRead
      <3> HIDE DEF n
      <3> QED
        BY <3>2, <3>3
    <2>4. got' \in [Goroutine -> SUBSET Content]
      BY <1>7, <2>1 DEF EndRead
    <2> QED
      BY <1>7, <2>3, <2>4 DEF EndRead, mutexVars
  <1>8. ASSUME NEW g \in Goroutine, ReadUnlock(g) PROVE TypeOK'
    BY <1>8 DEF ReadUnlock, mutexVars, RUnlock
  <1>9. ASSUME NEW g \in Goroutine, WriteLock(g) PROVE TypeOK'
    BY <1>9 DEF WriteLock, mutexVars, Announce
  <1>10. ASSUME NEW g \in Goroutine, WriteEnter(g) PROVE TypeOK'
    BY <1>10 DEF WriteEnter, mutexVars, Drained
  <1>11. ASSUME NEW g \in Goroutine, WriteCheck(g) PROVE TypeOK'
    BY <1>11 DEF WriteCheck, mutexVars
  <1>12. ASSUME NEW g \in Goroutine, BeginZero(g) PROVE TypeOK'
    BY <1>12, SecretsFact DEF BeginZero, mutexVars, Buffer, Secret
  <1>13. ASSUME NEW g \in Goroutine, EndZero(g) PROVE TypeOK'
    BY <1>13, SecretsFact DEF EndZero, mutexVars, Buffer, Secret
  <1>14. ASSUME NEW g \in Goroutine, Mark(g) PROVE TypeOK'
    BY <1>14 DEF Mark, mutexVars
  <1>15. ASSUME NEW g \in Goroutine, WriteUnlock(g) PROVE TypeOK'
    BY <1>15 DEF WriteUnlock, mutexVars, Unlock
  <1>16. ASSUME NEW g \in Goroutine, Return(g) PROVE TypeOK'
    BY <1>16 DEF Return, mutexVars, AllOperations
  <1> QED
    BY <1>0, <1>1, <1>2, <1>3, <1>4, <1>5, <1>6, <1>7, <1>8, <1>9, <1>10, <1>11,
       <1>12, <1>13, <1>14, <1>15, <1>16
       DEF Next, Body

LEMMA PlacementStep ==
    IInv /\ [Next]_vars => Placement'
  <1> SUFFICES ASSUME IInv, [Next]_vars PROVE Placement'
    OBVIOUS
  <1> USE DEF IInv, TypeOK, MutexTypeOK, keyVars, history, Goto,
             Placement, WellPlaced, LockInv, Locking, WriterPC, ReaderPC, Locked, Unlocked
  <1>0. CASE UNCHANGED vars
    BY <1>0 DEF vars, mutexVars, callVars
  <1>1. ASSUME NEW g \in Goroutine, NEW o \in Operation, NEW fits \in BOOLEAN,
               Call(g, o, fits)
        PROVE  Placement'
    <2>1. o \in AllOperations /\ 1 \in 1..Len(Reads(o))
      BY OperationAssumption, ReadsFact
    <2>2. op' = [op EXCEPT ![g] = o] /\ pos[g] = 1 /\ pos' = pos
      BY <1>1 DEF Call
    <2>3. /\ op'[g] = o /\ pc'[g] = IF o \in Unlocked THEN "read" ELSE "start"
          /\ ~rightSize'[g] => o = "Decapsulate"
      BY <1>1 DEF Call
    <2>4. WellPlaced(g)'
      <3>1. pos'[g] = 1 /\ 1 \in 1..Len(Reads(op'[g]))
        BY <2>1, <2>2, <2>3
      <3> QED
        BY <3>1, <2>1, <2>3 DEF AllOperations
    <2>5. \A k \in Goroutine \ {g} : WellPlaced(k)'
      BY <1>1 DEF Call
    <2> QED
      BY <2>4, <2>5
  <1>2. ASSUME NEW g \in Goroutine, ReadLock(g) PROVE Placement'
    BY <1>2 DEF ReadLock, mutexVars, RLock
  <1>3. ASSUME NEW g \in Goroutine, CheckDestroyed(g) PROVE Placement'
    BY <1>3 DEF CheckDestroyed, mutexVars
  <1>4. ASSUME NEW g \in Goroutine, CheckLength(g) PROVE Placement'
    BY <1>4 DEF CheckLength, mutexVars
  <1>5. ASSUME NEW g \in Goroutine, CheckPassed(g) PROVE Placement'
    <2>1. op[g] \in AllOperations
      OBVIOUS
    <2>2. 1 \in 1..Len(Reads(op[g]))
      BY <2>1, ReadsFact
    <2>3. op' = op /\ pos' = pos /\ pos[g] = 1 /\ rightSize' = rightSize
      BY <1>5 DEF CheckPassed
    <2>4. pc[g] = "check" /\ pc' = [pc EXCEPT ![g] = "read"]
      BY <1>5 DEF CheckPassed
    <2> QED
      BY <2>2, <2>3, <2>4
  <1>6. ASSUME NEW g \in Goroutine, BeginRead(g) PROVE Placement'
    BY <1>6, ReadsFact DEF BeginRead, mutexVars
  <1>7. ASSUME NEW g \in Goroutine, EndRead(g) PROVE Placement'
    BY <1>7, ReadsFact DEF EndRead, mutexVars
  <1>8. ASSUME NEW g \in Goroutine, ReadUnlock(g) PROVE Placement'
    BY <1>8 DEF ReadUnlock, mutexVars, RUnlock
  <1>9. ASSUME NEW g \in Goroutine, WriteLock(g) PROVE Placement'
    BY <1>9 DEF WriteLock, mutexVars, Announce
  <1>10. ASSUME NEW g \in Goroutine, WriteEnter(g) PROVE Placement'
    BY <1>10 DEF WriteEnter, mutexVars, Drained
  <1>11. ASSUME NEW g \in Goroutine, WriteCheck(g) PROVE Placement'
    BY <1>11 DEF WriteCheck, mutexVars
  <1>12. ASSUME NEW g \in Goroutine, BeginZero(g) PROVE Placement'
    BY <1>12 DEF BeginZero, mutexVars
  <1>13. ASSUME NEW g \in Goroutine, EndZero(g) PROVE Placement'
    BY <1>13 DEF EndZero, mutexVars
  <1>14. ASSUME NEW g \in Goroutine, Mark(g) PROVE Placement'
    BY <1>14 DEF Mark, mutexVars
  <1>15. ASSUME NEW g \in Goroutine, WriteUnlock(g) PROVE Placement'
    BY <1>15 DEF WriteUnlock, mutexVars, Unlock
  <1>16. ASSUME NEW g \in Goroutine, Return(g) PROVE Placement'
    BY <1>16 DEF Return, mutexVars
  <1> QED
    BY <1>0, <1>1, <1>2, <1>3, <1>4, <1>5, <1>6, <1>7, <1>8, <1>9, <1>10, <1>11,
       <1>12, <1>13, <1>14, <1>15, <1>16
       DEF Next, Body

LEMMA LockStep ==
    IInv /\ [Next]_vars => LockInv'
  <1> SUFFICES ASSUME IInv, [Next]_vars PROVE LockInv'
    OBVIOUS
  <1> USE DEF IInv, TypeOK, MutexTypeOK, keyVars, history, Goto,
             Placement, WellPlaced, LockInv, Locking, WriterPC, ReaderPC, Locked, Unlocked
  <1>0. CASE UNCHANGED vars
    BY <1>0 DEF vars, mutexVars, callVars
  <1>1. ASSUME NEW g \in Goroutine, NEW o \in Operation, NEW fits \in BOOLEAN,
               Call(g, o, fits)
        PROVE  LockInv'
    BY <1>1, OperationAssumption DEF Call, mutexVars, AllOperations
  <1>2. ASSUME NEW g \in Goroutine, ReadLock(g) PROVE LockInv'
    BY <1>2 DEF ReadLock, mutexVars, RLock
  <1>3. ASSUME NEW g \in Goroutine, CheckDestroyed(g) PROVE LockInv'
    BY <1>3 DEF CheckDestroyed, mutexVars
  <1>4. ASSUME NEW g \in Goroutine, CheckLength(g) PROVE LockInv'
    BY <1>4 DEF CheckLength, mutexVars
  <1>5. ASSUME NEW g \in Goroutine, CheckPassed(g) PROVE LockInv'
    BY <1>5 DEF CheckPassed, mutexVars
  <1>6. ASSUME NEW g \in Goroutine, BeginRead(g) PROVE LockInv'
    BY <1>6 DEF BeginRead, mutexVars
  <1>7. ASSUME NEW g \in Goroutine, EndRead(g) PROVE LockInv'
    BY <1>7 DEF EndRead, mutexVars
  <1>8. ASSUME NEW g \in Goroutine, ReadUnlock(g) PROVE LockInv'
    BY <1>8 DEF ReadUnlock, mutexVars, RUnlock
  <1>9. ASSUME NEW g \in Goroutine, WriteLock(g) PROVE LockInv'
    BY <1>9 DEF WriteLock, mutexVars, Announce
  <1>10. ASSUME NEW g \in Goroutine, WriteEnter(g) PROVE LockInv'
    BY <1>10 DEF WriteEnter, mutexVars, Drained
  <1>11. ASSUME NEW g \in Goroutine, WriteCheck(g) PROVE LockInv'
    BY <1>11 DEF WriteCheck, mutexVars
  <1>12. ASSUME NEW g \in Goroutine, BeginZero(g) PROVE LockInv'
    BY <1>12 DEF BeginZero, mutexVars
  <1>13. ASSUME NEW g \in Goroutine, EndZero(g) PROVE LockInv'
    BY <1>13 DEF EndZero, mutexVars
  <1>14. ASSUME NEW g \in Goroutine, Mark(g) PROVE LockInv'
    BY <1>14 DEF Mark, mutexVars
  <1>15. ASSUME NEW g \in Goroutine, WriteUnlock(g) PROVE LockInv'
    BY <1>15 DEF WriteUnlock, mutexVars, Unlock
  <1>16. ASSUME NEW g \in Goroutine, Return(g) PROVE LockInv'
    BY <1>16 DEF Return, mutexVars
  <1> QED
    BY <1>0, <1>1, <1>2, <1>3, <1>4, <1>5, <1>6, <1>7, <1>8, <1>9, <1>10, <1>11,
       <1>12, <1>13, <1>14, <1>15, <1>16
       DEF Next, Body

LEMMA BufferStep ==
    IInv /\ [Next]_vars => BufferInv'
  <1> SUFFICES ASSUME IInv, [Next]_vars PROVE BufferInv'
    OBVIOUS
  <1> USE DEF IInv, TypeOK, MutexTypeOK, keyVars, history, Goto,
             Placement, WellPlaced, LockInv, Locking, BufferInv, Zeroed, AllOrNothing, Writing,
             WriterPC, ReaderPC, Locked, Unlocked, Buffer
  <1>0. CASE UNCHANGED vars
    BY <1>0 DEF vars, mutexVars, callVars
  <1>1. ASSUME NEW g \in Goroutine, NEW o \in Operation, NEW fits \in BOOLEAN,
               Call(g, o, fits)
        PROVE  BufferInv'
    BY <1>1, OperationAssumption DEF Call, mutexVars, AllOperations
  <1>2. ASSUME NEW g \in Goroutine, ReadLock(g) PROVE BufferInv'
    BY <1>2 DEF ReadLock, mutexVars, RLock
  <1>3. ASSUME NEW g \in Goroutine, CheckDestroyed(g) PROVE BufferInv'
    BY <1>3 DEF CheckDestroyed, mutexVars
  <1>4. ASSUME NEW g \in Goroutine, CheckLength(g) PROVE BufferInv'
    BY <1>4 DEF CheckLength, mutexVars
  <1>5. ASSUME NEW g \in Goroutine, CheckPassed(g) PROVE BufferInv'
    BY <1>5 DEF CheckPassed, mutexVars
  <1>6. ASSUME NEW g \in Goroutine, BeginRead(g) PROVE BufferInv'
    BY <1>6 DEF BeginRead, mutexVars
  <1>7. ASSUME NEW g \in Goroutine, EndRead(g) PROVE BufferInv'
    BY <1>7 DEF EndRead, mutexVars
  <1>8. ASSUME NEW g \in Goroutine, ReadUnlock(g) PROVE BufferInv'
    BY <1>8 DEF ReadUnlock, mutexVars, RUnlock
  <1>9. ASSUME NEW g \in Goroutine, WriteLock(g) PROVE BufferInv'
    BY <1>9 DEF WriteLock, mutexVars, Announce
  <1>10. ASSUME NEW g \in Goroutine, WriteEnter(g) PROVE BufferInv'
    BY <1>10 DEF WriteEnter, mutexVars, Drained
  <1>11. ASSUME NEW g \in Goroutine, WriteCheck(g) PROVE BufferInv'
    BY <1>11 DEF WriteCheck, mutexVars
  <1>12. ASSUME NEW g \in Goroutine, BeginZero(g) PROVE BufferInv'
    BY <1>12, SecretsFact DEF BeginZero, mutexVars
  <1>13. ASSUME NEW g \in Goroutine, EndZero(g) PROVE BufferInv'
    BY <1>13, SecretsFact DEF EndZero, mutexVars
  <1>14. ASSUME NEW g \in Goroutine, Mark(g) PROVE BufferInv'
    BY <1>14, SecretsFact, SMTT(30) DEF Mark, mutexVars
  <1>15. ASSUME NEW g \in Goroutine, WriteUnlock(g) PROVE BufferInv'
    BY <1>15 DEF WriteUnlock, mutexVars, Unlock
  <1>16. ASSUME NEW g \in Goroutine, Return(g) PROVE BufferInv'
    BY <1>16 DEF Return, mutexVars
  <1> QED
    BY <1>0, <1>1, <1>2, <1>3, <1>4, <1>5, <1>6, <1>7, <1>8, <1>9, <1>10, <1>11,
       <1>12, <1>13, <1>14, <1>15, <1>16
       DEF Next, Body

LEMMA AnswerStep ==
    IInv /\ [Next]_vars => AnswerInv'
  <1> SUFFICES ASSUME IInv, [Next]_vars PROVE AnswerInv'
    OBVIOUS
  <1> USE DEF IInv, TypeOK, MutexTypeOK, keyVars, history, Goto,
             Placement, WellPlaced, AnswerInv, Answered, LockInv, Locking,
             Writing, WriterPC, ReaderPC, Locked, Unlocked
  <1>0. CASE UNCHANGED vars
    BY <1>0 DEF vars, mutexVars, callVars
  <1>1. ASSUME NEW g \in Goroutine, NEW o \in Operation, NEW fits \in BOOLEAN,
               Call(g, o, fits)
        PROVE  AnswerInv'
    BY <1>1, OperationAssumption DEF Call, mutexVars, AllOperations
  <1>2. ASSUME NEW g \in Goroutine, ReadLock(g) PROVE AnswerInv'
    BY <1>2 DEF ReadLock, mutexVars, RLock
  <1>3. ASSUME NEW g \in Goroutine, CheckDestroyed(g) PROVE AnswerInv'
    BY <1>3 DEF CheckDestroyed, mutexVars, Refusal
  <1>4. ASSUME NEW g \in Goroutine, CheckLength(g) PROVE AnswerInv'
    BY <1>4 DEF CheckLength, mutexVars
  <1>5. ASSUME NEW g \in Goroutine, CheckPassed(g) PROVE AnswerInv'
    BY <1>5 DEF CheckPassed, mutexVars
  <1>6. ASSUME NEW g \in Goroutine, BeginRead(g) PROVE AnswerInv'
    BY <1>6, ReadsKey DEF BeginRead, mutexVars
  <1>7. ASSUME NEW g \in Goroutine, EndRead(g) PROVE AnswerInv'
    BY <1>7, ReadsKey DEF EndRead, mutexVars
  <1>8. ASSUME NEW g \in Goroutine, ReadUnlock(g) PROVE AnswerInv'
    BY <1>8 DEF ReadUnlock, mutexVars, RUnlock
  <1>9. ASSUME NEW g \in Goroutine, WriteLock(g) PROVE AnswerInv'
    BY <1>9 DEF WriteLock, mutexVars, Announce
  <1>10. ASSUME NEW g \in Goroutine, WriteEnter(g) PROVE AnswerInv'
    BY <1>10 DEF WriteEnter, mutexVars, Drained
  <1>11. ASSUME NEW g \in Goroutine, WriteCheck(g) PROVE AnswerInv'
    BY <1>11 DEF WriteCheck, mutexVars
  <1>12. ASSUME NEW g \in Goroutine, BeginZero(g) PROVE AnswerInv'
    BY <1>12 DEF BeginZero, mutexVars
  <1>13. ASSUME NEW g \in Goroutine, EndZero(g) PROVE AnswerInv'
    BY <1>13 DEF EndZero, mutexVars
  <1>14. ASSUME NEW g \in Goroutine, Mark(g) PROVE AnswerInv'
    BY <1>14 DEF Mark, mutexVars
  <1>15. ASSUME NEW g \in Goroutine, WriteUnlock(g) PROVE AnswerInv'
    BY <1>15 DEF WriteUnlock, mutexVars, Unlock
  <1>16. ASSUME NEW g \in Goroutine, Return(g) PROVE AnswerInv'
    BY <1>16 DEF Return, mutexVars
  <1> QED
    BY <1>0, <1>1, <1>2, <1>3, <1>4, <1>5, <1>6, <1>7, <1>8, <1>9, <1>10, <1>11,
       <1>12, <1>13, <1>14, <1>15, <1>16
       DEF Next, Body

LEMMA PastStep ==
    IInv /\ [Next]_vars => PastInv'
  <1> SUFFICES ASSUME IInv, [Next]_vars PROVE PastInv'
    OBVIOUS
  <1> USE DEF IInv, TypeOK, MutexTypeOK, keyVars, history, Goto,
             Placement, WellPlaced, LockInv, Locking, BufferInv, Zeroed, PastInv, History, AnswerInv, Answered,
             WriterPC, ReaderPC, Locked, Unlocked
  <1>0. CASE UNCHANGED vars
    BY <1>0 DEF vars, mutexVars, callVars
  <1>1. ASSUME NEW g \in Goroutine, NEW o \in Operation, NEW fits \in BOOLEAN,
               Call(g, o, fits)
        PROVE  PastInv'
    BY <1>1, OperationAssumption DEF Call, mutexVars, AllOperations
  <1>2. ASSUME NEW g \in Goroutine, ReadLock(g) PROVE PastInv'
    BY <1>2 DEF ReadLock, mutexVars, RLock
  <1>3. ASSUME NEW g \in Goroutine, CheckDestroyed(g) PROVE PastInv'
    BY <1>3 DEF CheckDestroyed, mutexVars
  <1>4. ASSUME NEW g \in Goroutine, CheckLength(g) PROVE PastInv'
    BY <1>4 DEF CheckLength, mutexVars
  <1>5. ASSUME NEW g \in Goroutine, CheckPassed(g) PROVE PastInv'
    BY <1>5 DEF CheckPassed, mutexVars
  <1>6. ASSUME NEW g \in Goroutine, BeginRead(g) PROVE PastInv'
    BY <1>6 DEF BeginRead, mutexVars
  <1>7. ASSUME NEW g \in Goroutine, EndRead(g) PROVE PastInv'
    BY <1>7 DEF EndRead, mutexVars
  <1>8. ASSUME NEW g \in Goroutine, ReadUnlock(g) PROVE PastInv'
    BY <1>8 DEF ReadUnlock, mutexVars, RUnlock
  <1>9. ASSUME NEW g \in Goroutine, WriteLock(g) PROVE PastInv'
    BY <1>9 DEF WriteLock, mutexVars, Announce
  <1>10. ASSUME NEW g \in Goroutine, WriteEnter(g) PROVE PastInv'
    BY <1>10 DEF WriteEnter, mutexVars, Drained
  <1>11. ASSUME NEW g \in Goroutine, WriteCheck(g) PROVE PastInv'
    BY <1>11 DEF WriteCheck, mutexVars
  <1>12. ASSUME NEW g \in Goroutine, BeginZero(g) PROVE PastInv'
    BY <1>12 DEF BeginZero, mutexVars
  <1>13. ASSUME NEW g \in Goroutine, EndZero(g) PROVE PastInv'
    BY <1>13 DEF EndZero, mutexVars
  <1>14. ASSUME NEW g \in Goroutine, Mark(g) PROVE PastInv'
    BY <1>14 DEF Mark, mutexVars
  <1>15. ASSUME NEW g \in Goroutine, WriteUnlock(g) PROVE PastInv'
    BY <1>15 DEF WriteUnlock, mutexVars, Unlock
  <1>16. ASSUME NEW g \in Goroutine, Return(g) PROVE PastInv'
    BY <1>16 DEF Return, mutexVars
  <1> QED
    BY <1>0, <1>1, <1>2, <1>3, <1>4, <1>5, <1>6, <1>7, <1>8, <1>9, <1>10, <1>11,
       <1>12, <1>13, <1>14, <1>15, <1>16
       DEF Next, Body

-----------------------------------------------------------------------------
LEMMA Initially == Init => IInv
  <1> SUFFICES ASSUME Init PROVE IInv
    OBVIOUS
  <1> USE DEF Init, MutexInit
  <1>1. TypeOK
    <2>1. "idle" \in PC /\ "none" \in Result /\ "key" \in Content /\ "Destroy" \in AllOperations
      BY DEF PC, Result, Content, AllOperations
    <2>2. late \in [Goroutine -> BOOLEAN] /\ rightSize \in [Goroutine -> BOOLEAN]
      BY Zenon
    <2>3. MutexTypeOK /\ destroyed \in BOOLEAN /\ ended \in BOOLEAN
      BY DEF MutexTypeOK
    <2>4. /\ mem \in [Buffer -> Content]
          /\ pc \in [Goroutine -> PC]
          /\ op \in [Goroutine -> AllOperations]
          /\ ret \in [Goroutine -> Result]
      BY <2>1
    <2>5. pos \in [Goroutine -> 1..6] /\ got \in [Goroutine -> SUBSET Content]
      OBVIOUS
    <2>6. ResultOK
      BY DEF ResultOK, Results
    <2> QED
      BY <2>2, <2>3, <2>4, <2>5, <2>6 DEF TypeOK
  <1>2. Placement
    BY DEF Placement, WellPlaced, Locked, Unlocked
  <1>3. LockInv
    BY DEF LockInv, Locking, Locked, WriterPC, ReaderPC
  <1>4. BufferInv
    BY DEF BufferInv, AllOrNothing, Zeroed, Writing, Buffer, Secret
  <1>5. AnswerInv /\ PastInv
    BY DEF AnswerInv, Answered, PastInv, History
  <1> QED
    BY <1>1, <1>2, <1>3, <1>4, <1>5 DEF IInv

LEMMA Inductive == IInv /\ [Next]_vars => IInv'
  BY TypeStep, PlacementStep, LockStep, BufferStep, AnswerStep, PastStep DEF IInv

LEMMA Always == Spec => []IInv
  BY Initially, Inductive, PTL DEF Spec

(* Every variable keeps its type, the results of each method and the       *)
(* contents of the buffers included.                                       *)
THEOREM TypeCorrect == Spec => []TypeOK
  <1>1. IInv => TypeOK
    BY DEF IInv
  <1> QED
    BY <1>1, Always, PTL

(* No call ever hands out material read while destroy() was zeroing it.    *)
THEOREM NoTornResultEver == Spec => []NoTornResult
  <1>1. IInv => NoTornResult
    BY DEF IInv, AnswerInv, Answered, NoTornResult
  <1> QED
    BY <1>1, Always, PTL

(* decapsulate, Bytes and Seed never touch the secret buffers while        *)
(* destroy() zeroes them, nor test dk.destroyed while destroy() sets it,   *)
(* and two destroy() calls never test, set or zero together.               *)
THEOREM DataRaceFree == Spec => []NoDataRace
  <1>1. IInv => NoDataRace
    <2> SUFFICES ASSUME IInv, NEW g \in Goroutine, NEW h \in Goroutine, g # h,
                        pc[g] \in {"mark", "zero", "zeroing"}
                 PROVE  ~ReadsFlag(h) /\ ~WritesFlag(h) /\ ~ReadsSecrets(h) /\ ~WritesSecrets(h)
      BY DEF NoDataRace, WritesFlag, WritesSecrets
    <2>1. pc[h] \notin WriterPC
      <3>1. g \in writer
        BY DEF IInv, LockInv, Locking, WriterPC
      <3>2. h \notin writer
        BY <3>1 DEF IInv, LockInv
      <3> QED
        BY <3>2 DEF IInv, LockInv, Locking
    <2>2. h \notin readers
      BY DEF IInv, LockInv, Locking, WriterPC
    <2>3. op[h] \in Locked /\ pc[h] \in ReaderPC => h \in parked /\ pc[h] = "check"
      BY <2>2 DEF IInv, LockInv, Locking
    <2>4. pc[h] = "check" => op[h] \in Locked
      BY DEF IInv, TypeOK, Placement, WellPlaced, WriterPC, AllOperations
    <2> QED
      BY <2>1, <2>3, <2>4
      DEF ReadsFlag, WritesFlag, ReadsSecrets, WritesSecrets, WriterPC, ReaderPC
  <1> QED
    BY <1>1, Always, PTL

(* Once a Destroy has returned, every later Decapsulate, Bytes and Seed is *)
(* refused.                                                                *)
THEOREM DestroyIsFinal == Spec => []RefusedAfterDestroy
  <1>1. IInv => RefusedAfterDestroy
    BY DEF IInv, PastInv, History, RefusedAfterDestroy
  <1> QED
    BY <1>1, Always, PTL

(* The public key answers before, during and after Destroy.                *)
THEOREM PublicKeyOutlives == Spec => []PublicKeySurvives
  <1>1. IInv => PublicKeySurvives
    BY DEF IInv, AnswerInv, Answered, PublicKeySurvives
  <1> QED
    BY <1>1, Always, PTL

(* Seen from outside the writer's critical section the secrets are all     *)
(* intact or all zero, as dk.destroyed says.                               *)
THEOREM ZeroedAllOrNothing == Spec => []AllOrNothing
  <1>1. IInv => AllOrNothing
    BY DEF IInv, BufferInv
  <1> QED
    BY <1>1, Always, PTL

(* A method that has returned holds no part of dk.mu.                      *)
THEOREM LocksAreReturned == Spec => []NoLeakedLock
  <1>1. IInv => NoLeakedLock
    BY DEF IInv, LockInv, Locking, NoLeakedLock, WriterPC, ReaderPC
  <1> QED
    BY <1>1, Always, PTL

-----------------------------------------------------------------------------
(* The refinement: the locked key implements the atomic one.               *)

(* Besides the invariant above, the mapping rests on the method called     *)
(* being one of Operation.                                                 *)
Invoked(g) == pc[g] # "idle" => op[g] \in Operation

InvokedInv == \A g \in Goroutine : Invoked(g)

\* The steps that leave op and rightSize alone, and do not leave idle.
KeepsCall == op' = op /\ rightSize' = rightSize /\ \A k \in Goroutine : pc[k] = "idle" => pc'[k] = "idle"

LEMMA InvokedStep ==
    IInv /\ InvokedInv /\ [Next]_vars => InvokedInv'
  <1> SUFFICES ASSUME IInv, InvokedInv, [Next]_vars PROVE InvokedInv'
    OBVIOUS
  <1> USE DEF InvokedInv, Invoked
  <1>0. CASE UNCHANGED vars
    BY <1>0 DEF vars, callVars
  <1>1. ASSUME NEW g \in Goroutine, NEW o \in Operation, NEW fits \in BOOLEAN,
               Call(g, o, fits)
        PROVE  InvokedInv'
    BY <1>1 DEF Call, Goto, IInv, TypeOK
  <1>2. ASSUME NEW g \in Goroutine, Return(g) PROVE InvokedInv'
    BY <1>2 DEF Return, Goto, IInv, TypeOK
  <1>3. ASSUME NEW g \in Goroutine, Body(g), ~Return(g) PROVE InvokedInv'
    <2>1. KeepsCall
      BY <1>3 DEF Body, KeepsCall, Goto, IInv, TypeOK, ReadLock, CheckDestroyed, CheckLength, CheckPassed,
             BeginRead, EndRead, ReadUnlock, WriteLock, WriteEnter, WriteCheck, BeginZero,
             EndZero, Mark, WriteUnlock, keyVars, history
    <2> QED
      BY <2>1 DEF KeepsCall
  <1> QED
    BY <1>0, <1>1, <1>2, <1>3 DEF Next

-----------------------------------------------------------------------------
(* The abstract call of a goroutine is a function of its own pc, op,       *)
(* rightSize and ret, in each of its three phases.                         *)
LEMMA CallOf ==
    ASSUME NEW g \in Goroutine
    PROVE  /\ Phase(g) = "idle" => abstractCall[g] = [phase |-> "idle"]
           /\ Phase(g) = "called" =>
                  abstractCall[g] = [phase |-> "called", op |-> op[g], fits |-> rightSize[g]]
           /\ Phase(g) = "answered" =>
                  abstractCall[g] = [phase |-> "answered", op |-> op[g], answer |-> Answer(g)]
  BY DEF abstractCall

LEMMA CallOfNext ==
    ASSUME NEW g \in Goroutine
    PROVE  /\ Phase(g)' = "idle" => abstractCall'[g] = [phase |-> "idle"]
           /\ Phase(g)' = "called" =>
                  abstractCall'[g] = [phase |-> "called", op |-> op'[g], fits |-> rightSize'[g]]
           /\ Phase(g)' = "answered" =>
                  abstractCall'[g] = [phase |-> "answered", op |-> op'[g], answer |-> Answer(g)']
  BY DEF abstractCall

(* A step of g changes the abstract call of g at most.                     *)
Own(g) ==
    \A k \in Goroutine \ {g} :
        pc'[k] = pc[k] /\ op'[k] = op[k] /\ rightSize'[k] = rightSize[k] /\ ret'[k] = ret[k]

LEMMA OwnStep ==
    ASSUME NEW g \in Goroutine, Own(g)
    PROVE  abstractCall' = [abstractCall EXCEPT ![g] = abstractCall'[g]]
  <1>1. \A k \in Goroutine \ {g} : abstractCall'[k] = abstractCall[k]
    BY DEF abstractCall, Own, Phase, Answer
  <1>2. /\ abstractCall' = [k \in Goroutine |-> abstractCall'[k]]
        /\ abstractCall = [k \in Goroutine |-> abstractCall[k]]
    BY DEF abstractCall
  <1> HIDE DEF abstractCall
  <1> QED
    BY <1>1, <1>2

LEMMA StepsAreOwn ==
    ASSUME IInv, NEW g \in Goroutine,
           Body(g) \/ \E o \in Operation, fits \in BOOLEAN : Call(g, o, fits)
    PROVE  Own(g)
  BY DEF Own, Body, Call, Goto, IInv, TypeOK, ReadLock, CheckDestroyed, CheckLength, CheckPassed,
         BeginRead, EndRead, ReadUnlock, WriteLock, WriteEnter, WriteCheck, BeginZero,
         EndZero, Mark, WriteUnlock, Return, keyVars, history

-----------------------------------------------------------------------------
(* Every step is a step of the atomic key or leaves its state alone.       *)
AbstractState == <<~destroyed, abstractCall>>
AbstractStep  == Abstract!Next \/ UNCHANGED AbstractState

(* A call that is decided: the test of dk.destroyed under the lock, or the *)
(* write of it, is the point at which the method takes effect.             *)
LEMMA Decided ==
    ASSUME IInv, InvokedInv, NEW g \in Goroutine, Own(g),
           Phase(g) = "called", Phase(g)' = "answered",
           op' = op, destroyed' = (destroyed \/ op[g] = "Destroy"),
           op[g] = "Destroy" => Answer(g)' = "done",
           op[g] = "Decapsulate" /\ destroyed => Answer(g)' = "ErrDestroyed",
           op[g] = "Decapsulate" /\ ~destroyed /\ ~rightSize[g] =>
               Answer(g)' = "ErrInvalidCiphertextSize",
           op[g] = "Decapsulate" /\ ~destroyed /\ rightSize[g] => Answer(g)' = "material",
           op[g] \in {"Bytes", "Seed"} /\ destroyed => Answer(g)' = "nil",
           op[g] \in {"Bytes", "Seed"} /\ ~destroyed => Answer(g)' = "material"
    PROVE  Abstract!Effect(g)
  <1> DEFINE o == op[g]
             fits == rightSize[g]
  <1>1. o \in Operation /\ fits \in BOOLEAN
    BY DEF Phase, InvokedInv, Invoked, IInv, TypeOK
  <1>2. o \in Locked \cup {"Destroy"}
    BY DEF Phase, IInv, TypeOK, Placement, WellPlaced, AllOperations
  <1>3. abstractCall[g] = [phase |-> "called", op |-> o, fits |-> fits]
    BY CallOf
  <1>4. Answer(g)' = Abstract!AnswerOf(o, fits)
    BY <1>1, <1>2 DEF Abstract!AnswerOf, Locked
  <1>5. abstractCall'[g] = [phase |-> "answered", op |-> o, answer |-> Abstract!AnswerOf(o, fits)]
    BY <1>4, CallOfNext
  <1>6. abstractCall' = [abstractCall EXCEPT ![g] =
            [phase |-> "answered", op |-> o, answer |-> Abstract!AnswerOf(o, fits)]]
    BY <1>5, OwnStep
  <1>7. (~destroyed)' = (~destroyed /\ o # "Destroy")
    BY DEF IInv, TypeOK
  <1> HIDE DEF o, fits
  <1> QED
    BY <1>1, <1>3, <1>6, <1>7 DEF Abstract!Effect

(* A step inside a phase, which the atomic key does not see.               *)
LEMMA Unseen ==
    ASSUME NEW g \in Goroutine, Own(g), destroyed' = destroyed,
           Phase(g)' = Phase(g), op' = op, rightSize' = rightSize, Answer(g)' = Answer(g)
    PROVE  UNCHANGED AbstractState
  <1>1. Phase(g) \in {"idle", "called", "answered"}
    BY DEF Phase
  <1>2. abstractCall'[g] = abstractCall[g]
    BY <1>1, CallOf, CallOfNext
  <1>3. abstractCall' = abstractCall
    <2>1. abstractCall = [k \in Goroutine |-> abstractCall[k]]
      BY DEF abstractCall
    <2> QED
      BY <1>2, <2>1, OwnStep
  <1> QED
    BY <1>3 DEF AbstractState

LEMMA CallMaps ==
    ASSUME IInv, NEW g \in Goroutine, NEW o \in Operation, NEW fits \in BOOLEAN,
           Call(g, o, fits)
    PROVE  Abstract!Next
  <1>1. Own(g)
    BY StepsAreOwn
  <1>2. /\ pc[g] = "idle" /\ pc'[g] = IF o \in Unlocked THEN "read" ELSE "start"
        /\ op'[g] = o /\ rightSize'[g] = fits /\ UNCHANGED destroyed
    BY DEF Call, Goto, keyVars, IInv, TypeOK
  <1>3. abstractCall[g] = [phase |-> "idle"]
    BY <1>2, CallOf DEF Phase
  <1>4. CASE o \in Unlocked
    <2>1. abstractCall'[g] = [phase |-> "answered", op |-> o, answer |-> "material"]
      BY <1>2, <1>4, CallOfNext DEF Phase, Answer
    <2>2. Abstract!InvokePublic(g, o)
      BY <1>1, <1>2, <1>3, <1>4, <2>1, OwnStep DEF Abstract!InvokePublic, Unlocked
    <2> QED
      BY <2>2 DEF Abstract!Next
  <1>5. CASE o \notin Unlocked
    <2>1. abstractCall'[g] = [phase |-> "called", op |-> o, fits |-> fits]
      BY <1>2, <1>5, CallOfNext DEF Phase
    <2>2. Abstract!Invoke(g, o, fits)
      BY <1>1, <1>2, <1>3, <2>1, OwnStep DEF Abstract!Invoke
    <2> QED
      BY <2>2 DEF Abstract!Next
  <1> QED
    BY <1>4, <1>5

(* Each test of dk.destroyed decides, unless it lets destroy() go on; and  *)
(* so does its write.                                                      *)
LEMMA DecisionMaps ==
    ASSUME IInv, InvokedInv, NEW g \in Goroutine,
           \/ CheckDestroyed(g) \/ CheckLength(g) \/ CheckPassed(g)
           \/ (WriteCheck(g) /\ destroyed) \/ Mark(g)
    PROVE  Abstract!Effect(g)
  <1> USE DEF Goto, Phase, Answer, IInv, TypeOK, Placement, WellPlaced, InvokedInv, Invoked,
              Locked, Unlocked, AllOperations, WriterPC, ReaderPC, keyVars
  <1>0. Own(g)
    BY StepsAreOwn DEF Body
  <1>1. CASE CheckDestroyed(g)
    BY <1>0, <1>1, Decided DEF CheckDestroyed, Refusal
  <1>2. CASE CheckLength(g)
    BY <1>0, <1>2, Decided DEF CheckLength
  <1>3. CASE CheckPassed(g)
    BY <1>0, <1>3, Decided DEF CheckPassed
  <1>4. CASE WriteCheck(g) /\ destroyed
    BY <1>0, <1>4, Decided DEF WriteCheck
  <1>5. CASE Mark(g)
    BY <1>0, <1>5, Decided, ZenonT(30) DEF Mark
  <1> QED
    BY <1>1, <1>2, <1>3, <1>4, <1>5

LEMMA ReturnMaps ==
    ASSUME IInv, NEW g \in Goroutine, Return(g)
    PROVE  Abstract!Respond(g)
  <1>1. Own(g)
    BY StepsAreOwn DEF Body
  <1>2. pc[g] = "return" /\ pc'[g] = "idle" /\ UNCHANGED destroyed
    BY DEF Return, Goto, keyVars, IInv, TypeOK
  <1>3. Phase(g) = "answered" /\ Phase(g)' = "idle"
    BY <1>2 DEF Phase
  <1>4. abstractCall[g] = [phase |-> "answered", op |-> op[g], answer |-> Answer(g)]
    BY <1>3, CallOf
  <1>5. abstractCall[g].phase = "answered"
    BY <1>4
  <1>6. abstractCall'[g] = [phase |-> "idle"]
    BY <1>3, CallOfNext
  <1> QED
    BY <1>1, <1>2, <1>5, <1>6, OwnStep DEF Abstract!Respond

(* Locking, unlocking, reading and zeroing happen inside a phase; what a   *)
(* reader has read is what its answer was settled to be (ReadsKey).        *)
LEMMA OthersUnseen ==
    ASSUME IInv, NEW g \in Goroutine,
           \/ ReadLock(g) \/ BeginRead(g) \/ EndRead(g) \/ ReadUnlock(g)
           \/ WriteLock(g) \/ WriteEnter(g) \/ (WriteCheck(g) /\ ~destroyed)
           \/ BeginZero(g) \/ EndZero(g) \/ WriteUnlock(g)
    PROVE  UNCHANGED AbstractState
  <1> USE DEF Goto, Phase, Answer, IInv, TypeOK, Placement, WellPlaced,
              Locked, Unlocked, AllOperations, WriterPC, ReaderPC, keyVars
  <1>0. Own(g)
    BY StepsAreOwn DEF Body
  <1>1. CASE ReadLock(g)
    BY <1>0, <1>1, Unseen DEF ReadLock
  <1>2. CASE BeginRead(g)
    BY <1>0, <1>2, Unseen DEF BeginRead
  <1>3. CASE EndRead(g)
    <2>1. got[g] \cup {mem[Reads(op[g])[pos[g]]]} = {"key"}
      BY <1>3, ReadsKey DEF EndRead, AnswerInv, Answered
    <2>2. \/ pc'[g] = "read"
          \/ pc'[g] \in {"runlock", "return"} /\ ret'[g] = "material"
      BY <1>3, <2>1 DEF EndRead
    <2>3. pc[g] = "reading" /\ op[g] # "Destroy" /\ op' = op /\ rightSize' = rightSize /\ destroyed' = destroyed
      BY <1>3 DEF EndRead
    <2> QED
      BY <1>0, <2>2, <2>3, Unseen
  <1>4. CASE ReadUnlock(g)
    BY <1>0, <1>4, Unseen DEF ReadUnlock
  <1>5. CASE WriteLock(g)
    BY <1>0, <1>5, Unseen DEF WriteLock
  <1>6. CASE WriteEnter(g)
    BY <1>0, <1>6, Unseen DEF WriteEnter
  <1>7. CASE WriteCheck(g) /\ ~destroyed
    BY <1>0, <1>7, Unseen DEF WriteCheck
  <1>8. CASE BeginZero(g)
    BY <1>0, <1>8, Unseen DEF BeginZero
  <1>9. CASE EndZero(g)
    BY <1>0, <1>9, Unseen DEF EndZero
  <1>10. CASE WriteUnlock(g)
    BY <1>0, <1>10, Unseen DEF WriteUnlock
  <1> QED
    BY <1>1, <1>2, <1>3, <1>4, <1>5, <1>6, <1>7, <1>8, <1>9, <1>10

LEMMA StepMaps ==
    IInv /\ InvokedInv /\ [Next]_vars => AbstractStep
  <1> SUFFICES ASSUME IInv, InvokedInv, [Next]_vars PROVE AbstractStep
    OBVIOUS
  <1> USE DEF AbstractStep
  <1>1. CASE UNCHANGED vars
    <2>1. UNCHANGED <<pc, op, ret, rightSize, destroyed>>
      BY <1>1 DEF vars, keyVars, callVars
    <2>2. UNCHANGED AbstractState
      BY <2>1 DEF AbstractState, abstractCall, Phase, Answer
    <2> QED
      BY <2>2
  <1>2. CASE \E g \in Goroutine, o \in Operation, fits \in BOOLEAN : Call(g, o, fits)
    BY <1>2, CallMaps
  <1>3. CASE \E g \in Goroutine : Body(g)
    <2>1. PICK g \in Goroutine : Body(g)
      BY <1>3
    <2>2. CASE \/ CheckDestroyed(g) \/ CheckLength(g) \/ CheckPassed(g)
               \/ (WriteCheck(g) /\ destroyed) \/ Mark(g)
      BY <2>2, DecisionMaps DEF Abstract!Next
    <2>3. CASE Return(g)
      BY <2>3, ReturnMaps DEF Abstract!Next
    <2>4. CASE \/ ReadLock(g) \/ BeginRead(g) \/ EndRead(g) \/ ReadUnlock(g)
               \/ WriteLock(g) \/ WriteEnter(g) \/ (WriteCheck(g) /\ ~destroyed)
               \/ BeginZero(g) \/ EndZero(g) \/ WriteUnlock(g)
      BY <2>4, OthersUnseen
    <2> QED
      BY <2>1, <2>2, <2>3, <2>4 DEF Body
  <1> QED
    BY <1>1, <1>2, <1>3 DEF Next

LEMMA InitMaps == Init => Abstract!Init /\ InvokedInv
  <1> SUFFICES ASSUME Init PROVE Abstract!Init /\ InvokedInv
    OBVIOUS
  <1>1. abstractCall = [g \in Goroutine |-> [phase |-> "idle"]]
    BY DEF Init, abstractCall, Phase
  <1>2. InvokedInv
    BY DEF Init, InvokedInv, Invoked
  <1> QED
    BY <1>1, <1>2 DEF Init, Abstract!Init

(* Whatever the interleaving of lock, checks, reads and zeroing, each      *)
(* method of the key acts at one point between its call and its return, on *)
(* a key that is alive or destroyed for good: every behaviour of           *)
(* decapsulate, Bytes, Seed, destroy and the lock-free methods is one of   *)
(* DestroyableKey.                                                         *)
THEOREM KeyIsAtomic == Spec => ImplementsDestroyableKey
  <1>1. Init => Abstract!Init /\ InvokedInv
    BY InitMaps
  <1>2. IInv /\ InvokedInv /\ [Next]_vars => InvokedInv'
    BY InvokedStep
  <1>3. IInv /\ InvokedInv /\ [Next]_vars => [Abstract!Next]_<<~destroyed, abstractCall>>
    BY StepMaps DEF AbstractStep, AbstractState
  <1> QED
    BY <1>1, <1>2, <1>3, Always, PTL DEF Spec, ImplementsDestroyableKey, Abstract!Spec

=============================================================================
