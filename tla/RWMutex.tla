------------------------------ MODULE RWMutex ------------------------------
(***************************************************************************)
(* Go's sync.RWMutex as hqc_internal.go uses it: dk.mu guards the secret   *)
(* buffers of a decapsulation key.  The mutex is library code outside the  *)
(* repository, modelled here by its documented and implemented behaviour:  *)
(*                                                                         *)
(*  - Lock first becomes the one announced writer, then waits for the      *)
(*    readers that held the lock at that moment;                           *)
(*  - RLock is granted at once while no writer is announced, and parks the *)
(*    caller otherwise (a pending writer blocks new readers);              *)
(*  - Unlock hands the lock to every parked reader before another writer   *)
(*    can announce itself.                                                 *)
(***************************************************************************)
CONSTANT Goroutine

VARIABLES writer,   \* the announced or active writers: at most one
          readers,  \* goroutines holding a read lock
          parked    \* goroutines blocked in RLock behind the writer

mutexVars == <<writer, readers, parked>>

MutexTypeOK ==
    /\ writer \subseteq Goroutine
    /\ readers \subseteq Goroutine
    /\ parked \subseteq Goroutine

MutexInit ==
    /\ writer = {}
    /\ readers = {}
    /\ parked = {}

RLock(g) ==
    /\ IF writer = {}
       THEN /\ readers' = readers \cup {g}
            /\ UNCHANGED parked
       ELSE /\ parked' = parked \cup {g}
            /\ UNCHANGED readers
    /\ UNCHANGED writer

RUnlock(g) ==
    /\ readers' = readers \ {g}
    /\ UNCHANGED <<writer, parked>>

\* First half of Lock: the inner mutex is free, and g announces itself.
Announce(g) ==
    /\ writer = {}
    /\ writer' = {g}
    /\ UNCHANGED <<readers, parked>>

\* Second half of Lock returns when the readers it found have left.
Drained(g) == g \in writer /\ readers = {}

Unlock(g) ==
    /\ writer' = writer \ {g}
    /\ readers' = readers \cup parked
    /\ parked' = {}

=============================================================================
