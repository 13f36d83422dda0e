------------------------------ MODULE RWMutex ------------------------------
(***************************************************************************)
(* Go's sync.RWMutex, as the components of the template use it.  It is     *)
(* standard-library code, modelled from its documented contract:           *)
(*   - any number of readers, or one writer;                               *)
(*   - a blocked Lock call excludes new readers from acquiring the lock,   *)
(*     so a writer first announces itself and then waits for the readers   *)
(*     that were there before it.                                          *)
(* The lock is not re-entrant: neither operation remembers who called it,  *)
(* the thread names below only let the using module say who holds it.      *)
(***************************************************************************)
CONSTANTS
  Threads,   \* the goroutines that may use the lock
  NoThread   \* "no goroutine", not a member of Threads

VARIABLES
  readers,   \* the threads that hold the read lock
  writer     \* the thread that called Lock and has not called Unlock

LockTypeOK ==
  /\ readers \subseteq Threads
  /\ writer \in Threads \cup {NoThread}

LockInit ==
  /\ readers = {}
  /\ writer = NoThread

\* RLock: waits while a writer holds or awaits the lock.
RLock(t) ==
  /\ writer = NoThread
  /\ readers' = readers \cup {t}
  /\ UNCHANGED writer

RUnlock(t) ==
  /\ readers' = readers \ {t}
  /\ UNCHANGED writer

\* The first half of Lock: writers exclude each other and stop new readers.
Announce(t) ==
  /\ writer = NoThread
  /\ writer' = t
  /\ UNCHANGED readers

\* The second half of Lock: the announced writer waits for the readers.
Drained(t) ==
  /\ writer = t
  /\ readers = {}
  /\ UNCHANGED <<readers, writer>>

Unlock(t) ==
  /\ writer' = NoThread
  /\ UNCHANGED readers

=============================================================================
