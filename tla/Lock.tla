-------------------------------- MODULE Lock --------------------------------
(***************************************************************************)
(* What an SB-THREAD mutex promises to its callers: it has at most one     *)
(* owner, it is only ever taken while it has none, and it is only given    *)
(* up by the thread that has it.  WITH-MUTEX, CONDITION-WAIT and the       *)
(* semaphores are written against this promise; Mutex.tla shows that the   *)
(* bit-packed futex mutex of src/code/target-thread.lisp keeps it.         *)
(***************************************************************************)
CONSTANTS Threads,   \* the threads that may call the lock
          NoThread   \* the owner of a free lock

VARIABLES owner,     \* the owning thread, or NoThread
          inside     \* the threads that run the protected body

LockInit == owner = NoThread /\ inside = {}

\* Ownership changes hands only through "free".
Acquire(t) ==
    /\ owner = NoThread
    /\ owner' = t
    /\ inside' = {t}

\* Leaving the body (calling RELEASE-MUTEX) comes before giving up ownership.
Leave(t) ==
    /\ inside = {t}
    /\ inside' = {}
    /\ UNCHANGED owner

GiveUp(t) ==
    /\ owner = t
    /\ inside = {}
    /\ owner' = NoThread
    /\ UNCHANGED inside

LockNext == \E t \in Threads : Acquire(t) \/ Leave(t) \/ GiveUp(t)

LockSpec == LockInit /\ [][LockNext]_<<owner, inside>>
=============================================================================
