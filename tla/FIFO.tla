--------------------------------- MODULE FIFO ---------------------------------
(***************************************************************************)
(* What a thread-safe FIFO queue promises: every operation takes effect at *)
(* one instant, values come out in the order they went in, each one once,  *)
(* and "empty" is only answered when the queue is empty.  Values are       *)
(* numbered in the order of their enqueuing.                               *)
(***************************************************************************)
EXTENDS Naturals, Sequences

CONSTANTS Threads,   \* the threads that dequeue
          None,      \* no result yet
          Empty      \* the result NIL, NIL of an empty queue

VARIABLES items,     \* the contents, oldest first
          added,     \* how many values were enqueued
          got        \* what each thread's running DEQUEUE has obtained

FInit == items = <<>> /\ added = 0 /\ got = [t \in Threads |-> None]

Put ==
    /\ added' = added + 1
    /\ items' = Append(items, added + 1)
    /\ UNCHANGED got

Take(t) ==
    /\ items # <<>>
    /\ got[t] = None
    /\ got' = [got EXCEPT ![t] = Head(items)]
    /\ items' = Tail(items)
    /\ UNCHANGED added

FindEmpty(t) ==
    /\ items = <<>>
    /\ got[t] = None
    /\ got' = [got EXCEPT ![t] = Empty]
    /\ UNCHANGED <<items, added>>

Begin(t) ==
    /\ got' = [got EXCEPT ![t] = None]
    /\ UNCHANGED <<items, added>>

FNext == Put \/ \E t \in Threads : Take(t) \/ FindEmpty(t) \/ Begin(t)

FSpec == FInit /\ [][FNext]_<<items, added, got>>
=============================================================================
