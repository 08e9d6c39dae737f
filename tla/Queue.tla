-------------------------------- MODULE Queue --------------------------------
(***************************************************************************)
(* The CAS-based queue of contrib/sb-concurrency/queue.lisp: ENQUEUE and   *)
(* DEQUEUE, one step per access to shared memory.                          *)
(*                                                                         *)
(* Node 0 is the dummy made by MAKE-QUEUE.  A node is private until ENQUEUE *)
(* links it, so nodes are numbered in the order they are linked, and node  *)
(* n carries the n-th value.  The collector frees no node that a thread    *)
(* still holds, so no node is ever linked twice.                           *)
(***************************************************************************)
EXTENDS Naturals, Sequences, FiniteSets

CONSTANTS Enqueuers,   \* threads that call ENQUEUE
          Dequeuers,   \* threads that call DEQUEUE
          NIL,         \* end of the list
          DEADEND,     \* +dead-end+, the CDR of a discarded node
          DUMMY,       \* +dummy+, the CAR of a dequeued node
          None,        \* no result yet
          Empty,       \* the result NIL, NIL of DEQUEUE
          MaxItems     \* bound: calls of ENQUEUE

Threads == Enqueuers \cup Dequeuers

\* What the constants stand for.
QueueAssumption ==
    /\ Enqueuers \cap Dequeuers = {}
    /\ MaxItems \in Nat
    /\ {NIL, DEADEND, DUMMY, None, Empty} \cap Nat = {}
    /\ NIL # DEADEND /\ None # Empty /\ DUMMY \notin {None, Empty}

VARIABLES head,    \* queue-head
          tail,    \* queue-tail
          car,     \* car[n]: its value (n itself), or DUMMY
          cdr,     \* cdr[n]: the next node, NIL or DEADEND
          last,    \* the node linked last
          pc,      \* where each thread is
          node,    \* ENQUEUE: the tail read, then the new node; DEQUEUE: the head read
          next,    \* DEQUEUE: the CDR of the head read
          ret      \* the result of each DEQUEUE

vars == <<head, tail, car, cdr, last, pc, node, next, ret>>

Nodes == 0..MaxItems

Init ==
    /\ head = 0 /\ tail = 0 /\ last = 0
    /\ car = [n \in Nodes |-> IF n = 0 THEN DUMMY ELSE n]
    /\ cdr = [n \in Nodes |-> NIL]
    /\ pc = [t \in Threads |-> "out"]
    /\ node = [t \in Threads |-> 0]
    /\ next = [t \in Dequeuers |-> NIL]
    /\ ret = [t \in Dequeuers |-> None]

Goto(t, p) == pc' = [pc EXCEPT ![t] = p]

------------------------------------------------------------------------------
(* ENQUEUE                                                                  *)

EnqCall(t) ==
    /\ pc[t] = "out"
    /\ Goto(t, "readtail")
    /\ UNCHANGED <<head, tail, car, cdr, last, node, next, ret>>

EnqReadTail(t) ==
    /\ pc[t] = "readtail"
    /\ node' = [node EXCEPT ![t] = tail]
    /\ Goto(t, "link")
    /\ UNCHANGED <<head, tail, car, cdr, last, next, ret>>

\* Mutant: a store instead of a CAS.
BugEnqLink(t) ==
    /\ pc[t] = "link"
    /\ last < MaxItems
    /\ cdr' = [cdr EXCEPT ![node[t]] = last + 1]
    /\ last' = last + 1
    /\ node' = [node EXCEPT ![t] = last + 1]
    /\ Goto(t, "settail")
    /\ UNCHANGED <<head, tail, car, next, ret>>

\* CAS (cdr tail) NIL -> new: on failure read the tail again.
EnqLink(t) ==
    /\ pc[t] = "link"
    /\ last < MaxItems
    /\ IF cdr[node[t]] = NIL
       THEN /\ cdr' = [cdr EXCEPT ![node[t]] = last + 1]
            /\ last' = last + 1
            /\ node' = [node EXCEPT ![t] = last + 1]
            /\ Goto(t, "settail")
       ELSE Goto(t, "readtail") /\ UNCHANGED <<cdr, last, node>>
    /\ UNCHANGED <<head, tail, car, next, ret>>

\* Mutant: the tail is left behind.
BugEnqSetTail(t) ==
    /\ pc[t] = "settail"
    /\ Goto(t, "out")
    /\ UNCHANGED <<head, tail, car, cdr, last, node, next, ret>>

\* (setf (queue-tail queue) new), a plain store
EnqSetTail(t) ==
    /\ pc[t] = "settail"
    /\ tail' = node[t]
    /\ Goto(t, "out")
    /\ UNCHANGED <<head, car, cdr, last, node, next, ret>>

------------------------------------------------------------------------------
(* DEQUEUE                                                                  *)

DeqCall(t) ==
    /\ pc[t] = "out"
    /\ ret' = [ret EXCEPT ![t] = None]
    /\ Goto(t, "readhead")
    /\ UNCHANGED <<head, tail, car, cdr, last, node, next>>

DeqReadHead(t) ==
    /\ pc[t] = "readhead"
    /\ node' = [node EXCEPT ![t] = head]
    /\ Goto(t, "readnext")
    /\ UNCHANGED <<head, tail, car, cdr, last, next, ret>>

\* Mutant: +dead-end+ is taken for the end of the list.
BugDeqReadNext(t) ==
    /\ pc[t] = "readnext"
    /\ next' = [next EXCEPT ![t] = cdr[node[t]]]
    /\ IF cdr[node[t]] \in {NIL, DEADEND}
       THEN ret' = [ret EXCEPT ![t] = Empty] /\ Goto(t, "out")
       ELSE UNCHANGED ret /\ Goto(t, "cas")
    /\ UNCHANGED <<head, tail, car, cdr, last, node>>

\* NULL: return NIL, NIL.  +DEAD-END+: start again.  A node: try to take it.
DeqReadNext(t) ==
    /\ pc[t] = "readnext"
    /\ next' = [next EXCEPT ![t] = cdr[node[t]]]
    /\ \/ /\ cdr[node[t]] = NIL
          /\ ret' = [ret EXCEPT ![t] = Empty]
          /\ Goto(t, "out")
       \/ /\ cdr[node[t]] = DEADEND
          /\ Goto(t, "readhead")
          /\ UNCHANGED ret
       \/ /\ cdr[node[t]] \notin {NIL, DEADEND}
          /\ Goto(t, "cas")
          /\ UNCHANGED ret
    /\ UNCHANGED <<head, tail, car, cdr, last, node>>

\* Mutant: a store instead of a CAS.
BugDeqCas(t) ==
    /\ pc[t] = "cas"
    /\ head' = next[t] /\ Goto(t, "value")
    /\ UNCHANGED <<tail, car, cdr, last, node, next, ret>>

\* CAS (queue-head queue) head -> next
DeqCas(t) ==
    /\ pc[t] = "cas"
    /\ IF head = node[t]
       THEN head' = next[t] /\ Goto(t, "value")
       ELSE UNCHANGED head /\ Goto(t, "readhead")
    /\ UNCHANGED <<tail, car, cdr, last, node, next, ret>>

\* Read the value out of the new head.
DeqValue(t) ==
    /\ pc[t] = "value"
    /\ ret' = [ret EXCEPT ![t] = car[next[t]]]
    /\ Goto(t, "kill")
    /\ UNCHANGED <<head, tail, car, cdr, last, node, next>>

\* (setf (cdr head) +dead-end+)
DeqKill(t) ==
    /\ pc[t] = "kill"
    /\ cdr' = [cdr EXCEPT ![node[t]] = DEADEND]
    /\ Goto(t, "clear")
    /\ UNCHANGED <<head, tail, car, last, node, next, ret>>

\* (setf (car next) +dummy+)
DeqClear(t) ==
    /\ pc[t] = "clear"
    /\ car' = [car EXCEPT ![next[t]] = DUMMY]
    /\ Goto(t, "out")
    /\ UNCHANGED <<head, tail, cdr, last, node, next, ret>>

------------------------------------------------------------------------------
EnqStep(t) == EnqReadTail(t) \/ EnqLink(t) \/ EnqSetTail(t)
DeqStep(t) == DeqReadHead(t) \/ DeqReadNext(t) \/ DeqCas(t) \/ DeqValue(t)
              \/ DeqKill(t) \/ DeqClear(t)

\* A call is only begun while a node is left for every call that runs.
Room == last + Cardinality({t \in Enqueuers : pc[t] \in {"readtail", "link"}}) < MaxItems

Next ==
    \/ \E t \in Enqueuers : (Room /\ EnqCall(t)) \/ EnqStep(t)
    \/ \E t \in Dequeuers : DeqCall(t) \/ DeqStep(t)

Spec == Init /\ [][Next]_vars

\* Every thread keeps running.
FairSpec ==
    /\ Spec
    /\ \A t \in Enqueuers : WF_vars(EnqStep(t))
    /\ \A t \in Dequeuers : WF_vars(DeqStep(t))

------------------------------------------------------------------------------
(* Properties                                                               *)

Cells == Nodes \cup {NIL, DEADEND}

TypeOK ==
    /\ head \in Nodes /\ tail \in Nodes /\ last \in Nodes
    /\ car \in [Nodes -> Nodes \cup {DUMMY}]
    /\ cdr \in [Nodes -> Cells]
    /\ pc \in [Threads -> {"out", "readtail", "link", "settail", "readhead",
                           "readnext", "cas", "value", "kill", "clear"}]
    /\ node \in [Threads -> Nodes]
    /\ next \in [Dequeuers -> Cells]
    /\ ret \in [Dequeuers -> Nodes \cup {None, Empty, DUMMY}]

\* The shape of the list: from the head every node points to the one linked
\* after it up to the last, and only nodes behind the head are dead ends.
ListIsWhole ==
    /\ head <= last
    /\ \A n \in last..MaxItems : cdr[n] = NIL
    /\ \A n \in Nodes : n < last =>
          cdr[n] = n + 1 \/ (n < head /\ cdr[n] = DEADEND)

\* The plain store of the tail is safe: the tail is the last node, except
\* while exactly one enqueuer is about to store the last node there.
TailIsLast ==
    /\ tail = last \/ \E t \in Enqueuers : pc[t] = "settail"
    /\ \A t \in Enqueuers : pc[t] = "settail" =>
          /\ node[t] = last /\ tail < last
          /\ \A s \in Enqueuers : pc[s] = "settail" => s = t

\* A value that a thread has taken is still in its node when the thread
\* comes to read it, and nobody else has taken it.
TakenIsPrivate ==
    \A t \in Dequeuers : pc[t] \in {"value", "kill", "clear"} =>
       /\ next[t] \in Nodes /\ next[t] <= head /\ node[t] < head
       /\ car[next[t]] = next[t]
       /\ \A s \in Dequeuers : pc[s] \in {"value", "kill", "clear"} /\ next[s] = next[t]
             => s = t

\* What the locals of a running call still say about the queue: an enqueuer
\* holds a tail that is not ahead of the real one, a dequeuer a head that is
\* not ahead of the real one, with the successor that head once had.
LocalsInStep ==
    /\ tail <= last
    /\ \A t \in Enqueuers : pc[t] = "link" => node[t] <= tail
    /\ \A t \in Dequeuers :
          /\ pc[t] \in {"readnext", "cas"} => node[t] <= head
          /\ pc[t] \in {"cas", "value", "kill", "clear"} =>
                next[t] = node[t] + 1 /\ next[t] <= last
          /\ pc[t] \in {"readhead", "readnext", "cas", "value"} => ret[t] = None

\* Values not yet dequeued are in their nodes.
ValuesInPlace == \A n \in Nodes : n > head => car[n] = n

\* The places of each kind of thread.
PlacesOK ==
    /\ \A t \in Enqueuers : pc[t] \in {"out", "readtail", "link", "settail"}
    /\ \A t \in Dequeuers : pc[t] \in {"out", "readhead", "readnext", "cas",
                                        "value", "kill", "clear"}

\* The inductive invariant.
IInv ==
    /\ TypeOK
    /\ PlacesOK
    /\ ListIsWhole
    /\ TailIsLast
    /\ LocalsInStep
    /\ ValuesInPlace
    /\ TakenIsPrivate

\* The abstract queue: the nodes after the head, and the results decided.
Interval(h, l) == [i \in 1..(l - h) |-> h + i]
Items == Interval(head, last)
Got   == [t \in Dequeuers |-> IF pc[t] = "value" THEN next[t] ELSE ret[t]]
F == INSTANCE FIFO WITH Threads <- Dequeuers, items <- Items, added <- last, got <- Got

\* The queue implements the FIFO queue: each value comes out once, in order,
\* whatever enqueuers and dequeuers do between their steps.
ImplementsFIFO == F!FSpec

\* ENQUEUE spins while the tail lags behind the list and does not help it
\* forward.  Every call, of finitely many, returns nonetheless, as long as the
\* enqueuer that has linked its node keeps running.
EnqueueReturns == <>[](\A t \in Enqueuers : pc[t] = "out")
=============================================================================
