----------------------------- MODULE QueueProofs -----------------------------
(* Proofs about the queue, for any number of threads and items, under       *)
(* QueueAssumption.                                                         *)
EXTENDS Queue, SequenceTheorems, TLAPS

\* The markers of the code are no nodes and differ where the code tells them apart.
LEMMA Markers ==
    ASSUME QueueAssumption
    PROVE  /\ NIL \notin Nat /\ DEADEND \notin Nat /\ DUMMY \notin Nat /\ None \notin Nat
           /\ Empty \notin Nat
           /\ NIL # DEADEND /\ None # Empty /\ DUMMY # None /\ DUMMY # Empty
           /\ MaxItems \in Nat /\ Enqueuers \cap Dequeuers = {}
BY DEF QueueAssumption

\* The state MAKE-QUEUE leaves satisfies the invariant.
LEMMA InitIInv == ASSUME QueueAssumption, Init PROVE IInv
<1> USE Markers DEF Init, Nodes, Threads
<1>1. TypeOK
    BY DEF TypeOK, Cells
<1>2. PlacesOK /\ TailIsLast /\ LocalsInStep /\ TakenIsPrivate
    BY DEF PlacesOK, TailIsLast, LocalsInStep, TakenIsPrivate
<1>3. ListIsWhole /\ ValuesInPlace
    BY DEF ListIsWhole, ValuesInPlace
<1> QED
    BY <1>1, <1>2, <1>3 DEF IInv

\* The CAS of ENQUEUE can only succeed on the last node, and then nobody
\* else is about to store the tail.
LEMMA LinkAtLast ==
    ASSUME QueueAssumption, IInv, NEW t \in Enqueuers, pc[t] = "link", cdr[node[t]] = NIL
    PROVE  /\ node[t] = last /\ tail = last
           /\ \A s \in Enqueuers : pc[s] # "settail"
<1> USE Markers DEF IInv, TypeOK, Nodes, Threads, Cells
<1>1. node[t] \in Nodes /\ node[t] <= tail /\ tail <= last
    BY DEF LocalsInStep
<1>2. node[t] = last
    BY <1>1 DEF ListIsWhole
<1>3. tail = last
    BY <1>1, <1>2
<1> QED
    BY <1>2, <1>3 DEF TailIsLast

\* ENQUEUE preserves the invariant.
LEMMA EnqueueStep ==
    ASSUME QueueAssumption, IInv, NEW t \in Enqueuers, EnqCall(t) \/ EnqStep(t)
    PROVE  IInv'
<1> USE Markers DEF IInv, TypeOK, Nodes, Threads, Cells, Goto
<1>1. CASE EnqCall(t) \/ EnqReadTail(t)
    <2> USE <1>1 DEF EnqCall, EnqReadTail
    <2>1. TypeOK' /\ PlacesOK'
        BY DEF PlacesOK
    <2>2. ListIsWhole' /\ ValuesInPlace'
        BY DEF ListIsWhole, ValuesInPlace
    <2>3. TailIsLast'
        BY DEF TailIsLast
    <2>4. LocalsInStep'
        BY DEF LocalsInStep, PlacesOK
    <2>5. TakenIsPrivate'
        BY DEF TakenIsPrivate, PlacesOK
    <2> QED
        BY <2>1, <2>2, <2>3, <2>4, <2>5
<1>2. CASE EnqLink(t)
    <2>1. CASE cdr[node[t]] = NIL
        <3>0. /\ node[t] = last /\ tail = last
              /\ \A s \in Enqueuers : pc[s] # "settail"
            BY <1>2, <2>1, LinkAtLast DEF EnqLink
        <3> USE <1>2, <2>1, <3>0 DEF EnqLink
        <3>a. /\ last' = last + 1 /\ last' \in Nodes
              /\ cdr' = [cdr EXCEPT ![last] = last + 1]
              /\ node' = [node EXCEPT ![t] = last + 1]
              /\ pc' = [pc EXCEPT ![t] = "settail"]
            OBVIOUS
        <3>b. PlacesOK'
            BY <3>a DEF PlacesOK
        <3>c. cdr' \in [Nodes -> Cells] /\ node' \in [Threads -> Nodes]
            BY <3>a
        <3>1. TypeOK' /\ PlacesOK'
            BY <3>a, <3>b, <3>c
        <3>d. ValuesInPlace' /\ head' <= last'
            BY DEF ListIsWhole, ValuesInPlace
        <3>e. cdr'[last'] = NIL
            BY <3>a DEF ListIsWhole
        <3>f. ASSUME NEW n \in Nodes, n < last'
              PROVE  cdr'[n] = n + 1 \/ (n < head' /\ cdr'[n] = DEADEND)
            <4>1. CASE n = last
                BY <3>a, <4>1
            <4>2. CASE n < last
                BY <3>a, <4>2 DEF ListIsWhole
            <4> QED
                BY <3>a, <3>f, <4>1, <4>2
        <3>2. ListIsWhole' /\ ValuesInPlace'
            BY <3>d, <3>e, <3>f DEF ListIsWhole
        <3>3. TailIsLast'
            BY DEF TailIsLast
        <3>g. tail' <= last' /\ \A s \in Enqueuers : pc'[s] = "link" => node'[s] <= tail'
            BY <3>a DEF LocalsInStep
        <3>h. \A s \in Dequeuers : pc'[s] = pc[s] /\ node'[s] = node[s]
            BY <3>a
        <3>4. LocalsInStep'
            BY <3>a, <3>g, <3>h DEF LocalsInStep
        <3>5. TakenIsPrivate'
            BY DEF TakenIsPrivate, PlacesOK
        <3> QED
            BY <3>1, <3>2, <3>3, <3>4, <3>5
    <2>2. CASE cdr[node[t]] # NIL
        <3> USE <1>2, <2>2 DEF EnqLink
        <3>1. TypeOK' /\ PlacesOK'
            BY DEF PlacesOK
        <3>2. ListIsWhole' /\ ValuesInPlace' /\ TailIsLast'
            BY DEF ListIsWhole, ValuesInPlace, TailIsLast
        <3>3. LocalsInStep' /\ TakenIsPrivate'
            BY DEF LocalsInStep, PlacesOK, TakenIsPrivate
        <3> QED
            BY <3>1, <3>2, <3>3
    <2> QED
        BY <2>1, <2>2
<1>3. CASE EnqSetTail(t)
    <2> USE <1>3 DEF EnqSetTail
    <2>0. node[t] = last
        BY DEF TailIsLast
    <2>1. TypeOK' /\ PlacesOK'
        BY DEF PlacesOK
    <2>2. ListIsWhole' /\ ValuesInPlace'
        BY DEF ListIsWhole, ValuesInPlace
    <2>3. TailIsLast'
        BY <2>0 DEF TailIsLast
    <2>4. LocalsInStep'
        BY <2>0 DEF LocalsInStep, PlacesOK
    <2>5. TakenIsPrivate'
        BY DEF TakenIsPrivate, PlacesOK
    <2> QED
        BY <2>1, <2>2, <2>3, <2>4, <2>5
<1> QED
    BY <1>1, <1>2, <1>3 DEF EnqStep

\* DEQUEUE preserves the invariant.
LEMMA DequeueStep ==
    ASSUME QueueAssumption, IInv, NEW t \in Dequeuers, DeqCall(t) \/ DeqStep(t)
    PROVE  IInv'
<1> USE Markers DEF IInv, TypeOK, Nodes, Threads, Cells, Goto
<1>1. CASE DeqCall(t) \/ DeqReadHead(t)
    <2> USE <1>1 DEF DeqCall, DeqReadHead
    <2>1. TypeOK' /\ PlacesOK'
        BY DEF PlacesOK
    <2>c. TailIsLast'
        BY DEF TailIsLast
    <2>2. ListIsWhole' /\ ValuesInPlace' /\ TailIsLast'
        BY <2>c DEF ListIsWhole, ValuesInPlace
    <2>3. LocalsInStep'
        BY DEF LocalsInStep, PlacesOK
    <2>4. TakenIsPrivate'
        BY DEF TakenIsPrivate
    <2> QED
        BY <2>1, <2>2, <2>3, <2>4
<1>2. CASE DeqReadNext(t)
    <2> USE <1>2 DEF DeqReadNext
    <2>0. cdr[node[t]] \notin {NIL, DEADEND} => cdr[node[t]] = node[t] + 1 /\ node[t] < last
        <3>1. node[t] \in Nodes /\ node[t] <= head /\ head <= last
            BY DEF LocalsInStep, ListIsWhole
        <3> QED
            BY <3>1 DEF ListIsWhole
    <2>a. TypeOK'
        OBVIOUS
    <2>b. PlacesOK'
        BY DEF PlacesOK
    <2>1. TypeOK' /\ PlacesOK'
        BY <2>a, <2>b
    <2>c. TailIsLast'
        BY DEF TailIsLast
    <2>2. ListIsWhole' /\ ValuesInPlace' /\ TailIsLast'
        BY <2>c DEF ListIsWhole, ValuesInPlace
    <2>3. LocalsInStep'
        BY <2>0 DEF LocalsInStep, PlacesOK
    <2>4. TakenIsPrivate'
        BY DEF TakenIsPrivate
    <2> QED
        BY <2>1, <2>2, <2>3, <2>4
<1>3. CASE DeqCas(t)
    <2> USE <1>3 DEF DeqCas
    <2>0. next[t] = node[t] + 1 /\ next[t] <= last
        BY DEF LocalsInStep
    <2>d. next[t] \in Nodes
        BY <2>0
    <2>e. head' \in Nodes
        BY <2>d
    <2>f. pc' \in [Threads -> {"out", "readtail", "link", "settail", "readhead",
                              "readnext", "cas", "value", "kill", "clear"}]
        OBVIOUS
    <2>a. TypeOK'
        BY <2>e, <2>f
    <2>b. PlacesOK'
        BY DEF PlacesOK
    <2>1. TypeOK' /\ PlacesOK'
        BY <2>a, <2>b
    <2>2. ListIsWhole' /\ ValuesInPlace'
        BY <2>0 DEF ListIsWhole, ValuesInPlace
    <2>3. TailIsLast'
        BY DEF TailIsLast
    <2>4. LocalsInStep'
        BY <2>0 DEF LocalsInStep, PlacesOK
    <2>5. TakenIsPrivate'
        BY <2>0 DEF TakenIsPrivate, ValuesInPlace
    <2> QED
        BY <2>1, <2>2, <2>3, <2>4, <2>5
<1>4. CASE DeqValue(t)
    <2> USE <1>4 DEF DeqValue
    <2>1. TypeOK' /\ PlacesOK'
        BY DEF PlacesOK, TakenIsPrivate
    <2>c. TailIsLast'
        BY DEF TailIsLast
    <2>2. ListIsWhole' /\ ValuesInPlace' /\ TailIsLast'
        BY <2>c DEF ListIsWhole, ValuesInPlace
    <2>3. LocalsInStep' /\ TakenIsPrivate'
        BY DEF LocalsInStep, PlacesOK, TakenIsPrivate
    <2> QED
        BY <2>1, <2>2, <2>3
<1>5. CASE DeqKill(t)
    <2> USE <1>5 DEF DeqKill
    <2>0. node[t] \in Nodes /\ node[t] < head /\ head <= last
        BY DEF TakenIsPrivate, ListIsWhole
    <2>1. TypeOK' /\ PlacesOK'
        BY DEF PlacesOK
    <2>2. ListIsWhole' /\ ValuesInPlace' /\ TailIsLast'
        BY <2>0 DEF ListIsWhole, ValuesInPlace, TailIsLast
    <2>3. LocalsInStep' /\ TakenIsPrivate'
        BY DEF LocalsInStep, PlacesOK, TakenIsPrivate
    <2> QED
        BY <2>1, <2>2, <2>3
<1>6. CASE DeqClear(t)
    <2> USE <1>6 DEF DeqClear
    <2>0. next[t] \in Nodes /\ next[t] <= head
        BY DEF TakenIsPrivate
    <2>1. TypeOK' /\ PlacesOK'
        BY <2>0 DEF PlacesOK
    <2>2. ListIsWhole' /\ TailIsLast'
        BY DEF ListIsWhole, TailIsLast
    <2>3. ValuesInPlace'
        BY <2>0 DEF ValuesInPlace
    <2>4. LocalsInStep' /\ TakenIsPrivate'
        BY DEF LocalsInStep, PlacesOK, TakenIsPrivate
    <2> QED
        BY <2>1, <2>2, <2>3, <2>4
<1> QED
    BY <1>1, <1>2, <1>3, <1>4, <1>5, <1>6 DEF DeqStep

\* IInv is an invariant of the queue.
THEOREM QueueIInv == QueueAssumption => (Spec => []IInv)
<1> SUFFICES ASSUME QueueAssumption PROVE Spec => []IInv
    OBVIOUS
<1>0. Init => IInv
    BY InitIInv
<1>1. IInv /\ [Next]_vars => IInv'
    <2> SUFFICES ASSUME IInv, [Next]_vars PROVE IInv'
        OBVIOUS
    <2>1. CASE UNCHANGED vars
        BY <2>1 DEF vars, IInv, TypeOK, PlacesOK, ListIsWhole, TailIsLast,
                    LocalsInStep, ValuesInPlace, TakenIsPrivate
    <2>2. CASE Next
        BY <2>2, EnqueueStep, DequeueStep DEF Next
    <2> QED
        BY <2>1, <2>2
<1> QED
    BY <1>0, <1>1, PTL DEF Spec

------------------------------------------------------------------------------
(* The refinement of the FIFO queue                                         *)

\* The abstract contents are a sequence of numbers, h+1 to l.
LEMMA IntervalSeq ==
    ASSUME NEW h \in Nat, NEW l \in Nat, h <= l
    PROVE  /\ Interval(h, l) \in Seq(Nat) /\ Len(Interval(h, l)) = l - h
           /\ \A i \in 1..(l - h) : Interval(h, l)[i] = h + i
BY DEF Interval

\* They are empty exactly when h = l.
LEMMA IntervalEmpty ==
    ASSUME NEW h \in Nat, NEW l \in Nat, h <= l
    PROVE  Interval(h, l) = <<>> <=> h = l
<1>1. Interval(h, l) \in Seq(Nat) /\ Len(Interval(h, l)) = l - h
    BY IntervalSeq
<1> QED
    BY <1>1, EmptySeq

\* Linking one more node appends its value.
LEMMA IntervalAppend ==
    ASSUME NEW h \in Nat, NEW l \in Nat, h <= l
    PROVE  Interval(h, l + 1) = Append(Interval(h, l), l + 1)
<1> DEFINE a == Interval(h, l + 1)
           b == Append(Interval(h, l), l + 1)
<1>1. a \in Seq(Nat) /\ Len(a) = l + 1 - h /\ \A i \in 1..(l + 1 - h) : a[i] = h + i
    BY IntervalSeq
<1>2. /\ Interval(h, l) \in Seq(Nat) /\ Len(Interval(h, l)) = l - h
      /\ \A i \in 1..(l - h) : Interval(h, l)[i] = h + i
    BY IntervalSeq
<1>3. b \in Seq(Nat) /\ Len(b) = l - h + 1
    BY <1>2, AppendProperties
<1>4. \A i \in 1..(l - h) : b[i] = h + i
    BY <1>2, AppendProperties
<1>5. b[l - h + 1] = l + 1
    BY <1>2, AppendProperties
<1> HIDE DEF a, b
<1>6. ASSUME NEW i \in 1..(l + 1 - h) PROVE a[i] = b[i]
    <2>1. CASE i = l - h + 1
        <3>1. a[i] = l + 1
            BY <2>1, <1>1
        <3> QED
            BY <2>1, <3>1, <1>5
    <2>2. CASE i \in 1..(l - h)
        BY <2>2, <1>1, <1>4
    <2> QED
        BY <2>1, <2>2
<1>7. Len(a) = Len(b) /\ \A i \in 1..Len(a) : a[i] = b[i]
    BY <1>1, <1>3, <1>6
<1>8. a = b
    BY <1>1, <1>3, <1>7, SeqEqual
<1> QED
    BY <1>8 DEF a, b

\* Moving the head takes the oldest value away.
LEMMA IntervalTail ==
    ASSUME NEW h \in Nat, NEW l \in Nat, h < l
    PROVE  /\ Head(Interval(h, l)) = h + 1
           /\ Tail(Interval(h, l)) = Interval(h + 1, l)
<1> DEFINE a == Interval(h, l)
           b == Interval(h + 1, l)
<1>1. a \in Seq(Nat) /\ Len(a) = l - h /\ \A i \in 1..(l - h) : a[i] = h + i
    BY IntervalSeq
<1>2. b \in Seq(Nat) /\ Len(b) = l - (h + 1) /\ \A i \in 1..(l - (h + 1)) : b[i] = h + 1 + i
    BY IntervalSeq
<1>3. a # <<>>
    BY IntervalEmpty
<1>4. /\ Tail(a) \in Seq(Nat) /\ Len(Tail(a)) = l - h - 1
      /\ \A i \in 1..Len(Tail(a)) : Tail(a)[i] = a[i + 1]
    BY <1>1, <1>3, HeadTailProperties
<1>5. Head(a) = h + 1
    BY <1>1
<1> HIDE DEF a, b
<1>6. ASSUME NEW i \in 1..(l - (h + 1)) PROVE Tail(a)[i] = b[i]
    <2>1. i \in 1..Len(Tail(a)) /\ i + 1 \in 1..(l - h) /\ i \in 1..(l - h - 1)
        BY <1>4
    <2>2. Tail(a)[i] = a[i + 1] /\ a[i + 1] = h + (i + 1)
        BY <2>1, <1>1, <1>4
    <2>3. b[i] = h + 1 + i
        BY <1>2
    <2>4. h + 1 + i = h + (i + 1)
        OBVIOUS
    <2> QED
        BY <2>2, <2>3, <2>4, Zenon
<1>7. Len(Tail(a)) = Len(b) /\ \A i \in 1..Len(Tail(a)) : Tail(a)[i] = b[i]
    BY <1>2, <1>4, <1>6
<1>8. Tail(a) = b
    BY <1>2, <1>4, <1>7, SeqEqual
<1> QED
    BY <1>5, <1>8 DEF a, b

\* A fresh queue is an empty FIFO queue.
LEMMA RefineInit == Init => F!FInit
<1> SUFFICES ASSUME Init PROVE F!FInit
    OBVIOUS
<1>1. Items = <<>>
    BY IntervalEmpty DEF Init, Items
<1>2. Got = [t \in Dequeuers |-> None]
    BY DEF Init, Got, Threads
<1> QED
    BY <1>1, <1>2 DEF F!FInit, Init

\* Every step of ENQUEUE and DEQUEUE is a step of the FIFO queue or leaves
\* its state alone.
LEMMA RefineStep ==
    ASSUME QueueAssumption, IInv, [Next]_vars PROVE [F!FNext]_<<Items, last, Got>>
<1> DEFINE Same == UNCHANGED <<Items, last, Got>>
<1> SUFFICES F!FNext \/ Same
    OBVIOUS
<1>0. /\ TypeOK /\ PlacesOK /\ ListIsWhole /\ LocalsInStep /\ TakenIsPrivate
      /\ head \in Nat /\ last \in Nat /\ head <= last
    BY Markers DEF IInv, TypeOK, Nodes, ListIsWhole
<1>1. CASE UNCHANGED vars
    BY <1>1 DEF vars, Items, Got
<1>2. ASSUME NEW t \in Enqueuers, EnqCall(t) \/ EnqStep(t) PROVE F!FNext \/ Same
    <2>1. UNCHANGED <<next, ret, head>> /\ \A d \in Dequeuers : pc'[d] = pc[d]
        BY <1>0, <1>2, Markers DEF EnqStep, EnqCall, EnqReadTail, EnqLink, EnqSetTail,
                                   Goto, TypeOK, Threads
    <2>2. UNCHANGED Got
        BY <2>1 DEF Got
    <2>3. CASE UNCHANGED last
        BY <2>1, <2>2, <2>3 DEF Items
    <2>4. CASE last' = last + 1
        <3>1. Items' = Append(Items, last + 1)
            BY <1>0, <2>1, <2>4, IntervalAppend DEF Items
        <3> QED
            BY <2>2, <2>4, <3>1 DEF F!FNext, F!Put
    <2> QED
        BY <1>2, <2>3, <2>4 DEF EnqStep, EnqCall, EnqReadTail, EnqLink, EnqSetTail
<1>3. ASSUME NEW t \in Dequeuers, DeqCall(t) \/ DeqStep(t) PROVE F!FNext \/ Same
    <2> USE <1>0, Markers DEF TypeOK, Threads, Goto
    <2>0. UNCHANGED last
        BY <1>3 DEF DeqStep, DeqCall, DeqReadHead, DeqReadNext, DeqCas, DeqValue,
                    DeqKill, DeqClear
    <2>1. CASE DeqCall(t)
        <3>1. UNCHANGED Items
            BY <2>1 DEF DeqCall, Items
        <3>2. Got' = [Got EXCEPT ![t] = None]
            BY <2>1 DEF DeqCall, Got
        <3> QED
            BY <2>0, <3>1, <3>2 DEF F!FNext, F!Begin
    <2>2. CASE DeqReadNext(t) /\ cdr[node[t]] = NIL
        <3>1. UNCHANGED Items
            BY <2>2 DEF DeqReadNext, Items
        <3>2. node[t] \in Nodes /\ node[t] <= head /\ ret[t] = None
            BY <2>2 DEF DeqReadNext, LocalsInStep
        <3>3. head = last
            BY <2>2, <3>2 DEF ListIsWhole, Nodes
        <3>4. Items = <<>>
            BY <3>3, IntervalEmpty DEF Items
        <3>5. Got[t] = None
            BY <2>2, <3>2 DEF DeqReadNext, Got
        <3>6. Got' = [Got EXCEPT ![t] = Empty]
            BY <2>2 DEF DeqReadNext, Got
        <3> QED
            BY <2>0, <3>1, <3>4, <3>5, <3>6 DEF F!FNext, F!FindEmpty
    <2>3. CASE DeqReadHead(t) \/ (DeqReadNext(t) /\ cdr[node[t]] # NIL)
        <3>1. UNCHANGED Items
            BY <2>3 DEF DeqReadHead, DeqReadNext, Items
        <3>2. UNCHANGED Got
            BY <2>3 DEF DeqReadHead, DeqReadNext, Got
        <3> QED
            BY <2>0, <3>1, <3>2
    <2>4. CASE DeqCas(t) /\ head = node[t]
        <3>1. next[t] = head + 1 /\ head < last /\ ret[t] = None
            BY <2>4 DEF DeqCas, LocalsInStep
        <3>a. Items # <<>>
            BY <3>1, IntervalEmpty DEF Items
        <3>b. Head(Items) = head + 1 /\ Tail(Items) = Interval(head + 1, last)
            BY <3>1, IntervalTail DEF Items
        <3>2. Items # <<>> /\ Head(Items) = head + 1 /\ Tail(Items) = Interval(head + 1, last)
            BY <3>a, <3>b
        <3>3. Items' = Tail(Items)
            BY <2>4, <3>1, <3>2 DEF DeqCas, Items
        <3>4. Got[t] = None
            BY <2>4, <3>1 DEF DeqCas, Got
        <3>5. Got' = [Got EXCEPT ![t] = head + 1]
            BY <2>4, <3>1 DEF DeqCas, Got
        <3> QED
            BY <2>0, <3>2, <3>3, <3>4, <3>5 DEF F!FNext, F!Take
    <2>5. CASE DeqCas(t) /\ head # node[t]
        <3>1. UNCHANGED Items
            BY <2>5 DEF DeqCas, Items
        <3>2. UNCHANGED Got
            BY <2>5 DEF DeqCas, Got
        <3> QED
            BY <2>0, <3>1, <3>2
    <2>6. CASE DeqValue(t)
        <3>1. UNCHANGED Items
            BY <2>6 DEF DeqValue, Items
        <3>2. car[next[t]] = next[t]
            BY <2>6 DEF DeqValue, TakenIsPrivate
        <3>3. UNCHANGED Got
            BY <2>6, <3>2 DEF DeqValue, Got
        <3> QED
            BY <2>0, <3>1, <3>3
    <2>7. CASE DeqKill(t) \/ DeqClear(t)
        <3>1. UNCHANGED Items
            BY <2>7 DEF DeqKill, DeqClear, Items
        <3>2. UNCHANGED Got
            BY <2>7 DEF DeqKill, DeqClear, Got
        <3> QED
            BY <2>0, <3>1, <3>2
    <2> QED
        BY <1>3, <2>1, <2>2, <2>3, <2>4, <2>5, <2>6, <2>7 DEF DeqStep
<1> QED
    BY <1>1, <1>2, <1>3 DEF Next

\* The list keeps its shape: dead ends only behind the head.
THEOREM QueueListIsWhole == QueueAssumption => (Spec => []ListIsWhole)
BY QueueIInv, PTL DEF IInv

\* The plain store of the tail never moves it backwards or races another one.
THEOREM QueueTailIsLast == QueueAssumption => (Spec => []TailIsLast)
BY QueueIInv, PTL DEF IInv

\* No two calls of DEQUEUE take the same value.
THEOREM QueueTakenIsPrivate == QueueAssumption => (Spec => []TakenIsPrivate)
BY QueueIInv, PTL DEF IInv

\* ENQUEUE and DEQUEUE implement the FIFO queue for any number of threads.
THEOREM QueueImplementsFIFO == QueueAssumption => (Spec => ImplementsFIFO)
<1> SUFFICES ASSUME QueueAssumption PROVE Spec => ImplementsFIFO
    OBVIOUS
<1>1. Spec => []IInv
    BY QueueIInv
<1>2. IInv /\ [Next]_vars => [F!FNext]_<<Items, last, Got>>
    BY RefineStep
<1> QED
    BY <1>1, <1>2, RefineInit, PTL DEF Spec, ImplementsFIFO, F!FSpec
=============================================================================
