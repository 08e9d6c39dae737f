----------------------------- MODULE MutexProofs -----------------------------
(* Proofs about the futex mutex, for any number of threads and calls.       *)
EXTENDS Mutex, TLAPS

\* Owners are threads, so two holders are the same owner: the owner half of
\* the word makes the mutex exclusive.
LEMMA OwnerGivesExclusion == OwnerNamesHolder => MutualExclusion
BY DEF OwnerNamesHolder, MutualExclusion

\* The initial state: a free word and nobody in a call.
LEMMA InitIInv == Init => IInv
<1> SUFFICES ASSUME Init PROVE IInv
    OBVIOUS
<1>1. TypeOK
    BY MutexAssumption DEF Init, TypeOK, Words, Owners, Places, Free, Pack
<1>2. OwnerNamesHolder /\ OwnedIsLocked /\ StoreIsPrivate /\ NoOrphanWord
    BY MutexAssumption
    DEF Init, OwnerNamesHolder, HoldsFor, OwnedIsLocked, StoreIsPrivate,
        NoOrphanWord, Free, Pack
<1>3. NoLostWakeup
    BY DEF Init, NoLostWakeup, Sleepers
<1> QED
    BY <1>1, <1>2, <1>3 DEF IInv

\* Every action keeps every variable in its type.
LEMMA TypeStep == TypeOK /\ OwnerNamesHolder /\ OwnedIsLocked /\ [Next]_vars => TypeOK'
<1> SUFFICES ASSUME TypeOK, OwnerNamesHolder, OwnedIsLocked, [Next]_vars PROVE TypeOK'
    OBVIOUS
<1> USE MutexAssumption DEF TypeOK, Words, Owners, Places, Goto, Pack, Free
<1>1. CASE UNCHANGED vars
    BY <1>1 DEF vars
<1>2. ASSUME NEW t \in Threads, Progress(t) PROVE TypeOK'
    <2>1. CASE TryMutex(t)
        BY <2>1 DEF TryMutex
    <2>2. CASE FirstCas(t)
        BY <2>2 DEF FirstCas
    <2>3. CASE MarkContended(t)
        BY <2>3 DEF MarkContended
    <2>4. CASE FutexWait(t) \/ WakeUp(t) \/ SignalDeadline(t) \/ ReadOwner(t)
        BY <2>4 DEF FutexWait, WakeUp, SignalDeadline, ReadOwner
    <2>5. CASE Recas(t)
        BY <2>5 DEF Recas
    <2>6. CASE Cleanup(t) \/ WakeWaiter(t)
        BY <2>6 DEF Cleanup, WakeWaiter, FutexWakeOne, Sleepers
    <2>7. CASE AtomicDecf(t)
        <3>1. word.owner = t /\ word.state \in {1, 2}
            BY <2>7 DEF AtomicDecf, OwnerNamesHolder, HoldsFor, OwnedIsLocked
        <3> QED
            BY <2>7, <3>1 DEF AtomicDecf
    <2>8. CASE ClearWord(t)
        BY <2>8 DEF ClearWord
    <2> QED
        BY <1>2, <2>1, <2>2, <2>3, <2>4, <2>5, <2>6, <2>7, <2>8 DEF Progress
<1>3. ASSUME NEW t \in Threads, Environment(t) PROVE TypeOK'
    BY <1>3 DEF Environment, GrabMutex, ReleaseMutex, RefuseToWait, Eintr, TimedOut, Unwind
<1> QED
    BY <1>1, <1>2, <1>3 DEF Next

\* Who owns the word: each action moves the owner half and the owner's place
\* together, and the transient word together with the pending store.
LEMMA OwnerStep ==
    IInv /\ [Next]_vars =>
       OwnerNamesHolder' /\ OwnedIsLocked' /\ StoreIsPrivate' /\ NoOrphanWord'
<1> DEFINE Owning == OwnerNamesHolder /\ OwnedIsLocked /\ StoreIsPrivate /\ NoOrphanWord
<1> SUFFICES ASSUME IInv, [Next]_vars PROVE Owning'
    OBVIOUS
<1>0. TypeOK /\ Owning
    BY DEF IInv
<1> USE MutexAssumption, <1>0
    DEF TypeOK, Words, Owners, Places, Goto, Pack, Free, OwnerNamesHolder,
        HoldsFor, OwnedIsLocked, StoreIsPrivate, NoOrphanWord
<1>1. CASE UNCHANGED vars
    BY <1>1 DEF vars
<1>2. ASSUME NEW t \in Threads, Progress(t) PROVE Owning'
    <2>1. CASE TryMutex(t)
        BY <2>1 DEF TryMutex
    <2>2. CASE FirstCas(t)
        BY <2>2 DEF FirstCas
    <2>3. CASE MarkContended(t)
        BY <2>3 DEF MarkContended
    <2>4. CASE FutexWait(t) \/ WakeUp(t) \/ SignalDeadline(t) \/ ReadOwner(t)
        BY <2>4 DEF FutexWait, WakeUp, SignalDeadline, ReadOwner
    <2>5. CASE Recas(t)
        BY <2>5 DEF Recas
    <2>6. CASE Cleanup(t) \/ WakeWaiter(t)
        BY <2>6 DEF Cleanup, WakeWaiter, FutexWakeOne, Sleepers
    <2>7. CASE AtomicDecf(t)
        BY <2>7 DEF AtomicDecf
    <2>8. CASE ClearWord(t)
        BY <2>8 DEF ClearWord
    <2> QED
        BY <1>2, <2>1, <2>2, <2>3, <2>4, <2>5, <2>6, <2>7, <2>8 DEF Progress
<1>3. ASSUME NEW t \in Threads, Environment(t) PROVE Owning'
    BY <1>3 DEF Environment, GrabMutex, ReleaseMutex, RefuseToWait, Eintr, TimedOut, Unwind
<1> QED
    BY <1>1, <1>2, <1>3 DEF Next

\* Responsibility for the sleepers is handed on by every action: the word
\* leaves "contended" only into the hands of a thread that will wake one.
LEMMA WakeupStep == IInv /\ [Next]_vars => NoLostWakeup'
<1> SUFFICES ASSUME IInv, [Next]_vars PROVE NoLostWakeup'
    OBVIOUS
<1>0. TypeOK /\ NoLostWakeup /\ OwnerNamesHolder /\ OwnedIsLocked
    BY DEF IInv
<1> USE MutexAssumption, <1>0
    DEF TypeOK, Words, Owners, Places, Goto, Pack, Free, NoLostWakeup, WillLook, Sleepers
<1>1. CASE UNCHANGED vars
    BY <1>1 DEF vars
<1>2. ASSUME NEW t \in Threads, Progress(t) PROVE NoLostWakeup'
    <2>1. CASE TryMutex(t)
        BY <2>1 DEF TryMutex
    <2>2. CASE FirstCas(t)
        BY <2>2 DEF FirstCas
    <2>3. CASE MarkContended(t)
        BY <2>3 DEF MarkContended
    <2>4. CASE FutexWait(t) \/ WakeUp(t) \/ SignalDeadline(t) \/ ReadOwner(t)
        BY <2>4 DEF FutexWait, WakeUp, SignalDeadline, ReadOwner
    <2>5. CASE Recas(t)
        BY <2>5 DEF Recas
    <2>6. CASE Cleanup(t) \/ WakeWaiter(t)
        BY <2>6 DEF Cleanup, WakeWaiter, FutexWakeOne
    <2>7. CASE AtomicDecf(t)
        <3>1. word.owner = t /\ word.state \in {1, 2}
            BY <2>7 DEF AtomicDecf, OwnerNamesHolder, HoldsFor, OwnedIsLocked
        <3> QED
            BY <2>7, <3>1 DEF AtomicDecf
    <2>8. CASE ClearWord(t)
        BY <2>8 DEF ClearWord
    <2> QED
        BY <1>2, <2>1, <2>2, <2>3, <2>4, <2>5, <2>6, <2>7, <2>8 DEF Progress
<1>3. ASSUME NEW t \in Threads, Environment(t) PROVE NoLostWakeup'
    BY <1>3 DEF Environment, GrabMutex, ReleaseMutex, RefuseToWait, Eintr, TimedOut, Unwind
<1> QED
    BY <1>1, <1>2, <1>3 DEF Next

\* IInv is an invariant of the mutex.
THEOREM MutexIInv == Spec => []IInv
<1>1. IInv /\ [Next]_vars => IInv'
    BY TypeStep, OwnerStep, WakeupStep DEF IInv
<1> QED
    BY <1>1, InitIInv, PTL DEF Spec

\* Type correctness of the word, the program counters and the locals of
\* GRAB-MUTEX and RELEASE-MUTEX.
THEOREM MutexTypeOK == Spec => []TypeOK
<1>1. IInv => TypeOK
    BY DEF IInv
<1> QED
    BY <1>1, MutexIInv, PTL

\* At most one thread is between a successful GRAB-MUTEX and the decrement of
\* its RELEASE-MUTEX.
THEOREM MutexExclusion == Spec => []MutualExclusion
<1>1. IInv => MutualExclusion
    BY OwnerGivesExclusion DEF IInv
<1> QED
    BY <1>1, MutexIInv, PTL

\* No timeout, signal, unwind or barging thread loses the wake-up that a
\* sleeper in %MUTEX-TIMEDLOCK depends on.
THEOREM MutexNoLostWakeup == Spec => []NoLostWakeup
<1>1. IInv => NoLostWakeup
    BY DEF IInv
<1> QED
    BY <1>1, MutexIInv, PTL

\* The plain store in RELEASE-MUTEX overwrites nobody's acquisition.
THEOREM MutexStoreIsPrivate == Spec => []StoreIsPrivate
<1>1. IInv => StoreIsPrivate
    BY DEF IInv
<1> QED
    BY <1>1, MutexIInv, PTL

\* Initially the lock is free and nobody is inside.
LEMMA RefineInit == Init => L!LockInit
BY MutexAssumption DEF Init, L!LockInit, AbstractInside, Free, Pack

\* The threads inside the body are the owner or nobody.
LEMMA InsideIsOwner == IInv => AbstractInside \subseteq {word.owner}
BY DEF IInv, OwnerNamesHolder, HoldsFor, AbstractInside

\* Every step of the futex mutex is a step of the abstract lock or changes
\* neither its owner nor who is inside.
LEMMA RefineStep ==
    IInv /\ [Next]_vars => [L!LockNext]_<<word.owner, AbstractInside>>
<1> DEFINE Same == UNCHANGED <<word.owner, AbstractInside>>
<1> SUFFICES ASSUME IInv, [Next]_vars PROVE L!LockNext \/ Same
    OBVIOUS
<1>0. TypeOK /\ OwnerNamesHolder /\ OwnedIsLocked /\ NoOrphanWord /\ StoreIsPrivate
    BY DEF IInv
<1>a. AbstractInside \subseteq {word.owner}
    BY InsideIsOwner
<1> USE MutexAssumption, <1>0 DEF TypeOK, Words, Owners, Places, Goto, Pack, Free
<1>1. CASE UNCHANGED vars
    BY <1>1 DEF vars, AbstractInside
<1>2. ASSUME NEW t \in Threads, Progress(t) PROVE L!LockNext \/ Same
    <2>1. ASSUME word = Free, word'.owner = t, AbstractInside' = {t} PROVE L!LockNext
        BY <2>1 DEF L!LockNext, L!Acquire
    <2>2. CASE TryMutex(t)
        <3>1. CASE word = Free
            <4>1. AbstractInside' = {t}
                BY <2>2, <3>1, <1>a DEF TryMutex, AbstractInside
            <4> QED
                BY <2>1, <2>2, <3>1, <4>1 DEF TryMutex
        <3>2. CASE word.owner = t
            <4>1. AbstractInside = {t} /\ word' = word
                BY <2>2, <3>2, <1>a DEF TryMutex, AbstractInside
            <4>2. AbstractInside' = {} \/ AbstractInside' = AbstractInside
                BY <2>2, <3>2, <4>1, <1>a DEF TryMutex, AbstractInside
            <4> QED
                BY <4>1, <4>2 DEF L!LockNext, L!Leave
        <3>3. CASE word # Free /\ word.owner # t
            BY <2>2, <3>3 DEF TryMutex, AbstractInside
        <3> QED
            BY <3>1, <3>2, <3>3
    <2>3. CASE FirstCas(t) \/ Recas(t)
        <3>1. CASE word = Free
            <4>1. AbstractInside' = {t} /\ word'.owner = t
                BY <2>3, <3>1, <1>a DEF FirstCas, Recas, AbstractInside
            <4> QED
                BY <2>1, <3>1, <4>1
        <3>2. CASE word # Free
            BY <2>3, <3>2 DEF FirstCas, Recas, AbstractInside
        <3> QED
            BY <3>1, <3>2
    <2>4. CASE MarkContended(t)
        BY <2>4 DEF MarkContended, AbstractInside
    <2>5. CASE FutexWait(t) \/ WakeUp(t) \/ SignalDeadline(t) \/ ReadOwner(t)
        BY <2>5 DEF FutexWait, WakeUp, SignalDeadline, ReadOwner, AbstractInside
    <2>6. CASE Cleanup(t) \/ WakeWaiter(t)
        BY <2>6 DEF Cleanup, WakeWaiter, FutexWakeOne, Sleepers, AbstractInside
    <2>7. CASE AtomicDecf(t)
        <3>1. word.owner = t /\ word'.owner = NoThread
            BY <2>7 DEF AtomicDecf, OwnerNamesHolder, HoldsFor
        <3>2. AbstractInside = {} /\ AbstractInside' = {}
            BY <2>7, <3>1, <1>a DEF AtomicDecf, AbstractInside
        <3> QED
            BY <3>1, <3>2 DEF L!LockNext, L!GiveUp
    <2>8. CASE ClearWord(t)
        <3>1. word.owner = NoThread /\ word'.owner = NoThread
            BY <2>8 DEF ClearWord, StoreIsPrivate
        <3> QED
            BY <2>8, <3>1, <1>a DEF ClearWord, AbstractInside
    <2> QED
        BY <1>2, <2>2, <2>3, <2>4, <2>5, <2>6, <2>7, <2>8 DEF Progress
<1>3. ASSUME NEW t \in Threads, Environment(t) PROVE L!LockNext \/ Same
    <2>1. CASE GrabMutex(t)
        BY <2>1 DEF GrabMutex, AbstractInside, OwnerNamesHolder, HoldsFor
    <2>2. CASE ReleaseMutex(t)
        <3>1. CASE pc[t] = "held"
            <4>1. AbstractInside = {t} /\ AbstractInside' = {} /\ word' = word
                BY <2>2, <3>1, <1>a DEF ReleaseMutex, AbstractInside
            <4> QED
                BY <4>1 DEF L!LockNext, L!Leave
        <3>2. CASE pc[t] = "out"
            BY <2>2, <3>2 DEF ReleaseMutex, AbstractInside
        <3> QED
            BY <2>2, <3>1, <3>2 DEF ReleaseMutex
    <2>3. CASE RefuseToWait(t) \/ Eintr(t) \/ TimedOut(t) \/ Unwind(t)
        BY <2>3 DEF RefuseToWait, Eintr, TimedOut, Unwind, AbstractInside
    <2> QED
        BY <1>3, <2>1, <2>2, <2>3 DEF Environment
<1> QED
    BY <1>1, <1>2, <1>3 DEF Next

\* The futex mutex implements the abstract lock that CONDITION-WAIT and the
\* semaphores are written against.
THEOREM MutexImplementsLock == Spec => ImplementsLock
<1>1. Spec => []IInv
    BY MutexIInv
<1> QED
    BY <1>1, RefineInit, RefineStep, PTL DEF Spec, ImplementsLock, L!LockSpec
=============================================================================
