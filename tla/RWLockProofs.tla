---------------------------- MODULE RWLockProofs ----------------------------
(* Proofs about the writer-preferring reader/writer lock, for any finite     *)
(* number of threads and any number of calls, under RWLockAssumption.        *)
EXTENDS RWLock, Counting

\* StateExact and PendingExact, in terms of Count.
Exact ==
    /\ state.readers = Count(Readers, pc, {"held", "unlock"})
    /\ pending["R"] = Count(Readers, pc, {"fwait", "asleep", "unpend"})
    /\ pending["W"] = Count(Writers, pc, {"fwait", "asleep", "unpend"})
    /\ state.writer <=> \E w \in Writers : HoldsWrite(w)
    /\ state.pR <=> pending["R"] > 0
    /\ state.pW <=> pending["W"] > 0

LEMMA ExactMeans == /\ Exact <=> StateExact /\ PendingExact
                    /\ Exact' <=> StateExact' /\ PendingExact'
<1>1. {t \in Readers : HoldsRead(t)} = {t \in Readers : pc[t] \in {"held", "unlock"}}
    BY DEF HoldsRead
<1>2. {t \in Readers : HoldsRead(t)'} = {t \in Readers : pc'[t] \in {"held", "unlock"}}
    BY DEF HoldsRead
<1> QED
    BY <1>1, <1>2 DEF Exact, StateExact, PendingExact, Count, Announced

\* Readers and writers are finite sets.
LEMMA FiniteKinds ==
    ASSUME RWLockAssumption PROVE IsFiniteSet(Readers) /\ IsFiniteSet(Writers)
BY FS_Subset DEF Users, RWLockAssumption

\* The initial state.
LEMMA InitIInv == ASSUME RWLockAssumption, Init PROVE IInv
<1> USE DEF Init, RWLockAssumption
<1>1. TypeOK
    BY DEF TypeOK, Places, Kinds
<1>2. LocalsInStep
    BY DEF LocalsInStep, Kind, Kinds
<1>3. \A t \in Users : pc[t] = "out"
    OBVIOUS
<1>4. StateExact /\ PendingExact
    <2>1. \A P : "out" \notin P => Count(Readers, pc, P) = 0 /\ Count(Writers, pc, P) = 0
        BY <1>3, FiniteKinds, CountNat DEF Users
    <2>2. pending["R"] = 0 /\ pending["W"] = 0
        BY DEF Kinds
    <2>3. ~ \E w \in Writers : HoldsWrite(w)
        BY <1>3 DEF HoldsWrite, Users
    <2> QED
        BY <2>1, <2>2, <2>3, ExactMeans DEF Exact
<1>5. WriterAlone /\ TidExact /\ TidNamesHolder
    BY <1>3 DEF WriterAlone, TidExact, TidNamesHolder, HoldsRead, HoldsWrite, Users
<1>6. WritersAnsweredFor /\ ReadersAnsweredFor
    BY <1>3 DEF WritersAnsweredFor, ReadersAnsweredFor, Fresh, Sleepers, Users
<1> QED
    BY <1>1, <1>2, <1>4, <1>5, <1>6 DEF IInv

\* What moving one thread does to the counts.
LEMMA Moved ==
    ASSUME RWLockAssumption, TypeOK, NEW t \in Users, NEW p \in Places, Goto(t, p)
    PROVE  /\ pc' \in [Users -> Places]
           /\ \A s \in Users : pc'[s] = IF s = t THEN p ELSE pc[s]
           /\ \A P : \A S \in {Readers, Writers} :
                 Count(S, pc', P) = IF t \notin S \/ (pc[t] \in P <=> p \in P) THEN Count(S, pc, P)
                                    ELSE IF p \in P THEN Count(S, pc, P) + 1
                                    ELSE Count(S, pc, P) - 1
<1>1. pc' \in [Users -> Places] /\ \A s \in Users : pc'[s] = IF s = t THEN p ELSE pc[s]
    BY DEF Goto, TypeOK
<1>2. ASSUME NEW S \in {Readers, Writers}, NEW P
      PROVE  Count(S, pc', P) = IF t \notin S \/ (pc[t] \in P <=> p \in P) THEN Count(S, pc, P)
                                ELSE IF p \in P THEN Count(S, pc, P) + 1
                                ELSE Count(S, pc, P) - 1
    <2>1. IsFiniteSet(S) /\ \A s \in S : pc'[s] = IF s = t THEN p ELSE pc[s]
        BY <1>1, FiniteKinds DEF Users
    <2> HIDE DEF Goto
    <2> QED
        BY <2>1, CountMove
<1> QED
    BY <1>1, <1>2

\* The words count exactly: each action changes a count, a bit or a flag with
\* the place of the thread it counts.
LEMMA ExactStep ==
    ASSUME RWLockAssumption, IInv, [Next]_vars
    PROVE  TypeOK' /\ LocalsInStep' /\ StateExact' /\ PendingExact'
<1> SUFFICES TypeOK' /\ LocalsInStep' /\ Exact'
    BY ExactMeans
<1>2. TypeOK /\ LocalsInStep /\ Exact /\ WriterAlone
    BY ExactMeans DEF IInv
<1>3. CASE UNCHANGED vars
    BY <1>2, <1>3 DEF vars, TypeOK, LocalsInStep, Exact, HoldsWrite
<1> USE FiniteKinds DEF RWLockAssumption
<1> SUFFICES ASSUME NEW t \in Users, LockCall(t) \/ SpuriousWakeup(t) \/ Step(t)
             PROVE  TypeOK' /\ LocalsInStep' /\ Exact'
    BY <1>3 DEF Next
\* Steps that leave the words alone and enter or leave none of the counted places.
<1>4. ASSUME NEW p \in Places, Goto(t, p), UNCHANGED <<state, pending, wakeWord, serial>>,
             tid' \in Users \cup {NoThread}, calls' \in [Users -> Nat],
             p \in {"settid", "cleartid"} => t \in Writers,
             pc[t] \in {"fwait", "asleep", "unpend"} <=> p \in {"fwait", "asleep", "unpend"},
             t \in Readers => (pc[t] \in {"held", "unlock"} <=> p \in {"held", "unlock"}),
             t \in Writers => (pc[t] \in {"settid", "held", "cleartid", "unlock"}
                                  <=> p \in {"settid", "held", "cleartid", "unlock"})
      PROVE  TypeOK' /\ LocalsInStep' /\ Exact'
    <2>1. TypeOK' /\ LocalsInStep'
        BY <1>2, <1>4, Moved DEF TypeOK, LocalsInStep, Kind
    <2>2. Exact'
        BY <1>2, <1>4, Moved DEF Exact, HoldsWrite, Users
    <2> QED
        BY <2>1, <2>2
<1>5. CASE LockCall(t) \/ SpuriousWakeup(t) \/ CheckTid(t) \/ Look(t) \/ FutexWait(t)
    BY <1>2, <1>4, <1>5 DEF LockCall, SpuriousWakeup, CheckTid, Look, FutexWait, Places, TypeOK
<1>6. CASE SetTid(t) \/ UnlockCall(t) \/ ClearTid(t)
    BY <1>2, <1>4, <1>6 DEF SetTid, UnlockCall, ClearTid, Places, TypeOK, LocalsInStep, Users
<1>7. CASE TryRdlock(t)
    <2>1. CASE CanRead(state)
        <3>1. /\ state' \in [readers : Nat, writer : BOOLEAN, pR : BOOLEAN, pW : BOOLEAN]
              /\ state'.readers = state.readers + 1
              /\ state'.writer = state.writer /\ state'.pR = state.pR /\ state'.pW = state.pW
            BY <1>2, <1>7, <2>1 DEF TryRdlock, TypeOK
        <3>2. /\ t \in Readers /\ pc[t] \in {"try", "retry"} /\ Goto(t, "held")
              /\ UNCHANGED <<tid, pending, wakeWord, serial, calls>>
            BY <1>7, <2>1 DEF TryRdlock
        <3> QED
            BY <1>2, <3>1, <3>2, Moved, CountNat
            DEF TypeOK, LocalsInStep, Kind, Exact, HoldsWrite, Users, Places
    <2>2. CASE ~ CanRead(state)
        BY <1>2, <1>4, <1>7, <2>2 DEF TryRdlock, Places, TypeOK
    <2> QED
        BY <2>1, <2>2
<1>8. CASE TryWrlock(t)
    <2>1. CASE CanWrite(state)
        <3>1. /\ state' \in [readers : Nat, writer : BOOLEAN, pR : BOOLEAN, pW : BOOLEAN]
              /\ state'.readers = state.readers /\ state'.writer = TRUE
              /\ state'.pR = state.pR /\ state'.pW = state.pW
            BY <1>2, <1>8, <2>1 DEF TryWrlock, TypeOK
        <3>2. /\ t \in Writers /\ pc[t] \in {"try", "retry"} /\ Goto(t, "settid")
              /\ UNCHANGED <<tid, pending, wakeWord, serial, calls>>
            BY <1>8, <2>1 DEF TryWrlock
        <3> QED
            BY <1>2, <3>1, <3>2, Moved
            DEF TypeOK, LocalsInStep, Kind, Exact, HoldsWrite, Users, Places
    <2>2. CASE ~ CanWrite(state)
        BY <1>2, <1>4, <1>8, <2>2 DEF TryWrlock, Places, TypeOK
    <2> QED
        BY <2>1, <2>2
<1>9. CASE Pend(t)
    <2>1. /\ state' \in [readers : Nat, writer : BOOLEAN, pR : BOOLEAN, pW : BOOLEAN]
          /\ state'.readers = state.readers /\ state'.writer = state.writer
          /\ state'.pR = IF t \in Readers THEN TRUE ELSE state.pR
          /\ state'.pW = IF t \in Readers THEN state.pW ELSE TRUE
        BY <1>2, <1>9 DEF Pend, TypeOK
    <2>2. /\ pc[t] = "pend" /\ pending' = [pending EXCEPT ![Kind(t)] = @ + 1]
          /\ serial' = [serial EXCEPT ![t] = wakeWord[Kind(t)]]
          /\ Goto(t, "unpend") \/ Goto(t, "fwait")
          /\ UNCHANGED <<tid, wakeWord, calls>>
        BY <1>9 DEF Pend
    <2>3. TypeOK' /\ LocalsInStep'
        BY <1>2, <2>1, <2>2, Moved DEF TypeOK, LocalsInStep, Kind, Kinds, Places
    <2>4. Exact'
        BY <1>2, <2>1, <2>2, Moved, CountNat
        DEF TypeOK, Kind, Kinds, Exact, HoldsWrite, Users, Places
    <2> QED
        BY <2>3, <2>4
<1>10. CASE Unpend(t)
    <2>0. pending[Kind(t)] \in Nat \ {0} /\ pc[t] = "unpend"
        BY <1>2, <1>10, CountNat DEF Unpend, Kind, Kinds, TypeOK, Exact, Users
    <2>1. /\ state' \in [readers : Nat, writer : BOOLEAN, pR : BOOLEAN, pW : BOOLEAN]
          /\ state'.readers = state.readers /\ state'.writer = state.writer
          /\ state'.pR = IF t \in Readers /\ pending[Kind(t)] = 1 THEN FALSE ELSE state.pR
          /\ state'.pW = IF t \notin Readers /\ pending[Kind(t)] = 1 THEN FALSE ELSE state.pW
        BY <1>2, <1>10 DEF Unpend, TypeOK
    <2>2. /\ pending' = [pending EXCEPT ![Kind(t)] = @ - 1]
          /\ serial' = [serial EXCEPT ![t] = 0]
          /\ Goto(t, "retry")
          /\ UNCHANGED <<tid, wakeWord, calls>>
        BY <1>10 DEF Unpend
    <2>3. TypeOK' /\ LocalsInStep'
        <3>1. pc' \in [Users -> Places] /\ \A s \in Users : pc'[s] = IF s = t THEN "retry" ELSE pc[s]
            BY <1>2, <2>2, Moved DEF Places
        <3>2. pending' \in [Kinds -> Nat] /\ serial' \in [Users -> Nat]
            BY <1>2, <2>0, <2>2 DEF TypeOK, Kind, Kinds
        <3>3. LocalsInStep'
            BY <1>2, <2>2, <3>1 DEF TypeOK, LocalsInStep, Kind, Kinds
        <3> QED
            BY <1>2, <2>1, <2>2, <3>1, <3>2, <3>3 DEF TypeOK
    <2>4. Exact'
        BY <1>2, <2>0, <2>1, <2>2, Moved, CountNat
        DEF TypeOK, Kind, Kinds, Exact, HoldsWrite, Users, Places
    <2> QED
        BY <2>3, <2>4
<1>11. CASE Unlock(t)
    <2>0. t \in Readers => state.readers > 0
        BY <1>2, <1>11, CountNat DEF Unlock, Exact
    <2>1. /\ state' \in [readers : Nat, writer : BOOLEAN, pR : BOOLEAN, pW : BOOLEAN]
          /\ state'.readers = IF t \in Writers THEN state.readers ELSE state.readers - 1
          /\ state'.writer = IF t \in Writers THEN FALSE ELSE state.writer
          /\ state'.pR = state.pR /\ state'.pW = state.pW
        <3>1. state.readers \in Nat /\ (t \notin Writers => state.readers - 1 \in Nat)
            BY <1>2, <2>0 DEF TypeOK, Users
        <3> QED
            BY <1>2, <1>11, <3>1 DEF Unlock, TypeOK
    <2>2. pc[t] = "unlock" /\ UNCHANGED <<tid, pending, wakeWord, serial, calls>>
        BY <1>11 DEF Unlock
    <2>3. PICK p \in {"choose", "out"} : Goto(t, p)
        BY <1>11 DEF Unlock
    <2>4. TypeOK' /\ LocalsInStep'
        BY <1>2, <2>1, <2>2, <2>3, Moved DEF TypeOK, LocalsInStep, Kind, Kinds, Places
    <2>5. \A w \in Writers : t \in Writers /\ w # t => ~ HoldsWrite(w)
        BY <1>2, <2>2 DEF WriterAlone, HoldsWrite, Users
    <2>6. state'.readers = Count(Readers, pc', {"held", "unlock"})
        BY <1>2, <2>1, <2>2, <2>3, Moved DEF TypeOK, Exact, Places, Users
    <2>7. state'.writer <=> \E w \in Writers : HoldsWrite(w)'
        BY <1>2, <2>1, <2>2, <2>3, <2>5, Moved DEF TypeOK, Exact, HoldsWrite, Users, Places
    <2>8. Exact'
        BY <1>2, <2>1, <2>2, <2>3, <2>6, <2>7, Moved DEF TypeOK, Exact, Places
    <2> QED
        BY <2>4, <2>8
<1>12. CASE Choose(t)
    <2>0. PICK p \in {"wakeW", "wakeR", "out"} : Goto(t, p)
        BY <1>12 DEF Choose
    <2>1. /\ pc[t] = "choose"
          /\ wakeWord' \in [Kinds -> Nat] /\ \A x \in Kinds : wakeWord[x] <= wakeWord'[x]
          /\ UNCHANGED <<state, tid, pending, serial, calls>>
        BY <1>2, <1>12 DEF Choose, TypeOK, Kinds
    <2>2. TypeOK' /\ LocalsInStep'
        BY <1>2, <2>0, <2>1, Moved DEF TypeOK, LocalsInStep, Kind, Kinds, Places
    <2>3. Exact'
        BY <1>2, <2>0, <2>1, Moved DEF TypeOK, Exact, HoldsWrite, Users, Places
    <2> QED
        BY <2>2, <2>3
\* A futex wake moves several threads, the sleepers among the announced ones.
<1>13. CASE WakeWriter(t) \/ WakeReaders(t)
    <2>0. /\ pc \in [Users -> Places] /\ Readers \subseteq Users /\ Writers \subseteq Users
          /\ UNCHANGED <<state, tid, pending, wakeWord, serial, calls>>
        BY <1>2, <1>13 DEF WakeWriter, WakeReaders, TypeOK, Users
    <2>1. PICK W \in SUBSET {s \in Users : pc[s] = "asleep"} :
             pc' = [s \in Users |-> IF s = t THEN "out" ELSE IF s \in W THEN "unpend" ELSE pc[s]]
        <3>1. CASE WakeReaders(t)
            BY <2>0, <3>1 DEF WakeReaders, Sleepers
        <3>2. CASE WakeWriter(t) /\ Sleepers(Writers) = {}
            <4>1. pc' = [pc EXCEPT ![t] = "out"]
                BY <3>2 DEF WakeWriter, Goto
            <4>2. pc' = [s \in Users |-> IF s = t THEN "out" ELSE IF s \in {} THEN "unpend" ELSE pc[s]]
                BY <2>0, <4>1
            <4> QED
                BY <4>2
        <3>3. CASE WakeWriter(t) /\ Sleepers(Writers) # {}
            <4>1. PICK s \in Sleepers(Writers) : pc' = [pc EXCEPT ![t] = "out", ![s] = "unpend"]
                BY <3>3 DEF WakeWriter
            <4>2. s \in Users /\ pc[s] = "asleep" /\ s # t
                BY <2>0, <3>3, <4>1 DEF Sleepers, WakeWriter
            <4>3. pc' = [u \in Users |-> IF u = t THEN "out" ELSE IF u \in {s} THEN "unpend" ELSE pc[u]]
                BY <2>0, <4>1, <4>2
            <4> QED
                BY <4>2, <4>3
        <3> QED
            BY <1>13, <3>1, <3>2, <3>3
    <2>2. pc[t] \in {"wakeW", "wakeR"}
        BY <1>13 DEF WakeWriter, WakeReaders
    <2>3. TypeOK' /\ LocalsInStep'
        <3>1. pc' \in [Users -> Places]
            BY <2>0, <2>1 DEF Places
        <3>2. \A s \in Users : pc'[s] \in {"settid", "cleartid"} => pc[s] = pc'[s]
            BY <2>0, <2>1
        <3> QED
            BY <1>2, <2>0, <3>1, <3>2 DEF TypeOK, LocalsInStep, Kind
    <2>4. /\ Count(Readers, pc', {"held", "unlock"}) = Count(Readers, pc, {"held", "unlock"})
          /\ \A S \in {Readers, Writers} : Count(S, pc', {"fwait", "asleep", "unpend"})
                                          = Count(S, pc, {"fwait", "asleep", "unpend"})
        <3>1. \A P : P \in {{"held", "unlock"}, {"fwait", "asleep", "unpend"}} =>
                \A s \in Users : pc[s] \in P <=> pc'[s] \in P
            BY <2>0, <2>1, <2>2
        <3> QED
            BY <2>0, <3>1, CountSame
    <2>5. \A w \in Writers : HoldsWrite(w) <=> HoldsWrite(w)'
        BY <2>0, <2>1, <2>2 DEF HoldsWrite
    <2>6. Exact'
        BY <1>2, <2>0, <2>4, <2>5 DEF Exact
    <2> QED
        BY <2>3, <2>6
<1> QED
    BY <1>5, <1>6, <1>7, <1>8, <1>9, <1>10, <1>11, <1>12, <1>13 DEF Step

\* Who may hold the lock: a thread gets in only when the word shows that
\* nobody is in its way, and the tid follows the writer from inside.
LEMMA ExclusionStep ==
    ASSUME RWLockAssumption, IInv, [Next]_vars
    PROVE  WriterAlone' /\ TidExact' /\ TidNamesHolder'
<1>1. /\ TypeOK /\ LocalsInStep /\ Exact /\ WriterAlone /\ TidExact /\ TidNamesHolder
      /\ TypeOK'
    BY ExactMeans, ExactStep DEF IInv
<1> USE DEF RWLockAssumption, HoldsRead, HoldsWrite
<1>2. /\ state.readers = 0 => \A r \in Readers : ~ HoldsRead(r)
      /\ ~ state.writer => \A w \in Writers : ~ HoldsWrite(w)
    BY <1>1, FiniteKinds, CountNat DEF Exact
<1>3. CASE UNCHANGED vars
    BY <1>1, <1>3 DEF vars, WriterAlone, TidExact, TidNamesHolder
<1> SUFFICES ASSUME NEW t \in Users, LockCall(t) \/ SpuriousWakeup(t) \/ Step(t)
             PROVE  WriterAlone' /\ TidExact' /\ TidNamesHolder'
    BY <1>3 DEF Next
\* Nobody gets in, and the tid stays.
<1>4. ASSUME \A s \in Users : \/ pc'[s] = pc[s]
                               \/ /\ ~ HoldsRead(s)' /\ ~ HoldsWrite(s)'
                                  /\ s \in Readers \/ pc[s] \notin {"held", "cleartid"},
             UNCHANGED tid
      PROVE  WriterAlone' /\ TidExact' /\ TidNamesHolder'
    <2>0. \A s \in Users : (HoldsRead(s)' => HoldsRead(s)) /\ (HoldsWrite(s)' => HoldsWrite(s))
        BY <1>4
    <2>1. WriterAlone'
        <3> HIDE DEF HoldsRead, HoldsWrite
        <3> QED BY <1>1, <2>0 DEF WriterAlone, Users
    <2>2. TidNamesHolder'
        BY <1>1, <1>4 DEF TidNamesHolder, Users
    <2>3. TidExact'
        BY <1>1, <1>4, <2>2 DEF TidExact, TidNamesHolder, Users
    <2> QED
        BY <2>1, <2>2, <2>3
<1>5. CASE LockCall(t) \/ SpuriousWakeup(t) \/ CheckTid(t) \/ Look(t) \/ FutexWait(t)
    BY <1>1, <1>4, <1>5 DEF LockCall, SpuriousWakeup, CheckTid, Look, FutexWait, TypeOK, Goto
<1>6. CASE Pend(t) \/ Unpend(t) \/ Choose(t)
    <2>1. PICK p \in {"fwait", "unpend", "retry", "wakeW", "wakeR", "out"} : Goto(t, p)
        BY <1>6 DEF Pend, Unpend, Choose
    <2>2. pc[t] \in {"pend", "unpend", "choose"} /\ UNCHANGED tid
        BY <1>6 DEF Pend, Unpend, Choose
    <2> QED
        BY <1>1, <1>4, <2>1, <2>2 DEF TypeOK, Goto
<1>7. CASE Unlock(t)
    <2>1. PICK p \in {"choose", "out"} : Goto(t, p)
        BY <1>7 DEF Unlock
    <2>2. pc[t] = "unlock" /\ UNCHANGED tid
        BY <1>7 DEF Unlock
    <2> QED
        BY <1>1, <1>4, <2>1, <2>2 DEF TypeOK, Goto
<1>8. CASE WakeWriter(t)
    <2>1. PICK s \in Users : pc[t] = "wakeW" /\ UNCHANGED tid /\
             (pc' = [pc EXCEPT ![t] = "out"] \/ (pc[s] = "asleep" /\ pc' = [pc EXCEPT ![t] = "out", ![s] = "unpend"]))
        BY <1>8 DEF WakeWriter, Goto, Sleepers, Users
    <2> QED
        BY <1>1, <1>4, <2>1 DEF TypeOK
<1>9. CASE WakeReaders(t)
    BY <1>1, <1>4, <1>9 DEF WakeReaders, Sleepers, TypeOK
<1>10. CASE TryRdlock(t)
    <2>1. CASE CanRead(state)
        <3>1. /\ t \in Readers /\ UNCHANGED tid /\ \A w \in Writers : ~ HoldsWrite(w)
              /\ \A s \in Users : pc'[s] = IF s = t THEN "held" ELSE pc[s]
            BY <1>1, <1>2, <1>10, <2>1 DEF TryRdlock, CanRead, Goto, TypeOK
        <3>2. WriterAlone'
            BY <3>1 DEF WriterAlone, Users
        <3> QED
            BY <1>1, <3>1, <3>2 DEF TidExact, TidNamesHolder, Users
    <2>2. CASE ~ CanRead(state)
        BY <1>1, <1>4, <1>10, <2>2 DEF TryRdlock, Goto, TypeOK
    <2> QED
        BY <2>1, <2>2
<1>11. CASE TryWrlock(t)
    <2>1. CASE CanWrite(state)
        <3>1. \A s \in Users : ~ HoldsRead(s) /\ ~ HoldsWrite(s)
            BY <1>1, <1>2, <2>1 DEF CanWrite, Locked, TypeOK
        <3>2. /\ t \in Writers /\ UNCHANGED tid
              /\ \A s \in Users : pc'[s] = IF s = t THEN "settid" ELSE pc[s]
            BY <1>1, <1>11, <2>1 DEF TryWrlock, Goto, TypeOK
        <3>3. WriterAlone'
            BY <3>1, <3>2 DEF WriterAlone, Users
        <3> QED
            BY <1>1, <3>1, <3>2, <3>3 DEF TidExact, TidNamesHolder, Users
    <2>2. CASE ~ CanWrite(state)
        BY <1>1, <1>4, <1>11, <2>2 DEF TryWrlock, Goto, TypeOK
    <2> QED
        BY <2>1, <2>2
<1>12. CASE SetTid(t) \/ ClearTid(t)
    <2>1. /\ t \in Writers /\ HoldsWrite(t) /\ HoldsWrite(t)'
          /\ \A s \in Users \ {t} : pc'[s] = pc[s] /\ ~ HoldsRead(s) /\ ~ HoldsWrite(s)
          /\ \/ tid' = t /\ pc'[t] = "held"
             \/ tid' = NoThread /\ pc'[t] = "unlock"
        BY <1>1, <1>12 DEF SetTid, ClearTid, LocalsInStep, WriterAlone, Goto, TypeOK
    <2>2. WriterAlone'
        BY <2>1 DEF WriterAlone, Users
    <2> QED
        BY <2>1, <2>2 DEF TidExact, TidNamesHolder, Users
<1>13. CASE UnlockCall(t)
    <2>1. /\ pc[t] = "held" /\ UNCHANGED tid
          /\ \A s \in Users : pc'[s] = IF s # t THEN pc[s]
                                      ELSE IF t \in Writers THEN "cleartid" ELSE "unlock"
        BY <1>1, <1>13 DEF UnlockCall, Goto, TypeOK
    <2>2. WriterAlone'
        BY <1>1, <2>1 DEF WriterAlone, Users
    <2> QED
        BY <1>1, <2>1, <2>2 DEF TidExact, TidNamesHolder, Users
<1> QED
    BY <1>5, <1>6, <1>7, <1>8, <1>9, <1>10, <1>11, <1>12, <1>13 DEF Step

\* Responsibility for the sleepers is handed on by every action.
LEMMA AnsweredStep ==
    ASSUME RWLockAssumption, IInv, [Next]_vars
    PROVE  WritersAnsweredFor' /\ ReadersAnsweredFor'
<1>1. TypeOK /\ LocalsInStep /\ Exact /\ WritersAnsweredFor /\ ReadersAnsweredFor
    BY ExactMeans DEF IInv
<1> USE DEF RWLockAssumption, WritersAnsweredFor, ReadersAnsweredFor, Fresh, Sleepers, Somebody, WriterActive,
        WriterAnnouncedOrActive, Locked, Kind
<1>2. /\ \A w \in Writers : pc[w] \in {"fwait", "asleep", "unpend"} => pending["W"] > 0 /\ state.pW
      /\ \A r \in Readers : pc[r] \in {"fwait", "asleep", "unpend"} => pending["R"] > 0 /\ state.pR
      /\ state.pW => \E w \in Writers : pc[w] \in {"fwait", "asleep", "unpend"}
    BY <1>1, FiniteKinds, CountNat DEF Exact
<1>3. CASE UNCHANGED vars
    BY <1>1, <1>3 DEF vars
<1> SUFFICES ASSUME NEW t \in Users, LockCall(t) \/ SpuriousWakeup(t) \/ Step(t)
             PROVE  WritersAnsweredFor' /\ ReadersAnsweredFor'
    BY <1>3 DEF Next
<1>5. CASE LockCall(t) \/ SetTid(t) \/ CheckTid(t) \/ UnlockCall(t) \/ ClearTid(t) \/ Look(t)
    <2>1. PICK p \in {"try", "held", "out", "retry", "pend", "cleartid", "unlock"} :
             /\ Goto(t, p) /\ UNCHANGED <<state, wakeWord, serial>>
             /\ pc[t] \in {"look", "retry"} => p \in {"retry", "pend"}
        BY <1>5 DEF LockCall, SetTid, CheckTid, UnlockCall, ClearTid, Look
    <2>2. pc[t] \in {"out", "settid", "check", "held", "cleartid", "look"}
        BY <1>5 DEF LockCall, SetTid, CheckTid, UnlockCall, ClearTid, Look
    <2>3. \A s \in Users : pc'[s] = IF s = t THEN p ELSE pc[s]
        BY <1>1, <2>1 DEF Goto, TypeOK
    <2> QED
        BY <1>1, <2>1, <2>2, <2>3 DEF Users
<1>6. CASE SpuriousWakeup(t) \/ FutexWait(t)
    <2>1. PICK p \in {"asleep", "unpend"} : Goto(t, p)
        BY <1>6 DEF SpuriousWakeup, FutexWait
    <2>2. /\ pc[t] \in {"asleep", "fwait"} /\ UNCHANGED <<state, wakeWord, serial>>
          /\ p = "asleep" => pc[t] = "fwait" /\ Fresh(t)
        BY <1>1, <1>6, <2>1 DEF SpuriousWakeup, FutexWait, Goto, TypeOK
    <2>3. \A s \in Users : pc'[s] = IF s = t THEN p ELSE pc[s]
        BY <1>1, <2>1 DEF Goto, TypeOK
    <2> QED
        BY <1>1, <2>1, <2>2, <2>3 DEF Users
<1>7. CASE TryRdlock(t) \/ TryWrlock(t)
    <2>1. UNCHANGED <<wakeWord, serial>> /\ pc[t] \in {"try", "retry"}
        BY <1>7 DEF TryRdlock, TryWrlock
    <2>2. CASE CanAcquire(t, state)
        <3>1. Locked(state')
            <4>1. CASE TryRdlock(t)
                <5>1. state' = [state EXCEPT !.readers = @ + 1]
                    BY <4>1, <2>2 DEF TryRdlock, CanAcquire
                <5>2. state'.readers = state.readers + 1 /\ state.readers \in Nat
                    BY <1>1, <5>1 DEF TypeOK
                <5> QED
                    BY <5>2
            <4>2. CASE TryWrlock(t)
                <5>1. state' = [state EXCEPT !.writer = TRUE]
                    BY <4>2, <2>2 DEF TryWrlock, CanAcquire
                <5> QED
                    BY <1>1, <5>1 DEF TypeOK
            <4> QED
                BY <1>7, <4>1, <4>2
        <3> QED
            BY <3>1
    <2>3. CASE ~ CanAcquire(t, state)
        <3>1. UNCHANGED state /\ (t \in Writers => Locked(state))
            BY <1>7, <2>3 DEF TryRdlock, TryWrlock, CanAcquire, CanWrite
        <3>2. PICK p \in {"check", "look"} : Goto(t, p) /\ (pc[t] = "retry" => p = "look")
            BY <1>7, <2>3 DEF TryRdlock, TryWrlock, CanAcquire
        <3>3. \A s \in Users : pc'[s] = IF s = t THEN p ELSE pc[s]
            BY <1>1, <3>2 DEF Goto, TypeOK
        <3> QED
            BY <1>1, <2>1, <3>1, <3>2, <3>3 DEF Users
    <2> QED
        BY <2>2, <2>3
<1>8. CASE Pend(t)
    <2>1. state'.readers = state.readers /\ state'.writer = state.writer
        BY <1>1, <1>8 DEF Pend, TypeOK
    <2>2. PICK p \in {"unpend", "fwait"} : Goto(t, p) /\ (p = "fwait" => ~ CanAcquire(t, state))
        BY <1>8 DEF Pend
    <2>3. /\ pc[t] = "pend" /\ UNCHANGED wakeWord
          /\ \A s \in Users : pc'[s] = IF s = t THEN p ELSE pc[s]
          /\ \A s \in Users : s # t => serial'[s] = serial[s]
        BY <1>1, <1>8, <2>2 DEF Pend, Goto, TypeOK
    <2>4. /\ t \in Writers /\ p = "fwait" => Locked(state)
          /\ t \in Readers /\ p = "fwait" => Locked(state) \/ state.pW
        BY <2>2 DEF CanAcquire, CanRead, CanWrite
    <2>5. WritersAnsweredFor'
        BY <1>1, <2>1, <2>2, <2>3, <2>4 DEF Users
    <2>6. ReadersAnsweredFor'
        BY <1>1, <1>2, <2>1, <2>2, <2>3, <2>4 DEF Users
    <2> QED
        BY <2>5, <2>6
<1>9. CASE Unpend(t)
    <2>1. state'.readers = state.readers /\ state'.writer = state.writer
        BY <1>1, <1>9 DEF Unpend, TypeOK
    <2>2. /\ pc[t] = "unpend" /\ UNCHANGED wakeWord
          /\ \A s \in Users : pc'[s] = IF s = t THEN "retry" ELSE pc[s]
          /\ \A s \in Users : s # t => serial'[s] = serial[s]
        BY <1>1, <1>9 DEF Unpend, Goto, TypeOK
    <2> QED
        BY <1>1, <2>1, <2>2 DEF Users
<1>10. CASE Unlock(t)
    <2>1. /\ pc[t] = "unlock" /\ UNCHANGED <<wakeWord, serial>>
          /\ state.readers < 2 /\ (state.pR \/ state.pW) => Goto(t, "choose")
          /\ Goto(t, "choose") \/ Goto(t, "out")
        BY <1>10 DEF Unlock
    <2>2. ~ (state.readers < 2) => Locked(state')
        <3> SUFFICES ASSUME ~ (state.readers < 2) PROVE Locked(state')
            OBVIOUS
        <3>1. CASE t \in Writers
            <4>1. state'.readers = state.readers
                BY <1>1, <1>10, <3>1 DEF Unlock, TypeOK
            <4> QED
                BY <1>1, <4>1 DEF TypeOK
        <3>2. CASE t \notin Writers
            <4>1. state'.readers = state.readers - 1
                BY <1>1, <1>10, <3>2 DEF Unlock, TypeOK
            <4> QED
                BY <1>1, <4>1 DEF TypeOK
        <3> QED
            BY <3>1, <3>2
    <2>3. PICK p \in {"choose", "out"} : \A s \in Users : pc'[s] = IF s = t THEN p ELSE pc[s]
        BY <1>1, <2>1 DEF Goto, TypeOK
    <2>4. state.readers < 2 /\ (state.pR \/ state.pW) => pc'[t] = "choose"
        BY <1>1, <2>1 DEF Goto, TypeOK
    <2> QED
        BY <1>1, <1>2, <2>1, <2>2, <2>3, <2>4 DEF Users
<1>11. CASE Choose(t)
    <2>1. pc[t] = "choose" /\ UNCHANGED <<state, pending, serial>>
        BY <1>11 DEF Choose
    <2>2. CASE pending["W"] > 0
        <3>1. /\ \A s \in Users : pc'[s] = IF s = t THEN "wakeW" ELSE pc[s]
              /\ wakeWord'["W"] = wakeWord["W"] + 1 /\ wakeWord'["R"] = wakeWord["R"]
            BY <1>1, <1>11, <2>2 DEF Choose, Goto, TypeOK, Kinds
        <3>2. \A w \in Writers : serial[w] <= wakeWord["W"] /\ serial[w] \in Nat /\ wakeWord["W"] \in Nat
            BY <1>1 DEF LocalsInStep, TypeOK, Kinds, Users
        <3>3. \A w \in Writers : ~ Fresh(w)'
            BY <2>1, <3>1, <3>2
        <3>4. WriterAnnouncedOrActive'
            <4>1. \E w \in Writers : pc[w] \in {"fwait", "asleep", "unpend"}
                BY <1>1, <1>2, <2>2 DEF Exact
            <4> QED
                BY <2>1, <3>1, <4>1 DEF Users
        <3> QED
            BY <2>1, <3>1, <3>3, <3>4 DEF Users
    <2>3. CASE ~ (pending["W"] > 0) /\ pending["R"] > 0
        <3>1. /\ \A s \in Users : pc'[s] = IF s = t THEN "wakeR" ELSE pc[s]
              /\ wakeWord'["R"] = wakeWord["R"] + 1 /\ wakeWord'["W"] = wakeWord["W"]
            BY <1>1, <1>11, <2>3 DEF Choose, Goto, TypeOK, Kinds
        <3>2. \A r \in Readers : serial[r] <= wakeWord["R"] /\ serial[r] \in Nat /\ wakeWord["R"] \in Nat
            BY <1>1 DEF LocalsInStep, TypeOK, Kinds, Users
        <3>3. \A r \in Readers : ~ Fresh(r)'
            BY <2>1, <3>1, <3>2
        <3>4. \A w \in Writers : pc[w] \notin {"fwait", "asleep"}
            BY <1>2, <2>3
        <3> QED
            BY <2>1, <3>1, <3>3, <3>4 DEF Users
    <2>4. CASE ~ (pending["W"] > 0) /\ ~ (pending["R"] > 0)
        <3>1. \A s \in Users : pc'[s] = IF s = t THEN "out" ELSE pc[s]
            BY <1>1, <1>11, <2>4 DEF Choose, Goto, TypeOK, Kinds
        <3>2. \A s \in Users : pc[s] \notin {"fwait", "asleep"}
            BY <1>2, <2>4 DEF Users
        <3> QED
            BY <3>1, <3>2 DEF Users
    <2> QED
        BY <2>2, <2>3, <2>4
<1>12. CASE WakeWriter(t)
    <2>1. pc[t] = "wakeW" /\ UNCHANGED <<state, wakeWord, serial>>
        BY <1>12 DEF WakeWriter
    <2>2. CASE Sleepers(Writers) = {}
        <3>1. \A s \in Users : pc'[s] = IF s = t THEN "out" ELSE pc[s]
            BY <1>1, <1>12, <2>2 DEF WakeWriter, Goto, TypeOK
        <3> QED
            BY <1>1, <2>1, <2>2, <3>1 DEF Users
    <2>3. CASE Sleepers(Writers) # {}
        <3>1. PICK s \in Sleepers(Writers) : pc' = [pc EXCEPT ![t] = "out", ![s] = "unpend"]
            BY <1>12, <2>3 DEF WakeWriter
        <3>2. s \in Writers /\ s \in Users /\ pc[s] = "asleep" /\ s # t
            BY <2>1, <3>1 DEF Users
        <3>3. \A u \in Users : pc'[u] = IF u = t THEN "out" ELSE IF u = s THEN "unpend" ELSE pc[u]
            BY <1>1, <3>1, <3>2 DEF TypeOK
        <3> QED
            BY <1>1, <2>1, <3>2, <3>3 DEF Users
    <2> QED
        BY <2>2, <2>3
<1>13. CASE WakeReaders(t)
    <2>1. /\ pc[t] = "wakeR" /\ UNCHANGED <<state, wakeWord, serial>>
          /\ \A s \in Users : pc'[s] = IF s = t THEN "out"
                                      ELSE IF s \in Readers /\ pc[s] = "asleep" THEN "unpend"
                                      ELSE pc[s]
        BY <1>13 DEF WakeReaders
    <2> QED
        BY <1>1, <2>1 DEF Users
<1> QED
    BY <1>5, <1>6, <1>7, <1>8, <1>9, <1>10, <1>11, <1>12, <1>13 DEF Step

\* The inductive invariant of the reader/writer lock holds for any finite set
\* of threads and any number of calls.
THEOREM RWLockIInv == RWLockAssumption => (Spec => []IInv)
<1> SUFFICES ASSUME RWLockAssumption PROVE Spec => []IInv
    OBVIOUS
<1>0. Init => IInv
    BY InitIInv
<1>1. IInv /\ [Next]_vars => IInv'
    BY ExactStep, ExclusionStep, AnsweredStep DEF IInv
<1> QED
    BY <1>0, <1>1, PTL DEF Spec

\* rwlock-rdlock and rwlock-wrlock: a writer is alone, and the tid names only
\* the writer that holds the lock.
THEOREM RWLockExclusion == RWLockAssumption => (Spec => []Exclusion)
<1>1. IInv => Exclusion
    BY DEF IInv, Exclusion
<1> QED
    BY <1>1, RWLockIInv, PTL

\* The CAS loops on the state word lose no update, and the writer tid is
\* never that of a thread outside.
THEOREM RWLockWordsExact ==
    RWLockAssumption => (Spec => [](StateExact /\ PendingExact /\ TidExact))
<1>1. IInv => StateExact /\ PendingExact /\ TidExact
    BY DEF IInv
<1> QED
    BY <1>1, RWLockIInv, PTL

\* Somebody answers for every sleeper, and is himself on the way.
LEMMA AnsweredIsAwake == ASSUME RWLockAssumption, IInv PROVE NoSleeperForgotten
<1> SUFFICES ASSUME Sleepers(Users) # {} PROVE \E t \in Users : OnTheWay(t)
    BY DEF NoSleeperForgotten
<1>1. TypeOK /\ Exact /\ WritersAnsweredFor /\ ReadersAnsweredFor
    BY ExactMeans DEF IInv
<1>2. Locked(state) => \E t \in Users : OnTheWay(t)
    <2>1. state.readers > 0 => \E r \in Readers : pc[r] \in {"held", "unlock"}
        BY <1>1, FiniteKinds, CountNat DEF Exact, TypeOK
    <2>2. state.writer => \E w \in Writers : HoldsWrite(w)
        BY <1>1 DEF Exact
    <2> QED
        BY <2>1, <2>2 DEF Locked, OnTheWay, HoldsWrite, Users
<1>3. Sleepers(Writers) # {} => \E t \in Users : OnTheWay(t)
    BY <1>1, <1>2 DEF WritersAnsweredFor, WriterActive, Somebody, OnTheWay, Users
<1>4. Sleepers(Readers) # {} => \E t \in Users : OnTheWay(t)
    BY <1>1, <1>2, <1>3
    DEF ReadersAnsweredFor, WriterAnnouncedOrActive, Somebody, OnTheWay, Users, Sleepers
<1> QED
    BY <1>3, <1>4 DEF Sleepers, Users

\* No lost wake-up: nobody sleeps while all others are outside.
THEOREM RWLockNoLostWakeup == RWLockAssumption => (Spec => []NoSleeperForgotten)
<1> SUFFICES ASSUME RWLockAssumption PROVE Spec => []NoSleeperForgotten
    OBVIOUS
<1>1. IInv => NoSleeperForgotten
    BY AnsweredIsAwake
<1> QED
    BY <1>1, RWLockIInv, PTL

\* Writer preference, a property of every step: while a writer is announced
\* the number of readers inside can only go down.
THEOREM RWLockWriterPreferred == RWLockAssumption => (Spec => WriterPreferred)
<1>1. IInv /\ [Next]_vars => [pending["W"] > 0 => state'.readers <= state.readers]_vars
    <2> SUFFICES ASSUME IInv, Next, pending["W"] > 0 PROVE state'.readers <= state.readers
        OBVIOUS
    <2>1. TypeOK /\ state.pW
        BY DEF IInv, StateExact
    <2>2. PICK t \in Users : LockCall(t) \/ SpuriousWakeup(t) \/ Step(t)
        BY DEF Next
    <2>3. CASE TryRdlock(t) \/ UNCHANGED state
        BY <2>1, <2>3 DEF TryRdlock, CanRead, TypeOK
    <2>4. CASE TryWrlock(t) \/ Pend(t) \/ Unpend(t)
        <3>1. state'.readers = state.readers
            BY <2>1, <2>4 DEF TryWrlock, Pend, Unpend, TypeOK
        <3> QED
            BY <2>1, <3>1 DEF TypeOK
    <2>5. CASE Unlock(t)
        <3>1. state'.readers = state.readers \/ state'.readers = state.readers - 1
            BY <2>1, <2>5 DEF Unlock, TypeOK
        <3> QED
            BY <2>1, <3>1 DEF TypeOK
    <2> QED
        BY <2>2, <2>3, <2>4, <2>5
        DEF LockCall, SpuriousWakeup, Step, SetTid, CheckTid, Look, FutexWait, UnlockCall,
            ClearTid, Choose, WakeWriter, WakeReaders
<1> QED
    BY <1>1, RWLockIInv, PTL DEF Spec, WriterPreferred
=============================================================================
