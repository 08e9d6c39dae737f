-------------------------- MODULE RWSpinlockProofs --------------------------
(* Proofs about the reader/writer spin lock, for any finite number of        *)
(* threads and any mask that leaves room for a reader.                       *)
EXTENDS RWSpinlock, Counting

\* WordExact in terms of Count, and its parts.
Exact ==
    /\ high = Count(Writers, pc, {"read", "cas"})
    /\ (\A w \in Writers : pc[w] # "held") =>
          low = Count(Readers, pc, {"held"}) /\ low < ReaderMask
    /\ (\E w \in Writers : pc[w] = "held") => low = ReaderMask

LEMMA ExactMeans == (Exact <=> WordExact) /\ (Exact' <=> WordExact')
<1>1. /\ Waiting = {t \in Writers : pc[t] \in {"read", "cas"}}
      /\ Holders(Readers) = {t \in Readers : pc[t] \in {"held"}}
      /\ Holders(Writers) = {} <=> \A w \in Writers : pc[w] # "held"
    BY DEF Waiting, Holders
<1>2. /\ Waiting' = {t \in Writers : pc'[t] \in {"read", "cas"}}
      /\ Holders(Readers)' = {t \in Readers : pc'[t] \in {"held"}}
      /\ Holders(Writers)' = {} <=> \A w \in Writers : pc'[w] # "held"
    BY DEF Waiting, Holders
<1> QED
    BY <1>1, <1>2 DEF Exact, WordExact, Count

\* Exclusion, thread by thread.
Alone == \A w \in Writers, t \in Users : pc[w] = "held" /\ pc[t] = "held" => w = t

LEMMA AloneMeans == (Alone <=> Exclusion) /\ (Alone' <=> Exclusion')
BY DEF Alone, Exclusion, Holders, Users

\* Readers and writers are finite sets.
LEMMA FiniteKinds ==
    ASSUME RWSpinlockAssumption PROVE IsFiniteSet(Readers) /\ IsFiniteSet(Writers)
BY FS_Subset DEF Users, RWSpinlockAssumption

\* The initial state: a word of zeros and nobody in a call.
LEMMA InitIInv == ASSUME RWSpinlockAssumption, Init PROVE IInv
<1>1. TypeOK /\ SeenIsFit
    BY DEF Init, TypeOK, SeenIsFit, Places
<1>2. Exact
    <2>1. \A P : "out" \notin P => Count(Readers, pc, P) = 0 /\ Count(Writers, pc, P) = 0
        BY FiniteKinds, CountNat DEF Init, Users
    <2> QED
        BY <2>1 DEF Init, Exact, Users, RWSpinlockAssumption
<1>3. Alone
    BY DEF Init, Alone, Users
<1> QED
    BY <1>1, <1>2, <1>3, ExactMeans, AloneMeans DEF IInv

\* What moving one thread does to the counts.
LEMMA Moved ==
    ASSUME RWSpinlockAssumption, TypeOK, NEW t \in Users, NEW p \in Places, Goto(t, p)
    PROVE  /\ pc' \in [Users -> Places]
           /\ \A s \in Users : pc'[s] = IF s = t THEN p ELSE pc[s]
           /\ \A P : \A S \in {Readers, Writers} :
                 Count(S, pc', P) = IF t \notin S \/ (pc[t] \in P <=> p \in P) THEN Count(S, pc, P)
                                    ELSE IF p \in P THEN Count(S, pc, P) + 1
                                    ELSE Count(S, pc, P) - 1
<1>1. pc' \in [Users -> Places] /\ \A s \in Users : pc'[s] = IF s = t THEN p ELSE pc[s]
    BY DEF Goto, TypeOK
<1>2. ASSUME NEW S \in {Readers, Writers}, NEW P
      PROVE  Count(S, pc', P) = IF t \notin S \/ (pc[t] \in P <=> p \in P) THEN Count(S, pc, P)
                                ELSE IF p \in P THEN Count(S, pc, P) + 1
                                ELSE Count(S, pc, P) - 1
    <2>1. IsFiniteSet(S) /\ \A s \in S : pc'[s] = IF s = t THEN p ELSE pc[s]
        BY <1>1, FiniteKinds DEF Users
    <2> HIDE DEF Goto
    <2> QED
        BY <2>1, CountMove
<1> QED
    BY <1>1, <1>2

\* Every action keeps the word exact and the writers alone.
LEMMA StepIInv == ASSUME RWSpinlockAssumption, IInv, [Next]_vars PROVE IInv'
<1> SUFFICES TypeOK' /\ SeenIsFit' /\ Exact' /\ Alone'
    BY ExactMeans, AloneMeans DEF IInv
<1>1. TypeOK /\ SeenIsFit /\ Exact /\ Alone
    BY ExactMeans, AloneMeans DEF IInv
<1>2. CASE UNCHANGED vars
    BY <1>1, <1>2 DEF vars, TypeOK, SeenIsFit, Exact, Alone
<1> SUFFICES ASSUME NEW t \in Users, Call(t) \/ ReaderStep(t) \/ WriterStep(t)
             PROVE  TypeOK' /\ SeenIsFit' /\ Exact' /\ Alone'
    BY <1>2 DEF Next
<1>0. Readers \subseteq Users /\ Writers \subseteq Users /\ (t \in Readers <=> t \notin Writers)
      /\ ReaderMask \in Nat /\ ReaderMask > 1
    BY DEF RWSpinlockAssumption, Users
<1>3. CASE Call(t)
    <2>1. PICK p \in {"read", "announce"} : Goto(t, p) /\ (p = "read" <=> t \in Readers)
        BY <1>3 DEF Call
    <2>2. pc[t] = "out" /\ UNCHANGED <<low, high, seen>>
        BY <1>3 DEF Call
    <2>3. /\ pc' \in [Users -> Places]
          /\ \A s \in Users : pc'[s] = IF s = t THEN p ELSE pc[s]
          /\ Count(Readers, pc', {"held"}) = Count(Readers, pc, {"held"})
          /\ Count(Writers, pc', {"read", "cas"}) = Count(Writers, pc, {"read", "cas"})
        BY <1>0, <1>1, <2>1, <2>2, Moved DEF Places
    <2> QED
        BY <1>0, <1>1, <2>1, <2>2, <2>3 DEF TypeOK, SeenIsFit, Exact, Alone
<1>4. CASE ReadForRead(t)
    <2>1. PICK p \in {"cas", "failed"} :
             /\ Goto(t, p)
             /\ p = "cas" => low < ReaderMask - 1 /\ high = 0 /\ See(t, <<low, high>>)
             /\ p = "failed" => UNCHANGED seen
        BY <1>4 DEF ReadForRead
    <2>2. t \in Readers /\ pc[t] = "read" /\ UNCHANGED <<low, high>>
        BY <1>4 DEF ReadForRead
    <2>3. /\ pc' \in [Users -> Places]
          /\ \A s \in Users : pc'[s] = IF s = t THEN p ELSE pc[s]
          /\ Count(Readers, pc', {"held"}) = Count(Readers, pc, {"held"})
          /\ Count(Writers, pc', {"read", "cas"}) = Count(Writers, pc, {"read", "cas"})
        BY <1>0, <1>1, <2>1, <2>2, Moved DEF Places
    <2>4. /\ seen' \in [Users -> Nat \X Nat]
          /\ \A s \in Users : s # t => seen'[s] = seen[s]
          /\ p = "cas" => seen'[t] = <<low, high>>
        BY <1>1, <2>1 DEF See, TypeOK
    <2> QED
        BY <1>0, <1>1, <2>1, <2>2, <2>3, <2>4 DEF TypeOK, SeenIsFit, Exact, Alone
<1>5. CASE CasForRead(t)
    <2>1. /\ t \in Readers /\ pc[t] = "cas" /\ UNCHANGED high
          /\ seen' \in [Users -> Nat \X Nat] /\ \A s \in Users : s # t => seen'[s] = seen[s]
        BY <1>1, <1>5 DEF CasForRead, See, TypeOK
    <2>2. CASE seen[t] = <<low, high>>
        <3>1. low < ReaderMask - 1 /\ low' = low + 1 /\ Goto(t, "held")
            BY <1>0, <1>1, <1>5, <2>1, <2>2 DEF CasForRead, SeenIsFit
        <3>2. /\ pc' \in [Users -> Places]
              /\ \A s \in Users : pc'[s] = IF s = t THEN "held" ELSE pc[s]
              /\ Count(Readers, pc', {"held"}) = Count(Readers, pc, {"held"}) + 1
              /\ Count(Writers, pc', {"read", "cas"}) = Count(Writers, pc, {"read", "cas"})
            BY <1>0, <1>1, <2>1, <3>1, Moved DEF Places
        <3>3. \A w \in Writers : pc[w] # "held"
            BY <1>0, <1>1, <3>1 DEF Exact, TypeOK
        <3> QED
            BY <1>0, <1>1, <2>1, <3>1, <3>2, <3>3 DEF TypeOK, SeenIsFit, Exact, Alone
    <2>3. CASE seen[t] # <<low, high>>
        <3>1. UNCHANGED low /\ Goto(t, "read")
            BY <1>5, <2>3 DEF CasForRead
        <3>2. /\ pc' \in [Users -> Places]
              /\ \A s \in Users : pc'[s] = IF s = t THEN "read" ELSE pc[s]
              /\ Count(Readers, pc', {"held"}) = Count(Readers, pc, {"held"})
              /\ Count(Writers, pc', {"read", "cas"}) = Count(Writers, pc, {"read", "cas"})
            BY <1>0, <1>1, <2>1, <3>1, Moved DEF Places
        <3> QED
            BY <1>0, <1>1, <2>1, <3>1, <3>2 DEF TypeOK, SeenIsFit, Exact, Alone
    <2> QED
        BY <2>2, <2>3
<1>6. CASE RdUnlock(t)
    <2>1. t \in Readers /\ pc[t] = "held" /\ low' = low - 1 /\ Goto(t, "out") /\ UNCHANGED <<high, seen>>
        BY <1>6 DEF RdUnlock
    <2>2. /\ pc' \in [Users -> Places]
          /\ \A s \in Users : pc'[s] = IF s = t THEN "out" ELSE pc[s]
          /\ Count(Readers, pc', {"held"}) = Count(Readers, pc, {"held"}) - 1
          /\ Count(Writers, pc', {"read", "cas"}) = Count(Writers, pc, {"read", "cas"})
        BY <1>0, <1>1, <2>1, Moved DEF Places
    <2>3. \A w \in Writers : pc[w] # "held"
        BY <1>0, <1>1, <2>1 DEF Alone
    <2>4. low = Count(Readers, pc, {"held"}) /\ low \in Nat \ {0} /\ low < ReaderMask
        BY <1>1, <2>1, <2>3, FiniteKinds, CountNat DEF Exact, TypeOK
    <2>5. low' \in Nat
        BY <2>1, <2>4
    <2>6. TypeOK'
        BY <1>1, <2>1, <2>2, <2>5 DEF TypeOK
    <2>7. SeenIsFit' /\ Alone'
        BY <1>0, <1>1, <2>1, <2>2 DEF SeenIsFit, Alone
    <2>8. Exact'
        BY <1>0, <1>1, <2>1, <2>2, <2>3, <2>4 DEF Exact
    <2> QED
        BY <2>6, <2>7, <2>8
<1>7. CASE Announce(t)
    <2>1. /\ t \in Writers /\ pc[t] = "announce" /\ high' = high + 1 /\ Goto(t, "read")
          /\ UNCHANGED <<low, seen>>
        BY <1>7 DEF Announce
    <2>2. /\ pc' \in [Users -> Places]
          /\ \A s \in Users : pc'[s] = IF s = t THEN "read" ELSE pc[s]
          /\ Count(Readers, pc', {"held"}) = Count(Readers, pc, {"held"})
          /\ Count(Writers, pc', {"read", "cas"}) = Count(Writers, pc, {"read", "cas"}) + 1
        BY <1>0, <1>1, <2>1, Moved DEF Places
    <2> QED
        BY <1>0, <1>1, <2>1, <2>2 DEF TypeOK, SeenIsFit, Exact, Alone
<1>8. CASE ReadForWrite(t)
    <2>1. /\ t \in Writers /\ pc[t] = "read" /\ low = 0 /\ Goto(t, "cas")
          /\ See(t, <<low, high>>) /\ UNCHANGED <<low, high>>
        BY <1>8 DEF ReadForWrite
    <2>2. /\ pc' \in [Users -> Places]
          /\ \A s \in Users : pc'[s] = IF s = t THEN "cas" ELSE pc[s]
          /\ Count(Readers, pc', {"held"}) = Count(Readers, pc, {"held"})
          /\ Count(Writers, pc', {"read", "cas"}) = Count(Writers, pc, {"read", "cas"})
        BY <1>0, <1>1, <2>1, Moved DEF Places
    <2>3. /\ seen' \in [Users -> Nat \X Nat]
          /\ \A s \in Users : seen'[s] = IF s = t THEN <<low, high>> ELSE seen[s]
        BY <1>1, <2>1 DEF See, TypeOK
    <2> QED
        BY <1>0, <1>1, <2>1, <2>2, <2>3 DEF TypeOK, SeenIsFit, Exact, Alone
<1>9. CASE CasForWrite(t)
    <2>1. /\ t \in Writers /\ pc[t] = "cas"
          /\ seen' \in [Users -> Nat \X Nat] /\ \A s \in Users : s # t => seen'[s] = seen[s]
        BY <1>1, <1>9 DEF CasForWrite, See, TypeOK
    <2>2. CASE seen[t] = <<low, high>>
        <3>1. low = 0 /\ low' = ReaderMask /\ high' = high - 1 /\ Goto(t, "held")
            BY <1>0, <1>1, <1>9, <2>1, <2>2 DEF CasForWrite, SeenIsFit
        <3>2. /\ pc' \in [Users -> Places]
              /\ \A s \in Users : pc'[s] = IF s = t THEN "held" ELSE pc[s]
              /\ Count(Writers, pc', {"read", "cas"}) = Count(Writers, pc, {"read", "cas"}) - 1
            BY <1>0, <1>1, <2>1, <3>1, Moved DEF Places
        <3>3. \A w \in Writers : pc[w] # "held"
            BY <1>0, <1>1, <3>1 DEF Exact
        <3>4. \A r \in Readers : pc[r] # "held"
            BY <1>1, <3>1, <3>3, FiniteKinds, CountNat DEF Exact
        <3>5. high # 0
            BY <1>1, <2>1, FiniteKinds, CountNat DEF Exact
        <3>6. TypeOK' /\ SeenIsFit'
            BY <1>0, <1>1, <2>1, <3>1, <3>2, <3>5 DEF TypeOK, SeenIsFit
        <3>7. Exact'
            BY <1>0, <1>1, <2>1, <3>1, <3>2, <3>5 DEF Exact
        <3>8. Alone'
            BY <1>0, <3>2, <3>3, <3>4 DEF Alone, Users
        <3> QED
            BY <3>6, <3>7, <3>8
    <2>3. CASE seen[t] # <<low, high>>
        <3>1. UNCHANGED <<low, high>> /\ Goto(t, "read")
            BY <1>9, <2>3 DEF CasForWrite
        <3>2. /\ pc' \in [Users -> Places]
              /\ \A s \in Users : pc'[s] = IF s = t THEN "read" ELSE pc[s]
              /\ Count(Readers, pc', {"held"}) = Count(Readers, pc, {"held"})
              /\ Count(Writers, pc', {"read", "cas"}) = Count(Writers, pc, {"read", "cas"})
            BY <1>0, <1>1, <2>1, <3>1, Moved DEF Places
        <3> QED
            BY <1>0, <1>1, <2>1, <3>1, <3>2 DEF TypeOK, SeenIsFit, Exact, Alone
    <2> QED
        BY <2>2, <2>3
<1>10. CASE WrUnlock(t)
    <2>1. t \in Writers /\ pc[t] = "held" /\ low' = 0 /\ Goto(t, "out") /\ UNCHANGED <<high, seen>>
        BY <1>10 DEF WrUnlock
    <2>2. /\ pc' \in [Users -> Places]
          /\ \A s \in Users : pc'[s] = IF s = t THEN "out" ELSE pc[s]
          /\ Count(Writers, pc', {"read", "cas"}) = Count(Writers, pc, {"read", "cas"})
        BY <1>0, <1>1, <2>1, Moved DEF Places
    <2>3. \A s \in Users : pc'[s] # "held"
        BY <1>0, <1>1, <2>1, <2>2 DEF Alone
    <2>4. Count(Readers, pc', {"held"}) = 0
        BY <1>0, <2>3, FiniteKinds, CountNat
    <2> QED
        BY <1>0, <1>1, <2>1, <2>2, <2>3, <2>4 DEF TypeOK, SeenIsFit, Exact, Alone
<1> QED
    BY <1>3, <1>4, <1>5, <1>6, <1>7, <1>8, <1>9, <1>10 DEF ReaderStep, WriterStep

\* The inductive invariant of the spin lock, for any finite set of threads.
THEOREM RWSpinlockIInv == RWSpinlockAssumption => (Spec => []IInv)
<1> SUFFICES ASSUME RWSpinlockAssumption PROVE Spec => []IInv
    OBVIOUS
<1>1. Init => IInv
    BY InitIInv
<1>2. IInv /\ [Next]_vars => IInv'
    BY StepIInv
<1> QED
    BY <1>1, <1>2, PTL DEF Spec

\* One writer alone, or readers; the word counts those inside and those that
\* wait, and the readers never add up to the writer's mark.
THEOREM RWSpinlockExclusion == RWSpinlockAssumption => (Spec => []SpinExclusion)
<1>1. IInv => SpinExclusion
    BY DEF IInv, SpinExclusion
<1> QED
    BY <1>1, RWSpinlockIInv, PTL

\* "After doing this, no additional readers can take the lock": no step lets a
\* reader in while a writer is announced.
THEOREM RWSpinlockNoNewReaders == RWSpinlockAssumption => (Spec => NoNewReaders)
<1> SUFFICES ASSUME RWSpinlockAssumption PROVE Spec => NoNewReaders
    OBVIOUS
<1>1. IInv /\ [Next]_vars => [high > 0 => ReadersInside' <= ReadersInside]_vars
    <2> SUFFICES ASSUME IInv, Next, high > 0 PROVE ReadersInside' <= ReadersInside
        OBVIOUS
    <2>1. /\ ReadersInside = Count(Readers, pc, {"held"})
          /\ ReadersInside' = Count(Readers, pc', {"held"})
        <3>1. /\ Holders(Readers) = {t \in Readers : pc[t] \in {"held"}}
              /\ Holders(Readers)' = {t \in Readers : pc'[t] \in {"held"}}
            BY DEF Holders
        <3> QED
            BY <3>1 DEF ReadersInside, Count
    <2>2. TypeOK /\ SeenIsFit /\ Count(Readers, pc, {"held"}) \in Nat
        BY FiniteKinds, CountNat DEF IInv
    <2>3. PICK t \in Users : Call(t) \/ ReaderStep(t) \/ WriterStep(t)
        BY DEF Next
    <2>4. PICK p \in Places : Goto(t, p) /\ (p = "held" => t \in Writers)
        <3>1. CASE Call(t) \/ ReadForRead(t) \/ RdUnlock(t)
            BY <3>1 DEF Call, ReadForRead, RdUnlock, Places
        <3>2. CASE CasForRead(t)
            <4>1. t \notin Writers /\ seen[t] # <<low, high>>
                BY <2>2, <3>2 DEF CasForRead, SeenIsFit, RWSpinlockAssumption, TypeOK
            <4> QED
                BY <3>2, <4>1 DEF CasForRead, Places
        <3>3. CASE WriterStep(t)
            BY <3>3 DEF WriterStep, Announce, ReadForWrite, CasForWrite, WrUnlock, Places
        <3> QED
            BY <2>3, <3>1, <3>2, <3>3 DEF ReaderStep
    <2>5. \/ Count(Readers, pc', {"held"}) = Count(Readers, pc, {"held"})
          \/ Count(Readers, pc', {"held"}) = Count(Readers, pc, {"held"}) - 1
        BY <2>2, <2>4, Moved DEF RWSpinlockAssumption
    <2> QED
        BY <2>1, <2>2, <2>5
<1> QED
    BY <1>1, RWSpinlockIInv, PTL DEF Spec, NoNewReaders
=============================================================================
