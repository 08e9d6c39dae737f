------------------------------ MODULE RWSpinlock ------------------------------
(***************************************************************************)
(* The reader/writer spin lock at the end of src/code/rwlock.lisp.  The    *)
(* state is one 64-bit word: the low half counts readers, or is all ones   *)
(* (ReaderMask) for a writer; the high half counts waiting writers.  A     *)
(* thread that cannot proceed yields and looks again.                      *)
(***************************************************************************)
EXTENDS Naturals, FiniteSets

CONSTANTS Readers,     \* threads that call rwspinlock-rdlock
          Writers,     \* threads that call rwspinlock-wrlock
          ReaderMask   \* +reader-mask+, 2^32 - 1 in the code

Users == Readers \cup Writers

\* What the constants stand for.
RWSpinlockAssumption ==
    /\ Readers \cap Writers = {} /\ IsFiniteSet(Users)
    /\ ReaderMask \in Nat /\ ReaderMask > 1

VARIABLES low,    \* bits 0-31 of the state
          high,   \* bits 32-63 of the state
          pc,     \* where each thread is
          seen    \* the state each thread has read, for its CAS

vars == <<low, high, pc, seen>>

Init ==
    /\ low = 0
    /\ high = 0
    /\ pc = [t \in Users |-> "out"]
    /\ seen = [t \in Users |-> <<0, 0>>]

Goto(t, p) == pc' = [pc EXCEPT ![t] = p]
See(t, v)  == seen' = [seen EXCEPT ![t] = v]

Call(t) ==
    /\ pc[t] = "out"
    /\ Goto(t, IF t \in Readers THEN "read" ELSE "announce")
    /\ UNCHANGED <<low, high, seen>>

\* Mutant: readers are let in up to the mask itself.
BugReadForRead(t) ==
    /\ t \in Readers /\ pc[t] = "read"
    /\ \/ high = 0 /\ low < ReaderMask /\ Goto(t, "cas") /\ See(t, <<low, high>>)
       \/ ~ (high = 0 /\ low < ReaderMask) /\ UNCHANGED <<pc, seen>>
    /\ UNCHANGED <<low, high>>

\* rwspinlock-rdlock reads the state.  (< state (1- +reader-mask+)) compares
\* the whole word: no waiting writer, no writer, and room for one more
\* reader.  At the cap, with no writer waiting, it is a BUG.
ReadForRead(t) ==
    /\ t \in Readers /\ pc[t] = "read"
    /\ \/ high = 0 /\ low < ReaderMask - 1 /\ Goto(t, "cas") /\ See(t, <<low, high>>)
       \/ high = 0 /\ low = ReaderMask - 1 /\ Goto(t, "failed") /\ UNCHANGED seen
    /\ UNCHANGED <<low, high>>

\* CAS state -> state + 1
CasForRead(t) ==
    /\ t \in Readers /\ pc[t] = "cas"
    /\ IF seen[t] = <<low, high>>
       THEN low' = low + 1 /\ Goto(t, "held")
       ELSE UNCHANGED low /\ Goto(t, "read")
    /\ See(t, <<0, 0>>)
    /\ UNCHANGED high

\* rwspinlock-rdunlock: atomic-decf of the whole word
RdUnlock(t) ==
    /\ t \in Readers /\ pc[t] = "held"
    /\ low' = low - 1
    /\ Goto(t, "out")
    /\ UNCHANGED <<high, seen>>

\* rwspinlock-wrlock, step 1: announce a writer in the high half.
Announce(t) ==
    /\ t \in Writers /\ pc[t] = "announce"
    /\ high' = high + 1
    /\ Goto(t, "read")
    /\ UNCHANGED <<low, seen>>

\* Step 2: wait until the low half is 0 ...
ReadForWrite(t) ==
    /\ t \in Writers /\ pc[t] = "read"
    /\ low = 0
    /\ Goto(t, "cas") /\ See(t, <<low, high>>)
    /\ UNCHANGED <<low, high>>

\* ... then CAS the whole word: all ones below, one waiting writer less.
CasForWrite(t) ==
    /\ t \in Writers /\ pc[t] = "cas"
    /\ IF seen[t] = <<low, high>>
       THEN low' = ReaderMask /\ high' = high - 1 /\ Goto(t, "held")
       ELSE UNCHANGED <<low, high>> /\ Goto(t, "read")
    /\ See(t, <<0, 0>>)

\* rwspinlock-wrunlock: a 32-bit store of 0 to the low half
WrUnlock(t) ==
    /\ t \in Writers /\ pc[t] = "held"
    /\ low' = 0
    /\ Goto(t, "out")
    /\ UNCHANGED <<high, seen>>

ReaderStep(t) == ReadForRead(t) \/ CasForRead(t) \/ RdUnlock(t)
WriterStep(t) == Announce(t) \/ ReadForWrite(t) \/ CasForWrite(t) \/ WrUnlock(t)

Next == \E t \in Users : Call(t) \/ ReaderStep(t) \/ WriterStep(t)

Spec == Init /\ [][Next]_vars

\* The scheduler runs spinning threads; a thread outside may stay there.
Fairness ==
    /\ \A t \in Readers : WF_vars(ReaderStep(t))
    /\ \A t \in Writers : WF_vars(WriterStep(t))

FairSpec == Spec /\ Fairness

------------------------------------------------------------------------------
(* Properties                                                               *)

Holders(S) == {t \in S : pc[t] = "held"}
ReadersInside == Cardinality(Holders(Readers))
Waiting    == {t \in Writers : pc[t] \in {"read", "cas"}}

\* The word is exact: readers never add up to the writer's mark, and the
\* store of rwspinlock-wrunlock never wipes out readers or announcements.
WordExact ==
    /\ high = Cardinality(Waiting)
    /\ IF Holders(Writers) = {}
       THEN low = Cardinality(Holders(Readers)) /\ low < ReaderMask
       ELSE low = ReaderMask

\* One writer alone, or readers.
Exclusion ==
    \A w \in Holders(Writers) : Holders(Users) = {w}

\* The spin lock: one writer alone, or readers, and the word says exactly who
\* is in and who waits, although it is changed by CAS and by plain stores.
SpinExclusion == Exclusion /\ WordExact

\* "After doing this, no additional readers can take the lock": while a
\* writer waits, the readers inside can only get fewer.
NoNewReaders ==
    [][high > 0 => ReadersInside' <= ReadersInside]_vars

\* A waiting writer keeps readers out, so some writer gets the lock.
SomeWriterEnters ==
    Waiting # {} ~> Holders(Writers) # {}

------------------------------------------------------------------------------
(* The inductive invariant, proved in RWSpinlockProofs.                     *)

Places == {"out", "announce", "read", "cas", "held", "failed"}

TypeOK ==
    /\ low \in Nat /\ high \in Nat
    /\ pc \in [Users -> Places]
    /\ seen \in [Users -> Nat \X Nat]

\* What a thread has read and tested is what its CAS will compare with.
SeenIsFit ==
    \A t \in Users : pc[t] = "cas" =>
       /\ seen[t][1] < ReaderMask - 1
       /\ IF t \in Writers THEN seen[t][1] = 0 ELSE seen[t][2] = 0

IInv == TypeOK /\ SeenIsFit /\ WordExact /\ Exclusion
=============================================================================
