-------------------------- MODULE WaitqueueProofs --------------------------
(* Proofs about condition variables, for any finite number of consumers and  *)
(* producers and any number of calls of PUSH-DATA.                           *)
EXTENDS Waitqueue, Counting

\* What futex_wake does: the caller moves on, and sleepers wake up, one at
\* least if there is one and n is not zero.
LEMMA Woken ==
    ASSUME TypeOK, NEW t \in Threads, NEW n \in Nat, NEW p \in Places, FutexWake(t, n, p),
           pc[t] # "asleep"
    PROVE  /\ pc' \in [Threads -> Places] /\ pc'[t] = p
           /\ \A s \in Threads \ {t} : pc'[s] = pc[s] \/ (pc[s] = "asleep" /\ pc'[s] = "woken")
           /\ n # 0 /\ Sleepers # {} => \E s \in Threads \ {t} : pc[s] = "asleep" /\ pc'[s] = "woken"
<1>1. PICK W \in SUBSET Sleepers :
         /\ Cardinality(W) = IF n < Cardinality(Sleepers) THEN n ELSE Cardinality(Sleepers)
         /\ pc' = [s \in Threads |-> IF s = t THEN p ELSE IF s \in W THEN "woken" ELSE pc[s]]
    BY DEF FutexWake
<1>2. pc \in [Threads -> Places] /\ \A s \in W : s \in Threads \ {t} /\ pc[s] = "asleep"
    BY DEF TypeOK, Sleepers, Threads
<1>3. n # 0 /\ Sleepers # {} => W # {}
    <2>1. IsFiniteSet(Sleepers)
        BY WaitqueueAssumption, FS_Subset DEF Sleepers, Threads
    <2> QED
        BY <1>1, <2>1, FS_EmptySet, FS_CardinalityType
<1>4. pc' \in [Threads -> Places] /\ pc'[t] = p
    BY <1>1, <1>2 DEF Places
<1> QED
    BY <1>1, <1>2, <1>3, <1>4

\* The initial state.
LEMMA InitIInv == Init => IInv
<1> SUFFICES ASSUME Init PROVE IInv
    OBVIOUS
<1>1. TypeOK /\ PushesBoundData
    BY WaitqueueAssumption DEF Init, TypeOK, PushesBoundData, Places
<1>2. HeldInBody /\ NoLeakedMutex /\ TokenGuardsSleep /\ NoLostWakeup
    BY WaitqueueAssumption
    DEF Init, HeldInBody, NoLeakedMutex, TokenGuardsSleep, NoLostWakeup, Inside, Sleepers, Threads
<1> QED
    BY <1>1, <1>2 DEF IInv, WaitIsSound

\* A step as the invariant sees it: thread t moves to p, and futex_wake may
\* move sleepers with it.
Moves(t, p) ==
    /\ pc' \in [Threads -> Places] /\ pc'[t] = p
    /\ \A s \in Threads \ {t} : pc'[s] = pc[s] \/ (pc[s] = "asleep" /\ pc'[s] = "woken")

LEMMA GotoMoves ==
    ASSUME TypeOK, NEW t \in Threads, NEW p \in Places, Goto(t, p)
    PROVE  Moves(t, p) /\ \A s \in Threads \ {t} : pc'[s] = pc[s]
BY DEF TypeOK, Goto, Moves

\* Who owns the mutex: it changes hands with the places of the owner.
LEMMA OwnerStep ==
    ASSUME IInv, [Next]_vars PROVE TypeOK' /\ PushesBoundData' /\ HeldInBody' /\ NoLeakedMutex'
<1>1. TypeOK /\ PushesBoundData /\ HeldInBody /\ NoLeakedMutex
    BY DEF IInv, WaitIsSound
<1> USE WaitqueueAssumption DEF HeldInBody, NoLeakedMutex, Inside
<1>2. CASE UNCHANGED vars
    BY <1>1, <1>2 DEF vars, TypeOK, PushesBoundData
<1>3. Consumers \subseteq Threads /\ Producers \subseteq Threads
    BY DEF Threads
\* Steps that leave the mutex alone, and keep the place of an owner with it.
<1>4. ASSUME NEW t \in Threads, NEW p \in Places, Moves(t, p), UNCHANGED owner,
             pc[t] # "asleep" \/ owner # t,
             p \in {"check", "release", "push", "notify"} => owner = t,
             owner = t => p \in {"check", "release", "push", "notify", "signal", "cleanup", "exit"}
      PROVE  HeldInBody' /\ NoLeakedMutex'
    BY <1>1, <1>4 DEF Moves
\* Steps other than of a producer on its way in.
<1>5. ASSUME NEW t \in Threads, NEW p \in Places \ {"push"}, Moves(t, p), UNCHANGED <<data, pushes>>
      PROVE  PushesBoundData'
    BY <1>1, <1>5 DEF Moves, PushesBoundData
<1>6. ASSUME NEW t \in Consumers,
             SetToken(t) \/ FutexWait(t) \/ WakeUp(t) \/ Eintr(t) \/ TimeIsUp(t) \/ TimeIsLeft(t)
                \/ ReturnNil(t) \/ ReacquireTimesOut(t) \/ Unwind(t)
      PROVE  TypeOK' /\ PushesBoundData' /\ HeldInBody' /\ NoLeakedMutex'
    <2>1. PICK p \in {"release", "asleep", "ok", "timeout", "reacquire", "exit", "cleanup"} : Goto(t, p)
        BY <1>6 DEF SetToken, FutexWait, WakeUp, Eintr, TimeIsUp, TimeIsLeft, ReturnNil,
                    ReacquireTimesOut, Unwind
    <2>2. /\ UNCHANGED <<owner, data, pushes>> /\ token' \in {token, t}
          /\ kept' \in {kept, kept + 1}
          /\ \/ pc[t] = "check" /\ owner = t
             \/ pc[t] \in {"fwait", "woken", "asleep", "ok", "timeout", "reacquire"}
             \/ pc[t] = "signal"
        BY <1>6 DEF SetToken, FutexWait, WakeUp, Eintr, TimeIsUp, TimeIsLeft, ReturnNil,
                    ReacquireTimesOut, Unwind, KeepWakeup
    <2>3. /\ pc[t] = "check" => p = "release" 
          /\ p = "release" => pc[t] = "check"
          /\ pc[t] = "signal" => p = "cleanup"
        BY <1>1, <1>3, <1>6, <2>1
        DEF SetToken, FutexWait, WakeUp, Eintr, TimeIsUp, TimeIsLeft, ReturnNil,
            ReacquireTimesOut, Unwind, Goto, TypeOK
    <2>4. Moves(t, p) /\ p \in Places
        BY <1>1, <1>3, <2>1, GotoMoves DEF Places
    <2>5. TypeOK'
        BY <1>1, <1>3, <2>2, <2>4 DEF TypeOK, Moves
    <2>6. HeldInBody' /\ NoLeakedMutex'
        BY <1>1, <1>3, <1>4, <2>1, <2>2, <2>3, <2>4
    <2> QED
        BY <1>3, <1>5, <2>1, <2>2, <2>4, <2>5, <2>6
<1>7. ASSUME NEW t \in Consumers, EnterPop(t) \/ Reacquire(t)
      PROVE  TypeOK' /\ PushesBoundData' /\ HeldInBody' /\ NoLeakedMutex'
    <2>1. owner = NoThread /\ owner' = t /\ Goto(t, "check") /\ UNCHANGED <<token, data, pushes, kept>>
        BY <1>7 DEF EnterPop, Reacquire
    <2>2. Moves(t, "check") /\ "check" \in Places \ {"push"}
        BY <1>1, <1>3, <2>1, GotoMoves DEF Places
    <2> QED
        BY <1>1, <1>3, <1>5, <2>1, <2>2 DEF TypeOK, Moves
<1>8. ASSUME NEW t \in Consumers, Pop(t)
      PROVE  TypeOK' /\ PushesBoundData' /\ HeldInBody' /\ NoLeakedMutex'
    <2>1. /\ pc[t] = "check" /\ data > 0 /\ data' = data - 1 /\ Goto(t, "exit")
          /\ UNCHANGED <<owner, token, pushes, kept>>
        BY <1>8 DEF Pop
    <2>2. Moves(t, "exit") /\ "exit" \in Places \ {"push"}
        BY <1>1, <1>3, <2>1, GotoMoves DEF Places
    <2>3. TypeOK' /\ PushesBoundData'
        BY <1>1, <1>3, <2>1, <2>2 DEF TypeOK, PushesBoundData, Moves
    <2> QED
        BY <1>1, <1>3, <1>4, <2>1, <2>2, <2>3
<1>9. ASSUME NEW t \in Threads, ReleaseOnExit(t) \/ (t \in Consumers /\ ReleaseForWait(t))
      PROVE  TypeOK' /\ PushesBoundData' /\ HeldInBody' /\ NoLeakedMutex'
    <2>1. /\ pc[t] \in {"exit", "release"} /\ owner' = IF owner = t THEN NoThread ELSE owner
          /\ UNCHANGED <<token, data, pushes, kept>>
        BY <1>1, <1>9 DEF ReleaseOnExit, ReleaseForWait
    <2>2. PICK p \in {"out", "fwait"} : Goto(t, p)
        BY <1>9 DEF ReleaseOnExit, ReleaseForWait
    <2>3. Moves(t, p) /\ p \in Places \ {"push"}
        BY <1>1, <2>2, GotoMoves DEF Places
    <2>4. PushesBoundData'
        BY <1>5, <2>1, <2>3
    <2> QED
        BY <1>1, <2>1, <2>2, <2>3, <2>4 DEF TypeOK, Moves
<1>10. ASSUME NEW t \in Consumers, TryBeforeSignal(t)
      PROVE  TypeOK' /\ PushesBoundData' /\ HeldInBody' /\ NoLeakedMutex'
    <2>1. /\ pc[t] = "timeout" /\ owner' = IF owner = NoThread THEN t ELSE owner
          /\ Goto(t, "signal") /\ UNCHANGED <<token, data, pushes, kept>>
        BY <1>10 DEF TryBeforeSignal
    <2>2. Moves(t, "signal") /\ "signal" \in Places \ {"push"}
        BY <1>1, <1>3, <2>1, GotoMoves DEF Places
    <2>3. PushesBoundData'
        BY <1>3, <1>5, <2>1, <2>2
    <2> QED
        BY <1>1, <1>3, <2>1, <2>2, <2>3 DEF TypeOK, Moves
<1>11. ASSUME NEW t \in Threads,
              \/ t \in Consumers /\ (DeadlineDeferred(t) \/ PassWakeup(t))
              \/ t \in Producers /\ Notify(t)
      PROVE  TypeOK' /\ PushesBoundData' /\ HeldInBody' /\ NoLeakedMutex'
    <2>1. UNCHANGED <<owner, token, data, pushes, kept>> /\ pc[t] \in {"signal", "cleanup", "notify"}
        BY <1>11 DEF DeadlineDeferred, PassWakeup, Notify
    <2>2. PICK p \in {"check", "reacquire", "exit"} :
             /\ Goto(t, p) \/ \E n \in Nat : FutexWake(t, n, p)
             /\ p = "check" => owner = t
             /\ p = "reacquire" => owner # t
        <3>1. Cardinality(Consumers) \in Nat
            BY FS_Subset, FS_CardinalityType DEF Threads
        <3> QED
            BY <1>11, <3>1 DEF DeadlineDeferred, PassWakeup, Notify
    <2>3. Moves(t, p) /\ p \in Places \ {"push"}
        BY <1>1, <2>1, <2>2, GotoMoves, Woken DEF Places, Moves
    <2>4. PushesBoundData'
        BY <1>5, <2>1, <2>3
    <2>5. HeldInBody' /\ NoLeakedMutex'
        BY <1>4, <2>1, <2>2, <2>3
    <2> QED
        BY <1>1, <2>1, <2>3, <2>4, <2>5 DEF TypeOK, Moves
<1>12. ASSUME NEW t \in Producers, EnterPush(t)
      PROVE  TypeOK' /\ PushesBoundData' /\ HeldInBody' /\ NoLeakedMutex'
    <2>1. /\ owner = NoThread /\ owner' = t /\ pushes < MaxPushes /\ pushes' = pushes + 1
          /\ Goto(t, "push") /\ UNCHANGED <<token, data, kept>>
        BY <1>12 DEF EnterPush
    <2>2. Moves(t, "push")
        BY <1>1, <1>3, <2>1, GotoMoves DEF Places
    <2> QED
        BY <1>1, <1>3, <2>1, <2>2 DEF TypeOK, PushesBoundData, Moves
<1>13. ASSUME NEW t \in Producers, Push(t)
      PROVE  TypeOK' /\ PushesBoundData' /\ HeldInBody' /\ NoLeakedMutex'
    <2>1. /\ pc[t] = "push" /\ data' = data + 1 /\ token' = NoThread
          /\ Goto(t, "notify") /\ UNCHANGED <<owner, pushes, kept>>
        BY <1>13 DEF Push
    <2>2. Moves(t, "notify") /\ "notify" \in Places
        BY <1>1, <1>3, <2>1, GotoMoves DEF Places
    <2>3. owner = t /\ \A s \in Threads : pc'[s] # "push"
        BY <1>1, <1>3, <2>1, <2>2 DEF Moves
    <2>4. TypeOK' /\ PushesBoundData'
        BY <1>1, <1>3, <2>1, <2>2, <2>3 DEF TypeOK, PushesBoundData, Moves
    <2> QED
        BY <1>1, <1>3, <1>4, <2>1, <2>2, <2>3, <2>4
<1> QED
    BY <1>2, <1>3, <1>6, <1>7, <1>8, <1>9, <1>10, <1>11, <1>12, <1>13
    DEF Next, WaitStep, Disturbance, NotifyStep

\* The threads that will look at *DATA* again, or pass the wake-up on.
Acting == {t \in Threads : WillAct(t)}

\* Nothing is lost: every action that takes a thread from Acting takes an
\* element from *DATA*, wakes a sleeper, or counts what it gives up.
LEMMA WakeupStep ==
    ASSUME IInv, [Next]_vars PROVE TokenGuardsSleep' /\ NoLostWakeup'
<1>1. /\ TypeOK /\ PushesBoundData /\ HeldInBody /\ TokenGuardsSleep
      /\ Sleepers # {} => data <= Cardinality(Acting) + kept
      /\ TypeOK' /\ PushesBoundData'
    BY OwnerStep DEF IInv, WaitIsSound, NoLostWakeup, Acting
<1> USE WaitqueueAssumption
<1> SUFFICES TokenGuardsSleep' /\ (Sleepers' # {} => data' <= Cardinality(Acting') + kept')
    BY DEF NoLostWakeup, Acting
<1>2. CASE UNCHANGED vars
    BY <1>1, <1>2 DEF vars, TokenGuardsSleep, Sleepers, Acting, WillAct
<1>3. Consumers \subseteq Threads /\ Producers \subseteq Threads
    BY DEF Threads
<1>4. IsFiniteSet(Acting) /\ IsFiniteSet(Acting')
    BY FS_Subset DEF Acting
<1>5. /\ Cardinality(Acting) \in Nat /\ Cardinality(Acting') \in Nat
      /\ data \in Nat /\ kept \in Nat /\ data' \in Nat /\ kept' \in Nat
      /\ data <= MaxPushes /\ data' <= MaxPushes
    BY <1>1, <1>4, FS_CardinalityType DEF TypeOK, PushesBoundData
\* Only the thread that moves can leave Acting, and only for another to act.
<1>6. ASSUME NEW t \in Threads, NEW p, Moves(t, p), token' = token \/ token' = NoThread
      PROVE  Acting \ {t} \subseteq Acting' /\ (p # "asleep" => Sleepers' \subseteq Sleepers)
    BY <1>3, <1>6 DEF Moves, Acting, WillAct, Sleepers
\* Steps after which t still acts, or did not act before.
<1>7. ASSUME NEW t \in Threads, NEW p, Moves(t, p), p # "asleep", UNCHANGED <<token, data, kept>>,
             WillAct(t) => WillAct(t)'
      PROVE  Sleepers' # {} => data' <= Cardinality(Acting') + kept'
    <2>1. Acting \subseteq Acting'
        BY <1>6, <1>7 DEF Acting
    <2>2. Cardinality(Acting) <= Cardinality(Acting')
        BY <1>4, <2>1, FS_Subset
    <2> QED
        BY <1>1, <1>5, <1>6, <1>7, <2>2
\* Steps that set no token and do not touch *DATA* keep TokenGuardsSleep.
<1>8. ASSUME NEW t \in Threads, NEW p, Moves(t, p), UNCHANGED <<token, data>>,
             p \notin {"release", "fwait"} \/ pc[t] = "release"
      PROVE  TokenGuardsSleep'
    BY <1>1, <1>3, <1>8 DEF Moves, TokenGuardsSleep
<1> DEFINE Goal == TokenGuardsSleep' /\ (Sleepers' # {} => data' <= Cardinality(Acting') + kept')
<1>9. ASSUME NEW t \in Threads,
             EnterPop(t) \/ Reacquire(t) \/ TimeIsLeft(t) \/ WakeUp(t) \/ Eintr(t) \/ ReturnNil(t)
                \/ TryBeforeSignal(t) \/ Unwind(t) \/ ReleaseForWait(t) \/ ReleaseOnExit(t)
                \/ EnterPush(t)
      PROVE  Goal
    <2>1. PICK p \in {"check", "reacquire", "ok", "exit", "signal", "cleanup", "fwait", "out", "push"} :
             /\ Goto(t, p)
             /\ p = "fwait" => pc[t] = "release"
             /\ p = "exit" => pc[t] = "timeout" /\ t \notin Deadlined
             /\ p = "out" => pc[t] = "exit"
             /\ p = "push" => pc[t] = "out"
        BY <1>9 DEF EnterPop, Reacquire, TimeIsLeft, WakeUp, Eintr, ReturnNil,
                    TryBeforeSignal, Unwind, ReleaseForWait, ReleaseOnExit, EnterPush
    <2>2. UNCHANGED <<token, data, kept>>
        BY <1>9 DEF EnterPop, Reacquire, TimeIsLeft, WakeUp, Eintr, ReturnNil,
                    TryBeforeSignal, Unwind, ReleaseForWait, ReleaseOnExit, EnterPush
    <2>3. Moves(t, p)
        BY <1>1, <2>1, GotoMoves DEF Places
    <2>4. WillAct(t) => WillAct(t)'
        BY <2>1, <2>2, <2>3 DEF WillAct, Moves
    <2> QED
        BY <1>7, <1>8, <2>1, <2>2, <2>3, <2>4
\* A wait that ends for its time limit: a deadline still looks for the mutex,
\* a :TIMEOUT is counted in kept.
<1>10. ASSUME NEW t \in Consumers, TimeIsUp(t) \/ ReacquireTimesOut(t) PROVE Goal
    <2>1. Goto(t, "timeout") /\ UNCHANGED <<token, data>> /\ (kept' = kept \/ KeepWakeup)
        BY <1>10 DEF TimeIsUp, ReacquireTimesOut
    <2>2. Moves(t, "timeout")
        BY <1>1, <1>3, <2>1, GotoMoves DEF Places
    <2>3. TokenGuardsSleep'
        BY <1>3, <1>8, <2>1, <2>2
    <2>4. CASE kept' = kept /\ (WillAct(t) => WillAct(t)')
        BY <1>3, <1>7, <2>1, <2>2, <2>3, <2>4
    <2>5. CASE KeepWakeup
        <3>1. Cardinality(Acting) <= Cardinality(Acting') + 1
            BY <1>3, <1>4, <1>6, <2>1, <2>2, CardinalityKept
        <3>2. Sleepers' # {} => Sleepers # {}
            BY <1>3, <1>6, <2>1, <2>2
        <3>3. kept' = kept + 1 \/ kept' >= MaxPushes
            BY <1>5, <2>5 DEF KeepWakeup
        <3> QED
            BY <1>1, <1>5, <2>1, <2>3, <3>1, <3>2, <3>3
    <2>6. KeepWakeup \/ (kept' = kept /\ (WillAct(t) => WillAct(t)'))
        BY <1>3, <1>10, <2>2 DEF TimeIsUp, ReacquireTimesOut, WillAct, Moves
    <2> QED
        BY <2>4, <2>5, <2>6
<1>11. ASSUME NEW t \in Consumers, SetToken(t) PROVE Goal
    BY <1>5, <1>11 DEF SetToken, TokenGuardsSleep
<1>12. ASSUME NEW t \in Consumers, FutexWait(t) PROVE Goal
    <2>1. pc[t] = "fwait" /\ UNCHANGED <<token, data, kept>>
        BY <1>12 DEF FutexWait
    <2>2. CASE token = t
        <3>1. data' = 0
            BY <1>1, <2>1, <2>2 DEF TokenGuardsSleep
        <3> QED
            BY <1>5, <3>1 DEF TokenGuardsSleep
    <2>3. CASE token # t
        <3>1. Moves(t, "ok")
            BY <1>1, <1>3, <1>12, <2>3, GotoMoves DEF Places, FutexWait
        <3>2. WillAct(t)'
            BY <3>1 DEF WillAct, Moves
        <3> QED
            BY <1>3, <1>7, <1>8, <2>1, <3>1, <3>2
    <2> QED
        BY <2>2, <2>3
<1>13. ASSUME NEW t \in Consumers, Pop(t) PROVE Goal
    <2>1. /\ pc[t] = "check" /\ data > 0 /\ data' = data - 1 /\ Goto(t, "exit")
          /\ UNCHANGED <<token, kept>>
        BY <1>13 DEF Pop
    <2>2. Moves(t, "exit")
        BY <1>1, <1>3, <2>1, GotoMoves DEF Places
    <2>3. Acting \ {t} \subseteq Acting' /\ (Sleepers' # {} => Sleepers # {})
        BY <1>3, <1>6, <2>1, <2>2
    <2>4. Cardinality(Acting) <= Cardinality(Acting') + 1
        BY <1>4, <2>3, CardinalityKept
    <2>5. TokenGuardsSleep'
        BY <1>1, <1>3, <1>5, <2>1, <2>2 DEF TokenGuardsSleep, Moves
    <2> QED
        BY <1>1, <1>5, <2>1, <2>3, <2>4, <2>5
<1>14. ASSUME NEW t \in Producers, Push(t) PROVE Goal
    <2>1. /\ pc[t] = "push" /\ data' = data + 1 /\ token' = NoThread /\ Goto(t, "notify")
          /\ UNCHANGED kept
        BY <1>14 DEF Push
    <2>2. Moves(t, "notify")
        BY <1>1, <1>3, <2>1, GotoMoves DEF Places
    <2>3. Acting \ {t} \subseteq Acting' /\ (Sleepers' # {} => Sleepers # {})
        BY <1>3, <1>6, <2>1, <2>2
    <2>4. t \notin Acting /\ t \in Acting'
        BY <1>3, <2>1, <2>2 DEF Acting, WillAct, Moves
    <2>5. Cardinality(Acting) + 1 <= Cardinality(Acting')
        <3>1. Acting \subseteq Acting'
            BY <2>3, <2>4
        <3> QED
            BY <1>4, <2>3, <2>4, <3>1, CardinalityKept
    <2>6. TokenGuardsSleep'
        BY <1>3, <2>1 DEF TokenGuardsSleep
    <2> QED
        BY <1>1, <1>5, <2>1, <2>3, <2>5, <2>6
\* Passing a wake-up on: t acts no more, but a sleeper does, unless none is left.
<1>15. ASSUME NEW t \in Threads, NEW n \in Nat \ {0}, FutexWake(t, n, "exit"),
              pc[t] \in {"cleanup", "notify"}, UNCHANGED <<token, data, kept>>
      PROVE  Goal
    <2>1. Moves(t, "exit")
        BY <1>1, <1>15, Woken DEF Places, Moves
    <2>2. TokenGuardsSleep'
        BY <1>8, <1>15, <2>1
    <2>3. Acting \ {t} \subseteq Acting' /\ (Sleepers' # {} => Sleepers # {})
        BY <1>6, <1>15, <2>1
    <2>4. ASSUME Sleepers # {} PROVE Cardinality(Acting) <= Cardinality(Acting')
        <3>1. PICK s \in Threads \ {t} : pc[s] = "asleep" /\ pc'[s] = "woken"
            BY <1>1, <1>15, <2>4, Woken DEF Places
        <3>2. s \notin Acting /\ s \in Acting'
            BY <3>1 DEF Acting, WillAct
        <3> QED
            BY <1>4, <2>3, <3>2, CardinalityKept
    <2> QED
        BY <1>1, <1>5, <1>15, <2>2, <2>3, <2>4
<1>16. ASSUME NEW t \in Consumers, PassWakeup(t) PROVE Goal
    BY <1>3, <1>15, <1>16 DEF PassWakeup
<1>17. ASSUME NEW t \in Producers, Notify(t) PROVE Goal
    <2>0. Cardinality(Consumers) \in Nat /\ (Sleepers = {} \/ Cardinality(Consumers) # 0)
        BY FS_Subset, FS_CardinalityType, FS_EmptySet DEF Threads, Sleepers
    <2>1. PICK n \in {1, Cardinality(Consumers)} : FutexWake(t, n, "exit")
        BY <1>17 DEF Notify
    <2>2. pc[t] = "notify" /\ UNCHANGED <<token, data, kept>>
        BY <1>17 DEF Notify
    <2>3. CASE n # 0
        BY <1>3, <1>15, <2>0, <2>1, <2>2, <2>3
    <2>4. CASE n = 0
        <3>1. Moves(t, "exit")
            BY <1>1, <1>3, <2>0, <2>1, <2>2, Woken DEF Places, Moves
        <3>2. Sleepers' = {}
            BY <1>3, <1>6, <2>0, <2>1, <2>2, <2>4, <3>1
        <3> QED
            BY <1>3, <1>8, <2>2, <3>1, <3>2
    <2> QED
        BY <2>3, <2>4
<1>18. ASSUME NEW t \in Consumers, DeadlineDeferred(t) PROVE Goal
    <2>1. pc[t] = "signal" /\ UNCHANGED <<token, data, kept>>
        BY <1>18 DEF DeadlineDeferred
    <2>2. PICK p \in {"check", "reacquire"} : Goto(t, p) \/ \E n \in Nat : FutexWake(t, n, p)
        BY <1>18 DEF DeadlineDeferred
    <2>3. Moves(t, p)
        BY <1>1, <1>3, <2>1, <2>2, GotoMoves, Woken DEF Places, Moves
    <2>4. WillAct(t)'
        BY <2>2, <2>3 DEF WillAct, Moves
    <2> QED
        BY <1>3, <1>7, <1>8, <2>1, <2>2, <2>3, <2>4
<1> QED
    BY <1>2, <1>3, <1>9, <1>10, <1>11, <1>12, <1>13, <1>14, <1>16, <1>17, <1>18
    DEF Next, WaitStep, Disturbance, NotifyStep

\* The inductive invariant of the condition variable.
THEOREM WaitqueueIInv == Spec => []IInv
<1>1. IInv /\ [Next]_vars => IInv'
    BY OwnerStep, WakeupStep DEF IInv, WaitIsSound
<1> QED
    BY <1>1, InitIInv, PTL DEF Spec

\* %CONDITION-WAIT, whatever way it ends: the body around it runs with the
\* mutex held, no thread leaves with the mutex, and no wake-up is lost.
THEOREM WaitqueueIsSound == Spec => []WaitIsSound
<1>1. IInv => WaitIsSound
    BY DEF IInv
<1> QED
    BY <1>1, WaitqueueIInv, PTL
=============================================================================
