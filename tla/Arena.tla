-------------------------------- MODULE Arena --------------------------------
(***************************************************************************)
(* Arenas (src/runtime/arena.c, src/code/arena.lisp): memory outside of    *)
(* dynamic space from which a thread allocates between two calls of        *)
(* SWITCH-TO-ARENA.  One arena is modelled.  Its current block is a bump   *)
(* allocator that threads share without a lock; the lock of tiny-lock.h is *)
(* taken by whoever finds the block full, and is still held when           *)
(* HANDLE-ARENA-REQUEST asks the application whether the arena may grow.   *)
(***************************************************************************)
EXTENDS PageAlloc

CONSTANTS BlockWords,        \* words of a block, and growth_amount
          Quantum, MinKeep,  \* what a refill adds to the request; what is worth keeping
          RefillLimit,       \* the largest request that comes with a refill (64 KiB)
          HugeWords,         \* huge_object_threshold
          SizeLimit,         \* size_limit, in words
          Budgets            \* bound: requests by thread of the heap and of the arena, with
                             \* the exhaustion handler: "default", or "allow" and "throw"

VARIABLES
  arena,          \* threads with thread->arena set
  blk, cur,       \* the blocks ever obtained, the current one (0: no block)
  huge, head,     \* the huge objects ever obtained; uw_huge_objects (0: none)
  exhausted, grabbed, sleeping,        \* the lock word, and who sleeps on it
  arq,            \* a thread's pending claim
  aops, answers

avars == <<arena, blk, cur, huge, head, exhausted, grabbed, sleeping, arq, aops>>
vars  == <<pvars, avars, answers>>

ArenaBase == (NPages + 2) * PageWords
BlockAt(a) == [base |-> a, free |-> a, limit |-> a + BlockWords, next |-> 0]
NoClaim == [type |-> "mixed", n |-> 0, total |-> 0, mem |-> 0, where |-> 0,
            new |-> 0, prev |-> 0, c |-> 0, ret |-> "idle"]

Init ==
  /\ PInit /\ \E b \in Budgets : ops = b.heap /\ aops = b.arena /\ answers = b.answers
  /\ arena = {} /\ blk = <<BlockAt(ArenaBase)>> /\ cur = 1 /\ huge = <<>> /\ head = 0
  /\ exhausted = FALSE /\ grabbed = 0 /\ sleeping = {}
  /\ arq = [t \in Threads |-> NoClaim]

\* uw_length: every block and every huge object obtained counts.
Length == Len(blk) * BlockWords + MapThenSumSet(LAMBDA i : huge[i].n, DOMAIN huge)

heapRest == <<code_allocator_lock, rq, objs, gc_pending, collections, lost, ops>>
lockWord == <<grabbed, sleeping>>
links    == <<blk, cur, huge, head>>
blocks   == <<links, exhausted>>

(***************************************************************************)
(* SWITCH-TO-ARENA.                                                        *)
(***************************************************************************)
HintOf(k) == IF h.reg[k].start = 0 THEN -1 ELSE PageOf(h.reg[k].start)

\* Into the arena: the thread's heap regions are closed under the page table lock, and
\* their pages remembered.
EnterArena(t) ==
  /\ free_pages_lock = NoOne /\ t \notin arena
  /\ h' = CloseRegions(h, Tlabs(t), FALSE)
  /\ hint' = [hint EXCEPT ![t] = [type \in {"mixed", "cons"} |-> HintOf(<<t, type>>)]]
  /\ arena' = arena \cup {t}

\* Out of it: the regions, which point into the arena, are just dropped.
LeaveArena(t) ==
  /\ h' = [h EXCEPT !.reg = [k \in DOMAIN @ |-> IF k \in Tlabs(t) THEN EmptyRegion ELSE @[k]]]
  /\ arena' = arena \ {t} /\ UNCHANGED hint

switch_to_arena(t) ==
  /\ pc[t] = "idle" /\ aops[t] > 0 /\ aops' = [aops EXCEPT ![t] = @ - 1] /\ ~lost
  /\ EnterArena(t)
  /\ UNCHANGED <<locks, pc, rq, objs, gc_pending, collections, lost, ops>>
  /\ UNCHANGED <<blocks, lockWord, arq>>

unuse_arena(t) ==
  /\ pc[t] = "idle" /\ t \in arena /\ LeaveArena(t)
  /\ UNCHANGED <<locks, pc, heapRest, blocks, lockWord, arq, aops>>
  /\ UNCHANGED free_pages_lock

(***************************************************************************)
(* handle_arena_alloc and memblk_claim_subrange.                           *)
(***************************************************************************)
\* Small remainder: claim a new TLAB with the object at its start, else just the object;
\* a large request never brings a TLAB with it.
Total(r, n) == IF r.end - r.free < MinKeep /\ n <= RefillLimit THEN n + Quantum ELSE n

handle_arena_alloc(t, type, n) ==
  LET r == h.reg[<<t, type>>] IN
  /\ pc[t] = "idle" /\ t \in arena /\ aops[t] > 0 /\ aops' = [aops EXCEPT ![t] = @ - 1]
  /\ r.free + n > r.end
  /\ arq' = [arq EXCEPT ![t] = [NoClaim EXCEPT !.type = type, !.n = n, !.total = Total(r, n),
                                               !.mem = cur, !.where = blk[cur].free]]
  /\ Goto(t, "claim")
  /\ UNCHANGED <<h, free_pages_lock, hint, heapRest, arena, blocks, lockWord>>

\* The arena's TLAB serves a request that fits.
ArenaQuick(t, type, n) ==
  LET r == h.reg[<<t, type>>] IN
  /\ pc[t] = "idle" /\ t \in arena /\ aops[t] > 0 /\ aops' = [aops EXCEPT ![t] = @ - 1]
  /\ r.free + n <= r.end
  /\ h' = [h EXCEPT !.reg[<<t, type>>].free = @ + n]
  /\ objs' = objs \cup {[a |-> r.free, n |-> n, owner |-> t]}
  /\ UNCHANGED <<locks, pc, rq, hint, gc_pending, collections, lost, ops>>
  /\ UNCHANGED <<arena, blocks, lockWord, arq>>

\* The claim succeeded at a: the object, and for a refill the TLAB behind it.
Claimed(t, a) ==
  LET q == arq[t] IN
  /\ objs' = objs \cup {[a |-> a, n |-> q.n, owner |-> t]}
  /\ h' = IF q.total = q.n THEN h
          ELSE [h EXCEPT !.reg[<<t, q.type>>] =
                  [start |-> a, free |-> a + q.n, end |-> a + q.total]]

\* Compare and swap on the free pointer of the block the thread believes is current.
memblk_claim_subrange(t) ==
  LET q == arq[t]  b == blk[q.mem] IN
  /\ pc[t] = "claim" /\ q.where + q.total <= b.limit
  /\ IF b.free = q.where
     THEN /\ blk' = [blk EXCEPT ![q.mem].free = @ + q.total]
          /\ Claimed(t, q.where) /\ Goto(t, "idle") /\ UNCHANGED arq
     ELSE arq' = [arq EXCEPT ![t].where = b.free] /\ UNCHANGED <<blk, objs, h, pc>>
  /\ UNCHANGED <<locks, rq, hint, gc_pending, collections, lost, ops>>
  /\ UNCHANGED <<arena, cur, huge, head, exhausted, lockWord, aops>>

\* It is full: take the lock (acquire_lock_allowing_gc).
BlockIsFull(t) ==
  /\ pc[t] = "claim" /\ arq[t].where + arq[t].total > blk[arq[t].mem].limit
  /\ Goto(t, "acquire")
  /\ UNCHANGED <<h, free_pages_lock, hint, heapRest, avars>>

\* Another thread extended the arena meanwhile: let go and start over on its block.
\* Else the lock stays held, and Lisp decides with the arena switched off.
BlockIsCurrent(t) ==
  /\ pc[t] = "locked"
  /\ IF arq[t].mem # cur
     THEN /\ arq' = [arq EXCEPT ![t].mem = cur, ![t].where = blk[cur].free, ![t].ret = "claim"]
          /\ Goto(t, "release") /\ UNCHANGED <<h, arena, hint>>
     ELSE LeaveArena(t) /\ Goto(t, "decide") /\ UNCHANGED arq
  /\ UNCHANGED <<free_pages_lock, heapRest, blocks, lockWord, aops>>

(***************************************************************************)
(* HANDLE-ARENA-REQUEST and extend_lisp_arena.                             *)
(***************************************************************************)
Hugep(t) == arq[t].type = "mixed" /\ arq[t].n > HugeWords
Request(t) == IF Hugep(t) THEN arq[t].n ELSE BlockWords

\* DEFAULT-ARENA-EXTENSION-TEST.
Within(t) == Length + Request(t) <= SizeLimit

\* An exhausted arena always grows; else the handler decides.
HandlerAllows(t) ==
  /\ pc[t] = "decide"
  /\ exhausted \/ "allow" \in answers \/ ("default" \in answers /\ Within(t))
  /\ Goto(t, "extend")
  /\ UNCHANGED <<h, free_pages_lock, hint, heapRest, avars>>

\* malloc, external: memory that nothing else uses.
FreshMemory == ArenaBase + (Len(blk) + Len(huge)) * (BlockWords + HugeWords + 1)
NewHuge(t) == Append(huge, [a |-> FreshMemory, n |-> arq[t].n, next |-> 0])

\* extend_lisp_arena obtains and counts the memory, a huge object's or a block's, ...
extend_lisp_arena(t) ==
  /\ pc[t] = "extend" /\ Goto(t, "read_head")
  /\ IF Hugep(t)
     THEN huge' = NewHuge(t) /\ arq' = [arq EXCEPT ![t].new = Len(huge) + 1] /\ UNCHANGED blk
     ELSE /\ blk' = Append(blk, BlockAt(FreshMemory))
          /\ arq' = [arq EXCEPT ![t].new = Len(blk) + 1] /\ UNCHANGED huge
  /\ UNCHANGED <<h, free_pages_lock, hint, heapRest, arena, cur, head, exhausted, lockWord, aops>>

\* ... reads uw_huge_objects or uw_current_block, ...
ReadHead(t) ==
  /\ pc[t] = "read_head" /\ Goto(t, "link")
  /\ arq' = [arq EXCEPT ![t].prev = IF Hugep(t) THEN head ELSE cur]
  /\ UNCHANGED <<h, free_pages_lock, hint, heapRest, arena, blocks, lockWord, aops>>

\* Mutant: the new block follows the first one.
LinkAfterFirst(t) ==
  /\ pc[t] = "link" /\ Goto(t, "publish")
  /\ IF Hugep(t)
     THEN huge' = [huge EXCEPT ![arq[t].new].next = arq[t].prev] /\ UNCHANGED blk
     ELSE blk' = [blk EXCEPT ![1].next = arq[t].new] /\ UNCHANGED huge
  /\ UNCHANGED <<h, free_pages_lock, hint, heapRest, arena, cur, head, exhausted, lockWord, arq, aops>>

\* ... links the new memory to it, ...
Link(t) ==
  /\ pc[t] = "link" /\ Goto(t, "publish")
  /\ IF Hugep(t)
     THEN huge' = [huge EXCEPT ![arq[t].new].next = arq[t].prev] /\ UNCHANGED blk
     ELSE blk' = [blk EXCEPT ![arq[t].prev].next = arq[t].new] /\ UNCHANGED huge
  /\ UNCHANGED <<h, free_pages_lock, hint, heapRest, arena, cur, head, exhausted, lockWord, arq, aops>>

\* ... and publishes it: a huge object is the one asked for, a block is where the request
\* starts over.  The lock is released.
Publish(t) ==
  LET new == arq[t].new IN
  /\ pc[t] = "publish" /\ Goto(t, "release")
  /\ arq' = [arq EXCEPT ![t].ret = IF Hugep(t) THEN "resume" ELSE "retry"]
  /\ IF Hugep(t)
     THEN /\ head' = new /\ UNCHANGED cur
          /\ objs' = objs \cup {[a |-> huge[new].a, n |-> huge[new].n, owner |-> t]}
     ELSE cur' = new /\ UNCHANGED <<head, objs>>
  /\ UNCHANGED <<h, locks, rq, hint, gc_pending, collections, lost, ops>>
  /\ UNCHANGED <<arena, blk, huge, exhausted, lockWord, aops>>

\* The handler leaves by a throw: the cleanup releases the lock, and from then on every
\* request is allowed.
HandlerThrows(t) ==
  /\ pc[t] = "decide" /\ "throw" \in answers /\ ~exhausted
  /\ arq' = [arq EXCEPT ![t].ret = "thrown"] /\ Goto(t, "release")
  /\ UNCHANGED <<h, free_pages_lock, hint, heapRest, arena, blocks, lockWord, aops>>

Exhaust(t) ==
  /\ pc[t] = "thrown" /\ exhausted' = TRUE /\ Goto(t, "resume")
  /\ UNCHANGED <<h, free_pages_lock, hint, heapRest, arena, links, lockWord, arq, aops>>

\* The handler says no: the cleanup of the UNWIND-PROTECT releases the lock, and so does
\* the clause that signals ARENA-EXHAUSTED-ERROR.
HandlerDenies(t) ==
  /\ pc[t] = "decide" /\ "default" \in answers /\ ~Within(t) /\ ~exhausted
  /\ arq' = [arq EXCEPT ![t].ret = "again"] /\ Goto(t, "release")
  /\ UNCHANGED <<h, free_pages_lock, hint, heapRest, arena, blocks, lockWord, aops>>

SignalExhausted(t) ==
  /\ pc[t] = "again"
  /\ arq' = [arq EXCEPT ![t].ret = "resume"] /\ Goto(t, "release")
  /\ UNCHANGED <<h, free_pages_lock, hint, heapRest, arena, blocks, lockWord, aops>>

\* Back on the arena, with the request done or given up, or tried once more from the start.
Reenter(t) ==
  /\ pc[t] \in {"resume", "retry"} /\ EnterArena(t)
  /\ IF pc[t] = "resume" THEN Goto(t, "idle") /\ UNCHANGED arq
     ELSE /\ Goto(t, "claim")
          /\ arq' = [arq EXCEPT ![t].total = Total(EmptyRegion, arq[t].n),
                                ![t].mem = cur, ![t].where = blk[cur].free]
  /\ UNCHANGED <<free_pages_lock, heapRest, blocks, lockWord, aops>>

(***************************************************************************)
(* tiny-lock.h: 0 free, 1 held, 2 held and someone may sleep.              *)
(***************************************************************************)
Cmpxchg(old, new) == grabbed' = IF grabbed = old THEN new ELSE grabbed
onlyLock == <<h, free_pages_lock, hint, heapRest, arena, blocks, aops>>

acquire_lock(t) ==
  /\ pc[t] = "acquire" /\ Cmpxchg(0, 1)
  /\ arq' = [arq EXCEPT ![t].c = grabbed]
  /\ Goto(t, IF grabbed = 0 THEN "locked" ELSE "contend")
  /\ UNCHANGED <<onlyLock, sleeping>>

\* cmpxchg(l, 1, 2), unless the word was 2 already; then sleep while it is 2.
Contend(t) ==
  /\ pc[t] = "contend"
  /\ IF arq[t].c = 2 THEN UNCHANGED grabbed ELSE Cmpxchg(1, 2)
  /\ Goto(t, IF arq[t].c = 2 \/ grabbed # 0 THEN "wait" ELSE "retake")
  /\ UNCHANGED <<onlyLock, arq, sleeping>>

\* futex_wait_allowing_gc returns at once if the word is not 2, and may return without
\* having been woken: a signal that waited for the end of the pseudo-atomic section.
FutexWait(t) ==
  /\ pc[t] = "wait"
  /\ IF grabbed = 2 THEN sleeping' = sleeping \cup {t} /\ Goto(t, "asleep")
                    ELSE Goto(t, "retake") /\ UNCHANGED sleeping
  /\ UNCHANGED <<onlyLock, arq, grabbed>>

Woken(t) ==
  /\ pc[t] = "asleep" /\ sleeping' = sleeping \ {t} /\ Goto(t, "retake")
  /\ UNCHANGED <<onlyLock, arq, grabbed>>

Retake(t) ==
  /\ pc[t] = "retake" /\ Cmpxchg(0, 2)
  /\ arq' = [arq EXCEPT ![t].c = grabbed]
  /\ Goto(t, IF grabbed = 0 THEN "locked" ELSE "contend")
  /\ UNCHANGED <<onlyLock, sleeping>>

\* atomic_fetch_sub; if somebody may sleep the word is cleared and one sleeper woken.
release_lock(t) ==
  /\ pc[t] = "release" /\ grabbed' = grabbed - 1
  /\ Goto(t, IF grabbed = 1 THEN arq[t].ret ELSE "clear")
  /\ UNCHANGED <<onlyLock, arq, sleeping>>

ClearWord(t) ==
  /\ pc[t] = "clear" /\ grabbed' = 0 /\ Goto(t, "wake")
  /\ UNCHANGED <<onlyLock, arq, sleeping>>

WakeOne(t) ==
  /\ pc[t] = "wake" /\ Goto(t, arq[t].ret)
  /\ IF sleeping = {} THEN UNCHANGED sleeping
     ELSE \E u \in sleeping : sleeping' = sleeping \ {u}
  /\ UNCHANGED <<onlyLock, arq, grabbed>>

(***************************************************************************)
(* Releasing the arena.  The application must not have a thread in it.     *)
(***************************************************************************)
\* REWIND-ARENA, arena_release_memblks (the lock is free, so it is one step here).
rewind_arena(t) ==
  /\ pc[t] = "idle" /\ arena = {} /\ aops[t] > 0 /\ aops' = [aops EXCEPT ![t] = @ - 1]
  /\ \A u \in Threads : pc[u] \in {"idle", "dead"}
  /\ grabbed = 0 /\ Len(blk) + Len(huge) > 1
  /\ blk' = <<BlockAt(ArenaBase)>> /\ cur' = 1 /\ huge' = <<>> /\ head' = 0
  /\ exhausted' = FALSE
  /\ objs' = {o \in objs : o.a < ArenaBase}
  /\ UNCHANGED <<h, locks, pc, rq, hint, gc_pending, collections, lost, ops, arena, lockWord, arq>>

HeapStep ==
  /\ \/ \E t \in Threads \ arena : HeapRequest(t)
     \/ \E t \in Threads : OtherRequest(t) \/ lisp_alloc(t)
     \/ \E Keep \in SUBSET Threads : Collect(Keep)
  /\ UNCHANGED avars

ArenaStep(t) ==
  \/ switch_to_arena(t) \/ unuse_arena(t) \/ rewind_arena(t)
  \/ \E n \in {2} : ArenaQuick(t, "cons", n) \/ handle_arena_alloc(t, "cons", n)
  \/ handle_arena_alloc(t, "mixed", HugeWords + 1)
  \/ memblk_claim_subrange(t) \/ BlockIsFull(t) \/ BlockIsCurrent(t)
  \/ HandlerAllows(t) \/ extend_lisp_arena(t) \/ ReadHead(t) \/ Link(t) \/ Publish(t)
  \/ HandlerThrows(t) \/ Exhaust(t) \/ HandlerDenies(t) \/ SignalExhausted(t) \/ Reenter(t)
  \/ acquire_lock(t) \/ Contend(t) \/ FutexWait(t) \/ Woken(t) \/ Retake(t)
  \/ release_lock(t) \/ ClearWord(t) \/ WakeOne(t)

Next == (HeapStep \/ \E t \in Threads : ArenaStep(t)) /\ UNCHANGED answers

Spec == Init /\ [][Next]_vars

(***************************************************************************)
(* Properties.                                                             *)
(***************************************************************************)

\* What gc_scavenge_arenas visits: the blocks from the first one on, and the huge objects
\* from uw_huge_objects on, each by its next link.
ChainFrom[b \in 0 .. Len(blk)] == IF b = 0 THEN {} ELSE {b} \cup ChainFrom[blk[b].next]
HugeFrom[i \in 0 .. Len(huge)] == IF i = 0 THEN {} ELSE {i} \cup HugeFrom[huge[i].next]

\* However threads race for the lock and extend the arena, the collector finds every object
\* of it: in the used part of a block on the chain, or among the huge objects.  It does so
\* unless a handler refuses one thread while another wants to extend the arena as well.
ArenaObjectsAreScanned ==
  \A o \in objs : o.a >= ArenaBase =>
    \/ \E b \in ChainFrom[1] : blk[b].base <= o.a /\ o.a + o.n <= blk[b].free
    \/ \E i \in HugeFrom[head] : huge[i].a = o.a /\ huge[i].n = o.n
=============================================================================
