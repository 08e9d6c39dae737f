------------------------------ MODULE PageAlloc ------------------------------
(***************************************************************************)
(* Allocation in generation 0 by several Lisp threads: lisp_alloc and its  *)
(* callers (src/runtime/gencgc.c, alloc.c) over the page table of Pages.   *)
(* Each thread owns an open MIXED and an open CONS region; the CODE region *)
(* is common.  A thread stays in pseudo-atomic from its request until the  *)
(* memory is its own, so a collection finds every thread at "idle".        *)
(*                                                                         *)
(* Collect stands for the whole of collect_garbage: every region is        *)
(* closed, what nobody keeps is freed, the rest leaves generation 0.       *)
(***************************************************************************)
EXTENDS Pages

CONSTANTS Threads, NoOne,     \* NoOne: a lock without owner
          MixedSizes, ListSizes, CodeSizes,   \* words asked for
          Trigger,            \* auto_gc_trigger, in words
          MaxCollections      \* bound: collections

ASSUME PageAllocAssumption ==
  Threads \subseteq Owners /\ NoOne \in Owners \ Threads

VARIABLES
  h,               \* the heap
  free_pages_lock, code_allocator_lock,
  pc, rq,          \* where a thread is and what it asked for
  hint,            \* mixed_page_hint and cons_page_hint of each thread
  objs,            \* objects in use: [a, n, owner]
  gc_pending, collections, lost, ops

locks == <<free_pages_lock, code_allocator_lock>>
pvars == <<h, locks, pc, rq, hint, objs, gc_pending, collections, lost, ops>>

NoRequest == [type |-> "mixed", n |-> 0, left |-> 0, a |-> 0, f |-> Exhausted(0), refill |-> FALSE]

PInit ==
  /\ h = EmptyHeap
  /\ free_pages_lock = NoOne /\ code_allocator_lock = NoOne
  /\ pc = [t \in Threads |-> "idle"] /\ rq = [t \in Threads |-> NoRequest]
  /\ hint = [t \in Threads |-> [type \in {"mixed", "cons"} |-> -1]]
  /\ objs = {} /\ gc_pending = FALSE /\ collections = 0 /\ lost = FALSE

\* The region a request is served from: the code region belongs to nobody.
Key(t) == <<IF rq[t].type = "code" THEN NoOne ELSE t, rq[t].type>>

Goto(t, l) == pc' = [pc EXCEPT ![t] = l]
Spend(t) == ops[t] > 0 /\ ops' = [ops EXCEPT ![t] = @ - 1]
Ask(t, type, n, left, l) ==
  /\ pc[t] = "idle" /\ ~lost
  /\ rq' = [rq EXCEPT ![t] = [NoRequest EXCEPT !.type = type, !.n = n, !.left = left]]
  /\ Goto(t, l)

(***************************************************************************)
(* Requests.                                                               *)
(***************************************************************************)
\* alloc: n words of MIXED memory.
alloc(t, n) ==
  /\ Spend(t) /\ Ask(t, "mixed", n, 0, "alloc")
  /\ UNCHANGED <<h, locks, hint, objs, gc_pending, collections, lost>>

alloc_large(t, n) ==
  /\ n >= LargeWords /\ Spend(t) /\ Ask(t, "mixed", n, 0, "alloc")
  /\ UNCHANGED <<h, locks, hint, objs, gc_pending, collections, lost>>

\* make_list, listify_rest_arg (PREPARE_LIST_ALLOCATION): what is left of the region first,
\* then whole pages; one cons is alloc_list.
Chunk(t, left) ==
  LET r == h.reg[<<t, "cons">>]
      avail == r.end - r.free
  IN Min({left, IF avail = 0 THEN ConsWords ELSE avail})

make_list(t, n) ==
  /\ n > h.reg[<<t, "cons">>].end - h.reg[<<t, "cons">>].free
  /\ Spend(t) /\ Ask(t, "cons", Chunk(t, n), n, "alloc")
  /\ UNCHANGED <<h, locks, hint, objs, gc_pending, collections, lost>>

\* The cons that compiled code takes from the region without asking.
alloc_list(t) ==
  /\ h.reg[<<t, "cons">>].free < h.reg[<<t, "cons">>].end
  /\ Spend(t) /\ Ask(t, "cons", 2, 2, "alloc")
  /\ UNCHANGED <<h, locks, hint, objs, gc_pending, collections, lost>>

\* alloc_code_object, alloc_funinstance: serialized by a lock of their own.
alloc_code_object(t, n) ==
  /\ code_allocator_lock = NoOne /\ Spend(t) /\ Ask(t, "code", n, 0, "alloc")
  /\ code_allocator_lock' = t
  /\ UNCHANGED <<h, free_pages_lock, hint, objs, gc_pending, collections, lost>>

(***************************************************************************)
(* lisp_alloc.                                                             *)
(***************************************************************************)
\* The memory is the caller's: nobody else's, and its content is what was there before.
Take(t, heap, a, n, l) ==
  /\ h' = heap
  /\ objs' = objs \cup {[a |-> a, n |-> n, owner |-> t]}
  /\ rq' = [rq EXCEPT ![t].a = a]
  /\ Goto(t, l)

\* The request fits in the region (compiled code does this by itself).
lisp_alloc_quick(t) ==
  LET r == h.reg[Key(t)] IN
  /\ pc[t] = "alloc" /\ r.free + rq[t].n <= r.end
  /\ Take(t, [h EXCEPT !.reg[Key(t)].free = @ + rq[t].n], r.free, rq[t].n, "got")
  /\ UNCHANGED <<locks, hint, gc_pending, collections, lost, ops>>

Large(t) == rq[t].n >= LargeWords /\ rq[t].type # "cons"

\* Mutant of PageTableIsFree: the lock is not waited for.
PageTableIsIgnored == TRUE

\* mutex_acquire(&free_pages_lock) can return.
PageTableIsFree == free_pages_lock = NoOne

\* It does not: perhaps ask for a collection, then get the page table.
lisp_alloc_slow(t) ==
  /\ pc[t] = "alloc" /\ h.reg[Key(t)].free + rq[t].n > h.reg[Key(t)].end
  /\ gc_pending' = (gc_pending \/ h.bytes > Trigger)
  /\ PageTableIsFree /\ free_pages_lock' = t
  /\ Goto(t, "find")
  /\ UNCHANGED <<h, code_allocator_lock, rq, hint, objs, collections, lost, ops>>

\* ensure_region_closed, then the search of gc_alloc_new_region or gc_alloc_large.
Want(t) == IF rq[t].refill THEN (IF rq[t].type = "cons" THEN 4 ELSE 6) ELSE rq[t].n

FindPages(t) ==
  LET closed == IF Large(t) THEN h ELSE ensure_region_closed(h, Key(t))
      type   == rq[t].type
      hnt    == IF type \in {"mixed", "cons"} THEN hint[t][type] ELSE -1
  IN
  /\ pc[t] = "find" /\ h' = closed
  /\ rq' = [rq EXCEPT ![t].f = IF Large(t) THEN FindLarge(closed, rq[t].n, type)
                               ELSE FindRegion(closed, Want(t), type, hnt)]
  /\ hint' = IF ~Large(t) /\ type = "mixed" /\ hnt > 0 /\ hnt <= closed.start["mixed"]
             THEN [hint EXCEPT ![t]["mixed"] = -1] ELSE hint
  /\ Goto(t, "setup")
  /\ UNCHANGED <<locks, objs, gc_pending, collections, lost, ops>>

\* gc_heap_exhausted_error_or_lose: no memory at all ends the process; else the page table
\* is let go and HEAP-EXHAUSTED unwinds, past alloc_code_object's release of its lock.
gc_heap_exhausted_error_or_lose(t) ==
  /\ pc[t] = "setup" /\ ~rq[t].f.ok
  /\ IF rq[t].f.avail = 0
     THEN lost' = TRUE /\ UNCHANGED <<free_pages_lock, pc>>
     ELSE free_pages_lock' = NoOne /\ Goto(t, "idle") /\ UNCHANGED lost
  /\ UNCHANGED <<h, code_allocator_lock, rq, hint, objs, gc_pending, collections, ops>>

\* Take the object from the new region of heap hh; get another region at once if
\* little is left.  CONS kept the lock, another type only tries for it.
BumpRegion(t, hh) ==
  LET r == hh.reg[Key(t)]
      remaining == r.end - r.start - rq[t].n
      cons == rq[t].type = "cons"
      refill == IF cons THEN remaining <= 2 ELSE remaining <= 4 /\ free_pages_lock = NoOne
  IN
  /\ h' = [hh EXCEPT !.reg[Key(t)].free = @ + rq[t].n]
  /\ objs' = objs \cup {[a |-> r.start, n |-> rq[t].n, owner |-> t]}
  /\ rq' = [rq EXCEPT ![t].a = r.start, ![t].refill = refill]
  /\ Goto(t, IF refill THEN "find" ELSE "got")
  /\ free_pages_lock' = IF refill THEN t ELSE IF cons THEN NoOne ELSE free_pages_lock

\* gc_alloc_new_region claims the pages.  A CONS page is ready at once, under the lock;
\* another type gives the lock up and clears its pages afterwards.
SetupRegion(t) ==
  LET hh == OpenRegion(h, Key(t), rq[t].f) IN
  /\ pc[t] = "setup" /\ rq[t].f.ok /\ ~Large(t)
  /\ IF rq[t].type = "cons" /\ ~rq[t].refill THEN BumpRegion(t, hh)
     ELSE /\ h' = hh /\ free_pages_lock' = NoOne
          /\ Goto(t, IF rq[t].type = "cons" THEN "got" ELSE "prepare")
          /\ UNCHANGED <<rq, objs>>
  /\ UNCHANGED <<code_allocator_lock, hint, gc_pending, collections, lost, ops>>

\* need_to_zero of a claimed page that was in use is read after the lock is gone.
PreparePages(t) ==
  LET hh == PrepareRegion(h, rq[t].f, rq[t].type, TRUE) IN
  /\ pc[t] = "prepare"
  /\ IF ~rq[t].refill THEN BumpRegion(t, hh)
     ELSE h' = hh /\ Goto(t, "got") /\ UNCHANGED <<free_pages_lock, rq, objs>>
  /\ UNCHANGED <<code_allocator_lock, hint, gc_pending, collections, lost, ops>>

\* gc_alloc_large: the page table and the totals under the lock ...
SetupLargePages(t) ==
  /\ pc[t] = "setup" /\ rq[t].f.ok /\ Large(t)
  /\ h' = SetupLarge(h, rq[t].f, rq[t].n, rq[t].type)
  /\ free_pages_lock' = NoOne /\ Goto(t, "large")
  /\ UNCHANGED <<code_allocator_lock, rq, hint, objs, gc_pending, collections, lost, ops>>

\* ... and the memory itself after it.
FinishLargeObject(t) ==
  /\ pc[t] = "large"
  /\ Take(t, FinishLarge(h, rq[t].f, rq[t].n, rq[t].type, TRUE), Addr(rq[t].f.first), rq[t].n, "got")
  /\ UNCHANGED <<locks, hint, gc_pending, collections, lost, ops>>

\* The caller initialises its object; a list goes on with its next chunk.
UseObject(t) ==
  LET left == rq[t].left - rq[t].n IN
  /\ pc[t] = "got"
  /\ h' = [h EXCEPT !.nz = @ \cup rq[t].a .. rq[t].a + rq[t].n - 1]
  /\ code_allocator_lock' = IF rq[t].type = "code" THEN NoOne ELSE code_allocator_lock
  /\ IF rq[t].type = "cons" /\ left > 0
     THEN rq' = [rq EXCEPT ![t] = [NoRequest EXCEPT !.type = "cons", !.left = left,
                                                    !.n = Min({left, ConsWords})]]
          /\ Goto(t, "alloc")
     ELSE rq' = [rq EXCEPT ![t] = NoRequest] /\ Goto(t, "idle")
  /\ UNCHANGED <<free_pages_lock, hint, objs, gc_pending, collections, lost, ops>>

(***************************************************************************)
(* Closing regions.                                                        *)
(***************************************************************************)
\* sync_close_regions: under CONSUME_REMAINDER the rest of the page becomes a filler.
Consume(hh, k) ==
  LET free == hh.reg[k].free
      end  == IF k[2] = "cons" THEN AlignDown(free, PageWords) + ConsWords ELSE AlignUp(free, PageWords)
  IN [hh EXCEPT !.reg[k].free = end, !.nz = IF end > free THEN @ \cup {free} ELSE @]

\* A region that is closed, or that is not in dynamic space (an arena's), is left alone.
CloseRegions(hh, K, consume) ==
  LET one(k, x) == IF PageOf(x.reg[k].start) \notin PageIndex THEN x
                   ELSE ensure_region_closed(IF consume THEN Consume(x, k) ELSE x, k)
  IN FoldSet(one, hh, K)

Tlabs(t) == {<<t, "mixed">>, <<t, "cons">>}

Closing(t) == pc[t] = "idle" /\ ~lost /\ free_pages_lock = NoOne /\ Spend(t)

close_current_thread_tlab(t) ==
  /\ Closing(t)
  /\ h' = CloseRegions(h, Tlabs(t), FALSE)
  /\ UNCHANGED <<locks, pc, rq, hint, objs, gc_pending, collections, lost>>

close_code_region(t) ==
  /\ Closing(t) /\ code_allocator_lock = NoOne
  /\ h' = CloseRegions(h, {<<NoOne, "code">>}, FALSE)
  /\ UNCHANGED <<locks, pc, rq, hint, objs, gc_pending, collections, lost>>

\* unregister_thread: gc_close_thread_regions(LOCK_PAGE_TABLE|CONSUME_REMAINDER).
gc_close_thread_regions(t) ==
  /\ Closing(t)
  /\ h' = CloseRegions(h, Tlabs(t), TRUE)
  /\ Goto(t, "dead")
  /\ UNCHANGED <<locks, rq, hint, objs, gc_pending, collections, lost>>

(***************************************************************************)
(* A collection.  Objects of the threads in Keep survive where they are.   *)
(***************************************************************************)
\* Not pseudo-atomic: outside of any request, asleep on an arena's lock or in its handler.
Interruptible == {"idle", "dead", "asleep", "decide"}

Extent(o) == o.a .. o.a + o.n - 1

Collect(Keep) ==
  LET closed == RESET_ALLOC_START_PAGES(CloseRegions(h, DOMAIN h.reg, FALSE))
      Live   == {o \in objs : o.owner \in Keep \/ PageOf(o.a) \notin PageIndex}
      Busy   == {p \in PageIndex : \E o \in Live : PageWordSet(p) \cap Extent(o) # {}}
      Young  == {p \in 0 .. closed.nfp - 1 : closed.page[p].gen = 0 /\ closed.page[p].used > 0}
      moved  == UsedOn(closed, Young \cap Busy)
      raised == [closed EXCEPT
                   !.page = [p \in 0 .. NPages |-> IF p \in Young \cap Busy THEN [@[p] EXCEPT !.gen = 1]
                                                   ELSE @[p]],
                   !.genbytes[0] = @ - moved, !.genbytes[1] = @ + moved]
      swept  == find_next_free_page(free_oldspace(raised, 0))
  IN
  /\ gc_pending /\ collections < MaxCollections /\ ~lost
  /\ \A t \in Threads : pc[t] \in Interruptible
  /\ objs' = Live
  /\ \E remap \in BOOLEAN : h' = IF remap THEN remap_free_pages(swept, 0, NPages - 1) ELSE swept
  /\ gc_pending' = FALSE /\ collections' = collections + 1
  /\ UNCHANGED <<locks, pc, rq, hint, lost, ops>>

\* What a thread asks of dynamic space.
HeapRequest(t) ==
  \/ \E n \in MixedSizes : alloc(t, n)
  \/ alloc_large(t, LargeWords + 2)
  \/ alloc_list(t) \/ \E n \in ListSizes : make_list(t, n)
  \/ close_current_thread_tlab(t)

OtherRequest(t) ==
  \/ \E n \in CodeSizes : alloc_code_object(t, n)
  \/ close_code_region(t) \/ gc_close_thread_regions(t)

lisp_alloc(t) ==
  \/ lisp_alloc_quick(t) \/ lisp_alloc_slow(t)
  \/ FindPages(t) \/ gc_heap_exhausted_error_or_lose(t)
  \/ SetupRegion(t) \/ PreparePages(t)
  \/ SetupLargePages(t) \/ FinishLargeObject(t) \/ UseObject(t)

(***************************************************************************)
(* Properties.                                                             *)
(***************************************************************************)
OpenSpace(k) == h.reg[k].free .. h.reg[k].end - 1
Regions == {k \in DOMAIN h.reg : h.reg[k].start # 0}

\* No word belongs to two objects, to two open regions, or to an object and what a region
\* has yet to give out: two threads that look for space at once never get the same page.
NoOverlap ==
  /\ \A o1, o2 \in objs : o1 # o2 => Extent(o1) \cap Extent(o2) = {}
  /\ \A k1, k2 \in Regions : k1 # k2 => OpenSpace(k1) \cap OpenSpace(k2) = {}
  /\ \A k \in Regions, o \in objs : OpenSpace(k) \cap Extent(o) = {}

\* Memory from MIXED pages reaches Lisp all zeros, whoever used it before and whoever
\* clears it: compiled code relies on it when it leaves slots unwritten.
FreshMemoryIsZero ==
  \A t \in Threads : pc[t] = "got" /\ rq[t].type = "mixed" =>
    h.nz \cap (rq[t].a .. rq[t].a + rq[t].n - 1) = {}

\* The page table and the totals say where objects are, whatever regions came and went:
\* an object lies in the used part of its pages or in an open region, the totals are the
\* sum of the pages, and nothing is left on a free page.
AccountingIsExact ==
  /\ \A o \in objs : \A a \in Extent(o) : PageOf(a) \in PageIndex =>
       \/ a < Addr(PageOf(a)) + h.page[PageOf(a)].used
       \/ \E k \in Regions : h.reg[k].start <= a /\ a < h.reg[k].free
  /\ h.bytes = UsedOn(h, PageIndex)
  /\ \A g \in Gens : h.genbytes[g] = UsedOn(h, {p \in PageIndex : h.page[p].gen = g})
  /\ \A p \in PageIndex : page_free_p(h, p) =>
       h.page[p].used = 0 /\ h.page[p].ss = 0 /\ (h.nz \cap PageWordSet(p) # {} => h.page[p].zero)
=============================================================================
