-------------------------------- MODULE Pages --------------------------------
(***************************************************************************)
(* The page table of dynamic space and the operations on it that both the  *)
(* mutators and the collector use (src/runtime/gencgc.c, gencgc-impl.h,    *)
(* private-cons.inc and the zeroing functions of gc-common.c).             *)
(*                                                                         *)
(* A heap is one record h; an operation is a function from heaps to heaps. *)
(* Addresses and sizes are counted in words; page p covers PageWords words *)
(* from Addr(p), and the entry NPages of the page table is the one the     *)
(* code keeps past the last page so that it can look one page ahead.       *)
(***************************************************************************)
EXTENDS Integers, Sequences, FiniteSets, FiniteSetsExt

CONSTANTS NPages,        \* pages of dynamic space
          PageWords,     \* GENCGC_PAGE_WORDS
          CardWords,     \* GENCGC_CARD_BYTES
          ConsWords,     \* CONS_PAGE_USABLE_BYTES
          LargeWords,    \* LARGE_OBJECT_SIZE
          Granularity,   \* gencgc_alloc_granularity
          SmallLimit,    \* SMALL_MIXED_NWORDS_LIMIT
          NumNewAreas,   \* NUM_NEW_AREAS
          Gens,          \* generation numbers; the largest is SCRATCH_GENERATION
          Owners         \* who allocates: threads, and the collector

ASSUME PagesAssumption ==
  /\ NPages \in Nat /\ PageWords \in Nat \ {0} /\ ConsWords \in 2 .. PageWords
  /\ CardWords \in 1 .. PageWords /\ PageWords % CardWords = 0
  /\ LargeWords \in Nat /\ Granularity \in Nat /\ SmallLimit \in 2 .. CardWords

PageTypes == {"unboxed", "boxed", "mixed", "small", "cons", "code"}
PageIndex == 0 .. NPages - 1

\* SCRATCH_GENERATION, above PSEUDO_STATIC_GENERATION.
Scratch == Max(Gens)

Addr(p)   == (p + 1) * PageWords
PageOf(a) == (a \div PageWords) - 1
CardOf(a) == a \div CardWords
PageWordSet(p) == Addr(p) .. Addr(p + 1) - 1
PageCards(p)   == {CardOf(a) : a \in PageWordSet(p)}
AllCards       == {CardOf(a) : a \in PageWords .. (NPages + 1) * PageWords - 1}

AlignUp(a, n)   == ((a + n - 1) \div n) * n
AlignDown(a, n) == (a \div n) * n

EmptyRegion == [start |-> 0, free |-> 0, end |-> 0]

\* An untouched dynamic space, as coreparse leaves it for an empty heap.
EmptyHeap ==
  [ page  |-> [p \in 0 .. NPages |-> [type |-> "free", open |-> FALSE, single |-> FALSE,
                                      gen |-> 0, used |-> 0, ss |-> 0, zero |-> FALSE]],
    card  |-> [c \in AllCards |-> "marked"],
    pins  |-> [p \in PageIndex |-> {}],
    nz    |-> {},                                        \* words that hold nonzero bits
    reg   |-> [k \in Owners \X PageTypes |-> EmptyRegion],
    start |-> [t \in PageTypes |-> 0],                   \* alloc_start_pages
    max   |-> 0,                                         \* max_alloc_start_page
    nfp   |-> 0,                                         \* next_free_page
    bytes |-> 0, genbytes |-> [g \in Gens |-> 0],
    gen   |-> 0,                                         \* gc_alloc_generation
    areas |-> << >>, below |-> 0, unboxed |-> FALSE,     \* new_areas and what fills it
    priv  |-> << >>, recycled |-> 0 ]                    \* pages of GC-private conses, free ones

page_free_p(h, p) == h.page[p].type = "free"
boxed_type_p(type) == type # "unboxed"

\* assign_page_card_marks
assign_page_card_marks(h, P, mark) ==
  [h EXCEPT !.card = [c \in AllCards |-> IF \E p \in P : c \in PageCards(p) THEN mark ELSE @[c]]]

page_cards_all_marked_nonsticky(h, p) == \A c \in PageCards(p) : h.card[c] = "marked"

\* Pages P keep their generation and need_to_zero bit, lose every other flag.
reset_page_flags(h, P) ==
  assign_page_card_marks(
    [h EXCEPT
       !.page = [p \in 0 .. NPages |->
                   IF p \in P THEN [@[p] EXCEPT !.type = "free", !.open = FALSE,
                                                !.single = FALSE, !.ss = 0]
                              ELSE @[p]],
       !.pins = [p \in PageIndex |-> IF p \in P THEN {} ELSE @[p]]],
    P, "marked")

\* Mutant of FreePages: need_to_zero is not set.
FreePagesClean(h, P) ==
  reset_page_flags(
    [h EXCEPT !.page = [p \in 0 .. NPages |-> IF p \in P THEN [@[p] EXCEPT !.used = 0] ELSE @[p]]], P)

\* What every caller that gives pages back does first: note the old use, clear it.
FreePages(h, P) ==
  reset_page_flags(
    [h EXCEPT !.page = [p \in 0 .. NPages |->
       IF p \in P THEN [@[p] EXCEPT !.zero = @ \/ h.page[p].used > 0, !.used = 0] ELSE @[p]]],
    P)

UsedOn(h, P) == MapThenSumSet(LAMBDA p : h.page[p].used, P)

RESET_ALLOC_START_PAGES(h) == [h EXCEPT !.start = [t \in PageTypes |-> 0], !.max = 0]

set_alloc_start_page(h, type, p) == [h EXCEPT !.start[type] = p, !.max = Max({@, p})]

\* A thread's hint (or a negative number) wins once when it is not past the global start.
get_alloc_start_page(h, type, hint) ==
  IF type \in {"mixed", "cons"} /\ hint > 0 /\ hint <= h.start[type] THEN hint ELSE h.start[type]

page_extensible_p(h, p, type) ==
  /\ h.page[p].type = type /\ ~h.page[p].open /\ ~h.page[p].single
  /\ h.page[p].gen = h.gen
  /\ page_cards_all_marked_nonsticky(h, p)

page_starts_contiguous_block_p(h, p) == h.page[p].ss = 0

page_ends_contiguous_block_p(h, p) ==
  h.page[p].used < PageWords \/ page_starts_contiguous_block_p(h, p + 1)

contiguous_block_final_page(h, p) ==
  Min({q \in p .. NPages - 1 : page_ends_contiguous_block_p(h, q)})

\* Fresh pages first..last for a region: only MIXED memory that Lisp can get is cleared.
prepare_pages(h, first, last, type, usable) ==
  LET Z == {p \in first .. last : type = "mixed" /\ usable /\ h.page[p].zero}
  IN [h EXCEPT !.nz = @ \ UNION {PageWordSet(p) : p \in Z},
               !.page = [p \in 0 .. NPages |-> IF p \in Z THEN [@[p] EXCEPT !.zero = FALSE] ELSE @[p]]]

(***************************************************************************)
(* Finding space.  The result names pages first..last, or says how much    *)
(* the largest candidate offered (for gc_heap_exhausted_error_or_lose).    *)
(***************************************************************************)
Found(first, last) == [ok |-> TRUE, first |-> first, last |-> last, avail |-> 0]
Exhausted(avail)   == [ok |-> FALSE, first |-> 0, last |-> 0, avail |-> avail]

SinglePageCapacity(type) == IF type = "cons" THEN ConsWords ELSE PageWords

find_single_page(h, type, n) ==
  LET cap  == SinglePageCapacity(type)
      Fits == {p \in h.start[type] .. NPages - 1 :
                 /\ h.page[p].used <= cap - n
                 /\ page_free_p(h, p) \/ page_extensible_p(h, p, type)}
      Room == {cap - h.page[p].used : p \in {q \in h.start[type] .. NPages - 1 :
                 h.page[q].used < PageWords /\ page_extensible_p(h, q, type)}}
  IN IF Fits # {} THEN Found(Min(Fits), Min(Fits))
     ELSE Exhausted(Max(Room \cup {0}))

\* Words a run that starts on p offers when it may grow over free pages up to goal words.
RunEnd(h, p, room, goal) ==
  LET Stops == {q \in p + 1 .. NPages :
                  \/ room + (q - p - 1) * PageWords >= goal
                  \/ q = NPages \/ ~page_free_p(h, q)}
  IN Min(Stops)

\* Pages with room that a region may be continued on.
Partial(h, from, type) ==
  {p \in from .. NPages - 1 : /\ ~page_free_p(h, p) /\ h.page[p].used < PageWords
                              /\ page_extensible_p(h, p, type)}

\* Where a run may start: on a page of Usable, or on a free page.  The scan resumes where
\* the previous run stopped, so a free page inside a run never starts one.
RunStarts(h, from, Usable) ==
  Usable \cup {p \in from .. NPages - 1 : /\ page_free_p(h, p)
                                          /\ \/ p = from \/ ~page_free_p(h, p - 1)
                                          /\ ~(p > from /\ p - 1 \in Usable)}

Room(h, p) == PageWords - h.page[p].used
RunSize(h, p, goal) == Room(h, p) + (RunEnd(h, p, Room(h, p), goal) - p - 1) * PageWords

\* The first run that meets the goal, else the largest.  size: start -> words it offers.
PickRun(h, n, goal, size, skipped) ==
  LET most   == Max({size[p] : p \in DOMAIN size} \cup {0})
      pick   == Min({p \in DOMAIN size : size[p] >= goal \/ (most < goal /\ size[p] = most)})
  IN IF DOMAIN size # {} /\ most >= n
     THEN Found(pick, RunEnd(h, pick, Room(h, pick), goal) - 1)
     ELSE Exhausted(Max({most, skipped}))

gc_find_freeish_pages(h, from, n, single, type) ==
  LET goal    == IF single \/ n >= Granularity THEN n ELSE Granularity
      Parts   == IF single THEN {} ELSE Partial(h, from, type)
      Skipped == {p \in Parts : Room(h, p) < n /\ type # "code"}
  IN PickRun(h, n, goal, [p \in RunStarts(h, from, Parts \ Skipped) |-> RunSize(h, p, goal)],
             Max({Room(h, p) : p \in Skipped} \cup {0}))

\* gc_alloc_new_region, up to and including the search.
FindRegion(h, n, type, hint) ==
  IF type \in {"cons", "small"} THEN find_single_page(h, type, n)
  ELSE gc_find_freeish_pages(h, get_alloc_start_page(h, type, hint), n, n >= PageWords, type)

\* gc_alloc_new_region: claim the pages found and set up region k.
OpenRegion(h, k, f) ==
  LET type  == k[2]
      first == f.first
      start == Addr(first) + h.page[first].used
      end   == CASE type = "cons"  -> Addr(first) + ConsWords
                 [] type = "small" -> AlignDown(start, CardWords) + CardWords
                 [] OTHER          -> Addr(f.last + 1)
  IN [h EXCEPT
        !.nfp = Max({@, f.last + 1}),
        !.reg[k] = [start |-> start, free |-> start, end |-> end],
        !.page = [p \in 0 .. NPages |->
          IF p \notin first .. f.last THEN @[p]
          ELSE [@[p] EXCEPT !.type = type, !.open = TRUE, !.gen = h.gen,
                            !.ss = IF p = first THEN @ ELSE Addr(p) - start]]]

\* The pages gc_alloc_new_region hands to prepare_pages: those with nothing on them yet.
PrepareRegion(h, f, type, usable) ==
  LET first == IF h.page[f.first].used > 0 THEN f.first + 1 ELSE f.first
  IN prepare_pages(h, first, f.last, type, usable)

\* Extend one of the last eight areas when the new one continues it, else record it.
add_new_area(h, page, offset, n) ==
  LET from  == Addr(page) + offset
      len   == Len(h.areas)
      Joins == {i \in Max({1, len - 7}) .. len : h.areas[i].from + h.areas[i].n = from}
  IN IF page >= h.below \/ len >= NumNewAreas THEN h
     ELSE IF Joins # {} THEN [h EXCEPT !.areas[Max(Joins)].n = @ + n]
     ELSE [h EXCEPT !.areas = Append(@, [from |-> from, n |-> n])]

NoteArea(h, type, page, offset, n) ==
  IF boxed_type_p(type) THEN add_new_area(h, page, offset, n) ELSE [h EXCEPT !.unboxed = TRUE]

\* Mutant of WordsUsed: counts from where the region began.
WordsUsedOfRegion(r, p) == Min({PageWords, r.free - r.start})

\* Words used of page p once region r is closed.
WordsUsed(r, p) == Min({PageWords, r.free - Addr(p)})

\* Account for the n words taken from region r of the given type, on pages first..last.
AccountRegion(h, type, r, first, last, n) ==
  IF n = 0 THEN h
  ELSE NoteArea(set_alloc_start_page(
         [h EXCEPT !.page = [p \in 0 .. NPages |->
                      IF p \in first .. last THEN [@[p] EXCEPT !.used = WordsUsed(r, p)] ELSE @[p]],
                   !.bytes = @ + n, !.genbytes[h.gen] = @ + n], type, last),
         type, first, h.page[first].used, n)

\* Account for what was taken from region k and give back the pages it did not reach.
gc_close_region(h, k) ==
  LET r     == h.reg[k]
      first == PageOf(r.start)
      taken == r.free - r.start
      last  == IF taken > 0 THEN PageOf(r.free - 1) ELSE first
      open  == [h EXCEPT !.reg[k] = EmptyRegion,
                         !.page = [p \in 0 .. NPages |->
                           IF p \in first .. last THEN [@[p] EXCEPT !.open = FALSE] ELSE @[p]]]
      Unused == (last + 1 .. PageOf(r.end - 1))
                  \cup IF taken = 0 /\ h.page[first].used = 0 THEN {first} ELSE {}
  IN reset_page_flags(AccountRegion(open, k[2], r, first, last, taken), Unused)

ensure_region_closed(h, k) == IF h.reg[k].start = 0 THEN h ELSE gc_close_region(h, k)

\* gc_alloc_large: what it does to the page table and the totals while it owns them.
LargeType(type) == IF type \in {"boxed", "small"} THEN "mixed" ELSE type

FindLarge(h, n, type) == gc_find_freeish_pages(h, h.max, n, TRUE, LargeType(type))

SetupLarge(h, f, n, type) ==
  [h EXCEPT
     !.max = f.last, !.nfp = Max({@, f.last + 1}),
     !.nz = @ \cup {Addr(f.first)},          \* the filler header that stands in for the object
     !.bytes = @ + n, !.genbytes[h.gen] = @ + n,
     !.page = [p \in 0 .. NPages |->
       IF p \notin f.first .. f.last THEN @[p]
       ELSE [@[p] EXCEPT !.type = LargeType(type), !.single = TRUE, !.gen = h.gen,
               !.ss = (p - f.first) * PageWords,
               !.used = IF p < f.last THEN PageWords ELSE n - (p - f.first) * PageWords]]]

\* gc_alloc_large, after it let go of the page table.
FinishLarge(h, f, n, type, usable) ==
  LET z == NoteArea(prepare_pages(h, f.first, f.last, LargeType(type), usable),
                    LargeType(type), f.first, 0, n)
  IN [z EXCEPT !.nz = @ \ {Addr(f.first)}]

(***************************************************************************)
(* The collector's own allocation, with the world stopped.  A result is    *)
(* the new heap and the address; address 0 says the heap is exhausted,     *)
(* which ends the process.                                                 *)
(***************************************************************************)
Result(h, a) == [h |-> h, a |-> a]

LargeAt(h, f, n, type, usable) ==
  IF ~f.ok THEN Result(h, 0)
  ELSE Result(FinishLarge(SetupLarge(h, f, n, type), f, n, type, usable), Addr(f.first))

gc_alloc_large(h, n, type, usable) == LargeAt(h, FindLarge(h, n, type), n, type, usable)

RegionAt(h, f, k, usable) ==
  IF ~f.ok THEN h ELSE PrepareRegion(OpenRegion(h, k, f), f, k[2], usable)

gc_alloc_new_region(h, n, k, usable) == RegionAt(h, FindRegion(h, n, k[2], -1), k, usable)

Bump(h, k, a, n) == Result([h EXCEPT !.reg[k].free = a + n], a)

FromFresh(h, n, k) == IF h.reg[k].start = 0 THEN Result(h, 0) ELSE Bump(h, k, h.reg[k].start, n)

new_region(h, n, k, usable) ==
  FromFresh(gc_alloc_new_region(ensure_region_closed(h, k), n, k, usable), n, k)

\* Small mixed objects never span cards.  fresh: region k was just opened.  The object
\* goes on the current card, else on the next card of the page, else to another page; or
\* to the mixed region when too much of the page would be wasted.
next_card(r) == AlignUp(r.free, CardWords)

OnCard(h, n, k, fresh) ==
  LET r == h.reg[k] IN
  IF r.start = 0 THEN Result(h, 0)
  ELSE IF fresh /\ r.start + n <= r.end THEN Bump(h, k, r.start, n)
  ELSE Bump([h EXCEPT !.reg[k].end = next_card(r) + CardWords], k, next_card(r), n)

MixedRegion(k) == <<k[1], "mixed">>

small_mixed_alloc(h, n, k, usable, fresh) ==
  LET r    == h.reg[k]
      here == r.start = 0 \/ (fresh /\ r.start + n <= r.end)
      next == next_card(r) < Addr(PageOf(r.start) + 1)
      mixed == IF next THEN next_card(r) - r.free >= SmallLimit ELSE n > SmallLimit
  IN IF ~here /\ mixed THEN new_region(h, n, MixedRegion(k), usable)
     ELSE IF here \/ next THEN OnCard(h, n, k, fresh)
     ELSE OnCard(gc_alloc_new_region(ensure_region_closed(h, k), n, k, usable), n, k, TRUE)

collector_alloc_fallback(h, n, k, usable) ==
  IF n >= LargeWords THEN gc_alloc_large(h, n, k[2], usable)
  ELSE IF k[2] # "small" \/ n > CardWords
  THEN new_region(h, n, IF k[2] = "small" THEN MixedRegion(k) ELSE k, usable)
  ELSE small_mixed_alloc(IF h.reg[k].start # 0 THEN h
                         ELSE gc_alloc_new_region(h, Min({n, SmallLimit}), k, usable),
                         n, k, usable, h.reg[k].start = 0)

gc_general_alloc(h, n, k, usable) ==
  IF h.reg[k].free + n <= h.reg[k].end
  THEN Bump(h, k, h.reg[k].free, n)
  ELSE collector_alloc_fallback(h, n, k, usable)

(***************************************************************************)
(* GC-private conses: work lists of the collector, on unboxed pages that   *)
(* are in no generation it collects.  (The address of a cons is left out.) *)
(***************************************************************************)
GC_PRIVATE_CONS_GENERATION == Scratch - 1

PrivatePage(h, p) ==
  [set_alloc_start_page(h, "unboxed", p) EXCEPT
     !.priv = <<p>> \o @, !.nfp = Max({@, p + 1}),
     !.page[p] = [@ EXCEPT !.gen = GC_PRIVATE_CONS_GENERATION, !.type = "unboxed",
                           !.used = 4]]                    \* the page header is a cons too

private_cons_impl(h) ==
  IF h.priv # << >> /\ h.page[Head(h.priv)].used < PageWords
  THEN [h EXCEPT !.page[Head(h.priv)].used = @ + 2]
  ELSE PrivatePage(h, gc_find_freeish_pages(h, h.start["unboxed"], PageWords, TRUE, "unboxed").first)

gc_private_cons(h) ==
  IF h.recycled > 0 THEN [h EXCEPT !.recycled = @ - 1] ELSE private_cons_impl(h)

gc_private_free(h, n) == [h EXCEPT !.recycled = @ + n]

\* Every page of the chain is free again, and known to hold garbage.
gc_dispose_private_pages(h) ==
  [FreePages(h, {h.priv[i] : i \in DOMAIN h.priv}) EXCEPT !.priv = << >>, !.recycled = 0]

(***************************************************************************)
(* Giving memory back.                                                     *)
(***************************************************************************)
\* An object of single-object pages that starts on page first has n words now: give the
\* pages it shrank out of back, the others generation g and this page type.
adjust_obj_ptes(h, first, n, g, type) ==
  LET Mine  == first .. contiguous_block_final_page(h, first)
      final == first + ((n + PageWords - 1) \div PageWords) - 1
      Keep  == first .. final
      freed == UsedOn(h, Mine) - n
      kept  == [h EXCEPT !.page = [p \in 0 .. NPages |->
                 IF p \notin Keep THEN @[p]
                 ELSE [@[p] EXCEPT !.gen = g, !.type = type,
                         !.used = IF p < final THEN @ ELSE n - (p - first) * PageWords]]]
  IN [h |-> FreePages(kept, Mine \ Keep), freed |-> freed]

FreeGeneration(h, P, g) ==
  LET freed == UsedOn(h, P)
  IN [FreePages(h, P) EXCEPT !.bytes = @ - freed, !.genbytes[g] = @ - freed]

free_oldspace(h, from_space) ==
  FreeGeneration(h, {p \in 0 .. h.nfp - 1 : h.page[p].gen = from_space}, from_space)

release_page_range(h, P) ==
  [h EXCEPT !.nz = @ \ UNION {PageWordSet(p) : p \in P},
            !.page = [p \in 0 .. NPages |-> IF p \in P THEN [@[p] EXCEPT !.zero = FALSE] ELSE @[p]]]

remap_free_pages(h, from, to) ==
  release_page_range(h, {p \in from .. to : page_free_p(h, p) /\ h.page[p].zero})

find_next_free_page(h) ==
  [h EXCEPT !.nfp = Max({p + 1 : p \in {q \in PageIndex : h.page[q].used > 0}} \cup {0})]
=============================================================================
