----------------------------- MODULE MarkRegion -----------------------------
(***************************************************************************)
(* The mark-region collector (src/runtime/mark-region.c, pmrgc.c,          *)
(* incremental-compact.c): objects stay where they are, generations belong *)
(* to lines of a page, free lines are allocated from again, and pages that *)
(* are mostly empty are evacuated.  One mutator, stopped while             *)
(* collect_garbage runs; the tracing threads share their work, and a trace *)
(* is its result here.                                                     *)
(*                                                                         *)
(* Memory is a function from base addresses to objects, as in Gencgc.      *)
(* Weak tables and finalizers, which are those of Gencgc, are left out.    *)
(***************************************************************************)
EXTENDS Integers, FiniteSets, FiniteSetsExt, Sequences, SequencesExt, TLC

CONSTANTS NPages,         \* page_table_pages
          LinesPerPage,   \* lines, and cards, of a page
          LineWords,      \* words of a line, 16 in the code
          LargeWords,     \* LARGE_OBJECT_SIZE; the collector's own limit is 3/4 of a page
          CopyWords,      \* bytes_to_copy of one compaction
          Oldest,         \* gencgc_oldest_gen_to_gc
          Promotion,      \* number_of_gcs_before_promotion
          Cells,          \* exact roots
          Scripts         \* bound: the operations of the program in order, their operands free

PseudoStatic == Oldest + 1
Generations  == 0 .. PseudoStatic
WordsOfPage  == LinesPerPage * LineWords
PageIndex    == 0 .. NPages - 1
LineIndex    == 0 .. NPages * LinesPerPage - 1

MarkRegionAssumption ==
  /\ NPages \in Nat \ {0, 1} /\ LinesPerPage \in Nat \ {0} /\ LineWords \in {2 * i : i \in 1 .. 8}
  /\ "X" \in Cells /\ Oldest \in Nat \ {0} /\ LargeWords <= WordsOfPage

VARIABLES g,       \* the heap, the exact roots and the collector's tables
          stack,   \* words on the control stack [a, id]; id = 0: no pointer to an object
          pins,    \* WITH-PINNED-OBJECTS [a, id]
          store,   \* a store whose card is marked and whose write is still to come
          pc, run, \* where the collection is; gen, last_gen, raise, more
          age,     \* num_gc of each generation
          left     \* what is left of the script

vars == <<g, stack, pins, store, pc, run, age, left>>

NoWord  == [a |-> 0, id |-> 0]
NoStore == [base |-> NoWord, o |-> 0, v |-> NoWord]
Unbound == -1
Types   == {"cons", "mixed", "boxed", "unboxed"}

\* Words, and the offsets of the pointers, of a fresh object of each kind.
Shape == [ cons |-> [n |-> 2, o |-> {0, 1}],  inst |-> [n |-> 4, o |-> {1, 3}],
           vec  |-> [n |-> 6, o |-> {2, 5}],  raw  |-> [n |-> 4, o |-> {}],
           big  |-> [n |-> WordsOfPage + 2, o |-> {2, WordsOfPage + 1}],
           wp   |-> [n |-> 2, o |-> {1}] ]
Vectors == {"vec", "big"}

(***************************************************************************)
(* Addresses, pages and lines.  The heap begins at address WordsOfPage.      *)
(***************************************************************************)
Addr(p)  == (p + 1) * WordsOfPage
Page(a)  == a \div WordsOfPage - 1
address_line(a) == (a - WordsOfPage) \div LineWords
line_address(l) == WordsOfPage + l * LineWords
page_to_line(p) == p * LinesPerPage
PageLines(p)    == page_to_line(p) .. page_to_line(p + 1) - 1
PageOfLine(l)   == l \div LinesPerPage

\* A byte of line_bytemap: generation (-1 when the code is 0), mark and fresh bit.
FreeLine  == [gen |-> -1, marked |-> FALSE, fresh |-> FALSE]
FreshLine == [gen |-> -1, marked |-> FALSE, fresh |-> TRUE]
MARK_GEN(b)      == [b EXCEPT !.marked = TRUE]
UNFRESHEN_GEN(b) == [b EXCEPT !.fresh = FALSE]

FreePage == [type |-> "free", single |-> FALSE, open |-> FALSE, gen |-> 0, used |-> 0, ss |-> 0]
page_free_p(x, p)       == x.page[p].type = "free"
page_single_obj_p(x, p) == x.page[p].single

\* Memory that was cleared and never written reads as (0 . 0).
Obj(x, a) == IF a \in DOMAIN x.mem THEN x.mem[a]
             ELSE [kind |-> "cons", n |-> 2, id |-> 0, slot |-> [o \in {0, 1} |-> 0],
                   want |-> [o \in {0, 1} |-> 0]]

ObjectLines(x, a) == address_line(a) .. address_line(a + Obj(x, a).n - 1)

gc_gen_of(x, a, default) ==
  IF a <= 0 THEN default
  ELSE IF page_single_obj_p(x, Page(a)) THEN x.page[Page(a)].gen
  ELSE LET b == x.line[address_line(a)] IN
       IF b.gen = -1 THEN IF b.fresh THEN 0 ELSE default ELSE b.gen

\* Addresses, lines or pages in the order in which a loop meets them.
Ascending(S) == [i \in 1 .. Cardinality(S) |-> CHOOSE n \in S : Cardinality({m \in S : m < n}) = i - 1]

SetLines(x, L, F(_)) == [x EXCEPT !.line = [l \in LineIndex |-> IF l \in L THEN F(@[l]) ELSE @[l]]]

(***************************************************************************)
(* Allocation.  region[<<who, type>>]: what is left of a run of lines.     *)
(***************************************************************************)
NoRegion == [start |-> 0, free |-> 0, end |-> 0]

\* Maximal runs <<s, e>> of free lines among s .. e - 1.
Chunks(x, from, to) ==
  {c \in (from .. to) \X (from .. to) :
     /\ c[1] < c[2] /\ \A l \in c[1] .. c[2] - 1 : x.line[l] = FreeLine
     /\ c[1] = from \/ x.line[c[1] - 1] # FreeLine
     /\ c[2] = to \/ x.line[c[2]] # FreeLine}
Fitting(x, n, from, to) == {c \in Chunks(x, from, to) : (c[2] - c[1]) * LineWords >= n}

\* The first run that fits becomes the region; what was there is gone.
try_allocate_small(x, k, n, from, to) ==
  LET c == CHOOSE c \in Fitting(x, n, from, to) : \A d \in Fitting(x, n, from, to) : c[1] <= d[1]
      A == line_address(c[1]) .. line_address(c[2]) - 1
  IN [SetLines(x, c[1] .. c[2] - 1, LAMBDA b : IF x.active THEN FreeLine ELSE FreshLine) EXCEPT
        !.region[k] = [start |-> Min(A), free |-> Min(A) + n, end |-> Max(A) + 1],
        !.mem = [a \in {b \in DOMAIN @ : A \cap (b .. b + @[b].n - 1) = {}} |-> @[a]]]

\* mr_update_closed_region: every line of the page that has no generation gets one.
ensure_region_closed(x, k) ==
  IF x.region[k] = NoRegion THEN x
  ELSE LET p == Page(x.region[k].start) IN
       [SetLines(x, PageLines(p), LAMBDA b : IF b.gen = -1 THEN [b EXCEPT !.gen = x.allocgen] ELSE b)
          EXCEPT !.page[p].open = FALSE, !.region[k] = NoRegion]

SmallPages(x, type, n, state) ==
  {p \in state.page .. NPages - 1 :
     /\ x.page[p].used <= WordsOfPage - n /\ p \notin x.target
     /\ \/ state.free /\ page_free_p(x, p)
        \/ x.page[p].type = type /\ ~x.page[p].single /\ ~x.page[p].open
           /\ x.page[p].gen # PseudoStatic
     /\ Fitting(x, n, page_to_line(p), page_to_line(p + 1)) # {}}

\* The search begins where the last one ended, and takes free pages on the second round.
try_allocate_small_from_pages(x, k, n) ==
  LET type == k[2]
      round == IF SmallPages(x, type, n, x.start[type]) # {} \/ x.start[type].free
               THEN x.start[type] ELSE [page |-> 0, free |-> TRUE]
      P == SmallPages(x, type, n, round)
      p == Min(P)
      claimed == WordsOfPage - x.page[p].used
  IN IF P = {} THEN [x EXCEPT !.lost = TRUE]
     ELSE [try_allocate_small(x, k, n, page_to_line(p), page_to_line(p + 1)) EXCEPT
             !.page[p] = [type |-> type, single |-> FALSE, open |-> TRUE, gen |-> 0,
                          used |-> WordsOfPage, ss |-> 0],
             !.start[type] = [page |-> p + 1, free |-> round.free],
             !.bytes = @ + claimed, !.genbytes[x.allocgen] = @ + claimed,
             !.nfp = IF p + 1 > @ THEN p + 1 ELSE @]

\* The first run of free pages; the object begins the first of them.
try_allocate_large(x, type, n) ==
  LET need == (n + WordsOfPage - 1) \div WordsOfPage
      P == {p \in x.start[type].page .. NPages - need :
              \A q \in p .. p + need - 1 : page_free_p(x, q)}
      p == Min(P)
      Q == p .. p + need - 1
  IN IF P = {} THEN [x EXCEPT !.lost = TRUE]
     ELSE [x EXCEPT
             !.page = [q \in PageIndex |-> IF q \notin Q THEN @[q] ELSE
                [type |-> type, single |-> TRUE, open |-> FALSE, gen |-> x.allocgen,
                 used |-> IF q = Max(Q) THEN n - (need - 1) * WordsOfPage ELSE WordsOfPage,
                 ss |-> (q - p) * WordsOfPage]],
             !.mem = [a \in {b \in DOMAIN @ : Page(b) \notin Q} |-> @[a]],
             !.alloc = @ \cup {Addr(p)}, !.start[type].page = p + need,
             !.bytes = @ + n, !.genbytes[x.allocgen] = @ + n,
             !.nfp = IF p + need > @ THEN p + need ELSE @, !.large = Addr(p)]

\* The address of what the last allocation made.
Allocated(x, k, n, large) == IF large THEN x.large ELSE x.region[k].free - n

\* lisp_alloc: from the region, from the rest of its page, or from another page.
lisp_alloc(x, k, n) ==
  LET r == x.region[k]
      end == IF r = NoRegion THEN 0 ELSE page_to_line(Page(r.start) + 1)
  IN IF r # NoRegion /\ r.free + n <= r.end THEN [x EXCEPT !.region[k].free = @ + n]
     ELSE IF r # NoRegion /\ Fitting(x, n, address_line(r.end), end) # {}
     THEN try_allocate_small(x, k, n, address_line(r.end), end)
     ELSE IF n >= LargeWords /\ k[2] # "cons"
     THEN try_allocate_large(ensure_region_closed(x, k), k[2], n)
     ELSE try_allocate_small_from_pages(ensure_region_closed(x, k), k, n)

\* gc_general_alloc and collector_alloc_fallback, for what compaction copies.
SetAllocated(x, k, n) == IF x.lost THEN x ELSE [x EXCEPT !.alloc = @ \cup {Allocated(x, k, n, FALSE)}]

gc_general_alloc(x, k, n) ==
  SetAllocated(IF x.region[k] # NoRegion /\ x.region[k].free + n <= x.region[k].end
               THEN [x EXCEPT !.region[k].free = @ + n]
               ELSE try_allocate_small_from_pages(ensure_region_closed(x, k), k, n), k, n)

reset_alloc_start_pages(x, free) == [x EXCEPT !.start = [t \in Types |-> [page |-> 0, free |-> free]]]

(***************************************************************************)
(* Marking.  src is dirty_generation_source, gtc generation_to_collect; a  *)
(* slot is a place in an object or an exact root.                          *)
(***************************************************************************)
Slot(a, o)  == [base |-> a, o |-> o, cell |-> ""]
CellSlot(c) == [base |-> 0, o |-> 0, cell |-> c]
NoSlot      == [base |-> 0, o |-> 0, cell |-> ""]

log_slot(x, a, s) ==
  IF x.compacting /\ s # NoSlot /\ Page(a) \in x.target THEN [x EXCEPT !.remset = @ \cup {s}] ELSE x

mark(x, a, s) ==
  IF a <= 0 THEN x
  ELSE LET gen == gc_gen_of(x, a, 0)
           y   == [x EXCEPT !.dirty = @ \/ gen < x.src]
           z   == log_slot(y, a, s)
       IN IF gen > x.gtc THEN y
          ELSE IF a \in x.marks THEN z
          ELSE [z EXCEPT !.marks = @ \cup {a}, !.grey = @ \cup {a}]

taggedptr_alivep(x, a) == a <= 0 \/ a \in x.marks \/ gc_gen_of(x, a, 0) > x.gtc

\* A weak pointer is not followed: its slot is logged and counts for the card.
watch_deferred(x, a) ==
  LET v == x.mem[a].slot[1]
  IN [log_slot(x, v, Slot(a, 1)) EXCEPT
        !.dirty = @ \/ gc_gen_of(x, v, 0) < x.src, !.weak = @ \cup {a}]

trace_object(x, a) ==
  LET o == Obj(x, a) IN
  IF o.kind = "wp" THEN IF o.slot[1] > 0 THEN watch_deferred(x, a) ELSE x
  ELSE FoldSet(LAMBDA i, y : mark(y, o.slot[i], Slot(a, i)), x, DOMAIN o.slot)

\* The lines of a small object, the words used by a large one.
mark_lines(x, a) ==
  LET p == Page(a) n == Obj(x, a).n IN
  IF page_single_obj_p(x, p)
  THEN [x EXCEPT !.page = [q \in PageIndex |->
          IF q < p \/ (q - p) * WordsOfPage >= n THEN @[q]
          ELSE [@[q] EXCEPT !.used = Min({WordsOfPage, n - (q - p) * WordsOfPage})]]]
  ELSE SetLines(x, ObjectLines(x, a), MARK_GEN)

RECURSIVE trace_everything(_)
trace_everything(x) ==
  IF x.grey = {} THEN x
  ELSE LET a == CHOOSE b \in x.grey : TRUE
       IN trace_everything(trace_object(mark_lines([x EXCEPT !.grey = @ \ {a}], a), a))

(***************************************************************************)
(* Ambiguous pointers.  Allocation bits are not kept by the mutator: those *)
(* of a run of fresh lines are computed when a pointer into it turns up.   *)
(***************************************************************************)
InHeap(w)   == w \in WordsOfPage .. Addr(NPages) - 1
Fresh(x, w) == x.line[address_line(w)].fresh

FreshRun(x, l) ==
  {m \in PageLines(PageOfLine(l)) : \A i \in Min({l, m}) .. Max({l, m}) : x.line[i].fresh}

compute_allocations(x, w) ==
  LET S == FreshRun(x, address_line(w))
  IN [SetLines(x, S, UNFRESHEN_GEN) EXCEPT
        !.alloc = @ \cup {b \in DOMAIN x.mem : address_line(b) \in S}]

\* The object that word w is in, or 0, among those that begin at low or later.
find_object(x, w, low) ==
  LET np == w - (w % 2)
      B  == {b \in x.alloc : low <= b /\ b <= np}
  IN IF ~InHeap(w) \/ page_free_p(x, Page(np)) THEN 0
     ELSE IF x.page[Page(np)].type = "cons" THEN IF Fresh(x, np) \/ np \in x.alloc THEN np ELSE 0
     ELSE IF B # {} /\ np < Max(B) + Obj(x, Max(B)).n THEN Max(B) ELSE 0

mr_preserve_ambiguous(x, w) ==
  IF ~InHeap(w) THEN x
  ELSE LET y == IF ~page_free_p(x, Page(w)) /\ x.page[Page(w)].type # "cons" /\ Fresh(x, w)
                THEN compute_allocations(x, w) ELSE x
           b == find_object(y, w, WordsOfPage)
       IN IF b = 0 THEN y ELSE [mark(y, b, NoSlot) EXCEPT !.pins = @ \cup {Page(w)}]

mr_preserve_object(x, a) ==
  IF a <= 0 THEN x ELSE [mark(x, a, NoSlot) EXCEPT !.pins = @ \cup {Page(a)}]

\* A register that points to an object about to be stored into keeps the marks it set.
impart_mark_stickiness(x, a) ==
  LET L == IF Obj(x, a).kind \in Vectors
           THEN UNION {PageLines(p) : p \in Page(a) .. Page(a + Obj(x, a).n - 1)}
           ELSE {address_line(a)}
  IN IF a <= 0 THEN x
     ELSE [x EXCEPT !.card = [l \in LineIndex |->
             IF l \in L /\ @[l] = "marked" THEN "sticky" ELSE @[l]]]

(***************************************************************************)
(* Old objects on marked cards.                                            *)
(***************************************************************************)
\* for_each_claim: what the threads of the pool divide among themselves.
Claims == 0 .. NPages - 2

\* Mutant of update_card_mark: the sticky mark is overwritten.
update_sticky_mark(x, l, dirty) == [x EXCEPT !.card[l] = IF dirty THEN "marked" ELSE "clean"]

update_card_mark(x, l, dirty) ==
  IF x.card[l] = "sticky" THEN x
  ELSE [x EXCEPT !.card[l] = IF dirty THEN "marked" ELSE "clean"]

\* The pointer in a word of memory, whatever object it belongs to.
Word(x, w) ==
  LET B == {b \in DOMAIN x.mem : b <= w /\ w < b + x.mem[b].n /\ w - b \in DOMAIN x.mem[b].slot}
  IN IF B = {} THEN 0 ELSE x.mem[Max(B)].slot[w - Max(B)]

\* A page of a large vector: the slots on its marked cards.
scavenge_large(x, p) ==
  LET a == Addr(p) - x.page[p].ss
      Scan(l, y) ==
        LET O == {o \in DOMAIN x.mem[a].slot : address_line(a + o) = l}
            z == FoldSet(LAMBDA o, v : mark(v, x.mem[a].slot[o], Slot(a, o)),
                         [y EXCEPT !.dirty = FALSE], O)
        IN update_card_mark(z, l, z.dirty)
  IN FoldSet(Scan, [x EXCEPT !.src = x.page[p].gen], {l \in PageLines(p) : x.card[l] # "clean"})

\* One marked line: a vector that reaches into it from before, then the objects that begin
\* on it.  seen is the last line on which something was done.
ScavengeLine(r, l) ==
  LET x == [r.x EXCEPT !.dirty = FALSE, !.src = r.x.line[l].gen]
      A == {a \in x.alloc : address_line(a) = l}
      prefix == line_address(l) .. (IF A = {} THEN line_address(l + 1) ELSE Min(A)) - 1
      hit == \E w \in prefix : gc_gen_of(x, Word(x, w), PseudoStatic) < x.src
      before == find_object(x, line_address(l), Addr(PageOfLine(l)))
      again == before # 0 /\ Obj(x, before).kind = "vec" /\ address_line(before) > r.seen
      y == IF hit /\ again THEN trace_object(x, before) ELSE x
      z == FoldSet(LAMBDA a, v : trace_object(v, a), [y EXCEPT !.dirty = @ \/ hit], A)
  IN [x |-> update_card_mark(z, l, z.dirty), seen |-> IF hit \/ A # {} THEN l ELSE r.seen]

scavenge_small(x, p) ==
  LET mask == {l \in PageLines(p) : x.line[l].gen > x.gtc /\ x.card[l] # "clean"}
      y == [x EXCEPT !.card = [l \in LineIndex |->
              IF l \in PageLines(p) /\ @[l] # "sticky" THEN "clean" ELSE @[l]]]
  IN FoldLeft(ScavengeLine, [x |-> y, seen |-> -1], Ascending(mask)).x

mr_scavenge_root_gens(x) ==
  LET Scan(y, p) ==
        IF y.page[p].type = "unboxed" \/ y.page[p].used = 0 THEN y
        ELSE IF ~page_single_obj_p(y, p) THEN scavenge_small(y, p)
        ELSE IF y.page[p].gen > y.gtc THEN scavenge_large(y, p) ELSE y
  IN [FoldLeft(Scan, x, Ascending(Claims)) EXCEPT !.src = 0]

(***************************************************************************)
(* Sweeping.                                                               *)
(***************************************************************************)
UsedOn(x, P) == MapThenSumSet(LAMBDA p : x.page[p].used, P)
SmallPage(x, p) == ~page_free_p(x, p) /\ ~page_single_obj_p(x, p)
Collected(x, p) == x.page[p].gen = x.gtc \/ x.gtc = PseudoStatic

\* Large objects count as dead until mark_lines finds them.
reset_statistics(x) ==
  LET P == {p \in PageIndex : page_single_obj_p(x, p) /\ Collected(x, p)}
  IN [x EXCEPT !.page = [p \in PageIndex |-> IF p \in P THEN [@[p] EXCEPT !.used = 0] ELSE @[p]],
               !.genbytes = [i \in Generations |-> @[i] - UsedOn(x, {p \in P : x.page[p].gen = i})]]

local_smash_weak_pointers(x) ==
  [x EXCEPT !.weak = {},
            !.mem = [a \in DOMAIN @ |->
              IF a \in x.weak /\ ~taggedptr_alivep(x, @[a].slot[1])
              THEN [@[a] EXCEPT !.slot[1] = Unbound] ELSE @[a]]]

DeadLine(x, b) == b.gen = x.gtc /\ ~b.marked

\* Mutant of SweptLine: a line keeps its mark.
SweptKeepingMark(x, b) == IF DeadLine(x, b) THEN FreeLine ELSE [b EXCEPT !.fresh = FALSE]

SweptLine(x, b) ==
  IF x.gtc = PseudoStatic THEN IF b.marked THEN [gen |-> b.gen, marked |-> FALSE, fresh |-> FALSE] ELSE FreeLine
  ELSE IF DeadLine(x, b) THEN FreeLine
  ELSE [b EXCEPT !.fresh = FALSE, !.marked = @ /\ b.gen # x.gtc]

\* A page: its dead lines, its allocation bits, its marks and the words it uses.
sweep_small_page(x, p) ==
  LET L    == PageLines(p)
      full == x.gtc = PseudoStatic
      dead == Cardinality({l \in L : DeadLine(x, x.line[l])}) * LineWords
      Old(a) == address_line(a) \notin L \/ (~full /\ x.line[address_line(a)].gen # x.gtc)
      y == [SetLines(x, L, LAMBDA b : SweptLine(x, b)) EXCEPT
              !.alloc = {a \in @ : Old(a)} \cup {a \in x.marks : ~Old(a)},
              !.marks = {a \in @ : address_line(a) \notin L}]
      kept(i) == Cardinality({l \in L : y.line[l].gen = i}) * LineWords
  IN IF full
     THEN [y EXCEPT !.page[p].used = Cardinality({l \in L : y.line[l] # FreeLine}) * LineWords,
                    !.genbytes = [i \in Generations |-> @[i] + kept(i)]]
     ELSE [y EXCEPT !.page[p].used = @ - dead, !.genbytes[x.gtc] = @ - dead,
                    !.lost = @ \/ x.page[p].used < dead]

sweep_lines(x) ==
  LET P == {p \in Claims : SmallPage(x, p) /\ (x.gtc = PseudoStatic \/ x.page[p].gen # PseudoStatic)}
  IN FoldSet(LAMBDA p, y : sweep_small_page(y, p), x, P)

sweep_pages(x) ==
  LET Single == {p \in PageIndex : page_single_obj_p(x, p)}
      Empty  == {p \in PageIndex : x.page[p].used = 0}
      Used   == PageIndex \ Empty
      Again  == {p \in Used \cap Single : Collected(x, p)}
  IN [x EXCEPT
        !.marks = @ \ {Addr(p) : p \in {q \in Single : x.gtc = PseudoStatic \/ x.page[q].gen < PseudoStatic}},
        !.alloc = @ \ {Addr(p) : p \in Empty \cap Single},
        !.page  = [p \in PageIndex |-> IF p \in Empty THEN FreePage ELSE @[p]],
        !.bytes = UsedOn(x, Used),
        !.genbytes = [i \in Generations |-> @[i] + UsedOn(x, {p \in Again : x.page[p].gen = i})],
        !.nfp = IF Used = {} THEN NPages ELSE Max(Used) + 1]

sweep(x) ==
  LET y == local_smash_weak_pointers(x)
      z == IF x.gtc = PseudoStatic THEN [y EXCEPT !.genbytes = [i \in Generations |-> 0]] ELSE y
  IN sweep_pages(sweep_lines(z))

(***************************************************************************)
(* Compaction.                                                             *)
(***************************************************************************)
\* More than 1.3 times the pages that the small objects need.
should_compact(x) ==
  LET P == {p \in PageIndex : SmallPage(x, p)}
  IN P # {} /\ 10 * Cardinality(P) * WordsOfPage > 13 * UsedOn(x, P)

\* From the last page down: those at most half full, until there is enough to copy.
pick_targets(x) ==
  LET P == {p \in PageIndex : SmallPage(x, p) /\ x.page[p].gen < PseudoStatic
                              /\ 2 * x.page[p].used <= WordsOfPage}
  IN {p \in P : UsedOn(x, {q \in P : q > p}) < CopyWords}

consider_compaction(x) ==
  IF x.gtc >= 1 /\ x.gtc # PseudoStatic /\ should_compact(x)
  THEN [x EXCEPT !.compacting = TRUE, !.target = pick_targets(x)]
  ELSE [x EXCEPT !.compacting = FALSE]

from_space_p(x, a) == a > 0 /\ Page(a) \in x.target /\ gc_gen_of(x, a, 0) <= x.gtc
follow_fp(x, a) == IF a \in DOMAIN x.fwd THEN x.fwd[a] ELSE a

CopyType == [cons |-> "cons", inst |-> "boxed", vec |-> "boxed", wp |-> "mixed", raw |-> "unboxed"]

CopyTo(x, a, v) == [x EXCEPT !.mem = (v :> Obj(x, a)) @@ @, !.fwd = (a :> v) @@ @]
CopyFrom(x, a, k) == IF x.lost THEN x ELSE CopyTo(x, a, Allocated(x, k, Obj(x, a).n, FALSE))
gc_copy_object(x, a) ==
  LET k == <<"gc", CopyType[Obj(x, a).kind]>>
  IN CopyFrom(gc_general_alloc(x, k, Obj(x, a).n), a, k)

\* trans_list goes on along the cdr while that leads to a cons to move.
RECURSIVE transport(_, _), trans_cdr(_, _, _)
transport(x, a) ==
  IF x.lost \/ a \in DOMAIN x.fwd \/ ~from_space_p(x, a) THEN x
  ELSE trans_cdr(gc_copy_object(x, a), a, Obj(x, a))

SetCdr(x, a, cdr) == [x EXCEPT !.mem[follow_fp(x, a)].slot[1] = follow_fp(x, cdr)]
trans_cdr(x, a, o) ==
  IF o.kind # "cons" \/ x.lost \/ o.slot[1] <= 0 \/ Obj(x, o.slot[1]).kind # "cons"
     \/ ~from_space_p(x, o.slot[1])
  THEN x ELSE SetCdr(transport(x, o.slot[1]), a, o.slot[1])

move_objects(x) ==
  LET A == {a \in x.alloc : Page(a) \in x.target /\ ~page_single_obj_p(x, Page(a))
                            /\ x.line[address_line(a)].gen = x.gtc}
  IN FoldLeft(transport, x, Ascending(A))

gc_close_collector_regions(x) ==
  FoldSet(LAMBDA t, y : ensure_region_closed(y, <<"gc", t>>), x, Types)

fix_slot(x, s) ==
  LET a == follow_fp(x, s.base) IN
  IF s.cell # "" THEN [x EXCEPT !.root[s.cell].a = follow_fp(x, @)]
  ELSE [x EXCEPT !.mem[a].slot[s.o] = follow_fp(x, @)]

resweep_moved_lines(x) ==
  LET P == {p \in x.target : ~page_single_obj_p(x, p)}
      Gone(p) == {l \in PageLines(p) : x.line[l].gen = x.gtc}
      L == UNION {Gone(p) : p \in P}
      n == Cardinality(L) * LineWords
      used(p) == x.page[p].used - Cardinality(Gone(p)) * LineWords
  IN [SetLines(x, L, LAMBDA b : FreeLine) EXCEPT
        !.alloc = {a \in @ : address_line(a) \notin L},
        !.mem = [a \in DOMAIN @ \ DOMAIN x.fwd |-> @[a]],
        !.page = [p \in PageIndex |-> IF p \notin P THEN @[p] ELSE IF used(p) = 0 THEN FreePage
                                      ELSE [@[p] EXCEPT !.used = used(p)]],
        !.bytes = @ - n, !.genbytes[x.gtc] = @ - n]

fix_slots(x) == IF x.lost THEN x ELSE FoldSet(LAMBDA s, y : fix_slot(y, s), x, x.remset)

apply_pins(x) == [x EXCEPT !.target = @ \ x.pins]

run_compaction(x) ==
  IF ~x.compacting THEN x
  ELSE [(IF should_compact(x)
         THEN resweep_moved_lines(fix_slots(gc_close_collector_regions(move_objects(apply_pins(
                reset_alloc_start_pages(x, TRUE))))))
         ELSE x) EXCEPT !.target = {}, !.remset = {}, !.fwd = << >>, !.compacting = FALSE]

raise_survivors(x) ==
  LET P == {p \in 0 .. x.nfp - 1 : ~page_free_p(x, p)}
      L == UNION {PageLines(p) : p \in P}
      unmarked == [gen |-> x.gtc, marked |-> FALSE, fresh |-> FALSE]
  IN [SetLines(x, L, LAMBDA b : IF b = unmarked THEN [b EXCEPT !.gen = @ + 1] ELSE b) EXCEPT
        !.page = [p \in PageIndex |->
           IF p \in P /\ @[p].single /\ @[p].gen = x.gtc THEN [@[p] EXCEPT !.gen = @ + 1] ELSE @[p]],
        !.genbytes = [@ EXCEPT ![x.gtc + 1] = @ + x.genbytes[x.gtc], ![x.gtc] = 0]]

(***************************************************************************)
(* The program.                                                            *)
(***************************************************************************)
Does(what) == left # << >> /\ Head(left) = what /\ left' = Tail(left)
Running == pc = "run" /\ ~g.lost
AllocType(kind) == IF kind = "cons" THEN "cons" ELSE "mixed"
Nothing == "nothing"
Value(d) == IF d = Nothing THEN NoWord ELSE g.root[d]

\* The slots of a fresh object: cell c, then cell d.
FreshObject(kind, c, d) ==
  LET O == Shape[kind].o
      val(o) == IF o = Min(O) THEN Value(c) ELSE Value(d)
  IN [kind |-> kind, n |-> Shape[kind].n, id |-> g.next,
      slot |-> [o \in O |-> val(o).a], want |-> [o \in O |-> val(o).id]]

\* A core has been loaded: a pseudo-static instance on a page of its own, in cell X.
CorePage == [FreePage EXCEPT !.type = "boxed", !.gen = PseudoStatic, !.used = LineWords]
CoreObject == [kind |-> "inst", n |-> Shape["inst"].n, id |-> 1,
               slot |-> [o \in {1, 3} |-> 0], want |-> [o \in {1, 3} |-> 0]]

Init ==
  /\ g = [ mem |-> Addr(0) :> CoreObject, alloc |-> {Addr(0)}, marks |-> {}, grey |-> {},
           page |-> [p \in PageIndex |-> IF p = 0 THEN CorePage ELSE FreePage],
           line |-> [l \in LineIndex |-> IF l = 0 THEN [FreeLine EXCEPT !.gen = PseudoStatic] ELSE FreeLine],
           card |-> [l \in LineIndex |-> "clean"],
           root |-> [c \in Cells |-> IF c = "X" THEN [a |-> Addr(0), id |-> 1] ELSE NoWord],
           region |-> [k \in {"lisp", "gc"} \X Types |-> NoRegion],
           start |-> [t \in Types |-> [page |-> 0, free |-> FALSE]],
           bytes |-> LineWords, genbytes |-> [i \in Generations |-> IF i = PseudoStatic THEN LineWords ELSE 0],
           pins |-> {}, target |-> {}, remset |-> {}, weak |-> {}, fwd |-> << >>,
           compacting |-> FALSE, dirty |-> FALSE, active |-> FALSE, lost |-> FALSE,
           src |-> 0, gtc |-> 0, allocgen |-> 0, nfp |-> 1, large |-> 0, next |-> 2 ]
  /\ stack = {} /\ pins = {} /\ store = NoStore
  /\ pc = "run" /\ run = [gen |-> 0, last |-> 0, raise |-> FALSE, more |-> FALSE, panic |-> FALSE]
  /\ age = [i \in Generations |-> 0]
  /\ left \in Scripts

mutator == <<stack, pins, store>>

\* Allocate and initialise an object; it replaces what cell r held.
New(kind, c, d, r) ==
  /\ Running /\ store = NoStore /\ Does(kind \o r)
  /\ LET k == <<"lisp", AllocType(kind)>>
         n == Shape[kind].n
     IN \E x \in {lisp_alloc([g EXCEPT !.large = 0], k, n)} :
          LET a == Allocated(x, k, n, x.large # 0) IN
          /\ ~x.lost
          /\ g' = [x EXCEPT !.mem = (a :> FreshObject(kind, c, d)) @@ @, !.large = 0, !.next = @ + 1,
                            !.root[r] = [a |-> a, id |-> g.next]]
  /\ UNCHANGED <<mutator, pc, run, age>>

\* The card a store marks: that of the element for a vector, of the header (or cons) otherwise.
StoreCard(a, o) == address_line(IF Obj(g, a).kind \in Vectors THEN a + o ELSE a)

\* Compiled code marks the card ...
MarkCard(c, o, d) ==
  LET a == g.root[c].a IN
  /\ Running /\ store = NoStore /\ a > 0 /\ Obj(g, a).kind \notin {"raw", "wp"}
  /\ o \in DOMAIN g.mem[a].slot /\ Does("mark" \o c)
  /\ g' = [g EXCEPT !.card[StoreCard(a, o)] = "marked"]
  /\ store' = [base |-> g.root[c], o |-> o, v |-> Value(d)]
  /\ UNCHANGED <<stack, pins, pc, run, age>>

\* ... and stores, with a collection possible in between.
Store ==
  /\ Running /\ store # NoStore /\ Does("store")
  /\ g' = [g EXCEPT !.mem[store.base.a].slot[store.o] = store.v.a,
                    !.mem[store.base.a].want[store.o] = store.v.id]
  /\ store' = NoStore
  /\ UNCHANGED <<stack, pins, pc, run, age>>

Drop(c) ==
  /\ Running /\ store = NoStore /\ g.root[c] # NoWord /\ Does("drop" \o c)
  /\ g' = [g EXCEPT !.root[c] = NoWord]
  /\ UNCHANGED <<mutator, pc, run, age>>

\* A reference only the stack has, explicitly pinned or not.
PushWord(c, pin) ==
  /\ Running /\ store = NoStore /\ g.root[c] # NoWord /\ Does((IF pin THEN "pin" ELSE "push") \o c)
  /\ IF pin THEN pins' = {g.root[c]} /\ UNCHANGED stack ELSE stack' = {g.root[c]} /\ UNCHANGED pins
  /\ g' = [g EXCEPT !.root[c] = NoWord]
  /\ UNCHANGED <<store, pc, run, age>>

\* A word that merely looks like a pointer.
PushJunk(a) ==
  /\ Running /\ store = NoStore /\ stack = {} /\ Does("junk")
  /\ stack' = {[a |-> a, id |-> 0]}
  /\ UNCHANGED <<g, pins, store, pc, run, age>>

Pop ==
  /\ Running /\ store = NoStore /\ stack \cup pins # {} /\ Does("pop")
  /\ stack' = {} /\ pins' = {}
  /\ UNCHANGED <<g, store, pc, run, age>>

(***************************************************************************)
(* collect_garbage.                                                        *)
(***************************************************************************)
Full == PseudoStatic + 1
Low(x) == 10 * x.bytes > 9 * NPages * WordsOfPage

collect_garbage(last) ==
  /\ Running /\ Does("gc" \o ToString(last))
  /\ g' = FoldSet(LAMBDA t, x : ensure_region_closed(x, <<"lisp", t>>), [g EXCEPT !.active = TRUE], Types)
  /\ run' = [gen |-> IF last = Full THEN PseudoStatic ELSE 0, last |-> last, raise |-> FALSE, more |-> FALSE, panic |-> FALSE]
  /\ pc' = "gen"
  /\ UNCHANGED <<mutator, age>>

\* raise and more for the next generation; short: little space for large objects is left.
Raise(short) ==
  LET due == run.gen < run.last \/ age[run.gen] >= Promotion
      r == IF run.gen = PseudoStatic \/ run.more \/ run.gen >= Oldest
           THEN [run EXCEPT !.raise = FALSE, !.more = FALSE]
           ELSE [run EXCEPT !.raise = due \/ (run.gen = run.last /\ short),
                            !.more = ~due /\ run.gen = run.last /\ short]
  IN IF ~r.raise /\ Low(g) /\ run.gen < Oldest
     THEN [r EXCEPT !.raise = TRUE, !.more = TRUE, !.panic = TRUE] ELSE [r EXCEPT !.panic = FALSE]

mr_pre_gc(x, gen) == consider_compaction(reset_statistics([x EXCEPT !.gtc = gen]))

\* Explicit pins, then registers (of an interrupted store) and the stack, then exact roots.
Preserve(x) ==
  LET Regs == IF store = NoStore THEN {} ELSE {store.base.a, store.v.a}
      P == FoldSet(LAMBDA w, y : mr_preserve_object(y, w.a), x, pins)
      R == FoldSet(LAMBDA w, y : mr_preserve_ambiguous(
                      IF x.gtc = 0 THEN impart_mark_stickiness(y, w) ELSE y, w), P, Regs)
      S == FoldSet(LAMBDA w, y : mr_preserve_ambiguous(y, w.a), R, stack)
  IN FoldSet(LAMBDA c, y : mark(y, x.root[c].a, CellSlot(c)), S, Cells)

\* garbage_collect_generation, up to the roots ...
BeginGeneration ==
  \E short \in BOOLEAN :
    LET r == Raise(short)
        x == [reset_alloc_start_pages(g, FALSE) EXCEPT
                !.allocgen = IF r.gen = PseudoStatic THEN 0 ELSE r.gen]
    IN
    /\ pc = "gen" /\ ~g.lost
    /\ run' = r /\ pc' = "trace"
    /\ g' = Preserve(mr_pre_gc(x, r.gen))
    /\ UNCHANGED <<mutator, age, left>>

\* ... mr_collect_garbage: what old objects and the roots reach ...
Trace ==
  /\ pc = "trace" /\ ~g.lost
  /\ g' = trace_everything(IF run.gen = PseudoStatic THEN g ELSE mr_scavenge_root_gens(g))
  /\ pc' = "sweep"
  /\ UNCHANGED <<mutator, run, age, left>>

Sweep ==
  /\ pc = "sweep" /\ ~g.lost
  /\ g' = sweep(g)
  /\ pc' = "compact"
  /\ UNCHANGED <<mutator, run, age, left>>

Promoted(x) == IF run.raise THEN raise_survivors(x) ELSE x

\* ... compaction, promotion, and the decision to go on; due as in Gencgc.
EndGeneration(due) ==
  LET more == run.more /\ (run.panic => Low(g'))
      again == /\ run.gen + 1 <= Oldest
               /\ run.gen + 1 < run.last \/ more \/ (run.raise /\ due)
  IN
  /\ pc = "compact" /\ ~g.lost
  /\ g' = [reset_alloc_start_pages(Promoted(run_compaction(g)), FALSE) EXCEPT !.pins = {}, !.allocgen = 0]
  /\ age' = [age EXCEPT ![run.gen] = IF run.raise THEN 0 ELSE @ + 1]
  /\ run' = [run EXCEPT !.gen = @ + 1, !.more = more]
  /\ pc' = IF again THEN "gen" ELSE "finish"
  /\ UNCHANGED <<mutator, left>>

\* The end of collect_garbage; a full collection skips most of it.
Finish ==
  LET U == {p \in 0 .. g.nfp - 1 : g.page[p].used # 0}
      L == UNION {PageLines(p) : p \in 0 .. g.nfp - 1}
      x == [g EXCEPT !.card = [l \in LineIndex |->
                         IF l \in L /\ @[l] = "sticky" THEN "marked" ELSE @[l]],
                     !.nfp = IF U = {} THEN 0 ELSE Max(U) + 1]
  IN
  /\ pc = "finish"
  /\ g' = [(IF run.last = Full THEN g ELSE x) EXCEPT !.active = FALSE]
  /\ pc' = "run"
  /\ UNCHANGED <<mutator, run, age, left>>

Program ==
  \/ \E c, d \in Cells \cup {Nothing}, r \in Cells :
       \/ \E kind \in {"cons", "vec", "big"} : New(kind, c, d, r)
       \/ d = Nothing /\ \E kind \in {"inst", "wp"} : New(kind, c, d, r)
       \/ c = Nothing /\ d = Nothing /\ New("raw", c, d, r)
  \/ \E c \in Cells, d \in Cells \cup {Nothing} : \E o \in 0 .. WordsOfPage + 1 : MarkCard(c, o, d)
  \/ Store \/ Pop
  \/ \E c \in Cells : Drop(c) \/ PushWord(c, TRUE) \/ PushWord(c, FALSE)
  \/ \E a \in WordsOfPage .. Addr(g.nfp) - 1 : a % 2 = 0 /\ PushJunk(a)

Collection ==
  \/ \E last \in 0 .. Oldest \cup {Full} : collect_garbage(last)
  \/ BeginGeneration \/ Trace \/ Sweep
  \/ \E due \in BOOLEAN : EndGeneration(due)
  \/ Finish

Next == Program \/ Collection
Spec == Init /\ [][Next]_vars

(***************************************************************************)
(* Properties.                                                             *)
(***************************************************************************)
Words == {g.root[c] : c \in Cells} \cup stack \cup pins \cup {store.base, store.v}

RECURSIVE Closure(_)
Closure(S) ==
  LET T == S \cup {v \in UNION {{g.mem[a].slot[o] : o \in DOMAIN g.mem[a].slot} :
                              a \in {b \in S \cap DOMAIN g.mem : g.mem[b].kind # "wp"}} : v > 0}
  IN IF T = S THEN S ELSE Closure(T)
Objects == Closure({w.a : w \in {v \in Words : v.id # 0}}) \cap DOMAIN g.mem

Holds(a, id) == IF id = 0 THEN a <= 0 ELSE a > 0 /\ a \in DOMAIN g.mem /\ g.mem[a].id = id
Live(id) == \E a \in Objects : g.mem[a].id = id
Between == pc = "run" /\ ~g.lost

\* The program never notices a collection: every pointer it has or can reach leads to the
\* object it stored there, whether that was promoted, evacuated or left in place; a weak
\* pointer may be broken, but only when nothing else leads to its object.
HeapIsIntact ==
  Between =>
    /\ \A w \in Words : w.id # 0 => Holds(w.a, w.id)
    /\ \A a \in Objects : \A o \in DOMAIN g.mem[a].slot :
         \/ Holds(g.mem[a].slot[o], g.mem[a].want[o])
         \/ g.mem[a].kind = "wp" /\ g.mem[a].slot[o] = Unbound /\ ~Live(g.mem[a].want[o])
    /\ \A a, b \in Objects : a # b => g.mem[a].id # g.mem[b].id

\* An old object points to a younger one only where mr_scavenge_root_gens will look, also
\* when a collection came between the mark and the store.
WillBeScanned(a, o) ==
  \/ g.card[address_line(a)] # "clean"
  \/ g.mem[a].kind \in Vectors /\ g.card[address_line(a + o)] # "clean"

OldToYoungIsMarked ==
  Between => \A a \in Objects : \A o \in DOMAIN g.mem[a].slot :
    LET v == g.mem[a].slot[o]
    IN v > 0 /\ gc_gen_of(g, v, 0) < gc_gen_of(g, a, 0) => WillBeScanned(a, o)

\* Between collections the tables agree: no object and no line is marked, the words used on
\* a page are those of its lines that are not free, totals are sums, and lines of a live
\* object are of one generation and its start is known to find_object.
LineWordsOf(i) == Cardinality({l \in LineIndex : SmallPage(g, PageOfLine(l)) /\ g.line[l].gen = i}) * LineWords

LinesAreExact ==
  Between =>
    /\ g.marks = {} /\ \A l \in LineIndex : ~g.line[l].marked
    /\ \A p \in PageIndex : SmallPage(g, p) /\ ~g.page[p].open =>
         g.page[p].used = Cardinality({l \in PageLines(p) : g.line[l] # FreeLine}) * LineWords
    /\ g.bytes = UsedOn(g, PageIndex)
    /\ (\A k \in DOMAIN g.region : g.region[k] = NoRegion) => \A i \in Generations :
         g.genbytes[i] = LineWordsOf(i) + UsedOn(g, {p \in PageIndex : g.page[p].single /\ g.page[p].gen = i})
    /\ \A a \in Objects :
         /\ ~page_single_obj_p(g, Page(a)) => \A l \in ObjectLines(g, a) :
              gc_gen_of(g, line_address(l), -1) = gc_gen_of(g, a, -1) /\ gc_gen_of(g, a, -1) # -1
         /\ a \in g.alloc \/ Fresh(g, a)

=============================================================================
