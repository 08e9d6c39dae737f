------------------------------- MODULE Gencgc -------------------------------
(***************************************************************************)
(* The copying generational collector (src/runtime/gencgc.c, gc-common.c): *)
(* one mutator, stopped while collect_garbage runs, over the page table of *)
(* Pages.  What the program can see is the graph of its objects; the       *)
(* collector moves them, shrinks, pins and promotes pages, and decides     *)
(* from card marks which old objects it must look at.                      *)
(*                                                                         *)
(* Memory is a function from base addresses to objects.  An object has n   *)
(* words; slot[o] is the pointer (an address; 0 and -1 are immediates) at  *)
(* word o.  id and want are history: the identity of the object and of     *)
(* what the program stored in each slot.                                   *)
(*                                                                         *)
(* All that the collector changes is one record g, and its functions are   *)
(* operators on it.  The collection is cut into steps where the code has   *)
(* loops whose number of turns depends on the heap.                        *)
(***************************************************************************)
EXTENDS Pages, SequencesExt

CONSTANTS Mutator, Collector,   \* who allocates
          Cells,                \* exact roots: symbol values, TLS, static space
          Oldest,               \* gencgc_oldest_gen_to_gc
          Promotion,            \* number_of_gcs_before_promotion
          Scripts               \* bound: the operations of the program in order, operands free

ASSUME GencgcAssumption ==
  {Mutator, Collector} \subseteq Owners /\ Oldest \in Gens /\ Oldest + 2 = Scratch

VARIABLES g,       \* the heap and the collector's tables
          roots,   \* cell -> [a, id]
          stack,   \* words on the control stack [a, id]; id = 0: no pointer to an object
          pins,    \* WITH-PINNED-OBJECTS [a, id]
          store,   \* a store whose card is marked and whose write is still to come
          fins,    \* the finalizer table: [a, id]
          pc, run, \* where the collection is; gen, last_gen, raise, more
          age,     \* num_gc and gc_trigger of each generation
          left     \* what is left of the script

vars == <<g, roots, stack, pins, store, fins, pc, run, age, left>>
mutator == <<roots, stack, pins, store, fins>>

NoWord  == [a |-> 0, id |-> 0]
NoStore == [base |-> NoWord, held |-> {}, o |-> 0, v |-> NoWord]
Unbound == -1

\* Words, and the offsets of the pointers, of a fresh object of each kind.  A vector may
\* be large; a weak table is its pair vector, with the table's list of culled cells.
Shape == [ cons |-> [n |-> 2, o |-> {0, 1}],  inst |-> [n |-> 6, o |-> {5}],
           vec  |-> [n |-> 4, o |-> {2, 3}],  raw  |-> [n |-> 4, o |-> {}],
           big  |-> [n |-> LargeWords + 2, o |-> {2, LargeWords + 1}],
           wp   |-> [n |-> 4, o |-> {1}],     kv   |-> [n |-> 6, o |-> {2, 3, 4}] ]
VectorKinds == {"vec", "big"}

gen_of(h, a) == h.page[PageOf(a)].gen
Is(x, a, kind) == a > 0 /\ a \in DOMAIN x.mem /\ x.mem[a].kind = kind
forwarding_pointer_p(x, a) == Is(x, a, "fwd")
listp(x, a) == Is(x, a, "cons") \/ (forwarding_pointer_p(x, a) /\ x.mem[a].was = "cons")
single_obj_p(x, a) == x.h.page[PageOf(a)].single

Put(mem, a, o) == [b \in DOMAIN mem \cup {a} |-> IF b = a THEN o ELSE mem[b]]
Key(type) == <<Collector, type>>

(***************************************************************************)
(* Pins.                                                                   *)
(***************************************************************************)
Eighth(a) == ((a % PageWords) * 8) \div PageWords
PAGE_PINNED == 0 .. 7

immune_set_memberp(x, a) ==
  gen_of(x.h, a) # x.from \/ (x.h.pins[PageOf(a)] # {} /\ single_obj_p(x, a))

pinned_p(x, a) ==
  /\ ~single_obj_p(x, a) /\ Eighth(a) \in x.h.pins[PageOf(a)] /\ a \in x.pinned

from_space_p(x, a) == gen_of(x.h, a) = x.from /\ ~pinned_p(x, a)

taggedptr_alivep(x, a) ==
  a <= 0 \/ gen_of(x.h, a) # x.from \/ forwarding_pointer_p(x, a) \/ pinned_p(x, a)

AddPin(x, a) == [x EXCEPT !.pinned = @ \cup {a}, !.h.pins[PageOf(a)] = @ \cup {Eighth(a)}]

\* A large object that shrank gives pages back before it is pinned.
maybe_adjust_large_object(x, a) ==
  LET r == adjust_obj_ptes(x.h, PageOf(a), x.mem[a].n, x.from, "mixed")
  IN [x EXCEPT !.h = [r.h EXCEPT !.genbytes[x.from] = @ - r.freed, !.bytes = @ - r.freed]]

pin_object(x, a) ==
  IF ~single_obj_p(x, a) THEN AddPin(x, a)
  ELSE IF x.h.pins[PageOf(a)] # {} THEN x
  ELSE LET y == maybe_adjust_large_object(x, a)
       IN [y EXCEPT !.h.pins = [p \in PageIndex |->
             IF p \in PageOf(a) .. PageOf(a + y.mem[a].n - 1) THEN PAGE_PINNED ELSE @[p]]]

pin_exact_root(x, a) == IF a <= 0 \/ immune_set_memberp(x, a) THEN x ELSE pin_object(x, a)

\* In bounds of its page and in the condemned set.  A word is taken for a pointer when it
\* is the base of a large object, or a header on a boxed page; elsewhere whatever looks
\* like one is kept until refine_ambiguous_roots.
conservative_root_p(x, w) ==
  LET p == PageOf(w) pte == x.h.page[p] IN
  IF w - Addr(p) >= pte.used \/ immune_set_memberp(x, w) THEN "no"
  ELSE IF pte.single THEN IF pte.ss = 0 /\ w = Addr(p) THEN "exact" ELSE "no"
  ELSE IF pte.type = "boxed" THEN IF w \in DOMAIN x.mem THEN "exact" ELSE "no"
  ELSE "ambiguous"

preserve_pointer(x, w) ==
  CASE w <= 0 \/ conservative_root_p(x, w) = "no" -> x
    [] w > 0 /\ conservative_root_p(x, w) = "exact" -> pin_object(x, w)
    [] OTHER -> AddPin(x, w)

\* The cards of a store that is under way must stay marked whatever the collector finds.
StickyCards(x, w) ==
  LET p == PageOf(w)
      Block == p .. contiguous_block_final_page(x.h, p)
  IN IF Is(x, w, "vec") \/ Is(x, w, "big") THEN UNION {PageCards(q) : q \in Block} ELSE {CardOf(w)}

impart_mark_stickiness(x, w) ==
  LET pte == x.h.page[PageOf(w)]
      S == IF boxed_type_p(pte.type) /\ w - Addr(PageOf(w)) < pte.used /\ pte.gen # 0
           THEN StickyCards(x, w) ELSE {}
  IN [x EXCEPT !.h.card = [c \in AllCards |->
        IF c \in S /\ @[c] = "marked" THEN "sticky" ELSE @[c]]]

sticky_preserve_pointer(x, w) ==
  IF w <= 0 THEN x ELSE preserve_pointer(impart_mark_stickiness(x, w), w)

\* Keys that are not the start of an object are dropped.
refine_ambiguous_roots(x) == [x EXCEPT !.pinned = @ \cap DOMAIN x.mem]

move_pinned_pages_to_newspace(x) ==
  LET P == {p \in 0 .. x.h.nfp - 1 : /\ x.h.pins[p] = PAGE_PINNED
                                     /\ x.h.page[p].gen = x.from /\ x.h.page[p].single}
      used == UsedOn(x.h, P)
  IN [x EXCEPT !.h.page = [p \in 0 .. NPages |-> IF p \in P THEN [@[p] EXCEPT !.gen = x.new] ELSE @[p]],
               !.h.genbytes[x.new] = @ + used, !.h.genbytes[x.from] = @ - used]

(***************************************************************************)
(* Transport.  A result is the collector's state and the new pointer.      *)
(***************************************************************************)
To(x, v) == [x |-> x, v |-> v]

\* gc_copy_object and set_forwarding_pointer.
MoveTo(x, a, r) ==
  LET fwd == [kind |-> "fwd", was |-> x.mem[a].kind, n |-> x.mem[a].n, to |-> r.a]
  IN IF r.a = 0 THEN To([x EXCEPT !.lost = TRUE], a)
     ELSE To([x EXCEPT !.h = r.h, !.mem = Put(Put(@, r.a, @[a]), a, fwd)], r.a)

gc_copy_object(x, a, type) ==
  MoveTo(x, a, gc_general_alloc(x.h, x.mem[a].n, Key(type), FALSE))

\* A single-object page is promoted as it is when its object is still large.
PromoteInPlace(x, a, type, r) ==
  LET n == x.mem[a].n
      h == [r.h EXCEPT !.genbytes[x.from] = @ - (r.freed + n), !.genbytes[x.new] = @ + n,
                       !.bytes = @ - r.freed]
  IN To([x EXCEPT !.h = NoteArea(h, type, PageOf(a), 0, n)], a)

copy_potential_large_object(x, a, type) ==
  LET n == x.mem[a].n
      rounded == AlignUp(n, PageWords)
      large == LargeType(type)
  IN IF single_obj_p(x, a) /\ (n >= LargeWords \/ (rounded - n) * 128 < rounded)
     THEN PromoteInPlace(x, a, large, adjust_obj_ptes(x.h, PageOf(a), n, x.new, large))
     ELSE gc_copy_object(x, a, type)

\* trans_list copies along the cdr as long as that leads to a cons it must move.
SetSlot(r, a, o) == [r.x EXCEPT !.mem[a].slot[o] = r.v]

RECURSIVE trans_list(_, _), trans_cdr(_, _, _)
trans_list(x, a) == trans_cdr(gc_copy_object(x, a, "cons"), a, x.mem[a].slot[1])

trans_cdr(r, a, cdr) ==
  IF r.v = a \/ ~listp(r.x, cdr) \/ ~from_space_p(r.x, cdr) THEN r
  ELSE IF forwarding_pointer_p(r.x, cdr) THEN To(SetSlot(To(r.x, r.x.mem[cdr].to), r.v, 1), r.v)
  ELSE To(SetSlot(trans_list(r.x, cdr), r.v, 1), r.v)

\* The page type the transport function of each widetag copies to.
CopyType == [inst |-> "boxed", wp |-> "small", kv |-> "small", raw |-> "unboxed",
             vec |-> "boxed", big |-> "boxed"]

transport(x, a) ==
  CASE Is(x, a, "cons") -> trans_list(x, a)
    [] Is(x, a, "inst") \/ Is(x, a, "wp") -> gc_copy_object(x, a, CopyType[x.mem[a].kind])
    [] OTHER -> copy_potential_large_object(x, a, CopyType[x.mem[a].kind])

scav1(x, v) ==
  IF v <= 0 \/ gen_of(x.h, v) # x.from THEN To(x, v)
  ELSE IF forwarding_pointer_p(x, v) THEN To(x, x.mem[v].to)
  ELSE IF pinned_p(x, v) THEN To(x, v)
  ELSE transport(x, v)

ScavSlot(x, a, o) == SetSlot(scav1(x, x.mem[a].slot[o]), a, o)

ScavSlots(x, a, O) == FoldLeft(LAMBDA y, o : ScavSlot(y, a, o), x, SetToSortSeq(O, <))

(***************************************************************************)
(* Weak references.                                                        *)
(***************************************************************************)
\* Chained only if the referent may still turn out to be garbage.
scav_weakptr(x, a) ==
  LET v == x.mem[a].slot[1] IN
  IF Contains(x.wps, a) \/ v <= 0 \/ ~from_space_p(x, v) THEN x
  ELSE IF forwarding_pointer_p(x, v) THEN [x EXCEPT !.mem[a].slot[1] = x.mem[v].to]
  ELSE [x EXCEPT !.wps = <<a>> \o @]

\* weak_ht_alivep_funs
alivep(x, weakness, k, v) ==
  CASE weakness = "key"   -> taggedptr_alivep(x, k)
    [] weakness = "value" -> taggedptr_alivep(x, v)
    [] weakness = "and"   -> taggedptr_alivep(x, k) /\ taggedptr_alivep(x, v)
    [] weakness = "or"    -> taggedptr_alivep(x, k) \/ taggedptr_alivep(x, v)

\* Once object t survives, so must what slot o of a holds.
add_trigger(x, t, a, o) ==
  IF x.mem[a].slot[o] <= 0 THEN x
  ELSE [x EXCEPT !.trig = @ \cup {[t |-> t, a |-> a, o |-> o]}, !.h = gc_private_cons(@)]

\* A pair's key makes its value live, its value its key, or either the other.
Triggers == [key |-> <<3>>, value |-> <<2>>, or |-> <<3, 2>>]

add_kv_triggers(x, a) ==
  FoldLeft(LAMBDA y, o : add_trigger(y, y.mem[a].slot[5 - o], a, o), x, Triggers[x.mem[a].w])

\* The pair vector of a weak table that is not queued yet: the pair is live now, or waits.
scan_weak_hashtable(x, a) ==
  LET k == x.mem[a].slot[2] v == x.mem[a].slot[3] IN
  IF k <= 0 /\ v <= 0 THEN x
  ELSE IF alivep(x, x.mem[a].w, k, v) THEN ScavSlots(x, a, {2, 3})
  ELSE [add_kv_triggers(x, a) EXCEPT !.whts = <<a>> \o @]

scav_pairs(x, a) ==
  IF Contains(x.whts, a) THEN x
  ELSE IF x.mem[a].w = "and" THEN [x EXCEPT !.whts = <<a>> \o @]
  ELSE scan_weak_hashtable(x, a)

scav_kv(x, a) == scav_pairs(ScavSlot(x, a, 4), a)

\* Fire the triggers whose object has survived by now.
test_weak_triggers(x) ==
  LET Keys == {t.t : t \in x.trig}
      fire(y, t) == LET mine == {s \in y.trig : s.t = t}
                        liven(s, z) == scav1(z, z.mem[s.a].slot[s.o]).x
                    IN IF ~taggedptr_alivep(y, t) THEN y
                       ELSE [FoldSet(liven, y, mine) EXCEPT
                               !.trig = @ \ mine, !.h = gc_private_free(@, Cardinality(mine))]
  IN FoldLeft(fire, x, SetToSortSeq(Keys, <))

\* Mutant of smash_weak_pointers: an object that moved is taken for dead.
smash_moved(x) ==
  LET test(y, a) ==
        LET v == y.mem[a].slot[1]
        IN [y EXCEPT !.mem[a].slot[1] = IF from_space_p(y, v) THEN Unbound ELSE v]
  IN [FoldLeft(test, x, x.wps) EXCEPT !.wps = << >>]

\* TEST_WEAK_CELL: follow the forwarding pointer, or break the reference.
smash_weak_pointers(x) ==
  LET test(y, a) ==
        LET v == y.mem[a].slot[1]
        IN [y EXCEPT !.mem[a].slot[1] =
              IF forwarding_pointer_p(y, v) THEN y.mem[v].to
              ELSE IF from_space_p(y, v) THEN Unbound ELSE v]
  IN [FoldLeft(test, x, x.wps) EXCEPT !.wps = << >>]

\* A cons made by the collector.
AddObject(x, r, o) ==
  IF r.a = 0 THEN To([x EXCEPT !.lost = TRUE], 0)
  ELSE To([x EXCEPT !.h = r.h, !.mem = Put(@, r.a, o), !.next = @ + 1], r.a)

NewCons(x, car, cdr) ==
  AddObject(x, gc_general_alloc(x.h, 2, Key("cons"), FALSE),
            [kind |-> "cons", n |-> 2, w |-> "none", id |-> x.next,
             slot |-> 0 :> car.a @@ 1 :> cdr.a, want |-> 0 :> car.id @@ 1 :> cdr.id])

follow(x, v) == IF forwarding_pointer_p(x, v) THEN x.mem[v].to ELSE v

\* A dead pair is emptied and its index pushed on the table's smashed_cells, a store that
\* may point from an old table to a young cons; of a live one the pointers are fixed.
Cull(r, a, id) ==
  [r.x EXCEPT !.h.card[CardOf(a)] = IF @ = "clean" THEN "marked" ELSE @,
              !.mem[a].slot = [@ EXCEPT ![2] = Unbound, ![3] = Unbound, ![4] = r.v],
              !.mem[a].want[4] = id]

cull_weak_hash_table(x, a) ==
  LET k == x.mem[a].slot[2] v == x.mem[a].slot[3] IN
  IF k <= 0 /\ v <= 0 THEN x
  ELSE IF alivep(x, x.mem[a].w, k, v)
  THEN [x EXCEPT !.mem[a].slot[2] = follow(x, k), !.mem[a].slot[3] = follow(x, v)]
  ELSE Cull(NewCons(x, NoWord, [a |-> x.mem[a].slot[4], id |-> x.mem[a].want[4]]), a, x.next)

cull_weak_hash_tables(x) ==
  [FoldLeft(cull_weak_hash_table, x, x.whts) EXCEPT
     !.whts = << >>, !.trig = {}, !.h = ensure_region_closed(@, Key("cons"))]

(***************************************************************************)
(* Scavenging ranges.                                                      *)
(***************************************************************************)
Bases(x, lo, hi) == SetToSortSeq({a \in DOMAIN x.mem : lo <= a /\ a < hi}, <)

ScavObject(x, a) ==
  CASE x.mem[a].kind = "wp" -> scav_weakptr(x, a)
    [] x.mem[a].kind = "kv" -> scav_kv(x, a)
    [] OTHER -> ScavSlots(x, a, DOMAIN x.mem[a].slot)

heap_scavenge(x, lo, hi) == FoldLeft(ScavObject, x, Bases(x, lo, hi))

Younger(x, v, gen) == v > 0 /\ (gen_of(x.h, v) < gen \/ gen_of(x.h, v) = Scratch)

\* ptr_ok_to_writeprotect fails on some word of the objects in lo .. hi - 1.
range_dirty_p(x, lo, hi, gen) ==
  \E a \in DOMAIN x.mem : lo <= a /\ a < hi /\
    \E o \in DOMAIN x.mem[a].slot :
      LET v == x.mem[a].slot[o]
      IN Younger(x, v, gen) /\ (x.h.page[PageOf(v)].open \/ v - Addr(PageOf(v)) < x.h.page[PageOf(v)].used)

\* Word by word, without regard for objects; v says whether a pointer to a generation
\* younger than gen is left, as it will be after this collection.
descriptors_scavenge(x, lo, hi, gen, dirty) ==
  LET Here == {a \in DOMAIN x.mem : a < hi /\ a + x.mem[a].n > lo}
      Fields == {w \in UNION {{a} \X DOMAIN x.mem[a].slot : a \in Here} :
                   lo <= w[1] + w[2] /\ w[1] + w[2] < hi}
      one(y, w) ==
        LET v == y.x.mem[w[1]].slot[w[2]]
            pointee == IF gen_of(y.x.h, v) = x.from THEN x.new ELSE gen_of(y.x.h, v)
        IN IF v <= 0 THEN y
           ELSE To(ScavSlot(y.x, w[1], w[2]), y.v \/ pointee < gen \/ pointee = Scratch)
  IN FoldLeft(one, To(x, dirty), SetToSortSeq(Fields, LAMBDA v, w : v[1] + v[2] < w[1] + w[2]))

(***************************************************************************)
(* Roots in older generations: blocks of pages with a marked card.         *)
(***************************************************************************)
UsedEnd(x, p) == Addr(p) + x.h.page[p].used
CardSeq(P) == SetToSortSeq(UNION {PageCards(p) : p \in P}, <)
CardStart(c) == c * CardWords
CardEnd(x, c) == Min({CardStart(c) + CardWords, UsedEnd(x, PageOf(CardStart(c)))})
Marked(x, c) == x.h.card[c] # "clean"
Sticky(x, c) == x.h.card[c] = "sticky"
SetMark(x, c, dirty) ==
  [x EXCEPT !.h.card[c] = IF @ = "sticky" THEN @ ELSE IF dirty THEN "marked" ELSE "clean"]

ScanCard(x, c, gen) ==
  LET mark(r) == SetMark(r.x, c, r.v)
  IN mark(descriptors_scavenge(x, CardStart(c), CardEnd(x, c), gen, Sticky(x, c)))

\* Mutant of scan_boxed_root_cards_spanning: only marked cards are looked at.
scan_boxed_root_cards_marked(x, P, gen) ==
  FoldLeft(LAMBDA y, c : IF Marked(y, c) THEN ScanCard(y, c, gen) ELSE y, x, CardSeq(P))

\* A boxed object may span two cards with only the first marked: the card after a marked
\* one is looked at too.  v is whether the card before was marked.
scan_boxed_root_cards_spanning(x, P, gen) ==
  LET one(y, c) == IF Marked(y.x, c) \/ y.v THEN To(ScanCard(y.x, c, gen), Marked(y.x, c)) ELSE y
  IN FoldLeft(one, To(x, FALSE), CardSeq(P)).x

\* Conses do not span cards and a vector marks the card of the element.
scan_boxed_root_cards_non_spanning(x, P, gen) ==
  FoldLeft(LAMBDA y, c : IF Marked(y, c) THEN ScanCard(y, c, gen) ELSE y, x, CardSeq(P))

\* Small mixed pages are walked by object, from the marked card to the end of the page; a card
\* that lies beyond is unmarked, sticky or not.
scan_mixed_root_cards(x, P, gen) ==
  LET limit(y, c) == UsedEnd(y, PageOf(CardStart(c)))
      mark(y, c) == SetMark(y, c, range_dirty_p(y, CardStart(c), limit(y, c), gen))
      one(y, c) == IF ~Marked(y, c) THEN y
                   ELSE IF CardStart(c) >= limit(y, c) THEN [y EXCEPT !.h.card[c] = "clean"]
                   ELSE mark(heap_scavenge(y, CardStart(c), limit(y, c)), c)
  IN FoldLeft(one, x, CardSeq(P))

\* Other blocks are scanned whole, and marked or unmarked whole.
update_writeprotection(x, P, gen) ==
  IF \/ \E p \in P : \E c \in PageCards(p) : Sticky(x, c)
     \/ range_dirty_p(x, Addr(Min(P)), UsedEnd(x, Max(P)), gen)
  THEN x ELSE [x EXCEPT !.h = assign_page_card_marks(@, P, "clean")]

scan_block(x, P, gen) ==
  IF \A p \in P : \A c \in PageCards(p) : ~Marked(x, c) THEN x
  ELSE update_writeprotection(heap_scavenge(x, Addr(Min(P)), UsedEnd(x, Max(P))), P, gen)

large_scannable_vector_p(x, p) == x.h.page[p].single /\ x.mem[Addr(p)].kind \in VectorKinds

RECURSIVE scavenge_root_gens(_, _, _)
scavenge_root_gens(x, from, i) ==
  LET pte == x.h.page[i]
      P == i .. contiguous_block_final_page(x.h, i)
      scanned == CASE pte.type = "boxed" -> scan_boxed_root_cards_spanning(x, P, pte.gen)
                   [] pte.type = "cons" \/ large_scannable_vector_p(x, i) ->
                        scan_boxed_root_cards_non_spanning(x, P, pte.gen)
                   [] pte.type = "small" -> scan_mixed_root_cards(x, P, pte.gen)
                   [] OTHER -> scan_block(x, P, pte.gen)
  IN IF i >= x.h.nfp THEN x
     ELSE IF pte.gen < from \/ pte.gen = Scratch \/ ~boxed_type_p(pte.type) \/ pte.used = 0
     THEN scavenge_root_gens(x, from, i + 1)
     ELSE scavenge_root_gens(scanned, from, Max(P) + 1)

scavenge_pinned_ranges(x) == FoldLeft(ScavObject, x, SetToSortSeq(x.pinned, <))

(***************************************************************************)
(* Newspace.                                                               *)
(***************************************************************************)
gc_close_collector_regions(x) ==
  [x EXCEPT !.h = FoldSet(LAMBDA k, h : ensure_region_closed(h, k), @, {Key(t) : t \in PageTypes})]

RECURSIVE newspace_full_scavenge(_, _)
newspace_full_scavenge(x, i) ==
  LET pte == x.h.page[i]
      last == contiguous_block_final_page(x.h, i)
      y == heap_scavenge([x EXCEPT !.h.below = 1 + last], Addr(i) - pte.ss, UsedEnd(x, last))
  IN IF i >= x.h.nfp THEN [x EXCEPT !.h.below = 1 + NPages]
     ELSE IF /\ pte.gen = x.new /\ boxed_type_p(pte.type) /\ pte.type # "free" /\ pte.used > 0
             /\ \E c \in PageCards(i) : Marked(x, c)
     THEN newspace_full_scavenge(y, last + 1)
     ELSE newspace_full_scavenge(x, i + 1)

Areas(x) == FoldLeft(LAMBDA y, r : heap_scavenge(y, r.from, r.from + r.n),
                     [x EXCEPT !.h.areas = << >>, !.h.unboxed = FALSE], x.h.areas)

(***************************************************************************)
(* Finalizers and the end of oldspace.                                     *)
(***************************************************************************)
\* A result also holds the finalizer table and the cells.
Push(s, cell, car) ==
  LET set(r) == [s EXCEPT !.x = r.x, !.roots[cell] = [a |-> r.v, id |-> s.x.next]]
  IN set(NewCons(s.x, car, s.roots[cell]))

push_in_alist(s, r) == Push([s EXCEPT !.x = r.x], "rehash", [a |-> r.v, id |-> s.x.next])

\* push_in_alist(FINALIZER_REHASHLIST) a key that moved; push_in_ordinary_list
\* (FINALIZERS_TRIGGERED) when it died.  The table entry is deleted either way.
scan_finalizers(x, r, F) ==
  LET one(s, f) ==
        LET becomes(st) == (s.fins \ {f}) \cup {[f EXCEPT !.st = st]} IN
        IF forwarding_pointer_p(s.x, f.a)
        THEN [push_in_alist(s, NewCons(s.x, [f EXCEPT !.a = follow(s.x, f.a)], NoWord))
                EXCEPT !.fins = becomes("rehash")]
        ELSE IF ~taggedptr_alivep(s.x, f.a)
        THEN [Push(s, "triggered", NoWord) EXCEPT !.fins = becomes("triggered")]
        ELSE s
  IN [FoldLeft(one, [x |-> x, roots |-> r, fins |-> F],
               SetToSortSeq({f \in F : f.st = "hashed"}, LAMBDA e, f : e.id < f.id))
        EXCEPT !.x.h = ensure_region_closed(@, Key("cons"))]

ObjectPages(x, a) == PageOf(a) .. PageOf(a + x.mem[a].n - 1)

\* Where a page's scan start is, once the pages before it that hold no pin are gone.
RECURSIVE ScanPage(_, _)
ScanPage(x, p) ==
  LET Over == {a \in x.pinned : p \in ObjectPages(x, a) /\ PageOf(a) < p}
  IN IF Over = {} THEN p ELSE ScanPage(x, PageOf(CHOOSE a \in Over : TRUE))

\* Pages with pins join newspace whole; between the pins is nothing but filler.
obliterate_nonpinned_words(x) ==
  LET P == UNION {ObjectPages(x, a) : a \in x.pinned}
      moved == UsedOn(x.h, P)
      Keep == {a \in DOMAIN x.mem : PageOf(a) \notin P \/ a \in x.pinned}
  IN [x EXCEPT
        !.h.page = [p \in 0 .. NPages |->
          IF p \in P THEN [@[p] EXCEPT !.gen = x.new, !.ss = Addr(p) - Addr(ScanPage(x, p))] ELSE @[p]],
        !.h.genbytes[x.from] = @ - moved, !.h.genbytes[x.new] = @ + moved,
        !.mem = [a \in Keep |-> @[a]]]

FreeOldspace(x) ==
  LET h == free_oldspace(x.h, x.from)
  IN [x EXCEPT !.h = h, !.mem = [a \in {b \in DOMAIN @ : ~page_free_p(h, PageOf(b))} |-> @[a]]]

\* Without promotion the survivors were in SCRATCH_GENERATION.
LowerScratch(x, gen) ==
  [x EXCEPT
     !.h.page = [p \in 0 .. NPages |->
       IF p < x.h.nfp /\ @[p].gen = Scratch THEN [@[p] EXCEPT !.gen = gen] ELSE @[p]],
     !.h.genbytes = [@ EXCEPT ![gen] = x.h.genbytes[Scratch], ![Scratch] = 0]]

(***************************************************************************)
(* The program.                                                            *)
(***************************************************************************)
Does(what) == left # << >> /\ Head(left) = what /\ left' = Tail(left)
Running == pc = "run" /\ ~g.lost
AllocType(kind) == IF kind = "cons" THEN "cons" ELSE "mixed"
AllCells == Cells \cup {"rehash", "triggered"}
Nothing == "nothing"
Value(d) == IF d = Nothing THEN NoWord ELSE roots[d]

\* The slots of a fresh object: cell c, then cell d.
Fresh(kind, w, c, d) ==
  LET O == Shape[kind].o
      val(o) == IF o = Min(O) THEN Value(c) ELSE IF o = Min(O \ {Min(O)}) THEN Value(d) ELSE NoWord
  IN [kind |-> kind, n |-> Shape[kind].n, w |-> w, id |-> g.next,
      slot |-> [o \in O |-> val(o).a], want |-> [o \in O |-> val(o).id]]

Init ==
  /\ g = [h |-> EmptyHeap, mem |-> << >>, pinned |-> {}, from |-> -1, new |-> 0,
          wps |-> << >>, whts |-> << >>, trig |-> {}, next |-> 1, lost |-> FALSE]
  /\ roots = [c \in AllCells |-> NoWord] /\ stack = {} /\ pins = {} /\ store = NoStore /\ fins = {}
  /\ pc = "run" /\ run = [gen |-> 0, last |-> 0, raise |-> FALSE, more |-> FALSE]
  /\ age = [i \in Gens |-> 0]
  /\ left \in Scripts

\* Allocate and initialise an object; it replaces what cell r held.
New(kind, w, c, d, r) ==
  /\ Running /\ store = NoStore /\ Does(kind)
  /\ \E m \in {AddObject(g, gc_general_alloc(g.h, Shape[kind].n, <<Mutator, AllocType(kind)>>, TRUE),
                         Fresh(kind, w, c, d))} :
       /\ m.v # 0
       /\ g' = m.x /\ roots' = [roots EXCEPT ![r] = [a |-> m.v, id |-> g.next]]
  /\ UNCHANGED <<stack, pins, store, fins, pc, run, age>>

\* The card a store to word o of object a marks: that of the element for a vector, of the
\* header (or cons) otherwise.
StoreCard(a, o) == CardOf(IF g.mem[a].kind \in VectorKinds \cup {"kv"} THEN a + o ELSE a)

\* Compiled code marks the card (PUTHASH of a key that is there holds the pair it found) ...
MarkCard(c, o, d) ==
  LET a == roots[c].a IN
  /\ Running /\ store = NoStore /\ a # 0 /\ g.mem[a].kind \in {"cons", "inst", "vec", "big", "kv"}
  /\ o \in DOMAIN g.mem[a].slot /\ Does("mark")
  /\ g.mem[a].kind = "kv" => o = 3 /\ g.mem[a].slot[2] > 0
  /\ g' = [g EXCEPT !.h.card[StoreCard(a, o)] = "marked"]
  /\ store' = [base |-> roots[c], o |-> o, v |-> Value(d),
               held |-> IF g.mem[a].kind = "kv"
                        THEN {[a |-> g.mem[a].slot[i], id |-> g.mem[a].want[i]] : i \in {2, 3}} ELSE {}]
  /\ UNCHANGED <<roots, stack, pins, fins, pc, run, age>>

\* ... and stores, with a collection possible in between.
Store ==
  /\ Running /\ store # NoStore /\ Does("store")
  /\ g' = [g EXCEPT !.mem[store.base.a].slot[store.o] = store.v.a,
                     !.mem[store.base.a].want[store.o] = store.v.id]
  /\ store' = NoStore
  /\ UNCHANGED <<roots, stack, pins, fins, pc, run, age>>

Drop(c) ==
  /\ Running /\ store = NoStore /\ roots[c] # NoWord /\ Does("drop")
  /\ roots' = [roots EXCEPT ![c] = NoWord]
  /\ UNCHANGED <<g, stack, pins, store, fins, pc, run, age>>

\* A reference only the stack has, explicitly pinned or not, or a word that merely looks
\* like one.
PushWord(c, pin) ==
  /\ Running /\ store = NoStore /\ roots[c] # NoWord /\ Does(IF pin THEN "pin" ELSE "push")
  /\ IF pin THEN pins' = {roots[c]} /\ UNCHANGED stack ELSE stack' = {roots[c]} /\ UNCHANGED pins
  /\ roots' = [roots EXCEPT ![c] = NoWord]
  /\ UNCHANGED <<g, store, fins, pc, run, age>>

Junk == {a \in PageWords .. Addr(g.h.nfp) - 1 : a % 2 = 0 /\ ~page_free_p(g.h, PageOf(a))}

PushJunk(a) ==
  /\ Running /\ store = NoStore /\ stack = {} /\ Does("junk")
  /\ stack' = {[a |-> a, id |-> 0]}
  /\ UNCHANGED <<g, roots, pins, store, fins, pc, run, age>>

\* %SHRINK-VECTOR leaves two elements' worth of a large vector.
ShrinkVector(c) ==
  LET a == roots[c].a IN
  /\ Running /\ store = NoStore /\ a # 0 /\ Is(g, a, "big") /\ g.mem[a].n = Shape["big"].n
  /\ Does("shrink")
  /\ g' = [g EXCEPT !.mem[a] = [@ EXCEPT !.n = 4, !.slot = 2 :> @[2], !.want = 2 :> @[2]]]
  /\ UNCHANGED <<mutator, pc, run, age>>

Finalize(c) ==
  /\ Running /\ store = NoStore /\ roots[c] # NoWord /\ Does("finalize")
  /\ fins' = fins \cup {[a |-> roots[c].a, id |-> roots[c].id, st |-> "hashed"]}
  /\ UNCHANGED <<g, roots, stack, pins, store, pc, run, age>>

\* FINALIZERS-REHASH: take a key from the list and put it back in the table.
Rehash ==
  LET cell == roots["rehash"].a
      pair == g.mem[cell].slot[0]
      key  == g.mem[pair].slot[0]
      f    == CHOOSE e \in fins : e.st = "rehash" /\ e.id = g.mem[pair].want[0]
  IN
  /\ Running /\ store = NoStore /\ cell # 0 /\ Does("rehash")
  /\ fins' = (fins \ {f}) \cup {[f EXCEPT !.a = key, !.st = "hashed"]}
  /\ roots' = [roots EXCEPT !["rehash"] = [a |-> g.mem[cell].slot[1], id |-> g.mem[cell].want[1]]]
  /\ UNCHANGED <<g, stack, pins, store, pc, run, age>>

(***************************************************************************)
(* collect_garbage.                                                        *)
(***************************************************************************)
collect_garbage(last) ==
  /\ Running /\ Does("gc" \o ToString(last))
  /\ g' = [g EXCEPT !.h = FoldSet(LAMBDA k, h : ensure_region_closed(h, k), @,
                                  {<<Mutator, t>> : t \in {"mixed", "cons"}})]
  /\ run' = [gen |-> 0, last |-> last, raise |-> FALSE, more |-> FALSE] /\ pc' = "gen"
  /\ UNCHANGED <<mutator, age>>

\* raise and more for the next generation; low: little space is left.
Raise(low) ==
  LET due == run.gen < run.last \/ age[run.gen] >= Promotion
      short == ~due /\ run.gen = run.last /\ low
  IN IF run.more \/ run.gen >= Oldest THEN [run EXCEPT !.raise = FALSE, !.more = FALSE]
     ELSE [run EXCEPT !.raise = due \/ short, !.more = short]

unprotect_oldspace(x) ==
  IF x.from = 0 THEN x
  ELSE [x EXCEPT !.h = assign_page_card_marks(@,
          {p \in 0 .. x.h.nfp - 1 : x.h.page[p].used > 0 /\ x.h.page[p].gen = x.from}, "marked")]

\* Registers of the interrupted store first pass the sticky test, in generation 0 only.
PinRoots(x, gen) ==
  LET Regs == IF store = NoStore THEN {} ELSE {w.a : w \in {store.base, store.v} \cup store.held}
      y == FoldSet(LAMBDA w, z : pin_exact_root(z, w.a), x, pins)
      r == FoldSet(LAMBDA w, z : IF gen = 0 THEN sticky_preserve_pointer(z, w)
                                 ELSE preserve_pointer(z, w), y, Regs)
  IN FoldSet(LAMBDA w, z : preserve_pointer(z, w.a), r, stack)

\* garbage_collect_generation, up to the pins.
BeginGeneration ==
  \E low \in BOOLEAN :
    LET r == Raise(low)
        new == IF r.raise THEN r.gen + 1 ELSE Scratch
        x == [g EXCEPT !.from = r.gen, !.new = new, !.pinned = {},
                       !.h = [RESET_ALLOC_START_PAGES(@) EXCEPT !.gen = new]]
    IN
    /\ pc = "gen" /\ ~g.lost
    /\ run' = r /\ pc' = "roots"
    /\ g' = move_pinned_pages_to_newspace(refine_ambiguous_roots(PinRoots(unprotect_oldspace(x), r.gen)))
    /\ UNCHANGED <<mutator, age, left>>

\* Exact roots, then older generations, then the pinned objects.
ScavengeCells(x) ==
  LET set(s, c, r) == [s EXCEPT !.x = r.x, !.roots[c].a = r.v]
  IN FoldSet(LAMBDA c, s : set(s, c, scav1(s.x, s.roots[c].a)), [x |-> x, roots |-> roots], AllCells)

ScavengeRoots ==
  LET minimum == run.gen + 1 + (IF run.raise THEN 1 ELSE 0) IN
  /\ pc = "roots" /\ ~g.lost
  /\ \E s \in {ScavengeCells(g)} :
       /\ roots' = s.roots
       /\ g' = scavenge_pinned_ranges(scavenge_root_gens(s.x, minimum, 0))
  /\ pc' = "newspace"
  /\ UNCHANGED <<stack, pins, store, fins, run, age, left>>

\* scavenge_newspace: a full scan first ...
ScavengeNewspace ==
  LET x == [gc_close_collector_regions(g) EXCEPT !.h.unboxed = FALSE] IN
  /\ pc = "newspace" /\ ~g.lost
  /\ g' = gc_close_collector_regions(newspace_full_scavenge(x, 0))
  /\ pc' = "areas"
  /\ UNCHANGED <<mutator, run, age, left>>

\* ... then what was allocated in the meantime, until nothing is.
Idle(x) == x.h.areas = << >> /\ ~x.h.unboxed

ScavengeAreas ==
  /\ pc = "areas" /\ ~g.lost
  /\ IF Idle(g) THEN UNCHANGED g /\ pc' = "triggers"
     ELSE /\ pc' = "areas"
          /\ g' = gc_close_collector_regions(
                    IF Len(g.h.areas) >= NumNewAreas
                    THEN newspace_full_scavenge([g EXCEPT !.h.areas = << >>, !.h.unboxed = FALSE], 0)
                    ELSE Areas(g))
  /\ UNCHANGED <<mutator, run, age, left>>

\* Objects that survive only through a weak table are found last, and may revive others.
TestWeakTriggers ==
  /\ pc = "triggers" /\ ~g.lost
  /\ g' = gc_close_collector_regions(test_weak_triggers(g))
  /\ pc' = IF g'.trig # g.trig /\ ~Idle(g') THEN "areas" ELSE "weak"
  /\ UNCHANGED <<mutator, run, age, left>>

ProcessWeak ==
  /\ pc = "weak" /\ ~g.lost
  /\ \E s \in {scan_finalizers(
                 cull_weak_hash_tables(
                   [smash_weak_pointers([g EXCEPT !.h.below = 0, !.h.areas = << >>])
                      EXCEPT !.h = gc_dispose_private_pages(@)]), roots, fins)} :
       g' = s.x /\ roots' = s.roots /\ fins' = s.fins
  /\ pc' = "sweep"
  /\ UNCHANGED <<stack, pins, store, run, age, left>>

\* due: the next generation grew past its trigger and its minimum age.
EndGeneration(due) ==
  LET x == FreeOldspace(obliterate_nonpinned_words(g))
      y == IF run.raise THEN x ELSE LowerScratch(x, run.gen)
      again == /\ run.gen + 1 <= Oldest
               /\ run.gen + 1 < run.last \/ run.more \/ (run.raise /\ due)
  IN
  /\ pc = "sweep" /\ ~g.lost
  /\ g' = [y EXCEPT !.h = [RESET_ALLOC_START_PAGES(@) EXCEPT !.gen = 0]]
  /\ age' = [age EXCEPT ![run.gen] = IF run.raise THEN 0 ELSE @ + 1]
  /\ run' = [run EXCEPT !.gen = @ + 1]
  /\ pc' = IF again THEN "gen" ELSE "finish"
  /\ UNCHANGED <<mutator, left>>

write_protect_generation_pages(h, gen) ==
  LET P == {p \in 0 .. h.nfp - 1 : h.page[p].gen = gen /\ boxed_type_p(h.page[p].type) /\ h.page[p].used > 0}
  IN [h EXCEPT !.card = [c \in AllCards |->
        IF @[c] # "sticky" /\ \E p \in P : c \in PageCards(p) THEN "clean" ELSE @[c]]]

\* The end of collect_garbage.
Finish ==
  LET wp == IF run.raise THEN run.gen ELSE run.gen - 1
      h1 == IF wp > 0 THEN write_protect_generation_pages(g.h, wp) ELSE g.h
      h2 == [h1 EXCEPT !.card = [c \in AllCards |->
               IF @[c] = "sticky" /\ PageOf(CardStart(c)) < h1.nfp THEN "marked" ELSE @[c]]]
      h3 == find_next_free_page(h2)
      h4 == IF run.gen > 1 THEN remap_free_pages(h3, 0, NPages - 1) ELSE h3
  IN
  /\ pc = "finish"
  /\ g' = [g EXCEPT !.h = [h4 EXCEPT !.pins = [p \in PageIndex |-> {}]],
                    !.from = -1, !.new = 0, !.pinned = {}]
  /\ pc' = "run"
  /\ UNCHANGED <<mutator, run, age, left>>

Program ==
  \/ \E c, d \in Cells \cup {Nothing}, r \in Cells :
       \/ \E kind \in {"cons", "vec", "big"} : New(kind, "none", c, d, r)
       \/ d = Nothing /\ \E kind \in {"inst", "wp"} : New(kind, "none", c, d, r)
       \/ c = Nothing /\ d = Nothing /\ New("raw", "none", c, d, r)
       \/ c # d /\ Nothing \notin {c, d} /\ \E w \in {"key", "value", "and", "or"} : New("kv", w, c, d, r)
  \/ \E c \in Cells, o \in 0 .. LargeWords + 1, d \in Cells \cup {Nothing} : MarkCard(c, o, d)
  \/ Store
  \/ \E c \in Cells : Drop(c) \/ PushWord(c, TRUE) \/ PushWord(c, FALSE) \/ ShrinkVector(c) \/ Finalize(c)
  \/ \E a \in Junk : PushJunk(a)
  \/ Rehash

Collection ==
  \/ \E last \in 0 .. Oldest : collect_garbage(last)
  \/ BeginGeneration \/ ScavengeRoots \/ ScavengeNewspace \/ ScavengeAreas \/ TestWeakTriggers \/ ProcessWeak
  \/ \E due \in BOOLEAN : EndGeneration(due)
  \/ Finish

Next == Program \/ Collection
Spec == Init /\ [][Next]_vars

(***************************************************************************)
(* Properties, of the heap as the program sees it.                         *)
(***************************************************************************)
Words == {roots[c] : c \in AllCells} \cup stack \cup pins \cup {store.base, store.v} \cup store.held
Object(a) == a \in DOMAIN g.mem /\ g.mem[a].kind # "fwd"

\* What the objects in S keep alive; a weak table keeps a pair alive that its weakness asks for.
Keeps(S) ==
  UNION {LET o == g.mem[a] IN
         IF o.kind = "wp" THEN {}
         ELSE IF o.kind # "kv" THEN {o.slot[i] : i \in DOMAIN o.slot}
         ELSE {o.slot[4]} \cup
              (IF \/ o.w \in {"key", "or"} /\ o.slot[2] \in S
                  \/ o.w \in {"value", "or"} /\ o.slot[3] \in S
               THEN {o.slot[2], o.slot[3]} ELSE {})
         : a \in {b \in S : Object(b)}}

RECURSIVE Closure(_)
Closure(S) == LET T == S \cup {a \in Keeps(S) : a > 0} IN IF T = S THEN S ELSE Closure(T)
Reached == Closure({w.a : w \in {v \in Words : v.id # 0}})
Objects == {a \in Reached : Object(a)}

Weak(a, o) == g.mem[a].kind = "wp" \/ (g.mem[a].kind = "kv" /\ o \in {2, 3})
Holds(a, id) == IF id = 0 THEN a <= 0 ELSE a > 0 /\ Object(a) /\ g.mem[a].id = id
Between == pc = "run" /\ ~g.lost

\* The program never notices a collection: every pointer it holds or can reach still leads
\* to the object it stored there, no object is at two addresses, and an object that a
\* stack word or a pin refers to has not moved.
HeapIsIntact ==
  Between =>
    /\ \A w \in Words : w.id # 0 => Holds(w.a, w.id)
    /\ \A a \in Objects : \A o \in DOMAIN g.mem[a].slot :
         \/ Holds(g.mem[a].slot[o], g.mem[a].want[o])
         \/ Weak(a, o) /\ g.mem[a].slot[o] = Unbound
    /\ \A a, b \in Objects : a # b => g.mem[a].id # g.mem[b].id

\* An old object points to a younger one only where scavenge_root_gens will look, also
\* when a collection came between the mark and the store.
WillBeScanned(a, o) ==
  LET p == PageOf(a + o) pte == g.h.page[p] c == CardOf(a + o)
      Block == UNION {PageCards(q) : q \in p - (pte.ss \div PageWords) .. contiguous_block_final_page(g.h, p)}
  IN CASE pte.type = "boxed" -> Marked(g, c) \/ (CardOf(a) < c /\ Marked(g, c - 1))
       [] pte.type = "cons" \/ (pte.single /\ g.mem[a].kind \in VectorKinds) -> Marked(g, c)
       [] pte.type = "small" -> Marked(g, CardOf(a))
       [] OTHER -> \E b \in Block : Marked(g, b)

OldToYoungIsMarked ==
  Between => \A a \in Objects : \A o \in DOMAIN g.mem[a].slot :
    LET v == g.mem[a].slot[o]
    IN v > 0 /\ gen_of(g.h, v) < gen_of(g.h, a) => WillBeScanned(a, o)

\* A weak pointer is broken, a pair culled, a finalizer triggered only when the object can
\* no longer be reached, pairs that keep each other alive included; and a finalizer of a
\* live object is found under its address.
Live(id) == id = 0 \/ \E a \in Objects : g.mem[a].id = id

WeakMeansDead ==
  Between =>
    /\ \A a \in Objects :
         LET o == g.mem[a] IN
         /\ o.kind = "wp" /\ o.slot[1] = Unbound => ~Live(o.want[1])
         /\ o.kind = "kv" /\ o.slot[2] = Unbound =>
              LET k == Live(o.want[2]) v == Live(o.want[3])
              IN ~ CASE o.w = "key" -> k [] o.w = "value" -> v [] o.w = "and" -> k /\ v [] OTHER -> k \/ v
    /\ \A f \in fins : Live(f.id) =>
         f.st # "triggered" /\ (f.st = "hashed" => Holds(f.a, f.id))

\* The page table agrees with the heap after every collection: totals are sums, live
\* objects lie in used space or an open region of their page, scan starts are at objects.
TablesAreExact ==
  Between =>
    /\ g.h.bytes = UsedOn(g.h, PageIndex)
    /\ \A i \in Gens : g.h.genbytes[i] = UsedOn(g.h, {p \in PageIndex : g.h.page[p].gen = i})
    /\ g.h.genbytes[Scratch] = 0
    /\ \A a \in Objects : \A p \in ObjectPages(g, a) :
         /\ ~page_free_p(g.h, p) /\ gen_of(g.h, a) = g.h.page[p].gen
         /\ \/ Min({a + g.mem[a].n, Addr(p + 1)}) <= UsedEnd(g, p)
            \/ \E k \in DOMAIN g.h.reg : g.h.reg[k].start <= a /\ a < g.h.reg[k].free
         /\ PageOf(a) < p => Addr(p) - g.h.page[p].ss <= a
=============================================================================
