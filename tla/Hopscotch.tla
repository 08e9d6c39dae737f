------------------------------ MODULE Hopscotch ------------------------------
(***************************************************************************)
(* hopscotch.c, the hash tables the collector uses for pinned objects and  *)
(* weak pointers: insertion with displacement inside a bounded             *)
(* neighbourhood, resizing by rehash, shrinking at reset, and the two      *)
(* blocks of memory kept for tables that grow while the world is stopped.  *)
(* One table, of the kind that hopscotch_create is asked for.  A key of 0  *)
(* is an empty cell; hops[b] is the set of offsets from bin b at which its *)
(* keys are.  Statistics and the widths of values are left out.            *)
(***************************************************************************)
EXTENDS Integers, FiniteSets, FiniteSetsExt, Sequences

CONSTANTS Keys,          \* keys, nonzero
          Vals,          \* values, nonzero
          Hash,          \* Hash[k]: address hash, content hash or mixed hash, by kind of table
          Content,       \* Content[k]: what vector_eql compares
          Sizes,         \* bins that hopscotch_create is asked for, powers of 2
          Cutoffs,       \* sizes up to which the first and second hop range is picked
          Ranges,        \* the three hop ranges, 8, 16 and 32 in the code
          MinSize,       \* size below which a reset does not shrink, 8 in the code
          Width,         \* cells that one test of the hop bits covers, 4 or 8 in the code
          Granule,       \* hh_allocation_granularity
          PageSize       \* os_reported_page_size

Kinds == {"default", "mix", "vector"}

VARIABLES table,     \* struct hopscotch_table, Destroyed when it has no storage
          cache,     \* cached_alloc: usable size and whether it is zero, or NoBlock
          map        \* history: the mapping that the calls describe

vars == <<table, cache, map>>

Destroyed == [size |-> 0]
NoBlock   == [usable |-> -1, zero |-> TRUE]
Overhead  == 8

hash(ht, k) == IF ht.kind = "default" /\ ~ ht.mixed THEN Hash[k][1]
               ELSE IF ht.kind = "vector" THEN Hash[k][2] ELSE Hash[k][3]
Home(ht, k) == hash(ht, k) % ht.size
hopscotch_max_key_index(ht) == ht.size - 1 + ht.hop_range - 1

\* compare: vector_eql for content tables, EQ for the others.
compare(ht, k1, k2) == IF ht.kind = "vector" THEN Content[k1] = Content[k2] ELSE k1 = k2

AllZero(ht) ==
    /\ \A i \in DOMAIN ht.keys : ht.keys[i] = 0 /\ ht.vals[i] = 0
    /\ \A b \in DOMAIN ht.hops : ht.hops[b] = {}

------------------------------------------------------------------------------
(* Memory.                                                                   *)

\* Bytes for keys, values (a word each) and hop masks.
StorageSize(size, hop, valued) ==
    (8 + (IF valued THEN 8 ELSE 0)) * (size + hop - 1) + 4 * size

AlignUp(n, g) == ((n + g - 1) \div g) * g

\* The block that cached_allocate returns, and what is left of the cache.
cached_allocate(c, nbytes) ==
    IF \E line \in 1..2 : c[line].usable >= nbytes
    THEN LET line == Min({i \in 1..2 : c[i].usable >= nbytes})
         IN  [block |-> c[line], cache |-> [c EXCEPT ![line] = NoBlock]]
    ELSE [block |-> [usable |-> AlignUp(nbytes, Granule) - Overhead, zero |-> TRUE], cache |-> c]

\* The larger blocks are kept; a block that goes back to the OS is not zeroed.
cached_deallocate(c, block) ==
    IF c[1] = NoBlock THEN [c EXCEPT ![1] = block]
    ELSE IF c[2] = NoBlock THEN [c EXCEPT ![2] = block]
    ELSE IF block.usable <= c[1].usable /\ block.usable <= c[2].usable THEN c
    ELSE [c EXCEPT ![IF c[2].usable < c[1].usable THEN 2 ELSE 1] = block]

PickRange(size) == IF size <= Cutoffs[1] THEN Ranges[1] ELSE IF size <= Cutoffs[2] THEN Ranges[2] ELSE Ranges[3]

\* hopscotch_realloc with a hop range of 0: an empty layout of a given size
\* over a block, whose contents are zero if the block is.
Layout(size, kind, valued, block) ==
    LET hop == PickRange(size)
        junk == IF block.zero THEN 0 ELSE CHOOSE k \in Keys : TRUE
    IN  [size |-> size, hop_range |-> hop, kind |-> kind, valued |-> valued, mixed |-> FALSE,
         keys |-> [i \in 0..(size + hop - 2) |-> junk],
         vals |-> [i \in 0..(size + hop - 2) |-> 0],
         hops |-> [b \in 0..(size - 1) |-> {}],
         threshold |-> ((size + hop - 1) * 13) \div 16,
         count |-> 0, resized |-> FALSE, prev_size |-> size, usable |-> block.usable]

hopscotch_create(c, size, kind, valued) ==
    LET got == cached_allocate(c, StorageSize(size, PickRange(size), valued))
    IN  [ht |-> Layout(size, kind, valued, got.block), cache |-> got.cache]

\* The cache after the storage of ht was given back: need_to_zero looks at
\* the count only.
hopscotch_destroy(c, ht) ==
    cached_deallocate(c, [usable |-> ht.usable, zero |-> ht.count # 0 \/ AllZero(ht)])

------------------------------------------------------------------------------
(* Insertion.                                                                *)

Occupy(ht, i, k, v) ==
    [ht EXCEPT !.keys[i] = k, !.vals[i] = IF ht.valued THEN v ELSE 0]

\* Bins that own a cell that could be moved into the free cell f.
Robbable(ht, f) ==
    {b \in (f - (ht.hop_range - 1)) .. Min({f - 1, ht.size - 1}) :
        ht.hops[b] \cap 0..(f - b - 1) # {}}

\* Mutant of Displace: the moved key is still claimed where it was.
DisplaceKeepingBit(ht, f, b, victim) ==
    [Occupy(Occupy(ht, f, ht.keys[b + victim], ht.vals[b + victim]), b + victim, 0, 0)
        EXCEPT !.hops[b] = @ \cup {f - b}]

\* The leftmost key of the leftmost such bin moves to f.
Displace(ht, f, b, victim) ==
    [Occupy(Occupy(ht, f, ht.keys[b + victim], ht.vals[b + victim]), b + victim, 0, 0)
        EXCEPT !.hops[b] = (@ \ {victim}) \cup {f - b}]

\* The outcome of an attempt: done, or no room in what is left of the table,
\* in which the keys moved on the way stay where they went.
Done(ht) == [ok |-> TRUE, ht |-> ht]
NoRoom(ht) == [ok |-> FALSE, ht |-> ht]

\* From the label retry: f is a free cell to the right of the home bin d.
RECURSIVE InsertAt(_, _, _, _, _)
InsertAt(ht, k, v, d, f) ==
    IF f - d < ht.hop_range
    THEN Done([Occupy(ht, f, k, v) EXCEPT !.hops[d] = @ \cup {f - d}, !.count = @ + 1])
    ELSE IF Robbable(ht, f) = {} THEN NoRoom(ht)
    ELSE LET b == Min(Robbable(ht, f))
             victim == Min(ht.hops[b])
         IN  InsertAt(Displace(ht, f, b, victim), k, v, d, b + victim)

FreeCells(ht, d) == {i \in (d + 1) .. hopscotch_max_key_index(ht) : ht.keys[i] = 0}

\* An insertion that may not resize.
Insert(ht, k, v, rehashing) ==
    LET d == Home(ht, k)
    IN  IF ht.keys[d] = 0
        THEN Done([Occupy(ht, d, k, v) EXCEPT !.hops[d] = @ \cup {0}, !.count = @ + 1])
        ELSE IF (~ rehashing /\ ht.count >= ht.threshold) \/ FreeCells(ht, d) = {} THEN NoRoom(ht)
        ELSE InsertAt(ht, k, v, d, Min(FreeCells(ht, d)))

\* Rehash of the cells n, n - 1, ..., 0 of old into new, up to a failure.
RECURSIVE CopyKeys(_, _, _)
CopyKeys(old, n, new) ==
    IF n < 0 \/ ~new.ok THEN new
    ELSE CopyKeys(old, n - 1,
                  IF old.keys[n] = 0 THEN new ELSE Insert(new.ht, old.keys[n], old.vals[n], TRUE))

\* The dumb hash function is given up for large tables.
MaybeMix(ht) == [ht EXCEPT !.mixed = ht.kind = "default" /\ ht.hop_range > Ranges[2]]

\* hopscotch_resize_up: the table at the first doubled size that all keys
\* fit in, and the cache after the failed ones and the old one went back.
RECURSIVE ResizeTo(_, _, _)
ResizeTo(ht, size, c) ==
    LET made == hopscotch_create(c, size, ht.kind, ht.valued)
        full == CopyKeys(ht, hopscotch_max_key_index(ht), Done(MaybeMix(made.ht)))
    IN  IF ~full.ok
        THEN ResizeTo(ht, 2 * size,
                      cached_deallocate(made.cache, [usable |-> made.ht.usable, zero |-> TRUE]))
        ELSE [ht |-> [full.ht EXCEPT !.count = ht.count, !.resized = TRUE, !.prev_size = ht.prev_size],
              cache |-> cached_deallocate(made.cache, [usable |-> ht.usable, zero |-> TRUE])]

hopscotch_resize_up(ht, c) == ResizeTo(ht, 2 * ht.size, c)

\* hopscotch_insert: resize until there is room.
RECURSIVE hopscotch_insert(_, _, _, _)
hopscotch_insert(ht, c, k, v) ==
    LET new == Insert(ht, k, v, FALSE)
    IN  IF new.ok THEN [ht |-> new.ht, cache |-> c]
        ELSE LET up == hopscotch_resize_up(new.ht, c) IN hopscotch_insert(up.ht, up.cache, k, v)

------------------------------------------------------------------------------
(* Lookup.                                                                   *)

\* Without a comparator a group of Width cells is probed as soon as one of
\* its hop bits is set; with one, only the cells whose bit is set.
Probed(ht, k) ==
    LET d == Home(ht, k)
    IN  IF ht.kind = "vector" THEN {d + j : j \in ht.hops[d]}
        ELSE {d + j : j \in {i \in 0..(ht.hop_range - 1) :
                               \E bit \in ht.hops[d] : bit \div Width = i \div Width}}

Found(ht, k) == {i \in Probed(ht, k) : ht.keys[i] # 0 /\ compare(ht, ht.keys[i], k)}

hopscotch_containsp(ht, k) == Found(ht, k) # {}

\* hopscotch_get with NOTFOUND 0; for a set the index found plus 1.
hopscotch_get(ht, k) ==
    IF Found(ht, k) = {} THEN 0
    ELSE IF ht.valued THEN ht.vals[Min(Found(ht, k))] ELSE Min(Found(ht, k)) + 1

------------------------------------------------------------------------------
(* Operations.                                                               *)

Live == table # Destroyed

\* The keys that the mapping holds, and whether it holds one like k.
Present(k) == \E j \in DOMAIN map : compare(table, j, k)

Store(k, v) ==
    \E r \in {hopscotch_insert(table, cache, k, v)} :
        /\ table' = r.ht /\ cache' = r.cache
        /\ map' = [j \in DOMAIN map \cup {k} |-> IF j = k THEN v ELSE map[j]]

\* hopscotch_create for first use.
Create(size, kind, valued) ==
    /\ ~ Live
    /\ \E r \in {hopscotch_create(cache, size, kind, valued)} :
         table' = r.ht /\ cache' = r.cache
    /\ map' = << >>

\* hopscotch_insert: the caller knows that the key is not there.
InsertNew(k, v) == Live /\ ~ Present(k) /\ Store(k, v)

\* hopscotch_put: update in place, or insert.
Put(k, v) ==
    /\ Live /\ table.valued
    /\ IF Found(table, k) = {} THEN Store(k, v)
       ELSE \E i \in {Min(Found(table, k))} :
              /\ table' = [table EXCEPT !.vals[i] = v]
              /\ map' = [map EXCEPT ![table.keys[i]] = v]
              /\ UNCHANGED cache

\* hopscotch_get_ref: a missing key is inserted with value 0.
GetRef(k) == Live /\ table.valued /\ Found(table, k) = {} /\ Store(k, 0)

\* hopscotch_delete looks at cells whose bit is set only.
Delete(k) ==
    /\ Live
    /\ \E i \in {Home(table, k) + j : j \in table.hops[Home(table, k)]} :
         /\ compare(table, table.keys[i], k)
         /\ table' = [Occupy(table, i, 0, 0) EXCEPT
                        !.hops[Home(table, k)] = @ \ {i - Home(table, k)}, !.count = @ - 1]
         /\ map' = [j \in DOMAIN map \ {table.keys[i]} |-> map[j]]
    /\ UNCHANGED cache

\* hopscotch_reset: zero if anything was inserted, and halve the size if the
\* table has outgrown the last run twice, or was not resized in this one.
Shrinks(ht) ==
    \/ ht.size > 2 * ht.prev_size
    \/ ht.size = ht.prev_size /\ ~ ht.resized /\ ht.size > MinSize
Reset ==
    /\ Live
    /\ \E zero \in {table.count # 0 \/ AllZero(table)} :
         LET size == IF Shrinks(table) THEN table.size \div 2 ELSE table.size
         IN  table' = [Layout(size, table.kind, table.valued, [usable |-> table.usable, zero |-> zero])
                         EXCEPT !.prev_size = table.size,
                                !.mixed = IF Shrinks(table) \/ table.kind = "default" THEN FALSE ELSE table.mixed]
    /\ map' = << >>
    /\ UNCHANGED cache

Destroy ==
    /\ Live
    /\ cache' = hopscotch_destroy(cache, table)
    /\ table' = Destroyed /\ map' = << >>

\* hopscotch_init fills the cache.
Init ==
    /\ table = Destroyed /\ map = << >>
    /\ cache = [line \in 1..2 |-> [usable |-> PageSize - Overhead, zero |-> TRUE]]

Next ==
    \/ \E size \in Sizes, kind \in Kinds, valued \in BOOLEAN : Create(size, kind, valued)
    \/ \E k \in Keys, v \in Vals : InsertNew(k, v) \/ Put(k, v)
    \/ \E k \in Keys : GetRef(k) \/ Delete(k)
    \/ Reset \/ Destroy

Spec == Init /\ [][Next]_vars

------------------------------------------------------------------------------
(* Properties                                                               *)

\* The table finds exactly what was put into it, through displacement, resize
\* and deletion: every probe of hopscotch_get and hopscotch_containsp agrees
\* with the mapping, also for keys that are equal only by content.
LookupIsExact ==
    Live => \A k \in Keys :
        /\ hopscotch_containsp(table, k) <=> Present(k)
        /\ \A j \in DOMAIN map : table.valued /\ compare(table, j, k) => hopscotch_get(table, k) = map[j]

\* hopscotch_integrity_check: a used cell is claimed by one bin, that of its
\* key, an empty one by none; the count is exact.
Claims(ht, i) == {b \in DOMAIN ht.hops : i - b \in ht.hops[b]}
IntegrityCheck ==
    Live =>
      /\ \A i \in DOMAIN table.keys :
           Claims(table, i) = IF table.keys[i] = 0 THEN {} ELSE {Home(table, table.keys[i])}
      /\ table.count = Cardinality({i \in DOMAIN table.keys : table.keys[i] # 0})

\* Memory is zero when a table is laid over it, although what is zeroed when
\* it is given up depends on the count and on the size at that time; and a
\* table fits its block (the assertion of hopscotch_realloc).
MemoryIsZeroed ==
    /\ \A line \in 1..2 : cache[line].zero
    /\ Live => /\ map = << >> => AllZero(table)
               /\ table.usable >= StorageSize(table.size, table.hop_range, table.valued)
=============================================================================
