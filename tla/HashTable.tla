----------------------------- MODULE HashTable -----------------------------
(***************************************************************************)
(* The chained hash tables of src/code/target-hash-table.lisp, with the    *)
(* collector that moves their keys under them.                             *)
(*                                                                         *)
(* A table keeps its pairs in a vector that is filled from the left up to  *)
(* a high water mark, and finds them through chains of pair indices: an    *)
(* index vector of bucket heads and a next vector of links, which also     *)
(* links the free pairs.  A key hashed by its address is lost when the     *)
(* collector moves it; the collector then sets the low bit of the pair     *)
(* vector's stamp, and a lookup that misses rebuilds the chains.  Any      *)
(* number of threads may look up at once, so the rebuilding happens under  *)
(* other readers' feet: bit 1 of the stamp says that it is in progress,    *)
(* the bits above count the times it was done.                             *)
(*                                                                         *)
(* One thread runs a script of operations, alone; then the readers look    *)
(* keys up together.  The collector runs between any two steps, moves      *)
(* every key that is not pinned and, in a weak table, removes the pairs    *)
(* whose keys are dead.                                                    *)
(***************************************************************************)
EXTENDS Integers, Sequences, FiniteSets, TLC

CONSTANTS Key,          \* objects used as keys
          Kind,         \* Key -> "ptr" (an object), "imm" (a fixnum),
                        \*        "num" (a boxed number) or "str" (a string)
          Content,      \* Key -> the fixnum's word, or what EQL/EQUAL compare
          Prefix,       \* Key -> sequence of hashes: of 1, 2, ... elements of it
          Placements,   \* the addresses a collection may give the keys
          Mid, Safe,    \* hashes of an address word: %EQ-HASH/MID, EQ-HASH/SAFE
          Scripts,      \* set of [table, ops, addr, reads, gcs]: the writer's operations
                        \* on a table, where the keys are, the keys the readers
                        \* look up, and a bound on the collections
          Readers,      \* threads that look up when the script is over
          MinSize,      \* +MIN-HASH-TABLE-SIZE+
          FlatLimit,    \* [test -> +FLAT-LIMIT/EQ+, +FLAT-LIMIT/EQL+]
          CountMid,     \* buckets from which collisions of the mid hash count
          MaxChainEq,   \* chain length at which PUTHASH changes an EQ hash
          MaxChain,     \* number of keys -> MAX-CHAIN-LENGTH
          InitialLimit, InitialChain,  \* +INITIAL-SXSTATE+
          HighestLimit, \* +HIGHEST-SXSTATE-LIMIT+
          Crowded(_, _, _), \* keys, buckets, collisions: far from random
          FixedShift, TagBits, LowTagBits, WordBits,
          Unroll        \* probes between two checks of the probe limit

None == "none"
Absent == 0
NoGrowth == [on |-> FALSE]
Empty == <<None, 0>>
Magic == -1
Truncation == 64
Unlimited == 0

VARIABLES ht,      \* the table
          gr,      \* the vectors GROW-HASH-TABLE is filling
          th,      \* each thread's place and locals
          script,  \* what the writer still has to do
          addr,    \* where each key is
          roots,   \* keys the program still holds
          map,     \* what the table should hold: Key -> value or Absent
          reads,   \* the keys the readers look up
          gcs      \* collections still to come

vars == <<ht, gr, th, script, addr, roots, map, reads, gcs>>

Writer == "writer"
Threads == {Writer} \cup Readers

-----------------------------------------------------------------------------
(* Hash functions and comparison.                                          *)

Word(k) == IF Kind[k] = "imm" THEN Content[k] ELSE addr[k]

Same(test, a, b) ==
    \/ a = b
    \/ /\ \/ test = "eql" /\ Kind[a] = "num"
          \/ test = "equal" /\ Kind[a] \in {"num", "str"}
       /\ Kind[a] = Kind[b]
       /\ Content[a] = Content[b]

AddressBased(test, k) == IF test = "eq" THEN Kind[k] # "imm" ELSE Kind[k] = "ptr"

EqHash(fun, w) ==
    CASE fun.f = "small" -> (w \div 2 ^ fun.s) + (w \div 2 ^ FixedShift)
      [] fun.f = "safe"  -> Safe[w]
      [] OTHER           -> Mid[w]

EqlHash(k) == IF Kind[k] = "num" THEN Content[k] ELSE EqHash([f |-> "non"], Word(k))

PerhapsTruncatedEqualHash(k, limit) ==
    LET whole == limit = Unlimited \/ Len(Prefix[k]) <= limit
    IN  IF whole THEN Prefix[k][Len(Prefix[k])] ELSE Prefix[k][limit] + Truncation

Truncated(h) == h >= Truncation

AdaptiveEqualHash(k, limit) ==
    IF Kind[k] \in {"num", "str"} THEN PerhapsTruncatedEqualHash(k, limit)
                                  ELSE EqHash([f |-> "non"], Word(k))

Hash(t, k) ==
    CASE t.test = "eq"    -> EqHash(t.fun, Word(k))
      [] t.test = "eql"   -> EqlHash(k)
      [] t.test = "equal" -> AdaptiveEqualHash(k, t.fun.s)

MaskHash(h, idx) == (h % Len(idx)) + 1

\* The hash the rehashing loops use for the pair i: the stored one unless it
\* was an address.
PairHash(t, hv, kv, i) ==
    IF t.test = "equal"
    THEN IF hv[i] = Magic THEN EqHash([f |-> "non"], Word(kv.pair[i][1])) ELSE hv[i]
    ELSE Hash(t, kv.pair[i][1])

\* The probe's comparison: by EQ for a key hashed by its address, otherwise
\* the stored hash first in a table that stores them.
Match(t, k, h, i) ==
    LET x == t.kv.pair[i][1]
    IN  /\ x # None
        /\ IF AddressBased(t.test, k) \/ Kind[k] = "imm" THEN x = k
           ELSE (t.test = "equal" => t.hv[i] = h) /\ Same(t.test, k, x)

-----------------------------------------------------------------------------
(* Tables.                                                                 *)

Zeros(n) == [i \in 1..n |-> 0]

PowerOfTwoCeiling(n) == CHOOSE p \in {2 ^ e : e \in 0..8} : p >= n /\ p < 2 * n

AllocKvPairs(size) ==
    [hwm |-> 0, stamp |-> 0, addr |-> FALSE, weak |-> FALSE,
     pair |-> [i \in 1..size |-> Empty]]

Capacity(kv) == Len(kv.pair)

Odd(stamp) == stamp % 2 = 1
Rehashing(stamp) == (stamp \div 2) % 2 = 1

InitialFun(s) ==
    IF s.test = "equal" THEN [f |-> "sx", s |-> InitialLimit, mc |-> InitialChain]
    ELSE IF s.weak THEN [f |-> "non"]
    ELSE IF s.size <= FlatLimit[s.test] THEN [f |-> "flat"]
    ELSE IF s.test = "eq" THEN [f |-> "mid"] ELSE [f |-> "non"]

\* %MAKE-HASH-TABLE.  A strong table of the default size starts with vectors
\* of no pairs, and stashes the size it wants as a negative cache.
MakeHashTable(s) ==
    LET new == ~s.weak /\ s.size = MinSize
        nb == IF new THEN 2 ELSE PowerOfTwoCeiling(s.size)
        size == IF new THEN 0 ELSE s.size
    IN  [test |-> s.test, weak |-> s.weak, fun |-> InitialFun(s), step |-> s.step,
         kv |-> [AllocKvPairs(size) EXCEPT !.weak = s.weak],
         idx |-> Zeros(nb), nxt |-> Zeros(size),
         hv |-> IF s.test = "equal" THEN Zeros(size) ELSE <<>>,
         free |-> IF new THEN 0 ELSE 1, count |-> 0,
         cache |-> IF new THEN -s.size ELSE -1,
         smashed |-> <<>>]

\* %RECOMPUTE-HT-VECTOR-SIZES, the table's rehash-size an integer, or 0
\* for the default factor of 1.5.
RecomputeSizes(step, old) ==
    IF step # 0 THEN <<old + step, PowerOfTwoCeiling(old + step)>>
    ELSE LET want == IF (3 * old) \div 2 > old THEN (3 * old) \div 2 ELSE old + 1
             p == PowerOfTwoCeiling(want)
             size == IF 10 * want > 9 * p THEN (85 * p) \div 100
                     ELSE IF 100 * want < 55 * p THEN (65 * p) \div 100
                     ELSE want
         IN  <<size, p>>

\* The pairs of a chain, in its order.
RECURSIVE ChainFrom(_, _)
ChainFrom(nxt, i) == IF i = 0 THEN <<>> ELSE <<i>> \o ChainFrom(nxt, nxt[i])

\* Position in the sequence s of the first element that satisfies P, or 0.
FirstIn(s, P(_)) ==
    IF \E n \in DOMAIN s : P(s[n])
    THEN CHOOSE n \in DOMAIN s : P(s[n]) /\ \A m \in 1..(n - 1) : ~P(s[m])
    ELSE 0

\* What is next free after the free chain nf is used up.
FreeAfter(nf, kv) ==
    IF nf # 0 THEN nf ELSE IF kv.hwm = Capacity(kv) THEN 0 ELSE kv.hwm + 1

FallBackOnEqHash(fun) ==
    CASE fun.f = "mid" -> [f |-> "safe"] [] fun.f = "small" -> [f |-> "mid"] [] OTHER -> fun

\* GUESS-EQ-HASH-FUN: shift out the low bits in which the keys agree.
GuessEqHashFun(kv) ==
    LET Bit(k, s) == (Word(k) \div 2 ^ s) % 2
        keys == {kv.pair[i][1] : i \in 1..kv.hwm}
        lowest == IF \A k \in keys : Word(k) % 2 ^ TagBits = 2 ^ TagBits - 1
                  THEN LowTagBits ELSE TagBits
        apart == {s \in lowest..(WordBits - 1) :
                    \E k \in keys : Bit(k, s) # Bit(kv.pair[1][1], s)}
        n == IF apart = {} THEN WordBits ELSE CHOOSE s \in apart : \A x \in apart : s <= x
    IN  [f |-> "small", s |-> IF n = FixedShift THEN WordBits - 1 ELSE n]

\* Whether the collector must know that the keys of a flat table, about to be
\* hashed, are hashed by their addresses.
FlatAddressHashing(t) ==
    \E i \in 1..t.kv.hwm : t.kv.pair[i][1] # None /\ AddressBased(t.test, t.kv.pair[i][1])

CountsCollisions(t, idx) ==
    \/ t.fun.f = "small" /\ Len(idx) > FlatLimit["eq"]
    \/ t.fun.f = "mid" /\ Len(idx) >= CountMid

TooManyCollisions(t, n) == t.count \div 2 < n

-----------------------------------------------------------------------------
(* Threads.                                                                *)

Rest == [pc |-> "idle", op |-> "get", k |-> None, v |-> 0, hash |-> 0, stamp |-> 0,
         i |-> 0, n |-> 0, nf |-> 0, nc |-> 0, ret |-> Absent, want |-> Absent]

Init ==
    \E s \in Scripts :
        /\ ht = MakeHashTable(s.table)
        /\ script = s.ops
        /\ gr = NoGrowth
        /\ th = [p \in Threads |-> Rest]
        /\ addr = s.addr
        /\ roots = Key
        /\ map = [k \in Key |-> Absent]
        /\ reads = s.reads
        /\ gcs = s.gcs

Set(p, r) == th' = [th EXCEPT ![p] = r @@ @]
At(p, pc) == th[p].pc = pc
Busy(p) == th[p].pc \notin {"idle", "done"}

\* The end of an operation: what it returned, and what it should have.
Finish(p, ret, want) ==
    th' = [th EXCEPT ![p] = [Rest EXCEPT !.pc = "done", !.op = th[p].op, !.k = th[p].k,
                                         !.ret = ret, !.want = want]]

Other == UNCHANGED <<script, addr, roots, reads, gcs>>

\* Return from a lookup, with the value of pair i (0 for none).
FinishGet(p, i) ==
    Finish(p, IF i = 0 THEN Absent ELSE ht.kv.pair[i][2], map[th[p].k])

FinishPut(p) ==
    /\ Finish(p, Absent, Absent)
    /\ map' = [x \in Key |-> IF Same(ht.test, th[p].k, x) THEN th[p].v ELSE map[x]]

FinishRem(p, found) ==
    /\ Finish(p, IF found THEN 1 ELSE 0, IF map[th[p].k] # Absent THEN 1 ELSE 0)
    /\ map' = [x \in Key |-> IF Same(ht.test, th[p].k, x) THEN Absent ELSE map[x]]

SetValue(t, i, v) == [t EXCEPT !.kv.pair[i][2] = v]

\* The writer takes the next operation of its script; when there is none
\* left, each reader looks up one key.
Begin(p) ==
    /\ ~Busy(p)
    /\ IF p = Writer
       THEN /\ script # <<>>
            /\ script' = Tail(script)
            /\ LET o == Head(script)
               IN  IF o[1] = "drop"
                   THEN roots' = roots \ {o[2]} /\ UNCHANGED th
                   ELSE /\ th' = [th EXCEPT ![p] = [Rest EXCEPT !.pc = "call", !.op = o[1],
                                                        !.k = o[2], !.v = o[3]]]
                        /\ UNCHANGED roots
       ELSE /\ script = <<>> /\ ~Busy(Writer)
            /\ At(p, "idle")
            /\ \E k \in reads : th' = [th EXCEPT ![p] = [Rest EXCEPT !.pc = "call", !.k = k]]
            /\ UNCHANGED <<script, roots>>
    /\ UNCHANGED <<ht, gr, map, addr, reads, gcs>>

-----------------------------------------------------------------------------
(* Flat tables: a short pair vector, searched from the left.               *)

IsFlat == ht.fun.f = "flat"

FlatFind(t, k) ==
    FirstIn(SubSeq(t.kv.pair, 1, t.kv.hwm), LAMBDA x : x[1] # None /\ Same(t.test, k, x[1]))

GethashFlat(p) ==
    /\ At(p, "call") /\ IsFlat /\ th[p].op = "get"
    /\ FinishGet(p, FlatFind(ht, th[p].k))
    /\ UNCHANGED <<ht, gr, map>> /\ Other

\* The last empty pair below the high water mark is reused; with none, and no
\* room above it, the table grows.
PuthashFlat(p) ==
    /\ At(p, "call") /\ IsFlat /\ th[p].op = "put"
    /\ LET f == FlatFind(ht, th[p].k)
           kv == ht.kv
           gaps == {i \in 1..kv.hwm : kv.pair[i][1] = None}
           gap == IF ht.count = kv.hwm \/ gaps = {} THEN 0
                  ELSE CHOOSE i \in gaps : \A x \in gaps : x <= i
           at == IF gap = 0 THEN kv.hwm + 1 ELSE gap
       IN  CASE f # 0 -> ht' = SetValue(ht, f, th[p].v) /\ FinishPut(p)
             [] f = 0 /\ gap = 0 /\ kv.hwm = Capacity(kv) ->
                    Set(p, [pc |-> "grow"]) /\ UNCHANGED <<ht, map>>
             [] OTHER ->
                    /\ ht' = [ht EXCEPT !.count = @ + 1,
                                        !.kv.hwm = IF gap = 0 THEN @ + 1 ELSE @,
                                        !.kv.pair[at] = <<th[p].k, th[p].v>>]
                    /\ FinishPut(p)
    /\ UNCHANGED gr /\ Other

RemhashFlat(p) ==
    /\ At(p, "call") /\ IsFlat /\ th[p].op = "rem"
    /\ LET f == FlatFind(ht, th[p].k)
       IN  /\ ht' = IF f = 0 THEN ht ELSE [ht EXCEPT !.count = @ - 1, !.kv.pair[f] = Empty]
           /\ FinishRem(p, f # 0)
    /\ UNCHANGED gr /\ Other

-----------------------------------------------------------------------------
(* Lookup.                                                                 *)

Bucket(p) == MaskHash(th[p].hash, ht.idx)

\* The most recently used pair is compared first; then the key is pinned,
\* and hashed, before the stamp is read.
Gethash(p) ==
    /\ At(p, "call") /\ ~IsFlat /\ ~ht.weak /\ th[p].op = "get"
    /\ IF ht.cache > 0 /\ ht.kv.pair[ht.cache][1] = th[p].k
       THEN FinishGet(p, ht.cache)
       ELSE Set(p, [pc |-> "stamp", hash |-> Hash(ht, th[p].k)])
    /\ UNCHANGED <<ht, gr, map>> /\ Other

\* HASH-TABLE-LSEARCH: scan the pairs while another thread rebuilds the chains.
Lsearch(t, k, h) ==
    LET found == {i \in 1..t.kv.hwm : Match(t, k, h, i)}
    IN  IF found = {} THEN 0 ELSE CHOOSE i \in found : \A x \in found : x <= i

\* Start to look with the stamp s: along the chain, or through all the pairs.
Retry(p, s) ==
    IF Rehashing(s)
    THEN LET i == Lsearch(ht, th[p].k, th[p].hash)
         IN  /\ ht' = IF i = 0 THEN ht ELSE [ht EXCEPT !.cache = i]
             /\ FinishGet(p, i)
    ELSE Set(p, [pc |-> "index", stamp |-> s]) /\ UNCHANGED ht

ReadStamp(p) ==
    /\ At(p, "stamp")
    /\ Retry(p, ht.kv.stamp)
    /\ UNCHANGED <<gr, map>> /\ Other

ReadIndex(p) ==
    /\ At(p, "index")
    /\ Set(p, [pc |-> "probe", i |-> ht.idx[Bucket(p)], n |-> 0])
    /\ UNCHANGED <<ht, gr, map>> /\ Other

\* After every few probes the number of them is compared with the length of
\* the next vector, one more than the pairs it links.
ExcessiveProbes(p, n) ==
    LET by == IF AddressBased(ht.test, th[p].k) \/ ht.test = "eq" THEN Unroll
              ELSE IF ht.test = "eql" THEN 2 ELSE 1
    IN  n % by = 0 /\ n > Len(ht.nxt) + 1

Probe(p) ==
    /\ At(p, "probe")
    /\ LET i == th[p].i
       IN  IF i # 0 /\ Match(ht, th[p].k, th[p].hash, i)
           THEN ht' = [ht EXCEPT !.cache = i] /\ FinishGet(p, i)
           ELSE IF i = 0 THEN Set(p, [pc |-> "miss"]) /\ UNCHANGED ht
           ELSE /\ Set(p, IF ExcessiveProbes(p, th[p].n + 1)
                          THEN [pc |-> "corrupt"]
                          ELSE [i |-> ht.nxt[i], n |-> th[p].n + 1])
                /\ UNCHANGED ht
    /\ UNCHANGED <<gr, map>> /\ Other

\* What a miss means is decided by the stamp before the search and after it.
Miss(p) ==
    /\ At(p, "miss")
    /\ LET before == th[p].stamp
           after == ht.kv.stamp
       IN  IF \/ ~Odd(before) /\ after \div 2 = before \div 2
              \/ Odd(before) /\ after = before /\ ~AddressBased(ht.test, th[p].k)
           THEN FinishGet(p, 0) /\ UNCHANGED ht
           ELSE IF Odd(before) /\ after = before
           THEN Set(p, [pc |-> "cas"]) /\ UNCHANGED ht
           ELSE Retry(p, after)
    /\ UNCHANGED <<gr, map>> /\ Other

-----------------------------------------------------------------------------
(* Rehashing after the keys moved: %REHASH-AND-FIND.                       *)

\* Push the pair i on the chain of bucket b.
Push(idx, nxt, i, b) == <<[idx EXCEPT ![b] = i], [nxt EXCEPT ![i] = idx[b]]>>

\* Only one thread takes the stamp from 01 to 10, and rebuilds.
RehashCas(p) ==
    /\ At(p, "cas")
    /\ IF ht.kv.stamp = th[p].stamp
       THEN /\ ht' = [ht EXCEPT !.kv.stamp = @ + 1]
            /\ Set(p, [pc |-> "fill"])
       ELSE /\ Set(p, [pc |-> IF th[p].op = "get" THEN "stamp" ELSE "corrupt"])
            /\ UNCHANGED ht
    /\ UNCHANGED <<gr, map>> /\ Other

RehashFill(p) ==
    /\ At(p, "fill")
    /\ ht' = [ht EXCEPT !.idx = Zeros(Len(@))]
    /\ Set(p, [pc |-> "push", i |-> ht.kv.hwm, n |-> 0])
    /\ UNCHANGED <<gr, map>> /\ Other

RehashPush(p) ==
    /\ At(p, "push") /\ th[p].i > 0
    /\ LET i == th[p].i
           x == ht.kv.pair[i][1]
       IN  IF x = None THEN Set(p, [i |-> i - 1]) /\ UNCHANGED ht
           ELSE LET pushed == Push(ht.idx, ht.nxt, i, MaskHash(PairHash(ht, ht.hv, ht.kv, i), ht.idx))
                IN  /\ ht' = [ht EXCEPT !.idx = pushed[1], !.nxt = pushed[2]]
                    /\ Set(p, [i |-> i - 1, n |-> IF x = th[p].k THEN i ELSE th[p].n])
    /\ UNCHANGED <<gr, map>> /\ Other

\* Mutant: what the collector noted during the rehash is lost.
DoneForgetting(now, initial) == initial + 3

\* The stamp after a rehash that began at the stamp initial: the count goes
\* up, and a movement the collector noted meanwhile stays noted.
DoneRehashing(now, initial) == initial + 3 + (now % 2)

\* CLEAR-SLOT: the pair i, off its chain, goes on the free chain.
ClearSlot(t, i) ==
    [t EXCEPT !.kv.pair[i] = Empty, !.nxt[i] = t.free, !.free = i, !.count = @ - 1]

\* Take the pair i off the chain of bucket b, and clear it.
Unlink(t, b, i) ==
    LET chain == ChainFrom(t.nxt, t.idx[b])
        n == FirstIn(chain, LAMBDA x : x = i)
    IN  ClearSlot(IF n = 1 THEN [t EXCEPT !.idx[b] = t.nxt[i]]
                  ELSE [t EXCEPT !.nxt[chain[n - 1]] = t.nxt[i]], i)

RehashDone(p) ==
    /\ At(p, "push") /\ th[p].i = 0
    /\ LET found == th[p].n
           t == [ht EXCEPT !.kv.stamp = DoneRehashing(@, th[p].stamp),
                           !.cache = IF found = 0 THEN @ ELSE found]
       IN  CASE th[p].op = "get" -> ht' = t /\ FinishGet(p, found) /\ UNCHANGED map
             [] th[p].op = "put" /\ found # 0 ->
                    ht' = SetValue(t, found, th[p].v) /\ FinishPut(p)
             [] th[p].op = "put" /\ found = 0 ->
                    ht' = t /\ Set(p, [pc |-> "insert", i |-> t.free]) /\ UNCHANGED map
             [] th[p].op = "rem" ->
                    /\ ht' = IF found = 0 THEN t ELSE Unlink(t, Bucket(p), found)
                    /\ FinishRem(p, found # 0)
    /\ UNCHANGED gr /\ Other

-----------------------------------------------------------------------------
(* Insertion and removal, which no other thread may overlap.               *)

Puthash(p) ==
    /\ At(p, "call") /\ ~IsFlat /\ ~ht.weak /\ th[p].op = "put"
    /\ IF ht.cache > 0 /\ ht.kv.pair[ht.cache][1] = th[p].k
       THEN ht' = SetValue(ht, ht.cache, th[p].v) /\ FinishPut(p)
       ELSE /\ Set(p, [pc |-> "search", stamp |-> ht.kv.stamp, hash |-> Hash(ht, th[p].k)])
            /\ UNCHANGED <<ht, map>>
    /\ UNCHANGED gr /\ Other

\* Where the key is in its chain, as a position, and the chain.
Found(p, chain) == FirstIn(chain, LAMBDA i : Match(ht, th[p].k, th[p].hash, i))

\* The key is absent.  If it was hashed by its address and the keys had moved
\* before it was pinned, it may be in another chain; otherwise a chain that
\* got too long may call for another hash.
PuthashSearch(p) ==
    /\ At(p, "search") /\ th[p].op = "put"
    /\ LET chain == ChainFrom(ht.nxt, ht.idx[Bucket(p)])
           n == Found(p, chain)
           length == Len(chain)
           moved == Odd(th[p].stamp)
           next == IF moved /\ AddressBased(ht.test, th[p].k) THEN "cas"
                   ELSE IF ~moved /\ ht.fun.f \in {"small", "mid"} /\ length >= MaxChainEq
                   THEN "fallback"
                   ELSE IF /\ ~moved /\ ht.fun.f = "sx" /\ Truncated(th[p].hash)
                           /\ length >= InitialChain /\ length >= ht.fun.mc
                   THEN "raise" ELSE "insert"
       IN  IF n # 0
           THEN /\ ht' = [SetValue(ht, chain[n], th[p].v) EXCEPT !.cache = chain[n]]
                /\ FinishPut(p)
           ELSE Set(p, [pc |-> next, i |-> ht.free]) /\ UNCHANGED <<ht, map>>
    /\ UNCHANGED gr /\ Other

\* FALL-BACK-ON-EQ-HASH-AND-REHASH: a better hash function, and all chains anew.
FallBackAndRehash(p) ==
    /\ At(p, "fallback")
    /\ ht' = [ht EXCEPT !.fun = FallBackOnEqHash(@), !.idx = Zeros(Len(@))]
    /\ Set(p, [pc |-> "rehash", i |-> ht.kv.hwm, nf |-> 0, nc |-> 0])
    /\ UNCHANGED <<gr, map>> /\ Other

\* RAISE-SXSTATE-LIMIT-AND-REHASH: hash more of each key, unless the chain is
\* no longer than it should be for this many keys, or keys have moved.
RaiseLimit(p) ==
    /\ At(p, "raise")
    /\ LET longest == MaxChain[ht.count + 1]
       IN  IF ht.fun.mc < longest
           THEN ht' = [ht EXCEPT !.fun.mc = longest] /\ Set(p, [pc |-> "insert"])
           ELSE IF ht.kv.stamp % 4 = 0
           THEN /\ ht' = [ht EXCEPT !.kv.stamp = @ + 2]
                /\ Set(p, [pc |-> "double", stamp |-> ht.kv.stamp, n |-> ht.fun.s])
           ELSE UNCHANGED ht /\ Set(p, [pc |-> "insert"])
    /\ UNCHANGED <<gr, map>> /\ Other

DoubleLimit(p) ==
    /\ At(p, "double")
    /\ ht' = [ht EXCEPT !.idx = Zeros(Len(@))]
    /\ Set(p, [pc |-> "raising", i |-> ht.kv.hwm, nf |-> 0, nc |-> 0,
               n |-> IF 2 * th[p].n > HighestLimit THEN Unlimited ELSE 2 * th[p].n])
    /\ UNCHANGED <<gr, map>> /\ Other

\* One pair of that rehash: a truncated hash is computed again.
RaisePush(p) ==
    /\ At(p, "raising") /\ th[p].i > 0
    /\ LET i == th[p].i
           x == ht.kv.pair[i][1]
       IN  IF x = None
           THEN ht' = [ht EXCEPT !.nxt[i] = th[p].nf] /\ Set(p, [i |-> i - 1, nf |-> i])
           ELSE LET again == ht.hv[i] # Magic /\ Truncated(ht.hv[i])
                    h == IF again THEN PerhapsTruncatedEqualHash(x, th[p].n) ELSE ht.hv[i]
                    hv == [ht.hv EXCEPT ![i] = h]
                    b == MaskHash(PairHash(ht, hv, ht.kv, i), ht.idx)
                    pushed == Push(ht.idx, ht.nxt, i, b)
                IN  /\ ht' = [ht EXCEPT !.hv = hv, !.idx = pushed[1], !.nxt = pushed[2]]
                    /\ Set(p, [i |-> i - 1,
                               nc |-> IF ht.idx[b] = 0 THEN th[p].nc ELSE th[p].nc + 1])
    /\ UNCHANGED <<gr, map>> /\ Other

RaiseDone(p) ==
    /\ At(p, "raising") /\ th[p].i = 0
    /\ LET cut == \E i \in 1..ht.kv.hwm : ht.hv[i] # Magic /\ Truncated(ht.hv[i])
                                         /\ ht.kv.pair[i][1] # None
       IN  IF cut /\ Crowded(ht.count, Len(ht.idx), th[p].nc)
           THEN Set(p, [pc |-> "double"]) /\ UNCHANGED ht
           ELSE LET t == [ht EXCEPT !.fun = [f |-> "sx", s |-> th[p].n, mc |-> MaxChain[ht.count + 1]],
                                    !.free = FreeAfter(th[p].nf, ht.kv),
                                    !.kv.stamp = DoneRehashing(@, th[p].stamp + 1)]
                IN  /\ ht' = t
                    /\ Set(p, [pc |-> "insert", i |-> t.free, hash |-> Hash(t, th[p].k)])
    /\ UNCHANGED <<gr, map>> /\ Other

\* INSERT-AT takes the free pair i off the free chain, or raises the high
\* water mark to it, and tells the collector how its key is hashed.
InsertSlot(p) ==
    /\ At(p, "insert")
    /\ IF th[p].i = 0 THEN Set(p, [pc |-> "grow"]) /\ UNCHANGED ht
       ELSE LET i == th[p].i
                kv == ht.kv
                next == IF i > kv.hwm THEN IF i = Capacity(kv) THEN 0 ELSE i + 1
                        ELSE FreeAfter(ht.nxt[i], kv)
                byAddress == AddressBased(ht.test, th[p].k)
            IN  /\ ht' = [ht EXCEPT !.free = next,
                                    !.kv.hwm = IF i > @ THEN i ELSE @,
                                    !.kv.addr = @ \/ byAddress,
                                    !.hv = IF ht.test = "equal"
                                           THEN [@ EXCEPT ![i] = IF byAddress THEN Magic ELSE th[p].hash]
                                           ELSE @]
                /\ Set(p, [pc |-> "link"])
    /\ UNCHANGED <<gr, map>> /\ Other

\* The pair is linked before it is stored.
InsertLink(p) ==
    /\ At(p, "link")
    /\ LET pushed == Push(ht.idx, ht.nxt, th[p].i, Bucket(p))
       IN  ht' = [ht EXCEPT !.idx = pushed[1], !.nxt = pushed[2]]
    /\ Set(p, [pc |-> "store"])
    /\ UNCHANGED <<gr, map>> /\ Other

InsertStore(p) ==
    /\ At(p, "store")
    /\ ht' = [ht EXCEPT !.kv.pair[th[p].i] = <<th[p].k, th[p].v>>,
                        !.cache = th[p].i, !.count = @ + 1]
    /\ FinishPut(p)
    /\ UNCHANGED gr /\ Other

Remhash(p) ==
    /\ At(p, "call") /\ ~IsFlat /\ ~ht.weak /\ th[p].op = "rem"
    /\ Set(p, [pc |-> "search", stamp |-> ht.kv.stamp, hash |-> Hash(ht, th[p].k)])
    /\ UNCHANGED <<ht, gr, map>> /\ Other

RemhashSearch(p) ==
    /\ At(p, "search") /\ th[p].op = "rem"
    /\ LET chain == ChainFrom(ht.nxt, ht.idx[Bucket(p)])
           n == Found(p, chain)
       IN  IF n # 0 THEN ht' = Unlink(ht, Bucket(p), chain[n]) /\ FinishRem(p, TRUE)
           ELSE IF AddressBased(ht.test, th[p].k) /\ Odd(th[p].stamp)
           THEN Set(p, [pc |-> "cas"]) /\ UNCHANGED <<ht, map>>
           ELSE FinishRem(p, FALSE) /\ UNCHANGED ht
    /\ UNCHANGED gr /\ Other

-----------------------------------------------------------------------------
(* Growing.                                                                *)

\* Choose the sizes and allocate.  A table that holds nothing is taken to be
\* a new one, and its cache to hold the size it was made for, negated; if it
\* does not, the size asked of the allocator is no size at all.  Nor does it
\* go on when a pair is still unused (the AVER, and SIGNAL-CORRUPT-HASH-TABLE).
Grow(p) ==
    /\ At(p, "grow")
    /\ LET new == ht.count = 0
           sizes == IF new THEN <<-ht.cache, PowerOfTwoCeiling(MinSize)>>
                    ELSE RecomputeSizes(ht.step, Capacity(ht.kv))
           size == sizes[1]
           nb == sizes[2]
           same == nb = Len(ht.idx) /\ ht.kv.stamp % 4 = 0
           hv == IF ht.test = "equal" THEN Zeros(size) ELSE <<>>
           used == ht.kv.hwm = Capacity(ht.kv) /\ (ht.weak \/ ht.count = ht.kv.hwm)
           ok == size > 0 /\ used
       IN  CASE ~ok -> Set(p, [pc |-> "wild"]) /\ UNCHANGED <<ht, gr>>
             [] ok /\ IsFlat /\ nb <= FlatLimit[ht.test] ->
                    /\ ht' = [ht EXCEPT !.kv.pair = @ \o [i \in 1..(nb - Len(@)) |-> Empty]]
                    /\ Set(p, [pc |-> "call"])
                    /\ UNCHANGED gr
             [] ok /\ ~IsFlat /\ new ->
                    /\ ht' = [ht EXCEPT !.kv = AllocKvPairs(size), !.idx = Zeros(nb),
                                        !.nxt = Zeros(size), !.hv = hv]
                    /\ Set(p, [pc |-> "insert", i |-> 1])
                    /\ UNCHANGED gr
             [] OTHER ->
                    /\ gr' = [on |-> TRUE, kv |-> AllocKvPairs(size), nxt |-> Zeros(size), hv |-> hv,
                              idx |-> IF same THEN ht.idx ELSE Zeros(nb),
                              same |-> same, stamp |-> ht.kv.stamp, flat |-> IsFlat]
                    /\ Set(p, [pc |-> "describe"])
                    /\ UNCHANGED ht
    /\ UNCHANGED map /\ Other

\* Before the pairs are copied, what the collector needs to know about them.
GrowDescribe(p) ==
    /\ At(p, "describe")
    /\ gr' = [gr EXCEPT !.kv.hwm = ht.kv.hwm,
                        !.kv.addr = IF gr.flat THEN FlatAddressHashing(ht) ELSE ht.kv.addr,
                        !.hv = ht.hv \o SubSeq(@, Len(ht.hv) + 1, Len(@))]
    /\ Set(p, [pc |-> "copy"])
    /\ UNCHANGED <<ht, map>> /\ Other

GrowCopy(p) ==
    /\ At(p, "copy")
    /\ gr' = [gr EXCEPT !.kv.pair = ht.kv.pair \o SubSeq(@, Len(ht.kv.pair) + 1, Len(@))]
    /\ Set(p, [pc |-> "check"])
    /\ UNCHANGED <<ht, map>> /\ Other

\* Mutant: the old chains are kept though the keys may have moved.
GrowUnchecked(p) ==
    /\ At(p, "check")
    /\ gr' = IF ~gr.same THEN gr
             ELSE [gr EXCEPT !.nxt = ht.nxt \o SubSeq(@, Len(ht.nxt) + 1, Len(@))]
    /\ Set(p, [pc |-> "detach"])
    /\ UNCHANGED <<ht, map>> /\ Other

\* With as many buckets as before the old chains will do, unless the keys
\* moved since the stamp was read.
GrowCheck(p) ==
    /\ At(p, "check")
    /\ gr' = IF ~gr.same THEN gr
             ELSE LET kept == ht.kv.stamp = gr.stamp /\ gr.kv.stamp = 0
                  IN  [gr EXCEPT !.same = kept,
                                 !.nxt = ht.nxt \o SubSeq(@, Len(ht.nxt) + 1, Len(@)),
                                 !.idx = IF kept THEN @ ELSE Zeros(Len(@))]
    /\ Set(p, [pc |-> "detach"])
    /\ UNCHANGED <<ht, map>> /\ Other

\* The collector may forget how the old vector was hashed, and that it was weak.
GrowDetach(p) ==
    /\ At(p, "detach")
    /\ LET t == [ht EXCEPT !.kv.addr = FALSE, !.kv.weak = FALSE]
       IN  IF gr.same
           THEN /\ ht' = t
                /\ Set(p, [pc |-> "install", nf |-> IF ht.free # 0 THEN ht.free ELSE ht.kv.hwm + 1])
           ELSE /\ ht' = [t EXCEPT !.fun = IF ~gr.flat THEN @
                                           ELSE IF ht.test = "eql" THEN [f |-> "non"]
                                           ELSE GuessEqHashFun(ht.kv)]
                /\ Set(p, [pc |-> "rehash", i |-> ht.kv.hwm, nf |-> 0, nc |-> 0])
    /\ UNCHANGED <<gr, map>> /\ Other

\* REHASH, of the table's own vectors or of the new ones, from the last pair
\* to the first: an empty pair goes on the free chain, a key on its bucket's.
RehashPair(p) ==
    /\ At(p, "rehash") /\ th[p].i > 0
    /\ LET vs == IF ~gr.on THEN ht ELSE gr
           i == th[p].i
           gap == vs.kv.pair[i][1] = None
           b == MaskHash(PairHash(ht, vs.hv, vs.kv, i), vs.idx)
           pushed == IF gap THEN <<vs.idx, [vs.nxt EXCEPT ![i] = th[p].nf]>>
                     ELSE Push(vs.idx, vs.nxt, i, b)
           new == [vs EXCEPT !.idx = pushed[1], !.nxt = pushed[2]]
           hit == ~gap /\ CountsCollisions(ht, vs.idx) /\ vs.idx[b] # 0
       IN  /\ IF ~gr.on THEN ht' = new /\ UNCHANGED gr ELSE gr' = new /\ UNCHANGED ht
           /\ Set(p, [i |-> i - 1, nf |-> IF gap THEN i ELSE th[p].nf,
                      nc |-> IF hit THEN th[p].nc + 1 ELSE th[p].nc])
    /\ UNCHANGED map /\ Other

\* UNTIL-EQ-HASH-FUN-STABILIZES: too many collisions, a safer hash, once more.
RehashAgain(t, n) ==
    /\ t.test = "eq" /\ ~t.weak
    /\ TooManyCollisions(t, n)
    /\ FallBackOnEqHash(t.fun) # t.fun

RehashEnd(p) ==
    /\ At(p, "rehash") /\ th[p].i = 0
    /\ LET vs == IF ~gr.on THEN ht ELSE gr
           clear == [vs EXCEPT !.idx = Zeros(Len(@))]
           nf == FreeAfter(th[p].nf, vs.kv)
           fun == FallBackOnEqHash(ht.fun)
       IN  IF RehashAgain(ht, th[p].nc)
           THEN /\ IF ~gr.on THEN ht' = [clear EXCEPT !.fun = fun] /\ UNCHANGED gr
                   ELSE gr' = clear /\ ht' = [ht EXCEPT !.fun = fun]
                /\ Set(p, [i |-> vs.kv.hwm, nf |-> 0, nc |-> 0])
           ELSE /\ ht' = IF gr.on
                         THEN IF ht.test = "equal" THEN [ht EXCEPT !.fun.mc = MaxChain[Len(ht.idx)]] ELSE ht
                         ELSE IF ht.weak
                         THEN [ht EXCEPT !.free = nf, !.smashed = <<>>, !.kv.weak = TRUE,
                                         !.kv.stamp = DoneRehashing(@, th[p].stamp)]
                         ELSE [ht EXCEPT !.free = nf]
                /\ Set(p, IF gr.on THEN [pc |-> "install", nf |-> nf]
                          ELSE IF ht.weak THEN [pc |-> "again", nf |-> 0]
                          ELSE [pc |-> "insert", i |-> nf, nf |-> 0, nc |-> 0,
                                hash |-> Hash(ht, th[p].k)])
                /\ UNCHANGED gr
    /\ UNCHANGED map /\ Other

\* The table gets its new vectors; an insertion that grew a flat table starts
\* over, another one goes on with the pair that is now free.
GrowInstall(p) ==
    /\ At(p, "install")
    /\ LET t == [ht EXCEPT !.kv = [gr.kv EXCEPT !.weak = ht.weak], !.idx = gr.idx,
                           !.nxt = gr.nxt, !.hv = gr.hv, !.free = th[p].nf, !.smashed = <<>>]
       IN  /\ ht' = t
           /\ Set(p, IF gr.flat THEN [pc |-> "call", i |-> 0, nf |-> 0, nc |-> 0]
                     ELSE [pc |-> "insert", i |-> t.free, hash |-> Hash(t, th[p].k), nf |-> 0, nc |-> 0])
    /\ gr' = NoGrowth
    /\ UNCHANGED map /\ Other

-----------------------------------------------------------------------------
(* Weak tables: one thread at a time, under the table's lock.              *)

\* TRANSFER-CULLED-CELLS: the pairs the collector emptied leave their chains
\* for the free chain.
RECURSIVE TransferCulledCells(_)
TransferCulledCells(t) ==
    IF t.smashed = <<>> THEN t
    ELSE LET i == Head(t.smashed)[1]
             b == Head(t.smashed)[2]
             off == [Unlink(t, b, i) EXCEPT !.count = t.count]
         IN  TransferCulledCells([off EXCEPT !.smashed = Tail(@)])

WeakCall(p) ==
    /\ At(p, "call") /\ ht.weak /\ th[p].op # "clr"
    /\ ht' = TransferCulledCells(ht)
    /\ Set(p, [pc |-> "find", hash |-> Hash(ht, th[p].k)])
    /\ UNCHANGED <<gr, map>> /\ Other

WeakSearch(p) ==
    LET chain == ChainFrom(ht.nxt, ht.idx[Bucket(p)])
        n == Found(p, chain)
    IN  IF n = 0 THEN 0 ELSE chain[n]

\* FINDHASH-WEAK: a miss counts unless the keys had moved.
FindhashWeak(p) ==
    /\ At(p, "find")
    /\ LET i == WeakSearch(p)
           sure == i # 0 \/ ~AddressBased(ht.test, th[p].k) \/ ~Odd(ht.kv.stamp)
       IN  Set(p, [pc |-> IF sure THEN "act" ELSE "unweak", i |-> i, stamp |-> ht.kv.stamp])
    /\ UNCHANGED <<ht, gr, map>> /\ Other

\* The chains are rebuilt while the vector is strong, so that nothing is
\* culled meanwhile.
FindhashWeakRehash(p) ==
    /\ At(p, "unweak")
    /\ ht' = [ht EXCEPT !.kv.stamp = @ + 1, !.kv.weak = FALSE, !.idx = Zeros(Len(@))]
    /\ Set(p, [pc |-> "rehash", i |-> ht.kv.hwm, nf |-> 0, nc |-> 0])
    /\ UNCHANGED <<gr, map>> /\ Other

FindhashWeakAgain(p) ==
    /\ At(p, "again")
    /\ Set(p, [pc |-> "act", i |-> WeakSearch(p)])
    /\ UNCHANGED <<ht, gr, map>> /\ Other

GethashWeak(p) ==
    /\ At(p, "act") /\ th[p].op = "get"
    /\ FinishGet(p, th[p].i)
    /\ UNCHANGED <<ht, gr, map>> /\ Other

PuthashWeak(p) ==
    /\ At(p, "act") /\ th[p].op = "put"
    /\ IF th[p].i = 0
       THEN Set(p, [pc |-> "insert", i |-> ht.free]) /\ UNCHANGED <<ht, map>>
       ELSE ht' = SetValue(ht, th[p].i, th[p].v) /\ FinishPut(p)
    /\ UNCHANGED gr /\ Other

RemhashWeak(p) ==
    /\ At(p, "act") /\ th[p].op = "rem"
    /\ ht' = IF th[p].i = 0 THEN ht ELSE Unlink(ht, Bucket(p), th[p].i)
    /\ FinishRem(p, th[p].i # 0)
    /\ UNCHANGED gr /\ Other

-----------------------------------------------------------------------------
(* CLRHASH.                                                                *)

FinishClr(p) == Finish(p, Absent, Absent) /\ map' = [k \in Key |-> Absent]

\* First the collector is told that no key is hashed by its address, so that
\* it leaves the stamp alone.
Clrhash(p) ==
    /\ At(p, "call") /\ th[p].op = "clr"
    /\ IF ht.kv.hwm = 0 THEN FinishClr(p) /\ UNCHANGED ht
       ELSE /\ ht' = [ht EXCEPT !.kv.addr = FALSE]
            /\ Set(p, [pc |-> "restamp"])
            /\ UNCHANGED map
    /\ UNCHANGED gr /\ Other

ClrhashStamp(p) ==
    /\ At(p, "restamp")
    /\ ht' = [ht EXCEPT !.kv.stamp = IF IsFlat THEN @ ELSE 0]
    /\ Set(p, [pc |-> "empty"])
    /\ UNCHANGED <<gr, map>> /\ Other

ClrhashPairs(p) ==
    /\ At(p, "empty")
    /\ ht' = [ht EXCEPT !.kv.pair = IF ht.count = 0 THEN @ ELSE [i \in DOMAIN @ |-> Empty]]
    /\ Set(p, [pc |-> "reset", n |-> IF ht.count = 0 /\ ht.smashed = <<>> THEN 0 ELSE 1])
    /\ map' = [k \in Key |-> Absent]
    /\ UNCHANGED gr /\ Other

ClrhashRest(p) ==
    /\ At(p, "reset")
    /\ LET full == th[p].n = 1
           limit == IF ht.fun.s = Unlimited THEN HighestLimit ELSE ht.fun.s
       IN  ht' = [ht EXCEPT !.count = IF full THEN 0 ELSE @,
                            !.smashed = <<>>,
                            !.idx = IF full /\ ~IsFlat THEN Zeros(Len(@)) ELSE @,
                            !.fun = IF full /\ ht.test = "equal"
                                    THEN [f |-> "sx", s |-> limit - ((limit + 3) \div 8), mc |-> InitialChain]
                                    ELSE @,
                            !.free = 1, !.kv.hwm = 0]
    /\ FinishClr(p)
    /\ UNCHANGED gr /\ Other

-----------------------------------------------------------------------------
(* The collector.                                                          *)

FlatGrowth(p) == (At(p, "grow") /\ IsFlat) \/ (gr.on /\ gr.flat)

Pinned == {th[p].k : p \in {q \in Threads : Busy(q) /\ ~At(q, "call") /\ ~FlatGrowth(q)}}

KeysOf(kv) == {kv.pair[i][1] : i \in 1..kv.hwm} \ {None}

\* SHOULD_REHASH: the key of pair i moved, and its address was its hash.
ShouldRehash(test, kv, hv, moved, i) ==
    /\ kv.pair[i][1] \in moved
    /\ CASE test = "eq"    -> TRUE
         [] test = "eql"   -> Kind[kv.pair[i][1]] = "ptr"
         [] test = "equal" -> hv[i] = Magic

\* The pair vector after its keys moved: the low bit of the stamp is set if
\* the chains no longer fit.
Scavenged(test, kv, hv, moved) ==
    IF /\ kv.addr \/ kv.weak
       /\ \E i \in 1..kv.hwm : ShouldRehash(test, kv, hv, moved, i)
       /\ ~Odd(kv.stamp)
    THEN [kv EXCEPT !.stamp = @ + 1] ELSE kv

\* CULL_WEAK_HASH_TABLE: along each chain, the pairs of dead keys are emptied
\* and listed.
RECURSIVE CullBucket(_, _, _, _)
CullBucket(t, dead, b, i) ==
    IF i = 0 THEN t
    ELSE CullBucket(IF t.kv.pair[i][1] \in dead
                    THEN [t EXCEPT !.kv.pair[i] = Empty, !.count = @ - 1,
                                   !.smashed = <<<<i, b>>>> \o @]
                    ELSE t, dead, b, t.nxt[i])

RECURSIVE CullFrom(_, _, _)
CullFrom(t, dead, b) ==
    IF b > Len(t.idx) THEN t ELSE CullFrom(CullBucket(t, dead, b, t.idx[b]), dead, b + 1)

Collect(place) ==
    /\ gcs > 0
    /\ LET to == [k \in Key |-> IF k \in Pinned THEN addr[k] ELSE place[k]]
           moved == {k \in Key : to[k] # addr[k] /\ Kind[k] # "imm"}
           strong == (IF ht.kv.weak THEN {} ELSE KeysOf(ht.kv))
                     \cup (IF ~gr.on THEN {} ELSE KeysOf(gr.kv))
           dead == IF ht.kv.weak THEN Key \ (roots \cup Pinned \cup strong) ELSE {}
           t == CullFrom(ht, dead, 1)
       IN  /\ \A a, b \in Key : a # b => to[a] # to[b]
           /\ addr' = to
           /\ ht' = [t EXCEPT !.kv = Scavenged(ht.test, @, ht.hv, moved)]
           /\ gr' = IF ~gr.on THEN gr
                    ELSE [gr EXCEPT !.kv = Scavenged(ht.test, @, gr.hv, moved)]
           /\ map' = [k \in Key |-> IF k \in KeysOf(ht.kv) \ KeysOf(t.kv) THEN Absent ELSE map[k]]
    /\ gcs' = gcs - 1
    /\ UNCHANGED <<th, script, roots, reads>>

-----------------------------------------------------------------------------
Step(p) ==
    \/ Begin(p)
    \/ GethashFlat(p) \/ PuthashFlat(p) \/ RemhashFlat(p)
    \/ Gethash(p) \/ ReadStamp(p) \/ ReadIndex(p) \/ Probe(p) \/ Miss(p)
    \/ RehashCas(p) \/ RehashFill(p) \/ RehashPush(p) \/ RehashDone(p)
    \/ Puthash(p) \/ PuthashSearch(p)
    \/ FallBackAndRehash(p) \/ RaiseLimit(p) \/ DoubleLimit(p) \/ RaisePush(p) \/ RaiseDone(p)
    \/ InsertSlot(p) \/ InsertLink(p) \/ InsertStore(p)
    \/ Remhash(p) \/ RemhashSearch(p)
    \/ Grow(p) \/ GrowDescribe(p) \/ GrowCopy(p) \/ GrowCheck(p) \/ GrowDetach(p)
    \/ RehashPair(p) \/ RehashEnd(p) \/ GrowInstall(p)
    \/ WeakCall(p) \/ FindhashWeak(p) \/ FindhashWeakRehash(p) \/ FindhashWeakAgain(p)
    \/ GethashWeak(p) \/ PuthashWeak(p) \/ RemhashWeak(p)
    \/ Clrhash(p) \/ ClrhashStamp(p) \/ ClrhashPairs(p) \/ ClrhashRest(p)

Next ==
    \/ \E p \in Threads : Step(p)
    \/ \E place \in Placements : Collect(place)

Spec == Init /\ [][Next]_vars /\ \A p \in Threads : WF_vars(Step(p))

-----------------------------------------------------------------------------
(* Properties.                                                             *)

\* Every operation returns what it should: GETHASH and REMHASH find exactly
\* the keys that were put and not removed since, with their last values,
\* wherever the collector has moved them and whoever rebuilds the chains
\* meanwhile.
AnswersAreTrue == \A p \in Threads : At(p, "done") => th[p].ret = th[p].want

InChain(t, i, b) == FirstIn(ChainFrom(t.nxt, t.idx[b]), LAMBDA x : x = i) # 0

RECURSIVE FreeChain(_, _)
FreeChain(t, i) == IF i = 0 \/ i > t.kv.hwm THEN {} ELSE {i} \cup FreeChain(t, t.nxt[i])

Quiet == \A p \in Threads : ~Busy(p)

\* Between operations the vectors fit together: each pair hangs in one chain,
\* and in the one where its key is looked for unless the stamp says that keys
\* have moved; the free pairs are the empty ones; the count is right; and the
\* pairs are those that were put.  A weak vector's pairs are in chains at all
\* times, for the collector finds them there.  A table that is not weak grows
\* only when every pair is used, and to a size that is one.
TableIsSound ==
    LET t == ht
        full == {i \in 1..t.kv.hwm : t.kv.pair[i][1] # None}
    IN  /\ Quiet =>
            /\ t.count = Cardinality(full)
            /\ \A k \in Key : map[k] =
                 LET i == {x \in full : Same(t.test, k, t.kv.pair[x][1])}
                 IN  IF i = {} THEN Absent ELSE t.kv.pair[CHOOSE x \in i : TRUE][2]
            /\ ~IsFlat =>
                 /\ \A i \in full : \E b \in DOMAIN t.idx :
                       /\ InChain(t, i, b)
                       /\ \A c \in DOMAIN t.idx : InChain(t, i, c) => c = b
                       /\ \/ b = MaskHash(PairHash(t, t.hv, t.kv, i), t.idx)
                          \/ Odd(t.kv.stamp) /\ AddressBased(t.test, t.kv.pair[i][1])
                 /\ ~t.weak => FreeChain(t, t.free) = (1..t.kv.hwm) \ full
                 /\ FreeChain(t, t.free) \cap full = {}
        /\ t.kv.weak => \A i \in full : \E b \in DOMAIN t.idx : InChain(t, i, b)
        /\ ~t.weak => \A p \in Threads : ~At(p, "wild")

\* The operation is over, or has come upon a corrupt table.
Returned(p) == ~Busy(p) \/ th[p].pc \in {"corrupt", "wild"}

\* A table that grows while it holds nothing is a new one, whose cache holds
\* the size it was made for, negated.
EmptyMeansNew == \A p \in Threads : At(p, "grow") /\ ht.count = 0 => ht.cache < 0
=============================================================================
