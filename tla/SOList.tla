---- MODULE SOList ----
(* The lock-free hash table of src/code/solist.lisp: a single list, kept in    *)
(* the order of the hashes by the algorithm of target-lflist.lisp, and a       *)
(* vector of bins that point to dummy nodes in the list.  No operation takes a *)
(* lock: INSERT, DELETE and FIND of several threads, the lazy initialisation   *)
(* of bins, the doubling of the vector and a collector that deletes nodes      *)
(* behind everybody's back are interleaved at every read and compare-and-swap  *)
(* of shared memory.                                                           *)
EXTENDS Integers, Sequences, FiniteSets, TLC

CONSTANTS Threads,      \* the threads that call the table
          Keys,         \* the keys: integers, their order breaks hash ties
          HashOf,       \* HashOf[k]: the hash of a key before masking
          HashBits,     \* +hash-nbits+
          EltsPerBin,   \* so-elts-per-bin
          Initial,      \* the keys in the table at the start, all in bin 0
          Scripts,      \* the call sequences, [Threads -> Seq(calls)]
          MaxCollected  \* how many nodes the collector may delete

SOListAssumption ==
    /\ Keys \subseteq Nat /\ Initial \subseteq Keys
    /\ HashBits \in Nat \ {0, 1} /\ EltsPerBin \in Nat \ {0}
    /\ HashOf \in [Keys -> 0 .. 2 ^ HashBits - 1]
    /\ \A k \in Initial : HashOf[k] < 2 ^ (HashBits - 1)

VARIABLES node,       \* node[i]: a list node, i > 0; never reused
          vecs,       \* the bin vectors made so far; 0 is the unbound marker
          bins,       \* so-bins: which of them is current
          threshold,  \* so-threshold
          count,      \* so-count
          th,         \* th[t]: where a thread is, its registers
          script,     \* the calls still to make
          seen,       \* history: was its key present, while a thread's call ran
          collected   \* how many nodes the collector deleted

vars == <<node, vecs, bins, threshold, count, th, script, seen, collected>>

\* +tail+: the end of every list, never marked.
TailAtom == 0
Unbound == 0
NoKey == -1
masked_hash(h) == IF h % 2 = 1 THEN h ELSE h + 1
dummy_node_p(n) == node[n].hash % 2 = 0
node_markedp(n) == n /= TailAtom /\ node[n].mark
bin_shift(v) == vecs[v].shift
NBins(v) == Len(vecs[v].bin)

\* The head of a new table is a dummy node; of two bins the first is known.
\* KeyChain lists the initial keys in the order of the list.
Before(k, l) == \/ masked_hash(HashOf[k]) < masked_hash(HashOf[l])
                \/ masked_hash(HashOf[k]) = masked_hash(HashOf[l]) /\ k < l
Rank(k) == 2 + Cardinality({l \in Initial : Before(l, k)})
make_so_list ==
    [i \in 1 .. 1 + Cardinality(Initial) |->
        [hash |-> IF i = 1 THEN 0
                  ELSE masked_hash(HashOf[CHOOSE k \in Initial : Rank(k) = i]),
         key  |-> IF i = 1 THEN NoKey ELSE CHOOSE k \in Initial : Rank(k) = i,
         next |-> IF i = 1 + Cardinality(Initial) THEN TailAtom ELSE i + 1,
         mark |-> FALSE]]

Quiet == [pc |-> "idle", op |-> "none", key |-> NoKey, res |-> FALSE,
          vec |-> 0, idx |-> 0, start |-> 0, hash |-> 0, ret |-> "none",
          left |-> 0, lnext |-> 0, this |-> 0, next |-> 0, new |-> 0, old |-> 0]

Init0 == /\ node = make_so_list
            /\ vecs = <<[bin |-> <<1, 0>>, shift |-> HashBits - 1]>>
            /\ bins = 1
            /\ threshold = 2 * EltsPerBin
            /\ count = Cardinality(Initial)
            /\ th = [t \in Threads |-> Quiet]
            /\ seen = [t \in Threads |-> {}]
            /\ collected = 0
Init == Init0 /\ script \in Scripts

(* What the table holds: the unmarked nodes that the head reaches.             *)
Chain[n \in Nat] == IF n = TailAtom THEN <<>> ELSE <<n>> \o Chain[node[n].next]
Live == {n \in {Chain[1][i] : i \in DOMAIN Chain[1]} : ~node[n].mark}
Present == {node[n].key : n \in Live} \ {NoKey}

\* Registers of t that change; history of the presence of the keys in calls.
Set(t, f) == th' = [th EXCEPT ![t] = f @@ @]
Goto(t, pc) == Set(t, [pc |-> pc])
Watch == seen' = [u \in Threads |->
            IF th'[u].pc = "idle" THEN seen[u]
            ELSE seen[u] \cup {(th'[u].key \in Present), (th'[u].key \in Present')}]
Table == <<vecs, bins, threshold, count>>
Rest == <<script, collected>>

(* WITH-BIN: hash the key, take the current vector, then look at its bin.  An  *)
(* unbound bin is initialised first.                                           *)
Call(t) ==
    /\ th[t].pc = "idle" /\ script[t] /= <<>>
    /\ LET k == Head(script[t])[2]
           h == masked_hash(HashOf[k])
       IN th' = [th EXCEPT ![t] = [Quiet EXCEPT !.pc = "read_bin",
                    !.op = Head(script[t])[1], !.key = k, !.hash = h,
                    !.vec = bins, !.idx = h \div 2 ^ bin_shift(bins)]]
    /\ script' = [script EXCEPT ![t] = Tail(@)]
    /\ UNCHANGED <<node, Table, collected>>

ReadBin(t) ==
    /\ th[t].pc = "read_bin"
    /\ LET b == vecs[th[t].vec].bin[th[t].idx + 1]
       IN IF b = Unbound THEN Goto(t, "initialize_bin")
          ELSE Set(t, [pc |-> "search", start |-> b, ret |-> th[t].op])
    /\ UNCHANGED <<node, Table, Rest>>

\* INITIALIZE-BIN starts from the nearest bin to the left that is bound.
InitializeBin(t) ==
    /\ th[t].pc = "initialize_bin"
    /\ LET v == vecs[th[t].vec].bin
           left == {i \in 1 .. th[t].idx : v[i] /= Unbound}
           near == CHOOSE i \in left : \A j \in left : j <= i
       IN Set(t, [pc |-> "search", start |-> v[near], ret |-> "dummy",
                  hash |-> th[t].idx * 2 ^ bin_shift(th[t].vec)])
    /\ UNCHANGED <<node, Table, Rest>>

(* LFL-SEARCH: walk from the start, over nodes whose key is less, to a LEFT    *)
(* node that is less and the first unmarked node THIS that is not, and unlink  *)
(* the marked nodes between them.  The search for a dummy node compares hashes *)
(* only; the others break ties by the key.                                     *)
Less(t, n) ==
    \/ node[n].hash < th[t].hash
    \/ th[t].ret /= "dummy" /\ node[n].hash = th[t].hash /\ node[n].key < th[t].key

Search(t) ==
    /\ th[t].pc = "search"
    /\ LET nx == node[th[t].start].next
       IN Set(t, [pc |-> "end_test", left |-> th[t].start, lnext |-> nx, next |-> nx])
    /\ UNCHANGED <<node, Table, Rest>>

EndTest(t) ==
    /\ th[t].pc = "end_test"
    /\ LET this == th[t].next IN
       IF this = TailAtom THEN Set(t, [pc |-> "adjacent", this |-> this])
       ELSE LET nx == node[this].next IN
            IF node[this].mark THEN Set(t, [next |-> nx])
            ELSE IF Less(t, this) THEN Set(t, [left |-> this, lnext |-> nx, next |-> nx])
            ELSE Set(t, [pc |-> "adjacent", this |-> this])
    /\ UNCHANGED <<node, Table, Rest>>

Adjacent(t) ==
    /\ th[t].pc = "adjacent"
    /\ Goto(t, IF th[t].lnext /= th[t].this THEN "unlink"
               ELSE IF node_markedp(th[t].this) THEN "search" ELSE th[t].ret)
    /\ UNCHANGED <<node, Table, Rest>>

\* Mutant: the compare-and-swap does not tell a marked successor.
CasUnmarked(n, old) == node[n].next = old
\* (cas (%node-next n) old new): a marked successor equals no unmarked one.
Cas(n, old) == node[n].next = old /\ ~node[n].mark

Unlink(t) ==
    /\ th[t].pc = "unlink"
    /\ IF Cas(th[t].left, th[t].lnext)
       THEN /\ node' = [node EXCEPT ![th[t].left].next = th[t].this]
            /\ Goto(t, "recheck")
       ELSE Goto(t, "search") /\ UNCHANGED node
    /\ UNCHANGED <<Table, Rest>>

Recheck(t) ==
    /\ th[t].pc = "recheck"
    /\ Goto(t, IF node_markedp(th[t].this) THEN "search" ELSE th[t].ret)
    /\ UNCHANGED <<node, Table, Rest>>

\* A new node is private until the compare-and-swap links it before THIS.
Link(t, k, pc) ==
    IF Cas(th[t].left, th[t].this)
    THEN /\ node' = Append([node EXCEPT ![th[t].left].next = Len(node) + 1],
                           [hash |-> th[t].hash, key |-> k,
                            next |-> th[t].this, mark |-> FALSE])
         /\ Set(t, [pc |-> pc, new |-> Len(node) + 1])
    ELSE Goto(t, "search") /\ UNCHANGED node

InsertDummy(t) ==
    /\ th[t].pc = "dummy"
    /\ IF th[t].this /= TailAtom /\ node[th[t].this].hash = th[t].hash
       THEN Set(t, [pc |-> "set_bin", new |-> th[t].this]) /\ UNCHANGED node
       ELSE Link(t, NoKey, "set_bin")
    /\ UNCHANGED <<Table, Rest>>

\* The bin is set unless another thread was faster.
SetBin(t) ==
    /\ th[t].pc = "set_bin"
    /\ LET old == vecs[th[t].vec].bin[th[t].idx + 1] IN
       /\ vecs' = [vecs EXCEPT ![th[t].vec].bin[th[t].idx + 1] =
                                   IF old = Unbound THEN th[t].new ELSE old]
       /\ Set(t, [pc |-> "search", ret |-> th[t].op,
                  hash |-> masked_hash(HashOf[th[t].key]),
                  start |-> IF old = Unbound THEN th[t].new ELSE old])
    /\ UNCHANGED <<node, bins, threshold, count, Rest>>

Matches(t) == /\ th[t].this /= TailAtom
              /\ ~dummy_node_p(th[t].this)
              /\ node[th[t].this].key = th[t].key

Return(t, res) == Set(t, [pc |-> "idle", res |-> res])

(* SO-INSERT and the doubling of the bin vector.                               *)
Put(t) ==
    /\ th[t].pc = "insert"
    /\ IF Matches(t) THEN Return(t, TRUE) /\ UNCHANGED node
       ELSE Link(t, th[t].key, "incf")
    /\ UNCHANGED <<Table, Rest>>

Incf(t) ==
    /\ th[t].pc = "incf"
    /\ count' = count + 1
    /\ Set(t, [pc |-> "full", old |-> count])
    /\ UNCHANGED <<node, vecs, bins, threshold, Rest>>

Full(t) ==
    /\ th[t].pc = "full"
    /\ IF th[t].old > threshold THEN Goto(t, "expand") ELSE Return(t, FALSE)
    /\ UNCHANGED <<node, Table, Rest>>

NewThreshold(t) == 2 * NBins(th[t].vec) * EltsPerBin

Expand(t) ==
    /\ th[t].pc = "expand"
    /\ IF bin_shift(th[t].vec) = 1 \/ NewThreshold(t) <= threshold THEN Return(t, FALSE)
       ELSE Set(t, [pc |-> "cas_threshold", old |-> threshold])
    /\ UNCHANGED <<node, Table, Rest>>

CasThreshold(t) ==
    /\ th[t].pc = "cas_threshold"
    /\ IF threshold = th[t].old
       THEN threshold' = NewThreshold(t) /\ Goto(t, "copy")
       ELSE Return(t, FALSE) /\ UNCHANGED threshold
    /\ UNCHANGED <<node, vecs, bins, count, Rest>>

\* Bins initialised after the copy are found again through the list.
Copy(t) ==
    /\ th[t].pc = "copy"
    /\ LET v == vecs[th[t].vec] IN
       vecs' = Append(vecs, [shift |-> v.shift - 1,
                             bin |-> [i \in 1 .. 2 * Len(v.bin) |->
                                IF i % 2 = 1 THEN v.bin[(i + 1) \div 2] ELSE Unbound]])
    /\ Set(t, [pc |-> "cas_bins", new |-> Len(vecs) + 1])
    /\ UNCHANGED <<node, bins, threshold, count, Rest>>

CasBins(t) ==
    /\ th[t].pc = "cas_bins"
    /\ bins' = IF bins = th[t].vec THEN th[t].new ELSE bins
    /\ Return(t, FALSE)
    /\ UNCHANGED <<node, vecs, threshold, count, Rest>>

(* SO-DELETE: mark the node, then swing its predecessor.  The test is on the   *)
(* word that the second compare-and-swap found: when it is SUCC another thread *)
(* unlinked the node already, and whatever else it is, THIS included, one more *)
(* search follows.                                                             *)
ReadSucc(t) ==
    /\ th[t].pc = "delete"
    /\ IF ~Matches(t) THEN Return(t, FALSE)
       ELSE IF node_markedp(th[t].this) THEN Goto(t, "search")
       ELSE Set(t, [pc |-> "mark", next |-> node[th[t].this].next])
    /\ UNCHANGED <<node, Table, Rest>>

Mark(t) ==
    /\ th[t].pc = "mark"
    /\ IF Cas(th[t].this, th[t].next)
       THEN node' = [node EXCEPT ![th[t].this].mark = TRUE] /\ Goto(t, "swing")
       ELSE Goto(t, "search") /\ UNCHANGED node
    /\ UNCHANGED <<Table, Rest>>

Swing(t) ==
    /\ th[t].pc = "swing"
    /\ node' = IF Cas(th[t].left, th[t].this)
               THEN [node EXCEPT ![th[t].left].next = th[t].next] ELSE node
    /\ IF Cas(th[t].left, th[t].next) THEN Goto(t, "decf")
       ELSE Set(t, [pc |-> "search", ret |-> "decf"])
    /\ UNCHANGED <<Table, Rest>>

Decf(t) ==
    /\ th[t].pc = "decf"
    /\ count' = count - 1
    /\ Return(t, TRUE)
    /\ UNCHANGED <<node, vecs, bins, threshold, Rest>>

Find(t) ==
    /\ th[t].pc = "find"
    /\ Return(t, Matches(t))
    /\ UNCHANGED <<node, Table, Rest>>

(* A collection deletes the nodes whose key moved or died (scan_finalizers),   *)
(* while the threads stand wherever they are; their own keys are pinned.       *)
ScanDeletes(n) ==
    /\ collected < MaxCollected
    /\ n \in Live /\ ~dummy_node_p(n)
    /\ \A t \in Threads : th[t].pc = "idle" \/ th[t].key /= node[n].key
    /\ node' = [node EXCEPT ![n].mark = TRUE]
    /\ count' = count - 1
    /\ collected' = collected + 1
    /\ UNCHANGED <<vecs, bins, threshold, th, script>>

Step(t) == \/ ReadBin(t) \/ InitializeBin(t) \/ Search(t) \/ EndTest(t)
           \/ Adjacent(t) \/ Unlink(t) \/ Recheck(t) \/ InsertDummy(t)
           \/ SetBin(t) \/ Put(t) \/ Incf(t) \/ Full(t) \/ Expand(t)
           \/ CasThreshold(t) \/ Copy(t) \/ CasBins(t) \/ ReadSucc(t)
           \/ Mark(t) \/ Swing(t) \/ Decf(t) \/ Find(t)

Next == \/ \E t \in Threads : (Call(t) \/ Step(t)) /\ Watch
        \/ \E n \in DOMAIN node : ScanDeletes(n) /\ Watch

Fairness == \A t \in Threads : WF_vars((Call(t) \/ Step(t)) /\ Watch)
Spec == Init /\ [][Next]_vars /\ Fairness

-----------------------------------------------------------------------------
(* Properties.                                                                *)

\* A call that found its key (FIND, an INSERT of a key that existed) ran while
\* the key was there, and one that did not find it (FIND, DELETE) ran while it
\* was not: every answer was true at some moment of the call.
AnswersAreTrue ==
    \A t \in Threads :
        th[t].pc = "idle" /\ th[t].op /= "none" =>
            CASE th[t].op = "find"   -> th[t].res \in seen[t]
              [] th[t].op = "insert" -> th[t].res => TRUE \in seen[t]
              [] th[t].op = "delete" -> ~th[t].res => FALSE \in seen[t]

\* The keys change only by the one compare-and-swap that makes an INSERT or a
\* DELETE succeed, by that call's key, and each such success changes them; the
\* rest of every operation (helping, bins, doubling) changes no key.
ChangeIsCall ==
    LET adds == {t \in Threads : th[t].pc = "insert" /\ th'[t].pc = "incf"}
        dels == {t \in Threads : th[t].pc = "mark" /\ th'[t].pc = "swing"}
    IN /\ collected' = collected =>
             Present' = (Present \cup {th[t].key : t \in adds})
                           \ {th[t].key : t \in dels}
       /\ \A t \in adds : th[t].key \notin Present
       /\ \A t \in dels : th[t].key \in Present

\* The list is in the order of the hashes with keys as tiebreakers, each hash
\* has one dummy node, every bound bin of every vector names the dummy node of
\* its own hash, which is in the list, and the count is right up to the calls
\* that are between the list and the count.
TableIsSound ==
    LET c == Chain[1]
        after(pc) == Cardinality({t \in Threads : th[t].pc = pc})
        busy == {t \in Threads : th[t].op = "delete" /\
                    \/ th[t].pc \in {"swing", "decf"}
                    \/ th[t].pc /= "idle" /\ th[t].ret = "decf"}
    IN /\ \A i, j \in DOMAIN c : i < j =>
            \/ node[c[i]].hash < node[c[j]].hash
            \/ /\ node[c[i]].hash = node[c[j]].hash
               /\ ~dummy_node_p(c[i])
               /\ \/ node[c[i]].key < node[c[j]].key
                  \/ node[c[i]].key = node[c[j]].key
                     /\ (node[c[i]].mark \/ node[c[j]].mark)
       /\ \A v \in DOMAIN vecs : \A i \in DOMAIN vecs[v].bin :
            LET b == vecs[v].bin[i] IN
            b /= Unbound => /\ b \in Live
                            /\ dummy_node_p(b)
                            /\ node[b].hash = (i - 1) * 2 ^ vecs[v].shift
       /\ count = Cardinality(Present) - after("incf") + Cardinality(busy)

\* No thread retries for ever: every retry is paid for by a step of another
\* call, so all the calls return.
AllReturned == \A t \in Threads : th[t].pc = "idle" /\ script[t] = <<>>
=============================================================================
