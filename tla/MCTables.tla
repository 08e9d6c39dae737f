------------------------------ MODULE MCTables ------------------------------
(* The two hash tables side by side: a behaviour is one of the chained table *)
(* (HashTable), of at least 2 pairs instead of 7 and flat up to 2 buckets,   *)
(* or of the split-ordered list (SOList).  The threads and their scripts are *)
(* shared variables; those of the other table keep the value Idle.           *)
EXTENDS HashTable

CONSTANT Idle
VARIABLES table, node, vecs, bins, threshold, count, seen, collected
chainedVars == <<ht, gr, addr, roots, map, reads, gcs>>
splitVars   == <<node, vecs, bins, threshold, count, seen, collected>>
allVars == <<table, vars, splitVars>>

MCKey == {"p1", "p2", "p3", "p4", "i1", "n1", "n2", "s1", "s2", "s3", "s4"}

MCKind == [k \in MCKey |->
    IF k \in {"p1", "p2", "p3", "p4"} THEN "ptr"
    ELSE IF k = "i1" THEN "imm" ELSE IF k \in {"n1", "n2"} THEN "num" ELSE "str"]

MCContent == [k \in MCKey |->
    CASE k = "i1" -> 6 [] k \in {"n1", "n2"} -> 5
      [] k = "s2" -> 2 [] k = "s3" -> 3 [] k = "s4" -> 4 [] OTHER -> 1]

\* The strings differ only in their fifth elements.
MCPrefix == [k \in MCKey |-> IF MCKind[k] = "str" THEN <<1, 4, 4, 4, 6 + MCContent[k]>>
                             ELSE <<MCContent[k]>>]

\* The objects lie side by side, or elsewhere, or so that those that were
\* told apart by their third bits no longer are.
Order == <<"p1", "p2", "p3", "p4", "n1", "n2", "i1", "s1", "s2", "s3", "s4">>
Nth(k) == CHOOSE n \in DOMAIN Order : Order[n] = k
Low  == [k \in MCKey |-> 4 * Nth(k) - 1]
High == [k \in MCKey |-> IF Nth(k) <= 4 THEN 39 + 8 * Nth(k) ELSE 163 + 4 * Nth(k)]
Clash == [k \in MCKey |-> IF Nth(k) <= 3 THEN 83 + 12 * Nth(k)
                          ELSE IF Nth(k) = 4 THEN 159 ELSE 195 + 4 * Nth(k)]
MCPlacements == {Low, High, Clash}

MCMid  == [w \in 0..255 |-> w \div 16]
MCSafe == [w \in 0..255 |-> w \div 4]
MCFlatLimit == [eq |-> 2, eql |-> 2]
MCMaxChain == [n \in 1..16 |-> IF n <= 4 THEN 2 ELSE 3]

\* 100 times b * exp(-n / b), for n keys in b buckets.
ExpectedEmpty(n, b) ==
    LET e == CASE b = 2 -> <<121, 74, 45, 27, 16>>
               [] b = 4 -> <<312, 243, 189, 147, 115>>
               [] OTHER -> <<706, 623, 550, 485, 428>>
    IN  e[n]
MCCrowded(n, b, c) == ExpectedEmpty(n, b) < 100 * (b - n) + 90 * (c - 1)

Table(test, weak, size, step) == [test |-> test, weak |-> weak, size |-> size, step |-> step]
Script(t, ops, keys, n) ==
    [table |-> t, ops |-> ops, addr |-> Low, reads |-> keys, gcs |-> n]
Put(k, v) == <<"put", k, v>>
Get(k) == <<"get", k, 0>>
Rem(k) == <<"rem", k, 0>>
Clr == <<"clr", None, 0>>
Drop(k) == <<"drop", k, 0>>

EqScripts == {
    Script(Table("eq", FALSE, 2, 1), <<Put("p1", 1), Put("p2", 1), Put("p3", 1), Put("p4", 2)>>, {}, 2),
    Script(Table("eq", FALSE, 2, 1), <<Put("p1", 1), Put("p2", 1), Put("p3", 1)>>, {"p1", "p4"}, 2),
    Script(Table("eq", FALSE, 2, 1), <<Put("p1", 1), Put("p2", 1), Put("p3", 1), Get("p4"), Put("p4", 1)>>, {}, 3),
    Script(Table("eq", FALSE, 2, 0),
           <<Put("p1", 1), Put("p2", 1), Get("p2"), Rem("p1"), Put("i1", 1), Put("p3", 1), Rem("p2"), Put("p3", 2)>>, {}, 2),
    Script(Table("eq", FALSE, 3, 1),
           <<Put("p1", 1), Put("p2", 1), Put("p3", 1), Rem("p2"), Rem("p4"), Get("p1"), Clr, Put("p2", 2)>>, {}, 2)}
EqlScripts == {
    Script(Table("eql", FALSE, 2, 1),
           <<Clr, Put("n1", 1), Put("p1", 1), Put("n2", 2), Put("p2", 1), Rem("n2"), Put("p1", 2)>>, {}, 2)}
EqualScripts == {
    Script(Table("equal", FALSE, 2, 2),
           <<Put("s1", 1), Put("s2", 1), Put("p1", 1), Put("p2", 1), Put("s3", 1)>>, {}, 0),
    Script(Table("equal", FALSE, 2, 2),
           <<Put("p1", 1), Put("s1", 1), Put("s2", 1), Put("s3", 1), Rem("s2"), Put("s1", 2)>>, {"s1"}, 1),
    Script(Table("equal", FALSE, 2, 2),
           <<Put("s1", 1), Put("s2", 1), Put("p1", 1), Rem("p1"), Put("s3", 1), Put("s4", 1), Clr, Put("s2", 2)>>, {}, 1),
    Script(Table("equal", FALSE, 2, 1), <<Put("p1", 1), Put("p2", 1), Put("p3", 1), Put("p4", 1)>>, {}, 2)}
WeakScripts == {
    Script(Table("eq", TRUE, 2, 1),
           <<Put("p1", 1), Put("p2", 1), Drop("p2"), Put("p3", 1), Put("p3", 2), Rem("p1"), Get("p3"), Clr, Put("p1", 2)>>, {}, 2),
    Script(Table("eq", TRUE, 2, 1),
           <<Put("p1", 1), Put("p2", 1), Drop("p1"), Drop("p2"), Put("p3", 1), Get("p3")>>, {}, 2)}
MCScripts == EqScripts \cup EqlScripts \cup EqualScripts \cup WeakScripts

-----------------------------------------------------------------------------
\* Keys 1, 2 and 5 of the split-ordered list: 1 and 2 have one hash, 5 another;
\* 3 and 4 share a bin until the vector has doubled.
SplitHash == (1 :> 2) @@ (2 :> 2) @@ (3 :> 4) @@ (4 :> 6) @@ (5 :> 0)
A == <<<<"insert", 4>>, <<"delete", 1>>>>
C == <<<<"insert", 3>>, <<"find", 4>>>>
D == <<<<"delete", 2>>, <<"insert", 3>>>>
SplitScripts == {s \in [Readers -> {A, C, D}] :
                    \E t, u \in Readers : t # u /\ <<s[t], s[u]>> \in {<<A, C>>, <<D, D>>}}

SO == INSTANCE SOList WITH Threads <- Readers, Keys <- 1 .. 5, HashOf <- SplitHash, HashBits <- 3,
                           EltsPerBin <- 1, Initial <- {1, 2, 5}, Scripts <- SplitScripts,
                           MaxCollected <- 1
ASSUME SplitParameters == SO!SOListAssumption

Chained(Act) == table = "chained" /\ Act /\ UNCHANGED <<table, splitVars>>
Split(Act) == table = "split-ordered" /\ Act /\ UNCHANGED <<table, chainedVars>>

TablesInit ==
    \/ /\ table = "chained" /\ Init
       /\ node = Idle /\ vecs = Idle /\ bins = Idle /\ threshold = Idle
       /\ count = Idle /\ seen = Idle /\ collected = Idle
    \/ /\ table = "split-ordered" /\ SO!Init
       /\ ht = Idle /\ gr = Idle /\ addr = Idle /\ roots = Idle
       /\ map = Idle /\ reads = Idle /\ gcs = Idle

TablesNext == Chained(Next) \/ Split(SO!Next)

\* The fairness of HashTable and of SOList: a thread that can go on does.
TablesSpec ==
    /\ TablesInit /\ [][TablesNext]_allVars
    /\ \A p \in Threads :
         WF_allVars(\/ Chained(Step(p))
                    \/ p \in Readers /\ Split((SO!Call(p) \/ SO!Step(p)) /\ SO!Watch))

-----------------------------------------------------------------------------
(* Properties: those of the module that runs.                               *)

\* Every lookup and every removal answers what was true: of a table with one
\* writer, what was put and not removed since, wherever the collector moved
\* the keys; of the list, what was the case at some moment of the call.
LookupsAreTrue ==
    /\ table = "chained" => AnswersAreTrue
    /\ table = "split-ordered" => SO!AnswersAreTrue

\* GROW-HASH-TABLE takes a table with no pairs for a new one (see EmptyMeansNew).
ChainedGrowsFromNew == table = "chained" => EmptyMeansNew

\* The tables fit together: every pair hangs where its key is looked for and
\* no free one does; the list is in order, each bin names its own dummy node,
\* and the counts are right.
TablesAreSound ==
    /\ table = "chained" => TableIsSound
    /\ table = "split-ordered" => SO!TableIsSound

\* The keys of the split-ordered list change only by the one compare-and-swap
\* that makes a call succeed; and every operation ends, whatever is rebuilt,
\* and however often other threads get in the way.
CallsTakeEffectOnce ==
    /\ [][table = "split-ordered" => SO!ChangeIsCall]_allVars
    /\ <>[](/\ table = "chained" => \A p \in Threads : Returned(p)
            /\ table = "split-ordered" => SO!AllReturned)
=============================================================================
