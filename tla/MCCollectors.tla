---------------------------- MODULE MCCollectors ----------------------------
(* The two collectors side by side: a behaviour is one of the copying        *)
(* collector (Gencgc) or of the mark-region collector (MarkRegion).          *)
(* Variables of the same name are shared; the exact roots and the finalizers *)
(* are own variables of Gencgc, NotUsed in a behaviour of MarkRegion.         *)
EXTENDS Gencgc

CONSTANT NotUsed
VARIABLE collector
allVars == <<collector, vars>>

\* The programs: what is allocated, stored, dropped and collected in which order.
CopyingScripts == {
  <<"inst", "inst", "gc1", "cons", "mark", "gc0", "store", "gc0">>,
  <<"cons", "gc1", "cons", "mark", "gc0", "store", "gc0">>,
  <<"vec", "gc1", "inst", "vec", "mark", "gc0", "store">>,
  <<"big", "gc1", "cons", "mark", "gc0", "store", "gc0">>,
  <<"cons", "vec", "junk", "gc0", "gc1">>,
  <<"big", "cons", "shrink", "push", "gc0", "gc2">>,
  <<"vec", "cons", "pin", "gc0", "gc1">>,
  <<"raw", "vec", "gc0", "gc1">>,
  <<"cons", "wp", "inst", "wp", "gc0", "drop", "gc1">>,
  <<"inst", "inst", "kv", "kv", "push", "gc0">>,
  <<"inst", "kv", "gc1", "cons", "mark", "store", "gc0">>,
  <<"inst", "cons", "finalize", "gc0", "rehash", "drop", "gc1">>
}
MarkingScripts == {
  <<"consY", "gc1", "consY", "markX", "gc0", "store", "gc0">>,
  <<"instY", "instX", "gc1", "consY", "markX", "gc0", "store", "gc0">>,
  <<"vecX", "gc1", "instY", "markX", "gc0", "store", "gc1">>,
  <<"bigX", "gc1", "consY", "markX", "gc0", "store", "gc0">>,
  <<"consX", "vecY", "junk", "gc0", "pop", "gc1">>,
  <<"vecX", "vecX", "vecY", "pushX", "gc0", "dropY", "gc1", "vecX", "gc2">>,
  <<"consY", "consX", "instY", "gc0", "gc1", "rawY", "gc2">>,
  <<"consY", "consX", "dropY", "pinX", "gc1", "consX", "gc2">>,
  <<"instY", "wpX", "gc0", "dropY", "gc1", "wpY", "gc2">>,
  <<"bigY", "consX", "dropY", "gc4", "instY", "gc1">>
}

MR == INSTANCE MarkRegion WITH NPages <- 9, LinesPerPage <- 4, LineWords <- 4, LargeWords <- 16,
                               CopyWords <- 24, Cells <- {"X", "Y"}, Scripts <- MarkingScripts
ASSUME MarkRegionParameters == MR!MarkRegionAssumption

Copying(A) == collector = "copying" /\ A /\ UNCHANGED collector
Marking(A) == collector = "mark-region" /\ A /\ UNCHANGED <<collector, roots, fins>>

CollectorsInit == \/ collector = "copying" /\ Init
                  \/ collector = "mark-region" /\ MR!Init /\ roots = NotUsed /\ fins = NotUsed
CollectorsNext == Copying(Next) \/ Marking(MR!Next)
CollectorsSpec == CollectorsInit /\ [][CollectorsNext]_allVars

-----------------------------------------------------------------------------
(* Properties: those of the module that runs.                               *)

\* The program never notices a collection: every pointer it holds or can
\* reach leads to the object it stored there, wherever that was moved to,
\* and an object that a stack word or a pin refers to has not moved.
GraphIsKept == IF collector = "copying" THEN HeapIsIntact ELSE MR!HeapIsIntact

\* An old object points to a younger one only where the next collection of
\* the young generation will look, also when a collection came between the
\* mark of its card and the store.
YoungIsRemembered == IF collector = "copying" THEN OldToYoungIsMarked ELSE MR!OldToYoungIsMarked

\* Between collections the tables agree with the heap: totals are sums, a
\* live object lies in used space, on lines of one generation, and can be
\* found from an address inside it.
BooksAreExact == IF collector = "copying" THEN TablesAreExact ELSE MR!LinesAreExact

\* Copying: a weak pointer is broken, a pair culled, a finalizer triggered
\* only when the object can no longer be reached.
WeakIsBroken == collector = "copying" => WeakMeansDead
=============================================================================
