---------------------------- MODULE PriorityQueue ----------------------------
(***************************************************************************)
(* The priority queue of the timers (src/code/timer.lisp): a binary heap   *)
(* in an adjustable vector, least key first.  Positions are those of the   *)
(* vector, from 0; a heap is a sequence of items, Key gives their keys.    *)
(***************************************************************************)
EXTENDS Integers, Sequences, SequencesExt

At(heap, i)     == heap[i + 1]
Put(heap, i, x) == [heap EXCEPT ![i + 1] = x]

heap_parent(i) == (i - 1) \div 2
heap_left(i)   == 2 * i + 1
heap_right(i)  == 2 * i + 2

RECURSIVE heapify(_, _, _)
heapify(heap, start, Key) ==
  LET size == Len(heap)
      better(i, j) == i < size /\ Key[At(heap, i)] < Key[At(heap, j)]
      l == IF better(heap_left(start), start) THEN heap_left(start) ELSE start
      largest == IF better(heap_right(start), l) THEN heap_right(start) ELSE l
  IN IF largest = start THEN heap
     ELSE heapify(Put(Put(heap, largest, At(heap, start)), start, At(heap, largest)), largest, Key)

\* The new item rises past its parents; pos is where it comes to rest.
RECURSIVE Rise(_, _, _, _)
Rise(heap, i, item, Key) ==
  IF i > 0 /\ Key[At(heap, heap_parent(i))] > Key[item]
  THEN Rise(Put(heap, i, At(heap, heap_parent(i))), heap_parent(i), item, Key)
  ELSE [heap |-> Put(heap, i, item), pos |-> i]

heap_insert(heap, item, Key) == Rise(Append(heap, item), Len(heap), item, Key)

\* The last item takes the place of the one removed.
heap_extract(heap, i, Key) ==
  LET rest == Front(Put(heap, i, Last(heap)))
  IN IF i < Len(rest) THEN heapify(rest, i, Key) ELSE rest

priority_queue_maximum(heap) == At(heap, 0)

Position(heap, item) == (CHOOSE i \in 1 .. Len(heap) : heap[i] = item) - 1
priority_queue_remove(heap, item, Key) ==
  IF Contains(heap, item) THEN heap_extract(heap, Position(heap, item), Key) ELSE heap
=============================================================================
