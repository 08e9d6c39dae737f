------------------------------- MODULE MCArena -------------------------------
(* Budgets for allocation: threads share the heap, or the arena, or one thread has the *)
(* arena to itself and is refused more memory.  With MCDenial two threads share *)
(* the arena, and its default handler refuses one of them.                              *)
EXTENDS Arena, TLC
CONSTANTS t1, t2
Both(x, y) == t1 :> x @@ t2 :> y
HeapBudget   == [heap |-> Both(2, 2), arena |-> Both(0, 0), answers |-> {}]
ArenaBudget  == [heap |-> Both(0, 0), arena |-> Both(3, 3), answers |-> {"allow", "throw"}]
RefuseBudget == [heap |-> Both(1, 0), arena |-> Both(4, 0), answers |-> {"default"}]
DenialBudget == [heap |-> Both(0, 0), arena |-> Both(3, 3), answers |-> {"default"}]
MCBudgets == {HeapBudget, ArenaBudget, RefuseBudget}
MCDenial == {DenialBudget}
=============================================================================
