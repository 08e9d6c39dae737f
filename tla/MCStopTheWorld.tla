---------------------------- MODULE MCStopTheWorld ----------------------------
(* Three threads and the signals that stop the world. *)
EXTENDS StopTheWorld, TLC

Symmetry == Permutations(Busy) \cup Permutations(Threads \ Busy)

\* Also from a thread that is alone in Lisp and inside a WITHOUT-GCING.
ThreeInit == Init \/ \E t \in Threads : InitInside({t}) /\ linked = {t}
ThreeSpec == ThreeInit /\ [][Next]_vars
=============================================================================
