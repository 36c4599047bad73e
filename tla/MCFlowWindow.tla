---------------------------- MODULE MCFlowWindow ----------------------------
(* Small instances of FlowWindow for TLC. *)
EXTENDS FlowWindow, TLC

CONSTANTS t1, t2, t3

\* Threads are interchangeable.
Symmetry == Permutations(Threads)
=============================================================================
