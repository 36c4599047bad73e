---------------------------- MODULE MCNetSockets ----------------------------
(* Small instances of NetSockets for TLC. *)
EXTENDS NetSockets

CONSTANTS o1, i1, i2

\* Peers are interchangeable.
Symmetry == Permutations(Incoming)
=============================================================================
