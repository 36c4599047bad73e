--------------------------- MODULE MCBridgeManager ---------------------------
(* Small instances of BridgeManager for TLC. *)
EXTENDS BridgeManager, TLC

CONSTANTS u1, u2

\* The application's threads are interchangeable.
Symmetry == Permutations(Users)
=============================================================================
