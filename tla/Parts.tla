--------------------------------- MODULE Parts ---------------------------------
(***************************************************************************)
(* What the components that do not interact but through the request engine *)
(* have in common: a behaviour is one of one of them, "part", with its     *)
(* host, its board and its wire.                                           *)
(***************************************************************************)
EXTENDS Integers

CONSTANTS
  Threads,   \* of the host that use the component
  Sessions,  \* bound of the models: connections of one link
  Faults     \* bound of the models: what goes wrong

ASSUME PartsAssumption == Sessions \in Nat /\ Faults \in Nat

VARIABLES
  part,    \* the component
  host,    \* its state on the host
  board,   \* at the other end
  wire     \* on the way, and the bounds

Parted == <<part, host, board, wire>>
=============================================================================
