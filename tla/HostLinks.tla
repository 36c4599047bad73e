------------------------------- MODULE HostLinks -------------------------------
(***************************************************************************)
(* How a program comes to its boards, and the layers that hold its links   *)
(* to them: which board Bridge() opens (BoardSearch), at which rate its    *)
(* serial link talks (BaudLadder), the Bluetooth transport (BlePipe), a    *)
(* set of boards (BoardSet), the asyncio wrapper (AsyncFacade) and the     *)
(* tools of the MCP server (McpTools).                                     *)
(***************************************************************************)
EXTENDS Parts

CONSTANTS
  Boot, Safe, Fast,  \* rates of a serial link, in rising order
  Boards,            \* the boards a search can find, by their MACs
  Names,             \* that a board can be given
  Pieces, Writes,    \* of BlePipe
  MaxLinks,          \* of BoardSet
  Tasks, Notices, StreamSize,  \* of AsyncFacade
  Desk, Opens, Uses  \* of McpTools; Opens of AsyncFacade, too

\* The rate of the serial link, from the boot rate up to the highest and back.
Baud == INSTANCE BaudLadder

\* A board among several, by its name, its address or any.
Search == INSTANCE BoardSearch

\* Threads that write over Bluetooth; besides a write that takes too long the link may drop.
Pipe == INSTANCE BlePipe WITH Frames <- Writes, Faults <- Faults + 1

\* Boards that dial home to a set that is being closed.
Set == INSTANCE BoardSet

\* Tasks that share one AsyncBridge, and a stream of its events.
Async == INSTANCE AsyncFacade WITH Events <- Notices, Size <- StreamSize

\* Threads that call the tools of one MCP server.
Mcp == INSTANCE McpTools WITH Boards <- Desk, Links <- Opens, Calls <- Uses

\* No rate is 0, which stands for none; no MAC or name is "nobody", and none is that
\* of the device which is no board.
ASSUME HostAssumption ==
  /\ {Boot, Safe, Fast} \subseteq Nat \ {0}
  /\ Search!Nobody \notin Boards \cup Names
  /\ Search!Stranger \notin Boards
  /\ {Pieces, Opens, StreamSize} \subseteq Nat \ {0} /\ {Writes, MaxLinks, Notices, Uses} \subseteq Nat
  /\ Mcp!Default \in Desk /\ 0 \notin Threads

HostInit ==
  \/ part = "baud" /\ Baud!Init
  \/ part = "search" /\ Search!Init
  \/ part = "pipe" /\ Pipe!Init
  \/ part = "set" /\ Set!Init
  \/ part = "async" /\ Async!Init
  \/ part = "mcp" /\ Mcp!Init

HostNext ==
  /\ UNCHANGED part
  /\ \/ part = "baud" /\ Baud!Next
     \/ part = "search" /\ Search!Next
     \/ part = "pipe" /\ Pipe!Next
     \/ part = "set" /\ Set!Next
     \/ part = "async" /\ Async!Next
     \/ part = "mcp" /\ Mcp!Next

HostSpec == HostInit /\ [][HostNext]_Parted

-----------------------------------------------------------------------------

(***************************************************************************)
(* Both ends of a serial link talk at one rate whenever the constructor,   *)
(* reset() or a reconnection has returned, and a board that was handed     *)
(* back is found at its boot rate by the next session.                     *)
(***************************************************************************)
OpensAtOneRate ==
  part = "baud" => Baud!RatesAgree /\ Baud!FoundAtBoot

(***************************************************************************)
(* A search ends with a board that was asked for, and does not give up     *)
(* while one that answers was there all along.                             *)
(***************************************************************************)
SearchIsRight ==
  part = "search" => Search!RightBoardOnly /\ Search!NobodyMissed

(***************************************************************************)
(* Links to boards: no two links of a set are to the same board and none   *)
(* is left open when the set is closed; a volume of the MCP server is      *)
(* mounted over the Bridge there is, and an AsyncBridge has one session.   *)
(* Frames of two threads do not mix, a transport that closes lets its      *)
(* reader go, and a stream keeps its order.                                *)
(***************************************************************************)
LinksAreSound ==
  /\ part = "set" => Set!OneLinkPerBoard /\ Set!NothingLeaks
  /\ part = "mcp" => Mcp!VolumeIsOfLink /\ Mcp!PortIsFound /\ Mcp!OneToolPerMethod
  /\ part = "async" => Async!OneSession /\ Async!StreamIsWhole
  /\ part = "pipe" => Pipe!FramesReachBoard /\ Pipe!ReaderIsReleased
=============================================================================
