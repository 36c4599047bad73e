------------------------------- MODULE BoardSet -------------------------------
(***************************************************************************)
(* Bridge.all(): every matching board as one BridgeSet                     *)
(* (python/espbridge/bridge.py), with the boards that dial home through    *)
(* TcpListener (transports/tcp.py).  The constructor's thread enumerates   *)
(* and opens; with wifi=True a second thread then accepts boards for as    *)
(* long as the set is open, and close_all() may run beside it.             *)
(*                                                                         *)
(* A link is a connection between a board and the host; a board dials in   *)
(* anew whenever it finds itself without one.                              *)
(***************************************************************************)
EXTENDS Naturals, Sequences, FiniteSets, SequencesExt

CONSTANTS
  Boards,
  MaxLinks   \* bound of the model: connections made, enumerated or dialled

VARIABLES
  host,    \* the set, its listener, and its two threads: main and accept
  board,   \* every link so far: its board, up, open on the host, known dead
  wire     \* what is enumerated and still to be tried, and the listener's backlog

vars == <<host, board, wire>>

Links   == DOMAIN board
Members == ToSet(host.list)
NoLink  == 0

MainPCs   == {"enumerate", "open", "adopt", "drop", "judge", "using",
              "closing", "closed", "raised", "escaped"}
AcceptPCs == {"none", "idle", "open", "adopt", "drop", "exited", "died"}
Link == [board : Boards, up : BOOLEAN, open : BOOLEAN, dead : BOOLEAN]

TypeOK ==
  /\ board \in Seq(Link)
  /\ host.list \in Seq(Links) /\ host.stale \subseteq Links
  /\ host.main \in MainPCs /\ host.accept \in AcceptPCs
  /\ host.hand \in Links \cup {NoLink} /\ host.at \in 1 .. MaxLinks + 1
  /\ host.listening \in BOOLEAN /\ host.wifi \in BOOLEAN /\ host.overlap \in BOOLEAN
  /\ wire.backlog \in Seq(Links)

NewLink(b) == [board |-> b, up |-> TRUE, open |-> FALSE, dead |-> FALSE]

Init ==
  /\ \E wifi \in BOOLEAN, want \in SUBSET Boards :
       host = [list |-> <<>>, stale |-> {}, hand |-> NoLink, at |-> 1, wifi |-> wifi,
               want |-> want, main |-> "enumerate", accept |-> "none",
               listening |-> FALSE, overlap |-> FALSE]
  /\ board = <<>>
  \* Candidates, best link first; a wireless one names its board.
  /\ \E n \in 0 .. 2 : \E c \in [1 .. n -> [board : Boards, named : BOOLEAN]] :
       wire = [candidates |-> c, backlog |-> <<>>]

\* close() of these links, which their boards notice.
Closed(links) == [l \in Links |-> IF l \in links
                                  THEN [board[l] EXCEPT !.open = FALSE, !.up = FALSE]
                                  ELSE board[l]]
\* is_alive() of a member: closed by us, or known dead.
Alive(l) == board[l].open /\ ~board[l].dead
Holds(b) == \E l \in Members : board[l].board = b

----------------------------------------------------------------------------
(* Enumerating: _connect_many's loop over _candidates() *)

\* A candidate whose advertisement names a board we hold is not opened.
Candidate ==
  /\ host.main = "enumerate" /\ wire.candidates # <<>>
  /\ LET c == Head(wire.candidates) IN
     /\ wire' = [wire EXCEPT !.candidates = Tail(@)]
     /\ \/ /\ c.named /\ Holds(c.board)
           /\ UNCHANGED <<host, board>>
        \/ /\ ~(c.named /\ Holds(c.board)) /\ Len(board) < MaxLinks
           /\ board' = Append(board, [NewLink(c.board) EXCEPT !.open = TRUE])
           /\ host' = [host EXCEPT !.main = "open", !.hand = Len(board) + 1]

\* Bridge(transport=...) handshakes, or raises and has closed its link: a BridgeError is
\* noted, as for a board that was not asked for; what the driver raises by itself, an
\* OSError or a SerialException, leaves Bridge.all(), and no set is returned.
MainOpen ==
  /\ host.main = "open"
  /\ \/ /\ board[host.hand].up
        /\ host.want = {} \/ board[host.hand].board \in host.want
        /\ host' = [host EXCEPT !.main = "adopt"]
        /\ UNCHANGED board
     \/ /\ \E after \in {"enumerate", "escaped"} :
             host' = [host EXCEPT !.main = after, !.hand = NoLink]
        /\ board' = Closed({host.hand})
  /\ UNCHANGED wire

\* All candidates tried: a set of boards that were named must be complete, any other
\* not empty; with wifi=True the rest may still dial in, if the listener can bind its port.
Judge ==
  /\ host.main = "enumerate" /\ wire.candidates = <<>>
  /\ IF host.wifi
     THEN \/ host' = [host EXCEPT !.main = "using", !.accept = "idle", !.listening = TRUE]
          \/ host' = [host EXCEPT !.main = "escaped"]
     ELSE IF host.list = <<>> \/ \E b \in host.want : ~Holds(b)
     THEN host' = [host EXCEPT !.main = "judge"]
     ELSE host' = [host EXCEPT !.main = "using"]
  /\ UNCHANGED <<board, wire>>

\* The set is incomplete: close_all() and raise.
GiveUp ==
  /\ host.main = "judge"
  /\ host' = [host EXCEPT !.main = "raised"]
  /\ board' = Closed(Members)
  /\ UNCHANGED wire

----------------------------------------------------------------------------
(* adopt(): by the main thread while enumerating, by the accept thread after *)

Adopter == IF host.main \in {"adopt", "drop"} THEN "main" ELSE "accept"
Incoming == Adopter = "accept"
At(pc) == host[Adopter] = pc
Go(pc) == [host EXCEPT ![Adopter] = pc]

\* What makes room: links that died, and for a board that dials in its older one.
Stale ==
  {l \in Members : \/ ~Alive(l)
                   \/ Incoming /\ board[l].board = board[host.hand].board}

Adopt ==
  /\ At("adopt")
  /\ host' = [Go("drop") EXCEPT !.stale = Stale]
  /\ UNCHANGED <<board, wire>>

\* stale.close(), out.remove(stale)
DropStale ==
  /\ At("drop")
  /\ \E i \in DOMAIN host.list :
       LET l == host.list[i] IN
       /\ l \in host.stale
       /\ host' = [host EXCEPT !.stale = @ \ {l}, !.list = RemoveAt(@, i)]
       /\ board' = Closed({l})
  /\ UNCHANGED wire

\* Deliberately wrong (mutation of Keep): every newcomer is added.
KeepAlways ==
  /\ At("drop") /\ host.stale = {}
  /\ LET back == IF Incoming THEN "idle" ELSE "enumerate" IN
     host' = [Go(back) EXCEPT !.hand = NoLink, !.list = Append(@, host.hand)]
  /\ UNCHANGED <<board, wire>>

\* A board that is held on a preferred link loses the newcomer; any other joins.
Keep ==
  /\ At("drop") /\ host.stale = {}
  /\ LET back == IF Incoming THEN "idle" ELSE "enumerate" IN
     IF Holds(board[host.hand].board)
     THEN /\ host' = [Go(back) EXCEPT !.hand = NoLink]
          /\ board' = Closed({host.hand})
     ELSE /\ host' = [Go(back) EXCEPT !.hand = NoLink, !.list = Append(@, host.hand)]
          /\ UNCHANGED board
  /\ UNCHANGED wire

----------------------------------------------------------------------------
(* The accept loop *)

\* TcpListener.accept(): a connection that is gone already makes getpeername() raise,
\* outside of every try.
Accept ==
  /\ host.accept = "idle" /\ host.listening /\ wire.backlog # <<>>
  /\ LET l == Head(wire.backlog) IN
     /\ wire' = [wire EXCEPT !.backlog = Tail(@)]
     /\ \/ /\ host' = [host EXCEPT !.accept = "open", !.hand = l]
           /\ board' = [board EXCEPT ![l].open = TRUE]
        \/ /\ ~board[l].up
           /\ host' = [host EXCEPT !.accept = "died"]
           /\ UNCHANGED board

\* Deliberately wrong (mutation of AcceptOpen): a rejected link is left open.
AcceptOpenLeaks ==
  /\ host.accept = "open"
  /\ \/ /\ board[host.hand].up
        /\ host' = [host EXCEPT !.accept = "adopt"]
     \/ host' = [host EXCEPT !.accept = "idle", !.hand = NoLink]
  /\ UNCHANGED <<board, wire>>

\* Bridge(transport=...): opened; rejected with a BridgeError, and closed; or the
\* link breaks under a write, whose OSError leaves the loop.
AcceptOpen ==
  /\ host.accept = "open"
  /\ \/ /\ board[host.hand].up
        /\ host.want = {} \/ board[host.hand].board \in host.want
        /\ host' = [host EXCEPT !.accept = "adopt"]
        /\ UNCHANGED board
     \/ /\ host' = [host EXCEPT !.accept = "idle", !.hand = NoLink]
        /\ board' = Closed({host.hand})
     \/ /\ ~board[host.hand].up
        /\ host' = [host EXCEPT !.accept = "died", !.hand = NoLink]
        /\ board' = Closed({host.hand})
  /\ UNCHANGED wire

\* accept() timed out, or its socket is closed; the loop looks at the flag.
AcceptExit ==
  /\ host.accept = "idle" /\ ~host.listening
  /\ host' = [host EXCEPT !.accept = "exited"]
  /\ UNCHANGED <<board, wire>>

----------------------------------------------------------------------------
(* close_all(), by the user of the set *)

Busy == host.accept \in {"open", "adopt", "drop"}

\* The listener's socket first; connections not accepted are refused.
CloseListener ==
  /\ host.main = "using"
  /\ host' = [host EXCEPT !.main = "closing", !.listening = FALSE, !.at = 1,
                          !.overlap = Busy]
  /\ board' = [l \in Links |-> IF l \in ToSet(wire.backlog)
                               THEN [board[l] EXCEPT !.up = FALSE] ELSE board[l]]
  /\ wire' = [wire EXCEPT !.backlog = <<>>]

\* for b in self: b.close(), by position, whatever happens to the list meanwhile.
CloseNext ==
  /\ host.main = "closing"
  /\ IF host.at <= Len(host.list)
     THEN /\ board' = Closed({host.list[host.at]})
          /\ host' = [host EXCEPT !.at = @ + 1]
     ELSE /\ host' = [host EXCEPT !.main = "closed"]
          /\ UNCHANGED board
  /\ UNCHANGED wire

----------------------------------------------------------------------------
(* Boards and the network *)

\* A board without a connection of its own dials home.
Dial(b) ==
  /\ host.listening /\ Len(board) < MaxLinks
  /\ ~\E l \in Links : board[l].board = b /\ board[l].up
  /\ board' = Append(board, NewLink(b))
  /\ wire' = [wire EXCEPT !.backlog = Append(@, Len(board) + 1)]
  /\ UNCHANGED host

LinkDrops(l) ==
  /\ board[l].up /\ host.main # "closed"
  /\ board' = [board EXCEPT ![l].up = FALSE]
  /\ UNCHANGED <<host, wire>>

\* A request on a member timed out and so did its confirming ping.
Notice(l) ==
  /\ l \in Members /\ board[l].open /\ ~board[l].up /\ ~board[l].dead
  /\ board' = [board EXCEPT ![l].dead = TRUE]
  /\ UNCHANGED <<host, wire>>

Quiet ==
  /\ host.main \in {"closed", "raised", "escaped"} \/ (host.main = "using" /\ Len(board) = MaxLinks)
  /\ ~Busy
  /\ UNCHANGED vars

AcceptStep == Accept \/ AcceptOpen \/ AcceptExit
                \/ (Incoming /\ (Adopt \/ DropStale \/ Keep))
MainStep == Candidate \/ MainOpen \/ Judge \/ GiveUp
              \/ (~Incoming /\ (Adopt \/ DropStale \/ Keep))

Next ==
  \/ MainStep \/ AcceptStep \/ CloseListener \/ CloseNext \/ Quiet
  \/ \E b \in Boards : Dial(b)
  \/ \E l \in Links : LinkDrops(l) \/ Notice(l)

----------------------------------------------------------------------------

(***************************************************************************)
(* A set holds a board once, on whichever links and however often it turns *)
(* up (adopt's "exactly one live link per MAC").                           *)
(***************************************************************************)
OneLinkPerBoard ==
  \A i, j \in DOMAIN host.list :
    board[host.list[i]].board = board[host.list[j]].board => i = j

(***************************************************************************)
(* A link that is open on the host is a member of the set or in the hands  *)
(* of the thread that is opening it: what was rejected, redundant or stale *)
(* is closed.  A set that is closed, and one that is given up because it   *)
(* is incomplete, has no open link, unless a board was being accepted when *)
(* close_all() began.  It says nothing of a search that an exception has   *)
(* left, one that is no BridgeError or a port that cannot be bound: the    *)
(* members found so far stay open, and nobody has the set (RaisesClean).   *)
(***************************************************************************)
NothingLeaks ==
  \A l \in Links : board[l].open =>
    /\ l \in Members \/ l = host.hand
    /\ host.main \in {"closed", "raised"} => host.overlap

(***************************************************************************)
(* A Bridge.all() that raises leaves no board open.  It does not hold of   *)
(* what escapes from _connect_many (bridge.py:1357-1365, 1388).            *)
(***************************************************************************)
RaisesClean ==
  host.main \in {"raised", "escaped"} => \A l \in Links : ~board[l].open

(***************************************************************************)
(* The set collects boards that dial home "for as long as it stays open"   *)
(* (bridge.py:399).                                                        *)
(***************************************************************************)
KeepsCollecting == host.listening => host.accept # "died"
=============================================================================
