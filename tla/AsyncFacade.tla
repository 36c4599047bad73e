----------------------------- MODULE AsyncFacade -----------------------------
(***************************************************************************)
(* AsyncBridge (python/espbridge/aio.py): coroutines around a Bridge whose *)
(* blocking calls run in worker threads, and streams of events that hop    *)
(* from the reader thread to the event loop.  Tasks take turns at an await *)
(* only; a cancelled task leaves its worker thread running.                *)
(***************************************************************************)
EXTENDS Naturals, Sequences, FiniteSets

CONSTANTS
  Tasks,   \* of the program's event loop
  Opens,   \* bound of the model: Bridges opened
  Events,  \* bound of the model: events of the board
  Size     \* maxsize of a stream

VARIABLES
  host,    \* the wrapper, the tasks, the workers, the stream
  board,   \* the sessions that are open, the events it has sent
  wire     \* callbacks handed to the event loop with call_soon_threadsafe()

vars == <<host, board, wire>>

Bridges == 1 .. Opens
None == 0
Idle == [op |-> "none", bridge |-> None, built |-> FALSE]

TypeOK ==
  /\ host.bridge \in {None} \cup Bridges /\ host.gpio \in {None} \cup Bridges
  /\ host.owned \in BOOLEAN
  /\ \A t \in Tasks : /\ host.task[t].op \in {"none", "connect", "close", "call"}
                      /\ host.task[t].bridge \in {None} \cup Bridges
  /\ host.orphans \subseteq Bridges
  /\ host.queue \in Seq(1 .. Events) /\ Len(host.queue) <= Size
  /\ board.open \subseteq Bridges /\ board.last \in 0 .. Events
  /\ wire \in Seq(1 .. Events)

\* AsyncBridge(...), or wrap() of a Bridge that somebody else has opened and will close.
Init ==
  \E owned \in BOOLEAN :
    /\ host = [bridge |-> IF owned THEN None ELSE 1, gpio |-> None, owned |-> owned,
               task |-> [t \in Tasks |-> Idle], orphans |-> {}, upset |-> FALSE,
               stale |-> FALSE,
               stream |-> None, since |-> 0, queue |-> <<>>, got |-> <<>>, dropped |-> {}]
    /\ board = [open |-> IF owned THEN {} ELSE {1}, opened |-> IF owned THEN 0 ELSE 1, last |-> 0]
    /\ wire = <<>>

Op(t) == host.task[t].op
Others(t) == {u \in Tasks \ {t} : Op(u) \in {"connect", "close"}}

----------------------------------------------------------------------------
(* connect(), close() *)

\* Deliberately wrong (mutation of Connect): a wrapper that is connected opens once more.
ConnectAgain(t) ==
  /\ Op(t) = "none" /\ host.owned /\ board.opened < Opens
  /\ host' = [host EXCEPT !.task[t] = [Idle EXCEPT !.op = "connect", !.bridge = board.opened + 1],
                       !.upset = @ \/ Others(t) # {}]
  /\ board' = [board EXCEPT !.opened = @ + 1]
  /\ UNCHANGED wire

\* if self._bridge is None: a worker thread builds the Bridge.
Connect(t) ==
  /\ Op(t) = "none" /\ host.bridge = None /\ board.opened < Opens
  /\ host' = [host EXCEPT !.task[t] = [Idle EXCEPT !.op = "connect", !.bridge = board.opened + 1],
                       !.upset = @ \/ Others(t) # {}]
  /\ board' = [board EXCEPT !.opened = @ + 1]
  /\ UNCHANGED wire

\* The worker's Bridge is there, whether or not its task still waits for it.
Built(b) ==
  /\ b \notin board.open
  /\ \/ \E t \in Tasks :
          /\ Op(t) = "connect" /\ host.task[t].bridge = b /\ ~host.task[t].built
          /\ host' = [host EXCEPT !.task[t].built = TRUE]
     \/ b \in host.orphans /\ host' = [host EXCEPT !.orphans = @ \ {b}]
  /\ board' = [board EXCEPT !.open = @ \cup {b}]
  /\ UNCHANGED wire

\* Whoever comes back last has its Bridge kept.
Connected(t) ==
  /\ Op(t) = "connect" /\ host.task[t].built
  /\ host' = [host EXCEPT !.task[t] = Idle, !.bridge = host.task[t].bridge]
  /\ UNCHANGED <<board, wire>>

\* The task is cancelled at the await; its Bridge, built or still to come, belongs to nobody.
Cancel(t) ==
  /\ Op(t) = "connect"
  /\ host' = [host EXCEPT !.task[t] = Idle, !.upset = TRUE,
                          !.orphans = IF host.task[t].built THEN @ ELSE @ \cup {host.task[t].bridge}]
  /\ UNCHANGED <<board, wire>>

\* Deliberately wrong (mutation of Closes): a shared Bridge is closed too.
ClosesAny == host.bridge # None

\* if self._bridge is not None and self._owned
Closes == host.bridge # None /\ host.owned

CloseCall(t) ==
  /\ Op(t) = "none"
  /\ IF Closes
     THEN host' = [host EXCEPT !.task[t] = [Idle EXCEPT !.op = "close", !.bridge = host.bridge],
                               !.upset = @ \/ Others(t) # {}]
     ELSE host' = [host EXCEPT !.bridge = None, !.upset = @ \/ Others(t) # {}]
  /\ UNCHANGED <<board, wire>>

\* The worker has closed the Bridge that was there when it began.
Closed(t) ==
  /\ Op(t) = "close"
  /\ board' = [board EXCEPT !.open = @ \ {host.task[t].bridge}]
  /\ host' = [host EXCEPT !.task[t] = Idle, !.bridge = None,
                          !.stream = IF @ = host.task[t].bridge THEN None ELSE @]
  /\ UNCHANGED wire

----------------------------------------------------------------------------
(* esp.gpio.write() and the like *)

\* __getattr__() makes the proxy of a sub-API once and keeps it on the wrapper.
CallGpio(t) ==
  /\ Op(t) = "none"
  /\ host.gpio # None \/ host.bridge # None
  /\ LET target == IF host.gpio # None THEN host.gpio ELSE host.bridge IN
     host' = [host EXCEPT !.gpio = target,
                          !.task[t] = [Idle EXCEPT !.op = "call", !.bridge = target],
                          !.stale = @ \/ (host.bridge # None /\ target # host.bridge)]
  /\ UNCHANGED <<board, wire>>

\* The worker's call is over, with a result or, on a closed Bridge, an error.
CallReturns(t) ==
  /\ Op(t) = "call"
  /\ host' = [host EXCEPT !.task[t] = Idle]
  /\ UNCHANGED <<board, wire>>

----------------------------------------------------------------------------
(* events() and its stream *)

StreamOpen ==
  /\ host.bridge \in board.open /\ host.stream = None /\ host.since = 0
  /\ host' = [host EXCEPT !.stream = host.bridge, !.since = board.last + 1]
  /\ UNCHANGED <<board, wire>>

\* An event of the stream's board: the reader thread hands it to the loop while the stream
\* is registered.
Event ==
  /\ host.stream \in board.open \/ (host.stream = None /\ board.open # {})
  /\ board.last < Events
  /\ board' = [board EXCEPT !.last = @ + 1]
  /\ wire' = IF host.stream # None THEN Append(wire, board.last + 1) ELSE wire
  /\ UNCHANGED host

\* Deliberately wrong (mutation of Offer): a full stream loses its oldest event.
OfferNewest ==
  /\ wire # <<>>
  /\ host' = IF Len(host.queue) < Size THEN [host EXCEPT !.queue = Append(@, Head(wire))]
             ELSE [host EXCEPT !.queue = Append(Tail(@), Head(wire)),
                               !.dropped = @ \cup {Head(wire)}]
  /\ wire' = Tail(wire)
  /\ UNCHANGED board

\* _offer(), on the loop: a full stream drops the newest.
Offer ==
  /\ wire # <<>>
  /\ host' = IF Len(host.queue) < Size THEN [host EXCEPT !.queue = Append(@, Head(wire))]
             ELSE [host EXCEPT !.dropped = @ \cup {Head(wire)}]
  /\ wire' = Tail(wire)
  /\ UNCHANGED board

\* async for
Anext ==
  /\ host.queue # <<>>
  /\ host' = [host EXCEPT !.got = Append(@, Head(host.queue)), !.queue = Tail(@)]
  /\ UNCHANGED <<board, wire>>

\* What has been handed to the loop still comes.
Aclose ==
  /\ host.stream # None
  /\ host' = [host EXCEPT !.stream = None]
  /\ UNCHANGED <<board, wire>>

Next ==
  \/ StreamOpen \/ Event \/ Offer \/ Anext \/ Aclose
  \/ \E b \in Bridges : Built(b)
  \/ \E t \in Tasks : \/ Connect(t) \/ Connected(t) \/ Cancel(t)
                      \/ CloseCall(t) \/ Closed(t) \/ CallGpio(t) \/ CallReturns(t)

----------------------------------------------------------------------------

(***************************************************************************)
(* A wrapper that opened its Bridge has at most that one open, and a       *)
(* closed one none, unless connect() or close() of several tasks overlap   *)
(* or a connect() is cancelled; a Bridge that was wrapped is never closed  *)
(* by the wrapper (AsyncBridge.connect, close, wrap).                      *)
(***************************************************************************)
OneSession ==
  /\ host.owned /\ ~host.upset /\ (\A t \in Tasks : Op(t) \notin {"connect", "close"})
       => board.open = {host.bridge} \ {None}
  /\ ~host.owned /\ board.opened > 0 /\ ~host.upset => 1 \in board.open

(***************************************************************************)
(* A stream gives the events that came while it was registered, in their   *)
(* order and each once; a bounded one that is full loses the newest        *)
(* (_EventStream).                                                         *)
(***************************************************************************)
StreamIsWhole ==
  LET seen == host.got \o host.queue \o wire IN
  /\ \A i \in 1 .. (Len(seen) - 1) : seen[i] < seen[i + 1]
  /\ LET all == {seen[i] : i \in DOMAIN seen} IN
     /\ all \cap host.dropped = {}
     /\ host.stream # None => host.since .. board.last = all \cup host.dropped

(***************************************************************************)
(* esp.gpio is the gpio of the session that is open ("proxies a sync       *)
(* sub-API (esp.gpio, ...)", aio.py:70), also after close() and connect(). *)
(***************************************************************************)
ProxyIsCurrent == ~host.stale

(***************************************************************************)
(* connect() of several tasks, or cancelled, leaves no session behind that *)
(* nobody can close.                                                       *)
(***************************************************************************)
NobodyLeftBehind ==
  (\A t \in Tasks : Op(t) = "none") =>
    board.open \subseteq {host.bridge} \cup (IF host.owned THEN {} ELSE {1})
=============================================================================
