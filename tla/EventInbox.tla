------------------------------ MODULE EventInbox ------------------------------
(***************************************************************************)
(* Where the events of the board wait for the program: a UartPort's buffer *)
(* (python/espbridge/uart.py), the queues of Can (can.py) and of EspNow    *)
(* (espnow.py), and the callbacks of Gpio.watch() (gpio.py).  The reader   *)
(* thread fills them, the program's threads read, register and close.      *)
(* Init chooses the one that a behaviour is about.                         *)
(***************************************************************************)
EXTENDS Naturals, Sequences, FiniteSets, SequencesExt

CONSTANTS
  Threads,   \* of the program
  Items,     \* bound of the model: bytes, frames or edges that arrive
  Newlines,  \* the bytes that are the separator of read_until()
  Depth,     \* of the queue of Can: 1024 in the code
  Sessions,  \* bound of the model: times that a port is opened
  Faults     \* bound of the model: requests that the board refuses

VARIABLES
  host,    \* the buffer, the calls under way, the callbacks, what was handed out
  board,   \* the port or the pin: open or watched, what has arrived
  wire     \* events on their way

vars == <<host, board, wire>>

Kinds == {"uart", "can", "espnow", "gpio"}
Idle == [op |-> "none", woken |-> FALSE, overlap |-> FALSE]

TypeOK ==
  /\ host.kind \in Kinds
  /\ host.buf \in Seq(1 .. Items) /\ host.taken \in Seq(1 .. Items)
  /\ host.dropped \subseteq 1 .. Items /\ host.called \subseteq 1 .. Items
  /\ \A t \in Threads : host.call[t].op \in {"none", "read", "line", "watch", "unwatch", "pop"}
  /\ host.cbs \subseteq Threads /\ host.due \subseteq Threads
  /\ board.open \in BOOLEAN /\ board.session \in 0 .. Sessions
  /\ wire.events \in Seq(1 .. Items) /\ wire.faults \in 0 .. Faults

Init ==
  /\ \E k \in Kinds :
       host = [kind |-> k, buf |-> <<>>, taken |-> <<>>, dropped |-> {}, called |-> {},
               call |-> [t \in Threads |-> Idle], cbs |-> {}, due |-> {}, empty |-> FALSE,
               line |-> <<>>, partial |-> FALSE]
  /\ board = [open |-> FALSE, session |-> 0, last |-> 0, since |-> 0]
  /\ wire = [events |-> <<>>, faults |-> Faults]

Is(kinds) == host.kind \in kinds
Quiet(t) == host.call[t] = Idle
Refused == wire.faults > 0 /\ wire' = [wire EXCEPT !.faults = @ - 1]

----------------------------------------------------------------------------
(* The board *)

\* Uart.init(), Can.begin(), EspNow.begin(): the object and what it holds are kept.
Open ==
  /\ Is({"uart", "can", "espnow"}) /\ board.session < Sessions
  /\ host.kind = "can" => ~board.open
  /\ board' = [board EXCEPT !.open = TRUE, !.session = @ + 1, !.since = board.last + 1]
  /\ UNCHANGED <<host, wire>>

Close ==
  /\ Is({"uart", "can", "espnow"}) /\ board.open
  /\ board' = [board EXCEPT !.open = FALSE]
  /\ UNCHANGED <<host, wire>>

\* A byte, a frame, a packet or an edge comes in and is passed on as an event.
Arrive ==
  /\ board.open /\ board.last < Items
  /\ board' = [board EXCEPT !.last = @ + 1]
  /\ wire' = [wire EXCEPT !.events = Append(@, board.last + 1)]
  /\ UNCHANGED host

----------------------------------------------------------------------------
(* The reader thread *)

\* UartPort._feed(): into the buffer, waking everyone, and to the callbacks as well.
Feed(h, e) ==
  [h EXCEPT !.buf = Append(@, e), !.called = IF h.cbs # {} THEN @ \cup {e} ELSE @,
            !.call = [t \in Threads |-> [h.call[t] EXCEPT !.woken = h.call[t].op = "read"]]]

\* Deliberately wrong (mutation of Queue): room for the newest is made at the old end.
QueueNewest(h, e) ==
  IF h.cbs # {} THEN [h EXCEPT !.called = @ \cup {e}]
  ELSE IF h.kind = "can" /\ Len(h.buf) = Depth
       THEN [h EXCEPT !.buf = Append(Tail(@), e), !.dropped = @ \cup {e}]
       ELSE [h EXCEPT !.buf = Append(@, e)]

\* _on_rx(): to the callbacks, or else into the queue; a full one keeps the oldest.
Queue(h, e) ==
  IF h.cbs # {} THEN [h EXCEPT !.called = @ \cup {e}]
  ELSE IF h.kind = "can" /\ Len(h.buf) = Depth THEN [h EXCEPT !.dropped = @ \cup {e}]
  ELSE [h EXCEPT !.buf = Append(@, e)]

\* Gpio._on_edge(): to the callbacks of the pin, or to nobody.
Edge(h, e) ==
  IF h.cbs # {} THEN [h EXCEPT !.called = @ \cup {e}] ELSE [h EXCEPT !.dropped = @ \cup {e}]

Deliver ==
  /\ wire.events # <<>>
  /\ LET e == Head(wire.events) IN
     host' = CASE Is({"uart"}) -> Feed(host, e)
               [] Is({"can", "espnow"}) -> Queue(host, e)
               [] OTHER -> Edge(host, e)
  /\ wire' = [wire EXCEPT !.events = Tail(@)]
  /\ UNCHANGED board

----------------------------------------------------------------------------
(* Reading *)

OnRx(t) ==
  /\ Is({"uart", "can", "espnow"}) /\ Quiet(t) /\ t \notin host.cbs
  /\ host' = [host EXCEPT !.cbs = @ \cup {t}]
  /\ UNCHANGED <<board, wire>>

\* read() or recv() finds nothing and waits; read_until() has no whole line.
Wait(t, op) ==
  /\ Quiet(t)
  /\ \/ /\ op = "read" /\ Is({"uart", "can", "espnow"})
        /\ host.buf = <<>>
     \/ /\ op = "line" /\ Is({"uart"})
        /\ Range(host.buf) \cap Newlines = {}
  /\ host' = [host EXCEPT !.call[t].op = op]
  /\ UNCHANGED <<board, wire>>

\* Deliberately wrong (mutation of Taking): what was not asked for goes as well.
TakingAll(h, n) == [h EXCEPT !.taken = @ \o SubSeq(h.buf, 1, n), !.buf = <<>>]

\* The first n of the buffer are handed out.
Taking(h, n) ==
  [h EXCEPT !.taken = @ \o SubSeq(h.buf, 1, n), !.buf = SubSeq(@, n + 1, Len(@))]

\* read(n): one wait, then what is there.  notify_all() has woken every reader: the second
\* finds what the first has left.
Read(t) ==
  /\ Is({"uart"})
  /\ LET room == Len(host.buf) IN
        /\ (Quiet(t) /\ room > 0) \/ host.call[t].woken
        /\ \E n \in {1, room} :
             /\ n <= room
             /\ host' = [Taking(host, n) EXCEPT !.call[t] = Idle, !.partial = TRUE,
                                                !.empty = @ \/ n = 0]
  /\ UNCHANGED <<board, wire>>

\* Queue.get(): the oldest frame.
Recv(t) ==
  /\ Is({"can", "espnow"}) /\ host.buf # <<>>
  /\ Quiet(t) \/ host.call[t].op = "read"
  /\ host' = [Taking(host, 1) EXCEPT !.call[t] = Idle]
  /\ UNCHANGED <<board, wire>>

\* A call that was given a timeout.
ReadTimeout(t) ==
  /\ host.call[t].op = "read" /\ host.buf = <<>> /\ ~host.call[t].woken
  /\ host' = [host EXCEPT !.call[t] = Idle]
  /\ UNCHANGED <<board, wire>>

\* Deliberately wrong (mutation of LineEnd): the last separator in the buffer is looked for.
LineEndLast == CHOOSE i \in DOMAIN host.buf :
  host.buf[i] \in Newlines /\ \A j \in (i + 1) .. Len(host.buf) : host.buf[j] \notin Newlines

\* self._buf.find(sep)
LineEnd == CHOOSE i \in DOMAIN host.buf :
  host.buf[i] \in Newlines /\ \A j \in 1 .. (i - 1) : host.buf[j] \notin Newlines

ReadUntil(t) ==
  /\ Is({"uart"})
  /\ Quiet(t) \/ host.call[t].op = "line"
  /\ Range(host.buf) \cap Newlines # {}
  /\ host' = [Taking(host, LineEnd) EXCEPT !.call[t] = Idle,
                                           !.line = SubSeq(host.buf, 1, LineEnd)]
  /\ UNCHANGED <<board, wire>>

\* The deadline: the part of a line that is there.
LineTimeout(t) ==
  /\ host.call[t].op = "line" /\ Range(host.buf) \cap Newlines = {}
  /\ host' = [Taking(host, Len(host.buf)) EXCEPT !.call[t] = Idle, !.partial = TRUE]
  /\ UNCHANGED <<board, wire>>

ResetInput ==
  /\ Is({"uart"}) /\ host.buf # <<>>
  /\ host' = [host EXCEPT !.dropped = @ \cup Range(host.buf), !.buf = <<>>, !.partial = TRUE]
  /\ UNCHANGED <<board, wire>>

----------------------------------------------------------------------------
(* Gpio.watch(), Gpio.unwatch() *)

Busy == {t \in Threads : ~Quiet(t)}
Start(t, h, op) ==
  [h EXCEPT !.call = [u \in Threads |->
     IF u = t THEN [Idle EXCEPT !.op = op, !.overlap = Busy # {}]
     ELSE [h.call[u] EXCEPT !.overlap = @ \/ ~Quiet(u)]]]

\* The callback goes into the list, then the request goes out.
WatchCall(t) ==
  /\ Is({"gpio"}) /\ Quiet(t) /\ t \notin host.cbs
  /\ host' = [Start(t, host, "watch") EXCEPT !.cbs = @ \cup {t}]
  /\ UNCHANGED <<board, wire>>

\* GPIO_WATCH: a refusal raises, and the callback stays in the list.
WatchRequest(t) ==
  /\ host.call[t].op = "watch"
  /\ \/ /\ board' = [board EXCEPT !.open = TRUE]
        /\ host' = [host EXCEPT !.call[t] = Idle, !.due = @ \cup {t}]
        /\ UNCHANGED wire
     \/ Refused /\ host' = [host EXCEPT !.call[t] = Idle] /\ UNCHANGED board

UnwatchCall(t) ==
  /\ Is({"gpio"}) /\ Quiet(t) /\ board.open
  /\ host' = Start(t, host, "unwatch")
  /\ UNCHANGED <<board, wire>>

UnwatchRequest(t) ==
  /\ host.call[t].op = "unwatch"
  /\ board' = [board EXCEPT !.open = FALSE]
  /\ host' = [host EXCEPT !.call[t].op = "pop"]
  /\ UNCHANGED wire

\* Deliberately wrong (mutation of Pop): the list of the pin stays.
PopNot(t) ==
  /\ host.call[t].op = "pop"
  /\ host' = [host EXCEPT !.call[t] = Idle, !.due = IF host.call[t].overlap THEN @ ELSE {}]
  /\ UNCHANGED <<board, wire>>

\* The list of the pin goes, with whatever another thread has put into it meanwhile.
Pop(t) ==
  /\ host.call[t].op = "pop"
  /\ host' = [host EXCEPT !.call[t] = Idle, !.cbs = {},
                          !.due = IF host.call[t].overlap THEN @ ELSE {}]
  /\ UNCHANGED <<board, wire>>

Next ==
  \/ Open \/ Close \/ Arrive \/ Deliver \/ ResetInput
  \/ \E t \in Threads : \/ OnRx(t) \/ Wait(t, "read") \/ Wait(t, "line")
                        \/ Read(t) \/ Recv(t) \/ ReadTimeout(t)
                        \/ ReadUntil(t) \/ LineTimeout(t)
                        \/ WatchCall(t) \/ WatchRequest(t)
                        \/ UnwatchCall(t) \/ UnwatchRequest(t) \/ Pop(t)

----------------------------------------------------------------------------

Increasing(s) == \A i \in 1 .. (Len(s) - 1) : s[i] < s[i + 1]
Delivered == 1 .. (board.last - Len(wire.events))

(***************************************************************************)
(* What the threads of the program have read, one after the other, and     *)
(* what still waits is what came in, in that order, each piece once, and   *)
(* complete: only reset_input_buffer(), a full queue, which keeps the      *)
(* oldest, and a registered callback take from it (UartPort, Can, EspNow). *)
(***************************************************************************)
InOrder ==
  LET seen == host.taken \o host.buf IN
  Is({"uart", "can", "espnow"}) =>
    /\ Increasing(seen)
    /\ Range(seen) \cup host.dropped \cup host.called = Delivered
    /\ Range(seen) \cap host.dropped = {}

(***************************************************************************)
(* A line that read_until() returns before its deadline is one line, the   *)
(* whole of it as long as nothing else has taken from the buffer.          *)
(***************************************************************************)
LineIsOne ==
  host.line # <<>> =>
    /\ Last(host.line) \in Newlines
    /\ \A i \in 1 .. (Len(host.line) - 1) : host.line[i] \notin Newlines
    /\ ~host.partial => host.line[1] = 1 \/ host.line[1] - 1 \in Newlines

(***************************************************************************)
(* read() with no timeout "blocks until data" (uart.py:41): it never comes *)
(* back with nothing.                                                      *)
(***************************************************************************)
ReadBlocks == ~host.empty

(***************************************************************************)
(* A pin that nobody watches any more has no callback left that a later    *)
(* watch() of another thread would wake (Gpio.unwatch).                    *)
(***************************************************************************)
UnwatchedIsSilent ==
  Is({"gpio"}) /\ wire.faults = Faults /\ (\A t \in Threads : Quiet(t)) /\ ~board.open
    => host.cbs = {}

(***************************************************************************)
(* watch() has the pin's edges reported to its callback ("Get callback on  *)
(* pin edges", gpio.py:151), also when another thread unwatches meanwhile. *)
(***************************************************************************)
WatchedIsHeard == board.open /\ (\A t \in Threads : Quiet(t)) => host.due \subseteq host.cbs
=============================================================================
