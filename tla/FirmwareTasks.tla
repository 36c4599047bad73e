---------------------------- MODULE FirmwareTasks ----------------------------
(***************************************************************************)
(* The tasks of the firmware and the links they share                      *)
(* (src/espbridge/protocol.cpp): the serial link and the Bluetooth link,   *)
(* whose sessions come and go (src/esp/link_ble.cpp).  rx_task reads both, *)
(* executes what is quick and hands the rest to slow_task; either answers  *)
(* the link that asked; tx_task writes each link's queue at its pace.      *)
(*                                                                         *)
(* A client is the host on the cable or a Bluetooth session.  Only the     *)
(* number of pieces on their way is kept: what a piece is, rx_task chooses *)
(* when it looks at it.  The Wi-Fi link, which is reset between sessions,  *)
(* is WifiLink's.                                                          *)
(***************************************************************************)
EXTENDS Integers, Sequences, FiniteSets, Functions

CONSTANTS
  Sessions,   \* bound of the model: Bluetooth connections, numbered in order
  Sent,       \* bound of the model: pieces of frames the clients send
  Chunk,      \* pieces that fit the buffer of one read
  TxQueue,    \* TXQ_DEPTH
  SlowQueue,  \* SLOWQ_DEPTH
  Events      \* bound of the model: events the modules emit

VARIABLES
  host,    \* the clients: the session there is, the last one, what was sent
  board,   \* tasks, queues, accumulators, origins, the flags of the link
  wire     \* ghosts: what was written to whom, what a session left behind

vars == <<host, board, wire>>

Usb     == 0
NoOne   == -1
Clients == 0 .. Sessions
Event   == Sessions + 1     \* the frame of an event, which answers nobody
Frames  == Clients \cup {Event}
Links   == {"usb", "ble"}

Link(c) == IF c = Usb THEN "usb" ELSE "ble"

\* What a piece can be: SYS_AUTH with the right password, a request executed at once,
\* one that takes long on rx_task, one for slow_task, and the parts of a frame that
\* comes in two pieces.  A wrong password is answered like any request.
Kinds == {"auth", "quick", "long", "slow", "front", "rest"}

\* Every variable stays in its range: no queue is longer than it was created.
TypeOK ==
  /\ host.session \in Clients /\ host.last \in Clients /\ host.sent \in 0 .. Sent
  /\ host.cut \subseteq Clients
  /\ board.connected \in BOOLEAN /\ board.authed \in BOOLEAN
  /\ board.rx \in [Links -> 0 .. Sent]
  /\ board.chunk \in [of : Clients \cup {NoOne}, left : 0 .. Chunk]
  /\ board.acc \in [Links -> Clients \cup {NoOne}]
  /\ board.held \in Clients \cup {NoOne} /\ board.running \in Clients \cup {NoOne}
  /\ board.origin \in [{"rx", "slow"} -> Links \cup {"all"}]
  /\ board.slowq \in Seq(Clients) /\ Len(board.slowq) <= SlowQueue
  /\ \A l \in Links : board.txq[l] \in Seq(Frames) /\ Len(board.txq[l]) <= TxQueue
  /\ board.wire \in [Links -> Frames \cup {NoOne}]
  /\ board.events \in 0 .. Events
  /\ wire.granted \in Clients \cup {NoOne}
  /\ wire.straddled \cup wire.outlived \cup wire.spoiled \cup wire.heard \subseteq Clients
  /\ wire.stray \subseteq Clients \X Clients

NoChunk == [of |-> NoOne, left |-> 0]

Init ==
  /\ host = [session |-> 0, last |-> 0, sent |-> 0, cut |-> {}]
  /\ board = [connected |-> FALSE, authed |-> FALSE, rx |-> [l \in Links |-> 0],
              chunk |-> NoChunk, acc |-> [l \in Links |-> NoOne], held |-> NoOne,
              origin |-> [t \in {"rx", "slow"} |-> "all"], slowq |-> <<>>, running |-> NoOne,
              txq |-> [l \in Links |-> <<>>], wire |-> [l \in Links |-> NoOne], events |-> 0]
  /\ wire = [granted |-> NoOne, straddled |-> {}, outlived |-> {}, stray |-> {},
             heard |-> {}, spoiled |-> {}]

----------------------------------------------------------------------------
(* The clients, and the callbacks of the Bluetooth stack *)

\* Pieces of a client arrive: in the UART's buffer, or by LinkRxCb::onWrite().
Arrive(c) ==
  /\ host.sent < Sent
  /\ c = Usb \/ (board.connected /\ c = host.session)
  /\ host' = [host EXCEPT !.sent = @ + 1]
  /\ board' = [board EXCEPT !.rx[Link(c)] = @ + 1]
  /\ UNCHANGED wire

\* The Bluetooth clients rx_task or slow_task have something of.
Inside == {board.held, board.chunk.of} \ {NoOne, Usb}
Behind == (Inside \cup {board.running} \cup Range(board.slowq)) \ {NoOne, Usb}

\* A central takes many ticks to find the board and connect.  By then tx_task, which
\* looks every tick at a link with something to send, has dropped all that was left
\* of the last session, and rx_task has done with its chunk unless it is held up.
Settled ==
  /\ board.txq["ble"] = <<>> /\ board.wire["ble"] = NoOne
  /\ board.chunk.of \in {NoOne, Usb} \/ board.held # NoOne

\* Deliberately wrong (mutation of Connected): onDisconnect() cleared the flag already.
ConnectedAsIs(b) == [b EXCEPT !.connected = TRUE]

\* LinkSrvCb::onConnect(): the new session has to give the password.
Connected(b) == [b EXCEPT !.connected = TRUE, !.authed = FALSE]

Connect ==
  /\ ~board.connected /\ host.last < Sessions /\ Settled
  /\ LET s == host.last + 1 IN
     /\ host' = [host EXCEPT !.session = s, !.last = s]
     /\ wire' = [wire EXCEPT !.straddled = IF Inside # {} THEN @ \cup {s} ELSE @,
                             !.outlived = @ \cup Behind]
  /\ board' = Connected(board)

\* LinkSrvCb::onDisconnect() forgets what has not been read; the accumulator of
\* rx_task keeps what has.
Disconnect ==
  /\ board.connected
  /\ host' = [host EXCEPT !.session = 0]
  /\ board' = [board EXCEPT !.connected = FALSE, !.authed = FALSE, !.rx["ble"] = 0]
  /\ UNCHANGED wire

----------------------------------------------------------------------------
(* enqueue_frame() *)

Authed(b) == b.connected /\ b.authed

\* Deliberately wrong (mutation of Targets): a broadcast goes to every link that is up.
TargetsUp(b, dest) ==
  IF dest # "all" THEN {dest} ELSE {"usb"} \cup {l \in {"ble"} : b.connected}

Targets(b, dest) ==
  IF dest # "all" THEN {dest} ELSE {"usb"} \cup {l \in {"ble"} : Authed(b)}

\* A copy for each link.  An answer waits up to 250 ms for room, which is the step not
\* being taken yet; then it is dropped, and an event at once.
Enqueue(b, dest, frame) ==
  [b EXCEPT !.txq = [l \in Links |-> IF l \in Targets(b, dest) /\ Len(b.txq[l]) < TxQueue
                                     THEN Append(b.txq[l], frame) ELSE b.txq[l]]]

\* Deliberately wrong (mutation of ReplyDestination): one origin for both tasks.
ReplyDestinationLast(b, task) == b.origin["rx"]

\* reply_destination(): the link whose request this task is executing.
ReplyDestination(b, task) == b.origin[task]

Reply(b, task, c) == Enqueue(b, ReplyDestination(b, task), c)

EmitEvent ==
  /\ board.events < Events
  /\ board' = [Enqueue(board, "all", Event) EXCEPT !.events = @ + 1]
  /\ UNCHANGED <<host, wire>>

----------------------------------------------------------------------------
(* rx_task *)

RxFree == board.chunk.left = 0 /\ board.held = NoOne

\* Serial.read() or link_ble_read(): some of what there is.
RxRead(l) ==
  /\ RxFree /\ board.rx[l] > 0
  /\ \E n \in 1 .. Chunk :
       /\ n <= board.rx[l]
       /\ board' = [board EXCEPT !.rx[l] = @ - n,
                                 !.chunk = [of |-> IF l = "usb" THEN Usb ELSE host.session,
                                            left |-> n]]
  /\ UNCHANGED <<host, wire>>

\* dispatch(), and slow_enqueue(), which answers for slow_task when its queue is full.
Dispatch(b, c, kind) ==
  LET d == [b EXCEPT !.origin["rx"] = Link(c)] IN
  CASE kind = "long" -> [d EXCEPT !.held = c]
    [] kind = "slow" /\ Len(b.slowq) < SlowQueue -> [d EXCEPT !.slowq = Append(@, c)]
    [] OTHER -> Reply(d, "rx", c)

\* handle_auth(), then dispatch(): the flag of the link, not the session, decides.  The
\* answer to SYS_AUTH is followed by the banner.
Execute(b, c, kind) ==
  IF kind = "auth" THEN
    Enqueue(Enqueue([b EXCEPT !.authed = TRUE], Link(c), c), Link(c), Event)
  ELSE IF c # Usb /\ ~Authed(b) THEN Enqueue(b, Link(c), c)
  ELSE Dispatch(b, c, kind)

\* Deliberately wrong (mutation of RxFor): one accumulator for all links.
RxForAll(c) == "usb"

\* rx_for(): the accumulator of a client's link.
RxFor(c) == Link(c)

\* The next piece of the chunk goes through the accumulator.  Where that holds the front
\* of another client's frame, what comes out at the delimiter has no good CRC.  After a
\* front comes its rest.
RxPiece(kind) ==
  LET c == board.chunk.of
      a == RxFor(c)
      left == board.chunk.left - 1
      mixed == board.acc[a] \notin {NoOne, c}
      ends == kind # "front"
      whole == ends /\ ~mixed /\ (kind = "rest" => board.acc[a] = c)
      b == [board EXCEPT
              !.chunk = IF left = 0 THEN NoChunk ELSE [@ EXCEPT !.left = left],
              !.acc[a] = IF ends THEN NoOne ELSE IF mixed THEN @ ELSE c]
  IN
  /\ board.chunk.left > 0 /\ board.held = NoOne
  /\ kind = "rest" <=> c \in host.cut
  /\ kind = "auth" => c # Usb
  /\ host' = [host EXCEPT !.cut = IF ends THEN @ \ {c} ELSE @ \cup {c}]
  /\ board' = IF whole THEN Execute(b, c, kind) ELSE b
  /\ wire' = [wire EXCEPT
                !.granted = IF whole /\ kind = "auth" THEN c ELSE @,
                !.heard = IF ends THEN @ \cup {c} ELSE @,
                !.spoiled = IF mixed /\ (c \in wire.heard \/ c = Usb) THEN @ \cup {c} ELSE @]

\* A long request answers.
RxUnblock ==
  /\ board.held # NoOne
  /\ board' = Reply([board EXCEPT !.held = NoOne], "rx", board.held)
  /\ UNCHANGED <<host, wire>>

----------------------------------------------------------------------------
(* slow_task *)

SlowTake ==
  /\ board.running = NoOne /\ board.slowq # <<>>
  /\ LET c == Head(board.slowq) IN
     board' = [board EXCEPT !.running = c, !.slowq = Tail(@), !.origin["slow"] = Link(c)]
  /\ UNCHANGED <<host, wire>>

SlowReply ==
  /\ board.running # NoOne
  /\ board' = Reply([board EXCEPT !.running = NoOne], "slow", board.running)
  /\ UNCHANGED <<host, wire>>

----------------------------------------------------------------------------
(* tx_task *)

\* load_stream_frame(): the frame a stream is at.
Loaded(l) == IF board.wire[l] # NoOne THEN board.wire[l] ELSE Head(board.txq[l])
Waiting(l) == board.wire[l] # NoOne \/ board.txq[l] # <<>>
Unloaded(l) == IF board.wire[l] # NoOne THEN board.txq[l] ELSE Tail(board.txq[l])

\* Part of a frame is written, none (the link is congested), or all that was left.
TxWrite(l) ==
  /\ Waiting(l)
  /\ l = "usb" \/ board.connected
  /\ LET f == Loaded(l)
         reader == IF l = "usb" THEN Usb ELSE host.session
     IN  \E rest \in {f, NoOne} :
           /\ board' = [board EXCEPT !.txq[l] = Unloaded(l), !.wire[l] = rest]
           /\ wire' = [wire EXCEPT !.stray = IF rest # NoOne \/ f \in {Event, reader} THEN @
                                             ELSE @ \cup {<<f, reader>>}]
  /\ UNCHANGED host

\* advance_chunked() of a link whose peer is gone: drop_stream().
TxDrop ==
  /\ Waiting("ble") /\ ~board.connected
  /\ board' = [board EXCEPT !.txq["ble"] = <<>>, !.wire["ble"] = NoOne]
  /\ UNCHANGED <<host, wire>>

Next ==
  \/ Connect \/ Disconnect \/ EmitEvent
  \/ RxUnblock \/ SlowTake \/ SlowReply \/ TxDrop
  \/ \E c \in Clients : Arrive(c)
  \/ \E kind \in Kinds : RxPiece(kind)
  \/ \E l \in Links : RxRead(l) \/ TxWrite(l)

Spec == Init /\ [][Next]_vars

----------------------------------------------------------------------------

(***************************************************************************)
(* An answer is written to the client that asked, whichever task executed  *)
(* the request and whatever the other link asked meanwhile; a Bluetooth    *)
(* session reads another's only when the request itself, in a queue or     *)
(* being executed, outlived its session (reply_destination, drop_stream).  *)
(***************************************************************************)
AnswersGoBack == \A a \in wire.stray : a[2] # Usb /\ a[1] \in wire.outlived

(***************************************************************************)
(* A Bluetooth session that may command the board gave the password        *)
(* itself, however its predecessor ended, unless rx_task was still inside  *)
(* the predecessor; one that has not is told nothing of the modules        *)
(* (handle_auth, onConnect, enqueue_frame).                                *)
(***************************************************************************)
AuthIsOwn ==
  board.connected =>
    /\ board.authed /\ host.session \notin wire.straddled => wire.granted = host.session
    /\ ~board.authed => Event \notin Range(board.txq["ble"]) \cup {board.wire["ble"]}

(***************************************************************************)
(* The accumulator of the Bluetooth link is not reset between sessions.    *)
(* What a session leaves in it costs the next its first frame at most, and *)
(* the cable nothing, even when rx_task was still inside the predecessor   *)
(* (rxstate, pump_link_bytes).                                             *)
(***************************************************************************)
HalfFrameCostsOne == wire.spoiled = {}
=============================================================================
