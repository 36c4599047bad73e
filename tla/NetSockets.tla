----------------------------- MODULE NetSockets -----------------------------
(***************************************************************************)
(* TCP sockets through the board: python/espbridge/net.py and              *)
(* src/esp/mod_net.cpp, joined by the request queue of slow_task and the   *)
(* transmit queue of the link.  slow_task runs requests and polls sockets  *)
(* one after the other; the reader thread handles events; every socket     *)
(* object has one application thread.                                      *)
(*                                                                         *)
(* A TCP connection is named by a model value; only the peer's bytes are   *)
(* followed, as <<connection, number>>.  UDP sockets are left out.         *)
(***************************************************************************)
EXTENDS Integers, Sequences, FiniteSets, FiniteSetsExt, SequencesExt

CONSTANTS
  Outgoing,    \* connections opened by tcp_connect()
  Incoming,    \* connections of peers to the listening port
  NumSockets,  \* NET_MAX_SOCKETS
  Window,      \* NET_WINDOW
  Chunk,       \* NET_CHUNK
  TxQueue,     \* frames between slow_task and the reader thread
  SlowQueue,   \* requests between application threads and slow_task
  MaxBytes,    \* bound of the model: bytes a peer sends
  MaxFailures  \* bound of the model: frames that are dropped, answers that are too late

ASSUME NetAssumption ==
  /\ Outgoing \cap Incoming = {}
  /\ NumSockets \in Nat \ {0} /\ Window \in Nat \ {0} /\ Chunk \in Nat \ {0}
  /\ TxQueue \in Nat \ {0} /\ SlowQueue \in Nat \ {0} /\ MaxBytes \in Nat
  /\ MaxFailures \in Nat

Conns   == Outgoing \cup Incoming
Server  == "server"
None    == "none"
ASSUME ServerIsNoConnection == Server \notin Conns /\ None \notin Conns

Objects == Conns \cup {Server}
Handles == 1..NumSockets
Sockets == Conns \cup {Server, None}

VARIABLES
  socks,      \* board: what occupies each slot
  windowUsed, \* board: window_used of each slot
  arrived,    \* incoming connections the listening socket has handed out
  read,       \* bytes of each connection net_poll() has read
  toBoard,    \* the slow queue and the wire before it
  toHost,     \* the transmit queue and the wire after it
  sockets,    \* host: Net._sockets
  pc,         \* host: what each object's thread is doing
  handle,     \* host: the handle of each object, 0 before it has one
  open,       \* host: TcpSocket._open
  fed,        \* host: all bytes _feed() gave each socket
  taken,      \* host: how many of them recv() has returned
  acking,     \* host: bytes recv() took and has not acknowledged
  failures,   \* events, replies and requests that were dropped or came too late
  raced,      \* connections whose events met the wrong owner of their handle
  overdrawn   \* connections whose slot was credited with bytes of another one

board == <<socks, windowUsed>>
net   == <<arrived, read>>
host  == <<sockets, pc, handle, open, fed, taken, acking>>
ghosts == <<failures, raced, overdrawn>>
vars  == <<board, net, toBoard, toHost, host, ghosts>>

Byte == Conns \X (1..MaxBytes)
PCs  == {"new", "opening", "register", "use", "closing", "forget", "done"}

Requests == [op : {"open"}, who : Objects \cup {None}, obj : Objects]
            \cup [op : {"close"}, who : Objects \cup {None}, h : Handles]
            \cup [op : {"ack"}, who : {None}, of : Conns, h : Handles, n : Nat \ {0}]
Frames   == [op : {"data"}, who : {None}, h : Handles, conn : Conns, from : 1..MaxBytes, n : 1..Chunk]
            \cup [op : {"accept"}, who : {None}, h : Handles, conn : Conns, new : Handles]
            \cup [op : {"closed"}, who : {None}, h : Handles, conn : Conns]
            \cup [op : {"reply"}, who : Objects \cup {None}, h : {0} \cup Handles, ok : BOOLEAN]

TypeOK ==
  /\ socks \in [Handles -> Sockets]
  /\ windowUsed \in [Handles -> 0..Window]
  /\ arrived \in SUBSET Incoming
  /\ read \in [Conns -> 0..MaxBytes]
  /\ toBoard \in Seq(Requests) /\ Len(toBoard) <= SlowQueue
  /\ toHost \in Seq(Frames) /\ Len(toHost) <= TxQueue
  /\ sockets \in [Handles -> Sockets]
  /\ pc \in [Objects -> PCs]
  /\ handle \in [Objects -> {0} \cup Handles]
  /\ open \in [Conns -> BOOLEAN]
  /\ fed \in [Conns -> Seq(Byte)]
  /\ taken \in [Conns -> Nat] /\ acking \in [Conns -> Nat]
  /\ failures \in 0..MaxFailures /\ raced \in SUBSET Conns /\ overdrawn \in SUBSET Conns

Init ==
  /\ socks = [h \in Handles |-> None]
  /\ windowUsed = [h \in Handles |-> 0]
  /\ arrived = {} /\ read = [c \in Conns |-> 0]
  /\ toBoard = <<>> /\ toHost = <<>>
  /\ sockets = [h \in Handles |-> None]
  /\ pc = [o \in Objects |-> "new"]
  /\ handle = [o \in Objects |-> 0]
  /\ open = [c \in Conns |-> FALSE]
  /\ fed = [c \in Conns |-> <<>>]
  /\ taken = [c \in Conns |-> 0] /\ acking = [c \in Conns |-> 0]
  /\ failures = 0 /\ raced = {} /\ overdrawn = {}

-----------------------------------------------------------------------------
(* Queues *)

lostFrame == failures > 0
MayFail == failures < MaxFailures
Failed == failures' = failures + 1

\* A frame for the host.  An event finds the queue full and is dropped; so is
\* a reply after a short wait.
Emit(f) ==
  /\ IF Len(toHost) < TxQueue
     THEN toHost' = Append(toHost, f) /\ UNCHANGED failures
     ELSE MayFail /\ Failed /\ UNCHANGED toHost
  /\ UNCHANGED <<raced, overdrawn>>

Reply(r, h, ok) == Emit([op |-> "reply", who |-> r.who, h |-> h, ok |-> ok])

\* A request arrives at the slow queue, or finds it full: BUSY, which the
\* waiting thread takes for a failure, and nothing for an acknowledgement.
Submit(r) ==
  /\ \/ /\ Len(toBoard) < SlowQueue
        /\ toBoard' = Append(toBoard, r)
        /\ UNCHANGED <<toHost, failures>>
     \/ /\ Len(toBoard) = SlowQueue /\ MayFail
        /\ Failed
        /\ IF r.who # None /\ Len(toHost) < TxQueue
           THEN toHost' = Append(toHost, [op |-> "reply", who |-> r.who, h |-> 0, ok |-> FALSE])
           ELSE UNCHANGED toHost
        /\ UNCHANGED toBoard
  /\ UNCHANGED <<raced, overdrawn>>

-----------------------------------------------------------------------------
(* slow_task: net_poll().  What a peer does is seen when its socket is polled. *)

Free == {h \in Handles : socks[h] = None}
AllocateSocket == Min(Free)

\* Deliberately wrong (mutation of PollSize): the chunk is not cut to the room.
PollSizeUncut(h) == Chunk

\* The most bytes the window of slot h lets through.
PollSize(h) == Min({Chunk, Window - windowUsed[h]})

\* Deliberately wrong (mutation of PollData): a whole chunk is taken from the
\* stack, and what the window does not let through is thrown away.
PollDataWasteful(h) ==
  \E c \in Conns, n \in 1..PollSize(h), got \in 1..Chunk :
    /\ socks[h] = c /\ windowUsed[h] < Window
    /\ n <= got /\ read[c] + got <= MaxBytes
    /\ read' = [read EXCEPT ![c] = @ + got]
    /\ windowUsed' = [windowUsed EXCEPT ![h] = @ + n]
    /\ Emit([op |-> "data", who |-> None, h |-> h, conn |-> c, from |-> read[c] + 1, n |-> n])
    /\ UNCHANGED <<socks, arrived, toBoard, host>>

PollData(h) ==
  \E c \in Conns, n \in 1..PollSize(h) :
    /\ socks[h] = c /\ windowUsed[h] < Window
    /\ read[c] + n <= MaxBytes
    /\ read' = [read EXCEPT ![c] = @ + n]
    /\ windowUsed' = [windowUsed EXCEPT ![h] = @ + n]
    /\ Emit([op |-> "data", who |-> None, h |-> h, conn |-> c, from |-> read[c] + 1, n |-> n])
    /\ UNCHANGED <<socks, arrived, toBoard, host>>

FreeSocket(h) ==
  /\ socks' = [socks EXCEPT ![h] = None]
  /\ windowUsed' = [windowUsed EXCEPT ![h] = 0]

\* Deliberately wrong (mutation of PollClosed): the host is not told.
PollClosedSilent(h) ==
  /\ socks[h] \in Conns
  /\ FreeSocket(h)
  /\ UNCHANGED <<net, toBoard, toHost, host, ghosts>>

\* All was read and the peer is gone.
PollClosed(h) ==
  \E c \in Conns :
    /\ socks[h] = c
    /\ Emit([op |-> "closed", who |-> None, h |-> h, conn |-> c])
    /\ FreeSocket(h)
    /\ UNCHANGED <<net, toBoard, host>>

PollListen(h) ==
  \E c \in Incoming :
    /\ socks[h] = Server /\ c \notin arrived
    /\ arrived' = arrived \cup {c}
    /\ IF Free = {}
       THEN UNCHANGED <<board, toHost, ghosts>>
       ELSE /\ socks' = [socks EXCEPT ![AllocateSocket] = c]
            /\ windowUsed' = [windowUsed EXCEPT ![AllocateSocket] = 0]
            /\ Emit([op |-> "accept", who |-> None, h |-> h, conn |-> c, new |-> AllocateSocket])
    /\ UNCHANGED <<read, toBoard, host>>

-----------------------------------------------------------------------------
(* slow_task: net_handle() *)

Taking(op) == toBoard # <<>> /\ Head(toBoard).op = op /\ toBoard' = Tail(toBoard)

Fail(r) == Reply(r, 0, FALSE) /\ UNCHANGED <<board, net>>

\* TCP_CONNECT and TCP_LISTEN.  The connection attempt may fail.
HandleOpen ==
  /\ Taking("open")
  /\ LET r == Head(toBoard) IN
       \/ Fail(r)
       \/ /\ Free # {}
          /\ socks' = [socks EXCEPT ![AllocateSocket] = r.obj]
          /\ windowUsed' = [windowUsed EXCEPT ![AllocateSocket] = 0]
          /\ Reply(r, AllocateSocket, TRUE)
          /\ UNCHANGED net
  /\ UNCHANGED host

\* Deliberately wrong (mutation of HandleClose): the slot stays taken.
HandleCloseKeeps ==
  /\ Taking("close")
  /\ Reply(Head(toBoard), 0, TRUE)
  /\ UNCHANGED <<board, net, host>>

\* CLOSE: whatever occupies the slot is closed; an empty slot is no error.
HandleClose ==
  /\ Taking("close")
  /\ LET r == Head(toBoard) IN
       /\ FreeSocket(r.h)
       /\ Reply(r, 0, TRUE)
  /\ UNCHANGED <<net, host>>

\* Deliberately wrong (mutation of HandleAck): credit for all that is owed is
\* taken for a mistake.
HandleAckStrict ==
  /\ Taking("ack")
  /\ LET r == Head(toBoard) IN
       windowUsed' = [windowUsed EXCEPT ![r.h] = IF r.n < @ THEN @ - r.n ELSE @]
  /\ UNCHANGED <<socks, net, toHost, host, ghosts>>

\* WINDOW_ACK: credit for whatever occupies the slot.
HandleAck ==
  /\ Taking("ack")
  /\ LET r == Head(toBoard) IN
       /\ windowUsed' = [windowUsed EXCEPT ![r.h] = Max({0, @ - r.n})]
       /\ overdrawn' = overdrawn \cup ({socks[r.h]} \cap (Conns \ {r.of}))
  /\ UNCHANGED <<socks, net, toHost, host, failures, raced>>

-----------------------------------------------------------------------------
(* The reader thread *)

Receiving(op) == toHost # <<>> /\ Head(toHost).op = op /\ toHost' = Tail(toHost)

\* The TcpSocket registered under a handle, if there is one.
Registered(h) == {c \in Conns : sockets[h] = c}

\* Sockets that have had a handle and are not done with it.
Holders(h) == {o \in Objects : handle[o] = h /\ pc[o] # "done"}

\* Outgoing sockets that know handle h and are not yet registered.
TooEarlyFor(h) == {c \in Conns : handle[c] = h /\ pc[c] = "register"}

OnData ==
  /\ Receiving("data")
  /\ LET e == Head(toHost)
         bytes == [i \in 1..e.n |-> <<e.conn, e.from + i - 1>>]
     IN fed' = [c \in Conns |-> IF c \in Registered(e.h) THEN fed[c] \o bytes ELSE fed[c]]
  /\ raced' = raced \cup TooEarlyFor(Head(toHost).h)
  /\ UNCHANGED <<board, net, toBoard, sockets, pc, handle, open, taken, acking, failures, overdrawn>>

OnAccept ==
  /\ Receiving("accept")
  /\ LET e == Head(toHost) IN
       IF sockets[e.h] = Server
       THEN /\ sockets' = [sockets EXCEPT ![e.new] = e.conn]
            /\ handle' = [handle EXCEPT ![e.conn] = e.new]
            /\ open' = [open EXCEPT ![e.conn] = TRUE]
            /\ pc' = [pc EXCEPT ![e.conn] = "use"]
            /\ raced' = IF Holders(e.new) # {} THEN raced \cup {e.conn} ELSE raced
       ELSE /\ raced' = raced \cup {e.conn}
            /\ UNCHANGED <<sockets, handle, open, pc>>
  /\ UNCHANGED <<board, net, toBoard, fed, taken, acking, failures, overdrawn>>

\* Deliberately wrong (mutation of OnClosed): the event is ignored.
OnClosedIgnored ==
  /\ Receiving("closed")
  /\ UNCHANGED <<board, net, toBoard, host, ghosts>>

OnClosed ==
  /\ Receiving("closed")
  /\ open' = [c \in Conns |-> open[c] /\ c \notin Registered(Head(toHost).h)]
  /\ raced' = raced \cup TooEarlyFor(Head(toHost).h)
  /\ UNCHANGED <<board, net, toBoard, sockets, pc, handle, fed, taken, acking, failures, overdrawn>>

\* The answer wakes its thread, unless that has given up.
OnReply ==
  /\ Receiving("reply")
  /\ LET e == Head(toHost) IN
       /\ pc' = [o \in Objects |->
                   IF o # e.who THEN pc[o]
                   ELSE IF pc[o] = "closing" THEN "forget"
                   ELSE IF e.ok THEN "register" ELSE "done"]
       /\ handle' = [o \in Objects |-> IF o = e.who /\ e.ok /\ pc[o] = "opening" THEN e.h ELSE handle[o]]
       /\ raced' = IF e.ok /\ Holders(e.h) # {} THEN raced \cup ({e.who} \cap Conns) ELSE raced
  /\ UNCHANGED <<board, net, toBoard, sockets, open, fed, taken, acking, failures, overdrawn>>

-----------------------------------------------------------------------------
(* Application threads *)

Goto(o, place) == pc' = [pc EXCEPT ![o] = place]

\* tcp_connect() and tcp_listen(): the request ...
Open(o) ==
  /\ o \notin Incoming /\ pc[o] = "new"
  /\ Submit([op |-> "open", who |-> o, obj |-> o])
  /\ Goto(o, "opening")
  /\ UNCHANGED <<board, net, sockets, handle, open, fed, taken, acking>>

\* ... and, when it was answered, the registration under its handle.
Register(o) ==
  /\ pc[o] = "register"
  /\ sockets' = [sockets EXCEPT ![handle[o]] = o]
  /\ open' = [c \in Conns |-> open[c] \/ c = o]
  /\ Goto(o, "use")
  /\ UNCHANGED <<board, net, toBoard, toHost, handle, fed, taken, acking, ghosts>>

\* recv(): take bytes under the lock, acknowledge them after it.
Recv(c) ==
  /\ pc[c] = "use" /\ acking[c] = 0
  /\ \E n \in 1..(Len(fed[c]) - taken[c]) :
       /\ taken' = [taken EXCEPT ![c] = @ + n]
       /\ acking' = [acking EXCEPT ![c] = n]
  /\ UNCHANGED <<board, net, toBoard, toHost, sockets, pc, handle, open, fed, ghosts>>

Ack(c) ==
  /\ acking[c] > 0
  /\ Submit([op |-> "ack", who |-> None, of |-> c, h |-> handle[c], n |-> acking[c]])
  /\ acking' = [acking EXCEPT ![c] = 0]
  /\ UNCHANGED <<board, net, sockets, pc, handle, open, fed, taken>>

\* close() of a socket asks the board only when the peer has not closed;
\* close() of a server always does.
Close(o) ==
  /\ pc[o] = "use"
  /\ IF o = Server \/ (o \in Conns /\ open[o])
     THEN /\ Submit([op |-> "close", who |-> o, h |-> handle[o]])
          /\ open' = [c \in Conns |-> open[c] /\ c # o]
          /\ Goto(o, "closing")
     ELSE /\ Goto(o, "forget")
          /\ UNCHANGED <<toBoard, toHost, open, ghosts>>
  /\ (o \in Conns => acking[o] = 0)
  /\ UNCHANGED <<board, net, sockets, handle, fed, taken, acking>>

\* _forget(): the entry of the handle goes, whoever it belongs to.
Forget(o) ==
  /\ pc[o] = "forget"
  /\ sockets' = [sockets EXCEPT ![handle[o]] = None]
  /\ Goto(o, "done")
  /\ UNCHANGED <<board, net, toBoard, toHost, handle, open, fed, taken, acking, ghosts>>

\* The request or its answer was dropped; or the answer comes too late.
Late(o) ==
  \/ /\ lostFrame /\ \A q \in {toBoard, toHost} : \A i \in DOMAIN q : q[i].who # o
     /\ UNCHANGED failures
  \/ MayFail /\ Failed

\* What is under way for object o will find nobody who waits for it.
Anonymous(q, o) ==
  [i \in DOMAIN q |-> IF q[i].who = o THEN [q[i] EXCEPT !.who = None] ELSE q[i]]

Request(o) ==
  IF pc[o] = "opening" THEN [op |-> "open", who |-> o, obj |-> o]
                       ELSE [op |-> "close", who |-> o, h |-> handle[o]]

\* No answer in time: none of the three commands is in NON_IDEMPOTENT, so
\* request() sends it again, and the board may do it twice.  It does so once;
\* here the failures of the model are the bound.
Retry(o) ==
  /\ pc[o] \in {"opening", "closing"}
  /\ Late(o)
  /\ \/ /\ Len(toBoard) < SlowQueue
        /\ toBoard' = Append(Anonymous(toBoard, o), Request(o))
        /\ toHost' = Anonymous(toHost, o)
     \/ /\ Len(toBoard) = SlowQueue
        /\ toBoard' = Anonymous(toBoard, o)
        /\ LET busy == [op |-> "reply", who |-> o, h |-> 0, ok |-> FALSE] IN
             toHost' = IF Len(toHost) < TxQueue THEN Append(Anonymous(toHost, o), busy)
                                                ELSE Anonymous(toHost, o)
  /\ UNCHANGED <<raced, overdrawn, board, net, sockets, pc, handle, open, fed, taken, acking>>

\* No answer in time, and the link does not answer a ping or the request was
\* sent twice: opening raises, closing goes on.
GiveUp(o) ==
  /\ pc[o] \in {"opening", "closing"}
  /\ Late(o)
  /\ Goto(o, IF pc[o] = "opening" THEN "done" ELSE "forget")
  /\ toBoard' = Anonymous(toBoard, o) /\ toHost' = Anonymous(toHost, o)
  /\ UNCHANGED <<raced, overdrawn, board, net, sockets, handle, open, fed, taken, acking>>

-----------------------------------------------------------------------------
Board ==
  \/ \E h \in Handles : PollData(h) \/ PollClosed(h) \/ PollListen(h)
  \/ HandleOpen \/ HandleClose \/ HandleAck

Reader == OnData \/ OnAccept \/ OnClosed \/ OnReply

Application ==
  \/ \E o \in Objects : Open(o) \/ Register(o) \/ Close(o) \/ Forget(o) \/ Retry(o) \/ GiveUp(o)
  \/ \E c \in Conns : Recv(c) \/ Ack(c)

\* Every thread has closed its socket, and nothing is under way.
Done ==
  /\ \A o \in Objects : pc[o] = "done" \/ (o \in Incoming /\ pc[o] = "new")
  /\ toBoard = <<>> /\ toHost = <<>>
  /\ UNCHANGED vars

Next == Board \/ Reader \/ Application \/ Done

Spec == Init /\ [][Next]_vars

-----------------------------------------------------------------------------
(* Properties *)

\* The sum of a function's values: the number of pairs <<x, k>>, k from 1 to f[x].
Under(f) == UNION {{x} \X (1 .. f[x]) : x \in DOMAIN f}
Total(f) == Cardinality(Under(f))

\* The places of connection c's bytes in the transmit queue, and of those from
\* the slot its socket knows: an open that was sent twice has two slots.
Carrying(c) == {i \in DOMAIN toHost : toHost[i].op = "data" /\ toHost[i].conn = c}
Mine(c) == {i \in Carrying(c) : toHost[i].h = handle[c]}

\* How many bytes are on their way to the socket of c.
OnTheWay(c) == Total([i \in DOMAIN toHost |-> IF i \in Mine(c) THEN toHost[i].n ELSE 0])

\* Credit that c has given and that is on its way to the board.
Credits(c) == {i \in DOMAIN toBoard : toBoard[i].op = "ack" /\ toBoard[i].of = c}
CreditOnTheWay(c) == Total([i \in DOMAIN toBoard |-> IF i \in Credits(c) THEN toBoard[i].n ELSE 0])

InUse(c) == pc[c] = "use"

\* The places of its own connection's bytes in what socket c was given.
Own(c) == {i \in DOMAIN fed[c] : fed[c][i][1] = c}

\* What the socket was given, followed by what it will be given, is all that was
\* read: in order, each byte once, none left out.
Whole(c) ==
  /\ \A i, j \in Own(c) : i < j => fed[c][i][2] < fed[c][j][2]
  /\ \A i \in Own(c), j \in Carrying(c) : fed[c][i][2] < toHost[j].from
  /\ \A i, j \in Carrying(c) : i < j => toHost[i].from + toHost[i].n <= toHost[j].from
  /\ {fed[c][i][2] : i \in Own(c)}
       \cup UNION {toHost[j].from .. (toHost[j].from + toHost[j].n - 1) : j \in Carrying(c)}
     = 1 .. read[c]

\* "Firmware forwards at most window un-acked bytes": what a connection that
\* occupies the slot of its socket has under way, unread there and not yet
\* acknowledged stays within the slot's window_used, whatever was lost, sent
\* twice or left in the slot by an older connection.  It is all of window_used
\* while no frame was lost or late and the socket did not race an older one of
\* its handle (raced).  Exempt is a connection whose slot has been given credit
\* for another one's bytes, which a WINDOW_ACK that was under way when the
\* handle changed hands does: the board cannot tell whose credit it is.
CreditConserved ==
  \A c \in Conns : InUse(c) /\ socks[handle[c]] = c /\ c \notin overdrawn =>
    LET owed == OnTheWay(c) + Len(fed[c]) - taken[c] + acking[c] + CreditOnTheWay(c)
    IN  /\ owed <= windowUsed[handle[c]]
        /\ ~lostFrame /\ c \notin raced => owed = windowUsed[handle[c]]

\* A socket is given every byte that was read from its connection, in order,
\* unless a frame was lost or the socket shares its handle with an older one
\* that is not done, or was registered too late.
StreamIsWhole ==
  \A c \in Conns : InUse(c) /\ ~lostFrame /\ c \notin raced => Whole(c)

\* A socket that does not know of its end is given its own bytes only, with
\* the same exceptions.
OnlyOwnBytes ==
  \A c \in Conns : InUse(c) /\ open[c] /\ ~lostFrame /\ c \notin raced =>
    \A b \in Range(fed[c]) : b[1] = c

\* A socket that says it is connected is, or the news of the end is under way.
OpenMeansOpen ==
  \A c \in Conns : InUse(c) /\ open[c] /\ ~lostFrame /\ c \notin raced =>
    \/ socks[handle[c]] = c
    \/ \E i \in DOMAIN toHost : toHost[i].op = "closed" /\ toHost[i].conn = c

\* A connection that occupies a slot of the board has a socket that can close
\* it, or will have, unless a frame was lost or it was accepted while no server
\* was registered.
SlotHasOwner ==
  \A h \in Handles, c \in Conns : socks[h] = c /\ ~lostFrame /\ c \notin raced =>
    \/ pc[c] \in {"register", "use", "closing"}
    \/ \E i \in DOMAIN toHost :
         \/ toHost[i].op = "accept" /\ toHost[i].conn = c
         \/ toHost[i].op = "reply" /\ toHost[i].who = c

\* "Each proxied TCP socket has a credit window ... (lossless)", for sockets
\* the server accepted: no byte is missing while no frame was lost.
Lossless ==
  \A c \in Incoming : InUse(c) /\ ~lostFrame => Whole(c)

=============================================================================
