------------------------------ MODULE WifiLink ------------------------------
(***************************************************************************)
(* The Wi-Fi link of the firmware: src/esp/link_tcp.cpp with the parts of  *)
(* src/espbridge/protocol.cpp it shares with the other links.  Three tasks *)
(* touch a session: slow_task accepts, dials and drops it, and runs slow   *)
(* requests; rx_task reads and executes its frames; tx_task writes.        *)
(*                                                                         *)
(* tx_task runs on the core of slow_task with a higher priority, so that   *)
(* one pass of it is one step; rx_task has the other core, and can be held *)
(* up inside a request that takes long.  The link stays armed.  A frame    *)
(* for the link is named by the session it answers.                        *)
(***************************************************************************)
EXTENDS Integers, Sequences, SequencesExt, FiniteSets

CONSTANTS
  MaxSessions,  \* bound of the model: TCP connections, numbered in order
  MaxFrames,    \* bound of the model: pieces of its stream a host sends
  Chunk,        \* pieces that fit the buffer of one read
  TxQueue,      \* TXQ_DEPTH
  SlowQueue,    \* SLOWQ_DEPTH
  MaxLosses,    \* bound of the model: times the board loses its access point
  Modes         \* {"listen"}, {"dial"} or both

ASSUME LinkAssumption ==
  /\ MaxSessions \in Nat \ {0} /\ MaxFrames \in Nat /\ MaxLosses \in Nat
  /\ Chunk \in Nat \ {0} /\ TxQueue \in Nat \ {0} /\ SlowQueue \in Nat \ {0}
  /\ Modes \subseteq {"listen", "dial"} /\ Modes # {}

Sessions == 1..MaxSessions
NoOne    == 0
Event    == 0   \* the frame of an event, which answers nobody

\* What rx_task finds in a piece of the stream, chosen as it does: SYS_AUTH with the right password, a request
\* executed at once, one that takes long on rx_task, one for slow_task, and
\* the two parts of a frame that arrives in two reads.
Kinds == {"auth", "quick", "long", "slow", "front", "rest"}

VARIABLES
  mode,       \* cfg_srv empty ("listen") or set ("dial")
  joined,     \* WiFi.status() == WL_CONNECTED
  listening,  \* listen_fd is open
  backlog,    \* the session waiting to be accepted
  dialing,    \* the session dial_fd is to become
  sock,       \* the session of the peer socket
  peerDead,   \* peer_dead
  authed,     \* authed_flag
  conn,       \* each session, as its host sees it
  read,       \* pieces of each session rx_task has read
  chunk,      \* the session of its last read, and pieces of it not executed
  cut,        \* sessions the last piece of which was the front of a frame
  acc,        \* the session whose half frame is in the accumulator
  held,       \* the session of the long request rx_task is inside
  slowAt,     \* where slow_task is in its loop
  dropping,   \* the session drop_peer() is closing
  slowq,      \* slow requests, by session
  running,    \* the session of the slow request being run
  txq,        \* frames for this link
  wire,       \* the frame tx_task is writing
  losses,
  granted,    \* ghost: the session whose SYS_AUTH was executed last
  straddled,  \* ghost: rx_task was inside a session when the next one began
  outlived,   \* ghost: sessions that left a request behind for their successor
  stray,      \* ghost: answers written to another session, <<asked, got>>
  spoiled     \* ghost: sessions a frame of which met another's half frame

air    == <<mode, joined, losses>>
peer   == <<sock, peerDead, authed>>
fds    == <<listening, backlog, dialing>>
rx     == <<read, chunk, cut, acc, held>>
slow   == <<slowAt, dropping, slowq, running>>
tx     == <<txq, wire>>
ghosts == <<granted, straddled, outlived, stray, spoiled>>
vars   == <<air, peer, fds, conn, rx, slow, tx, ghosts>>

Idle  == [busy |-> FALSE, for |-> NoOne, begun |-> NoOne]
Empty == [of |-> NoOne, left |-> 0]

\* Every variable stays in its range: no queue is longer than it was created.
TypeOK ==
  /\ mode \in Modes
  /\ {joined, listening, peerDead, authed, straddled} \subseteq BOOLEAN
  /\ {backlog, dialing, sock, acc, held, dropping, running, granted}
        \subseteq Sessions \cup {NoOne}
  /\ conn \in [Sessions -> {"new", "open", "closed"}]
  /\ read \in [Sessions -> 0..MaxFrames]
  /\ chunk \in [of : Sessions \cup {NoOne}, left : 0..Chunk]
  /\ cut \subseteq Sessions
  /\ slowAt \in {"loop", "run", "poll", "link", "dead", "lost"}
  /\ slowq \in Seq(Sessions) /\ Len(slowq) <= SlowQueue
  /\ txq \in Seq(Sessions \cup {Event}) /\ Len(txq) <= TxQueue
  /\ wire \in [busy : BOOLEAN, for : Sessions \cup {Event}, begun : Sessions \cup {NoOne}]
  /\ losses \in 0..MaxLosses
  /\ stray \subseteq Sessions \X Sessions
  /\ outlived \subseteq Sessions /\ spoiled \subseteq Sessions

Init ==
  /\ mode \in Modes /\ joined = FALSE /\ losses = 0
  /\ sock = NoOne /\ peerDead = FALSE /\ authed = FALSE
  /\ listening = FALSE /\ backlog = NoOne /\ dialing = NoOne
  /\ conn = [s \in Sessions |-> "new"]
  /\ read = [s \in Sessions |-> 0] /\ chunk = Empty /\ cut = {}
  /\ acc = NoOne /\ held = NoOne
  /\ slowAt = "loop" /\ dropping = NoOne /\ slowq = <<>> /\ running = NoOne
  /\ txq = <<>> /\ wire = Idle
  /\ granted = NoOne /\ straddled = FALSE /\ outlived = {}
  /\ stray = {} /\ spoiled = {}

-----------------------------------------------------------------------------
(* The hosts and the access point *)

\* Sessions are used in order.
Fresh(s) == conn[s] = "new" /\ \A r \in 1..(s - 1) : conn[r] # "new"

\* A host connects to the listening board; lwip_listen() holds one connection.
HostConnects(s) ==
  /\ listening /\ backlog = NoOne /\ Fresh(s)
  /\ conn' = [conn EXCEPT ![s] = "open"] /\ backlog' = s
  /\ UNCHANGED <<air, peer, listening, dialing, rx, slow, tx, ghosts>>

\* A host closes, or is gone for so long that keepalive gives it up.
HostCloses(s) ==
  /\ conn[s] = "open"
  /\ conn' = [conn EXCEPT ![s] = "closed"]
  /\ UNCHANGED <<air, peer, fds, rx, slow, tx, ghosts>>

Joins ==
  /\ ~joined /\ joined' = TRUE
  /\ UNCHANGED <<mode, losses, peer, fds, conn, rx, slow, tx, ghosts>>

LosesAccessPoint ==
  /\ joined /\ losses < MaxLosses
  /\ joined' = FALSE /\ losses' = losses + 1
  /\ UNCHANGED <<mode, peer, fds, conn, rx, slow, tx, ghosts>>

-----------------------------------------------------------------------------
(* Transmit queue and tx_task *)

\* Deliberately wrong (mutation of Enqueue): the queue is taken to have room.
EnqueueAnyway(s) == txq' = Append(txq, s)

\* enqueue_frame() of an answer on this link.  Its wait of up to 250 ms for
\* room is the step not being taken yet; after that the frame is dropped.
Enqueue(s) == txq' = IF Len(txq) < TxQueue THEN Append(txq, s) ELSE txq

Up == sock # NoOne /\ ~peerDead

\* Deliberately wrong (mutation of EmitEvent): to every link that is up.
EmitEventToAll ==
  /\ Up /\ Len(txq) < TxQueue
  /\ txq' = Append(txq, Event)
  /\ UNCHANGED <<air, peer, fds, conn, rx, slow, wire, ghosts>>

\* Any task emits an event; a link that is not authenticated gets none, and a
\* full queue drops it at once.
EmitEvent ==
  /\ Up /\ authed /\ Len(txq) < TxQueue
  /\ txq' = Append(txq, Event)
  /\ UNCHANGED <<air, peer, fds, conn, rx, slow, wire, ghosts>>

Loaded == IF wire.busy THEN wire ELSE [Idle EXCEPT !.busy = TRUE, !.for = Head(txq)]

\* One pass: load a frame, drop everything when the peer is gone, and write
\* nothing (congested), a part, or all that is left.
TxPass ==
  /\ wire.busy \/ txq # <<>>
  /\ \/ /\ ~Up
        /\ txq' = <<>> /\ wire' = Idle
        /\ UNCHANGED <<peerDead, stray>>
     \/ /\ Up
        /\ txq' = IF wire.busy THEN txq ELSE Tail(txq)
        /\ \/ /\ wire' = Loaded
              /\ peerDead' \in {FALSE, conn[sock] = "closed"}
              /\ UNCHANGED stray
           \/ /\ wire' \in {[Loaded EXCEPT !.begun = IF @ = NoOne THEN sock ELSE @], Idle}
              /\ stray' = IF Loaded.for \in {Event, sock} THEN stray
                          ELSE stray \cup {<<Loaded.for, sock>>}
              /\ UNCHANGED peerDead
  /\ UNCHANGED <<air, sock, authed, fds, conn, rx, slow, granted, straddled, outlived, spoiled>>

-----------------------------------------------------------------------------
(* rx_task *)

RxFree == chunk.left = 0 /\ held = NoOne

\* Deliberately wrong (mutation of RxRead): an orderly close reads as nothing.
RxReadForEver ==
  /\ RxFree /\ Up
  /\ \E n \in 1..Chunk :
       /\ read[sock] + n <= MaxFrames
       /\ chunk' = [of |-> sock, left |-> n]
       /\ read' = [read EXCEPT ![sock] = @ + n]
  /\ UNCHANGED <<air, peer, fds, conn, cut, acc, held, slow, tx, ghosts>>

\* link_tcp_read(): some of what the host has sent, or the end of the
\* connection.
RxRead ==
  /\ RxFree /\ Up
  /\ \/ \E n \in 1..Chunk :
          /\ read[sock] + n <= MaxFrames
          /\ chunk' = [of |-> sock, left |-> n]
          /\ read' = [read EXCEPT ![sock] = @ + n]
          /\ UNCHANGED peerDead
     \/ /\ conn[sock] = "closed"
        /\ peerDead' = TRUE
        /\ UNCHANGED <<read, chunk>>
  /\ UNCHANGED <<air, sock, authed, fds, conn, cut, acc, held, slow, tx, ghosts>>

\* handle_auth() and dispatch() of a complete frame: the flag, not the
\* session, decides whether it is let through.
Execute(s, kind) ==
  /\ authed' = (authed \/ kind = "auth")
  /\ granted' = IF kind = "auth" THEN s ELSE granted
  /\ LET toSlow == authed /\ kind = "slow" /\ Len(slowq) < SlowQueue
         long   == authed /\ kind = "long"
     IN  /\ slowq' = IF toSlow THEN Append(slowq, s) ELSE slowq
         /\ held' = IF long THEN s ELSE NoOne
         /\ IF toSlow \/ long THEN UNCHANGED txq ELSE Enqueue(s)

\* The next piece of the chunk goes through the accumulator.  A host sends
\* the rest of a frame after its front, and nothing else.
RxPiece(kind) ==
  /\ chunk.left > 0 /\ held = NoOne
  /\ kind = "rest" <=> chunk.of \in cut
  /\ LET s == chunk.of
         left == chunk.left - 1
         mixed == acc \notin {NoOne, s}
     IN  /\ chunk' = IF left = 0 THEN Empty ELSE [chunk EXCEPT !.left = left]
         /\ cut' = IF kind = "front" THEN cut \cup {s} ELSE cut \ {s}
         /\ spoiled' = IF mixed THEN spoiled \cup {s} ELSE spoiled
         /\ acc' = IF kind # "front" THEN NoOne ELSE IF mixed THEN acc ELSE s
         /\ IF kind = "front" \/ mixed \/ (kind = "rest" /\ acc # s)
            THEN UNCHANGED <<authed, granted, slowq, held, txq>>
            ELSE Execute(s, kind)
  /\ UNCHANGED <<air, sock, peerDead, fds, conn, read, slowAt, dropping, running, wire,
                 straddled, outlived, stray>>

\* A long request answers.
RxUnblock ==
  /\ held # NoOne
  /\ Enqueue(held) /\ held' = NoOne
  /\ UNCHANGED <<air, peer, fds, conn, read, chunk, cut, acc, slow, wire, ghosts>>

RxTask == RxRead \/ RxUnblock \/ \E kind \in Kinds : RxPiece(kind)

-----------------------------------------------------------------------------
(* slow_task: one request, if there is one, and one link_tcp_poll() *)

SlowTake ==
  /\ slowAt = "loop" /\ slowq # <<>>
  /\ running' = Head(slowq) /\ slowq' = Tail(slowq) /\ slowAt' = "run"
  /\ UNCHANGED <<air, peer, fds, conn, rx, dropping, tx, ghosts>>

SlowReply ==
  /\ slowAt = "run"
  /\ Enqueue(running) /\ running' = NoOne /\ slowAt' = "poll"
  /\ UNCHANGED <<air, peer, fds, conn, rx, dropping, slowq, wire, ghosts>>

\* Deliberately wrong (mutations of Reset): the frame being written stays; the
\* queue stays; the half frame stays.
ResetQueueOnly == acc' = NoOne /\ txq' = <<>> /\ UNCHANGED wire
ResetWireOnly  == acc' = NoOne /\ wire' = Idle /\ UNCHANGED txq
ResetSending   == UNCHANGED acc /\ txq' = <<>> /\ wire' = Idle

\* proto_link_tcp_reset(): no half frame, nothing queued, nothing on its way.
Reset == acc' = NoOne /\ txq' = <<>> /\ wire' = Idle

\* drop_peer() up to its pause of two ticks.
DropBegin(where) ==
  /\ dropping' = sock
  /\ sock' = NoOne /\ peerDead' = FALSE /\ authed' = FALSE
  /\ slowAt' = where
  /\ UNCHANGED <<air, fds, conn, rx, slowq, running, tx, ghosts>>

CloseFds(gone) ==
  /\ listening' = FALSE /\ backlog' = NoOne /\ dialing' = NoOne
  /\ conn' = [s \in Sessions |-> IF s \in gone \cup {backlog, dialing} THEN "closed" ELSE conn[s]]

\* The rest of drop_peer().  The pause lets rx_task leave what it is doing,
\* unless that is a long request.  Where the drop came from the access point
\* the poll goes on to close the other sockets.
DropEnd ==
  /\ slowAt \in {"dead", "lost"}
  /\ chunk.left = 0 \/ held # NoOne
  /\ Reset /\ dropping' = NoOne
  /\ IF slowAt = "lost"
     THEN CloseFds({dropping}) /\ slowAt' = "loop"
     ELSE /\ conn' = [conn EXCEPT ![dropping] = "closed"] /\ slowAt' = "link"
          /\ UNCHANGED fds
  /\ UNCHANGED <<air, peer, read, chunk, cut, held, slowq, running, ghosts>>

\* A poll follows a request, or the 2 ms for which there was none.
Due == slowAt = "poll" \/ (slowAt = "loop" /\ slowq = <<>>)

PollDead == Due /\ peerDead /\ DropBegin("dead")

\* The poll goes on with the state of the radio.
Polling == slowAt = "link" \/ (Due /\ ~peerDead)

PollLost == Polling /\ ~joined /\ sock # NoOne /\ DropBegin("lost")

PollUnjoined ==
  /\ Polling /\ ~joined /\ sock = NoOne
  /\ CloseFds({}) /\ slowAt' = "loop"
  /\ UNCHANGED <<air, peer, rx, dropping, slowq, running, tx, ghosts>>

\* A peer is there, or a failed attempt is to be waited out.
PollNothing ==
  /\ Polling /\ joined /\ slowAt' = "loop"
  /\ sock # NoOne \/ mode = "dial" \/ ~listening
  /\ UNCHANGED <<air, peer, fds, conn, rx, dropping, slowq, running, tx, ghosts>>

\* Deliberately wrong (mutation of Adopt): drop_peer() cleared the flag already.
AdoptAsIs(s) ==
  /\ Reset
  /\ sock' = s /\ peerDead' = FALSE /\ UNCHANGED authed
  /\ straddled' = (straddled \/ ~RxFree)
  /\ outlived' = outlived \cup ToSet(slowq) \cup ({held} \ {NoOne})
                   \cup ({chunk.of} \ {NoOne})
  /\ slowAt' = "loop"
  /\ UNCHANGED <<air, read, chunk, cut, held, dropping, slowq, running, granted, stray, spoiled>>

\* adopt_peer(): nothing is left of the last session, and this one has to
\* give the password.
Adopt(s) ==
  /\ Reset
  /\ authed' = FALSE /\ sock' = s /\ peerDead' = FALSE
  /\ straddled' = (straddled \/ ~RxFree)
  /\ outlived' = outlived \cup ToSet(slowq) \cup ({held} \ {NoOne})
                   \cup ({chunk.of} \ {NoOne})
  /\ slowAt' = "loop"
  /\ UNCHANGED <<air, read, chunk, cut, held, dropping, slowq, running, granted, stray, spoiled>>

\* poll_accept(): open the listening socket if need be, and take who waits.
PollAccept ==
  /\ Polling /\ joined /\ mode = "listen" /\ sock = NoOne
  /\ listening' = TRUE /\ backlog' = NoOne
  /\ IF backlog # NoOne THEN Adopt(backlog)
     ELSE /\ slowAt' = "loop"
          /\ UNCHANGED <<air, peer, rx, dropping, slowq, running, tx, ghosts>>
  /\ UNCHANGED <<dialing, conn>>

\* poll_dial() with no attempt in flight: connected at once, or on the way.
PollDial(s) ==
  /\ Polling /\ joined /\ mode = "dial" /\ sock = NoOne /\ dialing = NoOne /\ Fresh(s)
  /\ conn' = [conn EXCEPT ![s] = "open"]
  /\ \/ Adopt(s) /\ UNCHANGED dialing
     \/ /\ dialing' = s /\ slowAt' = "loop"
        /\ UNCHANGED <<air, peer, rx, dropping, slowq, running, tx, ghosts>>
  /\ UNCHANGED <<listening, backlog>>

\* poll_dial() with one: it connected, or it failed or took ten seconds.
PollDialled ==
  /\ Polling /\ joined /\ mode = "dial" /\ sock = NoOne /\ dialing # NoOne
  /\ dialing' = NoOne
  /\ \/ conn[dialing] = "open" /\ Adopt(dialing) /\ UNCHANGED conn
     \/ /\ conn' = [conn EXCEPT ![dialing] = "closed"] /\ slowAt' = "loop"
        /\ UNCHANGED <<air, peer, rx, dropping, slowq, running, tx, ghosts>>
  /\ UNCHANGED <<listening, backlog>>

SlowTask ==
  \/ SlowTake \/ SlowReply \/ PollDead \/ DropEnd \/ PollLost \/ PollUnjoined
  \/ PollNothing \/ PollAccept \/ PollDialled \/ \E s \in Sessions : PollDial(s)

-----------------------------------------------------------------------------
Environment ==
  \/ Joins \/ LosesAccessPoint
  \/ \E s \in Sessions : HostConnects(s) \/ HostCloses(s)

Next == Environment \/ RxTask \/ EmitEvent \/ TxPass \/ SlowTask

Spec     == Init /\ [][Next]_vars
\* Both tasks run for ever; hosts and the radio owe nothing.
FairSpec == Spec /\ WF_vars(RxTask) /\ WF_vars(SlowTask)

-----------------------------------------------------------------------------
(* Properties *)

\* A session that may command the board gave the password itself, however its
\* predecessor ended; unless rx_task was still inside the predecessor.
AuthIsOwn == sock # NoOne /\ authed /\ ~straddled => granted = sock

\* An answer reaches another session than the one that asked only when the
\* request itself, queued or being executed, outlived its session.
AnswersStay == \A a \in stray : a[1] \in outlived

\* The end of a frame goes where its beginning went, and a session that has
\* not given the password gets no event.
FramesStayWhole ==
  sock # NoOne =>
    /\ wire.busy => wire.begun \in {NoOne, sock}
    /\ ~authed => Event \notin ToSet(txq) /\ (wire.busy => wire.for # Event)

\* A frame is spoiled by another session's half frame only when rx_task was
\* still inside that session.
HalfFramesForgotten == spoiled # {} => straddled

\* The board gives up a session whose host is gone, so that another can have
\* the link.
SessionEnds == \A s \in Sessions : conn[s] = "closed" ~> sock # s

\* What docs/PROTOCOL.md:108 says: a new connection replaces the previous one.
NewcomerWins ==
  \A s \in Sessions : backlog = s /\ conn[s] = "open" ~> sock = s \/ conn[s] = "closed"
=============================================================================
