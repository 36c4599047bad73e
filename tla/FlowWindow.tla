----------------------------- MODULE FlowWindow -----------------------------
(***************************************************************************)
(* Flow control of the host library (python/espbridge/bridge.py):          *)
(* threads that write to one link reserve bytes of the firmware's receive  *)
(* ring before a request, count the bytes of fire-and-forget frames after  *)
(* they are written, and release both when a reply proves the ring was     *)
(* read.  The link is open and its handshake done (_ready is set).         *)
(*                                                                         *)
(* The pipe stands for the wire and the ring together, the worst case for  *)
(* the ring.  The firmware reads it in order and answers requests.         *)
(***************************************************************************)
EXTENDS Integers, Sequences, FiniteSets, FiniteSetsExt

CONSTANTS
  Threads,      \* host threads sharing the Bridge
  Sizes,        \* bytes of the frames they write
  PingSize,     \* bytes of the SYS_PING that send() uses as a fence
  MaxInflight,  \* the transport's max_inflight
  BurstWindow,  \* the transport's burst_window
  Ring,         \* SERIAL_RX_BUF: the windows plus one frame of maximum size
  MaxCalls      \* bound of the model: calls of request() and send()

Nobody == "nobody"

ASSUME FlowAssumption ==
  /\ IsFiniteSet(Threads) /\ Nobody \notin Threads
  /\ Sizes \subseteq Nat \ {0}
  /\ PingSize \in Nat \ {0}
  /\ MaxInflight \in Nat /\ BurstWindow \in Nat /\ Ring \in Nat
  /\ MaxCalls \in Nat
  /\ \A n \in Sizes \cup {PingSize} : n <= MaxInflight /\ MaxInflight + n <= Ring
  /\ \A n \in Sizes : n <= BurstWindow
  /\ \A n \in Sizes \cup {PingSize} : BurstWindow + n <= Ring

PCs == {"idle", "check", "reserve", "waiting", "write", "wait", "sendWrite", "count"}

VARIABLES
  unacked,    \* _unacked: bytes reserved by requests
  sendBytes,  \* _send_bytes: bytes of frames that get no reply
  pipe,       \* frames written and not yet read by the firmware
  lost,       \* the ring had no room for a frame
  pc, sending, len,   \* each thread: place, send() or request(), frame size
  woken,      \* each thread: its reply was delivered
  closing,    \* _closing
  reading,    \* the reader thread runs
  calls,
  slips,      \* waits that ran out and writes that failed: none, one or more
  callers, senders    \* who has called so far, and who has called send()

flow    == <<unacked, sendBytes>>
link    == <<pipe, lost>>
procs   == <<pc, sending, len, woken>>
history == <<callers, senders>>
vars    == <<flow, link, procs, closing, reading, calls, slips, history>>

Frame == [who : Threads \cup {Nobody}, size : Sizes \cup {PingSize}]

TypeOK ==
  /\ unacked \in Nat /\ sendBytes \in Nat
  /\ pipe \in Seq(Frame)
  /\ lost \in BOOLEAN /\ closing \in BOOLEAN /\ reading \in BOOLEAN
  /\ pc \in [Threads -> PCs]
  /\ sending \in [Threads -> BOOLEAN]
  /\ len \in [Threads -> Sizes \cup {0}]
  /\ woken \in [Threads -> BOOLEAN]
  /\ calls \in 0..MaxCalls /\ slips \in 0..2
  /\ callers \in SUBSET Threads /\ senders \in SUBSET callers

Init ==
  /\ unacked = 0 /\ sendBytes = 0
  /\ pipe = <<>> /\ lost = FALSE /\ closing = FALSE /\ reading = TRUE
  /\ pc = [t \in Threads |-> "idle"]
  /\ sending = [t \in Threads |-> FALSE]
  /\ len = [t \in Threads |-> 0]
  /\ woken = [t \in Threads |-> FALSE]
  /\ calls = 0 /\ slips = 0
  /\ callers = {} /\ senders = {}

-----------------------------------------------------------------------------
\* The request a thread makes: its own, or the fence of its send().
Request(t) == IF sending[t] THEN PingSize ELSE len[t]

\* The sum of a function's values: the number of pairs <<x, i>>, i from 1 to f[x].
Under(f) == UNION {{x} \X (1 .. f[x]) : x \in DOMAIN f}
Total(f) == Cardinality(Under(f))

Bytes(q) == Total([i \in DOMAIN q |-> q[i].size])

Goto(t, place) == pc' = [pc EXCEPT ![t] = place]

\* Condition.notify_all(): waiting threads look at the window again.
Notified(t, place) ==
  pc' = [u \in Threads |-> IF u = t THEN place
                           ELSE IF pc[u] = "waiting" THEN "reserve" ELSE pc[u]]

\* A frame arrives in the ring, or finds no room and is damaged.
Put(f) ==
  IF Bytes(pipe) + f.size <= Ring
  THEN pipe' = Append(pipe, f) /\ UNCHANGED lost
  ELSE lost' = TRUE /\ UNCHANGED pipe

Slip == slips' = Min({slips + 1, 2})

\* Deliberately wrong (mutation of DecrWindow): any reply empties the window.
DecrWindowAll(t, place, clear) ==
  /\ unacked' = 0
  /\ sendBytes' = IF clear THEN 0 ELSE sendBytes
  /\ Notified(t, place)

\* Deliberately wrong (mutation of DecrWindow): nobody is notified.
DecrWindowSilent(t, place, clear) ==
  /\ unacked' = Max({0, unacked - Request(t)})
  /\ sendBytes' = IF clear THEN 0 ELSE sendBytes
  /\ Goto(t, place)

\* Deliberately wrong (mutation of DecrWindow): released where the reply is
\* taken and once more at the end.
DecrWindowTwice(t, place, clear) ==
  /\ unacked' = unacked - Request(t) - Request(t)
  /\ sendBytes' = IF clear THEN 0 ELSE sendBytes
  /\ Notified(t, place)

\* _decr_window(): release the request's bytes, and all of send()'s when a
\* reply came, then let the waiting threads look again.
DecrWindow(t, place, clear) ==
  /\ unacked' = Max({0, unacked - Request(t)})
  /\ sendBytes' = IF clear THEN 0 ELSE sendBytes
  /\ Notified(t, place)

-----------------------------------------------------------------------------
(* request() and send() *)

Start(t, n, send) ==
  /\ pc[t] = "idle" /\ calls < MaxCalls
  /\ calls' = calls + 1
  /\ len' = [len EXCEPT ![t] = n]
  /\ sending' = [sending EXCEPT ![t] = send]
  /\ Goto(t, IF send THEN "check" ELSE "reserve")
  /\ callers' = callers \cup {t}
  /\ senders' = IF send THEN senders \cup {t} ELSE senders
  /\ UNCHANGED <<flow, link, woken, closing, reading, slips>>

\* send() looks whether its bytes fit; when they do not, a ping goes first.
CheckBurst(t) ==
  /\ pc[t] = "check"
  /\ Goto(t, IF unacked + sendBytes + len[t] > BurstWindow THEN "reserve" ELSE "sendWrite")
  /\ UNCHANGED <<flow, link, sending, len, woken, closing, reading, calls, slips, history>>

\* The window has no room for the thread's request.
Full(t) == unacked + sendBytes + Request(t) > MaxInflight

\* Deliberately wrong (mutation of Reserve): the request passes the check and
\* counts only after its write.
ReserveUncounted(t) ==
  /\ pc[t] = "reserve"
  /\ Goto(t, IF Full(t) /\ ~closing THEN "waiting" ELSE "write")
  /\ UNCHANGED <<flow, link, sending, len, woken, closing, reading, calls, slips, history>>

\* _reserve_window(): look and reserve under one lock, or wait.
Reserve(t) ==
  /\ pc[t] = "reserve"
  /\ IF Full(t) /\ ~closing
     THEN Goto(t, "waiting") /\ UNCHANGED unacked
     ELSE Goto(t, "write") /\ unacked' = unacked + Request(t)
  /\ UNCHANGED <<sendBytes, link, sending, len, woken, closing, reading, calls, slips, history>>

\* The wait for room runs out: the request goes ahead all the same.
FallThrough(t) ==
  /\ pc[t] = "waiting"
  /\ Slip
  /\ unacked' = unacked + Request(t)
  /\ Goto(t, "write")
  /\ UNCHANGED <<sendBytes, link, sending, len, woken, closing, reading, calls, history>>

Write(t) ==
  /\ pc[t] = "write"
  /\ Put([who |-> t, size |-> Request(t)])
  /\ Goto(t, "wait")
  /\ UNCHANGED <<flow, sending, len, woken, closing, reading, calls, slips, history>>

\* The reply has come: the call returns, or the fence is passed and send()
\* goes on.
Replied(t) ==
  /\ pc[t] = "wait" /\ woken[t]
  /\ DecrWindow(t, IF sending[t] THEN "sendWrite" ELSE "idle", TRUE)
  /\ woken' = [woken EXCEPT ![t] = FALSE]
  /\ UNCHANGED <<link, sending, len, closing, reading, calls, slips, history>>

\* No reply in time, or the write raised, or the reader ended: request() and
\* send() raise.  A late
\* reply will find nobody.
RequestFails(t) ==
  /\ pc[t] \in {"write", "wait"} /\ ~woken[t]
  /\ Slip
  /\ DecrWindow(t, "idle", FALSE)
  /\ pipe' = [i \in DOMAIN pipe |->
                IF pipe[i].who = t THEN [pipe[i] EXCEPT !.who = Nobody] ELSE pipe[i]]
  /\ UNCHANGED <<lost, sending, len, woken, closing, reading, calls, history>>

\* send() writes, and counts what it wrote in a second step.
SendWrite(t) ==
  /\ pc[t] = "sendWrite"
  /\ Put([who |-> Nobody, size |-> len[t]])
  /\ Goto(t, "count")
  /\ UNCHANGED <<flow, sending, len, woken, closing, reading, calls, slips, history>>

Count(t) ==
  /\ pc[t] = "count"
  /\ sendBytes' = sendBytes + len[t]
  /\ Goto(t, "idle")
  /\ UNCHANGED <<unacked, link, sending, len, woken, closing, reading, calls, slips, history>>

\* close() sets the flag; the reader thread will notify who waits for room.
Close ==
  /\ ~closing
  /\ closing' = TRUE
  /\ UNCHANGED <<flow, link, procs, reading, calls, slips, history>>

\* The reader thread ends, because of close() or of a failing transport.
ReaderEnds ==
  /\ reading
  /\ reading' = FALSE
  /\ pc' = [t \in Threads |-> IF pc[t] = "waiting" THEN "reserve" ELSE pc[t]]
  /\ UNCHANGED <<flow, link, sending, len, woken, closing, calls, slips, history>>

\* rx_task reads the next frame and answers a request; the reader thread
\* delivers the answer.
Consume ==
  /\ pipe # <<>>
  /\ pipe' = Tail(pipe)
  /\ woken' = [t \in Threads |-> woken[t] \/ (reading /\ t = Head(pipe).who)]
  /\ UNCHANGED <<flow, lost, pc, sending, len, closing, reading, calls, slips, history>>

\* Everything was called, has ended and was read.
Done ==
  /\ calls = MaxCalls /\ closing /\ pipe = <<>>
  /\ \A t \in Threads : pc[t] = "idle"
  /\ UNCHANGED vars

ThreadStep(t) ==
  \/ CheckBurst(t) \/ Reserve(t) \/ FallThrough(t) \/ Write(t) \/ Replied(t)
  \/ RequestFails(t) \/ SendWrite(t) \/ Count(t)

Next ==
  \/ \E t \in Threads : ThreadStep(t)
  \/ \E t \in Threads, n \in Sizes, send \in BOOLEAN : Start(t, n, send)
  \/ Close \/ ReaderEnds \/ Consume \/ Done

Spec == Init /\ [][Next]_vars

-----------------------------------------------------------------------------
(* Properties *)

\* Threads whose request is reserved and not yet released.
Live == {t \in Threads : pc[t] \in {"write", "wait"}}

\* _unacked is the sum of what the requests under way reserved: each releases
\* its own bytes once, whether it was answered, timed out or was never
\* written, and never more than are there.
ReservedIsLive == unacked = Total([t \in Live |-> Request(t)])

\* A thread that waits for room with no send() bytes outstanding waits for
\* somebody: a request is under way whose end will wake it.
WaiterIsNotAlone ==
  \A t \in Threads : pc[t] = "waiting" /\ sendBytes = 0 => Live # {}

\* Two kinds of use that cannot overrun the ring: one thread alone, and
\* threads that wait for every reply.
Mixed == \E t \in senders : callers # {t}

\* "Total unacknowledged bytes under the ring minus one max-size frame": no
\* byte is lost unless waits ran out, the Bridge is being closed, or one
\* thread sends without waiting beside another one.
OverrunHasCause == lost => slips > 1 \/ closing \/ Mixed

\* What serial.py and config.h say of the two windows: as long as no wait ran
\* out and the Bridge is open, the ring cannot overflow, whoever writes what.
RingHolds == lost => slips > 0 \/ closing

=============================================================================
