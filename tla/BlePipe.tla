------------------------------- MODULE BlePipe -------------------------------
(***************************************************************************)
(* The Bluetooth transport (python/espbridge/transports/ble.py,            *)
(* BleTransport): blocking read() and write() for the threads of a Bridge, *)
(* on top of coroutines that an event loop of its own runs.  Frames are    *)
(* cut into writes of _chunk_size bytes; the board finds them again by     *)
(* their delimiters and drops, by their CRC, those that are mixed up.      *)
(***************************************************************************)
EXTENDS Naturals, Sequences, FiniteSets, SequencesExt

CONSTANTS
  Threads,  \* that write
  Pieces,   \* of a frame, before the MTU exchange
  Frames,   \* bound of the model: frames written, notifications received
  Faults    \* bound of the model: calls of bleak that fail or do not come back in time

VARIABLES
  host,    \* the transport: its phase, write lock, coroutines, _rx
  board,   \* the link as the board sees it, what it has received
  wire     \* notifications on their way

vars == <<host, board, wire>>

Shutdown == 0     \* _RX_SHUTDOWN
NoJob == [frame |-> 0, at |-> 0]

TypeOK ==
  /\ host.phase \in {"new", "connecting", "open", "closing", "closed", "failed"}
  /\ host.size \in {1, Pieces}
  /\ \A t \in Threads : host.job[t].frame \in 0 .. Frames
  /\ host.rx \in Seq(0 .. Frames) /\ host.read \in Seq(0 .. Frames)
  /\ board.linked \in BOOLEAN /\ board.sent \in 0 .. Frames
  /\ wire.faults \in 0 .. Faults

Init ==
  /\ host = [phase |-> "new", size |-> Pieces, lock |-> {}, job |-> [t \in Threads |-> NoJob],
             loop |-> {}, written |-> 0, done |-> {}, rx |-> <<>>, read |-> <<>>,
             late |-> FALSE, client |-> FALSE]
  /\ board = [linked |-> FALSE, partial |-> <<>>, got |-> <<>>, sent |-> 0]
  /\ wire = [notes |-> <<>>, faults |-> Faults]

Is(phase) == host.phase = phase
Fault == wire.faults > 0 /\ wire' = [wire EXCEPT !.faults = @ - 1]
NoFault == UNCHANGED wire
WholeFrame(f) == [k \in 1 .. host.size |-> <<f, k>>]

----------------------------------------------------------------------------
(* __init__() and _connect() *)

\* connect() succeeds and the radio is up, or fails and it is not.
Connect ==
  /\ Is("new")
  /\ \/ /\ host' = [host EXCEPT !.phase = "connecting"]
        /\ board' = [board EXCEPT !.linked = TRUE]
        /\ NoFault
     \/ Fault /\ host' = [host EXCEPT !.phase = "failed"] /\ UNCHANGED board

\* start_notify(), then the wait for the MTU exchange, which may not come.  A failure or
\* the timeout of _run() stops the loop; nobody disconnects the client.
Notify ==
  /\ Is("connecting")
  /\ \/ /\ \E n \in {1, Pieces} :
             host' = [host EXCEPT !.phase = "open", !.client = TRUE, !.size = n]
        /\ NoFault
     \/ Fault /\ host' = [host EXCEPT !.phase = "failed"]
  /\ UNCHANGED board

----------------------------------------------------------------------------
(* write(): under the Bridge's _write_lock, a coroutine on the loop, its result awaited *)

\* Deliberately wrong (mutation of WriteStart): the lock of the Bridge is not taken.
WriteStartUnlocked(t) ==
  /\ Is("open") /\ host.job[t] = NoJob /\ host.written < Frames
  /\ LET job == [frame |-> host.written + 1, at |-> 0] IN
     host' = [host EXCEPT !.lock = {t}, !.written = @ + 1, !.job[t] = job,
                          !.loop = @ \cup {job}]
  /\ UNCHANGED <<board, wire>>

WriteStart(t) ==
  /\ Is("open") /\ host.lock = {} /\ host.job[t] = NoJob /\ host.written < Frames
  /\ LET job == [frame |-> host.written + 1, at |-> 0] IN
     host' = [host EXCEPT !.lock = {t}, !.written = @ + 1, !.job[t] = job,
                          !.loop = @ \cup {job}]
  /\ UNCHANGED <<board, wire>>

\* The board appends a piece; the last one of a frame carries the delimiter.
Receive(b, piece, last) ==
  LET got == Append(b.partial, piece) IN
  IF ~last THEN [b EXCEPT !.partial = got]
  ELSE [b EXCEPT !.partial = <<>>,
                 !.got = IF got = WholeFrame(piece[1]) THEN Append(@, piece[1]) ELSE @]

\* _write(): the next write_gatt_char() of a coroutine.  A link that is gone raises.
WriteChunk ==
  \E job \in host.loop :
    LET k    == job.at + 1
        rest == host.loop \ {job}
        end  == [host EXCEPT !.loop = rest, !.done = @ \cup {job.frame}]
    IN IF board.linked
       THEN /\ board' = Receive(board, <<job.frame, k>>, k = host.size)
            /\ host' = IF k = host.size THEN end
                       ELSE [host EXCEPT !.loop = rest \cup {[job EXCEPT !.at = k]}]
            /\ UNCHANGED wire
       ELSE host' = end /\ UNCHANGED <<board, wire>>

\* fut.result(): the coroutine is over.
WriteReturns(t) ==
  /\ host.job[t] # NoJob /\ host.job[t].frame \in host.done
  /\ host' = [host EXCEPT !.job[t] = NoJob, !.lock = @ \ {t}]
  /\ UNCHANGED <<board, wire>>

\* 10 s are over: the lock is given back, the coroutine runs on.
WriteTimeout(t) ==
  /\ host.job[t] # NoJob /\ host.job[t].frame \notin host.done
  /\ Fault
  /\ host' = [host EXCEPT !.job[t] = NoJob, !.lock = @ \ {t}, !.late = TRUE]
  /\ UNCHANGED board

----------------------------------------------------------------------------
(* read(), close() *)

\* A notification of the board, and _on_notify().
Send ==
  /\ board.linked /\ host.phase \in {"open", "closing"} /\ board.sent < Frames
  /\ board' = [board EXCEPT !.sent = @ + 1]
  /\ wire' = [wire EXCEPT !.notes = Append(@, board.sent + 1)]
  /\ UNCHANGED host

OnNotify ==
  /\ wire.notes # <<>> /\ host.phase \in {"open", "closing"}
  /\ host' = [host EXCEPT !.rx = Append(@, Head(wire.notes))]
  /\ wire' = [wire EXCEPT !.notes = Tail(@)]
  /\ UNCHANGED board

\* The reader thread takes the next notification; the sentinel reads as b"".
Read ==
  /\ host.rx # <<>> /\ Shutdown \notin Range(host.read)
  /\ host' = [host EXCEPT !.read = Append(@, Head(host.rx)), !.rx = Tail(@)]
  /\ UNCHANGED <<board, wire>>

\* Out of range: nothing is put into _rx.
LinkDrops ==
  /\ board.linked /\ Is("open")
  /\ Fault
  /\ board' = [board EXCEPT !.linked = FALSE, !.partial = <<>>]
  /\ UNCHANGED host

\* Deliberately wrong (mutation of Close): nobody wakes the reader.
CloseQuietly ==
  /\ Is("open")
  /\ host' = [host EXCEPT !.phase = "closing"]
  /\ UNCHANGED <<board, wire>>

\* The sentinel goes in first, then the client is disconnected.
Close ==
  /\ Is("open")
  /\ host' = [host EXCEPT !.phase = "closing", !.rx = Append(@, Shutdown)]
  /\ UNCHANGED <<board, wire>>

\* _disconnect(), whose errors are ignored, then the loop is stopped with whatever it runs.
Disconnect ==
  /\ Is("closing")
  /\ host' = [host EXCEPT !.phase = "closed", !.loop = {}]
  /\ \/ board' = [board EXCEPT !.linked = FALSE] /\ NoFault
     \/ Fault /\ UNCHANGED board

Next ==
  \/ Connect \/ Notify \/ WriteChunk \/ Send \/ OnNotify \/ Read \/ LinkDrops
  \/ Close \/ Disconnect
  \/ \E t \in Threads : \/ WriteStart(t) \/ WriteReturns(t) \/ WriteTimeout(t)

----------------------------------------------------------------------------

(***************************************************************************)
(* Frames that several threads write reach the board whole and in the      *)
(* order in which they took the lock: each that its coroutine has finished *)
(* is there while the link lasts, unless a write() before it gave up and   *)
(* left its coroutine running (BleTransport.write, _write, _run).          *)
(***************************************************************************)
FramesReachBoard ==
  ~host.late /\ board.linked => board.got = [i \in 1 .. Cardinality(host.done) |-> i]

(***************************************************************************)
(* read() returns what was notified, in order, and close() always lets the *)
(* reader thread go: its sentinel comes after what was there before.       *)
(***************************************************************************)
ReaderIsReleased ==
  /\ LET seen == host.read \o host.rx IN
     \E p \in 1 .. Len(seen) + 1 : \A i \in 1 .. Len(seen) :
       seen[i] = IF i < p THEN i ELSE IF i = p THEN Shutdown ELSE i - 1
  /\ Is("closed") => Shutdown \in Range(host.read \o host.rx)

(***************************************************************************)
(* Each write goes out as one frame (ble.py:244-250), also after another   *)
(* write() has run into its timeout.                                       *)
(***************************************************************************)
WritesAreWhole == board.linked => board.got = [i \in 1 .. Cardinality(host.done) |-> i]

(***************************************************************************)
(* A transport that could not be opened leaves the board free to advertise *)
(* ("BLE connect to ... failed", ble.py:220).                              *)
(***************************************************************************)
FailedIsFree == Is("failed") => ~board.linked
=============================================================================
