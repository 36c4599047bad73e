--------------------------- MODULE ChunkedTransfers ---------------------------
(***************************************************************************)
(* Calls that are many requests: a picture for a panel (drivers/oled.py),  *)
(* a frame of a camera (camera.py), a recording and a playback (i2s.py),   *)
(* a stream to a peer (TcpSocket.send, net.py), a long SPI transfer        *)
(* (spi.py), the pulses of a motor (drivers/stepper.py).  A request that   *)
(* times out is sent again unless constants.NON_IDEMPOTENT has its         *)
(* command; threads come in between.  Init chooses the kind.               *)
(***************************************************************************)
EXTENDS Integers, FiniteSets, SequencesExt, FiniteSetsExt

CONSTANTS
  Threads,  \* of the host
  Painters, \* those of them that draw on a panel
  Kinds,    \* among panel, camera, mic, speaker, tcp, spi, stepper
  Calls,    \* bound of the model: calls
  Faults    \* bound of the model: requests or replies that are lost

VARIABLES
  host,    \* the calls, what the finished ones returned; Stepper.position
  board,   \* what the other end has got
  wire     \* bounds

vars == <<host, board, wire>>

PieceItems == 3                  \* of the model: items in a request
Width == 3
Pages == 2
Lens == {2, 5}              \* of the model: items in a call
RamColumns == 0 .. 4        \* wider than the window
Noise == <<0, 0>>

Idle == [op |-> "none", id |-> 0, off |-> 0, len |-> 0, got |-> <<>>, tried |-> FALSE,
         alone |-> TRUE, forward |-> TRUE]
Op(t) == host.call[t].op
Active == {t \in Threads : Op(t) # "none"}

TypeOK ==
  /\ host.kind \in Kinds /\ host.position \in Int /\ host.unseen \in BOOLEAN
  /\ \A t \in Threads : /\ Op(t) \in {"none", "capture", "release", "direction", "address", "piece"}
                        /\ host.call[t].off <= host.call[t].len
  /\ board.position \in Int /\ board.held \in Nat
  /\ board.page \in 0 .. Pages - 1 /\ board.column \in RamColumns
  /\ wire.calls \in 0 .. Calls /\ wire.faults \in 0 .. Faults

\* A small Wire buffer cuts the rows of a panel; "colstart" is where its window is in its RAM;
\* some clones lose the column between two transfers.
Init ==
  /\ \E kind \in Kinds : \E cut \in {2, 3}, colstart \in {0, 2} :
       /\ kind # "panel" => cut = 2 /\ colstart = 0
       /\ host = [kind |-> kind, call |-> [t \in Threads |-> Idle], done |-> {}, position |-> 0,
                  cut |-> cut, colstart |-> colstart, unseen |-> FALSE, mixed |-> FALSE]
  /\ \E keeps \in BOOLEAN :
       /\ host.kind # "panel" => keeps
       /\ board = [stream |-> <<>>, next |-> 1, held |-> 0, frames |-> 0, position |-> 0,
                   forward |-> TRUE, keeps |-> keeps, page |-> 0, column |-> 0,
                   ram |-> [p \in 0 .. Pages - 1 |-> [c \in RamColumns |-> Noise]]]
  /\ wire = [calls |-> Calls, faults |-> Faults]

----------------------------------------------------------------------------
(* A request and its reply *)

\* Deliberately wrong (mutation of NonIdempotent): the commands of sockets are left out.
NonIdempotentButSend == {"speaker", "stepper", "capture"}

\* constants.NON_IDEMPOTENT: NET_SEND, I2S_WRITE, RMT_TX, CAM_CAPTURE.
NonIdempotent == {"tcp", "speaker", "stepper", "capture"}

Command(t) == IF Op(t) = "piece" THEN host.kind ELSE Op(t)
Retries(t) == Command(t) \notin NonIdempotent /\ ~host.call[t].tried

Finish(t, ok) ==
  LET c == host.call[t] IN
  [host EXCEPT !.call[t] = Idle,
               !.done = @ \cup {[id |-> c.id, n |-> c.off, len |-> c.len, got |-> c.got,
                                 ok |-> ok, alone |-> c.alone]}]

TimedOut(t) == IF Retries(t) THEN [host EXCEPT !.call[t].tried = TRUE] ELSE Finish(t, FALSE)

\* The board does its part, and the reply arrives; or one of the two is lost.
Request(t, after, replied) ==
  \/ /\ board' = after /\ host' = replied /\ UNCHANGED wire
  \/ /\ wire.faults > 0
     /\ board' \in {board, after} /\ host' = TimedOut(t)
     /\ wire' = [wire EXCEPT !.faults = @ - 1]

Then(t, op) == [host EXCEPT !.call[t].op = op, !.call[t].tried = FALSE]

\* host.call[t] after n more items, the last of them seen in got.
Moved(t, n, got) ==
  [host EXCEPT !.call[t].off = @ + n, !.call[t].got = @ \o got, !.call[t].tried = FALSE]

Start(t) ==
  /\ Op(t) = "none" /\ wire.calls > 0
  /\ host.kind = "panel" => t \in Painters
  /\ \E len \in IF host.kind = "panel" THEN {Pages * Width} ELSE Lens, forward \in BOOLEAN :
       /\ host.kind # "stepper" => forward
       /\ host' = [host EXCEPT
            !.mixed = @ \/ Active # {},
            !.call = [u \in Threads |->
              IF u = t
              THEN [Idle EXCEPT !.id = Calls - wire.calls + 1, !.len = len, !.forward = forward,
                                !.alone = Active = {},
                                !.op = CASE host.kind = "camera"  -> "capture"
                                         [] host.kind = "stepper" -> "direction"
                                         [] host.kind = "panel"   -> "address"
                                         [] OTHER -> "piece"]
              ELSE [host.call[u] EXCEPT !.alone = @ /\ u \notin Active]]]
  /\ wire' = [wire EXCEPT !.calls = @ - 1]
  /\ UNCHANGED board

Left(t) == host.call[t].len - host.call[t].off

\* Deliberately wrong (mutation of Size): the last piece is as long as the others.
SizeFull(t) == PieceItems

\* protocol.chunks()
Size(t) == Min({PieceItems, Left(t)})
Items(t, n) == [i \in 1 .. n |-> <<host.call[t].id, host.call[t].off + i>>]

----------------------------------------------------------------------------
(* Towards the board: TcpSocket.send(), I2s.write(), Spi.transfer() *)

\* Deliberately wrong (mutation of SendPiece): what the board did not take is not sent again.
SendPieceWhole(t) ==
  /\ host.kind = "tcp" /\ Op(t) = "piece" /\ Left(t) > 0
  /\ \E sent \in 0 .. Size(t) :
       Request(t, [board EXCEPT !.stream = @ \o Items(t, sent)],
               IF sent = 0 THEN Finish(t, FALSE)
               ELSE IF Size(t) = Left(t) THEN [Finish(t, TRUE) EXCEPT !.done = {[d EXCEPT !.n = d.len] : d \in @}]
               ELSE Moved(t, Size(t), <<>>))

\* The board's socket takes what it has room for; the rest goes with the next request.
SendPiece(t) ==
  /\ host.kind = "tcp" /\ Op(t) = "piece" /\ Left(t) > 0
  /\ \E sent \in 0 .. Size(t) :
       Request(t, [board EXCEPT !.stream = @ \o Items(t, sent)],
               IF sent = 0 THEN Finish(t, FALSE) ELSE Moved(t, sent, <<>>))

\* A short write ends the playback.
PlayPiece(t) ==
  /\ host.kind = "speaker" /\ Op(t) = "piece" /\ Left(t) > 0
  /\ \E written \in 0 .. Size(t) :
       LET h == Moved(t, written, <<>>) IN
       Request(t, [board EXCEPT !.stream = @ \o Items(t, written)],
               IF written < Size(t) THEN [h EXCEPT !.call[t].len = h.call[t].off] ELSE h)

TransferPiece(t) ==
  /\ host.kind = "spi" /\ Op(t) = "piece" /\ Left(t) > 0
  /\ Request(t, [board EXCEPT !.stream = @ \o Items(t, Size(t))],
             Moved(t, Size(t), Items(t, Size(t))))

----------------------------------------------------------------------------
(* From the board: I2s.read(), Camera.capture() *)

RecordPiece(t) ==
  /\ host.kind = "mic" /\ Op(t) = "piece" /\ Left(t) > 0
  /\ \E n \in 1 .. Size(t) :
       Request(t, [board EXCEPT !.next = @ + n],
               Moved(t, n, [i \in 1 .. n |-> board.next + i - 1]))

FrameLen(frame) == 3 + (frame % 2)

\* CAM_CAPTURE: the board holds one frame, the last that any thread has asked for.
Capture(t) ==
  /\ Op(t) = "capture"
  /\ LET frame == board.frames + 1 IN
     Request(t, [board EXCEPT !.held = frame, !.frames = frame],
             [Then(t, "piece") EXCEPT !.call[t].len = FrameLen(frame)])

\* CAM_READ at the place it has come to: an error without a frame, nothing past its end.
FramePiece(t) ==
  /\ host.kind = "camera" /\ Op(t) = "piece"
  /\ LET off == host.call[t].off
         n   == Min({Size(t), Max({0, FrameLen(board.held) - off})})
         h   == Moved(t, n, [i \in 1 .. n |-> <<board.held, off + i>>]) IN
     Request(t, board,
             IF board.held = 0 THEN Finish(t, FALSE)
             ELSE IF n = 0 \/ off + n = host.call[t].len THEN [h EXCEPT !.call[t].op = "release"]
             ELSE h)

Release(t) ==
  /\ Op(t) = "release"
  /\ Request(t, [board EXCEPT !.held = 0], Finish(t, TRUE))

Return(t) ==
  /\ host.kind \notin {"camera", "stepper"} /\ Op(t) \in {"piece", "address"} /\ Left(t) = 0
  /\ host' = Finish(t, TRUE)
  /\ UNCHANGED <<board, wire>>

----------------------------------------------------------------------------
(* Stepper.move() *)

Direction(t) ==
  /\ Op(t) = "direction"
  /\ Request(t, [board EXCEPT !.forward = host.call[t].forward], Then(t, "piece"))

\* _step_syms(): the first and the last step of a ramp are long, three symbols for two.
Symbols(t, i) == IF i \in {1, host.call[t].len} THEN 3 ELSE 2

\* Steps are added to a request until its symbols fill it.
Filled(t, n) == FoldFunctionOnSet(+, 0, [i \in 1 .. host.call[t].len |-> Symbols(t, i)],
                  host.call[t].off + 1 .. host.call[t].off + n) >= 2 * PieceItems

Steps(t) == Min({Left(t)} \cup {n \in 1 .. Left(t) : Filled(t, n)})

StepPiece(t) ==
  /\ host.kind = "stepper" /\ Op(t) = "piece" /\ Left(t) > 0
  /\ LET n == Steps(t) IN
     Request(t, [board EXCEPT !.position = @ + IF board.forward THEN n ELSE 0 - n],
             Moved(t, n, <<>>))

\* Deliberately wrong (mutation of MoveReturns): the position is that of the call.
MoveReturnsAt(t) ==
  /\ host.kind = "stepper" /\ Op(t) = "piece" /\ Left(t) = 0
  /\ host' = [Finish(t, TRUE) EXCEPT !.position =
                IF host.call[t].forward THEN host.call[t].len ELSE 0 - host.call[t].len]
  /\ UNCHANGED <<board, wire>>

MoveReturns(t) ==
  /\ host.kind = "stepper" /\ Op(t) = "piece" /\ Left(t) = 0
  /\ host' = [Finish(t, TRUE) EXCEPT !.position =
                IF host.call[t].forward THEN @ + host.call[t].len ELSE @ - host.call[t].len]
  /\ UNCHANGED <<board, wire>>

----------------------------------------------------------------------------
(* OLED.show(): only the last request is waited for *)

Page(t) == host.call[t].off \div Width
Column(t) == host.call[t].off % Width
Row(t) == Min({host.cut, Width - Column(t)})

\* A request that nobody waits for: when it is lost, or the bus fails, nobody hears of it.
Unwaited(after, h) ==
  \/ board' = after /\ host' = h /\ UNCHANGED wire
  \/ /\ wire.faults > 0
     /\ host' = [h EXCEPT !.unseen = TRUE] /\ wire' = [wire EXCEPT !.faults = @ - 1]
     /\ UNCHANGED board

\* Deliberately wrong (mutation of Address): the column is given once a row.
AddressOnce(t) ==
  /\ Op(t) = "address" /\ Left(t) > 0
  /\ Unwaited(IF Column(t) = 0 THEN [board EXCEPT !.page = Page(t), !.column = host.colstart] ELSE board,
              Then(t, "piece"))

Address(t) ==
  /\ Op(t) = "address" /\ Left(t) > 0
  /\ Unwaited([board EXCEPT !.page = Page(t), !.column = host.colstart + Column(t)],
              Then(t, "piece"))

\* The panel writes where its page and column are, and goes on in the row.
Written(t) ==
  LET n == Row(t)
      cell(c) == c - board.column \in 0 .. n - 1 IN
  [board EXCEPT
     !.ram[board.page] = [c \in RamColumns |->
        IF cell(c) THEN <<host.call[t].id, host.call[t].off + c - board.column>> ELSE @[c]],
     !.column = IF board.keeps THEN (@ + n) % Cardinality(RamColumns) ELSE 0]

RowPiece(t) ==
  /\ host.kind = "panel" /\ Op(t) = "piece"
  /\ LET h == [Moved(t, Row(t), <<>>) EXCEPT !.call[t].op = "address"] IN
     IF Row(t) = Left(t) THEN Request(t, Written(t), h) ELSE Unwaited(Written(t), h)

Next == \E t \in Threads :
  \/ Start(t) \/ SendPiece(t) \/ PlayPiece(t) \/ TransferPiece(t) \/ RecordPiece(t)
  \/ Capture(t) \/ FramePiece(t) \/ Release(t) \/ Return(t)
  \/ Direction(t) \/ StepPiece(t) \/ MoveReturns(t) \/ Address(t) \/ RowPiece(t)

----------------------------------------------------------------------------

NothingLost == wire.faults = Faults
Of(id) == SelectSeq(board.stream, LAMBDA item : item[1] = id)

\* Of a call the other end has a beginning, each item once; all that it says it has sent.
SentAll(d) ==
  /\ \A i \in DOMAIN Of(d.id) : Of(d.id)[i] = <<d.id, i>>
  /\ IF d.ok THEN Len(Of(d.id)) = d.n ELSE Len(Of(d.id)) >= d.n
  /\ d.ok /\ host.kind # "speaker" => d.n = d.len

OneFrame(d) ==
  d.ok => \E frame \in 1 .. board.frames :
    d.got = [i \in 1 .. FrameLen(frame) |-> <<frame, i>>]

NoGap(d) == \A i \in 1 .. Len(d.got) - 1 : d.got[i + 1] = d.got[i] + 1

Shown ==
  \A p \in 0 .. Pages - 1, c \in 0 .. Width - 1 :
    board.ram[p][host.colstart + c] =
      <<Max({d.id : d \in host.done}), p * Width + c>>

(***************************************************************************)
(* A call in pieces that no other thread's call has met is whole: what the *)
(* peer, the amplifier or the chip has got is the beginning of the data,   *)
(* no piece twice, and all of it up to what the call returned; a picture   *)
(* of the camera is one frame; a recording has no gap; the motor is where  *)
(* position says; the panel shows the last picture in its window           *)
(* (TcpSocket.send, I2s.write, Camera.capture, Stepper.move, OLED.show).   *)
(* Replies are lost: only for the panel, SPI, recordings and the motor's   *)
(* position, which do not survive that, the property is about calls        *)
(* without loss.                                                           *)
(***************************************************************************)
TransfersAreWhole ==
  /\ \A d \in host.done : d.alone =>
       CASE host.kind \in {"tcp", "speaker"} -> SentAll(d)
         [] host.kind = "spi"    -> NothingLost => SentAll(d)
         [] host.kind = "mic"    -> NothingLost => NoGap(d)
         [] host.kind = "camera" -> OneFrame(d)
         [] OTHER -> TRUE
  /\ Active = {} /\ ~host.mixed /\ NothingLost =>
       /\ host.position = board.position
       /\ host.kind = "panel" /\ host.done # {} => Shown

(***************************************************************************)
(* "Commands that must NOT be auto-retried": SPI_TRANSFER and I2S_READ are *)
(* not among them, although one "would double-send data", the other        *)
(* "advance a ... cursor" (constants.py:332-345): a lost reply sends a     *)
(* piece twice, or makes a gap in a recording.                             *)
(***************************************************************************)
RetriesAreSafe ==
  \A d \in host.done : d.alone =>
    CASE host.kind = "spi" -> SentAll(d)
      [] host.kind = "mic" -> NoGap(d)
      [] OTHER -> TRUE

(***************************************************************************)
(* "no steps are lost" (stepper.py:66): between moves position is where    *)
(* the motor is, also after one that has failed half way.                  *)
(***************************************************************************)
PositionIsSteps == Active = {} /\ ~host.mixed => host.position = board.position

(***************************************************************************)
(* "ensures the full frame is committed before show() returns"             *)
(* (oled.py:130): also when a request that nobody waits for was lost, or   *)
(* the last one was sent twice.                                            *)
(***************************************************************************)
FrameIsCommitted ==
  host.kind = "panel" /\ Active = {} /\ ~host.mixed /\ host.done # {}
    /\ (\A d \in host.done : d.ok) => Shown
=============================================================================
