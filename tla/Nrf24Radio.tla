------------------------------ MODULE Nrf24Radio ------------------------------
(***************************************************************************)
(* The nRF24L01+ driver (python/espbridge/drivers/nrf24.py) and its chip:  *)
(* sending with an acknowledgement, listening, and the flags and FIFOs     *)
(* between them.  The air goes on between the SPI accesses of a call.      *)
(*                                                                         *)
(* Payloads are numbered in the order they are received, and in the order  *)
(* they are sent.                                                          *)
(***************************************************************************)
EXTENDS Naturals, Sequences

CONSTANTS
  FifoDepth,  \* payloads in the chip's receive FIFO, 3
  Payloads    \* bound of the model: payloads received, and payloads sent

VARIABLES
  host,    \* the driver: the call under way, what it returned
  board,   \* the chip: CE, receiver or transmitter, flags, FIFOs
  wire     \* the other module: payloads it sent, payloads of ours it acknowledged

vars == <<host, board, wire>>

Nothing == 0
Garbage == Payloads + 1   \* what an empty FIFO reads as

TypeOK ==
  /\ host.pc \in {"idle", "sending", "starting", "waiting", "reading", "cleaning"}
  /\ host.got \in 0 .. Payloads + 1 /\ host.last \in 0 .. Payloads
  /\ host.sent \in 0 .. Payloads /\ {host.receive, host.restarted} \subseteq BOOLEAN
  /\ host.result \in {"none", "acked", "failed"}
  /\ {board.ce, board.prx, board.rxDr, board.txDs, board.maxRt} \subseteq BOOLEAN
  /\ board.air \in 0 .. Payloads
  /\ board.rx \in Seq(1 .. Payloads) /\ Len(board.rx) <= FifoDepth
  /\ wire.told \in 0 .. Payloads /\ wire.acked \subseteq 1 .. Payloads

\* The constructor powers the chip up as a transmitter, flushes and clears it.
Init ==
  /\ host = [pc |-> "idle", got |-> Nothing, last |-> 0, sent |-> 0, result |-> "none",
             receive |-> FALSE, restarted |-> FALSE]
  /\ board = [ce |-> FALSE, prx |-> FALSE, rxDr |-> FALSE, txDs |-> FALSE,
              maxRt |-> FALSE, air |-> 0, rx |-> <<>>]
  /\ wire = [told |-> 0, acked |-> {}]

----------------------------------------------------------------------------
(* send() *)

\* Stop listening, become a transmitter, flush, clear the flags, and pulse CE.
SendStart ==
  /\ host.pc = "idle" /\ host.sent < Payloads
  /\ host' = [host EXCEPT !.pc = "sending", !.sent = @ + 1, !.result = "none", !.got = Nothing]
  /\ board' = [board EXCEPT !.ce = FALSE, !.prx = FALSE, !.txDs = FALSE, !.maxRt = FALSE,
                            !.air = host.sent + 1]
  /\ UNCHANGED wire

\* STATUS shows the end: TX_DS is cleared; MAX_RT as well, and the payload flushed.
SendEnds ==
  /\ host.pc = "sending" /\ (board.txDs \/ board.maxRt)
  /\ host' = [host EXCEPT !.pc = "idle", !.result = IF board.txDs THEN "acked" ELSE "failed"]
  /\ board' = IF board.txDs THEN [board EXCEPT !.txDs = FALSE]
              ELSE [board EXCEPT !.maxRt = FALSE, !.air = 0]
  /\ UNCHANGED wire

\* The deadline passes on a slow link; what may be pending is cleared.
SendTimeout ==
  /\ host.pc = "sending"
  /\ host' = [host EXCEPT !.pc = "idle", !.result = "failed"]
  /\ board' = [board EXCEPT !.air = 0, !.txDs = FALSE, !.maxRt = FALSE]
  /\ UNCHANGED wire

\* The chip ends its retransmissions: acknowledged or not.
Transmitted ==
  /\ board.air # 0
  /\ \/ /\ board' = [board EXCEPT !.air = 0, !.txDs = TRUE]
        /\ wire' = [wire EXCEPT !.acked = @ \cup {board.air}]
     \/ /\ board' = [board EXCEPT !.air = 0, !.maxRt = TRUE]
        /\ UNCHANGED wire
     \/ /\ board' = [board EXCEPT !.air = 0, !.maxRt = TRUE]   \* its acknowledgements were lost
        /\ wire' = [wire EXCEPT !.acked = @ \cup {board.air}]
  /\ UNCHANGED host

----------------------------------------------------------------------------
(* Receiving *)

\* start_listening(), alone or by receive(): receiver, flags cleared; CE may be up.
StartListening(receive) ==
  /\ host.pc = "idle"
  /\ host' = [host EXCEPT !.pc = "starting", !.receive = receive, !.got = Nothing,
                          !.restarted = @ \/ board.ce]
  /\ board' = [board EXCEPT !.prx = TRUE, !.rxDr = FALSE, !.txDs = FALSE, !.maxRt = FALSE]
  /\ UNCHANGED wire

\* The receive FIFO is flushed and CE raised.
Flush ==
  /\ host.pc = "starting"
  /\ host' = [host EXCEPT !.pc = IF host.receive THEN "waiting" ELSE "idle"]
  /\ board' = [board EXCEPT !.rx = <<>>, !.ce = TRUE]
  /\ UNCHANGED wire

StopListening ==
  /\ host.pc = "idle" /\ board.ce
  /\ board' = [board EXCEPT !.ce = FALSE]
  /\ UNCHANGED <<host, wire>>

\* available() said yes: to receive(), or to a caller that polls.
Available ==
  /\ host.pc = "waiting" \/ (host.pc = "idle" /\ board.prx)
  /\ board.rxDr \/ board.rx # <<>>
  /\ host' = [host EXCEPT !.pc = "reading", !.receive = host.pc = "waiting"]
  /\ UNCHANGED <<board, wire>>

ReceiveTimeout ==
  /\ host.pc = "waiting"
  /\ host' = [host EXCEPT !.pc = "idle", !.got = Nothing]
  /\ board' = [board EXCEPT !.ce = FALSE]
  /\ UNCHANGED wire

\* read(): the payload on top, and then the flag.
ReadPayload ==
  /\ host.pc = "reading"
  /\ IF board.rx = <<>>
     THEN /\ host' = [host EXCEPT !.pc = "cleaning", !.got = Garbage]
          /\ UNCHANGED board
     ELSE /\ host' = [host EXCEPT !.pc = "cleaning", !.got = Head(board.rx)]
          /\ board' = [board EXCEPT !.rx = Tail(@)]
  /\ UNCHANGED wire

\* Deliberately wrong (mutation of ReadClear): the flag survives the payload.
ReadClearNot ==
  /\ host.pc = "cleaning"
  /\ host' = [host EXCEPT !.pc = "idle", !.last = IF host.got = Garbage THEN @ ELSE host.got]
  /\ board' = [board EXCEPT !.ce = @ /\ ~host.receive]
  /\ UNCHANGED wire

ReadClear ==
  /\ host.pc = "cleaning"
  /\ host' = [host EXCEPT !.pc = "idle", !.last = IF host.got = Garbage THEN @ ELSE host.got]
  /\ board' = [board EXCEPT !.rxDr = FALSE, !.ce = @ /\ ~host.receive]
  /\ UNCHANGED wire

\* A payload arrives and is acknowledged, unless the FIFO is full.
Arrive ==
  /\ board.ce /\ board.prx /\ wire.told < Payloads /\ Len(board.rx) < FifoDepth
  /\ wire' = [wire EXCEPT !.told = @ + 1]
  /\ board' = [board EXCEPT !.rx = Append(@, wire.told + 1), !.rxDr = TRUE]
  /\ UNCHANGED host

Next ==
  \/ SendStart \/ SendEnds \/ SendTimeout \/ Transmitted
  \/ \E receive \in BOOLEAN : StartListening(receive)
  \/ Flush \/ StopListening \/ Available \/ ReceiveTimeout
  \/ ReadPayload \/ ReadClear \/ Arrive

----------------------------------------------------------------------------

(***************************************************************************)
(* read() after available() returns a payload that arrived, each once and  *)
(* in order, unless start_listening() was called while listening: a        *)
(* payload between its clear and its flush leaves the flag without the     *)
(* payload.  send() is true only of a payload that was acknowledged.       *)
(***************************************************************************)
RadioTellsTruth ==
  /\ host.pc = "cleaning" /\ ~host.restarted => host.got # Garbage /\ host.got > host.last
  /\ host.result = "acked" => host.sent \in wire.acked
=============================================================================
