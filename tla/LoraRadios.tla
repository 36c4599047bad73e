------------------------------ MODULE LoraRadios ------------------------------
(***************************************************************************)
(* The LoRa drivers (python/espbridge/drivers/sx126x.py, sx127x.py,        *)
(* sx128x.py): send() and receive() as sequences of SPI accesses, between  *)
(* which the chip goes on hearing packets.  The SX126x and SX128x take     *)
(* commands and are brought to standby and their interrupts cleared before *)
(* each operation; the SX127x has registers, latches its flags and keeps   *)
(* one FIFO for both directions.                                           *)
(*                                                                         *)
(* Packets are numbered in the order they are heard.                       *)
(***************************************************************************)
EXTENDS Naturals

CONSTANTS
  Kinds,    \* the drivers to look at, of "sx126x", "sx127x", "sx128x"
  Packets   \* bound of the model: packets heard

VARIABLES
  host,    \* the driver: its operation, what it has read, what it returned
  board,   \* the chip: mode, latched interrupts, last packet, FIFO
  wire     \* the packets heard so far that were corrupt

vars == <<host, board, wire>>

None  == 0               \* receive() returned None, or nothing yet
Own   == Packets + 1     \* the bytes send() put into the FIFO
Mixed == Packets + 2     \* the length of one packet, the bytes of another

Flags == {"TxDone", "RxDone", "CrcErr"}
Idle  == {"idle"}
PCs   == Idle \cup {"tx", "rx", "ready", "clear", "status", "buffer"}

TypeOK ==
  /\ host.kind \in Kinds /\ host.pc \in PCs /\ host.flags \subseteq Flags
  /\ host.got \in 0 .. Packets + 2 /\ host.len \in 0 .. Packets
  /\ host.since \in 0 .. Packets /\ {host.stale, host.second} \subseteq BOOLEAN
  /\ board.mode \in {"standby", "tx", "rx"} /\ board.irq \subseteq Flags
  /\ board.heard \in 0 .. Packets /\ board.fifo \in 0 .. Packets + 1
  /\ wire \subseteq 1 .. Packets

\* The constructors reset the chip and leave it in standby.
Init ==
  /\ \E kind \in Kinds :
       host = [kind |-> kind, pc |-> "idle", flags |-> {}, len |-> 0, got |-> None,
               since |-> 0, stale |-> FALSE, second |-> FALSE]
  /\ board = [mode |-> "standby", irq |-> {}, heard |-> 0, fifo |-> None]
  /\ wire = {}

Registers == host.kind = "sx127x"

\* The interrupts that can be latched: SetDioIrqParams routes TxDone, RxDone and the
\* chip's timeout; the flags of the SX127x are not masked.
Routed == IF Registers THEN Flags ELSE {"TxDone", "RxDone"}

Return(got) == host' = [host EXCEPT !.pc = "idle", !.got = got]

----------------------------------------------------------------------------
(* send() *)

\* Standby, fill the buffer, transmit; the SX127x leaves the flags as they are.
SendStart ==
  /\ host.pc = "idle"
  /\ host' = [host EXCEPT !.pc = "tx", !.got = None]
  /\ board' = [board EXCEPT !.mode = "tx", !.fifo = Own,
                            !.irq = IF Registers THEN @ ELSE {}]
  /\ UNCHANGED wire

\* TxDone is polled, and cleared: alone, or with all there is.
SendDone ==
  /\ host.pc = "tx" /\ "TxDone" \in board.irq
  /\ Return(None)
  /\ board' = [board EXCEPT !.irq = IF Registers THEN @ \ {"TxDone"} ELSE {}]
  /\ UNCHANGED wire

\* Ten seconds without TxDone: the SX126x and SX128x raise TimeoutError.
SendTimeout ==
  /\ host.pc = "tx" /\ ~Registers
  /\ Return(None)
  /\ UNCHANGED <<board, wire>>

----------------------------------------------------------------------------
(* receive() *)

Receiving(irq) ==
  /\ host.pc = "idle"
  /\ host' = [host EXCEPT !.pc = "rx", !.got = None, !.since = board.heard,
                          !.stale = "RxDone" \in irq, !.second = FALSE]
  /\ board' = [board EXCEPT !.mode = "rx", !.irq = irq]
  /\ UNCHANGED wire

\* Deliberately wrong (mutation of ReceiveStart): no driver clears what is latched.
ReceiveStartAsIs == Receiving(board.irq)

\* The SX126x and SX128x are stopped and cleared first.
ReceiveStart == Receiving(IF Registers THEN board.irq ELSE {})

Poll ==
  /\ host.pc = "rx" /\ "RxDone" \in board.irq
  /\ host' = [host EXCEPT !.pc = "ready", !.flags = board.irq]
  /\ UNCHANGED <<board, wire>>

\* The host's deadline: the SX127x goes on receiving.
ReceiveTimeout ==
  /\ host.pc = "rx"
  /\ Return(None)
  /\ board' = IF Registers THEN board ELSE [board EXCEPT !.mode = "standby"]
  /\ UNCHANGED wire

\* SX127x: RegIrqFlags is read once more, for the CRC flag, and then cleared.
ReadFlags ==
  /\ host.pc = "ready" /\ Registers
  /\ host' = [host EXCEPT !.pc = "clear", !.flags = board.irq]
  /\ UNCHANGED <<board, wire>>

ClearFlags ==
  /\ host.pc = "clear"
  /\ board' = [board EXCEPT !.irq = @ \ {"RxDone", "CrcErr"}]
  /\ IF "CrcErr" \in host.flags THEN Return(None)
     ELSE host' = [host EXCEPT !.pc = "status"]
  /\ UNCHANGED wire

\* SX126x and SX128x: the word that ended the wait tells of a CRC error.  The SX128x
\* clears the interrupts now, the SX126x once it has the bytes.
Judge ==
  /\ host.pc = "ready" /\ ~Registers
  /\ LET corrupt == "CrcErr" \in host.flags IN
     /\ IF corrupt THEN Return(None) ELSE host' = [host EXCEPT !.pc = "status"]
     /\ board' = IF corrupt \/ host.kind = "sx128x" THEN [board EXCEPT !.irq = {}] ELSE board
  /\ UNCHANGED wire

\* The length: of the packet that was heard last.
ReadStatus ==
  /\ host.pc = "status"
  /\ host' = [host EXCEPT !.pc = "buffer", !.len = board.heard]
  /\ UNCHANGED <<board, wire>>

\* The bytes: from the place the status named; the SX127x asks for the place only now,
\* and reads its FIFO, whatever was written there.
ReadBuffer ==
  /\ host.pc = "buffer"
  /\ Return(IF ~Registers THEN host.len
            ELSE IF board.fifo = Own THEN Own
            ELSE IF board.fifo = host.len THEN host.len ELSE Mixed)
  /\ board' = IF host.kind = "sx126x" THEN [board EXCEPT !.irq = {}] ELSE board
  /\ UNCHANGED wire

----------------------------------------------------------------------------
(* Modes, and the chip *)

Standby ==
  /\ host.pc = "idle"
  /\ board' = [board EXCEPT !.mode = "standby"]
  /\ UNCHANGED <<host, wire>>

Transmitted ==
  /\ board.mode = "tx"
  /\ board' = [board EXCEPT !.mode = "standby", !.irq = @ \cup {"TxDone"}]
  /\ UNCHANGED <<host, wire>>

\* A packet ends, intact or not; the chip keeps receiving.
Hear(corrupt) ==
  /\ board.mode = "rx" /\ board.heard < Packets
  /\ LET p     == board.heard + 1
         flags == {"RxDone"} \cup (IF corrupt THEN {"CrcErr"} ELSE {})
     IN /\ board' = [board EXCEPT !.heard = p, !.fifo = p, !.irq = @ \cup (flags \cap Routed)]
        /\ wire' = IF corrupt THEN wire \cup {p} ELSE wire
  /\ host' = [host EXCEPT !.second = @ \/ host.pc \in {"ready", "clear", "status", "buffer"}
                                       \/ (host.pc = "rx" /\ board.heard > host.since)]

Next ==
  \/ SendStart \/ SendDone \/ SendTimeout
  \/ ReceiveStart \/ Poll \/ ReceiveTimeout
  \/ ReadFlags \/ ClearFlags \/ Judge \/ ReadStatus \/ ReadBuffer
  \/ Standby \/ Transmitted \/ \E corrupt \in BOOLEAN : Hear(corrupt)

----------------------------------------------------------------------------

(***************************************************************************)
(* receive() returns the first packet that was heard since it was called,  *)
(* and the SX127x an intact one, unless another packet came before it was  *)
(* read out; only the SX127x can mistake what was latched before the call  *)
(* for it (receive of the three drivers).                                  *)
(***************************************************************************)
FirstPacketHeard ==
  /\ host.got # None /\ ~host.second /\ ~host.stale =>
       host.got = host.since + 1 /\ (Registers => host.got \notin wire)
  /\ host.stale => Registers

(***************************************************************************)
(* receive() "Returns the payload bytes, or None on timeout or CRC error"  *)
(* (sx127x.py:218): never bytes that were not received.                    *)
(***************************************************************************)
ReceivesFromAir == host.got # Own
=============================================================================
