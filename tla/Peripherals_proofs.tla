--------------------------- MODULE Peripherals_proofs ---------------------------
(***************************************************************************)
(* What comes in from outside a board, for any packets, arrivals, depths   *)
(* of queues, devices, threads, sessions and faults.                       *)
(*                                                                         *)
(* Of a LoRa radio the invariant says when the call of receive() reads out *)
(* the first packet since it began, with its CRC flag; of an nRF24 whose   *)
(* payload is in the air and what is still in the FIFO; of ESP-NOW which   *)
(* of the packets on the air are fire-and-forget, so that a callback of    *)
(* one is never taken for the answer of another.                           *)
(*                                                                         *)
(* Of the events that wait for a reader it says that what was returned,    *)
(* what the calls hold and what is queued are one rising sequence; of a    *)
(* scan that the advertisements on their way are of the scan that takes    *)
(* them; of notifications that those on their way are from the newest      *)
(* client's peripheral and before the reply of the next connect().         *)
(***************************************************************************)
EXTENDS Peripherals, SequenceTheorems, FiniteSetTheorems, WellFoundedInduction, TLAPS

-----------------------------------------------------------------------------
(* The LoRa radios *)

LoraHosts ==
  [kind : LoraKinds, pc : Lora!PCs, flags : SUBSET Lora!Flags, len : 0 .. Packets,
   got : 0 .. Packets + 2, since : 0 .. Packets, stale : BOOLEAN, second : BOOLEAN]
LoraBoards ==
  [mode : {"standby", "tx", "rx"}, irq : SUBSET Lora!Flags, heard : 0 .. Packets,
   fifo : 0 .. Packets + 1]

LoraShape(h, b, w) == h \in LoraHosts /\ b \in LoraBoards /\ w \subseteq 1 .. Packets

\* Only the SX127x has a flag of a corrupt packet in its interrupts, or an old one of a packet.
Latched(h, b) ==
  h.kind # "sx127x" => ~h.stale /\ "CrcErr" \notin b.irq \cup h.flags

\* The call waits for a packet, or the first one is being read out.
Reading(h, b) ==
  /\ h.since <= b.heard
  /\ h.pc = "rx" /\ ~h.stale => /\ "RxDone" \in b.irq => b.heard > h.since
                                /\ ~h.second => b.heard <= h.since + 1
  /\ h.pc \in {"ready", "clear", "status", "buffer"} /\ ~h.stale /\ ~h.second =>
       b.heard = h.since + 1
  /\ h.pc \notin {"idle", "tx"} /\ b.heard > h.since => b.fifo = b.heard
  /\ h.pc = "buffer" /\ ~h.stale /\ ~h.second => h.len = b.heard

\* A corrupt one has its flag, in the chip and then with the driver.
Flagged(h, b, w) ==
  /\ w \subseteq 1 .. b.heard
  /\ h.kind = "sx127x" /\ ~h.stale /\ ~h.second /\ b.heard = h.since + 1 /\ b.heard \in w =>
       /\ h.pc \in {"rx", "ready"} => "CrcErr" \in b.irq
       /\ h.pc = "clear" => "CrcErr" \in h.flags
       /\ h.pc \notin {"status", "buffer"}

\* What receive() has returned.
Returned(h, b, w) ==
  h.got # Lora!None /\ ~h.second /\ ~h.stale =>
    h.got = h.since + 1 /\ h.got <= b.heard /\ (h.kind = "sx127x" => h.got \notin w)

LoraSound(h, b, w) ==
  LoraShape(h, b, w) /\ Latched(h, b) /\ Reading(h, b) /\ Flagged(h, b, w) /\ Returned(h, b, w)
LoraInv == LoraSound(host, board, wire)

LEMMA LoraMeans == LoraInv => Lora!FirstPacketHeard
BY DEF LoraInv, LoraSound, LoraShape, LoraHosts, Latched, Returned, Lora!FirstPacketHeard, Lora!Registers

LEMMA LoraInit == Lora!Init => LoraInv
<1> SUFFICES ASSUME Lora!Init PROVE LoraInv
  OBVIOUS
<1>1. PICK kind \in LoraKinds :
        host = [kind |-> kind, pc |-> "idle", flags |-> {}, len |-> 0, got |-> 0,
                since |-> 0, stale |-> FALSE, second |-> FALSE]
  BY DEF Lora!Init, Lora!None
<1>2. board = [mode |-> "standby", irq |-> {}, heard |-> 0, fifo |-> 0] /\ wire = {}
  BY DEF Lora!Init, Lora!None
<1>3. LoraShape(host, board, wire)
  BY <1>1, <1>2, PeripheralAssumption DEF LoraShape, LoraHosts, LoraBoards, Lora!PCs, Lora!Idle
<1>4. QED
  BY <1>1, <1>2, <1>3
     DEF LoraInv, LoraSound, Latched, Reading, Flagged, Returned, Lora!None

LEMMA LoraTypes ==
  ASSUME NEW h \in LoraHosts, NEW b \in LoraBoards
  PROVE  /\ \A p \in Lora!PCs, g \in 0 .. Packets + 2 : [h EXCEPT !.pc = p, !.got = g] \in LoraHosts
         /\ \A p \in Lora!PCs : [h EXCEPT !.pc = p] \in LoraHosts
         /\ \A p \in Lora!PCs, g \in 0 .. Packets + 2, n \in 0 .. Packets, x, y \in BOOLEAN :
              [h EXCEPT !.pc = p, !.got = g, !.since = n, !.stale = x, !.second = y] \in LoraHosts
         /\ \A x \in BOOLEAN : [h EXCEPT !.second = x] \in LoraHosts
         /\ \A i \in SUBSET Lora!Flags : [b EXCEPT !.irq = i] \in LoraBoards
         /\ \A m \in {"standby", "tx", "rx"} : [b EXCEPT !.mode = m] \in LoraBoards
         /\ \A m \in {"standby", "tx", "rx"}, i \in SUBSET Lora!Flags :
              [b EXCEPT !.mode = m, !.irq = i] \in LoraBoards
         /\ \A m \in {"standby", "tx", "rx"}, i \in SUBSET Lora!Flags, f \in 0 .. Packets + 1 :
              [b EXCEPT !.mode = m, !.fifo = f, !.irq = i] \in LoraBoards
         /\ \A n \in 0 .. Packets, i \in SUBSET Lora!Flags, f \in 0 .. Packets + 1 :
              [b EXCEPT !.heard = n, !.fifo = f, !.irq = i] \in LoraBoards
BY Zenon DEF LoraHosts, LoraBoards

LEMMA LoraFields ==
  ASSUME NEW h \in LoraHosts, NEW b \in LoraBoards
  PROVE  /\ h.kind \in LoraKinds /\ h.pc \in Lora!PCs /\ h.flags \subseteq Lora!Flags
         /\ h.len \in 0 .. Packets /\ h.got \in 0 .. Packets + 2 /\ h.since \in 0 .. Packets
         /\ h.stale \in BOOLEAN /\ h.second \in BOOLEAN
         /\ b.mode \in {"standby", "tx", "rx"} /\ b.irq \subseteq Lora!Flags
         /\ b.heard \in 0 .. Packets /\ b.fifo \in 0 .. Packets + 1
BY DEF LoraHosts, LoraBoards

LEMMA LoraStep ==
  ASSUME LoraInv, Lora!Next
  PROVE  LoraInv'
<1> USE PeripheralAssumption DEF LoraShape, Lora!None, Lora!Own, Lora!Mixed, Lora!Flags, Lora!PCs,
      Lora!Idle, Lora!Registers, Lora!Return
<1>a. host \in LoraHosts /\ board \in LoraBoards /\ wire \subseteq 1 .. Packets
  BY DEF LoraInv, LoraSound
<1>b. Latched(host, board) /\ Reading(host, board) /\ Flagged(host, board, wire)
      /\ Returned(host, board, wire)
  BY DEF LoraInv, LoraSound
<1>1. CASE Lora!SendStart
  <2>1. host' \in LoraHosts /\ board' \in LoraBoards /\ wire' \subseteq 1 .. Packets
    <3> DEFINE i == IF host.kind = "sx127x" THEN board.irq ELSE {}
               p == "tx"
    <3>1. i \in SUBSET Lora!Flags /\ p \in Lora!PCs /\ 0 \in 0 .. Packets + 2 /\ Packets + 1 \in 0 .. Packets + 1
      BY <1>a, LoraFields
    <3>2. host' = [host EXCEPT !.pc = p, !.got = 0] /\ board' = [board EXCEPT !.mode = "tx", !.fifo = Packets + 1, !.irq = i] /\ wire' = wire
      BY <1>1 DEF Lora!SendStart
    <3> HIDE DEF i, p
    <3> HIDE DEF Lora!PCs, Lora!Flags
    <3>3. QED  BY <1>a, <3>1, <3>2, LoraTypes, Zenon
  <2>2. Latched(host', board')
    BY <1>a, <1>b, <1>1 DEF LoraHosts, LoraBoards, Latched, Lora!SendStart
  <2>3. Reading(host', board')
    BY <1>a, <1>b, <1>1 DEF LoraHosts, LoraBoards, Latched, Reading, Lora!SendStart
  <2>4. Flagged(host', board', wire')
    BY <1>a, <1>b, <1>1 DEF LoraHosts, LoraBoards, Latched, Reading, Flagged, Lora!SendStart
  <2>5. Returned(host', board', wire')
    BY <1>a, <1>b, <1>1 DEF LoraHosts, LoraBoards, Latched, Reading, Flagged, Returned, Lora!SendStart
  <2>6. QED  BY <2>1, <2>2, <2>3, <2>4, <2>5 DEF LoraInv, LoraSound
<1>2. CASE Lora!SendDone
  <2>1. host' \in LoraHosts /\ board' \in LoraBoards /\ wire' \subseteq 1 .. Packets
    <3> DEFINE i == IF host.kind = "sx127x" THEN board.irq \ {"TxDone"} ELSE {}
               p == "idle"
    <3>1. i \in SUBSET Lora!Flags /\ p \in Lora!PCs /\ 0 \in 0 .. Packets + 2 /\ Packets + 1 \in 0 .. Packets + 1
      BY <1>a, LoraFields
    <3>2. host' = [host EXCEPT !.pc = p, !.got = 0] /\ board' = [board EXCEPT !.irq = i] /\ wire' = wire
      BY <1>2 DEF Lora!SendDone
    <3> HIDE DEF i, p
    <3> HIDE DEF Lora!PCs, Lora!Flags
    <3>3. QED  BY <1>a, <3>1, <3>2, LoraTypes, Zenon
  <2>2. Latched(host', board')
    BY <1>a, <1>b, <1>2 DEF LoraHosts, LoraBoards, Latched, Lora!SendDone
  <2>3. Reading(host', board')
    BY <1>a, <1>b, <1>2 DEF LoraHosts, LoraBoards, Latched, Reading, Lora!SendDone
  <2>4. Flagged(host', board', wire')
    BY <1>a, <1>b, <1>2 DEF LoraHosts, LoraBoards, Latched, Reading, Flagged, Lora!SendDone
  <2>5. Returned(host', board', wire')
    BY <1>a, <1>b, <1>2 DEF LoraHosts, LoraBoards, Latched, Reading, Flagged, Returned, Lora!SendDone
  <2>6. QED  BY <2>1, <2>2, <2>3, <2>4, <2>5 DEF LoraInv, LoraSound
<1>3. CASE Lora!SendTimeout
  <2>1. host' \in LoraHosts /\ board' \in LoraBoards /\ wire' \subseteq 1 .. Packets
    <3> DEFINE i == board.irq
               p == "idle"
    <3>1. i \in SUBSET Lora!Flags /\ p \in Lora!PCs /\ 0 \in 0 .. Packets + 2 /\ Packets + 1 \in 0 .. Packets + 1
      BY <1>a, LoraFields
    <3>2. host' = [host EXCEPT !.pc = p, !.got = 0] /\ board' = board /\ wire' = wire
      BY <1>3 DEF Lora!SendTimeout
    <3> HIDE DEF i, p
    <3> HIDE DEF Lora!PCs, Lora!Flags
    <3>3. QED  BY <1>a, <3>1, <3>2, LoraTypes, Zenon
  <2>2. Latched(host', board')
    BY <1>a, <1>b, <1>3 DEF LoraHosts, LoraBoards, Latched, Lora!SendTimeout
  <2>3. Reading(host', board')
    BY <1>a, <1>b, <1>3 DEF LoraHosts, LoraBoards, Latched, Reading, Lora!SendTimeout
  <2>4. Flagged(host', board', wire')
    BY <1>a, <1>b, <1>3 DEF LoraHosts, LoraBoards, Latched, Reading, Flagged, Lora!SendTimeout
  <2>5. Returned(host', board', wire')
    BY <1>a, <1>b, <1>3 DEF LoraHosts, LoraBoards, Latched, Reading, Flagged, Returned, Lora!SendTimeout
  <2>6. QED  BY <2>1, <2>2, <2>3, <2>4, <2>5 DEF LoraInv, LoraSound
<1>4. CASE Lora!ReceiveStart
  <2>1. host' \in LoraHosts /\ board' \in LoraBoards /\ wire' \subseteq 1 .. Packets
    <3> DEFINE i == IF host.kind = "sx127x" THEN board.irq ELSE {}
               x == "RxDone" \in i
    <3>1. i \in SUBSET Lora!Flags /\ "rx" \in Lora!PCs /\ 0 \in 0 .. Packets + 2 /\ x \in BOOLEAN
          /\ board.heard \in 0 .. Packets
      BY <1>a, LoraFields
    <3>2. host' = [host EXCEPT !.pc = "rx", !.got = 0, !.since = board.heard, !.stale = x, !.second = FALSE]
          /\ board' = [board EXCEPT !.mode = "rx", !.irq = i] /\ wire' = wire
      BY <1>4 DEF Lora!ReceiveStart, Lora!Receiving
    <3> HIDE DEF i, x
    <3> HIDE DEF Lora!PCs, Lora!Flags
    <3>3. QED  BY <1>a, <3>1, <3>2, LoraTypes, Zenon
  <2>2. Latched(host', board')
    BY <1>a, <1>b, <1>4 DEF LoraHosts, LoraBoards, Latched, Lora!ReceiveStart, Lora!Receiving
  <2>3. Reading(host', board')
    <3>1. /\ host'.pc = "rx" /\ host'.since = board.heard /\ board'.heard = board.heard /\ host'.second = FALSE
          /\ ~host'.stale => "RxDone" \notin board'.irq
      BY <1>a, <1>4 DEF LoraHosts, LoraBoards, Lora!ReceiveStart, Lora!Receiving
    <3>2. board.heard \in Nat
      BY <1>a, LoraFields
    <3>3. QED  BY <3>1, <3>2 DEF Reading
  <2>4. Flagged(host', board', wire')
    BY <1>a, <1>b, <1>4 DEF LoraHosts, LoraBoards, Latched, Reading, Flagged, Lora!ReceiveStart, Lora!Receiving
  <2>5. Returned(host', board', wire')
    BY <1>a, <1>b, <1>4 DEF LoraHosts, LoraBoards, Latched, Reading, Flagged, Returned, Lora!ReceiveStart, Lora!Receiving
  <2>6. QED  BY <2>1, <2>2, <2>3, <2>4, <2>5 DEF LoraInv, LoraSound
<1>5. CASE Lora!Poll
  <2>1. host' \in LoraHosts /\ board' \in LoraBoards /\ wire' \subseteq 1 .. Packets
    BY <1>a, <1>5 DEF LoraHosts, LoraBoards, Lora!Poll
  <2>2. Latched(host', board')
    BY <1>a, <1>b, <1>5 DEF LoraHosts, LoraBoards, Latched, Lora!Poll
  <2>3. Reading(host', board')
    BY <1>a, <1>b, <1>5 DEF LoraHosts, LoraBoards, Latched, Reading, Lora!Poll
  <2>4. Flagged(host', board', wire')
    BY <1>a, <1>b, <1>5 DEF LoraHosts, LoraBoards, Latched, Reading, Flagged, Lora!Poll
  <2>5. Returned(host', board', wire')
    BY <1>a, <1>b, <1>5 DEF LoraHosts, LoraBoards, Latched, Reading, Flagged, Returned, Lora!Poll
  <2>6. QED  BY <2>1, <2>2, <2>3, <2>4, <2>5 DEF LoraInv, LoraSound
<1>6. CASE Lora!ReceiveTimeout
  <2>1. host' \in LoraHosts /\ board' \in LoraBoards /\ wire' \subseteq 1 .. Packets
    <3>1. "idle" \in Lora!PCs /\ 0 \in 0 .. Packets + 2
      OBVIOUS
    <3>2. host' = [host EXCEPT !.pc = "idle", !.got = 0] /\ wire' = wire
          /\ (board' = board \/ board' = [board EXCEPT !.mode = "standby"])
      BY <1>6 DEF Lora!ReceiveTimeout
    <3> HIDE DEF Lora!PCs, Lora!Flags
    <3>3. QED  BY <1>a, <3>1, <3>2, LoraTypes, Zenon
  <2>2. Latched(host', board')
    BY <1>a, <1>b, <1>6 DEF LoraHosts, LoraBoards, Latched, Lora!ReceiveTimeout
  <2>3. Reading(host', board')
    BY <1>a, <1>b, <1>6 DEF LoraHosts, LoraBoards, Latched, Reading, Lora!ReceiveTimeout
  <2>4. Flagged(host', board', wire')
    BY <1>a, <1>b, <1>6 DEF LoraHosts, LoraBoards, Latched, Reading, Flagged, Lora!ReceiveTimeout
  <2>5. Returned(host', board', wire')
    BY <1>a, <1>b, <1>6 DEF LoraHosts, LoraBoards, Latched, Reading, Flagged, Returned, Lora!ReceiveTimeout
  <2>6. QED  BY <2>1, <2>2, <2>3, <2>4, <2>5 DEF LoraInv, LoraSound
<1>7. CASE Lora!ReadFlags
  <2>1. host' \in LoraHosts /\ board' \in LoraBoards /\ wire' \subseteq 1 .. Packets
    BY <1>a, <1>7 DEF LoraHosts, LoraBoards, Lora!ReadFlags
  <2>2. Latched(host', board')
    BY <1>a, <1>b, <1>7 DEF LoraHosts, LoraBoards, Latched, Lora!ReadFlags
  <2>3. Reading(host', board')
    BY <1>a, <1>b, <1>7 DEF LoraHosts, LoraBoards, Latched, Reading, Lora!ReadFlags
  <2>4. Flagged(host', board', wire')
    BY <1>a, <1>b, <1>7 DEF LoraHosts, LoraBoards, Latched, Reading, Flagged, Lora!ReadFlags
  <2>5. Returned(host', board', wire')
    BY <1>a, <1>b, <1>7 DEF LoraHosts, LoraBoards, Latched, Reading, Flagged, Returned, Lora!ReadFlags
  <2>6. QED  BY <2>1, <2>2, <2>3, <2>4, <2>5 DEF LoraInv, LoraSound
<1>8. CASE Lora!ClearFlags
  <2>1. host' \in LoraHosts /\ board' \in LoraBoards /\ wire' \subseteq 1 .. Packets
    <3> DEFINE i == board.irq \ {"RxDone", "CrcErr"}
    <3>1. i \in SUBSET Lora!Flags /\ "idle" \in Lora!PCs /\ "status" \in Lora!PCs /\ 0 \in 0 .. Packets + 2
      BY <1>a, LoraFields
    <3>2. board' = [board EXCEPT !.irq = i] /\ wire' = wire
          /\ (host' = [host EXCEPT !.pc = "idle", !.got = 0] \/ host' = [host EXCEPT !.pc = "status"])
      BY <1>8 DEF Lora!ClearFlags
    <3> HIDE DEF i
    <3> HIDE DEF Lora!PCs, Lora!Flags
    <3>3. host' \in LoraHosts
      <4>1. [host EXCEPT !.pc = "idle", !.got = 0] \in LoraHosts
        BY <1>a, <3>1, LoraTypes, Zenon
      <4>2. [host EXCEPT !.pc = "status"] \in LoraHosts
        BY <1>a, <3>1, LoraTypes, Zenon
      <4>3. QED  BY <3>2, <4>1, <4>2
    <3>4. board' \in LoraBoards
      BY <1>a, <3>1, <3>2, LoraTypes, Zenon
    <3>5. QED  BY <1>a, <3>2, <3>3, <3>4
  <2>2. Latched(host', board')
    BY <1>a, <1>b, <1>8 DEF LoraHosts, LoraBoards, Latched, Lora!ClearFlags
  <2>3. /\ board'.heard = board.heard /\ board'.fifo = board.fifo /\ wire' = wire
        /\ host'.kind = host.kind /\ host'.since = host.since /\ host'.stale = host.stale
        /\ host'.second = host.second /\ host'.len = host.len /\ host.pc = "clear"
        /\ \/ host'.pc = "idle" /\ host'.got = 0 /\ "CrcErr" \in host.flags
           \/ host'.pc = "status" /\ host'.got = host.got /\ "CrcErr" \notin host.flags
    <3>1. board' = [board EXCEPT !.irq = @ \ {"RxDone", "CrcErr"}] /\ wire' = wire /\ host.pc = "clear"
      BY <1>8 DEF Lora!ClearFlags
    <3>2. \/ host' = [host EXCEPT !.pc = "idle", !.got = 0] /\ "CrcErr" \in host.flags
          \/ host' = [host EXCEPT !.pc = "status"] /\ "CrcErr" \notin host.flags
      BY <1>8 DEF Lora!ClearFlags
    <3>3. board'.heard = board.heard /\ board'.fifo = board.fifo
      BY <1>a, <3>1 DEF LoraBoards
    <3>4. CASE host' = [host EXCEPT !.pc = "idle", !.got = 0] /\ "CrcErr" \in host.flags
      BY <1>a, <3>1, <3>3, <3>4 DEF LoraHosts
    <3>5. CASE host' = [host EXCEPT !.pc = "status"] /\ "CrcErr" \notin host.flags
      BY <1>a, <3>1, <3>3, <3>5 DEF LoraHosts
    <3>6. QED  BY <3>2, <3>4, <3>5
  <2>4. Reading(host', board')
    BY <1>b, <2>3 DEF Reading
  <2>5. Flagged(host', board', wire') /\ Returned(host', board', wire')
    BY <1>b, <2>3 DEF Flagged, Returned
  <2>6. QED  BY <2>1, <2>2, <2>4, <2>5 DEF LoraInv, LoraSound
<1>9. CASE Lora!Judge
  <2>1. host' \in LoraHosts /\ board' \in LoraBoards /\ wire' \subseteq 1 .. Packets
    <3>1. {} \in SUBSET Lora!Flags /\ "idle" \in Lora!PCs /\ "status" \in Lora!PCs /\ 0 \in 0 .. Packets + 2
      OBVIOUS
    <3>2. (board' = board \/ board' = [board EXCEPT !.irq = {}]) /\ wire' = wire
          /\ (host' = [host EXCEPT !.pc = "idle", !.got = 0] \/ host' = [host EXCEPT !.pc = "status"])
      BY <1>9 DEF Lora!Judge
    <3> HIDE DEF Lora!PCs, Lora!Flags
    <3>3. host' \in LoraHosts
      <4>1. [host EXCEPT !.pc = "idle", !.got = 0] \in LoraHosts
        BY <1>a, <3>1, LoraTypes, Zenon
      <4>2. [host EXCEPT !.pc = "status"] \in LoraHosts
        BY <1>a, <3>1, LoraTypes, Zenon
      <4>3. QED  BY <3>2, <4>1, <4>2
    <3>4. board' \in LoraBoards
      <4>1. [board EXCEPT !.irq = {}] \in LoraBoards
        BY <1>a, <3>1, LoraTypes, Zenon
      <4>2. QED  BY <1>a, <3>2, <4>1
    <3>5. QED  BY <1>a, <3>2, <3>3, <3>4
  <2>2. Latched(host', board')
    BY <1>a, <1>b, <1>9 DEF LoraHosts, LoraBoards, Latched, Lora!Judge
  <2>3. Reading(host', board')
    BY <1>a, <1>b, <1>9 DEF LoraHosts, LoraBoards, Latched, Reading, Lora!Judge
  <2>4. Flagged(host', board', wire')
    BY <1>a, <1>b, <1>9 DEF LoraHosts, LoraBoards, Latched, Reading, Flagged, Lora!Judge
  <2>5. Returned(host', board', wire')
    BY <1>a, <1>b, <1>9 DEF LoraHosts, LoraBoards, Latched, Reading, Flagged, Returned, Lora!Judge
  <2>6. QED  BY <2>1, <2>2, <2>3, <2>4, <2>5 DEF LoraInv, LoraSound
<1>10. CASE Lora!ReadStatus
  <2>1. host' \in LoraHosts /\ board' \in LoraBoards /\ wire' \subseteq 1 .. Packets
    BY <1>a, <1>10 DEF LoraHosts, LoraBoards, Lora!ReadStatus
  <2>2. Latched(host', board')
    BY <1>a, <1>b, <1>10 DEF LoraHosts, LoraBoards, Latched, Lora!ReadStatus
  <2>3. Reading(host', board')
    BY <1>a, <1>b, <1>10 DEF LoraHosts, LoraBoards, Latched, Reading, Lora!ReadStatus
  <2>4. Flagged(host', board', wire')
    BY <1>a, <1>b, <1>10 DEF LoraHosts, LoraBoards, Latched, Reading, Flagged, Lora!ReadStatus
  <2>5. Returned(host', board', wire')
    BY <1>a, <1>b, <1>10 DEF LoraHosts, LoraBoards, Latched, Reading, Flagged, Returned, Lora!ReadStatus
  <2>6. QED  BY <2>1, <2>2, <2>3, <2>4, <2>5 DEF LoraInv, LoraSound
<1>11. CASE Lora!ReadBuffer
  <2>1. host' \in LoraHosts /\ board' \in LoraBoards /\ wire' \subseteq 1 .. Packets
    <3> DEFINE g == IF host.kind # "sx127x" THEN host.len
                    ELSE IF board.fifo = Packets + 1 THEN Packets + 1
                    ELSE IF board.fifo = host.len THEN host.len ELSE Packets + 2
    <3>1. {} \in SUBSET Lora!Flags /\ "idle" \in Lora!PCs /\ g \in 0 .. Packets + 2
      BY <1>a, LoraFields
    <3>2. (board' = board \/ board' = [board EXCEPT !.irq = {}]) /\ wire' = wire
          /\ host' = [host EXCEPT !.pc = "idle", !.got = g]
      BY <1>11 DEF Lora!ReadBuffer
    <3> HIDE DEF g
    <3> HIDE DEF Lora!PCs, Lora!Flags
    <3>3. host' \in LoraHosts
      BY <1>a, <3>1, <3>2, LoraTypes, Zenon
    <3>4. board' \in LoraBoards
      <4>1. [board EXCEPT !.irq = {}] \in LoraBoards
        BY <1>a, <3>1, LoraTypes, Zenon
      <4>2. QED  BY <1>a, <3>2, <4>1
    <3>5. QED  BY <1>a, <3>2, <3>3, <3>4
  <2>2. Latched(host', board')
    BY <1>a, <1>b, <1>11 DEF LoraHosts, LoraBoards, Latched, Lora!ReadBuffer
  <2>3. Reading(host', board')
    BY <1>a, <1>b, <1>11 DEF LoraHosts, LoraBoards, Latched, Reading, Lora!ReadBuffer
  <2>4. Flagged(host', board', wire')
    BY <1>a, <1>b, <1>11 DEF LoraHosts, LoraBoards, Latched, Reading, Flagged, Lora!ReadBuffer
  <2>5. Returned(host', board', wire')
    BY <1>a, <1>b, <1>11 DEF LoraHosts, LoraBoards, Latched, Reading, Flagged, Returned, Lora!ReadBuffer
  <2>6. QED  BY <2>1, <2>2, <2>3, <2>4, <2>5 DEF LoraInv, LoraSound
<1>12. CASE Lora!Standby
  <2>1. host' \in LoraHosts /\ board' \in LoraBoards /\ wire' \subseteq 1 .. Packets
    BY <1>a, <1>12 DEF LoraHosts, LoraBoards, Lora!Standby
  <2>2. Latched(host', board')
    BY <1>a, <1>b, <1>12 DEF LoraHosts, LoraBoards, Latched, Lora!Standby
  <2>3. Reading(host', board')
    BY <1>a, <1>b, <1>12 DEF LoraHosts, LoraBoards, Latched, Reading, Lora!Standby
  <2>4. Flagged(host', board', wire')
    BY <1>a, <1>b, <1>12 DEF LoraHosts, LoraBoards, Latched, Reading, Flagged, Lora!Standby
  <2>5. Returned(host', board', wire')
    BY <1>a, <1>b, <1>12 DEF LoraHosts, LoraBoards, Latched, Reading, Flagged, Returned, Lora!Standby
  <2>6. QED  BY <2>1, <2>2, <2>3, <2>4, <2>5 DEF LoraInv, LoraSound
<1>13. CASE Lora!Transmitted
  <2>1. host' \in LoraHosts /\ board' \in LoraBoards /\ wire' \subseteq 1 .. Packets
    BY <1>a, <1>13 DEF LoraHosts, LoraBoards, Lora!Transmitted
  <2>2. Latched(host', board')
    BY <1>a, <1>b, <1>13 DEF LoraHosts, LoraBoards, Latched, Lora!Transmitted
  <2>3. Reading(host', board')
    BY <1>a, <1>b, <1>13 DEF LoraHosts, LoraBoards, Latched, Reading, Lora!Transmitted
  <2>4. Flagged(host', board', wire')
    BY <1>a, <1>b, <1>13 DEF LoraHosts, LoraBoards, Latched, Reading, Flagged, Lora!Transmitted
  <2>5. Returned(host', board', wire')
    BY <1>a, <1>b, <1>13 DEF LoraHosts, LoraBoards, Latched, Reading, Flagged, Returned, Lora!Transmitted
  <2>6. QED  BY <2>1, <2>2, <2>3, <2>4, <2>5 DEF LoraInv, LoraSound
<1>14. ASSUME NEW corrupt \in BOOLEAN, Lora!Hear(corrupt) PROVE LoraInv'
  <2> DEFINE n == board.heard + 1
             i == board.irq \cup (({"RxDone"} \cup (IF corrupt THEN {"CrcErr"} ELSE {})) \cap Lora!Routed)
             x == \/ host.second \/ host.pc \in {"ready", "clear", "status", "buffer"}
                  \/ host.pc = "rx" /\ board.heard > host.since
  <2>1. /\ host' = [host EXCEPT !.second = x]
        /\ board' = [board EXCEPT !.heard = n, !.fifo = n, !.irq = i]
        /\ wire' = (IF corrupt THEN wire \cup {n} ELSE wire) /\ board.heard < Packets
    BY <1>14 DEF Lora!Hear
  <2>2. n \in 1 .. Packets /\ n \in 0 .. Packets /\ n \in 0 .. Packets + 1 /\ x \in BOOLEAN /\ i \in SUBSET Lora!Flags
    BY <1>a, <2>1, LoraFields
  <2>3. /\ board.irq \subseteq i /\ "RxDone" \in i
        /\ host.kind = "sx127x" /\ corrupt => "CrcErr" \in i
        /\ host.kind # "sx127x" => ("CrcErr" \in i <=> "CrcErr" \in board.irq)
    BY DEF Lora!Routed
  <2>4. /\ host.second => x
        /\ host.pc \in {"ready", "clear", "status", "buffer"} => x
        /\ host.pc = "rx" /\ board.heard > host.since => x
    OBVIOUS
  <2> HIDE DEF i, x
  <2>5. host' \in LoraHosts /\ board' \in LoraBoards /\ wire' \subseteq 1 .. Packets
    BY <1>a, <2>1, <2>2, LoraTypes, Zenon
  <2>6. /\ host'.kind = host.kind /\ host'.pc = host.pc /\ host'.flags = host.flags /\ host'.len = host.len
        /\ host'.got = host.got /\ host'.since = host.since /\ host'.stale = host.stale /\ host'.second = x
        /\ board'.heard = n /\ board'.fifo = n /\ board'.irq = i
    BY <1>a, <2>1 DEF LoraHosts, LoraBoards
  <2>7. n > board.heard /\ board.heard \in Nat /\ host.since \in Nat
    BY <1>a, LoraFields
  <2>8. Latched(host', board')
    BY <1>b, <2>3, <2>6 DEF Latched
  <2>9. Reading(host', board')
    BY <1>a, <1>b, <2>3, <2>4, <2>6, <2>7, LoraFields DEF Reading
  <2>10. Flagged(host', board', wire')
    <3>0. wire \subseteq 1 .. board.heard /\ wire' \subseteq 1 .. n
      BY <1>a, <1>b, <2>1, <2>2, <2>7 DEF Flagged
    <3> SUFFICES ASSUME host.kind = "sx127x", ~host.stale, ~x, n = host.since + 1, n \in wire'
                 PROVE  /\ host.pc \in {"rx", "ready"} => "CrcErr" \in i
                        /\ host.pc = "clear" => "CrcErr" \in host.flags
                        /\ host.pc \notin {"status", "buffer"}
      BY <2>6, <3>0 DEF Flagged
    <3>1. n \in wire => FALSE
      BY <2>7, <3>0
    <3>2. QED  BY <2>1, <2>3, <2>4, <3>1
  <2>11. Returned(host', board', wire')
    BY <1>a, <1>b, <2>1, <2>4, <2>6, <2>7, LoraFields DEF Returned
  <2>12. QED  BY <2>5, <2>8, <2>9, <2>10, <2>11 DEF LoraInv, LoraSound
<1>15. QED
  BY <1>1, <1>2, <1>3, <1>4, <1>5, <1>6, <1>7, <1>8, <1>9, <1>10, <1>11, <1>12, <1>13, <1>14 DEF Lora!Next

-----------------------------------------------------------------------------
(* The nRF24 *)

NrfPCs == {"idle", "sending", "starting", "waiting", "reading", "cleaning"}
NrfHosts ==
  [pc : NrfPCs, got : 0 .. Packets + 1, last : 0 .. Packets, sent : 0 .. Packets,
   result : {"none", "acked", "failed"}, receive : BOOLEAN, restarted : BOOLEAN]
NrfBoards ==
  [ce : BOOLEAN, prx : BOOLEAN, rxDr : BOOLEAN, txDs : BOOLEAN, maxRt : BOOLEAN,
   air : 0 .. Packets, rx : Seq(1 .. Packets)]
NrfWires == [told : 0 .. Packets, acked : SUBSET (1 .. Packets)]

NrfShape(h, b, w) == h \in NrfHosts /\ b \in NrfBoards /\ w \in NrfWires

\* The payload in the air is that of the call, and so is TX_DS.
Sending(h, b, w) ==
  /\ b.air # 0 => h.pc = "sending" /\ b.air = h.sent
  /\ b.txDs => b.air = 0 /\ h.pc = "sending" /\ h.sent \in w.acked
  /\ h.result = "acked" => h.sent \in w.acked

\* RX_DR tells of a payload in the FIFO, as long as listening begins with CE low.
Listening(h, b) ==
  ~h.restarted =>
    /\ h.pc = "starting" => ~b.ce /\ ~b.rxDr
    /\ b.rxDr /\ h.pc # "cleaning" => b.rx # <<>>
    /\ h.pc = "reading" => b.rx # <<>>
    /\ h.pc = "cleaning" => h.got # Nrf24!Garbage

\* The FIFO holds payloads that arrived after the last that was read, in order.
Behind(rx, n, told) ==
  /\ \A i \in DOMAIN rx : rx[i] > n /\ rx[i] <= told
  /\ \A i, j \in DOMAIN rx : i < j => rx[i] < rx[j]

Queued(h, b, w) ==
  /\ h.last <= w.told /\ Behind(b.rx, h.last, w.told)
  /\ h.pc = "cleaning" /\ h.got # Nrf24!Garbage =>
       h.got > h.last /\ h.got <= w.told /\ Behind(b.rx, h.got, w.told)

NrfSound(h, b, w) == NrfShape(h, b, w) /\ Sending(h, b, w) /\ Listening(h, b) /\ Queued(h, b, w)
NrfInv == NrfSound(host, board, wire)

LEMMA NrfMeans == NrfInv => Nrf24!RadioTellsTruth
BY DEF NrfInv, NrfSound, NrfShape, NrfHosts, Sending, Listening, Queued, Nrf24!RadioTellsTruth

LEMMA NrfInit == Nrf24!Init => NrfInv
<1> SUFFICES ASSUME Nrf24!Init PROVE NrfInv
  OBVIOUS
<1>1. /\ host = [pc |-> "idle", got |-> 0, last |-> 0, sent |-> 0, result |-> "none",
                 receive |-> FALSE, restarted |-> FALSE]
      /\ board = [ce |-> FALSE, prx |-> FALSE, rxDr |-> FALSE, txDs |-> FALSE,
                  maxRt |-> FALSE, air |-> 0, rx |-> <<>>]
      /\ wire = [told |-> 0, acked |-> {}]
  BY DEF Nrf24!Init, Nrf24!Nothing
<1>2. 0 \in 0 .. Packets /\ 0 \in 0 .. Packets + 1 /\ <<>> \in Seq(1 .. Packets)
  BY PeripheralAssumption
<1>3. NrfShape(host, board, wire)
  BY <1>1, <1>2 DEF NrfShape, NrfHosts, NrfBoards, NrfWires, NrfPCs
<1>4. QED
  BY <1>1, <1>3 DEF NrfInv, NrfSound, Sending, Listening, Queued, Behind

LEMMA PacketsNat == Packets \in Nat /\ Packets <= 255
<1>1. Packets \in 0 .. 255
  BY PeripheralAssumption
<1>2. QED  BY <1>1

LEMMA BehindTail ==
  ASSUME NEW rx \in Seq(1 .. Packets), rx # <<>>, NEW n \in Nat, NEW told \in Nat, Behind(rx, n, told)
  PROVE  /\ Head(rx) \in 1 .. Packets /\ Head(rx) > n /\ Head(rx) <= told
         /\ Tail(rx) \in Seq(1 .. Packets)
         /\ Behind(Tail(rx), Head(rx), told) /\ Behind(Tail(rx), n, told)
<1>1. Len(rx) \in Nat /\ Len(rx) > 0 /\ DOMAIN rx = 1 .. Len(rx) /\ Head(rx) = rx[1]
      /\ \A i \in 1 .. Len(rx) : rx[i] \in 1 .. Packets
  <2>1. Len(rx) \in Nat /\ DOMAIN rx = 1 .. Len(rx) /\ Len(rx) # 0
    BY LenProperties, EmptySeq
  <2>2. \A i \in 1 .. Len(rx) : rx[i] \in 1 .. Packets
    BY ElementOfSeq
  <2>3. Head(rx) = rx[1]
    OBVIOUS
  <2>4. QED  BY <2>1, <2>2, <2>3
<1>2. Tail(rx) \in Seq(1 .. Packets) /\ DOMAIN Tail(rx) = 1 .. (Len(rx) - 1)
      /\ \A i \in 1 .. (Len(rx) - 1) : Tail(rx)[i] = rx[i + 1]
  BY <1>1
<1>3. Packets \in Nat
  BY PacketsNat
<1> DEFINE r == Tail(rx)
           f == Head(rx)
<1>4. \A i \in 1 .. (Len(rx) - 1) : i + 1 \in 1 .. Len(rx) /\ i + 1 > 1
  BY <1>1
<1>5. 1 \in 1 .. Len(rx)
  BY <1>1
<1>6. f \in 1 .. Packets /\ f > n /\ f <= told
  BY <1>1, <1>5 DEF Behind
<1>7. \A i \in 1 .. (Len(rx) - 1) : r[i] = rx[i + 1] /\ rx[i + 1] > n /\ rx[i + 1] <= told /\ rx[i + 1] > f
  <2>1. TAKE i \in 1 .. (Len(rx) - 1)
  <2>2. i + 1 \in DOMAIN rx /\ 1 \in DOMAIN rx /\ 1 < i + 1
    BY <1>1, <1>4, <1>5
  <2>3. rx[i + 1] > n /\ rx[i + 1] <= told /\ rx[1] < rx[i + 1] /\ rx[1] \in Nat /\ rx[i + 1] \in Nat
    BY <1>1, <1>3, <2>2 DEF Behind
  <2>4. QED  BY <1>1, <1>2, <2>3
<1>8. \A i, j \in 1 .. (Len(rx) - 1) : i < j => r[i] < r[j]
  <2>1. TAKE i, j \in 1 .. (Len(rx) - 1)
  <2>2. HAVE i < j
  <2>3. i + 1 \in DOMAIN rx /\ j + 1 \in DOMAIN rx /\ i + 1 < j + 1
    BY <1>1, <1>4, <2>2
  <2>4. QED  BY <1>7, <2>3 DEF Behind
<1>9. DOMAIN r = 1 .. (Len(rx) - 1)
  BY <1>2
<1> HIDE DEF r, f
<1>10. Behind(r, f, told) /\ Behind(r, n, told)
  BY <1>7, <1>8, <1>9 DEF Behind
<1>11. QED  BY <1>2, <1>6, <1>10 DEF r, f

LEMMA BehindAppend ==
  ASSUME NEW rx \in Seq(1 .. Packets), NEW n \in 0 .. Packets, NEW told \in Nat, n <= told,
         told < Packets, Behind(rx, n, told)
  PROVE  /\ Append(rx, told + 1) \in Seq(1 .. Packets) /\ Append(rx, told + 1) # <<>>
         /\ Behind(Append(rx, told + 1), n, told + 1)
<1> DEFINE r == Append(rx, told + 1)
<1>1. Packets \in Nat /\ told + 1 \in 1 .. Packets
  BY PacketsNat
<1>2. /\ Len(rx) \in Nat /\ DOMAIN rx = 1 .. Len(rx) /\ r \in Seq(1 .. Packets) /\ r # <<>>
      /\ DOMAIN r = 1 .. (Len(rx) + 1)
      /\ \A i \in 1 .. Len(rx) : r[i] = rx[i] /\ rx[i] \in 1 .. Packets
      /\ r[Len(rx) + 1] = told + 1
  BY <1>1
<1> HIDE DEF r
<1>3. \A i \in DOMAIN r : r[i] > n /\ r[i] <= told + 1
  <2>1. TAKE i \in DOMAIN r
  <2>2. CASE i = Len(rx) + 1
    BY <1>1, <1>2, <2>2
  <2>3. CASE i \in 1 .. Len(rx)
    BY <1>1, <1>2, <2>3 DEF Behind
  <2>4. QED  BY <1>2, <2>2, <2>3
<1>4. \A i, j \in DOMAIN r : i < j => r[i] < r[j]
  <2>1. TAKE i, j \in DOMAIN r
  <2>2. HAVE i < j
  <2>3. i \in 1 .. Len(rx)
    BY <1>2, <2>2
  <2>4. CASE j = Len(rx) + 1
    BY <1>1, <1>2, <2>3, <2>4 DEF Behind
  <2>5. CASE j \in 1 .. Len(rx)
    BY <1>2, <2>2, <2>3, <2>5 DEF Behind
  <2>6. QED  BY <1>2, <2>4, <2>5
<1>5. QED  BY <1>2, <1>3, <1>4 DEF Behind, r

LEMMA NrfTypes ==
  ASSUME NEW h \in NrfHosts, NEW b \in NrfBoards, NEW w \in NrfWires
  PROVE  /\ \A p \in NrfPCs : [h EXCEPT !.pc = p] \in NrfHosts
         /\ \A p \in NrfPCs, g \in 0 .. Packets + 1 : [h EXCEPT !.pc = p, !.got = g] \in NrfHosts
         /\ \A p \in NrfPCs, g \in 0 .. Packets : [h EXCEPT !.pc = p, !.last = g] \in NrfHosts
         /\ \A p \in NrfPCs, g \in 0 .. Packets + 1, n \in 0 .. Packets, r \in {"none", "acked", "failed"} :
              [h EXCEPT !.pc = p, !.sent = n, !.result = r, !.got = g] \in NrfHosts
         /\ \A p \in NrfPCs, r \in {"none", "acked", "failed"} :
              [h EXCEPT !.pc = p, !.result = r] \in NrfHosts
         /\ \A p \in NrfPCs, g \in 0 .. Packets + 1, x, y \in BOOLEAN :
              [h EXCEPT !.pc = p, !.receive = x, !.got = g, !.restarted = y] \in NrfHosts
         /\ \A p \in NrfPCs, x \in BOOLEAN : [h EXCEPT !.pc = p, !.receive = x] \in NrfHosts
BY Zenon DEF NrfHosts

LEMMA NrfBoardTypes ==
  ASSUME NEW b \in NrfBoards, NEW w \in NrfWires
  PROVE  /\ \A n \in 0 .. Packets, x, y \in BOOLEAN :
              [b EXCEPT !.ce = FALSE, !.prx = FALSE, !.txDs = x, !.maxRt = y, !.air = n] \in NrfBoards
         /\ \A n \in 0 .. Packets, x, y \in BOOLEAN :
              [b EXCEPT !.air = n, !.txDs = x, !.maxRt = y] \in NrfBoards
         /\ \A x \in BOOLEAN : [b EXCEPT !.txDs = x] \in NrfBoards
         /\ \A n \in 0 .. Packets, x \in BOOLEAN :
              [b EXCEPT !.air = n, !.txDs = x] \in NrfBoards
         /\ \A n \in 0 .. Packets, y \in BOOLEAN : [b EXCEPT !.maxRt = y, !.air = n] \in NrfBoards
         /\ \A n \in 0 .. Packets, y \in BOOLEAN : [b EXCEPT !.air = n, !.maxRt = y] \in NrfBoards
         /\ [b EXCEPT !.prx = TRUE, !.rxDr = FALSE, !.txDs = FALSE, !.maxRt = FALSE] \in NrfBoards
         /\ \A r \in Seq(1 .. Packets), x \in BOOLEAN : [b EXCEPT !.rx = r, !.ce = x] \in NrfBoards
         /\ \A r \in Seq(1 .. Packets) : [b EXCEPT !.rx = r] \in NrfBoards
         /\ \A r \in Seq(1 .. Packets), x \in BOOLEAN : [b EXCEPT !.rx = r, !.rxDr = x] \in NrfBoards
         /\ \A x \in BOOLEAN : [b EXCEPT !.ce = x] \in NrfBoards
         /\ \A x, y \in BOOLEAN : [b EXCEPT !.rxDr = x, !.ce = y] \in NrfBoards
         /\ \A n \in 0 .. Packets : [w EXCEPT !.told = n] \in NrfWires
         /\ \A n \in SUBSET (1 .. Packets) : [w EXCEPT !.acked = n] \in NrfWires
BY Zenon DEF NrfBoards, NrfWires

LEMMA NrfFields ==
  ASSUME NEW h \in NrfHosts, NEW b \in NrfBoards, NEW w \in NrfWires
  PROVE  /\ h.pc \in NrfPCs /\ h.got \in 0 .. Packets + 1 /\ h.last \in 0 .. Packets
         /\ h.sent \in 0 .. Packets /\ h.result \in {"none", "acked", "failed"}
         /\ h.receive \in BOOLEAN /\ h.restarted \in BOOLEAN
         /\ b.ce \in BOOLEAN /\ b.prx \in BOOLEAN /\ b.rxDr \in BOOLEAN /\ b.txDs \in BOOLEAN
         /\ b.maxRt \in BOOLEAN /\ b.air \in 0 .. Packets /\ b.rx \in Seq(1 .. Packets)
         /\ w.told \in 0 .. Packets /\ w.acked \subseteq 1 .. Packets
BY DEF NrfHosts, NrfBoards, NrfWires

LEMMA NrfStep ==
  ASSUME NrfInv, Nrf24!Next
  PROVE  NrfInv'
<1>a. host \in NrfHosts /\ board \in NrfBoards /\ wire \in NrfWires
  BY DEF NrfInv, NrfSound, NrfShape
<1>b. Sending(host, board, wire) /\ Listening(host, board) /\ Queued(host, board, wire)
  BY DEF NrfInv, NrfSound
<1>c. NrfPCs = {"idle", "sending", "starting", "waiting", "reading", "cleaning"}
  BY DEF NrfPCs
<1>d. 0 \in 0 .. Packets /\ 0 \in 0 .. Packets + 1 /\ <<>> \in Seq(1 .. Packets)
  BY PacketsNat
<1>1. CASE Nrf24!SendStart
  <2>1. host' \in NrfHosts /\ board' \in NrfBoards /\ wire' \in NrfWires
    <3>1. host.sent + 1 \in 0 .. Packets
      BY <1>a, <1>1, PacketsNat, NrfFields DEF Nrf24!SendStart
    <3> DEFINE n == host.sent + 1
    <3>2. /\ host' = [host EXCEPT !.pc = "sending", !.sent = n, !.result = "none", !.got = 0]
          /\ board' = [board EXCEPT !.ce = FALSE, !.prx = FALSE, !.txDs = FALSE, !.maxRt = FALSE, !.air = n]
          /\ wire' = wire
      BY <1>a, <1>1 DEF Nrf24!SendStart, Nrf24!Nothing, NrfHosts
    <3> HIDE DEF n
    <3>3. n \in 0 .. Packets
      BY <3>1 DEF n
    <3>4. host' \in NrfHosts
      BY <1>a, <1>c, <1>d, <3>2, <3>3, NrfTypes, Zenon
    <3>5. board' \in NrfBoards
      BY <1>a, <3>2, <3>3, NrfBoardTypes, Zenon
    <3>6. QED  BY <1>a, <3>2, <3>4, <3>5
  <2>2. Sending(host', board', wire')
    BY <1>a, <1>b, <1>1 DEF NrfHosts, NrfBoards, NrfWires, Sending, Nrf24!SendStart
  <2>3. Listening(host', board')
    BY <1>a, <1>b, <1>1 DEF NrfHosts, NrfBoards, Listening, Nrf24!SendStart
  <2>4. Queued(host', board', wire')
    BY <1>a, <1>b, <1>1 DEF NrfHosts, NrfBoards, NrfWires, Queued, Nrf24!SendStart
  <2>5. QED  BY <2>1, <2>2, <2>3, <2>4 DEF NrfInv, NrfSound, NrfShape
<1>2. CASE Nrf24!SendEnds
  <2>1. host' \in NrfHosts /\ board' \in NrfBoards /\ wire' \in NrfWires
    BY <1>a, <1>c, <1>d, <1>2, NrfTypes, NrfBoardTypes, NrfFields, Zenon DEF Nrf24!SendEnds, Nrf24!Nothing
  <2>2. Sending(host', board', wire')
    <3>1. CASE board.txDs
      <4>1. /\ board' = [board EXCEPT !.txDs = FALSE] /\ wire' = wire /\ host.pc = "sending"
            /\ host' = [host EXCEPT !.pc = "idle", !.result = "acked"]
        BY <1>2, <3>1 DEF Nrf24!SendEnds
      <4>2. host'.sent = host.sent /\ board'.txDs = FALSE /\ board'.air = board.air
        BY <1>a, <4>1 DEF NrfHosts, NrfBoards
      <4>3. board.air = 0
        BY <1>b, <3>1 DEF Sending
      <4>4. QED  BY <1>b, <3>1, <4>1, <4>2, <4>3 DEF Sending
    <3>2. CASE ~board.txDs
      <4>1. /\ board' = [board EXCEPT !.maxRt = FALSE, !.air = 0] /\ wire' = wire
            /\ host' = [host EXCEPT !.pc = "idle", !.result = "failed"]
        BY <1>2, <3>2 DEF Nrf24!SendEnds
      <4>2. host'.result = "failed" /\ board'.air = 0 /\ board'.txDs = board.txDs
        BY <1>a, <4>1 DEF NrfHosts, NrfBoards
      <4>3. QED  BY <3>2, <4>2 DEF Sending
    <3>3. QED  BY <3>1, <3>2
  <2>3. Listening(host', board')
    BY <1>a, <1>b, <1>2 DEF NrfHosts, NrfBoards, Listening, Nrf24!SendEnds
  <2>4. Queued(host', board', wire')
    BY <1>a, <1>b, <1>2 DEF NrfHosts, NrfBoards, NrfWires, Queued, Nrf24!SendEnds
  <2>5. QED  BY <2>1, <2>2, <2>3, <2>4 DEF NrfInv, NrfSound, NrfShape
<1>3. CASE Nrf24!SendTimeout
  <2>1. host' \in NrfHosts /\ board' \in NrfBoards /\ wire' \in NrfWires
    BY <1>a, <1>c, <1>d, <1>3, NrfTypes, NrfBoardTypes, NrfFields, Zenon DEF Nrf24!SendTimeout, Nrf24!Nothing
  <2>2. Sending(host', board', wire')
    BY <1>a, <1>b, <1>3 DEF NrfHosts, NrfBoards, NrfWires, Sending, Nrf24!SendTimeout
  <2>3. Listening(host', board')
    BY <1>a, <1>b, <1>3 DEF NrfHosts, NrfBoards, Listening, Nrf24!SendTimeout
  <2>4. Queued(host', board', wire')
    BY <1>a, <1>b, <1>3 DEF NrfHosts, NrfBoards, NrfWires, Queued, Nrf24!SendTimeout
  <2>5. QED  BY <2>1, <2>2, <2>3, <2>4 DEF NrfInv, NrfSound, NrfShape
<1>4. CASE Nrf24!Transmitted
  <2>1. host' \in NrfHosts /\ board' \in NrfBoards /\ wire' \in NrfWires
    <3> DEFINE k == wire.acked \cup {board.air}
    <3>1. k \in SUBSET (1 .. Packets)
      BY <1>a, <1>4, NrfFields DEF Nrf24!Transmitted
    <3>2. /\ host' = host
          /\ board' = [board EXCEPT !.air = 0, !.txDs = TRUE] \/ board' = [board EXCEPT !.air = 0, !.maxRt = TRUE]
          /\ wire' = wire \/ wire' = [wire EXCEPT !.acked = k]
      BY <1>4 DEF Nrf24!Transmitted
    <3> HIDE DEF k
    <3>3. [board EXCEPT !.air = 0, !.txDs = TRUE] \in NrfBoards /\ [board EXCEPT !.air = 0, !.maxRt = TRUE] \in NrfBoards
      BY <1>a, <1>d, NrfBoardTypes, Zenon
    <3>4. [wire EXCEPT !.acked = k] \in NrfWires
      BY <1>a, <3>1, NrfBoardTypes, Zenon
    <3>5. QED  BY <1>a, <3>2, <3>3, <3>4
  <2>2. Sending(host', board', wire')
    <3>1. host' = host /\ host.pc = "sending" /\ board.air = host.sent /\ ~board.txDs
      BY <1>b, <1>4 DEF Sending, Nrf24!Transmitted
    <3>2. CASE /\ board' = [board EXCEPT !.air = 0, !.txDs = TRUE]
               /\ wire' = [wire EXCEPT !.acked = @ \cup {board.air}]
      <4>1. board'.air = 0 /\ host.sent \in wire'.acked
        BY <1>a, <3>1, <3>2 DEF NrfBoards, NrfWires
      <4>2. QED  BY <3>1, <4>1 DEF Sending
    <3>3. CASE /\ board' = [board EXCEPT !.air = 0, !.maxRt = TRUE]
               /\ wire' = wire \/ wire' = [wire EXCEPT !.acked = @ \cup {board.air}]
      <4>1. board'.air = 0 /\ board'.txDs = board.txDs /\ wire.acked \subseteq wire'.acked
        BY <1>a, <3>3 DEF NrfBoards, NrfWires
      <4>2. QED  BY <1>b, <3>1, <4>1 DEF Sending
    <3>4. QED  BY <1>4, <3>2, <3>3 DEF Nrf24!Transmitted
  <2>3. Listening(host', board')
    BY <1>a, <1>b, <1>4 DEF NrfHosts, NrfBoards, Listening, Nrf24!Transmitted
  <2>4. Queued(host', board', wire')
    BY <1>a, <1>b, <1>4 DEF NrfHosts, NrfBoards, NrfWires, Queued, Nrf24!Transmitted
  <2>5. QED  BY <2>1, <2>2, <2>3, <2>4 DEF NrfInv, NrfSound, NrfShape
<1>5. ASSUME NEW receive \in BOOLEAN, Nrf24!StartListening(receive) PROVE NrfInv'
  <2>1. host' \in NrfHosts /\ board' \in NrfBoards /\ wire' \in NrfWires
    BY <1>a, <1>c, <1>d, <1>5, NrfTypes, NrfBoardTypes, NrfFields, Zenon DEF Nrf24!StartListening, Nrf24!Nothing
  <2>2. Sending(host', board', wire')
    BY <1>a, <1>b, <1>5 DEF NrfHosts, NrfBoards, NrfWires, Sending, Nrf24!StartListening
  <2>3. Listening(host', board')
    BY <1>a, <1>b, <1>5 DEF NrfHosts, NrfBoards, Listening, Nrf24!StartListening
  <2>4. Queued(host', board', wire')
    BY <1>a, <1>b, <1>5 DEF NrfHosts, NrfBoards, NrfWires, Queued, Nrf24!StartListening
  <2>5. QED  BY <2>1, <2>2, <2>3, <2>4 DEF NrfInv, NrfSound, NrfShape
<1>6. CASE Nrf24!Flush
  <2>1. host' \in NrfHosts /\ board' \in NrfBoards /\ wire' \in NrfWires
    BY <1>a, <1>c, <1>d, <1>6, NrfTypes, NrfBoardTypes, NrfFields, Zenon DEF Nrf24!Flush, Nrf24!Nothing
  <2>2. Sending(host', board', wire')
    BY <1>a, <1>b, <1>6 DEF NrfHosts, NrfBoards, NrfWires, Sending, Nrf24!Flush
  <2>3. Listening(host', board')
    BY <1>a, <1>b, <1>6 DEF NrfHosts, NrfBoards, Listening, Nrf24!Flush
  <2>4. Queued(host', board', wire')
    <3>1. /\ host'.last = host.last /\ host'.pc # "cleaning" /\ wire' = wire /\ board'.rx = <<>>
      BY <1>a, <1>6 DEF NrfHosts, NrfBoards, Nrf24!Flush
    <3>2. QED  BY <1>b, <3>1 DEF Queued, Behind
  <2>5. QED  BY <2>1, <2>2, <2>3, <2>4 DEF NrfInv, NrfSound, NrfShape
<1>7. CASE Nrf24!StopListening
  <2>1. host' \in NrfHosts /\ board' \in NrfBoards /\ wire' \in NrfWires
    BY <1>a, <1>c, <1>d, <1>7, NrfTypes, NrfBoardTypes, NrfFields, Zenon DEF Nrf24!StopListening, Nrf24!Nothing
  <2>2. Sending(host', board', wire')
    BY <1>a, <1>b, <1>7 DEF NrfHosts, NrfBoards, NrfWires, Sending, Nrf24!StopListening
  <2>3. Listening(host', board')
    BY <1>a, <1>b, <1>7 DEF NrfHosts, NrfBoards, Listening, Nrf24!StopListening
  <2>4. Queued(host', board', wire')
    BY <1>a, <1>b, <1>7 DEF NrfHosts, NrfBoards, NrfWires, Queued, Nrf24!StopListening
  <2>5. QED  BY <2>1, <2>2, <2>3, <2>4 DEF NrfInv, NrfSound, NrfShape
<1>8. CASE Nrf24!Available
  <2>1. host' \in NrfHosts /\ board' \in NrfBoards /\ wire' \in NrfWires
    BY <1>a, <1>c, <1>d, <1>8, NrfTypes, NrfBoardTypes, NrfFields, Zenon DEF Nrf24!Available, Nrf24!Nothing
  <2>2. Sending(host', board', wire')
    BY <1>a, <1>b, <1>8 DEF NrfHosts, NrfBoards, NrfWires, Sending, Nrf24!Available
  <2>3. Listening(host', board')
    BY <1>a, <1>b, <1>8 DEF NrfHosts, NrfBoards, Listening, Nrf24!Available
  <2>4. Queued(host', board', wire')
    BY <1>a, <1>b, <1>8 DEF NrfHosts, NrfBoards, NrfWires, Queued, Nrf24!Available
  <2>5. QED  BY <2>1, <2>2, <2>3, <2>4 DEF NrfInv, NrfSound, NrfShape
<1>9. CASE Nrf24!ReceiveTimeout
  <2>1. host' \in NrfHosts /\ board' \in NrfBoards /\ wire' \in NrfWires
    BY <1>a, <1>c, <1>d, <1>9, NrfTypes, NrfBoardTypes, NrfFields, Zenon DEF Nrf24!ReceiveTimeout, Nrf24!Nothing
  <2>2. Sending(host', board', wire')
    BY <1>a, <1>b, <1>9 DEF NrfHosts, NrfBoards, NrfWires, Sending, Nrf24!ReceiveTimeout
  <2>3. Listening(host', board')
    BY <1>a, <1>b, <1>9 DEF NrfHosts, NrfBoards, Listening, Nrf24!ReceiveTimeout
  <2>4. Queued(host', board', wire')
    BY <1>a, <1>b, <1>9 DEF NrfHosts, NrfBoards, NrfWires, Queued, Nrf24!ReceiveTimeout
  <2>5. QED  BY <2>1, <2>2, <2>3, <2>4 DEF NrfInv, NrfSound, NrfShape
<1>10. CASE Nrf24!ReadPayload
  <2> DEFINE f == Head(board.rx)
             r == Tail(board.rx)
  <2>0. board.rx \in Seq(1 .. Packets) /\ host.last \in Nat /\ wire.told \in Nat /\ Packets \in Nat
        /\ Behind(board.rx, host.last, wire.told)
    BY <1>a, <1>b, NrfFields, PacketsNat DEF Queued
  <2>1. CASE board.rx = <<>>
    <3>1. host' = [host EXCEPT !.pc = "cleaning", !.got = Packets + 1] /\ board' = board /\ wire' = wire
      BY <1>10, <2>1 DEF Nrf24!ReadPayload, Nrf24!Garbage
    <3>2. "cleaning" \in NrfPCs /\ Packets + 1 \in 0 .. Packets + 1
      BY <1>c, <2>0
    <3>3. host' \in NrfHosts
      BY <1>a, <3>1, <3>2, NrfTypes, Zenon
    <3>4. /\ host'.pc = "cleaning" /\ host'.got = Nrf24!Garbage /\ host'.last = host.last
          /\ host'.restarted = host.restarted /\ host'.sent = host.sent /\ host'.result = host.result
          /\ host.pc = "reading"
      BY <1>a, <1>10, <3>1 DEF NrfHosts, Nrf24!Garbage, Nrf24!ReadPayload
    <3>5. QED
      BY <1>a, <1>b, <2>1, <3>1, <3>3, <3>4
         DEF NrfInv, NrfSound, NrfShape, Sending, Listening, Queued
  <2>2. CASE board.rx # <<>>
    <3>1. /\ f \in 1 .. Packets /\ f > host.last /\ f <= wire.told /\ r \in Seq(1 .. Packets)
          /\ Behind(r, f, wire.told) /\ Behind(r, host.last, wire.told)
      BY <2>0, <2>2, BehindTail
    <3>2. /\ host' = [host EXCEPT !.pc = "cleaning", !.got = f] /\ wire' = wire
          /\ board' = [board EXCEPT !.rx = r] /\ host.pc = "reading"
      BY <1>a, <1>10, <2>2 DEF Nrf24!ReadPayload, NrfBoards
    <3> HIDE DEF f, r
    <3>3. "cleaning" \in NrfPCs /\ f \in 0 .. Packets + 1 /\ f # Nrf24!Garbage
      BY <1>c, <2>0, <3>1 DEF Nrf24!Garbage
    <3>4. host' \in NrfHosts
      BY <1>a, <3>2, <3>3, NrfTypes, Zenon
    <3>5. board' \in NrfBoards
      BY <1>a, <3>1, <3>2, NrfBoardTypes, Zenon
    <3>6. /\ host'.pc = "cleaning" /\ host'.got = f /\ host'.last = host.last
          /\ host'.restarted = host.restarted /\ host'.sent = host.sent /\ host'.result = host.result
          /\ board'.rx = r /\ board'.air = board.air /\ board'.txDs = board.txDs
      BY <1>a, <3>2 DEF NrfHosts, NrfBoards
    <3>7. Sending(host', board', wire')
      BY <1>b, <3>2, <3>6 DEF Sending
    <3>8. Listening(host', board')
      BY <3>3, <3>6 DEF Listening
    <3>9. Queued(host', board', wire')
      BY <1>b, <3>1, <3>2, <3>6 DEF Queued
    <3>10. QED  BY <1>a, <3>2, <3>4, <3>5, <3>7, <3>8, <3>9 DEF NrfInv, NrfSound, NrfShape
  <2>3. QED  BY <2>1, <2>2
<1>11. CASE Nrf24!ReadClear
  <2>1. host' \in NrfHosts /\ board' \in NrfBoards /\ wire' \in NrfWires
    <3> DEFINE n == IF host.got = Nrf24!Garbage THEN host.last ELSE host.got
               x == board.ce /\ ~host.receive
    <3>1. n \in 0 .. Packets /\ x \in BOOLEAN
      BY <1>a, NrfFields, PacketsNat DEF Nrf24!Garbage
    <3>2. /\ host' = [host EXCEPT !.pc = "idle", !.last = n] /\ wire' = wire
          /\ board' = [board EXCEPT !.rxDr = FALSE, !.ce = x]
      BY <1>a, <1>11 DEF Nrf24!ReadClear
    <3> HIDE DEF n, x
    <3>3. "idle" \in NrfPCs /\ FALSE \in BOOLEAN
      BY <1>c
    <3>4. host' \in NrfHosts
      BY <1>a, <3>1, <3>2, <3>3, NrfTypes, Zenon
    <3>5. board' \in NrfBoards
      BY <1>a, <3>1, <3>2, <3>3, NrfBoardTypes, Zenon
    <3>6. QED  BY <1>a, <3>2, <3>4, <3>5
  <2>2. Sending(host', board', wire')
    BY <1>a, <1>b, <1>11 DEF NrfHosts, NrfBoards, NrfWires, Sending, Nrf24!ReadClear
  <2>3. Listening(host', board')
    BY <1>a, <1>b, <1>11 DEF NrfHosts, NrfBoards, Listening, Nrf24!ReadClear
  <2>4. Queued(host', board', wire')
    BY <1>a, <1>b, <1>11 DEF NrfHosts, NrfBoards, NrfWires, Queued, Nrf24!ReadClear
  <2>5. QED  BY <2>1, <2>2, <2>3, <2>4 DEF NrfInv, NrfSound, NrfShape
<1>12. CASE Nrf24!Arrive
  <2> DEFINE n == wire.told + 1
             r == Append(board.rx, n)
  <2>0. board.rx \in Seq(1 .. Packets) /\ host.last \in 0 .. Packets /\ wire.told \in Nat /\ Packets \in Nat
        /\ Behind(board.rx, host.last, wire.told) /\ host.last <= wire.told /\ wire.told < Packets
    BY <1>a, <1>b, <1>12, NrfFields, PacketsNat DEF Queued, Nrf24!Arrive
  <2>1. n \in 0 .. Packets /\ n > wire.told
    BY <2>0
  <2>2. r \in Seq(1 .. Packets) /\ r # <<>> /\ Behind(r, host.last, n)
    BY <2>0, BehindAppend
  <2>3. host.pc = "cleaning" /\ host.got # Nrf24!Garbage =>
          host.got > host.last /\ host.got <= n /\ Behind(r, host.got, n)
    <3> SUFFICES ASSUME host.pc = "cleaning", host.got # Nrf24!Garbage
                 PROVE  host.got > host.last /\ host.got <= n /\ Behind(r, host.got, n)
      OBVIOUS
    <3>1. host.got > host.last /\ host.got <= wire.told /\ Behind(board.rx, host.got, wire.told)
      BY <1>b DEF Queued
    <3>2. host.got \in 0 .. Packets
      BY <1>a, <2>0, <3>1, NrfFields
    <3>3. Behind(r, host.got, n)
      BY <2>0, <3>1, <3>2, BehindAppend
    <3>4. host.got <= n
      BY <2>0, <2>1, <3>1, <3>2
    <3>5. QED  BY <3>1, <3>3, <3>4
  <2>4. /\ host' = host /\ wire' = [wire EXCEPT !.told = n]
        /\ board' = [board EXCEPT !.rx = r, !.rxDr = TRUE] /\ board.ce
    BY <1>a, <1>12 DEF Nrf24!Arrive, NrfBoards, NrfWires
  <2>5. host.last <= n
    BY <2>0, <2>1
  <2> HIDE DEF n, r
  <2>6. board' \in NrfBoards /\ wire' \in NrfWires
    BY <1>a, <2>1, <2>2, <2>4, NrfBoardTypes, Zenon
  <2>7. /\ board'.rx = r /\ board'.air = board.air /\ board'.txDs = board.txDs /\ board'.ce = board.ce
        /\ wire'.told = n /\ wire'.acked = wire.acked
    BY <1>a, <2>4 DEF NrfBoards, NrfWires
  <2>8. Sending(host', board', wire')
    BY <1>b, <2>4, <2>7 DEF Sending
  <2>9. Listening(host', board')
    BY <1>b, <2>2, <2>4, <2>7 DEF Listening
  <2>10. Queued(host', board', wire')
    BY <2>2, <2>3, <2>4, <2>5, <2>7 DEF Queued
  <2>11. QED  BY <1>a, <2>4, <2>6, <2>8, <2>9, <2>10 DEF NrfInv, NrfSound, NrfShape
<1>13. QED
  BY <1>1, <1>2, <1>3, <1>4, <1>5, <1>6, <1>7, <1>8, <1>9, <1>10, <1>11, <1>12 DEF Nrf24!Next

-----------------------------------------------------------------------------
(* ESP-NOW *)

SendCalls == [id : 0 .. Packets, sure : BOOLEAN]
SendTold == [id : 0 .. Packets, acked : BOOLEAN]
OnAir == [id : 0 .. Packets, wait : BOOLEAN]
SendNow == [id : 0 .. Packets, thread : Threads \cup {0}]
EspHosts == [added : BOOLEAN, call : [Threads -> SendCalls], told : [Threads -> SendTold]]
EspBoards ==
  [on : BOOLEAN, peer : BOOLEAN, ff : 0 .. 255, counting : BOOLEAN, given : BOOLEAN,
   status : BOOLEAN, air : Seq(OnAir), now : SendNow, acked : SUBSET (0 .. Packets),
   wasLate : BOOLEAN]
EspWires == [sent : 0 .. Packets, faults : Nat]

EspShape(h, b, w) ==
  /\ h \in EspHosts /\ b \in EspBoards /\ w \in EspWires
  /\ Len(b.air) <= w.sent /\ (b.counting => w.sent < Packets)
  /\ b.now # EspNow!None => b.now.thread \in Threads /\ ~b.counting

\* The first n packets on the air are fire-and-forget.
Forgotten(air, n) == \A i \in 1 .. n : ~air[i].wait

\* A send waits, with the callbacks in step: its packet is the last on the air, behind as many
\* others as are counted, or its callback has come.
InStep(b) ==
  \/ /\ b.air # <<>> /\ b.ff = Len(b.air) - 1 /\ Forgotten(b.air, Len(b.air) - 1)
     /\ b.air[Len(b.air)] = [id |-> b.now.id, wait |-> TRUE] /\ ~b.given
  \/ /\ b.air = <<>> /\ b.ff = 0 /\ b.given
     /\ b.status => b.now.id \in b.acked

\* No send waits, and the count is right.
Counted(b) ==
  /\ ~b.given /\ Forgotten(b.air, Len(b.air))
  /\ b.ff = Len(b.air) + (IF b.counting THEN 1 ELSE 0)

EspSound(h, b, w) ==
  /\ EspShape(h, b, w)
  /\ b.now # EspNow!None /\ h.call[b.now.thread].sure => InStep(b)
  /\ b.now # EspNow!None /\ ~b.wasLate => InStep(b)
  /\ b.now = EspNow!None /\ ~b.wasLate => Counted(b)
  /\ \A t \in Threads : h.told[t].acked => h.told[t].id \in b.acked
EspInv == EspSound(host, board, wire)

LEMMA CountUpTo ==
  ASSUME NEW n \in Nat
  PROVE  Cardinality(1 .. n) = n
<1>1. 1 \in Int /\ n \in Int
  OBVIOUS
<1>2. Cardinality(1 .. n) = IF 1 > n THEN 0 ELSE n - 1 + 1
  BY <1>1, FS_Interval
<1>3. QED  BY <1>2

LEMMA EspMeans == EspInv => EspNow!AckIsOwn /\ EspNow!CountIsRight
<1> SUFFICES ASSUME EspInv PROVE EspNow!AckIsOwn /\ EspNow!CountIsRight
  OBVIOUS
<1>1. EspNow!AckIsOwn
  BY DEF EspInv, EspSound, EspNow!AckIsOwn
<1>2. ASSUME ~board.wasLate
      PROVE  board.ff = EspNow!Cardinality(EspNow!FireAndForget(board.air))
                        + (IF board.counting THEN 1 ELSE 0)
  <2> DEFINE air == board.air
             forgotten == {i \in DOMAIN air : ~air[i].wait}
  <2>1. /\ air \in Seq(OnAir) /\ Len(air) \in Nat /\ DOMAIN air = 1 .. Len(air)
        /\ board.ff \in Nat /\ board.counting \in BOOLEAN
    <3>1. board \in EspBoards
      BY DEF EspInv, EspSound, EspShape
    <3>2. air \in Seq(OnAir) /\ board.counting \in BOOLEAN
      BY <3>1 DEF EspBoards
    <3> HIDE DEF air
    <3>3. Len(air) \in Nat /\ DOMAIN air = 1 .. Len(air)
      BY <3>2, LenProperties
    <3>4. board.ff \in Nat
      <4>1. board.ff \in 0 .. 255
        BY <3>1 DEF EspBoards
      <4>2. QED  BY <4>1
    <3>5. QED  BY <3>2, <3>3, <3>4
  <2>2. EspNow!FireAndForget(air) = forgotten
    BY DEF EspNow!FireAndForget
  <2>3. EspNow!Cardinality(forgotten) = Cardinality(forgotten)
    BY Zenon DEF EspNow!Cardinality, Cardinality
  <2>4. CASE Counted(board)
    <3>1. forgotten = 1 .. Len(air)
      BY <2>1, <2>4 DEF Counted, Forgotten
    <3>2. Cardinality(forgotten) = Len(air)
      BY <2>1, <3>1, CountUpTo
    <3>3. QED  BY <2>2, <2>3, <2>4, <3>2 DEF Counted
  <2>5. CASE InStep(board) /\ board.now # EspNow!None
    <3>0. ~board.counting
      BY <2>5 DEF EspInv, EspSound, EspShape
    <3>1. CASE air = <<>> /\ board.ff = 0
      <4>1. forgotten = {}
        BY <3>1
      <4>2. Cardinality(forgotten) = 0
        BY <4>1, FS_EmptySet
      <4>3. QED  BY <2>2, <2>3, <3>0, <3>1, <4>2
    <3>2. CASE /\ air # <<>> /\ board.ff = Len(air) - 1 /\ Forgotten(air, Len(air) - 1)
               /\ air[Len(air)] = [id |-> board.now.id, wait |-> TRUE]
      <4>1. forgotten = 1 .. (Len(air) - 1)
        <5>1. \A i \in 1 .. Len(air) : ~air[i].wait <=> i \in 1 .. (Len(air) - 1)
          <6>1. TAKE i \in 1 .. Len(air)
          <6>2. CASE i = Len(air)
            BY <2>1, <3>2, <6>2
          <6>3. CASE i # Len(air)
            BY <2>1, <3>2, <6>3 DEF Forgotten
          <6>4. QED  BY <6>2, <6>3
        <5>2. QED  BY <2>1, <5>1
      <4>2. Len(air) - 1 \in Nat
        BY <2>1, <3>2, EmptySeq
      <4>3. Cardinality(forgotten) = Len(air) - 1
        BY <4>1, <4>2, CountUpTo
      <4>4. QED  BY <2>2, <2>3, <3>0, <3>2, <4>3
    <3>3. QED  BY <2>5, <3>1, <3>2 DEF InStep
  <2>6. QED  BY <1>2, <2>4, <2>5 DEF EspInv, EspSound
<1>3. QED  BY <1>1, <1>2 DEF EspNow!CountIsRight

LEMMA EspInit == EspNow!Init => EspInv
<1> SUFFICES ASSUME EspNow!Init PROVE EspInv
  OBVIOUS
<1>1. /\ host = [added |-> FALSE, call |-> [t \in Threads |-> [id |-> 0, sure |-> FALSE]],
                 told |-> [t \in Threads |-> [id |-> 0, acked |-> FALSE]]]
      /\ board = [on |-> FALSE, peer |-> FALSE, ff |-> 0, counting |-> FALSE, given |-> FALSE,
                  status |-> FALSE, air |-> <<>>, now |-> [id |-> 0, thread |-> 0], acked |-> {},
                  wasLate |-> FALSE]
      /\ wire = [sent |-> 0, faults |-> Faults + 1]
  BY DEF EspNow!Init, EspNow!Idle, EspNow!None
<1>2. 0 \in 0 .. Packets /\ <<>> \in Seq(OnAir) /\ Len(<<>>) = 0 /\ Faults + 1 \in Nat
  BY PacketsNat, EmptySeq, PartsAssumption
<1>3. host \in EspHosts
  <2>1. [t \in Threads |-> [id |-> 0, sure |-> FALSE]] \in [Threads -> SendCalls]
    BY <1>2 DEF SendCalls
  <2>2. [t \in Threads |-> [id |-> 0, acked |-> FALSE]] \in [Threads -> SendTold]
    BY <1>2 DEF SendTold
  <2>3. QED  BY <1>1, <2>1, <2>2 DEF EspHosts
<1>4. board \in EspBoards
  <2>1. [id |-> 0, thread |-> 0] \in SendNow
    BY <1>2 DEF SendNow
  <2>2. 0 \in 0 .. 255
    OBVIOUS
  <2>3. QED  BY <1>1, <1>2, <2>1, <2>2 DEF EspBoards
<1>5. wire \in EspWires
  BY <1>1, <1>2 DEF EspWires
<1>6. Counted(board)
  BY <1>1, <1>2 DEF Counted, Forgotten
<1>7. board.now = EspNow!None /\ ~board.counting /\ Len(board.air) <= wire.sent
  BY <1>1, <1>2 DEF EspNow!None
<1>8. \A t \in Threads : ~host.told[t].acked
  BY <1>1, Zenon
<1>9. QED  BY <1>3, <1>4, <1>5, <1>6, <1>7, <1>8 DEF EspInv, EspSound, EspShape

LEMMA EspFields ==
  ASSUME NEW h \in EspHosts, NEW b \in EspBoards, NEW w \in EspWires
  PROVE  /\ h.added \in BOOLEAN /\ h.call \in [Threads -> SendCalls] /\ h.told \in [Threads -> SendTold]
         /\ b.ff \in 0 .. 255 /\ b.counting \in BOOLEAN /\ b.given \in BOOLEAN /\ b.status \in BOOLEAN
         /\ b.air \in Seq(OnAir) /\ Len(b.air) \in Nat /\ b.now \in SendNow
         /\ b.acked \in SUBSET (0 .. Packets) /\ b.wasLate \in BOOLEAN
         /\ w.sent \in 0 .. Packets /\ w.sent \in Nat /\ w.faults \in Nat
<1>1. b.air \in Seq(OnAir) /\ b.ff \in 0 .. 255
  BY DEF EspBoards
<1>2. Len(b.air) \in Nat
  BY <1>1, LenProperties
<1>3. w.sent \in 0 .. Packets
  BY DEF EspWires
<1>4. w.sent \in Nat
  BY <1>3, PacketsNat
<1>5. QED  BY <1>1, <1>2, <1>3, <1>4 DEF EspHosts, EspBoards, EspWires

LEMMA EspTypes ==
  ASSUME NEW h \in EspHosts, NEW b \in EspBoards, NEW w \in EspWires
  PROVE  /\ \A x \in BOOLEAN : [h EXCEPT !.added = x] \in EspHosts
         /\ \A c \in [Threads -> SendCalls] : [h EXCEPT !.call = c] \in EspHosts
         /\ \A c \in [Threads -> SendCalls], d \in [Threads -> SendTold] :
              [h EXCEPT !.call = c, !.told = d] \in EspHosts
         /\ \A x \in BOOLEAN : [b EXCEPT !.on = x] \in EspBoards
         /\ \A x \in BOOLEAN : [b EXCEPT !.given = x] \in EspBoards
         /\ \A y, z \in BOOLEAN, n \in 0 .. 255, q \in Seq(OnAir) :
              [b EXCEPT !.peer = y, !.ff = n, !.counting = z, !.air = q] \in EspBoards
         /\ \A x, y \in BOOLEAN, n \in 0 .. 255, q \in Seq(OnAir) :
              [b EXCEPT !.on = x, !.peer = y, !.ff = n, !.air = q] \in EspBoards
         /\ \A z, u \in BOOLEAN : [b EXCEPT !.given = z, !.wasLate = u] \in EspBoards
         /\ \A x \in BOOLEAN, q \in Seq(OnAir), c \in SendNow :
              [b EXCEPT !.given = x, !.air = q, !.now = c] \in EspBoards
         /\ \A x, y \in BOOLEAN, c \in SendNow :
              [b EXCEPT !.given = x, !.now = c, !.wasLate = y] \in EspBoards
         /\ \A x, y \in BOOLEAN, q \in Seq(OnAir), n \in 0 .. 255, a \in SUBSET (0 .. Packets) :
              [b EXCEPT !.air = q, !.acked = a, !.ff = n, !.status = x, !.given = y] \in EspBoards
         /\ \A n \in 0 .. Packets : [w EXCEPT !.sent = n] \in EspWires
         /\ \A n \in Nat : [w EXCEPT !.faults = n] \in EspWires
<1>1. \A x \in BOOLEAN : [h EXCEPT !.added = x] \in EspHosts
  BY DEF EspHosts
<1>2. \A c \in [Threads -> SendCalls] : [h EXCEPT !.call = c] \in EspHosts
  BY DEF EspHosts
<1>3. \A c \in [Threads -> SendCalls], d \in [Threads -> SendTold] :
        [h EXCEPT !.call = c, !.told = d] \in EspHosts
  BY DEF EspHosts
<1>4. \A x \in BOOLEAN : [b EXCEPT !.on = x] \in EspBoards
  BY DEF EspBoards
<1>5. \A x \in BOOLEAN : [b EXCEPT !.given = x] \in EspBoards
  BY DEF EspBoards
<1>6. \A y, z \in BOOLEAN, n \in 0 .. 255, q \in Seq(OnAir) :
        [b EXCEPT !.peer = y, !.ff = n, !.counting = z, !.air = q] \in EspBoards
  BY DEF EspBoards
<1>7. \A x, y \in BOOLEAN, n \in 0 .. 255, q \in Seq(OnAir) :
        [b EXCEPT !.on = x, !.peer = y, !.ff = n, !.air = q] \in EspBoards
  BY DEF EspBoards
<1>8. \A z, u \in BOOLEAN : [b EXCEPT !.given = z, !.wasLate = u] \in EspBoards
  BY DEF EspBoards
<1>9. \A x \in BOOLEAN, q \in Seq(OnAir), c \in SendNow :
        [b EXCEPT !.given = x, !.air = q, !.now = c] \in EspBoards
  BY DEF EspBoards
<1>10. \A x, y \in BOOLEAN, c \in SendNow :
        [b EXCEPT !.given = x, !.now = c, !.wasLate = y] \in EspBoards
  BY DEF EspBoards
<1>11. \A x, y \in BOOLEAN, q \in Seq(OnAir), n \in 0 .. 255, a \in SUBSET (0 .. Packets) :
        [b EXCEPT !.air = q, !.acked = a, !.ff = n, !.status = x, !.given = y] \in EspBoards
  BY ZenonT(60) DEF EspBoards
<1>12. \A n \in 0 .. Packets : [w EXCEPT !.sent = n] \in EspWires
  BY DEF EspWires
<1>13. \A n \in Nat : [w EXCEPT !.faults = n] \in EspWires
  BY DEF EspWires
<1>14. QED
  BY <1>1, <1>2, <1>3, <1>4, <1>5, <1>6, <1>7, <1>8, <1>9, <1>10, <1>11, <1>12, <1>13, Zenon

\* What the invariant says of threads that have their answer.
Answered(h, b) == \A t \in Threads : h.told[t].acked => h.told[t].id \in b.acked

LEMMA FaultIs ==
  ASSUME wire \in EspWires, EspNow!Fault
  PROVE  wire' \in EspWires /\ wire'.sent = wire.sent
<1>1. wire.faults - 1 \in Nat /\ wire' = [wire EXCEPT !.faults = wire.faults - 1]
  BY DEF EspNow!Fault, EspWires
<1>2. [wire EXCEPT !.faults = wire.faults - 1] \in EspWires
  BY <1>1, EspTypes, Zenon DEF EspWires
<1>3. QED  BY <1>1, <1>2 DEF EspWires

\* Nothing of the driver changes but what InStep and Counted do not read.
LEMMA EspBegin ==
  ASSUME EspInv, EspNow!Begin
  PROVE  EspInv'
<1>1. host \in EspHosts /\ board \in EspBoards /\ wire \in EspWires
  BY DEF EspInv, EspSound, EspShape
<1>2. board' = [board EXCEPT !.on = TRUE] /\ host' = host /\ wire' = wire
  BY DEF EspNow!Begin
<1>3. board' \in EspBoards
  BY <1>1, <1>2 DEF EspBoards
<1>4. /\ board'.ff = board.ff /\ board'.counting = board.counting /\ board'.given = board.given
      /\ board'.status = board.status /\ board'.air = board.air /\ board'.now = board.now
      /\ board'.acked = board.acked /\ board'.wasLate = board.wasLate
  BY <1>1, <1>2 DEF EspBoards
<1>5. InStep(board) => InStep(board')
  BY <1>4 DEF InStep
<1>6. Counted(board) => Counted(board')
  BY <1>4 DEF Counted
<1>7. QED  BY <1>2, <1>3, <1>4, <1>5, <1>6 DEF EspInv, EspSound, EspShape

LEMMA EspEnds ==
  ASSUME EspInv, EspNow!End \/ EspNow!Reset
  PROVE  EspInv'
<1>1. host \in EspHosts /\ board \in EspBoards /\ wire \in EspWires
  BY DEF EspInv, EspSound, EspShape
<1>2. board.now = EspNow!None /\ ~board.counting
  BY DEF EspNow!End, EspNow!Reset, EspNow!Free
<1>3. host' \in EspHosts /\ host'.told = host.told
  <2>1. CASE EspNow!End
    BY <1>1, <2>1 DEF EspNow!End, EspHosts
  <2>2. CASE EspNow!Reset
    BY <1>1, <2>2 DEF EspNow!Reset
  <2>3. QED  BY <2>1, <2>2
<1>4. wire' \in EspWires /\ wire'.sent = wire.sent
  BY <1>1, FaultIs DEF EspNow!End, EspNow!Reset
<1> DEFINE down == [board EXCEPT !.on = FALSE, !.peer = FALSE, !.ff = 0, !.air = <<>>]
<1>5. PICK g, l \in BOOLEAN : board' = [down EXCEPT !.given = g, !.wasLate = l] /\ (~l => ~g)
  <2>1. CASE EspNow!End
    <3>1. board' = [down EXCEPT !.given = board.given, !.wasLate = board.wasLate]
      BY <1>1, <2>1 DEF EspNow!End, EspNow!Down, EspBoards
    <3>2. ~board.wasLate => ~board.given
      BY <1>2 DEF EspInv, EspSound, Counted
    <3>3. board.given \in BOOLEAN /\ board.wasLate \in BOOLEAN
      BY <1>1 DEF EspBoards
    <3> HIDE DEF down
    <3>4. QED  BY <3>1, <3>2, <3>3, Zenon
  <2>2. CASE EspNow!Reset
    <3>1. board' = [down EXCEPT !.given = FALSE, !.wasLate = FALSE]
      BY <1>1, <2>2 DEF EspNow!Reset, EspNow!Down, EspBoards
    <3> HIDE DEF down
    <3>2. QED  BY <3>1, Zenon
  <2>3. QED  BY <2>1, <2>2, Zenon
<1>7. <<>> \in Seq(OnAir) /\ Len(<<>>) = 0 /\ 0 \in 0 .. 255
  BY EmptySeq
<1>13. /\ down \in EspBoards /\ down.ff = 0 /\ down.air = <<>> /\ down.now = board.now
       /\ down.counting = board.counting /\ down.acked = board.acked
  <2>1. down \in EspBoards
    BY <1>1, <1>7, EspTypes, Zenon
  <2>2. QED  BY <1>1, <2>1 DEF EspBoards
<1> HIDE DEF down
<1>6. /\ board'.ff = 0 /\ board'.air = <<>> /\ board'.given = g /\ board'.wasLate = l
      /\ board'.now = board.now /\ board'.counting = board.counting /\ board'.acked = board.acked
  BY <1>5, <1>13 DEF EspBoards
<1>8. board' \in EspBoards
  <2>1. [down EXCEPT !.given = g, !.wasLate = l] \in EspBoards
    <3>1. down \in EspBoards
      BY <1>13
    <3>2. \A d \in EspBoards, x, y \in BOOLEAN : [d EXCEPT !.given = x, !.wasLate = y] \in EspBoards
      BY DEF EspBoards
    <3>3. QED  BY <3>1, <3>2, Zenon
  <2>2. QED  BY <1>5, <2>1
<1>9. ~l => Counted(board')
  <2>1. Forgotten(<<>>, Len(<<>>))
    BY <1>7 DEF Forgotten
  <2>2. ~board'.counting /\ board'.ff = Len(board'.air) + 0 /\ (~l => ~board'.given)
    BY <1>2, <1>5, <1>6, <1>7
  <2>3. QED  BY <1>6, <2>1, <2>2 DEF Counted
<1>10. Len(board'.air) <= wire'.sent
  BY <1>1, <1>4, <1>6, <1>7, EspFields
<1>11. Answered(host', board')
  BY <1>3, <1>6 DEF EspInv, EspSound, Answered
<1>12. QED
  BY <1>2, <1>3, <1>4, <1>6, <1>8, <1>9, <1>10, <1>11
     DEF EspInv, EspSound, EspShape, Answered
LEMMA OneMore ==
  ASSUME NEW air \in Seq(OnAir), NEW p \in OnAir
  PROVE  /\ Append(air, p) \in Seq(OnAir) /\ Append(air, p) # <<>> /\ Len(Append(air, p)) = Len(air) + 1
         /\ Append(air, p)[Len(air) + 1] = p
         /\ \A i \in 1 .. Len(air) : Append(air, p)[i] = air[i]
BY AppendProperties

LEMMA EspSendWait ==
  ASSUME EspInv, NEW t \in Threads, EspNow!SendWait(t)
  PROVE  EspInv'
<1>1. host \in EspHosts /\ board \in EspBoards /\ wire \in EspWires
  BY DEF EspInv, EspSound, EspShape
<1>2. board.now = EspNow!None /\ ~board.counting /\ wire.sent < Packets /\ Len(board.air) <= wire.sent
  BY DEF EspInv, EspSound, EspShape, EspNow!SendWait, EspNow!Free
<1>3. Answered(host, board)
  BY DEF EspInv, EspSound, Answered
<1> DEFINE n == wire.sent + 1
           p == [id |-> n, wait |-> TRUE]
           air == Append(board.air, p)
           now == [id |-> n, thread |-> t]
           sure == EspNow!Settled
           calls == [host.call EXCEPT ![t] = [id |-> n, sure |-> sure]]
<1>4. /\ board.air \in Seq(OnAir) /\ Len(board.air) \in Nat /\ wire.sent \in Nat /\ Packets \in Nat
      /\ n \in 0 .. Packets /\ host.call \in [Threads -> SendCalls] /\ board.ff \in 0 .. 255
      /\ DOMAIN board.air = 1 .. Len(board.air)
  BY <1>1, <1>2, EspFields, PacketsNat, LenProperties
<1>5. \/ /\ board' = [board EXCEPT !.given = FALSE, !.air = air, !.now = now]
         /\ host' = [host EXCEPT !.call = calls] /\ wire' = [wire EXCEPT !.sent = n]
      \/ board' = [board EXCEPT !.given = FALSE] /\ host' = host /\ EspNow!Fault
  <2>1. \/ /\ board' = [EspNow!Draining(board) EXCEPT !.air = Append(@, p), !.now = now]
           /\ host' = [host EXCEPT !.call[t] = [id |-> n, sure |-> sure]] /\ wire' = [wire EXCEPT !.sent = n]
        \/ board' = EspNow!Draining(board) /\ host' = host /\ EspNow!Fault
    <3>1. \/ /\ board' = [EspNow!Draining(board) EXCEPT
                           !.air = Append(@, [id |-> EspNow!Fresh, wait |-> TRUE]),
                           !.now = [id |-> EspNow!Fresh, thread |-> t]]
             /\ host' = [host EXCEPT !.call[t] = [id |-> EspNow!Fresh, sure |-> EspNow!Settled]]
             /\ wire' = [wire EXCEPT !.sent = EspNow!Fresh]
          \/ EspNow!Fault /\ board' = EspNow!Draining(board) /\ UNCHANGED host
      BY DEF EspNow!SendWait
    <3>2. EspNow!Fresh = n
      BY DEF EspNow!Fresh
    <3> HIDE DEF n
    <3>3. QED  BY <3>1, <3>2
  <2>2. [EspNow!Draining(board) EXCEPT !.air = Append(@, p), !.now = now]
          = [board EXCEPT !.given = FALSE, !.air = air, !.now = now]
    BY <1>1 DEF EspNow!Draining, EspBoards
  <2>3. [host EXCEPT !.call[t] = [id |-> n, sure |-> sure]] = [host EXCEPT !.call = calls]
    BY <1>1 DEF EspHosts
  <2>4. EspNow!Draining(board) = [board EXCEPT !.given = FALSE]
    BY DEF EspNow!Draining
  <2> HIDE DEF n, p, air, now, sure, calls
  <2>5. QED  BY <2>1, <2>2, <2>3, <2>4
<1>6. p \in OnAir /\ now \in SendNow /\ sure \in BOOLEAN /\ n \in Nat
  BY <1>4 DEF OnAir, SendNow, EspNow!Settled
<1>7. calls \in [Threads -> SendCalls] /\ calls[t].sure = sure
  BY <1>4, <1>6 DEF SendCalls
<1>8. /\ air \in Seq(OnAir) /\ air # <<>> /\ Len(air) = Len(board.air) + 1 /\ air[Len(board.air) + 1] = p
      /\ \A i \in 1 .. Len(board.air) : air[i] = board.air[i]
  BY <1>4, <1>6, OneMore
<1>9. now # EspNow!None /\ now.thread = t /\ now.id = n
  BY PeripheralAssumption DEF EspNow!None
<1>10. sure \/ ~board.wasLate => board.ff = Len(board.air) /\ Forgotten(board.air, Len(board.air))
  <2>1. CASE sure
    BY <1>4, <2>1 DEF EspNow!Settled, EspNow!FireAndForget, Forgotten
  <2>2. CASE ~board.wasLate
    BY <1>2, <1>4, <2>2 DEF EspInv, EspSound, Counted
  <2>3. QED  BY <2>1, <2>2
<1>11. p = [id |-> now.id, wait |-> TRUE]
  BY <1>9
<1> HIDE DEF n, p, air, now, sure, calls
<1>12. CASE /\ board' = [board EXCEPT !.given = FALSE, !.air = air, !.now = now]
            /\ host' = [host EXCEPT !.call = calls] /\ wire' = [wire EXCEPT !.sent = n]
  <2>1. host' \in EspHosts
    BY <1>1, <1>7, <1>12, EspTypes, Zenon
  <2>2. board' \in EspBoards
    BY <1>1, <1>6, <1>8, <1>12, EspTypes, Zenon
  <2>3. wire' \in EspWires
    BY <1>1, <1>4, <1>12, EspTypes, Zenon
  <2>4. /\ board'.given = FALSE /\ board'.air = air /\ board'.now = now /\ board'.ff = board.ff
        /\ board'.counting = board.counting /\ board'.wasLate = board.wasLate /\ board'.acked = board.acked
    BY <1>1, <1>12 DEF EspBoards
  <2>5. host'.call = calls /\ host'.told = host.told /\ wire'.sent = n
    BY <1>1, <1>12 DEF EspHosts, EspWires
  <2>6. ASSUME sure \/ ~board.wasLate PROVE InStep(board')
    <3>1. Len(air) - 1 = Len(board.air)
      BY <1>4, <1>8
    <3>2. Forgotten(air, Len(air) - 1)
      BY <1>8, <1>10, <2>6, <3>1 DEF Forgotten
    <3>3. air[Len(air)] = [id |-> board'.now.id, wait |-> TRUE]
      BY <1>8, <1>11, <2>4
    <3>4. QED  BY <1>8, <1>10, <2>4, <2>6, <3>1, <3>2, <3>3 DEF InStep
  <2>7. Len(air) <= n
    BY <1>2, <1>4, <1>8 DEF n
  <2>8. Answered(host', board')
    BY <1>3, <2>4, <2>5 DEF Answered
  <2>9. board'.now # EspNow!None /\ board'.now.thread = t /\ host'.call[t].sure = sure /\ ~board'.counting
    BY <1>2, <1>7, <1>9, <2>4, <2>5
  <2>10. QED
    BY <2>1, <2>2, <2>3, <2>4, <2>5, <2>6, <2>7, <2>8, <2>9 DEF EspInv, EspSound, EspShape, Answered
<1>13. CASE board' = [board EXCEPT !.given = FALSE] /\ host' = host /\ EspNow!Fault
  <2>1. wire' \in EspWires /\ wire'.sent = wire.sent
    BY <1>1, <1>13, FaultIs
  <2>2. board' \in EspBoards
    BY <1>1, <1>13, EspTypes, Zenon
  <2>3. /\ board'.given = FALSE /\ board'.air = board.air /\ board'.now = board.now /\ board'.ff = board.ff
        /\ board'.counting = board.counting /\ board'.wasLate = board.wasLate /\ board'.acked = board.acked
    BY <1>1, <1>13 DEF EspBoards
  <2>4. ~board.wasLate => Counted(board')
    BY <1>2, <2>3 DEF EspInv, EspSound, Counted
  <2>5. QED
    BY <1>1, <1>2, <1>3, <1>13, <2>1, <2>2, <2>3, <2>4 DEF EspInv, EspSound, EspShape, Answered
<1>14. QED  BY <1>5, <1>12, <1>13
\* A send is told: its thread is free again, and what is kept has its acknowledgement.
LEMMA EspTold ==
  ASSUME EspInv, EspNow!SendDone \/ EspNow!SendTimeout
  PROVE  EspInv'
<1>1. host \in EspHosts /\ board \in EspBoards /\ wire \in EspWires
  BY DEF EspInv, EspSound, EspShape
<1> DEFINE t == board.now.thread
           acked == EspNow!SendDone /\ board.status
           kept == IF host.call[t].sure THEN [id |-> board.now.id, acked |-> acked]
                   ELSE [id |-> 0, acked |-> FALSE]
           calls == [host.call EXCEPT ![t] = EspNow!Idle]
           told == [host.told EXCEPT ![t] = kept]
<1>2. board.now # EspNow!None /\ t \in Threads /\ ~board.counting /\ Len(board.air) <= wire.sent
  BY DEF EspInv, EspSound, EspShape, EspNow!SendDone, EspNow!SendTimeout
<1>3. /\ host.call \in [Threads -> SendCalls] /\ host.told \in [Threads -> SendTold]
      /\ board.now.id \in 0 .. Packets /\ board.status \in BOOLEAN /\ board.wasLate \in BOOLEAN
      /\ 0 \in 0 .. Packets
  BY <1>1, EspFields, PacketsNat DEF SendNow
<1>4. host' = [host EXCEPT !.call = calls, !.told = told]
  <2>1. host' = [host EXCEPT !.call[t] = EspNow!Idle, !.told[t] = kept]
    <3>1. CASE EspNow!SendDone
      <4>1. acked = board.status
        BY <1>3, <3>1
      <4>2. EspNow!Told(board.status)
        BY <3>1 DEF EspNow!SendDone
      <4>3. QED  BY <4>1, <4>2 DEF EspNow!Told
    <3>2. CASE EspNow!SendTimeout /\ ~EspNow!SendDone
      <4>1. acked = FALSE
        BY <3>2
      <4>2. EspNow!Told(FALSE)
        BY <3>2 DEF EspNow!SendTimeout
      <4>3. QED  BY <4>1, <4>2 DEF EspNow!Told
    <3>3. QED  BY <3>1, <3>2
  <2>2. [host EXCEPT !.call[t] = EspNow!Idle, !.told[t] = kept] = [host EXCEPT !.call = calls, !.told = told]
    BY <1>1 DEF EspHosts
  <2>3. QED  BY <2>1, <2>2
<1>5. calls \in [Threads -> SendCalls]
  BY <1>3 DEF SendCalls, EspNow!Idle
<1>6. kept \in SendTold
  <2>1. acked \in BOOLEAN
    OBVIOUS
  <2> HIDE DEF acked
  <2>2. QED  BY <1>3, <2>1 DEF SendTold
<1>7. /\ told \in [Threads -> SendTold]
      /\ \A u \in Threads : told[u] = kept \/ told[u] = host.told[u]
  BY <1>3, <1>6
<1>8. kept.acked => kept.id \in board.acked
  <2>1. SUFFICES ASSUME kept.acked PROVE kept.id \in board.acked
    OBVIOUS
  <2>2. host.call[t].sure /\ EspNow!SendDone /\ board.status /\ kept.id = board.now.id
    BY <2>1
  <2>3. InStep(board) /\ board.given
    BY <1>2, <2>2 DEF EspInv, EspSound, EspNow!SendDone
  <2>4. QED  BY <2>2, <2>3 DEF InStep
<1>9. \E late \in BOOLEAN :
        /\ board' = [board EXCEPT !.given = FALSE, !.now = EspNow!None, !.wasLate = late]
        /\ ~late => ~board.wasLate /\ board.given
  <2>1. CASE EspNow!SendDone
    <3>1. board' = [board EXCEPT !.given = FALSE, !.now = EspNow!None, !.wasLate = board.wasLate]
      BY <1>1, <2>1 DEF EspNow!SendDone, EspBoards
    <3>2. board.given
      BY <2>1 DEF EspNow!SendDone
    <3>3. QED  BY <1>3, <3>1, <3>2, Zenon
  <2>2. CASE EspNow!SendTimeout
    <3>1. board' = [board EXCEPT !.given = FALSE, !.now = EspNow!None, !.wasLate = TRUE]
      BY <1>1, <2>2 DEF EspNow!SendTimeout, EspBoards
    <3>2. QED  BY <3>1, Zenon
  <2>3. QED  BY <2>1, <2>2, Zenon
<1> HIDE DEF t, acked, kept, calls, told
<1>10. PICK late \in BOOLEAN :
         /\ board' = [board EXCEPT !.given = FALSE, !.now = EspNow!None, !.wasLate = late]
         /\ ~late => ~board.wasLate /\ board.given
  BY <1>9, Zenon
<1>11. EspNow!None \in SendNow
  BY <1>3 DEF EspNow!None, SendNow
<1>12. board' \in EspBoards
  BY <1>1, <1>10, <1>11, EspTypes, ZenonT(60)
<1>13. /\ board'.given = FALSE /\ board'.now = EspNow!None /\ board'.wasLate = late /\ board'.air = board.air
       /\ board'.ff = board.ff /\ board'.counting = board.counting /\ board'.acked = board.acked
  BY <1>1, <1>10 DEF EspBoards
<1>14. host' \in EspHosts /\ host'.told = told
  BY <1>1, <1>4, <1>5, <1>7, EspTypes, Zenon DEF EspHosts
<1>15. wire' = wire
  BY DEF EspNow!SendDone, EspNow!SendTimeout
<1>16. ~late => Counted(board')
  <2>1. SUFFICES ASSUME ~late PROVE Counted(board')
    OBVIOUS
  <2>2. board.air = <<>> /\ board.ff = 0
    <3>1. InStep(board) /\ board.given
      BY <1>2, <1>10, <2>1 DEF EspInv, EspSound
    <3>2. QED  BY <3>1 DEF InStep
  <2>3. Len(<<>>) = 0
    BY EmptySeq
  <2>4. Forgotten(<<>>, Len(<<>>))
    BY <2>3 DEF Forgotten
  <2>5. ~board'.counting /\ board'.ff = Len(board'.air) + 0
    BY <1>2, <1>13, <2>2, <2>3
  <2>6. QED  BY <1>13, <2>2, <2>4, <2>5 DEF Counted
<1>17. Answered(host', board')
  <2>1. Answered(host, board)
    BY DEF EspInv, EspSound, Answered
  <2>2. QED  BY <1>7, <1>8, <1>13, <1>14, <2>1 DEF Answered
<1>18. QED
  BY <1>1, <1>2, <1>12, <1>13, <1>14, <1>15, <1>16, <1>17 DEF EspInv, EspSound, EspShape, Answered

LEMMA ByteSteps ==
  ASSUME NEW x \in 0 .. 255
  PROVE  /\ (x + 1) % 256 \in 0 .. 255 /\ (x + 255) % 256 \in 0 .. 255
         /\ x < 255 => (x + 1) % 256 = x + 1
         /\ x > 0 => (x + 255) % 256 = x - 1
<1>1. x + 1 \in 0 .. 255 \/ x + 1 = 256
  OBVIOUS
<1>2. \A n \in 0 .. 255 : n % 256 = n /\ (n + 256) % 256 = n
  OBVIOUS
<1>3. x > 0 => x - 1 \in 0 .. 255 /\ x + 255 = (x - 1) + 256
  OBVIOUS
<1>4. 256 % 256 = 0 /\ 255 % 256 = 255
  OBVIOUS
<1>5. (x + 1) % 256 \in 0 .. 255 /\ (x < 255 => (x + 1) % 256 = x + 1)
  BY <1>1, <1>2, <1>4
<1>6. (x + 255) % 256 \in 0 .. 255 /\ (x > 0 => (x + 255) % 256 = x - 1)
  <2>1. CASE x = 0
    BY <1>4, <2>1
  <2>2. CASE x > 0
    BY <1>2, <1>3, <2>2
  <2>3. QED  BY <2>1, <2>2
<1>7. QED  BY <1>5, <1>6

\* What a fire-and-forget packet does to the air and the count.
LEMMA EspForget ==
  ASSUME EspInv, board.now = EspNow!None, host' \in EspHosts, host'.told = host.told, wire' \in EspWires,
         NEW y \in BOOLEAN, NEW z \in BOOLEAN, NEW n \in 0 .. 255, NEW q,
         board' = [board EXCEPT !.peer = y, !.ff = n, !.counting = z, !.air = q],
         \/ q = board.air /\ wire'.sent = wire.sent
         \/ /\ q = Append(board.air, [id |-> wire.sent + 1, wait |-> FALSE])
            /\ wire.sent < Packets /\ wire'.sent = wire.sent + 1,
         z => wire'.sent < Packets,
         ~board.wasLate => n = Len(q) + (IF z THEN 1 ELSE 0)
  PROVE  EspInv'
<1>1. host \in EspHosts /\ board \in EspBoards /\ wire \in EspWires /\ Len(board.air) <= wire.sent
  BY DEF EspInv, EspSound, EspShape
<1>2. board.air \in Seq(OnAir) /\ Len(board.air) \in Nat /\ wire.sent \in Nat /\ Packets \in Nat
  BY <1>1, EspFields, PacketsNat
<1>3. /\ q \in Seq(OnAir) /\ Len(q) <= wire'.sent
      /\ Forgotten(board.air, Len(board.air)) => Forgotten(q, Len(q))
  <2>1. CASE q = board.air /\ wire'.sent = wire.sent
    BY <1>1, <1>2, <2>1
  <2>2. CASE /\ q = Append(board.air, [id |-> wire.sent + 1, wait |-> FALSE])
             /\ wire.sent < Packets /\ wire'.sent = wire.sent + 1
    <3> DEFINE p == [id |-> wire.sent + 1, wait |-> FALSE]
    <3>1. p \in OnAir /\ ~p.wait
      BY <1>2, <2>2 DEF OnAir
    <3>2. q = Append(board.air, p)
      BY <2>2
    <3> HIDE DEF p
    <3>3. /\ q \in Seq(OnAir) /\ Len(q) = Len(board.air) + 1 /\ q[Len(board.air) + 1] = p
          /\ \A i \in 1 .. Len(board.air) : q[i] = board.air[i]
      BY <1>2, <3>1, <3>2, OneMore
    <3>4. ASSUME Forgotten(board.air, Len(board.air)), NEW i \in 1 .. Len(q) PROVE ~q[i].wait
      <4>1. CASE i = Len(board.air) + 1
        BY <3>1, <3>3, <4>1
      <4>2. CASE i \in 1 .. Len(board.air)
        BY <3>3, <3>4, <4>2 DEF Forgotten
      <4>3. QED  BY <1>2, <3>3, <4>1, <4>2
    <3>5. Len(q) <= wire'.sent
      BY <1>1, <1>2, <2>2, <3>3
    <3>6. QED  BY <3>3, <3>4, <3>5 DEF Forgotten
  <2>3. QED  BY <2>1, <2>2
<1>4. board' \in EspBoards
  <2>1. q \in Seq(OnAir)
    BY <1>3
  <2>2. [board EXCEPT !.peer = y, !.ff = n, !.counting = z, !.air = q] \in EspBoards
    <3>1. \A b \in EspBoards, u, v \in BOOLEAN, m \in 0 .. 255, r \in Seq(OnAir) :
            [b EXCEPT !.peer = u, !.ff = m, !.counting = v, !.air = r] \in EspBoards
      BY ZenonT(60) DEF EspBoards
    <3>2. QED  BY <1>1, <2>1, <3>1, Zenon
  <2>3. QED  BY <2>2
<1>5. /\ board'.ff = n /\ board'.counting = z /\ board'.air = q /\ board'.now = board.now
      /\ board'.given = board.given /\ board'.acked = board.acked /\ board'.wasLate = board.wasLate
  BY <1>1 DEF EspBoards
<1>6. ~board.wasLate => Counted(board')
  <2>1. SUFFICES ASSUME ~board.wasLate PROVE Counted(board')
    OBVIOUS
  <2>2. ~board.given /\ Forgotten(board.air, Len(board.air))
    BY <2>1 DEF EspInv, EspSound, Counted
  <2>3. QED  BY <1>3, <1>5, <2>1, <2>2 DEF Counted
<1>7. Answered(host', board')
  BY <1>5 DEF EspInv, EspSound, Answered
<1>8. QED
  BY <1>3, <1>4, <1>5, <1>6, <1>7 DEF EspInv, EspSound, EspShape, Answered

LEMMA EspCounts ==
  ASSUME EspInv, EspNow!Count \/ EspNow!Hand \/ EspNow!Broadcast
  PROVE  EspInv'
<1>1. host \in EspHosts /\ board \in EspBoards /\ wire \in EspWires /\ Len(board.air) <= wire.sent
  BY DEF EspInv, EspSound, EspShape
<1>2. /\ board.air \in Seq(OnAir) /\ Len(board.air) \in Nat /\ wire.sent \in Nat /\ Packets \in Nat
      /\ Packets <= 255 /\ board.ff \in 0 .. 255 /\ board.peer \in BOOLEAN /\ board.counting \in BOOLEAN
  BY <1>1, EspFields, PacketsNat DEF EspBoards
<1>3. board.now = EspNow!None /\ wire.sent < Packets
      /\ (EspNow!Hand \/ EspNow!Free)
  BY <1>1, <1>2 DEF EspInv, EspSound, EspShape, EspNow!Count, EspNow!Hand, EspNow!Broadcast, EspNow!Free
<1>4. ~board.wasLate => board.ff = Len(board.air) + (IF board.counting THEN 1 ELSE 0)
  BY <1>3 DEF EspInv, EspSound, Counted
<1> DEFINE p == [id |-> wire.sent + 1, wait |-> FALSE]
           q == Append(board.air, p)
           up == (board.ff + 1) % 256
           down == (board.ff + 255) % 256
<1>5. /\ up \in 0 .. 255 /\ down \in 0 .. 255
      /\ board.ff < 255 => up = board.ff + 1
      /\ board.ff > 0 => down = board.ff - 1
  BY <1>2, ByteSteps
<1>6. p \in OnAir
  BY <1>2, <1>3 DEF OnAir
<1>7. Len(q) = Len(board.air) + 1
  BY <1>2, <1>6, OneMore
<1>8. wire.sent + 1 \in 0 .. Packets
  BY <1>2, <1>3
<1>9. CASE EspNow!Count
  <2>1. ~board.counting
    BY <1>9 DEF EspNow!Count, EspNow!Free
  <2>2. board' = [board EXCEPT !.peer = board.peer, !.ff = up, !.counting = TRUE, !.air = board.air]
    BY <1>1, <1>9, ZenonT(60) DEF EspNow!Count, EspBoards
  <2>3. ~board.wasLate => up = Len(board.air) + (IF TRUE THEN 1 ELSE 0)
    BY <1>1, <1>2, <1>3, <1>4, <1>5, <2>1
  <2>4. host' = host /\ wire' = wire
    BY <1>9 DEF EspNow!Count
  <2>5. TRUE \in BOOLEAN
    OBVIOUS
  <2> HIDE DEF up
  <2>6. QED  BY <1>1, <1>2, <1>3, <1>5, <2>2, <2>3, <2>4, <2>5, EspForget, ZenonT(60)
<1>10. CASE EspNow!Hand
  <2>1. board.counting
    BY <1>10 DEF EspNow!Hand
  <2>2. \/ /\ board' = [board EXCEPT !.peer = board.peer, !.ff = board.ff, !.counting = FALSE, !.air = q]
           /\ wire' = [wire EXCEPT !.sent = wire.sent + 1]
        \/ /\ board' = [board EXCEPT !.peer = board.peer, !.ff = down, !.counting = FALSE, !.air = board.air]
           /\ EspNow!Fault
    <3>1. \/ board' = EspNow!Handed(board, TRUE) /\ wire' = [wire EXCEPT !.sent = wire.sent + 1]
          \/ board' = EspNow!Handed(board, FALSE) /\ EspNow!Fault
      BY <1>10 DEF EspNow!Hand, EspNow!Fresh
    <3>2. EspNow!Handed(board, TRUE)
            = [board EXCEPT !.peer = board.peer, !.ff = board.ff, !.counting = FALSE, !.air = q]
      BY <1>1 DEF EspNow!Handed, EspNow!Fresh, EspBoards
    <3>3. EspNow!Handed(board, FALSE)
            = [board EXCEPT !.peer = board.peer, !.ff = down, !.counting = FALSE, !.air = board.air]
      <4>1. EspNow!Handed(board, FALSE) = [board EXCEPT !.counting = FALSE, !.air = board.air, !.ff = down]
        BY DEF EspNow!Handed
      <4> HIDE DEF down
      <4>2. QED  BY <1>1, <4>1 DEF EspBoards
    <3> HIDE DEF q, down
    <3>4. QED  BY <3>1, <3>2, <3>3
  <2>3. host' = host
    BY <1>10 DEF EspNow!Hand
  <2>4. FALSE \in BOOLEAN
    OBVIOUS
  <2>5. ~board.wasLate => board.ff = Len(q) + (IF FALSE THEN 1 ELSE 0)
    BY <1>2, <1>4, <1>7, <2>1
  <2>6. ~board.wasLate => down = Len(board.air) + (IF FALSE THEN 1 ELSE 0)
    BY <1>2, <1>4, <1>5, <2>1
  <2> HIDE DEF q, down
  <2>7. CASE /\ board' = [board EXCEPT !.peer = board.peer, !.ff = board.ff, !.counting = FALSE, !.air = q]
             /\ wire' = [wire EXCEPT !.sent = wire.sent + 1]
    <3>1. wire' \in EspWires /\ wire'.sent = wire.sent + 1
      BY <1>1, <1>8, <2>7, EspTypes, ZenonT(60) DEF EspWires
    <3>2. q = Append(board.air, [id |-> wire.sent + 1, wait |-> FALSE])
      BY DEF q
    <3>3. QED  BY <1>1, <1>2, <1>3, <2>3, <2>4, <2>5, <2>7, <3>1, <3>2, EspForget, ZenonT(60)
  <2>8. CASE /\ board' = [board EXCEPT !.peer = board.peer, !.ff = down, !.counting = FALSE, !.air = board.air]
             /\ EspNow!Fault
    <3>1. wire' \in EspWires /\ wire'.sent = wire.sent
      BY <1>1, <2>8, FaultIs
    <3>2. QED  BY <1>1, <1>2, <1>3, <1>5, <2>3, <2>4, <2>6, <2>8, <3>1, EspForget, Zenon
  <2>9. QED  BY <2>2, <2>7, <2>8
<1>11. CASE EspNow!Broadcast
  <2> DEFINE peer == board.peer \/ ~host.added
  <2>1. ~board.counting
    BY <1>11 DEF EspNow!Broadcast, EspNow!Free
  <2>2. host' = [host EXCEPT !.added = TRUE]
    BY <1>11 DEF EspNow!Broadcast
  <2>3. host' \in EspHosts /\ host'.told = host.told
    BY <1>1, <2>2 DEF EspHosts
  <2>4. CASE peer
    <3>1. board' = [board EXCEPT !.peer = TRUE, !.ff = up, !.counting = FALSE, !.air = q]
      <4>1. board' = EspNow!Handed([board EXCEPT !.peer = TRUE, !.ff = up], TRUE)
        BY <1>11, <2>4 DEF EspNow!Broadcast
      <4>2. EspNow!Handed([board EXCEPT !.peer = TRUE, !.ff = up], TRUE)
              = [board EXCEPT !.peer = TRUE, !.ff = up, !.counting = FALSE, !.air = q]
        BY <1>1, ZenonT(60) DEF EspNow!Handed, EspNow!Fresh, EspBoards
      <4>3. QED  BY <4>1, <4>2
    <3>2. wire' = [wire EXCEPT !.sent = wire.sent + 1]
      BY <1>11, <2>4 DEF EspNow!Broadcast, EspNow!Fresh
    <3>3. wire' \in EspWires /\ wire'.sent = wire.sent + 1
      BY <1>1, <1>8, <3>2, EspTypes, ZenonT(60) DEF EspWires
    <3>4. ~board.wasLate => up = Len(q) + (IF FALSE THEN 1 ELSE 0)
      <4> HIDE DEF up, q
      <4>1. up \in Nat /\ (~board.wasLate => up = Len(board.air) + 1)
        <5>1. ~board.wasLate => board.ff = Len(board.air) /\ board.ff < 255
          BY <1>1, <1>2, <1>3, <1>4, <2>1
        <5>2. up \in Nat
          BY <1>5
        <5>3. QED  BY <1>5, <5>1, <5>2
      <4>2. QED  BY <1>7, <4>1
    <3>5. FALSE \in BOOLEAN /\ TRUE \in BOOLEAN
      OBVIOUS
    <3>6. q = Append(board.air, [id |-> wire.sent + 1, wait |-> FALSE])
      OBVIOUS
    <3> HIDE DEF q, up
    <3>7. QED  BY <1>1, <1>2, <1>3, <1>5, <2>3, <3>1, <3>3, <3>4, <3>5, <3>6, EspForget, Zenon
  <2>5. CASE ~peer
    <3>1. board' = board /\ wire' = wire
      BY <1>11, <2>5 DEF EspNow!Broadcast
    <3>2. QED  BY <1>3, <2>3, <3>1 DEF EspInv, EspSound, EspShape
  <2>6. QED  BY <2>4, <2>5
<1>12. QED  BY <1>9, <1>10, <1>11
LEMMA OneLess ==
  ASSUME NEW air \in Seq(OnAir), air # <<>>
  PROVE  /\ Len(air) \in Nat \ {0} /\ Head(air) \in OnAir /\ Head(air) = air[1]
         /\ Tail(air) \in Seq(OnAir) /\ Len(Tail(air)) = Len(air) - 1
         /\ \A i \in 1 .. (Len(air) - 1) : Tail(air)[i] = air[i + 1]
         /\ Len(air) = 1 => Tail(air) = <<>>
         /\ Len(air) > 1 => Tail(air) # <<>>
<1>1. Len(air) \in Nat \ {0}
  BY EmptySeq
<1>2. /\ Head(air) \in OnAir /\ Tail(air) \in Seq(OnAir) /\ Len(Tail(air)) = Len(air) - 1
      /\ \A i \in 1 .. Len(Tail(air)) : Tail(air)[i] = air[i + 1]
  BY HeadTailProperties
<1>3. Head(air) = air[1]
  OBVIOUS
<1>4. Len(air) = 1 => Tail(air) = <<>>
  <2>1. Len(air) = 1 => Len(Tail(air)) = 0
    BY <1>2
  <2>2. QED  BY <1>2, <2>1, EmptySeq
<1>5. Len(air) > 1 => Tail(air) # <<>>
  <2>1. Len(air) > 1 => Len(Tail(air)) # 0
    BY <1>1, <1>2
  <2>2. Len(<<>>) = 0
    BY EmptySeq
  <2>3. QED  BY <2>1, <2>2
<1>6. QED  BY <1>1, <1>2, <1>3, <1>4, <1>5

\* A callback comes: while others are counted it is one of theirs, and then the waiting send's.
LEMMA EspTxDone ==
  ASSUME EspInv, NEW acked \in BOOLEAN, EspNow!TxDone(acked)
  PROVE  EspInv'
<1>1. host \in EspHosts /\ board \in EspBoards /\ wire \in EspWires /\ Len(board.air) <= wire.sent
      /\ (board.now # EspNow!None => board.now.thread \in Threads /\ ~board.counting)
      /\ (board.counting => wire.sent < Packets)
  BY DEF EspInv, EspSound, EspShape
<1>2. /\ board.air \in Seq(OnAir) /\ board.air # <<>> /\ wire.sent \in Nat /\ board.ff \in 0 .. 255
      /\ board.acked \subseteq 0 .. Packets /\ board.given \in BOOLEAN /\ board.status \in BOOLEAN
  BY <1>1, EspFields DEF EspNow!TxDone
<1> DEFINE p == Head(board.air)
           q == Tail(board.air)
           a == IF acked /\ p.wait THEN board.acked \cup {p.id} ELSE board.acked
           n == IF board.ff > 0 THEN board.ff - 1 ELSE board.ff
           s == IF board.ff > 0 THEN board.status ELSE acked
           g == IF board.ff > 0 THEN board.given ELSE TRUE
<1>3. /\ Len(board.air) \in Nat \ {0} /\ p \in OnAir /\ p = board.air[1] /\ q \in Seq(OnAir)
      /\ Len(q) = Len(board.air) - 1 /\ \A i \in 1 .. (Len(board.air) - 1) : q[i] = board.air[i + 1]
      /\ Len(board.air) = 1 => q = <<>>
      /\ Len(board.air) > 1 => q # <<>>
  BY <1>2, OneLess
<1>4. board' = [board EXCEPT !.air = q, !.acked = a, !.ff = n, !.status = s, !.given = g]
  <2>1. CASE board.ff > 0
    <3>1. board' = [[board EXCEPT !.air = q, !.acked = a] EXCEPT !.ff = board.ff - 1]
      BY <1>1, <2>1 DEF EspNow!TxDone, EspBoards
    <3> HIDE DEF q, a
    <3>2. QED  BY <1>1, <2>1, <3>1 DEF EspBoards
  <2>2. CASE ~(board.ff > 0)
    <3>1. board' = [[board EXCEPT !.air = q, !.acked = a] EXCEPT !.status = acked, !.given = TRUE]
      BY <1>1, <2>2 DEF EspNow!TxDone, EspBoards
    <3> HIDE DEF q, a
    <3>2. QED  BY <1>1, <2>2, <3>1 DEF EspBoards
  <2>3. QED  BY <2>1, <2>2
<1>5. host' = host /\ wire' = wire
  BY DEF EspNow!TxDone
<1>6. /\ a \in SUBSET (0 .. Packets) /\ n \in 0 .. 255 /\ s \in BOOLEAN /\ g \in BOOLEAN
      /\ board.acked \subseteq a /\ (acked /\ p.wait => p.id \in a)
  <2>1. p.id \in 0 .. Packets
    BY <1>3 DEF OnAir
  <2>2. n \in 0 .. 255
    BY <1>2
  <2>3. s \in BOOLEAN /\ g \in BOOLEAN
    BY <1>2
  <2>4. /\ a \in SUBSET (0 .. Packets)
        /\ board.acked \subseteq a /\ (acked /\ p.wait => p.id \in a)
    <3> HIDE DEF p
    <3>1. QED  BY <1>2, <2>1
  <2>5. QED  BY <2>2, <2>3, <2>4
<1>7. /\ board.ff > 0 => n = board.ff - 1 /\ g = board.given
      /\ ~(board.ff > 0) => n = board.ff /\ s = acked /\ g = TRUE
  OBVIOUS
<1> HIDE DEF p, q, a, n, s, g
<1>8. board' \in EspBoards
  <2>1. \A b \in EspBoards, r \in Seq(OnAir), m \in 0 .. 255, c \in SUBSET (0 .. Packets) :
          [b EXCEPT !.air = r, !.acked = c, !.ff = m] \in EspBoards
    BY DEF EspBoards
  <2>2. \A b \in EspBoards, x, y \in BOOLEAN : [b EXCEPT !.status = x, !.given = y] \in EspBoards
    BY DEF EspBoards
  <2>3. [board EXCEPT !.air = q, !.acked = a, !.ff = n] \in EspBoards
    BY <1>1, <1>3, <1>6, <2>1, Zenon
  <2>4. [[board EXCEPT !.air = q, !.acked = a, !.ff = n] EXCEPT !.status = s, !.given = g] \in EspBoards
    BY <1>6, <2>2, <2>3, Zenon
  <2>5. board' = [[board EXCEPT !.air = q, !.acked = a, !.ff = n] EXCEPT !.status = s, !.given = g]
    BY <1>1, <1>4 DEF EspBoards
  <2>6. QED  BY <2>4, <2>5
<1>9. /\ board'.air = q /\ board'.acked = a /\ board'.ff = n /\ board'.status = s /\ board'.given = g
      /\ board'.now = board.now /\ board'.counting = board.counting /\ board'.wasLate = board.wasLate
  BY <1>1, <1>4 DEF EspBoards
<1>10. ASSUME InStep(board) PROVE InStep(board')
  <2>1. /\ board.ff = Len(board.air) - 1 /\ Forgotten(board.air, Len(board.air) - 1)
        /\ board.air[Len(board.air)] = [id |-> board.now.id, wait |-> TRUE] /\ ~board.given
    BY <1>2, <1>10 DEF InStep
  <2>2. CASE board.ff > 0
    <3>1. Len(board.air) > 1 /\ Len(q) > 0 /\ q # <<>>
      BY <1>3, <2>1, <2>2
    <3>2. n = Len(q) - 1 /\ g = board.given
      BY <1>3, <1>7, <2>1, <2>2
    <3>3. Forgotten(q, Len(q) - 1)
      <4>1. SUFFICES ASSUME NEW i \in 1 .. (Len(q) - 1) PROVE ~q[i].wait
        BY DEF Forgotten
      <4>2. i \in 1 .. (Len(board.air) - 1) /\ i + 1 \in 1 .. (Len(board.air) - 1)
        BY <1>3, <4>1
      <4>3. QED  BY <1>3, <2>1, <4>2 DEF Forgotten
    <3>4. q[Len(q)] = board.air[Len(board.air)]
      <4>1. Len(q) \in 1 .. (Len(board.air) - 1) /\ Len(q) + 1 = Len(board.air)
        BY <1>3, <3>1
      <4>2. QED  BY <1>3, <4>1
    <3>5. QED  BY <1>9, <2>1, <3>1, <3>2, <3>3, <3>4 DEF InStep
  <2>3. CASE ~(board.ff > 0)
    <3>1. Len(board.air) = 1 /\ board.ff = 0
      <4>1. board.ff \in 0 .. 255 /\ board.ff = Len(board.air) - 1
        BY <1>2, <2>1
      <4>2. Len(board.air) \in Nat \ {0}
        BY <1>3
      <4>3. \A x \in 0 .. 255, l \in Nat \ {0} : x = l - 1 /\ ~(x > 0) => l = 1 /\ x = 0
        OBVIOUS
      <4>4. QED  BY <2>3, <4>1, <4>2, <4>3
    <3>2. q = <<>> /\ n = 0 /\ g = TRUE /\ s = acked
      BY <1>3, <1>7, <2>3, <3>1
    <3>3. p = [id |-> board.now.id, wait |-> TRUE]
      BY <1>3, <2>1, <3>1
    <3>4. s => board.now.id \in a
      BY <1>6, <3>2, <3>3
    <3>5. QED  BY <1>9, <3>2, <3>4 DEF InStep
  <2>4. QED  BY <2>2, <2>3
<1>11. ASSUME Counted(board) PROVE Counted(board')
  <2>1. ~board.given /\ Forgotten(board.air, Len(board.air))
        /\ board.ff = Len(board.air) + (IF board.counting THEN 1 ELSE 0)
    BY <1>11 DEF Counted
  <2>2. board.ff > 0
    <3>1. (IF board.counting THEN 1 ELSE 0) \in Nat
      OBVIOUS
    <3> DEFINE k == IF board.counting THEN 1 ELSE 0
    <3>2. k \in Nat /\ board.ff = Len(board.air) + k
      BY <2>1, <3>1
    <3> HIDE DEF k
    <3>3. QED  BY <1>3, <3>2
  <2>3. n = Len(q) + (IF board.counting THEN 1 ELSE 0) /\ g = board.given
    BY <1>3, <1>7, <2>1, <2>2
  <2>4. Forgotten(q, Len(q))
    <3>1. SUFFICES ASSUME NEW i \in 1 .. Len(q) PROVE ~q[i].wait
      BY DEF Forgotten
    <3>2. i \in 1 .. (Len(board.air) - 1) /\ i + 1 \in 1 .. Len(board.air)
      BY <1>3, <3>1
    <3>3. QED  BY <1>3, <2>1, <3>2 DEF Forgotten
  <2>5. QED  BY <1>9, <2>1, <2>3, <2>4 DEF Counted
<1>12. Answered(host', board')
  <2>1. Answered(host, board)
    BY DEF EspInv, EspSound, Answered
  <2>2. QED  BY <1>5, <1>6, <1>9, <2>1 DEF Answered
<1>13. Len(q) <= wire.sent
  BY <1>1, <1>2, <1>3
<1>14. QED
  BY <1>1, <1>5, <1>8, <1>9, <1>10, <1>11, <1>12, <1>13 DEF EspInv, EspSound, EspShape, Answered

LEMMA EspStep ==
  ASSUME EspInv, EspNow!Next
  PROVE  EspInv'
BY EspBegin, EspEnds, EspSendWait, EspTold, EspCounts, EspTxDone DEF EspNow!Next

-----------------------------------------------------------------------------
(* The events that wait for the program *)

InboxOps == {"none", "read", "line", "watch", "unwatch", "pop"}
InboxCalls == [op : InboxOps, woken : BOOLEAN, overlap : BOOLEAN]
InboxHosts ==
  [kind : Inbox!Kinds, buf : Seq(1 .. Arrivals), taken : Seq(1 .. Arrivals),
   dropped : SUBSET (1 .. Arrivals), called : SUBSET (1 .. Arrivals),
   call : [Threads -> InboxCalls], cbs : SUBSET Threads, due : SUBSET Threads,
   empty : BOOLEAN, line : Seq(1 .. Arrivals), partial : BOOLEAN]
InboxBoards == [open : BOOLEAN, session : Nat, last : 0 .. Arrivals, since : Nat]
InboxWires == [events : Seq(1 .. Arrivals), faults : 0 .. Faults]

\* The events on their way are the last that came in.
Numbered(b, w) ==
  /\ Len(w.events) <= b.last
  /\ \A i \in 1 .. Len(w.events) : w.events[i] = b.last - Len(w.events) + i

Rising(s) == \A i, j \in 1 .. Len(s) : i < j => s[i] < s[j]
Elements(s) == {s[i] : i \in 1 .. Len(s)}

\* The first d that came in, each at one place, and those that were or will be read in order.
Kept(h, d) ==
  LET seen == h.taken \o h.buf IN
  /\ Rising(seen)
  /\ Elements(seen) \cup h.dropped \cup h.called = 1 .. d
  /\ Elements(seen) \cap h.dropped = {}

\* Only lines have been read: they and the buffer are all that came in.
Whole(h, d) ==
  LET seen == h.taken \o h.buf IN
  /\ Len(seen) = d /\ \A i \in 1 .. d : seen[i] = i
  /\ h.taken # <<>> => h.taken[Len(h.taken)] \in Newlines

Right(h, d) ==
  /\ h.kind # "gpio" => Kept(h, d)
  /\ h.kind = "uart" /\ ~h.partial => Whole(h, d)

OneLine(h) ==
  LET n == Len(h.line) IN
  n > 0 =>
    /\ h.line[n] \in Newlines /\ \A i \in 1 .. (n - 1) : h.line[i] \notin Newlines
    /\ ~h.partial => h.line[1] = 1 \/ h.line[1] - 1 \in Newlines

\* A pin with callbacks that nobody watches is about to get its watch, or to lose them.
Attended(h, b, w) ==
  h.kind = "gpio" /\ w.faults = Faults /\ ~b.open /\ h.cbs # {} =>
    \E t \in Threads : h.call[t].op \in {"watch", "pop"}

InboxSound(h, b, w) ==
  /\ h \in InboxHosts /\ b \in InboxBoards /\ w \in InboxWires
  /\ Numbered(b, w)
  /\ Right(h, b.last - Len(w.events))
  /\ OneLine(h) /\ Attended(h, b, w)
InboxInv == InboxSound(host, board, wire)

Final(s) == s[Len(s)]

LEMMA InboxNat == Arrivals \in Nat /\ Depth \in Nat /\ Faults \in Nat /\ Sessions \in Nat
  BY PeripheralAssumption, PartsAssumption

\* Ranges, as the module's and by position.
LEMMA RangeIs ==
  ASSUME NEW S, NEW s \in Seq(S)
  PROVE  Inbox!Range(s) = Elements(s) /\ DOMAIN s = 1 .. Len(s) /\ Len(s) \in Nat
<1>1. DOMAIN s = 1 .. Len(s) /\ Len(s) \in Nat
  BY LenProperties
<1>2. QED  BY <1>1 DEF Inbox!Range, Elements

\* What is handed out is the start of what waits: the two one after the other do not change.
LEMMA HandOut ==
  ASSUME NEW S, NEW t \in Seq(S), NEW s \in Seq(S), NEW n \in 0 .. Len(s)
  PROVE  /\ SubSeq(s, 1, n) \in Seq(S) /\ SubSeq(s, n + 1, Len(s)) \in Seq(S)
         /\ t \o SubSeq(s, 1, n) \in Seq(S)
         /\ Len(SubSeq(s, 1, n)) = n
         /\ \A i \in 1 .. n : SubSeq(s, 1, n)[i] = s[i]
<1>1. Len(s) \in Nat /\ n \in Nat /\ n <= Len(s) /\ \A i \in 1 .. Len(s) : s[i] \in S
  BY LenProperties, ElementOfSeq
<1>2. SubSeq(s, 1, n) \in Seq(S) /\ \A i \in 1 .. n : SubSeq(s, 1, n)[i] = s[i]
  <2>1. n - 1 + 1 = n /\ \A i \in 1 .. n : i \in 1 .. Len(s) /\ 1 + i - 1 = i
    BY <1>1
  <2>2. 1 \in Int /\ n \in Int /\ \A i \in 1 .. n : s[i] \in S
    BY <1>1, <2>1
  <2>3. QED  BY <2>1, <2>2, SubSeqProperties
<1>3. Len(SubSeq(s, 1, n)) = n
  <2>1. 1 \in Int /\ n \in Int /\ \A i \in 1 .. n : s[i] \in S
    BY <1>1
  <2>2. Len(SubSeq(s, 1, n)) = IF 1 <= n THEN n - 1 + 1 ELSE 0
    BY <2>1, SubSeqProperties
  <2>3. QED  BY <1>1, <2>2
<1>4. SubSeq(s, n + 1, Len(s)) \in Seq(S)
  <2>1. n + 1 \in Int /\ Len(s) \in Int /\ \A i \in n + 1 .. Len(s) : s[i] \in S
    BY <1>1
  <2>2. QED  BY <2>1, SubSeqProperties
<1>7. t \o SubSeq(s, 1, n) \in Seq(S)
  BY <1>2, ConcatProperties
<1>8. QED  BY <1>2, <1>3, <1>4, <1>7

LEMMA Rejoined ==
  ASSUME NEW S, NEW t \in Seq(S), NEW s \in Seq(S), NEW n \in 0 .. Len(s)
  PROVE  (t \o SubSeq(s, 1, n)) \o SubSeq(s, n + 1, Len(s)) = t \o s
<1>1. Len(s) \in Nat /\ n \in Nat /\ n <= Len(s)
  BY LenProperties
<1>2. SubSeq(s, 1, n) \in Seq(S)
  BY HandOut
<1>4. SubSeq(s, n + 1, Len(s)) \in Seq(S)
  BY HandOut
<1>5. SubSeq(s, 1, n) \o SubSeq(s, n + 1, Len(s)) = s
  <2>1. 1 \in 1 .. Len(s) + 1 /\ n \in 1 - 1 .. Len(s) /\ Len(s) \in n .. Len(s)
    BY <1>1
  <2>2. SubSeq(s, 1, n) \o SubSeq(s, n + 1, Len(s)) = SubSeq(s, 1, Len(s))
    BY <2>1, ConcatAdjacentSubSeq
  <2>3. QED  BY <2>2, SubSeqFull
<1>6. (t \o SubSeq(s, 1, n)) \o SubSeq(s, n + 1, Len(s)) = t \o s
  <2> DEFINE a == SubSeq(s, 1, n)
             b == SubSeq(s, n + 1, Len(s))
  <2>1. a \in Seq(S) /\ b \in Seq(S)
    BY <1>2, <1>4
  <2>2. a \o b = s
    BY <1>5
  <2> HIDE DEF a, b
  <2>3. (t \o a) \o b = t \o (a \o b)
    BY <2>1, ConcatAssociative
  <2>4. (t \o a) \o b = t \o s
    BY <2>2, <2>3
  <2>5. QED  BY <2>4 DEF a, b
<1>7. QED  BY <1>6

LEMMA LastHandedOut ==
  ASSUME NEW S, NEW t \in Seq(S), NEW s \in Seq(S), NEW n \in Nat, n > 0, n <= Len(s)
  PROVE  Final(t \o SubSeq(s, 1, n)) = s[n]
<1> DEFINE a == SubSeq(s, 1, n)
           m == Len(t) + n
<1>1. a \in Seq(S) /\ Len(a) = n /\ a[n] = s[n]
  <2>1. n \in 0 .. Len(s) /\ n \in 1 .. n
    <3>1. Len(s) \in Nat
      BY LenProperties
    <3>2. QED  BY <3>1
  <2>2. QED  BY <2>1, HandOut
<1> HIDE DEF a
<1>2. /\ Len(t \o a) = m
      /\ \A i \in 1 .. m : (t \o a)[i] = IF i <= Len(t) THEN t[i] ELSE a[i - Len(t)]
  BY <1>1, ConcatProperties
<1>3. m \in 1 .. m /\ ~(m <= Len(t)) /\ m - Len(t) = n
  <2>1. Len(t) \in Nat
    BY LenProperties
  <2>2. QED  BY <2>1
<1> HIDE DEF m
<1>4. (t \o a)[m] = a[n]
  BY <1>2, <1>3
<1>5. QED  BY <1>1, <1>2, <1>4 DEF a, Final

\* A buffer with a separator has a first one.
LEMMA FirstSeparator ==
  ASSUME NEW S, NEW s \in Seq(S), NEW T, NEW k \in 1 .. Len(s), s[k] \in T
  PROVE  \E i \in 1 .. Len(s) : s[i] \in T /\ \A j \in 1 .. (i - 1) : s[j] \notin T
<1> DEFINE I == {i \in 1 .. Len(s) : s[i] \in T}
<1>1. I # {} /\ I \subseteq Nat /\ Len(s) \in Nat
  BY RangeIs DEF Elements
<1>2. PICK m \in I : \A l \in I : <<l, m>> \notin OpToRel(<, Nat)
  BY <1>1, NatLessThanWellFounded, WFMin, Zenon
<1>3. ASSUME NEW l \in I PROVE m <= l
  <2>1. l < m => <<l, m>> \in {ss \in Nat \X Nat : ss[1] < ss[2]}
    BY <1>1
  <2>2. <<l, m>> \notin {ss \in Nat \X Nat : ss[1] < ss[2]}
    BY <1>2 DEF OpToRel
  <2>3. QED  BY <1>1, <2>1, <2>2
<1>4. \A j \in 1 .. (m - 1) : j \in 1 .. Len(s) /\ ~(m <= j)
  BY <1>1
<1>5. \A j \in 1 .. (m - 1) : s[j] \notin T
  BY <1>3, <1>4
<1>6. QED  BY <1>5

-----------------------------------------------------------------------------

\* Nothing is read, dropped or called.
LEMMA RightSame ==
  ASSUME NEW h, NEW g, NEW d, Right(h, d), g.kind = h.kind, g.taken = h.taken, g.buf = h.buf,
         g.dropped = h.dropped, g.called = h.called, h.partial => g.partial
  PROVE  Right(g, d)
  BY DEF Right, Kept, Whole

\* Something is read: a line and its separator, or else the rest of a line may be left.
LEMMA RightTaken ==
  ASSUME NEW h, NEW g, NEW d, Right(h, d), g.kind = h.kind, g.taken \o g.buf = h.taken \o h.buf,
         g.dropped = h.dropped, g.called = h.called, h.partial => g.partial,
         g.kind = "uart" /\ ~g.partial => g.taken[Len(g.taken)] \in Newlines
  PROVE  Right(g, d)
  BY DEF Right, Kept, Whole

\* One more at the end.
LEMMA Joined ==
  ASSUME NEW S, NEW t \in Seq(S), NEW s \in Seq(S)
  PROVE  /\ t \o s \in Seq(S) /\ Len(t \o s) = Len(t) + Len(s) /\ Len(t) \in Nat /\ Len(s) \in Nat
         /\ \A i \in 1 .. Len(t) : (t \o s)[i] = t[i]
         /\ \A i \in 1 .. Len(s) : (t \o s)[Len(t) + i] = s[i]
<1>1. /\ t \o s \in Seq(S) /\ Len(t \o s) = Len(t) + Len(s)
      /\ \A i \in 1 .. Len(t) + Len(s) : (t \o s)[i] = IF i <= Len(t) THEN t[i] ELSE s[i - Len(t)]
  BY ConcatProperties
<1>2. Len(t) \in Nat /\ Len(s) \in Nat
  BY LenProperties
<1> DEFINE x == t \o s
           m == Len(t)
           n == Len(s)
<1> HIDE DEF x, m, n
<1>3. /\ \A i \in 1 .. m + n : x[i] = IF i <= m THEN t[i] ELSE s[i - m]
      /\ m \in Nat /\ n \in Nat
  BY <1>1, <1>2 DEF x, m, n
<1>4. \A i \in 1 .. m : x[i] = t[i]
  <2>1. \A i \in 1 .. m : i \in 1 .. m + n /\ i <= m
    BY <1>3
  <2>2. QED  BY <1>3, <2>1
<1>5. \A i \in 1 .. n : x[m + i] = s[i]
  <2> TAKE i \in 1 .. n
  <2> DEFINE k == m + i
  <2>1. k \in 1 .. m + n /\ ~(k <= m) /\ k - m = i
    BY <1>3
  <2> HIDE DEF k
  <2>2. x[k] = s[i]
    BY <1>3, <2>1
  <2>3. QED  BY <2>2 DEF k
<1>6. QED  BY <1>1, <1>2, <1>4, <1>5 DEF x, m, n

LEMMA JoinedAppend ==
  ASSUME NEW S, NEW t \in Seq(S), NEW s \in Seq(S), NEW e \in S
  PROVE  /\ Len(t \o Append(s, e)) = Len(t \o s) + 1 /\ Len(t \o s) \in Nat
         /\ \A i \in 1 .. Len(t \o s) : (t \o Append(s, e))[i] = (t \o s)[i]
         /\ (t \o Append(s, e))[Len(t \o s) + 1] = e
<1> DEFINE a == Append(s, e)
           m == Len(t)
           n == Len(s)
<1>1. a \in Seq(S) /\ Len(a) = n + 1 /\ a[n + 1] = e /\ \A i \in 1 .. n : a[i] = s[i]
  BY AppendProperties
<1> HIDE DEF a
<1>2. /\ Len(t \o a) = m + (n + 1) /\ m \in Nat /\ n \in Nat
      /\ \A i \in 1 .. m : (t \o a)[i] = t[i]
      /\ \A i \in 1 .. n + 1 : (t \o a)[m + i] = a[i]
  <2>1. /\ Len(t \o a) = Len(t) + Len(a) /\ Len(t) \in Nat /\ Len(s) \in Nat
        /\ \A i \in 1 .. Len(t) : (t \o a)[i] = t[i]
        /\ \A i \in 1 .. Len(a) : (t \o a)[Len(t) + i] = a[i]
    <3>1. a \in Seq(S)
      BY <1>1
    <3>2. \A b \in Seq(S) :
            /\ t \o b \in Seq(S) /\ Len(t \o b) = Len(t) + Len(b) /\ Len(t) \in Nat /\ Len(b) \in Nat
            /\ \A i \in 1 .. Len(t) : (t \o b)[i] = t[i]
            /\ \A i \in 1 .. Len(b) : (t \o b)[Len(t) + i] = b[i]
      BY Joined
    <3>3. Len(s) \in Nat
      BY LenProperties
    <3>4. QED  BY <3>1, <3>2, <3>3, Zenon
  <2>2. Len(a) = n + 1
    BY <1>1
  <2>3. QED  BY <2>1, <2>2, Zenon
<1>3. /\ Len(t \o s) = m + n
      /\ \A i \in 1 .. m : (t \o s)[i] = t[i]
      /\ \A i \in 1 .. n : (t \o s)[m + i] = s[i]
  BY Joined
<1> DEFINE x == t \o a
           y == t \o s
<1> HIDE DEF x, y, m, n
<1>4. m + (n + 1) = m + n + 1 /\ m + n \in Nat /\ n + 1 \in 1 .. n + 1
  BY <1>2
<1>5. x[m + n + 1] = e
  BY <1>1, <1>2, <1>4 DEF x
<1>6. \A i \in 1 .. m + n : x[i] = y[i]
  <2> TAKE i \in 1 .. m + n
  <2>1. CASE i <= m
    <3>1. i \in 1 .. m
      BY <1>2, <2>1
    <3>2. QED  BY <1>2, <1>3, <3>1 DEF x, y
  <2>2. CASE ~(i <= m)
    <3>1. i - m \in 1 .. n /\ i - m \in 1 .. n + 1 /\ m + (i - m) = i
      BY <1>2, <2>2
    <3>2. x[m + (i - m)] = a[i - m] /\ y[m + (i - m)] = s[i - m] /\ a[i - m] = s[i - m]
      BY <1>1, <1>2, <1>3, <3>1 DEF x, y
    <3>3. QED  BY <3>1, <3>2
  <2>3. QED  BY <2>1, <2>2
<1>7. QED  BY <1>2, <1>3, <1>4, <1>5, <1>6 DEF a, x, y, m, n

\* The next one that came in goes into the buffer.
LEMMA RightAppend ==
  ASSUME NEW h, NEW g, NEW d \in Nat, Right(h, d), g.kind = h.kind, NEW x, NEW y,
         x = h.taken \o h.buf, y = g.taken \o g.buf, g.taken = h.taken,
         Len(y) = Len(x) + 1, Len(x) \in Nat, y[Len(x) + 1] = d + 1,
         \A i \in 1 .. Len(x) : y[i] = x[i],
         g.dropped = h.dropped, h.called \subseteq g.called, g.called \subseteq h.called \cup {d + 1}, g.partial = h.partial
  PROVE  Right(g, d + 1)
<1> DEFINE n == Len(x)
<1>1. /\ n \in Nat /\ Len(y) = n + 1 /\ y[n + 1] = d + 1 /\ \A i \in 1 .. n : y[i] = x[i]
      /\ 1 .. d + 1 = 1 .. d \cup {d + 1} /\ d + 1 \notin 1 .. d
      /\ 1 .. n + 1 = 1 .. n \cup {n + 1}
  <2>1. n \in Nat /\ Len(y) = n + 1 /\ y[n + 1] = d + 1 /\ \A i \in 1 .. n : y[i] = x[i]
    OBVIOUS
  <2> HIDE DEF n
  <2>2. 1 .. d + 1 = 1 .. d \cup {d + 1} /\ d + 1 \notin 1 .. d
    OBVIOUS
  <2>3. 1 .. n + 1 = 1 .. n \cup {n + 1}
    BY <2>1
  <2>4. QED  BY <2>1, <2>2, <2>3
<1>2. Len(x) = n
  OBVIOUS
<1> HIDE DEF n
<1>3. Elements(y) = Elements(x) \cup {d + 1}
  <2>1. Elements(y) = {y[i] : i \in 1 .. n \cup {n + 1}}
    BY <1>1 DEF Elements
  <2>2. Elements(x) = {x[i] : i \in 1 .. n}
    BY <1>2 DEF Elements
  <2>3. {y[i] : i \in 1 .. n \cup {n + 1}} = {y[i] : i \in 1 .. n} \cup {y[n + 1]}
    OBVIOUS
  <2>4. {y[i] : i \in 1 .. n} = {x[i] : i \in 1 .. n}
    <3>1. \A i \in 1 .. n : y[i] = x[i]
      BY <1>1
    <3>2. \A v : (\E i \in 1 .. n : v = y[i]) <=> (\E i \in 1 .. n : v = x[i])
      BY <3>1
    <3>3. QED  BY <3>2
  <2>5. QED  BY <1>1, <2>1, <2>2, <2>3, <2>4
<1>4. ASSUME g.kind # "gpio" PROVE Kept(g, d + 1)
  <2>1. /\ Rising(x) /\ Elements(x) \cup h.dropped \cup h.called = 1 .. d
        /\ Elements(x) \cap h.dropped = {}
    BY <1>4 DEF Right, Kept
  <2>2. \A i \in 1 .. n : x[i] \in 1 .. d
    BY <2>1, <1>2 DEF Elements
  <2>3. Rising(y)
    <3> SUFFICES ASSUME NEW i \in 1 .. n + 1, NEW j \in 1 .. n + 1, i < j PROVE y[i] < y[j]
      BY <1>1 DEF Rising
    <3>1. i \in 1 .. n /\ (j \in 1 .. n \/ j = n + 1)
      BY <1>1
    <3>2. CASE j \in 1 .. n
      BY <1>1, <1>2, <2>1, <3>1, <3>2 DEF Rising
    <3>3. CASE j = n + 1
      <4>1. y[i] \in 1 .. d /\ y[j] = d + 1
        BY <1>1, <2>2, <3>1, <3>3
      <4>2. \A a \in 1 .. d : a < d + 1
        OBVIOUS
      <4>3. QED  BY <4>1, <4>2
    <3>4. QED  BY <3>1, <3>2, <3>3
  <2>4. Elements(y) \cup g.dropped \cup g.called = 1 .. d + 1
    BY <1>1, <1>3, <2>1
  <2>5. Elements(y) \cap g.dropped = {}
    BY <1>1, <1>3, <2>1
  <2>6. QED  BY <2>3, <2>4, <2>5 DEF Kept
<1>5. ASSUME g.kind = "uart", ~g.partial PROVE Whole(g, d + 1)
  <2>1. n = d /\ (\A i \in 1 .. d : x[i] = i) /\ (h.taken # <<>> => h.taken[Len(h.taken)] \in Newlines)
    BY <1>2, <1>5 DEF Right, Whole
  <2>2. \A i \in 1 .. d + 1 : y[i] = i
    BY <1>1, <2>1
  <2>3. QED  BY <1>1, <2>1, <2>2 DEF Whole
<1>6. QED  BY <1>4, <1>5 DEF Right

\* It goes to the callbacks, or is dropped.
LEMMA RightAside ==
  ASSUME NEW h, NEW g, NEW d \in Nat, Right(h, d), g.kind = h.kind, h.kind # "uart",
         g.taken = h.taken, g.buf = h.buf,
         \/ g.dropped = h.dropped /\ g.called = h.called \cup {d + 1}
         \/ g.dropped = h.dropped \cup {d + 1} /\ g.called = h.called
  PROVE  Right(g, d + 1)
<1> DEFINE x == Elements(h.taken \o h.buf)
<1>1. 1 .. d + 1 = 1 .. d \cup {d + 1} /\ d + 1 \notin 1 .. d
  OBVIOUS
<1> HIDE DEF x
<1>2. ASSUME g.kind # "gpio" PROVE Kept(g, d + 1)
  <2>1. Rising(h.taken \o h.buf) /\ x \cup h.dropped \cup h.called = 1 .. d /\ x \cap h.dropped = {}
    BY <1>2 DEF Right, Kept, x
  <2>2. Rising(g.taken \o g.buf) /\ x = Elements(g.taken \o g.buf)
    BY <2>1 DEF x
  <2>3. x \cup g.dropped \cup g.called = 1 .. d + 1 /\ x \cap g.dropped = {}
    BY <1>1, <2>1
  <2>4. QED  BY <2>2, <2>3 DEF Kept
<1>3. QED  BY <1>2 DEF Right

\* What waits is thrown away.
LEMMA RightReset ==
  ASSUME NEW S, NEW h, NEW g, NEW d \in Nat, Right(h, d), g.kind = h.kind, h.kind = "uart",
         NEW t \in Seq(S), NEW s \in Seq(S), h.taken = t, h.buf = s, g.taken = t, g.buf = <<>>,
         g.dropped = h.dropped \cup Elements(s), g.called = h.called, g.partial
  PROVE  Right(g, d)
<1>1. /\ Len(t \o s) = Len(t) + Len(s) /\ Len(t) \in Nat /\ Len(s) \in Nat
      /\ \A i \in 1 .. Len(t) : (t \o s)[i] = t[i]
      /\ \A i \in 1 .. Len(s) : (t \o s)[Len(t) + i] = s[i]
  BY Joined
<1>2. t \o <<>> = t
  BY ConcatEmptySeq
<1> DEFINE x == t \o s
           m == Len(t)
           n == Len(s)
<1>3. /\ Rising(x) /\ Elements(x) \cup h.dropped \cup h.called = 1 .. d
      /\ Elements(x) \cap h.dropped = {}
  BY DEF Right, Kept
<1> HIDE DEF x, m, n
<1>4. /\ Len(x) = m + n /\ m \in Nat /\ n \in Nat
      /\ \A i \in 1 .. m : i \in 1 .. m + n /\ x[i] = t[i]
      /\ \A i \in 1 .. n : m + i \in 1 .. m + n /\ x[m + i] = s[i]
      /\ \A i \in 1 .. m + n : i \in 1 .. m \/ (i - m \in 1 .. n /\ m + (i - m) = i)
      /\ \A i \in 1 .. m, j \in 1 .. n : i < m + j
  <2>1. m \in Nat /\ n \in Nat
    BY <1>1 DEF m, n
  <2>2. /\ \A i \in 1 .. m : i \in 1 .. m + n
        /\ \A i \in 1 .. n : m + i \in 1 .. m + n
        /\ \A i \in 1 .. m + n : i \in 1 .. m \/ (i - m \in 1 .. n /\ m + (i - m) = i)
        /\ \A i \in 1 .. m, j \in 1 .. n : i < m + j
    BY <2>1
  <2>3. /\ Len(x) = m + n
        /\ \A i \in 1 .. m : x[i] = t[i]
        /\ \A i \in 1 .. n : x[m + i] = s[i]
    BY <1>1 DEF x, m, n
  <2>4. QED  BY <2>1, <2>2, <2>3
<1>5. Rising(t)
  BY <1>3, <1>4 DEF Rising, m
<1>6. Elements(t) \cup Elements(s) = Elements(x)
  <2>1. Elements(t) = {t[i] : i \in 1 .. m} /\ Elements(s) = {s[i] : i \in 1 .. n}
    BY DEF Elements, m, n
  <2>2. Elements(x) = {x[i] : i \in 1 .. m + n}
    BY <1>4 DEF Elements
  <2>3. \A i \in 1 .. m : t[i] \in Elements(x)
    BY <1>4, <2>2
  <2>4. \A i \in 1 .. n : s[i] \in Elements(x)
    BY <1>4, <2>2
  <2>5. \A i \in 1 .. m + n : x[i] \in Elements(t) \cup Elements(s)
    BY <1>4, <2>1
  <2>6. Elements(t) \cup Elements(s) \subseteq Elements(x)
    BY <2>1, <2>3, <2>4
  <2>7. Elements(x) \subseteq Elements(t) \cup Elements(s)
    BY <2>2, <2>5
  <2>8. QED  BY <2>6, <2>7, Zenon
<1>7. Elements(t) \cap Elements(s) = {}
  <2> SUFFICES ASSUME NEW i \in 1 .. m, NEW j \in 1 .. n PROVE t[i] # s[j]
    BY DEF Elements, m, n
  <2>1. x[i] < x[m + j] /\ x[i] = t[i] /\ x[m + j] = s[j]
    BY <1>3, <1>4 DEF Rising
  <2>2. x[i] \in 1 .. d
    BY <1>3, <1>4 DEF Elements
  <2>3. QED  BY <2>1, <2>2
<1>8. Kept(g, d)
  <2>1. Elements(t) \cup g.dropped \cup g.called = 1 .. d /\ Elements(t) \cap g.dropped = {}
    BY <1>3, <1>6, <1>7
  <2>2. g.taken \o g.buf = t
    BY <1>2
  <2>3. QED  BY <1>5, <2>1, <2>2 DEF Kept
<1>9. QED  BY <1>8 DEF Right

-----------------------------------------------------------------------------

LEMMA InboxMeans == InboxInv => Inbox!InOrder /\ Inbox!LineIsOne /\ Inbox!UnwatchedIsSilent
<1> SUFFICES ASSUME InboxInv PROVE Inbox!InOrder /\ Inbox!LineIsOne /\ Inbox!UnwatchedIsSilent
  OBVIOUS
<1>1. /\ host \in InboxHosts /\ board \in InboxBoards /\ wire \in InboxWires
      /\ Right(host, board.last - Len(wire.events)) /\ OneLine(host) /\ Attended(host, board, wire)
  BY DEF InboxInv, InboxSound
<1>2. /\ host.taken \in Seq(1 .. Arrivals) /\ host.buf \in Seq(1 .. Arrivals)
      /\ host.line \in Seq(1 .. Arrivals)
  BY <1>1 DEF InboxHosts
<1>3. Inbox!InOrder
  <2> DEFINE x == host.taken \o host.buf
  <2>1. x \in Seq(1 .. Arrivals)
    BY <1>2, ConcatProperties
  <2>2. ASSUME host.kind # "gpio"
        PROVE  /\ Inbox!Increasing(x)
               /\ Inbox!Range(x) \cup host.dropped \cup host.called = Inbox!Delivered
               /\ Inbox!Range(x) \cap host.dropped = {}
    <3>1. /\ Rising(x)
          /\ Elements(x) \cup host.dropped \cup host.called = 1 .. board.last - Len(wire.events)
          /\ Elements(x) \cap host.dropped = {}
      BY <1>1, <2>2 DEF Right, Kept
    <3> HIDE DEF x
    <3>2. Inbox!Range(x) = Elements(x) /\ Len(x) \in Nat
      BY <2>1, RangeIs
    <3>3. Inbox!Increasing(x)
      <4> DEFINE n == Len(x)
      <4>1. n \in Nat /\ \A i, j \in 1 .. n : i < j => x[i] < x[j]
        BY <3>1, <3>2 DEF Rising
      <4> HIDE DEF n
      <4>2. \A i \in 1 .. (n - 1) : i \in 1 .. n /\ i + 1 \in 1 .. n /\ i < i + 1
        BY <4>1
      <4>3. \A i \in 1 .. (n - 1) : x[i] < x[i + 1]
        BY <4>1, <4>2
      <4>4. QED  BY <4>3 DEF n, Inbox!Increasing
    <3>4. QED  BY <3>1, <3>2, <3>3 DEF Inbox!Delivered
  <2>3. Inbox!Is({"uart", "can", "espnow"}) => host.kind # "gpio"
    BY DEF Inbox!Is
  <2>4. QED  BY <2>2, <2>3 DEF Inbox!InOrder
<1>4. Inbox!LineIsOne
  <2>1. host.line # <<>> => Len(host.line) > 0
    BY <1>2, EmptySeq
  <2>2. QED  BY <1>1, <2>1 DEF OneLine, Inbox!LineIsOne, Inbox!Last
<1>5. Inbox!UnwatchedIsSilent
  <2>1. \A t \in Threads : Inbox!Quiet(t) => host.call[t].op \notin {"watch", "pop"}
    BY DEF Inbox!Quiet, Inbox!Idle
  <2>2. QED  BY <1>1, <2>1 DEF Attended, Inbox!UnwatchedIsSilent, Inbox!Is
<1>6. QED  BY <1>3, <1>4, <1>5

LEMMA InboxInit == Inbox!Init => InboxInv
<1> SUFFICES ASSUME Inbox!Init PROVE InboxInv
  OBVIOUS
<1>1. PICK k \in Inbox!Kinds :
        host = [kind |-> k, buf |-> <<>>, taken |-> <<>>, dropped |-> {}, called |-> {},
               call |-> [t \in Threads |-> Inbox!Idle], cbs |-> {}, due |-> {}, empty |-> FALSE,
               line |-> <<>>, partial |-> FALSE]
  BY Zenon DEF Inbox!Init
<1>2. /\ board = [open |-> FALSE, session |-> 0, last |-> 0, since |-> 0]
      /\ wire = [events |-> <<>>, faults |-> Faults]
  BY DEF Inbox!Init
<1>3. <<>> \in Seq(1 .. Arrivals) /\ Len(<<>>) = 0
  BY EmptySeq
<1>4. Inbox!Idle \in InboxCalls
  BY DEF Inbox!Idle, InboxCalls, InboxOps
<1>5. host \in InboxHosts
  BY <1>1, <1>3, <1>4 DEF InboxHosts
<1>6. board \in InboxBoards /\ wire \in InboxWires
  BY <1>2, <1>3, InboxNat DEF InboxBoards, InboxWires
<1>7. Numbered(board, wire) /\ board.last - Len(wire.events) = 0
  BY <1>2, <1>3 DEF Numbered
<1>8. Right(host, 0)
  <2>1. <<>> \o <<>> = <<>>
    BY <1>3, ConcatEmptySeq
  <2>2. host.taken = <<>> /\ host.buf = <<>> /\ host.dropped = {} /\ host.called = {}
    BY <1>1
  <2>3. Elements(<<>>) = {} /\ Rising(<<>>) /\ 1 .. 0 = {}
    BY <1>3 DEF Elements, Rising
  <2>4. Kept(host, 0)
    BY <2>1, <2>2, <2>3 DEF Kept
  <2>5. Whole(host, 0)
    BY <1>3, <2>1, <2>2, <2>3 DEF Whole
  <2>6. QED  BY <2>4, <2>5 DEF Right
<1>9. OneLine(host) /\ Attended(host, board, wire)
  BY <1>1, <1>3 DEF OneLine, Attended
<1>10. QED  BY <1>5, <1>6, <1>7, <1>8, <1>9 DEF InboxInv, InboxSound

LEMMA InboxFields ==
  ASSUME InboxInv
  PROVE  /\ host \in InboxHosts /\ board \in InboxBoards /\ wire \in InboxWires
         /\ host.kind \in Inbox!Kinds
         /\ host.buf \in Seq(1 .. Arrivals) /\ host.taken \in Seq(1 .. Arrivals)
         /\ host.line \in Seq(1 .. Arrivals)
         /\ host.dropped \in SUBSET (1 .. Arrivals) /\ host.called \in SUBSET (1 .. Arrivals)
         /\ host.call \in [Threads -> InboxCalls]
         /\ host.cbs \in SUBSET Threads /\ host.due \in SUBSET Threads
         /\ host.empty \in BOOLEAN /\ host.partial \in BOOLEAN
         /\ board.open \in BOOLEAN /\ board.session \in Nat /\ board.last \in 0 .. Arrivals
         /\ board.since \in Nat
         /\ wire.events \in Seq(1 .. Arrivals) /\ wire.faults \in 0 .. Faults
  BY DEF InboxInv, InboxSound, InboxHosts, InboxBoards, InboxWires

\* Nothing of what came in moves.
LEMMA InboxStill ==
  ASSUME InboxInv, host' \in InboxHosts, board' \in InboxBoards, wire' \in InboxWires,
         host'.kind = host.kind, host'.taken = host.taken, host'.buf = host.buf,
         host'.dropped = host.dropped, host'.called = host.called, host'.line = host.line,
         host'.partial = host.partial, board'.last = board.last, wire'.events = wire.events,
         Attended(host', board', wire')
  PROVE  InboxInv'
<1> DEFINE d == board.last - Len(wire.events)
<1>1. Numbered(board, wire) /\ Right(host, d) /\ OneLine(host)
  BY DEF InboxInv, InboxSound
<1>2. Numbered(board', wire')
  BY <1>1 DEF Numbered
<1>3. d = board'.last - Len(wire'.events)
  OBVIOUS
<1> HIDE DEF d
<1>4. Right(host', d)
  BY <1>1, RightSame
<1>5. OneLine(host')
  BY <1>1 DEF OneLine
<1>6. QED  BY <1>2, <1>3, <1>4, <1>5 DEF InboxInv, InboxSound

\* Some of the buffer is handed out.
LEMMA InboxRead ==
  ASSUME InboxInv, host' \in InboxHosts, UNCHANGED <<board, wire>>,
         host'.kind = host.kind, host'.taken \o host'.buf = host.taken \o host.buf,
         host'.dropped = host.dropped, host'.called = host.called, host.partial => host'.partial,
         host'.kind = "uart" /\ ~host'.partial => host'.taken[Len(host'.taken)] \in Newlines,
         OneLine(host'), Attended(host', board, wire)
  PROVE  InboxInv'
<1> DEFINE d == board.last - Len(wire.events)
<1>1. Numbered(board, wire) /\ Right(host, d)
  BY DEF InboxInv, InboxSound
<1>2. Numbered(board', wire') /\ d = board'.last - Len(wire'.events) /\ Attended(host', board', wire')
  BY <1>1
<1>3. board' \in InboxBoards /\ wire' \in InboxWires
  BY InboxFields
<1> HIDE DEF d
<1>4. Right(host', d)
  BY <1>1, RightTaken
<1>5. QED  BY <1>2, <1>3, <1>4 DEF InboxInv, InboxSound

LEMMA InboxTypes ==
  /\ Inbox!Idle \in InboxCalls
  /\ \A h \in InboxHosts, t \in Threads, c \in InboxCalls : [h EXCEPT !.call[t] = c] \in InboxHosts
  /\ \A h \in InboxHosts, c \in [Threads -> InboxCalls] : [h EXCEPT !.call = c] \in InboxHosts
  /\ \A h \in InboxHosts, c \in SUBSET Threads : [h EXCEPT !.cbs = c] \in InboxHosts
  /\ \A h \in InboxHosts, c \in SUBSET Threads : [h EXCEPT !.due = c] \in InboxHosts
  /\ \A h \in InboxHosts, c \in SUBSET (1 .. Arrivals) : [h EXCEPT !.called = c] \in InboxHosts
  /\ \A h \in InboxHosts, c \in SUBSET (1 .. Arrivals) : [h EXCEPT !.dropped = c] \in InboxHosts
  /\ \A h \in InboxHosts, c \in Seq(1 .. Arrivals) : [h EXCEPT !.buf = c] \in InboxHosts
  /\ \A h \in InboxHosts, a \in Seq(1 .. Arrivals), c \in Seq(1 .. Arrivals) :
       [h EXCEPT !.taken = a, !.buf = c] \in InboxHosts
  /\ \A h \in InboxHosts, c \in Seq(1 .. Arrivals) : [h EXCEPT !.line = c] \in InboxHosts
  /\ \A h \in InboxHosts, c \in BOOLEAN, e \in BOOLEAN :
       [h EXCEPT !.partial = c, !.empty = e] \in InboxHosts
<1>1. Inbox!Idle \in InboxCalls
  BY DEF Inbox!Idle, InboxCalls, InboxOps
<1>2. \A h \in InboxHosts, t \in Threads, c \in InboxCalls : [h EXCEPT !.call[t] = c] \in InboxHosts
  BY DEF InboxHosts
<1>3. \A h \in InboxHosts, c \in [Threads -> InboxCalls] : [h EXCEPT !.call = c] \in InboxHosts
  BY DEF InboxHosts
<1>4. \A h \in InboxHosts, c \in SUBSET Threads : [h EXCEPT !.cbs = c] \in InboxHosts
  BY DEF InboxHosts
<1>5. \A h \in InboxHosts, c \in SUBSET Threads : [h EXCEPT !.due = c] \in InboxHosts
  BY DEF InboxHosts
<1>6. \A h \in InboxHosts, c \in SUBSET (1 .. Arrivals) : [h EXCEPT !.called = c] \in InboxHosts
  BY DEF InboxHosts
<1>7. \A h \in InboxHosts, c \in SUBSET (1 .. Arrivals) : [h EXCEPT !.dropped = c] \in InboxHosts
  BY DEF InboxHosts
<1>8. \A h \in InboxHosts, c \in Seq(1 .. Arrivals) : [h EXCEPT !.buf = c] \in InboxHosts
  BY DEF InboxHosts
<1>9. \A h \in InboxHosts, a \in Seq(1 .. Arrivals), c \in Seq(1 .. Arrivals) :
        [h EXCEPT !.taken = a, !.buf = c] \in InboxHosts
  BY DEF InboxHosts
<1>10. \A h \in InboxHosts, c \in Seq(1 .. Arrivals) : [h EXCEPT !.line = c] \in InboxHosts
  BY DEF InboxHosts
<1>11. \A h \in InboxHosts, c \in BOOLEAN, e \in BOOLEAN :
         [h EXCEPT !.partial = c, !.empty = e] \in InboxHosts
  BY DEF InboxHosts
<1>12. QED  BY <1>1, <1>2, <1>3, <1>4, <1>5, <1>6, <1>7, <1>8, <1>9, <1>10, <1>11, Zenon

\* The port: opened, closed, a callback registered, something comes in.
LEMMA InboxPort ==
  ASSUME InboxInv,
         Inbox!Open \/ Inbox!Close \/ Inbox!Arrive \/ \E t \in Threads : Inbox!OnRx(t)
  PROVE  InboxInv'
<1> USE InboxFields
<1>0. Attended(host, board, wire)
  BY DEF InboxInv, InboxSound
<1>1. CASE Inbox!Open
  <2>1. host' = host /\ wire' = wire /\ host.kind # "gpio"
    BY <1>1 DEF Inbox!Open, Inbox!Is
  <2>2. board.last + 1 \in Nat /\ board.session + 1 \in Nat
    BY InboxNat
  <2>3. board' \in InboxBoards /\ board'.last = board.last
    BY <1>1, <2>2 DEF Inbox!Open, InboxBoards
  <2>4. Attended(host', board', wire')
    BY <2>1 DEF Attended
  <2>5. QED  BY <2>1, <2>3, <2>4, InboxStill
<1>2. CASE Inbox!Close
  <2>1. host' = host /\ wire' = wire /\ host.kind # "gpio"
    BY <1>2 DEF Inbox!Close, Inbox!Is
  <2>2. board' \in InboxBoards /\ board'.last = board.last
    BY <1>2 DEF Inbox!Close, InboxBoards
  <2>3. Attended(host', board', wire')
    BY <2>1 DEF Attended
  <2>4. QED  BY <2>1, <2>2, <2>3, InboxStill
<1>3. CASE Inbox!Arrive
  <2> DEFINE e == board.last + 1
             n == Len(wire.events)
             x == Append(wire.events, e)
  <2>1. /\ host' = host /\ board' = [board EXCEPT !.last = e]
        /\ wire' = [wire EXCEPT !.events = x] /\ board.last < Arrivals
    BY <1>3 DEF Inbox!Arrive
  <2>2. e \in 1 .. Arrivals /\ e \in 0 .. Arrivals
    BY <2>1, InboxNat
  <2>3. /\ x \in Seq(1 .. Arrivals) /\ Len(x) = n + 1 /\ x[n + 1] = e
        /\ \A i \in 1 .. n : x[i] = wire.events[i]
    BY <2>2, AppendProperties
  <2> HIDE DEF x
  <2>4. board' \in InboxBoards /\ board'.last = e /\ board'.open = board.open
    BY <2>1, <2>2 DEF InboxBoards
  <2>5. wire' \in InboxWires /\ wire'.events = x /\ wire'.faults = wire.faults
    BY <2>1, <2>3 DEF InboxWires
  <2>6. /\ n <= board.last /\ n \in Nat /\ board.last \in Nat
        /\ \A i \in 1 .. n : wire.events[i] = board.last - n + i
    <3>1. n \in Nat
      BY LenProperties
    <3>2. QED  BY <3>1 DEF InboxInv, InboxSound, Numbered
  <2> DEFINE d == board.last - n
             b == board.last
  <2>7. board'.last - Len(wire'.events) = d /\ d \in Nat
    <3>1. e - (n + 1) = d /\ d \in Nat
      <4>1. n \in Nat /\ b \in Nat /\ n <= b /\ e = b + 1 /\ d = b - n
        BY <2>6
      <4> HIDE DEF n, b, d, e
      <4>2. QED  BY <4>1
    <3>2. QED  BY <2>3, <2>4, <2>5, <3>1
  <2>8. Right(host', d) /\ OneLine(host') /\ Attended(host', board', wire')
    BY <2>1, <2>4, <2>5 DEF InboxInv, InboxSound, Attended
  <2>9. Numbered(board', wire')
    <3> HIDE DEF n, e
    <3>1. /\ n \in Nat /\ b \in Nat /\ n <= b
          /\ \A i \in 1 .. n : x[i] = b - n + i
      BY <2>3, <2>6
    <3>2. e = b + 1
      BY DEF e
    <3> HIDE DEF b
    <3>3. n + 1 <= e /\ e - (n + 1) = b - n /\ b - n + (n + 1) = e
      BY <3>1, <3>2
    <3>4. ASSUME NEW i \in 1 .. n + 1 PROVE x[i] = b - n + i
      <4>1. i \in 1 .. n \/ i = n + 1
        BY <3>1
      <4>2. CASE i \in 1 .. n
        BY <3>1, <4>2
      <4>3. CASE i = n + 1
        BY <2>3, <3>3, <4>3
      <4>4. QED  BY <4>1, <4>2, <4>3
    <3>5. Len(x) = n + 1
      BY <2>3
    <3>6. QED  BY <2>4, <2>5, <3>3, <3>4, <3>5 DEF Numbered
  <2>10. host' \in InboxHosts
    BY <2>1
  <2>11. QED  BY <2>4, <2>5, <2>7, <2>8, <2>9, <2>10 DEF InboxInv, InboxSound
<1>4. ASSUME NEW t \in Threads, Inbox!OnRx(t) PROVE InboxInv'
  <2>1. /\ host' = [host EXCEPT !.cbs = host.cbs \cup {t}] /\ board' = board /\ wire' = wire
        /\ host.kind # "gpio"
    BY <1>4 DEF Inbox!OnRx, Inbox!Is
  <2>2. host.cbs \cup {t} \in SUBSET Threads
    OBVIOUS
  <2>3. host' \in InboxHosts
    BY <2>1, <2>2, InboxTypes, Zenon
  <2>4. /\ host'.kind = host.kind /\ host'.taken = host.taken /\ host'.buf = host.buf
        /\ host'.dropped = host.dropped /\ host'.called = host.called /\ host'.line = host.line
        /\ host'.partial = host.partial
    BY <2>1 DEF InboxHosts
  <2>5. Attended(host', board', wire')
    BY <2>1, <2>4 DEF Attended
  <2>6. QED  BY <2>1, <2>3, <2>4, <2>5, InboxStill
<1>5. QED  BY <1>1, <1>2, <1>3, <1>4

\* The first event on its way is the next that came in.
LEMMA NextEvent ==
  ASSUME InboxInv, wire.events # <<>>, wire' = [wire EXCEPT !.events = Tail(@)], board' = board
  PROVE  /\ Head(wire.events) = board.last - Len(wire.events) + 1
         /\ Head(wire.events) \in 1 .. Arrivals
         /\ board.last - Len(wire.events) \in Nat
         /\ board'.last - Len(wire'.events) = board.last - Len(wire.events) + 1
         /\ Numbered(board', wire') /\ wire' \in InboxWires /\ board' \in InboxBoards
         /\ wire'.faults = wire.faults
<1> USE InboxFields
<1> DEFINE s == wire.events
           x == Tail(s)
           n == Len(s)
           b == board.last
<1>1. x \in Seq(1 .. Arrivals) /\ Len(x) = n - 1 /\ Head(s) \in 1 .. Arrivals
  BY HeadTailProperties
<1>2. \A i \in 1 .. n - 1 : x[i] = s[i + 1]
  BY <1>1, HeadTailProperties
<1>3. n \in Nat /\ n # 0
  BY EmptySeq
<1>4. n <= b /\ b \in Nat /\ \A i \in 1 .. n : s[i] = b - n + i
  BY DEF InboxInv, InboxSound, Numbered
<1>5. Head(s) = s[1]
  OBVIOUS
<1>6. wire' \in InboxWires /\ wire'.events = x /\ wire'.faults = wire.faults
  BY <1>1 DEF InboxWires
<1> HIDE DEF s, x, n, b
<1>7. Head(s) = b - n + 1 /\ b - n \in Nat /\ n - 1 <= b /\ b - (n - 1) = b - n + 1
  <2>1. 1 \in 1 .. n
    BY <1>3
  <2>2. s[1] = b - n + 1
    BY <1>4, <2>1
  <2>3. b - n \in Nat /\ n - 1 <= b /\ b - (n - 1) = b - n + 1
    BY <1>3, <1>4
  <2>4. QED  BY <1>5, <2>2, <2>3
<1>8. \A i \in 1 .. n - 1 : x[i] = b - (n - 1) + i
  <2> TAKE i \in 1 .. n - 1
  <2>1. i + 1 \in 1 .. n /\ b - n + (i + 1) = b - (n - 1) + i
    BY <1>3, <1>4
  <2>2. QED  BY <1>2, <1>4, <2>1
<1>9. board'.last = b
  BY DEF b
<1>10. Numbered(board', wire')
  BY <1>1, <1>6, <1>7, <1>8, <1>9 DEF Numbered
<1>11. board'.last - Len(wire'.events) = b - (n - 1)
  BY <1>1, <1>6, <1>9
<1>12. QED  BY <1>1, <1>6, <1>7, <1>10, <1>11 DEF s, n, b

LEMMA InboxDeliver ==
  ASSUME InboxInv, Inbox!Deliver
  PROVE  InboxInv'
<1> USE InboxFields
<1> DEFINE e == Head(wire.events)
           d == board.last - Len(wire.events)
           a == Append(host.buf, e)
           c == host.called \cup {e}
           p == host.dropped \cup {e}
<1>1. /\ wire.events # <<>> /\ wire' = [wire EXCEPT !.events = Tail(@)] /\ board' = board
      /\ host' = CASE Inbox!Is({"uart"}) -> Inbox!Feed(host, e)
                    [] Inbox!Is({"can", "espnow"}) -> Inbox!Queue(host, e)
                    [] OTHER -> Inbox!Edge(host, e)
  BY DEF Inbox!Deliver
<1>2. /\ e = d + 1 /\ e \in 1 .. Arrivals /\ d \in Nat /\ board'.last - Len(wire'.events) = d + 1
      /\ Numbered(board', wire') /\ wire' \in InboxWires /\ board' \in InboxBoards
      /\ wire'.faults = wire.faults
  BY <1>1, NextEvent
<1>3. Right(host, d) /\ OneLine(host) /\ Attended(host, board, wire)
  BY DEF InboxInv, InboxSound
<1>4. host.kind \in {"uart", "can", "espnow", "gpio"}
  BY DEF Inbox!Kinds
<1>5. a \in Seq(1 .. Arrivals) /\ c \in SUBSET (1 .. Arrivals) /\ p \in SUBSET (1 .. Arrivals)
  BY <1>2, AppendProperties
<1>6. /\ Len(host.taken \o a) = Len(host.taken \o host.buf) + 1 /\ Len(host.taken \o host.buf) \in Nat
      /\ \A i \in 1 .. Len(host.taken \o host.buf) : (host.taken \o a)[i] = (host.taken \o host.buf)[i]
      /\ (host.taken \o a)[Len(host.taken \o host.buf) + 1] = e
  <2> DEFINE t == host.taken
             s == host.buf
             S == 1 .. Arrivals
  <2>1. t \in Seq(S) /\ s \in Seq(S)
    OBVIOUS
  <2> HIDE DEF t, s
  <2>2. e \in S
    BY <1>2
  <2> HIDE DEF e, S
  <2>3. /\ Len(t \o Append(s, e)) = Len(t \o s) + 1 /\ Len(t \o s) \in Nat
        /\ \A i \in 1 .. Len(t \o s) : (t \o Append(s, e))[i] = (t \o s)[i]
        /\ (t \o Append(s, e))[Len(t \o s) + 1] = e
    BY <2>1, <2>2, JoinedAppend, SMTT(60)
  <2>4. QED  BY <2>3 DEF t, s
<1> HIDE DEF d, a, c, p
<1>7. CASE host.kind = "uart"
  <2> DEFINE k == [t \in Threads |-> [host.call[t] EXCEPT !.woken = host.call[t].op = "read"]]
             m == IF host.cbs # {} THEN c ELSE host.called
  <2>1. host' = [host EXCEPT !.buf = a, !.called = m, !.call = k]
    BY <1>1, <1>7 DEF Inbox!Is, Inbox!Feed, a, c
  <2>2. k \in [Threads -> InboxCalls]
    BY DEF InboxCalls
  <2>3. m \in SUBSET (1 .. Arrivals) /\ (m = host.called \/ m = host.called \cup {e})
    BY <1>5 DEF c
  <2> HIDE DEF k, m
  <2>4. host' \in InboxHosts
    BY <1>5, <2>1, <2>2, <2>3 DEF InboxHosts
  <2>5. /\ host'.kind = host.kind /\ host'.taken = host.taken /\ host'.buf = a
        /\ host'.dropped = host.dropped /\ host'.called = m /\ host'.line = host.line
        /\ host'.partial = host.partial
    BY <2>1 DEF InboxHosts
  <2>6. Right(host', d + 1)
    <3> DEFINE x == host.taken \o host.buf
               y == host.taken \o a
    <3>1. /\ Len(y) = Len(x) + 1 /\ Len(x) \in Nat /\ y[Len(x) + 1] = d + 1
          /\ \A i \in 1 .. Len(x) : y[i] = x[i]
      BY <1>2, <1>6
    <3>2. x = host.taken \o host.buf /\ y = host'.taken \o host'.buf
      BY <2>5
    <3> HIDE DEF x, y
    <3>3. m = host.called \/ m = host.called \cup {d + 1}
      BY <1>2, <2>3
    <3>4. d \in Nat /\ Right(host, d) /\ host'.kind = host.kind /\ host'.taken = host.taken
          /\ host'.dropped = host.dropped /\ host'.partial = host.partial
      BY <1>2, <1>3, <2>5
    <3>5. host.called \subseteq host'.called /\ host'.called \subseteq host.called \cup {d + 1}
      BY <2>5, <3>3
    <3>6. QED  BY <3>1, <3>2, <3>4, <3>5, RightAppend, ZenonT(60)
  <2>7. OneLine(host') /\ Attended(host', board', wire')
    BY <1>3, <1>7, <2>5 DEF OneLine, Attended
  <2>8. QED  BY <1>2, <2>4, <2>6, <2>7 DEF InboxInv, InboxSound
<1>8. CASE host.kind # "uart"
  <2>1. \/ host' = [host EXCEPT !.called = c]
        \/ host' = [host EXCEPT !.dropped = p]
        \/ host' = [host EXCEPT !.buf = a] /\ host.kind # "gpio"
    <3>1. CASE host.kind \in {"can", "espnow"}
      <4>1. host' = Inbox!Queue(host, e)
        BY <1>1, <3>1 DEF Inbox!Is
      <4>2. QED  BY <3>1, <4>1 DEF Inbox!Queue, a, c, p
    <3>2. CASE host.kind = "gpio"
      <4>1. host' = Inbox!Edge(host, e)
        BY <1>1, <3>2 DEF Inbox!Is
      <4>2. QED  BY <4>1 DEF Inbox!Edge, c, p
    <3>3. QED  BY <1>4, <1>8, <3>1, <3>2
  <2>2. host' \in InboxHosts
    <3>1. CASE host' = [host EXCEPT !.called = c]
      BY <1>5, <3>1, InboxTypes, Zenon
    <3>2. CASE host' = [host EXCEPT !.dropped = p]
      BY <1>5, <3>2, InboxTypes, Zenon
    <3>3. CASE host' = [host EXCEPT !.buf = a]
      BY <1>5, <3>3, InboxTypes, Zenon
    <3>4. QED  BY <2>1, <3>1, <3>2, <3>3
  <2>3. /\ host'.kind = host.kind /\ host'.taken = host.taken /\ host'.line = host.line
        /\ host'.partial = host.partial /\ host'.cbs = host.cbs /\ host'.call = host.call
    BY <2>1 DEF InboxHosts
  <2>4. Right(host', d + 1)
    <3>1. CASE host' = [host EXCEPT !.called = c] \/ host' = [host EXCEPT !.dropped = p]
      <4>1. /\ host'.buf = host.buf
            /\ \/ host'.dropped = host.dropped /\ host'.called = c
               \/ host'.dropped = p /\ host'.called = host.called
        BY <3>1 DEF InboxHosts
      <4>2. c = host.called \cup {d + 1} /\ p = host.dropped \cup {d + 1}
        BY <1>2 DEF c, p
      <4>3. QED  BY <1>2, <1>3, <1>8, <2>3, <4>1, <4>2, RightAside
    <3>2. CASE host' = [host EXCEPT !.buf = a]
      <4>1. host'.buf = a /\ host'.dropped = host.dropped /\ host'.called = host.called
        BY <3>2 DEF InboxHosts
      <4> DEFINE x == host.taken \o host.buf
                 y == host.taken \o a
      <4>2. /\ Len(y) = Len(x) + 1 /\ Len(x) \in Nat /\ y[Len(x) + 1] = d + 1
            /\ \A i \in 1 .. Len(x) : y[i] = x[i]
        BY <1>2, <1>6
      <4>3. x = host.taken \o host.buf /\ y = host'.taken \o host'.buf
        BY <2>3, <4>1
      <4> HIDE DEF x, y
      <4>4. QED  BY <1>2, <1>3, <2>3, <4>1, <4>2, <4>3, RightAppend, ZenonT(60)
    <3>3. QED  BY <2>1, <3>1, <3>2
  <2>5. OneLine(host') /\ Attended(host', board', wire')
    BY <1>1, <1>2, <1>3, <2>3 DEF OneLine, Attended
  <2>6. QED  BY <1>2, <2>2, <2>4, <2>5 DEF InboxInv, InboxSound
<1>9. QED  BY <1>7, <1>8

LEMMA InboxReset ==
  ASSUME InboxInv, Inbox!ResetInput
  PROVE  InboxInv'
<1> USE InboxFields
<1> DEFINE p == host.dropped \cup Inbox!Range(host.buf)
           d == board.last - Len(wire.events)
<1>1. /\ host' = [host EXCEPT !.dropped = p, !.buf = <<>>, !.partial = TRUE]
      /\ host.kind = "uart" /\ board' = board /\ wire' = wire
  BY DEF Inbox!ResetInput, Inbox!Is
<1>2. Inbox!Range(host.buf) = Elements(host.buf) /\ Elements(host.buf) \subseteq 1 .. Arrivals
  <2>1. \A i \in 1 .. Len(host.buf) : host.buf[i] \in 1 .. Arrivals
    BY ElementOfSeq
  <2>2. QED  BY <2>1, RangeIs DEF Elements
<1>3. p \in SUBSET (1 .. Arrivals) /\ p = host.dropped \cup Elements(host.buf)
  BY <1>2
<1>4. <<>> \in Seq(1 .. Arrivals)
  BY EmptySeq
<1> HIDE DEF p
<1>5. host' \in InboxHosts
  BY <1>1, <1>3, <1>4 DEF InboxHosts
<1>6. /\ host'.kind = host.kind /\ host'.taken = host.taken /\ host'.buf = <<>>
      /\ host'.dropped = p /\ host'.called = host.called /\ host'.line = host.line /\ host'.partial
  BY <1>1 DEF InboxHosts
<1>7. Numbered(board, wire) /\ Right(host, d) /\ OneLine(host) /\ d \in Nat
  <2>1. Numbered(board, wire) /\ Right(host, d) /\ OneLine(host)
    BY DEF InboxInv, InboxSound
  <2>2. Len(wire.events) \in Nat
    BY LenProperties
  <2>3. QED  BY <2>1, <2>2 DEF Numbered
<1>8. Right(host', d)
  <2> DEFINE t == host.taken
             s == host.buf
  <2>1. t \in Seq(1 .. Arrivals) /\ s \in Seq(1 .. Arrivals) /\ host.taken = t /\ host.buf = s
        /\ host'.taken = t
    BY <1>6
  <2>2. host'.dropped = host.dropped \cup Elements(s)
    BY <1>3, <1>6
  <2> HIDE DEF t, s, d
  <2>3. QED  BY <1>1, <1>6, <1>7, <2>1, <2>2, RightReset
<1>9. OneLine(host') /\ Attended(host', board', wire')
  BY <1>1, <1>6, <1>7 DEF OneLine, Attended
<1>10. QED  BY <1>1, <1>5, <1>7, <1>8, <1>9 DEF InboxInv, InboxSound

\* A thread that is not in watch() or unwatch() leaves the pins alone.
LEMMA AttendedStill ==
  ASSUME InboxInv, NEW t \in Threads, host.call[t].op \notin {"watch", "pop"},
         host'.kind = host.kind, host'.cbs = host.cbs, board' = board, wire' = wire,
         \A u \in Threads \ {t} : host'.call[u] = host.call[u]
  PROVE  Attended(host', board', wire')
<1>1. Attended(host, board, wire)
  BY DEF InboxInv, InboxSound
<1>2. QED  BY <1>1 DEF Attended

\* The first n are handed out.
LEMMA InboxTaken ==
  ASSUME InboxInv, NEW n \in 0 .. Len(host.buf), NEW g, g = Inbox!Taking(host, n)
  PROVE  /\ g \in InboxHosts
         /\ g.kind = host.kind /\ g.taken \o g.buf = host.taken \o host.buf
         /\ g.dropped = host.dropped /\ g.called = host.called /\ g.partial = host.partial
         /\ g.line = host.line /\ g.cbs = host.cbs /\ g.call = host.call /\ g.empty = host.empty
         /\ n > 0 => g.taken[Len(g.taken)] = host.buf[n]
<1> DEFINE S == 1 .. Arrivals
           t == host.taken
           s == host.buf
           a == t \o SubSeq(s, 1, n)
           b == SubSeq(s, n + 1, Len(s))
<1>1. t \in Seq(S) /\ s \in Seq(S) /\ host \in InboxHosts /\ n \in 0 .. Len(s)
  BY InboxFields
<1>2. g = [host EXCEPT !.taken = a, !.buf = b]
  BY DEF Inbox!Taking
<1>3. a \in Seq(S) /\ b \in Seq(S) /\ a \o b = t \o s /\ (n > 0 => Final(a) = s[n])
  <2> HIDE DEF t, s, S
  <2>1. t \in Seq(S) /\ s \in Seq(S) /\ n \in 0 .. Len(s)
    BY <1>1
  <2>2. t \o SubSeq(s, 1, n) \in Seq(S)
    BY <2>1, HandOut
  <2>3. SubSeq(s, n + 1, Len(s)) \in Seq(S)
    BY <2>1, HandOut
  <2>4. (t \o SubSeq(s, 1, n)) \o SubSeq(s, n + 1, Len(s)) = t \o s
    BY <2>1, Rejoined
  <2>5. n > 0 => Final(t \o SubSeq(s, 1, n)) = s[n]
    <3>1. n \in Nat /\ n <= Len(s)
      <4>1. Len(s) \in Nat
        BY <2>1, LenProperties
      <4>2. QED  BY <2>1, <4>1
    <3>2. QED  BY <2>1, <3>1, LastHandedOut
  <2>6. QED  BY <2>2, <2>3, <2>4, <2>5
<1> HIDE DEF a, b
<1>4. g \in InboxHosts
  <2>1. \A h \in InboxHosts, v \in Seq(1 .. Arrivals), w \in Seq(1 .. Arrivals) :
          [h EXCEPT !.taken = v, !.buf = w] \in InboxHosts
    BY InboxTypes, Zenon
  <2>2. QED  BY <1>1, <1>2, <1>3, <2>1, Zenon
<1>5. /\ g.kind = host.kind /\ g.taken = a /\ g.buf = b
      /\ g.dropped = host.dropped /\ g.called = host.called /\ g.partial = host.partial
      /\ g.line = host.line /\ g.cbs = host.cbs /\ g.call = host.call /\ g.empty = host.empty
  BY <1>1, <1>2 DEF InboxHosts
<1>6. QED  BY <1>3, <1>4, <1>5 DEF Final

LEMMA InboxReading ==
  ASSUME InboxInv, NEW t \in Threads,
         \/ Inbox!Wait(t, "read") \/ Inbox!Wait(t, "line") \/ Inbox!Read(t) \/ Inbox!Recv(t)
         \/ Inbox!ReadTimeout(t) \/ Inbox!ReadUntil(t) \/ Inbox!LineTimeout(t)
  PROVE  InboxInv'
<1> USE InboxFields
<1>0. host.call[t] \in InboxCalls /\ Inbox!Idle \in InboxCalls /\ Inbox!Idle.op = "none"
  BY DEF Inbox!Idle, InboxCalls, InboxOps
<1>1. ASSUME NEW op \in {"read", "line"}, Inbox!Wait(t, op) PROVE InboxInv'
  <2> DEFINE c == [host.call[t] EXCEPT !.op = op]
  <2>1. host' = [host EXCEPT !.call[t] = c] /\ board' = board /\ wire' = wire
        /\ host.call[t] = Inbox!Idle
    BY <1>1 DEF Inbox!Wait, Inbox!Quiet, InboxHosts
  <2>2. c \in InboxCalls
    BY <1>0 DEF InboxCalls, InboxOps
  <2> HIDE DEF c
  <2>3. host' \in InboxHosts
    BY <2>1, <2>2, InboxTypes, Zenon
  <2>4. /\ host'.kind = host.kind /\ host'.taken = host.taken /\ host'.buf = host.buf
        /\ host'.dropped = host.dropped /\ host'.called = host.called /\ host'.line = host.line
        /\ host'.partial = host.partial /\ host'.cbs = host.cbs
        /\ host'.call = [host.call EXCEPT ![t] = c]
    BY <2>1 DEF InboxHosts
  <2>5. Attended(host', board', wire')
    BY <1>0, <2>1, <2>4, AttendedStill, ZenonT(60)
  <2>6. QED  BY <2>1, <2>3, <2>4, <2>5, InboxStill
<1>2. CASE Inbox!ReadTimeout(t)
  <2>1. host' = [host EXCEPT !.call[t] = Inbox!Idle] /\ board' = board /\ wire' = wire
        /\ host.call[t].op = "read"
    BY <1>2 DEF Inbox!ReadTimeout
  <2>2. host' \in InboxHosts
    BY <1>0, <2>1, InboxTypes, Zenon
  <2>3. /\ host'.kind = host.kind /\ host'.taken = host.taken /\ host'.buf = host.buf
        /\ host'.dropped = host.dropped /\ host'.called = host.called /\ host'.line = host.line
        /\ host'.partial = host.partial /\ host'.cbs = host.cbs
        /\ host'.call = [host.call EXCEPT ![t] = Inbox!Idle]
    BY <2>1 DEF InboxHosts
  <2>4. Attended(host', board', wire')
    BY <2>1, <2>3, AttendedStill
  <2>5. QED  BY <2>1, <2>2, <2>3, <2>4, InboxStill
<1>3. OneLine(host)
  BY DEF InboxInv, InboxSound
<1>4. CASE Inbox!Read(t)
  <2>1. PICK n \in {1, Len(host.buf)} :
          /\ n <= Len(host.buf)
          /\ host' = [Inbox!Taking(host, n) EXCEPT !.call[t] = Inbox!Idle, !.partial = TRUE,
                                                   !.empty = @ \/ n = 0]
    BY <1>4 DEF Inbox!Read
  <2>2. board' = board /\ wire' = wire /\ host.kind = "uart" /\ n \in 0 .. Len(host.buf)
    <3>1. Len(host.buf) \in Nat
      BY LenProperties
    <3>2. QED  BY <1>4, <2>1, <3>1 DEF Inbox!Read, Inbox!Is
  <2> DEFINE g == Inbox!Taking(host, n)
             z == host.empty \/ n = 0
  <2>3. /\ g \in InboxHosts
        /\ g.kind = host.kind /\ g.taken \o g.buf = host.taken \o host.buf
        /\ g.dropped = host.dropped /\ g.called = host.called /\ g.line = host.line
        /\ g.cbs = host.cbs /\ g.call = host.call /\ g.empty = host.empty
    BY <2>2, InboxTaken
  <2> HIDE DEF g
  <2>4. host' = [g EXCEPT !.call[t] = Inbox!Idle, !.partial = TRUE, !.empty = z]
    BY <2>1, <2>3 DEF g
  <2>5. z \in BOOLEAN
    OBVIOUS
  <2> HIDE DEF z
  <2>6. host' \in InboxHosts
    BY <1>0, <2>3, <2>4, <2>5 DEF InboxHosts
  <2>7. /\ host'.kind = host.kind /\ host'.taken = g.taken /\ host'.buf = g.buf
        /\ host'.dropped = host.dropped /\ host'.called = host.called /\ host'.line = host.line
        /\ host'.partial /\ host'.cbs = host.cbs /\ host'.call = [host.call EXCEPT ![t] = Inbox!Idle]
    BY <2>3, <2>4 DEF InboxHosts
  <2>8. OneLine(host') /\ Attended(host', board, wire)
    BY <1>3, <2>2, <2>7 DEF OneLine, Attended
  <2>9. host'.taken \o host'.buf = host.taken \o host.buf
    BY <2>3, <2>7
  <2>10. QED  BY <2>2, <2>6, <2>7, <2>8, <2>9, InboxRead
<1>5. CASE Inbox!Recv(t)
  <2> DEFINE g == Inbox!Taking(host, 1)
  <2>1. host' = [g EXCEPT !.call[t] = Inbox!Idle] /\ board' = board /\ wire' = wire
        /\ host.kind \in {"can", "espnow"} /\ host.buf # <<>>
    BY <1>5 DEF Inbox!Recv, Inbox!Is
  <2>2. 1 \in 0 .. Len(host.buf)
    <3>1. Len(host.buf) \in Nat \ {0}
      BY <2>1, EmptySeq
    <3>2. QED  BY <3>1
  <2>3. /\ g \in InboxHosts
        /\ g.kind = host.kind /\ g.taken \o g.buf = host.taken \o host.buf
        /\ g.dropped = host.dropped /\ g.called = host.called /\ g.line = host.line
        /\ g.cbs = host.cbs /\ g.partial = host.partial
    BY <2>2, InboxTaken
  <2> HIDE DEF g
  <2>4. host' \in InboxHosts
    BY <1>0, <2>1, <2>3, InboxTypes, Zenon
  <2>5. /\ host'.kind = host.kind /\ host'.taken = g.taken /\ host'.buf = g.buf
        /\ host'.dropped = host.dropped /\ host'.called = host.called /\ host'.line = host.line
        /\ host'.partial = host.partial
    BY <2>1, <2>3 DEF InboxHosts
  <2>6. OneLine(host') /\ Attended(host', board, wire)
    BY <1>3, <2>1, <2>5 DEF OneLine, Attended
  <2>7. host'.taken \o host'.buf = host.taken \o host.buf /\ host'.kind # "uart"
    BY <2>1, <2>3, <2>5
  <2>8. QED  BY <2>1, <2>4, <2>5, <2>6, <2>7, InboxRead
<1>6. CASE Inbox!LineTimeout(t)
  <2> DEFINE n == Len(host.buf)
             g == Inbox!Taking(host, n)
  <2>1. /\ host' = [g EXCEPT !.call[t] = Inbox!Idle, !.partial = TRUE] /\ board' = board /\ wire' = wire
        /\ host.call[t].op = "line"
    BY <1>6 DEF Inbox!LineTimeout
  <2>2. n \in 0 .. Len(host.buf)
    <3>1. Len(host.buf) \in Nat
      BY LenProperties
    <3>2. QED  BY <3>1
  <2>3. /\ g \in InboxHosts
        /\ g.kind = host.kind /\ g.taken \o g.buf = host.taken \o host.buf
        /\ g.dropped = host.dropped /\ g.called = host.called /\ g.line = host.line
        /\ g.cbs = host.cbs /\ g.call = host.call
    BY <2>2, InboxTaken
  <2> HIDE DEF g, n
  <2>4. host' \in InboxHosts
    BY <1>0, <2>1, <2>3 DEF InboxHosts
  <2>5. /\ host'.kind = host.kind /\ host'.taken = g.taken /\ host'.buf = g.buf
        /\ host'.dropped = host.dropped /\ host'.called = host.called /\ host'.line = host.line
        /\ host'.partial /\ host'.cbs = host.cbs /\ host'.call = [host.call EXCEPT ![t] = Inbox!Idle]
    BY <2>1, <2>3 DEF InboxHosts
  <2>6. OneLine(host')
    BY <1>3, <2>1, <2>5 DEF OneLine
  <2>7. Attended(host', board', wire')
    BY <2>1, <2>5, AttendedStill
  <2>8. host'.taken \o host'.buf = host.taken \o host.buf
    BY <2>3, <2>5
  <2>9. QED  BY <2>1, <2>4, <2>5, <2>6, <2>7, <2>8, InboxRead
<1>7. CASE Inbox!ReadUntil(t)
  <2> DEFINE n == Inbox!LineEnd
             g == Inbox!Taking(host, n)
             x == SubSeq(host.buf, 1, n)
             S == 1 .. Arrivals
  <2>1. /\ host' = [g EXCEPT !.call[t] = Inbox!Idle, !.line = x] /\ board' = board /\ wire' = wire
        /\ host.kind = "uart" /\ Inbox!Range(host.buf) \cap Newlines # {}
    BY <1>7 DEF Inbox!ReadUntil, Inbox!Is
  <2>2. /\ n \in 1 .. Len(host.buf) /\ host.buf[n] \in Newlines
        /\ \A j \in 1 .. (n - 1) : host.buf[j] \notin Newlines
    <3>1. \E i \in DOMAIN host.buf : host.buf[i] \in Newlines /\ \A j \in 1 .. (i - 1) : host.buf[j] \notin Newlines
      <4> HIDE DEF S
      <4>1. host.buf \in Seq(S)
        BY DEF S
      <4>2. \E i \in 1 .. Len(host.buf) : host.buf[i] \in Newlines /\ \A j \in 1 .. (i - 1) : host.buf[j] \notin Newlines
        <5>1. PICK k \in 1 .. Len(host.buf) : host.buf[k] \in Newlines
          BY <2>1, <4>1, RangeIs DEF Elements
        <5>2. QED  BY <4>1, <5>1, FirstSeparator, ZenonT(60)
      <4>3. DOMAIN host.buf = 1 .. Len(host.buf)
        BY <4>1, RangeIs
      <4>4. QED  BY <4>2, <4>3
    <3>2. /\ n \in DOMAIN host.buf /\ host.buf[n] \in Newlines
          /\ \A j \in 1 .. (n - 1) : host.buf[j] \notin Newlines
      BY <3>1 DEF Inbox!LineEnd
    <3>3. QED  BY <3>2, RangeIs
  <2> HIDE DEF n
  <2>3. n \in 0 .. Len(host.buf) /\ n \in Nat /\ n > 0
    <3>1. Len(host.buf) \in Nat
      BY LenProperties
    <3>2. QED  BY <2>2, <3>1
  <2>4. /\ g \in InboxHosts
        /\ g.kind = host.kind /\ g.taken \o g.buf = host.taken \o host.buf
        /\ g.dropped = host.dropped /\ g.called = host.called
        /\ g.cbs = host.cbs /\ g.partial = host.partial
        /\ g.taken[Len(g.taken)] = host.buf[n]
    BY <2>3, InboxTaken
  <2>5. x \in Seq(S) /\ Len(x) = n /\ \A i \in 1 .. n : x[i] = host.buf[i]
    <3> HIDE DEF S
    <3>1. host.buf \in Seq(S) /\ host.taken \in Seq(S)
      BY DEF S
    <3>2. QED  BY <2>3, <3>1, HandOut
  <2> HIDE DEF g, x
  <2>6. host' \in InboxHosts
    <3>1. [g EXCEPT !.line = x] \in InboxHosts
      BY <2>4, <2>5, InboxTypes, Zenon
    <3>2. host' = [[g EXCEPT !.line = x] EXCEPT !.call[t] = Inbox!Idle]
      BY <2>1, <2>4 DEF InboxHosts
    <3>3. QED  BY <1>0, <3>1, <3>2, InboxTypes, Zenon
  <2>7. /\ host'.kind = host.kind /\ host'.taken = g.taken /\ host'.buf = g.buf
        /\ host'.dropped = host.dropped /\ host'.called = host.called /\ host'.line = x
        /\ host'.partial = host.partial
    BY <2>1, <2>4 DEF InboxHosts
  <2>8. Attended(host', board, wire)
    BY <2>1, <2>7 DEF Attended
  <2>9. OneLine(host')
    <3>1. x[n] \in Newlines /\ \A i \in 1 .. (n - 1) : x[i] \notin Newlines
      <4>1. n \in 1 .. n /\ \A i \in 1 .. (n - 1) : i \in 1 .. n
        BY <2>3
      <4>2. QED  BY <2>2, <2>5, <4>1
    <3>2. ASSUME ~host.partial PROVE x[1] = 1 \/ x[1] - 1 \in Newlines
      <4> DEFINE a == host.taken
                 s == host.buf
                 m == Len(a)
                 d == board.last - Len(wire.events)
      <4>1. Whole(host, d)
        BY <2>1, <3>2 DEF InboxInv, InboxSound, Right
      <4>2. /\ Len(a \o s) = d /\ (\A i \in 1 .. d : (a \o s)[i] = i)
            /\ (a # <<>> => a[m] \in Newlines)
        BY <4>1 DEF Whole
      <4>3. /\ Len(a \o s) = m + Len(s) /\ m \in Nat /\ Len(s) \in Nat
            /\ \A i \in 1 .. m : (a \o s)[i] = a[i]
            /\ \A i \in 1 .. Len(s) : (a \o s)[m + i] = s[i]
        <5>1. a \in Seq(1 .. Arrivals) /\ s \in Seq(1 .. Arrivals)
          OBVIOUS
        <5> HIDE DEF a, s
        <5>2. QED  BY <5>1, Joined
      <4>4. a = <<>> \/ m > 0
        BY EmptySeq
      <4>5. x[1] = s[1]
        <5>1. 1 \in 1 .. n
          BY <2>3
        <5>2. QED  BY <2>5, <5>1
      <4> DEFINE y == a \o s
                 k == Len(s)
      <4>6. /\ m \in Nat /\ k \in Nat /\ d = m + k /\ k > 0
            /\ \A i \in 1 .. d : y[i] = i
            /\ \A i \in 1 .. m : y[i] = a[i]
            /\ y[m + 1] = s[1]
        <5>1. k \in Nat /\ k > 0 /\ 1 \in 1 .. k
          BY <2>2, <2>3, <4>3
        <5>2. y[m + 1] = s[1]
          BY <4>3, <5>1
        <5>3. QED  BY <4>2, <4>3, <5>1, <5>2
      <4>7. m = 0 \/ (m > 0 /\ a[m] \in Newlines)
        BY <4>2, <4>3, <4>4, EmptySeq
      <4> HIDE DEF a, s, m, d, y, k
      <4>8. m + 1 \in 1 .. d /\ m + 1 - 1 = m
        BY <4>6
      <4>9. x[1] = m + 1
        BY <4>5, <4>6, <4>8
      <4>10. CASE m = 0
        BY <4>9, <4>10
      <4>11. CASE m > 0 /\ a[m] \in Newlines
        <5>1. m \in 1 .. m /\ m \in 1 .. d
          BY <4>6, <4>11
        <5>2. a[m] = m
          BY <4>6, <5>1
        <5>3. m \in Newlines
          BY <4>11, <5>2
        <5>4. x[1] - 1 = m
          <6> DEFINE v == x[1]
          <6>1. v = m + 1 /\ m \in Nat
            BY <4>6, <4>9
          <6> HIDE DEF v
          <6>2. v - 1 = m
            BY <6>1
          <6>3. QED  BY <6>2 DEF v
        <5>5. QED  BY <5>3, <5>4
      <4>12. QED  BY <4>7, <4>10, <4>11
    <3>3. QED  BY <2>5, <2>7, <3>1, <3>2 DEF OneLine
  <2>10. host'.taken \o host'.buf = host.taken \o host.buf /\ host'.taken[Len(host'.taken)] \in Newlines
    BY <2>2, <2>4, <2>7
  <2>11. QED  BY <2>1, <2>6, <2>7, <2>8, <2>9, <2>10, InboxRead
<1>8. QED  BY <1>1, <1>2, <1>4, <1>5, <1>6, <1>7

\* Gpio.watch() and Gpio.unwatch() change the calls and the callbacks only.
LEMMA InboxWatching ==
  ASSUME InboxInv, NEW t \in Threads,
         \/ Inbox!WatchCall(t) \/ Inbox!WatchRequest(t)
         \/ Inbox!UnwatchCall(t) \/ Inbox!UnwatchRequest(t) \/ Inbox!Pop(t)
  PROVE  InboxInv'
<1> USE InboxFields
<1> DEFINE Kept7(h) ==
             /\ h.kind = host.kind /\ h.taken = host.taken /\ h.buf = host.buf
             /\ h.dropped = host.dropped /\ h.called = host.called /\ h.line = host.line
             /\ h.partial = host.partial
<1>0. Attended(host, board, wire)
  BY DEF InboxInv, InboxSound
<1>1. host.call[t] \in InboxCalls /\ Inbox!Idle \in InboxCalls
  BY DEF Inbox!Idle, InboxCalls, InboxOps
<1>2. ASSUME NEW op \in {"watch", "unwatch"}
      PROVE  /\ Inbox!Start(t, host, op) \in InboxHosts /\ Kept7(Inbox!Start(t, host, op))
             /\ Inbox!Start(t, host, op).cbs = host.cbs
             /\ Inbox!Start(t, host, op).call[t].op = op
  <2> DEFINE z == Inbox!Busy # {}
             y(u) == host.call[u].overlap \/ ~Inbox!Quiet(u)
             c == [u \in Threads |->
                     IF u = t THEN [Inbox!Idle EXCEPT !.op = op, !.overlap = z]
                     ELSE [host.call[u] EXCEPT !.overlap = y(u)]]
  <2>1. Inbox!Start(t, host, op) = [host EXCEPT !.call = c]
    BY DEF Inbox!Start, InboxCalls
  <2>2. z \in BOOLEAN /\ \A u \in Threads : y(u) \in BOOLEAN
    BY DEF InboxCalls
  <2> HIDE DEF z, y
  <2>3. c \in [Threads -> InboxCalls] /\ c[t].op = op
    <3>1. [Inbox!Idle EXCEPT !.op = op, !.overlap = z] \in InboxCalls
      BY <2>2 DEF Inbox!Idle, InboxCalls, InboxOps
    <3>2. \A u \in Threads : [host.call[u] EXCEPT !.overlap = y(u)] \in InboxCalls
      BY <2>2, Zenon DEF InboxCalls
    <3>3. [Inbox!Idle EXCEPT !.op = op, !.overlap = z].op = op
      BY DEF Inbox!Idle
    <3>4. QED  BY <3>1, <3>2, <3>3
  <2> HIDE DEF c
  <2>4. [host EXCEPT !.call = c] \in InboxHosts
    BY <2>3, InboxTypes, Zenon
  <2>5. QED  BY <2>1, <2>3, <2>4 DEF InboxHosts
<1>3. CASE Inbox!WatchCall(t)
  <2> DEFINE h == Inbox!Start(t, host, "watch")
  <2>1. host' = [h EXCEPT !.cbs = h.cbs \cup {t}] /\ board' = board /\ wire' = wire
    BY <1>3 DEF Inbox!WatchCall
  <2>2. h \in InboxHosts /\ Kept7(h) /\ h.cbs \in SUBSET Threads /\ h.call[t].op = "watch"
    BY <1>2
  <2> HIDE DEF h
  <2>3. h.cbs \cup {t} \in SUBSET Threads
    BY <2>2
  <2>4. host' \in InboxHosts
    BY <2>1, <2>2, <2>3, InboxTypes, Zenon
  <2>5. Kept7(host') /\ host'.call = h.call
    BY <2>1, <2>2 DEF InboxHosts
  <2>6. Attended(host', board', wire')
    BY <2>2, <2>5 DEF Attended
  <2>7. QED  BY <2>1, <2>4, <2>5, <2>6, InboxStill
<1>4. CASE Inbox!UnwatchCall(t)
  <2>1. host' = Inbox!Start(t, host, "unwatch") /\ board' = board /\ wire' = wire /\ board.open
    BY <1>4 DEF Inbox!UnwatchCall
  <2>2. host' \in InboxHosts /\ Kept7(host')
    BY <1>2, <2>1
  <2>3. Attended(host', board', wire')
    BY <2>1 DEF Attended
  <2>4. QED  BY <2>1, <2>2, <2>3, InboxStill
<1>5. CASE Inbox!WatchRequest(t)
  <2>1. \/ /\ board' = [board EXCEPT !.open = TRUE] /\ wire' = wire
           /\ host' = [host EXCEPT !.call[t] = Inbox!Idle, !.due = host.due \cup {t}]
        \/ /\ board' = board /\ wire.faults > 0 /\ wire' = [wire EXCEPT !.faults = wire.faults - 1]
           /\ host' = [host EXCEPT !.call[t] = Inbox!Idle]
    BY <1>5 DEF Inbox!WatchRequest, Inbox!Refused
  <2>2. CASE /\ board' = [board EXCEPT !.open = TRUE] /\ wire' = wire
             /\ host' = [host EXCEPT !.call[t] = Inbox!Idle, !.due = host.due \cup {t}]
    <3>1. board' \in InboxBoards /\ board'.last = board.last /\ board'.open = TRUE
      BY <2>2 DEF InboxBoards
    <3>2. host.due \cup {t} \in SUBSET Threads
      OBVIOUS
    <3>3. host' \in InboxHosts
      BY <1>1, <2>2, <3>2 DEF InboxHosts
    <3>4. Kept7(host')
      BY <2>2 DEF InboxHosts
    <3>5. Attended(host', board', wire')
      BY <3>1 DEF Attended
    <3>6. wire' \in InboxWires /\ wire'.events = wire.events
      BY <2>2
    <3>7. QED  BY <3>1, <3>3, <3>4, <3>5, <3>6, InboxStill
  <2>3. CASE /\ board' = board /\ wire.faults > 0 /\ wire' = [wire EXCEPT !.faults = wire.faults - 1]
             /\ host' = [host EXCEPT !.call[t] = Inbox!Idle]
    <3>1. wire.faults - 1 \in 0 .. Faults /\ wire.faults - 1 # Faults
      BY <2>3, InboxNat, SMTT(60)
    <3>2. wire' \in InboxWires /\ wire'.events = wire.events /\ wire'.faults # Faults
      BY <2>3, <3>1 DEF InboxWires
    <3>3. host' \in InboxHosts
      BY <1>1, <2>3, InboxTypes, Zenon
    <3>4. Kept7(host')
      BY <2>3 DEF InboxHosts
    <3>5. Attended(host', board', wire')
      BY <3>2 DEF Attended
    <3>6. board' \in InboxBoards /\ board'.last = board.last
      BY <2>3
    <3>7. QED  BY <3>2, <3>3, <3>4, <3>5, <3>6, InboxStill
  <2>4. QED  BY <2>1, <2>2, <2>3
<1>6. CASE Inbox!UnwatchRequest(t)
  <2> DEFINE c == [host.call[t] EXCEPT !.op = "pop"]
  <2>1. /\ board' = [board EXCEPT !.open = FALSE] /\ wire' = wire
        /\ host' = [host EXCEPT !.call[t] = c]
    BY <1>6 DEF Inbox!UnwatchRequest, InboxHosts
  <2>2. c \in InboxCalls /\ c.op = "pop"
    BY <1>1 DEF InboxCalls, InboxOps
  <2> HIDE DEF c
  <2>3. board' \in InboxBoards /\ board'.last = board.last
    BY <2>1 DEF InboxBoards
  <2>4. host' \in InboxHosts
    BY <2>1, <2>2, InboxTypes, Zenon
  <2>5. Kept7(host') /\ host'.call[t] = c
    BY <2>1 DEF InboxHosts
  <2>6. Attended(host', board', wire')
    BY <2>2, <2>5 DEF Attended
  <2>7. QED  BY <2>1, <2>3, <2>4, <2>5, <2>6, InboxStill
<1>7. CASE Inbox!Pop(t)
  <2> DEFINE c == IF host.call[t].overlap THEN host.due ELSE {}
  <2>1. /\ host' = [host EXCEPT !.call[t] = Inbox!Idle, !.cbs = {}, !.due = c]
        /\ board' = board /\ wire' = wire
    BY <1>7 DEF Inbox!Pop
  <2>2. c \in SUBSET Threads /\ {} \in SUBSET Threads
    OBVIOUS
  <2> HIDE DEF c
  <2>3. host' \in InboxHosts
    BY <1>1, <2>1, <2>2 DEF InboxHosts
  <2>4. Kept7(host') /\ host'.cbs = {}
    BY <2>1 DEF InboxHosts
  <2>5. Attended(host', board', wire')
    BY <2>4 DEF Attended
  <2>6. QED  BY <2>1, <2>3, <2>4, <2>5, InboxStill
<1>8. QED  BY <1>3, <1>4, <1>5, <1>6, <1>7

LEMMA InboxStep ==
  ASSUME InboxInv, Inbox!Next
  PROVE  InboxInv'
<1>1. CASE \/ Inbox!Open \/ Inbox!Close \/ Inbox!Arrive \/ \E t \in Threads : Inbox!OnRx(t)
  BY <1>1, InboxPort
<1>2. CASE Inbox!Deliver
  BY <1>2, InboxDeliver
<1>3. CASE Inbox!ResetInput
  BY <1>3, InboxReset
<1>4. ASSUME NEW t \in Threads,
             \/ Inbox!Wait(t, "read") \/ Inbox!Wait(t, "line") \/ Inbox!Read(t) \/ Inbox!Recv(t)
             \/ Inbox!ReadTimeout(t) \/ Inbox!ReadUntil(t) \/ Inbox!LineTimeout(t)
      PROVE  InboxInv'
  BY <1>4, InboxReading
<1>5. ASSUME NEW t \in Threads,
             \/ Inbox!WatchCall(t) \/ Inbox!WatchRequest(t)
             \/ Inbox!UnwatchCall(t) \/ Inbox!UnwatchRequest(t) \/ Inbox!Pop(t)
      PROVE  InboxInv'
  BY <1>5, InboxWatching
<1>6. QED  BY <1>1, <1>2, <1>3, <1>4, <1>5 DEF Inbox!Next

-----------------------------------------------------------------------------
(* The BLE central *)

ScanOps == {"start", "starting", "collect", "stopping"}
ClientOps == {"connect", "subscribe", "unsubscribe", "disconnect"}
Awaiting == {"starting", "stopping"} \cup ClientOps
BleAdvs == [kind : {"adv"}, addr : Addresses, rssi : {1, 2}, named : BOOLEAN, of : Nat]
BleNotes == [kind : {"notify"}, char : Ble!Chars, from : Peers]
BleReplies == [kind : {"reply"}, to : Threads]
BleEvents == BleAdvs \cup BleNotes \cup BleReplies \cup [kind : {"central"}, on : BOOLEAN]
BleCalls ==
  [op : {"none"} \cup ScanOps \cup ClientOps, peer : Peers \cup {Ble!Nobody}, client : Nat,
   char : Ble!Chars, of : Nat, taken : SUBSET BleAdvs, seen : SUBSET BleAdvs, alone : BOOLEAN]
BleClients == [peer : Peers, connected : BOOLEAN]
BleCallbacks == [client : Nat, char : Ble!Chars]
BleHosts ==
  [part : {"scan", "client", "server"}, advs : Seq(BleAdvs), call : [Threads -> BleCalls],
   clients : Seq(BleClients), callback : [Ble!Chars -> BleCallbacks],
   got : SUBSET (BleCallbacks \X Ble!Chars \X Peers), stale : BOOLEAN, central : BOOLEAN,
   streams : SUBSET Threads]
BleBoards ==
  [scanning : BOOLEAN, scans : Nat, peer : Peers \cup {Ble!Nobody}, on : SUBSET Ble!Chars,
   central : BOOLEAN, shared : BOOLEAN]
BleWires == [events : Seq(BleEvents), items : 0 .. Adverts, calls : 0 .. Tries, faults : 0 .. Faults]

\* Who waits for a reply has at most one on its way, and nobody else has.
Awaited(call, es) ==
  \A i \in 1 .. Len(es) : es[i].kind = "reply" =>
    /\ es[i].to \in Threads /\ call[es[i].to].op \in Awaiting
    /\ \A j \in 1 .. Len(es) : es[j].kind = "reply" /\ es[j].to = es[i].to => j = i

BleShape(h, b, w) ==
  /\ h \in BleHosts /\ b \in BleBoards /\ w \in BleWires
  /\ Awaited(h.call, w.events)

\* The scanner of the board is on, or its advertisements are on their way, for somebody.
ForSomebody(call, es, scanning) ==
  /\ scanning => \E t \in Threads : call[t].op \in {"starting", "collect"}
  /\ \A i \in 1 .. Len(es) : es[i].kind = "adv" =>
       \E t \in Threads :
         \/ call[t].op \in {"starting", "collect"}
         \/ /\ call[t].op = "stopping"
            /\ \E j \in 1 .. Len(es) : i < j /\ es[j].kind = "reply" /\ es[j].to = t

\* What a scan has taken, all of it its own, an entry for every device.
Gathered(c) ==
  /\ \A adv \in c.taken \cup c.seen : adv.of = c.of
  /\ {adv.addr : adv \in c.taken} = {adv.addr : adv \in c.seen}
  /\ \A a, b \in c.seen : a.addr = b.addr => a = b
  /\ c.op = "start" => c.taken = {} /\ c.seen = {}

\* A scan that nobody else's overlaps.
Alone(call, t, advs, es, scans) ==
  /\ Gathered(call[t])
  /\ call[t].op \in ScanOps => \A u \in Threads : call[u].op \in ScanOps => u = t
  /\ call[t].op = "start" => advs = <<>>
  /\ call[t].op \in {"starting", "collect", "stopping"} =>
       /\ call[t].of = scans
       /\ \A i \in 1 .. Len(advs) : advs[i].of = scans
       /\ \A i \in 1 .. Len(es) : es[i].kind = "adv" => es[i].of = scans

Scanned(h, b, w) ==
  w.faults = Faults =>
    /\ ForSomebody(h.call, w.events, b.scanning)
    /\ \A t \in Threads : h.call[t].alone => Alone(h.call, t, h.advs, w.events, b.scans)

NoScan(h, b, w) ==
  /\ \A t \in Threads : h.call[t].op \notin ScanOps /\ h.call[t].taken = {} /\ h.call[t].seen = {}
  /\ ~b.scanning
  /\ \A i \in 1 .. Len(w.events) : w.events[i].kind # "adv"

\* The peripheral of a callback's client.
CalledFor(h, cb) == h.clients[cb.client].peer
Newest(h) == h.clients[Len(h.clients)].peer
Connecting(h, t) == h.call[t].op = "connect"

\* Notifications are switched on for the newest client's peripheral, while nobody connects.
SwitchedOn(h, b) ==
  /\ b.peer = Ble!Nobody => b.on = {}
  /\ b.on # {} /\ ~h.stale =>
       /\ Len(h.clients) > 0 /\ b.peer = Newest(h) /\ \A t \in Threads : ~Connecting(h, t)
       /\ \A ch \in b.on : h.callback[ch] # Ble!None => CalledFor(h, h.callback[ch]) = b.peer

\* Those on their way are the newest client's, before anything of the next.
Notified(h, es) ==
  \A i \in 1 .. Len(es) : es[i].kind = "notify" =>
    /\ Len(h.clients) > 0 /\ es[i].from = Newest(h)
    /\ h.callback[es[i].char] # Ble!None => CalledFor(h, h.callback[es[i].char]) = es[i].from
    /\ \A j \in 1 .. Len(es) : es[j].kind = "reply" /\ Connecting(h, es[j].to) => i < j

Called(h) ==
  /\ \A ch \in Ble!Chars : h.callback[ch] # Ble!None =>
       h.callback[ch].char = ch /\ h.callback[ch].client \in 1 .. Len(h.clients)
  /\ \A n \in h.got : /\ n[1].client \in 1 .. Len(h.clients)
                      /\ n[1].char = n[2] /\ CalledFor(h, n[1]) = n[3]

Connected(h, b, w) ==
  /\ \A t \in Threads : Connecting(h, t) => h.call[t].peer \in Peers
  /\ SwitchedOn(h, b)
  /\ ~h.stale => Notified(h, w.events) /\ Called(h)

NoClient(h, b, w) ==
  /\ \A t \in Threads : h.call[t].op \notin ClientOps
  /\ b.peer = Ble!Nobody /\ h.got = {}
  /\ \A i \in 1 .. Len(w.events) : w.events[i].kind # "notify"

BleSound(h, b, w) ==
  /\ BleShape(h, b, w)
  /\ IF h.part = "scan" THEN Scanned(h, b, w) ELSE NoScan(h, b, w)
  /\ IF h.part = "client" THEN Connected(h, b, w) ELSE NoClient(h, b, w)
BleInv == BleSound(host, board, wire)

LEMMA BleConstants ==
  /\ Adverts \in Nat /\ Tries \in Nat /\ Faults \in Nat /\ Depth \in Nat
  /\ Ble!Nobody \notin Peers /\ Ble!Nobody = 0
  BY PeripheralAssumption, PartsAssumption DEF Ble!Nobody

LEMMA BleFields ==
  ASSUME BleInv
  PROVE  /\ host \in BleHosts /\ board \in BleBoards /\ wire \in BleWires
         /\ host.part \in {"scan", "client", "server"} /\ host.advs \in Seq(BleAdvs)
         /\ host.call \in [Threads -> BleCalls] /\ host.clients \in Seq(BleClients)
         /\ host.callback \in [Ble!Chars -> BleCallbacks]
         /\ host.got \in SUBSET (BleCallbacks \X Ble!Chars \X Peers)
         /\ host.stale \in BOOLEAN /\ host.central \in BOOLEAN /\ host.streams \in SUBSET Threads
         /\ board.scanning \in BOOLEAN /\ board.scans \in Nat
         /\ board.peer \in Peers \cup {Ble!Nobody} /\ board.on \in SUBSET Ble!Chars
         /\ board.central \in BOOLEAN /\ board.shared \in BOOLEAN
         /\ wire.events \in Seq(BleEvents) /\ wire.items \in 0 .. Adverts
         /\ wire.calls \in 0 .. Tries /\ wire.faults \in 0 .. Faults
         /\ Awaited(host.call, wire.events)
  BY DEF BleInv, BleSound, BleShape, BleHosts, BleBoards, BleWires

LEMMA BleMeans == BleInv => Ble!ScanIsOwn /\ Ble!NotifyIsOwn
<1> SUFFICES ASSUME BleInv PROVE Ble!ScanIsOwn /\ Ble!NotifyIsOwn
  OBVIOUS
<1>1. Ble!ScanIsOwn
  <2> SUFFICES ASSUME NEW t \in Threads, host.call[t].alone, wire.faults = Faults
               PROVE  /\ \A adv \in host.call[t].seen : adv.of = host.call[t].of
                      /\ {adv.addr : adv \in host.call[t].taken} = {adv.addr : adv \in host.call[t].seen}
                      /\ \A a, b \in host.call[t].seen : a.addr = b.addr => a = b
    BY DEF Ble!ScanIsOwn
  <2>1. CASE host.part = "scan"
    <3>1. Gathered(host.call[t])
      BY <2>1 DEF BleInv, BleSound, Scanned, Alone
    <3>2. QED  BY <3>1 DEF Gathered
  <2>2. CASE host.part # "scan"
    <3>1. host.call[t].taken = {} /\ host.call[t].seen = {}
      BY <2>2 DEF BleInv, BleSound, NoScan
    <3>2. QED  BY <3>1
  <2>3. QED  BY <2>1, <2>2
<1>2. Ble!NotifyIsOwn
  <2> SUFFICES ASSUME ~host.stale, NEW n \in host.got
               PROVE  n[1].char = n[2] /\ host.clients[n[1].client].peer = n[3]
    BY DEF Ble!NotifyIsOwn
  <2>1. host.part = "client"
    BY DEF BleInv, BleSound, NoClient
  <2>2. QED  BY <2>1 DEF BleInv, BleSound, Connected, Called, CalledFor
<1>3. QED  BY <1>1, <1>2

LEMMA BleInit == Ble!Init => BleInv
<1> SUFFICES ASSUME Ble!Init PROVE BleInv
  OBVIOUS
<1>1. PICK p \in {"scan", "client", "server"} :
        host = [part |-> p, advs |-> <<>>, call |-> [t \in Threads |-> Ble!Idle],
               clients |-> <<>>, callback |-> [c \in Ble!Chars |-> Ble!None], got |-> {}, stale |-> FALSE,
               central |-> FALSE, streams |-> {}]
  BY DEF Ble!Init
<1>2. PICK s \in BOOLEAN :
        board = [scanning |-> FALSE, scans |-> 0, peer |-> Ble!Nobody, on |-> {},
                central |-> FALSE, shared |-> s]
  BY DEF Ble!Init
<1>3. wire = [events |-> <<>>, items |-> Adverts, calls |-> Tries, faults |-> Faults]
  BY DEF Ble!Init
<1>4. /\ <<>> \in Seq(BleAdvs) /\ <<>> \in Seq(BleClients) /\ <<>> \in Seq(BleEvents)
      /\ Len(<<>>) = 0
  BY EmptySeq
<1>5. Ble!Idle \in BleCalls /\ Ble!None \in BleCallbacks
  BY DEF Ble!Idle, Ble!None, BleCalls, BleCallbacks, Ble!Chars
<1>6. host \in BleHosts
  <2>1. [t \in Threads |-> Ble!Idle] \in [Threads -> BleCalls]
        /\ [c \in Ble!Chars |-> Ble!None] \in [Ble!Chars -> BleCallbacks]
    BY <1>5
  <2>2. QED  BY <1>1, <1>4, <2>1 DEF BleHosts
<1>7. board \in BleBoards /\ wire \in BleWires
  BY <1>2, <1>3, <1>4, BleConstants DEF BleBoards, BleWires
<1>8. /\ Len(wire.events) = 0 /\ Len(host.clients) = 0
      /\ \A i \in 1 .. Len(wire.events) : FALSE
  BY <1>1, <1>3, <1>4
<1>9. \A t \in Threads : host.call[t] = Ble!Idle
  BY <1>1, Zenon
<1>10. BleShape(host, board, wire)
  BY <1>6, <1>7, <1>8 DEF BleShape, Awaited
<1>11. \A t \in Threads :
         /\ host.call[t].op = "none" /\ host.call[t].taken = {} /\ host.call[t].seen = {}
  <2>1. Ble!Idle.op = "none" /\ Ble!Idle.taken = {} /\ Ble!Idle.seen = {}
    BY DEF Ble!Idle
  <2>2. QED  BY <1>9, <2>1, Zenon
<1>12. Scanned(host, board, wire)
  <2>1. ~board.scanning
    BY <1>2
  <2>2. QED  BY <1>8, <1>11, <2>1 DEF Scanned, ForSomebody, Alone, Gathered, ScanOps
<1>13. NoScan(host, board, wire)
  BY <1>2, <1>8, <1>11 DEF NoScan, ScanOps
<1>14. board.on = {} /\ board.peer = Ble!Nobody /\ host.got = {}
       /\ \A ch \in Ble!Chars : host.callback[ch] = Ble!None
  BY <1>1, <1>2
<1>15. Connected(host, board, wire)
  BY <1>8, <1>11, <1>14 DEF Connected, SwitchedOn, Notified, Called, Connecting
<1>16. NoClient(host, board, wire)
  BY <1>8, <1>11, <1>14 DEF NoClient, ClientOps
<1>17. QED  BY <1>10, <1>12, <1>13, <1>15, <1>16 DEF BleInv, BleSound

-----------------------------------------------------------------------------
(* Events *)

\* An event more, and the first one less.
Grown(es, x, e) ==
  Len(x) = Len(es) + 1 /\ x[Len(es) + 1] = e /\ \A i \in 1 .. Len(es) : x[i] = es[i]
Shrunk(es, x) ==
  Len(es) = Len(x) + 1 /\ \A i \in 1 .. Len(x) : x[i] = es[i + 1]

LEMMA GrownBy ==
  ASSUME NEW S, NEW es \in Seq(S), NEW e \in S
  PROVE  Append(es, e) \in Seq(S) /\ Len(es) \in Nat /\ Grown(es, Append(es, e), e)
<1>1. Len(es) \in Nat
  BY LenProperties
<1>2. QED  BY <1>1, AppendProperties DEF Grown

LEMMA ShrunkBy ==
  ASSUME NEW S, NEW es \in Seq(S), es # <<>>
  PROVE  /\ Tail(es) \in Seq(S) /\ Head(es) \in S /\ Head(es) = es[1]
         /\ Len(Tail(es)) \in Nat /\ Shrunk(es, Tail(es))
<1>1. /\ Tail(es) \in Seq(S) /\ Head(es) \in S /\ Head(es) = es[1] /\ Len(Tail(es)) = Len(es) - 1
      /\ \A i \in 1 .. Len(Tail(es)) : Tail(es)[i] = es[i + 1]
  BY HeadTailProperties
<1>2. Len(Tail(es)) \in Nat /\ Len(es) \in Nat
  BY <1>1, LenProperties
<1> DEFINE n == Len(es)
           x == Tail(es)
<1> HIDE DEF n, x
<1>3. Len(x) = n - 1 /\ n \in Nat /\ Len(x) \in Nat
  BY <1>1, <1>2 DEF n, x
<1>4. n = Len(x) + 1
  BY <1>3
<1>5. QED  BY <1>1, <1>2, <1>4 DEF n, x, Shrunk

\* A thread that waits for nothing begins to.
LEMMA AwaitedMore ==
  ASSUME NEW call, NEW c, NEW es, NEW x, NEW t \in Threads, Awaited(call, es), Len(es) \in Nat,
         Grown(es, x, [kind |-> "reply", to |-> t]), call[t].op \notin Awaiting,
         c[t].op \in Awaiting, \A u \in Threads : u # t /\ call[u].op \in Awaiting => c[u].op \in Awaiting
  PROVE  Awaited(c, x)
<1> DEFINE n == Len(es)
           r == [kind |-> "reply", to |-> t]
<1>1. n \in Nat /\ Len(x) = n + 1 /\ x[n + 1] = r /\ (\A i \in 1 .. n : x[i] = es[i]) /\ r.to = t
  BY DEF Grown
<1>2. \A i \in 1 .. n : es[i].kind = "reply" =>
        /\ es[i].to \in Threads /\ call[es[i].to].op \in Awaiting
        /\ \A j \in 1 .. n : es[j].kind = "reply" /\ es[j].to = es[i].to => j = i
  BY DEF Awaited
<1> HIDE DEF n, r
<1>3. \A i \in 1 .. n + 1 : i \in 1 .. n \/ i = n + 1
  BY <1>1
<1>4. \A i \in 1 .. n : es[i].kind = "reply" => es[i].to # t
  BY <1>2
<1>5. QED  BY <1>1, <1>2, <1>3, <1>4 DEF Awaited

LEMMA AwaitedOther ==
  ASSUME NEW call, NEW c, NEW es, NEW x, NEW e, Awaited(call, es), Len(es) \in Nat,
         Grown(es, x, e), e.kind # "reply", \A u \in Threads : call[u].op \in Awaiting => c[u].op \in Awaiting
  PROVE  Awaited(c, x)
<1> DEFINE n == Len(es)
<1>1. n \in Nat /\ Len(x) = n + 1 /\ x[n + 1] = e /\ \A i \in 1 .. n : x[i] = es[i]
  BY DEF Grown
<1>2. \A i \in 1 .. n : es[i].kind = "reply" =>
        /\ es[i].to \in Threads /\ call[es[i].to].op \in Awaiting
        /\ \A j \in 1 .. n : es[j].kind = "reply" /\ es[j].to = es[i].to => j = i
  BY DEF Awaited
<1> HIDE DEF n
<1>3. \A i \in 1 .. n + 1 : i \in 1 .. n \/ i = n + 1
  BY <1>1
<1>4. QED  BY <1>1, <1>2, <1>3 DEF Awaited

LEMMA AwaitedSame ==
  ASSUME NEW call, NEW c, NEW es, Awaited(call, es),
         \A u \in Threads : call[u].op \in Awaiting => c[u].op \in Awaiting
  PROVE  Awaited(c, es)
  BY DEF Awaited

\* The first event is taken; a reply that it was has been the only one of its thread.
LEMMA AwaitedLess ==
  ASSUME NEW call, NEW c, NEW es, NEW x, Awaited(call, es), Len(x) \in Nat, Shrunk(es, x),
         \A u \in Threads : call[u].op \in Awaiting /\ (es[1].kind = "reply" => u # es[1].to) => c[u].op \in Awaiting
  PROVE  /\ Awaited(c, x)
         /\ es[1].kind = "reply" => \A i \in 1 .. Len(x) : x[i].kind = "reply" => x[i].to # es[1].to
<1> DEFINE n == Len(x)
<1>1. n \in Nat /\ Len(es) = n + 1 /\ \A i \in 1 .. n : x[i] = es[i + 1]
  BY DEF Shrunk
<1>2. \A i \in 1 .. n + 1 : es[i].kind = "reply" =>
        /\ es[i].to \in Threads /\ call[es[i].to].op \in Awaiting
        /\ \A j \in 1 .. n + 1 : es[j].kind = "reply" /\ es[j].to = es[i].to => j = i
  BY <1>1 DEF Awaited
<1> HIDE DEF n
<1>3. /\ 1 \in 1 .. n + 1 /\ \A i \in 1 .. n : i + 1 \in 1 .. n + 1 /\ i + 1 # 1
      /\ \A i, j \in 1 .. n : i + 1 = j + 1 => i = j
  BY <1>1
<1>4. es[1].kind = "reply" => \A i \in 1 .. n : x[i].kind = "reply" => x[i].to # es[1].to
  BY <1>1, <1>2, <1>3
<1>5. \A i \in 1 .. n : x[i].kind = "reply" =>
        /\ x[i].to \in Threads /\ c[x[i].to].op \in Awaiting
        /\ \A j \in 1 .. n : x[j].kind = "reply" /\ x[j].to = x[i].to => j = i
  BY <1>1, <1>2, <1>3, <1>4
<1>6. QED  BY <1>4, <1>5 DEF n, Awaited

-----------------------------------------------------------------------------
(* Scans *)

\* The first event is taken, and its thread, if it was a reply, goes on.
LEMMA SomebodyLess ==
  ASSUME NEW call, NEW c, NEW es, NEW x, NEW on, ForSomebody(call, es, on), Awaited(call, es),
         Len(x) \in Nat, Shrunk(es, x),
         \A u \in Threads : ~(es[1].kind = "reply" /\ es[1].to = u) => c[u].op = call[u].op,
         es[1].kind = "reply" =>
           call[es[1].to].op = "stopping" \/ (call[es[1].to].op = "starting" /\ c[es[1].to].op = "collect")
  PROVE  ForSomebody(c, x, on)
<1> DEFINE n == Len(x)
           Scans(u) == call[u].op \in {"starting", "collect"}
           ScansOn(u) == c[u].op \in {"starting", "collect"}
<1>1. n \in Nat /\ Len(es) = n + 1 /\ \A i \in 1 .. n : x[i] = es[i + 1]
  BY DEF Shrunk
<1>2. /\ on => \E u \in Threads : Scans(u)
      /\ \A i \in 1 .. n + 1 : es[i].kind = "adv" =>
           \E u \in Threads : \/ Scans(u)
                             \/ /\ call[u].op = "stopping"
                                /\ \E j \in 1 .. n + 1 : i < j /\ es[j].kind = "reply" /\ es[j].to = u
  BY <1>1 DEF ForSomebody
<1>3. \A i, j \in 1 .. n + 1 : es[i].kind = "reply" /\ es[j].kind = "reply" /\ es[j].to = es[i].to => j = i
  BY <1>1 DEF Awaited
<1>4. \A u \in Threads : Scans(u) => ScansOn(u)
  OBVIOUS
<1> HIDE DEF n, Scans, ScansOn
<1>5. on => \E u \in Threads : ScansOn(u)
  BY <1>2, <1>4
<1>6. /\ 1 \in 1 .. n + 1
      /\ \A i \in 1 .. n : i + 1 \in 1 .. n + 1
      /\ \A i \in 1 .. n, j \in 1 .. n + 1 : i + 1 < j => j # 1 /\ j - 1 \in 1 .. n /\ i < j - 1 /\ (j - 1) + 1 = j
  BY <1>1
<1>7. ASSUME NEW i \in 1 .. n, x[i].kind = "adv"
      PROVE  \E u \in Threads :
               \/ ScansOn(u)
               \/ /\ c[u].op = "stopping"
                  /\ \E j \in 1 .. n : i < j /\ x[j].kind = "reply" /\ x[j].to = u
  <2>1. es[i + 1].kind = "adv" /\ i + 1 \in 1 .. n + 1
    BY <1>1, <1>6, <1>7
  <2>2. PICK u \in Threads : \/ Scans(u)
                             \/ /\ call[u].op = "stopping"
                                /\ \E j \in 1 .. n + 1 : i + 1 < j /\ es[j].kind = "reply" /\ es[j].to = u
    BY <1>2, <2>1
  <2>3. CASE Scans(u)
    BY <1>4, <2>3
  <2>4. CASE /\ call[u].op = "stopping"
             /\ \E j \in 1 .. n + 1 : i + 1 < j /\ es[j].kind = "reply" /\ es[j].to = u
    <3>1. PICK j \in 1 .. n + 1 : i + 1 < j /\ es[j].kind = "reply" /\ es[j].to = u
      BY <2>4
    <3>2. j # 1 /\ j - 1 \in 1 .. n /\ i < j - 1 /\ (j - 1) + 1 = j
      BY <1>6, <3>1
    <3>3. x[j - 1] = es[j]
      BY <1>1, <3>2
    <3>4. ~(es[1].kind = "reply" /\ es[1].to = u)
      BY <1>3, <1>6, <3>1, <3>2
    <3>5. c[u].op = "stopping"
      BY <2>4, <3>4
    <3>6. QED  BY <3>1, <3>2, <3>3, <3>5
  <2>5. QED  BY <2>2, <2>3, <2>4
<1>8. QED  BY <1>5, <1>7 DEF n, ScansOn, ForSomebody

\* An event more.
LEMMA SomebodyMore ==
  ASSUME NEW call, NEW c, NEW es, NEW x, NEW e, NEW on, NEW z, ForSomebody(call, es, on),
         Len(es) \in Nat, Grown(es, x, e), e.kind \in {"adv", "reply"},
         z \/ e.kind = "adv" => \E u \in Threads : c[u].op \in {"starting", "collect"},
         \A u \in Threads : call[u].op \in {"starting", "collect", "stopping"} =>
           \/ c[u].op = call[u].op
           \/ c[u].op \in {"starting", "collect"}
           \/ c[u].op = "stopping" /\ e.kind = "reply" /\ e.to = u
  PROVE  ForSomebody(c, x, z)
<1> DEFINE n == Len(es)
           Scans(u) == call[u].op \in {"starting", "collect"}
           ScansOn(u) == c[u].op \in {"starting", "collect"}
<1>1. n \in Nat /\ Len(x) = n + 1 /\ x[n + 1] = e /\ \A i \in 1 .. n : x[i] = es[i]
  BY DEF Grown
<1>2. \A i \in 1 .. n : es[i].kind = "adv" =>
           \E u \in Threads : \/ Scans(u)
                             \/ /\ call[u].op = "stopping"
                                /\ \E j \in 1 .. n : i < j /\ es[j].kind = "reply" /\ es[j].to = u
  BY DEF ForSomebody
<1>3. /\ z \/ e.kind = "adv" => \E u \in Threads : ScansOn(u)
      /\ \A u \in Threads : Scans(u) =>
           ScansOn(u) \/ (c[u].op = "stopping" /\ e.kind = "reply" /\ e.to = u)
      /\ \A u \in Threads : call[u].op = "stopping" =>
           \/ c[u].op = "stopping" \/ ScansOn(u)
  OBVIOUS
<1> HIDE DEF n, Scans, ScansOn
<1>4. /\ n + 1 \in 1 .. n + 1
      /\ \A i \in 1 .. n : i \in 1 .. n + 1 /\ i < n + 1
      /\ \A i \in 1 .. n + 1 : i \in 1 .. n \/ i = n + 1
  BY <1>1
<1>5. ASSUME NEW i \in 1 .. n + 1, x[i].kind = "adv"
      PROVE  \E u \in Threads :
               \/ ScansOn(u)
               \/ /\ c[u].op = "stopping"
                  /\ \E j \in 1 .. n + 1 : i < j /\ x[j].kind = "reply" /\ x[j].to = u
  <2>1. CASE i = n + 1
    BY <1>1, <1>3, <1>5, <2>1
  <2>2. CASE i \in 1 .. n
    <3>1. PICK u \in Threads : \/ Scans(u)
                               \/ /\ call[u].op = "stopping"
                                  /\ \E j \in 1 .. n : i < j /\ es[j].kind = "reply" /\ es[j].to = u
      BY <1>1, <1>2, <1>5, <2>2
    <3>2. CASE Scans(u)
      <4>1. CASE ScansOn(u)
        BY <4>1
      <4>2. CASE c[u].op = "stopping" /\ e.kind = "reply" /\ e.to = u
        <5>1. i < n + 1 /\ x[n + 1].kind = "reply" /\ x[n + 1].to = u /\ n + 1 \in 1 .. n + 1
          BY <1>1, <1>4, <2>2, <4>2
        <5>2. QED  BY <4>2, <5>1
      <4>3. QED  BY <1>3, <3>2, <4>1, <4>2
    <3>3. CASE /\ call[u].op = "stopping"
               /\ \E j \in 1 .. n : i < j /\ es[j].kind = "reply" /\ es[j].to = u
      <4>1. PICK j \in 1 .. n : i < j /\ es[j].kind = "reply" /\ es[j].to = u
        BY <3>3
      <4>2. j \in 1 .. n + 1 /\ x[j] = es[j]
        BY <1>1, <1>4
      <4>3. QED  BY <1>3, <3>3, <4>1, <4>2
    <3>4. QED  BY <3>1, <3>2, <3>3
  <2>3. QED  BY <1>4, <2>1, <2>2
<1>6. QED  BY <1>1, <1>3, <1>5 DEF ScansOn, ForSomebody

\* No scan is under way: neither is an advertisement.
LEMMA NobodyScans ==
  ASSUME NEW call, NEW es, NEW on, ForSomebody(call, es, on),
         \A u \in Threads : call[u].op \notin {"starting", "collect", "stopping"}
  PROVE  ~on /\ \A i \in 1 .. Len(es) : es[i].kind # "adv"
  BY DEF ForSomebody

\* One advertisement of the queue.
LEMMA GatheredOne ==
  ASSUME NEW k, Gathered(k), k.op = "collect", NEW adv, adv.of = k.of, NEW cur, NEW takes \in BOOLEAN,
         cur = {a \in k.seen : a.addr = adv.addr}, cur = {} => takes,
         NEW g, g.op = "collect", g.of = k.of, g.taken = k.taken \cup {adv},
         g.seen = IF takes THEN (k.seen \ cur) \cup {adv} ELSE k.seen
  PROVE  Gathered(g)
<1>1. \A a \in g.taken \cup g.seen : a.of = g.of
  <2>1. \A a \in k.taken \cup k.seen : a.of = k.of
    BY DEF Gathered
  <2>2. QED  BY <2>1
<1>2. \A a, b \in g.seen : a.addr = b.addr => a = b
  <2>1. \A a, b \in k.seen : a.addr = b.addr => a = b
    BY DEF Gathered
  <2>2. CASE takes
    BY <2>1, <2>2
  <2>3. CASE ~takes
    BY <2>1, <2>3
  <2>4. QED  BY <2>2, <2>3
<1>3. {a.addr : a \in g.taken} = {a.addr : a \in g.seen}
  <2> DEFINE T == {a.addr : a \in k.taken}
             S == {a.addr : a \in k.seen}
  <2>1. T = S
    BY DEF Gathered
  <2>2. {a.addr : a \in g.taken} = T \cup {adv.addr}
    BY Zenon
  <2>3. {a.addr : a \in g.seen} = S \cup {adv.addr}
    <3>1. CASE takes
      <4>1. g.seen = (k.seen \ cur) \cup {adv}
        BY <3>1
      <4>2. \A a \in k.seen : a \in cur => a.addr = adv.addr
        OBVIOUS
      <4>3. \A v : v \in {a.addr : a \in g.seen} <=> v \in S \cup {adv.addr}
        BY <4>1, <4>2
      <4>4. QED  BY <4>3
    <3>2. CASE ~takes
      <4>1. g.seen = k.seen
        BY <3>2
      <4>2. \E a \in k.seen : a.addr = adv.addr
        BY <3>2
      <4>3. adv.addr \in S
        BY <4>2
      <4>4. QED  BY <4>1, <4>3
    <3>3. QED  BY <3>1, <3>2
  <2>4. QED  BY <2>1, <2>2, <2>3
<1>4. QED  BY <1>1, <1>2, <1>3 DEF Gathered

LEMMA BleTypes ==
  /\ Ble!Idle \in BleCalls /\ Ble!None \in BleCallbacks
  /\ \A c \in BleCalls, o \in {"none"} \cup ScanOps \cup ClientOps : [c EXCEPT !.op = o] \in BleCalls
  /\ \A c \in BleCalls, n \in Nat : [c EXCEPT !.of = n] \in BleCalls
  /\ \A c \in BleCalls, a \in BOOLEAN : [c EXCEPT !.alone = a] \in BleCalls
  /\ \A c \in BleCalls, p, q \in SUBSET BleAdvs : [c EXCEPT !.taken = p, !.seen = q] \in BleCalls
  /\ \A h \in BleHosts, c \in [Threads -> BleCalls] : [h EXCEPT !.call = c] \in BleHosts
  /\ \A h \in BleHosts, a \in Seq(BleAdvs) : [h EXCEPT !.advs = a] \in BleHosts
  /\ \A h \in BleHosts, a \in Seq(BleClients) : [h EXCEPT !.clients = a] \in BleHosts
  /\ \A h \in BleHosts, a \in [Ble!Chars -> BleCallbacks] : [h EXCEPT !.callback = a] \in BleHosts
  /\ \A h \in BleHosts, a \in SUBSET (BleCallbacks \X Ble!Chars \X Peers) : [h EXCEPT !.got = a] \in BleHosts
  /\ \A h \in BleHosts, a \in BOOLEAN : [h EXCEPT !.stale = a] \in BleHosts
  /\ \A h \in BleHosts, a \in BOOLEAN : [h EXCEPT !.central = a] \in BleHosts
  /\ \A h \in BleHosts, a \in SUBSET Threads : [h EXCEPT !.streams = a] \in BleHosts
<1>1. Ble!Idle \in BleCalls /\ Ble!None \in BleCallbacks
  BY DEF Ble!Idle, Ble!None, BleCalls, BleCallbacks, Ble!Chars
<1>2. \A c \in BleCalls, o \in {"none"} \cup ScanOps \cup ClientOps : [c EXCEPT !.op = o] \in BleCalls
  BY DEF BleCalls
<1>3. \A c \in BleCalls, n \in Nat : [c EXCEPT !.of = n] \in BleCalls
  BY DEF BleCalls
<1>4. \A c \in BleCalls, a \in BOOLEAN : [c EXCEPT !.alone = a] \in BleCalls
  BY DEF BleCalls
<1>5. \A c \in BleCalls, p, q \in SUBSET BleAdvs : [c EXCEPT !.taken = p, !.seen = q] \in BleCalls
  BY DEF BleCalls
<1>6. \A h \in BleHosts, c \in [Threads -> BleCalls] : [h EXCEPT !.call = c] \in BleHosts
  BY DEF BleHosts
<1>7. \A h \in BleHosts, a \in Seq(BleAdvs) : [h EXCEPT !.advs = a] \in BleHosts
  BY DEF BleHosts
<1>8. \A h \in BleHosts, a \in Seq(BleClients) : [h EXCEPT !.clients = a] \in BleHosts
  BY DEF BleHosts
<1>9. \A h \in BleHosts, a \in [Ble!Chars -> BleCallbacks] : [h EXCEPT !.callback = a] \in BleHosts
  BY DEF BleHosts
<1>10. \A h \in BleHosts, a \in SUBSET (BleCallbacks \X Ble!Chars \X Peers) : [h EXCEPT !.got = a] \in BleHosts
  BY DEF BleHosts
<1>11. \A h \in BleHosts, a \in BOOLEAN : [h EXCEPT !.stale = a] \in BleHosts
  BY DEF BleHosts
<1>12. \A h \in BleHosts, a \in BOOLEAN : [h EXCEPT !.central = a] \in BleHosts
  BY DEF BleHosts
<1>13. \A h \in BleHosts, a \in SUBSET Threads : [h EXCEPT !.streams = a] \in BleHosts
  BY DEF BleHosts
<1>14. QED  BY <1>1, <1>2, <1>3, <1>4, <1>5, <1>6, <1>7, <1>8, <1>9, <1>10, <1>11, <1>12, <1>13, Zenon

\* A scan that goes on, while scans come to an end, events come or go.
LEMMA AloneStill ==
  ASSUME NEW call, NEW c, NEW t \in Threads, NEW advs, NEW es, NEW x, NEW scans,
         Alone(call, t, advs, es, scans),
         c[t].taken = call[t].taken, c[t].seen = call[t].seen, c[t].of = call[t].of,
         \/ c[t].op = call[t].op
         \/ c[t].op = "collect" /\ call[t].op = "starting"
         \/ c[t].op = "stopping" /\ call[t].op = "collect",
         \A u \in Threads : c[u].op \in ScanOps => call[u].op \in ScanOps,
         \A i \in 1 .. Len(x) : x[i].kind = "adv" =>
           x[i].of = scans \/ \E j \in 1 .. Len(es) : es[j] = x[i]
  PROVE  Alone(c, t, advs, x, scans)
<1>1. Gathered(c[t])
  BY DEF Alone, Gathered
<1>2. c[t].op \in ScanOps => \A u \in Threads : c[u].op \in ScanOps => u = t
  BY DEF Alone, ScanOps
<1>3. c[t].op = "start" => advs = <<>>
  BY DEF Alone
<1>4. c[t].op \in {"starting", "collect", "stopping"} =>
        /\ c[t].of = scans
        /\ \A i \in 1 .. Len(advs) : advs[i].of = scans
        /\ \A i \in 1 .. Len(x) : x[i].kind = "adv" => x[i].of = scans
  BY DEF Alone
<1>5. QED  BY <1>1, <1>2, <1>3, <1>4 DEF Alone

\* A thread that does not scan.
LEMMA AloneIdle ==
  ASSUME NEW call, NEW c, NEW t, NEW advs, NEW x, NEW scans, Gathered(call[t]),
         c[t].taken = call[t].taken, c[t].seen = call[t].seen, c[t].of = call[t].of,
         c[t].op \notin ScanOps
  PROVE  Alone(c, t, advs, x, scans)
<1>1. Gathered(c[t])
  BY DEF Gathered, ScanOps
<1>2. QED  BY <1>1 DEF Alone, ScanOps

LEMMA SomebodySame ==
  ASSUME NEW call, NEW c, NEW es, NEW on, ForSomebody(call, es, on),
         \A u \in Threads : call[u].op \in {"starting", "collect", "stopping"} => c[u].op = call[u].op
  PROVE  ForSomebody(c, es, on)
  BY DEF ForSomebody

\* Events of a kind there is none of.
LEMMA KindMore ==
  ASSUME NEW es, NEW x, NEW e, NEW k, Len(es) \in Nat, Grown(es, x, e), e.kind # k,
         \A i \in 1 .. Len(es) : es[i].kind # k
  PROVE  \A i \in 1 .. Len(x) : x[i].kind # k
<1> DEFINE n == Len(es)
<1>1. n \in Nat /\ Len(x) = n + 1 /\ x[n + 1] = e /\ \A i \in 1 .. n : x[i] = es[i]
  BY DEF Grown
<1>2. \A i \in 1 .. n : es[i].kind # k
  OBVIOUS
<1> HIDE DEF n
<1>3. \A i \in 1 .. n + 1 : i \in 1 .. n \/ i = n + 1
  BY <1>1
<1>4. QED  BY <1>1, <1>2, <1>3

LEMMA EachLess ==
  ASSUME NEW es, NEW x, Len(x) \in Nat, Shrunk(es, x)
  PROVE  \A i \in 1 .. Len(x) : \E j \in 1 .. Len(es) : es[j] = x[i]
<1>1. \A i \in 1 .. Len(x) : i + 1 \in 1 .. Len(es) /\ es[i + 1] = x[i]
  BY DEF Shrunk
<1>2. QED  BY <1>1

LEMMA EachMore ==
  ASSUME NEW es, NEW x, NEW e, Len(es) \in Nat, Grown(es, x, e)
  PROVE  \A i \in 1 .. Len(x) : x[i] = e \/ \E j \in 1 .. Len(es) : es[j] = x[i]
<1> DEFINE n == Len(es)
<1>1. n \in Nat /\ Len(x) = n + 1 /\ x[n + 1] = e /\ \A i \in 1 .. n : x[i] = es[i]
  BY DEF Grown
<1> HIDE DEF n
<1>2. \A i \in 1 .. n + 1 : i \in 1 .. n \/ i = n + 1
  BY <1>1
<1>3. \A i \in 1 .. n + 1 : x[i] = e \/ \E j \in 1 .. n : es[j] = x[i]
  BY <1>1, <1>2
<1>4. QED  BY <1>1, <1>3 DEF n

-----------------------------------------------------------------------------
(* Steps of scan() *)

LEMMA ScanParts ==
  ASSUME BleInv, NEW t \in Threads, Ble!Op(t) \in ScanOps
  PROVE  host.part = "scan"
  BY DEF BleInv, BleSound, NoScan, Ble!Op

LEMMA ScanFacts ==
  ASSUME BleInv, host.part = "scan"
  PROVE  /\ Scanned(host, board, wire) /\ NoClient(host, board, wire)
         /\ Len(wire.events) \in Nat
         /\ \A t \in Threads : host.call[t] \in BleCalls /\ host.call[t].op \notin ClientOps
<1>1. Scanned(host, board, wire) /\ NoClient(host, board, wire)
  BY DEF BleInv, BleSound
<1>2. wire.events \in Seq(BleEvents) /\ host.call \in [Threads -> BleCalls]
  BY BleFields
<1>3. Len(wire.events) \in Nat
  BY <1>2, LenProperties
<1>4. QED  BY <1>1, <1>2, <1>3 DEF NoClient

LEMMA ScanCallStep ==
  ASSUME BleInv, NEW t \in Threads, Ble!ScanCall(t)
  PROVE  BleInv'
<1> DEFINE others == Ble!Scanners # {}
           c == [u \in Threads |->
                  IF u = t THEN [Ble!Idle EXCEPT !.op = "start", !.alone = ~others]
                  ELSE [host.call[u] EXCEPT !.alone = @ /\ u \notin Ble!Scanners]]
<1>1. /\ host.part = "scan" /\ host.call[t].op = "none" /\ wire.calls > 0
      /\ wire' = [wire EXCEPT !.calls = @ - 1] /\ board' = board
  BY DEF Ble!ScanCall, Ble!Is, Ble!Op
<1>2. PICK streams \in BOOLEAN :
        host' = [Ble!Drained(host) EXCEPT !.call = c, !.streams = IF streams THEN @ \cup {t} ELSE @]
  <2>1. PICK streams \in BOOLEAN :
          host' = [Ble!Drained(host) EXCEPT !.call = [u \in Threads |->
                    IF u = t THEN [Ble!Idle EXCEPT !.op = "start", !.alone = ~others]
                    ELSE [Ble!Drained(host).call[u] EXCEPT !.alone = @ /\ u \notin Ble!Scanners]],
                  !.streams = IF streams THEN @ \cup {t} ELSE @]
    BY Zenon DEF Ble!ScanCall
  <2>2. Ble!Drained(host).call = host.call
    BY BleFields DEF Ble!Drained, BleHosts
  <2>3. QED  BY <2>1, <2>2, Zenon
<1>3. /\ Scanned(host, board, wire) /\ NoClient(host, board, wire)
      /\ \A u \in Threads : host.call[u] \in BleCalls /\ host.call[u].op \notin ClientOps
  BY <1>1, ScanFacts
<1>4. /\ host \in BleHosts /\ board \in BleBoards /\ wire \in BleWires /\ host.call \in [Threads -> BleCalls]
      /\ host.streams \in SUBSET Threads /\ wire.calls \in 0 .. Tries /\ Awaited(host.call, wire.events)
      /\ host.advs \in Seq(BleAdvs)
  BY BleFields
<1>5. c \in [Threads -> BleCalls]
  <2>1. [Ble!Idle EXCEPT !.op = "start", !.alone = ~others] \in BleCalls
    <3>1. [Ble!Idle EXCEPT !.op = "start"] \in BleCalls
      BY BleTypes, Zenon DEF ScanOps
    <3>2. \A a \in BOOLEAN, k \in BleCalls : [k EXCEPT !.alone = a] \in BleCalls
      BY BleTypes, Zenon
    <3>3. (~others) \in BOOLEAN
      OBVIOUS
    <3>4. [[Ble!Idle EXCEPT !.op = "start"] EXCEPT !.alone = ~others] \in BleCalls
      BY <3>1, <3>2, <3>3
    <3>5. QED  BY <3>4
  <2>2. \A u \in Threads : [host.call[u] EXCEPT !.alone = @ /\ u \notin Ble!Scanners] \in BleCalls
    <3>1. \A k \in BleCalls, a \in BOOLEAN : [k EXCEPT !.alone = a] \in BleCalls
      BY BleTypes, Zenon
    <3>2. \A u \in Threads : (host.call[u].alone /\ u \notin Ble!Scanners) \in BOOLEAN
      OBVIOUS
    <3>3. QED  BY <1>3, <3>1, <3>2, Zenon
  <2>3. QED  BY <2>1, <2>2, Zenon
<1>6. /\ c[t].op = "start" /\ c[t].taken = {} /\ c[t].seen = {} /\ (c[t].alone => ~others)
      /\ \A u \in Threads \ {t} :
           /\ c[u].op = host.call[u].op /\ c[u].taken = host.call[u].taken
           /\ c[u].seen = host.call[u].seen /\ c[u].of = host.call[u].of
           /\ c[u].alone => host.call[u].alone /\ u \notin Ble!Scanners
  <2>1. /\ Ble!Idle.taken = {} /\ Ble!Idle.seen = {}
        /\ Ble!Idle \in BleCalls
    BY BleTypes, Zenon DEF Ble!Idle
  <2>2. /\ c[t] = [Ble!Idle EXCEPT !.op = "start", !.alone = ~others]
    OBVIOUS
  <2>3. c[t].op = "start" /\ c[t].taken = {} /\ c[t].seen = {} /\ (c[t].alone => ~others)
    <3> DEFINE o == ~others
    <3>0. o \in BOOLEAN
      OBVIOUS
    <3>1. c[t] = [Ble!Idle EXCEPT !.op = "start", !.alone = o]
      BY <2>2
    <3> HIDE DEF o, c
    <3>2. /\ c[t].op = "start" /\ c[t].taken = {} /\ c[t].seen = {} /\ c[t].alone = o
      BY <2>1, <3>0, <3>1 DEF BleCalls
    <3>3. QED  BY <3>2 DEF o
  <2>4. \A u \in Threads \ {t} : c[u] = [host.call[u] EXCEPT !.alone = @ /\ u \notin Ble!Scanners]
    OBVIOUS
  <2> HIDE DEF c
  <2>5. \A u \in Threads \ {t} :
           /\ c[u].op = host.call[u].op /\ c[u].taken = host.call[u].taken
           /\ c[u].seen = host.call[u].seen /\ c[u].of = host.call[u].of
           /\ c[u].alone => host.call[u].alone /\ u \notin Ble!Scanners
    BY <1>3, <2>4, Zenon DEF BleCalls
  <2>6. QED  BY <2>3, <2>5
<1> HIDE DEF c
<1>7. /\ host' \in BleHosts /\ host'.call = c /\ host'.advs = <<>> /\ host'.part = "scan"
      /\ host'.got = host.got
  <2>1. \A s \in SUBSET Threads, h \in BleHosts : [h EXCEPT !.streams = s] \in BleHosts
    BY BleTypes, Zenon
  <2>2. \A h \in BleHosts, k \in [Threads -> BleCalls] : [h EXCEPT !.call = k] \in BleHosts
    BY BleTypes, Zenon
  <2>3. \A h \in BleHosts, a \in Seq(BleAdvs) : [h EXCEPT !.advs = a] \in BleHosts
    BY BleTypes, Zenon
  <2>4. <<>> \in Seq(BleAdvs)
    BY EmptySeq
  <2> DEFINE h1 == [host EXCEPT !.advs = <<>>]
             h2 == [h1 EXCEPT !.call = c]
             s == IF streams THEN host.streams \cup {t} ELSE host.streams
  <2>5. s \in SUBSET Threads
    BY <1>4
  <2>6. h1 \in BleHosts /\ h2 \in BleHosts
    BY <1>4, <1>5, <2>2, <2>3, <2>4
  <2>7. host' = [h2 EXCEPT !.streams = s]
    BY <1>2, <1>4 DEF Ble!Drained, BleHosts
  <2>8. host' \in BleHosts
    BY <2>1, <2>5, <2>6, <2>7
  <2>9. host'.call = c /\ host'.advs = <<>> /\ host'.part = "scan" /\ host'.got = host.got
    BY <1>1, <1>2, <1>4 DEF Ble!Drained, BleHosts
  <2>10. QED  BY <2>8, <2>9
<1>8. wire' \in BleWires /\ wire'.events = wire.events /\ wire'.faults = wire.faults
  <2>1. wire.calls - 1 \in 0 .. Tries
    BY <1>1, <1>4, BleConstants
  <2>2. QED  BY <1>1, <1>4, <2>1 DEF BleWires
<1>9. \A u \in Threads : u \in Ble!Scanners <=> host.call[u].op \in ScanOps
  BY DEF Ble!Scanners, Ble!Op, ScanOps
<1>10. \A u \in Threads : host.call[u].op # "none" => u # t /\ c[u].op = host.call[u].op
  BY <1>1, <1>6
<1>11. BleShape(host', board', wire')
  <2>1. Awaited(c, wire.events)
    BY <1>4, <1>10, AwaitedSame DEF Awaiting, ClientOps
  <2>2. QED  BY <1>1, <1>4, <1>7, <1>8, <2>1 DEF BleShape
<1>12. Scanned(host', board', wire')
  <2> SUFFICES ASSUME wire.faults = Faults
               PROVE  /\ ForSomebody(c, wire.events, board.scanning)
                      /\ \A u \in Threads : c[u].alone => Alone(c, u, <<>>, wire.events, board.scans)
    BY <1>1, <1>7, <1>8 DEF Scanned
  <2>1. /\ ForSomebody(host.call, wire.events, board.scanning)
        /\ \A u \in Threads : host.call[u].alone => Alone(host.call, u, host.advs, wire.events, board.scans)
    BY <1>3 DEF Scanned
  <2>2. ForSomebody(c, wire.events, board.scanning)
    BY <1>10, <2>1, SomebodySame
  <2>3. c[t].alone => Alone(c, t, <<>>, wire.events, board.scans)
    <3> SUFFICES ASSUME c[t].alone PROVE Alone(c, t, <<>>, wire.events, board.scans)
      OBVIOUS
    <3>1. Ble!Scanners = {}
      BY <1>6
    <3>2. \A u \in Threads : c[u].op \in ScanOps => u = t
      BY <1>6, <1>9, <3>1
    <3>3. Gathered(c[t])
      BY <1>6 DEF Gathered
    <3>4. QED  BY <1>6, <3>2, <3>3 DEF Alone
  <2>4. ASSUME NEW u \in Threads \ {t}, c[u].alone
        PROVE  Alone(c, u, <<>>, wire.events, board.scans)
    <3>1. Alone(host.call, u, host.advs, wire.events, board.scans) /\ host.call[u].op \notin ScanOps
      BY <1>6, <1>9, <2>1, <2>4
    <3>2. Gathered(host.call[u])
      BY <3>1 DEF Alone
    <3>3. QED  BY <1>6, <2>4, <3>1, <3>2, AloneIdle
  <2>5. QED  BY <2>2, <2>3, <2>4
<1>13. NoClient(host', board', wire')
  <2>1. \A u \in Threads : c[u].op \notin ClientOps
    <3>1. \A u \in Threads : u = t \/ c[u].op = host.call[u].op
      BY <1>6, Zenon
    <3>2. c[t].op \notin ClientOps
      BY <1>6 DEF ClientOps
    <3>3. QED  BY <1>3, <3>1, <3>2, Zenon
  <2>2. QED  BY <1>1, <1>3, <1>7, <1>8, <2>1 DEF NoClient
<1>14. QED  BY <1>7, <1>11, <1>12, <1>13 DEF BleInv, BleSound

\* The call of a thread is another.
LEMMA CallOf ==
  ASSUME NEW h \in BleHosts, NEW t \in Threads, NEW k \in BleCalls, NEW g, g = [h EXCEPT !.call[t] = k]
  PROVE  /\ g \in BleHosts /\ g.call[t] = k /\ \A u \in Threads \ {t} : g.call[u] = h.call[u]
         /\ g.part = h.part /\ g.advs = h.advs /\ g.clients = h.clients /\ g.callback = h.callback
         /\ g.got = h.got /\ g.stale = h.stale /\ g.central = h.central /\ g.streams = h.streams
  BY DEF BleHosts

LEMMA RepliedMore ==
  ASSUME NEW w \in BleWires, NEW t \in Threads, NEW x, x = Ble!Replied(w, t)
  PROVE  /\ x \in BleWires /\ x.faults = w.faults /\ x.items = w.items /\ x.calls = w.calls
         /\ Len(w.events) \in Nat
         /\ Grown(w.events, x.events, [kind |-> "reply", to |-> t])
<1> DEFINE r == [kind |-> "reply", to |-> t]
<1>1. r \in BleEvents
  BY DEF BleEvents, BleReplies
<1>2. w.events \in Seq(BleEvents)
  BY DEF BleWires
<1> DEFINE e == Append(w.events, r)
<1>3. e \in Seq(BleEvents) /\ Len(w.events) \in Nat /\ Grown(w.events, e, r)
  BY <1>1, <1>2, GrownBy
<1>4. x = [w EXCEPT !.events = e]
  BY DEF Ble!Replied
<1> HIDE DEF e, r
<1>5. x \in BleWires /\ x.faults = w.faults /\ x.items = w.items /\ x.calls = w.calls /\ x.events = e
  BY <1>3, <1>4 DEF BleWires
<1>6. QED  BY <1>3, <1>5 DEF r

LEMMA LostFault ==
  ASSUME wire \in BleWires, Ble!Faulty
  PROVE  /\ Ble!Lost \in BleWires /\ Ble!Lost.events = wire.events
         /\ Ble!Lost.items = wire.items /\ Ble!Lost.calls = wire.calls
         /\ Ble!Lost.faults \in 0 .. Faults /\ Ble!Lost.faults # Faults
<1>1. wire.faults \in 0 .. Faults /\ wire.faults > 0
  BY DEF BleWires, Ble!Faulty
<1>2. wire.faults - 1 \in 0 .. Faults /\ wire.faults - 1 # Faults
  BY <1>1, BleConstants
<1>3. QED  BY <1>2 DEF Ble!Lost, BleWires

\* A request of scan() fails.
LEMMA ScanLost ==
  ASSUME BleInv, NEW t \in Threads, Ble!Op(t) = "start" \/ Ble!Op(t) = "collect", Ble!Faulty, wire' = Ble!Lost,
         NEW k \in BleCalls, k.op = "none", host' = [host EXCEPT !.call[t] = k], board' = board
  PROVE  BleInv'
<1>1. host.part = "scan"
  BY ScanParts DEF ScanOps
<1>2. /\ host \in BleHosts /\ board \in BleBoards /\ wire \in BleWires /\ Awaited(host.call, wire.events)
  BY BleFields
<1>3. /\ host' \in BleHosts /\ host'.call[t] = k /\ \A u \in Threads \ {t} : host'.call[u] = host.call[u]
      /\ host'.part = host.part /\ host'.got = host.got
  BY <1>2 DEF BleHosts
<1>4. wire' \in BleWires /\ wire'.events = wire.events /\ wire'.faults # Faults
  BY <1>2, LostFault
<1>5. NoClient(host, board, wire)
  BY <1>1, ScanFacts
<1>6. Awaited(host'.call, wire.events)
  <2>1. \A u \in Threads : host.call[u].op \in Awaiting => host'.call[u].op \in Awaiting
    BY <1>3 DEF Awaiting, ClientOps, Ble!Op
  <2> DEFINE c == host'.call
  <2> HIDE DEF c
  <2>2. Awaited(c, wire.events)
    BY <1>2, <2>1, AwaitedSame DEF c
  <2>3. QED  BY <2>2 DEF c
<1>7. NoClient(host', board', wire')
  <2>1. \A u \in Threads : host'.call[u].op \notin ClientOps
    <3>1. "none" \notin ClientOps
      BY DEF ClientOps
    <3>2. QED  BY <1>3, <1>5, <3>1 DEF NoClient
  <2>2. QED  BY <1>3, <1>4, <1>5, <2>1 DEF NoClient
<1>8. BleShape(host', board', wire')
  BY <1>2, <1>3, <1>4, <1>6 DEF BleShape
<1>9. Scanned(host', board', wire')
  BY <1>4 DEF Scanned
<1>10. QED  BY <1>1, <1>3, <1>7, <1>8, <1>9 DEF BleInv, BleSound

LEMMA ScanStartStep ==
  ASSUME BleInv, NEW t \in Threads, Ble!ScanStart(t)
  PROVE  BleInv'
<1>1. Ble!Op(t) = "start" /\ host.call[t].op = "start"
  BY DEF Ble!ScanStart, Ble!Op
<1>2. CASE Ble!Faulty /\ wire' = Ble!Lost /\ host' = [host EXCEPT !.call[t] = Ble!Idle] /\ UNCHANGED board
  <2>1. Ble!Idle \in BleCalls /\ Ble!Idle.op = "none"
    BY BleTypes, Zenon DEF Ble!Idle
  <2>2. QED  BY <1>1, <1>2, <2>1, ScanLost
<1>3. CASE /\ board' = [board EXCEPT !.scanning = TRUE, !.scans = @ + 1]
           /\ host' = [Ble!Then(t, "starting") EXCEPT !.call[t].of = board.scans + 1]
           /\ wire' = Ble!Replied(wire, t)
  <2> DEFINE k1 == [host.call[t] EXCEPT !.op = "starting"]
             k == [k1 EXCEPT !.of = board.scans + 1]
             c == host'.call
             x == wire'.events
             r == [kind |-> "reply", to |-> t]
             s == board.scans + 1
             z == board'.scanning
  <2>1. host.part = "scan"
    BY <1>1, ScanParts DEF ScanOps
  <2>2. /\ host \in BleHosts /\ board \in BleBoards /\ wire \in BleWires /\ Awaited(host.call, wire.events)
        /\ host.call \in [Threads -> BleCalls] /\ board.scans \in Nat
    BY BleFields
  <2>3. /\ Scanned(host, board, wire) /\ NoClient(host, board, wire) /\ host.call[t] \in BleCalls
        /\ Len(wire.events) \in Nat
    BY <2>1, ScanFacts
  <2>4. k \in BleCalls
    <3>1. k1 \in BleCalls
      <4>1. \A q \in BleCalls, o \in {"none"} \cup ScanOps \cup ClientOps : [q EXCEPT !.op = o] \in BleCalls
        BY BleTypes, Zenon
      <4>2. QED  BY <2>3, <4>1 DEF ScanOps
    <3>2. s \in Nat
      BY <2>2
    <3>3. \A q \in BleCalls, n \in Nat : [q EXCEPT !.of = n] \in BleCalls
      BY BleTypes, Zenon
    <3> HIDE DEF k1
    <3>4. QED  BY <3>1, <3>2, <3>3
  <2>5. /\ k.op = "starting" /\ k.of = s /\ k.taken = host.call[t].taken /\ k.seen = host.call[t].seen
        /\ k.alone = host.call[t].alone
    BY <2>3 DEF BleCalls
  <2>6. host' = [host EXCEPT !.call[t] = k]
    BY <1>3, <2>2, <2>3 DEF Ble!Then, BleHosts, BleCalls
  <2> HIDE DEF k
  <2>7. /\ host' \in BleHosts /\ c[t] = k /\ (\A u \in Threads \ {t} : c[u] = host.call[u])
        /\ host'.part = host.part /\ host'.got = host.got /\ host'.advs = host.advs
    BY <2>2, <2>4, <2>6, CallOf
  <2>8. /\ wire' \in BleWires /\ wire'.faults = wire.faults /\ Grown(wire.events, x, r)
    BY <1>3, <2>2, RepliedMore
  <2>9. /\ board' \in BleBoards /\ board'.scanning = TRUE /\ board'.scans = s /\ board'.peer = board.peer
    <3>1. s \in Nat
      BY <2>2
    <3>2. board' = [board EXCEPT !.scanning = TRUE, !.scans = s]
      BY <1>3
    <3> HIDE DEF s
    <3>3. QED  BY <2>2, <3>1, <3>2 DEF BleBoards
  <2> HIDE DEF c, x, s, z
  <2>10. \A u \in Threads : u # t => c[u].op = host.call[u].op
    BY <2>7
  <2>11. c[t].op = "starting"
    BY <2>5, <2>7
  <2>12. Awaited(c, x)
    <3>1. host.call[t].op \notin Awaiting /\ c[t].op \in Awaiting
      BY <1>1, <2>11 DEF Awaiting, ClientOps
    <3>2. \A u \in Threads : u # t /\ host.call[u].op \in Awaiting => c[u].op \in Awaiting
      BY <2>10
    <3>3. QED  BY <2>2, <2>3, <2>8, <3>1, <3>2, AwaitedMore
  <2>13. NoClient(host', board', wire')
    <3>1. r.kind = "reply"
      OBVIOUS
    <3>2. \A i \in 1 .. Len(x) : x[i].kind # "notify"
      <4>1. \A i \in 1 .. Len(wire.events) : wire.events[i].kind # "notify"
        BY <2>3 DEF NoClient
      <4> HIDE DEF r
      <4>2. QED  BY <2>3, <2>8, <3>1, <4>1, KindMore
    <3>3. \A u \in Threads : c[u].op \notin ClientOps
      BY <2>3, <2>10, <2>11, Zenon DEF NoClient, ClientOps
    <3>4. QED  BY <2>3, <2>7, <2>9, <3>2, <3>3 DEF NoClient, c, x
  <2>14. Scanned(host', board', wire')
    <3> SUFFICES ASSUME wire.faults = Faults
                 PROVE  /\ ForSomebody(c, x, z)
                        /\ \A u \in Threads : c[u].alone => Alone(c, u, host.advs, x, s)
      BY <2>7, <2>8, <2>9 DEF Scanned, c, x, z
    <3>1. /\ ForSomebody(host.call, wire.events, board.scanning)
          /\ \A u \in Threads : host.call[u].alone => Alone(host.call, u, host.advs, wire.events, board.scans)
      BY <2>3 DEF Scanned
    <3>2. ForSomebody(c, x, z)
      <4>1. r.kind = "reply"
        OBVIOUS
      <4>2. \E u \in Threads : c[u].op \in {"starting", "collect"}
        BY <2>11
      <4>3. \A u \in Threads : host.call[u].op \in {"starting", "collect", "stopping"} =>
              c[u].op = host.call[u].op
        BY <1>1, <2>10
      <4>4. r.kind \in {"adv", "reply"}
        OBVIOUS
      <4>5. z \/ r.kind = "adv" => \E u \in Threads : c[u].op \in {"starting", "collect"}
        BY <4>2
      <4>6. \A u \in Threads : host.call[u].op \in {"starting", "collect", "stopping"} =>
              \/ c[u].op = host.call[u].op
              \/ c[u].op \in {"starting", "collect"}
              \/ c[u].op = "stopping" /\ r.kind = "reply" /\ r.to = u
        BY <4>3
      <4> HIDE DEF r
      <4>7. QED  BY <2>3, <2>8, <3>1, <4>4, <4>5, <4>6, SomebodyMore
    <3>3. c[t].alone => Alone(c, t, host.advs, x, s)
      <4> SUFFICES ASSUME c[t].alone PROVE Alone(c, t, host.advs, x, s)
        OBVIOUS
      <4>1. Alone(host.call, t, host.advs, wire.events, board.scans)
        BY <2>5, <2>7, <3>1
      <4>2. /\ host.advs = <<>> /\ host.call[t].taken = {} /\ host.call[t].seen = {}
            /\ \A u \in Threads : host.call[u].op \in ScanOps => u = t
        BY <1>1, <4>1 DEF Alone, Gathered, ScanOps
      <4>3. Gathered(c[t])
        BY <2>5, <2>7, <4>2 DEF Gathered
      <4>4. \A u \in Threads : c[u].op \in ScanOps => u = t
        BY <2>10, <4>2
      <4>5. \A i \in 1 .. Len(x) : x[i].kind # "adv"
        <5>1. r.kind = "reply"
          OBVIOUS
        <5>2. \A u \in Threads : host.call[u].op \notin {"starting", "collect", "stopping"}
          BY <1>1, <4>2, Zenon DEF ScanOps
        <5>3. \A i \in 1 .. Len(wire.events) : wire.events[i].kind # "adv"
          BY <3>1, <5>2, NobodyScans
        <5> HIDE DEF r
        <5>4. QED  BY <2>3, <2>8, <5>1, <5>3, KindMore
      <4>6. \A i \in 1 .. Len(host.advs) : host.advs[i].of = s
        BY <4>2
      <4>7. c[t].of = s
        BY <2>5, <2>7 DEF s
      <4>8. QED  BY <2>11, <4>3, <4>4, <4>5, <4>6, <4>7 DEF Alone
    <3>4. ASSUME NEW u \in Threads, u # t, c[u].alone
          PROVE  Alone(c, u, host.advs, x, s)
      <4>1. c[u] = host.call[u]
        BY <2>7, <3>4
      <4>2. Alone(host.call, u, host.advs, wire.events, board.scans)
        BY <3>1, <3>4, <4>1
      <4>3. host.call[u].op \notin ScanOps /\ Gathered(host.call[u])
        BY <1>1, <3>4, <4>2 DEF Alone, ScanOps
      <4>4. QED  BY <4>1, <4>3, AloneIdle
    <3>5. QED  BY <3>2, <3>3, <3>4
  <2>15. QED  BY <2>1, <2>7, <2>8, <2>9, <2>12, <2>13, <2>14 DEF BleInv, BleSound, BleShape, c, x
<1>4. QED  BY <1>2, <1>3 DEF Ble!ScanStart


LEMMA CollectStep ==
  ASSUME BleInv, NEW t \in Threads, Ble!Collect(t)
  PROVE  BleInv'
<1> DEFINE call == host.call[t]
           adv == Head(host.advs)
           cur == {a \in call.seen : a.addr = adv.addr}
           takes == \A a \in cur : adv.rssi > a.rssi \/ (adv.named /\ ~a.named)
           seen == IF takes THEN (call.seen \ cur) \cup {adv} ELSE call.seen
           taken == call.taken \cup {adv}
           k == [call EXCEPT !.taken = taken, !.seen = seen]
           c == host'.call
           x == Tail(host.advs)
<1>1. /\ Ble!Op(t) = "collect" /\ call.op = "collect" /\ host.advs # <<>>
      /\ UNCHANGED <<board, wire>>
      /\ host' = [host EXCEPT !.advs = x, !.call[t].taken = @ \cup {adv},
                              !.call[t].seen = IF takes THEN (@ \ cur) \cup {adv} ELSE @]
  BY DEF Ble!Collect, Ble!Op
<1>2. host.part = "scan"
  BY <1>1, ScanParts DEF ScanOps
<1>3. /\ host \in BleHosts /\ board \in BleBoards /\ wire \in BleWires /\ Awaited(host.call, wire.events)
      /\ host.call \in [Threads -> BleCalls] /\ board.scans \in Nat /\ host.advs \in Seq(BleAdvs)
  BY BleFields
<1>4. /\ Scanned(host, board, wire) /\ NoClient(host, board, wire) /\ call \in BleCalls
      /\ Len(wire.events) \in Nat
  BY <1>2, ScanFacts
<1>5. /\ x \in Seq(BleAdvs) /\ adv \in BleAdvs /\ adv = host.advs[1] /\ Len(x) \in Nat
      /\ Len(host.advs) = Len(x) + 1 /\ \A i \in 1 .. Len(x) : x[i] = host.advs[i + 1]
  BY <1>1, <1>3, ShrunkBy DEF Shrunk
<1>6. call.taken \in SUBSET BleAdvs /\ call.seen \in SUBSET BleAdvs
  BY <1>4 DEF BleCalls
<1>7. taken \in SUBSET BleAdvs /\ seen \in SUBSET BleAdvs
  BY <1>5, <1>6
<1>8. host' = [[host EXCEPT !.advs = x] EXCEPT !.call[t] = k]
  BY <1>1, <1>3, <1>4, ZenonT(60) DEF BleHosts, BleCalls
<1>9. takes \in BOOLEAN /\ (cur = {} => takes)
  OBVIOUS
<1>10. /\ k \in BleCalls /\ k.op = call.op /\ k.of = call.of /\ k.alone = call.alone
       /\ k.taken = taken /\ k.seen = seen
  <2> HIDE DEF taken, seen, call
  <2>1. QED  BY <1>4, <1>7 DEF BleCalls
<1> HIDE DEF k, c, x, adv, takes, call
<1>11. /\ host' \in BleHosts /\ c[t] = k /\ (\A u \in Threads \ {t} : c[u] = host.call[u])
       /\ host'.part = host.part /\ host'.got = host.got /\ host'.advs = x
  <2> DEFINE h == [host EXCEPT !.advs = x]
  <2>1. h \in BleHosts /\ h.advs = x /\ h.call = host.call /\ h.part = host.part /\ h.got = host.got
    BY <1>3, <1>5 DEF BleHosts
  <2>2. host' = [h EXCEPT !.call[t] = k]
    BY <1>8
  <2> HIDE DEF h
  <2>3. /\ host' \in BleHosts /\ host'.call[t] = k /\ (\A u \in Threads \ {t} : host'.call[u] = h.call[u])
        /\ host'.part = h.part /\ host'.advs = h.advs /\ host'.got = h.got
    BY <2>1, <2>2, <1>10 DEF BleHosts
  <2>4. QED  BY <2>1, <2>3 DEF c
<1>12. \A u \in Threads : c[u].op = host.call[u].op /\ (c[u].alone => host.call[u].alone)
  BY <1>10, <1>11 DEF call
<1>13. Awaited(c, wire.events)
  BY <1>3, <1>12, AwaitedSame
<1>14. NoClient(host', board', wire')
  BY <1>1, <1>4, <1>11, <1>12 DEF NoClient, c
<1>15. Scanned(host', board', wire')
  <2> SUFFICES ASSUME wire.faults = Faults
               PROVE  /\ ForSomebody(c, wire.events, board.scanning)
                      /\ \A u \in Threads : c[u].alone => Alone(c, u, x, wire.events, board.scans)
    BY <1>1, <1>11 DEF Scanned, c
  <2>1. /\ ForSomebody(host.call, wire.events, board.scanning)
        /\ \A u \in Threads : host.call[u].alone => Alone(host.call, u, host.advs, wire.events, board.scans)
    BY <1>4 DEF Scanned
  <2>2. ForSomebody(c, wire.events, board.scanning)
    BY <1>12, <2>1, SomebodySame
  <2>3. c[t].alone => Alone(c, t, x, wire.events, board.scans)
    <3> SUFFICES ASSUME c[t].alone PROVE Alone(c, t, x, wire.events, board.scans)
      OBVIOUS
    <3>1. Alone(host.call, t, host.advs, wire.events, board.scans)
      BY <1>12, <2>1
    <3>2. /\ Gathered(call) /\ call.of = board.scans
          /\ \A u \in Threads : host.call[u].op \in ScanOps => u = t
          /\ \A i \in 1 .. Len(host.advs) : host.advs[i].of = board.scans
          /\ \A i \in 1 .. Len(wire.events) : wire.events[i].kind = "adv" => wire.events[i].of = board.scans
      BY <1>1, <3>1 DEF Alone, ScanOps, call
    <3>3. adv.of = call.of
      <4>1. 1 \in 1 .. Len(host.advs)
        BY <1>5
      <4>2. QED  BY <1>5, <3>2, <4>1
    <3>4. Gathered(c[t])
      <4>1. Gathered(k)
        <5> DEFINE n == cur
        <5>1. n = {a \in call.seen : a.addr = adv.addr} /\ (n = {} => takes) /\ takes \in BOOLEAN
          BY <1>9
        <5>2. k.seen = (IF takes THEN (call.seen \ n) \cup {adv} ELSE call.seen) /\ k.taken = call.taken \cup {adv}
          BY <1>10
        <5> HIDE DEF n
        <5>3. k.op = "collect" /\ k.of = call.of /\ call.op = "collect"
          BY <1>1, <1>10
        <5>4. QED  BY <3>2, <3>3, <5>1, <5>2, <5>3, GatheredOne
      <4>2. QED  BY <1>11, <4>1
    <3>5. \A u \in Threads : c[u].op \in ScanOps => u = t
      BY <1>12, <3>2
    <3>6. \A i \in 1 .. Len(x) : x[i].of = board.scans
      <4>1. \A i \in 1 .. Len(x) : i + 1 \in 1 .. Len(host.advs)
        BY <1>5
      <4>2. QED  BY <1>5, <3>2, <4>1
    <3>7. c[t].op = "collect" /\ c[t].of = board.scans
      BY <1>1, <1>10, <1>11, <3>2
    <3>8. QED  BY <3>2, <3>4, <3>5, <3>6, <3>7 DEF Alone
  <2>4. ASSUME NEW u \in Threads, u # t, c[u].alone
        PROVE  Alone(c, u, x, wire.events, board.scans)
    <3>1. c[u] = host.call[u]
      BY <1>11, <2>4
    <3>2. Alone(host.call, u, host.advs, wire.events, board.scans)
      BY <2>1, <2>4, <3>1
    <3>3. host.call[u].op \notin ScanOps /\ Gathered(host.call[u])
      BY <1>1, <2>4, <3>2 DEF Alone, ScanOps, call
    <3>4. QED  BY <3>1, <3>3, AloneIdle
  <2>5. QED  BY <2>2, <2>3, <2>4
<1>16. QED  BY <1>1, <1>2, <1>3, <1>11, <1>13, <1>14, <1>15 DEF BleInv, BleSound, BleShape, c

LEMMA ScanStopStep ==
  ASSUME BleInv, NEW t \in Threads, Ble!ScanStop(t)
  PROVE  BleInv'
<1>1. Ble!Op(t) = "collect" /\ host.call[t].op = "collect"
  BY DEF Ble!ScanStop, Ble!Op
<1>2. CASE Ble!Faulty /\ wire' = Ble!Lost /\ host' = [host EXCEPT !.call[t] = Ble!Idle] /\ UNCHANGED board
  <2>1. Ble!Idle \in BleCalls /\ Ble!Idle.op = "none"
    BY BleTypes, Zenon DEF Ble!Idle
  <2>2. QED  BY <1>1, <1>2, <2>1, ScanLost
<1>3. CASE /\ board' = [board EXCEPT !.scanning = FALSE]
           /\ host' = Ble!Then(t, "stopping") /\ wire' = Ble!Replied(wire, t)
  <2> DEFINE k == [host.call[t] EXCEPT !.op = "stopping"]
             c == host'.call
             x == wire'.events
             r == [kind |-> "reply", to |-> t]
             z == board'.scanning
  <2>1. host.part = "scan"
    BY <1>1, ScanParts DEF ScanOps
  <2>2. /\ host \in BleHosts /\ board \in BleBoards /\ wire \in BleWires /\ Awaited(host.call, wire.events)
        /\ host.call \in [Threads -> BleCalls] /\ board.scans \in Nat
    BY BleFields
  <2>3. /\ Scanned(host, board, wire) /\ NoClient(host, board, wire) /\ host.call[t] \in BleCalls
        /\ Len(wire.events) \in Nat
    BY <2>1, ScanFacts
  <2>4. k \in BleCalls
    <3>1. \A q \in BleCalls, o \in {"none"} \cup ScanOps \cup ClientOps : [q EXCEPT !.op = o] \in BleCalls
      BY BleTypes, Zenon
    <3>2. QED  BY <2>3, <3>1 DEF ScanOps
  <2>5. /\ k.op = "stopping" /\ k.of = host.call[t].of /\ k.taken = host.call[t].taken
        /\ k.seen = host.call[t].seen /\ k.alone = host.call[t].alone
    BY <2>3 DEF BleCalls
  <2>6. host' = [host EXCEPT !.call[t] = k]
    BY <1>3, <2>2, <2>3 DEF Ble!Then, BleHosts, BleCalls
  <2> HIDE DEF k
  <2>7. /\ host' \in BleHosts /\ c[t] = k /\ (\A u \in Threads \ {t} : c[u] = host.call[u])
        /\ host'.part = host.part /\ host'.got = host.got /\ host'.advs = host.advs
    BY <2>2, <2>4, <2>6, CallOf
  <2>8. /\ wire' \in BleWires /\ wire'.faults = wire.faults /\ Grown(wire.events, x, r)
    BY <1>3, <2>2, RepliedMore
  <2>9. /\ board' \in BleBoards /\ z = FALSE /\ board'.scans = board.scans /\ board'.peer = board.peer
    BY <1>3, <2>2 DEF BleBoards
  <2> HIDE DEF c, x, z
  <2>10. \A u \in Threads : u # t => c[u] = host.call[u]
    BY <2>7
  <2>11. c[t].op = "stopping"
    BY <2>5, <2>7
  <2>12. Awaited(c, x)
    <3>1. host.call[t].op \notin Awaiting /\ c[t].op \in Awaiting
      BY <1>1, <2>11 DEF Awaiting, ClientOps
    <3>2. \A u \in Threads : u # t /\ host.call[u].op \in Awaiting => c[u].op \in Awaiting
      BY <2>10
    <3>3. QED  BY <2>2, <2>3, <2>8, <3>1, <3>2, AwaitedMore
  <2>13. NoClient(host', board', wire')
    <3>1. r.kind = "reply"
      OBVIOUS
    <3>2. \A i \in 1 .. Len(x) : x[i].kind # "notify"
      <4>1. \A i \in 1 .. Len(wire.events) : wire.events[i].kind # "notify"
        BY <2>3 DEF NoClient
      <4> HIDE DEF r
      <4>2. QED  BY <2>3, <2>8, <3>1, <4>1, KindMore
    <3>3. \A u \in Threads : c[u].op \notin ClientOps
      BY <2>3, <2>10, <2>11, Zenon DEF NoClient, ClientOps
    <3>4. QED  BY <2>3, <2>7, <2>9, <3>2, <3>3 DEF NoClient, c, x
  <2>14. Scanned(host', board', wire')
    <3> SUFFICES ASSUME wire.faults = Faults
                 PROVE  /\ ForSomebody(c, x, z)
                        /\ \A u \in Threads : c[u].alone => Alone(c, u, host.advs, x, board.scans)
      BY <2>7, <2>8, <2>9 DEF Scanned, c, x, z
    <3>1. /\ ForSomebody(host.call, wire.events, board.scanning)
          /\ \A u \in Threads : host.call[u].alone => Alone(host.call, u, host.advs, wire.events, board.scans)
      BY <2>3 DEF Scanned
    <3>2. r.kind \in {"adv", "reply"} /\ r.kind = "reply" /\ r.to = t
      OBVIOUS
    <3> HIDE DEF r
    <3>3. ForSomebody(c, x, z)
      <4>1. z \/ r.kind = "adv" => \E u \in Threads : c[u].op \in {"starting", "collect"}
        BY <2>9, <3>2
      <4>2. \A u \in Threads : host.call[u].op \in {"starting", "collect", "stopping"} =>
              \/ c[u].op = host.call[u].op
              \/ c[u].op \in {"starting", "collect"}
              \/ c[u].op = "stopping" /\ r.kind = "reply" /\ r.to = u
        BY <2>10, <2>11, <3>2
      <4>3. QED  BY <2>3, <2>8, <3>1, <3>2, <4>1, <4>2, SomebodyMore
    <3>4. ASSUME NEW u \in Threads, c[u].alone
          PROVE  Alone(c, u, host.advs, x, board.scans)
      <4>1. Alone(host.call, u, host.advs, wire.events, board.scans)
        BY <2>5, <2>7, <2>10, <3>1, <3>4
      <4>2. /\ c[u].taken = host.call[u].taken /\ c[u].seen = host.call[u].seen /\ c[u].of = host.call[u].of
            /\ \/ c[u].op = host.call[u].op
               \/ c[u].op = "collect" /\ host.call[u].op = "starting"
               \/ c[u].op = "stopping" /\ host.call[u].op = "collect"
        BY <1>1, <2>5, <2>7, <2>10
      <4>3. \A v \in Threads : c[v].op \in ScanOps => host.call[v].op \in ScanOps
        BY <1>1, <2>10 DEF ScanOps
      <4>4. \A i \in 1 .. Len(x) : x[i].kind = "adv" =>
              x[i].of = board.scans \/ \E j \in 1 .. Len(wire.events) : wire.events[j] = x[i]
        <5>1. \A i \in 1 .. Len(x) : x[i] = r \/ \E j \in 1 .. Len(wire.events) : wire.events[j] = x[i]
          BY <2>3, <2>8, EachMore
        <5>2. QED  BY <3>2, <5>1
      <4> DEFINE d == host.call
                 es == wire.events
                 advs == host.advs
                 n == board.scans
      <4>5. /\ Alone(d, u, advs, es, n) /\ u \in Threads
            /\ \A v \in Threads : c[v].op \in ScanOps => d[v].op \in ScanOps
            /\ \A i \in 1 .. Len(x) : x[i].kind = "adv" => x[i].of = n \/ \E j \in 1 .. Len(es) : es[j] = x[i]
        BY <4>1, <4>3, <4>4
      <4>6. c[u].taken = d[u].taken /\ c[u].seen = d[u].seen /\ c[u].of = d[u].of
        BY <4>2
      <4>7. \/ c[u].op = d[u].op
            \/ c[u].op = "collect" /\ d[u].op = "starting"
            \/ c[u].op = "stopping" /\ d[u].op = "collect"
        BY <4>2
      <4> HIDE DEF d, es, advs, n
      <4>8. Alone(c, u, advs, x, n)
        BY <4>5, <4>6, <4>7, AloneStill
      <4>9. QED  BY <4>8 DEF advs, n
    <3>5. QED  BY <3>3, <3>4
  <2>15. QED  BY <2>1, <2>7, <2>8, <2>9, <2>12, <2>13, <2>14 DEF BleInv, BleSound, BleShape, c, x
<1>4. QED  BY <1>2, <1>3 DEF Ble!ScanStop


LEMMA AdvertisesStep ==
  ASSUME BleInv, NEW addr \in Addresses, Ble!Advertises(addr)
  PROVE  BleInv'
<1>1. PICK rssi \in {1, 2}, named \in BOOLEAN :
        \/ wire' = [wire EXCEPT !.events = Append(@, [kind |-> "adv", addr |-> addr, rssi |-> rssi,
                                                     named |-> named, of |-> board.scans]), !.items = @ - 1]
        \/ Ble!Faulty /\ wire' = [Ble!Lost EXCEPT !.items = @ - 1]
  BY Zenon DEF Ble!Advertises
<1> DEFINE adv == [kind |-> "adv", addr |-> addr, rssi |-> rssi, named |-> named, of |-> board.scans]
           es == Append(wire.events, adv)
           m == wire.items - 1
<1>2. board.scanning /\ wire.items > 0 /\ UNCHANGED <<host, board>>
  BY DEF Ble!Advertises
<1>3. host.part = "scan"
  BY <1>2 DEF BleInv, BleSound, NoScan
<1>4. /\ host \in BleHosts /\ board \in BleBoards /\ wire \in BleWires /\ Awaited(host.call, wire.events)
      /\ board.scans \in Nat /\ wire.events \in Seq(BleEvents) /\ wire.items \in 0 .. Adverts
  BY BleFields
<1>5. Scanned(host, board, wire) /\ NoClient(host, board, wire) /\ Len(wire.events) \in Nat
  BY <1>3, ScanFacts
<1>6. m \in 0 .. Adverts
  BY <1>2, <1>4, BleConstants
<1>7. adv \in BleEvents /\ adv.kind = "adv" /\ adv.of = board.scans
  BY <1>4 DEF BleEvents, BleAdvs
<1> HIDE DEF adv
<1>8. es \in Seq(BleEvents) /\ Grown(wire.events, es, adv)
  BY <1>4, <1>7, GrownBy
<1> HIDE DEF es, m
<1>9. CASE Ble!Faulty /\ wire' = [Ble!Lost EXCEPT !.items = @ - 1]
  <2>1. /\ Ble!Lost \in BleWires /\ Ble!Lost.events = wire.events /\ Ble!Lost.items = wire.items
        /\ Ble!Lost.faults # Faults
    BY <1>4, <1>9, LostFault
  <2>2. wire' = [Ble!Lost EXCEPT !.items = m]
    BY <1>9, <2>1 DEF m
  <2>3. wire' \in BleWires /\ wire'.events = wire.events /\ wire'.faults # Faults
    BY <1>6, <2>1, <2>2 DEF BleWires
  <2>4. NoClient(host', board', wire')
    BY <1>2, <1>5, <2>3 DEF NoClient
  <2>5. QED  BY <1>2, <1>3, <1>4, <2>3, <2>4 DEF BleInv, BleSound, BleShape, Scanned
<1>10. CASE wire' = [wire EXCEPT !.events = es, !.items = m]
  <2>1. wire' \in BleWires /\ wire'.events = es /\ wire'.faults = wire.faults
    BY <1>4, <1>6, <1>8, <1>10 DEF BleWires
  <2>2. Awaited(host.call, es)
    <3>1. adv.kind # "reply"
      BY <1>7
    <3>2. \A u \in Threads : host.call[u].op \in Awaiting => host.call[u].op \in Awaiting
      OBVIOUS
    <3>3. QED  BY <1>4, <1>5, <1>8, <3>1, <3>2, AwaitedOther
  <2>3. NoClient(host', board', wire')
    <3>1. \A i \in 1 .. Len(wire.events) : wire.events[i].kind # "notify"
      BY <1>5 DEF NoClient
    <3>2. adv.kind # "notify"
      BY <1>7
    <3>3. \A i \in 1 .. Len(es) : es[i].kind # "notify"
      BY <1>5, <1>8, <3>1, <3>2, KindMore
    <3>4. QED  BY <1>2, <1>5, <2>1, <3>3 DEF NoClient
  <2>4. Scanned(host', board', wire')
    <3> SUFFICES ASSUME wire.faults = Faults
                 PROVE  /\ ForSomebody(host.call, es, board.scanning)
                        /\ \A u \in Threads : host.call[u].alone => Alone(host.call, u, host.advs, es, board.scans)
      BY <1>2, <2>1 DEF Scanned
    <3>1. /\ ForSomebody(host.call, wire.events, board.scanning)
          /\ \A u \in Threads : host.call[u].alone => Alone(host.call, u, host.advs, wire.events, board.scans)
      BY <1>5 DEF Scanned
    <3>2. ForSomebody(host.call, es, board.scanning)
      <4>1. adv.kind \in {"adv", "reply"}
        BY <1>7
      <4>2. \E u \in Threads : host.call[u].op \in {"starting", "collect"}
        BY <1>2, <3>1 DEF ForSomebody
      <4>3. board.scanning \/ adv.kind = "adv" => \E u \in Threads : host.call[u].op \in {"starting", "collect"}
        BY <4>2
      <4>4. \A u \in Threads : host.call[u].op \in {"starting", "collect", "stopping"} =>
              \/ host.call[u].op = host.call[u].op
              \/ host.call[u].op \in {"starting", "collect"}
              \/ host.call[u].op = "stopping" /\ adv.kind = "reply" /\ adv.to = u
        OBVIOUS
      <4>5. QED  BY <1>5, <1>8, <3>1, <4>1, <4>3, <4>4, SomebodyMore
    <3>3. ASSUME NEW u \in Threads, host.call[u].alone
          PROVE  Alone(host.call, u, host.advs, es, board.scans)
      <4>1. Alone(host.call, u, host.advs, wire.events, board.scans)
        BY <3>1, <3>3
      <4>2. \A i \in 1 .. Len(es) : es[i].kind = "adv" =>
              es[i].of = board.scans \/ \E j \in 1 .. Len(wire.events) : wire.events[j] = es[i]
        <5>1. \A i \in 1 .. Len(es) : es[i] = adv \/ \E j \in 1 .. Len(wire.events) : wire.events[j] = es[i]
          BY <1>5, <1>8, EachMore
        <5>2. QED  BY <1>7, <5>1
      <4>3. QED  BY <4>1, <4>2, AloneStill
    <3>4. QED  BY <3>2, <3>3
  <2>5. QED  BY <1>2, <1>3, <1>4, <2>1, <2>2, <2>3, <2>4 DEF BleInv, BleSound, BleShape
<1>11. QED  BY <1>1, <1>9, <1>10 DEF es, adv, m

-----------------------------------------------------------------------------
(* Events that come to the host *)

\* What Deliver leaves on the wire.
LEMMA Delivered ==
  ASSUME BleInv, Ble!Deliver
  PROVE  /\ board' = board /\ wire' \in BleWires /\ wire'.faults = wire.faults
         /\ wire.events # <<>> /\ Head(wire.events) = wire.events[1]
         /\ wire.events[1] \in BleEvents /\ 1 \in 1 .. Len(wire.events)
         /\ Len(wire'.events) \in Nat /\ Shrunk(wire.events, wire'.events)
<1> DEFINE es == wire.events
           x == Tail(wire.events)
<1>1. es # <<>> /\ wire' = [wire EXCEPT !.events = x] /\ board' = board
  BY DEF Ble!Deliver
<1>2. es \in Seq(BleEvents) /\ wire \in BleWires
  BY BleFields
<1>3. x \in Seq(BleEvents) /\ Head(es) \in BleEvents /\ Head(es) = es[1] /\ Len(x) \in Nat /\ Shrunk(es, x)
  BY <1>1, <1>2, ShrunkBy
<1> HIDE DEF x
<1>4. wire' \in BleWires /\ wire'.faults = wire.faults /\ wire'.events = x
  BY <1>1, <1>2, <1>3 DEF BleWires
<1>5. 1 \in 1 .. Len(es)
  BY <1>3 DEF Shrunk
<1>6. QED  BY <1>1, <1>3, <1>4, <1>5

LEMMA AdvComes ==
  ASSUME BleInv, Ble!Deliver, wire.events[1].kind = "adv"
  PROVE  BleInv'
<1> DEFINE e == wire.events[1]
           x == wire'.events
           advs == host'.advs
<1>1. /\ board' = board /\ wire' \in BleWires /\ wire'.faults = wire.faults
      /\ Head(wire.events) = e /\ e \in BleEvents /\ 1 \in 1 .. Len(wire.events)
      /\ Len(x) \in Nat /\ Shrunk(wire.events, x)
  BY Delivered
<1>2. host.part = "scan"
  BY <1>1 DEF BleInv, BleSound, NoScan
<1>3. /\ host \in BleHosts /\ board \in BleBoards /\ wire \in BleWires /\ Awaited(host.call, wire.events)
      /\ host.advs \in Seq(BleAdvs)
  BY BleFields
<1>4. Scanned(host, board, wire) /\ NoClient(host, board, wire)
  BY <1>2, ScanFacts
<1>5. e \in BleAdvs
  BY <1>1 DEF BleEvents, BleNotes, BleReplies
<1>6. host' = [host EXCEPT !.advs = IF Len(host.advs) < Depth THEN Append(host.advs, e) ELSE host.advs]
  BY <1>1 DEF Ble!Deliver, Ble!OnAdv
<1>7. /\ host' \in BleHosts /\ host'.part = host.part /\ host'.call = host.call /\ host'.got = host.got
      /\ \A i \in 1 .. Len(advs) : advs[i] = e \/ \E j \in 1 .. Len(host.advs) : host.advs[j] = advs[i]
  <2>1. CASE Len(host.advs) < Depth
    <3> DEFINE a == Append(host.advs, e)
    <3>1. a \in Seq(BleAdvs) /\ Len(host.advs) \in Nat /\ Grown(host.advs, a, e)
      BY <1>3, <1>5, GrownBy
    <3>2. \A i \in 1 .. Len(a) : a[i] = e \/ \E j \in 1 .. Len(host.advs) : host.advs[j] = a[i]
      BY <3>1, EachMore
    <3>3. host' = [host EXCEPT !.advs = a]
      BY <1>6, <2>1
    <3> HIDE DEF a, e
    <3>4. /\ host' \in BleHosts /\ host'.part = host.part /\ host'.call = host.call /\ host'.got = host.got
          /\ host'.advs = a
      BY <1>3, <3>1, <3>3 DEF BleHosts
    <3>5. QED  BY <3>2, <3>4
  <2>2. CASE ~(Len(host.advs) < Depth)
    <3>1. host' = host
      BY <1>3, <1>6, <2>2 DEF BleHosts
    <3>2. QED  BY <1>3, <3>1
  <2>3. QED  BY <2>1, <2>2
<1> HIDE DEF e, x, advs
<1>8. e.kind = "adv"
  BY DEF e
<1>9. Awaited(host.call, x)
  <2>1. \A u \in Threads : host.call[u].op \in Awaiting /\ (wire.events[1].kind = "reply" => u # wire.events[1].to)
          => host.call[u].op \in Awaiting
    OBVIOUS
  <2>2. QED  BY <1>1, <1>3, <2>1, AwaitedLess
<1>10. \A i \in 1 .. Len(x) : \E j \in 1 .. Len(wire.events) : wire.events[j] = x[i]
  BY <1>1, EachLess
<1>11. NoClient(host', board', wire')
  BY <1>1, <1>4, <1>7, <1>10 DEF NoClient, x
<1>12. Scanned(host', board', wire')
  <2> SUFFICES ASSUME wire.faults = Faults
               PROVE  /\ ForSomebody(host.call, x, board.scanning)
                      /\ \A u \in Threads : host.call[u].alone => Alone(host.call, u, advs, x, board.scans)
    BY <1>1, <1>7 DEF Scanned, x, advs
  <2>1. /\ ForSomebody(host.call, wire.events, board.scanning)
        /\ \A u \in Threads : host.call[u].alone => Alone(host.call, u, host.advs, wire.events, board.scans)
    BY <1>4 DEF Scanned
  <2>2. ForSomebody(host.call, x, board.scanning)
    <3>1. wire.events[1].kind # "reply"
      OBVIOUS
    <3>2. \A u \in Threads : ~(wire.events[1].kind = "reply" /\ wire.events[1].to = u) =>
            host.call[u].op = host.call[u].op
      OBVIOUS
    <3>3. QED  BY <1>1, <1>3, <2>1, <3>1, <3>2, SomebodyLess
  <2>3. ASSUME NEW u \in Threads, host.call[u].alone
        PROVE  Alone(host.call, u, advs, x, board.scans)
    <3>1. Alone(host.call, u, host.advs, wire.events, board.scans)
      BY <2>1, <2>3
    <3>2. /\ Gathered(host.call[u])
          /\ host.call[u].op \in ScanOps => \A v \in Threads : host.call[v].op \in ScanOps => v = u
      BY <3>1 DEF Alone
    <3>3. host.call[u].op # "start"
      <4>1. PICK v \in Threads : host.call[v].op \in {"starting", "collect", "stopping"}
        BY <1>1, <2>1 DEF ForSomebody
      <4>2. host.call[v].op \in ScanOps /\ host.call[v].op # "start"
        BY <4>1 DEF ScanOps
      <4>3. host.call[u].op \in ScanOps => v = u
        BY <3>2, <4>2
      <4>4. QED  BY <4>2, <4>3 DEF ScanOps
    <3>4. ASSUME host.call[u].op \in {"starting", "collect", "stopping"}
          PROVE  /\ host.call[u].of = board.scans
                 /\ \A i \in 1 .. Len(advs) : advs[i].of = board.scans
                 /\ \A i \in 1 .. Len(x) : x[i].kind = "adv" => x[i].of = board.scans
      <4>1. /\ host.call[u].of = board.scans
            /\ \A i \in 1 .. Len(host.advs) : host.advs[i].of = board.scans
            /\ \A i \in 1 .. Len(wire.events) : wire.events[i].kind = "adv" => wire.events[i].of = board.scans
        BY <3>1, <3>4 DEF Alone
      <4>2. e.of = board.scans
        BY <1>1, <1>8, <4>1 DEF e
      <4>3. QED  BY <1>7, <1>10, <4>1, <4>2, SMTT(60)
    <3>5. QED  BY <3>2, <3>3, <3>4 DEF Alone
  <2>4. QED  BY <2>2, <2>3
<1>13. QED  BY <1>1, <1>2, <1>3, <1>7, <1>9, <1>11, <1>12 DEF BleInv, BleSound, BleShape, x


\* The thread that the reply is for, which waits.
LEMMA ReplyTo ==
  ASSUME BleInv, wire.events # <<>>, wire.events[1].kind = "reply", 1 \in 1 .. Len(wire.events)
  PROVE  /\ wire.events[1].to \in Threads
         /\ host.call[wire.events[1].to].op \in Awaiting
         /\ host.call[wire.events[1].to] \in BleCalls
<1>1. Awaited(host.call, wire.events) /\ host.call \in [Threads -> BleCalls]
  BY BleFields
<1>2. QED  BY <1>1 DEF Awaited

LEMMA ScanReply ==
  ASSUME BleInv, Ble!Deliver, wire.events[1].kind = "reply", host.part = "scan"
  PROVE  BleInv'
<1> DEFINE e == wire.events[1]
           t == wire.events[1].to
           x == wire'.events
           c == host'.call
           d == host.call
           es == wire.events
           o == IF d[t].op = "starting" THEN "collect" ELSE "none"
           k == [d[t] EXCEPT !.op = o]
<1>1. /\ board' = board /\ wire' \in BleWires /\ wire'.faults = wire.faults
      /\ Head(wire.events) = e /\ e \in BleEvents /\ 1 \in 1 .. Len(wire.events) /\ wire.events # <<>>
      /\ Len(x) \in Nat /\ Shrunk(es, x)
  BY Delivered
<1>2. /\ host \in BleHosts /\ board \in BleBoards /\ wire \in BleWires /\ Awaited(d, es)
      /\ host.advs \in Seq(BleAdvs) /\ host.streams \in SUBSET Threads
  BY BleFields
<1>3. /\ Scanned(host, board, wire) /\ NoClient(host, board, wire)
      /\ \A u \in Threads : d[u] \in BleCalls /\ d[u].op \notin ClientOps
  BY ScanFacts
<1>4. t \in Threads /\ d[t] \in BleCalls /\ (d[t].op = "starting" \/ d[t].op = "stopping")
  <2>1. t \in Threads /\ d[t].op \in Awaiting /\ d[t] \in BleCalls
    BY <1>1, ReplyTo
  <2>2. QED  BY <1>3, <2>1 DEF Awaiting
<1>5. host' = Ble!Return(t)
  BY <1>1 DEF Ble!Deliver
<1>6. k \in BleCalls
  <2>1. \A q \in BleCalls, p \in {"none"} \cup ScanOps \cup ClientOps : [q EXCEPT !.op = p] \in BleCalls
    BY BleTypes, Zenon
  <2>2. o \in {"none"} \cup ScanOps
    BY DEF ScanOps
  <2> HIDE DEF o
  <2>3. QED  BY <1>4, <2>1, <2>2
<1>7. k.op = o /\ k.of = d[t].of /\ k.taken = d[t].taken /\ k.seen = d[t].seen /\ k.alone = d[t].alone
  BY <1>4 DEF BleCalls
<1>8. /\ host' \in BleHosts /\ host'.call[t] = k /\ (\A u \in Threads \ {t} : host'.call[u] = host.call[u])
      /\ host'.part = host.part /\ host'.got = host.got /\ host'.advs = host.advs
  <2>1. CASE d[t].op = "starting"
    <3>1. host' = [host EXCEPT !.call[t] = k]
      BY <1>2, <1>4, <1>5, <2>1 DEF Ble!Return, Ble!Op, Ble!Then, BleHosts
    <3> HIDE DEF k
    <3>2. QED  BY <1>2, <1>4, <1>6, <3>1 DEF BleHosts
  <2>2. CASE d[t].op = "stopping"
    <3> DEFINE h == [host EXCEPT !.call[t] = k]
               s == host.streams \ {t}
    <3>1. host' = [h EXCEPT !.streams = s]
      BY <1>2, <1>4, <1>5, <2>2 DEF Ble!Return, Ble!Op, BleHosts
    <3> HIDE DEF k
    <3>2. /\ h \in BleHosts /\ h.call[t] = k /\ (\A u \in Threads \ {t} : h.call[u] = host.call[u])
          /\ h.part = host.part /\ h.got = host.got /\ h.advs = host.advs
      BY <1>2, <1>4, <1>6 DEF BleHosts
    <3>3. s \in SUBSET Threads
      BY <1>2
    <3> HIDE DEF h, s
    <3>4. /\ host' \in BleHosts /\ host'.call = h.call
          /\ host'.part = h.part /\ host'.got = h.got /\ host'.advs = h.advs
      BY <3>1, <3>2, <3>3 DEF BleHosts
    <3>5. QED  BY <3>2, <3>4
  <2>3. QED  BY <1>4, <2>1, <2>2
<1>9. c[t] = k /\ (\A u \in Threads : u # t => c[u] = d[u]) /\ e.kind = "reply" /\ e.to = t /\ es[1] = e
  BY <1>8
<1>10. \/ d[t].op = "starting" /\ k.op = "collect"
       \/ d[t].op = "stopping" /\ k.op = "none"
  BY <1>4, <1>7
<1> HIDE DEF e, x, c, k, t, o, d, es
<1>11. Awaited(c, x)
  <2>1. \A u \in Threads : d[u].op \in Awaiting /\ (es[1].kind = "reply" => u # es[1].to) => c[u].op \in Awaiting
    BY <1>9
  <2>2. QED  BY <1>1, <1>2, <2>1, AwaitedLess
<1>12. \A i \in 1 .. Len(x) : \E j \in 1 .. Len(es) : es[j] = x[i]
  BY <1>1, EachLess
<1>13. NoClient(host', board', wire')
  <2>1. \A u \in Threads : c[u].op \notin ClientOps
    <3>1. "collect" \notin ClientOps /\ "none" \notin ClientOps
      BY DEF ClientOps
    <3>2. QED  BY <1>3, <1>9, <1>10, <3>1, Zenon
  <2>2. \A i \in 1 .. Len(x) : x[i].kind # "notify"
    BY <1>3, <1>12 DEF NoClient, es
  <2>3. QED  BY <1>1, <1>3, <1>8, <2>1, <2>2 DEF NoClient, x, c
<1>14. Scanned(host', board', wire')
  <2> SUFFICES ASSUME wire.faults = Faults
               PROVE  /\ ForSomebody(c, x, board.scanning)
                      /\ \A u \in Threads : c[u].alone => Alone(c, u, host.advs, x, board.scans)
    BY <1>1, <1>8 DEF Scanned, x, c
  <2>1. /\ ForSomebody(d, es, board.scanning)
        /\ \A u \in Threads : d[u].alone => Alone(d, u, host.advs, es, board.scans)
    BY <1>3 DEF Scanned, d, es
  <2>2. ForSomebody(c, x, board.scanning)
    <3>1. \A u \in Threads : ~(es[1].kind = "reply" /\ es[1].to = u) => c[u].op = d[u].op
      BY <1>9
    <3>2. es[1].kind = "reply" =>
            d[es[1].to].op = "stopping" \/ (d[es[1].to].op = "starting" /\ c[es[1].to].op = "collect")
      BY <1>9, <1>10
    <3>3. QED  BY <1>1, <1>2, <2>1, <3>1, <3>2, SomebodyLess
  <2>3. ASSUME NEW u \in Threads, c[u].alone
        PROVE  Alone(c, u, host.advs, x, board.scans)
    <3> DEFINE advs == host.advs
               n == board.scans
    <3> HIDE DEF advs, n
    <3>1. Alone(d, u, advs, es, n)
      <4>1. d[u].alone
        BY <1>7, <1>9, <2>3 DEF d
      <4>2. QED  BY <2>1, <4>1 DEF advs, n
    <3>2. c[u].taken = d[u].taken /\ c[u].seen = d[u].seen /\ c[u].of = d[u].of
      BY <1>7, <1>9
    <3>3. CASE u = t /\ d[t].op = "stopping"
      <4>1. Gathered(d[u])
        BY <3>1 DEF Alone
      <4>2. c[u].op \notin ScanOps
        BY <1>9, <1>10, <3>3 DEF ScanOps
      <4>3. Alone(c, u, advs, x, n)
        BY <3>2, <4>1, <4>2, AloneIdle
      <4>4. QED  BY <4>3 DEF advs, n
    <3>4. CASE ~(u = t /\ d[t].op = "stopping")
      <4>1. \/ c[u].op = d[u].op
            \/ c[u].op = "collect" /\ d[u].op = "starting"
            \/ c[u].op = "stopping" /\ d[u].op = "collect"
        BY <1>9, <1>10, <3>4
      <4>2. \A v \in Threads : c[v].op \in ScanOps => d[v].op \in ScanOps
        BY <1>4, <1>9 DEF ScanOps
      <4>3. \A i \in 1 .. Len(x) : x[i].kind = "adv" => x[i].of = n \/ \E j \in 1 .. Len(es) : es[j] = x[i]
        BY <1>12
      <4>4. Alone(c, u, advs, x, n)
        BY <3>1, <3>2, <4>1, <4>2, <4>3, AloneStill
      <4>5. QED  BY <4>4 DEF advs, n
    <3>5. QED  BY <3>3, <3>4
  <2>4. QED  BY <2>2, <2>3
<1>15. QED  BY <1>1, <1>2, <1>8, <1>11, <1>13, <1>14 DEF BleInv, BleSound, BleShape, x, c

-----------------------------------------------------------------------------
(* Steps of connect() and of GattClient *)

LEMMA ClientParts ==
  ASSUME BleInv, board.peer # Ble!Nobody
  PROVE  host.part = "client"
  BY DEF BleInv, BleSound, NoClient

LEMMA ClientFacts ==
  ASSUME BleInv, host.part = "client"
  PROVE  /\ Connected(host, board, wire) /\ NoScan(host, board, wire)
         /\ Len(wire.events) \in Nat /\ Len(host.clients) \in Nat
         /\ \A t \in Threads : /\ host.call[t] \in BleCalls /\ host.call[t].op \notin ScanOps
                               /\ host.call[t].taken = {} /\ host.call[t].seen = {}
<1>1. Connected(host, board, wire) /\ NoScan(host, board, wire)
  BY DEF BleInv, BleSound
<1>2. wire.events \in Seq(BleEvents) /\ host.call \in [Threads -> BleCalls] /\ host.clients \in Seq(BleClients)
  BY BleFields
<1>3. Len(wire.events) \in Nat /\ Len(host.clients) \in Nat
  BY <1>2, LenProperties
<1>4. QED  BY <1>1, <1>2, <1>3 DEF NoScan

\* An event more, whose notification is the newest client's.
LEMMA NotifiedMore ==
  ASSUME NEW h, NEW g, NEW es, NEW x, NEW e, Notified(h, es), Len(es) \in Nat, Grown(es, x, e),
         Len(g.clients) = Len(h.clients), Newest(g) = Newest(h),
         \A i \in 1 .. Len(es) : es[i].kind = "notify" /\ es[i].from = Newest(h) =>
           (g.callback[es[i].char] # Ble!None => CalledFor(g, g.callback[es[i].char]) = es[i].from),
         \A j \in 1 .. Len(es) : es[j].kind = "reply" /\ Connecting(g, es[j].to) => Connecting(h, es[j].to),
         e.kind = "notify" =>
           /\ Len(h.clients) > 0 /\ e.from = Newest(h)
           /\ g.callback[e.char] # Ble!None => CalledFor(g, g.callback[e.char]) = e.from
           /\ \A j \in 1 .. Len(es) : es[j].kind = "reply" => ~Connecting(h, es[j].to)
  PROVE  Notified(g, x)
<1> DEFINE n == Len(es)
<1>1. n \in Nat /\ Len(x) = n + 1 /\ x[n + 1] = e /\ \A i \in 1 .. n : x[i] = es[i]
  BY DEF Grown
<1>2. \A i \in 1 .. n : es[i].kind = "notify" =>
        /\ Len(h.clients) > 0 /\ es[i].from = Newest(h)
        /\ \A j \in 1 .. n : es[j].kind = "reply" /\ Connecting(h, es[j].to) => i < j
  BY DEF Notified
<1>3. /\ \A i \in 1 .. n : es[i].kind = "notify" /\ es[i].from = Newest(h) =>
           (g.callback[es[i].char] # Ble!None => CalledFor(g, g.callback[es[i].char]) = es[i].from)
      /\ \A j \in 1 .. n : es[j].kind = "reply" /\ Connecting(g, es[j].to) => Connecting(h, es[j].to)
      /\ e.kind = "notify" => \A j \in 1 .. n : es[j].kind = "reply" => ~Connecting(h, es[j].to)
  OBVIOUS
<1> HIDE DEF n
<1>4. /\ \A i \in 1 .. n + 1 : i \in 1 .. n \/ i = n + 1
      /\ \A i \in 1 .. n : i < n + 1
  BY <1>1
<1>5. ASSUME NEW i \in 1 .. n + 1, x[i].kind = "notify"
      PROVE  /\ Len(g.clients) > 0 /\ x[i].from = Newest(g)
             /\ g.callback[x[i].char] # Ble!None => CalledFor(g, g.callback[x[i].char]) = x[i].from
             /\ \A j \in 1 .. n + 1 : x[j].kind = "reply" /\ Connecting(g, x[j].to) => i < j
  <2>1. CASE i = n + 1
    <3>1. x[i] = e /\ e.kind = "notify"
      BY <1>1, <1>5, <2>1
    <3>2. \A j \in 1 .. n + 1 : x[j].kind = "reply" => ~Connecting(g, x[j].to)
      <4>1. \A j \in 1 .. n : x[j].kind = "reply" => ~Connecting(g, x[j].to)
        BY <1>1, <1>3, <3>1
      <4>2. x[n + 1].kind # "reply"
        BY <1>1, <3>1
      <4>3. QED  BY <1>4, <4>1, <4>2
    <3>3. QED  BY <3>1, <3>2
  <2>2. CASE i \in 1 .. n
    <3>1. x[i] = es[i]
      BY <1>1, <2>2
    <3>2. \A j \in 1 .. n + 1 : x[j].kind = "reply" /\ Connecting(g, x[j].to) => i < j
      <4>1. \A j \in 1 .. n : x[j].kind = "reply" /\ Connecting(g, x[j].to) => i < j
        BY <1>1, <1>2, <1>3, <1>5, <2>2, <3>1
      <4>2. QED  BY <1>4, <2>2, <4>1
    <3>3. QED  BY <1>2, <1>3, <1>5, <2>2, <3>1, <3>2
  <2>3. QED  BY <1>4, <2>1, <2>2
<1>6. QED  BY <1>1, <1>5 DEF Notified

\* The first event is taken.
LEMMA NotifiedLess ==
  ASSUME NEW h, NEW g, NEW es, NEW x, Notified(h, es), Len(x) \in Nat, Shrunk(es, x),
         Len(g.clients) = Len(h.clients), Newest(g) = Newest(h),
         g.callback = h.callback, \A cb : CalledFor(g, cb) = CalledFor(h, cb),
         \A u \in Threads : Connecting(g, u) => Connecting(h, u),
         \A i \in 1 .. Len(es) : es[i].kind = "reply" => es[i].to \in Threads
  PROVE  Notified(g, x)
<1>1. \A i \in 1 .. Len(x) : i + 1 \in 1 .. Len(es) /\ x[i] = es[i + 1]
  BY DEF Shrunk
<1>2. \A i, j \in 1 .. Len(x) : i + 1 < j + 1 => i < j
  OBVIOUS
<1>3. \A i \in 1 .. Len(x) : x[i].kind = "notify" =>
        /\ Len(h.clients) > 0 /\ x[i].from = Newest(h)
        /\ h.callback[x[i].char] # Ble!None => CalledFor(h, h.callback[x[i].char]) = x[i].from
        /\ \A j \in 1 .. Len(x) : x[j].kind = "reply" /\ Connecting(h, x[j].to) => i < j
  BY <1>1, <1>2, ZenonT(60) DEF Notified
<1>4. \A j \in 1 .. Len(x) : x[j].kind = "reply" => x[j].to \in Threads
  BY <1>1
<1>5. QED  BY <1>3, <1>4 DEF Notified


\* The calls of threads that ask something of a board.
LEMMA IdleAsks == Ble!Idle \in BleCalls /\ Ble!Idle.taken = {} /\ Ble!Idle.seen = {}
  BY BleTypes, Zenon DEF Ble!Idle

\* Nobody who waits for nothing has a reply on its way.
LEMMA NoReply ==
  ASSUME NEW call, NEW es, NEW t, Awaited(call, es), call[t].op \notin Awaiting
  PROVE  \A i \in 1 .. Len(es) : es[i].kind = "reply" => es[i].to # t /\ es[i].to \in Threads
  BY DEF Awaited

LEMMA ConnectCallStep ==
  ASSUME BleInv, NEW t \in Threads, Ble!ConnectCall(t)
  PROVE  BleInv'
<1>1. /\ host.part = "client" /\ host.call[t].op = "none" /\ wire.calls > 0 /\ board.peer = Ble!Nobody
      /\ wire' = [Ble!Replied(wire, t) EXCEPT !.calls = @ - 1]
  BY DEF Ble!ConnectCall, Ble!Is, Ble!Op
<1>2. PICK p \in Peers : /\ host' = [host EXCEPT !.call[t] = [Ble!Idle EXCEPT !.op = "connect", !.peer = p]]
                         /\ board' = [board EXCEPT !.peer = p]
  BY Zenon DEF Ble!ConnectCall
<1> DEFINE k == [Ble!Idle EXCEPT !.op = "connect", !.peer = p]
           c == host'.call
           d == host.call
           es == wire.events
           x == wire'.events
           r == [kind |-> "reply", to |-> t]
<1>3. /\ host \in BleHosts /\ board \in BleBoards /\ wire \in BleWires /\ Awaited(d, es)
      /\ wire.calls \in 0 .. Tries
  BY BleFields
<1>4. /\ Connected(host, board, wire) /\ NoScan(host, board, wire) /\ Len(es) \in Nat
  BY <1>1, ClientFacts
<1>5. k \in BleCalls /\ k.op = "connect" /\ k.peer = p /\ k.taken = {} /\ k.seen = {}
  <2> DEFINE i == Ble!Idle
  <2>1. i \in BleCalls /\ i.taken = {} /\ i.seen = {}
    BY IdleAsks
  <2>2. k = [i EXCEPT !.op = "connect", !.peer = p]
    OBVIOUS
  <2> HIDE DEF k, i
  <2>3. QED  BY <2>1, <2>2 DEF BleCalls, ClientOps
<1> HIDE DEF k
<1>6. /\ host' \in BleHosts /\ c[t] = k /\ (\A u \in Threads \ {t} : c[u] = d[u])
      /\ host'.part = host.part /\ host'.got = host.got /\ host'.clients = host.clients
      /\ host'.callback = host.callback /\ host'.stale = host.stale
  <2>1. host' = [host EXCEPT !.call[t] = k]
    BY <1>2 DEF k
  <2>2. QED  BY <1>3, <1>5, <2>1 DEF BleHosts
<1>7. /\ wire' \in BleWires /\ Grown(es, x, r)
  <2> DEFINE w == Ble!Replied(wire, t)
             m == wire.calls - 1
  <2>1. w \in BleWires /\ Grown(es, w.events, r) /\ w.calls = wire.calls
    BY <1>3, RepliedMore
  <2>2. m \in 0 .. Tries
    BY <1>1, <1>3, BleConstants
  <2>3. wire' = [w EXCEPT !.calls = m]
    BY <1>1, <2>1
  <2> HIDE DEF w, m
  <2>4. wire' \in BleWires /\ x = w.events
    BY <2>1, <2>2, <2>3 DEF BleWires
  <2>5. QED  BY <2>1, <2>4
<1>8. board' \in BleBoards /\ board'.on = board.on /\ board'.scanning = board.scanning
  BY <1>2, <1>3 DEF BleBoards
<1>9. r.kind = "reply" /\ r.to = t
  OBVIOUS
<1> HIDE DEF c, d, es, x
<1>10. c[t].op = "connect" /\ d[t].op = "none" /\ \A u \in Threads : u # t => c[u] = d[u]
  BY <1>1, <1>5, <1>6 DEF d
<1>11. d[t].op \notin Awaiting /\ c[t].op \in Awaiting
  BY <1>10 DEF Awaiting, ClientOps
<1>12. Awaited(c, x)
  <2>1. \A u \in Threads : u # t /\ d[u].op \in Awaiting => c[u].op \in Awaiting
    BY <1>10
  <2>2. QED  BY <1>3, <1>4, <1>7, <1>11, <2>1, AwaitedMore
<1>13. NoScan(host', board', wire')
  <2>1. \A i \in 1 .. Len(x) : x[i].kind # "adv"
    <3>1. \A i \in 1 .. Len(es) : es[i].kind # "adv"
      BY <1>4 DEF NoScan, es
    <3>2. r.kind # "adv"
      BY <1>9
    <3> HIDE DEF r
    <3>3. QED  BY <1>4, <1>7, <3>1, <3>2, KindMore
  <2>2. \A u \in Threads : c[u].op \notin ScanOps /\ c[u].taken = {} /\ c[u].seen = {}
    <3>1. "connect" \notin ScanOps
      BY DEF ScanOps
    <3>2. QED  BY <1>4, <1>5, <1>6, <3>1 DEF NoScan, d
  <2>3. QED  BY <1>4, <1>8, <2>1, <2>2 DEF NoScan, c, x
<1>14. Connected(host', board', wire')
  <2>1. board.on = {}
    BY <1>1, <1>4 DEF Connected, SwitchedOn
  <2>2. SwitchedOn(host', board')
    BY <1>8, <2>1 DEF SwitchedOn
  <2>3. \A u \in Threads : Connecting(host', u) => host'.call[u].peer \in Peers
    BY <1>4, <1>5, <1>6 DEF Connected, Connecting, c, d
  <2>4. ~host.stale => Called(host')
    BY <1>4, <1>6 DEF Connected, Called, CalledFor
  <2>5. ~host.stale => Notified(host', x)
    <3> SUFFICES ASSUME ~host.stale PROVE Notified(host', x)
      OBVIOUS
    <3>1. Notified(host, es)
      BY <1>4 DEF Connected, es
    <3>2. Len(host'.clients) = Len(host.clients) /\ Newest(host') = Newest(host)
      BY <1>6 DEF Newest
    <3>3. \A i \in 1 .. Len(es) : es[i].kind = "notify" /\ es[i].from = Newest(host) =>
           (host'.callback[es[i].char] # Ble!None => CalledFor(host', host'.callback[es[i].char]) = es[i].from)
      BY <1>6, <3>1 DEF Notified, CalledFor
    <3>4. \A j \in 1 .. Len(es) : es[j].kind = "reply" /\ Connecting(host', es[j].to) => Connecting(host, es[j].to)
      <4>1. \A j \in 1 .. Len(es) : es[j].kind = "reply" => es[j].to # t /\ es[j].to \in Threads
        BY <1>3, <1>11, NoReply
      <4>2. QED  BY <1>10, <4>1 DEF Connecting, c, d
    <3>5. r.kind # "notify"
      BY <1>9
    <3> HIDE DEF r
    <3> DEFINE h == host
               g == host'
    <3>6. /\ Notified(h, es) /\ Len(g.clients) = Len(h.clients) /\ Newest(g) = Newest(h)
          /\ \A i \in 1 .. Len(es) : es[i].kind = "notify" /\ es[i].from = Newest(h) =>
               (g.callback[es[i].char] # Ble!None => CalledFor(g, g.callback[es[i].char]) = es[i].from)
          /\ \A j \in 1 .. Len(es) : es[j].kind = "reply" /\ Connecting(g, es[j].to) => Connecting(h, es[j].to)
      BY <3>1, <3>2, <3>3, <3>4
    <3> HIDE DEF g, h
    <3>7. Notified(g, x)
      BY <1>4, <1>7, <3>5, <3>6, NotifiedMore
    <3>8. QED  BY <3>7 DEF g
  <2>6. QED  BY <1>6, <2>2, <2>3, <2>4, <2>5 DEF Connected, x
<1>15. QED  BY <1>1, <1>6, <1>7, <1>8, <1>12, <1>13, <1>14 DEF BleInv, BleSound, BleShape, c, x

\* What does not change of the host, the board's scanner and the events.
LEMMA ClientStill ==
  ASSUME BleInv, host.part = "client", host' = host, board' \in BleBoards, wire' \in BleWires,
         board'.scanning = board.scanning, wire'.events = wire.events, SwitchedOn(host, board')
  PROVE  BleInv'
<1>1. Connected(host, board, wire) /\ NoScan(host, board, wire)
  BY ClientFacts
<1>2. host \in BleHosts /\ Awaited(host.call, wire.events)
  BY BleFields
<1>3. NoScan(host', board', wire')
  BY <1>1 DEF NoScan
<1>4. Connected(host', board', wire')
  BY <1>1 DEF Connected
<1>5. QED  BY <1>2, <1>3, <1>4 DEF BleInv, BleSound, BleShape

LEMMA ConnectFailsStep ==
  ASSUME BleInv, NEW t \in Threads, Ble!ConnectFails(t)
  PROVE  BleInv'
<1>1. /\ host.part = "client" /\ wire.calls > 0 /\ host' = host
      /\ \/ board.peer # Ble!Nobody /\ wire' = [wire EXCEPT !.calls = @ - 1] /\ board' = board
         \/ /\ board.peer = Ble!Nobody /\ Ble!Faulty
            /\ wire' = [Ble!Lost EXCEPT !.calls = @ - 1]
            /\ \E p \in Peers \cup {Ble!Nobody} : board' = [board EXCEPT !.peer = p]
  BY DEF Ble!ConnectFails, Ble!Is
<1>2. /\ host \in BleHosts /\ board \in BleBoards /\ wire \in BleWires /\ wire.calls \in 0 .. Tries
  BY BleFields
<1>3. Connected(host, board, wire)
  BY <1>1, ClientFacts
<1> DEFINE m == wire.calls - 1
<1>4. m \in 0 .. Tries
  BY <1>1, <1>2, BleConstants
<1>5. CASE wire' = [wire EXCEPT !.calls = @ - 1] /\ board' = board
  <2>1. wire' = [wire EXCEPT !.calls = m]
    BY <1>5
  <2> HIDE DEF m
  <2>2. wire' \in BleWires /\ wire'.events = wire.events
    BY <1>2, <1>4, <2>1 DEF BleWires
  <2>3. SwitchedOn(host, board') /\ board' \in BleBoards /\ board'.scanning = board.scanning
    BY <1>2, <1>3, <1>5 DEF Connected
  <2>4. QED  BY <1>1, <2>2, <2>3, ClientStill
<1>6. CASE /\ board.peer = Ble!Nobody /\ Ble!Faulty
           /\ wire' = [Ble!Lost EXCEPT !.calls = @ - 1]
           /\ \E p \in Peers \cup {Ble!Nobody} : board' = [board EXCEPT !.peer = p]
  <2>1. Ble!Lost \in BleWires /\ Ble!Lost.events = wire.events /\ Ble!Lost.calls = wire.calls
    BY <1>2, <1>6, LostFault
  <2>2. wire' = [Ble!Lost EXCEPT !.calls = m]
    BY <1>6, <2>1
  <2> HIDE DEF m
  <2>3. wire' \in BleWires /\ wire'.events = wire.events
    BY <1>4, <2>1, <2>2 DEF BleWires
  <2>4. board.on = {}
    BY <1>3, <1>6 DEF Connected, SwitchedOn
  <2>5. board' \in BleBoards /\ board'.on = board.on /\ board'.scanning = board.scanning
    BY <1>2, <1>6 DEF BleBoards
  <2>6. SwitchedOn(host, board')
    BY <2>4, <2>5 DEF SwitchedOn
  <2>7. QED  BY <1>1, <2>3, <2>5, <2>6, ClientStill
<1>7. QED  BY <1>1, <1>5, <1>6

LEMMA PeerDropsStep ==
  ASSUME BleInv, Ble!PeerDrops
  PROVE  BleInv'
<1>1. /\ board.peer # Ble!Nobody /\ Ble!Faulty /\ wire' = Ble!Lost /\ host' = host
      /\ board' = [board EXCEPT !.peer = Ble!Nobody, !.on = {}]
  BY DEF Ble!PeerDrops
<1>2. host.part = "client"
  BY <1>1, ClientParts
<1>3. board \in BleBoards /\ wire \in BleWires
  BY BleFields
<1>4. wire' \in BleWires /\ wire'.events = wire.events
  BY <1>1, <1>3, LostFault
<1>5. board' \in BleBoards /\ board'.on = {} /\ board'.scanning = board.scanning
  BY <1>1, <1>3 DEF BleBoards
<1>6. SwitchedOn(host, board')
  BY <1>5 DEF SwitchedOn
<1>7. QED  BY <1>1, <1>2, <1>4, <1>5, <1>6, ClientStill


LEMMA NotifiesStep ==
  ASSUME BleInv, NEW ch \in Ble!Chars, Ble!Notifies(ch)
  PROVE  BleInv'
<1> DEFINE e == [kind |-> "notify", char |-> ch, from |-> board.peer]
           es == wire.events
           x == Append(wire.events, e)
           m == wire.items - 1
<1>1. /\ board.peer # Ble!Nobody /\ ch \in board.on /\ wire.items > 0 /\ host' = host /\ board' = board
      /\ wire' = [wire EXCEPT !.items = m, !.events = x]
  BY DEF Ble!Notifies
<1>2. host.part = "client"
  BY <1>1, ClientParts
<1>3. /\ host \in BleHosts /\ board \in BleBoards /\ wire \in BleWires /\ Awaited(host.call, es)
      /\ es \in Seq(BleEvents) /\ wire.items \in 0 .. Adverts /\ board.peer \in Peers \cup {Ble!Nobody}
  BY BleFields
<1>4. Connected(host, board, wire) /\ NoScan(host, board, wire) /\ Len(es) \in Nat
  BY <1>2, ClientFacts
<1>5. m \in 0 .. Adverts
  BY <1>1, <1>3, BleConstants
<1>6. e \in BleEvents /\ e.kind = "notify" /\ e.char = ch /\ e.from = board.peer
  BY <1>1, <1>3 DEF BleEvents, BleNotes
<1> HIDE DEF e
<1>7. x \in Seq(BleEvents) /\ Grown(es, x, e)
  BY <1>3, <1>6, GrownBy
<1> HIDE DEF es, x, m
<1>8. wire' \in BleWires /\ wire'.events = x
  BY <1>1, <1>3, <1>5, <1>7 DEF BleWires
<1>9. Awaited(host.call, x)
  <2>1. e.kind # "reply" /\ \A u \in Threads : host.call[u].op \in Awaiting => host.call[u].op \in Awaiting
    BY <1>6
  <2>2. QED  BY <1>3, <1>4, <1>7, <2>1, AwaitedOther
<1>10. NoScan(host', board', wire')
  <2>1. \A i \in 1 .. Len(es) : es[i].kind # "adv"
    BY <1>4 DEF NoScan, es
  <2>2. e.kind # "adv"
    BY <1>6
  <2>3. \A i \in 1 .. Len(x) : x[i].kind # "adv"
    BY <1>4, <1>7, <2>1, <2>2, KindMore
  <2>4. QED  BY <1>1, <1>4, <1>8, <2>3 DEF NoScan
<1>11. Connected(host', board', wire')
  <2>1. ~host.stale => Notified(host, x)
    <3> SUFFICES ASSUME ~host.stale PROVE Notified(host, x)
      OBVIOUS
    <3> DEFINE h == host
    <3>1. Notified(h, es)
      BY <1>4 DEF Connected, es
    <3>2. /\ Len(h.clients) > 0 /\ e.from = Newest(h) /\ \A u \in Threads : ~Connecting(h, u)
          /\ h.callback[e.char] # Ble!None => CalledFor(h, h.callback[e.char]) = e.from
      <4>1. board.on # {}
        BY <1>1
      <4>2. QED  BY <1>1, <1>4, <1>6, <4>1 DEF Connected, SwitchedOn
    <3>3. \A j \in 1 .. Len(es) : es[j].kind = "reply" => ~Connecting(h, es[j].to)
      BY <1>3, <3>2 DEF Awaited
    <3>4. \A i \in 1 .. Len(es) : es[i].kind = "notify" /\ es[i].from = Newest(h) =>
           (h.callback[es[i].char] # Ble!None => CalledFor(h, h.callback[es[i].char]) = es[i].from)
      BY <3>1 DEF Notified
    <3>5. /\ Len(h.clients) = Len(h.clients) /\ Newest(h) = Newest(h)
          /\ \A j \in 1 .. Len(es) : es[j].kind = "reply" /\ Connecting(h, es[j].to) => Connecting(h, es[j].to)
      OBVIOUS
    <3> HIDE DEF h
    <3>6. Notified(h, x)
      BY <1>4, <1>7, <3>1, <3>2, <3>3, <3>4, <3>5, NotifiedMore
    <3>7. QED  BY <3>6 DEF h
  <2>2. QED  BY <1>1, <1>4, <1>8, <2>1 DEF Connected
<1>12. QED  BY <1>1, <1>2, <1>3, <1>8, <1>9, <1>10, <1>11 DEF BleInv, BleSound, BleShape

\* A client is asked for something: the call waits for its reply, the peripherals of the clients
\* stay, and if the client is the connection's, so are the notifications.
LEMMA AskedClient ==
  ASSUME BleInv, host.part = "client", NEW t \in Threads, host.call[t].op = "none",
         host' \in BleHosts, host'.part = host.part, host'.got = host.got,
         NEW k, k.op \in ClientOps, k.op # "connect", k.taken = {}, k.seen = {},
         host'.call[t] = k, \A u \in Threads \ {t} : host'.call[u] = host.call[u],
         Len(host'.clients) = Len(host.clients),
         \A i \in 1 .. Len(host.clients) : host'.clients[i].peer = host.clients[i].peer,
         ~host'.stale => ~host.stale /\ \A u \in Threads : ~Connecting(host, u),
         ~host'.stale => \A c \in Ble!Chars : \/ host'.callback[c] \in {Ble!None, host.callback[c]}
                                              \/ /\ host'.callback[c].char = c
                                                 /\ host'.callback[c].client \in 1 .. Len(host.clients)
                                                 /\ CalledFor(host, host'.callback[c]) = Newest(host),
         board' \in BleBoards, board'.scanning = board.scanning,
         board'.peer = Ble!Nobody => board'.on = {},
         ~host'.stale /\ board'.on # {} => Len(host.clients) > 0 /\ board'.peer = Newest(host),
         ~host'.stale => \A c \in board'.on : host'.callback[c] # Ble!None =>
                           CalledFor(host, host'.callback[c]) = board'.peer,
         wire' = Ble!Replied(wire, t)
  PROVE  BleInv'
<1> DEFINE c == host'.call
           d == host.call
           es == wire.events
           x == wire'.events
           r == [kind |-> "reply", to |-> t]
<1>1. /\ wire \in BleWires /\ Awaited(d, es) /\ host.callback \in [Ble!Chars -> BleCallbacks]
      /\ es \in Seq(BleEvents) /\ host.got \in SUBSET (BleCallbacks \X Ble!Chars \X Peers)
  BY BleFields
<1>2. /\ Connected(host, board, wire) /\ NoScan(host, board, wire) /\ Len(es) \in Nat /\ Len(host.clients) \in Nat
  BY ClientFacts
<1>3. wire' \in BleWires /\ Grown(es, x, r)
  BY <1>1, RepliedMore
<1>4. r.kind = "reply" /\ r.to = t
  OBVIOUS
<1>5. c[t] = k /\ d[t].op = "none" /\ \A u \in Threads : u # t => c[u] = d[u]
  OBVIOUS
<1> HIDE DEF c, d, es, x, r
<1>6. \A i \in 1 .. Len(x) : x[i] = r \/ \E j \in 1 .. Len(es) : es[j] = x[i]
  BY <1>2, <1>3, EachMore
<1>7. d[t].op \notin Awaiting /\ c[t].op \in Awaiting
  BY <1>5 DEF Awaiting, ClientOps
<1>8. Awaited(c, x)
  <2>1. \A u \in Threads : u # t /\ d[u].op \in Awaiting => c[u].op \in Awaiting
    BY <1>5
  <2>2. Grown(es, x, [kind |-> "reply", to |-> t])
    BY <1>3 DEF r
  <2>3. QED  BY <1>1, <1>2, <1>7, <2>1, <2>2, AwaitedMore
<1>9. NoScan(host', board', wire')
  <2>1. \A i \in 1 .. Len(x) : x[i].kind # "adv"
    <3>1. \A i \in 1 .. Len(es) : es[i].kind # "adv"
      BY <1>2 DEF NoScan, es
    <3>2. r.kind # "adv"
      BY <1>4
    <3>3. QED  BY <1>6, <3>1, <3>2
  <2>2. \A u \in Threads : c[u].op \notin ScanOps /\ c[u].taken = {} /\ c[u].seen = {}
    <3>1. k.op \notin ScanOps
      BY DEF ClientOps, ScanOps
    <3>2. QED  BY <1>2, <1>5, <3>1 DEF NoScan, d
  <2>3. QED  BY <1>2, <2>1, <2>2 DEF NoScan, c, x
<1>10. Newest(host') = Newest(host) \/ Len(host.clients) = 0
  BY <1>2 DEF Newest
<1>11. \A u \in Threads : Connecting(host', u) => Connecting(host, u)
  BY <1>5 DEF Connecting, c, d
<1>12. SwitchedOn(host', board')
  <2> SUFFICES ASSUME board'.on # {}, ~host'.stale
               PROVE  /\ Len(host'.clients) > 0 /\ board'.peer = Newest(host')
                      /\ \A u \in Threads : ~Connecting(host', u)
                      /\ \A ch \in board'.on : host'.callback[ch] # Ble!None =>
                           CalledFor(host', host'.callback[ch]) = board'.peer
    BY DEF SwitchedOn
  <2>1. Len(host'.clients) > 0 /\ board'.peer = Newest(host')
    BY <1>10
  <2>2. \A u \in Threads : ~Connecting(host', u)
    BY <1>11
  <2>3. ASSUME NEW ch \in board'.on, host'.callback[ch] # Ble!None
        PROVE  CalledFor(host', host'.callback[ch]) = board'.peer
    <3>1. ch \in Ble!Chars
      BY DEF BleBoards
    <3>2. CalledFor(host, host'.callback[ch]) = board'.peer
      BY <2>3
    <3>3. host'.callback[ch].client \in 1 .. Len(host.clients)
      <4>1. host.callback[ch] # Ble!None => host.callback[ch].client \in 1 .. Len(host.clients)
        BY <1>2, <3>1 DEF Connected, Called
      <4>2. QED  BY <2>3, <3>1, <4>1
    <3>4. QED  BY <3>2, <3>3 DEF CalledFor
  <2>4. QED  BY <2>1, <2>2, <2>3
<1>13. ~host'.stale => Called(host')
  <2> SUFFICES ASSUME ~host'.stale PROVE Called(host')
    OBVIOUS
  <2>1. Called(host)
    BY <1>2 DEF Connected
  <2>2. \A ch \in Ble!Chars : host'.callback[ch] # Ble!None =>
          host'.callback[ch].char = ch /\ host'.callback[ch].client \in 1 .. Len(host'.clients)
    BY <2>1 DEF Called
  <2>3. \A n \in host'.got : /\ n[1].client \in 1 .. Len(host'.clients)
                             /\ n[1].char = n[2] /\ CalledFor(host', n[1]) = n[3]
    BY <2>1 DEF Called, CalledFor
  <2>4. QED  BY <2>2, <2>3 DEF Called
<1>14. ~host'.stale => Notified(host', x)
  <2> SUFFICES ASSUME ~host'.stale PROVE Notified(host', x)
    OBVIOUS
  <2> DEFINE h == host
             g == host'
  <2>1. Notified(h, es)
    BY <1>2 DEF Connected, es
  <2>2. \A i \in 1 .. Len(es) : es[i].kind = "notify" /\ es[i].from = Newest(h) =>
           (g.callback[es[i].char] # Ble!None => CalledFor(g, g.callback[es[i].char]) = es[i].from)
    <3> SUFFICES ASSUME NEW i \in 1 .. Len(es), es[i].kind = "notify", es[i].from = Newest(host),
                        host'.callback[es[i].char] # Ble!None
                 PROVE  CalledFor(host', host'.callback[es[i].char]) = es[i].from
      OBVIOUS
    <3> DEFINE ch == es[i].char
               cb == host'.callback[ch]
    <3>1. ch \in Ble!Chars
      <4>1. es[i] \in BleEvents
        BY <1>1, ElementOfSeq
      <4>2. QED  BY <4>1 DEF BleEvents, BleAdvs, BleNotes, BleReplies
    <3>2. \/ cb = host.callback[ch]
          \/ cb.client \in 1 .. Len(host.clients) /\ CalledFor(host, cb) = Newest(host)
      BY <3>1
    <3>3. cb.client \in 1 .. Len(host.clients) /\ CalledFor(host, cb) = es[i].from
      <4>1. CASE cb = host.callback[ch]
        <5>1. CalledFor(host, host.callback[ch]) = es[i].from
          BY <2>1, <4>1 DEF Notified
        <5>2. host.callback[ch].client \in 1 .. Len(host.clients)
          BY <1>2, <3>1, <4>1 DEF Connected, Called
        <5>3. QED  BY <4>1, <5>1, <5>2
      <4>2. QED  BY <3>2, <4>1
    <3>4. QED  BY <3>3 DEF CalledFor
  <2>3. \A j \in 1 .. Len(es) : es[j].kind = "reply" /\ Connecting(g, es[j].to) => Connecting(h, es[j].to)
    BY <1>1, <1>11 DEF Awaited
  <2>4. r.kind # "notify"
    BY <1>4
  <2>5. CASE Len(host.clients) = 0
    <3>1. \A i \in 1 .. Len(es) : es[i].kind # "notify"
      BY <2>1, <2>5 DEF Notified
    <3>2. \A i \in 1 .. Len(x) : x[i].kind # "notify"
      BY <1>6, <2>4, <3>1
    <3>3. QED  BY <3>2 DEF Notified
  <2>6. CASE Len(host.clients) # 0
    <3>1. Len(g.clients) = Len(h.clients) /\ Newest(g) = Newest(h)
      BY <1>10, <2>6
    <3> HIDE DEF g, h
    <3>2. Notified(g, x)
      BY <1>2, <1>3, <2>1, <2>2, <2>3, <2>4, <3>1, NotifiedMore
    <3>3. QED  BY <3>2 DEF g
  <2>7. QED  BY <2>5, <2>6
<1>15. Connected(host', board', wire')
  <2>1. \A u \in Threads : Connecting(host', u) => host'.call[u].peer \in Peers
    BY <1>2, <1>5 DEF Connected, Connecting, c, d
  <2>2. QED  BY <1>12, <1>13, <1>14, <2>1 DEF Connected, x
<1>16. QED  BY <1>3, <1>8, <1>9, <1>15 DEF BleInv, BleSound, BleShape, c, x


LEMMA ClientCallStep ==
  ASSUME BleInv, NEW t \in Threads, NEW c \in DOMAIN host.clients,
         NEW op \in {"subscribe", "unsubscribe", "disconnect"}, Ble!ClientCall(t, c, op)
  PROVE  BleInv'
<1>1. /\ host.part = "client" /\ host.call[t].op = "none" /\ wire' = Ble!Replied(wire, t)
  BY DEF Ble!ClientCall, Ble!Is, Ble!Op
<1> DEFINE k(ch) == [Ble!Idle EXCEPT !.op = op, !.client = c, !.char = ch]
           st == host.stale \/ Ble!Outlived(c)
           h(ch) == [host EXCEPT !.call[t] = k(ch), !.stale = @ \/ Ble!Outlived(c)]
<1>2. PICK ch \in Ble!Chars :
        CASE op = "subscribe" ->
               /\ host' = [h(ch) EXCEPT !.callback[ch] = [client |-> c, char |-> ch]]
               /\ board' = IF board.peer = Ble!Nobody THEN board ELSE [board EXCEPT !.on = @ \cup {ch}]
          [] op = "unsubscribe" ->
               /\ host' = [h(ch) EXCEPT !.callback[ch] = Ble!None]
               /\ board' = IF board.peer = Ble!Nobody THEN board ELSE [board EXCEPT !.on = @ \ {ch}]
          [] op = "disconnect" ->
               /\ host' = [h(ch) EXCEPT !.clients[c].connected = FALSE]
               /\ board' = [board EXCEPT !.peer = Ble!Nobody, !.on = {}]
  BY Zenon DEF Ble!ClientCall
<1> DEFINE q == k(ch)
           g == [[host EXCEPT !.call[t] = q] EXCEPT !.stale = st]
<1>3. /\ host \in BleHosts /\ board \in BleBoards /\ wire \in BleWires /\ Awaited(host.call, wire.events)
      /\ host.call \in [Threads -> BleCalls] /\ host.clients \in Seq(BleClients)
      /\ host.callback \in [Ble!Chars -> BleCallbacks]
      /\ board.on \in SUBSET Ble!Chars /\ board.peer \in Peers \cup {Ble!Nobody}
      /\ host.stale \in BOOLEAN
  BY BleFields
<1>4. Connected(host, board, wire) /\ Len(host.clients) \in Nat
  BY <1>1, ClientFacts
<1>5. c \in 1 .. Len(host.clients) /\ c \in Nat /\ host.clients[c] \in BleClients
  <2>1. DOMAIN host.clients = 1 .. Len(host.clients)
    BY <1>3, LenProperties
  <2>2. c \in 1 .. Len(host.clients)
    BY <2>1
  <2>3. QED  BY <1>3, <1>4, <2>2, ElementOfSeq
<1>6. q \in BleCalls /\ q.op = op /\ q.taken = {} /\ q.seen = {}
  <2> DEFINE i == Ble!Idle
  <2>1. i \in BleCalls /\ i.taken = {} /\ i.seen = {}
    BY IdleAsks
  <2>2. q = [i EXCEPT !.op = op, !.client = c, !.char = ch]
    OBVIOUS
  <2>3. op \in ClientOps
    BY DEF ClientOps
  <2> HIDE DEF i, q
  <2>4. QED  BY <1>5, <2>1, <2>2, <2>3 DEF BleCalls
<1>7. h(ch) = g
  BY <1>3 DEF BleHosts
<1>8. st \in BOOLEAN
  OBVIOUS
<1> HIDE DEF q, k, h, st
<1>9. /\ g \in BleHosts /\ g.part = host.part /\ g.got = host.got /\ g.clients = host.clients
      /\ g.callback = host.callback /\ g.stale = st
      /\ g.call[t] = q /\ \A u \in Threads \ {t} : g.call[u] = host.call[u]
  <2> DEFINE f == [host EXCEPT !.call[t] = q]
  <2>1. /\ f \in BleHosts /\ f.part = host.part /\ f.got = host.got /\ f.clients = host.clients
        /\ f.callback = host.callback
        /\ f.call[t] = q /\ \A u \in Threads \ {t} : f.call[u] = host.call[u]
    BY <1>3, <1>6 DEF BleHosts
  <2> HIDE DEF f
  <2>2. /\ [f EXCEPT !.stale = st] \in BleHosts /\ [f EXCEPT !.stale = st].part = f.part
        /\ [f EXCEPT !.stale = st].got = f.got /\ [f EXCEPT !.stale = st].clients = f.clients
        /\ [f EXCEPT !.stale = st].callback = f.callback /\ [f EXCEPT !.stale = st].stale = st
        /\ [f EXCEPT !.stale = st].call = f.call
    BY <1>8, <2>1 DEF BleHosts
  <2>3. g = [f EXCEPT !.stale = st]
    BY DEF f
  <2> HIDE DEF g
  <2>4. QED  BY <2>1, <2>2, <2>3
<1> HIDE DEF g
\* The client is the connection's, unless programs keep others.
<1>10. ~st => /\ ~host.stale /\ \A u \in Threads : ~Connecting(host, u)
              /\ board.peer \in {Ble!Nobody, host.clients[c].peer}
              /\ Newest(host) = host.clients[c].peer /\ Len(host.clients) > 0
  <2> SUFFICES ASSUME ~st
               PROVE  /\ ~host.stale /\ (\A u \in Threads : ~Connecting(host, u))
                      /\ board.peer \in {Ble!Nobody, host.clients[c].peer}
                      /\ Newest(host) = host.clients[c].peer /\ Len(host.clients) > 0
    OBVIOUS
  <2>1. ~host.stale /\ ~Ble!Outlived(c)
    BY DEF st
  <2>2. /\ board.peer \in {Ble!Nobody, host.clients[c].peer}
        /\ \A d \in DOMAIN host.clients : d > c => host.clients[d].peer = host.clients[c].peer
        /\ \A u \in Threads : ~Connecting(host, u)
    BY <2>1 DEF Ble!Outlived, Ble!Op, Connecting
  <2>3. DOMAIN host.clients = 1 .. Len(host.clients)
    BY <1>3, LenProperties
  <2>4. Len(host.clients) \in DOMAIN host.clients /\ (Len(host.clients) = c \/ Len(host.clients) > c)
        /\ Len(host.clients) > 0
    BY <1>4, <1>5, <2>3
  <2>5. Newest(host) = host.clients[c].peer
    BY <2>2, <2>4 DEF Newest
  <2>6. QED  BY <2>1, <2>2, <2>4, <2>5
<1>11. /\ op \in ClientOps /\ op # "connect"
  BY DEF ClientOps
<1>12. /\ board.peer = Ble!Nobody => board.on = {}
       /\ ~st /\ board.on # {} =>
            /\ board.peer = Newest(host)
            /\ \A a \in board.on : host.callback[a] # Ble!None => CalledFor(host, host.callback[a]) = board.peer
  BY <1>4, <1>10 DEF Connected, SwitchedOn
<1>13. CASE op = "subscribe"
  <2> DEFINE cb == [client |-> c, char |-> ch]
             b == board'
             on == board.on \cup {ch}
  <2>1. /\ host' = [g EXCEPT !.callback[ch] = cb]
        /\ b = IF board.peer = Ble!Nobody THEN board ELSE [board EXCEPT !.on = on]
    BY <1>2, <1>7, <1>13
  <2>2. cb \in BleCallbacks /\ cb.char = ch /\ cb.client = c
    BY <1>5 DEF BleCallbacks
  <2> HIDE DEF cb
  <2>3. CalledFor(host, cb) = host.clients[c].peer
    BY <2>2 DEF CalledFor
  <2>4. /\ host' \in BleHosts /\ host'.part = g.part /\ host'.got = g.got /\ host'.clients = g.clients
        /\ host'.stale = g.stale /\ host'.call = g.call
        /\ host'.callback[ch] = cb /\ \A a \in Ble!Chars \ {ch} : host'.callback[a] = g.callback[a]
    BY <1>9, <2>1, <2>2 DEF BleHosts
  <2>5. on \in SUBSET Ble!Chars
    BY <1>3
  <2> HIDE DEF on
  <2>6. /\ b \in BleBoards /\ b.scanning = board.scanning /\ b.peer = board.peer
        /\ \/ board.peer = Ble!Nobody /\ b.on = board.on
           \/ board.peer # Ble!Nobody /\ b.on = on
    BY <1>3, <2>1, <2>5 DEF BleBoards
  <2>7. b.peer = Ble!Nobody => b.on = {}
    BY <1>12, <2>6
  <2>8. ~host'.stale /\ b.on # {} => Len(host.clients) > 0 /\ b.peer = Newest(host)
    BY <1>9, <1>10, <1>12, <2>4, <2>6
  <2>9. ~host'.stale => \A a \in b.on : host'.callback[a] # Ble!None => CalledFor(host, host'.callback[a]) = b.peer
    <3> SUFFICES ASSUME ~host'.stale, NEW a \in b.on, host'.callback[a] # Ble!None
                 PROVE  CalledFor(host, host'.callback[a]) = b.peer
      OBVIOUS
    <3>1. ~st /\ board.peer # Ble!Nobody /\ b.on = on
      BY <1>9, <1>12, <2>4, <2>6
    <3>2. CASE a = ch
      BY <1>10, <2>3, <2>4, <2>6, <3>1, <3>2
    <3>3. CASE a # ch
      <4>1. a \in board.on /\ a \in Ble!Chars /\ a # ch
        BY <1>3, <3>1, <3>3 DEF on
      <4>2. host'.callback[a] = host.callback[a]
        BY <1>9, <2>4, <4>1
      <4>3. QED  BY <1>12, <2>6, <3>1, <4>1, <4>2
    <3>4. QED  BY <3>2, <3>3
  <2>10. ~host'.stale => \A a \in Ble!Chars : \/ host'.callback[a] \in {Ble!None, host.callback[a]}
                                              \/ /\ host'.callback[a].char = a
                                                 /\ host'.callback[a].client \in 1 .. Len(host.clients)
                                                 /\ CalledFor(host, host'.callback[a]) = Newest(host)
    BY <1>5, <1>9, <1>10, <2>2, <2>3, <2>4
  <2>11. /\ host'.part = host.part /\ host'.got = host.got /\ host'.call[t] = q
         /\ (\A u \in Threads \ {t} : host'.call[u] = host.call[u]) /\ host'.clients = host.clients
         /\ ~host'.stale => ~host.stale /\ \A u \in Threads : ~Connecting(host, u)
    BY <1>9, <1>10, <2>4
  <2>12. q.op \in ClientOps /\ q.op # "connect"
    BY <1>6, <1>11
  <2> HIDE DEF b
  <2>13. Len(host'.clients) = Len(host.clients) /\ \A i \in 1 .. Len(host.clients) : host'.clients[i].peer = host.clients[i].peer
    BY <2>11
  <2>14. QED  BY <1>1, <1>6, <2>4, <2>6, <2>7, <2>8, <2>9, <2>10, <2>11, <2>12, <2>13, AskedClient DEF b
<1>14. CASE op = "unsubscribe"
  <2> DEFINE cb == Ble!None
             b == board'
             on == board.on \ {ch}
  <2>1. /\ host' = [g EXCEPT !.callback[ch] = cb]
        /\ b = IF board.peer = Ble!Nobody THEN board ELSE [board EXCEPT !.on = on]
    BY <1>2, <1>7, <1>14
  <2>2. cb \in BleCallbacks
    BY BleTypes, Zenon
  <2> HIDE DEF cb
  <2>4. /\ host' \in BleHosts /\ host'.part = g.part /\ host'.got = g.got /\ host'.clients = g.clients
        /\ host'.stale = g.stale /\ host'.call = g.call
        /\ host'.callback[ch] = cb /\ \A a \in Ble!Chars \ {ch} : host'.callback[a] = g.callback[a]
    BY <1>9, <2>1, <2>2 DEF BleHosts
  <2>5. on \in SUBSET Ble!Chars
    BY <1>3
  <2> HIDE DEF on
  <2>6. /\ b \in BleBoards /\ b.scanning = board.scanning /\ b.peer = board.peer
        /\ \/ board.peer = Ble!Nobody /\ b.on = board.on
           \/ board.peer # Ble!Nobody /\ b.on = on
    BY <1>3, <2>1, <2>5 DEF BleBoards
  <2>7. b.peer = Ble!Nobody => b.on = {}
    BY <1>12, <2>6
  <2>8. b.on \subseteq board.on
    BY <2>6 DEF on
  <2>9. ~host'.stale /\ b.on # {} => Len(host.clients) > 0 /\ b.peer = Newest(host)
    BY <1>9, <1>10, <1>12, <2>4, <2>6, <2>8
  <2>10. ~host'.stale => \A a \in Ble!Chars : host'.callback[a] \in {Ble!None, host.callback[a]}
    BY <1>9, <2>4 DEF cb
  <2>11. ~host'.stale => \A a \in b.on : host'.callback[a] # Ble!None => CalledFor(host, host'.callback[a]) = b.peer
    <3> SUFFICES ASSUME ~host'.stale, NEW a \in b.on, host'.callback[a] # Ble!None
                 PROVE  CalledFor(host, host'.callback[a]) = b.peer
      OBVIOUS
    <3>1. ~st /\ a \in board.on /\ a \in Ble!Chars
      BY <1>3, <1>9, <2>4, <2>8
    <3>2. host'.callback[a] = host.callback[a]
      BY <2>10, <3>1
    <3>3. QED  BY <1>12, <2>6, <3>1, <3>2
  <2>12. ~host'.stale => \A a \in Ble!Chars : \/ host'.callback[a] \in {Ble!None, host.callback[a]}
                                              \/ /\ host'.callback[a].char = a
                                                 /\ host'.callback[a].client \in 1 .. Len(host.clients)
                                                 /\ CalledFor(host, host'.callback[a]) = Newest(host)
    BY <2>10
  <2>13. /\ host'.part = host.part /\ host'.got = host.got /\ host'.call[t] = q
         /\ (\A u \in Threads \ {t} : host'.call[u] = host.call[u]) /\ host'.clients = host.clients
         /\ ~host'.stale => ~host.stale /\ \A u \in Threads : ~Connecting(host, u)
    BY <1>9, <1>10, <2>4
  <2>14. q.op \in ClientOps /\ q.op # "connect"
    BY <1>6, <1>11
  <2> HIDE DEF b
  <2>15. Len(host'.clients) = Len(host.clients) /\ \A i \in 1 .. Len(host.clients) : host'.clients[i].peer = host.clients[i].peer
    BY <2>13
  <2>16. QED  BY <1>1, <1>6, <2>4, <2>6, <2>7, <2>9, <2>11, <2>12, <2>13, <2>14, <2>15, AskedClient DEF b
<1>15. CASE op = "disconnect"
  <2> DEFINE cl == [host.clients EXCEPT ![c].connected = FALSE]
             b == board'
  <2>1. /\ host' = [g EXCEPT !.clients = cl]
        /\ b = [board EXCEPT !.peer = Ble!Nobody, !.on = {}]
    BY <1>2, <1>7, <1>9, <1>15
  <2>2. /\ cl \in Seq(BleClients) /\ Len(cl) = Len(host.clients)
        /\ \A i \in 1 .. Len(host.clients) : cl[i].peer = host.clients[i].peer
    <3> DEFINE v == [host.clients[c] EXCEPT !.connected = FALSE]
    <3>1. v \in BleClients /\ v.peer = host.clients[c].peer
      BY <1>5 DEF BleClients
    <3>2. cl = [host.clients EXCEPT ![c] = v]
      OBVIOUS
    <3> HIDE DEF v, cl
    <3>3. /\ cl \in Seq(BleClients) /\ Len(cl) = Len(host.clients)
          /\ \A i \in 1 .. Len(host.clients) : cl[i] = IF i = c THEN v ELSE host.clients[i]
      BY <1>3, <1>5, <3>1, <3>2, ExceptSeq
    <3>4. QED  BY <3>1, <3>3
  <2> HIDE DEF cl
  <2>3. /\ host' \in BleHosts /\ host'.part = g.part /\ host'.got = g.got /\ host'.clients = cl
        /\ host'.stale = g.stale /\ host'.call = g.call /\ host'.callback = g.callback
    BY <1>9, <2>1, <2>2 DEF BleHosts
  <2>4. b \in BleBoards /\ b.scanning = board.scanning /\ b.on = {}
    BY <1>3, <2>1 DEF BleBoards
  <2>5. \A a \in Ble!Chars : \/ host'.callback[a] \in {Ble!None, host.callback[a]}
                             \/ /\ host'.callback[a].char = a
                                /\ host'.callback[a].client \in 1 .. Len(host.clients)
                                /\ CalledFor(host, host'.callback[a]) = Newest(host)
    BY <1>9, <2>3
  <2>6. /\ host'.part = host.part /\ host'.got = host.got /\ host'.call[t] = q
        /\ (\A u \in Threads \ {t} : host'.call[u] = host.call[u])
        /\ ~host'.stale => ~host.stale /\ \A u \in Threads : ~Connecting(host, u)
    BY <1>9, <1>10, <2>3
  <2>7. q.op \in ClientOps /\ q.op # "connect"
    BY <1>6, <1>11
  <2>8. /\ ~host'.stale /\ b.on # {} => Len(host.clients) > 0 /\ b.peer = Newest(host)
        /\ ~host'.stale => \A a \in b.on : host'.callback[a] # Ble!None => CalledFor(host, host'.callback[a]) = b.peer
        /\ b.peer = Ble!Nobody => b.on = {}
    BY <2>4
  <2> HIDE DEF b
  <2>9. Len(host'.clients) = Len(host.clients) /\ \A i \in 1 .. Len(host.clients) : host'.clients[i].peer = host.clients[i].peer
    BY <2>2, <2>3
  <2>10. QED  BY <1>1, <1>6, <2>3, <2>4, <2>5, <2>6, <2>7, <2>8, <2>9, AskedClient DEF b
<1>16. QED  BY <1>13, <1>14, <1>15


\* The reply of a client's call.
LEMMA ClientReply ==
  ASSUME BleInv, Ble!Deliver, wire.events[1].kind = "reply", host.part = "client"
  PROVE  BleInv'
<1> DEFINE e == wire.events[1]
           t == wire.events[1].to
           x == wire'.events
           c == host'.call
           d == host.call
           es == wire.events
           more == d[t].op = "connect"
<1>1. /\ board' = board /\ wire' \in BleWires
      /\ Head(wire.events) = e /\ 1 \in 1 .. Len(wire.events) /\ wire.events # <<>>
      /\ Len(x) \in Nat /\ Shrunk(es, x)
  BY Delivered
<1>2. /\ host \in BleHosts /\ board \in BleBoards /\ wire \in BleWires /\ Awaited(d, es)
      /\ host.clients \in Seq(BleClients) /\ host.streams \in SUBSET Threads
      /\ host.callback \in [Ble!Chars -> BleCallbacks]
  BY BleFields
<1>3. /\ Connected(host, board, wire) /\ NoScan(host, board, wire) /\ Len(host.clients) \in Nat
      /\ \A u \in Threads : d[u] \in BleCalls /\ d[u].op \notin ScanOps /\ d[u].taken = {} /\ d[u].seen = {}
  BY ClientFacts
<1>4. t \in Threads /\ d[t] \in BleCalls /\ d[t].op # "starting"
  <2>1. t \in Threads /\ d[t].op \in Awaiting /\ d[t] \in BleCalls
    BY <1>1, ReplyTo
  <2>2. QED  BY <1>3, <2>1 DEF ScanOps
<1>5. host' = Ble!Return(t)
  BY <1>1 DEF Ble!Deliver
<1>6. /\ host' \in BleHosts /\ (\A u \in Threads \ {t} : host'.call[u] = host.call[u])
      /\ host'.call[t].op = "none" /\ host'.call[t].taken = {} /\ host'.call[t].seen = {}
      /\ host'.part = host.part /\ host'.got = host.got /\ host'.callback = host.callback /\ host'.stale = host.stale
      /\ Len(host'.clients) \in Nat
      /\ IF more THEN Len(host'.clients) = Len(host.clients) + 1 ELSE host'.clients = host.clients
      /\ \A i \in 1 .. Len(host.clients) : host'.clients[i] = host.clients[i]
  <2>1. CASE more
    <3> DEFINE i == Ble!Idle
               v == [peer |-> d[t].peer, connected |-> TRUE]
               a == Append(host.clients, v)
               h == [host EXCEPT !.call[t] = i]
    <3>1. host' = [h EXCEPT !.clients = a]
      BY <1>2, <1>4, <1>5, <2>1 DEF Ble!Return, Ble!Op, BleHosts
    <3>2. i \in BleCalls /\ i.op = "none" /\ i.taken = {} /\ i.seen = {}
      BY IdleAsks DEF Ble!Idle
    <3>3. v \in BleClients
      BY <1>3, <1>4, <2>1 DEF Connected, Connecting, BleClients
    <3> HIDE DEF i, v
    <3>4. /\ a \in Seq(BleClients) /\ Len(a) = Len(host.clients) + 1
          /\ \A j \in 1 .. Len(host.clients) : a[j] = host.clients[j]
      BY <1>2, <3>3, AppendProperties
    <3>5. /\ h \in BleHosts /\ h.call[t] = i /\ (\A u \in Threads \ {t} : h.call[u] = host.call[u])
          /\ h.part = host.part /\ h.got = host.got /\ h.callback = host.callback /\ h.stale = host.stale
      BY <1>2, <1>4, <3>2 DEF BleHosts
    <3> HIDE DEF h, a
    <3>6. /\ host' \in BleHosts /\ host'.call = h.call /\ host'.clients = a
          /\ host'.part = h.part /\ host'.got = h.got /\ host'.callback = h.callback /\ host'.stale = h.stale
      BY <3>1, <3>4, <3>5 DEF BleHosts
    <3>7. Len(a) \in Nat
      BY <1>3, <3>4
    <3>8. QED  BY <2>1, <3>2, <3>4, <3>5, <3>6, <3>7
  <2>2. CASE ~more
    <3> DEFINE k == [d[t] EXCEPT !.op = "none"]
               h == [host EXCEPT !.call[t] = k]
               s == host.streams \ {t}
    <3>1. host' = [h EXCEPT !.streams = s]
      BY <1>2, <1>4, <1>5, <2>2 DEF Ble!Return, Ble!Op, BleHosts
    <3>2. k \in BleCalls /\ k.op = "none" /\ k.taken = {} /\ k.seen = {}
      BY <1>3, <1>4 DEF BleCalls
    <3> HIDE DEF k
    <3>3. /\ h \in BleHosts /\ h.call[t] = k /\ (\A u \in Threads \ {t} : h.call[u] = host.call[u])
          /\ h.part = host.part /\ h.got = host.got /\ h.callback = host.callback /\ h.stale = host.stale
          /\ h.clients = host.clients
      BY <1>2, <1>4, <3>2 DEF BleHosts
    <3>4. s \in SUBSET Threads
      BY <1>2
    <3> HIDE DEF h, s
    <3>5. /\ host' \in BleHosts /\ host'.call = h.call /\ host'.clients = h.clients
          /\ host'.part = h.part /\ host'.got = h.got /\ host'.callback = h.callback /\ host'.stale = h.stale
      BY <3>1, <3>3, <3>4 DEF BleHosts
    <3>6. QED  BY <1>3, <2>2, <3>2, <3>3, <3>5
  <2>3. QED  BY <2>1, <2>2
<1>7. c[t].op = "none" /\ (\A u \in Threads : u # t => c[u] = d[u]) /\ es[1].kind = "reply" /\ es[1].to = t
  BY <1>6
<1>8. more <=> Connecting(host, t)
  BY DEF Connecting
<1> HIDE DEF e, x, c, t, d, es, more
<1>9. Awaited(c, x)
  <2>1. \A u \in Threads : d[u].op \in Awaiting /\ (es[1].kind = "reply" => u # es[1].to) => c[u].op \in Awaiting
    BY <1>7
  <2>2. QED  BY <1>1, <1>2, <2>1, AwaitedLess
<1>10. \A i \in 1 .. Len(x) : \E j \in 1 .. Len(es) : es[j] = x[i]
  BY <1>1, EachLess
<1>11. NoScan(host', board', wire')
  <2>1. \A i \in 1 .. Len(x) : x[i].kind # "adv"
    BY <1>3, <1>10 DEF NoScan, es
  <2>2. \A u \in Threads : c[u].op \notin ScanOps /\ c[u].taken = {} /\ c[u].seen = {}
    <3>1. "none" \notin ScanOps
      BY DEF ScanOps
    <3>2. QED  BY <1>3, <1>6, <1>7, <3>1 DEF c
  <2>3. QED  BY <1>1, <1>3, <2>1, <2>2 DEF NoScan, c, x
<1>12. \A u \in Threads : Connecting(host', u) => Connecting(host, u) /\ host'.call[u] = host.call[u]
  BY <1>7 DEF Connecting, c, d
<1>13. SwitchedOn(host', board')
  <2>1. SwitchedOn(host, board)
    BY <1>3 DEF Connected
  <2>2. CASE more
    <3>1. board.on = {} \/ host.stale
      BY <1>4, <1>8, <2>1, <2>2 DEF SwitchedOn
    <3>2. QED  BY <1>1, <1>6, <2>1, <3>1 DEF SwitchedOn
  <2>3. CASE ~more
    <3>1. host'.clients = host.clients
      BY <1>6, <2>3
    <3>2. QED  BY <1>1, <1>6, <1>12, <2>1, <3>1 DEF SwitchedOn, Newest, CalledFor
  <2>4. QED  BY <2>2, <2>3
<1>14. ~host.stale => Called(host')
  <2> SUFFICES ASSUME ~host.stale PROVE Called(host')
    OBVIOUS
  <2>1. Called(host)
    BY <1>3 DEF Connected
  <2>2. \A i \in 1 .. Len(host.clients) : i \in 1 .. Len(host'.clients)
    BY <1>3, <1>6
  <2>3. \A ch \in Ble!Chars : host'.callback[ch] # Ble!None =>
          host'.callback[ch].char = ch /\ host'.callback[ch].client \in 1 .. Len(host'.clients)
    BY <1>6, <2>1, <2>2 DEF Called
  <2>4. \A n \in host'.got : /\ n[1].client \in 1 .. Len(host'.clients)
                             /\ n[1].char = n[2] /\ CalledFor(host', n[1]) = n[3]
    BY <1>6, <2>1, <2>2 DEF Called, CalledFor
  <2>5. QED  BY <2>3, <2>4 DEF Called
<1>15. ~host.stale => Notified(host', x)
  <2> SUFFICES ASSUME ~host.stale PROVE Notified(host', x)
    OBVIOUS
  <2>1. Notified(host, es)
    BY <1>3 DEF Connected, es
  <2>2. CASE more
    <3>1. \A i \in 1 .. Len(es) : es[i].kind # "notify"
      <4> SUFFICES ASSUME NEW i \in 1 .. Len(es), es[i].kind = "notify" PROVE FALSE
        OBVIOUS
      <4>1. 1 \in 1 .. Len(es)
        BY <1>1 DEF es
      <4>2. i < 1
        BY <1>7, <1>8, <2>1, <2>2, <4>1 DEF Notified
      <4>3. QED  BY <4>2
    <3>2. \A i \in 1 .. Len(x) : x[i].kind # "notify"
      BY <1>10, <3>1
    <3>3. QED  BY <3>2 DEF Notified
  <2>3. CASE ~more
    <3> DEFINE h == host
               g == host'
    <3>1. host'.clients = host.clients /\ host'.callback = host.callback
      BY <1>6, <2>3
    <3>2. /\ Len(g.clients) = Len(h.clients) /\ Newest(g) = Newest(h) /\ g.callback = h.callback
          /\ \A cb : CalledFor(g, cb) = CalledFor(h, cb)
      BY <3>1 DEF Newest, CalledFor
    <3>3. \A u \in Threads : Connecting(g, u) => Connecting(h, u)
      BY <1>12
    <3>4. \A i \in 1 .. Len(es) : es[i].kind = "reply" => es[i].to \in Threads
      BY <1>2 DEF Awaited
    <3> HIDE DEF g, h
    <3>5. Notified(g, x)
      BY <1>1, <2>1, <3>2, <3>3, <3>4, NotifiedLess DEF h
    <3>6. QED  BY <3>5 DEF g
  <2>4. QED  BY <2>2, <2>3
<1>16. Connected(host', board', wire')
  <2>1. \A u \in Threads : Connecting(host', u) => host'.call[u].peer \in Peers
    BY <1>3, <1>12 DEF Connected
  <2>2. QED  BY <1>6, <1>13, <1>14, <1>15, <2>1 DEF Connected, x
<1>17. QED  BY <1>1, <1>2, <1>6, <1>9, <1>11, <1>16 DEF BleInv, BleSound, BleShape, x, c

LEMMA NotifyComes ==
  ASSUME BleInv, Ble!Deliver, wire.events[1].kind = "notify"
  PROVE  BleInv'
<1> DEFINE e == wire.events[1]
           x == wire'.events
           es == wire.events
           cb == host.callback[e.char]
<1>1. /\ board' = board /\ wire' \in BleWires
      /\ Head(wire.events) = e /\ e \in BleEvents /\ 1 \in 1 .. Len(wire.events)
      /\ Len(x) \in Nat /\ Shrunk(es, x)
  BY Delivered
<1>2. host.part = "client"
  BY <1>1 DEF BleInv, BleSound, NoClient
<1>3. /\ host \in BleHosts /\ board \in BleBoards /\ wire \in BleWires /\ Awaited(host.call, es)
      /\ host.callback \in [Ble!Chars -> BleCallbacks] /\ host.got \in SUBSET (BleCallbacks \X Ble!Chars \X Peers)
  BY BleFields
<1>4. Connected(host, board, wire) /\ NoScan(host, board, wire)
  BY <1>2, ClientFacts
<1>5. e \in BleNotes /\ e.char \in Ble!Chars /\ e.from \in Peers
  BY <1>1 DEF BleEvents, BleAdvs, BleReplies, BleNotes
<1>6. cb \in BleCallbacks
  BY <1>3, <1>5
<1> DEFINE note == <<cb, e.char, e.from>>
           got == host.got \cup {note}
<1>7. /\ note \in BleCallbacks \X Ble!Chars \X Peers
      /\ note[1] = cb /\ note[2] = e.char /\ note[3] = e.from
  BY <1>5, <1>6
<1>8. host' = IF cb = Ble!None THEN host ELSE [host EXCEPT !.got = got]
  BY <1>1 DEF Ble!Deliver, Ble!OnNotify, Ble!Called
<1>9. e.kind = "notify"
  OBVIOUS
<1>10. ~host.stale /\ cb # Ble!None =>
         CalledFor(host, cb) = e.from /\ cb.char = e.char /\ cb.client \in 1 .. Len(host.clients)
  BY <1>1, <1>4, <1>5 DEF Connected, Notified, Called
<1> HIDE DEF e, x, es, note, cb
<1>11. got \in SUBSET (BleCallbacks \X Ble!Chars \X Peers)
  BY <1>3, <1>7
<1>12. /\ host' \in BleHosts /\ host'.part = host.part /\ host'.call = host.call /\ host'.clients = host.clients
       /\ host'.callback = host.callback /\ host'.stale = host.stale
       /\ \A n \in host'.got : n \in host.got \/ (n = note /\ cb # Ble!None)
  <2>1. CASE cb = Ble!None
    <3>1. host' = host
      BY <1>8, <2>1
    <3>2. QED  BY <1>3, <3>1
  <2>2. CASE cb # Ble!None
    <3>1. host' = [host EXCEPT !.got = got]
      BY <1>8, <2>2
    <3>2. \A n \in got : n \in host.got \/ n = note
      OBVIOUS
    <3> HIDE DEF got
    <3>3. /\ host' \in BleHosts /\ host'.part = host.part /\ host'.call = host.call /\ host'.clients = host.clients
          /\ host'.callback = host.callback /\ host'.stale = host.stale /\ host'.got = got
      BY <1>3, <1>11, <3>1 DEF BleHosts
    <3>4. QED  BY <2>2, <3>2, <3>3
  <2>3. QED  BY <2>1, <2>2
<1>13. Awaited(host.call, x)
  <2>1. \A u \in Threads : host.call[u].op \in Awaiting /\ (es[1].kind = "reply" => u # es[1].to)
          => host.call[u].op \in Awaiting
    OBVIOUS
  <2>2. QED  BY <1>1, <1>3, <2>1, AwaitedLess
<1>14. NoScan(host', board', wire')
  <2>1. \A i \in 1 .. Len(x) : \E j \in 1 .. Len(es) : es[j] = x[i]
    BY <1>1, EachLess
  <2>2. \A i \in 1 .. Len(x) : x[i].kind # "adv"
    BY <1>4, <2>1 DEF NoScan, es
  <2>3. QED  BY <1>1, <1>4, <1>12, <2>2 DEF NoScan, x
<1>15. Connected(host', board', wire')
  <2>1. SwitchedOn(host', board') /\ \A u \in Threads : Connecting(host', u) => host'.call[u].peer \in Peers
    BY <1>1, <1>4, <1>12 DEF Connected, SwitchedOn, Connecting, Newest, CalledFor
  <2>2. ~host.stale => Called(host')
    <3> SUFFICES ASSUME ~host.stale PROVE Called(host')
      OBVIOUS
    <3>1. Called(host)
      BY <1>4 DEF Connected
    <3>2. ASSUME NEW n \in host'.got
          PROVE  n[1].client \in 1 .. Len(host'.clients) /\ n[1].char = n[2] /\ CalledFor(host', n[1]) = n[3]
      <4>1. CASE n \in host.got
        BY <1>12, <3>1, <4>1 DEF Called, CalledFor
      <4>2. CASE n = note /\ cb # Ble!None
        BY <1>7, <1>10, <1>12, <4>2 DEF CalledFor
      <4>3. QED  BY <1>12, <4>1, <4>2
    <3>3. QED  BY <1>12, <3>1, <3>2 DEF Called
  <2>3. ~host.stale => Notified(host', x)
    <3> SUFFICES ASSUME ~host.stale PROVE Notified(host', x)
      OBVIOUS
    <3> DEFINE h == host
               g == host'
    <3>1. Notified(h, es)
      BY <1>4 DEF Connected, es
    <3>2. /\ Len(g.clients) = Len(h.clients) /\ Newest(g) = Newest(h) /\ g.callback = h.callback
          /\ (\A v : CalledFor(g, v) = CalledFor(h, v)) /\ \A u \in Threads : Connecting(g, u) => Connecting(h, u)
      BY <1>12 DEF Newest, CalledFor, Connecting
    <3>3. \A i \in 1 .. Len(es) : es[i].kind = "reply" => es[i].to \in Threads
      BY <1>3 DEF Awaited
    <3> HIDE DEF g, h
    <3>4. Notified(g, x)
      BY <1>1, <3>1, <3>2, <3>3, NotifiedLess
    <3>5. QED  BY <3>4 DEF g
  <2>4. QED  BY <1>12, <2>1, <2>2, <2>3 DEF Connected, x
<1>16. QED  BY <1>1, <1>2, <1>3, <1>12, <1>13, <1>14, <1>15 DEF BleInv, BleSound, BleShape, x

-----------------------------------------------------------------------------
(* The GATT server *)

LEMMA CentralStep ==
  ASSUME BleInv, NEW on \in BOOLEAN, Ble!Central(on)
  PROVE  BleInv'
<1> DEFINE e == [kind |-> "central", on |-> on]
           es == Append(wire.events, e)
           m == wire.items - 1
<1>1. /\ host.part = "server" /\ wire.items > 0 /\ host' = host /\ board' = [board EXCEPT !.central = on]
      /\ wire' = [wire EXCEPT !.items = m, !.events = IF board.shared THEN wire.events ELSE es]
  BY DEF Ble!Central, Ble!Is
<1>2. /\ host \in BleHosts /\ board \in BleBoards /\ wire \in BleWires /\ Awaited(host.call, wire.events)
      /\ wire.events \in Seq(BleEvents) /\ wire.items \in 0 .. Adverts
  BY BleFields
<1>3. NoScan(host, board, wire) /\ NoClient(host, board, wire)
  BY <1>1 DEF BleInv, BleSound
<1>4. board' \in BleBoards /\ board'.scanning = board.scanning /\ board'.peer = board.peer
  BY <1>1, <1>2 DEF BleBoards
<1>5. m \in 0 .. Adverts
  BY <1>1, <1>2, BleConstants
<1>6. e \in BleEvents /\ e.kind = "central"
  BY DEF BleEvents
<1> HIDE DEF e
<1>7. es \in Seq(BleEvents) /\ Len(wire.events) \in Nat /\ Grown(wire.events, es, e)
  BY <1>2, <1>6, GrownBy
<1> HIDE DEF es, m
<1>8. /\ wire' \in BleWires
      /\ wire'.events = IF board.shared THEN wire.events ELSE es
  BY <1>1, <1>2, <1>5, <1>7 DEF BleWires
<1>9. Awaited(host.call, wire'.events)
  <2>1. e.kind # "reply" /\ \A u \in Threads : host.call[u].op \in Awaiting => host.call[u].op \in Awaiting
    BY <1>6
  <2>2. Awaited(host.call, es)
    BY <1>2, <1>7, <2>1, AwaitedOther
  <2>3. QED  BY <1>2, <1>8, <2>2
<1>10. \A i \in 1 .. Len(wire'.events) : wire'.events[i].kind # "adv" /\ wire'.events[i].kind # "notify"
  <2>1. \A i \in 1 .. Len(wire.events) : wire.events[i].kind # "adv" /\ wire.events[i].kind # "notify"
    BY <1>3 DEF NoScan, NoClient
  <2>2. \A i \in 1 .. Len(es) : es[i] = e \/ \E j \in 1 .. Len(wire.events) : wire.events[j] = es[i]
    BY <1>7, EachMore
  <2>3. \A i \in 1 .. Len(es) : es[i].kind # "adv" /\ es[i].kind # "notify"
    BY <1>6, <2>1, <2>2
  <2>4. QED  BY <1>8, <2>1, <2>3
<1>11. NoScan(host', board', wire') /\ NoClient(host', board', wire')
  BY <1>1, <1>3, <1>4, <1>10 DEF NoScan, NoClient
<1>12. QED  BY <1>1, <1>2, <1>4, <1>8, <1>9, <1>11 DEF BleInv, BleSound, BleShape

\* Nobody waits for a reply of the server's board, nor is anybody notified.
LEMMA ServerEvents ==
  ASSUME BleInv, host.part = "server", wire.events # <<>>, 1 \in 1 .. Len(wire.events)
  PROVE  wire.events[1].kind # "reply" /\ wire.events[1].kind # "adv" /\ wire.events[1].kind # "notify"
<1>1. NoScan(host, board, wire) /\ NoClient(host, board, wire)
  BY DEF BleInv, BleSound
<1>2. \A t \in Threads : host.call[t].op \notin Awaiting
  BY <1>1, Zenon DEF NoScan, NoClient, Awaiting, ScanOps
<1>3. wire.events[1].kind # "reply"
  BY <1>2, ReplyTo
<1>4. QED  BY <1>1, <1>3 DEF NoScan, NoClient


LEMMA CentralComes ==
  ASSUME BleInv, Ble!Deliver, wire.events[1].kind = "central"
  PROVE  BleInv'
<1> DEFINE e == wire.events[1]
           x == wire'.events
           d == host.call
           es == wire.events
<1>1. /\ board' = board /\ wire' \in BleWires /\ wire'.faults = wire.faults
      /\ Head(es) = e /\ e \in BleEvents /\ Len(x) \in Nat /\ Shrunk(es, x)
  BY Delivered
<1>2. /\ host \in BleHosts /\ board \in BleBoards /\ wire \in BleWires /\ Awaited(d, es)
  BY BleFields
<1>3. host' = [host EXCEPT !.central = e.on] /\ e.on \in BOOLEAN
  <2>1. host' = [host EXCEPT !.central = e.on]
    BY <1>1 DEF Ble!Deliver
  <2>2. e.on \in BOOLEAN
    BY <1>1 DEF BleEvents, BleAdvs, BleNotes, BleReplies
  <2>3. QED  BY <2>1, <2>2
<1>4. /\ host' \in BleHosts /\ host'.part = host.part /\ host'.call = host.call /\ host'.got = host.got
      /\ host'.advs = host.advs /\ host'.clients = host.clients /\ host'.callback = host.callback
      /\ host'.stale = host.stale
  <2> DEFINE on == e.on
  <2>1. host' = [host EXCEPT !.central = on] /\ on \in BOOLEAN
    BY <1>3
  <2> HIDE DEF on
  <2>2. QED  BY <1>2, <2>1 DEF BleHosts
<1>5. es[1].kind # "reply"
  OBVIOUS
<1> HIDE DEF e, x, d, es
<1>6. Awaited(d, x)
  <2>1. \A u \in Threads : d[u].op \in Awaiting /\ (es[1].kind = "reply" => u # es[1].to) => d[u].op \in Awaiting
    OBVIOUS
  <2>2. QED  BY <1>1, <1>2, <2>1, AwaitedLess
<1>7. \A i \in 1 .. Len(x) : \E j \in 1 .. Len(es) : es[j] = x[i]
  BY <1>1, EachLess
<1>8. host.part # "scan" => NoScan(host', board', wire')
  <2> SUFFICES ASSUME host.part # "scan" PROVE NoScan(host', board', wire')
    OBVIOUS
  <2>1. NoScan(host, board, wire)
    BY DEF BleInv, BleSound
  <2>2. \A i \in 1 .. Len(x) : x[i].kind # "adv"
    BY <1>7, <2>1 DEF NoScan, es
  <2>3. QED  BY <1>1, <1>4, <2>1, <2>2 DEF NoScan, x
<1>9. host.part # "client" => NoClient(host', board', wire')
  <2> SUFFICES ASSUME host.part # "client" PROVE NoClient(host', board', wire')
    OBVIOUS
  <2>1. NoClient(host, board, wire)
    BY DEF BleInv, BleSound
  <2>2. \A i \in 1 .. Len(x) : x[i].kind # "notify"
    BY <1>7, <2>1 DEF NoClient, es
  <2>3. QED  BY <1>1, <1>4, <2>1, <2>2 DEF NoClient, x
<1>10. host.part = "scan" => Scanned(host', board', wire')
  <2> SUFFICES ASSUME host.part = "scan", wire.faults = Faults
               PROVE  /\ ForSomebody(d, x, board.scanning)
                      /\ \A u \in Threads : d[u].alone => Alone(d, u, host.advs, x, board.scans)
    BY <1>1, <1>4 DEF Scanned, d, x
  <2>1. /\ ForSomebody(d, es, board.scanning)
        /\ \A u \in Threads : d[u].alone => Alone(d, u, host.advs, es, board.scans)
    BY DEF BleInv, BleSound, Scanned, d, es
  <2>2. ForSomebody(d, x, board.scanning)
    <3>1. \A u \in Threads : ~(es[1].kind = "reply" /\ es[1].to = u) => d[u].op = d[u].op
      OBVIOUS
    <3>2. QED  BY <1>1, <1>2, <1>5, <2>1, <3>1, SomebodyLess
  <2>3. ASSUME NEW u \in Threads, d[u].alone
        PROVE  Alone(d, u, host.advs, x, board.scans)
    <3> DEFINE advs == host.advs
               n == board.scans
    <3>1. Alone(d, u, advs, es, n)
      BY <2>1, <2>3
    <3> HIDE DEF advs, n
    <3>2. \A i \in 1 .. Len(x) : x[i].kind = "adv" => x[i].of = n \/ \E j \in 1 .. Len(es) : es[j] = x[i]
      BY <1>7
    <3>3. Alone(d, u, advs, x, n)
      BY <3>1, <3>2, AloneStill
    <3>4. QED  BY <3>3 DEF advs, n
  <2>4. QED  BY <2>2, <2>3
<1>11. host.part = "client" => Connected(host', board', wire')
  <2> SUFFICES ASSUME host.part = "client" PROVE Connected(host', board', wire')
    OBVIOUS
  <2>1. Connected(host, board, wire)
    BY DEF BleInv, BleSound
  <2>2. SwitchedOn(host', board') /\ \A t \in Threads : Connecting(host', t) => host'.call[t].peer \in Peers
    BY <1>1, <1>4, <2>1 DEF Connected, SwitchedOn, Connecting, Newest, CalledFor
  <2>3. ~host.stale => Called(host')
    BY <1>4, <2>1 DEF Connected, Called, CalledFor
  <2>4. ~host.stale => Notified(host', x)
    <3> SUFFICES ASSUME ~host.stale PROVE Notified(host', x)
      OBVIOUS
    <3>1. Notified(host, es)
      BY <2>1 DEF Connected, es
    <3> DEFINE h == host
               g == host'
    <3>2. /\ Len(g.clients) = Len(h.clients) /\ Newest(g) = Newest(h) /\ g.callback = h.callback
          /\ (\A v : CalledFor(g, v) = CalledFor(h, v)) /\ \A u \in Threads : Connecting(g, u) => Connecting(h, u)
      BY <1>4 DEF Newest, CalledFor, Connecting
    <3>3. \A i \in 1 .. Len(es) : es[i].kind = "reply" => es[i].to \in Threads
      BY <1>2 DEF Awaited
    <3> HIDE DEF g, h
    <3>4. Notified(g, x)
      BY <1>1, <3>1, <3>2, <3>3, NotifiedLess DEF h
    <3>5. QED  BY <3>4 DEF g
  <2>5. QED  BY <1>4, <2>2, <2>3, <2>4 DEF Connected, x
<1>12. QED  BY <1>1, <1>2, <1>4, <1>6, <1>8, <1>9, <1>10, <1>11 DEF BleInv, BleSound, BleShape, x, d


-----------------------------------------------------------------------------
(* Every step *)

LEMMA BleDeliver ==
  ASSUME BleInv, Ble!Deliver
  PROVE  BleInv'
<1>1. /\ wire.events # <<>> /\ wire.events[1] \in BleEvents /\ 1 \in 1 .. Len(wire.events)
  BY Delivered
<1>2. \/ wire.events[1].kind = "adv" \/ wire.events[1].kind = "notify"
      \/ wire.events[1].kind = "reply" \/ wire.events[1].kind = "central"
  BY <1>1 DEF BleEvents, BleAdvs, BleNotes, BleReplies
<1>3. host.part = "scan" \/ host.part = "client" \/ host.part = "server"
  BY BleFields
<1>4. CASE wire.events[1].kind = "reply"
  <2>1. host.part # "server"
    BY <1>1, <1>4, ServerEvents
  <2>2. QED  BY <1>3, <1>4, <2>1, ScanReply, ClientReply
<1>5. QED  BY <1>2, <1>4, AdvComes, NotifyComes, CentralComes

LEMMA BleStep ==
  ASSUME BleInv, Ble!Next
  PROVE  BleInv'
<1>1. CASE \E t \in Threads : Ble!ScanCall(t)
  BY <1>1, ScanCallStep
<1>2. CASE \E t \in Threads : Ble!ScanStart(t)
  BY <1>2, ScanStartStep
<1>3. CASE \E t \in Threads : Ble!Collect(t)
  BY <1>3, CollectStep
<1>4. CASE \E t \in Threads : Ble!ScanStop(t)
  BY <1>4, ScanStopStep
<1>5. CASE \E t \in Threads : Ble!ConnectCall(t)
  BY <1>5, ConnectCallStep
<1>6. CASE \E t \in Threads : Ble!ConnectFails(t)
  BY <1>6, ConnectFailsStep
<1>7. CASE \E t \in Threads : \E c \in DOMAIN host.clients, op \in {"subscribe", "unsubscribe", "disconnect"} :
             Ble!ClientCall(t, c, op)
  BY <1>7, ClientCallStep
<1>8. CASE \E addr \in Addresses : Ble!Advertises(addr)
  BY <1>8, AdvertisesStep
<1>9. CASE \E ch \in Ble!Chars : Ble!Notifies(ch)
  BY <1>9, NotifiesStep
<1>10. CASE \E on \in BOOLEAN : Ble!Central(on)
  BY <1>10, CentralStep
<1>11. CASE Ble!PeerDrops
  BY <1>11, PeerDropsStep
<1>12. CASE Ble!Deliver
  BY <1>12, BleDeliver
<1>13. QED  BY <1>1, <1>2, <1>3, <1>4, <1>5, <1>6, <1>7, <1>8, <1>9, <1>10, <1>11, <1>12 DEF Ble!Next

-----------------------------------------------------------------------------
(* The peripherals *)

\* What the driver of a radio says is so: receive() of a LoRa radio returns the first packet that
\* came since it was called, or says that it was corrupt (SX126x, SX127x, SX128x.receive);
\* send() and receive() of the nRF24 tell of this payload and of the oldest of the FIFO
\* (NRF24.send, NRF24.receive); send() of ESP-NOW is told of its own packet's callback, and the
\* board's count of fire-and-forget packets is that of those on the air (EspNow.send, on_sent).
THEOREM RadiosStayTruthful == PeripheralSpec => []RadiosTellTruth
<1> DEFINE Inv ==
      /\ part = "lora" => LoraInv
      /\ part = "nrf24" => NrfInv
      /\ part = "espnow" => EspInv
<1>1. PeripheralInit => Inv
  BY LoraInit, NrfInit, EspInit DEF PeripheralInit
<1>2. Inv /\ [PeripheralNext]_Parted => Inv'
  <2> SUFFICES ASSUME Inv, [PeripheralNext]_Parted PROVE Inv'
    OBVIOUS
  <2>1. CASE UNCHANGED Parted
    <3>1. part' = part /\ host' = host /\ board' = board /\ wire' = wire
      BY <2>1 DEF Parted
    <3>2. LoraInv => LoraInv'
      BY <3>1 DEF LoraInv
    <3>3. NrfInv => NrfInv'
      BY <3>1 DEF NrfInv
    <3>4. EspInv => EspInv'
      BY <3>1 DEF EspInv
    <3>5. QED  BY <3>1, <3>2, <3>3, <3>4
  <2>2. CASE PeripheralNext
    <3>1. part' = part /\ (part = "lora" => Lora!Next) /\ (part = "nrf24" => Nrf24!Next) /\ (part = "espnow" => EspNow!Next)
      BY <2>2 DEF PeripheralNext
    <3>2. QED  BY <3>1, LoraStep, NrfStep, EspStep
  <2>3. QED  BY <2>1, <2>2
<1>3. Inv => RadiosTellTruth
  BY LoraMeans, NrfMeans, EspMeans DEF RadiosTellTruth
<1>4. QED  BY <1>1, <1>2, <1>3, PTL DEF PeripheralSpec

\* Events that wait for a reader: bytes, frames and packets come out in the order in which they
\* came, each once, a line is one line, nobody hears of a pin that is not watched
\* (UartPort.read, readline, Can.receive, Pin.watch); a scan returns what it heard itself, one
\* entry for each device, and a callback is called for its own characteristic and peripheral
\* (Ble.scan, GattClient.subscribe, Ble._on_notify).
THEOREM InboxStaysRight == PeripheralSpec => []InboxIsRight
<1> DEFINE Inv ==
      /\ part = "inbox" => InboxInv
      /\ part = "ble" => BleInv
<1>1. PeripheralInit => Inv
  BY InboxInit, BleInit DEF PeripheralInit
<1>2. Inv /\ [PeripheralNext]_Parted => Inv'
  <2> SUFFICES ASSUME Inv, [PeripheralNext]_Parted PROVE Inv'
    OBVIOUS
  <2>1. CASE UNCHANGED Parted
    <3>1. part' = part /\ host' = host /\ board' = board /\ wire' = wire
      BY <2>1 DEF Parted
    <3>2. InboxInv => InboxInv'
      BY <3>1 DEF InboxInv
    <3>3. BleInv => BleInv'
      BY <3>1 DEF BleInv
    <3>4. QED  BY <3>1, <3>2, <3>3
  <2>2. CASE PeripheralNext
    <3>1. part' = part /\ (part = "inbox" => Inbox!Next) /\ (part = "ble" => Ble!Next)
      BY <2>2 DEF PeripheralNext
    <3>2. QED  BY <3>1, InboxStep, BleStep
  <2>3. QED  BY <2>1, <2>2
<1>3. Inv => InboxIsRight
  BY InboxMeans, BleMeans DEF InboxIsRight
<1>4. QED  BY <1>1, <1>2, <1>3, PTL DEF PeripheralSpec
=============================================================================
