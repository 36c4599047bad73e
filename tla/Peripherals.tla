------------------------------ MODULE Peripherals ------------------------------
(***************************************************************************)
(* What comes in from outside a board while the program is in a call of    *)
(* its driver: packets of the LoRa radios (LoraRadios) and of the nRF24    *)
(* (Nrf24Radio), the callbacks of ESP-NOW (EspNowSend), bytes, frames and  *)
(* edges (EventInbox), advertisements and notifications (BleCentral).      *)
(***************************************************************************)
EXTENDS Parts

CONSTANTS
  Packets,    \* of LoraRadios, Nrf24Radio and EspNowSend
  FifoDepth,  \* of Nrf24Radio
  Arrivals, Newlines, Depth,           \* of EventInbox; Depth of BleCentral, too
  Callers, Addresses, Peers, Adverts, Tries  \* of BleCentral

LoraKinds == {"sx126x", "sx127x", "sx128x"}

\* The three radios, packets from the air.
Lora == INSTANCE LoraRadios WITH Kinds <- LoraKinds

\* A module that is sent to and that sends.
Nrf24 == INSTANCE Nrf24Radio WITH Payloads <- Packets

\* Packets of threads whose callbacks come late.
EspNow == INSTANCE EspNowSend WITH Faults <- Faults + 1

\* A serial port, a CAN bus, ESP-NOW's queue and a pin, read by several threads.
Inbox == INSTANCE EventInbox WITH Items <- Arrivals

\* Scans, connections out and in.
Ble == INSTANCE BleCentral WITH Parts <- {"scan", "client", "server"},
                              Items <- Adverts, Calls <- Tries

\* ff_outstanding of mod_espnow.cpp is a byte, which the packets on the air do not overrun;
\* no thread and no peripheral is 0, which stands for none.
ASSUME PeripheralAssumption ==
  /\ Packets \in 0 .. 255 /\ {FifoDepth, Arrivals, Depth, Adverts, Tries} \subseteq Nat
  /\ 0 \notin Threads /\ Ble!Nobody \notin Peers

PeripheralInit ==
  \/ part = "lora" /\ Lora!Init
  \/ part = "nrf24" /\ Nrf24!Init
  \/ part = "espnow" /\ EspNow!Init
  \/ part = "inbox" /\ Inbox!Init
  \/ part = "ble" /\ Ble!Init

PeripheralNext ==
  /\ UNCHANGED part
  /\ \/ part = "lora" /\ Lora!Next
     \/ part = "nrf24" /\ Nrf24!Next
     \/ part = "espnow" /\ EspNow!Next
     \/ part = "inbox" /\ Inbox!Next
     \/ part = "ble" /\ Ble!Next

PeripheralSpec == PeripheralInit /\ [][PeripheralNext]_Parted

-----------------------------------------------------------------------------

(***************************************************************************)
(* What the driver of a radio says is so: a packet that came is the next   *)
(* to be received, an acknowledgement is one of this payload, and what was *)
(* sent is counted once.                                                   *)
(***************************************************************************)
RadiosTellTruth ==
  /\ part = "lora" => Lora!FirstPacketHeard
  /\ part = "nrf24" => Nrf24!RadioTellsTruth
  /\ part = "espnow" => EspNow!AckIsOwn /\ EspNow!CountIsRight

(***************************************************************************)
(* Events that wait for a reader: they come out in order, each once, a     *)
(* line is one line, nobody hears of a pin that is not watched, and scans, *)
(* notifications and writes reach who asked for them.                      *)
(***************************************************************************)
InboxIsRight ==
  /\ part = "inbox" => Inbox!InOrder /\ Inbox!LineIsOne /\ Inbox!UnwatchedIsSilent
  /\ part = "ble" => Ble!ScanIsOwn /\ Ble!NotifyIsOwn
=============================================================================
