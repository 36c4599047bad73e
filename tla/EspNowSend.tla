------------------------------ MODULE EspNowSend ------------------------------
(***************************************************************************)
(* ESP-NOW sends: EspNow.send(wait=True), send(wait=False) and broadcast() *)
(* of python/espbridge/espnow.py, and do_send() and handle_tx_done() of    *)
(* src/esp/mod_espnow.cpp, which tell a waiting send's callback from a     *)
(* fire-and-forget one's by counting the latter.                           *)
(***************************************************************************)
EXTENDS Naturals, Sequences, FiniteSets

CONSTANTS
  Threads,   \* of the host
  Packets,   \* bound of the model: packets handed to the radio
  Faults     \* bound of the model: sends the driver refuses, resets of the board

VARIABLES
  host,    \* EspNow._bcast_added, the threads' calls and what they were told
  board,   \* the driver, ff_outstanding, the semaphore, the packets on the air
  wire     \* requests on their way

vars == <<host, board, wire>>

SendIds == 0 .. Packets                 \* 0: none
Idle == [id |-> 0, sure |-> FALSE]  \* no send() is waiting
None == [id |-> 0, thread |-> 0]

TypeOK ==
  /\ host.added \in BOOLEAN
  /\ \A t \in Threads : /\ host.call[t].id \in SendIds
                        /\ host.told[t] \in [id : SendIds, acked : BOOLEAN]
  /\ board.on \in BOOLEAN /\ board.peer \in BOOLEAN /\ board.given \in BOOLEAN
  /\ board.ff \in 0 .. 255
  /\ board.air \in Seq([id : SendIds, wait : BOOLEAN]) /\ Len(board.air) <= Packets
  /\ board.acked \subseteq SendIds /\ board.wasLate \in BOOLEAN
  /\ wire.sent \in SendIds /\ wire.faults \in 0 .. Faults

Init ==
  /\ host = [added |-> FALSE, call |-> [t \in Threads |-> Idle],
             told |-> [t \in Threads |-> [id |-> 0, acked |-> FALSE]]]
  /\ board = [on |-> FALSE, peer |-> FALSE, ff |-> 0, counting |-> FALSE, given |-> FALSE,
              status |-> FALSE, air |-> <<>>, now |-> None, acked |-> {},
              wasLate |-> FALSE]
  /\ wire = [sent |-> 0, faults |-> Faults]

FireAndForget(air) == {i \in DOMAIN air : ~air[i].wait}
\* All that is on the air is fire-and-forget, and counted.
Settled == board.ff = Len(board.air) /\ FireAndForget(board.air) = DOMAIN board.air
Free == board.now = None /\ ~board.counting   \* slow_task serves one request at a time
Fault == wire.faults > 0 /\ wire' = [wire EXCEPT !.faults = @ - 1]
Fresh == wire.sent + 1

----------------------------------------------------------------------------
(* begin(), end(), reset() *)

Begin ==
  /\ Free
  /\ board' = [board EXCEPT !.on = TRUE]
  /\ UNCHANGED <<host, wire>>

\* The driver forgets its peers and the packets it was still sending.
Down == [board EXCEPT !.on = FALSE, !.peer = FALSE, !.ff = 0, !.air = <<>>]

\* ESPNOW_DEINIT: the host's note that the broadcast address is a peer goes too.
End ==
  /\ Free /\ board.on
  /\ board' = Down
  /\ host' = [host EXCEPT !.added = FALSE]
  /\ UNCHANGED wire

\* reset(): the board starts from nothing, the EspNow object stays what it was.
Reset ==
  /\ Free /\ Fault
  /\ \A t \in Threads : host.call[t] = Idle
  /\ board' = [Down EXCEPT !.given = FALSE, !.wasLate = FALSE]
  /\ UNCHANGED host

----------------------------------------------------------------------------
(* send(wait=True) *)

\* Deliberately wrong (mutation of Draining): leftover gives of earlier sends stay.
DrainingNot(b) == b

\* while (xSemaphoreTake(tx_done_sem, 0) == pdTRUE) {}
Draining(b) == [b EXCEPT !.given = FALSE]

\* The request reaches do_send(); a driver that refuses raises at once.
SendWait(t) ==
  /\ board.on /\ Free /\ host.call[t] = Idle /\ wire.sent < Packets
  /\ \/ /\ board' = [Draining(board) EXCEPT !.air = Append(@, [id |-> Fresh, wait |-> TRUE]),
                                            !.now = [id |-> Fresh, thread |-> t]]
        /\ host' = [host EXCEPT !.call[t] = [id |-> Fresh, sure |-> Settled]]
        /\ wire' = [wire EXCEPT !.sent = Fresh]
     \/ Fault /\ board' = Draining(board) /\ UNCHANGED host

\* What send() is told; only answers of sends that began in good order are kept.
Told(acked) ==
  LET t == board.now.thread IN
  host' = [host EXCEPT !.call[t] = Idle,
                       !.told[t] = IF host.call[t].sure
                                   THEN [id |-> board.now.id, acked |-> acked]
                                   ELSE [id |-> 0, acked |-> FALSE]]

SendDone ==
  /\ board.now # None /\ board.given
  /\ Told(board.status)
  /\ board' = [board EXCEPT !.given = FALSE, !.now = None]
  /\ UNCHANGED wire

\* 25 ms are over: the answer is "not delivered", the callback is still to come.
SendTimeout ==
  /\ board.now # None /\ ~board.given
  /\ Told(FALSE)
  /\ board' = [board EXCEPT !.now = None, !.wasLate = TRUE]
  /\ UNCHANGED wire

----------------------------------------------------------------------------
(* send(wait=False), broadcast() *)

\* ff_outstanding++ comes before esp_now_send(): the callback may be quicker than its return.
Count ==
  /\ board.on /\ Free /\ wire.sent < Packets
  /\ board' = [board EXCEPT !.ff = (@ + 1) % 256, !.counting = TRUE]
  /\ UNCHANGED <<host, wire>>

\* Deliberately wrong (mutation of Handed): a packet that was refused stays counted.
HandedOnly(b, taken) ==
  [b EXCEPT !.counting = FALSE,
            !.air = IF taken THEN Append(@, [id |-> Fresh, wait |-> FALSE]) ELSE @]

\* if (esp_now_send(...) != ESP_OK) ff_outstanding--;
Handed(b, taken) ==
  [b EXCEPT !.counting = FALSE,
            !.air = IF taken THEN Append(@, [id |-> Fresh, wait |-> FALSE]) ELSE @,
            !.ff = IF taken THEN @ ELSE (@ + 255) % 256]

Hand ==
  /\ board.counting
  /\ \/ board' = Handed(board, TRUE) /\ wire' = [wire EXCEPT !.sent = Fresh]
     \/ board' = Handed(board, FALSE) /\ Fault
  /\ UNCHANGED host

\* broadcast() makes the broadcast address a peer the first time; one that the driver does
\* not know is refused, and nobody is told.
Broadcast ==
  /\ board.on /\ Free /\ wire.sent < Packets
  /\ LET peer == board.peer \/ ~host.added IN
     /\ board' = IF peer THEN Handed([board EXCEPT !.peer = TRUE, !.ff = (@ + 1) % 256], TRUE)
                 ELSE board
     /\ wire' = IF peer THEN [wire EXCEPT !.sent = Fresh] ELSE wire
  /\ host' = [host EXCEPT !.added = TRUE]

----------------------------------------------------------------------------

\* handle_tx_done(): callbacks come in the order of the sends.  While fire-and-forget sends
\* are counted as in flight it is one of theirs.
TxDone(acked) ==
  /\ board.air # <<>>
  /\ LET p == Head(board.air)
         b == [board EXCEPT !.air = Tail(@),
                            !.acked = IF acked /\ p.wait THEN @ \cup {p.id} ELSE @]
     IN board' = IF board.ff > 0 THEN [b EXCEPT !.ff = @ - 1]
                 ELSE [b EXCEPT !.status = acked, !.given = TRUE]
  /\ UNCHANGED <<host, wire>>

Next ==
  \/ Begin \/ End \/ Reset \/ SendDone \/ SendTimeout
  \/ Count \/ Hand \/ Broadcast
  \/ \E t \in Threads : SendWait(t)
  \/ \E acked \in BOOLEAN : TxDone(acked)

----------------------------------------------------------------------------

(***************************************************************************)
(* send() returns True only for a packet that the peer's radio has         *)
(* acknowledged, if it began with the callbacks in step: no callback of    *)
(* an earlier waiting send, ended after 25 ms or by another's callback,    *)
(* still due, and the count of fire-and-forget sends right (EspNow.send,   *)
(* do_send, handle_tx_done).                                               *)
(***************************************************************************)
AckIsOwn ==
  \A t \in Threads : host.told[t].acked => host.told[t].id \in board.acked

(***************************************************************************)
(* ff_outstanding counts the fire-and-forget packets that are on the air   *)
(* as long as every waiting send has had its callback in time.             *)
(***************************************************************************)
CountIsRight ==
  ~board.wasLate =>
     board.ff = Cardinality(FireAndForget(board.air)) + (IF board.counting THEN 1 ELSE 0)

(***************************************************************************)
(* "At 0 it's the blocking sync send" (mod_espnow.cpp:27-30): whenever a   *)
(* callback is taken for the waiting send's, it is one of a waiting send.  *)
(***************************************************************************)
CallbackIsOwn == board.air # <<>> /\ board.ff = 0 => Head(board.air).wait

(***************************************************************************)
(* broadcast() has made the broadcast address a peer "on first use"        *)
(* (espnow.py:151) of the driver that is now running.                      *)
(***************************************************************************)
BroadcastIsPeer == board.on /\ host.added => board.peer
=============================================================================
