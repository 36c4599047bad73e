------------------------------ MODULE BleCentral ------------------------------
(***************************************************************************)
(* esp.ble (python/espbridge/ble.py) and mod_ble.cpp: scans, the client of *)
(* one peripheral and its notifications, the GATT server's connections.    *)
(* Advertisements and notifications come as events between the replies.    *)
(***************************************************************************)
EXTENDS Naturals, Sequences, SequencesExt

CONSTANTS
  Threads,   \* of the host
  Callers,   \* those of them that use a client
  Parts,     \* of the API, among scan, client, server
  Addresses, \* of devices that advertise
  Peers,     \* peripherals to connect to
  Depth,     \* of _adv_queue: 512 in the code
  Items,     \* bound of the model: advertisements or notifications
  Calls,     \* bound of the model: scans or connections
  Faults     \* bound of the model: requests that time out, events that are dropped

VARIABLES
  host,    \* Ble: _adv_queue, the callbacks, the GattClients; the calls of the threads
  board,   \* scanning or not, the peripheral, the notifications switched on
  wire     \* events and replies on their way

vars == <<host, board, wire>>

Nobody == 0
Chars == {"a", "b"}
None == [client |-> 0, char |-> "a"]
Idle == [op |-> "none", peer |-> Nobody, client |-> 0, char |-> "a", of |-> 0,
         taken |-> {}, seen |-> {}, alone |-> TRUE]

TypeOK ==
  /\ host.part \in Parts /\ Len(host.advs) <= Depth
  /\ \A t \in Threads : host.call[t].op \in
       {"none", "start", "starting", "collect", "stopping", "connect", "subscribe", "unsubscribe",
        "disconnect"}
  /\ \A c \in DOMAIN host.clients : host.clients[c].peer \in Peers
  /\ board.scanning \in BOOLEAN /\ board.peer \in Peers \cup {Nobody}
  /\ board.on \subseteq Chars /\ wire.faults \in 0 .. Faults

Init ==
  /\ \E part \in Parts :
       host = [part |-> part, advs |-> <<>>, call |-> [t \in Threads |-> Idle],
               clients |-> <<>>, callback |-> [c \in Chars |-> None], got |-> {}, stale |-> FALSE,
               central |-> FALSE, streams |-> {}]
  /\ \E shared \in BOOLEAN :
       board = [scanning |-> FALSE, scans |-> 0, peer |-> Nobody, on |-> {},
                central |-> FALSE, shared |-> shared]
  /\ wire = [events |-> <<>>, items |-> Items, calls |-> Calls, faults |-> Faults]

Is(part) == host.part = part
Op(t) == host.call[t].op
Scanners == {t \in Threads : Op(t) \in {"start", "starting", "collect", "stopping"}}
Then(t, op) == [host EXCEPT !.call[t].op = op]
Faulty == wire.faults > 0
Replied(w, t) == [w EXCEPT !.events = Append(@, [kind |-> "reply", to |-> t])]
Lost == [wire EXCEPT !.faults = @ - 1]

----------------------------------------------------------------------------
(* scan() *)

\* Deliberately wrong (mutation of Drained): what an earlier scan has left in the queue stays.
DrainedNot(h) == h

\* while not self._adv_queue.empty(): get_nowait()
Drained(h) == [h EXCEPT !.advs = <<>>]

\* The callback, when there is one, streams as well.
ScanCall(t) ==
  /\ Is("scan") /\ Op(t) = "none" /\ wire.calls > 0
  /\ LET others == Scanners # {}
         h == Drained(host)
     IN \E streams \in BOOLEAN :
          host' = [h EXCEPT !.call = [u \in Threads |->
                     IF u = t THEN [Idle EXCEPT !.op = "start", !.alone = ~others]
                     ELSE [h.call[u] EXCEPT !.alone = @ /\ u \notin Scanners]],
                   !.streams = IF streams THEN @ \cup {t} ELSE @]
  /\ wire' = [wire EXCEPT !.calls = @ - 1]
  /\ UNCHANGED board

\* SCAN_START.  A request that fails raises with the callback still registered.
ScanStart(t) ==
  /\ Op(t) = "start"
  /\ \/ /\ board' = [board EXCEPT !.scanning = TRUE, !.scans = @ + 1]
        /\ host' = [Then(t, "starting") EXCEPT !.call[t].of = board.scans + 1]
        /\ wire' = Replied(wire, t)
     \/ Faulty /\ wire' = Lost /\ host' = [host EXCEPT !.call[t] = Idle] /\ UNCHANGED board

\* One advertisement of the queue: the stronger of a device's, or the first with a name.
Collect(t) ==
  /\ Op(t) = "collect" /\ host.advs # <<>>
  /\ LET adv   == Head(host.advs)
         call  == host.call[t]
         cur   == {a \in call.seen : a.addr = adv.addr}
         takes == \A a \in cur : adv.rssi > a.rssi \/ (adv.named /\ ~a.named)
     IN host' = [host EXCEPT !.advs = Tail(@),
                   !.call[t].taken = @ \cup {adv},
                   !.call[t].seen = IF takes THEN (@ \ cur) \cup {adv} ELSE @]
  /\ UNCHANGED <<board, wire>>

\* The deadline: SCAN_STOP.
ScanStop(t) ==
  /\ Op(t) = "collect"
  /\ \/ /\ board' = [board EXCEPT !.scanning = FALSE]
        /\ host' = Then(t, "stopping") /\ wire' = Replied(wire, t)
     \/ Faulty /\ wire' = Lost /\ host' = [host EXCEPT !.call[t] = Idle] /\ UNCHANGED board

\* AdvCb::onResult()
Advertises(addr) ==
  /\ board.scanning /\ wire.items > 0
  /\ \E rssi \in {1, 2}, named \in BOOLEAN :
       LET adv == [kind |-> "adv", addr |-> addr, rssi |-> rssi, named |-> named, of |-> board.scans] IN
       \/ wire' = [wire EXCEPT !.events = Append(@, adv), !.items = @ - 1]
       \/ Faulty /\ wire' = [Lost EXCEPT !.items = @ - 1]
  /\ UNCHANGED <<host, board>>

----------------------------------------------------------------------------
(* connect(), GattClient *)

ConnectCall(t) ==
  /\ Is("client") /\ t \in Callers /\ Op(t) = "none" /\ wire.calls > 0
  /\ board.peer = Nobody
  /\ \E p \in Peers :
       /\ host' = [host EXCEPT !.call[t] = [Idle EXCEPT !.op = "connect", !.peer = p]]
       /\ board' = [board EXCEPT !.peer = p]
  /\ wire' = [Replied(wire, t) EXCEPT !.calls = @ - 1]

\* BUSY, or a timeout after which the board may be connected: there is no client to
\* disconnect with.
ConnectFails(t) ==
  /\ Is("client") /\ t \in Callers /\ Op(t) = "none" /\ wire.calls > 0
  /\ \/ board.peer # Nobody /\ wire' = [wire EXCEPT !.calls = @ - 1] /\ UNCHANGED board
     \/ /\ board.peer = Nobody /\ Faulty
        /\ wire' = [Lost EXCEPT !.calls = @ - 1]
        /\ \E p \in Peers \cup {Nobody} : board' = [board EXCEPT !.peer = p]
  /\ UNCHANGED host

Outlived(c) ==
  \/ board.peer \notin {Nobody, host.clients[c].peer}
  \/ \E d \in DOMAIN host.clients : d > c /\ host.clients[d].peer # host.clients[c].peer
  \/ \E u \in Threads : Op(u) = "connect"

\* subscribe(), unsubscribe(), disconnect() of a client whose "connected" is set.  The handle
\* is stale when another peripheral was connected to since, or another thread is connecting.
ClientCall(t, c, op) ==
  /\ Is("client") /\ t \in Callers /\ Op(t) = "none" /\ host.clients[c].connected
  /\ \E ch \in Chars :
       LET h == [host EXCEPT !.call[t] = [Idle EXCEPT !.op = op, !.client = c, !.char = ch],
                             !.stale = @ \/ Outlived(c)] IN
       CASE op = "subscribe" ->
              /\ host' = [h EXCEPT !.callback[ch] = [client |-> c, char |-> ch]]
              /\ board' = IF board.peer = Nobody THEN board ELSE [board EXCEPT !.on = @ \cup {ch}]
         [] op = "unsubscribe" ->
              /\ host' = [h EXCEPT !.callback[ch] = None]
              /\ board' = IF board.peer = Nobody THEN board ELSE [board EXCEPT !.on = @ \ {ch}]
         [] op = "disconnect" ->
              /\ host' = [h EXCEPT !.clients[c].connected = FALSE]
              /\ board' = [board EXCEPT !.peer = Nobody, !.on = {}]
  /\ wire' = Replied(wire, t)

\* The peripheral goes out of range; nobody on the host listens to GATTC_DISC_EVT.
PeerDrops ==
  /\ board.peer # Nobody /\ Faulty
  /\ board' = [board EXCEPT !.peer = Nobody, !.on = {}]
  /\ wire' = Lost
  /\ UNCHANGED host

Notifies(ch) ==
  /\ board.peer # Nobody /\ ch \in board.on /\ wire.items > 0
  /\ wire' = [wire EXCEPT !.items = @ - 1,
                          !.events = Append(@, [kind |-> "notify", char |-> ch, from |-> board.peer])]
  /\ UNCHANGED <<host, board>>

----------------------------------------------------------------------------
(* The GATT server *)

\* SrvCb; a server that belongs to the link has the link's callbacks, which say nothing.
Central(on) ==
  /\ Is("server") /\ board.central # on /\ wire.items > 0
  /\ board' = [board EXCEPT !.central = on]
  /\ wire' = [wire EXCEPT !.items = @ - 1,
                !.events = IF board.shared THEN @ ELSE Append(@, [kind |-> "central", on |-> on])]
  /\ UNCHANGED host

----------------------------------------------------------------------------
(* The reader thread *)

\* _on_adv(): a full queue keeps the oldest.
OnAdv(adv) ==
  [host EXCEPT !.advs = IF Len(@) < Depth THEN Append(@, adv) ELSE @]

Called(cb, e) ==
  IF cb = None THEN host ELSE [host EXCEPT !.got = @ \cup {<<cb, e.char, e.from>>}]

\* Deliberately wrong (mutation of OnNotify): whatever callback there is.
OnNotifyAny(e) ==
  LET cbs == {host.callback[ch] : ch \in Chars} \ {None} IN
  Called(IF cbs = {} THEN None ELSE CHOOSE cb \in cbs : TRUE, e)

\* _on_notify(): whoever has subscribed to that characteristic last.
OnNotify(e) == Called(host.callback[e.char], e)

\* A request returns.
Return(t) ==
  CASE Op(t) = "starting" -> Then(t, "collect")
    [] Op(t) = "connect"  ->
         [host EXCEPT !.call[t] = Idle,
                      !.clients = Append(@, [peer |-> host.call[t].peer, connected |-> TRUE])]
    [] OTHER -> [host EXCEPT !.call[t].op = "none", !.streams = @ \ {t}]

Deliver ==
  /\ wire.events # <<>>
  /\ LET e == Head(wire.events) IN
     host' = CASE e.kind = "reply"   -> Return(e.to)
               [] e.kind = "adv"     -> OnAdv(e)
               [] e.kind = "notify"  -> OnNotify(e)
               [] e.kind = "central" -> [host EXCEPT !.central = e.on]
  /\ wire' = [wire EXCEPT !.events = Tail(@)]
  /\ UNCHANGED board

Next ==
  \/ \E t \in Threads : \/ ScanCall(t) \/ ScanStart(t) \/ Collect(t) \/ ScanStop(t)
                        \/ ConnectCall(t) \/ ConnectFails(t)
                        \/ \E c \in DOMAIN host.clients, op \in {"subscribe", "unsubscribe", "disconnect"} :
                             ClientCall(t, c, op)
  \/ \E addr \in Addresses : Advertises(addr)
  \/ \E ch \in Chars : Notifies(ch)
  \/ \E on \in BOOLEAN : Central(on)
  \/ PeerDrops \/ Deliver

----------------------------------------------------------------------------

(***************************************************************************)
(* What scan() returns was heard during this scan, one entry for every     *)
(* device it took an advertisement of, unless another thread scanned       *)
(* meanwhile or a scan before could not be stopped (Ble.scan).             *)
(***************************************************************************)
ScanIsOwn ==
  \A t \in Threads : host.call[t].alone /\ wire.faults = Faults =>
    /\ \A adv \in host.call[t].seen : adv.of = host.call[t].of
    /\ {adv.addr : adv \in host.call[t].taken} = {adv.addr : adv \in host.call[t].seen}
    /\ \A a, b \in host.call[t].seen : a.addr = b.addr => a = b

(***************************************************************************)
(* "deduplicated by address (strongest RSSI kept)" (ble.py:186): no        *)
(* stronger advertisement of a device was dropped for a weaker one.        *)
(***************************************************************************)
StrongestKept ==
  \A t \in Threads : \A a \in host.call[t].taken, b \in host.call[t].seen :
    a.addr = b.addr => a.rssi <= b.rssi

(***************************************************************************)
(* A callback is called for notifications of the characteristic that it    *)
(* was given for, from the peripheral of its client, while programs keep   *)
(* to the client of the connection there is (GattClient.subscribe,         *)
(* Ble._on_notify).                                                        *)
(***************************************************************************)
NotifyIsOwn ==
  ~host.stale => \A n \in host.got :
    n[1].char = n[2] /\ host.clients[n[1].client].peer = n[3]

(***************************************************************************)
(* A client that says it is connected stands for the peripheral that the   *)
(* board is connected to (GattClient.connected, ble.py:71).                *)
(***************************************************************************)
ClientIsPeer ==
  wire.events = <<>> => \A c \in DOMAIN host.clients :
    host.clients[c].connected => host.clients[c].peer = board.peer

(***************************************************************************)
(* wait_connect() "Block until a client connects to the GATT server; True  *)
(* if one did" (ble.py:239): once the events are through the flag says     *)
(* whether one is there.                                                   *)
(***************************************************************************)
ConnectIsHeard == wire.events = <<>> => host.central = board.central

(***************************************************************************)
(* Only scans that are under way have a callback registered (ble.py:188,   *)
(* 206).                                                                   *)
(***************************************************************************)
CallbackGoes == host.streams \subseteq Scanners
=============================================================================
