------------------------- MODULE BoardModules_proofs -------------------------
(***************************************************************************)
(* What the firmware shares out keeps its promises, for any constants:     *)
(* first the answers of its tasks, the password of a session, the half     *)
(* frames it leaves and the sizes of the queues; then the owners of the    *)
(* Wi-Fi radio and its scans; then the watch rules and their callbacks.    *)
(*                                                                         *)
(* Of the tasks the invariant says where something of a session can still  *)
(* be: a board is Sound when what is in its lanes belongs to the client    *)
(* that is there or to a session that has been outlived, and when what     *)
(* rx_task is inside bears out the flag of the link and the order of the   *)
(* accumulator.  Of a scan it says what is still to come and what the host *)
(* has found; of a rule, which call or callback its number is at, and that *)
(* its last report in the queue is the state it is in.                     *)
(***************************************************************************)
EXTENDS BoardModules, Sequences, TLAPS

\* The constants are numbers, one by one.
LEMMA Bounds ==
  /\ Sessions \in Nat /\ Faults \in Nat /\ Sent \in Nat /\ Events \in Nat
  /\ Networks \in Nat /\ Scans \in Nat /\ Slots \in Nat /\ TxSlots \in Nat /\ Adds \in Nat
  /\ Chunk \in Nat \ {0} /\ TxQueue \in Nat \ {0} /\ SlowQueue \in Nat \ {0}
  BY PartsAssumption, BoardAssumption

-----------------------------------------------------------------------------
(* The tasks of the firmware *)

Anyone == Rtos!Clients \cup {Rtos!NoOne}

RtosHosts ==
  [session : Rtos!Clients, last : Rtos!Clients, sent : Nat, cut : SUBSET Rtos!Clients]

RtosBoards ==
  [connected : BOOLEAN, authed : BOOLEAN, rx : [Rtos!Links -> Nat],
   chunk : [of : Anyone, left : Nat], acc : [Rtos!Links -> Anyone], held : Anyone,
   origin : [{"rx", "slow"} -> Rtos!Links \cup {"all"}], slowq : Seq(Rtos!Clients),
   running : Anyone, txq : [Rtos!Links -> Seq(Rtos!Frames)],
   wire : [Rtos!Links -> Rtos!Frames \cup {Rtos!NoOne}], events : Nat]

RtosWires ==
  [granted : Anyone, straddled : SUBSET Rtos!Clients, outlived : SUBSET Rtos!Clients,
   stray : SUBSET (Rtos!Clients \X Rtos!Clients), heard : SUBSET Rtos!Clients,
   spoiled : SUBSET Rtos!Clients]

\* The parts are of the right kind; the session there is is the last one.
Shape(h, b, w) ==
  /\ h \in RtosHosts /\ b \in RtosBoards /\ w \in RtosWires
  /\ b.connected => h.session = h.last /\ h.session # Rtos!Usb
  /\ ~b.connected => b.rx["ble"] = 0
  /\ b.chunk.left > 0 => b.chunk.of # Rtos!NoOne
  /\ b.held # Rtos!NoOne => b.origin["rx"] = Rtos!Link(b.held)
  /\ b.running # Rtos!NoOne => b.origin["slow"] = Rtos!Link(b.running)

\* What is on a link.
On(b, l) == Rtos!Range(b.txq[l]) \cup {b.wire[l]}

\* The sessions of which something may be found on the board.
Own(h, b, w) == IF b.connected THEN {h.session} \cup w.outlived ELSE Rtos!Clients \ {Rtos!Usb}

\* What is under way belongs to one of them or to the cable, on its own link.
Lanes(h, b, w) ==
  /\ On(b, "usb") \subseteq {Rtos!Event, Rtos!Usb, Rtos!NoOne}
  /\ On(b, "ble") \subseteq (Own(h, b, w) \ {Rtos!Usb}) \cup {Rtos!Event, Rtos!NoOne}
  /\ {b.held, b.chunk.of, b.running} \subseteq Own(h, b, w) \cup {Rtos!Usb, Rtos!NoOne}
  /\ Rtos!Range(b.slowq) \subseteq Own(h, b, w) \cup {Rtos!Usb}
  /\ \A a \in w.stray : a[2] # Rtos!Usb /\ a[1] \in w.outlived

\* rx_task is inside the session there is, and its flag is its own.
Flag(h, b, w) ==
  b.connected =>
    /\ h.session \notin w.straddled => {b.held, b.chunk.of} \subseteq {h.session, Rtos!Usb, Rtos!NoOne}
    /\ b.authed /\ h.session \notin w.straddled => w.granted = h.session
    /\ ~b.authed => Rtos!Event \notin On(b, "ble")

\* Sessions go through the accumulator in their order: whose half frame is in it
\* comes after those that were heard, and before the one whose chunk is read.
Order(h, b, w) ==
  /\ b.acc["usb"] \in {Rtos!NoOne, Rtos!Usb}
  /\ b.chunk.of <= h.last /\ b.acc["ble"] <= h.last /\ \A s \in w.heard : s <= h.last
  /\ b.acc["ble"] # Rtos!NoOne => \A s \in w.heard : s <= b.acc["ble"]
  /\ b.chunk.of \notin {Rtos!NoOne, Rtos!Usb} =>
       b.acc["ble"] <= b.chunk.of /\ \A s \in w.heard : s <= b.chunk.of
  /\ w.spoiled = {}

Sound(h, b, w) == Shape(h, b, w) /\ Lanes(h, b, w) /\ Flag(h, b, w) /\ Order(h, b, w)

RtosInv == Sound(host, board, wire)

-----------------------------------------------------------------------------
(* Queues *)

\* The elements of a queue, one more, and one less.
LEMMA QueueSet ==
  ASSUME NEW S, NEW q \in Seq(S)
  PROVE  /\ Rtos!Range(q) \subseteq S
         /\ \A x \in S : Append(q, x) \in Seq(S) /\ Rtos!Range(Append(q, x)) \subseteq Rtos!Range(q) \cup {x}
         /\ q # <<>> => /\ Head(q) \in Rtos!Range(q) /\ Tail(q) \in Seq(S)
                        /\ Rtos!Range(Tail(q)) \subseteq Rtos!Range(q)
<1>1. Rtos!Range(q) \subseteq S
  BY DEF Rtos!Range
<1>2. ASSUME NEW x \in S
      PROVE  Append(q, x) \in Seq(S) /\ Rtos!Range(Append(q, x)) \subseteq Rtos!Range(q) \cup {x}
  <2>1. Append(q, x) \in Seq(S) /\ DOMAIN Append(q, x) = 1 .. Len(q) + 1 /\ DOMAIN q = 1 .. Len(q)
    OBVIOUS
  <2>2. \A i \in 1 .. Len(q) + 1 : Append(q, x)[i] = IF i = Len(q) + 1 THEN x ELSE q[i]
    OBVIOUS
  <2>3. \A i \in 1 .. Len(q) + 1 : i = Len(q) + 1 \/ i \in 1 .. Len(q)
    OBVIOUS
  <2>4. QED  BY <2>1, <2>2, <2>3 DEF Rtos!Range
<1>3. ASSUME q # <<>>
      PROVE  Head(q) \in Rtos!Range(q) /\ Tail(q) \in Seq(S) /\ Rtos!Range(Tail(q)) \subseteq Rtos!Range(q)
  <2>1. 1 \in DOMAIN q /\ Head(q) = q[1] /\ Tail(q) \in Seq(S)
    BY <1>3
  <2>2. \A i \in DOMAIN Tail(q) : i + 1 \in DOMAIN q /\ Tail(q)[i] = q[i + 1]
    BY <1>3
  <2>3. QED  BY <2>1, <2>2 DEF Rtos!Range
<1>4. QED  BY <1>1, <1>2, <1>3

LEMMA NobodyIsNobody ==
  ASSUME Sessions \in Nat
  PROVE  /\ Rtos!Event \notin Anyone /\ Rtos!NoOne \notin Rtos!Clients /\ Rtos!NoOne \notin Rtos!Frames /\ Rtos!NoOne # Rtos!Event
         /\ Rtos!Usb \in Rtos!Clients /\ Rtos!Event \in Rtos!Frames /\ Rtos!Clients \subseteq Rtos!Frames
         /\ Rtos!Clients \subseteq Nat /\ Anyone \subseteq Int /\ Rtos!NoOne < Rtos!Usb
         /\ \A s \in Rtos!Clients : Rtos!NoOne < s /\ Rtos!Usb <= s
  BY DEF Rtos!Event, Anyone, Rtos!NoOne, Rtos!Clients, Rtos!Frames, Rtos!Usb

\* Board e is b with frame f in more of its queues, those of dest at most.
Longer(e, b, dest, f) ==
  /\ e \in RtosBoards
  /\ e.connected = b.connected /\ e.authed = b.authed /\ e.rx = b.rx /\ e.chunk = b.chunk
  /\ e.acc = b.acc /\ e.held = b.held /\ e.origin = b.origin /\ e.slowq = b.slowq
  /\ e.running = b.running /\ e.wire = b.wire /\ e.events = b.events
  /\ \A l \in Rtos!Links : /\ On(e, l) \subseteq On(b, l) \cup {f}
                           /\ l \notin Rtos!Targets(b, dest) => On(e, l) = On(b, l)

\* Enqueue() adds at most its frame, to the queues of its targets.
LEMMA EnqueueIs ==
  ASSUME Sessions \in Nat, NEW b \in RtosBoards, NEW dest \in Rtos!Links \cup {"all"}, NEW f \in Rtos!Frames,
         NEW e, e = Rtos!Enqueue(b, dest, f)
  PROVE  Longer(e, b, dest, f)
<1> DEFINE q == [l \in Rtos!Links |-> IF l \in Rtos!Targets(b, dest) /\ Len(b.txq[l]) < TxQueue
                                      THEN Append(b.txq[l], f) ELSE b.txq[l]]
<1>1. \A l \in Rtos!Links : b.txq[l] \in Seq(Rtos!Frames)
  BY DEF RtosBoards
<1>2. q \in [Rtos!Links -> Seq(Rtos!Frames)]
  BY <1>1
<1>3. \A l \in Rtos!Links : /\ Rtos!Range(q[l]) \subseteq Rtos!Range(b.txq[l]) \cup {f}
                            /\ l \notin Rtos!Targets(b, dest) => q[l] = b.txq[l]
  BY <1>1, QueueSet
<1>4. e = [b EXCEPT !.txq = q]
  BY DEF Rtos!Enqueue
<1> HIDE DEF q
<1>5. /\ e.connected = b.connected /\ e.authed = b.authed /\ e.rx = b.rx /\ e.chunk = b.chunk
      /\ e.acc = b.acc /\ e.held = b.held /\ e.origin = b.origin /\ e.slowq = b.slowq
      /\ e.running = b.running /\ e.wire = b.wire /\ e.events = b.events /\ e.txq = q
      /\ e \in RtosBoards
  BY <1>2, <1>4 DEF RtosBoards
<1>6. ASSUME NEW l \in Rtos!Links
      PROVE  /\ On(e, l) \subseteq On(b, l) \cup {f}
             /\ l \notin Rtos!Targets(b, dest) => On(e, l) = On(b, l)
  <2>1. On(e, l) = Rtos!Range(q[l]) \cup {b.wire[l]} /\ On(b, l) = Rtos!Range(b.txq[l]) \cup {b.wire[l]}
    BY <1>5 DEF On
  <2>2. /\ Rtos!Range(q[l]) \subseteq Rtos!Range(b.txq[l]) \cup {f}
        /\ l \notin Rtos!Targets(b, dest) => q[l] = b.txq[l]
    BY <1>3
  <2>3. QED  BY <2>1, <2>2
<1>7. QED  BY <1>5, <1>6 DEF Longer

\* What may be told to whom.
Due(h, b, w, dest, f) ==
  /\ dest = "usb" => f \in {Rtos!Event, Rtos!Usb}
  /\ dest = "ble" => /\ f \in (Own(h, b, w) \ {Rtos!Usb}) \cup {Rtos!Event}
                     /\ f = Rtos!Event /\ b.connected => b.authed
  /\ dest = "all" => f = Rtos!Event

LEMMA EnqueueSound ==
  ASSUME Sessions \in Nat, NEW h, NEW b, NEW w, NEW dest \in Rtos!Links \cup {"all"}, NEW f \in Rtos!Frames,
         NEW e, e = Rtos!Enqueue(b, dest, f), Sound(h, b, w), Due(h, b, w, dest, f)
  PROVE  Sound(h, e, w)
<1>1. b \in RtosBoards
  BY DEF Sound, Shape
<1>2. /\ e \in RtosBoards
      /\ e.connected = b.connected /\ e.authed = b.authed /\ e.rx = b.rx /\ e.chunk = b.chunk
      /\ e.acc = b.acc /\ e.held = b.held /\ e.origin = b.origin /\ e.slowq = b.slowq
      /\ e.running = b.running /\ e.wire = b.wire /\ e.events = b.events
      /\ \A l \in Rtos!Links : /\ On(e, l) \subseteq On(b, l) \cup {f}
                               /\ l \notin Rtos!Targets(b, dest) => On(e, l) = On(b, l)
  <2>1. Longer(e, b, dest, f)
    BY <1>1, EnqueueIs
  <2>2. QED  BY <2>1 DEF Longer
<1>3. /\ On(e, "usb") \subseteq On(b, "usb") \cup {f} /\ On(e, "ble") \subseteq On(b, "ble") \cup {f}
      /\ dest = "ble" => On(e, "usb") = On(b, "usb")
      /\ dest = "usb" => On(e, "ble") = On(b, "ble")
      /\ dest = "all" /\ ~(b.connected /\ b.authed) => On(e, "ble") = On(b, "ble")
  <2>1. "usb" \in Rtos!Links /\ "ble" \in Rtos!Links
    BY DEF Rtos!Links
  <2>2. /\ dest = "ble" => "usb" \notin Rtos!Targets(b, dest)
        /\ dest = "usb" => "ble" \notin Rtos!Targets(b, dest)
        /\ dest = "all" /\ ~(b.connected /\ b.authed) => "ble" \notin Rtos!Targets(b, dest)
    BY DEF Rtos!Targets, Rtos!Authed
  <2>3. QED  BY <1>2, <2>1, <2>2
<1>4. Own(h, e, w) = Own(h, b, w)
  BY <1>2 DEF Own
<1>5. Shape(h, e, w)
  BY <1>2 DEF Sound, Shape
<1>6. Lanes(h, e, w)
  BY <1>2, <1>3, <1>4 DEF Sound, Lanes, Due, Rtos!Links
<1>7. Flag(h, e, w)
  <2> SUFFICES ASSUME b.connected
               PROVE  /\ h.session \notin w.straddled => {b.held, b.chunk.of} \subseteq {h.session, Rtos!Usb, Rtos!NoOne}
                      /\ b.authed /\ h.session \notin w.straddled => w.granted = h.session
                      /\ ~b.authed => Rtos!Event \notin On(e, "ble")
    BY <1>2 DEF Flag
  <2>1. ~b.authed => Rtos!Event \notin On(e, "ble")
    BY <1>3 DEF Sound, Flag, Due, Rtos!Links
  <2>2. QED  BY <2>1 DEF Sound, Flag
<1>8. Order(h, e, w)
  BY <1>2 DEF Sound, Order
<1>9. QED  BY <1>5, <1>6, <1>7, <1>8 DEF Sound

-----------------------------------------------------------------------------
(* The steps *)

\* Two boards that differ in what no part of Sound but its kind looks at.
LEMMA SameSound ==
  ASSUME Sessions \in Nat, NEW h, NEW h2, NEW b, NEW b2, NEW w, Sound(h, b, w),
         h2 \in RtosHosts, b2 \in RtosBoards, h2.session = h.session, h2.last = h.last,
         b2.connected = b.connected, b2.authed = b.authed, b2.chunk = b.chunk, b2.acc = b.acc,
         b2.held = b.held, b2.origin = b.origin, b2.slowq = b.slowq, b2.running = b.running,
         b2.txq = b.txq, b2.wire = b.wire, ~b.connected => b2.rx["ble"] = 0
  PROVE  Sound(h2, b2, w)
<1>1. On(b2, "usb") = On(b, "usb") /\ On(b2, "ble") = On(b, "ble") /\ Own(h2, b2, w) = Own(h, b, w)
  BY DEF On, Own
<1>2. Shape(h2, b2, w)
  BY DEF Sound, Shape
<1>3. Lanes(h2, b2, w)
  BY <1>1 DEF Sound, Lanes
<1>4. Flag(h2, b2, w)
  BY <1>1 DEF Sound, Flag
<1>5. Order(h2, b2, w)
  BY DEF Sound, Order
<1>6. QED  BY <1>2, <1>3, <1>4, <1>5 DEF Sound

LEMMA InitSound ==
  ASSUME Sessions \in Nat, Rtos!Init
  PROVE  RtosInv
<1>1. /\ host \in RtosHosts /\ board \in RtosBoards /\ wire \in RtosWires
  <2>1. [l \in Rtos!Links |-> 0] \in [Rtos!Links -> Nat] /\ [l \in Rtos!Links |-> <<>>] \in [Rtos!Links -> Seq(Rtos!Frames)]
    OBVIOUS
  <2>2. /\ [l \in Rtos!Links |-> Rtos!NoOne] \in [Rtos!Links -> Anyone]
        /\ [l \in Rtos!Links |-> Rtos!NoOne] \in [Rtos!Links -> Rtos!Frames \cup {Rtos!NoOne}]
        /\ Rtos!NoOne \in Anyone /\ Rtos!NoChunk \in [of : Anyone, left : Nat]
    BY DEF Anyone, Rtos!NoChunk
  <2>3. [t \in {"rx", "slow"} |-> "all"] \in [{"rx", "slow"} -> Rtos!Links \cup {"all"}]
    OBVIOUS
  <2>4. 0 \in Rtos!Clients
    BY NobodyIsNobody DEF Rtos!Usb
  <2>5. host \in RtosHosts
    BY <2>4 DEF Rtos!Init, RtosHosts
  <2>6. board \in RtosBoards
    BY <2>1, <2>2, <2>3 DEF Rtos!Init, RtosBoards
  <2>7. wire \in RtosWires
    BY <2>2 DEF Rtos!Init, RtosWires
  <2>8. QED  BY <2>5, <2>6, <2>7
<1>2. On(board, "usb") = {Rtos!NoOne} /\ On(board, "ble") = {Rtos!NoOne} /\ Rtos!Range(board.slowq) = {}
  BY DEF Rtos!Init, On, Rtos!Range, Rtos!Links
<1>3. Shape(host, board, wire)
  BY <1>1 DEF Rtos!Init, Shape, Rtos!Links, Rtos!NoChunk
<1>4. Lanes(host, board, wire)
  BY <1>2 DEF Rtos!Init, Lanes, Rtos!NoChunk
<1>5. Flag(host, board, wire)
  BY DEF Rtos!Init, Flag
<1>6. Order(host, board, wire)
  <2>1. board.acc["usb"] = Rtos!NoOne /\ board.acc["ble"] = Rtos!NoOne /\ board.chunk.of = Rtos!NoOne
    BY DEF Rtos!Init, Rtos!NoChunk, Rtos!Links
  <2>2. host.last = 0 /\ wire.heard = {} /\ wire.spoiled = {} /\ Rtos!NoOne <= 0
    BY DEF Rtos!Init, Rtos!NoOne
  <2>3. QED  BY <2>1, <2>2 DEF Order
<1>7. QED  BY <1>3, <1>4, <1>5, <1>6 DEF RtosInv, Sound

LEMMA ArriveKeeps ==
  ASSUME Sessions \in Nat, RtosInv, NEW c \in Rtos!Clients, Rtos!Arrive(c)
  PROVE  RtosInv'
<1>1. host \in RtosHosts /\ board \in RtosBoards
  BY DEF RtosInv, Sound, Shape
<1>2. host' \in RtosHosts /\ host'.session = host.session /\ host'.last = host.last
  BY <1>1 DEF Rtos!Arrive, RtosHosts
<1>3. Rtos!Link(c) \in Rtos!Links /\ (~board.connected => Rtos!Link(c) = "usb")
  BY DEF Rtos!Arrive, Rtos!Link, Rtos!Links
<1> DEFINE rx == [board.rx EXCEPT ![Rtos!Link(c)] = @ + 1]
<1>4. rx \in [Rtos!Links -> Nat] /\ board' = [board EXCEPT !.rx = rx]
  BY <1>1, <1>3 DEF Rtos!Arrive, RtosBoards
<1> HIDE DEF rx
<1>5. /\ board' \in RtosBoards /\ board'.connected = board.connected /\ board'.authed = board.authed
      /\ board'.chunk = board.chunk /\ board'.acc = board.acc /\ board'.held = board.held
      /\ board'.origin = board.origin /\ board'.slowq = board.slowq
      /\ board'.running = board.running /\ board'.txq = board.txq /\ board'.wire = board.wire
      /\ board'.rx = rx
  BY <1>1, <1>4 DEF RtosBoards
<1>6. ~board.connected => board'.rx["ble"] = 0
  BY <1>1, <1>3, <1>5 DEF RtosInv, Sound, Shape, RtosBoards, Rtos!Links, rx
<1>7. Sound(host', board', wire)
  BY <1>2, <1>5, <1>6, SameSound DEF RtosInv
<1>8. QED  BY <1>7 DEF RtosInv, Rtos!Arrive

LEMMA ConnectKeeps ==
  ASSUME Sessions \in Nat, RtosInv, Rtos!Connect
  PROVE  RtosInv'
<1> DEFINE s == host.last + 1
<1>1. host \in RtosHosts /\ board \in RtosBoards /\ wire \in RtosWires
  BY DEF RtosInv, Sound, Shape
<1>2. s \in Rtos!Clients /\ s # Rtos!Usb /\ s \in Nat
  BY <1>1 DEF Rtos!Connect, RtosHosts, Rtos!Clients, Rtos!Usb
<1>3. host' \in RtosHosts /\ host'.session = s /\ host'.last = s
  BY <1>1, <1>2 DEF Rtos!Connect, RtosHosts
<1>4. /\ board' \in RtosBoards /\ board'.connected = TRUE /\ board'.authed = FALSE
      /\ board'.rx = board.rx /\ board'.chunk = board.chunk /\ board'.acc = board.acc
      /\ board'.held = board.held /\ board'.origin = board.origin /\ board'.slowq = board.slowq
      /\ board'.running = board.running /\ board'.txq = board.txq /\ board'.wire = board.wire
  BY <1>1 DEF Rtos!Connect, Rtos!Connected, RtosBoards
<1>5. ~board.connected /\ Own(host, board, wire) = Rtos!Clients \ {Rtos!Usb}
  BY DEF Rtos!Connect, Own
<1>6. Rtos!Inside \cup Rtos!Behind \subseteq Rtos!Clients \ {Rtos!Usb}
  BY <1>5, NobodyIsNobody DEF RtosInv, Sound, Lanes, Rtos!Inside, Rtos!Behind
<1>7. /\ wire' \in RtosWires
      /\ wire'.granted = wire.granted /\ wire'.stray = wire.stray /\ wire'.heard = wire.heard
      /\ wire'.spoiled = wire.spoiled /\ wire'.outlived = wire.outlived \cup Rtos!Behind
      /\ wire'.straddled = IF Rtos!Inside # {} THEN wire.straddled \cup {s} ELSE wire.straddled
  <2>1. wire' = [wire EXCEPT !.straddled = IF Rtos!Inside # {} THEN @ \cup {s} ELSE @,
                             !.outlived = @ \cup Rtos!Behind]
    BY DEF Rtos!Connect
  <2>2. (IF Rtos!Inside # {} THEN wire.straddled \cup {s} ELSE wire.straddled) \subseteq Rtos!Clients
    BY <1>1, <1>2 DEF RtosWires
  <2>3. wire.outlived \cup Rtos!Behind \subseteq Rtos!Clients
    BY <1>1, <1>6 DEF RtosWires
  <2> HIDE DEF s
  <2>4. QED  BY <1>1, <2>1, <2>2, <2>3 DEF RtosWires
<1>8. On(board', "usb") = On(board, "usb") /\ On(board', "ble") = {Rtos!NoOne}
  BY <1>4 DEF On, Rtos!Connect, Rtos!Settled, Rtos!Range
<1>9. Own(host', board', wire') = {s} \cup wire.outlived \cup Rtos!Behind
  BY <1>3, <1>4, <1>7 DEF Own
<1>10. /\ {board.held, board.chunk.of, board.running} \subseteq Rtos!Behind \cup {Rtos!Usb, Rtos!NoOne}
       /\ Rtos!Range(board.slowq) \subseteq Rtos!Behind \cup {Rtos!Usb}
  BY <1>5, NobodyIsNobody DEF RtosInv, Sound, Lanes, Rtos!Behind, Rtos!Inside
<1>11. Rtos!Inside = {} => {board.held, board.chunk.of} \subseteq {Rtos!Usb, Rtos!NoOne}
  BY DEF Rtos!Inside
<1> HIDE DEF s
<1>12. Shape(host', board', wire')
  BY <1>2, <1>3, <1>4, <1>7 DEF RtosInv, Sound, Shape
<1>13. Lanes(host', board', wire')
  BY <1>4, <1>7, <1>8, <1>9, <1>10 DEF RtosInv, Sound, Lanes
<1>14. Flag(host', board', wire')
  BY <1>3, <1>4, <1>7, <1>8, <1>11, NobodyIsNobody DEF Flag
<1>15. Order(host', board', wire')
  <2>1. /\ host.last \in Nat /\ wire.heard \subseteq Nat /\ board.acc["ble"] \in Int
        /\ board.chunk.of \in Int /\ s = host.last + 1
    BY <1>1, NobodyIsNobody DEF RtosHosts, RtosWires, RtosBoards, Rtos!Links, s
  <2>2. board.chunk.of <= s /\ board.acc["ble"] <= s /\ \A r \in wire.heard : r <= s
    BY <2>1 DEF RtosInv, Sound, Order
  <2>3. QED  BY <1>3, <1>4, <1>7, <2>2 DEF RtosInv, Sound, Order
<1>16. QED  BY <1>12, <1>13, <1>14, <1>15 DEF RtosInv, Sound

LEMMA DisconnectKeeps ==
  ASSUME Sessions \in Nat, RtosInv, Rtos!Disconnect
  PROVE  RtosInv'
<1>1. host \in RtosHosts /\ board \in RtosBoards /\ wire \in RtosWires /\ wire' = wire /\ board.connected
  BY DEF RtosInv, Sound, Shape, Rtos!Disconnect
<1>2. host' \in RtosHosts /\ host'.last = host.last
  BY <1>1, NobodyIsNobody DEF Rtos!Disconnect, RtosHosts, Rtos!Usb
<1>3. /\ board' \in RtosBoards /\ board'.connected = FALSE /\ board'.rx["ble"] = 0
      /\ board'.chunk = board.chunk /\ board'.acc = board.acc
      /\ board'.held = board.held /\ board'.origin = board.origin /\ board'.slowq = board.slowq
      /\ board'.running = board.running /\ board'.txq = board.txq /\ board'.wire = board.wire
  BY <1>1 DEF Rtos!Disconnect, RtosBoards, Rtos!Links
<1>4. On(board', "usb") = On(board, "usb") /\ On(board', "ble") = On(board, "ble")
  BY <1>3 DEF On
<1>5. Own(host, board, wire) \subseteq Own(host', board', wire) \cup {Rtos!Usb}
  BY <1>1, <1>3 DEF Own, RtosHosts, RtosWires
<1>6. Shape(host', board', wire')
  BY <1>1, <1>2, <1>3 DEF RtosInv, Sound, Shape
<1>7. Lanes(host', board', wire')
  BY <1>1, <1>3, <1>4, <1>5 DEF RtosInv, Sound, Lanes
<1>8. Flag(host', board', wire')
  BY <1>3 DEF Flag
<1>9. Order(host', board', wire')
  BY <1>1, <1>2, <1>3 DEF RtosInv, Sound, Order
<1>10. QED  BY <1>6, <1>7, <1>8, <1>9 DEF RtosInv, Sound

\* An answer on its own link.
LEMMA DeliverSound ==
  ASSUME Sessions \in Nat, NEW h, NEW b, NEW w, NEW c \in Rtos!Clients, NEW e,
         Sound(h, b, w), c \in Own(h, b, w) \cup {Rtos!Usb}, e = Rtos!Enqueue(b, Rtos!Link(c), c)
  PROVE  Sound(h, e, w)
<1>1. Rtos!Link(c) \in Rtos!Links \cup {"all"} /\ c \in Rtos!Frames /\ c # Rtos!Event
  BY NobodyIsNobody DEF Rtos!Link, Rtos!Links, Anyone
<1>2. Due(h, b, w, Rtos!Link(c), c)
  BY <1>1 DEF Due, Rtos!Link
<1>3. QED  BY <1>1, <1>2, EnqueueSound

LEMMA EmitEventKeeps ==
  ASSUME Sessions \in Nat, RtosInv, Rtos!EmitEvent
  PROVE  RtosInv'
<1> DEFINE e == Rtos!Enqueue(board, "all", Rtos!Event)
<1>1. Sound(host, e, wire)
  <2>1. Due(host, board, wire, "all", Rtos!Event)
    BY DEF Due
  <2>2. QED  BY <2>1, EnqueueSound, NobodyIsNobody DEF RtosInv, Rtos!Links
<1>2. board' = [e EXCEPT !.events = @ + 1]
  BY DEF Rtos!EmitEvent
<1> HIDE DEF e
<1>3. e \in RtosBoards /\ host \in RtosHosts /\ (~e.connected => e.rx["ble"] = 0)
  BY <1>1 DEF Sound, Shape
<1>4. e.events + 1 \in Nat
  BY <1>3 DEF RtosBoards
<1>5. /\ board' \in RtosBoards
      /\ board'.connected = e.connected /\ board'.authed = e.authed /\ board'.rx = e.rx
      /\ board'.chunk = e.chunk /\ board'.acc = e.acc /\ board'.held = e.held
      /\ board'.origin = e.origin /\ board'.slowq = e.slowq /\ board'.running = e.running
      /\ board'.txq = e.txq /\ board'.wire = e.wire
  BY <1>2, <1>3, <1>4 DEF RtosBoards
<1>6. Sound(host, board', wire)
  BY <1>1, <1>3, <1>5, SameSound
<1>7. QED  BY <1>6 DEF RtosInv, Rtos!EmitEvent

LEMMA RxReadKeeps ==
  ASSUME Sessions \in Nat, RtosInv, NEW l \in Rtos!Links, Rtos!RxRead(l)
  PROVE  RtosInv'
<1> DEFINE c == IF l = "usb" THEN Rtos!Usb ELSE host.session
<1>1. host \in RtosHosts /\ board \in RtosBoards /\ wire \in RtosWires /\ host' = host /\ wire' = wire
  BY DEF RtosInv, Sound, Shape, Rtos!RxRead
<1>2. PICK n \in 1 .. Chunk : /\ n <= board.rx[l]
                              /\ board' = [board EXCEPT !.rx[l] = @ - n, !.chunk = [of |-> c, left |-> n]]
  BY DEF Rtos!RxRead
<1>3. board.rx[l] \in Nat /\ board.rx[l] > 0 /\ n \in Nat /\ board.rx[l] - n \in Nat
  BY <1>1, <1>2 DEF Rtos!RxRead, RtosBoards
<1>4. l = "ble" => board.connected /\ c = host.last /\ c = host.session /\ c # Rtos!Usb
  BY <1>3 DEF RtosInv, Sound, Shape
<1>5. l # "ble" => l = "usb" /\ c = Rtos!Usb
  BY DEF Rtos!Links
<1>6. c \in Rtos!Clients
  BY <1>1, NobodyIsNobody DEF RtosHosts
<1> DEFINE rx == [board.rx EXCEPT ![l] = @ - n]
           ch == [of |-> c, left |-> n]
<1>7. rx \in [Rtos!Links -> Nat] /\ (board.rx["ble"] = 0 => rx["ble"] = 0)
  BY <1>1, <1>3 DEF RtosBoards, Rtos!Links
<1>8. ch \in [of : Anyone, left : Nat] /\ ch.of = c /\ c # Rtos!NoOne
  BY <1>3, <1>6, NobodyIsNobody DEF Anyone
<1>9. board' = [board EXCEPT !.rx = rx, !.chunk = ch]
  BY <1>1, <1>2 DEF RtosBoards
<1> HIDE DEF c, rx, ch
<1>10. /\ board' \in RtosBoards
       /\ board'.connected = board.connected /\ board'.authed = board.authed /\ board'.rx = rx
       /\ board'.chunk = ch /\ board'.acc = board.acc /\ board'.held = board.held
       /\ board'.origin = board.origin /\ board'.slowq = board.slowq
       /\ board'.running = board.running /\ board'.txq = board.txq /\ board'.wire = board.wire
  BY <1>1, <1>7, <1>8, <1>9 DEF RtosBoards
<1>11. /\ On(board', "usb") = On(board, "usb") /\ On(board', "ble") = On(board, "ble")
       /\ Own(host', board', wire') = Own(host, board, wire)
  BY <1>1, <1>10 DEF On, Own
<1>12. Shape(host', board', wire')
  BY <1>1, <1>7, <1>8, <1>10 DEF RtosInv, Sound, Shape
<1>13. c \in Own(host, board, wire) \cup {Rtos!Usb}
  BY <1>4, <1>5 DEF Own
<1>14. Lanes(host', board', wire')
  BY <1>1, <1>8, <1>10, <1>11, <1>13 DEF RtosInv, Sound, Lanes
<1>15. Flag(host', board', wire')
  BY <1>1, <1>4, <1>5, <1>8, <1>10, <1>11 DEF RtosInv, Sound, Flag
<1>16. Order(host', board', wire')
  <2>1. c <= host.last
    BY <1>1, <1>4, <1>5, NobodyIsNobody DEF RtosHosts
  <2>2. QED  BY <1>1, <1>4, <1>5, <1>8, <1>10, <2>1 DEF RtosInv, Sound, Order
<1>17. QED  BY <1>12, <1>14, <1>15, <1>16 DEF RtosInv, Sound

LEMMA RxUnblockKeeps ==
  ASSUME Sessions \in Nat, RtosInv, Rtos!RxUnblock
  PROVE  RtosInv'
<1> DEFINE b == [board EXCEPT !.held = Rtos!NoOne]
           c == board.held
<1>1. host \in RtosHosts /\ board \in RtosBoards /\ wire \in RtosWires /\ host' = host /\ wire' = wire
  BY DEF RtosInv, Sound, Shape, Rtos!RxUnblock
<1>2. c \in Rtos!Clients /\ c \in Own(host, board, wire) \cup {Rtos!Usb} /\ board.origin["rx"] = Rtos!Link(c)
  BY <1>1 DEF RtosInv, Sound, Shape, Lanes, Rtos!RxUnblock, RtosBoards, Anyone
<1>3. Rtos!NoOne \in Anyone
  BY DEF Anyone
<1>4. /\ b \in RtosBoards
      /\ b.connected = board.connected /\ b.authed = board.authed /\ b.rx = board.rx
      /\ b.chunk = board.chunk /\ b.acc = board.acc /\ b.held = Rtos!NoOne
      /\ b.origin = board.origin /\ b.slowq = board.slowq
      /\ b.running = board.running /\ b.txq = board.txq /\ b.wire = board.wire
  BY <1>1, <1>3 DEF RtosBoards
<1>5. board' = Rtos!Enqueue(b, Rtos!Link(c), c)
  BY <1>2, <1>4 DEF Rtos!RxUnblock, Rtos!Reply, Rtos!ReplyDestination
<1> HIDE DEF b
<1>6. /\ On(b, "usb") = On(board, "usb") /\ On(b, "ble") = On(board, "ble")
      /\ Own(host, b, wire) = Own(host, board, wire)
  BY <1>4 DEF On, Own
<1>7. Shape(host, b, wire)
  BY <1>4 DEF RtosInv, Sound, Shape
<1>8. Lanes(host, b, wire)
  BY <1>4, <1>6 DEF RtosInv, Sound, Lanes
<1>9. Flag(host, b, wire)
  BY <1>4, <1>6 DEF RtosInv, Sound, Flag
<1>10. Order(host, b, wire)
  BY <1>4 DEF RtosInv, Sound, Order
<1>11. Sound(host, b, wire)
  BY <1>7, <1>8, <1>9, <1>10 DEF Sound
<1>12. Sound(host, board', wire)
  BY <1>2, <1>5, <1>6, <1>11, DeliverSound
<1>13. QED  BY <1>1, <1>12 DEF RtosInv

LEMMA SlowTakeKeeps ==
  ASSUME Sessions \in Nat, RtosInv, Rtos!SlowTake
  PROVE  RtosInv'
<1> DEFINE c == Head(board.slowq)
           q == Tail(board.slowq)
           o == [board.origin EXCEPT !["slow"] = Rtos!Link(c)]
<1>1. host \in RtosHosts /\ board \in RtosBoards /\ wire \in RtosWires /\ host' = host /\ wire' = wire
  BY DEF RtosInv, Sound, Shape, Rtos!SlowTake
<1>2. /\ c \in Rtos!Range(board.slowq) /\ Rtos!Range(q) \subseteq Rtos!Range(board.slowq) /\ q \in Seq(Rtos!Clients)
      /\ Rtos!Range(board.slowq) \subseteq Rtos!Clients
  BY <1>1, QueueSet DEF Rtos!SlowTake, RtosBoards
<1>3. c \in Anyone /\ c \in Rtos!Clients
  BY <1>2 DEF Anyone
<1>4. o \in [{"rx", "slow"} -> Rtos!Links \cup {"all"}] /\ o["rx"] = board.origin["rx"] /\ o["slow"] = Rtos!Link(c)
  BY <1>1 DEF RtosBoards, Rtos!Link, Rtos!Links
<1>5. board' = [board EXCEPT !.running = c, !.slowq = q, !.origin = o]
  BY <1>1 DEF Rtos!SlowTake, RtosBoards
<1> HIDE DEF c, q, o
<1>6. /\ board' \in RtosBoards
      /\ board'.connected = board.connected /\ board'.authed = board.authed /\ board'.rx = board.rx
      /\ board'.chunk = board.chunk /\ board'.acc = board.acc /\ board'.held = board.held
      /\ board'.origin = o /\ board'.slowq = q
      /\ board'.running = c /\ board'.txq = board.txq /\ board'.wire = board.wire
  BY <1>1, <1>2, <1>3, <1>4, <1>5 DEF RtosBoards
<1>7. /\ On(board', "usb") = On(board, "usb") /\ On(board', "ble") = On(board, "ble")
      /\ Own(host', board', wire') = Own(host, board, wire)
  BY <1>1, <1>6 DEF On, Own
<1>8. Shape(host', board', wire')
  BY <1>1, <1>4, <1>6 DEF RtosInv, Sound, Shape
<1>9. Lanes(host', board', wire')
  BY <1>1, <1>2, <1>6, <1>7 DEF RtosInv, Sound, Lanes
<1>10. Flag(host', board', wire')
  BY <1>1, <1>6, <1>7 DEF RtosInv, Sound, Flag
<1>11. Order(host', board', wire')
  BY <1>1, <1>6 DEF RtosInv, Sound, Order
<1>12. QED  BY <1>8, <1>9, <1>10, <1>11 DEF RtosInv, Sound

LEMMA SlowReplyKeeps ==
  ASSUME Sessions \in Nat, RtosInv, Rtos!SlowReply
  PROVE  RtosInv'
<1> DEFINE b == [board EXCEPT !.running = Rtos!NoOne]
           c == board.running
<1>1. host \in RtosHosts /\ board \in RtosBoards /\ wire \in RtosWires /\ host' = host /\ wire' = wire
  BY DEF RtosInv, Sound, Shape, Rtos!SlowReply
<1>2. c \in Rtos!Clients /\ c \in Own(host, board, wire) \cup {Rtos!Usb} /\ board.origin["slow"] = Rtos!Link(c)
  BY <1>1 DEF RtosInv, Sound, Shape, Lanes, Rtos!SlowReply, RtosBoards, Anyone
<1>3. Rtos!NoOne \in Anyone
  BY DEF Anyone
<1>4. /\ b \in RtosBoards
      /\ b.connected = board.connected /\ b.authed = board.authed /\ b.rx = board.rx
      /\ b.chunk = board.chunk /\ b.acc = board.acc /\ b.held = board.held
      /\ b.origin = board.origin /\ b.slowq = board.slowq
      /\ b.running = Rtos!NoOne /\ b.txq = board.txq /\ b.wire = board.wire
  BY <1>1, <1>3 DEF RtosBoards
<1>5. board' = Rtos!Enqueue(b, Rtos!Link(c), c)
  BY <1>2, <1>4 DEF Rtos!SlowReply, Rtos!Reply, Rtos!ReplyDestination
<1> HIDE DEF b
<1>6. /\ On(b, "usb") = On(board, "usb") /\ On(b, "ble") = On(board, "ble")
      /\ Own(host, b, wire) = Own(host, board, wire)
  BY <1>4 DEF On, Own
<1>7. Shape(host, b, wire)
  BY <1>4 DEF RtosInv, Sound, Shape
<1>8. Lanes(host, b, wire)
  BY <1>4, <1>6 DEF RtosInv, Sound, Lanes
<1>9. Flag(host, b, wire)
  BY <1>4, <1>6 DEF RtosInv, Sound, Flag
<1>10. Order(host, b, wire)
  BY <1>4 DEF RtosInv, Sound, Order
<1>11. Sound(host, b, wire)
  BY <1>7, <1>8, <1>9, <1>10 DEF Sound
<1>12. Sound(host, board', wire)
  BY <1>2, <1>5, <1>6, <1>11, DeliverSound
<1>13. QED  BY <1>1, <1>12 DEF RtosInv

LEMMA TxWriteKeeps ==
  ASSUME Sessions \in Nat, RtosInv, NEW l \in Rtos!Links, Rtos!TxWrite(l)
  PROVE  RtosInv'
<1> DEFINE f == Rtos!Loaded(l)
           q == Rtos!Unloaded(l)
           reader == IF l = "usb" THEN Rtos!Usb ELSE host.session
<1>1. host \in RtosHosts /\ board \in RtosBoards /\ wire \in RtosWires /\ host' = host
  BY DEF RtosInv, Sound, Shape, Rtos!TxWrite
<1>2. board.txq[l] \in Seq(Rtos!Frames) /\ board.wire[l] \in Rtos!Frames \cup {Rtos!NoOne} /\ Rtos!Waiting(l)
  BY <1>1 DEF RtosBoards, Rtos!TxWrite
<1>3. /\ f \in On(board, l) /\ f \in Rtos!Frames /\ q \in Seq(Rtos!Frames)
      /\ Rtos!Range(q) \subseteq Rtos!Range(board.txq[l])
  BY <1>2, QueueSet DEF Rtos!Loaded, Rtos!Unloaded, Rtos!Waiting, On
<1>4. PICK rest \in {f, Rtos!NoOne} :
        /\ board' = [board EXCEPT !.txq[l] = q, !.wire[l] = rest]
        /\ wire' = [wire EXCEPT !.stray = IF rest # Rtos!NoOne \/ f \in {Rtos!Event, reader} THEN @
                                          ELSE @ \cup {<<f, reader>>}]
  BY DEF Rtos!TxWrite
<1> HIDE DEF f, q
<1> DEFINE qs == [board.txq EXCEPT ![l] = q]
           ws == [board.wire EXCEPT ![l] = rest]
<1>5. qs \in [Rtos!Links -> Seq(Rtos!Frames)] /\ ws \in [Rtos!Links -> Rtos!Frames \cup {Rtos!NoOne}]
  BY <1>1, <1>3 DEF RtosBoards
<1>6. /\ Rtos!Range(qs["usb"]) \cup {ws["usb"]} \subseteq On(board, "usb") \cup {Rtos!NoOne}
      /\ Rtos!Range(qs["ble"]) \cup {ws["ble"]} \subseteq On(board, "ble") \cup {Rtos!NoOne}
  <2>1. \A k \in Rtos!Links : /\ qs[k] = IF k = l THEN q ELSE board.txq[k]
                              /\ ws[k] = IF k = l THEN rest ELSE board.wire[k]
    BY <1>1 DEF RtosBoards
  <2> HIDE DEF qs, ws
  <2>2. \A k \in Rtos!Links : Rtos!Range(qs[k]) \cup {ws[k]} \subseteq On(board, k) \cup {Rtos!NoOne}
    BY <1>3, <2>1 DEF On
  <2>3. QED  BY <2>2 DEF Rtos!Links
<1>7. board' = [board EXCEPT !.txq = qs, !.wire = ws]
  BY <1>1, <1>4 DEF RtosBoards
<1> HIDE DEF qs, ws
<1>8. /\ board' \in RtosBoards
      /\ board'.connected = board.connected /\ board'.authed = board.authed /\ board'.rx = board.rx
      /\ board'.chunk = board.chunk /\ board'.acc = board.acc /\ board'.held = board.held
      /\ board'.origin = board.origin /\ board'.slowq = board.slowq
      /\ board'.running = board.running /\ board'.txq = qs /\ board'.wire = ws
  BY <1>1, <1>5, <1>7 DEF RtosBoards
<1>9. /\ On(board', "usb") \subseteq On(board, "usb") \cup {Rtos!NoOne}
      /\ On(board', "ble") \subseteq On(board, "ble") \cup {Rtos!NoOne}
  BY <1>6, <1>8 DEF On
<1>10. f \in {Rtos!Event, reader} \/ (f \in wire.outlived /\ f \in Rtos!Clients /\ reader # Rtos!Usb)
  <2>1. f # Rtos!NoOne
    BY <1>3, NobodyIsNobody
  <2>2. CASE l = "usb"
    BY <1>3, <2>1, <2>2 DEF RtosInv, Sound, Lanes
  <2>3. CASE l = "ble"
    BY <1>1, <1>3, <2>1, <2>3 DEF RtosInv, Sound, Shape, Lanes, Rtos!TxWrite, Own, RtosWires
  <2>4. QED  BY <2>2, <2>3 DEF Rtos!Links
<1>11. reader \in Rtos!Clients
  BY <1>1, NobodyIsNobody DEF RtosHosts
<1> HIDE DEF reader
<1>12. /\ wire' \in RtosWires /\ wire'.granted = wire.granted /\ wire'.heard = wire.heard
       /\ wire'.straddled = wire.straddled /\ wire'.outlived = wire.outlived
       /\ wire'.spoiled = wire.spoiled
       /\ wire'.stray \subseteq wire.stray \cup {<<f, reader>>}
       /\ f \in {Rtos!Event, reader} => wire'.stray = wire.stray
  <2> DEFINE st == IF rest # Rtos!NoOne \/ f \in {Rtos!Event, reader} THEN wire.stray
                   ELSE wire.stray \cup {<<f, reader>>}
  <2>1. st \subseteq Rtos!Clients \X Rtos!Clients
    BY <1>1, <1>10, <1>11 DEF RtosWires
  <2>2. wire' = [wire EXCEPT !.stray = st]
    BY <1>4
  <2>3. st \subseteq wire.stray \cup {<<f, reader>>} /\ (f \in {Rtos!Event, reader} => st = wire.stray)
    OBVIOUS
  <2> HIDE DEF st
  <2>4. QED  BY <1>1, <2>1, <2>2, <2>3 DEF RtosWires
<1>13. \A a \in wire'.stray : a[2] # Rtos!Usb /\ a[1] \in wire'.outlived
  BY <1>10, <1>12 DEF RtosInv, Sound, Lanes
<1>14. Own(host', board', wire') = Own(host, board, wire)
  BY <1>1, <1>8, <1>12 DEF Own
<1>15. Shape(host', board', wire')
  BY <1>1, <1>8, <1>12 DEF RtosInv, Sound, Shape
<1>16. Lanes(host', board', wire')
  BY <1>8, <1>9, <1>13, <1>14 DEF RtosInv, Sound, Lanes
<1>17. Flag(host', board', wire')
  BY <1>1, <1>8, <1>9, <1>12, NobodyIsNobody DEF RtosInv, Sound, Flag
<1>18. Order(host', board', wire')
  BY <1>1, <1>8, <1>12 DEF RtosInv, Sound, Order
<1>19. QED  BY <1>15, <1>16, <1>17, <1>18 DEF RtosInv, Sound

LEMMA TxDropKeeps ==
  ASSUME Sessions \in Nat, RtosInv, Rtos!TxDrop
  PROVE  RtosInv'
<1> DEFINE qs == [board.txq EXCEPT !["ble"] = <<>>]
           ws == [board.wire EXCEPT !["ble"] = Rtos!NoOne]
<1>1. host \in RtosHosts /\ board \in RtosBoards /\ wire \in RtosWires /\ host' = host /\ wire' = wire
  BY DEF RtosInv, Sound, Shape, Rtos!TxDrop
<1>2. qs \in [Rtos!Links -> Seq(Rtos!Frames)] /\ ws \in [Rtos!Links -> Rtos!Frames \cup {Rtos!NoOne}]
  <2>1. board.txq \in [Rtos!Links -> Seq(Rtos!Frames)] /\ board.wire \in [Rtos!Links -> Rtos!Frames \cup {Rtos!NoOne}]
    BY <1>1 DEF RtosBoards
  <2>2. <<>> \in Seq(Rtos!Frames)
    OBVIOUS
  <2>3. QED  BY <2>1, <2>2
<1>3. qs["usb"] = board.txq["usb"] /\ ws["usb"] = board.wire["usb"] /\ ws["ble"] = Rtos!NoOne /\ Rtos!Range(qs["ble"]) = {}
  BY <1>1 DEF RtosBoards, Rtos!Links, Rtos!Range
<1>4. board' = [board EXCEPT !.txq = qs, !.wire = ws]
  BY <1>1 DEF Rtos!TxDrop, RtosBoards
<1> HIDE DEF qs, ws
<1>5. /\ board' \in RtosBoards
      /\ board'.connected = board.connected /\ board'.authed = board.authed /\ board'.rx = board.rx
      /\ board'.chunk = board.chunk /\ board'.acc = board.acc /\ board'.held = board.held
      /\ board'.origin = board.origin /\ board'.slowq = board.slowq
      /\ board'.running = board.running /\ board'.txq = qs /\ board'.wire = ws
  BY <1>1, <1>2, <1>4 DEF RtosBoards
<1>6. /\ On(board', "usb") = On(board, "usb") /\ On(board', "ble") = {Rtos!NoOne}
      /\ Own(host', board', wire') = Own(host, board, wire) /\ ~board.connected
  BY <1>1, <1>3, <1>5 DEF On, Own, Rtos!TxDrop
<1>7. Shape(host', board', wire')
  BY <1>1, <1>5 DEF RtosInv, Sound, Shape
<1>8. Lanes(host', board', wire')
  BY <1>1, <1>5, <1>6 DEF RtosInv, Sound, Lanes
<1>9. Flag(host', board', wire')
  BY <1>5, <1>6 DEF Flag
<1>10. Order(host', board', wire')
  BY <1>1, <1>5 DEF RtosInv, Sound, Order
<1>11. QED  BY <1>7, <1>8, <1>9, <1>10 DEF RtosInv, Sound

-----------------------------------------------------------------------------
(* A piece of a chunk *)

\* The board as RxPiece leaves it to Execute(), and the ghosts but for the password.
Piece(b, kind) ==
  LET c == b.chunk.of
      left == b.chunk.left - 1
  IN  [b EXCEPT !.chunk = IF left = 0 THEN Rtos!NoChunk ELSE [@ EXCEPT !.left = left],
                !.acc[Rtos!Link(c)] = IF kind # "front" THEN Rtos!NoOne
                                      ELSE IF @ \notin {Rtos!NoOne, c} THEN @ ELSE c]

Heard(w, c, kind) == [w EXCEPT !.heard = IF kind # "front" THEN @ \cup {c} ELSE @]

\* The accumulator takes no piece of a session that was heard while it holds another's.
LEMMA PieceSound ==
  ASSUME Sessions \in Nat, RtosInv, NEW kind \in Rtos!Kinds, Rtos!RxPiece(kind)
  PROVE  LET c == board.chunk.of
             b == Piece(board, kind)
             w == Heard(wire, c, kind)
         IN  /\ c \in Rtos!Clients /\ c \in Own(host, board, wire) \cup {Rtos!Usb}
             /\ Sound(host', b, w)
             /\ b.connected = board.connected /\ b.authed = board.authed /\ b.held = Rtos!NoOne
             /\ b.slowq = board.slowq /\ Own(host', b, w) = Own(host, board, wire)
             /\ host'.session = host.session
             /\ w.straddled = wire.straddled
             /\ board.connected /\ host.session \notin wire.straddled => c \in {host.session, Rtos!Usb}
             /\ ~(board.acc[Rtos!Link(c)] \notin {Rtos!NoOne, c} /\ (c \in wire.heard \/ c = Rtos!Usb))
<1> DEFINE c == board.chunk.of
           left == board.chunk.left - 1
           ch == IF left = 0 THEN Rtos!NoChunk ELSE [board.chunk EXCEPT !.left = left]
           a == board.acc[Rtos!Link(c)]
           na == IF kind # "front" THEN Rtos!NoOne ELSE IF a \notin {Rtos!NoOne, c} THEN a ELSE c
           acc == [board.acc EXCEPT ![Rtos!Link(c)] = na]
           hd == IF kind # "front" THEN wire.heard \cup {c} ELSE wire.heard
           b == Piece(board, kind)
           w == Heard(wire, c, kind)
<1>1. host \in RtosHosts /\ board \in RtosBoards /\ wire \in RtosWires
  BY DEF RtosInv, Sound, Shape
<1>2. /\ board.chunk \in [of : Anyone, left : Nat] /\ board.chunk.left > 0 /\ board.held = Rtos!NoOne
      /\ board.acc \in [Rtos!Links -> Anyone]
  BY <1>1 DEF RtosBoards, Rtos!RxPiece
<1>3. c \in Rtos!Clients /\ c # Rtos!NoOne
  BY <1>2, NobodyIsNobody DEF RtosInv, Sound, Shape, Anyone
<1>4. c \in Own(host, board, wire) \cup {Rtos!Usb}
  BY <1>3 DEF RtosInv, Sound, Lanes
<1>5. Rtos!Link(c) \in Rtos!Links /\ (c = Rtos!Usb => Rtos!Link(c) = "usb") /\ (c # Rtos!Usb => Rtos!Link(c) = "ble")
  BY DEF Rtos!Link, Rtos!Links
<1>6. ch \in [of : Anyone, left : Nat] /\ ch.of \in {c, Rtos!NoOne} /\ (ch.left > 0 => ch.of # Rtos!NoOne)
  BY <1>2, <1>3 DEF Rtos!NoChunk, Anyone
<1>7. a \in Anyone /\ na \in Anyone /\ acc \in [Rtos!Links -> Anyone]
  BY <1>2, <1>3, <1>5 DEF Anyone
<1>8. /\ c = Rtos!Usb => acc["usb"] = na /\ acc["ble"] = board.acc["ble"]
      /\ c # Rtos!Usb => acc["ble"] = na /\ acc["usb"] = board.acc["usb"]
  BY <1>2, <1>5 DEF Rtos!Links
<1>9. b = [board EXCEPT !.chunk = ch, !.acc = acc]
  BY <1>1 DEF Piece, RtosBoards
<1>10. w = [wire EXCEPT !.heard = hd] /\ hd \subseteq Rtos!Clients
  BY <1>1, <1>3 DEF Heard, RtosWires
<1>11. host' \in RtosHosts /\ host'.session = host.session /\ host'.last = host.last
  <2>1. \E t : t \subseteq Rtos!Clients /\ host' = [host EXCEPT !.cut = t]
    <3>1. host.cut \ {c} \subseteq Rtos!Clients /\ host.cut \cup {c} \subseteq Rtos!Clients
      BY <1>1, <1>3 DEF RtosHosts
    <3>2. host' = [host EXCEPT !.cut = IF kind # "front" THEN @ \ {c} ELSE @ \cup {c}]
      BY DEF Rtos!RxPiece
    <3>3. QED  BY <3>1, <3>2
  <2>2. QED  BY <1>1, <2>1 DEF RtosHosts
<1>12. a \notin {Rtos!NoOne, c} => c # Rtos!Usb /\ c \notin wire.heard
  <2>1. c = Rtos!Usb => a \in {Rtos!NoOne, Rtos!Usb}
    BY <1>5 DEF RtosInv, Sound, Order
  <2>2. ASSUME a \notin {Rtos!NoOne, c}, c # Rtos!Usb PROVE c \notin wire.heard
    <3>1. a = board.acc["ble"] /\ a <= c /\ (c \in wire.heard => c <= a)
      BY <1>3, <1>5, <2>2 DEF RtosInv, Sound, Order
    <3>2. a \in Int /\ c \in Int
      BY <1>3, <1>7, NobodyIsNobody
    <3>3. QED  BY <2>2, <3>1, <3>2
  <2>3. QED  BY <2>1, <2>2
<1>13. board.connected /\ host.session \notin wire.straddled => c \in {host.session, Rtos!Usb}
  BY <1>3 DEF RtosInv, Sound, Flag
<1>14. /\ c # Rtos!Usb => board.acc["ble"] <= c /\ (\A s \in wire.heard : s <= c)
       /\ c <= host.last
  <2>1. c # Rtos!Usb => board.acc["ble"] <= c /\ (\A s \in wire.heard : s <= c)
    BY <1>3 DEF RtosInv, Sound, Order
  <2>2. c <= host.last
    BY DEF RtosInv, Sound, Order
  <2>3. QED  BY <2>1, <2>2
<1>15. na \in {Rtos!NoOne, a, c} /\ (na # Rtos!NoOne => hd = wire.heard /\ kind = "front")
  OBVIOUS
<1>16. hd \subseteq wire.heard \cup {c} /\ (na = a /\ a # Rtos!NoOne => a = board.acc[Rtos!Link(c)])
  OBVIOUS
<1>17. na # Rtos!NoOne /\ na # c => na = a /\ a # Rtos!NoOne
  OBVIOUS
<1>18. a = IF c = Rtos!Usb THEN board.acc["usb"] ELSE board.acc["ble"]
  BY <1>5
<1> HIDE DEF ch, acc, hd, b, w, na, a, left
<1>19. /\ b \in RtosBoards
       /\ b.connected = board.connected /\ b.authed = board.authed /\ b.rx = board.rx
       /\ b.chunk = ch /\ b.acc = acc /\ b.held = board.held
       /\ b.origin = board.origin /\ b.slowq = board.slowq
       /\ b.running = board.running /\ b.txq = board.txq /\ b.wire = board.wire
  BY <1>1, <1>6, <1>7, <1>9 DEF RtosBoards
<1>20. /\ w \in RtosWires /\ w.granted = wire.granted /\ w.heard = hd
       /\ w.straddled = wire.straddled /\ w.outlived = wire.outlived
       /\ w.spoiled = wire.spoiled /\ w.stray = wire.stray
  BY <1>1, <1>10 DEF RtosWires
<1>21. /\ On(b, "usb") = On(board, "usb") /\ On(b, "ble") = On(board, "ble")
       /\ Own(host', b, w) = Own(host, board, wire)
  BY <1>11, <1>19, <1>20 DEF On, Own
<1>22. Shape(host', b, w)
  BY <1>6, <1>11, <1>19, <1>20 DEF RtosInv, Sound, Shape
<1>23. Lanes(host', b, w)
  BY <1>4, <1>6, <1>19, <1>20, <1>21 DEF RtosInv, Sound, Lanes
<1>24. Flag(host', b, w)
  BY <1>6, <1>11, <1>19, <1>20, <1>21 DEF RtosInv, Sound, Flag, c
<1>25. Order(host', b, w)
  <2>1. /\ wire.heard \subseteq Int /\ host.last \in Int /\ c \in Int /\ board.acc["ble"] \in Int
        /\ Rtos!NoOne <= host.last /\ Rtos!NoOne <= c
    <3>1. wire.heard \subseteq Rtos!Clients /\ host.last \in Rtos!Clients
      BY <1>1 DEF RtosHosts, RtosWires
    <3>2. board.acc["ble"] \in Anyone
      BY <1>2 DEF Rtos!Links
    <3>3. Rtos!NoOne <= host.last /\ Rtos!NoOne <= c /\ host.last \in Int /\ c \in Int
      BY <1>3, <3>1, NobodyIsNobody DEF Rtos!NoOne
    <3>4. QED  BY <3>1, <3>2, <3>3, NobodyIsNobody
  <2>2. acc["usb"] \in {Rtos!NoOne, Rtos!Usb}
    BY <1>8, <1>15, <1>18 DEF RtosInv, Sound, Order
  <2>3. ch.of <= host.last /\ \A s \in hd : s <= host.last
    BY <1>6, <1>14, <1>16, <2>1 DEF RtosInv, Sound, Order
  <2>4. acc["ble"] <= host.last
    BY <1>8, <1>14, <1>15, <1>18, <2>1 DEF RtosInv, Sound, Order
  <2>5. acc["ble"] # Rtos!NoOne => \A s \in hd : s <= acc["ble"]
    <3>1. CASE c = Rtos!Usb
      <4>1. acc["ble"] # Rtos!NoOne => Rtos!Usb <= acc["ble"]
        BY <1>1, <1>8, <3>1, NobodyIsNobody DEF RtosBoards, Rtos!Links, Anyone
      <4>2. QED  BY <1>8, <1>16, <3>1, <4>1 DEF RtosInv, Sound, Order
    <3>2. CASE c # Rtos!Usb /\ na # Rtos!NoOne
      <4>1. hd = wire.heard /\ acc["ble"] = na /\ na \in {a, c}
        BY <1>8, <1>15, <3>2
      <4>2. na = c => \A s \in hd : s <= na
        BY <1>14, <3>2, <4>1
      <4>3. na = a => \A s \in hd : s <= na
        BY <1>18, <3>2, <4>1 DEF RtosInv, Sound, Order
      <4>4. QED  BY <4>1, <4>2, <4>3
    <3>3. CASE c # Rtos!Usb /\ na = Rtos!NoOne
      BY <1>8, <3>3
    <3>4. QED  BY <3>1, <3>2, <3>3
  <2>6. ch.of \notin {Rtos!NoOne, Rtos!Usb} => acc["ble"] <= ch.of /\ \A s \in hd : s <= ch.of
    <3>1. SUFFICES ASSUME ch.of = c, c # Rtos!Usb
                   PROVE  acc["ble"] <= c /\ \A s \in hd : s <= c
      BY <1>6
    <3>2. acc["ble"] <= c
      BY <1>8, <1>14, <1>15, <1>18, <2>1, <3>1
    <3>3. \A s \in hd : s <= c
      BY <1>14, <1>16, <2>1, <3>1
    <3>4. QED  BY <3>2, <3>3
  <2>7. QED  BY <1>11, <1>19, <1>20, <2>2, <2>3, <2>4, <2>5, <2>6 DEF RtosInv, Sound, Order
<1>26. Sound(host', b, w)
  BY <1>22, <1>23, <1>24, <1>25 DEF Sound
<1>27. ~(a \notin {Rtos!NoOne, c} /\ (c \in wire.heard \/ c = Rtos!Usb))
  BY <1>12
<1>28. QED
  BY <1>2, <1>3, <1>4, <1>11, <1>13, <1>19, <1>20, <1>21, <1>26, <1>27 DEF a, b, w

\* SYS_AUTH: the flag is now that of the client, and it is told so.
LEMMA GrantSound ==
  ASSUME Sessions \in Nat, NEW h, NEW b, NEW w, NEW w2, NEW c \in Rtos!Clients \ {Rtos!Usb}, NEW g, NEW e1, NEW e2,
         Sound(h, b, w), c \in Own(h, b, w),
         b.connected /\ h.session \notin w.straddled => c = h.session,
         g = [b EXCEPT !.authed = TRUE], w2 = [w EXCEPT !.granted = c],
         e1 = Rtos!Enqueue(g, Rtos!Link(c), c), e2 = Rtos!Enqueue(e1, Rtos!Link(c), Rtos!Event)
  PROVE  Sound(h, e2, w2)
<1>1. b \in RtosBoards /\ w \in RtosWires /\ c \in Anyone
  BY DEF Sound, Shape, Anyone
<1>2. /\ g \in RtosBoards
      /\ g.connected = b.connected /\ g.authed = TRUE /\ g.rx = b.rx
      /\ g.chunk = b.chunk /\ g.acc = b.acc /\ g.held = b.held
      /\ g.origin = b.origin /\ g.slowq = b.slowq
      /\ g.running = b.running /\ g.txq = b.txq /\ g.wire = b.wire
  BY <1>1 DEF RtosBoards
<1>3. /\ w2 \in RtosWires /\ w2.granted = c /\ w2.heard = w.heard
      /\ w2.straddled = w.straddled /\ w2.outlived = w.outlived
      /\ w2.spoiled = w.spoiled /\ w2.stray = w.stray
  BY <1>1 DEF RtosWires
<1>4. /\ On(g, "usb") = On(b, "usb") /\ On(g, "ble") = On(b, "ble")
      /\ Own(h, g, w2) = Own(h, b, w)
  BY <1>2, <1>3 DEF On, Own
<1>5. Shape(h, g, w2)
  BY <1>2, <1>3 DEF Sound, Shape
<1>6. Lanes(h, g, w2)
  <2>1. \A x \in w2.stray : x[2] # Rtos!Usb /\ x[1] \in w2.outlived
    BY <1>3 DEF Sound, Lanes
  <2>2. /\ On(g, "usb") \subseteq {Rtos!Event, Rtos!Usb, Rtos!NoOne}
        /\ On(g, "ble") \subseteq (Own(h, g, w2) \ {Rtos!Usb}) \cup {Rtos!Event, Rtos!NoOne}
    BY <1>4 DEF Sound, Lanes
  <2>3. /\ {b.held, b.chunk.of, b.running} \subseteq Own(h, b, w) \cup {Rtos!Usb, Rtos!NoOne}
        /\ Rtos!Range(b.slowq) \subseteq Own(h, b, w) \cup {Rtos!Usb}
    BY DEF Sound, Lanes
  <2>4. {g.held, g.chunk.of, g.running} \subseteq Own(h, g, w2) \cup {Rtos!Usb, Rtos!NoOne}
    BY <1>2, <1>4, <2>3
  <2>5. Rtos!Range(g.slowq) \subseteq Own(h, g, w2) \cup {Rtos!Usb}
    BY <1>2, <1>4, <2>3
  <2>6. QED  BY <2>1, <2>2, <2>4, <2>5 DEF Lanes
<1>7. Flag(h, g, w2)
  BY <1>2, <1>3, <1>4 DEF Sound, Flag
<1>8. Order(h, g, w2)
  BY <1>2, <1>3 DEF Sound, Order
<1>9. Sound(h, g, w2)
  BY <1>5, <1>6, <1>7, <1>8 DEF Sound
<1>10. Sound(h, e1, w2)
  BY <1>4, <1>9, DeliverSound
<1>11. e1.authed /\ Rtos!Link(c) = "ble" /\ Rtos!Link(c) \in Rtos!Links \cup {"all"} /\ Rtos!Event \in Rtos!Frames
  <2>1. Rtos!Link(c) = "ble" /\ Rtos!Link(c) \in Rtos!Links \cup {"all"} /\ c \in Rtos!Frames /\ Rtos!Event \in Rtos!Frames
    BY NobodyIsNobody DEF Rtos!Link, Rtos!Links
  <2>2. Longer(e1, g, Rtos!Link(c), c)
    BY <1>2, <2>1, EnqueueIs
  <2>3. QED  BY <1>2, <2>1, <2>2 DEF Longer
<1>12. Due(h, e1, w2, Rtos!Link(c), Rtos!Event)
  BY <1>11 DEF Due
<1>13. QED  BY <1>10, <1>11, <1>12, EnqueueSound

\* dispatch(): rx_task is inside the request, slow_task has it, or it is answered.
LEMMA DispatchSound ==
  ASSUME Sessions \in Nat, NEW h, NEW b, NEW w, NEW c \in Rtos!Clients, NEW kind, NEW e,
         Sound(h, b, w), c \in Own(h, b, w) \cup {Rtos!Usb}, b.held = Rtos!NoOne,
         b.connected /\ h.session \notin w.straddled => c \in {h.session, Rtos!Usb},
         e = Rtos!Dispatch(b, c, kind)
  PROVE  Sound(h, e, w)
<1> DEFINE o == [b.origin EXCEPT !["rx"] = Rtos!Link(c)]
           d == [b EXCEPT !.origin = o]
           dl == [d EXCEPT !.held = c]
           q == Append(b.slowq, c)
           dq == [d EXCEPT !.slowq = q]
<1>1. b \in RtosBoards /\ c \in Anyone
  BY DEF Sound, Shape, Anyone
<1>2. o \in [{"rx", "slow"} -> Rtos!Links \cup {"all"}] /\ o["rx"] = Rtos!Link(c) /\ o["slow"] = b.origin["slow"]
  BY <1>1 DEF RtosBoards, Rtos!Link, Rtos!Links
<1>3. [b EXCEPT !.origin["rx"] = Rtos!Link(c)] = d
  BY <1>1 DEF RtosBoards
<1>4. /\ q \in Seq(Rtos!Clients) /\ Rtos!Range(q) \subseteq Rtos!Range(b.slowq) \cup {c}
  BY <1>1, QueueSet DEF RtosBoards
<1> HIDE DEF o, q
<1>5. /\ d \in RtosBoards
      /\ d.connected = b.connected /\ d.authed = b.authed /\ d.rx = b.rx
      /\ d.chunk = b.chunk /\ d.acc = b.acc /\ d.held = Rtos!NoOne
      /\ d.origin = o /\ d.slowq = b.slowq
      /\ d.running = b.running /\ d.txq = b.txq /\ d.wire = b.wire
  BY <1>1, <1>2 DEF RtosBoards
<1>6. e \in {dl, dq, Rtos!Enqueue(d, Rtos!Link(c), c)}
  <2>1. Rtos!Reply(d, "rx", c) = Rtos!Enqueue(d, Rtos!Link(c), c)
    BY <1>2, <1>5 DEF Rtos!Reply, Rtos!ReplyDestination
  <2>2. [d EXCEPT !.slowq = Append(@, c)] = dq
    BY <1>5 DEF RtosBoards, q
  <2>3. e = LET f == d IN
            CASE kind = "long" -> [f EXCEPT !.held = c]
              [] kind = "slow" /\ Len(b.slowq) < SlowQueue -> [f EXCEPT !.slowq = Append(@, c)]
              [] OTHER -> Rtos!Reply(f, "rx", c)
    BY <1>3 DEF Rtos!Dispatch
  <2> HIDE DEF d, dq
  <2>4. QED  BY <2>1, <2>2, <2>3
<1> HIDE DEF d
<1>7. /\ dl \in RtosBoards
      /\ dl.connected = b.connected /\ dl.authed = b.authed /\ dl.rx = b.rx
      /\ dl.chunk = b.chunk /\ dl.acc = b.acc /\ dl.held = c
      /\ dl.origin = o /\ dl.slowq = b.slowq
      /\ dl.running = b.running /\ dl.txq = b.txq /\ dl.wire = b.wire
  BY <1>1, <1>5 DEF RtosBoards
<1>8. /\ dq \in RtosBoards
      /\ dq.connected = b.connected /\ dq.authed = b.authed /\ dq.rx = b.rx
      /\ dq.chunk = b.chunk /\ dq.acc = b.acc /\ dq.held = Rtos!NoOne
      /\ dq.origin = o /\ dq.slowq = q
      /\ dq.running = b.running /\ dq.txq = b.txq /\ dq.wire = b.wire
  BY <1>1, <1>4, <1>5 DEF RtosBoards
<1> HIDE DEF dl, dq
<1>9. ASSUME NEW k \in {d, dl, dq}
      PROVE  Sound(h, k, w)
  <2>1. /\ k \in RtosBoards
        /\ k.connected = b.connected /\ k.authed = b.authed /\ k.rx = b.rx
        /\ k.chunk = b.chunk /\ k.acc = b.acc /\ k.held \in {Rtos!NoOne, c}
        /\ k.origin = o /\ k.slowq \in {b.slowq, q}
        /\ k.running = b.running /\ k.txq = b.txq /\ k.wire = b.wire
    BY <1>5, <1>7, <1>8
  <2>2. /\ On(k, "usb") = On(b, "usb") /\ On(k, "ble") = On(b, "ble")
        /\ Own(h, k, w) = Own(h, b, w)
    BY <2>1 DEF On, Own
  <2>3. Rtos!Range(k.slowq) \subseteq Rtos!Range(b.slowq) \cup {c}
    BY <1>4, <2>1
  <2>4. Shape(h, k, w)
    BY <1>2, <2>1 DEF Sound, Shape
  <2>5. Lanes(h, k, w)
    BY <2>1, <2>2, <2>3 DEF Sound, Lanes
  <2>6. Flag(h, k, w)
    BY <2>1, <2>2 DEF Sound, Flag
  <2>7. Order(h, k, w)
    BY <2>1 DEF Sound, Order
  <2>8. QED  BY <2>4, <2>5, <2>6, <2>7 DEF Sound
<1>10. Own(h, d, w) = Own(h, b, w)
  BY <1>5 DEF Own
<1>11. CASE e = Rtos!Enqueue(d, Rtos!Link(c), c)
  BY <1>9, <1>10, <1>11, DeliverSound
<1>12. QED  BY <1>6, <1>9, <1>11

LEMMA RxPieceKeeps ==
  ASSUME Sessions \in Nat, RtosInv, NEW kind \in Rtos!Kinds, Rtos!RxPiece(kind)
  PROVE  RtosInv'
<1> DEFINE c == board.chunk.of
           b == Piece(board, kind)
           w == Heard(wire, c, kind)
           a == board.acc[Rtos!Link(c)]
           whole == kind # "front" /\ ~(a \notin {Rtos!NoOne, c}) /\ (kind = "rest" => a = c)
<1>1. /\ c \in Rtos!Clients /\ c \in Own(host, board, wire) \cup {Rtos!Usb}
      /\ Sound(host', b, w)
      /\ b.connected = board.connected /\ b.authed = board.authed /\ b.held = Rtos!NoOne
      /\ b.slowq = board.slowq /\ Own(host', b, w) = Own(host, board, wire)
      /\ host'.session = host.session
      /\ w.straddled = wire.straddled
      /\ board.connected /\ host.session \notin wire.straddled => c \in {host.session, Rtos!Usb}
      /\ ~(a \notin {Rtos!NoOne, c} /\ (c \in wire.heard \/ c = Rtos!Usb))
  BY PieceSound
<1>2. board' = IF whole THEN Rtos!Execute(b, c, kind) ELSE b
  BY DEF Rtos!RxPiece, Rtos!RxFor, Piece
<1>3. wire' = IF whole /\ kind = "auth" THEN [w EXCEPT !.granted = c] ELSE w
  <2>1. wire \in RtosWires
    BY DEF RtosInv, Sound, Shape
  <2>2. wire' = [wire EXCEPT !.granted = IF whole /\ kind = "auth" THEN c ELSE @,
                             !.heard = IF kind # "front" THEN @ \cup {c} ELSE @,
                             !.spoiled = @]
    BY <1>1 DEF Rtos!RxPiece, Rtos!RxFor
  <2>3. QED  BY <2>1, <2>2 DEF Heard, RtosWires
<1>4. kind = "auth" => c # Rtos!Usb
  BY DEF Rtos!RxPiece
<1> HIDE DEF c, b, w, a, whole
<1>5. CASE ~whole
  BY <1>1, <1>2, <1>3, <1>5 DEF RtosInv
<1>6. CASE whole /\ kind = "auth"
  <2> DEFINE g == [b EXCEPT !.authed = TRUE]
             e1 == Rtos!Enqueue(g, Rtos!Link(c), c)
             e2 == Rtos!Enqueue(e1, Rtos!Link(c), Rtos!Event)
             w2 == [w EXCEPT !.granted = c]
  <2>1. board' = e2 /\ wire' = w2
    BY <1>2, <1>3, <1>6 DEF Rtos!Execute
  <2>2. c \in Rtos!Clients \ {Rtos!Usb} /\ c \in Own(host', b, w)
    BY <1>1, <1>4, <1>6
  <2>3. b.connected /\ host'.session \notin w.straddled => c = host'.session
    BY <1>1, <1>4, <1>6
  <2>4. g = [b EXCEPT !.authed = TRUE] /\ e1 = Rtos!Enqueue(g, Rtos!Link(c), c)
        /\ e2 = Rtos!Enqueue(e1, Rtos!Link(c), Rtos!Event) /\ w2 = [w EXCEPT !.granted = c]
    OBVIOUS
  <2> HIDE DEF g, e1, e2, w2
  <2>5. Sound(host', e2, w2)
    BY <1>1, <2>2, <2>3, <2>4, GrantSound
  <2>6. QED  BY <2>1, <2>5 DEF RtosInv
<1>7. CASE whole /\ kind # "auth"
  <2>1. wire' = w /\ (board' = Rtos!Enqueue(b, Rtos!Link(c), c) \/ board' = Rtos!Dispatch(b, c, kind))
    BY <1>2, <1>3, <1>7 DEF Rtos!Execute
  <2>2. c \in Own(host', b, w) \cup {Rtos!Usb}
    BY <1>1
  <2>3. b.connected /\ host'.session \notin w.straddled => c \in {host'.session, Rtos!Usb}
    BY <1>1
  <2>4. CASE board' = Rtos!Enqueue(b, Rtos!Link(c), c)
    BY <1>1, <2>1, <2>2, <2>4, DeliverSound DEF RtosInv
  <2>5. CASE board' = Rtos!Dispatch(b, c, kind)
    BY <1>1, <2>1, <2>2, <2>3, <2>5, DispatchSound DEF RtosInv
  <2>6. QED  BY <2>1, <2>4, <2>5
<1>8. QED  BY <1>5, <1>6, <1>7

-----------------------------------------------------------------------------
(* Theorems *)

LEMMA StepKeeps ==
  ASSUME Sessions \in Nat, RtosInv, [Rtos!Next]_(Rtos!vars)
  PROVE  RtosInv'
<1>1. CASE Rtos!Next
  BY <1>1, ConnectKeeps, DisconnectKeeps, EmitEventKeeps, RxUnblockKeeps, SlowTakeKeeps,
     SlowReplyKeeps, TxDropKeeps, ArriveKeeps, RxPieceKeeps, RxReadKeeps, TxWriteKeeps DEF Rtos!Next
<1>2. CASE UNCHANGED Rtos!vars
  BY <1>2 DEF Rtos!vars, RtosInv
<1>3. QED  BY <1>1, <1>2

LEMMA RtosMeans == RtosInv => Rtos!AnswersGoBack /\ Rtos!AuthIsOwn /\ Rtos!HalfFrameCostsOne
<1>1. RtosInv => Rtos!AnswersGoBack
  BY DEF RtosInv, Sound, Lanes, Rtos!AnswersGoBack
<1>2. RtosInv => Rtos!AuthIsOwn
  BY DEF RtosInv, Sound, Flag, Rtos!AuthIsOwn, On
<1>3. RtosInv => Rtos!HalfFrameCostsOne
  BY DEF RtosInv, Sound, Order, Rtos!HalfFrameCostsOne
<1>4. QED  BY <1>1, <1>2, <1>3

-----------------------------------------------------------------------------
(* Sizes *)

\* No queue is longer than it was created, no read than its buffer.
Fits(b) == Len(b.slowq) <= SlowQueue /\ \A l \in Rtos!Links : Len(b.txq[l]) <= TxQueue
Bounded(h, b) ==
  /\ h.sent <= Sent /\ b.chunk.left <= Chunk /\ b.events <= Events
  /\ \A l \in Rtos!Links : b.rx[l] <= h.sent
  /\ Fits(b)

\* Board e is b but for its flag, its origins, its queues and who is being served.
Fed(e, b) ==
  /\ e \in RtosBoards /\ e.rx = b.rx /\ e.chunk = b.chunk /\ e.events = b.events
  /\ Fits(b) => Fits(e)

LEMMA EnqueueFits ==
  ASSUME NEW b \in RtosBoards, NEW dest \in Rtos!Links \cup {"all"}, NEW f \in Rtos!Frames, NEW e, e = Rtos!Enqueue(b, dest, f)
  PROVE  Fed(e, b)
<1>1. Longer(e, b, dest, f)
  BY Bounds, EnqueueIs
<1>2. /\ e \in RtosBoards /\ e.rx = b.rx /\ e.chunk = b.chunk /\ e.events = b.events /\ e.slowq = b.slowq
  BY <1>1 DEF Longer
<1>3. ASSUME NEW l \in Rtos!Links, Len(b.txq[l]) <= TxQueue PROVE Len(e.txq[l]) <= TxQueue
  <2>1. e.txq[l] = b.txq[l] \/ (Len(b.txq[l]) < TxQueue /\ e.txq[l] = Append(b.txq[l], f))
    BY DEF Rtos!Enqueue, RtosBoards
  <2>2. b.txq[l] \in Seq(Rtos!Frames) /\ TxQueue \in Nat
    BY Bounds DEF RtosBoards
  <2>3. QED  BY <1>3, <2>1, <2>2
<1>4. QED  BY <1>2, <1>3 DEF Fed, Fits

LEMMA ServedTwice ==
  ASSUME NEW a, NEW b, NEW e, Fed(a, b), Fed(e, a)
  PROVE  Fed(e, b)
  BY DEF Fed

LEMMA DispatchFits ==
  ASSUME NEW b \in RtosBoards, NEW c \in Rtos!Clients, NEW kind, NEW e, e = Rtos!Dispatch(b, c, kind)
  PROVE  Fed(e, b)
<1> DEFINE d == [b EXCEPT !.origin["rx"] = Rtos!Link(c)]
           dl == [d EXCEPT !.held = c]
           dq == [d EXCEPT !.slowq = Append(@, c)]
<1>1. Rtos!Link(c) \in Rtos!Links /\ c \in Rtos!Frames /\ c \in Anyone
  BY DEF Rtos!Link, Rtos!Links, Rtos!Frames, Anyone
<1>2. [b.origin EXCEPT !["rx"] = Rtos!Link(c)] \in [{"rx", "slow"} -> Rtos!Links \cup {"all"}]
  BY <1>1 DEF RtosBoards
<1>3. d \in RtosBoards /\ Fed(d, b) /\ d.slowq = b.slowq /\ d.origin["rx"] = Rtos!Link(c) /\ d.txq = b.txq
  BY <1>2 DEF RtosBoards, Fed, Fits
<1> HIDE DEF d
<1>4. Fed(dl, d)
  BY <1>1, <1>3 DEF RtosBoards, Fed, Fits
<1>5. ASSUME Len(d.slowq) < SlowQueue PROVE Fed(dq, d)
  <2>1. d.slowq \in Seq(Rtos!Clients) /\ SlowQueue \in Nat
    BY <1>3, Bounds DEF RtosBoards
  <2>2. Append(d.slowq, c) \in Seq(Rtos!Clients) /\ Len(Append(d.slowq, c)) <= SlowQueue
    BY <1>5, <2>1
  <2>3. /\ dq \in RtosBoards /\ dq.rx = d.rx /\ dq.chunk = d.chunk /\ dq.events = d.events
        /\ dq.txq = d.txq /\ dq.slowq = Append(d.slowq, c)
    BY <1>3, <2>2 DEF RtosBoards
  <2>4. QED  BY <2>2, <2>3 DEF Fed, Fits
<1>6. Fed(Rtos!Reply(d, "rx", c), d)
  BY <1>1, <1>3, EnqueueFits DEF Rtos!Reply, Rtos!ReplyDestination
<1>7. \/ e = dl \/ e = Rtos!Reply(d, "rx", c)
      \/ e = dq /\ Len(d.slowq) < SlowQueue
  BY <1>3 DEF Rtos!Dispatch, d
<1> HIDE DEF dl, dq
<1>8. QED  BY <1>3, <1>4, <1>5, <1>6, <1>7, ServedTwice

LEMMA ExecuteFits ==
  ASSUME NEW b \in RtosBoards, NEW c \in Rtos!Clients, NEW kind, NEW e, e = Rtos!Execute(b, c, kind)
  PROVE  Fed(e, b)
<1>1. Rtos!Link(c) \in Rtos!Links \cup {"all"} /\ c \in Rtos!Frames /\ Rtos!Event \in Rtos!Frames
  BY Bounds, NobodyIsNobody DEF Rtos!Link, Rtos!Links
<1> DEFINE g == [b EXCEPT !.authed = TRUE]
<1>2. g \in RtosBoards /\ Fed(g, b)
  BY DEF RtosBoards, Fed, Fits
<1> HIDE DEF g
<1> DEFINE e1 == Rtos!Enqueue(g, Rtos!Link(c), c)
<1>3. Fed(e1, g) /\ e1 \in RtosBoards
  <2>1. Fed(e1, g)
    BY <1>1, <1>2, EnqueueFits
  <2>2. QED  BY <2>1 DEF Fed
<1> HIDE DEF e1
<1>4. Fed(Rtos!Enqueue(e1, Rtos!Link(c), Rtos!Event), e1)
  BY <1>1, <1>3, EnqueueFits
<1>5. \/ e = Rtos!Enqueue(e1, Rtos!Link(c), Rtos!Event) \/ e = Rtos!Enqueue(b, Rtos!Link(c), c) \/ e = Rtos!Dispatch(b, c, kind)
  BY DEF Rtos!Execute, e1, g
<1>6. CASE e = Rtos!Enqueue(e1, Rtos!Link(c), Rtos!Event)
  BY <1>2, <1>3, <1>4, <1>6, ServedTwice
<1>7. QED  BY <1>1, <1>5, <1>6, EnqueueFits, DispatchFits

LEMMA BoundedKeeps ==
  ASSUME RtosInv, Bounded(host, board), [Rtos!Next]_(Rtos!vars)
  PROVE  Bounded(host, board)'
<1>1. /\ host \in RtosHosts /\ board \in RtosBoards /\ host.sent \in Nat /\ host.sent <= Sent
      /\ Sent \in Nat /\ Chunk \in Nat /\ Events \in Nat /\ board.events \in Nat
      /\ board.rx \in [Rtos!Links -> Nat] /\ \A l \in Rtos!Links : board.rx[l] <= host.sent
      /\ board.chunk.left \in Nat /\ board.chunk.left <= Chunk /\ board.events <= Events /\ Fits(board)
  BY Bounds DEF RtosInv, Sound, Shape, Bounded, RtosHosts, RtosBoards
\* What leaves the numbers of the boards alone.
<1>2. ASSUME Fed(board', board), host'.sent = host.sent PROVE Bounded(host', board')
  BY <1>1, <1>2 DEF Fed, Bounded
<1>3. ASSUME NEW b, b \in RtosBoards, b.rx = board.rx, b.chunk = board.chunk, b.events = board.events,
             b.slowq = board.slowq, b.txq = board.txq
      PROVE  Fed(b, board)
  BY <1>3 DEF Fed, Fits
<1>4. CASE Rtos!Connect
  <2>1. board' \in RtosBoards /\ Fed(board', board)
    BY <1>1, <1>3, <1>4 DEF Rtos!Connect, Rtos!Connected, RtosBoards
  <2>2. host'.sent = host.sent
    BY <1>1, <1>4 DEF Rtos!Connect, RtosHosts
  <2>3. QED  BY <1>2, <2>1, <2>2
<1>5. CASE Rtos!Disconnect
  <2>1. /\ board'.chunk = board.chunk /\ board'.events = board.events
        /\ board'.slowq = board.slowq /\ board'.txq = board.txq
        /\ \A l \in Rtos!Links : board'.rx[l] <= host.sent
    BY <1>1, <1>5 DEF Rtos!Disconnect, RtosBoards, Rtos!Links
  <2>2. host'.sent = host.sent
    BY <1>1, <1>5 DEF Rtos!Disconnect, RtosHosts
  <2>3. QED  BY <1>1, <2>1, <2>2 DEF Bounded, Fits
<1>6. CASE Rtos!EmitEvent
  <2> DEFINE e == Rtos!Enqueue(board, "all", Rtos!Event)
  <2>1. Fed(e, board) /\ e \in RtosBoards
    <3>1. "all" \in Rtos!Links \cup {"all"} /\ Rtos!Event \in Rtos!Frames
      BY DEF Rtos!Frames
    <3>2. Fed(e, board)
      BY <1>1, <3>1, EnqueueFits
    <3>3. QED  BY <3>2 DEF Fed
  <2> HIDE DEF e
  <2>2. board' = [e EXCEPT !.events = @ + 1] /\ host' = host /\ board.events < Events
    BY <1>6 DEF Rtos!EmitEvent, e
  <2>3. board'.rx = board.rx /\ board'.chunk = board.chunk /\ board'.events = board.events + 1
        /\ board'.slowq = e.slowq /\ board'.txq = e.txq
    BY <2>1, <2>2 DEF RtosBoards, Fed
  <2>4. Fits(board')
    BY <1>1, <2>1, <2>3 DEF Fed, Fits
  <2>5. QED  BY <1>1, <2>2, <2>3, <2>4 DEF Bounded
<1>7. ASSUME NEW c \in Anyone, c # Rtos!NoOne, NEW t \in {"rx", "slow"}, NEW b \in RtosBoards, Fed(b, board),
             board' = Rtos!Reply(b, t, c), host' = host
      PROVE  Bounded(host', board')
  <2>1. Rtos!ReplyDestination(b, t) \in Rtos!Links \cup {"all"} /\ c \in Rtos!Frames
    BY <1>7 DEF Rtos!ReplyDestination, RtosBoards, Anyone, Rtos!Frames
  <2>2. Fed(board', b)
    BY <1>7, <2>1, EnqueueFits DEF Rtos!Reply
  <2>3. QED  BY <1>2, <1>7, <2>2, ServedTwice
<1>8. CASE Rtos!RxUnblock
  <2>1. [board EXCEPT !.held = Rtos!NoOne] \in RtosBoards /\ board.held \in Anyone
    BY <1>1 DEF RtosBoards, Anyone
  <2>2. Fed([board EXCEPT !.held = Rtos!NoOne], board)
    BY <1>1, <1>3, <2>1 DEF RtosBoards
  <2>3. QED  BY <1>7, <1>8, <2>1, <2>2 DEF Rtos!RxUnblock
<1>9. CASE Rtos!SlowReply
  <2>1. [board EXCEPT !.running = Rtos!NoOne] \in RtosBoards /\ board.running \in Anyone
    BY <1>1 DEF RtosBoards, Anyone
  <2>2. Fed([board EXCEPT !.running = Rtos!NoOne], board)
    BY <1>1, <1>3, <2>1 DEF RtosBoards
  <2>3. QED  BY <1>7, <1>9, <2>1, <2>2 DEF Rtos!SlowReply
<1>10. CASE Rtos!SlowTake
  <2>1. board.slowq \in Seq(Rtos!Clients) /\ board.slowq # <<>> /\ SlowQueue \in Nat
    BY <1>1, <1>10, Bounds DEF Rtos!SlowTake, RtosBoards
  <2>2. /\ board'.rx = board.rx /\ board'.chunk = board.chunk /\ board'.events = board.events
        /\ board'.txq = board.txq /\ board'.slowq = Tail(board.slowq) /\ host' = host
    BY <1>1, <1>10 DEF Rtos!SlowTake, RtosBoards
  <2>3. Len(Tail(board.slowq)) <= SlowQueue
    BY <1>1, <2>1 DEF Fits
  <2>4. QED  BY <1>1, <2>2, <2>3 DEF Bounded, Fits
<1>11. CASE Rtos!TxDrop
  <2>1. /\ board'.rx = board.rx /\ board'.chunk = board.chunk /\ board'.events = board.events
        /\ board'.slowq = board.slowq /\ host' = host
        /\ \A l \in Rtos!Links : board'.txq[l] \in {board.txq[l], <<>>}
    BY <1>1, <1>11 DEF Rtos!TxDrop, RtosBoards, Rtos!Links
  <2>2. TxQueue \in Nat /\ Len(<<>>) = 0
    BY Bounds
  <2>3. \A l \in Rtos!Links : Len(board'.txq[l]) <= TxQueue
    BY <1>1, <2>1, <2>2 DEF Fits
  <2>4. QED  BY <1>1, <2>1, <2>3 DEF Bounded, Fits
<1>12. ASSUME NEW c \in Rtos!Clients, Rtos!Arrive(c) PROVE Bounded(host', board')
  <2>1. host'.sent = host.sent + 1 /\ host.sent < Sent
    BY <1>1, <1>12 DEF Rtos!Arrive, RtosHosts
  <2>2. /\ board'.chunk = board.chunk /\ board'.events = board.events
        /\ board'.slowq = board.slowq /\ board'.txq = board.txq
        /\ \A l \in Rtos!Links : board'.rx[l] \in {board.rx[l], board.rx[l] + 1}
    BY <1>1, <1>12 DEF Rtos!Arrive, RtosBoards
  <2>3. \A l \in Rtos!Links : board'.rx[l] <= host'.sent
    BY <1>1, <2>1, <2>2
  <2>4. QED  BY <1>1, <2>1, <2>2, <2>3 DEF Bounded, Fits
<1>13. ASSUME NEW kind \in Rtos!Kinds, Rtos!RxPiece(kind) PROVE Bounded(host', board')
  <2> DEFINE c == board.chunk.of
             b == Piece(board, kind)
  <2>1. c \in Rtos!Clients
    BY <1>13, Bounds, PieceSound DEF RtosInv
  <2>2. b \in RtosBoards
    BY <1>13, Bounds, PieceSound DEF Sound, Shape
  <2>3. /\ b.rx = board.rx /\ b.events = board.events /\ b.slowq = board.slowq /\ b.txq = board.txq
        /\ b.chunk.left <= board.chunk.left
    BY <1>1, <1>13 DEF Piece, RtosBoards, Rtos!NoChunk, Rtos!RxPiece
  <2>4. board' = b \/ board' = Rtos!Execute(b, c, kind)
    BY <1>13 DEF Rtos!RxPiece, Rtos!RxFor, Piece
  <2>5. host'.sent = host.sent
    BY <1>1, <1>13 DEF Rtos!RxPiece, RtosHosts
  <2> HIDE DEF b, c
  <2>6. Fed(board', b)
    BY <2>1, <2>2, <2>4, ExecuteFits DEF Fed
  <2>7. Fits(board') /\ board'.rx = board.rx /\ board'.events = board.events /\ board'.chunk = b.chunk
    BY <1>1, <2>3, <2>6 DEF Fed, Fits
  <2>8. b.chunk.left \in Nat
    BY <2>2 DEF RtosBoards
  <2>9. QED  BY <1>1, <2>3, <2>5, <2>7, <2>8 DEF Bounded
<1>14. ASSUME NEW l \in Rtos!Links, Rtos!RxRead(l) PROVE Bounded(host', board')
  <2>1. PICK n \in 1 .. Chunk :
          /\ n <= board.rx[l]
          /\ board' = [board EXCEPT !.rx[l] = @ - n,
                                    !.chunk = [of |-> IF l = "usb" THEN Rtos!Usb ELSE host.session, left |-> n]]
    BY <1>14 DEF Rtos!RxRead
  <2>2. /\ host' = host /\ board'.chunk.left = n /\ board'.events = board.events
        /\ board'.slowq = board.slowq /\ board'.txq = board.txq
        /\ \A k \in Rtos!Links : board'.rx[k] = IF k = l THEN board.rx[k] - n ELSE board.rx[k]
    BY <1>1, <1>14, <2>1 DEF Rtos!RxRead, RtosBoards
  <2>3. \A k \in Rtos!Links : board'.rx[k] <= host.sent
    BY <1>1, <2>1, <2>2
  <2>4. QED  BY <1>1, <2>1, <2>2, <2>3 DEF Bounded, Fits
<1>15. ASSUME NEW l \in Rtos!Links, Rtos!TxWrite(l) PROVE Bounded(host', board')
  <2>1. /\ host' = host /\ board'.rx = board.rx /\ board'.chunk = board.chunk
        /\ board'.events = board.events /\ board'.slowq = board.slowq
        /\ \A k \in Rtos!Links : board'.txq[k] = IF k = l THEN Rtos!Unloaded(l) ELSE board.txq[k]
    BY <1>1, <1>15 DEF Rtos!TxWrite, RtosBoards
  <2>2. board.txq[l] \in Seq(Rtos!Frames) /\ TxQueue \in Nat
    BY <1>1, Bounds DEF RtosBoards
  <2>3. Rtos!Unloaded(l) = board.txq[l] \/ (board.txq[l] # <<>> /\ Rtos!Unloaded(l) = Tail(board.txq[l]))
    BY <1>15 DEF Rtos!TxWrite, Rtos!Waiting, Rtos!Unloaded
  <2>4. Len(board.txq[l]) <= TxQueue => Len(Rtos!Unloaded(l)) <= TxQueue
    BY <2>2, <2>3
  <2>5. QED  BY <1>1, <2>1, <2>4 DEF Bounded, Fits
<1>16. CASE UNCHANGED Rtos!vars
  BY <1>1, <1>16 DEF Rtos!vars, Bounded
<1>17. Bounded(host', board')
  BY <1>4, <1>5, <1>6, <1>8, <1>9, <1>10, <1>11, <1>12, <1>13, <1>14, <1>15, <1>16 DEF Rtos!Next
<1>18. QED  BY <1>17 DEF Bounded, Fits

LEMMA BoundedInit ==
  ASSUME Rtos!Init
  PROVE  Bounded(host, board)
<1>1. host.sent = 0 /\ board.chunk.left = 0 /\ board.events = 0 /\ board.slowq = <<>>
      /\ \A l \in Rtos!Links : board.rx[l] = 0 /\ board.txq[l] = <<>>
  BY DEF Rtos!Init, Rtos!NoChunk
<1>2. QED  BY <1>1, Bounds DEF Bounded, Fits

LEMMA BoundedMeans == RtosInv /\ Bounded(host, board) => Rtos!TypeOK
  BY Bounds DEF RtosInv, Sound, Shape, Bounded, Fits, Rtos!TypeOK, RtosHosts, RtosBoards, RtosWires, Anyone

\* Whichever of rx_task and slow_task executed a request, and whatever came over the
\* other link meanwhile, its answer is written on the link and to the session it came
\* from (reply_destination, drop_stream).  A session that may command the board gave
\* the password itself and one that did not is told no event (handle_auth, onConnect);
\* the half frame it leaves in the accumulator spoils at most the first of the next
\* session (pump_link_bytes); and no queue outgrows what it was created with, whichever
\* task puts a frame in it (enqueue_frame, slow_enqueue).  AnswersGoBack and AuthIsOwn
\* name their exceptions.
THEOREM TasksStaySound == BoardSpec => []TasksAreSound
<1> DEFINE Inv == part = "tasks" => RtosInv /\ Bounded(host, board)
<1>1. BoardInit => Inv
  BY Bounds, InitSound, BoundedInit DEF BoardInit
<1>2. Inv /\ [BoardNext]_Parted => Inv'
  <2> SUFFICES ASSUME part = "tasks" => RtosInv /\ Bounded(host, board), [BoardNext]_Parted,
                      part' = "tasks"
               PROVE  RtosInv' /\ Bounded(host, board)'
    OBVIOUS
  <2>1. part = "tasks" /\ [Rtos!Next]_(Rtos!vars)
    BY DEF BoardNext, Parted, Rtos!vars
  <2>2. RtosInv /\ Bounded(host, board)
    BY <2>1
  <2>3. RtosInv'
    BY <2>1, <2>2, Bounds, StepKeeps
  <2>4. Bounded(host, board)'
    BY <2>1, <2>2, BoundedKeeps
  <2>5. QED  BY <2>3, <2>4
<1>3. Inv => TasksAreSound
  BY RtosMeans, BoundedMeans DEF TasksAreSound
<1>4. QED  BY <1>1, <1>2, <1>3, PTL DEF BoardSpec

-----------------------------------------------------------------------------
(* The Wi-Fi radio *)

RadioBoards ==
  [users : SUBSET Radio!Users, mode : SUBSET {"STA", "AP"}, scanning : BOOLEAN, scan : Nat,
   cut : BOOLEAN, apFailed : BOOLEAN, stationCut : BOOLEAN]

\* Users us have the interface they work through, and may be together.
Served(b, us) ==
  /\ us \cap {"STA", "ESPNOW"} # {} => "STA" \in b.mode
  /\ "LINK" \in us /\ ~b.stationCut => "STA" \in b.mode
  /\ "AP" \in us => "AP" \in b.mode
  /\ ~("LINK" \in us /\ "ESPNOW" \in us)

\* OwnersHaveRadio of a board, and its fields.
RadioSound(b) ==
  /\ b \in RadioBoards /\ Served(b, b.users)
  /\ b.users = {} /\ ~b.scanning => b.mode = {}

RadioInv == RadioSound(board)

LEMMA RadioMeans == RadioSound(board) => Radio!OwnersHaveRadio
  BY DEF RadioSound, Served, Radio!OwnersHaveRadio, Radio!Held

LEMMA ReleaseSound ==
  ASSUME NEW b \in RadioBoards, NEW user, Served(b, b.users \ {user})
  PROVE  RadioSound(Radio!Release(b, user))
<1> DEFINE r == Radio!Release(b, user)
<1>1. /\ r \in RadioBoards /\ r.users = b.users \ {user} /\ r.stationCut = b.stationCut
      /\ r.mode = IF b.users \ {user} = {} THEN {} ELSE b.mode
  BY DEF RadioBoards, Radio!Release
<1>2. r.mode # b.mode => r.users = {}
  BY <1>1
<1>3. Served(r, r.users)
  BY <1>1, <1>2 DEF Served
<1>4. QED  BY <1>1, <1>3 DEF RadioSound

LEMMA RaiseFacts ==
  ASSUME NEW b \in RadioBoards, NEW user, NEW mode \in SUBSET {"STA", "AP"}
  PROVE  LET r == Radio!Raise(b, user, mode)
         IN  /\ r \in RadioBoards /\ r.users = b.users \cup ({user} \cap Radio!Users) /\ r.mode = mode
             /\ r.scanning = b.scanning /\ r.scan = b.scan
             /\ r.stationCut = (b.stationCut \/ ("LINK" \in b.users /\ "STA" \notin mode))
  BY DEF RadioBoards, Radio!Raise

LEMMA RadioStep ==
  ASSUME RadioInv, [Radio!Next]_(Radio!vars)
  PROVE  RadioInv'
<1>0. /\ board \in RadioBoards /\ Served(board, board.users)
      /\ (board.users = {} /\ ~board.scanning => board.mode = {})
  BY DEF RadioInv, RadioSound
<1>1. Radio!Station \in SUBSET {"STA", "AP"} /\ "STA" \in Radio!Station /\ (Radio!Held("AP") => "AP" \in Radio!Station)
  BY DEF Radio!Station, Radio!Held
<1>2. ASSUME NEW user \in Radio!Users PROVE RadioSound(Radio!Release(board, user))
  <2>1. Served(board, board.users \ {user})
    BY <1>0 DEF Served
  <2>2. QED  BY <1>0, <2>1, ReleaseSound
<1>3. RadioSound(Radio!Release([board EXCEPT !.mode = @ \ {"AP"}], "AP"))
  <2> DEFINE b == [board EXCEPT !.mode = @ \ {"AP"}]
  <2>1. b \in RadioBoards /\ Served(b, b.users \ {"AP"})
    BY <1>0 DEF Served, RadioBoards
  <2>2. QED  BY <2>1, ReleaseSound
<1>4. ASSUME NEW b \in RadioBoards, RadioSound(b), NEW v \in BOOLEAN
      PROVE  RadioSound([b EXCEPT !.apFailed = v])
  BY <1>4 DEF RadioSound, Served, RadioBoards
<1>5. ASSUME NEW b \in RadioBoards, RadioSound(b), NEW v \in BOOLEAN, "LINK" \in b.users => "STA" \in b.mode
      PROVE  RadioSound([b EXCEPT !.stationCut = v])
  BY <1>5 DEF RadioSound, Served, RadioBoards
<1>6. CASE Radio!Connect
  <2> DEFINE r == Radio!Raise(board, "STA", Radio!Station)
  <2>1. /\ r \in RadioBoards /\ r.users = board.users \cup {"STA"} /\ r.mode = Radio!Station
    <3>1. {"STA"} \cap Radio!Users = {"STA"}
      BY DEF Radio!Users
    <3>2. QED  BY <1>0, <1>1, <3>1, RaiseFacts
  <2>2. Served(r, r.users) /\ r.users # {}
    BY <1>0, <1>1, <2>1 DEF Served, Radio!Held
  <2>3. RadioSound(r)
    BY <2>1, <2>2 DEF RadioSound
  <2>4. QED  BY <1>6, <2>3 DEF Radio!Connect, RadioInv
<1>7. CASE Radio!Disconnect
  BY <1>2, <1>7 DEF Radio!Disconnect, RadioInv, Radio!Users
<1>8. CASE Radio!ApStart
  <2> DEFINE mode == {"AP"} \cup (IF Radio!Held("STA") \/ Radio!Held("ESPNOW") THEN {"STA"} ELSE {})
             up == Radio!Raise(board, "AP", mode)
  <2>1. /\ up \in RadioBoards /\ up.users = board.users \cup {"AP"} /\ up.mode = mode
        /\ up.stationCut = (board.stationCut \/ ("LINK" \in board.users /\ "STA" \notin mode))
    <3>1. mode \in SUBSET {"STA", "AP"} /\ {"AP"} \cap Radio!Users = {"AP"}
      BY DEF Radio!Users
    <3>2. QED  BY <1>0, <3>1, RaiseFacts
  <2>2. Served(up, up.users)
    BY <1>0, <2>1 DEF Served, Radio!Held
  <2>3. RadioSound(up)
    BY <2>1, <2>2 DEF RadioSound
  <2>4. RadioSound(Radio!Release(up, "AP"))
    <3>1. Served(up, up.users \ {"AP"})
      BY <2>2 DEF Served
    <3>2. QED  BY <2>1, <3>1, ReleaseSound
  <2>5. board' = [up EXCEPT !.apFailed = FALSE] \/ board' = [Radio!Release(up, "AP") EXCEPT !.apFailed = TRUE]
    BY <1>8 DEF Radio!ApStart
  <2>6. Radio!Release(up, "AP") \in RadioBoards
    BY <2>4 DEF RadioSound
  <2>7. QED  BY <1>4, <2>1, <2>3, <2>4, <2>5, <2>6 DEF RadioInv
<1>9. CASE Radio!ApStop
  <2>1. Radio!Release([board EXCEPT !.mode = @ \ {"AP"}], "AP") \in RadioBoards
    BY <1>3 DEF RadioSound
  <2>2. QED  BY <1>3, <1>4, <1>9, <2>1 DEF Radio!ApStop, RadioInv
<1>10. CASE Radio!EspNowBegin
  <2> DEFINE up == Radio!Raise(board, "ESPNOW", board.mode \cup {"STA"})
  <2>1. /\ up \in RadioBoards /\ up.users = board.users \cup {"ESPNOW"} /\ up.mode = board.mode \cup {"STA"}
    <3>1. board.mode \cup {"STA"} \in SUBSET {"STA", "AP"} /\ {"ESPNOW"} \cap Radio!Users = {"ESPNOW"}
      BY <1>0 DEF Radio!Users, RadioBoards
    <3>2. QED  BY <1>0, <3>1, RaiseFacts
  <2>2. "LINK" \notin board.users
    BY <1>10 DEF Radio!EspNowBegin, Radio!LinkOn, Radio!Held
  <2>3. Served(up, up.users)
    BY <1>0, <2>1, <2>2 DEF Served
  <2>4. RadioSound(up)
    BY <2>1, <2>3 DEF RadioSound
  <2>5. RadioSound(Radio!Release(up, "ESPNOW"))
    <3>1. Served(up, up.users \ {"ESPNOW"})
      BY <2>3 DEF Served
    <3>2. QED  BY <2>1, <3>1, ReleaseSound
  <2>6. QED  BY <1>10, <2>4, <2>5 DEF Radio!EspNowBegin, RadioInv
<1>11. CASE Radio!EspNowEnd
  BY <1>2, <1>11 DEF Radio!EspNowEnd, RadioInv, Radio!Users
<1>12. CASE Radio!LinkSetup
  <2> DEFINE up == Radio!Raise(board, "LINK", Radio!Station)
  <2>1. up \in RadioBoards /\ up.users = board.users \cup {"LINK"} /\ up.mode = Radio!Station
    <3>1. {"LINK"} \cap Radio!Users = {"LINK"}
      BY DEF Radio!Users
    <3>2. QED  BY <1>0, <1>1, <3>1, RaiseFacts
  <2>2. "ESPNOW" \notin board.users
    BY <1>12 DEF Radio!LinkSetup, Radio!Held
  <2>3. Served(up, up.users)
    BY <1>0, <1>1, <2>1, <2>2 DEF Served, Radio!Held
  <2>4. RadioSound(up)
    BY <2>1, <2>3 DEF RadioSound
  <2>5. QED  BY <1>1, <1>5, <1>12, <2>1, <2>4 DEF Radio!LinkSetup, RadioInv
<1>13. CASE Radio!LinkStop
  <2> DEFINE down == Radio!Release(board, "LINK")
  <2>1. RadioSound(down) /\ down \in RadioBoards
    BY <1>2 DEF Radio!Users, RadioSound
  <2>2. "LINK" \notin down.users
    BY <1>0 DEF Radio!Release, RadioBoards
  <2>3. QED  BY <1>5, <1>13, <2>1, <2>2 DEF Radio!LinkStop, RadioInv
<1>14. ASSUME NEW t \in Threads, Radio!Scan(t)
       PROVE  RadioInv'
  <2> DEFINE up == Radio!Raise(board, "", Radio!Station)
  <2>1. /\ up \in RadioBoards /\ up.users = board.users /\ up.mode = Radio!Station
        /\ up.scanning = board.scanning /\ up.stationCut = board.stationCut
    <3>1. {""} \cap Radio!Users = {}
      BY DEF Radio!Users
    <3>2. /\ up \in RadioBoards /\ up.users = board.users \cup ({""} \cap Radio!Users) /\ up.mode = Radio!Station
          /\ up.scanning = board.scanning
          /\ up.stationCut = (board.stationCut \/ ("LINK" \in board.users /\ "STA" \notin Radio!Station))
      <4>1. board \in RadioBoards /\ Radio!Station \in SUBSET {"STA", "AP"}
        BY <1>0, <1>1
      <4>2. QED  BY <4>1 DEF Radio!Raise, RadioBoards
    <3>3. board.stationCut \in BOOLEAN
      BY <1>0 DEF RadioBoards
    <3>4. QED  BY <1>1, <3>1, <3>2, <3>3
  <2>2. Served(up, up.users)
    BY <1>0, <1>1, <2>1 DEF Served, Radio!Held
  <2>3. CASE UNCHANGED board
    BY <2>3 DEF RadioInv
  <2>4. CASE board' = Radio!Release(up, "")
    <3>1. Served(up, up.users \ {""})
      BY <2>2 DEF Served
    <3>2. QED  BY <2>1, <2>4, <3>1, ReleaseSound DEF RadioInv
  <2>5. CASE board' = [up EXCEPT !.scanning = TRUE, !.scan = @ + 1, !.cut = FALSE]
    <3>1. /\ board' \in RadioBoards /\ board'.users = up.users /\ board'.mode = up.mode
          /\ board'.stationCut = up.stationCut /\ board'.scanning = TRUE
      <4> HIDE DEF up
      <4>1. up.scan + 1 \in Nat
        BY <2>1 DEF RadioBoards
      <4>2. QED  BY <2>1, <2>5, <4>1 DEF RadioBoards
    <3>2. Served(board', board'.users)
      BY <2>2, <3>1 DEF Served
    <3>3. QED  BY <3>1, <3>2 DEF RadioInv, RadioSound
  <2>6. QED  BY <1>14, <2>3, <2>4, <2>5 DEF Radio!Scan
<1>15. CASE Radio!ScanEnds
  <2> DEFINE b == [board EXCEPT !.scanning = FALSE]
  <2>1. b \in RadioBoards /\ Served(b, b.users \ {""})
    BY <1>0 DEF Served, RadioBoards
  <2>2. board' = Radio!Release(b, "")
    BY <1>15 DEF Radio!ScanEnds
  <2>3. QED  BY <2>1, <2>2, ReleaseSound DEF RadioInv
<1>16. ASSUME NEW t \in Threads, Radio!OffStep(t)
       PROVE  RadioInv'
  <2>1. \/ board' = board \/ board' = Radio!Release(board, "STA") \/ board' = Radio!Release(board, "ESPNOW")
        \/ board' = [Radio!Release([board EXCEPT !.mode = @ \ {"AP"}], "AP") EXCEPT !.apFailed = FALSE]
    BY <1>16 DEF Radio!OffStep
  <2>2. Radio!Release([board EXCEPT !.mode = @ \ {"AP"}], "AP") \in RadioBoards
    BY <1>3 DEF RadioSound
  <2>3. QED  BY <1>2, <1>3, <1>4, <2>1, <2>2 DEF RadioInv, Radio!Users
<1>17. ASSUME UNCHANGED board PROVE RadioInv'
  BY <1>17 DEF RadioInv
<1>18. CASE Radio!Deliver
  BY <1>17, <1>18 DEF Radio!Deliver
<1>19. ASSUME NEW t \in Threads, Radio!ScanCall(t) \/ Radio!ScanReturns(t) \/ Radio!ScanTimeout(t) \/ Radio!OffCall(t)
       PROVE  RadioInv'
  BY <1>17, <1>19 DEF Radio!ScanCall, Radio!ScanReturns, Radio!ScanTimeout, Radio!OffCall
<1>20. CASE UNCHANGED Radio!vars
  BY <1>17, <1>20 DEF Radio!vars
<1>21. QED
  BY <1>6, <1>7, <1>8, <1>9, <1>10, <1>11, <1>12, <1>13, <1>14, <1>15, <1>16, <1>18, <1>19, <1>20
     DEF Radio!Next

\* The scans: who may speak of one, and what it has still to hear.
ScanEvents == [scan : Nat, of : Nat]
RadioCalls == [op : {"none", "scan", "wait", "off"}, step : Nat, scan : Nat, upset : BOOLEAN]
RadioHosts ==
  [results : SUBSET ScanEvents, done : BOOLEAN, call : [Threads -> RadioCalls],
   got : [Threads -> [scan : Nat, results : SUBSET ScanEvents]], clean : BOOLEAN]
RadioWires == [events : Seq(ScanEvents), faults : Nat]

\* What scan s still has to deliver when k of its events have come, and what it has found.
Rest(s, k) ==
  [i \in 1 .. Networks + 1 - k |-> IF k + i > Networks THEN Radio!Done(s) ELSE [scan |-> s, of |-> k + i]]
Found(s, k) == {[scan |-> s, of |-> n] : n \in {m \in 1 .. Networks : m <= k}}

Arriving(h, w, s) ==
  \E k \in 0 .. Networks + 1 : /\ w.events = Rest(s, k) /\ h.results = Found(s, k)
                               /\ (h.done <=> k > Networks)
NothingYet(h, w) == w.events = <<>> /\ h.results = {} /\ ~h.done

\* A call c of scan() that nobody else has upset: its scan is to come, under way, or over.
OwnScan(h, b, w, c) ==
  /\ c.op = "scan" => ~b.scanning /\ NothingYet(h, w)
  /\ c.op = "wait" =>
       /\ c.scan = b.scan
       /\ b.scanning => NothingYet(h, w)
       /\ ~b.scanning /\ h.clean => Arriving(h, w, c.scan)

Scanning(c) == c.op \in {"scan", "wait"}
Alone(h, t) == \A u \in Threads \ {t} : ~Scanning(h.call[u])

Owned(h, b, w) ==
  \A t \in Threads : Scanning(h.call[t]) /\ ~h.call[t].upset =>
                       Alone(h, t) /\ OwnScan(h, b, w, h.call[t])

Whole(g) == g # Radio!Nothing => g.results = {[scan |-> g.scan, of |-> n] : n \in 1 .. Networks}

ScanInv ==
  /\ host \in RadioHosts /\ wire \in RadioWires
  /\ Owned(host, board, wire)
  /\ \A t \in Threads : Whole(host.got[t])

LEMMA ScanMeans == ScanInv => Radio!ScanIsWhole
  BY DEF ScanInv, Whole, Radio!ScanIsWhole

LEMMA ScanInit ==
  ASSUME Radio!Init
  PROVE  ScanInv
<1>1. host \in RadioHosts
  BY DEF Radio!Init, RadioHosts, Radio!Idle, RadioCalls, Radio!Nothing
<1>3. wire \in RadioWires
  BY Bounds DEF Radio!Init, RadioWires
<1>4. \A t \in Threads : host.call[t].op = "none" /\ host.got[t] = Radio!Nothing
  BY DEF Radio!Init, Radio!Idle
<1>5. QED  BY <1>1, <1>3, <1>4 DEF ScanInv, Owned, Scanning, Whole

\* Taking the first of what is left leaves the rest.
LEMMA RestIs ==
  ASSUME NEW s \in Nat, NEW k \in 0 .. Networks + 1
  PROVE  /\ Rest(s, k) \in Seq(ScanEvents) /\ (Rest(s, k) = <<>> <=> k > Networks)
         /\ Len(Rest(s, k)) = Networks + 1 - k
         /\ k <= Networks =>
              /\ Head(Rest(s, k)) = IF k = Networks THEN Radio!Done(s) ELSE [scan |-> s, of |-> k + 1]
              /\ Tail(Rest(s, k)) = Rest(s, k + 1)
         /\ k < Networks => Found(s, k + 1) = Found(s, k) \cup {[scan |-> s, of |-> k + 1]}
         /\ Found(s, Networks + 1) = Found(s, Networks)
         /\ Found(s, Networks) = {[scan |-> s, of |-> n] : n \in 1 .. Networks}
         /\ Found(s, 0) = {}
<1> DEFINE R(j, i) == IF j + i > Networks THEN Radio!Done(s) ELSE [scan |-> s, of |-> j + i]
<1>0. Networks \in Nat
  BY Bounds
<1>1. ASSUME NEW j \in 0 .. Networks + 1
      PROVE  /\ Rest(s, j) = [i \in 1 .. Networks + 1 - j |-> R(j, i)]
             /\ \A i \in 1 .. Networks + 1 - j : R(j, i) \in ScanEvents
             /\ Rest(s, j) \in Seq(ScanEvents) /\ Len(Rest(s, j)) = Networks + 1 - j
  <2>1. \A i \in 1 .. Networks + 1 - j : R(j, i) \in ScanEvents
    BY <1>0 DEF Radio!Done, ScanEvents
  <2>2. Networks + 1 - j \in Nat
    BY <1>0
  <2>3. Rest(s, j) = [i \in 1 .. Networks + 1 - j |-> R(j, i)]
    BY DEF Rest
  <2> HIDE DEF R
  <2>4. QED  BY <2>1, <2>2, <2>3
<1>2. Rest(s, k) = <<>> <=> k > Networks
  <2>1. Rest(s, k) \in Seq(ScanEvents) /\ Len(Rest(s, k)) = Networks + 1 - k
    BY <1>1
  <2>2. Rest(s, k) = <<>> <=> Len(Rest(s, k)) = 0
    BY <2>1
  <2>3. QED  BY <1>0, <2>1, <2>2
<1>3. ASSUME k <= Networks
      PROVE  /\ Head(Rest(s, k)) = IF k = Networks THEN Radio!Done(s) ELSE [scan |-> s, of |-> k + 1]
             /\ Tail(Rest(s, k)) = Rest(s, k + 1)
  <2>1. k + 1 \in 0 .. Networks + 1 /\ k \in Nat
    BY <1>0, <1>3
  <2>2. Head(Rest(s, k)) = R(k, 1)
    <3>1. Rest(s, k) = [i \in 1 .. Networks + 1 - k |-> R(k, i)] /\ 1 \in 1 .. Networks + 1 - k
      BY <1>0, <1>1, <1>3, <2>1
    <3>2. Rest(s, k)[1] = R(k, 1)
      <4> HIDE DEF R
      <4>1. QED  BY <3>1
    <3>3. QED  BY <3>2
  <2>3. R(k, 1) = IF k = Networks THEN Radio!Done(s) ELSE [scan |-> s, of |-> k + 1]
    BY <1>0, <1>3, <2>1
  <2>4. /\ Tail(Rest(s, k)) \in Seq(ScanEvents) /\ Rest(s, k + 1) \in Seq(ScanEvents)
        /\ Len(Tail(Rest(s, k))) = Networks + 1 - (k + 1) /\ Len(Rest(s, k + 1)) = Networks + 1 - (k + 1)
    <3>1. Rest(s, k) \in Seq(ScanEvents) /\ Len(Rest(s, k)) = Networks + 1 - k /\ Rest(s, k) # <<>>
      BY <1>0, <1>1, <1>2, <1>3, <2>1
    <3>2. Rest(s, k + 1) \in Seq(ScanEvents) /\ Len(Rest(s, k + 1)) = Networks + 1 - (k + 1)
      BY <1>1, <2>1
    <3>3. Tail(Rest(s, k)) \in Seq(ScanEvents) /\ Len(Tail(Rest(s, k))) = Len(Rest(s, k)) - 1
      BY <3>1
    <3>4. QED  BY <1>0, <2>1, <3>1, <3>2, <3>3
  <2>5. ASSUME NEW i \in 1 .. Networks + 1 - (k + 1) PROVE Tail(Rest(s, k))[i] = Rest(s, k + 1)[i]
    <3>1. Tail(Rest(s, k))[i] = Rest(s, k)[i + 1] /\ i + 1 \in 1 .. Networks + 1 - k
      BY <1>0, <1>1, <1>2, <1>3, <2>1
    <3>2. Rest(s, k)[i + 1] = R(k, i + 1) /\ Rest(s, k + 1)[i] = R(k + 1, i)
      <4> HIDE DEF R
      <4>1. QED  BY <1>1, <2>1, <3>1
    <3>3. R(k, i + 1) = R(k + 1, i)
      BY <1>0, <2>1
    <3>4. QED  BY <3>1, <3>2, <3>3
  <2>6. Tail(Rest(s, k)) = Rest(s, k + 1)
    BY <2>4, <2>5
  <2>7. QED  BY <2>2, <2>3, <2>6
<1>4. ASSUME k < Networks
      PROVE  Found(s, k + 1) = Found(s, k) \cup {[scan |-> s, of |-> k + 1]}
  <2>1. {m \in 1 .. Networks : m <= k + 1} = {m \in 1 .. Networks : m <= k} \cup {k + 1}
    BY <1>0, <1>4
  <2>2. QED  BY <2>1 DEF Found
<1>5. {m \in 1 .. Networks : m <= Networks + 1} = 1 .. Networks /\ {m \in 1 .. Networks : m <= Networks} = 1 .. Networks
      /\ {m \in 1 .. Networks : m <= 0} = {}
  BY <1>0
<1>6. QED  BY <1>1, <1>2, <1>3, <1>4, <1>5 DEF Found

\* A step that takes nothing from a scan nor adds a call of scan().
LEMMA OwnedStays ==
  ASSUME NEW h, NEW b, NEW w, NEW h2, NEW b2, NEW w2, Owned(h, b, w),
         h2.results = h.results, h2.done = h.done, h2.clean = h.clean,
         b2.scanning = b.scanning, b2.scan = b.scan, w2.events = w.events,
         \A t \in Threads : h2.call[t] = h.call[t] \/ ~Scanning(h2.call[t])
  PROVE  Owned(h2, b2, w2)
<1> SUFFICES ASSUME NEW t \in Threads, Scanning(h2.call[t]), ~h2.call[t].upset
             PROVE  Alone(h2, t) /\ OwnScan(h2, b2, w2, h2.call[t])
  BY DEF Owned
<1>1. h2.call[t] = h.call[t]
  OBVIOUS
<1>2. Alone(h, t) /\ OwnScan(h, b, w, h.call[t])
  BY <1>1 DEF Owned
<1>3. Alone(h2, t)
  BY <1>2 DEF Alone
<1>4. OwnScan(h2, b2, w2, h2.call[t])
  BY <1>1, <1>2 DEF OwnScan, NothingYet, Arriving
<1>5. QED  BY <1>3, <1>4

\* What the requests of the others leave of a scan.
LEMMA ScanUntouched ==
  ASSUME NEW b \in RadioBoards, NEW user, NEW mode \in SUBSET {"STA", "AP"}
  PROVE  LET down == Radio!Release(b, user)
             up   == Radio!Raise(b, user, mode)
             off  == Radio!Release([b EXCEPT !.mode = @ \ {"AP"}], user)
         IN  /\ down \in RadioBoards /\ down.scanning = b.scanning /\ down.scan = b.scan
             /\ up \in RadioBoards /\ up.scanning = b.scanning /\ up.scan = b.scan
             /\ off \in RadioBoards /\ off.scanning = b.scanning /\ off.scan = b.scan
<1>1. ASSUME NEW x \in RadioBoards
      PROVE  LET down == Radio!Release(x, user)
             IN  down \in RadioBoards /\ down.scanning = x.scanning /\ down.scan = x.scan
  BY DEF Radio!Release, RadioBoards
<1>2. LET up == Radio!Raise(b, user, mode)
      IN  up \in RadioBoards /\ up.scanning = b.scanning /\ up.scan = b.scan
  BY DEF Radio!Raise, RadioBoards
<1>3. LET x == [b EXCEPT !.mode = @ \ {"AP"}]
      IN  x \in RadioBoards /\ x.scanning = b.scanning /\ x.scan = b.scan
  BY DEF RadioBoards
<1>4. QED  BY <1>1, <1>2, <1>3

\* A call is changed, and nothing else on the host.
LEMMA CallChanged ==
  ASSUME host \in RadioHosts, NEW t \in Threads, NEW c \in RadioCalls
  PROVE  LET h == [host EXCEPT !.call[t] = c]
         IN  /\ h \in RadioHosts /\ h.results = host.results /\ h.done = host.done
             /\ h.clean = host.clean /\ h.got = host.got
             /\ \A u \in Threads : h.call[u] = IF u = t THEN c ELSE host.call[u]
  BY DEF RadioHosts

LEMMA IdleIs == Radio!Idle \in RadioCalls /\ ~Scanning(Radio!Idle) /\ Radio!Nothing \in [scan : Nat, results : SUBSET ScanEvents]
  BY DEF Radio!Idle, RadioCalls, Scanning, Radio!Nothing

\* The requests of the owners of the radio.
LEMMA OwnersKeepScan ==
  ASSUME ScanInv, board \in RadioBoards,
         \/ Radio!Connect \/ Radio!Disconnect \/ Radio!ApStart \/ Radio!ApStop
         \/ Radio!EspNowBegin \/ Radio!EspNowEnd \/ Radio!LinkSetup \/ Radio!LinkStop
  PROVE  ScanInv'
<1>1. Radio!Station \in SUBSET {"STA", "AP"} /\ board.mode \in SUBSET {"STA", "AP"}
  BY DEF Radio!Station, RadioBoards
<1>2. host \in RadioHosts /\ wire \in RadioWires /\ host' = host
  BY DEF ScanInv, Radio!Connect, Radio!Disconnect, Radio!ApStart, Radio!ApStop, Radio!EspNowBegin,
         Radio!EspNowEnd, Radio!LinkSetup, Radio!LinkStop
<1>3. wire' = wire \/ Radio!Refused
  BY DEF Radio!Connect, Radio!Disconnect, Radio!ApStart, Radio!ApStop, Radio!EspNowBegin,
         Radio!EspNowEnd, Radio!LinkSetup, Radio!LinkStop
<1>4. wire' \in RadioWires /\ wire'.events = wire.events
  BY <1>2, <1>3 DEF Radio!Refused, RadioWires
<1>5. ASSUME NEW b \in RadioBoards, NEW v \in BOOLEAN
      PROVE  /\ [b EXCEPT !.apFailed = v].scanning = b.scanning /\ [b EXCEPT !.apFailed = v].scan = b.scan
             /\ [b EXCEPT !.stationCut = v].scanning = b.scanning
             /\ [b EXCEPT !.stationCut = v].scan = b.scan
  BY DEF RadioBoards
<1>6. board'.scanning = board.scanning /\ board'.scan = board.scan
  <2>1. CASE Radio!Connect
    BY <1>1, <2>1, ScanUntouched DEF Radio!Connect
  <2>2. CASE Radio!Disconnect
    BY <1>1, <2>2, ScanUntouched DEF Radio!Disconnect
  <2>3. CASE Radio!ApStart
    <3> DEFINE mode == {"AP"} \cup (IF Radio!Held("STA") \/ Radio!Held("ESPNOW") THEN {"STA"} ELSE {})
               up == Radio!Raise(board, "AP", mode)
    <3>1. mode \in SUBSET {"STA", "AP"}
      OBVIOUS
    <3>2. board' = [up EXCEPT !.apFailed = FALSE] \/ board' = [Radio!Release(up, "AP") EXCEPT !.apFailed = TRUE]
      BY <2>3 DEF Radio!ApStart
    <3> HIDE DEF mode
    <3>3. up \in RadioBoards /\ up.scanning = board.scanning /\ up.scan = board.scan
      BY <3>1, ScanUntouched
    <3> HIDE DEF up
    <3>4. Radio!Release(up, "AP") \in RadioBoards /\ Radio!Release(up, "AP").scanning = up.scanning
          /\ Radio!Release(up, "AP").scan = up.scan
      BY <1>1, <3>3, ScanUntouched
    <3>5. QED  BY <1>5, <3>2, <3>3, <3>4
  <2>4. CASE Radio!ApStop
    BY <1>1, <1>5, <2>4, ScanUntouched DEF Radio!ApStop
  <2>5. CASE Radio!EspNowBegin
    <3> DEFINE up == Radio!Raise(board, "ESPNOW", board.mode \cup {"STA"})
    <3>1. board.mode \cup {"STA"} \in SUBSET {"STA", "AP"}
      BY <1>1
    <3>2. board' = up \/ board' = Radio!Release(up, "ESPNOW")
      BY <2>5 DEF Radio!EspNowBegin
    <3>3. up \in RadioBoards /\ up.scanning = board.scanning /\ up.scan = board.scan
      BY <3>1, ScanUntouched
    <3> HIDE DEF up
    <3>4. Radio!Release(up, "ESPNOW").scanning = up.scanning /\ Radio!Release(up, "ESPNOW").scan = up.scan
      BY <1>1, <3>3, ScanUntouched
    <3>5. QED  BY <3>2, <3>3, <3>4
  <2>6. CASE Radio!EspNowEnd
    BY <1>1, <2>6, ScanUntouched DEF Radio!EspNowEnd
  <2>7. CASE Radio!LinkSetup
    <3> DEFINE up == Radio!Raise(board, "LINK", Radio!Station)
    <3>1. up \in RadioBoards /\ up.scanning = board.scanning /\ up.scan = board.scan
      BY <1>1, ScanUntouched
    <3>2. board' = [up EXCEPT !.stationCut = FALSE]
      BY <2>7 DEF Radio!LinkSetup
    <3> HIDE DEF up
    <3>3. QED  BY <1>5, <3>1, <3>2
  <2>8. CASE Radio!LinkStop
    <3> DEFINE down == Radio!Release(board, "LINK")
    <3>1. down \in RadioBoards /\ down.scanning = board.scanning /\ down.scan = board.scan
      BY <1>1, ScanUntouched
    <3>2. board' = [down EXCEPT !.stationCut = FALSE]
      BY <2>8 DEF Radio!LinkStop
    <3> HIDE DEF down
    <3>3. QED  BY <1>5, <3>1, <3>2
  <2>9. QED  BY <2>1, <2>2, <2>3, <2>4, <2>5, <2>6, <2>7, <2>8
<1>7. Owned(host', board', wire')
  BY <1>2, <1>4, <1>6, OwnedStays DEF ScanInv
<1>8. \A t \in Threads : Whole(host'.got[t])
  BY <1>2 DEF ScanInv
<1>9. QED  BY <1>2, <1>4, <1>7, <1>8 DEF ScanInv

\* The call of scan() upsets every other, and is upset by what is still to come.
LEMMA ScanCallKeeps ==
  ASSUME ScanInv, NEW t \in Threads, Radio!ScanCall(t)
  PROVE  ScanInv'
<1> DEFINE late == \/ \E u \in Threads \ {t} : host.call[u].op \in {"scan", "wait"}
                   \/ board.scanning \/ wire.events # <<>>
           mine == [Radio!Idle EXCEPT !.op = "scan", !.upset = late]
           calls == [u \in Threads |->
                       IF u = t THEN mine
                       ELSE [host.call[u] EXCEPT !.upset = @ \/ host.call[u].op \in {"scan", "wait"}]]
<1>1. host \in RadioHosts /\ wire \in RadioWires /\ host.call[t] = Radio!Idle
      /\ UNCHANGED <<board, wire>>
  BY DEF ScanInv, Radio!ScanCall
<1>2. host' = [host EXCEPT !.got[t] = Radio!Nothing, !.results = {}, !.done = FALSE, !.call = calls]
  BY DEF Radio!ScanCall
<1>3. mine \in RadioCalls /\ mine.op = "scan" /\ mine.upset = late
  BY DEF Radio!Idle, RadioCalls
<1>4. ASSUME NEW u \in Threads \ {t}
      PROVE  /\ calls[u] \in RadioCalls /\ calls[u].op = host.call[u].op
             /\ Scanning(calls[u]) => calls[u].upset
  <2>1. host.call[u] \in RadioCalls
    BY <1>1 DEF RadioHosts
  <2> DEFINE c == host.call[u]
             up == c.upset \/ c.op \in {"scan", "wait"}
  <2>2. calls[u] = [c EXCEPT !.upset = up] /\ c \in RadioCalls /\ up \in BOOLEAN
    BY <2>1 DEF RadioCalls
  <2> HIDE DEF c, calls
  <2>3. calls[u] \in RadioCalls /\ calls[u].op = c.op /\ calls[u].upset = up
    <3> HIDE DEF up
    <3>1. QED  BY <2>2 DEF RadioCalls
  <2>4. QED  BY <2>3 DEF Scanning, c
<1>5. calls[t] = mine /\ DOMAIN calls = Threads
  OBVIOUS
<1>6. calls \in [Threads -> RadioCalls]
  BY <1>3, <1>4, <1>5
<1>7. host' \in RadioHosts /\ host'.call = calls /\ host'.results = {} /\ host'.done = FALSE
      /\ host'.got = [host.got EXCEPT ![t] = Radio!Nothing]
  <2> HIDE DEF calls
  <2>1. [host.got EXCEPT ![t] = Radio!Nothing] \in [Threads -> [scan : Nat, results : SUBSET ScanEvents]]
    BY <1>1, IdleIs DEF RadioHosts
  <2>2. QED  BY <1>1, <1>2, <1>6, <2>1 DEF RadioHosts
<1> HIDE DEF calls
<1>8. Owned(host', board', wire')
  <2> SUFFICES ASSUME NEW u \in Threads, Scanning(host'.call[u]), ~host'.call[u].upset
               PROVE  Alone(host', u) /\ OwnScan(host', board', wire', host'.call[u])
    BY DEF Owned
  <2>1. u = t /\ host'.call[u] = mine
    BY <1>4, <1>5, <1>7
  <2>2. ~late
    BY <1>3, <2>1
  <2>3. Alone(host', u)
    BY <1>4, <1>7, <2>1, <2>2 DEF Alone, Scanning
  <2>4. OwnScan(host', board', wire', mine)
    BY <1>1, <1>3, <1>7, <2>2 DEF OwnScan, NothingYet
  <2>5. QED  BY <2>1, <2>3, <2>4
<1>9. \A u \in Threads : Whole(host'.got[u])
  BY <1>1, <1>7 DEF ScanInv, Whole, RadioHosts
<1>10. QED  BY <1>1, <1>7, <1>8, <1>9 DEF ScanInv

\* WIFI_SCAN is refused, or starts the one scan that the call is to hear of.
LEMMA ScanKeeps ==
  ASSUME ScanInv, board \in RadioBoards, NEW t \in Threads, Radio!Scan(t)
  PROVE  ScanInv'
<1> DEFINE up == Radio!Raise(board, "", Radio!Station)
<1>1. host \in RadioHosts /\ wire \in RadioWires /\ host.call[t] \in RadioCalls /\ host.call[t].op = "scan"
  BY DEF ScanInv, Radio!Scan, RadioHosts
<1>2. up \in RadioBoards /\ up.scanning = board.scanning /\ up.scan = board.scan
  <2>1. Radio!Station \in SUBSET {"STA", "AP"}
    BY DEF Radio!Station
  <2>2. QED  BY <2>1, ScanUntouched
<1> HIDE DEF up
<1>3. \/ /\ host' = [host EXCEPT !.call[t] = Radio!Idle]
         /\ board' = board \/ board' = Radio!Release(up, "")
         /\ wire' = wire \/ Radio!Refused
      \/ /\ host' = [host EXCEPT !.call[t].op = "wait", !.call[t].scan = board.scan + 1]
         /\ board' = [up EXCEPT !.scanning = TRUE, !.scan = @ + 1, !.cut = FALSE]
         /\ wire' = wire
  BY DEF Radio!Scan, up
<1>4. CASE /\ host' = [host EXCEPT !.call[t] = Radio!Idle]
           /\ board' = board \/ board' = Radio!Release(up, "")
           /\ wire' = wire \/ Radio!Refused
  <2>1. wire' \in RadioWires /\ wire'.events = wire.events
    <3>1. wire' = wire \/ (wire.faults > 0 /\ wire' = [wire EXCEPT !.faults = @ - 1])
      BY <1>4 DEF Radio!Refused
    <3>2. QED  BY <1>1, <3>1 DEF RadioWires
  <2>2. board'.scanning = board.scanning /\ board'.scan = board.scan
    <3>1. {} \in SUBSET {"STA", "AP"}
      OBVIOUS
    <3>2. Radio!Release(up, "").scanning = up.scanning /\ Radio!Release(up, "").scan = up.scan
      BY <1>2, <3>1, ScanUntouched
    <3>3. QED  BY <1>2, <1>4, <3>2
  <2>3. /\ host' \in RadioHosts /\ host'.results = host.results /\ host'.done = host.done
        /\ host'.clean = host.clean /\ host'.got = host.got
        /\ \A u \in Threads : host'.call[u] = IF u = t THEN Radio!Idle ELSE host.call[u]
    BY <1>1, <1>4, CallChanged, IdleIs
  <2>4. \A u \in Threads : host'.call[u] = host.call[u] \/ ~Scanning(host'.call[u])
    BY <2>3, IdleIs
  <2>5. Owned(host', board', wire')
    BY <2>1, <2>2, <2>3, <2>4, OwnedStays DEF ScanInv
  <2>6. QED  BY <2>1, <2>3, <2>5 DEF ScanInv
<1>5. CASE /\ host' = [host EXCEPT !.call[t].op = "wait", !.call[t].scan = board.scan + 1]
           /\ board' = [up EXCEPT !.scanning = TRUE, !.scan = @ + 1, !.cut = FALSE]
           /\ wire' = wire
  <2> DEFINE c == [host.call[t] EXCEPT !.op = "wait", !.scan = board.scan + 1]
  <2>1. c \in RadioCalls /\ c.op = "wait" /\ c.scan = board.scan + 1 /\ c.upset = host.call[t].upset
    <3>1. board.scan + 1 \in Nat
      BY DEF RadioBoards
    <3>2. QED  BY <1>1, <3>1 DEF RadioCalls
  <2>2. host' = [host EXCEPT !.call[t] = c]
    BY <1>1, <1>5 DEF RadioHosts
  <2> HIDE DEF c
  <2>3. board'.scanning = TRUE /\ board'.scan = board.scan + 1
    BY <1>2, <1>5 DEF RadioBoards
  <2>4. /\ host' \in RadioHosts /\ host'.results = host.results /\ host'.done = host.done
        /\ host'.clean = host.clean /\ host'.got = host.got
        /\ \A u \in Threads : host'.call[u] = IF u = t THEN c ELSE host.call[u]
    BY <1>1, <2>1, <2>2, CallChanged
  <2>5. Owned(host', board', wire')
    <3> SUFFICES ASSUME NEW u \in Threads, Scanning(host'.call[u]), ~host'.call[u].upset
                 PROVE  Alone(host', u) /\ OwnScan(host', board', wire', host'.call[u])
      BY DEF Owned
    <3>1. CASE u = t
      <4>1. Alone(host, t) /\ OwnScan(host, board, wire, host.call[t])
        BY <1>1, <2>1, <2>4, <3>1 DEF ScanInv, Owned, Scanning
      <4>2. NothingYet(host', wire')
        BY <1>1, <1>5, <2>4, <4>1 DEF OwnScan, NothingYet
      <4>3. Alone(host', t)
        BY <2>4, <4>1 DEF Alone
      <4>4. OwnScan(host', board', wire', c)
        BY <2>1, <2>3, <4>2 DEF OwnScan
      <4>5. QED  BY <2>4, <3>1, <4>3, <4>4
    <3>2. CASE u # t
      <4>1. host'.call[u] = host.call[u] /\ Alone(host, u)
        BY <2>4, <3>2 DEF ScanInv, Owned
      <4>2. ~Scanning(host.call[t])
        BY <3>2, <4>1 DEF Alone
      <4>3. QED  BY <1>1, <4>2 DEF Scanning
    <3>3. QED  BY <3>1, <3>2
  <2>6. QED  BY <1>1, <1>5, <2>4, <2>5 DEF ScanInv
<1>6. QED  BY <1>3, <1>4, <1>5

\* A scan that ends sends what it found, and nothing was on the way before.
LEMMA ScanEndsKeeps ==
  ASSUME ScanInv, board \in RadioBoards, Radio!ScanEnds
  PROVE  ScanInv'
<1> DEFINE found == [i \in 1 .. (IF board.cut THEN 0 ELSE Networks) |-> [scan |-> board.scan, of |-> i]]
           sent == Append(found, Radio!Done(board.scan))
           less(i) == SubSeq(sent, 1, i - 1) \o SubSeq(sent, i + 1, Len(sent))
<1>1. host \in RadioHosts /\ wire \in RadioWires /\ board.scanning /\ board.scan \in Nat /\ board.cut \in BOOLEAN
  BY DEF ScanInv, Radio!ScanEnds, RadioBoards
<1>2. PICK left \in {sent} \cup {less(i) : i \in 1 .. Len(sent)} :
        /\ Len(sent) - Len(left) <= wire.faults
        /\ wire' = [events |-> wire.events \o left, faults |-> wire.faults - (Len(sent) - Len(left))]
        /\ board' = Radio!Release([board EXCEPT !.scanning = FALSE], "")
        /\ host' = [host EXCEPT !.clean = @ /\ left = sent /\ ~board.cut]
  BY DEF Radio!ScanEnds
<1>3. found \in Seq(ScanEvents) /\ Radio!Done(board.scan) \in ScanEvents
  BY <1>1, Bounds DEF ScanEvents, Radio!Done
<1>4. sent \in Seq(ScanEvents) /\ Len(sent) \in Nat
  <2> HIDE DEF found
  <2>1. QED  BY <1>3
<1>5. ~board.cut => sent = Rest(board.scan, 0)
  <2> SUFFICES ASSUME ~board.cut PROVE sent = Rest(board.scan, 0)
    OBVIOUS
  <2>1. Networks \in Nat /\ 0 \in 0 .. Networks + 1
    BY Bounds
  <2>2. found \in Seq(ScanEvents) /\ Len(found) = Networks
        /\ \A i \in 1 .. Networks : found[i] = [scan |-> board.scan, of |-> i]
    BY <1>3, <2>1
  <2> HIDE DEF found
  <2>3. Len(sent) = Networks + 1
        /\ \A i \in 1 .. Networks + 1 : sent[i] = IF i > Networks THEN Radio!Done(board.scan)
                                                  ELSE [scan |-> board.scan, of |-> i]
    BY <1>3, <2>1, <2>2
  <2>4. /\ Rest(board.scan, 0) \in Seq(ScanEvents) /\ Len(Rest(board.scan, 0)) = Networks + 1
        /\ \A i \in 1 .. Networks + 1 : Rest(board.scan, 0)[i] =
              IF i > Networks THEN Radio!Done(board.scan) ELSE [scan |-> board.scan, of |-> i]
    <3>1. Rest(board.scan, 0) \in Seq(ScanEvents)
      BY <1>1, <2>1, RestIs
    <3>2. /\ DOMAIN Rest(board.scan, 0) = 1 .. Networks + 1
          /\ \A i \in 1 .. Networks + 1 : Rest(board.scan, 0)[i] =
                IF i > Networks THEN Radio!Done(board.scan) ELSE [scan |-> board.scan, of |-> i]
      BY <2>1 DEF Rest
    <3>3. Len(Rest(board.scan, 0)) = Networks + 1
      <4>1. Len(Rest(board.scan, 0)) = Networks + 1 - 0
        BY <1>1, <2>1, RestIs
      <4>2. QED  BY <2>1, <4>1
    <3>4. QED  BY <3>1, <3>2, <3>3
  <2> HIDE DEF sent
  <2>5. \A i \in 1 .. Networks + 1 : sent[i] = Rest(board.scan, 0)[i]
    BY <2>3, <2>4
  <2>6. QED  BY <1>4, <2>1, <2>3, <2>4, <2>5
<1> HIDE DEF found, sent
<1>6. left \in Seq(ScanEvents) /\ Len(left) \in Nat
  <2>1. ASSUME NEW i \in 1 .. Len(sent) PROVE less(i) \in Seq(ScanEvents)
    <3>1. /\ i - 1 \in Int /\ i + 1 \in Int /\ i - 1 <= Len(sent) /\ i + 1 >= 1
      BY <1>4
    <3>2. SubSeq(sent, 1, i - 1) \in Seq(ScanEvents) /\ SubSeq(sent, i + 1, Len(sent)) \in Seq(ScanEvents)
      BY <1>4, <3>1
    <3>3. QED  BY <3>2
  <2> HIDE DEF less
  <2>2. left \in Seq(ScanEvents)
    BY <1>2, <1>4, <2>1
  <2>3. QED  BY <2>2
<1>7. wire' \in RadioWires
  <2>1. wire.events \o left \in Seq(ScanEvents) /\ wire.faults \in Nat
    BY <1>1, <1>6 DEF RadioWires
  <2>2. Len(sent) - Len(left) >= 0
    <3>1. CASE left = sent
      BY <1>4, <3>1
    <3>2. ASSUME NEW i \in 1 .. Len(sent), left = less(i) PROVE Len(sent) - Len(left) >= 0
      <4>1. i - 1 \in 0 .. Len(sent) /\ i + 1 \in 1 .. Len(sent) + 1
        BY <1>4
      <4>2. /\ SubSeq(sent, 1, i - 1) \in Seq(ScanEvents) /\ SubSeq(sent, i + 1, Len(sent)) \in Seq(ScanEvents)
            /\ Len(SubSeq(sent, 1, i - 1)) = i - 1 /\ Len(SubSeq(sent, i + 1, Len(sent))) = Len(sent) - i
        BY <1>4, <4>1
      <4>3. Len(left) = (i - 1) + (Len(sent) - i)
        <5>1. \A p, q \in Seq(ScanEvents) : Len(p \o q) = Len(p) + Len(q)
          OBVIOUS
        <5>2. QED  BY <3>2, <4>2, <5>1
      <4>4. QED  BY <1>4, <4>3
    <3>3. QED  BY <1>2, <3>1, <3>2
  <2>3. wire.faults - (Len(sent) - Len(left)) \in Nat
    <3> DEFINE d == Len(sent) - Len(left)
    <3>1. d \in Nat /\ d <= wire.faults
      <4>1. Len(sent) - Len(left) <= wire.faults
        BY <1>2
      <4>2. QED  BY <1>4, <1>6, <2>2, <4>1
    <3> HIDE DEF d
    <3>2. wire.faults - d \in Nat
      BY <2>1, <3>1
    <3>3. QED  BY <3>2 DEF d
  <2>4. QED  BY <1>2, <2>1, <2>3 DEF RadioWires
<1>8. /\ host' \in RadioHosts /\ host'.call = host.call /\ host'.results = host.results
      /\ host'.done = host.done /\ host'.got = host.got
      /\ host'.clean => host.clean /\ left = sent /\ ~board.cut
  <2> DEFINE v == host.clean /\ left = sent /\ ~board.cut
  <2>1. v \in BOOLEAN /\ host' = [host EXCEPT !.clean = v]
    BY <1>1, <1>2 DEF RadioHosts
  <2> HIDE DEF v
  <2>2. /\ host' \in RadioHosts /\ host'.call = host.call /\ host'.results = host.results
        /\ host'.done = host.done /\ host'.got = host.got /\ host'.clean = v
    BY <1>1, <2>1 DEF RadioHosts
  <2>3. QED  BY <2>2 DEF v
<1>9. ~board'.scanning /\ board'.scan = board.scan
  BY <1>2 DEF Radio!Release, RadioBoards
<1>10. Owned(host', board', wire')
  <2> SUFFICES ASSUME NEW t \in Threads, Scanning(host'.call[t]), ~host'.call[t].upset
               PROVE  Alone(host', t) /\ OwnScan(host', board', wire', host'.call[t])
    BY DEF Owned
  <2>1. Alone(host, t) /\ OwnScan(host, board, wire, host.call[t])
    BY <1>8 DEF ScanInv, Owned
  <2>2. host.call[t].op = "wait" /\ host.call[t].scan = board.scan /\ NothingYet(host, wire)
    BY <1>1, <1>8, <2>1 DEF OwnScan, Scanning
  <2>3. host'.clean => Arriving(host', wire', board.scan)
    <3> SUFFICES ASSUME host'.clean PROVE Arriving(host', wire', board.scan)
      OBVIOUS
    <3>1. wire'.events = sent /\ sent = Rest(board.scan, 0)
      <4>1. wire'.events = wire.events \o left /\ wire.events = <<>>
        BY <1>2, <2>2 DEF NothingYet
      <4>2. <<>> \o left = left
        BY <1>6
      <4>3. QED  BY <1>5, <1>8, <4>1, <4>2
    <3>2. Networks \in Nat /\ 0 \in 0 .. Networks + 1
      BY Bounds
    <3>3. host'.results = Found(board.scan, 0) /\ (host'.done <=> 0 > Networks)
      <4>1. Found(board.scan, 0) = {}
        BY <1>1, <3>2, RestIs
      <4>2. host'.results = {} /\ ~host'.done
        BY <1>8, <2>2 DEF NothingYet
      <4>3. host'.done \in BOOLEAN
        BY <1>8 DEF RadioHosts
      <4>4. QED  BY <3>2, <4>1, <4>2, <4>3
    <3>4. QED  BY <3>1, <3>2, <3>3 DEF Arriving
  <2>4. OwnScan(host', board', wire', host'.call[t])
    BY <1>8, <1>9, <2>2, <2>3 DEF OwnScan
  <2>5. Alone(host', t)
    BY <1>8, <2>1 DEF Alone
  <2>6. QED  BY <2>4, <2>5
<1>11. QED  BY <1>7, <1>8, <1>10 DEF ScanInv

\* An event is delivered: the first of those that the scan has left.
LEMMA DeliverKeeps ==
  ASSUME ScanInv, Radio!Deliver
  PROVE  ScanInv'
<1> DEFINE e == Head(wire.events)
<1>1. host \in RadioHosts /\ wire \in RadioWires /\ wire.events \in Seq(ScanEvents) /\ wire.events # <<>>
      /\ board' = board
  BY DEF ScanInv, Radio!Deliver, RadioWires
<1>2. e \in ScanEvents /\ Tail(wire.events) \in Seq(ScanEvents)
  BY <1>1
<1>3. wire' \in RadioWires /\ wire'.events = Tail(wire.events)
  <2>1. wire' = [wire EXCEPT !.events = Tail(@)]
    BY DEF Radio!Deliver
  <2>2. QED  BY <1>1, <1>2, <2>1 DEF RadioWires
<1>4. host' = IF e = Radio!Done(e.scan) THEN [host EXCEPT !.done = TRUE]
              ELSE [host EXCEPT !.results = @ \cup {e}]
  BY DEF Radio!Deliver
<1> HIDE DEF e
<1>5. /\ host' \in RadioHosts /\ host'.call = host.call /\ host'.clean = host.clean /\ host'.got = host.got
      /\ e = Radio!Done(e.scan) => host'.done = TRUE /\ host'.results = host.results
      /\ e # Radio!Done(e.scan) => host'.done = host.done /\ host'.results = host.results \cup {e}
  <2>1. CASE e = Radio!Done(e.scan)
    BY <1>1, <1>4, <2>1 DEF RadioHosts
  <2>2. CASE e # Radio!Done(e.scan)
    <3>1. host' = [host EXCEPT !.results = host.results \cup {e}] /\ host.results \cup {e} \in SUBSET ScanEvents
      BY <1>1, <1>2, <1>4, <2>2 DEF RadioHosts
    <3>2. QED  BY <1>1, <2>2, <3>1 DEF RadioHosts
  <2>3. QED  BY <2>1, <2>2
<1>6. Owned(host', board', wire')
  <2> SUFFICES ASSUME NEW t \in Threads, Scanning(host'.call[t]), ~host'.call[t].upset
               PROVE  Alone(host', t) /\ OwnScan(host', board', wire', host'.call[t])
    BY DEF Owned
  <2> DEFINE s == host.call[t].scan
  <2>1. Alone(host, t) /\ OwnScan(host, board, wire, host.call[t])
    BY <1>5 DEF ScanInv, Owned
  <2>2. host.call[t].op = "wait" /\ s = board.scan /\ ~board.scanning /\ s \in Nat
    <3>1. host.call[t] \in RadioCalls
      BY <1>1 DEF RadioHosts
    <3>2. QED  BY <1>1, <1>5, <2>1, <3>1 DEF OwnScan, Scanning, NothingYet, RadioCalls
  <2> HIDE DEF s
  <2>3. ASSUME host.clean PROVE Arriving(host', wire', s)
    <3>0. Networks \in Nat
      BY Bounds
    <3>1. PICK k \in 0 .. Networks + 1 : /\ wire.events = Rest(s, k) /\ host.results = Found(s, k)
                                          /\ (host.done <=> k > Networks)
      BY <2>1, <2>2, <2>3 DEF OwnScan, Arriving, s
    <3>2. k <= Networks /\ k + 1 \in 0 .. Networks + 1 /\ k \in Nat
      <4>1. Rest(s, k) = <<>> <=> k > Networks
        BY <2>2, RestIs
      <4>2. QED  BY <1>1, <3>0, <3>1, <4>1
    <3>3. /\ e = IF k = Networks THEN Radio!Done(s) ELSE [scan |-> s, of |-> k + 1]
          /\ wire'.events = Rest(s, k + 1)
      BY <1>3, <2>2, <3>1, <3>2, RestIs DEF e
    <3>4. CASE k = Networks
      <4>1. e = Radio!Done(e.scan)
        BY <3>3, <3>4 DEF Radio!Done
      <4>2. host'.results = Found(s, k + 1)
        BY <1>5, <2>2, <3>0, <3>1, <3>4, <4>1, RestIs
      <4>3. (host'.done <=> k + 1 > Networks)
        BY <1>5, <3>0, <3>4, <4>1
      <4>4. QED  BY <3>2, <3>3, <4>2, <4>3 DEF Arriving
    <3>5. CASE k < Networks
      <4>1. e = [scan |-> s, of |-> k + 1] /\ e # Radio!Done(e.scan)
        BY <3>0, <3>2, <3>3, <3>5 DEF Radio!Done
      <4>2. host'.results = Found(s, k + 1)
        BY <1>5, <2>2, <3>1, <3>5, <4>1, RestIs
      <4>3. (host'.done <=> k + 1 > Networks)
        <5>1. ~(k > Networks) /\ ~(k + 1 > Networks)
          BY <3>0, <3>2, <3>5
        <5>2. QED  BY <1>5, <3>1, <4>1, <5>1
      <4>4. QED  BY <3>2, <3>3, <4>2, <4>3 DEF Arriving
    <3>6. QED  BY <3>0, <3>2, <3>4, <3>5
  <2>4. OwnScan(host', board', wire', host'.call[t])
    BY <1>1, <1>5, <2>2, <2>3 DEF OwnScan, s
  <2>5. Alone(host', t)
    BY <1>5, <2>1 DEF Alone
  <2>6. QED  BY <2>4, <2>5
<1>7. QED  BY <1>3, <1>5, <1>6 DEF ScanInv

\* scan() returns what it found, which is whole if it is to be judged by it.
LEMMA ScanReturnsKeeps ==
  ASSUME ScanInv, NEW t \in Threads, Radio!ScanReturns(t)
  PROVE  ScanInv'
<1> DEFINE c == host.call[t]
           g == IF c.upset \/ ~host.clean THEN Radio!Nothing
                ELSE [scan |-> c.scan, results |-> host.results]
<1>1. host \in RadioHosts /\ wire \in RadioWires /\ c.op = "wait" /\ host.done /\ c \in RadioCalls
      /\ UNCHANGED <<board, wire>>
  BY DEF ScanInv, Radio!ScanReturns, RadioHosts
<1>2. host' = [host EXCEPT !.call[t] = Radio!Idle, !.got[t] = g]
  BY DEF Radio!ScanReturns
<1>3. g \in [scan : Nat, results : SUBSET ScanEvents]
  BY <1>1, IdleIs DEF RadioHosts, RadioCalls
<1>4. Whole(g)
  <2> SUFFICES ASSUME ~c.upset, host.clean PROVE Whole([scan |-> c.scan, results |-> host.results])
    BY DEF Whole
  <2>1. OwnScan(host, board, wire, c)
    BY <1>1 DEF ScanInv, Owned, Scanning
  <2>2. Arriving(host, wire, c.scan) /\ c.scan \in Nat
    BY <1>1, <2>1 DEF OwnScan, NothingYet, RadioCalls
  <2>3. PICK k \in 0 .. Networks + 1 : host.results = Found(c.scan, k) /\ (host.done <=> k > Networks)
    BY <2>2 DEF Arriving
  <2>4. Networks \in Nat /\ k = Networks + 1
    BY <1>1, <2>3, Bounds
  <2>5. host.results = {[scan |-> c.scan, of |-> n] : n \in 1 .. Networks}
    BY <2>2, <2>3, <2>4, RestIs
  <2>6. QED  BY <2>5 DEF Whole
<1> HIDE DEF g
<1>5. /\ host' \in RadioHosts /\ host'.results = host.results /\ host'.done = host.done
      /\ host'.clean = host.clean
      /\ \A u \in Threads : /\ host'.call[u] = IF u = t THEN Radio!Idle ELSE host.call[u]
                            /\ host'.got[u] = IF u = t THEN g ELSE host.got[u]
  <2>1. /\ [host.call EXCEPT ![t] = Radio!Idle] \in [Threads -> RadioCalls]
        /\ [host.got EXCEPT ![t] = g] \in [Threads -> [scan : Nat, results : SUBSET ScanEvents]]
    BY <1>1, <1>3, IdleIs DEF RadioHosts
  <2>2. /\ host' \in RadioHosts /\ host'.results = host.results /\ host'.done = host.done
        /\ host'.clean = host.clean
        /\ host'.call = [host.call EXCEPT ![t] = Radio!Idle] /\ host'.got = [host.got EXCEPT ![t] = g]
    BY <1>1, <1>2, <2>1 DEF RadioHosts
  <2>3. QED  BY <1>1, <2>2 DEF RadioHosts
<1>6. Owned(host', board', wire')
  <2>1. \A u \in Threads : host'.call[u] = host.call[u] \/ ~Scanning(host'.call[u])
    BY <1>5, IdleIs
  <2>2. QED  BY <1>1, <1>5, <2>1, OwnedStays DEF ScanInv
<1>7. \A u \in Threads : Whole(host'.got[u])
  BY <1>4, <1>5 DEF ScanInv
<1>8. QED  BY <1>1, <1>5, <1>6, <1>7 DEF ScanInv

\* Calls that come or go without a scan: a timeout, and radio_off().
LEMMA OffKeeps ==
  ASSUME ScanInv, board \in RadioBoards, NEW t \in Threads,
         Radio!ScanTimeout(t) \/ Radio!OffCall(t) \/ Radio!OffStep(t)
  PROVE  ScanInv'
<1>1. host \in RadioHosts /\ wire \in RadioWires /\ wire' = wire /\ host.call[t] \in RadioCalls
  BY DEF ScanInv, Radio!ScanTimeout, Radio!OffCall, Radio!OffStep, RadioHosts
<1>2. \E c \in RadioCalls : ~Scanning(c) /\ host' = [host EXCEPT !.call[t] = c]
  <2>1. CASE Radio!ScanTimeout(t)
    BY <2>1, IdleIs DEF Radio!ScanTimeout
  <2>2. CASE Radio!OffCall(t)
    <3> DEFINE c == [Radio!Idle EXCEPT !.op = "off", !.step = 1]
    <3>1. c \in RadioCalls /\ ~Scanning(c)
      BY DEF RadioCalls, Radio!Idle, Scanning
    <3>2. QED  BY <2>2, <3>1 DEF Radio!OffCall
  <2>3. CASE Radio!OffStep(t)
    <3> DEFINE c == [host.call[t] EXCEPT !.step = @ + 1]
    <3>1. host' = [host EXCEPT !.call[t] = Radio!Idle] \/ host' = [host EXCEPT !.call[t].step = @ + 1]
      BY <2>3 DEF Radio!OffStep
    <3>2. [host EXCEPT !.call[t].step = @ + 1] = [host EXCEPT !.call[t] = c]
      BY <1>1 DEF RadioHosts
    <3>3. c \in RadioCalls /\ c.op = host.call[t].op /\ host.call[t].op = "off"
      BY <1>1, <2>3 DEF RadioCalls, Radio!OffStep
    <3>4. ~Scanning(c)
      BY <3>3 DEF Scanning
    <3> HIDE DEF c
    <3>5. QED  BY <3>1, <3>2, <3>3, <3>4, IdleIs
  <2>4. QED  BY <2>1, <2>2, <2>3
<1>3. board'.scanning = board.scanning /\ board'.scan = board.scan
  <2>1. \/ board' = board \/ board' = Radio!Release(board, "STA") \/ board' = Radio!Release(board, "ESPNOW")
        \/ board' = [Radio!Release([board EXCEPT !.mode = @ \ {"AP"}], "AP") EXCEPT !.apFailed = FALSE]
    BY DEF Radio!ScanTimeout, Radio!OffCall, Radio!OffStep
  <2>2. {} \in SUBSET {"STA", "AP"}
    OBVIOUS
  <2>3. ASSUME NEW user PROVE Radio!Release(board, user).scanning = board.scanning /\ Radio!Release(board, user).scan = board.scan
    BY <2>2, ScanUntouched
  <2> DEFINE off == Radio!Release([board EXCEPT !.mode = @ \ {"AP"}], "AP")
  <2>4. off \in RadioBoards /\ off.scanning = board.scanning /\ off.scan = board.scan
    BY <2>2, ScanUntouched
  <2> HIDE DEF off
  <2>5. [off EXCEPT !.apFailed = FALSE].scanning = board.scanning /\ [off EXCEPT !.apFailed = FALSE].scan = board.scan
    BY <2>4 DEF RadioBoards
  <2>6. QED  BY <2>1, <2>3, <2>5 DEF off
<1>4. PICK c \in RadioCalls : ~Scanning(c) /\ host' = [host EXCEPT !.call[t] = c]
  BY <1>2
<1>5. /\ host' \in RadioHosts /\ host'.results = host.results /\ host'.done = host.done
      /\ host'.clean = host.clean /\ host'.got = host.got
      /\ \A u \in Threads : host'.call[u] = IF u = t THEN c ELSE host.call[u]
  BY <1>1, <1>4, CallChanged
<1>6. Owned(host', board', wire')
  <2>1. \A u \in Threads : host'.call[u] = host.call[u] \/ ~Scanning(host'.call[u])
    BY <1>4, <1>5
  <2>2. QED  BY <1>1, <1>3, <1>5, <2>1, OwnedStays DEF ScanInv
<1>7. QED  BY <1>1, <1>5, <1>6 DEF ScanInv

LEMMA ScanStep ==
  ASSUME ScanInv, board \in RadioBoards, [Radio!Next]_(Radio!vars)
  PROVE  ScanInv'
<1>1. ASSUME UNCHANGED Radio!vars PROVE ScanInv'
  BY <1>1 DEF Radio!vars, ScanInv
<1>2. QED
  BY <1>1, OwnersKeepScan, ScanCallKeeps, ScanKeeps, ScanEndsKeeps, DeliverKeeps, ScanReturnsKeeps,
     OffKeeps DEF Radio!Next

LEMMA RadioInit ==
  ASSUME Radio!Init
  PROVE  RadioInv
<1>1. board \in RadioBoards /\ board.users = {} /\ board.mode = {}
  BY DEF Radio!Init, RadioBoards
<1>2. QED  BY <1>1 DEF RadioInv, RadioSound, Served

\* What the radio serves is up, and a scan is of its own networks, whatever the order of
\* the requests, the events and the timeouts (radio_release, esp/mod_wifi.cpp, WiFi.scan).
THEOREM RadioStaysOwned == BoardSpec => []RadioHasOwners
<1> DEFINE Inv == part = "radio" => RadioInv /\ ScanInv
<1>1. BoardInit => Inv
  BY RadioInit, ScanInit DEF BoardInit
<1>2. Inv /\ [BoardNext]_Parted => Inv'
  <2> SUFFICES ASSUME part = "radio" => RadioInv /\ ScanInv, [BoardNext]_Parted, part' = "radio"
               PROVE  RadioInv' /\ ScanInv'
    OBVIOUS
  <2>1. part = "radio" /\ [Radio!Next]_(Radio!vars)
    BY DEF BoardNext, Parted, Radio!vars
  <2>2. RadioInv /\ ScanInv
    BY <2>1
  <2>3. board \in RadioBoards
    BY <2>2 DEF RadioInv, RadioSound
  <2>4. RadioInv'
    BY <2>1, <2>2, RadioStep
  <2>5. ScanInv'
    BY <2>1, <2>2, <2>3, ScanStep
  <2>6. QED  BY <2>4, <2>5
<1>3. Inv => RadioHasOwners
  BY RadioMeans, ScanMeans DEF RadioHasOwners, RadioInv
<1>4. QED  BY <1>1, <1>2, <1>3, PTL DEF BoardSpec

-----------------------------------------------------------------------------
(* The watch rules *)

WatchCalls ==
  [op : {"none", "add", "remove", "clear"},
   at : {"idle", "register", "sent", "done", "ok", "err"},
   id : Ids \cup {0}, gen : Nat, seq : Nat]
WatchHosts ==
  [ids : SUBSET Ids, cbs : [Ids -> SUBSET Nat], told : [Watch!Gens -> {0, 1, Watch!Unknown}],
   gen : 0 .. Adds, seq : Nat, call : [Threads -> WatchCalls], returned : SUBSET Nat,
   upset : SUBSET Ids, foreign : BOOLEAN]
WatchRule == [id : Ids, gen : Watch!Gens, state : {0, 1}, primed : BOOLEAN]
WatchBoards == [rules : SUBSET WatchRule, value : Values \cup {0}]
Reply == [kind : {"reply"}, thread : Threads, seq : Nat, at : {"ok", "err"}]
Report == [kind : {"event"}, id : Ids, gen : Watch!Gens, state : {0, 1}]
WatchWires == [queue : Seq(Reply \cup Report), dropped : BOOLEAN, faults : Nat]

\* The places of the queue where a rule with the id reports, and where the call numbered s
\* of thread t is answered.
Reports(w, i) ==
  {k \in 1 .. Len(w.queue) : w.queue[k].kind = "event" /\ w.queue[k].id = i}
Answers(w, t, s) ==
  {k \in 1 .. Len(w.queue) :
     w.queue[k].kind = "reply" /\ w.queue[k].thread = t /\ w.queue[k].seq = s}

\* No rule was armed by add() number g.
Unmade(b, w, g) ==
  /\ \A r \in b.rules : r.gen # g
  /\ \A k \in 1 .. Len(w.queue) : w.queue[k].kind = "event" => w.queue[k].gen # g

\* Numbers were given before they are used, and one belongs to one call.
Numbers(h, b, w) ==
  /\ \A t \in Threads : h.call[t].op = "none" <=> h.call[t] = Watch!Idle
  /\ \A t \in Threads : h.call[t].op # "none" => h.call[t].seq \in 1 .. h.seq
  /\ \A t, u \in Threads :
       h.call[t].op = "add" /\ h.call[u].op = "add" /\ t # u => h.call[t].gen # h.call[u].gen
  /\ \A k \in 1 .. Len(w.queue) :
       /\ w.queue[k].kind = "reply" => w.queue[k].seq \in 1 .. h.seq
       /\ w.queue[k].kind = "event" => w.queue[k].gen <= h.gen
  /\ \A t \in Threads, s \in Nat : \A j, k \in Answers(w, t, s) : j = k
  /\ \A i \in Ids : \A g \in h.cbs[i] : g <= h.gen
  /\ \A r \in b.rules : r.gen <= h.gen
  /\ \A g \in h.returned : g <= h.gen

\* The board dropped the rule with the id, and what it reported comes before the answer to
\* call c of thread t.
Gone(b, w, i, t, c) ==
  /\ c.at \in {"done", "ok"} => \A r \in b.rules : r.id # i
  /\ c.at = "ok" => Reports(w, i) = {}
  /\ \A k \in Answers(w, t, c.seq), j \in Reports(w, i) : j < k

AddOK(h, b, w, t) ==
  LET c == h.call[t] IN
  c.op = "add" =>
    /\ c.at \in {"register", "sent", "done", "ok", "err"}
    /\ c.id \in Ids /\ c.gen \in Watch!Gens /\ c.gen <= h.gen /\ c.gen \notin h.returned
    /\ \A j \in Ids : c.gen \in h.cbs[j] => j = c.id /\ c.at # "register"
    /\ c.at \in {"register", "sent", "err"} => Unmade(b, w, c.gen)
    /\ \A k \in Answers(w, t, c.seq) : w.queue[k].at = "err" => Unmade(b, w, c.gen)
    /\ c.at # "register" /\ c.id \notin h.upset => h.cbs[c.id] = {c.gen}
RemoveOK(h, b, w, t) ==
  LET c == h.call[t] IN
  c.op = "remove" =>
    /\ c.at \in {"sent", "done", "ok"} /\ c.id \in Ids
    /\ \A k \in Answers(w, t, c.seq) : w.queue[k].at = "ok"
    /\ c.id \notin h.upset => h.cbs[c.id] \cap h.returned # {} /\ Gone(b, w, c.id, t, c)
ClearOK(h, b, w, t) ==
  LET c == h.call[t] IN
  c.op = "clear" =>
    /\ c.at \in {"sent", "done", "ok"}
    /\ \A k \in Answers(w, t, c.seq) : w.queue[k].at = "ok"
    /\ \A i \in Ids \ h.upset : /\ \A u \in Threads \ {t} : h.call[u].op = "none"
                                /\ Gone(b, w, i, t, c)
Unanswered(h, w, t) == h.call[t].at # "done" => Answers(w, t, h.call[t].seq) = {}
CallOK(h, b, w, t) ==
  /\ Unanswered(h, w, t)
  /\ AddOK(h, b, w, t) /\ RemoveOK(h, b, w, t) /\ ClearOK(h, b, w, t)

\* A rule of the board, and one that has something on its way, has its one callback.
Listening(h, b, w) ==
  /\ \A i \in Ids : h.cbs[i] # {} <=> i \in h.ids
  /\ \A r \in b.rules : \A i \in Ids : r.gen \in h.cbs[i] => i = r.id
  /\ \A r, s \in b.rules : r.id = s.id => r = s
  /\ \A r \in b.rules : r.id \notin h.upset => h.cbs[r.id] = {r.gen}
  /\ \A i \in Ids \ h.upset : \A k \in Reports(w, i) : h.cbs[i] = {w.queue[k].gen}

\* The last word the callback of rule r will have heard is the state the rule is in.
Settled(h, w, r) ==
  \/ Reports(w, r.id) = {} /\ h.told[r.gen] = r.state
  \/ \E k \in Reports(w, r.id) :
       w.queue[k].state = r.state /\ \A j \in Reports(w, r.id) : j <= k
Told(h, b, w) ==
  ~w.dropped => \A r \in b.rules : r.primed /\ r.id \notin h.upset => Settled(h, w, r)

WatchTyped(h, b, w) == h \in WatchHosts /\ b \in WatchBoards /\ w \in WatchWires
WatchSound(h, b, w) ==
  /\ WatchTyped(h, b, w) /\ Numbers(h, b, w) /\ \A t \in Threads : CallOK(h, b, w, t)
  /\ Listening(h, b, w) /\ Told(h, b, w) /\ ~h.foreign
WatchInv == WatchSound(host, board, wire)

LEMMA WatchMeans == WatchInv => Watch!RuleHasItsListener /\ Watch!CallbackKnowsState
<1> SUFFICES ASSUME WatchInv PROVE Watch!RuleHasItsListener /\ Watch!CallbackKnowsState
  OBVIOUS
<1>1. Watch!RuleHasItsListener
  BY DEF WatchInv, WatchSound, Listening, Watch!RuleHasItsListener
<1>2. ASSUME wire.queue = <<>>, ~wire.dropped, NEW r \in board.rules, r.primed,
             r.id \notin host.upset
      PROVE  host.told[r.gen] = r.state
  <2>1. Settled(host, wire, r)
    BY <1>2 DEF WatchInv, WatchSound, Told
  <2>2. Reports(wire, r.id) = {}
    BY <1>2 DEF Reports
  <2>3. QED  BY <2>1, <2>2 DEF Settled
<1>3. QED  BY <1>1, <1>2 DEF Watch!CallbackKnowsState

LEMMA WatchInit ==
  ASSUME Watch!Init
  PROVE  WatchInv
<1>1. WatchTyped(host, board, wire)
  <2>1. host \in WatchHosts
    BY Bounds DEF Watch!Init, WatchHosts, WatchCalls, Watch!Idle, Watch!Unknown, Watch!Gens
  <2>2. board \in WatchBoards
    BY DEF Watch!Init, WatchBoards
  <2>3. wire \in WatchWires
    BY Bounds DEF Watch!Init, WatchWires
  <2>4. QED  BY <2>1, <2>2, <2>3 DEF WatchTyped
<1>2. /\ Len(wire.queue) = 0 /\ board.rules = {} /\ ~host.foreign /\ host.ids = {}
      /\ host.returned = {}
      /\ \A i \in Ids : host.cbs[i] = {}
      /\ \A t \in Threads : host.call[t] = Watch!Idle
  BY DEF Watch!Init
<1>3. /\ \A t \in Threads, s \in Nat : Answers(wire, t, s) = {}
      /\ \A i \in Ids : Reports(wire, i) = {}
  BY <1>2 DEF Answers, Reports
<1>4. Numbers(host, board, wire)
  BY <1>2, <1>3 DEF Numbers, Watch!Idle
<1>5. ASSUME NEW t \in Threads PROVE CallOK(host, board, wire, t)
  <2>1. host.call[t].op = "none" /\ host.call[t].seq = 0
    BY <1>2 DEF Watch!Idle
  <2>2. QED  BY <1>3, <2>1 DEF CallOK, Unanswered, AddOK, RemoveOK, ClearOK
<1>6. Listening(host, board, wire) /\ Told(host, board, wire)
  BY <1>2, <1>3 DEF Listening, Told
<1>7. QED  BY <1>1, <1>2, <1>4, <1>5, <1>6 DEF WatchInv, WatchSound

\* What Call and Begin leave alone.
LEMMA CallIs ==
  ASSUME host \in WatchHosts, NEW t \in Threads, NEW c \in WatchCalls
  PROVE  LET h == Watch!Call(t, c)
         IN  /\ h \in WatchHosts /\ h.call[t] = c /\ h.ids = host.ids /\ h.cbs = host.cbs
             /\ h.told = host.told /\ h.gen = host.gen /\ h.seq = host.seq
             /\ h.returned = host.returned /\ h.foreign = host.foreign
             /\ \A u \in Threads \ {t} : h.call[u] = host.call[u]
             /\ host.upset \subseteq h.upset /\ h.upset \subseteq Ids
             /\ c # Watch!Idle /\ (\E u \in Threads \ {t} : host.call[u].op = "clear")
                  => h.upset = Ids
             /\ c.op = "clear" /\ (\E u \in Threads \ {t} : host.call[u].op # "none")
                  => h.upset = Ids
<1> DEFINE others == {host.call[u].op : u \in Threads \ {t}}
           mixed == \/ "clear" \in others /\ c # Watch!Idle
                    \/ c.op = "clear" /\ others \ {"none"} # {}
           more == host.upset \cup (IF mixed THEN Ids ELSE {})
<1>1. /\ more \in SUBSET Ids /\ host.upset \subseteq more
      /\ c # Watch!Idle /\ (\E u \in Threads \ {t} : host.call[u].op = "clear") => more = Ids
      /\ c.op = "clear" /\ (\E u \in Threads \ {t} : host.call[u].op # "none") => more = Ids
  BY DEF WatchHosts
<1> DEFINE calls == [host.call EXCEPT ![t] = c]
<1>2. Watch!Call(t, c) = [host EXCEPT !.call = calls, !.upset = more]
  BY DEF Watch!Call, WatchHosts
<1>3. /\ calls \in [Threads -> WatchCalls] /\ calls[t] = c
      /\ \A u \in Threads \ {t} : calls[u] = host.call[u]
  BY DEF WatchHosts
<1> HIDE DEF more, calls
<1>4. /\ Watch!Call(t, c) \in WatchHosts
      /\ LET h == Watch!Call(t, c)
         IN  /\ h.call = calls /\ h.ids = host.ids /\ h.cbs = host.cbs /\ h.upset = more
             /\ h.told = host.told /\ h.gen = host.gen /\ h.seq = host.seq
             /\ h.returned = host.returned /\ h.foreign = host.foreign
  BY <1>1, <1>2, <1>3 DEF WatchHosts
<1>5. QED  BY <1>1, <1>3, <1>4

\* A step of the host for thread t that leaves the board and the queue alone.
HostStep(t) ==
  /\ WatchTyped(host, board, wire)'
  /\ \A u \in Threads \ {t} : host'.call[u] = host.call[u]
  /\ host.upset \subseteq host'.upset /\ host'.told = host.told
  /\ host.gen <= host'.gen /\ host.seq <= host'.seq /\ host'.foreign = host.foreign
  /\ board' = board /\ wire'.queue = wire.queue /\ wire'.dropped = wire.dropped
  /\ host'.call[t].op # "none" /\ (\E u \in Threads \ {t} : host.call[u].op = "clear")
       => host'.upset = Ids

LEMMA QueueSame ==
  ASSUME wire'.queue = wire.queue
  PROVE  /\ \A i \in Ids : Reports(wire', i) = Reports(wire, i)
         /\ \A t \in Threads, s \in Nat : Answers(wire', t, s) = Answers(wire, t, s)
         /\ board' = board => \A g \in Nat : Unmade(board', wire', g) <=> Unmade(board, wire, g)
  BY DEF Reports, Answers, Unmade

\* It keeps what holds of another thread's call, if that one's callback stays.
LEMMA OthersKeep ==
  ASSUME WatchInv, NEW t \in Threads, HostStep(t), NEW u \in Threads \ {t},
         host.call[u].op = "add" =>
           /\ host.call[u].gen \notin host'.returned
           /\ \A j \in Ids : host.call[u].gen \in host'.cbs[j] => host.call[u].gen \in host.cbs[j]
           /\ host.call[u].at # "register" /\ host.call[u].id \notin host'.upset
                => host'.cbs[host.call[u].id] = host.cbs[host.call[u].id],
         host.call[u].op = "remove" /\ host.call[u].id \notin host'.upset
           => host'.cbs[host.call[u].id] \cap host'.returned # {}
  PROVE  CallOK(host', board', wire', u)
<1> DEFINE c == host.call[u]
<1>1. /\ host'.call[u] = c /\ c.seq \in Nat /\ c.gen \in Nat /\ CallOK(host, board, wire, u)
      /\ host.upset \subseteq host'.upset /\ host.gen <= host'.gen /\ board' = board
      /\ wire'.queue = wire.queue
      /\ host.gen \in Nat /\ host'.gen \in Nat
  BY DEF WatchInv, WatchSound, WatchTyped, WatchHosts, WatchCalls, HostStep
<1>2. /\ \A i \in Ids : Reports(wire', i) = Reports(wire, i)
      /\ Answers(wire', u, c.seq) = Answers(wire, u, c.seq)
      /\ Unmade(board', wire', c.gen) <=> Unmade(board, wire, c.gen)
  BY <1>1, QueueSame
<1>3. \A i \in Ids : Gone(board', wire', i, u, c) <=> Gone(board, wire, i, u, c)
  BY <1>1, <1>2 DEF Gone
<1>4. Unanswered(host', wire', u)
  BY <1>1, <1>2 DEF CallOK, Unanswered
<1>5. AddOK(host', board', wire', u)
  BY <1>1, <1>2 DEF CallOK, AddOK
<1>6. RemoveOK(host', board', wire', u)
  BY <1>1, <1>2, <1>3 DEF CallOK, RemoveOK
<1>7. ClearOK(host', board', wire', u)
  <2> SUFFICES ASSUME c.op = "clear"
               PROVE  ClearOK(host', board', wire', u)
    BY <1>1 DEF ClearOK
  <2>1. ASSUME NEW i \in Ids \ host'.upset, NEW v \in Threads \ {u}
        PROVE  host'.call[v].op = "none"
    <3>1. CASE v = t
      BY <2>1, <3>1 DEF HostStep
    <3>2. CASE v # t
      <4>1. host.call[v].op = "none"
        BY <1>1, <2>1 DEF CallOK, ClearOK
      <4>2. QED  BY <3>2, <4>1 DEF HostStep
    <3>3. QED  BY <3>1, <3>2
  <2>2. QED  BY <1>1, <1>2, <1>3, <2>1 DEF CallOK, ClearOK
<1>8. QED  BY <1>4, <1>5, <1>6, <1>7 DEF CallOK

LEMMA ToldKeeps ==
  ASSUME WatchInv, NEW t \in Threads, HostStep(t)
  PROVE  Told(host', board', wire') /\ ~host'.foreign
<1>1. \A i \in Ids : Reports(wire', i) = Reports(wire, i)
  BY QueueSame DEF HostStep
<1>2. \A r \in board.rules : r.id \in Ids
  BY DEF WatchInv, WatchSound, WatchTyped, WatchBoards, WatchRule
<1>3. QED
  BY <1>1, <1>2 DEF WatchInv, WatchSound, Told, Settled, HostStep

\* A new call has a number nobody used.
LEMMA BeginIs ==
  ASSUME WatchInv, NEW t \in Threads, NEW op \in {"add", "remove", "clear"},
         NEW id \in Ids \cup {0}, NEW gen \in Nat
  PROVE  LET h == Watch!Begin(t, op, id, gen)
             c == [op |-> op, at |-> IF op = "add" THEN "register" ELSE "sent", id |-> id,
                   gen |-> gen, seq |-> host.seq + 1]
         IN  /\ h \in WatchHosts /\ h.call[t] = c /\ h.ids = host.ids /\ h.cbs = host.cbs
             /\ h.told = host.told /\ h.gen = host.gen /\ h.seq = host.seq + 1
             /\ h.returned = host.returned /\ h.foreign = host.foreign
             /\ \A u \in Threads \ {t} : h.call[u] = host.call[u]
             /\ host.upset \subseteq h.upset /\ h.upset \subseteq Ids
             /\ (\E u \in Threads \ {t} : host.call[u].op = "clear") => h.upset = Ids
             /\ op = "clear" /\ (\E u \in Threads \ {t} : host.call[u].op # "none")
                  => h.upset = Ids
             /\ Answers(wire, t, host.seq + 1) = {}
<1> DEFINE c == [op |-> op, at |-> IF op = "add" THEN "register" ELSE "sent", id |-> id,
                 gen |-> gen, seq |-> host.seq + 1]
           g == Watch!Call(t, c)
<1>1. host \in WatchHosts /\ host.seq \in Nat
  BY DEF WatchInv, WatchSound, WatchTyped, WatchHosts
<1>2. c \in WatchCalls /\ c.op = op /\ c # Watch!Idle
  BY <1>1 DEF WatchCalls, Watch!Idle
<1>3. Watch!Begin(t, op, id, gen) = [g EXCEPT !.seq = @ + 1]
  BY DEF Watch!Begin
<1>4. Answers(wire, t, host.seq + 1) = {}
  BY <1>1 DEF WatchInv, WatchSound, Numbers, Answers
<1> HIDE DEF c
<1>5. /\ g \in WatchHosts /\ g.call[t] = c /\ g.ids = host.ids /\ g.cbs = host.cbs
      /\ g.told = host.told /\ g.gen = host.gen /\ g.seq = host.seq
      /\ g.returned = host.returned /\ g.foreign = host.foreign
      /\ \A u \in Threads \ {t} : g.call[u] = host.call[u]
      /\ host.upset \subseteq g.upset /\ g.upset \subseteq Ids
      /\ (\E u \in Threads \ {t} : host.call[u].op = "clear") => g.upset = Ids
      /\ op = "clear" /\ (\E u \in Threads \ {t} : host.call[u].op # "none") => g.upset = Ids
  BY <1>1, <1>2, CallIs
<1> HIDE DEF g
<1> DEFINE h == [g EXCEPT !.seq = @ + 1]
<1>6. /\ h \in WatchHosts /\ h.call = g.call /\ h.ids = g.ids /\ h.cbs = g.cbs
      /\ h.told = g.told /\ h.gen = g.gen /\ h.seq = host.seq + 1
      /\ h.returned = g.returned /\ h.foreign = g.foreign /\ h.upset = g.upset
  BY <1>1, <1>5 DEF WatchHosts
<1>7. Watch!Begin(t, op, id, gen) = h
  BY <1>3
<1> HIDE DEF h
<1>8. QED  BY <1>4, <1>5, <1>6, <1>7 DEF c

LEMMA NumbersKeep ==
  ASSUME WatchInv, NEW t \in Threads, HostStep(t),
         host'.call[t].op = "none" <=> host'.call[t] = Watch!Idle,
         host'.call[t].op # "none" => host'.call[t].seq \in 1 .. host'.seq,
         \A u \in Threads \ {t} :
           host'.call[t].op = "add" /\ host.call[u].op = "add"
             => host'.call[t].gen # host.call[u].gen,
         \A i \in Ids : \A g \in host'.cbs[i] : g <= host'.gen,
         \A g \in host'.returned : g <= host'.gen
  PROVE  Numbers(host', board', wire')
<1>1. /\ host.seq \in Nat /\ host.gen \in Nat /\ host'.seq \in Nat /\ host'.gen \in Nat
      /\ host.seq <= host'.seq /\ host.gen <= host'.gen /\ Numbers(host, board, wire)
      /\ wire'.queue = wire.queue /\ board' = board
      /\ \A u \in Threads \ {t} : host'.call[u] = host.call[u]
      /\ \A u \in Threads : host.call[u].seq \in Nat
      /\ \A r \in board.rules : r.gen \in Nat
      /\ \A k \in 1 .. Len(wire.queue) :
           /\ wire.queue[k].kind = "reply" => wire.queue[k].seq \in Nat
           /\ wire.queue[k].kind = "event" => wire.queue[k].gen \in Nat
  <2>1. WatchTyped(host, board, wire) /\ Numbers(host, board, wire) /\ host' \in WatchHosts
    BY DEF WatchInv, WatchSound, HostStep, WatchTyped
  <2>2. /\ \A u \in Threads : host.call[u].seq \in Nat
        /\ host.seq \in Nat /\ host.gen \in Nat /\ host'.seq \in Nat /\ host'.gen \in Nat
    BY <2>1 DEF WatchTyped, WatchHosts, WatchCalls
  <2>3. \A r \in board.rules : r.gen \in Nat
    BY <2>1 DEF WatchTyped, WatchBoards, WatchRule, Watch!Gens
  <2>4. ASSUME NEW k \in 1 .. Len(wire.queue)
        PROVE  /\ wire.queue[k].kind = "reply" => wire.queue[k].seq \in Nat
               /\ wire.queue[k].kind = "event" => wire.queue[k].gen \in Nat
    <3>1. wire.queue[k] \in Reply \cup Report
      BY <2>1 DEF WatchTyped, WatchWires
    <3>2. QED  BY <3>1 DEF Reply, Report, Watch!Gens
  <2>5. QED  BY <2>1, <2>2, <2>3, <2>4 DEF HostStep
<1>2. /\ \A i \in Ids : Reports(wire', i) = Reports(wire, i)
      /\ \A u \in Threads, s \in Nat : Answers(wire', u, s) = Answers(wire, u, s)
  BY <1>1, QueueSame
<1>3. \A u \in Threads : host'.call[u].op = "none" <=> host'.call[u] = Watch!Idle
  BY <1>1 DEF Numbers
<1>4. \A u \in Threads : host'.call[u].op # "none" => host'.call[u].seq \in 1 .. host'.seq
  BY <1>1 DEF Numbers
<1>5. \A v, u \in Threads :
        host'.call[v].op = "add" /\ host'.call[u].op = "add" /\ v # u
          => host'.call[v].gen # host'.call[u].gen
  BY <1>1 DEF Numbers
<1>6. \A k \in 1 .. Len(wire'.queue) :
        /\ wire'.queue[k].kind = "reply" => wire'.queue[k].seq \in 1 .. host'.seq
        /\ wire'.queue[k].kind = "event" => wire'.queue[k].gen <= host'.gen
  BY <1>1 DEF Numbers
<1>7. \A r \in board'.rules : r.gen <= host'.gen
  BY <1>1 DEF Numbers
<1>8. QED
  BY <1>1, <1>2, <1>3, <1>4, <1>5, <1>6, <1>7 DEF Numbers

\* Starting a call that is not an add().
LEMMA BeginKeeps ==
  ASSUME WatchInv, NEW t \in Threads, NEW op \in {"remove", "clear"}, NEW id \in Ids \cup {0},
         host.call[t] = Watch!Idle,
         op = "remove" => id \in Ids /\ host.cbs[id] \cap host.returned # {},
         host' = Watch!Begin(t, op, id, 0), UNCHANGED <<board, wire>>
  PROVE  WatchInv'
<1> DEFINE c == [op |-> op, at |-> "sent", id |-> id, gen |-> 0, seq |-> host.seq + 1]
<1>1. /\ host' \in WatchHosts /\ host'.call[t] = c /\ host'.ids = host.ids
      /\ host'.cbs = host.cbs /\ host'.told = host.told /\ host'.gen = host.gen
      /\ host'.seq = host.seq + 1
      /\ host'.returned = host.returned /\ host'.foreign = host.foreign
      /\ \A u \in Threads \ {t} : host'.call[u] = host.call[u]
      /\ host.upset \subseteq host'.upset /\ host'.upset \subseteq Ids
      /\ (\E u \in Threads \ {t} : host.call[u].op = "clear") => host'.upset = Ids
      /\ op = "clear" /\ (\E u \in Threads \ {t} : host.call[u].op # "none")
           => host'.upset = Ids
      /\ Answers(wire, t, host.seq + 1) = {}
  <2>1. op \in {"add", "remove", "clear"} /\ op # "add" /\ 0 \in Nat
    OBVIOUS
  <2>2. QED  BY <2>1, BeginIs
<1>2. host.seq \in Nat /\ host.gen \in Nat /\ WatchTyped(host, board, wire)
  BY DEF WatchInv, WatchSound, WatchTyped, WatchHosts
<1>3. WatchTyped(host', board', wire')
  BY <1>1, <1>2 DEF WatchTyped
<1>4. HostStep(t)
  BY <1>1, <1>2, <1>3 DEF HostStep
<1>5. /\ \A i \in Ids : Reports(wire', i) = Reports(wire, i)
      /\ \A u \in Threads, s \in Nat : Answers(wire', u, s) = Answers(wire, u, s)
  BY QueueSame
<1>6. CallOK(host', board', wire', t)
  <2>1. host'.call[t].op = op /\ host'.call[t].at = "sent" /\ host'.call[t].id = id
        /\ Answers(wire', t, host'.call[t].seq) = {}
    BY <1>1, <1>2, <1>5
  <2>2. \A i \in Ids : Gone(board', wire', i, t, host'.call[t])
    BY <2>1 DEF Gone
  <2>3. Unanswered(host', wire', t) /\ AddOK(host', board', wire', t)
    BY <2>1 DEF Unanswered, AddOK
  <2>4. RemoveOK(host', board', wire', t)
    BY <1>1, <2>1, <2>2 DEF RemoveOK
  <2>5. ClearOK(host', board', wire', t)
    BY <1>1, <2>1, <2>2 DEF ClearOK
  <2>6. QED  BY <2>3, <2>4, <2>5 DEF CallOK
<1>7. ASSUME NEW u \in Threads \ {t} PROVE CallOK(host', board', wire', u)
  <2>1. CallOK(host, board, wire, u)
    BY DEF WatchInv, WatchSound
  <2>2. QED
    BY <1>1, <1>4, <2>1, OthersKeep DEF CallOK, AddOK, RemoveOK
<1>8. Numbers(host', board', wire')
  <2>1. host'.call[t].op # "none" /\ host'.call[t] # Watch!Idle /\ host'.call[t].op # "add"
        /\ host'.call[t].seq \in 1 .. host'.seq
    BY <1>1, <1>2 DEF Watch!Idle
  <2>2. QED
    BY <1>1, <1>4, <2>1, NumbersKeep DEF WatchInv, WatchSound, Numbers
<1>9. Listening(host', board', wire')
  BY <1>1, <1>5 DEF WatchInv, WatchSound, Listening
<1>10. QED
  BY <1>3, <1>4, <1>6, <1>7, <1>8, <1>9, ToldKeeps DEF WatchInv, WatchSound

\* Nothing answers a thread that calls nothing.
LEMMA IdleIsOK ==
  ASSUME WatchInv, NEW t \in Threads, HostStep(t), host'.call[t] = Watch!Idle
  PROVE  CallOK(host', board', wire', t)
<1>1. host'.call[t].op = "none" /\ host'.call[t].seq = 0 /\ 0 \in Nat /\ host.seq \in Nat
  BY DEF Watch!Idle, WatchInv, WatchSound, WatchTyped, WatchHosts
<1>2. Answers(wire, t, 0) = {}
  BY <1>1 DEF WatchInv, WatchSound, Numbers, Answers
<1>3. Answers(wire', t, 0) = {}
  BY <1>1, <1>2, QueueSame DEF HostStep
<1>4. QED  BY <1>1, <1>3 DEF CallOK, Unanswered, AddOK, RemoveOK, ClearOK

LEMMA AddAllocKeeps ==
  ASSUME WatchInv, NEW t \in Threads, NEW id \in Ids, NEW own \in BOOLEAN,
         Watch!AddAlloc(t, id, own)
  PROVE  WatchInv'
<1> DEFINE c == [op |-> "add", at |-> "register", id |-> id, gen |-> host.gen + 1,
                 seq |-> host.seq + 1]
           g == Watch!Begin(t, "add", id, host.gen + 1)
           reused == IF own /\ id \in host.ids THEN {id} ELSE {}
<1>1. host \in WatchHosts /\ host.seq \in Nat /\ host.gen \in 0 .. Adds /\ host.gen + 1 \in Nat
      /\ WatchTyped(host, board, wire) /\ Numbers(host, board, wire)
      /\ host.gen + 1 \in 0 .. Adds /\ host.gen + 1 \in Watch!Gens
  <2>1. /\ host \in WatchHosts /\ host.seq \in Nat /\ host.gen \in 0 .. Adds
        /\ WatchTyped(host, board, wire) /\ Numbers(host, board, wire)
    BY DEF WatchInv, WatchSound, WatchTyped, WatchHosts
  <2>2. host.gen < Adds
    BY DEF Watch!AddAlloc
  <2>3. QED  BY <2>1, <2>2, Bounds DEF Watch!Gens
<1>2. /\ g \in WatchHosts /\ g.call[t] = c /\ g.ids = host.ids
      /\ g.cbs = host.cbs /\ g.told = host.told /\ g.gen = host.gen
      /\ g.seq = host.seq + 1
      /\ g.returned = host.returned /\ g.foreign = host.foreign
      /\ \A u \in Threads \ {t} : g.call[u] = host.call[u]
      /\ host.upset \subseteq g.upset /\ g.upset \subseteq Ids
      /\ (\E u \in Threads \ {t} : host.call[u].op = "clear") => g.upset = Ids
      /\ Answers(wire, t, host.seq + 1) = {}
  BY <1>1, BeginIs
<1>3. reused \subseteq Ids /\ board' = board /\ wire' = wire
      /\ host' = [g EXCEPT !.gen = @ + 1, !.upset = @ \cup reused]
  BY DEF Watch!AddAlloc
<1> HIDE DEF g, reused
<1>4. /\ host' \in WatchHosts /\ host'.call = g.call /\ host'.ids = host.ids
      /\ host'.cbs = host.cbs /\ host'.told = host.told /\ host'.gen = host.gen + 1
      /\ host'.seq = host.seq + 1
      /\ host'.returned = host.returned /\ host'.foreign = host.foreign
      /\ host'.upset = g.upset \cup reused
  BY <1>1, <1>2, <1>3 DEF WatchHosts
<1>5. /\ host'.call[t] = c /\ \A u \in Threads \ {t} : host'.call[u] = host.call[u]
      /\ host.upset \subseteq host'.upset
      /\ (\E u \in Threads \ {t} : host.call[u].op = "clear") => host'.upset = Ids
  BY <1>2, <1>3, <1>4
<1>6. WatchTyped(host', board', wire')
  BY <1>1, <1>3, <1>4 DEF WatchTyped
<1>7. HostStep(t)
  BY <1>1, <1>3, <1>4, <1>5, <1>6 DEF HostStep
<1>8. /\ \A i \in Ids : Reports(wire', i) = Reports(wire, i)
      /\ Answers(wire', t, host.seq + 1) = {}
  BY <1>1, <1>2, <1>3, QueueSame
<1>9. Unmade(board', wire', host.gen + 1)
  <2>1. \A r \in board.rules : r.gen # host.gen + 1
    <3>1. \A r \in board.rules : r.gen \in Nat
      BY <1>1 DEF WatchTyped, WatchBoards, WatchRule, Watch!Gens
    <3>2. QED  BY <1>1, <3>1 DEF Numbers
  <2>2. ASSUME NEW k \in 1 .. Len(wire.queue), wire.queue[k].kind = "event"
        PROVE  wire.queue[k].gen # host.gen + 1
    <3>1. wire.queue[k] \in Reply \cup Report
      BY <1>1 DEF WatchTyped, WatchWires
    <3>2. wire.queue[k].gen \in Nat
      BY <2>2, <3>1 DEF Reply, Report, Watch!Gens
    <3>3. QED  BY <1>1, <2>2, <3>2 DEF Numbers
  <2>3. QED  BY <1>3, <2>1, <2>2 DEF Unmade
<1>10. /\ host.gen + 1 \notin host.returned
       /\ \A i \in Ids : host.gen + 1 \notin host.cbs[i]
  BY <1>1 DEF Numbers, WatchHosts
<1>11. CallOK(host', board', wire', t)
  <2>1. Unanswered(host', wire', t) /\ RemoveOK(host', board', wire', t)
        /\ ClearOK(host', board', wire', t)
    BY <1>5, <1>8 DEF Unanswered, RemoveOK, ClearOK
  <2>2. AddOK(host', board', wire', t)
    BY <1>1, <1>4, <1>5, <1>8, <1>9, <1>10 DEF AddOK
  <2>3. QED  BY <2>1, <2>2 DEF CallOK
<1>12. ASSUME NEW u \in Threads \ {t} PROVE CallOK(host', board', wire', u)
  <2>1. CallOK(host, board, wire, u)
    BY DEF WatchInv, WatchSound
  <2>2. QED
    BY <1>4, <1>5, <1>7, <2>1, OthersKeep DEF CallOK, AddOK, RemoveOK
<1>13. Numbers(host', board', wire')
  <2>1. host'.call[t].op # "none" /\ host'.call[t] # Watch!Idle
        /\ host'.call[t].seq \in 1 .. host'.seq
    BY <1>1, <1>4, <1>5 DEF Watch!Idle
  <2>2. \A u \in Threads \ {t} : host.call[u].op = "add" => host.call[u].gen # host.gen + 1
    <3> SUFFICES ASSUME NEW u \in Threads \ {t}, host.call[u].op = "add"
                 PROVE  host.call[u].gen # host.gen + 1
      OBVIOUS
    <3>1. CallOK(host, board, wire, u)
      BY DEF WatchInv, WatchSound
    <3>2. QED  BY <1>1, <3>1 DEF CallOK, AddOK, Watch!Gens
  <2>3. /\ \A i \in Ids : \A n \in host'.cbs[i] : n <= host'.gen
        /\ \A n \in host'.returned : n <= host'.gen
    BY <1>1, <1>4 DEF Numbers, WatchHosts
  <2>4. QED
    BY <1>5, <1>7, <2>1, <2>2, <2>3, NumbersKeep
<1>14. Listening(host', board', wire')
  BY <1>3, <1>4, <1>5, <1>8 DEF WatchInv, WatchSound, Listening
<1>15. QED
  BY <1>6, <1>7, <1>11, <1>12, <1>13, <1>14, ToldKeeps DEF WatchInv, WatchSound

LEMMA AddRegisterKeeps ==
  ASSUME WatchInv, NEW t \in Threads, Watch!AddRegister(t)
  PROVE  WatchInv'
<1> DEFINE c == host.call[t]
           n == [c EXCEPT !.at = "sent"]
           g == Watch!Call(t, n)
           taken == IF c.id \in host.ids THEN {c.id} ELSE {}
           cbs == [host.cbs EXCEPT ![c.id] = @ \cup {c.gen}]
<1>1. /\ host \in WatchHosts /\ host.gen \in Nat /\ host.seq \in Nat
      /\ WatchTyped(host, board, wire) /\ Numbers(host, board, wire)
      /\ CallOK(host, board, wire, t) /\ Listening(host, board, wire)
      /\ c \in WatchCalls /\ c.op = "add" /\ c.at = "register"
  BY DEF WatchInv, WatchSound, WatchTyped, WatchHosts, Watch!AddRegister, Watch!At
<1>2. n \in WatchCalls /\ n.op = "add" /\ n.at = "sent" /\ n.id = c.id /\ n.gen = c.gen
      /\ n.seq = c.seq /\ n # Watch!Idle
  BY <1>1 DEF WatchCalls, Watch!Idle
<1>3. /\ c.id \in Ids /\ c.gen \in Watch!Gens /\ c.gen <= host.gen /\ c.gen \notin host.returned
      /\ \A j \in Ids : c.gen \notin host.cbs[j]
      /\ Unmade(board, wire, c.gen) /\ Answers(wire, t, c.seq) = {}
  BY <1>1 DEF CallOK, AddOK, Unanswered
<1> HIDE DEF n
<1>4. /\ g \in WatchHosts /\ g.call[t] = n /\ g.ids = host.ids /\ g.cbs = host.cbs
      /\ g.told = host.told /\ g.gen = host.gen /\ g.seq = host.seq
      /\ g.returned = host.returned /\ g.foreign = host.foreign
      /\ \A u \in Threads \ {t} : g.call[u] = host.call[u]
      /\ host.upset \subseteq g.upset /\ g.upset \subseteq Ids
      /\ (\E u \in Threads \ {t} : host.call[u].op = "clear") => g.upset = Ids
  BY <1>1, <1>2, CallIs
<1>5. /\ cbs \in [Ids -> SUBSET Nat] /\ taken \subseteq Ids
      /\ cbs[c.id] = host.cbs[c.id] \cup {c.gen}
      /\ \A i \in Ids \ {c.id} : cbs[i] = host.cbs[i]
      /\ host.ids \cup {c.id} \subseteq Ids
  BY <1>1, <1>3 DEF WatchHosts, WatchCalls
<1>6. /\ board' = board /\ wire' = wire
      /\ host' = [g EXCEPT !.ids = @ \cup {c.id}, !.cbs = cbs, !.upset = @ \cup taken]
  BY <1>4 DEF Watch!AddRegister, n
<1> HIDE DEF g, taken, cbs
<1>7. /\ host' \in WatchHosts /\ host'.call = g.call /\ host'.ids = host.ids \cup {c.id}
      /\ host'.cbs = cbs /\ host'.told = host.told /\ host'.gen = host.gen
      /\ host'.seq = host.seq
      /\ host'.returned = host.returned /\ host'.foreign = host.foreign
      /\ host'.upset = g.upset \cup taken
  BY <1>1, <1>4, <1>5, <1>6 DEF WatchHosts
<1>8. /\ host'.call[t] = n /\ \A u \in Threads \ {t} : host'.call[u] = host.call[u]
      /\ host.upset \subseteq host'.upset
      /\ (\E u \in Threads \ {t} : host.call[u].op = "clear") => host'.upset = Ids
      /\ c.id \in host.ids => c.id \in host'.upset
  BY <1>4, <1>5, <1>7 DEF taken
<1>9. WatchTyped(host', board', wire')
  BY <1>1, <1>6, <1>7 DEF WatchTyped
<1>10. HostStep(t)
  BY <1>1, <1>6, <1>7, <1>8, <1>9 DEF HostStep
<1>11. /\ \A i \in Ids : Reports(wire', i) = Reports(wire, i)
       /\ Answers(wire', t, c.seq) = {} /\ Unmade(board', wire', c.gen)
  BY <1>3, <1>6
<1>12. c.id \notin host'.upset => host.cbs[c.id] = {}
  BY <1>1, <1>3, <1>8 DEF Listening
<1>13. CallOK(host', board', wire', t)
  <2>1. Unanswered(host', wire', t) /\ RemoveOK(host', board', wire', t)
        /\ ClearOK(host', board', wire', t)
    BY <1>2, <1>8, <1>11 DEF Unanswered, RemoveOK, ClearOK
  <2>2. AddOK(host', board', wire', t)
    BY <1>2, <1>3, <1>5, <1>7, <1>8, <1>11, <1>12 DEF AddOK
  <2>3. QED  BY <2>1, <2>2 DEF CallOK
<1>14. ASSUME NEW u \in Threads \ {t} PROVE CallOK(host', board', wire', u)
  <2> DEFINE d == host.call[u]
  <2>1. CallOK(host, board, wire, u) /\ (d.op = "add" => d.gen # c.gen)
    BY <1>1 DEF WatchInv, WatchSound, Numbers
  <2>2. d.op = "add" =>
          /\ d.gen \notin host'.returned
          /\ \A j \in Ids : d.gen \in host'.cbs[j] => d.gen \in host.cbs[j]
          /\ d.at # "register" /\ d.id \notin host'.upset => host'.cbs[d.id] = host.cbs[d.id]
    <3>1. d.op = "add" =>
            /\ d.gen \notin host.returned /\ d.id \in Ids
            /\ d.at # "register" /\ d.id \notin host'.upset => host.cbs[d.id] = {d.gen}
      BY <1>8, <2>1 DEF CallOK, AddOK
    <3>2. QED  BY <1>5, <1>7, <1>12, <2>1, <3>1
  <2>3. d.op = "remove" /\ d.id \notin host'.upset
          => host'.cbs[d.id] \cap host'.returned # {}
    <3>1. d.op = "remove" /\ d.id \notin host'.upset
            => d.id \in Ids /\ host.cbs[d.id] \cap host.returned # {}
      BY <1>8, <2>1 DEF CallOK, RemoveOK
    <3>2. QED  BY <1>5, <1>7, <1>12, <3>1
  <2>4. QED  BY <1>10, <2>2, <2>3, OthersKeep
<1>15. Numbers(host', board', wire')
  <2>1. host'.call[t].op # "none" /\ host'.call[t] # Watch!Idle
        /\ host'.call[t].seq \in 1 .. host'.seq
    BY <1>1, <1>2, <1>7, <1>8 DEF Numbers
  <2>2. \A u \in Threads \ {t} : host.call[u].op = "add" => host.call[u].gen # c.gen
    BY <1>1 DEF Numbers
  <2>3. /\ \A i \in Ids : \A m \in host'.cbs[i] : m <= host'.gen
        /\ \A m \in host'.returned : m <= host'.gen
    BY <1>1, <1>3, <1>5, <1>7 DEF Numbers
  <2>4. QED
    BY <1>2, <1>8, <1>10, <2>1, <2>2, <2>3, NumbersKeep
<1>16. Listening(host', board', wire')
  <2>1. \A i \in Ids : host'.cbs[i] # {} <=> i \in host'.ids
    BY <1>1, <1>5, <1>7 DEF Listening
  <2>2. \A r \in board.rules : r.gen # c.gen /\ r.id \in Ids
    BY <1>1, <1>3 DEF Unmade, WatchTyped, WatchBoards, WatchRule
  <2>3. \A r \in board.rules : \A i \in Ids : r.gen \in host'.cbs[i] => i = r.id
    BY <1>1, <1>5, <1>7, <2>2 DEF Listening
  <2>4. \A r \in board.rules : r.id \notin host'.upset => host'.cbs[r.id] = {r.gen}
    BY <1>1, <1>5, <1>7, <1>8, <1>12, <2>2 DEF Listening
  <2>5. \A i \in Ids \ host'.upset : \A k \in Reports(wire, i) : host'.cbs[i] = {wire.queue[k].gen}
    <3> SUFFICES ASSUME NEW i \in Ids \ host'.upset, NEW k \in Reports(wire, i)
                 PROVE  host'.cbs[i] = {wire.queue[k].gen}
      OBVIOUS
    <3>1. host.cbs[i] = {wire.queue[k].gen}
      BY <1>1, <1>8 DEF Listening
    <3>2. i # c.id
      BY <1>12, <3>1
    <3>3. QED  BY <1>5, <1>7, <3>1, <3>2
  <2>6. QED  BY <1>1, <1>6, <2>1, <2>3, <2>4, <2>5 DEF Listening
<1>17. QED
  BY <1>9, <1>10, <1>13, <1>14, <1>15, <1>16, ToldKeeps DEF WatchInv, WatchSound

LEMMA GiveUpKeeps ==
  ASSUME WatchInv, NEW t \in Threads, Watch!GiveUp(t)
  PROVE  WatchInv'
<1>1. /\ host \in WatchHosts /\ Watch!Idle \in WatchCalls /\ host.gen \in Nat /\ host.seq \in Nat
      /\ WatchTyped(host, board, wire) /\ Numbers(host, board, wire) /\ Listening(host, board, wire)
  BY DEF WatchInv, WatchSound, WatchTyped, WatchHosts, WatchCalls, Watch!Idle
<1>2. board' = board /\ host' = Watch!Call(t, Watch!Idle)
      /\ wire' \in WatchWires /\ wire'.queue = wire.queue /\ wire'.dropped = wire.dropped
  BY <1>1 DEF Watch!GiveUp, WatchTyped, WatchWires
<1>3. /\ host' \in WatchHosts /\ host'.call[t] = Watch!Idle /\ host'.ids = host.ids
      /\ host'.cbs = host.cbs /\ host'.told = host.told /\ host'.gen = host.gen
      /\ host'.seq = host.seq
      /\ host'.returned = host.returned /\ host'.foreign = host.foreign
      /\ \A u \in Threads \ {t} : host'.call[u] = host.call[u]
      /\ host.upset \subseteq host'.upset
  BY <1>1, <1>2, CallIs
<1>4. WatchTyped(host', board', wire')
  BY <1>1, <1>2, <1>3 DEF WatchTyped
<1>5. HostStep(t)
  BY <1>1, <1>2, <1>3, <1>4 DEF HostStep, Watch!Idle
<1>6. /\ \A i \in Ids : Reports(wire', i) = Reports(wire, i)
      /\ \A u \in Threads, s \in Nat : Answers(wire', u, s) = Answers(wire, u, s)
  BY <1>2, QueueSame
<1>7. CallOK(host', board', wire', t)
  BY <1>3, <1>5, IdleIsOK
<1>8. ASSUME NEW u \in Threads \ {t} PROVE CallOK(host', board', wire', u)
  <2>1. CallOK(host, board, wire, u)
    BY DEF WatchInv, WatchSound
  <2>2. QED
    BY <1>3, <1>5, <2>1, OthersKeep DEF CallOK, AddOK, RemoveOK
<1>9. Numbers(host', board', wire')
  BY <1>1, <1>3, <1>5, NumbersKeep DEF Numbers, Watch!Idle
<1>10. Listening(host', board', wire')
  BY <1>1, <1>2, <1>3, <1>6 DEF Listening
<1>11. QED
  BY <1>4, <1>5, <1>7, <1>8, <1>9, <1>10, ToldKeeps DEF WatchInv, WatchSound

\* An add() returns.
LEMMA FinishAdd ==
  ASSUME WatchInv, NEW t \in Threads, host.call[t].op = "add", host.call[t].at = "ok",
         host' = [Watch!Call(t, Watch!Idle) EXCEPT !.returned = @ \cup {host.call[t].gen}],
         UNCHANGED <<board, wire>>
  PROVE  WatchInv'
<1> DEFINE c == host.call[t]
           g == Watch!Call(t, Watch!Idle)
<1>1. /\ host \in WatchHosts /\ Watch!Idle \in WatchCalls /\ host.gen \in Nat /\ host.seq \in Nat
      /\ WatchTyped(host, board, wire) /\ Numbers(host, board, wire) /\ Listening(host, board, wire)
      /\ CallOK(host, board, wire, t) /\ c.gen \in Nat
  BY DEF WatchInv, WatchSound, WatchTyped, WatchHosts, WatchCalls, Watch!Idle
<1>2. /\ g \in WatchHosts /\ g.call[t] = Watch!Idle /\ g.ids = host.ids
      /\ g.cbs = host.cbs /\ g.told = host.told /\ g.gen = host.gen
      /\ g.seq = host.seq
      /\ g.returned = host.returned /\ g.foreign = host.foreign
      /\ \A u \in Threads \ {t} : g.call[u] = host.call[u]
      /\ host.upset \subseteq g.upset
  BY <1>1, CallIs
<1> DEFINE ret == host.returned \cup {c.gen}
<1>3. host' = [g EXCEPT !.returned = ret] /\ ret \in SUBSET Nat
  BY <1>1, <1>2 DEF WatchHosts
<1> HIDE DEF g, ret
<1>4. /\ host' \in WatchHosts /\ host'.call = g.call /\ host'.ids = g.ids
      /\ host'.cbs = g.cbs /\ host'.told = g.told /\ host'.gen = g.gen /\ host'.seq = g.seq
      /\ host'.returned = ret /\ host'.foreign = g.foreign
      /\ host'.upset = g.upset
  BY <1>2, <1>3 DEF WatchHosts
<1>5. /\ host'.call[t] = Watch!Idle /\ host'.ids = host.ids
      /\ host'.cbs = host.cbs /\ host'.told = host.told /\ host'.gen = host.gen
      /\ host'.seq = host.seq /\ host'.returned = host.returned \cup {c.gen}
      /\ host'.foreign = host.foreign /\ \A u \in Threads \ {t} : host'.call[u] = host.call[u]
      /\ host.upset \subseteq host'.upset /\ board' = board /\ wire' = wire
  BY <1>2, <1>4 DEF ret
<1>6. WatchTyped(host', board', wire')
  BY <1>1, <1>4, <1>5 DEF WatchTyped
<1>7. HostStep(t)
  BY <1>1, <1>5, <1>6 DEF HostStep, Watch!Idle
<1>8. CallOK(host', board', wire', t)
  BY <1>5, <1>7, IdleIsOK
<1>9. ASSUME NEW u \in Threads \ {t} PROVE CallOK(host', board', wire', u)
  <2>1. CallOK(host, board, wire, u)
        /\ (host.call[u].op = "add" => host.call[u].gen # c.gen)
    BY <1>1 DEF WatchInv, WatchSound, Numbers
  <2>2. QED
    BY <1>5, <1>7, <2>1, OthersKeep DEF CallOK, AddOK, RemoveOK
<1>10. Numbers(host', board', wire')
  <2>1. c.gen <= host.gen
    BY <1>1 DEF CallOK, AddOK
  <2>2. QED
    BY <1>1, <1>5, <1>7, <2>1, NumbersKeep DEF Numbers, Watch!Idle
<1>11. Listening(host', board', wire')
  BY <1>1, <1>5 DEF Listening
<1>12. QED
  BY <1>6, <1>7, <1>8, <1>9, <1>10, <1>11, ToldKeeps DEF WatchInv, WatchSound

\* The call of thread t ends, and the host forgets what it has under some ids.
Forgot(t, gone, cbs, more) ==
  host' = [Watch!Call(t, Watch!Idle) EXCEPT !.ids = @ \ gone, !.cbs = cbs, !.upset = @ \cup more]
Cleared(gone, cbs) == \A i \in Ids : cbs[i] = IF i \in gone THEN {} ELSE host.cbs[i]

\* Nothing on the board or in a call of another thread is left of an id.
Unused(t, i) ==
  /\ \A r \in board.rules : r.id # i
  /\ Reports(wire, i) = {}
  /\ \A u \in Threads \ {t} :
       /\ host.call[u].op = "remove" => host.call[u].id # i
       /\ host.call[u].op = "add" /\ host.call[u].at # "register" => host.call[u].id # i

LEMMA Forgets ==
  ASSUME WatchInv, NEW t \in Threads, NEW gone \in SUBSET Ids, NEW more \in SUBSET Ids,
         NEW cbs \in [Ids -> SUBSET Nat], UNCHANGED <<board, wire>>,
         Cleared(gone, cbs), Forgot(t, gone, cbs, more),
         \A i \in gone : i \notin host.upset \cup more => Unused(t, i)
  PROVE  WatchInv'
<1> DEFINE g == Watch!Call(t, Watch!Idle)
<1>1. /\ host \in WatchHosts /\ Watch!Idle \in WatchCalls /\ host.gen \in Nat /\ host.seq \in Nat
      /\ WatchTyped(host, board, wire) /\ Numbers(host, board, wire) /\ Listening(host, board, wire)
  BY DEF WatchInv, WatchSound, WatchTyped, WatchHosts, WatchCalls, Watch!Idle
<1>2. /\ g \in WatchHosts /\ g.call[t] = Watch!Idle /\ g.ids = host.ids
      /\ g.cbs = host.cbs /\ g.told = host.told /\ g.gen = host.gen
      /\ g.seq = host.seq
      /\ g.returned = host.returned /\ g.foreign = host.foreign
      /\ \A u \in Threads \ {t} : g.call[u] = host.call[u]
      /\ host.upset \subseteq g.upset
  BY <1>1, CallIs
<1>14. \A i \in Ids : cbs[i] = IF i \in gone THEN {} ELSE host.cbs[i]
  BY DEF Cleared
<1> DEFINE ids == host.ids \ gone
           upset == g.upset \cup more
<1>3. host' = [g EXCEPT !.ids = ids, !.cbs = cbs, !.upset = upset]
      /\ ids \in SUBSET Ids /\ upset \in SUBSET Ids
  BY <1>1, <1>2 DEF WatchHosts, Forgot
<1>13. host.upset \cup more \subseteq upset
  BY <1>2
<1> HIDE DEF g, ids, upset
<1>4. /\ host' \in WatchHosts /\ host'.call = g.call /\ host'.ids = ids
      /\ host'.cbs = cbs /\ host'.told = g.told /\ host'.gen = g.gen /\ host'.seq = g.seq
      /\ host'.returned = g.returned /\ host'.foreign = g.foreign
      /\ host'.upset = upset
  BY <1>2, <1>3 DEF WatchHosts
<1>5. /\ host'.call[t] = Watch!Idle /\ host'.ids = host.ids \ gone
      /\ host'.cbs = cbs /\ host'.told = host.told /\ host'.gen = host.gen
      /\ host'.seq = host.seq /\ host'.returned = host.returned
      /\ host'.foreign = host.foreign /\ \A u \in Threads \ {t} : host'.call[u] = host.call[u]
      /\ host.upset \cup more \subseteq host'.upset /\ board' = board /\ wire' = wire
  BY <1>2, <1>4, <1>13 DEF ids
<1>6. WatchTyped(host', board', wire')
  BY <1>1, <1>4, <1>5 DEF WatchTyped
<1>7. HostStep(t)
  BY <1>1, <1>5, <1>6 DEF HostStep, Watch!Idle
<1>8. CallOK(host', board', wire', t)
  BY <1>5, <1>7, IdleIsOK
<1>9. ASSUME NEW u \in Threads \ {t} PROVE CallOK(host', board', wire', u)
  <2> DEFINE d == host.call[u]
  <2>1. CallOK(host, board, wire, u)
    BY DEF WatchInv, WatchSound
  <2>2. d.op = "add" =>
          /\ d.gen \notin host'.returned
          /\ \A j \in Ids : d.gen \in host'.cbs[j] => d.gen \in host.cbs[j]
          /\ d.at # "register" /\ d.id \notin host'.upset => host'.cbs[d.id] = host.cbs[d.id]
    <3>1. d.op = "add" => d.gen \notin host.returned /\ d.id \in Ids
      BY <2>1 DEF CallOK, AddOK
    <3>2. d.op = "add" /\ d.at # "register" /\ d.id \notin host'.upset => d.id \notin gone
      BY <1>5 DEF Unused
    <3>3. QED  BY <1>5, <1>14, <3>1, <3>2
  <2>3. d.op = "remove" /\ d.id \notin host'.upset
          => host'.cbs[d.id] \cap host'.returned # {}
    <3>1. d.op = "remove" /\ d.id \notin host'.upset
            => d.id \in Ids /\ host.cbs[d.id] \cap host.returned # {}
      BY <1>5, <2>1 DEF CallOK, RemoveOK
    <3>2. d.op = "remove" /\ d.id \notin host'.upset => d.id \notin gone
      BY <1>5 DEF Unused
    <3>3. QED  BY <1>5, <1>14, <3>1, <3>2
  <2>4. QED  BY <1>7, <2>2, <2>3, OthersKeep
<1>10. Numbers(host', board', wire')
  <2>1. \A i \in Ids : cbs[i] \subseteq host.cbs[i]
    BY <1>14
  <2>2. QED
    BY <1>1, <1>5, <1>7, <2>1, NumbersKeep DEF Numbers, Watch!Idle
<1>11. Listening(host', board', wire')
  <2>1. \A i \in Ids : host'.cbs[i] # {} <=> i \in host'.ids
    BY <1>1, <1>5, <1>14 DEF Listening, ids
  <2>2. \A r \in board.rules : r.id \in Ids
    BY <1>1 DEF WatchTyped, WatchBoards, WatchRule
  <2>3. \A r \in board.rules : \A i \in Ids : r.gen \in host'.cbs[i] => i = r.id
    BY <1>1, <1>5, <1>14 DEF Listening
  <2>4. \A r \in board.rules : r.id \notin host'.upset => host'.cbs[r.id] = {r.gen}
    BY <1>1, <1>5, <1>14, <2>2 DEF Listening, Unused
  <2>5. \A i \in Ids \ host'.upset : \A k \in Reports(wire, i) : host'.cbs[i] = {wire.queue[k].gen}
    BY <1>1, <1>5, <1>14 DEF Listening, Unused
  <2>6. QED  BY <1>1, <1>5, <2>1, <2>3, <2>4, <2>5 DEF Listening
<1>12. QED
  BY <1>6, <1>7, <1>8, <1>9, <1>10, <1>11, ToldKeeps DEF WatchInv, WatchSound

LEMMA FinishKeeps ==
  ASSUME WatchInv, NEW t \in Threads, Watch!Finish(t)
  PROVE  WatchInv'
<1> DEFINE c == host.call[t]
           g == Watch!Call(t, Watch!Idle)
<1>1. /\ host \in WatchHosts /\ host.cbs \in [Ids -> SUBSET Nat]
      /\ WatchTyped(host, board, wire) /\ Numbers(host, board, wire) /\ Listening(host, board, wire)
      /\ CallOK(host, board, wire, t) /\ c \in WatchCalls /\ c.at \in {"ok", "err"}
      /\ \A u \in Threads : CallOK(host, board, wire, u)
      /\ UNCHANGED <<board, wire>>
  BY DEF WatchInv, WatchSound, WatchTyped, WatchHosts, Watch!Finish
<1>2. /\ Watch!Idle \in WatchCalls /\ g \in WatchHosts /\ g.cbs = host.cbs /\ g.ids = host.ids
      /\ g.upset \subseteq Ids /\ host.upset \subseteq g.upset
  <2>1. Watch!Idle \in WatchCalls
    BY DEF WatchCalls, Watch!Idle
  <2>2. QED  BY <1>1, <2>1, CallIs
<1>3. c.op # "none"
  BY <1>1 DEF Numbers, Watch!Idle
<1>4. CASE c.op = "add" /\ c.at = "ok"
  <2>1. host' = [g EXCEPT !.returned = @ \cup {c.gen}]
    BY <1>4 DEF Watch!Finish
  <2>2. QED  BY <1>1, <1>4, <2>1, FinishAdd
<1>5. CASE c.op = "add" /\ c.at = "err"
  <2> DEFINE cbs == [host.cbs EXCEPT ![c.id] = {}]
  <2>1. host' = [g EXCEPT !.ids = @ \ {c.id}, !.cbs[c.id] = {}]
    BY <1>5 DEF Watch!Finish
  <2>2. /\ c.id \in Ids /\ c.gen \notin host.returned /\ Unmade(board, wire, c.gen)
        /\ c.id \notin host.upset => host.cbs[c.id] = {c.gen}
    BY <1>1, <1>5 DEF CallOK, AddOK
  <2>3. cbs \in [Ids -> SUBSET Nat]
        /\ Cleared({c.id}, cbs) /\ {c.id} \in SUBSET Ids
    BY <1>1, <2>2 DEF Cleared
  <2>4. Forgot(t, {c.id}, cbs, {})
    BY <1>2, <2>1 DEF WatchHosts, Forgot
  <2>5. ASSUME c.id \notin host.upset
        PROVE  Unused(t, c.id)
    <3>1. \A r \in board.rules : r.id # c.id
      <4> SUFFICES ASSUME NEW r \in board.rules, r.id = c.id PROVE FALSE
        OBVIOUS
      <4>1. host.cbs[c.id] = {r.gen}
        BY <1>1, <2>5 DEF Listening
      <4>2. QED  BY <2>2, <2>5, <4>1 DEF Unmade
    <3>2. Reports(wire, c.id) = {}
      <4> SUFFICES ASSUME NEW k \in Reports(wire, c.id) PROVE FALSE
        OBVIOUS
      <4>1. host.cbs[c.id] = {wire.queue[k].gen}
        BY <1>1, <2>2, <2>5 DEF Listening
      <4>2. k \in 1 .. Len(wire.queue) /\ wire.queue[k].kind = "event"
        BY DEF Reports
      <4>3. QED  BY <2>2, <2>5, <4>1, <4>2 DEF Unmade
    <3>3. ASSUME NEW u \in Threads \ {t}, host.call[u].id = c.id, host.call[u].op = "remove"
          PROVE  FALSE
      BY <1>1, <2>2, <2>5, <3>3 DEF CallOK, RemoveOK
    <3>4. ASSUME NEW u \in Threads \ {t}, host.call[u].id = c.id, host.call[u].op = "add",
                 host.call[u].at # "register"
          PROVE  FALSE
      <4>1. host.cbs[c.id] = {host.call[u].gen}
        BY <1>1, <2>5, <3>4 DEF CallOK, AddOK
      <4>2. host.call[u].gen # c.gen
        BY <1>1, <1>5, <3>4 DEF Numbers
      <4>3. QED  BY <2>2, <2>5, <4>1, <4>2
    <3>5. QED  BY <3>1, <3>2, <3>3, <3>4 DEF Unused
  <2>7. \A i \in {c.id} : i \notin host.upset \cup {} => Unused(t, i)
    BY <2>5
  <2> HIDE DEF cbs, g, c
  <2>6. QED  BY <1>1, <2>3, <2>4, <2>7, Forgets
<1>6. CASE c.op = "remove"
  <2> DEFINE cbs == [host.cbs EXCEPT ![c.id] = {}]
             more == Watch!Contended(t) \cap {c.id}
  <2>1. host' = [g EXCEPT !.ids = @ \ {c.id}, !.cbs[c.id] = {}, !.upset = @ \cup more]
    BY <1>6 DEF Watch!Finish
  <2>2. /\ c.id \in Ids /\ more \subseteq Ids
        /\ c.id \notin host.upset => Gone(board, wire, c.id, t, c) /\ c.at = "ok"
    BY <1>1, <1>6 DEF CallOK, RemoveOK
  <2>3. cbs \in [Ids -> SUBSET Nat]
        /\ Cleared({c.id}, cbs) /\ {c.id} \in SUBSET Ids
    BY <1>1, <2>2 DEF Cleared
  <2>4. Forgot(t, {c.id}, cbs, more)
    BY <1>2, <2>1 DEF WatchHosts, Forgot
  <2>5. ASSUME c.id \notin host.upset \cup more
        PROVE  Unused(t, c.id)
    BY <2>2, <2>5 DEF Gone, Watch!Contended, Unused
  <2>7. (\A i \in {c.id} : i \notin host.upset \cup more => Unused(t, i)) /\ more \in SUBSET Ids
    BY <2>2, <2>5
  <2> HIDE DEF cbs, g, more, c
  <2>6. QED  BY <1>1, <2>3, <2>4, <2>7, Forgets
<1>7. CASE c.op = "clear"
  <2> DEFINE cbs == [i \in Ids |-> {}]
  <2>1. host' = [g EXCEPT !.ids = {}, !.cbs = cbs]
    BY <1>7 DEF Watch!Finish
  <2>2. c.at = "ok" /\ \A i \in Ids \ host.upset : /\ \A u \in Threads \ {t} : host.call[u].op = "none"
                                                   /\ Gone(board, wire, i, t, c)
    BY <1>1, <1>7 DEF CallOK, ClearOK
  <2>3. cbs \in [Ids -> SUBSET Nat]
        /\ Cleared(Ids, cbs) /\ Ids \in SUBSET Ids
    BY DEF Cleared
  <2>4. Forgot(t, Ids, cbs, {})
    BY <1>2, <2>1 DEF WatchHosts, Forgot
  <2>5. \A i \in Ids : i \notin host.upset \cup {} => Unused(t, i)
    BY <2>2 DEF Gone, Unused
  <2> HIDE DEF cbs, g
  <2>6. QED  BY <1>1, <2>3, <2>4, <2>5, Forgets
<1>8. QED
  BY <1>1, <1>3, <1>4, <1>5, <1>6, <1>7 DEF WatchCalls

\* The queue of w has one more frame e.
OneMore(w, e) ==
  LET n == Len(wire.queue) + 1
  IN  /\ n \in Nat /\ w.queue \in Seq(Reply \cup Report) /\ Len(w.queue) = n
      /\ w.queue[n] = e
      /\ \A k \in 1 .. Len(w.queue) : k = n \/ k \in 1 .. Len(wire.queue)
      /\ \A k \in 1 .. Len(wire.queue) : k < n /\ w.queue[k] = wire.queue[k]
      /\ \A i : Reports(w, i) = Reports(wire, i)
                  \cup (IF e.kind = "event" /\ e.id = i THEN {n} ELSE {})
      /\ \A t, s : Answers(w, t, s) = Answers(wire, t, s)
                     \cup (IF e.kind = "reply" /\ e.thread = t /\ e.seq = s THEN {n} ELSE {})

LEMMA Appended ==
  ASSUME NEW w, wire \in WatchWires, NEW e \in Reply \cup Report, w.queue = Append(wire.queue, e)
  PROVE  OneMore(w, e)
<1> DEFINE n == Len(wire.queue) + 1
<1>1. wire.queue \in Seq(Reply \cup Report)
  BY DEF WatchWires
<1>2. /\ n \in Nat /\ w.queue \in Seq(Reply \cup Report) /\ Len(w.queue) = n
      /\ w.queue[n] = e
      /\ \A k \in 1 .. Len(wire.queue) : k < n /\ w.queue[k] = wire.queue[k]
  BY <1>1
<1>3. Len(wire.queue) \in Nat
  BY <1>1
<1>4. \A k \in 1 .. Len(w.queue) : k = n \/ k \in 1 .. Len(wire.queue)
  BY <1>2, <1>3
<1>5. \A k \in 1 .. Len(wire.queue) : k \in 1 .. Len(w.queue)
  BY <1>2, <1>3
<1>6. n \in 1 .. Len(w.queue)
  BY <1>2, <1>3
<1> HIDE DEF n
<1>7. ASSUME NEW i
      PROVE  Reports(w, i) = Reports(wire, i)
               \cup (IF e.kind = "event" /\ e.id = i THEN {n} ELSE {})
  BY <1>2, <1>4, <1>5, <1>6 DEF Reports
<1>8. ASSUME NEW t, NEW s
      PROVE  Answers(w, t, s) = Answers(wire, t, s)
               \cup (IF e.kind = "reply" /\ e.thread = t /\ e.seq = s THEN {n} ELSE {})
  BY <1>2, <1>4, <1>5, <1>6 DEF Answers
<1>9. QED  BY <1>2, <1>4, <1>7, <1>8 DEF n, OneMore

\* The places in the queue are numbers of frames.
LEMMA Places ==
  ASSUME wire \in WatchWires
  PROVE  /\ \A i : Reports(wire, i) \subseteq 1 .. Len(wire.queue)
         /\ \A t, s : Answers(wire, t, s) \subseteq 1 .. Len(wire.queue)
         /\ \A k \in 1 .. Len(wire.queue) :
              /\ wire.queue[k].kind = "reply" => wire.queue[k] \in Reply
              /\ wire.queue[k].kind = "event" => wire.queue[k] \in Report
<1>1. \A k \in 1 .. Len(wire.queue) : wire.queue[k] \in Reply \cup Report
  BY DEF WatchWires
<1>2. \A f \in Reply \cup Report : /\ f.kind = "reply" => f \in Reply
                                   /\ f.kind = "event" => f \in Report
  BY DEF Reply, Report
<1>3. QED  BY <1>1, <1>2 DEF Reports, Answers

\* A request reaches the board.

\* A request reaches the board.
LEMMA ExecuteKeeps ==
  ASSUME WatchInv, NEW t \in Threads, Watch!Execute(t)
  PROVE  WatchInv'
<1> DEFINE c == host.call[t]
           d == [c EXCEPT !.at = "done"]
           rule == [id |-> c.id, gen |-> c.gen, state |-> 0, primed |-> FALSE]
           e(at) == [kind |-> "reply", thread |-> t, seq |-> c.seq, at |-> at]
           rules == board'.rules
           n == Len(wire.queue) + 1
<1>1. /\ host \in WatchHosts /\ host.gen \in Nat /\ host.seq \in Nat
      /\ board \in WatchBoards /\ wire \in WatchWires
      /\ Numbers(host, board, wire) /\ Listening(host, board, wire) /\ Told(host, board, wire)
      /\ CallOK(host, board, wire, t) /\ ~host.foreign
      /\ c \in WatchCalls /\ c.at = "sent" /\ c.seq \in Nat /\ c.id \in Ids \cup {0}
  BY DEF WatchInv, WatchSound, WatchTyped, WatchHosts, WatchCalls, Watch!Execute
<1>2. c.op \in {"add", "remove", "clear"}
  BY <1>1 DEF Numbers, Watch!Idle, WatchCalls
<1>3. d \in WatchCalls /\ d.op = c.op /\ d.at = "done" /\ d.id = c.id /\ d.gen = c.gen
      /\ d.seq = c.seq /\ d # Watch!Idle
  BY <1>1 DEF WatchCalls, Watch!Idle
<1>4. host' = Watch!Call(t, d) /\ board' = [board EXCEPT !.rules = rules]
  <2>1. host' = Watch!Call(t, d)
    BY DEF Watch!Execute
  <2>2. \E rs : board' = [board EXCEPT !.rules = rs]
    BY Zenon DEF Watch!Execute
  <2>3. QED  BY <1>1, <2>1, <2>2 DEF WatchBoards
<1>5. \E at \in {"ok", "err"} :
        /\ wire' = [wire EXCEPT !.queue = Append(@, e(at))]
        /\ \/ c.op = "add" /\ (\A r \in board.rules : r.id # c.id) /\ rules = board.rules
           \/ at = "ok" /\ c.op = "add"
                /\ rules = {r \in board.rules : r.id # c.id} \cup {rule}
           \/ at = "ok" /\ c.op = "remove" /\ rules = {r \in board.rules : r.id # c.id}
           \/ at = "ok" /\ c.op = "clear" /\ rules = {}
  <2>1. board.rules \ Watch!Of(c.id) = {r \in board.rules : r.id # c.id}
    BY DEF Watch!Of
  <2>2. Watch!Of(c.id) = {} => \A r \in board.rules : r.id # c.id
    BY DEF Watch!Of
  <2>3. QED  BY <1>1, <1>2, <2>1, <2>2 DEF Watch!Execute, WatchBoards
<1>6. PICK at \in {"ok", "err"} :
        /\ wire' = [wire EXCEPT !.queue = Append(@, e(at))]
        /\ \/ c.op = "add" /\ (\A r \in board.rules : r.id # c.id) /\ rules = board.rules
           \/ at = "ok" /\ c.op = "add"
                /\ rules = {r \in board.rules : r.id # c.id} \cup {rule}
           \/ at = "ok" /\ c.op = "remove" /\ rules = {r \in board.rules : r.id # c.id}
           \/ at = "ok" /\ c.op = "clear" /\ rules = {}
  BY <1>5
<1>7. /\ host' \in WatchHosts /\ host'.call[t] = d /\ host'.ids = host.ids /\ host'.cbs = host.cbs
      /\ host'.told = host.told /\ host'.gen = host.gen /\ host'.seq = host.seq
      /\ host'.returned = host.returned /\ host'.foreign = host.foreign
      /\ \A u \in Threads \ {t} : host'.call[u] = host.call[u]
      /\ host.upset \subseteq host'.upset
      /\ (\E u \in Threads \ {t} : host.call[u].op = "clear") => host'.upset = Ids
  BY <1>1, <1>3, <1>4, CallIs
<1>8. /\ \A r \in rules : r \in board.rules \/ (c.op = "add" /\ r = rule)
      /\ c.op # "add" => \A r \in rules : r.id # c.id
      /\ c.op = "clear" => rules = {}
      /\ c.op = "add" => \A r \in rules : r.id = c.id => r = rule
      /\ at = "err" => c.op = "add" /\ rules = board.rules
  <2> HIDE DEF c, rule, rules
  <2>1. \A r \in rules : r \in board.rules \/ (c.op = "add" /\ r = rule)
    <3> SUFFICES ASSUME NEW r \in rules, r \notin board.rules PROVE c.op = "add" /\ r = rule
      OBVIOUS
    <3>1. CASE c.op = "add" /\ rules = {s \in board.rules : s.id # c.id} \cup {rule}
      BY <3>1
    <3>2. ~(rules = board.rules \/ rules = {s \in board.rules : s.id # c.id} \/ rules = {})
      OBVIOUS
    <3>3. QED  BY <1>6, <3>1, <3>2
  <2>2. c.op # "add" => \A r \in rules : r.id # c.id
    <3>1. CASE rules = {r \in board.rules : r.id # c.id}
      BY <3>1
    <3>2. CASE rules = {}
      BY <3>2
    <3>3. CASE c.op = "add"
      BY <3>3
    <3>4. QED  BY <1>6, <3>1, <3>2, <3>3
  <2>3. c.op = "clear" => rules = {}
    BY <1>6
  <2>4. c.op = "add" => \A r \in rules : r.id = c.id => r = rule
    BY <1>6
  <2>5. at = "err" => c.op = "add" /\ rules = board.rules
    BY <1>6
  <2>6. QED  BY <2>1, <2>2, <2>3, <2>4, <2>5
<1>9. Answers(wire, t, c.seq) = {}
  BY <1>1 DEF CallOK, Unanswered
<1>10. /\ wire' \in WatchWires /\ wire'.dropped = wire.dropped
       /\ \A i : Reports(wire', i) = Reports(wire, i)
       /\ \A s : \A u \in Threads \ {t} : Answers(wire', u, s) = Answers(wire, u, s)
       /\ \A s : Answers(wire', t, s) = Answers(wire, t, s) \cup (IF c.seq = s THEN {n} ELSE {})
       /\ Answers(wire', t, c.seq) = {n} /\ wire'.queue[n].at = at
       /\ wire'.queue[n].kind = "reply" /\ wire'.queue[n].seq = c.seq
       /\ \A k \in 1 .. Len(wire'.queue) : k = n \/ k \in 1 .. Len(wire.queue)
       /\ \A k \in 1 .. Len(wire.queue) : k < n /\ wire'.queue[k] = wire.queue[k]
  <2> DEFINE f == e(at)
  <2>1. f \in Reply \cup Report /\ f.kind = "reply" /\ f.thread = t /\ f.seq = c.seq /\ f.at = at
    BY <1>1 DEF Reply
  <2>2. wire'.queue = Append(wire.queue, f) /\ wire'.dropped = wire.dropped
        /\ wire' = [wire EXCEPT !.queue = wire'.queue]
    BY <1>1, <1>6 DEF WatchWires
  <2> HIDE DEF f, c
  <2>3. /\ wire'.queue \in Seq(Reply \cup Report) /\ wire'.queue[n] = f
        /\ \A k \in 1 .. Len(wire'.queue) : k = n \/ k \in 1 .. Len(wire.queue)
        /\ \A k \in 1 .. Len(wire.queue) : k < n /\ wire'.queue[k] = wire.queue[k]
        /\ \A i : Reports(wire', i) = Reports(wire, i)
                    \cup (IF f.kind = "event" /\ f.id = i THEN {n} ELSE {})
        /\ \A u, s : Answers(wire', u, s) = Answers(wire, u, s)
                       \cup (IF f.kind = "reply" /\ f.thread = u /\ f.seq = s THEN {n} ELSE {})
    <3>1. OneMore(wire', f)
      BY <1>1, <2>1, <2>2, Appended
    <3>2. QED  BY <3>1 DEF OneMore
  <2>4. wire' \in WatchWires
    BY <1>1, <2>2, <2>3 DEF WatchWires
  <2>5. \A i : Reports(wire', i) = Reports(wire, i)
    BY <2>1, <2>3
  <2>6. ASSUME NEW u \in Threads \ {t}, NEW s
        PROVE  Answers(wire', u, s) = Answers(wire, u, s)
    <3>1. ~(f.kind = "reply" /\ f.thread = u /\ f.seq = s)
      BY <2>1
    <3>2. Answers(wire', u, s) = Answers(wire, u, s)
            \cup (IF f.kind = "reply" /\ f.thread = u /\ f.seq = s THEN {n} ELSE {})
      BY <2>3
    <3>3. QED  BY <3>1, <3>2
  <2>7. ASSUME NEW s
        PROVE  Answers(wire', t, s) = Answers(wire, t, s) \cup (IF c.seq = s THEN {n} ELSE {})
    <3>1. (f.kind = "reply" /\ f.thread = t /\ f.seq = s) <=> c.seq = s
      BY <2>1
    <3>2. QED  BY <2>3, <3>1
  <2>8. Answers(wire', t, c.seq) = {n}
    BY <1>9, <2>7
  <2>9. QED  BY <2>1, <2>2, <2>3, <2>4, <2>5, <2>6, <2>7, <2>8
<1>11. /\ \A r \in board.rules : r \in WatchRule /\ r.id \in Ids
       /\ c.op = "add" => rule \in WatchRule /\ c.id \in Ids
  <2>1. c.op = "add" => c.id \in Ids /\ c.gen \in Watch!Gens
    BY <1>1 DEF CallOK, AddOK
  <2>2. QED  BY <1>1, <2>1 DEF WatchBoards, WatchRule
<1>12. WatchTyped(host', board', wire')
  <2>1. rules \in SUBSET WatchRule
    BY <1>8, <1>11
  <2>2. board' \in WatchBoards
    BY <1>1, <1>4, <2>1 DEF WatchBoards
  <2>3. QED  BY <1>7, <1>10, <2>2 DEF WatchTyped
\* The rule of an add() comes to no id of another call but one that is upset.
<1>13. /\ c.op = "add" => /\ c.gen \notin host.returned /\ Unmade(board, wire, c.gen)
                          /\ c.id \notin host.upset => host.cbs[c.id] = {c.gen}
                          /\ c.gen <= host.gen
                          /\ \A j \in Ids : c.gen \in host.cbs[j] => j = c.id
       /\ c.op = "remove" => c.id \in Ids /\ (c.id \notin host.upset => Gone(board, wire, c.id, t, c))
       /\ c.op = "clear" => \A i \in Ids \ host.upset : \A u \in Threads \ {t} : host.call[u].op = "none"
  BY <1>1 DEF CallOK, AddOK, RemoveOK, ClearOK
<1> HIDE DEF c, d, rule, e, rules, n
<1>14. \A j : j \in 1 .. Len(wire.queue) => j < n
  BY <1>10
<1>15. \A i : \A j \in Reports(wire', i) : j < n
  BY <1>1, <1>10, <1>14, Places
<1>16. rules = board'.rules /\ rule.gen = c.gen /\ rule.id = c.id /\ ~rule.primed
  BY DEF rules, rule
<1>17. \A g : Unmade(board, wire, g) /\ (c.op = "add" /\ rule \in rules => g # c.gen)
         => Unmade(board', wire', g)
  BY <1>8, <1>10, <1>16 DEF Unmade
<1>18. CallOK(host', board', wire', t)
  <2>1. Unanswered(host', wire', t)
    BY <1>3, <1>7 DEF Unanswered
  <2>2. AddOK(host', board', wire', t)
    <3> SUFFICES ASSUME c.op = "add" PROVE AddOK(host', board', wire', t)
      BY <1>3, <1>7 DEF AddOK
    <3>1. c.id \in Ids /\ c.gen \in Watch!Gens /\ c.gen <= host.gen
      BY <1>1 DEF CallOK, AddOK, c
    <3>2. ASSUME at = "err" PROVE Unmade(board', wire', c.gen)
      <4>1. rules = board.rules /\ \A r \in board.rules : r.gen # c.gen
        BY <1>8, <1>13, <3>2 DEF Unmade
      <4>2. QED  BY <1>10, <1>13, <1>16, <4>1 DEF Unmade
    <3>3. c.id \notin host'.upset => host.cbs[c.id] = {c.gen}
      BY <1>7, <1>13
    <3>4. QED
      BY <1>3, <1>7, <1>10, <1>13, <3>1, <3>2, <3>3 DEF AddOK
  <2>3. \A i \in Ids : (\A r \in rules : r.id # i) => Gone(board', wire', i, t, d)
    BY <1>3, <1>10, <1>15, <1>16 DEF Gone
  <2>4. RemoveOK(host', board', wire', t)
    <3> SUFFICES ASSUME c.op = "remove" PROVE RemoveOK(host', board', wire', t)
      BY <1>3, <1>7 DEF RemoveOK
    <3>1. c.id \in Ids /\ (c.id \notin host'.upset => host.cbs[c.id] \cap host.returned # {})
      BY <1>1, <1>7 DEF CallOK, RemoveOK, c
    <3>2. at = "ok"
      BY <1>6, <1>8
    <3>3. QED  BY <1>3, <1>7, <1>8, <1>10, <2>3, <3>1, <3>2 DEF RemoveOK
  <2>5. ClearOK(host', board', wire', t)
    <3> SUFFICES ASSUME c.op = "clear" PROVE ClearOK(host', board', wire', t)
      BY <1>3, <1>7 DEF ClearOK
    <3>1. at = "ok"
      BY <1>6, <1>8
    <3>2. \A i \in Ids \ host'.upset : \A u \in Threads \ {t} : host'.call[u].op = "none"
      BY <1>7, <1>13
    <3>3. QED  BY <1>3, <1>7, <1>8, <1>10, <2>3, <3>1, <3>2 DEF ClearOK
  <2>6. QED  BY <2>1, <2>2, <2>4, <2>5 DEF CallOK
<1>19. ASSUME NEW u \in Threads \ {t} PROVE CallOK(host', board', wire', u)
  <2> DEFINE b == host.call[u]
  <2>1. /\ CallOK(host, board, wire, u) /\ host'.call[u] = b /\ b.seq \in Nat
        /\ c.op = "add" /\ b.op = "add" => b.gen # c.gen
        /\ \A s : Answers(wire', u, s) = Answers(wire, u, s)
    BY <1>1, <1>7, <1>10 DEF WatchInv, WatchSound, Numbers, c, WatchHosts, WatchCalls
  <2>2. \A k \in Answers(wire, u, b.seq) : wire'.queue[k] = wire.queue[k]
    BY <1>1, <1>10, Places
  <2>3. Unanswered(host', wire', u)
    BY <2>1 DEF CallOK, Unanswered
  <2> HIDE DEF b
  <2>4. b = host.call[u]
    BY DEF b
  <2>5. AddOK(host', board', wire', u)
    <3> SUFFICES ASSUME b.op = "add" PROVE AddOK(host', board', wire', u)
      BY <2>1 DEF AddOK
    <3>1. Unmade(board, wire, b.gen) => Unmade(board', wire', b.gen)
      BY <1>17, <2>1
    <3>2. QED
      BY <1>7, <2>1, <2>2, <2>4, <3>1 DEF CallOK, AddOK
  <2>6. \A i \in Ids : Gone(board, wire, i, u, b) /\ (\A r \in rules : r \in board.rules \/ r.id # i)
          => Gone(board', wire', i, u, b)
    BY <1>10, <1>16, <2>1 DEF Gone
  <2>7. RemoveOK(host', board', wire', u)
    <3> SUFFICES ASSUME b.op = "remove" PROVE RemoveOK(host', board', wire', u)
      BY <2>1 DEF RemoveOK
    <3>1. /\ b.at \in {"sent", "done", "ok"} /\ b.id \in Ids
          /\ \A k \in Answers(wire, u, b.seq) : wire.queue[k].at = "ok"
          /\ b.id \notin host.upset =>
               host.cbs[b.id] \cap host.returned # {} /\ Gone(board, wire, b.id, u, b)
      BY <2>1, <2>4 DEF CallOK, RemoveOK
    <3>2. b.id \notin host'.upset => c.op # "add" \/ c.id # b.id
      BY <1>7, <1>13, <3>1
    <3>3. b.id \notin host'.upset => \A r \in rules : r \in board.rules \/ r.id # b.id
      BY <1>8, <1>16, <3>2
    <3>4. b.id \notin host'.upset => Gone(board', wire', b.id, u, b)
      BY <1>7, <2>6, <3>1, <3>3
    <3>5. QED  BY <1>7, <2>1, <2>2, <3>1, <3>4 DEF RemoveOK
  <2>8. ClearOK(host', board', wire', u)
    <3> SUFFICES ASSUME b.op = "clear" PROVE ClearOK(host', board', wire', u)
      BY <2>1 DEF ClearOK
    <3>1. /\ b.at \in {"sent", "done", "ok"}
          /\ \A k \in Answers(wire, u, b.seq) : wire.queue[k].at = "ok"
      BY <2>1, <2>4 DEF CallOK, ClearOK
    <3>2. host'.upset = Ids
      BY <1>7, <2>4
    <3>3. QED  BY <2>1, <2>2, <3>1, <3>2 DEF ClearOK
  <2>9. QED  BY <2>3, <2>5, <2>7, <2>8 DEF CallOK
<1>20. Numbers(host', board', wire')
  <2>1. c.seq \in 1 .. host.seq
    BY <1>1, <1>2 DEF Numbers, c
  <2>2. \A u \in Threads : host'.call[u].op = "none" <=> host'.call[u] = Watch!Idle
    BY <1>1, <1>2, <1>3, <1>7 DEF Numbers
  <2>3. \A u \in Threads : host'.call[u].op # "none" => host'.call[u].seq \in 1 .. host'.seq
    BY <1>1, <1>3, <1>7, <2>1 DEF Numbers
  <2>4. \A v, u \in Threads :
          host'.call[v].op = "add" /\ host'.call[u].op = "add" /\ v # u
            => host'.call[v].gen # host'.call[u].gen
    <3>1. \A u \in Threads : host'.call[u].op = host.call[u].op /\ host'.call[u].gen = host.call[u].gen
      BY <1>3, <1>7 DEF c
    <3>2. QED  BY <1>1, <3>1 DEF Numbers
  <2>5. \A k \in 1 .. Len(wire'.queue) :
          /\ wire'.queue[k].kind = "reply" => wire'.queue[k].seq \in 1 .. host'.seq
          /\ wire'.queue[k].kind = "event" => wire'.queue[k].gen <= host'.gen
    BY <1>1, <1>7, <1>10, <2>1 DEF Numbers
  <2>6. ASSUME NEW u \in Threads, NEW s \in Nat, NEW j \in Answers(wire', u, s),
               NEW k \in Answers(wire', u, s)
        PROVE  j = k
    <3>1. \A p, q \in Answers(wire, u, s) : p = q
      BY <1>1 DEF Numbers
    <3>2. CASE u = t /\ s = c.seq
      BY <1>10, <2>6, <3>2
    <3>3. CASE ~(u = t /\ s = c.seq)
      BY <1>10, <2>6, <3>1, <3>3
    <3>4. QED  BY <3>2, <3>3
  <2>7. \A r \in rules : r.gen <= host.gen
    BY <1>1, <1>8, <1>13, <1>16 DEF Numbers
  <2>8. QED
    BY <1>1, <1>7, <1>16, <2>2, <2>3, <2>4, <2>5, <2>6, <2>7 DEF Numbers
<1>21. Listening(host', board', wire')
  <2>1. \A r \in rules : \A i \in Ids : r.gen \in host.cbs[i] => i = r.id
    BY <1>1, <1>8, <1>13, <1>16 DEF Listening
  <2>2. \A r, s \in rules : r.id = s.id => r = s
    BY <1>1, <1>8, <1>16 DEF Listening
  <2>3. \A r \in rules : r.id \notin host.upset => host.cbs[r.id] = {r.gen}
    BY <1>1, <1>8, <1>13, <1>16 DEF Listening
  <2>4. \A i \in Ids : \A k \in Reports(wire, i) : wire'.queue[k] = wire.queue[k]
    BY <1>1, <1>10, Places
  <2>5. QED
    BY <1>1, <1>7, <1>10, <1>16, <2>1, <2>2, <2>3, <2>4 DEF Listening
<1>22. Told(host', board', wire')
  <2> SUFFICES ASSUME ~wire.dropped, NEW r \in rules, r.primed, r.id \notin host.upset
               PROVE  Settled(host', wire', r)
    BY <1>7, <1>10, <1>16 DEF Told
  <2>1. r \in board.rules
    BY <1>8, <1>16
  <2>2. Settled(host, wire, r)
    BY <1>1, <2>1 DEF Told
  <2>3. \A k \in Reports(wire, r.id) : wire'.queue[k] = wire.queue[k]
    BY <1>1, <1>10, Places
  <2>4. QED  BY <1>7, <1>10, <2>2, <2>3 DEF Settled
<1>23. QED
  BY <1>1, <1>7, <1>12, <1>18, <1>19, <1>20, <1>21, <1>22 DEF WatchInv, WatchSound

\* A rule reports, or its report is dropped.
LEMMA PollKeeps ==
  ASSUME WatchInv, NEW r \in board.rules, Watch!Poll(r)
  PROVE  WatchInv'
<1> DEFINE state == Watch!ThresholdActive(r, board.value)
           r2 == [r EXCEPT !.state = state, !.primed = TRUE]
           e == [kind |-> "event", id |-> r.id, gen |-> r.gen, state |-> state]
           rules == (board.rules \ {r}) \cup {r2}
           n == Len(wire.queue) + 1
<1>1. /\ host \in WatchHosts /\ host.gen \in Nat /\ host.seq \in Nat
      /\ board \in WatchBoards /\ wire \in WatchWires
      /\ Numbers(host, board, wire) /\ Listening(host, board, wire) /\ Told(host, board, wire)
      /\ (\A t \in Threads : CallOK(host, board, wire, t)) /\ ~host.foreign
      /\ r \in WatchRule /\ r.id \in Ids /\ r.gen \in Watch!Gens
      /\ \A t \in Threads : host.call[t].seq \in Nat
  BY DEF WatchInv, WatchSound, WatchTyped, WatchHosts, WatchBoards, WatchRule, WatchCalls
<1>2. state \in {0, 1}
  BY DEF Watch!ThresholdActive
<1>3. host' = host /\ board' = [board EXCEPT !.rules = rules]
      /\ \/ wire' = [wire EXCEPT !.dropped = TRUE]
         \/ wire' = [wire EXCEPT !.queue = Append(@, e)]
  BY DEF Watch!Poll
<1> HIDE DEF state
<1>4. r2 \in WatchRule /\ r2.id = r.id /\ r2.gen = r.gen /\ r2.primed /\ r2.state = state
  BY <1>1, <1>2 DEF WatchRule
<1>5. e \in Reply \cup Report /\ e.kind = "event" /\ e.id = r.id /\ e.gen = r.gen /\ e.state = state
  BY <1>1, <1>2 DEF Report
<1> HIDE DEF r2, e
<1>6. board' \in WatchBoards /\ board'.rules = rules
  BY <1>1, <1>3, <1>4 DEF WatchBoards
<1>7. \A s \in rules : s = r2 \/ (s \in board.rules /\ s.id # r.id)
  BY <1>1 DEF Listening
<1>8. /\ wire' \in WatchWires
      /\ \A k \in 1 .. Len(wire'.queue) :
           k \in 1 .. Len(wire.queue) \/ (k = n /\ wire'.queue[n] = e)
      /\ \A k \in 1 .. Len(wire.queue) : k < n /\ wire'.queue[k] = wire.queue[k]
      /\ \A i : i # r.id => Reports(wire', i) = Reports(wire, i)
      /\ \A k \in Reports(wire', r.id) : k \in Reports(wire, r.id) \/ (k = n /\ wire'.queue[n] = e)
      /\ ~wire'.dropped => ~wire.dropped /\ n \in Reports(wire', r.id) /\ wire'.queue[n] = e
      /\ \A t, s : Answers(wire', t, s) = Answers(wire, t, s)
  <2>1. CASE wire' = [wire EXCEPT !.dropped = TRUE]
    <3>1. wire' \in WatchWires /\ wire'.queue = wire.queue /\ wire'.dropped
      BY <1>1, <2>1 DEF WatchWires
    <3>2. \A i : Reports(wire', i) = Reports(wire, i)
      BY <3>1 DEF Reports
    <3>3. \A t, s : Answers(wire', t, s) = Answers(wire, t, s)
      BY <3>1 DEF Answers
    <3>4. \A k \in 1 .. Len(wire.queue) : k < n
      BY <1>1 DEF WatchWires
    <3>5. QED  BY <3>1, <3>2, <3>3, <3>4
  <2>2. CASE wire' = [wire EXCEPT !.queue = Append(@, e)]
    <3>1. wire'.queue = Append(wire.queue, e) /\ wire'.dropped = wire.dropped
          /\ wire' = [wire EXCEPT !.queue = wire'.queue]
      BY <1>1, <2>2 DEF WatchWires
    <3>2. OneMore(wire', e)
      BY <1>1, <1>5, <3>1, Appended
    <3>3. /\ wire'.queue \in Seq(Reply \cup Report) /\ wire'.queue[n] = e
          /\ \A k \in 1 .. Len(wire'.queue) : k = n \/ k \in 1 .. Len(wire.queue)
          /\ \A k \in 1 .. Len(wire.queue) : k < n /\ wire'.queue[k] = wire.queue[k]
          /\ \A i : Reports(wire', i) = Reports(wire, i)
                      \cup (IF e.kind = "event" /\ e.id = i THEN {n} ELSE {})
          /\ \A u, s : Answers(wire', u, s) = Answers(wire, u, s)
                         \cup (IF e.kind = "reply" /\ e.thread = u /\ e.seq = s THEN {n} ELSE {})
      BY <3>2 DEF OneMore
    <3>4. wire' \in WatchWires
      BY <1>1, <3>1, <3>3 DEF WatchWires
    <3> HIDE DEF n
    <3>5. ASSUME NEW i, i # r.id PROVE Reports(wire', i) = Reports(wire, i)
      BY <1>5, <3>3, <3>5
    <3>6. Reports(wire', r.id) = Reports(wire, r.id) \cup {n}
      BY <1>5, <3>3
    <3>7. ASSUME NEW t, NEW s PROVE Answers(wire', t, s) = Answers(wire, t, s)
      <4>1. ~(e.kind = "reply" /\ e.thread = t /\ e.seq = s)
        BY <1>5
      <4>2. Answers(wire', t, s) = Answers(wire, t, s)
              \cup (IF e.kind = "reply" /\ e.thread = t /\ e.seq = s THEN {n} ELSE {})
        BY <3>3
      <4>3. QED  BY <4>1, <4>2
    <3>8. QED  BY <3>1, <3>3, <3>4, <3>5, <3>6, <3>7
  <2>3. QED  BY <1>3, <2>1, <2>2
<1>9. WatchTyped(host', board', wire')
  BY <1>1, <1>3, <1>6, <1>8 DEF WatchTyped
<1> HIDE DEF n, rules
<1>10. \A i : \A j \in Reports(wire, i) : j < n /\ wire'.queue[j] = wire.queue[j]
  BY <1>1, <1>8, Places
<1>11. \A t, s : \A k \in Answers(wire, t, s) : wire'.queue[k] = wire.queue[k]
  BY <1>1, <1>8, Places
<1>12. \A g : Unmade(board, wire, g) => Unmade(board', wire', g)
  BY <1>4, <1>5, <1>6, <1>7, <1>8 DEF Unmade
<1>13. ASSUME NEW t \in Threads PROVE CallOK(host', board', wire', t)
  <2> DEFINE b == host.call[t]
  <2>1. CallOK(host, board, wire, t) /\ b.seq \in Nat
    BY <1>1
  <2>2. Unanswered(host', wire', t)
    BY <1>3, <1>8, <2>1 DEF CallOK, Unanswered
  <2>3. AddOK(host', board', wire', t)
    BY <1>3, <1>8, <1>11, <1>12, <2>1 DEF CallOK, AddOK
  <2>4. ASSUME NEW i \in Ids, Gone(board, wire, i, t, b)
        PROVE  Gone(board', wire', i, t, b)
    <3>1. CASE i = r.id
      <4>1. b.at \notin {"done", "ok"}
        BY <2>4, <3>1 DEF Gone
      <4>2. Answers(wire, t, b.seq) = {}
        BY <2>1, <4>1 DEF CallOK, Unanswered
      <4>3. QED  BY <1>8, <4>1, <4>2 DEF Gone
    <3>2. CASE i # r.id
      BY <1>4, <1>6, <1>7, <1>8, <2>4, <3>2 DEF Gone
    <3>3. QED  BY <3>1, <3>2
  <2>5. RemoveOK(host', board', wire', t)
    BY <1>3, <1>8, <1>11, <2>1, <2>4 DEF CallOK, RemoveOK
  <2>6. ClearOK(host', board', wire', t)
    BY <1>3, <1>8, <1>11, <2>1, <2>4 DEF CallOK, ClearOK
  <2>7. QED  BY <2>2, <2>3, <2>5, <2>6 DEF CallOK
<1>14. Numbers(host', board', wire')
  <2>1. r.gen <= host.gen
    BY <1>1 DEF Numbers
  <2>2. \A k \in 1 .. Len(wire'.queue) :
          /\ wire'.queue[k].kind = "reply" => wire'.queue[k].seq \in 1 .. host'.seq
          /\ wire'.queue[k].kind = "event" => wire'.queue[k].gen <= host'.gen
    BY <1>1, <1>3, <1>5, <1>8, <2>1 DEF Numbers
  <2>3. \A s \in rules : s.gen <= host'.gen
    BY <1>1, <1>3, <1>4, <1>7, <2>1 DEF Numbers
  <2>4. QED  BY <1>1, <1>3, <1>6, <1>8, <2>2, <2>3 DEF Numbers
<1>15. Listening(host', board', wire')
  <2>1. \A s \in rules : \A i \in Ids : s.gen \in host.cbs[i] => i = s.id
    BY <1>1, <1>4, <1>7 DEF Listening
  <2>2. \A s, q \in rules : s.id = q.id => s = q
    BY <1>1, <1>4, <1>7 DEF Listening
  <2>3. \A s \in rules : s.id \notin host.upset => host.cbs[s.id] = {s.gen}
    BY <1>1, <1>4, <1>7 DEF Listening
  <2>4. ASSUME NEW i \in Ids \ host.upset, NEW k \in Reports(wire', i)
        PROVE  host.cbs[i] = {wire'.queue[k].gen}
    <3>1. CASE k \in Reports(wire, i)
      BY <1>1, <1>10, <3>1 DEF Listening
    <3>2. CASE i = r.id /\ wire'.queue[k] = e
      BY <1>1, <1>5, <3>2 DEF Listening
    <3>3. QED  BY <1>8, <2>4, <3>1, <3>2
  <2>5. QED  BY <1>1, <1>3, <1>6, <2>1, <2>2, <2>3, <2>4 DEF Listening
<1>16. Told(host', board', wire')
  <2> SUFFICES ASSUME ~wire'.dropped, NEW s \in rules, s.primed, s.id \notin host.upset
               PROVE  Settled(host', wire', s)
    BY <1>3, <1>6 DEF Told
  <2>1. CASE s = r2
    <3>1. n \in Reports(wire', s.id) /\ wire'.queue[n].state = s.state
      BY <1>4, <1>5, <1>8, <2>1
    <3>2. n \in Nat
      BY <1>1 DEF n, WatchWires
    <3>3. \A j \in Reports(wire', s.id) : j <= n
      BY <1>1, <1>4, <1>8, <1>10, <2>1, <3>2, Places
    <3>4. QED  BY <3>1, <3>3 DEF Settled
  <2>2. CASE s \in board.rules /\ s.id # r.id
    <3>1. Settled(host, wire, s) /\ Reports(wire', s.id) = Reports(wire, s.id)
      BY <1>1, <1>8, <2>2 DEF Told
    <3>2. QED  BY <1>3, <1>10, <3>1 DEF Settled
  <2>3. QED  BY <1>7, <2>1, <2>2
<1>17. QED
  BY <1>1, <1>3, <1>9, <1>13, <1>14, <1>15, <1>16 DEF WatchInv, WatchSound

\* The first frame of the queue is gone from w.
OneLess(w) ==
  /\ w.queue \in Seq(Reply \cup Report)
  /\ 1 \in 1 .. Len(wire.queue) /\ wire.queue[1] = Head(wire.queue)
  /\ \A k \in 1 .. Len(w.queue) :
       k \in Nat /\ k + 1 \in 1 .. Len(wire.queue) /\ w.queue[k] = wire.queue[k + 1]
  /\ \A i : \A k \in Reports(w, i) :
       k \in Nat /\ k + 1 \in Reports(wire, i) /\ w.queue[k] = wire.queue[k + 1]
  /\ \A i : \A k \in Reports(wire, i) :
       k \in Nat /\ (k = 1 \/ (k - 1 \in Reports(w, i) /\ w.queue[k - 1] = wire.queue[k]))
  /\ \A t, s : \A k \in Answers(w, t, s) :
       k \in Nat /\ k + 1 \in Answers(wire, t, s) /\ w.queue[k] = wire.queue[k + 1]

LEMMA Tailed ==
  ASSUME NEW w, wire \in WatchWires, wire.queue # <<>>, w.queue = Tail(wire.queue)
  PROVE  OneLess(w)
<1>1. wire.queue \in Seq(Reply \cup Report)
  BY DEF WatchWires
<1>2. /\ w.queue \in Seq(Reply \cup Report) /\ Len(w.queue) = Len(wire.queue) - 1
      /\ Len(wire.queue) \in Nat /\ Len(wire.queue) > 0 /\ wire.queue[1] = Head(wire.queue)
      /\ \A k \in 1 .. Len(wire.queue) - 1 : w.queue[k] = wire.queue[k + 1]
  BY <1>1
<1>3. /\ 1 \in 1 .. Len(wire.queue)
      /\ \A k \in 1 .. Len(w.queue) :
           k \in Nat /\ k + 1 \in 1 .. Len(wire.queue) /\ w.queue[k] = wire.queue[k + 1]
      /\ \A k \in 1 .. Len(wire.queue) :
           k \in Nat /\ (k = 1 \/ (k - 1 \in 1 .. Len(w.queue) /\ w.queue[k - 1] = wire.queue[k]))
  BY <1>2
<1>4. ASSUME NEW i, NEW k \in Reports(w, i)
      PROVE  k \in Nat /\ k + 1 \in Reports(wire, i) /\ w.queue[k] = wire.queue[k + 1]
  BY <1>3, <1>4 DEF Reports
<1>5. ASSUME NEW i, NEW k \in Reports(wire, i)
      PROVE  k \in Nat /\ (k = 1 \/ (k - 1 \in Reports(w, i) /\ w.queue[k - 1] = wire.queue[k]))
  BY <1>3, <1>5 DEF Reports
<1>6. ASSUME NEW t, NEW s, NEW k \in Answers(w, t, s)
      PROVE  k \in Nat /\ k + 1 \in Answers(wire, t, s) /\ w.queue[k] = wire.queue[k + 1]
  BY <1>3, <1>6 DEF Answers
<1>7. QED  BY <1>2, <1>3, <1>4, <1>5, <1>6 DEF OneLess

LEMMA DeliverWatchKeeps ==
  ASSUME WatchInv, Watch!Deliver
  PROVE  WatchInv'
<1> DEFINE f == Head(wire.queue)
           c == host.call[f.thread]
           mine == f.kind = "reply" /\ c.seq = f.seq
           hears(g) == f.kind = "event" /\ g \in host.cbs[f.id]
<1>1. /\ host \in WatchHosts /\ host.gen \in Nat /\ host.seq \in Nat
      /\ board \in WatchBoards /\ wire \in WatchWires
      /\ Numbers(host, board, wire) /\ Listening(host, board, wire) /\ Told(host, board, wire)
      /\ (\A t \in Threads : CallOK(host, board, wire, t)) /\ ~host.foreign
      /\ \A t \in Threads : host.call[t] \in WatchCalls /\ host.call[t].seq \in Nat
  BY DEF WatchInv, WatchSound, WatchTyped, WatchHosts, WatchCalls
<1>2. wire' = [wire EXCEPT !.queue = Tail(@)] /\ board' = board /\ wire.queue # <<>>
  BY DEF Watch!Deliver
<1>3. OneLess(wire') /\ wire' \in WatchWires /\ wire'.dropped = wire.dropped
  <2>1. wire'.queue = Tail(wire.queue) /\ wire'.dropped = wire.dropped
        /\ wire' = [wire EXCEPT !.queue = wire'.queue]
    BY <1>1, <1>2 DEF WatchWires
  <2>2. OneLess(wire')
    BY <1>1, <1>2, <2>1, Tailed
  <2>3. wire' \in WatchWires
    BY <1>1, <2>1, <2>2 DEF OneLess, WatchWires
  <2>4. QED  BY <2>1, <2>2, <2>3
<1>4. /\ 1 \in 1 .. Len(wire.queue) /\ wire.queue[1] = f
      /\ f.kind = "reply" => f \in Reply /\ f.thread \in Threads /\ f.seq \in Nat
                             /\ f.seq # 0 /\ 1 \in Answers(wire, f.thread, f.seq)
      /\ f.kind = "event" => f \in Report /\ f.id \in Ids /\ 1 \in Reports(wire, f.id)
      /\ f.kind = "reply" \/ f.kind = "event"
  <2>1. 1 \in 1 .. Len(wire.queue) /\ wire.queue[1] = f
    BY <1>3 DEF OneLess
  <2>2. f \in Reply \cup Report
    BY <1>1, <2>1 DEF WatchWires
  <2>3. /\ f.kind = "reply" => f \in Reply /\ f.thread \in Threads /\ f.seq \in Nat
        /\ f.kind = "event" => f \in Report /\ f.id \in Ids
        /\ f.kind = "reply" \/ f.kind = "event"
    BY <2>2 DEF Reply, Report
  <2>4. f.kind = "reply" => f.seq \in 1 .. host.seq
    BY <1>1, <2>1 DEF Numbers
  <2> HIDE DEF f
  <2>5. QED  BY <1>1, <2>1, <2>3, <2>4 DEF Answers, Reports
<1>5. /\ host' \in WatchHosts /\ host'.ids = host.ids /\ host'.cbs = host.cbs
      /\ host'.gen = host.gen /\ host'.seq = host.seq /\ host'.returned = host.returned
      /\ host'.upset = host.upset /\ ~host'.foreign
      /\ \A t \in Threads : host'.call[t] = IF mine /\ t = f.thread THEN [c EXCEPT !.at = f.at]
                                            ELSE host.call[t]
      /\ \A g \in Watch!Gens : host'.told[g] = IF hears(g) THEN f.state ELSE host.told[g]
  <2>1. CASE f.kind = "event"
    <3> DEFINE told == [g \in Watch!Gens |-> IF g \in host.cbs[f.id] THEN f.state ELSE host.told[g]]
               foreign == host.foreign
                            \/ (host.cbs[f.id] \ {f.gen} # {} /\ f.id \notin host.upset)
    <3>1. host' = [host EXCEPT !.told = told, !.foreign = foreign]
      BY <1>1, <2>1 DEF Watch!Deliver, WatchHosts
    <3>2. told \in [Watch!Gens -> {0, 1, Watch!Unknown}]
      BY <1>1, <1>4, <2>1 DEF WatchHosts, Report
    <3>3. ~foreign
      <4>1. f.id \notin host.upset => host.cbs[f.id] = {f.gen}
        BY <1>1, <1>4, <2>1 DEF Listening
      <4>2. QED  BY <1>1, <4>1
    <3>4. foreign \in BOOLEAN
      OBVIOUS
    <3>5. \A g \in Watch!Gens : told[g] = IF hears(g) THEN f.state ELSE host.told[g]
      BY <2>1
    <3>6. ~mine
      BY <2>1
    <3> HIDE DEF told, foreign, hears, mine, f, c
    <3>7. QED  BY <1>1, <3>1, <3>2, <3>3, <3>4, <3>5, <3>6 DEF WatchHosts
  <2>2. CASE mine
    <3> DEFINE d == [c EXCEPT !.at = f.at]
               calls == [host.call EXCEPT ![f.thread] = d]
    <3>1. host' = [host EXCEPT !.call = calls]
      BY <1>1, <1>4, <2>2 DEF Watch!Deliver, WatchHosts
    <3>2. c \in WatchCalls /\ f.at \in {"ok", "err"}
      BY <1>1, <1>4, <2>2 DEF Reply
    <3>3. d \in WatchCalls
      BY <3>2 DEF WatchCalls
    <3>4. calls \in [Threads -> WatchCalls]
          /\ \A t \in Threads : calls[t] = IF mine /\ t = f.thread THEN d ELSE host.call[t]
      BY <1>1, <1>4, <2>2, <3>3 DEF WatchHosts
    <3>5. \A g : ~hears(g)
      BY <2>2
    <3> HIDE DEF d, calls, hears, mine
    <3>6. QED  BY <1>1, <3>1, <3>4, <3>5 DEF WatchHosts, d
  <2>3. CASE f.kind = "reply" /\ ~mine
    <3>1. host' = host
      BY <2>3 DEF Watch!Deliver
    <3>2. \A g : ~hears(g)
      BY <2>3
    <3> HIDE DEF hears, mine
    <3>3. QED  BY <1>1, <2>3, <3>1, <3>2
  <2>4. QED  BY <1>4, <2>1, <2>2, <2>3
<1> HIDE DEF f, hears, mine
<1>6. WatchTyped(host', board', wire')
  BY <1>1, <1>2, <1>3, <1>5 DEF WatchTyped
<1>7. \A g : Unmade(board, wire, g) => Unmade(board', wire', g)
  BY <1>2, <1>3 DEF Unmade, OneLess
<1>8. /\ \A i : Reports(wire, i) = {} => Reports(wire', i) = {}
      /\ \A t, s : Answers(wire, t, s) = {} => Answers(wire', t, s) = {}
  BY <1>3 DEF OneLess
<1>9. ASSUME NEW i, NEW t, NEW b, Gone(board, wire, i, t, b)
      PROVE  Gone(board', wire', i, t, b)
  <2>1. ASSUME NEW k \in Answers(wire', t, b.seq), NEW j \in Reports(wire', i) PROVE j < k
    <3>1. k + 1 \in Answers(wire, t, b.seq) /\ j + 1 \in Reports(wire, i) /\ k \in Nat /\ j \in Nat
      BY <1>3, <2>1 DEF OneLess
    <3>2. j + 1 < k + 1
      BY <1>9, <3>1 DEF Gone
    <3>3. QED  BY <3>1, <3>2
  <2>2. QED  BY <1>2, <1>8, <1>9, <2>1 DEF Gone
<1>10. \A t, s : \A k \in Answers(wire', t, s) :
         k + 1 \in Answers(wire, t, s) /\ wire'.queue[k] = wire.queue[k + 1]
  BY <1>3 DEF OneLess
<1>11. ASSUME NEW t \in Threads, host'.call[t] = host.call[t],
              \A u \in Threads : host'.call[u].op = host.call[u].op
       PROVE  CallOK(host', board', wire', t)
  <2> DEFINE b == host.call[t]
  <2>1. CallOK(host, board, wire, t)
    BY <1>1
  <2>2. Unanswered(host', wire', t)
    BY <1>8, <1>11, <2>1 DEF CallOK, Unanswered
  <2>3. AddOK(host', board', wire', t)
    BY <1>5, <1>7, <1>10, <1>11, <2>1 DEF CallOK, AddOK
  <2>4. RemoveOK(host', board', wire', t)
    BY <1>5, <1>9, <1>10, <1>11, <2>1 DEF CallOK, RemoveOK
  <2>5. ClearOK(host', board', wire', t)
    BY <1>5, <1>9, <1>10, <1>11, <2>1 DEF CallOK, ClearOK
  <2>6. QED  BY <2>2, <2>3, <2>4, <2>5 DEF CallOK
<1>12. \A u \in Threads : /\ host'.call[u].op = host.call[u].op /\ host'.call[u].seq = host.call[u].seq
                          /\ host'.call[u].gen = host.call[u].gen
                          /\ host.call[u].op = "none" => host'.call[u] = host.call[u]
  <2>1. mine => c.op # "none" /\ f.thread \in Threads
    BY <1>1, <1>4 DEF mine, Numbers, Watch!Idle
  <2>2. mine => LET d == [c EXCEPT !.at = f.at]
                IN  d.op = c.op /\ d.seq = c.seq /\ d.gen = c.gen
    BY <1>1, <2>1 DEF WatchCalls
  <2>3. QED  BY <1>5, <2>1, <2>2
\* The call that is answered.
<1>13. ASSUME mine PROVE CallOK(host', board', wire', f.thread)
  <2> DEFINE t == f.thread
             d == [c EXCEPT !.at = f.at]
  <2>1. /\ t \in Threads /\ CallOK(host, board, wire, t) /\ host'.call[t] = d
        /\ 1 \in Answers(wire, t, c.seq) /\ c.seq \in Nat /\ c \in WatchCalls
        /\ f.at \in {"ok", "err"} /\ wire.queue[1] = f
    BY <1>1, <1>4, <1>5, <1>13 DEF mine, Reply
  <2>2. d.at = f.at /\ d.op = c.op /\ d.seq = c.seq /\ d.id = c.id /\ d.gen = c.gen
    BY <2>1 DEF WatchCalls
  <2> HIDE DEF d, t
  <2>3. Answers(wire', t, c.seq) = {}
    <3>1. ASSUME NEW k \in Answers(wire', t, c.seq) PROVE FALSE
      <4>1. k \in Nat /\ k + 1 \in Answers(wire, t, c.seq)
        BY <1>3, <3>1 DEF OneLess
      <4>2. k + 1 = 1
        BY <1>1, <2>1, <4>1 DEF Numbers
      <4>3. k \in 1 .. Len(wire'.queue)
        BY DEF Answers
      <4>4. QED  BY <4>1, <4>2, <4>3
    <3>2. QED  BY <3>1
  <2>4. c.at = "done" /\ host.call[t] = c
    BY <2>1 DEF CallOK, Unanswered, t
  <2>5. ASSUME NEW i \in Ids, Gone(board, wire, i, t, c)
        PROVE  Gone(board', wire', i, t, d)
    <3>1. \A j \in Reports(wire, i) : j < 1 /\ j \in Nat /\ j \in 1 .. Len(wire.queue)
      BY <1>1, <1>3, <2>1, <2>5, Places DEF Gone, OneLess
    <3>2. Reports(wire, i) = {}
      BY <3>1
    <3>3. Reports(wire', i) = {}
      BY <1>8, <3>2
    <3>4. QED  BY <1>2, <2>2, <2>3, <2>4, <2>5, <3>3 DEF Gone
  <2>6. Unanswered(host', wire', t)
    BY <2>1, <2>2, <2>3 DEF Unanswered
  <2>7. AddOK(host', board', wire', t)
    <3> SUFFICES ASSUME c.op = "add" PROVE AddOK(host', board', wire', t)
      BY <2>1, <2>2 DEF AddOK
    <3>1. /\ c.id \in Ids /\ c.gen \in Watch!Gens /\ c.gen <= host.gen /\ c.gen \notin host.returned
          /\ \A j \in Ids : c.gen \in host.cbs[j] => j = c.id
          /\ c.id \notin host.upset => host.cbs[c.id] = {c.gen}
          /\ f.at = "err" => Unmade(board, wire, c.gen)
      BY <2>1, <2>4 DEF CallOK, AddOK
    <3>2. f.at # "register" /\ f.at # "sent"
      BY <2>1
    <3>3. QED  BY <1>5, <1>7, <2>1, <2>2, <2>3, <3>1, <3>2 DEF AddOK
  <2>8. RemoveOK(host', board', wire', t)
    <3> SUFFICES ASSUME c.op = "remove" PROVE RemoveOK(host', board', wire', t)
      BY <2>1, <2>2 DEF RemoveOK
    <3>1. /\ c.id \in Ids /\ f.at = "ok"
          /\ c.id \notin host.upset =>
               host.cbs[c.id] \cap host.returned # {} /\ Gone(board, wire, c.id, t, c)
      BY <2>1, <2>4 DEF CallOK, RemoveOK
    <3>2. QED  BY <1>5, <2>1, <2>2, <2>3, <2>5, <3>1 DEF RemoveOK
  <2>9. ClearOK(host', board', wire', t)
    <3> SUFFICES ASSUME c.op = "clear" PROVE ClearOK(host', board', wire', t)
      BY <2>1, <2>2 DEF ClearOK
    <3>1. /\ f.at = "ok"
          /\ \A i \in Ids \ host.upset : /\ \A u \in Threads \ {t} : host.call[u].op = "none"
                                         /\ Gone(board, wire, i, t, c)
      BY <2>1, <2>4 DEF CallOK, ClearOK
    <3>2. QED  BY <1>5, <1>12, <2>1, <2>2, <2>3, <2>5, <3>1 DEF ClearOK
  <2>10. QED  BY <2>6, <2>7, <2>8, <2>9 DEF CallOK, t
<1>14. ASSUME NEW t \in Threads PROVE CallOK(host', board', wire', t)
  BY <1>5, <1>11, <1>12, <1>13
<1>15. Numbers(host', board', wire')
  <2>1. \A u \in Threads : host'.call[u].op = "none" <=> host'.call[u] = Watch!Idle
    BY <1>1, <1>12 DEF Numbers, Watch!Idle
  <2>2. \A k \in 1 .. Len(wire'.queue) :
          /\ wire'.queue[k].kind = "reply" => wire'.queue[k].seq \in 1 .. host'.seq
          /\ wire'.queue[k].kind = "event" => wire'.queue[k].gen <= host'.gen
    BY <1>1, <1>3, <1>5 DEF Numbers, OneLess
  <2>3. ASSUME NEW u \in Threads, NEW s \in Nat, NEW j \in Answers(wire', u, s),
               NEW k \in Answers(wire', u, s)
        PROVE  j = k
    <3>1. j \in Nat /\ k \in Nat /\ j + 1 \in Answers(wire, u, s) /\ k + 1 \in Answers(wire, u, s)
      BY <1>3, <2>3 DEF OneLess
    <3>2. j + 1 = k + 1
      BY <1>1, <3>1 DEF Numbers
    <3>3. QED  BY <3>1, <3>2
  <2>4. \A u \in Threads : host'.call[u].op # "none" => host'.call[u].seq \in 1 .. host'.seq
    BY <1>1, <1>5, <1>12 DEF Numbers
  <2>5. \A v, u \in Threads :
          host'.call[v].op = "add" /\ host'.call[u].op = "add" /\ v # u
            => host'.call[v].gen # host'.call[u].gen
    BY <1>1, <1>12 DEF Numbers
  <2>6. QED
    BY <1>1, <1>2, <1>5, <2>1, <2>2, <2>3, <2>4, <2>5 DEF Numbers
<1>16. Listening(host', board', wire')
  <2>1. \A i \in Ids \ host.upset : \A k \in Reports(wire', i) : host.cbs[i] = {wire'.queue[k].gen}
    BY <1>1, <1>3 DEF Listening, OneLess
  <2>2. /\ \A i \in Ids : host'.cbs[i] # {} <=> i \in host'.ids
        /\ \A r \in board'.rules : \A i \in Ids : r.gen \in host'.cbs[i] => i = r.id
        /\ \A r, s \in board'.rules : r.id = s.id => r = s
        /\ \A r \in board'.rules : r.id \notin host'.upset => host'.cbs[r.id] = {r.gen}
    BY <1>1, <1>2, <1>5 DEF Listening
  <2>3. QED  BY <1>5, <2>1, <2>2 DEF Listening
<1>17. Told(host', board', wire')
  <2> SUFFICES ASSUME ~wire.dropped, NEW r \in board.rules, r.primed, r.id \notin host.upset
               PROVE  Settled(host', wire', r)
    BY <1>2, <1>3, <1>5 DEF Told
  <2>1. Settled(host, wire, r) /\ r.id \in Ids /\ r.gen \in Watch!Gens
    BY <1>1 DEF Told, WatchBoards, WatchRule
  <2>2. CASE Reports(wire, r.id) = {} /\ host.told[r.gen] = r.state
    <3>1. ~hears(r.gen)
      BY <1>1, <1>4, <2>1, <2>2 DEF hears, Listening
    <3>2. QED  BY <1>5, <1>8, <2>1, <2>2, <3>1 DEF Settled
  <2>3. ASSUME NEW k \in Reports(wire, r.id), wire.queue[k].state = r.state,
               \A j \in Reports(wire, r.id) : j <= k
        PROVE  Settled(host', wire', r)
    <3>1. CASE k = 1
      <4>1. f.kind = "event" /\ f.id = r.id /\ f.state = r.state
        BY <1>4, <2>3, <3>1 DEF Reports
      <4>2. hears(r.gen)
        BY <1>1, <2>1, <4>1 DEF Listening, hears
      <4>3. Reports(wire', r.id) = {}
        <5>1. ASSUME NEW j \in Reports(wire', r.id) PROVE FALSE
          <6>1. j \in Nat /\ j + 1 \in Reports(wire, r.id) /\ j \in 1 .. Len(wire'.queue)
            BY <1>3, <5>1 DEF OneLess, Reports
          <6>2. j + 1 <= 1
            BY <2>3, <3>1, <6>1
          <6>3. QED  BY <6>1, <6>2
        <5>2. QED  BY <5>1
      <4>4. QED  BY <1>5, <2>1, <4>1, <4>2, <4>3 DEF Settled
    <3>2. CASE k # 1
      <4>1. k \in Nat /\ k - 1 \in Reports(wire', r.id) /\ wire'.queue[k - 1].state = r.state
        BY <1>3, <2>3, <3>2 DEF OneLess
      <4>2. ASSUME NEW j \in Reports(wire', r.id) PROVE j <= k - 1
        <5>1. j \in Nat /\ j + 1 \in Reports(wire, r.id)
          BY <1>3, <4>2 DEF OneLess
        <5>2. QED  BY <2>3, <4>1, <5>1
      <4>3. QED  BY <4>1, <4>2 DEF Settled
    <3>3. QED  BY <3>1, <3>2
  <2>4. QED  BY <2>1, <2>2, <2>3 DEF Settled
<1>18. QED
  BY <1>5, <1>6, <1>14, <1>15, <1>16, <1>17 DEF WatchInv, WatchSound

LEMMA WatchStep ==
  ASSUME WatchInv, [Watch!Next]_(Watch!vars)
  PROVE  WatchInv'
<1>1. ASSUME UNCHANGED host, UNCHANGED wire,
             board'.rules = board.rules, board' \in WatchBoards
      PROVE  WatchInv'
  <2>1. /\ \A i : Reports(wire', i) = Reports(wire, i)
        /\ \A t, s : Answers(wire', t, s) = Answers(wire, t, s)
        /\ \A g : Unmade(board', wire', g) <=> Unmade(board, wire, g)
    BY <1>1 DEF Reports, Answers, Unmade
  <2>2. \A t \in Threads : CallOK(host', board', wire', t)
    BY <1>1, <2>1 DEF WatchInv, WatchSound, CallOK, Unanswered, AddOK, RemoveOK, ClearOK, Gone
  <2>3. Numbers(host', board', wire')
    BY <1>1, <2>1 DEF WatchInv, WatchSound, Numbers
  <2>4. Listening(host', board', wire')
    BY <1>1, <2>1 DEF WatchInv, WatchSound, Listening
  <2>5. Told(host', board', wire')
    BY <1>1, <2>1 DEF WatchInv, WatchSound, Told, Settled
  <2>6. QED
    BY <1>1, <2>2, <2>3, <2>4, <2>5 DEF WatchInv, WatchSound, WatchTyped
<1>2. ASSUME UNCHANGED Watch!vars PROVE WatchInv'
  BY <1>2 DEF Watch!vars, WatchInv
<1>3. ASSUME NEW v \in Values, Watch!SourceMoves(v) PROVE WatchInv'
  <2>1. board' \in WatchBoards /\ board'.rules = board.rules /\ UNCHANGED <<host, wire>>
    BY <1>3 DEF Watch!SourceMoves, WatchInv, WatchSound, WatchTyped, WatchBoards
  <2>2. QED  BY <1>1, <2>1
<1>4. ASSUME NEW t \in Threads, NEW id \in Ids, Watch!Remove(t, id) PROVE WatchInv'
  <2>1. /\ host.call[t] = Watch!Idle /\ host.cbs[id] \cap host.returned # {}
        /\ host' = Watch!Begin(t, "remove", id, 0) /\ UNCHANGED <<board, wire>>
    BY <1>4 DEF Watch!Remove
  <2>2. QED  BY <2>1, BeginKeeps
<1>5. ASSUME NEW t \in Threads, Watch!Clear(t) PROVE WatchInv'
  <2>1. /\ host.call[t] = Watch!Idle
        /\ host' = Watch!Begin(t, "clear", 0, 0) /\ UNCHANGED <<board, wire>>
    BY <1>5 DEF Watch!Clear
  <2>2. QED  BY <2>1, BeginKeeps
<1>6. CASE Watch!Rest
  BY <1>2, <1>6 DEF Watch!Rest
<1>7. QED
  BY <1>2, <1>3, <1>4, <1>5, <1>6, AddAllocKeeps, AddRegisterKeeps, GiveUpKeeps, FinishKeeps,
     ExecuteKeeps, PollKeeps, DeliverWatchKeeps DEF Watch!Next

\* A callback hears of its own rule only, and in the end the state the rule is in (Watch,
\* esp/mod_watch.cpp), whatever the threads, the faults and the order of requests, samples
\* and replies.
THEOREM WatchStaysTold == BoardSpec => []WatchTold
<1> DEFINE Inv == part = "watch" => WatchInv
<1>1. BoardInit => Inv
  BY WatchInit DEF BoardInit
<1>2. Inv /\ [BoardNext]_Parted => Inv'
  <2> SUFFICES ASSUME part = "watch" => WatchInv, [BoardNext]_Parted, part' = "watch"
               PROVE  WatchInv'
    OBVIOUS
  <2>1. part = "watch" /\ [Watch!Next]_(Watch!vars)
    BY DEF BoardNext, Parted, Watch!vars
  <2>2. QED  BY <2>1, WatchStep
<1>3. Inv => WatchTold
  BY WatchMeans DEF WatchTold
<1>4. QED  BY <1>1, <1>2, <1>3, PTL DEF BoardSpec

=============================================================================
