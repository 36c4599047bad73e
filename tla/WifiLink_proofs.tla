--------------------------- MODULE WifiLink_proofs ---------------------------
(***************************************************************************)
(* Proofs about WifiLink for any number of sessions, any lengths of        *)
(* streams and queues, and any number of losses of the access point.       *)
(*                                                                         *)
(* OriginInv is the key: while a session has the link, whatever is queued, *)
(* being executed or being written belongs to it, or to a session whose    *)
(* requests were seen to outlive it.  ChunkInv says where rx_task can be   *)
(* when it was not inside a session at its end.                            *)
(***************************************************************************)
EXTENDS WifiLink, SequenceTheorems, TLAPS

\* rx_task reads for the session that has the link; slow_task has a request
\* at hand where it runs one.
PlaceInv ==
  /\ chunk.left > 0 => chunk.of # NoOne
  /\ running # NoOne <=> slowAt = "run"

\* Unless it straddled two sessions, rx_task is inside the one that has the
\* link, and the accumulator holds nothing of another.
ChunkInv ==
  ~straddled =>
    /\ sock # NoOne /\ chunk.left > 0 => chunk.of = sock
    /\ sock # NoOne => acc \in {NoOne, sock}
    /\ chunk.left > 0 => acc \in {NoOne, chunk.of}

Own == {sock, NoOne} \cup outlived

OriginInv ==
  sock # NoOne =>
    /\ chunk.of \in Own /\ held \in Own /\ running \in Own
    /\ \A i \in DOMAIN slowq : slowq[i] \in Own
    /\ \A i \in DOMAIN txq : txq[i] \in Own
    /\ wire.for \in Own

IInv ==
  /\ TypeOK /\ PlaceInv /\ ChunkInv /\ OriginInv
  /\ AuthIsOwn /\ AnswersStay /\ FramesStayWhole /\ HalfFramesForgotten

-----------------------------------------------------------------------------
LEMMA SetFacts ==
  ASSUME NEW S, NEW q \in Seq(S)
  PROVE  /\ \A x : x \in ToSet(q) <=> \E i \in DOMAIN q : q[i] = x
         /\ Len(q) \in Nat /\ DOMAIN q = 1 .. Len(q) /\ \A i \in DOMAIN q : q[i] \in S
  BY DEF ToSet

\* An element more, or one less.
LEMMA QueueFacts ==
  ASSUME NEW S, NEW q \in Seq(S)
  PROVE  /\ \A x \in S : /\ Append(q, x) \in Seq(S) /\ Len(Append(q, x)) = Len(q) + 1
                         /\ \A i \in DOMAIN Append(q, x) :
                              Append(q, x)[i] = x \/ \E j \in DOMAIN q : Append(q, x)[i] = q[j]
         /\ q # <<>> => /\ Tail(q) \in Seq(S) /\ Len(Tail(q)) = Len(q) - 1
                        /\ Head(q) \in S /\ (\E j \in DOMAIN q : Head(q) = q[j])
                        /\ \A i \in DOMAIN Tail(q) : \E j \in DOMAIN q : Tail(q)[i] = q[j]
<1>1. Len(q) \in Nat /\ DOMAIN q = 1 .. Len(q)
  OBVIOUS
<1>2. ASSUME NEW x \in S
      PROVE  /\ Append(q, x) \in Seq(S) /\ Len(Append(q, x)) = Len(q) + 1
             /\ \A i \in DOMAIN Append(q, x) :
                  Append(q, x)[i] = x \/ \E j \in DOMAIN q : Append(q, x)[i] = q[j]
  <2>1. \A i \in 1 .. (Len(q) + 1) : i \in 1 .. Len(q) \/ i = Len(q) + 1
    BY <1>1
  <2>2. QED  BY <1>1, <2>1
<1>3. ASSUME q # <<>>
      PROVE  /\ Tail(q) \in Seq(S) /\ Len(Tail(q)) = Len(q) - 1
             /\ Head(q) \in S /\ (\E j \in DOMAIN q : Head(q) = q[j])
             /\ \A i \in DOMAIN Tail(q) : \E j \in DOMAIN q : Tail(q)[i] = q[j]
  <2>1. Len(q) >= 1 /\ Head(q) = q[1] /\ 1 \in DOMAIN q
    BY <1>1, <1>3
  <2>2. DOMAIN Tail(q) = 1 .. (Len(q) - 1) /\ \A i \in DOMAIN Tail(q) : Tail(q)[i] = q[i + 1]
    BY <1>1, <1>3
  <2>3. \A i \in 1 .. (Len(q) - 1) : i + 1 \in 1 .. Len(q)
    BY <1>1
  <2>4. QED  BY <1>1, <1>3, <2>1, <2>2, <2>3
<1>4. QED  BY <1>2, <1>3

LEMMA EnqueueFacts ==
  ASSUME TypeOK, NEW s \in Sessions, Enqueue(s)
  PROVE  /\ txq' \in Seq(Sessions \cup {Event}) /\ Len(txq') <= TxQueue
         /\ \A i \in DOMAIN txq' : txq'[i] = s \/ \E j \in DOMAIN txq : txq'[i] = txq[j]
<1>1. txq \in Seq(Sessions \cup {Event}) /\ Len(txq) <= TxQueue /\ Len(txq) \in Nat /\ TxQueue \in Nat
  BY LinkAssumption DEF TypeOK
<1>2. CASE Len(txq) < TxQueue
  <2>1. txq' = Append(txq, s) /\ s \in Sessions \cup {Event}
    BY <1>2 DEF Enqueue
  <2>2. QED  BY <1>1, <1>2, <2>1, QueueFacts
<1>3. CASE ~(Len(txq) < TxQueue)
  BY <1>1, <1>3 DEF Enqueue
<1>4. QED  BY <1>2, <1>3

\* A frame that rx_task executes.
LEMMA ExecuteFacts ==
  ASSUME TypeOK, NEW s \in Sessions, NEW kind \in Kinds, Execute(s, kind)
  PROVE  /\ authed' \in BOOLEAN /\ granted' \in Sessions \cup {NoOne} /\ held' \in {s, NoOne}
         /\ slowq' \in Seq(Sessions) /\ Len(slowq') <= SlowQueue
         /\ txq' \in Seq(Sessions \cup {Event}) /\ Len(txq') <= TxQueue
         /\ \A i \in DOMAIN txq' : txq'[i] = s \/ \E j \in DOMAIN txq : txq'[i] = txq[j]
         /\ \A i \in DOMAIN slowq' : slowq'[i] = s \/ \E j \in DOMAIN slowq : slowq'[i] = slowq[j]
         /\ (authed => authed')
<1>1. /\ authed \in BOOLEAN /\ granted \in Sessions \cup {NoOne}
      /\ slowq \in Seq(Sessions) /\ Len(slowq) <= SlowQueue /\ Len(slowq) \in Nat /\ SlowQueue \in Nat
      /\ txq \in Seq(Sessions \cup {Event}) /\ Len(txq) <= TxQueue
  BY LinkAssumption DEF TypeOK
<1>2. authed' \in BOOLEAN /\ granted' \in Sessions \cup {NoOne} /\ held' \in {s, NoOne} /\ (authed => authed')
  BY <1>1 DEF Execute
<1>3. /\ slowq' \in Seq(Sessions) /\ Len(slowq') <= SlowQueue
      /\ \A i \in DOMAIN slowq' : slowq'[i] = s \/ \E j \in DOMAIN slowq : slowq'[i] = slowq[j]
  <2>1. slowq' = slowq \/ (slowq' = Append(slowq, s) /\ Len(slowq) < SlowQueue)
    BY DEF Execute
  <2>2. CASE slowq' = slowq
    BY <1>1, <2>2
  <2>3. CASE slowq' = Append(slowq, s) /\ Len(slowq) < SlowQueue
    <3>1. /\ Append(slowq, s) \in Seq(Sessions) /\ Len(Append(slowq, s)) = Len(slowq) + 1
          /\ \A i \in DOMAIN Append(slowq, s) :
               Append(slowq, s)[i] = s \/ \E j \in DOMAIN slowq : Append(slowq, s)[i] = slowq[j]
      BY <1>1, QueueFacts
    <3>2. QED  BY <1>1, <2>3, <3>1
  <2>4. QED  BY <2>1, <2>2, <2>3
<1>4. /\ txq' \in Seq(Sessions \cup {Event}) /\ Len(txq') <= TxQueue
      /\ \A i \in DOMAIN txq' : txq'[i] = s \/ \E j \in DOMAIN txq : txq'[i] = txq[j]
  <2>1. txq' = txq \/ Enqueue(s)
    BY DEF Execute
  <2>2. QED  BY <1>1, <2>1, EnqueueFacts
<1>5. QED  BY <1>2, <1>3, <1>4

\* A pass of tx_task that loads, writes or gives up a frame.
LEMMA TxFacts ==
  ASSUME TypeOK, TxPass
  PROVE  /\ txq' \in Seq(Sessions \cup {Event}) /\ Len(txq') <= TxQueue
         /\ \A i \in DOMAIN txq' : \E j \in DOMAIN txq : txq'[i] = txq[j]
         /\ wire' \in [busy : BOOLEAN, for : Sessions \cup {Event}, begun : Sessions \cup {NoOne}]
         /\ \/ wire' = Idle
            \/ /\ sock # NoOne
               /\ wire'.begun \in {NoOne, sock} \/ (wire.busy /\ wire'.begun = wire.begun)
               /\ \/ wire.busy /\ wire'.for = wire.for
                  \/ \E j \in DOMAIN txq : wire'.for = txq[j]
         /\ \/ stray' = stray
            \/ /\ sock # NoOne
               /\ \E r \in Sessions : /\ r # sock /\ stray' = stray \cup {<<r, sock>>}
                                      /\ r = wire.for \/ \E j \in DOMAIN txq : r = txq[j]
         /\ peerDead' \in BOOLEAN
<1>1. /\ txq \in Seq(Sessions \cup {Event}) /\ Len(txq) <= TxQueue /\ Len(txq) \in Nat /\ TxQueue \in Nat
      /\ wire \in [busy : BOOLEAN, for : Sessions \cup {Event}, begun : Sessions \cup {NoOne}]
      /\ sock \in Sessions \cup {NoOne} /\ peerDead \in BOOLEAN
  BY LinkAssumption DEF TypeOK
<1>2. Idle \in [busy : BOOLEAN, for : Sessions \cup {Event}, begun : Sessions \cup {NoOne}]
  BY DEF Idle, NoOne, Event
<1>3. CASE ~Up
  <2>1. txq' = <<>> /\ wire' = Idle /\ stray' = stray /\ peerDead' = peerDead
    BY <1>3 DEF TxPass
  <2>2. Len(<<>>) <= TxQueue /\ <<>> \in Seq(Sessions \cup {Event}) /\ DOMAIN <<>> = {}
    BY <1>1
  <2>3. QED  BY <1>1, <1>2, <2>1, <2>2
<1>4. CASE Up
  <2>1. sock \in Sessions /\ sock # NoOne
    BY <1>1, <1>4 DEF Up
  <2>2. txq' = (IF wire.busy THEN txq ELSE Tail(txq)) /\ (wire.busy \/ txq # <<>>)
    BY <1>4 DEF TxPass
  <2>3. /\ txq' \in Seq(Sessions \cup {Event}) /\ Len(txq') <= TxQueue
        /\ \A i \in DOMAIN txq' : \E j \in DOMAIN txq : txq'[i] = txq[j]
    <3>1. CASE wire.busy
      BY <1>1, <2>2, <3>1
    <3>2. CASE ~wire.busy
      <4>1. txq # <<>> /\ txq' = Tail(txq)
        BY <2>2, <3>2
      <4>2. QED  BY <1>1, <4>1, QueueFacts
    <3>3. QED  BY <3>1, <3>2
  <2>4. /\ Loaded \in [busy : BOOLEAN, for : Sessions \cup {Event}, begun : Sessions \cup {NoOne}]
        /\ \/ wire.busy /\ Loaded = wire
           \/ Loaded.begun = NoOne /\ \E j \in DOMAIN txq : Loaded.for = txq[j]
    <3>1. CASE wire.busy
      BY <1>1, <3>1 DEF Loaded
    <3>2. CASE ~wire.busy
      <4>1. Loaded = [busy |-> TRUE, for |-> Head(txq), begun |-> NoOne]
        BY <3>2 DEF Loaded, Idle
      <4>2. Head(txq) \in Sessions \cup {Event} /\ \E j \in DOMAIN txq : Head(txq) = txq[j]
        BY <1>1, <2>2, <3>2, QueueFacts
      <4>3. QED  BY <4>1, <4>2
    <3>3. QED  BY <3>1, <3>2
  <2>5. \/ wire' = Loaded
        \/ wire' = [Loaded EXCEPT !.begun = IF @ = NoOne THEN sock ELSE @]
        \/ wire' = Idle
    BY <1>4 DEF TxPass
  <2>6. /\ wire' \in [busy : BOOLEAN, for : Sessions \cup {Event}, begun : Sessions \cup {NoOne}]
        /\ \/ wire' = Idle
           \/ /\ wire'.begun \in {NoOne, sock} \/ (wire.busy /\ wire'.begun = wire.begun)
              /\ wire'.for = Loaded.for
    <3>1. CASE wire' = Loaded
      BY <2>4, <3>1
    <3>2. CASE wire' = [Loaded EXCEPT !.begun = IF @ = NoOne THEN sock ELSE @]
      <4>1. wire'.for = Loaded.for /\ wire'.busy = Loaded.busy
            /\ wire'.begun = IF Loaded.begun = NoOne THEN sock ELSE Loaded.begun
        BY <2>4, <3>2
      <4>2. wire' \in [busy : BOOLEAN, for : Sessions \cup {Event}, begun : Sessions \cup {NoOne}]
        BY <2>1, <2>4, <3>2
      <4>3. QED  BY <2>4, <4>1, <4>2
    <3>3. CASE wire' = Idle
      BY <1>2, <3>3
    <3>4. QED  BY <2>5, <3>1, <3>2, <3>3
  <2>7. \/ wire.busy /\ Loaded.for = wire.for
        \/ \E j \in DOMAIN txq : Loaded.for = txq[j]
    BY <2>4
  <2>8. \/ stray' = stray
        \/ Loaded.for \notin {Event, sock} /\ stray' = stray \cup {<<Loaded.for, sock>>}
    BY <1>4 DEF TxPass
  <2>9. Loaded.for \in Sessions \cup {Event}
    BY <2>4
  <2>10. \/ stray' = stray
         \/ \E r \in Sessions : /\ r # sock /\ stray' = stray \cup {<<r, sock>>}
                                /\ r = wire.for \/ \E j \in DOMAIN txq : r = txq[j]
    BY <2>7, <2>8, <2>9
  <2>11. peerDead' \in BOOLEAN
    BY <1>1, <1>4 DEF TxPass
  <2>12. QED  BY <2>1, <2>3, <2>6, <2>7, <2>10, <2>11
<1>5. QED  BY <1>3, <1>4

-----------------------------------------------------------------------------
(* The steps, by what they mean for the sessions' frames *)

\* The hosts, the radio and a poll that neither drops a session nor starts one.
Aside ==
  /\ UNCHANGED <<sock, authed, chunk, acc, held, slowq, running, tx, ghosts>>
  /\ slowAt' = slowAt \/ (slowAt # "run" /\ slowAt' = "loop")

Drops  == slowAt # "run" /\ \E where \in {"dead", "lost"} : DropBegin(where)
Adopts == slowAt # "run" /\ \E s \in Sessions : Adopt(s)

RxPieces == \E kind \in Kinds : RxPiece(kind)

LEMMA StepCases ==
  ASSUME TypeOK, [Next]_vars
  PROVE  \/ Aside \/ EmitEvent \/ TxPass \/ RxRead \/ RxPieces \/ RxUnblock
         \/ SlowTake \/ SlowReply \/ Drops \/ DropEnd \/ Adopts
<1> USE DEF air, peer, fds, rx, slow, tx, ghosts
<1>1. CASE Environment
  <2>1. UNCHANGED <<sock, authed, chunk, acc, held, slowq, running, tx, ghosts>> /\ slowAt' = slowAt
    BY <1>1 DEF Environment, Joins, LosesAccessPoint, HostConnects, HostCloses
  <2>2. QED  BY <2>1 DEF Aside
<1>2. CASE RxTask
  BY <1>2 DEF RxTask, RxPieces
<1>3. CASE PollDead
  <2>1. slowAt # "run" /\ DropBegin("dead")
    BY <1>3 DEF PollDead, Due
  <2>2. QED  BY <2>1 DEF Drops
<1>4. CASE PollLost
  <2>1. slowAt # "run" /\ DropBegin("lost")
    BY <1>4 DEF PollLost, Polling, Due
  <2>2. QED  BY <2>1 DEF Drops
<1>5. CASE PollUnjoined \/ PollNothing
  <2>1. slowAt # "run" /\ slowAt' = "loop"
    BY <1>5 DEF PollUnjoined, PollNothing, Polling, Due
  <2>2. UNCHANGED <<sock, authed, chunk, acc, held, slowq, running, tx, ghosts>>
    BY <1>5 DEF PollUnjoined, PollNothing
  <2>3. QED  BY <2>1, <2>2 DEF Aside
<1>6. CASE PollAccept
  <2>1. slowAt # "run"
    BY <1>6 DEF PollAccept, Polling, Due
  <2>2. CASE backlog # NoOne
    <3>1. backlog \in Sessions /\ Adopt(backlog)
      BY <1>6, <2>2 DEF PollAccept, TypeOK
    <3>2. QED  BY <2>1, <3>1 DEF Adopts
  <2>3. CASE backlog = NoOne
    <3>1. UNCHANGED <<sock, authed, chunk, acc, held, slowq, running, tx, ghosts>> /\ slowAt' = "loop"
      BY <1>6, <2>3 DEF PollAccept
    <3>2. QED  BY <2>1, <3>1 DEF Aside
  <2>4. QED  BY <2>2, <2>3
<1>7. ASSUME NEW s \in Sessions, PollDial(s)
      PROVE  Adopts \/ Aside
  <2>1. slowAt # "run"
    BY <1>7 DEF PollDial, Polling, Due
  <2>2. CASE Adopt(s)
    BY <2>1, <2>2 DEF Adopts
  <2>3. CASE ~Adopt(s)
    <3>1. UNCHANGED <<sock, authed, chunk, acc, held, slowq, running, tx, ghosts>> /\ slowAt' = "loop"
      BY <1>7, <2>3 DEF PollDial
    <3>2. QED  BY <2>1, <3>1 DEF Aside
  <2>4. QED  BY <2>2, <2>3
<1>8. CASE PollDialled
  <2>1. slowAt # "run" /\ dialing \in Sessions
    BY <1>8 DEF PollDialled, Polling, Due, TypeOK
  <2>2. CASE Adopt(dialing)
    BY <2>1, <2>2 DEF Adopts
  <2>3. CASE ~Adopt(dialing)
    <3>1. UNCHANGED <<sock, authed, chunk, acc, held, slowq, running, tx, ghosts>> /\ slowAt' = "loop"
      BY <1>8, <2>3 DEF PollDialled
    <3>2. QED  BY <2>1, <3>1 DEF Aside
  <2>4. QED  BY <2>2, <2>3
<1>9. CASE UNCHANGED vars
  <2>1. UNCHANGED <<sock, authed, chunk, acc, held, slowq, running, tx, ghosts>> /\ slowAt' = slowAt
    BY <1>9 DEF vars
  <2>2. QED  BY <2>1 DEF Aside
<1>10. QED
  BY <1>1, <1>2, <1>3, <1>4, <1>5, <1>6, <1>7, <1>8, <1>9 DEF Next, SlowTask

-----------------------------------------------------------------------------
(* Types and places *)

LEMMA AdoptTypes ==
  ASSUME TypeOK, NEW s \in Sessions, Adopt(s)
  PROVE  /\ UNCHANGED <<air, read, chunk, cut, held, dropping, slowq, running, granted, stray, spoiled>>
         /\ acc' = NoOne /\ txq' = <<>> /\ wire' = Idle /\ sock' = s
         /\ peerDead' = FALSE /\ authed' = FALSE /\ straddled' \in BOOLEAN
         /\ outlived' \subseteq Sessions /\ slowAt' = "loop"
         /\ outlived \subseteq outlived'
         /\ \A i \in DOMAIN slowq : slowq[i] \in outlived'
         /\ held \in outlived' \cup {NoOne} /\ chunk.of \in outlived' \cup {NoOne}
         /\ ~straddled' => RxFree
<1>1. /\ slowq \in Seq(Sessions) /\ held \in Sessions \cup {NoOne} /\ straddled \in BOOLEAN
      /\ chunk.of \in Sessions \cup {NoOne} /\ outlived \subseteq Sessions
  BY DEF TypeOK
<1>2. /\ UNCHANGED <<air, read, chunk, cut, held, dropping, slowq, running, granted, stray, spoiled>>
      /\ acc' = NoOne /\ txq' = <<>> /\ wire' = Idle /\ sock' = s
      /\ peerDead' = FALSE /\ authed' = FALSE /\ slowAt' = "loop"
      /\ straddled' = (straddled \/ ~RxFree)
      /\ outlived' = outlived \cup ToSet(slowq) \cup ({held} \ {NoOne}) \cup ({chunk.of} \ {NoOne})
  BY DEF Adopt, Reset
<1>3. ToSet(slowq) \subseteq Sessions /\ \A i \in DOMAIN slowq : slowq[i] \in ToSet(slowq)
  BY <1>1, SetFacts
<1>4. straddled' \in BOOLEAN /\ (~straddled' => RxFree)
  BY <1>1, <1>2 DEF RxFree
<1>5. /\ outlived' \subseteq Sessions /\ outlived \subseteq outlived'
      /\ \A i \in DOMAIN slowq : slowq[i] \in outlived'
      /\ held \in outlived' \cup {NoOne} /\ chunk.of \in outlived' \cup {NoOne}
  BY <1>1, <1>2, <1>3
<1>6. QED  BY <1>2, <1>4, <1>5

\* TypeOK in five parts, for a step changes few of them.
EnvTypes ==
  /\ mode \in Modes /\ {joined, listening} \subseteq BOOLEAN /\ losses \in 0..MaxLosses
  /\ {backlog, dialing, dropping} \subseteq Sessions \cup {NoOne}
  /\ conn \in [Sessions -> {"new", "open", "closed"}]
  /\ slowAt \in {"loop", "run", "poll", "link", "dead", "lost"}
PeerTypes ==
  /\ {peerDead, authed, straddled} \subseteq BOOLEAN
  /\ {sock, granted} \subseteq Sessions \cup {NoOne}
RxTypes ==
  /\ read \in [Sessions -> 0..MaxFrames] /\ {acc, held} \subseteq Sessions \cup {NoOne}
  /\ chunk \in [of : Sessions \cup {NoOne}, left : 0..Chunk]
  /\ cut \subseteq Sessions /\ spoiled \subseteq Sessions
QueueTypes ==
  /\ slowq \in Seq(Sessions) /\ Len(slowq) <= SlowQueue
  /\ txq \in Seq(Sessions \cup {Event}) /\ Len(txq) <= TxQueue
  /\ running \in Sessions \cup {NoOne}
WireTypes ==
  /\ wire \in [busy : BOOLEAN, for : Sessions \cup {Event}, begun : Sessions \cup {NoOne}]
  /\ stray \subseteq Sessions \X Sessions /\ outlived \subseteq Sessions

LEMMA TypeParts == TypeOK <=> EnvTypes /\ PeerTypes /\ RxTypes /\ QueueTypes /\ WireTypes
<1>1. ASSUME TypeOK PROVE EnvTypes /\ PeerTypes /\ RxTypes /\ QueueTypes /\ WireTypes
  <2>1. EnvTypes
    BY <1>1 DEF TypeOK, EnvTypes
  <2>2. PeerTypes
    BY <1>1 DEF TypeOK, PeerTypes
  <2>3. RxTypes
    BY <1>1 DEF TypeOK, RxTypes
  <2>4. QueueTypes /\ WireTypes
    BY <1>1 DEF TypeOK, QueueTypes, WireTypes
  <2>5. QED  BY <2>1, <2>2, <2>3, <2>4
<1>2. ASSUME EnvTypes, PeerTypes, RxTypes, QueueTypes, WireTypes PROVE TypeOK
  <2>1. {joined, listening, peerDead, authed, straddled} \subseteq BOOLEAN
    BY <1>2 DEF EnvTypes, PeerTypes
  <2>2. {backlog, dialing, sock, acc, held, dropping, running, granted} \subseteq Sessions \cup {NoOne}
    BY <1>2 DEF EnvTypes, PeerTypes, RxTypes, QueueTypes
  <2>3. mode \in Modes /\ conn \in [Sessions -> {"new", "open", "closed"}]
        /\ slowAt \in {"loop", "run", "poll", "link", "dead", "lost"} /\ losses \in 0..MaxLosses
    BY <1>2 DEF EnvTypes
  <2>4. read \in [Sessions -> 0..MaxFrames] /\ chunk \in [of : Sessions \cup {NoOne}, left : 0..Chunk]
        /\ cut \subseteq Sessions /\ spoiled \subseteq Sessions
    BY <1>2 DEF RxTypes
  <2>5. /\ slowq \in Seq(Sessions) /\ Len(slowq) <= SlowQueue
        /\ txq \in Seq(Sessions \cup {Event}) /\ Len(txq) <= TxQueue
    BY <1>2 DEF QueueTypes
  <2>6. /\ wire \in [busy : BOOLEAN, for : Sessions \cup {Event}, begun : Sessions \cup {NoOne}]
        /\ stray \subseteq Sessions \X Sessions /\ outlived \subseteq Sessions
    BY <1>2 DEF WireTypes
  <2>7. QED  BY <2>1, <2>2, <2>3, <2>4, <2>5, <2>6 DEF TypeOK
<1>3. QED  BY <1>1, <1>2

LEMMA TypeStep ==
  ASSUME TypeOK, PlaceInv, [Next]_vars
  PROVE  TypeOK'
<1> USE DEF air, peer, fds, rx, slow, tx, ghosts
<1>0. EnvTypes /\ PeerTypes /\ RxTypes /\ QueueTypes /\ WireTypes
  BY TypeParts
<1>a. EnvTypes' /\ PeerTypes' /\ RxTypes' /\ QueueTypes' /\ WireTypes' => TypeOK'
  BY TypeParts, PTL
<1>1. CASE Environment
  <2>1. UNCHANGED <<mode, listening, dialing, dropping, slowAt, peer, rx, slowq, running, tx, ghosts>>
    BY <1>1 DEF Environment, Joins, LosesAccessPoint, HostConnects, HostCloses
  <2>2. /\ joined' \in BOOLEAN /\ losses' \in 0..MaxLosses /\ backlog' \in Sessions \cup {NoOne}
        /\ conn' \in [Sessions -> {"new", "open", "closed"}]
    <3>1. CASE Joins
      BY <1>0, <3>1 DEF Joins, EnvTypes
    <3>2. CASE LosesAccessPoint
      <4>1. losses' \in 0..MaxLosses
        BY <1>0, <3>2, LinkAssumption DEF LosesAccessPoint, EnvTypes
      <4>2. QED  BY <1>0, <3>2, <4>1 DEF LosesAccessPoint, EnvTypes
    <3>3. ASSUME NEW s \in Sessions, HostConnects(s)
          PROVE  /\ joined' \in BOOLEAN /\ losses' \in 0..MaxLosses /\ backlog' \in Sessions \cup {NoOne}
                 /\ conn' \in [Sessions -> {"new", "open", "closed"}]
      BY <1>0, <3>3 DEF HostConnects, EnvTypes
    <3>4. ASSUME NEW s \in Sessions, HostCloses(s)
          PROVE  /\ joined' \in BOOLEAN /\ losses' \in 0..MaxLosses /\ backlog' \in Sessions \cup {NoOne}
                 /\ conn' \in [Sessions -> {"new", "open", "closed"}]
      BY <1>0, <3>4 DEF HostCloses, EnvTypes
    <3>5. QED  BY <1>1, <3>1, <3>2, <3>3, <3>4 DEF Environment
  <2>3. EnvTypes'
    BY <1>0, <2>1, <2>2 DEF EnvTypes
  <2>4. PeerTypes'
    BY <1>0, <2>1, <2>2 DEF PeerTypes
  <2>5. RxTypes'
    BY <1>0, <2>1, <2>2 DEF RxTypes
  <2>6. QueueTypes'
    BY <1>0, <2>1, <2>2 DEF QueueTypes
  <2>7. WireTypes'
    BY <1>0, <2>1, <2>2 DEF WireTypes
  <2>8. QED  BY <1>a, <2>3, <2>4, <2>5, <2>6, <2>7
<1>2. CASE EmitEvent
  <2>1. UNCHANGED <<air, peer, fds, conn, rx, slow, wire, ghosts>>
    BY <1>2 DEF EmitEvent
  <2>2. txq' \in Seq(Sessions \cup {Event}) /\ Len(txq') <= TxQueue
    <3>1. /\ txq' = Append(txq, Event) /\ Len(txq) < TxQueue /\ Event \in Sessions \cup {Event}
          /\ txq \in Seq(Sessions \cup {Event}) /\ TxQueue \in Nat /\ Len(txq) \in Nat
      BY <1>0, <1>2, LinkAssumption DEF EmitEvent, QueueTypes
    <3>2. Append(txq, Event) \in Seq(Sessions \cup {Event}) /\ Len(Append(txq, Event)) = Len(txq) + 1
      BY <3>1, QueueFacts
    <3>3. QED  BY <3>1, <3>2
  <2>3. EnvTypes'
    BY <1>0, <2>1, <2>2 DEF EnvTypes
  <2>4. PeerTypes'
    BY <1>0, <2>1, <2>2 DEF PeerTypes
  <2>5. RxTypes'
    BY <1>0, <2>1, <2>2 DEF RxTypes
  <2>6. QueueTypes'
    BY <1>0, <2>1, <2>2 DEF QueueTypes
  <2>7. WireTypes'
    BY <1>0, <2>1, <2>2 DEF WireTypes
  <2>8. QED  BY <1>a, <2>3, <2>4, <2>5, <2>6, <2>7
<1>3. CASE TxPass
  <2>1. UNCHANGED <<air, sock, authed, fds, conn, rx, slow, granted, straddled, outlived, spoiled>>
    BY <1>3 DEF TxPass
  <2>2. /\ txq' \in Seq(Sessions \cup {Event}) /\ Len(txq') <= TxQueue /\ peerDead' \in BOOLEAN
        /\ wire' \in [busy : BOOLEAN, for : Sessions \cup {Event}, begun : Sessions \cup {NoOne}]
    BY <1>3, TxFacts
  <2>3. stray' \subseteq Sessions \X Sessions
    <3>1. sock \in Sessions \cup {NoOne} /\ stray \subseteq Sessions \X Sessions
      BY <1>0 DEF PeerTypes, WireTypes
    <3>2. \/ stray' = stray
          \/ sock # NoOne /\ \E r \in Sessions : stray' = stray \cup {<<r, sock>>}
      BY <1>3, TxFacts
    <3>3. QED  BY <3>1, <3>2
  <2>4. EnvTypes'
    BY <1>0, <2>1, <2>2, <2>3 DEF EnvTypes
  <2>5. PeerTypes'
    BY <1>0, <2>1, <2>2, <2>3 DEF PeerTypes
  <2>6. RxTypes'
    BY <1>0, <2>1, <2>2, <2>3 DEF RxTypes
  <2>7. QueueTypes'
    BY <1>0, <2>1, <2>2, <2>3 DEF QueueTypes
  <2>8. WireTypes'
    BY <1>0, <2>1, <2>2, <2>3 DEF WireTypes
  <2>9. QED  BY <1>a, <2>4, <2>5, <2>6, <2>7, <2>8
<1>4. CASE RxRead
  <2>1. UNCHANGED <<air, sock, authed, fds, conn, cut, acc, held, slow, tx, ghosts>>
    BY <1>4 DEF RxRead
  <2>2. /\ chunk' \in [of : Sessions \cup {NoOne}, left : 0..Chunk]
        /\ read' \in [Sessions -> 0..MaxFrames] /\ peerDead' \in BOOLEAN
    <3>1. sock \in Sessions /\ read \in [Sessions -> 0..MaxFrames] /\ peerDead \in BOOLEAN
      BY <1>0, <1>4 DEF RxRead, Up, PeerTypes, RxTypes
    <3>2. ASSUME NEW n \in 1..Chunk, read[sock] + n <= MaxFrames, chunk' = [of |-> sock, left |-> n],
                 read' = [read EXCEPT ![sock] = @ + n], UNCHANGED peerDead
          PROVE  /\ chunk' \in [of : Sessions \cup {NoOne}, left : 0..Chunk]
                 /\ read' \in [Sessions -> 0..MaxFrames] /\ peerDead' \in BOOLEAN
      <4>1. read[sock] + n \in 0..MaxFrames /\ n \in 0..Chunk
        BY <3>1, <3>2, LinkAssumption
      <4>2. QED  BY <3>1, <3>2, <4>1
    <3>3. CASE peerDead' = TRUE /\ UNCHANGED <<read, chunk>>
      BY <1>0, <3>3 DEF RxTypes
    <3>4. QED  BY <1>4, <3>2, <3>3 DEF RxRead
  <2>3. EnvTypes'
    BY <1>0, <2>1, <2>2 DEF EnvTypes
  <2>4. PeerTypes'
    BY <1>0, <2>1, <2>2 DEF PeerTypes
  <2>5. RxTypes'
    BY <1>0, <2>1, <2>2 DEF RxTypes
  <2>6. QueueTypes'
    BY <1>0, <2>1, <2>2 DEF QueueTypes
  <2>7. WireTypes'
    BY <1>0, <2>1, <2>2 DEF WireTypes
  <2>8. QED  BY <1>a, <2>3, <2>4, <2>5, <2>6, <2>7
<1>5. ASSUME NEW kind \in Kinds, RxPiece(kind)
      PROVE  TypeOK'
  <2>1. UNCHANGED <<air, sock, peerDead, fds, conn, read, slowAt, dropping, running, wire,
                    straddled, outlived, stray>>
    BY <1>5 DEF RxPiece
  <2>2. chunk.of \in Sessions /\ chunk.left > 0
    BY <1>0, <1>5 DEF RxPiece, PlaceInv, RxTypes
  <2>3. chunk' \in [of : Sessions \cup {NoOne}, left : 0..Chunk]
    <3>1. /\ chunk \in [of : Sessions \cup {NoOne}, left : 0..Chunk]
          /\ Empty \in [of : Sessions \cup {NoOne}, left : 0..Chunk]
      BY <1>0, LinkAssumption DEF RxTypes, Empty
    <3>2. chunk.left - 1 \in 0..Chunk
      BY <2>2, <3>1, LinkAssumption
    <3>3. chunk' = Empty \/ chunk' = [chunk EXCEPT !.left = chunk.left - 1]
      BY <1>5 DEF RxPiece
    <3>4. QED  BY <3>1, <3>2, <3>3
  <2>4. cut' \subseteq Sessions /\ spoiled' \subseteq Sessions /\ acc' \in Sessions \cup {NoOne}
    BY <1>0, <1>5, <2>2 DEF RxPiece, RxTypes
  <2>5. /\ authed' \in BOOLEAN /\ granted' \in Sessions \cup {NoOne} /\ held' \in Sessions \cup {NoOne}
        /\ slowq' \in Seq(Sessions) /\ Len(slowq') <= SlowQueue
        /\ txq' \in Seq(Sessions \cup {Event}) /\ Len(txq') <= TxQueue
    <3>1. \/ UNCHANGED <<authed, granted, slowq, held, txq>> \/ Execute(chunk.of, kind)
      BY <1>5 DEF RxPiece
    <3>2. CASE UNCHANGED <<authed, granted, slowq, held, txq>>
      BY <1>0, <3>2 DEF PeerTypes, RxTypes, QueueTypes
    <3>3. CASE Execute(chunk.of, kind)
      BY <2>2, <3>3, ExecuteFacts
    <3>4. QED  BY <3>1, <3>2, <3>3
  <2>6. EnvTypes'
    BY <1>0, <2>1, <2>3, <2>4, <2>5 DEF EnvTypes
  <2>7. PeerTypes'
    BY <1>0, <2>1, <2>3, <2>4, <2>5 DEF PeerTypes
  <2>8. RxTypes'
    BY <1>0, <2>1, <2>3, <2>4, <2>5 DEF RxTypes
  <2>9. QueueTypes'
    BY <1>0, <2>1, <2>3, <2>4, <2>5 DEF QueueTypes
  <2>10. WireTypes'
    BY <1>0, <2>1, <2>3, <2>4, <2>5 DEF WireTypes
  <2>11. QED  BY <1>a, <2>6, <2>7, <2>8, <2>9, <2>10
<1>6. CASE RxUnblock
  <2>1. held \in Sessions /\ Enqueue(held) /\ held' = NoOne
        /\ UNCHANGED <<air, peer, fds, conn, read, chunk, cut, acc, slow, wire, ghosts>>
    BY <1>0, <1>6 DEF RxUnblock, RxTypes
  <2>2. txq' \in Seq(Sessions \cup {Event}) /\ Len(txq') <= TxQueue
    BY <2>1, EnqueueFacts
  <2>3. EnvTypes'
    BY <1>0, <2>1, <2>2 DEF EnvTypes
  <2>4. PeerTypes'
    BY <1>0, <2>1, <2>2 DEF PeerTypes
  <2>5. RxTypes'
    BY <1>0, <2>1, <2>2 DEF RxTypes
  <2>6. QueueTypes'
    BY <1>0, <2>1, <2>2 DEF QueueTypes
  <2>7. WireTypes'
    BY <1>0, <2>1, <2>2 DEF WireTypes
  <2>8. QED  BY <1>a, <2>3, <2>4, <2>5, <2>6, <2>7
<1>7. CASE SlowTake
  <2>1. slowq \in Seq(Sessions) /\ slowq # <<>> /\ Len(slowq) <= SlowQueue /\ Len(slowq) \in Nat
    BY <1>0, <1>7 DEF SlowTake, QueueTypes
  <2>2. Tail(slowq) \in Seq(Sessions) /\ Len(Tail(slowq)) = Len(slowq) - 1 /\ Head(slowq) \in Sessions
    BY <2>1, QueueFacts
  <2>3. running' = Head(slowq) /\ slowAt' = "run" /\ slowq' = Tail(slowq)
        /\ UNCHANGED <<air, peer, fds, conn, rx, dropping, tx, ghosts>>
    BY <1>7 DEF SlowTake
  <2>4. running' \in Sessions /\ slowq' \in Seq(Sessions) /\ Len(slowq') <= SlowQueue
    BY <2>1, <2>2, <2>3, LinkAssumption
  <2>5. EnvTypes'
    BY <1>0, <2>3, <2>4 DEF EnvTypes
  <2>6. PeerTypes'
    BY <1>0, <2>3, <2>4 DEF PeerTypes
  <2>7. RxTypes'
    BY <1>0, <2>3, <2>4 DEF RxTypes
  <2>8. QueueTypes'
    BY <1>0, <2>3, <2>4 DEF QueueTypes
  <2>9. WireTypes'
    BY <1>0, <2>3, <2>4 DEF WireTypes
  <2>10. QED  BY <1>a, <2>5, <2>6, <2>7, <2>8, <2>9
<1>8. CASE SlowReply
  <2>1. running \in Sessions /\ Enqueue(running) /\ running' = NoOne /\ slowAt' = "poll"
        /\ UNCHANGED <<air, peer, fds, conn, rx, dropping, slowq, wire, ghosts>>
    BY <1>0, <1>8 DEF SlowReply, PlaceInv, QueueTypes
  <2>2. txq' \in Seq(Sessions \cup {Event}) /\ Len(txq') <= TxQueue
    BY <2>1, EnqueueFacts
  <2>3. EnvTypes'
    BY <1>0, <2>1, <2>2 DEF EnvTypes
  <2>4. PeerTypes'
    BY <1>0, <2>1, <2>2 DEF PeerTypes
  <2>5. RxTypes'
    BY <1>0, <2>1, <2>2 DEF RxTypes
  <2>6. QueueTypes'
    BY <1>0, <2>1, <2>2 DEF QueueTypes
  <2>7. WireTypes'
    BY <1>0, <2>1, <2>2 DEF WireTypes
  <2>8. QED  BY <1>a, <2>3, <2>4, <2>5, <2>6, <2>7
<1>9. CASE PollDead \/ PollLost
  <2>1. /\ dropping' = sock /\ sock' = NoOne /\ peerDead' = FALSE /\ authed' = FALSE
        /\ slowAt' \in {"dead", "lost"}
        /\ UNCHANGED <<air, fds, conn, rx, slowq, running, tx, ghosts>>
    BY <1>9 DEF PollDead, PollLost, DropBegin
  <2>2. sock \in Sessions \cup {NoOne}
    BY <1>0 DEF PeerTypes
  <2>3. EnvTypes'
    BY <1>0, <2>1, <2>2 DEF EnvTypes
  <2>4. PeerTypes'
    BY <1>0, <2>1, <2>2 DEF PeerTypes
  <2>5. RxTypes'
    BY <1>0, <2>1, <2>2 DEF RxTypes
  <2>6. QueueTypes'
    BY <1>0, <2>1, <2>2 DEF QueueTypes
  <2>7. WireTypes'
    BY <1>0, <2>1, <2>2 DEF WireTypes
  <2>8. QED  BY <1>a, <2>3, <2>4, <2>5, <2>6, <2>7
<1>10. CASE DropEnd
  <2>1. /\ UNCHANGED <<air, peer, read, chunk, cut, held, slowq, running, ghosts>>
        /\ acc' = NoOne /\ txq' = <<>> /\ wire' = Idle /\ dropping' = NoOne
    BY <1>10 DEF DropEnd, Reset
  <2>2. /\ slowAt' \in {"loop", "link"} /\ listening' \in BOOLEAN
        /\ backlog' \in Sessions \cup {NoOne} /\ dialing' \in Sessions \cup {NoOne}
        /\ conn' \in [Sessions -> {"new", "open", "closed"}]
    BY <1>0, <1>10 DEF DropEnd, CloseFds, EnvTypes
  <2>3. txq' \in Seq(Sessions \cup {Event}) /\ Len(txq') <= TxQueue
    BY <2>1, LinkAssumption
  <2>4. wire' \in [busy : BOOLEAN, for : Sessions \cup {Event}, begun : Sessions \cup {NoOne}]
    BY <2>1 DEF Idle, NoOne, Event
  <2>5. EnvTypes'
    BY <1>0, <2>1, <2>2, <2>3, <2>4 DEF EnvTypes
  <2>6. PeerTypes'
    BY <1>0, <2>1, <2>2, <2>3, <2>4 DEF PeerTypes
  <2>7. RxTypes'
    BY <1>0, <2>1, <2>2, <2>3, <2>4 DEF RxTypes
  <2>8. QueueTypes'
    BY <1>0, <2>1, <2>2, <2>3, <2>4 DEF QueueTypes
  <2>9. WireTypes'
    BY <1>0, <2>1, <2>2, <2>3, <2>4 DEF WireTypes
  <2>10. QED  BY <1>a, <2>5, <2>6, <2>7, <2>8, <2>9
<1>11. CASE PollUnjoined \/ PollNothing
  <2>1. /\ UNCHANGED <<air, peer, rx, dropping, slowq, running, tx, ghosts>> /\ slowAt' = "loop"
    BY <1>11 DEF PollUnjoined, PollNothing
  <2>2. /\ listening' \in BOOLEAN
        /\ backlog' \in Sessions \cup {NoOne} /\ dialing' \in Sessions \cup {NoOne}
        /\ conn' \in [Sessions -> {"new", "open", "closed"}]
    BY <1>0, <1>11 DEF PollUnjoined, PollNothing, CloseFds, EnvTypes
  <2>3. EnvTypes'
    BY <1>0, <2>1, <2>2 DEF EnvTypes
  <2>4. PeerTypes'
    BY <1>0, <2>1, <2>2 DEF PeerTypes
  <2>5. RxTypes'
    BY <1>0, <2>1, <2>2 DEF RxTypes
  <2>6. QueueTypes'
    BY <1>0, <2>1, <2>2 DEF QueueTypes
  <2>7. WireTypes'
    BY <1>0, <2>1, <2>2 DEF WireTypes
  <2>8. QED  BY <1>a, <2>3, <2>4, <2>5, <2>6, <2>7
<1>12. ASSUME NEW s \in Sessions, listening' \in BOOLEAN,
              backlog' \in Sessions \cup {NoOne}, dialing' \in Sessions \cup {NoOne},
              conn' \in [Sessions -> {"new", "open", "closed"}],
              Adopt(s) \/ (slowAt' = "loop" /\ UNCHANGED <<air, peer, rx, dropping, slowq, running, tx, ghosts>>)
       PROVE  TypeOK'
  <2>1. CASE Adopt(s)
    <3>1. /\ UNCHANGED <<air, read, chunk, cut, held, dropping, slowq, running, granted, stray, spoiled>>
          /\ acc' = NoOne /\ txq' = <<>> /\ wire' = Idle /\ sock' = s
          /\ peerDead' = FALSE /\ authed' = FALSE /\ straddled' \in BOOLEAN
          /\ outlived' \subseteq Sessions /\ slowAt' = "loop"
      BY <2>1, AdoptTypes
    <3>2. txq' \in Seq(Sessions \cup {Event}) /\ Len(txq') <= TxQueue
      BY <3>1, LinkAssumption
    <3>3. wire' \in [busy : BOOLEAN, for : Sessions \cup {Event}, begun : Sessions \cup {NoOne}]
      BY <3>1 DEF Idle, NoOne, Event
    <3>4. /\ mode' = mode /\ joined' = joined /\ losses' = losses /\ dropping' = dropping
          /\ slowAt' = "loop"
      BY <3>1
    <3>5. /\ sock' = s /\ granted' = granted /\ peerDead' = FALSE /\ authed' = FALSE
          /\ straddled' \in BOOLEAN
      BY <3>1
    <3>6. EnvTypes'
      BY <1>0, <1>12, <3>4 DEF EnvTypes
    <3>7. PeerTypes'
      BY <1>0, <1>12, <3>5 DEF PeerTypes
    <3>8. RxTypes'
      BY <1>0, <1>12, <3>1, <3>2, <3>3 DEF RxTypes
    <3>9. QueueTypes'
      BY <1>0, <1>12, <3>1, <3>2, <3>3 DEF QueueTypes
    <3>10. WireTypes'
      BY <1>0, <1>12, <3>1, <3>2, <3>3 DEF WireTypes
    <3>11. QED  BY <1>a, <3>6, <3>7, <3>8, <3>9, <3>10
  <2>2. CASE slowAt' = "loop" /\ UNCHANGED <<air, peer, rx, dropping, slowq, running, tx, ghosts>>
    <3>1. EnvTypes'
      BY <1>0, <1>12, <2>2 DEF EnvTypes
    <3>2. PeerTypes'
      BY <1>0, <1>12, <2>2 DEF PeerTypes
    <3>3. RxTypes'
      BY <1>0, <1>12, <2>2 DEF RxTypes
    <3>4. QueueTypes'
      BY <1>0, <1>12, <2>2 DEF QueueTypes
    <3>5. WireTypes'
      BY <1>0, <1>12, <2>2 DEF WireTypes
    <3>6. QED  BY <1>a, <3>1, <3>2, <3>3, <3>4, <3>5
  <2>3. QED  BY <1>12, <2>1, <2>2
<1>13. CASE PollAccept
  <2>1. /\ listening' = TRUE /\ backlog' = NoOne /\ UNCHANGED <<dialing, conn>>
        /\ (backlog # NoOne /\ Adopt(backlog))
           \/ (slowAt' = "loop" /\ UNCHANGED <<air, peer, rx, dropping, slowq, running, tx, ghosts>>)
    BY <1>13 DEF PollAccept
  <2>2. /\ listening' \in BOOLEAN /\ backlog' \in Sessions \cup {NoOne}
        /\ dialing' \in Sessions \cup {NoOne} /\ conn' \in [Sessions -> {"new", "open", "closed"}]
    BY <1>0, <2>1 DEF EnvTypes
  <2>3. CASE backlog # NoOne /\ Adopt(backlog)
    <3>1. backlog \in Sessions
      BY <1>0, <2>3 DEF EnvTypes
    <3>2. QED  BY <1>12, <2>2, <2>3, <3>1
  <2>4. CASE slowAt' = "loop" /\ UNCHANGED <<air, peer, rx, dropping, slowq, running, tx, ghosts>>
    <3>1. 1 \in Sessions
      BY LinkAssumption DEF Sessions
    <3>2. QED  BY <1>12, <2>2, <2>4, <3>1
  <2>5. QED  BY <2>1, <2>3, <2>4
<1>14. ASSUME NEW s \in Sessions, PollDial(s)
       PROVE  TypeOK'
  <2>1. /\ conn' = [conn EXCEPT ![s] = "open"] /\ UNCHANGED <<listening, backlog>>
        /\ dialing' \in {dialing, s}
        /\ Adopt(s) \/ (slowAt' = "loop" /\ UNCHANGED <<air, peer, rx, dropping, slowq, running, tx, ghosts>>)
    BY <1>14 DEF PollDial
  <2>2. /\ listening' \in BOOLEAN /\ backlog' \in Sessions \cup {NoOne}
        /\ dialing' \in Sessions \cup {NoOne} /\ conn' \in [Sessions -> {"new", "open", "closed"}]
    BY <1>0, <2>1 DEF EnvTypes
  <2>3. QED  BY <1>12, <2>1, <2>2
<1>15. CASE PollDialled
  <2>1. /\ dialing \in Sessions /\ dialing' = NoOne /\ UNCHANGED <<listening, backlog>>
        /\ conn' = conn \/ conn' = [conn EXCEPT ![dialing] = "closed"]
        /\ Adopt(dialing) \/ (slowAt' = "loop" /\ UNCHANGED <<air, peer, rx, dropping, slowq, running, tx, ghosts>>)
    BY <1>0, <1>15 DEF PollDialled, EnvTypes
  <2>2. /\ listening' \in BOOLEAN /\ backlog' \in Sessions \cup {NoOne}
        /\ dialing' \in Sessions \cup {NoOne} /\ conn' \in [Sessions -> {"new", "open", "closed"}]
    BY <1>0, <2>1 DEF EnvTypes
  <2>3. QED  BY <1>12, <2>1, <2>2
<1>16. CASE UNCHANGED vars
  <2>1. EnvTypes'
    BY <1>0, <1>16 DEF vars, EnvTypes
  <2>2. PeerTypes'
    BY <1>0, <1>16 DEF vars, PeerTypes
  <2>3. RxTypes'
    BY <1>0, <1>16 DEF vars, RxTypes
  <2>4. QueueTypes'
    BY <1>0, <1>16 DEF vars, QueueTypes
  <2>5. WireTypes'
    BY <1>0, <1>16 DEF vars, WireTypes
  <2>6. QED  BY <1>a, <2>1, <2>2, <2>3, <2>4, <2>5
<1>17. QED
  BY <1>1, <1>2, <1>3, <1>4, <1>5, <1>6, <1>7, <1>8, <1>9, <1>10, <1>11, <1>13, <1>14, <1>15, <1>16
     DEF Next, RxTask, SlowTask

LEMMA PlaceStep ==
  ASSUME TypeOK, PlaceInv, [Next]_vars
  PROVE  PlaceInv'
<1> USE DEF air, peer, fds, rx, slow, tx, ghosts
<1>0. CASE DropEnd
  <2>1. UNCHANGED <<chunk, running>> /\ slowAt # "run" /\ slowAt' # "run"
    BY <1>0 DEF DropEnd
  <2>2. QED  BY <2>1 DEF PlaceInv
<1>1. CASE Aside \/ EmitEvent \/ TxPass \/ RxUnblock
  BY <1>1 DEF Aside, EmitEvent, TxPass, RxUnblock, PlaceInv
<1>2. CASE RxRead
  <2>1. (chunk'.of = sock \/ chunk' = chunk) /\ sock # NoOne /\ UNCHANGED slow
    BY <1>2 DEF RxRead, Up
  <2>2. QED  BY <2>1 DEF PlaceInv
<1>3. ASSUME NEW kind \in Kinds, RxPiece(kind)
      PROVE  PlaceInv'
  <2>1. chunk.left > 0 /\ (chunk' = Empty \/ chunk' = [chunk EXCEPT !.left = chunk.left - 1])
        /\ running' = running /\ slowAt' = slowAt
    BY <1>3 DEF RxPiece
  <2>2. chunk'.left > 0 => chunk'.of = chunk.of
    BY <2>1 DEF Empty, TypeOK
  <2>3. QED  BY <2>1, <2>2 DEF PlaceInv
<1>4. CASE SlowTake
  <2>1. slowq \in Seq(Sessions) /\ slowq # <<>> /\ running' = Head(slowq) /\ slowAt' = "run" /\ chunk' = chunk
    BY <1>4 DEF SlowTake, TypeOK
  <2>2. running' \in Sessions
    BY <2>1, QueueFacts
  <2>3. QED  BY <2>1, <2>2 DEF PlaceInv, Sessions, NoOne
<1>5. CASE SlowReply
  BY <1>5 DEF SlowReply, PlaceInv
<1>6. CASE Drops
  BY <1>6 DEF Drops, DropBegin, PlaceInv
<1>7. CASE Adopts
  BY <1>7 DEF Adopts, Adopt, PlaceInv
<1>8. QED
  BY <1>0, <1>1, <1>2, <1>3, <1>4, <1>5, <1>6, <1>7, StepCases DEF RxPieces

-----------------------------------------------------------------------------
(* Where rx_task is *)

LEMMA ChunkStep ==
  ASSUME TypeOK, PlaceInv, ChunkInv, [Next]_vars
  PROVE  ChunkInv'
<1> USE DEF air, peer, fds, rx, slow, tx, ghosts
<1>1. CASE Aside \/ EmitEvent \/ TxPass \/ RxUnblock \/ SlowTake \/ SlowReply
  BY <1>1 DEF Aside, EmitEvent, TxPass, RxUnblock, SlowTake, SlowReply, ChunkInv
<1>2. CASE RxRead
  <2>1. (chunk'.of = sock \/ chunk' = chunk) /\ sock # NoOne
        /\ UNCHANGED <<straddled, sock, acc>>
    BY <1>2 DEF RxRead, Up
  <2>2. QED  BY <2>1 DEF ChunkInv
<1>3. ASSUME NEW kind \in Kinds, RxPiece(kind)
      PROVE  ChunkInv'
  <2>1. chunk.left > 0 /\ (chunk' = Empty \/ chunk' = [chunk EXCEPT !.left = chunk.left - 1])
        /\ UNCHANGED <<straddled, sock>>
        /\ acc' \in {NoOne, chunk.of, acc}
    BY <1>3 DEF RxPiece
  <2>2. chunk'.left > 0 => chunk'.of = chunk.of
    BY <2>1 DEF Empty, TypeOK
  <2>3. QED  BY <2>1, <2>2 DEF ChunkInv
<1>4. CASE Drops
  BY <1>4 DEF Drops, DropBegin, ChunkInv
<1>5. CASE DropEnd
  <2>1. acc' = NoOne /\ UNCHANGED <<straddled, sock, chunk>>
    BY <1>5 DEF DropEnd, Reset
  <2>2. QED  BY <2>1 DEF ChunkInv
<1>6. CASE Adopts
  <2>1. PICK s \in Sessions : Adopt(s)
    BY <1>6 DEF Adopts
  <2>2. chunk' = chunk /\ acc' = NoOne /\ (~straddled' => chunk.left = 0)
    BY <2>1, AdoptTypes DEF RxFree
  <2>3. QED  BY <2>2 DEF ChunkInv
<1>7. QED
  BY <1>1, <1>2, <1>3, <1>4, <1>5, <1>6, StepCases DEF RxPieces

-----------------------------------------------------------------------------
(* What the link still holds of earlier sessions *)

LEMMA OriginStep ==
  ASSUME TypeOK, PlaceInv, OriginInv, [Next]_vars
  PROVE  OriginInv'
<1> USE DEF air, peer, fds, rx, slow, tx, ghosts
<1>1. CASE Aside
  <2>1. UNCHANGED <<sock, outlived, chunk, held, running, slowq, txq, wire>>
    BY <1>1 DEF Aside
  <2>2. QED  BY <2>1 DEF OriginInv, Own
<1>2. CASE EmitEvent
  <2>1. UNCHANGED <<sock, outlived, chunk, held, running, slowq, wire>> /\ txq' = Append(txq, Event)
        /\ txq \in Seq(Sessions \cup {Event}) /\ Event \in Sessions \cup {Event}
    BY <1>2 DEF EmitEvent, TypeOK
  <2>2. \A i \in DOMAIN txq' : txq'[i] = Event \/ \E j \in DOMAIN txq : txq'[i] = txq[j]
    BY <2>1, QueueFacts
  <2>3. QED  BY <2>1, <2>2 DEF OriginInv, Own, Event, NoOne
<1>3. CASE TxPass
  <2>1. UNCHANGED <<sock, outlived, chunk, held, running, slowq>>
    BY <1>3 DEF TxPass
  <2>2. \A i \in DOMAIN txq' : \E j \in DOMAIN txq : txq'[i] = txq[j]
    BY <1>3, TxFacts
  <2>3. wire' = Idle \/ wire'.for = wire.for \/ \E j \in DOMAIN txq : wire'.for = txq[j]
    BY <1>3, TxFacts
  <2>4. QED  BY <2>1, <2>2, <2>3 DEF OriginInv, Own, Idle
<1>4. CASE RxRead
  <2>1. (chunk'.of = sock \/ chunk' = chunk) /\ UNCHANGED <<sock, outlived, held, running, slowq, txq, wire>>
    BY <1>4 DEF RxRead
  <2>2. QED  BY <2>1 DEF OriginInv, Own
<1>5. ASSUME NEW kind \in Kinds, RxPiece(kind)
      PROVE  OriginInv'
  <2>1. UNCHANGED <<sock, outlived, running, wire>> /\ chunk.of \in Sessions
        /\ (chunk' = Empty \/ chunk' = [chunk EXCEPT !.left = chunk.left - 1])
    BY <1>5 DEF RxPiece, PlaceInv, TypeOK
  <2>2. chunk'.of \in {NoOne, chunk.of}
    BY <2>1 DEF Empty, TypeOK
  <2>3. \/ UNCHANGED <<slowq, held, txq>> \/ Execute(chunk.of, kind)
    BY <1>5 DEF RxPiece
  <2>4. CASE UNCHANGED <<slowq, held, txq>>
    BY <2>1, <2>2, <2>4 DEF OriginInv, Own
  <2>5. CASE Execute(chunk.of, kind)
    <3>1. /\ held' \in {chunk.of, NoOne}
          /\ \A i \in DOMAIN txq' : txq'[i] = chunk.of \/ \E j \in DOMAIN txq : txq'[i] = txq[j]
          /\ \A i \in DOMAIN slowq' : slowq'[i] = chunk.of \/ \E j \in DOMAIN slowq : slowq'[i] = slowq[j]
      BY <2>1, <2>5, ExecuteFacts
    <3>2. QED  BY <2>1, <2>2, <3>1 DEF OriginInv, Own
  <2>6. QED  BY <2>3, <2>4, <2>5
<1>6. CASE RxUnblock
  <2>1. held \in Sessions /\ Enqueue(held) /\ held' = NoOne
        /\ UNCHANGED <<sock, outlived, chunk, running, slowq, wire>>
    BY <1>6 DEF RxUnblock, TypeOK
  <2>2. \A i \in DOMAIN txq' : txq'[i] = held \/ \E j \in DOMAIN txq : txq'[i] = txq[j]
    BY <2>1, EnqueueFacts
  <2>3. QED  BY <2>1, <2>2 DEF OriginInv, Own
<1>7. CASE SlowTake
  <2>1. /\ slowq \in Seq(Sessions) /\ slowq # <<>> /\ running' = Head(slowq) /\ slowq' = Tail(slowq)
        /\ UNCHANGED <<sock, outlived, chunk, held, txq, wire>>
    BY <1>7 DEF SlowTake, TypeOK
  <2>2. /\ \E j \in DOMAIN slowq : Head(slowq) = slowq[j]
        /\ \A i \in DOMAIN Tail(slowq) : \E j \in DOMAIN slowq : Tail(slowq)[i] = slowq[j]
    BY <2>1, QueueFacts
  <2>3. QED  BY <2>1, <2>2 DEF OriginInv, Own
<1>8. CASE SlowReply
  <2>1. running \in Sessions /\ Enqueue(running) /\ running' = NoOne
        /\ UNCHANGED <<sock, outlived, chunk, held, slowq, wire>>
    BY <1>8 DEF SlowReply, PlaceInv, TypeOK
  <2>2. \A i \in DOMAIN txq' : txq'[i] = running \/ \E j \in DOMAIN txq : txq'[i] = txq[j]
    BY <2>1, EnqueueFacts
  <2>3. QED  BY <2>1, <2>2 DEF OriginInv, Own
<1>9. CASE Drops
  <2>1. sock' = NoOne
    BY <1>9 DEF Drops, DropBegin
  <2>2. QED  BY <2>1 DEF OriginInv
<1>10. CASE DropEnd
  <2>1. UNCHANGED <<sock, outlived, chunk, held, running, slowq>> /\ txq' = <<>> /\ wire' = Idle
    BY <1>10 DEF DropEnd, Reset
  <2>2. QED  BY <2>1 DEF OriginInv, Own, Idle
<1>11. CASE Adopts
  <2>1. PICK s \in Sessions : Adopt(s)
    BY <1>11 DEF Adopts
  <2>2. /\ UNCHANGED <<chunk, held, running, slowq>> /\ txq' = <<>> /\ wire' = Idle
        /\ \A i \in DOMAIN slowq : slowq[i] \in outlived'
        /\ held \in outlived' \cup {NoOne} /\ chunk.of \in outlived' \cup {NoOne}
    BY <2>1, AdoptTypes
  <2>3. running = NoOne
    BY <1>11 DEF Adopts, PlaceInv
  <2>4. QED  BY <2>2, <2>3 DEF OriginInv, Own, Idle
<1>12. QED
  BY <1>1, <1>2, <1>3, <1>4, <1>5, <1>6, <1>7, <1>8, <1>9, <1>10, <1>11, StepCases DEF RxPieces

-----------------------------------------------------------------------------
(* The properties *)

LEMMA AuthStep ==
  ASSUME TypeOK, PlaceInv, ChunkInv, AuthIsOwn, [Next]_vars
  PROVE  AuthIsOwn'
<1> USE DEF air, peer, fds, rx, slow, tx, ghosts
<1>1. CASE Aside \/ EmitEvent \/ TxPass \/ RxRead \/ RxUnblock \/ SlowTake \/ SlowReply \/ DropEnd
  <2>1. UNCHANGED <<sock, authed, straddled, granted>>
    BY <1>1 DEF Aside, EmitEvent, TxPass, RxRead, RxUnblock, SlowTake, SlowReply, DropEnd
  <2>2. QED  BY <2>1 DEF AuthIsOwn
<1>2. ASSUME NEW kind \in Kinds, RxPiece(kind)
      PROVE  AuthIsOwn'
  <2>1. /\ UNCHANGED <<sock, straddled>> /\ chunk.left > 0
        /\ UNCHANGED <<authed, granted>> \/ Execute(chunk.of, kind)
    BY <1>2 DEF RxPiece
  <2>2. CASE UNCHANGED <<authed, granted>>
    BY <2>1, <2>2 DEF AuthIsOwn
  <2>3. CASE Execute(chunk.of, kind)
    <3>1. authed' = (authed \/ kind = "auth") /\ granted' = IF kind = "auth" THEN chunk.of ELSE granted
      BY <2>3 DEF Execute
    <3>2. sock # NoOne /\ ~straddled => chunk.of = sock
      BY <2>1 DEF ChunkInv
    <3>3. CASE kind = "auth"
      BY <2>1, <3>1, <3>2, <3>3 DEF AuthIsOwn
    <3>4. CASE kind # "auth"
      <4>1. (authed' <=> authed) /\ granted' = granted
        BY <3>1, <3>4 DEF TypeOK
      <4>2. QED  BY <2>1, <4>1 DEF AuthIsOwn
    <3>5. QED  BY <3>3, <3>4
  <2>4. QED  BY <2>1, <2>2, <2>3
<1>3. CASE Drops
  BY <1>3 DEF Drops, DropBegin, AuthIsOwn
<1>4. CASE Adopts
  BY <1>4 DEF Adopts, Adopt, AuthIsOwn
<1>5. QED
  BY <1>1, <1>2, <1>3, <1>4, StepCases DEF RxPieces

LEMMA AnswersStep ==
  ASSUME TypeOK, OriginInv, AnswersStay, [Next]_vars
  PROVE  AnswersStay'
<1> USE DEF air, peer, fds, rx, slow, tx, ghosts
<1>1. CASE TxPass
  <2>1. outlived' = outlived
    BY <1>1 DEF TxPass
  <2>2. CASE stray' = stray
    BY <2>1, <2>2 DEF AnswersStay
  <2>3. CASE stray' # stray
    <3>1. PICK r \in Sessions : /\ sock # NoOne /\ r # sock /\ stray' = stray \cup {<<r, sock>>}
                                /\ r = wire.for \/ \E j \in DOMAIN txq : r = txq[j]
      BY <1>1, <2>3, TxFacts
    <3>2. r \in Own /\ r # NoOne
      BY <3>1 DEF OriginInv, Sessions, NoOne
    <3>3. r \in outlived
      BY <3>1, <3>2 DEF Own
    <3>4. QED  BY <2>1, <3>1, <3>3 DEF AnswersStay
  <2>4. QED  BY <2>2, <2>3
<1>2. CASE Adopts
  <2>1. PICK s \in Sessions : Adopt(s)
    BY <1>2 DEF Adopts
  <2>2. stray' = stray /\ outlived \subseteq outlived'
    BY <2>1, AdoptTypes
  <2>3. QED  BY <2>2 DEF AnswersStay
<1>3. CASE ~TxPass /\ ~Adopts
  <2>1. UNCHANGED <<stray, outlived>>
    BY <1>3, StepCases DEF Aside, EmitEvent, RxRead, RxPieces, RxPiece, RxUnblock, SlowTake, SlowReply,
                           Drops, DropBegin, DropEnd
  <2>2. QED  BY <2>1 DEF AnswersStay
<1>4. QED  BY <1>1, <1>2, <1>3

\* No event, by index rather than as a set.
NoEvents ==
  sock # NoOne =>
    /\ wire.busy => wire.begun \in {NoOne, sock}
    /\ ~authed => /\ \A i \in DOMAIN txq : txq[i] # Event
                  /\ wire.busy => wire.for # Event

LEMMA NoEventsMeans == NoEvents <=> FramesStayWhole
<1>1. Event \in ToSet(txq) <=> \E i \in DOMAIN txq : txq[i] = Event
  BY DEF ToSet
<1>2. (\A i \in DOMAIN txq : txq[i] # Event) <=> Event \notin ToSet(txq)
  BY <1>1
<1>3. QED  BY <1>2 DEF NoEvents, FramesStayWhole

LEMMA NoEventsStep ==
  ASSUME TypeOK, PlaceInv, NoEvents, [Next]_vars
  PROVE  NoEvents'
<1> USE DEF air, peer, fds, rx, slow, tx, ghosts
<1>0. \A s \in Sessions : s # Event
  BY DEF Sessions, Event
<1>1. CASE Aside \/ RxRead \/ SlowTake
  <2>1. UNCHANGED <<sock, authed, txq, wire>>
    BY <1>1 DEF Aside, RxRead, SlowTake
  <2>2. QED  BY <2>1 DEF NoEvents
<1>2. CASE EmitEvent
  BY <1>2 DEF EmitEvent, NoEvents
<1>3. CASE TxPass
  <2>1. UNCHANGED <<sock, authed>>
    BY <1>3 DEF TxPass
  <2>2. \A i \in DOMAIN txq' : \E j \in DOMAIN txq : txq'[i] = txq[j]
    BY <1>3, TxFacts
  <2>3. \/ wire' = Idle
        \/ /\ wire'.begun \in {NoOne, sock} \/ (wire.busy /\ wire'.begun = wire.begun)
           /\ \/ wire.busy /\ wire'.for = wire.for
              \/ \E j \in DOMAIN txq : wire'.for = txq[j]
    BY <1>3, TxFacts
  <2>4. QED  BY <2>1, <2>2, <2>3 DEF NoEvents, Idle
<1>4. ASSUME NEW kind \in Kinds, RxPiece(kind)
      PROVE  NoEvents'
  <2>1. /\ UNCHANGED <<sock, wire>> /\ chunk.of \in Sessions
        /\ UNCHANGED <<authed, txq>> \/ Execute(chunk.of, kind)
    BY <1>4 DEF RxPiece, PlaceInv, TypeOK
  <2>2. CASE UNCHANGED <<authed, txq>>
    BY <2>1, <2>2 DEF NoEvents
  <2>3. CASE Execute(chunk.of, kind)
    <3>1. /\ \A i \in DOMAIN txq' : txq'[i] = chunk.of \/ \E j \in DOMAIN txq : txq'[i] = txq[j]
          /\ authed => authed'
      BY <2>1, <2>3, ExecuteFacts
    <3>2. QED  BY <1>0, <2>1, <3>1 DEF NoEvents
  <2>4. QED  BY <2>1, <2>2, <2>3
<1>5. CASE RxUnblock
  <2>1. held \in Sessions /\ Enqueue(held) /\ UNCHANGED <<sock, authed, wire>>
    BY <1>5 DEF RxUnblock, TypeOK
  <2>2. \A i \in DOMAIN txq' : txq'[i] = held \/ \E j \in DOMAIN txq : txq'[i] = txq[j]
    BY <2>1, EnqueueFacts
  <2>3. QED  BY <1>0, <2>1, <2>2 DEF NoEvents
<1>6. CASE SlowReply
  <2>1. running \in Sessions /\ Enqueue(running) /\ UNCHANGED <<sock, authed, wire>>
    BY <1>6 DEF SlowReply, PlaceInv, TypeOK
  <2>2. \A i \in DOMAIN txq' : txq'[i] = running \/ \E j \in DOMAIN txq : txq'[i] = txq[j]
    BY <2>1, EnqueueFacts
  <2>3. QED  BY <1>0, <2>1, <2>2 DEF NoEvents
<1>7. CASE Drops
  <2>1. sock' = NoOne
    BY <1>7 DEF Drops, DropBegin
  <2>2. QED  BY <2>1 DEF NoEvents
<1>8. CASE DropEnd \/ Adopts
  <2>1. txq' = <<>> /\ wire' = Idle
    BY <1>8 DEF DropEnd, Adopts, Adopt, Reset
  <2>2. QED  BY <2>1 DEF NoEvents, Idle
<1>9. QED
  BY <1>1, <1>2, <1>3, <1>4, <1>5, <1>6, <1>7, <1>8, StepCases DEF RxPieces

LEMMA FramesStep ==
  ASSUME TypeOK, PlaceInv, FramesStayWhole, [Next]_vars
  PROVE  FramesStayWhole'
<1>1. NoEvents
  BY NoEventsMeans
<1>2. NoEvents'
  BY <1>1, NoEventsStep
<1>3. QED  BY <1>2, NoEventsMeans, PTL

LEMMA HalfFramesStep ==
  ASSUME TypeOK, ChunkInv, HalfFramesForgotten, [Next]_vars
  PROVE  HalfFramesForgotten'
<1> USE DEF air, peer, fds, rx, slow, tx, ghosts
<1>1. ASSUME NEW kind \in Kinds, RxPiece(kind)
      PROVE  HalfFramesForgotten'
  <2>1. /\ straddled' = straddled /\ chunk.left > 0
        /\ spoiled' = IF acc \notin {NoOne, chunk.of} THEN spoiled \cup {chunk.of} ELSE spoiled
    BY <1>1 DEF RxPiece
  <2>2. ~straddled => acc \in {NoOne, chunk.of}
    BY <2>1 DEF ChunkInv
  <2>3. QED  BY <2>1, <2>2 DEF HalfFramesForgotten
<1>2. CASE Adopts
  <2>1. spoiled' = spoiled /\ (straddled => straddled')
    BY <1>2 DEF Adopts, Adopt
  <2>2. QED  BY <2>1 DEF HalfFramesForgotten
<1>3. CASE ~RxPieces /\ ~Adopts
  <2>1. UNCHANGED <<spoiled, straddled>>
    BY <1>3, StepCases DEF Aside, EmitEvent, TxPass, RxRead, RxUnblock, SlowTake, SlowReply,
                           Drops, DropBegin, DropEnd
  <2>2. QED  BY <2>1 DEF HalfFramesForgotten
<1>4. QED  BY <1>1, <1>2, <1>3 DEF RxPieces

-----------------------------------------------------------------------------
(* The theorems *)

LEMMA InitInv == Init => IInv
<1> SUFFICES ASSUME Init PROVE IInv
  OBVIOUS
<1>1. EnvTypes /\ PeerTypes
  <2>1. EnvTypes
    <3>1. losses \in 0..MaxLosses /\ conn \in [Sessions -> {"new", "open", "closed"}]
      BY LinkAssumption DEF Init
    <3>2. {joined, listening} \subseteq BOOLEAN /\ mode \in Modes /\ slowAt = "loop"
      BY DEF Init
    <3>3. {backlog, dialing, dropping} \subseteq Sessions \cup {NoOne}
      BY DEF Init
    <3>4. QED  BY <3>1, <3>2, <3>3 DEF EnvTypes
  <2>2. PeerTypes
    BY DEF Init, PeerTypes, NoOne
  <2>3. QED  BY <2>1, <2>2
<1>2. RxTypes
  BY LinkAssumption DEF Init, RxTypes, Empty, NoOne
<1>3. QueueTypes
  BY LinkAssumption DEF Init, QueueTypes, NoOne
<1>4. WireTypes
  <2>1. wire = Idle /\ stray = {} /\ outlived = {}
    BY DEF Init
  <2>2. wire \in [busy : BOOLEAN, for : Sessions \cup {Event}, begun : Sessions \cup {NoOne}]
    BY <2>1 DEF Idle, NoOne, Event
  <2>3. stray \subseteq Sessions \X Sessions /\ outlived \subseteq Sessions
    BY <2>1
  <2>4. QED  BY <2>2, <2>3 DEF WireTypes
<1>5. TypeOK
  BY <1>1, <1>2, <1>3, <1>4, TypeParts
<1>6. PlaceInv /\ ChunkInv /\ OriginInv
  BY DEF Init, PlaceInv, ChunkInv, OriginInv, Empty
<1>7. AuthIsOwn /\ AnswersStay /\ FramesStayWhole /\ HalfFramesForgotten
  BY DEF Init, AuthIsOwn, AnswersStay, FramesStayWhole, HalfFramesForgotten
<1>8. QED  BY <1>5, <1>6, <1>7 DEF IInv

LEMMA InductiveInv == IInv /\ [Next]_vars => IInv'
<1> SUFFICES ASSUME IInv, [Next]_vars PROVE IInv'
  OBVIOUS
<1>1. /\ TypeOK /\ PlaceInv /\ ChunkInv /\ OriginInv
      /\ AuthIsOwn /\ AnswersStay /\ FramesStayWhole /\ HalfFramesForgotten
  BY DEF IInv
<1>2. TypeOK'
  BY <1>1, TypeStep
<1>3. PlaceInv' /\ ChunkInv' /\ OriginInv'
  BY <1>1, PlaceStep, ChunkStep, OriginStep
<1>4. AuthIsOwn' /\ AnswersStay'
  BY <1>1, AuthStep, AnswersStep
<1>5. FramesStayWhole' /\ HalfFramesForgotten'
  BY <1>1, FramesStep, HalfFramesStep
<1>6. QED  BY <1>2, <1>3, <1>4, <1>5 DEF IInv

\* The inductive invariant of the Wi-Fi link: everything below follows.
THEOREM LinkInvariant == Spec => []IInv
<1>1. QED  BY InitInv, InductiveInv, PTL DEF Spec

\* The queues of the firmware never grow past the depth they were created
\* with, and every session number the tasks hold is one that connected.
THEOREM LinkTypes == Spec => []TypeOK
<1>1. IInv => TypeOK
  BY DEF IInv
<1>2. QED  BY <1>1, LinkInvariant, PTL

\* authed_flag is a flag of the link, not of the session: it is the session's
\* own all the same, unless rx_task was inside its predecessor when it began.
THEOREM FlagIsOfTheSession == Spec => []AuthIsOwn
<1>1. IInv => AuthIsOwn
  BY DEF IInv
<1>2. QED  BY <1>1, LinkInvariant, PTL

\* drop_peer() and adopt_peer() clear enough: an answer goes to another session
\* only for a request that was queued or being executed across both.
THEOREM AnswersOfTheSession == Spec => []AnswersStay
<1>1. IInv => AnswersStay
  BY DEF IInv
<1>2. QED  BY <1>1, LinkInvariant, PTL

\* proto_link_tcp_reset() leaves no tail of a frame and no event for the next
\* session, wherever tx_task and the emitters were.
THEOREM FramesOfTheSession == Spec => []FramesStayWhole
<1>1. IInv => FramesStayWhole
  BY DEF IInv
<1>2. QED  BY <1>1, LinkInvariant, PTL

\* Its reset of the accumulator is enough too, unless rx_task was still inside
\* the session that left the half frame.
THEOREM HalfFramesOfTheSession == Spec => []HalfFramesForgotten
<1>1. IInv => HalfFramesForgotten
  BY DEF IInv
<1>2. QED  BY <1>1, LinkInvariant, PTL
=============================================================================
