-------------------------- MODULE NetSockets_proofs --------------------------
(***************************************************************************)
(* Proofs about NetSockets for any number of connections and slots and any *)
(* sizes of windows, chunks and queues.                                    *)
(*                                                                         *)
(* The difficulty is that handles are used again: a handle means one       *)
(* connection to the board and may still mean another to the host.  What   *)
(* holds it together is the order of the transmit queue (Chain): whatever  *)
(* it says of a handle's next owner comes after the end of the last one.   *)
(* The exception, a holder that is still closing when the next owner       *)
(* arrives (Doomed), is what raced records.                                *)
(*                                                                         *)
(* The second half is about what the slots carry.  The bytes of a stream   *)
(* are a set of places in a queue, in order (WholeOf), and credit a sum    *)
(* over the rest of a queue after the frame that gives a connection its    *)
(* handle (Rest, Weight), which changes at one end at a time.  A request   *)
(* that is sent twice gives one connection two slots, so a slot is counted *)
(* with what is under way under its own handle only (DataOn).  What else   *)
(* is needed: who asks for a slot has none yet (AskedInv), credit is given *)
(* by sockets that were in use (AckInv), and what is left of a slot's last *)
(* connection comes before its next one's handle (OrderInv).               *)
(***************************************************************************)
EXTENDS NetSockets, WellFoundedInduction, SequenceTheorems, FiniteSetTheorems, FunctionTheorems, TLAPS

\* The frames of the transmit queue, as one connection sees them: the handle it
\* is given, its end, and anything about its handle that is not its own.
Grant(e, c, h) ==
  \/ e.op = "accept" /\ e.conn = c /\ e.new = h
  \/ e.op = "reply" /\ e.ok /\ e.who = c /\ e.h = h
End(e, c, h) == e.op = "closed" /\ e.h = h /\ e.conn = c
Foreign(e, c, h) ==
  \/ e.op \in {"data", "closed"} /\ e.h = h /\ e.conn # c
  \/ e.op = "accept" /\ e.new = h /\ e.conn # c
  \/ e.op = "reply" /\ e.ok /\ e.who # c /\ e.h = h

\* The end of c is between places a and b of queue q.
Ended(q, c, h, a, b) == \E k \in DOMAIN q : a < k /\ k < b /\ End(q[k], c, h)

\* After place g of queue q, nothing of handle h is another's before the end of
\* c is told, and it will be told when c no longer has the slot.
Chain(s, q, c, h, g) ==
  /\ s[h] = c \/ Ended(q, c, h, g, Len(q) + 1)
  /\ \A j \in DOMAIN q : g < j /\ Foreign(q[j], c, h) => Ended(q, c, h, g, j)

Opening(r, o) == r.op = "open" /\ r.obj = o
Closing(r, o) == r.op = "close" /\ r.who = o

\* No frame carries more than its peer sent.
SizeInv ==
  \A i \in DOMAIN toHost : toHost[i].op = "data" => toHost[i].from + toHost[i].n <= MaxBytes + 1

\* The call of o that waits has one frame at most, where its answer is to come from.
CallOf(o) ==
  /\ \A i \in DOMAIN toBoard : toBoard[i].who = o =>
       /\ \/ toBoard[i].op = "open" /\ toBoard[i].obj = o /\ pc[o] = "opening"
          \/ toBoard[i].op = "close" /\ toBoard[i].h = handle[o] /\ pc[o] = "closing"
       /\ \A j \in DOMAIN toBoard : toBoard[j].who = o => j = i
       /\ \A j \in DOMAIN toHost : toHost[j].who # o
  /\ \A i \in DOMAIN toHost : toHost[i].who = o =>
       /\ toHost[i].op = "reply"
       /\ \/ pc[o] = "opening" /\ (toHost[i].ok => toHost[i].h # 0)
          \/ pc[o] = "closing" /\ toHost[i].h = 0
       /\ \A j \in DOMAIN toHost : toHost[j].who = o => j = i

\* Only a call that was given up leaves a frame without a name.
NamedInv ==
  ~lostFrame =>
    /\ \A i \in DOMAIN toBoard : toBoard[i].op # "ack" => toBoard[i].who # None
    /\ \A i \in DOMAIN toHost : toHost[i].op = "reply" => toHost[i].who # None

CallInv == NamedInv /\ \A o \in Objects : CallOf(o)

\* Who has a handle, and what is kept under it.
PlaceInv ==
  /\ \A o \in Objects :
       /\ pc[o] \in {"register", "use", "closing", "forget"} => handle[o] # 0
       /\ pc[o] \in {"new", "opening"} => handle[o] = 0
       /\ o \in Incoming => pc[o] \notin {"opening", "register"}
  /\ \A c \in Conns : /\ acking[c] > 0 => pc[c] = "use"
                      /\ pc[c] \in {"new", "opening", "register"} => fed[c] = <<>>
  /\ \A h \in Handles :
       sockets[h] # None =>
         handle[sockets[h]] = h /\ pc[sockets[h]] \in {"use", "closing", "forget"}

\* A connection is accepted once, and is new until the host hears of it.
AcceptInv ==
  /\ \A c \in Incoming \ arrived : pc[c] = "new"
  /\ \A i \in DOMAIN toHost :
       toHost[i].op = "accept" =>
         /\ toHost[i].conn \in arrived /\ pc[toHost[i].conn] = "new"
         /\ \A j \in DOMAIN toHost : j # i /\ toHost[j].op = "accept" => toHost[j].conn # toHost[i].conn

\* A slot of its own was, or will no more be, given to o.
Spent(o) ==
  IF o \in Incoming THEN o \in arrived
  ELSE pc[o] # "new" /\ \A i \in DOMAIN toBoard : ~Opening(toBoard[i], o)

SpentInv ==
  ~lostFrame =>
    /\ \A h \in Handles : socks[h] # None =>
         /\ Spent(socks[h])
         /\ \A g \in Handles : g # h => socks[g] # socks[h]
    /\ \A i \in DOMAIN toHost : toHost[i].op = "closed" =>
         /\ Spent(toHost[i].conn)
         /\ \A h \in Handles : socks[h] # toHost[i].conn

\* A holder of the handle will still be closing when the host hears of c.
Doomed(c, h, g) ==
  \E o \in Objects \ {c} :
    /\ handle[o] = h /\ pc[o] = "closing"
    /\ \E k \in DOMAIN toHost : g < k /\ toHost[k].op = "reply" /\ toHost[k].who = o

GrantInv ==
  ~lostFrame =>
    \A c \in Conns, h \in Handles, g \in DOMAIN toHost :
      Grant(toHost[g], c, h) => Doomed(c, h, g) \/ Chain(socks, toHost, c, h, g)

\* The socket has its handle and does not know of an end.
Live(c) == pc[c] = "register" \/ (pc[c] = "use" /\ open[c])

\* Its handle is its own: nobody else works with it, and nothing foreign comes first.
LiveOf(c) ==
  /\ Chain(socks, toHost, c, handle[c], 0)
  /\ \A o \in Objects \ {c} : handle[o] = handle[c] => pc[o] = "done"
  /\ pc[c] = "use" => sockets[handle[c]] = c
  /\ \A i \in DOMAIN fed[c] : fed[c][i][1] = c

LiveInv == ~lostFrame => \A c \in Conns \ raced : Live(c) => LiveOf(c)

OwnerInv ==
  ~lostFrame =>
    \A c \in Conns \ raced, h \in Handles :
      socks[h] = c =>
        \/ \E i \in DOMAIN toHost : Grant(toHost[i], c, h)
        \/ handle[c] = h /\ Live(c)
        \/ handle[c] = h /\ pc[c] = "closing" /\ \E i \in DOMAIN toBoard : Closing(toBoard[i], c)

IInv ==
  /\ TypeOK /\ SizeInv /\ CallInv /\ PlaceInv /\ AcceptInv
  /\ SpentInv /\ GrantInv /\ LiveInv /\ OwnerInv

-----------------------------------------------------------------------------
(* Numbers, records and queues *)

LEMMA Names ==
  /\ Server \in Objects /\ None \notin Objects /\ Conns \subseteq Objects /\ Server \notin Conns
  /\ 0 \notin Handles /\ Handles \subseteq Nat /\ Incoming \subseteq Conns
  BY NetAssumption, ServerIsNoConnection DEF Objects, Handles, Server, None, Conns

\* A free slot has a first one.
LEMMA FirstFree ==
  ASSUME Free # {}
  PROVE  AllocateSocket \in Free
<1>1. Free \subseteq Nat
  BY DEF Free, Handles
<1>2. PICK m \in Free : \A k \in Free : <<k, m>> \notin OpToRel(<, Nat)
  BY <1>1, NatLessThanWellFounded, WFMin
<1>3. ASSUME NEW k \in Free PROVE m <= k
  <2>1. k < m => <<k, m>> \in {ss \in Nat \X Nat : ss[1] < ss[2]}
    BY <1>1
  <2>2. <<k, m>> \notin {ss \in Nat \X Nat : ss[1] < ss[2]}
    BY <1>2 DEF OpToRel
  <2>3. QED  BY <1>1, <2>1, <2>2
<1>4. QED  BY <1>3 DEF AllocateSocket, Min

\* The most that may be polled is no more than the room in the window.
LEMMA PollSizeBound ==
  ASSUME TypeOK, NEW h \in Handles
  PROVE  PollSize(h) \in Nat /\ PollSize(h) <= Chunk /\ PollSize(h) <= Window - windowUsed[h]
<1> DEFINE a == Chunk
           b == Window - windowUsed[h]
<1>1. a \in Nat /\ b \in Nat /\ windowUsed[h] \in Nat
  BY NetAssumption DEF TypeOK
<1>2. \E x \in {a, b} : \A y \in {a, b} : x <= y
  BY <1>1
<1>3. Min({a, b}) \in {a, b} /\ \A y \in {a, b} : Min({a, b}) <= y
  BY <1>2 DEF Min
<1>4. QED  BY <1>1, <1>3 DEF PollSize

LEMMA AppendFacts ==
  ASSUME NEW S, NEW q \in Seq(S), NEW x \in S
  PROVE  /\ Append(q, x) \in Seq(S) /\ Len(Append(q, x)) = Len(q) + 1 /\ Len(q) \in Nat
         /\ DOMAIN q = 1 .. Len(q) /\ DOMAIN Append(q, x) = 1 .. (Len(q) + 1)
         /\ \A i \in DOMAIN q : i \in DOMAIN Append(q, x) /\ i # Len(q) + 1 /\ Append(q, x)[i] = q[i]
         /\ \A i \in DOMAIN Append(q, x) : i = Len(q) + 1 \/ i \in DOMAIN q
         /\ Append(q, x)[Len(q) + 1] = x
<1>1. Append(q, x) \in Seq(S) /\ Len(Append(q, x)) = Len(q) + 1 /\ Len(q) \in Nat
      /\ DOMAIN q = 1 .. Len(q) /\ Append(q, x)[Len(q) + 1] = x
  OBVIOUS
<1>2. DOMAIN Append(q, x) = 1 .. (Len(q) + 1)
  BY <1>1
<1>3. \A i \in 1 .. Len(q) : i \in 1 .. (Len(q) + 1) /\ i # Len(q) + 1
  BY <1>1
<1>4. \A i \in 1 .. (Len(q) + 1) : i = Len(q) + 1 \/ i \in 1 .. Len(q)
  BY <1>1
<1>5. \A i \in DOMAIN q : Append(q, x)[i] = q[i]
  OBVIOUS
<1>6. QED  BY <1>1, <1>2, <1>3, <1>4, <1>5

LEMMA TailFacts ==
  ASSUME NEW S, NEW q \in Seq(S), q # <<>>
  PROVE  /\ Tail(q) \in Seq(S) /\ Len(Tail(q)) = Len(q) - 1 /\ Len(q) \in Nat \ {0}
         /\ DOMAIN q = 1 .. Len(q) /\ DOMAIN Tail(q) = 1 .. (Len(q) - 1)
         /\ \A i \in DOMAIN Tail(q) : i \in Nat /\ i + 1 \in DOMAIN q /\ i + 1 # 1 /\ Tail(q)[i] = q[i + 1]
         /\ \A i \in DOMAIN q : i = 1 \/ (i - 1 \in DOMAIN Tail(q) /\ Tail(q)[i - 1] = q[i])
         /\ Head(q) = q[1] /\ 1 \in DOMAIN q /\ Head(q) \in S
<1>1. Tail(q) \in Seq(S) /\ Len(Tail(q)) = Len(q) - 1 /\ Len(q) \in Nat \ {0}
      /\ DOMAIN q = 1 .. Len(q) /\ Head(q) = q[1]
  OBVIOUS
<1>2. DOMAIN Tail(q) = 1 .. (Len(q) - 1)
  BY <1>1
<1>3. \A i \in 1 .. (Len(q) - 1) : i \in Nat /\ i + 1 \in 1 .. Len(q) /\ i + 1 # 1
  BY <1>1
<1>4. \A i \in DOMAIN Tail(q) : Tail(q)[i] = q[i + 1]
  BY <1>1
<1>5. \A i \in DOMAIN q : i = 1 \/ (i - 1 \in DOMAIN Tail(q) /\ Tail(q)[i - 1] = q[i])
  <2>1. ASSUME NEW i \in DOMAIN q, i # 1
        PROVE  i - 1 \in DOMAIN Tail(q) /\ Tail(q)[i - 1] = q[i]
    <3>1. i - 1 \in 1 .. (Len(q) - 1) /\ (i - 1) + 1 = i
      BY <1>1, <2>1
    <3>2. QED  BY <1>2, <1>4, <3>1
  <2>2. QED  BY <2>1
<1>6. 1 \in DOMAIN q /\ Head(q) \in S
  BY <1>1
<1>7. QED  BY <1>1, <1>2, <1>3, <1>4, <1>5, <1>6

LEMMA EmitFacts ==
  ASSUME TypeOK, NEW f \in Frames, Emit(f)
  PROVE  /\ toHost' \in Seq(Frames) /\ Len(toHost') <= TxQueue
         /\ failures' \in 0 .. MaxFailures /\ raced' = raced /\ overdrawn' = overdrawn /\ (lostFrame => lostFrame')
         /\ toHost' = toHost \/ toHost' = Append(toHost, f)
         /\ ~lostFrame' => toHost' = Append(toHost, f)
<1>1. toHost \in Seq(Frames) /\ Len(toHost) <= TxQueue /\ Len(toHost) \in Nat /\ TxQueue \in Nat
      /\ failures \in 0 .. MaxFailures
  BY NetAssumption DEF TypeOK
<1>2. CASE Len(toHost) < TxQueue
  <2>1. toHost' = Append(toHost, f) /\ failures' = failures /\ raced' = raced /\ overdrawn' = overdrawn
    BY <1>2 DEF Emit
  <2>2. Append(toHost, f) \in Seq(Frames) /\ Len(Append(toHost, f)) = Len(toHost) + 1
    BY <1>1, AppendFacts
  <2>3. QED  BY <1>1, <1>2, <2>1, <2>2 DEF lostFrame
<1>3. CASE ~(Len(toHost) < TxQueue)
  <2>1. toHost' = toHost /\ failures' = failures + 1 /\ failures < MaxFailures /\ UNCHANGED <<raced, overdrawn>>
    BY <1>3 DEF Emit, MayFail, Failed
  <2>2. failures' \in 0 .. MaxFailures /\ failures' > 0
    BY <1>1, <2>1, NetAssumption
  <2>3. QED  BY <1>1, <2>1, <2>2 DEF lostFrame
<1>4. QED  BY <1>2, <1>3

Busy(r) == [op |-> "reply", who |-> r.who, h |-> 0, ok |-> FALSE]

LEMMA RecordTypes ==
  /\ \A w \in Objects \cup {None}, h \in {0} \cup Handles, ok \in BOOLEAN :
       [op |-> "reply", who |-> w, h |-> h, ok |-> ok] \in Frames
  /\ \A h \in Handles, c \in Conns, b \in 1 .. MaxBytes, n \in 1 .. Chunk :
       [op |-> "data", who |-> None, h |-> h, conn |-> c, from |-> b, n |-> n] \in Frames
  /\ \A h \in Handles, c \in Conns : [op |-> "closed", who |-> None, h |-> h, conn |-> c] \in Frames
  /\ \A h, g \in Handles, c \in Conns :
       [op |-> "accept", who |-> None, h |-> h, conn |-> c, new |-> g] \in Frames
  /\ \A o \in Objects :
       /\ [op |-> "open", who |-> o, obj |-> o] \in Requests
       /\ \A h \in Handles : [op |-> "close", who |-> o, h |-> h] \in Requests
  /\ \A c \in Conns, h \in Handles, n \in Nat \ {0} :
       [op |-> "ack", who |-> None, of |-> c, h |-> h, n |-> n] \in Requests
<1>1. \A w \in Objects \cup {None}, h \in {0} \cup Handles, ok \in BOOLEAN :
        [op |-> "reply", who |-> w, h |-> h, ok |-> ok] \in Frames
  BY DEF Frames
<1>2. \A h \in Handles, c \in Conns, b \in 1 .. MaxBytes, n \in 1 .. Chunk :
        [op |-> "data", who |-> None, h |-> h, conn |-> c, from |-> b, n |-> n] \in Frames
  BY DEF Frames
<1>3. \A h \in Handles, c \in Conns : [op |-> "closed", who |-> None, h |-> h, conn |-> c] \in Frames
  BY DEF Frames
<1>4. \A h, g \in Handles, c \in Conns :
        [op |-> "accept", who |-> None, h |-> h, conn |-> c, new |-> g] \in Frames
  BY DEF Frames
<1>5. \A o \in Objects :
        /\ [op |-> "open", who |-> o, obj |-> o] \in Requests
        /\ \A h \in Handles : [op |-> "close", who |-> o, h |-> h] \in Requests
  BY DEF Requests
<1>6. \A c \in Conns, h \in Handles, n \in Nat \ {0} :
        [op |-> "ack", who |-> None, of |-> c, h |-> h, n |-> n] \in Requests
  BY DEF Requests
<1>7. QED  BY <1>1, <1>2, <1>3, <1>4, <1>5, <1>6

\* What the fields of a frame are.
LEMMA FrameFields ==
  ASSUME NEW f \in Frames
  PROVE  /\ f.op \in {"data", "accept", "closed", "reply"} /\ f.who \in Objects \cup {None}
         /\ f.op # "reply" => f.h \in Handles /\ f.conn \in Conns /\ f.who = None
         /\ f.op = "accept" => f.new \in Handles
         /\ f.op = "data" => f.from \in 1 .. MaxBytes /\ f.n \in 1 .. Chunk
         /\ f.op = "reply" => f.h \in {0} \cup Handles /\ f.ok \in BOOLEAN
         /\ [f EXCEPT !.who = None] \in Frames
  BY DEF Frames

LEMMA RequestFields ==
  ASSUME NEW r \in Requests
  PROVE  /\ r.op \in {"open", "close", "ack"} /\ r.who \in Objects \cup {None}
         /\ r.op = "open" => r.obj \in Objects
         /\ r.op # "open" => r.h \in Handles
         /\ r.op = "ack" => r.n \in Nat \ {0} /\ r.who = None /\ r.of \in Conns
         /\ [r EXCEPT !.who = None] \in Requests
  BY DEF Requests

LEMMA SubmitFacts ==
  ASSUME TypeOK, NEW r \in Requests, Submit(r)
  PROVE  /\ toBoard' \in Seq(Requests) /\ Len(toBoard') <= SlowQueue
         /\ toHost' \in Seq(Frames) /\ Len(toHost') <= TxQueue
         /\ failures' \in 0 .. MaxFailures /\ raced' = raced /\ overdrawn' = overdrawn /\ (lostFrame => lostFrame')
         /\ toBoard' = Append(toBoard, r) \/ (toBoard' = toBoard /\ lostFrame')
         /\ toHost' = toHost \/ (toBoard' = toBoard /\ r.who # None /\ toHost' = Append(toHost, Busy(r)) /\ lostFrame')
<1>1. /\ toHost \in Seq(Frames) /\ Len(toHost) <= TxQueue /\ Len(toHost) \in Nat /\ TxQueue \in Nat
      /\ toBoard \in Seq(Requests) /\ Len(toBoard) <= SlowQueue /\ Len(toBoard) \in Nat /\ SlowQueue \in Nat
      /\ failures \in 0 .. MaxFailures
  BY NetAssumption DEF TypeOK
<1>2. raced' = raced /\ overdrawn' = overdrawn
  BY DEF Submit
<1> DEFINE Fits == Len(toBoard) < SlowQueue /\ toBoard' = Append(toBoard, r) /\ toHost' = toHost /\ failures' = failures
           Full == /\ toBoard' = toBoard /\ failures < MaxFailures /\ failures' = failures + 1
                   /\ \/ r.who # None /\ Len(toHost) < TxQueue /\ toHost' = Append(toHost, Busy(r))
                      \/ toHost' = toHost
<1>3. Fits \/ Full
  BY DEF Submit, Busy, MayFail, Failed
<1> HIDE DEF Fits, Full
<1>4. CASE Fits
  <2>1. Append(toBoard, r) \in Seq(Requests) /\ Len(Append(toBoard, r)) = Len(toBoard) + 1
    BY <1>1, AppendFacts
  <2>2. toBoard' \in Seq(Requests) /\ Len(toBoard') <= SlowQueue /\ toHost' \in Seq(Frames) /\ Len(toHost') <= TxQueue
    <3>1. Len(toBoard) < SlowQueue /\ toBoard' = Append(toBoard, r) /\ toHost' = toHost
      BY <1>4 DEF Fits
    <3>2. Len(toBoard) + 1 <= SlowQueue
      BY <1>1, <3>1
    <3>3. QED  BY <1>1, <2>1, <3>1, <3>2
  <2>3. /\ failures' \in 0 .. MaxFailures /\ (lostFrame => lostFrame')
        /\ toBoard' = Append(toBoard, r) /\ toHost' = toHost
    BY <1>1, <1>4 DEF Fits, lostFrame
  <2>4. QED  BY <1>2, <2>2, <2>3
<1>5. CASE Full
  <2>1. Busy(r) \in Frames
    BY RecordTypes, RequestFields DEF Busy
  <2>2. Append(toHost, Busy(r)) \in Seq(Frames) /\ Len(Append(toHost, Busy(r))) = Len(toHost) + 1
    BY <1>1, <2>1, AppendFacts
  <2>3. toBoard' \in Seq(Requests) /\ Len(toBoard') <= SlowQueue /\ toHost' \in Seq(Frames) /\ Len(toHost') <= TxQueue
    <3>1. /\ toBoard' = toBoard
          /\ \/ Len(toHost) < TxQueue /\ toHost' = Append(toHost, Busy(r))
             \/ toHost' = toHost
      BY <1>5 DEF Full
    <3>2. CASE toHost' = toHost
      BY <1>1, <3>1, <3>2
    <3>3. CASE Len(toHost) < TxQueue /\ toHost' = Append(toHost, Busy(r))
      <4>1. Len(toHost) + 1 <= TxQueue
        BY <1>1, <3>3
      <4>2. QED  BY <1>1, <2>2, <3>1, <3>3, <4>1
    <3>4. QED  BY <3>1, <3>2, <3>3
  <2>4. failures' \in 0 .. MaxFailures /\ lostFrame'
    BY <1>1, <1>5, NetAssumption DEF Full, lostFrame
  <2>5. /\ toBoard' = toBoard
        /\ toHost' = toHost \/ (r.who # None /\ toHost' = Append(toHost, Busy(r)))
    BY <1>5 DEF Full
  <2>6. QED  BY <1>2, <2>3, <2>4, <2>5
<1>6. QED  BY <1>3, <1>4, <1>5

LEMMA TakeFacts ==
  ASSUME TypeOK, NEW op, Taking(op)
  PROVE  /\ toBoard \in Seq(Requests) /\ toBoard # <<>> /\ toBoard' = Tail(toBoard)
         /\ Head(toBoard) \in Requests /\ Head(toBoard).op = op /\ Head(toBoard) = toBoard[1]
         /\ toBoard' \in Seq(Requests) /\ Len(toBoard') <= SlowQueue
<1>1. toBoard \in Seq(Requests) /\ toBoard # <<>> /\ toBoard' = Tail(toBoard) /\ Head(toBoard).op = op
      /\ Len(toBoard) <= SlowQueue /\ SlowQueue \in Nat
  BY NetAssumption DEF Taking, TypeOK
<1>2. Tail(toBoard) \in Seq(Requests) /\ Len(Tail(toBoard)) = Len(toBoard) - 1 /\ Len(toBoard) \in Nat
      /\ Head(toBoard) = toBoard[1] /\ Head(toBoard) \in Requests
  BY <1>1, TailFacts
<1>3. QED  BY <1>1, <1>2

LEMMA ReceiveFacts ==
  ASSUME TypeOK, NEW op, Receiving(op)
  PROVE  /\ toHost \in Seq(Frames) /\ toHost # <<>> /\ toHost' = Tail(toHost)
         /\ Head(toHost) \in Frames /\ Head(toHost).op = op /\ Head(toHost) = toHost[1]
         /\ toHost' \in Seq(Frames) /\ Len(toHost') <= TxQueue
<1>1. toHost \in Seq(Frames) /\ toHost # <<>> /\ toHost' = Tail(toHost) /\ Head(toHost).op = op
      /\ Len(toHost) <= TxQueue /\ TxQueue \in Nat
  BY NetAssumption DEF Receiving, TypeOK
<1>2. Tail(toHost) \in Seq(Frames) /\ Len(Tail(toHost)) = Len(toHost) - 1 /\ Len(toHost) \in Nat
      /\ Head(toHost) = toHost[1] /\ Head(toHost) \in Frames
  BY <1>1, TailFacts
<1>3. QED  BY <1>1, <1>2

-----------------------------------------------------------------------------
(* How a queue changes what it says of one connection *)

LEMMA PushChain ==
  ASSUME NEW S, NEW q \in Seq(S), NEW f \in S, NEW s, NEW t, NEW c, NEW h, NEW g \in Nat,
         g <= Len(q), Chain(s, q, c, h, g),
         Foreign(f, c, h) => s[h] # c, s[h] = c => t[h] = c \/ End(f, c, h)
  PROVE  Chain(t, Append(q, f), c, h, g)
<1> DEFINE p == Append(q, f)
           n == Len(q)
<1>1. /\ n \in Nat /\ Len(p) = n + 1 /\ DOMAIN q = 1 .. n /\ DOMAIN p = 1 .. (n + 1)
      /\ \A i \in DOMAIN q : i \in DOMAIN p /\ i # n + 1 /\ p[i] = q[i]
      /\ \A i \in DOMAIN p : i = n + 1 \/ i \in DOMAIN q
      /\ p[n + 1] = f
  BY AppendFacts
<1> HIDE DEF p, n
<1>2. ASSUME NEW b, Ended(q, c, h, g, b)
      PROVE  Ended(p, c, h, g, b)
  BY <1>1, <1>2 DEF Ended
<1>3. Ended(q, c, h, g, n + 1) => Ended(p, c, h, g, n + 2)
  <2>1. \A k \in DOMAIN q : k < n + 1 => k < n + 2
    BY <1>1
  <2>2. QED  BY <1>1, <2>1 DEF Ended
<1>4. End(f, c, h) => Ended(p, c, h, g, n + 2)
  <2>1. n + 1 \in DOMAIN p /\ g < n + 1 /\ n + 1 < n + 2
    BY <1>1 DEF n
  <2>2. QED  BY <1>1, <2>1 DEF Ended
<1>5. s[h] = c \/ Ended(q, c, h, g, n + 1)
  BY DEF Chain, n
<1>6. t[h] = c \/ Ended(p, c, h, g, n + 2)
  BY <1>3, <1>4, <1>5
<1>7. \A j \in DOMAIN p : g < j /\ Foreign(p[j], c, h) => Ended(p, c, h, g, j)
  <2> SUFFICES ASSUME NEW j \in DOMAIN p, g < j, Foreign(p[j], c, h)
               PROVE  Ended(q, c, h, g, j)
    BY <1>2
  <2>1. CASE j = n + 1
    BY <1>1, <1>5, <2>1
  <2>2. CASE j \in DOMAIN q
    BY <1>1, <2>2 DEF Chain
  <2>3. QED  BY <1>1, <2>1, <2>2
<1>8. Len(p) + 1 = n + 2
  BY <1>1
<1>9. QED  BY <1>6, <1>7, <1>8 DEF Chain, p

LEMMA PopChain ==
  ASSUME NEW S, NEW q \in Seq(S), q # <<>>, NEW s, NEW c, NEW h, NEW g \in Nat,
         Chain(s, q, c, h, g + 1)
  PROVE  Chain(s, Tail(q), c, h, g)
<1> DEFINE p == Tail(q)
           n == Len(q)
<1>1. /\ n \in Nat \ {0} /\ Len(p) = n - 1 /\ DOMAIN q = 1 .. n /\ DOMAIN p = 1 .. (n - 1)
      /\ \A i \in DOMAIN p : i \in Nat /\ i + 1 \in DOMAIN q /\ p[i] = q[i + 1]
      /\ \A i \in DOMAIN q : i = 1 \/ (i - 1 \in DOMAIN p /\ p[i - 1] = q[i])
  BY TailFacts
<1>2. s[h] = c \/ Ended(q, c, h, g + 1, n + 1)
  BY DEF Chain
<1> HIDE DEF p, n
<1>3. ASSUME NEW b \in Int, Ended(q, c, h, g + 1, b)
      PROVE  Ended(p, c, h, g, b - 1)
  <2>1. PICK k \in DOMAIN q : g + 1 < k /\ k < b /\ End(q[k], c, h)
    BY <1>3 DEF Ended
  <2>2. k \in Int /\ k # 1
    BY <1>1, <2>1
  <2>3. k - 1 \in DOMAIN p /\ p[k - 1] = q[k] /\ g < k - 1 /\ k - 1 < b - 1
    BY <1>1, <2>1, <2>2
  <2>4. QED  BY <2>1, <2>3 DEF Ended
<1>4. s[h] = c \/ Ended(p, c, h, g, Len(p) + 1)
  <2>1. n + 1 \in Int /\ (n + 1) - 1 = Len(p) + 1
    BY <1>1
  <2>2. QED  BY <1>2, <1>3, <2>1
<1>5. ASSUME NEW j \in DOMAIN p, g < j, Foreign(p[j], c, h)
      PROVE  Ended(p, c, h, g, j)
  <2>1. j \in Nat /\ j + 1 \in DOMAIN q /\ p[j] = q[j + 1] /\ g + 1 < j + 1 /\ (j + 1) - 1 = j /\ j + 1 \in Int
    BY <1>1, <1>5
  <2>2. Ended(q, c, h, g + 1, j + 1)
    BY <1>5, <2>1 DEF Chain
  <2>3. QED  BY <1>3, <2>1, <2>2
<1>6. QED  BY <1>4, <1>5 DEF Chain, p

LEMMA HeadChain ==
  ASSUME NEW S, NEW q \in Seq(S), q # <<>>, NEW s, NEW c, NEW h, Chain(s, q, c, h, 0)
  PROVE  /\ ~Foreign(Head(q), c, h)
         /\ ~End(Head(q), c, h) => Chain(s, Tail(q), c, h, 0)
<1>1. DOMAIN q = 1 .. Len(q) /\ Len(q) \in Nat \ {0} /\ Head(q) = q[1] /\ 1 \in DOMAIN q
  BY TailFacts
<1>2. ~Foreign(Head(q), c, h)
  <2>1. ~Ended(q, c, h, 0, 1)
    BY <1>1 DEF Ended
  <2>2. QED  BY <1>1, <2>1 DEF Chain
<1>3. ASSUME ~End(Head(q), c, h)
      PROVE  Chain(s, Tail(q), c, h, 0)
  <2>1. ASSUME NEW b, Ended(q, c, h, 0, b) PROVE Ended(q, c, h, 1, b)
    <3>1. PICK k \in DOMAIN q : 0 < k /\ k < b /\ End(q[k], c, h)
      BY <2>1 DEF Ended
    <3>2. k # 1 /\ k \in Int
      BY <1>1, <1>3, <3>1
    <3>3. 1 < k
      BY <3>1, <3>2
    <3>4. QED  BY <3>1, <3>3 DEF Ended
  <2>2. s[h] = c \/ Ended(q, c, h, 1, Len(q) + 1)
    BY <2>1 DEF Chain
  <2>3. ASSUME NEW j \in DOMAIN q, 1 < j, Foreign(q[j], c, h) PROVE Ended(q, c, h, 1, j)
    <3>1. 0 < j
      BY <1>1, <2>3
    <3>2. QED  BY <2>1, <2>3, <3>1 DEF Chain
  <2>4. Chain(s, q, c, h, 0 + 1)
    BY <2>2, <2>3 DEF Chain
  <2>5. QED  BY <2>4, PopChain
<1>4. QED  BY <1>2, <1>3

-----------------------------------------------------------------------------
(* What the board's steps are: a frame f, and what it says *)

DataSent(f) ==
  /\ f.op = "data" /\ f.who = None /\ socks[f.h] = f.conn /\ f.from + f.n <= MaxBytes + 1
  /\ socks' = socks /\ arrived' = arrived /\ toBoard' = toBoard
ClosedSent(f) ==
  /\ f.op = "closed" /\ f.who = None /\ socks[f.h] = f.conn
  /\ socks' = [socks EXCEPT ![f.h] = None] /\ arrived' = arrived /\ toBoard' = toBoard
AcceptSent(f) ==
  /\ f.op = "accept" /\ f.who = None /\ f.conn \in Incoming \ arrived /\ socks[f.new] = None
  /\ socks' = [socks EXCEPT ![f.new] = f.conn]
  /\ arrived' = arrived \cup {f.conn} /\ toBoard' = toBoard
\* An answer to the request at the head of the slow queue.
Answer(f, op) ==
  /\ Taking(op) /\ f.op = "reply" /\ f.who = Head(toBoard).who /\ arrived' = arrived
RefusalSent(f) == Answer(f, "open") /\ f.h = 0 /\ ~f.ok /\ socks' = socks
OpenedSent(f) ==
  /\ Answer(f, "open") /\ f.h # 0 /\ f.ok /\ socks[f.h] = None
  /\ socks' = [socks EXCEPT ![f.h] = Head(toBoard).obj]
ShutSent(f) ==
  /\ Answer(f, "close") /\ f.h = 0
  /\ socks' = [socks EXCEPT ![Head(toBoard).h] = None]

Sent(f) ==
  /\ Emit(f)
  /\ \/ DataSent(f) \/ ClosedSent(f) \/ AcceptSent(f)
     \/ RefusalSent(f) \/ OpenedSent(f) \/ ShutSent(f)

\* The steps that tell the host nothing: no slot for a connection, and credit.
Silent ==
  /\ socks' = socks /\ toHost' = toHost
  /\ failures' = failures /\ raced' = raced /\ overdrawn' \in SUBSET Conns
  /\ \/ \E c \in Incoming : arrived' = arrived \cup {c} /\ toBoard' = toBoard
     \/ arrived' = arrived /\ Taking("ack")

LEMMA BoardCases ==
  ASSUME TypeOK, Board
  PROVE  UNCHANGED host /\ (Silent \/ \E f \in Frames : Sent(f))
<1>1. ASSUME NEW h \in Handles, PollData(h) PROVE UNCHANGED host /\ \E f \in Frames : Sent(f)
  <2>1. PICK c \in Conns, n \in 1 .. PollSize(h) :
          /\ socks[h] = c /\ read[c] + n <= MaxBytes
          /\ Emit([op |-> "data", who |-> None, h |-> h, conn |-> c, from |-> read[c] + 1, n |-> n])
          /\ UNCHANGED <<socks, arrived, toBoard, host>>
    BY <1>1 DEF PollData
  <2> DEFINE f == [op |-> "data", who |-> None, h |-> h, conn |-> c, from |-> read[c] + 1, n |-> n]
  <2>2. n \in 1 .. Chunk /\ read[c] + 1 \in 1 .. MaxBytes
    <3>1. PollSize(h) \in Nat /\ PollSize(h) <= Chunk
      BY PollSizeBound
    <3>2. MaxBytes \in Nat /\ Chunk \in Nat /\ read[c] \in Nat
      BY NetAssumption DEF TypeOK
    <3>3. n \in Nat \ {0} /\ n <= Chunk
      BY <3>1, <3>2
    <3>4. QED  BY <2>1, <3>2, <3>3
  <2>3. f \in Frames
    BY <2>2, RecordTypes
  <2>4. DataSent(f)
    <3>1. read[c] \in Nat /\ n \in Nat
      BY <2>2, NetAssumption DEF TypeOK
    <3>2. (read[c] + 1) + n <= MaxBytes + 1
      BY <2>1, <3>1, NetAssumption
    <3>3. QED  BY <2>1, <3>2 DEF DataSent
  <2>5. QED  BY <2>1, <2>3, <2>4 DEF Sent
<1>2. ASSUME NEW h \in Handles, PollClosed(h) PROVE UNCHANGED host /\ \E f \in Frames : Sent(f)
  <2>1. PICK c \in Conns :
          /\ socks[h] = c /\ Emit([op |-> "closed", who |-> None, h |-> h, conn |-> c])
          /\ socks' = [socks EXCEPT ![h] = None] /\ UNCHANGED <<net, toBoard, host>>
    BY <1>2 DEF PollClosed, FreeSocket
  <2> DEFINE f == [op |-> "closed", who |-> None, h |-> h, conn |-> c]
  <2>2. f \in Frames
    BY RecordTypes
  <2>3. ClosedSent(f)
    BY <2>1 DEF ClosedSent, net
  <2>4. QED  BY <2>1, <2>2, <2>3 DEF Sent
<1>3. ASSUME NEW h \in Handles, PollListen(h) PROVE UNCHANGED host /\ (Silent \/ \E f \in Frames : Sent(f))
  <2>1. PICK c \in Incoming :
          /\ socks[h] = Server /\ c \notin arrived
          /\ arrived' = arrived \cup {c}
          /\ IF Free = {}
             THEN UNCHANGED <<board, toHost, ghosts>>
             ELSE /\ socks' = [socks EXCEPT ![AllocateSocket] = c]
                  /\ Emit([op |-> "accept", who |-> None, h |-> h, conn |-> c, new |-> AllocateSocket])
          /\ UNCHANGED <<read, toBoard, host>>
    BY <1>3 DEF PollListen
  <2>2. CASE Free = {}
    BY <2>1, <2>2 DEF Silent, board, ghosts, TypeOK
  <2>3. CASE Free # {}
    <3> DEFINE f == [op |-> "accept", who |-> None, h |-> h, conn |-> c, new |-> AllocateSocket]
    <3>1. AllocateSocket \in Handles /\ socks[AllocateSocket] = None
      BY <2>3, FirstFree DEF Free
    <3>2. f \in Frames
      BY <3>1, RecordTypes, Names
    <3>3. AcceptSent(f)
      BY <2>1, <2>3, <3>1 DEF AcceptSent
    <3>4. QED  BY <2>1, <2>3, <3>2, <3>3 DEF Sent
  <2>4. QED  BY <2>2, <2>3
<1>4. ASSUME HandleOpen PROVE UNCHANGED host /\ \E f \in Frames : Sent(f)
  <2> DEFINE r == Head(toBoard)
             f == [op |-> "reply", who |-> r.who, h |-> 0, ok |-> FALSE]
             g == [op |-> "reply", who |-> r.who, h |-> AllocateSocket, ok |-> TRUE]
  <2>1. Taking("open") /\ UNCHANGED host
    BY <1>4 DEF HandleOpen
  <2>2. r \in Requests /\ r.who \in Objects \cup {None}
    BY <2>1, TakeFacts, RequestFields
  <2>3. \/ Emit(f) /\ socks' = socks /\ arrived' = arrived
        \/ /\ Free # {} /\ socks' = [socks EXCEPT ![AllocateSocket] = r.obj]
           /\ Emit(g) /\ arrived' = arrived
    BY <1>4 DEF HandleOpen, Fail, Reply, board, net
  <2>4. CASE Emit(f) /\ socks' = socks /\ arrived' = arrived
    <3>1. f \in Frames
      BY <2>2, RecordTypes
    <3>2. RefusalSent(f)
      BY <2>1, <2>4 DEF RefusalSent, Answer
    <3>3. QED  BY <2>1, <2>4, <3>1, <3>2 DEF Sent
  <2>5. CASE /\ Free # {} /\ socks' = [socks EXCEPT ![AllocateSocket] = r.obj]
             /\ Emit(g) /\ arrived' = arrived
    <3>1. AllocateSocket \in Handles /\ socks[AllocateSocket] = None /\ AllocateSocket # 0
      BY <2>5, FirstFree, Names DEF Free
    <3>2. g \in Frames
      BY <2>2, <3>1, RecordTypes
    <3>3. OpenedSent(g)
      BY <2>1, <2>5, <3>1 DEF OpenedSent, Answer
    <3>4. QED  BY <2>1, <2>5, <3>2, <3>3 DEF Sent
  <2>6. QED  BY <2>3, <2>4, <2>5
<1>5. ASSUME HandleClose PROVE UNCHANGED host /\ \E f \in Frames : Sent(f)
  <2> DEFINE r == Head(toBoard)
             f == [op |-> "reply", who |-> r.who, h |-> 0, ok |-> TRUE]
  <2>1. /\ Taking("close") /\ UNCHANGED host /\ Emit(f) /\ arrived' = arrived
        /\ socks' = [socks EXCEPT ![r.h] = None]
    BY <1>5 DEF HandleClose, Reply, FreeSocket, net
  <2>2. r \in Requests /\ r.who \in Objects \cup {None}
    BY <2>1, TakeFacts, RequestFields
  <2>3. f \in Frames
    BY <2>2, RecordTypes
  <2>4. ShutSent(f)
    BY <2>1 DEF ShutSent, Answer
  <2>5. QED  BY <2>1, <2>3, <2>4 DEF Sent
<1>6. ASSUME HandleAck PROVE UNCHANGED host /\ Silent
  <2>1. overdrawn' \in SUBSET Conns
    BY <1>6 DEF HandleAck, TypeOK
  <2>2. QED  BY <1>6, <2>1 DEF HandleAck, Silent, net
<1>7. QED  BY <1>1, <1>2, <1>3, <1>4, <1>5, <1>6 DEF Board

-----------------------------------------------------------------------------
(* Types *)

BoardTypes ==
  /\ socks \in [Handles -> Sockets] /\ windowUsed \in [Handles -> 0..Window]
  /\ arrived \in SUBSET Incoming /\ read \in [Conns -> 0..MaxBytes]
QueueTypes ==
  /\ toBoard \in Seq(Requests) /\ Len(toBoard) <= SlowQueue
  /\ toHost \in Seq(Frames) /\ Len(toHost) <= TxQueue
  /\ failures \in 0 .. MaxFailures /\ raced \in SUBSET Conns /\ overdrawn \in SUBSET Conns
HostTypes ==
  /\ sockets \in [Handles -> Sockets] /\ pc \in [Objects -> PCs]
  /\ handle \in [Objects -> {0} \cup Handles] /\ open \in [Conns -> BOOLEAN]
DataTypes ==
  /\ fed \in [Conns -> Seq(Byte)]
  /\ taken \in [Conns -> Nat] /\ acking \in [Conns -> Nat]

LEMMA TypeParts == TypeOK <=> BoardTypes /\ QueueTypes /\ HostTypes /\ DataTypes
  BY DEF TypeOK, BoardTypes, QueueTypes, HostTypes, DataTypes

LEMMA BoardTypeStep ==
  ASSUME TypeOK, Board
  PROVE  BoardTypes'
<1>1. BoardTypes /\ Window \in Nat \ {0} /\ MaxBytes \in Nat
  BY TypeParts, NetAssumption
<1>2. Conns \subseteq Sockets /\ Server \in Sockets /\ None \in Sockets /\ Objects \subseteq Sockets
      /\ Incoming \subseteq Sockets /\ 0 \in 0 .. Window
  BY <1>1, Names DEF Sockets, Objects
<1>3. ASSUME NEW h \in Handles, PollData(h) PROVE BoardTypes'
  <2>1. PICK c \in Conns, n \in 1 .. PollSize(h) :
          /\ read[c] + n <= MaxBytes
          /\ read' = [read EXCEPT ![c] = @ + n]
          /\ windowUsed' = [windowUsed EXCEPT ![h] = @ + n]
          /\ UNCHANGED <<socks, arrived>>
    BY <1>3 DEF PollData
  <2>2. PollSize(h) \in Nat /\ PollSize(h) <= Window - windowUsed[h]
    BY PollSizeBound
  <2>3. read[c] \in Nat /\ windowUsed[h] \in Nat
    BY <1>1 DEF BoardTypes
  <2>4. n \in Nat /\ n <= Window - windowUsed[h]
    BY <1>1, <2>2, <2>3
  <2>5. read[c] + n \in 0 .. MaxBytes /\ windowUsed[h] + n \in 0 .. Window
    BY <1>1, <2>1, <2>3, <2>4
  <2>6. QED  BY <1>1, <2>1, <2>5 DEF BoardTypes
<1>4. ASSUME NEW h \in Handles, PollClosed(h) PROVE BoardTypes'
  BY <1>1, <1>2, <1>4 DEF PollClosed, FreeSocket, BoardTypes, net
<1>5. ASSUME NEW h \in Handles, PollListen(h) PROVE BoardTypes'
  BY <1>1, <1>2, <1>5 DEF PollListen, BoardTypes, board
<1>6. ASSUME HandleOpen PROVE BoardTypes'
  <2>1. Head(toBoard).op = "open" => Head(toBoard).obj \in Sockets
    BY <1>2, <1>6, TakeFacts, RequestFields DEF HandleOpen
  <2>2. Head(toBoard).op = "open"
    BY <1>6 DEF HandleOpen, Taking
  <2>3. QED  BY <1>1, <1>2, <1>6, <2>1, <2>2 DEF HandleOpen, Fail, BoardTypes, board, net
<1>7. ASSUME HandleClose PROVE BoardTypes'
  BY <1>1, <1>2, <1>7 DEF HandleClose, FreeSocket, BoardTypes, net
<1>8. ASSUME HandleAck PROVE BoardTypes'
  <2> DEFINE r == Head(toBoard)
             u == windowUsed[r.h]
  <2>1. r \in Requests /\ r.op = "ack"
    BY <1>8, TakeFacts DEF HandleAck
  <2>2. r.h \in Handles /\ r.n \in Nat \ {0}
    BY <2>1, RequestFields
  <2>3. u \in 0 .. Window
    BY <1>1, <2>2 DEF BoardTypes
  <2> HIDE DEF r, u
  <2>4. \E x \in {0, u - r.n} : \A y \in {0, u - r.n} : x >= y
    BY <1>1, <2>2, <2>3
  <2>5. Max({0, u - r.n}) \in {0, u - r.n} /\ \A y \in {0, u - r.n} : Max({0, u - r.n}) >= y
    BY <2>4 DEF Max
  <2>6. Max({0, u - r.n}) \in 0 .. Window
    BY <1>1, <2>2, <2>3, <2>5
  <2>7. windowUsed' = [windowUsed EXCEPT ![r.h] = Max({0, u - r.n})] /\ UNCHANGED <<socks, net>>
    BY <1>8 DEF HandleAck, r, u
  <2>8. QED  BY <1>1, <2>6, <2>7 DEF BoardTypes, net
<1>9. QED  BY <1>3, <1>4, <1>5, <1>6, <1>7, <1>8 DEF Board

LEMMA FunctionIsSequence ==
  ASSUME NEW S, NEW n \in Nat, NEW q \in [1 .. n -> S]
  PROVE  q \in Seq(S) /\ Len(q) = n
  OBVIOUS

\* The queues in which nothing has the name of o any more.
LEMMA AnonymousFacts ==
  ASSUME TypeOK, NEW o \in Objects
  PROVE  LET b == Anonymous(toBoard, o)
             t == Anonymous(toHost, o)
         IN /\ b \in Seq(Requests) /\ Len(b) = Len(toBoard) /\ DOMAIN b = DOMAIN toBoard
            /\ t \in Seq(Frames) /\ Len(t) = Len(toHost) /\ DOMAIN t = DOMAIN toHost
            /\ \A i \in DOMAIN toBoard :
                 b[i] = IF toBoard[i].who = o THEN [toBoard[i] EXCEPT !.who = None] ELSE toBoard[i]
            /\ \A i \in DOMAIN toHost :
                 t[i] = IF toHost[i].who = o THEN [toHost[i] EXCEPT !.who = None] ELSE toHost[i]
<1> DEFINE b == Anonymous(toBoard, o)
           t == Anonymous(toHost, o)
<1>1. /\ toBoard \in Seq(Requests) /\ DOMAIN toBoard = 1 .. Len(toBoard) /\ Len(toBoard) \in Nat
      /\ toHost \in Seq(Frames) /\ DOMAIN toHost = 1 .. Len(toHost) /\ Len(toHost) \in Nat
  BY DEF TypeOK
<1>2. /\ b = [i \in DOMAIN toBoard |->
           IF toBoard[i].who = o THEN [toBoard[i] EXCEPT !.who = None] ELSE toBoard[i]]
      /\ t = [i \in DOMAIN toHost |->
           IF toHost[i].who = o THEN [toHost[i] EXCEPT !.who = None] ELSE toHost[i]]
  BY DEF Anonymous
<1> HIDE DEF b, t
<1>3. \A i \in DOMAIN toBoard : toBoard[i] \in Requests /\ [toBoard[i] EXCEPT !.who = None] \in Requests
  BY <1>1, RequestFields
<1>4. \A i \in DOMAIN toHost : toHost[i] \in Frames /\ [toHost[i] EXCEPT !.who = None] \in Frames
  BY <1>1, FrameFields
<1>5. b \in [1 .. Len(toBoard) -> Requests] /\ t \in [1 .. Len(toHost) -> Frames]
  <2>1. DOMAIN toBoard = 1 .. Len(toBoard) /\ DOMAIN toHost = 1 .. Len(toHost)
    BY <1>1
  <2>2. b \in [1 .. Len(toBoard) -> Requests]
    BY <1>2, <1>3, <2>1
  <2>3. t \in [1 .. Len(toHost) -> Frames]
    BY <1>2, <1>4, <2>1
  <2>4. QED  BY <2>2, <2>3
<1>6. b \in Seq(Requests) /\ Len(b) = Len(toBoard) /\ t \in Seq(Frames) /\ Len(t) = Len(toHost)
  BY <1>1, <1>5, FunctionIsSequence
<1>7. /\ DOMAIN b = DOMAIN toBoard
      /\ \A i \in DOMAIN toBoard :
           b[i] = IF toBoard[i].who = o THEN [toBoard[i] EXCEPT !.who = None] ELSE toBoard[i]
  BY <1>2
<1>8. /\ DOMAIN t = DOMAIN toHost
      /\ \A i \in DOMAIN toHost :
           t[i] = IF toHost[i].who = o THEN [toHost[i] EXCEPT !.who = None] ELSE toHost[i]
  BY <1>2
<1>9. QED  BY <1>6, <1>7, <1>8 DEF b, t

\* A call that is late is a failure of the model.
LEMMA LateFacts ==
  ASSUME TypeOK, NEW o, Late(o)
  PROVE  failures' \in 0 .. MaxFailures /\ lostFrame'
<1>1. failures \in 0 .. MaxFailures /\ MaxFailures \in Nat
  BY NetAssumption DEF TypeOK
<1>2. \/ failures > 0 /\ failures' = failures
      \/ failures < MaxFailures /\ failures' = failures + 1
  BY DEF Late, MayFail, Failed, lostFrame
<1>3. failures' \in 0 .. MaxFailures /\ failures' > 0
  BY <1>1, <1>2
<1>4. QED  BY <1>3 DEF lostFrame

\* A call that is given up leaves its frames without a name.
LEMMA GiveUpFacts ==
  ASSUME TypeOK, NEW o \in Objects, GiveUp(o)
  PROVE  /\ toBoard' \in Seq(Requests) /\ Len(toBoard') = Len(toBoard)
         /\ toHost' \in Seq(Frames) /\ Len(toHost') = Len(toHost)
         /\ DOMAIN toBoard' = DOMAIN toBoard /\ DOMAIN toHost' = DOMAIN toHost
         /\ \A i \in DOMAIN toBoard :
              toBoard'[i] = IF toBoard[i].who = o THEN [toBoard[i] EXCEPT !.who = None] ELSE toBoard[i]
         /\ \A i \in DOMAIN toHost :
              toHost'[i] = IF toHost[i].who = o THEN [toHost[i] EXCEPT !.who = None] ELSE toHost[i]
         /\ failures' \in 0 .. MaxFailures /\ lostFrame'
<1>1. Late(o) /\ toBoard' = Anonymous(toBoard, o) /\ toHost' = Anonymous(toHost, o)
  BY DEF GiveUp
<1>2. failures' \in 0 .. MaxFailures /\ lostFrame'
  BY <1>1, LateFacts
<1>3. QED  BY <1>1, <1>2, AnonymousFacts

\* What an application thread asks the board.
LEMMA AskFacts ==
  ASSUME TypeOK, PlaceInv
  PROVE  /\ \A o \in Objects : [op |-> "open", who |-> o, obj |-> o] \in Requests
         /\ \A o \in Objects : pc[o] \in {"use", "closing"} =>
              [op |-> "close", who |-> o, h |-> handle[o]] \in Requests
         /\ \A c \in Conns : acking[c] > 0 =>
              [op |-> "ack", who |-> None, of |-> c, h |-> handle[c], n |-> acking[c]] \in Requests
<1>1. \A o \in Objects : pc[o] \in {"use", "closing"} => handle[o] \in Handles
  BY DEF PlaceInv, TypeOK
<1>2. \A c \in Conns : acking[c] > 0 => handle[c] \in Handles /\ acking[c] \in Nat \ {0}
  BY <1>1, Names DEF PlaceInv, TypeOK
<1>3. QED  BY <1>1, <1>2, RecordTypes

\* A call that is made again has one request or answer more, of its own.
LEMMA RetryFacts ==
  ASSUME TypeOK, PlaceInv, NEW o \in Objects, Retry(o)
  PROVE  LET b == Anonymous(toBoard, o)
             t == Anonymous(toHost, o)
             r == Request(o)
         IN /\ r \in Requests /\ r.who = o /\ Busy(r) \in Frames
            /\ \/ pc[o] = "opening" /\ r = [op |-> "open", who |-> o, obj |-> o]
               \/ pc[o] = "closing" /\ r = [op |-> "close", who |-> o, h |-> handle[o]]
            /\ \/ toBoard' = Append(b, r) /\ toHost' = t
               \/ toBoard' = b /\ (toHost' = t \/ toHost' = Append(t, Busy(r)))
            /\ toBoard' \in Seq(Requests) /\ Len(toBoard') <= SlowQueue
            /\ toHost' \in Seq(Frames) /\ Len(toHost') <= TxQueue
            /\ failures' \in 0 .. MaxFailures /\ lostFrame' /\ raced' = raced /\ overdrawn' = overdrawn
            /\ UNCHANGED <<board, net, host>>
<1> DEFINE b == Anonymous(toBoard, o)
           t == Anonymous(toHost, o)
           r == Request(o)
<1>1. \/ pc[o] = "opening" /\ r = [op |-> "open", who |-> o, obj |-> o]
      \/ pc[o] = "closing" /\ r = [op |-> "close", who |-> o, h |-> handle[o]]
  BY DEF Retry, Request
<1>2. r \in Requests /\ r.who = o
  BY <1>1, AskFacts
<1>3. Busy(r) \in Frames
  BY <1>2, RecordTypes, RequestFields DEF Busy
<1>4. /\ Len(toBoard) <= SlowQueue /\ SlowQueue \in Nat /\ Len(toBoard) \in Nat
      /\ Len(toHost) <= TxQueue /\ TxQueue \in Nat /\ Len(toHost) \in Nat
  BY NetAssumption DEF TypeOK
<1>5. /\ b \in Seq(Requests) /\ Len(b) = Len(toBoard)
      /\ t \in Seq(Frames) /\ Len(t) = Len(toHost)
  BY AnonymousFacts
<1>6. failures' \in 0 .. MaxFailures /\ lostFrame' /\ raced' = raced /\ overdrawn' = overdrawn
      /\ UNCHANGED <<board, net, host>>
  BY LateFacts DEF Retry, host
<1>7. \/ toBoard' = Append(b, r) /\ Len(toBoard) < SlowQueue /\ toHost' = t
      \/ toBoard' = b /\ (toHost' = t \/ (Len(toHost) < TxQueue /\ toHost' = Append(t, Busy(r))))
  <2>1. Busy(r) = [op |-> "reply", who |-> o, h |-> 0, ok |-> FALSE]
    BY <1>2 DEF Busy
  <2> HIDE DEF r, b, t
  <2>2. \/ toBoard' = Append(b, r) /\ Len(toBoard) < SlowQueue /\ toHost' = t
        \/ /\ toBoard' = b
           /\ toHost' = IF Len(toHost) < TxQueue
                         THEN Append(t, [op |-> "reply", who |-> o, h |-> 0, ok |-> FALSE]) ELSE t
    BY DEF Retry, b, t, r
  <2>3. QED  BY <2>1, <2>2
<1> HIDE DEF b, t, r
<1>8. Append(b, r) \in Seq(Requests) /\ Len(Append(b, r)) = Len(b) + 1
  BY <1>2, <1>5, AppendFacts
<1>9. Append(t, Busy(r)) \in Seq(Frames) /\ Len(Append(t, Busy(r))) = Len(t) + 1
  BY <1>3, <1>5, AppendFacts
<1>10. toBoard' \in Seq(Requests) /\ Len(toBoard') <= SlowQueue
  <2>1. CASE toBoard' = b
    BY <1>4, <1>5, <2>1
  <2>2. CASE toBoard' = Append(b, r) /\ Len(toBoard) < SlowQueue
    <3>1. Len(b) + 1 <= SlowQueue
      BY <1>4, <1>5, <2>2
    <3>2. QED  BY <1>8, <2>2, <3>1
  <2>3. QED  BY <1>7, <2>1, <2>2
<1>11. toHost' \in Seq(Frames) /\ Len(toHost') <= TxQueue
  <2>1. CASE toHost' = t
    BY <1>4, <1>5, <2>1
  <2>2. CASE toHost' = Append(t, Busy(r)) /\ Len(toHost) < TxQueue
    <3>1. Len(t) + 1 <= TxQueue
      BY <1>4, <1>5, <2>2
    <3>2. QED  BY <1>9, <2>2, <3>1
  <2>3. QED  BY <1>7, <2>1, <2>2
<1>12. QED  BY <1>1, <1>2, <1>3, <1>6, <1>7, <1>10, <1>11 DEF b, t, r

LEMMA QueueTypeStep ==
  ASSUME TypeOK, PlaceInv, [Next]_vars
  PROVE  QueueTypes'
<1>1. QueueTypes /\ SlowQueue \in Nat /\ TxQueue \in Nat
  BY TypeParts, NetAssumption
<1>2. ASSUME Board PROVE QueueTypes'
  <2>1. CASE Silent
    <3>1. toBoard' = toBoard \/ Taking("ack")
      BY <2>1 DEF Silent
    <3>2. toBoard' \in Seq(Requests) /\ Len(toBoard') <= SlowQueue
      BY <1>1, <3>1, TakeFacts DEF QueueTypes
    <3>3. QED  BY <1>1, <2>1, <3>2 DEF Silent, QueueTypes, ghosts
  <2>2. ASSUME NEW f \in Frames, Sent(f) PROVE QueueTypes'
    <3>1. toBoard' = toBoard \/ Taking("open") \/ Taking("close")
      BY <2>2 DEF Sent, DataSent, ClosedSent, AcceptSent, RefusalSent, OpenedSent, ShutSent, Answer
    <3>2. toBoard' \in Seq(Requests) /\ Len(toBoard') <= SlowQueue
      BY <1>1, <3>1, TakeFacts DEF QueueTypes
    <3>3. /\ toHost' \in Seq(Frames) /\ Len(toHost') <= TxQueue
          /\ failures' \in 0 .. MaxFailures /\ raced' = raced /\ overdrawn' = overdrawn
      BY <2>2, EmitFacts DEF Sent
    <3>4. QED  BY <1>1, <3>2, <3>3 DEF QueueTypes
  <2>3. QED  BY <1>2, <2>1, <2>2, BoardCases
<1>3. ASSUME NEW op, Receiving(op), raced' \in SUBSET Conns, UNCHANGED <<toBoard, failures, overdrawn>> PROVE QueueTypes'
  <2>1. toHost' \in Seq(Frames) /\ Len(toHost') <= TxQueue
    BY <1>3, ReceiveFacts
  <2>2. QED  BY <1>1, <1>3, <2>1 DEF QueueTypes
<1>4. ASSUME OnData PROVE QueueTypes'
  BY <1>1, <1>3, <1>4 DEF OnData, TooEarlyFor, QueueTypes
<1>5. ASSUME OnAccept PROVE QueueTypes'
  <2>1. Head(toHost).conn \in Conns
    <3>1. Head(toHost) \in Frames /\ Head(toHost).op = "accept"
      BY <1>5, ReceiveFacts DEF OnAccept
    <3>2. QED  BY <3>1, FrameFields
  <2>2. raced' \in SUBSET Conns
    BY <1>1, <1>5, <2>1 DEF OnAccept, QueueTypes
  <2>3. QED  BY <1>3, <1>5, <2>2 DEF OnAccept
<1>6. ASSUME OnClosed PROVE QueueTypes'
  BY <1>1, <1>3, <1>6 DEF OnClosed, TooEarlyFor, QueueTypes
<1>7. ASSUME OnReply PROVE QueueTypes'
  <2>1. raced' \in SUBSET Conns
    BY <1>1, <1>7 DEF OnReply, QueueTypes
  <2>2. QED  BY <1>3, <1>7, <2>1 DEF OnReply
<1>8. ASSUME NEW r \in Requests, Submit(r) PROVE QueueTypes'
  <2>1. /\ toBoard' \in Seq(Requests) /\ Len(toBoard') <= SlowQueue
        /\ toHost' \in Seq(Frames) /\ Len(toHost') <= TxQueue
        /\ failures' \in 0 .. MaxFailures /\ raced' = raced /\ overdrawn' = overdrawn
    BY <1>8, SubmitFacts
  <2>2. QED  BY <1>1, <2>1 DEF QueueTypes
<1>9. ASSUME UNCHANGED <<toBoard, toHost, ghosts>> PROVE QueueTypes'
  BY <1>1, <1>9 DEF QueueTypes, ghosts
<1>10. ASSUME NEW o \in Objects, Open(o) PROVE QueueTypes'
  BY <1>8, <1>10, AskFacts DEF Open
<1>11. ASSUME NEW c \in Conns, Ack(c) PROVE QueueTypes'
  BY <1>8, <1>11, AskFacts DEF Ack
<1>12. ASSUME NEW o \in Objects, Close(o) PROVE QueueTypes'
  <2>1. CASE Submit([op |-> "close", who |-> o, h |-> handle[o]]) /\ pc[o] = "use"
    BY <1>8, <2>1, AskFacts
  <2>2. CASE UNCHANGED <<toBoard, toHost, ghosts>>
    BY <1>9, <2>2
  <2>3. QED  BY <1>12, <2>1, <2>2 DEF Close
<1>13. ASSUME NEW o \in Objects, GiveUp(o) PROVE QueueTypes'
  <2>1. /\ toBoard' \in Seq(Requests) /\ Len(toBoard') = Len(toBoard)
        /\ toHost' \in Seq(Frames) /\ Len(toHost') = Len(toHost)
    BY <1>13, GiveUpFacts
  <2>2. failures' \in 0 .. MaxFailures /\ raced' = raced /\ overdrawn' = overdrawn
    BY <1>13, GiveUpFacts DEF GiveUp
  <2>3. QED  BY <1>1, <2>1, <2>2 DEF QueueTypes
<1>14. ASSUME NEW o \in Objects, Retry(o) PROVE QueueTypes'
  <2>1. /\ toBoard' \in Seq(Requests) /\ Len(toBoard') <= SlowQueue
        /\ toHost' \in Seq(Frames) /\ Len(toHost') <= TxQueue
        /\ failures' \in 0 .. MaxFailures /\ raced' = raced /\ overdrawn' = overdrawn
    BY <1>14, RetryFacts
  <2>2. QED  BY <1>1, <2>1 DEF QueueTypes
<1>15. QED
  BY <1>2, <1>4, <1>5, <1>6, <1>7, <1>9, <1>10, <1>11, <1>12, <1>13, <1>14
     DEF Next, Reader, Application, Done, vars, Register, Recv, Forget

LEMMA HostTypeStep ==
  ASSUME TypeOK, [Next]_vars
  PROVE  HostTypes'
<1>1. HostTypes
  BY TypeParts
<1>2. Objects \subseteq Sockets /\ None \in Sockets /\ Conns \subseteq Objects
  BY Names DEF Sockets, Objects
<1>3. ASSUME Board PROVE HostTypes'
  BY <1>1, <1>3, BoardCases DEF host, HostTypes
<1>4. ASSUME OnData PROVE HostTypes'
  BY <1>1, <1>4 DEF OnData, HostTypes
<1>5. ASSUME OnAccept PROVE HostTypes'
  <2>1. Head(toHost).conn \in Conns /\ Head(toHost).new \in Handles
    <3>1. Head(toHost) \in Frames /\ Head(toHost).op = "accept"
      BY <1>5, ReceiveFacts DEF OnAccept
    <3>2. QED  BY <3>1, FrameFields
  <2>2. QED  BY <1>1, <1>2, <1>5, <2>1 DEF OnAccept, HostTypes, PCs
<1>6. ASSUME OnClosed PROVE HostTypes'
  BY <1>1, <1>6 DEF OnClosed, HostTypes
<1>7. ASSUME OnReply PROVE HostTypes'
  <2>1. Head(toHost).h \in {0} \cup Handles
    BY <1>7, ReceiveFacts, FrameFields DEF OnReply
  <2>2. pc' \in [Objects -> PCs]
    BY <1>1, <1>7 DEF OnReply, HostTypes, PCs
  <2>3. handle' \in [Objects -> {0} \cup Handles]
    BY <1>1, <1>7, <2>1 DEF OnReply, HostTypes
  <2>4. QED  BY <1>1, <1>7, <2>2, <2>3 DEF OnReply, HostTypes
<1>8. ASSUME NEW o \in Objects, Open(o) PROVE HostTypes'
  BY <1>1, <1>8 DEF Open, Goto, HostTypes, PCs
<1>9. ASSUME NEW o \in Objects, Register(o) PROVE HostTypes'
  BY <1>1, <1>2, <1>9 DEF Register, Goto, HostTypes, PCs
<1>10. ASSUME NEW o \in Objects, Close(o) PROVE HostTypes'
  BY <1>1, <1>10 DEF Close, Goto, HostTypes, PCs
<1>11. ASSUME NEW o \in Objects, Forget(o) PROVE HostTypes'
  BY <1>1, <1>2, <1>11 DEF Forget, Goto, HostTypes, PCs
<1>12. ASSUME NEW o \in Objects, GiveUp(o) PROVE HostTypes'
  BY <1>1, <1>12 DEF GiveUp, Goto, HostTypes, PCs
<1>13. ASSUME UNCHANGED <<sockets, pc, handle, open>> PROVE HostTypes'
  BY <1>1, <1>13 DEF HostTypes
<1>14. QED
  BY <1>3, <1>4, <1>5, <1>6, <1>7, <1>8, <1>9, <1>10, <1>11, <1>12, <1>13
     DEF Next, Reader, Application, Done, vars, host, Recv, Ack, Retry

BytesOf(e) == [i \in 1..e.n |-> <<e.conn, e.from + i - 1>>]

LEMMA DataBytes ==
  ASSUME TypeOK, SizeInv, OnData
  PROVE  LET e == Head(toHost) IN
         /\ e \in Frames /\ e.op = "data" /\ BytesOf(e) \in Seq(Byte)
         /\ \A i \in DOMAIN BytesOf(e) : BytesOf(e)[i][1] = e.conn
<1> DEFINE e == Head(toHost)
           n == e.n
<1>1. e \in Frames /\ e.op = "data" /\ e = toHost[1] /\ 1 \in DOMAIN toHost
  BY ReceiveFacts, TailFacts DEF OnData
<1>2. e.conn \in Conns /\ e.from \in 1 .. MaxBytes /\ n \in 1 .. Chunk
  BY <1>1, FrameFields
<1>3. e.from + n <= MaxBytes + 1
  BY <1>1 DEF SizeInv
<1>4. \A i \in 1 .. n : <<e.conn, e.from + i - 1>> \in Byte
  <2> SUFFICES ASSUME NEW i \in 1 .. n PROVE e.from + i - 1 \in 1 .. MaxBytes
    BY <1>2 DEF Byte
  <2>1. MaxBytes \in Nat /\ Chunk \in Nat
    BY NetAssumption
  <2>2. QED  BY <1>2, <1>3, <2>1
<1>5. BytesOf(e) = [i \in 1 .. n |-> <<e.conn, e.from + i - 1>>]
  BY DEF BytesOf
<1>6. BytesOf(e) \in [1 .. n -> Byte] /\ n \in Nat
  BY <1>2, <1>4, <1>5, NetAssumption
<1> HIDE DEF e, n
<1>7. \A i \in DOMAIN BytesOf(e) : BytesOf(e)[i][1] = e.conn
  <2>1. DOMAIN BytesOf(e) = 1 .. n /\ \A i \in 1 .. n : BytesOf(e)[i] = <<e.conn, e.from + i - 1>>
    BY <1>5
  <2>2. \A y : <<e.conn, y>>[1] = e.conn
    OBVIOUS
  <2>3. QED  BY <2>1, <2>2
<1>8. BytesOf(e) \in Seq(Byte)
  BY <1>6
<1>9. QED  BY <1>1, <1>7, <1>8 DEF e

LEMMA DataTypeStep ==
  ASSUME TypeOK, SizeInv, [Next]_vars
  PROVE  DataTypes'
<1>1. DataTypes
  BY TypeParts
<1>2. ASSUME UNCHANGED <<fed, taken, acking>> PROVE DataTypes'
  BY <1>1, <1>2 DEF DataTypes
<1>3. ASSUME OnData PROVE DataTypes'
  <2> DEFINE bytes == BytesOf(Head(toHost))
  <2>1. bytes \in Seq(Byte)
    BY <1>3, DataBytes
  <2>2. fed' = [c \in Conns |-> IF c \in Registered(Head(toHost).h) THEN fed[c] \o bytes ELSE fed[c]]
    BY <1>3 DEF OnData, BytesOf
  <2> HIDE DEF bytes
  <2>3. \A c \in Conns : fed[c] \in Seq(Byte) /\ fed[c] \o bytes \in Seq(Byte)
    BY <1>1, <2>1 DEF DataTypes
  <2>4. fed' \in [Conns -> Seq(Byte)]
    BY <2>2, <2>3
  <2>5. QED  BY <1>1, <1>3, <2>4 DEF OnData, DataTypes
<1>4. ASSUME NEW c \in Conns, Recv(c) PROVE DataTypes'
  <2>1. PICK n \in 1..(Len(fed[c]) - taken[c]) :
          taken' = [taken EXCEPT ![c] = @ + n] /\ acking' = [acking EXCEPT ![c] = n]
    BY <1>4 DEF Recv
  <2>2. n \in Nat /\ taken[c] + n \in Nat
    BY <1>1 DEF DataTypes
  <2>3. QED  BY <1>1, <1>4, <2>1, <2>2 DEF Recv, DataTypes
<1>5. ASSUME NEW c \in Conns, Ack(c) PROVE DataTypes'
  BY <1>1, <1>5 DEF Ack, DataTypes
<1>6. QED
  BY <1>2, <1>3, <1>4, <1>5, BoardCases
     DEF Next, Reader, Application, Done, vars, host, OnAccept, OnClosed, OnReply,
         Open, Register, Close, Forget, Retry, GiveUp

LEMMA TypeStep ==
  ASSUME TypeOK, SizeInv, PlaceInv, [Next]_vars
  PROVE  TypeOK'
<1>1. BoardTypes'
  <2>1. ASSUME UNCHANGED <<board, net>> PROVE BoardTypes'
    BY <2>1, TypeParts DEF board, net, BoardTypes
  <2>2. QED
    BY <2>1, BoardTypeStep
       DEF Next, Reader, Application, Done, vars, OnData, OnAccept, OnClosed, OnReply, Open, Register,
           Recv, Ack, Close, Forget, Retry, GiveUp
<1>2. QueueTypes' /\ HostTypes' /\ DataTypes'
  BY QueueTypeStep, HostTypeStep, DataTypeStep
<1>3. TypeOK' <=> BoardTypes' /\ QueueTypes' /\ HostTypes' /\ DataTypes'
  BY TypeParts, PTL
<1>4. QED  BY <1>1, <1>2, <1>3

-----------------------------------------------------------------------------
(* Whose frames are in a queue *)

\* Caller o's frames in p are those in q, a places on.
From(p, q, o, a) ==
  \A i \in DOMAIN p : p[i].who = o => i \in Int /\ i + a \in DOMAIN q /\ p[i] = q[i + a]
Absent(q, o) == \A i \in DOMAIN q : q[i].who # o

LEMMA FromFacts ==
  ASSUME NEW S, NEW q \in Seq(S), NEW o
  PROVE  /\ From(q, q, o, 0)
         /\ q # <<>> => From(Tail(q), q, o, 1)
         /\ \A f \in S : f.who # o => From(Append(q, f), q, o, 0)
<1>1. From(q, q, o, 0)
  <2>1. \A i \in DOMAIN q : i \in Int /\ i + 0 = i
    OBVIOUS
  <2>2. QED  BY <2>1 DEF From
<1>2. ASSUME q # <<>> PROVE From(Tail(q), q, o, 1)
  BY <1>2, TailFacts DEF From
<1>3. ASSUME NEW f \in S, f.who # o PROVE From(Append(q, f), q, o, 0)
  <2>1. /\ \A i \in DOMAIN q : Append(q, f)[i] = q[i]
        /\ \A i \in DOMAIN Append(q, f) : i = Len(q) + 1 \/ i \in DOMAIN q
        /\ Append(q, f)[Len(q) + 1] = f
    BY AppendFacts
  <2>2. \A i \in DOMAIN q : i \in Int /\ i + 0 = i
    OBVIOUS
  <2> DEFINE p == Append(q, f)
  <2> HIDE DEF p
  <2>3. \A i \in DOMAIN p : p[i].who = o => i \in DOMAIN q /\ p[i] = q[i]
    BY <1>3, <2>1 DEF p
  <2>4. From(p, q, o, 0)
    BY <2>2, <2>3 DEF From
  <2>5. QED  BY <2>4 DEF p
<1>4. QED  BY <1>1, <1>2, <1>3

LEMMA OneNew ==
  ASSUME NEW S, NEW q \in Seq(S), NEW f \in S, NEW o, Absent(q, o)
  PROVE  /\ Len(q) + 1 \in DOMAIN Append(q, f)
         /\ \A i \in DOMAIN Append(q, f) : Append(q, f)[i].who = o => i = Len(q) + 1 /\ Append(q, f)[i] = f
<1>1. /\ \A i \in DOMAIN q : Append(q, f)[i] = q[i]
      /\ \A i \in DOMAIN Append(q, f) : i = Len(q) + 1 \/ i \in DOMAIN q
      /\ Append(q, f)[Len(q) + 1] = f /\ DOMAIN Append(q, f) = 1 .. (Len(q) + 1) /\ Len(q) \in Nat
  BY AppendFacts
<1> DEFINE p == Append(q, f)
           n == Len(q) + 1
<1>2. n \in DOMAIN p
  BY <1>1
<1> HIDE DEF p, n
<1>3. \A i \in DOMAIN p : p[i].who = o => i = n /\ p[i] = f
  BY <1>1 DEF p, n, Absent
<1>4. QED  BY <1>2, <1>3 DEF p, n

LEMMA AbsentFrom ==
  ASSUME NEW p, NEW q, NEW o, NEW a, Absent(q, o), From(p, q, o, a)
  PROVE  Absent(p, o)
  BY DEF Absent, From

\* A queue that holds one frame of o holds none once that is gone.
LEMMA AbsentAfter ==
  ASSUME NEW S, NEW q \in Seq(S), q # <<>>, NEW o,
         \A i, j \in DOMAIN q : q[i].who = o /\ q[j].who = o => j = i, Head(q).who = o
  PROVE  Absent(Tail(q), o)
<1>1. /\ \A i \in DOMAIN Tail(q) : i + 1 \in DOMAIN q /\ i + 1 # 1 /\ Tail(q)[i] = q[i + 1]
      /\ Head(q) = q[1] /\ 1 \in DOMAIN q
  BY TailFacts
<1> DEFINE p == Tail(q)
<1> HIDE DEF p
<1>2. \A i \in DOMAIN p : p[i].who # o
  BY <1>1 DEF p
<1>3. QED  BY <1>2 DEF Absent, p

\* What happens to the transmit queue.
LEMMA HostQueue ==
  ASSUME TypeOK, PlaceInv, [Next]_vars
  PROVE  \/ toHost' = toHost
         \/ toHost # <<>> /\ toHost' = Tail(toHost)
         \/ \E f \in Frames : Sent(f) /\ toHost' = Append(toHost, f)
         \/ \E r \in Requests : r.who # None /\ toHost' = Append(toHost, Busy(r)) /\ lostFrame'
         \/ \E o \in Objects : GiveUp(o) \/ Retry(o)
<1> DEFINE Goal == \/ toHost' = toHost
                   \/ toHost # <<>> /\ toHost' = Tail(toHost)
                   \/ \E f \in Frames : Sent(f) /\ toHost' = Append(toHost, f)
                   \/ \E r \in Requests : r.who # None /\ toHost' = Append(toHost, Busy(r)) /\ lostFrame'
                   \/ \E o \in Objects : GiveUp(o) \/ Retry(o)
<1> SUFFICES Goal
  OBVIOUS
<1>1. ASSUME Board PROVE Goal
  <2>1. Silent => toHost' = toHost
    BY DEF Silent
  <2>2. ASSUME NEW f \in Frames, Sent(f) PROVE Goal
    BY <2>2, EmitFacts DEF Sent
  <2>3. QED  BY <1>1, <2>1, <2>2, BoardCases
<1>2. ASSUME Reader PROVE Goal
  BY <1>2 DEF Reader, OnData, OnAccept, OnClosed, OnReply, Receiving
<1>3. ASSUME NEW r \in Requests, Submit(r) PROVE Goal
  BY <1>3, SubmitFacts
<1>4. ASSUME NEW o \in Objects, Open(o) PROVE Goal
  <2>1. PICK r \in Requests : Submit(r)
    BY <1>4, AskFacts DEF Open
  <2>2. QED  BY <1>3, <2>1
<1>5. ASSUME NEW c \in Conns, Ack(c) PROVE Goal
  <2>1. PICK r \in Requests : Submit(r)
    BY <1>5, AskFacts DEF Ack
  <2>2. QED  BY <1>3, <2>1
<1>6. ASSUME NEW o \in Objects, Close(o) PROVE Goal
  <2>1. CASE Submit([op |-> "close", who |-> o, h |-> handle[o]])
    <3>1. PICK r \in Requests : Submit(r)
      BY <1>6, <2>1, AskFacts DEF Close
    <3>2. QED  BY <1>3, <3>1
  <2>2. QED  BY <1>6, <2>1 DEF Close
<1>7. ASSUME NEW o \in Objects, Register(o) \/ Forget(o) PROVE Goal
  BY <1>7 DEF Register, Forget
<1>8. ASSUME NEW c \in Conns, Recv(c) PROVE Goal
  BY <1>8 DEF Recv
<1>9. CASE UNCHANGED vars
  BY <1>9 DEF vars
<1> HIDE DEF Goal
<1>10. (\E o \in Objects : GiveUp(o) \/ Retry(o)) => Goal
  BY DEF Goal
<1>11. CASE Application
  BY <1>4, <1>5, <1>6, <1>7, <1>8, <1>10, <1>11 DEF Application
<1>12. Board \/ Reader \/ Application \/ UNCHANGED vars
  BY DEF Next, Done
<1>13. QED  BY <1>1, <1>2, <1>9, <1>11, <1>12

\* Where a frame that answers nobody is from.
LEMMA FrameOrigin ==
  ASSUME TypeOK, PlaceInv, [Next]_vars, NEW j \in DOMAIN toHost', toHost'[j].op # "reply"
  PROVE  \/ \E f \in Frames : Sent(f) /\ toHost'[j] = f
         \/ \E i \in DOMAIN toHost : toHost'[j] = toHost[i]
<1>1. toHost \in Seq(Frames)
  BY DEF TypeOK
<1>2. CASE toHost' = toHost
  BY <1>2
<1>3. CASE toHost # <<>> /\ toHost' = Tail(toHost)
  BY <1>1, <1>3, TailFacts
<1>4. ASSUME NEW f \in Frames, toHost' = Append(toHost, f)
      PROVE  toHost'[j] = f \/ \E i \in DOMAIN toHost : toHost'[j] = toHost[i]
  <2>1. /\ \A i \in DOMAIN toHost : Append(toHost, f)[i] = toHost[i]
        /\ \A i \in DOMAIN Append(toHost, f) : i = Len(toHost) + 1 \/ i \in DOMAIN toHost
        /\ Append(toHost, f)[Len(toHost) + 1] = f
    BY <1>1, AppendFacts
  <2>2. QED  BY <1>4, <2>1
<1>5. ASSUME NEW r \in Requests, r.who # None, toHost' = Append(toHost, Busy(r))
      PROVE  \E i \in DOMAIN toHost : toHost'[j] = toHost[i]
  <2>1. Busy(r) \in Frames /\ Busy(r).op = "reply"
    BY RecordTypes, RequestFields DEF Busy
  <2>2. QED  BY <1>4, <1>5, <2>1
<1>6. ASSUME NEW o \in Objects, j \in DOMAIN toHost,
             toHost'[j] = IF toHost[j].who = o THEN [toHost[j] EXCEPT !.who = None] ELSE toHost[j]
      PROVE  toHost'[j] = toHost[j]
  <2>1. PICK f \in Frames : f = toHost[j]
    BY <1>1, <1>6
  <2>2. f.op # "reply" => f.who # o
    BY FrameFields, Names
  <2>3. toHost[j].who = o => toHost[j].op = "reply" /\ toHost'[j].op = "reply"
    BY <1>6, <2>1, <2>2 DEF Frames
  <2>4. QED  BY <1>6, <2>3
<1>7. ASSUME NEW o \in Objects, GiveUp(o) PROVE \E i \in DOMAIN toHost : toHost'[j] = toHost[i]
  <2>1. DOMAIN toHost' = DOMAIN toHost
    BY <1>7, GiveUpFacts
  <2>2. j \in DOMAIN toHost
    BY <2>1
  <2>3. QED  BY <1>6, <1>7, <2>2, GiveUpFacts
<1>8. ASSUME NEW o \in Objects, Retry(o) PROVE \E i \in DOMAIN toHost : toHost'[j] = toHost[i]
  <2> DEFINE t == Anonymous(toHost, o)
             f == Busy(Request(o))
  <2>1. /\ toHost' = t \/ toHost' = Append(t, f)
        /\ f \in Frames /\ f.op = "reply"
    BY <1>8, RetryFacts DEF Busy
  <2>2. /\ t \in Seq(Frames) /\ DOMAIN t = DOMAIN toHost
        /\ \A i \in DOMAIN toHost :
             t[i] = IF toHost[i].who = o THEN [toHost[i] EXCEPT !.who = None] ELSE toHost[i]
    BY AnonymousFacts
  <2> HIDE DEF t, f
  <2>3. CASE toHost' = t
    BY <1>6, <2>2, <2>3
  <2>4. CASE toHost' = Append(t, f)
    <3>1. /\ \A i \in DOMAIN t : Append(t, f)[i] = t[i]
          /\ \A i \in DOMAIN Append(t, f) : i = Len(t) + 1 \/ i \in DOMAIN t
          /\ Append(t, f)[Len(t) + 1] = f
      BY <2>1, <2>2, AppendFacts
    <3>2. j \in DOMAIN t /\ toHost'[j] = t[j]
      BY <2>1, <2>4, <3>1
    <3>3. QED  BY <1>6, <2>2, <3>2
  <2>5. QED  BY <2>1, <2>3, <2>4
<1>9. QED  BY <1>2, <1>3, <1>4, <1>5, <1>7, <1>8, HostQueue

LEMMA SizeStep ==
  ASSUME TypeOK, SizeInv, PlaceInv, [Next]_vars
  PROVE  SizeInv'
<1> SUFFICES ASSUME NEW j \in DOMAIN toHost', toHost'[j].op = "data"
             PROVE  toHost'[j].from + toHost'[j].n <= MaxBytes + 1
  BY DEF SizeInv
<1>1. ASSUME NEW f \in Frames, Sent(f), f.op = "data" PROVE f.from + f.n <= MaxBytes + 1
  BY <1>1 DEF Sent, DataSent, ClosedSent, AcceptSent, RefusalSent, OpenedSent, ShutSent, Answer
<1>2. QED  BY <1>1, FrameOrigin DEF SizeInv

-----------------------------------------------------------------------------
(* Calls, handles and accepted connections *)

\* What the reader thread makes of an answer, and whom it concerns.
LEMMA ReplyFacts ==
  ASSUME TypeOK, CallInv, OnReply
  PROVE  LET e == Head(toHost) IN
         /\ e \in Frames /\ e.op = "reply" /\ e = toHost[1] /\ 1 \in DOMAIN toHost
         /\ \A o \in Objects : o # e.who => pc'[o] = pc[o] /\ handle'[o] = handle[o]
         /\ e.who \in Objects =>
              \/ pc[e.who] = "closing" /\ pc'[e.who] = "forget" /\ handle'[e.who] = handle[e.who] /\ e.h = 0
              \/ /\ pc[e.who] = "opening" /\ e.ok /\ e.h \in Handles
                 /\ pc'[e.who] = "register" /\ handle'[e.who] = e.h
              \/ pc[e.who] = "opening" /\ ~e.ok /\ pc'[e.who] = "done" /\ handle'[e.who] = handle[e.who]
         /\ UNCHANGED <<board, net, toBoard, sockets, open, fed, taken, acking, failures, overdrawn, lostFrame>>
<1> DEFINE e == Head(toHost)
<1>1. e \in Frames /\ e.op = "reply" /\ e = toHost[1] /\ 1 \in DOMAIN toHost
  BY ReceiveFacts, TailFacts DEF OnReply
<1>2. /\ \A o \in Objects : pc'[o] = IF o # e.who THEN pc[o]
                                     ELSE IF pc[o] = "closing" THEN "forget"
                                     ELSE IF e.ok THEN "register" ELSE "done"
      /\ \A o \in Objects : handle'[o] = IF o = e.who /\ e.ok /\ pc[o] = "opening" THEN e.h ELSE handle[o]
      /\ UNCHANGED <<board, net, toBoard, sockets, open, fed, taken, acking, failures, overdrawn, lostFrame>>
  BY DEF OnReply, lostFrame
<1>3. e.h \in {0} \cup Handles /\ e.ok \in BOOLEAN
  BY <1>1, FrameFields
<1>4. e.who \in Objects => (pc[e.who] = "opening" /\ (e.ok => e.h # 0)) \/ (pc[e.who] = "closing" /\ e.h = 0)
  BY <1>1 DEF CallInv, CallOf
<1> HIDE DEF e
<1>5. e.who \in Objects =>
        \/ pc[e.who] = "closing" /\ pc'[e.who] = "forget" /\ handle'[e.who] = handle[e.who] /\ e.h = 0
        \/ /\ pc[e.who] = "opening" /\ e.ok /\ e.h \in Handles
           /\ pc'[e.who] = "register" /\ handle'[e.who] = e.h
        \/ pc[e.who] = "opening" /\ ~e.ok /\ pc'[e.who] = "done" /\ handle'[e.who] = handle[e.who]
  <2> SUFFICES ASSUME e.who \in Objects
               PROVE  \/ pc[e.who] = "closing" /\ pc'[e.who] = "forget" /\ handle'[e.who] = handle[e.who] /\ e.h = 0
                      \/ /\ pc[e.who] = "opening" /\ e.ok /\ e.h \in Handles
                         /\ pc'[e.who] = "register" /\ handle'[e.who] = e.h
                      \/ pc[e.who] = "opening" /\ ~e.ok /\ pc'[e.who] = "done" /\ handle'[e.who] = handle[e.who]
    OBVIOUS
  <2>1. CASE pc[e.who] = "closing" /\ e.h = 0
    BY <1>2, <2>1
  <2>2. CASE pc[e.who] = "opening" /\ e.ok /\ e.h # 0
    BY <1>2, <1>3, <2>2
  <2>3. CASE pc[e.who] = "opening" /\ ~e.ok
    BY <1>2, <2>3
  <2>4. QED  BY <1>4, <2>1, <2>2, <2>3
<1>6. \A o \in Objects : o # e.who => pc'[o] = pc[o] /\ handle'[o] = handle[o]
  BY <1>2
<1>7. QED  BY <1>1, <1>2, <1>5, <1>6 DEF e

LEMMA AcceptFacts ==
  ASSUME TypeOK, AcceptInv, OnAccept
  PROVE  LET e == Head(toHost) IN
         /\ e \in Frames /\ e.op = "accept" /\ e = toHost[1] /\ 1 \in DOMAIN toHost
         /\ e.conn \in arrived /\ e.conn \in Incoming /\ e.conn \in Conns /\ e.conn \in Objects
         /\ pc[e.conn] = "new" /\ e.new \in Handles /\ e.h \in Handles
         /\ \/ /\ sockets[e.h] = Server
               /\ sockets' = [sockets EXCEPT ![e.new] = e.conn]
               /\ handle' = [handle EXCEPT ![e.conn] = e.new]
               /\ open' = [open EXCEPT ![e.conn] = TRUE]
               /\ pc' = [pc EXCEPT ![e.conn] = "use"]
               /\ Holders(e.new) # {} => e.conn \in raced'
            \/ e.conn \in raced' /\ UNCHANGED <<sockets, handle, open, pc>>
         /\ raced \subseteq raced'
         /\ UNCHANGED <<board, net, toBoard, fed, taken, acking, failures, overdrawn, lostFrame>>
<1> DEFINE e == Head(toHost)
<1>1. e \in Frames /\ e.op = "accept" /\ e = toHost[1] /\ 1 \in DOMAIN toHost
  BY ReceiveFacts, TailFacts DEF OnAccept
<1>2. e.new \in Handles /\ e.h \in Handles
  BY <1>1, FrameFields
<1>3. e.conn \in arrived /\ pc[e.conn] = "new" /\ arrived \subseteq Incoming
  BY <1>1 DEF AcceptInv, TypeOK
<1>4. QED  BY <1>1, <1>2, <1>3, Names DEF OnAccept, lostFrame

LEMMA PlaceStep ==
  ASSUME TypeOK, CallInv, PlaceInv, AcceptInv, [Next]_vars
  PROVE  PlaceInv'
<1>1. ASSUME UNCHANGED <<pc, handle, acking, fed, sockets>> PROVE PlaceInv'
  BY <1>1 DEF PlaceInv
<1>2. ASSUME Board PROVE PlaceInv'
  BY <1>1, <1>2, BoardCases DEF host
<1>3. ASSUME OnData PROVE PlaceInv'
  <2>1. UNCHANGED <<pc, handle, acking, sockets>>
    BY <1>3 DEF OnData
  <2>2. \A c \in Conns : pc[c] \in {"new", "opening", "register"} => fed'[c] = fed[c]
    <3>1. \A c \in Conns : fed'[c] # fed[c] => c \in Registered(Head(toHost).h)
      BY <1>3 DEF OnData
    <3>2. Head(toHost).h \in Handles
      <4>1. Head(toHost) \in Frames /\ Head(toHost).op = "data"
        BY <1>3, ReceiveFacts DEF OnData
      <4>2. QED  BY <4>1, FrameFields
    <3>3. \A c \in Registered(Head(toHost).h) : pc[c] \in {"use", "closing", "forget"}
      <4>1. ASSUME NEW o \in Objects, NEW h \in Handles, sockets[h] = o PROVE pc[o] \in {"use", "closing", "forget"}
        <5>1. o # None
          BY Names
        <5>2. sockets[h] # None => pc[sockets[h]] \in {"use", "closing", "forget"}
          BY DEF PlaceInv
        <5>3. QED  BY <4>1, <5>1, <5>2
      <4>2. QED  BY <3>2, <4>1, Names DEF Registered
    <3>4. QED  BY <3>1, <3>3
  <2>3. QED  BY <2>1, <2>2 DEF PlaceInv
<1>4. ASSUME OnAccept PROVE PlaceInv'
  <2> DEFINE e == Head(toHost)
  <2>1. /\ e.conn \in Objects /\ e.conn \in Conns /\ pc[e.conn] = "new" /\ e.new \in Handles
        /\ fed' = fed /\ acking' = acking
        /\ \/ /\ sockets' = [sockets EXCEPT ![e.new] = e.conn]
              /\ handle' = [handle EXCEPT ![e.conn] = e.new]
              /\ pc' = [pc EXCEPT ![e.conn] = "use"]
           \/ UNCHANGED <<sockets, handle, pc>>
    BY <1>4, AcceptFacts
  <2> HIDE DEF e
  <2>2. CASE UNCHANGED <<sockets, handle, pc>>
    BY <1>1, <2>1, <2>2
  <2>3. CASE /\ sockets' = [sockets EXCEPT ![e.new] = e.conn]
             /\ handle' = [handle EXCEPT ![e.conn] = e.new]
             /\ pc' = [pc EXCEPT ![e.conn] = "use"]
    <3>1. /\ \A o \in Objects : pc'[o] = IF o = e.conn THEN "use" ELSE pc[o]
          /\ \A o \in Objects : handle'[o] = IF o = e.conn THEN e.new ELSE handle[o]
          /\ \A h \in Handles : sockets'[h] = IF h = e.new THEN e.conn ELSE sockets[h]
      BY <2>1, <2>3 DEF TypeOK
    <3>2. e.new # 0
      BY <2>1, Names
    <3>3. \A o \in Objects :
            /\ pc'[o] \in {"register", "use", "closing", "forget"} => handle'[o] # 0
            /\ pc'[o] \in {"new", "opening"} => handle'[o] = 0
            /\ o \in Incoming => pc'[o] \notin {"opening", "register"}
      BY <3>1, <3>2 DEF PlaceInv
    <3>4. \A c \in Conns : /\ acking'[c] > 0 => pc'[c] = "use"
                           /\ pc'[c] \in {"new", "opening", "register"} => fed'[c] = <<>>
      BY <2>1, <3>1, Names DEF PlaceInv
    <3>5. \A h \in Handles : sockets'[h] # None =>
            handle'[sockets'[h]] = h /\ pc'[sockets'[h]] \in {"use", "closing", "forget"}
      <4>1. \A h \in Handles : sockets[h] # None =>
              sockets[h] \in Objects /\ sockets[h] # e.conn /\ handle[sockets[h]] = h
                /\ pc[sockets[h]] \in {"use", "closing", "forget"}
        BY <2>1 DEF PlaceInv, TypeOK, Sockets, Objects
      <4>2. QED  BY <2>1, <3>1, <4>1
    <3>6. QED  BY <3>3, <3>4, <3>5 DEF PlaceInv
  <2>4. QED  BY <2>1, <2>2, <2>3
<1>5. ASSUME OnClosed PROVE PlaceInv'
  BY <1>1, <1>5 DEF OnClosed
<1>6. ASSUME OnReply PROVE PlaceInv'
  <2> DEFINE w == Head(toHost).who
  <2>1. /\ \A o \in Objects : o # w => pc'[o] = pc[o] /\ handle'[o] = handle[o]
        /\ w \in Objects =>
             \/ pc[w] = "closing" /\ pc'[w] = "forget" /\ handle'[w] = handle[w]
             \/ /\ pc[w] = "opening" /\ pc'[w] = "register" /\ handle'[w] \in Handles
             \/ pc[w] = "opening" /\ pc'[w] = "done" /\ handle'[w] = handle[w]
        /\ sockets' = sockets /\ fed' = fed /\ acking' = acking
    BY <1>6, ReplyFacts
  <2> HIDE DEF w
  <2>2. \A o \in Objects :
          /\ pc'[o] \in {"register", "use", "closing", "forget"} => handle'[o] # 0
          /\ pc'[o] \in {"new", "opening"} => handle'[o] = 0
          /\ o \in Incoming => pc'[o] \notin {"opening", "register"}
    BY <2>1, Names DEF PlaceInv
  <2>3. \A c \in Conns : /\ acking'[c] > 0 => pc'[c] = "use"
                         /\ pc'[c] \in {"new", "opening", "register"} => fed'[c] = <<>>
    BY <2>1, Names DEF PlaceInv
  <2>4. \A h \in Handles : sockets[h] # None =>
          sockets[h] \in Objects /\ handle[sockets[h]] = h /\ pc[sockets[h]] \in {"use", "closing", "forget"}
    BY DEF PlaceInv, TypeOK, Sockets, Objects
  <2>5. \A h \in Handles : sockets'[h] # None =>
          handle'[sockets'[h]] = h /\ pc'[sockets'[h]] \in {"use", "closing", "forget"}
    BY <2>1, <2>4
  <2>6. QED  BY <2>2, <2>3, <2>5 DEF PlaceInv
\* An object goes from one place to another and keeps its handle.
<1>7. ASSUME NEW o \in Objects, NEW to, pc' = [pc EXCEPT ![o] = to], handle' = handle, fed' = fed, acking' = acking,
             to \in {"register", "use", "closing", "forget"} => handle[o] # 0,
             to \in {"new", "opening"} => handle[o] = 0 /\ o \notin Incoming, to # "register",
             o \in Conns /\ to # "use" => ~(acking[o] > 0),
             o \in Conns /\ to \in {"new", "opening"} => fed[o] = <<>>,
             \A h \in Handles : sockets'[h] # None =>
                 \/ sockets'[h] = sockets[h] /\ (sockets[h] = o => to \in {"use", "closing", "forget"})
                 \/ sockets'[h] = o /\ handle[o] = h /\ to \in {"use", "closing", "forget"}
      PROVE  PlaceInv'
  <2>1. \A p \in Objects : pc'[p] = IF p = o THEN to ELSE pc[p]
    BY <1>7 DEF TypeOK
  <2>2. \A p \in Objects :
          /\ pc'[p] \in {"register", "use", "closing", "forget"} => handle'[p] # 0
          /\ pc'[p] \in {"new", "opening"} => handle'[p] = 0
          /\ p \in Incoming => pc'[p] \notin {"opening", "register"}
    BY <1>7, <2>1 DEF PlaceInv
  <2>3. \A c \in Conns : /\ acking'[c] > 0 => pc'[c] = "use"
                         /\ pc'[c] \in {"new", "opening", "register"} => fed'[c] = <<>>
    BY <1>7, <2>1, Names DEF PlaceInv
  <2>4. \A h \in Handles : sockets[h] # None =>
          sockets[h] \in Objects /\ handle[sockets[h]] = h /\ pc[sockets[h]] \in {"use", "closing", "forget"}
    BY DEF PlaceInv, TypeOK, Sockets, Objects
  <2>5. \A h \in Handles : sockets'[h] # None =>
          handle'[sockets'[h]] = h /\ pc'[sockets'[h]] \in {"use", "closing", "forget"}
    BY <1>7, <2>1, <2>4
  <2>6. QED  BY <2>2, <2>3, <2>5 DEF PlaceInv
<1>8. \A o \in Objects, h \in Handles : sockets[h] = o => pc[o] \in {"use", "closing", "forget"} /\ handle[o] = h
  BY Names DEF PlaceInv
<1>9. \A o \in Objects : pc[o] \in {"register", "use", "closing", "forget"} => handle[o] \in Handles /\ handle[o] # 0
  BY DEF PlaceInv, TypeOK
<1>10. \A o \in Objects : o \in Conns /\ pc[o] # "use" => ~(acking[o] > 0)
  BY DEF PlaceInv
<1>11. ASSUME NEW o \in Objects, Open(o) PROVE PlaceInv'
  <2>1. /\ pc' = [pc EXCEPT ![o] = "opening"] /\ pc[o] = "new" /\ o \notin Incoming
        /\ UNCHANGED <<sockets, handle, fed, acking>>
    BY <1>11 DEF Open, Goto
  <2>2. handle[o] = 0 /\ (o \in Conns => fed[o] = <<>>)
    BY <2>1 DEF PlaceInv
  <2>3. \A h \in Handles : sockets'[h] # None => sockets'[h] = sockets[h] /\ sockets[h] # o
    BY <1>8, <2>1
  <2>4. QED  BY <1>7, <1>10, <2>1, <2>2, <2>3
<1>12. ASSUME NEW o \in Objects, Register(o) PROVE PlaceInv'
  <2>1. /\ pc' = [pc EXCEPT ![o] = "use"] /\ pc[o] = "register"
        /\ sockets' = [sockets EXCEPT ![handle[o]] = o] /\ UNCHANGED <<handle, fed, acking>>
    BY <1>12 DEF Register, Goto
  <2>2. handle[o] \in Handles /\ handle[o] # 0
    BY <1>9, <2>1
  <2>3. \A h \in Handles : \/ sockets'[h] = sockets[h] /\ sockets[h] # o
                           \/ sockets'[h] = o /\ handle[o] = h
    BY <1>8, <2>1 DEF TypeOK
  <2> DEFINE to == "use"
  <2>4. /\ pc' = [pc EXCEPT ![o] = to] /\ handle' = handle /\ fed' = fed /\ acking' = acking
        /\ to \in {"register", "use", "closing", "forget"} => handle[o] # 0
        /\ to \in {"new", "opening"} => handle[o] = 0 /\ o \notin Incoming
        /\ to # "register"
        /\ o \in Conns /\ to # "use" => ~(acking[o] > 0)
        /\ o \in Conns /\ to \in {"new", "opening"} => fed[o] = <<>>
        /\ \A h \in Handles : sockets'[h] # None =>
                 \/ sockets'[h] = sockets[h] /\ (sockets[h] = o => to \in {"use", "closing", "forget"})
                 \/ sockets'[h] = o /\ handle[o] = h /\ to \in {"use", "closing", "forget"}
    BY <2>1, <2>2, <2>3
  <2> HIDE DEF to
  <2>5. QED  BY <1>7, <2>4
<1>13. ASSUME NEW o \in Objects, Close(o) PROVE PlaceInv'
  <2>1. /\ pc[o] = "use" /\ (o \in Conns => acking[o] = 0)
        /\ UNCHANGED <<sockets, handle, fed, acking>>
        /\ pc' = [pc EXCEPT ![o] = "closing"] \/ pc' = [pc EXCEPT ![o] = "forget"]
    BY <1>13 DEF Close, Goto
  <2>2. handle[o] # 0 /\ (o \in Conns => ~(acking[o] > 0))
    BY <1>9, <2>1
  <2>3. \A h \in Handles : sockets'[h] = sockets[h]
    BY <2>1
  <2>4. CASE pc' = [pc EXCEPT ![o] = "closing"]
    BY <1>7, <2>1, <2>2, <2>3, <2>4
  <2>5. CASE pc' = [pc EXCEPT ![o] = "forget"]
    BY <1>7, <2>1, <2>2, <2>3, <2>5
  <2>6. QED  BY <2>1, <2>4, <2>5
<1>14. ASSUME NEW o \in Objects, Forget(o) PROVE PlaceInv'
  <2>1. /\ pc' = [pc EXCEPT ![o] = "done"] /\ pc[o] = "forget"
        /\ sockets' = [sockets EXCEPT ![handle[o]] = None] /\ UNCHANGED <<handle, fed, acking>>
    BY <1>14 DEF Forget, Goto
  <2>2. handle[o] \in Handles
    BY <1>9, <2>1
  <2>3. \A h \in Handles : sockets'[h] # None => sockets'[h] = sockets[h] /\ sockets[h] # o
    BY <1>8, <2>1, <2>2 DEF TypeOK
  <2>4. QED  BY <1>7, <1>10, <2>1, <2>3
<1>15. ASSUME NEW o \in Objects, GiveUp(o) PROVE PlaceInv'
  <2>1. /\ UNCHANGED <<sockets, handle, fed, acking>>
        /\ \/ pc[o] = "opening" /\ pc' = [pc EXCEPT ![o] = "done"]
           \/ pc[o] = "closing" /\ pc' = [pc EXCEPT ![o] = "forget"]
    BY <1>15 DEF GiveUp, Goto
  <2>2. \A h \in Handles : sockets'[h] = sockets[h] /\ (sockets[h] = o => pc[o] = "closing")
    BY <1>8, <2>1
  <2>3. CASE pc[o] = "opening" /\ pc' = [pc EXCEPT ![o] = "done"]
    BY <1>7, <1>10, <2>1, <2>2, <2>3
  <2>4. CASE pc[o] = "closing" /\ pc' = [pc EXCEPT ![o] = "forget"]
    BY <1>7, <1>9, <1>10, <2>1, <2>2, <2>4
  <2>5. QED  BY <2>1, <2>3, <2>4
<1>16. ASSUME NEW c \in Conns, Recv(c) PROVE PlaceInv'
  <2>1. /\ UNCHANGED <<pc, handle, fed, sockets>> /\ pc[c] = "use"
        /\ \A d \in Conns : d # c => acking'[d] = acking[d]
    BY <1>16 DEF Recv, TypeOK
  <2>2. QED  BY <2>1 DEF PlaceInv
<1>17. ASSUME NEW c \in Conns, Ack(c) PROVE PlaceInv'
  <2>1. UNCHANGED <<pc, handle, fed, sockets>> /\ acking' = [acking EXCEPT ![c] = 0]
    BY <1>17 DEF Ack
  <2>2. \A d \in Conns : acking'[d] > 0 => acking[d] > 0
    BY <2>1 DEF TypeOK
  <2>3. QED  BY <2>1, <2>2 DEF PlaceInv
<1>18. CASE UNCHANGED vars
  BY <1>1, <1>18 DEF vars, host
<1>19. ASSUME NEW o \in Objects, Retry(o) PROVE PlaceInv'
  BY <1>1, <1>19 DEF Retry
<1>20. CASE Application
  BY <1>11, <1>12, <1>13, <1>14, <1>15, <1>16, <1>17, <1>19, <1>20 DEF Application
<1>21. CASE Reader
  BY <1>3, <1>4, <1>5, <1>6, <1>21 DEF Reader
<1>22. QED  BY <1>2, <1>18, <1>20, <1>21 DEF Next, Done

\* Nobody but a caller has a frame in the queues.
LEMMA NoCall ==
  ASSUME NEW o, CallOf(o), pc[o] \notin {"opening", "closing"}
  PROVE  Absent(toBoard, o) /\ Absent(toHost, o)
  BY DEF CallOf, Absent

\* Where o's frames are those it had, o has as many calls as it had.
LEMMA CallKept ==
  ASSUME NEW o, CallOf(o), NEW a \in {0, 1}, NEW b \in {0, 1},
         From(toBoard', toBoard, o, a), From(toHost', toHost, o, b),
         pc'[o] = pc[o], handle'[o] = handle[o]
  PROVE  CallOf(o)'
<1>1. \A i \in DOMAIN toBoard' : toBoard'[i].who = o =>
        i \in Int /\ i + a \in DOMAIN toBoard /\ toBoard'[i] = toBoard[i + a]
  BY DEF From
<1>2. \A i \in DOMAIN toHost' : toHost'[i].who = o =>
        i \in Int /\ i + b \in DOMAIN toHost /\ toHost'[i] = toHost[i + b]
  BY DEF From
<1>3. ASSUME NEW i \in DOMAIN toBoard', toBoard'[i].who = o
      PROVE  /\ \/ toBoard'[i].op = "open" /\ toBoard'[i].obj = o /\ pc'[o] = "opening"
                \/ toBoard'[i].op = "close" /\ toBoard'[i].h = handle'[o] /\ pc'[o] = "closing"
             /\ \A j \in DOMAIN toBoard' : toBoard'[j].who = o => j = i
             /\ \A j \in DOMAIN toHost' : toHost'[j].who # o
  <2>1. i \in Int /\ i + a \in DOMAIN toBoard /\ toBoard'[i] = toBoard[i + a] /\ toBoard[i + a].who = o
    BY <1>1, <1>3
  <2>2. /\ \/ toBoard[i + a].op = "open" /\ toBoard[i + a].obj = o /\ pc[o] = "opening"
           \/ toBoard[i + a].op = "close" /\ toBoard[i + a].h = handle[o] /\ pc[o] = "closing"
        /\ \A j \in DOMAIN toBoard : toBoard[j].who = o => j = i + a
        /\ \A j \in DOMAIN toHost : toHost[j].who # o
    BY <2>1 DEF CallOf
  <2>3. ASSUME NEW j \in DOMAIN toBoard', toBoard'[j].who = o PROVE j = i
    <3>1. j \in Int /\ j + a \in DOMAIN toBoard /\ toBoard[j + a].who = o
      BY <1>1, <2>3
    <3>2. j + a = i + a
      BY <2>2, <3>1
    <3>3. QED  BY <2>1, <3>1, <3>2
  <2>4. \A j \in DOMAIN toHost' : toHost'[j].who # o
    BY <1>2, <2>2
  <2>5. QED  BY <2>1, <2>2, <2>3, <2>4
<1>4. ASSUME NEW i \in DOMAIN toHost', toHost'[i].who = o
      PROVE  /\ toHost'[i].op = "reply"
             /\ \/ pc'[o] = "opening" /\ (toHost'[i].ok => toHost'[i].h # 0)
                \/ pc'[o] = "closing" /\ toHost'[i].h = 0
             /\ \A j \in DOMAIN toHost' : toHost'[j].who = o => j = i
  <2>1. i \in Int /\ i + b \in DOMAIN toHost /\ toHost'[i] = toHost[i + b] /\ toHost[i + b].who = o
    BY <1>2, <1>4
  <2>2. /\ toHost[i + b].op = "reply"
        /\ \/ pc[o] = "opening" /\ (toHost[i + b].ok => toHost[i + b].h # 0)
           \/ pc[o] = "closing" /\ toHost[i + b].h = 0
        /\ \A j \in DOMAIN toHost : toHost[j].who = o => j = i + b
    BY <2>1 DEF CallOf
  <2>3. ASSUME NEW j \in DOMAIN toHost', toHost'[j].who = o PROVE j = i
    <3>1. j \in Int /\ j + b \in DOMAIN toHost /\ toHost[j + b].who = o
      BY <1>2, <2>3
    <3>2. j + b = i + b
      BY <2>2, <3>1
    <3>3. QED  BY <2>1, <3>1, <3>2
  <2>4. QED  BY <2>1, <2>2, <2>3
<1>5. QED  BY <1>3, <1>4 DEF CallOf

LEMMA CallOver ==
  ASSUME NEW o, Absent(toBoard', o), Absent(toHost', o)
  PROVE  CallOf(o)'
  BY DEF CallOf, Absent

\* The board's answer takes the place of the request.
LEMMA CallAnswered ==
  ASSUME TypeOK, NEW o \in Objects, CallOf(o), NEW f \in Frames, f.op = "reply",
         Absent(toBoard', o), Absent(toHost, o), f.who = o, toHost' = Append(toHost, f),
         \/ pc'[o] = "opening" /\ (f.ok => f.h # 0)
         \/ pc'[o] = "closing" /\ f.h = 0
  PROVE  CallOf(o)'
<1>1. \A i \in DOMAIN toHost' : toHost'[i].who = o => i = Len(toHost) + 1 /\ toHost'[i] = f
  BY OneNew DEF TypeOK
<1>2. QED  BY <1>1 DEF CallOf, Absent

\* A request, or the refusal of one that found no room.
LEMMA CallBegins ==
  ASSUME TypeOK, NEW o \in Objects, CallOf(o), pc[o] \notin {"opening", "closing"},
         NEW r \in Requests, r.who = o, Submit(r),
         \/ r.op = "open" /\ r.obj = o /\ pc'[o] = "opening"
         \/ r.op = "close" /\ r.h = handle'[o] /\ pc'[o] = "closing"
  PROVE  CallOf(o)'
<1>1. Absent(toBoard, o) /\ Absent(toHost, o)
  BY NoCall
<1>2. /\ toBoard' = Append(toBoard, r) \/ toBoard' = toBoard
      /\ toHost' = toHost \/ (toBoard' = toBoard /\ toHost' = Append(toHost, Busy(r)))
  BY SubmitFacts
<1>3. CASE toBoard' = Append(toBoard, r) /\ toHost' = toHost
  <2>1. \A i \in DOMAIN toBoard' : toBoard'[i].who = o => i = Len(toBoard) + 1 /\ toBoard'[i] = r
    BY <1>1, <1>3, OneNew DEF TypeOK
  <2>2. QED  BY <1>1, <1>3, <2>1 DEF CallOf, Absent
<1>4. CASE toBoard' = toBoard /\ toHost' = Append(toHost, Busy(r))
  <2>1. Busy(r) \in Frames /\ Busy(r).op = "reply" /\ Busy(r).h = 0 /\ ~Busy(r).ok /\ Busy(r).who = o
    BY RecordTypes DEF Busy
  <2>2. Absent(toBoard', o)
    BY <1>1, <1>4
  <2>3. pc'[o] = "opening" \/ pc'[o] = "closing"
    OBVIOUS
  <2>4. QED  BY <1>1, <1>4, <2>1, <2>2, <2>3, CallAnswered
<1>5. CASE toBoard' = toBoard /\ toHost' = toHost
  BY <1>1, <1>5, CallOver
<1>6. QED  BY <1>2, <1>3, <1>4, <1>5

LEMMA BoardCall ==
  ASSUME TypeOK, NEW o \in Objects, CallOf(o), Board
  PROVE  CallOf(o)'
<1>1. toBoard \in Seq(Requests) /\ toHost \in Seq(Frames) /\ pc' = pc /\ handle' = handle
  BY BoardCases DEF TypeOK, host
<1>2. From(toBoard, toBoard, o, 0) /\ From(toHost, toHost, o, 0)
      /\ (toBoard # <<>> => From(Tail(toBoard), toBoard, o, 1))
  BY <1>1, FromFacts
<1>3. CASE Silent
  <2>1. toHost' = toHost /\ (toBoard' = toBoard \/ (toBoard # <<>> /\ toBoard' = Tail(toBoard)))
    BY <1>3 DEF Silent, Taking
  <2>2. From(toHost', toHost, o, 0) /\ \E a \in {0, 1} : From(toBoard', toBoard, o, a)
    BY <1>2, <2>1
  <2>3. QED  BY <1>1, <2>2, CallKept
<1>4. ASSUME NEW f \in Frames, Sent(f) PROVE CallOf(o)'
  <2>1. toHost' = toHost \/ toHost' = Append(toHost, f)
    BY <1>4, EmitFacts DEF Sent
  <2>2. f.who # o => From(toHost', toHost, o, 0)
    BY <1>1, <1>2, <2>1, FromFacts
  <2>3. CASE f.who # o
    <3>1. toBoard' = toBoard \/ (toBoard # <<>> /\ toBoard' = Tail(toBoard))
      BY <1>4 DEF Sent, DataSent, ClosedSent, AcceptSent, RefusalSent, OpenedSent, ShutSent, Answer, Taking
    <3>2. \E a \in {0, 1} : From(toBoard', toBoard, o, a)
      BY <1>2, <3>1
    <3>3. QED  BY <1>1, <2>2, <2>3, <3>2, CallKept
  <2>4. CASE f.who = o
    <3> DEFINE r == Head(toBoard)
    <3>1. /\ toBoard # <<>> /\ toBoard' = Tail(toBoard) /\ r.who = o /\ f.op = "reply"
          /\ \/ r.op = "open" /\ (f.ok => f.h # 0)
             \/ r.op = "close" /\ f.h = 0
      BY <1>4, <2>4, Names
         DEF Sent, DataSent, ClosedSent, AcceptSent, RefusalSent, OpenedSent, ShutSent, Answer, Taking
    <3>2. r = toBoard[1] /\ 1 \in DOMAIN toBoard
      BY <1>1, <3>1, TailFacts
    <3>3. /\ r.op = "open" => pc[o] = "opening"
          /\ r.op = "close" => pc[o] = "closing"
          /\ \A j \in DOMAIN toBoard : toBoard[j].who = o => j = 1
          /\ Absent(toHost, o)
      BY <3>1, <3>2 DEF CallOf, Absent
    <3> HIDE DEF r
    <3>4. Absent(toBoard', o)
      BY <1>1, <3>1, <3>3, AbsentAfter DEF r
    <3>5. CASE toHost' = toHost
      BY <3>3, <3>4, <3>5, CallOver
    <3>6. CASE toHost' = Append(toHost, f)
      BY <1>1, <2>4, <3>1, <3>3, <3>4, <3>6, CallAnswered
    <3>7. QED  BY <2>1, <3>5, <3>6
  <2>5. QED  BY <2>3, <2>4
<1>5. QED  BY <1>3, <1>4, BoardCases

LEMMA ReaderCall ==
  ASSUME TypeOK, CallInv, AcceptInv, NEW o \in Objects, Reader
  PROVE  CallOf(o)'
<1>1. toBoard \in Seq(Requests) /\ toHost \in Seq(Frames) /\ CallOf(o)
  BY DEF TypeOK, CallInv
<1>2. toHost # <<>> /\ toHost' = Tail(toHost) /\ toBoard' = toBoard
  BY DEF Reader, OnData, OnAccept, OnClosed, OnReply, Receiving
<1>3. From(toBoard', toBoard, o, 0) /\ From(toHost', toHost, o, 1)
  BY <1>1, <1>2, FromFacts
<1>4. CASE pc'[o] = pc[o] /\ handle'[o] = handle[o]
  BY <1>1, <1>3, <1>4, CallKept
<1>5. CASE OnAccept
  <2>1. pc[Head(toHost).conn] = "new"
        /\ (o # Head(toHost).conn => pc'[o] = pc[o] /\ handle'[o] = handle[o])
    BY <1>5, AcceptFacts DEF TypeOK
  <2>2. CASE pc[o] = "new"
    <3>1. Absent(toBoard, o) /\ Absent(toHost, o)
      BY <1>1, <2>2, NoCall
    <3>2. Absent(toBoard', o) /\ Absent(toHost', o)
      BY <1>3, <3>1, AbsentFrom
    <3>3. QED  BY <3>2, CallOver
  <2>3. QED  BY <1>4, <2>1, <2>2
<1>6. CASE OnReply
  <2>1. o # Head(toHost).who => pc'[o] = pc[o] /\ handle'[o] = handle[o]
    BY <1>6, ReplyFacts
  <2>2. CASE Head(toHost).who = o
    <3>1. Head(toHost) = toHost[1] /\ 1 \in DOMAIN toHost
      BY <1>1, <1>2, TailFacts
    <3>2. /\ \A j \in DOMAIN toHost : toHost[j].who = o => j = 1
          /\ Absent(toBoard, o)
      BY <1>1, <2>2, <3>1 DEF CallOf, Absent
    <3>3. Absent(toHost', o)
      BY <1>1, <1>2, <2>2, <3>2, AbsentAfter
    <3>4. QED  BY <1>2, <3>2, <3>3, CallOver
  <2>3. QED  BY <1>4, <2>1, <2>2
<1>7. CASE OnData \/ OnClosed
  BY <1>4, <1>7 DEF OnData, OnClosed
<1>8. QED  BY <1>5, <1>6, <1>7 DEF Reader

LEMMA SubmitFrom ==
  ASSUME TypeOK, NEW r \in Requests, Submit(r), NEW o \in Objects, r.who # o
  PROVE  From(toBoard', toBoard, o, 0) /\ From(toHost', toHost, o, 0)
<1>1. toBoard \in Seq(Requests) /\ toHost \in Seq(Frames)
  BY DEF TypeOK
<1>2. Busy(r) \in Frames /\ Busy(r).who # o
  BY RecordTypes, RequestFields DEF Busy
<1>3. /\ toBoard' = Append(toBoard, r) \/ toBoard' = toBoard
      /\ toHost' = toHost \/ toHost' = Append(toHost, Busy(r))
  BY SubmitFacts
<1>4. From(toBoard', toBoard, o, 0)
  BY <1>1, <1>3, FromFacts
<1>5. From(toHost', toHost, o, 0)
  BY <1>1, <1>2, <1>3, FromFacts
<1>6. QED  BY <1>4, <1>5

\* Queues in which nothing has the name of p, as another one sees them and as p does.
LEMMA AnonymousFrom ==
  ASSUME TypeOK, NEW p \in Objects
  PROVE  /\ \A o \in Objects \ {p} :
              From(Anonymous(toBoard, p), toBoard, o, 0) /\ From(Anonymous(toHost, p), toHost, o, 0)
         /\ Absent(Anonymous(toBoard, p), p) /\ Absent(Anonymous(toHost, p), p)
<1> DEFINE b == Anonymous(toBoard, p)
           t == Anonymous(toHost, p)
<1>1. toBoard \in Seq(Requests) /\ toHost \in Seq(Frames)
  BY DEF TypeOK
<1>2. /\ DOMAIN b = DOMAIN toBoard /\ DOMAIN t = DOMAIN toHost
      /\ \A i \in DOMAIN toBoard :
            b[i] = IF toBoard[i].who = p THEN [toBoard[i] EXCEPT !.who = None] ELSE toBoard[i]
      /\ \A i \in DOMAIN toHost :
            t[i] = IF toHost[i].who = p THEN [toHost[i] EXCEPT !.who = None] ELSE toHost[i]
  BY AnonymousFacts
<1> HIDE DEF b, t
<1>3. \A i \in DOMAIN toBoard : toBoard[i].who = p => b[i].who = None
  <2>1. \A i \in DOMAIN toBoard : [toBoard[i] EXCEPT !.who = None].who = None
    BY <1>1 DEF Requests
  <2>2. QED  BY <1>2, <2>1
<1>4. \A i \in DOMAIN toHost : toHost[i].who = p => t[i].who = None
  <2>1. \A i \in DOMAIN toHost : [toHost[i] EXCEPT !.who = None].who = None
    BY <1>1 DEF Frames
  <2>2. QED  BY <1>2, <2>1
<1>5. ASSUME NEW o \in Objects, NEW i \in DOMAIN b, b[i].who = o PROVE p # o /\ b[i] = toBoard[i]
  BY <1>2, <1>3, <1>5, Names
<1>6. ASSUME NEW o \in Objects, NEW i \in DOMAIN t, t[i].who = o PROVE p # o /\ t[i] = toHost[i]
  BY <1>2, <1>4, <1>6, Names
<1>7. (\A i \in DOMAIN toBoard : i \in Int /\ i + 0 = i) /\ (\A i \in DOMAIN toHost : i \in Int /\ i + 0 = i)
  BY <1>1
<1>8. ASSUME NEW o \in Objects \ {p} PROVE From(b, toBoard, o, 0) /\ From(t, toHost, o, 0)
  BY <1>2, <1>5, <1>6, <1>7 DEF From
<1>9. Absent(b, p) /\ Absent(t, p)
  BY <1>5, <1>6 DEF Absent
<1>10. QED  BY <1>8, <1>9 DEF b, t

LEMMA FromJoin ==
  ASSUME NEW S, NEW q \in Seq(S), NEW p, NEW r, NEW o, From(r, p, o, 0), From(p, q, o, 0)
  PROVE  From(r, q, o, 0)
<1>1. \A i \in DOMAIN r : r[i].who = o => i \in Int /\ i + 0 \in DOMAIN p /\ r[i] = p[i + 0]
  BY DEF From
<1>2. \A i \in DOMAIN r : r[i].who = o => i \in Int /\ i + 0 = i
  BY <1>1
<1>3. QED  BY <1>1, <1>2 DEF From

\* A call that is made again is the only one of its thread.
LEMMA RetryCall ==
  ASSUME TypeOK, PlaceInv, NEW o \in Objects, CallOf(o), NEW p \in Objects, Retry(p)
  PROVE  CallOf(o)'
<1> DEFINE b == Anonymous(toBoard, p)
           t == Anonymous(toHost, p)
           r == Request(p)
           f == Busy(r)
<1>1. /\ r \in Requests /\ r.who = p /\ f \in Frames
      /\ \/ pc[p] = "opening" /\ r.op = "open" /\ r.obj = p
         \/ pc[p] = "closing" /\ r.op = "close" /\ r.h = handle[p]
      /\ \/ toBoard' = Append(b, r) /\ toHost' = t
         \/ toBoard' = b /\ (toHost' = t \/ toHost' = Append(t, f))
      /\ pc' = pc /\ handle' = handle
  BY RetryFacts DEF host
<1>2. f.who = p /\ f.op = "reply" /\ f.h = 0 /\ ~f.ok
  BY <1>1 DEF Busy
<1>3. b \in Seq(Requests) /\ t \in Seq(Frames) /\ toBoard \in Seq(Requests) /\ toHost \in Seq(Frames)
  BY AnonymousFacts DEF TypeOK
<1>4. /\ o # p => From(b, toBoard, o, 0) /\ From(t, toHost, o, 0)
      /\ Absent(b, p) /\ Absent(t, p)
  BY AnonymousFrom
<1> HIDE DEF b, t, r, f
<1>5. CASE o # p
  <2>1. From(Append(b, r), b, o, 0) /\ From(Append(t, f), t, o, 0)
    BY <1>1, <1>2, <1>3, <1>5, FromFacts
  <2>2. From(Append(b, r), toBoard, o, 0)
    BY <1>3, <1>4, <1>5, <2>1, FromJoin
  <2>3. From(Append(t, f), toHost, o, 0)
    BY <1>3, <1>4, <1>5, <2>1, FromJoin
  <2>4. From(toBoard', toBoard, o, 0) /\ From(toHost', toHost, o, 0)
    BY <1>1, <1>4, <1>5, <2>2, <2>3
  <2>5. QED  BY <1>1, <2>4, CallKept
<1>6. CASE o = p
  <2>1. CASE toBoard' = Append(b, r) /\ toHost' = t
    <3>1. \A i \in DOMAIN toBoard' : toBoard'[i].who = o => i = Len(b) + 1 /\ toBoard'[i] = r
      BY <1>1, <1>3, <1>4, <1>6, <2>1, OneNew
    <3>2. Absent(toHost', o)
      BY <1>4, <1>6, <2>1
    <3>3. QED  BY <1>1, <1>6, <3>1, <3>2 DEF CallOf, Absent
  <2>2. CASE toBoard' = b /\ toHost' = t
    BY <1>4, <1>6, <2>2, CallOver
  <2>3. CASE toBoard' = b /\ toHost' = Append(t, f)
    <3>1. \A i \in DOMAIN toHost' : toHost'[i].who = o => i = Len(t) + 1 /\ toHost'[i] = f
      BY <1>1, <1>3, <1>4, <1>6, <2>3, OneNew
    <3>2. Absent(toBoard', o)
      BY <1>4, <1>6, <2>3
    <3>3. QED  BY <1>1, <1>2, <1>6, <3>1, <3>2 DEF CallOf, Absent
  <2>4. QED  BY <1>1, <2>1, <2>2, <2>3
<1>7. QED  BY <1>5, <1>6

LEMMA ApplicationCall ==
  ASSUME TypeOK, PlaceInv, NEW o \in Objects, CallOf(o), Application
  PROVE  CallOf(o)'
<1>1. toBoard \in Seq(Requests) /\ toHost \in Seq(Frames)
  BY DEF TypeOK
<1>2. ASSUME NEW r \in Requests, Submit(r), r.who # o, pc'[o] = pc[o], handle'[o] = handle[o]
      PROVE  CallOf(o)'
  BY <1>2, SubmitFrom, CallKept
<1>3. ASSUME UNCHANGED <<toBoard, toHost, handle>>, pc'[o] = pc[o] \/ pc[o] \notin {"opening", "closing"}
      PROVE  CallOf(o)'
  <2>1. CASE pc'[o] = pc[o]
    <3>1. From(toBoard', toBoard, o, 0) /\ From(toHost', toHost, o, 0)
      BY <1>1, <1>3, FromFacts
    <3>2. QED  BY <1>3, <2>1, <3>1, CallKept
  <2>2. CASE pc[o] \notin {"opening", "closing"}
    <3>1. Absent(toBoard, o) /\ Absent(toHost, o)
      BY <2>2, NoCall
    <3>2. QED  BY <1>3, <3>1, CallOver
  <2>3. QED  BY <1>3, <2>1, <2>2
<1>4. ASSUME NEW p \in Objects, Open(p) PROVE CallOf(o)'
  <2> DEFINE r == [op |-> "open", who |-> p, obj |-> p]
  <2>1. /\ r \in Requests /\ Submit(r) /\ r.who = p /\ r.op = "open" /\ r.obj = p /\ handle' = handle
        /\ pc[p] = "new" /\ pc' = [pc EXCEPT ![p] = "opening"]
    BY <1>4, AskFacts DEF Open, Goto
  <2> HIDE DEF r
  <2>2. CASE p = o
    <3>1. pc'[o] = "opening"
      BY <2>1, <2>2 DEF TypeOK
    <3>2. QED  BY <2>1, <2>2, <3>1, CallBegins
  <2>3. CASE p # o
    BY <1>2, <2>1, <2>3
  <2>4. QED  BY <2>2, <2>3
<1>5. ASSUME NEW p \in Objects, Close(p) PROVE CallOf(o)'
  <2>1. CASE UNCHANGED <<toBoard, toHost>> /\ pc' = [pc EXCEPT ![p] = "forget"]
    BY <1>3, <1>5, <2>1 DEF Close
  <2>2. CASE Submit([op |-> "close", who |-> p, h |-> handle[p]]) /\ pc' = [pc EXCEPT ![p] = "closing"]
    <3> DEFINE r == [op |-> "close", who |-> p, h |-> handle[p]]
    <3>1. /\ r \in Requests /\ Submit(r) /\ r.who = p /\ r.op = "close" /\ r.h = handle[p] /\ handle' = handle
          /\ pc[p] = "use" /\ pc' = [pc EXCEPT ![p] = "closing"]
      BY <1>5, <2>2, AskFacts DEF Close
    <3> HIDE DEF r
    <3>2. CASE p = o
      <4>1. pc'[o] = "closing" /\ r.h = handle'[o]
        BY <3>1, <3>2 DEF TypeOK
      <4>2. QED  BY <3>1, <3>2, <4>1, CallBegins
    <3>3. CASE p # o
      BY <1>2, <3>1, <3>3
    <3>4. QED  BY <3>2, <3>3
  <2>3. QED  BY <1>5, <2>1, <2>2 DEF Close, Goto
<1>6. ASSUME NEW p \in Objects, Register(p) \/ Forget(p) PROVE CallOf(o)'
  <2>1. /\ UNCHANGED <<toBoard, toHost, handle>> /\ pc[p] \notin {"opening", "closing"}
        /\ p # o => pc'[o] = pc[o]
    <3>1. UNCHANGED <<toBoard, toHost, handle>> /\ pc[p] \in {"register", "forget"}
      BY <1>6 DEF Register, Forget
    <3>2. pc' = [pc EXCEPT ![p] = "use"] \/ pc' = [pc EXCEPT ![p] = "done"]
      BY <1>6 DEF Register, Forget, Goto
    <3>3. p # o => pc'[o] = pc[o]
      BY <3>2 DEF TypeOK
    <3>4. QED  BY <3>1, <3>3
  <2>2. QED  BY <1>3, <2>1
<1>7. ASSUME NEW p \in Objects, GiveUp(p) PROVE CallOf(o)'
  <2>1. toBoard' = Anonymous(toBoard, p) /\ toHost' = Anonymous(toHost, p)
    BY <1>7 DEF GiveUp
  <2>2. CASE p = o
    BY <2>1, <2>2, AnonymousFrom, CallOver
  <2>3. CASE p # o
    <3>1. From(toBoard', toBoard, o, 0) /\ From(toHost', toHost, o, 0)
      BY <2>1, <2>3, AnonymousFrom
    <3>2. handle'[o] = handle[o] /\ pc'[o] = pc[o]
      BY <1>7, <2>3 DEF GiveUp, Goto
    <3>3. QED  BY <3>1, <3>2, CallKept
  <2>4. QED  BY <2>2, <2>3
<1>8. ASSUME NEW c \in Conns, Recv(c) PROVE CallOf(o)'
  BY <1>3, <1>8 DEF Recv
<1>9. ASSUME NEW c \in Conns, Ack(c) PROVE CallOf(o)'
  <2> DEFINE r == [op |-> "ack", who |-> None, of |-> c, h |-> handle[c], n |-> acking[c]]
  <2>1. r \in Requests /\ Submit(r) /\ r.who # o /\ pc' = pc /\ handle' = handle
    BY <1>9, AskFacts, Names DEF Ack
  <2> HIDE DEF r
  <2>2. QED  BY <1>2, <2>1
<1>10. QED  BY <1>4, <1>5, <1>6, <1>7, <1>8, <1>9, RetryCall DEF Application

\* While nothing is lost, queues take all they are given, and nobody gives up.
LEMMA Unlost ==
  ASSUME TypeOK, PlaceInv, [Next]_vars, ~lostFrame'
  PROVE  /\ ~lostFrame
         /\ \A f \in Frames : Sent(f) => toHost' = Append(toHost, f)
         /\ \A r \in Requests : Submit(r) => toBoard' = Append(toBoard, r) /\ toHost' = toHost
         /\ \A o \in Objects : ~GiveUp(o) /\ ~Retry(o)
<1>1. \A f \in Frames : Sent(f) => toHost' = Append(toHost, f) /\ ~lostFrame
  BY EmitFacts DEF Sent
<1>2. \A r \in Requests : Submit(r) => toBoard' = Append(toBoard, r) /\ toHost' = toHost /\ ~lostFrame
  BY SubmitFacts
<1>3. \A o \in Objects : ~GiveUp(o) /\ ~Retry(o)
  BY LateFacts DEF GiveUp, Retry
<1>4. ~lostFrame
  <2>1. CASE Board
    <3>1. Silent => ~lostFrame
      BY DEF Silent, lostFrame
    <3>2. QED  BY <1>1, <2>1, <3>1, BoardCases
  <2>2. CASE Reader
    BY <2>2 DEF Reader, OnData, OnAccept, OnClosed, OnReply, lostFrame
  <2>3. CASE Application
    <3>1. ASSUME NEW o \in Objects, Open(o) PROVE ~lostFrame
      BY <1>2, <3>1, AskFacts DEF Open
    <3>2. ASSUME NEW o \in Objects, Close(o) PROVE ~lostFrame
      <4>1. CASE Submit([op |-> "close", who |-> o, h |-> handle[o]])
        <5>1. pc[o] = "use"
          BY <3>2 DEF Close
        <5>2. QED  BY <1>2, <4>1, <5>1, AskFacts
      <4>2. QED  BY <3>2, <4>1 DEF Close, ghosts, lostFrame
    <3>3. ASSUME NEW c \in Conns, Ack(c) PROVE ~lostFrame
      BY <1>2, <3>3, AskFacts DEF Ack
    <3>4. ASSUME NEW o \in Objects, Register(o) \/ Forget(o) PROVE ~lostFrame
      BY <3>4 DEF Register, Forget, ghosts, lostFrame
    <3>5. ASSUME NEW c \in Conns, Recv(c) PROVE ~lostFrame
      BY <3>5 DEF Recv, ghosts, lostFrame
    <3>6. QED  BY <1>3, <2>3, <3>1, <3>2, <3>3, <3>4, <3>5 DEF Application
  <2>4. CASE UNCHANGED vars
    BY <2>4 DEF vars, ghosts, lostFrame
  <2>5. QED  BY <2>1, <2>2, <2>3, <2>4 DEF Next, Done
<1>5. QED  BY <1>1, <1>2, <1>3, <1>4

\* What happens to the slow queue while nothing is lost.
LEMMA BoardQueue ==
  ASSUME TypeOK, PlaceInv, [Next]_vars, ~lostFrame'
  PROVE  \/ toBoard' = toBoard
         \/ toBoard # <<>> /\ toBoard' = Tail(toBoard)
         \/ \E r \in Requests :
              /\ toBoard' = Append(toBoard, r) /\ (r.op # "ack" => r.who # None)
              /\ r.op = "open" => r.obj = r.who /\ pc[r.who] = "new"
<1> DEFINE Goal == \/ toBoard' = toBoard
                   \/ toBoard # <<>> /\ toBoard' = Tail(toBoard)
                   \/ \E r \in Requests :
                        /\ toBoard' = Append(toBoard, r) /\ (r.op # "ack" => r.who # None)
                        /\ r.op = "open" => r.obj = r.who /\ pc[r.who] = "new"
<1> SUFFICES Goal
  OBVIOUS
<1>1. ASSUME Board PROVE Goal
  <2>1. toBoard' = toBoard \/ (toBoard # <<>> /\ toBoard' = Tail(toBoard))
    BY <1>1, BoardCases
       DEF Silent, Sent, DataSent, ClosedSent, AcceptSent, RefusalSent, OpenedSent, ShutSent, Answer, Taking
  <2>2. QED  BY <2>1
<1>2. ASSUME Reader PROVE toBoard' = toBoard
  BY <1>2 DEF Reader, OnData, OnAccept, OnClosed, OnReply
<1>3. ASSUME NEW o \in Objects, Open(o) PROVE Goal
  <2> DEFINE r == [op |-> "open", who |-> o, obj |-> o]
  <2>1. r \in Requests /\ r.who = o /\ r.obj = o /\ pc[o] = "new" /\ Submit(r)
    BY <1>3, AskFacts DEF Open
  <2> HIDE DEF r
  <2>2. toBoard' = Append(toBoard, r)
    BY <2>1, Unlost
  <2>3. QED  BY <2>1, <2>2, Names
<1>4. ASSUME NEW o \in Objects, Close(o) PROVE Goal
  <2>1. CASE Submit([op |-> "close", who |-> o, h |-> handle[o]])
    <3> DEFINE r == [op |-> "close", who |-> o, h |-> handle[o]]
    <3>1. r \in Requests /\ r.who = o /\ r.op = "close" /\ Submit(r)
      BY <1>4, <2>1, AskFacts DEF Close
    <3> HIDE DEF r
    <3>2. toBoard' = Append(toBoard, r)
      BY <3>1, Unlost
    <3>3. QED  BY <3>1, <3>2, Names
  <2>2. QED  BY <1>4, <2>1 DEF Close
<1>5. ASSUME NEW c \in Conns, Ack(c) PROVE Goal
  <2> DEFINE r == [op |-> "ack", who |-> None, of |-> c, h |-> handle[c], n |-> acking[c]]
  <2>1. r \in Requests /\ r.op = "ack" /\ Submit(r)
    BY <1>5, AskFacts DEF Ack
  <2> HIDE DEF r
  <2>2. toBoard' = Append(toBoard, r)
    BY <2>1, Unlost
  <2>3. QED  BY <2>1, <2>2
<1>6. ASSUME NEW o \in Objects, Register(o) \/ Forget(o) PROVE toBoard' = toBoard
  BY <1>6 DEF Register, Forget
<1>7. ASSUME NEW c \in Conns, Recv(c) PROVE toBoard' = toBoard
  BY <1>7 DEF Recv
<1>8. CASE UNCHANGED vars
  BY <1>8 DEF vars
<1>9. toBoard' = toBoard => Goal
  OBVIOUS
<1> HIDE DEF Goal
<1>10. CASE Application
  BY <1>3, <1>4, <1>5, <1>6, <1>7, <1>9, <1>10, Unlost DEF Application
<1>11. QED  BY <1>1, <1>2, <1>8, <1>9, <1>10 DEF Next, Done

LEMMA NamedStep ==
  ASSUME TypeOK, PlaceInv, NamedInv, [Next]_vars
  PROVE  NamedInv'
<1> SUFFICES ASSUME ~lostFrame'
             PROVE  /\ \A i \in DOMAIN toBoard' : toBoard'[i].op # "ack" => toBoard'[i].who # None
                    /\ \A i \in DOMAIN toHost' : toHost'[i].op = "reply" => toHost'[i].who # None
  BY DEF NamedInv
<1>1. /\ toBoard \in Seq(Requests) /\ toHost \in Seq(Frames)
      /\ \A i \in DOMAIN toBoard : toBoard[i].op # "ack" => toBoard[i].who # None
      /\ \A i \in DOMAIN toHost : toHost[i].op = "reply" => toHost[i].who # None
  BY Unlost DEF NamedInv, TypeOK
<1>2. \A i \in DOMAIN toBoard' : toBoard'[i].op # "ack" => toBoard'[i].who # None
  <2>1. CASE toBoard' = toBoard
    BY <1>1, <2>1
  <2>2. CASE toBoard # <<>> /\ toBoard' = Tail(toBoard)
    BY <1>1, <2>2, TailFacts
  <2>3. ASSUME NEW r \in Requests, toBoard' = Append(toBoard, r), r.op # "ack" => r.who # None
        PROVE  \A i \in DOMAIN toBoard' : toBoard'[i].op # "ack" => toBoard'[i].who # None
    <3>1. \A i \in DOMAIN toBoard' : toBoard'[i] = r \/ (i \in DOMAIN toBoard /\ toBoard'[i] = toBoard[i])
      BY <1>1, <2>3, AppendFacts
    <3>2. QED  BY <1>1, <2>3, <3>1
  <2>4. QED  BY <2>1, <2>2, <2>3, BoardQueue
<1>3. ASSUME NEW f \in Frames, Sent(f), f.op = "reply" PROVE f.who # None
  <2>1. f.who = Head(toBoard).who /\ toBoard # <<>> /\ Head(toBoard).op # "ack"
    BY <1>3 DEF Sent, DataSent, ClosedSent, AcceptSent, RefusalSent, OpenedSent, ShutSent, Answer, Taking
  <2>2. Head(toBoard) = toBoard[1] /\ 1 \in DOMAIN toBoard
    BY <1>1, <2>1, TailFacts
  <2>3. QED  BY <1>1, <2>1, <2>2
<1>4. \A i \in DOMAIN toHost' : toHost'[i].op = "reply" => toHost'[i].who # None
  <2>1. CASE toHost' = toHost
    BY <1>1, <2>1
  <2>2. CASE toHost # <<>> /\ toHost' = Tail(toHost)
    BY <1>1, <2>2, TailFacts
  <2>3. ASSUME NEW f \in Frames, Sent(f), toHost' = Append(toHost, f)
        PROVE  \A i \in DOMAIN toHost' : toHost'[i].op = "reply" => toHost'[i].who # None
    <3>1. \A i \in DOMAIN toHost' : toHost'[i] = f \/ (i \in DOMAIN toHost /\ toHost'[i] = toHost[i])
      BY <1>1, <2>3, AppendFacts
    <3>2. QED  BY <1>1, <1>3, <2>3, <3>1
  <2>4. QED  BY <2>1, <2>2, <2>3, HostQueue, Unlost
<1>5. QED  BY <1>2, <1>4

LEMMA CallStep ==
  ASSUME TypeOK, CallInv, PlaceInv, AcceptInv, [Next]_vars
  PROVE  CallInv'
<1>1. ASSUME NEW o \in Objects PROVE CallOf(o)'
  <2>1. CallOf(o)
    BY DEF CallInv
  <2>2. CASE UNCHANGED vars
    BY <2>1, <2>2 DEF CallOf, vars, host
  <2>3. QED  BY <2>1, <2>2, BoardCall, ReaderCall, ApplicationCall DEF Next, Done
<1>2. NamedInv'
  BY NamedStep DEF CallInv
<1>3. QED  BY <1>1, <1>2 DEF CallInv

\* A connection the host has not heard of stays so until it does.
LEMMA NewStays ==
  ASSUME TypeOK, CallInv, AcceptInv, [Next]_vars, NEW c \in Incoming, pc[c] = "new",
         ~(Receiving("accept") /\ Head(toHost).conn = c)
  PROVE  pc'[c] = "new"
<1>1. c \in Objects
  BY Names
<1>2. CASE Board
  BY <1>2, BoardCases DEF host
<1>3. CASE OnAccept
  <2>1. Head(toHost).conn # c
    BY <1>3 DEF OnAccept
  <2>2. pc' = [pc EXCEPT ![Head(toHost).conn] = "use"] \/ pc' = pc
    BY <1>3, AcceptFacts
  <2>3. QED  BY <1>1, <2>1, <2>2 DEF TypeOK
<1>4. CASE OnReply
  <2>1. c # Head(toHost).who
    BY <1>1, <1>4, ReplyFacts
  <2>2. QED  BY <1>1, <1>4, <2>1, ReplyFacts
<1>5. CASE OnData \/ OnClosed
  BY <1>5 DEF OnData, OnClosed
<1>6. ASSUME NEW o \in Objects, o # c, NEW to, pc' = [pc EXCEPT ![o] = to] PROVE pc'[c] = "new"
  BY <1>1, <1>6 DEF TypeOK
<1>7. ASSUME NEW o \in Objects, Open(o) PROVE pc'[c] = "new"
  BY <1>6, <1>7 DEF Open, Goto
<1>8. ASSUME NEW o \in Objects, Register(o) PROVE pc'[c] = "new"
  BY <1>6, <1>8 DEF Register, Goto
<1>9. ASSUME NEW o \in Objects, Close(o) PROVE pc'[c] = "new"
  <2>1. o # c /\ \E to : pc' = [pc EXCEPT ![o] = to]
    BY <1>9 DEF Close, Goto
  <2>2. QED  BY <1>6, <2>1
<1>10. ASSUME NEW o \in Objects, Forget(o) PROVE pc'[c] = "new"
  BY <1>6, <1>10 DEF Forget, Goto
<1>11. ASSUME NEW o \in Objects, GiveUp(o) PROVE pc'[c] = "new"
  <2>1. o # c /\ \E to : pc' = [pc EXCEPT ![o] = to]
    BY <1>11 DEF GiveUp, Goto
  <2>2. QED  BY <1>6, <2>1
<1>12. ASSUME NEW d \in Conns, Recv(d) \/ Ack(d) PROVE pc'[c] = "new"
  BY <1>12 DEF Recv, Ack
<1>13. CASE UNCHANGED vars
  BY <1>13 DEF vars, host
<1>14. CASE Application
  BY <1>7, <1>8, <1>9, <1>10, <1>11, <1>12, <1>14 DEF Application, Retry
<1>15. QED  BY <1>2, <1>3, <1>4, <1>5, <1>13, <1>14 DEF Next, Done, Reader

LEMMA ArrivedGrows ==
  ASSUME TypeOK, [Next]_vars
  PROVE  arrived \subseteq arrived'
<1>1. CASE Board
  <2>1. Silent => arrived \subseteq arrived'
    BY DEF Silent
  <2>2. ASSUME NEW f \in Frames, Sent(f) PROVE arrived \subseteq arrived'
    BY <2>2 DEF Sent, DataSent, ClosedSent, AcceptSent, RefusalSent, OpenedSent, ShutSent, Answer
  <2>3. QED  BY <1>1, <2>1, <2>2, BoardCases
<1>2. QED
  BY <1>1 DEF Next, Reader, Application, Done, vars, net, OnData, OnAccept, OnClosed, OnReply, Open, Register,
              Recv, Ack, Close, Forget, Retry, GiveUp

\* A connection that was accepted has one frame at most.
LEMMA AcceptOnce ==
  ASSUME TypeOK, PlaceInv, AcceptInv, [Next]_vars, NEW i \in DOMAIN toHost', NEW j \in DOMAIN toHost',
         toHost'[i].op = "accept", toHost'[j].op = "accept", toHost'[i].conn = toHost'[j].conn
  PROVE  i = j
<1>1. toHost \in Seq(Frames)
  BY DEF TypeOK
<1>2. \A k, l \in DOMAIN toHost :
        toHost[k].op = "accept" /\ toHost[l].op = "accept" /\ toHost[k].conn = toHost[l].conn => k = l
  BY DEF AcceptInv
<1>3. CASE toHost' = toHost
  BY <1>2, <1>3
<1>4. CASE toHost # <<>> /\ toHost' = Tail(toHost)
  <2>1. /\ i \in Nat /\ i + 1 \in DOMAIN toHost /\ toHost'[i] = toHost[i + 1]
        /\ j \in Nat /\ j + 1 \in DOMAIN toHost /\ toHost'[j] = toHost[j + 1]
    BY <1>1, <1>4, TailFacts
  <2>2. i + 1 = j + 1
    BY <1>2, <2>1
  <2>3. QED  BY <2>1, <2>2
<1>5. ASSUME NEW f \in Frames, toHost' = Append(toHost, f),
             f.op = "accept" => \A k \in DOMAIN toHost : toHost[k].op = "accept" => toHost[k].conn # f.conn
      PROVE  i = j
  <2>1. \A k \in DOMAIN toHost' : \/ k = Len(toHost) + 1 /\ toHost'[k] = f
                                  \/ k \in DOMAIN toHost /\ toHost'[k] = toHost[k]
    BY <1>1, <1>5, AppendFacts
  <2>2. QED  BY <1>2, <1>5, <2>1
<1>6. ASSUME NEW f \in Frames, Sent(f), toHost' = Append(toHost, f) PROVE i = j
  <2>1. f.op = "accept" => f.conn \notin arrived
    BY <1>6 DEF Sent, DataSent, ClosedSent, AcceptSent, RefusalSent, OpenedSent, ShutSent, Answer
  <2>2. \A k \in DOMAIN toHost : toHost[k].op = "accept" => toHost[k].conn \in arrived
    BY DEF AcceptInv
  <2>3. QED  BY <1>5, <1>6, <2>1, <2>2
<1>7. ASSUME NEW r \in Requests, toHost' = Append(toHost, Busy(r)) PROVE i = j
  <2>1. Busy(r) \in Frames /\ Busy(r).op = "reply"
    BY RecordTypes, RequestFields DEF Busy
  <2>2. QED  BY <1>5, <1>7, <2>1
<1>8. ASSUME NEW o \in Objects PROVE \A k \in DOMAIN toHost :
        Anonymous(toHost, o)[k].op = "accept" => Anonymous(toHost, o)[k] = toHost[k]
  <2> SUFFICES ASSUME NEW k \in DOMAIN toHost, toHost[k].who = o,
                      [toHost[k] EXCEPT !.who = None].op = "accept" PROVE FALSE
    BY AnonymousFacts
  <2>1. toHost[k] \in Frames
    BY <1>1
  <2>2. toHost[k].op = "accept"
    BY <2>1 DEF Frames
  <2>3. QED  BY <2>1, <2>2, FrameFields, Names
<1>9. ASSUME NEW o \in Objects, GiveUp(o) PROVE i = j
  <2>1. toHost' = Anonymous(toHost, o) /\ DOMAIN Anonymous(toHost, o) = DOMAIN toHost
    BY <1>9, AnonymousFacts DEF GiveUp
  <2>2. QED  BY <1>2, <1>8, <2>1
<1>10. ASSUME NEW o \in Objects, Retry(o) PROVE i = j
  <2> DEFINE s == Anonymous(toHost, o)
             f == Busy(Request(o))
  <2>1. /\ toHost' = s \/ toHost' = Append(s, f)
        /\ f \in Frames /\ f.op = "reply"
    BY <1>10, RetryFacts DEF Busy
  <2>2. /\ s \in Seq(Frames) /\ DOMAIN s = DOMAIN toHost
        /\ \A k \in DOMAIN toHost : s[k].op = "accept" => s[k] = toHost[k]
    BY <1>8, AnonymousFacts
  <2> HIDE DEF s, f
  <2>3. CASE toHost' = s
    BY <1>2, <2>2, <2>3
  <2>4. CASE toHost' = Append(s, f)
    <3>1. \A k \in DOMAIN toHost' : \/ k = Len(s) + 1 /\ toHost'[k] = f
                                    \/ k \in DOMAIN s /\ toHost'[k] = s[k]
      BY <2>1, <2>2, <2>4, AppendFacts
    <3>2. QED  BY <1>2, <2>1, <2>2, <3>1
  <2>5. QED  BY <2>1, <2>3, <2>4
<1>11. QED  BY <1>3, <1>4, <1>6, <1>7, <1>9, <1>10, HostQueue

LEMMA AcceptStep ==
  ASSUME TypeOK, CallInv, PlaceInv, AcceptInv, [Next]_vars
  PROVE  AcceptInv'
<1>1. \A c \in Incoming \ arrived' : pc'[c] = "new"
  <2> SUFFICES ASSUME NEW c \in Incoming \ arrived' PROVE pc'[c] = "new"
    OBVIOUS
  <2>1. c \notin arrived /\ pc[c] = "new"
    BY ArrivedGrows DEF AcceptInv
  <2>2. ~(Receiving("accept") /\ Head(toHost).conn = c)
    <3>1. ASSUME Receiving("accept") PROVE Head(toHost).conn \in arrived
      <4>1. Head(toHost) = toHost[1] /\ 1 \in DOMAIN toHost /\ toHost[1].op = "accept"
        BY <3>1, ReceiveFacts, TailFacts
      <4>2. QED  BY <4>1 DEF AcceptInv
    <3>2. QED  BY <2>1, <3>1
  <2>3. QED  BY <2>1, <2>2, NewStays
<1>2. ASSUME NEW i \in DOMAIN toHost', toHost'[i].op = "accept"
      PROVE  toHost'[i].conn \in arrived' /\ pc'[toHost'[i].conn] = "new"
  <2>1. CASE \E f \in Frames : Sent(f) /\ toHost'[i] = f
    <3>1. PICK f \in Frames : Sent(f) /\ toHost'[i] = f
      BY <2>1
    <3>2. f.conn \in Incoming \ arrived /\ f.conn \in arrived'
      BY <1>2, <3>1 DEF Sent, DataSent, ClosedSent, AcceptSent, RefusalSent, OpenedSent, ShutSent, Answer
    <3>3. pc[f.conn] = "new"
      BY <3>2 DEF AcceptInv
    <3>4. ~(Receiving("accept") /\ Head(toHost).conn = f.conn)
      <4>1. ASSUME Receiving("accept") PROVE Head(toHost).conn \in arrived
        <5>1. Head(toHost) = toHost[1] /\ 1 \in DOMAIN toHost /\ toHost[1].op = "accept"
          BY <4>1, ReceiveFacts, TailFacts
        <5>2. QED  BY <5>1 DEF AcceptInv
      <4>2. QED  BY <3>2, <4>1
    <3>5. QED  BY <3>1, <3>2, <3>3, <3>4, NewStays
  <2>2. CASE \E k \in DOMAIN toHost : toHost'[i] = toHost[k]
    <3>1. PICK k \in DOMAIN toHost : toHost'[i] = toHost[k]
      BY <2>2
    <3> DEFINE c == toHost[k].conn
    <3>2. c \in arrived /\ pc[c] = "new" /\ c \in Incoming /\ c \in arrived'
      BY <1>2, <3>1, ArrivedGrows DEF AcceptInv, TypeOK
    <3>3. ~(Receiving("accept") /\ Head(toHost).conn = c)
      <4> SUFFICES ASSUME Receiving("accept"), Head(toHost).conn = c PROVE FALSE
        OBVIOUS
      <4>1. /\ toHost' = Tail(toHost) /\ toHost # <<>> /\ Head(toHost).op = "accept" /\ toHost \in Seq(Frames)
        BY ReceiveFacts
      <4>2. i + 1 \in DOMAIN toHost /\ i + 1 # 1 /\ toHost'[i] = toHost[i + 1] /\ 1 \in DOMAIN toHost
            /\ Head(toHost) = toHost[1]
        BY <4>1, TailFacts
      <4>3. toHost[i + 1].op = "accept" /\ toHost[i + 1].conn = c /\ toHost[1].op = "accept" /\ toHost[1].conn = c
        BY <1>2, <3>1, <4>1, <4>2
      <4>4. QED  BY <4>2, <4>3 DEF AcceptInv
    <3> HIDE DEF c
    <3>4. pc'[c] = "new"
      BY <3>2, <3>3, NewStays
    <3>5. QED  BY <3>1, <3>2, <3>4 DEF c
  <2>3. QED  BY <1>2, <2>1, <2>2, FrameOrigin
<1>3. \A i, j \in DOMAIN toHost' :
        toHost'[i].op = "accept" /\ toHost'[j].op = "accept" /\ toHost'[i].conn = toHost'[j].conn => i = j
  BY AcceptOnce
<1>4. QED  BY <1>1, <1>2, <1>3 DEF AcceptInv

-----------------------------------------------------------------------------
(* Nobody has two slots, one after the other or at once *)

LEMMA NeverNew ==
  ASSUME TypeOK, CallInv, AcceptInv, [Next]_vars, NEW o \in Objects, pc[o] # "new"
  PROVE  pc'[o] # "new"
<1>1. CASE Board
  BY <1>1, BoardCases DEF host
<1>2. CASE OnAccept
  BY <1>2, AcceptFacts DEF TypeOK
<1>3. CASE OnReply
  <2>1. CASE o = Head(toHost).who
    BY <1>3, <2>1, ReplyFacts
  <2>2. CASE o # Head(toHost).who
    BY <1>3, <2>2, ReplyFacts
  <2>3. QED  BY <2>1, <2>2
<1>4. ASSUME NEW p \in Objects, NEW to, to # "new", pc' = [pc EXCEPT ![p] = to] PROVE pc'[o] # "new"
  BY <1>4 DEF TypeOK
<1>5. ASSUME NEW p \in Objects, Open(p) \/ Register(p) \/ Close(p) \/ Forget(p) \/ GiveUp(p) PROVE pc'[o] # "new"
  <2>1. \E to \in {"opening", "use", "closing", "forget", "done"} : pc' = [pc EXCEPT ![p] = to]
    BY <1>5 DEF Open, Register, Close, Forget, GiveUp, Goto
  <2>2. QED  BY <1>4, <2>1
<1>6. CASE UNCHANGED pc
  BY <1>6
<1>7. CASE Application
  BY <1>5, <1>6, <1>7 DEF Application, Recv, Ack, Retry
<1>8. QED
  BY <1>1, <1>2, <1>3, <1>6, <1>7 DEF Next, Done, Reader, OnData, OnClosed, vars, host

LEMMA SpentStays ==
  ASSUME TypeOK, CallInv, PlaceInv, AcceptInv, [Next]_vars, ~lostFrame', NEW o \in Objects, Spent(o)
  PROVE  Spent(o)'
<1>1. CASE o \in Incoming
  BY <1>1, ArrivedGrows DEF Spent
<1>2. CASE o \notin Incoming
  <2>1. pc[o] # "new" /\ \A i \in DOMAIN toBoard : ~Opening(toBoard[i], o)
    BY <1>2 DEF Spent
  <2>2. pc'[o] # "new"
    BY <2>1, NeverNew
  <2>3. toBoard \in Seq(Requests)
    BY DEF TypeOK
  <2>4. CASE toBoard' = toBoard
    BY <1>2, <2>1, <2>2, <2>4 DEF Spent
  <2>5. CASE toBoard # <<>> /\ toBoard' = Tail(toBoard)
    <3>1. \A i \in DOMAIN toBoard' : i + 1 \in DOMAIN toBoard /\ toBoard'[i] = toBoard[i + 1]
      BY <2>3, <2>5, TailFacts
    <3>2. \A i \in DOMAIN toBoard' : ~Opening(toBoard'[i], o)
      BY <2>1, <3>1
    <3>3. QED  BY <1>2, <2>2, <3>2 DEF Spent
  <2>6. ASSUME NEW r \in Requests, toBoard' = Append(toBoard, r), r.op = "open" => r.obj = r.who /\ pc[r.who] = "new"
        PROVE  Spent(o)'
    <3>1. \A i \in DOMAIN toBoard' : toBoard'[i] = r \/ (i \in DOMAIN toBoard /\ toBoard'[i] = toBoard[i])
      BY <2>3, <2>6, AppendFacts
    <3>2. ~Opening(r, o)
      BY <2>1, <2>6 DEF Opening
    <3>3. \A i \in DOMAIN toBoard' : ~Opening(toBoard'[i], o)
      BY <2>1, <3>1, <3>2
    <3>4. QED  BY <1>2, <2>2, <3>3 DEF Spent
  <2>7. QED  BY <2>4, <2>5, <2>6, BoardQueue
<1>3. QED  BY <1>1, <1>2

\* Slots are emptied, or given to somebody who was never given one.
LEMMA SocksStep ==
  ASSUME TypeOK, CallInv, PlaceInv, AcceptInv, [Next]_vars, ~lostFrame'
  PROVE  \/ socks' = socks
         \/ \E x \in Handles : socks' = [socks EXCEPT ![x] = None]
         \/ \E x \in Handles, v \in Objects :
              socks[x] = None /\ socks' = [socks EXCEPT ![x] = v] /\ ~Spent(v) /\ Spent(v)'
<1> DEFINE Goal == \/ socks' = socks
                   \/ \E x \in Handles : socks' = [socks EXCEPT ![x] = None]
                   \/ \E x \in Handles, v \in Objects :
                        socks[x] = None /\ socks' = [socks EXCEPT ![x] = v] /\ ~Spent(v) /\ Spent(v)'
<1> SUFFICES Goal
  OBVIOUS
<1>1. CASE Silent
  BY <1>1 DEF Silent
<1>2. ASSUME NEW f \in Frames, DataSent(f) \/ RefusalSent(f) PROVE Goal
  BY <1>2 DEF DataSent, RefusalSent
<1>3. ASSUME NEW f \in Frames, ClosedSent(f) PROVE Goal
  <2>1. f.h \in Handles /\ socks' = [socks EXCEPT ![f.h] = None]
    BY <1>3, FrameFields DEF ClosedSent
  <2>2. QED  BY <2>1
<1>4. ASSUME NEW f \in Frames, ShutSent(f) PROVE Goal
  <2>1. Head(toBoard) \in Requests /\ Head(toBoard).op = "close" /\ socks' = [socks EXCEPT ![Head(toBoard).h] = None]
    BY <1>4, TakeFacts DEF ShutSent, Answer
  <2>2. Head(toBoard).h \in Handles
    BY <2>1, RequestFields
  <2>3. QED  BY <2>1, <2>2
<1>5. ASSUME NEW f \in Frames, AcceptSent(f) PROVE Goal
  <2>1. /\ f.new \in Handles /\ f.conn \in Objects /\ f.conn \in Incoming \ arrived /\ f.conn \in arrived'
        /\ socks[f.new] = None /\ socks' = [socks EXCEPT ![f.new] = f.conn]
    BY <1>5, FrameFields, Names DEF AcceptSent
  <2>2. ~Spent(f.conn) /\ Spent(f.conn)'
    BY <2>1 DEF Spent
  <2>3. QED  BY <2>1, <2>2
<1>6. ASSUME NEW f \in Frames, OpenedSent(f) PROVE Goal
  <2> DEFINE r == Head(toBoard)
  <2>1. /\ toBoard \in Seq(Requests) /\ toBoard # <<>> /\ toBoard' = Tail(toBoard)
        /\ r \in Requests /\ r.op = "open" /\ r = toBoard[1] /\ 1 \in DOMAIN toBoard
    <3>1. Taking("open")
      BY <1>6 DEF OpenedSent, Answer
    <3>2. QED  BY <3>1, TakeFacts, TailFacts
  <2>2. /\ f.h \in Handles /\ socks[f.h] = None /\ socks' = [socks EXCEPT ![f.h] = r.obj]
    BY <1>6, FrameFields DEF OpenedSent, Answer
  <2>3. PICK o \in Objects : o = r.obj /\ r.who \in Objects
    <3>1. r.who # None
      BY <2>1, Unlost DEF CallInv, NamedInv
    <3>2. QED  BY <2>1, <3>1, RequestFields
  <2> HIDE DEF r
  <2>4. r.who = o /\ pc[o] = "opening" /\ \A j \in DOMAIN toBoard : toBoard[j].who = o => j = 1
    <3>1. CallOf(r.who) /\ toBoard[1].who = r.who
      BY <2>1, <2>3 DEF CallInv
    <3>2. QED  BY <2>1, <2>3, <3>1 DEF CallOf
  <2>5. o \notin Incoming
    BY <2>3, <2>4 DEF PlaceInv
  <2>6. ~Spent(o)
    <3>1. Opening(toBoard[1], o)
      BY <2>1, <2>3 DEF Opening
    <3>2. QED  BY <2>1, <2>5, <3>1 DEF Spent
  <2>7. \A i \in DOMAIN toBoard' : ~Opening(toBoard'[i], o)
    <3> SUFFICES ASSUME NEW i \in DOMAIN toBoard', Opening(toBoard'[i], o) PROVE FALSE
      OBVIOUS
    <3>1. i + 1 \in DOMAIN toBoard /\ i + 1 # 1 /\ toBoard'[i] = toBoard[i + 1]
      BY <2>1, TailFacts
    <3>2. toBoard[i + 1].op = "open" /\ toBoard[i + 1].obj = o /\ toBoard[i + 1] \in Requests
      BY <2>1, <3>1 DEF Opening
    <3>3. toBoard[i + 1].who # None
      BY <3>1, <3>2, Unlost DEF CallInv, NamedInv
    <3>4. toBoard[i + 1].who = o
      <4> DEFINE w == toBoard[i + 1].who
      <4>1. w \in Objects
        BY <3>2, <3>3, RequestFields
      <4>2. CallOf(w)
        BY <4>1 DEF CallInv
      <4> HIDE DEF w
      <4>3. toBoard[i + 1].who = w
        BY DEF w
      <4>4. QED  BY <3>1, <3>2, <4>2, <4>3 DEF CallOf
    <3>5. QED  BY <2>4, <3>1, <3>4
  <2>8. pc'[o] # "new"
    BY <2>3, <2>4, NeverNew
  <2>9. Spent(o)'
    BY <2>5, <2>7, <2>8 DEF Spent
  <2>10. QED  BY <2>2, <2>3, <2>6, <2>9
<1>7. CASE UNCHANGED board
  BY <1>7 DEF board
<1> HIDE DEF Goal
<1>8. CASE Board
  BY <1>1, <1>2, <1>3, <1>4, <1>5, <1>6, <1>8, BoardCases DEF Sent
<1>9. QED
  BY <1>7, <1>8 DEF Next, Reader, Application, Done, vars, OnData, OnAccept, OnClosed, OnReply, Open, Register,
                    Recv, Ack, Close, Forget, Retry, GiveUp

LEMMA SpentStep ==
  ASSUME TypeOK, CallInv, PlaceInv, AcceptInv, SpentInv, [Next]_vars
  PROVE  SpentInv'
<1> SUFFICES ASSUME ~lostFrame'
             PROVE  /\ \A h \in Handles : socks'[h] # None =>
                         /\ Spent(socks[h])'
                         /\ \A g \in Handles : g # h => socks'[g] # socks'[h]
                    /\ \A i \in DOMAIN toHost' : toHost'[i].op = "closed" =>
                         /\ Spent(toHost[i].conn)'
                         /\ \A h \in Handles : socks'[h] # toHost'[i].conn
  BY DEF SpentInv
<1>1. /\ \A h \in Handles : socks[h] # None =>
           /\ Spent(socks[h])
           /\ \A g \in Handles : g # h => socks[g] # socks[h]
      /\ \A i \in DOMAIN toHost : toHost[i].op = "closed" =>
           /\ Spent(toHost[i].conn)
           /\ \A h \in Handles : socks[h] # toHost[i].conn
      /\ \A h \in Handles : socks[h] # None => socks[h] \in Objects
  BY Unlost DEF SpentInv, TypeOK, Sockets, Objects
\* Every slot holds what it held, nothing, or a newcomer of its own.
<1>2. PICK x \in Handles \cup {0}, v \in Objects \cup {None} :
        /\ \A h \in Handles : socks'[h] = IF h = x THEN v ELSE socks[h]
        /\ v # None => ~Spent(v) /\ Spent(v)'
  <2>1. 0 \notin Handles
    BY Names
  <2>2. CASE socks' = socks
    BY <2>1, <2>2
  <2>3. CASE \E x \in Handles : socks' = [socks EXCEPT ![x] = None]
    BY <2>3 DEF TypeOK
  <2>4. CASE \E x \in Handles, v \in Objects :
              socks[x] = None /\ socks' = [socks EXCEPT ![x] = v] /\ ~Spent(v) /\ Spent(v)'
    BY <2>4 DEF TypeOK
  <2>5. QED  BY <2>2, <2>3, <2>4, SocksStep
<1>3. ASSUME NEW h \in Handles, socks'[h] # None
      PROVE  Spent(socks[h])' /\ \A g \in Handles : g # h => socks'[g] # socks'[h]
  <2>1. CASE h = x
    <3>1. socks'[h] = v /\ Spent(v)' /\ ~Spent(v)
      BY <1>2, <1>3, <2>1
    <3>2. \A g \in Handles : g # h => socks'[g] # v
      BY <1>1, <1>2, <1>3, <2>1, <3>1
    <3>3. Spent(socks[h])'
      BY <3>1 DEF Spent
    <3>4. QED  BY <3>1, <3>2, <3>3
  <2>2. CASE h # x
    <3>1. socks'[h] = socks[h] /\ socks[h] \in Objects /\ Spent(socks[h])
      BY <1>1, <1>2, <1>3, <2>2
    <3>2. PICK o \in Objects : o = socks[h]
      BY <3>1
    <3>3. Spent(o)'
      BY <3>1, <3>2, SpentStays
    <3>4. \A g \in Handles : g # h => socks'[g] # o
      BY <1>1, <1>2, <1>3, <3>1, <3>2
    <3>5. socks'[h] = o
      BY <3>1, <3>2
    <3>6. QED  BY <3>3, <3>4, <3>5 DEF Spent
  <2>3. QED  BY <2>1, <2>2
<1>4. ASSUME NEW i \in DOMAIN toHost', toHost'[i].op = "closed"
      PROVE  Spent(toHost[i].conn)' /\ \A h \in Handles : socks'[h] # toHost'[i].conn
  <2>1. CASE \E f \in Frames : Sent(f) /\ toHost'[i] = f
    <3>1. PICK f \in Frames : Sent(f) /\ toHost'[i] = f
      BY <2>1
    <3>2. /\ f.h \in Handles /\ f.conn \in Objects /\ f.conn # None
          /\ socks[f.h] = f.conn /\ socks' = [socks EXCEPT ![f.h] = None]
      <4>1. f.op = "closed"
        BY <1>4, <3>1
      <4>2. ClosedSent(f)
        BY <3>1, <4>1 DEF Sent, DataSent, AcceptSent, RefusalSent, OpenedSent, ShutSent, Answer
      <4>3. QED  BY <4>1, <4>2, FrameFields, Names DEF ClosedSent
    <3>3. PICK o \in Objects : o = f.conn
      BY <3>2
    <3>4. Spent(o)'
      BY <1>1, <3>2, <3>3, SpentStays
    <3>5. \A h \in Handles : socks'[h] # o
      BY <1>1, <3>2, <3>3 DEF TypeOK
    <3>6. toHost'[i].conn = o
      BY <3>1, <3>3
    <3>7. QED  BY <3>4, <3>5, <3>6 DEF Spent
  <2>2. CASE \E k \in DOMAIN toHost : toHost'[i] = toHost[k]
    <3>1. PICK k \in DOMAIN toHost : toHost'[i] = toHost[k]
      BY <2>2
    <3>2. toHost[k].op = "closed" /\ toHost[k] \in Frames
      BY <1>4, <3>1 DEF TypeOK
    <3>3. PICK o \in Objects : o = toHost[k].conn
      BY <3>2, FrameFields, Names
    <3>4. Spent(o) /\ \A h \in Handles : socks[h] # o
      BY <1>1, <3>2, <3>3
    <3>5. Spent(o)'
      BY <3>4, SpentStays
    <3>6. \A h \in Handles : socks'[h] # o
      BY <1>2, <3>4, Names
    <3>7. toHost'[i].conn = o
      BY <3>1, <3>3
    <3>8. QED  BY <3>5, <3>6, <3>7 DEF Spent
  <2>3. QED  BY <1>4, <2>1, <2>2, FrameOrigin
<1>5. QED  BY <1>3, <1>4

-----------------------------------------------------------------------------
(* What is under way for one connection *)

LEMMA ApplicationQueue ==
  ASSUME TypeOK, PlaceInv, [Next]_vars, ~lostFrame', Application
  PROVE  toHost' = toHost /\ socks' = socks /\ raced' = raced
<1>1. ASSUME NEW r \in Requests, Submit(r) PROVE toHost' = toHost /\ raced' = raced
  BY <1>1, Unlost DEF Submit
<1>2. ASSUME NEW o \in Objects, Open(o) PROVE toHost' = toHost /\ raced' = raced
  BY <1>1, <1>2, AskFacts DEF Open
<1>3. ASSUME NEW o \in Objects, Close(o) PROVE toHost' = toHost /\ raced' = raced
  <2>1. CASE Submit([op |-> "close", who |-> o, h |-> handle[o]])
    <3>1. pc[o] = "use"
      BY <1>3 DEF Close
    <3>2. QED  BY <1>1, <2>1, <3>1, AskFacts
  <2>2. QED  BY <1>3, <2>1 DEF Close, ghosts, lostFrame
<1>4. ASSUME NEW c \in Conns, Ack(c) PROVE toHost' = toHost /\ raced' = raced
  BY <1>1, <1>4, AskFacts DEF Ack
<1>5. ASSUME NEW o \in Objects, Register(o) \/ Forget(o) PROVE toHost' = toHost /\ raced' = raced
  BY <1>5 DEF Register, Forget, ghosts, lostFrame
<1>6. ASSUME NEW c \in Conns, Recv(c) PROVE toHost' = toHost /\ raced' = raced
  BY <1>6 DEF Recv, ghosts, lostFrame
<1>7. toHost' = toHost /\ raced' = raced
  BY <1>2, <1>3, <1>4, <1>5, <1>6, Unlost DEF Application
<1>8. socks' = socks
  BY DEF Application, board, Open, Register, Recv, Ack, Close, Forget, Retry, GiveUp
<1>9. QED  BY <1>7, <1>8

LEMMA ReaderQueue ==
  ASSUME TypeOK, Reader
  PROVE  /\ toHost \in Seq(Frames) /\ toHost # <<>> /\ toHost' = Tail(toHost)
         /\ Head(toHost) = toHost[1] /\ 1 \in DOMAIN toHost /\ Head(toHost) \in Frames
         /\ \A i \in DOMAIN toHost' : i \in Nat /\ i + 1 \in DOMAIN toHost /\ toHost'[i] = toHost[i + 1]
         /\ \A i \in DOMAIN toHost : i = 1 \/ (i - 1 \in DOMAIN toHost' /\ toHost'[i - 1] = toHost[i])
         /\ socks' = socks /\ toBoard' = toBoard /\ raced \subseteq raced'
<1>1. toHost \in Seq(Frames) /\ toHost # <<>> /\ toHost' = Tail(toHost)
  BY DEF Reader, OnData, OnAccept, OnClosed, OnReply, Receiving, TypeOK
<1>2. socks' = socks /\ toBoard' = toBoard
  BY DEF Reader, OnData, OnAccept, OnClosed, OnReply, board
<1>3. raced \subseteq raced'
  BY DEF Reader, OnData, OnAccept, OnClosed, OnReply
<1>4. QED  BY <1>1, <1>2, <1>3, TailFacts

\* Who is closing does so until its answer comes.
LEMMA ClosingStays ==
  ASSUME TypeOK, CallInv, PlaceInv, AcceptInv, [Next]_vars, ~lostFrame', NEW o \in Objects, pc[o] = "closing",
         ~(Receiving("reply") /\ Head(toHost).who = o)
  PROVE  pc'[o] = "closing" /\ handle'[o] = handle[o]
<1>1. CASE Board
  BY <1>1, BoardCases DEF host
<1>2. CASE OnAccept
  <2>1. Head(toHost).conn # o
    BY <1>2, AcceptFacts
  <2>2. QED  BY <1>2, <2>1, AcceptFacts DEF TypeOK
<1>3. CASE OnReply
  <2>1. Head(toHost).who # o
    BY <1>3 DEF OnReply
  <2>2. QED  BY <1>3, <2>1, ReplyFacts
<1>4. ASSUME NEW p \in Objects, p # o, NEW to, pc' = [pc EXCEPT ![p] = to], handle' = handle
      PROVE  pc'[o] = "closing" /\ handle'[o] = handle[o]
  BY <1>4 DEF TypeOK
<1>5. ASSUME NEW p \in Objects, Open(p) \/ Register(p) \/ Close(p) \/ Forget(p)
      PROVE  pc'[o] = "closing" /\ handle'[o] = handle[o]
  <2>1. pc[p] \in {"new", "register", "use", "forget"} /\ handle' = handle
    BY <1>5 DEF Open, Register, Close, Forget
  <2>2. \E to \in {"opening", "use", "closing", "forget", "done"} : pc' = [pc EXCEPT ![p] = to]
    BY <1>5 DEF Open, Register, Close, Forget, Goto
  <2>3. p # o
    BY <2>1
  <2>4. QED  BY <1>4, <2>1, <2>2, <2>3
<1>6. CASE UNCHANGED <<pc, handle>>
  BY <1>6
<1>7. CASE Application
  BY <1>5, <1>6, <1>7, Unlost DEF Application, Recv, Ack
<1>8. QED
  BY <1>1, <1>2, <1>3, <1>6, <1>7 DEF Next, Done, Reader, OnData, OnClosed, vars, host

\* The closing socket that dooms c goes on doing so.
LEMMA DoomedStays ==
  ASSUME TypeOK, CallInv, PlaceInv, AcceptInv, [Next]_vars, ~lostFrame', NEW c, NEW h, NEW g \in Nat, NEW b \in {0, 1},
         Doomed(c, h, g + b),
         \A k \in DOMAIN toHost : k > g + b => k - b \in DOMAIN toHost' /\ toHost'[k - b] = toHost[k]
  PROVE  Doomed(c, h, g)'
<1>1. PICK o \in Objects \ {c} :
        /\ handle[o] = h /\ pc[o] = "closing"
        /\ \E k \in DOMAIN toHost : g + b < k /\ toHost[k].op = "reply" /\ toHost[k].who = o
  BY DEF Doomed
<1>2. PICK k \in DOMAIN toHost : g + b < k /\ toHost[k].op = "reply" /\ toHost[k].who = o
  BY <1>1
<1>3. k \in Int /\ toHost \in Seq(Frames)
  BY DEF TypeOK
<1>4. k - b \in DOMAIN toHost' /\ toHost'[k - b] = toHost[k] /\ g < k - b
  BY <1>2, <1>3
<1>5. ~(Receiving("reply") /\ Head(toHost).who = o)
  <2> SUFFICES ASSUME Receiving("reply"), Head(toHost).who = o PROVE FALSE
    OBVIOUS
  <2>1. toHost[1].who = o /\ 1 \in DOMAIN toHost
    BY ReceiveFacts, TailFacts
  <2>2. k = 1
    <3>1. CallOf(o)
      BY DEF CallInv
    <3>2. QED  BY <1>2, <2>1, <3>1 DEF CallOf
  <2>3. b = 0
    BY <1>2, <2>2
  <2>4. g < 1 /\ g = 0
    BY <1>2, <2>2, <2>3
  <2>5. toHost'[1] = toHost[1] /\ 1 \in DOMAIN toHost'
    BY <1>4, <2>2, <2>3
  <2>6. toHost'[1].who = o /\ toHost' = Tail(toHost) /\ toHost # <<>>
    BY <2>1, <2>5 DEF Receiving
  <2>7. Absent(Tail(toHost), o)
    <3>1. CallOf(o)
      BY DEF CallInv
    <3>2. QED  BY <1>3, <2>6, <3>1, AbsentAfter DEF CallOf
  <2>8. QED  BY <2>5, <2>6, <2>7 DEF Absent
<1>6. pc'[o] = "closing" /\ handle'[o] = handle[o]
  BY <1>1, <1>5, ClosingStays
<1>7. QED  BY <1>1, <1>2, <1>4, <1>6 DEF Doomed

\* A frame the board sends is foreign to no connection that has its slot, and
\* takes no slot from one without telling it, but for a close.
LEMMA SentFacts ==
  ASSUME TypeOK, NEW f \in Frames, Sent(f), NEW c \in Conns, NEW h \in Handles
  PROVE  /\ Foreign(f, c, h) => socks[h] # c
         /\ \/ socks[h] = c => socks'[h] = c \/ End(f, c, h)
            \/ ShutSent(f) /\ Head(toBoard).h = h
<1>1. c # None /\ h # 0 /\ socks \in [Handles -> Sockets]
  BY Names DEF TypeOK
<1>2. CASE DataSent(f)
  BY <1>2 DEF DataSent, Foreign
<1>3. CASE ClosedSent(f)
  <2>1. f.op = "closed" /\ socks[f.h] = f.conn /\ socks' = [socks EXCEPT ![f.h] = None]
    BY <1>3 DEF ClosedSent
  <2>2. Foreign(f, c, h) => socks[h] # c
    BY <2>1 DEF Foreign
  <2>3. socks[h] = c => socks'[h] = c \/ End(f, c, h)
    BY <1>1, <2>1 DEF End
  <2>4. QED  BY <2>2, <2>3
<1>4. CASE AcceptSent(f)
  <2>1. f.op = "accept" /\ socks[f.new] = None /\ socks' = [socks EXCEPT ![f.new] = f.conn]
    BY <1>4 DEF AcceptSent
  <2>2. QED  BY <1>1, <2>1 DEF Foreign
<1>5. CASE RefusalSent(f)
  BY <1>5 DEF RefusalSent, Answer, Foreign
<1>6. CASE OpenedSent(f)
  <2>1. f.op = "reply" /\ socks[f.h] = None /\ socks' = [socks EXCEPT ![f.h] = Head(toBoard).obj]
    BY <1>6 DEF OpenedSent, Answer
  <2>2. QED  BY <1>1, <2>1 DEF Foreign
<1>7. CASE ShutSent(f)
  <2>1. f.op = "reply" /\ f.h = 0 /\ socks' = [socks EXCEPT ![Head(toBoard).h] = None]
    BY <1>7 DEF ShutSent, Answer
  <2>2. Foreign(f, c, h) => socks[h] # c
    BY <1>1, <2>1 DEF Foreign
  <2>3. Head(toBoard).h # h => socks'[h] = socks[h]
    BY <1>1, <2>1
  <2>4. QED  BY <1>7, <2>2, <2>3
<1>8. QED  BY <1>2, <1>3, <1>4, <1>5, <1>6, <1>7 DEF Sent

\* Who asked for what is closed, or opened.
LEMMA AskedBy ==
  ASSUME TypeOK, CallInv, ~lostFrame, NEW op \in {"open", "close"}, Taking(op)
  PROVE  LET r == Head(toBoard) IN
         /\ r \in Requests /\ r.op = op /\ r.who \in Objects /\ Absent(toHost, r.who)
         /\ op = "open" => r.obj = r.who
         /\ op = "close" => r.h = handle[r.who] /\ pc[r.who] = "closing"
<1> DEFINE r == Head(toBoard)
<1>1. r \in Requests /\ r.op = op /\ r = toBoard[1] /\ 1 \in DOMAIN toBoard
  BY TakeFacts, TailFacts
<1> HIDE DEF r
<1>2. r.who # None
  BY <1>1 DEF CallInv, NamedInv
<1>3. r.who \in Objects
  BY <1>1, <1>2, RequestFields
<1>4. PICK o \in Objects : o = r.who
  BY <1>3
<1>5. CallOf(o) /\ toBoard[1].who = o
  BY <1>1, <1>4 DEF CallInv
<1>6. Absent(toHost, o) /\ (op = "open" => r.obj = o) /\ (op = "close" => r.h = handle[o] /\ pc[o] = "closing")
  BY <1>1, <1>5 DEF CallOf, Absent
<1>7. QED  BY <1>1, <1>4, <1>6 DEF r

LEMMA GrantBoard ==
  ASSUME TypeOK, CallInv, PlaceInv, AcceptInv, GrantInv, [Next]_vars, ~lostFrame', Board,
         NEW c \in Conns, NEW h \in Handles, NEW g \in DOMAIN toHost', Grant(toHost'[g], c, h)
  PROVE  Doomed(c, h, g)' \/ Chain(socks, toHost, c, h, g)'
<1>1. toHost \in Seq(Frames) /\ ~lostFrame /\ c # None /\ h # 0 /\ c \in Objects
  BY Unlost, Names DEF TypeOK
<1>2. \A k \in DOMAIN toHost : Grant(toHost[k], c, h) => Doomed(c, h, k) \/ Chain(socks, toHost, c, h, k)
  BY <1>1 DEF GrantInv
<1>3. CASE Silent
  <2>1. toHost' = toHost /\ socks' = socks /\ pc' = pc /\ handle' = handle
    BY <1>3, BoardCases DEF Silent, host
  <2>2. Doomed(c, h, g) \/ Chain(socks, toHost, c, h, g)
    BY <1>2, <2>1
  <2>3. Doomed(c, h, g) => Doomed(c, h, g)'
    BY <2>1 DEF Doomed
  <2>4. Chain(socks, toHost, c, h, g) => Chain(socks, toHost, c, h, g)'
    BY <2>1 DEF Chain
  <2>5. QED  BY <2>2, <2>3, <2>4
<1>4. ASSUME NEW f \in Frames, Sent(f)
      PROVE  Doomed(c, h, g)' \/ Chain(socks, toHost, c, h, g)'
  <2>1. toHost' = Append(toHost, f)
    BY <1>4, Unlost
  <2>2. /\ Len(toHost) \in Nat /\ DOMAIN toHost = 1 .. Len(toHost) /\ DOMAIN toHost' = 1 .. (Len(toHost) + 1)
        /\ \A i \in DOMAIN toHost : i \in DOMAIN toHost' /\ toHost'[i] = toHost[i]
        /\ toHost'[Len(toHost) + 1] = f /\ (g = Len(toHost) + 1 \/ g \in DOMAIN toHost)
        /\ Len(toHost') = Len(toHost) + 1
    BY <1>1, <2>1, AppendFacts
  <2>3. CASE g = Len(toHost) + 1
    <3>1. Grant(f, c, h)
      BY <2>2, <2>3
    <3>2. socks'[h] = c
      <4>1. CASE AcceptSent(f)
        BY <1>1, <3>1, <4>1 DEF AcceptSent, Grant, TypeOK
      <4>2. CASE OpenedSent(f)
        <5>1. Taking("open") /\ f.op = "reply" /\ f.who = Head(toBoard).who
              /\ socks' = [socks EXCEPT ![f.h] = Head(toBoard).obj]
          BY <4>2 DEF OpenedSent, Answer
        <5>2. Head(toBoard).obj = Head(toBoard).who
          BY <1>1, <5>1, AskedBy
        <5>3. f.h = h /\ f.who = c
          BY <3>1, <5>1 DEF Grant
        <5>4. QED  BY <5>1, <5>2, <5>3 DEF TypeOK
      <4>3. ~DataSent(f) /\ ~ClosedSent(f) /\ ~RefusalSent(f) /\ ~ShutSent(f)
        BY <1>1, <3>1 DEF Grant, DataSent, ClosedSent, RefusalSent, ShutSent, Answer
      <4>4. QED  BY <1>4, <4>1, <4>2, <4>3 DEF Sent
    <3>3. \A j \in DOMAIN toHost' : ~(g < j)
      BY <2>2, <2>3
    <3>4. QED  BY <3>2, <3>3 DEF Chain
  <2>4. CASE g \in DOMAIN toHost
    <3>1. Grant(toHost[g], c, h) /\ g \in Nat /\ g <= Len(toHost)
      BY <2>2, <2>4
    <3>2. CASE Doomed(c, h, g)
      <4>1. Doomed(c, h, g + 0)
        BY <3>1, <3>2
      <4>2. \A k \in DOMAIN toHost : k > g + 0 => k - 0 \in DOMAIN toHost' /\ toHost'[k - 0] = toHost[k]
        <5>1. \A k \in DOMAIN toHost : k - 0 = k
          BY <2>2
        <5>2. QED  BY <2>2, <5>1
      <4>3. QED  BY <3>1, <4>1, <4>2, DoomedStays
    <3>3. CASE Chain(socks, toHost, c, h, g) /\ (socks[h] = c => socks'[h] = c \/ End(f, c, h))
      <4>1. Foreign(f, c, h) => socks[h] # c
        BY <1>4, SentFacts
      <4>2. Chain(socks', Append(toHost, f), c, h, g)
        BY <1>1, <3>1, <3>3, <4>1, PushChain
      <4>3. QED  BY <2>1, <4>2
    <3>4. CASE ShutSent(f) /\ Head(toBoard).h = h
      <4>1. Taking("close") /\ f.op = "reply" /\ f.who = Head(toBoard).who
        BY <3>4 DEF ShutSent, Answer
      <4>2. PICK o \in Objects : o = Head(toBoard).who /\ Absent(toHost, o) /\ handle[o] = h /\ pc[o] = "closing"
        BY <1>1, <3>4, <4>1, AskedBy
      <4>3. o # c
        <5>1. toHost[g].op = "accept" => pc[c] = "new"
          BY <2>4, <3>1 DEF AcceptInv, Grant
        <5>2. toHost[g].op # "accept" => toHost[g].who = c
          BY <3>1 DEF Grant
        <5>3. QED  BY <2>4, <4>2, <5>1, <5>2 DEF Absent
      <4>4. /\ handle'[o] = h /\ pc'[o] = "closing"
            /\ Len(toHost) + 1 \in DOMAIN toHost' /\ g < Len(toHost) + 1
            /\ toHost'[Len(toHost) + 1].op = "reply" /\ toHost'[Len(toHost) + 1].who = o
        BY <2>2, <3>1, <4>1, <4>2, BoardCases DEF host
      <4>5. QED  BY <4>3, <4>4 DEF Doomed
    <3>5. QED  BY <1>2, <1>4, <2>4, <3>1, <3>2, <3>3, <3>4, SentFacts
  <2>5. QED  BY <2>2, <2>3, <2>4
<1>5. QED  BY <1>3, <1>4, BoardCases

LEMMA GrantStep ==
  ASSUME TypeOK, CallInv, PlaceInv, AcceptInv, GrantInv, [Next]_vars
  PROVE  GrantInv'
<1> SUFFICES ASSUME ~lostFrame', NEW c \in Conns, NEW h \in Handles, NEW g \in DOMAIN toHost', Grant(toHost'[g], c, h)
             PROVE  Doomed(c, h, g)' \/ Chain(socks, toHost, c, h, g)'
  BY DEF GrantInv
<1>1. toHost \in Seq(Frames) /\ ~lostFrame
  BY Unlost DEF TypeOK
<1>2. \A k \in DOMAIN toHost : Grant(toHost[k], c, h) => Doomed(c, h, k) \/ Chain(socks, toHost, c, h, k)
  BY <1>1 DEF GrantInv
<1>3. CASE Reader
  <2>1. /\ toHost # <<>> /\ toHost' = Tail(toHost) /\ socks' = socks
        /\ g \in Nat /\ g + 1 \in DOMAIN toHost /\ toHost'[g] = toHost[g + 1]
        /\ \A i \in DOMAIN toHost : i = 1 \/ (i - 1 \in DOMAIN toHost' /\ toHost'[i - 1] = toHost[i])
    BY <1>3, ReaderQueue
  <2>2. CASE Doomed(c, h, g + 1)
    <3>1. \A k \in DOMAIN toHost : k > g + 1 => k - 1 \in DOMAIN toHost' /\ toHost'[k - 1] = toHost[k]
      BY <2>1
    <3>2. QED  BY <2>1, <2>2, <3>1, DoomedStays
  <2>3. CASE Chain(socks, toHost, c, h, g + 1)
    <3>1. Chain(socks, Tail(toHost), c, h, g)
      BY <1>1, <2>1, <2>3, PopChain
    <3>2. QED  BY <2>1, <3>1
  <2>4. QED  BY <1>2, <2>1, <2>2, <2>3
<1>4. CASE toHost' = toHost /\ socks' = socks
  <2>1. g \in Nat /\ g \in DOMAIN toHost /\ Grant(toHost[g], c, h)
    BY <1>1, <1>4
  <2>2. CASE Doomed(c, h, g)
    <3>1. Doomed(c, h, g + 0)
      BY <2>1, <2>2
    <3>2. \A k \in DOMAIN toHost : k > g + 0 => k - 0 \in DOMAIN toHost' /\ toHost'[k - 0] = toHost[k]
      <4>1. \A k \in DOMAIN toHost : k - 0 = k
        BY <1>1
      <4>2. QED  BY <1>4, <4>1
    <3>3. QED  BY <2>1, <3>1, <3>2, DoomedStays
  <2>3. CASE Chain(socks, toHost, c, h, g)
    BY <1>4, <2>3
  <2>4. QED  BY <1>2, <2>1, <2>2, <2>3
<1>5. CASE Board
  BY <1>5, GrantBoard
<1>6. CASE UNCHANGED vars
  BY <1>4, <1>6 DEF vars, board
<1>7. CASE Application
  BY <1>4, <1>7, ApplicationQueue
<1>8. QED  BY <1>3, <1>5, <1>6, <1>7 DEF Next, Done

-----------------------------------------------------------------------------
(* A socket in use has its handle to itself *)

LEMMA LivePop ==
  ASSUME TypeOK, Reader, NEW c \in Conns, LiveOf(c)
  PROVE  /\ ~Foreign(Head(toHost), c, handle[c])
         /\ ~End(Head(toHost), c, handle[c]) => Chain(socks', toHost', c, handle[c], 0)
<1>1. toHost \in Seq(Frames) /\ toHost # <<>> /\ toHost' = Tail(toHost) /\ socks' = socks
  BY ReaderQueue
<1>2. Chain(socks, toHost, c, handle[c], 0)
  BY DEF LiveOf
<1>3. QED  BY <1>1, <1>2, HeadChain

\* Whoever is given a handle that nobody holds has it to itself.
LEMMA LiveNew ==
  ASSUME TypeOK, GrantInv, ~lostFrame, Reader, NEW c \in Conns, NEW h \in Handles,
         Grant(Head(toHost), c, h), Holders(h) = {}
  PROVE  /\ Chain(socks', toHost', c, h, 0)
         /\ \A o \in Objects : handle[o] = h => pc[o] = "done"
<1>1. /\ toHost \in Seq(Frames) /\ toHost # <<>> /\ toHost' = Tail(toHost) /\ socks' = socks
      /\ Head(toHost) = toHost[1] /\ 1 \in DOMAIN toHost
  BY ReaderQueue
<1>2. \A o \in Objects : handle[o] = h => pc[o] = "done"
  BY DEF Holders
<1>3. ~Doomed(c, h, 1)
  BY <1>2 DEF Doomed
<1>4. Chain(socks, toHost, c, h, 0 + 1)
  BY <1>1, <1>3 DEF GrantInv
<1>5. Chain(socks, Tail(toHost), c, h, 0)
  BY <1>1, <1>4, PopChain
<1>6. QED  BY <1>1, <1>2, <1>5

LEMMA ConcatFacts ==
  ASSUME NEW S, NEW s \in Seq(S), NEW t \in Seq(S), NEW i \in DOMAIN (s \o t)
  PROVE  (i \in DOMAIN s /\ (s \o t)[i] = s[i]) \/ (i - Len(s) \in DOMAIN t /\ (s \o t)[i] = t[i - Len(s)])
  OBVIOUS

LEMMA LiveBoard ==
  ASSUME TypeOK, CallInv, PlaceInv, AcceptInv, LiveInv, [Next]_vars, ~lostFrame', Board,
         NEW c \in Conns \ raced, Live(c)'
  PROVE  LiveOf(c)'
<1>1. toHost \in Seq(Frames) /\ ~lostFrame /\ UNCHANGED <<sockets, pc, handle, open, fed>>
  BY Unlost, BoardCases DEF TypeOK, host
<1>2. Live(c)
  BY <1>1 DEF Live
<1>3. LiveOf(c)
  BY <1>1, <1>2 DEF LiveInv
<1>4. ASSUME Chain(socks', toHost', c, handle[c], 0) PROVE LiveOf(c)'
  BY <1>1, <1>3, <1>4 DEF LiveOf
<1>5. handle[c] \in Handles
  BY <1>2, Names DEF PlaceInv, TypeOK, Live
<1>6. CASE Silent
  BY <1>3, <1>4, <1>6 DEF Silent, LiveOf
<1>7. ASSUME NEW f \in Frames, Sent(f) PROVE LiveOf(c)'
  <2> DEFINE h == handle[c]
  <2>1. Foreign(f, c, h) => socks[h] # c
    BY <1>5, <1>7, SentFacts
  <2>2. CASE socks[h] = c => socks'[h] = c \/ End(f, c, h)
    <3>1. Chain(socks, toHost, c, h, 0) /\ 0 \in Nat /\ 0 <= Len(toHost)
      BY <1>1, <1>3 DEF LiveOf
    <3>2. Chain(socks', Append(toHost, f), c, h, 0)
      BY <1>1, <2>1, <2>2, <3>1, PushChain
    <3>3. toHost' = Append(toHost, f)
      BY <1>7, Unlost
    <3>4. QED  BY <1>4, <3>2, <3>3
  <2>3. CASE ShutSent(f) /\ Head(toBoard).h = h
    <3>1. Taking("close")
      BY <2>3 DEF ShutSent, Answer
    <3>2. PICK o \in Objects : handle[o] = h /\ pc[o] = "closing"
      BY <1>1, <2>3, <3>1, AskedBy
    <3>3. o = c
      BY <1>3, <3>2 DEF LiveOf
    <3>4. QED  BY <1>2, <3>2, <3>3 DEF Live
  <2>4. QED  BY <1>5, <1>7, <2>2, <2>3, SentFacts
<1>8. QED  BY <1>6, <1>7, BoardCases

LEMMA LiveReader ==
  ASSUME TypeOK, SizeInv, CallInv, PlaceInv, AcceptInv, GrantInv, LiveInv, ~lostFrame, Reader,
         NEW c \in Conns \ raced', Live(c)'
  PROVE  LiveOf(c)'
<1> DEFINE e == Head(toHost)
           h == handle[c]
<1>1. e \in Frames /\ raced \subseteq raced' /\ c \in Objects /\ c # None
  BY ReaderQueue, Names
<1>2. Live(c) => LiveOf(c) /\ h \in Handles
  BY <1>1 DEF LiveInv, PlaceInv, TypeOK, Live
<1>3. CASE OnData
  <2>1. UNCHANGED <<sockets, pc, handle, open>> /\ e.op = "data" /\ raced' = raced \cup TooEarlyFor(e.h)
    BY <1>3 DEF OnData, Receiving
  <2>2. Live(c)
    BY <2>1 DEF Live
  <2>3. Chain(socks', toHost', c, h, 0) /\ ~Foreign(e, c, h)
    BY <1>2, <2>1, <2>2, LivePop DEF End
  <2>4. \A i \in DOMAIN fed'[c] : fed'[c][i][1] = c
    <3> DEFINE bytes == BytesOf(e)
    <3>1. fed'[c] = IF c \in Registered(e.h) THEN fed[c] \o bytes ELSE fed[c]
      BY <1>3 DEF OnData, BytesOf
    <3>2. bytes \in Seq(Byte) /\ \A i \in DOMAIN bytes : bytes[i][1] = e.conn
      BY <1>3, DataBytes
    <3>3. fed[c] \in Seq(Byte) /\ \A i \in DOMAIN fed[c] : fed[c][i][1] = c
      BY <1>2, <2>2 DEF LiveOf, TypeOK
    <3>4. CASE c \in Registered(e.h)
      <4>1. sockets[e.h] = c /\ e.h \in Handles
        BY <1>1, <2>1, <3>4, FrameFields DEF Registered
      <4>2. e.h = h
        BY <1>1, <4>1 DEF PlaceInv
      <4>3. e.conn = c
        BY <2>1, <2>3, <4>2 DEF Foreign
      <4> HIDE DEF bytes
      <4>4. \A i \in DOMAIN (fed[c] \o bytes) : (fed[c] \o bytes)[i][1] = c
        BY <3>2, <3>3, <4>3, ConcatFacts
      <4>5. QED  BY <3>1, <3>4, <4>4
    <3>5. QED  BY <3>1, <3>3, <3>4
  <2>5. QED  BY <1>2, <2>1, <2>2, <2>3, <2>4 DEF LiveOf
<1>4. CASE OnClosed
  <2>1. /\ UNCHANGED <<sockets, pc, handle, fed>> /\ e.op = "closed" /\ raced' = raced \cup TooEarlyFor(e.h)
        /\ open'[c] = (open[c] /\ c \notin Registered(e.h))
    BY <1>4 DEF OnClosed, Receiving
  <2>2. Live(c) /\ (pc[c] = "use" => c \notin Registered(e.h))
    BY <2>1 DEF Live
  <2>3. ~End(e, c, h)
    <3> SUFFICES ASSUME e.h = h PROVE FALSE
      BY DEF End
    <3>1. CASE pc[c] = "register"
      BY <2>1, <3>1 DEF TooEarlyFor
    <3>2. CASE pc[c] = "use"
      BY <1>2, <2>2, <3>2 DEF LiveOf, Registered
    <3>3. QED  BY <2>2, <3>1, <3>2 DEF Live
  <2>4. Chain(socks', toHost', c, h, 0)
    BY <1>2, <2>2, <2>3, LivePop
  <2>5. QED  BY <1>2, <2>1, <2>2, <2>4 DEF LiveOf
<1>5. CASE OnAccept
  <2> DEFINE a == e.conn
             x == e.new
  <2>1. /\ e.op = "accept" /\ a \in Conns /\ a \in Objects /\ pc[a] = "new" /\ x \in Handles /\ fed' = fed
        /\ \/ /\ sockets' = [sockets EXCEPT ![x] = a]
              /\ handle' = [handle EXCEPT ![a] = x]
              /\ open' = [open EXCEPT ![a] = TRUE]
              /\ pc' = [pc EXCEPT ![a] = "use"]
              /\ Holders(x) # {} => a \in raced'
           \/ a \in raced' /\ UNCHANGED <<sockets, handle, open, pc>>
    BY <1>5, AcceptFacts
  <2> HIDE DEF a, x
  <2>2. ~End(e, c, h)
    BY <2>1 DEF End
  <2>3. CASE c # a
    <3>1. pc'[c] = pc[c] /\ open'[c] = open[c] /\ handle'[c] = handle[c]
      BY <1>1, <2>1, <2>3 DEF TypeOK
    <3>2. Live(c)
      BY <3>1 DEF Live
    <3>3. Chain(socks', toHost', c, h, 0) /\ ~Foreign(e, c, h)
      BY <1>2, <2>2, <3>2, LivePop
    <3>4. x # h
      BY <2>1, <2>3, <3>3 DEF Foreign, a, x
    <3>5. \A o \in Objects \ {c} : handle'[o] = h => pc'[o] = "done"
      <4>1. \A o \in Objects \ {c} : handle[o] = h => pc[o] = "done"
        BY <1>2, <3>2 DEF LiveOf
      <4>2. QED  BY <2>1, <3>4, <4>1 DEF TypeOK
    <3>6. pc'[c] = "use" => sockets'[h] = c
      <4>1. pc[c] = "use" => sockets[h] = c
        BY <1>2, <3>2 DEF LiveOf
      <4>2. sockets'[h] = sockets[h]
        <5>1. h \in Handles /\ sockets \in [Handles -> Sockets]
          BY <1>2, <3>2 DEF TypeOK
        <5>2. QED  BY <2>1, <3>4, <5>1
      <4>3. QED  BY <3>1, <4>1, <4>2
    <3>7. QED  BY <1>2, <2>1, <3>1, <3>2, <3>3, <3>5, <3>6 DEF LiveOf
  <2>4. CASE c = a
    <3>1. ~Live(c)
      BY <2>1, <2>4 DEF Live
    <3>2. ~(UNCHANGED <<open, pc>>)
      BY <3>1 DEF Live
    <3>3. /\ sockets'[x] = c /\ handle'[c] = x /\ Holders(x) = {}
          /\ \A o \in Objects \ {c} : handle'[o] = handle[o] /\ pc'[o] = pc[o]
      BY <1>1, <2>1, <2>4, <3>2 DEF TypeOK
    <3>4. Grant(e, c, x)
      BY <2>1, <2>4 DEF Grant, a, x
    <3>5. Chain(socks', toHost', c, x, 0) /\ \A o \in Objects : handle[o] = x => pc[o] = "done"
      BY <2>1, <3>3, <3>4, LiveNew
    <3>6. fed'[c] = <<>>
      BY <2>1, <2>4 DEF PlaceInv
    <3>7. \A i \in DOMAIN fed'[c] : fed'[c][i][1] = c
      BY <3>6
    <3>8. QED  BY <3>3, <3>5, <3>7 DEF LiveOf
  <2>5. QED  BY <2>3, <2>4
<1>6. CASE OnReply
  <2> DEFINE w == e.who
  <2>1. /\ e.op = "reply"
        /\ \A o \in Objects : o # w => pc'[o] = pc[o] /\ handle'[o] = handle[o]
        /\ w \in Objects =>
              \/ pc[w] = "closing" /\ pc'[w] = "forget" /\ handle'[w] = handle[w]
              \/ /\ pc[w] = "opening" /\ e.ok /\ e.h \in Handles
                 /\ pc'[w] = "register" /\ handle'[w] = e.h
              \/ pc[w] = "opening" /\ pc'[w] = "done" /\ handle'[w] = handle[w]
        /\ UNCHANGED <<sockets, open, fed>>
    BY <1>6, ReplyFacts
  <2> HIDE DEF w
  <2>2. ~End(e, c, h)
    BY <2>1 DEF End
  <2>3. CASE c # w
    <3>1. pc'[c] = pc[c] /\ open'[c] = open[c] /\ handle'[c] = handle[c]
      BY <1>1, <2>1, <2>3
    <3>2. Live(c)
      BY <3>1 DEF Live
    <3>3. Chain(socks', toHost', c, h, 0) /\ ~Foreign(e, c, h)
      BY <1>2, <2>2, <3>2, LivePop
    <3>4. \A o \in Objects \ {c} : handle[o] = h => pc[o] = "done"
      BY <1>2, <3>2 DEF LiveOf
    <3>5. \A o \in Objects \ {c} : handle'[o] = h => pc'[o] = "done"
      <4> SUFFICES ASSUME NEW o \in Objects \ {c}, handle'[o] = h PROVE pc'[o] = "done"
        OBVIOUS
      <4>1. CASE o # w
        BY <2>1, <3>4, <4>1
      <4>2. CASE o = w /\ handle'[w] = handle[w]
        BY <2>1, <3>4, <4>2
      <4>3. CASE o = w /\ e.ok /\ handle'[w] = e.h
        BY <2>1, <2>3, <3>3, <4>3 DEF Foreign, w
      <4>4. QED  BY <2>1, <4>1, <4>2, <4>3
    <3>6. QED  BY <1>2, <2>1, <3>1, <3>2, <3>3, <3>5 DEF LiveOf
  <2>4. CASE c = w
    <3>1. pc[c] = "opening" /\ e.ok /\ e.h \in Handles /\ pc'[c] = "register" /\ handle'[c] = e.h
      BY <1>1, <2>1, <2>4 DEF Live
    <3>2. raced' = IF e.ok /\ Holders(e.h) # {} THEN raced \cup ({e.who} \cap Conns) ELSE raced
      BY <1>6 DEF OnReply
    <3>3. Holders(e.h) = {}
      BY <2>4, <3>1, <3>2 DEF w
    <3>4. Grant(e, c, e.h)
      BY <2>1, <2>4, <3>1 DEF Grant, w
    <3>5. Chain(socks', toHost', c, e.h, 0) /\ \A o \in Objects : handle[o] = e.h => pc[o] = "done"
      BY <3>1, <3>3, <3>4, LiveNew
    <3>6. fed'[c] = <<>>
      BY <2>1, <3>1 DEF PlaceInv
    <3>7. \A i \in DOMAIN fed'[c] : fed'[c][i][1] = c
      BY <3>6
    <3>8. QED  BY <2>1, <2>4, <3>1, <3>5, <3>7 DEF LiveOf
  <2>5. QED  BY <2>3, <2>4
<1>7. QED  BY <1>3, <1>4, <1>5, <1>6 DEF Reader

LEMMA LiveApplication ==
  ASSUME TypeOK, PlaceInv, LiveInv, [Next]_vars, ~lostFrame', Application,
         NEW c \in Conns \ raced', Live(c)'
  PROVE  LiveOf(c)'
<1> DEFINE h == handle[c]
<1>1. ~lostFrame /\ toHost' = toHost /\ socks' = socks /\ raced' = raced /\ c \in Objects
  BY Unlost, ApplicationQueue, Names
<1>2. Live(c) => LiveOf(c) /\ h \in Handles /\ h # 0
  BY <1>1 DEF LiveInv, PlaceInv, TypeOK, Live
\* An object other than c goes on, or c does so and stays live.
<1>3. ASSUME Live(c), handle' = handle, fed' = fed, sockets'[h] = sockets[h] \/ sockets'[h] = c,
             pc'[c] = "use" => pc[c] = "use" \/ sockets'[h] = c,
             \A o \in Objects \ {c} : handle[o] = h /\ pc[o] = "done" => pc'[o] = "done"
      PROVE  LiveOf(c)'
  BY <1>1, <1>2, <1>3 DEF LiveOf
<1>4. ASSUME NEW o \in Objects \ {c}, pc[o] # "done", NEW to, pc' = [pc EXCEPT ![o] = to], handle' = handle, fed' = fed,
             open'[c] = open[c],
             sockets' = sockets \/ \E v : sockets' = [sockets EXCEPT ![handle[o]] = v]
      PROVE  LiveOf(c)'
  <2>1. pc'[c] = pc[c] /\ \A p \in Objects \ {o} : pc'[p] = pc[p]
    BY <1>1, <1>4 DEF TypeOK
  <2>2. Live(c)
    BY <1>4, <2>1 DEF Live
  <2>3. handle[o] # h
    BY <1>2, <1>4, <2>2 DEF LiveOf
  <2>4. sockets'[h] = sockets[h]
    <3>1. h \in Handles /\ sockets \in [Handles -> Sockets]
      BY <1>2, <2>2 DEF TypeOK
    <3>2. QED  BY <1>4, <2>3, <3>1
  <2>5. QED  BY <1>3, <1>4, <2>1, <2>2, <2>3, <2>4
<1>5. ASSUME NEW o \in Objects, Open(o) PROVE LiveOf(c)'
  <2>1. /\ pc[o] = "new" /\ pc' = [pc EXCEPT ![o] = "opening"]
        /\ handle' = handle /\ fed' = fed /\ open' = open /\ sockets' = sockets
    BY <1>5 DEF Open, Goto
  <2>2. o # c
    BY <1>1, <2>1 DEF Live, TypeOK
  <2>3. QED  BY <1>4, <2>1, <2>2
<1>6. ASSUME NEW o \in Objects, Register(o) PROVE LiveOf(c)'
  <2>1. /\ pc[o] = "register" /\ pc' = [pc EXCEPT ![o] = "use"]
        /\ handle' = handle /\ fed' = fed /\ sockets' = [sockets EXCEPT ![handle[o]] = o]
        /\ (o # c => open'[c] = open[c])
    <3>1. open' = [d \in Conns |-> open[d] \/ d = o]
      BY <1>6 DEF Register
    <3>2. o # c => open'[c] = open[c]
      BY <3>1 DEF TypeOK
    <3>3. QED  BY <1>6, <3>2 DEF Register, Goto
  <2>2. CASE o # c
    BY <1>4, <2>1, <2>2
  <2>3. CASE o = c
    <3>1. Live(c)
      BY <2>1, <2>3 DEF Live
    <3>2. sockets'[h] = c
      BY <1>2, <2>1, <2>3, <3>1 DEF TypeOK
    <3>3. \A p \in Objects \ {c} : pc'[p] = pc[p]
      BY <2>1, <2>3 DEF TypeOK
    <3>4. QED  BY <1>3, <2>1, <3>1, <3>2, <3>3
  <2>4. QED  BY <2>2, <2>3
<1>7. ASSUME NEW o \in Objects, Close(o) PROVE LiveOf(c)'
  <2>1. /\ pc[o] = "use" /\ handle' = handle /\ fed' = fed /\ sockets' = sockets
        /\ \/ pc' = [pc EXCEPT ![o] = "closing"] /\ open' = [d \in Conns |-> open[d] /\ d # o]
           \/ pc' = [pc EXCEPT ![o] = "forget"] /\ open' = open
    BY <1>7 DEF Close, Goto
  <2>2. o # c
    BY <1>1, <2>1 DEF Live, TypeOK
  <2>3. CASE pc' = [pc EXCEPT ![o] = "closing"] /\ open' = [d \in Conns |-> open[d] /\ d # o]
    <3>1. open'[c] = open[c]
      BY <2>2, <2>3 DEF TypeOK
    <3>2. QED  BY <1>4, <2>1, <2>2, <2>3, <3>1
  <2>4. CASE pc' = [pc EXCEPT ![o] = "forget"] /\ open' = open
    BY <1>4, <2>1, <2>2, <2>4
  <2>5. QED  BY <2>1, <2>3, <2>4
<1>8. ASSUME NEW o \in Objects, Forget(o) PROVE LiveOf(c)'
  <2>1. /\ pc[o] = "forget" /\ pc' = [pc EXCEPT ![o] = "done"]
        /\ handle' = handle /\ fed' = fed /\ open' = open /\ sockets' = [sockets EXCEPT ![handle[o]] = None]
    BY <1>8 DEF Forget, Goto
  <2>2. o # c
    BY <1>1, <2>1 DEF Live, TypeOK
  <2>3. QED  BY <1>4, <2>1, <2>2
<1>9. ASSUME UNCHANGED <<sockets, pc, handle, open, fed>> PROVE LiveOf(c)'
  <2>1. Live(c)
    BY <1>9 DEF Live
  <2>2. QED  BY <1>3, <1>9, <2>1
<1>10. ASSUME NEW d \in Conns, Recv(d) \/ Ack(d) PROVE LiveOf(c)'
  BY <1>9, <1>10 DEF Recv, Ack
<1>11. QED  BY <1>5, <1>6, <1>7, <1>8, <1>10, Unlost DEF Application

LEMMA LiveStep ==
  ASSUME TypeOK, SizeInv, CallInv, PlaceInv, AcceptInv, GrantInv, LiveInv, [Next]_vars
  PROVE  LiveInv'
<1> SUFFICES ASSUME ~lostFrame', NEW c \in Conns \ raced', Live(c)'
             PROVE  LiveOf(c)'
  BY DEF LiveInv
<1>1. ~lostFrame
  BY Unlost
<1>2. CASE Board
  <2>1. c \in Conns \ raced
    <3>1. Silent => raced' = raced
      BY DEF Silent, ghosts, lostFrame
    <3>2. ASSUME NEW f \in Frames, Sent(f) PROVE raced' = raced
      BY <3>2, EmitFacts DEF Sent
    <3>3. QED  BY <1>2, <3>1, <3>2, BoardCases
  <2>2. QED  BY <1>2, <2>1, LiveBoard
<1>3. CASE Reader
  BY <1>1, <1>3, LiveReader
<1>4. CASE Application
  BY <1>4, LiveApplication
<1>5. CASE UNCHANGED vars
  <2>1. Live(c) /\ c \in Conns \ raced
    BY <1>5 DEF vars, host, ghosts, lostFrame, Live
  <2>2. LiveOf(c)
    BY <1>1, <2>1 DEF LiveInv
  <2>3. QED  BY <1>5, <2>2 DEF vars, board, host, LiveOf, Chain
<1>6. QED  BY <1>2, <1>3, <1>4, <1>5 DEF Next, Done

-----------------------------------------------------------------------------
(* A slot's connection has a socket that can close it, or will have *)

OwnerOf(c, h) ==
  \/ \E i \in DOMAIN toHost : Grant(toHost[i], c, h)
  \/ handle[c] = h /\ Live(c)
  \/ handle[c] = h /\ pc[c] = "closing" /\ \E i \in DOMAIN toBoard : Closing(toBoard[i], c)

LEMMA OwnerMeans == OwnerInv <=> (~lostFrame => \A c \in Conns \ raced, h \in Handles : socks[h] = c => OwnerOf(c, h))
  BY DEF OwnerInv, OwnerOf

LEMMA OwnerBoard ==
  ASSUME TypeOK, CallInv, PlaceInv, AcceptInv, OwnerInv, [Next]_vars, ~lostFrame', Board,
         NEW c \in Conns \ raced, NEW h \in Handles, socks'[h] = c
  PROVE  OwnerOf(c, h)'
<1>1. /\ ~lostFrame /\ toHost \in Seq(Frames) /\ toBoard \in Seq(Requests) /\ c \in Objects /\ c # None
      /\ UNCHANGED <<pc, handle, open>>
  BY Unlost, BoardCases, Names DEF TypeOK, host
<1>2. socks[h] = c => OwnerOf(c, h)
  BY <1>1, OwnerMeans
<1>3. \A i \in DOMAIN toHost : i \in DOMAIN toHost' /\ toHost'[i] = toHost[i]
  <2>1. Silent => toHost' = toHost
    BY DEF Silent
  <2>2. ASSUME NEW f \in Frames, Sent(f) PROVE \A i \in DOMAIN toHost : i \in DOMAIN toHost' /\ toHost'[i] = toHost[i]
    <3>1. toHost' = Append(toHost, f)
      BY <2>2, Unlost
    <3>2. QED  BY <1>1, <3>1, AppendFacts
  <2>3. QED  BY <2>1, <2>2, BoardCases
\* The close request of c is kept, unless it is the one that is carried out.
<1>4. ASSUME ~(Taking("close") /\ Head(toBoard).who = c),
             \E i \in DOMAIN toBoard : Closing(toBoard[i], c)
      PROVE  \E i \in DOMAIN toBoard' : Closing(toBoard'[i], c)
  <2>1. PICK i \in DOMAIN toBoard : Closing(toBoard[i], c)
    BY <1>4
  <2>2. toBoard' = toBoard \/ (toBoard # <<>> /\ toBoard' = Tail(toBoard) /\ ~(Head(toBoard).op = "close" /\ Head(toBoard).who = c))
    BY <1>4, BoardCases
       DEF Silent, Sent, DataSent, ClosedSent, AcceptSent, RefusalSent, OpenedSent, ShutSent, Answer, Taking
  <2>3. CASE toBoard' = toBoard
    BY <2>1, <2>3
  <2>4. CASE toBoard # <<>> /\ toBoard' = Tail(toBoard) /\ ~(Head(toBoard).op = "close" /\ Head(toBoard).who = c)
    <3>1. /\ Head(toBoard) = toBoard[1]
          /\ \A k \in DOMAIN toBoard : k = 1 \/ (k - 1 \in DOMAIN toBoard' /\ toBoard'[k - 1] = toBoard[k])
      BY <1>1, <2>4, TailFacts
    <3>2. i # 1
      BY <2>1, <2>4, <3>1 DEF Closing
    <3>3. QED  BY <2>1, <3>1, <3>2
  <2>5. QED  BY <2>2, <2>3, <2>4
<1>5. ASSUME socks[h] = c, ~(Taking("close") /\ Head(toBoard).who = c) PROVE OwnerOf(c, h)'
  <2>1. CASE \E i \in DOMAIN toHost : Grant(toHost[i], c, h)
    BY <1>3, <2>1 DEF OwnerOf
  <2>2. CASE handle[c] = h /\ Live(c)
    BY <1>1, <2>2 DEF OwnerOf, Live
  <2>3. CASE handle[c] = h /\ pc[c] = "closing" /\ \E i \in DOMAIN toBoard : Closing(toBoard[i], c)
    BY <1>1, <1>4, <1>5, <2>3 DEF OwnerOf
  <2>4. QED  BY <1>2, <1>5, <2>1, <2>2, <2>3 DEF OwnerOf
<1>6. CASE Silent
  <2>1. socks' = socks /\ ~Taking("close")
    BY <1>1, <1>6 DEF Silent, Taking
  <2>2. QED  BY <1>5, <2>1
<1>7. ASSUME NEW f \in Frames, Sent(f) PROVE OwnerOf(c, h)'
  <2>1. Len(toHost) + 1 \in DOMAIN toHost' /\ toHost'[Len(toHost) + 1] = f
    <3>1. toHost' = Append(toHost, f)
      BY <1>7, Unlost
    <3>2. QED  BY <1>1, <3>1, AppendFacts
  <2>2. Grant(f, c, h) => OwnerOf(c, h)'
    BY <2>1 DEF OwnerOf
  <2>3. CASE DataSent(f)
    <3>1. socks[h] = c /\ toBoard' = toBoard
      BY <2>3 DEF DataSent
    <3>2. ~Taking("close")
      BY <1>1, <3>1, TailFacts DEF Taking
    <3>3. QED  BY <1>5, <3>1, <3>2
  <2>4. CASE ClosedSent(f)
    <3>1. socks[h] = c /\ toBoard' = toBoard
      BY <1>1, <2>4 DEF ClosedSent, TypeOK
    <3>2. ~Taking("close")
      BY <1>1, <3>1, TailFacts DEF Taking
    <3>3. QED  BY <1>5, <3>1, <3>2
  <2>5. CASE AcceptSent(f)
    <3>1. /\ f.op = "accept" /\ socks' = [socks EXCEPT ![f.new] = f.conn] /\ toBoard' = toBoard
      BY <2>5 DEF AcceptSent
    <3>2. ~Taking("close")
      BY <1>1, <3>1, TailFacts DEF Taking
    <3>3. CASE f.new = h
      <4>1. f.conn = c
        BY <3>1, <3>3 DEF TypeOK
      <4>2. QED  BY <2>2, <3>1, <3>3, <4>1 DEF Grant
    <3>4. CASE f.new # h
      <4>1. socks[h] = c
        BY <3>1, <3>4 DEF TypeOK
      <4>2. QED  BY <1>5, <3>2, <4>1
    <3>5. QED  BY <3>3, <3>4
  <2>6. CASE RefusalSent(f)
    <3>1. socks[h] = c /\ ~Taking("close")
      BY <2>6 DEF RefusalSent, Answer, Taking
    <3>2. QED  BY <1>5, <3>1
  <2>7. CASE OpenedSent(f)
    <3>1. /\ Taking("open") /\ ~Taking("close") /\ f.op = "reply" /\ f.ok /\ f.who = Head(toBoard).who
          /\ socks' = [socks EXCEPT ![f.h] = Head(toBoard).obj]
      BY <2>7 DEF OpenedSent, Answer, Taking
    <3>2. CASE f.h = h
      <4>1. Head(toBoard).obj = c
        BY <3>1, <3>2 DEF TypeOK
      <4>2. f.who = c
        BY <1>1, <3>1, <4>1, AskedBy
      <4>3. QED  BY <2>2, <3>1, <3>2, <4>2 DEF Grant
    <3>3. CASE f.h # h
      <4>1. socks[h] = c
        BY <3>1, <3>3 DEF TypeOK
      <4>2. QED  BY <1>5, <3>1, <4>1
    <3>4. QED  BY <3>2, <3>3
  <2>8. CASE ShutSent(f)
    <3> DEFINE r == Head(toBoard)
    <3>1. Taking("close") /\ socks' = [socks EXCEPT ![r.h] = None]
      BY <2>8 DEF ShutSent, Answer
    <3>2. r.who \in Objects /\ r.h = handle[r.who] /\ pc[r.who] = "closing" /\ Absent(toHost, r.who)
      BY <1>1, <3>1, AskedBy
    <3>3. r.h # h /\ socks[h] = c
      BY <1>1, <3>1 DEF TypeOK
    <3>4. r.who # c
      <4> SUFFICES ASSUME r.who = c PROVE FALSE
        OBVIOUS
      <4>1. handle[c] # h /\ pc[c] = "closing" /\ Absent(toHost, c)
        BY <3>2, <3>3
      <4>2. PICK i \in DOMAIN toHost : Grant(toHost[i], c, h)
        BY <1>2, <3>3, <4>1 DEF OwnerOf
      <4>3. toHost[i].op = "accept" /\ toHost[i].conn = c
        BY <4>1, <4>2 DEF Grant, Absent
      <4>4. QED  BY <4>1, <4>2, <4>3 DEF AcceptInv
    <3>5. QED  BY <1>5, <3>3, <3>4
  <2>9. QED  BY <1>7, <2>3, <2>4, <2>5, <2>6, <2>7, <2>8 DEF Sent
<1>8. QED  BY <1>6, <1>7, BoardCases

LEMMA OwnerReader ==
  ASSUME TypeOK, CallInv, PlaceInv, AcceptInv, SpentInv, LiveInv, OwnerInv, ~lostFrame, Reader,
         NEW c \in Conns \ raced', NEW h \in Handles, socks'[h] = c
  PROVE  OwnerOf(c, h)'
<1> DEFINE e == Head(toHost)
<1>1. /\ e \in Frames /\ e = toHost[1] /\ 1 \in DOMAIN toHost
      /\ \A i \in DOMAIN toHost : i = 1 \/ (i - 1 \in DOMAIN toHost' /\ toHost'[i - 1] = toHost[i])
      /\ toBoard' = toBoard /\ socks[h] = c /\ c \in Conns \ raced /\ c \in Objects /\ c # None /\ h # 0
  BY ReaderQueue, Names
<1>2. OwnerOf(c, h)
  BY <1>1, OwnerMeans
\* What is granted to c later is still to come.
<1>3. ASSUME NEW i \in DOMAIN toHost, i # 1, Grant(toHost[i], c, h) PROVE OwnerOf(c, h)'
  BY <1>1, <1>3 DEF OwnerOf
\* The frame does not concern c.
<1>4. ASSUME ~Grant(e, c, h), pc'[c] = pc[c], handle'[c] = handle[c], Live(c) /\ handle[c] = h => Live(c)'
      PROVE  OwnerOf(c, h)'
  <2>1. CASE \E i \in DOMAIN toHost : Grant(toHost[i], c, h)
    <3>1. PICK i \in DOMAIN toHost : Grant(toHost[i], c, h)
      BY <2>1
    <3>2. i # 1
      BY <1>1, <1>4, <3>1
    <3>3. QED  BY <1>3, <3>1, <3>2
  <2>2. CASE handle[c] = h /\ Live(c)
    BY <1>4, <2>2 DEF OwnerOf
  <2>3. CASE handle[c] = h /\ pc[c] = "closing" /\ \E i \in DOMAIN toBoard : Closing(toBoard[i], c)
    BY <1>1, <1>4, <2>3 DEF OwnerOf
  <2>4. QED  BY <1>2, <2>1, <2>2, <2>3 DEF OwnerOf
<1>5. CASE OnData
  <2>1. UNCHANGED <<pc, handle, open>> /\ e.op = "data"
    BY <1>5 DEF OnData, Receiving
  <2>2. ~Grant(e, c, h) /\ (Live(c) => Live(c)')
    BY <2>1 DEF Grant, Live
  <2>3. QED  BY <1>4, <2>1, <2>2
<1>6. CASE OnClosed
  <2>1. UNCHANGED <<pc, handle>> /\ e.op = "closed" /\ open'[c] = (open[c] /\ c \notin Registered(e.h))
    BY <1>6 DEF OnClosed, Receiving
  <2>2. ~Grant(e, c, h)
    BY <2>1 DEF Grant
  <2>3. ASSUME Live(c), handle[c] = h, ~Live(c)' PROVE FALSE
    <3>1. c \in Registered(e.h) /\ e.h \in Handles
      BY <1>1, <2>1, <2>3, FrameFields DEF Live
    <3>2. e.h = h
      BY <1>1, <2>3, <3>1 DEF Registered, PlaceInv
    <3>3. ~Foreign(e, c, h)
      BY <1>1, <2>3, LivePop DEF LiveInv
    <3>4. e.conn = c
      BY <2>1, <3>2, <3>3 DEF Foreign
    <3>5. QED  BY <1>1, <2>1, <3>4 DEF SpentInv
  <2>4. QED  BY <1>4, <2>1, <2>2, <2>3
<1>7. CASE OnAccept
  <2>1. /\ e.op = "accept" /\ e.conn \in Objects /\ pc[e.conn] = "new" /\ e.new \in Handles
        /\ \/ /\ handle' = [handle EXCEPT ![e.conn] = e.new] /\ pc' = [pc EXCEPT ![e.conn] = "use"]
              /\ open' = [open EXCEPT ![e.conn] = TRUE]
           \/ e.conn \in raced' /\ UNCHANGED <<handle, open, pc>>
    BY <1>7, AcceptFacts
  <2> HIDE DEF e
  <2>2. CASE e.conn # c
    <3>1. ~Grant(e, c, h)
      BY <2>1, <2>2 DEF Grant
    <3>2. pc'[c] = pc[c] /\ handle'[c] = handle[c] /\ open'[c] = open[c]
      BY <1>1, <2>1, <2>2 DEF TypeOK
    <3>3. QED  BY <1>4, <3>1, <3>2 DEF Live
  <2>3. CASE e.conn = c
    <3>1. handle'[c] = e.new /\ pc'[c] = "use" /\ open'[c]
      BY <1>1, <2>1, <2>3 DEF TypeOK
    <3>2. PICK i \in DOMAIN toHost : Grant(toHost[i], c, h)
      BY <1>2, <2>1, <2>3 DEF OwnerOf, Live
    <3>3. toHost[i].op = "accept" /\ toHost[i].conn = c
      BY <1>1, <2>1, <2>3, <3>2 DEF Grant, CallInv, CallOf
    <3>4. i = 1
      BY <1>1, <2>1, <2>3, <3>3 DEF AcceptInv
    <3>5. e.new = h
      BY <1>1, <2>1, <3>2, <3>4 DEF Grant
    <3>6. QED  BY <3>1, <3>5 DEF OwnerOf, Live
  <2>4. QED  BY <2>2, <2>3
<1>8. CASE OnReply
  <2>1. /\ e.op = "reply" /\ open' = open
        /\ e.who # c => pc'[c] = pc[c] /\ handle'[c] = handle[c]
        /\ e.who = c =>
             \/ pc[c] = "closing"
             \/ pc[c] = "opening" /\ pc'[c] = "register" /\ handle'[c] = e.h
             \/ pc[c] = "opening" /\ ~e.ok
    BY <1>1, <1>8, ReplyFacts
  <2> HIDE DEF e
  <2>2. CASE e.who # c
    <3>1. ~Grant(e, c, h)
      BY <2>1, <2>2 DEF Grant
    <3>2. QED  BY <1>4, <2>1, <2>2, <3>1 DEF Live
  <2>3. CASE e.who = c
    <3>1. /\ pc[c] \in {"opening", "closing"} /\ (pc[c] = "closing" => e.h = 0)
          /\ \A i \in DOMAIN toHost : toHost[i].who = c => i = 1
          /\ \A i \in DOMAIN toBoard : toBoard[i].who # c
      <4>1. CallOf(c) /\ toHost[1].who = c
        BY <1>1, <2>3 DEF CallInv
      <4>2. /\ \/ pc[c] = "opening"
               \/ pc[c] = "closing" /\ toHost[1].h = 0
            /\ \A i \in DOMAIN toHost : toHost[i].who = c => i = 1
        BY <1>1, <4>1 DEF CallOf
      <4>3. \A i \in DOMAIN toBoard : toBoard[i].who # c
        BY <1>1, <4>1 DEF CallOf
      <4>4. QED  BY <1>1, <4>2, <4>3
    <3>2. ~Live(c) /\ ~\E i \in DOMAIN toBoard : Closing(toBoard[i], c)
      BY <3>1 DEF Live, Closing
    <3>3. PICK i \in DOMAIN toHost : Grant(toHost[i], c, h)
      BY <1>2, <3>2 DEF OwnerOf
    <3>4. ~(toHost[i].op = "accept" /\ toHost[i].conn = c)
      BY <3>1 DEF AcceptInv
    <3>5. i = 1 /\ e.ok /\ e.h = h
      BY <1>1, <3>1, <3>3, <3>4 DEF Grant
    <3>6. pc'[c] = "register" /\ handle'[c] = h
      BY <1>1, <2>1, <2>3, <3>1, <3>5
    <3>7. QED  BY <3>6 DEF OwnerOf, Live
  <2>4. QED  BY <2>2, <2>3
<1>9. QED  BY <1>5, <1>6, <1>7, <1>8 DEF Reader

LEMMA OwnerApplication ==
  ASSUME TypeOK, PlaceInv, OwnerInv, [Next]_vars, ~lostFrame', Application,
         NEW c \in Conns \ raced', NEW h \in Handles, socks'[h] = c
  PROVE  OwnerOf(c, h)'
<1>1. /\ ~lostFrame /\ toHost' = toHost /\ socks[h] = c /\ c \in Conns \ raced
      /\ c \in Objects /\ c # Server /\ toBoard \in Seq(Requests) /\ h # 0
  BY Unlost, ApplicationQueue, Names DEF TypeOK
<1>2. OwnerOf(c, h)
  BY <1>1, OwnerMeans
<1>3. (\E i \in DOMAIN toHost : Grant(toHost[i], c, h)) => OwnerOf(c, h)'
  BY <1>1 DEF OwnerOf
<1>4. ASSUME toBoard' = toBoard \/ \E r \in Requests : toBoard' = Append(toBoard, r),
             \E i \in DOMAIN toBoard : Closing(toBoard[i], c)
      PROVE  \E i \in DOMAIN toBoard' : Closing(toBoard'[i], c)
  <2>1. CASE toBoard' = toBoard
    BY <1>4, <2>1
  <2>2. ASSUME NEW r \in Requests, toBoard' = Append(toBoard, r)
        PROVE  \E i \in DOMAIN toBoard' : Closing(toBoard'[i], c)
    <3>1. \A i \in DOMAIN toBoard : i \in DOMAIN toBoard' /\ toBoard'[i] = toBoard[i]
      BY <1>1, <2>2, AppendFacts
    <3>2. QED  BY <1>4, <3>1
  <2>3. QED  BY <1>4, <2>1, <2>2
\* Another object's step, or one that leaves the owner where it was.
<1>5. ASSUME toBoard' = toBoard \/ \E r \in Requests : toBoard' = Append(toBoard, r),
             pc'[c] = pc[c], handle'[c] = handle[c], open'[c] = open[c]
      PROVE  OwnerOf(c, h)'
  <2>1. CASE handle[c] = h /\ Live(c)
    BY <1>5, <2>1 DEF OwnerOf, Live
  <2>2. CASE handle[c] = h /\ pc[c] = "closing" /\ \E i \in DOMAIN toBoard : Closing(toBoard[i], c)
    BY <1>4, <1>5, <2>2 DEF OwnerOf
  <2>3. QED  BY <1>2, <1>3, <2>1, <2>2 DEF OwnerOf
<1>6. ASSUME NEW o \in Objects, Open(o) PROVE OwnerOf(c, h)'
  <2>1. /\ pc[o] = "new" /\ pc' = [pc EXCEPT ![o] = "opening"] /\ handle' = handle /\ open' = open
        /\ \E r \in Requests : toBoard' = Append(toBoard, r)
    BY <1>6, AskFacts, Unlost DEF Open, Goto
  <2>2. CASE o # c
    <3>1. pc'[c] = pc[c]
      BY <1>1, <2>1, <2>2 DEF TypeOK
    <3>2. QED  BY <1>5, <2>1, <3>1
  <2>3. CASE o = c
    BY <1>2, <1>3, <2>1, <2>3 DEF OwnerOf, Live
  <2>4. QED  BY <2>2, <2>3
<1>7. ASSUME NEW o \in Objects, Register(o) PROVE OwnerOf(c, h)'
  <2>1. /\ pc[o] = "register" /\ pc' = [pc EXCEPT ![o] = "use"] /\ handle' = handle /\ toBoard' = toBoard
        /\ open' = [d \in Conns |-> open[d] \/ d = o]
    BY <1>7 DEF Register, Goto
  <2>2. CASE o # c
    <3>1. pc'[c] = pc[c] /\ open'[c] = open[c]
      BY <1>1, <2>1, <2>2 DEF TypeOK
    <3>2. QED  BY <1>5, <2>1, <3>1
  <2>3. CASE o = c
    <3>1. Live(c)'
      BY <1>1, <2>1, <2>3 DEF TypeOK, Live
    <3>2. QED  BY <1>2, <1>3, <2>1, <2>3, <3>1 DEF OwnerOf
  <2>4. QED  BY <2>2, <2>3
<1>8. ASSUME NEW o \in Objects, Close(o) PROVE OwnerOf(c, h)'
  <2> DEFINE ask == [op |-> "close", who |-> o, h |-> handle[o]]
  <2>1. pc[o] = "use" /\ handle' = handle /\ ask \in Requests
    BY <1>8, AskFacts DEF Close
  <2>2. \/ /\ toBoard' = Append(toBoard, ask) /\ pc' = [pc EXCEPT ![o] = "closing"]
           /\ open' = [d \in Conns |-> open[d] /\ d # o]
        \/ /\ ~(o \in Conns /\ open[o]) /\ toBoard' = toBoard
           /\ pc' = [pc EXCEPT ![o] = "forget"] /\ open' = open
    BY <1>8, <2>1, Unlost DEF Close, Goto
  <2>3. ask.op = "close" /\ ask.who = o
    OBVIOUS
  <2> HIDE DEF ask
  <2>4. CASE o # c
    <3>1. pc'[c] = pc[c] /\ open'[c] = open[c]
      BY <1>1, <2>2, <2>4 DEF TypeOK
    <3>2. toBoard' = toBoard \/ \E r \in Requests : toBoard' = Append(toBoard, r)
      BY <2>1, <2>2
    <3>3. QED  BY <1>5, <2>1, <3>1, <3>2
  <2>5. CASE o = c /\ \E i \in DOMAIN toHost : Grant(toHost[i], c, h)
    BY <1>3, <2>5
  <2>6. CASE o = c /\ handle[c] = h /\ Live(c)
    <3>1. toBoard' = Append(toBoard, ask) /\ pc'[c] = "closing"
      BY <1>1, <2>1, <2>2, <2>6 DEF Live, TypeOK
    <3>2. Len(toBoard) + 1 \in DOMAIN toBoard' /\ toBoard'[Len(toBoard) + 1] = ask
      BY <1>1, <2>1, <3>1, AppendFacts
    <3>3. \E i \in DOMAIN toBoard' : Closing(toBoard'[i], c)
      BY <2>3, <2>6, <3>2 DEF Closing
    <3>4. QED  BY <2>1, <2>6, <3>1, <3>3 DEF OwnerOf
  <2>7. QED  BY <1>2, <2>1, <2>4, <2>5, <2>6 DEF OwnerOf
<1>9. ASSUME NEW o \in Objects, Forget(o) PROVE OwnerOf(c, h)'
  <2>1. /\ pc[o] = "forget" /\ pc' = [pc EXCEPT ![o] = "done"] /\ UNCHANGED <<handle, toBoard, open>>
    BY <1>9 DEF Forget, Goto
  <2>2. CASE o # c
    <3>1. pc'[c] = pc[c]
      BY <1>1, <2>1, <2>2 DEF TypeOK
    <3>2. QED  BY <1>5, <2>1, <3>1
  <2>3. CASE o = c
    BY <1>2, <1>3, <2>1, <2>3 DEF OwnerOf, Live
  <2>4. QED  BY <2>2, <2>3
<1>10. ASSUME NEW d \in Conns, Recv(d) \/ Ack(d) PROVE OwnerOf(c, h)'
  <2>1. UNCHANGED <<pc, handle, open>>
    BY <1>10 DEF Recv, Ack
  <2>2. toBoard' = toBoard \/ \E r \in Requests : toBoard' = Append(toBoard, r)
    BY <1>10, AskFacts, Unlost DEF Recv, Ack
  <2>3. QED  BY <1>5, <2>1, <2>2
<1>11. QED  BY <1>6, <1>7, <1>8, <1>9, <1>10, Unlost DEF Application

LEMMA OwnerStep ==
  ASSUME TypeOK, CallInv, PlaceInv, AcceptInv, SpentInv, LiveInv, OwnerInv, [Next]_vars
  PROVE  OwnerInv'
<1> SUFFICES ASSUME ~lostFrame', NEW c \in Conns \ raced', NEW h \in Handles, socks'[h] = c
             PROVE  OwnerOf(c, h)'
  BY DEF OwnerInv, OwnerOf
<1>1. ~lostFrame
  BY Unlost
<1>2. CASE Board
  <2>1. c \in Conns \ raced
    <3>1. Silent => raced' = raced
      BY DEF Silent, ghosts, lostFrame
    <3>2. ASSUME NEW f \in Frames, Sent(f) PROVE raced' = raced
      BY <3>2, EmitFacts DEF Sent
    <3>3. QED  BY <1>2, <3>1, <3>2, BoardCases
  <2>2. QED  BY <1>2, <2>1, OwnerBoard
<1>3. CASE Reader
  BY <1>1, <1>3, OwnerReader
<1>4. CASE Application
  BY <1>4, OwnerApplication
<1>5. CASE UNCHANGED vars
  <2>1. socks[h] = c /\ c \in Conns \ raced
    BY <1>5 DEF vars, board, ghosts, lostFrame
  <2>2. OwnerOf(c, h)
    BY <1>1, <2>1, OwnerMeans
  <2>3. QED  BY <1>5, <2>2 DEF vars, host, OwnerOf, Live
<1>6. QED  BY <1>2, <1>3, <1>4, <1>5 DEF Next, Done

-----------------------------------------------------------------------------
(* The invariant and what follows from it *)

LEMMA InitInv ==
  ASSUME Init
  PROVE  IInv
<1>1. TypeOK
  <2>1. /\ None \in Sockets /\ "new" \in PCs /\ 0 \in {0} \cup Handles /\ 0 \in 0 .. Window /\ 0 \in 0 .. MaxBytes
        /\ 0 \in Nat /\ FALSE \in BOOLEAN /\ {} \in SUBSET Incoming /\ {} \in SUBSET Conns
    BY NetAssumption DEF Sockets, PCs
  <2>2. /\ <<>> \in Seq(Requests) /\ <<>> \in Seq(Frames) /\ <<>> \in Seq(Byte)
        /\ Len(<<>>) <= SlowQueue /\ Len(<<>>) <= TxQueue
    BY NetAssumption
  <2>3. socks \in [Handles -> Sockets] /\ windowUsed \in [Handles -> 0 .. Window] /\ sockets \in [Handles -> Sockets]
    BY <2>1 DEF Init
  <2>4. /\ pc \in [Objects -> PCs] /\ handle \in [Objects -> {0} \cup Handles] /\ open \in [Conns -> BOOLEAN]
        /\ read \in [Conns -> 0 .. MaxBytes] /\ taken \in [Conns -> Nat] /\ acking \in [Conns -> Nat]
    BY <2>1 DEF Init
  <2>5. fed \in [Conns -> Seq(Byte)]
    BY <2>2 DEF Init
  <2>6. /\ toBoard \in Seq(Requests) /\ Len(toBoard) <= SlowQueue /\ toHost \in Seq(Frames) /\ Len(toHost) <= TxQueue
        /\ arrived \in SUBSET Incoming /\ raced \in SUBSET Conns /\ overdrawn \in SUBSET Conns
        /\ failures \in 0 .. MaxFailures
    BY <2>1, <2>2, NetAssumption DEF Init
  <2>7. QED  BY <2>3, <2>4, <2>5, <2>6 DEF TypeOK
<1>2. /\ toBoard = <<>> /\ toHost = <<>> /\ DOMAIN toBoard = {} /\ DOMAIN toHost = {}
      /\ \A h \in Handles : socks[h] = None /\ sockets[h] = None
      /\ \A o \in Objects : pc[o] = "new" /\ handle[o] = 0
      /\ \A c \in Conns : acking[c] = 0 /\ fed[c] = <<>> /\ c \in Objects /\ c # None
      /\ Incoming \subseteq Conns
  BY Names DEF Init
<1>3. SizeInv /\ CallInv /\ AcceptInv /\ GrantInv
  BY <1>2 DEF SizeInv, CallInv, NamedInv, CallOf, AcceptInv, GrantInv
<1>4. PlaceInv
  BY <1>2 DEF PlaceInv
<1>5. SpentInv /\ OwnerInv
  BY <1>2 DEF SpentInv, OwnerInv
<1>6. LiveInv
  BY <1>2 DEF LiveInv, Live
<1>7. QED  BY <1>1, <1>3, <1>4, <1>5, <1>6 DEF IInv

LEMMA InductiveInv ==
  ASSUME IInv, [Next]_vars
  PROVE  IInv'
<1>1. TypeOK' /\ SizeInv' /\ CallInv' /\ PlaceInv'
  BY TypeStep, SizeStep, CallStep, PlaceStep DEF IInv
<1>2. AcceptInv' /\ SpentInv' /\ GrantInv'
  BY AcceptStep, SpentStep, GrantStep DEF IInv
<1>3. LiveInv' /\ OwnerInv'
  BY LiveStep, OwnerStep DEF IInv
<1>4. QED  BY <1>1, <1>2, <1>3 DEF IInv

LEMMA Invariant == Spec => []IInv
  BY InitInv, InductiveInv, PTL DEF Spec

\* Every variable keeps its type: in particular window_used of a slot stays
\* between 0 and NET_WINDOW, whoever the credit of an acknowledgement was for,
\* and no queue outgrows its room.
THEOREM TypesKept == Spec => []TypeOK
<1>1. IInv => TypeOK
  BY DEF IInv
<1>2. QED  BY <1>1, Invariant, PTL

\* A connection that occupies a slot of the board has a socket that can close
\* it, or the frame that makes one is under way: slots are not leaked by opens,
\* accepts and closes that cross (net.py _on_accept, close(); mod_net.cpp).
THEOREM SlotsAreOwned == Spec => []SlotHasOwner
<1>1. ASSUME IInv, NEW h \in Handles, NEW c \in Conns, socks[h] = c, ~lostFrame, c \notin raced
      PROVE  \/ pc[c] \in {"register", "use", "closing"}
             \/ \E i \in DOMAIN toHost :
                  \/ toHost[i].op = "accept" /\ toHost[i].conn = c
                  \/ toHost[i].op = "reply" /\ toHost[i].who = c
  <2>1. OwnerOf(c, h)
    BY <1>1, OwnerMeans DEF IInv
  <2>2. QED  BY <2>1 DEF OwnerOf, Grant, Live
<1>2. IInv => SlotHasOwner
  BY <1>1 DEF SlotHasOwner
<1>3. QED  BY <1>2, Invariant, PTL

\* A TcpSocket that says it is connected occupies the slot of its handle, or
\* the event that it was closed is on its way (net.py _on_closed, TcpSocket._open).
THEOREM OpenSocketsAreOpen == Spec => []OpenMeansOpen
<1>1. ASSUME IInv, NEW c \in Conns, InUse(c), open[c], ~lostFrame, c \notin raced
      PROVE  \/ socks[handle[c]] = c
             \/ \E i \in DOMAIN toHost : toHost[i].op = "closed" /\ toHost[i].conn = c
  <2>1. LiveOf(c)
    BY <1>1 DEF IInv, LiveInv, Live, InUse
  <2>2. QED  BY <2>1 DEF LiveOf, Chain, Ended, End
<1>2. IInv => OpenMeansOpen
  BY <1>1 DEF OpenMeansOpen
<1>3. QED  BY <1>2, Invariant, PTL

\* While a TcpSocket has not heard of its end, what _feed() gave it came from
\* its own connection, although handles are used again and events carry nothing
\* but the handle.
THEOREM BytesAreOwn == Spec => []OnlyOwnBytes
<1>1. ASSUME IInv, NEW c \in Conns, InUse(c), open[c], ~lostFrame, c \notin raced, NEW b \in Range(fed[c])
      PROVE  b[1] = c
  <2>1. LiveOf(c)
    BY <1>1 DEF IInv, LiveInv, Live, InUse
  <2>2. QED  BY <1>1, <2>1 DEF LiveOf, Range
<1>2. IInv => OnlyOwnBytes
  BY <1>1 DEF OnlyOwnBytes
<1>3. QED  BY <1>2, Invariant, PTL

-----------------------------------------------------------------------------
(* What the sockets are given *)

Coming == {"new", "opening", "register", "use"}

\* The sockets that have not begun to close have all that was read.
WholeInv == ~lostFrame => \A c \in Conns \ raced : pc[c] \in Coming => Whole(c)

\* Bytes of c follow the frame that makes its socket, on its handle, and nothing
\* of c comes before them that ends it.
Follows(i, c, h) ==
  /\ handle[c] = h \/ \E g \in DOMAIN toHost : g < i /\ Grant(toHost[g], c, h)
  /\ pc[c] = "use" => open[c]
  /\ \A k \in DOMAIN toHost : k < i => ~(toHost[k].op = "closed" /\ toHost[k].conn = c)
DataInv ==
  ~lostFrame =>
    \A i \in DOMAIN toHost :
      toHost[i].op = "data" /\ toHost[i].conn \notin raced => Follows(i, toHost[i].conn, toHost[i].h)

-----------------------------------------------------------------------------
(* What a socket was given and will be given *)

DataOf(c) == {f \in Frames : f.op = "data" /\ f.conn = c}

\* Byte x of c was given in stream s, or is on its way in queue q.
Given(s, c, x) == \E i \in DOMAIN s : s[i] = <<c, x>>
Ahead(q, c, x) == \E j \in DOMAIN q : q[j] \in DataOf(c) /\ q[j].from <= x /\ x < q[j].from + q[j].n

\* Whole, of any stream and queue.
WholeOf(q, s, r, c) ==
  /\ \A i, j \in DOMAIN s : s[i][1] = c /\ s[j][1] = c /\ i < j => s[i][2] < s[j][2]
  /\ \A i \in DOMAIN s, j \in DOMAIN q : s[i][1] = c /\ q[j] \in DataOf(c) => s[i][2] < q[j].from
  /\ \A i, j \in DOMAIN q : q[i] \in DataOf(c) /\ q[j] \in DataOf(c) /\ i < j => q[i].from + q[i].n <= q[j].from
  /\ \A x \in Nat : x \in 1 .. r <=> Given(s, c, x) \/ Ahead(q, c, x)

LEMMA DataFields ==
  ASSUME NEW c, NEW f \in DataOf(c)
  PROVE  /\ f \in Frames /\ f.op = "data" /\ f.conn = c /\ c \in Conns /\ f.h \in Handles
         /\ f.from \in Nat \ {0} /\ f.n \in Nat \ {0}
<1>1. \A k \in 1 .. MaxBytes : k \in Nat \ {0}
  BY NetAssumption
<1>2. f \in Frames /\ f.op = "data" /\ f.conn = c
  BY DEF DataOf
<1>3. f.conn \in Conns /\ f.h \in Handles /\ f.from \in 1 .. MaxBytes
  BY <1>2, FrameFields
<1>4. \A n \in 1 .. Chunk : n \in Nat \ {0}
  BY NetAssumption
<1>5. f.n \in Nat \ {0}
  BY <1>2, <1>4, FrameFields
<1>6. QED  BY <1>1, <1>2, <1>3, <1>5

LEMMA ByteFields ==
  ASSUME NEW s \in Seq(Byte), NEW i \in DOMAIN s
  PROVE  s[i] = <<s[i][1], s[i][2]>> /\ s[i][2] \in Nat \ {0}
<1>1. s[i] \in Byte
  OBVIOUS
<1>2. \A k \in 1 .. MaxBytes : k \in Nat \ {0}
  BY NetAssumption
<1>3. QED  BY <1>1, <1>2 DEF Byte

WholeAgrees == \A c \in Conns : Whole(c) <=> WholeOf(toHost, fed[c], read[c], c)

LEMMA WholeMeans == TypeOK => WholeAgrees
<1> SUFFICES ASSUME TypeOK, NEW c \in Conns
             PROVE  Whole(c) <=> WholeOf(toHost, fed[c], read[c], c)
  BY DEF WholeAgrees
<1> DEFINE s == fed[c]
           q == toHost
           A == {fed[c][i][2] : i \in Own(c)}
           B == UNION {toHost[j].from .. (toHost[j].from + toHost[j].n - 1) : j \in Carrying(c)}
           r == read[c]
<1>1. s \in Seq(Byte) /\ r \in Nat /\ \A i \in DOMAIN q : q[i] \in Frames
  BY NetAssumption DEF TypeOK
<1>2. \A i : i \in Own(c) <=> i \in DOMAIN s /\ s[i][1] = c
  BY DEF Own
<1>3. \A j : j \in Carrying(c) <=> j \in DOMAIN q /\ q[j] \in DataOf(c)
  BY <1>1 DEF Carrying, DataOf
<1>4. \A x \in Nat : x \in A <=> Given(s, c, x)
  <2>1. \A i \in DOMAIN s : s[i] = <<s[i][1], s[i][2]>>
    BY <1>1, ByteFields
  <2>2. QED  BY <1>2, <2>1 DEF Given
<1>5. \A x \in Nat : x \in B <=> Ahead(q, c, x)
  <2>1. \A j \in Carrying(c) : q[j].from \in Nat /\ q[j].n \in Nat
    BY <1>3, DataFields
  <2>2. \A x \in Nat, j \in Carrying(c) :
          x \in q[j].from .. (q[j].from + q[j].n - 1) <=> q[j].from <= x /\ x < q[j].from + q[j].n
    BY <2>1
  <2>3. QED  BY <1>3, <2>2 DEF Ahead
<1>6. A \subseteq Nat /\ B \subseteq Nat /\ 1 .. r \subseteq Nat
  <2>1. \A i \in Own(c) : s[i][2] \in Nat
    BY <1>1, <1>2, ByteFields
  <2>2. \A j \in Carrying(c) : q[j].from \in Nat /\ q[j].n \in Nat
    BY <1>3, DataFields
  <2>3. \A j \in Carrying(c) : q[j].from .. (q[j].from + q[j].n - 1) \subseteq Nat
    BY <2>2
  <2>4. QED  BY <1>1, <2>1, <2>3
<1>7. Whole(c) <=>
        /\ \A i, j \in Own(c) : i < j => s[i][2] < s[j][2]
        /\ \A i \in Own(c), j \in Carrying(c) : s[i][2] < q[j].from
        /\ \A i, j \in Carrying(c) : i < j => q[i].from + q[i].n <= q[j].from
        /\ A \cup B = 1 .. r
  BY DEF Whole
<1> HIDE DEF A, B, s, q, r
<1>8. A \cup B = 1 .. r <=> \A x \in Nat : x \in 1 .. r <=> Given(s, c, x) \/ Ahead(q, c, x)
  BY <1>4, <1>5, <1>6
<1>9. Whole(c) <=> WholeOf(q, s, r, c)
  BY <1>2, <1>3, <1>7, <1>8 DEF WholeOf
<1>10. QED  BY <1>9 DEF q, s, r

\* What was given or is on its way was read.
LEMMA WholeBound ==
  ASSUME NEW q \in Seq(Frames), NEW s \in Seq(Byte), NEW r \in Nat, NEW c, WholeOf(q, s, r, c)
  PROVE  /\ \A i \in DOMAIN s : s[i][1] = c => s[i][2] <= r
         /\ \A j \in DOMAIN q : q[j] \in DataOf(c) => q[j].from + q[j].n <= r + 1
<1>1. ASSUME NEW i \in DOMAIN s, s[i][1] = c PROVE s[i][2] <= r
  <2>1. s[i][2] \in Nat /\ Given(s, c, s[i][2])
    BY <1>1, ByteFields DEF Given
  <2>2. QED  BY <2>1 DEF WholeOf
<1>2. ASSUME NEW j \in DOMAIN q, q[j] \in DataOf(c) PROVE q[j].from + q[j].n <= r + 1
  <2> DEFINE x == q[j].from + q[j].n - 1
  <2>1. q[j].from \in Nat \ {0} /\ q[j].n \in Nat \ {0}
    BY <1>2, DataFields
  <2>2. x \in Nat /\ q[j].from <= x /\ x < q[j].from + q[j].n
    BY <2>1
  <2>3. Ahead(q, c, x)
    BY <1>2, <2>2 DEF Ahead
  <2>4. x \in 1 .. r
    BY <2>2, <2>3 DEF WholeOf
  <2>5. QED  BY <2>1, <2>4
<1>3. QED  BY <1>1, <1>2

\* Bytes are read and sent.
LEMMA WholePush ==
  ASSUME NEW q \in Seq(Frames), NEW s \in Seq(Byte), NEW r \in Nat, NEW c, WholeOf(q, s, r, c),
         NEW f \in Frames, f \in DataOf(c) => f.from = r + 1,
         NEW t, t = r + IF f \in DataOf(c) THEN f.n ELSE 0
  PROVE  WholeOf(Append(q, f), s, t, c)
<1> DEFINE p == Append(q, f)
           m == Len(q) + 1
<1>1. /\ \A i \in DOMAIN q : i \in DOMAIN p /\ i < m /\ p[i] = q[i]
      /\ \A i \in DOMAIN p : i = m \/ i \in DOMAIN q
      /\ p[m] = f /\ m \in DOMAIN p /\ m \in Nat /\ DOMAIN q \subseteq Nat
  BY AppendFacts
<1> HIDE DEF p, m
<1>2. CASE f \notin DataOf(c)
  <2>1. \A i \in DOMAIN p : p[i] \in DataOf(c) => i \in DOMAIN q /\ p[i] = q[i]
    BY <1>1, <1>2
  <2>2. \A x : Ahead(p, c, x) <=> Ahead(q, c, x)
    BY <1>1, <2>1 DEF Ahead
  <2>3. t = r
    BY <1>2
  <2>4. QED  BY <2>1, <2>2, <2>3 DEF WholeOf, p
<1>3. CASE f \in DataOf(c)
  <2>1. /\ \A i \in DOMAIN s : s[i][1] = c => s[i][2] <= r
        /\ \A j \in DOMAIN q : q[j] \in DataOf(c) => q[j].from + q[j].n <= r + 1
    BY WholeBound
  <2>2. f.from = r + 1 /\ f.n \in Nat \ {0} /\ t = r + f.n /\ t \in Nat
    BY <1>3, DataFields
  <2>3. \A i \in DOMAIN s, j \in DOMAIN p : s[i][1] = c /\ p[j] \in DataOf(c) => s[i][2] < p[j].from
    <3> SUFFICES ASSUME NEW i \in DOMAIN s, NEW j \in DOMAIN p, s[i][1] = c, p[j] \in DataOf(c)
                 PROVE  s[i][2] < p[j].from
      OBVIOUS
    <3>1. s[i][2] \in Nat
      BY ByteFields
    <3>2. CASE j = m
      BY <1>1, <2>1, <2>2, <3>1, <3>2
    <3>3. CASE j \in DOMAIN q
      BY <1>1, <3>3 DEF WholeOf
    <3>4. QED  BY <1>1, <3>2, <3>3
  <2>4. \A i, j \in DOMAIN p : p[i] \in DataOf(c) /\ p[j] \in DataOf(c) /\ i < j => p[i].from + p[i].n <= p[j].from
    <3> SUFFICES ASSUME NEW i \in DOMAIN p, NEW j \in DOMAIN p, p[i] \in DataOf(c), p[j] \in DataOf(c), i < j
                 PROVE  p[i].from + p[i].n <= p[j].from
      OBVIOUS
    <3>1. i \in DOMAIN q
      BY <1>1
    <3>2. CASE j = m
      BY <1>1, <2>1, <2>2, <3>1, <3>2
    <3>3. CASE j \in DOMAIN q
      BY <1>1, <3>1, <3>3 DEF WholeOf
    <3>4. QED  BY <1>1, <3>2, <3>3
  <2>5. ASSUME NEW x \in Nat PROVE x \in 1 .. t <=> Given(s, c, x) \/ Ahead(p, c, x)
    <3>1. Ahead(p, c, x) <=> Ahead(q, c, x) \/ (r + 1 <= x /\ x < r + 1 + f.n)
      BY <1>1, <1>3, <2>2 DEF Ahead
    <3>2. x \in 1 .. r <=> Given(s, c, x) \/ Ahead(q, c, x)
      BY DEF WholeOf
    <3>3. x \in 1 .. t <=> x \in 1 .. r \/ (r + 1 <= x /\ x < r + 1 + f.n)
      BY <2>2
    <3>4. QED  BY <3>1, <3>2, <3>3
  <2>6. WholeOf(p, s, t, c)
    BY <2>3, <2>4, <2>5 DEF WholeOf
  <2>7. QED  BY <2>6 DEF p
<1>4. QED  BY <1>2, <1>3

\* Somebody else's bytes make no difference.
LEMMA WholeForeign ==
  ASSUME NEW q, NEW s \in Seq(Byte), NEW r, NEW c, WholeOf(q, s, r, c),
         NEW b \in Seq(Byte), \A i \in DOMAIN b : b[i][1] # c
  PROVE  WholeOf(q, s \o b, r, c)
<1> DEFINE t == s \o b
<1>1. /\ \A i \in DOMAIN t : (i \in DOMAIN s /\ t[i] = s[i]) \/ t[i][1] # c
      /\ \A i \in DOMAIN s : i \in DOMAIN t /\ t[i] = s[i]
  <2>1. \A i \in DOMAIN t : (i \in DOMAIN s /\ t[i] = s[i]) \/ (i - Len(s) \in DOMAIN b /\ t[i] = b[i - Len(s)])
    BY ConcatFacts
  <2>2. \A i \in DOMAIN s : i \in DOMAIN t /\ t[i] = s[i]
    OBVIOUS
  <2> HIDE DEF t
  <2>3. QED  BY <2>1, <2>2
<1> HIDE DEF t
<1>2. \A i \in DOMAIN t : t[i][1] = c => i \in DOMAIN s /\ t[i] = s[i]
  BY <1>1
<1>3. \A x : Given(t, c, x) <=> Given(s, c, x)
  <2>1. \A x : <<c, x>>[1] = c
    OBVIOUS
  <2>2. QED  BY <1>1, <1>2, <2>1 DEF Given
<1>4. QED  BY <1>2, <1>3 DEF WholeOf, t

LEMMA JoinFacts ==
  ASSUME NEW S, NEW s \in Seq(S), NEW b \in Seq(S)
  PROVE  /\ Len(s) \in Nat /\ Len(b) \in Nat /\ DOMAIN s = 1 .. Len(s) /\ DOMAIN b = 1 .. Len(b)
         /\ DOMAIN (s \o b) = 1 .. (Len(s) + Len(b))
         /\ \A i \in 1 .. Len(s) : (s \o b)[i] = s[i]
         /\ \A i \in 1 .. (Len(s) + Len(b)) : i > Len(s) => i - Len(s) \in 1 .. Len(b) /\ (s \o b)[i] = b[i - Len(s)]
  OBVIOUS

\* A frame leaves the queue: the socket is given its bytes, if they are its own.
LEMMA WholePop ==
  ASSUME NEW q \in Seq(Frames), q # <<>>, NEW s \in Seq(Byte), NEW r, NEW c, WholeOf(q, s, r, c),
         NEW t, IF Head(q) \in DataOf(c) THEN BytesOf(Head(q)) \in Seq(Byte) /\ t = s \o BytesOf(Head(q)) ELSE t = s
  PROVE  WholeOf(Tail(q), t, r, c)
<1> DEFINE p == Tail(q)
           e == Head(q)
<1>1. /\ \A i \in DOMAIN p : i \in Nat /\ i + 1 \in DOMAIN q /\ i + 1 # 1 /\ p[i] = q[i + 1]
      /\ \A i \in DOMAIN q : i = 1 \/ (i - 1 \in DOMAIN p /\ p[i - 1] = q[i])
      /\ e = q[1] /\ 1 \in DOMAIN q /\ DOMAIN p \subseteq Nat \ {0}
  BY TailFacts
<1> HIDE DEF p, e
<1>2. \A i, j \in DOMAIN p : p[i] \in DataOf(c) /\ p[j] \in DataOf(c) /\ i < j => p[i].from + p[i].n <= p[j].from
  <2> SUFFICES ASSUME NEW i \in DOMAIN p, NEW j \in DOMAIN p, p[i] \in DataOf(c), p[j] \in DataOf(c), i < j
               PROVE  p[i].from + p[i].n <= p[j].from
    OBVIOUS
  <2>1. i + 1 < j + 1
    BY <1>1
  <2>2. QED  BY <1>1, <2>1 DEF WholeOf
<1>3. \A x : Ahead(q, c, x) <=> Ahead(p, c, x) \/ (e \in DataOf(c) /\ e.from <= x /\ x < e.from + e.n)
  BY <1>1 DEF Ahead
<1>4. CASE e \notin DataOf(c)
  <2>1. t = s
    BY <1>4 DEF e
  <2>2. \A i \in DOMAIN s, j \in DOMAIN p : s[i][1] = c /\ p[j] \in DataOf(c) => s[i][2] < p[j].from
    BY <1>1 DEF WholeOf
  <2>3. \A x \in Nat : x \in 1 .. r <=> Given(s, c, x) \/ Ahead(p, c, x)
    BY <1>3, <1>4 DEF WholeOf
  <2>4. \A i, j \in DOMAIN s : s[i][1] = c /\ s[j][1] = c /\ i < j => s[i][2] < s[j][2]
    BY DEF WholeOf
  <2>5. QED  BY <1>2, <2>1, <2>2, <2>3, <2>4 DEF WholeOf, p
<1>5. CASE e \in DataOf(c)
  <2> DEFINE b == BytesOf(e)
             n == e.n
             k == e.from
             l == Len(s)
  <2>1. t = s \o b /\ b \in Seq(Byte)
    BY <1>5 DEF e
  <2>2. k \in Nat \ {0} /\ n \in Nat \ {0} /\ e.conn = c /\ l \in Nat
    BY <1>5, DataFields
  <2>3. DOMAIN b = 1 .. n /\ (\A i \in 1 .. n : b[i] = <<c, k + i - 1>>) /\ Len(b) = n
    <3>1. DOMAIN b = 1 .. n /\ \A i \in 1 .. n : b[i] = <<c, k + i - 1>>
      BY <2>2 DEF BytesOf
    <3>2. DOMAIN b = 1 .. Len(b) /\ Len(b) \in Nat
      BY <2>1
    <3>3. QED  BY <2>2, <3>1, <3>2
  <2> HIDE DEF b
  <2>4. /\ DOMAIN s = 1 .. l /\ DOMAIN t = 1 .. (l + n)
        /\ \A i \in 1 .. l : t[i] = s[i]
        /\ \A i \in 1 .. (l + n) : i > l => i - l \in 1 .. n /\ t[i] = b[i - l]
    BY <2>1, <2>3, JoinFacts
  <2> HIDE DEF n, l, k
  <2>5. \A i \in DOMAIN s : t[i] = s[i] /\ i <= l /\ i \in Nat
    BY <2>2, <2>4
  <2>6. \A i \in DOMAIN t : i \notin DOMAIN s => i > l /\ i \in Nat /\ i <= l + n /\ t[i] = <<c, k + (i - l) - 1>>
    <3> SUFFICES ASSUME NEW i \in 1 .. (l + n), i \notin 1 .. l
                 PROVE i > l /\ i \in Nat /\ i <= l + n /\ t[i] = <<c, k + (i - l) - 1>>
      BY <2>4
    <3>1. i \in Nat /\ i > l /\ i <= l + n
      BY <2>2
    <3>2. t[i] = b[i - l] /\ i - l \in 1 .. n
      BY <2>4, <3>1
    <3>3. QED  BY <2>3, <3>1, <3>2
  <2>7. \A i, j \in DOMAIN t : t[i][1] = c /\ t[j][1] = c /\ i < j => t[i][2] < t[j][2]
    <3> SUFFICES ASSUME NEW i \in DOMAIN t, NEW j \in DOMAIN t, t[i][1] = c, i < j, t[j][1] = c
                 PROVE  t[i][2] < t[j][2]
      OBVIOUS
    <3>1. CASE j \in DOMAIN s
      <4>1. i \in DOMAIN s
        BY <2>2, <2>4, <3>1
      <4>2. QED  BY <2>5, <3>1, <4>1 DEF WholeOf
    <3>2. CASE i \in DOMAIN s /\ j \notin DOMAIN s
      <4>1. t[i][2] < k /\ t[i][2] \in Nat
        BY <1>1, <1>5, <2>5, <3>2, ByteFields DEF WholeOf, k
      <4>2. t[j][2] = k + (j - l) - 1 /\ j > l /\ j \in Nat
        BY <2>6, <3>2
      <4>3. QED  BY <2>2, <4>1, <4>2
    <3>3. CASE i \notin DOMAIN s /\ j \notin DOMAIN s
      <4>1. t[j][2] = k + (j - l) - 1 /\ t[i][2] = k + (i - l) - 1 /\ j \in Nat /\ i \in Nat
        BY <2>6, <3>3
      <4>2. QED  BY <2>2, <4>1
    <3>4. QED  BY <3>1, <3>2, <3>3
  <2>8. \A i \in DOMAIN t, j \in DOMAIN p : t[i][1] = c /\ p[j] \in DataOf(c) => t[i][2] < p[j].from
    <3> SUFFICES ASSUME NEW i \in DOMAIN t, NEW j \in DOMAIN p, t[i][1] = c, p[j] \in DataOf(c)
                 PROVE  t[i][2] < p[j].from
      OBVIOUS
    <3>1. CASE i \in DOMAIN s
      BY <1>1, <2>5, <3>1 DEF WholeOf
    <3>2. CASE i \notin DOMAIN s
      <4>1. j + 1 \in DOMAIN q /\ p[j] = q[j + 1] /\ 1 < j + 1
        BY <1>1
      <4>2. k + n <= p[j].from
        BY <1>1, <1>5, <4>1 DEF WholeOf, n, k
      <4>3. t[i][2] = k + (i - l) - 1 /\ i <= l + n /\ i \in Nat
        BY <2>4, <2>6, <3>2
      <4>4. p[j].from \in Nat
        BY DataFields
      <4>5. QED  BY <2>2, <4>2, <4>3, <4>4
    <3>3. QED  BY <3>1, <3>2
  <2>9. \A x \in Nat : Given(t, c, x) <=> Given(s, c, x) \/ (k <= x /\ x < k + n)
    <3> SUFFICES ASSUME NEW x \in Nat
                 PROVE  Given(t, c, x) <=> Given(s, c, x) \/ (k <= x /\ x < k + n)
      OBVIOUS
    <3>1. Given(s, c, x) => Given(t, c, x)
      <4>1. \A i \in DOMAIN s : i \in DOMAIN t
        BY <2>2, <2>4
      <4>2. QED  BY <2>5, <4>1 DEF Given
    <3>2. ASSUME k <= x, x < k + n PROVE Given(t, c, x)
      <4> DEFINE i == l + (x - k) + 1
      <4>1. i \in 1 .. (l + n) /\ i \notin 1 .. l /\ k + (i - l) - 1 = x
        BY <2>2, <3>2
      <4> HIDE DEF i
      <4>2. QED  BY <2>4, <2>6, <4>1 DEF Given
    <3>3. ASSUME NEW i \in DOMAIN t, t[i] = <<c, x>>, i \notin DOMAIN s PROVE k <= x /\ x < k + n
      <4>1. x = k + (i - l) - 1 /\ i > l /\ i \in Nat /\ i <= l + n
        BY <2>2, <2>4, <2>6, <3>3
      <4>2. k \in Nat /\ l \in Nat /\ n \in Nat
        BY <2>2
      <4>3. k <= x
        BY <4>1, <4>2
      <4>4. x < k + n
        BY <4>1, <4>2
      <4>5. QED  BY <4>3, <4>4
    <3>4. ASSUME NEW i \in DOMAIN s, t[i] = <<c, x>> PROVE Given(s, c, x)
      BY <2>5, <3>4 DEF Given
    <3>5. QED  BY <3>1, <3>2, <3>3, <3>4 DEF Given
  <2>10. \A x \in Nat : x \in 1 .. r <=> Given(t, c, x) \/ Ahead(p, c, x)
    BY <1>3, <1>5, <2>9 DEF WholeOf, n, k
  <2>11. WholeOf(p, t, r, c)
    BY <1>2, <2>7, <2>8, <2>10 DEF WholeOf
  <2>12. QED  BY <2>11 DEF p
<1>6. QED  BY <1>4, <1>5

-----------------------------------------------------------------------------
(* The steps that move data, and the others *)

Polled(h, c, f) ==
  /\ socks[h] = c /\ f \in DataOf(c) /\ f.h = h /\ f.from = read[c] + 1 /\ f.who = None
  /\ read' = [read EXCEPT ![c] = @ + f.n]
  /\ windowUsed' = [windowUsed EXCEPT ![h] = @ + f.n]
  /\ Emit(f) /\ UNCHANGED <<socks, arrived, toBoard, host>>

NoData ==
  \/ toHost' = toHost
  \/ toHost # <<>> /\ toHost' = Tail(toHost) /\ Head(toHost).op # "data"
  \/ \E f \in Frames : f.op # "data" /\ toHost' = Append(toHost, f)
  \/ \E o \in Objects : GiveUp(o) \/ Retry(o)

\* A frame that is no data is sent, or none.
Quiet == toHost' = toHost \/ \E f \in Frames : f.op # "data" /\ toHost' = Append(toHost, f)

LEMMA PollDataFacts ==
  ASSUME TypeOK, NEW h \in Handles, PollData(h)
  PROVE  \E c \in Conns, f \in Frames : Polled(h, c, f)
<1>1. PICK c \in Conns, n \in 1 .. PollSize(h) :
        /\ socks[h] = c /\ read[c] + n <= MaxBytes
        /\ read' = [read EXCEPT ![c] = @ + n]
        /\ windowUsed' = [windowUsed EXCEPT ![h] = @ + n]
        /\ Emit([op |-> "data", who |-> None, h |-> h, conn |-> c, from |-> read[c] + 1, n |-> n])
        /\ UNCHANGED <<socks, arrived, toBoard, host>>
  BY DEF PollData
<1> DEFINE f == [op |-> "data", who |-> None, h |-> h, conn |-> c, from |-> read[c] + 1, n |-> n]
<1>2. n \in 1 .. Chunk /\ read[c] + 1 \in 1 .. MaxBytes
  <2>1. PollSize(h) \in Nat /\ PollSize(h) <= Chunk
    BY PollSizeBound
  <2>2. MaxBytes \in Nat /\ Chunk \in Nat /\ read[c] \in Nat
    BY NetAssumption DEF TypeOK
  <2>3. n \in Nat \ {0} /\ n <= Chunk
    BY <2>1, <2>2
  <2>4. QED  BY <1>1, <2>2, <2>3
<1>3. f \in Frames
  BY <1>2, RecordTypes
<1>4. f.op = "data" /\ f.conn = c /\ f.h = h /\ f.from = read[c] + 1 /\ f.n = n /\ f.who = None
  OBVIOUS
<1> HIDE DEF f
<1>5. Emit(f)
  BY <1>1 DEF f
<1>6. f \in DataOf(c)
  BY <1>3, <1>4 DEF DataOf
<1>7. Polled(h, c, f)
  BY <1>1, <1>4, <1>5, <1>6 DEF Polled
<1>8. QED  BY <1>3, <1>7

LEMMA OtherFrames ==
  ASSUME TypeOK, NEW f \in Frames, Emit(f), f.op # "data"
  PROVE  NoData /\ Quiet
  BY EmitFacts DEF NoData, Quiet

LEMMA OtherCalls ==
  ASSUME TypeOK, NEW r \in Requests, Submit(r)
  PROVE  NoData
<1>1. Busy(r) \in Frames /\ Busy(r).op # "data"
  BY RecordTypes, RequestFields DEF Busy
<1>2. QED  BY <1>1, SubmitFacts DEF NoData

\* The steps of the board that send no data.
LEMMA QuietBoard ==
  ASSUME TypeOK, PlaceInv,
         (\E h \in Handles : PollClosed(h) \/ PollListen(h)) \/ HandleOpen \/ HandleClose
  PROVE  read' = read /\ fed' = fed /\ NoData /\ Quiet
<1>1. ASSUME NEW h \in Handles, PollClosed(h) PROVE read' = read /\ fed' = fed /\ NoData /\ Quiet
  <2>1. PICK c \in Conns : Emit([op |-> "closed", who |-> None, h |-> h, conn |-> c]) /\ UNCHANGED <<net, toBoard, host>>
    BY <1>1 DEF PollClosed
  <2>2. [op |-> "closed", who |-> None, h |-> h, conn |-> c] \in Frames
    BY RecordTypes
  <2>3. QED  BY <2>1, <2>2, OtherFrames DEF net, host
<1>2. ASSUME NEW h \in Handles, PollListen(h) PROVE read' = read /\ fed' = fed /\ NoData /\ Quiet
  <2>1. PICK c \in Incoming :
          /\ IF Free = {}
             THEN UNCHANGED <<board, toHost, ghosts>>
             ELSE Emit([op |-> "accept", who |-> None, h |-> h, conn |-> c, new |-> AllocateSocket])
          /\ UNCHANGED <<read, toBoard, host>>
    BY <1>2 DEF PollListen
  <2>2. Free # {} => [op |-> "accept", who |-> None, h |-> h, conn |-> c, new |-> AllocateSocket] \in Frames
    <3>1. Free # {} => AllocateSocket \in Handles
      BY FirstFree DEF Free
    <3>2. QED  BY <3>1, RecordTypes, Names
  <2>3. QED  BY <2>1, <2>2, OtherFrames DEF NoData, Quiet, host
<1>3. ASSUME NEW w \in Objects \cup {None}, NEW h \in {0} \cup Handles, NEW ok \in BOOLEAN,
             Emit([op |-> "reply", who |-> w, h |-> h, ok |-> ok])
      PROVE  NoData /\ Quiet
  <2>1. [op |-> "reply", who |-> w, h |-> h, ok |-> ok] \in Frames
    BY RecordTypes
  <2>2. QED  BY <1>3, <2>1, OtherFrames
<1>4. ASSUME HandleOpen PROVE read' = read /\ fed' = fed /\ NoData /\ Quiet
  <2> DEFINE r == Head(toBoard)
  <2>1. Taking("open") /\ UNCHANGED host
    BY <1>4 DEF HandleOpen
  <2>2. r.who \in Objects \cup {None}
    BY <2>1, TakeFacts, RequestFields
  <2>3. Free # {} => AllocateSocket \in Handles
    BY FirstFree DEF Free
  <2>4. /\ \/ Emit([op |-> "reply", who |-> r.who, h |-> 0, ok |-> FALSE])
           \/ Free # {} /\ Emit([op |-> "reply", who |-> r.who, h |-> AllocateSocket, ok |-> TRUE])
        /\ read' = read
    BY <1>4 DEF HandleOpen, Fail, Reply, net
  <2> HIDE DEF r
  <2>5. NoData /\ Quiet
    BY <1>3, <2>2, <2>3, <2>4
  <2>6. QED  BY <2>1, <2>4, <2>5 DEF host
<1>5. ASSUME HandleClose PROVE read' = read /\ fed' = fed /\ NoData /\ Quiet
  <2> DEFINE r == Head(toBoard)
  <2>1. Taking("close") /\ UNCHANGED <<net, host>> /\ Emit([op |-> "reply", who |-> r.who, h |-> 0, ok |-> TRUE])
    BY <1>5 DEF HandleClose, Reply
  <2>2. r.who \in Objects \cup {None}
    BY <2>1, TakeFacts, RequestFields
  <2> HIDE DEF r
  <2>3. NoData /\ Quiet
    BY <1>3, <2>1, <2>2
  <2>4. QED  BY <2>1, <2>3 DEF net, host
<1>6. QED  BY <1>1, <1>2, <1>4, <1>5

LEMMA Moves ==
  ASSUME TypeOK, PlaceInv, [Next]_vars
  PROVE  \/ \E h \in Handles : PollData(h)
         \/ OnData
         \/ read' = read /\ fed' = fed /\ NoData
<1>6. ASSUME HandleAck PROVE read' = read /\ fed' = fed /\ NoData
  BY <1>6 DEF HandleAck, net, host, NoData
<1>7. ASSUME OnAccept \/ OnClosed \/ OnReply PROVE read' = read /\ fed' = fed /\ NoData
  BY <1>7 DEF OnAccept, OnClosed, OnReply, Receiving, net, NoData
<1>8. ASSUME NEW o \in Objects, Open(o) PROVE read' = read /\ fed' = fed /\ NoData
  BY <1>8, AskFacts, OtherCalls DEF Open, net
<1>9. ASSUME NEW o \in Objects, Close(o) PROVE read' = read /\ fed' = fed /\ NoData
  <2>1. CASE Submit([op |-> "close", who |-> o, h |-> handle[o]])
    BY <1>9, <2>1, AskFacts, OtherCalls DEF Close, net
  <2>2. CASE toHost' = toHost
    BY <1>9, <2>2 DEF Close, net, NoData
  <2>3. QED  BY <1>9, <2>1, <2>2 DEF Close
<1>10. ASSUME NEW c \in Conns, Ack(c) PROVE read' = read /\ fed' = fed /\ NoData
  BY <1>10, AskFacts, OtherCalls DEF Ack, net
<1>11. ASSUME NEW o \in Objects, Register(o) \/ Forget(o) \/ GiveUp(o) \/ Retry(o)
       PROVE  read' = read /\ fed' = fed /\ NoData
  BY <1>11 DEF Register, Forget, GiveUp, Retry, net, NoData
<1>12. ASSUME NEW c \in Conns, Recv(c) PROVE read' = read /\ fed' = fed /\ NoData
  BY <1>12 DEF Recv, net, NoData
<1>13. CASE UNCHANGED vars
  BY <1>13 DEF vars, net, host, NoData
<1>14. CASE Board
  BY <1>6, <1>14, QuietBoard DEF Board
<1>15. CASE Reader
  BY <1>7, <1>15 DEF Reader
<1>16. CASE Application
  BY <1>8, <1>9, <1>10, <1>11, <1>12, <1>16 DEF Application
<1>17. QED  BY <1>13, <1>14, <1>15, <1>16 DEF Next, Done

\* The other steps change nothing about the data in the queue.
LEMMA NoDataFacts ==
  ASSUME TypeOK, PlaceInv, NoData, NEW c, NEW s \in Seq(Byte), NEW r \in Nat, WholeOf(toHost, s, r, c)
  PROVE  WholeOf(toHost', s, r, c)
<1>1. toHost \in Seq(Frames)
  BY DEF TypeOK
<1>2. CASE toHost # <<>> /\ toHost' = Tail(toHost) /\ Head(toHost).op # "data"
  <2>1. Head(toHost) \notin DataOf(c)
    BY <1>2 DEF DataOf
  <2>2. QED  BY <1>1, <1>2, <2>1, WholePop
<1>3. ASSUME NEW q \in Seq(Frames), WholeOf(q, s, r, c), NEW f \in Frames, f.op # "data"
      PROVE  WholeOf(Append(q, f), s, r, c)
  <2>1. f \notin DataOf(c)
    BY <1>3 DEF DataOf
  <2>2. r = r + IF f \in DataOf(c) THEN f.n ELSE 0
    BY <2>1
  <2>3. QED  BY <1>3, <2>1, <2>2, WholePush
<1>4. ASSUME NEW o \in Objects
      PROVE  WholeOf(Anonymous(toHost, o), s, r, c) /\ Anonymous(toHost, o) \in Seq(Frames)
  <2> DEFINE t == Anonymous(toHost, o)
  <2>1. /\ t \in Seq(Frames) /\ DOMAIN t = DOMAIN toHost
        /\ \A i \in DOMAIN toHost :
             t[i] = IF toHost[i].who = o THEN [toHost[i] EXCEPT !.who = None] ELSE toHost[i]
    BY AnonymousFacts
  <2> HIDE DEF t
  <2>2. \A f \in Frames : f.who = o => f \notin DataOf(c) /\ [f EXCEPT !.who = None] \notin DataOf(c)
    <3> SUFFICES ASSUME NEW f \in Frames, f.who = o PROVE f.op = "reply" /\ [f EXCEPT !.who = None].op = "reply"
      BY DEF DataOf
    <3>1. f.op = "reply"
      BY FrameFields, Names
    <3>2. QED  BY <3>1 DEF Frames
  <2>3. \A i \in DOMAIN toHost : toHost[i] \in Frames
    BY <1>1
  <2>4. \A i \in DOMAIN toHost : t[i] = toHost[i] \/ (t[i] \notin DataOf(c) /\ toHost[i] \notin DataOf(c))
    BY <2>1, <2>2, <2>3
  <2>5. \A x : Ahead(toHost, c, x) <=> Ahead(t, c, x)
    BY <2>1, <2>4 DEF Ahead
  <2>6. WholeOf(t, s, r, c)
    BY <2>1, <2>4, <2>5 DEF WholeOf
  <2>7. QED  BY <2>1, <2>6 DEF t
<1>5. ASSUME NEW o \in Objects, Retry(o)
      PROVE  WholeOf(toHost', s, r, c)
  <2>1. \E f \in Frames : f.op # "data" /\ (toHost' = Anonymous(toHost, o) \/ toHost' = Append(Anonymous(toHost, o), f))
    BY <1>5, RetryFacts DEF Busy
  <2>2. QED  BY <1>3, <1>4, <2>1
<1>6. ASSUME NEW o \in Objects, GiveUp(o)
      PROVE  WholeOf(toHost', s, r, c)
  BY <1>4, <1>6 DEF GiveUp
<1>7. QED  BY <1>1, <1>2, <1>3, <1>5, <1>6 DEF NoData

-----------------------------------------------------------------------------
(* What becomes of one object's thread and handle *)

Steps == {<<"new", "opening">>, <<"opening", "done">>, <<"register", "use">>, <<"use", "closing">>,
          <<"use", "forget">>, <<"closing", "forget">>, <<"forget", "done">>}

LEMMA ThreadStep ==
  ASSUME TypeOK, CallInv, AcceptInv, [Next]_vars, NEW o \in Objects
  PROVE  \/ handle'[o] = handle[o] /\ (pc'[o] = pc[o] \/ <<pc[o], pc'[o]>> \in Steps)
         \/ /\ Reader /\ toHost # <<>> /\ Grant(Head(toHost), o, handle'[o]) /\ handle'[o] \in Handles
            /\ <<pc[o], pc'[o]>> \in {<<"new", "use">>, <<"opening", "register">>}
<1> DEFINE Goal == \/ handle'[o] = handle[o] /\ (pc'[o] = pc[o] \/ <<pc[o], pc'[o]>> \in Steps)
                   \/ /\ Reader /\ toHost # <<>> /\ Grant(Head(toHost), o, handle'[o]) /\ handle'[o] \in Handles
                      /\ <<pc[o], pc'[o]>> \in {<<"new", "use">>, <<"opening", "register">>}
<1> SUFFICES Goal
  OBVIOUS
<1>1. CASE UNCHANGED <<pc, handle>>
  BY <1>1
<1>2. CASE Board
  BY <1>1, <1>2, BoardCases DEF host
<1>3. CASE OnData \/ OnClosed
  BY <1>1, <1>3 DEF OnData, OnClosed
<1>4. CASE OnAccept
  <2> DEFINE e == Head(toHost)
  <2>1. /\ e.op = "accept" /\ e.conn \in Objects /\ pc[e.conn] = "new" /\ e.new \in Handles
        /\ \/ handle' = [handle EXCEPT ![e.conn] = e.new] /\ pc' = [pc EXCEPT ![e.conn] = "use"]
           \/ UNCHANGED <<handle, pc>>
    BY <1>4, AcceptFacts
  <2>2. Reader /\ toHost # <<>>
    BY <1>4 DEF Reader, OnAccept, Receiving
  <2> HIDE DEF e
  <2>3. CASE UNCHANGED <<handle, pc>>
    BY <1>1, <2>3
  <2>4. CASE /\ handle' = [handle EXCEPT ![e.conn] = e.new] /\ pc' = [pc EXCEPT ![e.conn] = "use"]
    <3>1. CASE o = e.conn
      <4>1. handle'[o] = e.new /\ pc'[o] = "use" /\ pc[o] = "new"
        BY <2>1, <2>4, <3>1 DEF TypeOK
      <4>2. Grant(e, o, handle'[o])
        BY <2>1, <3>1, <4>1 DEF Grant
      <4>3. QED  BY <2>1, <2>2, <4>1, <4>2 DEF e
    <3>2. CASE o # e.conn
      <4>1. handle'[o] = handle[o] /\ pc'[o] = pc[o]
        BY <2>1, <2>4, <3>2 DEF TypeOK
      <4>2. QED  BY <4>1
    <3>3. QED  BY <3>1, <3>2
  <2>5. QED  BY <2>1, <2>3, <2>4
<1>5. CASE OnReply
  <2> DEFINE e == Head(toHost)
  <2>1. /\ e.op = "reply"
        /\ o # e.who => pc'[o] = pc[o] /\ handle'[o] = handle[o]
        /\ o = e.who =>
             \/ pc[o] = "closing" /\ pc'[o] = "forget" /\ handle'[o] = handle[o]
             \/ pc[o] = "opening" /\ e.ok /\ e.h \in Handles /\ pc'[o] = "register" /\ handle'[o] = e.h
             \/ pc[o] = "opening" /\ pc'[o] = "done" /\ handle'[o] = handle[o]
    BY <1>5, ReplyFacts
  <2>2. Reader /\ toHost # <<>>
    BY <1>5 DEF Reader, OnReply, Receiving
  <2>3. e.ok /\ o = e.who /\ handle'[o] = e.h => Grant(e, o, handle'[o])
    BY <2>1 DEF Grant
  <2> HIDE DEF e
  <2>4. \/ pc'[o] = pc[o] /\ handle'[o] = handle[o]
        \/ pc[o] = "closing" /\ pc'[o] = "forget" /\ handle'[o] = handle[o]
        \/ pc[o] = "opening" /\ pc'[o] = "done" /\ handle'[o] = handle[o]
        \/ pc[o] = "opening" /\ pc'[o] = "register" /\ handle'[o] \in Handles /\ Grant(e, o, handle'[o])
    BY <2>1, <2>3, Zenon
  <2>5. CASE pc[o] = "opening" /\ pc'[o] = "register" /\ handle'[o] \in Handles /\ Grant(e, o, handle'[o])
    BY <2>2, <2>5 DEF e
  <2>6. QED  BY <2>4, <2>5 DEF Steps
<1>6. ASSUME NEW p \in Objects, Open(p) \/ Register(p) \/ Close(p) \/ Forget(p) \/ GiveUp(p) PROVE Goal
  <2>1. /\ \E to : pc' = [pc EXCEPT ![p] = to] /\ <<pc[p], to>> \in Steps
        /\ handle' = handle
    <3>1. ASSUME Open(p) PROVE pc[p] = "new" /\ pc' = [pc EXCEPT ![p] = "opening"] /\ handle' = handle
      BY <3>1 DEF Open, Goto
    <3>2. ASSUME Register(p) PROVE pc[p] = "register" /\ pc' = [pc EXCEPT ![p] = "use"] /\ handle' = handle
      BY <3>2 DEF Register, Goto
    <3>3. ASSUME Close(p) PROVE pc[p] = "use" /\ (pc' = [pc EXCEPT ![p] = "closing"] \/ pc' = [pc EXCEPT ![p] = "forget"]) /\ handle' = handle
      BY <3>3 DEF Close, Goto
    <3>4. ASSUME Forget(p) PROVE pc[p] = "forget" /\ pc' = [pc EXCEPT ![p] = "done"] /\ handle' = handle
      BY <3>4 DEF Forget, Goto
    <3>5. ASSUME GiveUp(p)
          PROVE  /\ handle' = handle
                 /\ \/ pc[p] = "opening" /\ pc' = [pc EXCEPT ![p] = "done"]
                    \/ pc[p] = "closing" /\ pc' = [pc EXCEPT ![p] = "forget"]
      BY <3>5 DEF GiveUp, Goto
    <3>6. QED  BY <1>6, <3>1, <3>2, <3>3, <3>4, <3>5 DEF Steps
  <2>2. PICK to : pc' = [pc EXCEPT ![p] = to] /\ <<pc[p], to>> \in Steps
    BY <2>1
  <2>3. CASE o = p
    <3>1. pc'[o] = to
      BY <2>2, <2>3 DEF TypeOK
    <3>2. QED  BY <2>1, <2>2, <2>3, <3>1
  <2>4. CASE o # p
    <3>1. pc'[o] = pc[o]
      BY <2>2, <2>4 DEF TypeOK
    <3>2. QED  BY <2>1, <3>1
  <2>5. QED  BY <2>3, <2>4
<1>7. ASSUME NEW c \in Conns, Recv(c) \/ Ack(c) PROVE Goal
  BY <1>1, <1>7 DEF Recv, Ack
<1>8. ASSUME NEW p \in Objects, Retry(p) PROVE Goal
  BY <1>1, <1>8 DEF Retry
<1> HIDE DEF Goal
<1>9. CASE Application
  BY <1>6, <1>7, <1>8, <1>9 DEF Application
<1>10. QED  BY <1>1, <1>2, <1>3, <1>4, <1>5, <1>9 DEF Next, Done, Reader, vars, host

\* A handle stays; a socket that has not begun to close never had.
LEMMA ThreadFacts ==
  ASSUME TypeOK, CallInv, PlaceInv, AcceptInv, [Next]_vars, NEW o \in Objects
  PROVE  /\ handle[o] # 0 => handle'[o] = handle[o]
         /\ handle'[o] # handle[o] => pc[o] \in {"new", "opening"} /\ handle'[o] \in Handles
         /\ pc'[o] \in Coming => pc[o] \in Coming
         /\ pc[o] \notin {"new", "opening", "register"} =>
              pc'[o] \notin {"new", "opening", "register"} /\ handle'[o] = handle[o]
<1>1. pc[o] \in {"new", "opening"} => handle[o] = 0
  BY DEF PlaceInv
<1>2. CASE handle'[o] = handle[o] /\ (pc'[o] = pc[o] \/ <<pc[o], pc'[o]>> \in Steps)
  BY <1>2 DEF Steps, Coming
<1>3. CASE handle'[o] \in Handles /\ <<pc[o], pc'[o]>> \in {<<"new", "use">>, <<"opening", "register">>}
  BY <1>1, <1>3 DEF Coming
<1>4. QED  BY <1>2, <1>3, ThreadStep

-----------------------------------------------------------------------------
(* Streams are whole *)

\* The first frame of the queue is data of c for the handle c is using.
LEMMA HeadData ==
  ASSUME TypeOK, SizeInv, PlaceInv, LiveInv, DataInv, ~lostFrame, OnData,
         NEW c \in Conns \ raced', Head(toHost).conn = c, pc[c] \in Coming
  PROVE  /\ handle[c] = Head(toHost).h /\ sockets[Head(toHost).h] = c
         /\ fed'[c] = fed[c] \o BytesOf(Head(toHost))
<1> DEFINE e == Head(toHost)
           h == Head(toHost).h
<1>1. e \in Frames /\ e.op = "data" /\ e = toHost[1] /\ 1 \in DOMAIN toHost /\ DOMAIN toHost \subseteq Nat \ {0}
  BY ReceiveFacts, TailFacts DEF OnData
<1>2. h \in Handles /\ h # 0 /\ c \in Objects
  BY <1>1, FrameFields, Names
<1>3. raced' = raced \cup TooEarlyFor(h) /\ c \notin raced
  BY DEF OnData
<1>4. Follows(1, c, h)
  BY <1>1, <1>3 DEF DataInv
<1>5. ~\E g \in DOMAIN toHost : g < 1
  BY <1>1
<1>6. handle[c] = h
  BY <1>4, <1>5 DEF Follows
<1>7. pc[c] = "use"
  <2>1. pc[c] \notin {"new", "opening"}
    BY <1>2, <1>6 DEF PlaceInv
  <2>2. pc[c] # "register"
    BY <1>3, <1>6 DEF TooEarlyFor
  <2>3. QED  BY <2>1, <2>2 DEF Coming
<1>8. Live(c)
  BY <1>4, <1>7 DEF Follows, Live
<1>9. sockets[h] = c
  BY <1>3, <1>6, <1>7, <1>8 DEF LiveInv, LiveOf
<1>10. fed'[c] = fed[c] \o BytesOf(e)
  BY <1>9 DEF OnData, Registered, BytesOf
<1>11. QED  BY <1>6, <1>9, <1>10

LEMMA RacedGrows ==
  ASSUME TypeOK, PlaceInv, [Next]_vars
  PROVE  raced \subseteq raced'
<1>1. CASE Board
  <2>1. Silent => raced' = raced
    BY DEF Silent
  <2>2. ASSUME NEW f \in Frames, Sent(f) PROVE raced' = raced
    BY <2>2, EmitFacts DEF Sent
  <2>3. QED  BY <1>1, <2>1, <2>2, BoardCases
<1>2. CASE Reader
  BY <1>2, ReaderQueue
<1>3. CASE Application
  BY <1>3 DEF Application, Open, Register, Close, Forget, GiveUp, Retry, Recv, Ack, Submit, ghosts
<1>4. CASE UNCHANGED vars
  BY <1>4 DEF vars, ghosts
<1>5. QED  BY <1>1, <1>2, <1>3, <1>4 DEF Next, Done

LEMMA WholeStep ==
  ASSUME TypeOK, SizeInv, CallInv, PlaceInv, AcceptInv, LiveInv, DataInv, WholeInv, [Next]_vars
  PROVE  WholeInv'
<1> SUFFICES ASSUME ~lostFrame', NEW c \in Conns \ raced', pc'[c] \in Coming
             PROVE  Whole(c)'
  BY DEF WholeInv, Whole, Own, Carrying
<1>1. TypeOK /\ TypeOK' /\ ~lostFrame /\ c \in Objects
  BY TypeStep, Unlost, Names
<1>2. /\ toHost \in Seq(Frames) /\ fed[c] \in Seq(Byte) /\ read[c] \in Nat
      /\ toHost' \in Seq(Frames) /\ fed'[c] \in Seq(Byte) /\ read'[c] \in Nat
  BY <1>1, NetAssumption DEF TypeOK
<1>3. pc[c] \in Coming
  BY ThreadFacts, <1>1
<1>4. c \notin raced
  <2>1. raced \subseteq raced'
    BY RacedGrows
  <2>2. QED  BY <2>1
<1>5. WholeOf(toHost, fed[c], read[c], c)
  BY <1>1, <1>3, <1>4, WholeMeans DEF WholeInv, WholeAgrees
<1>6. WholeOf(toHost', fed'[c], read'[c], c)
  <2>1. ASSUME NEW h \in Handles, PollData(h) PROVE WholeOf(toHost', fed'[c], read'[c], c)
    <3>1. PICK d \in Conns, f \in Frames : Polled(h, d, f)
      BY <2>1, PollDataFacts
    <3>2. /\ toHost' = Append(toHost, f) /\ fed' = fed
          /\ f \in DataOf(d) /\ f.from = read[d] + 1 /\ read' = [read EXCEPT ![d] = @ + f.n]
      BY <1>1, <3>1, EmitFacts DEF Polled, host
    <3>3. f \in DataOf(c) <=> d = c
      BY <3>2 DEF DataOf
    <3>4. read'[c] = read[c] + IF f \in DataOf(c) THEN f.n ELSE 0
      <4>1. read \in [Conns -> 0 .. MaxBytes] /\ f.n \in Nat
        BY <1>1, <3>2, DataFields DEF TypeOK
      <4>2. read'[c] = IF d = c THEN read[c] + f.n ELSE read[c]
        BY <3>2, <4>1
      <4>3. QED  BY <1>2, <3>3, <4>1, <4>2
    <3>5. QED  BY <1>2, <1>5, <3>2, <3>3, <3>4, WholePush
  <2>2. CASE OnData
    <3> DEFINE e == Head(toHost)
               b == BytesOf(e)
    <3>1. /\ toHost # <<>> /\ toHost' = Tail(toHost) /\ read' = read /\ e \in Frames /\ e.op = "data"
          /\ b \in Seq(Byte) /\ \A i \in DOMAIN b : b[i][1] = e.conn
      BY <2>2, ReceiveFacts, DataBytes DEF OnData, net
    <3>2. fed'[c] = fed[c] \o b \/ fed'[c] = fed[c]
      BY <2>2 DEF OnData, BytesOf
    <3>3. e \in DataOf(c) <=> e.conn = c
      BY <3>1 DEF DataOf
    <3>4. CASE e.conn = c
      <4>1. fed'[c] = fed[c] \o b
        BY <1>1, <1>3, <2>2, <3>4, HeadData
      <4> HIDE DEF b
      <4>2. IF e \in DataOf(c) THEN BytesOf(e) \in Seq(Byte) /\ fed'[c] = fed[c] \o BytesOf(e) ELSE fed'[c] = fed[c]
        BY <3>1, <3>3, <3>4, <4>1 DEF b
      <4>3. WholeOf(Tail(toHost), fed'[c], read[c], c)
        BY <1>2, <1>5, <3>1, <4>2, WholePop
      <4>4. QED  BY <3>1, <4>3
    <3>5. CASE e.conn # c
      <4>1. WholeOf(Tail(toHost), fed[c], read[c], c)
        BY <1>2, <1>5, <3>1, <3>3, <3>5, WholePop
      <4> HIDE DEF b
      <4>2. WholeOf(Tail(toHost), fed[c] \o b, read[c], c)
        BY <1>2, <3>1, <3>5, <4>1, WholeForeign
      <4>3. QED  BY <3>1, <3>2, <4>1, <4>2
    <3>6. QED  BY <3>4, <3>5
  <2>3. CASE read' = read /\ fed' = fed /\ NoData
    BY <1>1, <1>2, <1>5, <2>3, NoDataFacts
  <2>4. QED  BY <2>1, <2>2, <2>3, Moves
<1>7. TypeOK' => WholeAgrees'
  BY WholeMeans, PTL
<1>8. Whole(c)' <=> WholeOf(toHost', fed'[c], read'[c], c)
  BY <1>1, <1>7 DEF WholeAgrees
<1>9. QED  BY <1>6, <1>8

\* What is sent of c is after its socket's frame, or for its socket.
LEMMA FollowsNew ==
  ASSUME TypeOK, CallInv, PlaceInv, AcceptInv, SpentInv, OwnerInv, ~lostFrame,
         NEW c \in Conns \ raced, NEW h \in Handles, socks[h] = c
  PROVE  /\ handle[c] = h \/ \E g \in DOMAIN toHost : Grant(toHost[g], c, h)
         /\ pc[c] = "use" => open[c]
         /\ \A k \in DOMAIN toHost : ~(toHost[k].op = "closed" /\ toHost[k].conn = c)
<1>1. OwnerOf(c, h)
  BY OwnerMeans
<1>2. \A k \in DOMAIN toHost : ~(toHost[k].op = "closed" /\ toHost[k].conn = c)
  BY DEF SpentInv
<1>3. ASSUME NEW g \in DOMAIN toHost, Grant(toHost[g], c, h) PROVE pc[c] # "use"
  <2>1. c \in Objects /\ h # 0
    BY Names
  <2>2. CASE toHost[g].op = "accept" /\ toHost[g].conn = c
    BY <2>2 DEF AcceptInv
  <2>3. CASE toHost[g].who = c
    BY <2>1, <2>3 DEF CallInv, CallOf
  <2>4. QED  BY <1>3, <2>2, <2>3 DEF Grant
<1>4. QED  BY <1>1, <1>2, <1>3 DEF OwnerOf, Live

LEMMA DataBoard ==
  ASSUME TypeOK, SizeInv, CallInv, PlaceInv, AcceptInv, SpentInv, OwnerInv, DataInv, [Next]_vars, ~lostFrame', Board,
         NEW j \in DOMAIN toHost', NEW c \in Conns \ raced', NEW h \in Handles,
         toHost'[j].op = "data", toHost'[j].conn = c, toHost'[j].h = h
  PROVE  Follows(j, c, h)'
<1>1. /\ ~lostFrame /\ toHost \in Seq(Frames) /\ UNCHANGED <<pc, handle, open>> /\ raced' = raced
      /\ DOMAIN toHost \subseteq Nat
  <2>1. Silent => raced' = raced
    BY DEF Silent
  <2>2. ASSUME NEW f \in Frames, Sent(f) PROVE raced' = raced
    BY <2>2, EmitFacts DEF Sent
  <2>3. UNCHANGED host /\ raced' = raced
    BY <2>1, <2>2, BoardCases
  <2>4. ~lostFrame
    BY Unlost
  <2>5. QED  BY <2>3, <2>4 DEF TypeOK, host
<1>2. CASE Silent
  <2>1. toHost' = toHost
    BY <1>2 DEF Silent
  <2>2. Follows(j, c, h)
    BY <1>1, <2>1 DEF DataInv
  <2>3. QED  BY <1>1, <2>1, <2>2 DEF Follows
<1>3. ASSUME NEW f \in Frames, Sent(f) PROVE Follows(j, c, h)'
  <2> DEFINE m == Len(toHost) + 1
  <2>1. toHost' = Append(toHost, f)
    BY <1>3, Unlost
  <2>2. /\ \A i \in DOMAIN toHost : i \in DOMAIN toHost' /\ i < m /\ toHost'[i] = toHost[i]
        /\ \A i \in DOMAIN toHost' : i = m \/ i \in DOMAIN toHost
        /\ toHost'[m] = f /\ m \in Nat
    BY <1>1, <2>1, AppendFacts
  <2> HIDE DEF m
  <2>3. CASE j \in DOMAIN toHost
    <3>1. toHost'[j] = toHost[j] /\ \A k \in DOMAIN toHost' : k < j => k \in DOMAIN toHost
      BY <1>1, <2>2, <2>3
    <3>2. Follows(j, c, h)
      BY <1>1, <2>3, <3>1 DEF DataInv
    <3>3. QED  BY <1>1, <2>2, <3>1, <3>2 DEF Follows
  <2>4. CASE j = m
    <3>1. f.op = "data" /\ c = f.conn /\ h = f.h
      BY <2>2, <2>4
    <3>2. socks[h] = c
      BY <1>3, <3>1 DEF Sent, DataSent, ClosedSent, AcceptSent, RefusalSent, OpenedSent, ShutSent, Answer
    <3>3. c \in Conns \ raced /\ h \in Handles
      BY <1>1, <3>1, FrameFields
    <3>4. /\ handle[c] = h \/ \E g \in DOMAIN toHost : Grant(toHost[g], c, h)
          /\ pc[c] = "use" => open[c]
          /\ \A k \in DOMAIN toHost : ~(toHost[k].op = "closed" /\ toHost[k].conn = c)
      BY <1>1, <3>2, <3>3, FollowsNew
    <3>5. handle'[c] = h \/ \E g \in DOMAIN toHost' : g < j /\ Grant(toHost'[g], c, h)
      BY <1>1, <2>2, <2>4, <3>4
    <3>6. \A k \in DOMAIN toHost' : k < j => ~(toHost'[k].op = "closed" /\ toHost'[k].conn = c)
      <4>1. \A k \in DOMAIN toHost' : k < j => k \in DOMAIN toHost
        BY <2>2, <2>4
      <4>2. QED  BY <2>2, <3>4, <4>1
    <3>7. QED  BY <1>1, <3>4, <3>5, <3>6 DEF Follows
  <2>5. QED  BY <2>2, <2>3, <2>4
<1>4. QED  BY <1>2, <1>3, BoardCases

\* The frame that makes the socket of c arrives.
LEMMA GrantTaken ==
  ASSUME TypeOK, CallInv, PlaceInv, AcceptInv, Reader,
         NEW c \in Conns \ raced', NEW h \in Handles, Grant(Head(toHost), c, h)
  PROVE  handle'[c] = h
<1> DEFINE e == Head(toHost)
<1>1. e \in Frames /\ e = toHost[1] /\ 1 \in DOMAIN toHost /\ c \in Objects /\ h # 0
  BY ReaderQueue, Names
<1>2. CASE OnAccept
  <2>1. /\ e.op = "accept"
        /\ \/ handle' = [handle EXCEPT ![e.conn] = e.new]
           \/ e.conn \in raced'
    BY <1>2, AcceptFacts
  <2> HIDE DEF e
  <2>2. e.conn = c /\ e.new = h
    BY <2>1 DEF Grant, e
  <2>3. QED  BY <1>1, <2>1, <2>2 DEF TypeOK
<1>3. CASE OnReply
  <2>1. /\ e.op = "reply"
        /\ e.who = c =>
              \/ pc[c] = "closing" /\ e.h = 0
              \/ handle'[c] = e.h
              \/ ~e.ok
    BY <1>1, <1>3, ReplyFacts
  <2>2. e.who = c /\ e.ok /\ e.h = h
    BY <2>1 DEF Grant
  <2>3. QED  BY <1>1, <2>1, <2>2
<1>4. ~OnData /\ ~OnClosed
  BY DEF Grant, OnData, OnClosed, Receiving
<1>5. QED  BY <1>2, <1>3, <1>4 DEF Reader

LEMMA DataReader ==
  ASSUME TypeOK, SizeInv, CallInv, PlaceInv, AcceptInv, LiveInv, DataInv, [Next]_vars, ~lostFrame, Reader,
         NEW j \in DOMAIN toHost', NEW c \in Conns \ raced', NEW h \in Handles,
         toHost'[j].op = "data", toHost'[j].conn = c, toHost'[j].h = h
  PROVE  Follows(j, c, h)'
<1> DEFINE e == Head(toHost)
<1>1. /\ e \in Frames /\ e = toHost[1] /\ 1 \in DOMAIN toHost
      /\ \A i \in DOMAIN toHost' : i \in Nat \ {0} /\ i + 1 \in DOMAIN toHost /\ toHost'[i] = toHost[i + 1]
      /\ \A i \in DOMAIN toHost : i \in Nat \ {0} /\ (i = 1 \/ (i - 1 \in DOMAIN toHost' /\ toHost'[i - 1] = toHost[i]))
      /\ raced \subseteq raced' /\ toHost \in Seq(Frames)
  <2>1. toHost \in Seq(Frames) /\ toHost # <<>> /\ toHost' = Tail(toHost) /\ raced \subseteq raced' /\ e = toHost[1] /\ e \in Frames
    BY ReaderQueue
  <2>2. DOMAIN toHost \subseteq Nat \ {0} /\ DOMAIN Tail(toHost) \subseteq Nat \ {0}
    BY <2>1, TailFacts
  <2>3. QED  BY <2>1, <2>2, ReaderQueue
<1>2. toHost[j + 1].op = "data" /\ toHost[j + 1].conn = c /\ toHost[j + 1].h = h /\ j + 1 \in DOMAIN toHost /\ j \in Nat
  BY <1>1
<1>3. c \in Conns \ raced /\ c \in Objects /\ c # None /\ h # 0
  BY <1>1, Names
<1> HIDE DEF e
<1>4. Follows(j + 1, c, h)
  BY <1>2, <1>3 DEF DataInv
<1>5. \A k \in DOMAIN toHost' : k < j => ~(toHost'[k].op = "closed" /\ toHost'[k].conn = c)
  <2> SUFFICES ASSUME NEW k \in DOMAIN toHost', k < j
               PROVE  ~(toHost'[k].op = "closed" /\ toHost'[k].conn = c)
    OBVIOUS
  <2>1. k + 1 \in DOMAIN toHost /\ k + 1 < j + 1 /\ toHost'[k] = toHost[k + 1]
    BY <1>1, <1>2
  <2>2. QED  BY <1>4, <2>1 DEF Follows
\* The frame that makes the socket is the head, or still in the queue.
<1>6. handle'[c] = h \/ \E g \in DOMAIN toHost' : g < j /\ Grant(toHost'[g], c, h)
  <2>1. CASE handle[c] = h
    BY <1>3, <2>1, ThreadFacts
  <2>2. ASSUME NEW g \in DOMAIN toHost, g < j + 1, Grant(toHost[g], c, h), g # 1
        PROVE  \E k \in DOMAIN toHost' : k < j /\ Grant(toHost'[k], c, h)
    <3>1. g - 1 \in DOMAIN toHost' /\ toHost'[g - 1] = toHost[g] /\ g - 1 < j
      BY <1>1, <1>2, <2>2
    <3>2. QED  BY <2>2, <3>1
  <2>3. CASE Grant(e, c, h)
    BY <1>3, <2>3, GrantTaken DEF e
  <2>4. QED  BY <1>1, <1>4, <2>1, <2>2, <2>3 DEF Follows
<1>7. pc'[c] = "use" => open'[c]
  <2>1. CASE OnData
    BY <1>4, <2>1 DEF OnData, Follows
  <2>2. CASE OnAccept
    <3>1. /\ e.conn \in Conns /\ e.conn \in Objects
          /\ \/ /\ open' = [open EXCEPT ![e.conn] = TRUE]
                /\ pc' = [pc EXCEPT ![e.conn] = "use"]
             \/ UNCHANGED <<open, pc>>
      BY <2>2, AcceptFacts DEF e
    <3>2. QED  BY <1>3, <1>4, <3>1 DEF Follows, TypeOK
  <2>3. CASE OnReply
    <3>1. open' = open /\ (pc'[c] = "use" => pc[c] = "use")
      <4>1. open' = open
        BY <2>3 DEF OnReply
      <4>2. c = e.who \/ c # e.who
        OBVIOUS
      <4>3. pc'[c] = "use" => pc[c] = "use"
        BY <1>3, <2>3, <4>2, ReplyFacts DEF e
      <4>4. QED  BY <4>1, <4>3
    <3>2. QED  BY <1>4, <3>1 DEF Follows
  <2>4. CASE OnClosed
    <3>1. pc' = pc /\ open'[c] = (open[c] /\ c \notin Registered(e.h)) /\ e.op = "closed"
      BY <1>3, <2>4 DEF OnClosed, Receiving, e
    <3>2. ASSUME pc[c] = "use", c \in Registered(e.h) PROVE FALSE
      <4>1. LiveOf(c)
        BY <1>3, <1>4, <3>2 DEF Follows, Live, LiveInv
      <4>2. ~Foreign(e, c, handle[c])
        BY <1>3, <4>1, LivePop DEF e
      <4>3. handle[c] = e.h
        <5>1. e.h \in Handles /\ sockets[e.h] = c
          BY <1>1, <3>1, <3>2, FrameFields DEF Registered
        <5>2. QED  BY <1>3, <5>1, Names DEF PlaceInv
      <4>4. e.conn = c
        BY <3>1, <4>2, <4>3 DEF Foreign
      <4>5. 1 < j + 1
        <5>1. j \in Nat \ {0}
          BY <1>1
        <5>2. QED  BY <5>1
      <4>6. QED  BY <1>1, <1>4, <3>1, <4>4, <4>5 DEF Follows
    <3>3. QED  BY <1>4, <3>1, <3>2 DEF Follows
  <2>5. QED  BY <2>1, <2>2, <2>3, <2>4 DEF Reader
<1>8. QED  BY <1>5, <1>6, <1>7 DEF Follows

LEMMA DataApplication ==
  ASSUME TypeOK, CallInv, PlaceInv, AcceptInv, DataInv, [Next]_vars, ~lostFrame', Application,
         NEW j \in DOMAIN toHost', NEW c \in Conns \ raced', NEW h \in Handles,
         toHost'[j].op = "data", toHost'[j].conn = c, toHost'[j].h = h
  PROVE  Follows(j, c, h)'
<1>1. toHost' = toHost /\ raced' = raced /\ ~lostFrame /\ c \in Objects
  BY ApplicationQueue, Unlost, Names
<1>2. Follows(j, c, h)
  BY <1>1 DEF DataInv
<1>3. handle'[c] = handle[c]
  BY DEF Application, Open, Register, Close, Forget, GiveUp, Retry, Recv, Ack
<1>4. pc'[c] = "use" => open'[c]
  <2>1. pc[c] = "use" => open[c]
    BY <1>2 DEF Follows
  <2>2. CASE UNCHANGED <<pc, open>>
    BY <2>1, <2>2
  <2>3. ASSUME NEW o \in Objects, Register(o) PROVE pc'[c] = "use" => open'[c]
    <3>1. pc' = [pc EXCEPT ![o] = "use"] /\ open' = [d \in Conns |-> open[d] \/ d = o]
      BY <2>3 DEF Register, Goto
    <3>2. c # o => pc'[c] = pc[c]
      BY <1>1, <3>1 DEF TypeOK
    <3>3. QED  BY <2>1, <3>1, <3>2
  <2>4. ASSUME NEW o \in Objects, Close(o) PROVE pc'[c] = "use" => open'[c]
    <3>1. /\ pc' = [pc EXCEPT ![o] = "closing"] \/ pc' = [pc EXCEPT ![o] = "forget"]
          /\ open' = [d \in Conns |-> open[d] /\ d # o] \/ open' = open
      BY <2>4 DEF Close, Goto
    <3>2. c = o => pc'[c] # "use"
      BY <1>1, <3>1 DEF TypeOK
    <3>3. c # o => pc'[c] = pc[c] /\ open'[c] = open[c]
      BY <1>1, <3>1 DEF TypeOK
    <3>4. QED  BY <2>1, <3>2, <3>3
  <2>5. ASSUME NEW o \in Objects, Open(o) \/ Forget(o) PROVE pc'[c] = "use" => open'[c]
    <3>1. (pc' = [pc EXCEPT ![o] = "opening"] \/ pc' = [pc EXCEPT ![o] = "done"]) /\ open' = open
      BY <2>5 DEF Open, Forget, Goto
    <3>2. pc'[c] = "use" => pc[c] = "use"
      BY <1>1, <3>1 DEF TypeOK
    <3>3. QED  BY <2>1, <3>1, <3>2
  <2>6. \A o \in Objects : ~GiveUp(o) /\ ~Retry(o)
    BY Unlost
  <2>7. QED  BY <2>2, <2>3, <2>4, <2>5, <2>6 DEF Application, Recv, Ack
<1>5. QED  BY <1>1, <1>2, <1>3, <1>4 DEF Follows

LEMMA DataStep ==
  ASSUME TypeOK, SizeInv, CallInv, PlaceInv, AcceptInv, SpentInv, LiveInv, OwnerInv, DataInv, [Next]_vars
  PROVE  DataInv'
<1> SUFFICES ASSUME ~lostFrame', NEW j \in DOMAIN toHost', NEW c \in Conns \ raced', NEW h \in Handles,
                    toHost'[j].op = "data", toHost'[j].conn = c, toHost'[j].h = h
             PROVE  Follows(j, c, h)'
  <2>1. TypeOK'
    BY TypeStep
  <2>2. \A j \in DOMAIN toHost' : toHost'[j] \in Frames
    BY <2>1 DEF TypeOK
  <2>3. \A f \in Frames : f.op = "data" => f.conn \in Conns /\ f.h \in Handles
    BY FrameFields
  <2>4. \A j \in DOMAIN toHost' : toHost'[j].op = "data" => toHost'[j].conn \in Conns /\ toHost'[j].h \in Handles
    BY <2>2, <2>3
  <2>5. QED  BY <2>4 DEF DataInv, Follows
<1>1. ~lostFrame
  BY Unlost
<1>2. CASE Board
  BY <1>2, DataBoard
<1>3. CASE Reader
  BY <1>1, <1>3, DataReader
<1>4. CASE Application
  BY <1>4, DataApplication
<1>5. CASE UNCHANGED vars
  <2>1. Follows(j, c, h)
    BY <1>1, <1>5 DEF DataInv, vars, ghosts
  <2>2. QED  BY <1>5, <2>1 DEF Follows, vars, host
<1>6. QED  BY <1>2, <1>3, <1>4, <1>5 DEF Next, Done

-----------------------------------------------------------------------------
StreamInv == IInv /\ DataInv /\ WholeInv

LEMMA StreamInit ==
  ASSUME Init
  PROVE  StreamInv
<1>1. IInv
  BY InitInv
<1>2. /\ toHost = <<>> /\ DOMAIN toHost = {}
      /\ \A c \in Conns : fed[c] = <<>> /\ read[c] = 0
  BY DEF Init
<1>3. DataInv
  BY <1>2 DEF DataInv
<1>4. WholeInv
  <2> SUFFICES ASSUME NEW c \in Conns PROVE Whole(c)
    BY DEF WholeInv
  <2>1. Own(c) = {} /\ Carrying(c) = {} /\ 1 .. read[c] = {}
    BY <1>2 DEF Own, Carrying
  <2>2. QED  BY <2>1 DEF Whole
<1>5. QED  BY <1>1, <1>3, <1>4 DEF StreamInv

LEMMA StreamNext ==
  ASSUME StreamInv, [Next]_vars
  PROVE  StreamInv'
<1>1. /\ TypeOK /\ SizeInv /\ CallInv /\ PlaceInv /\ AcceptInv /\ SpentInv /\ GrantInv /\ LiveInv /\ OwnerInv
      /\ DataInv /\ WholeInv
  BY DEF StreamInv, IInv
<1>2. IInv'
  BY InductiveInv DEF StreamInv
<1>3. DataInv' /\ WholeInv'
  BY <1>1, DataStep, WholeStep
<1>4. QED  BY <1>2, <1>3 DEF StreamInv

LEMMA StreamInvariant == Spec => []StreamInv
  BY StreamInit, StreamNext, PTL DEF Spec

\* What a TcpSocket in use was given by _feed(), followed by what of it is still
\* in the transmit queue, is every byte net_poll() read from its connection, in
\* order and each once, although bytes travel under a handle that is used again.
THEOREM StreamsAreWhole == Spec => []StreamIsWhole
<1>1. StreamInv => StreamIsWhole
  BY DEF StreamInv, WholeInv, StreamIsWhole, InUse, Coming
<1>2. QED  BY <1>1, StreamInvariant, PTL

-----------------------------------------------------------------------------
(* What the slots are charged with: credit *)

\* What comes after place g of queue q.
Rest(q, g) == [i \in 1 .. (Len(q) - g) |-> q[i + g]]

\* The sum of the sizes of the members of T in a queue.
Weight(q, T) == Total([i \in DOMAIN q |-> IF q[i] \in T THEN q[i].n ELSE 0])

DataOn(c, h) == {f \in DataOf(c) : f.h = h}
AcksOf(c) == {r \in Requests : r.op = "ack" /\ r.of = c}

\* What is under way to the host for c under handle h after place g, and from it.
Data(c, h, g) == Weight(Rest(toHost, g), DataOn(c, h))
Acks(c) == Weight(toBoard, AcksOf(c))
Owed(c, h, g) == Data(c, h, g) + Len(fed[c]) - taken[c] + acking[c] + Acks(c)

\* The socket of c works with handle h, or will after place g of the transmit queue.
Known(c, h, g) ==
  \/ g = 0 /\ handle[c] = h /\ pc[c] \in {"register", "use"}
  \/ g \in DOMAIN toHost /\ Grant(toHost[g], c, h)

CreditInv ==
  \A c \in Conns \ overdrawn, h \in Handles : \A g \in 0 .. Len(toHost) :
    socks[h] = c /\ Known(c, h, g) =>
      /\ Owed(c, h, g) <= windowUsed[h]
      /\ ~lostFrame /\ c \notin raced => Owed(c, h, g) = windowUsed[h]

\* Credit on its way is of a socket that was in use, for its handle.
AckInv ==
  \A i \in DOMAIN toBoard : toBoard[i].op = "ack" =>
    handle[toBoard[i].of] = toBoard[i].h /\ pc[toBoard[i].of] \notin {"new", "opening", "register"}

\* What is left of a slot's last connection comes before the next one's handle.
OrderInv ==
  \A i \in DOMAIN toHost : toHost[i].op = "data" =>
    LET h == toHost[i].h  c == socks[h] IN
    c \in Conns /\ c # toHost[i].conn =>
      handle[c] # h /\ \A g \in DOMAIN toHost : Grant(toHost[g], c, h) => i < g

TakenInv == \A c \in Conns : taken[c] <= Len(fed[c])

\* Requests for a slot are of objects without a handle, whom none is promised;
\* the one that is still waited for is the last of its object.
Asking(i, o) ==
  /\ o \notin Incoming /\ handle[o] = 0 /\ pc[o] \in {"opening", "done"}
  /\ toBoard[i].who \in {o, None}
  /\ toBoard[i].who = o => \A j \in DOMAIN toBoard : j > i => ~Opening(toBoard[j], o)
  /\ \A j \in DOMAIN toHost : toHost[j].who = o => ~toHost[j].ok
AskedInv == \A i \in DOMAIN toBoard : toBoard[i].op = "open" => Asking(i, toBoard[i].obj)

-----------------------------------------------------------------------------
(* Counting *)

\* What lies under a function to numbers.
LEMMA UnderMember ==
  ASSUME NEW f
  PROVE  /\ \A x, i : <<x, i>> \in Under(f) <=> x \in DOMAIN f /\ i \in 1 .. f[x]
         /\ \A p \in Under(f) : p = <<p[1], p[2]>> /\ p[1] \in DOMAIN f /\ p[2] \in 1 .. f[p[1]]
  BY DEF Under

LEMMA OneColumn ==
  ASSUME NEW x, NEW n \in Nat
  PROVE  IsFiniteSet({x} \X (1 .. n)) /\ Cardinality({x} \X (1 .. n)) = n
<1>1. IsFiniteSet({x}) /\ Cardinality({x}) = 1
  BY ONLY FS_Singleton
<1>2. IsFiniteSet(1 .. n) /\ Cardinality(1 .. n) = n
  <2>1. 1 \in Int /\ n \in Int
    OBVIOUS
  <2>2. IsFiniteSet(1 .. n) /\ Cardinality(1 .. n) = IF 1 > n THEN 0 ELSE n - 1 + 1
    BY ONLY <2>1, FS_Interval
  <2>3. QED  BY <2>2
<1>3. /\ IsFiniteSet({x} \X (1 .. n))
      /\ Cardinality({x} \X (1 .. n)) = Cardinality({x}) * Cardinality(1 .. n)
  BY ONLY <1>1, <1>2, FS_Product
<1>4. QED  BY <1>1, <1>2, <1>3

\* A finite sum of numbers is a number.
LEMMA TotalNat ==
  ASSUME NEW D, IsFiniteSet(D), NEW f \in [D -> Nat]
  PROVE  IsFiniteSet(Under(f)) /\ Total(f) \in Nat
<1> DEFINE Column == [x \in D |-> {x} \X (1 .. f[x])]
           Columns == {Column[x] : x \in D}
<1>1. Column \in Surjection(D, Columns)
  <2>1. Column \in [D -> Columns]
    OBVIOUS
  <2>2. \A c \in Columns : \E x \in D : Column[x] = c
    OBVIOUS
  <2>3. QED  BY ONLY <2>1, <2>2, Fun_IsSurj
<1>2. IsFiniteSet(Columns)
  BY ONLY <1>1, FS_Surjection, IsFiniteSet(D)
<1>3. ASSUME NEW c \in Columns PROVE IsFiniteSet(c)
  <2>1. PICK x \in D : c = {x} \X (1 .. f[x])
    OBVIOUS
  <2>2. QED  BY <2>1, OneColumn
<1>4. Under(f) = UNION Columns
  BY DEF Under
<1>5. IsFiniteSet(Under(f))
  BY ONLY <1>2, <1>3, <1>4, FS_UNION
<1>6. QED  BY <1>5, FS_CardinalityType DEF Total

\* The empty sum.
LEMMA TotalEmpty ==
  ASSUME NEW f, DOMAIN f = {}
  PROVE  Total(f) = 0
<1>1. Under(f) = {}
  BY DEF Under
<1>2. QED  BY <1>1, FS_EmptySet DEF Total

\* A sum without one of its terms.
LEMMA TotalRemove ==
  ASSUME NEW D, IsFiniteSet(D), NEW g \in [D -> Nat], NEW x \in D
  PROVE  Total(g) = Total([y \in D \ {x} |-> g[y]]) + g[x]
<1> DEFINE f == [y \in D \ {x} |-> g[y]]
           New == {x} \X (1 .. g[x])
<1>1. Under(g) = Under(f) \cup New /\ Under(f) \cap New = {}
  BY DEF Under
<1>2. IsFiniteSet(New) /\ Cardinality(New) = g[x]
  BY OneColumn
<1>3. IsFiniteSet(Under(f)) /\ Total(f) \in Nat
  <2>1. IsFiniteSet(D \ {x}) /\ f \in [D \ {x} -> Nat]
    BY FS_Difference
  <2>2. QED  BY <2>1, TotalNat
<1>4. Cardinality(Under(f) \cup New)
        = Cardinality(Under(f)) + Cardinality(New) - Cardinality(Under(f) \cap New)
  <2> HIDE DEF f, New
  <2> QED  BY ONLY <1>2, <1>3, FS_Union
<1>5. g[x] \in Nat
  OBVIOUS
<1>6. Total(g) = Total(f) + g[x]
  <2> HIDE DEF f, New
  <2>1. Cardinality(Under(f) \cap New) = 0
    BY <1>1, FS_EmptySet
  <2>2. QED  BY <1>1, <1>2, <1>3, <1>4, <1>5, <2>1 DEF Total
<1>7. QED  BY <1>6

\* A sum whose terms are found among those of another is no larger.
LEMMA TotalInjection ==
  ASSUME NEW D, NEW E, IsFiniteSet(E), NEW f \in [D -> Nat], NEW g \in [E -> Nat],
         NEW h \in [D -> E], \A x, y \in D : h[x] = h[y] => x = y,
         \A x \in D : f[x] <= g[h[x]]
  PROVE  Total(f) <= Total(g)
<1> DEFINE H == [p \in Under(f) |-> <<h[p[1]], p[2]>>]
<1>1. ASSUME NEW p \in Under(f) PROVE H[p] \in Under(g)
  <2>1. p[1] \in D /\ p[2] \in 1 .. f[p[1]]
    BY UnderMember
  <2>2. h[p[1]] \in E /\ p[2] \in 1 .. g[h[p[1]]]
    BY <2>1
  <2>3. QED  BY <2>2, UnderMember
<1>2. ASSUME NEW p \in Under(f), NEW q \in Under(f), H[p] = H[q] PROVE p = q
  <2>1. p = <<p[1], p[2]>> /\ q = <<q[1], q[2]>> /\ p[1] \in D /\ q[1] \in D
    BY UnderMember
  <2>2. h[p[1]] = h[q[1]] /\ p[2] = q[2]
    BY <1>2
  <2>3. QED  BY <2>1, <2>2
<1>3. H \in Injection(Under(f), Under(g))
  <2>1. H \in [Under(f) -> Under(g)]
    BY <1>1
  <2>2. \A p, q \in Under(f) : H[p] = H[q] => p = q
    BY <1>2
  <2>3. QED  BY ONLY <2>1, <2>2, Fun_IsInj
<1>4. IsFiniteSet(Under(g))
  BY TotalNat
<1>5. QED  BY ONLY <1>3, <1>4, FS_Injection DEF Total

\* A sum with one more term, and one without its first.
LEMMA TotalGrows ==
  ASSUME NEW n \in Nat, NEW v \in [1 .. n -> Nat], NEW w \in [1 .. (n + 1) -> Nat],
         \A i \in 1 .. n : w[i] = v[i]
  PROVE  Total(w) = Total(v) + w[n + 1]
<1> DEFINE D == 1 .. (n + 1)
<1>1. IsFiniteSet(D) /\ n + 1 \in D /\ w \in [D -> Nat]
  <2>1. IsFiniteSet(1 .. (n + 1))
    BY FS_Interval
  <2>2. QED  BY <2>1
<1>2. D \ {n + 1} = 1 .. n
  OBVIOUS
<1>3. [y \in 1 .. n |-> w[y]] = v
  OBVIOUS
<1> HIDE DEF D
<1>4. Total(w) = Total([y \in D \ {n + 1} |-> w[y]]) + w[n + 1]
  BY <1>1, TotalRemove
<1>5. QED  BY <1>2, <1>3, <1>4

LEMMA TotalShrinks ==
  ASSUME NEW n \in Nat, NEW v \in [1 .. (n + 1) -> Nat], NEW w \in [1 .. n -> Nat],
         \A i \in 1 .. n : w[i] = v[i + 1]
  PROVE  Total(v) = Total(w) + v[1]
<1> DEFINE E == (1 .. (n + 1)) \ {1}
           u == [y \in E |-> v[y]]
           up == [i \in 1 .. n |-> i + 1]
           down == [i \in E |-> i - 1]
<1>1. IsFiniteSet(1 .. n) /\ IsFiniteSet(1 .. (n + 1)) /\ 1 \in 1 .. (n + 1)
  BY FS_Interval
<1>2. IsFiniteSet(E)
  BY <1>1, FS_Difference
<1>3. u \in [E -> Nat]
  OBVIOUS
<1>4. up \in [1 .. n -> E] /\ (\A x, y \in 1 .. n : up[x] = up[y] => x = y) /\ \A x \in 1 .. n : w[x] <= u[up[x]]
  OBVIOUS
<1>5. down \in [E -> 1 .. n] /\ (\A x, y \in E : down[x] = down[y] => x = y) /\ \A x \in E : u[x] <= w[down[x]]
  OBVIOUS
<1>6. Total(v) = Total(u) + v[1]
  BY <1>1, TotalRemove
<1>7. Total(w) \in Nat /\ Total(u) \in Nat
  <2> HIDE DEF u, E
  <2>1. QED  BY <1>1, <1>2, <1>3, TotalNat
<1> HIDE DEF u, E, up, down
<1>8. Total(w) <= Total(u)
  BY <1>2, <1>3, <1>4, TotalInjection
<1>9. Total(u) <= Total(w)
  BY <1>1, <1>3, <1>5, TotalInjection
<1>10. QED  BY <1>6, <1>7, <1>8, <1>9

\* How it changes with the queue.
LEMMA WeightFacts ==
  ASSUME NEW S, NEW q \in Seq(S), NEW T, \A m \in T : m.n \in Nat
  PROVE  /\ Weight(q, T) \in Nat
         /\ (\A i \in DOMAIN q : q[i] \notin T) => Weight(q, T) = 0
         /\ \A f \in S : Weight(Append(q, f), T) = Weight(q, T) + IF f \in T THEN f.n ELSE 0
         /\ q # <<>> => Weight(q, T) = Weight(Tail(q), T) + IF Head(q) \in T THEN Head(q).n ELSE 0
<1> DEFINE W(p) == [i \in DOMAIN p |-> IF p[i] \in T THEN p[i].n ELSE 0]
<1>1. ASSUME NEW p \in Seq(S) PROVE W(p) \in [1 .. Len(p) -> Nat] /\ Len(p) \in Nat /\ DOMAIN p = 1 .. Len(p)
  OBVIOUS
<1>2. \A p : Weight(p, T) = Total(W(p))
  BY DEF Weight
<1>3. Weight(q, T) \in Nat
  <2>1. IsFiniteSet(1 .. Len(q))
    BY FS_Interval
  <2>2. W(q) \in [1 .. Len(q) -> Nat]
    BY <1>1
  <2> HIDE DEF W
  <2>3. QED  BY <1>2, <2>1, <2>2, TotalNat
<1>4. ASSUME \A i \in DOMAIN q : q[i] \notin T PROVE Weight(q, T) = 0
  <2>1. W(q) = [i \in DOMAIN q |-> 0]
    BY <1>4
  <2>2. Under([i \in DOMAIN q |-> 0]) = {}
    BY DEF Under
  <2>3. QED  BY <1>2, <2>1, <2>2, FS_EmptySet DEF Total
<1>5. ASSUME NEW f \in S
      PROVE  Weight(Append(q, f), T) = Weight(q, T) + IF f \in T THEN f.n ELSE 0
  <2> DEFINE p == Append(q, f)
             n == Len(q)
  <2>1. p \in Seq(S) /\ Len(p) = n + 1 /\ n \in Nat /\ (\A i \in DOMAIN q : p[i] = q[i]) /\ p[n + 1] = f
    BY AppendFacts
  <2> HIDE DEF p, n
  <2>2. W(q) \in [1 .. n -> Nat] /\ W(p) \in [1 .. (n + 1) -> Nat] /\ DOMAIN q = 1 .. n /\ DOMAIN p = 1 .. (n + 1)
    BY <1>1, <2>1 DEF n
  <2>3. \A i \in 1 .. n : W(p)[i] = W(q)[i]
    <3>1. \A i \in 1 .. n : i \in 1 .. (n + 1)
      BY <2>1
    <3>2. QED  BY <2>1, <2>2, <3>1
  <2>4. W(p)[n + 1] = IF f \in T THEN f.n ELSE 0
    <3>1. n + 1 \in DOMAIN p
      BY <2>1, <2>2
    <3>2. QED  BY <2>1, <3>1
  <2> HIDE DEF W
  <2>5. Total(W(p)) = Total(W(q)) + W(p)[n + 1]
    BY <2>1, <2>2, <2>3, TotalGrows
  <2>6. Weight(p, T) = Weight(q, T) + IF f \in T THEN f.n ELSE 0
    BY <1>2, <2>4, <2>5
  <2>7. QED  BY <2>6 DEF p
<1>6. ASSUME q # <<>>
      PROVE  Weight(q, T) = Weight(Tail(q), T) + IF Head(q) \in T THEN Head(q).n ELSE 0
  <2> DEFINE p == Tail(q)
             n == Len(p)
  <2>1. /\ p \in Seq(S) /\ Len(q) = n + 1 /\ n \in Nat /\ Head(q) = q[1] /\ 1 \in DOMAIN q
        /\ \A i \in DOMAIN p : p[i] = q[i + 1]
    BY <1>6, TailFacts
  <2> HIDE DEF p
  <2>2. W(q) \in [1 .. (n + 1) -> Nat] /\ W(p) \in [1 .. n -> Nat] /\ DOMAIN q = 1 .. (n + 1) /\ DOMAIN p = 1 .. n
    BY <1>1, <2>1
  <2> HIDE DEF n
  <2>3. \A i \in 1 .. n : W(p)[i] = W(q)[i + 1]
    <3>1. \A i \in 1 .. n : i + 1 \in 1 .. (n + 1)
      BY <2>1
    <3>2. QED  BY <2>1, <2>2, <3>1
  <2>4. W(q)[1] = IF Head(q) \in T THEN Head(q).n ELSE 0
    BY <2>1
  <2> HIDE DEF W
  <2>5. Total(W(q)) = Total(W(p)) + W(q)[1]
    BY <2>1, <2>2, <2>3, TotalShrinks
  <2>6. Weight(q, T) = Weight(p, T) + IF Head(q) \in T THEN Head(q).n ELSE 0
    BY <1>2, <2>4, <2>5
  <2>7. QED  BY <2>6 DEF p
<1>7. QED  BY <1>3, <1>4, <1>5, <1>6

\* Queues that hold the same sizes at the same places weigh the same.
LEMMA WeightSame ==
  ASSUME NEW q, NEW p, NEW T, DOMAIN p = DOMAIN q,
         \A i \in DOMAIN q : p[i] = q[i] \/ (p[i] \notin T /\ q[i] \notin T)
  PROVE  Weight(p, T) = Weight(q, T)
<1>1. [i \in DOMAIN p |-> IF p[i] \in T THEN p[i].n ELSE 0] = [i \in DOMAIN q |-> IF q[i] \in T THEN q[i].n ELSE 0]
  OBVIOUS
<1>2. QED  BY <1>1 DEF Weight

\* What is left of a queue, when the queue changes at an end.
LEMMA RestFacts ==
  ASSUME NEW S, NEW q \in Seq(S), NEW g \in 0 .. Len(q)
  PROVE  /\ Rest(q, g) \in Seq(S) /\ Len(Rest(q, g)) = Len(q) - g
         /\ DOMAIN Rest(q, g) = 1 .. (Len(q) - g)
         /\ \A i \in 1 .. (Len(q) - g) : Rest(q, g)[i] = q[i + g]
         /\ g = 0 => Rest(q, g) = q
<1> DEFINE r == Rest(q, g)
           n == Len(q) - g
<1>1. Len(q) \in Nat /\ g \in Nat /\ n \in Nat /\ DOMAIN q = 1 .. Len(q)
  OBVIOUS
<1>2. \A i \in 1 .. n : i + g \in DOMAIN q
  BY <1>1
<1>3. \A i \in 1 .. n : q[i + g] \in S
  BY <1>2
<1>4. DOMAIN r = 1 .. n /\ (\A i \in 1 .. n : r[i] = q[i + g]) /\ r \in [1 .. n -> S]
  BY <1>3 DEF Rest
<1> HIDE DEF r, n
<1>5. r \in Seq(S) /\ Len(r) = n
  BY <1>1, <1>4, FunctionIsSequence
<1>6. ASSUME g = 0 PROVE r = q
  <2>1. Len(r) = Len(q) /\ \A i \in 1 .. Len(r) : r[i] = q[i]
    BY <1>1, <1>4, <1>5, <1>6 DEF n
  <2>2. QED  BY <1>5, <2>1, SeqEqual
<1>7. QED  BY <1>4, <1>5, <1>6 DEF r, n

LEMMA RestAppend ==
  ASSUME NEW S, NEW q \in Seq(S), NEW g \in 0 .. Len(q), NEW f \in S
  PROVE  Rest(Append(q, f), g) = Append(Rest(q, g), f)
<1> DEFINE p == Append(q, f)
           r == Rest(q, g)
           n == Len(q) - g
<1>1. p \in Seq(S) /\ Len(p) = Len(q) + 1 /\ (\A i \in DOMAIN q : p[i] = q[i]) /\ p[Len(q) + 1] = f
      /\ Len(q) \in Nat /\ DOMAIN q = 1 .. Len(q)
  BY AppendFacts
<1>2. g \in 0 .. Len(p) /\ g \in Nat /\ n \in Nat
  BY <1>1
<1>3. r \in Seq(S) /\ Len(r) = n /\ DOMAIN r = 1 .. n /\ \A i \in 1 .. n : r[i] = q[i + g]
  BY RestFacts
<1> HIDE DEF p
<1>4. /\ Rest(p, g) \in Seq(S) /\ Len(Rest(p, g)) = Len(p) - g /\ DOMAIN Rest(p, g) = 1 .. (Len(p) - g)
      /\ \A i \in 1 .. (Len(p) - g) : Rest(p, g)[i] = p[i + g]
  BY <1>1, <1>2, RestFacts
<1>5. Len(p) - g = n + 1
  BY <1>1, <1>2
<1> HIDE DEF r, n
<1>6. /\ Append(r, f) \in Seq(S) /\ Len(Append(r, f)) = n + 1 /\ Append(r, f)[n + 1] = f
      /\ \A i \in 1 .. n : Append(r, f)[i] = r[i]
  BY <1>3, AppendFacts
<1>7. ASSUME NEW i \in 1 .. (n + 1) PROVE Rest(p, g)[i] = Append(r, f)[i]
  <2>1. CASE i = n + 1
    <3>1. i + g = Len(q) + 1
      BY <1>1, <1>2, <2>1 DEF n
    <3>2. QED  BY <1>1, <1>4, <1>5, <1>6, <2>1, <3>1
  <2>2. CASE i \in 1 .. n
    <3>1. i + g \in DOMAIN q
      BY <1>1, <1>2, <2>2 DEF n
    <3>2. QED  BY <1>1, <1>3, <1>4, <1>5, <1>6, <2>2, <3>1
  <2>3. i = n + 1 \/ i \in 1 .. n
    <3>1. n \in Nat
      BY <1>2
    <3>2. QED  BY <3>1
  <2>4. QED  BY <2>1, <2>2, <2>3
<1>8. Rest(p, g) = Append(r, f)
  BY <1>4, <1>5, <1>6, <1>7, SeqEqual
<1>9. QED  BY <1>8 DEF p, r

LEMMA RestTail ==
  ASSUME NEW S, NEW q \in Seq(S), q # <<>>, NEW g \in 0 .. Len(Tail(q))
  PROVE  Rest(Tail(q), g) = Rest(q, g + 1) /\ g + 1 \in 0 .. Len(q)
<1> DEFINE p == Tail(q)
<1>1. /\ p \in Seq(S) /\ Len(p) = Len(q) - 1 /\ Len(q) \in Nat \ {0} /\ DOMAIN p = 1 .. (Len(q) - 1)
      /\ \A i \in DOMAIN p : p[i] = q[i + 1]
  BY TailFacts
<1> HIDE DEF p
<1>2. g \in Nat /\ g + 1 \in 0 .. Len(q) /\ g \in 0 .. Len(p)
  BY <1>1 DEF p
<1>3. /\ Rest(p, g) \in Seq(S) /\ Len(Rest(p, g)) = Len(p) - g
      /\ \A i \in 1 .. (Len(p) - g) : Rest(p, g)[i] = p[i + g]
  BY <1>1, <1>2, RestFacts
<1>4. /\ Rest(q, g + 1) \in Seq(S) /\ Len(Rest(q, g + 1)) = Len(q) - (g + 1)
      /\ \A i \in 1 .. (Len(q) - (g + 1)) : Rest(q, g + 1)[i] = q[i + (g + 1)]
  BY <1>2, RestFacts
<1>5. ASSUME NEW i \in 1 .. (Len(p) - g) PROVE Rest(p, g)[i] = Rest(q, g + 1)[i]
  <2>1. i + g \in DOMAIN p /\ (i + g) + 1 = i + (g + 1) /\ i \in 1 .. (Len(q) - (g + 1))
    BY <1>1, <1>2
  <2>2. QED  BY <1>1, <1>3, <1>4, <2>1
<1>6. Len(p) - g = Len(q) - (g + 1)
  BY <1>1, <1>2
<1>7. Rest(p, g) = Rest(q, g + 1)
  BY <1>3, <1>4, <1>5, <1>6, SeqEqual
<1>8. QED  BY <1>2, <1>7 DEF p

\* The sizes of data and credit are numbers.
LEMMA Sizes ==
  /\ \A c, h : \A f \in DataOn(c, h) : f.n \in Nat
  /\ \A c : \A r \in AcksOf(c) : r.n \in Nat
<1>1. \A c, h : \A f \in DataOn(c, h) : f.n \in Nat
  BY DataFields DEF DataOn
<1>2. QED  BY <1>1, RequestFields DEF AcksOf

\* What is left weighs as much more as the queue, at its end and at its front.
LEMMA RestWeight ==
  ASSUME NEW q \in Seq(Frames), NEW g \in 0 .. Len(q), NEW T, \A m \in T : m.n \in Nat
  PROVE  /\ Weight(Rest(q, g), T) \in Nat
         /\ g = Len(q) => Weight(Rest(q, g), T) = 0
         /\ \A f \in Frames : Weight(Rest(Append(q, f), g), T) = Weight(Rest(q, g), T) + IF f \in T THEN f.n ELSE 0
         /\ q # <<>> /\ g = 0 =>
              Weight(Rest(q, 0), T) = Weight(Rest(q, 1), T) + IF Head(q) \in T THEN Head(q).n ELSE 0
<1> DEFINE r == Rest(q, g)
<1>1. r \in Seq(Frames) /\ Len(r) = Len(q) - g /\ DOMAIN r = 1 .. (Len(q) - g) /\ Len(q) \in Nat
  BY RestFacts
<1>2. \A f \in Frames : Rest(Append(q, f), g) = Append(r, f)
  BY RestAppend
<1> HIDE DEF r
<1>3. Weight(r, T) \in Nat
  BY <1>1, WeightFacts
<1>4. ASSUME g = Len(q) PROVE Weight(r, T) = 0
  <2>1. DOMAIN r = 1 .. 0
    BY <1>1, <1>4
  <2>2. \A i \in DOMAIN r : r[i] \notin T
    BY <2>1
  <2>3. r \in Seq(Frames)
    BY <1>1
  <2>4. QED  BY <2>2, <2>3, WeightFacts
<1>5. \A f \in Frames : Weight(Append(r, f), T) = Weight(r, T) + IF f \in T THEN f.n ELSE 0
  BY <1>1, WeightFacts
<1>6. ASSUME q # <<>>, g = 0
      PROVE  Weight(Rest(q, 0), T) = Weight(Rest(q, 1), T) + IF Head(q) \in T THEN Head(q).n ELSE 0
  <2>1. Weight(q, T) = Weight(Tail(q), T) + IF Head(q) \in T THEN Head(q).n ELSE 0
    BY <1>6, WeightFacts
  <2>2. Rest(q, 0) = q
    BY <1>6, RestFacts
  <2>3. Tail(q) \in Seq(Frames) /\ 0 \in 0 .. Len(Tail(q))
    <3>1. Tail(q) \in Seq(Frames) /\ Len(Tail(q)) = Len(q) - 1 /\ Len(q) \in Nat \ {0}
      BY <1>6, TailFacts
    <3>2. QED  BY <3>1
  <2>4. Rest(Tail(q), 0) = Tail(q)
    BY <2>3, RestFacts
  <2>5. Rest(Tail(q), 0) = Rest(q, 0 + 1)
    BY <1>6, <2>3, RestTail
  <2>6. Rest(q, 1) = Tail(q)
    BY <2>4, <2>5
  <2>7. QED  BY <2>1, <2>2, <2>6
<1>7. QED  BY <1>2, <1>3, <1>4, <1>5, <1>6 DEF r

\* A queue in which some replies lost their names.
Alike(p, q) ==
  /\ DOMAIN p = DOMAIN q
  /\ \A i \in DOMAIN q : p[i] = q[i] \/ (p[i].op = "reply" /\ q[i].op = "reply" /\ p[i].who = None)

LEMMA AnonymousAlike ==
  ASSUME TypeOK, NEW o \in Objects
  PROVE  Alike(Anonymous(toHost, o), toHost)
<1> DEFINE t == Anonymous(toHost, o)
<1>1. /\ DOMAIN t = DOMAIN toHost
      /\ \A i \in DOMAIN toHost :
           t[i] = IF toHost[i].who = o THEN [toHost[i] EXCEPT !.who = None] ELSE toHost[i]
  BY AnonymousFacts
<1>2. \A i \in DOMAIN toHost : toHost[i] \in Frames
  BY DEF TypeOK
<1>3. \A f \in Frames : f.who = o =>
        f.op = "reply" /\ [f EXCEPT !.who = None].op = "reply" /\ [f EXCEPT !.who = None].who = None
  <2> SUFFICES ASSUME NEW f \in Frames, f.who = o
               PROVE f.op = "reply" /\ [f EXCEPT !.who = None].op = "reply" /\ [f EXCEPT !.who = None].who = None
    OBVIOUS
  <2>1. f.op = "reply"
    BY FrameFields, Names
  <2>2. QED  BY <2>1 DEF Frames
<1> HIDE DEF t
<1>4. Alike(t, toHost)
  BY <1>1, <1>2, <1>3 DEF Alike
<1>5. QED  BY <1>4 DEF t

LEMMA AlikeWeight ==
  ASSUME NEW q \in Seq(Frames), NEW p \in Seq(Frames), Alike(p, q), NEW g \in 0 .. Len(q), NEW c, NEW h
  PROVE  Len(p) = Len(q) /\ Weight(Rest(p, g), DataOn(c, h)) = Weight(Rest(q, g), DataOn(c, h))
<1>1. Len(p) = Len(q)
  <2>1. DOMAIN p = 1 .. Len(p) /\ DOMAIN q = 1 .. Len(q) /\ Len(p) \in Nat /\ Len(q) \in Nat
    OBVIOUS
  <2>2. \A i : i \in 1 .. Len(p) <=> i \in 1 .. Len(q)
    BY <2>1 DEF Alike
  <2> DEFINE m == Len(p)
             k == Len(q)
  <2>3. m \in Nat /\ k \in Nat /\ \A i : i \in 1 .. m <=> i \in 1 .. k
    BY <2>1, <2>2
  <2> HIDE DEF m, k
  <2>4. m > 0 => m \in 1 .. k
    BY <2>3
  <2>5. k > 0 => k \in 1 .. m
    BY <2>3
  <2>6. m = k
    BY <2>3, <2>4, <2>5
  <2>7. QED  BY <2>6 DEF m, k
<1> DEFINE T == DataOn(c, h)
<1>2. \A i \in DOMAIN q : p[i] = q[i] \/ (p[i] \notin T /\ q[i] \notin T)
  BY DEF Alike, DataOn, DataOf
<1>3. /\ DOMAIN Rest(p, g) = 1 .. (Len(q) - g) /\ DOMAIN Rest(q, g) = 1 .. (Len(q) - g)
      /\ \A i \in 1 .. (Len(q) - g) : Rest(p, g)[i] = p[i + g] /\ Rest(q, g)[i] = q[i + g]
  <2>1. g \in 0 .. Len(p)
    BY <1>1
  <2>2. /\ DOMAIN Rest(p, g) = 1 .. (Len(p) - g)
        /\ \A i \in 1 .. (Len(p) - g) : Rest(p, g)[i] = p[i + g]
    BY <2>1, RestFacts
  <2>3. /\ DOMAIN Rest(q, g) = 1 .. (Len(q) - g)
        /\ \A i \in 1 .. (Len(q) - g) : Rest(q, g)[i] = q[i + g]
    BY RestFacts
  <2>4. QED  BY <1>1, <2>2, <2>3
<1>4. \A i \in 1 .. (Len(q) - g) : i + g \in DOMAIN q
  OBVIOUS
<1> HIDE DEF T
<1>5. \A i \in DOMAIN Rest(q, g) :
        Rest(p, g)[i] = Rest(q, g)[i] \/ (Rest(p, g)[i] \notin T /\ Rest(q, g)[i] \notin T)
  BY <1>2, <1>3, <1>4
<1>6. Weight(Rest(p, g), T) = Weight(Rest(q, g), T)
  BY <1>3, <1>5, WeightSame
<1>7. QED  BY <1>1, <1>6 DEF T

-----------------------------------------------------------------------------
(* The slow queue *)

LEMMA SlowQueueStep ==
  ASSUME TypeOK, PlaceInv, [Next]_vars
  PROVE  \/ toBoard' = toBoard
         \/ \E op \in {"open", "close", "ack"} : Taking(op)
         \/ \E o \in Objects, r \in Requests :
              r = [op |-> "open", who |-> o, obj |-> o] /\ Open(o) /\ toBoard' = Append(toBoard, r)
         \/ \E o \in Objects, r \in Requests :
              r = [op |-> "close", who |-> o, h |-> handle[o]] /\ Close(o) /\ toBoard' = Append(toBoard, r)
         \/ \E c \in Conns, r \in Requests :
              r = [op |-> "ack", who |-> None, of |-> c, h |-> handle[c], n |-> acking[c]] /\ Ack(c) /\ acking[c] > 0
              /\ toBoard' = Append(toBoard, r)
         \/ \E o \in Objects : GiveUp(o) \/ Retry(o)
<1> DEFINE Goal ==
         \/ toBoard' = toBoard
         \/ \E op \in {"open", "close", "ack"} : Taking(op)
         \/ \E o \in Objects, r \in Requests :
              r = [op |-> "open", who |-> o, obj |-> o] /\ Open(o) /\ toBoard' = Append(toBoard, r)
         \/ \E o \in Objects, r \in Requests :
              r = [op |-> "close", who |-> o, h |-> handle[o]] /\ Close(o) /\ toBoard' = Append(toBoard, r)
         \/ \E c \in Conns, r \in Requests :
              r = [op |-> "ack", who |-> None, of |-> c, h |-> handle[c], n |-> acking[c]] /\ Ack(c) /\ acking[c] > 0
              /\ toBoard' = Append(toBoard, r)
         \/ \E o \in Objects : GiveUp(o) \/ Retry(o)
<1> SUFFICES Goal
  OBVIOUS
<1>1. CASE Board
  BY <1>1 DEF Board, PollData, PollClosed, PollListen, HandleOpen, HandleClose, HandleAck
<1>2. CASE Reader
  BY <1>2, ReaderQueue
<1>3. ASSUME NEW o \in Objects, Open(o) PROVE Goal
  <2> DEFINE r == [op |-> "open", who |-> o, obj |-> o]
  <2>1. Submit(r) /\ r \in Requests
    BY <1>3, AskFacts DEF Open
  <2> HIDE DEF r
  <2>2. toBoard' = toBoard \/ toBoard' = Append(toBoard, r)
    BY <2>1, SubmitFacts
  <2>3. QED  BY <1>3, <2>1, <2>2 DEF r
<1>4. ASSUME NEW o \in Objects, Close(o) PROVE Goal
  <2> DEFINE r == [op |-> "close", who |-> o, h |-> handle[o]]
  <2>1. r \in Requests /\ (Submit(r) \/ toBoard' = toBoard)
    BY <1>4, AskFacts DEF Close
  <2> HIDE DEF r
  <2>2. toBoard' = toBoard \/ toBoard' = Append(toBoard, r)
    BY <2>1, SubmitFacts
  <2>3. QED  BY <1>4, <2>1, <2>2 DEF r
<1>5. ASSUME NEW c \in Conns, Ack(c) PROVE Goal
  <2> DEFINE r == [op |-> "ack", who |-> None, of |-> c, h |-> handle[c], n |-> acking[c]]
  <2>1. Submit(r) /\ r \in Requests /\ acking[c] > 0
    BY <1>5, AskFacts DEF Ack
  <2> HIDE DEF r
  <2>2. toBoard' = toBoard \/ toBoard' = Append(toBoard, r)
    BY <2>1, SubmitFacts
  <2>3. QED  BY <1>5, <2>1, <2>2 DEF r
<1>6. ASSUME NEW o \in Objects, Register(o) \/ Forget(o) PROVE Goal
  BY <1>6 DEF Register, Forget
<1>7. ASSUME NEW c \in Conns, Recv(c) PROVE Goal
  BY <1>7 DEF Recv
<1>8. CASE UNCHANGED vars
  BY <1>8 DEF vars
<1>9. (\E o \in Objects : GiveUp(o) \/ Retry(o)) => Goal
  OBVIOUS
<1> HIDE DEF Goal
<1>10. CASE Application
  BY <1>3, <1>4, <1>5, <1>6, <1>7, <1>9, <1>10 DEF Application
<1>11. QED  BY <1>1, <1>2, <1>8, <1>10 DEF Next, Done

\* An answer that came from where the object's own request was.
LEMMA ReplyOrigin ==
  ASSUME TypeOK, PlaceInv, [Next]_vars, NEW o \in Objects,
         NEW j \in DOMAIN toHost', toHost'[j].who = o, toHost'[j].ok
  PROVE  \/ \E k \in DOMAIN toHost : toHost[k].who = o /\ toHost[k].ok
         \/ \E op \in {"open", "close"} : Taking(op) /\ Head(toBoard).who = o
<1>1. toHost \in Seq(Frames) /\ o # None
  BY Names DEF TypeOK
<1>2. CASE toHost' = toHost
  BY <1>2
<1>3. CASE toHost # <<>> /\ toHost' = Tail(toHost)
  <2>1. j + 1 \in DOMAIN toHost /\ toHost'[j] = toHost[j + 1]
    BY <1>1, <1>3, TailFacts
  <2>2. QED  BY <2>1
<1>4. ASSUME NEW f \in Frames, toHost' = Append(toHost, f)
      PROVE  toHost'[j] = f \/ \E k \in DOMAIN toHost : toHost[k].who = o /\ toHost[k].ok
  <2>1. toHost'[j] = f \/ (j \in DOMAIN toHost /\ toHost'[j] = toHost[j])
    BY <1>1, <1>4, AppendFacts
  <2>2. QED  BY <2>1
<1>5. ASSUME NEW f \in Frames, Sent(f), f.who = o, f.ok
      PROVE  \E op \in {"open", "close"} : Taking(op) /\ Head(toBoard).who = o
  BY <1>1, <1>5 DEF Sent, DataSent, ClosedSent, AcceptSent, RefusalSent, OpenedSent, ShutSent, Answer
<1>6. ASSUME NEW r \in Requests PROVE Busy(r) \in Frames /\ ~Busy(r).ok
  BY RecordTypes, RequestFields DEF Busy
<1>7. ASSUME NEW p \in Objects, NEW i \in DOMAIN Anonymous(toHost, p), Anonymous(toHost, p)[i].who = o,
             Anonymous(toHost, p)[i].ok
      PROVE  \E k \in DOMAIN toHost : toHost[k].who = o /\ toHost[k].ok
  <2>1. p # o
    BY <1>7, AnonymousFrom DEF Absent
  <2>2. From(Anonymous(toHost, p), toHost, o, 0)
    BY <2>1, AnonymousFrom
  <2>3. i + 0 \in DOMAIN toHost /\ Anonymous(toHost, p)[i] = toHost[i + 0]
    BY <1>7, <2>2 DEF From
  <2>4. QED  BY <1>7, <2>3
<1>8. ASSUME NEW p \in Objects, GiveUp(p) PROVE \E k \in DOMAIN toHost : toHost[k].who = o /\ toHost[k].ok
  BY <1>7, <1>8 DEF GiveUp
<1>9. ASSUME NEW p \in Objects, Retry(p) PROVE \E k \in DOMAIN toHost : toHost[k].who = o /\ toHost[k].ok
  <2> DEFINE t == Anonymous(toHost, p)
             b == Busy(Request(p))
  <2>1. b \in Frames /\ ~b.ok /\ (toHost' = t \/ toHost' = Append(t, b))
    BY <1>6, <1>9, RetryFacts
  <2>2. t \in Seq(Frames)
    BY AnonymousFacts
  <2>3. \A i \in DOMAIN t : t[i].who = o /\ t[i].ok => \E k \in DOMAIN toHost : toHost[k].who = o /\ toHost[k].ok
    BY <1>7
  <2> HIDE DEF t, b
  <2>4. j \in DOMAIN t /\ toHost'[j] = t[j]
    <3>1. CASE toHost' = t
      BY <3>1
    <3>2. CASE toHost' = Append(t, b)
      <4>1. toHost'[j] = b \/ (j \in DOMAIN t /\ toHost'[j] = t[j])
        BY <2>1, <2>2, <3>2, AppendFacts
      <4>2. QED  BY <2>1, <4>1
    <3>3. QED  BY <2>1, <3>1, <3>2
  <2>5. QED  BY <2>3, <2>4
<1>10. CASE \E f \in Frames : Sent(f) /\ toHost' = Append(toHost, f)
  BY <1>4, <1>5, <1>10
<1>11. CASE \E r \in Requests : toHost' = Append(toHost, Busy(r))
  BY <1>4, <1>6, <1>11
<1>12. QED  BY <1>2, <1>3, <1>8, <1>9, <1>10, <1>11, HostQueue

\* Where an open request in the slow queue comes from.
Requested(d, i) ==
  \/ /\ i + d \in DOMAIN toBoard /\ toBoard[i + d].op = "open" /\ toBoard[i + d].obj = toBoard'[i].obj
     /\ toBoard'[i].who \in {toBoard[i + d].who, None}
  \/ /\ i = Len(toBoard) + 1 /\ d = 0
     /\ \E o \in Objects : (Open(o) \/ (Retry(o) /\ pc[o] = "opening")) /\ toBoard'[i].obj = o /\ toBoard'[i].who = o

LEMMA OpenOrigin ==
  ASSUME TypeOK, PlaceInv, [Next]_vars
  PROVE  \E d \in {0, 1} : \A i \in DOMAIN toBoard' : toBoard'[i].op = "open" => Requested(d, i)
<1>1. toBoard \in Seq(Requests) /\ DOMAIN toBoard \subseteq Nat
  BY DEF TypeOK
<1>2. CASE toBoard' = toBoard
  <2>1. ASSUME NEW i \in DOMAIN toBoard', toBoard'[i].op = "open" PROVE Requested(0, i)
    <3>1. i + 0 = i
      BY <1>1, <1>2
    <3>2. QED  BY <1>2, <2>1, <3>1 DEF Requested
  <2>2. QED  BY <2>1
<1>3. ASSUME NEW op \in {"open", "close", "ack"}, Taking(op)
      PROVE  \A i \in DOMAIN toBoard' : Requested(1, i) \/ toBoard'[i].op # "open"
  <2>1. toBoard # <<>> /\ toBoard' = Tail(toBoard)
    BY <1>3 DEF Taking
  <2>2. \A i \in DOMAIN toBoard' : i + 1 \in DOMAIN toBoard /\ toBoard'[i] = toBoard[i + 1]
    BY <1>1, <2>1, TailFacts
  <2>3. QED  BY <2>2 DEF Requested
<1>4. ASSUME NEW r \in Requests, toBoard' = Append(toBoard, r), NEW i \in DOMAIN toBoard', toBoard'[i].op = "open",
             r.op = "open" => \E o \in Objects : Open(o) /\ r.obj = o /\ r.who = o
      PROVE  Requested(0, i)
  <2>1. (i = Len(toBoard) + 1 /\ toBoard'[i] = r) \/ (i \in DOMAIN toBoard /\ toBoard'[i] = toBoard[i] /\ i + 0 = i)
    BY <1>1, <1>4, AppendFacts
  <2>2. QED  BY <1>4, <2>1 DEF Requested
<1>5. ASSUME NEW p \in Objects, NEW i \in DOMAIN Anonymous(toBoard, p), Anonymous(toBoard, p)[i].op = "open",
             toBoard'[i] = Anonymous(toBoard, p)[i]
      PROVE  Requested(0, i)
  <2>1. /\ i \in DOMAIN toBoard /\ i + 0 = i /\ toBoard[i] \in Requests
        /\ toBoard'[i] = IF toBoard[i].who = p THEN [toBoard[i] EXCEPT !.who = None] ELSE toBoard[i]
    <3>1. i \in DOMAIN toBoard
      BY <1>5, AnonymousFacts
    <3>2. i + 0 = i /\ toBoard[i] \in Requests
      BY <1>1, <3>1
    <3>3. Anonymous(toBoard, p)[i] = IF toBoard[i].who = p THEN [toBoard[i] EXCEPT !.who = None] ELSE toBoard[i]
      BY <3>1, AnonymousFacts
    <3>4. QED  BY <1>5, <3>1, <3>2, <3>3
  <2>2. CASE toBoard[i].who # p
    BY <1>5, <2>1, <2>2 DEF Requested
  <2>3. CASE toBoard[i].who = p
    <3>1. toBoard'[i] = [toBoard[i] EXCEPT !.who = None]
      BY <2>1, <2>3
    <3>2. toBoard[i].op = "open" /\ toBoard'[i].obj = toBoard[i].obj /\ toBoard'[i].who = None
      BY <1>5, <2>1, <3>1 DEF Requests
    <3>3. QED  BY <2>1, <3>2 DEF Requested
  <2>4. QED  BY <2>2, <2>3
<1>6. ASSUME NEW p \in Objects, GiveUp(p), NEW i \in DOMAIN toBoard', toBoard'[i].op = "open" PROVE Requested(0, i)
  BY <1>5, <1>6 DEF GiveUp
<1>7. ASSUME NEW p \in Objects, Retry(p), NEW i \in DOMAIN toBoard', toBoard'[i].op = "open" PROVE Requested(0, i)
  <2> DEFINE b == Anonymous(toBoard, p)
             r == Request(p)
  <2>1. r \in Requests /\ r.who = p /\ (toBoard' = Append(b, r) \/ toBoard' = b)
        /\ (r.op = "open" => pc[p] = "opening" /\ r.obj = p)
    BY <1>7, RetryFacts
  <2>2. b \in Seq(Requests) /\ Len(b) = Len(toBoard)
    BY AnonymousFacts
  <2>3. \A k \in DOMAIN b : b[k].op = "open" /\ toBoard'[k] = b[k] => Requested(0, k)
    BY <1>5
  <2> HIDE DEF b, r
  <2>4. CASE toBoard' = b
    BY <1>7, <2>3, <2>4
  <2>5. CASE toBoard' = Append(b, r)
    <3>1. (i = Len(b) + 1 /\ toBoard'[i] = r) \/ (i \in DOMAIN b /\ toBoard'[i] = b[i])
      BY <2>1, <2>2, <2>5, AppendFacts
    <3>2. CASE i \in DOMAIN b /\ toBoard'[i] = b[i]
      BY <1>7, <2>3, <3>2
    <3>3. CASE i = Len(toBoard) + 1 /\ toBoard'[i] = r
      BY <1>7, <2>1, <3>3 DEF Requested
    <3>4. QED  BY <2>2, <3>1, <3>2, <3>3
  <2>6. QED  BY <2>1, <2>4, <2>5
<1>8. ASSUME NEW o \in Objects, NEW r \in Requests,
             r = [op |-> "open", who |-> o, obj |-> o], Open(o), toBoard' = Append(toBoard, r)
      PROVE  \A i \in DOMAIN toBoard' : toBoard'[i].op = "open" => Requested(0, i)
  <2>1. \E p \in Objects : Open(p) /\ r.obj = p /\ r.who = p
    BY <1>8
  <2>2. QED  BY <1>4, <1>8, <2>1
<1>9. ASSUME NEW r \in Requests, r.op # "open", toBoard' = Append(toBoard, r)
      PROVE  \A i \in DOMAIN toBoard' : toBoard'[i].op = "open" => Requested(0, i)
  BY <1>4, <1>9
<1>10. CASE \E o \in Objects, r \in Requests : r = [op |-> "close", who |-> o, h |-> handle[o]] /\ Close(o) /\ toBoard' = Append(toBoard, r)
  BY <1>9, <1>10
<1>11. CASE \E c \in Conns, r \in Requests :
              r = [op |-> "ack", who |-> None, of |-> c, h |-> handle[c], n |-> acking[c]] /\ Ack(c) /\ acking[c] > 0
              /\ toBoard' = Append(toBoard, r)
  BY <1>9, <1>11
<1>12. QED  BY <1>2, <1>3, <1>6, <1>7, <1>8, <1>10, <1>11, SlowQueueStep

\* An object that has asked keeps waiting, or has given up.
LEMMA AskedStays ==
  ASSUME TypeOK, CallInv, PlaceInv, AcceptInv, AskedInv, [Next]_vars,
         NEW i \in DOMAIN toBoard, toBoard[i].op = "open", NEW o \in Objects, o = toBoard[i].obj
  PROVE  handle'[o] = 0 /\ pc'[o] \in {"opening", "done"}
<1>1. o \notin Incoming /\ handle[o] = 0 /\ pc[o] \in {"opening", "done"}
      /\ \A k \in DOMAIN toHost : toHost[k].who = o => ~toHost[k].ok
  BY DEF AskedInv, Asking
<1>2. CASE handle'[o] = handle[o] /\ (pc'[o] = pc[o] \/ <<pc[o], pc'[o]>> \in Steps)
  BY <1>1, <1>2 DEF Steps
<1>3. CASE Reader /\ toHost # <<>> /\ Grant(Head(toHost), o, handle'[o])
  <2>1. Head(toHost) = toHost[1] /\ 1 \in DOMAIN toHost
    BY <1>3, ReaderQueue
  <2>2. Head(toHost).op = "accept" /\ Head(toHost).conn = o
    BY <1>1, <1>3, <2>1 DEF Grant
  <2>3. o \in arrived
    BY <2>1, <2>2 DEF AcceptInv
  <2>4. QED  BY <1>1, <2>3 DEF TypeOK
<1>4. QED  BY <1>2, <1>3, ThreadStep

LEMMA AskedStep ==
  ASSUME TypeOK, SizeInv, CallInv, PlaceInv, AcceptInv, AskedInv, [Next]_vars
  PROVE  AskedInv'
<1>1. PICK d \in {0, 1} : \A i \in DOMAIN toBoard' : toBoard'[i].op = "open" => Requested(d, i)
  BY OpenOrigin
<1>2. TypeOK' /\ CallInv' /\ toBoard \in Seq(Requests) /\ toBoard' \in Seq(Requests)
      /\ DOMAIN toBoard' = 1 .. Len(toBoard') /\ Len(toBoard') \in Nat
      /\ DOMAIN toBoard = 1 .. Len(toBoard) /\ Len(toBoard) \in Nat
  <2>1. TypeOK' /\ CallInv'
    BY TypeStep, CallStep
  <2>2. QED  BY <2>1 DEF TypeOK
<1>3. ASSUME NEW i \in DOMAIN toBoard', toBoard'[i].op = "open", NEW o \in Objects, o = toBoard'[i].obj
      PROVE  Asking(i, o)'
  <2>1. CallOf(o)' /\ CallOf(o) /\ o # None
    BY <1>2, Names DEF CallInv
  <2>2. CASE i + d \in DOMAIN toBoard /\ toBoard[i + d].op = "open" /\ toBoard[i + d].obj = o
             /\ toBoard'[i].who \in {toBoard[i + d].who, None}
    <3>1. Asking(i + d, o)
      BY <2>2 DEF AskedInv
    <3>2. o \notin Incoming /\ handle'[o] = 0 /\ pc'[o] \in {"opening", "done"}
      BY <2>2, <3>1, AskedStays DEF Asking
    <3>3. toBoard'[i].who \in {o, None}
      BY <2>2, <3>1 DEF Asking
    <3>4. ASSUME toBoard'[i].who = o, NEW j \in DOMAIN toBoard', j > i, Opening(toBoard'[j], o) PROVE FALSE
      <4>1. toBoard[i + d].who = o
        BY <2>1, <2>2, <3>4
      <4>2. CASE j + d \in DOMAIN toBoard /\ toBoard[j + d].op = "open" /\ toBoard[j + d].obj = toBoard'[j].obj
        <5>1. Opening(toBoard[j + d], o)
          BY <3>4, <4>2 DEF Opening
        <5>2. j + d > i + d
          BY <1>2, <3>4
        <5>3. QED  BY <3>1, <4>1, <4>2, <5>1, <5>2 DEF Asking
      <4>3. CASE \E p \in Objects : toBoard'[j].obj = p /\ toBoard'[j].who = p
        <5>1. toBoard'[j].who = o
          BY <3>4, <4>3 DEF Opening
        <5>2. j = i
          BY <2>1, <3>4, <5>1 DEF CallOf
        <5>3. QED  BY <1>2, <3>4, <5>2
      <4>4. Requested(d, j)
        BY <1>1, <3>4 DEF Opening
      <4>5. QED  BY <4>2, <4>3, <4>4 DEF Requested
    <3>5. ASSUME NEW j \in DOMAIN toHost', toHost'[j].who = o, toHost'[j].ok PROVE FALSE
      <4>1. ~ \E k \in DOMAIN toHost : toHost[k].who = o /\ toHost[k].ok
        BY <3>1 DEF Asking
      <4>2. PICK op \in {"open", "close"} : Taking(op) /\ Head(toBoard).who = o
        BY <3>5, <4>1, ReplyOrigin
      <4>3. Head(toBoard) = toBoard[1] /\ 1 \in DOMAIN toBoard /\ toBoard # <<>> /\ toBoard' = Tail(toBoard)
        BY <1>2, <4>2, TailFacts DEF Taking
      <4>4. i + 1 \in DOMAIN toBoard /\ toBoard'[i] = toBoard[i + 1] /\ i + 1 > 1
        <5>1. i + 1 \in DOMAIN toBoard /\ toBoard'[i] = toBoard[i + 1]
          BY <1>2, <4>3, TailFacts
        <5>2. QED  BY <1>2, <5>1
      <4>5. Opening(toBoard[1], o)
        BY <2>1, <3>1, <4>2, <4>3 DEF CallOf, Asking, Opening
      <4>6. Asking(1, o)
        BY <4>3, <4>5 DEF AskedInv, Opening
      <4>7. ~Opening(toBoard[i + 1], o)
        BY <4>2, <4>3, <4>4, <4>6 DEF Asking
      <4>8. QED  BY <1>3, <4>4, <4>7 DEF Opening
    <3>6. QED  BY <3>2, <3>3, <3>4, <3>5 DEF Asking
  <2>3. CASE i = Len(toBoard) + 1 /\ (Open(o) \/ (Retry(o) /\ pc[o] = "opening")) /\ toBoard'[i].who = o
    <3>1. o \notin Incoming /\ handle'[o] = 0 /\ pc'[o] = "opening"
      <4>1. CASE Open(o)
        BY <4>1 DEF Open, Goto, TypeOK, PlaceInv
      <4>2. CASE Retry(o) /\ pc[o] = "opening"
        BY <4>2 DEF Retry, PlaceInv
      <4>3. QED  BY <2>3, <4>1, <4>2
    <3>2. \A j \in DOMAIN toHost' : toHost'[j].who # o
      BY <1>3, <2>1, <2>3 DEF CallOf
    <3>3. Len(toBoard') = Len(toBoard) + 1 \/ Len(toBoard') = Len(toBoard)
      <4>1. CASE Open(o)
        <5> DEFINE r == [op |-> "open", who |-> o, obj |-> o]
        <5>1. r \in Requests /\ Submit(r)
          BY <4>1, AskFacts DEF Open
        <5> HIDE DEF r
        <5>2. toBoard' = Append(toBoard, r) \/ toBoard' = toBoard
          BY <5>1, SubmitFacts
        <5>3. Len(Append(toBoard, r)) = Len(toBoard) + 1
          BY <1>2, <5>1, AppendFacts
        <5>4. QED  BY <5>2, <5>3
      <4>2. CASE Retry(o)
        <5> DEFINE b == Anonymous(toBoard, o)
                   r == Request(o)
        <5>1. r \in Requests /\ (toBoard' = Append(b, r) \/ toBoard' = b)
          BY <4>2, RetryFacts
        <5>2. b \in Seq(Requests) /\ Len(b) = Len(toBoard)
          BY AnonymousFacts
        <5> HIDE DEF b, r
        <5>3. Len(Append(b, r)) = Len(b) + 1
          BY <5>1, <5>2, AppendFacts
        <5>4. QED  BY <5>1, <5>2, <5>3
      <4>3. QED  BY <2>3, <4>1, <4>2
    <3>4. \A j \in DOMAIN toBoard' : ~(j > i)
      <4> DEFINE m == Len(toBoard')
                 n == Len(toBoard)
      <4>1. DOMAIN toBoard' = 1 .. m /\ m \in Nat /\ n \in Nat /\ i = n + 1 /\ (m = n + 1 \/ m = n)
        BY <1>2, <2>3, <3>3
      <4> HIDE DEF m, n
      <4>2. \A j \in 1 .. m : ~(j > n + 1)
        BY <4>1
      <4>3. QED  BY <4>1, <4>2
    <3>5. QED  BY <2>3, <3>1, <3>2, <3>4 DEF Asking
  <2>4. QED  BY <1>1, <1>3, <2>2, <2>3 DEF Requested
<1>4. \A i \in DOMAIN toBoard' : toBoard'[i].op = "open" => toBoard'[i].obj \in Objects
  <2>1. \A i \in DOMAIN toBoard' : toBoard'[i] \in Requests
    BY <1>2
  <2>2. QED  BY <2>1, RequestFields
<1>5. QED  BY <1>3, <1>4 DEF AskedInv

-----------------------------------------------------------------------------
(* Credit under way, and what was taken *)

LEMMA AckStep ==
  ASSUME TypeOK, CallInv, PlaceInv, AcceptInv, AckInv, [Next]_vars
  PROVE  AckInv'
<1> DEFINE Works(c, h) == handle'[c] = h /\ pc'[c] \notin {"new", "opening", "register"}
<1> SUFFICES ASSUME NEW i \in DOMAIN toBoard', toBoard'[i].op = "ack"
             PROVE  Works(toBoard'[i].of, toBoard'[i].h)
  BY DEF AckInv
<1>1. toBoard \in Seq(Requests)
  BY DEF TypeOK
<1>2. ASSUME NEW c \in Conns, pc[c] \notin {"new", "opening", "register"}
      PROVE  Works(c, handle[c])
  BY <1>2, ThreadFacts, Names
<1>3. ASSUME NEW k \in DOMAIN toBoard, toBoard[k].op = "ack"
      PROVE  Works(toBoard[k].of, toBoard[k].h)
  <2>1. toBoard[k].of \in Conns
    <3>1. toBoard[k] \in Requests
      BY <1>1
    <3>2. QED  BY <1>3, <3>1, RequestFields
  <2>2. handle[toBoard[k].of] = toBoard[k].h /\ pc[toBoard[k].of] \notin {"new", "opening", "register"}
    BY <1>3 DEF AckInv
  <2> HIDE DEF Works
  <2>3. QED  BY <1>2, <2>1, <2>2
<1> HIDE DEF Works
<1>4. CASE toBoard' = toBoard
  BY <1>3, <1>4
<1>5. ASSUME NEW op \in {"open", "close", "ack"}, Taking(op) PROVE \E k \in DOMAIN toBoard : toBoard'[i] = toBoard[k]
  <2>1. toBoard # <<>> /\ toBoard' = Tail(toBoard)
    BY <1>5 DEF Taking
  <2>2. QED  BY <1>1, <2>1, TailFacts
<1>6. ASSUME NEW r \in Requests, toBoard' = Append(toBoard, r)
      PROVE  toBoard'[i] = r \/ \E k \in DOMAIN toBoard : toBoard'[i] = toBoard[k]
  BY <1>1, <1>6, AppendFacts
<1>7. ASSUME NEW c \in Conns, NEW r \in Requests,
             r = [op |-> "ack", who |-> None, of |-> c, h |-> handle[c], n |-> acking[c]], acking[c] > 0
      PROVE  Works(r.of, r.h)
  <2>1. pc[c] = "use"
    BY <1>7 DEF PlaceInv
  <2>2. Works(c, handle[c])
    BY <1>2, <2>1
  <2>3. QED  BY <1>7, <2>2
<1>8. ASSUME NEW o \in Objects, NEW k \in DOMAIN Anonymous(toBoard, o), Anonymous(toBoard, o)[k].op = "ack"
      PROVE  Works(Anonymous(toBoard, o)[k].of, Anonymous(toBoard, o)[k].h)
  <2>1. k \in DOMAIN toBoard
    BY <1>8, AnonymousFacts
  <2>2. Anonymous(toBoard, o)[k] = IF toBoard[k].who = o THEN [toBoard[k] EXCEPT !.who = None] ELSE toBoard[k]
    BY <2>1, AnonymousFacts
  <2>3. toBoard[k] \in Requests
    BY <1>1, <2>1
  <2>4. toBoard[k].op = "ack" /\ Anonymous(toBoard, o)[k].of = toBoard[k].of /\ Anonymous(toBoard, o)[k].h = toBoard[k].h
    BY <1>8, <2>2, <2>3 DEF Requests
  <2>5. QED  BY <1>3, <2>1, <2>4
<1>9. ASSUME NEW o \in Objects, GiveUp(o) PROVE Works(toBoard'[i].of, toBoard'[i].h)
  BY <1>8, <1>9 DEF GiveUp
<1>10. ASSUME NEW o \in Objects, Retry(o) PROVE Works(toBoard'[i].of, toBoard'[i].h)
  <2> DEFINE b == Anonymous(toBoard, o)
             r == Request(o)
  <2>1. r \in Requests /\ r.op # "ack" /\ (toBoard' = Append(b, r) \/ toBoard' = b)
    BY <1>10, RetryFacts
  <2>2. b \in Seq(Requests) /\ \A k \in DOMAIN b : b[k].op = "ack" => Works(b[k].of, b[k].h)
    BY <1>8, AnonymousFacts
  <2> HIDE DEF b, r
  <2>3. i \in DOMAIN b /\ toBoard'[i] = b[i]
    <3>1. CASE toBoard' = b
      BY <3>1
    <3>2. CASE toBoard' = Append(b, r)
      <4>1. toBoard'[i] = r \/ (i \in DOMAIN b /\ toBoard'[i] = b[i])
        BY <2>1, <2>2, <3>2, AppendFacts
      <4>2. QED  BY <2>1, <4>1
    <3>3. QED  BY <2>1, <3>1, <3>2
  <2>4. QED  BY <2>2, <2>3
<1>11. CASE \E op \in {"open", "close", "ack"} : Taking(op)
  BY <1>3, <1>5, <1>11
<1>12. ASSUME NEW r \in Requests, r.op # "ack", toBoard' = Append(toBoard, r)
       PROVE  Works(toBoard'[i].of, toBoard'[i].h)
  BY <1>3, <1>6, <1>12
<1>13. CASE \E o \in Objects, r \in Requests : r = [op |-> "open", who |-> o, obj |-> o] /\ toBoard' = Append(toBoard, r)
  BY <1>12, <1>13
<1>14. CASE \E o \in Objects, r \in Requests : r = [op |-> "close", who |-> o, h |-> handle[o]] /\ toBoard' = Append(toBoard, r)
  BY <1>12, <1>14
<1>15. CASE \E c \in Conns, r \in Requests :
              r = [op |-> "ack", who |-> None, of |-> c, h |-> handle[c], n |-> acking[c]] /\ acking[c] > 0
              /\ toBoard' = Append(toBoard, r)
  BY <1>3, <1>6, <1>7, <1>15
<1>16. QED  BY <1>4, <1>9, <1>10, <1>11, <1>13, <1>14, <1>15, SlowQueueStep

\* What one step does to a socket's stream.
LEMMA StreamStep ==
  ASSUME TypeOK, PlaceInv, [Next]_vars, NEW c \in Conns
  PROVE  \/ UNCHANGED <<taken, acking>> /\ (fed' = fed \/ OnData)
         \/ fed' = fed /\ \E d \in Conns : Recv(d) \/ Ack(d)
<1>1. CASE Board
  BY <1>1, BoardCases DEF host
<1>2. CASE Reader
  BY <1>2 DEF Reader, OnData, OnAccept, OnClosed, OnReply
<1>3. CASE Application
  BY <1>3 DEF Application, Open, Register, Close, Forget, GiveUp, Retry, Recv, Ack
<1>4. CASE UNCHANGED vars
  BY <1>4 DEF vars, host
<1>5. QED  BY <1>1, <1>2, <1>3, <1>4 DEF Next, Done

\* The bytes a socket is given are added to those it has.
LEMMA FedGrows ==
  ASSUME TypeOK, OnData, NEW c \in Conns
  PROVE  LET e == Head(toHost) IN
         /\ e \in DataOf(e.conn) /\ e.h \in Handles /\ e.conn \in Conns
         /\ Len(fed'[c]) = Len(fed[c]) + IF sockets[e.h] = c THEN e.n ELSE 0
<1> DEFINE e == Head(toHost)
           b == BytesOf(e)
<1>1. e \in Frames /\ e.op = "data" /\ e \in DataOf(e.conn)
  BY ReceiveFacts DEF OnData, DataOf
<1>2. e.h \in Handles /\ e.conn \in Conns /\ e.n \in Nat \ {0}
  BY <1>1, DataFields
<1>3. b \in [1 .. e.n -> Conns \X Int]
  <2>1. e.from \in Nat
    BY <1>1, DataFields
  <2>2. QED  BY <1>2, <2>1 DEF BytesOf
<1>4. b \in Seq(Conns \X Int) /\ Len(b) = e.n
  BY <1>2, <1>3, FunctionIsSequence
<1>5. fed[c] \in Seq(Conns \X Int) /\ Len(fed[c]) \in Nat
  <2>1. fed[c] \in Seq(Byte) /\ Byte \subseteq Conns \X Int
    BY DEF TypeOK, Byte
  <2>2. QED  BY <2>1
<1>6. fed'[c] = IF sockets[e.h] = c THEN fed[c] \o b ELSE fed[c]
  BY DEF OnData, Registered, BytesOf
<1> HIDE DEF b, e
<1>7. Len(fed[c] \o b) = Len(fed[c]) + Len(b)
  <2> DEFINE S == Conns \X Int
  <2>1. fed[c] \in Seq(S) /\ b \in Seq(S)
    BY <1>4, <1>5
  <2> HIDE DEF S
  <2>2. QED  BY <2>1
<1>8. Len(fed'[c]) = Len(fed[c]) + IF sockets[e.h] = c THEN e.n ELSE 0
  BY <1>2, <1>4, <1>5, <1>6, <1>7
<1>9. QED  BY <1>1, <1>2, <1>8 DEF e

LEMMA TakenStep ==
  ASSUME TypeOK, PlaceInv, TakenInv, [Next]_vars
  PROVE  TakenInv'
<1> SUFFICES ASSUME NEW c \in Conns PROVE taken'[c] <= Len(fed'[c])
  BY DEF TakenInv
<1>1. taken[c] <= Len(fed[c]) /\ taken[c] \in Nat /\ Len(fed[c]) \in Nat
  BY DEF TakenInv, TypeOK
<1>2. CASE taken' = taken /\ fed' = fed
  BY <1>1, <1>2
<1>3. CASE taken' = taken /\ OnData
  <2>1. Len(fed'[c]) = Len(fed[c]) + (IF sockets[Head(toHost).h] = c THEN Head(toHost).n ELSE 0)
        /\ Head(toHost) \in DataOf(Head(toHost).conn)
    BY <1>3, FedGrows
  <2>2. Head(toHost).n \in Nat
    BY <2>1, DataFields
  <2>3. Len(fed'[c]) >= Len(fed[c])
    BY <1>1, <2>1, <2>2
  <2>4. QED  BY <1>1, <1>3, <2>1, <2>2, <2>3
<1>4. ASSUME NEW d \in Conns, Recv(d), fed' = fed PROVE taken'[c] <= Len(fed'[c])
  <2>1. PICK n \in 1 .. (Len(fed[d]) - taken[d]) : taken' = [taken EXCEPT ![d] = @ + n]
    BY <1>4 DEF Recv
  <2>2. taken[d] \in Nat /\ Len(fed[d]) \in Nat
    BY DEF TypeOK
  <2>3. taken[d] + n <= Len(fed[d])
    BY <2>1, <2>2
  <2>4. c # d => taken'[c] = taken[c]
    BY <2>1 DEF TypeOK
  <2>5. taken'[d] = taken[d] + n
    BY <2>1 DEF TypeOK
  <2>6. QED  BY <1>1, <1>4, <2>3, <2>4, <2>5
<1>5. ASSUME NEW d \in Conns, Ack(d), fed' = fed PROVE taken'[c] <= Len(fed'[c])
  BY <1>1, <1>5 DEF Ack
<1>6. QED  BY <1>2, <1>3, <1>4, <1>5, StreamStep

-----------------------------------------------------------------------------
(* What is left of a slot's last connection *)

\* Slots change hands through being empty, and go to those who have none.
LEMMA SlotsStep ==
  ASSUME TypeOK, CallInv, PlaceInv, AcceptInv, AskedInv, [Next]_vars
  PROVE  \/ socks' = socks
         \/ \E x \in Handles : socks' = [socks EXCEPT ![x] = None]
         \/ \E x \in Handles, v \in Objects :
              /\ socks[x] = None /\ socks' = [socks EXCEPT ![x] = v]
              /\ handle[v] = 0 /\ pc[v] \in {"new", "opening", "done"}
              /\ windowUsed' = [windowUsed EXCEPT ![x] = 0]
              /\ \A j \in DOMAIN toHost : ~Grant(toHost[j], v, x)
              /\ UNCHANGED host
<1> DEFINE GivenTo(x, v) ==
              /\ socks[x] = None /\ socks' = [socks EXCEPT ![x] = v]
              /\ handle[v] = 0 /\ pc[v] \in {"new", "opening", "done"}
              /\ windowUsed' = [windowUsed EXCEPT ![x] = 0]
              /\ \A j \in DOMAIN toHost : ~Grant(toHost[j], v, x)
              /\ UNCHANGED host
           Goal == \/ socks' = socks
                   \/ \E x \in Handles : socks' = [socks EXCEPT ![x] = None]
                   \/ \E x \in Handles, v \in Objects : GivenTo(x, v)
<1> SUFFICES Goal
  OBVIOUS
<1>1. ASSUME NEW h \in Handles, PollListen(h) PROVE Goal
  <2>1. PICK c \in Incoming :
          /\ c \notin arrived
          /\ arrived' = arrived \cup {c}
          /\ IF Free = {}
             THEN UNCHANGED <<board, toHost, ghosts>>
             ELSE /\ socks' = [socks EXCEPT ![AllocateSocket] = c]
                  /\ windowUsed' = [windowUsed EXCEPT ![AllocateSocket] = 0]
                  /\ Emit([op |-> "accept", who |-> None, h |-> h, conn |-> c, new |-> AllocateSocket])
          /\ UNCHANGED <<read, toBoard, host>>
    BY <1>1 DEF PollListen
  <2>2. CASE Free = {}
    BY <2>1, <2>2 DEF board
  <2>3. CASE Free # {}
    <3>1. AllocateSocket \in Handles /\ socks[AllocateSocket] = None
      BY <2>3, FirstFree DEF Free
    <3>2. c \in Objects
      BY Names
    <3>3. pc[c] = "new" /\ handle[c] = 0
      BY <2>1, <3>2 DEF AcceptInv, PlaceInv
    <3>4. \A j \in DOMAIN toHost : ~Grant(toHost[j], c, AllocateSocket)
      <4>1. \A j \in DOMAIN toHost : toHost[j].op = "accept" => toHost[j].conn # c
        BY <2>1 DEF AcceptInv
      <4>2. \A j \in DOMAIN toHost : toHost[j].who # c
        BY <3>2, <3>3 DEF CallInv, CallOf
      <4>3. QED  BY <4>1, <4>2 DEF Grant
    <3>5. GivenTo(AllocateSocket, c)
      BY <2>1, <2>3, <3>1, <3>2, <3>3, <3>4
    <3>6. QED  BY <3>1, <3>2, <3>5
  <2>4. QED  BY <2>2, <2>3
<1>2. ASSUME HandleOpen PROVE Goal
  <2>1. Taking("open") /\ UNCHANGED host
    BY <1>2 DEF HandleOpen
  <2>2. PICK v \in Objects : v = Head(toBoard).obj /\ Asking(1, v)
    <3>1. Head(toBoard) = toBoard[1] /\ 1 \in DOMAIN toBoard /\ Head(toBoard) \in Requests /\ Head(toBoard).op = "open"
      BY <2>1, TakeFacts, TailFacts
    <3>2. Head(toBoard).obj \in Objects
      BY <3>1, RequestFields
    <3>3. QED  BY <3>1, <3>2 DEF AskedInv
  <2>3. handle[v] = 0 /\ pc[v] \in {"opening", "done"} /\ v \notin Incoming
    BY <2>2 DEF Asking
  <2>4. \/ socks' = socks
        \/ /\ Free # {} /\ socks' = [socks EXCEPT ![AllocateSocket] = v]
           /\ windowUsed' = [windowUsed EXCEPT ![AllocateSocket] = 0]
    BY <1>2, <2>2 DEF HandleOpen, Fail, board
  <2>5. ASSUME Free # {}, socks' = [socks EXCEPT ![AllocateSocket] = v],
               windowUsed' = [windowUsed EXCEPT ![AllocateSocket] = 0]
        PROVE  Goal
    <3>1. AllocateSocket \in Handles /\ socks[AllocateSocket] = None
      BY <2>5, FirstFree DEF Free
    <3>2. \A j \in DOMAIN toHost : toHost[j].who = v => ~toHost[j].ok
      BY <2>2 DEF Asking
    <3>3. \A j \in DOMAIN toHost : ~Grant(toHost[j], v, AllocateSocket)
      <4>1. \A j \in DOMAIN toHost : toHost[j].op = "accept" => toHost[j].conn # v
        BY <2>3 DEF AcceptInv, TypeOK
      <4>2. QED  BY <3>2, <4>1 DEF Grant
    <3>4. GivenTo(AllocateSocket, v)
      BY <2>1, <2>3, <2>5, <3>1, <3>3
    <3>5. QED  BY <3>1, <3>4
  <2>6. QED  BY <2>4, <2>5
<1>3. ASSUME NEW h \in Handles, PollData(h) \/ PollClosed(h) PROVE Goal
  BY <1>3 DEF PollData, PollClosed, FreeSocket
<1>4. ASSUME HandleClose PROVE Goal
  <2>1. Taking("close") /\ socks' = [socks EXCEPT ![Head(toBoard).h] = None]
    BY <1>4 DEF HandleClose, FreeSocket
  <2>2. Head(toBoard).h \in Handles
    <3>1. Head(toBoard) \in Requests /\ Head(toBoard).op = "close"
      BY <2>1, TakeFacts
    <3>2. QED  BY <3>1, RequestFields
  <2>3. QED  BY <2>1, <2>2
<1>5. CASE UNCHANGED socks
  BY <1>5
<1> HIDE DEF Goal
<1>6. CASE Board
  BY <1>1, <1>2, <1>3, <1>4, <1>5, <1>6 DEF Board, HandleAck
<1>7. QED
  BY <1>5, <1>6 DEF Next, Reader, Application, Done, vars, board, OnData, OnAccept, OnClosed, OnReply, Open, Register,
                    Recv, Ack, Close, Forget, GiveUp, Retry

\* Where a frame of the transmit queue comes from: a place in it, or the board.
Shifted(d, i) ==
  \/ /\ i + d \in DOMAIN toHost
     /\ toHost'[i] = toHost[i + d] \/ (toHost'[i].op = "reply" /\ toHost'[i].who = None)
  \/ /\ d = 0 /\ i = Len(toHost) + 1
     /\ toHost'[i].op = "data" => socks' = socks /\ socks[toHost'[i].h] = toHost'[i].conn

LEMMA FrameShift ==
  ASSUME TypeOK, PlaceInv, [Next]_vars
  PROVE  /\ \E d \in {0, 1} : \A i \in DOMAIN toHost' : Shifted(d, i)
         /\ DOMAIN toHost = 1 .. Len(toHost) /\ Len(toHost) \in Nat /\ DOMAIN toHost' \subseteq Nat
<1>1. toHost \in Seq(Frames) /\ DOMAIN toHost = 1 .. Len(toHost) /\ Len(toHost) \in Nat
  BY DEF TypeOK
<1>2. CASE toHost' = toHost
  <2>1. \A i \in DOMAIN toHost' : i + 0 = i
    BY <1>1, <1>2
  <2>2. \A i \in DOMAIN toHost' : Shifted(0, i)
    BY <1>2, <2>1 DEF Shifted
  <2>3. QED  BY <1>1, <1>2, <2>2
<1>3. CASE toHost # <<>> /\ toHost' = Tail(toHost)
  <2>1. \A i \in DOMAIN toHost' : i \in Nat /\ i + 1 \in DOMAIN toHost /\ toHost'[i] = toHost[i + 1]
    BY <1>1, <1>3, TailFacts
  <2>2. \A i \in DOMAIN toHost' : Shifted(1, i)
    BY <2>1 DEF Shifted
  <2>3. QED  BY <1>1, <2>1, <2>2
<1>4. ASSUME NEW f \in Frames, toHost' = Append(toHost, f),
             f.op = "data" => socks' = socks /\ socks[f.h] = f.conn
      PROVE  (\A i \in DOMAIN toHost' : Shifted(0, i)) /\ DOMAIN toHost' \subseteq Nat
  <2>1. \A i \in DOMAIN toHost' : \/ i = Len(toHost) + 1 /\ toHost'[i] = f
                                  \/ i \in DOMAIN toHost /\ toHost'[i] = toHost[i]
    BY <1>1, <1>4, AppendFacts
  <2>2. \A i \in DOMAIN toHost : i + 0 = i /\ i \in Nat
    BY <1>1
  <2>3. \A i \in DOMAIN toHost' : Shifted(0, i)
    BY <1>4, <2>1, <2>2 DEF Shifted
  <2>4. QED  BY <1>1, <2>1, <2>2, <2>3
<1>5. ASSUME NEW f \in Frames, Sent(f) PROVE f.op = "data" => socks' = socks /\ socks[f.h] = f.conn
  BY <1>5 DEF Sent, DataSent, ClosedSent, AcceptSent, RefusalSent, OpenedSent, ShutSent, Answer
<1>6. ASSUME NEW r \in Requests PROVE Busy(r) \in Frames /\ Busy(r).op # "data"
  BY RecordTypes, RequestFields DEF Busy
<1>7. ASSUME NEW o \in Objects, GiveUp(o)
      PROVE  (\A i \in DOMAIN toHost' : Shifted(0, i)) /\ DOMAIN toHost' \subseteq Nat
  <2>1. DOMAIN toHost' = DOMAIN toHost
    BY <1>7, GiveUpFacts
  <2>2. ASSUME NEW i \in DOMAIN toHost PROVE Shifted(0, i)
    <3>1. toHost'[i] = IF toHost[i].who = o THEN [toHost[i] EXCEPT !.who = None] ELSE toHost[i]
      BY <1>7, GiveUpFacts
    <3>2. toHost[i] \in Frames /\ i + 0 = i
      BY <1>1
    <3>3. toHost[i].who = o => toHost[i].op = "reply"
      BY <3>2, FrameFields, Names
    <3>4. toHost[i].who = o => toHost'[i].op = "reply" /\ toHost'[i].who = None
      BY <3>1, <3>2, <3>3 DEF Frames
    <3>5. QED  BY <3>1, <3>2, <3>4 DEF Shifted
  <2>3. QED  BY <1>1, <2>1, <2>2
<1>8. ASSUME NEW o \in Objects, Retry(o)
      PROVE  (\A i \in DOMAIN toHost' : Shifted(0, i)) /\ DOMAIN toHost' \subseteq Nat
  <2> DEFINE t == Anonymous(toHost, o)
             b == Busy(Request(o))
  <2>1. b \in Frames /\ b.op = "reply" /\ (toHost' = t \/ toHost' = Append(t, b))
    <3>1. Request(o) \in Requests /\ (toHost' = t \/ toHost' = Append(t, b))
      BY <1>8, RetryFacts
    <3>2. QED  BY <1>6, <3>1 DEF Busy
  <2>2. t \in Seq(Frames) /\ Len(t) = Len(toHost) /\ Alike(t, toHost)
    BY AnonymousFacts, AnonymousAlike
  <2> HIDE DEF t, b
  <2>3. \A i \in DOMAIN toHost' : \/ i = Len(toHost) + 1 /\ toHost'[i] = b
                                  \/ i \in DOMAIN toHost /\ toHost'[i] = t[i]
    <3>1. CASE toHost' = t
      BY <2>2, <3>1 DEF Alike
    <3>2. CASE toHost' = Append(t, b)
      <4>1. \A i \in DOMAIN toHost' : \/ i = Len(t) + 1 /\ toHost'[i] = b
                                      \/ i \in DOMAIN t /\ toHost'[i] = t[i]
        BY <2>1, <2>2, <3>2, AppendFacts
      <4>2. QED  BY <2>2, <4>1 DEF Alike
    <3>3. QED  BY <2>1, <3>1, <3>2
  <2>4. \A i \in DOMAIN toHost : i + 0 = i /\ i \in Nat
    BY <1>1
  <2>5. ASSUME NEW i \in DOMAIN toHost' PROVE Shifted(0, i)
    <3>1. CASE i = Len(toHost) + 1 /\ toHost'[i] = b
      BY <2>1, <3>1 DEF Shifted
    <3>2. CASE i \in DOMAIN toHost /\ toHost'[i] = t[i]
      BY <2>2, <2>4, <3>2 DEF Shifted, Alike
    <3>3. QED  BY <2>3, <3>1, <3>2
  <2>6. QED  BY <1>1, <2>3, <2>4, <2>5
<1>9. QED  BY <1>1, <1>2, <1>3, <1>4, <1>5, <1>6, <1>7, <1>8, HostQueue

LEMMA OrderStep ==
  ASSUME TypeOK, SizeInv, CallInv, PlaceInv, AcceptInv, AskedInv, OrderInv, [Next]_vars
  PROVE  OrderInv'
<1> SUFFICES ASSUME NEW i \in DOMAIN toHost', toHost'[i].op = "data", NEW h \in Handles, h = toHost'[i].h,
                    NEW c \in Conns, c = socks'[h], c # toHost'[i].conn
             PROVE  handle'[c] # h /\ \A g \in DOMAIN toHost' : Grant(toHost'[g], c, h) => i < g
  <2>1. TypeOK'
    BY TypeStep
  <2>2. \A i \in DOMAIN toHost' : toHost'[i] \in Frames
    BY <2>1 DEF TypeOK
  <2>3. \A i \in DOMAIN toHost' : toHost'[i].op = "data" => toHost'[i].h \in Handles
    BY <2>2, FrameFields
  <2>4. QED  BY <2>3 DEF OrderInv
<1>1. PICK d \in {0, 1} : \A j \in DOMAIN toHost' : Shifted(d, j)
  BY FrameShift
<1>2. DOMAIN toHost = 1 .. Len(toHost) /\ Len(toHost) \in Nat /\ DOMAIN toHost' \subseteq Nat
  BY FrameShift
<1>3. c \in Objects /\ c # None /\ h # 0
  BY Names
\* It was in the queue before.
<1>4. i + d \in DOMAIN toHost /\ toHost[i + d].op = "data" /\ toHost[i + d].h = h /\ toHost[i + d].conn # c
  BY <1>1 DEF Shifted
<1>5. \A g \in DOMAIN toHost' : Grant(toHost'[g], c, h) =>
        (g + d \in DOMAIN toHost /\ Grant(toHost[g + d], c, h)) \/ (d = 0 /\ g = Len(toHost) + 1)
  BY <1>1, <1>3 DEF Shifted, Grant
<1>6. CASE socks'[h] = socks[h]
  <2>1. handle[c] # h /\ \A g \in DOMAIN toHost : Grant(toHost[g], c, h) => i + d < g
    BY <1>4, <1>6 DEF OrderInv
  <2>2. handle'[c] # h
    <3>1. CASE handle'[c] = handle[c]
      BY <2>1, <3>1
    <3>2. CASE Reader /\ Grant(Head(toHost), c, handle'[c])
      <4>1. Head(toHost) = toHost[1] /\ 1 \in DOMAIN toHost
        BY <3>2, ReaderQueue
      <4>2. ~(i + d < 1)
        BY <1>2, <1>4
      <4>3. QED  BY <2>1, <3>2, <4>1, <4>2
    <3>3. QED  BY <1>3, <3>1, <3>2, ThreadStep
  <2>3. ASSUME NEW g \in DOMAIN toHost', Grant(toHost'[g], c, h) PROVE i < g
    <3>1. CASE g + d \in DOMAIN toHost /\ Grant(toHost[g + d], c, h)
      <4>1. i + d < g + d
        BY <2>1, <3>1
      <4>2. QED  BY <1>2, <4>1
    <3>2. CASE d = 0 /\ g = Len(toHost) + 1
      BY <1>2, <1>4, <3>2
    <3>3. QED  BY <1>5, <2>3, <3>1, <3>2
  <2>4. QED  BY <2>2, <2>3
<1>7. CASE socks'[h] # socks[h]
  <2>1. handle[c] = 0 /\ handle' = handle /\ \A j \in DOMAIN toHost : ~Grant(toHost[j], c, h)
    <3>1. ASSUME NEW x \in Handles, socks' = [socks EXCEPT ![x] = None] PROVE FALSE
      BY <1>3, <1>7, <3>1 DEF TypeOK
    <3>2. ASSUME NEW x \in Handles, NEW v \in Objects, socks' = [socks EXCEPT ![x] = v] PROVE x = h /\ v = c
      BY <1>7, <3>2 DEF TypeOK
    <3>3. PICK x \in Handles, v \in Objects :
              /\ socks' = [socks EXCEPT ![x] = v]
              /\ handle[v] = 0 /\ (\A j \in DOMAIN toHost : ~Grant(toHost[j], v, x)) /\ UNCHANGED host
      BY <1>7, <3>1, SlotsStep
    <3>4. QED  BY <3>2, <3>3 DEF host
  <2>2. ASSUME NEW g \in DOMAIN toHost', Grant(toHost'[g], c, h) PROVE i < g
    <3>1. d = 0 /\ g = Len(toHost) + 1
      BY <1>5, <2>1, <2>2
    <3>2. QED  BY <1>2, <1>4, <3>1
  <2>3. QED  BY <1>3, <2>1, <2>2
<1>8. QED  BY <1>6, <1>7

-----------------------------------------------------------------------------
(* Credit *)

LEMMA WeightTypes ==
  ASSUME TypeOK, NEW c, NEW h, NEW g \in 0 .. Len(toHost)
  PROVE  Data(c, h, g) \in Nat /\ Acks(c) \in Nat
<1>1. toHost \in Seq(Frames) /\ \A f \in DataOn(c, h) : f.n \in Nat
  BY Sizes DEF TypeOK
<1>2. toBoard \in Seq(Requests) /\ \A r \in AcksOf(c) : r.n \in Nat
  BY Sizes DEF TypeOK
<1>3. Data(c, h, g) \in Nat
  BY <1>1, RestWeight DEF Data
<1>4. Acks(c) \in Nat
  BY <1>2, WeightFacts DEF Acks
<1>5. QED  BY <1>3, <1>4

\* Requests of other kinds make no difference, and the names of threads do not.
LEMMA AcksSame ==
  ASSUME TypeOK, PlaceInv, NEW c,
         \/ toBoard' = toBoard
         \/ toBoard # <<>> /\ toBoard' = Tail(toBoard) /\ Head(toBoard) \notin AcksOf(c)
         \/ \E r \in Requests : r \notin AcksOf(c) /\ toBoard' = Append(toBoard, r)
         \/ \E o \in Objects : GiveUp(o) \/ Retry(o)
  PROVE  Acks(c)' = Acks(c)
<1> DEFINE T == AcksOf(c)
<1>1. toBoard \in Seq(Requests) /\ \A r \in T : r.n \in Nat
  BY Sizes DEF TypeOK
<1>2. \A q \in Seq(Requests) : Weight(q, T) \in Nat
  <2> HIDE DEF T
  <2>1. QED  BY <1>1, WeightFacts
<1>3. CASE toBoard' = toBoard
  BY <1>3 DEF Acks
<1>4. CASE toBoard # <<>> /\ toBoard' = Tail(toBoard) /\ Head(toBoard) \notin T
  <2> HIDE DEF T
  <2>1. Tail(toBoard) \in Seq(Requests)
    BY <1>1, <1>4, TailFacts
  <2>2. Weight(toBoard, T) = Weight(Tail(toBoard), T) + IF Head(toBoard) \in T THEN Head(toBoard).n ELSE 0
    BY <1>1, <1>4, WeightFacts
  <2>3. Weight(toBoard, T) = Weight(Tail(toBoard), T)
    <3>1. Weight(toBoard, T) = Weight(Tail(toBoard), T) + 0
      BY <1>4, <2>2
    <3>2. Weight(Tail(toBoard), T) \in Nat
      BY <1>2, <2>1
    <3>3. QED  BY <3>1, <3>2
  <2>4. QED  BY <1>4, <2>3 DEF Acks, T
<1>5. ASSUME NEW q \in Seq(Requests), Weight(q, T) = Weight(toBoard, T), NEW r \in Requests, r \notin T,
             toBoard' = Append(q, r)
      PROVE  Acks(c)' = Acks(c)
  <2> HIDE DEF T
  <2>1. Weight(Append(q, r), T) = Weight(q, T) + IF r \in T THEN r.n ELSE 0
    BY <1>1, <1>5, WeightFacts
  <2>2. Weight(Append(q, r), T) = Weight(q, T)
    BY <1>2, <1>5, <2>1
  <2>3. QED  BY <1>5, <2>2 DEF Acks, T
<1>6. ASSUME NEW o \in Objects PROVE Weight(Anonymous(toBoard, o), T) = Weight(toBoard, T)
  <2> DEFINE b == Anonymous(toBoard, o)
  <2>1. DOMAIN b = DOMAIN toBoard
    BY AnonymousFacts
  <2>2. \A r \in Requests : r.who = o => r \notin T /\ [r EXCEPT !.who = None] \notin T
    <3> SUFFICES ASSUME NEW r \in Requests, r.who = o PROVE r.op # "ack" /\ [r EXCEPT !.who = None].op # "ack"
      BY DEF AcksOf
    <3>1. r.op # "ack"
      BY RequestFields, Names
    <3>2. QED  BY <3>1 DEF Requests
  <2>3. \A i \in DOMAIN toBoard : toBoard[i] \in Requests
    BY <1>1
  <2>4. \A i \in DOMAIN toBoard : b[i] = IF toBoard[i].who = o THEN [toBoard[i] EXCEPT !.who = None] ELSE toBoard[i]
    BY AnonymousFacts
  <2> HIDE DEF b
  <2>5. \A i \in DOMAIN toBoard : b[i] = toBoard[i] \/ (b[i] \notin T /\ toBoard[i] \notin T)
    BY <2>2, <2>3, <2>4
  <2> HIDE DEF T
  <2>6. Weight(b, T) = Weight(toBoard, T)
    BY <2>1, <2>5, WeightSame
  <2>7. QED  BY <2>6 DEF b
<1>7. ASSUME NEW o \in Objects, GiveUp(o) PROVE Acks(c)' = Acks(c)
  BY <1>6, <1>7 DEF GiveUp, Acks
<1>8. ASSUME NEW o \in Objects, Retry(o) PROVE Acks(c)' = Acks(c)
  <2> DEFINE b == Anonymous(toBoard, o)
             r == Request(o)
  <2>1. r \in Requests /\ r.op # "ack" /\ (toBoard' = Append(b, r) \/ toBoard' = b)
    BY <1>8, RetryFacts
  <2>2. b \in Seq(Requests) /\ Weight(b, T) = Weight(toBoard, T)
    BY <1>6, AnonymousFacts
  <2>3. r \notin T
    BY <2>1 DEF AcksOf
  <2> HIDE DEF b, r
  <2>4. CASE toBoard' = b
    BY <2>2, <2>4 DEF Acks
  <2>5. CASE toBoard' = Append(b, r)
    BY <1>5, <2>1, <2>2, <2>3, <2>5
  <2>6. QED  BY <2>1, <2>4, <2>5
<1>9. CASE \E r \in Requests : r \notin T /\ toBoard' = Append(toBoard, r)
  BY <1>1, <1>5, <1>9
<1>10. QED  BY <1>3, <1>4, <1>7, <1>8, <1>9

\* A handle is promised to those who wait for one.
LEMMA PromisedTo ==
  ASSUME TypeOK, CallInv, AcceptInv, NEW c \in Conns, NEW h \in Handles,
         NEW g \in DOMAIN toHost, Grant(toHost[g], c, h)
  PROVE  pc[c] \in {"new", "opening"}
<1>1. CASE toHost[g].op = "accept" /\ toHost[g].conn = c
  BY <1>1 DEF AcceptInv
<1>2. CASE toHost[g].op = "reply" /\ toHost[g].ok /\ toHost[g].who = c /\ toHost[g].h = h
  <2>1. c \in Objects /\ h # 0
    BY Names
  <2>2. CallOf(c)
    BY <2>1 DEF CallInv
  <2>3. QED  BY <1>2, <2>1, <2>2 DEF CallOf
<1>3. QED  BY <1>1, <1>2 DEF Grant

\* A connection whose slot takes no foreign credit now took none before.
LEMMA OverdrawnGrows ==
  ASSUME TypeOK, PlaceInv, [Next]_vars
  PROVE  overdrawn \subseteq overdrawn'
<1>1. CASE Board
  <2>1. ASSUME NEW f, Emit(f) PROVE overdrawn' = overdrawn
    BY <2>1 DEF Emit
  <2>2. QED  BY <1>1, <2>1 DEF Board, PollData, PollClosed, PollListen, HandleOpen, HandleClose, HandleAck,
                              Fail, Reply, ghosts
<1>2. CASE Reader
  BY <1>2 DEF Reader, OnData, OnAccept, OnClosed, OnReply
<1>3. CASE Application
  BY <1>3 DEF Application, Open, Register, Close, Forget, GiveUp, Retry, Recv, Ack, Submit, ghosts
<1>4. CASE UNCHANGED vars
  BY <1>4 DEF vars, ghosts
<1>5. QED  BY <1>1, <1>2, <1>3, <1>4 DEF Next, Done

\* Polling a slot charges its window with what is sent of its connection.
LEMMA PollCredit ==
  ASSUME TypeOK, NEW c \in Conns, NEW h \in Handles, socks[h] = c, NEW x \in Handles, PollData(x),
         NEW g \in 0 .. Len(toHost)
  PROVE  /\ Acks(c)' = Acks(c)
         /\ \/ windowUsed'[h] = windowUsed[h] /\ Data(c, h, g)' = Data(c, h, g)
            \/ \E n \in Nat : /\ windowUsed'[h] = windowUsed[h] + n
                              /\ \/ Data(c, h, g)' = Data(c, h, g) + n
                                 \/ Data(c, h, g)' = Data(c, h, g) /\ lostFrame'
<1> DEFINE T == DataOn(c, h)
<1>1. PICK d \in Conns, f \in Frames : Polled(x, d, f)
  BY PollDataFacts
<1>2. /\ socks[x] = d /\ f \in DataOf(d) /\ f.h = x /\ windowUsed' = [windowUsed EXCEPT ![x] = @ + f.n]
      /\ toBoard' = toBoard
      /\ (toHost' = toHost /\ lostFrame') \/ toHost' = Append(toHost, f)
  <2>1. Emit(f) /\ lostFrame \in BOOLEAN
    BY <1>1 DEF Polled, TypeOK, lostFrame
  <2>2. (toHost' = toHost /\ lostFrame') \/ toHost' = Append(toHost, f)
    BY <2>1, EmitFacts
  <2>3. QED  BY <1>1, <2>2 DEF Polled
<1>3. Acks(c)' = Acks(c)
  BY <1>2 DEF Acks
<1>4. f.n \in Nat /\ windowUsed \in [Handles -> Nat]
  <2>1. f.n \in Nat
    BY <1>2, DataFields
  <2>2. windowUsed \in [Handles -> Nat]
    BY NetAssumption DEF TypeOK
  <2>3. QED  BY <2>1, <2>2
<1>5. toHost' = Append(toHost, f) => Data(c, h, g)' = Data(c, h, g) + IF f \in T THEN f.n ELSE 0
  <2>1. toHost \in Seq(Frames) /\ \A m \in T : m.n \in Nat
    BY Sizes DEF TypeOK
  <2> HIDE DEF T
  <2>2. Weight(Rest(Append(toHost, f), g), T) = Weight(Rest(toHost, g), T) + IF f \in T THEN f.n ELSE 0
    BY <2>1, RestWeight
  <2>3. QED  BY <2>2 DEF Data, T
<1>6. toHost' = toHost => Data(c, h, g)' = Data(c, h, g)
  BY DEF Data
<1>7. f \in T <=> d = c /\ x = h
  BY <1>2 DEF DataOn, DataOf
<1>8. Data(c, h, g) \in Nat
  BY WeightTypes
<1> HIDE DEF T
<1>9. CASE x = h
  <2>1. d = c
    BY <1>2, <1>9
  <2>2. windowUsed'[h] = windowUsed[h] + f.n
    BY <1>2, <1>4, <1>9
  <2>3. Data(c, h, g)' = Data(c, h, g) + f.n \/ (Data(c, h, g)' = Data(c, h, g) /\ lostFrame')
    BY <1>2, <1>5, <1>6, <1>7, <1>9, <2>1
  <2>4. QED  BY <1>3, <1>4, <2>2, <2>3
<1>10. CASE x # h
  <2>1. windowUsed'[h] = windowUsed[h]
    BY <1>2, <1>4, <1>10
  <2>2. Data(c, h, g)' = Data(c, h, g)
    BY <1>2, <1>5, <1>6, <1>7, <1>8, <1>10
  <2>3. QED  BY <1>3, <2>1, <2>2
<1>11. QED  BY <1>9, <1>10

\* Credit that arrives is taken off the window of the slot it is for.
LEMMA AckCredit ==
  ASSUME TypeOK, CallInv, PlaceInv, AcceptInv, AckInv, NEW c \in Conns, NEW h \in Handles, socks[h] = c,
         NEW g \in 0 .. Len(toHost), Known(c, h, g), HandleAck, c \notin overdrawn'
  PROVE  /\ Data(c, h, g)' = Data(c, h, g)
         /\ \/ windowUsed'[h] = windowUsed[h] /\ Acks(c)' = Acks(c)
            \/ \E n \in Nat : /\ Acks(c) = Acks(c)' + n
                              /\ windowUsed'[h] = windowUsed[h] - n \/ (windowUsed[h] < n /\ windowUsed'[h] = 0)
<1> DEFINE r == Head(toBoard)
           T == AcksOf(c)
<1>1. /\ toBoard \in Seq(Requests) /\ toBoard # <<>> /\ toBoard' = Tail(toBoard) /\ r \in Requests /\ r.op = "ack"
      /\ r = toBoard[1] /\ 1 \in DOMAIN toBoard
      /\ windowUsed' = [windowUsed EXCEPT ![r.h] = Max({0, @ - r.n})] /\ toHost' = toHost
      /\ overdrawn' = overdrawn \cup ({socks[r.h]} \cap (Conns \ {r.of}))
  BY TakeFacts, TailFacts DEF HandleAck
<1>2. r.h \in Handles /\ r.n \in Nat
  BY <1>1, RequestFields
<1>3. Data(c, h, g)' = Data(c, h, g)
  BY <1>1 DEF Data
<1>4. windowUsed \in [Handles -> Nat]
  BY NetAssumption DEF TypeOK
<1>5. r.h = h <=> r.of = c
  <2>1. r.h = h => r.of = c
    BY <1>1
  <2>2. ASSUME r.of = c PROVE r.h = h
    <3>1. handle[c] = r.h /\ pc[c] \notin {"new", "opening", "register"}
      BY <1>1, <2>2 DEF AckInv
    <3>2. ~(g \in DOMAIN toHost /\ Grant(toHost[g], c, h))
      BY <3>1, PromisedTo
    <3>3. QED  BY <3>1, <3>2 DEF Known
  <2>3. QED  BY <2>1, <2>2
<1>6. CASE r.h = h
  <2>1. r \in T
    BY <1>1, <1>5, <1>6 DEF AcksOf
  <2>2. \A m \in T : m.n \in Nat
    BY Sizes
  <2> HIDE DEF T
  <2>3. Weight(toBoard, T) = Weight(Tail(toBoard), T) + IF r \in T THEN r.n ELSE 0
    BY <1>1, <2>2, WeightFacts
  <2>4. Acks(c) = Acks(c)' + r.n
    BY <1>1, <2>1, <2>3 DEF Acks, T
  <2> DEFINE u == windowUsed[h]
             k == u - r.n
             m == Max({0, k})
  <2>5. windowUsed'[h] = m
    BY <1>1, <1>4, <1>6
  <2>6. u \in Nat
    BY <1>4
  <2>7. (k >= 0 /\ m = k) \/ (k < 0 /\ m = 0)
    <3>1. k \in Int
      BY <1>2, <2>6
    <3> HIDE DEF k
    <3>2. \E x \in {0, k} : \A y \in {0, k} : x >= y
      BY <3>1
    <3>3. Max({0, k}) \in {0, k} /\ \A y \in {0, k} : Max({0, k}) >= y
      BY <3>2 DEF Max
    <3>4. QED  BY <3>1, <3>3
  <2> HIDE DEF m
  <2>8. m = u - r.n \/ (u < r.n /\ m = 0)
    BY <1>2, <2>6, <2>7
  <2>9. QED  BY <1>2, <1>3, <2>4, <2>5, <2>8
<1>7. CASE r.h # h
  <2>1. r \notin T
    BY <1>5, <1>7 DEF AcksOf
  <2>2. Acks(c)' = Acks(c)
    BY <1>1, <2>1, AcksSame
  <2>3. windowUsed'[h] = windowUsed[h]
    BY <1>1, <1>2, <1>4, <1>7
  <2>4. QED  BY <1>3, <2>2, <2>3
<1>8. QED  BY <1>6, <1>7

\* Opening, closing and ending other slots leave this one alone.
LEMMA OtherCredit ==
  ASSUME TypeOK, PlaceInv, [Next]_vars, NEW c \in Conns, NEW h \in Handles, socks[h] = c, socks'[h] = c,
         \/ \E g \in Handles : PollClosed(g) \/ PollListen(g)
         \/ HandleOpen \/ HandleClose
  PROVE  windowUsed'[h] = windowUsed[h] /\ Acks(c)' = Acks(c)
<1>1. /\ windowUsed \in [Handles -> 0 .. Window] /\ socks \in [Handles -> Sockets] /\ c # None
  BY Names DEF TypeOK
<1>2. Free # {} => AllocateSocket # h
  BY <1>1, FirstFree DEF Free
<1>3. ASSUME NEW g \in Handles, PollClosed(g) PROVE windowUsed'[h] = windowUsed[h] /\ toBoard' = toBoard
  BY <1>1, <1>3 DEF PollClosed, FreeSocket
<1>4. ASSUME NEW g \in Handles, PollListen(g) PROVE windowUsed'[h] = windowUsed[h] /\ toBoard' = toBoard
  BY <1>1, <1>2, <1>4 DEF PollListen, board
<1>5. ASSUME NEW op, op # "ack", Taking(op) PROVE Acks(c)' = Acks(c)
  BY <1>5, AcksSame DEF Taking, AcksOf
<1>6. ASSUME HandleOpen PROVE windowUsed'[h] = windowUsed[h] /\ Acks(c)' = Acks(c)
  <2>1. Taking("open")
    BY <1>6 DEF HandleOpen
  <2>2. windowUsed'[h] = windowUsed[h]
    BY <1>1, <1>2, <1>6 DEF HandleOpen, Fail, board
  <2>3. QED  BY <1>5, <2>1, <2>2
<1>7. ASSUME HandleClose PROVE windowUsed'[h] = windowUsed[h] /\ Acks(c)' = Acks(c)
  <2>1. Taking("close") /\ FreeSocket(Head(toBoard).h)
    BY <1>7 DEF HandleClose
  <2>2. windowUsed'[h] = windowUsed[h]
    BY <1>1, <2>1 DEF FreeSocket
  <2>3. QED  BY <1>5, <2>1, <2>2
<1>8. toBoard' = toBoard => Acks(c)' = Acks(c)
  BY DEF Acks
<1>9. QED  BY <1>3, <1>4, <1>6, <1>7, <1>8


\* An application thread adds a refusal to the transmit queue at most.
LEMMA ThreadQueue ==
  ASSUME TypeOK, PlaceInv, Application \/ UNCHANGED vars
  PROVE  \E p \in Seq(Frames) :
           /\ Alike(p, toHost)
           /\ toHost' = p \/ \E f \in Frames : f.op = "reply" /\ ~f.ok /\ toHost' = Append(p, f)
<1> DEFINE Goal == \E p \in Seq(Frames) :
           /\ Alike(p, toHost)
           /\ toHost' = p \/ \E f \in Frames : f.op = "reply" /\ ~f.ok /\ toHost' = Append(p, f)
<1> SUFFICES Goal
  OBVIOUS
<1>1. toHost \in Seq(Frames) /\ Alike(toHost, toHost)
  BY DEF TypeOK, Alike
<1>2. ASSUME toHost' = toHost PROVE Goal
  BY <1>1, <1>2
<1>3. ASSUME NEW r \in Requests PROVE Busy(r).op = "reply" /\ ~Busy(r).ok /\ Busy(r) \in Frames
  BY RecordTypes, RequestFields DEF Busy
<1>4. ASSUME NEW r \in Requests, Submit(r) PROVE Goal
  <2>1. toHost' = toHost \/ toHost' = Append(toHost, Busy(r))
    BY <1>4, SubmitFacts
  <2>2. QED  BY <1>1, <1>3, <2>1
<1>5. ASSUME NEW o \in Objects, Open(o) PROVE Goal
  <2>1. PICK r \in Requests : Submit(r)
    BY <1>5, AskFacts DEF Open
  <2>2. QED  BY <1>4, <2>1
<1>6. ASSUME NEW c \in Conns, Ack(c) PROVE Goal
  <2>1. PICK r \in Requests : Submit(r)
    BY <1>6, AskFacts DEF Ack
  <2>2. QED  BY <1>4, <2>1
<1>7. ASSUME NEW o \in Objects, Close(o) PROVE Goal
  <2>1. CASE Submit([op |-> "close", who |-> o, h |-> handle[o]])
    <3>1. PICK r \in Requests : Submit(r)
      BY <1>7, <2>1, AskFacts DEF Close
    <3>2. QED  BY <1>4, <3>1
  <2>2. QED  BY <1>2, <1>7, <2>1 DEF Close
<1>8. ASSUME NEW o \in Objects, GiveUp(o) PROVE Goal
  <2>1. Anonymous(toHost, o) \in Seq(Frames) /\ Alike(Anonymous(toHost, o), toHost)
    BY AnonymousFacts, AnonymousAlike
  <2>2. toHost' = Anonymous(toHost, o)
    BY <1>8 DEF GiveUp
  <2>3. QED  BY <2>1, <2>2
<1>9. ASSUME NEW o \in Objects, Retry(o) PROVE Goal
  <2> DEFINE t == Anonymous(toHost, o)
             r == Request(o)
  <2>1. t \in Seq(Frames) /\ Alike(t, toHost)
    BY AnonymousFacts, AnonymousAlike
  <2>2. r \in Requests /\ (toHost' = t \/ toHost' = Append(t, Busy(r)))
    BY <1>9, RetryFacts
  <2> HIDE DEF t, r
  <2>3. QED  BY <1>3, <2>1, <2>2
<1>10. ASSUME NEW o \in Objects, Register(o) \/ Forget(o) PROVE Goal
  BY <1>2, <1>10 DEF Register, Forget
<1>11. ASSUME NEW c \in Conns, Recv(c) PROVE Goal
  BY <1>2, <1>11 DEF Recv
<1>12. CASE UNCHANGED vars
  BY <1>2, <1>12 DEF vars
<1> HIDE DEF Goal
<1>13. QED  BY <1>5, <1>6, <1>7, <1>8, <1>9, <1>10, <1>11, <1>12 DEF Application

\* The threads give no handle, and leave the data as it is.
LEMMA ThreadKnown ==
  ASSUME TypeOK, CallInv, PlaceInv, AcceptInv, [Next]_vars, Application \/ UNCHANGED vars,
         NEW c \in Conns, NEW h \in Handles, NEW g \in 0 .. Len(toHost'), Known(c, h, g)'
  PROVE  g \in 0 .. Len(toHost) /\ Known(c, h, g) /\ Data(c, h, g)' = Data(c, h, g)
<1> DEFINE T == DataOn(c, h)
<1>1. PICK p \in Seq(Frames) :
        /\ Alike(p, toHost)
        /\ toHost' = p \/ \E f \in Frames : f.op = "reply" /\ ~f.ok /\ toHost' = Append(p, f)
  BY ThreadQueue
<1>2. /\ toHost \in Seq(Frames) /\ Len(toHost) \in Nat /\ DOMAIN toHost = 1 .. Len(toHost)
      /\ 0 \in 0 .. Len(toHost) /\ \A m \in T : m.n \in Nat
  BY Sizes DEF TypeOK
<1>3. Len(p) = Len(toHost) /\ DOMAIN p = DOMAIN toHost
  BY <1>1, <1>2, AlikeWeight DEF Alike
<1>4. \A k \in 0 .. Len(toHost) : Weight(Rest(p, k), T) = Weight(Rest(toHost, k), T)
  BY <1>1, <1>2, AlikeWeight
<1>5. \A k \in DOMAIN toHost : Grant(p[k], c, h) => Grant(toHost[k], c, h)
  BY <1>1, Names DEF Alike, Grant
<1>6. \A f \in Frames : f.op = "reply" /\ ~f.ok => ~Grant(f, c, h) /\ f \notin T
  BY DEF Grant, DataOn, DataOf
<1> HIDE DEF T
<1>7. /\ g \in 0 .. Len(toHost)
      /\ Weight(Rest(toHost', g), T) = Weight(Rest(toHost, g), T)
      /\ g \in DOMAIN toHost' => g \in DOMAIN toHost /\ (Grant(toHost'[g], c, h) => Grant(toHost[g], c, h))
      /\ Len(toHost') \in {Len(toHost), Len(toHost) + 1}
  <2>1. CASE toHost' = p
    <3>1. Len(toHost') = Len(toHost) /\ DOMAIN toHost' = DOMAIN toHost /\ toHost' = p
      BY <1>3, <2>1
    <3>2. g \in 0 .. Len(toHost)
      BY <3>1
    <3>3. QED  BY <1>4, <1>5, <3>1, <3>2
  <2>2. ASSUME NEW f \in Frames, f.op = "reply", ~f.ok, toHost' = Append(p, f)
        PROVE  /\ g \in 0 .. Len(toHost)
               /\ Weight(Rest(toHost', g), T) = Weight(Rest(toHost, g), T)
               /\ g \in DOMAIN toHost' => g \in DOMAIN toHost /\ (Grant(toHost'[g], c, h) => Grant(toHost[g], c, h))
               /\ Len(toHost') \in {Len(toHost), Len(toHost) + 1}
    <3>1. /\ Len(toHost') = Len(toHost) + 1 /\ toHost'[Len(toHost) + 1] = f
          /\ \A k \in DOMAIN p : toHost'[k] = p[k]
      <4> DEFINE q == Append(p, f)
      <4>1. Len(q) = Len(p) + 1 /\ q[Len(p) + 1] = f /\ \A k \in DOMAIN p : q[k] = p[k]
        BY <1>1, <2>2, AppendFacts
      <4> HIDE DEF q
      <4>2. toHost' = q
        BY <2>2 DEF q
      <4>3. QED  BY <1>3, <4>1, <4>2
    <3>2. g # Len(toHost) + 1
      <4> SUFFICES ASSUME g = Len(toHost) + 1 PROVE FALSE
        OBVIOUS
      <4>1. toHost'[g] = f
        BY <3>1
      <4>2. g # 0
        BY <1>2
      <4>3. QED  BY <1>6, <2>2, <4>1, <4>2 DEF Known
    <3>3. g \in 0 .. Len(toHost)
      BY <1>2, <3>1, <3>2
    <3>4. Weight(Rest(Append(p, f), g), T) = Weight(Rest(p, g), T) + 0 /\ Weight(Rest(p, g), T) \in Nat
      <4>1. g \in 0 .. Len(p)
        BY <1>3, <3>3
      <4>2. Weight(Rest(Append(p, f), g), T) = Weight(Rest(p, g), T) + (IF f \in T THEN f.n ELSE 0)
            /\ Weight(Rest(p, g), T) \in Nat
        BY <1>1, <1>2, <2>2, <4>1, RestWeight
      <4>3. QED  BY <1>6, <2>2, <4>2
    <3>5. g \in DOMAIN toHost' => g \in DOMAIN toHost
      <4>1. DOMAIN toHost' = 1 .. (Len(toHost) + 1)
        <5>1. DOMAIN Append(p, f) = 1 .. (Len(p) + 1)
          BY <1>1, <2>2, AppendFacts
        <5>2. DOMAIN toHost' = 1 .. (Len(p) + 1)
          BY <2>2, <5>1
        <5>3. QED  BY <1>3, <5>2
      <4>2. QED  BY <1>2, <3>2, <4>1
    <3>6. QED  BY <1>3, <1>4, <1>5, <2>2, <3>1, <3>3, <3>4, <3>5
  <2>3. QED  BY <1>1, <2>1, <2>2
<1>8. Data(c, h, g)' = Data(c, h, g)
  BY <1>7 DEF Data, T
<1>9. ~Reader
  <2> SUFFICES ASSUME Reader PROVE FALSE
    OBVIOUS
  <2>1. toHost # <<>> /\ toHost' = Tail(toHost)
    BY ReaderQueue
  <2>2. Len(toHost') = Len(toHost) - 1
    BY <1>2, <2>1, TailFacts
  <2> DEFINE m == Len(toHost')
             n == Len(toHost)
  <2>3. n \in Nat /\ m = n - 1 /\ m \in {n, n + 1}
    BY <1>2, <1>7, <2>2
  <2> HIDE DEF m, n
  <2>4. QED  BY <2>3
<1>10. c \in Objects
  BY Names
<1>11. ASSUME handle'[c] = h, pc'[c] \in {"register", "use"} PROVE handle[c] = h /\ pc[c] \in {"register", "use"}
  <2>1. handle'[c] = handle[c] /\ (pc'[c] = pc[c] \/ <<pc[c], pc'[c]>> \in Steps)
    BY <1>9, <1>10, ThreadStep
  <2>2. QED  BY <1>11, <2>1 DEF Steps
<1>12. Known(c, h, g)
  BY <1>7, <1>11 DEF Known
<1>13. QED  BY <1>7, <1>8, <1>12

\* What a socket takes it owes, until its acknowledgement is on the way.
LEMMA ApplicationCredit ==
  ASSUME TypeOK, PlaceInv, [Next]_vars, Application \/ UNCHANGED vars, NEW c \in Conns
  PROVE  /\ UNCHANGED <<windowUsed, fed>>
         /\ \/ taken'[c] = taken[c] /\ acking'[c] = acking[c] /\ Acks(c)' = Acks(c)
            \/ \E n \in Nat : taken'[c] = taken[c] + n /\ acking'[c] = acking[c] + n /\ Acks(c)' = Acks(c)
            \/ taken'[c] = taken[c] /\ acking'[c] = 0 /\ Acks(c)' = Acks(c) + acking[c]
            \/ taken'[c] = taken[c] /\ acking'[c] = 0 /\ Acks(c)' = Acks(c) /\ lostFrame'
<1> DEFINE Same == UNCHANGED <<taken, acking>> /\ Acks(c)' = Acks(c)
<1>1. UNCHANGED <<windowUsed, fed>>
  BY DEF Application, Open, Register, Close, Forget, GiveUp, Retry, Recv, Ack, vars, board, host
<1>2. toBoard' = toBoard => Acks(c)' = Acks(c)
  BY DEF Acks
<1>3. ASSUME NEW r \in Requests, Submit(r), r.op # "ack" PROVE Acks(c)' = Acks(c)
  <2>1. r \notin AcksOf(c)
    BY <1>3 DEF AcksOf
  <2>2. toBoard' = toBoard \/ toBoard' = Append(toBoard, r)
    BY <1>3, SubmitFacts
  <2>3. QED  BY <2>1, <2>2, AcksSame
<1>4. ASSUME NEW o \in Objects, Open(o) PROVE Same
  <2> DEFINE r == [op |-> "open", who |-> o, obj |-> o]
  <2>1. Submit(r) /\ r \in Requests /\ r.op # "ack" /\ UNCHANGED <<taken, acking>>
    BY <1>4, AskFacts DEF Open
  <2> HIDE DEF r
  <2>2. QED  BY <1>3, <2>1
<1>5. ASSUME NEW o \in Objects, Close(o) PROVE Same
  <2> DEFINE r == [op |-> "close", who |-> o, h |-> handle[o]]
  <2>1. r \in Requests /\ r.op # "ack" /\ UNCHANGED <<taken, acking>> /\ (Submit(r) \/ UNCHANGED <<toBoard, toHost>>)
    BY <1>5, AskFacts DEF Close
  <2> HIDE DEF r
  <2>2. QED  BY <1>2, <1>3, <2>1
<1>6. ASSUME NEW o \in Objects, Register(o) \/ Forget(o) PROVE Same
  BY <1>2, <1>6 DEF Register, Forget
<1>7. ASSUME NEW o \in Objects, GiveUp(o) \/ Retry(o) PROVE Same
  <2>1. Acks(c)' = Acks(c)
    BY <1>7, AcksSame
  <2>2. QED  BY <1>7, <2>1 DEF GiveUp, Retry
<1>8. CASE UNCHANGED vars
  BY <1>1, <1>2, <1>8 DEF vars, host
<1>9. ASSUME NEW d \in Conns, Recv(d)
      PROVE  /\ Acks(c)' = Acks(c)
             /\ \E n \in Nat : taken'[c] = taken[c] + n /\ acking'[c] = acking[c] + n
  <2>1. Acks(c)' = Acks(c)
    BY <1>2, <1>9 DEF Recv
  <2>2. PICK n \in 1 .. (Len(fed[d]) - taken[d]) :
          /\ acking[d] = 0 /\ taken' = [taken EXCEPT ![d] = @ + n] /\ acking' = [acking EXCEPT ![d] = n]
    BY <1>9 DEF Recv
  <2>3. taken \in [Conns -> Nat] /\ acking \in [Conns -> Nat] /\ n \in Nat
    BY DEF TypeOK
  <2>4. CASE d = c
    <3>1. taken'[c] = taken[c] + n /\ acking'[c] = acking[c] + n
      BY <2>2, <2>3, <2>4
    <3>2. QED  BY <2>1, <2>3, <3>1
  <2>5. CASE d # c
    <3>1. taken'[c] = taken[c] + 0 /\ acking'[c] = acking[c] + 0
      BY <2>2, <2>3, <2>5
    <3>2. QED  BY <2>1, <3>1
  <2>6. QED  BY <2>4, <2>5
<1>10. ASSUME NEW d \in Conns, Ack(d)
       PROVE  /\ taken' = taken
              /\ \/ acking'[c] = acking[c] /\ Acks(c)' = Acks(c)
                 \/ acking'[c] = 0 /\ Acks(c)' = Acks(c) + acking[c]
                 \/ acking'[c] = 0 /\ Acks(c)' = Acks(c) /\ lostFrame'
  <2> DEFINE r == [op |-> "ack", who |-> None, of |-> d, h |-> handle[d], n |-> acking[d]]
             T == AcksOf(c)
  <2>1. /\ Submit(r) /\ r \in Requests /\ taken' = taken /\ acking' = [acking EXCEPT ![d] = 0]
        /\ acking[d] > 0
    BY <1>10, AskFacts DEF Ack
  <2>2. acking \in [Conns -> Nat] /\ toBoard \in Seq(Requests)
    BY DEF TypeOK
  <2>3. r.of = d /\ r.n = acking[d] /\ r.op = "ack"
    OBVIOUS
  <2> HIDE DEF r
  <2>4. toBoard' = Append(toBoard, r) \/ (toBoard' = toBoard /\ lostFrame')
    BY <2>1, SubmitFacts
  <2>5. CASE d = c
    <3>1. r \in T /\ acking'[c] = 0
      BY <2>1, <2>2, <2>3, <2>5 DEF AcksOf
    <3>2. toBoard' = Append(toBoard, r) => Acks(c)' = Acks(c) + acking[c]
      <4>1. \A m \in T : m.n \in Nat
        BY Sizes
      <4> HIDE DEF T
      <4>2. Weight(Append(toBoard, r), T) = Weight(toBoard, T) + IF r \in T THEN r.n ELSE 0
        BY <2>1, <2>2, <4>1, WeightFacts
      <4>3. QED  BY <2>3, <2>5, <3>1, <4>2 DEF Acks, T
    <3>3. QED  BY <1>2, <2>1, <2>4, <3>1, <3>2
  <2>6. CASE d # c
    <3>1. r \notin T
      BY <2>3, <2>6 DEF AcksOf
    <3>2. Acks(c)' = Acks(c)
      BY <2>1, <2>4, <3>1, AcksSame
    <3>3. acking'[c] = acking[c]
      BY <2>1, <2>2, <2>6
    <3>4. QED  BY <2>1, <3>2, <3>3
  <2>7. QED  BY <2>5, <2>6
<1>11. CASE Same
  BY <1>1, <1>11
<1>12. CASE \E d \in Conns : Recv(d)
  BY <1>1, <1>9, <1>12
<1>13. CASE \E d \in Conns : Ack(d)
  BY <1>1, <1>10, <1>13
<1> HIDE DEF Same
<1>14. QED  BY <1>4, <1>5, <1>6, <1>7, <1>8, <1>11, <1>12, <1>13 DEF Application

\* A slot that stays with its connection is promised in no new frame.
LEMMA BoardKnown ==
  ASSUME TypeOK, Board, NEW c \in Conns, NEW h \in Handles, socks[h] = c, socks'[h] = c,
         NEW g \in 0 .. Len(toHost'), Known(c, h, g)'
  PROVE  g \in 0 .. Len(toHost) /\ Known(c, h, g)
<1>1. /\ toHost \in Seq(Frames) /\ Len(toHost) \in Nat /\ DOMAIN toHost = 1 .. Len(toHost)
      /\ h # 0 /\ c # None
  BY Names DEF TypeOK
<1>2. UNCHANGED <<pc, handle>> /\ (Silent \/ \E f \in Frames : Sent(f))
  BY BoardCases DEF host
<1>3. CASE toHost' = toHost
  BY <1>2, <1>3 DEF Known
<1>4. ASSUME NEW f \in Frames, Sent(f), toHost' = Append(toHost, f)
      PROVE  g \in 0 .. Len(toHost) /\ Known(c, h, g)
  <2>1. ~Grant(f, c, h)
    BY <1>1, <1>4 DEF Sent, DataSent, ClosedSent, AcceptSent, RefusalSent, OpenedSent, ShutSent, Answer, Grant
  <2> DEFINE q == Append(toHost, f)
             n == Len(toHost)
  <2>2. /\ Len(q) = n + 1 /\ q[n + 1] = f /\ DOMAIN q = 1 .. (n + 1) /\ \A k \in DOMAIN toHost : q[k] = toHost[k]
    BY <1>1, AppendFacts
  <2>3. n \in Nat /\ DOMAIN toHost = 1 .. n
    BY <1>1
  <2> HIDE DEF q
  <2>4. toHost' = q
    BY <1>4 DEF q
  <2> HIDE DEF n
  <2>5. g \in 0 .. (n + 1) /\ (g \in DOMAIN toHost' => g \in 1 .. (n + 1) /\ toHost'[g] = q[g])
    BY <2>2, <2>4
  <2>6. g # n + 1
    <3> SUFFICES ASSUME g = n + 1 PROVE FALSE
      OBVIOUS
    <3>1. g # 0 /\ toHost'[g] = f
      BY <2>2, <2>3, <2>4
    <3>2. QED  BY <2>1, <3>1 DEF Known
  <2>7. g \in 0 .. n /\ (g \in 1 .. (n + 1) => g \in DOMAIN toHost)
    BY <2>3, <2>5, <2>6
  <2>8. Known(c, h, g)
    BY <1>2, <2>2, <2>5, <2>7 DEF Known
  <2>9. QED  BY <2>7, <2>8 DEF n
<1>5. QED  BY <1>2, <1>3, <1>4, EmitFacts DEF Silent, Sent

\* A step of the board, as slot h and its connection see it.
LEMMA BoardCredit ==
  ASSUME TypeOK, CallInv, PlaceInv, AcceptInv, AckInv, [Next]_vars, Board, NEW c \in Conns, c \notin overdrawn',
         NEW h \in Handles, socks[h] = c, socks'[h] = c, NEW g \in 0 .. Len(toHost), Known(c, h, g)
  PROVE  /\ UNCHANGED <<fed, taken, acking>>
         /\ \/ windowUsed'[h] = windowUsed[h] /\ Data(c, h, g)' = Data(c, h, g) /\ Acks(c)' = Acks(c)
            \/ \E n \in Nat : /\ windowUsed'[h] = windowUsed[h] + n /\ Acks(c)' = Acks(c)
                              /\ \/ Data(c, h, g)' = Data(c, h, g) + n
                                 \/ Data(c, h, g)' = Data(c, h, g) /\ lostFrame'
            \/ \E n \in Nat : /\ Acks(c) = Acks(c)' + n /\ Data(c, h, g)' = Data(c, h, g)
                              /\ windowUsed'[h] = windowUsed[h] - n \/ (windowUsed[h] < n /\ windowUsed'[h] = 0)
<1>1. UNCHANGED <<fed, taken, acking>>
  BY BoardCases DEF host
<1>2. ASSUME NEW x \in Handles, PollData(x)
      PROVE  \/ windowUsed'[h] = windowUsed[h] /\ Data(c, h, g)' = Data(c, h, g) /\ Acks(c)' = Acks(c)
             \/ \E n \in Nat : /\ windowUsed'[h] = windowUsed[h] + n /\ Acks(c)' = Acks(c)
                               /\ \/ Data(c, h, g)' = Data(c, h, g) + n
                                  \/ Data(c, h, g)' = Data(c, h, g) /\ lostFrame'
  BY <1>2, PollCredit
<1>3. CASE HandleAck
  BY <1>1, <1>3, AckCredit
<1>4. CASE (\E x \in Handles : PollClosed(x) \/ PollListen(x)) \/ HandleOpen \/ HandleClose
  <2>1. windowUsed'[h] = windowUsed[h] /\ Acks(c)' = Acks(c)
    BY <1>4, OtherCredit
  <2>2. Quiet
    BY <1>4, QuietBoard
  <2>3. Data(c, h, g)' = Data(c, h, g)
    <3> DEFINE T == DataOn(c, h)
    <3>1. toHost \in Seq(Frames) /\ (\A m \in T : m.n \in Nat) /\ \A f \in Frames : f.op # "data" => f \notin T
      BY Sizes DEF TypeOK, DataOn, DataOf
    <3> HIDE DEF T
    <3>2. ASSUME NEW f \in Frames, f \notin T PROVE Weight(Rest(Append(toHost, f), g), T) = Weight(Rest(toHost, g), T)
      <4>1. /\ Weight(Rest(Append(toHost, f), g), T) = Weight(Rest(toHost, g), T) + IF f \in T THEN f.n ELSE 0
            /\ Weight(Rest(toHost, g), T) \in Nat
        BY <3>1, RestWeight
      <4>2. QED  BY <3>2, <4>1
    <3>3. Weight(Rest(toHost', g), T) = Weight(Rest(toHost, g), T)
      <4>1. CASE toHost' = toHost
        BY <4>1
      <4>2. ASSUME NEW f \in Frames, f.op # "data", toHost' = Append(toHost, f)
            PROVE  Weight(Rest(toHost', g), T) = Weight(Rest(toHost, g), T)
        <5>1. f \notin T
          BY <3>1, <4>2
        <5>2. Weight(Rest(Append(toHost, f), g), T) = Weight(Rest(toHost, g), T)
          BY <3>2, <5>1
        <5>3. QED  BY <4>2, <5>2
      <4>3. QED  BY <2>2, <4>1, <4>2 DEF Quiet
    <3>4. QED  BY <3>3 DEF Data, T
  <2>4. QED  BY <1>1, <2>1, <2>3
<1>5. QED  BY <1>1, <1>2, <1>3, <1>4 DEF Board

\* A socket that its handle is promised is not registered, and is given nothing.
LEMMA PromisedNothing ==
  ASSUME TypeOK, CallInv, PlaceInv, AcceptInv, [Next]_vars, Reader, NEW c \in Conns, NEW h \in Handles,
         NEW k \in DOMAIN toHost, Grant(toHost[k], c, h)
  PROVE  fed'[c] = fed[c]
<1>1. pc[c] \in {"new", "opening"}
  BY PromisedTo
<1>2. \A x \in Handles : sockets[x] # c
  BY <1>1, Names DEF PlaceInv
<1>3. CASE OnData
  <2> DEFINE e == Head(toHost)
             b == BytesOf(e)
  <2>1. e \in Frames /\ e.op = "data"
    BY <1>3, ReceiveFacts DEF OnData
  <2>2. e.h \in Handles
    BY <2>1, FrameFields
  <2>3. fed' = [d \in Conns |-> IF d \in Registered(e.h) THEN fed[d] \o b ELSE fed[d]]
    BY <1>3 DEF OnData, BytesOf
  <2>4. c \notin Registered(e.h)
    BY <1>2, <2>2 DEF Registered
  <2> HIDE DEF e, b
  <2>5. QED  BY <2>3, <2>4
<1>4. CASE OnAccept \/ OnClosed \/ OnReply
  BY <1>4 DEF OnAccept, OnClosed, OnReply
<1>5. QED  BY <1>3, <1>4 DEF Reader

\* The reader thread comes one frame nearer to a handle that is promised.
LEMMA ReaderKnown ==
  ASSUME TypeOK, CallInv, PlaceInv, AcceptInv, [Next]_vars, Reader, NEW c \in Conns, NEW h \in Handles,
         NEW g \in 0 .. Len(toHost'), Known(c, h, g)'
  PROVE  \/ /\ g + 1 \in 0 .. Len(toHost) /\ Known(c, h, g + 1)
            /\ fed'[c] = fed[c] /\ Data(c, h, g)' = Data(c, h, g + 1)
         \/ g = 0 /\ Known(c, h, 0)
<1>1. /\ toHost \in Seq(Frames) /\ toHost # <<>> /\ toHost' = Tail(toHost)
      /\ Head(toHost) = toHost[1] /\ 1 \in DOMAIN toHost
      /\ \A i \in DOMAIN toHost' : i \in Nat /\ i + 1 \in DOMAIN toHost /\ toHost'[i] = toHost[i + 1]
  BY ReaderQueue
<1>2. Rest(toHost', g) = Rest(toHost, g + 1) /\ g + 1 \in 0 .. Len(toHost)
  <2>1. g \in 0 .. Len(Tail(toHost))
    BY <1>1
  <2>2. Rest(Tail(toHost), g) = Rest(toHost, g + 1) /\ g + 1 \in 0 .. Len(toHost)
    BY <1>1, <2>1, RestTail
  <2>3. QED  BY <1>1, <2>2
<1>3. Data(c, h, g)' = Data(c, h, g + 1)
  BY <1>2 DEF Data
<1>4. c \in Objects
  BY Names
<1>5. CASE g \in DOMAIN toHost' /\ Grant(toHost'[g], c, h)
  <2>1. g + 1 \in DOMAIN toHost /\ Grant(toHost[g + 1], c, h)
    BY <1>1, <1>5
  <2>2. fed'[c] = fed[c] /\ Known(c, h, g + 1)
    BY <2>1, PromisedNothing DEF Known
  <2>3. QED  BY <1>2, <1>3, <2>2
<1>6. CASE g = 0 /\ handle'[c] = h /\ pc'[c] \in {"register", "use"}
  <2>1. CASE handle'[c] = handle[c] /\ (pc'[c] = pc[c] \/ <<pc[c], pc'[c]>> \in Steps)
    <3>1. handle[c] = h /\ pc[c] \in {"register", "use"}
      BY <1>6, <2>1 DEF Steps
    <3>2. QED  BY <1>6, <3>1 DEF Known
  <2>2. CASE Grant(Head(toHost), c, handle'[c])
    <3>1. Grant(toHost[1], c, h) /\ g + 1 = 1
      BY <1>1, <1>6, <2>2
    <3>2. fed'[c] = fed[c] /\ Known(c, h, 1)
      BY <1>1, <3>1, PromisedNothing DEF Known
    <3>3. QED  BY <1>2, <1>3, <3>1, <3>2
  <2>3. QED  BY <1>4, <2>1, <2>2, ThreadStep
<1>7. QED  BY <1>5, <1>6 DEF Known

\* The reader thread hands the bytes of c to its socket.
LEMMA ReaderCredit ==
  ASSUME TypeOK, SizeInv, CallInv, PlaceInv, AcceptInv, LiveInv, DataInv, OrderInv, [Next]_vars, Reader,
         NEW c \in Conns, NEW h \in Handles, socks[h] = c, Known(c, h, 0)
  PROVE  \/ Data(c, h, 0)' = Data(c, h, 0) /\ Len(fed'[c]) = Len(fed[c])
         \/ \E n \in Nat : /\ Data(c, h, 0) = Data(c, h, 0)' + n
                           /\ \/ Len(fed'[c]) = Len(fed[c]) + n
                              \/ Len(fed'[c]) = Len(fed[c]) /\ (lostFrame \/ c \in raced')
<1> DEFINE e == Head(toHost)
           T == DataOn(c, h)
<1>1. /\ toHost \in Seq(Frames) /\ toHost # <<>> /\ toHost' = Tail(toHost) /\ e \in Frames
      /\ e = toHost[1] /\ 1 \in DOMAIN toHost /\ DOMAIN toHost \subseteq Nat \ {0}
  BY ReaderQueue
<1>2. Data(c, h, 0) = Data(c, h, 0)' + (IF e \in T THEN e.n ELSE 0) /\ Data(c, h, 0)' \in Nat
  <2>1. \A m \in T : m.n \in Nat
    BY Sizes
  <2>2. Tail(toHost) \in Seq(Frames) /\ 0 \in 0 .. Len(Tail(toHost)) /\ 0 \in 0 .. Len(toHost)
    <3>1. Tail(toHost) \in Seq(Frames)
      BY <1>1, TailFacts
    <3>2. QED  BY <1>1, <3>1
  <2>3. Rest(Tail(toHost), 0) = Rest(toHost, 1)
    <3>1. Rest(Tail(toHost), 0) = Rest(toHost, 0 + 1)
      BY <1>1, <2>2, RestTail
    <3>2. QED  BY <3>1
  <2> HIDE DEF T, e
  <2>4. Weight(Rest(toHost, 0), T) = Weight(Rest(toHost, 1), T) + IF e \in T THEN e.n ELSE 0
    BY <1>1, <2>1, <2>2, RestWeight DEF e
  <2>5. Weight(Rest(Tail(toHost), 0), T) \in Nat
    BY <2>1, <2>2, RestWeight
  <2>6. QED  BY <1>1, <2>3, <2>4, <2>5 DEF Data, T
<1>3. handle[c] = h /\ pc[c] \in {"register", "use"}
  <2>1. 0 \notin DOMAIN toHost
    BY <1>1
  <2>2. QED  BY <2>1 DEF Known
<1>4. CASE OnAccept \/ OnClosed \/ OnReply
  <2>1. e.op # "data" /\ fed' = fed
    BY <1>4 DEF OnAccept, OnClosed, OnReply, Receiving
  <2>2. e \notin T
    BY <2>1 DEF DataOn, DataOf
  <2> HIDE DEF e, T
  <2>3. Data(c, h, 0)' = Data(c, h, 0)
    BY <1>2, <2>2
  <2>4. QED  BY <2>1, <2>3
<1>5. CASE OnData
  <2>1. e.op = "data"
    BY <1>5 DEF OnData, Receiving
  <2>2. /\ e \in DataOf(e.conn) /\ e.h \in Handles /\ e.conn \in Conns
        /\ Len(fed'[c]) = Len(fed[c]) + IF sockets[e.h] = c THEN e.n ELSE 0
    BY <1>5, FedGrows
  <2>3. e.n \in Nat /\ Len(fed[c]) \in Nat
    <3>1. e.n \in Nat
      BY <2>2, DataFields
    <3>2. QED  BY <3>1 DEF TypeOK
  <2>4. e \in T <=> e.conn = c /\ e.h = h
    BY <1>1, <2>1 DEF DataOn, DataOf
  <2>5. sockets[e.h] = c => e.h = h
    <3> SUFFICES ASSUME sockets[e.h] = c PROVE e.h = h
      OBVIOUS
    <3>1. \A x \in Handles : sockets[x] = c => handle[c] = x
      BY Names DEF PlaceInv
    <3>2. handle[c] = e.h
      BY <2>2, <3>1
    <3>3. QED  BY <1>3, <3>2
  <2>6. e.h = h => e.conn = c
    BY <1>1, <1>3, <2>1 DEF OrderInv
  <2>7. ~lostFrame /\ c \notin raced' /\ e.conn = c => sockets[e.h] = c
    <3> SUFFICES ASSUME ~lostFrame, c \notin raced', e.conn = c PROVE sockets[e.h] = c
      OBVIOUS
    <3>1. c \in Conns \ raced'
      BY RacedGrows
    <3>2. pc[c] \in Coming
      BY <1>3 DEF Coming
    <3>3. QED  BY <1>5, <3>1, <3>2, HeadData DEF e
  <2> HIDE DEF e, T
  <2>8. CASE e \in T
    <3>1. Data(c, h, 0) = Data(c, h, 0)' + e.n
      BY <1>2, <2>8
    <3>2. CASE sockets[e.h] = c
      BY <2>2, <2>3, <3>1, <3>2
    <3>3. CASE sockets[e.h] # c
      <4>1. Len(fed'[c]) = Len(fed[c])
        BY <2>2, <2>3, <3>3
      <4>2. lostFrame \/ c \in raced'
        BY <2>4, <2>7, <2>8, <3>3
      <4>3. QED  BY <2>3, <3>1, <4>1, <4>2
    <3>4. QED  BY <3>2, <3>3
  <2>9. CASE e \notin T
    <3>1. Data(c, h, 0)' = Data(c, h, 0)
      BY <1>2, <2>9
    <3>2. sockets[e.h] # c
      BY <2>4, <2>5, <2>6, <2>9
    <3>3. Len(fed'[c]) = Len(fed[c])
      BY <2>2, <2>3, <3>2
    <3>4. QED  BY <3>1, <3>3
  <2>10. QED  BY <2>8, <2>9
<1>6. QED  BY <1>4, <1>5 DEF Reader

\* A slot that is given to a connection is charged with nothing, and nothing of
\* it comes after the frame that says so.
LEMMA NewCredit ==
  ASSUME TypeOK, SizeInv, CallInv, PlaceInv, AcceptInv, AskedInv, AckInv, TakenInv, [Next]_vars,
         NEW c \in Conns, NEW h \in Handles, socks[h] # c, socks'[h] = c,
         NEW g \in 0 .. Len(toHost'), Known(c, h, g)'
  PROVE  /\ windowUsed'[h] = 0 /\ Data(c, h, g)' = 0 /\ Len(fed'[c]) = 0
         /\ taken'[c] = 0 /\ acking'[c] = 0 /\ Acks(c)' = 0
<1>1. /\ windowUsed'[h] = 0 /\ handle[c] = 0 /\ UNCHANGED host
      /\ \A j \in DOMAIN toHost : ~Grant(toHost[j], c, h)
  <2>1. ASSUME NEW x \in Handles, socks' = [socks EXCEPT ![x] = None] PROVE FALSE
    BY <2>1, Names DEF TypeOK
  <2>2. ASSUME NEW x \in Handles, NEW v \in Objects, socks' = [socks EXCEPT ![x] = v] PROVE x = h /\ v = c
    BY <2>2 DEF TypeOK
  <2>3. PICK x \in Handles, v \in Objects :
              /\ socks' = [socks EXCEPT ![x] = v] /\ handle[v] = 0
              /\ windowUsed' = [windowUsed EXCEPT ![x] = 0] /\ UNCHANGED host
              /\ \A j \in DOMAIN toHost : ~Grant(toHost[j], v, x)
    BY <2>1, SlotsStep
  <2>4. x = h /\ v = c
    BY <2>2, <2>3
  <2>5. windowUsed'[h] = 0
    BY <2>3, <2>4 DEF TypeOK
  <2>6. QED  BY <2>3, <2>4, <2>5
<1>2. /\ TypeOK' /\ CallInv' /\ AcceptInv' /\ AckInv' /\ c \in Objects /\ h # 0 /\ c # None
      /\ toHost \in Seq(Frames) /\ Len(toHost) \in Nat /\ DOMAIN toHost = 1 .. Len(toHost)
  <2>1. TypeOK' /\ CallInv' /\ AcceptInv' /\ AckInv'
    BY TypeStep, CallStep, AcceptStep, AckStep
  <2>2. toHost \in Seq(Frames) /\ Len(toHost) \in Nat /\ DOMAIN toHost = 1 .. Len(toHost)
    BY DEF TypeOK
  <2>3. c \in Objects /\ h # 0 /\ c # None
    BY Names
  <2>4. QED  BY <2>1, <2>2, <2>3
<1>3. g \in DOMAIN toHost' /\ Grant(toHost'[g], c, h)
  <2>1. handle'[c] # h
    BY <1>1, <1>2 DEF host
  <2>2. QED  BY <2>1 DEF Known
<1>4. g = Len(toHost')
  <2>1. Board
    <3>1. Application => socks' = socks
      BY DEF Application, board, Open, Register, Recv, Ack, Close, Forget, Retry, GiveUp
    <3>2. UNCHANGED vars => socks' = socks
      BY DEF vars, board
    <3>3. Reader => socks' = socks
      BY ReaderQueue
    <3>4. QED  BY <3>1, <3>2, <3>3 DEF Next, Done
  <2>2. PICK f \in Frames : Sent(f)
    BY <2>1, BoardCases DEF Silent
  <2>3. toHost' = toHost \/ toHost' = Append(toHost, f)
    BY <2>2, EmitFacts DEF Sent
  <2>4. toHost' = Append(toHost, f)
    BY <1>1, <1>3, <2>3
  <2> DEFINE q == Append(toHost, f)
             n == Len(toHost)
  <2>5. /\ Len(q) = n + 1 /\ DOMAIN q = 1 .. (n + 1) /\ n \in Nat /\ DOMAIN toHost = 1 .. n
        /\ \A k \in DOMAIN toHost : q[k] = toHost[k]
    BY <1>2, AppendFacts
  <2> HIDE DEF q, n
  <2>6. toHost' = q
    BY <2>4 DEF q
  <2>7. g \in 1 .. (n + 1) /\ g \notin 1 .. n
    BY <1>1, <1>3, <2>5, <2>6
  <2>8. QED  BY <2>5, <2>6, <2>7
<1>5. pc'[c] \in {"new", "opening"}
  <2>1. CASE toHost'[g].op = "accept" /\ toHost'[g].conn = c
    BY <1>2, <1>3, <2>1 DEF AcceptInv
  <2>2. CASE toHost'[g].op = "reply" /\ toHost'[g].ok /\ toHost'[g].who = c /\ toHost'[g].h = h
    BY <1>2, <1>3, <2>2 DEF CallInv, CallOf
  <2>3. QED  BY <1>3, <2>1, <2>2 DEF Grant
<1>6. Len(fed'[c]) = 0 /\ taken'[c] = 0 /\ acking'[c] = 0
  <2>1. pc[c] \in {"new", "opening"}
    BY <1>1, <1>5 DEF host
  <2>2. fed[c] = <<>> /\ ~(acking[c] > 0)
    BY <2>1 DEF PlaceInv
  <2>3. taken[c] <= Len(fed[c]) /\ taken[c] \in Nat /\ acking[c] \in Nat
    BY DEF TakenInv, TypeOK
  <2>4. Len(fed[c]) = 0 /\ taken[c] = 0 /\ acking[c] = 0
    BY <2>2, <2>3
  <2>5. QED  BY <1>1, <2>4 DEF host
<1>7. Data(c, h, g)' = 0
  <2> DEFINE T == DataOn(c, h)
  <2>1. toHost' \in Seq(Frames) /\ \A m \in T : m.n \in Nat
    BY <1>2, Sizes DEF TypeOK
  <2> HIDE DEF T
  <2>2. Weight(Rest(toHost', g), T) = 0
    BY <1>4, <2>1, RestWeight
  <2>3. QED  BY <2>2 DEF Data, T
<1>8. Acks(c)' = 0
  <2>1. \A i \in DOMAIN toBoard' : toBoard'[i] \notin AcksOf(c)
    BY <1>2, <1>5 DEF AckInv, AcksOf
  <2>2. toBoard' \in Seq(Requests) /\ \A m \in AcksOf(c) : m.n \in Nat
    BY <1>2, Sizes DEF TypeOK
  <2>3. Weight(toBoard', AcksOf(c)) = 0
    BY <2>1, <2>2, WeightFacts
  <2>4. QED  BY <2>3 DEF Acks
<1>9. QED  BY <1>1, <1>6, <1>7, <1>8

\* What is owed is counted by numbers.
Counted == \A c \in Conns, h \in Handles : \A g \in 0 .. Len(toHost) : Data(c, h, g) \in Nat /\ Acks(c) \in Nat

LEMMA WeightNumbers == TypeOK => Counted
  BY WeightTypes DEF Counted

LEMMA CreditStep ==
  ASSUME TypeOK, SizeInv, CallInv, PlaceInv, AcceptInv, LiveInv, DataInv, AskedInv, AckInv, OrderInv,
         TakenInv, CreditInv, [Next]_vars
  PROVE  CreditInv'
<1>1. TypeOK /\ TypeOK' /\ TakenInv'
  BY TypeStep, TakenStep
<1> SUFFICES ASSUME NEW c \in Conns, c \notin overdrawn', NEW h \in Handles, NEW g \in 0 .. Len(toHost'),
                    socks'[h] = c, Known(c, h, g)'
             PROVE  /\ Owed(c, h, g)' <= windowUsed'[h]
                    /\ ~lostFrame' /\ c \notin raced' => Owed(c, h, g)' = windowUsed'[h]
  BY DEF CreditInv
<1> DEFINE S == Len(fed[c])
           S2 == Len(fed'[c])
           T == taken[c]
           T2 == taken'[c]
           A == acking[c]
           A2 == acking'[c]
           U == windowUsed[h]
           U2 == windowUsed'[h]
           D2 == Data(c, h, g)'
           K == Acks(c)
           K2 == Acks(c)'
           Exact == ~lostFrame /\ c \notin raced
           Exact2 == ~lostFrame' /\ c \notin raced'
           Holds(d) == d + S - T + A + K <= U /\ (Exact => d + S - T + A + K = U)
           Goal == D2 + S2 - T2 + A2 + K2 <= U2 /\ (Exact2 => D2 + S2 - T2 + A2 + K2 = U2)
<1>2. Goal => /\ Owed(c, h, g)' <= windowUsed'[h]
              /\ ~lostFrame' /\ c \notin raced' => Owed(c, h, g)' = windowUsed'[h]
  BY DEF Owed
<1>3. S \in Nat /\ T \in Nat /\ A \in Nat /\ U \in Nat /\ T <= S /\ K \in Nat
  <2>1. 0 \in 0 .. Len(toHost)
    BY <1>1 DEF TypeOK
  <2>2. K \in Nat
    BY <1>1, <2>1, WeightNumbers DEF Counted
  <2>3. S \in Nat /\ T \in Nat /\ A \in Nat /\ U \in Nat
    BY NetAssumption DEF TypeOK
  <2>4. QED  BY <2>2, <2>3 DEF TakenInv
<1>4. S2 \in Nat /\ T2 \in Nat /\ A2 \in Nat /\ U2 \in Nat /\ T2 <= S2 /\ D2 \in Nat /\ K2 \in Nat
  <2>1. D2 \in Nat /\ K2 \in Nat
    <3>1. TypeOK' => Counted'
      BY WeightNumbers, PTL
    <3>2. QED  BY <1>1, <3>1 DEF Counted
  <2>2. S2 \in Nat /\ T2 \in Nat /\ A2 \in Nat /\ U2 \in Nat
    BY <1>1, NetAssumption DEF TypeOK
  <2>3. QED  BY <1>1, <2>1, <2>2 DEF TakenInv
<1>5. (Exact2 => Exact) /\ c \notin overdrawn
  <2>1. Exact2 => Exact
    BY Unlost, RacedGrows
  <2>2. c \notin overdrawn
    BY OverdrawnGrows
  <2>3. QED  BY <2>1, <2>2
<1>6. ASSUME NEW k \in 0 .. Len(toHost), Known(c, h, k), socks[h] = c
      PROVE  Data(c, h, k) \in Nat /\ Holds(Data(c, h, k))
  <2>1. Data(c, h, k) \in Nat
    BY <1>1, WeightNumbers DEF Counted
  <2>2. Holds(Data(c, h, k))
    BY <1>5, <1>6 DEF CreditInv, Owed
  <2>3. QED  BY <2>1, <2>2
<1>7. CASE socks[h] # c
  <2>1. U2 = 0 /\ D2 = 0 /\ S2 = 0 /\ T2 = 0 /\ A2 = 0 /\ K2 = 0
    BY <1>7, NewCredit
  <2> HIDE DEF U2, D2, S2, T2, A2, K2
  <2>2. Goal
    BY <2>1
  <2>3. QED  BY <1>2, <2>2 DEF U2, D2, S2, T2, A2, K2
<1>8. ASSUME socks[h] = c, Board PROVE Goal
  <2> DEFINE D == Data(c, h, g)
  <2>1. g \in 0 .. Len(toHost) /\ Known(c, h, g)
    BY <1>8, BoardKnown
  <2>2. D \in Nat /\ Holds(D)
    BY <1>6, <1>8, <2>1
  <2>3. /\ S2 = S /\ T2 = T /\ A2 = A
        /\ \/ U2 = U /\ D2 = D /\ K2 = K
           \/ \E n \in Nat : U2 = U + n /\ K2 = K /\ (D2 = D + n \/ (D2 = D /\ lostFrame'))
           \/ \E n \in Nat : K = K2 + n /\ D2 = D /\ (U2 = U - n \/ (U < n /\ U2 = 0))
    BY <1>8, <2>1, BoardCredit
  <2>4. lostFrame' => ~Exact2
    OBVIOUS
  <2> HIDE DEF S, S2, T, T2, A, A2, U, U2, D, D2, K, K2, Exact, Exact2
  <2>5. QED  BY <1>3, <1>4, <1>5, <2>2, <2>3, <2>4
<1>9. ASSUME socks[h] = c, Reader PROVE Goal
  <2>1. U2 = U /\ T2 = T /\ A2 = A /\ K2 = K
    BY <1>9 DEF Reader, OnData, OnAccept, OnClosed, OnReply, board, Acks
  <2>2. CASE /\ g + 1 \in 0 .. Len(toHost) /\ Known(c, h, g + 1)
             /\ fed'[c] = fed[c] /\ Data(c, h, g)' = Data(c, h, g + 1)
    <3> DEFINE D == Data(c, h, g + 1)
    <3>1. D \in Nat /\ Holds(D)
      BY <1>6, <1>9, <2>2
    <3>2. D2 = D /\ S2 = S
      BY <2>2
    <3> HIDE DEF S, S2, T, T2, A, A2, U, U2, D, D2, K, K2, Exact, Exact2
    <3>3. QED  BY <1>3, <1>4, <1>5, <2>1, <3>1, <3>2
  <2>3. CASE g = 0 /\ Known(c, h, 0)
    <3> DEFINE D == Data(c, h, 0)
    <3>1. D \in Nat /\ Holds(D)
      <4>1. 0 \in 0 .. Len(toHost)
        BY <1>1 DEF TypeOK
      <4>2. QED  BY <1>6, <1>9, <2>3, <4>1
    <3>2. \/ D2 = D /\ S2 = S
          \/ \E n \in Nat : D = D2 + n /\ (S2 = S + n \/ (S2 = S /\ (lostFrame \/ c \in raced')))
      BY <1>9, <2>3, ReaderCredit
    <3>3. (lostFrame \/ c \in raced') => ~Exact2
      BY Unlost
    <3> HIDE DEF S, S2, T, T2, A, A2, U, U2, D, D2, K, K2, Exact, Exact2
    <3>4. QED  BY <1>3, <1>4, <1>5, <2>1, <3>1, <3>2, <3>3
  <2>4. QED  BY <1>9, <2>2, <2>3, ReaderKnown
<1>10. ASSUME socks[h] = c, Application \/ UNCHANGED vars PROVE Goal
  <2> DEFINE D == Data(c, h, g)
  <2>1. g \in 0 .. Len(toHost) /\ Known(c, h, g) /\ D2 = D
    BY <1>10, ThreadKnown
  <2>2. D \in Nat /\ Holds(D)
    BY <1>6, <1>10, <2>1
  <2>3. /\ U2 = U /\ S2 = S
        /\ \/ T2 = T /\ A2 = A /\ K2 = K
           \/ \E n \in Nat : T2 = T + n /\ A2 = A + n /\ K2 = K
           \/ T2 = T /\ A2 = 0 /\ K2 = K + A
           \/ T2 = T /\ A2 = 0 /\ K2 = K /\ lostFrame'
    BY <1>10, ApplicationCredit
  <2>4. lostFrame' => ~Exact2
    OBVIOUS
  <2> HIDE DEF S, S2, T, T2, A, A2, U, U2, D, D2, K, K2, Exact, Exact2
  <2>5. QED  BY <1>3, <1>4, <1>5, <2>1, <2>2, <2>3, <2>4
<1>11. socks[h] = c => Goal
  <2>1. Application => socks' = socks
    BY DEF Application, board, Open, Register, Recv, Ack, Close, Forget, Retry, GiveUp
  <2> HIDE DEF Goal
  <2>2. QED  BY <1>8, <1>9, <1>10 DEF Next, Done
<1> HIDE DEF Goal
<1>12. QED  BY <1>2, <1>7, <1>11

-----------------------------------------------------------------------------
(* Credit, from the beginning *)

CreditIInv == StreamInv /\ AskedInv /\ AckInv /\ OrderInv /\ TakenInv /\ CreditInv

LEMMA CreditInit ==
  ASSUME Init
  PROVE  CreditIInv
<1>1. StreamInv
  BY StreamInit
<1>2. /\ DOMAIN toBoard = {} /\ DOMAIN toHost = {}
      /\ \A h \in Handles : socks[h] = None
      /\ \A c \in Conns : taken[c] = 0 /\ fed[c] = <<>> /\ c # None
  BY Names DEF Init
<1>3. AskedInv /\ AckInv /\ OrderInv /\ TakenInv
  BY <1>2 DEF AskedInv, AckInv, OrderInv, TakenInv
<1>4. CreditInv
  BY <1>2 DEF CreditInv
<1>5. QED  BY <1>1, <1>3, <1>4 DEF CreditIInv

LEMMA CreditNext ==
  ASSUME CreditIInv, [Next]_vars
  PROVE  CreditIInv'
<1>1. /\ TypeOK /\ SizeInv /\ CallInv /\ PlaceInv /\ AcceptInv /\ LiveInv /\ DataInv
      /\ AskedInv /\ AckInv /\ OrderInv /\ TakenInv /\ CreditInv
  BY DEF CreditIInv, StreamInv, IInv
<1>2. StreamInv'
  BY StreamNext DEF CreditIInv
<1>3. AskedInv' /\ AckInv' /\ TakenInv'
  BY <1>1, AskedStep, AckStep, TakenStep
<1>4. OrderInv' /\ CreditInv'
  BY <1>1, OrderStep, CreditStep
<1>5. QED  BY <1>2, <1>3, <1>4 DEF CreditIInv

LEMMA CreditInvariant == Spec => []CreditIInv
  BY CreditInit, CreditNext, PTL DEF Spec

\* The sums of the property are those of the invariant.
LEMMA OwedMeans ==
  ASSUME TypeOK, NEW c \in Conns
  PROVE  OnTheWay(c) = Data(c, handle[c], 0) /\ CreditOnTheWay(c) = Acks(c)
<1>1. toHost \in Seq(Frames) /\ 0 \in 0 .. Len(toHost) /\ toBoard \in Seq(Requests)
  BY DEF TypeOK
<1>2. Rest(toHost, 0) = toHost
  BY <1>1, RestFacts
<1>3. [i \in DOMAIN toHost |-> IF i \in Mine(c) THEN toHost[i].n ELSE 0]
        = [i \in DOMAIN toHost |-> IF toHost[i] \in DataOn(c, handle[c]) THEN toHost[i].n ELSE 0]
  BY <1>1 DEF Mine, Carrying, DataOn, DataOf
<1>4. [i \in DOMAIN toBoard |-> IF i \in Credits(c) THEN toBoard[i].n ELSE 0]
        = [i \in DOMAIN toBoard |-> IF toBoard[i] \in AcksOf(c) THEN toBoard[i].n ELSE 0]
  BY <1>1 DEF Credits, AcksOf
<1>5. QED  BY <1>2, <1>3, <1>4 DEF OnTheWay, CreditOnTheWay, Data, Acks, Weight

\* window_used of a slot is never less than the bytes its connection has under
\* way, unread and unacknowledged, so that with TypesKept no more than NET_WINDOW
\* of them exist, whatever is lost, sent twice or left over from the connection
\* that had the slot before; and it is no more than these while nothing is lost
\* and the socket does not race an older one, so that the credit of a connection
\* does not dwindle.  A connection whose slot was given the credit of another
\* one's bytes is exempt (net_poll(), WINDOW_ACK; recv() and _feed()).
THEOREM CreditIsConserved == Spec => []CreditConserved
<1>1. ASSUME CreditIInv, NEW c \in Conns, InUse(c), socks[handle[c]] = c, c \notin overdrawn
      PROVE  LET owed == OnTheWay(c) + Len(fed[c]) - taken[c] + acking[c] + CreditOnTheWay(c)
             IN  /\ owed <= windowUsed[handle[c]]
                 /\ ~lostFrame /\ c \notin raced => owed = windowUsed[handle[c]]
  <2>1. c \in Objects /\ PlaceInv /\ TypeOK /\ CreditInv /\ pc[c] = "use"
    BY <1>1, Names DEF CreditIInv, StreamInv, IInv, InUse
  <2>2. handle[c] \in Handles
    BY <2>1 DEF PlaceInv, TypeOK
  <2>3. 0 \in 0 .. Len(toHost) /\ Known(c, handle[c], 0)
    BY <2>1 DEF Known, TypeOK
  <2>4. Owed(c, handle[c], 0) = OnTheWay(c) + Len(fed[c]) - taken[c] + acking[c] + CreditOnTheWay(c)
    BY <2>1, OwedMeans DEF Owed
  <2>5. QED  BY <1>1, <2>1, <2>2, <2>3, <2>4 DEF CreditInv
<1>2. CreditIInv => CreditConserved
  BY <1>1 DEF CreditConserved
<1>3. QED  BY <1>2, CreditInvariant, PTL
=============================================================================
