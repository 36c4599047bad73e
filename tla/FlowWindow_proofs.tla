-------------------------- MODULE FlowWindow_proofs --------------------------
(***************************************************************************)
(* Proofs about FlowWindow for any number of threads and calls, and any    *)
(* sizes of frames, windows and ring that satisfy FlowAssumption.          *)
(*                                                                         *)
(* CallInv and PipeInv tie threads to their places and frames to threads;  *)
(* with the types and the accounting (ReservedIsLive) they are inductive.  *)
(* ShareInv bounds what threads that wait for every reply have under way,  *)
(* by injecting the bytes of the pipe into those reserved; SoloInv what    *)
(* one thread alone has, counting the bytes of its bursts.  Together they  *)
(* say that the ring cannot overflow but for the causes in OverrunHasCause. *)
(***************************************************************************)
EXTENDS FlowWindow, FiniteSetTheorems, FunctionTheorems, SequenceTheorems, TLAPS

\* Whoever is in a call has made it, with a frame of a legal size.
CallInv ==
  /\ \A t \in Threads : pc[t] # "idle" =>
       /\ len[t] \in Sizes
       /\ t \in callers
       /\ sending[t] => t \in senders
  /\ \A t \in Threads : pc[t] \in {"check", "sendWrite", "count"} => sending[t]
  /\ \A t \in Threads : woken[t] => pc[t] = "wait"
  /\ senders = {} => sendBytes = 0

\* The frame of a request is in the pipe once at most, while its thread waits.
PipeInv ==
  /\ \A i \in DOMAIN pipe : pipe[i].who # Nobody =>
       /\ pc[pipe[i].who] = "wait" /\ ~woken[pipe[i].who]
       /\ pipe[i].size = Request(pipe[i].who)
  /\ \A i, j \in DOMAIN pipe : pipe[i].who = pipe[j].who /\ pipe[i].who # Nobody => i = j

Quiet == slips <= 1 /\ ~closing

NoOrphan == \A i \in DOMAIN pipe : pipe[i].who # Nobody
OneOrphan == \A i, j \in DOMAIN pipe : pipe[i].who = Nobody /\ pipe[j].who = Nobody => i = j

\* Threads that wait for every reply: one slip reserves a frame too much, or
\* leaves a frame that nobody waits for.
ShareInv ==
  Quiet /\ senders = {} =>
    \/ unacked <= MaxInflight /\ NoOrphan
    \/ slips = 1 /\ NoOrphan /\ \E n \in Sizes : unacked <= MaxInflight + n
    \/ slips = 1 /\ OneOrphan /\ unacked <= MaxInflight

\* What a thread has in the pipe that sendBytes does not count, and what it is
\* about to write of its burst.
Uncounted(t) == CASE pc[t] = "wait" -> Request(t) [] pc[t] = "count" -> len[t] [] OTHER -> 0
Coming(t) == IF pc[t] \in {"sendWrite", "count"} THEN len[t] ELSE 0

\* One thread alone waits for the last frame of the pipe and fits its bursts
\* into the window; the pipe holds what is counted or under way, and one frame
\* left by a slip.
Ordered(t) ==
  /\ sendBytes + Coming(t) <= BurstWindow
  /\ woken[t] => pipe = <<>>
  /\ \A i \in DOMAIN pipe : pipe[i].who # Nobody => i = Len(pipe)

Counted(t, left) ==
  /\ slips = 0 => left = 0
  /\ Bytes(pipe) <= sendBytes + Uncounted(t) + left
  /\ pc[t] = "write" => left = 0 \/ sendBytes + Request(t) <= MaxInflight

SoloInv ==
  \A t \in Threads : Quiet /\ callers \subseteq {t} =>
    Ordered(t) /\ \E left \in Sizes \cup {PingSize, 0} : Counted(t, left)

IInv ==
  /\ TypeOK /\ CallInv /\ PipeInv /\ ShareInv /\ SoloInv
  /\ ReservedIsLive /\ WaiterIsNotAlone /\ OverrunHasCause

-----------------------------------------------------------------------------
(* Facts about sums and about the operators *)

\* What lies under a function to numbers.
LEMMA UnderMember ==
  ASSUME NEW f
  PROVE  /\ \A x, i : <<x, i>> \in Under(f) <=> x \in DOMAIN f /\ i \in 1 .. f[x]
         /\ \A p \in Under(f) : p = <<p[1], p[2]>> /\ p[1] \in DOMAIN f /\ p[2] \in 1 .. f[p[1]]
  BY DEF Under

LEMMA OneColumn ==
  ASSUME NEW x, NEW n \in Nat
  PROVE  IsFiniteSet({x} \X (1 .. n)) /\ Cardinality({x} \X (1 .. n)) = n
<1>1. IsFiniteSet({x}) /\ Cardinality({x}) = 1
  BY ONLY FS_Singleton
<1>2. IsFiniteSet(1 .. n) /\ Cardinality(1 .. n) = n
  <2>1. 1 \in Int /\ n \in Int
    OBVIOUS
  <2>2. IsFiniteSet(1 .. n) /\ Cardinality(1 .. n) = IF 1 > n THEN 0 ELSE n - 1 + 1
    BY ONLY <2>1, FS_Interval
  <2>3. QED  BY <2>2
<1>3. /\ IsFiniteSet({x} \X (1 .. n))
      /\ Cardinality({x} \X (1 .. n)) = Cardinality({x}) * Cardinality(1 .. n)
  BY ONLY <1>1, <1>2, FS_Product
<1>4. QED  BY <1>1, <1>2, <1>3

\* A finite sum of numbers is a number.
LEMMA TotalNat ==
  ASSUME NEW D, IsFiniteSet(D), NEW f \in [D -> Nat]
  PROVE  IsFiniteSet(Under(f)) /\ Total(f) \in Nat
<1> DEFINE Column == [x \in D |-> {x} \X (1 .. f[x])]
           Columns == {Column[x] : x \in D}
<1>1. Column \in Surjection(D, Columns)
  <2>1. Column \in [D -> Columns]
    OBVIOUS
  <2>2. \A c \in Columns : \E x \in D : Column[x] = c
    OBVIOUS
  <2>3. QED  BY ONLY <2>1, <2>2, Fun_IsSurj
<1>2. IsFiniteSet(Columns)
  BY ONLY <1>1, FS_Surjection, IsFiniteSet(D)
<1>3. ASSUME NEW c \in Columns PROVE IsFiniteSet(c)
  <2>1. PICK x \in D : c = {x} \X (1 .. f[x])
    OBVIOUS
  <2>2. QED  BY <2>1, OneColumn
<1>4. Under(f) = UNION Columns
  BY DEF Under
<1>5. IsFiniteSet(Under(f))
  BY ONLY <1>2, <1>3, <1>4, FS_UNION
<1>6. QED  BY <1>5, FS_CardinalityType DEF Total

\* The empty sum.
LEMMA TotalEmpty ==
  ASSUME NEW f, DOMAIN f = {}
  PROVE  Total(f) = 0
<1>1. Under(f) = {}
  BY DEF Under
<1>2. QED  BY <1>1, FS_EmptySet DEF Total

\* A sum without one of its terms.
LEMMA TotalRemove ==
  ASSUME NEW D, IsFiniteSet(D), NEW g \in [D -> Nat], NEW x \in D
  PROVE  Total(g) = Total([y \in D \ {x} |-> g[y]]) + g[x]
<1> DEFINE f == [y \in D \ {x} |-> g[y]]
           New == {x} \X (1 .. g[x])
<1>1. Under(g) = Under(f) \cup New /\ Under(f) \cap New = {}
  BY DEF Under
<1>2. IsFiniteSet(New) /\ Cardinality(New) = g[x]
  BY OneColumn
<1>3. IsFiniteSet(Under(f)) /\ Total(f) \in Nat
  <2>1. IsFiniteSet(D \ {x}) /\ f \in [D \ {x} -> Nat]
    BY FS_Difference
  <2>2. QED  BY <2>1, TotalNat
<1>4. Cardinality(Under(f) \cup New)
        = Cardinality(Under(f)) + Cardinality(New) - Cardinality(Under(f) \cap New)
  <2> HIDE DEF f, New
  <2> QED  BY ONLY <1>2, <1>3, FS_Union
<1>5. g[x] \in Nat
  OBVIOUS
<1>6. Total(g) = Total(f) + g[x]
  <2> HIDE DEF f, New
  <2>1. Cardinality(Under(f) \cap New) = 0
    BY <1>1, FS_EmptySet
  <2>2. QED  BY <1>1, <1>2, <1>3, <1>4, <1>5, <2>1 DEF Total
<1>7. QED  BY <1>6

\* A sum whose terms are found among those of another is no larger.
LEMMA TotalInjection ==
  ASSUME NEW D, NEW E, IsFiniteSet(E), NEW f \in [D -> Nat], NEW g \in [E -> Nat],
         NEW h \in [D -> E], \A x, y \in D : h[x] = h[y] => x = y,
         \A x \in D : f[x] <= g[h[x]]
  PROVE  Total(f) <= Total(g)
<1> DEFINE H == [p \in Under(f) |-> <<h[p[1]], p[2]>>]
<1>1. ASSUME NEW p \in Under(f) PROVE H[p] \in Under(g)
  <2>1. p[1] \in D /\ p[2] \in 1 .. f[p[1]]
    BY UnderMember
  <2>2. h[p[1]] \in E /\ p[2] \in 1 .. g[h[p[1]]]
    BY <2>1
  <2>3. QED  BY <2>2, UnderMember
<1>2. ASSUME NEW p \in Under(f), NEW q \in Under(f), H[p] = H[q] PROVE p = q
  <2>1. p = <<p[1], p[2]>> /\ q = <<q[1], q[2]>> /\ p[1] \in D /\ q[1] \in D
    BY UnderMember
  <2>2. h[p[1]] = h[q[1]] /\ p[2] = q[2]
    BY <1>2
  <2>3. QED  BY <2>1, <2>2
<1>3. H \in Injection(Under(f), Under(g))
  <2>1. H \in [Under(f) -> Under(g)]
    BY <1>1
  <2>2. \A p, q \in Under(f) : H[p] = H[q] => p = q
    BY <1>2
  <2>3. QED  BY ONLY <2>1, <2>2, Fun_IsInj
<1>4. IsFiniteSet(Under(g))
  BY TotalNat
<1>5. QED  BY ONLY <1>3, <1>4, FS_Injection DEF Total

\* Max and Min as they are used here.
LEMMA CutFacts ==
  /\ \A a \in Int : Max({0, a}) = IF a > 0 THEN a ELSE 0
  /\ \A n \in Nat : Min({n + 1, 2}) = IF n = 0 THEN 1 ELSE 2
<1>1. ASSUME NEW a \in Int PROVE Max({0, a}) = IF a > 0 THEN a ELSE 0
  <2> DEFINE m == IF a > 0 THEN a ELSE 0
  <2>1. m \in {0, a} /\ \A y \in {0, a} : m >= y
    OBVIOUS
  <2>2. \A x \in {0, a} : (\A y \in {0, a} : x >= y) => x = m
    OBVIOUS
  <2>3. QED  BY <2>1, <2>2 DEF Max
<1>2. ASSUME NEW n \in Nat PROVE Min({n + 1, 2}) = IF n = 0 THEN 1 ELSE 2
  <2> DEFINE m == IF n = 0 THEN 1 ELSE 2
  <2>1. m \in {n + 1, 2} /\ \A y \in {n + 1, 2} : m <= y
    OBVIOUS
  <2>2. \A x \in {n + 1, 2} : (\A y \in {n + 1, 2} : x <= y) => x = m
    OBVIOUS
  <2>3. QED  BY <2>1, <2>2 DEF Min
<1>3. QED  BY <1>1, <1>2

\* The bytes of a pipe, when it grows, shrinks or changes hands.
LEMMA BytesFacts ==
  ASSUME NEW q \in Seq(Frame)
  PROVE  /\ Bytes(q) \in Nat
         /\ q = <<>> => Bytes(q) = 0
         /\ \A f \in Frame : Bytes(Append(q, f)) = Bytes(q) + f.size
         /\ q # <<>> => Bytes(Tail(q)) <= Bytes(q)
         /\ \A r : DOMAIN r = DOMAIN q /\ (\A i \in DOMAIN q : r[i].size = q[i].size)
              => Bytes(r) = Bytes(q)
<1> DEFINE Size(r) == [i \in DOMAIN r |-> r[i].size]
<1>1. /\ Len(q) \in Nat /\ DOMAIN q = 1 .. Len(q)
      /\ \A i \in 1 .. Len(q) : q[i] \in Frame
  OBVIOUS
<1>2. \A f \in Frame : f.size \in Nat
  BY FlowAssumption DEF Frame
<1>3. IsFiniteSet(DOMAIN q)
  BY <1>1, FS_Interval
<1>4. Size(q) \in [DOMAIN q -> Nat]
  BY <1>1, <1>2
<1>5. Bytes(q) \in Nat
  BY <1>3, <1>4, TotalNat DEF Bytes
<1>6. q = <<>> => Bytes(q) = 0
  <2>1. q = <<>> => DOMAIN Size(q) = {}
    OBVIOUS
  <2>2. QED  BY <2>1, TotalEmpty DEF Bytes
<1>7. ASSUME NEW f \in Frame PROVE Bytes(Append(q, f)) = Bytes(q) + f.size
  <2> DEFINE g == Size(Append(q, f))
             n == Len(q) + 1
  <2>1. /\ DOMAIN Append(q, f) = DOMAIN q \cup {n} /\ n \notin DOMAIN q
        /\ \A i \in DOMAIN q : Append(q, f)[i] = q[i]
        /\ Append(q, f)[n] = f
    BY <1>1
  <2>2. g \in [DOMAIN q \cup {n} -> Nat] /\ g[n] = f.size
    BY <1>1, <1>2, <2>1
  <2>3. \A i \in DOMAIN q : g[i] = Size(q)[i]
    BY <2>1
  <2>4. Size(q) = [i \in (DOMAIN q \cup {n}) \ {n} |-> g[i]]
    BY <2>1, <2>3
  <2>5. IsFiniteSet(DOMAIN q \cup {n})
    BY <1>3, FS_AddElement
  <2>6. Total(g) = Total([i \in (DOMAIN q \cup {n}) \ {n} |-> g[i]]) + g[n]
    <3> HIDE DEF g, n, Size
    <3> QED  BY ZenonT(40), <2>2, <2>5, TotalRemove
  <2>7. QED  BY <2>2, <2>4, <2>6 DEF Bytes
<1>8. ASSUME q # <<>> PROVE Bytes(Tail(q)) <= Bytes(q)
  <2> DEFINE r == Tail(q)
             h == [i \in DOMAIN r |-> i + 1]
  <2>1. /\ DOMAIN r = 1 .. (Len(q) - 1) /\ Len(q) >= 1
        /\ \A i \in DOMAIN r : r[i] = q[i + 1]
    BY <1>1, <1>8
  <2>2. Size(r) \in [DOMAIN r -> Nat]
    BY <1>1, <1>2, <2>1
  <2>3. h \in [DOMAIN r -> DOMAIN q] /\ \A i, j \in DOMAIN r : h[i] = h[j] => i = j
    BY <1>1, <2>1
  <2>4. \A i \in DOMAIN r : Size(r)[i] <= Size(q)[h[i]]
    <3> TAKE i \in DOMAIN r
    <3>1. i + 1 \in DOMAIN q /\ Size(r)[i] = q[i + 1].size /\ Size(q)[h[i]] = q[i + 1].size
      BY <1>1, <2>1
    <3>2. QED  BY <1>1, <1>2, <3>1
  <2> HIDE DEF r, h, Size
  <2>5. Total(Size(r)) <= Total(Size(q))
    BY ONLY <1>3, <1>4, <2>2, <2>3, <2>4, TotalInjection
  <2>6. QED  BY <2>5 DEF Bytes, r, Size
<1>9. ASSUME NEW r, DOMAIN r = DOMAIN q, \A i \in DOMAIN q : r[i].size = q[i].size
      PROVE  Bytes(r) = Bytes(q)
  <2>1. Size(r) = Size(q)
    BY <1>9
  <2>2. QED  BY <2>1 DEF Bytes
<1>10. QED  BY <1>5, <1>6, <1>7, <1>8, <1>9

-----------------------------------------------------------------------------
(* Types, and threads in their places *)

\* The frame of a thread's request.
LEMMA RequestFacts ==
  ASSUME TypeOK, NEW t \in Threads
  PROVE  /\ len[t] \in Nat /\ Request(t) \in Nat
         /\ len[t] \in Sizes => Request(t) \in Sizes \cup {PingSize}
         /\ ~sending[t] => Request(t) = len[t]
<1>1. len[t] \in Sizes \cup {0} /\ sending[t] \in BOOLEAN
  BY DEF TypeOK
<1>2. PingSize \in Nat /\ \A n \in Sizes \cup {0} : n \in Nat
  BY FlowAssumption
<1>3. QED  BY <1>1, <1>2 DEF Request

\* What a frame in the ring, or the loss of one, leaves.
LEMMA PutFacts ==
  ASSUME TypeOK, NEW f \in Frame, Put(f)
  PROVE  /\ pipe' \in Seq(Frame) /\ lost' \in BOOLEAN
         /\ pipe' = Append(pipe, f) \/ pipe' = pipe
         /\ lost' => lost \/ Bytes(pipe) + f.size > Ring
<1>1. pipe \in Seq(Frame) /\ Bytes(pipe) \in Nat /\ f.size \in Nat /\ Ring \in Nat
  BY BytesFacts, FlowAssumption DEF TypeOK, Frame
<1>2. CASE Bytes(pipe) + f.size <= Ring
  <2>1. pipe' = Append(pipe, f) /\ lost' = lost
    BY <1>2 DEF Put
  <2>2. pipe' \in Seq(Frame)
    BY <1>1, <2>1
  <2>3. QED  BY <2>1, <2>2 DEF TypeOK
<1>3. CASE ~(Bytes(pipe) + f.size <= Ring)
  <2>1. pipe' = pipe /\ lost' = TRUE
    BY <1>3 DEF Put
  <2>2. Bytes(pipe) + f.size > Ring
    BY <1>1, <1>3
  <2>3. QED  BY <1>1, <2>1, <2>2
<1>4. QED  BY <1>2, <1>3

\* A request that fails leaves its frame to nobody.
LEMMA OrphanFacts ==
  ASSUME TypeOK, NEW t \in Threads, RequestFails(t)
  PROVE  /\ pipe' \in Seq(Frame) /\ DOMAIN pipe' = DOMAIN pipe /\ Len(pipe') = Len(pipe)
         /\ \A i \in DOMAIN pipe :
              /\ pipe'[i].size = pipe[i].size
              /\ pipe'[i].who = IF pipe[i].who = t THEN Nobody ELSE pipe[i].who
<1>1. /\ Len(pipe) \in Nat /\ DOMAIN pipe = 1 .. Len(pipe)
      /\ \A i \in 1 .. Len(pipe) : pipe[i] \in Frame
  BY DEF TypeOK
<1>2. pipe' = [i \in 1 .. Len(pipe) |->
                IF pipe[i].who = t THEN [pipe[i] EXCEPT !.who = Nobody] ELSE pipe[i]]
  BY <1>1 DEF RequestFails
<1>3. \A i \in 1 .. Len(pipe) :
        /\ [pipe[i] EXCEPT !.who = Nobody] \in Frame
        /\ [pipe[i] EXCEPT !.who = Nobody].who = Nobody
        /\ [pipe[i] EXCEPT !.who = Nobody].size = pipe[i].size
  BY <1>1 DEF Frame
<1>4. pipe' \in [1 .. Len(pipe) -> Frame]
  BY <1>1, <1>2, <1>3
<1>5. pipe' \in Seq(Frame) /\ DOMAIN pipe' = 1 .. Len(pipe) /\ Len(pipe') = Len(pipe)
  BY <1>1, <1>4
<1>6. QED  BY <1>1, <1>2, <1>3, <1>5

\* What the release of a request's bytes leaves.
LEMMA DecrFacts ==
  ASSUME TypeOK, NEW t \in Threads, NEW place \in PCs, NEW clear \in BOOLEAN,
         DecrWindow(t, place, clear)
  PROVE  /\ unacked' \in Nat /\ sendBytes' \in Nat
         /\ unacked' = IF unacked > Request(t) THEN unacked - Request(t) ELSE 0
         /\ sendBytes' = IF clear THEN 0 ELSE sendBytes
         /\ pc' \in [Threads -> PCs] /\ pc'[t] = place
         /\ \A u \in Threads \ {t} :
              pc'[u] = IF pc[u] = "waiting" THEN "reserve" ELSE pc[u]
<1>1. unacked \in Nat /\ Request(t) \in Nat /\ unacked - Request(t) \in Int
  BY RequestFacts DEF TypeOK
<1>2. unacked' = IF unacked - Request(t) > 0 THEN unacked - Request(t) ELSE 0
  BY <1>1, CutFacts DEF DecrWindow
<1>3. pc' \in [Threads -> PCs]
  BY DEF DecrWindow, Notified, TypeOK, PCs
<1>4. QED  BY <1>1, <1>2, <1>3 DEF DecrWindow, Notified, TypeOK

LEMMA SlipFacts ==
  ASSUME TypeOK, Slip
  PROVE  slips' \in 1 .. 2 /\ (slips' = 1 <=> slips = 0)
<1>1. slips \in 0 .. 2 /\ slips \in Nat
  BY DEF TypeOK
<1>2. slips' = IF slips = 0 THEN 1 ELSE 2
  BY <1>1, CutFacts DEF Slip
<1>3. QED  BY <1>1, <1>2

LEMMA TypeInit == Init => TypeOK /\ CallInv
<1> SUFFICES ASSUME Init PROVE TypeOK /\ CallInv
  OBVIOUS
<1>1. 0 \in 0 .. MaxCalls
  BY FlowAssumption
<1>2. <<>> \in Seq(Frame)
  OBVIOUS
<1>3. TypeOK
  <2>1. pc \in [Threads -> PCs]
    BY DEF Init, PCs
  <2>2. sending \in [Threads -> BOOLEAN] /\ woken \in [Threads -> BOOLEAN]
    BY DEF Init
  <2>3. len \in [Threads -> Sizes \cup {0}]
    BY DEF Init
  <2>4. unacked \in Nat /\ sendBytes \in Nat /\ slips \in 0 .. 2
    BY DEF Init
  <2>5. callers \in SUBSET Threads /\ senders \in SUBSET callers
    BY Zenon DEF Init
  <2>6. lost \in BOOLEAN /\ closing \in BOOLEAN /\ reading \in BOOLEAN
    BY DEF Init
  <2>7. pipe \in Seq(Frame) /\ calls \in 0 .. MaxCalls
    BY <1>1, <1>2 DEF Init
  <2>8. QED  BY <2>1, <2>2, <2>3, <2>4, <2>5, <2>6, <2>7 DEF TypeOK
<1>4. CallInv
  BY DEF Init, CallInv
<1>5. QED  BY <1>3, <1>4

LEMMA TypeStep == TypeOK /\ CallInv /\ PipeInv /\ [Next]_vars => TypeOK' /\ CallInv'
<1> SUFFICES ASSUME TypeOK, CallInv, PipeInv, [Next]_vars PROVE TypeOK' /\ CallInv'
  OBVIOUS
<1> USE DEF flow, link, procs, history
<1>1. ASSUME NEW t \in Threads, NEW n \in Sizes, NEW send \in BOOLEAN, Start(t, n, send)
      PROVE  TypeOK' /\ CallInv'
  BY <1>1, FlowAssumption DEF Start, Goto, TypeOK, CallInv, PCs
<1>2. ASSUME NEW t \in Threads, CheckBurst(t) PROVE TypeOK' /\ CallInv'
  BY <1>2 DEF CheckBurst, Goto, TypeOK, CallInv, PCs
<1>3. ASSUME NEW t \in Threads, Reserve(t) PROVE TypeOK' /\ CallInv'
  BY <1>3, RequestFacts DEF Reserve, Goto, TypeOK, CallInv, PCs
<1>4. ASSUME NEW t \in Threads, FallThrough(t) PROVE TypeOK' /\ CallInv'
  BY <1>4, RequestFacts, SlipFacts DEF FallThrough, Goto, TypeOK, CallInv, PCs
<1>5. ASSUME NEW t \in Threads, Write(t) PROVE TypeOK' /\ CallInv'
  <2>1. [who |-> t, size |-> Request(t)] \in Frame
    BY <1>5, RequestFacts DEF Write, Frame, CallInv
  <2>2. pipe' \in Seq(Frame) /\ lost' \in BOOLEAN
    BY <1>5, <2>1, PutFacts DEF Write
  <2>3. QED  BY <1>5, <2>2 DEF Write, Goto, TypeOK, CallInv, PCs
<1>6. ASSUME NEW t \in Threads, Replied(t) PROVE TypeOK' /\ CallInv'
  <2> DEFINE place == IF sending[t] THEN "sendWrite" ELSE "idle"
  <2>1. place \in PCs /\ DecrWindow(t, place, TRUE)
    BY <1>6 DEF Replied, PCs
  <2>2. /\ unacked' \in Nat /\ sendBytes' \in Nat /\ sendBytes' = 0
        /\ pc' \in [Threads -> PCs] /\ pc'[t] = place
        /\ \A u \in Threads \ {t} : pc'[u] = IF pc[u] = "waiting" THEN "reserve" ELSE pc[u]
    BY <2>1, DecrFacts
  <2>3. TypeOK'
    BY <1>6, <2>2 DEF Replied, TypeOK
  <2>4. CallInv'
    BY <1>6, <2>2 DEF Replied, TypeOK, CallInv
  <2>5. QED  BY <2>3, <2>4
<1>7. ASSUME NEW t \in Threads, RequestFails(t) PROVE TypeOK' /\ CallInv'
  <2>1. "idle" \in PCs /\ DecrWindow(t, "idle", FALSE)
    BY <1>7 DEF RequestFails, PCs
  <2>2. /\ unacked' \in Nat /\ sendBytes' = sendBytes
        /\ pc' \in [Threads -> PCs] /\ pc'[t] = "idle"
        /\ \A u \in Threads \ {t} : pc'[u] = IF pc[u] = "waiting" THEN "reserve" ELSE pc[u]
    BY <2>1, DecrFacts DEF TypeOK
  <2>3. pipe' \in Seq(Frame) /\ slips' \in 0 .. 2
    <3>1. Slip
      BY <1>7 DEF RequestFails
    <3>2. slips' \in 1 .. 2
      BY <3>1, SlipFacts
    <3>3. QED  BY <1>7, <3>2, OrphanFacts
  <2>4. TypeOK'
    BY <1>7, <2>2, <2>3 DEF RequestFails, TypeOK
  <2>5. CallInv'
    BY <1>7, <2>2 DEF RequestFails, TypeOK, CallInv
  <2>6. QED  BY <2>4, <2>5
<1>8. ASSUME NEW t \in Threads, SendWrite(t) PROVE TypeOK' /\ CallInv'
  <2>1. [who |-> Nobody, size |-> len[t]] \in Frame
    BY <1>8 DEF SendWrite, Frame, CallInv
  <2>2. pipe' \in Seq(Frame) /\ lost' \in BOOLEAN
    BY <1>8, <2>1, PutFacts DEF SendWrite
  <2>3. QED  BY <1>8, <2>2 DEF SendWrite, Goto, TypeOK, CallInv, PCs
<1>9. ASSUME NEW t \in Threads, Count(t) PROVE TypeOK' /\ CallInv'
  BY <1>9, RequestFacts DEF Count, Goto, TypeOK, CallInv, PCs
<1>10. CASE Close
  BY <1>10 DEF Close, TypeOK, CallInv
<1>11. CASE ReaderEnds
  BY <1>11 DEF ReaderEnds, TypeOK, CallInv, PCs
<1>12. CASE Consume
  <2>1. pipe' \in Seq(Frame)
    BY <1>12 DEF Consume, TypeOK
  <2>2. /\ 1 \in DOMAIN pipe /\ Head(pipe) = pipe[1]
        /\ \A t \in Threads : Head(pipe).who = t => pc[t] = "wait"
    <3>1. 1 \in DOMAIN pipe /\ Head(pipe) = pipe[1]
      BY <1>12 DEF Consume, TypeOK
    <3>2. Nobody \notin Threads
      BY FlowAssumption
    <3>3. QED  BY <3>1, <3>2 DEF PipeInv
  <2>3. \A t \in Threads : woken'[t] = (woken[t] \/ (reading /\ t = Head(pipe).who))
    BY <1>12 DEF Consume
  <2>4. QED  BY <1>12, <2>1, <2>2, <2>3 DEF Consume, TypeOK, CallInv
<1>13. CASE UNCHANGED vars
  BY <1>13 DEF vars, TypeOK, CallInv
<1>14. QED
  BY <1>1, <1>2, <1>3, <1>4, <1>5, <1>6, <1>7, <1>8, <1>9, <1>10, <1>11, <1>12, <1>13
     DEF Next, ThreadStep, Done

-----------------------------------------------------------------------------
(* Frames and their threads *)

LEMMA PipeFacts ==
  ASSUME TypeOK
  PROVE  /\ Len(pipe) \in Nat /\ DOMAIN pipe = 1 .. Len(pipe)
         /\ \A i \in DOMAIN pipe :
              pipe[i].who \in Threads \cup {Nobody} /\ pipe[i].size \in Sizes \cup {PingSize}
         /\ Nobody \notin Threads
<1>1. \A i \in DOMAIN pipe : pipe[i] \in Frame
  BY DEF TypeOK
<1>2. QED  BY <1>1, FlowAssumption DEF TypeOK, Frame

\* A step that leaves the pipe alone, and who waits for a reply.
LEMMA PipeCalm ==
  ASSUME TypeOK, PipeInv, pipe' = pipe,
         \A u \in Threads : pc[u] = "wait" /\ ~woken[u] =>
           pc'[u] = "wait" /\ woken'[u] = woken[u] /\ Request(u)' = Request(u)
  PROVE  PipeInv'
<1>1. \A i \in DOMAIN pipe : pipe[i].who # Nobody => pipe[i].who \in Threads
  BY PipeFacts
<1>2. QED  BY <1>1 DEF PipeInv

\* A frame is appended: a burst's, or the first one of its request.
LEMMA PipeAppend ==
  ASSUME TypeOK, PipeInv, NEW f \in Frame, pipe' = Append(pipe, f),
         UNCHANGED <<sending, len, woken>>,
         \A u \in Threads : pc[u] = "wait" => pc'[u] = "wait",
         f.who # Nobody => /\ pc[f.who] = "write" /\ pc'[f.who] = "wait" /\ ~woken[f.who]
                           /\ f.size = Request(f.who)
  PROVE  PipeInv'
<1>1. /\ Len(pipe) \in Nat /\ DOMAIN pipe = 1 .. Len(pipe)
      /\ DOMAIN pipe' = DOMAIN pipe \cup {Len(pipe) + 1}
      /\ \A i \in DOMAIN pipe : pipe'[i] = pipe[i]
      /\ pipe'[Len(pipe) + 1] = f
  BY DEF TypeOK
<1>2. \A u \in Threads : Request(u)' = Request(u)
  BY DEF Request
<1>3. \A i \in DOMAIN pipe : pipe[i].who # Nobody => pipe[i].who \in Threads /\ pc[pipe[i].who] = "wait"
  BY PipeFacts DEF PipeInv
<1>4. f.who # Nobody => f.who \in Threads /\ \A i \in DOMAIN pipe : pipe[i].who # f.who
  BY <1>3 DEF Frame
<1>5. ASSUME NEW i \in DOMAIN pipe', NEW u, pipe'[i].who = u, u # Nobody
      PROVE  pc'[u] = "wait" /\ ~woken'[u] /\ pipe'[i].size = Request(u)'
  BY <1>1, <1>2, <1>3, <1>4, <1>5 DEF PipeInv
<1>6. ASSUME NEW i \in DOMAIN pipe', NEW j \in DOMAIN pipe',
             pipe'[i].who = pipe'[j].who, pipe'[i].who # Nobody
      PROVE  i = j
  BY <1>1, <1>4, <1>6 DEF PipeInv
<1>7. QED  BY <1>5, <1>6 DEF PipeInv, Request

LEMMA PipeStep == TypeOK /\ CallInv /\ PipeInv /\ [Next]_vars => PipeInv'
<1> SUFFICES ASSUME TypeOK, CallInv, PipeInv, [Next]_vars PROVE PipeInv'
  OBVIOUS
<1> USE DEF flow, link, procs, history
<1>1. ASSUME NEW t \in Threads, NEW n \in Sizes, NEW send \in BOOLEAN, Start(t, n, send)
      PROVE  PipeInv'
  <2>1. \A u \in Threads : pc[u] = "wait" =>
          pc'[u] = "wait" /\ woken'[u] = woken[u] /\ Request(u)' = Request(u)
    BY <1>1 DEF Start, Goto, TypeOK, Request
  <2>2. QED  BY <1>1, <2>1, PipeCalm DEF Start
<1>2. ASSUME NEW t \in Threads, CheckBurst(t) \/ Reserve(t) \/ FallThrough(t) \/ Count(t)
      PROVE  PipeInv'
  <2>1. \A u \in Threads : pc[u] = "wait" =>
          pc'[u] = "wait" /\ woken'[u] = woken[u] /\ Request(u)' = Request(u)
    BY <1>2 DEF CheckBurst, Reserve, FallThrough, Count, Goto, TypeOK, Request
  <2>2. pipe' = pipe
    BY <1>2 DEF CheckBurst, Reserve, FallThrough, Count
  <2>3. QED  BY <2>1, <2>2, PipeCalm
<1>3. ASSUME NEW t \in Threads, Write(t) PROVE PipeInv'
  <2> DEFINE f == [who |-> t, size |-> Request(t)]
  <2>1. f \in Frame /\ f.who = t /\ f.size = Request(t) /\ t # Nobody
    BY <1>3, RequestFacts, FlowAssumption DEF Write, Frame, CallInv
  <2>2. /\ pc[t] = "write" /\ pc'[t] = "wait" /\ ~woken[t] /\ UNCHANGED <<sending, len, woken>>
        /\ \A u \in Threads : pc[u] = "wait" => pc'[u] = "wait"
    BY <1>3 DEF Write, Goto, TypeOK, CallInv
  <2>3. pipe' = Append(pipe, f) \/ pipe' = pipe
    BY <1>3, <2>1, PutFacts DEF Write
  <2>4. CASE pipe' = Append(pipe, f)
    <3> HIDE DEF f
    <3> QED  BY <2>1, <2>2, <2>4, PipeAppend
  <2>5. CASE pipe' = pipe
    <3>1. \A u \in Threads : Request(u)' = Request(u)
      BY <2>2 DEF Request
    <3>2. QED  BY <2>2, <2>5, <3>1, PipeCalm
  <2>6. QED  BY <2>3, <2>4, <2>5
<1>4. ASSUME NEW t \in Threads, Replied(t) PROVE PipeInv'
  <2>1. \A u \in Threads : pc[u] = "wait" /\ ~woken[u] =>
          pc'[u] = "wait" /\ woken'[u] = woken[u] /\ Request(u)' = Request(u)
    BY <1>4 DEF Replied, DecrWindow, Notified, TypeOK, Request
  <2>2. pipe' = pipe
    BY <1>4 DEF Replied
  <2>3. QED  BY <2>1, <2>2, PipeCalm
<1>5. ASSUME NEW t \in Threads, RequestFails(t) PROVE PipeInv'
  <2>1. /\ DOMAIN pipe' = DOMAIN pipe
        /\ \A i \in DOMAIN pipe :
             /\ pipe'[i].size = pipe[i].size
             /\ pipe'[i].who = IF pipe[i].who = t THEN Nobody ELSE pipe[i].who
    BY <1>5, OrphanFacts
  <2>2. \A u \in Threads \ {t} : pc[u] = "wait" => pc'[u] = "wait" /\ woken'[u] = woken[u]
    BY <1>5 DEF RequestFails, DecrWindow, Notified
  <2>3. \A u \in Threads : Request(u)' = Request(u)
    BY <1>5 DEF RequestFails, Request
  <2>4. \A i \in DOMAIN pipe : pipe[i].who \in Threads \cup {Nobody}
    BY PipeFacts
  <2>5. QED  BY <2>1, <2>2, <2>3, <2>4 DEF PipeInv
<1>6. ASSUME NEW t \in Threads, SendWrite(t) PROVE PipeInv'
  <2> DEFINE f == [who |-> Nobody, size |-> len[t]]
  <2>1. f \in Frame /\ f.who = Nobody
    BY <1>6 DEF SendWrite, Frame, CallInv
  <2>2. /\ UNCHANGED <<sending, len, woken>>
        /\ \A u \in Threads : pc[u] = "wait" => pc'[u] = "wait"
    BY <1>6 DEF SendWrite, Goto, TypeOK
  <2>3. pipe' = Append(pipe, f) \/ pipe' = pipe
    BY <1>6, <2>1, PutFacts DEF SendWrite
  <2>4. CASE pipe' = Append(pipe, f)
    <3> HIDE DEF f
    <3> QED  BY <2>1, <2>2, <2>4, PipeAppend
  <2>5. CASE pipe' = pipe
    <3>1. \A u \in Threads : Request(u)' = Request(u)
      BY <2>2 DEF Request
    <3>2. QED  BY <2>2, <2>5, <3>1, PipeCalm
  <2>6. QED  BY <2>3, <2>4, <2>5
<1>7. CASE Close \/ ReaderEnds
  <2>1. \A u \in Threads : pc[u] = "wait" =>
          pc'[u] = "wait" /\ woken'[u] = woken[u] /\ Request(u)' = Request(u)
    BY <1>7 DEF Close, ReaderEnds, Request
  <2>2. pipe' = pipe
    BY <1>7 DEF Close, ReaderEnds
  <2>3. QED  BY <2>1, <2>2, PipeCalm
<1>8. CASE Consume
  <2>1. /\ Len(pipe) \in Nat /\ DOMAIN pipe = 1 .. Len(pipe) /\ Len(pipe) >= 1
        /\ DOMAIN pipe' = 1 .. (Len(pipe) - 1) /\ Head(pipe) = pipe[1]
        /\ \A i \in DOMAIN pipe' : pipe'[i] = pipe[i + 1]
    BY <1>8 DEF Consume, TypeOK
  <2>2. \A i \in DOMAIN pipe' : i + 1 \in DOMAIN pipe /\ i + 1 # 1 /\ 1 \in DOMAIN pipe
    BY <2>1
  <2>3. /\ pc' = pc /\ \A u \in Threads : Request(u)' = Request(u)
        /\ \A u \in Threads : woken'[u] = (woken[u] \/ (reading /\ u = pipe[1].who))
    BY <1>8, <2>1 DEF Consume, Request
  <2>4. \A i \in DOMAIN pipe : pipe[i].who \in Threads \cup {Nobody}
    BY PipeFacts
  <2>5. ASSUME NEW i \in DOMAIN pipe', NEW u, pipe'[i].who = u, u # Nobody
        PROVE  pc'[u] = "wait" /\ ~woken'[u] /\ pipe'[i].size = Request(u)'
    <3>1. /\ pipe'[i] = pipe[i + 1] /\ i + 1 \in DOMAIN pipe /\ pipe[i + 1].who # pipe[1].who
          /\ pipe[i + 1].who \in Threads
      BY <2>1, <2>2, <2>4, <2>5 DEF PipeInv
    <3>2. QED  BY <2>3, <2>5, <3>1 DEF PipeInv
  <2>6. ASSUME NEW i \in DOMAIN pipe', NEW j \in DOMAIN pipe',
               pipe'[i].who = pipe'[j].who, pipe'[i].who # Nobody
        PROVE  i = j
    <3>1. i + 1 = j + 1
      BY <2>1, <2>2, <2>6 DEF PipeInv
    <3>2. QED  BY <2>1, <3>1
  <2>7. QED  BY <2>5, <2>6 DEF PipeInv, Request
<1>9. CASE UNCHANGED vars
  BY <1>9 DEF vars, PipeInv, Request
<1>10. QED
  BY <1>1, <1>2, <1>3, <1>4, <1>5, <1>6, <1>7, <1>8, <1>9 DEF Next, ThreadStep, Done

-----------------------------------------------------------------------------
(* The accounting *)

LEMMA LiveFacts ==
  ASSUME TypeOK
  PROVE  /\ IsFiniteSet(Live)
         /\ [t \in Live |-> Request(t)] \in [Live -> Nat]
         /\ Total([t \in Live |-> Request(t)]) \in Nat
<1>1. IsFiniteSet(Live)
  <2>1. Live \in SUBSET Threads /\ IsFiniteSet(Threads)
    BY FlowAssumption DEF Live
  <2>2. QED  BY <2>1, FS_Subset
<1>2. [t \in Live |-> Request(t)] \in [Live -> Nat]
  <2>1. \A t \in Live : Request(t) \in Nat
    BY RequestFacts DEF Live
  <2>2. QED  BY <2>1
<1>3. QED  BY <1>1, <1>2, TotalNat

\* The bytes of one live request and those of the others.
LEMMA LiveSplit ==
  ASSUME TypeOK, ReservedIsLive, NEW t \in Live
  PROVE  /\ unacked = Total([u \in Live \ {t} |-> Request(u)]) + Request(t)
         /\ Total([u \in Live \ {t} |-> Request(u)]) \in Nat
<1> DEFINE Held == [u \in Live |-> Request(u)]
           Rest == [u \in Live \ {t} |-> Request(u)]
<1>1. IsFiniteSet(Live) /\ Held \in [Live -> Nat]
  BY LiveFacts
<1>2. Rest = [u \in Live \ {t} |-> Held[u]] /\ Held[t] = Request(t)
  OBVIOUS
<1>3. Total(Held) = Total(Rest) + Held[t]
  <2>1. Total(Held) = Total([u \in Live \ {t} |-> Held[u]]) + Held[t]
    <3> HIDE DEF Held
    <3> QED  BY <1>1, TotalRemove
  <2>2. QED  BY ONLY <2>1, <1>2
<1>4. Total(Rest) \in Nat
  <2>1. IsFiniteSet(Live \ {t})
    BY <1>1, FS_Difference
  <2>2. Rest \in [Live \ {t} -> Nat]
    BY <1>1, <1>2
  <2> HIDE DEF Rest
  <2>3. QED  BY <2>1, <2>2, TotalNat
<1>5. QED  BY <1>2, <1>3, <1>4 DEF ReservedIsLive

LEMMA ReservedSame ==
  ASSUME ReservedIsLive, Live' = Live, unacked' = unacked,
         \A t \in Live : Request(t)' = Request(t)
  PROVE  ReservedIsLive'
<1>1. [t \in Live |-> Request(t)]' = [t \in Live |-> Request(t)]
  OBVIOUS
<1>2. QED  BY <1>1 DEF ReservedIsLive

LEMMA ReservedMore ==
  ASSUME TypeOK, TypeOK', ReservedIsLive, NEW t \in Threads, t \notin Live, Live' = Live \cup {t},
         unacked' = unacked + Request(t), \A u \in Threads : Request(u)' = Request(u)
  PROVE  ReservedIsLive'
<1> DEFINE Now == [u \in Live' |-> Request(u)']
           Old == [u \in Live |-> Request(u)]
<1>1. IsFiniteSet(Live') /\ Now \in [Live' -> Nat] /\ t \in Live' /\ Now[t] = Request(t)
  <2>1. IsFiniteSet(Live)
    BY LiveFacts
  <2>2. IsFiniteSet(Live')
    BY <2>1, FS_AddElement
  <2>3. \A u \in Live' : Request(u)' \in Nat
    BY RequestFacts DEF Live
  <2>4. QED  BY <2>2, <2>3
<1>2. Old = [u \in Live' \ {t} |-> Now[u]]
  BY DEF Live
<1>3. Total(Now) = Total([u \in Live' \ {t} |-> Now[u]]) + Now[t]
  <2> DEFINE L == Live'
  <2> HIDE DEF Now, L
  <2>1. IsFiniteSet(L) /\ Now \in [L -> Nat] /\ t \in L
    BY <1>1 DEF L
  <2>2. Total(Now) = Total([u \in L \ {t} |-> Now[u]]) + Now[t]
    BY <2>1, TotalRemove
  <2>3. QED  BY <2>2 DEF L
<1>4. unacked' = Total(Now)
  BY <1>1, <1>2, <1>3 DEF ReservedIsLive
<1>5. QED  BY <1>4 DEF ReservedIsLive

LEMMA ReservedLess ==
  ASSUME TypeOK, ReservedIsLive, NEW t \in Live, Live' = Live \ {t},
         unacked' = IF unacked > Request(t) THEN unacked - Request(t) ELSE 0,
         \A u \in Threads : Request(u)' = Request(u)
  PROVE  ReservedIsLive'
<1>1. /\ unacked = Total([u \in Live \ {t} |-> Request(u)]) + Request(t)
      /\ Total([u \in Live \ {t} |-> Request(u)]) \in Nat
  BY LiveSplit
<1>2. Request(t) \in Nat
  BY RequestFacts DEF Live
<1>3. unacked' = Total([u \in Live \ {t} |-> Request(u)])
  BY <1>1, <1>2
<1>4. [u \in Live |-> Request(u)]' = [u \in Live \ {t} |-> Request(u)]
  BY DEF Live
<1>5. QED  BY <1>3, <1>4 DEF ReservedIsLive

LEMMA ReservedStep ==
  TypeOK /\ TypeOK' /\ ReservedIsLive /\ [Next]_vars => ReservedIsLive'
<1> SUFFICES ASSUME TypeOK, TypeOK', ReservedIsLive, [Next]_vars PROVE ReservedIsLive'
  OBVIOUS
<1> USE DEF flow, link, procs, history
<1>1. ASSUME NEW t \in Threads, NEW n \in Sizes, NEW send \in BOOLEAN, Start(t, n, send)
      PROVE  ReservedIsLive'
  <2>1. Live' = Live /\ t \notin Live
    BY <1>1 DEF Start, Goto, TypeOK, Live
  <2>2. \A u \in Live : Request(u)' = Request(u)
    BY <1>1, <2>1 DEF Start, TypeOK, Live, Request
  <2>3. QED  BY <1>1, <2>1, <2>2, ReservedSame DEF Start
<1>2. ASSUME NEW t \in Threads,
             CheckBurst(t) \/ Write(t) \/ SendWrite(t) \/ Count(t) \/ (Reserve(t) /\ pc'[t] = "waiting")
      PROVE  ReservedIsLive'
  <2>1. Live' = Live
    BY <1>2 DEF CheckBurst, Write, SendWrite, Count, Reserve, Goto, TypeOK, Live
  <2>2. \A u \in Live : Request(u)' = Request(u)
    BY <1>2 DEF CheckBurst, Write, SendWrite, Count, Reserve, Request
  <2>3. unacked' = unacked
    BY <1>2 DEF CheckBurst, Write, SendWrite, Count, Reserve, Goto, TypeOK
  <2>4. QED  BY <2>1, <2>2, <2>3, ReservedSame
<1>3. ASSUME NEW t \in Threads, (Reserve(t) /\ pc'[t] # "waiting") \/ FallThrough(t)
      PROVE  ReservedIsLive'
  <2>1. t \notin Live /\ Live' = Live \cup {t}
    BY <1>3 DEF Reserve, FallThrough, Goto, TypeOK, Live
  <2>2. unacked' = unacked + Request(t) /\ \A u \in Threads : Request(u)' = Request(u)
    BY <1>3 DEF Reserve, FallThrough, Goto, TypeOK, Request
  <2>3. QED  BY <2>1, <2>2, ReservedMore
<1>4. ASSUME NEW t \in Threads, Replied(t) \/ RequestFails(t) PROVE ReservedIsLive'
  <2>1. PICK place \in {"idle", "sendWrite"}, clear \in BOOLEAN : DecrWindow(t, place, clear)
    BY <1>4 DEF Replied, RequestFails
  <2>2. /\ unacked' = IF unacked > Request(t) THEN unacked - Request(t) ELSE 0
        /\ pc' \in [Threads -> PCs] /\ pc'[t] = place
        /\ \A u \in Threads \ {t} : pc'[u] = IF pc[u] = "waiting" THEN "reserve" ELSE pc[u]
    <3>1. place \in PCs
      BY DEF PCs
    <3>2. QED  BY <2>1, <3>1, DecrFacts
  <2>3. t \in Live /\ Live' = Live \ {t}
    BY <1>4, <2>2 DEF Replied, RequestFails, Live
  <2>4. \A u \in Threads : Request(u)' = Request(u)
    BY <1>4 DEF Replied, RequestFails, Request
  <2>5. QED  BY <2>2, <2>3, <2>4, ReservedLess
<1>5. CASE Close \/ ReaderEnds \/ Consume \/ UNCHANGED vars
  <2>1. Live' = Live /\ unacked' = unacked
    BY <1>5 DEF Close, ReaderEnds, Consume, vars, Live, TypeOK
  <2>2. \A u \in Live : Request(u)' = Request(u)
    BY <1>5 DEF Close, ReaderEnds, Consume, vars, Request
  <2>3. QED  BY <2>1, <2>2, ReservedSame
<1>6. QED
  BY <1>1, <1>2, <1>3, <1>4, <1>5 DEF Next, ThreadStep, Done

-----------------------------------------------------------------------------
(* Waiting for room *)

LEMMA WaiterStep ==
  TypeOK /\ TypeOK' /\ CallInv /\ ReservedIsLive /\ WaiterIsNotAlone /\ [Next]_vars => WaiterIsNotAlone'
<1> SUFFICES ASSUME TypeOK, TypeOK', CallInv, ReservedIsLive, WaiterIsNotAlone, [Next]_vars,
                    NEW u \in Threads, pc'[u] = "waiting", sendBytes' = 0
             PROVE  Live' # {}
  BY DEF WaiterIsNotAlone
<1> USE DEF flow, link, procs, history
\* Whoever waited before has somebody to wait for, who is still there.
<1>1. ASSUME pc[u] = "waiting", sendBytes = 0, \A t \in Live : pc'[t] \in {"write", "wait"}
      PROVE  Live' # {}
  BY <1>1 DEF WaiterIsNotAlone, Live
<1>2. ASSUME NEW t \in Threads, NEW n \in Sizes, NEW send \in BOOLEAN, Start(t, n, send)
      PROVE  Live' # {}
  BY <1>1, <1>2 DEF Start, Goto, TypeOK, Live
<1>3. ASSUME NEW t \in Threads, CheckBurst(t) \/ Write(t) \/ SendWrite(t) PROVE Live' # {}
  BY <1>1, <1>3 DEF CheckBurst, Write, SendWrite, Goto, TypeOK, Live
<1>4. ASSUME NEW t \in Threads, Reserve(t) PROVE Live' # {}
  <2>1. CASE u = t
    <3>1. Full(t) /\ sendBytes = 0 /\ Live' = Live
      BY <1>4, <2>1 DEF Reserve, Goto, TypeOK, Live
    <3>2. Request(t) \in Nat /\ Request(t) <= MaxInflight
      <4>1. Request(t) \in Sizes \cup {PingSize}
        BY <1>4, RequestFacts DEF Reserve, CallInv
      <4>2. QED  BY <4>1, RequestFacts, FlowAssumption
    <3>3. unacked # 0
      BY <3>1, <3>2, FlowAssumption DEF Full, TypeOK
    <3>4. Live = {} => Total([v \in Live |-> Request(v)]) = 0
      BY TotalEmpty
    <3>5. QED  BY <3>1, <3>3, <3>4 DEF ReservedIsLive
  <2>2. CASE u # t
    BY <1>1, <1>4, <2>2 DEF Reserve, Goto, TypeOK, Live
  <2>3. QED  BY <2>1, <2>2
<1>5. ASSUME NEW t \in Threads, FallThrough(t) PROVE Live' # {}
  BY <1>5 DEF FallThrough, Goto, TypeOK, Live
<1>6. ASSUME NEW t \in Threads, Replied(t) \/ RequestFails(t) PROVE Live' # {}
  BY <1>6 DEF Replied, RequestFails, DecrWindow, Notified
<1>7. ASSUME NEW t \in Threads, Count(t) PROVE Live' # {}
  <2>1. len[t] \in Nat /\ sendBytes \in Nat /\ sendBytes' = sendBytes + len[t]
    BY <1>7, RequestFacts DEF Count, TypeOK
  <2>2. sendBytes = 0
    BY <2>1
  <2>3. QED  BY <1>1, <1>7, <2>2 DEF Count, Goto, TypeOK, Live
<1>8. CASE Close \/ ReaderEnds \/ Consume \/ UNCHANGED vars
  BY <1>1, <1>8 DEF Close, ReaderEnds, Consume, vars, Live
<1>9. QED
  BY <1>2, <1>3, <1>4, <1>5, <1>6, <1>7, <1>8 DEF Next, ThreadStep, Done

-----------------------------------------------------------------------------
(* Threads that wait for every reply *)

\* The bytes in the pipe beside a request that is about to be written are
\* reserved, but for those of a frame without an owner.
LEMMA PipeIsReserved ==
  ASSUME TypeOK, PipeInv, ReservedIsLive, OneOrphan, NEW t \in Threads, pc[t] = "write"
  PROVE  /\ NoOrphan => Bytes(pipe) + Request(t) <= unacked
         /\ \E n \in Sizes \cup {PingSize} : Bytes(pipe) + Request(t) <= unacked + n
<1> DEFINE Others == Live \ {t}
           Rest == [u \in Others |-> Request(u)]
           Size == [i \in DOMAIN pipe |-> pipe[i].size]
           Who == [i \in DOMAIN pipe |-> pipe[i].who]
<1>1. /\ t \in Live /\ unacked = Total(Rest) + Request(t) /\ Total(Rest) \in Nat
  BY LiveSplit DEF Live
<1>2. IsFiniteSet(Others) /\ Rest \in [Others -> Nat]
  <2>1. \A u \in Others : Request(u) \in Nat
    BY RequestFacts DEF Live
  <2>2. IsFiniteSet(Others)
    BY LiveFacts, FS_Difference
  <2>3. QED  BY <2>1, <2>2
<1>3. /\ Size \in [DOMAIN pipe -> Nat] /\ Bytes(pipe) = Total(Size) /\ Bytes(pipe) \in Nat
      /\ Request(t) \in Nat
  <2>1. \A i \in DOMAIN pipe : pipe[i].size \in Nat
    BY PipeFacts, FlowAssumption
  <2>2. Bytes(pipe) \in Nat
    BY BytesFacts DEF TypeOK
  <2>3. QED  BY <2>1, <2>2, RequestFacts DEF Bytes
<1>4. \A i \in DOMAIN pipe : Who[i] # Nobody => Who[i] \in Others /\ Size[i] = Request(Who[i])
  BY PipeFacts DEF PipeInv, Live
<1>5. \A i, j \in DOMAIN pipe : Who[i] = Who[j] => i = j
  BY DEF PipeInv, OneOrphan
<1>6. CASE NoOrphan
  <2>1. Who \in [DOMAIN pipe -> Others] /\ \A i \in DOMAIN pipe : Size[i] <= Rest[Who[i]]
    <3>1. \A i \in DOMAIN pipe : Who[i] \in Others /\ Size[i] = Rest[Who[i]] /\ Size[i] \in Nat
      BY <1>3, <1>4, <1>6 DEF NoOrphan
    <3>2. Who \in [DOMAIN pipe -> Others]
      BY <3>1
    <3>3. \A i \in DOMAIN pipe : Size[i] <= Rest[Who[i]]
      <4> HIDE DEF Size, Rest, Who
      <4> QED  BY <3>1
    <3>4. QED  BY <3>2, <3>3
  <2>2. Total(Size) <= Total(Rest)
    <3> DEFINE D == DOMAIN pipe
    <3> HIDE DEF Others, Rest, Size, Who, D
    <3>1. /\ Size \in [D -> Nat] /\ Who \in [D -> Others] /\ \A i, j \in D : Who[i] = Who[j] => i = j
          /\ \A i \in D : Size[i] <= Rest[Who[i]]
      BY <1>3, <1>5, <2>1 DEF D
    <3>2. QED  BY <1>2, <3>1, TotalInjection
  <2>3. Bytes(pipe) + Request(t) <= unacked
    <3> HIDE DEF Rest, Size
    <3> QED  BY <1>1, <1>3, <2>2
  <2>4. \E n \in Sizes \cup {PingSize} : Bytes(pipe) + Request(t) <= unacked + n
    <3>1. PingSize \in Nat /\ unacked \in Nat
      BY FlowAssumption DEF TypeOK
    <3>2. Bytes(pipe) + Request(t) <= unacked + PingSize
      BY <1>3, <2>3, <3>1
    <3>3. QED  BY <3>2
  <2>5. QED  BY <2>3, <2>4
<1>7. CASE ~NoOrphan
  <2>1. PICK o \in DOMAIN pipe : pipe[o].who = Nobody
    BY <1>7 DEF NoOrphan
  <2> DEFINE n == pipe[o].size
             All == Others \cup {Nobody}
             More == [u \in All |-> IF u = Nobody THEN n ELSE Request(u)]
  <2>2. n \in Sizes \cup {PingSize} /\ n \in Nat /\ Nobody \notin Others
    BY PipeFacts, FlowAssumption DEF Live
  <2>3. IsFiniteSet(All) /\ More \in [All -> Nat] /\ Nobody \in All /\ More[Nobody] = n
    <3>1. IsFiniteSet(All)
      BY <1>2, FS_AddElement
    <3>2. \A u \in Others : Request(u) \in Nat
      BY RequestFacts DEF Live
    <3>3. QED  BY <2>2, <3>1, <3>2
  <2>4. Rest = [u \in All \ {Nobody} |-> More[u]]
    BY <2>2
  <2>5. Total(More) = Total(Rest) + n
    <3>1. Total(More) = Total([u \in All \ {Nobody} |-> More[u]]) + More[Nobody]
      <4> HIDE DEF More, All
      <4> QED  BY <2>3, TotalRemove
    <3>2. QED  BY <2>3, <2>4, <3>1
  <2>6. Who \in [DOMAIN pipe -> All] /\ \A i \in DOMAIN pipe : Size[i] <= More[Who[i]]
    <3>1. \A i \in DOMAIN pipe : Who[i] \in All
      BY <1>4
    <3>2. \A i \in DOMAIN pipe : Who[i] = Nobody => i = o
      BY <1>5, <2>1
    <3>3. \A i \in DOMAIN pipe : Size[i] = More[Who[i]]
      BY <1>4, <2>1, <2>2, <3>1, <3>2
    <3>4. \A i \in DOMAIN pipe : Size[i] \in Nat
      BY <1>3
    <3>5. Who \in [DOMAIN pipe -> All]
      BY <3>1
    <3>6. \A i \in DOMAIN pipe : Size[i] <= More[Who[i]]
      <4> HIDE DEF Size, More, Who
      <4> QED  BY <3>3, <3>4
    <3>7. QED  BY <3>5, <3>6
  <2>7. Total(Size) <= Total(More)
    <3> DEFINE D == DOMAIN pipe
    <3> HIDE DEF All, More, Size, Who, D
    <3>1. /\ Size \in [D -> Nat] /\ Who \in [D -> All] /\ \A i, j \in D : Who[i] = Who[j] => i = j
          /\ \A i \in D : Size[i] <= More[Who[i]]
      BY <1>3, <1>5, <2>6 DEF D
    <3>2. QED  BY <2>3, <3>1, TotalInjection
  <2>8. Bytes(pipe) + Request(t) <= unacked + n
    <3> HIDE DEF Rest, Size, More, n
    <3> QED  BY <1>1, <1>3, <2>2, <2>5, <2>7
  <2>9. QED  BY <1>7, <2>2, <2>8
<1>8. QED  BY <1>6, <1>7

\* What nothing undoes.
LEMMA Monotone ==
  ASSUME TypeOK, TypeOK', [Next]_vars
  PROVE  /\ senders \subseteq senders' /\ callers \subseteq callers'
         /\ closing => closing'
         /\ slips' >= slips
<1> USE DEF flow, link, procs, history
<1>1. senders \subseteq senders' /\ callers \subseteq callers'
  BY DEF Next, ThreadStep, Start, CheckBurst, Reserve, FallThrough, Write, Replied, RequestFails,
         SendWrite, Count, Close, ReaderEnds, Consume, Done, vars
<1>2. closing => closing'
  BY DEF Next, ThreadStep, Start, CheckBurst, Reserve, FallThrough, Write, Replied, RequestFails,
         SendWrite, Count, Close, ReaderEnds, Consume, Done, vars
<1>3. slips' >= slips
  <2>1. slips \in 0 .. 2
    BY DEF TypeOK
  <2>2. Slip => slips' \in 1 .. 2 /\ (slips' = 1 <=> slips = 0)
    BY SlipFacts
  <2>3. slips' = slips \/ Slip
    BY DEF Next, ThreadStep, Start, CheckBurst, Reserve, FallThrough, Write, Replied, RequestFails,
           SendWrite, Count, Close, ReaderEnds, Consume, Done, vars
  <2>4. QED  BY <2>1, <2>2, <2>3
<1>4. QED  BY <1>1, <1>2, <1>3

\* A step that slips nothing, reserves nothing and orphans nothing.
LEMMA ShareCalm ==
  ASSUME TypeOK, TypeOK', ShareInv, Quiet, senders = {}, slips' = slips, unacked' <= unacked,
         NoOrphan => NoOrphan', OneOrphan => OneOrphan'
  PROVE  ShareInv'
<1>1. unacked \in Nat /\ unacked' \in Nat /\ MaxInflight \in Nat /\ \A n \in Sizes : n \in Nat
  BY FlowAssumption DEF TypeOK
<1>2. unacked <= MaxInflight => unacked' <= MaxInflight
  BY <1>1
<1>3. \A n \in Sizes : unacked <= MaxInflight + n => unacked' <= MaxInflight + n
  BY <1>1
<1>4. QED  BY <1>2, <1>3 DEF ShareInv

LEMMA ShareStep ==
  TypeOK /\ TypeOK' /\ CallInv /\ PipeInv /\ ShareInv /\ [Next]_vars => ShareInv'
<1> SUFFICES ASSUME TypeOK, TypeOK', CallInv, PipeInv, ShareInv, [Next]_vars, Quiet', senders' = {}
             PROVE  ShareInv'
  BY DEF ShareInv
<1> USE DEF flow, link, procs, history
<1>1. /\ Quiet /\ senders = {} /\ sendBytes = 0
      /\ unacked \in Nat /\ unacked' \in Nat /\ slips \in 0 .. 1 /\ slips' \in 0 .. 1
      /\ slips' >= slips /\ MaxInflight \in Nat
  <2>1. slips \in 0 .. 2 /\ slips' \in 0 .. 2 /\ slips' >= slips /\ slips' <= 1
    BY Monotone DEF TypeOK, Quiet
  <2>2. ~closing /\ senders = {}
    BY Monotone DEF Quiet
  <2>3. QED  BY <2>1, <2>2, FlowAssumption DEF TypeOK, Quiet, CallInv
\* Nobody has called send().
<1>2. ASSUME NEW t \in Threads, pc[t] # "idle"
      PROVE  ~sending[t] /\ Request(t) = len[t] /\ len[t] \in Sizes /\ len[t] \in Nat
  BY <1>1, <1>2, RequestFacts DEF CallInv
<1>3. ASSUME NEW t \in Threads, NEW n \in Sizes, NEW send \in BOOLEAN, Start(t, n, send)
      PROVE  ShareInv'
  BY <1>1, <1>3, ShareCalm DEF Start, NoOrphan, OneOrphan
<1>4. ASSUME NEW t \in Threads, CheckBurst(t) \/ SendWrite(t) \/ Count(t) PROVE ShareInv'
  BY <1>1, <1>2, <1>4 DEF CheckBurst, SendWrite, Count, CallInv
<1>5. ASSUME NEW t \in Threads, Reserve(t) PROVE ShareInv'
  <2>1. pipe' = pipe /\ slips' = slips
    BY <1>5 DEF Reserve
  <2>2. CASE Full(t)
    <3>1. unacked' = unacked
      BY <1>1, <1>5, <2>2 DEF Reserve, Quiet
    <3>2. QED  BY <1>1, <2>1, <3>1, ShareCalm DEF NoOrphan, OneOrphan
  <2>3. CASE ~Full(t)
    <3>1. unacked' = unacked + Request(t) /\ Request(t) \in Nat
      BY <1>2, <1>5, <2>3 DEF Reserve
    <3>2. unacked' <= MaxInflight
      BY <1>1, <2>3, <3>1 DEF Full
    <3>3. QED  BY <1>1, <2>1, <3>2 DEF ShareInv, NoOrphan, OneOrphan
  <2>4. QED  BY <2>2, <2>3
<1>6. ASSUME NEW t \in Threads, FallThrough(t) PROVE ShareInv'
  <2>1. /\ Slip /\ pipe' = pipe /\ unacked' = unacked + len[t] /\ len[t] \in Sizes /\ len[t] \in Nat
    BY <1>2, <1>6 DEF FallThrough
  <2>2. slips = 0 /\ slips' = 1
    BY <1>1, <2>1, SlipFacts
  <2>3. unacked <= MaxInflight /\ NoOrphan
    BY <1>1, <2>2 DEF ShareInv
  <2>4. unacked' <= MaxInflight + len[t]
    BY <1>1, <2>1, <2>3
  <2>5. QED  BY <2>1, <2>2, <2>3, <2>4 DEF ShareInv, NoOrphan
<1>7. ASSUME NEW t \in Threads, Write(t) PROVE ShareInv'
  <2> DEFINE f == [who |-> t, size |-> Request(t)]
  <2>1. f \in Frame /\ Put(f) /\ unacked' = unacked /\ slips' = slips
    BY <1>2, <1>7, FlowAssumption DEF Write, Frame
  <2>2. pipe' = Append(pipe, f) \/ pipe' = pipe
    <3> HIDE DEF f
    <3> QED  BY <2>1, PutFacts
  <2>3. /\ Len(pipe) \in Nat /\ DOMAIN pipe = 1 .. Len(pipe)
        /\ t # Nobody
    BY FlowAssumption DEF TypeOK
  <2>4. \A i \in DOMAIN pipe' :
          (i \in DOMAIN pipe /\ pipe'[i].who = pipe[i].who) \/ pipe'[i].who # Nobody
    BY <2>2, <2>3 DEF TypeOK
  <2>5. (NoOrphan => NoOrphan') /\ (OneOrphan => OneOrphan')
    BY <2>4 DEF NoOrphan, OneOrphan
  <2>6. QED  BY <1>1, <2>1, <2>5, ShareCalm
<1>8. ASSUME NEW t \in Threads, Replied(t) PROVE ShareInv'
  <2>1. unacked' <= unacked
    <3>1. PICK place \in {"idle", "sendWrite"} : DecrWindow(t, place, TRUE)
      BY <1>8 DEF Replied
    <3>2. place \in PCs
      BY DEF PCs
    <3>3. unacked' = IF unacked > Request(t) THEN unacked - Request(t) ELSE 0
      BY <3>1, <3>2, DecrFacts
    <3>4. QED  BY <1>1, <3>3, RequestFacts
  <2>2. pipe' = pipe /\ slips' = slips
    BY <1>8 DEF Replied
  <2>3. QED  BY <1>1, <2>1, <2>2, ShareCalm DEF NoOrphan, OneOrphan
<1>9. ASSUME NEW t \in Threads, RequestFails(t) PROVE ShareInv'
  <2>1. unacked' <= unacked
    <3>1. DecrWindow(t, "idle", FALSE) /\ "idle" \in PCs
      BY <1>9 DEF RequestFails, PCs
    <3>2. unacked' = IF unacked > Request(t) THEN unacked - Request(t) ELSE 0
      BY <3>1, DecrFacts
    <3>3. QED  BY <1>1, <3>2, RequestFacts
  <2>2. slips = 0 /\ slips' = 1
    BY <1>1, <1>9, SlipFacts DEF RequestFails
  <2>3. unacked <= MaxInflight /\ NoOrphan
    BY <1>1, <2>2 DEF ShareInv
  <2>4. OneOrphan'
    <3>1. \A i \in DOMAIN pipe : pipe'[i].who = IF pipe[i].who = t THEN Nobody ELSE pipe[i].who
      BY <1>9, OrphanFacts
    <3>2. DOMAIN pipe' = DOMAIN pipe
      BY <1>9, OrphanFacts
    <3>3. \A i \in DOMAIN pipe' : pipe'[i].who = Nobody => pipe[i].who = t
      BY <2>3, <3>1, <3>2 DEF NoOrphan
    <3>4. t # Nobody
      BY FlowAssumption
    <3>5. QED  BY <3>2, <3>3, <3>4 DEF OneOrphan, PipeInv
  <2>5. unacked' <= MaxInflight
    BY <1>1, <2>1, <2>3
  <2>6. QED  BY <2>2, <2>4, <2>5 DEF ShareInv
<1>10. CASE Close \/ ReaderEnds \/ UNCHANGED vars
  <2>1. pipe' = pipe /\ slips' = slips /\ unacked' = unacked
    BY <1>10 DEF Close, ReaderEnds, vars
  <2>2. QED  BY <1>1, <2>1, ShareCalm DEF NoOrphan, OneOrphan
<1>11. CASE Consume
  <2>1. /\ slips' = slips /\ unacked' = unacked
        /\ Len(pipe) \in Nat /\ DOMAIN pipe = 1 .. Len(pipe) /\ Len(pipe) >= 1
        /\ DOMAIN pipe' = 1 .. (Len(pipe) - 1)
        /\ \A i \in DOMAIN pipe' : pipe'[i] = pipe[i + 1]
    BY <1>11 DEF Consume, TypeOK
  <2>2. \A i \in DOMAIN pipe' : i \in Int /\ i + 1 \in DOMAIN pipe
    BY <2>1
  <2>3. NoOrphan => NoOrphan'
    BY <2>1, <2>2 DEF NoOrphan
  <2>4. OneOrphan => OneOrphan'
    <3>1. ASSUME OneOrphan, NEW i \in DOMAIN pipe', NEW j \in DOMAIN pipe',
                 pipe'[i].who = Nobody, pipe'[j].who = Nobody
          PROVE  i = j
      <4>1. i + 1 = j + 1
        BY <2>1, <2>2, <3>1 DEF OneOrphan
      <4>2. QED  BY <2>2, <4>1
    <3>2. QED  BY <3>1 DEF OneOrphan
  <2>5. QED  BY <1>1, <2>1, <2>3, <2>4, ShareCalm
<1>12. QED
  BY <1>3, <1>4, <1>5, <1>6, <1>7, <1>8, <1>9, <1>10, <1>11 DEF Next, ThreadStep, Done

-----------------------------------------------------------------------------
(* One thread alone *)

\* The values SoloInv adds up.
LEMMA SoloFacts ==
  ASSUME TypeOK, NEW t \in Threads
  PROVE  /\ sendBytes \in Nat /\ Bytes(pipe) \in Nat /\ Uncounted(t) \in Nat /\ Coming(t) \in Nat
         /\ MaxInflight \in Nat /\ BurstWindow \in Nat /\ Ring \in Nat
         /\ \A n \in Sizes \cup {PingSize, 0} : n \in Nat
<1>1. sendBytes \in Nat /\ Bytes(pipe) \in Nat
  BY BytesFacts DEF TypeOK
<1>2. Uncounted(t) \in Nat /\ Coming(t) \in Nat
  BY RequestFacts DEF Uncounted, Coming
<1>3. QED  BY <1>1, <1>2, FlowAssumption

\* When the thread is not waiting for a reply, nobody waits for a frame.
LEMMA SoloPipe ==
  ASSUME TypeOK, CallInv, PipeInv, NEW t \in Threads, callers \subseteq {t}, pc[t] # "wait"
  PROVE  \A i \in DOMAIN pipe : pipe[i].who = Nobody
<1>1. \A u \in Threads : pc[u] # "wait"
  BY DEF CallInv
<1>2. QED  BY <1>1, PipeFacts DEF PipeInv

\* A frame is appended, or finds no room.
LEMMA SoloAppend ==
  ASSUME TypeOK, TypeOK', NEW t \in Threads, NEW f \in Frame, Put(f), woken'[t] = FALSE,
         \A i \in DOMAIN pipe : pipe[i].who = Nobody
  PROVE  /\ woken'[t] => pipe' = <<>>
         /\ \A i \in DOMAIN pipe' : pipe'[i].who # Nobody => i = Len(pipe')
         /\ Bytes(pipe') <= Bytes(pipe) + f.size
<1>1. pipe' = Append(pipe, f) \/ pipe' = pipe
  BY PutFacts
<1>2. Bytes(pipe) \in Nat /\ f.size \in Nat /\ Bytes(Append(pipe, f)) = Bytes(pipe) + f.size
  BY BytesFacts, FlowAssumption DEF TypeOK, Frame
<1>3. CASE pipe' = Append(pipe, f)
  <2>1. /\ Len(pipe) \in Nat /\ DOMAIN pipe = 1 .. Len(pipe)
        /\ Len(pipe') = Len(pipe) + 1 /\ DOMAIN pipe' = 1 .. (Len(pipe) + 1)
        /\ \A i \in DOMAIN pipe : pipe'[i] = pipe[i]
    BY <1>3 DEF TypeOK
  <2>2. QED  BY <1>2, <1>3, <2>1
<1>4. CASE pipe' = pipe
  BY <1>2, <1>4
<1>5. QED  BY <1>1, <1>3, <1>4

LEMMA SoloStep ==
  TypeOK /\ TypeOK' /\ CallInv /\ CallInv' /\ PipeInv /\ SoloInv /\ [Next]_vars => SoloInv'
<1> SUFFICES ASSUME TypeOK, TypeOK', CallInv, CallInv', PipeInv, SoloInv, [Next]_vars,
                    NEW t \in Threads, Quiet', callers' \subseteq {t}
             PROVE  Ordered(t)' /\ \E left \in Sizes \cup {PingSize, 0} : Counted(t, left)'
  BY DEF SoloInv
<1> USE DEF flow, link, procs, history
<1>1. /\ Quiet /\ callers \subseteq {t}
      /\ slips \in 0 .. 1 /\ slips' \in 0 .. 1 /\ slips' >= slips
  <2>1. slips \in 0 .. 2 /\ slips' \in 0 .. 2 /\ slips' >= slips /\ slips' <= 1
    BY Monotone DEF TypeOK, Quiet
  <2>2. ~closing /\ callers \subseteq {t}
    BY Monotone DEF Quiet
  <2>3. QED  BY <2>1, <2>2 DEF Quiet
<1>2. Ordered(t)
  BY <1>1 DEF SoloInv
<1>3. PICK left \in Sizes \cup {PingSize, 0} : Counted(t, left)
  BY <1>1 DEF SoloInv
<1>4. /\ sendBytes \in Nat /\ Bytes(pipe) \in Nat /\ Uncounted(t) \in Nat /\ Coming(t) \in Nat
      /\ len[t] \in Nat /\ Request(t) \in Nat /\ left \in Nat
      /\ MaxInflight \in Nat /\ BurstWindow \in Nat
  BY SoloFacts, RequestFacts
<1>5. Bytes(pipe') \in Nat /\ sendBytes' \in Nat
  BY BytesFacts DEF TypeOK
<1>6. \A u \in Threads : u # t => pc[u] = "idle"
  BY <1>1 DEF CallInv
\* A step that adds nothing.
<1>7. ASSUME pipe' = pipe, sendBytes' = sendBytes, slips' = slips, woken'[t] = woken[t],
             Uncounted(t)' = Uncounted(t), Coming(t)' = Coming(t), pc'[t] # "write"
      PROVE  Ordered(t)' /\ Counted(t, left)'
  BY <1>2, <1>3, <1>7 DEF Ordered, Counted
<1>8. ASSUME NEW u \in Threads, NEW n \in Sizes, NEW send \in BOOLEAN, Start(u, n, send)
      PROVE  Ordered(t)' /\ Counted(t, left)'
  <2>1. u = t
    BY <1>8 DEF Start
  <2>2. /\ pc[t] = "idle" /\ pc'[t] \in {"check", "reserve"}
        /\ pipe' = pipe /\ sendBytes' = sendBytes /\ slips' = slips /\ woken' = woken
    BY <1>8, <2>1 DEF Start, Goto, TypeOK
  <2>3. Uncounted(t)' = 0 /\ Uncounted(t) = 0 /\ Coming(t)' = 0 /\ Coming(t) = 0
    BY <2>2 DEF Uncounted, Coming
  <2>4. QED  BY <1>7, <2>2, <2>3
<1>9. ASSUME CheckBurst(t) PROVE Ordered(t)' /\ Counted(t, left)'
  <2>1. /\ pc[t] = "check" /\ pc'[t] \in {"reserve", "sendWrite"} /\ len' = len
        /\ pipe' = pipe /\ sendBytes' = sendBytes /\ slips' = slips /\ woken' = woken
    BY <1>9 DEF CheckBurst, Goto, TypeOK
  <2>2. pc'[t] = "sendWrite" => unacked + sendBytes + len[t] <= BurstWindow
    BY <1>4, <1>9 DEF CheckBurst, Goto, TypeOK
  <2>3. Uncounted(t)' = 0 /\ Uncounted(t) = 0 /\ Coming(t) = 0
    BY <2>1 DEF Uncounted, Coming
  <2>4. Coming(t)' = IF pc'[t] = "sendWrite" THEN len[t] ELSE 0
    BY <2>1 DEF Coming
  <2>5. sendBytes + Coming(t)' <= BurstWindow
    <3>1. unacked \in Nat
      BY DEF TypeOK
    <3>2. sendBytes + 0 <= BurstWindow
      BY <1>2, <2>3 DEF Ordered
    <3>3. QED  BY <1>4, <2>2, <2>4, <3>1, <3>2
  <2>6. QED  BY <1>2, <1>3, <2>1, <2>3, <2>5 DEF Ordered, Counted
<1>10. ASSUME Reserve(t) PROVE Ordered(t)' /\ Counted(t, left)'
  <2>1. /\ pc[t] = "reserve" /\ pc'[t] \in {"waiting", "write"} /\ Request(t)' = Request(t)
        /\ pipe' = pipe /\ sendBytes' = sendBytes /\ slips' = slips /\ woken' = woken
    BY <1>10 DEF Reserve, Goto, TypeOK, Request
  <2>2. Uncounted(t)' = 0 /\ Uncounted(t) = 0 /\ Coming(t)' = 0 /\ Coming(t) = 0
    BY <2>1 DEF Uncounted, Coming
  <2>3. pc'[t] = "write" => sendBytes + Request(t) <= MaxInflight
    <3>1. pc'[t] = "write" => ~Full(t)
      BY <1>1, <1>10 DEF Reserve, Goto, TypeOK, Quiet
    <3>2. unacked \in Nat
      BY DEF TypeOK
    <3>3. QED  BY <1>4, <3>1, <3>2 DEF Full
  <2>4. QED  BY <1>2, <1>3, <2>1, <2>2, <2>3 DEF Ordered, Counted
<1>11. ASSUME FallThrough(t) PROVE Ordered(t)' /\ Counted(t, left)'
  <2>1. /\ pc[t] = "waiting" /\ pc'[t] = "write" /\ Slip
        /\ pipe' = pipe /\ sendBytes' = sendBytes /\ woken' = woken
    BY <1>11 DEF FallThrough, Goto, TypeOK
  <2>2. slips = 0 /\ slips' = 1
    BY <1>1, <2>1, SlipFacts
  <2>3. Uncounted(t)' = 0 /\ Uncounted(t) = 0 /\ Coming(t)' = 0 /\ Coming(t) = 0
    BY <2>1 DEF Uncounted, Coming
  <2>4. QED  BY <1>2, <1>3, <2>1, <2>2, <2>3 DEF Ordered, Counted
<1>12. ASSUME Write(t) PROVE Ordered(t)' /\ Counted(t, left)'
  <2> DEFINE f == [who |-> t, size |-> Request(t)]
  <2>1. /\ pc[t] = "write" /\ pc'[t] = "wait" /\ Put(f) /\ Request(t)' = Request(t)
        /\ sendBytes' = sendBytes /\ slips' = slips /\ woken' = woken
    BY <1>12 DEF Write, Goto, TypeOK, Request
  <2>2. f \in Frame /\ f.size = Request(t)
    BY <2>1, RequestFacts DEF Frame, CallInv
  <2>3. woken'[t] = FALSE
    BY <2>1 DEF CallInv, TypeOK
  <2>4. \A i \in DOMAIN pipe : pipe[i].who = Nobody
    BY <1>1, <2>1, SoloPipe
  <2>5. /\ \A i \in DOMAIN pipe' : pipe'[i].who # Nobody => i = Len(pipe')
        /\ Bytes(pipe') <= Bytes(pipe) + Request(t)
    <3> HIDE DEF f
    <3> QED  BY <2>1, <2>2, <2>3, <2>4, SoloAppend
  <2>6. Uncounted(t)' = Request(t) /\ Uncounted(t) = 0 /\ Coming(t)' = 0 /\ Coming(t) = 0
    BY <2>1 DEF Uncounted, Coming
  <2>7. Bytes(pipe') <= sendBytes + Uncounted(t)' + left
    BY <1>3, <1>4, <1>5, <2>5, <2>6 DEF Counted
  <2>8. QED  BY <1>2, <1>3, <2>1, <2>3, <2>5, <2>6, <2>7 DEF Ordered, Counted
<1>13. ASSUME Replied(t)
       PROVE  Ordered(t)' /\ \E more \in Sizes \cup {PingSize, 0} : Counted(t, more)'
  <2> DEFINE place == IF sending[t] THEN "sendWrite" ELSE "idle"
  <2>1. /\ pc[t] = "wait" /\ woken[t] /\ DecrWindow(t, place, TRUE) /\ place \in PCs
        /\ pipe' = pipe /\ len' = len /\ slips' = slips /\ woken'[t] = FALSE
    BY <1>13 DEF Replied, TypeOK, PCs
  <2>2. sendBytes' = 0 /\ pc'[t] = place
    BY <2>1, DecrFacts
  <2>3. pipe' = <<>> /\ Bytes(pipe') = 0
    <3>1. pipe = <<>>
      BY <1>2, <2>1 DEF Ordered
    <3>2. QED  BY <2>1, <3>1, BytesFacts DEF TypeOK
  <2>4. Uncounted(t)' = 0 /\ Coming(t)' \in {0, len[t]}
    BY <2>1, <2>2 DEF Uncounted, Coming
  <2>5. len[t] <= BurstWindow
    BY <2>1, FlowAssumption DEF CallInv
  <2>6. Ordered(t)'
    BY <1>4, <2>1, <2>2, <2>3, <2>4, <2>5 DEF Ordered
  <2>7. Counted(t, 0)'
    BY <2>2, <2>3, <2>4 DEF Counted
  <2>8. QED  BY <2>6, <2>7
<1>14. ASSUME RequestFails(t)
       PROVE  Ordered(t)' /\ \E more \in Sizes \cup {PingSize, 0} : Counted(t, more)'
  <2>1. /\ pc[t] \in {"write", "wait"} /\ ~woken[t] /\ woken' = woken /\ Slip
        /\ DecrWindow(t, "idle", FALSE) /\ "idle" \in PCs
    BY <1>14 DEF RequestFails, PCs
  <2>2. sendBytes' = sendBytes /\ pc'[t] = "idle"
    BY <2>1, DecrFacts
  <2>3. slips = 0 /\ slips' = 1 /\ left = 0
    BY <1>1, <1>3, <2>1, SlipFacts DEF Counted
  <2>4. /\ DOMAIN pipe' = DOMAIN pipe /\ Len(pipe') = Len(pipe)
        /\ \A i \in DOMAIN pipe :
             /\ pipe'[i].size = pipe[i].size
             /\ pipe'[i].who = IF pipe[i].who = t THEN Nobody ELSE pipe[i].who
    BY <1>14, OrphanFacts
  <2>5. Bytes(pipe') = Bytes(pipe)
    BY <2>4, BytesFacts DEF TypeOK
  <2>6. Uncounted(t)' = 0 /\ Coming(t)' = 0 /\ Coming(t) = 0
    BY <2>1, <2>2 DEF Uncounted, Coming
  <2>7. Uncounted(t) \in Sizes \cup {PingSize, 0}
    BY <2>1, RequestFacts DEF Uncounted, CallInv
  <2>8. Ordered(t)'
    BY <1>2, <2>1, <2>2, <2>4, <2>6 DEF Ordered
  <2>9. PICK more \in Sizes \cup {PingSize, 0} : more = Uncounted(t)
    BY <2>7
  <2>10. Counted(t, more)'
    BY <1>3, <1>4, <2>2, <2>3, <2>5, <2>6, <2>9 DEF Counted
  <2>11. QED  BY <2>8, <2>10
<1>15. ASSUME SendWrite(t) PROVE Ordered(t)' /\ Counted(t, left)'
  <2> DEFINE f == [who |-> Nobody, size |-> len[t]]
  <2>1. /\ pc[t] = "sendWrite" /\ pc'[t] = "count" /\ Put(f) /\ len' = len
        /\ sendBytes' = sendBytes /\ slips' = slips /\ woken' = woken
    BY <1>15 DEF SendWrite, Goto, TypeOK
  <2>2. f \in Frame /\ f.size = len[t]
    BY <2>1 DEF Frame, CallInv
  <2>3. woken'[t] = FALSE
    BY <2>1 DEF CallInv, TypeOK
  <2>4. \A i \in DOMAIN pipe : pipe[i].who = Nobody
    BY <1>1, <2>1, SoloPipe
  <2>5. /\ \A i \in DOMAIN pipe' : pipe'[i].who # Nobody => i = Len(pipe')
        /\ Bytes(pipe') <= Bytes(pipe) + len[t]
    <3> HIDE DEF f
    <3> QED  BY <2>1, <2>2, <2>3, <2>4, SoloAppend
  <2>6. Uncounted(t)' = len[t] /\ Uncounted(t) = 0 /\ Coming(t)' = len[t] /\ Coming(t) = len[t]
    BY <2>1 DEF Uncounted, Coming
  <2>7. Bytes(pipe') <= sendBytes + Uncounted(t)' + left
    BY <1>3, <1>4, <1>5, <2>5, <2>6 DEF Counted
  <2>8. QED  BY <1>2, <1>3, <2>1, <2>3, <2>5, <2>6, <2>7 DEF Ordered, Counted
<1>16. ASSUME Count(t) PROVE Ordered(t)' /\ Counted(t, left)'
  <2>1. /\ pc[t] = "count" /\ pc'[t] = "idle" /\ sendBytes' = sendBytes + len[t]
        /\ pipe' = pipe /\ slips' = slips /\ woken' = woken
    BY <1>16 DEF Count, Goto, TypeOK
  <2>2. Uncounted(t)' = 0 /\ Uncounted(t) = len[t] /\ Coming(t)' = 0 /\ Coming(t) = len[t]
    BY <2>1 DEF Uncounted, Coming
  <2>3. sendBytes' + Coming(t)' <= BurstWindow /\ Bytes(pipe') <= sendBytes' + Uncounted(t)' + left
    BY <1>2, <1>3, <1>4, <2>1, <2>2 DEF Ordered, Counted
  <2>4. QED  BY <1>2, <1>3, <2>1, <2>3 DEF Ordered, Counted
<1>17. CASE Close
  BY <1>17 DEF Close, Quiet
<1>18. CASE ReaderEnds \/ UNCHANGED vars
  <2>1. /\ pipe' = pipe /\ sendBytes' = sendBytes /\ slips' = slips /\ woken' = woken
        /\ len' = len /\ Request(t)' = Request(t)
    BY <1>18 DEF ReaderEnds, vars, Request
  <2>2. pc'[t] = pc[t] \/ (pc[t] = "waiting" /\ pc'[t] = "reserve")
    BY <1>18 DEF ReaderEnds, vars
  <2>3. Uncounted(t)' = Uncounted(t) /\ Coming(t)' = Coming(t)
    BY <2>1, <2>2 DEF Uncounted, Coming
  <2>4. QED  BY <1>2, <1>3, <2>1, <2>2, <2>3 DEF Ordered, Counted
<1>19. ASSUME Consume PROVE Ordered(t)' /\ Counted(t, left)'
  <2>1. /\ pipe # <<>> /\ pipe' = Tail(pipe) /\ sendBytes' = sendBytes /\ slips' = slips
        /\ pc' = pc /\ len' = len /\ Request(t)' = Request(t)
        /\ woken'[t] = (woken[t] \/ (reading /\ t = Head(pipe).who))
    BY <1>19 DEF Consume, Request
  <2>2. /\ Len(pipe) \in Nat /\ DOMAIN pipe = 1 .. Len(pipe) /\ Len(pipe) >= 1
        /\ Len(pipe') = Len(pipe) - 1 /\ DOMAIN pipe' = 1 .. (Len(pipe) - 1)
        /\ Head(pipe) = pipe[1] /\ \A i \in DOMAIN pipe' : pipe'[i] = pipe[i + 1]
    BY <2>1 DEF TypeOK
  <2>3. Bytes(pipe') <= Bytes(pipe)
    BY <2>1, BytesFacts DEF TypeOK
  <2>4. Uncounted(t)' = Uncounted(t) /\ Coming(t)' = Coming(t)
    BY <2>1 DEF Uncounted, Coming
  <2>5. \A i \in DOMAIN pipe' : pipe'[i].who # Nobody => i = Len(pipe')
    <3>1. \A i \in DOMAIN pipe' : i \in Int /\ i + 1 \in DOMAIN pipe
      BY <2>2
    <3>2. \A i \in DOMAIN pipe' : pipe'[i].who # Nobody => i + 1 = Len(pipe)
      BY <1>2, <2>2, <3>1 DEF Ordered
    <3>3. QED  BY <2>2, <3>1, <3>2
  <2>6. woken'[t] => pipe' = <<>>
    <3>1. woken'[t] => pipe[1].who = t
      BY <1>2, <2>1, <2>2 DEF Ordered, TypeOK
    <3>2. pipe[1].who = t => Len(pipe) = 1
      <4>1. t # Nobody
        BY FlowAssumption
      <4>2. 1 \in DOMAIN pipe
        BY <2>2
      <4>3. pipe[1].who # Nobody => 1 = Len(pipe)
        BY <1>2, <4>2 DEF Ordered
      <4>4. QED  BY <4>1, <4>3
    <3>3. Len(pipe) = 1 => pipe' = <<>>
      BY <2>1 DEF TypeOK
    <3>4. QED  BY <3>1, <3>2, <3>3
  <2>7. Bytes(pipe') <= sendBytes + Uncounted(t) + left
    BY <1>3, <1>4, <1>5, <2>3 DEF Counted
  <2>8. QED  BY <1>2, <1>3, <2>1, <2>4, <2>5, <2>6, <2>7 DEF Ordered, Counted
<1>20. ASSUME NEW u \in Threads, ThreadStep(u) PROVE u = t
  BY <1>6, <1>20 DEF ThreadStep, CheckBurst, Reserve, FallThrough, Write, Replied, RequestFails,
                     SendWrite, Count
<1>21. QED
  BY <1>3, <1>8, <1>9, <1>10, <1>11, <1>12, <1>13, <1>14, <1>15, <1>16, <1>17, <1>18, <1>19, <1>20
     DEF Next, ThreadStep, Done

-----------------------------------------------------------------------------
(* The ring *)

\* Threads that wait for every reply find room.
LEMMA ShareFits ==
  ASSUME TypeOK, CallInv, PipeInv, ReservedIsLive, ShareInv, Quiet, senders = {},
         NEW t \in Threads, pc[t] = "write"
  PROVE  Bytes(pipe) + Request(t) <= Ring
<1>1. /\ unacked \in Nat /\ Bytes(pipe) \in Nat /\ Request(t) \in Nat /\ MaxInflight \in Nat /\ Ring \in Nat
      /\ \A n \in Sizes \cup {PingSize} : n \in Nat /\ MaxInflight + n <= Ring
  BY SoloFacts, RequestFacts, FlowAssumption DEF TypeOK
<1>2. CASE NoOrphan
  <2>1. Bytes(pipe) + Request(t) <= unacked
    BY <1>2, PipeIsReserved DEF NoOrphan, OneOrphan
  <2>2. unacked <= MaxInflight \/ \E n \in Sizes : unacked <= MaxInflight + n
    BY DEF ShareInv
  <2>3. unacked <= MaxInflight + PingSize \/ \E n \in Sizes : unacked <= MaxInflight + n
    BY <1>1, <2>2
  <2>4. PICK n \in Sizes \cup {PingSize} : unacked <= MaxInflight + n
    BY <2>3
  <2>5. QED  BY <1>1, <2>1, <2>4
<1>3. CASE ~NoOrphan
  <2>1. OneOrphan /\ unacked <= MaxInflight
    BY <1>3 DEF ShareInv
  <2>2. PICK n \in Sizes \cup {PingSize} : Bytes(pipe) + Request(t) <= unacked + n
    BY <2>1, PipeIsReserved
  <2>3. QED  BY <1>1, <2>1, <2>2
<1>4. QED  BY <1>2, <1>3

\* One thread alone finds room, for its requests and for its bursts.
LEMMA SoloFits ==
  ASSUME TypeOK, CallInv, SoloInv, Quiet, NEW t \in Threads, callers \subseteq {t}
  PROVE  /\ pc[t] = "write" => Bytes(pipe) + Request(t) <= Ring
         /\ pc[t] = "sendWrite" => Bytes(pipe) + len[t] <= Ring
<1>1. Ordered(t)
  BY DEF SoloInv
<1>2. PICK left \in Sizes \cup {PingSize, 0} : Counted(t, left)
  BY DEF SoloInv
<1>3. /\ sendBytes \in Nat /\ Bytes(pipe) \in Nat /\ len[t] \in Nat /\ Request(t) \in Nat /\ left \in Nat
      /\ MaxInflight \in Nat /\ BurstWindow \in Nat /\ Ring \in Nat
  BY SoloFacts, RequestFacts
<1>4. left = 0 \/ (MaxInflight + left <= Ring /\ BurstWindow + left <= Ring)
  BY FlowAssumption
<1>5. BurstWindow <= Ring
  <2>1. PingSize \in Nat /\ BurstWindow + PingSize <= Ring
    BY FlowAssumption
  <2>2. QED  BY <1>3, <2>1
<1>6. ASSUME pc[t] = "write" PROVE Bytes(pipe) + Request(t) <= Ring
  <2>1. Uncounted(t) = 0 /\ Coming(t) = 0
    BY <1>6 DEF Uncounted, Coming
  <2>2. Bytes(pipe) <= sendBytes + left /\ sendBytes <= BurstWindow
    BY <1>1, <1>2, <1>3, <2>1 DEF Ordered, Counted
  <2>3. CASE left = 0
    <3>1. Request(t) \in Sizes \cup {PingSize}
      BY <1>6, RequestFacts DEF CallInv
    <3>2. BurstWindow + Request(t) <= Ring
      BY <3>1, FlowAssumption
    <3>3. QED  BY <1>3, <2>2, <2>3, <3>2
  <2>4. CASE left # 0
    <3>1. sendBytes + Request(t) <= MaxInflight /\ MaxInflight + left <= Ring
      BY <1>2, <1>4, <1>6, <2>4 DEF Counted
    <3>2. QED  BY <1>3, <2>2, <3>1
  <2>5. QED  BY <2>3, <2>4
<1>7. ASSUME pc[t] = "sendWrite" PROVE Bytes(pipe) + len[t] <= Ring
  <2>1. Uncounted(t) = 0 /\ Coming(t) = len[t]
    BY <1>7 DEF Uncounted, Coming
  <2>2. Bytes(pipe) <= sendBytes + left /\ sendBytes + len[t] <= BurstWindow
    BY <1>1, <1>2, <1>3, <2>1 DEF Ordered, Counted
  <2>3. QED  BY <1>3, <1>4, <1>5, <2>2
<1>8. QED  BY <1>6, <1>7

LEMMA OverrunStep ==
  /\ TypeOK /\ TypeOK' /\ CallInv /\ PipeInv /\ ReservedIsLive /\ ShareInv /\ SoloInv
  /\ OverrunHasCause /\ [Next]_vars
  => OverrunHasCause'
<1> SUFFICES ASSUME TypeOK, TypeOK', CallInv, PipeInv, ReservedIsLive, ShareInv, SoloInv,
                    OverrunHasCause, [Next]_vars, lost', ~(slips' > 1), ~closing', ~Mixed'
             PROVE  FALSE
  BY DEF OverrunHasCause
<1> USE DEF flow, link, procs, history
<1>1. Quiet /\ slips \in Nat
  <2>1. slips \in 0 .. 2 /\ slips' \in 0 .. 2 /\ slips' >= slips /\ ~closing
    BY Monotone DEF TypeOK
  <2>2. QED  BY <2>1 DEF Quiet
<1>2. ~Mixed
  <2>1. senders \subseteq senders' /\ callers \subseteq callers' /\ senders \subseteq callers
    BY Monotone DEF TypeOK
  <2>2. QED  BY <2>1 DEF Mixed
<1>3. ~lost
  BY <1>1, <1>2 DEF OverrunHasCause, Quiet
<1>4. ASSUME NEW t \in Threads, pc[t] # "idle"
      PROVE  \/ senders = {} /\ ~sending[t]
             \/ callers \subseteq {t}
  BY <1>2, <1>4 DEF Mixed, CallInv
<1>5. ASSUME NEW t \in Threads, Write(t) PROVE FALSE
  <2> DEFINE f == [who |-> t, size |-> Request(t)]
  <2>1. pc[t] = "write" /\ Put(f)
    BY <1>5 DEF Write
  <2>2. f \in Frame /\ f.size = Request(t)
    BY <2>1, RequestFacts DEF Frame, CallInv
  <2>3. Bytes(pipe) + Request(t) > Ring
    <3> HIDE DEF f
    <3> QED  BY <1>3, <2>1, <2>2, PutFacts
  <2>4. Bytes(pipe) + Request(t) <= Ring
    BY <1>1, <1>4, <2>1, ShareFits, SoloFits
  <2>5. Bytes(pipe) \in Nat /\ Request(t) \in Nat /\ Ring \in Nat
    BY SoloFacts, RequestFacts
  <2>6. QED  BY <2>3, <2>4, <2>5
<1>6. ASSUME NEW t \in Threads, SendWrite(t) PROVE FALSE
  <2> DEFINE f == [who |-> Nobody, size |-> len[t]]
  <2>1. pc[t] = "sendWrite" /\ Put(f)
    BY <1>6 DEF SendWrite
  <2>2. f \in Frame /\ f.size = len[t]
    BY <2>1 DEF Frame, CallInv
  <2>3. Bytes(pipe) + len[t] > Ring
    <3> HIDE DEF f
    <3> QED  BY <1>3, <2>1, <2>2, PutFacts
  <2>4. sending[t] /\ callers \subseteq {t}
    BY <1>4, <2>1 DEF CallInv
  <2>5. Bytes(pipe) + len[t] <= Ring
    BY <1>1, <2>1, <2>4, SoloFits
  <2>6. Bytes(pipe) \in Nat /\ len[t] \in Nat /\ Ring \in Nat
    BY SoloFacts, RequestFacts
  <2>7. QED  BY <2>3, <2>5, <2>6
<1>7. lost' = lost \/ \E t \in Threads : Write(t) \/ SendWrite(t)
  BY DEF Next, ThreadStep, Start, CheckBurst, Reserve, FallThrough, Replied, RequestFails,
         Count, Close, ReaderEnds, Consume, Done, vars
<1>8. QED  BY <1>3, <1>5, <1>6, <1>7

-----------------------------------------------------------------------------
(* The theorems *)

LEMMA InitFacts == Init => IInv
<1> SUFFICES ASSUME Init PROVE IInv
  OBVIOUS
<1>1. TypeOK /\ CallInv
  BY TypeInit
<1>2. /\ pipe = <<>> /\ DOMAIN pipe = {} /\ Live = {} /\ unacked = 0 /\ sendBytes = 0 /\ slips = 0 /\ ~lost
      /\ \A t \in Threads : pc[t] = "idle" /\ ~woken[t]
  BY DEF Init, Live
<1>3. PipeInv /\ NoOrphan
  BY <1>2 DEF PipeInv, NoOrphan
<1>4. ReservedIsLive
  <2>1. DOMAIN [t \in Live |-> Request(t)] = {}
    BY <1>2
  <2>2. QED  BY <1>2, <2>1, TotalEmpty DEF ReservedIsLive
<1>5. WaiterIsNotAlone /\ OverrunHasCause
  BY <1>2 DEF WaiterIsNotAlone, OverrunHasCause
<1>6. ShareInv
  BY <1>2, <1>3, FlowAssumption DEF ShareInv
<1>7. SoloInv
  <2>1. Bytes(pipe) = 0
    BY <1>1, <1>2, BytesFacts DEF TypeOK
  <2>2. ASSUME NEW t \in Threads PROVE Ordered(t) /\ Counted(t, 0)
    <3>1. Coming(t) = 0 /\ Uncounted(t) = 0
      BY <1>2 DEF Coming, Uncounted
    <3>2. QED  BY <1>2, <2>1, <3>1, FlowAssumption DEF Ordered, Counted
  <2>3. QED  BY <2>2 DEF SoloInv
<1>8. QED  BY <1>1, <1>3, <1>4, <1>5, <1>6, <1>7 DEF IInv

LEMMA StepFacts == IInv /\ [Next]_vars => IInv'
<1> SUFFICES ASSUME IInv, [Next]_vars PROVE IInv'
  OBVIOUS
<1>1. /\ TypeOK /\ CallInv /\ PipeInv /\ ReservedIsLive /\ WaiterIsNotAlone
      /\ ShareInv /\ SoloInv /\ OverrunHasCause
  BY DEF IInv
<1>2. TypeOK' /\ CallInv'
  BY <1>1, TypeStep
<1>3. PipeInv'
  BY <1>1, PipeStep
<1>4. ReservedIsLive' /\ WaiterIsNotAlone'
  BY <1>1, <1>2, ReservedStep, WaiterStep
<1>5. ShareInv' /\ SoloInv'
  BY <1>1, <1>2, ShareStep, SoloStep
<1>6. OverrunHasCause'
  BY <1>1, <1>2, OverrunStep
<1>7. QED  BY <1>2, <1>3, <1>4, <1>5, <1>6 DEF IInv

\* Everything the inductive invariant says holds throughout.
THEOREM FlowInvariant == Spec => []IInv
<1>1. Init => IInv
  BY InitFacts
<1>2. IInv /\ [Next]_vars => IInv'
  BY StepFacts
<1>3. QED  BY <1>1, <1>2, PTL DEF Spec

\* Counters stay numbers, threads in their places, frames of legal sizes:
\* releasing a window never takes more than is there, for any number of threads.
THEOREM FlowTypes == Spec => []TypeOK
<1>1. IInv => TypeOK
  BY DEF IInv
<1>2. QED  BY <1>1, FlowInvariant, PTL

\* _unacked is at any time the sum of what the requests under way reserved,
\* however many threads reserve, time out, fail to write or are answered.
THEOREM ReservedIsWhatIsLive == Spec => []ReservedIsLive
<1>1. IInv => ReservedIsLive
  BY DEF IInv
<1>2. QED  BY <1>1, FlowInvariant, PTL

\* Nobody waits in _reserve_window() on an empty window: with no send() bytes
\* outstanding, a request is under way whose end will wake the waiting thread.
THEOREM WaitersAreNotAlone == Spec => []WaiterIsNotAlone
<1>1. IInv => WaiterIsNotAlone
  BY DEF IInv
<1>2. QED  BY <1>1, FlowInvariant, PTL

\* The firmware's ring cannot overflow, for any windows that leave room for
\* one frame: unless two waits ran out, the Bridge is being closed, or a
\* thread sends without waiting beside another one.
THEOREM OverrunsHaveCauses == Spec => []OverrunHasCause
<1>1. IInv => OverrunHasCause
  BY DEF IInv
<1>2. QED  BY <1>1, FlowInvariant, PTL
=============================================================================
