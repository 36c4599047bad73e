----------------------- MODULE BridgeRequests_proofs -----------------------
(***************************************************************************)
(* Proofs about BridgeRequests for any number of threads, sequence         *)
(* numbers, retries, calls and faults, and any depth of the firmware's     *)
(* queue.                                                                  *)
(*                                                                         *)
(* SlotInv says which entry of the pending table a thread holds and that   *)
(* no two threads are in the same call; with the types it is inductive.    *)
(* Forward says that no step takes a thread back to a call or an attempt   *)
(* it has left, so what was Sent stays Sent.  On it rest FrameInv (an      *)
(* attempt has one frame, in one place, only after it was sent, and not    *)
(* executed while it waits for the firmware) and LateInv (whose reply may  *)
(* be stored where).  FrameInv also bounds the executions of a call, from  *)
(* which the steps of the engine are steps of RemoteCall.                  *)
(***************************************************************************)
EXTENDS BridgeRequests, FiniteSetTheorems, TLAPS

Active(t) == pc[t] # "idle"

SlotInv ==
  /\ \A t \in Threads : Holding(t) => seq[t] \in Seqs /\ owner[seq[t]] = Cur(t)
  /\ \A t \in Threads : Active(t) => call[t] # 0 /\ call[t] < nextCall
  /\ \A t, u \in Threads : Active(t) /\ Active(u) /\ call[t] = call[u] => t = u

\* The positions of a channel, and the frames at them.
At(C, c) == 1..Len(C[c])
Has(C, c, f) == \E i \in At(C, c) : C[c][i] = f

\* Every attempt has at most one frame, in one place.
Unique(C) ==
  \A c, d \in Channels : \A i \in At(C, c), j \in At(C, d) :
    C[c][i].att = C[d][j].att => c = d /\ i = j

\* An attempt whose frame has been written.
Sent(a) ==
  /\ a.call # 0 /\ a.call < nextCall
  /\ \A t \in Threads : Active(t) /\ call[t] = a.call =>
       a.try < try[t] \/ (a.try = try[t] /\ pc[t] = "wait")

\* The attempts a command may have.
Allowed(a) == a.try = PingTry \/ a.try <= MayRepeat(cmdOf[a.call])

\* Threads work on attempts their command may have.
TryInv ==
  /\ \A t \in Threads : Active(t) => Allowed(Cur(t))
  /\ \A t \in Threads : ~Active(t) => try[t] = 0

FrameInv ==
  /\ Unique(chan)
  /\ \A c \in Channels, f \in Frame : Has(chan, c, f) => Sent(f.att) /\ Allowed(f.att)
  /\ \A c \in {"down", "slow"}, f \in Frame : Has(chan, c, f) => ran[f.att] = 0
  /\ \A a \in Attempt : ran[a] # 0 => ran[a] = 1 /\ Sent(a) /\ Allowed(a)

LateInv ==
  /\ \A c \in Channels, f \in Frame : Has(chan, c, f) => f.att \in orphans \cup {owner[f.seq]}
  /\ \A s \in Seqs : reply[s] # NoAtt =>
       /\ reply[s] \in orphans \cup {owner[s]}
       /\ Sent(reply[s])
       /\ \A c \in Channels, f \in Frame : Has(chan, c, f) => f.att # reply[s]

-----------------------------------------------------------------------------
(* Facts about the constants and the operators *)

LEMMA ConstFacts ==
  /\ NoAtt \in Attempt
  /\ PingTry \in Nat \ {0}
  /\ Seqs \subseteq Nat \ {0}
  /\ \A s \in Seqs : s \in 0..NSeq
  /\ \A c : Retries(c) \in Nat /\ Retries(c) < PingTry /\ MayRepeat(c) = Retries(c)
  BY BridgeAssumption
     DEF NoAtt, Attempt, PingTry, Seqs, Retries, MayRepeat

\* The identity of the attempt a thread is working on.
LEMMA CurFacts ==
  ASSUME NEW t \in Threads, ThreadsOK
  PROVE  /\ Cur(t) \in Attempt
         /\ Cur(t).call = call[t] /\ Cur(t).try = try[t]
         /\ call[t] # 0 => Cur(t) # NoAtt
  BY DEF Cur, Attempt, ThreadsOK, NoAtt

\* A step of one thread leaves the others where they are.
Others(t) ==
  \A u \in Threads \ {t} : pc'[u] = pc[u] /\ call'[u] = call[u] /\ try'[u] = try[u]

\* The thread's attempt is over: the call ends or goes on with a later one.
AttemptOver(t) ==
  /\ Others(t)
  /\ \/ pc'[t] = "idle" /\ try'[t] = 0 /\ call'[t] = 0
     \/ /\ pc'[t] = "alloc"
        /\ call'[t] = call[t] /\ try'[t] > try[t]
        /\ try'[t] = PingTry \/ try'[t] <= Retries(Cmd(t))

LEMMA EndCallEffect ==
  ASSUME ThreadsOK, NEW t \in Threads, NEW r \in Results, EndCall(t, r),
         seq' \in [Threads -> 0..NSeq]
  PROVE  ThreadsOK' /\ AttemptOver(t)
<1>1. ThreadsOK'
  <2>1. 0 \in 0..MaxCalls /\ 0 \in 0..PingTry
    BY BridgeAssumption, ConstFacts
  <2>2. QED
    BY <2>1 DEF EndCall, ThreadsOK, PCs
<1>2. AttemptOver(t)
  BY DEF EndCall, ThreadsOK, AttemptOver, Others
<1>3. QED
  BY <1>1, <1>2

LEMMA NextTryEffect ==
  ASSUME ThreadsOK, NEW t \in Threads, NEW n \in 0..PingTry, NextTry(t, n),
         n > try[t], n = PingTry \/ n <= Retries(Cmd(t)),
         seq' \in [Threads -> 0..NSeq]
  PROVE  ThreadsOK' /\ AttemptOver(t)
<1>1. ThreadsOK'
  BY DEF NextTry, ThreadsOK, PCs
<1>2. AttemptOver(t)
  BY DEF NextTry, ThreadsOK, AttemptOver, Others
<1>3. QED
  BY <1>1, <1>2

LEMMA AfterTimeoutEffect ==
  ASSUME ThreadsOK, StatusOK, NEW t \in Threads, AfterTimeout(t),
         seq' \in [Threads -> 0..NSeq]
  PROVE  ThreadsOK' /\ AttemptOver(t) /\ linkDead' \in BOOLEAN
<1>1. try[t] \in 0..PingTry /\ "timeout" \in Results
  BY DEF ThreadsOK, Results
<1>2. CASE /\ ~Pinging(t) /\ try[t] < Retries(Cmd(t)) /\ ~closing
           /\ NextTry(t, try[t] + 1)
  <2>1. try[t] + 1 \in 0..PingTry /\ try[t] + 1 > try[t] /\ try[t] + 1 <= Retries(Cmd(t))
    BY <1>1, <1>2, ConstFacts
  <2>2. linkDead' = linkDead
    BY <1>2 DEF NextTry
  <2>3. QED
    BY <1>2, <2>1, <2>2, NextTryEffect DEF StatusOK
<1>3. CASE ~Pinging(t) /\ NextTry(t, PingTry)
  <2>1. PingTry \in 0..PingTry /\ PingTry > try[t]
    BY <1>1, <1>3, ConstFacts DEF Pinging
  <2>2. linkDead' = linkDead
    BY <1>3 DEF NextTry
  <2>3. QED
    BY <1>3, <2>1, <2>2, NextTryEffect DEF StatusOK
<1>4. CASE EndCall(t, "timeout") /\ (linkDead' = linkDead \/ linkDead' = TRUE)
  BY <1>1, <1>4, EndCallEffect DEF StatusOK
<1>5. QED
  BY <1>2, <1>3, <1>4 DEF AfterTimeout

\* request() gives its number back.
LEMMA ReleaseEffect ==
  ASSUME TableOK, ThreadsOK, NEW t \in Threads, Release(t)
  PROVE  /\ TableOK' /\ seq' \in [Threads -> 0..NSeq]
         /\ \A u \in Threads \ {t} : seq'[u] = seq[u]
         /\ \A s \in Seqs \ {seq[t]} : owner'[s] = owner[s] /\ reply'[s] = reply[s]
         /\ seq[t] \in Seqs => owner'[seq[t]] = NoAtt /\ reply'[seq[t]] = NoAtt
<1>1. TableOK'
  BY ConstFacts DEF Release, TableOK
<1>2. seq' \in [Threads -> 0..NSeq]
  BY BridgeAssumption DEF Release, ThreadsOK
<1>3. QED
  BY <1>1, <1>2 DEF Release, ThreadsOK, TableOK

-----------------------------------------------------------------------------
(* Types and the pending table *)

\* A thread that gives its number back and whose attempt is over takes
\* nobody else's entry away.
LEMMA ReleaseKeepsSlots ==
  ASSUME TypeOK, SlotInv, NEW t \in Threads, Holding(t), Release(t),
         AttemptOver(t), nextCall' = nextCall
  PROVE  SlotInv'
<1>1. /\ seq[t] \in Seqs /\ owner[seq[t]] = Cur(t)
      /\ Active(t)
  BY DEF SlotInv, Holding, Active
<1>2. ASSUME NEW u \in Threads, Active(u)'
      PROVE  Active(u) /\ call'[u] = call[u]
  BY <1>1, <1>2 DEF AttemptOver, Others, Active
<1>3. ASSUME NEW u \in Threads, Holding(u)'
      PROVE  seq'[u] \in Seqs /\ owner'[seq'[u]] = Cur(u)'
  <2>1. u # t /\ Holding(u) /\ seq'[u] = seq[u] /\ Cur(u)' = Cur(u)
    BY <1>3, ReleaseEffect DEF AttemptOver, Others, Holding, Cur, TypeOK
  <2>2. seq[u] \in Seqs /\ owner[seq[u]] = Cur(u)
    BY <2>1 DEF SlotInv
  <2>3. seq[u] # seq[t]
    <3>1. call[u] # call[t]
      BY <1>1, <2>1 DEF SlotInv, Active, Holding
    <3>2. QED
      BY <1>1, <2>2, <3>1, CurFacts DEF TypeOK
  <2>4. QED
    BY <2>1, <2>2, <2>3, ReleaseEffect DEF TypeOK
<1>4. QED
  BY <1>2, <1>3 DEF SlotInv

\* Steps that leave the threads and the pending table alone.
LEMMA SlotsUntouched ==
  ASSUME SlotInv, UNCHANGED <<owner, threads, nextCall>>
  PROVE  SlotInv'
BY DEF SlotInv, Holding, Active, Cur, threads

BaseInv == TypeOK /\ SlotInv

LEMMA BaseInit == Init => BaseInv
<1> SUFFICES ASSUME Init PROVE TypeOK /\ SlotInv
  BY DEF BaseInv
<1>1. TableOK /\ ThreadsOK /\ CallsOK /\ StatusOK /\ HistoryOK
  <2>1. /\ 0 \in 0..NSeq /\ 0 \in 0..MaxCalls /\ 0 \in 0..PingTry
        /\ 1 \in 1..(MaxCalls + 1) /\ 0 \in 0..MaxFaults
    BY BridgeAssumption, ConstFacts
  <2>2. TableOK /\ ThreadsOK
    BY <2>1, ConstFacts DEF Init, TableOK, ThreadsOK, PCs, Results
  <2>3. CallsOK /\ StatusOK /\ HistoryOK
    BY <2>1 DEF Init, CallsOK, StatusOK, HistoryOK
  <2>4. QED
    BY <2>2, <2>3
<1>2. ChanOK
  BY BridgeAssumption DEF Init, ChanOK, Channels
<1>3. SlotInv
  BY DEF Init, SlotInv, Holding, Active
<1>4. QED
  BY <1>1, <1>2, <1>3 DEF TypeOK

LEMMA BaseStep == BaseInv /\ [Next]_vars => BaseInv'
<1> SUFFICES ASSUME TypeOK, SlotInv, [Next]_vars PROVE TypeOK' /\ SlotInv'
  BY DEF BaseInv
<1> USE DEF TypeOK
<1>1. ASSUME NEW t \in Threads, NEW c \in Cmds, StartCall(t, c)
      PROVE  TypeOK' /\ SlotInv'
  <2>1. TableOK' /\ StatusOK' /\ ChanOK' /\ HistoryOK'
    BY <1>1 DEF StartCall, TableOK, StatusOK, ChanOK, HistoryOK, table, status
  <2>2. ThreadsOK' /\ CallsOK'
    BY <1>1, BridgeAssumption
       DEF StartCall, ThreadsOK, CallsOK, PCs, Results
  <2>3. SlotInv'
    <3>1. /\ pc' = [pc EXCEPT ![t] = "alloc"] /\ call' = [call EXCEPT ![t] = nextCall]
          /\ nextCall' = nextCall + 1
          /\ try' = try /\ seq' = seq /\ owner' = owner
      BY <1>1 DEF StartCall, table
    <3>2. pc \in [Threads -> PCs] /\ call \in [Threads -> 0..MaxCalls] /\ nextCall \in Nat \ {0}
      BY DEF ThreadsOK, CallsOK
    <3>3. \A u \in Threads : Holding(u)' => u # t /\ Holding(u) /\ Cur(u)' = Cur(u)
      BY <3>1, <3>2 DEF Holding, Cur
    <3>4. \A u \in Threads : Active(u)' => u = t \/ (Active(u) /\ call'[u] = call[u])
      BY <3>1, <3>2 DEF Active
    <3>5. call'[t] = nextCall
      BY <3>1, <3>2
    <3>6. QED
      BY <3>1, <3>2, <3>3, <3>4, <3>5 DEF SlotInv
  <2>4. QED
    BY <2>1, <2>2, <2>3
<1>2. ASSUME NEW t \in Threads, AllocSeq(t) PROVE TypeOK' /\ SlotInv'
  <2>1. PICK s \in Seqs :
          /\ owner[s] = NoAtt /\ lastSeq' = s
          /\ owner' = [owner EXCEPT ![s] = Cur(t)]
          /\ reply' = [reply EXCEPT ![s] = NoAtt]
          /\ woken' = [woken EXCEPT ![s] = FALSE]
          /\ seq' = [seq EXCEPT ![t] = s]
    BY <1>2 DEF AllocSeq, IsNextSeq, FreeSeqs
  <2>2. CallsOK' /\ StatusOK' /\ ChanOK' /\ HistoryOK'
    BY <1>2 DEF AllocSeq, CallsOK, StatusOK, ChanOK, HistoryOK, calls, status
  <2>3. TableOK'
    BY <2>1, ConstFacts, CurFacts DEF TableOK
  <2>4. ThreadsOK'
    BY <1>2, <2>1, ConstFacts DEF AllocSeq, ThreadsOK, PCs
  <2>5. SlotInv'
    <3>1. /\ pc' = [pc EXCEPT ![t] = "write"] /\ pc[t] = "alloc"
          /\ call' = call /\ try' = try /\ nextCall' = nextCall
      BY <1>2 DEF AllocSeq, calls
    <3>2. /\ pc \in [Threads -> PCs] /\ seq \in [Threads -> 0..NSeq]
          /\ owner \in [Seqs -> Attempt]
      BY DEF ThreadsOK, TableOK
    <3>3. \A u \in Threads : Active(u)' <=> Active(u)
      BY <3>1, <3>2 DEF Active
    <3>4. ASSUME NEW u \in Threads, Holding(u)'
          PROVE  seq'[u] \in Seqs /\ owner'[seq'[u]] = Cur(u)'
      <4>1. Cur(u)' = Cur(u)
        BY <3>1 DEF Cur
      <4>2. CASE u = t
        BY <2>1, <3>2, <4>1, <4>2
      <4>3. CASE u # t
        <5>1. Holding(u) /\ seq'[u] = seq[u]
          BY <2>1, <3>1, <3>2, <3>4, <4>3 DEF Holding
        <5>2. seq[u] \in Seqs /\ owner[seq[u]] = Cur(u) /\ Cur(u) # NoAtt
          BY <5>1, CurFacts DEF SlotInv, Holding, Active
        <5>3. QED
          BY <2>1, <3>2, <4>1, <5>1, <5>2
      <4>4. QED
        BY <4>2, <4>3
    <3>5. QED
      BY <3>1, <3>3, <3>4 DEF SlotInv
  <2>6. QED
    BY <2>2, <2>3, <2>4, <2>5
<1>3. ASSUME NEW t \in Threads, AllocFull(t) PROVE TypeOK' /\ SlotInv'
  <2>1. TableOK' /\ CallsOK' /\ ChanOK' /\ HistoryOK'
    <3>1. HistoryOK'
      BY <1>3, CurFacts DEF AllocFull, HistoryOK
    <3>2. QED
      BY <1>3, <3>1 DEF AllocFull, TableOK, CallsOK, ChanOK, table, calls
  <2>2. ThreadsOK' /\ AttemptOver(t) /\ linkDead' \in BOOLEAN
    BY <1>3, AfterTimeoutEffect DEF AllocFull, ThreadsOK
  <2>3. StatusOK'
    BY <1>3, <2>2 DEF AllocFull, StatusOK
  <2>4. SlotInv'
    <3>1. pc[t] = "alloc" /\ seq' = seq /\ owner' = owner /\ nextCall' = nextCall
      BY <1>3 DEF AllocFull, table, calls
    <3>2. \A u \in Threads : Active(u)' => Active(u) /\ call'[u] = call[u]
      BY <2>2, <3>1 DEF AttemptOver, Others, Active
    <3>3. \A u \in Threads : Holding(u)' => Holding(u) /\ Cur(u)' = Cur(u)
      BY <2>2 DEF AttemptOver, Others, Holding, Cur
    <3>4. QED
      BY <3>1, <3>2, <3>3 DEF SlotInv
  <2>5. QED
    BY <2>1, <2>2, <2>3, <2>4
<1>4. ASSUME NEW t \in Threads, Write(t) PROVE TypeOK' /\ SlotInv'
  <2>1. TableOK' /\ CallsOK' /\ StatusOK' /\ HistoryOK'
    BY <1>4 DEF Write, TableOK, CallsOK, StatusOK, HistoryOK, table, calls, status
  <2>2. ThreadsOK'
    BY <1>4 DEF Write, ThreadsOK, PCs
  <2>3. ChanOK'
    <3>1. [seq |-> seq[t], att |-> Cur(t)] \in Frame
      BY <1>4, CurFacts DEF SlotInv, Holding, Write, Frame
    <3>2. QED
      BY <1>4, <3>1 DEF Write, ChanOK, Channels
  <2>4. SlotInv'
    <3>1. /\ pc' = [pc EXCEPT ![t] = "wait"] /\ pc[t] = "write"
          /\ call' = call /\ try' = try /\ seq' = seq /\ owner' = owner
          /\ nextCall' = nextCall
      BY <1>4 DEF Write, table, calls
    <3>2. \A u \in Threads : /\ Holding(u)' <=> Holding(u)
                             /\ Active(u)' <=> Active(u)
                             /\ Cur(u)' = Cur(u)
      BY <3>1 DEF ThreadsOK, Holding, Active, Cur
    <3>3. QED
      BY <3>1, <3>2 DEF SlotInv
  <2>5. QED
    BY <2>1, <2>2, <2>3, <2>4
<1>5. ASSUME NEW t \in Threads, WriteError(t) PROVE TypeOK' /\ SlotInv'
  <2>1. TableOK' /\ seq' \in [Threads -> 0..NSeq]
    BY <1>5, ReleaseEffect DEF WriteError
  <2>2. ThreadsOK' /\ AttemptOver(t)
    <3>1. PICK r \in Results : EndCall(t, r)
      BY <1>5 DEF WriteError, Results
    <3>2. QED
      BY <2>1, <3>1, EndCallEffect
  <2>3. CallsOK' /\ StatusOK' /\ ChanOK'
    BY <1>5 DEF WriteError, CallsOK, StatusOK, ChanOK, calls, Pinging
  <2>4. HistoryOK'
    BY <1>5, CurFacts DEF WriteError, HistoryOK
  <2>5. SlotInv'
    BY <1>5, <2>2, ReleaseKeepsSlots DEF WriteError, Holding, calls
  <2>6. QED
    BY <2>1, <2>2, <2>3, <2>4, <2>5
<1>6. ASSUME NEW t \in Threads, TakeReply(t) PROVE TypeOK' /\ SlotInv'
  <2>1. TableOK' /\ seq' \in [Threads -> 0..NSeq]
    BY <1>6, ReleaseEffect DEF TakeReply
  <2>2. ThreadsOK' /\ AttemptOver(t)
    <3>1. PICK r \in Results : EndCall(t, r)
      BY <1>6 DEF TakeReply, Results
    <3>2. QED
      BY <2>1, <3>1, EndCallEffect
  <2>3. CallsOK' /\ StatusOK' /\ ChanOK'
    BY <1>6 DEF TakeReply, CallsOK, StatusOK, ChanOK, calls, status
  <2>4. HistoryOK'
    BY <1>6, CurFacts DEF TakeReply, HistoryOK
  <2>5. SlotInv'
    BY <1>6, <2>2, ReleaseKeepsSlots DEF TakeReply, Holding, calls
  <2>6. QED
    BY <2>1, <2>2, <2>3, <2>4, <2>5
<1>7. ASSUME NEW t \in Threads, GiveUp(t) PROVE TypeOK' /\ SlotInv'
  <2>1. TableOK' /\ seq' \in [Threads -> 0..NSeq]
    BY <1>7, ReleaseEffect DEF GiveUp
  <2>2. ThreadsOK' /\ AttemptOver(t) /\ linkDead' \in BOOLEAN
    BY <1>7, <2>1, AfterTimeoutEffect DEF GiveUp
  <2>3. CallsOK' /\ StatusOK' /\ ChanOK'
    BY <1>7, <2>2 DEF GiveUp, CallsOK, StatusOK, ChanOK, calls
  <2>4. HistoryOK'
    BY <1>7, CurFacts DEF GiveUp, HistoryOK
  <2>5. SlotInv'
    BY <1>7, <2>2, ReleaseKeepsSlots DEF GiveUp, Holding, calls
  <2>6. QED
    BY <2>1, <2>2, <2>3, <2>4, <2>5
<1>8. CASE ReadFrame
  <2>1. ThreadsOK' /\ CallsOK' /\ StatusOK' /\ HistoryOK'
    BY <1>8 DEF ReadFrame, ThreadsOK, CallsOK, StatusOK, HistoryOK, threads, calls, status
  <2>2. Head(chan["up"]) \in Frame /\ Tail(chan["up"]) \in Seq(Frame)
    BY <1>8 DEF ReadFrame, ChanOK, Channels
  <2>3. TableOK'
    BY <1>8, <2>2 DEF ReadFrame, TableOK, Frame
  <2>4. ChanOK'
    BY <1>8, <2>2 DEF ReadFrame, ChanOK, Channels
  <2>5. SlotInv'
    BY <1>8, SlotsUntouched DEF ReadFrame, calls
  <2>6. QED
    BY <2>1, <2>3, <2>4, <2>5
<1>9. CASE ReaderExit
  <2>1. /\ TableOK' /\ ThreadsOK' /\ CallsOK' /\ StatusOK'
        /\ ChanOK' /\ HistoryOK'
    BY <1>9 DEF ReaderExit, TableOK, ThreadsOK, CallsOK, StatusOK, ChanOK,
                HistoryOK, threads, calls
  <2>2. SlotInv'
    BY <1>9, SlotsUntouched DEF ReaderExit, calls
  <2>3. QED
    BY <2>1, <2>2
<1>10. CASE RxInline \/ SlowRun
  <2>1. TableOK' /\ ThreadsOK' /\ CallsOK' /\ StatusOK'
    BY <1>10 DEF RxInline, SlowRun, TableOK, ThreadsOK, CallsOK, StatusOK, table,
                 threads, calls, status
  <2>2. PICK c \in {"down", "slow"} :
          /\ chan[c] # <<>>
          /\ ran' = [ran EXCEPT ![Head(chan[c]).att] = @ + 1]
          /\ chan' = [chan EXCEPT ![c] = Tail(@), !["up"] = SendUp(Head(chan[c]))]
          /\ UNCHANGED <<faults, orphans>>
    BY <1>10 DEF RxInline, SlowRun
  <2>3. chan[c] \in Seq(Frame) /\ Head(chan[c]) \in Frame /\ Tail(chan[c]) \in Seq(Frame)
    BY <2>2 DEF ChanOK, Channels
  <2>4. SendUp(Head(chan[c])) \in Seq(Frame)
    BY <2>3 DEF SendUp, ChanOK, Channels
  <2>5. ChanOK'
    <3>1. chan' \in [Channels -> Seq(Frame)]
      BY <2>2, <2>3, <2>4 DEF ChanOK, Channels
    <3>2. chan'["slow"] = chan["slow"] \/ (c = "slow" /\ chan'["slow"] = Tail(chan["slow"]))
      BY <2>2 DEF ChanOK, Channels
    <3>3. chan["slow"] \in Seq(Frame)
      BY DEF ChanOK, Channels
    <3>4. c = "slow" => Len(Tail(chan["slow"])) = Len(chan["slow"]) - 1
      BY <2>2, <3>3
    <3>5. Len(chan["slow"]) \in Nat /\ SlowDepth \in Nat /\ Len(chan["slow"]) <= SlowDepth
      BY <3>3, BridgeAssumption DEF ChanOK
    <3>6. Len(chan'["slow"]) <= SlowDepth
      <4>1. CASE chan'["slow"] = chan["slow"]
        BY <3>5, <4>1
      <4>2. CASE c = "slow" /\ chan'["slow"] = Tail(chan["slow"])
        <5>1. Len(chan'["slow"]) = Len(chan["slow"]) - 1
          BY <3>4, <4>2
        <5>2. QED
          BY <3>5, <5>1
      <4>3. QED
        BY <3>2, <4>1, <4>2
    <3>7. QED
      BY <3>1, <3>6 DEF ChanOK
  <2>6. HistoryOK'
    BY <2>2, <2>3 DEF HistoryOK, Frame
  <2>7. SlotInv'
    BY <1>10, SlotsUntouched DEF RxInline, SlowRun, table, calls
  <2>8. QED
    BY <2>1, <2>5, <2>6, <2>7
<1>11. CASE RxEnqueue
  <2>1. TableOK' /\ ThreadsOK' /\ CallsOK' /\ StatusOK' /\ HistoryOK'
    BY <1>11 DEF RxEnqueue, TableOK, ThreadsOK, CallsOK, StatusOK, HistoryOK, table,
                 threads, calls, status
  <2>2. Head(chan["down"]) \in Frame /\ Tail(chan["down"]) \in Seq(Frame)
    BY <1>11 DEF RxEnqueue, ChanOK, Channels
  <2>3. SendUp(Head(chan["down"])) \in Seq(Frame)
    BY <2>2 DEF SendUp, ChanOK, Channels
  <2>4. ChanOK'
    <3>1. CASE Len(chan["slow"]) < SlowDepth
      <4>1. chan' = [chan EXCEPT !["down"] = Tail(@), !["slow"] = Append(@, Head(chan["down"]))]
        BY <1>11, <3>1 DEF RxEnqueue
      <4>2. /\ chan["slow"] \in Seq(Frame)
            /\ chan'["slow"] = Append(chan["slow"], Head(chan["down"]))
        BY <4>1 DEF ChanOK, Channels
      <4>3. Len(chan'["slow"]) = Len(chan["slow"]) + 1
        BY <2>2, <4>2
      <4>4. Len(chan'["slow"]) <= SlowDepth
        BY <3>1, <4>2, <4>3, BridgeAssumption
      <4>5. chan' \in [Channels -> Seq(Frame)]
        <5>1. Append(chan["slow"], Head(chan["down"])) \in Seq(Frame)
          BY <2>2, <4>2
        <5>2. QED
          BY <2>2, <4>1, <5>1 DEF ChanOK, Channels
      <4>6. QED
        BY <4>4, <4>5 DEF ChanOK
    <3>2. CASE ~(Len(chan["slow"]) < SlowDepth)
      <4>1. chan' = [chan EXCEPT !["down"] = Tail(@), !["up"] = SendUp(Head(chan["down"]))]
        BY <1>11, <3>2 DEF RxEnqueue
      <4>2. QED
        BY <2>2, <2>3, <4>1 DEF ChanOK, Channels
    <3>3. QED
      BY <3>1, <3>2
  <2>5. SlotInv'
    BY <1>11, SlotsUntouched DEF RxEnqueue, table, calls
  <2>6. QED
    BY <2>1, <2>4, <2>5
<1>12. CASE CloseBegin \/ LinkDown \/ BoardReset
  <2>1. TableOK' /\ ThreadsOK' /\ CallsOK' /\ StatusOK'
    BY <1>12 DEF CloseBegin, LinkDown, BoardReset, TableOK, ThreadsOK, CallsOK,
                 StatusOK, table, threads, calls, status
  <2>2. HistoryOK'
    BY <1>12, BridgeAssumption
       DEF CloseBegin, LinkDown, BoardReset, Fault, HistoryOK
  <2>3. ChanOK'
    <3>1. <<>> \in Seq(Frame) /\ Len(<<>>) <= SlowDepth
      BY BridgeAssumption
    <3>2. CASE chan' = chan
      BY <3>2 DEF ChanOK
    <3>3. CASE chan' = [chan EXCEPT !["down"] = <<>>, !["up"] = <<>>]
      BY <3>1, <3>3 DEF ChanOK, Channels
    <3>4. CASE chan' = [chan EXCEPT !["down"] = <<>>, !["slow"] = <<>>]
      BY <3>1, <3>4 DEF ChanOK, Channels
    <3>5. QED
      BY <1>12, <3>2, <3>3, <3>4 DEF CloseBegin, LinkDown, BoardReset
  <2>4. SlotInv'
    BY <1>12, SlotsUntouched DEF CloseBegin, LinkDown, BoardReset, table, calls
  <2>5. QED
    BY <2>1, <2>2, <2>3, <2>4
<1>13. ASSUME NEW c \in Channels, LoseFrame(c) PROVE TypeOK' /\ SlotInv'
  <2>1. TableOK' /\ ThreadsOK' /\ CallsOK' /\ StatusOK' /\ HistoryOK'
    BY <1>13, BridgeAssumption
       DEF LoseFrame, Fault, TableOK, ThreadsOK, CallsOK, StatusOK, HistoryOK, table,
           threads, calls, status
  <2>2. ChanOK'
    BY <1>13 DEF LoseFrame, ChanOK, Channels
  <2>3. SlotInv'
    BY <1>13, SlotsUntouched DEF LoseFrame, table, calls
  <2>4. QED
    BY <2>1, <2>2, <2>3
<1>14. CASE UNCHANGED vars
  BY <1>14, SlotsUntouched
     DEF vars, TableOK, ThreadsOK, CallsOK, StatusOK, ChanOK, HistoryOK, table, threads,
         calls, status
<1>15. QED
  <2> HIDE DEF TypeOK
  <2> QED
    BY <1>1, <1>2, <1>3, <1>4, <1>5, <1>6, <1>7, <1>8, <1>9, <1>10, <1>11, <1>12,
       <1>13, <1>14 DEF Next, ThreadStep, Done

\* Every variable keeps its type, and the firmware's slow queue its bound.
THEOREM TypeCorrect == Spec => []TypeOK
<1>1. BaseInv => TypeOK
  BY DEF BaseInv
<1>2. QED
  BY BaseInit, BaseStep, <1>1, PTL DEF Spec

\* A request keeps its entry of the pending table until it removes it,
\* however many threads allocate and release numbers meanwhile.
THEOREM SlotHeldProved == Spec => []SlotHeld
<1>1. BaseInv => SlotHeld
  BY DEF BaseInv, SlotInv, SlotHeld
<1>2. QED
  BY BaseInit, BaseStep, <1>1, PTL DEF Spec

-----------------------------------------------------------------------------
(* Frames on their way: what the steps of the channels do to them *)

Drop(C, c)    == [C EXCEPT ![c] = Tail(@)]
Push(C, c, f) == [C EXCEPT ![c] = Append(@, f)]

\* The first frame of a channel is taken off it.
LEMMA DropEffect ==
  ASSUME NEW C \in [Channels -> Seq(Frame)], NEW c \in Channels, C[c] # <<>>, Unique(C)
  PROVE  /\ Drop(C, c) \in [Channels -> Seq(Frame)]
         /\ Unique(Drop(C, c))
         /\ Head(C[c]) \in Frame /\ Has(C, c, Head(C[c]))
         /\ \A d \in Channels, f \in Frame : Has(Drop(C, c), d, f) =>
              Has(C, d, f) /\ f.att # Head(C[c]).att
<1>1. /\ C[c] \in Seq(Frame) /\ Len(C[c]) \in Nat \ {0}
      /\ Head(C[c]) = C[c][1] /\ Head(C[c]) \in Frame
      /\ Tail(C[c]) \in Seq(Frame) /\ Len(Tail(C[c])) = Len(C[c]) - 1
      /\ \A i \in 1..Len(Tail(C[c])) : Tail(C[c])[i] = C[c][i + 1]
  OBVIOUS
<1>2. /\ Drop(C, c)[c] = Tail(C[c])
      /\ \A d \in Channels \ {c} : Drop(C, c)[d] = C[d]
  BY DEF Drop
<1>3. ASSUME NEW d \in Channels, NEW i \in At(Drop(C, c), d)
      PROVE  LET k == IF d = c THEN i + 1 ELSE i
             IN  k \in At(C, d) /\ Drop(C, c)[d][i] = C[d][k] /\ (d = c => k # 1)
  <2>1. CASE d = c
    <3>1. i \in 1..(Len(C[c]) - 1) /\ i + 1 \in 1..Len(C[c]) /\ i + 1 # 1
      BY <1>1, <1>2, <1>3, <2>1 DEF At
    <3>2. QED
      BY <1>1, <1>2, <1>3, <2>1, <3>1 DEF At
  <2>2. CASE d # c
    BY <1>2, <1>3, <2>2 DEF At
  <2>3. QED
    BY <2>1, <2>2
<1>4. Unique(Drop(C, c))
  <2> SUFFICES ASSUME NEW d \in Channels, NEW e \in Channels,
                      NEW i \in At(Drop(C, c), d), NEW j \in At(Drop(C, c), e),
                      Drop(C, c)[d][i].att = Drop(C, c)[e][j].att
               PROVE  d = e /\ i = j
    BY DEF Unique
  <2> DEFINE k == IF d = c THEN i + 1 ELSE i
             l == IF e = c THEN j + 1 ELSE j
  <2>1. k \in At(C, d) /\ l \in At(C, e) /\ C[d][k].att = C[e][l].att
    BY <1>3
  <2>2. d = e /\ k = l
    BY <2>1 DEF Unique
  <2>3. i \in Int /\ j \in Int
    BY DEF At
  <2>4. QED
    BY <2>2, <2>3
<1>5. ASSUME NEW d \in Channels, NEW f \in Frame, Has(Drop(C, c), d, f)
      PROVE  Has(C, d, f) /\ f.att # Head(C[c]).att
  <2>1. PICK i \in At(Drop(C, c), d) : Drop(C, c)[d][i] = f
    BY <1>5 DEF Has
  <2> DEFINE k == IF d = c THEN i + 1 ELSE i
  <2>2. k \in At(C, d) /\ C[d][k] = f /\ (d = c => k # 1)
    BY <1>3, <2>1
  <2>3. 1 \in At(C, c)
    BY <1>1 DEF At
  <2>4. QED
    BY <1>1, <2>2, <2>3 DEF Unique, Has
<1>6. Has(C, c, Head(C[c]))
  BY <1>1 DEF Has, At
<1>7. QED
  BY <1>1, <1>4, <1>5, <1>6 DEF Drop

\* A frame of an attempt that has none is appended.
LEMMA PushEffect ==
  ASSUME NEW C \in [Channels -> Seq(Frame)], NEW c \in Channels, NEW f \in Frame, Unique(C),
         \A d \in Channels, g \in Frame : Has(C, d, g) => g.att # f.att
  PROVE  /\ Unique(Push(C, c, f))
         /\ \A d \in Channels, g \in Frame : Has(Push(C, c, f), d, g) =>
              Has(C, d, g) \/ (d = c /\ g = f)
<1>1. /\ C[c] \in Seq(Frame) /\ Len(C[c]) \in Nat
      /\ Len(Append(C[c], f)) = Len(C[c]) + 1
      /\ \A i \in 1..Len(C[c]) : Append(C[c], f)[i] = C[c][i]
      /\ Append(C[c], f)[Len(C[c]) + 1] = f
  OBVIOUS
<1>2. /\ Push(C, c, f)[c] = Append(C[c], f)
      /\ \A d \in Channels \ {c} : Push(C, c, f)[d] = C[d]
  BY DEF Push
<1>3. ASSUME NEW d \in Channels, NEW i \in At(Push(C, c, f), d)
      PROVE  \/ i \in At(C, d) /\ Push(C, c, f)[d][i] = C[d][i]
             \/ d = c /\ i = Len(C[c]) + 1 /\ Push(C, c, f)[d][i] = f
  <2>1. CASE d = c
    <3>1. i \in 1..(Len(C[c]) + 1)
      BY <1>1, <1>2, <1>3, <2>1 DEF At
    <3>2. i \in 1..Len(C[c]) \/ i = Len(C[c]) + 1
      BY <1>1, <3>1
    <3>3. QED
      BY <1>1, <1>2, <2>1, <3>2 DEF At
  <2>2. CASE d # c
    BY <1>2, <1>3, <2>2 DEF At
  <2>3. QED
    BY <2>1, <2>2
<1>4. \A d \in Channels : \A i \in At(C, d) : C[d][i] \in Frame /\ C[d][i].att # f.att
  <2> SUFFICES ASSUME NEW d \in Channels, NEW i \in At(C, d)
               PROVE  C[d][i] \in Frame /\ C[d][i].att # f.att
    OBVIOUS
  <2>1. C[d] \in Seq(Frame) /\ i \in 1..Len(C[d])
    BY DEF At
  <2>2. C[d][i] \in Frame
    BY <2>1
  <2>3. QED
    BY <2>2 DEF Has
<1>5. Unique(Push(C, c, f))
  <2> SUFFICES ASSUME NEW d \in Channels, NEW e \in Channels,
                      NEW i \in At(Push(C, c, f), d), NEW j \in At(Push(C, c, f), e),
                      Push(C, c, f)[d][i].att = Push(C, c, f)[e][j].att
               PROVE  d = e /\ i = j
    BY DEF Unique
  <2>1. \/ i \in At(C, d) /\ Push(C, c, f)[d][i] = C[d][i]
        \/ d = c /\ i = Len(C[c]) + 1 /\ Push(C, c, f)[d][i] = f
    BY <1>3
  <2>2. \/ j \in At(C, e) /\ Push(C, c, f)[e][j] = C[e][j]
        \/ e = c /\ j = Len(C[c]) + 1 /\ Push(C, c, f)[e][j] = f
    BY <1>3
  <2>3. QED
    BY <1>4, <2>1, <2>2 DEF Unique
<1>6. ASSUME NEW d \in Channels, NEW g \in Frame, Has(Push(C, c, f), d, g)
      PROVE  Has(C, d, g) \/ (d = c /\ g = f)
  BY <1>3, <1>6 DEF Has
<1>7. QED
  BY <1>5, <1>6

\* Channels are emptied.
LEMMA ClearEffect ==
  ASSUME NEW C, NEW D, Unique(C), \A c \in Channels : D[c] \in {C[c], <<>>}
  PROVE  Unique(D) /\ \A c \in Channels, f \in Frame : Has(D, c, f) => Has(C, c, f)
<1>1. \A c \in Channels : \A i \in At(D, c) : i \in At(C, c) /\ D[c][i] = C[c][i]
  <2> SUFFICES ASSUME NEW c \in Channels, NEW i \in At(D, c)
               PROVE  i \in At(C, c) /\ D[c][i] = C[c][i]
    OBVIOUS
  <2>1. D[c] # <<>>
    <3>1. SUFFICES ASSUME D[c] = <<>> PROVE FALSE
      OBVIOUS
    <3>2. At(D, c) = {}
      BY <3>1 DEF At
    <3>3. QED
      BY <3>2
  <2>2. D[c] = C[c]
    BY <2>1
  <2>3. QED
    BY <2>2 DEF At
<1>2. QED
  BY <1>1 DEF Unique, Has

\* The head of a channel goes to another one, or nowhere.
Moved(C, D, c) ==
  /\ C[c] # <<>>
  /\ \/ D = Drop(C, c)
     \/ \E d \in Channels : D = Push(Drop(C, c), d, Head(C[c]))

LEMMA MovedEffect ==
  ASSUME NEW C \in [Channels -> Seq(Frame)], NEW D, NEW c \in Channels, Unique(C), Moved(C, D, c)
  PROVE  /\ Unique(D)
         /\ Has(C, c, Head(C[c])) /\ Head(C[c]) \in Frame
         /\ \A d \in Channels, f \in Frame : Has(D, d, f) =>
              (Has(C, d, f) /\ f.att # Head(C[c]).att) \/ f = Head(C[c])
         /\ \A d \in Channels, f \in Frame : Has(D, d, f) => \E e \in Channels : Has(C, e, f)
<1> DEFINE M == Drop(C, c)
           h == Head(C[c])
<1>1. /\ M \in [Channels -> Seq(Frame)] /\ Unique(M) /\ h \in Frame /\ Has(C, c, h)
      /\ \A d \in Channels, f \in Frame : Has(M, d, f) => Has(C, d, f) /\ f.att # h.att
  BY DropEffect DEF Moved
<1> HIDE DEF M, h
<1>2. CASE D = M
  BY <1>1, <1>2 DEF h
<1>3. ASSUME NEW d \in Channels, D = Push(M, d, h)
      PROVE  Unique(D) /\ \A e \in Channels, g \in Frame : Has(D, e, g) =>
                            Has(M, e, g) \/ (e = d /\ g = h)
  BY <1>1, <1>3, PushEffect
<1>4. QED
  BY <1>1, <1>2, <1>3 DEF Moved, M, h

-----------------------------------------------------------------------------
(* Attempts: a thread never goes back to one it has left *)

\* Numbers of calls and attempts only grow.
Forward ==
  /\ nextCall' \in Nat /\ nextCall <= nextCall'
  /\ \A n \in 0..MaxCalls : n < nextCall => cmdOf'[n] = cmdOf[n]
  /\ \A u \in Threads : Active(u)' =>
       \/ call'[u] = nextCall
       \/ /\ Active(u) /\ call'[u] = call[u]
          /\ \/ try'[u] > try[u]
             \/ try'[u] = try[u] /\ (pc[u] = "wait" => pc'[u] = "wait")

LEMMA ForwardKeeps ==
  ASSUME TypeOK, ThreadsOK', Forward, NEW a \in Attempt, Sent(a)
  PROVE  Sent(a)' /\ (Allowed(a) => Allowed(a)')
<1>1. /\ a.call \in 0..MaxCalls /\ a.try \in Nat /\ nextCall \in Nat
      /\ \A u \in Threads : try[u] \in Nat /\ try'[u] \in Nat
  BY BridgeAssumption, ConstFacts DEF TypeOK, Attempt, CallsOK, ThreadsOK
<1>2. ASSUME NEW u \in Threads, Active(u)', call'[u] = a.call
      PROVE  a.try < try'[u] \/ (a.try = try'[u] /\ pc'[u] = "wait")
  <2>1. Active(u) /\ call[u] = a.call
    BY <1>1, <1>2 DEF Forward, Sent
  <2>2. a.try < try[u] \/ (a.try = try[u] /\ pc[u] = "wait")
    BY <2>1 DEF Sent
  <2>3. \/ try'[u] > try[u]
        \/ try'[u] = try[u] /\ (pc[u] = "wait" => pc'[u] = "wait")
    BY <1>1, <1>2 DEF Forward, Sent
  <2>4. CASE try'[u] = try[u]
    BY <2>2, <2>3, <2>4
  <2>5. CASE try'[u] > try[u]
    BY <1>1, <2>2, <2>5
  <2>6. QED
    BY <2>3, <2>4, <2>5
<1>3. a.call < nextCall' /\ cmdOf'[a.call] = cmdOf[a.call]
  BY <1>1 DEF Forward, Sent
<1>4. QED
  BY <1>2, <1>3 DEF Sent, Allowed

\* A thread whose attempt is over has left it for good.
LEMMA OverIsForward ==
  ASSUME TypeOK, NEW t \in Threads, Active(t), AttemptOver(t), UNCHANGED calls
  PROVE  Forward /\ (TryInv => TryInv')
<1>1. nextCall' = nextCall /\ cmdOf' = cmdOf /\ nextCall \in Nat
  BY DEF calls, TypeOK, CallsOK
<1>2. ASSUME NEW u \in Threads, u # t
      PROVE  pc'[u] = pc[u] /\ call'[u] = call[u] /\ try'[u] = try[u]
  BY <1>2 DEF AttemptOver, Others
<1>3. Forward
  BY <1>1, <1>2 DEF AttemptOver, Active, Forward
<1>4. ASSUME TryInv, NEW u \in Threads
      PROVE  (Active(u)' => Allowed(Cur(u))') /\ (~Active(u)' => try'[u] = 0)
  <2>1. CASE u = t
    <3>1. CASE pc'[t] = "idle" /\ try'[t] = 0
      BY <2>1, <3>1 DEF Active
    <3>2. CASE /\ pc'[t] = "alloc" /\ call'[t] = call[t]
               /\ try'[t] = PingTry \/ try'[t] <= Retries(Cmd(t))
      BY <1>1, <2>1, <3>2, ConstFacts DEF Active, Allowed, Cur, Cmd
    <3>3. QED
      BY <3>1, <3>2 DEF AttemptOver
  <2>2. CASE u # t
    BY <1>1, <1>2, <1>4, <2>2 DEF TryInv, Active, Allowed, Cur
  <2>3. QED
    BY <2>1, <2>2
<1>5. QED
  BY <1>3, <1>4 DEF TryInv

LEMMA QuietIsForward ==
  ASSUME TypeOK, UNCHANGED <<pc, call, try, nextCall, cmdOf>>
  PROVE  Forward /\ (TryInv => TryInv')
<1>1. nextCall \in Nat
  BY DEF TypeOK, CallsOK
<1>2. Forward
  BY <1>1 DEF Forward, Active
<1>3. TryInv => TryInv'
  BY DEF TryInv, Active, Allowed, Cur
<1>4. QED
  BY <1>2, <1>3

\* The steps that end an attempt.
LEMMA OverStep ==
  ASSUME TypeOK, SlotInv, NEW t \in Threads,
         AllocFull(t) \/ WriteError(t) \/ TakeReply(t) \/ GiveUp(t)
  PROVE  Active(t) /\ AttemptOver(t) /\ UNCHANGED <<calls, chan, ran>>
<1>1. Active(t) /\ UNCHANGED <<calls, chan, ran>>
  BY DEF AllocFull, WriteError, TakeReply, GiveUp, Active
<1>2. seq' \in [Threads -> 0..NSeq]
  <2>1. CASE seq' = seq
    BY <2>1 DEF TypeOK, ThreadsOK
  <2>2. CASE Release(t)
    BY <2>2, ReleaseEffect DEF TypeOK
  <2>3. seq' = seq \/ Release(t)
    BY DEF AllocFull, WriteError, TakeReply, GiveUp
  <2>4. QED
    BY <2>1, <2>2, <2>3
<1>3. ASSUME AfterTimeout(t) PROVE AttemptOver(t)
  BY <1>2, <1>3, AfterTimeoutEffect DEF TypeOK
<1>4. ASSUME NEW r \in Results, EndCall(t, r) PROVE AttemptOver(t)
  BY <1>2, <1>4, EndCallEffect DEF TypeOK
<1>5. AfterTimeout(t) \/ \E r \in Results : EndCall(t, r)
  <2>1. {"ok", "timeout", "oserror"} \subseteq Results
    BY DEF Results
  <2>2. QED
    BY <2>1 DEF AllocFull, WriteError, TakeReply, GiveUp
<1>6. QED
  BY <1>1, <1>3, <1>4, <1>5

\* The steps that leave threads and calls where they are.
QuietStep ==
  \/ ReadFrame \/ ReaderExit \/ RxInline \/ RxEnqueue \/ SlowRun \/ CloseBegin
  \/ LinkDown \/ BoardReset \/ \E c \in Channels : LoseFrame(c)
  \/ UNCHANGED vars

LEMMA ForwardStep == BaseInv /\ TryInv /\ [Next]_vars => Forward /\ TryInv'
<1> SUFFICES ASSUME TypeOK, SlotInv, TryInv, [Next]_vars PROVE Forward /\ TryInv'
  BY DEF BaseInv
<1>1. ASSUME NEW t \in Threads, NEW c \in Cmds, StartCall(t, c) PROVE Forward /\ TryInv'
  <2>1. /\ pc[t] = "idle" /\ pc' = [pc EXCEPT ![t] = "alloc"]
        /\ call' = [call EXCEPT ![t] = nextCall] /\ try' = try
        /\ cmdOf' = [cmdOf EXCEPT ![nextCall] = c]
        /\ nextCall' = nextCall + 1 /\ nextCall <= MaxCalls
    BY <1>1 DEF StartCall
  <2>2. /\ pc \in [Threads -> PCs] /\ call \in [Threads -> 0..MaxCalls]
        /\ nextCall \in Nat \ {0} /\ cmdOf \in [0..MaxCalls -> Cmds \cup {PingCmd}]
        /\ nextCall \in 0..MaxCalls
    BY <2>1, BridgeAssumption DEF TypeOK, ThreadsOK, CallsOK
  <2>3. \A u \in Threads \ {t} : /\ (Active(u)' <=> Active(u)) /\ pc'[u] = pc[u]
                                 /\ call'[u] = call[u] /\ try'[u] = try[u]
    BY <2>1, <2>2 DEF Active
  <2>4. call'[t] = nextCall /\ Active(t)' /\ try'[t] = 0 /\ try[t] = 0
    BY <2>1, <2>2 DEF TryInv, Active
  <2>5. \A n \in 0..MaxCalls : n # nextCall => cmdOf'[n] = cmdOf[n]
    BY <2>1, <2>2
  <2>6. Forward
    BY <2>1, <2>2, <2>3, <2>4, <2>5 DEF Forward
  <2>7. ASSUME NEW u \in Threads
        PROVE  (Active(u)' => Allowed(Cur(u))') /\ (~Active(u)' => try'[u] = 0)
    <3>1. CASE u = t
      <4>1. 0 <= MayRepeat(cmdOf'[nextCall])
        BY ConstFacts
      <4>2. QED
        BY <2>4, <3>1, <4>1 DEF Allowed, Cur
    <3>2. CASE u # t
      <4>1. CASE Active(u)
        <5>1. call[u] < nextCall /\ call[u] \in 0..MaxCalls
          BY <2>2, <4>1 DEF SlotInv
        <5>2. cmdOf'[call[u]] = cmdOf[call[u]]
          BY <2>2, <2>5, <5>1
        <5>3. QED
          BY <2>3, <3>2, <4>1, <5>2 DEF TryInv, Allowed, Cur
      <4>2. CASE ~Active(u)
        BY <2>3, <3>2, <4>2 DEF TryInv
      <4>3. QED
        BY <4>1, <4>2
    <3>3. QED
      BY <3>1, <3>2
  <2>8. QED
    BY <2>6, <2>7 DEF TryInv
<1>2. ASSUME NEW t \in Threads, AllocSeq(t) \/ Write(t) PROVE Forward /\ TryInv'
  <2>1. /\ pc[t] \in {"alloc", "write"}
        /\ pc' = [pc EXCEPT ![t] = "write"] \/ pc' = [pc EXCEPT ![t] = "wait"]
        /\ UNCHANGED <<call, try, nextCall, cmdOf>>
    BY <1>2 DEF AllocSeq, Write, calls
  <2>2. \A u \in Threads : /\ (Active(u)' <=> Active(u))
                           /\ (pc[u] = "wait" => pc'[u] = "wait")
    BY <2>1 DEF Active, TypeOK, ThreadsOK
  <2>3. nextCall \in Nat
    BY DEF TypeOK, CallsOK
  <2>4. Forward
    BY <2>1, <2>2, <2>3 DEF Forward
  <2>5. TryInv'
    BY <2>1, <2>2 DEF TryInv, Allowed, Cur
  <2>6. QED
    BY <2>4, <2>5
<1>3. ASSUME NEW t \in Threads, AllocFull(t) \/ WriteError(t) \/ TakeReply(t) \/ GiveUp(t)
      PROVE  Forward /\ TryInv'
  BY <1>3, OverStep, OverIsForward
<1>4. CASE QuietStep
  <2>1. UNCHANGED <<pc, call, try, nextCall, cmdOf>>
    BY <1>4 DEF QuietStep, ReadFrame, ReaderExit, RxInline, RxEnqueue, SlowRun, CloseBegin,
                LinkDown, BoardReset, LoseFrame, vars, threads, calls
  <2>2. QED
    BY <2>1, QuietIsForward
<1>5. QED
  <2> HIDE DEF TypeOK
  <2> QED
    BY <1>1, <1>2, <1>3, <1>4 DEF Next, ThreadStep, QuietStep, Done


-----------------------------------------------------------------------------
(* Executions *)

\* Writing is what makes an attempt sent.
LEMMA WriteSends ==
  ASSUME TypeOK, SlotInv, SlotInv', TryInv', NEW t \in Threads, Write(t)
  PROVE  \E f \in Frame :
           /\ f = [seq |-> seq[t], att |-> Cur(t)]
           /\ seq[t] \in Seqs /\ owner[seq[t]] = f.att /\ f.seq = seq[t]
           /\ ~Sent(f.att) /\ Sent(f.att)' /\ Allowed(f.att)'
<1>1. /\ pc[t] = "write" /\ pc' = [pc EXCEPT ![t] = "wait"]
      /\ call' = call /\ try' = try /\ nextCall' = nextCall
  BY DEF Write, calls
<1>2. pc'[t] = "wait" /\ Active(t) /\ Active(t)' /\ Holding(t)
  BY <1>1 DEF TypeOK, ThreadsOK, Active, Holding
<1>3. /\ Cur(t) \in Attempt /\ Cur(t).call = call[t] /\ Cur(t).try = try[t]
      /\ Cur(t)' = Cur(t)
  BY <1>1, CurFacts DEF TypeOK, Cur
<1>4. seq[t] \in Seqs /\ call[t] # 0 /\ call[t] < nextCall
  BY <1>2 DEF SlotInv
<1>5. try[t] \in Nat
  BY ConstFacts DEF TypeOK, ThreadsOK
<1>6. ~Sent(Cur(t))
  <2>1. ~(try[t] < try[t])
    BY <1>5
  <2>2. QED
    BY <1>1, <1>2, <1>3, <2>1 DEF Sent
<1>7. Sent(Cur(t))'
  <2>1. \A u \in Threads : Active(u)' /\ call'[u] = call[t] => u = t
    BY <1>1, <1>2 DEF SlotInv
  <2>2. QED
    BY <1>1, <1>2, <1>3, <1>4, <2>1 DEF Sent
<1>8. Allowed(Cur(t))'
  BY <1>2 DEF TryInv
<1>9. PICK f \in Frame : f = [seq |-> seq[t], att |-> Cur(t)]
  BY <1>3, <1>4 DEF Frame
<1>10. f.att = Cur(t) /\ f.seq = seq[t] /\ f.att = Cur(t)'
  BY <1>3, <1>9
<1>11. Sent(f.att)' /\ Allowed(f.att)'
  BY <1>7, <1>8, <1>10 DEF Sent, Allowed
<1>12. owner[seq[t]] = Cur(t)
  BY <1>2 DEF SlotInv
<1>13. QED
  BY <1>4, <1>6, <1>9, <1>10, <1>11, <1>12

\* A step that puts no new attempt on its way.
LEMMA FramesKept ==
  ASSUME TypeOK, ThreadsOK', Forward, FrameInv, Unique(chan'),
         \A c \in Channels, f \in Frame : Has(chan', c, f) => \E d \in Channels : Has(chan, d, f),
         \A c \in {"down", "slow"}, f \in Frame : Has(chan', c, f) => ran'[f.att] = 0,
         \A a \in Attempt : ran'[a] # 0 => ran'[a] = 1 /\ Sent(a) /\ Allowed(a)
  PROVE  FrameInv'
<1>1. \A c \in Channels, f \in Frame : Has(chan', c, f) => Sent(f.att)' /\ Allowed(f.att)'
  BY ForwardKeeps DEF FrameInv, Frame
<1>2. \A a \in Attempt : ran'[a] # 0 => ran'[a] = 1 /\ Sent(a)' /\ Allowed(a)'
  BY ForwardKeeps
<1>3. QED
  BY <1>1, <1>2 DEF FrameInv

LEMMA FramesUntouched ==
  ASSUME TypeOK, ThreadsOK', Forward, FrameInv, chan' = chan, ran' = ran
  PROVE  FrameInv'
<1>1. /\ Unique(chan')
      /\ \A c \in Channels, f \in Frame : Has(chan', c, f) => \E d \in Channels : Has(chan, d, f)
  BY DEF FrameInv
<1>2. QED
  BY <1>1, FramesKept DEF FrameInv

\* The firmware's ways with the head of a queue.
LEMMA UpIsMove ==
  ASSUME TypeOK, NEW c \in {"down", "slow"}, chan[c] # <<>>,
         chan' = [chan EXCEPT ![c] = Tail(@), !["up"] = SendUp(Head(chan[c]))]
  PROVE  /\ Moved(chan, chan', c)
         /\ chan' = Drop(chan, c) \/ chan' = Push(Drop(chan, c), "up", Head(chan[c]))
<1>1. chan \in [Channels -> Seq(Frame)] /\ c \in Channels /\ "up" \in Channels /\ c # "up"
  BY DEF TypeOK, ChanOK, Channels
<1>2. Drop(chan, c) = [d \in Channels |-> IF d = c THEN Tail(chan[c]) ELSE chan[d]]
  BY <1>1 DEF Drop
<1>3. CASE ~up
  <2>1. chan' = Drop(chan, c)
    BY <1>1, <1>2, <1>3 DEF SendUp
  <2>2. QED
    BY <2>1 DEF Moved
<1>4. CASE up
  <2>1. chan' = Push(Drop(chan, c), "up", Head(chan[c]))
    BY <1>1, <1>2, <1>4 DEF SendUp, Push
  <2>2. QED
    BY <1>1, <2>1 DEF Moved
<1>5. QED
  BY <1>3, <1>4

\* The head of the queue of arrivals goes to the slow queue, or is answered.
LEMMA EnqueueIsMove ==
  ASSUME TypeOK, RxEnqueue
  PROVE  Moved(chan, chan', "down")
<1> DEFINE h == Head(chan["down"])
<1>1. /\ chan["down"] # <<>>
      /\ \/ chan' = [chan EXCEPT !["down"] = Tail(@), !["slow"] = Append(@, h)]
         \/ chan' = [chan EXCEPT !["down"] = Tail(@), !["up"] = SendUp(h)]
  BY DEF RxEnqueue
<1>2. chan \in [Channels -> Seq(Frame)] /\ {"down", "slow", "up"} \subseteq Channels
  BY DEF TypeOK, ChanOK, Channels
<1>3. CASE chan' = [chan EXCEPT !["down"] = Tail(@), !["up"] = SendUp(h)]
  BY <1>1, <1>3, UpIsMove
<1>4. CASE chan' = [chan EXCEPT !["down"] = Tail(@), !["slow"] = Append(@, h)]
  <2>1. chan' = Push(Drop(chan, "down"), "slow", h)
    BY <1>2, <1>4 DEF Push, Drop
  <2>2. QED
    BY <1>1, <1>2, <2>1 DEF Moved
<1>5. QED
  BY <1>1, <1>3, <1>4

CoreInv == BaseInv /\ TryInv /\ FrameInv

LEMMA CoreInit == Init => CoreInv
<1> SUFFICES ASSUME Init PROVE CoreInv
  OBVIOUS
<1>1. BaseInv
  BY BaseInit
<1>2. TryInv
  BY DEF Init, TryInv, Active
<1>3. \A c \in Channels : chan[c] = <<>>
  BY DEF Init
<1>4. \A c \in Channels : At(chan, c) = {}
  BY <1>3 DEF At
<1>5. FrameInv
  <2>1. {"down", "slow"} \subseteq Channels
    BY DEF Channels
  <2>2. QED
    BY <1>4, <2>1 DEF FrameInv, Unique, Has, Init
<1>6. QED
  BY <1>1, <1>2, <1>5 DEF CoreInv

LEMMA CoreStep == CoreInv /\ [Next]_vars => CoreInv'
<1> SUFFICES ASSUME TypeOK, SlotInv, TryInv, FrameInv, [Next]_vars PROVE CoreInv'
  BY DEF CoreInv, BaseInv
<1>1. TypeOK' /\ SlotInv' /\ Forward /\ TryInv' /\ ThreadsOK'
  BY BaseStep, ForwardStep DEF BaseInv, TypeOK
<1>2. chan \in [Channels -> Seq(Frame)] /\ {"down", "slow", "up"} \subseteq Channels
  BY DEF TypeOK, ChanOK, Channels
<1> SUFFICES FrameInv'
  BY <1>1 DEF CoreInv, BaseInv
<1>3. ASSUME chan' = chan, ran' = ran PROVE FrameInv'
  BY <1>1, <1>3, FramesUntouched
<1>4. ASSUME NEW t \in Threads, Write(t) PROVE FrameInv'
  <2>1. PICK f \in Frame :
          /\ f = [seq |-> seq[t], att |-> Cur(t)]
          /\ ~Sent(f.att) /\ Sent(f.att)' /\ Allowed(f.att)'
    BY <1>1, <1>4, WriteSends
  <2>2. ran' = ran /\ (chan' = chan \/ chan' = Push(chan, "down", f))
    BY <1>4, <2>1 DEF Write, Push
  <2>3. CASE chan' = Push(chan, "down", f)
    <3>1. \A d \in Channels, g \in Frame : Has(chan, d, g) => g.att # f.att
      BY <2>1 DEF FrameInv
    <3>2. /\ Unique(chan')
          /\ \A d \in Channels, g \in Frame : Has(chan', d, g) =>
                Has(chan, d, g) \/ (d = "down" /\ g = f)
      BY <1>2, <2>1, <2>3, <3>1, PushEffect DEF FrameInv
    <3>3. \A d \in Channels, g \in Frame : Has(chan', d, g) => Sent(g.att)' /\ Allowed(g.att)'
      <4> SUFFICES ASSUME NEW d \in Channels, NEW g \in Frame, Has(chan', d, g)
                   PROVE  Sent(g.att)' /\ Allowed(g.att)'
        OBVIOUS
      <4>1. CASE g = f
        BY <2>1, <4>1
      <4>2. CASE Has(chan, d, g)
        BY <1>1, <4>2, ForwardKeeps DEF FrameInv, Frame
      <4>3. QED
        BY <3>2, <4>1, <4>2
    <3>4. ran[f.att] = 0
      BY <2>1 DEF FrameInv, Frame
    <3>5. \A d \in {"down", "slow"}, g \in Frame : Has(chan', d, g) => ran'[g.att] = 0
      BY <1>2, <2>2, <3>2, <3>4 DEF FrameInv
    <3>6. \A a \in Attempt : ran'[a] # 0 => ran'[a] = 1 /\ Sent(a)' /\ Allowed(a)'
      BY <1>1, <2>2, ForwardKeeps DEF FrameInv
    <3>7. QED
      BY <3>2, <3>3, <3>5, <3>6 DEF FrameInv
  <2>4. QED
    BY <1>3, <2>2, <2>3
<1>5. ASSUME NEW c \in Channels, chan[c] # <<>>, chan' = Drop(chan, c), ran' = ran
      PROVE  FrameInv'
  <2>1. Unique(chan) /\ Unique(chan')
    BY <1>2, <1>5, DropEffect DEF FrameInv
  <2>2. \A d \in Channels, f \in Frame : Has(chan', d, f) => Has(chan, d, f)
    BY <1>2, <1>5, <2>1, DropEffect
  <2>3. \A d \in {"down", "slow"}, f \in Frame : Has(chan', d, f) => ran'[f.att] = 0
    BY <1>2, <1>5, <2>2 DEF FrameInv
  <2>4. \A a \in Attempt : ran'[a] # 0 => ran'[a] = 1 /\ Sent(a) /\ Allowed(a)
    BY <1>5 DEF FrameInv
  <2>5. QED
    BY <1>1, <2>1, <2>2, <2>3, <2>4, FramesKept
<1>6. ASSUME NEW c \in {"down", "slow"}, chan[c] # <<>>,
             chan' = [chan EXCEPT ![c] = Tail(@), !["up"] = SendUp(Head(chan[c]))],
             ran' = [ran EXCEPT ![Head(chan[c]).att] = @ + 1]
      PROVE  FrameInv'
  <2> DEFINE h == Head(chan[c])
  <2>1. Moved(chan, chan', c) /\ c \in Channels
    BY <1>2, <1>6, UpIsMove
  <2>2. /\ Unique(chan') /\ Has(chan, c, h) /\ h \in Frame
        /\ \A d \in Channels, f \in Frame : Has(chan', d, f) => \E e \in Channels : Has(chan, e, f)
    BY <1>2, <2>1, MovedEffect DEF FrameInv
  <2>3. \A d \in {"down", "slow"}, f \in Frame : Has(chan', d, f) =>
          Has(chan, d, f) /\ f.att # h.att
    <3>1. /\ Unique(Drop(chan, c)) /\ Drop(chan, c) \in [Channels -> Seq(Frame)]
          /\ \A d \in Channels, f \in Frame : Has(Drop(chan, c), d, f) =>
                Has(chan, d, f) /\ f.att # h.att
      BY <1>2, <1>6, DropEffect DEF FrameInv
    <3>2. \A d \in Channels, f \in Frame : Has(chan', d, f) =>
            Has(Drop(chan, c), d, f) \/ d = "up"
      <4>1. CASE chan' = Drop(chan, c)
        BY <4>1
      <4>2. CASE chan' = Push(Drop(chan, c), "up", h)
        <5>1. \A d \in Channels, f \in Frame : Has(Drop(chan, c), d, f) => f.att # h.att
          BY <3>1
        <5>2. \A d \in Channels, f \in Frame : Has(Push(Drop(chan, c), "up", h), d, f) =>
                Has(Drop(chan, c), d, f) \/ (d = "up" /\ f = h)
          BY <1>2, <2>2, <3>1, <5>1, PushEffect
        <5>3. QED
          BY <4>2, <5>2
      <4>3. QED
        BY <1>2, <1>6, <4>1, <4>2, UpIsMove
    <3>3. QED
      BY <1>2, <3>1, <3>2
  <2>4. /\ ran \in [Attempt -> Nat] /\ h.att \in Attempt /\ ran[h.att] = 0
        /\ Sent(h.att) /\ Allowed(h.att)
    BY <1>6, <2>2 DEF TypeOK, HistoryOK, FrameInv, Frame, Channels
  <2> HIDE DEF h
  <2>5. ran' = [ran EXCEPT ![h.att] = @ + 1]
    BY <1>6 DEF h
  <2>6. ran'[h.att] = 1 /\ \A a \in Attempt : a # h.att => ran'[a] = ran[a]
    BY <2>4, <2>5
  <2>7. \A d \in {"down", "slow"}, f \in Frame : Has(chan', d, f) => ran'[f.att] = 0
    BY <1>2, <2>3, <2>6 DEF FrameInv, Frame
  <2>8. \A a \in Attempt : ran'[a] # 0 => ran'[a] = 1 /\ Sent(a) /\ Allowed(a)
    BY <2>4, <2>6 DEF FrameInv
  <2>9. QED
    BY <1>1, <2>2, <2>7, <2>8, FramesKept
<1>7. CASE RxInline \/ SlowRun
  <2>1. PICK c \in {"down", "slow"} :
          /\ chan[c] # <<>>
          /\ chan' = [chan EXCEPT ![c] = Tail(@), !["up"] = SendUp(Head(chan[c]))]
          /\ ran' = [ran EXCEPT ![Head(chan[c]).att] = @ + 1]
    BY <1>7 DEF RxInline, SlowRun
  <2>2. QED
    BY <1>6, <2>1
<1>8. CASE RxEnqueue
  <2> DEFINE h == Head(chan["down"])
  <2>1. ran' = ran
    BY <1>8 DEF RxEnqueue
  <2>2. Moved(chan, chan', "down")
    BY <1>8, EnqueueIsMove
  <2>3. /\ Unique(chan') /\ Has(chan, "down", h) /\ h \in Frame
        /\ \A d \in Channels, f \in Frame : Has(chan', d, f) =>
             (Has(chan, d, f) /\ f.att # h.att) \/ f = h
        /\ \A d \in Channels, f \in Frame : Has(chan', d, f) => \E e \in Channels : Has(chan, e, f)
    BY <1>2, <2>2, MovedEffect DEF FrameInv
  <2>4. ran[h.att] = 0
    BY <2>3 DEF FrameInv
  <2> HIDE DEF h
  <2>5. \A d \in {"down", "slow"}, f \in Frame : Has(chan', d, f) => ran'[f.att] = 0
    BY <1>2, <2>1, <2>3, <2>4 DEF FrameInv
  <2>6. \A a \in Attempt : ran'[a] # 0 => ran'[a] = 1 /\ Sent(a) /\ Allowed(a)
    BY <2>1 DEF FrameInv
  <2>7. QED
    BY <1>1, <2>3, <2>5, <2>6, FramesKept
<1>9. CASE LinkDown \/ BoardReset
  <2>1. ran' = ran /\ \A c \in Channels : chan'[c] \in {chan[c], <<>>}
    BY <1>2, <1>9 DEF LinkDown, BoardReset, Channels
  <2>2. /\ Unique(chan')
        /\ \A c \in Channels, f \in Frame : Has(chan', c, f) => Has(chan, c, f)
    BY <2>1, ClearEffect DEF FrameInv
  <2>3. \A d \in {"down", "slow"}, f \in Frame : Has(chan', d, f) => ran'[f.att] = 0
    BY <1>2, <2>1, <2>2 DEF FrameInv
  <2>4. \A a \in Attempt : ran'[a] # 0 => ran'[a] = 1 /\ Sent(a) /\ Allowed(a)
    BY <2>1 DEF FrameInv
  <2>5. QED
    BY <1>1, <2>2, <2>3, <2>4, FramesKept
<1>10. ASSUME NEW c \in Channels, LoseFrame(c) PROVE FrameInv'
  BY <1>5, <1>10 DEF LoseFrame, Drop
<1>11. CASE ReadFrame
  BY <1>2, <1>5, <1>11 DEF ReadFrame, Drop
<1>12. ASSUME NEW t \in Threads, NEW c \in Cmds, StartCall(t, c) PROVE FrameInv'
  BY <1>3, <1>12 DEF StartCall
<1>13. ASSUME NEW t \in Threads, AllocSeq(t) PROVE FrameInv'
  BY <1>3, <1>13 DEF AllocSeq
<1>14. ASSUME NEW t \in Threads, AllocFull(t) \/ WriteError(t) \/ TakeReply(t) \/ GiveUp(t)
       PROVE  FrameInv'
  BY <1>3, <1>14, OverStep
<1>15. CASE ReaderExit \/ CloseBegin \/ UNCHANGED vars
  BY <1>3, <1>15 DEF ReaderExit, CloseBegin, vars
<1>16. QED
  BY <1>4, <1>7, <1>8, <1>9, <1>10, <1>11, <1>12, <1>13, <1>14, <1>15
     DEF Next, ThreadStep, Done

\* A command of NON_IDEMPOTENT is executed at most once, any other at most
\* once per attempt its retries allow, whatever is lost, late or timed out.
THEOREM ExecutedProved == Spec => []ExecutedAtMost
<1>1. CoreInv => ExecutedAtMost
  <2> SUFFICES ASSUME CoreInv, NEW a \in Attempt, ran[a] > 0
               PROVE  ran[a] = 1 /\ Allowed(a)
    BY DEF ExecutedAtMost, Allowed
  <2>1. ran[a] # 0
    BY DEF CoreInv, BaseInv, TypeOK, HistoryOK
  <2>2. QED
    BY <2>1 DEF CoreInv, FrameInv
<1>2. QED
  BY CoreInit, CoreStep, <1>1, PTL DEF Spec


-----------------------------------------------------------------------------
(* Late replies *)

\* A step that moves no frame to a new place and forgets no owner but those
\* whose attempt becomes an orphan.
LEMMA LateKept ==
  ASSUME TypeOK, TypeOK', Forward, LateInv,
         orphans \subseteq orphans',
         \A c \in Channels, f \in Frame : Has(chan', c, f) =>
           \E d \in Channels : Has(chan, d, f),
         \A s \in Seqs : owner[s] \in orphans' \cup {owner'[s]},
         \A s \in Seqs : reply'[s] \in {reply[s], NoAtt}
  PROVE  LateInv'
<1>1. ASSUME NEW c \in Channels, NEW f \in Frame, Has(chan', c, f)
      PROVE  f.att \in orphans' \cup {owner'[f.seq]}
  <2>1. f.att \in orphans \cup {owner[f.seq]} /\ f.seq \in Seqs
    BY <1>1 DEF LateInv, Frame
  <2>2. QED
    BY <2>1
<1>2. ASSUME NEW s \in Seqs, reply'[s] # NoAtt
      PROVE  /\ reply'[s] \in orphans' \cup {owner'[s]}
             /\ Sent(reply[s])'
             /\ \A c \in Channels, f \in Frame : Has(chan', c, f) => f.att # reply'[s]
  <2>1. PICK a \in Attempt : a = reply[s] /\ a = reply'[s]
    BY <1>2 DEF TypeOK, TableOK
  <2>2. /\ a \in orphans \cup {owner[s]} /\ Sent(a)
        /\ \A c \in Channels, f \in Frame : Has(chan, c, f) => f.att # a
    BY <1>2, <2>1 DEF LateInv
  <2>3. a \in orphans' \cup {owner'[s]}
    BY <2>2
  <2>4. Sent(a)'
    BY <2>2, ForwardKeeps DEF TypeOK
  <2>5. Sent(reply[s])'
    BY <2>1, <2>4 DEF Sent
  <2>6. \A c \in Channels, f \in Frame : Has(chan', c, f) => f.att # a
    BY <2>2
  <2>7. QED
    BY <2>1, <2>3, <2>5, <2>6
<1>3. QED
  BY <1>1, <1>2 DEF LateInv

\* A step that leaves the table and the orphans alone and moves frames.
LEMMA LateMoved ==
  ASSUME TypeOK, TypeOK', Forward, LateInv, UNCHANGED <<owner, reply, orphans>>,
         \A c \in Channels, f \in Frame : Has(chan', c, f) => \E d \in Channels : Has(chan, d, f)
  PROVE  LateInv'
BY LateKept

LEMMA LateStep == CoreInv /\ LateInv /\ [Next]_vars => LateInv'
<1> SUFFICES ASSUME TypeOK, SlotInv, TryInv, FrameInv, LateInv, [Next]_vars PROVE LateInv'
  BY DEF CoreInv, BaseInv
<1>1. TypeOK' /\ SlotInv' /\ Forward /\ TryInv' /\ FrameInv'
  BY CoreStep, ForwardStep DEF CoreInv, BaseInv
<1>2. /\ chan \in [Channels -> Seq(Frame)] /\ {"down", "slow", "up"} \subseteq Channels
      /\ owner \in [Seqs -> Attempt] /\ reply \in [Seqs -> Attempt] /\ Unique(chan)
  BY DEF TypeOK, ChanOK, Channels, TableOK, FrameInv
<1>3. ASSUME UNCHANGED <<owner, reply, orphans, chan>> PROVE LateInv'
  BY <1>1, <1>3, LateMoved
<1>4. ASSUME NEW t \in Threads, AllocSeq(t) PROVE LateInv'
  <2>1. PICK s \in Seqs :
          /\ owner[s] = NoAtt
          /\ owner' = [owner EXCEPT ![s] = Cur(t)]
          /\ reply' = [reply EXCEPT ![s] = NoAtt]
    BY <1>4 DEF AllocSeq, IsNextSeq, FreeSeqs
  <2>2. UNCHANGED <<chan, orphans>>
    BY <1>4 DEF AllocSeq
  <2>3. ASSUME NEW c \in Channels, NEW f \in Frame, Has(chan', c, f)
        PROVE  f.att \in orphans' \cup {owner'[f.seq]}
    <3>1. f.att \in orphans \cup {owner[f.seq]} /\ f.seq \in Seqs /\ f.att # NoAtt
      BY <2>2, <2>3 DEF LateInv, FrameInv, Frame, Sent, NoAtt
    <3>2. QED
      BY <1>2, <2>1, <2>2, <3>1
  <2>4. ASSUME NEW r \in Seqs, reply'[r] # NoAtt
        PROVE  /\ reply'[r] \in orphans' \cup {owner'[r]}
               /\ Sent(reply[r])'
               /\ \A c \in Channels, f \in Frame : Has(chan', c, f) => f.att # reply'[r]
    <3>1. r # s /\ reply'[r] = reply[r] /\ owner'[r] = owner[r]
      BY <1>2, <2>1, <2>4
    <3>2. PICK a \in Attempt : a = reply[r]
      BY <1>2
    <3>3. Sent(a)
      BY <2>4, <3>1, <3>2 DEF LateInv
    <3>4. Sent(a)'
      BY <1>1, <3>3, ForwardKeeps DEF TypeOK
    <3>5. Sent(reply[r])'
      BY <3>1, <3>2, <3>4 DEF Sent
    <3>6. QED
      BY <2>2, <2>4, <3>1, <3>5 DEF LateInv
  <2>5. QED
    BY <2>3, <2>4 DEF LateInv
<1>5. ASSUME NEW t \in Threads, AllocFull(t) PROVE LateInv'
  BY <1>1, <1>5, LateKept DEF AllocFull, table
<1>6. ASSUME NEW t \in Threads, Holding(t), Release(t), chan' = chan,
             orphans \subseteq orphans',
             Cur(t) \in orphans' \/ reply[seq[t]] = Cur(t)
      PROVE  LateInv'
  <2>1. /\ seq[t] \in Seqs /\ owner[seq[t]] = Cur(t)
        /\ \A s \in Seqs \ {seq[t]} : owner'[s] = owner[s] /\ reply'[s] = reply[s]
        /\ reply'[seq[t]] = NoAtt
    BY <1>6, ReleaseEffect DEF SlotInv, TypeOK
  <2>2. CASE Cur(t) \in orphans'
    <3>1. \A s \in Seqs : owner[s] \in orphans' \cup {owner'[s]}
      BY <2>1, <2>2
    <3>2. \A s \in Seqs : reply'[s] \in {reply[s], NoAtt}
      BY <2>1
    <3>3. QED
      BY <1>1, <1>6, <3>1, <3>2, LateKept
  <2>3. CASE reply[seq[t]] = Cur(t)
    <3>1. reply[seq[t]] # NoAtt
      BY <1>6, <2>3, CurFacts DEF SlotInv, Active, Holding, TypeOK
    <3>2. \A c \in Channels, f \in Frame : Has(chan, c, f) => f.att # Cur(t)
      BY <2>1, <2>3, <3>1 DEF LateInv
    <3>3. ASSUME NEW c \in Channels, NEW f \in Frame, Has(chan', c, f)
          PROVE  f.att \in orphans' \cup {owner'[f.seq]}
      <4>1. f.att \in orphans \cup {owner[f.seq]} /\ f.seq \in Seqs /\ f.att # Cur(t)
        BY <1>6, <3>2, <3>3 DEF LateInv, Frame
      <4>2. QED
        BY <1>6, <2>1, <4>1
    <3>4. ASSUME NEW r \in Seqs, reply'[r] # NoAtt
          PROVE  /\ reply'[r] \in orphans' \cup {owner'[r]}
                 /\ Sent(reply[r])'
                 /\ \A c \in Channels, f \in Frame : Has(chan', c, f) => f.att # reply'[r]
      <4>1. reply'[r] = reply[r] /\ owner'[r] = owner[r]
        BY <2>1, <3>4
      <4>2. PICK a \in Attempt : a = reply[r]
        BY <1>2
      <4>3. Sent(a)
        BY <3>4, <4>1, <4>2 DEF LateInv
      <4>4. Sent(a)'
        BY <1>1, <4>3, ForwardKeeps DEF TypeOK
      <4>5. Sent(reply[r])'
        BY <4>1, <4>2, <4>4 DEF Sent
      <4>6. QED
        BY <1>6, <3>4, <4>1, <4>5 DEF LateInv
    <3>5. QED
      BY <3>3, <3>4 DEF LateInv
  <2>4. QED
    BY <1>6, <2>2, <2>3
<1>7. ASSUME NEW t \in Threads, WriteError(t) \/ TakeReply(t) \/ GiveUp(t)
      PROVE  LateInv'
  <2>1. /\ Holding(t) /\ Release(t) /\ chan' = chan /\ orphans \subseteq orphans'
        /\ Cur(t) \in orphans' \/ reply[seq[t]] = Cur(t)
    BY <1>7 DEF WriteError, TakeReply, GiveUp, Holding
  <2>2. QED
    BY <1>6, <2>1
<1>8. ASSUME NEW t \in Threads, Write(t) PROVE LateInv'
  <2>1. PICK f \in Frame :
          /\ f = [seq |-> seq[t], att |-> Cur(t)]
          /\ seq[t] \in Seqs /\ owner[seq[t]] = f.att /\ f.seq = seq[t]
          /\ ~Sent(f.att)
    BY <1>1, <1>8, WriteSends
  <2>2. /\ UNCHANGED <<owner, reply, orphans>>
        /\ chan' = chan \/ chan' = Push(chan, "down", f)
    BY <1>8, <2>1 DEF Write, Push, table
  <2>3. CASE chan' = Push(chan, "down", f)
    <3>1. \A d \in Channels, g \in Frame : Has(chan, d, g) => g.att # f.att
      BY <2>1 DEF FrameInv
    <3>2. \A d \in Channels, g \in Frame : Has(chan', d, g) => Has(chan, d, g) \/ g = f
      BY <1>2, <2>3, <3>1, PushEffect
    <3>3. \A d \in Channels, g \in Frame : Has(chan', d, g) =>
            g.att \in orphans' \cup {owner'[g.seq]}
      BY <2>1, <2>2, <3>2 DEF LateInv
    <3>4. ASSUME NEW r \in Seqs, reply'[r] # NoAtt
          PROVE  /\ reply'[r] \in orphans' \cup {owner'[r]}
                 /\ Sent(reply[r])'
                 /\ \A c \in Channels, g \in Frame : Has(chan', c, g) => g.att # reply'[r]
      <4>1. PICK a \in Attempt : a = reply[r] /\ a = reply'[r]
        BY <1>2, <2>2
      <4>2. Sent(a) /\ a \in orphans' \cup {owner'[r]}
        BY <2>2, <3>4, <4>1 DEF LateInv
      <4>3. Sent(a)'
        BY <1>1, <4>2, ForwardKeeps DEF TypeOK
      <4>4. Sent(reply[r])'
        BY <4>1, <4>3 DEF Sent
      <4>5. a # f.att
        BY <2>1, <4>2
      <4>6. \A c \in Channels, g \in Frame : Has(chan', c, g) => g.att # a
        BY <2>2, <3>2, <3>4, <4>1, <4>5 DEF LateInv
      <4>7. QED
        BY <4>1, <4>2, <4>4, <4>6
    <3>5. QED
      BY <3>3, <3>4 DEF LateInv
  <2>4. QED
    BY <1>3, <2>2, <2>3
<1>9. CASE ReadFrame
  <2>1. PICK h \in Frame : /\ h = Head(chan["up"]) /\ Has(chan, "up", h)
                           /\ \A d \in Channels, f \in Frame : Has(chan', d, f) =>
                                 Has(chan, d, f) /\ f.att # h.att
    <3>1. chan["up"] # <<>> /\ chan' = Drop(chan, "up")
      BY <1>9 DEF ReadFrame, Drop
    <3>2. "up" \in Channels
      BY <1>2
    <3>3. /\ Head(chan["up"]) \in Frame /\ Has(chan, "up", Head(chan["up"]))
          /\ \A d \in Channels, f \in Frame : Has(Drop(chan, "up"), d, f) =>
                Has(chan, d, f) /\ f.att # Head(chan["up"]).att
      BY <1>2, <3>1, <3>2, DropEffect
    <3>4. QED
      BY <3>1, <3>3
  <2>2. /\ UNCHANGED <<owner, orphans>>
        /\ reply' = reply \/ reply' = [reply EXCEPT ![h.seq] = h.att]
    BY <1>9, <2>1 DEF ReadFrame
  <2>3. CASE reply' = reply
    BY <1>1, <2>1, <2>2, <2>3, LateMoved
  <2>4. CASE reply' = [reply EXCEPT ![h.seq] = h.att]
    <3>1. h.att \in orphans \cup {owner[h.seq]} /\ h.seq \in Seqs /\ h.att \in Attempt
      BY <1>2, <2>1 DEF LateInv, Frame
    <3>2. Sent(h.att)'
      <4>1. Sent(h.att)
        BY <1>2, <2>1 DEF FrameInv
      <4>2. QED
        BY <1>1, <3>1, <4>1, ForwardKeeps DEF TypeOK
    <3>3. ASSUME NEW r \in Seqs, reply'[r] # NoAtt
          PROVE  /\ reply'[r] \in orphans' \cup {owner'[r]}
                 /\ Sent(reply[r])'
                 /\ \A c \in Channels, g \in Frame : Has(chan', c, g) => g.att # reply'[r]
      <4>1. CASE r = h.seq
        <5>1. reply'[r] = h.att
          BY <1>2, <2>4, <3>1, <4>1
        <5>2. Sent(reply[r])'
          BY <3>2, <5>1 DEF Sent
        <5>3. QED
          BY <2>1, <2>2, <3>1, <4>1, <5>1, <5>2
      <4>2. CASE r # h.seq
        <5>1. PICK a \in Attempt : a = reply[r] /\ a = reply'[r]
          BY <1>2, <2>4, <4>2
        <5>2. Sent(a) /\ a \in orphans' \cup {owner'[r]}
          BY <2>2, <3>3, <5>1 DEF LateInv
        <5>3. Sent(a)'
          BY <1>1, <5>2, ForwardKeeps DEF TypeOK
        <5>4. Sent(reply[r])'
          BY <5>1, <5>3 DEF Sent
        <5>5. \A c \in Channels, g \in Frame : Has(chan', c, g) => g.att # a
          BY <2>1, <3>3, <5>1 DEF LateInv
        <5>6. QED
          BY <5>1, <5>2, <5>4, <5>5
      <4>3. QED
        BY <4>1, <4>2
    <3>4. \A d \in Channels, f \in Frame : Has(chan', d, f) =>
            f.att \in orphans' \cup {owner'[f.seq]}
      BY <2>1, <2>2 DEF LateInv
    <3>5. QED
      BY <3>3, <3>4 DEF LateInv
  <2>5. QED
    BY <2>2, <2>3, <2>4
<1>10. ASSUME NEW c \in Channels, Moved(chan, chan', c), UNCHANGED <<owner, reply, orphans>>
       PROVE  LateInv'
  <2>1. \A d \in Channels, f \in Frame : Has(chan', d, f) => \E e \in Channels : Has(chan, e, f)
    BY <1>2, <1>10, MovedEffect
  <2>2. QED
    BY <1>1, <1>10, <2>1, LateMoved
<1>11. CASE RxInline \/ SlowRun
  <2>1. PICK c \in {"down", "slow"} :
          /\ chan[c] # <<>>
          /\ chan' = [chan EXCEPT ![c] = Tail(@), !["up"] = SendUp(Head(chan[c]))]
    BY <1>11 DEF RxInline, SlowRun
  <2>2. Moved(chan, chan', c)
    BY <2>1, UpIsMove
  <2>3. UNCHANGED <<owner, reply, orphans>>
    BY <1>11 DEF RxInline, SlowRun, table
  <2>4. QED
    BY <1>2, <1>10, <2>2, <2>3
<1>12. CASE RxEnqueue
  <2>1. Moved(chan, chan', "down")
    BY <1>12, EnqueueIsMove
  <2>2. UNCHANGED <<owner, reply, orphans>>
    BY <1>12 DEF RxEnqueue, table
  <2>3. QED
    BY <1>2, <1>10, <2>1, <2>2
<1>13. CASE LinkDown \/ BoardReset
  <2>1. \A c \in Channels : chan'[c] \in {chan[c], <<>>}
    BY <1>2, <1>13 DEF LinkDown, BoardReset, Channels
  <2>2. \A c \in Channels, f \in Frame : Has(chan', c, f) => Has(chan, c, f)
    BY <1>2, <2>1, ClearEffect
  <2>3. UNCHANGED <<owner, reply, orphans>>
    BY <1>13 DEF LinkDown, BoardReset, table
  <2>4. QED
    BY <1>1, <2>2, <2>3, LateMoved
<1>14. ASSUME NEW c \in Channels, LoseFrame(c) PROVE LateInv'
  <2>1. Moved(chan, chan', c) /\ UNCHANGED <<owner, reply, orphans>>
    BY <1>14 DEF LoseFrame, Moved, Drop, table
  <2>2. QED
    BY <1>10, <2>1
<1>15. ASSUME NEW t \in Threads, NEW c \in Cmds, StartCall(t, c) PROVE LateInv'
  BY <1>3, <1>15 DEF StartCall, table
<1>16. CASE ReaderExit \/ CloseBegin \/ UNCHANGED vars
  BY <1>3, <1>16 DEF ReaderExit, CloseBegin, vars, table
<1>17. QED
  BY <1>4, <1>5, <1>7, <1>8, <1>9, <1>11, <1>12, <1>13, <1>14, <1>15, <1>16
     DEF Next, ThreadStep, Done

LEMMA LateInit == Init => LateInv
<1> SUFFICES ASSUME Init PROVE LateInv
  OBVIOUS
<1>1. \A c \in Channels : At(chan, c) = {}
  <2>1. \A c \in Channels : chan[c] = <<>>
    BY DEF Init
  <2>2. QED
    BY <2>1 DEF At
<1>2. QED
  BY <1>1 DEF Init, LateInv, Has

\* A reply is stored in the entry of a request it does not answer only if its
\* own request ended without it before.
THEOREM LateProved == Spec => []ForeignReplyIsLate
<1>1. CoreInv /\ LateInv => ForeignReplyIsLate
  BY DEF LateInv, ForeignReplyIsLate
<1>2. QED
  BY CoreInit, LateInit, CoreStep, LateStep, <1>1, PTL DEF Spec

-----------------------------------------------------------------------------
(* The dead-link flag *)

LEMMA DeadStep == BaseInv /\ DeadMeansPingFailed /\ [Next]_vars => DeadMeansPingFailed'
<1> SUFFICES ASSUME TypeOK, DeadMeansPingFailed, [Next]_vars PROVE DeadMeansPingFailed'
  BY DEF BaseInv
<1>1. ASSUME orphans \subseteq orphans', linkDead' = linkDead
      PROVE  DeadMeansPingFailed'
  BY <1>1 DEF DeadMeansPingFailed
<1>2. ASSUME NEW t \in Threads, orphans' = orphans \cup {Cur(t)},
             linkDead' = linkDead \/ Pinging(t)
      PROVE  DeadMeansPingFailed'
  <2>1. CASE Pinging(t)
    <3>1. Cur(t) \in orphans' /\ Cur(t).try = PingTry
      BY <1>2, <2>1 DEF Pinging, Cur
    <3>2. QED
      BY <3>1 DEF DeadMeansPingFailed
  <2>2. CASE ~Pinging(t)
    BY <1>2, <2>2 DEF DeadMeansPingFailed
  <2>3. QED
    BY <2>1, <2>2
<1>3. ASSUME NEW t \in Threads, AllocFull(t) \/ GiveUp(t) \/ WriteError(t)
      PROVE  DeadMeansPingFailed'
  <2>1. orphans' = orphans \cup {Cur(t)}
    BY <1>3 DEF AllocFull, GiveUp, WriteError
  <2>2. linkDead' = linkDead \/ Pinging(t)
    BY <1>3 DEF AllocFull, GiveUp, WriteError, AfterTimeout, NextTry, TypeOK, StatusOK
  <2>3. QED
    BY <1>2, <2>1, <2>2
<1>4. ASSUME NEW t \in Threads, AllocSeq(t) \/ Write(t) \/ TakeReply(t)
      PROVE  DeadMeansPingFailed'
  BY <1>1, <1>4 DEF AllocSeq, Write, TakeReply, status
<1>5. ASSUME NEW t \in Threads, NEW c \in Cmds, StartCall(t, c) PROVE DeadMeansPingFailed'
  BY <1>1, <1>5 DEF StartCall, status
<1>6. CASE QuietStep
  BY <1>1, <1>6 DEF QuietStep, ReadFrame, ReaderExit, RxInline, RxEnqueue, SlowRun,
                    CloseBegin, LinkDown, BoardReset, LoseFrame, vars, status
<1>7. QED
  BY <1>3, <1>4, <1>5, <1>6 DEF Next, ThreadStep, QuietStep, Done

\* is_alive() turns false only after a confirming ping of request() failed.
THEOREM DeadProved == Spec => []DeadMeansPingFailed
<1>1. Init => DeadMeansPingFailed
  BY DEF Init, DeadMeansPingFailed
<1>2. QED
  BY BaseInit, BaseStep, DeadStep, <1>1, PTL DEF Spec

-----------------------------------------------------------------------------
(* The engine implements RemoteCall *)

\* The three variables of RemoteCall.
Phase == [n \in Calls |-> PhaseOf(n)]
Limit == [n \in Calls |-> IF n >= nextCall THEN 0 ELSE 1 + MayRepeat(cmdOf[n])]
Runs  == [n \in Calls |-> Cardinality(Executions(n))]

\* A thread that is in no call has none.
CallInv == \A t \in Threads : ~Active(t) => call[t] = 0

RefInv == CoreInv /\ CallInv

\* An attempt of a call, and the element one more execution of it adds.
Try(n, k) == [call |-> n, try |-> k]

\* The executions of a call are those of the attempts its command may have,
\* one each.
LEMMA ExecutionsBounded ==
  ASSUME TypeOK, FrameInv, NEW n \in Calls
  PROVE  /\ IsFiniteSet(Executions(n))
         /\ Cardinality(Executions(n)) \in Nat
         /\ Cardinality(Executions(n)) <= 1 + MayRepeat(cmdOf[n])
         /\ n >= nextCall => Executions(n) = {}
<1> DEFINE m == MayRepeat(cmdOf[n])
<1>1. m \in Nat
  BY ConstFacts
<1>2. MaxRetries \in Nat /\ PingTry = MaxRetries + 1 /\ n \in 0..MaxCalls /\ n \in Nat
  BY BridgeAssumption DEF PingTry, Calls
<1>3. ASSUME NEW k \in 0..MaxRetries
      PROVE  /\ Try(n, k) \in Attempt
             /\ ran[Try(n, k)] \in Nat
             /\ ran[Try(n, k)] # 0 => ran[Try(n, k)] = 1 /\ k <= m /\ n < nextCall
  <2>1. Try(n, k) \in Attempt /\ k # PingTry
    BY <1>2, <1>3 DEF Try, Attempt
  <2>2. ran[Try(n, k)] \in Nat
    BY <2>1 DEF TypeOK, HistoryOK
  <2>3. ASSUME ran[Try(n, k)] # 0
        PROVE  ran[Try(n, k)] = 1 /\ k <= m /\ n < nextCall
    <3>1. ran[Try(n, k)] = 1 /\ Sent(Try(n, k)) /\ Allowed(Try(n, k))
      BY <2>1, <2>3 DEF FrameInv
    <3>2. Try(n, k).call = n /\ Try(n, k).try = k
      BY DEF Try
    <3>3. QED
      BY <2>1, <3>1, <3>2 DEF Sent, Allowed
  <2>4. QED
    BY <2>1, <2>2, <2>3
<1>4. Executions(n) \subseteq (0..m) \X {1}
  <2> SUFFICES ASSUME NEW k \in 0..MaxRetries, NEW j \in 1..ran[Try(n, k)]
               PROVE  <<k, j>> \in (0..m) \X {1}
    <3>1. Executions(n) = UNION {{k} \X (1..ran[Try(n, k)]) : k \in 0..MaxRetries}
      BY DEF Executions, Try
    <3>2. ASSUME NEW k \in 0..MaxRetries, NEW e \in {k} \X (1..ran[Try(n, k)])
          PROVE  \E j \in 1..ran[Try(n, k)] : e = <<k, j>>
      OBVIOUS
    <3> HIDE DEF m
    <3>3. ASSUME NEW e \in Executions(n)
          PROVE  e \in (0..m) \X {1}
      <4>1. PICK k \in 0..MaxRetries : e \in {k} \X (1..ran[Try(n, k)])
        BY <3>1
      <4>2. PICK j \in 1..ran[Try(n, k)] : e = <<k, j>>
        BY <3>2, <4>1
      <4>3. QED
        BY <4>2
    <3>4. QED
      BY <3>3
  <2>1. ran[Try(n, k)] \in Nat /\ ran[Try(n, k)] # 0
    BY <1>3
  <2>2. j = 1 /\ k \in 0..m
    BY <1>1, <1>3, <2>1
  <2>3. QED
    BY <2>2
<1>5. IsFiniteSet((0..m) \X {1}) /\ Cardinality((0..m) \X {1}) = m + 1
  <2>1. IsFiniteSet(0..m) /\ Cardinality(0..m) = m + 1
    BY <1>1, FS_Interval
  <2>2. IsFiniteSet({1}) /\ Cardinality({1}) = 1
    BY FS_Singleton
  <2>3. /\ IsFiniteSet((0..m) \X {1})
        /\ Cardinality((0..m) \X {1}) = Cardinality(0..m) * Cardinality({1})
    BY <2>1, <2>2, FS_Product
  <2>4. (m + 1) * 1 = m + 1
    BY <1>1
  <2>5. QED
    BY <2>1, <2>2, <2>3, <2>4
<1> HIDE DEF m
<1>6. /\ IsFiniteSet(Executions(n))
      /\ Cardinality(Executions(n)) <= m + 1
  BY <1>4, <1>5, FS_Subset
<1>7. Cardinality(Executions(n)) \in Nat
  BY <1>6, FS_CardinalityType
<1>8. n >= nextCall => Executions(n) = {}
  <2> SUFFICES ASSUME n >= nextCall, NEW k \in 0..MaxRetries
               PROVE  1..ran[Try(n, k)] = {}
    BY DEF Executions, Try
  <2>1. nextCall \in Nat
    BY BridgeAssumption DEF TypeOK, CallsOK
  <2>2. ran[Try(n, k)] = 0
    BY <1>2, <1>3, <2>1
  <2>3. QED
    BY <2>2
<1>9. QED
  BY <1>1, <1>6, <1>7, <1>8 DEF m

RunsInv == \A n \in Calls : Cardinality(Executions(n)) <= 1 + MayRepeat(cmdOf[n])

LEMMA RunsWithin == CoreInv => RunsInv
BY ExecutionsBounded DEF RunsInv, CoreInv, BaseInv

\* One more execution of an attempt is one more of its call, unless the
\* attempt is the confirming ping, and of no other call.
LEMMA ExecutionAdds ==
  ASSUME TypeOK, NEW a \in Attempt, ran[a] = 0, ran' = [ran EXCEPT ![a] = @ + 1],
         NEW n \in Calls
  PROVE  /\ a.call = n /\ a.try # PingTry =>
              /\ Executions(n)' = Executions(n) \cup {<<a.try, 1>>}
              /\ <<a.try, 1>> \notin Executions(n)
         /\ ~(a.call = n /\ a.try # PingTry) => Executions(n)' = Executions(n)
<1>1. ran \in [Attempt -> Nat] /\ MaxRetries \in Nat /\ PingTry = MaxRetries + 1
  BY BridgeAssumption DEF TypeOK, HistoryOK, PingTry
<1>2. \A k \in 0..MaxRetries : Try(n, k) \in Attempt
  BY <1>1 DEF Try, Attempt, Calls
<1>3. \A k \in 0..MaxRetries : Try(n, k) # a => ran'[Try(n, k)] = ran[Try(n, k)]
  BY <1>1, <1>2
<1>4. ran'[a] = 1
  BY <1>1
<1>5. /\ a = Try(a.call, a.try) /\ a.try \in 0..PingTry
  BY DEF Attempt, Try
<1>6. ASSUME a.call = n, a.try # PingTry
      PROVE  /\ Executions(n)' = Executions(n) \cup {<<a.try, 1>>}
             /\ <<a.try, 1>> \notin Executions(n)
  <2>1. a = Try(n, a.try) /\ a.try \in 0..MaxRetries
    BY <1>1, <1>5, <1>6
  <2>2. \A k \in 0..MaxRetries : Try(n, k) = a => k = a.try
    BY <2>1 DEF Try
  <2>3. \A k \in 0..MaxRetries : k # a.try =>
          {k} \X (1..ran'[Try(n, k)]) = {k} \X (1..ran[Try(n, k)])
    BY <1>3, <2>2
  <2>4. /\ {a.try} \X (1..ran'[Try(n, a.try)]) = {<<a.try, 1>>}
        /\ {a.try} \X (1..ran[Try(n, a.try)]) = {}
    <3>1. 1..1 = {1} /\ 1..0 = {}
      OBVIOUS
    <3>2. ran'[Try(n, a.try)] = 1 /\ ran[Try(n, a.try)] = 0
      BY <1>4, <2>1
    <3>3. QED
      BY <3>1, <3>2
  <2>5. Executions(n)' = UNION {{k} \X (1..ran'[Try(n, k)]) : k \in 0..MaxRetries}
    BY DEF Executions, Try
  <2>6. Executions(n) = UNION {{k} \X (1..ran[Try(n, k)]) : k \in 0..MaxRetries}
    BY DEF Executions, Try
  <2>7. Executions(n)' = Executions(n) \cup {<<a.try, 1>>}
    BY <2>1, <2>3, <2>4, <2>5, <2>6
  <2>8. <<a.try, 1>> \notin Executions(n)
    <3> SUFFICES ASSUME NEW k \in 0..MaxRetries, <<a.try, 1>> \in {k} \X (1..ran[Try(n, k)])
                 PROVE  FALSE
      BY <2>6
    <3>1. k = a.try
      OBVIOUS
    <3>2. QED
      BY <2>4, <3>1
  <2>9. QED
    BY <2>7, <2>8
<1>7. ASSUME ~(a.call = n /\ a.try # PingTry)
      PROVE  Executions(n)' = Executions(n)
  <2>1. \A k \in 0..MaxRetries : Try(n, k) # a
    BY <1>1, <1>7 DEF Try
  <2>2. \A k \in 0..MaxRetries : ran'[Try(n, k)] = ran[Try(n, k)]
    BY <1>3, <2>1
  <2>3. QED
    BY <2>2 DEF Executions, Try
<1>8. QED
  BY <1>6, <1>7

\* Threads in no call have none, before and after every step.
LEMMA CallStep == CoreInv /\ CallInv /\ [Next]_vars => CallInv'
<1> SUFFICES ASSUME TypeOK, SlotInv, CallInv, [Next]_vars, NEW u \in Threads, ~Active(u)'
             PROVE  call'[u] = 0
  BY DEF CoreInv, BaseInv, CallInv
<1>1. ASSUME NEW t \in Threads, NEW c \in Cmds, StartCall(t, c) PROVE call'[u] = 0
  BY <1>1 DEF StartCall, CallInv, Active, TypeOK, ThreadsOK
<1>2. ASSUME NEW t \in Threads, AllocSeq(t) \/ Write(t) PROVE call'[u] = 0
  BY <1>2 DEF AllocSeq, Write, CallInv, Active, TypeOK, ThreadsOK
<1>3. ASSUME NEW t \in Threads, AllocFull(t) \/ WriteError(t) \/ TakeReply(t) \/ GiveUp(t)
      PROVE  call'[u] = 0
  <2>1. AttemptOver(t)
    BY <1>3, OverStep
  <2>2. QED
    BY <2>1 DEF AttemptOver, Others, CallInv, Active
<1>4. CASE QuietStep
  <2>1. UNCHANGED <<pc, call>>
    BY <1>4 DEF QuietStep, ReadFrame, ReaderExit, RxInline, RxEnqueue, SlowRun, CloseBegin,
                LinkDown, BoardReset, LoseFrame, vars, threads
  <2>2. QED
    BY <2>1 DEF CallInv, Active
<1>5. QED
  <2> HIDE DEF TypeOK
  <2> QED
    BY <1>1, <1>2, <1>3, <1>4 DEF Next, ThreadStep, QuietStep, Done

\* A call that is in no thread's hands has ended, and only it is new while
\* its number has not been handed out.
LEMMA PhaseStays ==
  ASSUME nextCall' = nextCall, NEW n \in Calls,
         (\E t \in Threads : call'[t] = n) <=> (\E t \in Threads : call[t] = n)
  PROVE  PhaseOf(n)' = PhaseOf(n)
  BY DEF PhaseOf

LEMMA RunsStay ==
  ASSUME ran' = ran
  PROVE  Runs' = Runs
<1>1. \A n \in Calls : Executions(n)' = Executions(n)
  BY DEF Executions
<1>2. QED
  BY <1>1 DEF Runs

LEMMA LimitStays ==
  ASSUME nextCall' = nextCall, cmdOf' = cmdOf
  PROVE  Limit' = Limit
  BY DEF Limit

LEMMA PhaseUntouched ==
  ASSUME nextCall' = nextCall, call' = call
  PROVE  Phase' = Phase
  BY DEF Phase, PhaseOf

\* The steps of RemoteCall.
LEMMA BeginIsStep ==
  ASSUME NEW n \in Calls, Phase[n] = "new", Phase' = [Phase EXCEPT ![n] = "open"],
         NEW m \in {1, MaxRetries + 1}, Limit' = [Limit EXCEPT ![n] = m], Runs' = Runs
  PROVE  RC!Next
  BY DEF RC!Next, RC!Begin, Phase, Limit, Runs

LEMMA RunIsStep ==
  ASSUME NEW n \in Calls, Runs[n] < Limit[n], Runs' = [Runs EXCEPT ![n] = @ + 1],
         Phase' = Phase, Limit' = Limit
  PROVE  RC!Next
  BY DEF RC!Next, RC!Run, Phase, Limit, Runs

LEMMA EndIsStep ==
  ASSUME NEW n \in Calls, Phase[n] = "open", Phase' = [Phase EXCEPT ![n] = "ended"],
         Limit' = Limit, Runs' = Runs
  PROVE  RC!Next
  BY DEF RC!Next, RC!End, Phase, Limit, Runs

LEMMA StutterIsStep ==
  ASSUME Phase' = Phase, Limit' = Limit, Runs' = Runs
  PROVE  UNCHANGED RC!vars
  BY DEF RC!vars, Phase, Limit, Runs

\* A step in which the firmware executes an attempt it has not executed is
\* an execution of the call, or none if the attempt is the confirming ping.
LEMMA ExecutionIsStep ==
  ASSUME TypeOK, FrameInv, RunsInv',
         NEW a \in Attempt, ran[a] = 0, Sent(a), ran' = [ran EXCEPT ![a] = @ + 1],
         UNCHANGED <<call, nextCall, cmdOf>>
  PROVE  [RC!Next]_(RC!vars)
<1>1. Phase' = Phase /\ Limit' = Limit
  BY PhaseUntouched, LimitStays
<1>2. /\ a.call \in Calls /\ a.call \in Nat /\ nextCall \in Nat
      /\ a.call < nextCall
  BY BridgeAssumption DEF Sent, Attempt, Calls, TypeOK, CallsOK
<1>3. CASE a.try = PingTry
  <2>1. \A n \in Calls : Executions(n)' = Executions(n)
    BY <1>3, ExecutionAdds
  <2>2. Runs' = Runs
    BY <2>1 DEF Runs
  <2>3. QED
    BY <1>1, <2>2, StutterIsStep
<1>4. CASE a.try # PingTry
  <2> DEFINE n == a.call
  <2>1. \A d \in Calls : d # n => Executions(d)' = Executions(d)
    BY ExecutionAdds
  <2>2. /\ Executions(n)' = Executions(n) \cup {<<a.try, 1>>}
        /\ <<a.try, 1>> \notin Executions(n)
    BY <1>2, <1>4, ExecutionAdds
  <2>3. /\ IsFiniteSet(Executions(n)) /\ Cardinality(Executions(n)) \in Nat
    BY <1>2, ExecutionsBounded
  <2>4. Cardinality(Executions(n)') = Cardinality(Executions(n)) + 1
    BY <2>2, <2>3, FS_AddElement
  <2>5. Cardinality(Executions(n)') <= 1 + MayRepeat(cmdOf'[n])
    BY <1>2 DEF RunsInv
  <2>6. Runs[n] < Limit[n]
    <3>1. Runs[n] = Cardinality(Executions(n)) /\ Limit[n] = 1 + MayRepeat(cmdOf[n])
      BY <1>2 DEF Runs, Limit
    <3>2. MayRepeat(cmdOf[n]) \in Nat
      BY ConstFacts
    <3>3. QED
      BY <2>3, <2>4, <2>5, <3>1, <3>2
  <2>7. Runs' = [Runs EXCEPT ![n] = @ + 1]
    <3>1. \A d \in Calls : d # n => Cardinality(Executions(d))' = Cardinality(Executions(d))
      BY <2>1
    <3>2. Cardinality(Executions(n))' = Cardinality(Executions(n)) + 1
      BY <2>4
    <3>3. QED
      BY <1>2, <3>1, <3>2 DEF Runs
  <2>8. QED
    BY <1>1, <1>2, <2>6, <2>7, RunIsStep
<1>5. QED
  BY <1>3, <1>4

LEMMA RefInit == Init => RC!Init
<1> SUFFICES ASSUME Init PROVE RC!Init
  OBVIOUS
<1>1. nextCall = 1 /\ \A n \in Calls : n >= nextCall
  BY BridgeAssumption DEF Init, Calls
<1>2. \A n \in Calls : Executions(n) = {}
  BY <1>1, CoreInit, ExecutionsBounded DEF CoreInv, BaseInv
<1>3. \A n \in Calls : Cardinality(Executions(n)) = 0
  BY <1>2, FS_EmptySet
<1>4. \A n \in Calls : PhaseOf(n) = "new"
  BY <1>1 DEF PhaseOf
<1>5. QED
  BY <1>1, <1>3, <1>4 DEF RC!Init

\* A thread whose attempt is over has ended its call, or goes on with it.
LEMMA OverIsStep ==
  ASSUME TypeOK, SlotInv, CallInv, NEW t \in Threads,
         AllocFull(t) \/ WriteError(t) \/ TakeReply(t) \/ GiveUp(t)
  PROVE  [RC!Next]_(RC!vars)
<1>1. /\ Active(t) /\ AttemptOver(t)
      /\ nextCall' = nextCall /\ cmdOf' = cmdOf /\ ran' = ran
  BY OverStep DEF calls
<1>2. Limit' = Limit /\ Runs' = Runs
  BY <1>1, LimitStays, RunsStay
<1>3. \A u \in Threads \ {t} : call'[u] = call[u]
  BY <1>1 DEF AttemptOver, Others
<1>4. CASE call'[t] = call[t]
  <2>1. \A n \in Calls : PhaseOf(n)' = PhaseOf(n)
    BY <1>1, <1>3, <1>4, PhaseStays
  <2>2. QED
    BY <1>2, <2>1, StutterIsStep DEF Phase
<1>5. CASE call'[t] = 0
  <2> PICK n : n = call[t]
    OBVIOUS
  <2>1. n \in Calls /\ n < nextCall /\ nextCall \in Nat /\ n \in Nat
    BY <1>1, BridgeAssumption DEF SlotInv, TypeOK, ThreadsOK, CallsOK, Calls
  <2>2. \A u \in Threads : u # t => call[u] # n
    BY <1>1, <2>1 DEF SlotInv, CallInv, Calls
  <2>3. \A u \in Threads : call'[u] # n
    BY <1>3, <1>5, <2>1, <2>2 DEF Calls
  <2>4. PhaseOf(n) = "open" /\ PhaseOf(n)' = "ended"
    BY <1>1, <2>1, <2>3 DEF PhaseOf
  <2>5. ASSUME NEW d \in Calls, d # n PROVE PhaseOf(d)' = PhaseOf(d)
    <3>1. (\E u \in Threads : call'[u] = d) <=> (\E u \in Threads : call[u] = d)
      BY <1>3, <1>5, <2>5 DEF Calls
    <3>2. QED
      BY <1>1, <3>1, PhaseStays
  <2>6. Phase[n] = "open" /\ Phase' = [Phase EXCEPT ![n] = "ended"]
    BY <2>1, <2>4, <2>5 DEF Phase
  <2>7. QED
    BY <1>2, <2>1, <2>6, EndIsStep
<1>6. QED
  BY <1>1, <1>4, <1>5 DEF AttemptOver

\* A thread that starts a call begins it.
LEMMA StartIsStep ==
  ASSUME TypeOK, SlotInv, CallInv, NEW t \in Threads, NEW c \in Cmds, StartCall(t, c)
  PROVE  RC!Next
<1> PICK n : n = nextCall
  OBVIOUS
<1>1. /\ pc[t] = "idle" /\ call' = [call EXCEPT ![t] = n]
      /\ cmdOf' = [cmdOf EXCEPT ![n] = c]
      /\ nextCall' = n + 1 /\ n <= MaxCalls /\ ran' = ran
  BY DEF StartCall
<1>2. /\ n \in Calls /\ n \in Nat /\ \A d \in Calls : d \in Nat /\ d \in 0..MaxCalls
      /\ call \in [Threads -> 0..MaxCalls]
      /\ cmdOf \in [0..MaxCalls -> Cmds \cup {PingCmd}]
  BY <1>1, BridgeAssumption DEF TypeOK, ThreadsOK, CallsOK, Calls
<1>3. call[t] = 0 /\ call'[t] = n /\ \A u \in Threads \ {t} : call'[u] = call[u]
  BY <1>1, <1>2 DEF CallInv, Active
<1>4. PhaseOf(n) = "new" /\ PhaseOf(n)' = "open"
  BY <1>1, <1>2, <1>3 DEF PhaseOf
<1>5. ASSUME NEW d \in Calls, d # n PROVE PhaseOf(d)' = PhaseOf(d)
  <2>1. (\E u \in Threads : call'[u] = d) <=> (\E u \in Threads : call[u] = d)
    BY <1>3, <1>5 DEF Calls
  <2>2. d >= nextCall' <=> d >= nextCall
    BY <1>1, <1>2, <1>5
  <2>3. QED
    BY <2>1, <2>2 DEF PhaseOf
<1>6. MayRepeat(c) \in {0, MaxRetries} /\ MaxRetries \in Nat
  BY BridgeAssumption DEF MayRepeat
<1>7. Limit' = [d \in Calls |-> IF d >= n + 1 THEN 0 ELSE 1 + MayRepeat(cmdOf'[d])]
  BY <1>1 DEF Limit
<1>8. /\ Limit'[n] = 1 + MayRepeat(c)
      /\ \A d \in Calls : d # n => Limit'[d] = Limit[d]
  <2>1. cmdOf'[n] = c /\ \A d \in Calls : d # n => cmdOf'[d] = cmdOf[d]
    BY <1>1, <1>2
  <2>2. \A d \in Calls : d # n => (d >= n + 1 <=> d >= n)
    BY <1>2
  <2>3. ~(n >= n + 1)
    BY <1>2
  <2>4. QED
    BY <1>2, <1>7, <2>1, <2>2, <2>3 DEF Limit
<1>9. Runs' = Runs
  BY <1>1, RunsStay
<1>10. Phase[n] = "new" /\ Phase' = [Phase EXCEPT ![n] = "open"]
  BY <1>2, <1>4, <1>5 DEF Phase
<1>11. Limit' = [Limit EXCEPT ![n] = 1 + MayRepeat(c)]
  BY <1>2, <1>7, <1>8 DEF Limit
<1>12. 1 + MayRepeat(c) \in {1, MaxRetries + 1}
  BY <1>6
<1>13. QED
  BY <1>2, <1>9, <1>10, <1>11, <1>12, BeginIsStep

LEMMA RefStep == RefInv /\ RunsInv' /\ [Next]_vars => [RC!Next]_(RC!vars)
<1> SUFFICES ASSUME TypeOK, SlotInv, FrameInv, CallInv, RunsInv', [Next]_vars
             PROVE  [RC!Next]_(RC!vars)
  BY DEF RefInv, CoreInv, BaseInv
<1>1. ASSUME UNCHANGED <<call, nextCall, cmdOf, ran>>
      PROVE  [RC!Next]_(RC!vars)
  BY <1>1, PhaseUntouched, LimitStays, RunsStay, StutterIsStep
<1>2. ASSUME NEW c \in {"down", "slow"}, chan[c] # <<>>,
             ran' = [ran EXCEPT ![Head(chan[c]).att] = @ + 1],
             UNCHANGED <<call, nextCall, cmdOf>>
      PROVE  [RC!Next]_(RC!vars)
  <2> DEFINE f == Head(chan[c])
  <2>1. c \in Channels /\ chan[c] \in Seq(Frame)
    BY DEF Channels, TypeOK, ChanOK
  <2>2. f \in Frame /\ f.att \in Attempt
    <3>1. f \in Frame
      BY <1>2, <2>1
    <3>2. QED
      BY <3>1 DEF Frame
  <2>3. Has(chan, c, f)
    BY <1>2, <2>1 DEF Has, At
  <2>4. Sent(f.att) /\ ran[f.att] = 0
    BY <2>1, <2>2, <2>3 DEF FrameInv
  <2>5. QED
    BY <1>2, <2>2, <2>4, ExecutionIsStep
<1>3. CASE RxInline
  BY <1>2, <1>3 DEF RxInline, threads, calls
<1>4. CASE SlowRun
  BY <1>2, <1>4 DEF SlowRun, threads, calls
<1>5. ASSUME NEW t \in Threads, NEW c \in Cmds, StartCall(t, c)
      PROVE  [RC!Next]_(RC!vars)
  BY <1>5, StartIsStep
<1>6. ASSUME NEW t \in Threads, AllocSeq(t) \/ Write(t)
      PROVE  [RC!Next]_(RC!vars)
  BY <1>1, <1>6 DEF AllocSeq, Write, calls
<1>7. ASSUME NEW t \in Threads, AllocFull(t) \/ WriteError(t) \/ TakeReply(t) \/ GiveUp(t)
      PROVE  [RC!Next]_(RC!vars)
  BY <1>7, OverIsStep
<1>8. CASE \/ ReadFrame \/ ReaderExit \/ RxEnqueue \/ CloseBegin \/ LinkDown \/ BoardReset
           \/ \E c \in Channels : LoseFrame(c)
           \/ UNCHANGED vars
  BY <1>1, <1>8 DEF ReadFrame, ReaderExit, RxEnqueue, CloseBegin, LinkDown, BoardReset,
                    LoseFrame, vars, threads, calls
<1>9. QED
  <2> HIDE DEF TypeOK
  <2> QED
    BY <1>3, <1>4, <1>5, <1>6, <1>7, <1>8 DEF Next, ThreadStep, Done

\* request() is a remote procedure call, for any number of threads, numbers,
\* retries, calls and faults: every step of the engine, the reader, the
\* firmware and the link is a step of RemoteCall or none of its steps.  A call
\* begins once, ends once, and its command is executed no more often than
\* Retries() lets it be sent.
THEOREM RefinesRemoteCall == Spec => RC!Spec
<1>1. Init => RefInv
  BY CoreInit DEF RefInv, CallInv, Init
<1>2. RefInv /\ [Next]_vars => RefInv'
  BY CoreStep, CallStep DEF RefInv
<1>3. RefInv => RunsInv
  BY RunsWithin DEF RefInv
<1>4. QED
  BY <1>1, <1>2, <1>3, RefInit, RefStep, PTL DEF Spec, RC!Spec
=============================================================================
