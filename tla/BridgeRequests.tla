--------------------------- MODULE BridgeRequests ---------------------------
(***************************************************************************)
(* The request engine of the host library (python/espbridge/bridge.py):    *)
(* threads that share one Bridge, the pending table keyed by the one-byte  *)
(* sequence number, the reader thread, the timeout, retry and              *)
(* confirming-ping logic of request(), and close().  The far end is the    *)
(* firmware as the host meets it (src/espbridge/protocol.cpp): fast        *)
(* handlers answered inline, slow ones queued for another task, a link     *)
(* that loses frames in both directions and can go down.                   *)
(*                                                                         *)
(* Every attempt to have a command executed is identified by the call it   *)
(* belongs to and its number within the call.  The identity is not on the  *)
(* wire: frames are matched by seq alone, and the model carries the        *)
(* identity along to say whether a match was the right one.                *)
(***************************************************************************)
EXTENDS Integers, Sequences, FiniteSets

CONSTANTS
  Threads,        \* host threads sharing the Bridge
  NSeq,           \* usable sequence numbers: 255 in the code
  Cmds,           \* commands the threads issue
  NonIdempotent,  \* commands of constants.NON_IDEMPOTENT
  SlowCmds,       \* commands slow_task executes; rx_task executes the others
  PingCmd,        \* SYS_PING
  MaxRetries,     \* Bridge(retries=...): 1 by default
  SlowDepth,      \* SLOWQ_DEPTH of the firmware
  MaxCalls,       \* bound of the model: calls made in one behaviour
  MaxFaults       \* bound of the model: frames lost, resets, closes, unplugs

ASSUME BridgeAssumption ==
  /\ NSeq \in Nat \ {0}
  /\ MaxRetries \in Nat
  /\ SlowDepth \in Nat \ {0}
  /\ MaxCalls \in Nat
  /\ MaxFaults \in Nat
  /\ NonIdempotent \subseteq Cmds
  /\ SlowCmds \subseteq Cmds
  /\ PingCmd \notin NonIdempotent \cup SlowCmds

Seqs    == 1..NSeq
PingTry == MaxRetries + 1   \* the confirming ping is the last try of a call

Attempt == [call : 0..MaxCalls, try : 0..PingTry]
NoAtt   == [call |-> 0, try |-> 0]
Frame   == [seq : Seqs, att : Attempt]
Channels == {"down", "slow", "up"}
PCs     == {"idle", "alloc", "write", "wait"}
Results == {"none", "ok", "timeout", "oserror"}

VARIABLES
  lastSeq,   \* _seq
  owner,     \* _pending: the attempt that holds each sequence number
  reply,     \* _Pending.frame: the attempt the stored reply answers
  woken,     \* _Pending.event
  pc, call, try, seq, result,   \* where each thread is in request()
  cmdOf,     \* the command of each call
  nextCall,  \* next call number to hand out
  closing, linkDead,            \* _closing, _link_dead
  readerUp,  \* the reader thread is in its loop
  up,        \* the link carries frames (port open, cable in)
  chan,      \* frames to the firmware, in slowq, and back to the host
  ran,       \* times the firmware executed each attempt
  faults,    \* faults so far
  orphans    \* attempts that ended without their own reply, sent or not

table   == <<lastSeq, owner, reply, woken>>
threads == <<pc, call, try, seq, result>>
calls   == <<nextCall, cmdOf>>
status  == <<closing, linkDead, readerUp, up>>
vars    == <<table, threads, calls, status, chan, ran, faults, orphans>>

TableOK ==
  /\ lastSeq \in 0..NSeq
  /\ owner \in [Seqs -> Attempt]
  /\ reply \in [Seqs -> Attempt]
  /\ woken \in [Seqs -> BOOLEAN]

ThreadsOK ==
  /\ pc \in [Threads -> PCs]
  /\ call \in [Threads -> 0..MaxCalls]
  /\ try \in [Threads -> 0..PingTry]
  /\ seq \in [Threads -> 0..NSeq]
  /\ result \in [Threads -> Results]

CallsOK ==
  /\ nextCall \in 1..(MaxCalls + 1)
  /\ cmdOf \in [0..MaxCalls -> Cmds \cup {PingCmd}]

StatusOK ==
  /\ closing \in BOOLEAN /\ linkDead \in BOOLEAN
  /\ readerUp \in BOOLEAN /\ up \in BOOLEAN

ChanOK ==
  /\ chan \in [Channels -> Seq(Frame)]
  /\ Len(chan["slow"]) <= SlowDepth

HistoryOK ==
  /\ ran \in [Attempt -> Nat]
  /\ faults \in 0..MaxFaults
  /\ orphans \in SUBSET Attempt

TypeOK == TableOK /\ ThreadsOK /\ CallsOK /\ StatusOK /\ ChanOK /\ HistoryOK

Init ==
  /\ lastSeq = 0
  /\ owner = [s \in Seqs |-> NoAtt]
  /\ reply = [s \in Seqs |-> NoAtt]
  /\ woken = [s \in Seqs |-> FALSE]
  /\ pc = [t \in Threads |-> "idle"]
  /\ cmdOf = [n \in 0..MaxCalls |-> PingCmd]
  /\ call = [t \in Threads |-> 0]
  /\ try = [t \in Threads |-> 0]
  /\ seq = [t \in Threads |-> 0]
  /\ result = [t \in Threads |-> "none"]
  /\ nextCall = 1
  /\ closing = FALSE
  /\ linkDead = FALSE
  /\ readerUp = TRUE
  /\ up = TRUE
  /\ chan = [c \in Channels |-> <<>>]
  /\ ran = [a \in Attempt |-> 0]
  /\ faults = 0
  /\ orphans = {}

-----------------------------------------------------------------------------
Cur(t)     == [call |-> call[t], try |-> try[t]]
Pinging(t) == try[t] = PingTry
Cmd(t)     == cmdOf[call[t]]

\* The command field of the frame an attempt sends.
WireCmd(a) == IF a.try = PingTry THEN PingCmd ELSE cmdOf[a.call]

\* Deliberately wrong (mutation of Retries): NON_IDEMPOTENT is not consulted.
RetriesAlways(c) == MaxRetries

\* request(): how often a timed-out command is sent again.
Retries(c) == IF c \in NonIdempotent THEN 0 ELSE MaxRetries

\* The number n places after lastSeq in the cycle 1..NSeq.
Cycle(n)   == ((lastSeq + n - 1) % NSeq) + 1
FreeSeqs   == {s \in Seqs : owner[s] = NoAtt}

\* Deliberately wrong (mutation of IsNextSeq): busy numbers are not skipped.
IsNextSeqUnchecked(s) == s = Cycle(1)

\* _alloc_seq(): the first unused number after the last one handed out.
IsNextSeq(s) ==
  \E n \in Seqs : /\ s = Cycle(n)
                  /\ s \in FreeSeqs
                  /\ \A m \in 1..(n - 1) : Cycle(m) \notin FreeSeqs

\* _pending.pop(seq): later replies with this number find nobody.
Release(t) ==
  /\ owner' = [owner EXCEPT ![seq[t]] = NoAtt]
  /\ reply' = [reply EXCEPT ![seq[t]] = NoAtt]
  /\ woken' = [woken EXCEPT ![seq[t]] = FALSE]
  /\ seq' = [seq EXCEPT ![t] = 0]
  /\ UNCHANGED lastSeq

\* request() returns or raises.
EndCall(t, r) ==
  /\ pc' = [pc EXCEPT ![t] = "idle"]
  /\ call' = [call EXCEPT ![t] = 0]
  /\ try' = [try EXCEPT ![t] = 0]
  /\ result' = [result EXCEPT ![t] = r]

NextTry(t, n) ==
  /\ pc' = [pc EXCEPT ![t] = "alloc"]
  /\ try' = [try EXCEPT ![t] = n]
  /\ UNCHANGED <<call, result, linkDead>>

\* Deliberately wrong (mutation of AfterTimeout): no confirming ping.
AfterTimeoutNoPing(t) ==
  \/ /\ try[t] < Retries(Cmd(t)) /\ ~closing
     /\ NextTry(t, try[t] + 1)
  \/ /\ ~(try[t] < Retries(Cmd(t))) \/ closing
     /\ EndCall(t, "timeout")
     /\ linkDead' = TRUE

\* What request() and _timeout_error() do once an attempt has failed with
\* BridgeTimeoutError: retry, confirm with one ping, or give up.
AfterTimeout(t) ==
  LET again == try[t] < Retries(Cmd(t)) IN
  \/ /\ ~Pinging(t) /\ again /\ ~closing
     /\ NextTry(t, try[t] + 1)
  \/ /\ ~Pinging(t) /\ ~again /\ ~closing /\ Cmd(t) # PingCmd
     /\ NextTry(t, PingTry)
  \/ /\ ~Pinging(t) /\ (closing \/ (~again /\ Cmd(t) = PingCmd))
     /\ EndCall(t, "timeout")
     /\ UNCHANGED linkDead
  \/ /\ Pinging(t)
     /\ EndCall(t, "timeout")
     /\ linkDead' = TRUE

-----------------------------------------------------------------------------
(* The calling threads *)

StartCall(t, c) ==
  /\ pc[t] = "idle"
  /\ nextCall <= MaxCalls
  /\ pc' = [pc EXCEPT ![t] = "alloc"]
  /\ call' = [call EXCEPT ![t] = nextCall]
  /\ result' = [result EXCEPT ![t] = "none"]
  /\ cmdOf' = [cmdOf EXCEPT ![nextCall] = c]
  /\ nextCall' = nextCall + 1
  /\ UNCHANGED <<table, try, seq, status, chan, ran, faults, orphans>>

AllocSeq(t) ==
  /\ pc[t] = "alloc"
  /\ \E s \in Seqs :
       /\ IsNextSeq(s)
       /\ lastSeq' = s
       /\ owner' = [owner EXCEPT ![s] = Cur(t)]
       /\ reply' = [reply EXCEPT ![s] = NoAtt]
       /\ woken' = [woken EXCEPT ![s] = FALSE]
       /\ seq' = [seq EXCEPT ![t] = s]
  /\ pc' = [pc EXCEPT ![t] = "write"]
  /\ UNCHANGED <<call, try, result, calls, status, chan, ran, faults, orphans>>

\* Every number is taken: _alloc_seq raises BridgeTimeoutError, and request()
\* treats it as a timeout though nothing was sent.
AllocFull(t) ==
  /\ pc[t] = "alloc"
  /\ FreeSeqs = {}
  /\ AfterTimeout(t)
  /\ orphans' = orphans \cup {Cur(t)}
  /\ UNCHANGED <<table, seq, calls, closing, readerUp, up, chan, ran, faults>>

\* The frame goes out under _write_lock.  On a dead link some transports
\* swallow the bytes, so the thread waits for an answer all the same.
Write(t) ==
  /\ pc[t] = "write"
  /\ pc' = [pc EXCEPT ![t] = "wait"]
  /\ chan' = IF up
             THEN [chan EXCEPT !["down"] = Append(@, [seq |-> seq[t], att |-> Cur(t)])]
             ELSE chan
  /\ UNCHANGED <<table, call, try, seq, result, calls, status, ran, faults, orphans>>

\* The transport raises: not a BridgeTimeoutError, so request() neither
\* retries nor pings; inside the confirming ping it counts as a dead link.
WriteError(t) ==
  /\ pc[t] = "write"
  /\ ~up
  /\ Release(t)
  /\ orphans' = orphans \cup {Cur(t)}
  /\ linkDead' = (linkDead \/ Pinging(t))
  /\ EndCall(t, IF Pinging(t) THEN "timeout" ELSE "oserror")
  /\ UNCHANGED <<calls, closing, readerUp, up, chan, ran, faults>>

\* A reply is there: the call is answered, or the confirming ping is and the
\* call reports a lost frame on a live link.
TakeReply(t) ==
  /\ pc[t] = "wait"
  /\ woken[seq[t]] /\ reply[seq[t]] # NoAtt
  /\ Release(t)
  /\ orphans' = IF reply[seq[t]] = Cur(t) THEN orphans ELSE orphans \cup {Cur(t)}
  /\ EndCall(t, IF Pinging(t) THEN "timeout" ELSE "ok")
  /\ UNCHANGED <<calls, status, chan, ran, faults>>

\* Deliberately wrong (mutation of GiveUp): the wait has no timeout.
GiveUpWhenWoken(t) ==
  /\ pc[t] = "wait"
  /\ woken[seq[t]] /\ reply[seq[t]] = NoAtt
  /\ Release(t)
  /\ orphans' = orphans \cup {Cur(t)}
  /\ AfterTimeout(t)
  /\ UNCHANGED <<calls, closing, readerUp, up, chan, ran, faults>>

\* The wait ran out, or the reader thread woke the waiter on its way out.
GiveUp(t) ==
  /\ pc[t] = "wait"
  /\ ~woken[seq[t]] \/ reply[seq[t]] = NoAtt
  /\ Release(t)
  /\ orphans' = orphans \cup {Cur(t)}
  /\ AfterTimeout(t)
  /\ UNCHANGED <<calls, closing, readerUp, up, chan, ran, faults>>

ThreadStep(t) ==
  AllocSeq(t) \/ AllocFull(t) \/ Write(t) \/ WriteError(t) \/ TakeReply(t) \/ GiveUp(t)

-----------------------------------------------------------------------------
(* The reader thread *)

\* Who a reply is handed to: _handle_frame looks at the number, nothing else.
Receiver(f) == owner[f.seq]

ReadFrame ==
  /\ readerUp /\ up
  /\ chan["up"] # <<>>
  /\ LET f == Head(chan["up"]) IN
       IF Receiver(f) # NoAtt
       THEN /\ reply' = [reply EXCEPT ![f.seq] = f.att]
            /\ woken' = [woken EXCEPT ![f.seq] = TRUE]
       ELSE UNCHANGED <<reply, woken>>
  /\ chan' = [chan EXCEPT !["up"] = Tail(@)]
  /\ UNCHANGED <<lastSeq, owner, threads, calls, status, ran, faults, orphans>>

\* Leaving the loop wakes every request that is registered at that moment.
ReaderExit ==
  /\ readerUp
  /\ closing \/ ~up
  /\ readerUp' = FALSE
  /\ woken' = [s \in Seqs |-> woken[s] \/ owner[s] # NoAtt]
  /\ UNCHANGED <<lastSeq, owner, reply, threads, calls, closing, linkDead, up,
                 chan, ran, faults, orphans>>

-----------------------------------------------------------------------------
(* The firmware *)

SendUp(f) == IF up THEN Append(chan["up"], f) ELSE chan["up"]

\* rx_task runs the handler inline and answers.
RxInline ==
  /\ chan["down"] # <<>>
  /\ LET f == Head(chan["down"]) IN
       /\ WireCmd(f.att) \notin SlowCmds
       /\ ran' = [ran EXCEPT ![f.att] = @ + 1]
       /\ chan' = [chan EXCEPT !["down"] = Tail(@), !["up"] = SendUp(f)]
  /\ UNCHANGED <<table, threads, calls, status, faults, orphans>>

\* Deliberately wrong (mutation of RxEnqueue): a full queue is not noticed.
RxEnqueueAlways ==
  /\ chan["down"] # <<>>
  /\ LET f == Head(chan["down"]) IN
       /\ WireCmd(f.att) \in SlowCmds
       /\ chan' = [chan EXCEPT !["down"] = Tail(@), !["slow"] = Append(@, f)]
  /\ UNCHANGED <<table, threads, calls, status, ran, faults, orphans>>

\* rx_task hands the request to slow_task, or answers ST_BUSY.
RxEnqueue ==
  /\ chan["down"] # <<>>
  /\ LET f == Head(chan["down"]) IN
       /\ WireCmd(f.att) \in SlowCmds
       /\ chan' = IF Len(chan["slow"]) < SlowDepth
                  THEN [chan EXCEPT !["down"] = Tail(@), !["slow"] = Append(@, f)]
                  ELSE [chan EXCEPT !["down"] = Tail(@), !["up"] = SendUp(f)]
  /\ UNCHANGED <<table, threads, calls, status, ran, faults, orphans>>

SlowRun ==
  /\ chan["slow"] # <<>>
  /\ LET f == Head(chan["slow"]) IN
       /\ ran' = [ran EXCEPT ![f.att] = @ + 1]
       /\ chan' = [chan EXCEPT !["slow"] = Tail(@), !["up"] = SendUp(f)]
  /\ UNCHANGED <<table, threads, calls, status, faults, orphans>>

-----------------------------------------------------------------------------
(* close() and the faults *)

Fault == faults < MaxFaults /\ faults' = faults + 1

CloseBegin ==
  /\ Fault
  /\ ~closing
  /\ closing' = TRUE
  /\ UNCHANGED <<table, threads, calls, linkDead, readerUp, up, chan, ran, orphans>>

\* The port disappears: _t.close() of close(), or the cable is pulled.
LinkDown ==
  /\ Fault
  /\ up
  /\ up' = FALSE
  /\ chan' = [chan EXCEPT !["down"] = <<>>, !["up"] = <<>>]
  /\ UNCHANGED <<table, threads, calls, closing, linkDead, readerUp, ran, orphans>>

\* A corrupted frame is dropped by the CRC check of the receiving end; a
\* reply is also dropped when its transmit queue stays full.
LoseFrame(c) ==
  /\ Fault
  /\ c # "slow"
  /\ chan[c] # <<>>
  /\ chan' = [chan EXCEPT ![c] = Tail(@)]
  /\ UNCHANGED <<table, threads, calls, status, ran, orphans>>

\* The board restarts: what it had not answered is gone.
BoardReset ==
  /\ Fault
  /\ chan["down"] # <<>> \/ chan["slow"] # <<>>
  /\ chan' = [chan EXCEPT !["down"] = <<>>, !["slow"] = <<>>]
  /\ UNCHANGED <<table, threads, calls, status, ran, orphans>>

-----------------------------------------------------------------------------
\* Every call of the bound has been made and has returned.
Done == /\ nextCall > MaxCalls
        /\ \A t \in Threads : pc[t] = "idle"
        /\ UNCHANGED vars

Next ==
  \/ \E t \in Threads : ThreadStep(t)
  \/ \E t \in Threads, c \in Cmds : StartCall(t, c)
  \/ ReadFrame \/ ReaderExit
  \/ RxInline \/ RxEnqueue \/ SlowRun
  \/ CloseBegin \/ LinkDown \/ BoardReset
  \/ \E c \in Channels : LoseFrame(c)
  \/ Done

Spec == Init /\ [][Next]_vars

\* Host threads keep being scheduled and every wait is bounded by a timeout.
\* Nothing is assumed of the link, the reader or the board.
FairSpec == Spec /\ \A t \in Threads : WF_vars(ThreadStep(t))

-----------------------------------------------------------------------------
(* Properties *)

Holding(t) == pc[t] \in {"write", "wait"}

\* A request keeps its entry of the pending table from the moment
\* _alloc_seq hands it out until request() removes it, whatever the other
\* threads allocate and release meanwhile.
SlotHeld == \A t \in Threads : Holding(t) => owner[seq[t]] = Cur(t)

\* A reply is stored in the entry of a request it does not answer only if
\* its own request ended without its reply before: a live request's reply
\* never goes to another one (_handle_frame matches by number alone).
ForeignReplyIsLate ==
  \A s \in Seqs : reply[s] # NoAtt => reply[s] \in orphans \cup {owner[s]}

\* How many attempts a command may have beyond the first: those of
\* constants.NON_IDEMPOTENT none.
MayRepeat(c) == IF c \in NonIdempotent THEN 0 ELSE MaxRetries

\* The firmware executes an attempt at most once, and a call has one attempt
\* more than its command may be retried: a command of NON_IDEMPOTENT is
\* executed at most once whatever is lost, late or timed out.
ExecutedAtMost ==
  \A a \in Attempt : ran[a] > 0 =>
    /\ ran[a] = 1
    /\ a.try = PingTry \/ a.try <= MayRepeat(cmdOf[a.call])

\* is_alive() turns false only after a confirming ping of request() failed:
\* no answer, a write error, or no number left to send it under.  A command
\* that times out while its ping is answered leaves the link alive.
DeadMeansPingFailed == linkDead => \E a \in orphans : a.try = PingTry

\* The answer of a request is the one the firmware gave to it.
OwnReply == \A s \in Seqs : reply[s] \in {NoAtt, owner[s]}

-----------------------------------------------------------------------------
(* A call as RemoteCall sees it *)

Calls == 1..MaxCalls

PhaseOf(n) == IF n >= nextCall THEN "new"
              ELSE IF \E t \in Threads : call[t] = n THEN "open" ELSE "ended"

\* One element for each time the firmware executed an attempt of the call;
\* its confirming ping is not one of them.
Executions(n) ==
  UNION {{k} \X (1..ran[[call |-> n, try |-> k]]) : k \in 0..MaxRetries}

RC == INSTANCE RemoteCall WITH
  MaxRuns <- MaxRetries + 1,
  phase <- [n \in Calls |-> PhaseOf(n)],
  limit <- [n \in Calls |-> IF n >= nextCall THEN 0 ELSE 1 + MayRepeat(cmdOf[n])],
  runs  <- [n \in Calls |-> Cardinality(Executions(n))]

=============================================================================
