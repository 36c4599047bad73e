------------------------------ MODULE WatchRules ------------------------------
(***************************************************************************)
(* Watch rules: the table of callbacks of the host                         *)
(* (python/espbridge/watch.py), used by several threads, and the engine of *)
(* the board that samples a source and reports changes                     *)
(* (src/esp/mod_watch.cpp).  Requests and polls run on the board's slow    *)
(* task, so they alternate; events and replies leave by one queue.         *)
(*                                                                         *)
(* gen numbers the calls of add(), and so the rules and their callbacks.   *)
(***************************************************************************)
EXTENDS Naturals, Sequences, FiniteSets

CONSTANTS
  Threads,
  Ids,       \* the ids of rules, 1..255 in the code
  Slots,     \* WATCH_MAX, rules the board can hold
  TxSlots,   \* events the board's transmit queue takes; replies always find room
  Values,    \* what the source can read: 0 .. 2
  Adds,      \* bound of the model: calls of add()
  Faults     \* bound of the model: requests that time out

VARIABLES
  host,    \* Watch: _ids, _cbs; the threads' calls; what callbacks were told
  board,   \* the rules and the level of the source
  wire     \* events and replies on their way; what was dropped

vars == <<host, board, wire>>

Gens == 1 .. Adds
Engage  == 2   \* above=2, hysteresis=2: releases below 1
Release == 1
Idle == [op |-> "none", at |-> "idle", id |-> 0, gen |-> 0, seq |-> 0]
Unknown == 9   \* no event told the callbacks anything yet

TypeOK ==
  /\ host.ids \subseteq Ids /\ host.cbs \in [Ids -> SUBSET Gens]
  /\ host.told \in [Gens -> {0, 1, Unknown}] /\ host.gen \in 0 .. Adds
  /\ \A t \in Threads :
       /\ host.call[t].op \in {"none", "add", "remove", "clear"}
       /\ host.call[t].at \in {"idle", "register", "sent", "done", "ok", "err"}
  /\ \A r \in board.rules : r.id \in Ids /\ r.gen \in Gens /\ r.state \in {0, 1}
  /\ Cardinality(board.rules) <= Slots
  /\ wire.faults \in 0 .. Faults

Init ==
  /\ host = [ids |-> {}, cbs |-> [i \in Ids |-> {}], told |-> [g \in Gens |-> Unknown],
             gen |-> 0, seq |-> 0, call |-> [t \in Threads |-> Idle], returned |-> {},
             upset |-> {}, foreign |-> FALSE]
  /\ board = [rules |-> {}, value |-> 0]
  /\ wire = [queue |-> <<>>, dropped |-> FALSE, faults |-> Faults]

\* A call of thread t; one that overlaps a clear() upsets every id.
Call(t, c) ==
  LET others == {host.call[u].op : u \in Threads \ {t}}
      mixed == \/ "clear" \in others /\ c # Idle
               \/ c.op = "clear" /\ others \ {"none"} # {}
  IN [host EXCEPT !.call[t] = c, !.upset = @ \cup (IF mixed THEN Ids ELSE {})]
\* A new one: the bridge numbers its requests, and replies by them.
Begin(t, op, id, gen) ==
  [Call(t, [op |-> op, at |-> IF op = "add" THEN "register" ELSE "sent", id |-> id, gen |-> gen,
            seq |-> host.seq + 1])
   EXCEPT !.seq = @ + 1]
At(t, op, at) == host.call[t].op = op /\ host.call[t].at = at

----------------------------------------------------------------------------
(* The host's calls *)

\* _alloc_id(), or an id of the caller's: one in use then is given its rule anew.
AddAlloc(t, id, own) ==
  /\ host.call[t] = Idle /\ host.gen < Adds
  /\ own \/ (id \notin host.ids /\ \A free \in Ids \ host.ids : id <= free)
  /\ host' = [Begin(t, "add", id, host.gen + 1)
              EXCEPT !.gen = @ + 1,
                     !.upset = @ \cup (IF own /\ id \in host.ids THEN {id} ELSE {})]
  /\ UNCHANGED <<board, wire>>

\* The callback is registered before the rule is armed.  Another thread may have been
\* given the same id since.
AddRegister(t) ==
  /\ At(t, "add", "register")
  /\ LET c == host.call[t] IN
     host' = [Call(t, [c EXCEPT !.at = "sent"])
              EXCEPT !.ids = @ \cup {c.id}, !.cbs[c.id] = @ \cup {c.gen},
                     !.upset = @ \cup (IF c.id \in host.ids THEN {c.id} ELSE {})]
  /\ UNCHANGED <<board, wire>>

\* Deliberately wrong (mutation of Remove): the host forgets the rule first.
RemoveLocalFirst(t, id) ==
  /\ host.call[t] = Idle /\ host.cbs[id] \cap host.returned # {}
  /\ host' = [Begin(t, "remove", id, 0) EXCEPT !.ids = @ \ {id}, !.cbs[id] = {}]
  /\ UNCHANGED <<board, wire>>

\* A caller removes an id that an add() has returned.
Remove(t, id) ==
  /\ host.call[t] = Idle /\ host.cbs[id] \cap host.returned # {}
  /\ host' = Begin(t, "remove", id, 0)
  /\ UNCHANGED <<board, wire>>

\* clear() forgets what it finds when its reply comes, adds of others included.
Clear(t) ==
  /\ host.call[t] = Idle /\ host.ids # {}
  /\ host' = Begin(t, "clear", 0, 0)
  /\ UNCHANGED <<board, wire>>

\* request() raises BridgeTimeoutError; nothing is undone.
GiveUp(t) ==
  /\ host.call[t].at \in {"sent", "done"} /\ wire.faults > 0
  /\ wire' = [wire EXCEPT !.faults = @ - 1]
  /\ host' = Call(t, Idle)
  /\ UNCHANGED board

\* The ids that other threads have a call under way for.
Contended(t) == {host.call[u].id : u \in Threads \ {t}}

\* The call goes on with its reply.
Finish(t) ==
  /\ host.call[t].at \in {"ok", "err"}
  /\ LET c == host.call[t] IN
     host' =
       CASE c.op = "add" /\ c.at = "ok" ->
              [Call(t, Idle) EXCEPT !.returned = @ \cup {c.gen}]
         [] c.op = "add" /\ c.at = "err" ->
              [Call(t, Idle) EXCEPT !.ids = @ \ {c.id}, !.cbs[c.id] = {}]
         [] c.op = "remove" ->
              [Call(t, Idle) EXCEPT !.ids = @ \ {c.id}, !.cbs[c.id] = {},
                                    !.upset = @ \cup (Contended(t) \cap {c.id})]
         [] c.op = "clear" ->
              [Call(t, Idle) EXCEPT
                 !.ids = {}, !.cbs = [i \in Ids |-> {}]]
  /\ UNCHANGED <<board, wire>>

----------------------------------------------------------------------------
(* The board *)

Of(id) == {r \in board.rules : r.id = id}

\* watch_handle(): ADD replaces a rule with the id, and needs a slot otherwise.
Execute(t) ==
  /\ host.call[t].at = "sent"
  /\ LET c == host.call[t]
         rule == [id |-> c.id, gen |-> c.gen, state |-> 0, primed |-> FALSE]
         full == Of(c.id) = {} /\ Cardinality(board.rules) = Slots
     IN /\ board' = [board EXCEPT !.rules =
                       CASE c.op = "add" -> IF full THEN @ ELSE (@ \ Of(c.id)) \cup {rule}
                         [] c.op = "remove" -> @ \ Of(c.id)
                         [] c.op = "clear" -> {}]
        /\ wire' = [wire EXCEPT !.queue = Append(@, [kind |-> "reply", thread |-> t, seq |-> c.seq,
                      at |-> IF c.op = "add" /\ full THEN "err" ELSE "ok"])]
        /\ host' = Call(t, [c EXCEPT !.at = "done"])

\* threshold_active() of an above rule with hysteresis.
ThresholdActive(r, v) ==
  IF r.state = 1 THEN (IF v < Release THEN 0 ELSE 1) ELSE (IF v >= Engage THEN 1 ELSE 0)

Reports == SelectSeq(wire.queue, LAMBDA f : f.kind = "event")

\* Deliberately wrong (mutation of Poll): the first sample is kept to the board.
PollFirstSilently(r) ==
  /\ LET state == ThresholdActive(r, board.value) IN
     /\ ~r.primed \/ state # r.state
     /\ board' = [board EXCEPT !.rules = (@ \ {r}) \cup {[r EXCEPT !.state = state, !.primed = TRUE]}]
     /\ wire' = IF Len(Reports) = TxSlots THEN [wire EXCEPT !.dropped = TRUE]
                ELSE IF ~r.primed THEN wire
                ELSE [wire EXCEPT !.queue = Append(@, [kind |-> "event", id |-> r.id,
                                                       gen |-> r.gen, state |-> state])]
  /\ UNCHANGED host

\* watch_poll(): a rule reports its first sample and then every change, once; the
\* transmit queue drops an event that finds it full.
Poll(r) ==
  /\ LET state == ThresholdActive(r, board.value) IN
     /\ ~r.primed \/ state # r.state
     /\ board' = [board EXCEPT !.rules = (@ \ {r}) \cup {[r EXCEPT !.state = state, !.primed = TRUE]}]
     /\ wire' = IF Len(Reports) = TxSlots THEN [wire EXCEPT !.dropped = TRUE]
                ELSE [wire EXCEPT !.queue = Append(@, [kind |-> "event", id |-> r.id,
                                                       gen |-> r.gen, state |-> state])]
  /\ UNCHANGED host

SourceMoves(v) ==
  /\ board.value # v
  /\ board' = [board EXCEPT !.value = v]
  /\ UNCHANGED <<host, wire>>

----------------------------------------------------------------------------
(* The reader thread *)

\* _on_event(): every callback under the id, whichever rule it was added for.
Deliver ==
  /\ wire.queue # <<>>
  /\ wire' = [wire EXCEPT !.queue = Tail(@)]
  /\ LET f == Head(wire.queue) IN
     host' = IF f.kind = "event"
             THEN [host EXCEPT !.told = [g \in Gens |-> IF g \in host.cbs[f.id] THEN f.state ELSE @[g]],
                               !.foreign = @ \/ (host.cbs[f.id] \ {f.gen} # {} /\ f.id \notin host.upset)]
             ELSE IF host.call[f.thread].seq = f.seq
             THEN [host EXCEPT !.call[f.thread].at = f.at]
             ELSE host
  /\ UNCHANGED board

Rest ==
  /\ host.gen = Adds /\ \A t \in Threads : host.call[t] = Idle
  /\ UNCHANGED vars

Next ==
  \/ \E t \in Threads :
       \/ \E id \in Ids, own \in BOOLEAN : AddAlloc(t, id, own)
       \/ \E id \in Ids : Remove(t, id)
       \/ AddRegister(t) \/ Clear(t) \/ GiveUp(t) \/ Finish(t) \/ Execute(t)
  \/ \E r \in board.rules : Poll(r)
  \/ \E v \in Values : SourceMoves(v)
  \/ Deliver \/ Rest

Spec == Init /\ [][Next]_vars

----------------------------------------------------------------------------

(***************************************************************************)
(* The callback of a rule that add() returned is registered for as long as *)
(* the board has the rule, and a callback is told only of its own rule,    *)
(* unless an id was reused by its caller or by two threads at once, or a   *)
(* clear() came between (add, remove, clear, _on_event).                   *)
(***************************************************************************)
RuleHasItsListener ==
  /\ \A r \in board.rules :
       r.gen \in host.returned /\ r.id \notin host.upset => r.gen \in host.cbs[r.id]
  /\ ~host.foreign

(***************************************************************************)
(* With nothing on its way and no event dropped, a callback was told the   *)
(* state its rule is in, the first one included; after a drop it may stay  *)
(* wrong until the rule changes again (watch_poll, add).                   *)
(***************************************************************************)
CallbackKnowsState ==
  wire.queue = <<>> /\ ~wire.dropped =>
    \A r \in board.rules :
      r.primed /\ r.gen \in host.returned /\ r.id \notin host.upset
        => host.told[r.gen] = r.state
=============================================================================
