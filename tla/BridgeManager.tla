---------------------------- MODULE BridgeManager ----------------------------
(***************************************************************************)
(* BridgeManager and the process-wide registry of                          *)
(* python/espbridge/manager.py: user threads and one heartbeat thread per  *)
(* manager that open, share, replace and close the link to one board.      *)
(*                                                                         *)
(* A Bridge is a number.  It is "opening" while its constructor runs,      *)
(* "open" until close() is entered, "closing" until close() has closed the *)
(* transport, then "closed".  All managers are for the same settings, that *)
(* is for the same port of the same board.                                 *)
(***************************************************************************)
EXTENDS Integers, FiniteSets

CONSTANTS
  Users,        \* threads of the application
  Ops,          \* what they do (see UserStep)
  MaxCalls,     \* bound of the model: calls the application makes
  MaxManagers,  \* bound of the model: managers created
  MaxBridges,   \* bound of the model: Bridge objects built
  MaxDrops      \* bound of the model: times the board drops off the link

Managers == 1..MaxManagers   \* a manager's number also names its heartbeat
Bridges  == 1..MaxBridges
Procs    == Users \cup Managers
Nobody   == 0
None     == 0

ASSUME ManagerAssumption ==
  /\ MaxCalls \in Nat
  /\ MaxManagers \in Nat
  /\ MaxBridges \in Nat
  /\ MaxDrops \in Nat
  /\ Users \cap Nat = {}
  /\ Ops \subseteq {"connect", "reconnect", "disconnect", "disconnect_all", "close"}

VARIABLES
  registry,  \* _shared: the manager registered for the settings, or None
  managers,  \* how many managers have been created
  cur,       \* _bridge of each manager
  lock,      \* holder of each manager's _lock
  stopped,   \* _ka_stop of each manager
  state, home, dead, lost,   \* each Bridge: life, manager, _link_dead, unplugged
  bridges,   \* how many Bridge objects have been built
  boardUp,   \* the board answers whoever opens it now
  drops, calls,
  built,     \* history: each manager's value of bridges when it was stopped
  pc, goal, mgr, seen        \* each thread: where it is and its locals

env         == <<registry, managers, stopped, boardUp, drops, calls, built>>
managerVars == <<cur, lock>>
linkVars    == <<state, home, dead, lost, bridges>>
procVars    == <<pc, goal, mgr, seen>>
vars        == <<env, managerVars, linkVars, procVars>>

LifeStates == {"none", "opening", "open", "closing", "closed"}
Goals == {"bridge", "reconnect", "disconnect"}
PCs == {"idle", "fast", "acquire", "locked", "close", "closed", "open", "opening",
        "wait", "tick", "ping", "exit", "closeDirect"}

TypeOK ==
  /\ registry \in Managers \cup {None}
  /\ managers \in 0..MaxManagers
  /\ cur \in [Managers -> Bridges \cup {None}]
  /\ lock \in [Managers -> Procs \cup {Nobody}]
  /\ stopped \in [Managers -> BOOLEAN]
  /\ state \in [Bridges -> LifeStates]
  /\ home \in [Bridges -> Managers \cup {None}]
  /\ dead \in [Bridges -> BOOLEAN]
  /\ lost \in [Bridges -> BOOLEAN]
  /\ bridges \in 0..MaxBridges
  /\ boardUp \in BOOLEAN
  /\ drops \in 0..MaxDrops
  /\ calls \in 0..MaxCalls
  /\ built \in [Managers -> 0..MaxBridges]
  /\ pc \in [Procs -> PCs]
  /\ goal \in [Procs -> Goals]
  /\ mgr \in [Procs -> Managers \cup {None}]
  /\ seen \in [Procs -> Bridges \cup {None}]
  /\ \A b \in Bridges : b > bridges => state[b] = "none"

Init ==
  /\ registry = None /\ managers = 0
  /\ cur = [m \in Managers |-> None]
  /\ lock = [m \in Managers |-> Nobody]
  /\ stopped = [m \in Managers |-> FALSE]
  /\ state = [b \in Bridges |-> "none"]
  /\ home = [b \in Bridges |-> None]
  /\ dead = [b \in Bridges |-> FALSE]
  /\ lost = [b \in Bridges |-> FALSE]
  /\ bridges = 0
  /\ boardUp = TRUE /\ drops = 0 /\ calls = 0
  /\ built = [m \in Managers |-> 0]
  /\ pc = [p \in Procs |-> "idle"]
  /\ goal = [p \in Procs |-> "bridge"]
  /\ mgr = [p \in Procs |-> None]
  /\ seen = [p \in Procs |-> None]

-----------------------------------------------------------------------------
\* Bridge.is_alive() and BridgeManager._stale().
IsAlive(b) == state[b] = "open" /\ ~dead[b]
Stale(b)   == b = None \/ ~IsAlive(b)

\* A request on this Bridge would be answered.
Answers(b) == state[b] = "open" /\ ~lost[b] /\ boardUp

Goto(p, where) == pc' = [pc EXCEPT ![p] = where]

\* Where a call of a manager's method returns to: the heartbeat to its wait.
Home(p) == IF p \in Managers THEN "wait" ELSE "idle"

\* One of the application's calls begins.
Calling(p) == pc[p] = "idle" /\ calls < MaxCalls /\ calls' = calls + 1

Unlock(m) == lock' = [lock EXCEPT ![m] = Nobody]

-----------------------------------------------------------------------------
(* What the application's threads call *)

\* Deliberately wrong (mutation of SharedConnect): the registry is not looked at.
SharedConnectAnew(p) ==
  /\ "connect" \in Ops
  /\ Calling(p)
  /\ registry' = managers + 1
  /\ managers' = managers + 1
  /\ mgr' = [mgr EXCEPT ![p] = managers + 1]
  /\ Goto(p, "fast")
  /\ goal' = [goal EXCEPT ![p] = "bridge"]
  /\ UNCHANGED <<managerVars, linkVars, stopped, boardUp, drops, built, seen>>

\* A manager and its heartbeat thread are created, or the registered one is
\* used: _shared_manager(), one step under _shared_lock.
SharedConnect(p) ==
  /\ "connect" \in Ops
  /\ Calling(p)
  /\ \/ /\ registry # None
        /\ mgr' = [mgr EXCEPT ![p] = registry]
        /\ pc' = [pc EXCEPT ![p] = "fast"]
        /\ UNCHANGED <<registry, managers>>
     \/ /\ registry = None /\ managers < MaxManagers
        /\ registry' = managers + 1
        /\ managers' = managers + 1
        /\ mgr' = [mgr EXCEPT ![p] = managers + 1, ![managers + 1] = managers + 1]
        /\ pc' = [pc EXCEPT ![p] = "fast", ![managers + 1] = "wait"]
  /\ goal' = [goal EXCEPT ![p] = "bridge"]
  /\ UNCHANGED <<managerVars, linkVars, stopped, boardUp, drops, built, seen>>

\* mgr.connect(), mgr.disconnect(): the application holds some manager.
CallManager(p, m, g) ==
  /\ g \in Ops \cap {"reconnect", "disconnect"}
  /\ Calling(p)
  /\ m <= managers
  /\ goal' = [goal EXCEPT ![p] = g]
  /\ mgr' = [mgr EXCEPT ![p] = m]
  /\ Goto(p, "acquire")
  /\ UNCHANGED <<managerVars, linkVars, registry, managers, stopped, boardUp,
                 drops, built, seen>>

\* disconnect_all(): forget the manager, then shut it down.  The stop event is
\* set a little after the registry is cleared; nothing but the heartbeat's wait
\* looks at it, so the two are one step here.
DisconnectAll(p) ==
  /\ "disconnect_all" \in Ops
  /\ Calling(p)
  /\ registry # None
  /\ registry' = None
  /\ stopped' = [stopped EXCEPT ![registry] = TRUE]
  /\ built' = [built EXCEPT ![registry] = bridges]
  /\ mgr' = [mgr EXCEPT ![p] = registry]
  /\ goal' = [goal EXCEPT ![p] = "disconnect"]
  /\ Goto(p, "acquire")
  /\ UNCHANGED <<managerVars, linkVars, managers, boardUp, drops, seen>>

\* A request on the Bridge the thread was given fails: its confirming ping
\* fails too and flags the link.
RequestFails(p) ==
  /\ p \in Users
  /\ pc[p] = "idle"
  /\ seen[p] # None
  /\ state[seen[p]] = "open" /\ ~Answers(seen[p])
  /\ dead' = [dead EXCEPT ![seen[p]] = TRUE]
  /\ UNCHANGED <<env, managerVars, procVars, state, home, lost, bridges>>

\* Bridge.close() called on the shared Bridge itself, for instance by
\* leaving a with block.  The flag comes first, the transport last.
CloseDirect(p) ==
  /\ "close" \in Ops
  /\ Calling(p)
  /\ seen[p] # None /\ state[seen[p]] = "open"
  /\ state' = [state EXCEPT ![seen[p]] = "closing"]
  /\ Goto(p, "closeDirect")
  /\ UNCHANGED <<managerVars, registry, managers, stopped, home, dead, lost,
                 bridges, boardUp, drops, built, goal, mgr, seen>>

CloseDirectEnd(p) ==
  /\ pc[p] = "closeDirect"
  /\ state' = [state EXCEPT ![seen[p]] = "closed"]
  /\ Goto(p, "idle")
  /\ UNCHANGED <<env, managerVars, home, dead, lost, bridges, goal, mgr, seen>>

-----------------------------------------------------------------------------
(* BridgeManager.bridge(), connect() and disconnect() *)

Return(p, b) ==
  /\ Goto(p, Home(p))
  /\ seen' = [seen EXCEPT ![p] = b]

\* bridge(): a healthy link is returned without the lock.
FastPath(p) ==
  /\ pc[p] = "fast"
  /\ LET b == cur[mgr[p]] IN
       IF Stale(b)
       THEN Goto(p, "acquire") /\ UNCHANGED seen
       ELSE Return(p, b)
  /\ UNCHANGED <<env, managerVars, linkVars, goal, mgr>>

\* Deliberately wrong (mutation of Acquire): bridge() does not wait for the lock.
AcquireBusy(p) ==
  /\ pc[p] = "acquire"
  /\ lock[mgr[p]] = Nobody \/ goal[p] = "bridge"
  /\ lock' = [lock EXCEPT ![mgr[p]] = p]
  /\ Goto(p, IF goal[p] = "bridge" THEN "locked" ELSE "close")
  /\ UNCHANGED <<env, linkVars, cur, goal, mgr, seen>>

\* with self._lock, in each of the three methods.
Acquire(p) ==
  /\ pc[p] = "acquire"
  /\ lock[mgr[p]] = Nobody
  /\ lock' = [lock EXCEPT ![mgr[p]] = p]
  /\ Goto(p, IF goal[p] = "bridge" THEN "locked" ELSE "close")
  /\ UNCHANGED <<env, linkVars, cur, goal, mgr, seen>>

\* Deliberately wrong (mutation of Recheck): the link is replaced unseen.
RecheckSkipped(p) ==
  /\ pc[p] = "locked"
  /\ Goto(p, "close")
  /\ UNCHANGED <<env, managerVars, linkVars, goal, mgr, seen>>

\* bridge(), with the lock: look again before replacing anything.
Recheck(p) ==
  /\ pc[p] = "locked"
  /\ LET m == mgr[p] IN
       IF Stale(cur[m])
       THEN Goto(p, "close") /\ UNCHANGED <<lock, seen>>
       ELSE Return(p, cur[m]) /\ Unlock(m)
  /\ UNCHANGED <<env, linkVars, cur, goal, mgr>>

\* _close_locked(): Bridge.close() returns at once when another thread is in
\* it, and sets _closing otherwise.
CloseOld(p) ==
  /\ pc[p] = "close"
  /\ LET b == cur[mgr[p]] IN
       state' = IF b # None /\ state[b] = "open"
                THEN [state EXCEPT ![b] = "closing"] ELSE state
  /\ seen' = [seen EXCEPT ![p] = IF cur[mgr[p]] # None /\ state[cur[mgr[p]]] = "open"
                                 THEN cur[mgr[p]] ELSE None]
  /\ Goto(p, "closed")
  /\ UNCHANGED <<env, managerVars, home, dead, lost, bridges, goal, mgr>>

\* close() has closed the transport and the manager forgets the Bridge.
CloseOldEnd(p) ==
  /\ pc[p] = "closed"
  /\ LET m == mgr[p] IN
       /\ state' = IF seen[p] # None THEN [state EXCEPT ![seen[p]] = "closed"] ELSE state
       /\ cur' = [cur EXCEPT ![m] = None]
       /\ seen' = [seen EXCEPT ![p] = None]
       /\ IF goal[p] = "disconnect"
          THEN Goto(p, Home(p)) /\ Unlock(m)
          ELSE Goto(p, "open") /\ UNCHANGED lock
  /\ UNCHANGED <<env, home, dead, lost, bridges, goal, mgr>>

\* Bridge(**kwargs) opens the transport ...
OpenBegin(p) ==
  /\ pc[p] = "open"
  /\ bridges < MaxBridges
  /\ LET b == bridges + 1 IN
       /\ bridges' = b
       /\ state' = [state EXCEPT ![b] = "opening"]
       /\ home' = [home EXCEPT ![b] = mgr[p]]
       /\ seen' = [seen EXCEPT ![p] = b]
  /\ Goto(p, "opening")
  /\ UNCHANGED <<env, managerVars, dead, lost, goal, mgr>>

\* ... and the handshake succeeds,
OpenDone(p) ==
  /\ pc[p] = "opening"
  /\ boardUp /\ ~lost[seen[p]]
  /\ state' = [state EXCEPT ![seen[p]] = "open"]
  /\ cur' = [cur EXCEPT ![mgr[p]] = seen[p]]
  /\ Unlock(mgr[p])
  /\ Goto(p, Home(p))
  /\ UNCHANGED <<env, home, dead, lost, bridges, goal, mgr, seen>>

\* Deliberately wrong (mutation of OpenFail): the exception leaves the lock taken.
OpenFailLocked(p) ==
  /\ pc[p] = "opening"
  /\ ~boardUp \/ lost[seen[p]]
  /\ state' = [state EXCEPT ![seen[p]] = "closed"]
  /\ seen' = [seen EXCEPT ![p] = None]
  /\ Goto(p, Home(p))
  /\ UNCHANGED <<env, managerVars, home, dead, lost, bridges, goal, mgr>>

\* or the constructor closes what it opened and raises.
OpenFail(p) ==
  /\ pc[p] = "opening"
  /\ ~boardUp \/ lost[seen[p]]
  /\ state' = [state EXCEPT ![seen[p]] = "closed"]
  /\ seen' = [seen EXCEPT ![p] = None]
  /\ Unlock(mgr[p])
  /\ Goto(p, Home(p))
  /\ UNCHANGED <<env, cur, home, dead, lost, bridges, goal, mgr>>

-----------------------------------------------------------------------------
(* _keepalive_loop *)

\* Deliberately wrong (mutation of Tick): no link counts as a stale one.
TickOnNone(m) ==
  /\ pc[m] = "wait"
  /\ \/ stopped[m] /\ Goto(m, "exit") /\ UNCHANGED seen
     \/ /\ ~stopped[m]
        /\ seen' = [seen EXCEPT ![m] = cur[m]]
        /\ Goto(m, "tick")
  /\ UNCHANGED <<env, managerVars, linkVars, goal, mgr>>

\* Deliberately wrong (mutation of Tick): the stop event is not looked at.
TickForEver(m) ==
  /\ pc[m] = "wait"
  /\ cur[m] # None
  /\ seen' = [seen EXCEPT ![m] = cur[m]]
  /\ Goto(m, "tick")
  /\ UNCHANGED <<env, managerVars, linkVars, goal, mgr>>

\* The wait ends: the heartbeat stops, finds no link, or has one to look at.
Tick(m) ==
  /\ pc[m] = "wait"
  /\ \/ stopped[m] /\ Goto(m, "exit") /\ UNCHANGED seen
     \/ /\ ~stopped[m] /\ cur[m] # None
        /\ seen' = [seen EXCEPT ![m] = cur[m]]
        /\ Goto(m, "tick")
  /\ UNCHANGED <<env, managerVars, linkVars, goal, mgr>>

\* The link it read is stale, so it calls bridge(); or it is pinged.
Beat(m) ==
  /\ pc[m] = "tick"
  /\ IF Stale(seen[m]) THEN Goto(m, "fast") ELSE Goto(m, "ping")
  /\ UNCHANGED <<env, managerVars, linkVars, goal, mgr, seen>>

\* What the heartbeat's own ping leaves of _link_dead: request() confirms a
\* timeout with a ping only when the timed-out command is not itself SYS_PING.
AfterPing(b) == dead

\* The ping is answered or not; its exception is swallowed.
Ping(m) ==
  /\ pc[m] = "ping"
  /\ dead' = AfterPing(seen[m])
  /\ Goto(m, "wait")
  /\ UNCHANGED <<env, managerVars, state, home, lost, bridges, goal, mgr, seen>>

-----------------------------------------------------------------------------
(* The board *)

\* Unplugged or browned out: open links are lost, new ones fail.
BoardDrops ==
  /\ boardUp /\ drops < MaxDrops
  /\ boardUp' = FALSE
  /\ drops' = drops + 1
  /\ lost' = [b \in Bridges |-> lost[b] \/ state[b] \in {"opening", "open", "closing"}]
  /\ UNCHANGED <<managerVars, procVars, calls, built, registry, managers, stopped,
                 state, home, dead, bridges>>

BoardReturns ==
  /\ ~boardUp
  /\ boardUp' = TRUE
  /\ UNCHANGED <<managerVars, linkVars, procVars, calls, built, registry, managers,
                 stopped, drops>>

-----------------------------------------------------------------------------
UserStep(p) ==
  \/ SharedConnect(p) \/ DisconnectAll(p) \/ RequestFails(p) \/ CloseDirect(p)
  \/ \E m \in Managers, g \in Goals : CallManager(p, m, g)

\* What a thread does once it is inside a call.
CallStep(p) ==
  \/ FastPath(p) \/ Acquire(p) \/ Recheck(p) \/ CloseOld(p) \/ CloseOldEnd(p)
  \/ OpenBegin(p) \/ OpenDone(p) \/ OpenFail(p) \/ CloseDirectEnd(p)

HeartbeatStep(m) == Tick(m) \/ Beat(m) \/ Ping(m)

\* Every call of the bound was made and has returned.
Done ==
  /\ calls = MaxCalls
  /\ \A p \in Procs : pc[p] \in {"idle", "wait", "exit"}
  /\ UNCHANGED vars

Next ==
  \/ \E p \in Users : UserStep(p)
  \/ \E p \in Procs : CallStep(p)
  \/ \E m \in Managers : HeartbeatStep(m)
  \/ BoardDrops \/ BoardReturns
  \/ Done

Spec == Init /\ [][Next]_vars

\* Threads inside a call and heartbeats keep running, every open and every
\* close takes finite time, and a board that dropped comes back.
FairSpec ==
  /\ Spec
  /\ \A p \in Procs : WF_vars(CallStep(p)) /\ SF_vars(Acquire(p))
  /\ \A m \in Managers : WF_vars(HeartbeatStep(m))
  /\ WF_vars(BoardReturns)

-----------------------------------------------------------------------------
(* Properties *)

\* A Bridge that holds the port.
HoldsPort(b) == state[b] \in {"opening", "open", "closing"}

\* The application itself is closing this Bridge.
AppCloses(b) == \E p \in Users : pc[p] = "closeDirect" /\ seen[p] = b

\* A disconnect of this manager is on its way and has not closed the link yet.
BeingShutDown(m) ==
  \E p \in Users :
    mgr[p] = m /\ goal[p] = "disconnect" /\ pc[p] \in {"acquire", "close", "closed"}

\* The link of a manager that disconnect_all() has forgotten: not closed yet,
\* or opened after the manager was stopped.
Forgotten(b) ==
  stopped[home[b]] /\ (BeingShutDown(home[b]) \/ b > built[home[b]])

\* "A board's link can't be opened twice": two Bridges are on the port at one
\* time only in three cases.
\*  - The application is in close() of one of them: close() by a second thread
\*    returns at once, so the manager does not wait for the first.
\*  - disconnect_all() has cleared the registry and has not closed that
\*    manager's link yet, when a connect() builds a manager and opens another.
\*  - One was opened by a manager after disconnect_all() had stopped it: by a
\*    connect() that had looked the manager up before, by a heartbeat that was
\*    past its wait, or by mgr.connect() of the manager the application kept.
\* A manager that is not stopped never has a second link, and a stopped one
\* keeps none from before once its disconnect is through.
OneLink ==
  \A b, c \in Bridges : HoldsPort(b) /\ HoldsPort(c) /\ b # c =>
    \/ AppCloses(b) \/ AppCloses(c)
    \/ home[b] # home[c] /\ (Forgotten(b) \/ Forgotten(c))

\* A healthy link is closed only by a thread that asked for it, through
\* connect() or disconnect() of its manager or close() of the Bridge itself:
\* a bridge() call that found an older link stale does not take it away.
HealthyLinkIsKept ==
  [][\A b \in Bridges : IsAlive(b) /\ state'[b] # "open" =>
       \E p \in Users :
         \/ /\ pc[p] = "close" /\ pc'[p] = "closed"
            /\ mgr[p] = home[b] /\ goal[p] \in {"reconnect", "disconnect"}
         \/ pc[p] = "idle" /\ pc'[p] = "closeDirect" /\ seen[p] = b]_vars

\* The heartbeat replaces a link, it never opens the first one of a manager.
HeartbeatOnlyReplaces ==
  \A m \in Managers : pc[m] = "opening" => \E b \in 1..(seen[m] - 1) : home[b] = m

\* bridge(), connect() and disconnect() return or raise: the lock is given
\* back whether or not the board could be opened.
CallReturns == \A p \in Users : pc[p] # "idle" ~> pc[p] = "idle"

\* shutdown() ends the heartbeat, whatever it was doing when the event was set.
HeartbeatEnds == \A m \in Managers : stopped[m] ~> pc[m] = "exit"

\* The heartbeat notices a link that was lost while nobody used it.
HeartbeatNoticesDrop ==
  \A m \in Managers, b \in Bridges :
    cur[m] = b /\ lost[b] /\ ~stopped[m] ~> cur[m] # b \/ ~IsAlive(b) \/ stopped[m]

=============================================================================
