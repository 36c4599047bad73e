------------------------ MODULE BridgeManager_proofs ------------------------
(***************************************************************************)
(* Proofs about BridgeManager for any number of threads, managers, Bridges *)
(* and calls.                                                              *)
(*                                                                         *)
(* TypeOK is not inductive by itself: what a thread does to a manager and  *)
(* to a Bridge keeps their types only if the thread knows them, and that   *)
(* rests on the order in which the code learns of them.  BaseInv adds      *)
(* this, LinkInv adds who may change a link, RegInv that a manager which   *)
(* is not registered any more was stopped, LeftInv that what a stopped     *)
(* manager had is gone once its disconnect is through, and OneLink follows *)
(* from them.                                                              *)
(* StaleInv says what bridge() may rely on once it has the lock, BeatInv   *)
(* what the heartbeat may.                                                 *)
(***************************************************************************)
EXTENDS BridgeManager, TLAPS

\* Places of a thread that is between "with self._lock" and its end.
Critical == {"locked", "close", "closed", "open", "opening"}

\* A thread in the locked part of a method has the lock of its manager.
LockInv ==
  \A p \in Procs : pc[p] \in Critical => mgr[p] \in Managers /\ lock[mgr[p]] = p

\* A thread on its way to the lock knows its manager, the heartbeat of a
\* manager that does not exist yet does nothing, and only heartbeats tick.
PlaceInv ==
  /\ registry <= managers
  /\ \A p \in Procs : pc[p] \in {"fast", "acquire"} => mgr[p] \in Managers
  /\ \A m \in Managers : m > managers => pc[m] = "idle"
  /\ \A m \in Managers : m <= managers => mgr[m] = m
  /\ \A p \in Procs : pc[p] \in {"tick", "ping"} => p \in Managers

\* Every Bridge that a thread or a manager has was built.
BuiltInv ==
  /\ \A p \in Procs : seen[p] # None => state[seen[p]] # "none"
  /\ \A m \in Managers : cur[m] # None => state[cur[m]] # "none"
  /\ \A p \in Procs : pc[p] \in {"opening", "closeDirect"} => seen[p] # None
  /\ \A b \in Bridges : b > bridges => state[b] = "none"

BaseInv == TypeOK /\ LockInv /\ PlaceInv /\ BuiltInv

\* What the thread in the locked part knows of the Bridge it works on.
WorkInv ==
  \A p \in Procs :
    /\ pc[p] = "closeDirect" => p \in Users
    /\ pc[p] \in {"open", "opening"} => cur[mgr[p]] = None
    /\ pc[p] = "opening" => /\ state[seen[p]] = "opening"
                            /\ home[seen[p]] = mgr[p]
    /\ pc[p] = "closed" /\ seen[p] # None => seen[p] = cur[mgr[p]]
    /\ pc[p] = "closed" /\ seen[p] = None /\ cur[mgr[p]] # None =>
         state[cur[mgr[p]]] # "open"

\* The thread that opens a Bridge is there.
OpenerInv ==
  \A b \in Bridges : state[b] = "opening" =>
    \E p \in Procs : pc[p] = "opening" /\ seen[p] = b

\* So is the one thread that closes it, inside its manager or outside.
Closing(p) == pc[p] \in {"closed", "closeDirect"} /\ seen[p] # None

CloserInv ==
  /\ \A p \in Procs : Closing(p) => state[seen[p]] = "closing"
  /\ \A p, q \in Procs : Closing(p) /\ Closing(q) /\ seen[p] = seen[q] => p = q
  /\ \A b \in Bridges : state[b] = "closing" =>
       \E p \in Procs : Closing(p) /\ seen[p] = b

\* A Bridge that is open is the link of its manager.
CurInv ==
  /\ \A b \in Bridges : state[b] = "open" => home[b] \in Managers /\ cur[home[b]] = b
  /\ \A m \in Managers : cur[m] # None =>
       state[cur[m]] \in {"open", "closing", "closed"} /\ home[cur[m]] = m

LinkInv == WorkInv /\ OpenerInv /\ CloserInv /\ CurInv

\* Every manager that was created is the registered one, or was stopped.
RegInv ==
  /\ \A m \in Managers : m <= managers /\ ~stopped[m] => registry = m
  /\ \A p \in Procs : mgr[p] # None => mgr[p] <= managers
  /\ \A b \in Bridges : home[b] # None => home[b] <= managers

\* A link from before its manager was stopped is on the port only until the
\* disconnect is through, or while the application itself closes it.
LeftInv ==
  /\ \A m \in Managers : built[m] <= bridges
  /\ \A m \in Managers, b \in Bridges :
       HoldsPort(b) /\ home[b] = m /\ stopped[m] /\ b <= built[m] =>
         AppCloses(b) \/ BeingShutDown(m)

-----------------------------------------------------------------------------
\* The identities of threads, managers and Bridges do not collide with 0.
LEMMA SetFacts ==
  /\ Users \subseteq Procs
  /\ Managers \subseteq Procs
  /\ Users \cap Managers = {}
  /\ \A p \in Procs : p \in Users \/ p \in Managers
  /\ Nobody \notin Procs
  /\ Managers \subseteq Nat \ {None}
  /\ Bridges \subseteq Nat \ {None}
  BY ManagerAssumption DEF Procs, Managers, Bridges, Nobody, None

LEMMA HomePlace ==
  \A p : Home(p) \in {"idle", "wait"} /\ (Home(p) = "wait" => p \in Managers)
  BY DEF Home

LEMMA BaseInit == Init => BaseInv
  BY ManagerAssumption DEF Init, BaseInv, TypeOK, LockInv, PlaceInv, BuiltInv,
     Procs, Managers, Bridges, LifeStates, Goals, PCs, Critical, None, Nobody

LEMMA BaseStep == BaseInv /\ [Next]_vars => BaseInv'
<1> SUFFICES ASSUME TypeOK, LockInv, PlaceInv, BuiltInv, [Next]_vars
             PROVE  TypeOK' /\ LockInv' /\ PlaceInv' /\ BuiltInv'
  BY DEF BaseInv
<1>1. TypeOK' /\ LockInv' /\ PlaceInv' /\ BuiltInv'
  <2> USE SetFacts, HomePlace
     DEF LifeStates, Goals, PCs, Critical, Goto, Unlock, Return, Calling,
          env, managerVars, linkVars, procVars
  <2>1. ASSUME NEW p \in Users, SharedConnect(p)
        PROVE  TypeOK' /\ LockInv' /\ PlaceInv' /\ BuiltInv'
    <3>1. TypeOK'
      <4>1. registry' \in Managers \cup {None} /\ managers' \in 0..MaxManagers
        BY ManagerAssumption, <2>1 DEF SharedConnect, TypeOK, Managers
      <4>2. pc' \in [Procs -> PCs] /\ mgr' \in [Procs -> Managers \cup {None}]
        <5>1. CASE registry = None
          <6>1. managers + 1 \in Managers
            BY ManagerAssumption, <2>1, <5>1 DEF SharedConnect, TypeOK, Managers
          <6>2. QED
            BY <2>1, <5>1, <6>1 DEF SharedConnect, TypeOK
        <5>2. CASE ~(registry = None)
          BY <2>1, <5>2 DEF SharedConnect, TypeOK
        <5>3. QED
          BY <5>1, <5>2
      <4>3. goal' \in [Procs -> Goals] /\ calls' \in 0..MaxCalls
        BY ManagerAssumption, <2>1 DEF SharedConnect, TypeOK
      <4>4. QED
        BY <2>1, <4>1, <4>2, <4>3 DEF SharedConnect, TypeOK
    <3>2. LockInv'
      <4>1. ASSUME NEW q \in Procs, pc'[q] \in Critical
            PROVE  pc[q] = pc'[q] /\ mgr'[q] = mgr[q] /\ lock' = lock
        <5>1. registry = None => managers + 1 \in Managers
          BY ManagerAssumption, <2>1 DEF SharedConnect, TypeOK, Managers
        <5>2. QED
          BY <2>1, <4>1, <5>1 DEF SharedConnect, TypeOK
      <4>2. QED
        BY <4>1 DEF LockInv
    <3>3. PlaceInv'
      <4>1. CASE ~(registry = None)
        BY <2>1, <4>1 DEF SharedConnect, PlaceInv, TypeOK
      <4>2. CASE registry = None
        <5>1. managers \in Nat /\ managers + 1 \in Managers
          BY ManagerAssumption, <2>1, <4>2 DEF SharedConnect, TypeOK, Managers
        <5>2. QED
          BY <2>1, <4>2, <5>1 DEF SharedConnect, PlaceInv, TypeOK
      <4>3. QED
        BY <4>1, <4>2
    <3>4. BuiltInv'
      BY ManagerAssumption, <2>1
         DEF SharedConnect, Managers, BuiltInv, TypeOK, LockInv, PlaceInv
    <3> QED
      BY <3>1, <3>2, <3>3, <3>4
  <2>2. ASSUME NEW p \in Users, DisconnectAll(p)
        PROVE  TypeOK' /\ LockInv' /\ PlaceInv' /\ BuiltInv'
    <3>1. TypeOK'
      <4>1. built' \in [Managers -> 0..MaxBridges]
        BY <2>2 DEF DisconnectAll, TypeOK
      <4>2. calls' \in 0..MaxCalls
        BY ManagerAssumption, <2>2 DEF DisconnectAll, TypeOK
      <4>3. QED
        BY <2>2, <4>1, <4>2 DEF DisconnectAll, TypeOK
    <3>2. LockInv'
      BY ManagerAssumption, <2>2 DEF DisconnectAll, None, LockInv, TypeOK, PlaceInv
    <3>3. PlaceInv'
      BY ManagerAssumption, <2>2 DEF DisconnectAll, None, PlaceInv, TypeOK, LockInv
    <3>4. BuiltInv'
      BY ManagerAssumption, <2>2
         DEF DisconnectAll, None, BuiltInv, TypeOK, LockInv, PlaceInv
    <3> QED
      BY <3>1, <3>2, <3>3, <3>4
  <2>3. ASSUME NEW p \in Users, RequestFails(p)
        PROVE  TypeOK' /\ LockInv' /\ PlaceInv' /\ BuiltInv'
    BY ManagerAssumption, <2>3
       DEF RequestFails, TypeOK, BuiltInv, LockInv, PlaceInv
  <2>4. ASSUME NEW p \in Users, CloseDirect(p)
        PROVE  TypeOK' /\ LockInv' /\ PlaceInv' /\ BuiltInv'
    BY ManagerAssumption, <2>4
       DEF CloseDirect, TypeOK, BuiltInv, LockInv, PlaceInv
  <2>5. ASSUME NEW p \in Users, NEW m \in Managers, NEW g \in Goals,
              CallManager(p, m, g)
       PROVE  TypeOK' /\ LockInv' /\ PlaceInv' /\ BuiltInv'
    BY ManagerAssumption, <2>5
       DEF CallManager, TypeOK, BuiltInv, LockInv, PlaceInv
  <2>6. ASSUME NEW p \in Procs, FastPath(p)
        PROVE  TypeOK' /\ LockInv' /\ PlaceInv' /\ BuiltInv'
    <3>1. TypeOK'
      <4>0. mgr[p] \in Managers
        BY <2>6 DEF FastPath, PlaceInv
      <4>1. CASE ~Stale(cur[mgr[p]])
        <5>1. /\ pc' = [pc EXCEPT ![p] = Home(p)]
              /\ seen' = [seen EXCEPT ![p] = cur[mgr[p]]]
          BY <2>6, <4>1 DEF FastPath
        <5>2. QED
          BY <2>6, <4>0, <5>1 DEF FastPath, TypeOK
      <4>2. CASE ~(~Stale(cur[mgr[p]]))
        BY <2>6, <4>0, <4>2 DEF FastPath, TypeOK
      <4>3. QED
        BY <4>1, <4>2
    <3>2. LockInv'
      BY ManagerAssumption, <2>6 DEF FastPath, LockInv, TypeOK, PlaceInv
    <3>3. PlaceInv'
      BY ManagerAssumption, <2>6 DEF FastPath, PlaceInv, TypeOK, LockInv
    <3>4. BuiltInv'
      <4>0. mgr[p] \in Managers
        BY <2>6 DEF FastPath, PlaceInv
      <4>1. CASE ~Stale(cur[mgr[p]])
        <5>1. /\ pc' = [pc EXCEPT ![p] = Home(p)]
              /\ seen' = [seen EXCEPT ![p] = cur[mgr[p]]]
          BY <2>6, <4>1 DEF FastPath
        <5>2. QED
          BY ZenonT(40), <2>6, <4>0, <5>1 DEF FastPath, TypeOK, BuiltInv
      <4>2. CASE ~(~Stale(cur[mgr[p]]))
        BY <2>6, <4>0, <4>2 DEF FastPath, TypeOK, BuiltInv
      <4>3. QED
        BY <4>1, <4>2
    <3> QED
      BY <3>1, <3>2, <3>3, <3>4
  <2>7. ASSUME NEW p \in Procs, Acquire(p)
        PROVE  TypeOK' /\ LockInv' /\ PlaceInv' /\ BuiltInv'
    <3>1. TypeOK'
      BY ManagerAssumption, <2>7
         DEF Acquire, TypeOK, BuiltInv, LockInv, PlaceInv
    <3>2. LockInv'
      BY ManagerAssumption, <2>7 DEF Acquire, LockInv, TypeOK, PlaceInv
    <3>3. PlaceInv'
      BY ManagerAssumption, <2>7 DEF Acquire, PlaceInv, TypeOK, LockInv
    <3>4. BuiltInv'
      BY ManagerAssumption, <2>7
         DEF Acquire, BuiltInv, TypeOK, LockInv, PlaceInv
    <3> QED
      BY <3>1, <3>2, <3>3, <3>4
  <2>8. ASSUME NEW p \in Procs, Recheck(p)
        PROVE  TypeOK' /\ LockInv' /\ PlaceInv' /\ BuiltInv'
    <3>1. TypeOK'
      <4>0. mgr[p] \in Managers
        BY <2>8 DEF Recheck, LockInv
      <4>1. CASE ~Stale(cur[mgr[p]])
        <5>1. /\ pc' = [pc EXCEPT ![p] = Home(p)]
              /\ seen' = [seen EXCEPT ![p] = cur[mgr[p]]]
              /\ lock' = [lock EXCEPT ![mgr[p]] = Nobody]
          BY <2>8, <4>1 DEF Recheck
        <5>2. QED
          BY <2>8, <4>0, <5>1 DEF Recheck, TypeOK
      <4>2. CASE ~(~Stale(cur[mgr[p]]))
        BY <2>8, <4>0, <4>2 DEF Recheck, TypeOK
      <4>3. QED
        BY <4>1, <4>2
    <3>2. LockInv'
      <4>1. CASE ~Stale(cur[mgr[p]])
        <5>1. /\ pc' = [pc EXCEPT ![p] = Home(p)]
              /\ seen' = [seen EXCEPT ![p] = cur[mgr[p]]]
              /\ lock' = [lock EXCEPT ![mgr[p]] = Nobody]
              /\ mgr' = mgr
          BY <2>8, <4>1 DEF Recheck
        <5>2. QED
          BY <2>8, <5>1 DEF Recheck, LockInv, TypeOK
      <4>2. CASE ~(~Stale(cur[mgr[p]]))
        BY <2>8, <4>2 DEF Recheck, LockInv, TypeOK
      <4>3. QED
        BY <4>1, <4>2
    <3>3. PlaceInv'
      BY ManagerAssumption, <2>8 DEF Recheck, PlaceInv, TypeOK, LockInv
    <3>4. BuiltInv'
      <4>0. mgr[p] \in Managers
        BY <2>8 DEF Recheck, LockInv
      <4>1. CASE ~Stale(cur[mgr[p]])
        <5>1. /\ pc' = [pc EXCEPT ![p] = Home(p)]
              /\ seen' = [seen EXCEPT ![p] = cur[mgr[p]]]
              /\ lock' = [lock EXCEPT ![mgr[p]] = Nobody]
          BY <2>8, <4>1 DEF Recheck
        <5>2. QED
          BY ZenonT(40), <2>8, <4>0, <5>1 DEF Recheck, TypeOK, BuiltInv
      <4>2. CASE ~(~Stale(cur[mgr[p]]))
        BY <2>8, <4>0, <4>2 DEF Recheck, TypeOK, BuiltInv
      <4>3. QED
        BY <4>1, <4>2
    <3> QED
      BY <3>1, <3>2, <3>3, <3>4
  <2>9. ASSUME NEW p \in Procs, CloseOld(p)
        PROVE  TypeOK' /\ LockInv' /\ PlaceInv' /\ BuiltInv'
    <3>1. TypeOK'
      <4>1. mgr[p] \in Managers
        BY <2>9 DEF CloseOld, LockInv
      <4>2. QED
        BY <2>9, <4>1 DEF CloseOld, TypeOK
    <3>2. LockInv'
      BY ManagerAssumption, <2>9 DEF CloseOld, LockInv, TypeOK, PlaceInv
    <3>3. PlaceInv'
      BY ManagerAssumption, <2>9 DEF CloseOld, PlaceInv, TypeOK, LockInv
    <3>4. BuiltInv'
      BY ManagerAssumption, <2>9
         DEF CloseOld, BuiltInv, TypeOK, LockInv, PlaceInv
    <3> QED
      BY <3>1, <3>2, <3>3, <3>4
  <2>10. ASSUME NEW p \in Procs, CloseOldEnd(p)
         PROVE  TypeOK' /\ LockInv' /\ PlaceInv' /\ BuiltInv'
    <3>1. TypeOK'
      BY ManagerAssumption, <2>10
         DEF CloseOldEnd, TypeOK, BuiltInv, LockInv, PlaceInv
    <3>2. LockInv'
      <4>1. CASE goal[p] = "disconnect"
        <5>1. /\ pc' = [pc EXCEPT ![p] = Home(p)]
              /\ lock' = [lock EXCEPT ![mgr[p]] = Nobody]
              /\ mgr' = mgr
          BY <2>10, <4>1 DEF CloseOldEnd
        <5>2. QED
          BY <2>10, <5>1 DEF CloseOldEnd, LockInv, TypeOK
      <4>2. CASE ~(goal[p] = "disconnect")
        BY <2>10, <4>2 DEF CloseOldEnd, LockInv, TypeOK
      <4>3. QED
        BY <4>1, <4>2
    <3>3. PlaceInv'
      BY ManagerAssumption, <2>10 DEF CloseOldEnd, PlaceInv, TypeOK, LockInv
    <3>4. BuiltInv'
      BY ManagerAssumption, <2>10
         DEF CloseOldEnd, BuiltInv, TypeOK, LockInv, PlaceInv
    <3> QED
      BY <3>1, <3>2, <3>3, <3>4
  <2>11. ASSUME NEW p \in Procs, OpenBegin(p)
         PROVE  TypeOK' /\ LockInv' /\ PlaceInv' /\ BuiltInv'
    <3>1. TypeOK'
      BY ManagerAssumption, <2>11
         DEF OpenBegin, Bridges, TypeOK, BuiltInv, LockInv, PlaceInv
    <3>2. LockInv'
      BY ManagerAssumption, <2>11
         DEF OpenBegin, Bridges, LockInv, TypeOK, PlaceInv
    <3>3. PlaceInv'
      BY ManagerAssumption, <2>11
         DEF OpenBegin, Bridges, PlaceInv, TypeOK, LockInv
    <3>4. BuiltInv'
      BY ManagerAssumption, <2>11
         DEF OpenBegin, Bridges, BuiltInv, TypeOK, LockInv, PlaceInv
    <3> QED
      BY <3>1, <3>2, <3>3, <3>4
  <2>12. ASSUME NEW p \in Procs, OpenDone(p)
         PROVE  TypeOK' /\ LockInv' /\ PlaceInv' /\ BuiltInv'
    <3>1. TypeOK'
      BY ManagerAssumption, <2>12
         DEF OpenDone, TypeOK, BuiltInv, LockInv, PlaceInv
    <3>2. LockInv'
      BY ManagerAssumption, <2>12 DEF OpenDone, LockInv, TypeOK, PlaceInv
    <3>3. PlaceInv'
      BY ManagerAssumption, <2>12 DEF OpenDone, PlaceInv, TypeOK, LockInv
    <3>4. BuiltInv'
      BY ManagerAssumption, <2>12
         DEF OpenDone, BuiltInv, TypeOK, LockInv, PlaceInv
    <3> QED
      BY <3>1, <3>2, <3>3, <3>4
  <2>13. ASSUME NEW p \in Procs, OpenFail(p)
         PROVE  TypeOK' /\ LockInv' /\ PlaceInv' /\ BuiltInv'
    <3>1. TypeOK'
      BY ManagerAssumption, <2>13
         DEF OpenFail, TypeOK, BuiltInv, LockInv, PlaceInv
    <3>2. LockInv'
      BY ManagerAssumption, <2>13 DEF OpenFail, LockInv, TypeOK, PlaceInv
    <3>3. PlaceInv'
      BY ManagerAssumption, <2>13 DEF OpenFail, PlaceInv, TypeOK, LockInv
    <3>4. BuiltInv'
      BY ManagerAssumption, <2>13
         DEF OpenFail, BuiltInv, TypeOK, LockInv, PlaceInv
    <3> QED
      BY <3>1, <3>2, <3>3, <3>4
  <2>14. ASSUME NEW p \in Procs, CloseDirectEnd(p)
         PROVE  TypeOK' /\ LockInv' /\ PlaceInv' /\ BuiltInv'
    BY ManagerAssumption, <2>14
       DEF CloseDirectEnd, TypeOK, BuiltInv, LockInv, PlaceInv
  <2>15. ASSUME NEW m \in Managers, Tick(m)
         PROVE  TypeOK' /\ LockInv' /\ PlaceInv' /\ BuiltInv'
    <3>1. TypeOK'
      BY ManagerAssumption, <2>15 DEF Tick, TypeOK, BuiltInv, LockInv, PlaceInv
    <3>2. LockInv'
      BY ManagerAssumption, <2>15 DEF Tick, LockInv, TypeOK, PlaceInv
    <3>3. PlaceInv'
      BY ManagerAssumption, <2>15 DEF Tick, PlaceInv, TypeOK, LockInv
    <3>4. BuiltInv'
      BY ManagerAssumption, <2>15 DEF Tick, BuiltInv, TypeOK, LockInv, PlaceInv
    <3> QED
      BY <3>1, <3>2, <3>3, <3>4
  <2>16. ASSUME NEW m \in Managers, Beat(m)
         PROVE  TypeOK' /\ LockInv' /\ PlaceInv' /\ BuiltInv'
    BY ManagerAssumption, <2>16 DEF Beat, TypeOK, BuiltInv, LockInv, PlaceInv
  <2>17. ASSUME NEW m \in Managers, Ping(m)
         PROVE  TypeOK' /\ LockInv' /\ PlaceInv' /\ BuiltInv'
    BY ManagerAssumption, <2>17
       DEF Ping, AfterPing, TypeOK, BuiltInv, LockInv, PlaceInv
  <2>18. CASE BoardDrops
    <3>1. TypeOK'
      <4>1. drops' \in 0..MaxDrops /\ lost' \in [Bridges -> BOOLEAN]
        BY ManagerAssumption, <2>18 DEF BoardDrops, TypeOK
      <4>2. QED
        BY <2>18, <4>1 DEF BoardDrops, TypeOK
    <3>2. LockInv'
      BY ManagerAssumption, <2>18 DEF BoardDrops, LockInv, TypeOK, PlaceInv
    <3>3. PlaceInv'
      BY ManagerAssumption, <2>18 DEF BoardDrops, PlaceInv, TypeOK, LockInv
    <3>4. BuiltInv'
      BY ManagerAssumption, <2>18
         DEF BoardDrops, BuiltInv, TypeOK, LockInv, PlaceInv
    <3> QED
      BY <3>1, <3>2, <3>3, <3>4
  <2>19. CASE BoardReturns
    BY ManagerAssumption, <2>19
       DEF BoardReturns, TypeOK, BuiltInv, LockInv, PlaceInv
  <2>20. CASE Done
    BY ManagerAssumption, <2>20
       DEF Done, vars, TypeOK, BuiltInv, LockInv, PlaceInv
  <2>21. CASE UNCHANGED vars
    BY ManagerAssumption, <2>21 DEF vars, TypeOK, BuiltInv, LockInv, PlaceInv
  <2> HIDE DEF LifeStates, Goals, PCs, Critical, Goto, Unlock, Return, Calling,
          env, managerVars, linkVars, procVars
  <2>22. QED
    BY <2>1, <2>2, <2>3, <2>4, <2>5, <2>6, <2>7, <2>8, <2>9, <2>10, <2>11,
           <2>12, <2>13, <2>14, <2>15, <2>16, <2>17, <2>18, <2>19, <2>20, <2>21
    DEF Next, UserStep, CallStep, HeartbeatStep
<1>2. QED
  BY <1>1

\* The state keeps its shape: every manager, Bridge and thread number stays
\* in range whatever the threads interleave.
THEOREM TypeCorrect == Spec => []TypeOK
<1>1. BaseInv => TypeOK
  BY DEF BaseInv
<1>2. QED
  BY BaseInit, BaseStep, <1>1, PTL DEF Spec

-----------------------------------------------------------------------------
LEMMA LinkInit == Init => LinkInv
  BY SetFacts DEF Init, LinkInv, WorkInv, OpenerInv, CloserInv, CurInv, Closing

LEMMA LinkStep == BaseInv /\ LinkInv /\ [Next]_vars => LinkInv'
<1> SUFFICES ASSUME BaseInv, WorkInv, OpenerInv, CloserInv, CurInv, [Next]_vars
             PROVE  WorkInv' /\ OpenerInv' /\ CloserInv' /\ CurInv'
  BY DEF LinkInv
<1>1. WorkInv' /\ OpenerInv' /\ CloserInv' /\ CurInv'
  <2> USE SetFacts, HomePlace
     DEF LifeStates, Goals, PCs, Critical, Goto, Unlock, Return, Calling,
          env, managerVars, linkVars, procVars
  <2>1. ASSUME NEW p \in Users, SharedConnect(p)
        PROVE  WorkInv' /\ OpenerInv' /\ CloserInv' /\ CurInv'
    <3>1. WorkInv'
      BY ManagerAssumption, <2>1
         DEF SharedConnect, Managers, WorkInv, CurInv, BaseInv, TypeOK, LockInv,
             PlaceInv
    <3>2. OpenerInv'
      BY ManagerAssumption, <2>1
         DEF SharedConnect, Managers, OpenerInv, BaseInv, TypeOK, PlaceInv
    <3>3. CloserInv'
      <4>1. state' = state /\ seen' = seen
        BY <2>1 DEF SharedConnect
      <4>2. ASSUME NEW q \in Procs PROVE Closing(q)' <=> Closing(q)
        <5>1. pc[p] = "idle" /\ pc'[p] = "fast"
          BY ManagerAssumption, <2>1 DEF SharedConnect, Managers, BaseInv, TypeOK
        <5>2. \/ registry # None /\ pc' = [pc EXCEPT ![p] = "fast"]
              \/ /\ managers + 1 \in Managers /\ pc[managers + 1] = "idle"
                 /\ pc' = [pc EXCEPT ![p] = "fast", ![managers + 1] = "wait"]
          BY ManagerAssumption, <2>1 DEF SharedConnect, Managers, BaseInv, TypeOK,
                                         PlaceInv
        <5>3. pc'[q] = pc[q] \/ (pc[q] = "idle" /\ pc'[q] \in {"fast", "wait"})
          BY <5>1, <5>2 DEF BaseInv, TypeOK
        <5>4. QED
          BY <4>1, <5>3 DEF Closing
      <4>3. QED
        BY <4>1, <4>2 DEF CloserInv
    <3>4. CurInv'
      BY <2>1 DEF SharedConnect, CurInv
    <3> QED
      BY <3>1, <3>2, <3>3, <3>4
  <2>2. ASSUME NEW p \in Users, DisconnectAll(p)
        PROVE  WorkInv' /\ OpenerInv' /\ CloserInv' /\ CurInv'
    <3>1. WorkInv'
      BY ManagerAssumption, <2>2
         DEF DisconnectAll, None, WorkInv, CurInv, BaseInv, TypeOK, LockInv,
             PlaceInv, BuiltInv
    <3>2. OpenerInv'
      BY ManagerAssumption, <2>2
         DEF DisconnectAll, None, OpenerInv, WorkInv, BaseInv, TypeOK, LockInv,
             PlaceInv, BuiltInv
    <3>3. CloserInv'
      BY ManagerAssumption, <2>2
         DEF DisconnectAll, None, CloserInv, Closing, WorkInv, CurInv, BaseInv,
             TypeOK, LockInv, PlaceInv, BuiltInv
    <3>4. CurInv'
      BY ManagerAssumption, <2>2
         DEF DisconnectAll, None, WorkInv, OpenerInv, CloserInv, Closing, CurInv,
             BaseInv, TypeOK, LockInv, PlaceInv, BuiltInv
    <3> QED
      BY <3>1, <3>2, <3>3, <3>4
  <2>3. ASSUME NEW p \in Users, RequestFails(p)
        PROVE  WorkInv' /\ OpenerInv' /\ CloserInv' /\ CurInv'
    <3>1. WorkInv'
      BY ManagerAssumption, <2>3
         DEF RequestFails, WorkInv, CurInv, BaseInv, TypeOK, LockInv, PlaceInv, BuiltInv
    <3>2. OpenerInv'
      BY ManagerAssumption, <2>3
         DEF RequestFails, OpenerInv, WorkInv, BaseInv, TypeOK, LockInv, PlaceInv,
             BuiltInv
    <3>3. CloserInv'
      BY ManagerAssumption, <2>3
         DEF RequestFails, CloserInv, Closing, WorkInv, CurInv, BaseInv, TypeOK,
             LockInv, PlaceInv, BuiltInv
    <3>4. CurInv'
      BY ManagerAssumption, <2>3
         DEF RequestFails, WorkInv, OpenerInv, CloserInv, Closing, CurInv, BaseInv,
             TypeOK, LockInv, PlaceInv, BuiltInv
    <3> QED
      BY <3>1, <3>2, <3>3, <3>4
  <2>4. ASSUME NEW p \in Users, CloseDirect(p)
        PROVE  WorkInv' /\ OpenerInv' /\ CloserInv' /\ CurInv'
    <3>1. WorkInv'
      BY ManagerAssumption, <2>4
         DEF CloseDirect, WorkInv, CurInv, BaseInv, TypeOK, LockInv, PlaceInv, BuiltInv
    <3>2. OpenerInv'
      BY ManagerAssumption, <2>4
         DEF CloseDirect, OpenerInv, WorkInv, BaseInv, TypeOK, LockInv, PlaceInv,
             BuiltInv
    <3>3. CloserInv'
      BY ManagerAssumption, <2>4
         DEF CloseDirect, CloserInv, Closing, WorkInv, CurInv, BaseInv, TypeOK,
             LockInv, PlaceInv, BuiltInv
    <3>4. CurInv'
      BY ManagerAssumption, <2>4
         DEF CloseDirect, WorkInv, OpenerInv, CloserInv, Closing, CurInv, BaseInv,
             TypeOK, LockInv, PlaceInv, BuiltInv
    <3> QED
      BY <3>1, <3>2, <3>3, <3>4
  <2>5. ASSUME NEW p \in Users, NEW m \in Managers, NEW g \in Goals,
              CallManager(p, m, g)
        PROVE  WorkInv' /\ OpenerInv' /\ CloserInv' /\ CurInv'
    <3>1. WorkInv'
      BY ManagerAssumption, <2>5
         DEF CallManager, WorkInv, CurInv, BaseInv, TypeOK, LockInv, PlaceInv, BuiltInv
    <3>2. OpenerInv'
      BY ManagerAssumption, <2>5
         DEF CallManager, OpenerInv, WorkInv, BaseInv, TypeOK, LockInv, PlaceInv,
             BuiltInv
    <3>3. CloserInv'
      BY ManagerAssumption, <2>5
         DEF CallManager, CloserInv, Closing, WorkInv, CurInv, BaseInv, TypeOK,
             LockInv, PlaceInv, BuiltInv
    <3>4. CurInv'
      BY ManagerAssumption, <2>5
         DEF CallManager, WorkInv, OpenerInv, CloserInv, Closing, CurInv, BaseInv,
             TypeOK, LockInv, PlaceInv, BuiltInv
    <3> QED
      BY <3>1, <3>2, <3>3, <3>4
  <2>6. ASSUME NEW p \in Procs, FastPath(p)
        PROVE  WorkInv' /\ OpenerInv' /\ CloserInv' /\ CurInv'
    <3>1. WorkInv'
      BY ManagerAssumption, <2>6
         DEF FastPath, WorkInv, CurInv, BaseInv, TypeOK, LockInv, PlaceInv, BuiltInv
    <3>2. OpenerInv'
      BY ManagerAssumption, <2>6
         DEF FastPath, OpenerInv, WorkInv, BaseInv, TypeOK, LockInv, PlaceInv, BuiltInv
    <3>3. CloserInv'
      BY ManagerAssumption, <2>6
         DEF FastPath, CloserInv, Closing, WorkInv, CurInv, BaseInv, TypeOK, LockInv,
             PlaceInv, BuiltInv
    <3>4. CurInv'
      BY ManagerAssumption, <2>6
         DEF FastPath, WorkInv, OpenerInv, CloserInv, Closing, CurInv, BaseInv,
             TypeOK, LockInv, PlaceInv, BuiltInv
    <3> QED
      BY <3>1, <3>2, <3>3, <3>4
  <2>7. ASSUME NEW p \in Procs, Acquire(p)
        PROVE  WorkInv' /\ OpenerInv' /\ CloserInv' /\ CurInv'
    <3>1. WorkInv'
      BY ManagerAssumption, <2>7
         DEF Acquire, WorkInv, CurInv, BaseInv, TypeOK, LockInv, PlaceInv, BuiltInv
    <3>2. OpenerInv'
      BY ManagerAssumption, <2>7
         DEF Acquire, OpenerInv, WorkInv, BaseInv, TypeOK, LockInv, PlaceInv, BuiltInv
    <3>3. CloserInv'
      BY ManagerAssumption, <2>7
         DEF Acquire, CloserInv, Closing, WorkInv, CurInv, BaseInv, TypeOK, LockInv,
             PlaceInv, BuiltInv
    <3>4. CurInv'
      BY ManagerAssumption, <2>7
         DEF Acquire, WorkInv, OpenerInv, CloserInv, Closing, CurInv, BaseInv,
             TypeOK, LockInv, PlaceInv, BuiltInv
    <3> QED
      BY <3>1, <3>2, <3>3, <3>4
  <2>8. ASSUME NEW p \in Procs, Recheck(p)
        PROVE  WorkInv' /\ OpenerInv' /\ CloserInv' /\ CurInv'
    <3>1. WorkInv'
      BY ManagerAssumption, <2>8
         DEF Recheck, WorkInv, CurInv, BaseInv, TypeOK, LockInv, PlaceInv, BuiltInv
    <3>2. OpenerInv'
      BY ManagerAssumption, <2>8
         DEF Recheck, OpenerInv, WorkInv, BaseInv, TypeOK, LockInv, PlaceInv, BuiltInv
    <3>3. CloserInv'
      BY ManagerAssumption, <2>8
         DEF Recheck, CloserInv, Closing, WorkInv, CurInv, BaseInv, TypeOK, LockInv,
             PlaceInv, BuiltInv
    <3>4. CurInv'
      BY ManagerAssumption, <2>8
         DEF Recheck, WorkInv, OpenerInv, CloserInv, Closing, CurInv, BaseInv,
             TypeOK, LockInv, PlaceInv, BuiltInv
    <3> QED
      BY <3>1, <3>2, <3>3, <3>4
  <2>9. ASSUME NEW p \in Procs, CloseOld(p)
        PROVE  WorkInv' /\ OpenerInv' /\ CloserInv' /\ CurInv'
    <3>1. WorkInv'
      BY <2>9 DEF CloseOld, WorkInv, CurInv, BaseInv, TypeOK, LockInv, BuiltInv
    <3>2. OpenerInv'
      BY <2>9 DEF CloseOld, OpenerInv, WorkInv, BaseInv, TypeOK, LockInv
    <3>3. CloserInv'
      <4> DEFINE b == cur[mgr[p]]
      <4>1. /\ pc[p] = "close" /\ pc' = [pc EXCEPT ![p] = "closed"]
            /\ pc \in [Procs -> PCs] /\ seen \in [Procs -> Bridges \cup {None}]
            /\ state \in [Bridges -> LifeStates] /\ b \in Bridges \cup {None}
        BY <2>9 DEF CloseOld, BaseInv, TypeOK, LockInv
      <4>2. CASE b # None /\ state[b] = "open"
        <5>1. state' = [state EXCEPT ![b] = "closing"] /\ seen' = [seen EXCEPT ![p] = b]
          BY <2>9, <4>2 DEF CloseOld
        <5>2. ASSUME NEW q \in Procs, q # p
              PROVE  (Closing(q)' <=> Closing(q)) /\ seen'[q] = seen[q]
          BY <4>1, <5>1, <5>2 DEF Closing
        <5>3. \A q \in Procs : Closing(q) => seen[q] # b
          BY <4>2 DEF CloserInv
        <5>4. Closing(p)' /\ seen'[p] = b /\ ~Closing(p)
          BY <4>1, <4>2, <5>1 DEF Closing
        <5>5. \A q \in Procs : Closing(q)' => state'[seen'[q]] = "closing"
          BY <4>1, <4>2, <5>1, <5>2, <5>3, <5>4 DEF CloserInv
        <5>6. \A q, r \in Procs : Closing(q)' /\ Closing(r)' /\ seen'[q] = seen'[r] => q = r
          BY <5>2, <5>3, <5>4 DEF CloserInv
        <5>7. \A c \in Bridges : state'[c] = "closing" =>
                \E q \in Procs : Closing(q)' /\ seen'[q] = c
          BY <4>1, <5>1, <5>2, <5>4 DEF CloserInv
        <5>8. QED
          BY <5>5, <5>6, <5>7 DEF CloserInv
      <4>3. CASE ~(b # None /\ state[b] = "open")
        <5>1. state' = state /\ seen' = [seen EXCEPT ![p] = None]
          BY <2>9, <4>3 DEF CloseOld
        <5>2. ASSUME NEW q \in Procs, q # p
              PROVE  (Closing(q)' <=> Closing(q)) /\ seen'[q] = seen[q]
          BY <4>1, <5>1, <5>2 DEF Closing
        <5>3. ~Closing(p)' /\ ~Closing(p)
          BY <4>1, <5>1 DEF Closing
        <5>4. QED
          BY <5>1, <5>2, <5>3 DEF CloserInv
      <4>4. QED
        BY <4>2, <4>3
    <3>4. CurInv'
      BY <2>9 DEF CloseOld, CurInv, BaseInv, TypeOK, LockInv
    <3> QED
      BY <3>1, <3>2, <3>3, <3>4
  <2>10. ASSUME NEW p \in Procs, CloseOldEnd(p)
        PROVE  WorkInv' /\ OpenerInv' /\ CloserInv' /\ CurInv'
    <3>1. WorkInv'
      <4>1. /\ mgr[p] \in Managers /\ lock[mgr[p]] = p /\ pc[p] = "closed"
            /\ pc \in [Procs -> PCs] /\ seen \in [Procs -> Bridges \cup {None}]
            /\ cur \in [Managers -> Bridges \cup {None}]
            /\ state \in [Bridges -> LifeStates]
        BY <2>10 DEF CloseOldEnd, BaseInv, TypeOK, LockInv
      <4>2. /\ state' = IF seen[p] # None THEN [state EXCEPT ![seen[p]] = "closed"] ELSE state
            /\ cur' = [cur EXCEPT ![mgr[p]] = None]
            /\ seen' = [seen EXCEPT ![p] = None]
            /\ mgr' = mgr /\ home' = home
        BY <2>10 DEF CloseOldEnd
      <4>3. pc' = [pc EXCEPT ![p] = "open"] \/ pc' = [pc EXCEPT ![p] = Home(p)]
        BY <2>10 DEF CloseOldEnd
      <4>4. ASSUME NEW q \in Procs
            PROVE  /\ pc'[q] = "closeDirect" => q \in Users
                   /\ pc'[q] \in {"open", "opening"} => cur'[mgr'[q]] = None
                   /\ pc'[q] = "opening" =>
                        state'[seen'[q]] = "opening" /\ home'[seen'[q]] = mgr'[q]
                   /\ pc'[q] = "closed" /\ seen'[q] # None => seen'[q] = cur'[mgr'[q]]
                   /\ pc'[q] = "closed" /\ seen'[q] = None /\ cur'[mgr'[q]] # None =>
                        state'[cur'[mgr'[q]]] # "open"
        <5>1. CASE q = p
          BY <4>1, <4>2, <4>3, <5>1
        <5>2. CASE q # p
          <6>1. pc'[q] = pc[q] /\ seen'[q] = seen[q]
            BY <4>1, <4>2, <4>3, <5>2
          <6>2. pc[q] \in Critical => mgr[q] \in Managers /\ mgr[q] # mgr[p]
            BY <4>1, <5>2 DEF BaseInv, LockInv
          <6>3. pc[q] \in Critical => cur'[mgr[q]] = cur[mgr[q]]
            BY <4>1, <4>2, <6>2
          <6>4. \A b \in Bridges : state[b] # "closing" => state'[b] = state[b]
            BY <4>1, <4>2 DEF CloserInv, Closing
          <6>5. pc[q] = "opening" => state'[seen[q]] = "opening" /\ seen[q] \in Bridges
            <7>1. pc[q] = "opening" => seen[q] \in Bridges
              BY <4>1 DEF BaseInv, BuiltInv
            <7>2. pc[q] = "opening" => state[seen[q]] = "opening"
              BY DEF WorkInv
            <7>3. QED
              BY <6>4, <7>1, <7>2
          <6>6. \A b \in Bridges : state[b] # "open" => state'[b] # "open"
            BY <4>1, <4>2
          <6>7. QED
            BY <4>1, <4>2, <6>1, <6>2, <6>3, <6>5, <6>6 DEF WorkInv
        <5>3. QED
          BY <5>1, <5>2
      <4>5. QED
        BY <4>4 DEF WorkInv
    <3>2. OpenerInv'
      BY <2>10
         DEF CloseOldEnd, OpenerInv, WorkInv,
             BaseInv, TypeOK, LockInv, BuiltInv
    <3>3. CloserInv'
      BY <2>10
         DEF CloseOldEnd, CloserInv, Closing, WorkInv, CurInv,
             BaseInv, TypeOK, LockInv, BuiltInv
    <3>4. CurInv'
      BY <2>10
         DEF CloseOldEnd, WorkInv, OpenerInv, CloserInv, Closing,
             CurInv,
             BaseInv, TypeOK, LockInv, BuiltInv
    <3> QED
      BY <3>1, <3>2, <3>3, <3>4
  <2>11. ASSUME NEW p \in Procs, OpenBegin(p)
        PROVE  WorkInv' /\ OpenerInv' /\ CloserInv' /\ CurInv'
    <3>1. WorkInv'
      BY ManagerAssumption, <2>11
         DEF OpenBegin, Bridges, WorkInv, CurInv, BaseInv, TypeOK, LockInv, PlaceInv,
             BuiltInv
    <3>2. OpenerInv'
      BY ManagerAssumption, <2>11
         DEF OpenBegin, Bridges, OpenerInv, WorkInv, BaseInv, TypeOK, LockInv,
             PlaceInv, BuiltInv
    <3>3. CloserInv'
      BY ManagerAssumption, <2>11
         DEF OpenBegin, Bridges, CloserInv, Closing, WorkInv, CurInv, BaseInv,
             TypeOK, LockInv, PlaceInv, BuiltInv
    <3>4. CurInv'
      BY ManagerAssumption, <2>11
         DEF OpenBegin, Bridges, WorkInv, OpenerInv, CloserInv, Closing, CurInv,
             BaseInv, TypeOK, LockInv, PlaceInv, BuiltInv
    <3> QED
      BY <3>1, <3>2, <3>3, <3>4
  <2>12. ASSUME NEW p \in Procs, OpenDone(p)
        PROVE  WorkInv' /\ OpenerInv' /\ CloserInv' /\ CurInv'
    <3>1. WorkInv'
      <4>1. /\ mgr[p] \in Managers /\ lock[mgr[p]] = p /\ pc[p] = "opening"
            /\ seen[p] \in Bridges /\ state[seen[p]] = "opening"
            /\ pc \in [Procs -> PCs] /\ cur \in [Managers -> Bridges \cup {None}]
            /\ state \in [Bridges -> LifeStates]
        BY <2>12 DEF OpenDone, BaseInv, TypeOK, LockInv, BuiltInv, WorkInv
      <4>2. /\ state' = [state EXCEPT ![seen[p]] = "open"]
            /\ cur' = [cur EXCEPT ![mgr[p]] = seen[p]]
            /\ pc' = [pc EXCEPT ![p] = Home(p)]
            /\ mgr' = mgr /\ home' = home /\ seen' = seen
        BY <2>12 DEF OpenDone
      <4>3. ASSUME NEW q \in Procs
            PROVE  /\ pc'[q] = "closeDirect" => q \in Users
                   /\ pc'[q] \in {"open", "opening"} => cur'[mgr'[q]] = None
                   /\ pc'[q] = "opening" =>
                        state'[seen'[q]] = "opening" /\ home'[seen'[q]] = mgr'[q]
                   /\ pc'[q] = "closed" /\ seen'[q] # None => seen'[q] = cur'[mgr'[q]]
                   /\ pc'[q] = "closed" /\ seen'[q] = None /\ cur'[mgr'[q]] # None =>
                        state'[cur'[mgr'[q]]] # "open"
        <5>1. CASE q = p
          BY <4>1, <4>2, <5>1
        <5>2. CASE q # p
          <6>1. pc'[q] = pc[q]
            BY <4>1, <4>2, <5>2
          <6>2. pc[q] \in Critical =>
                  mgr[q] \in Managers /\ mgr[q] # mgr[p] /\ cur'[mgr[q]] = cur[mgr[q]]
            BY <4>1, <4>2, <5>2 DEF BaseInv, LockInv
          <6>3. pc[q] = "opening" => seen[q] # seen[p] /\ seen[q] \in Bridges
            BY <4>1, <6>2 DEF WorkInv, BaseInv, TypeOK, BuiltInv
          <6>4. pc[q] \in Critical /\ cur[mgr[q]] # None =>
                  cur[mgr[q]] \in Bridges /\ cur[mgr[q]] # seen[p]
            <7> SUFFICES ASSUME pc[q] \in Critical, cur[mgr[q]] # None
                         PROVE  cur[mgr[q]] \in Bridges /\ cur[mgr[q]] # seen[p]
              OBVIOUS
            <7>1. cur[mgr[q]] \in Bridges
              BY <4>1, <6>2
            <7>2. state[cur[mgr[q]]] \in {"open", "closing", "closed"}
              BY <6>2 DEF CurInv
            <7>3. QED
              BY <4>1, <7>1, <7>2
          <6>5. QED
            BY <4>1, <4>2, <6>1, <6>2, <6>3, <6>4 DEF WorkInv
        <5>3. QED
          BY <5>1, <5>2
      <4>4. QED
        BY <4>3 DEF WorkInv
    <3>2. OpenerInv'
      BY <2>12
         DEF OpenDone, OpenerInv, WorkInv,
             BaseInv, TypeOK, LockInv, BuiltInv
    <3>3. CloserInv'
      BY <2>12
         DEF OpenDone, CloserInv, Closing, WorkInv, CurInv,
             BaseInv, TypeOK, LockInv, BuiltInv
    <3>4. CurInv'
      BY <2>12
         DEF OpenDone, WorkInv, OpenerInv, CloserInv, Closing,
             CurInv,
             BaseInv, TypeOK, LockInv, BuiltInv
    <3> QED
      BY <3>1, <3>2, <3>3, <3>4
  <2>13. ASSUME NEW p \in Procs, OpenFail(p)
        PROVE  WorkInv' /\ OpenerInv' /\ CloserInv' /\ CurInv'
    <3>1. WorkInv'
      BY ManagerAssumption, <2>13
         DEF OpenFail, WorkInv, CurInv, BaseInv, TypeOK, LockInv, PlaceInv, BuiltInv
    <3>2. OpenerInv'
      BY ManagerAssumption, <2>13
         DEF OpenFail, OpenerInv, WorkInv, BaseInv, TypeOK, LockInv, PlaceInv, BuiltInv
    <3>3. CloserInv'
      BY ManagerAssumption, <2>13
         DEF OpenFail, CloserInv, Closing, WorkInv, CurInv, BaseInv, TypeOK, LockInv,
             PlaceInv, BuiltInv
    <3>4. CurInv'
      BY ManagerAssumption, <2>13
         DEF OpenFail, WorkInv, OpenerInv, CloserInv, Closing, CurInv, BaseInv,
             TypeOK, LockInv, PlaceInv, BuiltInv
    <3> QED
      BY <3>1, <3>2, <3>3, <3>4
  <2>14. ASSUME NEW p \in Procs, CloseDirectEnd(p)
        PROVE  WorkInv' /\ OpenerInv' /\ CloserInv' /\ CurInv'
    <3>1. WorkInv'
      <4>1. /\ pc[p] = "closeDirect" /\ seen[p] \in Bridges /\ state[seen[p]] = "closing"
            /\ pc \in [Procs -> PCs] /\ state \in [Bridges -> LifeStates]
        BY <2>14 DEF CloseDirectEnd, BaseInv, TypeOK, BuiltInv, CloserInv, Closing
      <4>2. /\ state' = [state EXCEPT ![seen[p]] = "closed"]
            /\ pc' = [pc EXCEPT ![p] = "idle"]
            /\ cur' = cur /\ mgr' = mgr /\ home' = home /\ seen' = seen
        BY <2>14 DEF CloseDirectEnd
      <4>3. \A b \in Bridges : /\ state[b] = "opening" => state'[b] = "opening"
                               /\ state[b] # "open" => state'[b] # "open"
        BY <4>1, <4>2
      <4>4. \A q \in Procs : pc[q] = "opening" => seen[q] \in Bridges
        BY DEF BaseInv, TypeOK, BuiltInv
      <4>5. \A q \in Procs : pc[q] = "closed" /\ cur[mgr[q]] # None => cur[mgr[q]] \in Bridges
        <5> SUFFICES ASSUME NEW q \in Procs, pc[q] = "closed", cur[mgr[q]] # None
                     PROVE  cur[mgr[q]] \in Bridges
          OBVIOUS
        <5>1. mgr[q] \in Managers
          BY DEF BaseInv, LockInv
        <5>2. QED
          BY <5>1 DEF BaseInv, TypeOK
      <4>6. \A q \in Procs : pc'[q] = pc[q] \/ pc'[q] = "idle"
        BY <4>1, <4>2
      <4>7. ASSUME NEW q \in Procs, pc'[q] = pc[q]
            PROVE  /\ pc[q] = "closeDirect" => q \in Users
                   /\ pc[q] \in {"open", "opening"} => cur[mgr[q]] = None
                   /\ pc[q] = "opening" =>
                        state'[seen[q]] = "opening" /\ home[seen[q]] = mgr[q]
                   /\ pc[q] = "closed" /\ seen[q] # None => seen[q] = cur[mgr[q]]
                   /\ pc[q] = "closed" /\ seen[q] = None /\ cur[mgr[q]] # None =>
                        state'[cur[mgr[q]]] # "open"
        BY <4>3, <4>4, <4>5, <4>7 DEF WorkInv
      <4>8. QED
        BY <4>2, <4>6, <4>7 DEF WorkInv
    <3>2. OpenerInv'
      BY <2>14
         DEF CloseDirectEnd, OpenerInv, WorkInv,
             BaseInv, TypeOK, LockInv, BuiltInv
    <3>3. CloserInv'
      BY <2>14
         DEF CloseDirectEnd, CloserInv, Closing, WorkInv, CurInv,
             BaseInv, TypeOK, LockInv, BuiltInv
    <3>4. CurInv'
      BY <2>14
         DEF CloseDirectEnd, WorkInv, OpenerInv, CloserInv, Closing,
             CurInv,
             BaseInv, TypeOK, LockInv, BuiltInv
    <3> QED
      BY <3>1, <3>2, <3>3, <3>4
  <2>15. ASSUME NEW m \in Managers, Tick(m)
        PROVE  WorkInv' /\ OpenerInv' /\ CloserInv' /\ CurInv'
    <3>1. WorkInv'
      BY ManagerAssumption, <2>15
         DEF Tick, WorkInv, CurInv, BaseInv, TypeOK, LockInv, PlaceInv, BuiltInv
    <3>2. OpenerInv'
      BY ManagerAssumption, <2>15
         DEF Tick, OpenerInv, WorkInv, BaseInv, TypeOK, LockInv, PlaceInv, BuiltInv
    <3>3. CloserInv'
      BY ManagerAssumption, <2>15
         DEF Tick, CloserInv, Closing, WorkInv, CurInv, BaseInv, TypeOK, LockInv,
             PlaceInv, BuiltInv
    <3>4. CurInv'
      BY ManagerAssumption, <2>15
         DEF Tick, WorkInv, OpenerInv, CloserInv, Closing, CurInv, BaseInv, TypeOK,
             LockInv, PlaceInv, BuiltInv
    <3> QED
      BY <3>1, <3>2, <3>3, <3>4
  <2>16. ASSUME NEW m \in Managers, Beat(m)
        PROVE  WorkInv' /\ OpenerInv' /\ CloserInv' /\ CurInv'
    <3>1. WorkInv'
      BY ManagerAssumption, <2>16
         DEF Beat, WorkInv, CurInv, BaseInv, TypeOK, LockInv, PlaceInv, BuiltInv
    <3>2. OpenerInv'
      BY ManagerAssumption, <2>16
         DEF Beat, OpenerInv, WorkInv, BaseInv, TypeOK, LockInv, PlaceInv, BuiltInv
    <3>3. CloserInv'
      BY ManagerAssumption, <2>16
         DEF Beat, CloserInv, Closing, WorkInv, CurInv, BaseInv, TypeOK, LockInv,
             PlaceInv, BuiltInv
    <3>4. CurInv'
      BY ManagerAssumption, <2>16
         DEF Beat, WorkInv, OpenerInv, CloserInv, Closing, CurInv, BaseInv, TypeOK,
             LockInv, PlaceInv, BuiltInv
    <3> QED
      BY <3>1, <3>2, <3>3, <3>4
  <2>17. ASSUME NEW m \in Managers, Ping(m)
        PROVE  WorkInv' /\ OpenerInv' /\ CloserInv' /\ CurInv'
    <3>1. WorkInv'
      BY ManagerAssumption, <2>17
         DEF Ping, AfterPing, WorkInv, CurInv, BaseInv, TypeOK, LockInv, PlaceInv,
             BuiltInv
    <3>2. OpenerInv'
      BY ManagerAssumption, <2>17
         DEF Ping, AfterPing, OpenerInv, WorkInv, BaseInv, TypeOK, LockInv, PlaceInv,
             BuiltInv
    <3>3. CloserInv'
      BY ManagerAssumption, <2>17
         DEF Ping, AfterPing, CloserInv, Closing, WorkInv, CurInv, BaseInv, TypeOK,
             LockInv, PlaceInv, BuiltInv
    <3>4. CurInv'
      BY ManagerAssumption, <2>17
         DEF Ping, AfterPing, WorkInv, OpenerInv, CloserInv, Closing, CurInv,
             BaseInv, TypeOK, LockInv, PlaceInv, BuiltInv
    <3> QED
      BY <3>1, <3>2, <3>3, <3>4
  <2>18. CASE BoardDrops
    <3>1. WorkInv'
      BY ManagerAssumption, <2>18
         DEF BoardDrops, WorkInv, CurInv, BaseInv, TypeOK, LockInv, PlaceInv, BuiltInv
    <3>2. OpenerInv'
      BY ManagerAssumption, <2>18
         DEF BoardDrops, OpenerInv, WorkInv, BaseInv, TypeOK, LockInv, PlaceInv,
             BuiltInv
    <3>3. CloserInv'
      BY ManagerAssumption, <2>18
         DEF BoardDrops, CloserInv, Closing, WorkInv, CurInv, BaseInv, TypeOK,
             LockInv, PlaceInv, BuiltInv
    <3>4. CurInv'
      BY ManagerAssumption, <2>18
         DEF BoardDrops, WorkInv, OpenerInv, CloserInv, Closing, CurInv, BaseInv,
             TypeOK, LockInv, PlaceInv, BuiltInv
    <3> QED
      BY <3>1, <3>2, <3>3, <3>4
  <2>19. CASE BoardReturns
    <3>1. WorkInv'
      BY ManagerAssumption, <2>19
         DEF BoardReturns, WorkInv, CurInv, BaseInv, TypeOK, LockInv, PlaceInv, BuiltInv
    <3>2. OpenerInv'
      BY ManagerAssumption, <2>19
         DEF BoardReturns, OpenerInv, WorkInv, BaseInv, TypeOK, LockInv, PlaceInv,
             BuiltInv
    <3>3. CloserInv'
      BY ManagerAssumption, <2>19
         DEF BoardReturns, CloserInv, Closing, WorkInv, CurInv, BaseInv, TypeOK,
             LockInv, PlaceInv, BuiltInv
    <3>4. CurInv'
      BY ManagerAssumption, <2>19
         DEF BoardReturns, WorkInv, OpenerInv, CloserInv, Closing, CurInv, BaseInv,
             TypeOK, LockInv, PlaceInv, BuiltInv
    <3> QED
      BY <3>1, <3>2, <3>3, <3>4
  <2>20. CASE Done
    <3>1. WorkInv'
      BY ManagerAssumption, <2>20
         DEF Done, vars, WorkInv, CurInv, BaseInv, TypeOK, LockInv, PlaceInv, BuiltInv
    <3>2. OpenerInv'
      BY ManagerAssumption, <2>20
         DEF Done, vars, OpenerInv, WorkInv, BaseInv, TypeOK, LockInv, PlaceInv,
             BuiltInv
    <3>3. CloserInv'
      BY ManagerAssumption, <2>20
         DEF Done, vars, CloserInv, Closing, WorkInv, CurInv, BaseInv, TypeOK,
             LockInv, PlaceInv, BuiltInv
    <3>4. CurInv'
      BY ManagerAssumption, <2>20
         DEF Done, vars, WorkInv, OpenerInv, CloserInv, Closing, CurInv, BaseInv,
             TypeOK, LockInv, PlaceInv, BuiltInv
    <3> QED
      BY <3>1, <3>2, <3>3, <3>4
  <2>21. CASE UNCHANGED vars
    <3>1. WorkInv'
      BY ManagerAssumption, <2>21
         DEF vars, WorkInv, CurInv, BaseInv, TypeOK, LockInv, PlaceInv, BuiltInv
    <3>2. OpenerInv'
      BY ManagerAssumption, <2>21
         DEF vars, OpenerInv, WorkInv, BaseInv, TypeOK, LockInv, PlaceInv, BuiltInv
    <3>3. CloserInv'
      BY ManagerAssumption, <2>21
         DEF vars, CloserInv, Closing, WorkInv, CurInv, BaseInv, TypeOK, LockInv,
             PlaceInv, BuiltInv
    <3>4. CurInv'
      BY ManagerAssumption, <2>21
         DEF vars, WorkInv, OpenerInv, CloserInv, Closing, CurInv, BaseInv, TypeOK,
             LockInv, PlaceInv, BuiltInv
    <3> QED
      BY <3>1, <3>2, <3>3, <3>4
  <2> HIDE DEF LifeStates, Goals, PCs, Critical, Goto, Unlock, Return, Calling,
          env, managerVars, linkVars, procVars
  <2>22. QED
    BY <2>1, <2>2, <2>3, <2>4, <2>5, <2>6, <2>7, <2>8, <2>9, <2>10, <2>11, <2>12,
       <2>13, <2>14, <2>15, <2>16, <2>17, <2>18, <2>19, <2>20, <2>21
    DEF Next, UserStep, CallStep, HeartbeatStep
<1>2. QED
  BY <1>1

-----------------------------------------------------------------------------
LEMMA RegInit == Init => RegInv
  BY ManagerAssumption DEF Init, RegInv, Managers, None, Procs

LEMMA RegStep == BaseInv /\ RegInv /\ [Next]_vars => RegInv'
<1> SUFFICES ASSUME BaseInv, RegInv, [Next]_vars PROVE RegInv'
  OBVIOUS
<1> USE SetFacts DEF Calling, Goto, Unlock, Return, env, managerVars, linkVars, procVars
<1>1. ASSUME NEW p \in Users, SharedConnect(p) PROVE RegInv'
  <2>1. CASE registry # None
    <3>1. /\ registry' = registry /\ managers' = managers /\ stopped' = stopped
          /\ mgr' = [mgr EXCEPT ![p] = registry] /\ home' = home
      BY <1>1, <2>1 DEF SharedConnect
    <3>2. registry <= managers /\ mgr \in [Procs -> Managers \cup {None}]
      BY DEF BaseInv, PlaceInv, TypeOK
    <3>3. QED
      BY <3>1, <3>2 DEF RegInv
  <2>2. CASE registry = None
    <3>1. /\ registry' = managers + 1 /\ managers' = managers + 1
          /\ stopped' = stopped /\ home' = home
          /\ mgr' = [mgr EXCEPT ![p] = managers + 1, ![managers + 1] = managers + 1]
      BY <1>1, <2>2 DEF SharedConnect
    <3>2. /\ managers \in Nat /\ mgr \in [Procs -> Managers \cup {None}]
          /\ home \in [Bridges -> Managers \cup {None}]
      BY ManagerAssumption DEF BaseInv, TypeOK
    <3>3. ASSUME NEW m \in Managers, m <= managers', ~stopped'[m] PROVE registry' = m
      <4>1. m \in Nat /\ m # None
        BY SetFacts
      <4>2. ~(m <= managers)
        BY <2>2, <3>1, <3>3, <4>1 DEF RegInv
      <4>3. QED
        BY <3>1, <3>2, <3>3, <4>1, <4>2
    <3>4. ASSUME NEW q \in Procs, mgr'[q] # None PROVE mgr'[q] <= managers'
      <4>1. mgr'[q] = managers + 1 \/ mgr'[q] = mgr[q]
        BY <3>1, <3>2
      <4>2. mgr[q] \in Managers \cup {None} /\ (mgr[q] # None => mgr[q] <= managers)
        BY <3>2 DEF RegInv
      <4>3. QED
        BY <3>1, <3>2, <3>4, <4>1, <4>2 DEF Managers
    <3>5. ASSUME NEW b \in Bridges, home'[b] # None PROVE home'[b] <= managers'
      <4>1. home[b] \in Nat /\ home[b] <= managers
        BY <3>1, <3>2, <3>5 DEF RegInv, None
      <4>2. QED
        BY <3>1, <3>2, <4>1
    <3>6. QED
      BY <3>3, <3>4, <3>5 DEF RegInv
  <2>3. QED
    BY <2>1, <2>2
<1>2. ASSUME NEW p \in Users, DisconnectAll(p) PROVE RegInv'
  BY <1>2 DEF DisconnectAll, RegInv, BaseInv, TypeOK, PlaceInv
<1>3. ASSUME NEW p \in Users, NEW m \in Managers, NEW g \in Goals, CallManager(p, m, g)
      PROVE  RegInv'
  BY <1>3 DEF CallManager, RegInv, BaseInv, TypeOK
<1>4. ASSUME NEW p \in Procs, OpenBegin(p) PROVE RegInv'
  <2>1. /\ home' = [home EXCEPT ![bridges + 1] = mgr[p]]
        /\ registry' = registry /\ managers' = managers /\ stopped' = stopped /\ mgr' = mgr
    BY <1>4 DEF OpenBegin
  <2>2. home \in [Bridges -> Managers \cup {None}]
    BY DEF BaseInv, TypeOK
  <2>3. QED
    BY <2>1, <2>2 DEF RegInv
<1>5. ASSUME UNCHANGED <<registry, managers, stopped, mgr, home>> PROVE RegInv'
  BY <1>5 DEF RegInv
<1>6. ASSUME NEW p \in Procs,
             FastPath(p) \/ Acquire(p) \/ Recheck(p) \/ CloseOld(p) \/ CloseOldEnd(p)
               \/ OpenDone(p) \/ OpenFail(p) \/ CloseDirectEnd(p)
      PROVE  RegInv'
  BY <1>5, <1>6 DEF FastPath, Acquire, Recheck, CloseOld, CloseOldEnd, OpenDone,
                    OpenFail,
                    CloseDirectEnd
<1>7. ASSUME NEW p \in Users, RequestFails(p) \/ CloseDirect(p) PROVE RegInv'
  BY <1>5, <1>7 DEF RequestFails, CloseDirect
<1>8. ASSUME NEW m \in Managers, HeartbeatStep(m) PROVE RegInv'
  BY <1>5, <1>8 DEF HeartbeatStep, Tick, Beat, Ping
<1>9. CASE BoardDrops \/ BoardReturns \/ Done \/ UNCHANGED vars
  BY <1>5, <1>9 DEF BoardDrops, BoardReturns, Done, vars
<1> HIDE DEF Calling, Goto, Unlock, Return, env, managerVars, linkVars, procVars
<1>10. QED
  BY <1>1, <1>2, <1>3, <1>4, <1>6, <1>7, <1>8, <1>9 DEF Next, UserStep, CallStep

\* A Bridge on the port that the application is not closing is being opened
\* by the holder of its manager's lock, or is that manager's link.
LEMMA PortHolders ==
  ASSUME BaseInv, LinkInv, NEW x \in Bridges, HoldsPort(x), ~AppCloses(x)
  PROVE  /\ home[x] \in Managers
         /\ \/ /\ state[x] = "opening" /\ cur[home[x]] = None
               /\ \E p \in Procs : pc[p] = "opening" /\ seen[p] = x /\ lock[home[x]] = p
            \/ state[x] = "open" /\ cur[home[x]] = x
            \/ /\ state[x] = "closing" /\ cur[home[x]] = x
               /\ \E p \in Procs : pc[p] = "closed" /\ seen[p] = x /\ lock[home[x]] = p
<1> USE SetFacts
<1>1. CASE state[x] = "opening"
  <2>1. PICK p \in Procs : pc[p] = "opening" /\ seen[p] = x
    BY <1>1 DEF LinkInv, OpenerInv
  <2>2. QED
    BY <1>1, <2>1 DEF LinkInv, WorkInv, BaseInv, LockInv, Critical
<1>2. CASE state[x] = "open"
  BY <1>2 DEF LinkInv, CurInv
<1>3. CASE state[x] = "closing"
  <2>1. PICK p \in Procs : Closing(p) /\ seen[p] = x
    BY <1>3 DEF LinkInv, CloserInv
  <2>2. pc[p] = "closed"
    BY <2>1 DEF Closing, AppCloses, LinkInv, WorkInv
  <2>3. mgr[p] \in Managers /\ lock[mgr[p]] = p /\ cur[mgr[p]] = x
    BY <2>1, <2>2 DEF LinkInv, WorkInv, BaseInv, LockInv, Critical
  <2>4. home[x] = mgr[p]
    BY <2>3 DEF LinkInv, CurInv
  <2>5. QED
    BY <1>3, <2>1, <2>2, <2>3, <2>4
<1>4. QED
  BY <1>1, <1>2, <1>3 DEF HoldsPort

LEMMA LeftInit == Init => LeftInv
  BY SetFacts DEF Init, LeftInv, HoldsPort, None

\* A step that puts no Bridge on the port, stops no manager and takes away
\* neither a close() nor a disconnect leaves LeftInv as it is.
LEMMA LeftKept ==
  ASSUME LeftInv, built' = built, bridges' = bridges, home' = home, stopped' = stopped,
         \A b \in Bridges : HoldsPort(b)' => HoldsPort(b) /\ (AppCloses(b) => AppCloses(b)'),
         \A m \in Managers : BeingShutDown(m) => BeingShutDown(m)'
  PROVE  LeftInv'
  BY DEF LeftInv

\* What a thread was doing stays, where the step is another thread's.
LEMMA WitnessesKept ==
  ASSUME NEW q, \A w \in Users \ {q} : /\ pc'[w] = pc[w] /\ goal'[w] = goal[w]
                                       /\ mgr'[w] = mgr[w] /\ seen'[w] = seen[w]
  PROVE  /\ \A b \in Bridges : pc[q] # "closeDirect" \/ seen[q] # b =>
              (AppCloses(b) => AppCloses(b)')
         /\ \A m \in Managers :
              goal[q] # "disconnect" \/ pc[q] \notin {"acquire", "close", "closed"} \/ mgr[q] # m =>
              (BeingShutDown(m) => BeingShutDown(m)')
  BY DEF AppCloses, BeingShutDown

LEMMA LeftStep == BaseInv /\ LinkInv /\ LeftInv /\ [Next]_vars => LeftInv'
<1> SUFFICES ASSUME BaseInv, LinkInv, LeftInv, [Next]_vars PROVE LeftInv'
  OBVIOUS
<1> USE SetFacts DEF Calling, Goto, Unlock, Return, env, managerVars, linkVars, procVars
<1>0. /\ pc \in [Procs -> PCs] /\ goal \in [Procs -> Goals]
      /\ mgr \in [Procs -> Managers \cup {None}] /\ seen \in [Procs -> Bridges \cup {None}]
      /\ state \in [Bridges -> LifeStates] /\ home \in [Bridges -> Managers \cup {None}]
      /\ stopped \in [Managers -> BOOLEAN] /\ built \in [Managers -> 0..MaxBridges]
      /\ registry \in Managers \cup {None} /\ bridges \in 0..MaxBridges /\ MaxBridges \in Nat
      /\ lock \in [Managers -> Procs \cup {Nobody}] /\ managers \in Nat
  BY ManagerAssumption DEF BaseInv, TypeOK
<1>1. ASSUME NEW p \in Users, SharedConnect(p) PROVE LeftInv'
  <2>1. /\ \A w \in Users \ {p} : /\ pc'[w] = pc[w] /\ goal'[w] = goal[w]
                                 /\ mgr'[w] = mgr[w] /\ seen'[w] = seen[w]
        /\ pc[p] = "idle" /\ state' = state /\ home' = home /\ stopped' = stopped
        /\ built' = built /\ bridges' = bridges
    <3>1. managers + 1 \in Managers => managers + 1 \notin Users
      OBVIOUS
    <3>2. registry = None => managers + 1 \in Managers
      BY <1>0, <1>1, ManagerAssumption DEF SharedConnect, Managers
    <3>3. QED
      BY <1>0, <1>1, <3>1, <3>2 DEF SharedConnect
  <2>2. QED
    BY <2>1, WitnessesKept, LeftKept DEF HoldsPort
<1>2. ASSUME NEW p \in Users, DisconnectAll(p) PROVE LeftInv'
  <2>1. /\ \A w \in Users \ {p} : /\ pc'[w] = pc[w] /\ goal'[w] = goal[w]
                                 /\ mgr'[w] = mgr[w] /\ seen'[w] = seen[w]
        /\ pc[p] = "idle" /\ registry \in Managers
    BY <1>0, <1>2 DEF DisconnectAll
  <2>2. /\ state' = state /\ home' = home /\ bridges' = bridges
        /\ stopped' = [stopped EXCEPT ![registry] = TRUE]
        /\ built' = [built EXCEPT ![registry] = bridges]
    BY <1>2 DEF DisconnectAll
  <2>3. \A m \in Managers : m = registry => BeingShutDown(m)'
    <3>1. mgr'[p] = registry /\ goal'[p] = "disconnect" /\ pc'[p] = "acquire"
      BY <1>0, <1>2, <2>1 DEF DisconnectAll
    <3>2. QED
      BY <3>1 DEF BeingShutDown
  <2>4. \A m \in Managers : built'[m] <= bridges'
    BY <1>0, <2>2 DEF LeftInv
  <2>5. ASSUME NEW m \in Managers, NEW b \in Bridges,
               HoldsPort(b)', home'[b] = m, stopped'[m], b <= built'[m]
        PROVE  AppCloses(b)' \/ BeingShutDown(m)'
    <3>1. CASE m = registry
      BY <2>3, <3>1
    <3>2. CASE m # registry
      <4>1. AppCloses(b) \/ BeingShutDown(m)
        BY <1>0, <2>2, <2>5, <3>2 DEF LeftInv, HoldsPort
      <4>2. QED
        BY <2>1, <4>1, WitnessesKept
    <3>3. QED
      BY <3>1, <3>2
  <2>6. QED
    BY <2>4, <2>5 DEF LeftInv
<1>3. ASSUME NEW p \in Users, NEW n \in Managers, NEW g \in Goals, CallManager(p, n, g)
      PROVE  LeftInv'
  <2>1. /\ \A w \in Users \ {p} : /\ pc'[w] = pc[w] /\ goal'[w] = goal[w]
                                 /\ mgr'[w] = mgr[w] /\ seen'[w] = seen[w]
        /\ pc[p] = "idle" /\ state' = state /\ home' = home /\ stopped' = stopped
        /\ built' = built /\ bridges' = bridges
    BY <1>0, <1>3 DEF CallManager
  <2>2. QED
    BY <2>1, WitnessesKept, LeftKept DEF HoldsPort
<1>4. ASSUME NEW p \in Users, CloseDirect(p) PROVE LeftInv'
  <2>1. /\ \A w \in Users \ {p} : /\ pc'[w] = pc[w] /\ goal'[w] = goal[w]
                                 /\ mgr'[w] = mgr[w] /\ seen'[w] = seen[w]
        /\ pc[p] = "idle" /\ home' = home /\ stopped' = stopped
        /\ built' = built /\ bridges' = bridges
    BY <1>0, <1>4 DEF CloseDirect
  <2>2. \A b \in Bridges : HoldsPort(b)' => HoldsPort(b)
    BY <1>0, <1>4 DEF CloseDirect, HoldsPort
  <2>3. QED
    BY <2>1, <2>2, WitnessesKept, LeftKept
<1>5. ASSUME NEW p \in Procs, CloseDirectEnd(p) PROVE LeftInv'
  <2>1. /\ \A w \in Users \ {p} : /\ pc'[w] = pc[w] /\ goal'[w] = goal[w]
                                 /\ mgr'[w] = mgr[w] /\ seen'[w] = seen[w]
        /\ pc[p] = "closeDirect" /\ home' = home /\ stopped' = stopped
        /\ built' = built /\ bridges' = bridges
    BY <1>0, <1>5 DEF CloseDirectEnd
  <2>2. state' = [state EXCEPT ![seen[p]] = "closed"]
    BY <1>5 DEF CloseDirectEnd
  <2>3. \A b \in Bridges : HoldsPort(b)' => HoldsPort(b) /\ seen[p] # b
    BY <1>0, <2>2 DEF HoldsPort
  <2>4. QED
    BY <2>1, <2>3, WitnessesKept, LeftKept
<1>6. ASSUME NEW p \in Procs, OpenBegin(p) PROVE LeftInv'
  <2>1. /\ \A w \in Users \ {p} : /\ pc'[w] = pc[w] /\ goal'[w] = goal[w]
                                 /\ mgr'[w] = mgr[w] /\ seen'[w] = seen[w]
        /\ pc[p] = "open" /\ stopped' = stopped /\ built' = built
    BY <1>0, <1>6 DEF OpenBegin
  <2>2. /\ bridges' = bridges + 1 /\ state' = [state EXCEPT ![bridges + 1] = "opening"]
        /\ home' = [home EXCEPT ![bridges + 1] = mgr[p]]
    BY <1>6 DEF OpenBegin
  <2>3. \A m \in Managers : built'[m] <= bridges' /\ ~(bridges + 1 <= built'[m])
    <3> TAKE m \in Managers
    <3>1. built[m] \in Nat /\ built[m] <= bridges /\ bridges \in Nat
      BY <1>0 DEF LeftInv
    <3>2. QED
      BY <2>1, <2>2, <3>1
  <2>4. ASSUME NEW m \in Managers, NEW b \in Bridges,
               HoldsPort(b)', home'[b] = m, stopped'[m], b <= built'[m]
        PROVE  AppCloses(b)' \/ BeingShutDown(m)'
    <3>1. b # bridges + 1
      BY <2>3, <2>4
    <3>2. AppCloses(b) \/ BeingShutDown(m)
      BY <1>0, <2>1, <2>2, <2>4, <3>1 DEF LeftInv, HoldsPort
    <3>3. QED
      BY <2>1, <3>2, WitnessesKept
  <2>5. QED
    BY <2>3, <2>4 DEF LeftInv
<1>7. ASSUME NEW p \in Procs, Acquire(p) \/ CloseOld(p) PROVE LeftInv'
  <2>1. /\ \A w \in Users \ {p} : /\ pc'[w] = pc[w] /\ goal'[w] = goal[w]
                                 /\ mgr'[w] = mgr[w] /\ seen'[w] = seen[w]
        /\ pc[p] \in {"acquire", "close"} /\ home' = home /\ stopped' = stopped
        /\ built' = built /\ bridges' = bridges /\ goal' = goal /\ mgr' = mgr
    BY <1>0, <1>7 DEF Acquire, CloseOld
  <2>2. goal[p] = "disconnect" => pc'[p] \in {"close", "closed"}
    BY <1>0, <1>7 DEF Acquire, CloseOld
  <2>3. \A b \in Bridges : HoldsPort(b)' => HoldsPort(b)
    <3>1. CASE Acquire(p)
      BY <3>1 DEF Acquire, HoldsPort
    <3>2. CASE CloseOld(p)
      BY <1>0, <3>2 DEF CloseOld, HoldsPort
    <3>3. QED
      BY <1>7, <3>1, <3>2
  <2>4. \A m \in Managers : BeingShutDown(m) => BeingShutDown(m)'
    BY <2>1, <2>2 DEF BeingShutDown
  <2>5. \A b \in Bridges : AppCloses(b) => AppCloses(b)'
    BY <2>1, WitnessesKept
  <2>6. QED
    BY <2>1, <2>3, <2>4, <2>5, LeftKept
<1>8. ASSUME NEW p \in Procs, CloseOldEnd(p) PROVE LeftInv'
  <2>1. /\ \A w \in Users \ {p} : /\ pc'[w] = pc[w] /\ goal'[w] = goal[w]
                                 /\ mgr'[w] = mgr[w] /\ seen'[w] = seen[w]
        /\ pc[p] = "closed" /\ home' = home /\ stopped' = stopped
        /\ built' = built /\ bridges' = bridges
    BY <1>0, <1>8 DEF CloseOldEnd
  <2>2. state' = IF seen[p] # None THEN [state EXCEPT ![seen[p]] = "closed"] ELSE state
    BY <1>8 DEF CloseOldEnd
  <2>3. \A b \in Bridges : HoldsPort(b)' => HoldsPort(b) /\ seen[p] # b
    BY <1>0, <2>2 DEF HoldsPort
  <2>4. /\ mgr[p] \in Managers /\ lock[mgr[p]] = p
        /\ seen[p] # None => seen[p] = cur[mgr[p]]
        /\ seen[p] = None /\ cur[mgr[p]] # None => state[cur[mgr[p]]] # "open"
    BY <2>1 DEF BaseInv, LockInv, Critical, LinkInv, WorkInv
  <2>5. ASSUME NEW b \in Bridges, HoldsPort(b)', home[b] = mgr[p]
        PROVE  AppCloses(b)
    <3> SUFFICES ASSUME ~AppCloses(b) PROVE FALSE
      OBVIOUS
    <3>1. HoldsPort(b) /\ seen[p] # b
      BY <2>3, <2>5
    <3>2. CASE state[b] = "opening"
      <4>1. \E q \in Procs : pc[q] = "opening" /\ lock[home[b]] = q
        BY <3>1, <3>2, PortHolders
      <4>2. QED
        BY <2>1, <2>4, <2>5, <4>1
    <3>3. CASE state[b] = "open"
      <4>1. cur[mgr[p]] = b
        BY <2>5, <3>1, <3>3, PortHolders
      <4>2. QED
        BY <2>4, <3>1, <3>3, <4>1
    <3>4. CASE state[b] = "closing"
      <4>1. \E q \in Procs : seen[q] = b /\ lock[home[b]] = q
        BY <3>1, <3>4, PortHolders
      <4>2. QED
        BY <2>4, <2>5, <3>1, <4>1
    <3>5. QED
      BY <3>1, <3>2, <3>3, <3>4 DEF HoldsPort
  <2>6. ASSUME NEW m \in Managers, NEW b \in Bridges,
               HoldsPort(b)', home'[b] = m, stopped'[m], b <= built'[m]
        PROVE  AppCloses(b)' \/ BeingShutDown(m)'
    <3>1. AppCloses(b) => AppCloses(b)'
      BY <2>1, WitnessesKept
    <3>2. CASE m = mgr[p]
      BY <2>1, <2>5, <2>6, <3>1, <3>2
    <3>3. CASE m # mgr[p]
      <4>1. AppCloses(b) \/ BeingShutDown(m)
        BY <2>1, <2>3, <2>6 DEF LeftInv
      <4>2. BeingShutDown(m) => BeingShutDown(m)'
        BY <2>1, <3>3, WitnessesKept
      <4>3. QED
        BY <3>1, <4>1, <4>2
    <3>4. QED
      BY <3>2, <3>3
  <2>7. QED
    BY <2>1, <2>6 DEF LeftInv
<1>9. ASSUME NEW p \in Procs, FastPath(p) \/ Recheck(p) \/ OpenDone(p) \/ OpenFail(p)
      PROVE  LeftInv'
  <2>1. /\ \A w \in Users \ {p} : /\ pc'[w] = pc[w] /\ goal'[w] = goal[w]
                                 /\ mgr'[w] = mgr[w] /\ seen'[w] = seen[w]
        /\ pc[p] \in {"fast", "locked", "opening"} /\ home' = home /\ stopped' = stopped
        /\ built' = built /\ bridges' = bridges
    <3>1. CASE FastPath(p)
      BY <1>0, <3>1 DEF FastPath
    <3>2. CASE Recheck(p)
      BY <1>0, <3>2 DEF Recheck
    <3>3. CASE OpenDone(p) \/ OpenFail(p)
      BY <1>0, <3>3 DEF OpenDone, OpenFail
    <3>4. QED
      BY <1>9, <3>1, <3>2, <3>3
  <2>2. \A b \in Bridges : HoldsPort(b)' => HoldsPort(b)
    <3>1. CASE FastPath(p) \/ Recheck(p)
      BY <3>1 DEF FastPath, Recheck, HoldsPort
    <3>2. CASE OpenDone(p) \/ OpenFail(p)
      <4>1. seen[p] \in Bridges /\ state[seen[p]] = "opening"
        BY <1>0, <3>2 DEF OpenDone, OpenFail, BaseInv, BuiltInv, LinkInv, WorkInv
      <4>2. QED
        BY <1>0, <3>2, <4>1 DEF OpenDone, OpenFail, HoldsPort
    <3>3. QED
      BY <1>9, <3>1, <3>2
  <2>3. QED
    BY <2>1, <2>2, WitnessesKept, LeftKept
<1>10. ASSUME NEW m \in Managers, HeartbeatStep(m) PROVE LeftInv'
  <2>1. /\ \A w \in Users \ {m} : /\ pc'[w] = pc[w] /\ goal'[w] = goal[w]
                                 /\ mgr'[w] = mgr[w] /\ seen'[w] = seen[w]
        /\ pc[m] \in {"wait", "tick", "ping"} /\ state' = state /\ home' = home
        /\ stopped' = stopped /\ built' = built /\ bridges' = bridges
    BY <1>0, <1>10 DEF HeartbeatStep, Tick, Beat, Ping
  <2>2. QED
    BY <2>1, WitnessesKept, LeftKept DEF HoldsPort
<1>11. CASE BoardDrops \/ BoardReturns \/ Done \/ UNCHANGED vars
            \/ \E p \in Users : RequestFails(p)
  <2>1. /\ pc' = pc /\ goal' = goal /\ mgr' = mgr /\ seen' = seen /\ state' = state
        /\ home' = home /\ stopped' = stopped /\ built' = built /\ bridges' = bridges
    BY <1>11 DEF BoardDrops, BoardReturns, Done, vars, RequestFails
  <2>2. QED
    BY <2>1, LeftKept DEF HoldsPort, AppCloses, BeingShutDown
<1> HIDE DEF Calling, Goto, Unlock, Return, env, managerVars, linkVars, procVars
<1>12. QED
  BY <1>1, <1>2, <1>3, <1>4, <1>5, <1>6, <1>7, <1>8, <1>9, <1>10, <1>11
  DEF Next, UserStep, CallStep

\* A board's link is never opened twice: not while the old Bridge is still
\* closing, whichever threads and heartbeats call bridge(), connect() and
\* disconnect() at one time.  The exceptions OneLink names are the only ones:
\* close() of a shared Bridge by the application, and the link of a manager
\* that disconnect_all() has forgotten, which is either not closed yet or was
\* opened after the manager was stopped.
THEOREM OneLinkProved == Spec => []OneLink
<1>1. BaseInv /\ LinkInv /\ RegInv /\ LeftInv => OneLink
  <2> SUFFICES ASSUME BaseInv, LinkInv, RegInv, LeftInv,
                      NEW b \in Bridges, NEW c \in Bridges,
                      HoldsPort(b), HoldsPort(c), b # c,
                      ~AppCloses(b), ~AppCloses(c)
               PROVE  home[b] # home[c] /\ (Forgotten(b) \/ Forgotten(c))
    BY DEF OneLink
  <2> USE SetFacts
  <2>1. home[b] \in Managers /\ home[c] \in Managers
    BY PortHolders
  <2>2. ASSUME home[b] = home[c] PROVE FALSE
    <3>1. CASE state[b] = "opening" /\ state[c] = "opening"
      BY <2>2, <3>1, PortHolders
    <3>2. CASE ~(state[b] = "opening" /\ state[c] = "opening")
      BY <2>2, <3>2, PortHolders DEF None
    <3>3. QED
      BY <3>1, <3>2
  <2>3. ASSUME NEW x \in Bridges, HoldsPort(x), ~AppCloses(x), home[x] \in Managers,
               stopped[home[x]]
        PROVE  Forgotten(x)
    <3>1. x \in Nat /\ built[home[x]] \in 0..MaxBridges /\ MaxBridges \in Nat
      BY <2>3, ManagerAssumption DEF BaseInv, TypeOK
    <3>2. x <= built[home[x]] => BeingShutDown(home[x])
      BY <2>3 DEF LeftInv
    <3>3. QED
      BY <2>3, <3>1, <3>2 DEF Forgotten
  <2>4. stopped[home[b]] \/ stopped[home[c]]
    BY <2>1, <2>2 DEF RegInv
  <2>5. QED
    BY <2>1, <2>2, <2>3, <2>4
<1>2. QED
  BY BaseInit, BaseStep, LinkInit, LinkStep, RegInit, RegStep, LeftInit, LeftStep, <1>1, PTL
  DEF Spec

-----------------------------------------------------------------------------
\* A link that bridge() found stale under the lock stays stale until it is
\* closed; a heartbeat never asks for more than bridge().
StaleInv ==
  /\ \A p \in Procs :
       pc[p] = "close" /\ goal[p] = "bridge" /\ cur[mgr[p]] # None =>
         dead[cur[mgr[p]]] \/ state[cur[mgr[p]]] \in {"closing", "closed"}
  /\ \A m \in Managers : goal[m] = "bridge"

LEMMA StaleInit == Init => StaleInv
  BY SetFacts DEF Init, StaleInv

LEMMA StaleStep == BaseInv /\ LinkInv /\ StaleInv /\ [Next]_vars => StaleInv'
<1> SUFFICES ASSUME BaseInv, LinkInv, StaleInv, [Next]_vars PROVE StaleInv'
  OBVIOUS
<1> USE SetFacts, HomePlace
    DEF LifeStates, Goals, PCs, Critical, Goto, Unlock, Return, Calling,
        env, managerVars, linkVars, procVars
<1>1. ASSUME NEW p \in Users, SharedConnect(p)
     PROVE  StaleInv'
  BY ManagerAssumption, <1>1
     DEF SharedConnect, Managers, StaleInv, BaseInv, TypeOK, LockInv, PlaceInv, LinkInv,
         CurInv
<1>2. ASSUME NEW p \in Users, DisconnectAll(p)
     PROVE  StaleInv'
  BY ManagerAssumption, <1>2
     DEF DisconnectAll, StaleInv, BaseInv, TypeOK, LockInv, PlaceInv, LinkInv,
         CurInv
<1>3. ASSUME NEW p \in Users, RequestFails(p)
     PROVE  StaleInv'
  BY ManagerAssumption, <1>3
     DEF RequestFails, StaleInv, BaseInv, TypeOK, LockInv, PlaceInv, LinkInv,
         CurInv
<1>4. ASSUME NEW p \in Users, CloseDirect(p)
     PROVE  StaleInv'
  BY ManagerAssumption, <1>4
     DEF CloseDirect, StaleInv, BaseInv, TypeOK, LockInv, PlaceInv, LinkInv,
         CurInv
<1>5. ASSUME NEW p \in Users, NEW m \in Managers, NEW g \in Goals,
             CallManager(p, m, g)
     PROVE  StaleInv'
  BY ManagerAssumption, <1>5
     DEF CallManager, StaleInv, BaseInv, TypeOK, LockInv, PlaceInv, LinkInv,
         CurInv
<1>6. ASSUME NEW p \in Procs, FastPath(p)
     PROVE  StaleInv'
  BY ManagerAssumption, <1>6
     DEF FastPath, StaleInv, BaseInv, TypeOK, LockInv, PlaceInv, LinkInv,
         CurInv
<1>7. ASSUME NEW p \in Procs, Acquire(p)
     PROVE  StaleInv'
  BY ManagerAssumption, <1>7
     DEF Acquire, StaleInv, BaseInv, TypeOK, LockInv, PlaceInv, LinkInv,
         CurInv
<1>8. ASSUME NEW p \in Procs, Recheck(p)
     PROVE  StaleInv'
  <2>1. /\ pc[p] = "locked" /\ mgr[p] \in Managers
        /\ cur' = cur /\ dead' = dead /\ state' = state /\ goal' = goal /\ mgr' = mgr
    BY <1>8 DEF Recheck, BaseInv, LockInv
  <2>2. pc'[p] = "close" /\ cur[mgr[p]] # None =>
          dead[cur[mgr[p]]] \/ state[cur[mgr[p]]] \in {"closing", "closed"}
    <3>1. cur[mgr[p]] # None => state[cur[mgr[p]]] \in {"open", "closing", "closed"}
      BY <2>1 DEF LinkInv, CurInv
    <3>2. pc'[p] = "close" => Stale(cur[mgr[p]])
      BY <1>8 DEF Recheck, BaseInv, TypeOK
    <3>3. QED
      BY <3>1, <3>2 DEF Stale, IsAlive
  <2>3. \A q \in Procs : q # p => pc'[q] = pc[q]
    BY <1>8 DEF Recheck, BaseInv, TypeOK
  <2>4. QED
    BY <2>1, <2>2, <2>3 DEF StaleInv
<1>9. ASSUME NEW p \in Procs, CloseOld(p)
     PROVE  StaleInv'
  BY ManagerAssumption, <1>9
     DEF CloseOld, StaleInv, BaseInv, TypeOK, LockInv, PlaceInv, LinkInv,
         CurInv
<1>10. ASSUME NEW p \in Procs, CloseOldEnd(p)
     PROVE  StaleInv'
  BY ManagerAssumption, <1>10
     DEF CloseOldEnd, StaleInv, BaseInv, TypeOK, LockInv, PlaceInv, LinkInv,
         CurInv
<1>11. ASSUME NEW p \in Procs, OpenBegin(p)
     PROVE  StaleInv'
  BY ManagerAssumption, <1>11
     DEF OpenBegin, Bridges, StaleInv, BaseInv, TypeOK, LockInv, PlaceInv, LinkInv,
         CurInv
<1>12. ASSUME NEW p \in Procs, OpenDone(p)
     PROVE  StaleInv'
  <2>1. /\ pc[p] = "opening" /\ mgr[p] \in Managers /\ lock[mgr[p]] = p
        /\ seen[p] \in Bridges /\ state[seen[p]] = "opening"
        /\ cur \in [Managers -> Bridges \cup {None}] /\ state \in [Bridges -> LifeStates]
    BY <1>12 DEF OpenDone, BaseInv, TypeOK, LockInv, BuiltInv, LinkInv, WorkInv
  <2>2. /\ cur' = [cur EXCEPT ![mgr[p]] = seen[p]]
        /\ state' = [state EXCEPT ![seen[p]] = "open"]
        /\ dead' = dead /\ goal' = goal /\ mgr' = mgr
        /\ pc' = [pc EXCEPT ![p] = Home(p)] /\ pc \in [Procs -> PCs]
    BY <1>12 DEF OpenDone, BaseInv, TypeOK
  <2>3. ASSUME NEW q \in Procs, pc'[q] = "close", goal[q] = "bridge",
  cur'[mgr[q]] # None
        PROVE  dead[cur'[mgr[q]]] \/ state'[cur'[mgr[q]]] \in {"closing", "closed"}
    <3>1. q # p /\ pc[q] = "close"
      BY <2>2, <2>3
    <3>2. mgr[q] \in Managers /\ mgr[q] # mgr[p]
      BY <2>1, <3>1 DEF BaseInv, LockInv
    <3>3. cur'[mgr[q]] = cur[mgr[q]] /\ cur[mgr[q]] \in Bridges
      BY <2>1, <2>2, <2>3, <3>2
    <3>4. state[cur[mgr[q]]] \in {"open", "closing", "closed"}
      BY <2>3, <3>2, <3>3 DEF LinkInv, CurInv
    <3>5. cur[mgr[q]] # seen[p]
      BY <2>1, <3>4
    <3>6. QED
      BY <2>1, <2>2, <2>3, <3>1, <3>3, <3>5 DEF StaleInv
  <2>4. QED
    BY <2>2, <2>3 DEF StaleInv
<1>13. ASSUME NEW p \in Procs, OpenFail(p)
     PROVE  StaleInv'
  BY ManagerAssumption, <1>13
     DEF OpenFail, StaleInv, BaseInv, TypeOK, LockInv, PlaceInv, LinkInv,
         CurInv
<1>14. ASSUME NEW p \in Procs, CloseDirectEnd(p)
     PROVE  StaleInv'
  BY ManagerAssumption, <1>14
     DEF CloseDirectEnd, StaleInv, BaseInv, TypeOK, LockInv, PlaceInv, LinkInv,
         CurInv
<1>15. ASSUME NEW m \in Managers, Tick(m)
     PROVE  StaleInv'
  BY ManagerAssumption, <1>15
     DEF Tick, StaleInv, BaseInv, TypeOK, LockInv, PlaceInv, LinkInv,
         CurInv
<1>16. ASSUME NEW m \in Managers, Beat(m)
     PROVE  StaleInv'
  BY ManagerAssumption, <1>16
     DEF Beat, StaleInv, BaseInv, TypeOK, LockInv, PlaceInv, LinkInv,
         CurInv
<1>17. ASSUME NEW m \in Managers, Ping(m)
     PROVE  StaleInv'
  BY ManagerAssumption, <1>17
     DEF Ping, AfterPing, StaleInv, BaseInv, TypeOK, LockInv, PlaceInv, LinkInv,
         CurInv
<1>18. CASE BoardDrops
  BY ManagerAssumption, <1>18
     DEF BoardDrops, StaleInv, BaseInv, TypeOK, LockInv, PlaceInv, LinkInv,
         CurInv
<1>19. CASE BoardReturns
  BY ManagerAssumption, <1>19
     DEF BoardReturns, StaleInv, BaseInv, TypeOK, LockInv, PlaceInv, LinkInv,
         CurInv
<1>20. CASE Done
  BY ManagerAssumption, <1>20
     DEF Done, vars, StaleInv, BaseInv, TypeOK, LockInv, PlaceInv, LinkInv,
         CurInv
<1>21. CASE UNCHANGED vars
  BY ManagerAssumption, <1>21
     DEF vars, StaleInv, BaseInv, TypeOK, LockInv, PlaceInv, LinkInv,
         CurInv
<1> HIDE DEF LifeStates, Goals, PCs, Critical, Goto, Unlock, Return, Calling,
             env, managerVars, linkVars, procVars
<1>22. QED
  BY <1>1, <1>2, <1>3, <1>4, <1>5, <1>6, <1>7, <1>8, <1>9, <1>10, <1>11, <1>12,
     <1>13, <1>14, <1>15, <1>16, <1>17, <1>18, <1>19, <1>20, <1>21
  DEF Next, UserStep, CallStep, HeartbeatStep

\* A healthy link is closed only by a thread that asked for it: a bridge()
\* call, of the application or of the heartbeat, that decided to replace an
\* older link never takes away the one another thread has opened since.
THEOREM HealthyLinkProved == Spec => HealthyLinkIsKept
<1>1. ASSUME BaseInv, LinkInv, StaleInv, [Next]_vars,
             NEW b \in Bridges, IsAlive(b), state'[b] # "open"
      PROVE  \E p \in Users :
               \/ /\ pc[p] = "close" /\ pc'[p] = "closed"
                  /\ mgr[p] = home[b] /\ goal[p] \in {"reconnect", "disconnect"}
               \/ pc[p] = "idle" /\ pc'[p] = "closeDirect" /\ seen[p] = b
  <2> USE SetFacts DEF Goto
  <2>1. state[b] = "open" /\ ~dead[b]
    BY <1>1 DEF IsAlive
  <2>2. state \in [Bridges -> LifeStates] /\ pc \in [Procs -> PCs]
    BY <1>1 DEF BaseInv, TypeOK
  <2>3. ASSUME NEW p \in Users, CloseDirect(p)
        PROVE  pc[p] = "idle" /\ pc'[p] = "closeDirect" /\ seen[p] = b
    BY <1>1, <2>1, <2>2, <2>3 DEF CloseDirect, Calling
  <2>4. ASSUME NEW p \in Procs, CloseOld(p)
        PROVE  /\ p \in Users /\ pc[p] = "close" /\ pc'[p] = "closed"
               /\ mgr[p] = home[b] /\ goal[p] \in {"reconnect", "disconnect"}
    <3>1. pc[p] = "close" /\ pc'[p] = "closed" /\ mgr[p] \in Managers
      BY <1>1, <2>2, <2>4 DEF CloseOld, BaseInv, LockInv, Critical
    <3>2. cur[mgr[p]] = b
      BY <1>1, <2>1, <2>2, <2>4 DEF CloseOld
    <3>3. mgr[p] = home[b]
      BY <1>1, <3>1, <3>2 DEF LinkInv, CurInv
    <3>4. goal[p] # "bridge"
      BY <1>1, <2>1, <3>1, <3>2 DEF StaleInv
    <3>5. goal[p] \in {"reconnect", "disconnect"} /\ p \in Users
      BY <1>1, <3>4 DEF StaleInv, BaseInv, TypeOK, Goals
    <3>6. QED
      BY <3>1, <3>3, <3>5
  <2>5. ASSUME NEW p \in Procs, CloseOldEnd(p) PROVE FALSE
    <3>1. pc[p] = "closed"
      BY <2>5 DEF CloseOldEnd
    <3>2. seen[p] # None => state[seen[p]] = "closing"
      BY <1>1, <3>1 DEF LinkInv, CloserInv, Closing
    <3>3. QED
      BY <1>1, <2>1, <2>2, <2>5, <3>2 DEF CloseOldEnd
  <2>6. ASSUME NEW p \in Procs, CloseDirectEnd(p) PROVE FALSE
    <3>1. state[seen[p]] = "closing"
      BY <1>1, <2>6 DEF CloseDirectEnd, LinkInv, CloserInv, Closing, BaseInv, BuiltInv
    <3>2. QED
      BY <1>1, <2>1, <2>2, <2>6, <3>1 DEF CloseDirectEnd
  <2>7. ASSUME NEW p \in Procs, OpenBegin(p) \/ OpenDone(p) \/ OpenFail(p) PROVE FALSE
    <3>1. OpenBegin(p) => state[bridges + 1] = "none"
      BY ManagerAssumption, <1>1 DEF OpenBegin, BaseInv, BuiltInv, TypeOK, Bridges
    <3>2. pc[p] = "opening" => state[seen[p]] = "opening"
      BY <1>1 DEF LinkInv, WorkInv
    <3>3. QED
      BY <1>1, <2>1, <2>2, <2>7, <3>1, <3>2 DEF OpenBegin, OpenDone, OpenFail
  <2>8. ASSUME state' = state PROVE FALSE
    BY <1>1, <2>1, <2>8
  <2>9. ASSUME NEW p \in Procs, FastPath(p) \/ Acquire(p) \/ Recheck(p) PROVE FALSE
    BY <2>8, <2>9 DEF FastPath, Acquire, Recheck, linkVars
  <2>10. ASSUME NEW p \in Users, SharedConnect(p) \/ DisconnectAll(p) \/ RequestFails(p)
         PROVE  FALSE
    BY <2>8, <2>10 DEF SharedConnect, DisconnectAll, RequestFails, linkVars
  <2>11. ASSUME NEW p \in Users, NEW m \in Managers, NEW g \in Goals,
                CallManager(p, m, g)
         PROVE  FALSE
    BY <2>8, <2>11 DEF CallManager, linkVars
  <2>12. ASSUME NEW m \in Managers, HeartbeatStep(m) PROVE FALSE
    BY <2>8, <2>12 DEF HeartbeatStep, Tick, Beat, Ping, linkVars
  <2>13. CASE BoardDrops \/ BoardReturns \/ Done \/ UNCHANGED vars
    BY <2>8, <2>13 DEF BoardDrops, BoardReturns, Done, vars, linkVars
  <2>14. QED
    BY <1>1, <2>3, <2>4, <2>5, <2>6, <2>7, <2>9, <2>10, <2>11, <2>12, <2>13
    DEF Next, UserStep, CallStep
<1> DEFINE Kept ==
      \A b \in Bridges : IsAlive(b) /\ state'[b] # "open" =>
        \E p \in Users :
          \/ /\ pc[p] = "close" /\ pc'[p] = "closed"
             /\ mgr[p] = home[b] /\ goal[p] \in {"reconnect", "disconnect"}
          \/ pc[p] = "idle" /\ pc'[p] = "closeDirect" /\ seen[p] = b
<1>2. BaseInv /\ LinkInv /\ StaleInv /\ [Next]_vars => [Kept]_vars
  BY <1>1
<1>3. Spec => [][Kept]_vars
  <2> HIDE DEF Kept
  <2>1. QED
    BY BaseInit, BaseStep, LinkInit, LinkStep, StaleInit, StaleStep, <1>2, PTL DEF Spec
<1>4. QED
  BY <1>3 DEF HealthyLinkIsKept

-----------------------------------------------------------------------------
(* The heartbeat *)

\* The manager has had a link.
HadLink(m) == \E b \in Bridges : b <= bridges /\ home[b] = m

Resting == {"idle", "wait", "exit"}

\* A heartbeat at work saw a link of its manager, and opens a later one.
BeatInv ==
  \A m \in Managers :
    /\ pc[m] \notin Resting => HadLink(m)
    /\ pc[m] = "opening" => \E b \in Bridges : b <= bridges /\ b < seen[m] /\ home[b] = m

LEMMA BeatInit == Init => BeatInv
  BY SetFacts DEF Init, BeatInv, Resting

\* Bridges keep the manager they were built for.
LEMMA HomesKept ==
  ASSUME BaseInv, [Next]_vars
  PROVE  bridges <= bridges' /\ \A b \in Bridges : b <= bridges => home'[b] = home[b]
<1>1. bridges \in Nat /\ bridges' \in Nat /\ home \in [Bridges -> Managers \cup {None}]
  BY BaseStep, ManagerAssumption DEF BaseInv, TypeOK
<1>2. ASSUME NEW p \in Procs, OpenBegin(p)
      PROVE  bridges' = bridges + 1 /\ home' = [home EXCEPT ![bridges + 1] = mgr[p]]
  BY <1>2 DEF OpenBegin
<1>3. (\E p \in Procs : OpenBegin(p)) \/ (bridges' = bridges /\ home' = home)
  BY DEF Next, UserStep, CallStep, HeartbeatStep, SharedConnect, DisconnectAll, RequestFails,
         CloseDirect, CallManager, FastPath, Acquire, Recheck, CloseOld, CloseOldEnd, OpenDone,
         OpenFail, CloseDirectEnd, Tick, Beat, Ping, BoardDrops, BoardReturns, Done, vars,
         linkVars
<1>4. QED
  BY <1>1, <1>2, <1>3, SetFacts

\* How a heartbeat comes to be at work, and to open a link.
LEMMA BeatMoves ==
  ASSUME BaseInv, [Next]_vars, NEW m \in Managers
  PROVE  /\ pc'[m] \notin Resting => pc[m] \notin Resting \/ cur[m] # None
         /\ pc'[m] = "opening" => \/ pc[m] = "opening" /\ seen'[m] = seen[m]
                                  \/ pc[m] = "open" /\ seen'[m] = bridges + 1
<1> DEFINE Goal == /\ pc'[m] \notin Resting => pc[m] \notin Resting \/ cur[m] # None
                   /\ pc'[m] = "opening" =>
                        \/ pc[m] = "opening" /\ seen'[m] = seen[m]
                        \/ pc[m] = "open" /\ seen'[m] = bridges + 1
<1>1. /\ pc \in [Procs -> PCs] /\ seen \in [Procs -> Bridges \cup {None}]
      /\ m \in Procs /\ m \notin Users /\ managers \in Nat
  BY ManagerAssumption, SetFacts DEF BaseInv, TypeOK
<1>2. ASSUME pc'[m] = pc[m], seen'[m] = seen[m] PROVE Goal
  BY <1>2
<1>3. ASSUME NEW p \in Users, SharedConnect(p) PROVE Goal
  BY <1>1, <1>3 DEF SharedConnect, Calling, Resting, Goto
<1>4. ASSUME NEW p \in Users, \/ DisconnectAll(p) \/ RequestFails(p) \/ CloseDirect(p)
                             \/ \E n \in Managers, g \in Goals : CallManager(p, n, g)
      PROVE  Goal
  <2>1. pc'[m] = pc[m] /\ seen'[m] = seen[m]
    BY <1>1, <1>4 DEF DisconnectAll, RequestFails, CloseDirect, CallManager, Goto, procVars
  <2>2. QED
    BY <1>2, <2>1
<1>5. ASSUME NEW p \in Procs, p # m, CallStep(p) PROVE Goal
  <2>1. pc'[m] = pc[m] /\ seen'[m] = seen[m]
    BY <1>1, <1>5 DEF CallStep, FastPath, Return, Acquire, Recheck, CloseOld, CloseOldEnd,
                      OpenBegin, OpenDone, OpenFail, CloseDirectEnd, Goto
  <2>2. QED
    BY <1>2, <2>1
<1>6. ASSUME OpenBegin(m) PROVE Goal
  BY <1>1, <1>6 DEF OpenBegin, Goto, Resting
<1>7. ASSUME \/ FastPath(m) \/ Acquire(m) \/ Recheck(m) \/ CloseOld(m) \/ CloseOldEnd(m)
             \/ OpenDone(m) \/ OpenFail(m) \/ CloseDirectEnd(m)
      PROVE  Goal
  <2>1. pc[m] \notin Resting
    BY <1>7 DEF FastPath, Acquire, Recheck, CloseOld, CloseOldEnd, OpenDone, OpenFail,
                CloseDirectEnd, Resting
  <2>2. \E q \in {"acquire", "locked", "close", "closed", "open", Home(m), "idle"} :
          pc' = [pc EXCEPT ![m] = q]
    BY <1>7 DEF FastPath, Return, Acquire, Recheck, CloseOld, CloseOldEnd, OpenDone, OpenFail,
                CloseDirectEnd, Goto
  <2>3. pc'[m] # "opening"
    BY <1>1, <2>2 DEF Home
  <2>4. QED
    BY <2>1, <2>3
<1>8. ASSUME NEW n \in Managers, n # m, HeartbeatStep(n) PROVE Goal
  <2>1. pc'[m] = pc[m] /\ seen'[m] = seen[m]
    BY <1>1, <1>8 DEF HeartbeatStep, Tick, Beat, Ping, Goto
  <2>2. QED
    BY <1>2, <2>1
<1>9. ASSUME HeartbeatStep(m) PROVE Goal
  BY <1>1, <1>9 DEF HeartbeatStep, Tick, Beat, Ping, Goto, Resting
<1>10. ASSUME BoardDrops \/ BoardReturns \/ Done \/ UNCHANGED vars PROVE Goal
  BY <1>2, <1>10 DEF BoardDrops, BoardReturns, Done, vars, procVars
<1> HIDE DEF Goal
<1>11. Goal
  BY <1>3, <1>4, <1>5, <1>6, <1>7, <1>8, <1>9, <1>10 DEF Next, UserStep, CallStep
<1>12. QED
  BY <1>11 DEF Goal

LEMMA BeatStep == BaseInv /\ LinkInv /\ BeatInv /\ [Next]_vars => BeatInv'
<1> SUFFICES ASSUME BaseInv, LinkInv, BeatInv, [Next]_vars, NEW m \in Managers
             PROVE  /\ pc'[m] \notin Resting => HadLink(m)'
                    /\ pc'[m] = "opening" =>
                         \E b \in Bridges : b <= bridges' /\ b < seen'[m] /\ home'[b] = m
  BY DEF BeatInv
<1>1. /\ bridges \in Nat /\ bridges' \in Nat /\ Bridges \subseteq Nat
      /\ bridges <= bridges' /\ \A b \in Bridges : b <= bridges => home'[b] = home[b]
  BY HomesKept, BaseStep, ManagerAssumption, SetFacts DEF BaseInv, TypeOK
<1>2. ASSUME cur[m] # None PROVE HadLink(m)
  <2>1. cur[m] \in Bridges /\ home[cur[m]] = m /\ state[cur[m]] # "none"
    BY <1>2 DEF BaseInv, TypeOK, BuiltInv, LinkInv, CurInv
  <2>2. cur[m] <= bridges
    <3>1. cur[m] \in Nat /\ ~(cur[m] > bridges)
      BY <1>1, <2>1 DEF BaseInv, BuiltInv
    <3>2. QED
      BY <1>1, <3>1
  <2>3. QED
    BY <2>1, <2>2 DEF HadLink
<1>3. ASSUME pc'[m] \notin Resting PROVE HadLink(m) /\ HadLink(m)'
  <2>1. HadLink(m)
    BY <1>2, <1>3, BeatMoves DEF BeatInv
  <2>2. PICK b \in Bridges : b <= bridges /\ home[b] = m
    BY <2>1 DEF HadLink
  <2>3. b <= bridges' /\ home'[b] = m
    BY <1>1, <2>2
  <2>4. QED
    BY <2>1, <2>3 DEF HadLink
<1>4. ASSUME pc'[m] = "opening"
      PROVE  \E b \in Bridges : b <= bridges' /\ b < seen'[m] /\ home'[b] = m
  <2>1. PICK b \in Bridges : b <= bridges /\ b < seen'[m] /\ home[b] = m
    <3>1. CASE pc[m] = "opening" /\ seen'[m] = seen[m]
      BY <3>1 DEF BeatInv
    <3>2. CASE seen'[m] = bridges + 1
      BY <1>1, <1>3, <1>4, <3>2 DEF HadLink, Resting
    <3>3. QED
      BY <1>4, <3>1, <3>2, BeatMoves
  <2>2. QED
    BY <1>1, <2>1
<1>5. QED
  BY <1>3, <1>4

\* The heartbeat replaces a link of its manager and never opens the first one.
THEOREM HeartbeatProved == Spec => []HeartbeatOnlyReplaces
<1>1. BaseInv /\ BeatInv => HeartbeatOnlyReplaces
  <2> SUFFICES ASSUME BaseInv, BeatInv, NEW m \in Managers, pc[m] = "opening"
               PROVE  \E b \in 1..(seen[m] - 1) : home[b] = m
    BY DEF HeartbeatOnlyReplaces
  <2>1. PICK b \in Bridges : b < seen[m] /\ home[b] = m
    BY DEF BeatInv
  <2>2. seen[m] \in Nat /\ b \in Nat \ {0}
    <3>1. m \in Procs /\ Bridges \cup {None} \subseteq Nat /\ Bridges \subseteq Nat \ {0}
      BY SetFacts DEF None
    <3>2. QED
      BY <3>1 DEF BaseInv, TypeOK
  <2>3. QED
    BY <2>1, <2>2
<1>2. QED
  BY BaseInit, BaseStep, LinkInit, LinkStep, BeatInit, BeatStep, <1>1, PTL DEF Spec
=============================================================================
