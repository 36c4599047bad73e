----------------------------- MODULE RemoteCall -----------------------------
(***************************************************************************)
(* What Bridge.request() promises about one call, with the pending table,  *)
(* the frames and the retries left out: the call is made once and ends     *)
(* once, and its command is executed no more often than its command allows *)
(* (once, when the command is in constants.NON_IDEMPOTENT).  A command may *)
(* still be executed after the call has ended: a timeout says nothing of   *)
(* the frame that was sent.                                                *)
(***************************************************************************)
EXTENDS Naturals

CONSTANTS Calls, MaxRuns

VARIABLES
  phase,   \* "new", "open" or "ended"
  limit,   \* how often the command may be executed
  runs     \* how often it has been

vars == <<phase, limit, runs>>

Init ==
  /\ phase = [n \in Calls |-> "new"]
  /\ limit = [n \in Calls |-> 0]
  /\ runs = [n \in Calls |-> 0]

Begin(n) ==
  /\ phase[n] = "new"
  /\ phase' = [phase EXCEPT ![n] = "open"]
  /\ \E m \in {1, MaxRuns} : limit' = [limit EXCEPT ![n] = m]
  /\ UNCHANGED runs

Run(n) ==
  /\ runs[n] < limit[n]
  /\ runs' = [runs EXCEPT ![n] = @ + 1]
  /\ UNCHANGED <<phase, limit>>

End(n) ==
  /\ phase[n] = "open"
  /\ phase' = [phase EXCEPT ![n] = "ended"]
  /\ UNCHANGED <<limit, runs>>

Next == \E n \in Calls : Begin(n) \/ Run(n) \/ End(n)

Spec == Init /\ [][Next]_vars

\* A call that was made ends; nothing promises that its command is executed.
FairSpec == Spec /\ \A n \in Calls : WF_vars(End(n))
=============================================================================
