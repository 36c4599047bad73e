-------------------------- MODULE MCBridgeRequests --------------------------
(* Small instances of BridgeRequests for TLC.                                *)
EXTENDS BridgeRequests, TLC

CONSTANTS t1, t2, t3, ping, scan, tx

\* Threads are interchangeable: nothing orders them and no CHOOSE ranges
\* over them.
Symmetry == Permutations(Threads)

\* request() as RemoteCall describes it: executions bounded by the retries
\* the command allows, and every call returns or raises in the end, whatever
\* frames are lost, however late the board is, and across close and unplug.
ImplementsRemoteCall == RC!FairSpec
=============================================================================
