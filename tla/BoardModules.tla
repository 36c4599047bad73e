------------------------------ MODULE BoardModules ------------------------------
(***************************************************************************)
(* What the firmware shares out among several users: its tasks and links   *)
(* (FirmwareTasks), the Wi-Fi radio (RadioOwners), the watch rules         *)
(* (WatchRules).                                                           *)
(***************************************************************************)
EXTENDS Parts

CONSTANTS
  Sent, Chunk, TxQueue, SlowQueue, Events,  \* of FirmwareTasks
  Networks, Scans,                          \* of RadioOwners
  Ids, Slots, TxSlots, Values, Adds         \* of WatchRules

\* The tasks of the firmware: the cable and the Bluetooth sessions.
Rtos == INSTANCE FirmwareTasks

\* Every owner of the Wi-Fi radio, and its scans.
Radio == INSTANCE RadioOwners

\* The rules of several threads, and the queue of what they report.
Watch == INSTANCE WatchRules

\* The queues and the buffer of a read have room.
ASSUME BoardAssumption ==
  /\ {Sent, Events, Networks, Scans, Slots, TxSlots, Adds} \subseteq Nat
  /\ {Chunk, TxQueue, SlowQueue} \subseteq Nat \ {0}

BoardInit ==
  \/ part = "tasks" /\ Rtos!Init
  \/ part = "radio" /\ Radio!Init
  \/ part = "watch" /\ Watch!Init

BoardNext ==
  /\ UNCHANGED part
  /\ \/ part = "tasks" /\ Rtos!Next
     \/ part = "radio" /\ Radio!Next
     \/ part = "watch" /\ Watch!Next

BoardSpec == BoardInit /\ [][BoardNext]_Parted

-----------------------------------------------------------------------------

(***************************************************************************)
(* Links of the firmware: no queue overflows, an answer goes to the client *)
(* that asked, the password is the session's own, and what it left         *)
(* unfinished costs the next one frame at most.                            *)
(***************************************************************************)
TasksAreSound ==
  part = "tasks" => /\ Rtos!TypeOK
                    /\ Rtos!AnswersGoBack /\ Rtos!AuthIsOwn /\ Rtos!HalfFrameCostsOne

(***************************************************************************)
(* The Wi-Fi radio is on while one of those that need it does, and a scan  *)
(* returns the networks of one scan of its own.                            *)
(***************************************************************************)
RadioHasOwners ==
  part = "radio" => Radio!OwnersHaveRadio /\ Radio!ScanIsWhole

(***************************************************************************)
(* A rule on the board has the callbacks it was added with, and they know  *)
(* its state unless one of its reports was dropped.                        *)
(***************************************************************************)
WatchTold ==
  part = "watch" => Watch!RuleHasItsListener /\ Watch!CallbackKnowsState
=============================================================================
