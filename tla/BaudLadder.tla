------------------------------ MODULE BaudLadder ------------------------------
(***************************************************************************)
(* One serial board and the Bridge on it (python/espbridge/bridge.py): the *)
(* handshake, the climb to a faster baud rate and the way back down, a     *)
(* reset of the board, and close().  The two ends of a UART hear each      *)
(* other only at the same rate, and the board forgets its rate when it     *)
(* boots but not when the host goes away.                                  *)
(*                                                                         *)
(* An exchange is one step: it is answered, or the request is missed, or   *)
(* the board executes it and the answer is lost.                           *)
(***************************************************************************)
EXTENDS Naturals, Sequences

CONSTANTS
  Boot,      \* the rate of a board that has just booted, 115200
  Safe,      \* the rate the ladder falls back on, 921600
  Fast,      \* a rate above it
  Faults,    \* bound of the model: frames lost and power failures
  Sessions   \* bound of the model: times the port is opened

Rates == {Boot, Safe, Fast}
Unset == 0   \* an attribute that was never assigned, a target that is None
Waits == {"await", "pulsed"}
Up    == {"rung", "setbaud", "check", "fallback"}
Ends  == {"online", "failed", "broken", "closed"}
PCs   == {"new", "poll", "shaken", "awaitReset"} \cup Waits \cup Up \cup Ends

VARIABLES
  host,   \* the Bridge: where it is, its transport's rate, _ready, _baud_now, ...
  board,  \* its rate; banner: it boots and SYS_READY is still to come
  wire    \* what the driver and the cable can do, and what went wrong so far

vars == <<host, board, wire>>

TypeOK ==
  /\ host \in [pc : PCs, rate : Rates, ready : BOOLEAN, now : Rates \cup {Unset},
               target : Rates \cup {Unset}, rungs : Seq(Rates), tries : 0 .. 3,
               reset : BOOLEAN, exitReset : BOOLEAN, climbing : BOOLEAN,
               inReset : BOOLEAN, session : 0 .. Sessions]
  /\ board \in [rate : Rates, banner : BOOLEAN, rebooted : BOOLEAN]
  /\ wire.faults \in 0 .. Faults

Closed == [pc |-> "new", rate |-> Boot, ready |-> FALSE, now |-> Unset, target |-> Unset,
           rungs |-> <<>>, tries |-> 0, reset |-> FALSE, exitReset |-> FALSE,
           climbing |-> FALSE, inReset |-> FALSE, session |-> 0]

Init ==
  /\ host = Closed
  /\ board \in [rate : Rates, banner : {FALSE}, rebooted : {FALSE}]
  /\ wire \in [accepts : {{Boot, Safe}, Rates}, carries : {{Boot}, {Boot, Safe}, Rates},
               autoReset : BOOLEAN, faults : {Faults}, lost : {{}}]

----------------------------------------------------------------------------
(* The two ends *)

Heard == host.rate = board.rate /\ host.rate \in wire.carries /\ ~board.banner

\* The board (re)boots: back to Boot, deaf until its SYS_READY is out.
Booting == [board EXCEPT !.rate = Boot, !.banner = TRUE]

\* DTR/RTS reach the board's reset only through its auto-reset circuit.
Toggled == IF wire.autoReset THEN Booting ELSE board

Loss(what) ==
  /\ wire.faults > 0
  /\ wire' = [wire EXCEPT !.faults = @ - 1, !.lost = @ \cup {what}]

Noted(what) == wire' = [wire EXCEPT !.lost = @ \cup {what}]

Answered == Heard /\ UNCHANGED wire
Missed(cmd) == (Heard /\ Loss(cmd)) \/ (~Heard /\ Noted(cmd))
AnswerLost(cmd) == Heard /\ Loss(cmd)

\* An exchange that was answered shows that the board runs at the host's rate.
Seen(b) == [b EXCEPT !.rebooted = FALSE]

----------------------------------------------------------------------------
(* Opening the port, and the handshake *)

Open(reset, target, exitReset) ==
  /\ host.pc \in {"new", "closed"} /\ host.session < Sessions
  /\ host' = [Closed EXCEPT !.pc = "await", !.reset = reset, !.target = target,
                            !.exitReset = exitReset, !.session = host.session + 1]
  /\ board' = Seen(IF reset THEN Toggled ELSE board)
  /\ wire' = [wire EXCEPT !.lost = {}]

\* SYS_READY leaves the board; the host hears it at the right rate only.
Banner ==
  /\ board.banner
  /\ board' = [board EXCEPT !.banner = FALSE, !.rebooted = @ /\ host.rate # Boot]
  /\ \/ /\ host.pc # "closed" /\ host.rate = Boot
        /\ host' = [host EXCEPT !.ready = TRUE]
        /\ UNCHANGED wire
     \/ /\ host.pc = "closed" \/ host.rate # Boot
        /\ UNCHANGED <<host, wire>>
     \/ Loss("banner") /\ UNCHANGED host

Ready ==
  /\ host.pc \in Waits /\ host.ready
  /\ host' = [host EXCEPT !.pc = "shaken"]
  /\ UNCHANGED <<board, wire>>

\* The first wait ran out: pulse_reset() and wait again, unless told not to reset.
Pulse ==
  /\ host.pc = "await" /\ ~host.ready /\ host.reset
  /\ host' = [host EXCEPT !.pc = "pulsed"]
  /\ board' = Toggled
  /\ UNCHANGED wire

StartPolling ==
  /\ ~host.ready
  /\ host.pc = "pulsed" \/ (host.pc = "await" /\ ~host.reset)
  /\ host' = [host EXCEPT !.pc = "poll", !.tries = 3]
  /\ UNCHANGED <<board, wire>>

\* An exception leaves the constructor, or reset() when it was that which climbed.
Raise == IF host.inReset THEN "broken" ELSE "failed"

\* Up to three SYS_INFO; a banner that came meanwhile will do as well.
Poll ==
  /\ host.pc = "poll"
  /\ \/ /\ host.tries > 0 /\ Answered
        /\ host' = [host EXCEPT !.pc = "shaken", !.ready = TRUE]
        /\ board' = Seen(board)
     \/ /\ host.tries > 0
        /\ Missed("info") \/ AnswerLost("info")
        /\ host' = [host EXCEPT !.tries = @ - 1]
        /\ UNCHANGED board
     \/ /\ host.tries = 0
        /\ host' = [host EXCEPT !.pc = IF host.ready THEN "shaken" ELSE Raise]
        /\ UNCHANGED <<board, wire>>

----------------------------------------------------------------------------
(* The ladder *)

\* dict.fromkeys((target, 921600)) without what is not above Boot or exceeds target.
Ladder(target) ==
  IF target \in {Unset, Boot} THEN <<>>
  ELSE IF target > Safe THEN <<target, Safe>> ELSE <<target>>

\* After the handshake _upgrade_baud starts its climb, or goes on with it when the
\* handshake was that of _reconnect().
Climb ==
  /\ host.pc = "shaken"
  /\ LET rungs == IF host.climbing THEN host.rungs ELSE Ladder(host.target)
     IN  host' = [host EXCEPT !.pc = "rung", !.climbing = TRUE, !.rungs = rungs]
  /\ UNCHANGED <<board, wire>>

\* The end of the climb, or a rung that the host's driver refuses before the board
\* hears of it.
Rung ==
  /\ host.pc = "rung"
  /\ host' = IF host.rungs = <<>> THEN [host EXCEPT !.pc = "online"]
             ELSE IF Head(host.rungs) \in wire.accepts THEN [host EXCEPT !.pc = "setbaud"]
             ELSE [host EXCEPT !.rungs = Tail(@)]
  /\ UNCHANGED <<board, wire>>

\* SYS_SET_BAUD: the board answers at the old rate and switches.
SetBaud ==
  /\ host.pc = "setbaud"
  /\ LET rung == Head(host.rungs) IN
     \/ /\ Answered
        /\ host' = [host EXCEPT !.pc = "check", !.rate = rung, !.tries = 3]
        /\ board' = [Seen(board) EXCEPT !.rate = rung]
     \/ /\ Missed("setbaud")
        /\ host' = [host EXCEPT !.pc = Raise]
        /\ UNCHANGED board
     \/ /\ AnswerLost("setbaud")
        /\ host' = [host EXCEPT !.pc = Raise]
        /\ board' = [board EXCEPT !.rate = rung]

\* Deliberately wrong (mutation of Check): the rate counts as reached after three
\* pings, answered or not.
CheckUnheard ==
  /\ host.pc = "check"
  /\ \/ /\ Answered \/ (host.tries = 0 /\ UNCHANGED wire)
        /\ host' = [host EXCEPT !.pc = "online", !.now = host.rate]
        /\ board' = Seen(board)
     \/ /\ host.tries > 0
        /\ Missed("check") \/ AnswerLost("check")
        /\ host' = [host EXCEPT !.tries = @ - 1]
        /\ UNCHANGED board

\* Three pings at the new rate; none answered, the host goes back to Boot.
Check ==
  /\ host.pc = "check"
  /\ \/ /\ host.tries > 0 /\ Answered
        /\ host' = [host EXCEPT !.pc = "online", !.now = host.rate]
        /\ board' = Seen(board)
     \/ /\ host.tries > 0
        /\ Missed("check") \/ AnswerLost("check")
        /\ host' = [host EXCEPT !.tries = @ - 1]
        /\ UNCHANGED board
     \/ /\ host.tries = 0
        /\ host' = [host EXCEPT !.pc = "fallback", !.rate = Boot]
        /\ UNCHANGED <<board, wire>>

\* One ping at Boot; a board that switched cannot hear it, and _reconnect() opens
\* the port again to reset it, whatever reset_on_open said.
Fallback ==
  /\ host.pc = "fallback"
  /\ \/ /\ Answered
        /\ host' = [host EXCEPT !.pc = "rung", !.rungs = Tail(@)]
        /\ board' = Seen(board)
     \/ /\ Missed("fallback") \/ AnswerLost("fallback")
        /\ host' = [host EXCEPT !.pc = "await", !.ready = FALSE, !.reset = TRUE,
                                !.rungs = Tail(@)]
        /\ board' = Toggled

----------------------------------------------------------------------------
(* An open Bridge *)

\* reset(): SYS_RESET, then the host follows the board down to Boot.
Reset ==
  /\ host.pc = "online"
  /\ LET down == [host EXCEPT !.ready = FALSE, !.inReset = TRUE] IN
     \/ /\ Answered
        /\ host' = [down EXCEPT !.pc = "awaitReset",
                                !.climbing = ~(host.now \in {Unset, Boot}),
                                !.rate = IF host.now = Unset THEN @ ELSE Boot,
                                !.now = IF @ = Unset THEN @ ELSE Boot]
        /\ board' = Seen(Booting)
     \/ /\ Missed("reset")
        /\ host' = [down EXCEPT !.pc = "broken"]
        /\ UNCHANGED board
     \/ /\ AnswerLost("reset")
        /\ host' = [down EXCEPT !.pc = "broken"]
        /\ board' = Booting

\* The banner came and a link that was fast climbs again; or it did not come.
AwaitReset ==
  /\ host.pc = "awaitReset"
  /\ host' = IF ~host.ready THEN [host EXCEPT !.pc = "broken"]
             ELSE IF host.climbing
                  THEN [host EXCEPT !.pc = "rung", !.rungs = Ladder(host.target)]
             ELSE [host EXCEPT !.pc = "online"]
  /\ UNCHANGED <<board, wire>>

\* Deliberately wrong (mutation of HandsBack): close() leaves the fast rate behind.
HandsBackNever == FALSE

\* close() returns a fast link to Boot, which the board would not do by itself.
HandsBack == host.now \notin {Unset, Boot} /\ host.ready

\* close(): reset_on_exit counts only once the constructor has returned.
Close ==
  /\ host.pc \in {"online", "broken", "failed"}
  /\ host' = [host EXCEPT !.pc = "closed"]
  /\ IF host.pc # "failed" /\ host.exitReset /\ host.ready
     THEN \/ Heard /\ board' = Booting /\ UNCHANGED wire
          \/ Missed("exit") /\ UNCHANGED board
     ELSE IF HandsBack /\ ~(host.pc # "failed" /\ host.exitReset)
     THEN \/ Heard /\ board' = [board EXCEPT !.rate = Boot] /\ UNCHANGED wire
          \/ Missed("exit") /\ UNCHANGED board
     ELSE UNCHANGED <<board, wire>>

\* The board loses power for a moment.
Brownout ==
  /\ host.pc # "new" /\ ~board.banner
  /\ Loss("power")
  /\ board' = [Booting EXCEPT !.rebooted = TRUE]
  /\ UNCHANGED host

Done ==
  /\ host.pc = "closed" /\ host.session = Sessions /\ ~board.banner
  /\ UNCHANGED vars

Next ==
  \/ \E reset, exit \in BOOLEAN, target \in Rates \cup {Unset} : Open(reset, target, exit)
  \/ Banner \/ Ready \/ Pulse \/ StartPolling \/ Poll
  \/ Climb \/ Rung \/ SetBaud \/ Check \/ Fallback
  \/ Reset \/ AwaitReset \/ Close \/ Brownout \/ Done

Spec == Init /\ [][Next]_vars

----------------------------------------------------------------------------

(***************************************************************************)
(* A Bridge() or reset() that returned left both ends at one rate, the one *)
(* that close() will hand back, unless the board has rebooted by itself    *)
(* since it was last heard (_handshake, _try_baud, reset).                 *)
(***************************************************************************)
RatesAgree ==
  host.pc = "online" =>
    /\ host.rate = IF host.now = Unset THEN Boot ELSE host.now
    /\ board.rebooted \/ (host.rate = board.rate /\ host.rate \in wire.carries)

(***************************************************************************)
(* A board is found at its boot rate by the next session, which may open   *)
(* the port without a reset, unless a frame that sets a rate or resets was *)
(* lost, or this session never heard the board (close, _try_baud).         *)
(***************************************************************************)
FoundAtBoot ==
  host.pc = "closed" /\ board.rate # Boot =>
    wire.lost \cap {"setbaud", "exit", "reset", "info"} # {}

(***************************************************************************)
(* _try_baud "restores a working link at `current` on failure": on a sound *)
(* cable with a reset circuit, a Bridge whose board answered the handshake *)
(* opens (bridge.py:614).                                                  *)
(***************************************************************************)
AttemptRestores ==
  host.pc = "failed" /\ wire.autoReset => "info" \in wire.lost \/ "power" \in wire.lost
=============================================================================
