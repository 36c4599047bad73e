----------------------------- MODULE MotorDriver -----------------------------
(***************************************************************************)
(* A DC motor on an H-bridge (python/espbridge/drivers/motor.py).  A call  *)
(* is a series of requests, each of which sets one pin of the board; the   *)
(* motor obeys the pins in between, other threads may call meanwhile, and  *)
(* a request may fail and leave the rest of its call undone.               *)
(***************************************************************************)
EXTENDS Integers, Sequences

CONSTANTS
  Threads,
  Speeds,  \* for set_speed(), among -Full .. Full
  Faults   \* bound of the model: requests that fail

VARIABLES
  host,    \* the threads' calls, and how the last ones ended
  board,   \* the levels of the pins: 0, part of the duty, or Full
  wire     \* faults left

vars == <<host, board, wire>>

Part == 1
Full == 2
Pins == {"in1", "in2", "enable"}
AllLow == [p \in Pins |-> 0]
Calls == {"set_speed", "stop", "brake"}
Idle == [op |-> "none", speed |-> 0, todo |-> <<>>, before |-> AllLow, overlap |-> FALSE]
Drives == ({"forward", "backward", "brake"} \X {Part, Full}) \cup {<<"coast", 0>>}

TypeOK ==
  /\ board \in [Pins -> 0 .. Full] /\ host.scheme \in {1, 2}
  /\ \A t \in Threads : /\ host.call[t].op \in Calls \cup {"none"}
                        /\ host.call[t].speed \in Speeds \cup {0} /\ host.call[t].before \in [Pins -> 0 .. Full]
  /\ host.asked \in Drives \cup {<<"unknown", 0>>} /\ wire.faults \in 0 .. Faults

\* What the bridge makes of its inputs: enable gates in scheme 1; in scheme 2 the motor
\* sees the difference of two duties.
Drive(pins) ==
  LET a == pins.in1  b == pins.in2  e == pins.enable IN
  IF host.scheme = 1
  THEN CASE e = 0 \/ (a = 0 /\ b = 0) -> <<"coast", 0>>
         [] a # 0 /\ b # 0 -> <<"brake", e>>
         [] a # 0 -> <<"forward", e>>
         [] OTHER -> <<"backward", e>>
  ELSE CASE a = b -> IF a = 0 THEN <<"coast", 0>> ELSE <<"brake", a>>
         [] a > b -> <<"forward", a - b>>
         [] OTHER -> <<"backward", b - a>>

Pin(name, level) == [pin |-> name, level |-> level]
Abs(n) == IF n < 0 THEN -n ELSE n

\* set_speed(): direction and then duty; or the leading pin and the other.
SetSpeed(speed) ==
  IF host.scheme = 1
  THEN <<Pin("in1", IF speed >= 0 THEN 1 ELSE 0), Pin("in2", IF speed >= 0 THEN 0 ELSE 1),
         Pin("enable", Abs(speed))>>
  ELSE IF speed >= 0 THEN <<Pin("in1", speed), Pin("in2", 0)>>
  ELSE <<Pin("in1", 0), Pin("in2", -speed)>>

\* Deliberately wrong (mutation of Stop): the duty is cut last.
StopDutyLast ==
  IF host.scheme = 1 THEN <<Pin("in1", 0), Pin("in2", 0), Pin("enable", 0)>>
  ELSE <<Pin("in1", 0), Pin("in2", 0)>>

\* stop(): the duty is cut first.
Stop ==
  IF host.scheme = 1 THEN <<Pin("enable", 0), Pin("in1", 0), Pin("in2", 0)>>
  ELSE <<Pin("in1", 0), Pin("in2", 0)>>

Brake ==
  IF host.scheme = 1 THEN <<Pin("in1", 1), Pin("in2", 1), Pin("enable", Full)>>
  ELSE <<Pin("in1", Full), Pin("in2", Full)>>

\* deinit() is a stop(), and then detaches what is at duty 0.
Requests(op, speed) ==
  CASE op = "set_speed" -> SetSpeed(speed)
    [] op = "brake" -> Brake
    [] OTHER -> Stop

\* The constructor has made the pins outputs and attached the duties, and stops.
Init ==
  /\ wire = [faults |-> Faults]
  /\ board = AllLow
  /\ \E scheme \in {1, 2} :
       host = [scheme |-> scheme, asked |-> <<"unknown", 0>>,
               call |-> [u \in Threads |-> Idle]]

Busy == {t \in Threads : host.call[t].op # "none"}

Begin(t, op, speed) ==
  /\ host.call[t].op = "none"
  /\ speed \in IF op = "set_speed" THEN Speeds ELSE {0}
  /\ host' = [host EXCEPT
       !.call = [u \in Threads |->
          IF u = t THEN [op |-> op, speed |-> speed, todo |-> Requests(op, speed),
                         before |-> board, overlap |-> Busy # {}]
          ELSE [host.call[u] EXCEPT !.overlap = @ \/ u \in Busy]],
       !.asked = <<"unknown", 0>>]
  /\ UNCHANGED <<board, wire>>

\* What a call that has ended asked for.
Asked(c) ==
  CASE c.op = "brake" -> <<"brake", Full>>
    [] c.op = "set_speed" /\ c.speed > 0 -> <<"forward", c.speed>>
    [] c.op = "set_speed" /\ c.speed < 0 -> <<"backward", -c.speed>>
    [] OTHER -> <<"coast", 0>>

Request(t) ==
  /\ host.call[t].todo # <<>>
  /\ LET c == host.call[t]  set == Head(c.todo)  last == Len(c.todo) = 1 IN
     /\ board' = [board EXCEPT ![set.pin] = set.level]
     /\ host' = [host EXCEPT
          !.call[t] = IF last THEN Idle ELSE [c EXCEPT !.todo = Tail(@)],
          !.asked = IF last THEN IF c.overlap THEN <<"unknown", 0>> ELSE Asked(c) ELSE @]
  /\ UNCHANGED wire

\* The request raises; the pin may have been set.
Fails(t) ==
  /\ host.call[t].todo # <<>> /\ wire.faults > 0
  /\ wire' = [wire EXCEPT !.faults = @ - 1]
  /\ LET set == Head(host.call[t].todo) IN
     board' \in {board, [board EXCEPT ![set.pin] = set.level]}
  /\ host' = [host EXCEPT !.call[t] = Idle]

Next == \E t \in Threads :
          \/ \E op \in Calls, speed \in Speeds \cup {0} : Begin(t, op, speed)
          \/ Request(t) \/ Fails(t)

----------------------------------------------------------------------------

(***************************************************************************)
(* When a call has returned that no other overlapped, the motor does what  *)
(* it asked for, whatever was left behind by calls that failed or          *)
(* overlapped before (set_speed, stop, brake).                             *)
(***************************************************************************)
DoesWhatWasAsked ==
  host.asked # <<"unknown", 0>> => Drive(board) = host.asked

(***************************************************************************)
(* Between the requests of a stop() or brake(), or after one of them       *)
(* failed, the motor does what it did before, coasts or brakes: it is not  *)
(* kicked; but in scheme 2, which sets two duties one after the other,     *)
(* this holds only of a stop() that finds one of them at 0: not of one     *)
(* that ends a brake().  In scheme 1 a brake() must not find a duty with   *)
(* both inputs low, which a call that failed or overlapped can leave.      *)
(***************************************************************************)
NoKick ==
  \A t \in Threads :
    LET c == host.call[t]  before == Drive(c.before) IN
    /\ c.op \in {"stop", "brake"} /\ ~c.overlap
    /\ host.scheme = 2 => c.op # "brake" /\ 0 \in {c.before.in1, c.before.in2}
    /\ c.op = "brake" => before[1] # "coast" \/ c.before.enable = 0
    => Drive(board) = before \/ Drive(board)[1] \in {"coast", "brake"}

(***************************************************************************)
(* stop() "Coast: cut drive" (motor.py:114): it never drives a motor that  *)
(* was not driven before.                                                  *)
(***************************************************************************)
StopCutsDrive ==
  \A t \in Threads :
    LET c == host.call[t] IN
    c.op = "stop" /\ ~c.overlap /\ Drive(c.before)[1] \in {"coast", "brake"} =>
      Drive(board)[1] \in {"coast", "brake"}
=============================================================================
