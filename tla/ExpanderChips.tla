---------------------------- MODULE ExpanderChips ----------------------------
(***************************************************************************)
(* Two I2C output chips whose drivers keep state beside the chip's: the    *)
(* PCF8574 port expander, set by reading, changing and writing a latch     *)
(* (python/espbridge/drivers/pcf8574.py), and the PCA9685 PWM chip, whose  *)
(* rate can be set only while it sleeps (drivers/pca9685.py).  Threads     *)
(* share a driver, and a transfer on the bus may fail.                     *)
(***************************************************************************)
EXTENDS Integers, FiniteSets

CONSTANTS
  Threads,
  Pins,      \* of the port, 0 .. 7
  Rates,     \* for set_freq(), Hz
  Pulses,    \* for set_servo(), microseconds
  Faults     \* bound of the model: transfers that fail

VARIABLES
  host,    \* the driver and the threads' calls
  board,   \* the chip
  wire     \* faults left

vars == <<host, board, wire>>

Idle == [op |-> "none", at |-> 0, arg |-> 0, pins |-> {}, upset |-> FALSE]
Never == 0
Kinds == {"pcf8574", "pca9685"}

TypeOK ==
  /\ host.kind \in Kinds /\ host.state \subseteq Pins /\ host.want \subseteq Pins
  /\ board.latch \subseteq Pins /\ {board.sleep, host.lost, host.stuck} \subseteq BOOLEAN
  /\ \A t \in Threads : host.call[t].at \in 0 .. 5 /\ host.call[t].pins \subseteq Pins
  /\ board.pre \in 3 .. 255 /\ board.off \in 0 .. 4095
  /\ wire.faults \in 0 .. Faults

\* The latch powers up high.  The PCA9685's constructor has woken the chip, which has
\* its default rate, and calls set_freq(); nothing may be believed of it before that.
Init ==
  /\ wire = [faults |-> Faults]
  /\ board = [latch |-> Pins, sleep |-> FALSE, pre |-> 30, off |-> 0]
  /\ \E kind \in Kinds :
       host = [kind |-> kind, call |-> [t \in Threads |-> Idle],
               state |-> Pins, want |-> Pins, lost |-> FALSE,
               freq |-> Never, stuck |-> FALSE, servo |-> Never]

Busy == {t \in Threads : host.call[t].op # "none"}

Begin(t, op, arg) ==
  /\ host.call[t] = Idle
  /\ host' = [host EXCEPT
       !.call = [u \in Threads |->
          IF u = t THEN [Idle EXCEPT !.op = op, !.at = 1, !.arg = arg, !.upset = Busy # {}]
          ELSE [host.call[u] EXCEPT !.upset = @ \/ u \in Busy]]]
  /\ UNCHANGED <<board, wire>>

At(t, op, at) == host.call[t].op = op /\ host.call[t].at = at
Step(t) == [host EXCEPT !.call[t].at = @ + 1]

\* A transfer is refused or unanswered; the call raises.
Fault == wire.faults > 0 /\ wire' = [wire EXCEPT !.faults = @ - 1]
End(t) == [host EXCEPT !.call[t] = Idle]

----------------------------------------------------------------------------
(* PCF8574: write_pin() and write_port() *)

\* self._state |= 1 << pin, or &= ~(1 << pin)
Mark(t) ==
  /\ At(t, "high", 1) \/ At(t, "low", 1)
  /\ LET c == host.call[t] IN
     host' = [Step(t) EXCEPT
       !.state = IF c.op = "high" THEN @ \cup {c.arg} ELSE @ \ {c.arg},
       !.want  = IF c.op = "high" THEN @ \cup {c.arg} ELSE @ \ {c.arg}]
  /\ UNCHANGED <<board, wire>>

\* self._state is read as the argument of write_port()
Take(t) ==
  /\ At(t, "high", 2) \/ At(t, "low", 2)
  /\ host' = [Step(t) EXCEPT !.call[t].pins = host.state]
  /\ UNCHANGED <<board, wire>>

\* Deliberately wrong (mutation of Store): write_port() forgets what it writes.
StoreNot(t) ==
  /\ \/ (At(t, "high", 3) \/ At(t, "low", 3)) /\ host' = Step(t)
     \/ At(t, "port", 1) /\ host' = [host EXCEPT !.call[t].at = 4, !.want = host.call[t].arg,
                                                 !.call[t].pins = host.call[t].arg]
  /\ UNCHANGED <<board, wire>>

\* self._state = value & 0xFF, by write_pin() or by the caller of write_port()
Store(t) ==
  /\ \/ (At(t, "high", 3) \/ At(t, "low", 3))
        /\ host' = [Step(t) EXCEPT !.state = host.call[t].pins]
     \/ At(t, "port", 1)
        /\ host' = [host EXCEPT !.call[t].at = 4, !.state = host.call[t].arg,
                                !.want = host.call[t].arg]
  /\ UNCHANGED <<board, wire>>

\* self._state is read once more, as the byte to write
Byte(t) ==
  /\ host.call[t].op \in {"high", "low", "port"} /\ host.call[t].at = 4
  /\ host' = [Step(t) EXCEPT !.call[t].pins = host.state]
  /\ UNCHANGED <<board, wire>>

\* write_port() over the chip's whole latch settles what an overlap has left.
Latch(t) ==
  /\ host.call[t].op \in {"high", "low", "port"} /\ host.call[t].at = 5
  /\ LET c == host.call[t]  lost == c.upset \/ (host.lost /\ c.op # "port") IN
     \/ /\ board' = [board EXCEPT !.latch = c.pins]
        /\ host' = [End(t) EXCEPT !.lost = lost]
        /\ UNCHANGED wire
     \/ /\ Fault
        /\ board' \in {board, [board EXCEPT !.latch = c.pins]}
        /\ host' = [End(t) EXCEPT !.lost = TRUE]

----------------------------------------------------------------------------
(* PCA9685 *)

Round(n, d) == (2 * n + d) \div (2 * d)

\* round(osc / (4096 * hz)) - 1, clamped
Prescale(hz) ==
  LET p == Round(25000000, 4096 * hz) - 1 IN IF p < 3 THEN 3 ELSE IF p > 255 THEN 255 ELSE p
Clamped(hz) == Round(25000000, 4096 * hz) - 1 \notin 3 .. 255

\* set_freq(): 1 MODE1 is read; 2 asleep; 3 PRE_SCALE; 4 MODE1 as it was; 5 RESTART.
\* arg holds the rate, pins whether MODE1 was read asleep.
SetFreq(t) ==
  /\ host.call[t].op = "freq"
  /\ LET c == host.call[t] IN
     \/ /\ c.at = 1
        /\ host' = [Step(t) EXCEPT !.call[t].pins = IF board.sleep THEN Pins ELSE {}]
        /\ UNCHANGED <<board, wire>>
     \/ /\ c.at = 2
        /\ board' = [board EXCEPT !.sleep = TRUE]
        /\ host' = Step(t) /\ UNCHANGED wire
     \/ /\ c.at = 3
        /\ board' = [board EXCEPT !.pre = IF board.sleep THEN Prescale(c.arg) ELSE @]
        /\ host' = Step(t) /\ UNCHANGED wire
     \/ /\ c.at \in {4, 5}
        /\ board' = [board EXCEPT !.sleep = c.pins # {}]
        /\ UNCHANGED wire
        /\ host' = IF c.at = 4 THEN Step(t)
                   ELSE [End(t) EXCEPT !.freq = c.arg, !.servo = Never,
                                       !.stuck = @ \/ c.upset]

\* A transfer of set_freq() fails: the chip may stay asleep, and freq as it was.
SetFreqFails(t) ==
  /\ host.call[t].op = "freq" /\ Fault
  /\ host' = [End(t) EXCEPT !.stuck = @ \/ host.call[t].at > 1]
  /\ UNCHANGED board

\* set_servo(): us * freq * 4096 / 1000000, counts of the rate that was asked for; one that
\* does not fit raises ValueError.
SetServo(t) ==
  /\ At(t, "servo", 1)
  /\ LET count == Round(host.call[t].arg * host.freq * 64, 15625) IN
     IF count > 4095
     THEN host' = End(t) /\ UNCHANGED <<board, wire>>
     ELSE \/ /\ board' = [board EXCEPT !.off = count]
             /\ host' = [End(t) EXCEPT !.servo = IF host.call[t].upset THEN Never
                                                 ELSE host.call[t].arg]
             /\ UNCHANGED wire
          \/ /\ Fault
             /\ board' \in {board, [board EXCEPT !.off = count]}
             /\ host' = [End(t) EXCEPT !.servo = Never]

Calls(t) ==
  \/ /\ host.kind = "pcf8574"
     /\ \/ \E pin \in Pins, op \in {"high", "low"} : Begin(t, op, pin)
        \/ \E pins \in {{}, Pins} : Begin(t, "port", pins)
  \/ /\ host.kind = "pca9685"
     /\ \/ \E hz \in Rates : Begin(t, "freq", hz)
        \/ host.freq # Never /\ \E us \in Pulses : Begin(t, "servo", us)

Next == \E t \in Threads :
          \/ Calls(t) \/ Mark(t) \/ Take(t) \/ Store(t) \/ Byte(t) \/ Latch(t)
          \/ SetFreq(t) \/ SetFreqFails(t) \/ SetServo(t)

----------------------------------------------------------------------------

(***************************************************************************)
(* Between calls the port shows what was last asked of each pin, the pins  *)
(* that other calls set included, unless two calls overlapped or one       *)
(* failed since write_port() last set them all (write_pin, write_port).    *)
(***************************************************************************)
PortAsAsked ==
  host.kind = "pcf8574" /\ Busy = {} /\ ~host.lost =>
    board.latch = host.want /\ host.state = host.want

(***************************************************************************)
(* After a set_servo() the pulse is the one asked for, to within a count   *)
(* and 3 in 100, and the chip is awake, unless a set_freq() overlapped or  *)
(* failed half-way, or its rate was clamped: freq then is not the rate.    *)
(***************************************************************************)
PulseAsAsked ==
  host.kind = "pca9685" /\ Busy = {} /\ ~host.stuck /\ host.servo # Never /\ ~Clamped(host.freq) =>
    /\ ~board.sleep
    /\ LET got == board.off * (board.pre + 1)  asked == 25 * host.servo   \* in 25ths of a microsecond
           off == IF got > asked THEN got - asked ELSE asked - got
       IN 100 * off <= 3 * asked + 100 * (board.pre + 1)

(***************************************************************************)
(* set_freq(): "so we sleep, write it, wake" (pca9685.py:72): when it has  *)
(* returned, the chip is awake.  It is not after a call that failed before *)
(* its wake: the next one takes the sleep for the mode to go back to.      *)
(***************************************************************************)
SetFreqWakes ==
  host.kind = "pca9685" /\ Busy = {} /\ host.freq # Never
    /\ ~Clamped(host.freq) /\ board.pre = Prescale(host.freq) => ~board.sleep
=============================================================================
