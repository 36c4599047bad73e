------------------------------ MODULE PinFacades ------------------------------
(***************************************************************************)
(* A pin behind one of the libraries' interfaces: Pwm (pwm.py), RPi.GPIO,  *)
(* gpiozero and CircuitPython (compat/rpi_gpio.py, gpiozero.py,            *)
(* blinka.py).  Each keeps a picture of the pin, and most calls are        *)
(* several requests with assignments to the picture before, between and    *)
(* after them; a request that raises leaves the rest undone.  Init chooses *)
(* the interface.                                                          *)
(***************************************************************************)
EXTENDS Naturals, Sequences

CONSTANTS
  Kinds,   \* of interfaces, among pwm, rpi, gpiozero, blinka
  Calls,   \* bound of the model: calls
  Faults   \* bound of the model: requests that fail or whose reply is lost

VARIABLES
  host,    \* the picture, the steps left of the call
  board,   \* the pin: what it is, its level as an output, PWM and interrupt
  wire     \* bounds

vars == <<host, board, wire>>

Off == <<>>
Full(res) == 2 ^ res - 1
PwmMax == Full(12)
PullModes == [floating |-> "input", up |-> "input_pullup", down |-> "input_pulldown"]
Pulls == DOMAIN PullModes
Edges == {"both", "rising", "falling", "none"}

TypeOK ==
  /\ host.kind \in Kinds /\ host.pic.function \in {"input", "output"} /\ host.pic.pull \in Pulls
  /\ host.pic.edges \in Edges /\ host.unsure \in BOOLEAN /\ host.mixed \in BOOLEAN
  /\ board.pad \in {PullModes[p] : p \in Pulls} \cup {"output", "pwm", "none"}
  /\ board.high \in BOOLEAN /\ board.watch \in Edges
  /\ wire.calls \in 0 .. Calls /\ wire.faults \in 0 .. Faults

----------------------------------------------------------------------------
(* The steps of a call: requests, and assignments to the picture *)

Set(field, x) == <<"set", field, x>>
Finally(field, x) == <<"finally", field, x>>
Ask(request, x) == <<request, x>>

Mode(m) == <<Ask("mode", m)>>
Level(v) == <<Ask("write", v), Set("level", v)>>

\* Pwm.attach(), write(), detach(), duty_pct() and servo().
Attach(freq, res) == <<Ask("attach", <<freq, res>>), Set("attached", <<freq, res>>)>>
Duty(raw) == <<Ask("duty", raw)>>
Detach == <<Ask("detach", 0), Set("attached", Off)>>
Percent(attached, pct) ==
  IF attached = Off THEN Attach(1000, 10) \o Duty((Full(10) * pct) \div 100)
  ELSE Duty((Full(attached[2]) * pct) \div 100)
Servo(attached, angle) ==
  (IF attached = <<50, 14>> THEN <<>> ELSE Attach(50, 14)) \o Duty(IF angle = 0 THEN 410 ELSE 2048)

Pwm(f) ==
  {Attach(freq, res) \o <<Set("asked", Off)>> : freq \in {1000}, res \in {10, 12}}
    \cup {Percent(f.attached, pct) \o <<Set("asked", <<"percent", pct>>)>> : pct \in {0, 100}}
    \cup {Servo(f.attached, angle) \o <<Set("asked", <<"servo", angle>>)>> : angle \in {0, 180}}
    \cup {Detach \o <<Set("asked", Off)>>}

\* RPi.GPIO: setup(), output(), add_event_detect(), cleanup() of a channel, and PWM.
Rpi(f) ==
  {Mode(PullModes[p]) \o <<Set("function", "input"), Set("pull", p)>> : p \in Pulls}
    \cup {Mode("output") \o Level(v) \o <<Set("function", "output")>> : v \in BOOLEAN}
    \cup {Mode("output") \o <<Set("function", "output")>>}
    \cup {Level(v) : v \in IF f.function = "output" THEN BOOLEAN ELSE {}}
    \cup {<<Ask("watch", "rising"), Set("watching", TRUE)>>, <<Ask("unwatch", 0), Set("watching", FALSE)>>}
    \cup {Mode("input") \o <<Set("function", "input"), Set("pull", "floating")>>}
    \cup {Attach(f.frequency, 12) \o <<Set("duty", pct)>> \o Percent(<<f.frequency, 12>>, pct)
            \o <<Set("asked", <<"percent", pct>>)>> : pct \in {0, 100}}
    \cup {<<Set("duty", pct)>> \o Percent(f.attached, pct)
            \o <<Set("asked", <<"percent", pct>>)>> : pct \in {0, 100}}
    \cup {<<Set("frequency", freq)>> \o Attach(freq, 12) \o Percent(<<freq, 12>>, f.duty)
            \o <<Set("asked", <<"percent", f.duty>>)>> : freq \in {50, 200}}
    \cup {Detach \o <<Set("asked", Off)>>}

\* EspBridgePin._rearm()
Rearm(f, when, edges) ==
  (IF f.watching THEN <<Ask("unwatch", 0), Set("watching", FALSE)>> ELSE <<>>)
    \o (IF when /\ edges # "none" THEN <<Ask("watch", edges), Set("watching", TRUE)>> ELSE <<>>)

SetState(f, v) ==
  IF f.frequency # 0 THEN <<Set("duty", v)>> \o Duty(IF v THEN PwmMax ELSE 0)
  ELSE Level(v)

\* Deliberately wrong (mutation of SetFrequency): the new channel starts with no duty.
SetFrequencyOnly(f, freq) ==
  IF freq # 0 THEN Attach(freq, 12) \o <<Set("frequency", freq)>>
  ELSE IF f.frequency = 0 THEN <<>>
  ELSE Detach \o <<Set("frequency", 0)>>
         \o (IF f.function = "output" THEN Mode("output") \o Level(FALSE) ELSE <<>>)

\* EspBridgePin._set_frequency(): 0 for None.
SetFrequency(f, freq) ==
  IF freq # 0
  THEN Attach(freq, 12) \o <<Set("frequency", freq)>> \o Duty(IF f.duty = TRUE THEN PwmMax ELSE 0)
  ELSE IF f.frequency = 0 THEN <<>>
  ELSE Detach \o <<Set("frequency", 0)>>
         \o (IF f.function = "output" THEN Mode("output") \o Level(FALSE) ELSE <<>>)

\* EspBridgePin.close(): what fails is ignored, and ends it.
Close(f) ==
  (IF f.watching THEN <<Ask("unwatch", 0), Set("watching", FALSE)>> ELSE <<>>)
    \o (IF f.frequency # 0 THEN Detach \o <<Set("frequency", 0)>> ELSE <<>>)
    \o Mode("input")
    \o <<Finally("function", "input"), Finally("closed", TRUE)>>

\* _set_function(), output_with_state(), input_with_pull()
FunctionCalls(f) ==
  {<<Set("function", "input")>> \o Mode(PullModes[f.pull])}
    \cup {<<Set("function", "output")>> \o Mode("output") \o SetState(f, v) : v \in BOOLEAN}
    \cup {<<Set("pull", p), Set("function", "input")>> \o Mode(PullModes[p]) : p \in Pulls}

PullCalls(f) ==
  {<<Set("pull", p)>> \o (IF f.function = "input" THEN Mode(PullModes[p]) ELSE <<>>) : p \in Pulls}

\* _set_edges(), _set_when_changed()
EdgeCalls(f) ==
  {<<Set("edges", e)>> \o Rearm(f, f.when, e) : e \in Edges}
    \cup {<<Set("when", w)>> \o Rearm(f, w, f.edges) : w \in BOOLEAN}

Gpiozero(f) ==
  FunctionCalls(f) \cup PullCalls(f) \cup EdgeCalls(f)
    \cup {SetState(f, v) : v \in IF f.function = "output" \/ f.frequency # 0 THEN BOOLEAN ELSE {}}
    \cup {SetFrequency(f, freq) : freq \in {0, 100}}
    \cup {Close(f)}

\* DigitalInOut: the value is kept, and given back for an output without asking.
Blinka(f) ==
  {<<Set("function", "output")>> \o Mode("output") \o <<Set("value", v)>> \o Level(v) : v \in BOOLEAN}
    \cup {<<Set("function", "input"), Set("pull", p)>> \o Mode(PullModes[p]) : p \in Pulls}
    \cup {<<Set("value", v)>> \o Level(v) : v \in IF f.function = "output" THEN BOOLEAN ELSE {}}
    \cup {Mode("input") \o <<Set("closed", TRUE)>>}

Methods == CASE host.kind = "pwm" -> Pwm(host.pic)
             [] host.kind = "rpi" -> Rpi(host.pic)
             [] host.kind = "gpiozero" -> Gpiozero(host.pic)
             [] host.kind = "blinka" -> Blinka(host.pic)

----------------------------------------------------------------------------

\* The constructors set the pin to input, where they touch it.
Init ==
  /\ \E kind \in Kinds :
       host = [kind |-> kind, steps |-> <<>>, unsure |-> FALSE, mixed |-> FALSE,
               pic |-> [function |-> "input", pull |-> "floating", closed |-> FALSE,
                        frequency |-> IF kind = "rpi" THEN 50 ELSE 0,
                        duty |-> IF kind = "rpi" THEN 0 ELSE FALSE, attached |-> Off, asked |-> Off,
                        edges |-> "both", when |-> FALSE, watching |-> FALSE,
                        value |-> FALSE, level |-> FALSE]]
  /\ board = [pad |-> "input", high |-> FALSE, pwm |-> Off, duty |-> 0, watch |-> "none"]
  /\ wire = [calls |-> Calls, faults |-> Faults]

Call ==
  /\ host.steps = <<>> /\ ~host.pic.closed /\ wire.calls > 0
  /\ \E steps \in Methods : host' = [host EXCEPT !.steps = steps]
  /\ wire' = [wire EXCEPT !.calls = @ - 1]
  /\ UNCHANGED board

Step == Head(host.steps)
Rest == [host EXCEPT !.steps = Tail(@)]
Raised == [host EXCEPT !.steps = SelectSeq(Tail(@), LAMBDA s : s[1] = "finally")]

Assign ==
  /\ host.steps # <<>> /\ Step[1] \in {"set", "finally"}
  /\ host' = [Rest EXCEPT !.pic[Step[2]] = Step[3]]
  /\ UNCHANGED <<board, wire>>

\* pinMode() takes PWM off the pin; digitalWrite() is for pins that pinMode() has set.
After(request) ==
  CASE request[1] = "mode"   -> [board EXCEPT !.pad = request[2], !.pwm = Off]
    [] request[1] = "write"  -> IF board.pad \in {"pwm", "none"} THEN board
                                ELSE [board EXCEPT !.high = request[2]]
    [] request[1] = "attach" -> [board EXCEPT !.pad = "pwm", !.pwm = request[2], !.duty = 0]
    [] request[1] = "duty"   -> [board EXCEPT !.duty = request[2]]
    [] request[1] = "detach" -> IF board.pwm = Off THEN board
                                ELSE [board EXCEPT !.pad = "none", !.pwm = Off]
    [] request[1] = "watch"  -> [board EXCEPT !.watch = request[2]]
    [] request[1] = "unwatch" -> [board EXCEPT !.watch = "none"]

\* Digital use of a pin that PWM has, or had: the pictures do not know of each other.
Mixing(request) ==
  \/ request[1] = "mode" /\ board.pwm # Off
  \/ request[1] = "write" /\ board.pad \in {"pwm", "none"}

Request ==
  /\ host.steps # <<>> /\ Step[1] \notin {"set", "finally"}
  /\ IF Step[1] = "duty" /\ board.pwm = Off          \* NOT_INIT
     THEN host' = [Raised EXCEPT !.unsure = TRUE] /\ UNCHANGED <<board, wire>>
     ELSE \/ /\ host' = [Rest EXCEPT !.mixed = @ \/ Mixing(Step)]
             /\ board' = After(Step) /\ UNCHANGED wire
          \/ /\ wire.faults > 0
             /\ host' = [Raised EXCEPT !.unsure = TRUE]
             /\ board' \in {board, After(Step)}
             /\ wire' = [wire EXCEPT !.faults = @ - 1]

Next == Call \/ Assign \/ Request

----------------------------------------------------------------------------

Asked(a) == CASE a = Off -> {0}
              [] a[1] = "percent" -> {(Full(board.pwm[2]) * a[2]) \div 100}
              [] a[1] = "servo" -> {IF a[2] = 0 THEN 410 ELSE 2048}

(***************************************************************************)
(* Whatever the calls were, and in whatever order, when one returns and    *)
(* none has raised the pin is what the interface believes: function and    *)
(* pull, the level of an output, the edge it reports, and for a pin with   *)
(* PWM the frequency, the resolution and the duty that was asked for in    *)
(* this resolution (Pwm, rpi_gpio, EspBridgePin, DigitalInOut).  Digital   *)
(* use of a pin that has PWM is left out: the interfaces do not notice it. *)
(***************************************************************************)
PinIsAsPictured ==
  LET f == host.pic IN
  host.steps = <<>> /\ ~host.unsure /\ ~host.mixed =>
    CASE host.kind = "gpiozero" ->
           /\ (f.frequency # 0) = (board.pwm # Off)
           /\ board.pwm # Off => board.duty = (IF f.duty THEN PwmMax ELSE 0)
           /\ board.pad \notin {"pwm", "none"} =>
                /\ board.pad = IF f.function = "output" THEN "output"
                               ELSE IF f.closed THEN "input" ELSE PullModes[f.pull]
                /\ f.function = "output" => board.high = f.level
           /\ board.watch = IF f.when /\ f.edges # "none" /\ ~f.closed THEN f.edges ELSE "none"
      [] host.kind = "blinka" ->
           /\ board.pad = IF f.closed THEN "input"
                          ELSE IF f.function = "output" THEN "output" ELSE PullModes[f.pull]
           /\ f.function = "output" => board.high = f.value
      [] OTHER ->
           /\ board.pwm = f.attached
           /\ f.attached # Off => board.duty \in Asked(f.asked)
           /\ host.kind = "rpi" /\ board.pad \notin {"pwm", "none"} =>
                /\ board.pad = IF f.function = "output" THEN "output" ELSE PullModes[f.pull]
                /\ f.function = "output" => board.high = f.level

(***************************************************************************)
(* The value of an output is the pin's level: "value" of a DigitalInOut    *)
(* is what the program reads back instead of asking the board, also after  *)
(* a write that has failed (blinka.py:184-193).                            *)
(***************************************************************************)
ValueIsLevel ==
  host.kind = "blinka" /\ host.steps = <<>> /\ ~host.pic.closed /\ host.pic.function = "output"
    => board.high = host.pic.value
=============================================================================
