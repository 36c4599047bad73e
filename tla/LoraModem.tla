------------------------------ MODULE LoraModem ------------------------------
(***************************************************************************)
(* How the three LoRa drivers put what was asked of them into the chip's   *)
(* registers and commands (python/espbridge/drivers/sx126x.py, sx127x.py,  *)
(* sx128x.py): carrier, power and modulation.  Power (but for the SX127x)  *)
(* and modulation are given to the constructor only.  A call is one or     *)
(* more SPI frames; threads that share a driver, and transfers that fail,  *)
(* come in between.  Init chooses the chip and what it is opened with.     *)
(***************************************************************************)
EXTENDS Integers, Sequences, FiniteSets, TLC

CONSTANTS
  Threads,  \* of the host
  Kinds,    \* of chips, among sx126x, sx127x, sx128x
  Calls,    \* bound of the model: settings changed
  Faults    \* bound of the model: transfers that fail

VARIABLES
  host,    \* the frames of each thread's call, what was asked last
  board,   \* the registers of the chip
  wire     \* transfers that may still fail

vars == <<host, board, wire>>

Settings == {"freq", "power", "modem"}
Registers == {"freq2", "freq1", "freq0", "dac", "power", "sf", "bw", "cr", "ldro"}
Idle == [of |-> "none", frames |-> <<>>, alone |-> TRUE]
Byte(n, k) == (n \div (256 ^ k)) % 256

TypeOK ==
  /\ host.kind \in Kinds /\ host.unsure \subseteq Settings
  /\ \A t \in Threads : host.call[t].of \in Settings \cup {"none"}
  /\ DOMAIN board = Registers
  /\ wire.faults \in 0 .. Faults /\ wire.calls \in 0 .. Calls

----------------------------------------------------------------------------
(* What can be asked for, frequencies in kHz *)

Freqs(kind) == IF kind = "sx128x" THEN {2400000, 2479500} ELSE {433050, 868100, 1020000}

Powers(kind) == CASE kind = "sx126x" -> {-9, 14, 22}
                  [] kind = "sx127x" -> {2, 17, 18, 20}
                  [] kind = "sx128x" -> {13}

\* Hz -> code, of _BW, bw_codes and _BW_CODES.
BwCode(kind) == CASE kind = "sx126x" -> (31250 :> 2) @@ (125000 :> 4)
                  [] kind = "sx127x" -> (31250 :> 4) @@ (125000 :> 7)
                  [] kind = "sx128x" -> (400000 :> 38) @@ (1600000 :> 10)

Modems(kind) == [sf : {7, 10, 12}, bw : DOMAIN BwCode(kind),
                 cr : IF kind = "sx128x" THEN {1, 7} ELSE {5, 8}]

----------------------------------------------------------------------------
(* The frames of a call: sequences of writes, each a function of registers to bytes *)

\* The carrier in steps of the crystal, num / den steps to the Hz, or kHz for the SX128x.
Scale(kind) == CASE kind = "sx126x" -> [num |-> 16384, den |-> 15625, unit |-> 1000]
                 [] kind = "sx127x" -> [num |-> 256, den |-> 15625, unit |-> 1000]
                 [] kind = "sx128x" -> [num |-> 8192, den |-> 1625, unit |-> 1]

\* round(freq * 2**k / crystal), in parts that keep the numbers small.
Steps(kind, khz) ==
  LET s == Scale(kind)
      f == khz * s.unit
  IN (f \div s.den) * s.num + (((f % s.den) * s.num * 2 + s.den) \div (2 * s.den))

\* set_frequency(): three registers of the SX127x, one command of the others, which the
\* SX128x gets in standby.
Tune(kind, khz) ==
  LET reg == Steps(kind, khz)
      top == IF kind = "sx126x" THEN reg \div 65536 ELSE Byte(reg, 2)
  IN IF kind = "sx127x"
     THEN <<("freq2" :> top), ("freq1" :> Byte(reg, 1)), ("freq0" :> Byte(reg, 0))>>
     ELSE (IF kind = "sx128x" THEN << <<>> >> ELSE <<>>)
            \o <<("freq2" :> top) @@ ("freq1" :> Byte(reg, 1)) @@ ("freq0" :> Byte(reg, 0))>>

\* Deliberately wrong (mutation of Power): the high-power stage is not switched off again.
PowerStaysHigh(kind, dbm) ==
  IF kind # "sx127x" THEN <<("power" :> (dbm % 256))>>
  ELSE IF dbm > 17 THEN <<("dac" :> 135), ("power" :> 128 + (dbm - 5))>>
  ELSE <<("power" :> 128 + (dbm - 2))>>

\* set_tx_power(): beyond 17 dBm the SX127x has a stage of its own, with another scale.
Power(kind, dbm) ==
  IF kind # "sx127x" THEN <<("power" :> (dbm % 256))>>
  ELSE IF dbm > 17 THEN <<("dac" :> 135), ("power" :> 128 + (dbm - 5))>>
  ELSE <<("dac" :> 132), ("power" :> 128 + (dbm - 2))>>

\* _set_modulation(), _set_modem_config(), _apply_modulation().
Modulate(kind, m) ==
  CASE kind = "sx126x" ->
         <<("sf" :> m.sf) @@ ("bw" :> BwCode(kind)[m.bw]) @@ ("cr" :> m.cr - 4)
             @@ ("ldro" :> IF m.sf >= 11 THEN 1 ELSE 0)>>
    [] kind = "sx127x" ->
         <<("bw" :> BwCode(kind)[m.bw]) @@ ("cr" :> m.cr - 4), ("sf" :> m.sf)>>
    [] kind = "sx128x" ->
         <<("sf" :> m.sf) @@ ("bw" :> BwCode(kind)[m.bw]) @@ ("cr" :> m.cr)>>

Frames(kind, of, x) == IF of = "freq" THEN Tune(kind, x) ELSE Power(kind, x)

\* What a driver can be asked for once it is open.
Offered(kind, of) == CASE of = "freq" -> Freqs(kind)
                      [] of = "power" -> IF kind = "sx127x" THEN Powers(kind) ELSE {}
                      [] OTHER -> {}

----------------------------------------------------------------------------
(* The calls *)

\* A driver that has been constructed.
Init ==
  \E kind \in Kinds : \E dbm \in Powers(kind), m \in Modems(kind) :
    LET khz == CHOOSE x \in Freqs(kind) : TRUE
        all == Tune(kind, khz) \o Modulate(kind, m) \o Power(kind, dbm)
        after[n \in 0 .. Len(all)] ==
          IF n = 0 THEN [r \in Registers |-> 0] ELSE all[n] @@ after[n - 1]
    IN /\ host = [kind |-> kind, call |-> [t \in Threads |-> Idle], unsure |-> {},
                  asked |-> [freq |-> khz, power |-> dbm, modem |-> m]]
       /\ board = after[Len(all)]
       /\ wire = [faults |-> Faults, calls |-> Calls]

Busy(of) == {t \in Threads : host.call[t].of = of}

Call(t, of) ==
  /\ host.call[t] = Idle /\ wire.calls > 0
  /\ \E x \in Offered(host.kind, of) :
       host' = [host EXCEPT
         !.call = [u \in Threads |->
            IF u = t THEN [of |-> of, frames |-> Frames(host.kind, of, x), alone |-> Busy(of) = {}]
            ELSE [host.call[u] EXCEPT !.alone = @ /\ host.call[u].of # of]],
         !.asked[of] = x, !.unsure = @ \cup {of}]
  /\ wire' = [wire EXCEPT !.calls = @ - 1]
  /\ UNCHANGED board

\* One SPI frame.  With the last one the setting is what was asked, if no other thread has
\* set it at the same time.
Frame(t) ==
  /\ host.call[t] # Idle
  /\ LET c == host.call[t] IN
     /\ board' = Head(c.frames) @@ board
     /\ host' = IF Len(c.frames) > 1 THEN [host EXCEPT !.call[t].frames = Tail(@)]
                ELSE [host EXCEPT !.call[t] = Idle,
                                  !.unsure = IF c.alone THEN @ \ {c.of} ELSE @]
  /\ UNCHANGED wire

\* A transfer raises; what was written stays.
FrameFails(t) ==
  /\ host.call[t] # Idle /\ wire.faults > 0
  /\ wire' = [wire EXCEPT !.faults = @ - 1]
  /\ host' = [host EXCEPT !.call[t] = Idle]
  /\ UNCHANGED board

Next == \E t \in Threads : \/ \E of \in {"freq", "power"} : Call(t, of)
                           \/ Frame(t) \/ FrameFails(t)

----------------------------------------------------------------------------
(* What the chip makes of its registers *)

Carrier == board["freq2"] * 65536 + board["freq1"] * 256 + board["freq0"]

\* At most half a step off.
OnFrequency(khz) ==
  LET s    == Scale(host.kind)
      f    == khz * s.unit
      rest == Carrier - (f \div s.den) * s.num
      off  == rest * s.den - (f % s.den) * s.num
  IN rest \in 0 .. s.num /\ 2 * off \in -s.den .. s.den

OutputPower ==
  IF host.kind # "sx127x" THEN board["power"] - (IF board["power"] > 127 THEN 256 ELSE 0)
  ELSE board["power"] - 128 + (IF board["dac"] = 135 THEN 5 ELSE 2)

Modulation ==
  [sf |-> board["sf"],
   bw |-> CHOOSE bw \in DOMAIN BwCode(host.kind) : BwCode(host.kind)[bw] = board["bw"],
   cr |-> IF host.kind = "sx128x" THEN board["cr"] ELSE board["cr"] + 4]

(***************************************************************************)
(* The chip is on the carrier that was asked for, within half a step of    *)
(* its crystal, sends with that power and has that modulation, whichever   *)
(* settings came before; two threads that change the same setting at once  *)
(* and a transfer that fails leave it open (set_frequency, set_tx_power,   *)
(* _set_modulation and their counterparts).                                *)
(***************************************************************************)
ChipAsAsked ==
  /\ "freq" \notin host.unsure => OnFrequency(host.asked["freq"])
  /\ "power" \notin host.unsure => OutputPower = host.asked["power"]
  /\ Modulation = host.asked["modem"]

(***************************************************************************)
(* "LDRO must be on when symbol time > 16.38 ms (high SF + low BW)"        *)
(* (sx126x.py:180): a symbol lasts 2^sf / bw.                              *)
(***************************************************************************)
LdroWhenSlow ==
  LET m == host.asked["modem"] IN
  host.kind = "sx126x" /\ (2 ^ m.sf) * 100000 > 1638 * m.bw
    => board["ldro"] = 1
=============================================================================
