---------------------------- MODULE SensorReadings ----------------------------
(***************************************************************************)
(* The sensor drivers (python/espbridge/drivers): what a driver sends to   *)
(* its chip for the measurement that was asked for, what the chip makes of *)
(* it, what it answers, and what the driver makes of the answer.  The      *)
(* chips are modelled from their data sheets as the drivers quote them,    *)
(* the conversions by what they do to the bits.  Values are integers in    *)
(* the unit of the least bit; Bosch's compensation, which needs fractions, *)
(* is left out.                                                            *)
(***************************************************************************)
EXTENDS Integers, Sequences, SequencesExt, FiniteSetsExt

CONSTANTS
  Kinds,    \* the measurements to look at
  Trim      \* the values of the signed 12-bit trimming parameters of a BME280

VARIABLES
  host,    \* the driver's call: what was asked for, what it returned
  board,   \* the chip: what it understood, and the quantity it measures
  wire     \* the bytes or pulses that the chip answers with

vars == <<host, board, wire>>

Pow(n) == 2 ^ n
Bits(v, low, n) == (v \div Pow(low)) % Pow(n)            \* bits low .. low+n-1
Signed(v, n) == IF v >= Pow(n - 1) THEN v - Pow(n) ELSE v
Raw(v, n) == v % Pow(n)                                  \* two's complement
Big(bytes) == FoldLeft(LAMBDA acc, b : 256 * acc + b, 0, bytes)
HiLo(v) == <<v \div 256, v % 256>>

S16 == {-32768, -129, -1, 0, 1, 255, 256, 32767}
U12 == {0, 1, 255, 256, 2048, 4095}
NoAnswer == <<>>

----------------------------------------------------------------------------
(* Converters: ADS1115, MCP3202, MCP3208 *)

\* ADS1115._config(): OS, MUX, PGA, MODE, DR, and the comparator off.
Config(channel, gain, rate) ==
  Pow(15) + (4 + channel) * Pow(12) + gain * Pow(9) + Pow(8) + rate * Pow(5) + 3

\* The converter: it starts if OS and MODE are set, on a single-ended input.
Ads1115(cfg) ==
  IF Bits(cfg, 15, 1) = 1 /\ Bits(cfg, 8, 1) = 1 /\ Bits(cfg, 14, 1) = 1
  THEN <<Bits(cfg, 12, 2), Bits(cfg, 9, 3), Bits(cfg, 5, 3)>> ELSE NoAnswer
ReadAds1115(raw) == Signed(Big(raw), 16)

\* MCP3208.read(): start bit, SGL/DIFF, three bits of the channel.
CommandMcp3208(channel, single) ==
  <<4 + 2 * single + channel \div 4, (channel % 4) * 64, 0>>
Mcp3208(tx) ==
  IF Bits(tx[1], 2, 1) = 1
  THEN <<Bits(tx[1], 0, 1) * 4 + Bits(tx[2], 6, 2), Bits(tx[1], 1, 1)>> ELSE NoAnswer

\* MCP3202.read(): start bit; SGL/DIFF, the channel, MSBF.
CommandMcp3202(channel, single) == <<1, single * 128 + channel * 64 + 32, 0>>
Mcp3202(tx) ==
  IF tx[1] = 1 /\ Bits(tx[2], 5, 1) = 1 THEN <<Bits(tx[2], 6, 1), Bits(tx[2], 7, 1)>>
  ELSE NoAnswer

\* Both: twelve bits after whatever was on the line while the command went out.
ReadMcp(rx) == (rx[2] % 16) * 256 + rx[3]

----------------------------------------------------------------------------
(* Registers: MPU6050, BH1750, BME280, DS18B20 *)

\* MPU6050: the range in bits 4:3, and seven big-endian words in one burst.
RangeMpu6050(range) == range * 8
ReadMpu6050(block) == [i \in 1 .. 7 |-> Signed(Big(SubSeq(block, 2 * i - 1, 2 * i)), 16)]

\* BH1750.read_lux(), in 24ths of a lux: raw / 1.2, halved in the H2 modes, where the
\* chip counts twice as fast.
Modes == {16, 17, 19, 32, 33, 35}
Hires2 == {17, 33}
ReadLux(mode, data) == LET lux == Big(data) * 20 IN IF mode \in Hires2 THEN lux \div 2 ELSE lux

\* BME280._read_raw(): two 20-bit values and one of 16 bits.
ReadRaw(d) == <<d[1] * Pow(12) + d[2] * 16 + d[3] \div 16,
                d[4] * Pow(12) + d[5] * 16 + d[6] \div 16,
                d[7] * 256 + d[8]>>

\* Deliberately wrong (mutation of ReadTrimming): dig_H5 from the other nibble.
ReadTrimmingNibble(h) ==
  <<Signed(h[2] * 256 + h[1], 16), h[3], h[4] * 16 + (h[5] % 16), h[6] * 16 + (h[5] % 16),
    Signed(h[7], 8)>>

\* BME280._read_calibration(): dig_H2 .. dig_H6; H4 and H5 share a byte.
ReadTrimming(h) ==
  <<Signed(h[2] * 256 + h[1], 16), h[3], h[4] * 16 + (h[5] % 16), h[6] * 16 + h[5] \div 16,
    Signed(h[7], 8)>>

\* As the data sheet lays them out, H4 and H5 in two's complement.
Trimming(t) ==
  LET h2 == Raw(t[1], 16)  h4 == Raw(t[3], 12)  h5 == Raw(t[4], 12) IN
  <<h2 % 256, h2 \div 256, t[2], h4 \div 16, (h4 % 16) + 16 * (h5 % 16), h5 \div 16, Raw(t[5], 8)>>

\* parse_scratchpad(), in 16ths of a degree; a DS18S20 counts halves.
ParseScratchpad(data, family) ==
  LET raw == Signed(data[2] * 256 + data[1], 16) IN IF family = "DS18S20" THEN 8 * raw ELSE raw

----------------------------------------------------------------------------
(* The clock: DS3231 *)

IntToBcd(n) == (n \div 10) * 16 + (n % 10)
BcdToInt(b) == (b \div 16) * 10 + (b % 16)

\* set() and now(): second, minute, hour, weekday, day, month, year.
SetTime(time) == [i \in 1 .. 7 |-> IntToBcd(IF i = 7 THEN time[i] - 2000 ELSE time[i])]
Now(b) == <<BcdToInt(b[1] % 128), BcdToInt(b[2] % 128), BcdToInt(b[3] % 64), BcdToInt(b[4] % 8),
            BcdToInt(b[5] % 64), BcdToInt(b[6] % 32), 2000 + BcdToInt(b[7])>>

\* The chip counts in BCD, with its limits, and has century and 12-hour bits.
Ds3231(b) ==
  IF /\ \A i \in 1 .. 7 : b[i] % 16 <= 9 /\ b[i] \div 16 <= 9
     /\ b[3] < 64 /\ b[6] < 32
  THEN [i \in 1 .. 7 |-> 10 * (b[i] \div 16) + (b[i] % 16) + IF i = 7 THEN 2000 ELSE 0]
  ELSE NoAnswer

\* Every value of each field, the others at their limits.
Times ==
  LET low == <<0, 0, 0, 1, 1, 1, 2000>>  high == <<59, 59, 23, 7, 31, 12, 2099>> IN
  {[i \in 1 .. 7 |-> IF i = f THEN low[f] + n ELSE base[i]] :
     <<f, n, base>> \in {<<g, k, b>> \in (1 .. 7) \X (0 .. 99) \X {low, high} :
                           low[g] + k <= high[g]}}

\* temperature(), in quarters of a degree.
Temperature(b) == 4 * Signed(b[1], 8) + b[2] \div 64

----------------------------------------------------------------------------
(* Pulses: DHT, HC-SR04, infrared *)

Symbol(level, ticks) == [level |-> level, ticks |-> ticks]

\* dht.decode(): the last forty highs that follow a low and have a plausible length.
Decode(symbols) ==
  LET ok(i)  == symbols[i].level = 1 /\ i > 1 /\ symbols[i - 1].level = 0
                  /\ symbols[i].ticks \in 10 .. 110
      at     == SelectSeq([i \in DOMAIN symbols |-> i], ok)
      bit(k) == IF symbols[at[Len(at) - 40 + k]].ticks > 48 THEN 1 ELSE 0
      byte(j) == FoldLeft(LAMBDA acc, k : 2 * acc + bit(8 * (j - 1) + k), 0, <<1,2,3,4,5,6,7,8>>)
      data   == [j \in 1 .. 5 |-> byte(j)]
  IN IF Len(at) < 40 \/ (data[1] + data[2] + data[3] + data[4]) % 256 # data[5]
     THEN NoAnswer ELSE data

\* dht.convert(), in tenths: a DHT22 has a sign bit and a magnitude.
Convert(data, model) ==
  IF data = NoAnswer THEN NoAnswer
  ELSE IF model = 11 THEN <<10 * data[3] + data[4], 10 * data[1] + data[2]>>
  ELSE LET magnitude == (data[3] % 128) * 256 + data[4] IN
       <<IF data[3] >= 128 THEN -magnitude ELSE magnitude, data[1] * 256 + data[2]>>

\* The sensor's bytes, and its pulses after the trigger; the capture may start late.
Dht(model, temp, hum) ==
  LET mag == IF temp < 0 THEN -temp ELSE temp
      b == IF model = 11 THEN <<hum \div 10, hum % 10, temp \div 10, temp % 10>>
           ELSE HiLo(hum) \o HiLo(mag + IF temp < 0 THEN 32768 ELSE 0)
      all == Append(b, (b[1] + b[2] + b[3] + b[4]) % 256)
  IN <<Symbol(0, 18000), Symbol(1, 30), Symbol(0, 80), Symbol(1, 80)>>
       \o FlattenSeq([k \in 1 .. 40 |->
            <<Symbol(0, 50), Symbol(1, IF Bits(all[(k + 7) \div 8], (8 - (k % 8)) % 8, 1) = 1
                                       THEN 70 ELSE 26)>>])
       \o <<Symbol(0, 50)>>

\* echo_to_cm(), in ticks: the first high that is no crosstalk.
EchoTicks(symbols) ==
  LET at == {i \in DOMAIN symbols : symbols[i].level = 1 /\ symbols[i].ticks >= 60} IN
  IF at = {} THEN NoAnswer ELSE symbols[Min(at)].ticks

\* nec_symbols(): leader, four bytes from the lowest bit on, final mark.
NecSymbols(addr, command) ==
  LET a == addr % 256  c == command % 256
      word == <<a, 255 - a, c, 255 - c>>
  IN <<Symbol(1, 9000), Symbol(0, 4500)>>
       \o FlattenSeq([k \in 1 .. 32 |->
            <<Symbol(1, 560), Symbol(0, IF Bits(word[(k + 7) \div 8], (k - 1) % 8, 1) = 1
                                        THEN 1690 ELSE 560)>>])
       \o <<Symbol(1, 560)>>

Near(dur, target) == 10 * (IF dur > target THEN dur - target ELSE target - dur) <= 3 * target

\* decode_nec(): by durations only.
DecodeNec(symbols) ==
  LET dur(i) == symbols[i].ticks
      bits == {i \in 0 .. 31 : Near(dur(4 + 2 * i), 1690)}
      byte(j) == MapThenSumSet(LAMBDA i : Pow(i % 8), {i \in bits : i \div 8 = j})
      bad == \E i \in 0 .. 31 : ~Near(dur(3 + 2 * i), 560)
                                  \/ ~(Near(dur(4 + 2 * i), 1690) \/ Near(dur(4 + 2 * i), 560))
  IN IF Len(symbols) >= 3 /\ Near(dur(1), 9000) /\ Near(dur(2), 2250) THEN <<"repeat">>
     ELSE IF Len(symbols) < 67 \/ ~(Near(dur(1), 9000) /\ Near(dur(2), 4500)) THEN NoAnswer
     ELSE IF bad \/ byte(2) + byte(3) # 255 THEN NoAnswer
     ELSE <<IF byte(0) + byte(1) = 255 THEN byte(0) ELSE byte(0) + 256 * byte(1), byte(2)>>

\* A receiver module inverts the line, and stretches or shortens what it hears.
Received(symbols, percent) ==
  [i \in DOMAIN symbols |-> Symbol(1 - symbols[i].level, (symbols[i].ticks * percent) \div 100)]

----------------------------------------------------------------------------
(* Asking, answering, reading *)

\* kind -> what can be asked, and the quantities there are.
Questions(kind) ==
  CASE kind = "ads1115"  -> (0 .. 3) \X (0 .. 5) \X (0 .. 7)
    [] kind = "mcp3208"  -> (0 .. 7) \X {0, 1}
    [] kind = "mcp3202"  -> {0, 1} \X {0, 1}
    [] kind = "mpu6050"  -> {<<r>> : r \in 0 .. 3}
    [] kind = "bh1750"   -> {<<m>> : m \in Modes}
    [] kind = "ds18b20"  -> {<<"DS18B20">>, <<"DS18S20">>}
    [] kind = "clock"    -> Times
    [] kind = "dht"      -> {<<11>>, <<22>>}
    [] kind = "nec"      -> {0, 1, 90, 255} \X {0, 69, 128, 255}
    [] OTHER -> {<<>>}

Quantities(kind, ask) ==
  CASE kind = "ads1115" -> S16
    [] kind \in {"mcp3208", "mcp3202"} -> U12
    [] kind = "mpu6050" -> {<<x, 0, y, -1, x, y, 1>> : x, y \in S16}
    [] kind = "bh1750"  -> {0, 20, 5100, 655340}
    [] kind = "raw"     -> {0, 15, 16, 2048, 524288, 1048575} \X {0, 1, 524288, 1048575} \X {0, 32768, 65535}
    [] kind = "trim"    -> {-32768, -1, 0, 362} \X {0, 255} \X Trim \X Trim \X {-128, 0, 30, 127}
    [] kind = "ds18b20" -> IF ask[1] = "DS18B20" THEN {-880, -1, 0, 1, 401, 2000} ELSE {-440, -8, 0, 8, 680}
    [] kind = "degrees" -> -512 .. 511
    [] kind = "dht"     -> IF ask[1] = 11 THEN {0, 9, 10, 255, 500} \X {0, 205, 999}
                           ELSE {-400, -1, 0, 1, 255, 800} \X {0, 1, 256, 1000}
    [] kind = "echo"    -> {60, 580, 25000}
    [] OTHER -> {ask}

\* How the chip takes the command for what was asked.
Understood(kind, ask) ==
  CASE kind = "ads1115" -> Ads1115(Config(ask[1], ask[2], ask[3]))
    [] kind = "mcp3208" -> Mcp3208(CommandMcp3208(ask[1], ask[2]))
    [] kind = "mcp3202" -> Mcp3202(CommandMcp3202(ask[1], ask[2]))
    [] kind = "mpu6050" -> <<Bits(RangeMpu6050(ask[1]), 3, 2)>>
    [] kind = "clock"   -> Ds3231(SetTime(ask))
    [] OTHER -> ask

\* What it sends for the quantity q; junk stands for bits that mean nothing.
Answer(kind, ask, q, junk) ==
  CASE kind = "ads1115" -> HiLo(Raw(q, 16))
    [] kind \in {"mcp3208", "mcp3202"} -> <<255 * junk, 240 * junk + (q \div 256), q % 256>>
    [] kind = "mpu6050" -> FlattenSeq([i \in 1 .. 7 |-> HiLo(Raw(q[i], 16))])
    [] kind = "bh1750"  -> HiLo(IF ask[1] \in Hires2 THEN q \div 10 ELSE q \div 20)
    [] kind = "raw"     -> <<Bits(q[1], 12, 8), Bits(q[1], 4, 8), 16 * (q[1] % 16) + 15 * junk,
                             Bits(q[2], 12, 8), Bits(q[2], 4, 8), 16 * (q[2] % 16),
                             q[3] \div 256, q[3] % 256>>
    [] kind = "trim"    -> Trimming(q)
    [] kind = "ds18b20" -> LET r == Raw(IF ask[1] = "DS18S20" THEN q \div 8 ELSE q, 16)
                           IN <<r % 256, r \div 256, 0, 0, 127, 255, 12, 16, 0>>
    [] kind = "clock"   -> [i \in 1 .. 7 |->
                              LET v == IF i = 7 THEN q[i] - 2000 ELSE q[i]
                              IN (v \div 10) * 16 + (v % 10) + (IF i = 6 THEN 128 * junk ELSE 0)]
    [] kind = "degrees" -> <<Raw(q, 10) \div 4, 64 * (q % 4) + 63 * junk>>
    [] kind = "dht"     -> LET all == Dht(ask[1], q[1], q[2]) IN SubSeq(all, 1 + 3 * junk, Len(all))
    [] kind = "echo"    -> (IF junk = 1 THEN <<Symbol(0, 90), Symbol(1, 12)>> ELSE <<>>)
                             \o <<Symbol(0, 450), Symbol(1, q), Symbol(0, 30000)>>
    [] kind = "nec"     -> Received(NecSymbols(q[1], q[2]), 80 + 40 * junk)

Reading(kind, ask, rx) ==
  CASE kind = "ads1115" -> ReadAds1115(rx)
    [] kind \in {"mcp3208", "mcp3202"} -> ReadMcp(rx)
    [] kind = "mpu6050" -> ReadMpu6050(rx)
    [] kind = "bh1750"  -> ReadLux(ask[1], rx)
    [] kind = "raw"     -> ReadRaw(rx)
    [] kind = "trim"    -> ReadTrimming(rx)
    [] kind = "ds18b20" -> ParseScratchpad(rx, ask[1])
    [] kind = "clock"   -> Now(rx)
    [] kind = "degrees" -> Temperature(rx)
    [] kind = "dht"     -> Convert(Decode(rx), ask[1])
    [] kind = "echo"    -> EchoTicks(rx)
    [] kind = "nec"     -> DecodeNec(rx)

Init ==
  /\ \E kind \in Kinds : \E ask \in Questions(kind) :
       host = [kind |-> kind, ask |-> ask, pc |-> "ask", got |-> NoAnswer]
  /\ board = [understood |-> NoAnswer, q |-> NoAnswer]
  /\ wire = NoAnswer

Ask ==
  /\ host.pc = "ask"
  /\ host' = [host EXCEPT !.pc = "answer"]
  /\ board' = [board EXCEPT !.understood = Understood(host.kind, host.ask)]
  /\ UNCHANGED wire

Measure ==
  /\ host.pc = "answer"
  /\ \E q \in Quantities(host.kind, host.ask), junk \in {0, 1} :
       /\ board' = [board EXCEPT !.q = q]
       /\ wire' = Answer(host.kind, host.ask, q, junk)
  /\ host' = [host EXCEPT !.pc = "read"]

Read ==
  /\ host.pc = "read"
  /\ host' = [host EXCEPT !.pc = "done", !.got = Reading(host.kind, host.ask, wire)]
  /\ UNCHANGED <<board, wire>>

Next == Ask \/ Measure \/ Read \/ (host.pc = "done" /\ UNCHANGED vars)

----------------------------------------------------------------------------

TypeOK ==
  /\ host.kind \in Kinds /\ host.ask \in Questions(host.kind)
  /\ host.pc \in {"ask", "answer", "read", "done"}

\* What the driver takes the quantity q for: q, but for two trimming parameters of a
\* BME280 that are signed and read as if they were not.
TakenFor(kind, q) ==
  IF kind = "trim" THEN [q EXCEPT ![3] = Raw(@, 12), ![4] = Raw(@, 12)] ELSE q

(***************************************************************************)
(* A reading is the quantity of the channel, range or mode that was asked  *)
(* for, whatever its sign, its limits and the meaningless bits around it   *)
(* (the read functions of the sensor drivers), with one exception: a       *)
(* negative dig_H4 or dig_H5 of a BME280 is read as the number 4096 above  *)
(* it (bme280.py:131-132; TrimmingIsSigned).                               *)
(***************************************************************************)
ReadsWhatItAsked ==
  host.pc = "done" =>
    board.understood = host.ask /\ host.got = TakenFor(host.kind, board.q)

(***************************************************************************)
(* dig_H4 and dig_H5 of a BME280 are "(12-bit signed)" (bme280.py:124), so *)
(* a negative one is read as what it is.  It does not hold.                *)
(***************************************************************************)
TrimmingIsSigned == host.pc = "done" /\ host.kind = "trim" => host.got = board.q
=============================================================================
