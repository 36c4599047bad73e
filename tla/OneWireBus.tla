------------------------------ MODULE OneWireBus ------------------------------
(***************************************************************************)
(* The 1-Wire bus: ROM search and addressing                               *)
(* (python/espbridge/onewire.py) and a temperature probe on it             *)
(* (drivers/ds18b20.py), by threads that share a pin and make one call each.  The board offers    *)
(* single operations (src/espbridge/mod_onewire.cpp), each a request; what *)
(* a call has selected with one of them, another thread's reset undoes.    *)
(*                                                                         *)
(* A ROM has Bits bits; those in Roms have the right CRC8.                 *)
(***************************************************************************)
EXTENDS Naturals, Sequences, SequencesExt

CONSTANTS
  Threads,
  Searchers,  \* those of them that may search
  Bits,       \* 64
  Roms,       \* the ROMs whose crc8() is 0
  Faults      \* bound of the model: bits misread, devices unplugged

VARIABLES
  host,    \* the threads' calls
  board,   \* the bus: devices, which of them listen, and for what
  wire     \* a line that is stuck low, faults left

vars == <<host, board, wire>>

Word == [1 .. Bits -> {0, 1}]
Blank == [i \in 1 .. Bits |-> 0]
Modes == {"none", "rom", "search", "function", "scratchpad"}
SearchPCs == {"reset", "command", "bit", "judge"}
ReadPCs == {"reset", "match", "convert", "reset2", "match2", "ask", "read"}

Idle == [op |-> "none", pc |-> "idle", rom |-> Blank, bit |-> 1, last |-> 0, disc |-> 0,
         found |-> <<>>, fresh |-> FALSE, upset |-> FALSE, got |-> {}]

TypeOK ==
  /\ \A t \in Threads :
       /\ host[t].pc \in {"idle", "done", "raised"} \cup SearchPCs \cup ReadPCs
       /\ host[t].rom \in Word /\ host[t].bit \in 1 .. Bits + 1
       /\ {host[t].last, host[t].disc} \subseteq 0 .. Bits
       /\ host[t].found \in Seq(Roms)
  /\ board.devices \subseteq Roms /\ board.sel \subseteq board.devices
  /\ board.mode \in Modes /\ board.pos \in 1 .. Bits + 1
  /\ wire.faults \in 0 .. Faults

Init ==
  /\ host = [t \in Threads |-> Idle]
  /\ \E devices \in SUBSET Roms :
       board = [devices |-> devices, sel |-> {}, mode |-> "none", pos |-> 1]
  /\ wire \in [stuck : BOOLEAN, faults : {Faults}]

Call(t, c) == [host EXCEPT ![t] = c]
Go(t, pc)  == Call(t, [host[t] EXCEPT !.pc = pc])
At(t, op, pcs) == host[t].op = op /\ host[t].pc \in pcs
Over == {"idle", "done", "raised"}

\* A call that overlaps another one on the pin.
Start(t, c) ==
  LET busy == \E u \in Threads \ {t} : host[u].pc \notin Over IN
  host' = [u \in Threads |-> IF u = t THEN [c EXCEPT !.upset = busy]
                             ELSE [host[u] EXCEPT !.upset = @ \/ host[u].pc \notin Over]]

----------------------------------------------------------------------------
(* The bus operations of the board *)

\* ow_reset(): every device listens for a ROM command; presence is a line that is low.
Reset == board' = [board EXCEPT !.sel = @ \cup board.devices, !.mode = "rom", !.pos = 1]
Present == wire.stuck \/ board.devices # {}

\* What devices make of bytes they did not wait for.
Lost == [board EXCEPT !.sel = {}, !.mode = "none"]

WriteSearch == board' = IF board.mode = "rom" THEN [board EXCEPT !.mode = "search"] ELSE Lost
WriteMatch(rom) ==
  board' = IF board.mode = "rom" THEN [board EXCEPT !.sel = @ \cap {rom}, !.mode = "function"]
           ELSE Lost
Addressed == board.mode = "function"

\* OW_TRIPLET: two bits of the devices that still match, their AND and the AND of their
\* complements; the way that is taken is written, and others drop out.
LineOf(value) == IF wire.stuck THEN 0
               ELSE IF \E d \in board.sel : board.mode = "search" /\ board.pos <= Bits
                                               /\ d[board.pos] # value THEN 0 ELSE 1
Taken(id, cmp, hint) == IF id # cmp THEN id ELSE IF id = 1 THEN 1 ELSE hint
Matching(taken) ==
  IF board.mode = "search" /\ board.pos <= Bits
  THEN [board EXCEPT !.sel = {d \in @ : d[board.pos] = taken}, !.pos = @ + 1]
  ELSE Lost

----------------------------------------------------------------------------
(* search() *)

SearchStart(t) ==
  /\ t \in Searchers
  /\ host[t].pc = "idle"
  /\ Start(t, [Idle EXCEPT !.op = "search", !.pc = "reset"])
  /\ UNCHANGED <<board, wire>>

SearchReset(t) ==
  /\ At(t, "search", {"reset"})
  /\ host' = Go(t, IF Present THEN "command" ELSE "done")
  /\ Reset /\ UNCHANGED wire

SearchCommand(t) ==
  /\ At(t, "search", {"command"})
  /\ host' = Call(t, [host[t] EXCEPT !.pc = "bit", !.bit = 1, !.disc = 0])
  /\ WriteSearch /\ UNCHANGED wire

\* Deliberately wrong (mutation of Hint): the last fork is taken the old way again.
HintOldWay(c) == IF c.bit <= c.last THEN c.rom[c.bit] ELSE 0

\* The old way up to the last fork, the other way there, 0 from then on.
Hint(c) == IF c.bit < c.last THEN c.rom[c.bit] ELSE IF c.bit = c.last THEN 1 ELSE 0

\* One bit of the search, misread or not; both bits 1 ends it.
SearchBit(t) ==
  /\ At(t, "search", {"bit"})
  /\ \E noise \in {0, 1} :
       /\ noise <= wire.faults
       /\ wire' = [wire EXCEPT !.faults = @ - noise]
       /\ LET c     == host[t]
              id    == IF noise = 1 THEN 1 - LineOf(1) ELSE LineOf(1)
              cmp   == LineOf(0)
              taken == Taken(id, cmp, Hint(c))
          IN IF id = 1 /\ cmp = 1
             THEN /\ host' = Call(t, [c EXCEPT !.pc = "done", !.upset = @ \/ noise = 1])
                  /\ board' = IF board.mode = "search" THEN board ELSE Lost
             ELSE /\ host' = Call(t, [c EXCEPT
                       !.disc = IF id = 0 /\ cmp = 0 /\ taken = 0 THEN c.bit ELSE @,
                       !.rom[c.bit] = taken, !.bit = @ + 1, !.upset = @ \/ noise = 1,
                       !.pc = IF c.bit = Bits THEN "judge" ELSE "bit"])
                  /\ board' = Matching(taken)

\* A ROM with the right CRC is kept; no fork left ends the search.  What an upset search
\* finds is not recorded: it may go round for ever.
SearchJudge(t) ==
  /\ At(t, "search", {"judge"})
  /\ LET c == host[t] IN
     host' = Call(t, [c EXCEPT !.found = IF c.rom \in Roms /\ ~c.upset
                                          THEN Append(@, c.rom) ELSE @,
                               !.last = c.disc,
                               !.pc = IF c.disc = 0 THEN "done" ELSE "reset"])
  /\ UNCHANGED <<board, wire>>

----------------------------------------------------------------------------
(* DS18B20.read() *)

ReadStart(t, rom) ==
  /\ host[t].pc = "idle"
  /\ Start(t, [Idle EXCEPT !.op = "read", !.pc = "reset", !.rom = rom])
  /\ UNCHANGED <<board, wire>>

\* select(), before the conversion and again after it: without presence it raises.
ReadReset(t) ==
  /\ At(t, "read", {"reset", "reset2"})
  /\ host' = Go(t, IF ~Present THEN "raised"
                   ELSE IF host[t].pc = "reset" THEN "match" ELSE "match2")
  /\ Reset /\ UNCHANGED wire

ReadMatch(t) ==
  /\ At(t, "read", {"match", "match2"})
  /\ host' = Go(t, IF host[t].pc = "match" THEN "convert" ELSE "ask")
  /\ WriteMatch(host[t].rom) /\ UNCHANGED wire

\* Deliberately wrong (mutation of Convert): the device is not addressed again.
ConvertOnce(t) ==
  /\ At(t, "read", {"convert"})
  /\ host' = [u \in Threads |->
       [host[u] EXCEPT !.pc = IF u = t THEN "ask" ELSE @,
                       !.fresh = @ \/ (Addressed /\ host[u].op = "read" /\ host[u].rom \in board.sel)]]
  /\ board' = Lost
  /\ UNCHANGED wire

\* CONVERT_T, and the wait for it.
Convert(t) ==
  /\ At(t, "read", {"convert"})
  /\ host' = [u \in Threads |->
       [host[u] EXCEPT !.pc = IF u = t THEN "reset2" ELSE @,
                       !.fresh = @ \/ (Addressed /\ host[u].op = "read" /\ host[u].rom \in board.sel)]]
  /\ board' = Lost
  /\ UNCHANGED wire

Ask(t) ==
  /\ At(t, "read", {"ask"})
  /\ host' = Go(t, "read")
  /\ board' = IF Addressed THEN [board EXCEPT !.mode = "scratchpad"] ELSE Lost
  /\ UNCHANGED wire

\* The scratchpad passes its CRC if one device sent it; all zeros, from a line that is
\* stuck low, do so too.
Read(t) ==
  /\ At(t, "read", {"read"})
  /\ LET senders == IF board.mode = "scratchpad" THEN board.sel ELSE {}
         valid   == wire.stuck \/ \E d \in senders : senders = {d}
     IN host' = Call(t, [host[t] EXCEPT !.pc = IF valid THEN "done" ELSE "raised",
                                        !.got = IF wire.stuck THEN {} ELSE senders])
  /\ board' = Lost
  /\ UNCHANGED wire

\* A device leaves the bus under a call.
Unplug ==
  /\ wire.faults > 0
  /\ \E d \in board.devices :
       board' = [board EXCEPT !.devices = @ \ {d}, !.sel = @ \ {d}]
  /\ wire' = [wire EXCEPT !.faults = @ - 1]
  /\ host' = [t \in Threads |-> [host[t] EXCEPT !.upset = @ \/ host[t].pc # "idle"]]

Next ==
  \/ \E t \in Threads :
       \/ SearchStart(t) \/ SearchReset(t) \/ SearchCommand(t) \/ SearchBit(t) \/ SearchJudge(t)
       \/ \E rom \in Roms : ReadStart(t, rom)
       \/ ReadReset(t) \/ ReadMatch(t) \/ Convert(t) \/ Ask(t) \/ Read(t)
  \/ Unplug
  \/ (\A t \in Threads : host[t].pc \in {"done", "raised"}) /\ UNCHANGED vars

----------------------------------------------------------------------------

(***************************************************************************)
(* search() finds every device on the bus, and each once, unless a bit was *)
(* misread, a device left, another call ran on the pin, or the line is     *)
(* stuck low (which reads as a bus with every ROM there is).               *)
(***************************************************************************)
SearchFindsAll ==
  \A t \in Threads :
    host[t].op = "search" /\ ~host[t].upset /\ ~wire.stuck =>
      /\ IsInjective(host[t].found)
      /\ host[t].pc = "done" => ToSet(host[t].found) = board.devices

(***************************************************************************)
(* DS18B20.read() returns the temperature its own probe measured for it:   *)
(* no other probe's, and no conversion from before the call, unless        *)
(* another call ran on the pin or the line is stuck low.                   *)
(***************************************************************************)
OwnReading ==
  \A t \in Threads :
    /\ At(t, "read", {"done"}) /\ ~host[t].upset /\ ~wire.stuck =>
         host[t].got = {host[t].rom} /\ host[t].fresh
    /\ At(t, "read", {"raised"}) /\ ~host[t].upset => host[t].rom \notin board.devices
=============================================================================
