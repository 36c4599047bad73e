------------------------------ MODULE CobsCodec ------------------------------
(***************************************************************************)
(* The framing of the link: cobs_encode(), cobs_decode() and FrameSplitter *)
(* of python/espbridge/protocol.py.  A behaviour encodes two frames and a  *)
(* third, sends them with their delimiters in pieces, possibly with a      *)
(* byte lost or turned into a delimiter, and splits and decodes what came. *)
(* A full block has 0xFF for its code, and 254 bytes; Full scales it down. *)
(***************************************************************************)
EXTENDS Naturals, Sequences, SequencesExt

CONSTANTS
  Full,    \* code of a full block: 255 in the code
  Length,  \* bound of the model: bytes of a frame
  Piece,   \* bound of the model: bytes that a read returns
  Faults   \* bound of the model: bytes lost or spoilt

VARIABLES
  host,    \* FrameSplitter._buf, the frames decoded so far
  board,   \* the two frames that were sent
  wire     \* bytes on their way

vars == <<host, board, wire>>

Bytes == {0, 1}
Failed == <<256>>   \* no byte
Probe == <<1>>      \* the frame that follows
Frames == UNION {[1 .. n -> Bytes] : n \in 1 .. Length}

\* A code byte counts itself and the bytes up to the next zero.
Close(e) == [out |-> e.out \o <<Len(e.block) + 1>> \o e.block, block |-> <<>>]
Put(e, b) == [e EXCEPT !.block = Append(@, b)]

\* Deliberately wrong (mutation of Encode): a full block is not closed before the zero after it.
EncodeLate(data) ==
  LET step(e, b) == IF b = 0 THEN Close(e)
                    ELSE IF Len(e.block) + 1 = Full THEN Put(Close(e), b) ELSE Put(e, b)
  IN Close(FoldLeft(step, [out |-> <<>>, block |-> <<>>], data)).out

\* cobs_encode(): a block is closed by a zero, or when it is full.
Encode(data) ==
  LET step(e, b) == IF b = 0 THEN Close(e)
                    ELSE IF Len(e.block) + 2 = Full THEN Close(Put(e, b)) ELSE Put(e, b)
  IN Close(FoldLeft(step, [out |-> <<>>, block |-> <<>>], data)).out

\* cobs_decode(): every block but the last and the full ones stands for its bytes and a zero.
Decode(data) ==
  LET n == Len(data)
      from[i \in 1 .. (n + 1)] ==
        IF i > n THEN <<>>
        ELSE LET end == i + data[i]     \* the next block's code
             IN IF data[i] = 0 \/ end > n + 1 \/ from[end] = Failed THEN Failed
                ELSE SubSeq(data, i + 1, end - 1)
                       \o (IF data[i] # Full /\ end <= n THEN <<0>> ELSE <<>>)
                       \o from[end]
  IN from[1]

Init ==
  /\ host = [buf |-> <<>>, frames |-> <<>>]
  /\ \E a, b \in Frames :
       /\ board = [sent |-> <<a, b, Probe>>]
       /\ wire = [bytes |-> Encode(a) \o <<0>> \o Encode(b) \o <<0>> \o Encode(Probe) \o <<0>>,
                  faults |-> Faults]

TypeOK ==
  /\ host.buf \in Seq(0 .. Full) /\ Len(host.frames) <= 5
  /\ wire.bytes \in Seq(0 .. Full) /\ wire.faults \in 0 .. Faults

----------------------------------------------------------------------------

\* Deliberately wrong (mutation of Split): the delimiter is only looked for in what is new.
SplitNew(buf, new) ==
  LET ends == {i \in DOMAIN new : new[i] = 0} IN
  IF ends = {} THEN [buf |-> buf \o new, chunks |-> <<>>]
  ELSE LET i == CHOOSE i \in ends : \A j \in ends : i <= j
       IN [buf |-> SubSeq(new, i + 1, Len(new)), chunks |-> <<buf \o SubSeq(new, 1, i - 1)>>]

\* FrameSplitter.feed(): what lies between delimiters, where there is something; the rest
\* stays for the next time.
Split(buf, new) ==
  LET parts == FoldLeft(LAMBDA s, b :
                 IF b # 0 THEN [s EXCEPT !.buf = Append(@, b)]
                 ELSE [buf |-> <<>>, chunks |-> IF s.buf = <<>> THEN s.chunks
                                                ELSE Append(s.chunks, s.buf)],
                 [buf |-> buf, chunks |-> <<>>], new)
  IN parts

\* A read of the transport: the next n bytes.  What does not decode is dropped; so is, by
\* its CRC, what is not a frame that was sent.
Read(n) ==
  /\ n <= Len(wire.bytes)
  /\ LET s    == Split(host.buf, SubSeq(wire.bytes, 1, n))
         good == SelectSeq([i \in DOMAIN s.chunks |-> Decode(s.chunks[i])],
                           LAMBDA f : f # Failed /\ f \in Range(board.sent))
     IN host' = [buf |-> s.buf, frames |-> host.frames \o good]
  /\ wire' = [wire EXCEPT !.bytes = SubSeq(@, n + 1, Len(@))]
  /\ UNCHANGED board

\* Noise: the next byte is lost, or arrives as a delimiter.
Spoil ==
  /\ wire.faults > 0 /\ wire.bytes # <<>>
  /\ wire' \in {[bytes |-> Tail(wire.bytes), faults |-> wire.faults - 1],
                [bytes |-> <<0>> \o Tail(wire.bytes), faults |-> wire.faults - 1]}
  /\ UNCHANGED <<host, board>>

Next == Spoil \/ \E n \in 1 .. Piece : Read(n)

----------------------------------------------------------------------------

(***************************************************************************)
(* An encoded frame has no delimiter inside and decodes to what was        *)
(* encoded, also where a full block meets a zero or the frame's end        *)
(* (cobs_encode, cobs_decode).                                             *)
(***************************************************************************)
RoundTrip ==
  \A i \in DOMAIN board.sent :
    LET e == Encode(board.sent[i]) IN
    /\ \A k \in DOMAIN e : e[k] \in 1 .. Full
    /\ Decode(e) = board.sent[i]

(***************************************************************************)
(* However the stream is cut into reads, the frames come out as they were  *)
(* sent, in their order; noise costs at most the two frames whose border   *)
(* it hides, and the splitter is in step again at the next delimiter       *)
(* (FrameSplitter.feed, decode_frame).                                     *)
(***************************************************************************)
FramesSurvive ==
  wire.bytes = <<>> =>
    /\ wire.faults = Faults => host.frames = board.sent
    /\ wire.faults = Faults - 1 => Len(host.frames) >= Len(board.sent) - 2
    /\ host.buf # <<>> => wire.faults < Faults
=============================================================================
