----------------------------- MODULE BoardSearch -----------------------------
(***************************************************************************)
(* Bridge(): which board the constructor ends up on                        *)
(* (python/espbridge/bridge.py, transports/ble.py, transports/tcp.py).     *)
(* Candidates are enumerated one link family at a time, best link first,   *)
(* and each is opened, authenticated, handshaked and asked who it is.      *)
(*                                                                         *)
(* An advertisement carries one identity, and not always a current one: a  *)
(* board that was renamed advertises its old identity until it resets.     *)
(***************************************************************************)
EXTENDS Naturals, FiniteSets

CONSTANTS
  Boards,  \* the boards, each standing for its MAC
  Names,   \* the names a board can be given
  Faults   \* bound of the model: attempts that go wrong for no reason of ours

VARIABLES
  host,    \* the constructor: what was asked, where it is, what it holds
  board,   \* every board: its links, its stored name, what it advertises
  wire     \* a stranger on a serial port, the host's radio, faults left

vars == <<host, board, wire>>

Nobody   == "nobody"     \* no identity asked for, no candidate, no name
Stranger == "stranger"   \* a serial port with some other device behind it
Links    == {"usb", "ble", "lan"}
Pins     == {"any", "port", "host"} \cup Links   \* the transport keywords

Candidate == [link : Links, who : Boards \cup {Stranger}]
None == [link |-> "usb", who |-> Nobody]
PCs  == {"list", "next", "open", "auth", "shake", "match", "upgrade", "online", "raised"}

TypeOK ==
  /\ host.pc \in PCs /\ host.pin \in Pins /\ host.left \subseteq Candidate
  /\ host.hand \in Candidate \cup {None} /\ host.families \in SUBSET Links
  /\ host.open \subseteq Candidate /\ host.found \in BOOLEAN
  /\ host.error \in {"", "NoDevice", "Attempt", "Other"}
  /\ wire.faults \in 0 .. Faults

\* _is(): a name, or a MAC however it was punctuated.
Is(target, name, mac) == target = mac \/ (target = name /\ name # Nobody)

\* What a link publishes of a board before it is connected: BleDeviceInfo has the one
\* identity of the advertisement, WifiDeviceInfo both, a serial port neither.
Published(c) ==
  CASE c.link = "ble" -> {board[c.who].advert}
    [] c.link = "lan" -> {board[c.who].name, c.who}
    [] OTHER -> {}

\* _wanted(): an advertised or discovered board matches the target.
Wanted(want, c) == want = Nobody \/ want \in Published(c)

Attached(link) == {[link |-> link, who |-> b] : b \in {x \in Boards : link \in board[x].links}}

\* The link families that the keywords leave to search.
Families(pin) == IF pin = "any" THEN Links ELSE {pin}

Init ==
  /\ board \in [Boards -> [links : SUBSET Links, name : Names \cup {Nobody},
                           advert : Names \cup Boards]]
  \* An advertised MAC is the board's own; one link of each board is enough.
  /\ \A b \in Boards : /\ board[b].advert \in Names \cup {b}
                       /\ Cardinality(board[b].links) <= 1
                       /\ "ble" \in board[b].links \/ board[b].advert = b
  /\ wire \in [stranger : BOOLEAN, radio : BOOLEAN, faults : {Faults}]
  /\ \E pin \in Pins, want \in Boards \cup Names \cup {Nobody} :
       host = [pin |-> pin, want |-> want, pc |-> "list", left |-> {}, hand |-> None,
               families |-> IF pin \in {"port", "host"} THEN {} ELSE Families(pin),
               open |-> {}, found |-> FALSE, error |-> ""]

----------------------------------------------------------------------------
(* _candidates(), resumed whenever the constructor wants another one *)

Ports == Attached("usb")
           \cup {[link |-> "usb", who |-> Stranger] : s \in {wire.stranger} \cap {TRUE}}

Listed(family, cands) ==
  host' = [host EXCEPT !.pc = "next", !.families = @ \ {family}, !.left = cands,
                       !.found = @ \/ cands # {}]

Raised(kind) == [host EXCEPT !.pc = "raised", !.error = kind, !.hand = None, !.open = {}]

\* An explicit port or address is one candidate, whatever it turns out to be.
ListPinned ==
  /\ host.pc = "list" /\ host.pin \in {"port", "host"} /\ ~host.found
  /\ \E c \in IF host.pin = "port" THEN Ports ELSE Attached("lan") :
       host' = [host EXCEPT !.pc = "next", !.left = {c}, !.found = TRUE]
  /\ UNCHANGED <<board, wire>>

ListPorts ==
  /\ host.pc = "list" /\ "usb" \in host.families
  /\ Listed("usb", Ports)
  /\ UNCHANGED <<board, wire>>

\* Deliberately wrong (mutation of ListBle): only the fast scan is believed.
ListBleFastOnly ==
  /\ host.pc = "list" /\ "ble" \in host.families /\ "usb" \notin host.families
  /\ Listed("ble", {c \in Attached("ble") : wire.radio /\ Wanted(host.want, c)})
  /\ UNCHANGED <<board, wire>>

\* The fast scan answers if an advertisement matches; otherwise every board in range
\* is handed over when somebody was asked for.  Nobody there, or no radio, is the end
\* only if Bluetooth was pinned.
ListBle ==
  /\ host.pc = "list" /\ "ble" \in host.families /\ "usb" \notin host.families
  /\ LET inRange == IF wire.radio THEN Attached("ble") ELSE {}
         fast    == {c \in inRange : Wanted(host.want, c)}
         cands   == IF fast # {} THEN fast ELSE inRange
     IN IF cands = {} /\ host.pin = "ble" THEN host' = Raised("NoDevice")
        ELSE Listed("ble", cands)
  /\ UNCHANGED <<board, wire>>

\* The LAN is asked when it is pinned, or when no candidate has turned up.
ListLan ==
  /\ host.pc = "list" /\ host.families = {"lan"}
  /\ host.pin = "lan" \/ ~host.found
  /\ Listed("lan", {c \in Attached("lan") : Wanted(host.want, c)})
  /\ UNCHANGED <<board, wire>>

\* The enumeration is exhausted: nothing matched.
Exhausted ==
  /\ host.pc = "list"
  /\ host.families = {} \/ (host.families = {"lan"} /\ host.pin = "any" /\ host.found)
  /\ host.found \/ host.pin \notin {"port", "host"}
  /\ host' = Raised("NoDevice")
  /\ UNCHANGED <<board, wire>>

----------------------------------------------------------------------------
(* One candidate *)

Probing == host.pin \notin {"port", "host"}
Wireless(c) == c.link # "usb"

Fault == wire.faults > 0 /\ wire' = [wire EXCEPT !.faults = @ - 1]

\* self.close(), and on to the next candidate.
Dropped == [host EXCEPT !.pc = "next", !.hand = None, !.open = @ \ {host.hand}]

\* BridgeTimeoutError, ProtocolError, AuthError: a dud while probing.
Fails == host' = IF Probing THEN Dropped ELSE Raised("Attempt")

\* Any other exception leaves the constructor, after close().
Escapes == host' = Raised("Other")

Take ==
  /\ host.pc = "next"
  /\ \/ /\ host.left = {}
        /\ host' = [host EXCEPT !.pc = "list"]
     \/ \E c \in host.left :
          host' = [host EXCEPT !.pc = "open", !.left = @ \ {c}, !.hand = c]
  /\ UNCHANGED <<board, wire>>

\* factory(): the one step whose every exception is swallowed.
OpenLink ==
  /\ host.pc = "open"
  /\ \/ /\ host' = [host EXCEPT !.pc = IF Wireless(host.hand) THEN "auth" ELSE "shake",
                                !.open = @ \cup {host.hand}]
        /\ UNCHANGED wire
     \/ Fault /\ host' = [host EXCEPT !.pc = "next", !.hand = None]
  /\ UNCHANGED board

\* SYS_AUTH: accepted; denied or not answered; or the link is lost under the write.
Auth ==
  /\ host.pc = "auth"
  /\ \/ host' = [host EXCEPT !.pc = "shake"] /\ UNCHANGED wire
     \/ Fault /\ Fails
     \/ Fault /\ Escapes
  /\ UNCHANGED board

\* _handshake(): another device never answers.
Shake ==
  /\ host.pc = "shake"
  /\ \/ host.hand.who # Stranger /\ UNCHANGED wire
        /\ host' = [host EXCEPT !.pc = "match"]
     \/ host.hand.who = Stranger /\ UNCHANGED wire /\ Fails
     \/ Fault /\ Fails
     \/ Fault /\ Escapes
  /\ UNCHANGED board

\* Deliberately wrong (mutation of Match): the advertisement is taken at its word.
MatchAdvert ==
  /\ host.pc = "match"
  /\ LET b == host.hand.who IN
     host' = IF Is(host.want, board[b].name, b) \/ Wanted(host.want, host.hand)
             THEN [host EXCEPT !.pc = "upgrade"] ELSE Dropped
  /\ UNCHANGED <<board, wire>>

\* SYS_INFO is the board answering for itself; one that does not match is closed.
Match ==
  /\ host.pc = "match"
  /\ LET b == host.hand.who IN
     host' = IF host.want = Nobody \/ Is(host.want, board[b].name, b)
             THEN [host EXCEPT !.pc = "upgrade"] ELSE Dropped
  /\ UNCHANGED <<board, wire>>

\* The baud ladder of a serial board can fail like the handshake.
Upgrade ==
  /\ host.pc = "upgrade"
  /\ \/ host' = [host EXCEPT !.pc = "online"] /\ UNCHANGED wire
     \/ ~Wireless(host.hand) /\ Fault /\ Fails
  /\ UNCHANGED board

Finished == host.pc \in {"online", "raised"} /\ UNCHANGED vars

\* A port or an address with nothing behind it cannot be opened.
NothingThere ==
  /\ host.pc = "list" /\ ~Probing /\ ~host.found
  /\ (IF host.pin = "port" THEN Ports ELSE Attached("lan")) = {}
  /\ host' = Raised("NoDevice")
  /\ UNCHANGED <<board, wire>>

Next == \/ ListPinned \/ ListPorts \/ ListBle \/ ListLan \/ Exhausted \/ NothingThere
        \/ Take \/ OpenLink \/ Auth \/ Shake \/ Match \/ Upgrade \/ Finished

Spec == Init /\ [][Next]_vars

----------------------------------------------------------------------------

(***************************************************************************)
(* The Bridge that is handed out is on a board that was asked for, over a  *)
(* link that was asked for, whatever the board advertised, and it is the   *)
(* only connection that the search has left open; a search that raised has *)
(* left none.                                                              *)
(***************************************************************************)
RightBoardOnly ==
  /\ host.pc = "online" =>
       /\ host.want # Nobody => Is(host.want, board[host.hand.who].name, host.hand.who)
       /\ host.hand.link \in
            CASE host.pin = "port" -> {"usb"} [] host.pin = "host" -> {"lan"}
              [] OTHER -> Families(host.pin)
  /\ host.open \subseteq {host.hand}

(***************************************************************************)
(* A search that found nobody has missed nobody: with nothing going wrong, *)
(* every matching board within the links asked for is named by none of     *)
(* them, hidden behind another board's out-of-date advertisement, or on    *)
(* the LAN, which is not asked once any candidate turned up.               *)
(***************************************************************************)
NobodyMissed ==
  host.error = "NoDevice" /\ wire.faults = Faults /\ Probing =>
    \A b \in Boards : \A link \in board[b].links \cap Families(host.pin) :
      \/ host.want # Nobody /\ ~Is(host.want, board[b].name, b)
      \/ link = "ble" /\ \/ ~wire.radio
                         \/ \E x \in Boards \ {b} : board[x].advert = host.want
      \/ link = "lan" /\ host.pin = "any" /\ host.found

(***************************************************************************)
(* While probing, "a dud is just the wrong guess -- try the next one"      *)
(* (bridge.py:446-448): the search ends on a board or with NoDeviceError.  *)
(***************************************************************************)
DudIsSkipped == host.pc = "raised" /\ Probing => host.error = "NoDevice"
=============================================================================
