---------------------------- MODULE HostLinks_proofs ----------------------------
(***************************************************************************)
(* How a program comes to its boards and what holds its links to them, for *)
(* any boards, names, rates, threads, sessions and faults.                 *)
(*                                                                         *)
(* Of the search the invariant says where a board that matches can be: in  *)
(* a family still to be listed, among the candidates, in hand, or hidden   *)
(* by an advertisement.  Of the rate it says where each end of the link is *)
(* at every point of the program, and which lost frame excuses a board     *)
(* that is left at another rate than its boot rate.                        *)
(*                                                                         *)
(* Of a set it says that an open link is a member or in hand; of an        *)
(* AsyncBridge which sessions are open while one task changes them, and    *)
(* where the events of a stream are; of the Bluetooth transport which      *)
(* coroutine runs and what the board has of its frame; of the MCP server   *)
(* what each call has of the manager: the lock, a link, a port.            *)
(***************************************************************************)
EXTENDS HostLinks, SequenceTheorems, FiniteSetTheorems, TLAPS

-----------------------------------------------------------------------------
(* The search for a board *)

\* The links that the keywords of Bridge() leave.
Allowed(h) ==
  CASE h.pin = "port" -> {"usb"} [] h.pin = "host" -> {"lan"} [] OTHER -> Search!Families(h.pin)

Serving == {"open", "auth", "shake", "match", "upgrade", "online"}

SearchHosts ==
  [pin : Search!Pins, want : Boards \cup Names \cup {Search!Nobody}, pc : Search!PCs,
   left : SUBSET Search!Candidate, hand : Search!Candidate \cup {Search!None},
   families : SUBSET Search!Links, open : SUBSET Search!Candidate, found : BOOLEAN,
   error : {"", "NoDevice", "Attempt", "Other"}]
SearchBoards ==
  [Boards -> [links : SUBSET Search!Links, name : Names \cup {Search!Nobody},
              advert : Names \cup Boards]]
SearchWires == [stranger : BOOLEAN, radio : BOOLEAN, faults : Nat]

SearchShape(h, b, w) ==
  /\ h \in SearchHosts /\ b \in SearchBoards /\ w \in SearchWires
  /\ w.faults <= Faults
  /\ h.error = "" <=> h.pc # "raised"

\* Only links that were asked for are listed, and one is open at most: the one in hand.
OneInHand(h) ==
  /\ h.families \subseteq Allowed(h)
  /\ \A c \in h.left : c.link \in Allowed(h)
  /\ h.pc \in Serving => h.hand \in Search!Candidate /\ h.hand.link \in Allowed(h)
  /\ h.open \subseteq {h.hand}
  /\ h.pc \in {"list", "next", "open", "raised"} => h.open = {}
  /\ h.pc = "list" => h.left = {}

\* From SYS_INFO on it is a board, and after it the right one.
KnownInHand(h, b) ==
  /\ h.pc \in {"match", "upgrade", "online"} => h.hand.who # Search!Stranger
  /\ h.pc \in {"upgrade", "online"} /\ h.want # Search!Nobody =>
       Search!Is(h.want, b[h.hand.who].name, h.hand.who)

\* A board that matches, over a link that was asked for.
Matches(h, b, x, link) ==
  /\ link \in b[x].links \cap Search!Families(h.pin)
  /\ h.want = Search!Nobody \/ Search!Is(h.want, b[x].name, x)

\* Bluetooth cannot see it, or takes another for it.
Hidden(h, b, w, x, link) ==
  link = "ble" /\ (~w.radio \/ \E y \in Boards \ {x} : b[y].advert = h.want)

\* It is still to be found, or found.
Ahead(h, x, link) ==
  \/ link \in h.families
  \/ [link |-> link, who |-> x] \in h.left
  \/ h.pc \in Serving /\ h.hand = [link |-> link, who |-> x]

IsProbing(h) == h.pin \notin {"port", "host"}

NotMissed(h, b, w) ==
  w.faults = Faults /\ IsProbing(h) /\ h.pc # "raised" =>
    \A x \in Boards, link \in Search!Links :
      Matches(h, b, x, link) => Ahead(h, x, link) \/ Hidden(h, b, w, x, link)

\* NobodyMissed, of a search that ended in vain.
Missed(h, b, w) ==
  h.error = "NoDevice" /\ w.faults = Faults /\ IsProbing(h) =>
    \A x \in Boards, link \in Search!Links :
      Matches(h, b, x, link) =>
        Hidden(h, b, w, x, link) \/ (link = "lan" /\ h.pin = "any" /\ h.found)

SearchSound(h, b, w) ==
  /\ SearchShape(h, b, w) /\ OneInHand(h) /\ KnownInHand(h, b)
  /\ NotMissed(h, b, w) /\ Missed(h, b, w)
SearchInv == SearchSound(host, board, wire)

LEMMA SearchMeans == SearchInv => Search!RightBoardOnly /\ Search!NobodyMissed
<1> SUFFICES ASSUME SearchInv PROVE Search!RightBoardOnly /\ Search!NobodyMissed
  OBVIOUS
<1>1. Search!RightBoardOnly
  BY DEF SearchInv, SearchSound, OneInHand, KnownInHand, Allowed, Serving, Search!RightBoardOnly
<1>2. ASSUME host.error = "NoDevice", wire.faults = Faults, Search!Probing,
             NEW b \in Boards, NEW link \in board[b].links \cap Search!Families(host.pin)
      PROVE  \/ host.want # Search!Nobody /\ ~Search!Is(host.want, board[b].name, b)
             \/ link = "ble" /\ \/ ~wire.radio
                                \/ \E x \in Boards \ {b} : board[x].advert = host.want
             \/ link = "lan" /\ host.pin = "any" /\ host.found
  <2>1. link \in Search!Links
    BY <1>2 DEF SearchInv, SearchSound, SearchShape, SearchBoards
  <2>2. Matches(host, board, b, link) =>
          Hidden(host, board, wire, b, link) \/ (link = "lan" /\ host.pin = "any" /\ host.found)
    BY <1>2, <2>1 DEF SearchInv, SearchSound, Missed, IsProbing, Search!Probing
  <2>3. QED  BY <1>2, <2>2 DEF Matches, Hidden
<1>3. QED  BY <1>1, <1>2 DEF Search!NobodyMissed

LEMMA SearchInit ==
  ASSUME Search!Init
  PROVE  SearchInv
<1>1. PICK pin \in Search!Pins, want \in Boards \cup Names \cup {Search!Nobody} :
        host = [pin |-> pin, want |-> want, pc |-> "list", left |-> {}, hand |-> Search!None,
                families |-> IF pin \in {"port", "host"} THEN {} ELSE Search!Families(pin),
                open |-> {}, found |-> FALSE, error |-> ""]
  BY DEF Search!Init
<1>2. /\ Search!Families(pin) \subseteq Search!Links \/ pin \in {"port", "host"}
      /\ host.families \subseteq Search!Links
  BY <1>1 DEF Search!Families, Search!Pins, Search!Links
<1>3. SearchShape(host, board, wire)
  <2>1. host \in SearchHosts
    BY <1>1, <1>2 DEF SearchHosts, Search!PCs
  <2>2. board \in SearchBoards
    BY DEF Search!Init, SearchBoards
  <2>3. wire \in SearchWires /\ wire.faults <= Faults
    <3>1. wire \in [stranger : BOOLEAN, radio : BOOLEAN, faults : {Faults}]
      BY DEF Search!Init
    <3>2. QED  BY <3>1, PartsAssumption DEF SearchWires
  <2>4. QED  BY <1>1, <2>1, <2>2, <2>3 DEF SearchShape
<1>4. OneInHand(host)
  BY <1>1 DEF OneInHand, Allowed, Serving
<1>5. KnownInHand(host, board) /\ Missed(host, board, wire)
  BY <1>1 DEF KnownInHand, Missed
<1>6. NotMissed(host, board, wire)
  BY <1>1 DEF NotMissed, Matches, Ahead, IsProbing
<1>7. QED  BY <1>3, <1>4, <1>5, <1>6 DEF SearchInv, SearchSound

\* No candidate is in hand, and none of the others was ever there.
LEMMA Wanting ==
  /\ Search!Nobody \notin Boards /\ Search!Nobody \notin Names /\ Search!Stranger \notin Boards
  BY HostAssumption

\* A step that raises: there is nothing more to say but of a NoDeviceError.
LEMMA Raises ==
  ASSUME SearchInv, NEW kind \in {"NoDevice", "Attempt", "Other"}, host' = Search!Raised(kind),
         board' = board, wire' \in SearchWires, wire'.faults <= wire.faults,
         kind = "NoDevice" => Missed(host', board', wire')
  PROVE  SearchInv'
<1>1. /\ host \in SearchHosts /\ board \in SearchBoards /\ wire \in SearchWires
      /\ wire.faults <= Faults
  BY DEF SearchInv, SearchSound, SearchShape
<1>2. /\ host' \in SearchHosts /\ host'.pc = "raised" /\ host'.error = kind /\ host'.open = {}
      /\ host'.pin = host.pin /\ host'.families = host.families /\ host'.left = host.left
  BY <1>1 DEF Search!Raised, SearchHosts, Search!PCs
<1>3. SearchShape(host', board', wire')
  <2>1. wire.faults \in Nat /\ wire'.faults \in Nat /\ Faults \in Nat
    BY <1>1, PartsAssumption DEF SearchWires
  <2>2. wire'.faults <= Faults
    BY <1>1, <2>1
  <2>3. QED  BY <1>1, <1>2, <2>2 DEF SearchShape
<1>4. OneInHand(host')
  BY <1>2 DEF SearchInv, SearchSound, OneInHand, Allowed, Serving
<1>5. KnownInHand(host', board') /\ NotMissed(host', board', wire')
  BY <1>2 DEF KnownInHand, NotMissed
<1>6. Missed(host', board', wire')
  BY <1>2 DEF Missed
<1>7. QED  BY <1>3, <1>4, <1>5, <1>6 DEF SearchInv, SearchSound

\* One family is listed.
LEMMA Lists ==
  ASSUME SearchInv, host.pc = "list", NEW link \in Search!Links, link \in host.families,
         NEW cands \in SUBSET Search!Candidate, \A c \in cands : c.link = link,
         Search!Listed(link, cands), UNCHANGED <<board, wire>>,
         \A x \in Boards : IsProbing(host) /\ Matches(host, board, x, link) =>
           [link |-> link, who |-> x] \in cands \/ Hidden(host, board, wire, x, link)
  PROVE  SearchInv'
<1>1. /\ host \in SearchHosts /\ board \in SearchBoards /\ wire \in SearchWires
      /\ host.error = "" /\ host.open = {} /\ host.left = {}
      /\ OneInHand(host) /\ SearchShape(host, board, wire) /\ NotMissed(host, board, wire)
  BY DEF SearchInv, SearchSound, SearchShape, OneInHand
<1>2. /\ host' \in SearchHosts /\ host'.pc = "next" /\ host'.error = "" /\ host'.open = {}
      /\ host'.pin = host.pin /\ host'.families = host.families \ {link} /\ host'.left = cands
      /\ host'.want = host.want
  BY <1>1 DEF Search!Listed, SearchHosts, Search!PCs
<1>3. SearchShape(host', board', wire')
  BY <1>1, <1>2 DEF SearchShape
<1>4. OneInHand(host')
  BY <1>1, <1>2 DEF OneInHand, Allowed, Serving
<1>5. KnownInHand(host', board') /\ Missed(host', board', wire')
  BY <1>2 DEF KnownInHand, Missed
<1>6. NotMissed(host', board', wire')
  <2> SUFFICES ASSUME wire.faults = Faults, IsProbing(host), NEW x \in Boards,
                      NEW l \in Search!Links, Matches(host, board, x, l)
               PROVE  Ahead(host', x, l) \/ Hidden(host', board', wire', x, l)
    BY <1>2 DEF NotMissed, IsProbing, Matches
  <2>1. CASE l = link
    BY <1>2, <2>1 DEF Ahead, Hidden
  <2>2. CASE l # link
    <3>1. Ahead(host, x, l) \/ Hidden(host, board, wire, x, l)
      BY <1>1 DEF NotMissed
    <3>2. QED  BY <1>1, <1>2, <2>2, <3>1 DEF Ahead, Hidden, Serving
  <2>3. QED  BY <2>1, <2>2
<1>7. QED  BY <1>3, <1>4, <1>5, <1>6 DEF SearchInv, SearchSound

LEMMA AttachedIs ==
  ASSUME NEW link \in Search!Links
  PROVE  /\ Search!Attached(link) \subseteq Search!Candidate
         /\ \A c \in Search!Attached(link) : c.link = link
         /\ \A x \in Boards : link \in board[x].links =>
              [link |-> link, who |-> x] \in Search!Attached(link)
         /\ Search!Ports \subseteq Search!Candidate
         /\ (\A c \in Search!Ports : c.link = "usb") /\ Search!Attached("usb") \subseteq Search!Ports
<1>1. "usb" \in Search!Links
  BY DEF Search!Links
<1>2. QED  BY <1>1 DEF Search!Attached, Search!Candidate, Search!Ports

LEMMA ListKeeps ==
  ASSUME SearchInv,
         Search!ListPinned \/ Search!ListPorts \/ Search!ListBle \/ Search!ListLan
           \/ Search!Exhausted \/ Search!NothingThere
  PROVE  SearchInv'
<1>1. /\ host \in SearchHosts /\ board \in SearchBoards /\ wire \in SearchWires
      /\ SearchShape(host, board, wire) /\ OneInHand(host) /\ NotMissed(host, board, wire)
      /\ host.pc = "list" /\ host.left = {}
      /\ {"usb", "ble", "lan"} = Search!Links
  BY DEF SearchInv, SearchSound, SearchShape, OneInHand, Search!Links, Search!ListPinned,
         Search!ListPorts, Search!ListBle, Search!ListLan, Search!Exhausted, Search!NothingThere
<1>2. ASSUME Search!ListPinned PROVE SearchInv'
  <2>1. PICK c \in IF host.pin = "port" THEN Search!Ports ELSE Search!Attached("lan") :
          host' = [host EXCEPT !.pc = "next", !.left = {c}, !.found = TRUE]
    BY <1>2 DEF Search!ListPinned
  <2>2. host.pin \in {"port", "host"} /\ UNCHANGED <<board, wire>>
    BY <1>2 DEF Search!ListPinned
  <2>3. c \in Search!Candidate /\ c.link \in Allowed(host)
    BY <1>1, <2>1, <2>2, AttachedIs DEF Allowed
  <2>4. /\ host' \in SearchHosts /\ host'.pc = "next" /\ host'.error = "" /\ host'.open = {}
        /\ host'.pin = host.pin /\ host'.families = host.families /\ host'.left = {c}
        /\ host'.want = host.want
    BY <1>1, <2>1, <2>3 DEF SearchHosts, Search!PCs, SearchShape, OneInHand
  <2>5. SearchShape(host', board', wire')
    BY <1>1, <2>2, <2>4 DEF SearchShape
  <2>6. OneInHand(host')
    BY <1>1, <2>3, <2>4 DEF OneInHand, Allowed, Serving
  <2>7. KnownInHand(host', board') /\ Missed(host', board', wire') /\ NotMissed(host', board', wire')
    BY <2>2, <2>4 DEF KnownInHand, Missed, NotMissed, IsProbing
  <2>8. QED  BY <2>5, <2>6, <2>7 DEF SearchInv, SearchSound
<1>3. ASSUME Search!ListPorts PROVE SearchInv'
  <2>1. "usb" \in host.families /\ Search!Listed("usb", Search!Ports) /\ UNCHANGED <<board, wire>>
    BY <1>3 DEF Search!ListPorts
  <2>2. \A x \in Boards : Matches(host, board, x, "usb") =>
          [link |-> "usb", who |-> x] \in Search!Ports
    BY <1>1, AttachedIs DEF Matches
  <2>3. /\ Search!Ports \in SUBSET Search!Candidate /\ \A c \in Search!Ports : c.link = "usb"
        /\ "usb" \in Search!Links
    BY <1>1, AttachedIs
  <2>4. QED  BY <1>1, <2>1, <2>2, <2>3, Lists
<1>4. ASSUME Search!ListLan PROVE SearchInv'
  <2> DEFINE cands == {c \in Search!Attached("lan") : Search!Wanted(host.want, c)}
  <2>1. "lan" \in host.families /\ Search!Listed("lan", cands) /\ UNCHANGED <<board, wire>>
    BY <1>4 DEF Search!ListLan
  <2>2. ASSUME NEW x \in Boards, Matches(host, board, x, "lan")
        PROVE  [link |-> "lan", who |-> x] \in cands
    <3> DEFINE c == [link |-> "lan", who |-> x]
    <3>1. c \in Search!Attached("lan") /\ c.link = "lan" /\ c.who = x
      BY <1>1, <2>2, AttachedIs DEF Matches
    <3>2. Search!Published(c) = {board[x].name, x}
      BY <3>1 DEF Search!Published
    <3>3. QED  BY <2>2, <3>1, <3>2 DEF Matches, Search!Is, Search!Wanted
  <2>3. cands \in SUBSET Search!Candidate /\ (\A c \in cands : c.link = "lan") /\ "lan" \in Search!Links
    BY <1>1, AttachedIs
  <2> HIDE DEF cands
  <2>4. QED  BY <1>1, <2>1, <2>2, <2>3, Lists
<1>5. ASSUME Search!ListBle PROVE SearchInv'
  <2> DEFINE inRange == IF wire.radio THEN Search!Attached("ble") ELSE {}
             fast    == {c \in inRange : Search!Wanted(host.want, c)}
             cands   == IF fast # {} THEN fast ELSE inRange
  <2>1. "ble" \in host.families /\ UNCHANGED <<board, wire>>
    BY <1>5 DEF Search!ListBle
  <2>2. /\ cands \in SUBSET Search!Candidate /\ (\A c \in cands : c.link = "ble")
        /\ "ble" \in Search!Links
    BY <1>1, AttachedIs
  <2>3. ASSUME NEW x \in Boards, Matches(host, board, x, "ble"),
               [link |-> "ble", who |-> x] \notin cands
        PROVE  Hidden(host, board, wire, x, "ble")
    <3> DEFINE c == [link |-> "ble", who |-> x]
    <3>1. CASE ~wire.radio
      BY <3>1 DEF Hidden
    <3>2. CASE wire.radio
      <4>1. c \in inRange /\ inRange = Search!Attached("ble")
        BY <1>1, <2>3, <3>2, AttachedIs DEF Matches
      <4>2. fast # {} /\ c \notin fast
        BY <2>3, <4>1
      <4>3. PICK d \in Search!Attached("ble") : Search!Wanted(host.want, d)
        BY <4>1, <4>2
      <4>4. PICK y \in Boards : d = [link |-> "ble", who |-> y]
        BY DEF Search!Attached
      <4>5. Search!Published(c) = {board[x].advert} /\ Search!Published(d) = {board[y].advert}
        BY <4>4 DEF Search!Published
      <4>6. ~Search!Wanted(host.want, c)
        BY <4>1, <4>2
      <4>7. board[y].advert = host.want /\ y # x
        BY <4>3, <4>5, <4>6 DEF Search!Wanted
      <4>8. QED  BY <4>7 DEF Hidden
    <3>3. QED  BY <3>1, <3>2
  <2>4. \/ cands = {} /\ host.pin = "ble" /\ host' = Search!Raised("NoDevice")
        \/ Search!Listed("ble", cands)
    BY <1>5 DEF Search!ListBle
  <2> HIDE DEF cands
  <2>5. CASE Search!Listed("ble", cands)
    BY <1>1, <2>1, <2>2, <2>3, <2>5, Lists
  <2>6. CASE cands = {} /\ host.pin = "ble" /\ host' = Search!Raised("NoDevice")
    <3>1. host'.pin = "ble" /\ host'.want = host.want
      BY <1>1, <2>6 DEF Search!Raised, SearchHosts
    <3>2. Missed(host', board', wire')
      <4> SUFFICES ASSUME NEW x \in Boards, NEW l \in Search!Links, Matches(host', board', x, l)
                   PROVE  Hidden(host', board', wire', x, l)
        BY DEF Missed
      <4>1. l = "ble" /\ Matches(host, board, x, "ble")
        BY <2>1, <2>6, <3>1 DEF Matches, Search!Families
      <4>2. QED  BY <2>1, <2>3, <2>6, <3>1, <4>1 DEF Hidden
    <3>3. wire' \in SearchWires /\ wire'.faults <= wire.faults
      BY <1>1, <2>1 DEF SearchWires
    <3>4. QED  BY <2>1, <2>6, <3>2, <3>3, Raises
  <2>7. QED  BY <2>4, <2>5, <2>6
<1>6. wire' = wire => wire' \in SearchWires /\ wire'.faults <= wire.faults
  BY <1>1 DEF SearchWires
<1>7. ASSUME Search!Exhausted PROVE SearchInv'
  <2>1. /\ host' = Search!Raised("NoDevice") /\ UNCHANGED <<board, wire>>
        /\ host.families = {} \/ (host.families = {"lan"} /\ host.pin = "any" /\ host.found)
    BY <1>7 DEF Search!Exhausted
  <2>2. host'.pin = host.pin /\ host'.want = host.want /\ host'.found = host.found
    BY <1>1, <2>1 DEF Search!Raised, SearchHosts
  <2>3. Missed(host', board', wire')
    <3> SUFFICES ASSUME wire.faults = Faults, IsProbing(host), NEW x \in Boards, NEW l \in Search!Links,
                        Matches(host, board, x, l)
                 PROVE  Hidden(host', board', wire', x, l)
                          \/ (l = "lan" /\ host'.pin = "any" /\ host'.found)
      BY <2>1, <2>2 DEF Missed, IsProbing, Matches
    <3>1. Ahead(host, x, l) \/ Hidden(host, board, wire, x, l)
      BY <1>1 DEF NotMissed
    <3>2. Ahead(host, x, l) => l \in host.families
      BY <1>1 DEF Ahead, Serving
    <3>3. QED  BY <2>1, <2>2, <3>1, <3>2 DEF Hidden
  <2>4. QED  BY <1>6, <2>1, <2>3, Raises
<1>8. ASSUME Search!NothingThere PROVE SearchInv'
  <2>1. host' = Search!Raised("NoDevice") /\ UNCHANGED <<board, wire>> /\ ~IsProbing(host)
    BY <1>8 DEF Search!NothingThere, Search!Probing, IsProbing
  <2>2. host'.pin = host.pin
    BY <1>1, <2>1 DEF Search!Raised, SearchHosts
  <2>3. Missed(host', board', wire')
    BY <2>1, <2>2 DEF Missed, IsProbing
  <2>4. QED  BY <1>6, <2>1, <2>3, Raises
<1>9. QED  BY <1>2, <1>3, <1>4, <1>5, <1>7, <1>8

\* The candidate in hand is no board that was looked for, or something went wrong.
LEMMA Drops ==
  ASSUME SearchInv, host.pc \in Serving, board' = board, wire' \in SearchWires,
         host' = [host EXCEPT !.pc = "next", !.hand = Search!None, !.open = {}],
         \/ wire'.faults < wire.faults
         \/ /\ wire' = wire
            /\ \A x \in Boards, link \in Search!Links :
                 Matches(host, board, x, link) => host.hand # [link |-> link, who |-> x]
  PROVE  SearchInv'
<1>1. /\ host \in SearchHosts /\ board \in SearchBoards /\ wire \in SearchWires
      /\ host.error = "" /\ wire.faults \in Nat /\ wire'.faults \in Nat /\ Faults \in Nat
      /\ wire.faults <= Faults /\ host.pc # "raised"
      /\ OneInHand(host) /\ SearchShape(host, board, wire) /\ NotMissed(host, board, wire)
  BY PartsAssumption DEF SearchInv, SearchSound, SearchShape, Serving, SearchWires
<1>2. \A x, y, z \in Nat : x < y /\ y <= z => x <= z /\ x # z
  OBVIOUS
<1>3. /\ host' \in SearchHosts /\ host'.pc = "next" /\ host'.error = "" /\ host'.open = {}
      /\ host'.pin = host.pin /\ host'.families = host.families /\ host'.left = host.left
      /\ host'.want = host.want
  BY <1>1 DEF SearchHosts, Search!PCs
<1>4. SearchShape(host', board', wire')
  <2>1. CASE wire' = wire
    BY <1>1, <1>3, <2>1 DEF SearchShape
  <2>2. CASE wire'.faults < wire.faults
    <3>1. wire'.faults <= Faults
      BY <1>1, <1>2, <2>2
    <3>2. QED  BY <1>1, <1>3, <3>1 DEF SearchShape
  <2>3. QED  BY <2>1, <2>2
<1>5. OneInHand(host')
  BY <1>1, <1>3 DEF OneInHand, Allowed, Serving
<1>6. KnownInHand(host', board') /\ Missed(host', board', wire')
  BY <1>3 DEF KnownInHand, Missed
<1>7. NotMissed(host', board', wire')
  <2> SUFFICES ASSUME wire'.faults = Faults, IsProbing(host), NEW x \in Boards,
                      NEW link \in Search!Links, Matches(host, board, x, link)
               PROVE  Ahead(host', x, link) \/ Hidden(host', board', wire', x, link)
    BY <1>3 DEF NotMissed, IsProbing, Matches
  <2>1. wire' = wire /\ host.hand # [link |-> link, who |-> x]
    <3>1. ~(wire'.faults < wire.faults)
      BY <1>1, <1>2
    <3>2. QED  BY <3>1
  <2>2. Ahead(host, x, link) \/ Hidden(host, board, wire, x, link)
    BY <1>1, <2>1 DEF NotMissed
  <2>3. QED  BY <1>3, <2>1, <2>2 DEF Ahead, Hidden
<1>8. QED  BY <1>4, <1>5, <1>6, <1>7 DEF SearchInv, SearchSound

\* The candidate in hand comes a step further.
LEMMA Advances ==
  ASSUME SearchInv, host.pc \in Serving, NEW pc \in Serving \ {"open"},
         NEW open \in SUBSET {host.hand}, UNCHANGED <<board, wire>>,
         host' = [host EXCEPT !.pc = pc, !.open = open],
         pc \in {"match", "upgrade", "online"} => host.hand.who # Search!Stranger,
         pc \in {"upgrade", "online"} /\ host.want # Search!Nobody =>
           Search!Is(host.want, board[host.hand.who].name, host.hand.who)
  PROVE  SearchInv'
<1>1. /\ host \in SearchHosts /\ board \in SearchBoards /\ wire \in SearchWires
      /\ host.error = "" /\ host.pc # "raised" /\ host.hand \in Search!Candidate
      /\ OneInHand(host) /\ SearchShape(host, board, wire) /\ NotMissed(host, board, wire)
  BY DEF SearchInv, SearchSound, SearchShape, OneInHand, Serving
<1>2. /\ host' \in SearchHosts /\ host'.pc = pc /\ host'.error = "" /\ host'.open = open
      /\ host'.pin = host.pin /\ host'.families = host.families /\ host'.left = host.left
      /\ host'.want = host.want /\ host'.hand = host.hand
  BY <1>1 DEF SearchHosts, Search!PCs, Serving
<1>3. SearchShape(host', board', wire')
  BY <1>1, <1>2 DEF SearchShape, Serving
<1>4. OneInHand(host')
  BY <1>1, <1>2 DEF OneInHand, Allowed, Serving
<1>5. KnownInHand(host', board') /\ Missed(host', board', wire')
  BY <1>2 DEF KnownInHand, Missed
<1>6. NotMissed(host', board', wire')
  <2> SUFFICES ASSUME wire.faults = Faults, IsProbing(host), NEW x \in Boards,
                      NEW link \in Search!Links, Matches(host, board, x, link)
               PROVE  Ahead(host', x, link) \/ Hidden(host', board', wire', x, link)
    BY <1>1, <1>2 DEF NotMissed, IsProbing, Matches
  <2>1. Ahead(host, x, link) \/ Hidden(host, board, wire, x, link)
    BY <1>1 DEF NotMissed
  <2>2. QED  BY <1>1, <1>2, <2>1 DEF Ahead, Hidden, Serving
<1>7. QED  BY <1>3, <1>4, <1>5, <1>6 DEF SearchInv, SearchSound

LEMMA TakeKeeps ==
  ASSUME SearchInv, Search!Take
  PROVE  SearchInv'
<1>1. /\ host \in SearchHosts /\ board \in SearchBoards /\ wire \in SearchWires
      /\ host.error = "" /\ host.pc = "next" /\ host.open = {} /\ UNCHANGED <<board, wire>>
      /\ OneInHand(host) /\ SearchShape(host, board, wire) /\ NotMissed(host, board, wire)
  BY DEF SearchInv, SearchSound, SearchShape, OneInHand, Search!Take
<1>2. CASE host.left = {} /\ host' = [host EXCEPT !.pc = "list"]
  <2>1. /\ host' \in SearchHosts /\ host'.pc = "list" /\ host'.error = "" /\ host'.open = {}
        /\ host'.pin = host.pin /\ host'.families = host.families /\ host'.left = {}
        /\ host'.want = host.want
    BY <1>1, <1>2 DEF SearchHosts, Search!PCs
  <2>2. SearchShape(host', board', wire') /\ OneInHand(host')
    BY <1>1, <2>1 DEF SearchShape, OneInHand, Allowed, Serving
  <2>3. KnownInHand(host', board') /\ Missed(host', board', wire')
    BY <2>1 DEF KnownInHand, Missed
  <2>4. NotMissed(host', board', wire')
    <3> SUFFICES ASSUME wire.faults = Faults, IsProbing(host), NEW x \in Boards,
                        NEW link \in Search!Links, Matches(host, board, x, link)
                 PROVE  Ahead(host', x, link) \/ Hidden(host', board', wire', x, link)
      BY <1>1, <1>2, <2>1 DEF NotMissed, IsProbing, Matches
    <3>1. Ahead(host, x, link) \/ Hidden(host, board, wire, x, link)
      BY <1>1 DEF NotMissed
    <3>2. QED  BY <1>1, <1>2, <2>1, <3>1 DEF Ahead, Hidden, Serving
  <2>5. QED  BY <2>2, <2>3, <2>4 DEF SearchInv, SearchSound
<1>3. ASSUME NEW c \in host.left,
             host' = [host EXCEPT !.pc = "open", !.left = @ \ {c}, !.hand = c]
      PROVE  SearchInv'
  <2>1. /\ host' \in SearchHosts /\ host'.pc = "open" /\ host'.error = "" /\ host'.open = {}
        /\ host'.pin = host.pin /\ host'.families = host.families /\ host'.left = host.left \ {c}
        /\ host'.want = host.want /\ host'.hand = c /\ c \in Search!Candidate
    BY <1>1, <1>3 DEF SearchHosts, Search!PCs
  <2>2. SearchShape(host', board', wire') /\ OneInHand(host')
    BY <1>1, <2>1 DEF SearchShape, OneInHand, Allowed, Serving
  <2>3. KnownInHand(host', board') /\ Missed(host', board', wire')
    BY <2>1 DEF KnownInHand, Missed
  <2>4. NotMissed(host', board', wire')
    <3> SUFFICES ASSUME wire.faults = Faults, IsProbing(host), NEW x \in Boards,
                        NEW link \in Search!Links, Matches(host, board, x, link)
                 PROVE  Ahead(host', x, link) \/ Hidden(host', board', wire', x, link)
      BY <1>1, <2>1 DEF NotMissed, IsProbing, Matches
    <3>1. Ahead(host, x, link) \/ Hidden(host, board, wire, x, link)
      BY <1>1 DEF NotMissed
    <3>2. QED  BY <1>1, <2>1, <3>1 DEF Ahead, Hidden, Serving
  <2>5. QED  BY <2>2, <2>3, <2>4 DEF SearchInv, SearchSound
<1>4. QED  BY <1>2, <1>3 DEF Search!Take

LEMMA AttemptKeeps ==
  ASSUME SearchInv,
         Search!OpenLink \/ Search!Auth \/ Search!Shake \/ Search!Match \/ Search!Upgrade
  PROVE  SearchInv'
<1>1. /\ host \in SearchHosts /\ board \in SearchBoards /\ wire \in SearchWires
      /\ host.pc \in {"open", "auth", "shake", "match", "upgrade"}
      /\ host.hand \in Search!Candidate /\ board' = board
      /\ host.open \subseteq {host.hand} /\ (host.pc = "open" => host.open = {})
      /\ OneInHand(host) /\ KnownInHand(host, board)
  BY DEF SearchInv, SearchSound, SearchShape, OneInHand, Serving, Search!OpenLink, Search!Auth,
         Search!Shake, Search!Match, Search!Upgrade
<1>2. host.pc \in Serving
  BY <1>1 DEF Serving
<1>3. ASSUME Search!Fault
      PROVE  wire' \in SearchWires /\ wire'.faults < wire.faults /\ wire'.faults <= wire.faults
  BY <1>1, <1>3 DEF Search!Fault, SearchWires
<1>4. host.open \ {host.hand} = {}
  BY <1>1
<1>5. Search!Dropped = [host EXCEPT !.pc = "next", !.hand = Search!None, !.open = {}]
  BY <1>1, <1>4 DEF Search!Dropped, SearchHosts
<1>6. ASSUME Search!Fault, Search!Fails PROVE SearchInv'
  <2>1. CASE host' = Search!Dropped
    BY <1>1, <1>2, <1>3, <1>5, <1>6, <2>1, Drops
  <2>2. CASE host' = Search!Raised("Attempt")
    BY <1>1, <1>3, <1>6, <2>2, Raises
  <2>3. QED  BY <1>6, <2>1, <2>2 DEF Search!Fails
<1>7. ASSUME Search!Fault, Search!Escapes PROVE SearchInv'
  BY <1>1, <1>3, <1>7, Raises DEF Search!Escapes
<1>8. CASE Search!OpenLink
  <2>1. CASE Search!Fault /\ host' = [host EXCEPT !.pc = "next", !.hand = Search!None]
    <3>1. host' = [host EXCEPT !.pc = "next", !.hand = Search!None, !.open = {}]
      BY <1>1, <1>8, <2>1 DEF Search!OpenLink, SearchHosts
    <3>2. QED  BY <1>1, <1>2, <1>3, <2>1, <3>1, Drops
  <2>2. CASE wire' = wire /\ host' = [host EXCEPT !.pc = IF Search!Wireless(host.hand) THEN "auth" ELSE "shake",
                                                  !.open = @ \cup {host.hand}]
    <3> DEFINE pc == IF Search!Wireless(host.hand) THEN "auth" ELSE "shake"
               open == host.open \cup {host.hand}
    <3>1. pc \in Serving \ {"open"} /\ pc \notin {"match", "upgrade", "online"}
          /\ open \in SUBSET {host.hand}
      BY <1>1 DEF Serving
    <3>2. host' = [host EXCEPT !.pc = pc, !.open = open]
      BY <1>1, <2>2
    <3> HIDE DEF pc, open
    <3>3. QED  BY <1>1, <1>2, <2>2, <3>1, <3>2, Advances
  <2>3. QED  BY <1>8, <2>1, <2>2 DEF Search!OpenLink
\* A step that leaves what is open as it is.
<1>9. ASSUME NEW pc \in Serving \ {"open"}, host' = [host EXCEPT !.pc = pc], wire' = wire,
             pc \in {"match", "upgrade", "online"} => host.hand.who # Search!Stranger,
             pc \in {"upgrade", "online"} /\ host.want # Search!Nobody =>
               Search!Is(host.want, board[host.hand.who].name, host.hand.who)
      PROVE  SearchInv'
  <2>1. host' = [host EXCEPT !.pc = pc, !.open = host.open]
    BY <1>1, <1>9 DEF SearchHosts
  <2>2. QED  BY <1>1, <1>2, <1>9, <2>1, Advances
<1>10. CASE Search!Auth
  <2>1. CASE host' = [host EXCEPT !.pc = "shake"] /\ wire' = wire
    BY <1>9, <2>1 DEF Serving
  <2>2. QED  BY <1>6, <1>7, <1>10, <2>1 DEF Search!Auth
\* Nobody looked for a device that is no board.
<1>11. ASSUME host.hand.who = Search!Stranger, wire' = wire, Search!Fails PROVE SearchInv'
  <2>1. \A x \in Boards, link \in Search!Links : host.hand # [link |-> link, who |-> x]
    BY <1>11, Wanting
  <2>2. wire' \in SearchWires /\ wire'.faults <= wire.faults
    BY <1>1, <1>11 DEF SearchWires
  <2>3. CASE host' = Search!Dropped
    BY <1>1, <1>2, <1>5, <1>11, <2>1, <2>2, <2>3, Drops
  <2>4. CASE host' = Search!Raised("Attempt")
    BY <1>1, <2>2, <2>4, Raises
  <2>5. QED  BY <1>11, <2>3, <2>4 DEF Search!Fails
<1>12. CASE Search!Shake
  <2>1. CASE host' = [host EXCEPT !.pc = "match"] /\ wire' = wire /\ host.hand.who # Search!Stranger
    BY <1>9, <2>1 DEF Serving
  <2>2. QED  BY <1>6, <1>7, <1>11, <1>12, <2>1 DEF Search!Shake
<1>13. CASE Search!Match
  <2> DEFINE b == host.hand.who
  <2>1. host.pc = "match" /\ wire' = wire /\ b # Search!Stranger
    BY <1>1, <1>13 DEF Search!Match, KnownInHand
  <2>2. CASE /\ host.want = Search!Nobody \/ Search!Is(host.want, board[b].name, b)
             /\ host' = [host EXCEPT !.pc = "upgrade"]
    BY <1>9, <2>1, <2>2 DEF Serving
  <2>3. CASE /\ ~(host.want = Search!Nobody \/ Search!Is(host.want, board[b].name, b))
             /\ host' = Search!Dropped
    <3>1. \A x \in Boards, link \in Search!Links :
            Matches(host, board, x, link) => host.hand # [link |-> link, who |-> x]
      BY <2>3 DEF Matches
    <3>2. wire' \in SearchWires
      BY <1>1, <2>1
    <3>3. QED  BY <1>1, <1>2, <1>5, <2>1, <2>3, <3>1, <3>2, Drops
  <2>4. QED  BY <1>13, <2>2, <2>3 DEF Search!Match
<1>14. CASE Search!Upgrade
  <2>1. CASE host' = [host EXCEPT !.pc = "online"] /\ wire' = wire
    <3>1. host.pc = "upgrade"
      BY <1>14 DEF Search!Upgrade
    <3>2. QED  BY <1>1, <1>9, <2>1, <3>1 DEF Serving, KnownInHand
  <2>2. QED  BY <1>6, <1>14, <2>1 DEF Search!Upgrade
<1>15. QED  BY <1>8, <1>10, <1>12, <1>13, <1>14

LEMMA SearchStep ==
  ASSUME SearchInv, [Search!Next]_(Search!vars)
  PROVE  SearchInv'
<1>1. ASSUME UNCHANGED Search!vars PROVE SearchInv'
  BY <1>1 DEF Search!vars, SearchInv
<1>2. CASE Search!Finished
  BY <1>1, <1>2 DEF Search!Finished
<1>3. QED
  BY <1>1, <1>2, ListKeeps, TakeKeeps, AttemptKeeps DEF Search!Next

\* A search hands out a board that was asked for over a link that was asked for, leaves
\* nothing else open, and finds nobody only when there was nobody it could have found
\* (Bridge.__init__, _candidates).
THEOREM SearchStaysRight == HostSpec => []SearchIsRight
<1> DEFINE Inv == part = "search" => SearchInv
<1>1. HostInit => Inv
  BY SearchInit DEF HostInit
<1>2. Inv /\ [HostNext]_Parted => Inv'
  <2> SUFFICES ASSUME part = "search" => SearchInv, [HostNext]_Parted, part' = "search"
               PROVE  SearchInv'
    OBVIOUS
  <2>1. part = "search" /\ [Search!Next]_(Search!vars)
    BY DEF HostNext, Parted, Search!vars
  <2>2. QED  BY <2>1, SearchStep
<1>3. Inv => SearchIsRight
  BY SearchMeans DEF SearchIsRight
<1>4. QED  BY <1>1, <1>2, <1>3, PTL DEF HostSpec

-----------------------------------------------------------------------------
(* The rate of the serial link *)

BaudHosts ==
  [pc : Baud!PCs, rate : Baud!Rates, ready : BOOLEAN, now : Baud!Rates \cup {Baud!Unset},
   target : Baud!Rates \cup {Baud!Unset}, rungs : Seq(Baud!Rates), tries : 0 .. 3,
   reset : BOOLEAN, exitReset : BOOLEAN, climbing : BOOLEAN, inReset : BOOLEAN,
   session : 0 .. Sessions]
BaudBoards == [rate : Baud!Rates, banner : BOOLEAN, rebooted : BOOLEAN]
Troubles == {"info", "setbaud", "check", "fallback", "banner", "reset", "exit", "power"}
BaudWires ==
  [accepts : SUBSET Baud!Rates, carries : SUBSET Baud!Rates, autoReset : BOOLEAN,
   faults : 0 .. Faults, lost : SUBSET Troubles]

\* A rung is in hand until it is taken or given up.
BaudShape(h, b, w) ==
  /\ h \in BaudHosts /\ b \in BaudBoards /\ w \in BaudWires
  /\ Boot \in w.carries
  /\ h.pc \in {"setbaud", "check", "fallback"} => h.rungs # <<>>

\* A frame was lost that could have left the board at another rate.
Excused(w) == w.lost \cap {"setbaud", "exit", "reset", "info"} # {}

Asking == Baud!Waits \cup {"poll"}
AtBoot == {"shaken", "rung", "setbaud", "awaitReset"}

\* Where the board is: at Boot when it has just booted, and whenever the host, which
\* is at Boot itself, has had its SYS_READY or an answer.
BoardAt(h, b, w) ==
  /\ b.banner => b.rate = Boot
  /\ h.pc \in Asking /\ h.ready => b.rate = Boot
  /\ h.pc \in AtBoot => b.rate = Boot
  /\ h.pc \in {"broken", "failed", "closed"} => b.rate = Boot \/ Excused(w)

\* Where the host is.
HostAt(h, w) ==
  /\ h.pc \in Asking \cup {"fallback"} \cup AtBoot => h.rate = Boot
  /\ h.pc \in Baud!Up \cup {"shaken", "online"} => h.ready
  /\ h.pc \notin Baud!Ends => h.now \in {Baud!Unset, Boot}
  /\ h.pc = "poll" /\ h.tries < 3 => Excused(w)

\* A Bridge that is up talks at the rate it will hand back; so does the board, unless
\* it has rebooted by itself.
UpAt(h, b, w) ==
  h.pc = "online" =>
    /\ h.rate = IF h.now = Baud!Unset THEN Boot ELSE h.now
    /\ b.rebooted \/ (h.rate = b.rate /\ h.rate \in w.carries)
    /\ b.rate \in {Boot, h.rate}

BaudSound(h, b, w) == BaudShape(h, b, w) /\ BoardAt(h, b, w) /\ HostAt(h, w) /\ UpAt(h, b, w)
BaudInv == BaudSound(host, board, wire)

LEMMA RateFacts ==
  /\ Baud!Rates \subseteq Nat /\ Baud!Unset \notin Baud!Rates /\ Boot \in Baud!Rates
  /\ Safe \in Baud!Rates
BY HostAssumption DEF Baud!Rates, Baud!Unset

LEMMA BaudMeans == BaudInv => Baud!RatesAgree /\ Baud!FoundAtBoot
BY DEF BaudInv, BaudSound, BoardAt, UpAt, Excused, Baud!RatesAgree, Baud!FoundAtBoot

LEMMA BaudInit ==
  ASSUME Baud!Init
  PROVE  BaudInv
<1>1. /\ host = Baud!Closed
      /\ board \in [rate : Baud!Rates, banner : {FALSE}, rebooted : {FALSE}]
      /\ wire \in [accepts : {{Boot, Safe}, Baud!Rates}, carries : {{Boot}, {Boot, Safe}, Baud!Rates},
                   autoReset : BOOLEAN, faults : {Faults}, lost : {{}}]
  BY DEF Baud!Init
<1>2. host \in BaudHosts /\ host.pc = "new" /\ host.now = Baud!Unset
  BY <1>1, RateFacts, PartsAssumption DEF Baud!Closed, BaudHosts, Baud!PCs
<1>3. board \in BaudBoards /\ ~board.banner
  BY <1>1 DEF BaudBoards
<1>4. wire \in BaudWires /\ Boot \in wire.carries
  BY <1>1, RateFacts, PartsAssumption DEF BaudWires
<1>5. BaudShape(host, board, wire)
  BY <1>2, <1>3, <1>4 DEF BaudShape
<1>6. BoardAt(host, board, wire) /\ HostAt(host, wire) /\ UpAt(host, board, wire)
  BY <1>2, <1>3 DEF BoardAt, HostAt, UpAt, Asking, AtBoot, Baud!Waits, Baud!Up
<1>7. QED  BY <1>5, <1>6 DEF BaudInv, BaudSound

\* What a step may note about the wire: a frame that was lost, and nothing is forgotten.
LEMMA Losing ==
  ASSUME wire \in BaudWires, NEW cmd \in Troubles,
         Baud!Loss(cmd) \/ Baud!Noted(cmd)
  PROVE  /\ wire' \in BaudWires /\ wire'.carries = wire.carries
         /\ wire'.lost = wire.lost \cup {cmd}
         /\ Excused(wire) => Excused(wire')
         /\ cmd \in {"setbaud", "exit", "reset", "info"} => Excused(wire')
<1>1. PICK n \in 0 .. Faults : wire' = [wire EXCEPT !.faults = n, !.lost = wire.lost \cup {cmd}]
  <2>1. wire.faults \in 0 .. Faults
    BY DEF BaudWires
  <2>2. CASE Baud!Loss(cmd)
    <3>1. wire.faults - 1 \in 0 .. Faults
      BY <2>1, <2>2, PartsAssumption DEF Baud!Loss
    <3>2. wire' = [wire EXCEPT !.faults = wire.faults - 1, !.lost = wire.lost \cup {cmd}]
      BY <2>2 DEF Baud!Loss
    <3>3. QED  BY <3>1, <3>2
  <2>3. CASE Baud!Noted(cmd)
    <3>1. wire' = [wire EXCEPT !.faults = wire.faults, !.lost = wire.lost \cup {cmd}]
      BY <2>3 DEF Baud!Noted, BaudWires
    <3>2. QED  BY <2>1, <3>1
  <2>4. QED  BY <2>2, <2>3
<1>2. wire' \in BaudWires /\ wire'.carries = wire.carries /\ wire'.lost = wire.lost \cup {cmd}
  BY <1>1 DEF BaudWires
<1>3. QED  BY <1>2 DEF Excused

\* A reset line that is toggled leaves the board where it is, or at Boot.
LEMMA Toggling ==
  ASSUME board \in BaudBoards
  PROVE  /\ Baud!Booting \in BaudBoards /\ Baud!Toggled \in BaudBoards
         /\ Baud!Booting.rate = Boot /\ Baud!Booting.banner
         /\ (Baud!Booting.rebooted <=> board.rebooted)
         /\ Baud!Toggled \in {board, Baud!Booting}
BY RateFacts DEF BaudBoards, Baud!Booting, Baud!Toggled

LEMMA Shape ==
  ASSUME BaudInv
  PROVE  /\ host \in BaudHosts /\ board \in BaudBoards /\ wire \in BaudWires
         /\ BaudShape(host, board, wire) /\ BoardAt(host, board, wire)
         /\ HostAt(host, wire) /\ UpAt(host, board, wire)
BY DEF BaudInv, BaudSound, BaudShape

\* An exchange that is answered shows that both ends are at one rate.
LEMMA Hearing ==
  ASSUME BaudInv, Baud!Heard
  PROVE  /\ host.rate = board.rate /\ host.rate \in wire.carries /\ host.rate \in Baud!Rates
         /\ ~board.banner
BY Shape DEF BaudHosts, Baud!Heard

LEMMA Seeing ==
  ASSUME board \in BaudBoards
  PROVE  /\ Baud!Seen(board) \in BaudBoards /\ Baud!Seen(board).rate = board.rate
         /\ (Baud!Seen(board).banner <=> board.banner) /\ ~Baud!Seen(board).rebooted
BY DEF BaudBoards, Baud!Seen

LEMMA OpenKeeps ==
  ASSUME BaudInv, NEW reset \in BOOLEAN, NEW exit \in BOOLEAN,
         NEW target \in Baud!Rates \cup {Baud!Unset}, Baud!Open(reset, target, exit)
  PROVE  BaudInv'
<1>1. /\ host \in BaudHosts /\ board \in BaudBoards /\ wire \in BaudWires
      /\ BaudShape(host, board, wire) /\ BoardAt(host, board, wire)
  BY Shape
<1>2. /\ host' \in BaudHosts /\ host'.pc = "await" /\ host'.rate = Boot /\ ~host'.ready
      /\ host'.now = Baud!Unset
  <2>1. host.session + 1 \in 0 .. Sessions
    BY <1>1, PartsAssumption DEF BaudHosts, Baud!Open
  <2>2. host' = [pc |-> "await", rate |-> Boot, ready |-> FALSE, now |-> Baud!Unset,
                 target |-> target, rungs |-> <<>>, tries |-> 0, reset |-> reset,
                 exitReset |-> exit, climbing |-> FALSE, inReset |-> FALSE,
                 session |-> host.session + 1]
    BY DEF Baud!Open, Baud!Closed
  <2>3. <<>> \in Seq(Baud!Rates) /\ "await" \in Baud!PCs
    BY DEF Baud!PCs, Baud!Waits
  <2>4. QED  BY <2>1, <2>2, <2>3, RateFacts DEF BaudHosts
<1>3. board' \in BaudBoards /\ (board'.banner => board'.rate = Boot)
  <2>1. PICK b \in {board, Baud!Booting} : board' = Baud!Seen(b)
    BY <1>1, Toggling DEF Baud!Open
  <2>2. b \in BaudBoards /\ (b.banner => b.rate = Boot)
    BY <1>1, <2>1, Toggling DEF BoardAt
  <2>3. QED  BY <2>1, <2>2 DEF Baud!Seen, BaudBoards
<1>4. wire' \in BaudWires /\ wire'.carries = wire.carries
  BY <1>1 DEF Baud!Open, BaudWires
<1>5. BaudShape(host', board', wire')
  BY <1>1, <1>2, <1>3, <1>4 DEF BaudShape
<1>6. BoardAt(host', board', wire') /\ HostAt(host', wire') /\ UpAt(host', board', wire')
  BY <1>2, <1>3 DEF BoardAt, HostAt, UpAt, Asking, AtBoot, Baud!Waits, Baud!Up, Baud!Ends
<1>7. QED  BY <1>5, <1>6 DEF BaudInv, BaudSound

LEMMA BannerKeeps ==
  ASSUME BaudInv, Baud!Banner
  PROVE  BaudInv'
<1>1. /\ host \in BaudHosts /\ board \in BaudBoards /\ wire \in BaudWires
      /\ BaudShape(host, board, wire) /\ BoardAt(host, board, wire)
      /\ HostAt(host, wire) /\ UpAt(host, board, wire)
  BY Shape
<1>2. board.banner /\ board.rate = Boot
  BY <1>1 DEF Baud!Banner, BoardAt
<1>3. /\ board' \in BaudBoards /\ board'.rate = Boot /\ ~board'.banner
      /\ (board'.rebooted <=> board.rebooted /\ host.rate # Boot)
  <2>1. board' = [board EXCEPT !.banner = FALSE, !.rebooted = @ /\ host.rate # Boot]
    BY DEF Baud!Banner
  <2>2. board' = [board EXCEPT !.banner = FALSE, !.rebooted = board.rebooted /\ host.rate # Boot]
    BY <2>1
  <2>3. (board.rebooted /\ host.rate # Boot) \in BOOLEAN
    OBVIOUS
  <2>4. QED  BY <1>1, <1>2, <2>2, <2>3 DEF BaudBoards
<1>4. /\ host' \in BaudHosts /\ host'.pc = host.pc /\ host'.rate = host.rate
      /\ host'.now = host.now /\ host'.tries = host.tries /\ host'.rungs = host.rungs
      /\ host.ready => host'.ready
  <2>1. host' = host \/ host' = [host EXCEPT !.ready = TRUE]
    BY DEF Baud!Banner
  <2>2. QED  BY <1>1, <2>1 DEF BaudHosts
<1>5. wire' \in BaudWires /\ wire'.carries = wire.carries /\ (Excused(wire) => Excused(wire'))
  <2>1. CASE wire' = wire
    BY <1>1, <2>1
  <2>2. CASE Baud!Loss("banner")
    BY <1>1, <2>2, Losing DEF Troubles
  <2>3. QED  BY <2>1, <2>2 DEF Baud!Banner
<1>6. BaudShape(host', board', wire')
  BY <1>1, <1>3, <1>4, <1>5 DEF BaudShape
<1>7. BoardAt(host', board', wire')
  BY <1>3 DEF BoardAt
<1>8. HostAt(host', wire')
  BY <1>1, <1>4, <1>5 DEF HostAt
<1>9. UpAt(host', board', wire')
  BY <1>1, <1>2, <1>3, <1>4, <1>5 DEF UpAt, BaudShape
<1>10. QED  BY <1>6, <1>7, <1>8, <1>9 DEF BaudInv, BaudSound

LEMMA WaitKeeps ==
  ASSUME BaudInv, Baud!Ready \/ Baud!Pulse \/ Baud!StartPolling
  PROVE  BaudInv'
<1>1. /\ host \in BaudHosts /\ board \in BaudBoards /\ wire \in BaudWires
      /\ BaudShape(host, board, wire) /\ BoardAt(host, board, wire)
      /\ HostAt(host, wire) /\ UpAt(host, board, wire)
  BY Shape
<1>2. host.rate = Boot /\ host.now \in {Baud!Unset, Boot} /\ wire' = wire
  BY <1>1 DEF HostAt, Baud!Ready, Baud!Pulse, Baud!StartPolling, Asking, Baud!Waits, Baud!Ends
<1>3. CASE Baud!Ready
  <2>1. host.ready /\ board.rate = Boot /\ board' = board
    BY <1>1, <1>3 DEF BoardAt, Baud!Ready, Asking, Baud!Waits
  <2>2. /\ host' \in BaudHosts /\ host'.pc = "shaken" /\ host'.rate = Boot /\ host'.ready
        /\ host'.now = host.now
    BY <1>1, <1>2, <1>3, <2>1 DEF Baud!Ready, BaudHosts, Baud!PCs
  <2>3. BaudShape(host', board', wire')
    BY <1>1, <1>2, <2>1, <2>2 DEF BaudShape
  <2>4. BoardAt(host', board', wire') /\ HostAt(host', wire') /\ UpAt(host', board', wire')
    BY <1>1, <1>2, <2>1, <2>2
       DEF BoardAt, HostAt, UpAt, Asking, AtBoot, Baud!Waits, Baud!Up, Baud!Ends
  <2>5. QED  BY <2>3, <2>4 DEF BaudInv, BaudSound
<1>4. CASE Baud!Pulse
  <2>1. ~host.ready /\ board' \in BaudBoards /\ (board'.banner => board'.rate = Boot)
    BY <1>1, <1>4, Toggling DEF Baud!Pulse, BoardAt
  <2>2. /\ host' \in BaudHosts /\ host'.pc = "pulsed" /\ host'.rate = Boot /\ ~host'.ready
        /\ host'.now = host.now
    BY <1>1, <1>2, <1>4, <2>1 DEF Baud!Pulse, BaudHosts, Baud!PCs, Baud!Waits
  <2>3. BaudShape(host', board', wire')
    BY <1>1, <1>2, <2>1, <2>2 DEF BaudShape
  <2>4. BoardAt(host', board', wire') /\ HostAt(host', wire') /\ UpAt(host', board', wire')
    BY <1>1, <1>2, <2>1, <2>2
       DEF BoardAt, HostAt, UpAt, Asking, AtBoot, Baud!Waits, Baud!Up, Baud!Ends
  <2>5. QED  BY <2>3, <2>4 DEF BaudInv, BaudSound
<1>5. CASE Baud!StartPolling
  <2>1. ~host.ready /\ board' = board
    BY <1>5 DEF Baud!StartPolling
  <2>2. /\ host' \in BaudHosts /\ host'.pc = "poll" /\ host'.rate = Boot /\ ~host'.ready
        /\ host'.now = host.now /\ host'.tries = 3
    <3>1. host' = [host EXCEPT !.pc = "poll", !.tries = 3]
      BY <1>5 DEF Baud!StartPolling
    <3>2. 3 \in 0 .. 3 /\ "poll" \in Baud!PCs
      BY DEF Baud!PCs
    <3>3. QED  BY <1>1, <1>2, <2>1, <3>1, <3>2 DEF BaudHosts
  <2>3. BaudShape(host', board', wire')
    BY <1>1, <1>2, <2>1, <2>2 DEF BaudShape
  <2>4. BoardAt(host', board', wire') /\ HostAt(host', wire') /\ UpAt(host', board', wire')
    BY <1>1, <1>2, <2>1, <2>2
       DEF BoardAt, HostAt, UpAt, Asking, AtBoot, Baud!Waits, Baud!Up, Baud!Ends
  <2>5. QED  BY <2>3, <2>4 DEF BaudInv, BaudSound
<1>6. QED  BY <1>3, <1>4, <1>5

\* The constructor or reset() raises: nobody heard the board, or it is at Boot.
LEMMA BaudRaises ==
  ASSUME BaudInv, host' = [host EXCEPT !.pc = Baud!Raise], board' \in BaudBoards,
         wire' \in BaudWires, wire'.carries = wire.carries,
         board'.banner => board'.rate = Boot, board'.rate = Boot \/ Excused(wire')
  PROVE  BaudInv'
<1>1. host \in BaudHosts /\ BaudShape(host, board, wire)
  BY Shape
<1>2. host' \in BaudHosts /\ host'.pc \in {"broken", "failed"}
  BY <1>1 DEF Baud!Raise, BaudHosts, Baud!PCs, Baud!Ends
<1>3. BaudShape(host', board', wire')
  BY <1>1, <1>2 DEF BaudShape
<1>4. BoardAt(host', board', wire') /\ HostAt(host', wire') /\ UpAt(host', board', wire')
  BY <1>2 DEF BoardAt, HostAt, UpAt, Asking, AtBoot, Baud!Waits, Baud!Up, Baud!Ends
<1>5. QED  BY <1>3, <1>4 DEF BaudInv, BaudSound

LEMMA PollKeeps ==
  ASSUME BaudInv, Baud!Poll
  PROVE  BaudInv'
<1>1. /\ host \in BaudHosts /\ board \in BaudBoards /\ wire \in BaudWires
      /\ BaudShape(host, board, wire) /\ BoardAt(host, board, wire)
      /\ HostAt(host, wire) /\ UpAt(host, board, wire)
  BY Shape
<1>2. host.pc = "poll" /\ host.rate = Boot /\ host.now \in {Baud!Unset, Boot}
  BY <1>1 DEF HostAt, Baud!Poll, Asking, Baud!Ends
<1>3. ASSUME wire' = wire, board' \in BaudBoards, board'.rate = Boot,
             host' = [host EXCEPT !.pc = "shaken", !.ready = TRUE]
      PROVE  BaudInv'
  <2>1. /\ host' \in BaudHosts /\ host'.pc = "shaken" /\ host'.rate = Boot /\ host'.ready
        /\ host'.now = host.now
    BY <1>1, <1>2, <1>3 DEF BaudHosts, Baud!PCs
  <2>2. BaudShape(host', board', wire')
    BY <1>1, <1>3, <2>1 DEF BaudShape
  <2>3. BoardAt(host', board', wire') /\ HostAt(host', wire') /\ UpAt(host', board', wire')
    BY <1>2, <1>3, <2>1 DEF BoardAt, HostAt, UpAt, Asking, AtBoot, Baud!Waits, Baud!Up, Baud!Ends
  <2>4. QED  BY <2>2, <2>3 DEF BaudInv, BaudSound
<1>4. CASE host.tries > 0 /\ Baud!Answered
           /\ host' = [host EXCEPT !.pc = "shaken", !.ready = TRUE] /\ board' = Baud!Seen(board)
  <2>1. board.rate = Boot /\ wire' = wire
    BY <1>2, <1>4, Hearing DEF Baud!Answered
  <2>2. QED  BY <1>1, <1>3, <1>4, <2>1, Seeing
<1>5. CASE /\ host.tries > 0
           /\ Baud!Missed("info") \/ Baud!AnswerLost("info")
           /\ host' = [host EXCEPT !.tries = @ - 1] /\ UNCHANGED board
  <2>1. wire' \in BaudWires /\ wire'.carries = wire.carries /\ Excused(wire')
    BY <1>1, <1>5, Losing DEF Troubles, Baud!Missed, Baud!AnswerLost
  <2>2. /\ host' \in BaudHosts /\ host'.pc = "poll" /\ host'.rate = Boot
        /\ (host'.ready <=> host.ready) /\ host'.now = host.now
    <3>1. host.tries - 1 \in 0 .. 3
      BY <1>1, <1>5 DEF BaudHosts
    <3>2. host' = [host EXCEPT !.tries = host.tries - 1]
      BY <1>5
    <3>3. QED  BY <1>1, <1>2, <3>1, <3>2 DEF BaudHosts
  <2>3. BaudShape(host', board', wire')
    BY <1>1, <1>5, <2>1, <2>2 DEF BaudShape
  <2>4. BoardAt(host', board', wire') /\ HostAt(host', wire') /\ UpAt(host', board', wire')
    BY <1>1, <1>2, <1>5, <2>1, <2>2
       DEF BoardAt, HostAt, UpAt, Asking, AtBoot, Baud!Waits, Baud!Up, Baud!Ends
  <2>5. QED  BY <2>3, <2>4 DEF BaudInv, BaudSound
<1>6. CASE host.tries = 0 /\ host' = [host EXCEPT !.pc = IF host.ready THEN "shaken" ELSE Baud!Raise]
           /\ UNCHANGED <<board, wire>>
  <2>1. CASE host.ready
    <3>1. board.rate = Boot
      BY <1>1, <1>2, <2>1 DEF BoardAt, Asking
    <3>2. host' = [host EXCEPT !.pc = "shaken", !.ready = TRUE]
      BY <1>1, <1>6, <2>1 DEF BaudHosts
    <3>3. QED  BY <1>1, <1>3, <1>6, <3>1, <3>2
  <2>2. CASE ~host.ready
    <3>1. Excused(wire)
      BY <1>1, <1>2, <1>6 DEF HostAt
    <3>2. QED  BY <1>1, <1>6, <2>2, <3>1, BaudRaises DEF BoardAt
  <2>3. QED  BY <2>1, <2>2
<1>7. QED  BY <1>4, <1>5, <1>6 DEF Baud!Poll

\* Both ends at Boot, and the host somewhere on the ladder.
LEMMA Standing ==
  ASSUME BaudInv, host' \in BaudHosts, host'.pc \in {"rung", "setbaud"}, host'.rate = Boot,
         host'.ready, host'.now \in {Baud!Unset, Boot}, board' \in BaudBoards,
         board'.rate = Boot, wire' = wire, host'.pc = "setbaud" => host'.rungs # <<>>
  PROVE  BaudInv'
<1>1. BaudShape(host, board, wire)
  BY Shape
<1>2. BaudShape(host', board', wire')
  BY <1>1 DEF BaudShape
<1>3. BoardAt(host', board', wire') /\ HostAt(host', wire') /\ UpAt(host', board', wire')
  BY DEF BoardAt, HostAt, UpAt, Asking, AtBoot, Baud!Waits, Baud!Up, Baud!Ends
<1>4. QED  BY <1>2, <1>3 DEF BaudInv, BaudSound

\* What is left of a ladder is one.
LEMMA Rungs ==
  /\ \A target \in Baud!Rates \cup {Baud!Unset} : Baud!Ladder(target) \in Seq(Baud!Rates)
  /\ \A rungs \in Seq(Baud!Rates) :
       rungs # <<>> => Head(rungs) \in Baud!Rates /\ Tail(rungs) \in Seq(Baud!Rates)
<1>1. ASSUME NEW target \in Baud!Rates \cup {Baud!Unset}
      PROVE  Baud!Ladder(target) \in Seq(Baud!Rates)
  <2>1. CASE target \in {Baud!Unset, Boot}
    BY <2>1 DEF Baud!Ladder
  <2>2. CASE target \notin {Baud!Unset, Boot}
    <3>1. target \in Baud!Rates /\ Safe \in Baud!Rates
      BY <1>1, <2>2, RateFacts
    <3>2. <<target, Safe>> \in Seq(Baud!Rates) /\ <<target>> \in Seq(Baud!Rates)
      BY <3>1
    <3>3. QED  BY <2>2, <3>2 DEF Baud!Ladder
  <2>3. QED  BY <2>1, <2>2
<1>2. QED  BY <1>1

LEMMA ClimbKeeps ==
  ASSUME BaudInv, Baud!Climb \/ Baud!Rung
  PROVE  BaudInv'
<1>1. /\ host \in BaudHosts /\ board \in BaudBoards /\ wire \in BaudWires
      /\ BaudShape(host, board, wire) /\ BoardAt(host, board, wire)
      /\ HostAt(host, wire) /\ UpAt(host, board, wire)
  BY Shape
<1>2. /\ host.rate = Boot /\ host.ready /\ host.now \in {Baud!Unset, Boot} /\ wire' = wire
      /\ board' = board /\ board.rate = Boot /\ host.pc \in {"shaken", "rung"}
  BY <1>1 DEF HostAt, BoardAt, Baud!Climb, Baud!Rung, AtBoot, Baud!Up, Baud!Ends
<1>3. CASE Baud!Climb
  <2>1. PICK rungs \in Seq(Baud!Rates) :
          host' = [host EXCEPT !.pc = "rung", !.climbing = TRUE, !.rungs = rungs]
    BY <1>1, <1>3, Rungs DEF Baud!Climb, BaudHosts
  <2>2. /\ host' \in BaudHosts /\ host'.pc = "rung" /\ host'.rate = Boot /\ host'.ready
        /\ host'.now = host.now
    BY <1>1, <1>2, <2>1 DEF BaudHosts, Baud!PCs, Baud!Up
  <2>3. QED  BY <1>1, <1>2, <2>2, Standing
<1>4. CASE Baud!Rung
  <2>1. CASE host.rungs = <<>>
    <3>1. host' = [host EXCEPT !.pc = "online"]
      BY <1>4, <2>1 DEF Baud!Rung
    <3>2. /\ host' \in BaudHosts /\ host'.pc = "online" /\ host'.rate = Boot /\ host'.ready
          /\ host'.now = host.now
      BY <1>1, <1>2, <3>1 DEF BaudHosts, Baud!PCs, Baud!Ends
    <3>3. BaudShape(host', board', wire')
      BY <1>1, <1>2, <3>2 DEF BaudShape
    <3>4. BoardAt(host', board', wire') /\ HostAt(host', wire')
      BY <1>1, <1>2, <3>2
         DEF BoardAt, HostAt, Asking, AtBoot, Baud!Waits, Baud!Up, Baud!Ends
    <3>5. UpAt(host', board', wire')
      BY <1>1, <1>2, <3>2 DEF UpAt, BaudShape
    <3>6. QED  BY <3>3, <3>4, <3>5 DEF BaudInv, BaudSound
  <2>2. CASE host.rungs # <<>> /\ Head(host.rungs) \in wire.accepts
    <3>1. host' = [host EXCEPT !.pc = "setbaud"]
      BY <1>4, <2>2 DEF Baud!Rung
    <3>2. /\ host' \in BaudHosts /\ host'.pc = "setbaud" /\ host'.rate = Boot /\ host'.ready
          /\ host'.now = host.now /\ host'.rungs # <<>>
      BY <1>1, <1>2, <2>2, <3>1 DEF BaudHosts, Baud!PCs, Baud!Up
    <3>3. QED  BY <1>1, <1>2, <3>2, Standing
  <2>3. CASE host.rungs # <<>> /\ Head(host.rungs) \notin wire.accepts
    <3>1. Tail(host.rungs) \in Seq(Baud!Rates) /\ host' = [host EXCEPT !.rungs = Tail(host.rungs)]
      BY <1>1, <1>4, <2>3, Rungs DEF Baud!Rung, BaudHosts
    <3>2. /\ host' \in BaudHosts /\ host'.pc = "rung" /\ host'.rate = Boot /\ host'.ready
          /\ host'.now = host.now
      BY <1>1, <1>2, <1>4, <3>1 DEF Baud!Rung, BaudHosts
    <3>3. QED  BY <1>1, <1>2, <3>2, Standing
  <2>4. QED  BY <2>1, <2>2, <2>3
<1>5. QED  BY <1>3, <1>4

LEMMA SetBaudKeeps ==
  ASSUME BaudInv, Baud!SetBaud
  PROVE  BaudInv'
<1> DEFINE rung == Head(host.rungs)
<1>1. /\ host \in BaudHosts /\ board \in BaudBoards /\ wire \in BaudWires
      /\ BaudShape(host, board, wire) /\ BoardAt(host, board, wire)
      /\ HostAt(host, wire) /\ UpAt(host, board, wire)
  BY Shape
<1>2. /\ host.rate = Boot /\ host.ready /\ host.now \in {Baud!Unset, Boot}
      /\ board.rate = Boot /\ host.pc = "setbaud" /\ host.rungs # <<>>
  BY <1>1 DEF HostAt, BoardAt, BaudShape, Baud!SetBaud, AtBoot, Baud!Up, Baud!Ends
<1>3. rung \in Baud!Rates
  BY <1>1, <1>2, Rungs DEF BaudHosts
<1>4. CASE Baud!Answered /\ host' = [host EXCEPT !.pc = "check", !.rate = rung, !.tries = 3]
           /\ board' = [Baud!Seen(board) EXCEPT !.rate = rung]
  <2> HIDE DEF rung
  <2>1. /\ host' \in BaudHosts /\ host'.pc = "check" /\ host'.ready
        /\ host'.now = host.now /\ host'.rungs = host.rungs
    <3>1. 3 \in 0 .. 3
      OBVIOUS
    <3>2. QED  BY <1>1, <1>2, <1>3, <1>4, <3>1 DEF BaudHosts, Baud!PCs, Baud!Up
  <2>2. board' \in BaudBoards /\ ~board'.banner /\ wire' = wire
    <3>1. ~board.banner /\ wire' = wire
      BY <1>4, Hearing DEF Baud!Answered
    <3>2. QED  BY <1>1, <1>3, <1>4, <3>1, Seeing DEF BaudBoards
  <2>3. BaudShape(host', board', wire')
    BY <1>1, <1>2, <2>1, <2>2 DEF BaudShape
  <2>4. BoardAt(host', board', wire') /\ HostAt(host', wire') /\ UpAt(host', board', wire')
    BY <1>2, <2>1, <2>2 DEF BoardAt, HostAt, UpAt, Asking, AtBoot, Baud!Waits, Baud!Up, Baud!Ends
  <2>5. QED  BY <2>3, <2>4 DEF BaudInv, BaudSound
<1>5. CASE Baud!Missed("setbaud") /\ host' = [host EXCEPT !.pc = Baud!Raise] /\ UNCHANGED board
  <2>1. wire' \in BaudWires /\ wire'.carries = wire.carries
    BY <1>1, <1>5, Losing DEF Troubles, Baud!Missed
  <2>2. QED  BY <1>1, <1>2, <1>5, <2>1, BaudRaises
<1>6. CASE Baud!AnswerLost("setbaud") /\ host' = [host EXCEPT !.pc = Baud!Raise]
           /\ board' = [board EXCEPT !.rate = rung]
  <2>1. wire' \in BaudWires /\ wire'.carries = wire.carries /\ Excused(wire') /\ ~board.banner
    BY <1>1, <1>6, Losing, Hearing DEF Troubles, Baud!AnswerLost
  <2> HIDE DEF rung
  <2>2. board' \in BaudBoards /\ ~board'.banner
    BY <1>1, <1>3, <1>6, <2>1 DEF BaudBoards
  <2>3. QED  BY <1>6, <2>1, <2>2, BaudRaises
<1>7. QED  BY <1>4, <1>5, <1>6 DEF Baud!SetBaud

LEMMA CheckKeeps ==
  ASSUME BaudInv, Baud!Check
  PROVE  BaudInv'
<1>1. /\ host \in BaudHosts /\ board \in BaudBoards /\ wire \in BaudWires
      /\ BaudShape(host, board, wire) /\ BoardAt(host, board, wire)
      /\ HostAt(host, wire) /\ UpAt(host, board, wire)
  BY Shape
<1>2. /\ host.pc = "check" /\ host.ready /\ host.now \in {Baud!Unset, Boot}
      /\ host.rungs # <<>>
  BY <1>1 DEF HostAt, BaudShape, Baud!Check, Baud!Up, Baud!Ends
<1>3. CASE Baud!Answered /\ host' = [host EXCEPT !.pc = "online", !.now = host.rate]
           /\ board' = Baud!Seen(board)
  <2>1. wire' = wire /\ host.rate = board.rate /\ host.rate \in wire.carries
        /\ host.rate \in Baud!Rates /\ ~board.banner
    BY <1>3, Hearing DEF Baud!Answered
  <2>2. /\ host' \in BaudHosts /\ host'.pc = "online" /\ host'.ready
        /\ host'.now = host.rate /\ host'.rate = host.rate
    BY <1>1, <1>2, <1>3, <2>1 DEF BaudHosts, Baud!PCs, Baud!Ends
  <2>3. board' \in BaudBoards /\ board'.rate = host.rate /\ ~board'.banner
    BY <1>1, <1>3, <2>1, Seeing
  <2>4. BaudShape(host', board', wire')
    BY <1>1, <2>1, <2>2, <2>3 DEF BaudShape
  <2>5. BoardAt(host', board', wire') /\ HostAt(host', wire')
    BY <2>2, <2>3 DEF BoardAt, HostAt, Asking, AtBoot, Baud!Waits, Baud!Up, Baud!Ends
  <2>6. UpAt(host', board', wire')
    BY <2>1, <2>2, <2>3, RateFacts DEF UpAt
  <2>7. QED  BY <2>4, <2>5, <2>6 DEF BaudInv, BaudSound
<1>4. CASE /\ host.tries > 0
           /\ Baud!Missed("check") \/ Baud!AnswerLost("check")
           /\ host' = [host EXCEPT !.tries = @ - 1] /\ UNCHANGED board
  <2>1. wire' \in BaudWires /\ wire'.carries = wire.carries
    BY <1>1, <1>4, Losing DEF Troubles, Baud!Missed, Baud!AnswerLost
  <2>2. /\ host' \in BaudHosts /\ host'.pc = "check" /\ host'.ready
        /\ host'.now = host.now /\ host'.rungs = host.rungs
    <3>1. host.tries - 1 \in 0 .. 3
      BY <1>1, <1>4 DEF BaudHosts
    <3>2. host' = [host EXCEPT !.tries = host.tries - 1]
      BY <1>4
    <3>3. QED  BY <1>1, <1>2, <3>1, <3>2 DEF BaudHosts
  <2>3. BaudShape(host', board', wire')
    BY <1>1, <1>2, <1>4, <2>1, <2>2 DEF BaudShape
  <2>4. BoardAt(host', board', wire') /\ HostAt(host', wire') /\ UpAt(host', board', wire')
    BY <1>1, <1>2, <1>4, <2>2
       DEF BoardAt, HostAt, UpAt, Asking, AtBoot, Baud!Waits, Baud!Up, Baud!Ends
  <2>5. QED  BY <2>3, <2>4 DEF BaudInv, BaudSound
<1>5. CASE host' = [host EXCEPT !.pc = "fallback", !.rate = Boot] /\ UNCHANGED <<board, wire>>
  <2>1. /\ host' \in BaudHosts /\ host'.pc = "fallback" /\ host'.ready /\ host'.rate = Boot
        /\ host'.now = host.now /\ host'.rungs = host.rungs
    BY <1>1, <1>2, <1>5, RateFacts DEF BaudHosts, Baud!PCs, Baud!Up
  <2>2. BaudShape(host', board', wire')
    BY <1>1, <1>2, <1>5, <2>1 DEF BaudShape
  <2>3. BoardAt(host', board', wire') /\ HostAt(host', wire') /\ UpAt(host', board', wire')
    BY <1>1, <1>2, <1>5, <2>1
       DEF BoardAt, HostAt, UpAt, Asking, AtBoot, Baud!Waits, Baud!Up, Baud!Ends
  <2>4. QED  BY <2>2, <2>3 DEF BaudInv, BaudSound
<1>6. QED  BY <1>3, <1>4, <1>5 DEF Baud!Check

LEMMA FallbackKeeps ==
  ASSUME BaudInv, Baud!Fallback
  PROVE  BaudInv'
<1>1. /\ host \in BaudHosts /\ board \in BaudBoards /\ wire \in BaudWires
      /\ BaudShape(host, board, wire) /\ BoardAt(host, board, wire)
      /\ HostAt(host, wire) /\ UpAt(host, board, wire)
  BY Shape
<1>2. /\ host.pc = "fallback" /\ host.ready /\ host.now \in {Baud!Unset, Boot}
      /\ host.rate = Boot /\ Tail(host.rungs) \in Seq(Baud!Rates)
  BY <1>1, Rungs DEF HostAt, BaudShape, BaudHosts, Baud!Fallback, Baud!Up, Baud!Ends
<1>3. CASE Baud!Answered /\ host' = [host EXCEPT !.pc = "rung", !.rungs = Tail(@)]
           /\ board' = Baud!Seen(board)
  <2>1. wire' = wire /\ board.rate = Boot
    BY <1>2, <1>3, Hearing DEF Baud!Answered
  <2>2. /\ host' \in BaudHosts /\ host'.pc = "rung" /\ host'.ready /\ host'.rate = Boot
        /\ host'.now = host.now
    <3>1. host' = [host EXCEPT !.pc = "rung", !.rungs = Tail(host.rungs)]
      BY <1>3
    <3>2. QED  BY <1>1, <1>2, <3>1 DEF BaudHosts, Baud!PCs, Baud!Up
  <2>3. board' \in BaudBoards /\ board'.rate = Boot
    BY <1>1, <1>3, <2>1, Seeing
  <2>4. QED  BY <1>2, <2>1, <2>2, <2>3, Standing
<1>4. CASE /\ Baud!Missed("fallback") \/ Baud!AnswerLost("fallback")
           /\ host' = [host EXCEPT !.pc = "await", !.ready = FALSE, !.reset = TRUE,
                                   !.rungs = Tail(@)]
           /\ board' = Baud!Toggled
  <2>1. wire' \in BaudWires /\ wire'.carries = wire.carries
    BY <1>1, <1>4, Losing DEF Troubles, Baud!Missed, Baud!AnswerLost
  <2>2. /\ host' \in BaudHosts /\ host'.pc = "await" /\ ~host'.ready /\ host'.rate = Boot
        /\ host'.now = host.now
    <3>1. host' = [host EXCEPT !.pc = "await", !.ready = FALSE, !.reset = TRUE,
                               !.rungs = Tail(host.rungs)]
      BY <1>4
    <3>2. QED  BY <1>1, <1>2, <3>1 DEF BaudHosts, Baud!PCs, Baud!Waits
  <2>3. board' \in BaudBoards /\ (board'.banner => board'.rate = Boot)
    BY <1>1, <1>4, Toggling DEF BoardAt
  <2>4. BaudShape(host', board', wire')
    BY <1>1, <2>1, <2>2, <2>3 DEF BaudShape
  <2>5. BoardAt(host', board', wire') /\ HostAt(host', wire') /\ UpAt(host', board', wire')
    BY <1>2, <2>2, <2>3 DEF BoardAt, HostAt, UpAt, Asking, AtBoot, Baud!Waits, Baud!Up, Baud!Ends
  <2>6. QED  BY <2>4, <2>5 DEF BaudInv, BaudSound
<1>5. QED  BY <1>3, <1>4 DEF Baud!Fallback

LEMMA ResetKeeps ==
  ASSUME BaudInv, Baud!Reset
  PROVE  BaudInv'
<1> DEFINE down == [host EXCEPT !.ready = FALSE, !.inReset = TRUE]
<1>1. /\ host \in BaudHosts /\ board \in BaudBoards /\ wire \in BaudWires
      /\ BaudShape(host, board, wire) /\ BoardAt(host, board, wire)
      /\ HostAt(host, wire) /\ UpAt(host, board, wire)
  BY Shape
<1>2. /\ host.pc = "online"
      /\ host.rate = IF host.now = Baud!Unset THEN Boot ELSE host.now
  BY <1>1 DEF UpAt, Baud!Reset
<1>3. Baud!Booting \in BaudBoards /\ Baud!Booting.rate = Boot
  BY <1>1, Toggling
<1>4. ASSUME NEW climbing \in BOOLEAN, NEW rate \in {Boot}, NEW now \in {Baud!Unset, Boot},
             host' = [down EXCEPT !.pc = "awaitReset", !.climbing = climbing, !.rate = rate,
                                  !.now = now],
             wire' = wire, board' = Baud!Seen(Baud!Booting)
      PROVE  BaudInv'
  <2>1. /\ host' \in BaudHosts /\ host'.pc = "awaitReset" /\ host'.rate = Boot
        /\ host'.now \in {Baud!Unset, Boot}
    BY <1>1, <1>4, RateFacts DEF BaudHosts, Baud!PCs
  <2>2. board' \in BaudBoards /\ board'.rate = Boot
    BY <1>3, <1>4 DEF Baud!Seen, BaudBoards
  <2>3. BaudShape(host', board', wire')
    BY <1>1, <1>4, <2>1, <2>2 DEF BaudShape
  <2>4. BoardAt(host', board', wire') /\ HostAt(host', wire') /\ UpAt(host', board', wire')
    BY <2>1, <2>2 DEF BoardAt, HostAt, UpAt, Asking, AtBoot, Baud!Waits, Baud!Up, Baud!Ends
  <2>5. QED  BY <2>3, <2>4 DEF BaudInv, BaudSound
<1>5. CASE /\ Baud!Answered
           /\ host' = [down EXCEPT !.pc = "awaitReset",
                                   !.climbing = ~(host.now \in {Baud!Unset, Boot}),
                                   !.rate = IF host.now = Baud!Unset THEN @ ELSE Boot,
                                   !.now = IF @ = Baud!Unset THEN @ ELSE Boot]
           /\ board' = Baud!Seen(Baud!Booting)
  <2> DEFINE climbing == ~(host.now \in {Baud!Unset, Boot})
             now == IF host.now = Baud!Unset THEN host.now ELSE Boot
  <2>1. down.rate = host.rate /\ down.now = host.now
    BY <1>1 DEF BaudHosts
  <2>2. host' = [down EXCEPT !.pc = "awaitReset", !.climbing = climbing, !.rate = Boot,
                             !.now = now]
    BY <1>2, <1>5, <2>1
  <2>3. climbing \in BOOLEAN /\ now \in {Baud!Unset, Boot} /\ wire' = wire
    BY <1>5 DEF Baud!Answered
  <2> HIDE DEF climbing, now, down
  <2>4. QED  BY <1>4, <1>5, <2>2, <2>3
\* SYS_RESET was missed, or its answer.
<1>6. ASSUME host' = [down EXCEPT !.pc = "broken"], board' \in {board, Baud!Booting},
             wire' \in BaudWires, wire'.carries = wire.carries, Excused(wire')
      PROVE  BaudInv'
  <2>1. host' \in BaudHosts /\ host'.pc = "broken"
    BY <1>1, <1>6 DEF BaudHosts, Baud!PCs, Baud!Ends
  <2>2. board' \in BaudBoards /\ (board'.banner => board'.rate = Boot)
    BY <1>1, <1>3, <1>6 DEF BoardAt
  <2>3. BaudShape(host', board', wire')
    BY <1>1, <1>6, <2>1, <2>2 DEF BaudShape
  <2>4. BoardAt(host', board', wire') /\ HostAt(host', wire') /\ UpAt(host', board', wire')
    BY <1>6, <2>1, <2>2 DEF BoardAt, HostAt, UpAt, Asking, AtBoot, Baud!Waits, Baud!Up, Baud!Ends
  <2>5. QED  BY <2>3, <2>4 DEF BaudInv, BaudSound
<1>7. CASE Baud!Missed("reset") /\ host' = [down EXCEPT !.pc = "broken"] /\ UNCHANGED board
  BY <1>1, <1>6, <1>7, Losing DEF Troubles, Baud!Missed
<1>8. CASE Baud!AnswerLost("reset") /\ host' = [down EXCEPT !.pc = "broken"]
           /\ board' = Baud!Booting
  BY <1>1, <1>6, <1>8, Losing DEF Troubles, Baud!AnswerLost
<1>9. QED  BY <1>5, <1>7, <1>8 DEF Baud!Reset

LEMMA AwaitResetKeeps ==
  ASSUME BaudInv, Baud!AwaitReset
  PROVE  BaudInv'
<1>1. /\ host \in BaudHosts /\ board \in BaudBoards /\ wire \in BaudWires
      /\ BaudShape(host, board, wire) /\ BoardAt(host, board, wire)
      /\ HostAt(host, wire) /\ UpAt(host, board, wire)
  BY Shape
<1>2. /\ host.pc = "awaitReset" /\ host.rate = Boot /\ host.now \in {Baud!Unset, Boot}
      /\ board.rate = Boot /\ board' = board /\ wire' = wire
  BY <1>1 DEF HostAt, BoardAt, Baud!AwaitReset, AtBoot, Baud!Ends
<1>3. CASE host.ready /\ host.climbing
  <2>1. PICK rungs \in Seq(Baud!Rates) : host' = [host EXCEPT !.pc = "rung", !.rungs = rungs]
    BY <1>1, <1>3, Rungs DEF Baud!AwaitReset, BaudHosts
  <2>2. /\ host' \in BaudHosts /\ host'.pc = "rung" /\ host'.rate = Boot /\ host'.ready
        /\ host'.now = host.now
    BY <1>1, <1>2, <1>3, <2>1 DEF BaudHosts, Baud!PCs, Baud!Up
  <2>3. QED  BY <1>1, <1>2, <2>2, Standing
<1>4. ASSUME NEW pc \in {"online", "broken"}, host' = [host EXCEPT !.pc = pc],
             pc = "online" => host.ready
      PROVE  BaudInv'
  <2>1. /\ host' \in BaudHosts /\ host'.pc = pc /\ host'.rate = Boot
        /\ (host'.ready <=> host.ready) /\ host'.now = host.now
    BY <1>1, <1>2, <1>4 DEF BaudHosts, Baud!PCs, Baud!Ends
  <2>2. BaudShape(host', board', wire')
    BY <1>1, <1>2, <2>1 DEF BaudShape
  <2>3. BoardAt(host', board', wire') /\ HostAt(host', wire')
    BY <1>1, <1>2, <1>4, <2>1 DEF BoardAt, HostAt, Asking, AtBoot, Baud!Waits, Baud!Up, Baud!Ends
  <2>4. UpAt(host', board', wire')
    BY <1>1, <1>2, <2>1 DEF UpAt, BaudShape
  <2>5. QED  BY <2>2, <2>3, <2>4 DEF BaudInv, BaudSound
<1>5. CASE ~host.ready
  <2>1. host' = [host EXCEPT !.pc = "broken"]
    BY <1>5 DEF Baud!AwaitReset
  <2>2. QED  BY <1>4, <2>1
<1>6. CASE host.ready /\ ~host.climbing
  <2>1. host' = [host EXCEPT !.pc = "online"]
    BY <1>6 DEF Baud!AwaitReset
  <2>2. QED  BY <1>4, <1>6, <2>1
<1>7. QED  BY <1>3, <1>5, <1>6

LEMMA CloseKeeps ==
  ASSUME BaudInv, Baud!Close
  PROVE  BaudInv'
<1>1. /\ host \in BaudHosts /\ board \in BaudBoards /\ wire \in BaudWires
      /\ BaudShape(host, board, wire) /\ BoardAt(host, board, wire)
      /\ HostAt(host, wire) /\ UpAt(host, board, wire)
  BY Shape
<1>2. host' \in BaudHosts /\ host'.pc = "closed"
  BY <1>1 DEF Baud!Close, BaudHosts, Baud!PCs, Baud!Ends
<1>3. ASSUME board' \in BaudBoards, board'.banner => board'.rate = Boot,
             wire' \in BaudWires, wire'.carries = wire.carries,
             board'.rate = Boot \/ Excused(wire')
      PROVE  BaudInv'
  <2>1. BaudShape(host', board', wire')
    BY <1>1, <1>2, <1>3 DEF BaudShape
  <2>2. BoardAt(host', board', wire') /\ HostAt(host', wire') /\ UpAt(host', board', wire')
    BY <1>2, <1>3 DEF BoardAt, HostAt, UpAt, Asking, AtBoot, Baud!Waits, Baud!Up, Baud!Ends
  <2>3. QED  BY <2>1, <2>2 DEF BaudInv, BaudSound
<1>4. CASE Baud!Missed("exit") /\ UNCHANGED board
  BY <1>1, <1>3, <1>4, Losing DEF Baud!Missed, Troubles, BoardAt
<1>5. CASE board' = Baud!Booting /\ UNCHANGED wire
  BY <1>1, <1>3, <1>5, Toggling
<1>6. CASE board' = [board EXCEPT !.rate = Boot] /\ UNCHANGED wire
  <2>1. board' \in BaudBoards /\ board'.rate = Boot
    BY <1>1, <1>6, RateFacts DEF BaudBoards
  <2>2. QED  BY <1>1, <1>3, <1>6, <2>1
\* Nothing is sent: a Bridge that is up is at Boot, and so is its board.
<1>7. CASE /\ ~(host.pc # "failed" /\ host.exitReset /\ host.ready)
           /\ ~(Baud!HandsBack /\ ~(host.pc # "failed" /\ host.exitReset))
           /\ UNCHANGED <<board, wire>>
  <2>1. board.rate = Boot \/ Excused(wire)
    <3>1. CASE host.pc = "online"
      <4>1. host.ready
        BY <1>1, <3>1 DEF HostAt, Baud!Up
      <4>2. host.now \in {Baud!Unset, Boot}
        BY <1>7, <3>1, <4>1 DEF Baud!HandsBack
      <4>3. QED  BY <1>1, <3>1, <4>2 DEF UpAt
    <3>2. CASE host.pc \in {"broken", "failed"}
      BY <1>1, <3>2 DEF BoardAt
    <3>3. QED  BY <3>1, <3>2 DEF Baud!Close
  <2>2. QED  BY <1>1, <1>3, <1>7, <2>1 DEF BoardAt
<1>8. QED  BY <1>4, <1>5, <1>6, <1>7 DEF Baud!Close

LEMMA BrownoutKeeps ==
  ASSUME BaudInv, Baud!Brownout
  PROVE  BaudInv'
<1>1. /\ host \in BaudHosts /\ board \in BaudBoards /\ wire \in BaudWires
      /\ BaudShape(host, board, wire) /\ BoardAt(host, board, wire)
      /\ HostAt(host, wire) /\ UpAt(host, board, wire)
  BY Shape
<1>2. host' = host /\ board' \in BaudBoards /\ board'.rate = Boot /\ board'.rebooted
  <2>1. board' = [Baud!Booting EXCEPT !.rebooted = TRUE] /\ host' = host
    BY DEF Baud!Brownout
  <2>2. QED  BY <1>1, <2>1, Toggling DEF BaudBoards
<1>3. wire' \in BaudWires /\ wire'.carries = wire.carries /\ (Excused(wire) => Excused(wire'))
  BY <1>1, Losing DEF Baud!Brownout, Troubles
<1>4. BaudShape(host', board', wire')
  BY <1>1, <1>2, <1>3 DEF BaudShape
<1>5. BoardAt(host', board', wire')
  BY <1>2 DEF BoardAt
<1>6. HostAt(host', wire')
  BY <1>1, <1>2, <1>3 DEF HostAt
<1>7. UpAt(host', board', wire')
  BY <1>1, <1>2 DEF UpAt
<1>8. QED  BY <1>4, <1>5, <1>6, <1>7 DEF BaudInv, BaudSound

LEMMA BaudStep ==
  ASSUME BaudInv, [Baud!Next]_(Baud!vars)
  PROVE  BaudInv'
<1>1. ASSUME UNCHANGED Baud!vars PROVE BaudInv'
  BY <1>1 DEF Baud!vars, BaudInv
<1>2. CASE Baud!Done
  BY <1>1, <1>2 DEF Baud!Done
<1>3. QED
  BY <1>1, <1>2, OpenKeeps, BannerKeeps, WaitKeeps, PollKeeps, ClimbKeeps, SetBaudKeeps,
     CheckKeeps, FallbackKeeps, ResetKeeps, AwaitResetKeeps, CloseKeeps, BrownoutKeeps
     DEF Baud!Next

\* A Bridge() or reset() that has returned left both ends of the serial link at the rate
\* that close() hands back, unless the board rebooted by itself since it was last heard,
\* and a board is left at its boot rate unless a frame that matters was lost (_handshake,
\* _try_baud, reset, close).
THEOREM LadderStaysAtOneRate == HostSpec => []OpensAtOneRate
<1> DEFINE Inv == part = "baud" => BaudInv
<1>1. HostInit => Inv
  BY BaudInit DEF HostInit
<1>2. Inv /\ [HostNext]_Parted => Inv'
  <2> SUFFICES ASSUME part = "baud" => BaudInv, [HostNext]_Parted, part' = "baud"
               PROVE  BaudInv'
    OBVIOUS
  <2>1. part = "baud" /\ [Baud!Next]_(Baud!vars)
    BY DEF HostNext, Parted, Baud!vars
  <2>2. QED  BY <2>1, BaudStep
<1>3. Inv => OpensAtOneRate
  BY BaudMeans DEF OpensAtOneRate
<1>4. QED  BY <1>1, <1>2, <1>3, PTL DEF HostSpec

-----------------------------------------------------------------------------
(* A set of boards *)

SetHosts ==
  [list : Seq(Nat), stale : SUBSET Nat, hand : Nat, at : Nat \ {0}, wifi : BOOLEAN,
   want : SUBSET Boards, main : Set!MainPCs, accept : Set!AcceptPCs,
   listening : BOOLEAN, overlap : BOOLEAN]
SetWires == [candidates : Seq([board : Boards, named : BOOLEAN]), backlog : Seq(Nat)]

\* The list, the hand and the backlog hold links that were made.
SetShape(h, b, w) ==
  /\ h \in SetHosts /\ b \in Seq(Set!Link) /\ w \in SetWires
  /\ \A i \in 1 .. Len(h.list) : h.list[i] \in 1 .. Len(b)
  /\ \A i \in 1 .. Len(w.backlog) : w.backlog[i] \in 1 .. Len(b)
  /\ h.hand \in 0 .. Len(b)

Adopting == {"open", "adopt", "drop"}

\* One thread at most has a link in hand: the constructor's, and after it the accepting one.
SetTurns(h) ==
  /\ h.hand # 0 <=> h.main \in Adopting \/ h.accept \in Adopting
  /\ h.accept # "none" => h.main \in {"using", "closing", "closed"}
  /\ h.listening => h.main = "using"

OneEach(h, b) ==
  \A i, j \in 1 .. Len(h.list) : b[h.list[i]].board = b[h.list[j]].board => i = j

\* An open link is a member, or in hand.
Held(h, b) ==
  \A l \in 1 .. Len(b) : b[l].open => l = h.hand \/ \E i \in 1 .. Len(h.list) : h.list[i] = l

\* close_all() has closed the members before its place, if nobody else is at the list.
ClosedSoFar(h, b) ==
  ~h.overlap =>
    /\ h.main \in {"closing", "closed"} => h.accept \notin Adopting
    /\ h.main = "closing" => \A i \in 1 .. Len(h.list) : i < h.at => ~b[h.list[i]].open
    /\ h.main \in {"closed", "raised"} => \A l \in 1 .. Len(b) : ~b[l].open

SetSound(h, b, w) ==
  SetShape(h, b, w) /\ SetTurns(h) /\ OneEach(h, b) /\ Held(h, b) /\ ClosedSoFar(h, b)
SetInv == SetSound(host, board, wire)

LEMMA SetMeans == SetInv => Set!OneLinkPerBoard /\ Set!NothingLeaks
<1> SUFFICES ASSUME SetInv PROVE Set!OneLinkPerBoard /\ Set!NothingLeaks
  OBVIOUS
<1>1. DOMAIN host.list = 1 .. Len(host.list) /\ DOMAIN board = 1 .. Len(board)
  BY DEF SetInv, SetSound, SetShape, SetHosts
<1>2. Set!OneLinkPerBoard
  BY <1>1 DEF SetInv, SetSound, OneEach, Set!OneLinkPerBoard
<1>3. Set!NothingLeaks
  BY <1>1 DEF SetInv, SetSound, Held, ClosedSoFar, Set!NothingLeaks, Set!Links, Set!Members, Set!ToSet
<1>4. QED  BY <1>2, <1>3

LEMMA SetInit ==
  ASSUME Set!Init
  PROVE  SetInv
<1>1. PICK wifi \in BOOLEAN, want \in SUBSET Boards :
        host = [list |-> <<>>, stale |-> {}, hand |-> 0, at |-> 1, wifi |-> wifi,
                want |-> want, main |-> "enumerate", accept |-> "none",
                listening |-> FALSE, overlap |-> FALSE]
  BY DEF Set!Init, Set!NoLink
<1>2. PICK n \in 0 .. 2 : \E c \in [1 .. n -> [board : Boards, named : BOOLEAN]] :
        wire = [candidates |-> c, backlog |-> <<>>]
  BY DEF Set!Init
<1>22. PICK c \in [1 .. n -> [board : Boards, named : BOOLEAN]] :
        wire = [candidates |-> c, backlog |-> <<>>]
  BY <1>2
<1>3. board = <<>> /\ c \in Seq([board : Boards, named : BOOLEAN])
  <2>1. n \in Nat
    OBVIOUS
  <2> DEFINE S == [board : Boards, named : BOOLEAN]
  <2>2. c \in [1 .. n -> S]
    OBVIOUS
  <2> HIDE DEF S
  <2>3. c \in Seq(S)
    BY <2>1, <2>2, SeqDef
  <2>4. QED  BY <2>3 DEF S, Set!Init
<1>4. host \in SetHosts
  BY <1>1 DEF SetHosts, Set!MainPCs, Set!AcceptPCs
<1>5. wire \in SetWires
  BY <1>22, <1>3 DEF SetWires
<1>6. QED
  BY <1>1, <1>22, <1>3, <1>4, <1>5 DEF SetInv, SetSound, SetShape, SetTurns, OneEach, Held,
     ClosedSoFar, Adopting

\* Closing links changes no link's board and opens none.
LEMMA Closes ==
  ASSUME board \in Seq(Set!Link), NEW L
  PROVE  /\ Set!Closed(L) \in Seq(Set!Link) /\ Len(Set!Closed(L)) = Len(board)
         /\ \A l \in 1 .. Len(board) :
              /\ Set!Closed(L)[l].board = board[l].board
              /\ Set!Closed(L)[l].open <=> (board[l].open /\ l \notin L)
<1> DEFINE c(l) == IF l \in L THEN [board[l] EXCEPT !.open = FALSE, !.up = FALSE] ELSE board[l]
<1>1. Len(board) \in Nat /\ DOMAIN board = 1 .. Len(board)
  OBVIOUS
<1>2. Set!Closed(L) = [l \in 1 .. Len(board) |-> c(l)]
  BY <1>1 DEF Set!Closed, Set!Links
<1>3. ASSUME NEW l \in 1 .. Len(board)
      PROVE  /\ c(l) \in Set!Link /\ c(l).board = board[l].board
             /\ c(l).open <=> (board[l].open /\ l \notin L)
  <2>1. board[l] \in Set!Link
    OBVIOUS
  <2>2. CASE l \in L
    BY <2>1, <2>2 DEF Set!Link
  <2>3. CASE l \notin L
    BY <2>1, <2>3 DEF Set!Link
  <2>4. QED  BY <2>2, <2>3
<1> HIDE DEF c
<1>4. Set!Closed(L) \in [1 .. Len(board) -> Set!Link]
  BY <1>2, <1>3
<1>5. Set!Closed(L) \in Seq(Set!Link) /\ Len(Set!Closed(L)) = Len(board)
  BY <1>1, <1>4, SeqDef
<1>6. QED  BY <1>2, <1>3, <1>5

\* Taking the i-th of a sequence away.
LEMMA Removed ==
  ASSUME NEW S, NEW s \in Seq(S), NEW i \in 1 .. Len(s)
  PROVE  /\ Set!RemoveAt(s, i) \in Seq(S) /\ Len(Set!RemoveAt(s, i)) = Len(s) - 1
         /\ \A j \in 1 .. Len(s) - 1 :
              Set!RemoveAt(s, i)[j] = IF j < i THEN s[j] ELSE s[j + 1]
<1> DEFINE u == SubSeq(s, 1, i - 1)
           v == SubSeq(s, i + 1, Len(s))
<1>1. /\ u \in Seq(S) /\ Len(u) = i - 1 /\ \A j \in 1 .. i - 1 : u[j] = s[j]
      /\ v \in Seq(S) /\ Len(v) = Len(s) - i /\ \A j \in 1 .. Len(s) - i : v[j] = s[i + j]
  BY SubSeqProperties
<1>2. Set!RemoveAt(s, i) = u \o v
  BY DEF Set!RemoveAt
<1> HIDE DEF u, v
<1>3. u \o v \in Seq(S) /\ Len(u \o v) = Len(s) - 1
  BY <1>1
<1>4. ASSUME NEW j \in 1 .. Len(s) - 1
      PROVE  (u \o v)[j] = IF j < i THEN s[j] ELSE s[j + 1]
  BY <1>1, <1>4
<1>5. QED  BY <1>2, <1>3, <1>4

\* A new link is put into the hands of the constructor's thread, or dials in.
LEMMA Appended ==
  ASSUME board \in Seq(Set!Link), NEW x \in Set!Link, board' = Append(board, x)
  PROVE  /\ board' \in Seq(Set!Link) /\ Len(board') = Len(board) + 1
         /\ board'[Len(board) + 1] = x
         /\ \A l \in 1 .. Len(board) : board'[l] = board[l]
  OBVIOUS

SetReady(h, b, w) ==
  /\ h \in SetHosts /\ b \in Seq(Set!Link) /\ w \in SetWires
  /\ DOMAIN b = 1 .. Len(b) /\ Len(b) \in Nat

\* One element of a sequence is replaced.
LEMMA Replaced ==
  ASSUME NEW S, NEW s \in Seq(S), NEW i \in 1 .. Len(s), NEW x \in S
  PROVE  /\ [s EXCEPT ![i] = x] \in Seq(S) /\ Len([s EXCEPT ![i] = x]) = Len(s) /\ Len(s) \in Nat
         /\ [s EXCEPT ![i] = x][i] = x
         /\ \A j \in 1 .. Len(s) : j # i => [s EXCEPT ![i] = x][j] = s[j]
  OBVIOUS

LEMMA CandidateKeeps ==
  ASSUME SetInv, Set!Candidate
  PROVE  SetInv'
<1> DEFINE n == Len(board) + 1
           x == [Set!NewLink(Head(wire.candidates).board) EXCEPT !.open = TRUE]
<1>1. /\ host \in SetHosts /\ board \in Seq(Set!Link) /\ wire \in SetWires
      /\ host.main = "enumerate" /\ host.accept = "none" /\ host.hand = 0
      /\ wire.candidates # <<>>
      /\ wire' = [wire EXCEPT !.candidates = Tail(@)]
  BY DEF SetInv, SetSound, SetShape, SetTurns, Set!Candidate, Adopting
<1>2. /\ wire' \in SetWires /\ wire'.backlog = wire.backlog
      /\ Head(wire.candidates).board \in Boards
  <2> DEFINE S == [board : Boards, named : BOOLEAN]
  <2>1. wire.candidates \in Seq(S) /\ wire \in [candidates : Seq(S), backlog : Seq(Nat)]
    BY <1>1 DEF SetWires
  <2>2. Head(wire.candidates) \in S /\ Tail(wire.candidates) \in Seq(S)
    <3> HIDE DEF S
    <3> QED  BY <1>1, <2>1
  <2>3. wire' \in [candidates : Seq(S), backlog : Seq(Nat)] /\ wire'.backlog = wire.backlog
    <3> HIDE DEF S
    <3> QED  BY <1>1, <2>1, <2>2
  <2>4. QED  BY <2>2, <2>3 DEF SetWires
<1>3. CASE UNCHANGED <<host, board>>
  BY <1>2, <1>3 DEF SetInv, SetSound, SetShape, SetTurns, OneEach, Held, ClosedSoFar
<1>4. CASE /\ board' = Append(board, x)
           /\ host' = [host EXCEPT !.main = "open", !.hand = n]
  <2>1. x \in Set!Link /\ x.open
    BY <1>2 DEF Set!NewLink, Set!Link
  <2> HIDE DEF x
  <2>2. /\ board' \in Seq(Set!Link) /\ Len(board') = Len(board) + 1
        /\ board'[Len(board) + 1] = x
        /\ \A l \in 1 .. Len(board) : board'[l] = board[l]
    BY <1>1, <1>4, <2>1, Appended
  <2>3. /\ host' \in SetHosts /\ host'.list = host.list /\ host'.overlap = host.overlap
        /\ host'.main = "open" /\ host'.hand = n /\ host'.accept = "none"
        /\ host'.listening = host.listening
    <3>1. n \in Nat /\ "open" \in Set!MainPCs
      BY <1>1 DEF Set!MainPCs
    <3> HIDE DEF n
    <3>2. QED  BY <1>1, <1>4, <3>1 DEF SetHosts
  <2>4. SetShape(host', board', wire')
    BY <1>1, <1>2, <2>2, <2>3 DEF SetInv, SetSound, SetShape
  <2>5. OneEach(host', board') /\ Held(host', board')
    BY <1>1, <2>2, <2>3 DEF SetInv, SetSound, SetShape, OneEach, Held
  <2>6. SetTurns(host') /\ ClosedSoFar(host', board')
    BY <1>1, <2>3 DEF SetInv, SetSound, SetTurns, ClosedSoFar, Adopting
  <2>7. QED  BY <2>4, <2>5, <2>6 DEF SetInv, SetSound
<1>5. QED  BY <1>3, <1>4 DEF Set!Candidate

\* Nothing but a program counter moves, and nobody new is at the list.
Moves(h, k) ==
  /\ k \in SetHosts /\ SetTurns(k)
  /\ k.list = h.list /\ k.at = h.at /\ k.overlap = h.overlap
  /\ \/ k.main = h.main /\ (k.accept \in Adopting => h.accept \in Adopting)
     \/ k.main \notin {"closing", "closed", "raised"}

LEMMA MovesKeep ==
  ASSUME SetInv, Moves(host, host'), host'.hand = host.hand, UNCHANGED <<board, wire>>
  PROVE  SetInv'
<1>1. SetShape(host', board', wire') /\ OneEach(host', board') /\ Held(host', board')
  BY DEF SetInv, SetSound, SetShape, OneEach, Held, Moves
<1>2. ClosedSoFar(host', board')
  BY DEF SetInv, SetSound, ClosedSoFar, Moves
<1>3. QED  BY <1>1, <1>2 DEF Moves, SetInv, SetSound

\* The link in hand is closed and put down.
LEMMA HandClosed ==
  ASSUME SetInv, Moves(host, host'), host'.hand = 0, host'.accept \notin Adopting, wire' = wire,
         board' \in Seq(Set!Link), Len(board') = Len(board),
         \A l \in 1 .. Len(board) :
           /\ board'[l].board = board[l].board
           /\ board'[l].open => board[l].open /\ l # host.hand
  PROVE  SetInv'
<1>1. Len(board) \in Nat
  BY DEF SetInv, SetSound, SetShape
<1>0. /\ host.list \in Seq(Nat) /\ host'.list = host.list /\ host' \in SetHosts
      /\ \A i \in 1 .. Len(host.list) : host.list[i] \in 1 .. Len(board)
      /\ wire \in SetWires /\ \A i \in 1 .. Len(wire.backlog) : wire.backlog[i] \in 1 .. Len(board)
  BY DEF SetInv, SetSound, SetShape, SetHosts, Moves
<1>2. SetShape(host', board', wire')
  BY <1>0, <1>1 DEF SetShape
<1>3. OneEach(host', board') /\ Held(host', board')
  <2>1. OneEach(host, board) /\ Held(host, board)
    BY DEF SetInv, SetSound
  <2>2. \A i \in 1 .. Len(host.list) : board'[host.list[i]].board = board[host.list[i]].board
    BY <1>0
  <2>3. OneEach(host', board')
    BY <1>0, <2>1, <2>2 DEF OneEach
  <2>4. Held(host', board')
    BY <1>0, <1>1, <2>1 DEF Held
  <2>5. QED  BY <2>3, <2>4
<1>4. ClosedSoFar(host', board')
  BY <1>1 DEF SetInv, SetSound, SetShape, ClosedSoFar, Moves
<1>5. QED  BY <1>2, <1>3, <1>4 DEF Moves, SetInv, SetSound

LEMMA PutDown ==
  ASSUME SetInv, Moves(host, host'), host'.hand = 0, host'.accept \notin Adopting,
         board' = Set!Closed({host.hand}), wire' = wire
  PROVE  SetInv'
<1>1. /\ board' \in Seq(Set!Link) /\ Len(board') = Len(board)
      /\ \A l \in 1 .. Len(board) :
           /\ board'[l].board = board[l].board
           /\ board'[l].open => board[l].open /\ l # host.hand
  BY Closes DEF SetInv, SetSound, SetShape
<1>2. QED  BY <1>1, HandClosed

\* Boards and links come and go, and none is opened on the host.
LEMMA NoneOpened ==
  ASSUME SetInv, host' = host, wire' \in SetWires, board' \in Seq(Set!Link),
         Len(board) <= Len(board'),
         \A i \in 1 .. Len(wire'.backlog) : wire'.backlog[i] \in 1 .. Len(board'),
         \A l \in 1 .. Len(board) : /\ board'[l].board = board[l].board
                                   /\ board'[l].open = board[l].open,
         \A l \in 1 .. Len(board') : l > Len(board) => ~board'[l].open
  PROVE  SetInv'
<1>1. Len(board) \in Nat /\ Len(board') \in Nat
  BY DEF SetInv, SetSound, SetShape
<1>2. SetShape(host', board', wire')
  BY <1>1 DEF SetInv, SetSound, SetShape
<1>3. \A i \in 1 .. Len(host.list) : host.list[i] \in 1 .. Len(board)
  BY DEF SetInv, SetSound, SetShape
<1>4. \A l \in 1 .. Len(board') : board'[l].open => l \in 1 .. Len(board) /\ board[l].open
  BY <1>1
<1>5. OneEach(host, board) /\ Held(host, board) /\ ClosedSoFar(host, board)
  BY DEF SetInv, SetSound
<1>6. OneEach(host', board')
  BY <1>3, <1>5 DEF OneEach
<1>7. Held(host', board')
  BY <1>4, <1>5 DEF Held
<1>8. ClosedSoFar(host', board')
  <2>1. \A i \in 1 .. Len(host.list) : ~board[host.list[i]].open => ~board'[host.list[i]].open
    BY <1>3
  <2>2. QED  BY <1>4, <1>5, <2>1 DEF ClosedSoFar
<1>9. QED  BY <1>2, <1>6, <1>7, <1>8 DEF SetInv, SetSound

LEMMA MainOpenKeeps ==
  ASSUME SetInv, Set!MainOpen
  PROVE  SetInv'
<1>1. /\ host \in SetHosts /\ host.main = "open" /\ SetTurns(host) /\ wire' = wire
  BY DEF SetInv, SetSound, SetShape, Set!MainOpen
<1>2. CASE host' = [host EXCEPT !.main = "adopt"] /\ UNCHANGED board
  <2>1. Moves(host, host') /\ host'.hand = host.hand
    BY <1>1, <1>2 DEF SetHosts, Set!MainPCs, Moves, SetTurns, Adopting
  <2>2. QED  BY <1>1, <1>2, <2>1, MovesKeep
<1>3. ASSUME NEW after \in {"enumerate", "escaped"},
             host' = [host EXCEPT !.main = after, !.hand = 0],
             board' = Set!Closed({host.hand})
      PROVE  SetInv'
  <2>1. Moves(host, host') /\ host'.hand = 0 /\ host'.accept \notin Adopting
    BY <1>1, <1>3 DEF SetHosts, Set!MainPCs, Moves, SetTurns, Adopting
  <2>2. QED  BY <1>1, <1>3, <2>1, PutDown
<1>4. QED  BY <1>2, <1>3 DEF Set!MainOpen, Set!NoLink

LEMMA JudgeKeeps ==
  ASSUME SetInv, Set!Judge
  PROVE  SetInv'
<1>1. /\ host \in SetHosts /\ host.main = "enumerate" /\ SetTurns(host)
      /\ UNCHANGED <<board, wire>>
  BY DEF SetInv, SetSound, SetShape, Set!Judge
<1>2. \/ host' = [host EXCEPT !.main = "using", !.accept = "idle", !.listening = TRUE]
      \/ host' = [host EXCEPT !.main = "escaped"]
      \/ host' = [host EXCEPT !.main = "judge"]
      \/ host' = [host EXCEPT !.main = "using"]
  BY DEF Set!Judge
<1>3. Moves(host, host') /\ host'.hand = host.hand
  <2>1. CASE host' = [host EXCEPT !.main = "using", !.accept = "idle", !.listening = TRUE]
    BY <1>1, <2>1 DEF SetHosts, Set!MainPCs, Set!AcceptPCs, Moves, SetTurns, Adopting
  <2>2. ASSUME NEW next \in {"escaped", "judge", "using"}, host' = [host EXCEPT !.main = next]
        PROVE  Moves(host, host') /\ host'.hand = host.hand
    BY <1>1, <2>2 DEF SetHosts, Set!MainPCs, Moves, SetTurns, Adopting
  <2>3. QED  BY <1>2, <2>1, <2>2
<1>4. QED  BY <1>1, <1>3, MovesKeep

LEMMA AdoptKeeps ==
  ASSUME SetInv, Set!Adopt
  PROVE  SetInv'
<1>1. /\ host \in SetHosts /\ SetTurns(host) /\ UNCHANGED <<board, wire>>
      /\ Set!At("adopt") /\ host' = [Set!Go("drop") EXCEPT !.stale = Set!Stale]
  BY DEF SetInv, SetSound, SetShape, Set!Adopt
<1>2. Set!Stale \in SUBSET Nat
  BY DEF SetInv, SetSound, SetShape, SetHosts, Set!Stale, Set!Members, Set!ToSet
<1>3. \/ host.main = "adopt" /\ host' = [host EXCEPT !.main = "drop", !.stale = Set!Stale]
      \/ host.accept = "adopt" /\ host' = [host EXCEPT !.accept = "drop", !.stale = Set!Stale]
  BY <1>1 DEF Set!At, Set!Go, Set!Adopter, SetHosts
<1>4. Moves(host, host') /\ host'.hand = host.hand
  BY <1>1, <1>2, <1>3 DEF SetHosts, Set!MainPCs, Set!AcceptPCs, Moves, SetTurns, Adopting
<1>5. QED  BY <1>1, <1>4, MovesKeep

LEMMA AcceptOpenKeeps ==
  ASSUME SetInv, Set!AcceptOpen
  PROVE  SetInv'
<1>1. /\ host \in SetHosts /\ host.accept = "open" /\ SetTurns(host) /\ wire' = wire
  BY DEF SetInv, SetSound, SetShape, Set!AcceptOpen
<1>2. CASE host' = [host EXCEPT !.accept = "adopt"] /\ UNCHANGED board
  <2>1. Moves(host, host') /\ host'.hand = host.hand
    BY <1>1, <1>2 DEF SetHosts, Set!AcceptPCs, Moves, SetTurns, Adopting
  <2>2. QED  BY <1>1, <1>2, <2>1, MovesKeep
<1>3. ASSUME NEW a \in {"idle", "died"}, host' = [host EXCEPT !.accept = a, !.hand = 0],
             board' = Set!Closed({host.hand})
      PROVE  SetInv'
  <2>1. Moves(host, host') /\ host'.hand = 0 /\ host'.accept \notin Adopting
    BY <1>1, <1>3 DEF SetHosts, Set!AcceptPCs, Moves, SetTurns, Adopting
  <2>2. QED  BY <1>1, <1>3, <2>1, PutDown
<1>4. QED  BY <1>2, <1>3 DEF Set!AcceptOpen, Set!NoLink

LEMMA AcceptExitKeeps ==
  ASSUME SetInv, Set!AcceptExit
  PROVE  SetInv'
<1>1. /\ host \in SetHosts /\ host.accept = "idle" /\ SetTurns(host)
      /\ UNCHANGED <<board, wire>> /\ host' = [host EXCEPT !.accept = "exited"]
  BY DEF SetInv, SetSound, SetShape, Set!AcceptExit
<1>2. Moves(host, host') /\ host'.hand = host.hand
  BY <1>1 DEF SetHosts, Set!AcceptPCs, Moves, SetTurns, Adopting
<1>3. QED  BY <1>1, <1>2, MovesKeep

LEMMA GiveUpKeeps ==
  ASSUME SetInv, Set!GiveUp
  PROVE  SetInv'
<1>1. /\ host \in SetHosts /\ host.main = "judge" /\ SetTurns(host) /\ wire' = wire
      /\ host' = [host EXCEPT !.main = "raised"] /\ board' = Set!Closed(Set!Members)
      /\ Held(host, board)
  BY DEF SetInv, SetSound, SetShape, Set!GiveUp
<1>2. host' \in SetHosts /\ SetTurns(host') /\ host'.hand = 0 /\ host.hand = 0
      /\ host'.list = host.list /\ host'.main = "raised"
  BY <1>1 DEF SetHosts, Set!MainPCs, SetTurns, Adopting
<1>3. Set!Members = {host.list[i] : i \in 1 .. Len(host.list)}
  BY <1>1 DEF Set!Members, Set!ToSet, SetHosts
<1>4. /\ board' \in Seq(Set!Link) /\ Len(board') = Len(board)
      /\ \A l \in 1 .. Len(board) :
           /\ board'[l].board = board[l].board
           /\ board'[l].open => board[l].open /\ l \notin Set!Members
  BY <1>1, Closes DEF SetInv, SetSound, SetShape
<1>5. \A l \in 1 .. Len(board) : ~board'[l].open
  BY <1>1, <1>2, <1>3, <1>4 DEF Held, SetInv, SetSound, SetShape
<1>6. \A i \in 1 .. Len(host.list) : host.list[i] \in 1 .. Len(board)
  BY DEF SetInv, SetSound, SetShape
<1>7. SetShape(host', board', wire')
  BY <1>1, <1>2, <1>4 DEF SetInv, SetSound, SetShape
<1>8. OneEach(host', board')
  <2>1. \A i \in 1 .. Len(host.list) : board'[host.list[i]].board = board[host.list[i]].board
    BY <1>4, <1>6
  <2>2. QED  BY <1>2, <2>1 DEF SetInv, SetSound, OneEach
<1>9. Held(host', board') /\ ClosedSoFar(host', board')
  BY <1>2, <1>4, <1>5 DEF Held, ClosedSoFar
<1>10. QED  BY <1>2, <1>7, <1>8, <1>9 DEF SetInv, SetSound

LEMMA AcceptKeeps ==
  ASSUME SetInv, Set!Accept
  PROVE  SetInv'
<1> DEFINE l == Head(wire.backlog)
<1>1. /\ host \in SetHosts /\ host.accept = "idle" /\ host.listening /\ host.main = "using"
      /\ host.hand = 0 /\ SetTurns(host) /\ board \in Seq(Set!Link) /\ wire \in SetWires
      /\ wire.backlog # <<>> /\ wire' = [wire EXCEPT !.backlog = Tail(@)]
  BY DEF SetInv, SetSound, SetShape, SetTurns, Adopting, Set!Accept
<1>2. /\ wire.backlog \in Seq(Nat) /\ wire' \in SetWires /\ wire'.backlog = Tail(wire.backlog)
      /\ \A i \in 1 .. Len(wire.backlog) : wire.backlog[i] \in 1 .. Len(board)
  <2>1. wire \in SetWires /\ wire.backlog # <<>> /\ wire' = [wire EXCEPT !.backlog = Tail(@)]
    BY <1>1
  <2>2. wire.backlog \in Seq(Nat)
    BY <2>1 DEF SetWires
  <2>3. Tail(wire.backlog) \in Seq(Nat)
    BY <2>1, <2>2
  <2>4. wire' \in SetWires /\ wire'.backlog = Tail(wire.backlog)
    BY <2>1, <2>3 DEF SetWires
  <2>5. \A i \in 1 .. Len(wire.backlog) : wire.backlog[i] \in 1 .. Len(board)
    BY DEF SetInv, SetSound, SetShape
  <2>6. QED  BY <2>2, <2>4, <2>5
<1>3. /\ l \in 1 .. Len(board)
      /\ \A i \in 1 .. Len(wire'.backlog) : wire'.backlog[i] \in 1 .. Len(board)
  <2> DEFINE n == Len(board)
             q == wire.backlog
  <2>1. q \in Seq(Nat) /\ q # <<>> /\ wire'.backlog = Tail(q)
        /\ \A i \in 1 .. Len(q) : q[i] \in 1 .. n
    BY <1>1, <1>2
  <2> HIDE DEF n, q
  <2>2. Head(q) \in 1 .. n /\ Len(Tail(q)) = Len(q) - 1 /\ Len(q) \in Nat
        /\ \A i \in 1 .. Len(q) - 1 : Tail(q)[i] = q[i + 1]
    BY <2>1
  <2>3. \A i \in 1 .. Len(Tail(q)) : Tail(q)[i] \in 1 .. n
    BY <2>1, <2>2
  <2>4. QED  BY <2>1, <2>2, <2>3 DEF q, n
<1> HIDE DEF l
<1>4. CASE host' = [host EXCEPT !.accept = "open", !.hand = l] /\ board' = [board EXCEPT ![l].open = TRUE]
  <2>1. /\ board' \in Seq(Set!Link) /\ Len(board') = Len(board) /\ Len(board) \in Nat
        /\ \A m \in 1 .. Len(board) : board'[m].board = board[m].board
        /\ \A m \in 1 .. Len(board) : board'[m].open => m = l \/ board[m].open
    <3>1. board[l] \in Set!Link
      BY <1>1, <1>3
    <3>2. [board[l] EXCEPT !.open = TRUE] \in Set!Link
          /\ [board[l] EXCEPT !.open = TRUE].board = board[l].board
      BY <3>1 DEF Set!Link
    <3>3. board' = [board EXCEPT ![l] = [board[l] EXCEPT !.open = TRUE]]
      BY <1>4
    <3>4. /\ board' \in Seq(Set!Link) /\ Len(board') = Len(board) /\ Len(board) \in Nat
          /\ board'[l] = [board[l] EXCEPT !.open = TRUE]
          /\ \A m \in 1 .. Len(board) : m # l => board'[m] = board[m]
      <4>1. board \in Seq(Set!Link) /\ l \in 1 .. Len(board)
        BY <1>1, <1>3
      <4> DEFINE x == [board[l] EXCEPT !.open = TRUE]
      <4>2. x \in Set!Link /\ board' = [board EXCEPT ![l] = x]
        BY <3>2, <3>3
      <4>3. x = [board[l] EXCEPT !.open = TRUE]
        OBVIOUS
      <4> HIDE DEF x
      <4>4. /\ [board EXCEPT ![l] = x] \in Seq(Set!Link)
            /\ Len([board EXCEPT ![l] = x]) = Len(board) /\ Len(board) \in Nat
            /\ [board EXCEPT ![l] = x][l] = x
            /\ \A m \in 1 .. Len(board) : m # l => [board EXCEPT ![l] = x][m] = board[m]
        BY <4>1, <4>2, Replaced
      <4>5. QED  BY <4>2, <4>3, <4>4
    <3>5. \A m \in 1 .. Len(board) : board'[m].board = board[m].board
      BY <3>2, <3>4
    <3>6. \A m \in 1 .. Len(board) : board'[m].open => m = l \/ board[m].open
      BY <3>4
    <3>7. QED  BY <3>4, <3>5, <3>6
  <2>2. /\ host' \in SetHosts /\ host'.list = host.list /\ host'.overlap = host.overlap
        /\ host'.hand = l /\ host'.main = "using" /\ SetTurns(host')
    <3>1. host \in SetHosts /\ host' = [host EXCEPT !.accept = "open", !.hand = l]
          /\ host.main = "using" /\ SetTurns(host)
      BY <1>1, <1>4
    <3>2. l \in Nat /\ l # 0 /\ "open" \in Set!AcceptPCs
      BY <1>3, <2>1 DEF Set!AcceptPCs
    <3>3. host' \in SetHosts /\ host'.list = host.list /\ host'.overlap = host.overlap
          /\ host'.hand = l /\ host'.main = "using" /\ host'.accept = "open"
          /\ host'.listening = host.listening
      BY <3>1, <3>2 DEF SetHosts
    <3>4. QED  BY <3>1, <3>2, <3>3 DEF SetTurns, Adopting
  <2>3. SetShape(host', board', wire')
    BY <1>2, <1>3, <2>1, <2>2 DEF SetInv, SetSound, SetShape
  <2>4. OneEach(host', board')
    <3>1. \A i \in 1 .. Len(host.list) : host.list[i] \in 1 .. Len(board)
      BY DEF SetInv, SetSound, SetShape
    <3>2. \A i \in 1 .. Len(host.list) : board'[host.list[i]].board = board[host.list[i]].board
      BY <2>1, <3>1
    <3>3. QED  BY <2>2, <3>2 DEF SetInv, SetSound, OneEach
  <2>5. Held(host', board')
    <3>1. Held(host, board) /\ host.hand = 0
      BY <1>1 DEF SetInv, SetSound
    <3>2. QED  BY <2>1, <2>2, <3>1 DEF Held
  <2>6. ClosedSoFar(host', board')
    BY <2>2 DEF ClosedSoFar
  <2>7. QED  BY <2>2, <2>3, <2>4, <2>5, <2>6 DEF SetInv, SetSound
<1>5. CASE host' = [host EXCEPT !.accept = "died"] /\ UNCHANGED board
  <2>1. /\ host' \in SetHosts /\ host'.list = host.list /\ host'.overlap = host.overlap
        /\ host'.hand = host.hand /\ host'.main = "using" /\ SetTurns(host')
    BY <1>1, <1>5 DEF SetHosts, Set!AcceptPCs, SetTurns, Adopting
  <2>2. SetShape(host', board', wire')
    BY <1>2, <1>3, <1>5, <2>1 DEF SetInv, SetSound, SetShape
  <2>3. OneEach(host', board') /\ Held(host', board') /\ ClosedSoFar(host', board')
    BY <1>5, <2>1 DEF SetInv, SetSound, OneEach, Held, ClosedSoFar
  <2>4. QED  BY <2>1, <2>2, <2>3 DEF SetInv, SetSound
<1>6. QED  BY <1>4, <1>5 DEF Set!Accept, l

LEMMA CloseListenerKeeps ==
  ASSUME SetInv, Set!CloseListener
  PROVE  SetInv'
<1> DEFINE b == [l \in Set!Links |-> IF l \in Set!ToSet(wire.backlog)
                                     THEN [board[l] EXCEPT !.up = FALSE] ELSE board[l]]
<1>1. /\ host \in SetHosts /\ host.main = "using" /\ SetTurns(host)
      /\ host' = [host EXCEPT !.main = "closing", !.listening = FALSE, !.at = 1,
                               !.overlap = Set!Busy]
      /\ board \in Seq(Set!Link) /\ wire \in SetWires
      /\ wire' = [wire EXCEPT !.backlog = <<>>] /\ board' = b
  BY DEF SetInv, SetSound, SetShape, Set!CloseListener
<1>2. /\ host' \in SetHosts /\ SetTurns(host') /\ host'.list = host.list
      /\ host'.hand = host.hand /\ host'.main = "closing" /\ host'.at = 1
      /\ ~host'.overlap => host'.accept \notin Adopting
  <2>1. /\ host \in SetHosts /\ host.main = "using" /\ SetTurns(host)
        /\ host' = [host EXCEPT !.main = "closing", !.listening = FALSE, !.at = 1,
                                 !.overlap = Set!Busy]
    BY <1>1
  <2>2. /\ Set!Busy \in BOOLEAN /\ "closing" \in Set!MainPCs /\ 1 \in Nat \ {0}
        /\ Set!Busy <=> host.accept \in Adopting
    BY DEF Set!MainPCs, Set!Busy, Adopting
  <2> HIDE DEF Set!Busy
  <2>3. host' \in SetHosts /\ host'.list = host.list /\ host'.hand = host.hand
        /\ host'.main = "closing" /\ host'.at = 1 /\ host'.accept = host.accept
        /\ host'.listening = FALSE /\ (host'.overlap <=> Set!Busy)
    BY <2>1, <2>2 DEF SetHosts
  <2>4. QED  BY <2>1, <2>2, <2>3 DEF SetTurns, Adopting
<1>3. wire' \in SetWires /\ wire'.backlog = <<>>
  <2>1. wire \in SetWires /\ wire' = [wire EXCEPT !.backlog = <<>>] /\ <<>> \in Seq(Nat)
    BY <1>1
  <2>2. QED  BY <2>1 DEF SetWires
<1>4. /\ board' \in Seq(Set!Link) /\ Len(board') = Len(board) /\ Len(board) \in Nat
      /\ \A l \in 1 .. Len(board) : /\ board'[l].board = board[l].board
                                   /\ board'[l].open = board[l].open
  <2> DEFINE c(l) == IF l \in Set!ToSet(wire.backlog)
                     THEN [board[l] EXCEPT !.up = FALSE] ELSE board[l]
  <2>1. Len(board) \in Nat /\ DOMAIN board = 1 .. Len(board)
    BY <1>1
  <2>2. board' = [l \in 1 .. Len(board) |-> c(l)]
    BY <1>1, <2>1 DEF Set!Links
  <2>3. ASSUME NEW l \in 1 .. Len(board)
        PROVE  c(l) \in Set!Link /\ c(l).board = board[l].board /\ c(l).open = board[l].open
    <3>1. board[l] \in Set!Link
      BY <1>1
    <3>2. QED  BY <3>1 DEF Set!Link
  <2> HIDE DEF c
  <2>4. board' \in [1 .. Len(board) -> Set!Link]
    BY <2>2, <2>3
  <2>5. board' \in Seq(Set!Link) /\ Len(board') = Len(board)
    BY <2>1, <2>4, SeqDef
  <2>6. QED  BY <2>1, <2>2, <2>3, <2>5
<1> HIDE DEF b
<1>5. SetShape(host', board', wire')
  BY <1>2, <1>3, <1>4 DEF SetInv, SetSound, SetShape
<1>6. OneEach(host', board')
  <2>1. \A i \in 1 .. Len(host.list) : board'[host.list[i]].board = board[host.list[i]].board
    BY <1>4 DEF SetInv, SetSound, SetShape
  <2>2. QED  BY <1>2, <2>1 DEF SetInv, SetSound, OneEach
<1>7. Held(host', board')
  BY <1>2, <1>4 DEF SetInv, SetSound, Held
<1>8. ClosedSoFar(host', board')
  BY <1>1, <1>2 DEF ClosedSoFar, SetHosts
<1>9. QED  BY <1>2, <1>5, <1>6, <1>7, <1>8 DEF SetInv, SetSound

LEMMA DropStaleKeeps ==
  ASSUME SetInv, Set!DropStale
  PROVE  SetInv'
<1>1. /\ host \in SetHosts /\ SetTurns(host) /\ wire' = wire /\ board \in Seq(Set!Link)
      /\ host.list \in Seq(Nat) /\ host.stale \in SUBSET Nat
  BY DEF SetInv, SetSound, SetShape, SetHosts, Set!DropStale
<1>2. PICK i \in DOMAIN host.list :
        /\ host' = [host EXCEPT !.stale = @ \ {host.list[i]}, !.list = Set!RemoveAt(@, i)]
        /\ board' = Set!Closed({host.list[i]})
  BY DEF Set!DropStale
<1> DEFINE n == Len(host.list)
           s == host.list
           t == Set!RemoveAt(host.list, i)
<1>3. /\ n \in Nat /\ i \in 1 .. n
      /\ t \in Seq(Nat) /\ Len(t) = n - 1
      /\ \A j \in 1 .. n - 1 : t[j] = IF j < i THEN s[j] ELSE s[j + 1]
  <2>1. i \in 1 .. Len(host.list) /\ Len(host.list) \in Nat
    BY <1>1
  <2>2. QED  BY <1>1, <2>1, Removed
<1>4. /\ host' \in SetHosts /\ host'.list = t /\ host'.hand = host.hand
      /\ host'.main = host.main /\ host'.accept = host.accept /\ host'.at = host.at
      /\ host'.overlap = host.overlap /\ host'.listening = host.listening
  <2>1. t \in Seq(Nat) /\ host.stale \ {s[i]} \in SUBSET Nat
    BY <1>1, <1>3
  <2>2. host' = [host EXCEPT !.stale = host.stale \ {s[i]}, !.list = t]
    BY <1>2
  <2> HIDE DEF t, s
  <2>3. QED  BY <1>1, <2>1, <2>2 DEF SetHosts
<1>5. /\ board' \in Seq(Set!Link) /\ Len(board') = Len(board) /\ Len(board) \in Nat
      /\ \A l \in 1 .. Len(board) : board'[l].board = board[l].board
      /\ \A l \in 1 .. Len(board) : board'[l].open => board[l].open /\ l # s[i]
  <2>1. /\ Set!Closed({s[i]}) \in Seq(Set!Link) /\ Len(Set!Closed({s[i]})) = Len(board)
        /\ \A l \in 1 .. Len(board) :
             /\ Set!Closed({s[i]})[l].board = board[l].board
             /\ Set!Closed({s[i]})[l].open <=> (board[l].open /\ l \notin {s[i]})
    BY <1>1, Closes
  <2>2. board' = Set!Closed({s[i]}) /\ Len(board) \in Nat
    BY <1>1, <1>2
  <2>3. \A l \in 1 .. Len(board) : l \notin {s[i]} <=> l # s[i]
    OBVIOUS
  <2> HIDE DEF s
  <2>4. QED  BY <2>1, <2>2, <2>3
<1> HIDE DEF n, s, t
<1>6. \A j \in 1 .. n - 1 : \E k \in 1 .. n : t[j] = s[k] /\ (IF j < i THEN k = j ELSE k = j + 1)
  BY <1>3
<1>7. \A k \in 1 .. n : k # i => \E j \in 1 .. n - 1 : t[j] = s[k]
  <2> SUFFICES ASSUME NEW k \in 1 .. n, k # i PROVE \E j \in 1 .. n - 1 : t[j] = s[k]
    OBVIOUS
  <2>1. CASE k < i
    BY <1>3, <2>1
  <2>2. CASE k > i
    <3>1. k - 1 \in 1 .. n - 1 /\ t[k - 1] = s[k]
      BY <1>3, <2>2
    <3>2. QED  BY <3>1
  <2>3. QED  BY <1>3, <2>1, <2>2
<1>8. /\ \A k \in 1 .. n : s[k] \in 1 .. Len(board)
      /\ OneEach(host, board) /\ Held(host, board)
  BY DEF SetInv, SetSound, SetShape, n, s
<1>9. SetShape(host', board', wire')
  <2>1. \A j \in 1 .. n - 1 : t[j] \in 1 .. Len(board)
    BY <1>6, <1>8
  <2>2. /\ wire \in SetWires /\ host.hand \in 0 .. Len(board)
        /\ \A j \in 1 .. Len(wire.backlog) : wire.backlog[j] \in 1 .. Len(board)
    BY DEF SetInv, SetSound, SetShape
  <2>3. QED  BY <1>1, <1>3, <1>4, <1>5, <2>1, <2>2 DEF SetShape
<1>10. OneEach(host', board')
  <2> SUFFICES ASSUME NEW p \in 1 .. n - 1, NEW q \in 1 .. n - 1,
                      board'[t[p]].board = board'[t[q]].board
               PROVE  p = q
    BY <1>3, <1>4 DEF OneEach
  <2>1. PICK k \in 1 .. n : t[p] = s[k] /\ (IF p < i THEN k = p ELSE k = p + 1)
    BY <1>6
  <2>2. PICK m \in 1 .. n : t[q] = s[m] /\ (IF q < i THEN m = q ELSE m = q + 1)
    BY <1>6
  <2>3. board[s[k]].board = board[s[m]].board
    BY <1>5, <1>8, <2>1, <2>2
  <2>4. k = m
    BY <1>8, <2>3 DEF OneEach, n, s
  <2>5. QED  BY <1>3, <2>1, <2>2, <2>4
<1>11. Held(host', board')
  <2> SUFFICES ASSUME NEW l \in 1 .. Len(board), board'[l].open
               PROVE  l = host.hand \/ \E j \in 1 .. n - 1 : t[j] = l
    BY <1>3, <1>4, <1>5 DEF Held
  <2>1. board[l].open /\ l # s[i]
    BY <1>5
  <2>2. CASE l = host.hand
    BY <2>2
  <2>3. CASE \E k \in 1 .. n : s[k] = l
    <3>1. PICK k \in 1 .. n : s[k] = l
      BY <2>3
    <3>2. k # i
      BY <2>1, <3>1
    <3>3. QED  BY <1>7, <3>1, <3>2
  <2>4. QED  BY <1>8, <2>1, <2>2, <2>3 DEF Held, n, s
<1>12. ClosedSoFar(host', board')
  <2>1. host.main \notin {"closing", "closed", "raised"} \/ host.accept \in Adopting
    BY <1>1 DEF Set!DropStale, Set!At, Set!Adopter, Adopting, SetHosts
  <2>2. host.main # "raised" \/ host.accept = "none"
    BY <1>1 DEF SetTurns
  <2>3. ClosedSoFar(host, board)
    BY DEF SetInv, SetSound
  <2>4. QED  BY <1>4, <2>1, <2>2, <2>3 DEF ClosedSoFar, Adopting
<1>13. SetTurns(host')
  BY <1>1, <1>4 DEF SetTurns
<1>14. QED  BY <1>9, <1>10, <1>11, <1>12, <1>13 DEF SetInv, SetSound

\* The newcomer is on no list, and none of the list is its board.
Joins(b) == \A i \in 1 .. Len(host.list) : board[host.list[i]].board # board[b].board

LEMMA Joined ==
  ASSUME SetInv, host.hand # 0, Joins(host.hand), UNCHANGED <<board, wire>>,
         host' \in SetHosts, SetTurns(host'), host'.list = Append(host.list, host.hand),
         host'.hand = 0, host'.at = host.at, host'.overlap = host.overlap,
         \/ host'.main \notin {"closing", "closed", "raised"}
         \/ host.accept \in Adopting /\ host'.main = host.main /\ host'.main # "raised"
  PROVE  SetInv'
<1> DEFINE n == Len(host.list)
           s == host.list
           t == Append(host.list, host.hand)
<1>1. /\ s \in Seq(Nat) /\ host.hand \in 1 .. Len(board) /\ n \in Nat /\ Len(board) \in Nat
      /\ \A i \in 1 .. n : s[i] \in 1 .. Len(board)
      /\ OneEach(host, board) /\ Held(host, board)
  BY DEF SetInv, SetSound, SetShape, SetHosts
<1>2. /\ Len(t) = n + 1 /\ t[n + 1] = host.hand /\ \A i \in 1 .. n : t[i] = s[i]
  BY <1>1
<1>3. host'.list = t
  OBVIOUS
<1>4. \A i \in 1 .. n : board[s[i]].board # board[host.hand].board
  BY DEF Joins
<1>44. \A i \in 1 .. n, j \in 1 .. n : board[s[i]].board = board[s[j]].board => i = j
  BY <1>1 DEF OneEach
<1>45. \A l \in 1 .. Len(board) : board[l].open => l = host.hand \/ \E i \in 1 .. n : s[i] = l
  BY <1>1 DEF Held
<1> HIDE DEF n, s, t
<1>5. SetShape(host', board', wire')
  <2>1. ASSUME NEW i \in 1 .. n + 1 PROVE t[i] \in 1 .. Len(board)
    <3>1. CASE i \in 1 .. n
      BY <1>1, <1>2, <3>1
    <3>2. CASE i = n + 1
      BY <1>1, <1>2, <3>2
    <3>3. QED  BY <1>1, <3>1, <3>2
  <2>2. wire \in SetWires /\ board \in Seq(Set!Link)
        /\ \A j \in 1 .. Len(wire.backlog) : wire.backlog[j] \in 1 .. Len(board)
    BY DEF SetInv, SetSound, SetShape
  <2>3. QED  BY <1>1, <1>2, <1>3, <2>1, <2>2 DEF SetShape
<1>6. OneEach(host', board')
  <2> SUFFICES ASSUME NEW i \in 1 .. n + 1, NEW j \in 1 .. n + 1,
                      board[t[i]].board = board[t[j]].board
               PROVE  i = j
    BY <1>2, <1>3 DEF OneEach
  <2>1. CASE i \in 1 .. n /\ j \in 1 .. n
    BY <1>2, <1>44, <2>1
  <2>2. CASE i = n + 1 /\ j \in 1 .. n
    BY <1>2, <1>4, <2>2
  <2>3. CASE j = n + 1 /\ i \in 1 .. n
    BY <1>2, <1>4, <2>3
  <2>4. QED  BY <1>1, <2>1, <2>2, <2>3
<1>7. Held(host', board')
  <2> SUFFICES ASSUME NEW l \in 1 .. Len(board), board[l].open
               PROVE  \E i \in 1 .. n + 1 : t[i] = l
    BY <1>2, <1>3 DEF Held
  <2>1. CASE l = host.hand
    BY <1>1, <1>2, <2>1
  <2>2. CASE \E i \in 1 .. n : s[i] = l
    BY <1>1, <1>2, <2>2
  <2>3. QED  BY <1>45, <2>1, <2>2
<1>8. ClosedSoFar(host', board')
  BY DEF SetInv, SetSound, ClosedSoFar
<1>9. QED  BY <1>5, <1>6, <1>7, <1>8 DEF SetInv, SetSound

LEMMA KeepKeeps ==
  ASSUME SetInv, Set!Keep
  PROVE  SetInv'
<1> DEFINE held == Set!Holds(board[host.hand].board)
<1>1. /\ host \in SetHosts /\ SetTurns(host) /\ wire' = wire
  BY DEF SetInv, SetSound, SetShape, Set!Keep
<1>2. \/ host.main = "drop" /\ Set!Adopter = "main" /\ ~Set!Incoming
      \/ host.accept = "drop" /\ Set!Adopter = "accept" /\ Set!Incoming
         /\ host.main \in {"using", "closing", "closed"}
  BY <1>1 DEF Set!Keep, Set!At, Set!Adopter, Set!Incoming, SetHosts, SetTurns
<1>3. host.hand # 0 /\ host.hand \in Nat
  BY <1>1, <1>2 DEF SetTurns, Adopting, SetHosts
<1>4. CASE held
  <2>1. board' = Set!Closed({host.hand})
    BY <1>4 DEF Set!Keep
  <2>2. \/ host' = [host EXCEPT !.main = "enumerate", !.hand = 0] /\ host.main = "drop"
        \/ host' = [host EXCEPT !.accept = "idle", !.hand = 0] /\ host.accept = "drop"
    <3>1. host' = [Set!Go(IF Set!Incoming THEN "idle" ELSE "enumerate") EXCEPT !.hand = 0]
      BY <1>4 DEF Set!Keep, Set!NoLink
    <3>2. QED  BY <1>2, <3>1 DEF Set!Go
  <2>3. ASSUME host' = [host EXCEPT !.main = "enumerate", !.hand = 0], host.main = "drop"
        PROVE  Moves(host, host') /\ host'.hand = 0 /\ host'.accept \notin Adopting
    BY <1>1, <2>3 DEF SetHosts, Set!MainPCs, Moves, SetTurns, Adopting
  <2>4. ASSUME host' = [host EXCEPT !.accept = "idle", !.hand = 0], host.accept = "drop"
        PROVE  Moves(host, host') /\ host'.hand = 0 /\ host'.accept \notin Adopting
    BY <1>1, <2>4 DEF SetHosts, Set!AcceptPCs, Moves, SetTurns, Adopting
  <2>5. QED  BY <1>1, <2>1, <2>2, <2>3, <2>4, PutDown
<1>5. CASE ~held
  <2>1. board' = board
    BY <1>5 DEF Set!Keep
  <2>2. \/ /\ host' = [host EXCEPT !.main = "enumerate", !.hand = 0,
                                   !.list = Append(host.list, host.hand)]
           /\ host.main = "drop"
        \/ /\ host' = [host EXCEPT !.accept = "idle", !.hand = 0,
                                   !.list = Append(host.list, host.hand)]
           /\ host.accept = "drop"
    <3>1. host' = [Set!Go(IF Set!Incoming THEN "idle" ELSE "enumerate") EXCEPT
                      !.hand = 0, !.list = Append(@, host.hand)]
      BY <1>5 DEF Set!Keep, Set!NoLink
    <3>2. CASE ~Set!Incoming /\ Set!Adopter = "main" /\ host.main = "drop"
      BY <1>1, <3>1, <3>2 DEF Set!Go, SetHosts
    <3>3. CASE Set!Incoming /\ Set!Adopter = "accept" /\ host.accept = "drop"
      BY <1>1, <3>1, <3>3 DEF Set!Go, SetHosts
    <3>4. QED  BY <1>2, <3>2, <3>3
  <2>3. Append(host.list, host.hand) \in Seq(Nat)
    BY <1>1, <1>3 DEF SetHosts
  <2>4. /\ host' \in SetHosts /\ host'.list = Append(host.list, host.hand) /\ host'.hand = 0
        /\ host'.at = host.at /\ host'.overlap = host.overlap /\ host'.listening = host.listening
        /\ \/ host'.main = "enumerate" /\ host'.accept = host.accept /\ host.main = "drop"
           \/ host'.main = host.main /\ host'.accept = "idle" /\ host.accept = "drop"
    <3> DEFINE a == Append(host.list, host.hand)
    <3>1. a \in Seq(Nat) /\ "enumerate" \in Set!MainPCs /\ "idle" \in Set!AcceptPCs
      BY <2>3 DEF Set!MainPCs, Set!AcceptPCs
    <3> HIDE DEF a
    <3>2. \/ host' = [host EXCEPT !.main = "enumerate", !.hand = 0, !.list = a] /\ host.main = "drop"
          \/ host' = [host EXCEPT !.accept = "idle", !.hand = 0, !.list = a] /\ host.accept = "drop"
      BY <2>2 DEF a
    <3>3. CASE host' = [host EXCEPT !.main = "enumerate", !.hand = 0, !.list = a] /\ host.main = "drop"
      BY <1>1, <3>1, <3>3 DEF SetHosts, a
    <3>4. CASE host' = [host EXCEPT !.accept = "idle", !.hand = 0, !.list = a] /\ host.accept = "drop"
      BY <1>1, <3>1, <3>4 DEF SetHosts, a
    <3>5. QED  BY <3>2, <3>3, <3>4
  <2>5. SetTurns(host')
    BY <1>1, <1>2, <2>4 DEF SetTurns, Adopting
  <2>6. Joins(host.hand)
    BY <1>1, <1>5 DEF Joins, Set!Holds, Set!Members, Set!ToSet, SetHosts
  <2>7. \/ host'.main \notin {"closing", "closed", "raised"}
        \/ host.accept \in Adopting /\ host'.main = host.main /\ host'.main # "raised"
    BY <1>1, <1>2, <2>4 DEF Adopting, SetTurns
  <2>8. QED  BY <1>1, <1>3, <2>1, <2>4, <2>5, <2>6, <2>7, Joined
<1>6. QED  BY <1>4, <1>5

LEMMA CloseNextKeeps ==
  ASSUME SetInv, Set!CloseNext
  PROVE  SetInv'
<1>1. /\ host \in SetHosts /\ host.main = "closing" /\ SetTurns(host) /\ wire' = wire
      /\ host.list \in Seq(Nat) /\ host.at \in Nat /\ board \in Seq(Set!Link)
      /\ Len(board) \in Nat
      /\ \A i \in 1 .. Len(host.list) : host.list[i] \in 1 .. Len(board)
  BY DEF SetInv, SetSound, SetShape, SetHosts, Set!CloseNext
<1>2. /\ wire \in SetWires /\ host.hand \in 0 .. Len(board)
      /\ \A j \in 1 .. Len(wire.backlog) : wire.backlog[j] \in 1 .. Len(board)
      /\ OneEach(host, board) /\ Held(host, board) /\ ClosedSoFar(host, board)
  BY DEF SetInv, SetSound, SetShape
<1>3. CASE host.at <= Len(host.list)
  <2> DEFINE x == host.list[host.at]
  <2>1. host' = [host EXCEPT !.at = @ + 1] /\ board' = Set!Closed({x})
    BY <1>3 DEF Set!CloseNext
  <2>2. /\ host' \in SetHosts /\ host'.at = host.at + 1 /\ host'.list = host.list
        /\ host'.hand = host.hand /\ host'.main = "closing" /\ host'.accept = host.accept
        /\ host'.overlap = host.overlap /\ host'.listening = host.listening
    BY <1>1, <2>1 DEF SetHosts
  <2>3. /\ board' \in Seq(Set!Link) /\ Len(board') = Len(board)
        /\ \A l \in 1 .. Len(board) : board'[l].board = board[l].board
        /\ \A l \in 1 .. Len(board) : board'[l].open => board[l].open /\ l # x
    <3> HIDE DEF x
    <3>1. \A l \in 1 .. Len(board) : l \notin {x} <=> l # x
      OBVIOUS
    <3>2. QED  BY <1>1, <2>1, <3>1, Closes
  <2>4. SetShape(host', board', wire')
    BY <1>1, <1>2, <2>2, <2>3 DEF SetShape
  <2>5. SetTurns(host')
    BY <1>1, <2>2 DEF SetTurns
  <2>6. \A i \in 1 .. Len(host.list) : board'[host.list[i]].board = board[host.list[i]].board
    BY <1>1, <2>3
  <2>7. OneEach(host', board')
    BY <1>2, <2>2, <2>6 DEF OneEach
  <2>8. Held(host', board')
    BY <1>2, <2>2, <2>3 DEF Held
  <2>9. ClosedSoFar(host', board')
    <3>1. ASSUME ~host.overlap, NEW i \in 1 .. Len(host.list), i < host.at + 1
          PROVE  ~board'[host.list[i]].open
      <4>1. CASE i = host.at
        BY <1>1, <2>3, <4>1
      <4>2. CASE i < host.at
        BY <1>1, <1>2, <2>3, <3>1, <4>2 DEF ClosedSoFar
      <4>3. QED  BY <1>1, <3>1, <4>1, <4>2
    <3>2. QED  BY <1>1, <1>2, <2>2, <3>1 DEF ClosedSoFar
  <2>10. QED  BY <2>4, <2>5, <2>7, <2>8, <2>9 DEF SetInv, SetSound
<1>4. CASE ~(host.at <= Len(host.list))
  <2>1. host' = [host EXCEPT !.main = "closed"] /\ board' = board
    BY <1>4 DEF Set!CloseNext
  <2>2. /\ host' \in SetHosts /\ host'.at = host.at /\ host'.list = host.list
        /\ host'.hand = host.hand /\ host'.main = "closed" /\ host'.accept = host.accept
        /\ host'.overlap = host.overlap /\ host'.listening = host.listening
    BY <1>1, <2>1 DEF SetHosts, Set!MainPCs
  <2>3. SetShape(host', board', wire') /\ OneEach(host', board') /\ Held(host', board')
    BY <1>1, <1>2, <2>1, <2>2 DEF SetShape, OneEach, Held
  <2>4. SetTurns(host')
    BY <1>1, <2>2 DEF SetTurns, Adopting
  <2>5. ASSUME ~host.overlap, NEW l \in 1 .. Len(board), board[l].open
        PROVE  FALSE
    <3>1. \A i \in 1 .. Len(host.list) : ~board[host.list[i]].open
      <4>1. \A i \in 1 .. Len(host.list) : i < host.at
        BY <1>1, <1>4
      <4>2. QED  BY <1>1, <1>2, <2>5, <4>1 DEF ClosedSoFar
    <3>2. host.hand = 0
      BY <1>1, <1>2, <2>5 DEF SetTurns, ClosedSoFar, Adopting
    <3>3. QED  BY <1>2, <2>5, <3>1, <3>2 DEF Held
  <2>6. ClosedSoFar(host', board')
    BY <1>1, <1>2, <2>1, <2>2, <2>5 DEF ClosedSoFar
  <2>7. QED  BY <2>3, <2>4, <2>6 DEF SetInv, SetSound
<1>5. QED  BY <1>3, <1>4

LEMMA DialKeeps ==
  ASSUME SetInv, NEW b \in Boards, Set!Dial(b)
  PROVE  SetInv'
<1> DEFINE x == Set!NewLink(b)
           n == Len(board)
           q == wire.backlog
<1>1. /\ host' = host /\ board' = Append(board, x) /\ board \in Seq(Set!Link) /\ n \in Nat
      /\ wire \in SetWires /\ wire' = [wire EXCEPT !.backlog = Append(@, n + 1)]
      /\ \A i \in 1 .. Len(q) : q[i] \in 1 .. n
  BY DEF SetInv, SetSound, SetShape, Set!Dial
<1>2. x \in Set!Link /\ ~x.open
  BY DEF Set!NewLink, Set!Link
<1> HIDE DEF x
<1>3. /\ board' \in Seq(Set!Link) /\ Len(board') = n + 1 /\ board'[n + 1] = x
      /\ \A l \in 1 .. n : board'[l] = board[l]
  BY <1>1, <1>2
<1>4. q \in Seq(Nat)
  BY <1>1 DEF SetWires
<1>5. /\ wire' \in SetWires
      /\ \A i \in 1 .. Len(wire'.backlog) : wire'.backlog[i] \in 1 .. n + 1
  <2> DEFINE a == Append(q, n + 1)
  <2> HIDE DEF q, n
  <2>1. a \in Seq(Nat) /\ Len(a) = Len(q) + 1 /\ a[Len(q) + 1] = n + 1 /\ Len(q) \in Nat
        /\ \A i \in 1 .. Len(q) : a[i] = q[i]
    BY <1>1, <1>4
  <2> HIDE DEF a
  <2>2. ASSUME NEW i \in 1 .. Len(a) PROVE a[i] \in 1 .. n + 1
    <3>1. CASE i \in 1 .. Len(q)
      BY <1>1, <2>1, <3>1
    <3>2. CASE i = Len(q) + 1
      BY <1>1, <2>1, <3>2
    <3>3. QED  BY <2>1, <3>1, <3>2
  <2>3. wire \in SetWires /\ wire' = [wire EXCEPT !.backlog = a]
    BY <1>1 DEF a, q, n
  <2>4. wire' \in SetWires /\ wire'.backlog = a
    BY <2>1, <2>3 DEF SetWires
  <2>5. QED  BY <2>2, <2>4
<1>6. /\ \A l \in 1 .. n : /\ board'[l].board = board[l].board
                          /\ board'[l].open = board[l].open
      /\ \A l \in 1 .. Len(board') : l > n => ~board'[l].open
  <2>1. \A l \in 1 .. n + 1 : l > n => l = n + 1
    BY <1>1
  <2>2. QED  BY <1>2, <1>3, <2>1
<1>7. QED  BY <1>1, <1>3, <1>5, <1>6, NoneOpened

\* A link drops, or its bridge notices.
LEMMA ChangeKeeps ==
  ASSUME SetInv, NEW l \in 1 .. Len(board), NEW x \in Set!Link,
         x.board = board[l].board, x.open = board[l].open,
         board' = [board EXCEPT ![l] = x], UNCHANGED <<host, wire>>
  PROVE  SetInv'
<1>1. board \in Seq(Set!Link) /\ wire \in SetWires
      /\ \A i \in 1 .. Len(wire.backlog) : wire.backlog[i] \in 1 .. Len(board)
  BY DEF SetInv, SetSound, SetShape
<1>2. /\ board' \in Seq(Set!Link) /\ Len(board') = Len(board) /\ Len(board) \in Nat
      /\ board'[l] = x /\ \A m \in 1 .. Len(board) : m # l => board'[m] = board[m]
  BY <1>1, Replaced
<1>3. \A m \in 1 .. Len(board) : /\ board'[m].board = board[m].board
                                  /\ board'[m].open = board[m].open
  BY <1>2
<1>4. QED  BY <1>1, <1>2, <1>3, NoneOpened

LEMMA LinkStepKeeps ==
  ASSUME SetInv, NEW l \in Set!Links, Set!LinkDrops(l) \/ Set!Notice(l)
  PROVE  SetInv'
<1>1. l \in 1 .. Len(board) /\ board[l] \in Set!Link
  BY DEF SetInv, SetSound, SetShape, Set!Links
<1> DEFINE x == [board[l] EXCEPT !.up = FALSE]
           y == [board[l] EXCEPT !.dead = TRUE]
<1>2. /\ x \in Set!Link /\ x.board = board[l].board /\ x.open = board[l].open
      /\ y \in Set!Link /\ y.board = board[l].board /\ y.open = board[l].open
  BY <1>1 DEF Set!Link
<1>3. UNCHANGED <<host, wire>> /\ (board' = [board EXCEPT ![l] = x] \/ board' = [board EXCEPT ![l] = y])
  BY DEF Set!LinkDrops, Set!Notice
<1> HIDE DEF x, y
<1>4. QED  BY <1>1, <1>2, <1>3, ChangeKeeps

LEMMA SetStep ==
  ASSUME SetInv, Set!Next
  PROVE  SetInv'
<1>1. CASE Set!Quiet
  BY <1>1 DEF Set!Quiet, Set!vars, SetInv
<1>2. QED
  BY <1>1, CandidateKeeps, MainOpenKeeps, JudgeKeeps, GiveUpKeeps, AdoptKeeps, DropStaleKeeps,
     KeepKeeps, AcceptKeeps, AcceptOpenKeeps, AcceptExitKeeps, CloseListenerKeeps, CloseNextKeeps,
     DialKeeps, LinkStepKeeps
  DEF Set!Next, Set!MainStep, Set!AcceptStep

-----------------------------------------------------------------------------
(* Sequences that grow at their end and are read from their start *)

\* An event moves on.
LEMMA MovesOn ==
  ASSUME NEW p \in Seq(Nat), NEW q \in Seq(Nat), q # <<>>
  PROVE  Append(p, Head(q)) \o Tail(q) = p \o q
OBVIOUS

LEMMA LastInRow ==
  ASSUME NEW p \in Seq(Nat), NEW q \in Seq(Nat), NEW e \in Nat
  PROVE  p \o Append(q, e) = Append(p \o q, e) /\ Append(q, e) \in Seq(Nat)
OBVIOUS

-----------------------------------------------------------------------------
(* The asyncio wrapper *)

AsyncTasks == [op : {"none", "connect", "close", "call"}, bridge : Nat, built : BOOLEAN]
AsyncHosts ==
  [bridge : Nat, gpio : Nat, owned : BOOLEAN, task : [Tasks -> AsyncTasks], orphans : SUBSET Nat,
   upset : BOOLEAN, stale : BOOLEAN, stream : Nat, since : Nat, queue : Seq(Nat), got : Seq(Nat),
   dropped : SUBSET Nat]
AsyncBoards == [open : SUBSET (Nat \ {0}), opened : Nat, last : Nat]

Changing(x) == x.op \in {"connect", "close"}

\* While one task at a time connects or closes, the sessions that are open follow from what it does.
OneAtATime(h, b) ==
  /\ h.orphans = {}
  /\ \A t, u \in Tasks : Changing(h.task[t]) /\ Changing(h.task[u]) => t = u
  /\ h.owned =>
       /\ (\A t \in Tasks : ~Changing(h.task[t])) => b.open = {h.bridge} \ {0}
       /\ \A t \in Tasks : h.task[t].op = "connect" =>
            /\ h.bridge = 0 /\ h.task[t].bridge # 0
            /\ b.open = IF h.task[t].built THEN {h.task[t].bridge} ELSE {}
       /\ \A t \in Tasks : h.task[t].op = "close" =>
            h.bridge # 0 /\ h.task[t].bridge = h.bridge /\ b.open = {h.bridge}

SessionSound(h, b) ==
  /\ ~h.owned => 1 \in b.open /\ \A t \in Tasks : h.task[t].op # "close"
  /\ ~h.upset => OneAtATime(h, b)

\* The events s of a stream that has lost those of d: all from the one it began with.
Whole(s, d, stream, since, last) ==
  /\ s \in Seq(Nat) /\ d \in SUBSET Nat /\ since <= last + 1
  /\ \A i, j \in 1 .. Len(s) : i < j => s[i] < s[j]
  /\ \A i \in 1 .. Len(s) : s[i] <= last /\ s[i] \notin d
  /\ \A x \in d : x <= last
  /\ stream # 0 => \A x \in Nat : since <= x /\ x <= last <=> x \in d \/ \E i \in 1 .. Len(s) : s[i] = x
  /\ since = 0 => s = <<>> /\ d = {} /\ stream = 0

Seen(h, w) == (h.got \o h.queue) \o w
StreamSound(h, b, w) == Whole(Seen(h, w), h.dropped, h.stream, h.since, b.last)

AsyncShape(h, b, w) == h \in AsyncHosts /\ b \in AsyncBoards /\ w \in Seq(Nat)
AsyncInv == AsyncShape(host, board, wire) /\ SessionSound(host, board) /\ StreamSound(host, board, wire)

LEMMA AsyncMeans == AsyncInv => Async!OneSession /\ Async!StreamIsWhole
<1> SUFFICES ASSUME AsyncInv PROVE Async!OneSession /\ Async!StreamIsWhole
  OBVIOUS
<1>1. Async!OneSession
  BY DEF AsyncInv, SessionSound, OneAtATime, Changing, Async!OneSession, Async!Op, Async!None
<1>2. Async!StreamIsWhole
  <2> DEFINE s == Seen(host, wire)
  <2>1. /\ Whole(s, host.dropped, host.stream, host.since, board.last)
        /\ host.since \in Nat /\ board.last \in Nat
    BY DEF AsyncInv, AsyncShape, AsyncHosts, AsyncBoards, StreamSound
  <2>2. s = (host.got \o host.queue) \o wire
    BY DEF Seen
  <2> HIDE DEF s
  <2>3. /\ \A i \in 1 .. Len(s) - 1 : s[i] < s[i + 1]
        /\ {s[i] : i \in DOMAIN s} \cap host.dropped = {}
    <3>1. /\ s \in Seq(Nat) /\ \A i, j \in 1 .. Len(s) : i < j => s[i] < s[j]
          /\ \A i \in 1 .. Len(s) : s[i] \notin host.dropped
      BY <2>1 DEF Whole
    <3>2. Len(s) \in Nat /\ DOMAIN s = 1 .. Len(s)
      BY <3>1
    <3>3. \A i \in 1 .. Len(s) - 1 : i \in 1 .. Len(s) /\ i + 1 \in 1 .. Len(s) /\ i < i + 1
      BY <3>2
    <3>4. QED  BY <3>1, <3>2, <3>3
  <2>4. ASSUME host.stream # 0
        PROVE  host.since .. board.last = {s[i] : i \in DOMAIN s} \cup host.dropped
    <3>1. DOMAIN s = 1 .. Len(s) /\ \A i \in 1 .. Len(s) : s[i] \in Nat
      BY <2>1 DEF Whole
    <3>2. \A x \in Nat : host.since <= x /\ x <= board.last
                           <=> x \in host.dropped \/ \E i \in 1 .. Len(s) : s[i] = x
      BY <2>1, <2>4 DEF Whole
    <3>3. host.dropped \in SUBSET Nat
      BY <2>1 DEF Whole
    <3>4. \A x : x \in host.since .. board.last <=> x \in Nat /\ host.since <= x /\ x <= board.last
      BY <2>1
    <3>5. \A x : x \in {s[i] : i \in DOMAIN s} \cup host.dropped <=> x \in host.since .. board.last
      BY <3>1, <3>2, <3>3, <3>4
    <3>6. QED  BY <3>5
  <2>5. QED  BY <2>2, <2>3, <2>4 DEF Async!StreamIsWhole, Async!None
<1>3. QED  BY <1>1, <1>2

LEMMA AsyncInit ==
  ASSUME Async!Init
  PROVE  AsyncInv
<1>1. PICK owned \in BOOLEAN :
        /\ host = [bridge |-> IF owned THEN 0 ELSE 1, gpio |-> 0, owned |-> owned,
                   task |-> [t \in Tasks |-> Async!Idle], orphans |-> {}, upset |-> FALSE,
                   stale |-> FALSE, stream |-> 0, since |-> 0, queue |-> <<>>, got |-> <<>>,
                   dropped |-> {}]
        /\ board = [open |-> IF owned THEN {} ELSE {1}, opened |-> IF owned THEN 0 ELSE 1,
                    last |-> 0]
        /\ wire = <<>>
  BY DEF Async!Init, Async!None
<1>2. Async!Idle \in AsyncTasks /\ Async!Idle.op = "none"
  BY DEF Async!Idle, Async!None, AsyncTasks
<1>3. \A t \in Tasks : host.task[t].op = "none"
  BY <1>1, <1>2
<1>4. host \in AsyncHosts /\ board \in AsyncBoards /\ wire \in Seq(Nat)
  BY <1>1, <1>2 DEF AsyncHosts, AsyncBoards
<1>5. SessionSound(host, board)
  BY <1>1, <1>3 DEF SessionSound, OneAtATime, Changing
<1>6. Seen(host, wire) = <<>>
  BY <1>1 DEF Seen
<1>7. StreamSound(host, board, wire)
  <2>1. host.dropped = {} /\ host.stream = 0 /\ host.since = 0 /\ board.last = 0
    BY <1>1
  <2>2. QED  BY <1>6, <2>1 DEF StreamSound, Whole
<1>8. QED  BY <1>4, <1>5, <1>7 DEF AsyncInv, AsyncShape

\* A step that leaves the sessions or the stream alone.
SameSession(h, k, b, c) ==
  /\ k.owned = h.owned /\ k.task = h.task /\ k.orphans = h.orphans /\ k.bridge = h.bridge
  /\ k.upset = h.upset /\ c.open = b.open
SameStream(h, k, b, c) ==
  /\ k.stream = h.stream /\ k.since = h.since /\ k.queue = h.queue /\ k.got = h.got
  /\ k.dropped = h.dropped /\ c.last = b.last

LEMMA SessionRests ==
  ASSUME SessionSound(host, board), SameSession(host, host', board, board')
  PROVE  SessionSound(host', board')
BY DEF SessionSound, OneAtATime, SameSession

LEMMA StreamRests ==
  ASSUME StreamSound(host, board, wire), SameStream(host, host', board, board'), wire' = wire
  PROVE  StreamSound(host', board', wire')
BY DEF StreamSound, SameStream, Seen

-----------------------------------------------------------------------------

LEMMA StreamOpenKeeps ==
  ASSUME AsyncInv, Async!StreamOpen
  PROVE  AsyncInv'
<1>1. /\ host \in AsyncHosts /\ board \in AsyncBoards /\ board' = board /\ wire' = wire
      /\ host.since = 0 /\ host.stream = 0 /\ host.bridge \in board.open
      /\ host' = [host EXCEPT !.stream = host.bridge, !.since = board.last + 1]
  BY DEF AsyncInv, AsyncShape, Async!StreamOpen, Async!None
<1>2. board.last \in Nat /\ host.bridge \in Nat /\ host.bridge # 0
  BY <1>1 DEF AsyncBoards
<1>3. /\ host' \in AsyncHosts /\ SameSession(host, host', board, board')
      /\ host'.since = board.last + 1 /\ host'.queue = host.queue /\ host'.got = host.got
      /\ host'.dropped = host.dropped
  <2> DEFINE x == host.bridge
             y == board.last + 1
  <2>1. host \in AsyncHosts /\ host' = [host EXCEPT !.stream = x, !.since = y]
        /\ x \in Nat /\ y \in Nat /\ board'.open = board.open
    BY <1>1, <1>2
  <2> HIDE DEF x, y
  <2>2. host' \in AsyncHosts /\ host'.since = y /\ host'.queue = host.queue
        /\ host'.got = host.got /\ host'.dropped = host.dropped
    BY <2>1 DEF AsyncHosts
  <2>3. SameSession(host, host', board, board')
    BY <2>1 DEF AsyncHosts, SameSession
  <2>4. QED  BY <2>2, <2>3 DEF y
<1>4. Seen(host, wire) = <<>> /\ host.dropped = {} /\ Seen(host', wire') = <<>>
  BY <1>1, <1>3 DEF AsyncInv, StreamSound, Whole, Seen
<1>5. StreamSound(host', board', wire')
  BY <1>1, <1>2, <1>3, <1>4 DEF StreamSound, Whole
<1>6. QED  BY <1>1, <1>3, <1>5, SessionRests DEF AsyncInv, AsyncShape

\* The next event comes, or one is lost.
LEMMA WholeGrows ==
  ASSUME NEW s, NEW d, NEW stream, NEW since \in Nat, NEW n \in Nat,
         Whole(s, d, stream, since, n)
  PROVE  /\ stream = 0 => Whole(s, d, stream, since, n + 1)
         /\ since # 0 => Whole(Append(s, n + 1), d, stream, since, n + 1)
<1>1. /\ s \in Seq(Nat) /\ d \in SUBSET Nat /\ since <= n + 1
      /\ \A i, j \in 1 .. Len(s) : i < j => s[i] < s[j]
      /\ \A i \in 1 .. Len(s) : s[i] \in Nat /\ s[i] <= n /\ s[i] \notin d
      /\ \A x \in d : x \in Nat /\ x <= n
      /\ since = 0 => s = <<>> /\ d = {} /\ stream = 0
  BY DEF Whole
<1>2. /\ since <= n + 1 + 1 /\ \A i \in 1 .. Len(s) : s[i] <= n + 1 /\ s[i] < n + 1
      /\ \A x \in d : x <= n + 1 /\ x # n + 1
  BY <1>1
<1>3. stream = 0 => Whole(s, d, stream, since, n + 1)
  BY <1>1, <1>2 DEF Whole
<1>4. ASSUME since # 0 PROVE Whole(Append(s, n + 1), d, stream, since, n + 1)
  <2> DEFINE u == Append(s, n + 1)
  <2>1. /\ u \in Seq(Nat) /\ Len(u) = Len(s) + 1 /\ u[Len(s) + 1] = n + 1 /\ Len(s) \in Nat
        /\ \A i \in 1 .. Len(s) : u[i] = s[i]
    BY <1>1
  <2> HIDE DEF u
  <2>2. ASSUME NEW i \in 1 .. Len(u)
        PROVE  i = Len(s) + 1 \/ i \in 1 .. Len(s)
    BY <2>1
  <2>3. ASSUME NEW i \in 1 .. Len(u), NEW j \in 1 .. Len(u), i < j
        PROVE  u[i] < u[j]
    <3>1. i \in 1 .. Len(s)
      BY <2>1, <2>3
    <3>2. CASE j = Len(s) + 1
      BY <1>2, <2>1, <3>1, <3>2
    <3>3. CASE j \in 1 .. Len(s)
      BY <1>1, <2>1, <2>3, <3>1, <3>3
    <3>4. QED  BY <2>2, <3>2, <3>3
  <2>4. ASSUME NEW i \in 1 .. Len(u)
        PROVE  u[i] <= n + 1 /\ u[i] \notin d
    <3>1. CASE i = Len(s) + 1
      BY <1>2, <2>1, <3>1
    <3>2. CASE i \in 1 .. Len(s)
      BY <1>1, <1>2, <2>1, <3>2
    <3>3. QED  BY <2>2, <3>1, <3>2
  <2>5. ASSUME stream # 0, NEW x \in Nat
        PROVE  since <= x /\ x <= n + 1 <=> x \in d \/ \E i \in 1 .. Len(u) : u[i] = x
    <3>1. since <= x /\ x <= n <=> x \in d \/ \E i \in 1 .. Len(s) : s[i] = x
      BY <2>5 DEF Whole
    <3>2. (\E i \in 1 .. Len(u) : u[i] = x) <=> x = n + 1 \/ \E i \in 1 .. Len(s) : s[i] = x
      <4>1. Len(s) + 1 \in 1 .. Len(u) /\ \A i \in 1 .. Len(s) : i \in 1 .. Len(u)
        BY <2>1
      <4>2. QED  BY <2>1, <2>2, <4>1
    <3>3. x <= n + 1 <=> x <= n \/ x = n + 1
      OBVIOUS
    <3>4. QED  BY <1>1, <3>1, <3>2, <3>3
  <2>6. QED  BY <1>1, <1>2, <1>4, <2>1, <2>3, <2>4, <2>5 DEF Whole, u
<1>5. QED  BY <1>3, <1>4

LEMMA EventKeeps ==
  ASSUME AsyncInv, Async!Event
  PROVE  AsyncInv'
<1>1. /\ host \in AsyncHosts /\ board \in AsyncBoards /\ host' = host /\ wire \in Seq(Nat)
      /\ board' = [board EXCEPT !.last = @ + 1]
      /\ wire' = IF host.stream # 0 THEN Append(wire, board.last + 1) ELSE wire
  BY DEF AsyncInv, AsyncShape, Async!Event, Async!None
<1> DEFINE s == Seen(host, wire)
           n == board.last
           g == host.got \o host.queue
<1>2. /\ n \in Nat /\ board' \in AsyncBoards /\ board'.last = n + 1 /\ board'.open = board.open
  BY <1>1 DEF AsyncBoards
<1>3. host.got \in Seq(Nat) /\ host.queue \in Seq(Nat) /\ host.since \in Nat
  BY <1>1 DEF AsyncHosts
<1>4. g \in Seq(Nat) /\ s = g \o wire /\ Seen(host', wire') = g \o wire'
  BY <1>1, <1>3 DEF Seen
<1>5. Whole(s, host.dropped, host.stream, host.since, n)
  BY DEF AsyncInv, StreamSound
<1> HIDE DEF s, n, g
<1>6. wire' \in Seq(Nat) /\ Whole(g \o wire', host.dropped, host.stream, host.since, n + 1)
  <2>1. CASE host.stream = 0
    BY <1>1, <1>2, <1>3, <1>4, <1>5, <2>1, WholeGrows
  <2>2. CASE host.stream # 0
    <3>1. wire' = Append(wire, n + 1) /\ host.since # 0
      BY <1>1, <1>5, <2>2 DEF n, Whole
    <3>2. g \o Append(wire, n + 1) = Append(g \o wire, n + 1) /\ Append(wire, n + 1) \in Seq(Nat)
      <4>1. n + 1 \in Nat
        BY <1>2
      <4>2. QED  BY <1>1, <1>4, <4>1, LastInRow
    <3>3. Whole(Append(s, n + 1), host.dropped, host.stream, host.since, n + 1)
      BY <1>2, <1>3, <1>5, <3>1, WholeGrows
    <3>4. QED  BY <1>4, <3>1, <3>2, <3>3
  <2>3. QED  BY <2>1, <2>2
<1>7. StreamSound(host', board', wire')
  <2>1. host' = host
    BY <1>1
  <2>2. QED  BY <1>2, <1>4, <1>6, <2>1 DEF StreamSound
<1>8. SessionSound(host', board')
  <2>1. SameSession(host, host', board, board')
    BY <1>1, <1>2 DEF SameSession
  <2>2. QED  BY <2>1, SessionRests DEF AsyncInv
<1>9. QED  BY <1>1, <1>2, <1>6, <1>7, <1>8 DEF AsyncInv, AsyncShape

LEMMA OfferKeeps ==
  ASSUME AsyncInv, Async!Offer
  PROVE  AsyncInv'
<1>1. /\ host \in AsyncHosts /\ board \in AsyncBoards /\ board' = board /\ wire \in Seq(Nat)
      /\ wire # <<>> /\ wire' = Tail(wire)
  BY DEF AsyncInv, AsyncShape, Async!Offer
<1> DEFINE s == Seen(host, wire)
           g == host.got \o host.queue
           e == Head(wire)
<1>2. /\ host.got \in Seq(Nat) /\ host.queue \in Seq(Nat) /\ g \in Seq(Nat) /\ e \in Nat
      /\ wire' \in Seq(Nat) /\ board.last \in Nat /\ host.dropped \in SUBSET Nat
      /\ host.since \in Nat
  BY <1>1 DEF AsyncHosts, AsyncBoards
<1>3. Whole(s, host.dropped, host.stream, host.since, board.last) /\ s = g \o wire
  BY DEF AsyncInv, StreamSound, Seen
<1>4. CASE host' = [host EXCEPT !.queue = Append(@, e)]
  <2>1. Append(host.queue, e) \in Seq(Nat)
    BY <1>2
  <2>2. host' \in AsyncHosts /\ SameSession(host, host', board, board')
        /\ host'.queue = Append(host.queue, e) /\ host'.got = host.got
        /\ host'.stream = host.stream /\ host'.since = host.since /\ host'.dropped = host.dropped
    BY <1>1, <1>4, <2>1 DEF AsyncHosts, SameSession
  <2>3. Seen(host', wire') = s
    <3>1. host.got \o Append(host.queue, e) = Append(g, e)
      <4> HIDE DEF e
      <4>1. QED  BY <1>2, LastInRow
    <3>2. Append(g, e) \o Tail(wire) = g \o wire
      <4> HIDE DEF g
      <4>1. QED  BY <1>1, <1>2, MovesOn
    <3>3. QED  BY <1>1, <1>3, <2>2, <3>1, <3>2 DEF Seen
  <2>4. StreamSound(host', board', wire')
    BY <1>1, <1>3, <2>2, <2>3 DEF StreamSound
  <2>5. QED  BY <1>1, <1>2, <2>2, <2>4, SessionRests DEF AsyncInv, AsyncShape
<1>5. CASE host' = [host EXCEPT !.dropped = @ \cup {e}]
  <2> DEFINE u == g \o wire'
             d == host.dropped \cup {e}
             k == Len(g) + 1
  <2>1. d \in SUBSET Nat
    BY <1>2
  <2>2. host' \in AsyncHosts /\ SameSession(host, host', board, board')
        /\ host'.queue = host.queue /\ host'.got = host.got
        /\ host'.stream = host.stream /\ host'.since = host.since /\ host'.dropped = d
    BY <1>1, <1>5, <2>1 DEF AsyncHosts, SameSession
  <2>3. Seen(host', wire') = u
    BY <2>2 DEF Seen
  <2>4. /\ Len(s) \in Nat /\ k \in 1 .. Len(s) /\ s[k] = e /\ u \in Seq(Nat) /\ Len(u) = Len(s) - 1
        /\ \A i \in 1 .. Len(u) : u[i] = IF i < k THEN s[i] ELSE s[i + 1]
    <3>1. s = g \o wire /\ u = g \o Tail(wire) /\ g \in Seq(Nat)
      BY <1>1, <1>2, <1>3
    <3> HIDE DEF g, s, u
    <3>2. QED  BY <1>1, <3>1
  <2> HIDE DEF s, u, k, e
  <2>5. Whole(u, d, host.stream, host.since, board.last)
    <3>1. /\ s \in Seq(Nat) /\ \A i, j \in 1 .. Len(s) : i < j => s[i] < s[j]
          /\ \A i \in 1 .. Len(s) : s[i] \in Nat /\ s[i] <= board.last /\ s[i] \notin host.dropped
          /\ \A x \in host.dropped : x <= board.last
          /\ host.since <= board.last + 1 /\ host.since # 0
      <4>1. /\ s \in Seq(Nat) /\ \A i, j \in 1 .. Len(s) : i < j => s[i] < s[j]
            /\ \A i \in 1 .. Len(s) : s[i] <= board.last /\ s[i] \notin host.dropped
            /\ \A x \in host.dropped : x <= board.last
            /\ host.since <= board.last + 1 /\ (host.since = 0 => s = <<>>)
        BY <1>3 DEF Whole
      <4>2. s # <<>>
        BY <2>4
      <4>3. QED  BY <4>1, <4>2
    <3>2. \A i \in 1 .. Len(u) : \E j \in 1 .. Len(s) :
            u[i] = s[j] /\ j # k /\ j = (IF i < k THEN i ELSE i + 1)
      BY <2>4
    <3>3. ASSUME NEW j \in 1 .. Len(s), j # k PROVE \E i \in 1 .. Len(u) : u[i] = s[j]
      <4>1. CASE j < k
        BY <2>4, <4>1
      <4>2. CASE j > k
        <5>1. j - 1 \in 1 .. Len(u) /\ u[j - 1] = s[j]
          BY <2>4, <4>2
        <5>2. QED  BY <5>1
      <4>3. QED  BY <2>4, <3>3, <4>1, <4>2
    <3>4. ASSUME NEW i \in 1 .. Len(u), NEW j \in 1 .. Len(u), i < j
          PROVE  u[i] < u[j]
      <4>1. PICK a \in 1 .. Len(s) : u[i] = s[a] /\ a = (IF i < k THEN i ELSE i + 1)
        BY <3>2
      <4>2. PICK b \in 1 .. Len(s) : u[j] = s[b] /\ b = (IF j < k THEN j ELSE j + 1)
        BY <3>2
      <4>3. a < b
        BY <2>4, <3>4, <4>1, <4>2
      <4>4. QED  BY <3>1, <4>1, <4>2, <4>3
    <3>5. \A j \in 1 .. Len(s) : j # k => s[j] # e
      BY <2>4, <3>1
    <3>6. \A i \in 1 .. Len(u) : u[i] <= board.last /\ u[i] \notin d
      BY <3>1, <3>2, <3>5
    <3>7. \A x \in d : x <= board.last
      BY <2>4, <3>1
    <3>8. ASSUME host.stream # 0, NEW x \in Nat
          PROVE  host.since <= x /\ x <= board.last <=> x \in d \/ \E i \in 1 .. Len(u) : u[i] = x
      <4>1. host.since <= x /\ x <= board.last <=> x \in host.dropped \/ \E i \in 1 .. Len(s) : s[i] = x
        BY <1>3, <3>8 DEF Whole
      <4>2. (\E i \in 1 .. Len(s) : s[i] = x) <=> x = e \/ \E i \in 1 .. Len(u) : u[i] = x
        BY <2>4, <3>2, <3>3
      <4>3. QED  BY <4>1, <4>2
    <3>9. QED  BY <2>1, <2>4, <3>1, <3>4, <3>6, <3>7, <3>8 DEF Whole
  <2>6. StreamSound(host', board', wire')
    BY <1>1, <2>2, <2>3, <2>5 DEF StreamSound
  <2>7. QED  BY <1>1, <1>2, <2>2, <2>6, SessionRests DEF AsyncInv, AsyncShape
<1>6. QED  BY <1>4, <1>5 DEF Async!Offer

LEMMA AnextKeeps ==
  ASSUME AsyncInv, Async!Anext
  PROVE  AsyncInv'
<1>1. /\ host \in AsyncHosts /\ board \in AsyncBoards /\ board' = board /\ wire \in Seq(Nat)
      /\ wire' = wire /\ host.queue # <<>>
      /\ host' = [host EXCEPT !.got = Append(@, Head(host.queue)), !.queue = Tail(@)]
  BY DEF AsyncInv, AsyncShape, Async!Anext
<1>2. host.got \in Seq(Nat) /\ host.queue \in Seq(Nat)
  BY <1>1 DEF AsyncHosts
<1>3. Append(host.got, Head(host.queue)) \in Seq(Nat) /\ Tail(host.queue) \in Seq(Nat)
  BY <1>1, <1>2
<1>4. /\ host' \in AsyncHosts /\ SameSession(host, host', board, board')
      /\ host'.got = Append(host.got, Head(host.queue)) /\ host'.queue = Tail(host.queue)
      /\ host'.stream = host.stream /\ host'.since = host.since /\ host'.dropped = host.dropped
  <2> DEFINE a == Append(host.got, Head(host.queue))
             q == Tail(host.queue)
  <2>1. host' = [host EXCEPT !.got = a, !.queue = q] /\ a \in Seq(Nat) /\ q \in Seq(Nat)
    BY <1>1, <1>3
  <2> HIDE DEF a, q
  <2>2. host' \in AsyncHosts /\ SameSession(host, host', board, board')
        /\ host'.got = a /\ host'.queue = q
        /\ host'.stream = host.stream /\ host'.since = host.since /\ host'.dropped = host.dropped
    BY <1>1, <2>1 DEF AsyncHosts, SameSession
  <2>3. QED  BY <2>2 DEF a, q
<1>5. Seen(host', wire') = Seen(host, wire)
  <2>1. Append(host.got, Head(host.queue)) \o Tail(host.queue) = host.got \o host.queue
    BY <1>1, <1>2, MovesOn
  <2>2. host'.got \o host'.queue = host.got \o host.queue
    BY <1>4, <2>1
  <2>3. QED  BY <1>1, <2>2 DEF Seen
<1>6. StreamSound(host', board', wire')
  BY <1>1, <1>4, <1>5 DEF StreamSound, AsyncInv
<1>7. QED  BY <1>1, <1>4, <1>6, SessionRests DEF AsyncInv, AsyncShape

LEMMA AcloseKeeps ==
  ASSUME AsyncInv, Async!Aclose
  PROVE  AsyncInv'
<1>1. /\ host \in AsyncHosts /\ board \in AsyncBoards /\ board' = board /\ wire \in Seq(Nat)
      /\ wire' = wire /\ host' = [host EXCEPT !.stream = 0]
  BY DEF AsyncInv, AsyncShape, Async!Aclose, Async!None
<1>2. /\ host' \in AsyncHosts /\ SameSession(host, host', board, board')
      /\ host'.got = host.got /\ host'.queue = host.queue
      /\ host'.stream = 0 /\ host'.since = host.since /\ host'.dropped = host.dropped
  BY <1>1 DEF AsyncHosts, SameSession
<1>3. StreamSound(host', board', wire')
  BY <1>1, <1>2 DEF StreamSound, AsyncInv, Seen, Whole
<1>4. QED  BY <1>1, <1>2, <1>3, SessionRests DEF AsyncInv, AsyncShape

-----------------------------------------------------------------------------

\* A task does something else.
Turns(t, x, upset) ==
  /\ host.task \in [Tasks -> AsyncTasks] /\ x \in AsyncTasks
  /\ host'.task = [host.task EXCEPT ![t] = x]
  /\ host'.owned = host.owned
  /\ host'.upset <=> upset

LEMMA TurnMeans ==
  ASSUME NEW t \in Tasks, NEW x, NEW upset, Turns(t, x, upset)
  PROVE  /\ host'.task[t] = x
         /\ \A u \in Tasks : u # t => host'.task[u] = host.task[u]
BY DEF Turns

LEMMA ConnectKeeps ==
  ASSUME AsyncInv, NEW t \in Tasks, Async!Connect(t)
  PROVE  AsyncInv'
<1> DEFINE b == board.opened + 1
           x == [Async!Idle EXCEPT !.op = "connect", !.bridge = b]
           up == host.upset \/ Async!Others(t) # {}
<1>1. /\ host \in AsyncHosts /\ board \in AsyncBoards /\ wire' = wire /\ host.bridge = 0
      /\ host' = [host EXCEPT !.task[t] = x, !.upset = up]
      /\ board' = [board EXCEPT !.opened = b] /\ host.task[t].op = "none"
  BY DEF AsyncInv, AsyncShape, Async!Connect, Async!Op, Async!None
<1>2. /\ b \in Nat \ {0} /\ board' \in AsyncBoards /\ board'.open = board.open
      /\ board'.last = board.last
  BY <1>1 DEF AsyncBoards
<1>3. x \in AsyncTasks /\ x.op = "connect" /\ x.bridge = b /\ x.built = FALSE
  BY <1>2 DEF Async!Idle, AsyncTasks
<1>4. up \in BOOLEAN
  OBVIOUS
<1>5. /\ host' \in AsyncHosts /\ Turns(t, x, up) /\ host'.orphans = host.orphans
      /\ host'.bridge = 0 /\ SameStream(host, host', board, board')
  <2> HIDE DEF x, up
  <2>1. QED  BY <1>1, <1>2, <1>3, <1>4 DEF AsyncHosts, Turns, SameStream
<1>6. /\ host'.task[t] = x /\ \A u \in Tasks : u # t => host'.task[u] = host.task[u]
  BY <1>5, TurnMeans
<1>7. ASSUME ~host'.upset
      PROVE  OneAtATime(host', board')
  <2>1. /\ OneAtATime(host, board) /\ host'.owned = host.owned
        /\ \A u \in Tasks : ~Changing(host.task[u])
    BY <1>1, <1>5, <1>7 DEF Turns, AsyncInv, SessionSound, Async!Others, Async!Op, Changing
  <2>2. host.owned => board.open = {}
    BY <1>1, <2>1 DEF OneAtATime
  <2> HIDE DEF x
  <2>3. \A u \in Tasks : Changing(host'.task[u]) => u = t
    BY <1>6, <2>1
  <2>4. Changing(host'.task[t])
    BY <1>3, <1>6 DEF Changing
  <2>5. \A u \in Tasks : host'.task[u].op \in {"connect", "close"} => u = t
    BY <2>3 DEF Changing
  <2>6. host'.orphans = {}
    BY <1>5, <2>1 DEF OneAtATime
  <2>7. /\ x.op = "connect" /\ x.bridge # 0 /\ x.built = FALSE /\ host'.bridge = 0
        /\ host'.owned => board'.open = {}
    BY <1>2, <1>3, <1>5, <2>1, <2>2
  <2>8. QED  BY <1>6, <2>3, <2>4, <2>5, <2>6, <2>7 DEF OneAtATime
<1>8. ASSUME ~host'.owned
      PROVE  1 \in board'.open /\ \A u \in Tasks : host'.task[u].op # "close"
  <2> HIDE DEF x
  <2>1. QED  BY <1>2, <1>3, <1>5, <1>6, <1>8 DEF AsyncInv, SessionSound, Turns
<1>9. SessionSound(host', board')
  BY <1>7, <1>8 DEF SessionSound
<1>10. QED  BY <1>1, <1>2, <1>5, <1>9, StreamRests DEF AsyncInv, AsyncShape

LEMMA BuiltKeeps ==
  ASSUME AsyncInv, NEW b \in Async!Bridges, Async!Built(b)
  PROVE  AsyncInv'
<1>1. /\ host \in AsyncHosts /\ board \in AsyncBoards /\ wire' = wire
      /\ b \notin board.open /\ board' = [board EXCEPT !.open = @ \cup {b}]
  BY DEF AsyncInv, AsyncShape, Async!Built
<1>2. b \in Nat \ {0}
  BY HostAssumption DEF Async!Bridges
<1>3. board' \in AsyncBoards /\ board'.open = board.open \cup {b} /\ board'.last = board.last
  BY <1>1, <1>2 DEF AsyncBoards
<1>4. ASSUME NEW t \in Tasks, host.task[t].op = "connect", host.task[t].bridge = b,
             ~host.task[t].built, host' = [host EXCEPT !.task[t].built = TRUE]
      PROVE  AsyncInv'
  <2> DEFINE x == [host.task[t] EXCEPT !.built = TRUE]
  <2>1. host.task[t] \in AsyncTasks
    BY <1>1 DEF AsyncHosts
  <2>2. x \in AsyncTasks /\ x.op = "connect" /\ x.bridge = b /\ x.built = TRUE
    BY <1>4, <2>1 DEF AsyncTasks
  <2>3. host' = [host EXCEPT !.task[t] = x]
    BY <1>4
  <2> HIDE DEF x
  <2>4. /\ host' \in AsyncHosts /\ Turns(t, x, host.upset) /\ host'.orphans = host.orphans
        /\ host'.bridge = host.bridge /\ SameStream(host, host', board, board')
    BY <1>1, <1>3, <2>2, <2>3 DEF AsyncHosts, Turns, SameStream
  <2>5. /\ host'.task[t] = x /\ \A u \in Tasks : u # t => host'.task[u] = host.task[u]
    BY <2>4, TurnMeans
  <2>6. ASSUME ~host'.upset
        PROVE  OneAtATime(host', board')
    <3>1. OneAtATime(host, board) /\ host'.owned = host.owned
      BY <2>4, <2>6 DEF Turns, AsyncInv, SessionSound
    <3>2. \A u \in Tasks : Changing(host'.task[u]) => u = t
      BY <1>4, <2>5, <3>1 DEF OneAtATime, Changing
    <3>3. Changing(host'.task[t])
      BY <2>2, <2>5 DEF Changing
    <3>4. \A u \in Tasks : host'.task[u].op \in {"connect", "close"} => u = t
      BY <3>2 DEF Changing
    <3>5. host.owned => board.open = {} /\ host.bridge = 0
      BY <1>4, <3>1 DEF OneAtATime
    <3>6. QED
      BY <1>2, <1>3, <2>2, <2>4, <2>5, <3>1, <3>2, <3>3, <3>4, <3>5 DEF OneAtATime
  <2>7. ASSUME ~host'.owned
        PROVE  1 \in board'.open /\ \A u \in Tasks : host'.task[u].op # "close"
    BY <1>3, <2>2, <2>4, <2>5, <2>7 DEF AsyncInv, SessionSound, Turns
  <2>8. SessionSound(host', board')
    BY <2>6, <2>7 DEF SessionSound
  <2>9. QED  BY <1>1, <1>3, <2>4, <2>8, StreamRests DEF AsyncInv, AsyncShape
<1>5. ASSUME b \in host.orphans, host' = [host EXCEPT !.orphans = @ \ {b}]
      PROVE  AsyncInv'
  <2>1. /\ host' \in AsyncHosts /\ host'.upset = host.upset /\ host'.owned = host.owned
        /\ host'.task = host.task /\ SameStream(host, host', board, board')
    BY <1>1, <1>3, <1>5 DEF AsyncHosts, SameStream
  <2>2. host.upset
    BY <1>5 DEF AsyncInv, SessionSound, OneAtATime
  <2>3. SessionSound(host', board')
    BY <1>3, <2>1, <2>2 DEF AsyncInv, SessionSound
  <2>4. QED  BY <1>1, <1>3, <2>1, <2>3, StreamRests DEF AsyncInv, AsyncShape
<1>6. QED  BY <1>4, <1>5 DEF Async!Built, Async!Op

LEMMA IdleIsIdle ==
  /\ Async!Idle \in AsyncTasks /\ Async!Idle.op = "none" /\ ~Changing(Async!Idle)
BY DEF Async!Idle, Async!None, AsyncTasks, Changing

LEMMA ConnectedKeeps ==
  ASSUME AsyncInv, NEW t \in Tasks, Async!Connected(t)
  PROVE  AsyncInv'
<1> DEFINE b == host.task[t].bridge
           x == Async!Idle
<1>1. /\ host \in AsyncHosts /\ board \in AsyncBoards /\ wire' = wire /\ board' = board
      /\ host.task[t].op = "connect" /\ host.task[t].built
      /\ host' = [host EXCEPT !.task[t] = x, !.bridge = b]
  BY DEF AsyncInv, AsyncShape, Async!Connected, Async!Op
<1>2. b \in Nat
  BY <1>1 DEF AsyncHosts, AsyncTasks
<1>3. /\ host' \in AsyncHosts /\ Turns(t, x, host.upset) /\ host'.orphans = host.orphans
      /\ host'.bridge = b /\ SameStream(host, host', board, board')
  <2> HIDE DEF x, b
  <2>1. x \in AsyncTasks
    BY IdleIsIdle DEF x
  <2>2. QED  BY <1>1, <1>2, <2>1 DEF AsyncHosts, Turns, SameStream
<1>4. /\ host'.task[t] = x /\ \A u \in Tasks : u # t => host'.task[u] = host.task[u]
  BY <1>3, TurnMeans
<1>5. ASSUME ~host'.upset
      PROVE  OneAtATime(host', board')
  <2>1. OneAtATime(host, board) /\ host'.owned = host.owned
    BY <1>3, <1>5 DEF Turns, AsyncInv, SessionSound
  <2>2. \A u \in Tasks : ~Changing(host'.task[u])
    BY <1>1, <1>4, <2>1, IdleIsIdle DEF OneAtATime, Changing
  <2>3. host.owned => board.open = {b} /\ b # 0
    BY <1>1, <2>1 DEF OneAtATime
  <2>4. \A u \in Tasks : host'.task[u].op \notin {"connect", "close"}
    BY <2>2 DEF Changing
  <2>5. QED  BY <1>1, <1>3, <2>1, <2>2, <2>3, <2>4 DEF OneAtATime
<1>6. ASSUME ~host'.owned
      PROVE  1 \in board'.open /\ \A u \in Tasks : host'.task[u].op # "close"
  BY <1>1, <1>3, <1>4, <1>6, IdleIsIdle DEF AsyncInv, SessionSound, Turns
<1>7. SessionSound(host', board')
  BY <1>5, <1>6 DEF SessionSound
<1>8. QED  BY <1>1, <1>3, <1>7, StreamRests DEF AsyncInv, AsyncShape

LEMMA CancelKeeps ==
  ASSUME AsyncInv, NEW t \in Tasks, Async!Cancel(t)
  PROVE  AsyncInv'
<1> DEFINE x == Async!Idle
           o == IF host.task[t].built THEN host.orphans ELSE host.orphans \cup {host.task[t].bridge}
<1>1. /\ host \in AsyncHosts /\ board \in AsyncBoards /\ wire' = wire /\ board' = board
      /\ host' = [host EXCEPT !.task[t] = x, !.upset = TRUE, !.orphans = o]
  BY DEF AsyncInv, AsyncShape, Async!Cancel
<1>2. o \in SUBSET Nat
  BY <1>1 DEF AsyncHosts, AsyncTasks
<1>3. /\ host' \in AsyncHosts /\ Turns(t, x, TRUE) /\ SameStream(host, host', board, board')
  <2> HIDE DEF x, o
  <2>1. x \in AsyncTasks
    BY IdleIsIdle DEF x
  <2>2. QED  BY <1>1, <1>2, <2>1 DEF AsyncHosts, Turns, SameStream
<1>4. /\ host'.task[t] = x /\ \A u \in Tasks : u # t => host'.task[u] = host.task[u]
  BY <1>3, TurnMeans
<1>5. SessionSound(host', board')
  BY <1>1, <1>3, <1>4, IdleIsIdle DEF AsyncInv, SessionSound, Turns
<1>6. QED  BY <1>1, <1>3, <1>5, StreamRests DEF AsyncInv, AsyncShape

LEMMA CloseCallKeeps ==
  ASSUME AsyncInv, NEW t \in Tasks, Async!CloseCall(t)
  PROVE  AsyncInv'
<1> DEFINE x == [Async!Idle EXCEPT !.op = "close", !.bridge = host.bridge]
           up == host.upset \/ Async!Others(t) # {}
<1>1. /\ host \in AsyncHosts /\ board \in AsyncBoards /\ wire' = wire /\ board' = board
      /\ host.task[t].op = "none" /\ up \in BOOLEAN
  BY DEF AsyncInv, AsyncShape, Async!CloseCall, Async!Op
<1>2. ~up => /\ ~host.upset /\ OneAtATime(host, board)
             /\ \A u \in Tasks : ~Changing(host.task[u])
  BY <1>1 DEF AsyncInv, SessionSound, Async!Others, Async!Op, Changing
<1>3. CASE Async!Closes
  <2>1. /\ host' = [host EXCEPT !.task[t] = x, !.upset = up]
        /\ host.bridge # 0 /\ host.owned /\ host.bridge \in Nat
    BY <1>1, <1>3 DEF Async!CloseCall, Async!Closes, Async!None, AsyncHosts
  <2>2. x \in AsyncTasks /\ x.op = "close" /\ x.bridge = host.bridge
    BY <2>1 DEF Async!Idle, AsyncTasks
  <2> HIDE DEF x, up
  <2>3. /\ host' \in AsyncHosts /\ Turns(t, x, up) /\ host'.orphans = host.orphans
        /\ host'.bridge = host.bridge /\ SameStream(host, host', board, board')
    BY <1>1, <2>1, <2>2 DEF AsyncHosts, Turns, SameStream
  <2>4. /\ host'.task[t] = x /\ \A u \in Tasks : u # t => host'.task[u] = host.task[u]
    BY <2>3, TurnMeans
  <2>5. ASSUME ~host'.upset
        PROVE  OneAtATime(host', board')
    <3>1. /\ OneAtATime(host, board) /\ host'.owned = host.owned
          /\ \A u \in Tasks : ~Changing(host.task[u])
      BY <1>2, <2>3, <2>5 DEF Turns
    <3>2. \A u \in Tasks : Changing(host'.task[u]) => u = t
      BY <2>4, <3>1
    <3>3. Changing(host'.task[t])
      BY <2>2, <2>4 DEF Changing
    <3>4. \A u \in Tasks : host'.task[u].op \in {"connect", "close"} => u = t
      BY <3>2 DEF Changing
    <3>5. board.open = {host.bridge}
      BY <2>1, <3>1 DEF OneAtATime
    <3>6. QED  BY <1>1, <2>1, <2>2, <2>3, <2>4, <3>1, <3>2, <3>3, <3>4, <3>5 DEF OneAtATime
  <2>6. SessionSound(host', board')
    BY <2>1, <2>3, <2>5 DEF SessionSound, Turns
  <2>7. QED  BY <1>1, <2>3, <2>6, StreamRests DEF AsyncInv, AsyncShape
<1>4. CASE ~Async!Closes
  <2>1. /\ host' = [host EXCEPT !.bridge = 0, !.upset = up]
        /\ host.bridge = 0 \/ ~host.owned
    BY <1>4 DEF Async!CloseCall, Async!Closes, Async!None
  <2> HIDE DEF up
  <2>2. /\ host' \in AsyncHosts /\ host'.task = host.task /\ host'.orphans = host.orphans
        /\ host'.owned = host.owned /\ host'.upset = up /\ host'.bridge = 0
        /\ SameStream(host, host', board, board')
    BY <1>1, <2>1 DEF AsyncHosts, SameStream
  <2>3. SessionSound(host', board')
    BY <1>1, <1>2, <2>1, <2>2 DEF AsyncInv, SessionSound, OneAtATime
  <2>4. QED  BY <1>1, <2>2, <2>3, StreamRests DEF AsyncInv, AsyncShape
<1>5. QED  BY <1>3, <1>4

LEMMA ClosedKeeps ==
  ASSUME AsyncInv, NEW t \in Tasks, Async!Closed(t)
  PROVE  AsyncInv'
<1> DEFINE x == Async!Idle
           b == host.task[t].bridge
           r == IF host.stream = b THEN 0 ELSE host.stream
<1>1. /\ host \in AsyncHosts /\ board \in AsyncBoards /\ wire' = wire
      /\ host.task[t].op = "close" /\ board' = [board EXCEPT !.open = @ \ {b}]
      /\ host' = [host EXCEPT !.task[t] = x, !.bridge = 0, !.stream = r]
  BY DEF AsyncInv, AsyncShape, Async!Closed, Async!Op, Async!None
<1>2. r \in Nat /\ (r = host.stream \/ r = 0)
  BY <1>1 DEF AsyncHosts
<1>3. board' \in AsyncBoards /\ board'.open = board.open \ {b} /\ board'.last = board.last
  BY <1>1 DEF AsyncBoards
<1>4. /\ host' \in AsyncHosts /\ Turns(t, x, host.upset) /\ host'.orphans = host.orphans
      /\ host'.bridge = 0 /\ host'.stream = r /\ host'.since = host.since
      /\ host'.queue = host.queue /\ host'.got = host.got /\ host'.dropped = host.dropped
  <2> HIDE DEF x, b, r
  <2>1. x \in AsyncTasks
    BY IdleIsIdle DEF x
  <2>2. QED  BY <1>1, <1>2, <2>1 DEF AsyncHosts, Turns
<1>5. /\ host'.task[t] = x /\ \A u \in Tasks : u # t => host'.task[u] = host.task[u]
  BY <1>4, TurnMeans
<1>6. StreamSound(host', board', wire')
  <2> HIDE DEF r, x
  <2>1. Whole(Seen(host, wire), host.dropped, r, host.since, board.last)
    BY <1>2 DEF AsyncInv, StreamSound, Whole
  <2>2. QED  BY <1>1, <1>3, <1>4, <2>1 DEF StreamSound, Seen
<1>7. host.owned /\ host'.owned
  BY <1>1, <1>4 DEF AsyncInv, SessionSound, Turns
<1>8. ASSUME ~host'.upset
      PROVE  OneAtATime(host', board')
  <2>1. OneAtATime(host, board)
    BY <1>4, <1>8 DEF Turns, AsyncInv, SessionSound
  <2>2. \A u \in Tasks : ~Changing(host'.task[u])
    BY <1>1, <1>5, <2>1, IdleIsIdle DEF OneAtATime, Changing
  <2>3. board.open = {b}
    BY <1>1, <1>7, <2>1 DEF OneAtATime
  <2>4. \A u \in Tasks : host'.task[u].op \notin {"connect", "close"}
    BY <2>2 DEF Changing
  <2>5. QED  BY <1>3, <1>4, <2>1, <2>2, <2>3, <2>4 DEF OneAtATime
<1>9. SessionSound(host', board')
  BY <1>7, <1>8 DEF SessionSound
<1>10. QED  BY <1>1, <1>3, <1>4, <1>6, <1>9 DEF AsyncInv, AsyncShape

LEMMA CallKeeps ==
  ASSUME AsyncInv, NEW t \in Tasks, Async!CallGpio(t) \/ Async!CallReturns(t)
  PROVE  AsyncInv'
<1>1. /\ host \in AsyncHosts /\ board \in AsyncBoards /\ wire' = wire /\ board' = board
      /\ ~Changing(host.task[t])
  BY DEF AsyncInv, AsyncShape, Async!CallGpio, Async!CallReturns, Async!Op, Changing
<1>2. \E x \in AsyncTasks : /\ ~Changing(x) /\ x.op # "close"
                            /\ host' \in AsyncHosts /\ Turns(t, x, host.upset)
                            /\ host'.orphans = host.orphans /\ host'.bridge = host.bridge
                            /\ SameStream(host, host', board, board')
  <2>1. CASE Async!CallGpio(t)
    <3> DEFINE g == IF host.gpio # 0 THEN host.gpio ELSE host.bridge
               x == [Async!Idle EXCEPT !.op = "call", !.bridge = g]
               st == host.stale \/ (host.bridge # 0 /\ g # host.bridge)
    <3>1. host' = [host EXCEPT !.gpio = g, !.task[t] = x, !.stale = st] /\ st \in BOOLEAN
      BY <2>1 DEF Async!CallGpio, Async!None
    <3>2. g \in Nat
      BY <1>1 DEF AsyncHosts
    <3>3. x \in AsyncTasks /\ ~Changing(x) /\ x.op # "close"
      BY <3>2 DEF Async!Idle, AsyncTasks, Changing
    <3> HIDE DEF g, x, st
    <3>4. host' \in AsyncHosts /\ Turns(t, x, host.upset)
          /\ host'.orphans = host.orphans /\ host'.bridge = host.bridge
          /\ SameStream(host, host', board, board')
      BY <1>1, <3>1, <3>2, <3>3 DEF AsyncHosts, Turns, SameStream
    <3>5. QED  BY <3>3, <3>4
  <2>2. CASE Async!CallReturns(t)
    <3> DEFINE x == Async!Idle
    <3>1. host' = [host EXCEPT !.task[t] = x] /\ x \in AsyncTasks /\ ~Changing(x) /\ x.op # "close"
      BY <2>2, IdleIsIdle DEF Async!CallReturns
    <3> HIDE DEF x
    <3>2. host' \in AsyncHosts /\ Turns(t, x, host.upset)
          /\ host'.orphans = host.orphans /\ host'.bridge = host.bridge
          /\ SameStream(host, host', board, board')
      BY <1>1, <3>1 DEF AsyncHosts, Turns, SameStream
    <3>3. QED  BY <3>1, <3>2
  <2>3. QED  BY <2>1, <2>2
<1>3. PICK x \in AsyncTasks : /\ ~Changing(x) /\ x.op # "close"
                            /\ host' \in AsyncHosts /\ Turns(t, x, host.upset)
                            /\ host'.orphans = host.orphans /\ host'.bridge = host.bridge
                            /\ SameStream(host, host', board, board')
  BY <1>2
<1>4. /\ host'.task[t] = x /\ \A u \in Tasks : u # t => host'.task[u] = host.task[u]
  BY <1>3, TurnMeans
<1>5. ASSUME ~host'.upset
      PROVE  OneAtATime(host', board')
  <2>1. OneAtATime(host, board) /\ host'.owned = host.owned
    BY <1>3, <1>5 DEF Turns, AsyncInv, SessionSound
  <2>2. \A u \in Tasks : Changing(host'.task[u]) <=> Changing(host.task[u])
    BY <1>1, <1>3, <1>4
  <2>3. \A u \in Tasks : Changing(host'.task[u]) => host'.task[u] = host.task[u]
    BY <1>3, <1>4
  <2>4. \A u \in Tasks : host'.task[u].op \in {"connect", "close"} => host'.task[u] = host.task[u]
    BY <2>3 DEF Changing
  <2>5. QED  BY <1>1, <1>3, <2>1, <2>2, <2>3, <2>4 DEF OneAtATime
<1>6. ASSUME ~host'.owned
      PROVE  1 \in board'.open /\ \A u \in Tasks : host'.task[u].op # "close"
  BY <1>1, <1>3, <1>4, <1>6 DEF AsyncInv, SessionSound, Turns
<1>7. SessionSound(host', board')
  BY <1>5, <1>6 DEF SessionSound
<1>8. QED  BY <1>1, <1>3, <1>7, StreamRests DEF AsyncInv, AsyncShape

LEMMA AsyncStep ==
  ASSUME AsyncInv, Async!Next
  PROVE  AsyncInv'
BY StreamOpenKeeps, EventKeeps, OfferKeeps, AnextKeeps, AcloseKeeps, BuiltKeeps, ConnectKeeps,
   ConnectedKeeps, CancelKeeps, CloseCallKeeps, ClosedKeeps, CallKeeps
   DEF Async!Next

-----------------------------------------------------------------------------
(* The Bluetooth transport *)

PipePhases == {"new", "connecting", "open", "closing", "closed", "failed"}
PipeJobs == [frame : Nat, at : Nat]
PipeHosts ==
  [phase : PipePhases, size : Nat \ {0}, lock : SUBSET Threads, job : [Threads -> PipeJobs],
   loop : SUBSET PipeJobs, written : Nat, done : SUBSET Nat, rx : Seq(Nat), read : Seq(Nat),
   late : BOOLEAN, client : BOOLEAN]
PipeBoards == [linked : BOOLEAN, partial : Seq(Nat \X Nat), got : Seq(Nat), sent : Nat]
PipeWires == [notes : Seq(Nat), faults : Int]
PipeShape(h, b, w) == h \in PipeHosts /\ b \in PipeBoards /\ w \in PipeWires

\* A link that came about and has not dropped, or is still to come about.
Lasts(h, b) == h.phase = "new" \/ b.linked

FirstFrames(n) == [i \in 1 .. n |-> i]
FirstPieces(f, k) == [i \in 1 .. k |-> <<f, i>>]

\* No coroutine runs; the last one was cut off; or one runs, of the thread that has the lock.
AtRest(h, b) ==
  /\ h.loop = {} /\ h.done = 1 .. h.written
  /\ Lasts(h, b) => b.partial = <<>> /\ b.got = FirstFrames(h.written)
CutOff(h, b) ==
  /\ h.loop = {} /\ h.phase = "closed" /\ h.written # 0 /\ h.done = 1 .. h.written - 1
  /\ Lasts(h, b) => b.got = FirstFrames(h.written - 1)
UnderWay(h, b) ==
  /\ h.lock # {} /\ h.phase \in {"open", "closing"} /\ h.written # 0 /\ h.done = 1 .. h.written - 1
  /\ \E k \in 0 .. h.size - 1 :
       /\ h.loop = {[frame |-> h.written, at |-> k]}
       /\ Lasts(h, b) => b.partial = FirstPieces(h.written, k)
  /\ Lasts(h, b) => b.got = FirstFrames(h.written - 1)

\* As long as no write() has given up: a thread that waits has the lock and the last frame.
WriteSound(h, b) ==
  ~h.late =>
    /\ \A t \in Threads : h.job[t] # Pipe!NoJob => t \in h.lock /\ h.job[t].frame = h.written
    /\ h.phase \in {"new", "connecting"} => h.written = 0
    /\ AtRest(h, b) \/ CutOff(h, b) \/ UnderWay(h, b)

\* What was notified, in order, with the sentinel at p, if it is there; notes follow.
Notified(s, p) ==
  \A i \in 1 .. Len(s) : s[i] = IF i < p THEN i ELSE IF i = p THEN 0 ELSE i - 1
Follow(notes, n, sent) == Len(notes) = sent - n /\ \A i \in 1 .. Len(notes) : notes[i] = n + i
Ended(h) == h.phase \in {"closing", "closed"}
ReadSound(h, b, w) ==
  LET s == h.read \o h.rx IN
  \E p \in 1 .. Len(s) + 1 :
    /\ Notified(s, p) /\ (Ended(h) <=> p <= Len(s))
    /\ Follow(w.notes, IF Ended(h) THEN Len(s) - 1 ELSE Len(s), b.sent)

PipeInv ==
  /\ PipeShape(host, board, wire) /\ WriteSound(host, board) /\ ReadSound(host, board, wire)

LEMMA CountOf == ASSUME NEW n \in Nat PROVE Pipe!Cardinality(1 .. n) = n
<1>1. Cardinality(1 .. n) = n
  BY FS_Interval
<1>2. Pipe!Cardinality(1 .. n) = Cardinality(1 .. n)
  BY Zenon DEF Pipe!Cardinality, Cardinality
<1>3. QED  BY <1>1, <1>2

LEMMA PipeMeans == PipeInv => Pipe!FramesReachBoard /\ Pipe!ReaderIsReleased
<1> SUFFICES ASSUME PipeInv PROVE Pipe!FramesReachBoard /\ Pipe!ReaderIsReleased
  OBVIOUS
<1>1. host \in PipeHosts
  BY DEF PipeInv, PipeShape
<1>2. Pipe!FramesReachBoard
  <2> SUFFICES ASSUME ~host.late, board.linked
               PROVE  board.got = [i \in 1 .. Pipe!Cardinality(host.done) |-> i]
    BY DEF Pipe!FramesReachBoard
  <2>1. \E n \in Nat : host.done = 1 .. n /\ board.got = FirstFrames(n)
    <3>1. host.written \in Nat /\ (host.written # 0 => host.written - 1 \in Nat)
      BY <1>1 DEF PipeHosts
    <3>2. AtRest(host, board) \/ CutOff(host, board) \/ UnderWay(host, board)
      BY DEF PipeInv, WriteSound
    <3>3. QED  BY <3>1, <3>2 DEF AtRest, CutOff, UnderWay, Lasts
  <2>2. QED  BY <2>1, CountOf DEF FirstFrames
<1>3. Pipe!ReaderIsReleased
  <2> DEFINE s == host.read \o host.rx
  <2>1. s \in Seq(Nat)
    BY <1>1 DEF PipeHosts
  <2>2. PICK p \in 1 .. Len(s) + 1 : Notified(s, p) /\ (Ended(host) <=> p <= Len(s))
    BY DEF PipeInv, ReadSound
  <2> HIDE DEF s
  <2>3. \A i \in 1 .. Len(s) : s[i] = IF i < p THEN i ELSE IF i = p THEN 0 ELSE i - 1
    BY <2>2 DEF Notified
  <2>4. ASSUME host.phase = "closed" PROVE 0 \in Pipe!Range(s)
    <3>1. p \in DOMAIN s /\ s[p] = 0
      BY <2>1, <2>2, <2>3, <2>4 DEF Ended
    <3>2. QED  BY <3>1 DEF Pipe!Range
  <2>5. QED  BY <2>3, <2>4 DEF Pipe!ReaderIsReleased, Pipe!Is, Pipe!Shutdown, s
<1>4. QED  BY <1>2, <1>3

LEMMA NoJobIsJob == Pipe!NoJob \in PipeJobs /\ Pipe!NoJob.frame = 0
BY DEF Pipe!NoJob, PipeJobs

LEMMA PipeInit ==
  ASSUME Pipe!Init
  PROVE  PipeInv
<1>1. /\ host = [phase |-> "new", size |-> Pieces, lock |-> {}, job |-> [t \in Threads |-> Pipe!NoJob],
                 loop |-> {}, written |-> 0, done |-> {}, rx |-> <<>>, read |-> <<>>,
                 late |-> FALSE, client |-> FALSE]
      /\ board = [linked |-> FALSE, partial |-> <<>>, got |-> <<>>, sent |-> 0]
      /\ wire = [notes |-> <<>>, faults |-> Faults + 1]
  BY DEF Pipe!Init
<1>2. Pieces \in Nat \ {0} /\ Faults + 1 \in Int
  BY HostAssumption, PartsAssumption
<1>3. [t \in Threads |-> Pipe!NoJob] \in [Threads -> PipeJobs]
  BY NoJobIsJob
<1>4. host \in PipeHosts
  <2> DEFINE f == [t \in Threads |-> Pipe!NoJob]
  <2> HIDE DEF f
  <2>1. f \in [Threads -> PipeJobs]
    BY <1>3 DEF f
  <2>2. host = [phase |-> "new", size |-> Pieces, lock |-> {}, job |-> f,
                 loop |-> {}, written |-> 0, done |-> {}, rx |-> <<>>, read |-> <<>>,
                 late |-> FALSE, client |-> FALSE]
    BY <1>1 DEF f
  <2>3. QED  BY <1>2, <2>1, <2>2 DEF PipeHosts, PipePhases
<1>5. board \in PipeBoards /\ wire \in PipeWires
  BY <1>1, <1>2 DEF PipeBoards, PipeWires
<1>6. /\ host.job = [t \in Threads |-> Pipe!NoJob] /\ host.written = 0 /\ host.loop = {}
      /\ host.done = {} /\ board.partial = <<>> /\ board.got = <<>>
      /\ host.read = <<>> /\ host.rx = <<>> /\ wire.notes = <<>> /\ board.sent = 0
      /\ host.phase = "new"
  BY <1>1
<1>7. WriteSound(host, board)
  <2>1. 1 .. 0 = {} /\ FirstFrames(0) = <<>>
    BY DEF FirstFrames
  <2>2. QED  BY <1>6, <2>1 DEF WriteSound, AtRest
<1>8. ReadSound(host, board, wire)
  <2>1. host.read \o host.rx = <<>> /\ ~Ended(host) /\ 1 \in 1 .. Len(<<>>) + 1
    BY <1>6 DEF Ended
  <2>2. Notified(<<>>, 1) /\ Follow(wire.notes, 0, board.sent)
    BY <1>6 DEF Notified, Follow
  <2>3. QED  BY <2>1, <2>2 DEF ReadSound
<1>9. QED  BY <1>4, <1>5, <1>7, <1>8 DEF PipeInv, PipeShape

\* A step that leaves the writers or the reader alone.
SameWrites(h, k, b, c) ==
  /\ k.phase = h.phase /\ k.size = h.size /\ k.lock = h.lock /\ k.job = h.job /\ k.loop = h.loop
  /\ k.written = h.written /\ k.done = h.done /\ k.late = h.late
  /\ c.linked = b.linked /\ c.partial = b.partial /\ c.got = b.got
SameReads(h, k, b, c, w, x) ==
  /\ k.read = h.read /\ k.rx = h.rx /\ x.notes = w.notes /\ c.sent = b.sent
  /\ (Ended(k) <=> Ended(h))

LEMMA WritesRest ==
  ASSUME WriteSound(host, board), SameWrites(host, host', board, board')
  PROVE  WriteSound(host', board')
BY DEF WriteSound, SameWrites, AtRest, CutOff, UnderWay, Lasts

LEMMA ReadsRest ==
  ASSUME ReadSound(host, board, wire), SameReads(host, host', board, board', wire, wire')
  PROVE  ReadSound(host', board', wire')
BY DEF ReadSound, SameReads

LEMMA FaultKeeps ==
  ASSUME wire \in PipeWires, Pipe!Fault \/ wire' = wire
  PROVE  wire' \in PipeWires /\ wire'.notes = wire.notes
BY DEF PipeWires, Pipe!Fault

-----------------------------------------------------------------------------

LEMMA PipeConnectKeeps ==
  ASSUME PipeInv, Pipe!Connect
  PROVE  PipeInv'
<1>1. /\ host \in PipeHosts /\ board \in PipeBoards /\ wire \in PipeWires /\ host.phase = "new"
  BY DEF PipeInv, PipeShape, Pipe!Connect, Pipe!Is
<1>2. wire' \in PipeWires /\ wire'.notes = wire.notes
  BY <1>1, FaultKeeps DEF Pipe!Connect, Pipe!NoFault
<1>3. \/ host' = [host EXCEPT !.phase = "connecting"] /\ board' = [board EXCEPT !.linked = TRUE]
      \/ host' = [host EXCEPT !.phase = "failed"] /\ board' = board
  BY DEF Pipe!Connect
<1>4. /\ host' \in PipeHosts /\ host'.phase \in {"connecting", "failed"}
      /\ host'.size = host.size /\ host'.lock = host.lock /\ host'.job = host.job
      /\ host'.loop = host.loop /\ host'.written = host.written /\ host'.done = host.done
      /\ host'.late = host.late /\ host'.read = host.read /\ host'.rx = host.rx
  <2>1. "connecting" \in PipePhases /\ "failed" \in PipePhases
    BY DEF PipePhases
  <2>2. QED  BY <1>1, <1>3, <2>1 DEF PipeHosts
<1>5. /\ board' \in PipeBoards /\ board'.partial = board.partial /\ board'.got = board.got
      /\ board'.sent = board.sent
  BY <1>1, <1>3 DEF PipeBoards
<1>6. WriteSound(host', board')
  <2>1. WriteSound(host, board) /\ Lasts(host, board)
    BY <1>1 DEF PipeInv, Lasts
  <2>2. ~host.late => AtRest(host, board) /\ host.written = 0
    BY <1>1, <2>1 DEF WriteSound, CutOff, UnderWay
  <2>3. ~host.late => AtRest(host', board')
    BY <1>4, <1>5, <2>1, <2>2 DEF AtRest
  <2>4. QED  BY <1>4, <2>1, <2>2, <2>3 DEF WriteSound
<1>7. ReadSound(host', board', wire')
  BY <1>1, <1>2, <1>4, <1>5, ReadsRest DEF SameReads, Ended, PipeInv
<1>8. QED  BY <1>2, <1>4, <1>5, <1>6, <1>7 DEF PipeInv, PipeShape

LEMMA NotifyKeeps ==
  ASSUME PipeInv, Pipe!Notify
  PROVE  PipeInv'
<1>1. /\ host \in PipeHosts /\ board \in PipeBoards /\ wire \in PipeWires
      /\ host.phase = "connecting" /\ board' = board
  BY DEF PipeInv, PipeShape, Pipe!Notify, Pipe!Is
<1>2. wire' \in PipeWires /\ wire'.notes = wire.notes
  BY <1>1, FaultKeeps DEF Pipe!Notify, Pipe!NoFault
<1>3. \/ \E n \in {1, Pieces} : host' = [host EXCEPT !.phase = "open", !.client = TRUE, !.size = n]
      \/ host' = [host EXCEPT !.phase = "failed"]
  BY DEF Pipe!Notify
<1>4. /\ host' \in PipeHosts /\ host'.phase \in {"open", "failed"}
      /\ host'.lock = host.lock /\ host'.job = host.job
      /\ host'.loop = host.loop /\ host'.written = host.written /\ host'.done = host.done
      /\ host'.late = host.late /\ host'.read = host.read /\ host'.rx = host.rx
  <2>1. "open" \in PipePhases /\ "failed" \in PipePhases /\ Pieces \in Nat \ {0}
    BY HostAssumption DEF PipePhases
  <2>2. CASE host' = [host EXCEPT !.phase = "failed"]
    BY <1>1, <2>1, <2>2 DEF PipeHosts
  <2>3. CASE \E n \in {1, Pieces} : host' = [host EXCEPT !.phase = "open", !.client = TRUE, !.size = n]
    <3>1. PICK n \in {1, Pieces} : host' = [host EXCEPT !.phase = "open", !.client = TRUE, !.size = n]
      BY <2>3
    <3>2. n \in Nat \ {0}
      BY <2>1
    <3>3. QED  BY <1>1, <2>1, <3>1, <3>2 DEF PipeHosts
  <2>4. QED  BY <1>3, <2>2, <2>3
<1>5. WriteSound(host', board')
  <2>1. WriteSound(host, board)
    BY DEF PipeInv
  <2>2. ~host.late => AtRest(host, board)
    BY <1>1, <2>1 DEF WriteSound, CutOff, UnderWay
  <2>3. ~host.late => AtRest(host', board')
    BY <1>1, <1>4, <2>2 DEF AtRest, Lasts
  <2>4. QED  BY <1>4, <2>1, <2>3 DEF WriteSound
<1>6. ReadSound(host', board', wire')
  BY <1>1, <1>2, <1>4, ReadsRest DEF SameReads, Ended, PipeInv
<1>7. QED  BY <1>1, <1>2, <1>4, <1>5, <1>6 DEF PipeInv, PipeShape

LEMMA WriteStartKeeps ==
  ASSUME PipeInv, NEW t \in Threads, Pipe!WriteStart(t)
  PROVE  PipeInv'
<1> DEFINE x == [frame |-> host.written + 1, at |-> 0]
<1>1. /\ host \in PipeHosts /\ board \in PipeBoards /\ wire \in PipeWires
      /\ host.phase = "open" /\ host.lock = {} /\ board' = board /\ wire' = wire
      /\ host' = [host EXCEPT !.lock = {t}, !.written = @ + 1, !.job[t] = x,
                              !.loop = @ \cup {x}]
  BY DEF PipeInv, PipeShape, Pipe!WriteStart, Pipe!Is
<1>2. x \in PipeJobs /\ x.frame = host.written + 1 /\ host.written \in Nat
  BY <1>1 DEF PipeHosts, PipeJobs
<1>3. /\ host' \in PipeHosts /\ host'.phase = "open" /\ host'.size = host.size
      /\ host'.lock = {t} /\ host'.job = [host.job EXCEPT ![t] = x]
      /\ host'.loop = host.loop \cup {x} /\ host'.written = host.written + 1
      /\ host'.done = host.done /\ host'.late = host.late /\ host'.read = host.read
      /\ host'.rx = host.rx
  <2> DEFINE j == [host.job EXCEPT ![t] = x]
             l == host.loop \cup {x}
             n == host.written + 1
             m == {t}
  <2>1. m \in SUBSET Threads /\ j \in [Threads -> PipeJobs] /\ l \in SUBSET PipeJobs /\ n \in Nat
    <3> HIDE DEF x
    <3>1. QED  BY <1>1, <1>2 DEF PipeHosts
  <2>2. host' = [host EXCEPT !.lock = m, !.written = n, !.job = j, !.loop = l]
    BY <1>1
  <2> HIDE DEF j, l, n, x, m
  <2>3. /\ host' \in PipeHosts /\ host'.phase = "open" /\ host'.size = host.size
        /\ host'.lock = m /\ host'.job = j
        /\ host'.loop = l /\ host'.written = n
        /\ host'.done = host.done /\ host'.late = host.late /\ host'.read = host.read
        /\ host'.rx = host.rx
    BY <1>1, <2>1, <2>2 DEF PipeHosts
  <2>4. QED  BY <2>3 DEF j, l, n, m
<1>4. WriteSound(host', board')
  <2> SUFFICES ASSUME ~host.late PROVE WriteSound(host', board')
    BY <1>3 DEF WriteSound
  <2>1. /\ AtRest(host, board) /\ \A u \in Threads : host.job[u] = Pipe!NoJob
    BY <1>1 DEF PipeInv, WriteSound, CutOff, UnderWay
  <2>2. UnderWay(host', board')
    <3>1. host'.loop = {x} /\ x = [frame |-> host'.written, at |-> 0]
      BY <1>3, <2>1 DEF AtRest
    <3>2. host'.written # 0 /\ host'.written - 1 = host.written /\ 0 \in 0 .. host'.size - 1
      BY <1>2, <1>3 DEF PipeHosts
    <3>3. FirstPieces(host'.written, 0) = <<>>
      BY DEF FirstPieces
    <3>4. Lasts(host', board') => Lasts(host, board)
      BY <1>1, <1>3 DEF Lasts
    <3> HIDE DEF x
    <3>5. QED  BY <1>1, <1>3, <2>1, <3>1, <3>2, <3>3, <3>4 DEF UnderWay, AtRest
  <2>3. ASSUME NEW u \in Threads, host'.job[u] # Pipe!NoJob
        PROVE  u \in host'.lock /\ host'.job[u].frame = host'.written
    <3>1. host.job \in [Threads -> PipeJobs]
      BY <1>1 DEF PipeHosts
    <3>2. u = t
      BY <1>3, <2>1, <2>3, <3>1
    <3>3. QED  BY <1>2, <1>3, <3>1, <3>2
  <2>4. QED  BY <1>3, <2>2, <2>3 DEF WriteSound
<1>5. ReadSound(host', board', wire')
  BY <1>1, <1>3, ReadsRest DEF SameReads, Ended, PipeInv
<1>6. QED  BY <1>1, <1>3, <1>4, <1>5 DEF PipeInv, PipeShape

LEMMA WriteReturnsKeeps ==
  ASSUME PipeInv, NEW t \in Threads, Pipe!WriteReturns(t)
  PROVE  PipeInv'
<1>1. /\ host \in PipeHosts /\ board \in PipeBoards /\ wire \in PipeWires
      /\ host.job[t] # Pipe!NoJob /\ host.job[t].frame \in host.done
      /\ board' = board /\ wire' = wire
      /\ host' = [host EXCEPT !.job[t] = Pipe!NoJob, !.lock = @ \ {t}]
  BY DEF PipeInv, PipeShape, Pipe!WriteReturns
<1>2. /\ host' \in PipeHosts /\ host'.phase = host.phase /\ host'.size = host.size
      /\ host'.lock = host.lock \ {t} /\ host'.job = [host.job EXCEPT ![t] = Pipe!NoJob]
      /\ host'.loop = host.loop /\ host'.written = host.written
      /\ host'.done = host.done /\ host'.late = host.late /\ host'.read = host.read
      /\ host'.rx = host.rx
  BY <1>1, NoJobIsJob DEF PipeHosts
<1>3. WriteSound(host', board')
  <2> SUFFICES ASSUME ~host.late PROVE WriteSound(host', board')
    BY <1>2 DEF WriteSound
  <2>1. /\ AtRest(host, board) \/ CutOff(host, board) \/ UnderWay(host, board)
        /\ host.job[t].frame = host.written /\ host.written \in Nat
        /\ \A u \in Threads : host.job[u] # Pipe!NoJob => u \in host.lock /\ host.job[u].frame = host.written
        /\ host.phase \in {"new", "connecting"} => host.written = 0
    BY <1>1 DEF PipeInv, WriteSound, PipeHosts
  <2>2. AtRest(host, board)
    <3>1. host.written \in host.done
      BY <1>1, <2>1
    <3>2. host.done # 1 .. host.written - 1
      BY <2>1, <3>1
    <3>3. QED  BY <2>1, <3>2 DEF CutOff, UnderWay
  <2>3. AtRest(host', board')
    BY <1>1, <1>2, <2>2 DEF AtRest, Lasts
  <2>4. ASSUME NEW u \in Threads, host'.job[u] # Pipe!NoJob
        PROVE  u \in host'.lock /\ host'.job[u].frame = host'.written
    <3>1. host.job \in [Threads -> PipeJobs]
      BY <1>1 DEF PipeHosts
    <3>2. u # t /\ host'.job[u] = host.job[u]
      BY <1>2, <2>4, <3>1
    <3>3. QED  BY <1>2, <2>1, <2>4, <3>2
  <2>5. QED  BY <1>2, <2>1, <2>3, <2>4 DEF WriteSound
<1>4. ReadSound(host', board', wire')
  BY <1>1, <1>2, ReadsRest DEF SameReads, Ended, PipeInv
<1>5. QED  BY <1>1, <1>2, <1>3, <1>4 DEF PipeInv, PipeShape

LEMMA WriteTimeoutKeeps ==
  ASSUME PipeInv, NEW t \in Threads, Pipe!WriteTimeout(t)
  PROVE  PipeInv'
<1>1. /\ host \in PipeHosts /\ board \in PipeBoards /\ wire \in PipeWires
      /\ board' = board /\ Pipe!Fault
      /\ host' = [host EXCEPT !.job[t] = Pipe!NoJob, !.lock = @ \ {t}, !.late = TRUE]
  BY DEF PipeInv, PipeShape, Pipe!WriteTimeout
<1>2. /\ host' \in PipeHosts /\ host'.phase = host.phase /\ host'.late
      /\ host'.read = host.read /\ host'.rx = host.rx
  BY <1>1, NoJobIsJob DEF PipeHosts
<1>3. wire' \in PipeWires /\ wire'.notes = wire.notes
  BY <1>1, FaultKeeps
<1>4. ReadSound(host', board', wire')
  BY <1>1, <1>2, <1>3, ReadsRest DEF SameReads, Ended, PipeInv
<1>5. QED  BY <1>1, <1>2, <1>3, <1>4 DEF PipeInv, PipeShape, WriteSound

LEMMA FrameGrows ==
  ASSUME NEW f \in Nat, NEW k \in Nat
  PROVE  /\ Append(FirstPieces(f, k), <<f, k + 1>>) = FirstPieces(f, k + 1)
         /\ Append(FirstFrames(k), k + 1) = FirstFrames(k + 1)
<1>1. Append(FirstFrames(k), k + 1) = FirstFrames(k + 1)
  <2> DEFINE s == FirstFrames(k)
  <2>1. s \in Seq(Nat) /\ Len(s) = k /\ \A i \in 1 .. k : s[i] = i
    BY DEF FirstFrames
  <2> HIDE DEF s
  <2>2. /\ Append(s, k + 1) \in Seq(Nat) /\ Len(Append(s, k + 1)) = k + 1
        /\ \A i \in 1 .. k + 1 : Append(s, k + 1)[i] = i
    BY <2>1
  <2>3. Append(s, k + 1) = [i \in 1 .. k + 1 |-> i]
    BY <2>2
  <2>4. QED  BY <2>3 DEF s, FirstFrames
<1>2. Append(FirstPieces(f, k), <<f, k + 1>>) = FirstPieces(f, k + 1)
  <2> DEFINE s == FirstPieces(f, k)
             S == Nat \X Nat
             x == <<f, k + 1>>
             g(i) == <<f, i>>
  <2>1. s \in Seq(S) /\ Len(s) = k /\ \A i \in 1 .. k : s[i] = g(i)
    BY DEF FirstPieces
  <2>2. x \in S /\ x = g(k + 1)
    OBVIOUS
  <2> HIDE DEF s, S, x, g
  <2>3. /\ Append(s, x) \in Seq(S) /\ Len(Append(s, x)) = k + 1
        /\ \A i \in 1 .. k + 1 : Append(s, x)[i] = g(i)
    BY <2>1, <2>2
  <2> DEFINE a == Append(s, x)
  <2> HIDE DEF a
  <2>4. a = [i \in 1 .. k + 1 |-> g(i)]
    <3>1. a \in Seq(S) /\ Len(a) = k + 1 /\ \A i \in 1 .. k + 1 : a[i] = g(i)
      BY <2>3 DEF a
    <3>2. DOMAIN a = 1 .. k + 1 /\ a = [i \in DOMAIN a |-> a[i]]
      BY <3>1
    <3>3. QED  BY <3>1, <3>2
  <2>5. QED  BY <2>4 DEF a, s, x, g, FirstPieces
<1>3. QED  BY <1>1, <1>2

LEMMA WriteChunkKeeps ==
  ASSUME PipeInv, Pipe!WriteChunk
  PROVE  PipeInv'
<1>1. /\ host \in PipeHosts /\ board \in PipeBoards /\ wire \in PipeWires /\ wire' = wire
  BY DEF PipeInv, PipeShape, Pipe!WriteChunk
<1>2. PICK job \in host.loop :
        \/ /\ board.linked
           /\ board' = Pipe!Receive(board, <<job.frame, job.at + 1>>, job.at + 1 = host.size)
           /\ host' = IF job.at + 1 = host.size
                      THEN [host EXCEPT !.loop = host.loop \ {job}, !.done = @ \cup {job.frame}]
                      ELSE [host EXCEPT !.loop = (host.loop \ {job}) \cup {[job EXCEPT !.at = job.at + 1]}]
        \/ /\ ~board.linked /\ board' = board
           /\ host' = [host EXCEPT !.loop = host.loop \ {job}, !.done = @ \cup {job.frame}]
  BY DEF Pipe!WriteChunk
<1> DEFINE k == job.at + 1
           f == job.frame
           rest == host.loop \ {job}
           d == host.done \cup {f}
           next == [job EXCEPT !.at = k]
<1>3. /\ job \in PipeJobs /\ f \in Nat /\ k \in Nat /\ k # 0 /\ rest \in SUBSET PipeJobs
      /\ d \in SUBSET Nat /\ next \in PipeJobs /\ next.frame = f /\ next.at = k
  BY <1>1 DEF PipeHosts, PipeJobs
<1>4. ASSUME host' = [host EXCEPT !.loop = rest, !.done = d]
      PROVE  /\ host' \in PipeHosts /\ host'.loop = rest /\ host'.done = d
             /\ host'.phase = host.phase /\ host'.size = host.size /\ host'.lock = host.lock
             /\ host'.job = host.job /\ host'.written = host.written /\ host'.late = host.late
             /\ host'.read = host.read /\ host'.rx = host.rx
  <2> HIDE DEF rest, d
  <2>1. QED  BY <1>1, <1>3, <1>4 DEF PipeHosts
<1>5. ASSUME host' = [host EXCEPT !.loop = rest \cup {next}]
      PROVE  /\ host' \in PipeHosts /\ host'.loop = rest \cup {next} /\ host'.done = host.done
             /\ host'.phase = host.phase /\ host'.size = host.size /\ host'.lock = host.lock
             /\ host'.job = host.job /\ host'.written = host.written /\ host'.late = host.late
             /\ host'.read = host.read /\ host'.rx = host.rx
  <2> HIDE DEF rest, next
  <2>1. QED  BY <1>1, <1>3, <1>5 DEF PipeHosts
<1>6. ASSUME NEW last \in BOOLEAN, board' = Pipe!Receive(board, <<f, k>>, last)
      PROVE  /\ board' \in PipeBoards /\ board'.linked = board.linked /\ board'.sent = board.sent
             /\ ~last => board'.partial = Append(board.partial, <<f, k>>) /\ board'.got = board.got
             /\ last => board'.partial = <<>>
             /\ last /\ Append(board.partial, <<f, k>>) = Pipe!WholeFrame(f)
                  => board'.got = Append(board.got, f)
  <2> DEFINE x == <<f, k>>
             a == Append(board.partial, x)
             g == IF a = Pipe!WholeFrame(f) THEN Append(board.got, f) ELSE board.got
  <2>1. x \in Nat \X Nat /\ x[1] = f
    BY <1>3
  <2>2. a \in Seq(Nat \X Nat) /\ g \in Seq(Nat)
    <3>1. board.partial \in Seq(Nat \X Nat) /\ board.got \in Seq(Nat)
      BY <1>1 DEF PipeBoards
    <3> DEFINE S == Nat \X Nat
    <3> HIDE DEF S, x, f
    <3>2. QED  BY <1>3, <2>1, <3>1 DEF S
  <2>3. board' = IF ~last THEN [board EXCEPT !.partial = a]
                 ELSE [board EXCEPT !.partial = <<>>, !.got = g]
    BY <1>6, <2>1 DEF Pipe!Receive
  <2>4. (a = Pipe!WholeFrame(f) => g = Append(board.got, f)) /\ <<>> \in Seq(Nat \X Nat)
    OBVIOUS
  <2> HIDE DEF a, g, x
  <2>5. CASE last
    BY <1>1, <2>2, <2>3, <2>4, <2>5 DEF PipeBoards, a, x
  <2>6. CASE ~last
    BY <1>1, <2>2, <2>3, <2>6 DEF PipeBoards, a, x
  <2>7. QED  BY <2>5, <2>6
<1>7. /\ host' \in PipeHosts /\ board' \in PipeBoards
      /\ host'.phase = host.phase /\ host'.size = host.size /\ host'.lock = host.lock
      /\ host'.job = host.job /\ host'.written = host.written /\ host'.late = host.late
      /\ host'.read = host.read /\ host'.rx = host.rx
      /\ board'.linked = board.linked /\ board'.sent = board.sent
  <2>1. (k = host.size) \in BOOLEAN
    OBVIOUS
  <2> HIDE DEF k, f, rest, d, next
  <2>2. \/ host' = [host EXCEPT !.loop = rest, !.done = d]
        \/ host' = [host EXCEPT !.loop = rest \cup {next}]
    BY <1>2 DEF k, f, rest, d, next
  <2>3. board' = board \/ board' = Pipe!Receive(board, <<f, k>>, k = host.size)
    BY <1>2 DEF k, f
  <2>4. QED  BY <1>1, <1>4, <1>5, <1>6, <2>1, <2>2, <2>3
<1>8. ReadSound(host', board', wire')
  BY <1>1, <1>7, ReadsRest DEF SameReads, Ended, PipeInv
<1>9. WriteSound(host', board')
  <2> SUFFICES ASSUME ~host.late PROVE WriteSound(host', board')
    BY <1>7 DEF WriteSound
  <2> DEFINE w == host.written
  <2>1. UnderWay(host, board) /\ w \in Nat /\ w # 0 /\ host.phase \in {"open", "closing"}
    BY <1>1, <1>2 DEF PipeInv, WriteSound, AtRest, CutOff, UnderWay, PipeHosts
  <2>2. /\ job = [frame |-> w, at |-> k - 1] /\ f = w /\ k \in 1 .. host.size /\ rest = {}
        /\ Lasts(host, board) => board.partial = FirstPieces(w, k - 1)
    <3>1. PICK i \in 0 .. host.size - 1 :
            /\ host.loop = {[frame |-> w, at |-> i]}
            /\ Lasts(host, board) => board.partial = FirstPieces(w, i)
      BY <2>1 DEF UnderWay
    <3>2. job = [frame |-> w, at |-> i] /\ rest = {}
      BY <3>1
    <3>3. host.size \in Nat /\ f = w /\ k = i + 1 /\ k - 1 = i
      BY <1>1, <3>2 DEF PipeHosts
    <3>4. QED  BY <3>1, <3>2, <3>3
  <2>3. /\ host.done = 1 .. w - 1 /\ host.lock # {}
        /\ Lasts(host, board) => board.got = FirstFrames(w - 1)
    BY <2>1 DEF UnderWay
  <2>4. Lasts(host, board) <=> board.linked
    BY <2>1 DEF Lasts
  <2>5. Lasts(host', board') <=> Lasts(host, board)
    BY <1>7 DEF Lasts
  <2>6. /\ \A t \in Threads : host'.job[t] # Pipe!NoJob =>
               t \in host'.lock /\ host'.job[t].frame = host'.written
        /\ host'.phase \in {"new", "connecting"} => host'.written = 0
    BY <1>7 DEF PipeInv, WriteSound
  <2>7. d = 1 .. w
    BY <2>1, <2>2, <2>3
  <2>8. Append(FirstPieces(w, k - 1), <<w, k>>) = FirstPieces(w, k)
        /\ Append(FirstFrames(w - 1), w) = FirstFrames(w)
    <3>1. k - 1 \in Nat /\ w - 1 \in Nat /\ k - 1 + 1 = k /\ w - 1 + 1 = w
      BY <1>3, <2>1
    <3>2. QED  BY <2>1, <3>1, FrameGrows
  <2> HIDE DEF k, f, rest, d, next, w
  <2>9. CASE ~board.linked
    <3>1. host' = [host EXCEPT !.loop = rest, !.done = d]
      BY <1>2, <2>9 DEF rest, d, f
    <3>2. AtRest(host', board')
      BY <1>4, <2>2, <2>4, <2>5, <2>7, <2>9, <3>1 DEF AtRest, w
    <3>3. QED  BY <2>6, <3>2 DEF WriteSound
  <2>10. CASE board.linked /\ k = host.size
    <3>1. host' = [host EXCEPT !.loop = rest, !.done = d]
      BY <1>2, <2>10 DEF rest, d, f, k
    <3>2. board' = Pipe!Receive(board, <<f, k>>, TRUE)
      <4>1. board' = Pipe!Receive(board, <<f, k>>, k = host.size)
        BY <1>2, <2>10 DEF f, k
      <4>2. (k = host.size) = TRUE
        BY <2>10
      <4>3. QED  BY <4>1, <4>2
    <3>3. Pipe!WholeFrame(f) = FirstPieces(w, k)
      BY <2>2, <2>10 DEF Pipe!WholeFrame, FirstPieces
    <3>4. board'.partial = <<>> /\ board'.got = FirstFrames(w)
      BY <1>6, <2>2, <2>3, <2>4, <2>8, <2>10, <3>2, <3>3
    <3>5. AtRest(host', board')
      BY <1>4, <2>2, <2>7, <3>1, <3>4 DEF AtRest, w
    <3>6. QED  BY <2>6, <3>5 DEF WriteSound
  <2>11. CASE board.linked /\ k # host.size
    <3>1. host' = [host EXCEPT !.loop = rest \cup {next}]
      BY <1>2, <2>11 DEF rest, next, k
    <3>2. board' = Pipe!Receive(board, <<f, k>>, FALSE)
      <4>1. board' = Pipe!Receive(board, <<f, k>>, k = host.size)
        BY <1>2, <2>11 DEF f, k
      <4>2. (k = host.size) = FALSE
        BY <2>11
      <4>3. QED  BY <4>1, <4>2
    <3>3. board'.partial = FirstPieces(w, k) /\ board'.got = FirstFrames(w - 1)
      BY <1>6, <2>2, <2>3, <2>4, <2>8, <2>11, <3>2
    <3>4. next = [frame |-> w, at |-> k]
      BY <2>2 DEF next
    <3>5. k \in 0 .. host.size - 1
      BY <1>1, <1>3, <2>2, <2>11 DEF PipeHosts
    <3>6. UnderWay(host', board')
      <4>1. host'.loop = {[frame |-> w, at |-> k]}
        BY <1>5, <2>2, <3>1, <3>4
      <4>2. host'.done = 1 .. w - 1 /\ host'.written = w
        BY <1>5, <2>3, <3>1 DEF w
      <4>3. QED  BY <1>7, <2>1, <2>3, <3>3, <3>5, <4>1, <4>2 DEF UnderWay, w
    <3>7. QED  BY <2>6, <3>6 DEF WriteSound
  <2>12. QED  BY <2>9, <2>10, <2>11
<1>10. QED  BY <1>1, <1>7, <1>8, <1>9 DEF PipeInv, PipeShape

LEMMA Queued ==
  ASSUME NEW r, NEW x, r \in Seq(Nat), x \in Seq(Nat), NEW e \in Nat
  PROVE  /\ r \o x \in Seq(Nat) /\ Append(x, e) \in Seq(Nat)
         /\ r \o Append(x, e) = Append(r \o x, e)
         /\ Len(Append(r \o x, e)) = Len(r \o x) + 1 /\ Len(r \o x) \in Nat
<1>1. r \o x \in Seq(Nat) /\ Append(x, e) \in Seq(Nat)
  OBVIOUS
<1>2. r \o Append(x, e) = Append(r \o x, e)
  BY LastInRow
<1> DEFINE s == r \o x
<1> HIDE DEF s
<1>3. Len(Append(s, e)) = Len(s) + 1 /\ Len(s) \in Nat
  BY <1>1 DEF s
<1>4. QED  BY <1>1, <1>2, <1>3 DEF s

LEMMA SendKeeps ==
  ASSUME PipeInv, Pipe!Send
  PROVE  PipeInv'
<1> DEFINE q == Append(wire.notes, board.sent + 1)
           m == board.sent + 1
<1>1. /\ host \in PipeHosts /\ board \in PipeBoards /\ wire \in PipeWires /\ host' = host
      /\ board' = [board EXCEPT !.sent = m] /\ wire' = [wire EXCEPT !.notes = q]
  BY DEF PipeInv, PipeShape, Pipe!Send
<1>2. m \in Nat /\ wire.notes \in Seq(Nat) /\ board.sent \in Nat
  BY <1>1 DEF PipeBoards, PipeWires
<1>3. /\ q \in Seq(Nat) /\ Len(q) = Len(wire.notes) + 1 /\ q[Len(wire.notes) + 1] = m
      /\ \A i \in 1 .. Len(wire.notes) : q[i] = wire.notes[i]
  <2> DEFINE r == wire.notes
  <2> HIDE DEF m, r
  <2>1. r \in Seq(Nat) /\ m \in Nat /\ q = Append(r, m)
    BY <1>2 DEF r, m
  <2> HIDE DEF q
  <2>2. /\ q \in Seq(Nat) /\ Len(q) = Len(r) + 1 /\ q[Len(r) + 1] = m
        /\ \A i \in 1 .. Len(r) : q[i] = r[i]
    BY <2>1
  <2>3. QED  BY <2>2 DEF r
<1> HIDE DEF q
<1>4. wire' \in PipeWires /\ wire'.notes = q
  BY <1>1, <1>3 DEF PipeWires
<1>5. /\ board' \in PipeBoards /\ board'.sent = m /\ board'.linked = board.linked
      /\ board'.partial = board.partial /\ board'.got = board.got
  BY <1>1, <1>2 DEF PipeBoards
<1>6. WriteSound(host', board')
  BY <1>1, <1>5, WritesRest DEF SameWrites, PipeInv
<1>7. ReadSound(host', board', wire')
  <2> DEFINE s == host.read \o host.rx
             n == IF Ended(host) THEN Len(s) - 1 ELSE Len(s)
  <2>1. PICK p \in 1 .. Len(s) + 1 :
          Notified(s, p) /\ (Ended(host) <=> p <= Len(s)) /\ Follow(wire.notes, n, board.sent)
    BY DEF PipeInv, ReadSound
  <2>2. n \in Int
    BY <1>1 DEF PipeHosts
  <2>3. Follow(q, n, m)
    <3> DEFINE r == wire.notes
    <3>1. /\ r \in Seq(Nat) /\ Len(r) \in Nat /\ Len(r) = board.sent - n /\ m = board.sent + 1
          /\ board.sent \in Nat /\ \A i \in 1 .. Len(r) : r[i] = n + i
          /\ Len(q) = Len(r) + 1 /\ q[Len(r) + 1] = m /\ \A i \in 1 .. Len(r) : q[i] = r[i]
      <4>1. Len(r) = board.sent - n /\ \A i \in 1 .. Len(r) : r[i] = n + i
        BY <2>1 DEF Follow
      <4>2. r \in Seq(Nat) /\ board.sent \in Nat /\ m = board.sent + 1
        BY <1>2
      <4>3. Len(q) = Len(r) + 1 /\ q[Len(r) + 1] = m /\ \A i \in 1 .. Len(r) : q[i] = r[i]
        BY <1>3
      <4> HIDE DEF r, n, s, m
      <4>4. QED  BY <4>1, <4>2, <4>3
    <3> HIDE DEF r, n, s, m
    <3>2. Len(q) = m - n
      BY <2>2, <3>1
    <3>3. ASSUME NEW i \in 1 .. Len(q) PROVE q[i] = n + i
      <4>1. CASE i = Len(r) + 1
        BY <2>2, <3>1, <4>1
      <4>2. CASE i \in 1 .. Len(r)
        BY <3>1, <4>2
      <4>3. QED  BY <3>1, <4>1, <4>2
    <3>4. QED  BY <3>2, <3>3 DEF Follow
  <2> HIDE DEF s, n
  <2>4. QED  BY <1>1, <1>4, <1>5, <2>1, <2>3 DEF ReadSound, s, n
<1>8. QED  BY <1>1, <1>4, <1>5, <1>6, <1>7 DEF PipeInv, PipeShape

\* A notification is appended to what was notified, or the sentinel is.
LEMMA NotifiedGrows ==
  ASSUME NEW s \in Seq(Nat), NEW p \in 1 .. Len(s) + 1, Notified(s, p)
  PROVE  /\ p = Len(s) + 1 => /\ Notified(Append(s, Len(s) + 1), p + 1)
                              /\ Notified(Append(s, 0), p)
         /\ p <= Len(s) => Notified(Append(s, Len(s)), p)
<1> DEFINE n == Len(s)
<1>1. n \in Nat /\ p \in Nat /\ p <= n + 1
  OBVIOUS
<1>2. ASSUME NEW x \in Nat
      PROVE  /\ Len(Append(s, x)) = n + 1 /\ Append(s, x)[n + 1] = x
             /\ \A i \in 1 .. n : Append(s, x)[i] = s[i]
  OBVIOUS
<1>3. \A i \in 1 .. n : s[i] = IF i < p THEN i ELSE IF i = p THEN 0 ELSE i - 1
  BY DEF Notified
<1> HIDE DEF n
<1>4. \A i \in 1 .. n + 1 : i = n + 1 \/ i \in 1 .. n
  BY <1>1
<1>5. ASSUME p = n + 1 PROVE Notified(Append(s, n + 1), p + 1)
  BY <1>1, <1>2, <1>3, <1>4, <1>5 DEF Notified
<1>6. ASSUME p = n + 1 PROVE Notified(Append(s, 0), p)
  BY <1>1, <1>2, <1>3, <1>4, <1>6 DEF Notified
<1>7. ASSUME p <= n PROVE Notified(Append(s, n), p)
  <2> DEFINE u == Append(s, n)
  <2>1. Len(u) = n + 1 /\ u[n + 1] = n /\ \A i \in 1 .. n : u[i] = s[i]
    BY <1>1, <1>2
  <2> HIDE DEF u
  <2>2. ASSUME NEW i \in 1 .. Len(u) PROVE u[i] = IF i < p THEN i ELSE IF i = p THEN 0 ELSE i - 1
    <3>1. CASE i = n + 1
      <4>1. ~(i < p) /\ i # p /\ i - 1 = n
        BY <1>1, <1>7, <3>1
      <4>2. QED  BY <2>1, <3>1, <4>1
    <3>2. CASE i \in 1 .. n
      BY <1>3, <2>1, <3>2
    <3>3. QED  BY <1>4, <2>1, <3>1, <3>2
  <2>3. QED  BY <2>2 DEF Notified, u
<1>8. QED  BY <1>5, <1>6, <1>7 DEF n

LEMMA OnNotifyKeeps ==
  ASSUME PipeInv, Pipe!OnNotify
  PROVE  PipeInv'
<1> DEFINE e == Head(wire.notes)
           x == Append(host.rx, e)
           q == Tail(wire.notes)
           s == host.read \o host.rx
           n == IF Ended(host) THEN Len(s) - 1 ELSE Len(s)
<1>1. /\ host \in PipeHosts /\ board \in PipeBoards /\ wire \in PipeWires /\ board' = board
      /\ host' = [host EXCEPT !.rx = x] /\ wire' = [wire EXCEPT !.notes = q]
      /\ wire.notes # <<>>
  BY DEF PipeInv, PipeShape, Pipe!OnNotify
<1>2. /\ host.rx \in Seq(Nat) /\ host.read \in Seq(Nat) /\ wire.notes \in Seq(Nat)
      /\ board.sent \in Nat
  BY <1>1 DEF PipeHosts, PipeWires, PipeBoards
<1>3. e \in Nat /\ q \in Seq(Nat)
  BY <1>1, <1>2
<1>4. /\ s \in Seq(Nat) /\ x \in Seq(Nat) /\ host.read \o x = Append(s, e)
      /\ Len(Append(s, e)) = Len(s) + 1 /\ Len(s) \in Nat
  <2> DEFINE r == host.read
             y == host.rx
  <2> HIDE DEF e, r, y
  <2>1. r \in Seq(Nat) /\ y \in Seq(Nat) /\ e \in Nat
    BY <1>2, <1>3 DEF r, y
  <2>2. /\ r \o y \in Seq(Nat) /\ Append(y, e) \in Seq(Nat)
        /\ r \o Append(y, e) = Append(r \o y, e)
        /\ Len(Append(r \o y, e)) = Len(r \o y) + 1 /\ Len(r \o y) \in Nat
    BY <2>1, Queued
  <2>3. QED  BY <2>2 DEF r, y
<1>5. PICK p \in 1 .. Len(s) + 1 :
        Notified(s, p) /\ (Ended(host) <=> p <= Len(s)) /\ Follow(wire.notes, n, board.sent)
  BY DEF PipeInv, ReadSound
<1>6. e = n + 1 /\ Follow(q, n + 1, board.sent) /\ n \in Int
  <2> DEFINE r == wire.notes
  <2>1. /\ r \in Seq(Nat) /\ r # <<>> /\ Len(r) = board.sent - n /\ board.sent \in Nat
        /\ \A i \in 1 .. Len(r) : r[i] = n + i
    BY <1>1, <1>2, <1>5 DEF Follow
  <2>2. e = Head(r) /\ q = Tail(r) /\ n \in Int
    BY <1>4
  <2> HIDE DEF r, n, s, e, q, x
  <2>3. /\ Len(r) \in Nat \ {0} /\ Head(r) = r[1] /\ Len(q) = Len(r) - 1
        /\ \A i \in 1 .. Len(r) - 1 : q[i] = r[i + 1]
    BY <2>1, <2>2
  <2>4. e = n + 1 /\ Len(q) = board.sent - (n + 1)
    BY <2>1, <2>2, <2>3
  <2>5. ASSUME NEW i \in 1 .. Len(q) PROVE q[i] = n + 1 + i
    <3>1. i \in 1 .. Len(r) - 1 /\ i + 1 \in 1 .. Len(r)
      BY <2>3
    <3>2. QED  BY <2>1, <2>2, <2>3, <3>1
  <2>6. QED  BY <2>2, <2>4, <2>5 DEF Follow
<1> HIDE DEF x, q, e
<1>7. /\ wire' \in PipeWires /\ wire'.notes = q
  BY <1>1, <1>3 DEF PipeWires
<1>8. /\ host' \in PipeHosts /\ host'.rx = x /\ host'.read = host.read
      /\ SameWrites(host, host', board, board')
  BY <1>1, <1>4 DEF PipeHosts, SameWrites
<1>9. WriteSound(host', board')
  BY <1>8, WritesRest DEF PipeInv
<1>10. ReadSound(host', board', wire')
  <2> DEFINE u == Append(s, e)
  <2>1. host'.read \o host'.rx = u /\ (Ended(host') <=> Ended(host)) /\ board'.sent = board.sent
    BY <1>1, <1>4, <1>8 DEF SameWrites, Ended
  <2>2. Len(u) = Len(s) + 1 /\ Len(s) \in Nat
    BY <1>4
  <2> HIDE DEF s
  <2>3. CASE Ended(host)
    <3>1. p <= Len(s) /\ e = Len(s) /\ n = Len(s) - 1
      BY <1>5, <1>6, <2>2, <2>3
    <3>2. Notified(u, p)
      BY <1>4, <1>5, <3>1, NotifiedGrows
    <3>3. p \in 1 .. Len(u) + 1 /\ p <= Len(u) /\ Len(u) - 1 = n + 1
      BY <2>2, <3>1
    <3> HIDE DEF u, n
    <3>4. QED  BY <1>6, <1>7, <2>1, <2>3, <3>2, <3>3 DEF ReadSound
  <2>4. CASE ~Ended(host)
    <3>1. p = Len(s) + 1 /\ e = Len(s) + 1 /\ n = Len(s)
      BY <1>5, <1>6, <2>2, <2>4
    <3>2. Notified(u, p + 1)
      BY <1>4, <1>5, <3>1, NotifiedGrows
    <3>3. p + 1 \in 1 .. Len(u) + 1 /\ ~(p + 1 <= Len(u)) /\ Len(u) = n + 1
      BY <2>2, <3>1
    <3> HIDE DEF u, n
    <3>4. QED  BY <1>6, <1>7, <2>1, <2>4, <3>2, <3>3 DEF ReadSound
  <2>5. QED  BY <2>3, <2>4
<1>11. QED  BY <1>1, <1>7, <1>8, <1>9, <1>10 DEF PipeInv, PipeShape

LEMMA ReadKeeps ==
  ASSUME PipeInv, Pipe!Read
  PROVE  PipeInv'
<1> DEFINE a == Append(host.read, Head(host.rx))
           q == Tail(host.rx)
<1>1. /\ host \in PipeHosts /\ board \in PipeBoards /\ wire \in PipeWires
      /\ board' = board /\ wire' = wire /\ host.rx # <<>>
      /\ host' = [host EXCEPT !.read = a, !.rx = q]
  BY DEF PipeInv, PipeShape, Pipe!Read
<1>2. host.rx \in Seq(Nat) /\ host.read \in Seq(Nat)
  BY <1>1 DEF PipeHosts
<1>3. a \in Seq(Nat) /\ q \in Seq(Nat) /\ a \o q = host.read \o host.rx
  <2> DEFINE r == host.read
             y == host.rx
  <2> HIDE DEF r, y
  <2>1. r \in Seq(Nat) /\ y \in Seq(Nat) /\ y # <<>>
    BY <1>1, <1>2 DEF r, y
  <2>2. /\ Append(r, Head(y)) \in Seq(Nat) /\ Tail(y) \in Seq(Nat)
        /\ Append(r, Head(y)) \o Tail(y) = r \o y
    BY <2>1, MovesOn
  <2>3. QED  BY <2>2 DEF r, y
<1> HIDE DEF a, q
<1>4. /\ host' \in PipeHosts /\ host'.read = a /\ host'.rx = q
      /\ SameWrites(host, host', board, board')
  BY <1>1, <1>3 DEF PipeHosts, SameWrites
<1>5. WriteSound(host', board')
  BY <1>4, WritesRest DEF PipeInv
<1>6. ReadSound(host', board', wire')
  <2>1. host'.read \o host'.rx = host.read \o host.rx /\ (Ended(host') <=> Ended(host))
    BY <1>3, <1>4 DEF SameWrites, Ended
  <2>2. QED  BY <1>1, <2>1 DEF ReadSound, PipeInv
<1>7. QED  BY <1>1, <1>4, <1>5, <1>6 DEF PipeInv, PipeShape

LEMMA PipeDropsKeeps ==
  ASSUME PipeInv, Pipe!LinkDrops
  PROVE  PipeInv'
<1>1. /\ host \in PipeHosts /\ board \in PipeBoards /\ wire \in PipeWires
      /\ host' = host /\ Pipe!Fault /\ host.phase = "open"
      /\ board' = [board EXCEPT !.linked = FALSE, !.partial = <<>>]
  BY DEF PipeInv, PipeShape, Pipe!LinkDrops, Pipe!Is
<1>2. wire' \in PipeWires /\ wire'.notes = wire.notes
  BY <1>1, FaultKeeps
<1>3. /\ board' \in PipeBoards /\ ~board'.linked /\ board'.sent = board.sent
  <2>1. <<>> \in Seq(Nat \X Nat)
    OBVIOUS
  <2>2. QED  BY <1>1, <2>1 DEF PipeBoards
<1>4. WriteSound(host', board')
  BY <1>1, <1>3 DEF PipeInv, WriteSound, AtRest, CutOff, UnderWay, Lasts
<1>5. ReadSound(host', board', wire')
  BY <1>1, <1>2, <1>3, ReadsRest DEF SameReads, PipeInv
<1>6. QED  BY <1>1, <1>2, <1>3, <1>4, <1>5 DEF PipeInv, PipeShape

LEMMA PipeCloseKeeps ==
  ASSUME PipeInv, Pipe!Close
  PROVE  PipeInv'
<1> DEFINE x == Append(host.rx, 0)
           s == host.read \o host.rx
<1>1. /\ host \in PipeHosts /\ board \in PipeBoards /\ wire \in PipeWires
      /\ board' = board /\ wire' = wire /\ host.phase = "open"
      /\ host' = [host EXCEPT !.phase = "closing", !.rx = x]
  BY DEF PipeInv, PipeShape, Pipe!Close, Pipe!Is, Pipe!Shutdown
<1>2. host.rx \in Seq(Nat) /\ host.read \in Seq(Nat)
  BY <1>1 DEF PipeHosts
<1>3. /\ s \in Seq(Nat) /\ x \in Seq(Nat) /\ host.read \o x = Append(s, 0)
      /\ Len(Append(s, 0)) = Len(s) + 1 /\ Len(s) \in Nat
  <2> DEFINE r == host.read
             y == host.rx
  <2> HIDE DEF r, y
  <2>1. r \in Seq(Nat) /\ y \in Seq(Nat) /\ 0 \in Nat
    BY <1>2 DEF r, y
  <2>2. /\ r \o y \in Seq(Nat) /\ Append(y, 0) \in Seq(Nat)
        /\ r \o Append(y, 0) = Append(r \o y, 0)
        /\ Len(Append(r \o y, 0)) = Len(r \o y) + 1 /\ Len(r \o y) \in Nat
    BY <2>1, Queued
  <2>3. QED  BY <2>2 DEF r, y
<1> HIDE DEF x
<1>4. /\ host' \in PipeHosts /\ host'.phase = "closing" /\ host'.rx = x
      /\ host'.read = host.read /\ host'.size = host.size
      /\ host'.lock = host.lock /\ host'.job = host.job /\ host'.loop = host.loop
      /\ host'.written = host.written /\ host'.done = host.done /\ host'.late = host.late
  BY <1>1, <1>3 DEF PipeHosts, PipePhases
<1>5. WriteSound(host', board')
  BY <1>1, <1>4 DEF PipeInv, WriteSound, AtRest, CutOff, UnderWay, Lasts
<1>6. ReadSound(host', board', wire')
  <2>1. ~Ended(host) /\ Ended(host')
    BY <1>1, <1>4 DEF Ended
  <2>2. PICK p \in 1 .. Len(s) + 1 :
          Notified(s, p) /\ ~(p <= Len(s)) /\ Follow(wire.notes, Len(s), board.sent)
    BY <2>1 DEF PipeInv, ReadSound
  <2> DEFINE u == Append(s, 0)
  <2>3. Len(u) = Len(s) + 1 /\ Len(s) \in Nat /\ host'.read \o host'.rx = u
    BY <1>3, <1>4
  <2> HIDE DEF s
  <2>4. p = Len(s) + 1 /\ Notified(u, p)
    <3>1. p = Len(s) + 1
      BY <2>2, <2>3
    <3>2. QED  BY <1>3, <2>2, <3>1, NotifiedGrows
  <2>5. p \in 1 .. Len(u) + 1 /\ p <= Len(u) /\ Len(u) - 1 = Len(s)
    BY <2>3, <2>4
  <2> HIDE DEF u
  <2>6. QED  BY <1>1, <2>1, <2>2, <2>3, <2>4, <2>5 DEF ReadSound
<1>7. QED  BY <1>1, <1>4, <1>5, <1>6 DEF PipeInv, PipeShape

LEMMA DisconnectKeeps ==
  ASSUME PipeInv, Pipe!Disconnect
  PROVE  PipeInv'
<1>1. /\ host \in PipeHosts /\ board \in PipeBoards /\ wire \in PipeWires
      /\ host.phase = "closing" /\ host' = [host EXCEPT !.phase = "closed", !.loop = {}]
      /\ board' = [board EXCEPT !.linked = FALSE] \/ board' = board
      /\ Pipe!Fault \/ wire' = wire
  BY DEF PipeInv, PipeShape, Pipe!Disconnect, Pipe!Is, Pipe!NoFault
<1>2. wire' \in PipeWires /\ wire'.notes = wire.notes
  BY <1>1, FaultKeeps
<1>3. /\ board' \in PipeBoards /\ board'.sent = board.sent /\ (board'.linked => board.linked)
      /\ board'.partial = board.partial /\ board'.got = board.got
  BY <1>1 DEF PipeBoards
<1>4. /\ host' \in PipeHosts /\ host'.phase = "closed" /\ host'.loop = {}
      /\ host'.lock = host.lock /\ host'.job = host.job
      /\ host'.written = host.written /\ host'.done = host.done /\ host'.late = host.late
      /\ host'.read = host.read /\ host'.rx = host.rx
  BY <1>1 DEF PipeHosts, PipePhases
<1>5. WriteSound(host', board')
  <2> SUFFICES ASSUME ~host.late PROVE WriteSound(host', board')
    BY <1>4 DEF WriteSound
  <2>1. AtRest(host, board) \/ UnderWay(host, board)
    BY <1>1 DEF PipeInv, WriteSound, CutOff
  <2>2. AtRest(host', board') \/ CutOff(host', board')
    BY <1>1, <1>3, <1>4, <2>1 DEF AtRest, CutOff, UnderWay, Lasts
  <2>3. QED  BY <1>4, <2>2 DEF PipeInv, WriteSound
<1>6. ReadSound(host', board', wire')
  BY <1>1, <1>2, <1>3, <1>4, ReadsRest DEF SameReads, Ended, PipeInv
<1>7. QED  BY <1>2, <1>3, <1>4, <1>5, <1>6 DEF PipeInv, PipeShape

LEMMA PipeStep ==
  ASSUME PipeInv, Pipe!Next
  PROVE  PipeInv'
BY PipeConnectKeeps, NotifyKeeps, WriteChunkKeeps, SendKeeps, OnNotifyKeeps, ReadKeeps,
   PipeDropsKeeps, PipeCloseKeeps, DisconnectKeeps, WriteStartKeeps, WriteReturnsKeeps,
   WriteTimeoutKeeps
   DEF Pipe!Next

-----------------------------------------------------------------------------
(* The tools of the MCP server *)

McpLinks ==
  [board : Desk, closed : BOOLEAN, lost : BOOLEAN, dead : BOOLEAN, uart : Nat, built : Nat,
   ports : SUBSET Nat, inited : BOOLEAN]
McpCalls == [tool : Mcp!Tools, step : Mcp!Steps, link : Nat, board : Desk]
McpHosts ==
  [kind : {"calls"}, links : Seq(McpLinks), bridge : Nat, volume : Nat, lock : Threads \cup {0},
   call : [Threads -> McpCalls]]
McpWires ==
  [calls : Int, faults : Int, asked : Desk \cup {0}, strayed : BOOLEAN, statusOpens : BOOLEAN,
   notMounted : BOOLEAN, deadVolume : BOOLEAN, closedPort : BOOLEAN, missed : BOOLEAN]

\* The port that a link has opened is the one it keeps.
PortKept(l) == l.inited => l.uart # 0 /\ l.uart \in l.ports

\* A call at those steps has the lock, the link it mounts is the manager's, and its port is built.
CallOk(h, c, t) ==
  /\ c.step \in {"locked", "open", "mount"} => h.lock = t
  /\ c.step = "open" => h.bridge = 0 /\ h.volume = 0
  /\ c.step = "mount" => c.link = h.bridge /\ c.tool \in Mcp!FsTools
  /\ c.step \in {"mount", "subapi", "build", "use"} => c.link \in 1 .. Len(h.links)
  /\ c.step = "use" /\ c.tool \in Mcp!UartTools => h.links[c.link].uart # 0

ManagerOk(h) ==
  /\ h \in McpHosts /\ h.bridge \in 0 .. Len(h.links) /\ h.volume \in {0, h.bridge}
  /\ \A l \in 1 .. Len(h.links) : PortKept(h.links[l])
  /\ \A t \in Threads : CallOk(h, h.call[t], t)
ToolsOk(h) ==
  /\ h.kind = "class" /\ h.class \in Mcp!Classes /\ h.skip \in SUBSET Mcp!MethodNames
  /\ h.tools = Mcp!Methods(h.class, h.skip)

\* What calls have met: of its type, and no port that was opened was missed.
WireOk(w) == w \in McpWires /\ ~w.missed

\* A class and its tools, or calls and their manager.
McpInv == WireOk(wire) /\ (ToolsOk(host) \/ ManagerOk(host))

LEMMA OneToolEach ==
  ASSUME NEW class \in Mcp!Classes, NEW skip \in SUBSET Mcp!MethodNames, NEW fn \in 1 .. 2
  PROVE  LET named == {n \in Mcp!MethodNames : class[n].fn = fn}
             tools == {n \in Mcp!Methods(class, skip) : class[n].fn = fn} IN
         CASE named \cap skip # {} -> tools = {}
           [] \E n \in named : class[n].public /\ named \cap skip = {} -> \E n \in named : tools = {n}
           [] OTHER -> tools = {}
<1> DEFINE named == {n \in Mcp!MethodNames : class[n].fn = fn}
           tools == {n \in Mcp!Methods(class, skip) : class[n].fn = fn}
<1>1. Mcp!MethodNames = {1, 2, 3}
  BY DEF Mcp!MethodNames
<1>2. \A n : n \in tools <=>
        /\ n \in {1, 2, 3} /\ class[n].fn = fn /\ class[n].public
        /\ named \cap skip = {}
        /\ \A m \in 1 .. n - 1 : class[m].public => class[m].fn # fn
  <2>1. \A n : n \in Mcp!Methods(class, skip) <=>
          /\ n \in {1, 2, 3} /\ class[n].public /\ class[n].fn # 0
          /\ class[n].fn \notin {class[s].fn : s \in skip}
          /\ \A m \in 1 .. n - 1 : class[m].public => class[m].fn # class[n].fn
    BY <1>1 DEF Mcp!Methods
  <2>2. fn \in {class[s].fn : s \in skip} <=> named \cap skip # {}
    BY <1>1
  <2>3. QED  BY <2>1, <2>2
<1>3. \A n : n \in named <=> n \in {1, 2, 3} /\ class[n].fn = fn
  BY <1>1
<1> HIDE DEF named, tools
<1>4. CASE named \cap skip # {}
  <2>1. tools = {}
    BY <1>2, <1>4
  <2>2. QED  BY <1>4, <2>1 DEF named, tools
<1>5. CASE named \cap skip = {} /\ \E n \in named : class[n].public
  <2>1. \E n \in named : tools = {n}
    <3>1. \A n : n \in tools <=>
            /\ n \in named /\ class[n].public
            /\ \A m \in 1 .. n - 1 : ~(m \in named /\ class[m].public)
      <4>1. \A n \in {1, 2, 3} : \A m \in 1 .. n - 1 : m \in {1, 2, 3}
        OBVIOUS
      <4>2. QED  BY <1>2, <1>3, <1>5, <4>1
    <3>2. CASE 1 \in named /\ class[1].public
      <4>1. tools = {1}
        BY <1>3, <3>1, <3>2
      <4>2. QED  BY <3>2, <4>1
    <3>3. CASE ~(1 \in named /\ class[1].public) /\ 2 \in named /\ class[2].public
      <4>1. tools = {2}
        BY <1>3, <3>1, <3>3
      <4>2. QED  BY <3>3, <4>1
    <3>4. CASE /\ ~(1 \in named /\ class[1].public) /\ ~(2 \in named /\ class[2].public)
               /\ 3 \in named /\ class[3].public
      <4>1. tools = {3}
        BY <1>3, <3>1, <3>4
      <4>2. QED  BY <3>4, <4>1
    <3>5. QED  BY <1>3, <1>5, <3>2, <3>3, <3>4
  <2>2. QED  BY <1>5, <2>1 DEF named, tools
<1>6. CASE named \cap skip = {} /\ ~\E n \in named : class[n].public
  <2>1. tools = {}
    BY <1>2, <1>3, <1>6
  <2>2. QED  BY <1>6, <2>1 DEF named, tools
<1>7. QED  BY <1>4, <1>5, <1>6

LEMMA McpMeans == McpInv => Mcp!VolumeIsOfLink /\ Mcp!PortIsFound /\ Mcp!OneToolPerMethod
<1> SUFFICES ASSUME McpInv PROVE Mcp!VolumeIsOfLink /\ Mcp!PortIsFound /\ Mcp!OneToolPerMethod
  OBVIOUS
<1>1. Mcp!VolumeIsOfLink
  BY DEF McpInv, ToolsOk, ManagerOk, Mcp!VolumeIsOfLink
<1>2. Mcp!PortIsFound
  BY DEF McpInv, WireOk, Mcp!PortIsFound
<1>3. Mcp!OneToolPerMethod
  <2>1. CASE ToolsOk(host)
    BY <2>1, OneToolEach DEF ToolsOk, Mcp!OneToolPerMethod
  <2>2. CASE ManagerOk(host)
    BY <2>2 DEF ManagerOk, McpHosts, Mcp!OneToolPerMethod
  <2>3. QED  BY <2>1, <2>2 DEF McpInv
<1>4. QED  BY <1>1, <1>2, <1>3

LEMMA IdleIsCall ==
  /\ Mcp!Idle \in McpCalls /\ Mcp!Idle.step = "none" /\ Mcp!Idle.link = 0
  /\ Mcp!Idle.board = 1 /\ Mcp!Idle.tool = "gpio_write"
BY HostAssumption DEF Mcp!Idle, McpCalls, Mcp!Tools, Mcp!Steps, Mcp!Default

LEMMA OpenedIsLink ==
  ASSUME NEW b \in Desk
  PROVE  Mcp!Opened(b) \in McpLinks /\ PortKept(Mcp!Opened(b))
BY DEF Mcp!Opened, McpLinks, PortKept

LEMMA McpInit ==
  ASSUME Mcp!Init
  PROVE  McpInv
<1>1. wire = [calls |-> Uses, faults |-> Faults, asked |-> 0, strayed |-> FALSE, statusOpens |-> FALSE,
              notMounted |-> FALSE, deadVolume |-> FALSE, closedPort |-> FALSE, missed |-> FALSE]
  BY DEF Mcp!Init
<1>2. wire \in McpWires /\ ~wire.missed
  BY <1>1, HostAssumption, PartsAssumption DEF McpWires
<1>3. ASSUME NEW links \in {<<>>, <<Mcp!Opened(1)>>},
             host = [kind |-> "calls", links |-> links, bridge |-> Len(links), volume |-> 0, lock |-> 0,
                     call |-> [t \in Threads |-> Mcp!Idle]]
      PROVE  ManagerOk(host)
  <2> DEFINE x == Mcp!Opened(1)
             f == [t \in Threads |-> Mcp!Idle]
  <2>1. x \in McpLinks /\ PortKept(x)
    BY OpenedIsLink, HostAssumption DEF Mcp!Default
  <2>2. f \in [Threads -> McpCalls] /\ \A t \in Threads : f[t] = Mcp!Idle
    BY IdleIsCall
  <2> HIDE DEF x, f
  <2>3. links \in {<<>>, <<x>>}
    BY DEF x
  <2>4. links \in Seq(McpLinks) /\ Len(links) \in Nat /\ \A l \in 1 .. Len(links) : PortKept(links[l])
    <3>1. CASE links = <<>>
      BY <3>1
    <3>2. CASE links = <<x>>
      <4>1. Len(<<x>>) = 1 /\ <<x>>[1] = x /\ <<x>> \in Seq(McpLinks)
        BY <2>1
      <4>2. \A l \in 1 .. 1 : l = 1
        OBVIOUS
      <4>3. QED  BY <2>1, <3>2, <4>1, <4>2
    <3>3. QED  BY <2>3, <3>1, <3>2
  <2>5. host = [kind |-> "calls", links |-> links, bridge |-> Len(links), volume |-> 0, lock |-> 0,
                call |-> f]
    BY <1>3 DEF f
  <2> HIDE DEF f
  <2>6. host \in McpHosts /\ host.call = f /\ host.links = links /\ host.bridge = Len(links) /\ host.volume = 0
    BY <2>2, <2>4, <2>5 DEF McpHosts
  <2>7. \A t \in Threads : CallOk(host, host.call[t], t)
    BY <2>2, <2>6, IdleIsCall DEF CallOk
  <2>8. QED  BY <2>4, <2>6, <2>7 DEF ManagerOk
<1>4. ASSUME NEW class \in Mcp!Classes, NEW skip \in SUBSET Mcp!MethodNames,
             host = [kind |-> "class", class |-> class, skip |-> skip, tools |-> Mcp!Methods(class, skip)]
      PROVE  ToolsOk(host)
  BY <1>4 DEF ToolsOk
<1>5. QED  BY <1>2, <1>3, <1>4 DEF Mcp!Init, McpInv, WireOk, Mcp!Default

-----------------------------------------------------------------------------

\* The links stay, and so do their ports; there may be more.
Grows(p, q) == Len(p) <= Len(q) /\ \A l \in 1 .. Len(p) : p[l].uart # 0 => q[l].uart # 0

\* One call moves; who has not the lock leaves the manager alone.
LEMMA CallMoves ==
  ASSUME ManagerOk(host), NEW t \in Threads, NEW c \in McpCalls, host' \in McpHosts,
         host'.call = [host.call EXCEPT ![t] = c],
         Grows(host.links, host'.links),
         \A l \in 1 .. Len(host'.links) : PortKept(host'.links[l]),
         host'.bridge \in 0 .. Len(host'.links), host'.volume \in {0, host'.bridge},
         \/ host.lock \in {0, t}
         \/ host'.lock = host.lock /\ host'.bridge = host.bridge /\ host'.volume = host.volume,
         CallOk(host', c, t)
  PROVE  ManagerOk(host')
<1>1. host.call \in [Threads -> McpCalls] /\ Len(host.links) \in Nat /\ Len(host'.links) \in Nat
  BY DEF ManagerOk, McpHosts
<1>2. ASSUME NEW u \in Threads PROVE CallOk(host', host'.call[u], u)
  <2>1. CASE u = t
    BY <1>1, <2>1
  <2>2. CASE u # t
    <3>1. host'.call[u] = host.call[u] /\ CallOk(host, host.call[u], u)
      BY <1>1, <2>2 DEF ManagerOk
    <3>2. u # 0
      BY HostAssumption
    <3>3. CASE host.lock \in {0, t}
      BY <1>1, <2>2, <3>1, <3>2, <3>3 DEF CallOk, Grows
    <3>4. CASE host'.lock = host.lock /\ host'.bridge = host.bridge /\ host'.volume = host.volume
      BY <1>1, <3>1, <3>4 DEF CallOk, Grows
    <3>5. QED  BY <3>3, <3>4
  <2>3. QED  BY <2>1, <2>2
<1>3. QED  BY <1>2 DEF ManagerOk

\* It moves and the links stay as they are.
LEMMA CallSteps ==
  ASSUME ManagerOk(host), NEW t \in Threads, NEW c \in McpCalls, host' \in McpHosts,
         host'.call = [host.call EXCEPT ![t] = c], host'.links = host.links,
         host'.bridge = host.bridge, host'.volume \in {0, host'.bridge},
         \/ host.lock \in {0, t}
         \/ host'.lock = host.lock /\ host'.volume = host.volume,
         CallOk(host', c, t)
  PROVE  ManagerOk(host')
<1>1. Grows(host.links, host'.links)
  BY DEF Grows, ManagerOk, McpHosts
<1>2. QED  BY <1>1, CallMoves DEF ManagerOk

\* What the helpers of the model change.
Others(h, k) == k \in McpHosts /\ k.links = h.links /\ k.bridge = h.bridge /\ k.volume = h.volume

GoneTo(h, t, s) == [h.call[t] EXCEPT !.step = s]

LEMMA GoesMeans ==
  ASSUME NEW h \in McpHosts, NEW t \in Threads, NEW s \in Mcp!Steps
  PROVE  /\ Others(h, Mcp!Goes(h, t, s)) /\ Mcp!Goes(h, t, s).lock = h.lock
         /\ Mcp!Goes(h, t, s).call = [h.call EXCEPT ![t] = GoneTo(h, t, s)]
         /\ GoneTo(h, t, s) \in McpCalls /\ GoneTo(h, t, s).step = s
         /\ GoneTo(h, t, s).link = h.call[t].link /\ GoneTo(h, t, s).tool = h.call[t].tool
<1> DEFINE c == GoneTo(h, t, s)
<1>1. h.call[t] \in McpCalls
  BY DEF McpHosts
<1>2. c \in McpCalls /\ c.step = s /\ c.link = h.call[t].link /\ c.tool = h.call[t].tool
  BY <1>1 DEF McpCalls, GoneTo
<1>3. Mcp!Goes(h, t, s) = [h EXCEPT !.call[t] = c]
  BY DEF Mcp!Goes, GoneTo
<1> HIDE DEF c
<1>4. QED  BY <1>2, <1>3 DEF McpHosts, Others, c

LEMMA ReturnMeans ==
  ASSUME NEW h \in McpHosts, NEW t \in Threads
  PROVE  /\ Others(h, Mcp!Return(h, t)) /\ Mcp!Return(h, t).lock = h.lock
         /\ Mcp!Return(h, t).call = [h.call EXCEPT ![t] = Mcp!Idle]
BY IdleIsCall DEF Mcp!Return, McpHosts, Others

LEMMA UnlockedMeans ==
  ASSUME NEW h \in McpHosts
  PROVE  /\ Others(h, Mcp!Unlocked(h)) /\ Mcp!Unlocked(h).lock = 0
         /\ Mcp!Unlocked(h).call = h.call
BY DEF Mcp!Unlocked, McpHosts, Others

\* Where a call goes that is given a link, and the call then.
Wanted(t) == IF Mcp!Tool(t) \in Mcp!UartTools THEN "subapi" ELSE "use"
Given(h, t, l) == [h.call[t] EXCEPT !.link = l, !.step = Wanted(t)]

LEMMA WithMeans ==
  ASSUME NEW h \in McpHosts, NEW t \in Threads, NEW l \in Nat
  PROVE  /\ Others(h, Mcp!With(h, t, l)) /\ Mcp!With(h, t, l).lock = h.lock
         /\ Mcp!With(h, t, l).call = [h.call EXCEPT ![t] = Given(h, t, l)]
         /\ Given(h, t, l) \in McpCalls /\ Given(h, t, l).link = l
         /\ Given(h, t, l).step = Wanted(t) /\ Given(h, t, l).tool = h.call[t].tool
<1> DEFINE c == Given(h, t, l)
<1>1. h.call[t] \in McpCalls /\ Wanted(t) \in Mcp!Steps
  BY DEF McpHosts, Mcp!Steps, Wanted
<1>2. c \in McpCalls /\ c.link = l /\ c.step = Wanted(t) /\ c.tool = h.call[t].tool
  BY <1>1 DEF McpCalls, Given
<1>3. Mcp!With(h, t, l) = [h EXCEPT !.call[t] = c]
  BY DEF Mcp!With, McpHosts, Given, Wanted
<1> HIDE DEF c
<1>4. QED  BY <1>2, <1>3 DEF McpHosts, Others, c

\* A call that uses the link it is given at once is not of a UART tool.
LEMMA WantedMeans ==
  ASSUME NEW t \in Threads
  PROVE  Wanted(t) \in {"subapi", "use"} /\ (Wanted(t) = "use" => host.call[t].tool \notin Mcp!UartTools)
BY DEF Wanted, Mcp!Tool

LEMMA ClosedMeans ==
  ASSUME ManagerOk(host)
  PROVE  /\ Mcp!Closed \in McpHosts /\ Mcp!Closed.bridge = 0 /\ Mcp!Closed.volume = 0
         /\ Mcp!Closed.lock = host.lock /\ Mcp!Closed.call = host.call
         /\ Grows(host.links, Mcp!Closed.links)
         /\ \A l \in 1 .. Len(Mcp!Closed.links) : PortKept(Mcp!Closed.links[l])
<1> DEFINE c(l) == IF l = host.bridge THEN [host.links[l] EXCEPT !.closed = TRUE] ELSE host.links[l]
           n == Len(host.links)
           q == [l \in 1 .. n |-> c(l)]
<1>1. host \in McpHosts /\ host.links \in Seq(McpLinks) /\ n \in Nat /\ DOMAIN host.links = 1 .. n
  BY DEF ManagerOk, McpHosts
<1>2. Mcp!Closed = [host EXCEPT !.bridge = 0, !.volume = 0, !.links = q]
  BY <1>1 DEF Mcp!Closed
<1>3. ASSUME NEW l \in 1 .. n
      PROVE  c(l) \in McpLinks /\ PortKept(c(l)) /\ c(l).uart = host.links[l].uart
  <2>1. host.links[l] \in McpLinks /\ PortKept(host.links[l])
    BY <1>1 DEF ManagerOk
  <2>2. QED  BY <2>1 DEF McpLinks, PortKept
<1> HIDE DEF c, n
<1>4. q \in Seq(McpLinks) /\ Len(q) = n /\ \A l \in 1 .. n : q[l] = c(l)
  <2>1. q \in [1 .. n -> McpLinks]
    BY <1>3
  <2>2. QED  BY <1>1, <2>1, SeqDef
<1> HIDE DEF q
<1>5. /\ Mcp!Closed \in McpHosts /\ Mcp!Closed.bridge = 0 /\ Mcp!Closed.volume = 0
      /\ Mcp!Closed.lock = host.lock /\ Mcp!Closed.call = host.call /\ Mcp!Closed.links = q
  BY <1>1, <1>2, <1>4 DEF McpHosts
<1>6. Grows(host.links, q) /\ \A l \in 1 .. Len(q) : PortKept(q[l])
  BY <1>1, <1>3, <1>4 DEF Grows, n
<1>7. QED  BY <1>5, <1>6

-----------------------------------------------------------------------------

LEMMA CallKeepsOk ==
  ASSUME ManagerOk(host), NEW t \in Threads, Mcp!Call(t)
  PROVE  ManagerOk(host')
<1>1. PICK tool \in Mcp!Tools, b \in Desk :
        host' = [host EXCEPT !.call[t] = [Mcp!Idle EXCEPT !.tool = tool, !.board = b,
          !.step = CASE tool \in Mcp!FsTools \cup {"bridge_connect", "bridge_disconnect"} -> "acquire"
                     [] tool = "bridge_status" -> "status"
                     [] OTHER -> "lookup"]]
  BY DEF Mcp!Call
<1> DEFINE s == CASE tool \in Mcp!FsTools \cup {"bridge_connect", "bridge_disconnect"} -> "acquire"
                  [] tool = "bridge_status" -> "status"
                  [] OTHER -> "lookup"
           c == [Mcp!Idle EXCEPT !.tool = tool, !.board = b, !.step = s]
<1>2. s \in {"acquire", "status", "lookup"}
  BY DEF Mcp!FsTools
<1>3. host' = [host EXCEPT !.call[t] = c]
  BY <1>1
<1> HIDE DEF s
<1>4. c \in McpCalls /\ c.step \in {"acquire", "status", "lookup"}
  BY <1>2, IdleIsCall DEF McpCalls, Mcp!Steps
<1> HIDE DEF c
<1>5. /\ host' \in McpHosts /\ host'.call = [host.call EXCEPT ![t] = c] /\ host'.links = host.links
      /\ host'.bridge = host.bridge /\ host'.volume = host.volume /\ host'.lock = host.lock
  BY <1>3, <1>4 DEF ManagerOk, McpHosts
<1>6. CallOk(host', c, t)
  BY <1>4 DEF CallOk
<1>7. QED  BY <1>4, <1>5, <1>6, CallSteps DEF ManagerOk

\* A call goes on, is given a link, or returns.
LEMMA JustGoes ==
  ASSUME ManagerOk(host), NEW t \in Threads, NEW s \in {"lookup", "acquire"},
         host' = Mcp!Goes(host, t, s)
  PROVE  ManagerOk(host')
<1> DEFINE c == GoneTo(host, t, s)
<1>1. s \in Mcp!Steps /\ host \in McpHosts
  BY DEF Mcp!Steps, ManagerOk
<1>2. /\ host' \in McpHosts /\ host'.links = host.links /\ host'.bridge = host.bridge
      /\ host'.volume = host.volume /\ host'.lock = host.lock
      /\ host'.call = [host.call EXCEPT ![t] = c] /\ c \in McpCalls /\ c.step = s
  BY <1>1, GoesMeans DEF Others
<1> HIDE DEF c
<1>3. CallOk(host', c, t)
  BY <1>2 DEF CallOk
<1>4. QED  BY <1>2, <1>3, CallSteps DEF ManagerOk

LEMMA JustReturns ==
  ASSUME ManagerOk(host), NEW t \in Threads, host' = Mcp!Return(host, t)
  PROVE  ManagerOk(host')
<1>1. host \in McpHosts
  BY DEF ManagerOk
<1>2. /\ host' \in McpHosts /\ host'.links = host.links /\ host'.bridge = host.bridge
      /\ host'.volume = host.volume /\ host'.lock = host.lock
      /\ host'.call = [host.call EXCEPT ![t] = Mcp!Idle]
  BY <1>1, ReturnMeans DEF Others
<1>3. CallOk(host', Mcp!Idle, t)
  BY IdleIsCall DEF CallOk
<1>4. QED  BY <1>2, <1>3, IdleIsCall, CallSteps DEF ManagerOk

LEMMA StatusKeepsOk ==
  ASSUME ManagerOk(host), NEW t \in Threads, Mcp!Status(t)
  PROVE  ManagerOk(host')
BY JustGoes, JustReturns DEF Mcp!Status

LEMMA LookupKeepsOk ==
  ASSUME ManagerOk(host), NEW t \in Threads, Mcp!Lookup(t)
  PROVE  ManagerOk(host')
<1>1. CASE Mcp!Alive(host.bridge)
  <2> DEFINE c == Given(host, t, host.bridge)
  <2>1. /\ host \in McpHosts /\ host' = Mcp!With(host, t, host.bridge)
        /\ host.bridge \in 1 .. Len(host.links) /\ host.bridge \in Nat
    BY <1>1 DEF Mcp!Lookup, Mcp!Alive, ManagerOk, McpHosts
  <2>2. /\ host' \in McpHosts /\ host'.links = host.links /\ host'.bridge = host.bridge
        /\ host'.volume = host.volume /\ host'.lock = host.lock
        /\ host'.call = [host.call EXCEPT ![t] = c] /\ c \in McpCalls
        /\ c.step = Wanted(t) /\ c.link = host.bridge /\ c.tool = host.call[t].tool
    BY <2>1, WithMeans DEF Others
  <2> HIDE DEF c
  <2>3. CallOk(host', c, t)
    BY <2>1, <2>2, WantedMeans DEF CallOk
  <2>4. QED  BY <2>2, <2>3, CallSteps DEF ManagerOk
<1>2. CASE ~Mcp!Alive(host.bridge)
  BY <1>2, JustGoes DEF Mcp!Lookup
<1>3. QED  BY <1>1, <1>2

LEMMA AcquireKeepsOk ==
  ASSUME ManagerOk(host), NEW t \in Threads, Mcp!Acquire(t)
  PROVE  ManagerOk(host')
<1> DEFINE c == [host.call[t] EXCEPT !.step = "locked"]
<1>1. /\ host \in McpHosts /\ host.lock = 0 /\ host.call[t] \in McpCalls
      /\ host' = [host EXCEPT !.lock = t, !.call[t] = c]
  BY DEF Mcp!Acquire, ManagerOk, McpHosts
<1>2. c \in McpCalls /\ c.step = "locked"
  BY <1>1 DEF McpCalls, Mcp!Steps
<1> HIDE DEF c
<1>3. /\ host' \in McpHosts /\ host'.links = host.links /\ host'.bridge = host.bridge
      /\ host'.volume = host.volume /\ host'.lock = t /\ host'.call = [host.call EXCEPT ![t] = c]
  BY <1>1, <1>2 DEF McpHosts
<1>4. CallOk(host', c, t)
  BY <1>2, <1>3 DEF CallOk
<1>5. QED  BY <1>1, <1>2, <1>3, <1>4, CallSteps DEF ManagerOk

LEMMA DisconnectKeepsOk ==
  ASSUME ManagerOk(host), NEW t \in Threads, Mcp!Disconnect(t)
  PROVE  ManagerOk(host')
<1> DEFINE a == Mcp!Closed
           b == Mcp!Return(a, t)
<1>1. host' = Mcp!Unlocked(b) /\ host.call[t].step = "locked"
  BY DEF Mcp!Disconnect, Mcp!Step
<1>2. host.lock = t
  BY <1>1 DEF ManagerOk, CallOk
<1>3. /\ a \in McpHosts /\ a.bridge = 0 /\ a.volume = 0 /\ a.lock = host.lock /\ a.call = host.call
      /\ Grows(host.links, a.links) /\ \A l \in 1 .. Len(a.links) : PortKept(a.links[l])
  BY ClosedMeans
<1> HIDE DEF a
<1>4. Others(a, b) /\ b.call = [a.call EXCEPT ![t] = Mcp!Idle] /\ b \in McpHosts
  BY <1>3, ReturnMeans DEF Others
<1> HIDE DEF b
<1>5. Others(b, host') /\ host'.lock = 0 /\ host'.call = b.call
  BY <1>1, <1>4, UnlockedMeans
<1>6. /\ host' \in McpHosts /\ host'.links = a.links /\ host'.bridge = 0 /\ host'.volume = 0
      /\ host'.call = [host.call EXCEPT ![t] = Mcp!Idle]
  BY <1>3, <1>4, <1>5 DEF Others
<1>7. 0 \in 0 .. Len(host'.links)
  BY <1>6 DEF McpHosts
<1>8. CallOk(host', Mcp!Idle, t)
  BY IdleIsCall DEF CallOk
<1>9. QED  BY <1>2, <1>3, <1>6, <1>7, <1>8, IdleIsCall, CallMoves

LEMMA LockedKeepsOk ==
  ASSUME ManagerOk(host), NEW t \in Threads, Mcp!Locked(t)
  PROVE  ManagerOk(host')
<1>1. /\ host \in McpHosts /\ host.call[t] \in McpCalls /\ host.call[t].step = "locked"
      /\ host.bridge \in 0 .. Len(host.links) /\ host.volume \in {0, host.bridge}
      /\ host.bridge \in Nat /\ host.volume \in Nat
  BY DEF Mcp!Locked, Mcp!Step, ManagerOk, McpHosts
<1>2. host.lock = t
  BY <1>1 DEF ManagerOk, CallOk
<1>3. ASSUME NEW l \in 1 .. Len(host.links), host' = Mcp!Unlocked(Mcp!With(host, t, l))
      PROVE  ManagerOk(host')
  <2> DEFINE c == Given(host, t, l)
             a == Mcp!With(host, t, l)
  <2>1. /\ Others(host, a) /\ a.call = [host.call EXCEPT ![t] = c] /\ c \in McpCalls
        /\ c.step = Wanted(t) /\ c.link = l /\ c.tool = host.call[t].tool /\ a \in McpHosts
    BY <1>1, WithMeans DEF Others
  <2>2. host' = Mcp!Unlocked(a)
    BY <1>3
  <2> HIDE DEF a, c
  <2>3. Others(a, host') /\ host'.lock = 0 /\ host'.call = a.call
    BY <2>1, <2>2, UnlockedMeans
  <2>4. /\ host' \in McpHosts /\ host'.links = host.links /\ host'.bridge = host.bridge
        /\ host'.volume = host.volume /\ host'.call = [host.call EXCEPT ![t] = c]
    BY <2>1, <2>3 DEF Others
  <2>5. CallOk(host', c, t)
    BY <2>1, <2>4, WantedMeans DEF CallOk
  <2>6. QED  BY <1>1, <1>2, <2>1, <2>4, <2>5, CallSteps
<1>4. CASE Mcp!Tool(t) = "fs_tree" /\ host.volume # 0
  <2>1. host' = Mcp!Unlocked(Mcp!With(host, t, host.volume))
    BY <1>4 DEF Mcp!Locked
  <2>2. host.volume \in 1 .. Len(host.links)
    BY <1>1, <1>4
  <2>3. QED  BY <1>3, <2>1, <2>2
<1>5. CASE host' = Mcp!Goes(Mcp!Closed, t, "open")
  <2> DEFINE a == Mcp!Closed
             c == GoneTo(a, t, "open")
  <2>1. /\ a \in McpHosts /\ a.bridge = 0 /\ a.volume = 0 /\ a.lock = host.lock /\ a.call = host.call
        /\ Grows(host.links, a.links) /\ \A l \in 1 .. Len(a.links) : PortKept(a.links[l])
    BY ClosedMeans
  <2>2. "open" \in Mcp!Steps /\ host' = Mcp!Goes(a, t, "open")
    BY <1>5 DEF Mcp!Steps
  <2> HIDE DEF a
  <2>3. Others(a, host') /\ host'.lock = a.lock /\ host'.call = [a.call EXCEPT ![t] = c] /\ c \in McpCalls
        /\ c.step = "open"
    BY <2>1, <2>2, GoesMeans
  <2> HIDE DEF c
  <2>4. /\ host' \in McpHosts /\ host'.links = a.links /\ host'.bridge = 0 /\ host'.volume = 0
        /\ host'.call = [host.call EXCEPT ![t] = c] /\ host'.lock = t
    BY <1>2, <2>1, <2>3 DEF Others
  <2>5. 0 \in 0 .. Len(host'.links)
    BY <2>4 DEF McpHosts
  <2>6. CallOk(host', c, t)
    BY <2>3, <2>4 DEF CallOk
  <2>7. QED  BY <1>2, <2>1, <2>3, <2>4, <2>5, <2>6, CallMoves
<1>6. CASE /\ ~(Mcp!Tool(t) = "fs_tree" /\ host.volume # 0)
           /\ ~(Mcp!Tool(t) = "bridge_connect" \/ ~Mcp!Alive(host.bridge))
  <2>1. host.bridge \in 1 .. Len(host.links)
    BY <1>1, <1>6 DEF Mcp!Alive
  <2>2. CASE Mcp!Tool(t) \in Mcp!FsTools
    <3> DEFINE a == Mcp!With(host, t, host.bridge)
               d == Given(host, t, host.bridge)
               c == GoneTo(a, t, "mount")
    <3>1. /\ Others(host, a) /\ a.call = [host.call EXCEPT ![t] = d] /\ a.lock = host.lock
          /\ d \in McpCalls /\ d.link = host.bridge /\ d.tool = host.call[t].tool /\ a \in McpHosts
      BY <1>1, WithMeans DEF Others
    <3>2. host' = Mcp!Goes(a, t, "mount") /\ "mount" \in Mcp!Steps
      BY <1>6, <2>2 DEF Mcp!Locked, Mcp!Steps
    <3> HIDE DEF a, d
    <3>3. a.call[t] = d
      BY <1>1, <3>1 DEF McpHosts
    <3>4. /\ Others(a, host') /\ host'.lock = a.lock /\ host'.call = [a.call EXCEPT ![t] = c]
          /\ c \in McpCalls /\ c.step = "mount" /\ c.link = a.call[t].link /\ c.tool = a.call[t].tool
      <4>1. /\ Others(a, Mcp!Goes(a, t, "mount")) /\ Mcp!Goes(a, t, "mount").lock = a.lock
            /\ Mcp!Goes(a, t, "mount").call = [a.call EXCEPT ![t] = c]
            /\ c \in McpCalls /\ c.step = "mount" /\ c.link = a.call[t].link /\ c.tool = a.call[t].tool
        <5>1. a \in McpHosts /\ t \in Threads /\ "mount" \in Mcp!Steps
          BY <3>1, <3>2
        <5>2. QED  BY <5>1, GoesMeans
      <4>2. QED  BY <3>2, <4>1
    <3> HIDE DEF c
    <3>5. /\ host' \in McpHosts /\ host'.links = host.links /\ host'.bridge = host.bridge
          /\ host'.volume = host.volume /\ host'.lock = t
      BY <1>2, <3>1, <3>4 DEF Others
    <3>6. host'.call = [host.call EXCEPT ![t] = c]
      BY <1>1, <3>1, <3>4 DEF McpHosts
    <3>7. CallOk(host', c, t)
      BY <2>1, <2>2, <3>1, <3>3, <3>4, <3>5 DEF CallOk, Mcp!Tool
    <3>8. QED  BY <1>1, <1>2, <3>4, <3>5, <3>6, <3>7, CallSteps
  <2>3. CASE Mcp!Tool(t) \notin Mcp!FsTools
    <3>1. host' = Mcp!Unlocked(Mcp!With(host, t, host.bridge))
      BY <1>6, <2>3 DEF Mcp!Locked
    <3>2. QED  BY <1>3, <2>1, <3>1
  <2>4. QED  BY <2>2, <2>3
<1>7. QED  BY <1>4, <1>5, <1>6 DEF Mcp!Locked

-----------------------------------------------------------------------------
\* One link changes as its call moves.
LEMMA LinkMoves ==
  ASSUME ManagerOk(host), NEW t \in Threads, NEW c \in McpCalls,
         NEW l \in 1 .. Len(host.links), NEW x \in McpLinks, PortKept(x),
         host.links[l].uart # 0 => x.uart # 0,
         NEW k \in {host.lock, 0}, k = host.lock \/ host.lock = t,
         host' = [host EXCEPT !.links = [host.links EXCEPT ![l] = x],
                              !.call = [host.call EXCEPT ![t] = c], !.lock = k],
         c.step \in {"none", "use"},
         c.step = "use" => c.link = l /\ (c.tool \in Mcp!UartTools => x.uart # 0)
  PROVE  ManagerOk(host')
<1> DEFINE q == [host.links EXCEPT ![l] = x]
           f == [host.call EXCEPT ![t] = c]
<1>1. host.links \in Seq(McpLinks) /\ host \in McpHosts /\ Len(host.links) \in Nat
  BY DEF ManagerOk, McpHosts
<1>2. q \in Seq(McpLinks) /\ Len(q) = Len(host.links)
      /\ \A m \in 1 .. Len(host.links) : q[m] = IF m = l THEN x ELSE host.links[m]
  BY <1>1
<1>3. f \in [Threads -> McpCalls]
  BY DEF ManagerOk, McpHosts
<1>4. k \in Threads \cup {0}
  BY <1>1 DEF McpHosts
<1>5. host' = [host EXCEPT !.links = q, !.call = f, !.lock = k]
  OBVIOUS
<1> HIDE DEF q, f
<1>6. /\ host' \in McpHosts /\ host'.links = q /\ host'.call = f /\ host'.lock = k
      /\ host'.bridge = host.bridge /\ host'.volume = host.volume
  BY <1>1, <1>2, <1>3, <1>4, <1>5 DEF McpHosts
<1>7. Grows(host.links, q) /\ \A m \in 1 .. Len(q) : PortKept(q[m])
  BY <1>1, <1>2 DEF Grows, ManagerOk
<1>8. CallOk(host', c, t)
  BY <1>1, <1>2, <1>6 DEF CallOk
<1>9. host'.call = [host.call EXCEPT ![t] = c]
  BY <1>6 DEF f
<1>10. host'.bridge \in 0 .. Len(host'.links) /\ host'.volume \in {0, host'.bridge}
  BY <1>2, <1>6 DEF ManagerOk
<1>11. \/ host.lock \in {0, t}
       \/ host'.lock = host.lock /\ host'.bridge = host.bridge /\ host'.volume = host.volume
  BY <1>6
<1>12. QED  BY <1>6, <1>7, <1>8, <1>9, <1>10, <1>11, CallMoves

\* A call whose link fails returns; one that had the lock gives it back.
LEMMA FailKeepsOk ==
  ASSUME ManagerOk(host), NEW t \in Threads, host.call[t].link \in 1 .. Len(host.links),
         \/ host' = Mcp!Failed(host, t)
         \/ host' = Mcp!Unlocked(Mcp!Failed(host, t)) /\ host.lock = t
  PROVE  ManagerOk(host')
<1> DEFINE l == host.call[t].link
           x == IF host.links[l].lost THEN [host.links[l] EXCEPT !.dead = TRUE] ELSE host.links[l]
           q == [host.links EXCEPT ![l] = x]
           f == [host.call EXCEPT ![t] = Mcp!Idle]
           g == IF host.links[l].lost THEN [host EXCEPT !.links[l].dead = TRUE] ELSE host
<1>1. /\ host \in McpHosts /\ host.links \in Seq(McpLinks) /\ l \in 1 .. Len(host.links)
      /\ host.links[l] \in McpLinks /\ PortKept(host.links[l])
  BY DEF ManagerOk, McpHosts
<1>2. Mcp!Failed(host, t) = [host EXCEPT !.links = q, !.call = f]
  <2>1. g = [host EXCEPT !.links = q]
    <3>1. CASE host.links[l].lost
      BY <1>1, <3>1 DEF McpHosts
    <3>2. CASE ~host.links[l].lost
      BY <1>1, <3>2 DEF McpHosts
    <3>3. QED  BY <3>1, <3>2
  <2>2. Mcp!Failed(host, t) = Mcp!Return(g, t)
    BY DEF Mcp!Failed
  <2> HIDE DEF g, q
  <2>3. QED  BY <1>1, <2>1, <2>2 DEF Mcp!Return, McpHosts
<1>3. x \in McpLinks /\ PortKept(x) /\ (host.links[l].uart # 0 => x.uart # 0)
  BY <1>1 DEF McpLinks, PortKept
<1>4. PICK k \in {host.lock, 0} :
        (k = host.lock \/ host.lock = t) /\ host' = [host EXCEPT !.links = q, !.call = f, !.lock = k]
  <2> HIDE DEF q, f
  <2>1. CASE host' = Mcp!Failed(host, t)
    <3>1. host' = [host EXCEPT !.links = q, !.call = f, !.lock = host.lock]
      BY <1>1, <1>2, <2>1 DEF McpHosts
    <3>2. QED  BY <3>1
  <2>2. CASE host' = Mcp!Unlocked(Mcp!Failed(host, t)) /\ host.lock = t
    <3>1. host' = [host EXCEPT !.links = q, !.call = f, !.lock = 0]
      BY <1>1, <1>2, <2>2 DEF McpHosts, Mcp!Unlocked
    <3>2. QED  BY <2>2, <3>1
  <2>3. QED  BY <2>1, <2>2
<1> HIDE DEF l, x
<1>5. QED  BY <1>1, <1>3, <1>4, IdleIsCall, LinkMoves

\* A call that had the lock returns and gives it back.
LEMMA ReturnsUnlocked ==
  ASSUME ManagerOk(host), NEW t \in Threads, host.lock = t,
         host' = Mcp!Unlocked(Mcp!Return(host, t))
  PROVE  ManagerOk(host')
<1> DEFINE b == Mcp!Return(host, t)
<1>1. host \in McpHosts /\ host' = Mcp!Unlocked(b)
  BY DEF ManagerOk
<1>2. Others(host, b) /\ b.call = [host.call EXCEPT ![t] = Mcp!Idle] /\ b \in McpHosts
  BY <1>1, ReturnMeans DEF Others
<1> HIDE DEF b
<1>3. Others(b, host') /\ host'.lock = 0 /\ host'.call = b.call
  BY <1>1, <1>2, UnlockedMeans
<1>4. /\ host' \in McpHosts /\ host'.links = host.links /\ host'.bridge = host.bridge
      /\ host'.volume = host.volume /\ host'.call = [host.call EXCEPT ![t] = Mcp!Idle]
  BY <1>2, <1>3 DEF Others
<1>5. CallOk(host', Mcp!Idle, t)
  BY IdleIsCall DEF CallOk
<1>6. host'.volume \in {0, host'.bridge}
  BY <1>4 DEF ManagerOk
<1>7. QED  BY <1>4, <1>5, <1>6, IdleIsCall, CallSteps

LEMMA OpenKeepsOk ==
  ASSUME ManagerOk(host), NEW t \in Threads, Mcp!Open(t)
  PROVE  ManagerOk(host')
<1>1. /\ host \in McpHosts /\ host.call[t] \in McpCalls /\ host.call[t].step = "open"
      /\ host.links \in Seq(McpLinks) /\ Len(host.links) \in Nat
  BY DEF Mcp!Open, Mcp!Step, ManagerOk, McpHosts
<1>2. host.lock = t /\ host.bridge = 0 /\ host.volume = 0
  BY <1>1 DEF ManagerOk, CallOk
<1>3. CASE host' = Mcp!Unlocked(Mcp!Return(host, t))
  BY <1>2, <1>3, ReturnsUnlocked
<1> DEFINE new == Len(host.links) + 1
           x == Mcp!Opened(host.call[t].board)
           q == Append(host.links, x)
           a == Mcp!With(host, t, new)
           d == Given(host, t, new)
           h == [a EXCEPT !.links = q, !.bridge = new]
<1>4. CASE host' = CASE Mcp!Tool(t) \in Mcp!FsTools -> Mcp!Goes(h, t, "mount")
                     [] Mcp!Tool(t) = "bridge_connect" -> Mcp!Unlocked(Mcp!Return(h, t))
                     [] OTHER -> Mcp!Unlocked(h)
  <2>1. x \in McpLinks /\ PortKept(x)
    BY <1>1, OpenedIsLink DEF McpCalls
  <2> HIDE DEF x
  <2>2. /\ q \in Seq(McpLinks) /\ Len(q) = new /\ new \in Nat /\ new \in 1 .. new /\ new \in 0 .. new
        /\ \A m \in 1 .. new : q[m] = IF m = new THEN x ELSE host.links[m]
    BY <1>1, <2>1
  <2>3. Grows(host.links, q) /\ \A m \in 1 .. Len(q) : PortKept(q[m])
    <3>1. \A m \in 1 .. Len(host.links) : m \in 1 .. new /\ m # new
      BY <1>1
    <3>2. \A m \in 1 .. new : m # new => m \in 1 .. Len(host.links)
      BY <1>1
    <3>3. \A m \in 1 .. Len(host.links) : PortKept(host.links[m])
      BY DEF ManagerOk
    <3>4. Len(host.links) <= Len(q)
      BY <1>1, <2>2
    <3> HIDE DEF q, new
    <3>5. Grows(host.links, q)
      BY <2>2, <3>1, <3>4 DEF Grows
    <3>6. \A m \in 1 .. Len(q) : PortKept(q[m])
      BY <2>1, <2>2, <3>2, <3>3
    <3>7. QED  BY <3>5, <3>6
  <2> HIDE DEF q, new
  <2>4. /\ a \in McpHosts /\ a.volume = 0 /\ a.lock = t /\ a.call = [host.call EXCEPT ![t] = d]
        /\ d \in McpCalls /\ d.step = Wanted(t) /\ d.link = new /\ d.tool = host.call[t].tool
    BY <1>1, <1>2, <2>2, WithMeans DEF Others
  <2> HIDE DEF a, d
  <2>5. /\ h \in McpHosts /\ h.links = q /\ h.bridge = new /\ h.volume = 0 /\ h.lock = t
        /\ h.call = [host.call EXCEPT ![t] = d]
    BY <2>2, <2>4 DEF McpHosts
  <2>6. h.call[t] = d
    BY <1>1, <2>5 DEF McpHosts
  <2> HIDE DEF h
  <2>7. ASSUME NEW c \in McpCalls, host' \in McpHosts, Others(h, host'),
               host'.call = [host.call EXCEPT ![t] = c], CallOk(host', c, t)
        PROVE  ManagerOk(host')
    <3>1. host'.links = q /\ host'.bridge = new /\ host'.volume = 0
      BY <2>5, <2>7 DEF Others
    <3>2. host'.bridge \in 0 .. Len(host'.links)
      BY <2>2, <3>1
    <3>3. QED  BY <1>2, <2>3, <2>7, <3>1, <3>2, CallMoves
  <2>8. CASE Mcp!Tool(t) \in Mcp!FsTools
    <3> DEFINE c == GoneTo(h, t, "mount")
    <3>1. host' = Mcp!Goes(h, t, "mount")
      BY <1>4, <2>8 DEF Mcp!FsTools
    <3>2. /\ Others(h, Mcp!Goes(h, t, "mount")) /\ Mcp!Goes(h, t, "mount").lock = h.lock
          /\ Mcp!Goes(h, t, "mount").call = [h.call EXCEPT ![t] = c]
          /\ c \in McpCalls /\ c.step = "mount" /\ c.link = h.call[t].link /\ c.tool = h.call[t].tool
      <4>1. h \in McpHosts /\ "mount" \in Mcp!Steps
        BY <2>5 DEF Mcp!Steps
      <4>2. QED  BY <4>1, GoesMeans
    <3> HIDE DEF c
    <3>3. Others(h, host') /\ host'.lock = t /\ host'.call = [h.call EXCEPT ![t] = c]
      BY <2>5, <3>1, <3>2
    <3>4. host'.call = [host.call EXCEPT ![t] = c]
      BY <1>1, <2>5, <3>3 DEF McpHosts
    <3>5. host'.links = q /\ host'.bridge = new /\ host' \in McpHosts
      BY <2>5, <3>3 DEF Others
    <3>6. CallOk(host', c, t)
      BY <2>2, <2>4, <2>6, <2>8, <3>2, <3>3, <3>5 DEF CallOk, Mcp!Tool
    <3>7. QED  BY <2>7, <3>2, <3>3, <3>4, <3>5, <3>6
  <2>9. CASE Mcp!Tool(t) \notin Mcp!FsTools /\ Mcp!Tool(t) = "bridge_connect"
    <3> DEFINE b == Mcp!Return(h, t)
    <3>1. host' = Mcp!Unlocked(b)
      BY <1>4, <2>9
    <3>2. Others(h, b) /\ b.call = [h.call EXCEPT ![t] = Mcp!Idle] /\ b \in McpHosts
      BY <2>5, ReturnMeans DEF Others
    <3> HIDE DEF b
    <3>3. Others(b, host') /\ host'.lock = 0 /\ host'.call = b.call
      BY <3>1, <3>2, UnlockedMeans
    <3>4. Others(h, host') /\ host' \in McpHosts
      BY <3>2, <3>3 DEF Others
    <3>5. host'.call = [host.call EXCEPT ![t] = Mcp!Idle]
      BY <1>1, <2>5, <3>2, <3>3 DEF McpHosts
    <3>6. CallOk(host', Mcp!Idle, t)
      BY IdleIsCall DEF CallOk
    <3>7. QED  BY <2>7, <3>4, <3>5, <3>6, IdleIsCall
  <2>10. CASE Mcp!Tool(t) \notin Mcp!FsTools /\ Mcp!Tool(t) # "bridge_connect"
    <3>1. host' = Mcp!Unlocked(h)
      BY <1>4, <2>10
    <3>2. Others(h, host') /\ host'.lock = 0 /\ host'.call = h.call
      BY <2>5, <3>1, UnlockedMeans
    <3>3. host'.call = [host.call EXCEPT ![t] = d] /\ host' \in McpHosts /\ host'.links = q
      BY <2>5, <3>2 DEF Others
    <3>4. CallOk(host', d, t)
      BY <2>2, <2>4, <3>3, WantedMeans DEF CallOk
    <3>5. QED  BY <2>4, <2>7, <3>2, <3>3, <3>4
  <2>11. QED  BY <2>8, <2>9, <2>10
<1>5. [a EXCEPT !.links = Append(@, x), !.bridge = new] = h
  <2>1. Others(host, a)
    <3>1. host \in McpHosts /\ new \in Nat
      BY <1>1
    <3> HIDE DEF new
    <3>2. QED  BY <3>1, WithMeans
  <2> HIDE DEF a, x, new
  <2>2. QED  BY <1>1, <2>1 DEF Others, McpHosts
<1>6. QED  BY <1>3, <1>4, <1>5 DEF Mcp!Open

LEMMA MountKeepsOk ==
  ASSUME ManagerOk(host), NEW t \in Threads, Mcp!Mount(t)
  PROVE  ManagerOk(host')
<1>1. /\ host \in McpHosts /\ host.call[t] \in McpCalls /\ host.call[t].step = "mount"
      /\ host.bridge \in 0 .. Len(host.links) /\ host.bridge \in Nat
  BY DEF Mcp!Mount, Mcp!Step, ManagerOk, McpHosts
<1>2. /\ host.lock = t /\ host.call[t].link = host.bridge /\ host.call[t].tool \in Mcp!FsTools
      /\ host.call[t].link \in 1 .. Len(host.links)
  BY <1>1 DEF ManagerOk, CallOk
<1> DEFINE g == [host EXCEPT !.volume = host.call[t].link]
           h == Mcp!Unlocked(g)
<1>3. g \in McpHosts /\ g.links = host.links /\ g.bridge = host.bridge /\ g.volume = host.bridge
      /\ g.call = host.call
  BY <1>1, <1>2 DEF McpHosts
<1>4. CASE host' = IF Mcp!Tool(t) = "fs_mount" THEN Mcp!Return(h, t) ELSE Mcp!Goes(h, t, "use")
  <2> HIDE DEF g
  <2>1. /\ h \in McpHosts /\ h.links = host.links /\ h.bridge = host.bridge /\ h.volume = host.bridge
        /\ h.call = host.call /\ h.lock = 0
    BY <1>3, UnlockedMeans DEF Others
  <2> HIDE DEF h
  <2>2. ASSUME NEW c \in McpCalls, host' \in McpHosts, Others(h, host'),
               host'.call = [host.call EXCEPT ![t] = c], CallOk(host', c, t)
        PROVE  ManagerOk(host')
    <3>1. /\ host'.links = host.links /\ host'.bridge = host.bridge
          /\ host'.volume \in {0, host'.bridge}
      BY <2>1, <2>2 DEF Others
    <3>2. QED  BY <1>2, <2>2, <3>1, CallSteps
  <2>3. CASE host' = Mcp!Return(h, t)
    <3>1. Others(h, host') /\ host'.call = [h.call EXCEPT ![t] = Mcp!Idle] /\ host' \in McpHosts
      BY <2>1, <2>3, ReturnMeans DEF Others
    <3>2. CallOk(host', Mcp!Idle, t)
      BY IdleIsCall DEF CallOk
    <3>3. QED  BY <2>1, <2>2, <3>1, <3>2, IdleIsCall
  <2>4. CASE host' = Mcp!Goes(h, t, "use")
    <3> DEFINE c == GoneTo(h, t, "use")
    <3>1. h \in McpHosts /\ "use" \in Mcp!Steps
      BY <2>1 DEF Mcp!Steps
    <3>2. /\ Others(h, Mcp!Goes(h, t, "use")) /\ Mcp!Goes(h, t, "use").call = [h.call EXCEPT ![t] = c]
          /\ c \in McpCalls /\ c.step = "use" /\ c.link = h.call[t].link /\ c.tool = h.call[t].tool
      BY <3>1, GoesMeans
    <3> HIDE DEF c
    <3>3. Others(h, host') /\ host'.call = [host.call EXCEPT ![t] = c] /\ host' \in McpHosts
          /\ host'.links = host.links
      BY <2>1, <2>4, <3>2 DEF Others
    <3>4. c.tool \notin Mcp!UartTools /\ c.link \in 1 .. Len(host.links)
      BY <1>2, <2>1, <3>2 DEF Mcp!FsTools, Mcp!UartTools
    <3>5. CallOk(host', c, t)
      BY <3>2, <3>3, <3>4 DEF CallOk
    <3>6. QED  BY <2>2, <3>2, <3>3, <3>5
  <2>5. QED  BY <1>4, <2>3, <2>4
<1>5. CASE host' = Mcp!Unlocked(Mcp!Failed(host, t))
  BY <1>2, <1>5, FailKeepsOk
<1>6. QED  BY <1>4, <1>5 DEF Mcp!Mount

LEMMA SubapiKeepsOk ==
  ASSUME ManagerOk(host), NEW t \in Threads, Mcp!Subapi(t)
  PROVE  ManagerOk(host')
<1>1. host \in McpHosts /\ host.call[t].step = "subapi"
  BY DEF Mcp!Subapi, Mcp!Step, ManagerOk
<1>2. host.call[t].link \in 1 .. Len(host.links)
  BY <1>1 DEF ManagerOk, CallOk
<1> DEFINE s == IF Mcp!Link(t).uart # 0 THEN "use" ELSE "build"
           c == GoneTo(host, t, s)
<1>3. host' = Mcp!Goes(host, t, s) /\ (s = "use" => host.links[host.call[t].link].uart # 0)
      /\ s \in {"use", "build"}
  BY DEF Mcp!Subapi, Mcp!Link
<1> HIDE DEF s
<1>4. s \in Mcp!Steps
  BY <1>3 DEF Mcp!Steps
<1>5. /\ Others(host, Mcp!Goes(host, t, s)) /\ Mcp!Goes(host, t, s).lock = host.lock
      /\ Mcp!Goes(host, t, s).call = [host.call EXCEPT ![t] = c]
      /\ c \in McpCalls /\ c.step = s /\ c.link = host.call[t].link
  BY <1>1, <1>4, GoesMeans
<1> HIDE DEF c
<1>6. /\ host' \in McpHosts /\ host'.links = host.links /\ host'.bridge = host.bridge
      /\ host'.volume = host.volume /\ host'.lock = host.lock
      /\ host'.call = [host.call EXCEPT ![t] = c]
  BY <1>3, <1>5 DEF Others
<1>7. CallOk(host', c, t)
  BY <1>2, <1>3, <1>5, <1>6 DEF CallOk
<1>8. QED  BY <1>5, <1>6, <1>7, CallSteps DEF ManagerOk

LEMMA BuildKeepsOk ==
  ASSUME ManagerOk(host), NEW t \in Threads, Mcp!Build(t)
  PROVE  ManagerOk(host')
<1> DEFINE l == host.call[t].link
           x == IF host.links[l].uart # 0 THEN host.links[l]
                ELSE Mcp!Fetched(host.links[l])
           q == [host.links EXCEPT ![l] = x]
           c == GoneTo(host, t, "use")
           f == [host.call EXCEPT ![t] = c]
           g == IF host.links[l].uart # 0 THEN host
                ELSE [host EXCEPT !.links[l] = Mcp!Fetched(@)]
<1>1. host \in McpHosts /\ host.call[t].step = "build" /\ host.call[t] \in McpCalls
  BY DEF Mcp!Build, Mcp!Step, ManagerOk, McpHosts
<1>2. /\ host.links \in Seq(McpLinks) /\ l \in 1 .. Len(host.links)
      /\ host.links[l] \in McpLinks /\ PortKept(host.links[l])
  <2>1. l \in 1 .. Len(host.links)
    BY <1>1 DEF ManagerOk, CallOk
  <2>2. QED  BY <2>1 DEF ManagerOk, McpHosts
<1>3. x \in McpLinks /\ PortKept(x) /\ x.uart # 0
  <2>1. CASE host.links[l].uart # 0
    BY <1>2, <2>1
  <2>2. CASE host.links[l].uart = 0
    <3>1. host.links[l].built \in Nat /\ ~host.links[l].inited
      BY <1>2, <2>2 DEF McpLinks, PortKept
    <3>2. host.links[l].built + 1 \in Nat /\ host.links[l].built + 1 # 0
      BY <3>1
    <3>3. QED  BY <1>2, <2>2, <3>1, <3>2 DEF McpLinks, PortKept, Mcp!Fetched
  <2>3. QED  BY <2>1, <2>2
<1>4. g = [host EXCEPT !.links = q]
  <2>1. CASE host.links[l].uart # 0
    BY <1>1, <1>2, <2>1 DEF McpHosts
  <2>2. CASE host.links[l].uart = 0
    BY <1>1, <1>2, <2>2 DEF McpHosts
  <2>3. QED  BY <2>1, <2>2
<1>5. host' = Mcp!Goes(g, t, "use")
  BY DEF Mcp!Build, Mcp!Link
<1> HIDE DEF g, q, x
<1>6. c \in McpCalls /\ c.step = "use" /\ c.link = l
  BY <1>1 DEF McpCalls, GoneTo, Mcp!Steps
<1>7. host' = [host EXCEPT !.links = q, !.call = f, !.lock = host.lock]
  <2>1. host' = [g EXCEPT !.call[t] = [g.call[t] EXCEPT !.step = "use"]]
    BY <1>5 DEF Mcp!Goes
  <2>2. g.call = host.call
    BY <1>1, <1>4 DEF McpHosts
  <2>3. host' = [g EXCEPT !.call = f]
    <3>1. c = [g.call[t] EXCEPT !.step = "use"]
      BY <2>2 DEF GoneTo
    <3> HIDE DEF c
    <3>2. QED  BY <1>1, <1>4, <2>1, <2>2, <3>1 DEF McpHosts
  <2> HIDE DEF f
  <2>4. QED  BY <1>1, <1>4, <2>3 DEF McpHosts
<1>8. QED  BY <1>2, <1>3, <1>6, <1>7, LinkMoves DEF q, f

\* A call that uses a link has it, and a UART tool its port.
LEMMA UserHasLink ==
  ASSUME ManagerOk(host), NEW t \in Threads, host.call[t].step = "use"
  PROVE  /\ host.call[t].link \in 1 .. Len(host.links) /\ Mcp!Link(t) \in McpLinks /\ PortKept(Mcp!Link(t))
         /\ Mcp!Tool(t) \in Mcp!UartTools => Mcp!Link(t).uart # 0
BY DEF ManagerOk, McpHosts, CallOk, Mcp!Link, Mcp!Tool

LEMMA UseKeepsOk ==
  ASSUME ManagerOk(host), NEW t \in Threads, Mcp!Use(t)
  PROVE  ManagerOk(host')
<1> DEFINE l == host.call[t].link
           x == [host.links[l] EXCEPT !.ports = @ \cup {Mcp!Link(t).uart}, !.inited = TRUE]
           q == [host.links EXCEPT ![l] = x]
           f == [host.call EXCEPT ![t] = Mcp!Idle]
           g == [host EXCEPT !.links[l].ports = @ \cup {Mcp!Link(t).uart}, !.links[l].inited = TRUE]
<1>1. /\ host \in McpHosts /\ host.call[t].step = "use" /\ host.links \in Seq(McpLinks)
  BY DEF Mcp!Use, Mcp!Step, ManagerOk, McpHosts
<1>2. /\ l \in 1 .. Len(host.links) /\ host.links[l] \in McpLinks /\ PortKept(host.links[l])
      /\ Mcp!Link(t) = host.links[l]
  BY <1>1, UserHasLink DEF Mcp!Link
<1>3. \/ host' = Mcp!Failed(host, t) \/ host' = Mcp!Return(host, t)
      \/ Mcp!Tool(t) = "uart_init" /\ host' = Mcp!Return(g, t)
  BY DEF Mcp!Use
<1>4. CASE Mcp!Tool(t) = "uart_init" /\ host' = Mcp!Return(g, t)
  <2>1. host.links[l].uart # 0
    BY <1>1, <1>2, <1>4, UserHasLink DEF Mcp!UartTools
  <2>2. x \in McpLinks /\ PortKept(x) /\ x.uart # 0
    BY <1>2, <2>1 DEF McpLinks, PortKept
  <2>3. g = [host EXCEPT !.links = q]
    BY <1>1, <1>2 DEF McpHosts
  <2> HIDE DEF g, q, x
  <2>4. host' = [host EXCEPT !.links = q, !.call = f, !.lock = host.lock]
    BY <1>1, <1>4, <2>3 DEF Mcp!Return, McpHosts
  <2> HIDE DEF l
  <2>5. QED  BY <1>1, <1>2, <2>2, <2>4, IdleIsCall, LinkMoves DEF q
<1>5. CASE host' = Mcp!Failed(host, t)
  BY <1>2, <1>5, FailKeepsOk
<1>6. CASE host' = Mcp!Return(host, t)
  BY <1>6, JustReturns
<1>7. QED  BY <1>3, <1>4, <1>5, <1>6

LEMMA DropKeepsOk ==
  ASSUME ManagerOk(host), NEW l \in DOMAIN host.links, Mcp!Drop(l)
  PROVE  ManagerOk(host')
<1> DEFINE x == [host.links[l] EXCEPT !.lost = TRUE]
           q == [host.links EXCEPT ![l] = x]
<1>1. /\ host \in McpHosts /\ host.links \in Seq(McpLinks) /\ l \in 1 .. Len(host.links)
      /\ Len(host.links) \in Nat /\ host.links[l] \in McpLinks /\ PortKept(host.links[l])
  <2>1. host \in McpHosts /\ host.links \in Seq(McpLinks)
    BY DEF ManagerOk, McpHosts
  <2>2. QED  BY <2>1 DEF ManagerOk
<1>2. x \in McpLinks /\ PortKept(x) /\ x.uart = host.links[l].uart
  BY <1>1 DEF McpLinks, PortKept
<1>3. host' = [host EXCEPT !.links = q]
  BY <1>1 DEF Mcp!Drop, McpHosts
<1> HIDE DEF x
<1>4. q \in Seq(McpLinks) /\ Len(q) = Len(host.links)
      /\ \A m \in 1 .. Len(host.links) : q[m] = IF m = l THEN x ELSE host.links[m]
  BY <1>1, <1>2
<1> HIDE DEF q
<1>5. /\ host' \in McpHosts /\ host'.links = q /\ host'.call = host.call /\ host'.lock = host.lock
      /\ host'.bridge = host.bridge /\ host'.volume = host.volume
  BY <1>1, <1>3, <1>4 DEF McpHosts
<1>6. \A m \in 1 .. Len(q) : PortKept(q[m]) /\ q[m].uart = host.links[m].uart
  BY <1>1, <1>2, <1>4 DEF ManagerOk
<1>7. ASSUME NEW u \in Threads PROVE CallOk(host', host'.call[u], u)
  <2>1. CallOk(host, host.call[u], u)
    BY DEF ManagerOk
  <2>2. QED  BY <1>1, <1>4, <1>5, <1>6, <2>1 DEF CallOk
<1>8. QED  BY <1>4, <1>5, <1>6, <1>7 DEF ManagerOk

-----------------------------------------------------------------------------
LEMMA UseKeepsWire ==
  ASSUME ManagerOk(host), WireOk(wire), NEW t \in Threads, Mcp!Use(t)
  PROVE  WireOk(wire')
<1> DEFINE tool == Mcp!Tool(t)
           l == host.call[t].link
           b == Mcp!Link(t).board
           ok == ~Mcp!Link(t).closed /\ ~Mcp!Link(t).lost
           v1 == wire.strayed \/ (tool = "gpio_write" /\ ok /\ host.bridge = l /\ wire.asked \notin {0, b})
           v2 == wire.notMounted \/ (tool = "fs_tree" /\ ok /\ ~board[b].mounted)
           v3 == wire.deadVolume \/ (tool = "fs_tree" /\ Mcp!Link(t).dead /\ host.bridge = l)
           v4 == wire.closedPort \/ (tool = "uart_read" /\ ok /\ Mcp!HasPort(t) /\ ~board[b].uart)
           v5 == wire.missed \/ (tool \in {"uart_read", "uart_close"} /\ ~Mcp!HasPort(t) /\ Mcp!Link(t).inited)
<1>1. host.call[t].step = "use" /\ wire \in McpWires /\ ~wire.missed
  BY DEF Mcp!Use, Mcp!Step, WireOk
<1>2. v1 \in BOOLEAN /\ v2 \in BOOLEAN /\ v3 \in BOOLEAN /\ v4 \in BOOLEAN
  OBVIOUS
<1>3. v5 = FALSE
  <2>1. PortKept(Mcp!Link(t)) /\ (tool \in Mcp!UartTools => Mcp!Link(t).uart # 0)
    BY <1>1, UserHasLink
  <2>2. QED  BY <1>1, <2>1 DEF PortKept, Mcp!HasPort
<1>4. wire' = [wire EXCEPT !.strayed = v1, !.notMounted = v2, !.deadVolume = v3, !.closedPort = v4,
                           !.missed = v5]
  BY DEF Mcp!Use
<1> HIDE DEF v1, v2, v3, v4, v5
<1>5. wire' = [wire EXCEPT !.strayed = v1, !.notMounted = v2, !.deadVolume = v3, !.closedPort = v4,
                           !.missed = FALSE]
  BY <1>3, <1>4
<1>6. wire' \in McpWires
  <2>1. \A x1, x2, x3, x4, x5 \in BOOLEAN, w \in McpWires :
          [w EXCEPT !.strayed = x1, !.notMounted = x2, !.deadVolume = x3, !.closedPort = x4, !.missed = x5]
            \in McpWires
    BY DEF McpWires
  <2>2. QED  BY <1>1, <1>2, <1>5, <2>1
<1>7. wire'.missed = FALSE
  BY <1>1, <1>5 DEF McpWires
<1>8. QED  BY <1>6, <1>7 DEF WireOk

LEMMA OpenKeepsWire ==
  ASSUME ManagerOk(host), WireOk(wire), NEW t \in Threads, Mcp!Open(t)
  PROVE  WireOk(wire')
<1> DEFINE a == IF Mcp!Tool(t) = "bridge_connect" THEN host.call[t].board ELSE wire.asked
           v == wire.statusOpens \/ Mcp!Tool(t) = "bridge_status"
<1>1. wire \in McpWires /\ ~wire.missed
  BY DEF WireOk
<1>2. a \in Desk \cup {0} /\ v \in BOOLEAN
  BY <1>1 DEF ManagerOk, McpHosts, McpCalls, McpWires
<1>3. wire' = [wire EXCEPT !.asked = a, !.statusOpens = v] \/ wire' = [wire EXCEPT !.faults = @ - 1]
  BY DEF Mcp!Open
<1> HIDE DEF a, v
<1>4. CASE wire' = [wire EXCEPT !.asked = a, !.statusOpens = v]
  <2>1. \A x \in Desk \cup {0}, y \in BOOLEAN, w \in McpWires :
          [w EXCEPT !.asked = x, !.statusOpens = y] \in McpWires
    BY DEF McpWires
  <2>2. wire' \in McpWires
    BY <1>1, <1>2, <1>4, <2>1
  <2>3. wire'.missed = wire.missed
    BY <1>1, <1>4 DEF McpWires
  <2>4. QED  BY <1>1, <2>2, <2>3 DEF WireOk
<1>5. CASE wire' = [wire EXCEPT !.faults = @ - 1]
  BY <1>1, <1>5 DEF McpWires, WireOk
<1>6. QED  BY <1>3, <1>4, <1>5

LEMMA OthersKeepWire ==
  ASSUME WireOk(wire),
         \/ wire' = wire \/ wire' = [wire EXCEPT !.faults = @ - 1]
         \/ wire' = [wire EXCEPT !.calls = @ - 1] \/ wire' = [wire EXCEPT !.asked = 0]
  PROVE  WireOk(wire')
BY DEF WireOk, McpWires

LEMMA McpStep ==
  ASSUME McpInv, Mcp!Next
  PROVE  McpInv'
<1>1. ManagerOk(host) /\ WireOk(wire)
  BY DEF McpInv, ToolsOk, Mcp!Next, WireOk
<1>2. ASSUME NEW t \in Threads,
             \/ Mcp!Call(t) \/ Mcp!Status(t) \/ Mcp!Lookup(t) \/ Mcp!Acquire(t) \/ Mcp!Disconnect(t)
             \/ Mcp!Locked(t) \/ Mcp!Mount(t) \/ Mcp!Subapi(t) \/ Mcp!Build(t)
      PROVE  ManagerOk(host') /\ WireOk(wire')
  <2>1. ManagerOk(host')
    BY <1>1, <1>2, CallKeepsOk, StatusKeepsOk, LookupKeepsOk, AcquireKeepsOk, DisconnectKeepsOk,
       LockedKeepsOk, MountKeepsOk, SubapiKeepsOk, BuildKeepsOk
  <2>2. \/ wire' = wire \/ wire' = [wire EXCEPT !.faults = @ - 1]
        \/ wire' = [wire EXCEPT !.calls = @ - 1] \/ wire' = [wire EXCEPT !.asked = 0]
    <3>1. CASE Mcp!Mount(t)
      BY <3>1 DEF Mcp!Mount
    <3>2. CASE Mcp!Call(t) \/ Mcp!Disconnect(t)
      BY <3>2 DEF Mcp!Call, Mcp!Disconnect
    <3>3. CASE \/ Mcp!Status(t) \/ Mcp!Lookup(t) \/ Mcp!Acquire(t) \/ Mcp!Locked(t) \/ Mcp!Subapi(t)
               \/ Mcp!Build(t)
      BY <3>3 DEF Mcp!Status, Mcp!Lookup, Mcp!Acquire, Mcp!Locked, Mcp!Subapi, Mcp!Build
    <3>4. QED  BY <1>2, <3>1, <3>2, <3>3
  <2>3. QED  BY <1>1, <2>1, <2>2, OthersKeepWire
<1>3. ASSUME NEW t \in Threads, Mcp!Open(t) PROVE ManagerOk(host') /\ WireOk(wire')
  BY <1>1, <1>3, OpenKeepsOk, OpenKeepsWire
<1>4. ASSUME NEW t \in Threads, Mcp!Use(t) PROVE ManagerOk(host') /\ WireOk(wire')
  BY <1>1, <1>4, UseKeepsOk, UseKeepsWire
<1>5. ASSUME NEW l \in DOMAIN host.links, Mcp!Drop(l) PROVE ManagerOk(host') /\ WireOk(wire')
  <2>1. wire' = [wire EXCEPT !.faults = @ - 1]
    BY <1>5 DEF Mcp!Drop
  <2>2. QED  BY <1>1, <1>5, <2>1, DropKeepsOk, OthersKeepWire
<1>6. ManagerOk(host') /\ WireOk(wire')
  BY <1>2, <1>3, <1>4, <1>5 DEF Mcp!Next
<1>7. QED  BY <1>6 DEF McpInv, WireOk, ManagerOk

-----------------------------------------------------------------------------
(* The layers that hold links *)

\* Each layer holds its links as it should: a set of boards has one link to a board and
\* leaves none open when it is closed (add, _adopt, close_all); an AsyncBridge has one
\* session and a stream keeps the order of its events (connect, close, _offer, __anext__);
\* the frames of two threads reach the board whole and in order over Bluetooth, and close()
\* lets the reader go (write, _on_notify, close); the tools of an MCP server share the
\* manager's link, its volume and its ports (bridge, volume, connect, __getattr__).
THEOREM LinksStaySound == HostSpec => []LinksAreSound
<1> DEFINE Inv ==
      /\ part = "set" => SetInv
      /\ part = "async" => AsyncInv
      /\ part = "pipe" => PipeInv
      /\ part = "mcp" => McpInv
<1>1. HostInit => Inv
  BY SetInit, AsyncInit, PipeInit, McpInit DEF HostInit
<1>2. Inv /\ [HostNext]_Parted => Inv'
  <2> SUFFICES ASSUME Inv, [HostNext]_Parted PROVE Inv'
    OBVIOUS
  <2>1. CASE UNCHANGED Parted
    <3>1. part' = part /\ host' = host /\ board' = board /\ wire' = wire
      BY <2>1 DEF Parted
    <3>2. SetInv => SetInv'
      BY <3>1 DEF SetInv
    <3>3. AsyncInv => AsyncInv'
      BY <3>1 DEF AsyncInv
    <3>4. PipeInv => PipeInv'
      BY <3>1 DEF PipeInv
    <3>5. McpInv => McpInv'
      BY <3>1 DEF McpInv
    <3>6. QED  BY <3>1, <3>2, <3>3, <3>4, <3>5
  <2>2. CASE HostNext
    <3>1. part' = part /\ (part = "set" => Set!Next) /\ (part = "async" => Async!Next)
          /\ (part = "pipe" => Pipe!Next) /\ (part = "mcp" => Mcp!Next)
      BY <2>2 DEF HostNext
    <3>2. QED  BY <3>1, SetStep, AsyncStep, PipeStep, McpStep
  <2>3. QED  BY <2>1, <2>2
<1>3. Inv => LinksAreSound
  BY SetMeans, AsyncMeans, PipeMeans, McpMeans DEF LinksAreSound
<1>4. QED  BY <1>1, <1>2, <1>3, PTL DEF HostSpec
=============================================================================
