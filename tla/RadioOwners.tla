----------------------------- MODULE RadioOwners -----------------------------
(***************************************************************************)
(* One radio and everybody who wants it: the station, the access point,    *)
(* ESP-NOW and the Wi-Fi transport link hold bits of radio.cpp, a scan     *)
(* raises the radio without holding one (esp/mod_wifi.cpp, mod_espnow.cpp, *)
(* link_tcp.cpp); the host scans, sends and switches everything off        *)
(* through python/espbridge/wifi.py, espnow.py and Bridge.radio_off().     *)
(*                                                                         *)
(* Requests are executed one after the other by slow_task, each with its   *)
(* answer as one step; events reach the host in order, or are dropped.     *)
(***************************************************************************)
EXTENDS Naturals, Sequences

CONSTANTS
  Threads,   \* of the host
  Networks,  \* number of access points in range
  Scans,     \* bound of the model: scans started on the board
  Faults     \* bound of the model: events dropped, requests refused for memory or by the driver

VARIABLES
  host,    \* Wifi._scan_results, _scan_done, the threads' calls, what they returned
  board,   \* users, the Wi-Fi mode, the scan, what has switched the radio under others
  wire     \* events on their way

vars == <<host, board, wire>>

Users == {"STA", "AP", "ESPNOW", "LINK"}
Result == [scan : 1 .. Scans, of : 1 .. Networks]
Done(scan) == [scan |-> scan, of |-> 0]
\* What scan() returned, where nothing excuses a partial list.
Nothing == [scan |-> 0, results |-> {}]
Idle == [op |-> "none", step |-> 0, scan |-> 0, upset |-> FALSE]
\* radio_off(): what is stopped, in this order.
Stops == <<"disconnect", "ap_stop", "espnow_end", "radio_off">>

TypeOK ==
  /\ host.results \subseteq Result /\ host.done \in BOOLEAN
  /\ \A t \in Threads : /\ host.call[t].op \in {"none", "scan", "wait", "off"}
                        /\ host.call[t].step \in 0 .. Len(Stops)
                        /\ host.call[t].scan \in 0 .. Scans
  /\ board.users \subseteq Users /\ board.mode \subseteq {"STA", "AP"}
  /\ board.scan \in 0 .. Scans /\ board.scanning \in BOOLEAN
  /\ wire.faults \in 0 .. Faults

Init ==
  /\ host = [results |-> {}, done |-> FALSE, call |-> [t \in Threads |-> Idle],
             got |-> [t \in Threads |-> Nothing],
             clean |-> TRUE]
  /\ board = [users |-> {}, mode |-> {}, scanning |-> FALSE, scan |-> 0, cut |-> FALSE,
              apFailed |-> FALSE, stationCut |-> FALSE]
  /\ wire = [events |-> <<>>, faults |-> Faults]

----------------------------------------------------------------------------
(* radio.cpp *)

Held(user) == user \in board.users

\* Deliberately wrong (mutation of Release): the driver stays up.
ReleaseBitOnly(b, user) == [b EXCEPT !.users = @ \ {user}]

\* radio_release(user): the driver goes down with the last bit, whoever else uses it.
Release(b, user) ==
  LET users == b.users \ {user} IN
  [b EXCEPT !.users = users, !.mode = IF users = {} THEN {} ELSE @,
            !.cut = @ \/ (users = {} /\ b.scanning /\ b.mode # {})]

\* WiFi.mode(): an interface that is not in the new mode goes down under its users.
Raise(b, user, mode) ==
  [b EXCEPT !.users = @ \cup ({user} \cap Users), !.mode = mode,
            !.cut = @ \/ (b.scanning /\ "STA" \notin mode),
            !.stationCut = @ \/ ("LINK" \in b.users /\ "STA" \notin mode)]

\* The mode that the station, a scan and the link ask for: they keep a held AP.
Station == {"STA"} \cup ({"AP"} \cap board.users)

----------------------------------------------------------------------------
(* The board's requests: each the new state of the board *)

Refused == wire.faults > 0 /\ wire' = [wire EXCEPT !.faults = @ - 1]
LinkOn == Held("LINK")

\* WIFI_CONNECT, also with the link armed.
Connect ==
  /\ board' = Raise(board, "STA", Station)
  /\ UNCHANGED <<host, wire>>

\* Refused while the link is armed.
Disconnect ==
  /\ ~LinkOn
  /\ board' = Release(board, "STA")
  /\ UNCHANGED <<host, wire>>

\* WIFI_AP_START keeps the station interface for STA and ESP-NOW; softAP() may fail, and
\* then even an access point that ran before has lost its bit.
ApStart ==
  LET mode == {"AP"} \cup (IF Held("STA") \/ Held("ESPNOW") THEN {"STA"} ELSE {})
      up   == Raise(board, "AP", mode)
  IN \/ board' = [up EXCEPT !.apFailed = FALSE] /\ UNCHANGED <<host, wire>>
     \/ Refused /\ board' = [Release(up, "AP") EXCEPT !.apFailed = TRUE] /\ UNCHANGED host

\* WIFI_AP_STOP: softAPdisconnect(true) takes the interface down, then the bit goes.
ApStop ==
  /\ board' = [Release([board EXCEPT !.mode = @ \ {"AP"}], "AP") EXCEPT !.apFailed = FALSE]
  /\ UNCHANGED <<host, wire>>

\* ESPNOW_INIT: never beside the link; it sends through the station interface.
EspNowBegin ==
  /\ ~LinkOn
  /\ LET up == Raise(board, "ESPNOW", board.mode \cup {"STA"}) IN
     \/ board' = up /\ UNCHANGED <<host, wire>>
     \/ Refused /\ ~Held("ESPNOW") /\ board' = Release(up, "ESPNOW") /\ UNCHANGED host

\* ESPNOW_DEINIT of an ESP-NOW that was begun.
EspNowEnd ==
  /\ Held("ESPNOW")
  /\ board' = Release(board, "ESPNOW")
  /\ UNCHANGED <<host, wire>>

\* WIFI_LINK_SETUP with start: never beside ESP-NOW.
LinkSetup ==
  /\ ~LinkOn /\ ~Held("ESPNOW")
  /\ board' = [Raise(board, "LINK", Station) EXCEPT !.stationCut = FALSE]
  /\ UNCHANGED <<host, wire>>

LinkStop ==
  /\ LinkOn
  /\ board' = [Release(board, "LINK") EXCEPT !.stationCut = FALSE]
  /\ UNCHANGED <<host, wire>>

----------------------------------------------------------------------------
(* Wifi.scan() *)

\* Deliberately wrong (mutation of ScanCall): the flag of the last scan is left up.
ScanCallStale(t) ==
  /\ host.call[t] = Idle /\ board.scan < Scans
  /\ LET others == \E u \in Threads \ {t} : host.call[u].op \in {"scan", "wait"}
         late   == board.scanning \/ wire.events # <<>> IN
     host' = [host EXCEPT
       !.got[t] = Nothing, !.results = {},
       !.call = [u \in Threads |->
          IF u = t THEN [Idle EXCEPT !.op = "scan", !.upset = others \/ late]
          ELSE [host.call[u] EXCEPT !.upset = @ \/ host.call[u].op \in {"scan", "wait"}]]]
  /\ UNCHANGED <<board, wire>>

\* The list and the flag are reset before the request, whoever else is waiting for them.
ScanCall(t) ==
  /\ host.call[t] = Idle /\ board.scan < Scans
  /\ LET others == \E u \in Threads \ {t} : host.call[u].op \in {"scan", "wait"}
         late   == board.scanning \/ wire.events # <<>> IN
     host' = [host EXCEPT
       !.got[t] = Nothing, !.results = {}, !.done = FALSE,
       !.call = [u \in Threads |->
          IF u = t THEN [Idle EXCEPT !.op = "scan", !.upset = others \/ late]
          ELSE [host.call[u] EXCEPT !.upset = @ \/ host.call[u].op \in {"scan", "wait"}]]]
  /\ UNCHANGED <<board, wire>>

\* WIFI_SCAN: refused while another scan or the link is on, and by the driver; otherwise
\* the radio comes up without an owner.
Scan(t) ==
  /\ host.call[t].op = "scan"
  /\ LET raised == [host EXCEPT !.call[t] = Idle]
         up     == Raise(board, "", Station) IN
     \/ /\ board.scanning \/ LinkOn
        /\ host' = raised
        /\ UNCHANGED <<board, wire>>
     \/ /\ ~board.scanning /\ ~LinkOn
        /\ Refused
        /\ host' = raised /\ board' = Release(up, "")
     \/ /\ ~board.scanning /\ ~LinkOn /\ board.scan < Scans
        /\ host' = [host EXCEPT !.call[t].op = "wait", !.call[t].scan = board.scan + 1]
        /\ board' = [up EXCEPT !.scanning = TRUE, !.scan = @ + 1, !.cut = FALSE]
        /\ UNCHANGED wire

\* wifi_poll() finds the scan over: results, WIFI_SCAN_DONE, and the radio is given back.
\* A radio that was taken from the scan has none; an event that finds the queue full is
\* dropped.
ScanEnds ==
  /\ board.scanning
  /\ LET found == [i \in 1 .. (IF board.cut THEN 0 ELSE Networks) |->
                     [scan |-> board.scan, of |-> i]]
         sent  == Append(found, Done(board.scan))
         less(i) == SubSeq(sent, 1, i - 1) \o SubSeq(sent, i + 1, Len(sent))
     IN \E left \in {sent} \cup {less(i) : i \in 1 .. Len(sent)} :
          /\ Len(sent) - Len(left) <= wire.faults
          /\ wire' = [events |-> wire.events \o left,
                      faults |-> wire.faults - (Len(sent) - Len(left))]
          /\ board' = Release([board EXCEPT !.scanning = FALSE], "")
          /\ host' = [host EXCEPT !.clean = @ /\ left = sent /\ ~board.cut]

\* _on_scan_res, _on_scan_done.
Deliver ==
  /\ wire.events # <<>>
  /\ LET e == Head(wire.events) IN
     host' = IF e = Done(e.scan) THEN [host EXCEPT !.done = TRUE]
             ELSE [host EXCEPT !.results = @ \cup {e}]
  /\ wire' = [wire EXCEPT !.events = Tail(@)]
  /\ UNCHANGED board

ScanReturns(t) ==
  /\ host.call[t].op = "wait" /\ host.done
  /\ LET c == host.call[t] IN
     host' = [host EXCEPT
       !.call[t] = Idle,
       !.got[t] = IF c.upset \/ ~host.clean THEN Nothing
                  ELSE [scan |-> c.scan, results |-> host.results]]
  /\ UNCHANGED <<board, wire>>

\* The wait of 15 s is over; the board goes on scanning.
ScanTimeout(t) ==
  /\ host.call[t].op = "wait" /\ ~host.done
  /\ host' = [host EXCEPT !.call[t] = Idle]
  /\ UNCHANGED <<board, wire>>

----------------------------------------------------------------------------
(* Bridge.radio_off(): four requests, of which others may get in between *)

OffCall(t) ==
  /\ host.call[t] = Idle
  /\ host' = [host EXCEPT !.call[t] = [Idle EXCEPT !.op = "off", !.step = 1]]
  /\ UNCHANGED <<board, wire>>

\* NOT_INIT from an ESP-NOW that was never begun is no error; BUSY is: the link is armed,
\* or the radio is up at the end.
OffStep(t) ==
  /\ host.call[t].op = "off"
  /\ LET stop   == Stops[host.call[t].step]
         busy   == (stop = "disconnect" /\ LinkOn) \/ (stop = "radio_off" /\ board.mode # {})
     IN /\ board' = CASE busy -> board
                      [] stop = "disconnect" -> Release(board, "STA")
                      [] stop = "ap_stop" -> [Release([board EXCEPT !.mode = @ \ {"AP"}], "AP")
                                                EXCEPT !.apFailed = FALSE]
                      [] stop = "espnow_end" /\ Held("ESPNOW") -> Release(board, "ESPNOW")
                      [] OTHER -> board
        /\ host' = IF busy \/ stop = "radio_off" THEN [host EXCEPT !.call[t] = Idle]
                   ELSE [host EXCEPT !.call[t].step = @ + 1]
  /\ UNCHANGED wire

Next ==
  \/ Connect \/ Disconnect \/ ApStart \/ ApStop
  \/ EspNowBegin \/ EspNowEnd \/ LinkSetup \/ LinkStop
  \/ ScanEnds \/ Deliver
  \/ \E t \in Threads : \/ ScanCall(t) \/ Scan(t) \/ ScanReturns(t) \/ ScanTimeout(t)
                        \/ OffCall(t) \/ OffStep(t)

Spec == Init /\ [][Next]_vars

----------------------------------------------------------------------------

(***************************************************************************)
(* Whoever holds the radio has the interface it works through, and a radio *)
(* that nobody holds and no scan uses is off, so that its heap is free     *)
(* (radio_acquire, radio_release and the mode each user asks for).  Two    *)
(* exceptions: an access point started beside the transport link takes the *)
(* station from it, and one whose restart failed goes on without its bit.  *)
(***************************************************************************)
OwnersHaveRadio ==
  /\ board.users \cap {"STA", "ESPNOW"} # {} => "STA" \in board.mode
  /\ Held("LINK") /\ ~board.stationCut => "STA" \in board.mode
  /\ Held("AP") => "AP" \in board.mode
  /\ board.users = {} /\ ~board.scanning => board.mode = {}
  /\ ~(Held("LINK") /\ Held("ESPNOW"))

(***************************************************************************)
(* scan() returns the networks of its own scan, all of them, unless an     *)
(* earlier scan was still under way or another thread called scan(), the   *)
(* radio was taken from it, or an event was dropped (Wifi.scan, wifi_poll).*)
(***************************************************************************)
ScanIsWhole ==
  \A t \in Threads :
    host.got[t] # Nothing =>
      host.got[t].results = {[scan |-> host.got[t].scan, of |-> n] : n \in 1 .. Networks}

(***************************************************************************)
(* The station interface stays up alongside the access point "when         *)
(* anything needs it" (mod_wifi.cpp:168), the transport link included.     *)
(***************************************************************************)
LinkKeepsStation == Held("LINK") => "STA" \in board.mode
=============================================================================
