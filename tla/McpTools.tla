------------------------------- MODULE McpTools -------------------------------
(***************************************************************************)
(* The tools of the MCP server (mcp/server.py, mcp/tools.py): each call    *)
(* runs in a thread of its own; all share the manager's Bridge, the        *)
(* volumes mounted on it and its sub-APIs, which Bridge.__getattr__ builds *)
(* when they are first wanted.  And _methods(): which methods become tools.*)
(* Tools with one request and no memory on the host are "gpio_write".      *)
(***************************************************************************)
EXTENDS Integers, SequencesExt

CONSTANTS
  Threads,  \* calls of tools that run at once
  Boards,   \* on the desk; the first is the one the server was started for
  Links,    \* bound of the model: Bridge objects
  Calls,    \* bound of the model: calls of tools
  Faults    \* bound of the model: links that drop, mounts and opens that fail

VARIABLES
  host,   \* the manager, its Bridge objects, the calls; or a class and its tools
  board,  \* each board: what is mounted and open on it
  wire    \* bounds, and what calls have met

vars == <<host, board, wire>>

Default == 1
FsTools == {"fs_mount", "fs_tree"}
UartTools == {"uart_init", "uart_read", "uart_close"}
Tools == FsTools \cup UartTools \cup
  {"bridge_connect", "bridge_disconnect", "bridge_status", "system_reset", "gpio_write"}
Steps == {"none", "status", "lookup", "acquire", "locked", "open", "mount", "subapi", "build", "use"}

Idle == [tool |-> "gpio_write", step |-> "none", link |-> 0, board |-> Default]
Step(t) == host.call[t].step
Tool(t) == host.call[t].tool
Link(t) == host.links[host.call[t].link]

\* A Bridge to board b; uart: the Uart it keeps (a number, 0: none yet), ports: the Uarts that have one.
Opened(b) == [board |-> b, closed |-> FALSE, lost |-> FALSE, dead |-> FALSE,
              uart |-> 0, built |-> 0, ports |-> {}, inited |-> FALSE]

\* Of a class: which function a name is (0: not a function), and whether it is public.
MethodNames == 1 .. 3
Classes == [MethodNames -> [fn : 0 .. 2, public : BOOLEAN]]

\* Deliberately wrong (mutation of Methods): names are skipped, not the functions they name.
MethodsByName(class, skip) ==
  {n \in MethodNames : class[n].public /\ class[n].fn # 0 /\ n \notin skip}

\* _methods(): a skipped function is skipped under all its names, an alias makes no second tool.
Methods(class, skip) ==
  {n \in MethodNames :
    /\ class[n].public /\ class[n].fn # 0
    /\ class[n].fn \notin {class[s].fn : s \in skip}
    /\ \A m \in 1 .. n - 1 : class[m].public => class[m].fn # class[n].fn}

TypeOK ==
  /\ host.kind = "calls" =>
       /\ host.bridge \in 0 .. Len(host.links) /\ host.volume \in 0 .. Len(host.links)
       /\ host.lock \in Threads \cup {0} /\ Len(host.links) <= Links
       /\ \A t \in Threads : Step(t) \in Steps /\ Tool(t) \in Tools
  /\ \A b \in Boards : board[b].mounted \in BOOLEAN /\ board[b].uart \in BOOLEAN
  /\ wire.calls \in 0 .. Calls /\ wire.faults \in 0 .. Faults

\* main(): the server connects at its start if it can; register_all() makes the tools.
Init ==
  /\ \/ \E links \in {<<>>, <<Opened(Default)>>} :
          host = [kind |-> "calls", links |-> links, bridge |-> Len(links), volume |-> 0, lock |-> 0,
                  call |-> [t \in Threads |-> Idle]]
     \/ \E class \in Classes, skip \in SUBSET MethodNames :
          host = [kind |-> "class", class |-> class, skip |-> skip, tools |-> Methods(class, skip)]
  /\ board = [b \in Boards |-> [mounted |-> FALSE, uart |-> FALSE]]
  /\ wire = [calls |-> Calls, faults |-> Faults, asked |-> 0, strayed |-> FALSE, statusOpens |-> FALSE,
             notMounted |-> FALSE, deadVolume |-> FALSE, closedPort |-> FALSE, missed |-> FALSE]

----------------------------------------------------------------------------
(* The manager *)

Alive(l) == l # 0 /\ ~host.links[l].closed /\ ~host.links[l].dead

\* _close_locked()
Closed ==
  [host EXCEPT !.bridge = 0, !.volume = 0,
               !.links = [l \in DOMAIN @ |-> IF l = host.bridge THEN [@[l] EXCEPT !.closed = TRUE] ELSE @[l]]]

Goes(h, t, step) == [h EXCEPT !.call[t].step = step]
Unlocked(h) == [h EXCEPT !.lock = 0]
Return(h, t) == [h EXCEPT !.call[t] = Idle]

\* The sub-API of a UART tool is fetched from the Bridge it has got.
With(h, t, link) ==
  [h EXCEPT !.call[t].link = link, !.call[t].step = IF Tool(t) \in UartTools THEN "subapi" ELSE "use"]

Call(t) ==
  /\ Step(t) = "none" /\ wire.calls > 0
  /\ \E tool \in Tools, b \in Boards :
       /\ tool # "bridge_connect" => b = Default
       /\ host' = [host EXCEPT !.call[t] = [Idle EXCEPT !.tool = tool, !.board = b,
            !.step = CASE tool \in FsTools \cup {"bridge_connect", "bridge_disconnect"} -> "acquire"
                       [] tool = "bridge_status" -> "status"
                       [] OTHER -> "lookup"]]
  /\ wire' = [wire EXCEPT !.calls = @ - 1]
  /\ UNCHANGED board

Status(t) ==
  /\ Step(t) = "status"
  /\ host' = IF Alive(host.bridge) THEN Goes(host, t, "lookup") ELSE Return(host, t)
  /\ UNCHANGED <<board, wire>>

\* bridge(): a link that is alive is returned without the lock.
Lookup(t) ==
  /\ Step(t) = "lookup"
  /\ host' = IF Alive(host.bridge) THEN With(host, t, host.bridge) ELSE Goes(host, t, "acquire")
  /\ UNCHANGED <<board, wire>>

Acquire(t) ==
  /\ Step(t) = "acquire" /\ host.lock = 0
  /\ host' = [host EXCEPT !.lock = t, !.call[t].step = "locked"]
  /\ UNCHANGED <<board, wire>>

Disconnect(t) ==
  /\ Step(t) = "locked" /\ Tool(t) = "bridge_disconnect"
  /\ host' = Unlocked(Return(Closed, t))
  /\ wire' = [wire EXCEPT !.asked = 0]
  /\ UNCHANGED board

\* volume(), or bridge() on its slow path: what is there is used, else the link is replaced.
Locked(t) ==
  /\ Step(t) = "locked" /\ Tool(t) # "bridge_disconnect"
  /\ host' =
       IF Tool(t) = "fs_tree" /\ host.volume # 0 THEN Unlocked(With(host, t, host.volume))
       ELSE IF Tool(t) = "bridge_connect" \/ ~Alive(host.bridge) THEN Goes(Closed, t, "open")
       ELSE IF Tool(t) \in FsTools THEN Goes(With(host, t, host.bridge), t, "mount")
       ELSE Unlocked(With(host, t, host.bridge))
  /\ UNCHANGED <<board, wire>>

\* Bridge(**kwargs); without the settings of an earlier bridge_connect.
Open(t) ==
  /\ Step(t) = "open"
  /\ \/ LET new == Len(host.links) + 1
            h   == [With(host, t, new) EXCEPT !.links = Append(@, Opened(host.call[t].board)), !.bridge = new] IN
        /\ new <= Links
        /\ host' = CASE Tool(t) \in FsTools -> Goes(h, t, "mount")
                     [] Tool(t) = "bridge_connect" -> Unlocked(Return(h, t))
                     [] OTHER -> Unlocked(h)
        /\ wire' = [wire EXCEPT !.asked = IF Tool(t) = "bridge_connect" THEN host.call[t].board ELSE @,
                                !.statusOpens = @ \/ Tool(t) = "bridge_status"]
     \/ /\ wire.faults > 0
        /\ host' = Unlocked(Return(host, t)) /\ wire' = [wire EXCEPT !.faults = @ - 1]
  /\ UNCHANGED board

Failed(h, t) ==
  Return(IF h.links[h.call[t].link].lost THEN [h EXCEPT !.links[h.call[t].link].dead = TRUE] ELSE h, t)

\* FS_MOUNT, with the lock held.
Mount(t) ==
  /\ Step(t) = "mount"
  /\ \/ /\ Alive(host.call[t].link) /\ ~Link(t).lost
        /\ board' = [board EXCEPT ![Link(t).board].mounted = TRUE]
        /\ LET h == Unlocked([host EXCEPT !.volume = host.call[t].link]) IN
           host' = IF Tool(t) = "fs_mount" THEN Return(h, t) ELSE Goes(h, t, "use")
        /\ UNCHANGED wire
     \/ /\ ~Alive(host.call[t].link) \/ Link(t).lost \/ wire.faults > 0
        /\ host' = Unlocked(Failed(host, t))
        /\ wire' = IF Link(t).lost THEN wire ELSE [wire EXCEPT !.faults = @ - 1]
        /\ UNCHANGED board

----------------------------------------------------------------------------
(* Sub-APIs and requests *)

Subapi(t) ==
  /\ Step(t) = "subapi"
  /\ host' = Goes(host, t, IF Link(t).uart # 0 THEN "use" ELSE "build")
  /\ UNCHANGED <<board, wire>>

\* A link and the Uart made for it.
Fetched(l) == [l EXCEPT !.uart = l.built + 1, !.built = @ + 1]

\* Deliberately wrong (mutation of Build): it is not looked for again under the lock.
BuildAlways(t) ==
  /\ Step(t) = "build"
  /\ host' = Goes([host EXCEPT !.links[host.call[t].link] = Fetched(@)], t, "use")
  /\ UNCHANGED <<board, wire>>

\* Bridge.__getattr__, under its lock.
Build(t) ==
  /\ Step(t) = "build"
  /\ host' = Goes(IF Link(t).uart # 0 THEN host
                  ELSE [host EXCEPT !.links[host.call[t].link] = Fetched(@)], t, "use")
  /\ UNCHANGED <<board, wire>>

\* What tool does on a board; uart_read asks it for nothing.
After(tool, b) ==
  CASE tool = "uart_init"    -> [b EXCEPT !.uart = TRUE]
    [] tool = "uart_close"   -> [b EXCEPT !.uart = FALSE]
    [] tool = "system_reset" -> [mounted |-> FALSE, uart |-> FALSE]
    [] OTHER -> b

HasPort(t) == Link(t).uart \in Link(t).ports

\* A call that needs no answer, or gets one: "uartN is not open" comes from the host.
Use(t) ==
  /\ Step(t) = "use"
  /\ LET tool == Tool(t)
         l    == host.call[t].link
         b    == Link(t).board
         asks == ~(tool \in {"uart_read", "uart_close"} /\ ~HasPort(t)) /\ tool \notin {"uart_read", "bridge_status"}
         ok   == ~Link(t).closed /\ ~Link(t).lost IN
     /\ board' = IF asks /\ ok THEN [board EXCEPT ![b] = After(tool, @)] ELSE board
     /\ host' = IF asks /\ ~ok THEN Failed(host, t)
                ELSE Return(IF tool = "uart_init"
                            THEN [host EXCEPT !.links[l].ports = @ \cup {Link(t).uart}, !.links[l].inited = TRUE]
                            ELSE host, t)
     /\ wire' = [wire EXCEPT
          !.strayed = @ \/ (tool = "gpio_write" /\ ok /\ host.bridge = l /\ wire.asked \notin {0, b}),
          !.notMounted = @ \/ (tool = "fs_tree" /\ ok /\ ~board[b].mounted),
          !.deadVolume = @ \/ (tool = "fs_tree" /\ Link(t).dead /\ host.bridge = l),
          !.closedPort = @ \/ (tool = "uart_read" /\ ok /\ HasPort(t) /\ ~board[b].uart),
          !.missed = @ \/ (tool \in {"uart_read", "uart_close"} /\ ~HasPort(t) /\ Link(t).inited)]

\* A board off its link; it may have lost its power.
Drop(l) ==
  /\ wire.faults > 0 /\ ~host.links[l].closed /\ ~host.links[l].lost
  /\ host' = [host EXCEPT !.links[l].lost = TRUE]
  /\ wire' = [wire EXCEPT !.faults = @ - 1]
  /\ board' \in {board, [board EXCEPT ![host.links[l].board] = After("system_reset", @)]}

Next ==
  /\ host.kind = "calls"
  /\ \/ \E t \in Threads :
          \/ Call(t) \/ Status(t) \/ Lookup(t) \/ Acquire(t) \/ Disconnect(t) \/ Locked(t) \/ Open(t)
          \/ Mount(t) \/ Subapi(t) \/ Build(t) \/ Use(t)
     \/ \E l \in DOMAIN host.links : Drop(l)

----------------------------------------------------------------------------

(***************************************************************************)
(* The volume that tools are given was mounted over the Bridge the manager *)
(* has now: a link that is replaced, by bridge_connect, bridge_disconnect  *)
(* or another call that finds it dead, takes its volume with it, also when *)
(* a mount is under way (server.py:72-91).                                 *)
(***************************************************************************)
VolumeIsOfLink == host.kind = "calls" => host.volume \in {0, host.bridge}

(***************************************************************************)
(* A port that uart_init has opened is found by later calls: two threads   *)
(* that want the same sub-API first get one object (bridge.py:1162-1173,   *)
(* tools.py:208-214).                                                      *)
(***************************************************************************)
PortIsFound == ~wire.missed

(***************************************************************************)
(* Each function of a class is one tool, unless SKIP has one of its names: *)
(* `begin = init` is no second tool, and not one that is left when init is *)
(* skipped (tools.py:130-143).                                             *)
(***************************************************************************)
OneToolPerMethod ==
  host.kind = "class" =>
    \A fn \in 1 .. 2 :
      LET named == {n \in MethodNames : host.class[n].fn = fn}
          tools == {n \in host.tools : host.class[n].fn = fn} IN
      CASE named \cap host.skip # {} -> tools = {}
        [] \E n \in named : host.class[n].public /\ named \cap host.skip = {} -> \E n \in named : tools = {n}
        [] OTHER -> tools = {}

(***************************************************************************)
(* "transparently reopened if it drops" (manager.py:38): the link that     *)
(* bridge_connect chose comes back as one to the same board, not to the    *)
(* one the server was started for.                                         *)
(***************************************************************************)
SameBoardAgain == ~wire.strayed

(***************************************************************************)
(* "Report whether a board is connected" (server.py:122): bridge_status    *)
(* opens no link, even when another call closes it in between.             *)
(***************************************************************************)
StatusOnlyLooks == ~wire.statusOpens

(***************************************************************************)
(* "Lazy callers ... get the cached volume" (server.py:81): it is still    *)
(* mounted, also after system_reset.                                       *)
(***************************************************************************)
VolumeIsMounted == ~wire.notMounted

(***************************************************************************)
(* "auto-reconnecting link" (server.py:59): a tool of the file system that *)
(* finds the link dead opens a new one, as other tools do.                 *)
(***************************************************************************)
VolumeIsLive == ~wire.deadVolume

(***************************************************************************)
(* "The open port with this number, or None" (uart.py:127): not one that   *)
(* was closed, or that a reset has closed.                                 *)
(***************************************************************************)
PortIsOpen == ~wire.closedPort
=============================================================================
