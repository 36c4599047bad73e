------------------------------ MODULE FileStore ------------------------------
(***************************************************************************)
(* Calls that take several requests to one thing on the board: a file's    *)
(* handle (python/espbridge/fs.py RemoteFile, src/esp/mod_fs.cpp), a       *)
(* directory that comes as events before the reply (Volume.list), and a    *)
(* firmware image (ota.py, src/esp/mod_ota.cpp).  Init chooses the one     *)
(* that a behaviour is about; a request with its reply is one step, and    *)
(* the reply, or the request itself, may be lost.  FS_CLOSE and FS_LIST    *)
(* are not in NON_IDEMPOTENT (constants.py:339-350): request() sends them  *)
(* a second time after a timeout, unless retries is 0 or the bridge is     *)
(* being closed; all the others end with their first timeout.              *)
(***************************************************************************)
EXTENDS Naturals, Sequences, FiniteSets, Functions

CONSTANTS
  Threads,  \* of the host; each works on a handle of its own, which others may close
  Chunks,   \* length of a file, an image or a directory
  Fds,      \* FS_MAX_FDS: 8 in the code
  Faults    \* bound of the model: messages lost, requests that the board cannot serve

VARIABLES
  host,    \* each thread's call, its handle and what it has of the file
  board,   \* fds[], the running update, the directory being listed
  wire     \* entries of a directory on their way

vars == <<host, board, wire>>

Free == 0
Kinds == {"file", "list", "flash"}
Closed == [op |-> "none", fd |-> 0, at |-> 0, parts |-> <<>>, over |-> FALSE, excused |-> FALSE]
Whole(t) == [k \in 1 .. Chunks |-> <<t, k>>]
IsPrefixOf(s, whole) == Len(s) <= Len(whole) /\ s = SubSeq(whole, 1, Len(s))

TypeOK ==
  /\ host.kind \in Kinds
  /\ \A t \in Threads :
       /\ host.call[t].op \in {"none", "read", "write", "leave", "again", "list", "begin"}
       /\ host.call[t].fd \in 0 .. Fds /\ host.call[t].at \in 0 .. Chunks + 1
  /\ {host.lost, host.robbed} \subseteq BOOLEAN /\ host.shared \subseteq Threads
  /\ \A fd \in 1 .. Fds : board.fds[fd].file \in Threads \cup {Free}
  /\ board.update.on \in BOOLEAN /\ Len(board.update.parts) <= Chunks
  /\ wire.faults \in 0 .. Faults

Init ==
  /\ \E k \in Kinds : host = [kind |-> k, call |-> [t \in Threads |-> Closed],
                              lost |-> FALSE, shared |-> {}, robbed |-> FALSE]
  /\ board = [fds |-> [fd \in 1 .. Fds |-> [file |-> Free, at |-> 0]],
              update |-> [on |-> FALSE, parts |-> <<>>], slot |-> <<>>, listing |-> <<>>]
  /\ wire = [events |-> <<>>, faults |-> Faults]

Is(kind) == host.kind = kind
Call(t) == host.call[t]
Quiet(t) == Call(t).op = "none"
Fault == wire.faults > 0 /\ wire' = [wire EXCEPT !.faults = @ - 1]
With(t, c) == [host EXCEPT !.call[t] = c]
LostWith(t, c) == [host EXCEPT !.call[t] = c, !.lost = TRUE]

----------------------------------------------------------------------------
(* Files *)

Unused == {fd \in 1 .. Fds : board.fds[fd].file = Free}
Lowest(fds) == CHOOSE fd \in fds : \A other \in fds : fd <= other

\* FS_OPEN of the thread's own file.  A lost reply leaves a handle that nobody knows.
Open(t, mode) ==
  /\ Is("file") /\ Quiet(t) /\ Unused # {}
  /\ LET fd == Lowest(Unused) IN
     /\ board' = [board EXCEPT !.fds[fd] = [file |-> t, at |-> 0]]
     /\ \/ host' = With(t, [Closed EXCEPT !.op = mode, !.fd = fd]) /\ UNCHANGED wire
        \/ Fault /\ host' = LostWith(t, Closed)

\* A handle that another thread has closed is used all the same, whatever it stands for now.
Mine(t) == board.fds[Call(t).fd]
Fails(t) == With(t, [Call(t) EXCEPT !.op = "leave"])
Moved(t) == [board EXCEPT !.fds[Call(t).fd].at = @ + 1]
Freed(fd) == [board EXCEPT !.fds[fd] = [file |-> Free, at |-> 0]]

\* A handle was closed under its thread: by another that has it, or by an FS_CLOSE sent again.
Disturbed == host.shared # {} \/ host.robbed

\* FS_READ: the next chunk, or a short one at the end.  Once a handle has been closed under
\* its thread, what is read is anybody's, and not kept here.
Read(t) ==
  /\ Call(t).op = "read"
  /\ LET got == IF Disturbed THEN <<>> ELSE Append(Call(t).parts, <<Mine(t).file, Mine(t).at + 1>>)
     IN
     \/ /\ Mine(t).file = Free                                     \* NOT_INIT
        /\ host' = Fails(t) /\ UNCHANGED <<board, wire>>
     \/ /\ Mine(t).file # Free /\ Mine(t).at < Chunks
        /\ \/ /\ board' = Moved(t)
              /\ host' = With(t, [Call(t) EXCEPT !.parts = got]) /\ UNCHANGED wire
           \/ Fault /\ board' \in {board, Moved(t)} /\ host' = Fails(t)
     \/ /\ Mine(t).file # Free /\ Mine(t).at = Chunks
        /\ host' = With(t, [Call(t) EXCEPT !.op = "leave", !.over = TRUE])
        /\ UNCHANGED <<board, wire>>

\* FS_WRITE of the next chunk; a full filesystem takes only a part of it, which is an
\* OSError to write() as a lost reply is a timeout.
Write(t) ==
  /\ Call(t).op = "write"
  /\ LET k == Call(t).at + 1 IN
     \/ k > Chunks
        /\ host' = With(t, [Call(t) EXCEPT !.op = "leave", !.over = TRUE])
        /\ UNCHANGED <<board, wire>>
     \/ k <= Chunks /\ Mine(t).file = Free
        /\ host' = Fails(t) /\ UNCHANGED <<board, wire>>
     \/ k <= Chunks /\ Mine(t).file # Free /\ Mine(t).at < Chunks
        /\ \/ /\ board' = Moved(t)
              /\ host' = With(t, [Call(t) EXCEPT !.at = k, !.parts = Append(@, <<Mine(t).file, k>>)])
              /\ UNCHANGED wire
           \/ Fault /\ board' \in {board, Moved(t)} /\ host' = Fails(t)

\* Deliberately wrong (mutation of Exit): after an error the handle stays open.
ExitAfterSuccess(t) ==
  /\ Call(t).op = "leave"
  /\ board' = IF Call(t).over THEN Freed(Call(t).fd) ELSE board
  /\ host' = With(t, [Call(t) EXCEPT !.op = "none"])
  /\ UNCHANGED wire

\* __exit__: close(), once: a handle that was closed before is left alone.  After a timeout
\* FS_CLOSE is sent again, whether the board has executed it or not, or close() raises.
Exit(t) ==
  /\ Call(t).op = "leave"
  /\ LET freed == Freed(Call(t).fd)
         after == With(t, [Call(t) EXCEPT !.op = "none"])
     IN \/ t \in host.shared /\ host' = after /\ UNCHANGED <<board, wire>>
        \/ t \notin host.shared /\ board' = freed /\ host' = after /\ UNCHANGED wire
        \/ t \notin host.shared
           /\ Fault /\ board' \in {board, freed}
           /\ host' \in {With(t, [Call(t) EXCEPT !.op = "again"]), [after EXCEPT !.lost = TRUE]}

\* The second FS_CLOSE: it closes what has the descriptor by now, which another thread may
\* have been given since; its timeout is close()'s.
CloseAgain(t) ==
  /\ Call(t).op = "again"
  /\ LET fd    == Call(t).fd
         after == [With(t, [Call(t) EXCEPT !.op = "none"])
                     EXCEPT !.robbed = @ \/ board.fds[fd].file \notin {Free, t}]
     IN \/ board' = Freed(fd) /\ host' = after /\ UNCHANGED wire
        \/ Fault /\ \/ board' = Freed(fd) /\ host' = [after EXCEPT !.lost = TRUE]
                    \/ host' = LostWith(t, [Call(t) EXCEPT !.op = "none"]) /\ UNCHANGED board

\* close() of a handle that its thread is still reading.  What its own FS_CLOSE does when
\* it is sent again is left out: nothing is said of files from here on.
CloseUnder(t) ==
  /\ Call(t).op \in {"read", "write"} /\ t \notin host.shared
  /\ board' = Freed(Call(t).fd)
  /\ host' = [host EXCEPT !.shared = @ \cup {t}]
  /\ UNCHANGED wire

----------------------------------------------------------------------------
(* Volume.list() *)

Listers == {t \in Threads : Call(t).op = "list"}
Job(t) == [for |-> t, at |-> 0]

\* on_event(), then FS_LIST, which may be lost: slow_task lists one directory after the other.
ListCall(t) ==
  /\ Is("list") /\ Quiet(t)
  /\ LET under == Listers # {} \/ board.listing # <<>> \/ wire.events # <<>> IN
     host' = [host EXCEPT !.call = [u \in Threads |->
       IF u = t THEN [Closed EXCEPT !.op = "list", !.excused = under]
       ELSE [Call(u) EXCEPT !.excused = @ \/ u \in Listers]]]
  /\ \/ board' = [board EXCEPT !.listing = Append(@, Job(t))] /\ UNCHANGED wire
     \/ Fault /\ UNCHANGED board

\* An entry and, after the last, the reply with their number, which list() ignores.  An
\* event that finds the queue full is dropped, and a reply may be lost.
ListStep ==
  /\ board.listing # <<>>
  /\ LET l == Head(board.listing)
         e == [for |-> l.for, entry |-> l.at + 1]
     IN /\ board' = IF l.at = Chunks THEN [board EXCEPT !.listing = Tail(@)]
                    ELSE [board EXCEPT !.listing[1].at = @ + 1]
        /\ \/ wire' = [wire EXCEPT !.events = Append(@, e)] /\ UNCHANGED host
           \/ Fault /\ host' = [host EXCEPT !.lost = @ \/ l.at < Chunks]

\* Every handler that is registered is called with every entry; those that come to a thread
\* beside another's listing are anybody's, and not kept here.
OnEntry(h, e) ==
  [h EXCEPT !.call = [t \in Threads |->
     IF t \in Listers /\ ~Call(t).excused
     THEN [h.call[t] EXCEPT !.parts = Append(@, e.entry)] ELSE h.call[t]]]

\* A reply that nobody waits for any more changes nothing.
Deliver ==
  /\ wire.events # <<>>
  /\ LET e == Head(wire.events) IN
     host' = IF e.entry <= Chunks THEN OnEntry(host, e)
             ELSE IF e.for # Free
                  THEN With(e.for, [Call(e.for) EXCEPT !.op = "none", !.over = TRUE])
                  ELSE host
  /\ wire' = [wire EXCEPT !.events = Tail(@)]
  /\ UNCHANGED board

\* Requests, or entries and replies, of this thread's; and the same with nobody's.
For(t, s) == {i \in DOMAIN s : s[i].for = t}
Orphaned(t, s) == [i \in DOMAIN s |-> IF s[i].for = t THEN [s[i] EXCEPT !.for = Free] ELSE s[i]]

\* The request times out, because nothing is on its way any more or because the board is
\* slow, which goes on all the same.  FS_LIST is sent again, once, with the handler still
\* registered; then list() raises.
ListTimeout(t) ==
  /\ Call(t).op = "list"
  /\ LET late == For(t, board.listing) \cup For(t, wire.events) # {}
         left == Orphaned(t, board.listing)
     IN /\ late => wire.faults > 0
        /\ wire' = [faults |-> IF late THEN wire.faults - 1 ELSE wire.faults,
                    events |-> Orphaned(t, wire.events)]
        /\ \/ Call(t).at = 0
              /\ host' = With(t, [Call(t) EXCEPT !.at = 1])
              /\ board' = [board EXCEPT !.listing = Append(left, Job(t))]
           \/ host' = With(t, Closed) /\ board' = [board EXCEPT !.listing = left]

----------------------------------------------------------------------------
(* Ota.flash() *)

Flashing == {t \in Threads : Is("flash") /\ ~Quiet(t)}

\* OTA_BEGIN: an update that is under way is thrown away.
FlashBegin(t) ==
  /\ Is("flash") /\ Quiet(t) /\ ~Call(t).over
  /\ board' = [board EXCEPT !.update = [on |-> TRUE, parts |-> <<>>]]
  /\ host' = [host EXCEPT !.call = [u \in Threads |->
       IF u = t THEN [Closed EXCEPT !.op = "begin", !.excused = Flashing # {}]
       ELSE [Call(u) EXCEPT !.excused = @ \/ u \in Flashing]]]
  /\ UNCHANGED wire

\* OTA_WRITE: the next chunk of the image, into whatever update is running; one that is
\* too much ends it.  A lost reply ends flash(), not the update.
FlashWrite(t) ==
  /\ Call(t).op = "begin" /\ Call(t).at < Chunks
  /\ LET u    == board.update
         room == u.on /\ Len(u.parts) < Chunks
     IN \/ /\ ~room
           /\ board' = [board EXCEPT !.update = [on |-> FALSE, parts |-> <<>>]]
           /\ host' = With(t, Closed) /\ UNCHANGED wire
        \/ /\ room
           /\ board' = [board EXCEPT !.update.parts = Append(@, <<t, Call(t).at + 1>>)]
           /\ \/ host' = With(t, [Call(t) EXCEPT !.at = @ + 1]) /\ UNCHANGED wire
              \/ Fault /\ host' = LostWith(t, Closed)

\* Update.end(true): an image is taken when its digest is right, so only a whole one.
Verified(u) == u.on /\ \E t \in Threads : u.parts = Whole(t)

FlashEnd(t) ==
  /\ Call(t).op = "begin" /\ Call(t).at = Chunks
  /\ IF Verified(board.update)
     THEN /\ board' = [board EXCEPT !.slot = board.update.parts,
                                    !.update = [on |-> FALSE, parts |-> <<>>]]
          /\ host' = With(t, [Call(t) EXCEPT !.op = "none", !.over = TRUE, !.parts = board'.slot])
     ELSE /\ board' = [board EXCEPT !.update = [on |-> FALSE, parts |-> <<>>]]
          /\ host' = With(t, Closed)
  /\ UNCHANGED wire

Abort ==
  /\ Is("flash") /\ board.update.on /\ Flashing # {}
  /\ board' = [board EXCEPT !.update = [on |-> FALSE, parts |-> <<>>]]
  /\ UNCHANGED <<host, wire>>

Next ==
  \/ ListStep \/ Deliver \/ Abort
  \/ \E t \in Threads : \/ Open(t, "read") \/ Open(t, "write") \/ Read(t) \/ Write(t)
                        \/ Exit(t) \/ CloseAgain(t) \/ CloseUnder(t)
                        \/ ListCall(t) \/ ListTimeout(t)
                        \/ FlashBegin(t) \/ FlashWrite(t) \/ FlashEnd(t)

----------------------------------------------------------------------------

Directory == [k \in 1 .. Chunks |-> k]

(***************************************************************************)
(* What a thread has of a file, a directory or an image is a first part of *)
(* its own, in order, and the whole of it when the call returns, unless    *)
(* another thread got in between: closed a handle in use, listed or        *)
(* flashed meanwhile (RemoteFile.read, write; Volume.list; Ota.flash), or  *)
(* had its FS_CLOSE sent again when the descriptor was somebody else's     *)
(* (CloseKeepsOthers).  An entry that was dropped is missing from list(),  *)
(* which does not notice; one whose FS_LIST was sent again may return the  *)
(* entries of both executions, one after the other (ListsOnce).            *)
(***************************************************************************)
OwnAndWhole ==
  \A t \in Threads : ~Call(t).excused =>
    /\ Is("file") /\ ~Disturbed =>
                     /\ IsPrefixOf(Call(t).parts, Whole(t))
                     /\ Call(t).over => Call(t).parts = Whole(t)
    /\ Is("list") /\ Call(t).over /\ ~host.lost =>
         \/ Call(t).parts = Directory
         \/ Call(t).at = 1 /\ Call(t).parts = Directory \o Directory
    /\ Is("flash") /\ Call(t).over => Call(t).parts = Whole(t)

(***************************************************************************)
(* A descriptor of the board is in use only for a handle that a thread     *)
(* still has, also after an error and after a lost FS_CLOSE that was sent  *)
(* again, unless the reply to an FS_OPEN was lost, an FS_CLOSE was given   *)
(* up, or another thread closed the handle (Volume.open, RemoteFile.close, *)
(* __exit__).                                                              *)
(***************************************************************************)
NoDescriptorLost ==
  ~host.lost /\ ~Disturbed =>
    \A fd \in 1 .. Fds : board.fds[fd].file # Free =>
      \E t \in Threads : ~Quiet(t) /\ Call(t).fd = fd /\ board.fds[fd].file = t

(***************************************************************************)
(* A file is closed by no other thread's close() of its own file, the      *)
(* FS_CLOSE of which is taken for safe to repeat (constants.py:333-338).   *)
(* It does not hold: the descriptor may be in use again by the second.     *)
(***************************************************************************)
CloseKeepsOthers == ~host.robbed

(***************************************************************************)
(* flash() returns when the image it was given is installed (ota.py:40),   *)
(* whoever else is flashing.                                               *)
(***************************************************************************)
FlashInstallsOwn == \A t \in Threads : Is("flash") /\ Call(t).over => Call(t).parts = Whole(t)

(***************************************************************************)
(* list() returns the entries of the directory, each once (fs.py:122),     *)
(* whoever else is listing.  It does not hold, nor for one lister whose    *)
(* FS_LIST is sent again.                                                  *)
(***************************************************************************)
ListsOnce ==
  \A t \in Threads : Is("list") /\ Call(t).over /\ ~host.lost => Call(t).parts = Directory
=============================================================================
