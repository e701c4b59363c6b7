----------------------------- MODULE NandAccess -----------------------------
(***************************************************************************)
(* The MTD interface of the kernel's NAND driver (nand_base.c) as its      *)
(* users see it: several tasks, the lock of the controller, the page the   *)
(* driver keeps in its buffer, the out-of-band buffer, the bad block table *)
(* and the marks it is built from, and restarts of the kernel.             *)
(*                                                                         *)
(* The chip is reached through one nand_chip, or through two that share    *)
(* the controller and the buffers: nand_scan_tail copies the nand_chip of  *)
(* jz_mtd for jz_mtd1, pointers included.  The partitions of the two are   *)
(* disjoint, so each nand_chip has pages of its own here.  A page is its   *)
(* data as one symbol, whether its bits have decayed beyond the error      *)
(* correction, and whether its bad block mark is set.  A program replaces  *)
(* the bytes, as nand_blk_write of the emulated chip does.                 *)
(***************************************************************************)
EXTENDS Integers

CONSTANTS
  Users,         \* tasks that use the MTD devices
  Chips,         \* the nand_chip structures over the chip
  SubpageChips,  \* those that take writes of less than a page
  Pages,         \* pages of each
  BlockPages,    \* pages of an erase block
  FlagPage,      \* CONFIG_MTD_BADBLOCK_FLAG_PAGE
  Data,          \* contents users write
  OobModes,      \* out-of-band data a page write may carry: none, place, auto
  Ops,           \* operations the users ask for
  Decaying,      \* pages whose bits may decay
  MaxRequests,   \* bound: requests issued
  MaxRestarts    \* bound: restarts of the kernel

ReqOps == {"read", "write", "erase", "readoob", "writeoob", "sync", "mark"}

ASSUME NandAccessAssumption ==
  /\ Pages \in Nat \ {0} /\ BlockPages \in Nat \ {0} /\ FlagPage \in Nat
  /\ SubpageChips \subseteq Chips /\ Ops \subseteq ReqOps
  /\ Decaying \subseteq 0 .. Pages - 1
  /\ "none" \notin Chips /\ "ff" \notin Data

Page   == 0 .. Pages - 1
Block(p) == p \div BlockPages
Blocks == {Block(p) : p \in Page}
FirstPages == {p \in Page : p % BlockPages = 0}
NoChip == "none"
NoPage == -1
Blank  == "ff"                          \* erased, or never read

VARIABLES
  flash,      \* flash[c][p]: the pages
  bbt,        \* bbt[c]: blocks the bad block table calls bad
  databuf,    \* chip->buffers->databuf, shared
  oob_poi,    \* is the mark set in the out-of-band buffer, shared
  pagebuf,    \* pagebuf[c]: page that databuf is said to hold, or NoPage
  active,     \* controller->active: the nand_chip that owns it, or NoChip
  state,      \* state[c]: chip->state
  phase,      \* "scan" (the table is being built), "up" or "failed"
  scanned,    \* blocks scanned so far
  pc,         \* pc[u]: idle, get, asleep, run, release
  req,        \* req[u]: the request
  out,        \* out[u]: data of the page last given to u
  tainted,    \* tainted[u]: data with uncorrectable errors was given to u
  failed,     \* failed[u]: the request will return an error
  requests, restarts

mediumVars == <<flash, bbt>>
bufferVars == <<databuf, oob_poi, pagebuf>>
lockVars   == <<active, state>>
bootVars   == <<phase, scanned>>
taskVars   == <<pc, req, out, tainted, failed>>
countVars  == <<requests, restarts>>
vars == <<flash, bbt, databuf, oob_poi, pagebuf, active, state, phase, scanned,
          pc, req, out, tainted, failed, requests, restarts>>

(* A request goes over the pages (for an erase, the blocks) next to last;  *)
(* head: the first page is not wanted whole; tail: nor is the last, when   *)
(* it is another.                                                          *)
RequestType ==
  [op : ReqOps, chip : Chips, next : Int, last : Int, head : BOOLEAN,
   tail : BOOLEAN, oob : OobModes \union {"none", "place"}, data : Data \union {Blank}]
NoRequest == [op |-> "none"]
MarkRequest(c, p) ==
  [op |-> "mark", chip |-> c, next |-> p, last |-> p, head |-> FALSE,
   tail |-> FALSE, oob |-> "place", data |-> Blank]
Oob(op) == CASE op = "read" -> {"none", "place"}
             [] op = "write" -> OobModes
             [] op \in {"readoob", "writeoob"} -> {"place"}
             [] OTHER -> {"none"}
Requests ==
  {r \in [op : Ops \ {"mark"}, chip : Chips, next : Page, last : Page,
          head : BOOLEAN, tail : BOOLEAN,
          oob : OobModes \union {"none", "place"}, data : Data \union {Blank}] :
     /\ r.next <= r.last /\ (r.tail => r.next < r.last)
     /\ r.op \in {"readoob", "writeoob"} => r.next = r.last
     /\ r.op = "sync" => r.last = 0
     /\ r.op = "erase" => r.next \in FirstPages /\ r.last \in FirstPages
     /\ r.head \/ r.tail => \/ r.op = "read"
                            \/ r.op = "write" /\ r.oob = "none" /\ r.chip \in SubpageChips
     /\ r.oob \in Oob(r.op) /\ (r.data # Blank <=> r.op = "write")}
FlState(op) ==
  CASE op \in {"read", "readoob"} -> "FL_READING"
    [] op \in {"write", "writeoob", "mark"} -> "FL_WRITING"
    [] op = "erase" -> "FL_ERASING"
    [] op = "sync" -> "FL_SYNCING"
FlBusy == {"FL_READING", "FL_WRITING", "FL_ERASING", "FL_SYNCING"}

Partial(r) == r.head \/ (r.tail /\ r.next = r.last)
MarkedPage(b) == b * BlockPages + FlagPage

PageType == [data : Data \union {Blank}, spoiled : BOOLEAN, mark : BOOLEAN]
NewPage == [data |-> Blank, spoiled |-> FALSE, mark |-> FALSE]
Spoiled(g) == [g EXCEPT !.spoiled = TRUE]
Marked(g, m) == [g EXCEPT !.mark = m]
-----------------------------------------------------------------------------
Init ==
  /\ flash = [c \in Chips |-> [p \in Page |-> NewPage]]
  /\ bbt = [c \in Chips |-> {}]
  /\ databuf = [data |-> Blank, spoiled |-> FALSE]
  /\ oob_poi = FALSE
  /\ pagebuf = [c \in Chips |-> NoPage]
  /\ active = NoChip
  /\ state = [c \in Chips |-> "FL_READY"]
  /\ phase = "scan" /\ scanned = 0
  /\ pc = [u \in Users |-> "idle"]
  /\ req = [u \in Users |-> NoRequest]
  /\ out = [u \in Users |-> Blank]
  /\ tainted = [u \in Users |-> FALSE]
  /\ failed = [u \in Users |-> FALSE]
  /\ requests = 0 /\ restarts = 0

(* create_bbt, one block.  A read past the end of the device ends the      *)
(* scan, and nand_scan_bbt then gives the table up.                        *)
ScanBlock ==
  /\ phase = "scan" /\ scanned \in Blocks
  /\ LET p == MarkedPage(scanned)
     IN  IF p \in Page
           THEN /\ bbt' = [c \in Chips |-> IF flash[c][p].mark
                                             THEN bbt[c] \union {scanned} ELSE bbt[c]]
                /\ oob_poi' \in {flash[c][p].mark : c \in Chips}
                /\ scanned' = scanned + 1
                /\ UNCHANGED phase
           ELSE /\ phase' = "failed"
                /\ bbt' = [c \in Chips |-> {}]
                /\ UNCHANGED <<oob_poi, scanned>>
  /\ UNCHANGED <<flash, databuf, pagebuf, lockVars, taskVars, countVars>>

ScanDone ==
  /\ phase = "scan" /\ scanned \notin Blocks
  /\ phase' = "up"
  /\ UNCHANGED <<mediumVars, bufferVars, lockVars, scanned, taskVars, countVars>>

Start(u, r) ==
  /\ phase = "up" /\ pc[u] = "idle" /\ requests < MaxRequests
  /\ requests' = requests + 1
  /\ req' = [req EXCEPT ![u] = r]
  /\ pc' = [pc EXCEPT ![u] = "get"]
  /\ UNCHANGED <<flash, bufferVars, lockVars, bootVars, out, tainted, failed, restarts>>

Ask(u) == \E r \in Requests : Start(u, r) /\ UNCHANGED bbt

\* Mutant of MarkBad: the mark goes to the flash only.
MarkBad_FlashOnly(u) ==
  \E c \in Chips, b \in Blocks :
    /\ "mark" \in Ops /\ b \notin bbt[c]
    /\ Start(u, MarkRequest(c, MarkedPage(b)))
    /\ UNCHANGED bbt
(* nand_block_markbad: the table first, then, with the device, the flash.  *)
MarkBad(u) ==
  \E c \in Chips, b \in Blocks :
    /\ "mark" \in Ops /\ b \notin bbt[c]
    /\ bbt' = [bbt EXCEPT ![c] = @ \union {b}]
    /\ Start(u, MarkRequest(c, MarkedPage(b)))

\* Mutant of Grants: only the chip's own state is looked at.
Grants_ChipOnly(c) == state[c] = "FL_READY"
Grants(c) == active \in {NoChip, c} /\ state[c] = "FL_READY"
(* nand_get_device: one pass under the spin lock, which ends with the      *)
(* device taken or with the task in the wait queue, not runnable.          *)
GetDevice(u) ==
  /\ pc[u] = "get"
  /\ LET c == req[u].chip
     IN  /\ active' = IF active = NoChip THEN c ELSE active
         /\ IF Grants(c)
              THEN /\ state' = [state EXCEPT ![c] = FlState(req[u].op)]
                   /\ pc' = [pc EXCEPT ![u] = IF req[u].op = "sync" THEN "release" ELSE "run"]
              ELSE /\ pc' = [pc EXCEPT ![u] = "asleep"]
                   /\ UNCHANGED state
  /\ UNCHANGED <<mediumVars, bufferVars, bootVars, req, out, tainted, failed, countVars>>

\* Mutant of Woken: a wait queue for each nand_chip.
Woken_SameChip(u) == {v \in Users : pc[v] = "asleep" /\ req[v].chip = req[u].chip}
Woken(u) == {v \in Users : pc[v] = "asleep"}
(* nand_release_device: every sleeper is made runnable.  The request is    *)
(* over, and what it gave its task is the task's own from here on.         *)
ReleaseDevice(u) ==
  /\ pc[u] = "release"
  /\ active' = NoChip
  /\ state' = [state EXCEPT ![req[u].chip] = "FL_READY"]
  /\ pc' = [v \in Users |-> IF v = u THEN "idle"
                            ELSE IF v \in Woken(u) THEN "get" ELSE pc[v]]
  /\ req' = [req EXCEPT ![u] = NoRequest]
  /\ out' = [out EXCEPT ![u] = Blank]
  /\ tainted' = [tainted EXCEPT ![u] = FALSE]
  /\ failed' = [failed EXCEPT ![u] = FALSE]
  /\ UNCHANGED <<mediumVars, bufferVars, bootVars, countVars>>

Running(u, ops) == pc[u] = "run" /\ req[u].op \in ops

\* Mutant of Stop: an early return on an error keeps the device.
Stop_Keeps(u, err) ==
  /\ pc' = [pc EXCEPT ![u] = IF err THEN "idle" ELSE "release"]
  /\ failed' = [failed EXCEPT ![u] = @ \/ err]
  /\ UNCHANGED req
(* The end of the request, with or without an error; or its next page.     *)
Stop(u, err) ==
  /\ pc' = [pc EXCEPT ![u] = "release"]
  /\ failed' = [failed EXCEPT ![u] = @ \/ err]
  /\ UNCHANGED req
Moved(r, stride) == [r EXCEPT !.next = @ + stride, !.head = FALSE]
Advance(u, stride, err) ==
  IF req[u].next >= req[u].last THEN Stop(u, err)
  ELSE /\ req' = [req EXCEPT ![u] = Moved(@, stride)]
       /\ failed' = [failed EXCEPT ![u] = @ \/ err]
       /\ UNCHANGED pc

\* Mutant of ReadFromFlash: the number is stored after the increment.
ReadFromFlash_NextPage(u, c, p) ==
  /\ out' = [out EXCEPT ![u] = flash[c][p].data]
  /\ tainted' = [tainted EXCEPT ![u] = @ \/ flash[c][p].spoiled]
  /\ oob_poi' = flash[c][p].mark
  /\ IF Partial(req[u])
       THEN /\ databuf' = [data |-> flash[c][p].data, spoiled |-> flash[c][p].spoiled]
            /\ pagebuf' = [pagebuf EXCEPT ![c] = p + 1]
       ELSE UNCHANGED <<databuf, pagebuf>>
  /\ Advance(u, 1, flash[c][p].spoiled)
(* nand_do_read_ops, one page: a page that is wanted in part is read into  *)
(* databuf and stays there; uncorrectable errors go into ecc_stats.failed  *)
(* and make the whole read return -EBADMSG at its end.                     *)
ReadFromFlash(u, c, p) ==
  /\ out' = [out EXCEPT ![u] = flash[c][p].data]
  /\ tainted' = [tainted EXCEPT ![u] = @ \/ flash[c][p].spoiled]
  /\ oob_poi' = flash[c][p].mark
  /\ IF Partial(req[u])
       THEN /\ databuf' = [data |-> flash[c][p].data, spoiled |-> flash[c][p].spoiled]
            /\ pagebuf' = [pagebuf EXCEPT ![c] = p]
       ELSE UNCHANGED <<databuf, pagebuf>>
  /\ Advance(u, 1, flash[c][p].spoiled)
ReadFromBuffer(u) ==
  /\ out' = [out EXCEPT ![u] = databuf.data]
  /\ tainted' = [tainted EXCEPT ![u] = @ \/ databuf.spoiled]
  /\ UNCHANGED bufferVars
  /\ Advance(u, 1, FALSE)
\* Mutant of InBuffer: any page that is kept serves.
InBuffer_AnyPage(r) == pagebuf[r.chip] # NoPage /\ r.oob = "none"
InBuffer(r) == r.next = pagebuf[r.chip] /\ r.oob = "none"
ReadPage(u) ==
  /\ Running(u, {"read"})
  /\ IF InBuffer(req[u]) THEN ReadFromBuffer(u)
     ELSE ReadFromFlash(u, req[u].chip, req[u].next)
  /\ UNCHANGED <<mediumVars, lockVars, bootVars, countVars>>

(* nand_do_read_oob.                                                       *)
ReadOob(u) ==
  /\ Running(u, {"readoob"})
  /\ oob_poi' = flash[req[u].chip][req[u].next].mark
  /\ Advance(u, 1, FALSE)
  /\ UNCHANGED <<mediumVars, databuf, pagebuf, lockVars, bootVars, out, tainted, countVars>>

\* Mutant of Invalidated: < for <= at the start of the range.
Invalidated_OffByOne(r) ==
  IF pagebuf[r.chip] \in r.next + 1 .. r.last
    THEN [pagebuf EXCEPT ![r.chip] = NoPage] ELSE pagebuf
(* nand_do_write_ops, one page.  A cached page that starts inside the      *)
(* range is dropped; a part of a page is written from databuf.             *)
(* Out-of-band data placed by the driver ("auto") goes to the free bytes   *)
(* of the buffer and leaves its mark as it was.                            *)
Invalidated(r) ==
  IF pagebuf[r.chip] \in (IF r.head THEN r.next + 1 ELSE r.next) .. r.last
    THEN [pagebuf EXCEPT ![r.chip] = NoPage] ELSE pagebuf
\* Mutant of WriteMark: the buffer is never set to ones first.
WriteMark_Keeps(oob) == oob_poi
WriteMark(oob) == IF oob = "auto" THEN oob_poi ELSE FALSE
WritePage(u) ==
  /\ Running(u, {"write"})
  /\ LET r == req[u]
     IN  \E fails \in BOOLEAN :
           /\ flash' = [flash EXCEPT ![r.chip][r.next] =
                          [data |-> r.data, spoiled |-> fails, mark |-> WriteMark(r.oob)]]
           /\ pagebuf' = IF Partial(r) THEN [pagebuf EXCEPT ![r.chip] = NoPage]
                                       ELSE Invalidated(r)
           /\ databuf' = IF Partial(r) THEN [data |-> r.data, spoiled |-> FALSE] ELSE databuf
           /\ oob_poi' = WriteMark(r.oob)
           /\ IF fails THEN Stop(u, TRUE) ELSE Advance(u, 1, FALSE)
  /\ UNCHANGED <<bbt, lockVars, bootVars, out, tainted, countVars>>

(* nand_do_write_oob, for a user or for nand_default_block_markbad.  When  *)
(* the chip reports a failed program, the bytes may be there or not.       *)
WriteOob(u) ==
  /\ Running(u, {"writeoob", "mark"})
  /\ LET c == req[u].chip
         p == req[u].next
     IN  IF p \notin Page
           THEN Stop(u, TRUE) /\ UNCHANGED <<flash, pagebuf, oob_poi>>
           ELSE /\ pagebuf' = IF pagebuf[c] = p THEN [pagebuf EXCEPT ![c] = NoPage] ELSE pagebuf
                /\ oob_poi' = FALSE
                /\ \E fails \in BOOLEAN, written \in BOOLEAN :
                     /\ written \/ fails
                     /\ flash' = IF written
                                   THEN [flash EXCEPT ![c][p] = Marked(@, req[u].op = "mark")]
                                   ELSE flash
                     /\ Stop(u, fails)
  /\ UNCHANGED <<bbt, databuf, lockVars, bootVars, out, tainted, countVars>>

(* nand_erase_nand, one block.                                             *)
InBlockOf(p) == {q \in Page : Block(q) = Block(p)}
EraseBlock(u) ==
  /\ Running(u, {"erase"})
  /\ LET c == req[u].chip
         p == req[u].next
     IN  IF Block(p) \in bbt[c]
           THEN Stop(u, TRUE) /\ UNCHANGED <<flash, pagebuf>>
           ELSE /\ pagebuf' = IF pagebuf[c] \in InBlockOf(p)
                                THEN [pagebuf EXCEPT ![c] = NoPage] ELSE pagebuf
                /\ \E fails \in BOOLEAN :
                     /\ flash' = [flash EXCEPT ![c] =
                                    [q \in Page |-> IF q \notin InBlockOf(p) THEN @[q]
                                                    ELSE [NewPage EXCEPT !.spoiled = fails]]]
                     /\ IF fails THEN Stop(u, TRUE) ELSE Advance(u, BlockPages, FALSE)
  /\ UNCHANGED <<bbt, databuf, oob_poi, lockVars, bootVars, out, tainted, countVars>>

(* The medium: bits decay.                                                 *)
Decay ==
  /\ \E c \in Chips, p \in Decaying :
       /\ ~flash[c][p].spoiled
       /\ flash' = [flash EXCEPT ![c][p] = Spoiled(@)]
  /\ UNCHANGED <<bbt, bufferVars, lockVars, bootVars, taskVars, countVars>>

(* The kernel is restarted at any moment: all but the flash starts anew.   *)
Restart ==
  /\ restarts < MaxRestarts /\ phase = "up"
  /\ restarts' = restarts + 1
  /\ bbt' = [c \in Chips |-> {}]
  /\ databuf' = [data |-> Blank, spoiled |-> FALSE]
  /\ oob_poi' = FALSE
  /\ pagebuf' = [c \in Chips |-> NoPage]
  /\ active' = NoChip
  /\ state' = [c \in Chips |-> "FL_READY"]
  /\ phase' = "scan" /\ scanned' = 0
  /\ pc' = [u \in Users |-> "idle"]
  /\ req' = [u \in Users |-> NoRequest]
  /\ out' = [u \in Users |-> Blank]
  /\ tainted' = [u \in Users |-> FALSE]
  /\ failed' = [u \in Users |-> FALSE]
  /\ UNCHANGED <<flash, requests>>

Work(u) == ReadPage(u) \/ ReadOob(u) \/ WritePage(u) \/ WriteOob(u) \/ EraseBlock(u)
Step(u) == GetDevice(u) \/ Work(u) \/ ReleaseDevice(u)

Next ==
  \/ ScanBlock \/ ScanDone \/ Decay \/ Restart
  \/ \E u \in Users : Ask(u) \/ MarkBad(u) \/ Step(u)

Spec == Init /\ [][Next]_vars

(* A runnable task runs.                                                   *)
FairSpec == Spec /\ \A u \in Users : WF_vars(Step(u))
-----------------------------------------------------------------------------
TypeOK ==
  /\ flash \in [Chips -> [Page -> PageType]]
  /\ bbt \in [Chips -> SUBSET Blocks]
  /\ databuf \in [data : Data \union {Blank}, spoiled : BOOLEAN]
  /\ oob_poi \in BOOLEAN
  /\ pagebuf \in [Chips -> Page \union {NoPage}]
  /\ active \in Chips \union {NoChip}
  /\ state \in [Chips -> FlBusy \union {"FL_READY"}]
  /\ phase \in {"scan", "up", "failed"} /\ scanned \in Nat
  /\ pc \in [Users -> {"idle", "get", "asleep", "run", "release"}]
  /\ req \in [Users -> RequestType \union {NoRequest}]
  /\ \A u \in Users : pc[u] # "idle" => req[u] \in RequestType
  /\ out \in [Users -> Data \union {Blank}]
  /\ tainted \in [Users -> BOOLEAN] /\ failed \in [Users -> BOOLEAN]

(* The lock of the controller: two tasks are never inside the driver at    *)
(* once, whichever nand_chip they came through.                            *)
Holds(u) == pc[u] \in {"run", "release"}
Exclusive == \A u, v \in Users : Holds(u) /\ Holds(v) => u = v

(* No task sleeps in nand_get_device while nobody holds the device: the    *)
(* test and the queueing are one step under the spin lock, and a release   *)
(* wakes the waiters of both nand_chips.                                   *)
SleepersWillWake ==
  (\E u \in Users : pc[u] = "asleep") => \E u \in Users : Holds(u)

(* "@pagebuf: [INTERN] holds the pagenumber which is currently in          *)
(* data_buf" (include/linux/mtd/nand.h).                                   *)
PagebufTrue ==
  \A c \in Chips : pagebuf[c] # NoPage => databuf.data = flash[c][pagebuf[c]].data

(* A page given to a reader is what the flash holds at that moment.        *)
ReadsCurrent ==
  [][\A u \in Users : ReadPage(u) =>
       out'[u] = flash[req[u].chip][req[u].next].data]_vars

(* A bad block mark on the flash belongs to a block of the bad block       *)
(* table: no good block is lost at the next start, no marked one erased.   *)
MarkedIsKnown ==
  phase = "up" =>
    \A c \in Chips, p \in Page : flash[c][p].mark => Block(p) \in bbt[c]

(* A request ends, unless the kernel is restarted.                         *)
Served == \A u \in Users : pc[u] # "idle" ~> pc[u] = "idle"
=============================================================================
