------------------------------ MODULE NandDriver ------------------------------
(***************************************************************************)
(* The kernel's NAND driver (drivers/mtd/nand/nand_base.c with the board   *)
(* part jz4740_nand.c), the boot reader of mips_pavo.c and the loader of   *)
(* the boot loader (nand_spl/nand_boot_jz4740.c), driving the emulated     *)
(* chip of NandFlash cycle by cycle.                                       *)
(*                                                                         *)
(* A request of the MTD layer becomes a script, the bus cycles its         *)
(* functions issue in order; the device lock (nand_get_device) lets one    *)
(* request at a time use the bus.  The chip is reached through two MTD     *)
(* devices: jz_mtd1, page by page, and jz_mtd, which pairs the blocks of   *)
(* two planes (operations "read2", "write2", "erase2").                    *)
(***************************************************************************)
EXTENDS NandFlash, Sequences

CONSTANTS
  Ops,           \* the operations the MTD users issue
  PageData,      \* contents of a page, sequences of PageSize symbols
  OobData,       \* contents of an out-of-band area
  MaxRequests,   \* bound: requests issued
  MaxRestarts    \* bound: times the emulator is stopped and started

(* What the driver relies on: its three row bytes name every page, and the *)
(* planes that jz_mtd pairs are made of whole blocks.                      *)
ASSUME DriverGeometry ==
  /\ Pages <= Base * Base * Base
  /\ "read2" \in Ops => \E n \in 1 .. Pages : Pages = 2 * BlockPages * n

ASSUME RequestData ==
  /\ PageData \subseteq [1 .. PageSize -> Data] /\ OobData \subseteq [1 .. OobSize -> Data]
  /\ MaxRequests \in Nat /\ MaxRestarts \in Nat

VARIABLES
  request,       \* the request that holds the device, or None
  script,        \* its bus cycles still to be issued
  got,           \* bytes read for it so far
  reply,         \* answer to the last request: <<data, oob>>
  issued, restarts

driverVars == <<request, script, got, reply, issued, restarts>>
vars == <<nandVars, driverVars>>

None == [op |-> "none"]
Boot == [op |-> "boot"]
Req(op, p, d, o) == [op |-> op, page |-> p, data |-> d, oob |-> o]

(* Pages of jz_mtd are half as many; an erase names a block's first page.  *)
Requests ==
  {r \in
     {Req(op, p, <<>>, <<>>) : op \in {"read", "readoob", "load"}, p \in 0 .. Pages - 1}
     \union {Req(op, 0, <<>>, <<>>) : op \in {"identify", "query"}}
     \union {Req("write", p, d, o) : p \in 0 .. Pages - 1, d \in PageData, o \in OobData}
     \union {Req("writeoob", p, <<>>, o) : p \in 0 .. Pages - 1, o \in OobData}
     \union {Req("erase", p, <<>>, <<>>) : p \in {q \in 0 .. Pages - 1 : q % BlockPages = 0}}
     \union {Req("read2", p, <<>>, <<>>) : p \in 0 .. (Pages \div 2) - 1}
     \union {Req("write2", p, d \o d, o \o o) :
               p \in 0 .. (Pages \div 2) - 1, d \in PageData, o \in OobData}
     \union {Req("erase2", p, <<>>, <<>>) :
               p \in {q \in 0 .. (Pages \div 2) - 1 : q % BlockPages = 0}}
   : r.op \in Ops}

-----------------------------------------------------------------------------
(* Scripts: what chip->cmdfunc, read_buf and write_buf put on the bus.     *)
Latch(c)  == <<[kind |-> "cmd", arg |-> c]>>
Col(c)    == <<[kind |-> "addr", arg |-> c % Base],
               [kind |-> "addr", arg |-> c \div Base]>>
RowOf(p)  == <<[kind |-> "addr", arg |-> p % Base],
               [kind |-> "addr", arg |-> (p \div Base) % Base],
               [kind |-> "addr", arg |-> (p \div (Base * Base)) % Base]>>
Reads(n)  == [i \in 1 .. n |-> [kind |-> "read"]]
Writes(s) == [i \in 1 .. Len(s) |-> [kind |-> "write", arg |-> s[i]]]
Status    == Latch("STATUS") \o <<[kind |-> "status"]>>

(* READOOB is emulated by READ0 with the column past the data; the data is *)
(* then fetched by changing the column (nand_read_page_hwecc_rs).          *)
ReadOobScript(p) ==
  Latch("READ0") \o Col(PageSize) \o RowOf(p) \o Latch("READSTART") \o Reads(OobSize)
ReadScript(p) ==
  ReadOobScript(p) \o Latch("RNDOUT") \o Col(0) \o Latch("RNDOUTSTART") \o Reads(PageSize)

WriteScript(p, d, o) ==
  Status \o Latch("SEQIN") \o Col(0) \o RowOf(p) \o Writes(d) \o Writes(o)
    \o Latch("PAGEPROG") \o Status
\* Mutant of WriteOobScript: the column of the out-of-band area is forgotten.
WriteOobScript_AtData(p, o) ==
  Latch("RESET") \o Status \o Latch("SEQIN") \o Col(0) \o RowOf(p)
    \o Writes(o) \o Latch("PAGEPROG") \o Status

WriteOobScript(p, o) ==
  Latch("RESET") \o Status \o Latch("SEQIN") \o Col(PageSize) \o RowOf(p)
    \o Writes(o) \o Latch("PAGEPROG") \o Status
EraseScript(p) ==
  Status \o Latch("ERASE1") \o RowOf(p) \o Latch("ERASE2") \o Status

(* nand_get_flash_type, and nand_query_4740 of the loader.                 *)
IdentifyScript == Latch("READID") \o <<[kind |-> "addr", arg |-> 0]>> \o Reads(5)
QueryScript == Latch("RESET") \o IdentifyScript

(* nand_read_page of the loader: the page is loaded a second time for its  *)
(* data.                                                                   *)
LoadScript(p) ==
  ReadOobScript(p) \o Latch("READ0") \o Col(0) \o RowOf(p) \o Latch("READSTART")
    \o Reads(PageSize)

(* The two-plane versions; the first address carries only the top bit of   *)
(* the page number (realplanenum is 4).                                    *)
TwinPage(g) == (g \div BlockPages) * BlockPages + g
TopBit(p) == IF p >= Pages \div 2 THEN Pages \div 2 ELSE 0

ReadPlanesScript(g) ==
  ReadScript(TwinPage(g)) \o ReadScript(TwinPage(g) + BlockPages)
WritePlanesScript(g, d, o) ==
  Status
    \o Latch("SEQIN") \o Col(0) \o RowOf(TopBit(TwinPage(g)))
    \o Writes(SubSeq(d, 1, PageSize)) \o Writes(SubSeq(o, 1, OobSize))
    \o Latch("11")
    \o Latch("81") \o Col(0) \o RowOf(TwinPage(g) + BlockPages)
    \o Writes(SubSeq(d, PageSize + 1, 2 * PageSize))
    \o Writes(SubSeq(o, OobSize + 1, 2 * OobSize))
    \o Latch("PAGEPROG") \o Status
ErasePlanesScript(g) ==
  LET p == TwinPage(g) + BlockPages
  IN  Status \o Latch("ERASE1") \o RowOf(TopBit(TwinPage(g)))
        \o Latch("ERASE1") \o RowOf(p - (p % BlockPages)) \o Latch("ERASE2") \o Status

(* pavo_boot_from_nand, shortened to the first of its four pages.          *)
BootScript ==
  Latch("READ0") \o Col(0) \o RowOf(0) \o Latch("READSTART") \o Reads(PageSize)

Script(r) ==
  CASE r.op = "boot"     -> BootScript
    [] r.op = "read"     -> ReadScript(r.page)
    [] r.op = "readoob"  -> ReadOobScript(r.page)
    [] r.op = "write"    -> WriteScript(r.page, r.data, r.oob)
    [] r.op = "writeoob" -> WriteOobScript(r.page, r.oob)
    [] r.op = "erase"    -> EraseScript(r.page)
    [] r.op = "load"     -> LoadScript(r.page)
    [] r.op = "identify" -> IdentifyScript
    [] r.op = "query"    -> QueryScript
    [] r.op = "read2"    -> ReadPlanesScript(r.page)
    [] r.op = "write2"   -> WritePlanesScript(r.page, r.data, r.oob)
    [] r.op = "erase2"   -> ErasePlanesScript(r.page)

(* The buffers handed back, from the bytes in the order they were read.    *)
Part(from, n) == SubSeq(got, from, from + n - 1)
Buffers(r) ==
  CASE r.op \in {"boot", "identify", "query"} -> <<got, <<>>>>
    [] r.op \in {"read", "load"} -> <<Part(OobSize + 1, PageSize), Part(1, OobSize)>>
    [] r.op = "readoob" -> <<<<>>, got>>
    [] r.op = "read2"   -> <<Part(OobSize + 1, PageSize)
                               \o Part(PageOob + OobSize + 1, PageSize),
                             Part(1, OobSize) \o Part(PageOob + 1, OobSize)>>
    [] OTHER            -> <<<<>>, <<>>>>

-----------------------------------------------------------------------------
Init ==
  /\ NandInit
  /\ request = Boot
  /\ script = BootScript
  /\ got = <<>>
  /\ reply = <<<<>>, <<>>>>
  /\ issued = 0
  /\ restarts = 0

Issue ==
  /\ running /\ request = None /\ issued < MaxRequests
  /\ \E r \in Requests : request' = r /\ script' = Script(r)
  /\ issued' = issued + 1
  /\ UNCHANGED <<nandVars, got, reply, restarts>>

Pending(kinds) == script # <<>> /\ Head(script).kind \in kinds
Advance == script' = Tail(script)

CommandCycle ==
  /\ Pending({"cmd"})
  /\ WriteCommand(Head(script).arg)
  /\ Advance
  /\ UNCHANGED <<request, got, reply, issued, restarts>>

AddressCycle ==
  /\ Pending({"addr"})
  /\ WriteAddress(Head(script).arg)
  /\ Advance
  /\ UNCHANGED <<request, got, reply, issued, restarts>>

WriteCycle ==
  /\ Pending({"write"})
  /\ WriteData(Head(script).arg)
  /\ Advance
  /\ UNCHANGED <<request, got, reply, issued, restarts>>

ReadCycle ==
  /\ Pending({"read"})
  /\ \E v \in Cell : ReadData(v) /\ got' = Append(got, v)
  /\ Advance
  /\ UNCHANGED <<request, reply, issued, restarts>>

(* nand_check_wp and nand_wait: the status byte.  A chip that is not ready *)
(* or is protected fails the request (-EIO).                               *)
StatusCycle ==
  /\ Pending({"status"})
  /\ \E v \in Cell :
       /\ ReadData(v)
       /\ script' = IF v = Ready THEN Tail(script) ELSE <<>>
       /\ reply' = IF v = Ready THEN reply ELSE <<<<"EIO">>, <<>>>>
       /\ request' = IF v = Ready THEN request ELSE None
  /\ UNCHANGED <<got, issued, restarts>>

\* Mutant of Finish: the device is not released.
Finish_KeepsDevice ==
  /\ running /\ request # None /\ script = <<>>
  /\ reply' = Buffers(request)
  /\ got' = <<>>
  /\ UNCHANGED <<nandVars, request, script, issued, restarts>>

(* nand_release_device: the buffers go to the caller.                      *)
Finish ==
  /\ running /\ request # None /\ script = <<>>
  /\ reply' = Buffers(request)
  /\ request' = None
  /\ got' = <<>>
  /\ UNCHANGED <<nandVars, script, issued, restarts>>

(* The emulator is stopped and started, between two bus cycles or in the   *)
(* middle of one: the guest starts anew.                                   *)
Restart ==
  /\ restarts < MaxRestarts
  /\ restarts' = restarts + 1
  /\ NandRestart \/ (Pending({"cmd"}) /\ StoppedDuring(Head(script).arg))
  /\ request' = Boot
  /\ script' = BootScript
  /\ got' = <<>>
  /\ UNCHANGED <<reply, issued>>

BusCycle == CommandCycle \/ AddressCycle \/ WriteCycle \/ ReadCycle \/ StatusCycle

Next == Issue \/ BusCycle \/ Finish \/ Restart

Spec == Init /\ [][Next]_vars

(* The guest processor runs: the kernel's code issues its next bus cycle.  *)
FairSpec == Spec /\ WF_vars(BusCycle) /\ WF_vars(Finish)

-----------------------------------------------------------------------------
TypeOK ==
  /\ NandTypeOK
  /\ request \in Requests \union {None, Boot}
  /\ script \in Seq([kind : {"cmd", "addr", "write", "read", "status"}]
                    \union [kind : {"cmd"}, arg : Command \union {"11", "81"}]
                    \union [kind : {"addr"}, arg : 0 .. Base - 1]
                    \union [kind : {"write"}, arg : Data])
  /\ got \in Seq(Cell)
  /\ issued \in 0 .. MaxRequests
  /\ restarts \in 0 .. MaxRestarts

(* The kernel never makes the emulator exit: no command the chip does not  *)
(* know, no sixth address byte, no read with nothing left to read.  Only   *)
(* an image of the wrong length stops it, when it starts.                  *)
EmulatorRuns == running \/ imageLength # ImageSize

(* Every byte the guest reads lies inside the page buffer.                 *)
ReadsInBuffer ==
  running /\ Pending({"read", "status"}) => ioaddr \in 0 .. IoSize - 1

(* The image keeps the length that nandb_init checks: whatever the kernel  *)
(* programs, the emulator can be started again on the file.                *)
ImageKeepsLength == imageLength = ImageSize

(* A request ends, unless the emulator is stopped.                         *)
RequestsEnd == (running /\ request # None) ~> (request = None \/ ~running)

(* The driver over the chip implements the array of pages.  An effect has  *)
(* happened when the confirming command has left the script.               *)
Off == [op |-> "off"]
Confirming == {"PAGEPROG", "ERASE2"}
Stored ==
  [p \in 0 .. Pages - 1 |-> [k \in 0 .. PageOob - 1 |-> image[p * PageOob + k]]]
Holder == IF running THEN request ELSE Off
Confirms(x) == x.kind = "cmd" /\ x.arg \in Confirming
Effected ==
  /\ running
  /\ request.op \in {"write", "writeoob", "erase", "write2", "erase2"}
  /\ \A i \in 1 .. Len(script) : ~Confirms(script[i])
Array == INSTANCE NandArray WITH
  Identity <- IdBytes, Symbols <- Cell,
  store <- Stored, request <- Holder, done <- Effected

ImplementsArray == Array!ArraySpec
=============================================================================
