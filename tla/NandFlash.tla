------------------------------ MODULE NandFlash ------------------------------
(***************************************************************************)
(* The large-page NAND flash chip of the emulated board, as                *)
(* qemu-NP/hw/nand_bpage.c emulates it over a raw image file: the Samsung  *)
(* K9K8G08U0 (0xec, 0xd3), 8 bits wide, that mips_pavo.c instantiates.     *)
(*                                                                         *)
(* The guest reaches the chip one bus cycle at a time: it latches a        *)
(* command, latches address bytes, reads or writes data bytes.  Every      *)
(* cycle is one action.  The image file is a sequence of cells whose       *)
(* LENGTH is state: the file grows when the emulator writes past its end,  *)
(* and the length is checked when the emulator starts.  The emulator may   *)
(* be stopped between two cycles and in the middle of one.                 *)
(*                                                                         *)
(* A byte is a cell, a symbol; the geometry (sector, page, out-of-band     *)
(* area, block, chip, range of an address byte) is a parameter.            *)
(***************************************************************************)
EXTENDS Integers

CONSTANTS
  SectorSize,    \* bytes of a host sector, 0x200
  PageSectors,   \* sectors of the data area of a page, page_sectors
  OobSize,       \* bytes of the out-of-band area of a page, oob_size
  BlockPages,    \* pages of an erase block, block_pages
  Pages,         \* pages of the chip, pages
  Base,          \* values of an address byte, 256
  Data,          \* symbols the guest writes
  InitialImages  \* contents the image file may have at first

PageSize == PageSectors * SectorSize
PageOob  == PageSize + OobSize          \* page_oob_size
BlockOob == BlockPages * PageOob
ImageSize == Pages * PageOob            \* the length nandb_init requires
IoSize   == PageOob + 2 * SectorSize    \* io[MAX_PAGE + MAX_OOB + 0x400]
ColSpan  == Base * Base                 \* PAGE_MASK + 1

ASSUME NandGeometry ==
  /\ SectorSize \in Nat \ {0}  /\ PageSectors \in Nat \ {0}
  /\ OobSize \in Nat \ {0}     /\ OobSize <= SectorSize
  /\ BlockPages \in Nat \ {0}  /\ Pages \in Nat \ {0}
  /\ Base \in Nat \ {0, 1}     /\ 5 <= PageOob /\ PageOob <= ColSpan
  /\ \E n \in 2 .. BlockOob : BlockOob = n * SectorSize
  /\ \E n \in 1 .. Pages : Pages = n * BlockPages

Erased == "ff"
Zero   == "00"
Ready  == "st"                          \* status 0xc0: ready, not protected
IdBytes == <<"ec", "d3", "Q", "95", "48">>
Cell == Data \union {Erased, Zero, Ready, "ec", "d3", "Q", "95", "48"}

ASSUME ImagesAreCells == InitialImages \subseteq [0 .. ImageSize - 1 -> Cell]

Command == {"READ0", "RNDOUT", "ERASE1", "READSTART", "RNDOUTSTART",
            "CACHEREAD", "CACHELAST", "READID", "STATUS", "ERASE2",
            "SEQIN", "RNDIN", "PAGEPROG", "RESET"}
ReadCommand == {"READSTART", "RNDOUTSTART", "CACHEREAD", "CACHELAST"}

NullPtr == -1

VARIABLES
  running,       \* the emulator process is alive
  imageLength,   \* length of the image file
  image,         \* its bytes
  io,            \* the page buffer
  ioaddr,        \* index of the next byte to read, or NullPtr
  iolen,         \* bytes left to read, or bytes received for a program
  addr,          \* the address register: column + ColSpan * row
  addr_cycle,    \* address bytes latched so far
  cmd            \* the last command

mediaVars == <<imageLength, image>>
bufVars   == <<io, ioaddr, iolen>>
chipVars  == <<io, ioaddr, iolen, addr, addr_cycle, cmd>>
nandVars  == <<running, imageLength, image, io, ioaddr, iolen, addr,
               addr_cycle, cmd>>

Column(a) == a % ColSpan
Row(a)    == a \div ColSpan             \* get_page_number
Offset(a) == Row(a) * PageOob + Column(a)
SectorOf(off) == off \div SectorSize

(* Address byte number i replaced by v; bytes 0 and 1 are the column.      *)
Weight(i) == <<1, Base, Base * Base, Base * Base * Base,
               Base * Base * Base * Base>>[i + 1]
SetByte(a, i, v) ==
  (a \div (Weight(i) * Base)) * (Weight(i) * Base) + v * Weight(i)
    + (a % Weight(i))

(***************************************************************************)
(* Host file access.  The window of a page operation is PageSectors + 2    *)
(* sectors: one more for the out-of-band bytes, one because a page need    *)
(* not start on a sector boundary.                                         *)
(***************************************************************************)
Window == (PageSectors + 2) * SectorSize

(* nandb_blk_load: the page buffer and the read pointer once the window    *)
(* that holds address a has been read.  A row past the chip loads nothing; *)
(* a read at the end of the file returns what there is and goes unnoticed. *)
LoadedIo(a) ==
  LET base == SectorOf(Offset(a)) * SectorSize
  IN  IF Row(a) >= Pages THEN io
      ELSE [j \in 0 .. IoSize - 1 |->
              IF j < Window /\ base + j < imageLength
                THEN image[base + j] ELSE io[j]]
\* Mutant of LoadedPtr: the offset of the page in its first sector is forgotten.
LoadedPtr_AtStart(a) == IF Row(a) >= Pages THEN ioaddr ELSE 0

LoadedPtr(a) == IF Row(a) >= Pages THEN ioaddr ELSE Offset(a) % SectorSize

(* nand_blk_write: the window is read, patched with the bytes received and *)
(* written back; the file grows when the window passes its end.            *)
ProgrammedLength(a) ==
  LET end == SectorOf(Offset(a)) * SectorSize + Window
  IN  IF end > imageLength THEN end ELSE imageLength
\* Mutant of Programmed: the bytes go to the start of the sector.
Programmed_AtSector(a, n) ==
  LET from == SectorOf(Offset(a)) * SectorSize
  IN  [i \in 0 .. ProgrammedLength(a) - 1 |->
         IF from <= i /\ i < from + n THEN io[i - from]
         ELSE IF i < imageLength THEN image[i] ELSE Zero]

Programmed(a, n) ==
  [i \in 0 .. ProgrammedLength(a) - 1 |->
     IF Offset(a) <= i /\ i < Offset(a) + n THEN io[i - Offset(a)]
     ELSE IF i < imageLength THEN image[i] ELSE Zero]

\* Mutant of ErasedBytes: the loop bound is the end of the block, one sector too far.
ErasedBytes_LongLoop(s) ==
  LET last == ((s + BlockOob + SectorSize - 1) \div SectorSize) * SectorSize
  IN  s .. last + ((s + BlockOob - 1) % SectorSize)

(* nandb_blk_erase: the bytes the head of the first sector, the loop over  *)
(* whole sectors and the last sector set to 0xff, for a block that starts  *)
(* at byte s of the file.                                                  *)
ErasedBytes(s) ==
  LET second == (s \div SectorSize + 1) * SectorSize
      limit  == s + BlockOob - SectorSize
      last   == ((limit + SectorSize - 1) \div SectorSize) * SectorSize
  IN  (s .. second - 1) \union (second .. last - 1)
        \union (last .. last + ((limit - 1) % SectorSize))

(* The image once the block at address b is erased.                        *)
ErasedImage(b) ==
  IF Row(b) >= Pages THEN image
  ELSE [i \in DOMAIN image |->
          IF i \in ErasedBytes(Row(b) * PageOob) THEN Erased ELSE image[i]]

-----------------------------------------------------------------------------
(* nandb_init on an image of the right length: everything is zeroed.       *)
PowerUp ==
  /\ io' = [j \in 0 .. IoSize - 1 |-> Zero]
  /\ ioaddr' = NullPtr
  /\ iolen' = 0
  /\ addr' = 0
  /\ addr_cycle' = 0
  /\ cmd' = "READ0"

NandInit ==
  /\ running = TRUE
  /\ imageLength = ImageSize
  /\ image \in InitialImages
  /\ io = [j \in 0 .. IoSize - 1 |-> Zero]
  /\ ioaddr = NullPtr
  /\ iolen = 0
  /\ addr = 0
  /\ addr_cycle = 0
  /\ cmd = "READ0"

(* The emulator is started again: it exits when the image does not have    *)
(* the length of the chip.                                                 *)
StartAgain ==
  IF imageLength' = ImageSize
    THEN running' = TRUE /\ PowerUp
    ELSE running' = FALSE /\ UNCHANGED chipVars

(* The emulator is stopped, between two cycles, and started again.         *)
NandRestart == UNCHANGED mediaVars /\ StartAgain

(* exit(-1), or the host's end of the process on a wild access.            *)
Exit == running' = FALSE /\ UNCHANGED <<mediaVars, chipVars>>

\* Mutant of StartAddress: the address cycle is not reset.
StartAddress_KeepsCycle(c) ==
  /\ c \in {"READ0", "RNDOUT"}
  /\ iolen' = 0
  /\ UNCHANGED <<mediaVars, io, ioaddr, addr, addr_cycle>>

(* nandb_write_command: one disjunct per group of cases.                   *)
StartAddress(c) ==
  /\ c \in {"READ0", "RNDOUT"}
  /\ iolen' = 0 /\ addr_cycle' = 0
  /\ UNCHANGED <<mediaVars, io, ioaddr, addr>>

\* Mutant of StartErase: the cycle is advanced, not set.
StartErase_Accumulates(c) ==
  /\ c = "ERASE1"
  /\ addr' = ColSpan * (Row(addr) % ColSpan)
  /\ addr_cycle' = addr_cycle + 2
  /\ UNCHANGED <<mediaVars, bufVars>>

StartErase(c) ==
  /\ c = "ERASE1"
  /\ addr' = ColSpan * (Row(addr) % ColSpan)
  /\ addr_cycle' = 2
  /\ UNCHANGED <<mediaVars, bufVars>>

LoadFrom(a) ==
  /\ addr' = a
  /\ iolen' = PageOob - Column(a)
  /\ io' = LoadedIo(a)
  /\ ioaddr' = LoadedPtr(a)
  /\ UNCHANGED <<mediaVars, addr_cycle>>

LoadPage(c) == c \in {"READSTART", "RNDOUTSTART"} /\ LoadFrom(addr)

NextPage(a) == a + ColSpan              \* nandb_next_page

LoadNextPage(c) ==
  c \in {"CACHEREAD", "CACHELAST"} /\ LoadFrom(NextPage(addr))

LoadId(c) ==
  /\ c = "READID"
  /\ io' = [j \in 0 .. IoSize - 1 |-> IF j < 5 THEN IdBytes[j + 1] ELSE io[j]]
  /\ ioaddr' = 0 /\ iolen' = 5 /\ addr_cycle' = 0
  /\ UNCHANGED <<mediaVars, addr>>

\* Mutant of LoadStatus: the read pointer is not moved to the status.
LoadStatus_KeepsPointer(c) ==
  /\ c = "STATUS"
  /\ io' = [io EXCEPT ![0] = Ready]
  /\ iolen' = 1
  /\ UNCHANGED <<mediaVars, ioaddr, addr, addr_cycle>>

LoadStatus(c) ==
  /\ c = "STATUS"
  /\ io' = [io EXCEPT ![0] = Ready]
  /\ ioaddr' = 0 /\ iolen' = 1
  /\ UNCHANGED <<mediaVars, addr, addr_cycle>>

\* Mutant of StartProgram: the count of bytes received is not reset.
StartProgram_KeepsCount(c) ==
  /\ c \in {"SEQIN", "RNDIN"}
  /\ addr_cycle' = 0 /\ ioaddr' = 0
  /\ UNCHANGED <<mediaVars, io, iolen, addr>>

StartProgram(c) ==
  /\ c \in {"SEQIN", "RNDIN"}
  /\ addr_cycle' = 0 /\ ioaddr' = 0 /\ iolen' = 0
  /\ UNCHANGED <<mediaVars, io, addr>>

(* memcpy takes a negative iolen for a huge length: see CommandExit.       *)
Program(c) ==
  /\ c = "PAGEPROG"
  /\ Row(addr) >= Pages \/ iolen >= 0
  /\ IF Row(addr) >= Pages
       THEN UNCHANGED mediaVars
       ELSE /\ imageLength' = ProgrammedLength(addr)
            /\ image' = Programmed(addr, iolen)
  /\ UNCHANGED <<bufVars, addr, addr_cycle>>

BlockAddress(a) == ColSpan * (Row(a) - (Row(a) % BlockPages))

Erase(c) ==
  /\ c = "ERASE2"
  /\ addr' = BlockAddress(addr)
  /\ image' = ErasedImage(BlockAddress(addr))
  /\ UNCHANGED <<imageLength, bufVars, addr_cycle>>

ResetChip(c) ==
  /\ c = "RESET"
  /\ addr_cycle' = 0 /\ iolen' = 0 /\ addr' = 0 /\ ioaddr' = NullPtr
  /\ UNCHANGED <<mediaVars, io>>

KnownCommand(c) ==
  /\ cmd' = c
  /\ UNCHANGED running
  /\ \/ StartAddress(c) \/ StartErase(c) \/ LoadPage(c) \/ LoadNextPage(c)
     \/ LoadId(c) \/ LoadStatus(c) \/ StartProgram(c) \/ Program(c)
     \/ Erase(c) \/ ResetChip(c)

CommandExit(c) ==
  /\ \/ c \notin Command
     \/ c = "PAGEPROG" /\ Row(addr) < Pages /\ iolen < 0
  /\ Exit

WriteCommand(c) == running /\ (KnownCommand(c) \/ CommandExit(c))

(* The emulator is stopped inside nand_blk_write or nandb_blk_erase, and   *)
(* started again.  Both go through the file upwards, by whole sectors: the *)
(* file is new up to a sector, which may be none or all, and old from it.  *)
WrittenUpTo(n, new) ==
  /\ imageLength' = IF n > imageLength THEN n ELSE imageLength
  /\ image' = [i \in 0 .. imageLength' - 1 |-> IF i < n THEN new[i] ELSE image[i]]

SectorEnds(length) == {n \in 0 .. length : n % SectorSize = 0}

StoppedDuring(c) ==
  /\ running
  /\ \/ /\ c = "PAGEPROG" /\ Row(addr) < Pages /\ iolen >= 0
        /\ \E n \in SectorEnds(ProgrammedLength(addr)) :
             WrittenUpTo(n, Programmed(addr, iolen))
     \/ /\ c = "ERASE2"
        /\ \E n \in SectorEnds(imageLength) :
             WrittenUpTo(n, ErasedImage(BlockAddress(addr)))
  /\ StartAgain

(* nandb_write_address, on the 8-bit bus.                                  *)
WriteAddress(v) ==
  /\ running
  /\ IF addr_cycle < 5
       THEN /\ addr' = SetByte(addr, addr_cycle, v)
            /\ addr_cycle' = addr_cycle + 1
            /\ UNCHANGED <<running, mediaVars, bufVars, cmd>>
       ELSE Exit

(* nandb_read_data8: v is the byte returned.  Past the page buffer it is   *)
(* whatever the host memory holds; the status byte can be read again; a    *)
(* cached read goes on with the next page.  With nothing left to read the  *)
(* emulator exits (v is then of no account).                               *)
Continues == iolen = 0 /\ cmd = "CACHEREAD"

Fetch(v, buf, ptr, n, a) ==
  IF n <= 0 \/ ptr = NullPtr THEN v = Zero /\ Exit
  ELSE /\ v \in (IF ptr < IoSize THEN {buf[ptr]} ELSE Cell)
       /\ io' = buf /\ addr' = a
       /\ iolen' = IF cmd = "STATUS" THEN n ELSE n - 1
       /\ ioaddr' = IF cmd = "STATUS" THEN ptr ELSE ptr + 1
       /\ UNCHANGED <<running, mediaVars, addr_cycle, cmd>>

ReadData(v) ==
  /\ running
  /\ LET a == NextPage(addr)
     IN  IF Continues THEN Fetch(v, LoadedIo(a), LoadedPtr(a), PageOob - Column(a), a)
         ELSE Fetch(v, io, ioaddr, iolen, addr)

(* nandb_write_data8: bytes are taken only after SEQIN, up to a page.      *)
WriteData(v) ==
  /\ running
  /\ IF cmd = "SEQIN" /\ iolen < PageOob
       THEN io' = [io EXCEPT ![iolen] = v] /\ iolen' = iolen + 1
       ELSE UNCHANGED <<io, iolen>>
  /\ UNCHANGED <<running, mediaVars, ioaddr, addr, addr_cycle, cmd>>

(* Any bus master: commands the chip does not know are UnknownCommand.     *)
UnknownCommand == "11"

NandCycle ==
  \/ \E c \in Command \union {UnknownCommand} : WriteCommand(c)
  \/ \E v \in 0 .. Base - 1 : WriteAddress(v)
  \/ \E v \in Cell : ReadData(v)
  \/ \E v \in Data : WriteData(v)

StoppedInside == \E c \in {"PAGEPROG", "ERASE2"} : StoppedDuring(c)

NandNext == NandCycle \/ NandRestart \/ StoppedInside

NandSpec == NandInit /\ [][NandNext]_nandVars

-----------------------------------------------------------------------------
NandTypeOK ==
  /\ running \in BOOLEAN
  /\ imageLength \in Nat
  /\ image \in [0 .. imageLength - 1 -> Cell]
  /\ io \in [0 .. IoSize - 1 -> Cell]
  /\ ioaddr \in Nat \union {NullPtr}
  /\ iolen \in Int
  /\ addr \in Nat
  /\ addr_cycle \in 0 .. 5
  /\ cmd \in Command

(* The page buffer is large enough: no sequence of bus cycles makes a data *)
(* byte land outside io (nandb_write_data8 checks iolen, which other       *)
(* commands set), or leaves more to read than a page.                      *)
BufferFits ==
  /\ iolen <= PageOob
  /\ cmd = "SEQIN" => iolen >= 0

(* nandb_blk_erase works in 512-byte sectors on blocks of 2112-byte pages: *)
(* the read-modify-write of the first and last sector, and the loop        *)
(* between them, set exactly the bytes of the addressed block to 0xff.     *)
EraseExact ==
  [][WriteCommand("ERASE2") /\ Row(addr) < Pages =>
       \A i \in 0 .. imageLength - 1 :
         image'[i] = IF i \div BlockOob = Row(addr) \div BlockPages
                       THEN Erased ELSE image[i]]_nandVars

(* The bytes that a step changes.                                          *)
Changed == {i \in 0 .. imageLength - 1 : image'[i] # image[i]}

(* No cycle, no start and no stop of the emulator in the middle of its     *)
(* writes changes a byte of the image outside the page that is programmed  *)
(* or the block that is erased, although the windows written back reach    *)
(* into others; only a program that does not stay in its page may.         *)
OnlyTargetChanges ==
  [][\/ \A i \in Changed : i \div PageOob = Row(addr)
     \/ \A i \in Changed :
          i \div BlockOob = Row(addr) \div BlockPages /\ image'[i] = Erased
     \/ Column(addr) + iolen > PageOob]_nandVars

(* Whatever window the load reads, the bytes the guest will read are those *)
(* of the addressed page, from the addressed column to its end, and they   *)
(* are all inside the page buffer.                                         *)
LoadExact ==
  [][\A c \in ReadCommand :
       WriteCommand(c) /\ Row(addr') < Pages /\ Column(addr') < PageOob =>
         \A k \in 0 .. iolen' - 1 :
           /\ ioaddr' + k < IoSize
           /\ io'[ioaddr' + k] = image[Offset(addr') + k]]_nandVars
=============================================================================
