------------------------------ MODULE NandProofs ------------------------------
(***************************************************************************)
(* Theorems about the NAND chip of NandFlash, for every geometry allowed   *)
(* by NandGeometry, every image and every sequence of bus cycles.          *)
(***************************************************************************)
EXTENDS NandFlash, TLAPS

-----------------------------------------------------------------------------
(* Arithmetic.                                                             *)

LEMMA DivMod ==
  ASSUME NEW a \in Int, NEW b \in Nat \ {0}
  PROVE  /\ a % b \in 0 .. b - 1
         /\ a \div b \in Int
         /\ a = b * (a \div b) + (a % b)
  OBVIOUS

LEMMA DivNat ==
  ASSUME NEW a \in Nat, NEW b \in Nat \ {0}
  PROVE  /\ a \div b \in Nat
         /\ b * (a \div b) <= a
  OBVIOUS

LEMMA DivUnique ==
  ASSUME NEW b \in Nat \ {0}, NEW q \in Int, NEW r \in 0 .. b - 1
  PROVE  (b * q + r) \div b = q /\ (b * q + r) % b = r
  OBVIOUS

LEMMA MulNat ==
  ASSUME NEW a \in Nat, NEW b \in Nat
  PROVE  a * b \in Nat /\ (a # 0 /\ b # 0 => a * b # 0)
  OBVIOUS

LEMMA MulMono ==
  ASSUME NEW a \in Nat, NEW b \in Int, NEW c \in Int, b <= c
  PROVE  a * b <= a * c
  OBVIOUS

-----------------------------------------------------------------------------
(* The sizes derived from the geometry.                                    *)
LEMMA Sizes ==
  /\ SectorSize \in Nat \ {0}
  /\ PageSize \in Nat \ {0}
  /\ PageOob \in Nat \ {0}
  /\ PageOob >= 5
  /\ BlockPages \in Nat \ {0}
  /\ BlockOob \in Nat \ {0}
  /\ Pages \in Nat \ {0}
  /\ ImageSize \in Nat \ {0}
  /\ ColSpan \in Nat \ {0}
  /\ PageOob <= ColSpan
  /\ Window \in Nat
  /\ Window = PageSize + 2 * SectorSize
  /\ IoSize = Window + OobSize
  /\ IoSize >= PageOob
  /\ OobSize \in Nat /\ OobSize <= SectorSize
<1>1. SectorSize \in Nat \ {0} /\ PageSectors \in Nat \ {0} /\ OobSize \in Nat \ {0}
      /\ BlockPages \in Nat \ {0} /\ Pages \in Nat \ {0} /\ Base \in Nat \ {0}
      /\ OobSize <= SectorSize /\ 5 <= PageOob /\ PageOob <= ColSpan
  BY NandGeometry
<1>2. PageSize \in Nat \ {0}
  BY <1>1, MulNat DEF PageSize
<1>3. PageOob \in Nat \ {0}
  BY <1>1, <1>2 DEF PageOob
<1>4. BlockOob \in Nat \ {0} /\ ImageSize \in Nat \ {0}
  BY <1>1, <1>3, MulNat DEF BlockOob, ImageSize
<1>5. ColSpan \in Nat \ {0}
  BY <1>1, MulNat DEF ColSpan
<1>6. Window = PageSize + 2 * SectorSize
  BY <1>1 DEF Window, PageSize
<1>7. IoSize = Window + OobSize
  BY <1>1, <1>2, <1>6 DEF IoSize, PageOob
<1> QED
  BY <1>1, <1>2, <1>3, <1>4, <1>5, <1>6, <1>7 DEF PageOob

LEMMA AddressParts ==
  ASSUME NEW a \in Nat
  PROVE  /\ Column(a) \in 0 .. ColSpan - 1
         /\ Row(a) \in Nat
         /\ Offset(a) \in Nat
         /\ Offset(a) % SectorSize \in 0 .. SectorSize - 1
         /\ SectorOf(Offset(a)) * SectorSize \in Nat
         /\ Offset(a) = SectorOf(Offset(a)) * SectorSize + (Offset(a) % SectorSize)
<1>1. Column(a) \in 0 .. ColSpan - 1
  BY Sizes, DivMod DEF Column
<1>2. Row(a) \in Nat
  BY Sizes, DivNat DEF Row
<1>3. Row(a) * PageOob \in Nat
  BY <1>2, Sizes, MulNat
<1>4. Offset(a) \in Nat
  BY <1>1, <1>3, Sizes DEF Offset
<1>5. SectorOf(Offset(a)) \in Nat
  BY <1>4, Sizes, DivNat DEF SectorOf
<1>6. SectorOf(Offset(a)) * SectorSize \in Nat
  BY <1>5, Sizes, MulNat
<1>7. Offset(a) = SectorSize * (Offset(a) \div SectorSize) + (Offset(a) % SectorSize)
      /\ Offset(a) % SectorSize \in 0 .. SectorSize - 1
  <2> DEFINE o == Offset(a)
  <2>1. o \in Int
    BY <1>4
  <2> HIDE DEF o
  <2>2. o = SectorSize * (o \div SectorSize) + (o % SectorSize)
        /\ o % SectorSize \in 0 .. SectorSize - 1
    BY <2>1, Sizes, DivMod
  <2> QED
    BY <2>2 DEF o
<1>8. SectorSize * (Offset(a) \div SectorSize) = SectorOf(Offset(a)) * SectorSize
  BY <1>5, Sizes DEF SectorOf
<1> QED
  BY <1>1, <1>2, <1>4, <1>6, <1>7, <1>8

LEMMA SetByteNat ==
  ASSUME NEW a \in Nat, NEW i \in 0 .. 4, NEW v \in Nat
  PROVE  SetByte(a, i, v) \in Nat
<1>1. Base \in Nat \ {0}
  BY NandGeometry
<1>2. Weight(i) \in Nat \ {0}
  <2>1. /\ Base * Base \in Nat \ {0}
        /\ Base * Base * Base \in Nat \ {0}
        /\ Base * Base * Base * Base \in Nat \ {0}
    BY <1>1, MulNat
  <2>2. i \in {0, 1, 2, 3, 4}
    OBVIOUS
  <2> QED
    BY <1>1, <2>1, <2>2 DEF Weight
<1>3. Weight(i) * Base \in Nat \ {0}
  BY <1>1, <1>2, MulNat
<1>4. a \div (Weight(i) * Base) \in Nat
  BY <1>3, DivNat
<1>5. (a \div (Weight(i) * Base)) * (Weight(i) * Base) \in Nat
  BY <1>3, <1>4, MulNat
<1>6. v * Weight(i) \in Nat
  BY <1>2, MulNat
<1>7. a % Weight(i) \in Nat
  BY <1>2, DivMod
<1> QED
  BY <1>5, <1>6, <1>7 DEF SetByte

-----------------------------------------------------------------------------
(* The inductive invariant: types, the bounds of the page buffer, and an   *)
(* image that covers the chip.  The bound on iolen is what keeps the bytes *)
(* of a program inside the page buffer, the image's length what keeps a    *)
(* load inside the image.                                                  *)
ImageCoversChip == imageLength >= ImageSize
NandInv == NandTypeOK /\ BufferFits /\ ImageCoversChip

LEMMA CellSyms ==
  /\ Erased \in Cell /\ Zero \in Cell /\ Ready \in Cell /\ Data \subseteq Cell
  /\ \A k \in 1 .. 5 : IdBytes[k] \in Cell
<1>1. \A k \in 1 .. 5 : k \in {1, 2, 3, 4, 5}
  OBVIOUS
<1> QED
  BY <1>1 DEF Cell, Erased, Zero, Ready, IdBytes

LEMMA LoadTyped ==
  ASSUME NandInv, NEW a \in Nat
  PROVE  /\ LoadedIo(a) \in [0 .. IoSize - 1 -> Cell]
         /\ LoadedPtr(a) \in Nat \union {NullPtr}
<1>1. SectorOf(Offset(a)) * SectorSize \in Nat
  BY AddressParts
<1>2. Offset(a) % SectorSize \in Nat
  BY AddressParts
<1> DEFINE base == SectorOf(Offset(a)) * SectorSize
<1>3. base \in Nat
  BY <1>1
<1>4. LoadedIo(a) = IF Row(a) >= Pages THEN io
                    ELSE [j \in 0 .. IoSize - 1 |->
                            IF j < Window /\ base + j < imageLength
                              THEN image[base + j] ELSE io[j]]
  BY DEF LoadedIo
<1>5. Row(a) \in Nat
  BY AddressParts
<1> HIDE DEF base
<1>6. \A j \in 0 .. IoSize - 1 :
        (IF j < Window /\ base + j < imageLength THEN image[base + j] ELSE io[j]) \in Cell
  BY <1>3, Sizes DEF NandInv, NandTypeOK
<1>7. LoadedIo(a) \in [0 .. IoSize - 1 -> Cell]
  BY <1>4, <1>6 DEF NandInv, NandTypeOK
<1> QED
  BY <1>2, <1>7 DEF LoadedPtr, NandInv, NandTypeOK

LEMMA ProgramTyped ==
  ASSUME NandInv, NEW a \in Nat, iolen >= 0
  PROVE  /\ ProgrammedLength(a) \in Nat
         /\ ProgrammedLength(a) >= imageLength
         /\ Programmed(a, iolen) \in [0 .. ProgrammedLength(a) - 1 -> Cell]
<1>1. SectorOf(Offset(a)) * SectorSize \in Nat /\ Offset(a) \in Nat
  BY AddressParts
<1>2. ProgrammedLength(a) \in Nat /\ ProgrammedLength(a) >= imageLength
  BY <1>1, Sizes DEF ProgrammedLength, NandInv, NandTypeOK
<1>3. iolen \in Int /\ iolen <= PageOob
  BY DEF NandInv, NandTypeOK, BufferFits
<1>4. ASSUME NEW i \in 0 .. ProgrammedLength(a) - 1
      PROVE  (IF Offset(a) <= i /\ i < Offset(a) + iolen THEN io[i - Offset(a)]
              ELSE IF i < imageLength THEN image[i] ELSE Zero) \in Cell
  <2>1. CASE Offset(a) <= i /\ i < Offset(a) + iolen
    <3>1. i - Offset(a) \in 0 .. IoSize - 1
      BY <1>1, <1>2, <1>3, <2>1, Sizes
    <3> QED
      BY <2>1, <3>1 DEF NandInv, NandTypeOK
  <2>2. CASE ~(Offset(a) <= i /\ i < Offset(a) + iolen) /\ i < imageLength
    <3>1. i \in 0 .. imageLength - 1
      BY <1>2, <2>2 DEF NandInv, NandTypeOK
    <3> QED
      BY <2>2, <3>1 DEF NandInv, NandTypeOK
  <2>3. CASE ~(Offset(a) <= i /\ i < Offset(a) + iolen) /\ ~(i < imageLength)
    BY <2>3, CellSyms
  <2> QED
    BY <2>1, <2>2, <2>3
<1> QED
  BY <1>2, <1>4 DEF Programmed

LEMMA ErasedTyped ==
  ASSUME NandInv, NEW b
  PROVE  ErasedImage(b) \in [0 .. imageLength - 1 -> Cell]
<1>1. image \in [0 .. imageLength - 1 -> Cell] /\ Erased \in Cell
  BY CellSyms DEF NandInv, NandTypeOK
<1> QED
  BY <1>1 DEF ErasedImage

LEMMA IntervalGrows ==
  ASSUME NEW a \in Nat, NEW b \in Nat, b >= a, NEW i \in 0 .. a - 1
  PROVE  i \in 0 .. b - 1
  OBVIOUS

(* A write that has come as far as byte n, of the l bytes of new.          *)
LEMMA WrittenTyped ==
  ASSUME NandInv, NEW l \in Nat, NEW n \in 0 .. l, NEW new \in [0 .. l - 1 -> Cell],
         WrittenUpTo(n, new)
  PROVE  /\ imageLength' \in Nat /\ imageLength' >= imageLength
         /\ image' \in [0 .. imageLength' - 1 -> Cell]
         /\ \A i \in 0 .. imageLength - 1 :
              image'[i] = IF i < n THEN new[i] ELSE image[i]
<1>1. imageLength \in Nat /\ image \in [0 .. imageLength - 1 -> Cell]
  BY DEF NandInv, NandTypeOK
<1>2. imageLength' = IF n > imageLength THEN n ELSE imageLength
  BY DEF WrittenUpTo
<1>3. imageLength' \in Nat /\ imageLength' >= imageLength
  BY <1>1, <1>2
<1>4. image' = [i \in 0 .. imageLength' - 1 |-> IF i < n THEN new[i] ELSE image[i]]
  BY DEF WrittenUpTo
<1>5. ASSUME NEW i \in 0 .. imageLength' - 1
      PROVE  (IF i < n THEN new[i] ELSE image[i]) \in Cell
  <2>1. CASE i < n
    BY <1>3, <2>1
  <2>2. CASE ~(i < n)
    <3>1. i \in 0 .. imageLength - 1
      BY <1>1, <1>2, <2>2
    <3> QED
      BY <1>1, <2>2, <3>1
  <2> QED
    BY <2>1, <2>2
<1>6. image' \in [0 .. imageLength' - 1 -> Cell]
  BY <1>4, <1>5
<1>7. ASSUME NEW i \in 0 .. imageLength - 1
      PROVE  image'[i] = IF i < n THEN new[i] ELSE image[i]
  <2>1. i \in 0 .. imageLength' - 1
    BY <1>1, <1>3, IntervalGrows
  <2> QED
    BY <1>4, <2>1
<1> QED
  BY <1>3, <1>6, <1>7

(* The two writes that a stop cuts short.                                  *)
LEMMA StoppedWrites ==
  ASSUME NandInv, NEW c, StoppedDuring(c)
  PROVE  \E l \in Nat : \E n \in 0 .. l : \E new \in [0 .. l - 1 -> Cell] :
           /\ WrittenUpTo(n, new)
           /\ \/ /\ c = "PAGEPROG" /\ Row(addr) < Pages /\ iolen >= 0
                 /\ new = Programmed(addr, iolen)
              \/ c = "ERASE2" /\ l = imageLength /\ new = ErasedImage(BlockAddress(addr))
<1>1. addr \in Nat /\ imageLength \in Nat
  BY DEF NandInv, NandTypeOK
<1>2. CASE c = "PAGEPROG" /\ Row(addr) < Pages /\ iolen >= 0
           /\ \E n \in SectorEnds(ProgrammedLength(addr)) :
                WrittenUpTo(n, Programmed(addr, iolen))
  <2> DEFINE l == ProgrammedLength(addr)
             new == Programmed(addr, iolen)
  <2>1. PICK n \in SectorEnds(l) : WrittenUpTo(n, new)
    BY <1>2
  <2>2. l \in Nat /\ new \in [0 .. l - 1 -> Cell]
    BY <1>1, <1>2, ProgramTyped
  <2>3. n \in 0 .. l
    BY DEF SectorEnds
  <2> HIDE DEF l
  <2> QED
    BY <1>2, <2>1, <2>2, <2>3
<1>3. CASE c = "ERASE2" /\ \E n \in SectorEnds(imageLength) :
                             WrittenUpTo(n, ErasedImage(BlockAddress(addr)))
  <2>1. PICK n \in SectorEnds(imageLength) :
               WrittenUpTo(n, ErasedImage(BlockAddress(addr)))
    BY <1>3
  <2>2. n \in 0 .. imageLength
    BY DEF SectorEnds
  <2> QED
    BY <1>1, <1>3, <2>1, <2>2, ErasedTyped
<1> QED
  BY <1>2, <1>3 DEF StoppedDuring

LEMMA NandInitInv == NandInit => NandInv
<1> SUFFICES ASSUME NandInit PROVE NandInv
  OBVIOUS
<1>1. image \in [0 .. imageLength - 1 -> Cell]
  BY ImagesAreCells DEF NandInit
<1>2. io \in [0 .. IoSize - 1 -> Cell]
  BY CellSyms DEF NandInit
<1> QED
  BY <1>1, <1>2, Sizes
     DEF NandInit, NandInv, NandTypeOK, BufferFits, ImageCoversChip, NullPtr, Command

-----------------------------------------------------------------------------
LEMMA LoadFromInv ==
  ASSUME NandInv, NEW a \in Nat, LoadFrom(a), UNCHANGED running,
         cmd' \in Command \ {"SEQIN"}
  PROVE  NandInv'
<1>1. LoadedIo(a) \in [0 .. IoSize - 1 -> Cell] /\ LoadedPtr(a) \in Nat \union {NullPtr}
  BY LoadTyped
<1>2. Column(a) \in 0 .. ColSpan - 1
  BY AddressParts
<1> QED
  BY <1>1, <1>2, Sizes
     DEF NandInv, NandTypeOK, BufferFits, ImageCoversChip, LoadFrom, mediaVars

LEMMA BlockAddressNat ==
  ASSUME NEW a \in Nat
  PROVE  /\ BlockAddress(a) \in Nat
         /\ Row(a) - (Row(a) % BlockPages) \in Nat
<1>1. Row(a) \in Nat
  BY AddressParts
<1>2. Row(a) % BlockPages \in Nat /\ Row(a) % BlockPages <= Row(a)
  <2> DEFINE r == Row(a)
  <2>1. r \in Nat /\ BlockPages \in Nat \ {0}
    BY <1>1, Sizes
  <2> HIDE DEF r
  <2>2. r \div BlockPages \in Nat
    BY <2>1, DivNat
  <2>3. BlockPages * (r \div BlockPages) \in Nat
    BY <2>1, <2>2, MulNat
  <2>4. r % BlockPages \in Nat /\ r = BlockPages * (r \div BlockPages) + (r % BlockPages)
    BY <2>1, DivMod
  <2>5. r % BlockPages \in Nat /\ r % BlockPages <= r
    BY <2>1, <2>3, <2>4
  <2> QED
    BY <2>5 DEF r
<1>3. Row(a) - (Row(a) % BlockPages) \in Nat
  BY <1>1, <1>2
<1> QED
  BY <1>3, Sizes, MulNat DEF BlockAddress

LEMMA KnownCommandInv ==
  ASSUME NandInv, NEW c, KnownCommand(c)
  PROVE  NandInv'
<1> USE DEF NandInv, NandTypeOK, BufferFits, ImageCoversChip, KnownCommand,
            mediaVars, bufVars
<1>1. CASE StartAddress(c)
  BY <1>1, Sizes DEF StartAddress, Command
<1>2. CASE StartErase(c)
  <2>1. Row(addr) % ColSpan \in Nat
    <3> DEFINE r == Row(addr)
    <3>1. r \in Nat
      BY AddressParts
    <3> HIDE DEF r
    <3>2. r % ColSpan \in Nat
      BY <3>1, Sizes, DivMod
    <3> QED
      BY <3>2 DEF r
  <2>2. ColSpan * (Row(addr) % ColSpan) \in Nat
    BY <2>1, Sizes, MulNat
  <2> QED
    BY <1>2, <2>2 DEF StartErase, Command
<1>3. CASE LoadPage(c)
  BY <1>3, LoadFromInv DEF LoadPage, Command
<1>4. CASE LoadNextPage(c)
  <2>1. NextPage(addr) \in Nat
    BY Sizes DEF NextPage
  <2> QED
    BY <1>4, <2>1, LoadFromInv DEF LoadNextPage, Command
<1>5. CASE LoadId(c)
  <2>1. \A j \in 0 .. IoSize - 1 : j < 5 => IdBytes[j + 1] \in Cell
    BY CellSyms
  <2>2. io' \in [0 .. IoSize - 1 -> Cell]
    BY <1>5, <2>1 DEF LoadId
  <2> QED
    BY <1>5, <2>2, Sizes DEF LoadId, Command
<1>6. CASE LoadStatus(c)
  BY <1>6, CellSyms, Sizes DEF LoadStatus, Command
<1>7. CASE StartProgram(c)
  BY <1>7, Sizes DEF StartProgram, Command
<1>8. CASE Program(c)
  <2>1. CASE Row(addr) >= Pages
    BY <1>8, <2>1 DEF Program, Command
  <2>2. CASE ~(Row(addr) >= Pages)
    <3>1. iolen >= 0
      BY <1>8, <2>2 DEF Program
    <3>2. /\ ProgrammedLength(addr) \in Nat
          /\ ProgrammedLength(addr) >= imageLength
          /\ Programmed(addr, iolen) \in [0 .. ProgrammedLength(addr) - 1 -> Cell]
      BY <3>1, ProgramTyped
    <3> QED
      BY <1>8, <2>2, <3>2, Sizes DEF Program, Command
  <2> QED
    BY <2>1, <2>2
<1>9. CASE Erase(c)
  <2>1. BlockAddress(addr) \in Nat
    BY BlockAddressNat
  <2>2. image' \in [0 .. imageLength - 1 -> Cell]
    BY <1>9, ErasedTyped DEF Erase
  <2> QED
    BY <1>9, <2>1, <2>2 DEF Erase, Command
<1>10. CASE ResetChip(c)
  BY <1>10, Sizes DEF ResetChip, Command
<1> QED
  BY <1>1, <1>2, <1>3, <1>4, <1>5, <1>6, <1>7, <1>8, <1>9, <1>10

LEMMA ExitInv == NandInv /\ Exit => NandInv'
  BY DEF NandInv, NandTypeOK, BufferFits, ImageCoversChip, Exit, mediaVars, chipVars

LEMMA FetchInv ==
  ASSUME NandInv, NEW v \in Cell, NEW buf \in [0 .. IoSize - 1 -> Cell],
         NEW ptr \in Nat \union {NullPtr}, NEW n \in Int, n <= PageOob,
         NEW a \in Nat, cmd # "SEQIN" \/ n = iolen, Fetch(v, buf, ptr, n, a)
  PROVE  NandInv'
<1>1. CASE n <= 0 \/ ptr = NullPtr
  BY <1>1, ExitInv DEF Fetch
<1>2. CASE ~(n <= 0 \/ ptr = NullPtr)
  BY <1>2, Sizes
     DEF Fetch, NandInv, NandTypeOK, BufferFits, ImageCoversChip, mediaVars
<1> QED
  BY <1>1, <1>2

(* A start of the emulator, over an image no shorter than before.          *)
LEMMA StartAgainInv ==
  ASSUME NandInv, StartAgain, imageLength' \in Nat, imageLength' >= imageLength,
         image' \in [0 .. imageLength' - 1 -> Cell]
  PROVE  NandInv'
<1>1. ImageCoversChip'
  BY Sizes DEF NandInv, NandTypeOK, ImageCoversChip
<1>2. CASE imageLength' = ImageSize
  <2>1. PowerUp /\ running' = TRUE
    BY <1>2 DEF StartAgain
  <2>2. io' \in [0 .. IoSize - 1 -> Cell]
    BY <2>1, CellSyms DEF PowerUp
  <2> QED
    <3>1. NandTypeOK'
      <4>1. running' \in BOOLEAN /\ cmd' \in Command
        BY <2>1 DEF PowerUp, Command
      <4>2. ioaddr' = NullPtr /\ iolen' = 0 /\ addr' = 0 /\ addr_cycle' = 0
        BY <2>1 DEF PowerUp
      <4>3. /\ ioaddr' \in Nat \union {NullPtr} /\ iolen' \in Int
            /\ addr' \in Nat /\ addr_cycle' \in 0 .. 5
        BY <4>2
      <4> QED
        BY <2>2, <4>1, <4>3, Zenon DEF NandTypeOK
    <3>2. BufferFits'
      BY <2>1, Sizes DEF PowerUp, BufferFits
    <3> QED
      BY <1>1, <3>1, <3>2 DEF NandInv
<1>3. CASE imageLength' # ImageSize
  BY <1>1, <1>3 DEF StartAgain, NandInv, NandTypeOK, BufferFits, chipVars
<1> QED
  BY <1>2, <1>3

LEMMA NandStepInv == NandInv /\ [NandNext]_nandVars => NandInv'
<1> SUFFICES ASSUME NandInv, [NandNext]_nandVars PROVE NandInv'
  OBVIOUS
<1> USE DEF NandInv
<1>1. ASSUME NEW c \in Command \union {UnknownCommand}, WriteCommand(c)
      PROVE  NandInv'
  BY <1>1, KnownCommandInv, ExitInv DEF WriteCommand, CommandExit
<1>2. ASSUME NEW v \in 0 .. Base - 1, WriteAddress(v)
      PROVE  NandInv'
  <2>1. CASE addr_cycle < 5
    <3>1. v \in Nat /\ addr_cycle \in 0 .. 4 /\ addr \in Nat
      BY <2>1, NandGeometry DEF NandTypeOK
    <3>2. SetByte(addr, addr_cycle, v) \in Nat
      BY <3>1, SetByteNat
    <3> QED
      BY <1>2, <2>1, <3>1, <3>2
         DEF WriteAddress, NandTypeOK, BufferFits, ImageCoversChip, mediaVars, bufVars
  <2>2. CASE ~(addr_cycle < 5)
    BY <1>2, <2>2, ExitInv DEF WriteAddress
  <2> QED
    BY <2>1, <2>2
<1>3. ASSUME NEW v \in Cell, ReadData(v)
      PROVE  NandInv'
  <2>1. CASE Continues
    <3>1. NextPage(addr) \in Nat
      BY Sizes DEF NextPage, NandTypeOK
    <3>2. /\ LoadedIo(NextPage(addr)) \in [0 .. IoSize - 1 -> Cell]
          /\ LoadedPtr(NextPage(addr)) \in Nat \union {NullPtr}
      BY <3>1, LoadTyped
    <3>3. /\ PageOob - Column(NextPage(addr)) \in Int
          /\ PageOob - Column(NextPage(addr)) <= PageOob
      BY <3>1, AddressParts, Sizes
    <3>4. cmd # "SEQIN"
      BY <2>1 DEF Continues
    <3>5. Fetch(v, LoadedIo(NextPage(addr)), LoadedPtr(NextPage(addr)),
                PageOob - Column(NextPage(addr)), NextPage(addr))
      BY <1>3, <2>1 DEF ReadData
    <3> QED
      BY <3>1, <3>2, <3>3, <3>4, <3>5, FetchInv
  <2>2. CASE ~Continues
    <3>1. Fetch(v, io, ioaddr, iolen, addr)
      BY <1>3, <2>2 DEF ReadData
    <3> QED
      BY <3>1, FetchInv DEF NandTypeOK, BufferFits
  <2> QED
    BY <2>1, <2>2
<1>4. ASSUME NEW v \in Data, WriteData(v)
      PROVE  NandInv'
  <2>1. CASE cmd = "SEQIN" /\ iolen < PageOob
    <3>1. io' \in [0 .. IoSize - 1 -> Cell]
      BY <1>4, <2>1, CellSyms DEF WriteData, NandTypeOK
    <3> QED
      BY <1>4, <2>1, <3>1, Sizes
         DEF WriteData, NandTypeOK, BufferFits, ImageCoversChip, mediaVars
  <2>2. CASE ~(cmd = "SEQIN" /\ iolen < PageOob)
    BY <1>4, <2>2
       DEF WriteData, NandTypeOK, BufferFits, ImageCoversChip, mediaVars
  <2> QED
    BY <2>1, <2>2
<1>5. CASE NandRestart
  BY <1>5, StartAgainInv DEF NandRestart, mediaVars, NandTypeOK
<1>6. CASE UNCHANGED nandVars
  BY <1>6 DEF nandVars, NandTypeOK, BufferFits, ImageCoversChip
<1>7. ASSUME NEW c, StoppedDuring(c)
      PROVE  NandInv'
  <2>1. PICK l \in Nat : \E n \in 0 .. l : \E new \in [0 .. l - 1 -> Cell] :
                            WrittenUpTo(n, new)
    BY <1>7, StoppedWrites
  <2>2. /\ imageLength' \in Nat /\ imageLength' >= imageLength
        /\ image' \in [0 .. imageLength' - 1 -> Cell]
    BY <2>1, WrittenTyped
  <2> QED
    BY <1>7, <2>2, StartAgainInv DEF StoppedDuring
<1> QED
  BY <1>1, <1>2, <1>3, <1>4, <1>5, <1>6, <1>7 DEF NandNext, NandCycle, StoppedInside

(* Types: the registers of the chip, its page buffer and its image keep    *)
(* their types under every sequence of bus cycles and restarts.            *)
THEOREM NandTypeCorrect == NandSpec => []NandTypeOK
<1>1. NandInit => NandInv
  BY NandInitInv
<1>2. NandInv /\ [NandNext]_nandVars => NandInv'
  BY NandStepInv
<1>3. NandInv => NandTypeOK
  BY DEF NandInv
<1> QED
  BY <1>1, <1>2, <1>3, PTL DEF NandSpec

(* No sequence of bus cycles makes nandb_write_data8 store outside io: the *)
(* bytes received never exceed a page.                                     *)
THEOREM BufferAlwaysFits == NandSpec => []BufferFits
<1>1. NandInit => NandInv
  BY NandInitInv
<1>2. NandInv /\ [NandNext]_nandVars => NandInv'
  BY NandStepInv
<1>3. NandInv => BufferFits
  BY DEF NandInv
<1> QED
  BY <1>1, <1>2, <1>3, PTL DEF NandSpec

-----------------------------------------------------------------------------
(* The byte arithmetic of the three operations on the image.               *)

LEMMA SectorRuns ==
  ASSUME NEW s, NEW e, NEW l, NEW t,
         (s \div SectorSize + 1) * SectorSize = e,
         s + BlockOob - SectorSize = l,
         ((l + SectorSize - 1) \div SectorSize) * SectorSize = l,
         (l - 1) % SectorSize = t
  PROVE  ErasedBytes(s) = (s .. e - 1) \union (e .. l - 1) \union (l .. l + t)
  BY DEF ErasedBytes

LEMMA SectorBytes ==
  ASSUME NEW s \in Nat, NEW e \in Nat, NEW l \in Nat, NEW t \in Nat,
         s + BlockOob - SectorSize = l,
         (s \div SectorSize + 1) * SectorSize = e,
         ((l + SectorSize - 1) \div SectorSize) * SectorSize = l,
         (l - 1) % SectorSize = t,
         e = s + SectorSize, t = SectorSize - 1, l >= e
  PROVE  ErasedBytes(s) = s .. s + BlockOob - 1
<1>1. ErasedBytes(s) = (s .. e - 1) \union (e .. l - 1) \union (l .. l + t)
  BY SectorRuns
<1>2. l + t = s + BlockOob - 1
  BY Sizes
<1> QED
  BY <1>1, <1>2, Sizes

LEMMA EraseRegion ==
  ASSUME NEW row \in Nat
  PROVE  LET s == (row - (row % BlockPages)) * PageOob
         IN  /\ s = (row \div BlockPages) * BlockOob
             /\ ErasedBytes(s) = s .. s + BlockOob - 1
<1> DEFINE b == row \div BlockPages
           s == (row - (row % BlockPages)) * PageOob
           SS == SectorSize
<1>1. b \in Nat /\ row - (row % BlockPages) = BlockPages * b
  <2>1. row \in Int /\ BlockPages \in Nat \ {0}
    BY Sizes
  <2>2. b \in Nat /\ BlockPages * b \in Nat
    BY <2>1, DivNat, MulNat
  <2>3. row % BlockPages \in Nat /\ row = BlockPages * b + (row % BlockPages)
    BY <2>1, DivMod
  <2> HIDE DEF b
  <2> QED
    BY <2>2, <2>3
<1>2. s = b * BlockOob
  <2>1. BlockPages \in Nat /\ PageOob \in Nat
    BY Sizes
  <2>2. (BlockPages * b) * PageOob = b * (BlockPages * PageOob)
    BY <1>1, <2>1
  <2> QED
    BY <1>1, <2>2 DEF BlockOob
<1>3. PICK n \in 2 .. BlockOob : BlockOob = n * SectorSize
  BY NandGeometry
<1>4. n \in Nat /\ n >= 2 /\ SS \in Nat \ {0}
  BY <1>3, Sizes
<1> DEFINE k == b * n
<1>5. k \in Nat /\ s = k * SS
  <2>1. k \in Nat
    BY <1>1, <1>4, MulNat
  <2>2. b * (n * SS) = (b * n) * SS
    BY <1>1, <1>4
  <2> QED
    BY <1>2, <1>3, <2>1, <2>2
<1>6. ErasedBytes(s) = s .. s + BlockOob - 1
  <2> DEFINE l == (k + n - 1) * SS
  <2>1. l \in Nat /\ l = s + BlockOob - SS
    <3>1. (k + n - 1) * SS = k * SS + n * SS - SS
      BY <1>4, <1>5
    <3>2. k + n - 1 \in Nat
      BY <1>4, <1>5
    <3> QED
      BY <1>3, <1>4, <1>5, <3>1, <3>2, MulNat
  <2>2. s \div SS = k
    <3>1. s = SS * k + 0
      BY <1>4, <1>5
    <3> HIDE DEF s, k, SS
    <3> QED
      BY <1>4, <1>5, <3>1, DivUnique
  <2>3. (k + 1) * SS = s + SS
    BY <1>4, <1>5
  <2>4. (l + SS - 1) \div SS = k + n - 1
    <3>1. l + SS - 1 = SS * (k + n - 1) + (SS - 1)
      BY <1>4, <1>5
    <3>2. k + n - 1 \in Int /\ SS - 1 \in 0 .. SS - 1
      BY <1>4, <1>5
    <3> HIDE DEF k, l, SS
    <3> QED
      BY <1>4, <3>1, <3>2, DivUnique
  <2>5. (l - 1) % SS = SS - 1
    <3>1. l - 1 = SS * (k + n - 2) + (SS - 1)
      BY <1>4, <1>5
    <3>2. k + n - 2 \in Int /\ SS - 1 \in 0 .. SS - 1
      BY <1>4, <1>5
    <3> HIDE DEF k, l, SS
    <3> QED
      BY <1>4, <3>1, <3>2, DivUnique
  <2>6. l >= s + SS
    <3>1. n * SS >= 2 * SS
      BY <1>4
    <3> QED
      BY <1>3, <1>4, <1>5, <2>1, <3>1
  <2>7. s \in Nat
    BY <1>4, <1>5, MulNat
  <2> DEFINE e == s + SS
             t == SS - 1
  <2>8. /\ e \in Nat /\ t \in Nat /\ l >= e
        /\ e = s + SectorSize /\ t = SectorSize - 1
        /\ (s \div SectorSize + 1) * SectorSize = e
        /\ s + BlockOob - SectorSize = l
        /\ ((l + SectorSize - 1) \div SectorSize) * SectorSize = l
        /\ (l - 1) % SectorSize = t
    BY <1>4, <2>1, <2>2, <2>3, <2>4, <2>5, <2>6, <2>7
  <2> HIDE DEF s, l, e, t
  <2> QED
    BY <2>1, <2>7, <2>8, SectorBytes
<1> QED
  BY <1>2, <1>6

(* i lies in group q of size b exactly when q * b <= i < (q + 1) * b.      *)
LEMMA InGroup ==
  ASSUME NEW b \in Nat \ {0}, NEW q \in Nat, NEW i \in Nat
  PROVE  i \div b = q <=> i \in q * b .. q * b + b - 1
<1>1. ASSUME i \div b = q PROVE i \in q * b .. q * b + b - 1
  BY <1>1, DivMod
<1>2. ASSUME i \in q * b .. q * b + b - 1 PROVE i \div b = q
  <2> DEFINE r == i - q * b
  <2>1. q * b \in Nat /\ q * b = b * q
    BY MulNat
  <2>2. r \in 0 .. b - 1 /\ i = b * q + r
    BY <1>2, <2>1
  <2> HIDE DEF r
  <2> QED
    BY <2>2, DivUnique
<1> QED
  BY <1>1, <1>2

(* A row and its blocks: the address nandb_blk_erase computes, and the     *)
(* page that holds a byte, lie inside the chip when the row does.          *)
LEMMA BlockAddressRow ==
  ASSUME NEW a \in Nat
  PROVE  Row(BlockAddress(a)) = Row(a) - (Row(a) % BlockPages)
<1> DEFINE q == Row(a) - (Row(a) % BlockPages)
<1>1. q \in Nat /\ ColSpan \in Nat \ {0}
  BY BlockAddressNat, Sizes
<1>2. BlockAddress(a) = ColSpan * q
  BY DEF BlockAddress
<1> HIDE DEF q
<1>3. ColSpan * q = ColSpan * q + 0 /\ 0 \in 0 .. ColSpan - 1
  BY <1>1, MulNat
<1>4. (ColSpan * q) \div ColSpan = q
  BY <1>1, <1>3, DivUnique
<1>5. Row(BlockAddress(a)) = q
  BY <1>2, <1>4 DEF Row
<1> QED
  BY <1>5 DEF q

LEMMA RowInImage ==
  ASSUME NEW row \in Nat, row < Pages
  PROVE  /\ row * PageOob \in Nat
         /\ row * PageOob + PageOob <= ImageSize
<1>1. PageOob * (row + 1) <= PageOob * Pages
  BY Sizes, MulMono
<1>2. PageOob * (row + 1) = row * PageOob + PageOob /\ PageOob * Pages = Pages * PageOob
  BY Sizes
<1>3. row * PageOob \in Nat
  BY Sizes, MulNat
<1> QED
  BY <1>1, <1>2, <1>3 DEF ImageSize

-----------------------------------------------------------------------------
(* A known command performs its own operation and no other.                *)
LEMMA Commands ==
  ASSUME NEW c, WriteCommand(c)
  PROVE  /\ c = "ERASE2" => Erase(c)
         /\ c = "PAGEPROG" => Program(c) \/ Exit
         /\ c \in {"READSTART", "RNDOUTSTART"} => LoadFrom(addr)
         /\ c \in {"CACHEREAD", "CACHELAST"} => LoadFrom(NextPage(addr))
  BY Sizes DEF WriteCommand, KnownCommand, CommandExit, Command, StartAddress,
     StartErase, LoadPage, LoadNextPage, LoadId, LoadStatus, StartProgram,
     Program, Erase, ResetChip

EraseStep ==
  WriteCommand("ERASE2") /\ Row(addr) < Pages =>
    \A i \in 0 .. imageLength - 1 :
      image'[i] = IF i \div BlockOob = Row(addr) \div BlockPages
                    THEN Erased ELSE image[i]

LEMMA ErasedBlock ==
  ASSUME NandInv, Row(BlockAddress(addr)) < Pages, NEW i \in 0 .. imageLength - 1
  PROVE  ErasedImage(BlockAddress(addr))[i] =
           IF i \div BlockOob = Row(addr) \div BlockPages THEN Erased ELSE image[i]
<1> DEFINE row == Row(addr)
           b == BlockAddress(addr)
           s == (row - (row % BlockPages)) * PageOob
<1>1. addr \in Nat /\ imageLength \in Nat /\ DOMAIN image = 0 .. imageLength - 1
  BY DEF NandInv, NandTypeOK
<1>2. row \in Nat /\ row \div BlockPages \in Nat
  <2>1. row \in Nat /\ BlockPages \in Nat \ {0}
    BY <1>1, AddressParts, Sizes
  <2> HIDE DEF row
  <2> QED
    BY <2>1, DivNat
<1>3. Row(b) = row - (row % BlockPages) /\ Row(b) \in Nat
  BY <1>1, BlockAddressRow, BlockAddressNat
<1>4. ~(Row(b) >= Pages)
  BY <1>3, Sizes
<1>5. ErasedImage(b)[i] = IF i \in ErasedBytes(s) THEN Erased ELSE image[i]
  BY <1>1, <1>3, <1>4 DEF ErasedImage
<1>6. s = (row \div BlockPages) * BlockOob /\ ErasedBytes(s) = s .. s + BlockOob - 1
  BY <1>2, EraseRegion
<1>7. i \in ErasedBytes(s) <=> i \div BlockOob = row \div BlockPages
  <2>1. i \in Nat /\ BlockOob \in Nat \ {0}
    BY <1>1, Sizes
  <2> DEFINE k == row \div BlockPages
  <2>2. k \in Nat
    BY <1>2
  <2>3. ErasedBytes(s) = k * BlockOob .. k * BlockOob + BlockOob - 1
    BY <1>6
  <2> HIDE DEF k, s
  <2>4. i \in ErasedBytes(s) <=> i \div BlockOob = k
    BY <2>1, <2>2, <2>3, InGroup
  <2> QED
    BY <2>4 DEF k
<1> QED
  BY <1>5, <1>7

LEMMA BlockInside ==
  ASSUME NandInv, Row(addr) < Pages
  PROVE  Row(BlockAddress(addr)) < Pages
<1> DEFINE row == Row(addr)
<1>1. addr \in Nat
  BY DEF NandInv, NandTypeOK
<1>2. row \in Nat /\ row - (row % BlockPages) \in Nat
      /\ Row(BlockAddress(addr)) = row - (row % BlockPages)
  BY <1>1, AddressParts, BlockAddressNat, BlockAddressRow
<1> HIDE DEF row
<1>3. row % BlockPages \in 0 .. BlockPages - 1
  BY <1>2, Sizes, DivMod
<1> QED
  BY <1>2, <1>3, Sizes DEF row

LEMMA EraseStepHolds == NandInv => EraseStep
<1> SUFFICES ASSUME NandInv, WriteCommand("ERASE2"), Row(addr) < Pages,
                    NEW i \in 0 .. imageLength - 1
             PROVE  image'[i] = IF i \div BlockOob = Row(addr) \div BlockPages
                                  THEN Erased ELSE image[i]
  BY DEF EraseStep
<1>1. Erase("ERASE2")
  BY Commands
<1> QED
  BY <1>1, BlockInside, ErasedBlock DEF Erase

LEMMA ProgrammedPage ==
  ASSUME NandInv, Row(addr) < Pages, iolen >= 0, Column(addr) + iolen <= PageOob,
         NEW i \in 0 .. imageLength - 1, Programmed(addr, iolen)[i] # image[i]
  PROVE  i \div PageOob = Row(addr)
<1>1. addr \in Nat /\ imageLength \in Nat /\ iolen \in Int
  BY DEF NandInv, NandTypeOK
<1>2. i \in 0 .. ProgrammedLength(addr) - 1
  BY <1>1, ProgramTyped
<1>3. Offset(addr) <= i /\ i < Offset(addr) + iolen
  BY <1>1, <1>2 DEF Programmed
<1>4. /\ Row(addr) \in Nat /\ Column(addr) \in Nat /\ PageOob \in Nat \ {0}
      /\ Row(addr) * PageOob \in Nat
      /\ Offset(addr) = Row(addr) * PageOob + Column(addr)
  <2>1. Row(addr) \in Nat /\ Column(addr) \in 0 .. ColSpan - 1
    BY <1>1, AddressParts
  <2>2. Row(addr) * PageOob \in Nat
    BY <2>1, RowInImage
  <2> QED
    BY <2>1, <2>2, Sizes DEF Offset
<1>5. i \in Row(addr) * PageOob .. Row(addr) * PageOob + PageOob - 1
  BY <1>1, <1>3, <1>4
<1> QED
  BY <1>1, <1>4, <1>5, InGroup

(* The three things a step may do to the bytes of the image.               *)
TargetStep ==
  \/ \A i \in Changed : i \div PageOob = Row(addr)
  \/ \A i \in Changed :
       i \div BlockOob = Row(addr) \div BlockPages /\ image'[i] = Erased
  \/ Column(addr) + iolen > PageOob

LEMMA ProgramTarget ==
  ASSUME NandInv, Row(addr) < Pages, iolen >= 0,
         \A i \in Changed : image'[i] = Programmed(addr, iolen)[i]
  PROVE  TargetStep
<1>1. Column(addr) + iolen \in Int /\ PageOob \in Int
  <2>1. addr \in Nat /\ iolen \in Int
    BY DEF NandInv, NandTypeOK
  <2>2. Column(addr) \in 0 .. ColSpan - 1
    BY <2>1, AddressParts
  <2> QED
    BY <2>1, <2>2, Sizes
<1>2. CASE Column(addr) + iolen <= PageOob
  BY <1>2, ProgrammedPage DEF TargetStep, Changed
<1> QED
  BY <1>1, <1>2 DEF TargetStep

LEMMA EraseTarget ==
  ASSUME NandInv, \A i \in Changed : image'[i] = ErasedImage(BlockAddress(addr))[i]
  PROVE  TargetStep
<1>1. CASE Row(BlockAddress(addr)) >= Pages
  BY <1>1 DEF ErasedImage, Changed, TargetStep
<1>2. CASE ~(Row(BlockAddress(addr)) >= Pages)
  <2>1. Row(BlockAddress(addr)) < Pages
    BY <1>2, BlockAddressNat, BlockAddressRow, Sizes DEF NandInv, NandTypeOK
  <2> QED
    BY <2>1, ErasedBlock DEF Changed, TargetStep
<1> QED
  BY <1>1, <1>2

LEMMA StillTarget ==
  ASSUME image' = image
  PROVE  TargetStep
  BY DEF TargetStep, Changed

LEMMA CommandTarget ==
  ASSUME NandInv, NEW c, WriteCommand(c)
  PROVE  TargetStep
<1>1. CASE c = "PAGEPROG" /\ Program(c)
  <2>1. addr \in Nat /\ Row(addr) \in Nat
    BY AddressParts DEF NandInv, NandTypeOK
  <2>2. CASE Row(addr) >= Pages
    BY <1>1, <2>2, StillTarget DEF Program, mediaVars
  <2>3. CASE ~(Row(addr) >= Pages)
    <3>1. Row(addr) < Pages /\ iolen >= 0 /\ image' = Programmed(addr, iolen)
      BY <1>1, <2>1, <2>3, Sizes DEF Program
    <3> QED
      BY <3>1, ProgramTarget
  <2> QED
    BY <2>2, <2>3
<1>2. CASE c = "ERASE2"
  <2>1. image' = ErasedImage(BlockAddress(addr))
    BY <1>2, Commands DEF Erase
  <2> QED
    BY <2>1, EraseTarget
<1>3. CASE ~(c = "PAGEPROG" /\ Program(c)) /\ c # "ERASE2"
  <2>1. image' = image
    BY <1>3 DEF WriteCommand, KnownCommand, CommandExit, Exit, StartAddress, StartErase,
       LoadPage, LoadNextPage, LoadFrom, LoadId, LoadStatus, StartProgram, Program,
       Erase, ResetChip, mediaVars
  <2> QED
    BY <2>1, StillTarget
<1> QED
  BY <1>1, <1>2, <1>3

LEMMA StoppedTarget ==
  ASSUME NandInv, NEW c, StoppedDuring(c)
  PROVE  TargetStep
<1>1. PICK l \in Nat : \E n \in 0 .. l : \E new \in [0 .. l - 1 -> Cell] :
        /\ WrittenUpTo(n, new)
        /\ \/ /\ c = "PAGEPROG" /\ Row(addr) < Pages /\ iolen >= 0
              /\ new = Programmed(addr, iolen)
           \/ c = "ERASE2" /\ l = imageLength /\ new = ErasedImage(BlockAddress(addr))
  BY StoppedWrites
<1>2. PICK n \in 0 .. l, new \in [0 .. l - 1 -> Cell] :
        /\ WrittenUpTo(n, new)
        /\ \/ Row(addr) < Pages /\ iolen >= 0 /\ new = Programmed(addr, iolen)
           \/ new = ErasedImage(BlockAddress(addr))
  BY <1>1
<1>3. \A i \in Changed : image'[i] = new[i]
  BY <1>2, WrittenTyped DEF Changed
<1> QED
  BY <1>2, <1>3, ProgramTarget, EraseTarget

LEMMA TargetStepHolds == NandInv /\ [NandNext]_nandVars => TargetStep
<1> SUFFICES ASSUME NandInv, [NandNext]_nandVars PROVE TargetStep
  OBVIOUS
<1>1. CASE \E v \in 0 .. Base - 1 : WriteAddress(v)
  BY <1>1, StillTarget DEF WriteAddress, Exit, mediaVars
<1>2. CASE \E v \in Cell : ReadData(v)
  BY <1>2, StillTarget DEF ReadData, Fetch, Exit, mediaVars
<1>3. CASE \E v \in Data : WriteData(v)
  BY <1>3, StillTarget DEF WriteData, mediaVars
<1>4. CASE NandRestart
  BY <1>4, StillTarget DEF NandRestart, mediaVars
<1>5. CASE UNCHANGED nandVars
  BY <1>5, StillTarget DEF nandVars
<1> QED
  BY <1>1, <1>2, <1>3, <1>4, <1>5, CommandTarget, StoppedTarget
     DEF NandNext, NandCycle, StoppedInside

LoadStep ==
  \A c \in ReadCommand :
    WriteCommand(c) /\ Row(addr') < Pages /\ Column(addr') < PageOob =>
      \A k \in 0 .. iolen' - 1 :
        /\ ioaddr' + k < IoSize
        /\ io'[ioaddr' + k] = image[Offset(addr') + k]

LEMMA LoadStepHolds == NandInv => LoadStep
<1> SUFFICES ASSUME NandInv, NEW c \in ReadCommand, WriteCommand(c),
                    Row(addr') < Pages, Column(addr') < PageOob,
                    NEW k \in 0 .. iolen' - 1
             PROVE  /\ ioaddr' + k < IoSize
                    /\ io'[ioaddr' + k] = image[Offset(addr') + k]
  BY DEF LoadStep
<1>1. PICK a \in Nat : LoadFrom(a)
  <2>1. addr \in Nat /\ NextPage(addr) \in Nat
    BY Sizes DEF NandInv, NandTypeOK, NextPage
  <2> QED
    BY <2>1, Commands DEF ReadCommand
<1>2. a = addr' /\ Row(a) < Pages /\ Column(a) < PageOob
  BY <1>1 DEF LoadFrom
<1> DEFINE base == SectorOf(Offset(a)) * SectorSize
           ptr == Offset(a) % SectorSize
<1>3. /\ Column(a) \in Nat /\ Row(a) \in Nat /\ base \in Nat
      /\ ptr \in 0 .. SectorSize - 1
      /\ Offset(a) = base + ptr
      /\ Offset(a) = Row(a) * PageOob + Column(a)
  BY <1>1, AddressParts, Sizes DEF Offset
<1>4. Row(a) * PageOob \in Nat /\ Row(a) * PageOob + PageOob <= ImageSize
  BY <1>2, <1>3, RowInImage
<1>5. /\ ~(Row(a) >= Pages)
      /\ iolen' = PageOob - Column(a)
      /\ ioaddr' = ptr
      /\ io' = [j \in 0 .. IoSize - 1 |->
                  IF j < Window /\ base + j < imageLength
                    THEN image[base + j] ELSE io[j]]
  BY <1>1, <1>2, <1>3, Sizes DEF LoadFrom, LoadedIo, LoadedPtr
<1>6. imageLength \in Nat /\ imageLength >= ImageSize
  BY DEF NandInv, NandTypeOK, ImageCoversChip
<1> HIDE DEF base, ptr
<1>7. PageOob = PageSize + OobSize /\ PageSize \in Nat /\ ImageSize \in Nat
  BY Sizes DEF PageOob
<1>8. /\ ptr + k \in 0 .. IoSize - 1 /\ ptr + k < Window
      /\ base + (ptr + k) < imageLength
      /\ base + (ptr + k) = Offset(a) + k
  <2>1. k \in Nat /\ k < PageOob - Column(a)
    BY <1>3, <1>5, Sizes
  <2> QED
    BY <2>1, <1>3, <1>4, <1>6, <1>7, Sizes
<1>9. io'[ptr + k] = image[base + (ptr + k)]
  <2> DEFINE j == ptr + k
  <2>1. j \in 0 .. IoSize - 1 /\ j < Window /\ base + j < imageLength
    BY <1>8
  <2> HIDE DEF j
  <2>2. io'[j] = image[base + j]
    BY <1>5, <2>1
  <2> QED
    BY <2>2 DEF j
<1>10. ioaddr' + k < IoSize
  BY <1>3, <1>5, <1>8, Sizes
<1>11. image[base + (ptr + k)] = image[Offset(addr') + k]
  BY <1>2, <1>8
<1> QED
  BY <1>5, <1>9, <1>10, <1>11

-----------------------------------------------------------------------------
(* nandb_blk_erase, in sectors, erases exactly the addressed block: for    *)
(* every page, block and sector size, no byte of a neighbour is lost to    *)
(* the read-modify-write of the first and last sector.                     *)
THEOREM EraseAlwaysExact == NandSpec => EraseExact
<1>1. NandInit => NandInv
  BY NandInitInv
<1>2. NandInv /\ [NandNext]_nandVars => NandInv'
  BY NandStepInv
<1>3. NandInv /\ [NandNext]_nandVars => [EraseStep]_nandVars
  BY EraseStepHolds
<1>4. NandSpec => [][EraseStep]_nandVars
  BY <1>1, <1>2, <1>3, PTL DEF NandSpec
<1> QED
  BY <1>4 DEF EraseStep, EraseExact

(* Whatever the cycle, and wherever in the writes of nand_blk_write or     *)
(* nandb_blk_erase the emulator is stopped: the only bytes of the image    *)
(* that change are of the page programmed or of the block erased, unless   *)
(* the program itself leaves its page.                                     *)
THEOREM OnlyTargetEverChanges == NandSpec => OnlyTargetChanges
<1>1. NandInit => NandInv
  BY NandInitInv
<1>2. NandInv /\ [NandNext]_nandVars => NandInv'
  BY NandStepInv
<1>3. NandInv /\ [NandNext]_nandVars => [TargetStep]_nandVars
  BY TargetStepHolds
<1>4. NandSpec => [][TargetStep]_nandVars
  BY <1>1, <1>2, <1>3, PTL DEF NandSpec
<1> QED
  BY <1>4 DEF TargetStep, OnlyTargetChanges

(* Every load gives the guest the bytes of the addressed page, from inside *)
(* the page buffer and from inside the image, on the last page too.        *)
THEOREM LoadAlwaysExact == NandSpec => LoadExact
<1>1. NandInit => NandInv
  BY NandInitInv
<1>2. NandInv /\ [NandNext]_nandVars => NandInv'
  BY NandStepInv
<1>3. NandInv /\ [NandNext]_nandVars => [LoadStep]_nandVars
  BY LoadStepHolds
<1>4. NandSpec => [][LoadStep]_nandVars
  BY <1>1, <1>2, <1>3, PTL DEF NandSpec
<1> QED
  BY <1>4 DEF LoadStep, LoadExact
=============================================================================
