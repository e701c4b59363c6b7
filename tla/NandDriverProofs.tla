--------------------------- MODULE NandDriverProofs ---------------------------
(***************************************************************************)
(* Proofs about NandDriver: whatever the geometry of the chip and the      *)
(* order of the requests, no script of the driver, of the boot reader or   *)
(* of the boot loader makes the emulator exit, and every byte read lies    *)
(* inside the page buffer and is the byte the request asks for.            *)
(*                                                                         *)
(* A script is run on an abstract chip, the part of the chip's state that  *)
(* decides whether a cycle ends the emulator and whether it does what the  *)
(* request asks.  RunTo(r, s, a, b) says that s, issued for request r,     *)
(* leads from a to b so; runs of parts are put together to runs of         *)
(* scripts, and the invariant is that the rest of the script that is being *)
(* issued runs from where the chip is.                                     *)
(***************************************************************************)
EXTENDS NandDriver, NandProofs, SequenceTheorems

(* The two-plane program, whose command 0x11 ends the emulator, is not     *)
(* used.                                                                   *)
NoPlaneProgram == "write2" \notin Ops

AddrSpan == Base * Base * Base * Base * Base

Item == [kind : {"cmd", "addr", "write", "read", "status"}]
          \union [kind : {"cmd"}, arg : Command \union {"11", "81"}]
          \union [kind : {"addr"}, arg : 0 .. Base - 1]
          \union [kind : {"write"}, arg : Data]

-----------------------------------------------------------------------------
(* What a request is to read and to send, byte by byte: i counts the bytes *)
(* of its script.  A place is an index of the image, or -5 .. -1 for the   *)
(* identification.                                                         *)
Value(l) == IF l < 0 THEN IdBytes[l + 6] ELSE image[l]

ReadPlace(p, i) ==
  p * PageOob + (IF i <= OobSize THEN PageSize + i - 1 ELSE i - OobSize - 1)
Place(r, i) ==
  CASE r.op = "boot"    -> i - 1
    [] r.op \in {"identify", "query"} -> i - 6
    [] r.op \in {"read", "load", "readoob"} -> ReadPlace(r.page, i)
    [] r.op = "read2"   -> IF i <= PageOob THEN ReadPlace(TwinPage(r.page), i)
                           ELSE ReadPlace(TwinPage(r.page) + BlockPages, i - PageOob)
    [] OTHER            -> 0
Count(r) ==
  CASE r.op = "boot"    -> PageSize
    [] r.op \in {"identify", "query"} -> 5
    [] r.op \in {"read", "load"} -> PageOob
    [] r.op = "readoob" -> OobSize
    [] r.op = "read2"   -> 2 * PageOob
    [] OTHER            -> 0

Sent(r, i) ==
  IF r.op = "write" /\ i <= PageSize THEN r.data[i]
  ELSE IF r.op = "write" THEN r.oob[i - PageSize] ELSE r.oob[i]

(* The abstract chip: its command and address, how many bytes can be read  *)
(* for certain and from where, how many bytes of the request have been     *)
(* read, how many the chip has received since SEQIN (-1: not known).       *)
Abs == [cmd : Command, addr : 0 .. AddrSpan - 1, cyc : 0 .. 5, left : Int,
        from : Int, n : Nat, m : Int]

\* The bytes that are left are those of the places they are left from.
Readable(a) ==
  a.left > 0 =>
    /\ ioaddr \in Nat /\ a.left <= iolen /\ ioaddr + a.left <= IoSize
    /\ a.cmd = "STATUS" => io[ioaddr] = Ready
    /\ a.cmd # "STATUS" => \A j \in 0 .. a.left - 1 : io[ioaddr + j] = Value(a.from + j)

\* The bytes read are those of the places the request names, in its order.
Collected(r, a) ==
  /\ got \in Seq(Cell) /\ Len(got) = a.n
  /\ \A i \in 1 .. a.n : got[i] = Value(Place(r, i))

\* The bytes received are those the request is to send.
Received(r, a) ==
  a.m >= 0 => /\ a.cmd = "SEQIN" /\ iolen = a.m
              /\ \A j \in 0 .. a.m - 1 : io[j] = Sent(r, j + 1)

Agrees(r, a) ==
  /\ cmd = a.cmd /\ addr = a.addr /\ addr_cycle = a.cyc
  /\ Readable(a) /\ Collected(r, a) /\ Received(r, a)

-----------------------------------------------------------------------------
(* The cycles that do not end the emulator and do what the request asks.   *)
Filled(r, a) ==
  \/ r.op = "write" /\ Row(a.addr) = r.page /\ Column(a.addr) = 0 /\ a.m = PageOob
  \/ r.op = "writeoob" /\ Row(a.addr) = r.page
       /\ Column(a.addr) = PageSize /\ a.m = OobSize
Aimed(r, a) ==
  \/ r.op = "erase" /\ Row(a.addr) = r.page
  \/ r.op = "erase2"

CommandRuns(r, a, c, b) ==
  /\ b.cmd = c /\ b.n = a.n
  /\ b.m = IF c = "SEQIN" THEN 0 ELSE -1
  /\ \/ /\ c \in {"READ0", "RNDOUT", "SEQIN"}
        /\ b.addr = a.addr /\ b.cyc = 0 /\ b.left = 0
     \/ /\ c \in {"READSTART", "RNDOUTSTART"}
        /\ Row(a.addr) < Pages /\ Column(a.addr) < PageOob
        /\ b.addr = a.addr /\ b.cyc = a.cyc /\ b.left = PageOob - Column(a.addr)
        /\ b.from = Offset(a.addr)
     \/ /\ c = "READID"
        /\ b.addr = a.addr /\ b.cyc = 0 /\ b.left = 5 /\ b.from = -5
     \/ /\ c = "STATUS"
        /\ b.addr = a.addr /\ b.cyc = a.cyc /\ b.left = 1
     \/ /\ c = "RESET"
        /\ b.addr = 0 /\ b.cyc = 0 /\ b.left = 0
     \/ /\ c = "ERASE1"
        /\ b.addr = ColSpan * (Row(a.addr) % ColSpan) /\ b.cyc = 2 /\ b.left = 0
     \/ /\ c = "ERASE2" /\ Aimed(r, a) /\ a.n = 0
        /\ b.addr = BlockAddress(a.addr) /\ b.cyc = a.cyc /\ b.left = 0
     \/ /\ c = "PAGEPROG" /\ Filled(r, a) /\ a.n = 0
        /\ b.addr = a.addr /\ b.cyc = a.cyc /\ b.left = 0

AddressRuns(a, v, b) ==
  /\ a.cyc < 5
  /\ b.cyc = a.cyc + 1 /\ b.addr = SetByte(a.addr, a.cyc, v)
  /\ b.cmd = a.cmd /\ b.left = a.left /\ b.from = a.from /\ b.n = a.n /\ b.m = a.m

WriteRuns(r, a, v, b) ==
  /\ 0 <= a.m /\ a.m < PageOob /\ v = Sent(r, a.m + 1)
  /\ b.m = a.m + 1
  /\ b.cmd = a.cmd /\ b.addr = a.addr /\ b.cyc = a.cyc /\ b.left = 0 /\ b.n = a.n

ReadRuns(r, a, b) ==
  /\ a.left > 0 /\ a.cmd # "STATUS" /\ a.from = Place(r, a.n + 1)
  /\ b.left = a.left - 1 /\ b.from = a.from + 1 /\ b.n = a.n + 1 /\ b.m = -1
  /\ b.cmd = a.cmd /\ b.addr = a.addr /\ b.cyc = a.cyc

CycleRuns(r, a, x, b) ==
  \/ x.kind = "cmd" /\ x.arg \in Command /\ CommandRuns(r, a, x.arg, b)
  \/ x.kind = "addr" /\ x.arg \in 0 .. Base - 1 /\ AddressRuns(a, x.arg, b)
  \/ x.kind = "write" /\ x.arg \in Data /\ WriteRuns(r, a, x.arg, b)
  \/ x.kind = "read" /\ ReadRuns(r, a, b)
  \/ x.kind = "status" /\ a.left > 0 /\ a.cmd = "STATUS" /\ b = a

RunTo(r, s, a, b) ==
  /\ s \in Seq(Item)
  /\ \E f \in [0 .. Len(s) -> Abs] :
       /\ f[0] = a /\ f[Len(s)] = b
       /\ \A i \in 1 .. Len(s) : CycleRuns(r, f[i - 1], s[i], f[i])

-----------------------------------------------------------------------------
(* Runs: of nothing, of one cycle, of two parts, and after the first.      *)
LEMMA RunEmpty ==
  ASSUME NEW r, NEW a \in Abs
  PROVE  RunTo(r, <<>>, a, a)
<1> DEFINE f == [i \in 0 .. 0 |-> a]
<1>1. Len(<<>>) = 0 /\ <<>> \in Seq(Item)
  OBVIOUS
<1>2. f \in [0 .. 0 -> Abs] /\ f[0] = a
  OBVIOUS
<1>3. \A i \in 1 .. 0 : CycleRuns(r, f[i - 1], <<>>[i], f[i])
  OBVIOUS
<1> HIDE DEF f
<1>4. QED
  BY <1>1, <1>2, <1>3 DEF RunTo

LEMMA RunOne ==
  ASSUME NEW r, NEW a \in Abs, NEW b \in Abs, NEW x \in Item, CycleRuns(r, a, x, b)
  PROVE  RunTo(r, <<x>>, a, b)
<1> DEFINE f == [i \in 0 .. 1 |-> IF i = 0 THEN a ELSE b]
<1>1. Len(<<x>>) = 1 /\ <<x>> \in Seq(Item) /\ <<x>>[1] = x
  OBVIOUS
<1>2. f \in [0 .. 1 -> Abs] /\ f[0] = a /\ f[1] = b
  OBVIOUS
<1>3. \A i \in 1 .. 1 : CycleRuns(r, f[i - 1], <<x>>[i], f[i])
  <2>1. \A i \in 1 .. 1 : i = 1 /\ i - 1 = 0
    OBVIOUS
  <2> HIDE DEF f
  <2> QED BY <2>1, <1>1, <1>2
<1> HIDE DEF f
<1>4. QED
  BY <1>1, <1>2, <1>3 DEF RunTo

LEMMA RunJoin ==
  ASSUME NEW r, NEW s, NEW t, NEW a, NEW b, NEW c, RunTo(r, s, a, b), RunTo(r, t, b, c)
  PROVE  RunTo(r, s \o t, a, c)
<1>1. s \in Seq(Item) /\ t \in Seq(Item) /\ Len(s) \in Nat /\ Len(t) \in Nat
  BY DEF RunTo
<1>2. PICK f \in [0 .. Len(s) -> Abs] :
        /\ f[0] = a /\ f[Len(s)] = b
        /\ \A i \in 1 .. Len(s) : CycleRuns(r, f[i - 1], s[i], f[i])
  BY DEF RunTo
<1>3. PICK g \in [0 .. Len(t) -> Abs] :
        /\ g[0] = b /\ g[Len(t)] = c
        /\ \A i \in 1 .. Len(t) : CycleRuns(r, g[i - 1], t[i], g[i])
  BY DEF RunTo
<1> DEFINE n == Len(s)
           u == s \o t
           h == [i \in 0 .. n + Len(t) |-> IF i <= n THEN f[i] ELSE g[i - n]]
<1>4. /\ u \in Seq(Item) /\ Len(u) = n + Len(t)
      /\ \A i \in 1 .. n : u[i] = s[i]
      /\ \A i \in n + 1 .. n + Len(t) : u[i] = t[i - n]
  BY <1>1
<1>5. h \in [0 .. Len(u) -> Abs]
  <2>1. ASSUME NEW i \in 0 .. n + Len(t) PROVE h[i] \in Abs
    <3>1. CASE i <= n
      <4>1. i \in 0 .. Len(s)
        BY <3>1, <1>1
      <4> QED BY <4>1, <3>1
    <3>2. CASE ~(i <= n)
      <4>1. i - n \in 0 .. Len(t)
        BY <3>2, <1>1
      <4> QED BY <4>1, <3>2
    <3> QED BY <3>1, <3>2
  <2> QED BY <2>1, <1>4
<1>6. h[0] = a /\ h[Len(u)] = c
  <2>1. h[0] = a
    BY <1>1, <1>2
  <2>2. CASE Len(t) = 0
    BY <2>1, <2>2, <1>1, <1>2, <1>3, <1>4
  <2>3. CASE Len(t) > 0
    BY <2>1, <2>3, <1>1, <1>3, <1>4
  <2> QED BY <2>2, <2>3, <1>1
<1>7. ASSUME NEW i \in 1 .. Len(u) PROVE CycleRuns(r, h[i - 1], u[i], h[i])
  <2>1. CASE i <= n
    <3>1. i \in 1 .. Len(s) /\ h[i - 1] = f[i - 1] /\ h[i] = f[i] /\ u[i] = s[i]
      BY <2>1, <1>1, <1>4
    <3> QED BY <3>1, <1>2
  <2>2. CASE i > n
    <3> DEFINE j == i - n
    <3>1. j \in 1 .. Len(t) /\ h[i] = g[j] /\ u[i] = t[j]
      BY <2>2, <1>1, <1>4
    <3>2. h[i - 1] = g[j - 1]
      <4>1. CASE i - 1 = n
        BY <4>1, <1>1, <1>2, <1>3, <1>4
      <4>2. CASE i - 1 > n
        BY <4>2, <1>1, <1>4
      <4> QED BY <4>1, <4>2, <2>2, <1>1, <1>4
    <3> QED BY <3>1, <3>2, <1>3
  <2> QED BY <2>1, <2>2, <1>1, <1>4
<1> HIDE DEF h, u
<1>8. RunTo(r, u, a, c)
  BY <1>4, <1>5, <1>6, <1>7 DEF RunTo
<1>9. QED
  BY <1>8 DEF u

LEMMA RunRest ==
  ASSUME NEW r, NEW s, NEW a, NEW c, RunTo(r, s, a, c), s # <<>>
  PROVE  /\ Head(s) \in Item /\ Tail(s) \in Seq(Item)
         /\ \E b \in Abs : CycleRuns(r, a, Head(s), b) /\ RunTo(r, Tail(s), b, c)
<1>1. s \in Seq(Item) /\ Len(s) \in Nat /\ Len(s) > 0
  BY EmptySeq DEF RunTo
<1>2. PICK f \in [0 .. Len(s) -> Abs] :
        /\ f[0] = a /\ f[Len(s)] = c
        /\ \A i \in 1 .. Len(s) : CycleRuns(r, f[i - 1], s[i], f[i])
  BY DEF RunTo
<1> DEFINE t == Tail(s)
           g == [i \in 0 .. Len(s) - 1 |-> f[i + 1]]
<1>3. /\ Head(s) = s[1] /\ s[1] \in Item /\ t \in Seq(Item)
      /\ Len(t) = Len(s) - 1 /\ \A i \in 1 .. Len(t) : t[i] = s[i + 1]
  BY <1>1
<1>4. g \in [0 .. Len(t) -> Abs] /\ g[0] = f[1] /\ g[Len(t)] = c
  BY <1>1, <1>2, <1>3
<1>5. ASSUME NEW i \in 1 .. Len(t) PROVE CycleRuns(r, g[i - 1], t[i], g[i])
  <2>1. i + 1 \in 1 .. Len(s) /\ (i + 1) - 1 = i
        /\ g[i - 1] = f[i] /\ g[i] = f[i + 1] /\ t[i] = s[i + 1]
    BY <1>1, <1>3
  <2> HIDE DEF g
  <2>2. CycleRuns(r, f[(i + 1) - 1], s[i + 1], f[i + 1])
    BY <2>1, <1>2
  <2> QED BY <2>1, <2>2
<1> HIDE DEF g
<1>6. RunTo(r, t, f[1], c)
  BY <1>3, <1>4, <1>5 DEF RunTo
<1>7. CycleRuns(r, f[0], s[1], f[1]) /\ f[1] \in Abs
  BY <1>1, <1>2
<1>8. QED
  BY <1>2, <1>3, <1>6, <1>7
-----------------------------------------------------------------------------
(* The address register as its five bytes.                                 *)
Byte == 0 .. Base - 1
Num(v, w, x, y, z) == v + Base * w + ColSpan * (x + Base * y + ColSpan * z)

LEMMA Powers ==
  /\ Base \in Nat \ {0, 1} /\ ColSpan = Base * Base /\ ColSpan \in Nat \ {0}
  /\ Base * Base * Base = ColSpan * Base
  /\ ColSpan * Base \in Nat \ {0} /\ ColSpan * ColSpan \in Nat \ {0}
  /\ Base * Base * Base * Base = ColSpan * ColSpan
  /\ AddrSpan = ColSpan * ColSpan * Base /\ AddrSpan \in Nat \ {0}
<1>1. Base \in Nat \ {0, 1} /\ ColSpan = Base * Base
  BY NandGeometry DEF ColSpan
<1>2. ColSpan \in Nat \ {0}
  BY <1>1, MulNat
<1>3. ColSpan * Base \in Nat \ {0} /\ ColSpan * ColSpan \in Nat \ {0}
  BY <1>1, <1>2, MulNat
<1>4. ColSpan * ColSpan * Base \in Nat \ {0}
  BY <1>1, <1>3, MulNat
<1>5. Base * Base * Base * Base = (Base * Base) * (Base * Base)
  BY <1>1
<1>6. AddrSpan = (Base * Base) * (Base * Base) * Base
  BY <1>1 DEF AddrSpan
<1>7. QED
  BY <1>1, <1>2, <1>3, <1>4, <1>5, <1>6

(* w in a span of n, scaled by b, and something less than b.               *)
LEMMA Scaled ==
  ASSUME NEW b \in Nat \ {0}, NEW n \in Nat \ {0}, NEW w \in 0 .. n - 1,
         NEW v \in 0 .. b - 1
  PROVE  b * w + v \in 0 .. b * n - 1
<1>1. b * w \in Nat /\ b * n \in Nat /\ b * (w + 1) \in Nat
  BY MulNat
<1>2. b * (w + 1) <= b * n
  BY MulMono
<1>3. b * (w + 1) = b * w + b
  OBVIOUS
<1>4. QED
  BY <1>1, <1>2, <1>3

LEMMA NumRange ==
  ASSUME NEW v \in Byte, NEW w \in Byte, NEW x \in Byte, NEW y \in Byte, NEW z \in Byte
  PROVE  /\ Num(v, w, x, y, z) \in 0 .. AddrSpan - 1
         /\ Column(Num(v, w, x, y, z)) = v + Base * w
         /\ v + Base * w \in 0 .. ColSpan - 1
         /\ Row(Num(v, w, x, y, z)) = x + Base * y + ColSpan * z
<1> DEFINE c == Base * w + v
           l == Base * y + x
           r == ColSpan * z + l
<1>1. c \in 0 .. ColSpan - 1
  BY Powers, Scaled DEF Byte
<1>2. l \in 0 .. ColSpan - 1
  BY Powers, Scaled DEF Byte
<1>3. r \in 0 .. ColSpan * Base - 1
  BY <1>2, Powers, Scaled DEF Byte
<1>4. ColSpan * r + c \in 0 .. ColSpan * (ColSpan * Base) - 1
  BY <1>1, <1>3, Powers, Scaled
<1>5. ColSpan * (ColSpan * Base) = AddrSpan
  BY Powers
<1>6. /\ v \in Nat /\ w \in Nat /\ x \in Nat /\ y \in Nat /\ z \in Nat
      /\ Base * w \in Nat /\ Base * y \in Nat /\ ColSpan * z \in Nat
  BY Powers, MulNat DEF Byte
<1>7. c = v + Base * w /\ r = x + Base * y + ColSpan * z
  BY <1>6
<1>8. Num(v, w, x, y, z) = ColSpan * r + c
  <2>1. r \in Int /\ ColSpan * r \in Int /\ c \in Int
    BY <1>1, <1>3, Powers
  <2>2. Num(v, w, x, y, z) = c + ColSpan * r
    BY <1>7 DEF Num
  <2> HIDE DEF c, r
  <2> QED BY <2>1, <2>2
<1> HIDE DEF c, r, l
<1>9. (ColSpan * r + c) \div ColSpan = r /\ (ColSpan * r + c) % ColSpan = c
  BY <1>1, <1>3, Powers, DivUnique
<1>10. QED
  BY <1>1, <1>4, <1>5, <1>7, <1>8, <1>9 DEF Column, Row

LEMMA Digits ==
  ASSUME NEW a \in 0 .. AddrSpan - 1
  PROVE  \E v, w, x, y, z \in Byte : a = Num(v, w, x, y, z)
<1> DEFINE a1 == a \div Base
           a2 == a1 \div Base
           a3 == a2 \div Base
           a4 == a3 \div Base
<1>0. ASSUME NEW n \in Nat, NEW m \in Nat, n < Base * m
      PROVE  /\ n \div Base \in Nat /\ n \div Base < m /\ n % Base \in Byte
             /\ n = Base * (n \div Base) + (n % Base)
  <2>1. n \div Base \in Nat /\ n % Base \in Byte /\ n = Base * (n \div Base) + (n % Base)
    BY Powers, DivMod, DivNat DEF Byte
  <2>2. SUFFICES ASSUME n \div Base >= m PROVE FALSE
    BY <2>1
  <2>3. Base * m <= Base * (n \div Base)
    BY <2>1, <2>2, Powers, MulMono
  <2>4. Base * m \in Nat /\ Base * (n \div Base) \in Nat
    BY <2>1, Powers, MulNat
  <2> DEFINE q == Base * (n \div Base)
  <2> HIDE DEF q
  <2>5. QED
    BY <1>0, <2>1, <2>3, <2>4 DEF Byte, q
<1>1. a \in Nat /\ a < Base * (ColSpan * ColSpan)
  BY Powers
<1>2. a1 \in Nat /\ a1 < Base * (ColSpan * Base) /\ a % Base \in Byte
      /\ a = Base * a1 + (a % Base)
  <2>1. ColSpan * ColSpan = Base * (ColSpan * Base)
    BY Powers
  <2> QED BY <1>0, <1>1, <2>1, Powers
<1>3. a2 \in Nat /\ a2 < Base * ColSpan /\ a1 % Base \in Byte
      /\ a1 = Base * a2 + (a1 % Base)
  <2>1. ColSpan * Base \in Nat /\ ColSpan * Base = Base * ColSpan
    BY Powers
  <2> HIDE DEF a1
  <2> QED BY <1>0, <1>2, <2>1
<1>4. a3 \in Nat /\ a3 < Base * Base /\ a2 % Base \in Byte
      /\ a2 = Base * a3 + (a2 % Base)
  <2> HIDE DEF a2
  <2> QED BY <1>0, <1>3, Powers
<1>5. a4 \in Byte /\ a3 % Base \in Byte /\ a3 = Base * a4 + (a3 % Base)
  <2> HIDE DEF a3
  <2>1. a4 \in Nat /\ a4 < Base /\ a3 % Base \in Byte /\ a3 = Base * a4 + (a3 % Base)
    BY <1>0, <1>4, Powers
  <2> QED BY <2>1, Powers DEF Byte
<1> DEFINE v == a % Base
           w == a1 % Base
           x == a2 % Base
           y == a3 % Base
<1> HIDE DEF a1, a2, a3, a4, v, w, x, y
<1>6. a = Num(v, w, x, y, a4)
  <2>1. /\ v \in Int /\ w \in Int /\ x \in Int /\ y \in Int /\ a4 \in Int
        /\ a1 \in Int /\ a2 \in Int /\ a3 \in Int /\ Base \in Int
    BY <1>2, <1>3, <1>4, <1>5, Powers DEF v, w, x, y, Byte
  <2>2. a = Base * a1 + v /\ a1 = Base * a2 + w /\ a2 = Base * a3 + x
        /\ a3 = Base * a4 + y
    BY <1>2, <1>3, <1>4, <1>5 DEF v, w, x, y
  <2>3. Num(v, w, x, y, a4) = v + Base * w + (Base * Base) * (x + Base * y + (Base * Base) * a4)
    BY Powers DEF Num
  <2> QED BY <2>1, <2>2, <2>3
<1>7. QED
  BY <1>2, <1>3, <1>4, <1>5, <1>6 DEF v, w, x, y
(* A digit x of weight u above l and below h is replaced by n.             *)
Join(u, h, x, l) == (u * Base) * h + (u * x + l)
Put(a, u, n) == (a \div (u * Base)) * (u * Base) + n * u + (a % u)

LEMMA PutJoin ==
  ASSUME NEW u \in Nat \ {0}, NEW h \in Nat, NEW x \in Byte, NEW l \in 0 .. u - 1,
         NEW n \in Byte
  PROVE  Put(Join(u, h, x, l), u, n) = Join(u, h, n, l)
<1> DEFINE m == u * Base
           k == u * x + l
           a == m * h + k
           q == Base * h + x
<1>1. m \in Nat \ {0}
  BY Powers, MulNat
<1>2. k \in 0 .. m - 1
  BY Powers, Scaled DEF Byte
<1>3. a \div m = h
  <2> HIDE DEF m, k
  <2> QED BY <1>1, <1>2, DivUnique
<1>4. a % u = l
  <2>1. q \in Int
    BY Powers DEF Byte
  <2>2. a = u * q + l
    BY Powers DEF Byte
  <2> HIDE DEF q, a
  <2>3. (u * q + l) % u = l
    BY <2>1, DivUnique
  <2> QED BY <2>2, <2>3
<1>5. n * u = u * n /\ h * m = m * h /\ u * n \in Int /\ m * h \in Int /\ l \in Int
  BY <1>1, Powers DEF Byte
<1> HIDE DEF m, k, a
<1>6. (a \div m) * m + n * u + (a % u) = m * h + (u * n + l)
  BY <1>3, <1>4, <1>5
<1>7. QED
  BY <1>6 DEF m, k, a, Put, Join

LEMMA SetIsPut ==
  ASSUME NEW a, NEW n
  PROVE  /\ SetByte(a, 0, n) = Put(a, 1, n)
         /\ SetByte(a, 1, n) = Put(a, Base, n)
         /\ SetByte(a, 2, n) = Put(a, Base * Base, n)
         /\ SetByte(a, 3, n) = Put(a, Base * Base * Base, n)
         /\ SetByte(a, 4, n) = Put(a, Base * Base * Base * Base, n)
<1>1. /\ Weight(0) = 1 /\ Weight(1) = Base /\ Weight(2) = Base * Base
      /\ Weight(3) = Base * Base * Base /\ Weight(4) = Base * Base * Base * Base
  BY DEF Weight
<1>2. \A i : SetByte(a, i, n) = Put(a, Weight(i), n)
  BY DEF SetByte, Put
<1>3. QED
  BY <1>1, <1>2

SetsDigit(v, w, x, y, z, n) ==
  /\ SetByte(Num(v, w, x, y, z), 0, n) = Num(n, w, x, y, z)
  /\ SetByte(Num(v, w, x, y, z), 1, n) = Num(v, n, x, y, z)
  /\ SetByte(Num(v, w, x, y, z), 2, n) = Num(v, w, n, y, z)
  /\ SetByte(Num(v, w, x, y, z), 3, n) = Num(v, w, x, n, z)
  /\ SetByte(Num(v, w, x, y, z), 4, n) = Num(v, w, x, y, n)

LEMMA SetDigit ==
  ASSUME NEW v \in Byte, NEW w \in Byte, NEW x \in Byte, NEW y \in Byte,
         NEW z \in Byte, NEW n \in Byte
  PROVE  SetsDigit(v, w, x, y, z, n)
<1> DEFINE a == Num(v, w, x, y, z)
           B2 == Base * Base
           B3 == Base * Base * Base
           B4 == Base * Base * Base * Base
<1>1. /\ Base \in Nat \ {0} /\ B2 \in Nat \ {0} /\ B3 \in Nat \ {0} /\ B4 \in Nat \ {0}
      /\ v \in Nat /\ w \in Nat /\ x \in Nat /\ y \in Nat /\ z \in Nat /\ n \in Nat
  BY Powers DEF Byte
<1>2. \A i, j, k, l, m \in Nat :
        Num(i, j, k, l, m) = i + Base * j + B2 * (k + Base * l + B2 * m)
  BY Powers DEF Num
<1>3. /\ Base * w + v \in 0 .. B2 - 1
      /\ B2 * x + (Base * w + v) \in 0 .. B3 - 1
      /\ B3 * y + (B2 * x + (Base * w + v)) \in 0 .. B4 - 1
  <2>1. Base * w + v \in 0 .. B2 - 1
    BY <1>1, Scaled DEF Byte
  <2>2. B2 * x + (Base * w + v) \in 0 .. B2 * Base - 1
    <3> HIDE DEF B2
    <3> QED BY <1>1, <2>1, Scaled DEF Byte
  <2>3. B3 * y + (B2 * x + (Base * w + v)) \in 0 .. B3 * Base - 1
    <3> DEFINE l == B2 * x + (Base * w + v)
    <3>1. l \in 0 .. B3 - 1
      BY <2>2
    <3> HIDE DEF B3, l
    <3>2. B3 * y + l \in 0 .. B3 * Base - 1
      BY <1>1, <3>1, Scaled DEF Byte
    <3> QED BY <3>2 DEF l
  <2> QED BY <2>1, <2>2, <2>3
<1>4. /\ SetByte(a, 0, n) = Put(a, 1, n) /\ SetByte(a, 1, n) = Put(a, Base, n)
      /\ SetByte(a, 2, n) = Put(a, B2, n) /\ SetByte(a, 3, n) = Put(a, B3, n)
      /\ SetByte(a, 4, n) = Put(a, B4, n)
  BY SetIsPut
<1>10. SetByte(a, 0, n) = Num(n, w, x, y, z)
  <2> DEFINE h == w + Base * (x + Base * y + B2 * z)
             l == 0
  <2>1. h \in Nat /\ l \in 0 .. 1 - 1
    BY <1>1, <1>3 DEF Byte
  <2>2. a = Join(1, h, v, l) /\ Num(n, w, x, y, z) = Join(1, h, n, l)
    BY <1>1, <1>2 DEF Join
  <2> HIDE DEF h, l, a
  <2>3. Put(Join(1, h, v, l), 1, n) = Join(1, h, n, l)
    BY <1>1, <2>1, PutJoin
  <2> QED BY <2>2, <2>3, <1>4
<1>11. SetByte(a, 1, n) = Num(v, n, x, y, z)
  <2> DEFINE h == x + Base * y + B2 * z
             l == v
  <2>1. h \in Nat /\ l \in 0 .. Base - 1
    BY <1>1, <1>3 DEF Byte
  <2>2. a = Join(Base, h, w, l) /\ Num(v, n, x, y, z) = Join(Base, h, n, l)
    BY <1>1, <1>2 DEF Join
  <2> HIDE DEF h, l, a
  <2>3. Put(Join(Base, h, w, l), Base, n) = Join(Base, h, n, l)
    BY <1>1, <2>1, PutJoin
  <2> QED BY <2>2, <2>3, <1>4
<1>12. SetByte(a, 2, n) = Num(v, w, n, y, z)
  <2> DEFINE h == y + Base * z
             l == Base * w + v
  <2>1. h \in Nat /\ l \in 0 .. B2 - 1
    BY <1>1, <1>3 DEF Byte
  <2>2. a = Join(B2, h, x, l) /\ Num(v, w, n, y, z) = Join(B2, h, n, l)
    BY <1>1, <1>2 DEF Join
  <2> HIDE DEF h, l, a, B2
  <2>3. Put(Join(B2, h, x, l), B2, n) = Join(B2, h, n, l)
    BY <1>1, <2>1, PutJoin
  <2> QED BY <2>2, <2>3, <1>4
<1>13. SetByte(a, 3, n) = Num(v, w, x, n, z)
  <2> DEFINE h == z
             l == B2 * x + (Base * w + v)
  <2>1. h \in Nat /\ l \in 0 .. B3 - 1
    BY <1>1, <1>3 DEF Byte
  <2>2. a = Join(B3, h, y, l) /\ Num(v, w, x, n, z) = Join(B3, h, n, l)
    BY <1>1, <1>2 DEF Join
  <2> HIDE DEF h, l, a, B3
  <2>3. Put(Join(B3, h, y, l), B3, n) = Join(B3, h, n, l)
    BY <1>1, <2>1, PutJoin
  <2> QED BY <2>2, <2>3, <1>4
<1>14. SetByte(a, 4, n) = Num(v, w, x, y, n)
  <2> DEFINE h == 0
             l == B3 * y + (B2 * x + (Base * w + v))
  <2>1. h \in Nat /\ l \in 0 .. B4 - 1
    BY <1>1, <1>3 DEF Byte
  <2>2. a = Join(B4, h, z, l) /\ Num(v, w, x, y, n) = Join(B4, h, n, l)
    BY <1>1, <1>2 DEF Join
  <2> HIDE DEF h, l, a, B4
  <2>3. Put(Join(B4, h, z, l), B4, n) = Join(B4, h, n, l)
    BY <1>1, <2>1, PutJoin
  <2> QED BY <2>2, <2>3, <1>4
<1>20. QED
  BY <1>10, <1>11, <1>12, <1>13, <1>14 DEF SetsDigit

LEMMA DivOf ==
  ASSUME NEW n \in Nat
  PROVE  /\ n \div Base \in Nat /\ n % Base \in Byte
         /\ n = Base * (n \div Base) + (n % Base)
  BY Powers, DivMod, DivNat DEF Byte

(* What the address cycles of a row send.                                  *)
LEMMA RowDigits ==
  ASSUME NEW p \in Nat
  PROVE  /\ p % Base \in Byte /\ (p \div Base) % Base \in Byte
         /\ (p \div (Base * Base)) % Base \in Byte
         /\ p < Base * Base * Base =>
              (p % Base) + Base * ((p \div Base) % Base)
                + ColSpan * ((p \div (Base * Base)) % Base) = p
<1> DEFINE p1 == p \div Base
           p2 == p1 \div Base
           x == p % Base
           y == p1 % Base
<1>1. /\ p1 \in Nat /\ x \in Byte /\ p = Base * p1 + x
  BY DivOf
<1>2. /\ p2 \in Nat /\ y \in Byte /\ p1 = Base * p2 + y
  <2> HIDE DEF p1
  <2> QED BY <1>1, DivOf
<1> HIDE DEF p1, p2, x, y
<1>3. Base * y + x \in 0 .. Base * Base - 1
  BY <1>1, <1>2, Powers, Scaled DEF Byte
<1>4. p = (Base * Base) * p2 + (Base * y + x)
  BY <1>1, <1>2, Powers DEF Byte
<1>5. p \div (Base * Base) = p2
  <2> DEFINE b == Base * Base
             r == Base * y + x
  <2>1. b \in Nat \ {0}
    BY Powers
  <2> HIDE DEF b, r
  <2> QED BY <1>2, <1>3, <1>4, <2>1, DivUnique DEF b, r
<1>6. p2 % Base \in Byte
  BY <1>2, Powers, DivMod DEF Byte
<1>7. ASSUME p < Base * Base * Base
      PROVE  p2 % Base = p2
  <2>1. SUFFICES p2 < Base
    BY <1>2, Powers
  <2>2. SUFFICES ASSUME p2 >= Base PROVE FALSE
    BY <1>2, Powers
  <2>3. (Base * Base) * Base <= (Base * Base) * p2
    BY <1>2, <2>2, Powers, MulMono
  <2>4. (Base * Base) * p2 \in Nat /\ (Base * Base) * p2 <= p
    BY <1>2, <1>3, <1>4, Powers, MulNat
  <2>5. QED
    BY <2>3, <2>4, <1>7, Powers
<1>8. QED
  <2>1. p < Base * Base * Base => x + Base * y + ColSpan * p2 = p
    BY <1>1, <1>2, <1>4, Powers DEF Byte
  <2> QED BY <1>1, <1>2, <1>5, <1>6, <1>7, <2>1 DEF x, y, p1
-----------------------------------------------------------------------------
(* Runs of the parts that scripts are made of.                             *)
LEMMA RunCommand ==
  ASSUME NEW r, NEW a \in Abs, NEW b \in Abs, NEW c \in Command, CommandRuns(r, a, c, b)
  PROVE  RunTo(r, Latch(c), a, b)
<1> DEFINE x == [kind |-> "cmd", arg |-> c]
<1>1. x \in Item /\ x.kind = "cmd" /\ x.arg = c
  BY DEF Item
<1> HIDE DEF x
<1>2. CycleRuns(r, a, x, b)
  BY <1>1 DEF CycleRuns
<1>3. QED
  BY <1>1, <1>2, RunOne DEF Latch, x

\* The address byte v moves the abstract chip from a to address w.
Moves(r, a, b, v, w) ==
  /\ RunTo(r, <<[kind |-> "addr", arg |-> v]>>, a, b)
  /\ b.cmd = a.cmd /\ b.addr = w /\ b.cyc = a.cyc + 1 /\ b.left = a.left
  /\ b.from = a.from /\ b.n = a.n /\ b.m = a.m

LEMMA RunAddress ==
  ASSUME NEW r, NEW a \in Abs, NEW v \in Byte, a.cyc < 5,
         NEW w \in 0 .. AddrSpan - 1, w = SetByte(a.addr, a.cyc, v)
  PROVE  \E b \in Abs : Moves(r, a, b, v, w)
<1> DEFINE x == [kind |-> "addr", arg |-> v]
           b == [cmd |-> a.cmd, addr |-> w, cyc |-> a.cyc + 1, left |-> a.left,
                 from |-> a.from, n |-> a.n, m |-> a.m]
<1>1. x \in Item /\ x.kind = "addr" /\ x.arg = v
  BY DEF Item, Byte
<1>2. b \in Abs
  <2>1. /\ a.cmd \in Command /\ a.cyc + 1 \in 0 .. 5 /\ a.left \in Int
        /\ a.from \in Int /\ a.n \in Nat /\ a.m \in Int
    BY DEF Abs
  <2> QED BY <2>1 DEF Abs
<1>3. AddressRuns(a, v, b)
  BY DEF AddressRuns
<1>4. CycleRuns(r, a, x, b)
  <2> HIDE DEF x, b
  <2> QED BY <1>1, <1>3 DEF CycleRuns, Byte
<1>5. RunTo(r, <<x>>, a, b)
  <2> HIDE DEF x, b
  <2> QED BY <1>1, <1>2, <1>4, RunOne
<1>6. QED
  BY <1>2, <1>5 DEF Moves

(* The two bytes of a column and the three of a row.                       *)
LEMMA RunColumn ==
  ASSUME NEW r, NEW a \in Abs, a.cyc = 0, NEW c \in 0 .. ColSpan - 1
  PROVE  \E b \in Abs :
           /\ RunTo(r, Col(c), a, b)
           /\ b.cmd = a.cmd /\ b.cyc = 2 /\ b.left = a.left
           /\ b.from = a.from /\ b.n = a.n /\ b.m = a.m
           /\ Column(b.addr) = c /\ Row(b.addr) = Row(a.addr)
<1>1. PICK v, w, x, y, z \in Byte : a.addr = Num(v, w, x, y, z)
  BY Digits DEF Abs
<1> DEFINE n == c % Base
           m == c \div Base
<1>0. c \in Nat /\ c < Base * Base
  BY Powers
<1>2. n \in Byte /\ m \in Nat /\ c = Base * m + n
  BY <1>0, DivOf
<1>3. m \in Byte
  <2>1. SUFFICES ASSUME m >= Base PROVE FALSE
    BY <1>2, Powers DEF Byte
  <2>2. Base * Base <= Base * m /\ Base * m \in Nat
    BY <1>2, <2>1, Powers, MulMono, MulNat
  <2> HIDE DEF m, n
  <2> QED BY <1>2, <2>2, Powers DEF Byte
<1>4. n + Base * m = c
  BY <1>2, Powers DEF Byte
<1> HIDE DEF n, m
<1>5. /\ Num(n, w, x, y, z) = SetByte(Num(v, w, x, y, z), 0, n)
      /\ Num(n, m, x, y, z) = SetByte(Num(n, w, x, y, z), 1, m)
      /\ Num(n, w, x, y, z) \in 0 .. AddrSpan - 1
      /\ Num(n, m, x, y, z) \in 0 .. AddrSpan - 1
      /\ Column(Num(n, m, x, y, z)) = c
      /\ Row(Num(n, m, x, y, z)) = Row(Num(v, w, x, y, z))
  <2>1. SetByte(Num(v, w, x, y, z), 0, n) = Num(n, w, x, y, z)
    <3>1. SetsDigit(v, w, x, y, z, n)
      BY <1>2, SetDigit
    <3> QED BY <3>1 DEF SetsDigit
  <2>2. SetByte(Num(n, w, x, y, z), 1, m) = Num(n, m, x, y, z)
    <3>1. SetsDigit(n, w, x, y, z, m)
      BY <1>2, <1>3, SetDigit
    <3> QED BY <3>1 DEF SetsDigit
  <2>3. Num(n, w, x, y, z) \in 0 .. AddrSpan - 1
    BY <1>2, NumRange
  <2>4. Row(Num(v, w, x, y, z)) = x + Base * y + ColSpan * z
    BY NumRange
  <2>5. /\ Num(n, m, x, y, z) \in 0 .. AddrSpan - 1
        /\ Column(Num(n, m, x, y, z)) = n + Base * m
        /\ Row(Num(n, m, x, y, z)) = x + Base * y + ColSpan * z
    BY <1>2, <1>3, NumRange
  <2> QED BY <1>4, <2>1, <2>2, <2>3, <2>4, <2>5
<1>6. PICK b \in Abs : Moves(r, a, b, n, Num(n, w, x, y, z))
  <2>1. a.cyc < 5 /\ n \in Byte /\ Num(n, w, x, y, z) \in 0 .. AddrSpan - 1
    BY <1>1, <1>2, <1>5, Powers
  <2>2. Num(n, w, x, y, z) = SetByte(a.addr, a.cyc, n)
    BY <1>1, <1>2, <1>5
  <2> QED BY <2>1, <2>2, RunAddress
<1>7. PICK d \in Abs : Moves(r, b, d, m, Num(n, m, x, y, z))
  <2>0. b.cyc = 1 /\ b.addr = Num(n, w, x, y, z)
    BY <1>6 DEF Moves
  <2>1. b.cyc < 5 /\ m \in Byte /\ Num(n, m, x, y, z) \in 0 .. AddrSpan - 1
    BY <1>3, <1>5, <2>0, Powers
  <2>2. Num(n, m, x, y, z) = SetByte(b.addr, b.cyc, m)
    BY <1>3, <1>5, <2>0
  <2> QED BY <2>1, <2>2, RunAddress
<1>8. RunTo(r, <<[kind |-> "addr", arg |-> n]>> \o <<[kind |-> "addr", arg |-> m]>>, a, d)
  BY <1>6, <1>7, RunJoin DEF Moves
<1>9. Col(c) = <<[kind |-> "addr", arg |-> n]>> \o <<[kind |-> "addr", arg |-> m]>>
  BY DEF Col, n, m
<1>10. d.cmd = a.cmd /\ d.cyc = 2 /\ d.left = a.left /\ d.from = a.from
       /\ d.n = a.n /\ d.m = a.m /\ d.addr = Num(n, m, x, y, z)
  BY <1>6, <1>7 DEF Moves
<1>11. Column(d.addr) = c /\ Row(d.addr) = Row(a.addr)
  BY <1>1, <1>5, <1>10
<1>12. QED
  BY <1>8, <1>9, <1>10, <1>11

LEMMA RunRow ==
  ASSUME NEW r, NEW a \in Abs, a.cyc = 2, NEW p \in Nat
  PROVE  \E b \in Abs :
           /\ RunTo(r, RowOf(p), a, b)
           /\ b.cmd = a.cmd /\ b.cyc = 5 /\ b.left = a.left
           /\ b.from = a.from /\ b.n = a.n /\ b.m = a.m
           /\ Column(b.addr) = Column(a.addr)
           /\ p < Base * Base * Base => Row(b.addr) = p
<1>1. PICK v, w, x, y, z \in Byte : a.addr = Num(v, w, x, y, z)
  BY Digits DEF Abs
<1> DEFINE k == p % Base
           m == (p \div Base) % Base
           n == (p \div (Base * Base)) % Base
<1>2. /\ k \in Byte /\ m \in Byte /\ n \in Byte
      /\ p < Base * Base * Base => k + Base * m + ColSpan * n = p
  BY RowDigits
<1> HIDE DEF k, m, n
<1>3. /\ Num(v, w, k, y, z) = SetByte(Num(v, w, x, y, z), 2, k)
      /\ Num(v, w, k, m, z) = SetByte(Num(v, w, k, y, z), 3, m)
      /\ Num(v, w, k, m, n) = SetByte(Num(v, w, k, m, z), 4, n)
      /\ Num(v, w, k, y, z) \in 0 .. AddrSpan - 1
      /\ Num(v, w, k, m, z) \in 0 .. AddrSpan - 1
      /\ Num(v, w, k, m, n) \in 0 .. AddrSpan - 1
      /\ Column(Num(v, w, k, m, n)) = Column(Num(v, w, x, y, z))
      /\ Row(Num(v, w, k, m, n)) = k + Base * m + ColSpan * n
  <2>1. SetByte(Num(v, w, x, y, z), 2, k) = Num(v, w, k, y, z)
    <3>1. SetsDigit(v, w, x, y, z, k)
      BY <1>2, SetDigit
    <3> QED BY <3>1 DEF SetsDigit
  <2>2. SetByte(Num(v, w, k, y, z), 3, m) = Num(v, w, k, m, z)
    <3>1. SetsDigit(v, w, k, y, z, m)
      BY <1>2, SetDigit
    <3> QED BY <3>1 DEF SetsDigit
  <2>3. SetByte(Num(v, w, k, m, z), 4, n) = Num(v, w, k, m, n)
    <3>1. SetsDigit(v, w, k, m, z, n)
      BY <1>2, SetDigit
    <3> QED BY <3>1 DEF SetsDigit
  <2>4. Num(v, w, k, y, z) \in 0 .. AddrSpan - 1
    BY <1>2, NumRange
  <2>5. Num(v, w, k, m, z) \in 0 .. AddrSpan - 1
    BY <1>2, NumRange
  <2>6. Column(Num(v, w, x, y, z)) = v + Base * w
    BY NumRange
  <2>7. /\ Num(v, w, k, m, n) \in 0 .. AddrSpan - 1
        /\ Column(Num(v, w, k, m, n)) = v + Base * w
        /\ Row(Num(v, w, k, m, n)) = k + Base * m + ColSpan * n
    BY <1>2, NumRange
  <2> QED BY <2>1, <2>2, <2>3, <2>4, <2>5, <2>6, <2>7
<1>4. PICK b \in Abs : Moves(r, a, b, k, Num(v, w, k, y, z))
  <2>1. a.cyc < 5 /\ k \in Byte /\ Num(v, w, k, y, z) \in 0 .. AddrSpan - 1
    BY <1>1, <1>2, <1>3, Powers
  <2>2. Num(v, w, k, y, z) = SetByte(a.addr, a.cyc, k)
    BY <1>1, <1>2, <1>3
  <2> QED BY <2>1, <2>2, RunAddress
<1>5. PICK d \in Abs : Moves(r, b, d, m, Num(v, w, k, m, z))
  <2>0. b.cyc = 3 /\ b.addr = Num(v, w, k, y, z)
    BY <1>4 DEF Moves
  <2>1. b.cyc < 5 /\ m \in Byte /\ Num(v, w, k, m, z) \in 0 .. AddrSpan - 1
    BY <1>2, <1>3, <2>0, Powers
  <2>2. Num(v, w, k, m, z) = SetByte(b.addr, b.cyc, m)
    BY <1>2, <1>3, <2>0
  <2> QED BY <2>1, <2>2, RunAddress
<1>6. PICK e \in Abs : Moves(r, d, e, n, Num(v, w, k, m, n))
  <2>0. d.cyc = 4 /\ d.addr = Num(v, w, k, m, z)
    BY <1>4, <1>5 DEF Moves
  <2>1. d.cyc < 5 /\ n \in Byte /\ Num(v, w, k, m, n) \in 0 .. AddrSpan - 1
    BY <1>2, <1>3, <2>0, Powers
  <2>2. Num(v, w, k, m, n) = SetByte(d.addr, d.cyc, n)
    BY <1>2, <1>3, <2>0
  <2> QED BY <2>1, <2>2, RunAddress
<1>7. RunTo(r, <<[kind |-> "addr", arg |-> k]>> \o <<[kind |-> "addr", arg |-> m]>>
                 \o <<[kind |-> "addr", arg |-> n]>>, a, e)
  BY <1>4, <1>5, <1>6, RunJoin DEF Moves
<1>8. RowOf(p) = <<[kind |-> "addr", arg |-> k]>> \o <<[kind |-> "addr", arg |-> m]>>
                   \o <<[kind |-> "addr", arg |-> n]>>
  BY DEF RowOf, k, m, n
<1>9. e.cmd = a.cmd /\ e.cyc = 5 /\ e.left = a.left /\ e.from = a.from
      /\ e.n = a.n /\ e.m = a.m /\ e.addr = Num(v, w, k, m, n)
  BY <1>4, <1>5, <1>6 DEF Moves
<1>10. Column(e.addr) = Column(a.addr) /\ (p < Base * Base * Base => Row(e.addr) = p)
  BY <1>1, <1>2, <1>3, <1>9
<1>11. QED
  BY <1>7, <1>8, <1>9, <1>10

\* The k bytes of request r that follow the first n are those from place l on.
Wants(r, n, l, k) == \A i \in 1 .. k : Place(r, n + i) = l + i - 1

(* Reads of bytes that are wanted in the order in which they are left, and *)
(* writes of those to be sent.                                             *)
LEMMA RunReads ==
  ASSUME NEW r, NEW a \in Abs, NEW k \in Nat, k <= a.left, a.cmd # "STATUS",
         Wants(r, a.n, a.from, k)
  PROVE  \E b \in Abs :
           /\ RunTo(r, Reads(k), a, b)
           /\ b.cmd = a.cmd /\ b.addr = a.addr /\ b.cyc = a.cyc /\ b.n = a.n + k
<1> DEFINE f == [i \in 0 .. k |-> [cmd |-> a.cmd, addr |-> a.addr, cyc |-> a.cyc,
                   left |-> a.left - i, from |-> a.from + i, n |-> a.n + i,
                   m |-> IF i = 0 THEN a.m ELSE -1]]
           s == Reads(k)
<1>0. /\ a.cmd \in Command /\ a.addr \in 0 .. AddrSpan - 1 /\ a.cyc \in 0 .. 5
      /\ a.left \in Int /\ a.from \in Int /\ a.n \in Nat /\ a.m \in Int
      /\ a = [cmd |-> a.cmd, addr |-> a.addr, cyc |-> a.cyc, left |-> a.left,
              from |-> a.from, n |-> a.n, m |-> a.m]
  BY DEF Abs
<1>1. /\ s \in Seq(Item) /\ Len(s) = k
      /\ \A i \in 1 .. k : s[i] = [kind |-> "read"]
  BY DEF Reads, Item
<1>2. \A i \in 0 .. k : f[i] \in Abs
  BY <1>0 DEF Abs
<1>3. f \in [0 .. k -> Abs] /\ f[0] = a
  <2>1. a.left - 0 = a.left /\ a.from + 0 = a.from /\ a.n + 0 = a.n /\ 0 \in 0 .. k
    BY <1>0
  <2>2. f[0] = a
    BY <1>0, <2>1
  <2> QED BY <1>2, <2>2
<1>4. ASSUME NEW i \in 1 .. k PROVE CycleRuns(r, f[i - 1], s[i], f[i])
  <2>1. i - 1 \in 0 .. k /\ i \in 0 .. k /\ i # 0
    OBVIOUS
  <2>2. /\ f[i].cmd = f[i - 1].cmd /\ f[i].addr = f[i - 1].addr
        /\ f[i].cyc = f[i - 1].cyc /\ f[i].left = f[i - 1].left - 1
        /\ f[i].from = f[i - 1].from + 1 /\ f[i].n = f[i - 1].n + 1 /\ f[i].m = -1
    BY <1>0, <2>1
  <2>3. /\ f[i - 1].left > 0 /\ f[i - 1].cmd # "STATUS"
    BY <1>0, <2>1
  <2>4. f[i - 1].from = Place(r, f[i - 1].n + 1)
    <3>1. f[i - 1].from = a.from + i - 1 /\ f[i - 1].n + 1 = a.n + i
      BY <1>0, <2>1
    <3> HIDE DEF f
    <3> QED BY <3>1 DEF Wants
  <2>5. s[i].kind = "read"
    BY <1>1
  <2> HIDE DEF f, s
  <2> QED BY <2>2, <2>3, <2>4, <2>5 DEF CycleRuns, ReadRuns
<1>5. k \in 0 .. k /\ f[k].cmd = a.cmd /\ f[k].addr = a.addr /\ f[k].cyc = a.cyc
      /\ f[k].n = a.n + k
  OBVIOUS
<1> HIDE DEF f, s
<1>6. RunTo(r, s, a, f[k])
  BY <1>1, <1>3, <1>4 DEF RunTo
<1>7. QED
  BY <1>2, <1>5, <1>6 DEF s

\* After m bytes, request r is to send those of d.
Sends(r, m, d) == \A i \in 1 .. Len(d) : Sent(r, m + i) = d[i]

Receives(r, a, b, d) ==
  /\ RunTo(r, Writes(d), a, b)
  /\ b.cmd = a.cmd /\ b.addr = a.addr /\ b.cyc = a.cyc /\ b.n = a.n
  /\ b.left = 0 /\ b.m = a.m + Len(d)

LEMMA RunWrites ==
  ASSUME NEW r, NEW a \in Abs, a.m >= 0, a.left = 0, NEW d \in Seq(Data),
         a.m + Len(d) <= PageOob, Sends(r, a.m, d)
  PROVE  \E b \in Abs : Receives(r, a, b, d)
<1> DEFINE f == [i \in 0 .. Len(d) |-> [cmd |-> a.cmd, addr |-> a.addr, cyc |-> a.cyc,
                   left |-> 0, from |-> a.from, n |-> a.n, m |-> a.m + i]]
           s == Writes(d)
<1>0. /\ a.cmd \in Command /\ a.addr \in 0 .. AddrSpan - 1 /\ a.cyc \in 0 .. 5
      /\ a.left \in Int /\ a.from \in Int /\ a.n \in Nat /\ a.m \in Int
      /\ a = [cmd |-> a.cmd, addr |-> a.addr, cyc |-> a.cyc, left |-> a.left,
              from |-> a.from, n |-> a.n, m |-> a.m]
  BY DEF Abs
<1>1. Len(d) \in Nat /\ \A i \in 1 .. Len(d) : d[i] \in Data
  OBVIOUS
<1>2. /\ s \in Seq(Item) /\ Len(s) = Len(d)
      /\ \A i \in 1 .. Len(d) : s[i] = [kind |-> "write", arg |-> d[i]]
  BY <1>1 DEF Writes, Item
<1>3. \A i \in 0 .. Len(d) : f[i] \in Abs
  BY <1>0, <1>1 DEF Abs
<1>4. f \in [0 .. Len(d) -> Abs] /\ f[0] = a
  <2>1. a.m + 0 = a.m /\ 0 \in 0 .. Len(d)
    BY <1>0, <1>1
  <2>2. f[0] = a
    BY <1>0, <2>1
  <2> QED BY <1>3, <2>2
<1>5. ASSUME NEW i \in 1 .. Len(d) PROVE CycleRuns(r, f[i - 1], s[i], f[i])
  <2>1. i - 1 \in 0 .. Len(d) /\ i \in 0 .. Len(d)
    BY <1>1
  <2>2. /\ f[i].cmd = f[i - 1].cmd /\ f[i].addr = f[i - 1].addr
        /\ f[i].cyc = f[i - 1].cyc /\ f[i].left = 0
        /\ f[i].n = f[i - 1].n /\ f[i].m = f[i - 1].m + 1
    BY <1>0, <2>1
  <2>3. f[i - 1].m + 1 = a.m + i
    BY <1>0, <2>1
  <2>4. 0 <= f[i - 1].m /\ f[i - 1].m < PageOob
    <3>1. PageOob \in Nat /\ f[i - 1].m = a.m + (i - 1) /\ i <= Len(d) /\ i >= 1
      BY <2>1, Sizes
    <3> HIDE DEF f
    <3> QED BY <1>0, <1>1, <3>1
  <2>5. s[i].kind = "write" /\ s[i].arg \in Data /\ s[i].arg = d[i]
    <3> HIDE DEF f, s
    <3>1. s[i] = [kind |-> "write", arg |-> d[i]] /\ d[i] \in Data
      BY <1>1, <1>2
    <3> QED BY <3>1
  <2>6. s[i].arg = Sent(r, f[i - 1].m + 1)
    <3> HIDE DEF f, s
    <3> QED BY <2>3, <2>5, <1>0 DEF Sends
  <2> HIDE DEF f, s
  <2> QED BY <2>2, <2>4, <2>5, <2>6 DEF CycleRuns, WriteRuns
<1>6. Len(d) \in 0 .. Len(d) /\ f[Len(d)].cmd = a.cmd /\ f[Len(d)].addr = a.addr
      /\ f[Len(d)].cyc = a.cyc /\ f[Len(d)].n = a.n /\ f[Len(d)].left = 0
      /\ f[Len(d)].m = a.m + Len(d)
  BY <1>1
<1> HIDE DEF f, s
<1>7. RunTo(r, s, a, f[Len(d)])
  BY <1>2, <1>4, <1>5 DEF RunTo
<1>8. f[Len(d)] \in Abs /\ Receives(r, a, f[Len(d)], d)
  BY <1>3, <1>6, <1>7 DEF s, Receives
<1>9. QED
  BY <1>8
-----------------------------------------------------------------------------
(* Addresses stay in the span of five bytes.                               *)
LEMMA BlockAddressRange ==
  ASSUME NEW a \in 0 .. AddrSpan - 1
  PROVE  BlockAddress(a) \in 0 .. AddrSpan - 1
<1> DEFINE r == Row(a)
           k == r % BlockPages
<1>1. a \in Nat /\ AddrSpan \in Nat /\ ColSpan \in Nat \ {0}
  BY Powers
<1>2. r \in Nat /\ ColSpan * r \in Nat /\ ColSpan * r <= a
  BY <1>1, DivNat, MulNat DEF Row
<1>3. k \in Nat /\ r - k \in Nat
  <2>1. r - k \in Nat
    BY <1>1, BlockAddressNat
  <2> HIDE DEF r
  <2> QED BY <1>2, <2>1, Sizes, DivMod
<1>4. BlockAddress(a) = ColSpan * (r - k)
  BY DEF BlockAddress
<1> HIDE DEF r, k
<1>5. ColSpan * (r - k) <= ColSpan * r /\ ColSpan * (r - k) \in Nat
  BY <1>1, <1>2, <1>3, MulMono, MulNat
<1>6. QED
  BY <1>1, <1>2, <1>4, <1>5

LEMMA EraseAddressRange ==
  ASSUME NEW a \in 0 .. AddrSpan - 1
  PROVE  ColSpan * (Row(a) % ColSpan) \in 0 .. AddrSpan - 1
<1> DEFINE k == Row(a) % ColSpan
<1>1. Row(a) \in Nat
  BY AddressParts
<1>2. k \in 0 .. ColSpan - 1
  BY <1>1, Powers, DivMod
<1> HIDE DEF k
<1>3. ColSpan * k + 0 \in 0 .. ColSpan * ColSpan - 1
  BY <1>2, Powers, Scaled
<1>4. ColSpan * ColSpan <= (ColSpan * ColSpan) * Base
  <2> DEFINE c == ColSpan * ColSpan
  <2>1. c \in Nat /\ Base \in Nat /\ 1 <= Base
    BY Powers
  <2> HIDE DEF c
  <2>2. c * 1 <= c * Base
    BY <2>1, MulMono
  <2> QED BY <2>1, <2>2 DEF c
<1>5. ColSpan * k \in Int /\ ColSpan * ColSpan \in Int /\ AddrSpan \in Int
  BY <1>2, Powers
<1>6. QED
  BY <1>3, <1>4, <1>5, Powers DEF k

(* The commands of the scripts, one after another.                         *)
LEMMA RunStart ==
  ASSUME NEW r, NEW a \in Abs, NEW c \in {"READ0", "RNDOUT", "SEQIN"}
  PROVE  \E b \in Abs : /\ RunTo(r, Latch(c), a, b)
                        /\ b.cmd = c /\ b.addr = a.addr /\ b.cyc = 0 /\ b.left = 0
                        /\ b.n = a.n /\ (c = "SEQIN" => b.m = 0)
<1> DEFINE b == [cmd |-> c, addr |-> a.addr, cyc |-> 0, left |-> 0, from |-> 0,
                 n |-> a.n, m |-> IF c = "SEQIN" THEN 0 ELSE -1]
<1>1. b \in Abs /\ c \in Command
  BY DEF Abs, Command
<1>2. CommandRuns(r, a, c, b)
  BY DEF CommandRuns
<1>3. RunTo(r, Latch(c), a, b)
  BY <1>1, <1>2, RunCommand
<1>4. QED
  BY <1>1, <1>3

LEMMA RunFetch ==
  ASSUME NEW r, NEW a \in Abs, NEW c \in {"READSTART", "RNDOUTSTART"},
         Row(a.addr) < Pages, Column(a.addr) < PageOob
  PROVE  \E b \in Abs : /\ RunTo(r, Latch(c), a, b)
                        /\ b.cmd = c /\ b.addr = a.addr /\ b.n = a.n
                        /\ b.left = PageOob - Column(a.addr) /\ b.from = Offset(a.addr)
<1> DEFINE b == [cmd |-> c, addr |-> a.addr, cyc |-> a.cyc,
                 left |-> PageOob - Column(a.addr), from |-> Offset(a.addr),
                 n |-> a.n, m |-> -1]
<1>1. a.addr \in 0 .. AddrSpan - 1 /\ a.addr \in Nat
  BY Powers DEF Abs
<1>2. PageOob - Column(a.addr) \in Int /\ Offset(a.addr) \in Int
  BY <1>1, AddressParts, Sizes
<1>3. b \in Abs /\ c \in Command
  BY <1>1, <1>2 DEF Abs, Command
<1>4. CommandRuns(r, a, c, b)
  BY DEF CommandRuns
<1>5. RunTo(r, Latch(c), a, b)
  BY <1>3, <1>4, RunCommand
<1>6. QED
  BY <1>3, <1>5

LEMMA RunStatus ==
  ASSUME NEW r, NEW a \in Abs
  PROVE  \E b \in Abs : RunTo(r, Status, a, b) /\ b.n = a.n
<1> DEFINE b == [cmd |-> "STATUS", addr |-> a.addr, cyc |-> a.cyc, left |-> 1,
                 from |-> 0, n |-> a.n, m |-> -1]
           x == [kind |-> "status"]
<1>1. b \in Abs /\ "STATUS" \in Command /\ b.left = 1 /\ b.cmd = "STATUS" /\ b.n = a.n
  BY DEF Abs, Command
<1>2. CommandRuns(r, a, "STATUS", b)
  BY DEF CommandRuns
<1>3. RunTo(r, Latch("STATUS"), a, b)
  BY <1>1, <1>2, RunCommand
<1>4. x \in Item /\ x.kind = "status"
  BY DEF Item
<1> HIDE DEF b, x
<1>5. CycleRuns(r, b, x, b)
  BY <1>1, <1>4 DEF CycleRuns
<1>6. RunTo(r, <<x>>, b, b)
  BY <1>1, <1>4, <1>5, RunOne
<1>7. RunTo(r, Latch("STATUS") \o <<x>>, a, b)
  BY <1>3, <1>6, RunJoin
<1>8. QED
  BY <1>1, <1>7 DEF Status, x

LEMMA RunReset ==
  ASSUME NEW r, NEW a \in Abs
  PROVE  \E b \in Abs : RunTo(r, Latch("RESET"), a, b) /\ b.n = a.n
<1> DEFINE b == [cmd |-> "RESET", addr |-> 0, cyc |-> 0, left |-> 0, from |-> 0,
                 n |-> a.n, m |-> -1]
<1>1. b \in Abs /\ "RESET" \in Command
  BY Powers DEF Abs, Command
<1>2. CommandRuns(r, a, "RESET", b)
  BY DEF CommandRuns
<1>3. RunTo(r, Latch("RESET"), a, b)
  BY <1>1, <1>2, RunCommand
<1>4. QED
  BY <1>1, <1>3

LEMMA RunProgram ==
  ASSUME NEW r, NEW a \in Abs, Filled(r, a), a.n = 0
  PROVE  \E b \in Abs : RunTo(r, Latch("PAGEPROG"), a, b) /\ b.n = 0
<1> DEFINE b == [cmd |-> "PAGEPROG", addr |-> a.addr, cyc |-> a.cyc, left |-> 0,
                 from |-> 0, n |-> 0, m |-> -1]
<1>1. b \in Abs /\ "PAGEPROG" \in Command
  BY DEF Abs, Command
<1>2. CommandRuns(r, a, "PAGEPROG", b)
  BY DEF CommandRuns
<1>3. RunTo(r, Latch("PAGEPROG"), a, b)
  BY <1>1, <1>2, RunCommand
<1>4. QED
  BY <1>1, <1>3

LEMMA RunEraseStart ==
  ASSUME NEW r, NEW a \in Abs
  PROVE  \E b \in Abs : RunTo(r, Latch("ERASE1"), a, b) /\ b.cyc = 2 /\ b.n = a.n
<1> DEFINE b == [cmd |-> "ERASE1", addr |-> ColSpan * (Row(a.addr) % ColSpan),
                 cyc |-> 2, left |-> 0, from |-> 0, n |-> a.n, m |-> -1]
<1>1. a.addr \in 0 .. AddrSpan - 1
  BY DEF Abs
<1>2. ColSpan * (Row(a.addr) % ColSpan) \in 0 .. AddrSpan - 1
  BY <1>1, EraseAddressRange
<1>3. b \in Abs /\ "ERASE1" \in Command
  BY <1>2 DEF Abs, Command
<1>4. CommandRuns(r, a, "ERASE1", b)
  BY DEF CommandRuns
<1>5. RunTo(r, Latch("ERASE1"), a, b)
  BY <1>3, <1>4, RunCommand
<1>6. QED
  BY <1>3, <1>5

LEMMA RunErase ==
  ASSUME NEW r, NEW a \in Abs, Aimed(r, a), a.n = 0
  PROVE  \E b \in Abs : RunTo(r, Latch("ERASE2"), a, b) /\ b.n = 0
<1> DEFINE b == [cmd |-> "ERASE2", addr |-> BlockAddress(a.addr),
                 cyc |-> a.cyc, left |-> 0, from |-> 0, n |-> 0, m |-> -1]
<1>1. a.addr \in 0 .. AddrSpan - 1
  BY DEF Abs
<1>2. BlockAddress(a.addr) \in 0 .. AddrSpan - 1
  BY <1>1, BlockAddressRange
<1>3. b \in Abs /\ "ERASE2" \in Command
  BY <1>2 DEF Abs, Command
<1>4. CommandRuns(r, a, "ERASE2", b)
  BY DEF CommandRuns
<1>5. RunTo(r, Latch("ERASE2"), a, b)
  BY <1>3, <1>4, RunCommand
<1>6. QED
  BY <1>3, <1>5

LEMMA RunIdentify ==
  ASSUME NEW r, NEW a \in Abs, Wants(r, a.n, -5, 5)
  PROVE  \E b \in Abs : RunTo(r, IdentifyScript, a, b) /\ b.n = a.n + 5
<1> DEFINE b == [cmd |-> "READID", addr |-> a.addr, cyc |-> 0, left |-> 5,
                 from |-> -5, n |-> a.n, m |-> -1]
           m == SetByte(a.addr, 0, 0)
<1>1. b \in Abs /\ "READID" \in Command
      /\ b.cmd = "READID" /\ b.addr = a.addr /\ b.cyc = 0 /\ b.left = 5
      /\ b.from = -5 /\ b.n = a.n
  BY DEF Abs, Command
<1>2. CommandRuns(r, a, "READID", b)
  BY DEF CommandRuns
<1>3. RunTo(r, Latch("READID"), a, b)
  BY <1>1, <1>2, RunCommand
<1>4. 0 \in Byte
  BY Powers DEF Byte
<1>5. PICK v, w, x, y, z \in Byte : a.addr = Num(v, w, x, y, z)
  BY Digits DEF Abs
<1>6. m \in 0 .. AddrSpan - 1
  <2>1. SetsDigit(v, w, x, y, z, 0)
    BY <1>4, SetDigit
  <2>2. m = Num(0, w, x, y, z)
    BY <1>5, <2>1 DEF SetsDigit
  <2> HIDE DEF m
  <2> QED BY <1>4, <2>2, NumRange
<1> HIDE DEF b
<1>7. m = SetByte(b.addr, b.cyc, 0) /\ b.cyc < 5
  BY <1>1
<1> HIDE DEF m
<1>8. PICK d \in Abs : Moves(r, b, d, 0, m)
  BY <1>1, <1>4, <1>6, <1>7, RunAddress
<1>9. /\ RunTo(r, <<[kind |-> "addr", arg |-> 0]>>, b, d)
      /\ d.cmd = "READID" /\ d.left = 5 /\ d.from = -5 /\ d.n = a.n
  BY <1>1, <1>8 DEF Moves
<1>10. PICK e \in Abs : RunTo(r, Reads(5), d, e) /\ e.n = d.n + 5
  <2>1. Wants(r, d.n, d.from, 5)
    BY <1>9
  <2>2. 5 \in Nat /\ 5 <= d.left /\ d.cmd # "STATUS"
    BY <1>9
  <2> QED BY <2>1, <2>2, RunReads
<1>11. RunTo(r, Latch("READID") \o <<[kind |-> "addr", arg |-> 0]>> \o Reads(5), a, e)
  BY <1>3, <1>9, <1>10, RunJoin
<1>12. QED
  BY <1>9, <1>10, <1>11 DEF IdentifyScript

-----------------------------------------------------------------------------
(* The parts in sequence, after some cycles s.                             *)
AtRow(r, s, a, p, n) == \E b \in Abs : RunTo(r, s, a, b) /\ Row(b.addr) = p /\ b.n = n

\* The place in the image of byte c of page p.
At(p, c) == p * PageOob + c

LEMMA OffsetOf ==
  ASSUME NEW a, NEW c \in Nat, NEW p \in Nat, Column(a) = c, Row(a) = p
  PROVE  Offset(a) = At(p, c)
  BY DEF Offset, At

\* The cycles s latch command x and the address of byte c of page p.
Selects(r, s, z, b, x, c, p, n) ==
  /\ RunTo(r, s, z, b)
  /\ b.cmd = x /\ b.left = 0 /\ b.n = n /\ (x = "SEQIN" => b.m = 0)
  /\ Row(b.addr) = p /\ Column(b.addr) = c

LEMMA SelectRuns ==
  ASSUME NEW r, NEW s, NEW z \in Abs, NEW a \in Abs, RunTo(r, s, z, a),
         NEW x \in {"READ0", "SEQIN"},
         NEW c \in 0 .. PageOob - 1, NEW p \in 0 .. Pages - 1
  PROVE  \E b \in Abs : Selects(r, s \o Latch(x) \o Col(c) \o RowOf(p), z, b, x, c, p, a.n)
<1>1. PICK d \in Abs : /\ RunTo(r, Latch(x), a, d)
                       /\ d.cmd = x /\ d.cyc = 0 /\ d.left = 0
                       /\ d.n = a.n /\ (x = "SEQIN" => d.m = 0)
  BY RunStart
<1>2. c \in 0 .. ColSpan - 1 /\ p \in Nat /\ p < Base * Base * Base
  BY Sizes, Powers, DriverGeometry
<1>3. PICK e \in Abs : /\ RunTo(r, Col(c), d, e)
                       /\ e.cmd = d.cmd /\ e.cyc = 2 /\ e.left = d.left
                       /\ e.n = d.n /\ e.m = d.m /\ Column(e.addr) = c
  BY <1>1, <1>2, RunColumn
<1>4. PICK f \in Abs : /\ RunTo(r, RowOf(p), e, f)
                       /\ f.cmd = e.cmd /\ f.cyc = 5 /\ f.left = e.left
                       /\ f.from = e.from /\ f.n = e.n /\ f.m = e.m
                       /\ Column(f.addr) = Column(e.addr)
                       /\ p < Base * Base * Base => Row(f.addr) = p
  <2>1. e.cyc = 2 /\ p \in Nat
    BY <1>2, <1>3
  <2> QED BY <2>1, RunRow
<1>5. RunTo(r, s \o Latch(x) \o Col(c) \o RowOf(p), z, f)
  BY <1>1, <1>3, <1>4, RunJoin
<1>6. Selects(r, s \o Latch(x) \o Col(c) \o RowOf(p), z, f, x, c, p, a.n)
  BY <1>1, <1>2, <1>3, <1>4, <1>5 DEF Selects
<1>7. QED
  BY <1>6

LEMMA LoadRuns ==
  ASSUME NEW r, NEW s, NEW z \in Abs, NEW a \in Abs, RunTo(r, s, z, a),
         NEW c \in 0 .. PageOob - 1, NEW p \in 0 .. Pages - 1,
         NEW k \in Nat, k <= PageOob - c, Wants(r, a.n, At(p, c), k)
  PROVE  AtRow(r, s \o Latch("READ0") \o Col(c) \o RowOf(p)
                    \o Latch("READSTART") \o Reads(k), z, p, a.n + k)
<1>1. PICK f \in Abs :
        /\ RunTo(r, s \o Latch("READ0") \o Col(c) \o RowOf(p), z, f)
        /\ f.n = a.n /\ Row(f.addr) = p /\ Column(f.addr) = c
  <2>1. "READ0" \in {"READ0", "SEQIN"}
    OBVIOUS
  <2>2. \E f \in Abs :
          Selects(r, s \o Latch("READ0") \o Col(c) \o RowOf(p), z, f, "READ0", c, p, a.n)
    BY <2>1, SelectRuns
  <2> QED BY <2>2 DEF Selects
<1>2. c \in Nat /\ p \in Nat /\ p < Pages /\ c < PageOob
  BY Sizes
<1>3. PICK g \in Abs :
        /\ RunTo(r, Latch("READSTART"), f, g)
        /\ g.cmd = "READSTART" /\ g.addr = f.addr /\ g.n = f.n
        /\ g.left = PageOob - Column(f.addr) /\ g.from = Offset(f.addr)
  BY <1>1, <1>2, RunFetch
<1>4. g.from = At(p, c) /\ g.n = a.n
  BY <1>1, <1>2, <1>3, OffsetOf
<1>5. PICK b \in Abs : RunTo(r, Reads(k), g, b) /\ b.addr = g.addr /\ b.n = g.n + k
  <2>1. k <= g.left /\ g.cmd # "STATUS"
    BY <1>1, <1>3
  <2>2. Wants(r, g.n, g.from, k)
    BY <1>4
  <2> QED BY <2>1, <2>2, RunReads
<1>6. RunTo(r, s \o Latch("READ0") \o Col(c) \o RowOf(p) \o Latch("READSTART"), z, g)
  BY <1>1, <1>3, RunJoin
<1>7. RunTo(r, s \o Latch("READ0") \o Col(c) \o RowOf(p)
              \o Latch("READSTART") \o Reads(k), z, b)
  BY <1>5, <1>6, RunJoin
<1>8. QED
  BY <1>1, <1>3, <1>4, <1>5, <1>7 DEF AtRow

LEMMA FirstLoadRuns ==
  ASSUME NEW r, NEW a \in Abs, NEW c \in 0 .. PageOob - 1, NEW p \in 0 .. Pages - 1,
         NEW k \in Nat, k <= PageOob - c,
         Wants(r, a.n, At(p, c), k)
  PROVE  AtRow(r, Latch("READ0") \o Col(c) \o RowOf(p)
                    \o Latch("READSTART") \o Reads(k), a, p, a.n + k)
<1>1. RunTo(r, <<>>, a, a)
  BY RunEmpty
<1>2. <<>> \o Latch("READ0") = Latch("READ0")
  BY DEF Latch
<1>3. AtRow(r, <<>> \o Latch("READ0") \o Col(c) \o RowOf(p)
                 \o Latch("READSTART") \o Reads(k), a, p, a.n + k)
  BY <1>1, LoadRuns
<1>4. QED
  BY <1>2, <1>3

LEMMA ConfirmRuns ==
  ASSUME NEW r, NEW s, NEW z \in Abs, NEW a \in Abs, RunTo(r, s, z, a),
         Filled(r, a), a.n = 0
  PROVE  \E b \in Abs : RunTo(r, s \o Latch("PAGEPROG") \o Status, z, b) /\ b.n = 0
<1>1. PICK d \in Abs : RunTo(r, Latch("PAGEPROG"), a, d) /\ d.n = 0
  BY RunProgram
<1>2. PICK b \in Abs : RunTo(r, Status, d, b) /\ b.n = d.n
  BY RunStatus
<1>3. QED
  BY <1>1, <1>2, RunJoin

LEMMA EraseRowRuns ==
  ASSUME NEW r, NEW s, NEW z \in Abs, NEW a \in Abs, RunTo(r, s, z, a), NEW p \in Nat
  PROVE  \E b \in Abs : /\ RunTo(r, s \o Latch("ERASE1") \o RowOf(p), z, b)
                        /\ b.n = a.n /\ (p < Pages => Row(b.addr) = p)
<1>1. PICK d \in Abs : RunTo(r, Latch("ERASE1"), a, d) /\ d.cyc = 2 /\ d.n = a.n
  BY RunEraseStart
<1>2. PICK b \in Abs : /\ RunTo(r, RowOf(p), d, b) /\ b.n = d.n
                       /\ p < Base * Base * Base => Row(b.addr) = p
  BY <1>1, RunRow
<1>3. p < Pages => p < Base * Base * Base
  BY DriverGeometry, Sizes, Powers
<1>4. QED
  BY <1>1, <1>2, <1>3, RunJoin

-----------------------------------------------------------------------------
(* The scripts: from wherever the chip is, each goes on to read all the    *)
(* bytes of its request, each from its place.                              *)
Serves(r, s) ==
  \A a \in Abs : a.n = 0 => \E b \in Abs : RunTo(r, s, a, b) /\ b.n = Count(r)

\* After n bytes, request r wants those of page p, out-of-band bytes first.
WantsPage(r, n, p) == \A i \in 1 .. PageOob : Place(r, n + i) = ReadPlace(p, i)

LEMMA PageSizes ==
  /\ PageOob = PageSize + OobSize /\ PageSize \in Nat \ {0} /\ OobSize \in Nat \ {0}
  /\ PageOob \in Nat
  /\ PageSize \in 0 .. PageOob - 1 /\ OobSize <= PageOob - PageSize
  /\ 0 \in 0 .. PageOob - 1 /\ PageSize <= PageOob - 0
  BY Sizes, NandGeometry DEF PageOob

LEMMA PageWanted ==
  ASSUME NEW r, NEW n \in Nat, NEW p \in Nat, WantsPage(r, n, p)
  PROVE  /\ Wants(r, n, At(p, PageSize), OobSize)
         /\ Wants(r, n + OobSize, At(p, 0), PageSize)
<1> DEFINE m == p * PageOob
<1>0. m \in Nat
  BY Sizes, MulNat
<1>1. \A i : ReadPlace(p, i) = m + (IF i <= OobSize THEN PageSize + i - 1 ELSE i - OobSize - 1)
      /\ At(p, PageSize) = m + PageSize /\ At(p, 0) = m + 0
  BY DEF ReadPlace, At
<1> HIDE DEF m
<1>2. ASSUME NEW i \in 1 .. OobSize
      PROVE  Place(r, n + i) = At(p, PageSize) + i - 1
  <2>1. i \in 1 .. PageOob /\ i <= OobSize
    BY PageSizes
  <2>2. Place(r, n + i) = ReadPlace(p, i)
    BY <2>1 DEF WantsPage
  <2> QED BY <1>0, <1>1, <2>1, <2>2, PageSizes
<1>3. ASSUME NEW i \in 1 .. PageSize
      PROVE  Place(r, n + OobSize + i) = At(p, 0) + i - 1
  <2>1. OobSize + i \in 1 .. PageOob /\ ~(OobSize + i <= OobSize)
        /\ n + OobSize + i = n + (OobSize + i) /\ (OobSize + i) - OobSize - 1 = i - 1
    BY PageSizes
  <2>2. Place(r, n + (OobSize + i)) = ReadPlace(p, OobSize + i)
    BY <2>1 DEF WantsPage
  <2> QED BY <1>0, <1>1, <2>1, <2>2, PageSizes
<1>4. QED
  BY <1>2, <1>3 DEF Wants

LEMMA ServesBoot == Serves(Boot, BootScript)
<1> SUFFICES ASSUME NEW a \in Abs, a.n = 0
             PROVE  \E b \in Abs : RunTo(Boot, BootScript, a, b) /\ b.n = Count(Boot)
  BY DEF Serves
<1>1. 0 \in 0 .. PageOob - 1 /\ 0 \in 0 .. Pages - 1
      /\ PageSize \in Nat /\ PageSize <= PageOob - 0
  BY PageSizes, Sizes
<1>2. Count(Boot) = PageSize /\ \A i : Place(Boot, i) = i - 1
  BY DEF Count, Place, Boot
<1>3. Wants(Boot, a.n, At(0, 0), PageSize)
  <2>1. At(0, 0) = 0
    BY Sizes DEF At
  <2>2. ASSUME NEW i \in 1 .. PageSize PROVE Place(Boot, a.n + i) = At(0, 0) + i - 1
    <3>1. a.n + i = i
      OBVIOUS
    <3> QED BY <1>2, <2>1, <3>1
  <2> QED BY <2>2 DEF Wants
<1>4. AtRow(Boot, BootScript, a, 0, a.n + PageSize)
  BY <1>1, <1>3, FirstLoadRuns DEF BootScript
<1>5. a.n + PageSize = Count(Boot)
  BY <1>2, PageSizes
<1>6. QED
  BY <1>4, <1>5 DEF AtRow

LEMMA ReadOobRuns ==
  ASSUME NEW r, NEW a \in Abs, NEW p \in 0 .. Pages - 1,
         Wants(r, a.n, At(p, PageSize), OobSize)
  PROVE  AtRow(r, ReadOobScript(p), a, p, a.n + OobSize)
<1>1. PageSize \in 0 .. PageOob - 1 /\ OobSize \in Nat /\ OobSize <= PageOob - PageSize
  BY PageSizes
<1>2. QED
  BY <1>1, FirstLoadRuns DEF ReadOobScript

LEMMA OnePageRuns ==
  ASSUME NEW r, NEW a \in Abs, NEW p \in 0 .. Pages - 1, WantsPage(r, a.n, p)
  PROVE  \E b \in Abs : RunTo(r, ReadScript(p), a, b) /\ b.n = a.n + PageOob
<1>0. /\ Wants(r, a.n, At(p, PageSize), OobSize)
      /\ Wants(r, a.n + OobSize, At(p, 0), PageSize)
  BY PageWanted DEF Abs
<1>1. PICK b \in Abs :
        RunTo(r, ReadOobScript(p), a, b) /\ Row(b.addr) = p /\ b.n = a.n + OobSize
  BY <1>0, ReadOobRuns DEF AtRow
<1>2. PICK d \in Abs :
        RunTo(r, Latch("RNDOUT"), b, d) /\ d.addr = b.addr /\ d.cyc = 0 /\ d.n = b.n
  <2> DEFINE c == "RNDOUT"
  <2>1. c \in {"READ0", "RNDOUT", "SEQIN"}
    OBVIOUS
  <2> HIDE DEF c
  <2>2. \E d \in Abs : /\ RunTo(r, Latch(c), b, d)
                        /\ d.cmd = c /\ d.addr = b.addr /\ d.cyc = 0 /\ d.left = 0
                        /\ d.n = b.n /\ (c = "SEQIN" => d.m = 0)
    BY <2>1, RunStart
  <2> QED BY <2>2 DEF c
<1>3. 0 \in 0 .. ColSpan - 1 /\ p < Pages /\ 0 < PageOob /\ p \in Nat
  BY Powers, Sizes
<1>4. PICK e \in Abs : /\ RunTo(r, Col(0), d, e)
                       /\ Column(e.addr) = 0 /\ Row(e.addr) = Row(d.addr) /\ e.n = d.n
  BY <1>2, <1>3, RunColumn
<1>5. PICK f \in Abs :
        /\ RunTo(r, Latch("RNDOUTSTART"), e, f)
        /\ f.cmd = "RNDOUTSTART" /\ f.n = e.n
        /\ f.left = PageOob - Column(e.addr) /\ f.from = Offset(e.addr)
  <2>1. Row(e.addr) < Pages /\ Column(e.addr) < PageOob
    BY <1>1, <1>2, <1>3, <1>4
  <2> QED BY <2>1, RunFetch
<1>6. f.from = At(p, 0) /\ f.n = a.n + OobSize
  <2>1. Row(e.addr) = p /\ 0 \in Nat
    BY <1>1, <1>2, <1>4
  <2>2. Offset(e.addr) = At(p, 0)
    BY <1>3, <1>4, <2>1, OffsetOf
  <2> QED BY <1>1, <1>2, <1>4, <1>5, <2>2
<1>7. PICK g \in Abs : RunTo(r, Reads(PageSize), f, g) /\ g.n = f.n + PageSize
  <2>1. PageSize \in Nat /\ PageSize <= f.left /\ f.cmd # "STATUS"
    BY <1>4, <1>5, PageSizes
  <2>2. Wants(r, f.n, f.from, PageSize)
    BY <1>0, <1>6
  <2> QED BY <2>1, <2>2, RunReads
<1>8. RunTo(r, ReadOobScript(p) \o Latch("RNDOUT") \o Col(0), a, e)
  BY <1>1, <1>2, <1>4, RunJoin
<1>9. RunTo(r, ReadOobScript(p) \o Latch("RNDOUT") \o Col(0) \o Latch("RNDOUTSTART")
                 \o Reads(PageSize), a, g)
  BY <1>5, <1>7, <1>8, RunJoin
<1>10. g.n = a.n + PageOob
  BY <1>6, <1>7, PageSizes DEF Abs
<1>11. QED
  BY <1>9, <1>10 DEF ReadScript

LEMMA ServesReadOob ==
  ASSUME NEW r, r.op = "readoob", NEW p \in 0 .. Pages - 1, r.page = p
  PROVE  Serves(r, ReadOobScript(p))
<1> SUFFICES ASSUME NEW a \in Abs, a.n = 0
             PROVE  \E b \in Abs : RunTo(r, ReadOobScript(p), a, b) /\ b.n = Count(r)
  BY DEF Serves
<1>1. WantsPage(r, 0, p) /\ Count(r) = OobSize
  <2>1. Count(r) = OobSize /\ \A i : Place(r, i) = ReadPlace(p, i)
    BY DEF Count, Place
  <2>2. \A i \in 1 .. PageOob : 0 + i = i
    OBVIOUS
  <2> QED BY <2>1, <2>2 DEF WantsPage
<1>2. Wants(r, a.n, At(p, PageSize), OobSize)
  BY <1>1, PageWanted
<1>3. AtRow(r, ReadOobScript(p), a, p, a.n + OobSize)
  BY <1>2, ReadOobRuns
<1>4. a.n + OobSize = Count(r)
  BY <1>1, PageSizes
<1>5. QED
  BY <1>3, <1>4 DEF AtRow

LEMMA WholePage ==
  ASSUME NEW r, r.op \in {"read", "load"}
  PROVE  WantsPage(r, 0, r.page) /\ Count(r) = PageOob
<1>1. Count(r) = PageOob /\ \A i : Place(r, i) = ReadPlace(r.page, i)
  BY DEF Count, Place
<1>2. \A i \in 1 .. PageOob : 0 + i = i
  OBVIOUS
<1>3. QED
  BY <1>1, <1>2 DEF WantsPage

LEMMA ServesRead ==
  ASSUME NEW r, r.op = "read", NEW p \in 0 .. Pages - 1, r.page = p
  PROVE  Serves(r, ReadScript(p))
<1> SUFFICES ASSUME NEW a \in Abs, a.n = 0
             PROVE  \E b \in Abs : RunTo(r, ReadScript(p), a, b) /\ b.n = Count(r)
  BY DEF Serves
<1>1. WantsPage(r, a.n, p) /\ Count(r) = PageOob
  BY WholePage
<1>2. PICK b \in Abs : RunTo(r, ReadScript(p), a, b) /\ b.n = a.n + PageOob
  BY <1>1, OnePageRuns
<1>3. b.n = Count(r)
  BY <1>1, <1>2, PageSizes
<1>4. QED
  BY <1>2, <1>3

LEMMA ServesLoad ==
  ASSUME NEW r, r.op = "load", NEW p \in 0 .. Pages - 1, r.page = p
  PROVE  Serves(r, LoadScript(p))
<1> SUFFICES ASSUME NEW a \in Abs, a.n = 0
             PROVE  \E b \in Abs : RunTo(r, LoadScript(p), a, b) /\ b.n = Count(r)
  BY DEF Serves
<1>1. WantsPage(r, 0, p) /\ Count(r) = PageOob
  BY WholePage
<1>2. /\ Wants(r, a.n, At(p, PageSize), OobSize)
      /\ Wants(r, 0 + OobSize, At(p, 0), PageSize)
  BY <1>1, PageWanted
<1>3. PICK b \in Abs : RunTo(r, ReadOobScript(p), a, b) /\ b.n = a.n + OobSize
  BY <1>2, ReadOobRuns DEF AtRow
<1>4. 0 \in 0 .. PageOob - 1 /\ PageSize \in Nat /\ PageSize <= PageOob - 0
  BY PageSizes
<1>5. AtRow(r, LoadScript(p), a, p, b.n + PageSize)
  <2>1. Wants(r, b.n, At(p, 0), PageSize)
    BY <1>2, <1>3
  <2> QED BY <1>3, <1>4, <2>1, LoadRuns DEF LoadScript
<1>6. b.n + PageSize = Count(r)
  BY <1>1, <1>3, PageSizes
<1>7. QED
  BY <1>5, <1>6 DEF AtRow

(* Programs: the bytes sent are those of the request, and all of them.     *)
LEMMA ServesWrite ==
  ASSUME NEW r, r.op = "write", NEW p \in 0 .. Pages - 1, r.page = p,
         NEW d \in [1 .. PageSize -> Data], r.data = d,
         NEW o \in [1 .. OobSize -> Data], r.oob = o
  PROVE  Serves(r, WriteScript(p, d, o))
<1> SUFFICES ASSUME NEW a \in Abs, a.n = 0
             PROVE  \E b \in Abs : RunTo(r, WriteScript(p, d, o), a, b) /\ b.n = Count(r)
  BY DEF Serves
<1>1. PICK e \in Abs : RunTo(r, Status, a, e) /\ e.n = a.n
  BY RunStatus
<1>2. 0 \in 0 .. PageOob - 1 /\ "SEQIN" \in {"READ0", "SEQIN"}
  BY Sizes
<1>3. PICK f \in Abs :
        /\ RunTo(r, Status \o Latch("SEQIN") \o Col(0) \o RowOf(p), a, f)
        /\ f.cmd = "SEQIN" /\ f.left = 0 /\ f.n = e.n /\ f.m = 0
        /\ Row(f.addr) = p /\ Column(f.addr) = 0
  <2>1. \E f \in Abs :
          Selects(r, Status \o Latch("SEQIN") \o Col(0) \o RowOf(p), a, f,
                  "SEQIN", 0, p, e.n)
    BY <1>1, <1>2, SelectRuns
  <2> QED BY <2>1 DEF Selects
<1>4. /\ d \in Seq(Data) /\ Len(d) = PageSize /\ o \in Seq(Data) /\ Len(o) = OobSize
  BY PageSizes
<1>5. PICK g \in Abs :
        /\ RunTo(r, Writes(d), f, g)
        /\ g.addr = f.addr /\ g.n = f.n /\ g.left = 0 /\ g.m = f.m + Len(d)
  <2>1. Sends(r, f.m, d)
    <3>1. ASSUME NEW i \in 1 .. Len(d) PROVE Sent(r, f.m + i) = d[i]
      <4>1. f.m + i = i /\ i <= PageSize
        BY <1>3, <1>4, PageSizes
      <4> QED BY <4>1 DEF Sent
    <3> QED BY <3>1 DEF Sends
  <2>2. f.m >= 0 /\ f.left = 0 /\ f.m + Len(d) <= PageOob
    BY <1>3, <1>4, PageSizes
  <2>3. \E g \in Abs : Receives(r, f, g, d)
    BY <1>4, <2>1, <2>2, RunWrites
  <2> QED BY <2>3 DEF Receives
<1>6. PICK h \in Abs :
        /\ RunTo(r, Writes(o), g, h)
        /\ h.addr = g.addr /\ h.n = g.n /\ h.left = 0 /\ h.m = g.m + Len(o)
  <2>0. g.m = PageSize
    BY <1>3, <1>4, <1>5, PageSizes
  <2>1. Sends(r, g.m, o)
    <3>1. ASSUME NEW i \in 1 .. Len(o) PROVE Sent(r, g.m + i) = o[i]
      <4>1. ~(g.m + i <= PageSize) /\ (g.m + i) - PageSize = i
        BY <2>0, <1>4, PageSizes
      <4> QED BY <4>1 DEF Sent
    <3> QED BY <3>1 DEF Sends
  <2>2. g.m >= 0 /\ g.left = 0 /\ g.m + Len(o) <= PageOob
    BY <2>0, <1>4, <1>5, PageSizes
  <2>3. \E h \in Abs : Receives(r, g, h, o)
    BY <1>4, <2>1, <2>2, RunWrites
  <2> QED BY <2>3 DEF Receives
<1>7. RunTo(r, Status \o Latch("SEQIN") \o Col(0) \o RowOf(p) \o Writes(d) \o Writes(o), a, h)
  BY <1>3, <1>5, <1>6, RunJoin
<1>8. h.m = PageOob /\ h.n = 0 /\ Row(h.addr) = r.page /\ Column(h.addr) = 0
  BY <1>1, <1>3, <1>4, <1>5, <1>6, PageSizes
<1>9. Filled(r, h)
  BY <1>8 DEF Filled
<1>10. Count(r) = 0
  BY DEF Count
<1>11. QED
  BY <1>7, <1>8, <1>9, <1>10, ConfirmRuns DEF WriteScript

LEMMA ServesWriteOob ==
  ASSUME NEW r, r.op = "writeoob", NEW p \in 0 .. Pages - 1, r.page = p,
         NEW o \in [1 .. OobSize -> Data], r.oob = o
  PROVE  Serves(r, WriteOobScript(p, o))
<1> SUFFICES ASSUME NEW a \in Abs, a.n = 0
             PROVE  \E b \in Abs : RunTo(r, WriteOobScript(p, o), a, b) /\ b.n = Count(r)
  BY DEF Serves
<1>1. PICK d \in Abs : RunTo(r, Latch("RESET"), a, d) /\ d.n = a.n
  BY RunReset
<1>2. PICK e \in Abs : RunTo(r, Status, d, e) /\ e.n = d.n
  BY RunStatus
<1>3. RunTo(r, Latch("RESET") \o Status, a, e)
  BY <1>1, <1>2, RunJoin
<1>4. PageSize \in 0 .. PageOob - 1 /\ "SEQIN" \in {"READ0", "SEQIN"}
  BY PageSizes
<1>5. PICK f \in Abs :
        /\ RunTo(r, Latch("RESET") \o Status \o Latch("SEQIN") \o Col(PageSize) \o RowOf(p), a, f)
        /\ f.cmd = "SEQIN" /\ f.left = 0 /\ f.n = e.n /\ f.m = 0
        /\ Row(f.addr) = p /\ Column(f.addr) = PageSize
  <2>1. \E f \in Abs :
          Selects(r, Latch("RESET") \o Status \o Latch("SEQIN") \o Col(PageSize) \o RowOf(p), a, f,
                  "SEQIN", PageSize, p, e.n)
    BY <1>3, <1>4, SelectRuns
  <2> QED BY <2>1 DEF Selects
<1>6. o \in Seq(Data) /\ Len(o) = OobSize
  BY PageSizes
<1>7. PICK h \in Abs :
        /\ RunTo(r, Writes(o), f, h)
        /\ h.addr = f.addr /\ h.n = f.n /\ h.left = 0 /\ h.m = f.m + Len(o)
  <2>1. Sends(r, f.m, o)
    <3>1. ASSUME NEW i \in 1 .. Len(o) PROVE Sent(r, f.m + i) = o[i]
      <4>1. f.m + i = i
        BY <1>5, <1>6, PageSizes
      <4> QED BY <4>1 DEF Sent
    <3> QED BY <3>1 DEF Sends
  <2>2. f.m >= 0 /\ f.left = 0 /\ f.m + Len(o) <= PageOob
    BY <1>5, <1>6, PageSizes
  <2>3. \E h \in Abs : Receives(r, f, h, o)
    BY <1>6, <2>1, <2>2, RunWrites
  <2> QED BY <2>3 DEF Receives
<1>8. RunTo(r, Latch("RESET") \o Status \o Latch("SEQIN") \o Col(PageSize) \o RowOf(p)
                 \o Writes(o), a, h)
  BY <1>5, <1>7, RunJoin
<1>9. h.m = OobSize /\ h.n = 0 /\ Row(h.addr) = r.page /\ Column(h.addr) = PageSize
  BY <1>1, <1>2, <1>5, <1>6, <1>7, PageSizes
<1>10. Filled(r, h)
  BY <1>9 DEF Filled
<1>11. Count(r) = 0
  BY DEF Count
<1>12. QED
  BY <1>8, <1>9, <1>10, <1>11, ConfirmRuns DEF WriteOobScript

LEMMA ServesErase ==
  ASSUME NEW r, r.op = "erase", NEW p \in 0 .. Pages - 1, r.page = p
  PROVE  Serves(r, EraseScript(p))
<1> SUFFICES ASSUME NEW a \in Abs, a.n = 0
             PROVE  \E b \in Abs : RunTo(r, EraseScript(p), a, b) /\ b.n = Count(r)
  BY DEF Serves
<1>1. PICK d \in Abs : RunTo(r, Status, a, d) /\ d.n = a.n
  BY RunStatus
<1>2. p \in Nat /\ p < Pages
  BY Sizes
<1>3. PICK e \in Abs : /\ RunTo(r, Status \o Latch("ERASE1") \o RowOf(p), a, e)
                       /\ e.n = d.n /\ (p < Pages => Row(e.addr) = p)
  BY <1>1, <1>2, EraseRowRuns
<1>4. Aimed(r, e) /\ e.n = 0
  BY <1>1, <1>2, <1>3 DEF Aimed
<1>5. PICK f \in Abs : RunTo(r, Latch("ERASE2"), e, f) /\ f.n = 0
  BY <1>4, RunErase
<1>6. PICK g \in Abs : RunTo(r, Status, f, g) /\ g.n = f.n
  BY RunStatus
<1>7. RunTo(r, Status \o Latch("ERASE1") \o RowOf(p) \o Latch("ERASE2") \o Status, a, g)
  BY <1>3, <1>5, <1>6, RunJoin
<1>8. Count(r) = 0
  BY DEF Count
<1>9. QED
  BY <1>5, <1>6, <1>7, <1>8 DEF EraseScript

(* The identification, for the kernel and for the boot loader.             *)
LEMMA IdentityWanted ==
  ASSUME NEW r, r.op \in {"identify", "query"}
  PROVE  Wants(r, 0, -5, 5) /\ Count(r) = 5
<1>1. Count(r) = 5 /\ \A i : Place(r, i) = i - 6
  BY DEF Count, Place
<1>2. \A i \in 1 .. 5 : 0 + i = i /\ i - 6 = -5 + i - 1
  OBVIOUS
<1>3. QED
  BY <1>1, <1>2 DEF Wants

LEMMA ServesIdentify ==
  ASSUME NEW r, r.op = "identify"
  PROVE  Serves(r, IdentifyScript)
<1> SUFFICES ASSUME NEW a \in Abs, a.n = 0
             PROVE  \E b \in Abs : RunTo(r, IdentifyScript, a, b) /\ b.n = Count(r)
  BY DEF Serves
<1>1. Wants(r, a.n, -5, 5) /\ Count(r) = 5
  BY IdentityWanted
<1>2. PICK b \in Abs : RunTo(r, IdentifyScript, a, b) /\ b.n = a.n + 5
  BY <1>1, RunIdentify
<1>3. QED
  BY <1>1, <1>2

LEMMA ServesQuery ==
  ASSUME NEW r, r.op = "query"
  PROVE  Serves(r, QueryScript)
<1> SUFFICES ASSUME NEW a \in Abs, a.n = 0
             PROVE  \E b \in Abs : RunTo(r, QueryScript, a, b) /\ b.n = Count(r)
  BY DEF Serves
<1>1. PICK d \in Abs : RunTo(r, Latch("RESET"), a, d) /\ d.n = a.n
  BY RunReset
<1>2. Wants(r, d.n, -5, 5) /\ Count(r) = 5
  BY <1>1, IdentityWanted
<1>3. PICK e \in Abs : RunTo(r, IdentifyScript, d, e) /\ e.n = d.n + 5
  BY <1>2, RunIdentify
<1>4. RunTo(r, QueryScript, a, e)
  BY <1>1, <1>3, RunJoin DEF QueryScript
<1>5. QED
  BY <1>1, <1>2, <1>3, <1>4

(* Two planes: the pages paired are pages of the chip.                     *)
LEMMA TwinPages ==
  ASSUME NEW g \in 0 .. (Pages \div 2) - 1
  PROVE  /\ TwinPage(g) \in Nat
         /\ "read2" \in Ops =>
              TwinPage(g) \in 0 .. Pages - 1 /\ TwinPage(g) + BlockPages \in 0 .. Pages - 1
<1> DEFINE q == g \div BlockPages
           k == g % BlockPages
<1>1. Pages \div 2 \in Nat /\ g \in Nat /\ BlockPages \in Nat \ {0}
  BY Sizes
<1>2. q \in Nat /\ k \in 0 .. BlockPages - 1 /\ g = BlockPages * q + k
  <2>1. q \in Nat
    BY <1>1, DivNat
  <2>2. g \in Int /\ BlockPages \in Nat \ {0}
    BY <1>1
  <2>3. k \in 0 .. BlockPages - 1 /\ g = BlockPages * q + k
    BY <2>2, DivMod
  <2> QED BY <2>1, <2>3
<1> HIDE DEF q, k
<1>3. q * BlockPages \in Nat /\ q * BlockPages = BlockPages * q
  BY <1>1, <1>2, MulNat
<1>4. TwinPage(g) = q * BlockPages + g
  BY DEF TwinPage, q
<1>5. ASSUME "read2" \in Ops
      PROVE  TwinPage(g) + BlockPages < Pages
  <2>1. PICK n \in 1 .. Pages : Pages = 2 * BlockPages * n
    BY <1>5, DriverGeometry
  <2> DEFINE m == BlockPages * n
  <2>2. n \in Nat /\ m \in Nat /\ Pages = 2 * m
    BY <1>1, <2>1, Sizes, MulNat
  <2>3. Pages \div 2 = m
    BY <2>2
  <2>4. BlockPages * (q + 1) <= m
    <3>1. SUFFICES ASSUME q + 1 > n PROVE FALSE
      BY <1>1, <1>2, <2>2, MulMono
    <3>2. m <= BlockPages * q
      BY <1>1, <1>2, <2>2, <3>1, MulMono
    <3> HIDE DEF m
    <3> QED BY <1>1, <1>2, <1>3, <2>2, <2>3, <3>2
  <2>5. BlockPages * (q + 1) = q * BlockPages + BlockPages
    BY <1>1, <1>2
  <2> HIDE DEF m
  <2> QED BY <1>1, <1>2, <1>3, <1>4, <2>2, <2>4, <2>5
<1>6. TwinPage(g) \in Nat
  BY <1>1, <1>3, <1>4
<1>7. QED
  BY <1>1, <1>5, <1>6, Sizes

LEMMA ServesErasePlanes ==
  ASSUME NEW r, r.op = "erase2", NEW g \in 0 .. (Pages \div 2) - 1
  PROVE  Serves(r, ErasePlanesScript(g))
<1> SUFFICES ASSUME NEW a \in Abs, a.n = 0
             PROVE  \E b \in Abs : RunTo(r, ErasePlanesScript(g), a, b) /\ b.n = Count(r)
  BY DEF Serves
<1> DEFINE p == TwinPage(g) + BlockPages
           t == TopBit(TwinPage(g))
           u == p - (p % BlockPages)
<1>1. t \in Nat
  BY Sizes DEF TopBit
<1>2. u \in Nat
  <2>1. p \in Nat /\ BlockPages \in Nat \ {0}
    BY TwinPages, Sizes
  <2> HIDE DEF p
  <2>2. p \div BlockPages \in Nat /\ p = BlockPages * (p \div BlockPages) + (p % BlockPages)
        /\ BlockPages * (p \div BlockPages) \in Nat /\ p % BlockPages \in Nat
    BY <2>1, DivMod, DivNat, MulNat
  <2> QED BY <2>1, <2>2
<1> HIDE DEF t, u
<1>3. PICK d \in Abs : RunTo(r, Status, a, d) /\ d.n = a.n
  BY RunStatus
<1>4. PICK e \in Abs : RunTo(r, Status \o Latch("ERASE1") \o RowOf(t), a, e) /\ e.n = d.n
  BY <1>1, <1>3, EraseRowRuns
<1>5. PICK f \in Abs :
        /\ RunTo(r, Status \o Latch("ERASE1") \o RowOf(t) \o Latch("ERASE1") \o RowOf(u), a, f)
        /\ f.n = e.n
  BY <1>2, <1>4, EraseRowRuns
<1>6. Aimed(r, f) /\ f.n = 0
  BY <1>3, <1>4, <1>5 DEF Aimed
<1>7. PICK h \in Abs : RunTo(r, Latch("ERASE2"), f, h) /\ h.n = 0
  BY <1>6, RunErase
<1>8. PICK i \in Abs : RunTo(r, Status, h, i) /\ i.n = h.n
  BY RunStatus
<1>9. RunTo(r, Status \o Latch("ERASE1") \o RowOf(t) \o Latch("ERASE1") \o RowOf(u)
                 \o Latch("ERASE2") \o Status, a, i)
  BY <1>5, <1>7, <1>8, RunJoin
<1>10. Count(r) = 0
  BY DEF Count
<1>11. QED
  BY <1>7, <1>8, <1>9, <1>10 DEF ErasePlanesScript, t, u, p

LEMMA ServesReadPlanes ==
  ASSUME NEW r, r.op = "read2", NEW g \in 0 .. (Pages \div 2) - 1, r.page = g,
         "read2" \in Ops
  PROVE  Serves(r, ReadPlanesScript(g))
<1> SUFFICES ASSUME NEW a \in Abs, a.n = 0
             PROVE  \E b \in Abs : RunTo(r, ReadPlanesScript(g), a, b) /\ b.n = Count(r)
  BY DEF Serves
<1> DEFINE t == TwinPage(g)
           u == TwinPage(g) + BlockPages
<1>1. t \in 0 .. Pages - 1 /\ u \in 0 .. Pages - 1
  BY TwinPages
<1>2. /\ Count(r) = 2 * PageOob
      /\ \A i : Place(r, i) = IF i <= PageOob THEN ReadPlace(t, i)
                              ELSE ReadPlace(u, i - PageOob)
  BY DEF Count, Place
<1> HIDE DEF t, u
<1>3. WantsPage(r, 0, t)
  <2>1. \A i \in 1 .. PageOob : 0 + i = i /\ i <= PageOob
    OBVIOUS
  <2> QED BY <1>2, <2>1 DEF WantsPage
<1>4. WantsPage(r, PageOob, u)
  <2>1. \A i \in 1 .. PageOob : ~(PageOob + i <= PageOob) /\ (PageOob + i) - PageOob = i
    BY PageSizes
  <2> QED BY <1>2, <2>1 DEF WantsPage
<1>5. PICK b \in Abs : RunTo(r, ReadScript(t), a, b) /\ b.n = a.n + PageOob
  BY <1>1, <1>3, OnePageRuns
<1>6. b.n = PageOob
  BY <1>5, PageSizes
<1>7. PICK c \in Abs : RunTo(r, ReadScript(u), b, c) /\ c.n = b.n + PageOob
  BY <1>1, <1>4, <1>6, OnePageRuns
<1>8. RunTo(r, ReadScript(t) \o ReadScript(u), a, c)
  BY <1>5, <1>7, RunJoin
<1>9. c.n = Count(r)
  BY <1>2, <1>6, <1>7, PageSizes
<1>10. QED
  BY <1>8, <1>9 DEF ReadPlanesScript, t, u

(* What a request is.                                                      *)
LEMMA RequestShapes ==
  ASSUME NEW r \in Requests
  PROVE  /\ r.op \in Ops
         /\ \/ r.op \in {"read", "readoob", "load"} /\ r.page \in 0 .. Pages - 1
            \/ r.op \in {"identify", "query"}
            \/ r.op = "write" /\ r.page \in 0 .. Pages - 1
                 /\ r.data \in PageData /\ r.oob \in OobData
            \/ r.op = "writeoob" /\ r.page \in 0 .. Pages - 1 /\ r.oob \in OobData
            \/ r.op = "erase" /\ r.page \in 0 .. Pages - 1
            \/ r.op \in {"read2", "erase2"} /\ r.page \in 0 .. (Pages \div 2) - 1
            \/ r.op = "write2"
  BY DEF Requests, Req

LEMMA ServesScripts ==
  ASSUME NoPlaneProgram, NEW r \in Requests
  PROVE  Serves(r, Script(r))
<1>1. CASE r.op \in {"read", "readoob", "load"} /\ r.page \in 0 .. Pages - 1
  <2>1. CASE r.op = "read"
    <3>1. Script(r) = ReadScript(r.page)
      BY <2>1 DEF Script
    <3> QED BY <1>1, <2>1, <3>1, ServesRead
  <2>2. CASE r.op = "readoob"
    <3>1. Script(r) = ReadOobScript(r.page)
      BY <2>2 DEF Script
    <3> QED BY <1>1, <2>2, <3>1, ServesReadOob
  <2>3. CASE r.op = "load"
    <3>1. Script(r) = LoadScript(r.page)
      BY <2>3 DEF Script
    <3> QED BY <1>1, <2>3, <3>1, ServesLoad
  <2> QED BY <1>1, <2>1, <2>2, <2>3
<1>2. CASE r.op \in {"identify", "query"}
  <2>1. CASE r.op = "identify"
    <3>1. Script(r) = IdentifyScript
      BY <2>1 DEF Script
    <3> QED BY <2>1, <3>1, ServesIdentify
  <2>2. CASE r.op = "query"
    <3>1. Script(r) = QueryScript
      BY <2>2 DEF Script
    <3> QED BY <2>2, <3>1, ServesQuery
  <2> QED BY <1>2, <2>1, <2>2
<1>3. CASE r.op = "write" /\ r.page \in 0 .. Pages - 1
             /\ r.data \in PageData /\ r.oob \in OobData
  <2>1. Script(r) = WriteScript(r.page, r.data, r.oob)
    BY <1>3 DEF Script
  <2>2. r.data \in [1 .. PageSize -> Data] /\ r.oob \in [1 .. OobSize -> Data]
    BY <1>3, RequestData
  <2> QED BY <1>3, <2>1, <2>2, ServesWrite
<1>4. CASE r.op = "writeoob" /\ r.page \in 0 .. Pages - 1 /\ r.oob \in OobData
  <2>1. Script(r) = WriteOobScript(r.page, r.oob)
    BY <1>4 DEF Script
  <2>2. r.oob \in [1 .. OobSize -> Data]
    BY <1>4, RequestData
  <2> QED BY <1>4, <2>1, <2>2, ServesWriteOob
<1>5. CASE r.op = "erase" /\ r.page \in 0 .. Pages - 1
  <2>1. Script(r) = EraseScript(r.page)
    BY <1>5 DEF Script
  <2> QED BY <1>5, <2>1, ServesErase
<1>6. CASE r.op \in {"read2", "erase2"} /\ r.page \in 0 .. (Pages \div 2) - 1
  <2>1. CASE r.op = "read2"
    <3>1. Script(r) = ReadPlanesScript(r.page)
      BY <2>1 DEF Script
    <3>2. "read2" \in Ops
      BY <2>1, RequestShapes
    <3> QED BY <1>6, <2>1, <3>1, <3>2, ServesReadPlanes
  <2>2. CASE r.op = "erase2"
    <3>1. Script(r) = ErasePlanesScript(r.page)
      BY <2>2 DEF Script
    <3> QED BY <1>6, <2>2, <3>1, ServesErasePlanes
  <2> QED BY <1>6, <2>1, <2>2
<1>7. CASE r.op = "write2"
  BY <1>7, RequestShapes DEF NoPlaneProgram
<1>8. QED
  BY <1>1, <1>2, <1>3, <1>4, <1>5, <1>6, <1>7, RequestShapes

-----------------------------------------------------------------------------
(* The chip follows the abstract chip: a cycle that runs does not end the  *)
(* emulator and leaves the two in agreement.                               *)
LEMMA CommandKnown ==
  ASSUME NandInv, running, NEW r, NEW a \in Abs, NEW b \in Abs, Agrees(r, a),
         NEW c \in Command, CommandRuns(r, a, c, b), WriteCommand(c)
  PROVE  /\ KnownCommand(c) /\ running' /\ cmd' = c
         /\ addr' = b.addr /\ addr_cycle' = b.cyc
         /\ image' = image \/ b.n = 0
<1>1. addr \in Nat /\ Row(addr) \in Nat /\ iolen \in Int
  BY AddressParts DEF NandInv, NandTypeOK
<1>2. KnownCommand(c)
  <2>1. ~CommandExit(c)
    <3>1. c = "PAGEPROG" => Filled(r, a)
      BY DEF CommandRuns
    <3>2. Filled(r, a) => iolen >= 0
      BY PageSizes DEF Filled, Agrees, Received
    <3> QED BY <1>1, <3>1, <3>2 DEF CommandExit
  <2> QED BY <2>1 DEF WriteCommand
<1>3. running' /\ cmd' = c
  BY <1>2 DEF KnownCommand
<1>4. addr' = b.addr /\ addr_cycle' = b.cyc
  BY <1>2 DEF KnownCommand, CommandRuns, Agrees, StartAddress, StartErase, LoadPage,
        LoadNextPage, LoadId, LoadStatus, StartProgram, Program, Erase, ResetChip,
        LoadFrom, bufVars, mediaVars
<1>5. image' = image \/ b.n = 0
  <2>1. CASE c \in {"PAGEPROG", "ERASE2"}
    BY <2>1 DEF CommandRuns
  <2>2. CASE ~(c \in {"PAGEPROG", "ERASE2"})
    BY <1>2, <2>2 DEF KnownCommand, StartAddress, StartErase, LoadPage,
          LoadNextPage, LoadId, LoadStatus, StartProgram, Program, Erase, ResetChip,
          LoadFrom, mediaVars
  <2> QED BY <2>1, <2>2
<1>6. QED
  BY <1>2, <1>3, <1>4, <1>5

LEMMA CommandReadable ==
  ASSUME NandInv, running, NEW r, NEW a \in Abs, NEW b \in Abs, Agrees(r, a),
         NEW c \in Command, CommandRuns(r, a, c, b), WriteCommand(c)
  PROVE  Readable(b)'
<1>0. KnownCommand(c) /\ addr' = b.addr /\ b.cmd = c
  BY CommandKnown DEF CommandRuns
<1>1. addr \in Nat /\ Row(addr) \in Nat /\ iolen \in Int /\ io \in [0 .. IoSize - 1 -> Cell]
  BY AddressParts DEF NandInv, NandTypeOK
<1>2. CASE c \in {"READSTART", "RNDOUTSTART"}
  <2>1. LoadFrom(addr)
    BY <1>2, Commands
  <2>2. /\ b.left = PageOob - Column(addr) /\ Row(addr) < Pages /\ Column(addr) < PageOob
        /\ b.from = Offset(addr) /\ b.cmd # "STATUS"
    BY <1>2 DEF CommandRuns, Agrees
  <2>3. /\ ioaddr' = Offset(addr) % SectorSize /\ iolen' = PageOob - Column(addr)
        /\ addr' = addr /\ image' = image
    BY <1>1, <2>1, <2>2, Sizes DEF LoadFrom, LoadedPtr, mediaVars
  <2>4. Offset(addr) % SectorSize \in 0 .. SectorSize - 1
        /\ Column(addr) \in 0 .. ColSpan - 1 /\ Offset(addr) \in Nat
    BY <1>1, AddressParts
  <2>5. IoSize = PageOob + 2 * SectorSize /\ SectorSize \in Nat /\ PageOob \in Nat
    BY Sizes DEF IoSize
  <2>6. ioaddr' \in Nat /\ b.left <= iolen' /\ ioaddr' + b.left <= IoSize
    BY <2>2, <2>3, <2>4, <2>5
  <2>7. ASSUME NEW j \in 0 .. b.left - 1
        PROVE  io'[ioaddr' + j] = Value(b.from + j)'
    <3>1. io'[ioaddr' + j] = image[Offset(addr') + j]
      <4>1. j \in 0 .. iolen' - 1 /\ Row(addr') < Pages /\ Column(addr') < PageOob
            /\ c \in ReadCommand
        BY <1>2, <2>2, <2>3 DEF ReadCommand
      <4> QED BY <4>1, LoadStepHolds DEF LoadStep
    <3>2. ~(b.from + j < 0) /\ b.from + j = Offset(addr') + j
      BY <2>2, <2>3, <2>4
    <3> QED BY <2>3, <3>1, <3>2 DEF Value
  <2> QED BY <2>2, <2>6, <2>7 DEF Readable
<1>3. CASE c = "READID"
  <2>1. LoadId(c)
    BY <1>0, <1>3 DEF KnownCommand, StartAddress, StartErase, LoadPage,
         LoadNextPage, LoadStatus, StartProgram, Program, Erase, ResetChip
  <2>2. b.left = 5 /\ b.from = -5 /\ b.cmd # "STATUS"
    BY <1>3 DEF CommandRuns
  <2>3. IoSize \in Nat /\ IoSize >= 5
    BY Sizes
  <2>4. ioaddr' = 0 /\ iolen' = 5
    BY <2>1 DEF LoadId
  <2>5. ASSUME NEW j \in 0 .. 4 PROVE io'[0 + j] = Value(-5 + j)'
    <3>1. io'[j] = IdBytes[j + 1]
      BY <2>1, <2>3 DEF LoadId
    <3>2. -5 + j < 0 /\ (-5 + j) + 6 = j + 1 /\ 0 + j = j
      OBVIOUS
    <3> QED BY <3>1, <3>2 DEF Value
  <2> QED BY <2>2, <2>3, <2>4, <2>5 DEF Readable
<1>4. CASE c = "STATUS"
  <2>1. LoadStatus(c)
    BY <1>0, <1>4 DEF KnownCommand, StartAddress, StartErase, LoadPage,
         LoadNextPage, LoadId, StartProgram, Program, Erase, ResetChip
  <2>2. b.left = 1 /\ b.cmd = "STATUS"
    BY <1>4 DEF CommandRuns
  <2>3. io'[0] = Ready /\ ioaddr' = 0 /\ iolen' = 1
    BY <1>1, <2>1, Sizes DEF LoadStatus
  <2> QED BY <2>2, <2>3, Sizes DEF Readable
<1>5. CASE ~(c \in {"READSTART", "RNDOUTSTART", "READID", "STATUS"})
  BY <1>5 DEF CommandRuns, Readable
<1>6. QED
  BY <1>2, <1>3, <1>4, <1>5

\* As long as the image stays as it is, so do the bytes collected.
LEMMA CollectedStays ==
  ASSUME NEW r, NEW a \in Abs, NEW b \in Abs, Collected(r, a), got' = got, b.n = a.n,
         image' = image \/ b.n = 0
  PROVE  Collected(r, b)'
<1>1. got' \in Seq(Cell) /\ Len(got') = b.n
  BY DEF Collected
<1>2. ASSUME NEW i \in 1 .. b.n PROVE got'[i] = Value(Place(r, i))'
  <2>1. image' = image
    BY <1>2
  <2>2. got[i] = Value(Place(r, i))
    BY DEF Collected
  <2> QED BY <2>1, <2>2 DEF Value
<1>3. QED
  BY <1>1, <1>2 DEF Collected

LEMMA CommandAgrees ==
  ASSUME NandInv, running, NEW r, NEW a \in Abs, NEW b \in Abs, Agrees(r, a),
         NEW c \in Command, CommandRuns(r, a, c, b), WriteCommand(c), got' = got
  PROVE  Agrees(r, b)' /\ running'
<1>1. /\ KnownCommand(c) /\ running' /\ cmd' = c
      /\ addr' = b.addr /\ addr_cycle' = b.cyc
      /\ image' = image \/ b.n = 0
  BY CommandKnown
<1>2. Readable(b)'
  BY CommandReadable
<1>3. Collected(r, b)'
  BY <1>1, CollectedStays DEF Agrees, CommandRuns
<1>4. Received(r, b)'
  <2>1. CASE c = "SEQIN"
    <3>1. iolen' = 0
      BY <1>1, <2>1 DEF KnownCommand, StartAddress, StartErase, LoadPage,
         LoadNextPage, LoadId, LoadStatus, StartProgram, Program, Erase, ResetChip
    <3>2. b.m = 0 /\ b.cmd = "SEQIN"
      BY <2>1 DEF CommandRuns
    <3> QED BY <3>1, <3>2 DEF Received
  <2>2. CASE c # "SEQIN"
    BY <2>2 DEF Received, CommandRuns
  <2> QED BY <2>1, <2>2
<1>5. QED
  BY <1>1, <1>2, <1>3, <1>4 DEF Agrees, CommandRuns

LEMMA AddressAgrees ==
  ASSUME NandInv, running, NEW r, NEW a \in Abs, NEW b \in Abs, Agrees(r, a),
         NEW v \in 0 .. Base - 1, AddressRuns(a, v, b), WriteAddress(v), got' = got
  PROVE  Agrees(r, b)' /\ running' /\ image' = image
<1>1. addr_cycle < 5
  BY DEF AddressRuns, Agrees
<1>2. /\ addr' = SetByte(addr, addr_cycle, v) /\ addr_cycle' = addr_cycle + 1
      /\ running' /\ cmd' = cmd /\ ioaddr' = ioaddr /\ iolen' = iolen /\ io' = io
      /\ image' = image
  BY <1>1 DEF WriteAddress, bufVars, mediaVars
<1>3. Readable(b)'
  BY <1>2 DEF AddressRuns, Agrees, Readable, Value
<1>4. Collected(r, b)'
  BY <1>2, CollectedStays DEF AddressRuns, Agrees
<1>5. Received(r, b)'
  BY <1>2 DEF AddressRuns, Agrees, Received
<1>6. QED
  BY <1>2, <1>3, <1>4, <1>5 DEF AddressRuns, Agrees

LEMMA WriteAgrees ==
  ASSUME NandInv, running, NEW r, NEW a \in Abs, NEW b \in Abs, Agrees(r, a),
         NEW v \in Data, WriteRuns(r, a, v, b), WriteData(v), got' = got
  PROVE  Agrees(r, b)' /\ running' /\ image' = image
<1>1. /\ a.m \in Int /\ 0 <= a.m /\ a.m < PageOob /\ v = Sent(r, a.m + 1)
      /\ cmd = "SEQIN" /\ a.cmd = "SEQIN" /\ iolen = a.m
      /\ \A j \in 0 .. a.m - 1 : io[j] = Sent(r, j + 1)
  BY DEF WriteRuns, Agrees, Received, Abs
<1>2. /\ running' /\ ioaddr' = ioaddr /\ addr' = addr /\ addr_cycle' = addr_cycle
      /\ cmd' = cmd /\ image' = image
      /\ io' = [io EXCEPT ![iolen] = v] /\ iolen' = iolen + 1
  BY <1>1 DEF WriteData, mediaVars
<1>3. Readable(b)'
  BY DEF WriteRuns, Readable
<1>4. Collected(r, b)'
  BY <1>2, CollectedStays DEF WriteRuns, Agrees
<1>5. Received(r, b)'
  <2>1. b.m = a.m + 1 /\ b.cmd = "SEQIN" /\ iolen' = a.m + 1
    BY <1>1, <1>2 DEF WriteRuns
  <2>2. io \in [0 .. IoSize - 1 -> Cell] /\ a.m \in 0 .. IoSize - 1
    BY <1>1, Sizes DEF NandInv, NandTypeOK
  <2>3. ASSUME NEW j \in 0 .. b.m - 1 PROVE io'[j] = Sent(r, j + 1)
    <3>1. CASE j = a.m
      BY <1>1, <1>2, <2>2, <3>1
    <3>2. CASE j # a.m
      <4>1. j \in 0 .. a.m - 1 /\ j \in 0 .. IoSize - 1
        BY <1>1, <2>1, <2>2, <3>2, Sizes
      <4>2. io'[j] = io[j]
        BY <1>1, <1>2, <2>2, <3>2, <4>1
      <4> QED BY <1>1, <4>1, <4>2
    <3> QED BY <3>1, <3>2
  <2> QED BY <2>1, <2>3 DEF Received
<1>6. QED
  BY <1>2, <1>3, <1>4, <1>5 DEF WriteRuns, Agrees

LEMMA FetchRuns ==
  ASSUME NandInv, running, NEW r, NEW a \in Abs, Agrees(r, a), a.left > 0,
         NEW v \in Cell, ReadData(v)
  PROVE  /\ v = io[ioaddr] /\ running' /\ addr' = addr /\ addr_cycle' = addr_cycle
         /\ cmd' = cmd /\ image' = image /\ io' = io
         /\ iolen' = (IF cmd = "STATUS" THEN iolen ELSE iolen - 1)
         /\ ioaddr' = (IF cmd = "STATUS" THEN ioaddr ELSE ioaddr + 1)
<1>1. /\ iolen \in Int /\ a.left \in Int /\ a.left > 0 /\ a.left <= iolen
      /\ ioaddr \in Nat /\ ioaddr + a.left <= IoSize
  BY DEF Agrees, Readable, Abs, NandInv, NandTypeOK
<1>2. Fetch(v, io, ioaddr, iolen, addr)
  BY <1>1 DEF ReadData, Continues
<1>3. ioaddr # NullPtr /\ ~(iolen <= 0) /\ ioaddr < IoSize
  BY <1>1, Sizes DEF NullPtr
<1>4. QED
  BY <1>2, <1>3 DEF Fetch, mediaVars

LEMMA StatusAgrees ==
  ASSUME NandInv, running, NEW r, NEW a \in Abs, Agrees(r, a), a.left > 0,
         a.cmd = "STATUS", NEW v \in Cell, ReadData(v), got' = got
  PROVE  Agrees(r, a)' /\ running' /\ v = Ready /\ image' = image
<1>1. /\ v = io[ioaddr] /\ running' /\ addr' = addr /\ addr_cycle' = addr_cycle
      /\ cmd' = cmd /\ image' = image /\ io' = io /\ iolen' = iolen /\ ioaddr' = ioaddr
  <2>1. cmd = "STATUS"
    BY DEF Agrees
  <2> QED BY <2>1, FetchRuns
<1>2. v = Ready
  BY <1>1 DEF Agrees, Readable
<1>3. Readable(a)' /\ Received(r, a)'
  BY <1>1 DEF Agrees, Readable, Received
<1>4. Collected(r, a)'
  BY <1>1, CollectedStays DEF Agrees
<1>5. QED
  BY <1>1, <1>2, <1>3, <1>4 DEF Agrees

LEMMA ReadAgrees ==
  ASSUME NandInv, running, NEW r, NEW a \in Abs, NEW b \in Abs, Agrees(r, a),
         NEW v \in Cell, ReadData(v), ReadRuns(r, a, b), got' = Append(got, v)
  PROVE  Agrees(r, b)' /\ running' /\ image' = image
<1>1. /\ a.left > 0 /\ a.left \in Int /\ a.cmd # "STATUS" /\ a.from \in Int /\ a.n \in Nat
      /\ a.from = Place(r, a.n + 1) /\ cmd = a.cmd
  BY DEF ReadRuns, Agrees, Abs
<1>2. /\ v = io[ioaddr] /\ running' /\ addr' = addr /\ addr_cycle' = addr_cycle
      /\ cmd' = cmd /\ image' = image /\ io' = io
      /\ iolen' = iolen - 1 /\ ioaddr' = ioaddr + 1
  BY <1>1, FetchRuns
<1>3. /\ ioaddr \in Nat /\ iolen \in Int /\ a.left <= iolen /\ ioaddr + a.left <= IoSize
      /\ \A j \in 0 .. a.left - 1 : io[ioaddr + j] = Value(a.from + j)
  BY <1>1 DEF Agrees, Readable, NandInv, NandTypeOK
<1>4. Readable(b)'
  <2>1. b.left = a.left - 1 /\ b.from = a.from + 1 /\ b.cmd # "STATUS"
    BY <1>1 DEF ReadRuns
  <2>2. ioaddr' \in Nat /\ b.left <= iolen' /\ ioaddr' + b.left <= IoSize
    BY <1>1, <1>2, <1>3, <2>1, Sizes
  <2>3. ASSUME NEW j \in 0 .. b.left - 1 PROVE io'[ioaddr' + j] = Value(b.from + j)'
    <3>1. j + 1 \in 0 .. a.left - 1 /\ ioaddr' + j = ioaddr + (j + 1)
          /\ b.from + j = a.from + (j + 1)
      BY <1>1, <1>2, <1>3, <2>1
    <3>2. io[ioaddr + (j + 1)] = Value(a.from + (j + 1))
      BY <1>3, <3>1
    <3> QED BY <1>2, <3>1, <3>2 DEF Value
  <2> QED BY <2>1, <2>2, <2>3 DEF Readable
<1>5. Collected(r, b)'
  <2>1. /\ got \in Seq(Cell) /\ Len(got) = a.n
        /\ \A i \in 1 .. a.n : got[i] = Value(Place(r, i))
    BY DEF Agrees, Collected
  <2>2. /\ got' \in Seq(Cell) /\ Len(got') = a.n + 1 /\ got'[a.n + 1] = v
        /\ \A i \in 1 .. a.n : got'[i] = got[i]
    BY <2>1
  <2>3. v = Value(a.from)
    <3>1. 0 \in 0 .. a.left - 1 /\ ioaddr + 0 = ioaddr /\ a.from + 0 = a.from
      BY <1>1, <1>3
    <3> QED BY <1>2, <1>3, <3>1
  <2>4. b.n = a.n + 1
    BY DEF ReadRuns
  <2>5. ASSUME NEW i \in 1 .. b.n PROVE got'[i] = Value(Place(r, i))'
    <3>1. CASE i = a.n + 1
      BY <1>1, <1>2, <2>2, <2>3, <3>1 DEF Value
    <3>2. CASE i # a.n + 1
      <4>1. i \in 1 .. a.n
        BY <1>1, <2>4, <3>2
      <4>2. got'[i] = Value(Place(r, i))
        BY <2>1, <2>2, <4>1
      <4> QED BY <1>2, <4>2 DEF Value
    <3> QED BY <3>1, <3>2
  <2> QED BY <2>2, <2>4, <2>5 DEF Collected
<1>6. Received(r, b)'
  BY DEF Received, ReadRuns
<1>7. QED
  BY <1>2, <1>4, <1>5, <1>6 DEF ReadRuns, Agrees
-----------------------------------------------------------------------------
(* The invariant: the rest of the script runs from where the chip is, to   *)
(* the end of the request.                                                 *)
OnScript ==
  \E a \in Abs, b \in Abs :
    Agrees(request, a) /\ RunTo(request, script, a, b) /\ b.n = Count(request)

DriverTypes ==
  /\ request \in Requests \union {None, Boot}
  /\ script \in Seq(Item)
  /\ got \in Seq(Cell)
  /\ issued \in 0 .. MaxRequests
  /\ restarts \in 0 .. MaxRestarts

\* A device that nobody holds has nothing to send and nothing received.
Idle == request = None => script = <<>> /\ got = <<>>

DriverInv ==
  /\ NandInv /\ DriverTypes /\ Idle /\ EmulatorRuns
  /\ running => OnScript

(* Wherever the chip stands, some abstract chip agrees with it, provided   *)
(* its address is one of five bytes; that address never leaves the span.   *)
LEMMA StartsOnScript ==
  ASSUME NandInv, addr < AddrSpan, got = <<>>, NEW r, NEW s, Serves(r, s)
  PROVE  \E a \in Abs, b \in Abs :
           Agrees(r, a) /\ RunTo(r, s, a, b) /\ b.n = Count(r)
<1> DEFINE a == [cmd |-> cmd, addr |-> addr, cyc |-> addr_cycle, left |-> 0,
                 from |-> 0, n |-> 0, m |-> -1]
<1>1. a \in Abs
  BY Powers DEF Abs, NandInv, NandTypeOK
<1>2. Agrees(r, a)
  <2>1. got \in Seq(Cell) /\ Len(got) = 0
    OBVIOUS
  <2>2. Readable(a) /\ Received(r, a) /\ Collected(r, a)
    BY <2>1 DEF Readable, Received, Collected
  <2> QED BY <2>2 DEF Agrees
<1>3. a.n = 0
  OBVIOUS
<1> HIDE DEF a
<1>4. QED
  BY <1>1, <1>2, <1>3 DEF Serves

LEMMA AddressInSpan == OnScript => addr < AddrSpan
<1> SUFFICES ASSUME OnScript PROVE addr < AddrSpan
  OBVIOUS
<1>1. PICK a \in Abs : Agrees(request, a)
  BY DEF OnScript
<1>2. QED
  BY <1>1, Powers DEF Agrees, Abs

LEMMA ServesNothing == Serves(None, <<>>)
<1>1. Count(None) = 0
  BY DEF Count, None
<1>2. QED
  BY <1>1, RunEmpty DEF Serves

(* After power up, the boot reader's script lies ahead.                    *)
LEMMA PowerUpOnScript ==
  ASSUME NandInv', PowerUp, script' = BootScript, request' = Boot, got' = <<>>
  PROVE  OnScript'
<1> DEFINE a == [cmd |-> "READ0", addr |-> 0, cyc |-> 0, left |-> 0, from |-> 0,
                 n |-> 0, m |-> -1]
<1>1. a \in Abs /\ a.cmd = "READ0" /\ a.addr = 0 /\ a.cyc = 0 /\ a.left = 0 /\ a.n = 0
      /\ a.m = -1
  BY Powers DEF Abs, Command
<1> HIDE DEF a
<1>2. Agrees(Boot, a)'
  <2>1. got' \in Seq(Cell) /\ Len(got') = 0
    OBVIOUS
  <2>2. Readable(a)' /\ Received(Boot, a)' /\ Collected(Boot, a)'
    BY <1>1, <2>1 DEF Readable, Received, Collected
  <2> QED BY <1>1, <2>2 DEF Agrees, PowerUp
<1>3. PICK b \in Abs : RunTo(Boot, BootScript, a, b) /\ b.n = Count(Boot)
  BY <1>1, ServesBoot DEF Serves
<1>4. Agrees(request, a)'
  BY <1>2
<1>5. RunTo(request', script', a, b) /\ b.n = Count(request')
  BY <1>3
<1>6. QED
  BY <1>1, <1>3, <1>4, <1>5 DEF OnScript

LEMMA BootTypes == BootScript \in Seq(Item) /\ Boot \in Requests \union {None, Boot}
<1>1. PICK a \in Abs : a.n = 0
  <2>1. [cmd |-> "READ0", addr |-> 0, cyc |-> 0, left |-> 0, from |-> 0, n |-> 0,
         m |-> -1] \in Abs
    BY Powers DEF Abs, Command
  <2> QED BY <2>1
<1>2. QED
  BY <1>1, ServesBoot DEF Serves, RunTo

LEMMA DriverInit == Init => DriverInv
<1> SUFFICES ASSUME Init PROVE DriverInv
  OBVIOUS
<1>1. NandInv
  BY NandInitInv DEF Init
<1>2. DriverTypes
  BY BootTypes, RequestData DEF Init, DriverTypes
<1>3. OnScript
  <2>1. addr < AddrSpan /\ got = <<>>
    BY Powers DEF Init, NandInit
  <2>2. \E a \in Abs, b \in Abs :
          Agrees(Boot, a) /\ RunTo(Boot, BootScript, a, b) /\ b.n = Count(Boot)
    BY <1>1, <2>1, ServesBoot, StartsOnScript
  <2> QED BY <2>2 DEF OnScript, Init
<1>4. EmulatorRuns /\ Idle
  BY DEF EmulatorRuns, Init, NandInit, Idle, None, Boot
<1>5. QED
  BY <1>1, <1>2, <1>3, <1>4 DEF DriverInv

(* A step of the bus: the chip takes the cycle the script has next.        *)
LEMMA NextCycle ==
  ASSUME OnScript, script # <<>>
  PROVE  /\ Tail(script) \in Seq(Item)
         /\ \E a \in Abs, b \in Abs, e \in Abs :
              /\ Agrees(request, a) /\ CycleRuns(request, a, Head(script), b)
              /\ RunTo(request, Tail(script), b, e) /\ e.n = Count(request)
<1>1. PICK a \in Abs, e \in Abs :
        Agrees(request, a) /\ RunTo(request, script, a, e) /\ e.n = Count(request)
  BY DEF OnScript
<1>2. /\ Tail(script) \in Seq(Item)
      /\ \E b \in Abs :
           CycleRuns(request, a, Head(script), b) /\ RunTo(request, Tail(script), b, e)
  BY <1>1, RunRest
<1>3. QED
  BY <1>1, <1>2

LEMMA BusFollows ==
  ASSUME DriverInv, BusCycle
  PROVE  /\ running /\ running' /\ script # <<>> /\ script' = Tail(script)
         /\ UNCHANGED <<request, reply, issued, restarts>>
         /\ got' \in Seq(Cell) /\ script' \in Seq(Item) /\ OnScript'
         /\ [NandNext]_nandVars
         /\ CommandCycle \/ image' = image
<1>1. running /\ script # <<>>
  BY DEF BusCycle, CommandCycle, AddressCycle, WriteCycle, ReadCycle, StatusCycle,
     Pending, WriteCommand, WriteAddress, WriteData, ReadData
<1>2. PICK a \in Abs, b \in Abs, e \in Abs :
        /\ Agrees(request, a) /\ CycleRuns(request, a, Head(script), b)
        /\ RunTo(request, Tail(script), b, e) /\ e.n = Count(request)
  BY <1>1, NextCycle DEF DriverInv
<1>3. Tail(script) \in Seq(Item) /\ NandInv /\ got \in Seq(Cell)
  BY <1>1, NextCycle DEF DriverInv, DriverTypes
<1>4. ASSUME script' = Tail(script), request' = request, Agrees(request, b)'
      PROVE  OnScript' /\ script' \in Seq(Item)
  <2>1. RunTo(request', script', b, e) /\ e.n = Count(request')
    BY <1>2, <1>4
  <2> QED BY <1>3, <1>4, <2>1 DEF OnScript
<1>5. CASE CommandCycle
  <2> DEFINE c == Head(script).arg
  <2>1. c \in Command /\ CommandRuns(request, a, c, b) /\ WriteCommand(c)
        /\ script' = Tail(script) /\ UNCHANGED <<request, got, reply, issued, restarts>>
    BY <1>2, <1>5 DEF CommandCycle, Pending, CycleRuns, Advance
  <2> HIDE DEF c
  <2>2. ASSUME NEW r, r = request PROVE Agrees(r, b)' /\ running'
    BY <1>1, <1>2, <1>3, <2>1, <2>2, CommandAgrees
  <2>3. Agrees(request, b)'
    BY <2>1, <2>2
  <2>4. [NandNext]_nandVars
    BY <2>1 DEF NandNext, NandCycle
  <2> QED BY <1>1, <1>3, <1>4, <1>5, <2>1, <2>2, <2>3, <2>4
<1>6. CASE AddressCycle
  <2> DEFINE v == Head(script).arg
  <2>1. v \in 0 .. Base - 1 /\ AddressRuns(a, v, b) /\ WriteAddress(v)
        /\ script' = Tail(script) /\ UNCHANGED <<request, got, reply, issued, restarts>>
    BY <1>2, <1>6 DEF AddressCycle, Pending, CycleRuns, Advance
  <2> HIDE DEF v
  <2>2. ASSUME NEW r, r = request PROVE Agrees(r, b)' /\ running' /\ image' = image
    BY <1>1, <1>2, <1>3, <2>1, <2>2, AddressAgrees
  <2>3. Agrees(request, b)'
    BY <2>1, <2>2
  <2>4. [NandNext]_nandVars
    BY <2>1 DEF NandNext, NandCycle
  <2> QED BY <1>1, <1>3, <1>4, <2>1, <2>2, <2>3, <2>4
<1>7. CASE WriteCycle
  <2> DEFINE v == Head(script).arg
  <2>1. v \in Data /\ WriteRuns(request, a, v, b) /\ WriteData(v)
        /\ script' = Tail(script) /\ UNCHANGED <<request, got, reply, issued, restarts>>
    BY <1>2, <1>7 DEF WriteCycle, Pending, CycleRuns, Advance
  <2> HIDE DEF v
  <2>2. ASSUME NEW r, r = request PROVE Agrees(r, b)' /\ running' /\ image' = image
    BY <1>1, <1>2, <1>3, <2>1, <2>2, WriteAgrees
  <2>3. Agrees(request, b)'
    BY <2>1, <2>2
  <2>4. [NandNext]_nandVars
    BY <2>1 DEF NandNext, NandCycle
  <2> QED BY <1>1, <1>3, <1>4, <2>1, <2>2, <2>3, <2>4
<1>8. CASE ReadCycle
  <2>1. PICK v \in Cell : ReadData(v) /\ got' = Append(got, v)
    BY <1>8 DEF ReadCycle
  <2>2. /\ ReadRuns(request, a, b)
        /\ script' = Tail(script) /\ UNCHANGED <<request, reply, issued, restarts>>
    BY <1>2, <1>8 DEF ReadCycle, Pending, CycleRuns, Advance
  <2>3. ASSUME NEW r, r = request PROVE Agrees(r, b)' /\ running' /\ image' = image
    BY <1>1, <1>2, <1>3, <2>1, <2>2, <2>3, ReadAgrees
  <2>4. Agrees(request, b)'
    BY <2>2, <2>3
  <2>5. [NandNext]_nandVars
    BY <2>1 DEF NandNext, NandCycle
  <2>6. got' \in Seq(Cell)
    BY <1>3, <2>1
  <2> QED BY <1>1, <1>4, <2>2, <2>3, <2>4, <2>5, <2>6
<1>9. CASE StatusCycle
  <2>1. PICK v \in Cell :
          /\ ReadData(v)
          /\ script' = IF v = Ready THEN Tail(script) ELSE <<>>
          /\ reply' = IF v = Ready THEN reply ELSE <<<<"EIO">>, <<>>>>
          /\ request' = IF v = Ready THEN request ELSE None
    BY <1>9 DEF StatusCycle
  <2>2. /\ a.left > 0 /\ a.cmd = "STATUS" /\ b = a
        /\ UNCHANGED <<got, issued, restarts>>
    BY <1>2, <1>9 DEF StatusCycle, Pending, CycleRuns
  <2>3. ASSUME NEW r, r = request
        PROVE  Agrees(r, a)' /\ running' /\ v = Ready /\ image' = image
    BY <1>1, <1>2, <1>3, <2>1, <2>2, <2>3, StatusAgrees
  <2>4. /\ script' = Tail(script) /\ reply' = reply /\ request' = request
    BY <2>1, <2>3
  <2>5. Agrees(request, b)'
    BY <2>2, <2>3, <2>4
  <2>6. [NandNext]_nandVars
    BY <2>1 DEF NandNext, NandCycle
  <2> QED BY <1>1, <1>3, <1>4, <2>2, <2>3, <2>4, <2>5, <2>6
<1>10. QED
  BY <1>5, <1>6, <1>7, <1>8, <1>9 DEF BusCycle

LEMMA DriverStep ==
  ASSUME NoPlaneProgram, DriverInv, [Next]_vars
  PROVE  DriverInv'
<1> USE DEF DriverInv
<1>1. CASE Issue
  <2>1. PICK r \in Requests : request' = r /\ script' = Script(r)
    BY <1>1 DEF Issue
  <2>2. UNCHANGED nandVars /\ running /\ issued' = issued + 1 /\ issued < MaxRequests
        /\ UNCHANGED <<got, restarts>> /\ request = None
    BY <1>1 DEF Issue
  <2>3. NandInv' /\ EmulatorRuns'
    BY <2>2, NandStepInv DEF EmulatorRuns, nandVars
  <2>4. Serves(r, Script(r))
    BY ServesScripts
  <2>5. addr < AddrSpan /\ got = <<>>
    BY <2>2, AddressInSpan DEF Idle
  <2>6. PICK a \in Abs, b \in Abs :
          Agrees(r, a) /\ RunTo(r, Script(r), a, b) /\ b.n = Count(r)
    BY <2>4, <2>5, StartsOnScript
  <2>7. OnScript'
    <3>1. Agrees(r, a)'
      BY <2>2, <2>6 DEF Agrees, Readable, Collected, Received, Value, nandVars
    <3>2. Agrees(request, a)'
      BY <2>1, <3>1
    <3>3. RunTo(request', script', a, b) /\ b.n = Count(request')
      BY <2>1, <2>6
    <3> QED BY <3>2, <3>3 DEF OnScript
  <2>8. script' \in Seq(Item)
    BY <2>1, <2>6 DEF RunTo
  <2>9. DriverTypes' /\ Idle'
    <3>1. r # None
      BY RequestShapes DEF None
    <3> QED BY <2>1, <2>2, <2>8, <3>1, RequestData DEF DriverTypes, Idle
  <2> QED BY <2>3, <2>7, <2>9
<1>2. CASE BusCycle
  <2>1. /\ running /\ running' /\ script # <<>> /\ script' = Tail(script)
        /\ UNCHANGED <<request, reply, issued, restarts>>
        /\ got' \in Seq(Cell) /\ script' \in Seq(Item) /\ OnScript'
        /\ [NandNext]_nandVars
    BY <1>2, BusFollows
  <2>2. NandInv' /\ EmulatorRuns'
    BY <2>1, NandStepInv DEF EmulatorRuns
  <2>3. DriverTypes' /\ Idle'
    BY <2>1 DEF DriverTypes, Idle
  <2> QED BY <2>1, <2>2, <2>3
<1>3. CASE Finish
  <2>1. /\ got' = <<>> /\ request' = None /\ script = <<>> /\ running
        /\ UNCHANGED <<nandVars, script, issued, restarts>>
    BY <1>3 DEF Finish
  <2>2. NandInv' /\ EmulatorRuns'
    BY <2>1, NandStepInv DEF EmulatorRuns, nandVars
  <2>3. DriverTypes' /\ Idle'
    BY <2>1 DEF DriverTypes, Idle
  <2>4. OnScript'
    <3>1. addr < AddrSpan
      BY <2>1, AddressInSpan
    <3>2. addr' < AddrSpan /\ running'
      BY <2>1, <3>1 DEF nandVars
    <3>3. \E a \in Abs, b \in Abs :
            Agrees(None, a)' /\ RunTo(None, <<>>, a, b) /\ b.n = Count(None)
      <4> DEFINE c == [cmd |-> cmd, addr |-> addr, cyc |-> addr_cycle, left |-> 0,
                       from |-> 0, n |-> 0, m |-> -1]
      <4>1. c \in Abs
        BY <3>1, Powers DEF Abs, NandInv, NandTypeOK
      <4>2. PICK a \in Abs : /\ a.cmd = cmd /\ a.addr = addr /\ a.cyc = addr_cycle
                             /\ a.left = 0 /\ a.from = 0 /\ a.n = 0 /\ a.m = -1
        BY <4>1
      <4>3. cmd' = cmd /\ addr' = addr /\ addr_cycle' = addr_cycle /\ got' = <<>>
        BY <2>1 DEF nandVars
      <4>4. Readable(a)' /\ Received(None, a)' /\ Collected(None, a)'
        BY <4>2, <4>3 DEF Readable, Received, Collected
      <4>5. Agrees(None, a)'
        BY <4>2, <4>3, <4>4 DEF Agrees
      <4> QED BY <4>2, <4>5, ServesNothing DEF Serves
    <3>4. PICK a \in Abs, b \in Abs :
            Agrees(None, a)' /\ RunTo(None, <<>>, a, b) /\ b.n = Count(None)
      BY <3>3
    <3>5. Agrees(request, a)'
      BY <2>1, <3>4
    <3>6. RunTo(request', script', a, b) /\ b.n = Count(request')
      BY <2>1, <3>4
    <3> QED BY <3>5, <3>6 DEF OnScript
  <2> QED BY <2>2, <2>3, <2>4
<1>4. CASE Restart
  <2>1. /\ NandRestart \/ (Pending({"cmd"}) /\ StoppedDuring(Head(script).arg))
        /\ request' = Boot /\ script' = BootScript /\ got' = <<>>
        /\ restarts' = restarts + 1 /\ restarts < MaxRestarts /\ UNCHANGED issued
    BY <1>4 DEF Restart
  <2>2. (NandRestart \/ StoppedInside) /\ StartAgain
    BY <2>1 DEF NandRestart, StoppedInside, StoppedDuring
  <2>3. NandInv'
    BY <2>2, NandStepInv DEF NandNext
  <2>4. DriverTypes' /\ Idle'
    BY <2>1, BootTypes, RequestData DEF DriverTypes, Idle, None, Boot
  <2>5. EmulatorRuns' /\ (running' => PowerUp)
    BY <2>2 DEF StartAgain, EmulatorRuns
  <2>6. running' => OnScript'
    BY <2>1, <2>3, <2>5, PowerUpOnScript
  <2> QED BY <2>3, <2>4, <2>5, <2>6
<1>5. CASE UNCHANGED vars
  <2>1. UNCHANGED <<nandVars, script, issued, restarts, request, got>>
    BY <1>5 DEF vars, driverVars
  <2>2. NandInv' /\ EmulatorRuns'
    BY <2>1, NandStepInv DEF EmulatorRuns, nandVars
  <2>3. DriverTypes' /\ Idle'
    BY <2>1 DEF DriverTypes, Idle
  <2>4. ASSUME NEW r, NEW a \in Abs, Agrees(r, a) PROVE Agrees(r, a)'
    BY <2>1, <2>4 DEF Agrees, Readable, Collected, Received, Value, nandVars
  <2>5. running' => OnScript'
    <3>1. SUFFICES ASSUME running PROVE OnScript'
      BY <2>1 DEF nandVars
    <3>2. PICK a \in Abs, b \in Abs :
            Agrees(request, a) /\ RunTo(request, script, a, b) /\ b.n = Count(request)
      BY <3>1 DEF OnScript
    <3>3. ASSUME NEW r, r = request PROVE Agrees(r, a)'
      BY <2>4, <3>2, <3>3
    <3>4. Agrees(request, a)'
      BY <2>1, <3>3
    <3>5. RunTo(request', script', a, b) /\ b.n = Count(request')
      BY <2>1, <3>2
    <3> QED BY <3>4, <3>5 DEF OnScript
  <2> QED BY <2>2, <2>3, <2>5
<1>6. QED
  BY <1>1, <1>2, <1>3, <1>4, <1>5 DEF Next

LEMMA DriverReads == DriverInv => ReadsInBuffer
<1> SUFFICES ASSUME DriverInv, running, Pending({"read", "status"})
             PROVE  ioaddr \in 0 .. IoSize - 1
  BY DEF ReadsInBuffer
<1>1. PICK a \in Abs, b \in Abs :
        Agrees(request, a) /\ CycleRuns(request, a, Head(script), b)
  BY NextCycle DEF DriverInv, Pending
<1>2. a.left > 0 /\ a.left \in Int
  BY <1>1 DEF Pending, CycleRuns, ReadRuns, Abs
<1>3. ioaddr \in Nat /\ ioaddr + a.left <= IoSize /\ IoSize \in Nat
  BY <1>1, <1>2, Sizes DEF Agrees, Readable
<1>4. QED
  BY <1>2, <1>3

LEMMA DriverTyped == DriverInv => TypeOK
  BY DEF DriverInv, DriverTypes, NandInv, TypeOK, Item

-----------------------------------------------------------------------------
(* Nothing the kernel, the boot reader or the boot loader sends ends the   *)
(* emulator: exit(-1) in nandb_write_command, nandb_write_address and      *)
(* nandb_read_data8 is never reached, for every geometry and every         *)
(* sequence of requests that leaves out the two-plane program.             *)
THEOREM EmulatorKeepsRunning ==
  ASSUME NoPlaneProgram
  PROVE  Spec => []EmulatorRuns
<1>1. Init => DriverInv
  BY DriverInit
<1>2. DriverInv /\ [Next]_vars => DriverInv'
  BY DriverStep
<1>3. DriverInv => EmulatorRuns
  BY DEF DriverInv
<1>4. QED
  BY <1>1, <1>2, <1>3, PTL DEF Spec

(* Every byte the guest reads comes from inside the page buffer: the reads *)
(* of a script never outrun what its load or its command put there.        *)
THEOREM ReadsStayInBuffer ==
  ASSUME NoPlaneProgram
  PROVE  Spec => []ReadsInBuffer
<1>1. Init => DriverInv
  BY DriverInit
<1>2. DriverInv /\ [Next]_vars => DriverInv'
  BY DriverStep
<1>3. DriverInv => ReadsInBuffer
  BY DriverReads
<1>4. QED
  BY <1>1, <1>2, <1>3, PTL DEF Spec

(* Types: of the chip, and of the request and the script being issued.     *)
THEOREM DriverTypeCorrect ==
  ASSUME NoPlaneProgram
  PROVE  Spec => []TypeOK
<1>1. Init => DriverInv
  BY DriverInit
<1>2. DriverInv /\ [Next]_vars => DriverInv'
  BY DriverStep
<1>3. DriverInv => TypeOK
  BY DriverTyped
<1>4. QED
  BY <1>1, <1>2, <1>3, PTL DEF Spec
=============================================================================
