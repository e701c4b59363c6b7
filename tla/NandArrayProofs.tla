---------------------------- MODULE NandArrayProofs ----------------------------
(***************************************************************************)
(* Proof that the driver over the chip implements the array of pages, for  *)
(* every geometry and every sequence of the requests of one plane (and the *)
(* reads of two).                                                          *)
(*                                                                         *)
(* DriverInv says what every cycle of the script finds in the chip: the    *)
(* bytes to be read and the bytes received.  What is missing is when an    *)
(* effect happens: a request that changes the array sends one confirming   *)
(* command, no more (ConfirmsOnce).  With it, the cycle of that command is *)
(* the Commit of the array, the return of the buffers its Finish, and      *)
(* every other cycle leaves the array as it is.                            *)
(***************************************************************************)
EXTENDS NandDriverProofs

(* The two-plane erase, which the chip carries out on one block only, is   *)
(* not used.                                                               *)
NoPlaneErase == "erase2" \notin Ops

Mutating == {"write", "writeoob", "erase"}

ConfirmsOnce ==
  request.op \in Mutating =>
    \A i, j \in 1 .. Len(script) :
      Confirms(script[i]) /\ Confirms(script[j]) => i = j

ArrayInv == DriverInv /\ ConfirmsOnce

-----------------------------------------------------------------------------
(* Scripts with no confirming command, and with one.                       *)
Cycle == [kind : {"cmd", "addr", "write", "read", "status"}]
           \union [kind : {"cmd", "addr", "write"},
                   arg : Command \union {"11", "81"} \union Int \union Data]

Quiet(s) == s \in Seq(Cycle) /\ \A i \in 1 .. Len(s) : ~Confirms(s[i])
Once(s) ==
  /\ s \in Seq(Cycle)
  /\ \E k \in 1 .. Len(s) : \A i \in 1 .. Len(s) : Confirms(s[i]) <=> i = k

LEMMA Joined ==
  ASSUME NEW s \in Seq(Cycle), NEW t \in Seq(Cycle)
  PROVE  /\ s \o t \in Seq(Cycle) /\ Len(s) \in Nat /\ Len(t) \in Nat
         /\ Len(s \o t) = Len(s) + Len(t)
         /\ \A i \in 1 .. Len(s) : (s \o t)[i] = s[i]
         /\ \A i \in Len(s) + 1 .. Len(s) + Len(t) : (s \o t)[i] = t[i - Len(s)]
  OBVIOUS

LEMMA QuietJoin ==
  ASSUME NEW s, NEW t, Quiet(s), Quiet(t)
  PROVE  Quiet(s \o t)
<1> DEFINE u == s \o t
<1>1. /\ u \in Seq(Cycle) /\ Len(s) \in Nat /\ Len(t) \in Nat
      /\ Len(u) = Len(s) + Len(t)
      /\ \A i \in 1 .. Len(s) : u[i] = s[i]
      /\ \A i \in Len(s) + 1 .. Len(s) + Len(t) : u[i] = t[i - Len(s)]
  BY Joined DEF Quiet
<1> HIDE DEF u
<1>2. ASSUME NEW i \in 1 .. Len(u) PROVE ~Confirms(u[i])
  <2>1. CASE i <= Len(s)
    BY <1>1, <2>1 DEF Quiet
  <2>2. CASE i > Len(s)
    <3>1. i - Len(s) \in 1 .. Len(t) /\ u[i] = t[i - Len(s)]
      BY <1>1, <2>2
    <3> QED BY <3>1 DEF Quiet
  <2> QED BY <1>1, <2>1, <2>2
<1>3. Quiet(u)
  BY <1>1, <1>2 DEF Quiet
<1>4. QED
  BY <1>3 DEF u

LEMMA OnceThenQuiet ==
  ASSUME NEW s, NEW t, Once(s), Quiet(t)
  PROVE  Once(s \o t)
<1> DEFINE u == s \o t
<1>1. /\ u \in Seq(Cycle) /\ Len(s) \in Nat /\ Len(t) \in Nat
      /\ Len(u) = Len(s) + Len(t)
      /\ \A i \in 1 .. Len(s) : u[i] = s[i]
      /\ \A i \in Len(s) + 1 .. Len(s) + Len(t) : u[i] = t[i - Len(s)]
  BY Joined DEF Quiet, Once
<1> HIDE DEF u
<1>2. PICK k \in 1 .. Len(s) : \A i \in 1 .. Len(s) : Confirms(s[i]) <=> i = k
  BY DEF Once
<1>3. ASSUME NEW i \in 1 .. Len(u) PROVE Confirms(u[i]) <=> i = k
  <2>1. CASE i <= Len(s)
    BY <1>1, <1>2, <2>1
  <2>2. CASE i > Len(s)
    <3>1. i - Len(s) \in 1 .. Len(t) /\ u[i] = t[i - Len(s)] /\ i # k
      BY <1>1, <2>2
    <3> QED BY <3>1 DEF Quiet
  <2> QED BY <1>1, <2>1, <2>2
<1>4. Once(u)
  BY <1>1, <1>3 DEF Once
<1>5. QED
  BY <1>4 DEF u

LEMMA QuietThenOnce ==
  ASSUME NEW s, NEW t, Quiet(s), Once(t)
  PROVE  Once(s \o t)
<1> DEFINE u == s \o t
<1>1. /\ u \in Seq(Cycle) /\ Len(s) \in Nat /\ Len(t) \in Nat
      /\ Len(u) = Len(s) + Len(t)
      /\ \A i \in 1 .. Len(s) : u[i] = s[i]
      /\ \A i \in Len(s) + 1 .. Len(s) + Len(t) : u[i] = t[i - Len(s)]
  BY Joined DEF Quiet, Once
<1> HIDE DEF u
<1>2. PICK k \in 1 .. Len(t) : \A i \in 1 .. Len(t) : Confirms(t[i]) <=> i = k
  BY DEF Once
<1>3. ASSUME NEW i \in 1 .. Len(u) PROVE Confirms(u[i]) <=> i = Len(s) + k
  <2>1. CASE i <= Len(s)
    <3>1. u[i] = s[i] /\ i # Len(s) + k
      BY <1>1, <2>1
    <3> QED BY <1>1, <2>1, <3>1 DEF Quiet
  <2>2. CASE i > Len(s)
    <3>1. i - Len(s) \in 1 .. Len(t) /\ u[i] = t[i - Len(s)]
          /\ (i - Len(s) = k <=> i = Len(s) + k)
      BY <1>1, <2>2
    <3> QED BY <1>2, <3>1
  <2> QED BY <1>1, <2>1, <2>2
<1>4. Once(u)
  <2>1. Len(s) + k \in 1 .. Len(u)
    BY <1>1
  <2> QED BY <1>1, <1>3, <2>1 DEF Once
<1>5. QED
  BY <1>4 DEF u

LEMMA QuietParts ==
  /\ \A c \in Command \ Confirming : Quiet(Latch(c))
  /\ \A c \in Confirming : Once(Latch(c))
  /\ \A c \in Nat : Quiet(Col(c)) /\ Quiet(RowOf(c))
  /\ Quiet(Status)
<1>1. ASSUME NEW c \in Command \ Confirming PROVE Quiet(Latch(c))
  BY DEF Quiet, Latch, Confirms, Cycle
<1>2. ASSUME NEW c \in Confirming PROVE Once(Latch(c))
  <2>1. c \in Command
    BY DEF Confirming, Command
  <2>2. Latch(c) \in Seq(Cycle) /\ Len(Latch(c)) = 1 /\ Confirms(Latch(c)[1])
    BY <2>1 DEF Latch, Confirms, Cycle
  <2> QED BY <2>2 DEF Once
<1>3. ASSUME NEW c \in Nat PROVE Quiet(Col(c)) /\ Quiet(RowOf(c))
  <2>1. ASSUME NEW v \in Int PROVE [kind |-> "addr", arg |-> v] \in Cycle
                                   /\ ~Confirms([kind |-> "addr", arg |-> v])
    BY DEF Cycle, Confirms
  <2>2. Base \in Nat \ {0} /\ Base * Base \in Nat \ {0}
    BY NandGeometry, MulNat
  <2>3. /\ c % Base \in Int /\ c \div Base \in Int
        /\ (c \div Base) % Base \in Int /\ (c \div (Base * Base)) % Base \in Int
    BY <2>2, DivMod
  <2>4. \A v, w, x \in Cycle :
          /\ <<v, w>> \in Seq(Cycle) /\ Len(<<v, w>>) = 2
          /\ <<v, w>>[1] = v /\ <<v, w>>[2] = w
          /\ <<v, w, x>> \in Seq(Cycle) /\ Len(<<v, w, x>>) = 3
          /\ <<v, w, x>>[1] = v /\ <<v, w, x>>[2] = w /\ <<v, w, x>>[3] = x
    OBVIOUS
  <2>5. \A v, w, x \in Cycle : ~Confirms(v) /\ ~Confirms(w) /\ ~Confirms(x) =>
          Quiet(<<v, w>>) /\ Quiet(<<v, w, x>>)
    <3>1. (\A i \in 1 .. 2 : i = 1 \/ i = 2) /\ (\A i \in 1 .. 3 : i = 1 \/ i = 2 \/ i = 3)
      OBVIOUS
    <3> QED BY <2>4, <3>1 DEF Quiet
  <2> QED BY <2>1, <2>3, <2>5 DEF Col, RowOf
<1>4. Quiet(Status)
  <2>1. Quiet(Latch("STATUS"))
    BY <1>1 DEF Command, Confirming
  <2>2. Quiet(<<[kind |-> "status"]>>)
    BY DEF Quiet, Cycle, Confirms
  <2> QED BY <2>1, <2>2, QuietJoin DEF Status
<1>5. QED
  BY <1>1, <1>2, <1>3, <1>4

LEMMA QuietWrites ==
  ASSUME NEW n \in Nat, NEW d \in [1 .. n -> Data]
  PROVE  Quiet(Writes(d))
<1>1. Len(d) = n
  OBVIOUS
<1>2. ASSUME NEW i \in 1 .. n
      PROVE  /\ [kind |-> "write", arg |-> d[i]] \in Cycle
             /\ ~Confirms([kind |-> "write", arg |-> d[i]])
  BY DEF Cycle, Confirms
<1>3. Writes(d) = [i \in 1 .. n |-> [kind |-> "write", arg |-> d[i]]]
  BY <1>1 DEF Writes
<1>4. Writes(d) \in [1 .. n -> Cycle]
  BY <1>2, <1>3
<1>5. Writes(d) \in Seq(Cycle) /\ Len(Writes(d)) = n
  BY <1>4
<1>6. QED
  BY <1>2, <1>3, <1>5 DEF Quiet

LEMMA OnceMutating ==
  ASSUME NEW r \in Requests, r.op \in Mutating
  PROVE  Once(Script(r))
<1> USE QuietJoin, OnceThenQuiet, QuietThenOnce
<1>1. /\ Quiet(Latch("SEQIN")) /\ Quiet(Latch("RESET")) /\ Quiet(Latch("ERASE1"))
      /\ Once(Latch("PAGEPROG")) /\ Once(Latch("ERASE2")) /\ Quiet(Status)
  BY QuietParts DEF Command, Confirming
<1>2. Quiet(Col(0)) /\ Quiet(Col(PageSize))
  BY QuietParts, PageSizes
<1>3. Quiet(RowOf(r.page))
  <2>1. r.page \in Nat
    BY RequestShapes, Sizes DEF Mutating
  <2> QED BY <2>1, QuietParts
<1>4. CASE r.op = "write"
  <2>1. Quiet(Writes(r.data)) /\ Quiet(Writes(r.oob))
    BY <1>4, RequestShapes, RequestData, QuietWrites, PageSizes
  <2>2. Once(WriteScript(r.page, r.data, r.oob))
    BY <1>1, <1>2, <1>3, <2>1 DEF WriteScript
  <2> QED BY <1>4, <2>2 DEF Script
<1>5. CASE r.op = "writeoob"
  <2>1. Quiet(Writes(r.oob))
    BY <1>5, RequestShapes, RequestData, QuietWrites, PageSizes
  <2>2. Once(WriteOobScript(r.page, r.oob))
    BY <1>1, <1>2, <1>3, <2>1 DEF WriteOobScript
  <2> QED BY <1>5, <2>2 DEF Script
<1>6. CASE r.op = "erase"
  <2>1. Once(EraseScript(r.page))
    BY <1>1, <1>3 DEF EraseScript
  <2> QED BY <1>6, <2>1 DEF Script
<1>7. QED
  BY <1>4, <1>5, <1>6 DEF Mutating

-----------------------------------------------------------------------------
(* What a program and an erase leave in the image, page by page.           *)
LEMMA GroupOfGroups ==
  ASSUME NEW a \in Nat \ {0}, NEW c \in Nat \ {0}, NEW p \in Nat, NEW k \in 0 .. a - 1
  PROVE  (a * p + k) \div (a * c) = p \div c
<1> DEFINE b == p \div c
           t == p % c
           j == a * t + k
<1>1. b \in Int /\ t \in 0 .. c - 1 /\ p = c * b + t
  BY DivMod
<1> HIDE DEF b, t
<1>2. j \in 0 .. a * c - 1
  BY <1>1, Scaled
<1>3. a * c \in Nat \ {0}
  BY MulNat
<1>4. a * p + k = (a * c) * b + j
  <2>1. a * p = a * (c * b + t)
    BY <1>1
  <2>2. a * (c * b + t) = (a * c) * b + a * t
    BY <1>1
  <2>3. a * t \in Int /\ (a * c) * b \in Int
    BY <1>1
  <2> QED BY <2>1, <2>2, <2>3
<1> HIDE DEF j
<1>5. ((a * c) * b + j) \div (a * c) = b
  <2> DEFINE d == a * c
  <2>1. d \in Nat \ {0} /\ j \in 0 .. d - 1
    BY <1>2, <1>3
  <2> HIDE DEF d
  <2>2. (d * b + j) \div d = b
    BY <1>1, <2>1, DivUnique
  <2> QED BY <2>2 DEF d
<1>6. QED
  BY <1>4, <1>5 DEF b

LEMMA ByteInPage ==
  ASSUME NEW p \in 0 .. Pages - 1, NEW k \in 0 .. PageOob - 1
  PROVE  /\ p * PageOob \in Nat /\ p * PageOob + k \in 0 .. ImageSize - 1
         /\ (p * PageOob + k) \div PageOob = p
         /\ (p * PageOob + k) \div BlockOob = p \div BlockPages
<1>1. p \in Nat /\ p < Pages /\ PageOob \in Nat \ {0} /\ BlockPages \in Nat \ {0}
      /\ ImageSize \in Nat
  BY Sizes
<1>2. p * PageOob \in Nat /\ p * PageOob + PageOob <= ImageSize
  BY <1>1, RowInImage
<1>3. PageOob * p = p * PageOob /\ BlockOob = PageOob * BlockPages
  BY <1>1 DEF BlockOob
<1>4. (PageOob * p + k) \div PageOob = p
  BY <1>1, DivUnique
<1>5. (PageOob * p + k) \div (PageOob * BlockPages) = p \div BlockPages
  BY <1>1, GroupOfGroups
<1>6. p * PageOob + k \in 0 .. ImageSize - 1
  BY <1>1, <1>2
<1>7. QED
  BY <1>2, <1>3, <1>4, <1>5, <1>6

LEMMA ProgramBytes ==
  ASSUME NandInv, Row(addr) < Pages, iolen >= 0, Column(addr) + iolen <= PageOob,
         NEW p \in 0 .. Pages - 1, NEW k \in 0 .. PageOob - 1
  PROVE  Programmed(addr, iolen)[p * PageOob + k] =
           IF p = Row(addr) /\ Column(addr) <= k /\ k < Column(addr) + iolen
             THEN io[k - Column(addr)] ELSE image[p * PageOob + k]
<1> DEFINE q == Row(addr)
           x == Column(addr)
           m == p * PageOob
           n == q * PageOob
           new == Programmed(addr, iolen)
<1>1. /\ addr \in Nat /\ iolen \in Int /\ imageLength \in Nat /\ ImageSize <= imageLength
  BY DEF NandInv, NandTypeOK, ImageCoversChip
<1>2. q \in Nat /\ q < Pages /\ x \in Nat /\ Offset(addr) = n + x
  BY <1>1, AddressParts DEF Offset
<1>3. m \in Nat /\ m + k \in 0 .. ImageSize - 1 /\ (m + k) \div PageOob = p
  BY ByteInPage
<1>4. n \in Nat
  BY <1>2, RowInImage
<1>5. m + k \in 0 .. ProgrammedLength(addr) - 1 /\ m + k < imageLength
  <2>1. ProgrammedLength(addr) \in Nat /\ ProgrammedLength(addr) >= imageLength
    BY <1>1, ProgramTyped
  <2> HIDE DEF m
  <2> QED BY <1>1, <1>3, <2>1, Sizes
<1> HIDE DEF m, n, q, x, new
<1>6. new[m + k] = IF n + x <= m + k /\ m + k < n + x + iolen
                        THEN io[m + k - (n + x)] ELSE image[m + k]
  <2> DEFINE i == m + k
  <2>1. i \in 0 .. ProgrammedLength(addr) - 1 /\ i < imageLength
    BY <1>5
  <2> HIDE DEF i
  <2>2. new[i] = IF Offset(addr) <= i /\ i < Offset(addr) + iolen
                      THEN io[i - Offset(addr)] ELSE image[i]
    BY <2>1 DEF Programmed, new
  <2> QED BY <1>1, <1>2, <1>3, <1>4, <2>2 DEF i
<1>7. x + iolen <= PageOob /\ PageOob \in Nat \ {0}
  BY Sizes DEF x
<1>8. CASE p = q
  <2>1. m = n
    BY <1>8 DEF m, n
  <2>2. /\ n + x <= m + k /\ m + k < n + x + iolen <=> x <= k /\ k < x + iolen
        /\ m + k - (n + x) = k - x
    BY <1>1, <1>2, <1>3, <1>4, <2>1
  <2>3. new[m + k] = IF x <= k /\ k < x + iolen THEN io[k - x] ELSE image[m + k]
    BY <1>6, <2>2
  <2> QED BY <1>8, <2>3 DEF m, n, q, x, new
<1>9. CASE p # q
  <2>1. ~(n + x <= m + k /\ m + k < n + x + iolen)
    <3>1. SUFFICES ASSUME n + x <= m + k, m + k < n + x + iolen PROVE FALSE
      OBVIOUS
    <3>2. m + k \in n .. n + PageOob - 1 /\ m + k \in Nat
      BY <1>1, <1>2, <1>3, <1>4, <1>7, <3>1
    <3>3. (m + k) \div PageOob = q
      BY <1>2, <1>7, <3>2, InGroup DEF n
    <3> QED BY <1>3, <1>9, <3>3
  <2>2. new[m + k] = image[m + k]
    BY <1>6, <2>1
  <2> QED BY <1>9, <2>2 DEF m, q, new
<1>10. QED
  BY <1>8, <1>9

LEMMA EraseBytes ==
  ASSUME NandInv, Row(addr) < Pages,
         NEW p \in 0 .. Pages - 1, NEW k \in 0 .. PageOob - 1
  PROVE  ErasedImage(BlockAddress(addr))[p * PageOob + k] =
           IF p \div BlockPages = Row(addr) \div BlockPages
             THEN Erased ELSE image[p * PageOob + k]
<1> DEFINE i == p * PageOob + k
<1>1. i \in 0 .. ImageSize - 1 /\ i \div BlockOob = p \div BlockPages
  BY ByteInPage
<1>2. imageLength \in Nat /\ ImageSize <= imageLength /\ ImageSize \in Nat
  BY Sizes DEF NandInv, NandTypeOK, ImageCoversChip
<1> HIDE DEF i
<1>3. i \in 0 .. imageLength - 1
  BY <1>1, <1>2
<1>4. ErasedImage(BlockAddress(addr))[i] =
        IF i \div BlockOob = Row(addr) \div BlockPages THEN Erased ELSE image[i]
  BY <1>3, BlockInside, ErasedBlock
<1>5. QED
  BY <1>1, <1>4 DEF i
-----------------------------------------------------------------------------
(* The commit: the bytes a program and an erase leave are the effect the   *)
(* array promises.                                                         *)
PageIn(file, p) == [k \in 0 .. PageOob - 1 |-> file[p * PageOob + k]]
Cells(file) == [p \in 0 .. Pages - 1 |-> PageIn(file, p)]
Page(p) == PageIn(image, p)

LEMMA StoredPages ==
  /\ Stored = [p \in 0 .. Pages - 1 |-> Page(p)]
  /\ \A p \in 0 .. Pages - 1 : Stored[p] = Page(p)
  /\ Array!PageOob = PageOob
  BY DEF Stored, Page, PageIn, Array!PageOob, PageOob

LEMMA NextStored == Stored' = Cells(image')
  BY DEF Stored, Cells, PageIn

LEMMA WriteCommits ==
  ASSUME NandInv, NEW r \in Requests, r.op = "write", NEW a \in Abs,
         Filled(r, a), Agrees(r, a)
  PROVE  Array!Effect(r) = Cells(Programmed(addr, iolen))
<1> DEFINE d == SubSeq(r.data, 1, PageSize)
           o == SubSeq(r.oob, 1, OobSize)
           new == Programmed(addr, iolen)
<1>1. /\ r.page \in 0 .. Pages - 1
      /\ r.data \in [1 .. PageSize -> Data] /\ r.oob \in [1 .. OobSize -> Data]
  BY RequestShapes, RequestData
<1>2. /\ Row(addr) = r.page /\ Column(addr) = 0 /\ iolen = PageOob
      /\ \A j \in 0 .. PageOob - 1 : io[j] = Sent(r, j + 1)
  BY PageSizes DEF Filled, Agrees, Received
<1>3. /\ \A i \in 1 .. PageSize : d[i] = r.data[i]
      /\ \A i \in 1 .. OobSize : o[i] = r.oob[i]
  BY <1>1, PageSizes
<1> HIDE DEF d, o
<1>4. ASSUME NEW p \in 0 .. Pages - 1
      PROVE  PageIn(new, p) = IF p = r.page THEN Array!NewPage(d, o) ELSE Page(p)
  <2>1. ASSUME NEW k \in 0 .. PageOob - 1
        PROVE  new[p * PageOob + k] = IF p = r.page THEN io[k] ELSE image[p * PageOob + k]
    <3>1. /\ Row(addr) < Pages /\ iolen >= 0 /\ Column(addr) + iolen <= PageOob
          /\ Column(addr) <= k /\ k < Column(addr) + iolen /\ k - Column(addr) = k
      BY <1>1, <1>2, Sizes
    <3> QED BY <1>2, <3>1, ProgramBytes
  <2>2. ASSUME NEW k \in 0 .. PageOob - 1
        PROVE  io[k] = IF k < PageSize THEN d[k + 1] ELSE o[k - PageSize + 1]
    <3>1. io[k] = Sent(r, k + 1)
      BY <1>2
    <3>2. CASE k < PageSize
      <4>1. k + 1 \in 1 .. PageSize
        BY <3>2, PageSizes
      <4> QED BY <1>3, <3>1, <3>2, <4>1 DEF Sent
    <3>3. CASE ~(k < PageSize)
      <4>1. k - PageSize + 1 \in 1 .. OobSize /\ ~(k + 1 <= PageSize)
            /\ k + 1 - PageSize = k - PageSize + 1
        BY <3>3, PageSizes
      <4>2. Sent(r, k + 1) = r.oob[k - PageSize + 1]
        BY <4>1, PageSizes DEF Sent
      <4> QED BY <1>3, <3>1, <3>3, <4>1, <4>2
    <3> QED BY <3>2, <3>3
  <2>3. CASE p = r.page
    BY <2>1, <2>2, <2>3, StoredPages DEF Page, PageIn, Array!NewPage
  <2>4. CASE p # r.page
    BY <2>1, <2>4 DEF Page, PageIn
  <2> QED BY <2>3, <2>4
<1>5. Cells(new) = [p \in 0 .. Pages - 1 |-> PageIn(new, p)]
  BY DEF Cells
<1>6. Array!Effect(r) = [Stored EXCEPT ![r.page] = Array!NewPage(d, o)]
  BY DEF Array!Effect, d, o
<1>7. QED
  BY <1>1, <1>4, <1>5, <1>6, StoredPages

LEMMA WriteOobCommits ==
  ASSUME NandInv, NEW r \in Requests, r.op = "writeoob", NEW a \in Abs,
         Filled(r, a), Agrees(r, a)
  PROVE  Array!Effect(r) = Cells(Programmed(addr, iolen))
<1> DEFINE q == r.page
           d == [k \in 1 .. PageSize |-> Stored[q][k - 1]]
           o == SubSeq(r.oob, 1, OobSize)
           new == Programmed(addr, iolen)
<1>1. q \in 0 .. Pages - 1 /\ r.oob \in [1 .. OobSize -> Data]
  BY RequestShapes, RequestData
<1>2. /\ Row(addr) = q /\ Column(addr) = PageSize /\ iolen = OobSize
      /\ \A j \in 0 .. OobSize - 1 : io[j] = Sent(r, j + 1)
  BY PageSizes DEF Filled, Agrees, Received
<1>3. \A i \in 1 .. OobSize : o[i] = r.oob[i]
  BY <1>1, PageSizes
<1>4. \A i \in 1 .. PageSize : d[i] = Page(q)[i - 1]
  BY <1>1, StoredPages
<1>5. Array!Effect(r) = [Stored EXCEPT ![q] = Array!NewPage(d, o)]
  BY DEF Array!Effect
<1> HIDE DEF d, o, q
<1>6. ASSUME NEW p \in 0 .. Pages - 1
      PROVE  PageIn(new, p) = IF p = q THEN Array!NewPage(d, o) ELSE Page(p)
  <2>1. ASSUME NEW k \in 0 .. PageOob - 1
        PROVE  new[p * PageOob + k] =
                 IF p = q /\ PageSize <= k THEN io[k - PageSize] ELSE image[p * PageOob + k]
    <3>1. /\ Row(addr) < Pages /\ iolen >= 0 /\ Column(addr) + iolen <= PageOob
          /\ k < Column(addr) + iolen
      BY <1>1, <1>2, Sizes, PageSizes
    <3> QED BY <1>2, <3>1, ProgramBytes
  <2>2. ASSUME NEW k \in 0 .. PageOob - 1, PageSize <= k
        PROVE  io[k - PageSize] = o[k - PageSize + 1] /\ ~(k < PageSize)
    <3>1. k - PageSize \in 0 .. OobSize - 1 /\ k - PageSize + 1 \in 1 .. OobSize
          /\ ~(k < PageSize)
      BY <2>2, PageSizes
    <3>2. io[k - PageSize] = Sent(r, k - PageSize + 1)
      BY <1>2, <3>1
    <3> QED BY <1>3, <3>1, <3>2 DEF Sent
  <2>3. ASSUME NEW k \in 0 .. PageOob - 1, ~(PageSize <= k)
        PROVE  image[q * PageOob + k] = d[k + 1] /\ k < PageSize
    <3>1. k + 1 \in 1 .. PageSize /\ k < PageSize /\ (k + 1) - 1 = k
      BY <2>3, PageSizes
    <3>2. d[k + 1] = Page(q)[(k + 1) - 1]
      BY <1>4, <3>1
    <3> QED BY <3>1, <3>2 DEF Page, PageIn
  <2>4. CASE p = q
    BY <2>1, <2>2, <2>3, <2>4, StoredPages DEF Page, PageIn, Array!NewPage
  <2>5. CASE p # q
    BY <2>1, <2>5 DEF Page, PageIn
  <2> QED BY <2>4, <2>5
<1>7. Cells(new) = [p \in 0 .. Pages - 1 |-> PageIn(new, p)]
  BY DEF Cells
<1>8. QED
  BY <1>1, <1>5, <1>6, <1>7, StoredPages

LEMMA EraseCommits ==
  ASSUME NandInv, NEW r \in Requests, r.op = "erase", Row(addr) = r.page
  PROVE  Array!Effect(r) = Cells(ErasedImage(BlockAddress(addr)))
<1> DEFINE q == r.page
           new == ErasedImage(BlockAddress(addr))
<1>1. q \in 0 .. Pages - 1 /\ Row(addr) < Pages
  BY RequestShapes, Sizes
<1>2. Array!Effect(r) =
        [p \in DOMAIN Stored |-> IF p \in Array!Block(q) THEN Array!ErasedPage ELSE Stored[p]]
  BY DEF Array!Effect
<1>3. ASSUME NEW p \in 0 .. Pages - 1
      PROVE  PageIn(new, p) = IF p \in Array!Block(q) THEN Array!ErasedPage ELSE Page(p)
  <2>1. p \in Array!Block(q) <=> p \div BlockPages = Row(addr) \div BlockPages
    BY DEF Array!Block
  <2>2. ASSUME NEW k \in 0 .. PageOob - 1
        PROVE  new[p * PageOob + k] =
                 IF p \in Array!Block(q) THEN Erased ELSE image[p * PageOob + k]
    BY <1>1, <2>1, EraseBytes
  <2>3. CASE p \in Array!Block(q)
    BY <2>2, <2>3, StoredPages DEF Page, PageIn, Array!ErasedPage
  <2>4. CASE p \notin Array!Block(q)
    BY <2>2, <2>4 DEF Page, PageIn
  <2> QED BY <2>3, <2>4
<1>4. Cells(new) = [p \in 0 .. Pages - 1 |-> PageIn(new, p)]
  BY DEF Cells
<1>5. QED
  BY <1>2, <1>3, <1>4, StoredPages
-----------------------------------------------------------------------------
(* The answer: the bytes read, cut into buffers, are those the array holds. *)
LEMMA PartBytes ==
  ASSUME NEW S, got \in Seq(S), NEW f \in Nat \ {0}, NEW n \in Nat, f + n - 1 <= Len(got)
  PROVE  Part(f, n) = [i \in 1 .. n |-> got[f + i - 1]]
<1> DEFINE e == f + n - 1
<1>1. Part(f, n) = SubSeq(got, f, e)
  BY DEF Part
<1>2. /\ e \in Int /\ 1 + e - f = n /\ e - f + 1 = n
  OBVIOUS
<1>3. \A i \in f .. e : got[i] \in S
  BY ElementOfSeq, LenProperties
<1> HIDE DEF e
<1>4. /\ SubSeq(got, f, e) \in Seq(S)
      /\ Len(SubSeq(got, f, e)) = IF f <= e THEN e - f + 1 ELSE 0
      /\ \A i \in 1 .. e - f + 1 : SubSeq(got, f, e)[i] = got[f + i - 1]
  BY <1>2, <1>3, SubSeqProperties
<1>5. Len(SubSeq(got, f, e)) = n
  BY <1>2, <1>4
<1>6. SubSeq(got, f, e) = [i \in 1 .. n |-> SubSeq(got, f, e)[i]]
  BY <1>4, <1>5, LenProperties
<1>7. QED
  BY <1>1, <1>2, <1>4, <1>6

LEMMA WholeGot ==
  ASSUME NEW S, got \in Seq(S)
  PROVE  got = [i \in 1 .. Len(got) |-> got[i]]
  BY LenProperties

\* The bytes of page p follow the first n, out-of-band bytes first.
Follows(n, p, m) == \A i \in 1 .. m : got[n + i] = image[ReadPlace(p, i)]

LEMMA OobBack ==
  ASSUME NEW S, got \in Seq(S), NEW n \in Nat, NEW p \in 0 .. Pages - 1,
         n + OobSize <= Len(got), Follows(n, p, OobSize)
  PROVE  Part(n + 1, OobSize) = Array!OobOf(p)
<1> DEFINE m == p * PageOob
<1>1. Part(n + 1, OobSize) = [i \in 1 .. OobSize |-> got[(n + 1) + i - 1]]
  <2>1. n + 1 \in Nat \ {0} /\ OobSize \in Nat /\ (n + 1) + OobSize - 1 <= Len(got)
    BY PageSizes, LenProperties
  <2> QED BY <2>1, PartBytes
<1>2. m \in Nat
  BY ByteInPage, PageSizes
<1>3. \A i \in 1 .. OobSize : image[ReadPlace(p, i)] = image[m + (PageSize + i - 1)]
  <2>1. \A i \in 1 .. OobSize : ReadPlace(p, i) = m + (PageSize + i - 1)
    BY DEF ReadPlace
  <2> QED BY <2>1
<1>4. ASSUME NEW i \in 1 .. OobSize
      PROVE  got[(n + 1) + i - 1] = Stored[p][PageSize + i - 1]
  <2>1. PageSize + i - 1 \in 0 .. PageOob - 1 /\ (n + 1) + i - 1 = n + i
    BY PageSizes
  <2>2. Stored[p][PageSize + i - 1] = image[m + (PageSize + i - 1)]
    BY <2>1, StoredPages DEF Page, PageIn
  <2> QED BY <1>3, <2>1, <2>2 DEF Follows
<1>5. Array!OobOf(p) = [i \in 1 .. OobSize |-> Stored[p][PageSize + i - 1]]
  BY DEF Array!OobOf
<1>6. QED
  BY <1>1, <1>4, <1>5

LEMMA DataBack ==
  ASSUME NEW S, got \in Seq(S), NEW n \in Nat, NEW p \in 0 .. Pages - 1,
         n + PageOob <= Len(got), Follows(n, p, PageOob)
  PROVE  Part(n + OobSize + 1, PageSize) = Array!DataOf(p)
<1> DEFINE m == p * PageOob
           f == n + OobSize + 1
<1>1. Part(f, PageSize) = [i \in 1 .. PageSize |-> got[f + i - 1]]
  <2>1. f \in Nat \ {0} /\ PageSize \in Nat /\ f + PageSize - 1 <= Len(got)
    BY PageSizes, LenProperties
  <2> QED BY <2>1, PartBytes
<1>2. m \in Nat
  BY ByteInPage, PageSizes
<1>3. ASSUME NEW i \in 1 .. PageSize
      PROVE  got[f + i - 1] = Stored[p][i - 1]
  <2>1. /\ OobSize + i \in 1 .. PageOob /\ ~(OobSize + i <= OobSize)
        /\ (OobSize + i) - OobSize - 1 = i - 1 /\ i - 1 \in 0 .. PageOob - 1
        /\ f + i - 1 = n + (OobSize + i)
    BY PageSizes
  <2>2. got[n + (OobSize + i)] = image[ReadPlace(p, OobSize + i)]
    BY <2>1 DEF Follows
  <2>3. ReadPlace(p, OobSize + i) = m + (i - 1)
    BY <2>1 DEF ReadPlace
  <2>4. Stored[p][i - 1] = image[m + (i - 1)]
    BY <2>1, StoredPages DEF Page, PageIn
  <2> QED BY <2>1, <2>2, <2>3, <2>4
<1>4. Array!DataOf(p) = [i \in 1 .. PageSize |-> Stored[p][i - 1]]
  BY DEF Array!DataOf
<1> HIDE DEF f
<1>5. Part(f, PageSize) = Array!DataOf(p)
  BY <1>1, <1>3, <1>4
<1>6. QED
  BY <1>5 DEF f

\* At the end of its script, a request has read all it wants.
Complete(r) ==
  /\ got \in Seq(Cell) /\ Len(got) = Count(r)
  /\ \A i \in 1 .. Count(r) : got[i] = Value(Place(r, i))

LEMMA ScriptComplete ==
  ASSUME OnScript, script = <<>>
  PROVE  Complete(request)
<1>1. PICK a \in Abs, b \in Abs :
        Agrees(request, a) /\ RunTo(request, script, a, b) /\ b.n = Count(request)
  BY DEF OnScript
<1>2. a = b
  <2>1. Len(script) = 0
    OBVIOUS
  <2> QED BY <1>1, <2>1 DEF RunTo
<1>3. QED
  BY <1>1, <1>2 DEF Agrees, Collected, Complete

LEMMA PageValue ==
  ASSUME NEW p \in 0 .. Pages - 1, NEW i \in 1 .. PageOob
  PROVE  Value(ReadPlace(p, i)) = image[ReadPlace(p, i)]
<1>1. p * PageOob \in Nat
  BY ByteInPage, PageSizes
<1>2. ReadPlace(p, i) >= 0 /\ ReadPlace(p, i) \in Int
  BY <1>1, PageSizes DEF ReadPlace
<1>3. QED
  BY <1>2 DEF Value

LEMMA BootAnswered ==
  ASSUME Complete(Boot)
  PROVE  Buffers(Boot) = Array!Answer(Boot)
<1>1. Count(Boot) = PageSize /\ \A i : Place(Boot, i) = i - 1
  BY DEF Count, Place, Boot
<1>2. got = [i \in 1 .. PageSize |-> got[i]]
  BY <1>1, WholeGot DEF Complete
<1>3. 0 \in 0 .. Pages - 1 /\ 0 * PageOob = 0
  BY Sizes
<1>4. ASSUME NEW i \in 1 .. PageSize PROVE got[i] = Stored[0][i - 1]
  <2>1. got[i] = Value(i - 1)
    BY <1>1 DEF Complete
  <2>2. i - 1 \in 0 .. PageOob - 1 /\ ~(i - 1 < 0)
    BY PageSizes
  <2>3. Stored[0][i - 1] = image[0 * PageOob + (i - 1)]
    BY <1>3, <2>2, StoredPages DEF Page, PageIn
  <2>4. 0 * PageOob + (i - 1) = i - 1
    BY <1>3, <2>2
  <2> QED BY <2>1, <2>2, <2>3, <2>4 DEF Value
<1>5. Array!DataOf(0) = [i \in 1 .. PageSize |-> Stored[0][i - 1]]
  BY DEF Array!DataOf
<1>6. got = Array!DataOf(0)
  BY <1>2, <1>4, <1>5
<1>7. QED
  BY <1>6 DEF Buffers, Array!Answer, Boot

LEMMA IdentityAnswered ==
  ASSUME NEW r, r.op \in {"identify", "query"}, Complete(r)
  PROVE  Buffers(r) = Array!Answer(r)
<1>1. Count(r) = 5 /\ \A i : Place(r, i) = i - 6
  BY DEF Count, Place
<1>2. got = [i \in 1 .. 5 |-> got[i]]
  BY <1>1, WholeGot DEF Complete
<1>3. ASSUME NEW i \in 1 .. 5 PROVE got[i] = IdBytes[i]
  <2>1. got[i] = Value(i - 6)
    BY <1>1 DEF Complete
  <2>2. i - 6 < 0 /\ (i - 6) + 6 = i
    OBVIOUS
  <2> QED BY <2>1, <2>2 DEF Value
<1>4. IdBytes = [i \in 1 .. 5 |-> IdBytes[i]]
  BY DEF IdBytes
<1>5. got = IdBytes
  BY <1>2, <1>3, <1>4
<1>6. QED
  BY <1>5 DEF Buffers, Array!Answer

LEMMA ReadOobAnswered ==
  ASSUME NEW r, r.op = "readoob", r.page \in 0 .. Pages - 1, Complete(r)
  PROVE  Buffers(r) = Array!Answer(r)
<1>1. Count(r) = OobSize /\ \A i : Place(r, i) = ReadPlace(r.page, i)
  BY DEF Count, Place
<1>2. Follows(0, r.page, OobSize)
  <2>1. ASSUME NEW i \in 1 .. OobSize PROVE got[0 + i] = image[ReadPlace(r.page, i)]
    <3>1. i \in 1 .. PageOob /\ 0 + i = i
      BY PageSizes
    <3> QED BY <1>1, <3>1, PageValue DEF Complete
  <2> QED BY <2>1 DEF Follows
<1>3. Part(1, OobSize) = Array!OobOf(r.page)
  <2>1. Part(0 + 1, OobSize) = Array!OobOf(r.page)
    BY <1>1, <1>2, OobBack, PageSizes DEF Complete
  <2> QED BY <2>1
<1>4. got = Part(1, OobSize)
  <2>1. Part(1, OobSize) = [i \in 1 .. OobSize |-> got[1 + i - 1]]
    BY <1>1, PartBytes, PageSizes DEF Complete
  <2>2. got = [i \in 1 .. OobSize |-> got[i]]
    BY <1>1, WholeGot DEF Complete
  <2>3. \A i \in 1 .. OobSize : 1 + i - 1 = i
    BY PageSizes
  <2> QED BY <2>1, <2>2, <2>3
<1>5. QED
  BY <1>3, <1>4 DEF Buffers, Array!Answer

LEMMA ReadAnswered ==
  ASSUME NEW r, r.op \in {"read", "load"}, r.page \in 0 .. Pages - 1, Complete(r)
  PROVE  Buffers(r) = Array!Answer(r)
<1>1. Count(r) = PageOob /\ \A i : Place(r, i) = ReadPlace(r.page, i)
  BY DEF Count, Place
<1>2. Follows(0, r.page, PageOob) /\ Follows(0, r.page, OobSize)
  <2>1. ASSUME NEW i \in 1 .. PageOob PROVE got[0 + i] = image[ReadPlace(r.page, i)]
    BY <1>1, PageValue DEF Complete
  <2> QED BY <2>1, PageSizes DEF Follows
<1>3. Part(1, OobSize) = Array!OobOf(r.page)
  <2>1. Part(0 + 1, OobSize) = Array!OobOf(r.page)
    BY <1>1, <1>2, OobBack, PageSizes DEF Complete
  <2> QED BY <2>1
<1>4. Part(OobSize + 1, PageSize) = Array!DataOf(r.page)
  <2>1. Part(0 + OobSize + 1, PageSize) = Array!DataOf(r.page)
    BY <1>1, <1>2, DataBack, PageSizes DEF Complete
  <2>2. 0 + OobSize + 1 = OobSize + 1
    BY PageSizes
  <2> QED BY <2>1, <2>2
<1>5. QED
  BY <1>3, <1>4 DEF Buffers, Array!Answer

LEMMA ReadPlanesAnswered ==
  ASSUME NEW r, r.op = "read2", "read2" \in Ops, r.page \in 0 .. (Pages \div 2) - 1,
         Complete(r)
  PROVE  Buffers(r) = Array!Answer(r)
<1> DEFINE p == TwinPage(r.page)
           q == TwinPage(r.page) + BlockPages
<1>1. /\ p \in 0 .. Pages - 1 /\ q \in 0 .. Pages - 1
  BY TwinPages
<1>2. /\ Count(r) = 2 * PageOob
      /\ \A i : Place(r, i) = IF i <= PageOob THEN ReadPlace(p, i)
                              ELSE ReadPlace(q, i - PageOob)
  BY DEF Count, Place
<1>3. Array!TwinPage(r.page) = p
  BY DEF Array!TwinPage, TwinPage
<1> HIDE DEF p, q
<1>4. Follows(0, p, PageOob) /\ Follows(0, p, OobSize)
  <2>1. ASSUME NEW i \in 1 .. PageOob PROVE got[0 + i] = image[ReadPlace(p, i)]
    <3>1. i \in 1 .. Count(r) /\ 0 + i = i /\ i <= PageOob
      BY <1>2, PageSizes
    <3> QED BY <1>1, <1>2, <3>1, PageValue DEF Complete
  <2> QED BY <2>1, PageSizes DEF Follows
<1>5. Follows(PageOob, q, PageOob) /\ Follows(PageOob, q, OobSize)
  <2>1. ASSUME NEW i \in 1 .. PageOob PROVE got[PageOob + i] = image[ReadPlace(q, i)]
    <3>1. PageOob + i \in 1 .. Count(r) /\ ~(PageOob + i <= PageOob)
          /\ (PageOob + i) - PageOob = i
      BY <1>2, PageSizes
    <3> QED BY <1>1, <1>2, <3>1, PageValue DEF Complete
  <2> QED BY <2>1, PageSizes DEF Follows
<1>6. got \in Seq(Cell) /\ Len(got) = 2 * PageOob
  BY <1>2 DEF Complete
<1>7. Part(1, OobSize) = Array!OobOf(p)
  <2>1. Part(0 + 1, OobSize) = Array!OobOf(p)
    BY <1>1, <1>4, <1>6, OobBack, PageSizes
  <2> QED BY <2>1
<1>8. Part(OobSize + 1, PageSize) = Array!DataOf(p)
  <2>1. Part(0 + OobSize + 1, PageSize) = Array!DataOf(p)
    BY <1>1, <1>4, <1>6, DataBack, PageSizes
  <2>2. 0 + OobSize + 1 = OobSize + 1
    BY PageSizes
  <2> QED BY <2>1, <2>2
<1>9. Part(PageOob + 1, OobSize) = Array!OobOf(q)
  BY <1>1, <1>5, <1>6, OobBack, PageSizes
<1>10. Part(PageOob + OobSize + 1, PageSize) = Array!DataOf(q)
  BY <1>1, <1>5, <1>6, DataBack, PageSizes
<1>11. Buffers(r) = <<Array!DataOf(p) \o Array!DataOf(q), Array!OobOf(p) \o Array!OobOf(q)>>
  BY <1>7, <1>8, <1>9, <1>10 DEF Buffers
<1>12. Array!Answer(r) = <<Array!DataOf(p) \o Array!DataOf(q), Array!OobOf(p) \o Array!OobOf(q)>>
  BY <1>3 DEF Array!Answer, q, p
<1>13. QED
  BY <1>11, <1>12
LEMMA Answered ==
  ASSUME NoPlaneProgram, request \in Requests \union {Boot}, OnScript, script = <<>>
  PROVE  Buffers(request) = Array!Answer(request)
<1>1. Complete(request)
  BY ScriptComplete
<1>2. CASE request = Boot
  BY <1>1, <1>2, BootAnswered
<1>3. ASSUME NEW r \in Requests, Complete(r)
      PROVE  Buffers(r) = Array!Answer(r)
  <2>1. CASE r.op \in {"read", "load"}
    BY <1>3, <2>1, RequestShapes, ReadAnswered
  <2>2. CASE r.op = "readoob"
    BY <1>3, <2>2, RequestShapes, ReadOobAnswered
  <2>3. CASE r.op \in {"identify", "query"}
    BY <1>3, <2>3, IdentityAnswered
  <2>4. CASE r.op = "read2"
    BY <1>3, <2>4, RequestShapes, ReadPlanesAnswered
  <2>5. CASE r.op \in {"write", "writeoob", "erase", "erase2"}
    BY <2>5 DEF Buffers, Array!Answer
  <2> QED BY <2>1, <2>2, <2>3, <2>4, <2>5, RequestShapes DEF NoPlaneProgram
<1>4. CASE request \in Requests
  BY <1>1, <1>3, <1>4
<1>5. QED
  BY <1>2, <1>4

-----------------------------------------------------------------------------
(* The steps.                                                              *)
LEMMA ConfirmsOnceLater ==
  ASSUME ConfirmsOnce, request' = request, script' = Tail(script),
         script \in Seq(Item), script # <<>>
  PROVE  ConfirmsOnce'
<1>1. /\ Len(script) \in Nat /\ Len(script') = Len(script) - 1
      /\ \A i \in 1 .. Len(script') : script'[i] = script[i + 1]
  OBVIOUS
<1>2. ASSUME request.op \in Mutating,
             NEW i \in 1 .. Len(script'), NEW j \in 1 .. Len(script'),
             Confirms(script'[i]), Confirms(script'[j])
      PROVE  i = j
  <2>1. i + 1 \in 1 .. Len(script) /\ j + 1 \in 1 .. Len(script)
    BY <1>1
  <2>2. Confirms(script[i + 1]) /\ Confirms(script[j + 1])
    BY <1>1, <1>2
  <2>3. i + 1 = j + 1
    BY <1>2, <2>1, <2>2 DEF ConfirmsOnce
  <2> QED BY <2>3
<1>3. QED
  BY <1>2 DEF ConfirmsOnce, Confirms

LEMMA ArrayInvStep ==
  ASSUME NoPlaneProgram, ArrayInv, [Next]_vars
  PROVE  ArrayInv'
<1>1. DriverInv'
  BY DriverStep DEF ArrayInv
<1>2. ConfirmsOnce'
  <2>1. CASE Issue
    <3>1. PICK r \in Requests : request' = r /\ script' = Script(r)
      BY <2>1 DEF Issue
    <3>2. ASSUME r.op \in Mutating,
                 NEW i \in 1 .. Len(Script(r)), NEW j \in 1 .. Len(Script(r)),
                 Confirms(Script(r)[i]), Confirms(Script(r)[j])
          PROVE  i = j
      BY <3>2, OnceMutating DEF Once
    <3> QED BY <3>1, <3>2 DEF ConfirmsOnce, Confirms
  <2>2. CASE BusCycle
    <3>1. script # <<>> /\ script' = Tail(script) /\ request' = request
      BY <2>2, BusFollows DEF ArrayInv
    <3> QED BY <3>1, ConfirmsOnceLater DEF ArrayInv, DriverInv, DriverTypes
  <2>3. CASE Finish
    BY <2>3 DEF Finish, ConfirmsOnce, None, Mutating
  <2>4. CASE Restart
    BY <2>4 DEF Restart, ConfirmsOnce, Boot, Mutating
  <2>5. CASE UNCHANGED vars
    BY <2>5 DEF vars, driverVars, ArrayInv, ConfirmsOnce, Confirms
  <2> QED BY <2>1, <2>2, <2>3, <2>4, <2>5 DEF Next
<1>3. QED
  BY <1>1, <1>2 DEF ArrayInv

LEMMA StoredStays ==
  ASSUME image' = image
  PROVE  Stored' = Stored
  BY DEF Stored

LEMMA IssueSubmits ==
  ASSUME NoPlaneProgram, NoPlaneErase, ArrayInv, Issue
  PROVE  Array!Submit
<1>1. PICK r \in Requests : request' = r /\ script' = Script(r)
  BY DEF Issue
<1>2. running /\ running' /\ image' = image /\ reply' = reply /\ request = None
  BY DEF Issue, nandVars
<1>3. Holder = Array!None /\ Holder' = r
  BY <1>1, <1>2 DEF Holder, None, Array!None
<1>4. Stored' = Stored
  BY <1>2, StoredStays
<1>5. ~Effected'
  <2>1. CASE r.op \in Mutating
    <3>1. PICK k \in 1 .. Len(Script(r)) : Confirms(Script(r)[k])
      BY <2>1, OnceMutating DEF Once
    <3>2. k \in 1 .. Len(script') /\ Confirms(script'[k])
      BY <1>1, <3>1
    <3> QED BY <3>2 DEF Effected, Confirms
  <2>2. CASE r.op \notin Mutating
    <3>1. r.op \notin {"write", "writeoob", "erase", "write2", "erase2"}
      BY <2>2, RequestShapes DEF Mutating, NoPlaneProgram, NoPlaneErase
    <3> QED BY <1>1, <3>1 DEF Effected
  <2> QED BY <2>1, <2>2
<1>6. Effected' = FALSE
  BY <1>5 DEF Effected
<1>7. QED
  BY <1>1, <1>2, <1>3, <1>4, <1>6 DEF Array!Submit

\* A cycle that does not confirm leaves the effect where it was.
LEMMA EffectedStays ==
  ASSUME running, running', request' = request, script \in Seq(Item), script # <<>>,
         script' = Tail(script), ~Confirms(Head(script))
  PROVE  Effected' = Effected
<1>1. /\ Len(script) \in Nat /\ Len(script') = Len(script) - 1 /\ Head(script) = script[1]
      /\ \A i \in 1 .. Len(script') : script'[i] = script[i + 1]
  OBVIOUS
<1>2. (\A i \in 1 .. Len(script') : ~Confirms(script'[i]))
        <=> (\A i \in 1 .. Len(script) : ~Confirms(script[i]))
  <2>1. ASSUME \A i \in 1 .. Len(script) : ~Confirms(script[i]),
               NEW i \in 1 .. Len(script')
        PROVE  ~Confirms(script'[i])
    <3>1. i + 1 \in 1 .. Len(script)
      BY <1>1
    <3> QED BY <1>1, <2>1, <3>1
  <2>2. ASSUME \A i \in 1 .. Len(script') : ~Confirms(script'[i]),
               NEW i \in 1 .. Len(script)
        PROVE  ~Confirms(script[i])
    <3>1. CASE i = 1
      BY <1>1, <3>1
    <3>2. CASE i # 1
      <4>1. i - 1 \in 1 .. Len(script') /\ (i - 1) + 1 = i
        BY <1>1, <3>2
      <4> QED BY <1>1, <2>2, <4>1
    <3> QED BY <3>1, <3>2
  <2> QED BY <2>1, <2>2
<1>3. QED
  BY <1>2 DEF Effected, Confirms

LEMMA EffectedNow ==
  ASSUME running, running', request' = request, script \in Seq(Item), script # <<>>,
         script' = Tail(script), Confirms(Head(script)), request.op \in Mutating,
         ConfirmsOnce
  PROVE  ~Effected /\ Effected' = TRUE
<1>1. /\ Len(script) \in Nat /\ Len(script') = Len(script) - 1 /\ Head(script) = script[1]
      /\ 1 \in 1 .. Len(script)
      /\ \A i \in 1 .. Len(script') : script'[i] = script[i + 1]
  OBVIOUS
<1>2. ~Effected
  BY <1>1 DEF Effected
<1>3. ASSUME NEW i \in 1 .. Len(script') PROVE ~Confirms(script'[i])
  <2>1. i + 1 \in 1 .. Len(script) /\ i + 1 # 1
    BY <1>1
  <2>2. ~Confirms(script[i + 1])
    BY <1>1, <2>1 DEF ConfirmsOnce
  <2> QED BY <1>1, <2>2
<1>4. request'.op \in {"write", "writeoob", "erase", "write2", "erase2"}
  BY DEF Mutating
<1>5. QED
  BY <1>2, <1>3, <1>4 DEF Effected, Confirms
LEMMA ImageStays ==
  ASSUME NEW c, c \notin Confirming, WriteCommand(c)
  PROVE  image' = image
<1>1. CASE KnownCommand(c)
  BY <1>1 DEF KnownCommand, Confirming, StartAddress, StartErase, LoadPage, LoadNextPage,
     LoadId, LoadStatus, StartProgram, Program, Erase, ResetChip, LoadFrom, mediaVars
<1>2. CASE CommandExit(c)
  BY <1>2 DEF CommandExit, Exit, mediaVars
<1>3. QED
  BY <1>1, <1>2 DEF WriteCommand

\* What the chip is about to store when it takes a confirming command.
LEMMA ConfirmedImage ==
  ASSUME NoPlaneErase, NandInv, NEW r \in Requests, NEW a \in Abs, NEW b \in Abs,
         Agrees(r, a), NEW c \in Confirming, CommandRuns(r, a, c, b)
  PROVE  /\ r.op \in Mutating
         /\ c = "PAGEPROG" => Array!Effect(r) = Cells(Programmed(addr, iolen))
         /\ c = "ERASE2" => Array!Effect(r) = Cells(ErasedImage(BlockAddress(addr)))
<1>1. CASE c = "PAGEPROG"
  <2>1. Filled(r, a)
    BY <1>1 DEF CommandRuns
  <2>2. r.op \in {"write", "writeoob"}
    BY <2>1 DEF Filled
  <2> QED BY <1>1, <2>1, <2>2, WriteCommits, WriteOobCommits DEF Mutating
<1>2. CASE c = "ERASE2"
  <2>1. r.op = "erase" /\ Row(addr) = r.page
    BY <1>2, RequestShapes DEF CommandRuns, Aimed, NoPlaneErase, Agrees
  <2> QED BY <1>2, <2>1, EraseCommits DEF Mutating
<1> QED
  BY <1>1, <1>2 DEF Confirming

LEMMA ConfirmStores ==
  ASSUME NoPlaneErase, NandInv, running, NEW r \in Requests, NEW a \in Abs, NEW b \in Abs,
         Agrees(r, a), NEW c \in Confirming, CommandRuns(r, a, c, b), WriteCommand(c)
  PROVE  r.op \in Mutating /\ Stored' = Array!Effect(r)
<1>1. c \in Command /\ c \in {"PAGEPROG", "ERASE2"}
  BY DEF Confirming, Command
<1>2. KnownCommand(c)
  BY <1>1, CommandKnown
<1>3. CASE c = "PAGEPROG"
  <2>1. Program("PAGEPROG")
    BY <1>2, <1>3 DEF KnownCommand, StartAddress, StartErase, LoadPage, LoadNextPage,
       LoadId, LoadStatus, StartProgram, Erase, ResetChip
  <2>2. ~(Row(addr) >= Pages)
    BY <1>3, RequestShapes, Sizes DEF CommandRuns, Filled, Agrees
  <2>3. image' = Programmed(addr, iolen)
    BY <2>1, <2>2 DEF Program
  <2> QED BY <1>3, <2>3, ConfirmedImage, NextStored
<1>4. CASE c = "ERASE2"
  <2>1. image' = ErasedImage(BlockAddress(addr))
    BY <1>2, <1>4 DEF KnownCommand, StartAddress, StartErase, LoadPage, LoadNextPage,
       LoadId, LoadStatus, StartProgram, Program, Erase, ResetChip
  <2> QED BY <1>4, <2>1, ConfirmedImage, NextStored
<1>5. QED
  BY <1>1, <1>3, <1>4

(* A write that a stop cuts short, as far as byte n of the file, leaves    *)
(* the array torn at the same byte, or complete when n is past its end.    *)
LEMMA WrittenTears ==
  ASSUME NandInv, NEW l \in Nat, NEW n \in 0 .. l, NEW new \in [0 .. l - 1 -> Cell],
         WrittenUpTo(n, new), NEW r, Array!Effect(r) = Cells(new)
  PROVE  \E m \in 0 .. Pages * PageOob : Stored' = Array!Torn(r, m)
<1> DEFINE m == IF n <= ImageSize THEN n ELSE ImageSize
<1>1. m \in 0 .. ImageSize /\ ImageSize \in Nat
  BY Sizes
<1>2. \A i \in 0 .. ImageSize - 1 : i < n <=> i < m
  BY <1>1
<1> HIDE DEF m
<1>3. ASSUME NEW p \in 0 .. Pages - 1, NEW k \in 0 .. PageOob - 1
      PROVE  image'[p * PageOob + k] = IF p * PageOob + k < m THEN Array!Effect(r)[p][k]
                                         ELSE Stored[p][k]
  <2> DEFINE i == p * PageOob + k
  <2>1. i \in 0 .. ImageSize - 1
    BY ByteInPage
  <2>2. imageLength \in Nat /\ ImageSize <= imageLength
    BY DEF NandInv, NandTypeOK, ImageCoversChip
  <2>3. Array!Effect(r)[p][k] = new[i] /\ Stored[p][k] = image[i]
    BY StoredPages DEF Cells, Page, PageIn
  <2> HIDE DEF i
  <2>4. i \in 0 .. imageLength - 1
    BY <1>1, <2>1, <2>2, IntervalGrows
  <2>5. image'[i] = IF i < n THEN new[i] ELSE image[i]
    BY <2>4, WrittenTyped
  <2>6. image'[i] = IF i < m THEN Array!Effect(r)[p][k] ELSE Stored[p][k]
    BY <1>2, <2>1, <2>3, <2>5
  <2> QED BY <2>6 DEF i
<1>4. Stored' = Array!Torn(r, m)
  BY <1>3, StoredPages DEF Stored, Array!Torn
<1>5. m \in 0 .. Pages * PageOob
  BY <1>1 DEF ImageSize
<1> QED
  BY <1>4, <1>5

LEMMA StopTears ==
  ASSUME NoPlaneErase, NandInv, NEW r \in Requests, NEW a \in Abs, NEW b \in Abs,
         Agrees(r, a), NEW c \in Confirming, CommandRuns(r, a, c, b), StoppedDuring(c)
  PROVE  /\ r.op \in Mutating
         /\ \E m \in 0 .. Pages * PageOob : Stored' = Array!Torn(r, m)
<1> DEFINE Cut(n, new) ==
  /\ WrittenUpTo(n, new)
  /\ \/ c = "PAGEPROG" /\ new = Programmed(addr, iolen)
     \/ c = "ERASE2" /\ new = ErasedImage(BlockAddress(addr))
<1>1. PICK l \in Nat : \E n \in 0 .. l : \E new \in [0 .. l - 1 -> Cell] : Cut(n, new)
  BY StoppedWrites
<1>2. PICK n \in 0 .. l, new \in [0 .. l - 1 -> Cell] : Cut(n, new)
  BY <1>1
<1>3. r.op \in Mutating /\ Array!Effect(r) = Cells(new)
  BY <1>2, ConfirmedImage
<1> QED
  BY <1>2, <1>3, WrittenTears

LEMMA BusRefines ==
  ASSUME NoPlaneErase, ArrayInv, BusCycle
  PROVE  Array!Commit \/ UNCHANGED Array!arrayVars
<1>1. /\ running /\ running' /\ script # <<>> /\ script' = Tail(script)
      /\ request' = request /\ reply' = reply
      /\ CommandCycle \/ image' = image
  BY BusFollows DEF ArrayInv
<1>2. PICK a \in Abs, b \in Abs :
        Agrees(request, a) /\ CycleRuns(request, a, Head(script), b)
  BY <1>1, NextCycle DEF ArrayInv, DriverInv
<1>3. NandInv /\ script \in Seq(Item) /\ request \in Requests \union {None, Boot}
      /\ ConfirmsOnce
  BY DEF ArrayInv, DriverInv, DriverTypes
<1>4. Holder = request /\ Holder' = request
  BY <1>1 DEF Holder
<1>5. CASE Confirms(Head(script))
  <2> DEFINE c == Head(script).arg
  <2>1. CommandCycle
    BY <1>5 DEF BusCycle, AddressCycle, WriteCycle, ReadCycle, StatusCycle, Pending, Confirms
  <2>2. c \in Confirming /\ CommandRuns(request, a, c, b) /\ WriteCommand(c)
    BY <1>2, <1>5, <2>1 DEF Confirms, CycleRuns, CommandCycle
  <2> HIDE DEF c
  <2>3. request \in Requests
    <3>1. request.op \notin {"none", "boot"}
      BY <2>2 DEF CommandRuns, Confirming, Filled, Aimed
    <3> QED BY <1>3, <3>1 DEF None, Boot
  <2>4. ASSUME NEW r, r = request PROVE r.op \in Mutating /\ Stored' = Array!Effect(r)
    BY <1>1, <1>2, <1>3, <2>2, <2>3, <2>4, ConfirmStores
  <2>5. request.op \in Mutating /\ Stored' = Array!Effect(request)
    BY <2>4
  <2>6. ~Effected /\ Effected' = TRUE
    BY <1>1, <1>3, <1>5, <2>5, EffectedNow
  <2>7. Holder.op \in Array!Mutation
    BY <1>4, <2>5 DEF Array!Mutation, Mutating
  <2>8. Array!Commit
    BY <1>1, <1>4, <2>5, <2>6, <2>7 DEF Array!Commit
  <2> QED BY <2>8
<1>6. CASE ~Confirms(Head(script))
  <2>1. image' = image
    <3>1. CASE CommandCycle
      <4>1. WriteCommand(Head(script).arg) /\ Head(script).arg \notin Confirming
        BY <1>6, <3>1 DEF CommandCycle, Pending, Confirms
      <4> QED BY <4>1, ImageStays
    <3> QED BY <1>1, <3>1
  <2>2. Stored' = Stored
    BY <2>1, StoredStays
  <2>3. Effected' = Effected
    BY <1>1, <1>3, <1>6, EffectedStays
  <2> QED BY <1>1, <1>4, <2>2, <2>3 DEF Array!arrayVars
<1>7. QED
  BY <1>5, <1>6

LEMMA FinishRefines ==
  ASSUME NoPlaneProgram, ArrayInv, Finish
  PROVE  Array!Finish
<1>1. /\ running /\ running' /\ request # None /\ script = <<>> /\ image' = image
      /\ reply' = Buffers(request) /\ request' = None
  BY DEF Finish, nandVars
<1>2. request \in Requests \union {Boot} /\ OnScript
  BY <1>1 DEF ArrayInv, DriverInv, DriverTypes
<1>3. Holder = request /\ Holder' = Array!None
  BY <1>1 DEF Holder, None, Array!None
<1>4. Stored' = Stored
  BY <1>1, StoredStays
<1>5. reply' = Array!Answer(Holder)
  BY <1>1, <1>2, <1>3, Answered
<1>6. Holder.op \notin {"none", "off"}
  <2>1. CASE request = Boot
    BY <1>3, <2>1 DEF Boot
  <2>2. CASE request \in Requests
    BY <1>3, <2>2, RequestShapes
  <2> QED BY <1>2, <2>1, <2>2
<1>7. Holder.op \in Array!Mutation => Effected
  <2>1. Len(script) = 0
    BY <1>1
  <2> QED BY <1>1, <1>3, <2>1 DEF Effected, Array!Mutation
<1>8. Effected' = FALSE
  BY <1>1 DEF Effected, None
<1>9. QED
  BY <1>3, <1>4, <1>5, <1>6, <1>7, <1>8 DEF Array!Finish

LEMMA RestartRefines ==
  ASSUME NoPlaneErase, ArrayInv, Restart
  PROVE  Array!PowerCycle
<1>1. reply' = reply /\ request' = Boot
  BY DEF Restart
<1>2. Holder' \in {Array!Boot, Array!Off}
  BY <1>1 DEF Holder, Boot, Off, Array!Boot, Array!Off
<1>3. Effected' = FALSE
  BY <1>1 DEF Effected, Boot
<1>4. CASE NandRestart
  <2>1. Stored' = Stored
    BY <1>4, StoredStays DEF NandRestart, mediaVars
  <2> QED BY <1>1, <1>2, <1>3, <2>1 DEF Array!PowerCycle
<1>5. CASE Pending({"cmd"}) /\ StoppedDuring(Head(script).arg)
  <2> DEFINE c == Head(script).arg
  <2>1. running /\ script # <<>> /\ c \in Confirming /\ Confirms(Head(script))
    BY <1>5 DEF Pending, StoppedDuring, Confirming, Confirms
  <2>2. PICK a \in Abs, b \in Abs :
          Agrees(request, a) /\ CycleRuns(request, a, Head(script), b)
    BY <2>1, NextCycle DEF ArrayInv, DriverInv
  <2>3. CommandRuns(request, a, c, b) /\ StoppedDuring(c)
    BY <1>5, <2>2 DEF Pending, CycleRuns
  <2>4. NandInv /\ request \in Requests \union {None, Boot} /\ script \in Seq(Item)
    BY DEF ArrayInv, DriverInv, DriverTypes
  <2> HIDE DEF c
  <2>5. request \in Requests
    <3>1. request.op \notin {"none", "boot"}
      BY <2>1, <2>3 DEF CommandRuns, Confirming, Filled, Aimed
    <3> QED BY <2>4, <3>1 DEF None, Boot
  <2>6. ASSUME NEW r, r = request
        PROVE  /\ r.op \in Mutating
               /\ \E m \in 0 .. Pages * PageOob : Stored' = Array!Torn(r, m)
    BY <2>1, <2>2, <2>3, <2>4, <2>5, <2>6, StopTears
  <2>7. /\ request.op \in Mutating
        /\ \E m \in 0 .. Pages * PageOob : Stored' = Array!Torn(request, m)
    BY <2>6
  <2>8. ~Effected
    <3>1. 1 \in 1 .. Len(script) /\ Head(script) = script[1]
      BY <2>1, <2>4
    <3> QED BY <2>1, <3>1 DEF Effected
  <2>9. Holder = request /\ Holder.op \in Array!Mutation
    BY <2>1, <2>7 DEF Holder, Array!Mutation, Mutating
  <2> QED BY <1>1, <1>2, <1>3, <2>7, <2>8, <2>9, StoredPages DEF Array!PowerCycle
<1>6. QED
  BY <1>4, <1>5 DEF Restart

LEMMA ArrayStarts ==
  ASSUME Init
  PROVE  Array!ArrayInit
<1>1. running /\ request = Boot /\ reply = <<<<>>, <<>>>>
  BY DEF Init, NandInit
<1>2. image \in [0 .. ImageSize - 1 -> Cell]
  BY ImagesAreCells DEF Init, NandInit
<1>3. Stored \in [0 .. Pages - 1 -> [0 .. Array!PageOob - 1 -> Cell]]
  <2>1. \A p \in 0 .. Pages - 1, k \in 0 .. PageOob - 1 : image[p * PageOob + k] \in Cell
    BY <1>2, ByteInPage
  <2> QED BY <2>1, StoredPages DEF Stored
<1>4. Holder = Array!Boot /\ Effected = FALSE
  BY <1>1 DEF Holder, Boot, Array!Boot, Effected
<1>5. QED
  BY <1>1, <1>3, <1>4 DEF Array!ArrayInit

(* The invariant that the refinement needs: every byte read and sent is    *)
(* the request's, and a request confirms once.                             *)
LEMMA ArrayInvAlways ==
  ASSUME NoPlaneProgram
  PROVE  Spec => []ArrayInv
<1>1. Init => ArrayInv
  <2>1. Init => DriverInv
    BY DriverInit
  <2>2. Init => ConfirmsOnce
    BY DEF Init, ConfirmsOnce, Mutating, Boot
  <2> QED BY <2>1, <2>2 DEF ArrayInv
<1>2. ArrayInv /\ [Next]_vars => ArrayInv'
  BY ArrayInvStep
<1>3. QED
  BY <1>1, <1>2, PTL DEF Spec

(* The driver over the chip implements the array of pages: whatever the    *)
(* geometry, the requests and the moments the emulator is stopped at, a    *)
(* page or out-of-band write and an erase change exactly the bytes they    *)
(* name, at one instant, and a read returns the bytes that are there.      *)
THEOREM DriverImplementsArray ==
  ASSUME NoPlaneProgram, NoPlaneErase
  PROVE  Spec => ImplementsArray
<1>1. Init => Array!ArrayInit
  BY ArrayStarts
<1>2. ArrayInv /\ [Next]_vars => [Array!ArrayNext]_(Array!arrayVars)
  <2> SUFFICES ASSUME ArrayInv, [Next]_vars
               PROVE  [Array!ArrayNext]_(Array!arrayVars)
    OBVIOUS
  <2>1. CASE Issue
    BY <2>1, IssueSubmits DEF Array!ArrayNext
  <2>2. CASE BusCycle
    BY <2>2, BusRefines DEF Array!ArrayNext
  <2>3. CASE Finish
    BY <2>3, FinishRefines DEF Array!ArrayNext
  <2>4. CASE Restart
    BY <2>4, RestartRefines DEF Array!ArrayNext
  <2>5. CASE UNCHANGED vars
    BY <2>5 DEF vars, nandVars, driverVars, Array!arrayVars, Stored, Holder, Effected, Confirms
  <2> QED BY <2>1, <2>2, <2>3, <2>4, <2>5 DEF Next
<1>3. QED
  BY <1>1, <1>2, ArrayInvAlways, PTL DEF Spec, ImplementsArray, Array!ArraySpec
=============================================================================
