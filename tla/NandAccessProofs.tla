--------------------------- MODULE NandAccessProofs ---------------------------
(***************************************************************************)
(* Theorems about the MTD interface of NandAccess: for any number of       *)
(* tasks, nand_chips and pages, and any mix of requests and restarts.      *)
(***************************************************************************)
EXTENDS NandAccess, TLAPS

(* The requests that go over pages stay inside the device.                 *)
PageOps == {"read", "write", "readoob", "writeoob"}
SpanOK ==
  \A u \in Users : pc[u] \in {"get", "asleep", "run"} /\ req[u].op \in PageOps =>
    /\ req[u].next \in Page /\ req[u].last \in Page
    /\ req[u].next <= req[u].last

TypeInv == TypeOK /\ SpanOK

-----------------------------------------------------------------------------
LEMMA PageFacts ==
  /\ Page \subseteq Nat
  /\ \A p \in Page : Block(p) \in Int
  /\ Blocks \subseteq Int
  /\ \A b \in Blocks : MarkedPage(b) \in Int
  /\ NoPage \notin Page
<1>1. Pages \in Nat \ {0} /\ BlockPages \in Nat \ {0} /\ FlagPage \in Nat
  BY NandAccessAssumption
<1>2. Page \subseteq Nat
  BY <1>1 DEF Page
<1>3. \A p \in Page : Block(p) \in Int
  BY <1>1, <1>2 DEF Block
<1>4. Blocks \subseteq Int
  BY <1>3 DEF Blocks
<1>5. \A b \in Blocks : MarkedPage(b) \in Int
  BY <1>1, <1>4 DEF MarkedPage
<1>6. NoPage \notin Page
  BY <1>2 DEF NoPage
<1> QED BY <1>2, <1>3, <1>4, <1>5, <1>6

LEMMA RequestTyped ==
  ASSUME NEW r \in Requests
  PROVE  /\ r \in RequestType /\ r.op # "mark"
         /\ r.op \in PageOps => r.next \in Page /\ r.last \in Page /\ r.next <= r.last
<1>1. Ops \subseteq ReqOps /\ Page \subseteq Int
  BY NandAccessAssumption, PageFacts
<1> QED BY <1>1 DEF Requests, RequestType
-----------------------------------------------------------------------------
LEMMA InitTyped == Init => TypeInv
<1> SUFFICES ASSUME Init PROVE TypeInv
  OBVIOUS
<1>1. TypeOK
  BY PageFacts DEF Init, TypeOK, NewPage, PageType, FlBusy
<1>2. SpanOK
  BY DEF Init, SpanOK
<1> QED BY <1>1, <1>2 DEF TypeInv

\* Page p of chip c is written, or is not.
LEMMA PageMayChange ==
  ASSUME TypeOK, NEW c \in Chips, NEW p \in Page, NEW g \in PageType,
         flash' = [flash EXCEPT ![c][p] = g] \/ flash' = flash
  PROVE  /\ flash' \in [Chips -> [Page -> PageType]]
         /\ \A d \in Chips, q \in Page :
              flash'[d][q] = flash[d][q] \/ (d = c /\ q = p /\ flash'[d][q] = g)
<1>1. flash \in [Chips -> [Page -> PageType]]
  BY DEF TypeOK
<1>2. CASE flash' = [flash EXCEPT ![c][p] = g]
  BY <1>1, <1>2
<1>3. CASE flash' = flash
  BY <1>1, <1>3
<1> QED
  BY <1>2, <1>3

(* The two steps that end or continue a request keep it well formed.       *)
LEMMA StopTyped ==
  ASSUME TypeInv, NEW u \in Users, NEW err \in BOOLEAN, Stop(u, err)
  PROVE  /\ pc' \in [Users -> {"idle", "get", "asleep", "run", "release"}]
         /\ req' \in [Users -> RequestType \union {NoRequest}]
         /\ failed' \in [Users -> BOOLEAN]
         /\ pc[u] # "idle" => \A v \in Users : pc'[v] # "idle" => req'[v] \in RequestType
         /\ SpanOK'
BY DEF TypeInv, TypeOK, Stop, SpanOK

LEMMA NextRequest ==
  ASSUME NEW r \in RequestType, NEW n \in Int
  PROVE  /\ Moved(r, n) \in RequestType /\ Moved(r, n).op = r.op
         /\ Moved(r, n).chip = r.chip
         /\ Moved(r, n).last = r.last /\ Moved(r, n).next = r.next + n
<1>1. PICK q : q = [r EXCEPT !.next = @ + n]
  OBVIOUS
<1>2. /\ q \in RequestType /\ q.op = r.op /\ q.chip = r.chip
      /\ q.last = r.last /\ q.next = r.next + n
  BY <1>1 DEF RequestType
<1>3. Moved(r, n) = [q EXCEPT !.head = FALSE]
  BY <1>1 DEF Moved
<1>4. /\ Moved(r, n) \in RequestType /\ Moved(r, n).op = q.op
      /\ Moved(r, n).chip = q.chip
      /\ Moved(r, n).last = q.last /\ Moved(r, n).next = q.next
  BY <1>2, <1>3 DEF RequestType
<1> QED BY <1>2, <1>4

LEMMA AdvanceTyped ==
  ASSUME TypeInv, NEW u \in Users, NEW n \in Int, NEW err \in BOOLEAN, Advance(u, n, err),
         pc[u] = "run", req[u].op \in PageOps => n = 1
  PROVE  /\ pc' \in [Users -> {"idle", "get", "asleep", "run", "release"}]
         /\ req' \in [Users -> RequestType \union {NoRequest}]
         /\ failed' \in [Users -> BOOLEAN]
         /\ \A v \in Users : pc'[v] # "idle" => req'[v] \in RequestType
         /\ SpanOK'
<1>1. CASE req[u].next >= req[u].last
  BY <1>1, StopTyped DEF Advance
<1>2. CASE ~(req[u].next >= req[u].last)
  <2>1. req[u] \in RequestType
    BY DEF TypeInv, TypeOK
  <2>2. /\ req' = [req EXCEPT ![u] = Moved(@, n)]
        /\ failed' = [failed EXCEPT ![u] = @ \/ err]
        /\ pc' = pc
    BY <1>2 DEF Advance
  <2>3. req \in [Users -> RequestType \union {NoRequest}]
    BY DEF TypeInv, TypeOK
  <2>4. req'[u] = Moved(req[u], n)
    BY <2>2, <2>3
  <2>5. /\ req'[u] \in RequestType /\ req'[u].op = req[u].op
        /\ req'[u].last = req[u].last /\ req'[u].next = req[u].next + n
    BY <2>1, <2>4, NextRequest
  <2>6. /\ \A v \in Users : v # u => req'[v] = req[v]
        /\ req' \in [Users -> RequestType \union {NoRequest}]
    <3>1. req' = [v \in Users |-> IF v = u THEN Moved(req[u], n) ELSE req[v]]
      BY <2>2, <2>3
    <3>2. Moved(req[u], n) \in RequestType
      BY <2>4, <2>5
    <3> QED BY <2>3, <3>1, <3>2
  <2>7. SpanOK'
    <3> SUFFICES ASSUME req[u].op \in PageOps
                 PROVE  req'[u].next \in Page /\ req'[u].next <= req'[u].last
      BY <2>2, <2>5, <2>6 DEF TypeInv, SpanOK
    <3> QED BY <1>2, <2>1, <2>5, NandAccessAssumption DEF RequestType, TypeInv, SpanOK, Page
  <2> QED BY <2>2, <2>5, <2>6, <2>7 DEF TypeInv, TypeOK
<1> QED BY <1>1, <1>2
COROLLARY AdvancePage ==
  ASSUME TypeInv, NEW u \in Users, NEW err \in BOOLEAN, Advance(u, 1, err), pc[u] = "run"
  PROVE  /\ pc' \in [Users -> {"idle", "get", "asleep", "run", "release"}]
         /\ req' \in [Users -> RequestType \union {NoRequest}]
         /\ failed' \in [Users -> BOOLEAN]
         /\ \A v \in Users : pc'[v] # "idle" => req'[v] \in RequestType
         /\ SpanOK'
<1>1. 1 \in Int /\ 1 = 1
  OBVIOUS
<1> QED BY <1>1, AdvanceTyped, Zenon

LEMMA PageFields ==
  ASSUME NEW g \in PageType
  PROVE  /\ g.data \in Data \union {Blank} /\ g.spoiled \in BOOLEAN /\ g.mark \in BOOLEAN
         /\ Spoiled(g) \in PageType /\ Spoiled(g).data = g.data
BY DEF PageType, Spoiled

LEMMA PageMarked ==
  ASSUME NEW g \in PageType, NEW m \in BOOLEAN
  PROVE  Marked(g, m) \in PageType /\ Marked(g, m).data = g.data
BY DEF PageType, Marked

LEMMA StartTyped ==
  ASSUME TypeInv, NEW u \in Users, NEW r \in RequestType, Start(u, r),
         r.op \in PageOps => r.next \in Page /\ r.last \in Page /\ r.next <= r.last,
         bbt' \in [Chips -> SUBSET Blocks]
  PROVE  TypeInv'
<1>1. TypeOK'
  BY DEF TypeInv, TypeOK, Start, bufferVars, lockVars, bootVars
<1>2. SpanOK'
  BY DEF TypeInv, TypeOK, SpanOK, Start
<1> QED BY <1>1, <1>2 DEF TypeInv

LEMMA StepTyped == TypeInv /\ [Next]_vars => TypeInv'
<1> SUFFICES ASSUME TypeInv, [Next]_vars PROVE TypeInv'
  OBVIOUS
<1> USE DEF lockVars, bootVars, countVars
<1>0. TypeOK /\ SpanOK
  BY DEF TypeInv
<1>1. CASE ScanBlock
  <2>1. UNCHANGED taskVars /\ SpanOK'
    BY <1>0, <1>1 DEF ScanBlock, SpanOK, taskVars
  <2>2. CASE MarkedPage(scanned) \in Page
    <3>0. \A c \in Chips : flash[c][MarkedPage(scanned)].mark \in BOOLEAN
      <4>1. \A c \in Chips : flash[c][MarkedPage(scanned)] \in PageType
        BY <1>0, <2>2 DEF TypeOK
      <4> QED BY <4>1, PageFields
    <3>1. /\ bbt' = [c \in Chips |-> IF flash[c][MarkedPage(scanned)].mark
                                       THEN bbt[c] \union {scanned} ELSE bbt[c]]
          /\ oob_poi' \in {flash[c][MarkedPage(scanned)].mark : c \in Chips}
          /\ scanned' = scanned + 1 /\ phase' = phase
          /\ scanned \in Blocks
      BY <1>1, <2>2 DEF ScanBlock
    <3>2. bbt' \in [Chips -> SUBSET Blocks] /\ oob_poi' \in BOOLEAN
      BY <1>0, <3>0, <3>1 DEF TypeOK
    <3> QED BY <1>0, <1>1, <2>1, <3>1, <3>2 DEF ScanBlock, TypeOK, TypeInv, taskVars
  <2>3. CASE MarkedPage(scanned) \notin Page
    BY <1>0, <1>1, <2>1, <2>3 DEF ScanBlock, TypeOK, TypeInv, taskVars
  <2> QED BY <2>2, <2>3
<1>2. CASE ScanDone
  BY <1>0, <1>2 DEF ScanDone, TypeInv, TypeOK, SpanOK, mediumVars, bufferVars, taskVars
<1>3. CASE Decay
  <2>1. PICK c \in Chips, p \in Page : flash' = [flash EXCEPT ![c][p] = Spoiled(@)]
    BY <1>3, NandAccessAssumption DEF Decay, Page
  <2>2. flash[c][p] \in PageType
    BY <1>0 DEF TypeOK
  <2>3. Spoiled(flash[c][p]) \in PageType
    BY <2>2, PageFields
  <2>4. flash' \in [Chips -> [Page -> PageType]]
    BY <1>0, <2>1, <2>3 DEF TypeOK
  <2> QED BY <1>0, <1>3, <2>4 DEF Decay, TypeInv, TypeOK, SpanOK, bufferVars, taskVars
<1>4. CASE Restart
  BY <1>0, <1>4 DEF Restart, TypeInv, TypeOK, SpanOK, FlBusy
<1>5. ASSUME NEW u \in Users, Ask(u) PROVE TypeInv'
  <2>1. PICK r \in Requests : Start(u, r) /\ UNCHANGED bbt
    BY <1>5 DEF Ask
  <2> QED BY <1>0, <2>1, RequestTyped, StartTyped DEF TypeOK
<1>6. ASSUME NEW u \in Users, MarkBad(u) PROVE TypeInv'
  <2>1. PICK c \in Chips, b \in Blocks :
          /\ bbt' = [bbt EXCEPT ![c] = @ \union {b}]
          /\ Start(u, MarkRequest(c, MarkedPage(b)))
    BY <1>6 DEF MarkBad
  <2>2. MarkRequest(c, MarkedPage(b)) \in RequestType
    BY PageFacts DEF MarkRequest, RequestType, ReqOps
  <2>3. MarkRequest(c, MarkedPage(b)).op \notin PageOps
    BY DEF MarkRequest, PageOps
  <2>4. bbt' \in [Chips -> SUBSET Blocks]
    BY <1>0, <2>1 DEF TypeOK
  <2> QED BY <2>1, <2>2, <2>3, <2>4, StartTyped
<1>7. ASSUME NEW u \in Users, GetDevice(u) PROVE TypeInv'
  <2>1. req[u] \in RequestType
    BY <1>0, <1>7 DEF TypeOK, GetDevice
  <2>2. FlState(req[u].op) \in FlBusy
    BY <2>1 DEF RequestType, ReqOps, FlState, FlBusy
  <2>3. req[u].chip \in Chips
    BY <2>1 DEF RequestType
  <2>4. /\ pc' \in [Users -> {"idle", "get", "asleep", "run", "release"}]
        /\ state' \in [Chips -> FlBusy \union {"FL_READY"}]
        /\ active' \in Chips \union {NoChip}
    BY <1>0, <1>7, <2>2, <2>3 DEF TypeOK, GetDevice
  <2>5. \A v \in Users : pc'[v] # "idle" => pc[v] # "idle"
    BY <1>0, <1>7 DEF GetDevice, TypeOK
  <2>6. \A v \in Users : pc'[v] \in {"get", "asleep", "run"} => pc[v] \in {"get", "asleep", "run"}
    BY <1>0, <1>7 DEF GetDevice, TypeOK
  <2> QED BY <1>0, <1>7, <2>4, <2>5, <2>6
          DEF GetDevice, TypeInv, TypeOK, SpanOK, mediumVars, bufferVars
<1>8. ASSUME NEW u \in Users, ReleaseDevice(u) PROVE TypeInv'
  <2>1. req[u].chip \in Chips
    BY <1>0, <1>8 DEF TypeOK, ReleaseDevice, RequestType
  <2>2. /\ pc' \in [Users -> {"idle", "get", "asleep", "run", "release"}]
        /\ req' \in [Users -> RequestType \union {NoRequest}]
        /\ state' \in [Chips -> FlBusy \union {"FL_READY"}]
    BY <1>0, <1>8, <2>1 DEF TypeOK, ReleaseDevice
  <2>3. \A v \in Users : pc'[v] # "idle" => pc[v] # "idle" /\ req'[v] = req[v]
    BY <1>0, <1>8 DEF ReleaseDevice, TypeOK, Woken
  <2>4. \A v \in Users : pc'[v] \in {"get", "asleep", "run"} => pc[v] \in {"get", "asleep", "run"}
    BY <1>0, <1>8 DEF ReleaseDevice, TypeOK, Woken
  <2>5. TypeOK'
    BY <1>0, <1>8, <2>2, <2>3 DEF ReleaseDevice, TypeOK, mediumVars, bufferVars
  <2> QED BY <1>0, <2>3, <2>4, <2>5 DEF TypeInv, SpanOK
<1>9. ASSUME NEW u \in Users, ReadPage(u) PROVE TypeInv'
  <2>1. /\ pc[u] = "run" /\ req[u] \in RequestType
        /\ req[u].chip \in Chips /\ req[u].next \in Page
        /\ req[u].op = "read"
    BY <1>0, <1>9 DEF ReadPage, Running, TypeOK, SpanOK, PageOps, RequestType
  <2> DEFINE pg == flash[req[u].chip][req[u].next]
  <2>2. pg \in PageType
    BY <1>0, <2>1 DEF TypeOK
  <2>3. CASE InBuffer(req[u])
    <3>1. ReadFromBuffer(u)
      BY <1>9, <2>3 DEF ReadPage
    <3>2. /\ Advance(u, 1, FALSE)
          /\ out' \in [Users -> Data \union {Blank}] /\ tainted' \in [Users -> BOOLEAN]
      BY <1>0, <3>1 DEF ReadFromBuffer, TypeOK
    <3>3. TypeOK'
      BY <1>0, <1>9, <2>1, <3>1, <3>2, AdvancePage
      DEF ReadPage, ReadFromBuffer, TypeOK, mediumVars, bufferVars
    <3>4. SpanOK'
      BY <2>1, <3>2, AdvancePage
    <3> QED BY <3>3, <3>4 DEF TypeInv
  <2>4. CASE ~InBuffer(req[u])
    <3>1. ReadFromFlash(u, req[u].chip, req[u].next)
      BY <1>9, <2>4 DEF ReadPage
    <3>2. /\ Advance(u, 1, pg.spoiled)
          /\ out' \in [Users -> Data \union {Blank}] /\ tainted' \in [Users -> BOOLEAN]
          /\ databuf' \in [data : Data \union {Blank}, spoiled : BOOLEAN]
          /\ pagebuf' \in [Chips -> Page \union {NoPage}]
          /\ oob_poi' \in BOOLEAN /\ pg.spoiled \in BOOLEAN
      <4>1. pg.data \in Data \union {Blank} /\ pg.spoiled \in BOOLEAN /\ pg.mark \in BOOLEAN
        BY <2>2, PageFields
      <4> HIDE DEF pg
      <4>2. /\ out' = [out EXCEPT ![u] = pg.data]
            /\ tainted' = [tainted EXCEPT ![u] = @ \/ pg.spoiled]
            /\ oob_poi' = pg.mark
            /\ IF Partial(req[u])
                 THEN /\ databuf' = [data |-> pg.data, spoiled |-> pg.spoiled]
                      /\ pagebuf' = [pagebuf EXCEPT ![req[u].chip] = req[u].next]
                 ELSE UNCHANGED <<databuf, pagebuf>>
            /\ Advance(u, 1, pg.spoiled)
        BY <3>1 DEF ReadFromFlash, pg
      <4>3. tainted' \in [Users -> BOOLEAN]
        BY <1>0, <4>2 DEF TypeOK
      <4>4. out' \in [Users -> Data \union {Blank}]
        BY <1>0, <4>1, <4>2 DEF TypeOK
      <4>5. databuf' \in [data : Data \union {Blank}, spoiled : BOOLEAN]
        BY <1>0, <4>1, <4>2 DEF TypeOK
      <4>6. pagebuf' \in [Chips -> Page \union {NoPage}]
        BY <1>0, <2>1, <4>2 DEF TypeOK
      <4> QED BY <4>1, <4>2, <4>3, <4>4, <4>5, <4>6
    <3>3. TypeOK'
      BY <1>0, <1>9, <2>1, <3>2, AdvancePage DEF ReadPage, TypeOK, mediumVars
    <3>4. SpanOK'
      BY <2>1, <3>2, AdvancePage
    <3> QED BY <3>3, <3>4 DEF TypeInv
  <2> QED BY <2>3, <2>4
<1>10. ASSUME NEW u \in Users, ReadOob(u) PROVE TypeInv'
  <2>1. /\ pc[u] = "run" /\ req[u] \in RequestType
        /\ req[u].chip \in Chips /\ req[u].next \in Page
    BY <1>0, <1>10 DEF ReadOob, Running, TypeOK, SpanOK, PageOps, RequestType
  <2>0. flash[req[u].chip][req[u].next].mark \in BOOLEAN
    <3>1. flash[req[u].chip][req[u].next] \in PageType
      BY <1>0, <2>1 DEF TypeOK
    <3> QED BY <3>1, PageFields
  <2>2. /\ oob_poi' \in BOOLEAN /\ Advance(u, 1, FALSE)
    BY <1>10, <2>0 DEF ReadOob
  <2>3. TypeOK'
    BY <1>0, <1>10, <2>1, <2>2, AdvancePage DEF ReadOob, TypeOK, mediumVars
  <2> QED BY <2>1, <2>2, <2>3, AdvancePage DEF TypeInv
<1>11. ASSUME NEW u \in Users, WritePage(u) PROVE TypeInv'
  <2> DEFINE r == req[u]
  <2>1. /\ pc[u] = "run" /\ r \in RequestType
        /\ r.chip \in Chips /\ r.next \in Page /\ r.data \in Data \union {Blank}
    BY <1>0, <1>11 DEF WritePage, Running, TypeOK, SpanOK, PageOps, RequestType
  <2>2. PICK fails \in BOOLEAN :
           /\ flash' = [flash EXCEPT ![r.chip][r.next] =
                          [data |-> r.data, spoiled |-> fails, mark |-> WriteMark(r.oob)]]
           /\ pagebuf' = IF Partial(r) THEN [pagebuf EXCEPT ![r.chip] = NoPage]
                                       ELSE Invalidated(r)
           /\ databuf' = IF Partial(r) THEN [data |-> r.data, spoiled |-> FALSE] ELSE databuf
           /\ oob_poi' = WriteMark(r.oob)
           /\ IF fails THEN Stop(u, TRUE) ELSE Advance(u, 1, FALSE)
    BY <1>11 DEF WritePage
  <2>3. WriteMark(r.oob) \in BOOLEAN
    BY <1>0 DEF WriteMark, TypeOK
  <2>4. flash' \in [Chips -> [Page -> PageType]]
    <3>1. [data |-> r.data, spoiled |-> fails, mark |-> WriteMark(r.oob)] \in PageType
      BY <2>1, <2>3 DEF PageType
    <3> QED BY <1>0, <2>1, <2>2, <3>1 DEF TypeOK
  <2>5. /\ pagebuf' \in [Chips -> Page \union {NoPage}]
        /\ databuf' \in [data : Data \union {Blank}, spoiled : BOOLEAN]
    BY <1>0, <2>1, <2>2 DEF TypeOK, Invalidated
  <2>6. /\ pc' \in [Users -> {"idle", "get", "asleep", "run", "release"}]
        /\ req' \in [Users -> RequestType \union {NoRequest}]
        /\ failed' \in [Users -> BOOLEAN]
        /\ \A v \in Users : pc'[v] # "idle" => req'[v] \in RequestType
        /\ SpanOK'
    BY <2>1, <2>2, StopTyped, AdvancePage
  <2>7. TypeOK'
    BY <1>0, <1>11, <2>2, <2>3, <2>4, <2>5, <2>6 DEF WritePage, TypeOK
  <2> QED BY <2>6, <2>7 DEF TypeInv
<1>12. ASSUME NEW u \in Users, WriteOob(u) PROVE TypeInv'
  <2> DEFINE r == req[u]
  <2>1. /\ pc[u] = "run" /\ r \in RequestType /\ r.chip \in Chips
    BY <1>0, <1>12 DEF WriteOob, Running, TypeOK, RequestType
  <2>2. \E err \in BOOLEAN : Stop(u, err)
    BY <1>12 DEF WriteOob
  <2>3. /\ flash' \in [Chips -> [Page -> PageType]]
        /\ pagebuf' \in [Chips -> Page \union {NoPage}]
        /\ oob_poi' \in BOOLEAN
    <3>1. CASE r.next \notin Page
      BY <1>0, <1>12, <3>1 DEF WriteOob, TypeOK
    <3>2. CASE r.next \in Page
      <4>1. /\ \/ flash' = [flash EXCEPT ![r.chip][r.next] = Marked(@, r.op = "mark")]
               \/ flash' = flash
            /\ pagebuf' = IF pagebuf[r.chip] = r.next THEN [pagebuf EXCEPT ![r.chip] = NoPage]
                                                      ELSE pagebuf
            /\ oob_poi' = FALSE
        BY <1>12, <3>2 DEF WriteOob
      <4>2. (r.op = "mark") \in BOOLEAN
        OBVIOUS
      <4>3. flash' \in [Chips -> [Page -> PageType]]
        <5>1. flash[r.chip][r.next] \in PageType
          BY <1>0, <2>1, <3>2 DEF TypeOK
        <5>2. Marked(flash[r.chip][r.next], r.op = "mark") \in PageType
          BY <4>2, <5>1, PageMarked
        <5>3. \/ flash' = [flash EXCEPT ![r.chip][r.next] =
                                Marked(flash[r.chip][r.next], r.op = "mark")]
              \/ flash' = flash
          BY <4>1
        <5> QED BY <1>0, <2>1, <3>2, <5>2, <5>3, PageMayChange
      <4> QED BY <1>0, <2>1, <4>1, <4>3 DEF TypeOK
    <3> QED BY <3>1, <3>2
  <2>4. /\ pc' \in [Users -> {"idle", "get", "asleep", "run", "release"}]
        /\ req' \in [Users -> RequestType \union {NoRequest}]
        /\ failed' \in [Users -> BOOLEAN]
        /\ \A v \in Users : pc'[v] # "idle" => req'[v] \in RequestType
    BY <2>1, <2>2, StopTyped
  <2>5. UNCHANGED <<bbt, databuf, lockVars, bootVars, out, tainted, countVars>>
    BY <1>12 DEF WriteOob
  <2>6. TypeOK'
    BY <1>0, <2>3, <2>4, <2>5 DEF TypeOK, lockVars, bootVars, countVars
  <2> QED BY <2>1, <2>2, <2>6, StopTyped DEF TypeInv
<1>13. ASSUME NEW u \in Users, EraseBlock(u) PROVE TypeInv'
  <2> DEFINE r == req[u]
  <2>1. /\ pc[u] = "run" /\ r \in RequestType /\ r.chip \in Chips
        /\ r.op = "erase" /\ BlockPages \in Int
    BY <1>0, <1>13, NandAccessAssumption DEF EraseBlock, Running, TypeOK, RequestType
  <2>2. \/ \E err \in BOOLEAN : Stop(u, err)
        \/ Advance(u, BlockPages, FALSE)
    BY <1>13 DEF EraseBlock
  <2>3. r.op \notin PageOps
    BY <2>1 DEF PageOps
  <2>4. /\ pc' \in [Users -> {"idle", "get", "asleep", "run", "release"}]
        /\ req' \in [Users -> RequestType \union {NoRequest}]
        /\ failed' \in [Users -> BOOLEAN]
        /\ \A v \in Users : pc'[v] # "idle" => req'[v] \in RequestType
        /\ SpanOK'
    BY <2>1, <2>2, <2>3, StopTyped, AdvanceTyped
  <2>5. pagebuf' \in [Chips -> Page \union {NoPage}]
    BY <1>0, <1>13, <2>1 DEF EraseBlock, TypeOK
  <2>6. flash' \in [Chips -> [Page -> PageType]]
    <3>1. CASE Block(r.next) \in bbt[r.chip]
      BY <1>0, <1>13, <3>1 DEF EraseBlock, TypeOK
    <3>2. CASE Block(r.next) \notin bbt[r.chip]
      <4>1. PICK fails \in BOOLEAN :
              flash' = [flash EXCEPT ![r.chip] =
                          [q \in Page |-> IF q \notin InBlockOf(r.next) THEN @[q]
                                          ELSE [NewPage EXCEPT !.spoiled = fails]]]
        BY <1>13, <3>2 DEF EraseBlock
      <4>2. [NewPage EXCEPT !.spoiled = fails]
              \in PageType
        BY DEF NewPage, PageType
      <4> QED BY <1>0, <2>1, <4>1, <4>2 DEF TypeOK
    <3> QED BY <3>1, <3>2
  <2>7. TypeOK'
    BY <1>0, <1>13, <2>4, <2>5, <2>6 DEF EraseBlock, TypeOK
  <2> QED BY <2>4, <2>7 DEF TypeInv
<1>14. CASE UNCHANGED vars
  BY <1>0, <1>14 DEF vars, TypeInv, TypeOK, SpanOK
<1> QED BY <1>1, <1>2, <1>3, <1>4, <1>5, <1>6, <1>7, <1>8, <1>9, <1>10, <1>11, <1>12,
           <1>13, <1>14 DEF Next, Step, Work
(* Every state is well typed, and the pages a request still has to visit   *)
(* lie inside the device: the driver never addresses a page it has not.    *)
THEOREM AccessTypeCorrect == Spec => [](TypeOK /\ SpanOK)
<1>1. Init => TypeInv
  BY InitTyped
<1>2. TypeInv /\ [Next]_vars => TypeInv'
  BY StepTyped
<1>3. TypeInv => TypeOK /\ SpanOK
  BY DEF TypeInv
<1> QED BY <1>1, <1>2, <1>3, PTL DEF Spec

-----------------------------------------------------------------------------
(* The lock.  Exclusion is not inductive by itself: the task inside owns   *)
(* the controller and its chip is not ready, and, for the sleepers, an     *)
(* owner or a chip that is not ready has its task inside.                  *)
HolderOwns ==
  \A u \in Users : Holds(u) => active = req[u].chip /\ state[req[u].chip] # "FL_READY"
OwnerInside ==
  /\ active # NoChip => \E u \in Users : Holds(u)
  /\ \A c \in Chips : state[c] # "FL_READY" => \E u \in Users : Holds(u) /\ req[u].chip = c
LockInv == Exclusive /\ HolderOwns /\ OwnerInside /\ SleepersWillWake

LEMMA InitLock == Init => LockInv
BY DEF Init, LockInv, Exclusive, HolderOwns, OwnerInside, SleepersWillWake, Holds

(* A step that keeps the lock, the holders and their chips, and puts       *)
(* nobody to sleep.                                                        *)
LEMMA LockKept ==
  ASSUME LockInv, UNCHANGED lockVars,
         \A u \in Users : /\ Holds(u)' <=> Holds(u)
                          /\ pc'[u] = "asleep" => pc[u] = "asleep"
                          /\ Holds(u) => req'[u].chip = req[u].chip
  PROVE  LockInv'
<1> USE DEF lockVars
<1>1. Exclusive'
  BY DEF LockInv, Exclusive
<1>2. HolderOwns'
  BY DEF LockInv, HolderOwns
<1>3. OwnerInside'
  BY DEF LockInv, OwnerInside
<1>4. SleepersWillWake'
  BY DEF LockInv, SleepersWillWake
<1> QED BY <1>1, <1>2, <1>3, <1>4 DEF LockInv

LEMMA StopHolds ==
  ASSUME TypeInv, NEW u \in Users, NEW err, Stop(u, err), pc[u] = "run"
  PROVE  \A v \in Users : /\ Holds(v)' <=> Holds(v)
                          /\ pc'[v] = "asleep" => pc[v] = "asleep"
                          /\ Holds(v) => req'[v].chip = req[v].chip
BY DEF TypeInv, TypeOK, Stop, Holds

LEMMA AdvanceHolds ==
  ASSUME TypeInv, NEW u \in Users, NEW n \in Int, NEW err, Advance(u, n, err), pc[u] = "run"
  PROVE  \A v \in Users : /\ Holds(v)' <=> Holds(v)
                          /\ pc'[v] = "asleep" => pc[v] = "asleep"
                          /\ Holds(v) => req'[v].chip = req[v].chip
<1>1. CASE req[u].next >= req[u].last
  BY <1>1, StopHolds DEF Advance
<1>2. CASE ~(req[u].next >= req[u].last)
  <2>1. pc' = pc /\ req' = [req EXCEPT ![u] = Moved(@, n)]
    BY <1>2 DEF Advance
  <2>2. req[u] \in RequestType /\ req \in [Users -> RequestType \union {NoRequest}]
    BY DEF TypeInv, TypeOK
  <2>3. Moved(req[u], n).chip = req[u].chip
    BY <2>2, NextRequest
  <2>4. \A v \in Users : req'[v].chip = req[v].chip
    BY <2>1, <2>2, <2>3
  <2> QED BY <2>1, <2>4 DEF Holds
<1> QED BY <1>1, <1>2

COROLLARY AdvancePageHolds ==
  ASSUME TypeInv, NEW u \in Users, NEW err, Advance(u, 1, err), pc[u] = "run"
  PROVE  \A v \in Users : /\ Holds(v)' <=> Holds(v)
                          /\ pc'[v] = "asleep" => pc[v] = "asleep"
                          /\ Holds(v) => req'[v].chip = req[v].chip
<1>1. 1 \in Int
  OBVIOUS
<1> QED BY <1>1, AdvanceHolds, Zenon

LEMMA StepLock == TypeInv /\ LockInv /\ [Next]_vars => LockInv'
<1> SUFFICES ASSUME TypeInv, LockInv, [Next]_vars PROVE LockInv'
  OBVIOUS
<1>0. TypeOK
  BY DEF TypeInv
<1>1. CASE ScanBlock \/ ScanDone \/ Decay \/ UNCHANGED vars
  <2>1. UNCHANGED lockVars /\ pc' = pc /\ req' = req
    BY <1>1 DEF ScanBlock, ScanDone, Decay, vars, taskVars, lockVars
  <2> QED BY <2>1, LockKept DEF Holds
<1>2. CASE Restart
  BY <1>2 DEF Restart, LockInv, Exclusive, HolderOwns, OwnerInside, SleepersWillWake, Holds
<1>3. ASSUME NEW u \in Users, Ask(u) \/ MarkBad(u) PROVE LockInv'
  <2>1. PICK r : Start(u, r)
    BY <1>3 DEF Ask, MarkBad
  <2>2. UNCHANGED lockVars /\ pc[u] = "idle"
        /\ pc' = [pc EXCEPT ![u] = "get"] /\ req' = [req EXCEPT ![u] = r]
    BY <2>1 DEF Start
  <2> QED BY <1>0, <2>2, LockKept DEF TypeOK, Holds
<1>4. ASSUME NEW u \in Users, GetDevice(u) PROVE LockInv'
  <2> DEFINE c == req[u].chip
  <2>1. pc[u] = "get" /\ c \in Chips /\ c # NoChip /\ req' = req
    BY <1>0, <1>4, NandAccessAssumption DEF GetDevice, TypeOK, RequestType, NoChip
  <2>2. CASE Grants(c)
    <3>1. /\ active' = c
          /\ state' = [state EXCEPT ![c] = FlState(req[u].op)]
          /\ pc' = [pc EXCEPT ![u] = IF req[u].op = "sync" THEN "release" ELSE "run"]
      BY <1>4, <2>1, <2>2 DEF GetDevice, Grants
    <3>2. FlState(req[u].op) # "FL_READY"
      BY <1>0, <2>1 DEF TypeOK, RequestType, ReqOps, FlState
    <3>3. \A v \in Users : ~Holds(v)
      <4> SUFFICES ASSUME NEW v \in Users, Holds(v) PROVE FALSE
        OBVIOUS
      <4>1. active = req[v].chip /\ state[active] # "FL_READY" /\ active \in Chips
        BY <1>0 DEF LockInv, HolderOwns, TypeOK, Holds, RequestType
      <4> QED BY <2>2, <4>1, NandAccessAssumption DEF Grants, NoChip
    <3>4. state'[c] # "FL_READY"
      BY <1>0, <2>1, <3>1, <3>2 DEF TypeOK
    <3>5. Holds(u)' /\ \A v \in Users : Holds(v)' => v = u
      BY <1>0, <3>1, <3>3 DEF TypeOK, Holds
    <3>6. \A d \in Chips : d # c => state'[d] = "FL_READY"
      BY <1>0, <3>1, <3>3 DEF TypeOK, LockInv, OwnerInside
    <3>7. Exclusive' /\ SleepersWillWake'
      BY <3>5 DEF Exclusive, SleepersWillWake
    <3>8. HolderOwns' /\ OwnerInside'
      BY <2>1, <3>1, <3>4, <3>5, <3>6 DEF HolderOwns, OwnerInside
    <3> QED BY <3>7, <3>8 DEF LockInv
  <2>3. CASE ~Grants(c)
    <3>1. /\ active' = IF active = NoChip THEN c ELSE active
          /\ state' = state /\ pc' = [pc EXCEPT ![u] = "asleep"]
      BY <1>4, <2>3 DEF GetDevice
    <3>2. \E v \in Users : Holds(v)
      BY <2>1, <2>3 DEF Grants, LockInv, OwnerInside
    <3>3. \A v \in Users : Holds(v)' <=> Holds(v)
      BY <1>0, <2>1, <3>1 DEF TypeOK, Holds
    <3>4. active # NoChip /\ active' = active
      <4>1. PICK v \in Users : Holds(v)
        BY <3>2
      <4>2. active = req[v].chip /\ req[v].chip # NoChip
        BY <1>0, <4>1, NandAccessAssumption
        DEF LockInv, HolderOwns, TypeOK, Holds, RequestType, NoChip
      <4> QED BY <3>1, <4>2
    <3> QED BY <2>1, <3>1, <3>2, <3>3, <3>4
            DEF LockInv, Exclusive, HolderOwns, OwnerInside, SleepersWillWake
  <2> QED BY <2>2, <2>3
<1>5. ASSUME NEW u \in Users, ReleaseDevice(u) PROVE LockInv'
  <2>1. /\ pc[u] = "release" /\ active' = NoChip
        /\ state' = [state EXCEPT ![req[u].chip] = "FL_READY"]
        /\ pc' = [v \in Users |-> IF v = u THEN "idle"
                                  ELSE IF v \in Woken(u) THEN "get" ELSE pc[v]]
    BY <1>5 DEF ReleaseDevice
  <2>2. \A v \in Users : ~Holds(v)' /\ pc'[v] # "asleep"
    BY <2>1 DEF LockInv, Exclusive, Holds, Woken
  <2>3. \A c \in Chips : state'[c] = "FL_READY"
    <3> SUFFICES ASSUME NEW c \in Chips, c # req[u].chip PROVE state[c] = "FL_READY"
      BY <1>0, <2>1 DEF TypeOK
    <3>1. \A v \in Users : Holds(v) => v = u
      BY <2>1 DEF LockInv, Exclusive, Holds
    <3> QED BY <3>1 DEF LockInv, OwnerInside
  <2> QED BY <2>1, <2>2, <2>3
          DEF LockInv, Exclusive, HolderOwns, OwnerInside, SleepersWillWake
<1>6. ASSUME NEW u \in Users, Work(u) PROVE LockInv'
  <2>1. UNCHANGED lockVars /\ pc[u] = "run"
    BY <1>6 DEF Work, ReadPage, ReadOob, WritePage, WriteOob, EraseBlock, Running
  <2>2. BlockPages \in Int
    BY NandAccessAssumption
  <2>3. \/ \E err : Stop(u, err) \/ Advance(u, 1, err)
        \/ Advance(u, BlockPages, FALSE)
    BY <1>6 DEF Work, ReadPage, ReadFromFlash, ReadFromBuffer, ReadOob, WritePage,
                WriteOob, EraseBlock
  <2> QED BY <2>1, <2>2, <2>3, StopHolds, AdvanceHolds, AdvancePageHolds, LockKept
<1> QED BY <1>1, <1>2, <1>3, <1>4, <1>5, <1>6 DEF Next, Step
(* Mutual exclusion in the driver: of all tasks, through whichever         *)
(* nand_chip they came, at most one is between nand_get_device and the end *)
(* of nand_release_device.                                                 *)
THEOREM LockExclusive == Spec => []Exclusive
<1>1. Init => TypeInv /\ LockInv
  BY InitTyped, InitLock
<1>2. TypeInv /\ LockInv /\ [Next]_vars => TypeInv' /\ LockInv'
  BY StepTyped, StepLock
<1>3. LockInv => Exclusive
  BY DEF LockInv
<1> QED BY <1>1, <1>2, <1>3, PTL DEF Spec

(* No lost wake-up: while a task sleeps in nand_get_device some task is    *)
(* inside and its nand_release_device, which wakes all, is still to come.  *)
THEOREM NoLostWakeUp == Spec => []SleepersWillWake
<1>1. Init => TypeInv /\ LockInv
  BY InitTyped, InitLock
<1>2. TypeInv /\ LockInv /\ [Next]_vars => TypeInv' /\ LockInv'
  BY StepTyped, StepLock
<1>3. LockInv => SleepersWillWake
  BY DEF LockInv
<1> QED BY <1>1, <1>2, <1>3, PTL DEF Spec

-----------------------------------------------------------------------------
(* The page kept in the buffer, when one nand_chip is alone on the         *)
(* controller.  (With two, PagebufTrue does not hold.)                     *)
OneChip == \A c, d \in Chips : c = d

LEMMA InitCache == Init => PagebufTrue
BY DEF Init, PagebufTrue

(* A step that changes neither the buffer nor the data of the page kept in *)
(* it, except by dropping the page.                                        *)
LEMMA CacheKept ==
  ASSUME TypeOK, PagebufTrue, databuf' = databuf,
         \A c \in Chips : pagebuf'[c] # NoPage =>
           /\ pagebuf'[c] = pagebuf[c]
           /\ flash'[c][pagebuf[c]].data = flash[c][pagebuf[c]].data
  PROVE  PagebufTrue'
BY DEF PagebufTrue

LEMMA StepCache == OneChip /\ TypeInv /\ PagebufTrue /\ [Next]_vars => PagebufTrue'
<1> SUFFICES ASSUME OneChip, TypeInv, PagebufTrue, [Next]_vars PROVE PagebufTrue'
  OBVIOUS
<1>0. TypeOK /\ SpanOK
  BY DEF TypeInv
<1>1. CASE ScanBlock \/ ScanDone \/ UNCHANGED vars
  BY <1>0, <1>1, CacheKept DEF ScanBlock, ScanDone, vars, mediumVars, bufferVars
<1>2. CASE Decay
  <2>1. PICK c \in Chips, p \in Page : flash' = [flash EXCEPT ![c][p] = Spoiled(@)]
    BY <1>2, NandAccessAssumption DEF Decay, Page
  <2>2. flash[c][p] \in PageType
    BY <1>0 DEF TypeOK
  <2>3. Spoiled(flash[c][p]).data = flash[c][p].data
    BY <2>2, PageFields
  <2>4. \A d \in Chips, q \in Page : flash'[d][q].data = flash[d][q].data
    BY <1>0, <2>1, <2>3 DEF TypeOK
  <2>5. \A d \in Chips : pagebuf[d] # NoPage => pagebuf[d] \in Page
    BY <1>0 DEF TypeOK
  <2>6. databuf' = databuf /\ pagebuf' = pagebuf
    BY <1>2 DEF Decay, bufferVars
  <2> QED BY <1>0, <2>4, <2>5, <2>6, CacheKept
<1>3. CASE Restart
  BY <1>3 DEF Restart, PagebufTrue
<1>4. ASSUME NEW u \in Users, Ask(u) \/ MarkBad(u) \/ GetDevice(u) \/ ReleaseDevice(u)
      PROVE  PagebufTrue'
  BY <1>0, <1>4, CacheKept
  DEF Ask, MarkBad, Start, GetDevice, ReleaseDevice, mediumVars, bufferVars
<1>5. ASSUME NEW u \in Users, ReadPage(u) PROVE PagebufTrue'
  <2>1. flash' = flash /\ req[u].chip \in Chips
    BY <1>0, <1>5 DEF ReadPage, Running, TypeOK, RequestType, mediumVars
  <2>2. CASE InBuffer(req[u]) \/ ~Partial(req[u])
    <3>1. databuf' = databuf /\ pagebuf' = pagebuf
      BY <1>5, <2>2 DEF ReadPage, ReadFromBuffer, ReadFromFlash, bufferVars
    <3> QED BY <1>0, <2>1, <3>1, CacheKept
  <2>3. CASE ~InBuffer(req[u]) /\ Partial(req[u])
    <3> DEFINE c == req[u].chip
               g == flash[c][req[u].next]
    <3>1. /\ databuf' = [data |-> g.data, spoiled |-> g.spoiled]
          /\ pagebuf' = [pagebuf EXCEPT ![c] = req[u].next]
      BY <1>5, <2>3 DEF ReadPage, ReadFromFlash
    <3>2. databuf'.data = g.data /\ pagebuf'[c] = req[u].next
      BY <1>0, <2>1, <3>1 DEF TypeOK
    <3>3. \A d \in Chips : d = c
      BY <2>1 DEF OneChip
    <3> QED BY <2>1, <3>2, <3>3 DEF PagebufTrue
  <2> QED BY <2>2, <2>3
<1>6. ASSUME NEW u \in Users, ReadOob(u) PROVE PagebufTrue'
  BY <1>0, <1>6, CacheKept DEF ReadOob, mediumVars
<1>7. ASSUME NEW u \in Users, WritePage(u) PROVE PagebufTrue'
  <2> DEFINE r == req[u]
  <2>1. r \in RequestType /\ r.chip \in Chips /\ r.next \in Page /\ r.last \in Page
        /\ r.next <= r.last
    BY <1>0, <1>7 DEF WritePage, Running, TypeOK, SpanOK, PageOps, RequestType
  <2>2. PICK g : /\ flash' = [flash EXCEPT ![r.chip][r.next] = g]
                 /\ pagebuf' = IF Partial(r) THEN [pagebuf EXCEPT ![r.chip] = NoPage]
                                             ELSE Invalidated(r)
                 /\ ~Partial(r) => databuf' = databuf
    BY <1>7 DEF WritePage
  <2>3. \A c \in Chips : c = r.chip
    BY <2>1 DEF OneChip
  <2>4. CASE Partial(r)
    BY <1>0, <2>1, <2>2, <2>3, <2>4 DEF TypeOK, PagebufTrue
  <2>5. CASE ~Partial(r)
    <3>0. r.next \in Int /\ r.last \in Int /\ r.next <= r.last
      BY <2>1 DEF RequestType
    <3>1. ~r.head /\ r.next \in r.next .. r.last
      <4>1. ~r.head
        BY <2>5 DEF Partial
      <4> QED BY <3>0, <4>1
    <3>2. pagebuf' = Invalidated(r) /\ databuf' = databuf
      BY <2>2, <2>5
    <3>3. pagebuf'[r.chip] # NoPage => pagebuf' = pagebuf /\ pagebuf[r.chip] # r.next
      BY <1>0, <2>1, <3>1, <3>2 DEF TypeOK, Invalidated
    <3>4. \A p : p # r.next => flash'[r.chip][p] = flash[r.chip][p]
      BY <1>0, <2>1, <2>2 DEF TypeOK
    <3> QED BY <1>0, <2>3, <3>2, <3>3, <3>4, CacheKept
  <2> QED BY <2>4, <2>5
<1>8. ASSUME NEW u \in Users, WriteOob(u) PROVE PagebufTrue'
  <2> DEFINE r == req[u]
  <2>1. r.chip \in Chips /\ databuf' = databuf
    BY <1>0, <1>8 DEF WriteOob, Running, TypeOK, RequestType
  <2>2. CASE r.next \notin Page
    BY <1>0, <1>8, <2>1, <2>2, CacheKept DEF WriteOob
  <2>3. CASE r.next \in Page
    <3>1. /\ \/ flash' = [flash EXCEPT ![r.chip][r.next] = Marked(@, r.op = "mark")]
             \/ flash' = flash
          /\ pagebuf' = IF pagebuf[r.chip] = r.next THEN [pagebuf EXCEPT ![r.chip] = NoPage]
                                                    ELSE pagebuf
      BY <1>8, <2>3 DEF WriteOob
    <3>2. \A c \in Chips : c = r.chip
      BY <2>1 DEF OneChip
    <3>3. pagebuf'[r.chip] # NoPage => pagebuf' = pagebuf /\ pagebuf[r.chip] # r.next
      BY <1>0, <2>1, <3>1 DEF TypeOK
    <3>4. \A p \in Page : p # r.next => flash'[r.chip][p] = flash[r.chip][p]
      <4>1. flash[r.chip][r.next] \in PageType /\ (r.op = "mark") \in BOOLEAN
        BY <1>0, <2>1, <2>3 DEF TypeOK
      <4>2. Marked(flash[r.chip][r.next], r.op = "mark") \in PageType
        BY <4>1, PageMarked
      <4> QED BY <1>0, <2>1, <2>3, <3>1, <4>2, PageMayChange
    <3>5. pagebuf[r.chip] \in Page \union {NoPage}
      BY <1>0, <2>1 DEF TypeOK
    <3> QED BY <1>0, <2>1, <3>2, <3>3, <3>4, <3>5, CacheKept
  <2> QED BY <2>2, <2>3
<1>9. ASSUME NEW u \in Users, EraseBlock(u) PROVE PagebufTrue'
  <2> DEFINE r == req[u]
  <2>1. r.chip \in Chips /\ databuf' = databuf
    BY <1>0, <1>9 DEF EraseBlock, Running, TypeOK, RequestType
  <2>2. CASE Block(r.next) \in bbt[r.chip]
    BY <1>0, <1>9, <2>1, <2>2, CacheKept DEF EraseBlock
  <2>3. CASE Block(r.next) \notin bbt[r.chip]
    <3>1. PICK fails \in BOOLEAN :
            flash' = [flash EXCEPT ![r.chip] =
                        [q \in Page |-> IF q \notin InBlockOf(r.next) THEN @[q]
                                        ELSE [NewPage EXCEPT !.spoiled = fails]]]
      BY <1>9, <2>3 DEF EraseBlock
    <3>2. pagebuf' = IF pagebuf[r.chip] \in InBlockOf(r.next)
                       THEN [pagebuf EXCEPT ![r.chip] = NoPage] ELSE pagebuf
      BY <1>9, <2>3 DEF EraseBlock
    <3>3. \A c \in Chips : c = r.chip
      BY <2>1 DEF OneChip
    <3>4. pagebuf'[r.chip] # NoPage =>
            /\ pagebuf' = pagebuf /\ pagebuf[r.chip] \notin InBlockOf(r.next)
            /\ pagebuf[r.chip] \in Page
      BY <1>0, <2>1, <3>2 DEF TypeOK
    <3>5. \A p \in Page : p \notin InBlockOf(r.next) => flash'[r.chip][p] = flash[r.chip][p]
      BY <1>0, <2>1, <3>1 DEF TypeOK
    <3> QED BY <1>0, <2>1, <3>3, <3>4, <3>5, CacheKept
  <2> QED BY <2>2, <2>3
<1> QED BY <1>1, <1>2, <1>3, <1>4, <1>5, <1>6, <1>7, <1>8, <1>9 DEF Next, Step, Work

(* With one nand_chip on the controller, chip->pagebuf tells the truth: it *)
(* is the page whose data databuf holds, after any mix of reads, writes,   *)
(* erases, out-of-band writes and restarts.                                *)
THEOREM CacheTrue == ASSUME OneChip PROVE Spec => []PagebufTrue
<1>1. Init => TypeInv /\ PagebufTrue
  BY InitTyped, InitCache
<1>2. TypeInv /\ PagebufTrue /\ [Next]_vars => TypeInv' /\ PagebufTrue'
  BY OneChip, StepTyped, StepCache
<1> QED BY <1>1, <1>2, PTL DEF Spec

(* With one nand_chip, what a page of a read delivers is what the flash    *)
(* holds at that moment, from the buffer as well.                          *)
THEOREM ReadsTrue == ASSUME OneChip PROVE Spec => ReadsCurrent
<1>1. Init => TypeInv /\ PagebufTrue
  BY InitTyped, InitCache
<1>2. TypeInv /\ PagebufTrue /\ [Next]_vars => TypeInv' /\ PagebufTrue'
  BY OneChip, StepTyped, StepCache
<1> DEFINE Current == \A u \in Users : ReadPage(u) =>
                        out'[u] = flash[req[u].chip][req[u].next].data
<1>3. TypeInv /\ PagebufTrue /\ [Next]_vars => [Current]_vars
  <2> SUFFICES ASSUME TypeInv, PagebufTrue, NEW u \in Users, ReadPage(u)
               PROVE  out'[u] = flash[req[u].chip][req[u].next].data
    OBVIOUS
  <2>1. /\ TypeOK /\ req[u].chip \in Chips /\ req[u].next \in Page
    BY DEF TypeInv, ReadPage, Running, TypeOK, SpanOK, PageOps, RequestType
  <2>2. CASE InBuffer(req[u])
    <3>1. out' = [out EXCEPT ![u] = databuf.data]
      BY <2>2 DEF ReadPage, ReadFromBuffer
    <3>2. pagebuf[req[u].chip] = req[u].next /\ req[u].next # NoPage
      BY <2>1, <2>2, PageFacts DEF InBuffer
    <3> QED BY <2>1, <3>1, <3>2 DEF TypeOK, PagebufTrue
  <2>3. CASE ~InBuffer(req[u])
    BY <2>1, <2>3 DEF ReadPage, ReadFromFlash, TypeOK
  <2> QED BY <2>2, <2>3
<1> QED BY <1>1, <1>2, <1>3, PTL DEF Spec, ReadsCurrent
-----------------------------------------------------------------------------
(* The marks and the bad block table, when no write takes its out-of-band  *)
(* data from what the buffer was left with ("auto") and the page of the    *)
(* mark lies inside its block.                                             *)
MarksSound == "auto" \notin OobModes /\ FlagPage < BlockPages

MarksPlaced ==
  \A c \in Chips, p \in Page : flash[c][p].mark => p = MarkedPage(Block(p))
(* A mark that is still to be written is in the table already.             *)
MarkPending(u) == pc[u] \in {"get", "asleep", "run"} /\ req[u].op = "mark"
MarksAnnounced ==
  \A u \in Users :
    /\ pc[u] # "idle" => phase = "up"
    /\ MarkPending(u) => \E b \in bbt[req[u].chip] : req[u].next = MarkedPage(b)
ScanKnows ==
  phase = "scan" =>
    \A c \in Chips, p \in Page :
      flash[c][p].mark /\ Block(p) < scanned => Block(p) \in bbt[c]
MarkInv == MarksPlaced /\ MarksAnnounced /\ ScanKnows /\ MarkedIsKnown

LEMMA BlockFacts ==
  /\ \A p \in Page : Block(p) \in Nat /\ Block(p) \in Blocks
                     /\ Block(p) * BlockPages <= p
  /\ \A b \in Blocks : b \in Nat
  /\ \A n \in Nat, p \in Page : n <= Block(p) => n \in Blocks
  /\ FlagPage < BlockPages => \A b \in Blocks : Block(MarkedPage(b)) = b
<1>1. Pages \in Nat \ {0} /\ BlockPages \in Nat \ {0} /\ FlagPage \in Nat
  BY NandAccessAssumption
<1>2. ASSUME NEW p \in Nat
      PROVE  p \div BlockPages \in Nat /\ (p \div BlockPages) * BlockPages <= p
  BY <1>1, SMT
<1>3. \A p \in Page : Block(p) \in Nat /\ Block(p) \in Blocks
                      /\ Block(p) * BlockPages <= p
  BY <1>1, <1>2 DEF Page, Block, Blocks
<1>4. \A b \in Blocks : b \in Nat
  BY <1>3 DEF Blocks
<1>5. ASSUME NEW n \in Nat, NEW f \in Nat, f < BlockPages
      PROVE  (n * BlockPages + f) \div BlockPages = n
  BY <1>1, <1>5, SMT
<1>6. ASSUME NEW n \in Nat, NEW p \in Page, n <= Block(p)
      PROVE  n \in Blocks
  <2> DEFINE b == Block(p)
             q == n * BlockPages
  <2>1. b \in Nat /\ b * BlockPages <= p /\ p \in 0 .. Pages - 1 /\ n <= b
    BY <1>3, <1>6 DEF Page
  <2> HIDE DEF b
  <2>2. n * BlockPages <= b * BlockPages /\ n * BlockPages \in Nat /\ b * BlockPages \in Nat
    BY <1>1, <2>1, SMT
  <2>3. q \in Page
    BY <1>1, <2>1, <2>2 DEF Page
  <2>4. Block(q) = n
    <3>1. (n * BlockPages + 0) \div BlockPages = n
      BY <1>1, <1>5
    <3>2. n * BlockPages + 0 = n * BlockPages
      BY <2>2
    <3> QED BY <3>1, <3>2 DEF Block
  <2> QED BY <2>3, <2>4 DEF Blocks
<1>7. ASSUME FlagPage < BlockPages, NEW b \in Blocks
      PROVE  Block(MarkedPage(b)) = b
  BY <1>1, <1>4, <1>5, <1>7 DEF Block, MarkedPage
<1> QED BY <1>3, <1>4, <1>6, <1>7

LEMMA InitMarks == Init => MarkInv
BY DEF Init, MarkInv, MarksPlaced, MarksAnnounced, ScanKnows, MarkedIsKnown,
       MarkPending, NewPage

(* A step that sets no mark, takes nothing from the table, and leaves the  *)
(* marks that are to be written as they are, or announced.                 *)
LEMMA MarksKept ==
  ASSUME MarkInv, phase' = phase, scanned' = scanned,
         \A c \in Chips : bbt[c] \subseteq bbt'[c],
         \A c \in Chips, p \in Page : flash'[c][p].mark => flash[c][p].mark,
         \A u \in Users :
           /\ pc'[u] # "idle" => pc[u] # "idle" \/ phase = "up"
           /\ MarkPending(u)' =>
                \/ MarkPending(u) /\ req'[u] = req[u] /\ req[u].chip \in Chips
                \/ \E b \in bbt'[req'[u].chip] : req'[u].next = MarkedPage(b)
  PROVE  MarkInv'
<1>1. MarksPlaced'
  BY DEF MarkInv, MarksPlaced
<1>2. MarksAnnounced'
  <2> SUFFICES ASSUME NEW u \in Users
               PROVE  /\ pc'[u] # "idle" => phase' = "up"
                      /\ MarkPending(u)' =>
                           \E b \in bbt'[req'[u].chip] : req'[u].next = MarkedPage(b)
    BY DEF MarksAnnounced
  <2>1. pc'[u] # "idle" => phase' = "up"
    BY DEF MarkInv, MarksAnnounced
  <2>2. ASSUME MarkPending(u), req'[u] = req[u], req[u].chip \in Chips
        PROVE  \E b \in bbt'[req'[u].chip] : req'[u].next = MarkedPage(b)
    BY <2>2 DEF MarkInv, MarksAnnounced
  <2> QED BY <2>1, <2>2
<1>3. ScanKnows' /\ MarkedIsKnown'
  BY DEF MarkInv, ScanKnows, MarkedIsKnown
<1> QED BY <1>1, <1>2, <1>3 DEF MarkInv

(* The end of a request or its next page starts no mark.                   *)
LEMMA WorkPending ==
  ASSUME TypeInv, NEW u \in Users, NEW err, pc[u] = "run",
         Stop(u, err) \/ \E n \in Int : Advance(u, n, err) /\ req[u].op # "mark"
  PROVE  \A v \in Users :
           /\ pc'[v] # "idle" => pc[v] # "idle"
           /\ MarkPending(v)' => MarkPending(v) /\ req'[v] = req[v] /\ req[v].chip \in Chips
<1>0. /\ req \in [Users -> RequestType \union {NoRequest}]
      /\ pc \in [Users -> {"idle", "get", "asleep", "run", "release"}]
      /\ \A v \in Users : pc[v] # "idle" => req[v] \in RequestType /\ req[v].chip \in Chips
  BY DEF TypeInv, TypeOK, RequestType
<1>1. CASE Stop(u, err)
  BY <1>0, <1>1 DEF Stop, MarkPending
<1>2. ASSUME NEW n \in Int, Advance(u, n, err), ~Stop(u, err), req[u].op # "mark"
      PROVE  \A v \in Users :
               /\ pc'[v] # "idle" => pc[v] # "idle"
               /\ MarkPending(v)' => MarkPending(v) /\ req'[v] = req[v] /\ req[v].chip \in Chips
  <2>1. pc' = pc /\ req' = [req EXCEPT ![u] = Moved(@, n)]
    BY <1>2 DEF Advance
  <2>2. Moved(req[u], n).op = req[u].op
    BY <1>0, NextRequest
  <2>3. \A v \in Users : IF v = u THEN req'[v].op # "mark" ELSE req'[v] = req[v]
    BY <1>0, <1>2, <2>1, <2>2
  <2> QED BY <1>0, <2>1, <2>3 DEF MarkPending
<1> QED BY <1>1, <1>2
LEMMA StepMarks == MarksSound /\ TypeInv /\ MarkInv /\ [Next]_vars => MarkInv'
<1> SUFFICES ASSUME MarksSound, TypeInv, MarkInv, [Next]_vars PROVE MarkInv'
  OBVIOUS
<1> USE DEF lockVars, bootVars, countVars, mediumVars
<1>0. /\ bbt \in [Chips -> SUBSET Blocks] /\ scanned \in Nat
      /\ flash \in [Chips -> [Page -> PageType]]
      /\ req \in [Users -> RequestType \union {NoRequest}]
      /\ pc \in [Users -> {"idle", "get", "asleep", "run", "release"}]
      /\ \A v \in Users : pc[v] # "idle" =>
           req[v] \in RequestType /\ req[v].chip \in Chips
  BY DEF TypeInv, TypeOK, RequestType
<1>1. CASE ScanBlock
  <2>1. /\ phase = "scan" /\ scanned \in Blocks
        /\ pc' = pc /\ req' = req /\ flash' = flash
    BY <1>1 DEF ScanBlock, taskVars
  <2>2. MarksPlaced' /\ MarkedIsKnown'
    BY <1>1, <2>1 DEF MarkInv, MarksPlaced, MarkedIsKnown, ScanBlock
  <2>3. MarksAnnounced'
    BY <2>1 DEF MarkInv, MarksAnnounced, MarkPending
  <2>4. ScanKnows'
    <3>1. CASE MarkedPage(scanned) \in Page
      <4>1. /\ bbt' = [c \in Chips |-> IF flash[c][MarkedPage(scanned)].mark
                                         THEN bbt[c] \union {scanned} ELSE bbt[c]]
            /\ scanned' = scanned + 1
        BY <1>1, <3>1 DEF ScanBlock
      <4>2. ASSUME NEW c \in Chips, NEW p \in Page, flash[c][p].mark,
                   Block(p) < scanned + 1
            PROVE  Block(p) \in bbt'[c]
        <5>1. Block(p) \in Nat /\ p = MarkedPage(Block(p))
          BY <4>2, BlockFacts DEF MarkInv, MarksPlaced
        <5>2. CASE Block(p) = scanned
          BY <4>1, <4>2, <5>1, <5>2
        <5>3. CASE Block(p) < scanned
          BY <2>1, <4>1, <4>2, <5>3 DEF MarkInv, ScanKnows
        <5> QED BY <1>0, <4>2, <5>1, <5>2, <5>3
      <4> QED BY <2>1, <4>1, <4>2 DEF ScanKnows
    <3>2. CASE MarkedPage(scanned) \notin Page
      BY <1>1, <3>2 DEF ScanBlock, ScanKnows
    <3> QED BY <3>1, <3>2
  <2> QED BY <2>2, <2>3, <2>4 DEF MarkInv
<1>2. CASE ScanDone
  <2>1. /\ phase = "scan" /\ phase' = "up" /\ scanned \notin Blocks
        /\ pc' = pc /\ req' = req /\ flash' = flash /\ bbt' = bbt
    BY <1>2 DEF ScanDone, taskVars
  <2>2. \A p \in Page : Block(p) < scanned
    BY <1>0, <2>1, BlockFacts
  <2>3. MarkedIsKnown'
    BY <2>1, <2>2 DEF MarkInv, ScanKnows, MarkedIsKnown
  <2>4. MarksPlaced' /\ MarksAnnounced' /\ ScanKnows'
    BY <2>1 DEF MarkInv, MarksPlaced, MarksAnnounced, MarkPending, ScanKnows
  <2> QED BY <2>3, <2>4 DEF MarkInv
<1>3. CASE Decay
  <2>1. PICK d \in Chips, q \in Page : flash' = [flash EXCEPT ![d][q] = Spoiled(@)]
    BY <1>3, NandAccessAssumption DEF Decay, Page
  <2>2. flash[d][q] \in PageType
    BY <1>0
  <2>3. Spoiled(flash[d][q]).mark = flash[d][q].mark
    BY <2>2 DEF Spoiled, PageType
  <2>4. \A c \in Chips, p \in Page : flash'[c][p].mark => flash[c][p].mark
    BY <1>0, <2>1, <2>3
  <2>5. /\ pc' = pc /\ req' = req /\ bbt' = bbt /\ phase' = phase
        /\ scanned' = scanned
    BY <1>3 DEF Decay, taskVars
  <2> QED BY <1>0, <2>4, <2>5, MarksKept DEF MarkPending
<1>4. CASE Restart
  <2>1. /\ phase' = "scan" /\ scanned' = 0 /\ flash' = flash
        /\ pc' = [u \in Users |-> "idle"]
    BY <1>4 DEF Restart
  <2>2. \A p \in Page : ~(Block(p) < 0)
    BY BlockFacts
  <2> QED BY <2>1, <2>2
          DEF MarkInv, MarksPlaced, MarksAnnounced, MarkPending, ScanKnows, MarkedIsKnown
<1>5. ASSUME NEW u \in Users, Ask(u) PROVE MarkInv'
  <2>1. PICK r \in Requests : Start(u, r) /\ bbt' = bbt
    BY <1>5 DEF Ask
  <2>2. r.op # "mark"
    BY RequestTyped
  <2>3. /\ phase = "up" /\ phase' = phase /\ scanned' = scanned /\ flash' = flash
        /\ pc' = [pc EXCEPT ![u] = "get"] /\ req' = [req EXCEPT ![u] = r]
    BY <2>1 DEF Start
  <2>4. \A v \in Users : MarkPending(v)' => MarkPending(v) /\ req'[v] = req[v]
                                            /\ req[v].chip \in Chips
    BY <1>0, <2>2, <2>3 DEF MarkPending
  <2> QED BY <2>1, <2>3, <2>4, MarksKept
<1>6. ASSUME NEW u \in Users, MarkBad(u) PROVE MarkInv'
  <2>1. PICK c \in Chips, b \in Blocks :
          /\ bbt' = [bbt EXCEPT ![c] = @ \union {b}]
          /\ Start(u, MarkRequest(c, MarkedPage(b)))
    BY <1>6 DEF MarkBad
  <2> DEFINE r == MarkRequest(c, MarkedPage(b))
  <2>2. /\ phase = "up" /\ phase' = phase /\ scanned' = scanned /\ flash' = flash
        /\ pc' = [pc EXCEPT ![u] = "get"] /\ req' = [req EXCEPT ![u] = r]
    BY <2>1 DEF Start
  <2>3. r.chip = c /\ r.next = MarkedPage(b)
    BY DEF MarkRequest
  <2> HIDE DEF r
  <2>4. b \in bbt'[c] /\ \A d \in Chips : bbt[d] \subseteq bbt'[d]
    BY <1>0, <2>1
  <2>5. \A v \in Users : MarkPending(v)' =>
          \/ MarkPending(v) /\ req'[v] = req[v] /\ req[v].chip \in Chips
          \/ \E k \in bbt'[req'[v].chip] : req'[v].next = MarkedPage(k)
    <3> SUFFICES ASSUME NEW v \in Users, MarkPending(v)'
                 PROVE  \/ MarkPending(v) /\ req'[v] = req[v] /\ req[v].chip \in Chips
                        \/ \E k \in bbt'[req'[v].chip] : req'[v].next = MarkedPage(k)
      OBVIOUS
    <3>1. CASE v = u
      <4>1. req'[v] = r
        BY <1>0, <2>2, <3>1
      <4> QED BY <2>3, <2>4, <4>1
    <3>2. CASE v # u
      BY <1>0, <2>2, <3>2 DEF MarkPending
    <3> QED BY <3>1, <3>2
  <2> QED BY <2>2, <2>4, <2>5, MarksKept
<1>7. ASSUME NEW u \in Users, GetDevice(u) PROVE MarkInv'
  <2>1. /\ pc[u] = "get" /\ req' = req /\ flash' = flash /\ bbt' = bbt
        /\ phase' = phase /\ scanned' = scanned
        /\ \A v \in Users : v # u => pc'[v] = pc[v]
    BY <1>0, <1>7 DEF GetDevice
  <2>2. \A v \in Users : /\ pc'[v] # "idle" => pc[v] # "idle"
                         /\ MarkPending(v)' => MarkPending(v) /\ req[v].chip \in Chips
    BY <1>0, <2>1 DEF MarkPending
  <2> QED BY <2>1, <2>2, MarksKept
<1>8. ASSUME NEW u \in Users, ReleaseDevice(u) PROVE MarkInv'
  <2>1. /\ flash' = flash /\ bbt' = bbt /\ phase' = phase /\ scanned' = scanned
        /\ req' = [req EXCEPT ![u] = NoRequest]
        /\ pc' = [v \in Users |-> IF v = u THEN "idle"
                                  ELSE IF v \in Woken(u) THEN "get" ELSE pc[v]]
    BY <1>8 DEF ReleaseDevice
  <2>2. \A v \in Users : /\ pc'[v] # "idle" => pc[v] # "idle"
                         /\ MarkPending(v)' => /\ MarkPending(v) /\ req'[v] = req[v]
                                               /\ req[v].chip \in Chips
    BY <1>0, <2>1 DEF MarkPending, Woken
  <2> QED BY <2>1, <2>2, MarksKept
<1>9. ASSUME NEW u \in Users, ReadPage(u) \/ ReadOob(u) PROVE MarkInv'
  <2>1. /\ flash' = flash /\ bbt' = bbt /\ phase' = phase /\ scanned' = scanned
        /\ pc[u] = "run" /\ req[u].op # "mark" /\ 1 \in Int
    <3>1. CASE ReadPage(u)
      BY <3>1 DEF ReadPage, Running
    <3>2. CASE ReadOob(u)
      BY <3>2 DEF ReadOob, Running
    <3> QED BY <1>9, <3>1, <3>2
  <2>2. \E err : Advance(u, 1, err)
    BY <1>9 DEF ReadPage, ReadOob, ReadFromBuffer, ReadFromFlash
  <2> QED BY <2>1, <2>2, WorkPending, MarksKept
<1>10. ASSUME NEW u \in Users, WritePage(u) PROVE MarkInv'
  <2> DEFINE r == req[u]
  <2>1. /\ bbt' = bbt /\ phase' = phase /\ scanned' = scanned
        /\ pc[u] = "run" /\ req[u].op # "mark" /\ 1 \in Int
    BY <1>10 DEF WritePage, Running
  <2>0. \E err : Stop(u, err) \/ Advance(u, 1, err)
    BY <1>10 DEF WritePage
  <2>2. r.chip \in Chips /\ r.next \in Page /\ r.oob # "auto"
    BY <1>0, <1>10 DEF WritePage, Running, TypeInv, SpanOK, PageOps, RequestType, MarksSound
  <2>3. PICK g : flash' = [flash EXCEPT ![r.chip][r.next] = g] /\ ~g.mark
    <3>1. PICK fails \in BOOLEAN :
            flash' = [flash EXCEPT ![r.chip][r.next] =
                        [data |-> r.data, spoiled |-> fails, mark |-> WriteMark(r.oob)]]
      BY <1>10 DEF WritePage
    <3>2. WriteMark(r.oob) = FALSE
      BY <2>2 DEF WriteMark
    <3> DEFINE g == [data |-> r.data, spoiled |-> fails, mark |-> WriteMark(r.oob)]
    <3>3. ~g.mark
      BY <3>2
    <3> HIDE DEF g
    <3>4. flash' = [flash EXCEPT ![r.chip][r.next] = g]
      BY <3>1 DEF g
    <3> QED BY <3>3, <3>4, Zenon
  <2>4. \A c \in Chips, p \in Page : flash'[c][p].mark => flash[c][p].mark
    BY <1>0, <2>2, <2>3
  <2> QED BY <2>0, <2>1, <2>4, WorkPending, MarksKept
<1>11. ASSUME NEW u \in Users, WriteOob(u) PROVE MarkInv'
  <2> DEFINE c == req[u].chip
             p == req[u].next
  <2>1. /\ bbt' = bbt /\ phase' = phase /\ scanned' = scanned
        /\ pc[u] = "run" /\ \E err : Stop(u, err)
        /\ req[u].op \in {"writeoob", "mark"} /\ c \in Chips
    BY <1>0, <1>11 DEF WriteOob, Running
  <2>2. CASE p \notin Page
    BY <1>11, <2>1, <2>2, WorkPending, MarksKept DEF WriteOob
  <2>3. CASE p \in Page
    <3>1. \/ flash' = [flash EXCEPT ![c][p] = Marked(@, req[u].op = "mark")]
          \/ flash' = flash
      BY <1>11, <2>3 DEF WriteOob
    <3>2. ASSUME NEW d \in Chips, NEW q \in Page, flash'[d][q].mark
          PROVE  flash[d][q].mark \/ (req[u].op = "mark" /\ d = c /\ q = p)
      <4> DEFINE g == Marked(flash[c][p], req[u].op = "mark")
      <4>1. flash[c][p] \in PageType /\ (req[u].op = "mark") \in BOOLEAN
        BY <1>0, <2>1, <2>3
      <4>2. g \in PageType
        BY <4>1, PageMarked
      <4>3. g.mark <=> req[u].op = "mark"
        BY <4>1 DEF Marked, PageType
      <4> HIDE DEF g
      <4>4. flash' = [flash EXCEPT ![c][p] = g] \/ flash' = flash
        BY <3>1 DEF g
      <4> QED BY <1>0, <2>1, <2>3, <3>2, <4>2, <4>3, <4>4, PageMayChange
    <3>3. CASE req[u].op = "writeoob"
      <4>1. \A d \in Chips, q \in Page : flash'[d][q].mark => flash[d][q].mark
        BY <3>2, <3>3
      <4> QED BY <2>1, <4>1, WorkPending, MarksKept
    <3>4. CASE req[u].op = "mark"
      <4>1. PICK b \in bbt[c] : p = MarkedPage(b)
        BY <2>1, <3>4 DEF MarkInv, MarksAnnounced, MarkPending
      <4>2. Block(p) = b /\ phase = "up"
        BY <1>0, <2>1, <4>1, BlockFacts DEF MarksSound, MarkInv, MarksAnnounced
      <4>3. \A d \in Chips, q \in Page :
              flash'[d][q].mark => flash[d][q].mark \/ (d = c /\ q = p)
        BY <3>2
      <4>4. MarksPlaced'
        BY <4>1, <4>2, <4>3 DEF MarkInv, MarksPlaced
      <4>5. MarkedIsKnown' /\ ScanKnows'
        BY <2>1, <4>1, <4>2, <4>3 DEF MarkInv, MarkedIsKnown, ScanKnows
      <4>6. MarksAnnounced'
        <5>1. \A v \in Users :
                /\ pc'[v] # "idle" => pc[v] # "idle"
                /\ MarkPending(v)' => MarkPending(v) /\ req'[v] = req[v]
          BY <2>1, WorkPending
        <5> QED BY <2>1, <5>1 DEF MarkInv, MarksAnnounced
      <4> QED BY <4>4, <4>5, <4>6 DEF MarkInv
    <3> QED BY <2>1, <3>3, <3>4
  <2> QED BY <2>2, <2>3
<1>12. ASSUME NEW u \in Users, EraseBlock(u) PROVE MarkInv'
  <2>1. /\ bbt' = bbt /\ phase' = phase /\ scanned' = scanned
        /\ pc[u] = "run" /\ req[u].op = "erase" /\ req[u].chip \in Chips
        /\ BlockPages \in Int
    BY <1>0, <1>12, NandAccessAssumption DEF EraseBlock, Running
  <2>0. \E err : Stop(u, err) \/ Advance(u, BlockPages, err)
    BY <1>12 DEF EraseBlock
  <2>2. \A c \in Chips, p \in Page : flash'[c][p].mark => flash[c][p].mark
    <3>1. CASE Block(req[u].next) \in bbt[req[u].chip]
      BY <1>12, <3>1 DEF EraseBlock
    <3>2. CASE Block(req[u].next) \notin bbt[req[u].chip]
      <4>1. PICK fails \in BOOLEAN :
              flash' = [flash EXCEPT ![req[u].chip] =
                          [q \in Page |-> IF q \notin InBlockOf(req[u].next) THEN @[q]
                                          ELSE [NewPage EXCEPT !.spoiled = fails]]]
        BY <1>12, <3>2 DEF EraseBlock
      <4>2. ~[NewPage EXCEPT !.spoiled = fails].mark
        BY DEF NewPage
      <4> QED BY <1>0, <2>1, <4>1, <4>2
    <3> QED BY <3>1, <3>2
  <2> QED BY <2>0, <2>1, <2>2, WorkPending, MarksKept
<1>13. CASE UNCHANGED vars
  BY <1>0, <1>13, MarksKept DEF vars, MarkPending
<1> QED BY <1>1, <1>2, <1>3, <1>4, <1>5, <1>6, <1>7, <1>8, <1>9, <1>10, <1>11, <1>12,
           <1>13 DEF Next, Step, Work

(* A bad block mark on the flash belongs to a block of the bad block       *)
(* table, through every restart, failed write and half-done marking.       *)
THEOREM MarksAreKnown == ASSUME MarksSound PROVE Spec => []MarkedIsKnown
<1>1. Init => TypeInv /\ MarkInv
  BY InitTyped, InitMarks
<1>2. TypeInv /\ MarkInv /\ [Next]_vars => TypeInv' /\ MarkInv'
  BY MarksSound, StepTyped, StepMarks
<1>3. MarkInv => MarkedIsKnown
  BY DEF MarkInv
<1> QED BY <1>1, <1>2, <1>3, PTL DEF Spec
=============================================================================
