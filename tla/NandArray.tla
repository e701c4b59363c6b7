------------------------------ MODULE NandArray ------------------------------
(***************************************************************************)
(* What the NAND driver of the kernel promises to the file systems above   *)
(* it: an array of pages, each with data and out-of-band bytes, on which   *)
(* one request at a time is served; a program or an erase takes effect at  *)
(* one instant, and touches nothing but the pages it names.  The emulator  *)
(* can stop at any moment, with the request served, not served, or served  *)
(* up to some byte of the array; when it starts again, the boot loader's   *)
(* pages are read.                                                         *)
(***************************************************************************)
EXTENDS Integers, Sequences

CONSTANTS Pages, BlockPages, PageSize, OobSize, Erased, Requests,
          Identity,       \* what the device says it is
          Symbols         \* the values a byte may have

VARIABLES
  store,      \* store[p][k]: byte k of page p, data first
  request,    \* the request being served, None, or Off
  done,       \* its effect has happened
  reply       \* the answer to the last request

arrayVars == <<store, request, done, reply>>

None == [op |-> "none"]
Off  == [op |-> "off"]
Boot == [op |-> "boot"]

PageOob == PageSize + OobSize
Block(p) == {q \in 0 .. Pages - 1 : q \div BlockPages = p \div BlockPages}

(* On the two-plane volume, page g is made of page TwinPage(g) and of the  *)
(* page one block further; likewise for the blocks.                        *)
TwinPage(g) == (g \div BlockPages) * BlockPages + g

ErasedPage == [k \in 0 .. PageOob - 1 |-> Erased]
NewPage(d, o) ==
  [k \in 0 .. PageOob - 1 |-> IF k < PageSize THEN d[k + 1] ELSE o[k - PageSize + 1]]

Effect(r) ==
  LET twin == TwinPage(r.page)
      d1 == SubSeq(r.data, 1, PageSize)
      o1 == SubSeq(r.oob, 1, OobSize)
      d2 == SubSeq(r.data, PageSize + 1, 2 * PageSize)
      o2 == SubSeq(r.oob, OobSize + 1, 2 * OobSize)
  IN  CASE r.op = "write" -> [store EXCEPT ![r.page] = NewPage(d1, o1)]
        [] r.op = "writeoob" ->
             [store EXCEPT ![r.page] = NewPage([k \in 1 .. PageSize |-> @[k - 1]], o1)]
        [] r.op = "erase" ->
             [p \in DOMAIN store |-> IF p \in Block(r.page) THEN ErasedPage ELSE store[p]]
        [] r.op = "write2" ->
             [store EXCEPT ![twin] = NewPage(d1, o1),
                           ![twin + BlockPages] = NewPage(d2, o2)]
        [] r.op = "erase2" ->
             [p \in DOMAIN store |->
                IF p \in Block(twin) \union Block(twin + BlockPages)
                  THEN ErasedPage ELSE store[p]]

DataOf(p) == [k \in 1 .. PageSize |-> store[p][k - 1]]
OobOf(p)  == [k \in 1 .. OobSize |-> store[p][PageSize + k - 1]]

Answer(r) ==
  CASE r.op = "boot"    -> <<DataOf(0), <<>>>>
    [] r.op \in {"identify", "query"} -> <<Identity, <<>>>>
    [] r.op \in {"read", "load"} -> <<DataOf(r.page), OobOf(r.page)>>
    [] r.op = "readoob" -> <<<<>>, OobOf(r.page)>>
    [] r.op = "read2"   ->
         LET twin == TwinPage(r.page)
         IN  <<DataOf(twin) \o DataOf(twin + BlockPages),
               OobOf(twin) \o OobOf(twin + BlockPages)>>
    [] OTHER            -> <<<<>>, <<>>>>

Mutation == {"write", "writeoob", "erase", "write2", "erase2"}

ArrayInit ==
  /\ store \in [0 .. Pages - 1 -> [0 .. PageOob - 1 -> Symbols]]
  /\ request = Boot
  /\ done = FALSE
  /\ reply = <<<<>>, <<>>>>

Submit ==
  /\ request = None
  /\ request' \in Requests
  /\ done' = FALSE
  /\ UNCHANGED <<store, reply>>

Commit ==
  /\ request.op \in Mutation /\ ~done
  /\ store' = Effect(request)
  /\ done' = TRUE
  /\ UNCHANGED <<request, reply>>

Finish ==
  /\ request.op \notin {"none", "off"}
  /\ request.op \in Mutation => done
  /\ request' = None
  /\ done' = FALSE
  /\ reply' = Answer(request)
  /\ UNCHANGED store

(* The array when r has come as far as byte n of all its bytes.            *)
Torn(r, n) ==
  [p \in 0 .. Pages - 1 |-> [k \in 0 .. PageOob - 1 |->
     IF p * PageOob + k < n THEN Effect(r)[p][k] ELSE store[p][k]]]

PowerCycle ==
  /\ request' \in {Boot, Off}
  /\ done' = FALSE
  /\ \/ UNCHANGED store
     \/ /\ request.op \in Mutation /\ ~done
        /\ \E n \in 0 .. Pages * PageOob : store' = Torn(request, n)
  /\ UNCHANGED reply

ArrayNext == Submit \/ Commit \/ Finish \/ PowerCycle

ArraySpec == ArrayInit /\ [][ArrayNext]_arrayVars
=============================================================================
