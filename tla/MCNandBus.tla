------------------------------ MODULE MCNandBus ------------------------------
(* A chip of four pages of five bytes, two blocks, on two-byte sectors: no *)
(* page boundary but a block's is a sector boundary, as in the 2112-byte   *)
(* pages of the real chip.                                                 *)
EXTENDS NandBus

(* Two images whose bytes tell the pages, and the columns, apart.          *)
MCImages ==
  {[i \in 0 .. ImageSize - 1 |-> <<"a", "b", Erased>>[(i % 3) + 1]],
   [i \in 0 .. ImageSize - 1 |-> <<"a", "b", Erased, "a">>[(i \div PageOob) + 1]]}
=============================================================================
