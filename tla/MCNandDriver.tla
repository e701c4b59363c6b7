---------------------------- MODULE MCNandDriver ----------------------------
(* Four pages of five bytes in two blocks, on two-byte sectors: page       *)
(* boundaries are not sector boundaries, block boundaries are.             *)
EXTENDS NandDriver

MCImages ==
  {[i \in 0 .. ImageSize - 1 |-> <<"a", "b", Erased>>[(i % 3) + 1]]}
MCPageData == {<<"a", "b", "b", "a">>, <<"b", "b", "a", "a">>}
MCOobData == {<<"b">>}
=============================================================================
