------------------------------ MODULE MCTouch ------------------------------
(***************************************************************************)
(* Small instances of TouchDriver: a queue of two events, one sample less  *)
(* than the driver takes, and every order of the pen's events.             *)
(***************************************************************************)
EXTENDS TouchDriver

BothEvents == {PenUp, PenDown}
=============================================================================
