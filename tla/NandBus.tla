------------------------------- MODULE NandBus -------------------------------
(***************************************************************************)
(* The NAND chip under an arbitrary sequence of at most MaxCycles bus      *)
(* cycles: nothing restrains the guest's driver here.  A stop in the       *)
(* middle of a cycle is the last step, since what follows the start is     *)
(* what follows any start, over another image.                             *)
(***************************************************************************)
EXTENDS NandFlash

CONSTANT MaxCycles

VARIABLE cycles

busVars == <<nandVars, cycles>>

BusInit == NandInit /\ cycles = 0

BusNext ==
  /\ cycles < MaxCycles
  /\ \/ cycles' = cycles + 1 /\ (NandCycle \/ NandRestart)
     \/ cycles' = MaxCycles /\ StoppedInside

BusSpec == BusInit /\ [][BusNext]_busVars
=============================================================================
