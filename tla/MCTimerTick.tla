----------------------------- MODULE MCTimerTick -----------------------------
(* A counter of three bits; the boot loader counts at the rate time_sync   *)
(* assumes, the kernel's tick lasts five counts of half that length.       *)
EXTENDS TimerTick
=============================================================================
