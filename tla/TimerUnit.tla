------------------------------ MODULE TimerUnit ------------------------------
(***************************************************************************)
(* Channel 0 of the JZ4740 timer unit as QEMU emulates it: hw/mips_jz.c    *)
(* 1515-1795 and hw/mips_jz_glue.h 27-240.  The emulator creates the host  *)
(* timers of this channel only (mips_jz.c:2942).                           *)
(*                                                                         *)
(* A channel is a record.  The registers ter, tsr, tfr and tmr are sets of *)
(* the bits they have of this channel: "full" is its bit 0, "half" its bit *)
(* 16.  Time is the virtual clock in units in which one count of the       *)
(* counter takes `step' units, that is prescale / freq; step 0 stands for  *)
(* freq = 0, no clock selected.                                            *)
(***************************************************************************)
EXTENDS Integers

CONSTANTS
  SyncStep,    \* units of one count at 46875 Hz, the rate time_sync assumes
  CntSpan,     \* 0x10000, where time_sync wraps the counter
  Word         \* 2^32 / prescale: the counts left are computed modulo this

ASSUME TimerUnitAssumption ==
  /\ SyncStep \in Nat \ {0}
  /\ CntSpan \in Nat \ {0}
  /\ Word \in Nat /\ Word > CntSpan

Never == -1               \* the expiry of a host timer that is not armed
Bits == {"full", "half"}
Register == 0 .. CntSpan - 1        \* 16 bits

Channel == [tsr : SUBSET Bits, ter : SUBSET Bits, tfr : SUBSET Bits,
            tmr : SUBSET Bits, tdfr : Register, tdhr : Register,
            tcnt : Register, time : Nat, step : Nat,
            full : Nat \union {Never}, half : Nat \union {Never}]

(* jz4740_tcu_if_reset and the zeroes of qemu_mallocz.                     *)
ResetChannel ==
  [tsr |-> {}, ter |-> {}, tfr |-> {}, tmr |-> {},
   tdfr |-> CntSpan - 1, tdhr |-> CntSpan \div 2, tcnt |-> 0,
   time |-> 0, step |-> 0, full |-> Never, half |-> Never]

(* Whether the stop, enable and clock bits let the bit's timer run.        *)
Enabled(c, bit) == bit \notin c.tsr /\ bit \in c.ter /\ c.step # 0

Counted(c, now) == (now - c.time) \div SyncStep

\* Mutant of Wrapped: the counter wraps one count late.
Wrapped_OneLate(n) == IF n > CntSpan THEN 0 ELSE n

Wrapped(n) == IF n >= CntSpan THEN 0 ELSE n

(* jz4740_tcu_time_sync0: the counter is brought up to date, at one rate   *)
(* whatever clock and prescaler are selected.                              *)
Synced(c, now) ==
  IF ~Enabled(c, "full") THEN c
  ELSE IF c.time = 0 THEN [c EXCEPT !.time = now, !.tcnt = 0]
  ELSE [c EXCEPT !.tcnt = Wrapped(c.tcnt + Counted(c, now)),
                 !.time = IF Counted(c, now) = 0 THEN c.time ELSE now]

(* When a counter at c.tcnt is expected to reach a compare value.          *)
Expiry(c, compare, now) == now + ((compare - c.tcnt) % Word) * c.step

(* jz4740_tcu_start_full0.                                                 *)
StartFull(c, now) ==
  LET s == Synced(c, now)
  IN  IF Enabled(c, "full")
        THEN [s EXCEPT !.full = Expiry(s, s.tdfr, now)]
        ELSE [c EXCEPT !.full = Never]

(* jz4740_tcu_start_half0: it looks at bit 16 of TER, which no write sets. *)
StartHalf(c, now) ==
  LET s == Synced(c, now)
  IN  IF Enabled(c, "half")
        THEN [s EXCEPT !.half = Expiry(s, s.tdhr, now)]
        ELSE [c EXCEPT !.half = Never]

(* jz4740_tcu_start for this channel.                                      *)
StartBoth(c, now) == StartFull(StartHalf(c, now), now)

-----------------------------------------------------------------------------
(* The register writes the guests make: jz4740_tcu_write0 and              *)
(* jz4740_tcu_if_write.                                                    *)
WriteTcsr(c, step, now) == StartBoth([c EXCEPT !.step = step], now)
WriteTcnt(c, n, now) == StartBoth([c EXCEPT !.tcnt = n, !.time = now], now)
WriteTdhr(c, n, now) == StartHalf([c EXCEPT !.tdhr = n], now)
WriteTdfr(c, n, now) == StartFull([c EXCEPT !.tdfr = n], now)

\* Mutant of WriteTesr: the bit is set and the timers are not looked at.
WriteTesr_NoStart(c, bits, now) ==
  [c EXCEPT !.ter = @ \union (bits \intersect {"full"})]

WriteTesr(c, bits, now) ==
  StartBoth([c EXCEPT !.ter = @ \union (bits \intersect {"full"})], now)
WriteTscr(c, bits, now) == StartBoth([c EXCEPT !.tsr = @ \ bits], now)

WriteTfcr(c, bits) == [c EXCEPT !.tfr = @ \ bits]
WriteTmsr(c, bits) == [c EXCEPT !.tmr = @ \union bits]
WriteTmcr(c, bits) == [c EXCEPT !.tmr = @ \ bits]

(* jz4740_tcu_update_interrupt: whether it raises the line.                *)
Raises(c) == c.tfr \ c.tmr # {}

(* jz4740_tcu_full_cb0: the next match is one period after this callback,  *)
(* however late it runs.                                                   *)
FullMatch(c, now) ==
  IF Enabled(c, "full")
    THEN [c EXCEPT !.full = now + c.tdfr * c.step,
                   !.tfr = @ \union {"full"}, !.tcnt = 0, !.time = now]
    ELSE [c EXCEPT !.full = Never]
=============================================================================
