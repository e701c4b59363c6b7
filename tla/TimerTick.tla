------------------------------ MODULE TimerTick ------------------------------
(***************************************************************************)
(* The timer unit with the programs that use its channel 0: the boot       *)
(* loader, which sets it up as a free running counter (U-Boot,             *)
(* cpu/mips/jz4740.c), and the kernel, which takes it over as it finds it, *)
(* counts its ticks and reads it as a clock (arch/mips/jz4740/time.c,      *)
(* kernel/time/timekeeping.c).                                             *)
(*                                                                         *)
(* Time passes and the host timer expires between any two register         *)
(* accesses of the guest.  The interrupt controller is reduced to the mask *)
(* and the pending bit of the line of the timer; IrqKernel models it whole.*)
(***************************************************************************)
EXTENDS TimerUnit

CONSTANTS
  BootStep,    \* units of one count as the boot loader sets it, prescale 256
  TickStep,    \* and as the kernel does, prescale 16
  Latch,       \* counts of one kernel tick
  Mask,        \* clocksource_jz.mask
  MaxLate,     \* bound on the units by which the host timer is late
  MaxTime      \* bound on the virtual clock

ASSUME TimerTickAssumption ==
  /\ BootStep \in Nat \ {0} /\ TickStep \in Nat \ {0}
  /\ TickStep <= SyncStep
  /\ Latch \in 1 .. CntSpan - 1
  /\ Mask \in Nat
  /\ MaxLate \in Nat /\ MaxTime \in Nat

VARIABLES
  now,         \* the virtual clock
  ch,          \* the channel
  masked,      \* the line's bit in ICMR
  pending,     \* the line's bit in ICPR
  pc,          \* the next step of the script below
  cpu,         \* the kernel: in a thread, or the point its handler reached
  jiffies,
  clock,       \* the clock source the kernel keeps time by
  cycle_last,  \* clock->cycle_last
  loader,      \* lastdec and timestamp of the boot loader's get_timer
  begun        \* history: when a program last began to count from 0

vars == <<now, ch, masked, pending, pc, cpu, jiffies, clock, cycle_last,
          loader, begun>>
kernelVars == <<cpu, jiffies, clock, cycle_last>>
bootVars == <<loader, begun>>

(* timer_init of the boot loader, then plat_time_init of the kernel.       *)
Write == [reg : {"TCSR"}, to : Nat]
           \union [reg : {"TCNT", "TDHR", "TDFR"}, to : Register]
           \union [reg : {"TMSR", "TMCR", "TSCR", "TESR"}, to : SUBSET Bits]
W(r, v) == [reg |-> r, to |-> v]

Script ==
  << W("TCSR", BootStep), W("TCNT", 0), W("TDHR", 0), W("TDFR", CntSpan - 1),
     W("TMSR", Bits), W("TSCR", {"full"}), W("TESR", {"full"}),
     W("TCSR", TickStep), W("TCNT", 0), W("TDHR", 0), W("TDFR", Latch),
     W("TMSR", {"half"}), W("TMCR", {"full"}), W("TSCR", {"full"}),
     W("TESR", {"full"}) >>

ClearCounter == 2    \* the boot loader sets the counter to 0
Handover    == 8     \* the boot loader has set the timer up
ZeroCounter == 9     \* the kernel sets the counter to 0
SetupIrq    == 16    \* the kernel has set the timer up; setup_irq
Running     == 17    \* interrupts on

(* lastdec and timestamp, static in U-Boot's cpu/mips/jz4740.c.  The       *)
(* kernel has no such variables: its first step sets them back here.       *)
TimerZero == [lastdec |-> 0, timestamp |-> 0]

Init ==
  /\ now = 1
  /\ ch = ResetChannel
  /\ masked = TRUE /\ pending = FALSE
  /\ pc = 1
  /\ cpu = "thread"
  /\ jiffies = 0 /\ clock = "jiffies" /\ cycle_last = 0
  /\ loader = TimerZero /\ begun = 0

-----------------------------------------------------------------------------
(* The host.                                                               *)
Due == ch.full # Never /\ ch.full <= now

Pass ==
  /\ now < MaxTime
  /\ Due => now - ch.full < MaxLate
  /\ now' = now + 1
  /\ UNCHANGED <<ch, masked, pending, pc, kernelVars, bootVars>>

\* Mutant of SetLine: an event on a masked line waits for the mask to go.
SetLine_Latched(level) == pending' = (level \/ pending)

(* jz4740_set_irq: at level 1 the pending bit becomes what the mask lets   *)
(* through; at level 0 it does nothing.                                    *)
SetLine(level) == pending' = IF level THEN ~masked ELSE pending

(* qemu_run_timers, which disarms the timer before it calls full_cb.       *)
Match ==
  /\ Due
  /\ ch' = FullMatch([ch EXCEPT !.full = Never], now)
  /\ SetLine(Enabled(ch, "full") /\ Raises(ch'))
  /\ UNCHANGED <<now, masked, pc, kernelVars, bootVars>>

-----------------------------------------------------------------------------
(* The boot loader and the kernel set the timer up, interrupts off.        *)
Written(w) ==
  CASE w.reg = "TCSR" -> WriteTcsr(ch, w.to, now)
    [] w.reg = "TCNT" -> WriteTcnt(ch, w.to, now)
    [] w.reg = "TDHR" -> WriteTdhr(ch, w.to, now)
    [] w.reg = "TDFR" -> WriteTdfr(ch, w.to, now)
    [] w.reg = "TMSR" -> WriteTmsr(ch, w.to)
    [] w.reg = "TMCR" -> WriteTmcr(ch, w.to)
    [] w.reg = "TSCR" -> WriteTscr(ch, w.to, now)
    [] w.reg = "TESR" -> WriteTesr(ch, w.to, now)

SetUp ==
  /\ pc < SetupIrq
  /\ ch' = Written(Script[pc])
  /\ SetLine(Script[pc].reg \in {"TMSR", "TMCR"} /\ Raises(ch'))
  /\ pc' = pc + 1
  /\ begun' = IF pc \in {ClearCounter, ZeroCounter} THEN now ELSE begun
  /\ loader' = IF pc = Handover THEN TimerZero ELSE loader
  /\ UNCHANGED <<now, masked, kernelVars>>

(* setup_irq: startup_intc_irq.                                            *)
Unmask ==
  /\ pc = SetupIrq
  /\ masked' = FALSE
  /\ pc' = Running
  /\ UNCHANGED <<now, ch, pending, kernelVars, bootVars>>

(* The counts since the last read: a counter that went back is taken to    *)
(* have overflowed once.                                                   *)
Elapsed(n) == IF loader.lastdec <= n
                THEN n - loader.lastdec
                ELSE CntSpan - 1 + n - loader.lastdec

\* Mutant of GetTimer: the counter that was read is not remembered.
GetTimer_KeepsLast ==
  /\ pc = Handover
  /\ ch' = Synced(ch, now)
  /\ loader' = [loader EXCEPT !.timestamp = @ + Elapsed(ch'.tcnt)]
  /\ UNCHANGED <<now, masked, pending, pc, kernelVars, begun>>

(* get_timer_masked: the boot loader waits in udelay until the timestamp   *)
(* has come far enough.                                                    *)
GetTimer ==
  /\ pc = Handover
  /\ ch' = Synced(ch, now)
  /\ loader' = [lastdec |-> ch'.tcnt,
                timestamp |-> loader.timestamp + Elapsed(ch'.tcnt)]
  /\ UNCHANGED <<now, masked, pending, pc, kernelVars, begun>>

(* reset_timer_masked.                                                     *)
ResetTimer ==
  /\ pc = Handover
  /\ ch' = Synced(ch, now)
  /\ loader' = [lastdec |-> ch'.tcnt, timestamp |-> 0]
  /\ begun' = now
  /\ UNCHANGED <<now, masked, pending, pc, kernelVars>>

(* jz_get_cycles of the kernel, for gettimeofday.                          *)
ReadCounter ==
  /\ pc = Running /\ cpu = "thread"
  /\ ch' = Synced(ch, now)
  /\ UNCHANGED <<now, masked, pending, pc, kernelVars, bootVars>>

-----------------------------------------------------------------------------
(* The kernel's handler.  Dispatch: the line is masked and acknowledged.   *)
Interrupt ==
  /\ pc = Running /\ cpu = "thread" /\ pending
  /\ masked' = TRUE /\ pending' = FALSE
  /\ cpu' = "ack"
  /\ UNCHANGED <<now, ch, pc, jiffies, clock, cycle_last, bootVars>>

(* jz_timer_interrupt acknowledges the match; no interrupt is updated.     *)
Ack ==
  /\ cpu = "ack"
  /\ ch' = WriteTfcr(ch, {"full"})
  /\ cpu' = "tick"
  /\ UNCHANGED <<now, masked, pending, pc, jiffies, clock, cycle_last,
                 bootVars>>

(* do_timer.                                                               *)
Tick ==
  /\ cpu = "tick"
  /\ jiffies' = jiffies + 1
  /\ cpu' = "wall"
  /\ UNCHANGED <<now, ch, masked, pending, pc, clock, cycle_last, bootVars>>

(* jz_get_cycles, with a counter brought up to date.  The code computes it *)
(* modulo 2^32, a multiple of Mask + 1: the differences are the same.      *)
Cycles(c) == jiffies * Latch + c.tcnt
Behind(c) == (Cycles(c) - cycle_last) % (Mask + 1)

\* Mutant of UpdateWallTime: one interval too many is accumulated.
UpdateWallTime_OneMore ==
  /\ cpu = "wall" /\ clock = "jz"
  /\ cpu' = "end"
  /\ ch' = Synced(ch, now)
  /\ cycle_last' = cycle_last + Latch * (Behind(ch') \div Latch + 1)
  /\ UNCHANGED <<now, masked, pending, pc, jiffies, clock, bootVars>>

(* update_wall_time: whole intervals are accumulated.                      *)
UpdateWallTime ==
  /\ cpu = "wall" /\ clock = "jz"
  /\ cpu' = "end"
  /\ ch' = Synced(ch, now)
  /\ cycle_last' = cycle_last + Latch * (Behind(ch') \div Latch)
  /\ UNCHANGED <<now, masked, pending, pc, jiffies, clock, bootVars>>

(* change_clocksource, at the end of one update_wall_time.                 *)
ChangeClock ==
  /\ cpu = "wall" /\ clock = "jiffies"
  /\ cpu' = "end"
  /\ \/ UNCHANGED <<ch, clock, cycle_last>>
     \/ /\ clock' = "jz"
        /\ ch' = Synced(ch, now)
        /\ cycle_last' = Cycles(ch')
  /\ UNCHANGED <<now, masked, pending, pc, jiffies, bootVars>>

(* end_intc_irq.                                                           *)
End ==
  /\ cpu = "end"
  /\ masked' = FALSE
  /\ cpu' = "thread"
  /\ UNCHANGED <<now, ch, pending, pc, jiffies, clock, cycle_last, bootVars>>

Next == \/ Pass \/ Match \/ SetUp \/ Unmask \/ GetTimer \/ ResetTimer
        \/ ReadCounter \/ Interrupt \/ Ack \/ Tick
        \/ UpdateWallTime \/ ChangeClock \/ End

Spec == Init /\ [][Next]_vars

-----------------------------------------------------------------------------
(* Every register, counter and clock has its type.                         *)
TimerTypeOK ==
  /\ now \in Nat /\ ch \in Channel /\ {masked, pending} \subseteq BOOLEAN
  /\ pc \in 1 .. Running
  /\ cpu \in {"thread", "ack", "tick", "wall", "end"}
  /\ jiffies \in Nat /\ clock \in {"jiffies", "jz"} /\ cycle_last \in Nat
  /\ loader \in [lastdec : Register, timestamp : Nat] /\ begun \in Nat

(* The host timer of the full match is armed exactly while the stop,       *)
(* enable and clock bits let the channel run, whatever the order in which  *)
(* boot loader and kernel write them; the host timer of the half match is  *)
(* never armed (mips_jz_glue.h:67-107).                                    *)
TimersArmed ==
  /\ ch.full # Never <=> Enabled(ch, "full")
  /\ ch.half = Never

(* The kernel never counts a tick early: neither the state in which the    *)
(* boot loader left the timer and its flags, nor a match while the line    *)
(* was masked makes jiffies run ahead of the time since the kernel set the *)
(* timer up (time.c:141-158, mips_jz.c:487-504).                           *)
JiffiesNeverEarly == jiffies * Latch * TickStep <= now - begun

(* While no tick is outstanding a read of the clock is ahead of the last   *)
(* update of the wall time, by less than the mask of the clock source: the *)
(* difference gettimeofday adds is true (timekeeping.c:67-82).             *)
ClockInRange ==
  clock = "jz" /\ cpu = "thread" /\ "full" \notin ch.tfr =>
     Cycles(Synced(ch, now)) - cycle_last \in 0 .. Mask

(* The boot loader's timestamp is ahead of the time by at most as much     *)
(* again, and one turn of the counter: a late match sets back a counter    *)
(* that has just wrapped, and get_timer_masked counts two overflows for    *)
(* one, but never more (U-Boot cpu/mips/jz4740.c:511-525,                  *)
(* mips_jz_glue.h:62 and :158).                                            *)
TimestampAtMostTwice ==
  loader.timestamp * SyncStep <= 2 * (now - begun) + CntSpan * SyncStep
=============================================================================
