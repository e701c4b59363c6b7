---------------------------- MODULE IrqHardware ----------------------------
(***************************************************************************)
(* The path of an interrupt through the emulator: the interrupt controller *)
(* of the JZ4740 (qemu-NP/hw/mips_jz.c), the interrupt input of the MIPS   *)
(* processor (hw/mips_int.c) and the bits of the processor that decide     *)
(* whether an interrupt is taken (cpu-exec.c, target-mips/op_helper.c).    *)
(*                                                                         *)
(* A register of one bit per line is the set of lines whose bit is set.    *)
(***************************************************************************)
EXTENDS Integers

CONSTANT Lines          \* the lines of the controller that are in use

VARIABLES
  icsr,   \* lines that have been raised
  icmr,   \* lines that are masked
  icpr,   \* lines that are pending
  ip2,    \* bit IP2 of CP0_Cause, the pin the controller drives
  ie,     \* bit IE of CP0_Status
  exl,    \* bit EXL of CP0_Status
  hard    \* CPU_INTERRUPT_HARD in env->interrupt_request

intcVars == <<icsr, icmr, icpr>>
cpuVars  == <<ip2, ie, exl, hard>>

(* cpu_mips_update_irq, with the pin and the status bits it finds: the     *)
(* request is made when the pin is high, never withdrawn while interrupts  *)
(* are enabled, and withdrawn whenever they are not.                       *)
UpdateIrq(pin, enabled, level) ==
  hard' = IF enabled /\ ~level THEN hard \/ pin ELSE FALSE

(* cpu_mips_irq_request.                                                   *)
SetPin(pin) ==
  /\ ip2' = pin
  /\ UpdateIrq(pin, ie, exl)
  /\ UNCHANGED <<ie, exl>>

(* do_mtc0_status: the guest writes IE and EXL.                            *)
WriteStatus(enabled, level) ==
  /\ ie' = enabled /\ exl' = level
  /\ UpdateIrq(ip2, enabled, level)
  /\ UNCHANGED ip2

(* do_eret: EXL is cleared and nothing else is looked at.                  *)
ReturnFromException ==
  /\ exl' = FALSE
  /\ UNCHANGED <<ie, ip2, hard>>

(* cpu_exec takes the interrupt before the guest's next instruction.       *)
Due == hard /\ ip2 /\ ie /\ ~exl

RaiseException ==
  /\ Due
  /\ exl' = TRUE
  /\ UNCHANGED <<ie, ip2, hard>>

(* jz4740_set_irq at level 1; at level 0 it does nothing.                  *)
SetIrq(l) ==
  /\ icsr' = icsr \union {l}
  /\ UNCHANGED icmr
  /\ IF l \in icmr
       THEN icpr' = icpr \ {l} /\ UNCHANGED cpuVars
       ELSE icpr' = icpr \union {l} /\ SetPin(TRUE)

(* jz4740_intc_write: the registers the kernel writes, one bit at a time.  *)
WriteImsr(l) == icmr' = icmr \union {l} /\ UNCHANGED <<icsr, icpr, cpuVars>>

\* Mutant of WriteImcr: the bit is not cleared.
WriteImcr_Lost(l) == icmr' = icmr /\ UNCHANGED <<icsr, icpr, cpuVars>>

WriteImcr(l) == icmr' = icmr \ {l} /\ UNCHANGED <<icsr, icpr, cpuVars>>

\* Mutant of WriteIpr: the pending bit is set, not cleared, by a one.
WriteIpr_Keeps(l) == SetPin(FALSE) /\ UNCHANGED intcVars

(* The pin goes low whatever else is pending.                              *)
WriteIpr(l) ==
  icpr' = icpr \ {l} /\ SetPin(FALSE) /\ UNCHANGED <<icsr, icmr>>

HardwareTypeOK ==
  /\ icsr \subseteq Lines /\ icmr \subseteq Lines /\ icpr \subseteq Lines
  /\ {ip2, ie, exl, hard} \subseteq BOOLEAN
=============================================================================
