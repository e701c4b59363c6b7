------------------------------ MODULE IrqKernel ------------------------------
(***************************************************************************)
(* The kernel's interrupt handling over the emulated hardware: the         *)
(* exception entry and exit of arch/mips/kernel/genex.S, the dispatcher    *)
(* and the controller operations of arch/mips/jz4740/irq.c, and __do_IRQ   *)
(* of kernel/irq/handle.c.                                                 *)
(*                                                                         *)
(* Every step that reaches a device register or CP0_Status is an action;   *)
(* devices raise their lines between any two of them.  The kernel is the   *)
(* stack of interrupts being handled, the innermost first, each with the   *)
(* line and the point reached; the empty stack is a thread running.        *)
(***************************************************************************)
EXTENDS IrqHardware, Sequences, FiniteSets

CONSTANTS
  Tick,        \* the line of the periodic timer, IRQ_TCU0
  NoNest,      \* the lines whose handler has IRQF_DISABLED
  MaxEvents,   \* bound on the events of the other devices
  MayDisable   \* the lines a driver's thread may disable

ASSUME IrqAssumption ==
  /\ Lines \subseteq Nat /\ IsFiniteSet(Lines)
  /\ Tick \in Lines /\ \A l \in Lines : l <= Tick
  /\ NoNest \subseteq Lines /\ Tick \in NoNest
  /\ MaxEvents \in Nat
  /\ MayDisable \subseteq Lines \ {Tick}

VARIABLES
  asserted,    \* devices with an event no handler has seen
  left,        \* events the other devices may still have
  intc_ipr,    \* the dispatcher's static copy of the pending lines
  stack,       \* the interrupts being handled
  disabled,    \* lines with IRQ_DISABLED
  inprogress,  \* lines with IRQ_INPROGRESS
  pending      \* lines with IRQ_PENDING

descVars   == <<disabled, inprogress, pending>>
kernelVars == <<intc_ipr, stack, disabled, inprogress, pending>>
irqVars    == <<icsr, icmr, icpr, ip2, ie, exl, hard, asserted, left,
                intc_ipr, stack, disabled, inprogress, pending>>

NoLine == -1
Point == {"entry", "dispatch", "mask", "ack", "start", "serve", "return",
          "unmask", "softirq", "softend", "exit", "eret"}
Frame == [irq : Lines \union {NoLine}, at : Point]

IrqInit ==
  /\ icsr = {} /\ icmr = {} /\ icpr = {}
  /\ ip2 = FALSE /\ ie = TRUE /\ exl = FALSE /\ hard = FALSE
  /\ asserted = {}
  /\ left = MaxEvents
  /\ intc_ipr = {}
  /\ stack = <<>>
  /\ disabled = {} /\ inprogress = {} /\ pending = {}

-----------------------------------------------------------------------------
(* A device has an event and raises its line.                              *)
Event(l) ==
  /\ asserted' = asserted \union {l}
  /\ SetIrq(l)
  /\ IF l = Tick THEN UNCHANGED left ELSE left > 0 /\ left' = left - 1
  /\ UNCHANGED kernelVars

Interrupt ==
  /\ RaiseException
  /\ stack' = <<[irq |-> NoLine, at |-> "entry"]>> \o stack
  /\ UNCHANGED <<intcVars, asserted, left, intc_ipr, descVars>>

(* The innermost interrupt runs from point p when no other is due.         *)
At(p) == ~Due /\ stack # <<>> /\ Head(stack).at = p
Irq == Head(stack).irq
Goto(p) == stack' = <<[irq |-> Irq, at |-> p]>> \o Tail(stack)

(* handle_int: CLI.                                                        *)
Entry ==
  /\ At("entry")
  /\ WriteStatus(FALSE, FALSE)
  /\ Goto("dispatch")
  /\ UNCHANGED <<intcVars, asserted, left, intc_ipr, descVars>>

Lowest(S) == CHOOSE l \in S : \A k \in S : l <= k        \* ffs

\* Mutant of Dispatch: the line chosen stays in the static copy.
Dispatch_Keeps ==
  LET ready == intc_ipr \union icpr
  IN  /\ At("dispatch")
      /\ IF ready = {} THEN Goto("exit") /\ UNCHANGED intc_ipr
         ELSE /\ stack' = <<[irq |-> Lowest(ready), at |-> "mask"]>> \o Tail(stack)
              /\ intc_ipr' = ready
      /\ UNCHANGED <<intcVars, cpuVars, asserted, left, descVars>>

\* Mutant of Dispatch: ffs numbers the lines from one.
Dispatch_OffByOne ==
  LET ready == intc_ipr \union icpr
  IN  /\ At("dispatch")
      /\ IF ready = {} THEN Goto("exit") /\ UNCHANGED intc_ipr
         ELSE /\ stack' = <<[irq |-> Lowest(ready) + 1, at |-> "mask"]>> \o Tail(stack)
              /\ intc_ipr' = ready \ {Lowest(ready)}
      /\ UNCHANGED <<intcVars, cpuVars, asserted, left, descVars>>

(* plat_irq_dispatch: one line per exception, the lowest.                  *)
Dispatch ==
  LET ready == intc_ipr \union icpr
  IN  /\ At("dispatch")
      /\ IF ready = {} THEN Goto("exit") /\ UNCHANGED intc_ipr
         ELSE /\ stack' = <<[irq |-> Lowest(ready), at |-> "mask"]>> \o Tail(stack)
              /\ intc_ipr' = ready \ {Lowest(ready)}
      /\ UNCHANGED <<intcVars, cpuVars, asserted, left, descVars>>

\* Mutant of Mask: the line is acknowledged only.
Mask_Skipped ==
  /\ At("mask")
  /\ Goto("ack")
  /\ UNCHANGED <<intcVars, cpuVars, asserted, left, intc_ipr, descVars>>

(* __do_IRQ: mask_and_ack_intc_irq, in two register writes.                *)
Mask ==
  /\ At("mask")
  /\ WriteImsr(Irq)
  /\ Goto("ack")
  /\ UNCHANGED <<asserted, left, intc_ipr, descVars>>

Ack ==
  /\ At("ack")
  /\ WriteIpr(Irq)
  /\ IF Irq \in disabled \union inprogress
       THEN /\ pending' = pending \union {Irq}
            /\ UNCHANGED inprogress
            /\ Goto("unmask")
       ELSE /\ pending' = pending \ {Irq}
            /\ inprogress' = inprogress \union {Irq}
            /\ Goto("start")
  /\ UNCHANGED <<asserted, left, intc_ipr, disabled>>

(* handle_IRQ_event: interrupts are enabled unless the handler has         *)
(* IRQF_DISABLED, the handler sees to its device, and they are disabled.   *)
Start ==
  /\ At("start")
  /\ IF Irq \in NoNest THEN UNCHANGED cpuVars ELSE WriteStatus(TRUE, FALSE)
  /\ Goto("serve")
  /\ UNCHANGED <<intcVars, asserted, left, intc_ipr, descVars>>

Serve ==
  /\ At("serve")
  /\ asserted' = asserted \ {Irq}
  /\ Goto("return")
  /\ UNCHANGED <<intcVars, cpuVars, left, intc_ipr, descVars>>

Return ==
  /\ At("return")
  /\ WriteStatus(FALSE, FALSE)
  /\ IF Irq \in pending
       THEN pending' = pending \ {Irq} /\ UNCHANGED inprogress /\ Goto("start")
       ELSE inprogress' = inprogress \ {Irq} /\ UNCHANGED pending /\ Goto("unmask")
  /\ UNCHANGED <<intcVars, asserted, left, intc_ipr, disabled>>

\* Mutant of Unmask: softirqs run in a nested interrupt too.
Unmask_SoftirqsNest ==
  /\ At("unmask")
  /\ IF Irq \in disabled \union inprogress
       THEN UNCHANGED <<intcVars, cpuVars>>
       ELSE WriteImcr(Irq)
  /\ Goto("exit") \/ Goto("softirq")
  /\ UNCHANGED <<asserted, left, intc_ipr, descVars>>

(* end_intc_irq, then irq_exit: softirqs run in the outermost interrupt    *)
(* only, if there are any.                                                 *)
Unmask ==
  /\ At("unmask")
  /\ IF Irq \in disabled \union inprogress
       THEN UNCHANGED <<intcVars, cpuVars>>
       ELSE WriteImcr(Irq)
  /\ Goto("exit") \/ (Len(stack) = 1 /\ Goto("softirq"))
  /\ UNCHANGED <<asserted, left, intc_ipr, descVars>>

(* __do_softirq: local_irq_enable, the softirqs, local_irq_disable.        *)
SoftIrq ==
  /\ \/ At("softirq") /\ WriteStatus(TRUE, FALSE) /\ Goto("softend")
     \/ At("softend") /\ WriteStatus(FALSE, FALSE) /\ Goto("exit")
  /\ UNCHANGED <<intcVars, asserted, left, intc_ipr, descVars>>

(* RESTORE_SOME writes the saved status, EXL and IE set, then eret.        *)
Exit ==
  /\ At("exit")
  /\ WriteStatus(TRUE, TRUE)
  /\ Goto("eret")
  /\ UNCHANGED <<intcVars, asserted, left, intc_ipr, descVars>>

Eret ==
  /\ At("eret")
  /\ ReturnFromException
  /\ stack' = Tail(stack)
  /\ UNCHANGED <<intcVars, asserted, left, intc_ipr, descVars>>

-----------------------------------------------------------------------------
(* A thread: critical sections, disable_irq and enable_irq of a driver.    *)
InThread == ~Due /\ stack = <<>>

ThreadDisables ==
  /\ InThread /\ ie
  /\ WriteStatus(FALSE, FALSE)
  /\ UNCHANGED <<intcVars, asserted, left, kernelVars>>

ThreadEnables ==
  /\ InThread /\ ~ie
  /\ WriteStatus(TRUE, FALSE)
  /\ UNCHANGED <<intcVars, asserted, left, kernelVars>>

(* Under spin_lock_irqsave, whose end writes the status back.              *)
DisableIrq(l) ==
  /\ InThread /\ l \notin disabled
  /\ disabled' = disabled \union {l}
  /\ icmr' = icmr \union {l}
  /\ WriteStatus(ie, exl)
  /\ UNCHANGED <<icsr, icpr, asserted, left, intc_ipr, stack, inprogress, pending>>

(* check_irq_resend: the line is unmasked; a pending interrupt is marked   *)
(* for a replay the controller cannot do and nothing else does.            *)
EnableIrq(l) ==
  /\ InThread /\ l \in disabled
  /\ disabled' = disabled \ {l}
  /\ pending' = pending \ {l}
  /\ icmr' = icmr \ {l}
  /\ WriteStatus(ie, exl)
  /\ UNCHANGED <<icsr, icpr, asserted, left, intc_ipr, stack, inprogress>>

KernelStep ==
  Entry \/ Dispatch \/ Mask \/ Ack \/ Start \/ Serve \/ Return \/ Unmask
    \/ SoftIrq \/ Exit \/ Eret

IrqNext ==
  \/ \E l \in Lines : Event(l)
  \/ Interrupt
  \/ KernelStep
  \/ ThreadDisables \/ ThreadEnables
  \/ \E l \in MayDisable : DisableIrq(l) \/ EnableIrq(l)

(* The timer re-arms itself for ever; the processor runs; a thread leaves  *)
(* its critical sections.                                                  *)
IrqFairness ==
  /\ WF_irqVars(Event(Tick))
  /\ WF_irqVars(Interrupt)
  /\ WF_irqVars(KernelStep)
  /\ WF_irqVars(ThreadEnables)

IrqSpec == IrqInit /\ [][IrqNext]_irqVars
FairIrqSpec == IrqSpec /\ IrqFairness

-----------------------------------------------------------------------------
IrqTypeOK ==
  /\ HardwareTypeOK
  /\ asserted \subseteq Lines
  /\ left \in 0 .. MaxEvents
  /\ intc_ipr \subseteq Lines
  /\ stack \in Seq(Frame)
  /\ disabled \subseteq Lines /\ inprogress \subseteq Lines /\ pending \subseteq Lines

Handling(j, l) ==
  stack[j].irq = l /\ stack[j].at \in {"ack", "start", "serve", "return", "unmask"}

(* The handler of a line never interrupts itself, although handlers run    *)
(* with interrupts enabled, softirqs too, and the dispatcher takes lines   *)
(* from a copy of the pending register that may be old.                    *)
NoReentry ==
  \A l \in Lines : Cardinality({j \in DOMAIN stack : Handling(j, l)}) <= 1

(* Interrupts nest no deeper than one per line, the entry of one more and  *)
(* the softirqs of the outermost.                                          *)
NestingBounded == Len(stack) <= Cardinality(Lines) + 1

(* The static copy of plat_irq_dispatch, which outlives the acknowledge of *)
(* the controller, holds no line whose device was already served.          *)
StaticCopyDue == intc_ipr \subseteq asserted

(* A handler never runs for a device that has nothing for it.              *)
NoSpuriousHandler == [][Serve => Irq \in asserted]_irqVars

(* An interrupt that is pending in the controller is served, or its line   *)
(* disabled by a driver: although an acknowledge lowers the pin for all    *)
(* lines, and eret may forget a request, the timer's next tick makes up    *)
(* for both.                                                               *)
PendingServed ==
  \A l \in Lines :
    l \in icpr ~> (l \in disabled \/ (At("serve") /\ Irq = l))

(* When nothing is pending anywhere and interrupts are enabled, no device  *)
(* is left waiting (kernel/irq/handle.c: a second instance that arrives    *)
(* while the first is handled is remembered).                              *)
NoneForgotten ==
  stack = <<>> /\ ie /\ icpr = {} /\ intc_ipr = {} =>
    asserted \subseteq disabled \union {Tick}
=============================================================================
