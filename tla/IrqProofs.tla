----------------------------- MODULE IrqProofs -----------------------------
(***************************************************************************)
(* Proofs about IrqKernel: the handler of a line is never re-entered, a    *)
(* handler runs only for a device that has something for it, and the       *)
(* nesting of interrupts is bounded, for every set of lines.               *)
(***************************************************************************)
EXTENDS IrqKernel, FiniteSetTheorems, SequenceTheorems,
        WellFoundedInduction, TLAPS

(* From the dispatcher's choice of a line to the end of its handling.      *)
Held == {"mask", "ack", "start", "serve", "return", "unmask"}

(* What IE and EXL are at each point of the innermost interrupt.           *)
CpuInv ==
  /\ stack = <<>> => ~exl
  /\ stack # <<>> =>
       LET f == stack[1]
       IN  /\ f.at \in {"entry", "eret"} => exl
           /\ f.at \notin {"entry", "eret"} => ~exl
           /\ f.at \in {"dispatch", "mask", "ack", "start", "unmask",
                        "softirq", "exit"} => ~ie
           /\ f.at \in {"serve", "return"} /\ f.irq \in NoNest => ~ie

(* An interrupted interrupt is in a handler that allows it, or is the      *)
(* outermost and runs softirqs.  The line of a frame that holds one is     *)
(* masked from Mask on, not pending from Ack on, and not in the static     *)
(* copy; its device still has its event when the handler starts.           *)
FrameOK(j) ==
  LET f == stack[j]
  IN  /\ j > 1 => \/ f.at \in {"serve", "return"} /\ f.irq \notin NoNest
                  \/ f.at = "softend"
      /\ f.at \in {"softirq", "softend"} => j = Len(stack)
      /\ f.at \in Held => f.irq \in Lines /\ f.irq \notin intc_ipr
      /\ f.at \in Held \ {"mask"} => f.irq \in icmr
      /\ f.at \in Held \ {"mask", "ack"} => f.irq \notin icpr
      /\ f.at \in {"mask", "ack", "start", "serve"} => f.irq \in asserted
      /\ f.at \in {"start", "serve", "return"} => f.irq \notin pending

FrameInv == \A j \in 1 .. Len(stack) : FrameOK(j)

(* No line is held by two frames.                                          *)
UniqueInv ==
  \A j, k \in 1 .. Len(stack) :
    /\ stack[j].at \in Held /\ stack[k].at \in Held
    /\ stack[j].irq = stack[k].irq
    => j = k

(* What is pending, in the controller or in the copy, has a device.        *)
DueInv == icpr \subseteq asserted /\ intc_ipr \subseteq asserted

IrqInv == IrqTypeOK /\ CpuInv /\ FrameInv /\ UniqueInv /\ DueInv
-----------------------------------------------------------------------------
(* What the three changes of the stack do, frame by frame.                 *)
LEMMA Pushed ==
  ASSUME NEW s \in Seq(Frame), NEW f \in Frame, NEW t, t = <<f>> \o s
  PROVE  /\ t \in Seq(Frame)
         /\ Len(s) \in Nat
         /\ Len(t) = Len(s) + 1
         /\ t # <<>>
         /\ t[1] = f
         /\ \A j \in 2 .. Len(t) : j - 1 \in 1 .. Len(s) /\ t[j] = s[j - 1]
<1>1. <<f>> \in Seq(Frame) /\ Len(<<f>>) = 1 /\ <<f>>[1] = f
  OBVIOUS
<1>2. t \in Seq(Frame) /\ Len(t) = Len(s) + 1
  BY <1>1, ConcatProperties
<1>3. Len(s) \in Nat
  BY LenProperties
<1>4. \A j \in 1 .. Len(s) + 1 : t[j] = IF j <= 1 THEN f ELSE s[j - 1]
  BY <1>1, ConcatProperties
<1>5. t # <<>>
  BY <1>2, <1>3, EmptySeq
<1>. QED  BY <1>2, <1>3, <1>4, <1>5

LEMMA Popped ==
  ASSUME NEW s \in Seq(Frame), s # <<>>, NEW t, t = Tail(s)
  PROVE  /\ t \in Seq(Frame)
         /\ Len(s) \in Nat \ {0}
         /\ Len(t) = Len(s) - 1
         /\ t = <<>> <=> Len(s) = 1
         /\ \A j \in 1 .. Len(t) : j + 1 \in 2 .. Len(s) /\ t[j] = s[j + 1]
<1>1. t \in Seq(Frame) /\ Len(t) = Len(s) - 1
  BY HeadTailProperties
<1>2. Len(s) \in Nat \ {0}
  BY EmptySeq
<1>3. \A j \in 1 .. Len(t) : t[j] = s[j + 1]
  BY HeadTailProperties
<1>4. t = <<>> <=> Len(t) = 0
  BY <1>1, EmptySeq
<1>. QED  BY <1>1, <1>2, <1>3, <1>4

LEMMA TopIsFirst ==
  ASSUME NEW s \in Seq(Frame), s # <<>>
  PROVE  Head(s) = s[1] /\ s[1] \in Frame /\ Len(s) \in Nat \ {0}
<1>1. Len(s) \in Nat \ {0}
  BY EmptySeq
<1>. QED  BY <1>1, ElementOfSeq

LEMMA Replaced ==
  ASSUME NEW s \in Seq(Frame), s # <<>>, NEW f \in Frame,
         NEW t, t = <<f>> \o Tail(s)
  PROVE  /\ t \in Seq(Frame)
         /\ Len(s) \in Nat \ {0}
         /\ Len(t) = Len(s)
         /\ t # <<>>
         /\ t[1] = f
         /\ \A j \in 2 .. Len(t) : t[j] = s[j]
<1>1. /\ Tail(s) \in Seq(Frame)
      /\ Len(s) \in Nat \ {0}
      /\ Len(Tail(s)) = Len(s) - 1
      /\ \A j \in 1 .. Len(Tail(s)) : Tail(s)[j] = s[j + 1]
  BY Popped
<1>2. /\ t \in Seq(Frame)
      /\ Len(t) = Len(Tail(s)) + 1
      /\ t # <<>>
      /\ t[1] = f
      /\ \A j \in 2 .. Len(t) : j - 1 \in 1 .. Len(Tail(s)) /\ t[j] = Tail(s)[j - 1]
  BY <1>1, Pushed
<1>. QED  BY <1>1, <1>2

(* The dispatcher's choice is one of the lines it chooses from.            *)
LEMMA LowestIsMember ==
  ASSUME NEW S \in SUBSET Lines, S # {}
  PROVE  Lowest(S) \in S
<1>1. IsWellFoundedOn(OpToRel(<, Nat), Nat)
  BY NatLessThanWellFounded
<1>2. S \subseteq Nat
  BY IrqAssumption
<1>3. PICK l \in S : \A k \in S : ~ <<k, l>> \in OpToRel(<, Nat)
  BY <1>1, <1>2, WFMin
<1>4. \A k \in S : l <= k
  <2>. SUFFICES ASSUME NEW k \in S
                PROVE  l <= k
    OBVIOUS
  <2>1. k \in Nat /\ l \in Nat
    BY <1>2
  <2>2. ~ k < l
    BY <2>1, <1>3, Zenon DEF OpToRel
  <2>. QED  BY <2>1, <2>2
<1>. QED  BY <1>4 DEF Lowest
-----------------------------------------------------------------------------
(* The innermost interrupt goes on: its frame is another, the rest is not. *)
LEMMA GoesOn ==
  ASSUME IrqTypeOK, stack # <<>>, NEW i \in Lines \union {NoLine},
         NEW p \in Point,
         stack' = <<[irq |-> i, at |-> p]>> \o Tail(stack)
  PROVE  /\ stack' \in Seq(Frame)
         /\ Len(stack) \in Nat \ {0}
         /\ Len(stack') = Len(stack)
         /\ stack' # <<>>
         /\ stack'[1].irq = i /\ stack'[1].at = p
         /\ \A j \in 2 .. Len(stack') : stack'[j] = stack[j]
<1>1. [irq |-> i, at |-> p] \in Frame
  BY DEF Frame
<1>2. stack \in Seq(Frame)
  BY DEF IrqTypeOK
<1>. QED  BY <1>1, <1>2, Replaced

(* The line of the innermost interrupt, and the point it has reached.      *)
LEMMA Top ==
  ASSUME IrqTypeOK, NEW p, At(p)
  PROVE  /\ stack # <<>>
         /\ Len(stack) \in Nat \ {0}
         /\ Irq = stack[1].irq /\ stack[1].at = p
         /\ Irq \in Lines \union {NoLine}
<1>1. stack # <<>> /\ Head(stack).at = p
  BY DEF At
<1>2. Head(stack) = stack[1] /\ stack[1] \in Frame /\ Len(stack) \in Nat \ {0}
  BY <1>1, TopIsFirst DEF IrqTypeOK
<1>. QED  BY <1>1, <1>2 DEF Irq, Frame

(* A step of the innermost interrupt from p to q.                          *)
LEMMA StepsTo ==
  ASSUME IrqTypeOK, NEW p, At(p), NEW q \in Point, Goto(q)
  PROVE  /\ stack # <<>>
         /\ Irq = stack[1].irq /\ stack[1].at = p
         /\ Irq \in Lines \union {NoLine}
         /\ stack' \in Seq(Frame)
         /\ Len(stack) \in Nat \ {0}
         /\ Len(stack') = Len(stack)
         /\ stack' # <<>>
         /\ stack'[1].irq = Irq /\ stack'[1].at = q
         /\ \A j \in 2 .. Len(stack') : stack'[j] = stack[j]
<1>1. /\ stack # <<>>
      /\ Irq = stack[1].irq /\ stack[1].at = p
      /\ Irq \in Lines \union {NoLine}
  BY Top
<1>2. stack' = <<[irq |-> Irq, at |-> q]>> \o Tail(stack)
  BY DEF Goto
<1>. QED  BY <1>1, <1>2, GoesOn

LEMMA EntryKeeps == IrqInv /\ Entry => IrqInv'
<1>. SUFFICES ASSUME IrqInv, Entry  PROVE IrqInv'
  OBVIOUS
<1>. USE DEF IrqInv, Entry
<1>1. /\ Irq = stack[1].irq /\ stack[1].at = "entry"
      /\ stack' \in Seq(Frame) /\ stack' # <<>>
      /\ Len(stack) \in Nat \ {0} /\ Len(stack') = Len(stack)
      /\ stack'[1].irq = Irq /\ stack'[1].at = "dispatch"
      /\ \A j \in 2 .. Len(stack') : stack'[j] = stack[j]
  BY StepsTo DEF Point
<1>2. IrqTypeOK'
  BY <1>1 DEF IrqTypeOK, HardwareTypeOK, WriteStatus, UpdateIrq, intcVars, descVars
<1>3. CpuInv'
  BY <1>1 DEF CpuInv, WriteStatus
<1>4. FrameInv'
  BY <1>1 DEF FrameInv, FrameOK, intcVars, descVars, Held
<1>5. UniqueInv'
  BY <1>1 DEF UniqueInv, Held
<1>6. DueInv'
  BY DEF DueInv, intcVars
<1>. QED  BY <1>2, <1>3, <1>4, <1>5, <1>6

LEMMA DispatchKeeps == IrqInv /\ Dispatch => IrqInv'
<1>. SUFFICES ASSUME IrqInv, Dispatch  PROVE IrqInv'
  OBVIOUS
<1>. USE DEF IrqInv
<1>. DEFINE ready == intc_ipr \union icpr
<1>1. At("dispatch") /\ UNCHANGED <<intcVars, cpuVars, asserted, left, descVars>>
  BY DEF Dispatch
<1>2. CASE ready = {}
  <2>1. Goto("exit") /\ UNCHANGED intc_ipr
    BY <1>2 DEF Dispatch
  <2>2. /\ Irq = stack[1].irq /\ stack[1].at = "dispatch"
        /\ stack' \in Seq(Frame) /\ stack' # <<>>
        /\ Len(stack) \in Nat \ {0} /\ Len(stack') = Len(stack)
        /\ stack'[1].irq = Irq /\ stack'[1].at = "exit"
        /\ \A j \in 2 .. Len(stack') : stack'[j] = stack[j]
    BY <1>1, <2>1, StepsTo DEF Point
  <2>3. IrqTypeOK'
    BY <1>1, <2>1, <2>2 DEF IrqTypeOK, HardwareTypeOK, intcVars, cpuVars, descVars
  <2>4. CpuInv'
    BY <1>1, <2>2 DEF CpuInv, cpuVars
  <2>5. FrameInv'
    BY <1>1, <2>1, <2>2 DEF FrameInv, FrameOK, intcVars, descVars, Held
  <2>6. UniqueInv'
    BY <2>2 DEF UniqueInv, Held
  <2>7. DueInv'
    BY <1>1, <2>1 DEF DueInv, intcVars
  <2>. QED  BY <2>3, <2>4, <2>5, <2>6, <2>7
<1>3. CASE ready # {}
  <2>. DEFINE l == Lowest(ready)
  <2>1. /\ stack' = <<[irq |-> l, at |-> "mask"]>> \o Tail(stack)
        /\ intc_ipr' = ready \ {l}
    BY <1>3 DEF Dispatch
  <2>2. l \in ready /\ l \in Lines /\ l \in asserted
    BY <1>3, LowestIsMember DEF IrqTypeOK, HardwareTypeOK, DueInv
  <2>. HIDE DEF l
  <2>3. stack # <<>> /\ stack[1].at = "dispatch" /\ "mask" \in Point
    BY <1>1, Top DEF Point
  <2>4. /\ stack' \in Seq(Frame) /\ stack' # <<>>
        /\ Len(stack) \in Nat \ {0} /\ Len(stack') = Len(stack)
        /\ stack'[1].irq = l /\ stack'[1].at = "mask"
        /\ \A j \in 2 .. Len(stack') : stack'[j] = stack[j]
    BY <2>1, <2>2, <2>3, GoesOn
  <2>5. IrqTypeOK'
    BY <1>1, <2>1, <2>4 DEF IrqTypeOK, HardwareTypeOK, intcVars, cpuVars, descVars
  <2>6. CpuInv'
    BY <1>1, <2>3, <2>4 DEF CpuInv, cpuVars
  <2>7. \A j \in 2 .. Len(stack) :
          stack[j].at \in Held => /\ stack[j].irq \notin ready
                                  /\ stack[j].at \notin {"mask", "ack"}
    BY DEF FrameInv, FrameOK, Held
  <2>8. FrameInv'
    <3>1. icmr' = icmr /\ icpr' = icpr /\ asserted' = asserted /\ pending' = pending
      BY <1>1 DEF intcVars, descVars
    <3>. SUFFICES ASSUME NEW j \in 1 .. Len(stack')
                  PROVE  FrameOK(j)'
      BY DEF FrameInv
    <3>2. CASE j = 1
      BY <2>1, <2>2, <2>4, <3>1, <3>2 DEF FrameOK, Held
    <3>3. CASE j # 1
      <4>1. stack'[j] = stack[j] /\ j \in 2 .. Len(stack) /\ FrameOK(j)
        BY <2>4, <3>3 DEF FrameInv
      <4>2. intc_ipr' \subseteq ready
        BY <2>1
      <4>. QED  BY <2>4, <2>7, <3>1, <3>3, <4>1, <4>2 DEF FrameOK, Held
    <3>. QED  BY <3>2, <3>3
  <2>9. UniqueInv'
    BY <2>2, <2>4, <2>7 DEF UniqueInv
  <2>10. DueInv'
    BY <1>1, <2>1 DEF DueInv, intcVars
  <2>. QED  BY <2>5, <2>6, <2>8, <2>9, <2>10
<1>. QED  BY <1>2, <1>3

LEMMA MaskKeeps == IrqInv /\ Mask => IrqInv'
<1>. SUFFICES ASSUME IrqInv, Mask  PROVE IrqInv'
  OBVIOUS
<1>. USE DEF IrqInv, Mask, WriteImsr
<1>1. /\ Irq = stack[1].irq /\ stack[1].at = "mask"
      /\ stack' \in Seq(Frame) /\ stack' # <<>>
      /\ Len(stack) \in Nat \ {0} /\ Len(stack') = Len(stack)
      /\ stack'[1].irq = Irq /\ stack'[1].at = "ack"
      /\ \A j \in 2 .. Len(stack') : stack'[j] = stack[j]
  BY StepsTo DEF Point
<1>2. Irq \in Lines
  BY <1>1 DEF FrameInv, FrameOK, Held
<1>3. IrqTypeOK'
  BY <1>1, <1>2 DEF IrqTypeOK, HardwareTypeOK, cpuVars, descVars
<1>4. CpuInv'
  BY <1>1 DEF CpuInv, cpuVars
<1>5. FrameInv'
  BY <1>1 DEF FrameInv, FrameOK, descVars, Held
<1>6. UniqueInv'
  BY <1>1 DEF UniqueInv, Held
<1>7. DueInv'
  BY DEF DueInv
<1>. QED  BY <1>3, <1>4, <1>5, <1>6, <1>7

LEMMA AckKeeps == IrqInv /\ Ack => IrqInv'
<1>. SUFFICES ASSUME IrqInv, Ack  PROVE IrqInv'
  OBVIOUS
<1>. USE DEF IrqInv
<1>1. At("ack") /\ WriteIpr(Irq) /\ UNCHANGED <<asserted, left, intc_ipr, disabled>>
  BY DEF Ack
<1>2. PICK q \in {"unmask", "start"} :
        /\ Goto(q)
        /\ q = "unmask" => pending' = pending \union {Irq} /\ UNCHANGED inprogress
        /\ q = "start" => /\ pending' = pending \ {Irq}
                          /\ inprogress' = inprogress \union {Irq}
  BY DEF Ack
<1>3. /\ Irq = stack[1].irq /\ stack[1].at = "ack"
      /\ stack' \in Seq(Frame) /\ stack' # <<>>
      /\ Len(stack) \in Nat \ {0} /\ Len(stack') = Len(stack)
      /\ stack'[1].irq = Irq /\ stack'[1].at = q
      /\ \A j \in 2 .. Len(stack') : stack'[j] = stack[j]
  <2>1. q \in Point
    BY DEF Point
  <2>. QED  BY <1>1, <1>2, <2>1, StepsTo
<1>4. Irq \in Lines
  BY <1>3 DEF FrameInv, FrameOK, Held
<1>5. IrqTypeOK'
  BY <1>1, <1>2, <1>3, <1>4
     DEF IrqTypeOK, HardwareTypeOK, WriteIpr, SetPin, UpdateIrq
<1>6. CpuInv'
  BY <1>1, <1>2, <1>3 DEF CpuInv, WriteIpr, SetPin
<1>7. \A j \in 2 .. Len(stack) : stack[j].at \in Held => stack[j].irq # Irq
  BY <1>3 DEF UniqueInv, Held
<1>8. FrameInv'
  BY <1>1, <1>2, <1>3, <1>7 DEF FrameInv, FrameOK, WriteIpr, Held
<1>9. UniqueInv'
  BY <1>2, <1>3 DEF UniqueInv, Held
<1>10. DueInv'
  BY <1>1 DEF DueInv, WriteIpr
<1>. QED  BY <1>5, <1>6, <1>8, <1>9, <1>10
LEMMA StartKeeps == IrqInv /\ Start => IrqInv'
<1>. SUFFICES ASSUME IrqInv, Start  PROVE IrqInv'
  OBVIOUS
<1>. USE DEF IrqInv, Start
<1>1. /\ Irq = stack[1].irq /\ stack[1].at = "start"
      /\ stack' \in Seq(Frame) /\ stack' # <<>>
      /\ Len(stack) \in Nat \ {0} /\ Len(stack') = Len(stack)
      /\ stack'[1].irq = Irq /\ stack'[1].at = "serve"
      /\ \A j \in 2 .. Len(stack') : stack'[j] = stack[j]
  BY StepsTo DEF Point
<1>2. IrqTypeOK'
  BY <1>1
     DEF IrqTypeOK, HardwareTypeOK, WriteStatus, UpdateIrq, intcVars, cpuVars, descVars
<1>3. CpuInv'
  <2>1. stack # <<>>
    BY <1>1, EmptySeq DEF IrqTypeOK
  <2>2. ~ie /\ ~exl
    BY <1>1, <2>1 DEF CpuInv
  <2>3. ~exl' /\ (Irq \in NoNest => ~ie')
    BY <2>2 DEF WriteStatus, cpuVars
  <2>. QED  BY <1>1, <2>3 DEF CpuInv
<1>4. FrameInv'
  BY <1>1 DEF FrameInv, FrameOK, intcVars, descVars, Held
<1>5. UniqueInv'
  BY <1>1 DEF UniqueInv, Held
<1>6. DueInv'
  BY DEF DueInv, intcVars
<1>. QED  BY <1>2, <1>3, <1>4, <1>5, <1>6

LEMMA ServeKeeps == IrqInv /\ Serve => IrqInv'
<1>. SUFFICES ASSUME IrqInv, Serve  PROVE IrqInv'
  OBVIOUS
<1>. USE DEF IrqInv, Serve
<1>1. /\ Irq = stack[1].irq /\ stack[1].at = "serve" /\ stack # <<>>
      /\ stack' \in Seq(Frame) /\ stack' # <<>>
      /\ Len(stack) \in Nat \ {0} /\ Len(stack') = Len(stack)
      /\ stack'[1].irq = Irq /\ stack'[1].at = "return"
      /\ \A j \in 2 .. Len(stack') : stack'[j] = stack[j]
  BY StepsTo DEF Point
<1>2. IrqTypeOK'
  BY <1>1 DEF IrqTypeOK, HardwareTypeOK, intcVars, cpuVars, descVars
<1>3. CpuInv'
  BY <1>1 DEF CpuInv, cpuVars
<1>4. \A j \in 2 .. Len(stack) : stack[j].at \in Held => stack[j].irq # Irq
  BY <1>1 DEF UniqueInv, Held
<1>5. FrameInv'
  BY <1>1, <1>4 DEF FrameInv, FrameOK, intcVars, descVars, Held
<1>6. UniqueInv'
  BY <1>1 DEF UniqueInv, Held
<1>7. DueInv'
  <2>1. Irq \notin icpr /\ Irq \notin intc_ipr
    BY <1>1 DEF FrameInv, FrameOK, Held
  <2>. QED  BY <2>1 DEF DueInv, intcVars
<1>. QED  BY <1>2, <1>3, <1>5, <1>6, <1>7

(* A handled line is never pending in its descriptor, so a handler that    *)
(* returns is not called again.                                            *)
LEMMA ReturnKeeps == IrqInv /\ Return => IrqInv'
<1>. SUFFICES ASSUME IrqInv, Return  PROVE IrqInv'
  OBVIOUS
<1>. USE DEF IrqInv
<1>1. /\ At("return") /\ WriteStatus(FALSE, FALSE)
      /\ UNCHANGED <<intcVars, asserted, left, intc_ipr, disabled>>
  BY DEF Return
<1>2. stack # <<>> /\ Irq = stack[1].irq /\ stack[1].at = "return"
      /\ Len(stack) \in Nat \ {0}
  BY <1>1, Top
<1>3. Irq \in Lines /\ Irq \notin pending
  BY <1>2 DEF FrameInv, FrameOK, Held
<1>4. Goto("unmask") /\ inprogress' = inprogress \ {Irq} /\ pending' = pending
  BY <1>3 DEF Return
<1>5. /\ stack' \in Seq(Frame) /\ stack' # <<>>
      /\ Len(stack') = Len(stack)
      /\ stack'[1].irq = Irq /\ stack'[1].at = "unmask"
      /\ \A j \in 2 .. Len(stack') : stack'[j] = stack[j]
  BY <1>1, <1>4, StepsTo DEF Point
<1>6. IrqTypeOK'
  BY <1>1, <1>4, <1>5
     DEF IrqTypeOK, HardwareTypeOK, WriteStatus, UpdateIrq, intcVars
<1>7. CpuInv'
  BY <1>1, <1>5 DEF CpuInv, WriteStatus
<1>8. FrameInv'
  BY <1>1, <1>2, <1>4, <1>5 DEF FrameInv, FrameOK, intcVars, Held
<1>9. UniqueInv'
  BY <1>2, <1>5 DEF UniqueInv, Held
<1>10. DueInv'
  BY <1>1 DEF DueInv, intcVars
<1>. QED  BY <1>6, <1>7, <1>8, <1>9, <1>10

LEMMA UnmaskKeeps == IrqInv /\ Unmask => IrqInv'
<1>. SUFFICES ASSUME IrqInv, Unmask  PROVE IrqInv'
  OBVIOUS
<1>. USE DEF IrqInv
<1>1. /\ At("unmask") /\ UNCHANGED <<asserted, left, intc_ipr, descVars>>
      /\ UNCHANGED <<icsr, icpr, cpuVars>>
      /\ icmr' = icmr \/ icmr' = icmr \ {Irq}
  BY DEF Unmask, WriteImcr, intcVars
<1>2. PICK q \in {"exit", "softirq"} : Goto(q) /\ (q = "softirq" => Len(stack) = 1)
  BY DEF Unmask
<1>3. /\ Irq = stack[1].irq /\ stack[1].at = "unmask" /\ stack # <<>>
      /\ stack' \in Seq(Frame) /\ stack' # <<>>
      /\ Len(stack) \in Nat \ {0} /\ Len(stack') = Len(stack)
      /\ stack'[1].irq = Irq /\ stack'[1].at = q
      /\ \A j \in 2 .. Len(stack') : stack'[j] = stack[j]
  <2>1. q \in Point
    BY DEF Point
  <2>. QED  BY <1>1, <1>2, <2>1, StepsTo
<1>4. IrqTypeOK'
  BY <1>1, <1>3 DEF IrqTypeOK, HardwareTypeOK, cpuVars, descVars
<1>5. CpuInv'
  BY <1>1, <1>3 DEF CpuInv, cpuVars
<1>6. \A j \in 2 .. Len(stack) : stack[j].at \in Held => stack[j].irq # Irq
  BY <1>3 DEF UniqueInv, Held
<1>7. FrameInv'
  BY <1>1, <1>2, <1>3, <1>6 DEF FrameInv, FrameOK, descVars, Held
<1>8. UniqueInv'
  BY <1>3 DEF UniqueInv, Held
<1>9. DueInv'
  BY <1>1 DEF DueInv
<1>. QED  BY <1>4, <1>5, <1>7, <1>8, <1>9

LEMMA SoftIrqKeeps == IrqInv /\ SoftIrq => IrqInv'
<1>. SUFFICES ASSUME IrqInv, SoftIrq  PROVE IrqInv'
  OBVIOUS
<1>. USE DEF IrqInv
<1>1. UNCHANGED <<intcVars, asserted, left, intc_ipr, descVars>>
  BY DEF SoftIrq
<1>2. PICK p \in {"softirq", "softend"}, q \in {"softend", "exit"}, b \in BOOLEAN :
        /\ At(p) /\ Goto(q) /\ WriteStatus(b, FALSE)
        /\ q = "exit" => b = FALSE
  BY DEF SoftIrq
<1>3. /\ Irq = stack[1].irq /\ stack[1].at = p /\ stack # <<>>
      /\ stack' \in Seq(Frame) /\ stack' # <<>>
      /\ Len(stack) \in Nat \ {0} /\ Len(stack') = Len(stack)
      /\ stack'[1].irq = Irq /\ stack'[1].at = q
      /\ \A j \in 2 .. Len(stack') : stack'[j] = stack[j]
  <2>1. q \in Point
    BY DEF Point
  <2>. QED  BY <1>2, <2>1, StepsTo
<1>4. IrqTypeOK'
  BY <1>1, <1>2, <1>3
     DEF IrqTypeOK, HardwareTypeOK, WriteStatus, UpdateIrq, intcVars, descVars
<1>5. CpuInv'
  BY <1>2, <1>3 DEF CpuInv, WriteStatus
<1>6. FrameInv'
  BY <1>1, <1>3 DEF FrameInv, FrameOK, intcVars, descVars, Held
<1>7. UniqueInv'
  BY <1>3 DEF UniqueInv, Held
<1>8. DueInv'
  BY <1>1 DEF DueInv, intcVars
<1>. QED  BY <1>4, <1>5, <1>6, <1>7, <1>8

LEMMA ExitKeeps == IrqInv /\ Exit => IrqInv'
<1>. SUFFICES ASSUME IrqInv, Exit  PROVE IrqInv'
  OBVIOUS
<1>. USE DEF IrqInv, Exit
<1>1. /\ Irq = stack[1].irq /\ stack[1].at = "exit"
      /\ stack' \in Seq(Frame) /\ stack' # <<>>
      /\ Len(stack) \in Nat \ {0} /\ Len(stack') = Len(stack)
      /\ stack'[1].irq = Irq /\ stack'[1].at = "eret"
      /\ \A j \in 2 .. Len(stack') : stack'[j] = stack[j]
  BY StepsTo DEF Point
<1>2. IrqTypeOK'
  BY <1>1 DEF IrqTypeOK, HardwareTypeOK, WriteStatus, UpdateIrq, intcVars, descVars
<1>3. CpuInv'
  BY <1>1 DEF CpuInv, WriteStatus
<1>4. FrameInv'
  BY <1>1 DEF FrameInv, FrameOK, intcVars, descVars, Held
<1>5. UniqueInv'
  BY <1>1 DEF UniqueInv, Held
<1>6. DueInv'
  BY DEF DueInv, intcVars
<1>. QED  BY <1>2, <1>3, <1>4, <1>5, <1>6

(* The interrupted interrupt is the innermost again, where it allows       *)
(* interrupts.                                                             *)
LEMMA EretKeeps == IrqInv /\ Eret => IrqInv'
<1>. SUFFICES ASSUME IrqInv, Eret  PROVE IrqInv'
  OBVIOUS
<1>. USE DEF IrqInv, Eret
<1>1. stack # <<>> /\ stack[1].at = "eret"
  BY Top
<1>2. /\ stack' \in Seq(Frame)
      /\ Len(stack) \in Nat \ {0}
      /\ Len(stack') = Len(stack) - 1
      /\ stack' = <<>> <=> Len(stack) = 1
      /\ \A j \in 1 .. Len(stack') :
           j + 1 \in 2 .. Len(stack) /\ stack'[j] = stack[j + 1]
  BY <1>1, Popped DEF IrqTypeOK
<1>3. IrqTypeOK'
  BY <1>2 DEF IrqTypeOK, HardwareTypeOK, ReturnFromException, intcVars, descVars
<1>4. CpuInv'
  <2>1. ~exl'
    BY DEF ReturnFromException
  <2>2. CASE stack' = <<>>
    BY <2>1, <2>2 DEF CpuInv
  <2>3. CASE stack' # <<>>
    <3>1. 2 \in 1 .. Len(stack) /\ stack'[1] = stack[2]
      BY <1>2, <2>3
    <3>2. \/ stack[2].at \in {"serve", "return"} /\ stack[2].irq \notin NoNest
          \/ stack[2].at = "softend"
      BY <3>1 DEF FrameInv, FrameOK
    <3>. QED  BY <2>1, <2>3, <3>1, <3>2 DEF CpuInv
  <2>. QED  BY <2>2, <2>3
<1>5. FrameInv'
  <2>1. /\ icmr' = icmr /\ icpr' = icpr /\ intc_ipr' = intc_ipr
        /\ asserted' = asserted /\ pending' = pending
    BY DEF intcVars, descVars
  <2>. SUFFICES ASSUME NEW j \in 1 .. Len(stack')
                PROVE  FrameOK(j)'
    BY DEF FrameInv
  <2>2. PICK k \in 2 .. Len(stack) : k = j + 1
    BY <1>2
  <2>3. FrameOK(k) /\ stack'[j] = stack[k]
    BY <1>2, <2>2 DEF FrameInv
  <2>4. j \in Nat /\ (k = Len(stack) => j = Len(stack'))
    <3>1. PICK n \in Nat : Len(stack) = n /\ Len(stack') = n - 1
      BY <1>2
    <3>2. j \in 1 .. n - 1
      BY <3>1
    <3>. QED  BY <2>2, <3>1, <3>2
  <2>5. k > 1
    OBVIOUS
  <2>. QED  BY <2>1, <2>3, <2>4, <2>5 DEF FrameOK, Held
<1>6. UniqueInv'
  BY <1>2 DEF UniqueInv, Held
<1>7. DueInv'
  BY DEF DueInv, intcVars
<1>. QED  BY <1>3, <1>4, <1>5, <1>6, <1>7
-----------------------------------------------------------------------------
LEMMA EventKeeps ==
  ASSUME NEW l \in Lines
  PROVE  IrqInv /\ Event(l) => IrqInv'
<1>. SUFFICES ASSUME IrqInv, Event(l)  PROVE IrqInv'
  OBVIOUS
<1>. USE DEF IrqInv
<1>1. /\ asserted' = asserted \union {l}
      /\ UNCHANGED kernelVars
      /\ icsr' = icsr \union {l}
      /\ icmr' = icmr /\ ie' = ie /\ exl' = exl
      /\ icpr' \subseteq icpr \union {l}
      /\ l \in icmr => icpr' = icpr \ {l}
  BY DEF Event, SetIrq, SetPin, cpuVars
<1>2. IrqTypeOK'
  <2>1. {ip2', hard'} \subseteq BOOLEAN
    BY DEF Event, SetIrq, SetPin, UpdateIrq, cpuVars, IrqTypeOK, HardwareTypeOK
  <2>2. left' \in 0 .. MaxEvents
    BY IrqAssumption DEF Event, IrqTypeOK
  <2>. QED  BY <1>1, <2>1, <2>2 DEF IrqTypeOK, HardwareTypeOK, kernelVars
<1>3. CpuInv'
  BY <1>1 DEF CpuInv, kernelVars
<1>4. FrameInv'
  BY <1>1 DEF FrameInv, FrameOK, kernelVars, Held
<1>5. UniqueInv'
  BY <1>1 DEF UniqueInv, kernelVars
<1>6. DueInv'
  BY <1>1 DEF DueInv, kernelVars
<1>. QED  BY <1>2, <1>3, <1>4, <1>5, <1>6

(* Interrupts are enabled, so the innermost one is where it allows them.   *)
LEMMA InterruptKeeps == IrqInv /\ Interrupt => IrqInv'
<1>. SUFFICES ASSUME IrqInv, Interrupt  PROVE IrqInv'
  OBVIOUS
<1>. USE DEF IrqInv, Interrupt
<1>1. ie /\ ~exl /\ exl' /\ UNCHANGED <<ie, ip2, hard>>
  BY DEF RaiseException, Due, IrqTypeOK, HardwareTypeOK
<1>2. [irq |-> NoLine, at |-> "entry"] \in Frame
  BY DEF Frame, Point
<1>3. /\ stack' \in Seq(Frame)
      /\ Len(stack) \in Nat
      /\ Len(stack') = Len(stack) + 1
      /\ stack' # <<>>
      /\ stack'[1] = [irq |-> NoLine, at |-> "entry"]
      /\ \A j \in 2 .. Len(stack') :
           j - 1 \in 1 .. Len(stack) /\ stack'[j] = stack[j - 1]
  BY <1>2, Pushed DEF IrqTypeOK
<1>4. IrqTypeOK'
  <2>1. exl' \in BOOLEAN
    BY <1>1 DEF RaiseException
  <2>. QED  BY <1>1, <1>3, <2>1 DEF IrqTypeOK, HardwareTypeOK, intcVars, descVars
<1>5. CpuInv'
  BY <1>1, <1>3 DEF CpuInv
<1>6. stack # <<>> =>
        \/ stack[1].at \in {"serve", "return"} /\ stack[1].irq \notin NoNest
        \/ stack[1].at = "softend"
  <2>. SUFFICES ASSUME stack # <<>>
                PROVE  \/ stack[1].at \in {"serve", "return"} /\ stack[1].irq \notin NoNest
                       \/ stack[1].at = "softend"
    OBVIOUS
  <2>1. stack[1].at \in Point
    BY TopIsFirst DEF IrqTypeOK, Frame
  <2>. QED  BY <1>1, <2>1 DEF CpuInv, Point
<1>7. FrameInv'
  <2>1. /\ icmr' = icmr /\ icpr' = icpr /\ intc_ipr' = intc_ipr
        /\ asserted' = asserted /\ pending' = pending
    BY DEF intcVars, descVars
  <2>. SUFFICES ASSUME NEW j \in 1 .. Len(stack')
                PROVE  FrameOK(j)'
    BY DEF FrameInv
  <2>2. CASE j = 1
    BY <1>3, <2>2 DEF FrameOK, Held
  <2>3. CASE j # 1
    <3>1. j - 1 \in 1 .. Len(stack) /\ stack'[j] = stack[j - 1] /\ FrameOK(j - 1)
      BY <1>3, <2>3 DEF FrameInv
    <3>2. \/ stack[j - 1].at \in {"serve", "return"} /\ stack[j - 1].irq \notin NoNest
          \/ stack[j - 1].at = "softend"
      <4>1. CASE j - 1 = 1
        <5>1. stack # <<>>
          BY <1>3, <3>1, EmptySeq DEF IrqTypeOK
        <5>. QED  BY <1>6, <4>1, <5>1
      <4>2. CASE j - 1 # 1
        BY <3>1, <4>2 DEF FrameOK
      <4>. QED  BY <4>1, <4>2
    <3>. QED  BY <1>3, <2>1, <3>1, <3>2 DEF FrameOK, Held
  <2>. QED  BY <2>2, <2>3
<1>8. UniqueInv'
  BY <1>3 DEF UniqueInv, Held
<1>9. DueInv'
  BY DEF DueInv, intcVars
<1>. QED  BY <1>4, <1>5, <1>7, <1>8, <1>9

(* A thread: no interrupt is being handled.                                *)
LEMMA ThreadKeeps ==
  ASSUME IrqInv,
         \/ ThreadDisables \/ ThreadEnables
         \/ \E l \in MayDisable : DisableIrq(l) \/ EnableIrq(l)
  PROVE  IrqInv'
<1>. USE DEF IrqInv
<1>1. /\ stack = <<>> /\ stack' = <<>>
      /\ UNCHANGED <<icsr, icpr, asserted, left, intc_ipr>>
      /\ ~exl /\ ~exl'
  <2>1. stack = <<>> /\ ~exl
    BY DEF ThreadDisables, ThreadEnables, DisableIrq, EnableIrq, InThread, CpuInv
  <2>2. CASE ThreadDisables \/ ThreadEnables
    BY <2>1, <2>2 DEF ThreadDisables, ThreadEnables, WriteStatus, intcVars, kernelVars
  <2>3. CASE \E l \in MayDisable : DisableIrq(l) \/ EnableIrq(l)
    BY <2>1, <2>3 DEF DisableIrq, EnableIrq, WriteStatus
  <2>. QED  BY <2>1, <2>2, <2>3
<1>2. Len(stack') = 0
  BY <1>1, EmptySeq
<1>3. IrqTypeOK'
  <2>1. MayDisable \subseteq Lines
    BY IrqAssumption
  <2>2. /\ icmr' \subseteq Lines /\ disabled' \subseteq Lines
        /\ pending' \subseteq Lines /\ inprogress' \subseteq Lines
    BY <2>1 DEF ThreadDisables, ThreadEnables, DisableIrq, EnableIrq,
                intcVars, kernelVars, IrqTypeOK, HardwareTypeOK
  <2>3. {ip2', ie', exl', hard'} \subseteq BOOLEAN
    BY DEF ThreadDisables, ThreadEnables, DisableIrq, EnableIrq,
           WriteStatus, UpdateIrq, IrqTypeOK, HardwareTypeOK
  <2>. QED  BY <1>1, <2>2, <2>3 DEF IrqTypeOK, HardwareTypeOK
<1>4. CpuInv' /\ FrameInv' /\ UniqueInv'
  BY <1>1, <1>2 DEF CpuInv, FrameInv, UniqueInv
<1>5. DueInv'
  BY <1>1 DEF DueInv
<1>. QED  BY <1>3, <1>4, <1>5

(* The invariant: no two interrupts hold the same line, and what a handler *)
(* runs for is still due.                                                  *)
THEOREM IrqInvariant == IrqSpec => []IrqInv
<1>1. IrqInit => IrqInv
  <2>. SUFFICES ASSUME IrqInit  PROVE IrqInv
    OBVIOUS
  <2>. USE DEF IrqInit
  <2>1. Len(stack) = 0 /\ stack \in Seq(Frame)
    BY EmptySeq
  <2>2. HardwareTypeOK
    BY DEF HardwareTypeOK
  <2>3. IrqTypeOK
    BY <2>1, <2>2, IrqAssumption DEF IrqTypeOK
  <2>. QED  BY <2>1, <2>3 DEF IrqInv, CpuInv, FrameInv, UniqueInv, DueInv
<1>2. IrqInv /\ [IrqNext]_irqVars => IrqInv'
  <2>. SUFFICES ASSUME IrqInv, [IrqNext]_irqVars  PROVE IrqInv'
    OBVIOUS
  <2>1. CASE \E l \in Lines : Event(l)
    BY <2>1, EventKeeps
  <2>2. CASE Interrupt
    BY <2>2, InterruptKeeps
  <2>3. CASE KernelStep
    BY <2>3, EntryKeeps, DispatchKeeps, MaskKeeps, AckKeeps, StartKeeps, ServeKeeps,
       ReturnKeeps, UnmaskKeeps, SoftIrqKeeps, ExitKeeps, EretKeeps DEF KernelStep
  <2>4. CASE ThreadDisables \/ ThreadEnables
               \/ \E l \in MayDisable : DisableIrq(l) \/ EnableIrq(l)
    BY <2>4, ThreadKeeps
  <2>5. CASE UNCHANGED irqVars
    BY <2>5 DEF irqVars, IrqInv, IrqTypeOK, HardwareTypeOK, CpuInv, FrameInv,
                FrameOK, UniqueInv, DueInv
  <2>. QED  BY <2>1, <2>2, <2>3, <2>4, <2>5 DEF IrqNext
<1>. QED  BY <1>1, <1>2, PTL DEF IrqSpec

(* Every variable keeps its type.                                          *)
THEOREM IrqTypeCorrect == IrqSpec => []IrqTypeOK
<1>1. IrqInv => IrqTypeOK
  BY DEF IrqInv
<1>. QED  BY <1>1, IrqInvariant, PTL

(* plat_irq_dispatch's static copy holds no line already served.           *)
THEOREM StaticCopyIsDue == IrqSpec => []StaticCopyDue
<1>1. IrqInv => StaticCopyDue
  BY DEF IrqInv, DueInv, StaticCopyDue
<1>. QED  BY <1>1, IrqInvariant, PTL

(* No handler runs for a device that has nothing for it.                   *)
THEOREM HandlersAreDue == IrqSpec => NoSpuriousHandler
<1>1. IrqInv => (Serve => Irq \in asserted)
  <2>. SUFFICES ASSUME IrqInv, Serve  PROVE Irq \in asserted
    OBVIOUS
  <2>1. /\ stack # <<>> /\ Len(stack) \in Nat \ {0}
        /\ Irq = stack[1].irq /\ stack[1].at = "serve"
    BY Top DEF IrqInv, Serve
  <2>. QED  BY <2>1 DEF IrqInv, FrameInv, FrameOK
<1>2. IrqInv /\ [IrqNext]_irqVars => [Serve => Irq \in asserted]_irqVars
  BY <1>1
<1>. QED  BY <1>2, IrqInvariant, PTL DEF IrqSpec, NoSpuriousHandler

(* The handler of a line is in at most one of the interrupts handled.      *)
THEOREM HandlersNotReentered == IrqSpec => []NoReentry
<1>1. IrqInv => NoReentry
  <2>. SUFFICES ASSUME IrqInv, NEW l \in Lines
                PROVE  Cardinality({j \in DOMAIN stack : Handling(j, l)}) <= 1
    BY DEF NoReentry
  <2>. DEFINE H == {j \in DOMAIN stack : Handling(j, l)}
  <2>1. \A j, k \in H : j = k
    BY DEF IrqInv, IrqTypeOK, UniqueInv, Handling, Held
  <2>2. CASE H = {}
    BY <2>2, FS_EmptySet
  <2>3. CASE H # {}
    <3>1. PICK j \in H : TRUE
      BY <2>3
    <3>2. H = {j}
      BY <2>1, <3>1
    <3>. HIDE DEF H
    <3>3. Cardinality(H) = 1
      BY <3>2, FS_Singleton
    <3>. QED  BY <3>3 DEF H
  <2>. QED  BY <2>2, <2>3
<1>. QED  BY <1>1, IrqInvariant, PTL

(* Each interrupted handler holds a line of its own that allows            *)
(* interrupts, which the timer's does not: the frames between the          *)
(* innermost and the outermost are fewer than the lines.                   *)
THEOREM NestingIsBounded == IrqSpec => []NestingBounded
<1>1. IrqInv => NestingBounded
  <2>. SUFFICES ASSUME IrqInv  PROVE NestingBounded
    OBVIOUS
  <2>. DEFINE n == Len(stack)
              J == 2 .. n - 1
              L == Lines \ {Tick}
              h == [j \in J |-> stack[j].irq]
  <2>1. n \in Nat
    BY LenProperties DEF IrqInv, IrqTypeOK
  <2>2. \A j \in J : /\ j \in 1 .. n
                     /\ stack[j].at \in Held
                     /\ stack[j].irq \in L
    BY <2>1, IrqAssumption DEF IrqInv, FrameInv, FrameOK, Held
  <2>3. h \in Injection(J, L)
    <3>1. h \in [J -> L]
      BY <2>2
    <3>2. \A j, k \in J : h[j] = h[k] => j = k
      BY <2>2 DEF IrqInv, UniqueInv
    <3>. QED  BY <3>1, <3>2 DEF Injection, IsInjective
  <2>4. IsFiniteSet(L) /\ Cardinality(L) = Cardinality(Lines) - 1
    BY FS_RemoveElement, IrqAssumption
  <2>5. Cardinality(J) <= Cardinality(L)
    BY <2>3, <2>4, FS_Injection
  <2>6. Cardinality(J) = IF 2 > n - 1 THEN 0 ELSE (n - 1) - 2 + 1
    BY <2>1, FS_Interval
  <2>7. Cardinality(Lines) \in Nat /\ Cardinality(Lines) # 0
    BY FS_CardinalityType, FS_EmptySet, IrqAssumption
  <2>. HIDE DEF J, L, h
  <2>8. n <= Cardinality(Lines) + 1
    BY <2>1, <2>4, <2>5, <2>6, <2>7
  <2>. QED  BY <2>8 DEF NestingBounded
<1>. QED  BY <1>1, IrqInvariant, PTL
=============================================================================
