---------------------------- MODULE TouchProofs ----------------------------
(***************************************************************************)
(* Proofs about TouchDriver: its safety invariants, from one inductive     *)
(* invariant, and that its ring of events implements EventQueue.           *)
(***************************************************************************)
EXTENDS TouchDriver, SequenceTheorems, TLAPS

(* TSRDY, once flagged, is never cleared, and is flagged with PEND; so it  *)
(* is there whenever the driver holds the pen for down.                    *)
SampleInv ==
  /\ adstate # {} => "TSRDY" \in adstate
  /\ p => "TSRDY" \in adstate
  /\ sampler \in {"sample", "data"} => "TSRDY" \in adstate
  /\ sleeping = FALSE
  /\ sampler # "asleep"

(* What the program may find running at each point of open and release.    *)
PhaseInv ==
  /\ installed = (program \notin {"closed", "closing", "request"})
  /\ ~installed => handler = "idle"
  /\ program \in {"closed", "request"} => ~armed /\ sampler = "idle"
  /\ program = "request" => newest = NoEvent

MaskInv ==
  installed /\ program # "start" =>
    /\ "TSRDY" \in adctrl
    /\ ("PEND" \in adctrl) # ("PENU" \in adctrl)

(* An acquisition in which the pen was down remembers it for the next one, *)
(* and until a lift is reported there is a next one.                       *)
LiftInv ==
  /\ sampler \in {"sample", "data", "filter", "rearm", "add"} => was_down
  /\ newest = PenDown /\ installed /\ sampler = "idle" => armed /\ was_down
  /\ newest = PenDown /\ installed /\ sampler = "check" => pen_was_down

CountInv == sampler \in {"sample", "data"} => taken < Samples

(* The next slot to write is the one after the events that wait.           *)
RingInv == nextIn = IF nextOut + event_count < Size
                      THEN nextOut + event_count
                      ELSE nextOut + event_count - Size

ControlTypeOK ==
  /\ ConverterTypeOK
  /\ {installed, pen_is_down, p, was_down, sleeping, armed, pen_was_down} \subseteq BOOLEAN
  /\ handler \in HandlerPoint /\ sampler \in SamplerPoint /\ program \in ProgramPoint
  /\ taken \in 0 .. Samples
  /\ newest \in Event \union {NoEvent}

ControlInv ==
  ControlTypeOK /\ SampleInv /\ PhaseInv /\ MaskInv /\ LiftInv /\ CountInv

TouchInv == ControlInv /\ RingTypeOK /\ RingInv

-----------------------------------------------------------------------------
(* The ring's own operations keep its type and its count.                  *)
LEMMA RingStep ==
  ASSUME RingTypeOK, RingInv,
         \/ \E e \in Event : EventAdd(e)
         \/ EventPull \/ EventFlush
         \/ UNCHANGED ringVars
  PROVE  RingTypeOK' /\ RingInv'
<1>1. ASSUME NEW e \in Event, EventAdd(e) PROVE RingTypeOK' /\ RingInv'
  BY <1>1, QueueAssumption DEF EventAdd, RingTypeOK, RingInv, After, Slot
<1>2. CASE EventPull
  BY <1>2, QueueAssumption DEF EventPull, RingTypeOK, RingInv, After, Slot
<1>3. CASE EventFlush
  BY <1>3, QueueAssumption DEF EventFlush, RingTypeOK, RingInv, Slot
<1>4. CASE UNCHANGED ringVars
  BY <1>4 DEF ringVars, RingTypeOK, RingInv
<1>5. QED
  BY <1>1, <1>2, <1>3, <1>4

(* Every step of the driver does one of them or leaves the ring alone.     *)
LEMMA RingTouched ==
  ASSUME [TouchNext]_touchVars
  PROVE  \/ \E e \in Event : EventAdd(e)
         \/ EventPull \/ EventFlush
         \/ UNCHANGED ringVars
<1>. USE TouchAssumption
<1>1. CASE UNCHANGED touchVars
  BY <1>1 DEF touchVars
<1>2. CASE Pen \/ TakeInterrupt \/ TimerExpires
  BY <1>2 DEF Pen, TakeInterrupt, TimerExpires
<1>3. CASE HandlerStep
  BY <1>3 DEF HandlerStep, HandlerEnters, HandlePend, HandlePenu, HandlerActs,
              HandlerLeaves, Report
<1>4. CASE SamplerStep
  BY <1>4 DEF SamplerStep, SamplerChecks, SamplerReportsLift, SamplerWaits,
              SamplerReads, SamplerReports, SamplerRejects, SamplerDisarms,
              SamplerArms, Report
<1>5. CASE ProgramRuns
  BY <1>5 DEF ProgramRuns, RequestIrq, StartConverter, ReadEvent, ReadNothing,
              GetReady, Schedule, Step
<1>6. CASE ProgramChooses
  BY <1>6 DEF ProgramChooses, Open, Release, Unregister, DeleteTimer, Read,
              Return, Refuse, Signal, Step
<1>7. QED
  BY <1>1, <1>2, <1>3, <1>4, <1>5, <1>6 DEF TouchNext

-----------------------------------------------------------------------------
LEMMA ControlStep ==
  ASSUME ControlInv, [TouchNext]_touchVars
  PROVE  ControlInv'
<1>. USE TouchAssumption, QueueAssumption
     DEF ControlInv, SamplerAt, ProgramAt, converterVars, penVars, timerVars,
         readerVars
<1>1. CASE UNCHANGED touchVars
  <2>1. ControlTypeOK'
    BY <1>1
       DEF touchVars, SampleInv, CountInv, ControlTypeOK,
           ConverterTypeOK, Bits, HandlerPoint, SamplerPoint,
           ProgramPoint
  <2>2. SampleInv' /\ CountInv'
    BY <1>1
       DEF touchVars, SampleInv, CountInv, ControlTypeOK,
           ConverterTypeOK, Bits, HandlerPoint, SamplerPoint,
           ProgramPoint
  <2>3. PhaseInv'
    BY <1>1
       DEF touchVars, PhaseInv, ControlTypeOK, ConverterTypeOK, Bits,
           HandlerPoint, SamplerPoint, ProgramPoint
  <2>4. MaskInv'
    BY <1>1
       DEF touchVars, MaskInv, SampleInv, PhaseInv, ControlTypeOK,
           ConverterTypeOK, Bits, HandlerPoint, SamplerPoint,
           ProgramPoint
  <2>5. LiftInv'
    BY <1>1
       DEF touchVars, LiftInv, PhaseInv, SampleInv, ControlTypeOK,
           ConverterTypeOK, Bits, HandlerPoint, SamplerPoint,
           ProgramPoint
  <2>6. QED
    BY <2>1, <2>2, <2>3, <2>4, <2>5
<1>2. CASE Pen
  <2>1. ControlTypeOK'
    <3>1. raised' \in BOOLEAN
      BY <1>2 DEF Pen, TouchEvent, ControlTypeOK, ConverterTypeOK
    <3>2. adstate' \subseteq Bits
      BY <1>2 DEF Pen, TouchEvent, Edge, ControlTypeOK, ConverterTypeOK, Bits
    <3>3. QED
      BY <1>2, <3>1, <3>2 DEF Pen, TouchEvent, ControlTypeOK, ConverterTypeOK
  <2>2. SampleInv' /\ CountInv'
    BY <1>2
       DEF Pen, TouchEvent, Edge, SampleInv, CountInv, ControlTypeOK,
           ConverterTypeOK, Bits, HandlerPoint, SamplerPoint,
           ProgramPoint
  <2>3. PhaseInv'
    BY <1>2
       DEF Pen, TouchEvent, Edge, PhaseInv, ControlTypeOK,
           ConverterTypeOK, Bits, HandlerPoint, SamplerPoint,
           ProgramPoint
  <2>4. MaskInv'
    BY <1>2
       DEF Pen, TouchEvent, Edge, MaskInv, SampleInv, PhaseInv,
           ControlTypeOK, ConverterTypeOK, Bits, HandlerPoint,
           SamplerPoint, ProgramPoint
  <2>5. LiftInv'
    BY <1>2
       DEF Pen, TouchEvent, Edge, LiftInv, PhaseInv, SampleInv,
           ControlTypeOK, ConverterTypeOK, Bits, HandlerPoint,
           SamplerPoint, ProgramPoint
  <2>6. QED
    BY <2>1, <2>2, <2>3, <2>4, <2>5
<1>3. CASE TakeInterrupt
  <2>1. ControlTypeOK'
    BY <1>3
       DEF TakeInterrupt, SampleInv, CountInv, ControlTypeOK,
           ConverterTypeOK, Bits, HandlerPoint, SamplerPoint,
           ProgramPoint
  <2>2. SampleInv' /\ CountInv'
    BY <1>3
       DEF TakeInterrupt, SampleInv, CountInv, ControlTypeOK,
           ConverterTypeOK, Bits, HandlerPoint, SamplerPoint,
           ProgramPoint
  <2>3. PhaseInv'
    BY <1>3
       DEF TakeInterrupt, PhaseInv, ControlTypeOK, ConverterTypeOK,
           Bits, HandlerPoint, SamplerPoint, ProgramPoint
  <2>4. MaskInv'
    BY <1>3
       DEF TakeInterrupt, MaskInv, SampleInv, PhaseInv, ControlTypeOK,
           ConverterTypeOK, Bits, HandlerPoint, SamplerPoint,
           ProgramPoint
  <2>5. LiftInv'
    BY <1>3
       DEF TakeInterrupt, LiftInv, PhaseInv, SampleInv, ControlTypeOK,
           ConverterTypeOK, Bits, HandlerPoint, SamplerPoint,
           ProgramPoint
  <2>6. QED
    BY <2>1, <2>2, <2>3, <2>4, <2>5
<1>4. CASE HandlerEnters
  <2>1. ControlTypeOK'
    BY <1>4
       DEF HandlerEnters, SampleInv, CountInv, ControlTypeOK,
           ConverterTypeOK, Bits, HandlerPoint, SamplerPoint,
           ProgramPoint
  <2>2. SampleInv' /\ CountInv'
    BY <1>4
       DEF HandlerEnters, SampleInv, CountInv, ControlTypeOK,
           ConverterTypeOK, Bits, HandlerPoint, SamplerPoint,
           ProgramPoint
  <2>3. PhaseInv'
    BY <1>4
       DEF HandlerEnters, PhaseInv, ControlTypeOK, ConverterTypeOK,
           Bits, HandlerPoint, SamplerPoint, ProgramPoint
  <2>4. MaskInv'
    BY <1>4
       DEF HandlerEnters, MaskInv, SampleInv, PhaseInv, ControlTypeOK,
           ConverterTypeOK, Bits, HandlerPoint, SamplerPoint,
           ProgramPoint
  <2>5. LiftInv'
    BY <1>4
       DEF HandlerEnters, LiftInv, PhaseInv, SampleInv, ControlTypeOK,
           ConverterTypeOK, Bits, HandlerPoint, SamplerPoint,
           ProgramPoint
  <2>6. QED
    BY <2>1, <2>2, <2>3, <2>4, <2>5
<1>5. CASE HandlePend
  <2>1. ControlTypeOK'
    BY <1>5
       DEF HandlePend, Flagged, Written, SampleInv, CountInv,
           ControlTypeOK, ConverterTypeOK, Bits, HandlerPoint,
           SamplerPoint, ProgramPoint
  <2>2. SampleInv' /\ CountInv'
    BY <1>5
       DEF HandlePend, Flagged, Written, SampleInv, CountInv,
           ControlTypeOK, ConverterTypeOK, Bits, HandlerPoint,
           SamplerPoint, ProgramPoint
  <2>3. PhaseInv'
    BY <1>5
       DEF HandlePend, Flagged, Written, PhaseInv, ControlTypeOK,
           ConverterTypeOK, Bits, HandlerPoint, SamplerPoint,
           ProgramPoint
  <2>4. MaskInv'
    BY <1>5
       DEF HandlePend, Flagged, Written, MaskInv, SampleInv, PhaseInv,
           ControlTypeOK, ConverterTypeOK, Bits, HandlerPoint,
           SamplerPoint, ProgramPoint
  <2>5. LiftInv'
    BY <1>5
       DEF HandlePend, Flagged, Written, LiftInv, PhaseInv, SampleInv,
           ControlTypeOK, ConverterTypeOK, Bits, HandlerPoint,
           SamplerPoint, ProgramPoint
  <2>6. QED
    BY <2>1, <2>2, <2>3, <2>4, <2>5
<1>6. CASE HandlePenu
  <2>1. ControlTypeOK'
    BY <1>6
       DEF HandlePenu, Flagged, Written, SampleInv, CountInv,
           ControlTypeOK, ConverterTypeOK, Bits, HandlerPoint,
           SamplerPoint, ProgramPoint
  <2>2. SampleInv' /\ CountInv'
    BY <1>6
       DEF HandlePenu, Flagged, Written, SampleInv, CountInv,
           ControlTypeOK, ConverterTypeOK, Bits, HandlerPoint,
           SamplerPoint, ProgramPoint
  <2>3. PhaseInv'
    BY <1>6
       DEF HandlePenu, Flagged, Written, PhaseInv, ControlTypeOK,
           ConverterTypeOK, Bits, HandlerPoint, SamplerPoint,
           ProgramPoint
  <2>4. MaskInv'
    BY <1>6
       DEF HandlePenu, Flagged, Written, MaskInv, SampleInv, PhaseInv,
           ControlTypeOK, ConverterTypeOK, Bits, HandlerPoint,
           SamplerPoint, ProgramPoint
  <2>5. LiftInv'
    BY <1>6
       DEF HandlePenu, Flagged, Written, LiftInv, PhaseInv, SampleInv,
           ControlTypeOK, ConverterTypeOK, Bits, HandlerPoint,
           SamplerPoint, ProgramPoint
  <2>6. QED
    BY <2>1, <2>2, <2>3, <2>4, <2>5
<1>7. CASE HandlerActs
  <2>1. ControlTypeOK'
    BY <1>7
       DEF HandlerActs, Report, SampleInv, CountInv, ControlTypeOK,
           ConverterTypeOK, Bits, HandlerPoint, SamplerPoint,
           ProgramPoint
  <2>2. SampleInv' /\ CountInv'
    BY <1>7
       DEF HandlerActs, Report, SampleInv, CountInv, ControlTypeOK,
           ConverterTypeOK, Bits, HandlerPoint, SamplerPoint,
           ProgramPoint
  <2>3. PhaseInv'
    BY <1>7
       DEF HandlerActs, Report, PhaseInv, ControlTypeOK,
           ConverterTypeOK, Bits, HandlerPoint, SamplerPoint,
           ProgramPoint
  <2>4. MaskInv'
    BY <1>7
       DEF HandlerActs, Report, MaskInv, SampleInv, PhaseInv,
           ControlTypeOK, ConverterTypeOK, Bits, HandlerPoint,
           SamplerPoint, ProgramPoint
  <2>5. LiftInv'
    BY <1>7
       DEF HandlerActs, Report, LiftInv, PhaseInv, SampleInv,
           ControlTypeOK, ConverterTypeOK, Bits, HandlerPoint,
           SamplerPoint, ProgramPoint
  <2>6. QED
    BY <2>1, <2>2, <2>3, <2>4, <2>5
<1>8. CASE HandlerLeaves
  <2>1. ControlTypeOK'
    BY <1>8
       DEF HandlerLeaves, SampleInv, CountInv, ControlTypeOK,
           ConverterTypeOK, Bits, HandlerPoint, SamplerPoint,
           ProgramPoint
  <2>2. SampleInv' /\ CountInv'
    BY <1>8
       DEF HandlerLeaves, SampleInv, CountInv, ControlTypeOK,
           ConverterTypeOK, Bits, HandlerPoint, SamplerPoint,
           ProgramPoint
  <2>3. PhaseInv'
    BY <1>8
       DEF HandlerLeaves, PhaseInv, ControlTypeOK, ConverterTypeOK,
           Bits, HandlerPoint, SamplerPoint, ProgramPoint
  <2>4. MaskInv'
    BY <1>8
       DEF HandlerLeaves, MaskInv, SampleInv, PhaseInv, ControlTypeOK,
           ConverterTypeOK, Bits, HandlerPoint, SamplerPoint,
           ProgramPoint
  <2>5. LiftInv'
    BY <1>8
       DEF HandlerLeaves, LiftInv, PhaseInv, SampleInv, ControlTypeOK,
           ConverterTypeOK, Bits, HandlerPoint, SamplerPoint,
           ProgramPoint
  <2>6. QED
    BY <2>1, <2>2, <2>3, <2>4, <2>5
<1>9. CASE TimerExpires
  BY <1>9
     DEF TimerExpires, SampleInv, PhaseInv, MaskInv, LiftInv, CountInv,
         ControlTypeOK, ConverterTypeOK, Bits, HandlerPoint, SamplerPoint,
         ProgramPoint
<1>10. CASE SamplerChecks
  BY <1>10
     DEF SamplerChecks, SampleInv, PhaseInv, MaskInv, LiftInv, CountInv,
         ControlTypeOK, ConverterTypeOK, Bits, HandlerPoint, SamplerPoint,
         ProgramPoint
<1>11. CASE SamplerReportsLift
  BY <1>11
     DEF SamplerReportsLift, Report, SampleInv, PhaseInv, MaskInv,
         LiftInv, CountInv, ControlTypeOK, ConverterTypeOK, Bits,
         HandlerPoint, SamplerPoint, ProgramPoint
<1>12. CASE SamplerWaits
  BY <1>12
     DEF SamplerWaits, SampleInv, PhaseInv, MaskInv, LiftInv, CountInv,
         ControlTypeOK, ConverterTypeOK, Bits, HandlerPoint, SamplerPoint,
         ProgramPoint
<1>13. CASE SamplerReads
  <2>1. ControlTypeOK'
    <3>1. taken' \in 0 .. Samples /\ sampler' \in SamplerPoint
      BY <1>13 DEF SamplerReads, ControlTypeOK, CountInv, SamplerPoint
    <3>2. adstate' \subseteq Bits
      BY <1>13 DEF SamplerReads, Written, ControlTypeOK, ConverterTypeOK
    <3>3. QED
      BY <1>13, <3>1, <3>2 DEF SamplerReads, ControlTypeOK, ConverterTypeOK
  <2>2. SampleInv' /\ CountInv'
    BY <1>13
       DEF SamplerReads, Written, SampleInv, CountInv, ControlTypeOK,
           ConverterTypeOK, Bits, HandlerPoint, SamplerPoint,
           ProgramPoint
  <2>3. PhaseInv'
    BY <1>13
       DEF SamplerReads, Written, PhaseInv, ControlTypeOK,
           ConverterTypeOK, Bits, HandlerPoint, SamplerPoint,
           ProgramPoint
  <2>4. MaskInv'
    BY <1>13
       DEF SamplerReads, Written, MaskInv, SampleInv, PhaseInv,
           ControlTypeOK, ConverterTypeOK, Bits, HandlerPoint,
           SamplerPoint, ProgramPoint
  <2>5. LiftInv'
    BY <1>13
       DEF SamplerReads, Written, LiftInv, PhaseInv, SampleInv,
           ControlTypeOK, ConverterTypeOK, Bits, HandlerPoint,
           SamplerPoint, ProgramPoint
  <2>6. QED
    BY <2>1, <2>2, <2>3, <2>4, <2>5
<1>14. CASE SamplerReports
  BY <1>14
     DEF SamplerReports, Report, SampleInv, PhaseInv, MaskInv, LiftInv,
         CountInv, ControlTypeOK, ConverterTypeOK, Bits, HandlerPoint,
         SamplerPoint, ProgramPoint
<1>15. CASE SamplerRejects
  BY <1>15
     DEF SamplerRejects, SampleInv, PhaseInv, MaskInv, LiftInv, CountInv,
         ControlTypeOK, ConverterTypeOK, Bits, HandlerPoint, SamplerPoint,
         ProgramPoint
<1>16. CASE SamplerDisarms
  BY <1>16
     DEF SamplerDisarms, SampleInv, PhaseInv, MaskInv, LiftInv, CountInv,
         ControlTypeOK, ConverterTypeOK, Bits, HandlerPoint, SamplerPoint,
         ProgramPoint
<1>17. CASE SamplerArms
  BY <1>17
     DEF SamplerArms, SampleInv, PhaseInv, MaskInv, LiftInv, CountInv,
         ControlTypeOK, ConverterTypeOK, Bits, HandlerPoint, SamplerPoint,
         ProgramPoint
<1>18. CASE Open
  BY <1>18
     DEF Open, SampleInv, PhaseInv, MaskInv, LiftInv, CountInv,
         ControlTypeOK, ConverterTypeOK, Bits, HandlerPoint, SamplerPoint,
         ProgramPoint
<1>19. CASE RequestIrq
  BY <1>19
     DEF RequestIrq, SampleInv, PhaseInv, MaskInv, LiftInv, CountInv,
         ControlTypeOK, ConverterTypeOK, Bits, HandlerPoint, SamplerPoint,
         ProgramPoint
<1>20. CASE StartConverter
  BY <1>20
     DEF StartConverter, SampleInv, PhaseInv, MaskInv, LiftInv, CountInv,
         ControlTypeOK, ConverterTypeOK, Bits, HandlerPoint, SamplerPoint,
         ProgramPoint
<1>21. CASE Release
  <2>1. ControlTypeOK'
    BY <1>21
       DEF Release, Unregister, DeleteTimer, SampleInv, CountInv,
           ControlTypeOK, ConverterTypeOK, Bits, HandlerPoint,
           SamplerPoint, ProgramPoint
  <2>2. SampleInv' /\ CountInv'
    BY <1>21
       DEF Release, Unregister, DeleteTimer, SampleInv, CountInv,
           ControlTypeOK, ConverterTypeOK, Bits, HandlerPoint,
           SamplerPoint, ProgramPoint
  <2>3. PhaseInv'
    BY <1>21
       DEF Release, Unregister, DeleteTimer, PhaseInv, ControlTypeOK,
           ConverterTypeOK, Bits, HandlerPoint, SamplerPoint,
           ProgramPoint
  <2>4. MaskInv'
    BY <1>21
       DEF Release, Unregister, DeleteTimer, MaskInv, SampleInv,
           PhaseInv, ControlTypeOK, ConverterTypeOK, Bits, HandlerPoint,
           SamplerPoint, ProgramPoint
  <2>5. LiftInv'
    BY <1>21
       DEF Release, Unregister, DeleteTimer, LiftInv, PhaseInv,
           SampleInv, ControlTypeOK, ConverterTypeOK, Bits,
           HandlerPoint, SamplerPoint, ProgramPoint
  <2>6. QED
    BY <2>1, <2>2, <2>3, <2>4, <2>5
<1>22. CASE ReadEvent
  BY <1>22
     DEF ReadEvent, SampleInv, PhaseInv, MaskInv, LiftInv, CountInv,
         ControlTypeOK, ConverterTypeOK, Bits, HandlerPoint, SamplerPoint,
         ProgramPoint
<1>23. CASE ReadNothing \/ GetReady \/ Schedule
  <2>1. ControlTypeOK'
    BY <1>23
       DEF ReadNothing, GetReady, Schedule, Step, SampleInv, CountInv,
           ControlTypeOK, ConverterTypeOK, Bits, HandlerPoint,
           SamplerPoint, ProgramPoint
  <2>2. SampleInv' /\ CountInv'
    BY <1>23
       DEF ReadNothing, GetReady, Schedule, Step, SampleInv, CountInv,
           ControlTypeOK, ConverterTypeOK, Bits, HandlerPoint,
           SamplerPoint, ProgramPoint
  <2>3. PhaseInv'
    BY <1>23
       DEF ReadNothing, GetReady, Schedule, Step, PhaseInv,
           ControlTypeOK, ConverterTypeOK, Bits, HandlerPoint,
           SamplerPoint, ProgramPoint
  <2>4. MaskInv'
    BY <1>23
       DEF ReadNothing, GetReady, Schedule, Step, MaskInv, SampleInv,
           PhaseInv, ControlTypeOK, ConverterTypeOK, Bits, HandlerPoint,
           SamplerPoint, ProgramPoint
  <2>5. LiftInv'
    BY <1>23
       DEF ReadNothing, GetReady, Schedule, Step, LiftInv, PhaseInv,
           SampleInv, ControlTypeOK, ConverterTypeOK, Bits,
           HandlerPoint, SamplerPoint, ProgramPoint
  <2>6. QED
    BY <2>1, <2>2, <2>3, <2>4, <2>5
<1>24. CASE Read \/ Return \/ Refuse \/ Signal
  <2>1. ControlTypeOK'
    BY <1>24
       DEF Read, Return, Refuse, Signal, Step, SampleInv, CountInv,
           ControlTypeOK, ConverterTypeOK, Bits, HandlerPoint,
           SamplerPoint, ProgramPoint
  <2>2. SampleInv' /\ CountInv'
    BY <1>24
       DEF Read, Return, Refuse, Signal, Step, SampleInv, CountInv,
           ControlTypeOK, ConverterTypeOK, Bits, HandlerPoint,
           SamplerPoint, ProgramPoint
  <2>3. PhaseInv'
    BY <1>24
       DEF Read, Return, Refuse, Signal, Step, PhaseInv, ControlTypeOK,
           ConverterTypeOK, Bits, HandlerPoint, SamplerPoint,
           ProgramPoint
  <2>4. MaskInv'
    BY <1>24
       DEF Read, Return, Refuse, Signal, Step, MaskInv, SampleInv,
           PhaseInv, ControlTypeOK, ConverterTypeOK, Bits, HandlerPoint,
           SamplerPoint, ProgramPoint
  <2>5. LiftInv'
    BY <1>24
       DEF Read, Return, Refuse, Signal, Step, LiftInv, PhaseInv,
           SampleInv, ControlTypeOK, ConverterTypeOK, Bits,
           HandlerPoint, SamplerPoint, ProgramPoint
  <2>6. QED
    BY <2>1, <2>2, <2>3, <2>4, <2>5
<1>25. QED
  BY <1>1, <1>2, <1>3, <1>4, <1>5, <1>6, <1>7, <1>8, <1>9, <1>10,
     <1>11, <1>12, <1>13, <1>14, <1>15, <1>16, <1>17, <1>18, <1>19,
     <1>20, <1>21, <1>22, <1>23, <1>24
     DEF TouchNext, HandlerStep, SamplerStep, ProgramRuns, ProgramChooses
LEMMA TouchInvInit == TouchInit => TouchInv
<1>. SUFFICES ASSUME TouchInit PROVE TouchInv
  OBVIOUS
<1>. USE TouchAssumption, QueueAssumption DEF TouchInit, RingInit, ConverterInit
<1>1. ControlTypeOK
  <2>1. ConverterTypeOK
    BY DEF ConverterTypeOK, Bits
  <2>2. {installed, pen_is_down, p, was_down, sleeping, armed, pen_was_down}
          \subseteq BOOLEAN
    OBVIOUS
  <2>3. QED
    BY <2>1, <2>2 DEF ControlTypeOK, HandlerPoint, SamplerPoint, ProgramPoint
<1>2. SampleInv /\ PhaseInv /\ MaskInv /\ LiftInv /\ CountInv
  BY DEF SampleInv, PhaseInv, MaskInv, LiftInv, CountInv
<1>3. RingTypeOK /\ RingInv
  BY DEF RingTypeOK, RingInv, Slot
<1>4. QED
  BY <1>1, <1>2, <1>3 DEF TouchInv, ControlInv

THEOREM TouchInvariant == TouchSpec => []TouchInv
<1>1. TouchInv /\ [TouchNext]_touchVars => TouchInv'
  <2>. SUFFICES ASSUME TouchInv, [TouchNext]_touchVars PROVE TouchInv'
    OBVIOUS
  <2>1. ControlInv'
    BY ControlStep DEF TouchInv
  <2>2. RingTypeOK' /\ RingInv'
    BY RingTouched, RingStep DEF TouchInv
  <2>3. QED
    BY <2>1, <2>2 DEF TouchInv
<1>2. QED
  BY <1>1, TouchInvInit, PTL DEF TouchSpec

(* Every variable of the driver and the converter keeps its type.          *)
THEOREM TouchTypeCorrect == TouchSpec => []TouchTypeOK
<1>1. TouchInv => TouchTypeOK
  BY DEF TouchInv, ControlInv, ControlTypeOK, TouchTypeOK
<1>2. QED
  BY <1>1, TouchInvariant, PTL

(* The acquisition never sleeps in its softirq: see SampleInv.             *)
THEOREM SoftirqNeverSleeps == TouchSpec => []NeverSleepsInSoftirq
<1>1. TouchInv => NeverSleepsInSoftirq
  BY DEF TouchInv, ControlInv, SampleInv, NeverSleepsInSoftirq
<1>2. QED
  BY <1>1, TouchInvariant, PTL

(* No event of the pen starts the timer again while the device is closed.  *)
THEOREM TimerGoneAfterRelease == TouchSpec => []NoTimerAfterRelease
<1>1. TouchInv => NoTimerAfterRelease
  BY DEF TouchInv, ControlInv, PhaseInv, NoTimerAfterRelease
<1>2. QED
  BY <1>1, TouchInvariant, PTL

(* Between interrupts exactly one of the pen's two changes is unmasked,    *)
(* and the next change raises the line.                                    *)
THEOREM AlwaysListens == TouchSpec => []ListensForPen
<1>1. TouchInv => ListensForPen
  BY DEF TouchInv, ControlInv, MaskInv, ListensForPen
<1>2. QED
  BY <1>1, TouchInvariant, PTL

(* The acquisition does not stop with the pen reported down.               *)
THEOREM LiftAlwaysLast == TouchSpec => []LiftIsLast
<1>1. TouchInv => LiftIsLast
  BY DEF TouchInv, ControlInv, LiftInv, LiftIsLast
<1>2. QED
  BY <1>1, TouchInvariant, PTL

-----------------------------------------------------------------------------
(* The ring as a sequence.                                                 *)
WaitingOK ==
  /\ Waiting \in Seq(Event \union {NoEvent})
  /\ Len(Waiting) = event_count
  /\ \A k \in 1 .. event_count : Waiting[k] = event_buf[Position(k)]

LEMMA WaitingIsSeq == RingTypeOK => WaitingOK
<1>. SUFFICES ASSUME RingTypeOK PROVE WaitingOK
  OBVIOUS
<1>1. \A k \in 1 .. event_count : Position(k) \in Slot
  BY QueueAssumption DEF RingTypeOK, Position, Slot
<1>2. \A k \in 1 .. event_count : event_buf[Position(k)] \in Event \union {NoEvent}
  BY <1>1 DEF RingTypeOK
<1>3. event_count \in Nat
  BY QueueAssumption DEF RingTypeOK
<1>4. Waiting \in Seq(Event \union {NoEvent}) /\ Len(Waiting) = event_count
  BY <1>2, <1>3, IsASeq DEF Waiting
<1>5. QED
  BY <1>4 DEF Waiting, WaitingOK

LEMMA WaitingStaysSeq == RingTypeOK' => WaitingOK'
  BY WaitingIsSeq, PTL

LEMMA AddRefines ==
  ASSUME RingTypeOK, RingInv, NEW e \in Event, EventAdd(e)
  PROVE  Abstract!Add(e)
<1>. DEFINE E == Event \union {NoEvent}
<1>1. RingTypeOK'
  BY RingStep
<1>2. /\ Waiting \in Seq(E) /\ Len(Waiting) = event_count
      /\ \A k \in 1 .. event_count : Waiting[k] = event_buf[Position(k)]
  BY WaitingIsSeq DEF WaitingOK
<1>3. /\ Waiting' \in Seq(E) /\ Len(Waiting') = event_count'
      /\ \A k \in 1 .. event_count' : Waiting'[k] = event_buf'[Position(k)']
  BY <1>1, WaitingStaysSeq DEF WaitingOK
<1>4. CASE event_count < Size
  <2>1. event_count' = event_count + 1 /\ nextOut' = nextOut
    BY <1>4 DEF EventAdd
  <2>2. Append(Waiting, e) \in Seq(E) /\ Len(Append(Waiting, e)) = event_count + 1
    BY <1>2, AppendProperties
  <2>3. ASSUME NEW k \in 1 .. event_count + 1
        PROVE  Waiting'[k] = Append(Waiting, e)[k]
    <3>1. Waiting'[k] = event_buf'[Position(k)]
      BY <1>3, <2>1 DEF Position
    <3>2. CASE k = event_count + 1
      <4>1. Position(k) = nextIn
        BY <3>2, QueueAssumption DEF Position, RingInv, RingTypeOK, Slot
      <4>2. QED
        BY <4>1, <3>1, <3>2, <1>2 DEF EventAdd, RingTypeOK
    <3>3. CASE k \in 1 .. event_count
      <4>1. Position(k) # nextIn /\ Position(k) \in Slot
        BY <3>3, <1>4, QueueAssumption DEF Position, RingInv, RingTypeOK, Slot
      <4>2. event_buf'[Position(k)] = event_buf[Position(k)]
        BY <4>1 DEF EventAdd, RingTypeOK
      <4>3. QED
        BY <4>2, <3>1, <3>3, <1>2
    <3>4. QED
      BY <3>2, <3>3, <2>1, <1>2
  <2>4. Waiting' = Append(Waiting, e)
    BY <2>1, <2>2, <2>3, <1>3, SeqEqual
  <2>5. QED
    BY <2>4, <1>2, <1>4 DEF Abstract!Add, EventAdd
<1>5. CASE event_count = Size
  <2>1. event_count' = Size /\ nextOut' = After(nextOut)
    BY <1>5, QueueAssumption DEF EventAdd
  <2>2. /\ Tail(Waiting) \in Seq(E) /\ Len(Tail(Waiting)) = Size - 1
        /\ \A k \in 1 .. Size - 1 : Tail(Waiting)[k] = Waiting[k + 1]
    BY <1>2, <1>5, QueueAssumption
  <2>3. /\ Append(Tail(Waiting), e) \in Seq(E)
        /\ Len(Append(Tail(Waiting), e)) = Size
    BY <2>2, AppendProperties, QueueAssumption
  <2>4. ASSUME NEW k \in 1 .. Size
        PROVE  Waiting'[k] = Append(Tail(Waiting), e)[k]
    <3>1. Waiting'[k] = event_buf'[Position(k)']
      BY <1>3, <2>1
    <3>2. CASE k = Size
      <4>1. Position(k)' = nextIn
        BY <3>2, <2>1, <1>5, QueueAssumption
        DEF Position, RingInv, RingTypeOK, Slot, After
      <4>2. QED
        BY <4>1, <3>1, <3>2, <2>2 DEF EventAdd, RingTypeOK
    <3>3. CASE k \in 1 .. Size - 1
      <4>1. Position(k)' = Position(k + 1)
        BY <3>3, <2>1, QueueAssumption DEF Position, RingTypeOK, Slot, After
      <4>2. Position(k + 1) # nextIn /\ Position(k + 1) \in Slot
        BY <3>3, <1>5, QueueAssumption DEF Position, RingInv, RingTypeOK, Slot
      <4>3. event_buf'[Position(k + 1)] = event_buf[Position(k + 1)]
        BY <4>2 DEF EventAdd, RingTypeOK
      <4>4. event_buf[Position(k + 1)] = Waiting[k + 1]
        BY <1>2, <1>5, <3>3, QueueAssumption
      <4>5. Append(Tail(Waiting), e)[k] = Waiting[k + 1]
        BY <2>2, <3>3
      <4>6. QED
        BY <4>1, <4>3, <4>4, <4>5, <3>1
    <3>4. k = Size \/ k \in 1 .. Size - 1
      BY QueueAssumption
    <3>5. QED
      BY <3>2, <3>3, <3>4
  <2>5. Waiting' = Append(Tail(Waiting), e)
    BY <2>1, <2>3, <2>4, <1>3, SeqEqual
  <2>6. QED
    BY <2>5, <1>2, <1>5 DEF Abstract!Add, EventAdd
<1>6. QED
  BY <1>4, <1>5, QueueAssumption DEF RingTypeOK

LEMMA PullRefines ==
  ASSUME RingTypeOK, RingInv, EventPull
  PROVE  Abstract!Pull
<1>. DEFINE E == Event \union {NoEvent}
<1>1. RingTypeOK'
  BY RingStep
<1>2. /\ Waiting \in Seq(E) /\ Len(Waiting) = event_count
      /\ \A k \in 1 .. event_count : Waiting[k] = event_buf[Position(k)]
  BY WaitingIsSeq DEF WaitingOK
<1>3. /\ Waiting' \in Seq(E) /\ Len(Waiting') = event_count'
      /\ \A k \in 1 .. event_count' : Waiting'[k] = event_buf'[Position(k)']
  BY <1>1, WaitingStaysSeq DEF WaitingOK
<1>4. event_count > 0 /\ event_count' = event_count - 1 /\ event_buf' = event_buf
  BY DEF EventPull
<1>5. Waiting # <<>> /\ Head(Waiting) = event_buf[nextOut]
  <2>1. Position(1) = nextOut
    BY QueueAssumption DEF Position, RingTypeOK, Slot
  <2>2. QED
    BY <2>1, <1>2, <1>4 DEF RingTypeOK
<1>6. /\ Tail(Waiting) \in Seq(E) /\ Len(Tail(Waiting)) = event_count - 1
      /\ \A k \in 1 .. event_count - 1 : Tail(Waiting)[k] = Waiting[k + 1]
  BY <1>2, <1>4, <1>5
<1>7. ASSUME NEW k \in 1 .. event_count - 1
      PROVE  Waiting'[k] = Tail(Waiting)[k]
  <2>1. Position(k)' = Position(k + 1)
    BY QueueAssumption DEF Position, RingTypeOK, Slot, After, EventPull
  <2>2. Waiting'[k] = event_buf[Position(k + 1)]
    BY <2>1, <1>3, <1>4
  <2>3. Tail(Waiting)[k] = event_buf[Position(k + 1)]
    BY <1>2, <1>6 DEF RingTypeOK
  <2>4. QED
    BY <2>2, <2>3
<1>8. Waiting' = Tail(Waiting)
  BY <1>3, <1>4, <1>6, <1>7, SeqEqual
<1>9. QED
  BY <1>5, <1>8 DEF Abstract!Pull, EventPull

(* The driver's ring implements the queue that gives up its oldest event,  *)
(* for every size of the ring.                                             *)
THEOREM RingImplementsQueue == TouchSpec => ImplementsQueue
<1>1. TouchInit => Abstract!QueueInit
  <2>. SUFFICES ASSUME TouchInit PROVE Abstract!QueueInit
    OBVIOUS
  <2>1. RingTypeOK /\ event_count = 0
    BY TouchInvInit DEF TouchInv, TouchInit, RingInit
  <2>2. Waiting = <<>>
    BY <2>1, WaitingIsSeq DEF WaitingOK
  <2>3. QED
    BY <2>2 DEF Abstract!QueueInit, TouchInit, RingInit
<1>2. TouchInv /\ [TouchNext]_touchVars => [Abstract!QueueNext]_(Abstract!queueVars)
  <2>. SUFFICES ASSUME TouchInv, [TouchNext]_touchVars
                PROVE  [Abstract!QueueNext]_(Abstract!queueVars)
    OBVIOUS
  <2>. USE DEF TouchInv
  <2>1. CASE \E e \in Event : EventAdd(e)
    BY <2>1, AddRefines DEF Abstract!QueueNext
  <2>2. CASE EventPull
    BY <2>2, PullRefines DEF Abstract!QueueNext
  <2>3. CASE EventFlush
    <3>1. RingTypeOK' /\ event_count' = 0
      BY <2>3, RingStep DEF EventFlush
    <3>2. Waiting' = <<>>
      BY <3>1 DEF Waiting
    <3>3. QED
      BY <2>3, <3>2 DEF Abstract!QueueNext, Abstract!Flush, EventFlush
  <2>4. CASE UNCHANGED ringVars
    BY <2>4 DEF ringVars, Abstract!queueVars, Waiting, Position
  <2>5. QED
    BY <2>1, <2>2, <2>3, <2>4, RingTouched
<1>3. QED
  BY <1>1, <1>2, TouchInvariant, PTL DEF TouchSpec, ImplementsQueue, Abstract!QueueSpec
=============================================================================
