----------------------------- MODULE TouchDriver -----------------------------
(***************************************************************************)
(* The touch screen driver of the kernel (drivers/char/jzchar/jz_ts.c and  *)
(* sadc.c) over the emulated converter, with the program that has the      *)
(* device open.                                                            *)
(*                                                                         *)
(* Three flows share the driver's state.  The interrupt handler runs with  *)
(* interrupts disabled (IRQF_DISABLED), so nothing but the pen comes       *)
(* between its steps.  The acquisition timer runs as a softirq: the        *)
(* handler comes between its steps, ts->lock being a spin lock of a single *)
(* processor that leaves interrupts enabled.  The program runs when        *)
(* neither of them does.  A step ends where another flow may come in and   *)
(* see a difference; event_add disables interrupts and is one step.        *)
(*                                                                         *)
(* Left out: the coordinates and their filters (AcquireEvent delivers an   *)
(* event or does not), irq_enabled, which is only ever written,            *)
(* fasync, and a second open of the device while it is open.               *)
(***************************************************************************)
EXTENDS TouchQueue, TouchConverter

CONSTANTS
  PenUp, PenDown,   \* the events, by their status
  Samples           \* the samples of one acquisition

ASSUME TouchAssumption ==
  /\ Event = {PenUp, PenDown} /\ PenUp # PenDown
  /\ Samples \in Nat \ {0}
  /\ Up # Down /\ Up # Other /\ Down # Other

VARIABLES
  installed,      \* the handler is registered for the line
  pen_is_down,    \* the handler's static variable
  p,              \* that of sadc.c, the value of PenIsDown()
  was_down,       \* ts->pen_is_down, what the last acquisition found
  sleeping,       \* ts->sleeping
  armed,          \* ts->acq_timer is pending
  handler,        \* the point pendown_interrupt has reached
  sampler,        \* the point jz_acq_timer has reached
  pen_was_down,   \* its local variable
  taken,          \* the samples it has taken
  program,        \* the point the program's system call has reached
  newest          \* the last event added since the device was opened

penVars    == <<pen_is_down, p, was_down>>
timerVars  == <<armed, sleeping, sampler, pen_was_down, taken>>
readerVars == <<program, newest>>
touchVars  == <<ringVars, converterVars, installed, penVars, timerVars,
                handler, readerVars>>

HandlerPoint == {"idle", "enter", "pend", "penu", "act", "leave"}
SamplerPoint == {"idle", "check", "sample", "asleep", "data", "filter",
                 "rearm", "add", "lift", "bug"}
ProgramPoint == {"closed", "request", "start", "out", "pull", "empty",
                 "ready", "asleep", "closing"}

TouchInit ==
  /\ RingInit /\ ConverterInit
  /\ installed = FALSE
  /\ pen_is_down = FALSE /\ p = FALSE /\ was_down = FALSE
  /\ sleeping = FALSE /\ armed = FALSE
  /\ handler = "idle" /\ sampler = "idle" /\ program = "closed"
  /\ pen_was_down = FALSE /\ taken = 0
  /\ newest = NoEvent

-----------------------------------------------------------------------------
Pen ==
  /\ \E buttons \in {Up, Down, Other} : TouchEvent(buttons)
  /\ UNCHANGED <<ringVars, installed, penVars, timerVars, handler, readerVars>>

(* event_add and its wake_up_interruptible: a task that is not             *)
(* TASK_INTERRUPTIBLE yet is not woken.                                    *)
Report(e) ==
  /\ EventAdd(e)
  /\ newest' = e
  /\ program' = IF program \in {"ready", "asleep"} THEN "pull" ELSE program

-----------------------------------------------------------------------------
(* The interrupt is dispatched: the line is masked and acknowledged; once  *)
(* the handler is gone the line stays masked.  A panic takes no interrupt. *)
TakeInterrupt ==
  /\ raised /\ handler = "idle" /\ sampler # "bug"
  /\ raised' = FALSE /\ masked' = TRUE
  /\ handler' = IF installed THEN "enter" ELSE "idle"
  /\ UNCHANGED <<ringVars, tchen, pen_state, adctrl, adstate, installed,
                 penVars, timerVars, readerVars>>

(* pendown_interrupt: a sampler that sleeps is woken and nothing else.     *)
HandlerEnters ==
  /\ handler = "enter"
  /\ IF sleeping
       THEN /\ sleeping' = FALSE
            /\ adctrl' = adctrl \union {"TSRDY"}
            /\ sampler' = IF sampler = "asleep" THEN "data" ELSE sampler
            /\ handler' = "leave"
            /\ UNCHANGED pen_is_down
       ELSE /\ pen_is_down' = ~pen_is_down
            /\ handler' = "pend"
            /\ UNCHANGED <<sleeping, adctrl, sampler>>
  /\ UNCHANGED <<ringVars, tchen, pen_state, adstate, raised, masked, installed,
                 p, was_down, armed, pen_was_down, taken, readerVars>>

Flagged(bit) == bit \notin adctrl /\ bit \in adstate

\* Mutant of HandlePend: the lift is not listened for.
HandlePend_NoUnmask ==
  /\ handler = "pend"
  /\ handler' = "penu"
  /\ IF Flagged("PEND")
       THEN /\ adstate' = Written({"PEND", "PENU"})
            /\ adctrl' = adctrl \union {"PEND"}
            /\ p' = TRUE
       ELSE UNCHANGED <<adstate, adctrl, p>>
  /\ UNCHANGED <<ringVars, tchen, pen_state, raised, masked, installed,
                 pen_is_down, was_down, timerVars, readerVars>>

(* ts_irq_callback, its two halves.                                        *)
HandlePend ==
  /\ handler = "pend"
  /\ handler' = "penu"
  /\ IF Flagged("PEND")
       THEN /\ adstate' = Written({"PEND", "PENU"})
            /\ adctrl' = (adctrl \union {"PEND"}) \ {"PENU"}
            /\ p' = TRUE
       ELSE UNCHANGED <<adstate, adctrl, p>>
  /\ UNCHANGED <<ringVars, tchen, pen_state, raised, masked, installed,
                 pen_is_down, was_down, timerVars, readerVars>>

HandlePenu ==
  /\ handler = "penu"
  /\ handler' = "act"
  /\ IF Flagged("PENU")
       THEN /\ adstate' = Written({"PENU"})
            /\ adctrl' = (adctrl \union {"PENU"}) \ {"PEND"}
            /\ p' = FALSE
       ELSE UNCHANGED <<adstate, adctrl, p>>
  /\ UNCHANGED <<ringVars, tchen, pen_state, raised, masked, installed,
                 pen_is_down, was_down, timerVars, readerVars>>

\* Mutant of HandlerActs: a lift stops the timer and reports nothing.
HandlerActs_Silent ==
  /\ handler = "act"
  /\ handler' = "leave"
  /\ armed' = pen_is_down
  /\ UNCHANGED <<ringVars, converterVars, installed, penVars, readerVars,
                 sleeping, sampler, pen_was_down, taken>>

(* The rest of pendown_interrupt: by its own count the pen was lifted, or  *)
(* it was put down and the timer is started again.                         *)
HandlerActs ==
  /\ handler = "act"
  /\ handler' = "leave"
  /\ armed' = pen_is_down
  /\ IF pen_is_down THEN UNCHANGED <<ringVars, readerVars>> ELSE Report(PenUp)
  /\ UNCHANGED <<converterVars, installed, penVars, sleeping, sampler,
                 pen_was_down, taken>>

(* end_intc_irq.                                                           *)
HandlerLeaves ==
  /\ handler = "leave"
  /\ handler' = "idle"
  /\ masked' = FALSE
  /\ UNCHANGED <<ringVars, tchen, pen_state, adctrl, adstate, raised, installed,
                 penVars, timerVars, readerVars>>

HandlerStep ==
  HandlerEnters \/ HandlePend \/ HandlePenu \/ HandlerActs \/ HandlerLeaves
-----------------------------------------------------------------------------
(* The softirq runs from point p when no interrupt is handled.             *)
SamplerAt(point) == handler = "idle" /\ sampler = point

(* The timer expires: the kernel detaches it before it calls               *)
(* jz_acq_timer.                                                           *)
TimerExpires ==
  /\ SamplerAt("idle") /\ armed
  /\ armed' = FALSE
  /\ pen_was_down' = was_down
  /\ sampler' = "check"
  /\ UNCHANGED <<ringVars, converterVars, installed, penVars, sleeping, taken,
                 handler, readerVars>>

(* PenIsDown().                                                            *)
SamplerChecks ==
  /\ SamplerAt("check")
  /\ was_down' = p
  /\ sampler' = IF p THEN "sample" ELSE IF pen_was_down THEN "lift" ELSE "idle"
  /\ taken' = 0
  /\ UNCHANGED <<ringVars, converterVars, installed, pen_is_down, p, sleeping,
                 armed, pen_was_down, handler, readerVars>>

SamplerReportsLift ==
  /\ SamplerAt("lift")
  /\ Report(PenUp)
  /\ sampler' = "idle"
  /\ UNCHANGED <<converterVars, installed, penVars, armed, sleeping,
                 pen_was_down, taken, handler>>

(* jz4740_adc_read up to its sleep_on, which is in a softirq.              *)
SamplerWaits ==
  /\ SamplerAt("sample")
  /\ IF "TSRDY" \in adstate
       THEN sampler' = "data" /\ UNCHANGED <<adctrl, sleeping>>
       ELSE /\ adctrl' = adctrl \ {"TSRDY"}
            /\ sleeping' = TRUE
            /\ sampler' = "asleep"
  /\ UNCHANGED <<ringVars, tchen, pen_state, adstate, raised, masked, installed,
                 penVars, armed, pen_was_down, taken, handler, readerVars>>

\* Mutant of SamplerReads: the sample that was read is no longer ready.
SamplerReads_Clears ==
  /\ SamplerAt("data")
  /\ sleeping' = FALSE
  /\ adstate' = Written({"TSRDY"})
  /\ taken' = taken + 1
  /\ sampler' = IF taken + 1 = Samples THEN "filter" ELSE "sample"
  /\ UNCHANGED <<ringVars, tchen, pen_state, adctrl, raised, masked, installed,
                 penVars, armed, pen_was_down, handler, readerVars>>

(* The rest of jz4740_adc_read, once for each sample.  Its last statement, *)
(* REG_SADC_STATE &= ~SADC_STATE_TSRDY, writes ones to the other flags: it *)
(* clears them and leaves the sample ready.                                *)
SamplerReads ==
  /\ SamplerAt("data")
  /\ sleeping' = FALSE
  /\ adstate' = Written(adstate \ {"TSRDY"})
  /\ taken' = taken + 1
  /\ sampler' = IF taken + 1 = Samples THEN "filter" ELSE "sample"
  /\ UNCHANGED <<ringVars, tchen, pen_state, adctrl, raised, masked, installed,
                 penVars, armed, pen_was_down, handler, readerVars>>

(* AcquireEvent finds the samples valid, or not.                           *)
SamplerReports ==
  /\ SamplerAt("filter")
  /\ Report(PenDown)
  /\ sampler' = "rearm"
  /\ UNCHANGED <<converterVars, installed, penVars, armed, sleeping,
                 pen_was_down, taken, handler>>

SamplerRejects ==
  /\ SamplerAt("filter")
  /\ sampler' = "rearm"
  /\ UNCHANGED <<ringVars, converterVars, installed, penVars, armed, sleeping,
                 pen_was_down, taken, handler, readerVars>>

(* del_timer.                                                              *)
SamplerDisarms ==
  /\ SamplerAt("rearm")
  /\ armed' = FALSE
  /\ sampler' = "add"
  /\ UNCHANGED <<ringVars, converterVars, installed, penVars, sleeping,
                 pen_was_down, taken, handler, readerVars>>

\* Mutant of SamplerArms: the timer is not started again.
SamplerArms_Not ==
  /\ SamplerAt("add")
  /\ sampler' = IF armed THEN "bug" ELSE "idle"
  /\ UNCHANGED <<ringVars, converterVars, installed, penVars, sleeping,
                 pen_was_down, taken, armed, handler, readerVars>>

(* add_timer: BUG_ON(timer_pending(timer)).                                *)
SamplerArms ==
  /\ SamplerAt("add")
  /\ armed' = TRUE
  /\ sampler' = IF armed THEN "bug" ELSE "idle"
  /\ UNCHANGED <<ringVars, converterVars, installed, penVars, sleeping,
                 pen_was_down, taken, handler, readerVars>>

SamplerStep ==
  \/ SamplerChecks \/ SamplerReportsLift \/ SamplerWaits \/ SamplerReads
  \/ SamplerReports \/ SamplerRejects \/ SamplerDisarms \/ SamplerArms

-----------------------------------------------------------------------------
(* The program runs when nothing else does.                                *)
ProgramAt(point) == SamplerAt("idle") /\ program = point

(* jz_open: the state is reset and, in ts_request_irq, both pen interrupts *)
(* masked; then the handler is registered; then start_ts_adc.              *)
Open ==
  /\ ProgramAt("closed")
  /\ program' = "request"
  /\ EventFlush
  /\ was_down' = FALSE /\ sleeping' = FALSE /\ armed' = FALSE
  /\ adctrl' = adctrl \union {"PEND", "PENU"}
  /\ newest' = NoEvent
  /\ UNCHANGED <<tchen, pen_state, adstate, raised, masked, installed,
                 pen_is_down, p, sampler, pen_was_down, taken, handler>>

RequestIrq ==
  /\ ProgramAt("request")
  /\ program' = "start"
  /\ installed' = TRUE /\ masked' = FALSE
  /\ UNCHANGED <<ringVars, tchen, pen_state, adctrl, adstate, raised, penVars,
                 timerVars, handler, newest>>

StartConverter ==
  /\ ProgramAt("start")
  /\ program' = "out"
  /\ adctrl' = (adctrl \union {"TSRDY", "PENU"}) \ {"PEND"}
  /\ tchen' = TRUE
  /\ UNCHANGED <<ringVars, pen_state, adstate, raised, masked, installed,
                 penVars, timerVars, handler, newest>>

Unregister(from, to) ==
  /\ ProgramAt(from)
  /\ program' = to
  /\ installed' = FALSE /\ masked' = TRUE
  /\ UNCHANGED <<ringVars, tchen, pen_state, adctrl, adstate, raised, penVars,
                 timerVars, handler, newest>>

DeleteTimer(from, to) ==
  /\ ProgramAt(from)
  /\ program' = to
  /\ armed' = FALSE
  /\ UNCHANGED <<ringVars, converterVars, installed, penVars, sleeping, sampler,
                 pen_was_down, taken, handler, newest>>

\* Mutant of Release: the timer is deleted before the handler is gone.
Release_TimerFirst == DeleteTimer("out", "closing") \/ Unregister("closing", "closed")

(* jz_release: free_irq, then del_timer_sync, which on a single processor  *)
(* is del_timer.                                                           *)
Release == Unregister("out", "closing") \/ DeleteTimer("closing", "closed")

Step(from, to) ==
  /\ ProgramAt(from)
  /\ program' = to
  /\ UNCHANGED <<ringVars, converterVars, installed, penVars, timerVars,
                 handler, newest>>

(* jz_read: the head of its loop is left by a signal, and when the buffer  *)
(* is full; an event is taken from the queue, or there is none.            *)
Read   == Step("out", "pull")
Return == Step("pull", "out")

ReadEvent ==
  /\ ProgramAt("pull")
  /\ EventPull
  /\ UNCHANGED <<converterVars, installed, penVars, timerVars, handler,
                 readerVars>>

ReadNothing == event_count = 0 /\ Step("pull", "empty")

(* set_current_state(TASK_INTERRUPTIBLE), then schedule(); with O_NONBLOCK *)
(* the call returns instead.  A signal wakes the sleeper.                  *)
GetReady == Step("empty", "ready")
Refuse   == Step("ready", "out")
Schedule == Step("ready", "asleep")
Signal   == Step("asleep", "pull")

ProgramRuns ==
  RequestIrq \/ StartConverter \/ ReadEvent \/ ReadNothing \/ GetReady \/ Schedule

ProgramChooses == Open \/ Release \/ Read \/ Return \/ Refuse \/ Signal

TouchNext ==
  \/ Pen \/ TakeInterrupt \/ HandlerStep
  \/ TimerExpires \/ SamplerStep
  \/ ProgramRuns \/ ProgramChooses

(* Interrupts are taken and handlers run on; a softirq runs whenever no    *)
(* interrupt is handled, and a pen that rests is accepted again and again; *)
(* a system call goes on when the processor is free.                       *)
TouchFairness ==
  /\ WF_touchVars(TakeInterrupt)
  /\ WF_touchVars(HandlerStep)
  /\ SF_touchVars(TimerExpires)
  /\ SF_touchVars(SamplerStep)
  /\ SF_touchVars(SamplerReports)
  /\ SF_touchVars(ProgramRuns)

TouchSpec == TouchInit /\ [][TouchNext]_touchVars
FairTouchSpec == TouchSpec /\ TouchFairness

-----------------------------------------------------------------------------
TouchTypeOK ==
  /\ RingTypeOK /\ ConverterTypeOK
  /\ {installed, pen_is_down, p, was_down, sleeping, armed, pen_was_down} \subseteq BOOLEAN
  /\ handler \in HandlerPoint /\ sampler \in SamplerPoint /\ program \in ProgramPoint
  /\ taken \in 0 .. Samples
  /\ newest \in Event \union {NoEvent}

(* The acquisition, a softirq, never sleeps for a sample: whenever it runs *)
(* one is flagged ready, whatever order the pen, the handler and the       *)
(* driver's writes to the flags come in.                                   *)
NeverSleepsInSoftirq == sampler # "asleep"

(* Once the device is closed the timer is not pending: no event of the pen *)
(* can start it again between the two steps of jz_release.                 *)
NoTimerAfterRelease == program = "closed" => ~armed

(* While the device is open and no interrupt is handled, the converter     *)
(* raises its line for the next change of the pen, and exactly one of the  *)
(* two changes is unmasked.                                                *)
ListensForPen ==
  installed /\ handler = "idle" /\ program # "start" =>
    /\ "TSRDY" \in adctrl
    /\ ("PEND" \in adctrl) # ("PENU" \in adctrl)

(* When the acquisition has stopped, the last thing the program was told   *)
(* is not that the pen is down: the handler and the timer, whichever of    *)
(* them stops it and in whatever order they interleave, report a lift.     *)
LiftIsLast ==
  installed /\ ~armed /\ handler = "idle" /\ sampler = "idle" =>
    newest # PenDown

(* A reader that sleeps while the driver holds the pen for down and its    *)
(* timer runs is woken, although an event that comes between its look at   *)
(* the queue and its going to sleep does not wake it.                      *)
ReaderWoken ==
  program = "asleep" /\ p /\ armed ~> program # "asleep" \/ sampler = "bug"

(* add_timer's own assertion (include/linux/timer.h:145) holds.            *)
TimerNotPending == SamplerAt("add") => ~armed
=============================================================================
