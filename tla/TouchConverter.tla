--------------------------- MODULE TouchConverter ---------------------------
(***************************************************************************)
(* The touch screen half of the emulated converter (SADC) of the JZ4740    *)
(* (qemu-NP/hw/mips_jz.c) and its line of the interrupt controller.        *)
(*                                                                         *)
(* A register is the set of its bits.  ADCTRL and ADSTATE have a mask and  *)
(* a flag at the same place; only the three of the touch screen are ever   *)
(* flagged, so only these are kept.                                        *)
(***************************************************************************)
CONSTANTS Up, Down, Other     \* the states of the host's mouse buttons

VARIABLES
  tchen,      \* ADENA.TCHEN
  pen_state,  \* the buttons at the last event
  adctrl, adstate,
  raised,     \* the line's bit in ICPR
  masked      \* the line's bit in ICMR

converterVars == <<tchen, pen_state, adctrl, adstate, raised, masked>>

Bits == {"TSRDY", "PENU", "PEND"}

ConverterInit ==
  /\ tchen = FALSE /\ pen_state = Up
  /\ adctrl = {} /\ adstate = {}
  /\ raised = FALSE /\ masked = TRUE

(* The flags an event sets: none unless it is between Up and Down.         *)
Edge(buttons) ==
  IF pen_state = Up /\ buttons = Down THEN {"TSRDY", "PEND"}
  ELSE IF pen_state = Down /\ buttons = Up THEN {"TSRDY", "PENU"} ELSE {}

(* jz4740_touchscreen_event, with jz4740_touchscreen_interrupt: the line   *)
(* is raised when a bit is set both in ADSTATE and in ADCTRL, which are    *)
(* the masks; raised while masked, it is lost (jz4740_set_irq).            *)
TouchEvent(buttons) ==
  /\ tchen
  /\ pen_state' = buttons
  /\ adstate' = adstate \union Edge(buttons)
  /\ raised' = IF Edge(buttons) # {} /\ adctrl \intersect adstate' # {}
                 THEN ~masked ELSE raised
  /\ UNCHANGED <<tchen, adctrl, masked>>

(* ADSTATE as it is after a write: a one clears the flag.                  *)
Written(bits) == adstate \ bits

ConverterTypeOK ==
  /\ {tchen, raised, masked} \subseteq BOOLEAN
  /\ pen_state \in {Up, Down, Other}
  /\ adctrl \subseteq Bits /\ adstate \subseteq Bits
=============================================================================
