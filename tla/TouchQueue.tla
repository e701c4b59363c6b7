----------------------------- MODULE TouchQueue -----------------------------
(***************************************************************************)
(* The event queue of the touch screen driver as it is kept in struct      *)
(* jz_ts_t (drivers/char/jzchar/jz_ts.h): a ring of slots, the index of    *)
(* the next slot to write, that of the next to read, and a count.          *)
(***************************************************************************)
EXTENDS Integers, Sequences

CONSTANTS
  Event,      \* the events
  NoEvent,    \* what a slot never written holds
  Size        \* EVENT_BUFSIZE

ASSUME QueueAssumption == Size \in Nat \ {0} /\ NoEvent \notin Event

VARIABLES event_buf, nextIn, nextOut, event_count,
          pulled      \* the event that event_pull stored for its caller last

ringVars == <<event_buf, nextIn, nextOut, event_count, pulled>>

Slot == 0 .. Size - 1

RingInit ==
  /\ event_buf = [s \in Slot |-> NoEvent]
  /\ nextIn = 0 /\ nextOut = 0 /\ event_count = 0
  /\ pulled = NoEvent

\* Mutant of After: the index runs one slot too far before it wraps.
After_TooFar(s) == IF s = Size THEN 0 ELSE s + 1

(* & (EVENT_BUFSIZE - 1): EVENT_BUFSIZE is a power of two.                 *)
After(s) == IF s = Size - 1 THEN 0 ELSE s + 1

\* Mutant of EventAdd: a full queue keeps its oldest event as the next out.
EventAdd_KeepsOldest(e) ==
  /\ event_buf' = [event_buf EXCEPT ![nextIn] = e]
  /\ nextIn' = After(nextIn)
  /\ event_count' = IF event_count < Size THEN event_count + 1 ELSE event_count
  /\ UNCHANGED <<nextOut, pulled>>

(* event_add.                                                              *)
EventAdd(e) ==
  /\ event_buf' = [event_buf EXCEPT ![nextIn] = e]
  /\ nextIn' = After(nextIn)
  /\ IF event_count < Size
       THEN event_count' = event_count + 1 /\ UNCHANGED nextOut
       ELSE nextOut' = After(nextOut) /\ UNCHANGED event_count
  /\ UNCHANGED pulled

(* event_pull, when there is an event.                                     *)
EventPull ==
  /\ event_count > 0
  /\ pulled' = event_buf[nextOut]
  /\ nextOut' = After(nextOut)
  /\ event_count' = event_count - 1
  /\ UNCHANGED <<event_buf, nextIn>>

(* jz_open: the slots keep what they hold.                                 *)
EventFlush ==
  /\ nextIn' = 0 /\ nextOut' = 0 /\ event_count' = 0
  /\ UNCHANGED <<event_buf, pulled>>

RingTypeOK ==
  /\ event_buf \in [Slot -> Event \union {NoEvent}]
  /\ nextIn \in Slot /\ nextOut \in Slot
  /\ event_count \in 0 .. Size
  /\ pulled \in Event \union {NoEvent}

-----------------------------------------------------------------------------
(* The sequence the ring stands for.                                       *)
Position(k) == IF nextOut + k - 1 < Size THEN nextOut + k - 1
                                         ELSE nextOut + k - 1 - Size
Waiting == [k \in 1 .. event_count |-> event_buf[Position(k)]]

Abstract == INSTANCE EventQueue WITH queue <- Waiting

(* The driver's queue keeps the promise of EventQueue, although the        *)
(* interrupt handler, the timer and the reader all work on it and an open  *)
(* empties it without touching its slots.                                  *)
ImplementsQueue == Abstract!QueueSpec
=============================================================================
