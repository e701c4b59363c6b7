----------------------------- MODULE EventQueue -----------------------------
(***************************************************************************)
(* What the event queue of the touch screen driver                         *)
(* (drivers/char/jzchar/jz_ts.c) promises its reader: the events come out  *)
(* in the order they went in, none twice, and when more than Size wait the *)
(* oldest is given up, never the newest.                                   *)
(***************************************************************************)
EXTENDS Naturals, Sequences

CONSTANTS Event, NoEvent, Size

VARIABLES
  queue,     \* the events that wait, the oldest first
  pulled     \* the event handed to the reader last

queueVars == <<queue, pulled>>

QueueInit == queue = <<>> /\ pulled = NoEvent

(* A full queue gives up its oldest event.                                 *)
Add(e) ==
  /\ \/ Len(queue) < Size /\ queue' = Append(queue, e)
     \/ Len(queue) = Size /\ queue' = Append(Tail(queue), e)
  /\ UNCHANGED pulled

Pull ==
  /\ queue # <<>>
  /\ pulled' = Head(queue)
  /\ queue' = Tail(queue)

Flush == queue' = <<>> /\ UNCHANGED pulled

QueueNext == (\E e \in Event : Add(e)) \/ Pull \/ Flush

QueueSpec == QueueInit /\ [][QueueNext]_queueVars
=============================================================================
