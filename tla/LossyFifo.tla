------------------------------ MODULE LossyFifo ------------------------------
(***************************************************************************)
(* What a queue of the CAN driver (canopen_at32/CO_driver_AT32.c) promises *)
(* those on its two sides: frames are handed over unchanged, one at a      *)
(* time, in the order in which they were put in, each once; the frame in   *)
(* hand stays as it is until it is finished; a frame is refused only when  *)
(* Capacity frames wait.                                                   *)
(***************************************************************************)
EXTENDS Naturals, Sequences

CONSTANTS Frame, NoFrame, Capacity

VARIABLES
  input,      \* the last frame offered to the queue
  queue,      \* the frames that wait, the one in hand included
  handed,     \* the frame in hand, or NoFrame
  refused     \* whether a frame was ever refused

vars == <<input, queue, handed, refused>>

Init == input = NoFrame /\ queue = <<>> /\ handed = NoFrame /\ refused = FALSE

Put ==
  /\ input' \in Frame
  /\ \/ Len(queue) < Capacity /\ queue' = Append(queue, input') /\ UNCHANGED refused
     \/ Len(queue) = Capacity /\ refused' = TRUE /\ UNCHANGED queue
  /\ UNCHANGED handed

HandOver ==
  /\ handed = NoFrame /\ queue # <<>>
  /\ handed' = Head(queue)
  /\ UNCHANGED <<input, queue, refused>>

Finish ==
  /\ handed # NoFrame
  /\ handed' = NoFrame /\ queue' = Tail(queue)
  /\ UNCHANGED <<input, refused>>

Next == Put \/ HandOver \/ Finish

Spec == Init /\ [][Next]_vars
=============================================================================
