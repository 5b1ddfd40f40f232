---------------------------- MODULE BoundedQueue ----------------------------
(***************************************************************************)
(* What a stream FIFO promises its two sides: a first-in first-out queue   *)
(* of at most Capacity items that never loses, duplicates or reorders one. *)
(* A step puts one item in, takes the oldest one out, does both at once,   *)
(* or empties the queue (a reset).                                         *)
(***************************************************************************)
EXTENDS Naturals, Sequences

CONSTANTS
  Data,      \* the items
  Capacity   \* the most items the queue holds

VARIABLE queue

Init == queue = << >>

Put(d) ==
  /\ Len(queue) < Capacity
  /\ queue' = Append(queue, d)

Take ==
  /\ queue # << >>
  /\ queue' = Tail(queue)

\* The item put may take the place of the one taken, even in a full queue.
PutAndTake(d) ==
  /\ queue # << >>
  /\ queue' = Append(Tail(queue), d)

Clear == queue' = << >>

Next ==
  \/ \E d \in Data : Put(d) \/ PutAndTake(d)
  \/ Take
  \/ Clear

Spec == Init /\ [][Next]_queue

----------------------------------------------------------------------------
(* The queue behind its handshakes, as a part of a larger design: the wires *)
(* outside reset, and one clock edge.                                       *)

output_valid == queue # << >>

input_ready(output_ready) ==
  Len(queue) < Capacity \/ (output_valid /\ output_ready)

overflow_attempt(input_valid, output_ready) ==
  input_valid /\ ~input_ready(output_ready)

Clock(input_valid, d, output_ready) ==
  queue' = (IF output_valid /\ output_ready THEN Tail(queue) ELSE queue)
             \o (IF input_valid /\ input_ready(output_ready) THEN <<d>> ELSE << >>)
=============================================================================
