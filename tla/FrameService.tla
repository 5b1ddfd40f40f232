---------------------------- MODULE FrameService ----------------------------
(***************************************************************************)
(* What the frame pipeline is to the FIFOs on its sides: it collects the   *)
(* bytes of one frame, has the reply to it made and sends it.  The next    *)
(* frame is accepted when no reply is left, or as soon as the one before   *)
(* only has to leave; until then a complete frame keeps it from taking     *)
(* bytes.  How many cycles it takes for each of this is left open by Next; *)
(* Clock accepts a frame in the cycle after its last byte when it can.     *)
(***************************************************************************)
EXTENDS Naturals, Sequences

CONSTANTS
  Octet,
  IsFrame(_),    \* whether a sequence of bytes is a complete frame
  Answer(_)      \* the reply to a frame, maybe empty

VARIABLES
  partial,   \* the bytes of the frame that is being collected
  replies,   \* the replies, each in the bytes that have not left, oldest first
  working    \* the handler has not finished the youngest of them

vars == <<partial, replies, working>>

Init == partial = << >> /\ replies = << >> /\ working = FALSE

complete == IsFrame(partial)
may_accept == complete /\ (replies = << >> \/ (Len(replies) = 1 /\ ~working))

in_ready == ~complete
out_valid == replies # << >> /\ (working => Len(replies) > 1)
out_data == Head(Head(replies))

Remaining ==
  IF Len(Head(replies)) = 1 THEN Tail(replies)
  ELSE <<Tail(Head(replies))>> \o Tail(replies)

\* An edge at which the bytes `taken`, at most one, are collected, the frame is
\* accepted, a byte is sent and the handler finishes, or not.
Edge(taken, accepted, sent, finished) ==
  LET answered == accepted /\ Answer(partial) # << >>
  IN  /\ partial' = IF accepted THEN << >> ELSE partial \o taken
      /\ replies' = (IF sent THEN Remaining ELSE replies)
                      \o (IF answered THEN <<Answer(partial)>> ELSE << >>)
      /\ working' = ((answered \/ working) /\ ~finished)

Reset == partial' = << >> /\ replies' = << >> /\ working' = FALSE

Next ==
  \/ Reset
  \/ \E accepted, sent, finished \in BOOLEAN :
       /\ accepted => may_accept
       /\ sent => out_valid
       /\ \/ Edge(<< >>, accepted, sent, finished)
          \/ in_ready /\ \E d \in Octet : Edge(<<d>>, accepted, sent, finished)

Spec == Init /\ [][Next]_vars

\* One clock edge; `done` says that the handler finishes, and, when it has
\* finished before, that a frame is accepted although a reply is still leaving.
Clock(in_valid, d, out_ready, done) ==
  LET accepted == may_accept /\ (replies = << >> \/ done)
  IN  Edge(IF in_valid /\ in_ready THEN <<d>> ELSE << >>, accepted,
           out_valid /\ out_ready, done /\ ~accepted)
=============================================================================
