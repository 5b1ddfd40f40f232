------------------------ MODULE UartFramePipelineWire ------------------------
(***************************************************************************)
(* The UART top level on two lines.  The first may bring any byte at any   *)
(* time, good or with a low stop bit, and the external reset comes at any  *)
(* time.  History variables, in the order the hardware reset leaves them:  *)
(*   arrived  the good bytes between the line and the pipeline             *)
(*   emitted  the bytes between the pipeline and the transmitter           *)
(*   stale    how many of `arrived` came before the last framing error     *)
(*   lost, broken   the bytes dropped for want of room, and the framing    *)
(*            errors, since the last external reset                        *)
(* The second is that of a host that sends whole frames and leaves only so *)
(* many of them unanswered.  A byte of the host may be disturbed on the    *)
(* way: its stop bit is low, the host gives all its frames up and goes on  *)
(* with a new one.  History variables:                                     *)
(*   paced    whether the line is that of the host                         *)
(*   frames   how many frames it began                                     *)
(*   unsent   the frame that is being sent and the rest of it              *)
(*   due      the replies to the frames sent, less what has left           *)
(***************************************************************************)
EXTENDS UartFramePipeline

CONSTANTS
  LINE_CYCLES,      \* the least number of cycles between the ends of two bytes
  MaxCount,         \* bound: the run stops when a counter has this value
  Frames,           \* bound: the frames the host sends
  MaxFrames,        \* bound: how many
  MaxOutstanding    \* how many the host leaves unanswered at a time

\* While the run lasts no counter wraps.
ASSUME CountAssumption ==
  MaxCount \in Nat /\ COUNTER_MODULUS \in Nat /\ MaxCount < COUNTER_MODULUS

\* A host cannot wait for a frame that is dropped.
ASSUME AnswersAssumption == \A f \in Frames : Answer(f) # << >>

\* No byte ends in the cycle after another (a byte is ten bits of at least two
\* cycles), a FIFO has two places or more, and where a frame ends can be told
\* from its own bytes (its length field): it does not begin with another one.
ASSUME HostAssumption ==
  /\ LINE_CYCLES \in Nat /\ LINE_CYCLES >= 2
  /\ RX_FIFO_DEPTH \in Nat /\ RX_FIFO_DEPTH >= 2
  /\ MAX_FRAME_BYTES \in Nat
  /\ MaxOutstanding \in 0 .. 3
  /\ ~IsFrame(<< >>)
  /\ \A f \in Frames :
       /\ f \in Seq(Octet) /\ Len(f) <= MAX_FRAME_BYTES
       /\ IsFrame(f) /\ \A i \in 0 .. Len(f) - 1 : ~IsFrame(SubSeq(f, 1, i))
       /\ Answer(f) \in Seq(Octet)

VARIABLES quiet, arrived, emitted, stale, lost, broken, paced, frames, unsent, due

history == <<arrived, emitted, stale, lost, broken>>
wvars == <<vars, quiet, history>>
host == <<frames, unsent, due>>

WInit ==
  /\ Init /\ quiet = LINE_CYCLES
  /\ arrived = << >> /\ emitted = << >> /\ stale = 0 /\ lost = 0 /\ broken = 0

\* The handshakes between the parts at this edge.
taken_by_pipeline == rx_fifo_valid /\ Pipeline!in_ready
emitted_by_pipeline == Pipeline!out_valid /\ pipeline_ready
taken_by_transmitter == tx_fifo_valid /\ tx_fifo_ready

\* The byte in the receiver's output register.
held == IF output_valid THEN <<output_data>> ELSE << >>

After(queue, taken) == IF taken /\ queue # << >> THEN Tail(queue) ELSE queue

\* The bytes before the pipeline.  A framing error discards those handed over.
Arrive(b) ==
  LET kept == IF reset_sync THEN << >>
              ELSE IF framing_error THEN held
              ELSE After(arrived, taken_by_pipeline)
      good == ~reset_sync /\ b.ends /\ b.level = 1
      full == output_valid /\ ~uart_rx_ready
  IN  /\ arrived' = IF good /\ ~full THEN Append(kept, b.data) ELSE kept
      /\ stale' = IF framing_error THEN Len(kept)
                  ELSE IF stale > 0 /\ taken_by_pipeline THEN stale - 1
                  ELSE IF reset_sync THEN 0 ELSE stale
      /\ lost' = IF good /\ full THEN lost + 1 ELSE lost
      /\ broken' = IF ~reset_sync /\ b.ends /\ b.level = 0 THEN broken + 1 ELSE broken

\* The bytes behind the pipeline.
Emit ==
  emitted' =
    IF datapath_reset THEN << >>
    ELSE After(emitted, taken_by_transmitter)
           \o (IF emitted_by_pipeline THEN <<Pipeline!out_data>> ELSE << >>)

Cycle(b, done) ==
  /\ b.ends => quiet = LINE_CYCLES
  /\ quiet' = IF b.ends THEN 1 ELSE IF quiet < LINE_CYCLES THEN quiet + 1 ELSE quiet
  /\ Clock(b, done) /\ Arrive(b) /\ Emit

Endings == {NoByte} \cup {Ending(level, d) : level \in {0, 1}, d \in Octet}

WReset ==
  /\ AssertReset
  /\ lost' = 0 /\ broken' = 0
  /\ UNCHANGED <<quiet, arrived, emitted, stale>>

WRelease == ReleaseReset /\ UNCHANGED <<quiet, history>>

\* Bound.
Running == uart_framing_error_count < MaxCount /\ internal_overflow_count < MaxCount

WNext ==
  \/ WReset \/ WRelease
  \/ Running /\ \E done \in BOOLEAN, b \in Endings : Cycle(b, done)

WSpec == WInit /\ [][WNext]_wvars

----------------------------------------------------------------------------
(* The line of the host. *)

HInit ==
  /\ WInit
  /\ paced \in BOOLEAN /\ frames = 0 /\ unsent = << >> /\ due = << >>

\* The replies due after a byte has left, or all were given up.
Left ==
  IF datapath_reset THEN << >>
  ELSE IF ~taken_by_transmitter \/ due = << >> THEN due
  ELSE IF Len(Head(due)) = 1 THEN Tail(due)
  ELSE <<Tail(Head(due))>> \o Tail(due)

\* A cycle in which no byte of the host ends.
Pause(done) ==
  /\ Cycle(NoByte, done)
  /\ due' = Left
  /\ UNCHANGED <<frames, unsent>>

\* A byte of the host ends, in order or disturbed.
SendByte(f, rest, level, done) ==
  /\ Cycle(Ending(level, Head(rest)), done)
  /\ IF level = 1
     THEN /\ unsent' = IF Len(rest) = 1 THEN << >> ELSE <<f, Tail(rest)>>
          /\ due' = IF Len(rest) = 1 THEN Append(Left, Answer(f)) ELSE Left
     ELSE unsent' = << >> /\ due' = Left

Begin(f, level, done) ==
  /\ unsent = << >> /\ frames < MaxFrames /\ Len(due) < MaxOutstanding
  /\ frames' = frames + 1
  /\ SendByte(f, f, level, done)

Continue(level, done) ==
  /\ unsent # << >>
  /\ SendByte(unsent[1], unsent[2], level, done)
  /\ UNCHANGED frames

HostNext ==
  \E done \in BOOLEAN :
    \/ Pause(done)
    \/ \E level \in {0, 1} : Continue(level, done) \/ \E f \in Frames : Begin(f, level, done)

HNext ==
  /\ \/ paced /\ HostNext
     \/ ~paced /\ WNext /\ UNCHANGED host
  /\ UNCHANGED paced

HSpec == HInit /\ [][HNext]_<<wvars, paced, host>>

\* The clock runs and the handler finishes.
FairHSpec ==
  HSpec /\ WF_<<wvars, host>>(paced /\ Pause(TRUE) /\ UNCHANGED paced)

----------------------------------------------------------------------------
(* Properties. *)

\* What lies in the receiver's register and the receive FIFO is what came from
\* the line and did not reach the pipeline, in order; the same behind the
\* pipeline.  No byte goes missing between two parts of which one is reset and
\* the other is not, in the cycle of a framing error or of any other reset.
BytesKept ==
  ~reset_sync =>
    /\ arrived = rx_queue \o held
    /\ emitted = tx_queue

\* No error goes uncounted: each framing error is counted once, also through
\* the resets it causes, and a byte is not lost without the overflow counter
\* having moved for it.
ErrorsCounted ==
  ~reset_sync =>
    /\ broken = uart_framing_error_count + (IF framing_error THEN 1 ELSE 0)
    /\ lost <= internal_overflow_count + (IF overflow_error THEN 1 ELSE 0)

\* However short the external reset, when it is released the registers of all
\* parts were reset, before any of them leaves the reset state.
ResetReachesAll ==
  (reset_sync /\ ~reset_sync_stage_1) =>
    DatapathInit /\ ~output_valid /\ ~framing_error /\ ~overflow_error

\* docs/TEST_PROTOCOL_V0.md:230: at a framing error the partial frame is
\* discarded; no byte that came before the error reaches the pipeline after it.
PartialFrameDiscarded == stale = 0

\* What the transmitter is given is, byte for byte, the replies to the frames
\* that arrived whole, in their order and once each; after a disturbed byte the
\* frames that follow are answered as if nothing had come before them.
AnswersInOrder ==
  (paced /\ taken_by_transmitter) => due # << >> /\ Head(tx_queue) = Head(Head(due))

\* Three frames of any length fit, one each in the handler, the receiver and
\* the FIFO, although none need be accepted before the last reply has left:
\* nothing that such a host sends is held back, far less lost.
NothingRefused ==
  paced => /\ ~overflow_error
           /\ output_valid => uart_rx_ready \/ datapath_reset

\* Every reply that is due leaves.
AnswersLeave == due # << >> ~> due = << >>
=============================================================================
