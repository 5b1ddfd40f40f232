-------------------------- MODULE UartFramePipeline --------------------------
(***************************************************************************)
(* rtl/top/uart_frame_pipeline.sv: UART receiver, receive FIFO, frame      *)
(* pipeline, transmit FIFO and UART transmitter, the synchroniser of the   *)
(* external reset, the reset that a framing error causes, and the error    *)
(* counters.  The parts stand here as what they were shown to implement:   *)
(* BoundedQueue, FrameService and ByteSender; of the receiver there is the *)
(* output register, with the operators of UartRx, and a byte may end at    *)
(* any edge the environment chooses.                                       *)
(***************************************************************************)
EXTENDS Naturals, Sequences

CONSTANTS
  Octet, IsFrame(_), Answer(_),    \* bytes, frames and replies
  MAX_FRAME_BYTES, RX_FIFO_DEPTH, TX_FIFO_DEPTH,
  BYTE_CYCLES,                     \* cycles of a byte at the transmitter
  COUNTER_MODULUS                  \* 2^32 in the code

\* The $fatal checks of the initial block.
ASSUME DepthAssumption ==
  RX_FIFO_DEPTH >= MAX_FRAME_BYTES /\ TX_FIFO_DEPTH >= MAX_FRAME_BYTES

VARIABLES
  reset_async,                                                 \* the pin
  reset_sync_stage_1, reset_sync_stage_2,
  uart_framing_error_count, internal_overflow_count,
  output_data, output_valid, framing_error, overflow_error,    \* receiver
  rx_queue, tx_queue,                                          \* FIFOs
  partial, replies, working,                                   \* pipeline
  remaining, data                                              \* transmitter

synchroniser == <<reset_sync_stage_1, reset_sync_stage_2>>
counters == <<uart_framing_error_count, internal_overflow_count>>
received == <<output_data, output_valid, framing_error, overflow_error>>

\* The receiver at the edge that samples the level of the stop bit of byte d.
Receiver(level, d) == INSTANCE UartRx WITH
  CLOCKS_PER_BIT <- 2, rx_meta <- level, rx_sync <- level,
  state <- "STOP", clock_count <- 1, bit_index <- 7, shift_reg <- d

RxFifo == INSTANCE BoundedQueue WITH
  Data <- Octet, Capacity <- RX_FIFO_DEPTH, queue <- rx_queue
TxFifo == INSTANCE BoundedQueue WITH
  Data <- Octet, Capacity <- TX_FIFO_DEPTH, queue <- tx_queue
Pipeline == INSTANCE FrameService
Transmitter == INSTANCE ByteSender WITH Data <- Octet, Idle <- 0

datapath == <<rx_queue, tx_queue, partial, replies, working, remaining, data>>
vars == <<reset_async, synchroniser, counters, received, datapath>>

DatapathInit ==
  RxFifo!Init /\ TxFifo!Init /\ Pipeline!Init /\ Transmitter!Init

\* The state after a reset, released.
Init ==
  /\ reset_async = FALSE /\ reset_sync_stage_1 = FALSE /\ reset_sync_stage_2 = FALSE
  /\ uart_framing_error_count = 0 /\ internal_overflow_count = 0
  /\ output_data = 0 /\ output_valid = FALSE
  /\ framing_error = FALSE /\ overflow_error = FALSE
  /\ DatapathInit

----------------------------------------------------------------------------
(* Wires. *)

reset_sync == reset_sync_stage_2

\* MUTANT: a framing error does not reset the datapath.
datapath_reset_without_framing == reset_sync

datapath_reset == reset_sync \/ framing_error

\* MUTANT: the transmitter takes a byte only when another one waits behind it.
tx_fifo_ready_prefetch ==
  ~datapath_reset /\ Transmitter!input_ready /\ Len(tx_queue) > 1

tx_fifo_ready == ~datapath_reset /\ Transmitter!input_ready
tx_fifo_valid == ~datapath_reset /\ TxFifo!output_valid

pipeline_ready == ~datapath_reset /\ TxFifo!input_ready(tx_fifo_ready)
rx_fifo_valid == ~datapath_reset /\ RxFifo!output_valid

\* MUTANT: the receiver is held back by the pipeline, past the FIFO.
uart_rx_ready_past_fifo == ~datapath_reset /\ Pipeline!in_ready

\* MUTANT: the FIFO does not hold back the receiver while it is reset.
uart_rx_ready_in_reset == RxFifo!input_ready(Pipeline!in_ready)

uart_rx_ready == ~datapath_reset /\ RxFifo!input_ready(Pipeline!in_ready)

fifo_overflow ==
  /\ ~datapath_reset
  /\ \/ RxFifo!overflow_attempt(output_valid, Pipeline!in_ready)
     \/ TxFifo!overflow_attempt(Pipeline!out_valid, tx_fifo_ready)

----------------------------------------------------------------------------
(* The clock edge. *)

\* What ends at this edge: no byte, or byte d with the level of its stop bit.
NoByte == [ends |-> FALSE]
Ending(level, d) == [ends |-> TRUE, level |-> level, data |-> d]

ReceiverClock(b) ==
  IF reset_sync
  THEN /\ output_data' = 0 /\ output_valid' = FALSE
       /\ framing_error' = FALSE /\ overflow_error' = FALSE
  ELSE IF b.ends THEN Receiver(b.level, b.data)!EndByte(uart_rx_ready)
  ELSE Receiver(1, output_data)!NoByte(uart_rx_ready)

DatapathReset ==
  /\ RxFifo!Clear /\ TxFifo!Clear /\ Pipeline!Reset /\ Transmitter!Reset

DatapathClock(done) ==
  IF datapath_reset
  THEN DatapathReset
  ELSE /\ RxFifo!Clock(output_valid, output_data, Pipeline!in_ready)
       /\ Pipeline!Clock(rx_fifo_valid, Head(rx_queue), pipeline_ready, done)
       /\ TxFifo!Clock(Pipeline!out_valid, Pipeline!out_data, tx_fifo_ready)
       /\ Transmitter!Clock(tx_fifo_valid, Head(tx_queue))

\* MUTANT: the reset of a framing error clears the counters too.
Count_cleared ==
  IF reset_async \/ datapath_reset
  THEN uart_framing_error_count' = 0 /\ internal_overflow_count' = 0
  ELSE /\ UNCHANGED uart_framing_error_count
       /\ internal_overflow_count' = (internal_overflow_count +
            (IF overflow_error \/ fifo_overflow THEN 1 ELSE 0)) % COUNTER_MODULUS

Count ==
  IF reset_async
  THEN uart_framing_error_count' = 0 /\ internal_overflow_count' = 0
  ELSE IF reset_sync
  THEN UNCHANGED counters
  ELSE /\ uart_framing_error_count' = (uart_framing_error_count +
            (IF framing_error THEN 1 ELSE 0)) % COUNTER_MODULUS
       /\ internal_overflow_count' = (internal_overflow_count +
            (IF overflow_error \/ fifo_overflow THEN 1 ELSE 0)) % COUNTER_MODULUS

\* MUTANT: the second stage is not set asynchronously, it follows the first.
AssertReset_one_stage ==
  /\ reset_async' = TRUE
  /\ reset_sync_stage_1' = TRUE /\ UNCHANGED reset_sync_stage_2
  /\ uart_framing_error_count' = 0 /\ internal_overflow_count' = 0
  /\ UNCHANGED <<received, datapath>>

\* The pin sets both stages and clears the counters without a clock edge.
AssertReset ==
  /\ reset_async' = TRUE
  /\ reset_sync_stage_1' = TRUE /\ reset_sync_stage_2' = TRUE
  /\ uart_framing_error_count' = 0 /\ internal_overflow_count' = 0
  /\ UNCHANGED <<received, datapath>>

ReleaseReset ==
  /\ reset_async /\ reset_async' = FALSE
  /\ UNCHANGED <<synchroniser, counters, received, datapath>>

Synchronise ==
  /\ reset_sync_stage_1' = reset_async
  /\ reset_sync_stage_2' = (reset_async \/ reset_sync_stage_1)

Clock(b, done) ==
  /\ Synchronise /\ Count
  /\ ReceiverClock(b) /\ DatapathClock(done)
  /\ UNCHANGED reset_async
=============================================================================
