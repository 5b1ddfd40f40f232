----------------------- MODULE UartFramePipelineProofs -----------------------
(***************************************************************************)
(* Theorems about the UART top level, for every frame format and FIFO      *)
(* depth: on a line on which any byte may end, BytesKept, ResetReachesAll  *)
(* and ErrorsCounted; on the line of a host that sends whole frames,       *)
(* AnswersInOrder and NothingRefused.                                      *)
(***************************************************************************)
EXTENDS UartFramePipelineWire, SequenceTheorems, TLAPS

Bytes == Octet \cup {0}

\* The reset stages are set in order and left in order.
StagesInOrder ==
  /\ reset_async \in BOOLEAN
  /\ reset_sync_stage_1 \in BOOLEAN /\ reset_sync_stage_2 \in BOOLEAN
  /\ reset_sync_stage_1 => reset_sync_stage_2

ReceptionTypes ==
  /\ output_data \in Bytes /\ output_valid \in BOOLEAN
  /\ rx_queue \in Seq(Bytes)

IInv == StagesInOrder /\ ReceptionTypes /\ BytesKept /\ ResetReachesAll

----------------------------------------------------------------------------

\* What may end at an edge.
LEMMA EndingTypes ==
  ASSUME NEW b \in Endings
  PROVE  \/ b.ends = FALSE
         \/ b.ends = TRUE /\ b.level \in {0, 1} /\ b.data \in Octet
BY DEF Endings, NoByte, Ending

\* The stages stay in order, and a reset is not released at the edge it begins.
LEMMA StagesStep ==
  ASSUME StagesInOrder, NEW b, NEW done, Clock(b, done)
  PROVE  /\ StagesInOrder'
         /\ (reset_sync' /\ ~reset_sync_stage_1') => reset_sync
BY DEF Clock, Synchronise, StagesInOrder, reset_sync

\* The receiver's register at an edge outside reset: the byte that it hands
\* over goes, the one that ends comes, unless another stays.
LEMMA RegisterStep ==
  ASSUME NEW b \in Endings, NEW done, Clock(b, done), ~reset_sync,
         output_valid \in BOOLEAN, output_data \in Bytes
  PROVE  LET stays == output_valid /\ ~uart_rx_ready
             comes == b.ends /\ b.level = 1 /\ ~stays
         IN  /\ output_valid' = (stays \/ comes)
             /\ output_data' = IF comes THEN b.data ELSE output_data
             /\ output_data' \in Bytes
<1>1. ReceiverClock(b)
  BY DEF Clock
<1>2. CASE b.ends = FALSE
  BY <1>1, <1>2 DEF ReceiverClock, Receiver!NoByte
<1>3. CASE b.ends = TRUE /\ b.level \in {0, 1} /\ b.data \in Octet
  BY <1>1, <1>3 DEF ReceiverClock, Receiver!EndByte, Bytes
<1> QED BY <1>2, <1>3, EndingTypes

\* The receive FIFO at an edge outside reset.
LEMMA QueueStep ==
  ASSUME NEW b, NEW done, Clock(b, done), ~datapath_reset
  PROVE  /\ rx_queue' = After(rx_queue, taken_by_pipeline)
                          \o (IF output_valid /\ uart_rx_ready THEN <<output_data>> ELSE << >>)
         /\ tx_queue' = After(tx_queue, taken_by_transmitter)
                          \o (IF emitted_by_pipeline THEN <<Pipeline!out_data>> ELSE << >>)
         /\ taken_by_pipeline => rx_queue # << >>
BY DEF Clock, DatapathClock, RxFifo!Clock, TxFifo!Clock, RxFifo!output_valid,
       TxFifo!output_valid, RxFifo!input_ready, TxFifo!input_ready, uart_rx_ready,
       rx_fifo_valid, tx_fifo_valid, tx_fifo_ready, pipeline_ready, After,
       taken_by_pipeline, taken_by_transmitter, emitted_by_pipeline

\* In reset nothing stays.
LEMMA ResetStep ==
  ASSUME NEW b, NEW done, Clock(b, done), reset_sync
  PROVE  /\ DatapathInit'
         /\ output_data' = 0 /\ output_valid' = FALSE
         /\ framing_error' = FALSE /\ overflow_error' = FALSE
BY DEF Clock, ReceiverClock, DatapathClock, DatapathReset, datapath_reset, DatapathInit,
       RxFifo!Clear, TxFifo!Clear, RxFifo!Init, TxFifo!Init, Pipeline!Reset,
       Pipeline!Init, Transmitter!Reset, Transmitter!Init

\* The oldest byte is taken from a queue whether or not another waits behind it.
LEMMA TakeBefore ==
  ASSUME NEW S, NEW q \in Seq(S), NEW x \in S, q # << >>
  PROVE  Tail(q \o <<x>>) = Tail(q) \o <<x>>
<1>1. q \o <<x>> = Append(q, x) /\ Tail(q) \o <<x>> = Append(Tail(q), x)
  BY AppendIsConcat, HeadTailProperties
<1> QED BY <1>1, HeadTailAppend

\* The bytes before the pipeline, over a cycle outside reset.
LEMMA ArriveStep ==
  ASSUME IInv, NEW b \in Endings, NEW done, Clock(b, done), Arrive(b), ~reset_sync
  PROVE  arrived' = rx_queue' \o held' /\ ReceptionTypes'
<1> DEFINE stays == output_valid /\ ~uart_rx_ready
           comes == b.ends /\ b.level = 1 /\ ~stays
           left == After(rx_queue, taken_by_pipeline)
           kept == IF framing_error THEN held ELSE After(arrived, taken_by_pipeline)
<1>1. /\ output_valid \in BOOLEAN /\ output_data \in Bytes /\ rx_queue \in Seq(Bytes)
      /\ arrived = rx_queue \o held
  BY DEF IInv, ReceptionTypes, BytesKept
<1>2. /\ output_valid' = (stays \/ comes)
      /\ output_data' = (IF comes THEN b.data ELSE output_data)
      /\ output_data' \in Bytes
  BY <1>1, RegisterStep
<1>3. arrived' = (IF comes THEN Append(kept, b.data) ELSE kept)
  BY EndingTypes DEF Arrive
<1>4. rx_queue' \in Seq(Bytes) /\ kept = rx_queue' \o (IF stays THEN <<output_data>> ELSE << >>)
  <2>1. CASE framing_error
    <3>1. rx_queue' = << >> /\ ~uart_rx_ready
      BY <2>1 DEF Clock, DatapathClock, DatapathReset, datapath_reset, uart_rx_ready, RxFifo!Clear
    <3>2. kept = IF stays THEN <<output_data>> ELSE << >>
      BY <2>1, <3>1 DEF held
    <3>3. kept \in Seq(Bytes)
      <4>1. << >> \in Seq(Bytes) /\ <<output_data>> \in Seq(Bytes)
        BY <1>1
      <4> QED BY <3>2, <4>1
    <3> QED BY <3>1, <3>2, <3>3, ConcatEmptySeq
  <2>2. CASE ~framing_error
    <3>1. /\ rx_queue' = left \o (IF output_valid /\ uart_rx_ready THEN <<output_data>> ELSE << >>)
          /\ taken_by_pipeline => rx_queue # << >>
      BY <2>2, QueueStep DEF datapath_reset
    <3>2. left \in Seq(Bytes)
      BY <1>1, <3>1, HeadTailProperties DEF After
    <3>3. kept = left \o held
      <4>1. CASE ~taken_by_pipeline
        BY <1>1, <2>2, <4>1 DEF After
      <4>2. CASE taken_by_pipeline /\ output_valid
        BY <1>1, <2>2, <3>1, <4>2, TakeBefore DEF After, held
      <4>3. CASE taken_by_pipeline /\ ~output_valid
        BY <1>1, <2>2, <3>2, <4>3, ConcatEmptySeq DEF After, held
      <4> QED BY <4>1, <4>2, <4>3, <1>1
    <3>4. CASE output_valid /\ uart_rx_ready
      <4>1. rx_queue' = left \o <<output_data>> /\ rx_queue' \in Seq(Bytes)
        BY <1>1, <3>1, <3>2, <3>4, ConcatProperties
      <4> QED BY <3>3, <3>4, <4>1, ConcatEmptySeq DEF held
    <3>5. CASE ~(output_valid /\ uart_rx_ready)
      <4>1. rx_queue' = left
        BY <3>1, <3>2, <3>5, ConcatEmptySeq
      <4> QED BY <3>2, <3>3, <3>5, <4>1 DEF held
    <3> QED BY <3>4, <3>5
  <2> QED BY <2>1, <2>2
<1>5. CASE comes
  <2>1. kept = rx_queue'
    BY <1>4, <1>5, ConcatEmptySeq
  <2>2. held' = <<b.data>> /\ b.data \in Bytes
    BY <1>2, <1>5 DEF held
  <2>3. arrived' = rx_queue' \o held'
    BY <1>3, <1>4, <1>5, <2>1, <2>2, AppendIsConcat
  <2> QED BY <1>2, <1>4, <1>5, <2>3 DEF ReceptionTypes
<1>6. CASE ~comes
  <2>1. held' = IF stays THEN <<output_data>> ELSE << >>
    BY <1>2, <1>6 DEF held
  <2> QED BY <1>1, <1>2, <1>3, <1>4, <1>6, <2>1 DEF ReceptionTypes
<1> QED BY <1>5, <1>6

----------------------------------------------------------------------------

\* The invariant holds after a reset.
LEMMA Initially == ASSUME WInit PROVE IInv
<1>1. StagesInOrder /\ ResetReachesAll
  BY DEF WInit, Init, StagesInOrder, ResetReachesAll, reset_sync
<1>2. rx_queue = << >> /\ tx_queue = << >> /\ held = << >>
  BY DEF WInit, Init, DatapathInit, RxFifo!Init, TxFifo!Init, held
<1>3. ReceptionTypes
  <2>1. output_data = 0 /\ output_valid = FALSE
    BY DEF WInit, Init
  <2>2. 0 \in Bytes /\ << >> \in Seq(Bytes)
    BY DEF Bytes
  <2> QED BY <1>2, <2>1, <2>2, Zenon DEF ReceptionTypes
<1>4. BytesKept
  BY <1>2 DEF WInit, BytesKept
<1> QED BY <1>1, <1>3, <1>4 DEF IInv

\* Every clock edge keeps it.
LEMMA CycleStep ==
  ASSUME IInv, NEW b \in Endings, NEW done, Cycle(b, done)
  PROVE  IInv'
<1>1. Clock(b, done) /\ Arrive(b) /\ Emit
  BY DEF Cycle
<1>2. StagesInOrder' /\ ((reset_sync' /\ ~reset_sync_stage_1') => reset_sync)
  BY <1>1, StagesStep DEF IInv
<1>3. CASE reset_sync
  <2>1. /\ DatapathInit'
        /\ output_data' = 0 /\ output_valid' = FALSE
        /\ framing_error' = FALSE /\ overflow_error' = FALSE
    BY <1>1, <1>3, ResetStep
  <2>2. ResetReachesAll'
    BY <2>1 DEF ResetReachesAll
  <2>3. rx_queue' = << >> /\ tx_queue' = << >> /\ held' = << >>
    BY <2>1 DEF DatapathInit, RxFifo!Init, TxFifo!Init, held
  <2>4. arrived' = << >> /\ emitted' = << >>
    BY <1>1, <1>3 DEF Arrive, Emit, datapath_reset
  <2>5. BytesKept'
    BY <2>3, <2>4 DEF BytesKept
  <2>6. ReceptionTypes'
    <3>1. 0 \in Bytes /\ << >> \in Seq(Bytes)
      BY DEF Bytes
    <3> QED BY <2>1, <2>3, <3>1, Zenon DEF ReceptionTypes
  <2> QED BY <1>2, <2>2, <2>5, <2>6 DEF IInv
<1>4. CASE ~reset_sync
  <2>1. ResetReachesAll'
    BY <1>2, <1>4 DEF ResetReachesAll
  <2>2. arrived' = rx_queue' \o held' /\ ReceptionTypes'
    BY <1>1, <1>4, ArriveStep
  <2>3. emitted' = tx_queue'
    <3>1. CASE framing_error
      BY <1>1, <3>1 DEF Emit, Clock, DatapathClock, DatapathReset, datapath_reset, TxFifo!Clear
    <3>2. CASE ~framing_error
      <4>1. emitted = tx_queue /\ ~datapath_reset
        BY <1>4, <3>2 DEF IInv, BytesKept, datapath_reset
      <4> QED BY <1>1, <4>1, QueueStep DEF Emit
    <3> QED BY <3>1, <3>2
  <2> QED BY <1>2, <2>1, <2>2, <2>3 DEF IInv, BytesKept
<1> QED BY <1>3, <1>4

\* It holds throughout, also on a line on which any byte may end.
LEMMA Invariance == WSpec => []IInv
<1>1. IInv /\ [WNext]_wvars => IInv'
  <2> SUFFICES ASSUME IInv, [WNext]_wvars PROVE IInv'
    OBVIOUS
  <2>1. CASE WReset
    <3>1. StagesInOrder' /\ ResetReachesAll' /\ BytesKept'
      BY <2>1 DEF WReset, AssertReset, StagesInOrder, ResetReachesAll, BytesKept, reset_sync
    <3>2. ReceptionTypes'
      BY <2>1 DEF WReset, AssertReset, received, datapath, IInv, ReceptionTypes
    <3> QED BY <3>1, <3>2 DEF IInv
  <2>2. ASSUME UNCHANGED <<synchroniser, received, datapath, arrived, emitted>>,
               reset_async' \in BOOLEAN
        PROVE  IInv'
    BY <2>2 DEF synchroniser, received, datapath, IInv, StagesInOrder, ReceptionTypes,
       BytesKept, ResetReachesAll, held, reset_sync, DatapathInit, RxFifo!Init,
       TxFifo!Init, Pipeline!Init, Transmitter!Init
  <2>3. CASE WRelease
    BY <2>2, <2>3 DEF WRelease, ReleaseReset, history
  <2>4. ASSUME NEW done \in BOOLEAN, NEW b \in Endings, Cycle(b, done)
        PROVE  IInv'
    BY <2>4, CycleStep
  <2>5. CASE UNCHANGED wvars
    <3>1. UNCHANGED <<synchroniser, received, datapath, arrived, emitted>>
          /\ reset_async' = reset_async
      BY <2>5 DEF wvars, vars, history
    <3> QED BY <2>2, <3>1 DEF IInv, StagesInOrder
  <2> QED BY <2>1, <2>3, <2>4, <2>5 DEF WNext
<1> QED BY <1>1, Initially, PTL DEF WSpec

\* For every depth of the FIFOs, every frame format and every rate of the line:
\* between the line and the pipeline, and between the pipeline and the wire, a
\* byte is in exactly one place, through all partial and complete resets.
THEOREM HandedOver == WSpec => []BytesKept
BY Invariance, PTL DEF IInv

\* An external reset of any length leaves every part reset when it is released.
THEOREM ResetReaches == WSpec => []ResetReachesAll
BY Invariance, PTL DEF IInv

----------------------------------------------------------------------------
(* The counters. *)

CountTypes ==
  /\ uart_framing_error_count \in Nat /\ internal_overflow_count \in Nat
  /\ broken \in Nat /\ lost \in Nat
  /\ framing_error \in BOOLEAN /\ overflow_error \in BOOLEAN

\* During an external reset there is nothing to count, and the pin keeps both
\* stages set.
NothingInReset ==
  /\ reset_async => reset_sync_stage_1
  /\ reset_sync => /\ uart_framing_error_count = 0 /\ internal_overflow_count = 0
                   /\ broken = 0 /\ lost = 0

EInv == StagesInOrder /\ CountTypes /\ NothingInReset /\ ErrorsCounted

\* What the receiver reports of a byte that ends outside reset.
LEMMA ReportStep ==
  ASSUME NEW b \in Endings, NEW done, Clock(b, done), ~reset_sync
  PROVE  /\ framing_error' = (b.ends /\ b.level = 0)
         /\ overflow_error' = (b.ends /\ b.level = 1 /\ output_valid /\ ~uart_rx_ready)
<1>1. ReceiverClock(b)
  BY DEF Clock
<1>2. CASE b.ends = FALSE
  BY <1>1, <1>2 DEF ReceiverClock, Receiver!NoByte
<1>3. CASE b.ends = TRUE /\ b.level \in {0, 1} /\ b.data \in Octet
  BY <1>1, <1>3 DEF ReceiverClock, Receiver!EndByte
<1> QED BY <1>2, <1>3, EndingTypes

\* A counter below its bound does not wrap.
LEMMA NoWrap ==
  ASSUME NEW n \in Nat, n < MaxCount, NEW x \in {0, 1}
  PROVE  (n + x) % COUNTER_MODULUS = n + x
<1>1. n + x \in Nat /\ n + x < COUNTER_MODULUS /\ COUNTER_MODULUS \in Nat
  BY CountAssumption
<1> QED BY <1>1, Z3

\* A cycle that does not overrun the counters.
LEMMA CountStep ==
  ASSUME EInv, NEW b \in Endings, NEW done, Cycle(b, done), Running
  PROVE  EInv'
<1> DEFINE f == uart_framing_error_count
           o == internal_overflow_count
<1>1. Clock(b, done) /\ Arrive(b) /\ Count /\ Synchronise /\ reset_async' = reset_async
  BY DEF Cycle, Clock
<1>2. StagesInOrder'
  BY <1>1, StagesStep DEF EInv
<1>3. reset_async' => reset_sync_stage_1'
  BY <1>1 DEF Synchronise
<1>4. CASE reset_sync
  <2>1. framing_error' = FALSE /\ overflow_error' = FALSE
    BY <1>1, <1>4, ResetStep
  <2>2. f' = 0 /\ o' = 0 /\ broken' = 0 /\ lost' = 0
    BY <1>1, <1>4 DEF Count, counters, Arrive, EInv, NothingInReset
  <2>3. CountTypes'
    BY <2>1, <2>2 DEF CountTypes
  <2>4. NothingInReset'
    BY <1>3, <2>2 DEF NothingInReset
  <2>5. ErrorsCounted'
    BY <2>1, <2>2 DEF ErrorsCounted
  <2> QED BY <1>2, <2>3, <2>4, <2>5 DEF EInv
<1>5. CASE ~reset_sync
  <2> DEFINE fe == IF framing_error THEN 1 ELSE 0
             oe == IF overflow_error \/ fifo_overflow THEN 1 ELSE 0
             bad == b.ends /\ b.level = 0
             dropped == b.ends /\ b.level = 1 /\ output_valid /\ ~uart_rx_ready
  <2>1. framing_error' = bad /\ overflow_error' = dropped
    BY <1>1, <1>5, ReportStep
  <2>2. /\ f \in Nat /\ o \in Nat /\ broken \in Nat /\ lost \in Nat
        /\ f < MaxCount /\ o < MaxCount
        /\ broken = f + fe
        /\ lost <= o + (IF overflow_error THEN 1 ELSE 0)
    BY <1>5 DEF EInv, CountTypes, ErrorsCounted, Running
  <2>3. ~reset_async /\ ~reset_sync'
    BY <1>1, <1>5 DEF EInv, NothingInReset, StagesInOrder, Synchronise, reset_sync
  <2>4. f' = f + fe /\ o' = o + oe
    <3>1. f' = (f + fe) % COUNTER_MODULUS /\ o' = (o + oe) % COUNTER_MODULUS
      BY <1>1, <1>5, <2>3 DEF Count
    <3>2. fe \in {0, 1} /\ oe \in {0, 1}
      OBVIOUS
    <3> HIDE DEF fe, oe
    <3>3. (f + fe) % COUNTER_MODULUS = f + fe
      BY <2>2, <3>2, NoWrap
    <3>4. (o + oe) % COUNTER_MODULUS = o + oe
      BY <2>2, <3>2, NoWrap
    <3> QED BY <3>1, <3>3, <3>4
  <2>5. /\ broken' = broken + (IF bad THEN 1 ELSE 0)
        /\ lost' = lost + (IF dropped THEN 1 ELSE 0)
    <3>1. /\ broken' = IF bad THEN broken + 1 ELSE broken
          /\ lost' = IF dropped THEN lost + 1 ELSE lost
      BY <1>1, <1>5 DEF Arrive
    <3> HIDE DEF bad, dropped
    <3> QED BY <2>2, <3>1
  <2>6. oe \in {0, 1} /\ (IF overflow_error THEN 1 ELSE 0) <= oe /\ fe \in {0, 1}
    OBVIOUS
  <2> HIDE DEF bad, dropped, fe, oe
  <2>7. CountTypes'
    <3>1. bad \in BOOLEAN /\ dropped \in BOOLEAN
      BY EndingTypes DEF bad, dropped
    <3>2. f' \in Nat /\ o' \in Nat
      BY <2>2, <2>4, <2>6
    <3>3. broken' \in Nat /\ lost' \in Nat
      BY <2>2, <2>5
    <3>4. framing_error' \in BOOLEAN /\ overflow_error' \in BOOLEAN
      BY <2>1, <3>1
    <3> QED BY <3>2, <3>3, <3>4 DEF CountTypes
  <2>8. ErrorsCounted'
    <3>1. broken' = f' + (IF bad THEN 1 ELSE 0)
      BY <2>2, <2>4, <2>5
    <3>2. lost' <= o' + (IF dropped THEN 1 ELSE 0)
      BY <2>2, <2>4, <2>5, <2>6
    <3>3. /\ broken' = f' + (IF framing_error' THEN 1 ELSE 0)
          /\ lost' <= o' + (IF overflow_error' THEN 1 ELSE 0)
      BY <2>1, <3>1, <3>2
    <3> QED BY <3>3 DEF ErrorsCounted
  <2>9. NothingInReset'
    BY <1>3, <2>3 DEF NothingInReset
  <2> QED BY <1>2, <2>7, <2>8, <2>9 DEF EInv
<1> QED BY <1>4, <1>5

\* For every line, frame format and depth, as long as no counter wraps: each
\* framing error is counted once, through the reset it causes itself, and no byte
\* is dropped for want of room without the overflow counter having moved.
THEOREM ErrorsAreCounted == WSpec => []ErrorsCounted
<1>1. WInit => EInv
  <2> SUFFICES ASSUME WInit PROVE EInv
    OBVIOUS
  <2>1. /\ uart_framing_error_count = 0 /\ internal_overflow_count = 0
        /\ broken = 0 /\ lost = 0 /\ framing_error = FALSE /\ overflow_error = FALSE
        /\ reset_async = FALSE /\ reset_sync_stage_1 = FALSE /\ reset_sync_stage_2 = FALSE
    BY DEF WInit, Init
  <2>2. StagesInOrder /\ CountTypes
    BY <2>1, Zenon DEF StagesInOrder, CountTypes
  <2>3. NothingInReset
    BY <2>1 DEF NothingInReset
  <2>4. ErrorsCounted
    BY <2>1 DEF ErrorsCounted
  <2> QED BY <2>2, <2>3, <2>4 DEF EInv
<1>2. EInv /\ [WNext]_wvars => EInv'
  <2> SUFFICES ASSUME EInv, [WNext]_wvars PROVE EInv'
    OBVIOUS
  <2>1. CASE WReset
    <3>1. /\ reset_async' = TRUE /\ reset_sync_stage_1' = TRUE /\ reset_sync_stage_2' = TRUE
          /\ uart_framing_error_count' = 0 /\ internal_overflow_count' = 0
          /\ broken' = 0 /\ lost' = 0
          /\ framing_error' = framing_error /\ overflow_error' = overflow_error
      BY <2>1 DEF WReset, AssertReset, received
    <3>2. StagesInOrder'
      BY <3>1 DEF StagesInOrder
    <3>3. CountTypes'
      BY <3>1 DEF EInv, CountTypes
    <3>4. NothingInReset'
      BY <3>1 DEF NothingInReset
    <3>5. ErrorsCounted'
      BY <3>1 DEF ErrorsCounted, reset_sync
    <3> QED BY <3>2, <3>3, <3>4, <3>5 DEF EInv
  <2>2. ASSUME UNCHANGED <<synchroniser, counters, received, broken, lost>>,
               reset_async' = FALSE \/ reset_async' = reset_async
        PROVE  EInv'
    <3>1. StagesInOrder'
      BY <2>2 DEF synchroniser, EInv, StagesInOrder
    <3>2. CountTypes'
      BY <2>2 DEF counters, received, EInv, CountTypes
    <3>3. NothingInReset'
      BY <2>2 DEF synchroniser, counters, EInv, NothingInReset, reset_sync
    <3>4. ErrorsCounted'
      BY <2>2 DEF synchroniser, counters, received, EInv, ErrorsCounted, reset_sync
    <3> QED BY <3>1, <3>2, <3>3, <3>4 DEF EInv
  <2>3. CASE WRelease
    BY <2>2, <2>3 DEF WRelease, ReleaseReset, history
  <2>4. ASSUME Running, NEW done \in BOOLEAN, NEW b \in Endings, Cycle(b, done)
        PROVE  EInv'
    BY <2>4, CountStep
  <2>5. CASE UNCHANGED wvars
    BY <2>2, <2>5 DEF wvars, vars, history
  <2> QED BY <2>1, <2>3, <2>4, <2>5 DEF WNext
<1>3. EInv => ErrorsCounted
  BY DEF EInv
<1> QED BY <1>1, <1>2, <1>3, PTL DEF WSpec

----------------------------------------------------------------------------
(* The line of the host: sequences. *)

Messages == Seq(Bytes) \ {<< >>}

\* A sequence of at most three, one behind the other.
Flat(s) ==
  IF Len(s) = 0 THEN << >>
  ELSE IF Len(s) = 1 THEN s[1]
  ELSE IF Len(s) = 2 THEN s[1] \o s[2]
  ELSE s[1] \o (s[2] \o s[3])

\* The first element goes from the front, whatever stands behind.
LEMMA Front ==
  ASSUME NEW S, NEW s \in Seq(S), NEW t \in Seq(S), s # << >>
  PROVE  /\ s \o t \in Seq(S) /\ s \o t # << >>
         /\ Head(s \o t) = Head(s) /\ Tail(s \o t) = Tail(s) \o t
<1>1. /\ s \o t \in Seq(S) /\ Len(s \o t) = Len(s) + Len(t)
      /\ \A i \in 1 .. Len(s) + Len(t) :
           (s \o t)[i] = IF i <= Len(s) THEN s[i] ELSE t[i - Len(s)]
  BY ConcatProperties
<1>2. Len(s) \in Nat \ {0} /\ Len(t) \in Nat
  BY EmptySeq
<1>3. /\ Tail(s) \in Seq(S) /\ Len(Tail(s)) = Len(s) - 1
      /\ \A i \in 1 .. Len(Tail(s)) : Tail(s)[i] = s[i + 1]
  BY HeadTailProperties
<1> DEFINE c == s \o t
<1> HIDE DEF c
<1>4. c \in Seq(S) /\ c # << >> /\ Len(c) = Len(s) + Len(t)
  <2>1. c \in Seq(S) /\ Len(c) = Len(s) + Len(t)
    BY <1>1 DEF c
  <2>2. Len(c) # 0
    BY <1>2, <2>1
  <2> QED BY <2>1, <2>2, EmptySeq
<1>5. Head(c) = Head(s)
  BY <1>1, <1>2, <1>4 DEF c
<1>6. /\ Tail(c) \in Seq(S) /\ Len(Tail(c)) = Len(c) - 1
      /\ \A i \in 1 .. Len(Tail(c)) : Tail(c)[i] = c[i + 1]
  BY <1>4, HeadTailProperties
<1>7. /\ Tail(s) \o t \in Seq(S) /\ Len(Tail(s) \o t) = Len(Tail(s)) + Len(t)
      /\ \A i \in 1 .. Len(Tail(s)) + Len(t) :
           (Tail(s) \o t)[i] = IF i <= Len(Tail(s)) THEN Tail(s)[i] ELSE t[i - Len(Tail(s))]
  BY <1>3, ConcatProperties
<1> DEFINE u == Tail(s)
           d == u \o t
           v == Tail(c)
<1> HIDE DEF u, d, v
<1>8. /\ d \in Seq(S) /\ Len(d) = Len(u) + Len(t)
      /\ \A i \in 1 .. Len(u) + Len(t) :
           d[i] = IF i <= Len(u) THEN u[i] ELSE t[i - Len(u)]
  BY <1>7 DEF d, u
<1>9. Len(u) = Len(s) - 1 /\ \A i \in 1 .. Len(u) : u[i] = s[i + 1]
  BY <1>3 DEF u
<1>10. v \in Seq(S) /\ Len(v) = Len(c) - 1 /\ \A i \in 1 .. Len(v) : v[i] = c[i + 1]
  BY <1>6 DEF v
<1>11. \A i \in 1 .. Len(s) + Len(t) : c[i] = IF i <= Len(s) THEN s[i] ELSE t[i - Len(s)]
  BY <1>1 DEF c
<1>12. Len(v) = Len(d)
  BY <1>2, <1>4, <1>8, <1>9, <1>10
<1>13. ASSUME NEW i \in 1 .. Len(v) PROVE v[i] = d[i]
  <2>1. i + 1 \in 1 .. Len(s) + Len(t) /\ i \in 1 .. Len(u) + Len(t) /\ i \in Nat
    BY <1>2, <1>4, <1>9, <1>10
  <2>2. v[i] = c[i + 1]
    BY <1>10
  <2>3. CASE i <= Len(u)
    BY <2>1, <2>2, <2>3, <1>2, <1>8, <1>9, <1>11
  <2>4. CASE ~(i <= Len(u))
    <3>1. i - Len(u) = i + 1 - Len(s) /\ ~(i + 1 <= Len(s))
      BY <2>1, <2>4, <1>2, <1>9
    <3>2. c[i + 1] = t[i + 1 - Len(s)]
      BY <2>1, <3>1, <1>11
    <3>3. d[i] = t[i - Len(u)]
      BY <2>1, <2>4, <1>8
    <3> QED BY <2>2, <3>1, <3>2, <3>3
  <2> QED BY <2>3, <2>4
<1>14. v = d
  BY <1>8, <1>10, <1>12, <1>13, SeqEqual
<1> QED BY <1>4, <1>5, <1>14 DEF c, v, d, u

\* Taking the first of a sequence apart from the rest of it.
LEMMA Unfold ==
  ASSUME NEW S, NEW s \in Seq(S), s # << >>
  PROVE  s = <<Head(s)>> \o Tail(s) /\ Head(s) \in S /\ Tail(s) \in Seq(S)
<1>1. Head(s) \in S /\ Tail(s) \in Seq(S)
  BY HeadTailProperties
<1>2. Len(s) \in Nat \ {0}
  BY EmptySeq
<1>3. SubSeq(s, 1, Len(s)) = <<s[1]>> \o SubSeq(s, 2, Len(s))
  BY <1>2, SubSeqRecursiveFirst
<1>4. SubSeq(s, 1, Len(s)) = s /\ Tail(s) = SubSeq(s, 2, Len(s)) /\ Head(s) = s[1]
  BY SubSeqFull, TailIsSubSeq
<1> QED BY <1>1, <1>3, <1>4

\* A sequence with one element, as a whole or the first of a longer one.
LEMMA Single ==
  ASSUME NEW S, NEW e \in S
  PROVE  <<e>> \in Seq(S) /\ <<e>> # << >> /\ Head(<<e>>) = e /\ Tail(<<e>>) = << >> /\ Len(<<e>>) = 1
OBVIOUS

\* What it is, by length.
LEMMA Flat0 == ASSUME NEW s, Len(s) = 0 PROVE Flat(s) = << >>
BY DEF Flat
\* The concatenation of one, two and three sequences.
LEMMA Flat1 == ASSUME NEW s, Len(s) = 1 PROVE Flat(s) = s[1]
BY DEF Flat
LEMMA Flat2 == ASSUME NEW s, Len(s) = 2 PROVE Flat(s) = s[1] \o s[2]
BY DEF Flat
LEMMA Flat3 == ASSUME NEW s, Len(s) = 3 PROVE Flat(s) = s[1] \o (s[2] \o s[3])
BY DEF Flat

\* Bytes behind one another.
LEMMA Behind ==
  ASSUME NEW u \in Seq(Bytes), NEW v \in Seq(Bytes), NEW w \in Seq(Bytes)
  PROVE  (u \o v) \o w = u \o (v \o w) /\ u \o v \in Seq(Bytes)
BY ConcatAssociative, ConcatProperties

\* Concatenation of byte sequences is associative.
LEMMA Assoc == \A u, v, w \in Seq(Bytes) : (u \o v) \o w = u \o (v \o w)
BY Behind

\* The concatenation of byte sequences is one.
LEMMA FlatType ==
  ASSUME NEW s \in Seq(Seq(Bytes)), Len(s) <= 3
  PROVE  Flat(s) \in Seq(Bytes)
<1>1. Len(s) \in Nat /\ \A i \in 1 .. Len(s) : s[i] \in Seq(Bytes)
  BY LenProperties, ElementOfSeq
<1>0. Len(s) \in 0 .. 3
  <2> DEFINE n == Len(s)
  <2>1. n \in Nat
    BY LenProperties
  <2>2. n <= 3
    OBVIOUS
  <2> HIDE DEF n
  <2>3. n \in 0 .. 3
    BY <2>1, <2>2
  <2> QED BY <2>3 DEF n
<1>2. CASE Len(s) = 0
  <2>1. Flat(s) = << >>
    BY <1>2, Flat0
  <2> QED BY <2>1
<1>3. CASE Len(s) = 1
  <2>1. Flat(s) = s[1]
    BY <1>3, Flat1
  <2> QED BY <2>1, <1>1, <1>3
<1>4. CASE Len(s) = 2
  <2>1. s[1] \in Seq(Bytes) /\ s[2] \in Seq(Bytes)
    BY <1>1, <1>4
  <2>2. s[1] \o s[2] \in Seq(Bytes)
    BY <2>1, ConcatProperties
  <2>3. Flat(s) = s[1] \o s[2]
    BY <1>4, Flat2
  <2> QED BY <2>2, <2>3
<1>5. CASE Len(s) = 3
  <2>1. s[1] \in Seq(Bytes) /\ s[2] \in Seq(Bytes) /\ s[3] \in Seq(Bytes)
    BY <1>1, <1>5
  <2>2. s[2] \o s[3] \in Seq(Bytes)
    BY <2>1, ConcatProperties
  <2>3. s[1] \o (s[2] \o s[3]) \in Seq(Bytes)
    BY <2>1, <2>2, ConcatProperties
  <2>4. Flat(s) = s[1] \o (s[2] \o s[3])
    BY <1>5, Flat3
  <2> QED BY <2>3, <2>4
<1> QED BY <1>0, <1>2, <1>3, <1>4, <1>5

\* The first sequence goes from the front of the concatenation.
LEMMA FlatFront ==
  ASSUME NEW s \in Seq(Seq(Bytes)), s # << >>, Len(s) <= 3
  PROVE  Flat(s) = Head(s) \o Flat(Tail(s))
<1>1. Len(s) \in Nat \ {0} /\ \A i \in 1 .. Len(s) : s[i] \in Seq(Bytes)
  BY LenProperties, ElementOfSeq, EmptySeq
<1>0. Len(s) \in 1 .. 3
  <2> DEFINE n == Len(s)
  <2>1. n \in Nat \ {0}
    BY EmptySeq
  <2>2. n <= 3
    OBVIOUS
  <2> HIDE DEF n
  <2>3. n \in 1 .. 3
    BY <2>1, <2>2
  <2> QED BY <2>3 DEF n
<1>2. /\ Tail(s) \in Seq(Seq(Bytes)) /\ Len(Tail(s)) = Len(s) - 1 /\ Head(s) = s[1]
      /\ \A i \in 1 .. Len(Tail(s)) : Tail(s)[i] = s[i + 1]
  BY HeadTailProperties
<1> DEFINE t == Tail(s)
<1> HIDE DEF t
<1>3. t \in Seq(Seq(Bytes)) /\ Len(t) = Len(s) - 1 /\ \A i \in 1 .. Len(t) : t[i] = s[i + 1]
  BY <1>2 DEF t
<1>4. Flat(s) = s[1] \o Flat(t)
  <2>1. CASE Len(s) = 1
    <3>1. s[1] \in Seq(Bytes)
      BY <1>1, <2>1
    <3>2. s[1] \o << >> = s[1]
      BY <3>1, ConcatEmptySeq
    <3>3. Len(t) = 0
      BY <1>3, <2>1
    <3>4. Flat(t) = << >> /\ Flat(s) = s[1]
      BY <2>1, <3>3, Flat0, Flat1
    <3> QED BY <3>2, <3>4
  <2>2. CASE Len(s) = 2
    <3>1. Len(t) = 1 /\ t[1] = s[2]
      BY <1>3, <2>2
    <3>2. Flat(t) = t[1]
      BY <3>1, Flat1
    <3>3. Flat(s) = s[1] \o s[2]
      BY <2>2, Flat2
    <3> QED BY <3>1, <3>2, <3>3
  <2>3. CASE Len(s) = 3
    <3>1. Len(t) = 2 /\ t[1] = s[2] /\ t[2] = s[3]
      BY <1>3, <2>3
    <3>2. Flat(t) = t[1] \o t[2]
      BY <3>1, Flat2
    <3>3. Flat(s) = s[1] \o (s[2] \o s[3])
      BY <2>3, Flat3
    <3> QED BY <3>1, <3>2, <3>3
  <2> QED BY <1>0, <2>1, <2>2, <2>3
<1> QED BY <1>2, <1>4 DEF t

\* One more sequence comes at its end.
LEMMA FlatBack ==
  ASSUME NEW s \in Seq(Seq(Bytes)), NEW e \in Seq(Bytes), Len(s) <= 2
  PROVE  Flat(s \o <<e>>) = Flat(s) \o e
<1>1. Len(s) \in Nat /\ \A i \in 1 .. Len(s) : s[i] \in Seq(Bytes)
  BY LenProperties, ElementOfSeq
<1>0. Len(s) \in 0 .. 2
  <2> DEFINE n == Len(s)
  <2>1. n \in Nat
    BY LenProperties
  <2>2. n <= 2
    OBVIOUS
  <2> HIDE DEF n
  <2>3. n \in 0 .. 2
    BY <2>1, <2>2
  <2> QED BY <2>3 DEF n
<1>2. <<e>> \in Seq(Seq(Bytes)) /\ Len(<<e>>) = 1 /\ <<e>>[1] = e
  OBVIOUS
<1> DEFINE t == s \o <<e>>
<1> HIDE DEF t
<1>3. /\ t \in Seq(Seq(Bytes)) /\ Len(t) = Len(s) + 1
      /\ \A i \in 1 .. Len(s) + 1 : t[i] = IF i <= Len(s) THEN s[i] ELSE <<e>>[i - Len(s)]
  BY <1>2, ConcatProperties DEF t
<1>4. Flat(t) = Flat(s) \o e
  <2>1. CASE Len(s) = 0
    <3>1. Len(t) = 1 /\ t[1] = e
      BY <1>2, <1>3, <2>1
    <3>2. Flat(t) = t[1]
      BY <3>1, Flat1
    <3>3. Flat(s) = << >>
      BY <2>1, Flat0
    <3>4. << >> \o e = e
      BY ConcatEmptySeq
    <3> QED BY <3>1, <3>2, <3>3, <3>4
  <2>2. CASE Len(s) = 1
    <3>1. Len(t) = 2 /\ t[1] = s[1] /\ t[2] = e
      BY <1>2, <1>3, <2>2
    <3>2. Flat(t) = t[1] \o t[2]
      BY <3>1, Flat2
    <3>3. Flat(s) = s[1]
      BY <2>2, Flat1
    <3> QED BY <3>1, <3>2, <3>3
  <2>3. CASE Len(s) = 2
    <3>1. Len(t) = 3 /\ t[1] = s[1] /\ t[2] = s[2] /\ t[3] = e
      BY <1>2, <1>3, <2>3
    <3>2. Flat(t) = t[1] \o (t[2] \o t[3])
      BY <3>1, Flat3
    <3>3. Flat(s) = s[1] \o s[2]
      BY <2>3, Flat2
    <3>4. s[1] \in Seq(Bytes) /\ s[2] \in Seq(Bytes)
      BY <1>1, <2>3
    <3>5. (s[1] \o s[2]) \o e = s[1] \o (s[2] \o e)
      BY <3>4, Assoc, Zenon
    <3> QED BY <3>1, <3>2, <3>3, <3>5
  <2> QED BY <1>0, <2>1, <2>2, <2>3
<1> QED BY <1>4 DEF t

----------------------------------------------------------------------------
(* The line of the host: what is under way. *)

\* Of the frames p, sent and not accepted, and the first bytes b of another one,
\* P was collected and A waits; y is what P lacks of the first of them.
Flow(P, A, p, b, y) ==
  IF p = << >> THEN P \o A = b
  ELSE P \o y = Head(p) /\ A = y \o (Flat(Tail(p)) \o b)

\* The replies R, the first of which has lost the bytes x.
Whole(x, R) == IF R = << >> THEN << >> ELSE <<x \o Head(R)>> \o Tail(R)

\* The replies due are those that wait for the transmitter to the last byte, E,
\* the one of which only x waits there, and the rest.
Fits(T, R, D, E, x) ==
  /\ D = E \o Whole(x, R)
  /\ T = Flat(E) \o x
  /\ R = << >> => x = << >>

\* Without the first byte of the first message.
Shorter(s) == IF Len(Head(s)) = 1 THEN Tail(s) ELSE <<Tail(Head(s))>> \o Tail(s)

Answers(p) == [i \in 1 .. Len(p) |-> Answer(p[i])]

\* A frame and its reply are not empty, and a frame fits into the FIFO.
LEMMA FrameFacts ==
  ASSUME NEW f \in Frames
  PROVE  /\ f \in Messages /\ Answer(f) \in Messages /\ IsFrame(f)
         /\ Len(f) <= RX_FIFO_DEPTH
<1>1. f \in Seq(Octet) /\ Answer(f) \in Seq(Octet)
  BY HostAssumption
<1>2. f \in Seq(Bytes) /\ Answer(f) \in Seq(Bytes)
  BY <1>1, SeqMonotonic DEF Bytes
<1>3. f # << >> /\ Answer(f) # << >> /\ IsFrame(f)
  BY HostAssumption, AnswersAssumption
<1>4. Len(f) <= RX_FIFO_DEPTH
  <2>1. Len(f) \in Nat
    BY <1>2, LenProperties
  <2>2. Len(f) <= MAX_FRAME_BYTES /\ MAX_FRAME_BYTES \in Nat /\ RX_FIFO_DEPTH \in Nat
    BY HostAssumption
  <2>3. RX_FIFO_DEPTH >= MAX_FRAME_BYTES
    BY DepthAssumption
  <2> HIDE DEF Bytes
  <2> QED BY <2>1, <2>2, <2>3
<1> QED BY <1>2, <1>3, <1>4 DEF Messages

\* The beginning of a frame is none.
LEMMA Beginning ==
  ASSUME NEW f \in Frames, NEW P \in Seq(Bytes), NEW y \in Seq(Bytes),
         P \o y = f, y # << >>
  PROVE  ~IsFrame(P)
<1>1. Len(P) \in Nat /\ Len(y) \in Nat \ {0} /\ Len(f) = Len(P) + Len(y)
  BY ConcatProperties, LenProperties, EmptySeq
<1>2. \A i \in 1 .. Len(P) + Len(y) : f[i] = IF i <= Len(P) THEN P[i] ELSE y[i - Len(P)]
  BY ConcatProperties
<1>3. \A i \in 1 .. Len(P) : f[i] = P[i] /\ f[i] \in Bytes
  <2> SUFFICES ASSUME NEW i \in 1 .. Len(P) PROVE f[i] = P[i] /\ f[i] \in Bytes
    OBVIOUS
  <2>1. i \in 1 .. Len(P) + Len(y) /\ i <= Len(P)
    BY <1>1
  <2>2. P[i] \in Bytes
    BY ElementOfSeq
  <2> QED BY <1>2, <2>1, <2>2
<1> DEFINE n == Len(P)
           g == SubSeq(f, 1, n)
<1>4. n \in Int /\ 1 \in Int /\ n \in Nat
  BY <1>1
<1>5. \A i \in 1 .. n : f[i] \in Bytes
  BY <1>3
<1> HIDE DEF n
<1>6. /\ g \in Seq(Bytes) /\ Len(g) = (IF 1 <= n THEN n - 1 + 1 ELSE 0)
      /\ \A i \in 1 .. n - 1 + 1 : g[i] = f[1 + i - 1]
  BY <1>4, <1>5, SubSeqProperties
<1> HIDE DEF g
<1>7. Len(g) = n /\ \A i \in 1 .. n : g[i] = f[i]
  BY <1>4, <1>6
<1>8. g = P
  <2>1. Len(g) = Len(P) /\ \A i \in 1 .. Len(g) : g[i] = P[i]
    BY <1>3, <1>7 DEF n
  <2> QED BY <1>6, <2>1, SeqEqual
<1>9. n \in 0 .. Len(f) - 1
  BY <1>1 DEF n
<1>10. ~IsFrame(SubSeq(f, 1, n))
  BY <1>9, HostAssumption
<1> QED BY <1>8, <1>10 DEF g

\* What holds of messages holds of frames.
LEMMA FramesAreMessages ==
  ASSUME NEW p \in Seq(Frames)
  PROVE  p \in Seq(Messages) /\ p \in Seq(Seq(Bytes))
<1>1. Frames \subseteq Messages
  BY FrameFacts
<1>2. p \in Seq(Messages)
  BY <1>1, SeqMonotonic
<1>3. Messages \subseteq Seq(Bytes)
  BY DEF Messages
<1> QED BY <1>2, <1>3, SeqMonotonic

\* A sequence of messages is one of byte sequences.
LEMMA MessagesAreSequences ==
  ASSUME NEW s \in Seq(Messages)
  PROVE  s \in Seq(Seq(Bytes))
<1>1. Messages \subseteq Seq(Bytes)
  BY DEF Messages
<1> QED BY <1>1, SeqMonotonic

\* What is behind the first frame.
LEMMA BehindFirst ==
  ASSUME NEW p \in Seq(Frames), p # << >>, Len(p) <= 3, NEW b \in Seq(Bytes)
  PROVE  /\ Head(p) \in Frames /\ Head(p) \in Seq(Bytes) /\ Tail(p) \in Seq(Frames)
         /\ Len(Tail(p)) = Len(p) - 1 /\ Len(p) \in 1 .. 3
         /\ Flat(Tail(p)) \in Seq(Bytes)
         /\ Flat(Tail(p)) \o b \in Seq(Bytes)
<1>1. Head(p) \in Frames /\ Tail(p) \in Seq(Frames) /\ Len(Tail(p)) = Len(p) - 1
  BY HeadTailProperties
<1>2. Head(p) \in Seq(Bytes)
  BY <1>1, FrameFacts DEF Messages
<1>3. Len(p) \in 1 .. 3 /\ Len(Tail(p)) <= 3
  <2> DEFINE n == Len(p)
             m == Len(Tail(p))
  <2>1. n \in Nat \ {0} /\ n <= 3 /\ m = n - 1
    BY <1>1, EmptySeq
  <2> HIDE DEF n, m
  <2>2. n \in 1 .. 3 /\ m <= 3
    BY <2>1
  <2> QED BY <2>2 DEF n, m
<1>4. Flat(Tail(p)) \in Seq(Bytes)
  BY <1>1, <1>3, FlatType, FramesAreMessages
<1>5. Flat(Tail(p)) \o b \in Seq(Bytes)
  BY <1>4, Behind
<1> QED BY <1>1, <1>2, <1>3, <1>4, <1>5

\* The first byte goes over to what stands before it.
LEMMA GoesOver ==
  ASSUME NEW P \in Seq(Bytes), NEW A \in Seq(Bytes), A # << >>
  PROVE  /\ Head(A) \in Bytes /\ Tail(A) \in Seq(Bytes)
         /\ P \o <<Head(A)>> \in Seq(Bytes)
         /\ (P \o <<Head(A)>>) \o Tail(A) = P \o A
<1> DEFINE h == <<Head(A)>>
           t == Tail(A)
<1>1. A = h \o t /\ Head(A) \in Bytes /\ t \in Seq(Bytes)
  BY Unfold
<1>2. h \in Seq(Bytes)
  BY <1>1, Single
<1> HIDE DEF h, t
<1>3. t \in Seq(Bytes)
  BY <1>1
<1>4. (P \o h) \o t = P \o (h \o t)
  BY <1>2, <1>3, Assoc
<1>5. P \o h \in Seq(Bytes)
  BY <1>2, ConcatProperties
<1>6. (P \o h) \o t = P \o A
  BY <1>1, <1>4
<1> QED BY <1>1, <1>5, <1>6 DEF h, t

\* A byte that waits is collected.
LEMMA FlowTake ==
  ASSUME NEW p \in Seq(Frames), Len(p) <= 3,
         NEW P \in Seq(Bytes), NEW A \in Seq(Bytes), NEW b \in Seq(Bytes),
         NEW y \in Seq(Bytes), Flow(P, A, p, b, y),
         A # << >>, p # << >> => P # Head(p)
  PROVE  \E z \in Seq(Bytes) : Flow(P \o <<Head(A)>>, Tail(A), p, b, z)
<1>1. CASE p = << >>
  <2>1. P \o A = b
    BY <1>1 DEF Flow
  <2>2. (P \o <<Head(A)>>) \o Tail(A) = b
    BY <2>1, GoesOver
  <2>3. Flow(P \o <<Head(A)>>, Tail(A), p, b, y)
    BY <1>1, <2>2 DEF Flow
  <2> QED BY <2>3
<1>2. CASE p # << >>
  <2> DEFINE r == Flat(Tail(p)) \o b
  <2>1. r \in Seq(Bytes)
    BY <1>2, BehindFirst
  <2>2. P \o y = Head(p) /\ A = y \o r
    BY <1>2 DEF Flow
  <2>3. y # << >>
    <3>1. P \o << >> = P
      BY ConcatEmptySeq
    <3> QED BY <1>2, <2>2, <3>1
  <2> HIDE DEF r
  <2>4. Head(A) = Head(y) /\ Tail(A) = Tail(y) \o r
    <3>1. Head(y \o r) = Head(y) /\ Tail(y \o r) = Tail(y) \o r
      BY <2>1, <2>3, Front, Zenon
    <3> QED BY <2>2, <3>1, Zenon
  <2>5. (P \o <<Head(y)>>) \o Tail(y) = P \o y /\ Tail(y) \in Seq(Bytes)
    BY <2>3, GoesOver
  <2>6. (P \o <<Head(A)>>) \o Tail(y) = Head(p)
    BY <2>2, <2>4, <2>5
  <2>7. Flow(P \o <<Head(A)>>, Tail(A), p, b, Tail(y))
    BY <1>2, <2>4, <2>6 DEF Flow, r
  <2> QED BY <2>5, <2>7
<1> QED BY <1>1, <1>2

\* The first frame is complete and accepted.
LEMMA FlowAccept ==
  ASSUME NEW p \in Seq(Frames), Len(p) <= 3, p # << >>,
         NEW A \in Seq(Bytes), NEW b \in Seq(Bytes),
         NEW y \in Seq(Bytes), Flow(Head(p), A, p, b, y)
  PROVE  \E z \in Seq(Bytes) : Flow(<< >>, A, Tail(p), b, z)
<1> DEFINE q == Tail(p)
           r == Flat(q) \o b
<1>1. /\ Head(p) \in Seq(Bytes) /\ q \in Seq(Frames) /\ Len(q) <= 3
      /\ Flat(q) \in Seq(Bytes) /\ r \in Seq(Bytes)
  <2>1. /\ Head(p) \in Seq(Bytes) /\ q \in Seq(Frames) /\ Len(q) = Len(p) - 1
        /\ Len(p) \in 1 .. 3 /\ Flat(q) \in Seq(Bytes) /\ r \in Seq(Bytes)
    BY BehindFirst
  <2> QED BY <2>1
<1>2. Head(p) \o y = Head(p) /\ A = y \o r
  BY DEF Flow
<1> HIDE DEF q, r
<1>3. y = << >>
  BY <1>1, <1>2, ConcatEqualIffEmpty
<1>4. A = r /\ << >> \o A = A
  BY <1>1, <1>2, <1>3, ConcatEmptySeq
<1>5. CASE q = << >>
  <2>1. Flat(q) = << >>
    BY <1>5, Flat0
  <2>2. r = b
    BY <2>1, ConcatEmptySeq DEF r
  <2>3. Flow(<< >>, A, q, b, << >>)
    BY <1>4, <1>5, <2>2 DEF Flow
  <2>4. << >> \in Seq(Bytes)
    OBVIOUS
  <2> QED BY <2>3, <2>4 DEF q
<1>6. CASE q # << >>
  <2>1. Head(q) \in Seq(Bytes) /\ Flat(Tail(q)) \in Seq(Bytes)
    BY <1>1, <1>6, BehindFirst
  <2>2. Flat(q) = Head(q) \o Flat(Tail(q))
    BY <1>1, <1>6, FlatFront, FramesAreMessages
  <2>3. r = Head(q) \o (Flat(Tail(q)) \o b)
    <3>1. (Head(q) \o Flat(Tail(q))) \o b = Head(q) \o (Flat(Tail(q)) \o b)
      BY <2>1, Assoc, Zenon
    <3> QED BY <2>2, <3>1, Zenon DEF r
  <2>4. << >> \o Head(q) = Head(q)
    BY <2>1, ConcatEmptySeq
  <2>5. Flow(<< >>, A, q, b, Head(q))
    BY <1>4, <1>6, <2>3, <2>4 DEF Flow
  <2> QED BY <2>1, <2>5 DEF q
<1> QED BY <1>5, <1>6

\* A byte of the frame being sent arrives.
LEMMA FlowByte ==
  ASSUME NEW p \in Seq(Frames), Len(p) <= 3, NEW d \in Bytes,
         NEW P \in Seq(Bytes), NEW A \in Seq(Bytes), NEW b \in Seq(Bytes),
         NEW y \in Seq(Bytes), Flow(P, A, p, b, y)
  PROVE  Flow(P, A \o <<d>>, p, b \o <<d>>, y)
<1>1. <<d>> \in Seq(Bytes)
  BY Single
<1>2. CASE p = << >>
  <2>1. P \o A = b
    BY <1>2 DEF Flow
  <2>2. P \o (A \o <<d>>) = b \o <<d>>
    <3>1. (P \o A) \o <<d>> = P \o (A \o <<d>>)
      BY <1>1, Assoc, Zenon
    <3> QED BY <2>1, <3>1, Zenon
  <2> QED BY <1>2, <2>2 DEF Flow
<1>3. CASE p # << >>
  <2> DEFINE t == Flat(Tail(p))
  <2>1. t \in Seq(Bytes)
    BY <1>3, BehindFirst
  <2>2. P \o y = Head(p) /\ A = y \o (t \o b)
    BY <1>3 DEF Flow
  <2> HIDE DEF t
  <2>3. t \o b \in Seq(Bytes)
    BY <2>1, Behind
  <2>4. (y \o (t \o b)) \o <<d>> = y \o ((t \o b) \o <<d>>)
    BY <1>1, <2>3, Assoc, Zenon
  <2>5. (t \o b) \o <<d>> = t \o (b \o <<d>>)
    BY <1>1, <2>1, Assoc, Zenon
  <2>6. A \o <<d>> = y \o (t \o (b \o <<d>>))
    BY <2>2, <2>4, <2>5
  <2> QED BY <1>3, <2>2, <2>6 DEF Flow, t
<1> QED BY <1>2, <1>3

\* The frame being sent is whole.
LEMMA FlowEnd ==
  ASSUME NEW p \in Seq(Frames), Len(p) <= 2, NEW f \in Frames,
         NEW P \in Seq(Bytes), NEW A \in Seq(Bytes),
         NEW y \in Seq(Bytes), Flow(P, A, p, f, y)
  PROVE  \E z \in Seq(Bytes) : Flow(P, A, p \o <<f>>, << >>, z)
<1> DEFINE q == p \o <<f>>
<1>0. /\ f \in Seq(Bytes) /\ << >> \in Seq(Bytes) /\ <<f>> \in Seq(Frames)
      /\ <<f>> # << >> /\ Head(<<f>>) = f /\ Tail(<<f>>) = << >> /\ Flat(<< >>) = << >>
  <2>1. f \in Seq(Bytes)
    BY FrameFacts DEF Messages
  <2>2. <<f>> \in Seq(Frames) /\ <<f>> # << >> /\ Head(<<f>>) = f /\ Tail(<<f>>) = << >>
    BY Single
  <2>3. Flat(<< >>) = << >>
    BY Flat0
  <2> QED BY <2>1, <2>2, <2>3
<1>1. CASE p = << >>
  <2>1. q = <<f>>
    BY <1>0, <1>1, ConcatEmptySeq
  <2>2. P \o A = f
    BY <1>1 DEF Flow
  <2>3. A \o (<< >> \o << >>) = A
    BY <1>0, ConcatEmptySeq
  <2>4. Flow(P, A, q, << >>, A)
    <3>1. q # << >> /\ Head(q) = f /\ Flat(Tail(q)) = << >>
      BY <1>0, <2>1
    <3> HIDE DEF q
    <3> QED BY <2>2, <2>3, <3>1 DEF Flow
  <2> QED BY <2>4
<1>2. CASE p # << >>
  <2> DEFINE t == Flat(Tail(p))
  <2>1. /\ t \in Seq(Bytes) /\ Tail(p) \in Seq(Frames) /\ Len(Tail(p)) <= 2
    <3>0. Len(p) <= 3
      <4> DEFINE n == Len(p)
      <4>1. n \in Nat /\ n <= 2
        BY LenProperties
      <4> HIDE DEF n
      <4>2. n <= 3
        BY <4>1
      <4> QED BY <4>2 DEF n
    <3>1. /\ t \in Seq(Bytes) /\ Tail(p) \in Seq(Frames) /\ Len(Tail(p)) = Len(p) - 1
          /\ Len(p) \in 1 .. 3
      BY <1>0, <1>2, <3>0, BehindFirst
    <3> QED BY <3>1
  <2>2. P \o y = Head(p) /\ A = y \o (t \o f)
    BY <1>2 DEF Flow
  <2>3. q # << >> /\ Head(q) = Head(p) /\ Tail(q) = Tail(p) \o <<f>>
    BY <1>0, <1>2, Front
  <2>4. Flat(Tail(q)) = t \o f
    BY <1>0, <2>1, <2>3, FlatBack, FramesAreMessages
  <2>5. t \o f \in Seq(Bytes)
    BY <1>0, <2>1, Behind
  <2>6. (t \o f) \o << >> = t \o f
    BY <2>5, ConcatEmptySeq
  <2> HIDE DEF q, t
  <2>7. Flow(P, A, q, << >>, y)
    BY <2>2, <2>3, <2>4, <2>6 DEF Flow
  <2> QED BY <2>7 DEF q
<1> QED BY <1>1, <1>2

\* The beginning of a frame that is being sent, or nothing.
Begun(b) == b = << >> \/ \E rest \in Messages : b \o rest \in Frames

\* The pipeline has a frame complete when it has all of the first one.
LEMMA FlowComplete ==
  ASSUME NEW p \in Seq(Frames), Len(p) <= 3,
         NEW P \in Seq(Bytes), NEW A \in Seq(Bytes), NEW b \in Seq(Bytes), Begun(b),
         NEW y \in Seq(Bytes), Flow(P, A, p, b, y)
  PROVE  IsFrame(P) <=> p # << >> /\ P = Head(p)
<1>1. CASE p = << >>
  <2>1. P \o A = b
    BY <1>1 DEF Flow
  <2>2. CASE b = << >>
    <3>1. P = << >>
      BY <2>1, <2>2, ConcatEqualIffEmpty
    <3> QED BY <1>1, <3>1, HostAssumption
  <2>3. ASSUME NEW rest \in Messages, b \o rest \in Frames
        PROVE  ~IsFrame(P)
    <3>1. rest \in Seq(Bytes) /\ rest # << >>
      BY DEF Messages
    <3>2. (P \o A) \o rest = P \o (A \o rest)
      BY <3>1, Assoc
    <3>3. A \o rest \in Seq(Bytes) /\ A \o rest # << >>
      BY <3>1, ConcatProperties, ConcatEqualIffEmpty
    <3>4. P \o (A \o rest) \in Frames
      BY <2>1, <2>3, <3>2
    <3> QED BY <3>3, <3>4, Beginning
  <2> QED BY <1>1, <2>2, <2>3 DEF Begun
<1>2. CASE p # << >>
  <2>1. P \o y = Head(p) /\ Head(p) \in Frames
    BY <1>2, BehindFirst DEF Flow
  <2>2. CASE y = << >>
    <3>1. P = Head(p)
      BY <2>1, <2>2, ConcatEmptySeq
    <3> QED BY <1>2, <2>1, <3>1, FrameFacts
  <2>3. CASE y # << >>
    <3>1. ~IsFrame(P)
      BY <2>1, <2>3, Beginning
    <3>2. P # Head(p)
      BY <2>1, <2>3, ConcatEqualIffEmpty
    <3> QED BY <3>1, <3>2
  <2> QED BY <2>2, <2>3
<1> QED BY <1>1, <1>2

\* If the FIFO's worth of bytes waits behind a complete frame, one of them is the
\* last of another frame.
LEMMA Crowded ==
  ASSUME NEW p \in Seq(Frames), p # << >>, Len(p) <= 3,
         NEW A \in Seq(Bytes), NEW b \in Seq(Bytes), Begun(b),
         NEW y \in Seq(Bytes), Flow(Head(p), A, p, b, y),
         Len(A) = RX_FIFO_DEPTH
  PROVE  Len(p) >= 2
<1>1. /\ Head(p) \in Seq(Bytes) /\ Tail(p) \in Seq(Frames)
      /\ Len(p) \in 1 .. 3 /\ Flat(Tail(p)) \o b \in Seq(Bytes)
      /\ Len(Tail(p)) = Len(p) - 1
  BY BehindFirst
<1>2. Head(p) \o y = Head(p) /\ A = y \o (Flat(Tail(p)) \o b)
  BY DEF Flow
<1>3. y = << >>
  BY <1>1, <1>2, ConcatEqualIffEmpty
<1>4. A = Flat(Tail(p)) \o b
  BY <1>1, <1>2, <1>3, ConcatEmptySeq
<1>5. CASE Len(p) = 1
  <2>1. Len(Tail(p)) = 0
    BY <1>1, <1>5
  <2>2. Flat(Tail(p)) = << >>
    BY <2>1, Flat0
  <2>3. A = b
    BY <1>4, <2>2, ConcatEmptySeq
  <2>4. Len(b) < RX_FIFO_DEPTH
    <3>1. CASE b = << >>
      <4>1. Len(b) = 0
        BY <3>1
      <4>2. RX_FIFO_DEPTH \in Nat /\ RX_FIFO_DEPTH >= 2
        BY HostAssumption
      <4> QED BY <4>1, <4>2
    <3>2. ASSUME NEW rest \in Messages, b \o rest \in Frames
          PROVE  Len(b) < RX_FIFO_DEPTH
      <4>1. rest \in Seq(Bytes) /\ rest # << >>
        BY DEF Messages
      <4>2. Len(b \o rest) = Len(b) + Len(rest)
        BY <4>1, ConcatProperties
      <4>3. Len(b \o rest) <= RX_FIFO_DEPTH
        BY <3>2, FrameFacts
      <4>4. Len(b) \in Nat /\ Len(rest) \in Nat \ {0} /\ RX_FIFO_DEPTH \in Nat
        BY <4>1, LenProperties, EmptySeq, HostAssumption
      <4> QED BY <4>2, <4>3, <4>4
    <3> QED BY <3>1, <3>2 DEF Begun
  <2>5. Len(A) = Len(b) /\ RX_FIFO_DEPTH \in Nat
    BY <2>3, HostAssumption
  <2> QED BY <2>4, <2>5
<1>6. CASE Len(p) # 1
  <2> DEFINE n == Len(p)
  <2>1. n \in 1 .. 3 /\ n # 1
    BY <1>1, <1>6
  <2> HIDE DEF n
  <2>2. n >= 2
    BY <2>1
  <2> QED BY <2>2 DEF n
<1> QED BY <1>5, <1>6

----------------------------------------------------------------------------
(* The line of the host: replies. *)

\* Concatenation of message sequences is associative.
LEMMA AssocM == \A u, v, w \in Seq(Messages) : (u \o v) \o w = u \o (v \o w)
BY ConcatAssociative

\* A message has a first byte, and without it is empty or a message.
LEMMA MessageFacts ==
  ASSUME NEW m \in Messages
  PROVE  /\ m \in Seq(Bytes) /\ m # << >> /\ Len(m) \in Nat \ {0}
         /\ Head(m) \in Bytes /\ Tail(m) \in Seq(Bytes)
         /\ Len(m) = 1 => Tail(m) = << >> /\ m = <<Head(m)>>
         /\ Len(m) # 1 => Tail(m) \in Messages
<1>1. m \in Seq(Bytes) /\ m # << >>
  BY DEF Messages
<1>2. Len(m) \in Nat \ {0}
  BY <1>1, EmptySeq
<1>3. /\ m = <<Head(m)>> \o Tail(m) /\ Head(m) \in Bytes
      /\ Tail(m) \in Seq(Bytes) /\ Len(Tail(m)) = Len(m) - 1
  BY <1>1, Unfold, HeadTailProperties
<1>4. Tail(m) = << >> <=> Len(Tail(m)) = 0
  BY <1>3, EmptySeq
<1>5. ASSUME Len(m) = 1 PROVE Tail(m) = << >> /\ m = <<Head(m)>>
  <2>1. Tail(m) = << >>
    <3>0. Len(Tail(m)) = Len(m) - 1
      BY <1>3
    <3>1. Len(Tail(m)) = 0
      BY <3>0, <1>5
    <3> QED BY <1>4, <3>1, Zenon
  <2>2. <<Head(m)>> \in Seq(Bytes)
    BY <1>3, Single
  <2>3. <<Head(m)>> \o << >> = <<Head(m)>>
    BY <2>2, ConcatEmptySeq
  <2>4. m = <<Head(m)>> \o Tail(m)
    BY <1>3
  <2>5. m = <<Head(m)>>
    BY <2>1, <2>3, <2>4, Zenon
  <2> QED BY <2>1, <2>5
<1>6. ASSUME Len(m) # 1 PROVE Tail(m) \in Messages
  <2>1. Len(Tail(m)) # 0
    BY <1>2, <1>3, <1>6
  <2> QED BY <1>3, <1>4, <2>1 DEF Messages
<1> QED BY <1>1, <1>2, <1>3, <1>5, <1>6

\* Without the first byte of the first, messages are left, the first changed.
LEMMA ShorterFacts ==
  ASSUME NEW s \in Seq(Messages), s # << >>
  PROVE  /\ Head(s) \in Messages /\ Tail(s) \in Seq(Messages)
         /\ Shorter(s) \in Seq(Messages)
         /\ Len(Shorter(s)) <= Len(s)
         /\ Len(Head(s)) # 1 => /\ Tail(Head(s)) \in Messages
                                /\ Shorter(s) = <<Tail(Head(s))>> \o Tail(s)
                                /\ Shorter(s) # << >>
                                /\ Head(Shorter(s)) = Tail(Head(s))
                                /\ Tail(Shorter(s)) = Tail(s)
<1>1. Head(s) \in Messages /\ Tail(s) \in Seq(Messages) /\ Len(Tail(s)) = Len(s) - 1
  BY HeadTailProperties
<1>2. Len(s) \in Nat \ {0}
  BY EmptySeq
<1>3. CASE Len(Head(s)) = 1
  <2>1. Shorter(s) = Tail(s)
    BY <1>3 DEF Shorter
  <2>2. Len(Tail(s)) <= Len(s)
    BY <1>1, <1>2
  <2> QED BY <1>1, <1>3, <2>1, <2>2, Zenon
<1>4. CASE Len(Head(s)) # 1
  <2> DEFINE m == Tail(Head(s))
             t == Tail(s)
  <2>1. m \in Messages
    BY <1>1, <1>4, MessageFacts
  <2>2. Shorter(s) = <<m>> \o t
    BY <1>4 DEF Shorter
  <2>3. t \in Seq(Messages) /\ Len(t) = Len(s) - 1
    BY <1>1
  <2> HIDE DEF m, t
  <2>4. <<m>> \in Seq(Messages) /\ <<m>> # << >> /\ Head(<<m>>) = m /\ Tail(<<m>>) = << >> /\ Len(<<m>>) = 1
    BY <2>1, Single
  <2>5. /\ <<m>> \o t \in Seq(Messages) /\ <<m>> \o t # << >>
        /\ Head(<<m>> \o t) = Head(<<m>>) /\ Tail(<<m>> \o t) = Tail(<<m>>) \o t
    BY <2>3, <2>4, Front, Zenon
  <2>6. Tail(<<m>> \o t) = t
    BY <2>3, <2>4, <2>5, ConcatEmptySeq
  <2>7. Len(<<m>> \o t) = Len(<<m>>) + Len(t)
    BY <2>3, <2>4, ConcatProperties
  <2>8. Len(Shorter(s)) = Len(s)
    <3> DEFINE n == Len(s)
               k == Len(Shorter(s))
    <3>1. n \in Nat /\ k = 1 + (n - 1)
      BY <1>2, <2>2, <2>3, <2>4, <2>7
    <3> HIDE DEF n, k
    <3>2. k = n
      BY <3>1
    <3> QED BY <3>2 DEF n, k
  <2>9. Len(Shorter(s)) <= Len(s)
    BY <1>2, <2>8
  <2>10. Head(Shorter(s)) = m /\ Tail(Shorter(s)) = t /\ Shorter(s) # << >> /\ Shorter(s) \in Seq(Messages)
    BY <2>2, <2>4, <2>5, <2>6
  <2> QED BY <1>1, <1>4, <2>1, <2>2, <2>9, <2>10 DEF m, t
<1> QED BY <1>3, <1>4

\* Given its lost bytes back, the first reply is a message again.
LEMMA WholeFacts ==
  ASSUME NEW x \in Seq(Bytes), NEW R \in Seq(Messages)
  PROVE  /\ Whole(x, R) \in Seq(Messages) /\ Len(Whole(x, R)) = Len(R)
         /\ R = << >> => Whole(x, R) = << >>
         /\ R # << >> => /\ x \o Head(R) \in Messages
                        /\ Whole(x, R) # << >>
                        /\ Whole(x, R) = <<x \o Head(R)>> \o Tail(R)
                        /\ Head(Whole(x, R)) = x \o Head(R)
                        /\ Tail(Whole(x, R)) = Tail(R)
                        /\ Head(R) \in Messages /\ Tail(R) \in Seq(Messages)
<1>1. CASE R = << >>
  <2>1. Whole(x, R) = << >>
    BY <1>1 DEF Whole
  <2> QED BY <1>1, <2>1
<1>2. CASE R # << >>
  <2> DEFINE m == x \o Head(R)
             t == Tail(R)
  <2>1. Head(R) \in Messages /\ t \in Seq(Messages) /\ Len(t) = Len(R) - 1
    BY <1>2, HeadTailProperties
  <2>2. m \in Messages
    <3>1. Head(R) \in Seq(Bytes) /\ Head(R) # << >>
      BY <2>1 DEF Messages
    <3>2. m \in Seq(Bytes) /\ m # << >>
      BY <3>1, ConcatProperties, ConcatEqualIffEmpty
    <3> QED BY <3>2 DEF Messages
  <2>3. Whole(x, R) = <<m>> \o t
    BY <1>2 DEF Whole
  <2>4. Len(R) \in Nat \ {0}
    BY <1>2, EmptySeq
  <2> HIDE DEF m, t
  <2>5. <<m>> \in Seq(Messages) /\ <<m>> # << >> /\ Head(<<m>>) = m /\ Tail(<<m>>) = << >> /\ Len(<<m>>) = 1
    BY <2>2, Single
  <2>6. /\ <<m>> \o t \in Seq(Messages) /\ <<m>> \o t # << >>
        /\ Head(<<m>> \o t) = Head(<<m>>) /\ Tail(<<m>> \o t) = Tail(<<m>>) \o t
    BY <2>1, <2>5, Front, Zenon
  <2>7. Tail(<<m>> \o t) = t
    BY <2>1, <2>5, <2>6, ConcatEmptySeq
  <2>8. Len(<<m>> \o t) = Len(<<m>>) + Len(t)
    BY <2>1, <2>5, ConcatProperties
  <2>9. Len(Whole(x, R)) = Len(R)
    <3> DEFINE n == Len(R)
               k == Len(Whole(x, R))
    <3>1. n \in Nat /\ k = 1 + (n - 1)
      BY <2>1, <2>3, <2>4, <2>5, <2>8
    <3> HIDE DEF n, k
    <3>2. k = n
      BY <3>1
    <3> QED BY <3>2 DEF n, k
  <2>10. /\ Head(Whole(x, R)) = m /\ Tail(Whole(x, R)) = t
         /\ Whole(x, R) # << >> /\ Whole(x, R) \in Seq(Messages)
    BY <2>3, <2>5, <2>6, <2>7
  <2> QED BY <1>2, <2>1, <2>2, <2>3, <2>9, <2>10 DEF m, t
<1> QED BY <1>1, <1>2

\* Nothing lost, nothing to give back.
LEMMA WholeNothing ==
  ASSUME NEW R \in Seq(Messages)
  PROVE  Whole(<< >>, R) = R
<1>1. CASE R = << >>
  BY <1>1 DEF Whole
<1>2. CASE R # << >>
  <2>1. R = <<Head(R)>> \o Tail(R) /\ Head(R) \in Messages
    BY <1>2, Unfold
  <2>2. << >> \o Head(R) = Head(R)
    BY <2>1, ConcatEmptySeq DEF Messages
  <2>3. Whole(<< >>, R) = <<<< >> \o Head(R)>> \o Tail(R)
    BY <1>2 DEF Whole
  <2> QED BY <2>1, <2>2, <2>3, Zenon
<1> QED BY <1>1, <1>2

\* Each reply due is counted once: it waits whole, or part of it is still to come.
LEMMA FitsCount ==
  ASSUME NEW E \in Seq(Messages), NEW x \in Seq(Bytes), NEW R \in Seq(Messages),
         NEW D, NEW T, Fits(T, R, D, E, x)
  PROVE  Len(D) = Len(E) + Len(R) /\ Len(E) \in Nat /\ Len(R) \in Nat
<1>1. Whole(x, R) \in Seq(Messages) /\ Len(Whole(x, R)) = Len(R)
  BY WholeFacts
<1>2. Len(E \o Whole(x, R)) = Len(E) + Len(Whole(x, R))
  BY <1>1, ConcatProperties
<1>3. D = E \o Whole(x, R)
  BY DEF Fits
<1> QED BY <1>1, <1>2, <1>3, LenProperties

\* What is behind the first message.
LEMMA FlatSplit ==
  ASSUME NEW E \in Seq(Messages), E # << >>, Len(E) <= 3
  PROVE  /\ Flat(E) = Head(E) \o Flat(Tail(E)) /\ Flat(E) \in Seq(Bytes)
         /\ Head(E) \in Messages /\ Tail(E) \in Seq(Messages)
         /\ Flat(Tail(E)) \in Seq(Bytes)
<1>1. E \in Seq(Seq(Bytes))
  BY MessagesAreSequences
<1>2. Head(E) \in Messages /\ Tail(E) \in Seq(Messages) /\ Len(Tail(E)) = Len(E) - 1
  BY HeadTailProperties
<1>3. Len(E) \in Nat
  BY LenProperties
<1>4. Len(Tail(E)) <= 3
  <2> DEFINE n == Len(E)
             k == Len(Tail(E))
  <2>1. n \in Nat /\ n <= 3 /\ k = n - 1
    BY <1>2, <1>3
  <2> HIDE DEF n, k
  <2>2. k <= 3
    BY <2>1
  <2> QED BY <2>2 DEF k
<1>5. Flat(E) = Head(E) \o Flat(Tail(E)) /\ Flat(E) \in Seq(Bytes)
  BY <1>1, FlatFront, FlatType
<1>6. Flat(Tail(E)) \in Seq(Bytes)
  BY <1>2, <1>4, FlatType, MessagesAreSequences
<1> QED BY <1>2, <1>5, <1>6

\* One more reply that the pipeline has yet to give.
LEMMA FitsAppend ==
  ASSUME NEW E \in Seq(Messages), NEW x \in Seq(Bytes), NEW R \in Seq(Messages),
         NEW D, NEW T, Fits(T, R, D, E, x), NEW m \in Messages
  PROVE  Fits(T, R \o <<m>>, D \o <<m>>, E, x)
<1>0. /\ <<m>> \in Seq(Messages) /\ <<m>> # << >> /\ Head(<<m>>) = m /\ Tail(<<m>>) = << >>
  BY Single
<1>1. R \o <<m>> \in Seq(Messages) /\ R \o <<m>> # << >>
  BY <1>0, ConcatProperties, ConcatEqualIffEmpty
<1>2. D = E \o Whole(x, R) /\ Whole(x, R) \in Seq(Messages)
  BY WholeFacts DEF Fits
<1>3. (E \o Whole(x, R)) \o <<m>> = E \o (Whole(x, R) \o <<m>>)
  BY <1>0, <1>2, AssocM
<1>4. Whole(x, R \o <<m>>) = Whole(x, R) \o <<m>>
  <2>1. CASE R = << >>
    <3>1. x = << >>
      BY <2>1 DEF Fits
    <3>2. R \o <<m>> = <<m>>
      BY <1>0, <2>1, ConcatEmptySeq
    <3>3. Whole(x, <<m>>) = <<m>>
      BY <1>0, <3>1, WholeNothing
    <3>4. Whole(x, R) = << >>
      BY <2>1 DEF Whole
    <3>5. << >> \o <<m>> = <<m>>
      BY <1>0, ConcatEmptySeq
    <3> QED BY <3>2, <3>3, <3>4, <3>5, Zenon
  <2>2. CASE R # << >>
    <3>1. Head(R \o <<m>>) = Head(R) /\ Tail(R \o <<m>>) = Tail(R) \o <<m>>
      BY <1>0, <2>2, Front, Zenon
    <3> DEFINE h == <<x \o Head(R)>>
               t == Tail(R)
    <3>2. Whole(x, R \o <<m>>) = h \o (t \o <<m>>)
      <4>1. Whole(x, R \o <<m>>) = <<x \o Head(R \o <<m>>)>> \o Tail(R \o <<m>>)
        BY <1>1, Zenon DEF Whole
      <4> QED BY <3>1, <4>1, Zenon
    <3>3. Whole(x, R) = h \o t /\ x \o Head(R) \in Messages /\ t \in Seq(Messages)
      BY <2>2, WholeFacts
    <3>4. h \in Seq(Messages)
      BY <3>3, Single
    <3> HIDE DEF h, t
    <3>5. (h \o t) \o <<m>> = h \o (t \o <<m>>)
      BY <1>0, <3>3, <3>4, AssocM
    <3> QED BY <3>2, <3>3, <3>5, Zenon
  <2> QED BY <2>1, <2>2
<1>5. D \o <<m>> = E \o Whole(x, R \o <<m>>)
  BY <1>2, <1>3, <1>4, Zenon
<1>6. T = Flat(E) \o x
  BY DEF Fits
<1> QED BY <1>1, <1>5, <1>6, Zenon DEF Fits

\* The pipeline hands a byte of the first reply over.
LEMMA FitsLeave ==
  ASSUME NEW E \in Seq(Messages), NEW x \in Seq(Bytes), NEW R \in Seq(Messages),
         NEW D, NEW T, Fits(T, R, D, E, x), R # << >>, Len(E) <= 2
  PROVE  \E E2 \in Seq(Messages), x2 \in Seq(Bytes) :
           /\ Fits(T \o <<Head(Head(R))>>, Shorter(R), D, E2, x2)
           /\ Len(Head(R)) = 1 => x2 = << >>
<1> DEFINE m == Head(R)
           t == Tail(R)
           h == <<Head(m)>>
           g == Flat(E)
<1>1. m \in Messages /\ t \in Seq(Messages)
  BY HeadTailProperties
<1>2. /\ m \in Seq(Bytes) /\ Head(m) \in Bytes
      /\ Len(m) = 1 => m = <<Head(m)>>
      /\ Len(m) # 1 => Tail(m) \in Messages
  BY <1>1, MessageFacts
<1>3. h \in Seq(Bytes)
  BY <1>2, Single
<1>4. g \in Seq(Bytes)
  <2>1. Len(E) <= 3
    <3> DEFINE n == Len(E)
    <3>1. n \in Nat /\ n <= 2
      BY LenProperties
    <3> HIDE DEF n
    <3>2. n <= 3
      BY <3>1
    <3> QED BY <3>2 DEF n
  <2> QED BY <2>1, FlatType, MessagesAreSequences
<1>5. T = g \o x
  BY DEF Fits
<1>6. D = E \o (<<x \o m>> \o t) /\ x \o m \in Messages
  BY WholeFacts DEF Fits
<1>7. <<x \o m>> \in Seq(Messages)
  BY <1>6, Single
<1>8. T \o h = g \o (x \o h) /\ x \o h \in Seq(Bytes)
  BY <1>3, <1>4, <1>5, Behind
<1>9. CASE Len(m) = 1
  <2> DEFINE E2 == E \o <<x \o m>>
  <2>1. E2 \in Seq(Messages)
    BY <1>7, ConcatProperties
  <2>2. Shorter(R) = t
    BY <1>9 DEF Shorter
  <2>3. D = E2 \o t
    <3>1. E2 \o t = E \o (<<x \o m>> \o t)
      BY <1>1, <1>7, AssocM
    <3> QED BY <1>6, <3>1, Zenon
  <2>4. Whole(<< >>, t) = t
    BY <1>1, WholeNothing
  <2>5. Flat(E2) = T \o h
    <3>1. x \o m \in Seq(Bytes) /\ E \in Seq(Seq(Bytes))
      BY <1>6, MessageFacts, MessagesAreSequences
    <3>2. Flat(E2) = g \o (x \o m)
      BY <3>1, FlatBack
    <3>3. m = h
      BY <1>2, <1>9
    <3> HIDE DEF m, h, g, E2
    <3> QED BY <1>8, <3>2, <3>3, Zenon
  <2>6. (T \o h) \o << >> = T \o h
    <3>1. T \o h \in Seq(Bytes)
      BY <1>4, <1>8, ConcatProperties
    <3> QED BY <3>1, ConcatEmptySeq
  <2> HIDE DEF E2, h, t, g
  <2>7. Fits(T \o h, t, D, E2, << >>)
    BY <2>3, <2>4, <2>5, <2>6, Zenon DEF Fits
  <2>8. << >> \in Seq(Bytes)
    OBVIOUS
  <2>9. Fits(T \o h, Shorter(R), D, E2, << >>)
    BY <2>2, <2>7, Zenon
  <2> QED BY <2>1, <2>8, <2>9 DEF h
<1>10. CASE Len(m) # 1
  <2> DEFINE x2 == x \o h
  <2>1. /\ Tail(m) \in Messages /\ Shorter(R) # << >>
        /\ Head(Shorter(R)) = Tail(m) /\ Tail(Shorter(R)) = t
    BY <1>10, ShorterFacts
  <2>2. x2 \o Tail(m) = x \o m
    BY <1>1, <1>2, GoesOver, MessageFacts
  <2> HIDE DEF m, t, h, x2, g
  <2>3. Whole(x2, Shorter(R)) = <<x2 \o Tail(m)>> \o t
    BY <2>1, Zenon DEF Whole
  <2>4. D = E \o Whole(x2, Shorter(R))
    BY <1>6, <2>2, <2>3, Zenon
  <2>5. T \o h = Flat(E) \o x2
    BY <1>8 DEF g, x2
  <2>6. Fits(T \o h, Shorter(R), D, E, x2)
    BY <2>1, <2>4, <2>5, Zenon DEF Fits
  <2>7. x2 \in Seq(Bytes)
    BY <1>8 DEF x2
  <2> QED BY <1>10, <2>6, <2>7 DEF h, m
<1> QED BY <1>9, <1>10

\* The transmitter takes a byte.
LEMMA FitsTake ==
  ASSUME NEW E \in Seq(Messages), NEW x \in Seq(Bytes), NEW R \in Seq(Messages),
         NEW D \in Seq(Messages), NEW T, Fits(T, R, D, E, x), T # << >>, Len(E) <= 3
  PROVE  /\ D # << >> /\ Head(Head(D)) = Head(T)
         /\ \E E2 \in Seq(Messages), x2 \in Seq(Bytes) :
              /\ Fits(Tail(T), R, Shorter(D), E2, x2)
              /\ x = << >> => x2 = << >>
<1> DEFINE W == Whole(x, R)
<1>1. W \in Seq(Messages) /\ D = E \o W /\ T = Flat(E) \o x
  BY WholeFacts DEF Fits
<1>2. CASE E = << >>
  <2>1. T = x
    <3>1. Flat(E) = << >>
      BY <1>2, Flat0
    <3> QED BY <1>1, <3>1, ConcatEmptySeq
  <2>2. D = W
    BY <1>1, <1>2, ConcatEmptySeq
  <2>3. x # << >> /\ R # << >>
    BY <2>1 DEF Fits
  <2>4. /\ D # << >> /\ Head(D) = x \o Head(R) /\ Tail(D) = Tail(R)
        /\ Head(R) \in Messages /\ Tail(R) \in Seq(Messages)
    BY <2>2, <2>3, WholeFacts
  <2>5. Head(R) \in Seq(Bytes) /\ Len(Head(R)) \in Nat \ {0}
    BY <2>4, MessageFacts
  <2>6. Head(x \o Head(R)) = Head(x) /\ Tail(x \o Head(R)) = Tail(x) \o Head(R)
    <3>1. x # << >>
      BY <2>3
    <3>2. Head(R) \in Seq(Bytes)
      BY <2>5
    <3> DEFINE v == Head(R)
    <3> HIDE DEF v
    <3>3. v \in Seq(Bytes)
      BY <3>2 DEF v
    <3>4. Head(x \o v) = Head(x) /\ Tail(x \o v) = Tail(x) \o v
      BY <3>1, <3>3, Front
    <3> QED BY <3>4 DEF v
  <2>7. Len(Head(D)) # 1
    <3>1. Len(x \o Head(R)) = Len(x) + Len(Head(R))
      BY <2>5, ConcatProperties
    <3>2. Len(x) \in Nat \ {0}
      BY <2>3, EmptySeq
    <3>3. Len(x) + Len(Head(R)) # 1
      BY <2>5, <3>2
    <3> QED BY <2>4, <3>1, <3>3
  <2>8. Shorter(D) = <<Tail(x) \o Head(R)>> \o Tail(R)
    <3>1. Shorter(D) = <<Tail(Head(D))>> \o Tail(D)
      BY <2>7 DEF Shorter
    <3> QED BY <2>4, <2>6, <3>1, Zenon
  <2>9. Tail(x) \in Seq(Bytes)
    BY <2>3, HeadTailProperties
  <2>10. Whole(Tail(x), R) = Shorter(D) /\ Whole(Tail(x), R) \in Seq(Messages)
    BY <2>3, <2>8, <2>9, WholeFacts
  <2>11. Fits(Tail(T), R, Shorter(D), << >>, Tail(x))
    <3>1. << >> \o Shorter(D) = Shorter(D)
      BY <2>10, ConcatEmptySeq
    <3>2. Flat(<< >>) = << >>
      BY Flat0
    <3>3. << >> \o Tail(x) = Tail(x)
      BY <2>9, ConcatEmptySeq
    <3> QED BY <2>1, <2>3, <2>10, <3>1, <3>2, <3>3, Zenon DEF Fits
  <2>12. Head(Head(D)) = Head(T)
    BY <2>1, <2>4, <2>6
  <2>13. << >> \in Seq(Messages)
    OBVIOUS
  <2> QED BY <2>3, <2>4, <2>9, <2>11, <2>12, <2>13
<1>3. CASE E # << >>
  <2> DEFINE m == Head(E)
             e == Tail(E)
             r == Flat(e) \o x
  <2>1. /\ Flat(E) = m \o Flat(e) /\ m \in Messages
        /\ e \in Seq(Messages) /\ Flat(e) \in Seq(Bytes)
    BY <1>3, FlatSplit
  <2>2. /\ m \in Seq(Bytes) /\ m # << >> /\ Tail(m) \in Seq(Bytes)
        /\ Len(m) = 1 => Tail(m) = << >>
        /\ Len(m) # 1 => Tail(m) \in Messages
    BY <2>1, MessageFacts
  <2>3. D # << >> /\ Head(D) = m /\ Tail(D) = e \o W
    <3>1. /\ E \o W # << >> /\ Head(E \o W) = Head(E)
          /\ Tail(E \o W) = Tail(E) \o W
      <4>1. W \in Seq(Messages)
        BY <1>1
      <4> HIDE DEF W
      <4> QED BY <1>3, <4>1, Front, Zenon
    <3>2. D = E \o W
      BY <1>1
    <3> HIDE DEF W
    <3> QED BY <3>1, <3>2, Zenon
  <2>4. r \in Seq(Bytes)
    BY <2>1, Behind
  <2>5. T = m \o r
    <3>1. (m \o Flat(e)) \o x = m \o (Flat(e) \o x)
      BY <2>1, <2>2, Assoc
    <3> QED BY <1>1, <2>1, <3>1, Zenon
  <2> HIDE DEF m, e, r
  <2>6. Head(T) = Head(m) /\ Tail(T) = Tail(m) \o r
    <3>1. Head(m \o r) = Head(m) /\ Tail(m \o r) = Tail(m) \o r
      BY <2>2, <2>4, Front, Zenon
    <3> QED BY <2>5, <3>1, Zenon
  <2>7. ASSUME Len(m) = 1
        PROVE  Fits(Tail(T), R, Shorter(D), e, x)
    <3>1. Shorter(D) = e \o W
      BY <2>3, <2>7 DEF Shorter
    <3>2. Tail(T) = r
      <4>1. << >> \o r = r
        BY <2>4, ConcatEmptySeq
      <4> QED BY <2>2, <2>6, <2>7, <4>1
    <3>3. R = << >> => x = << >>
      BY DEF Fits
    <3> QED BY <3>1, <3>2, <3>3, Zenon DEF Fits, W, r
  <2>8. ASSUME Len(m) # 1
        PROVE  /\ <<Tail(m)>> \o e \in Seq(Messages)
               /\ Fits(Tail(T), R, Shorter(D), <<Tail(m)>> \o e, x)
    <3> DEFINE E2 == <<Tail(m)>> \o e
    <3>1. Shorter(D) = <<Tail(m)>> \o (e \o W)
      BY <2>3, <2>8 DEF Shorter
    <3>2. <<Tail(m)>> \in Seq(Messages)
      BY <2>2, <2>8, Single
    <3>3. Shorter(D) = E2 \o W
      <4>1. (<<Tail(m)>> \o e) \o W = <<Tail(m)>> \o (e \o W)
        BY <1>1, <2>1, <3>2, AssocM
      <4> QED BY <3>1, <4>1, Zenon
    <3>4. E2 = Shorter(E) /\ E2 \in Seq(Messages) /\ E2 # << >>
          /\ Head(E2) = Tail(m) /\ Tail(E2) = e /\ Len(E2) <= Len(E)
      BY <1>3, <2>8, ShorterFacts DEF m, e
    <3>5. Len(E2) <= 3
      <4> DEFINE n == Len(E)
                 k == Len(E2)
      <4>1. n \in Nat /\ k \in Nat /\ n <= 3 /\ k <= n
        BY <3>4, LenProperties
      <4> HIDE DEF n, k
      <4>2. k <= 3
        BY <4>1
      <4> QED BY <4>2 DEF k
    <3> HIDE DEF E2
    <3>6. Flat(E2) = Tail(m) \o Flat(e)
      BY <3>4, <3>5, FlatSplit
    <3>7. Tail(T) = Flat(E2) \o x
      <4>1. (Tail(m) \o Flat(e)) \o x = Tail(m) \o (Flat(e) \o x)
        BY <2>1, <2>2, Assoc
      <4> QED BY <2>6, <3>6, <4>1, Zenon DEF r
    <3>8. R = << >> => x = << >>
      BY DEF Fits
    <3>9. Fits(Tail(T), R, Shorter(D), E2, x)
      BY <3>3, <3>7, <3>8, Zenon DEF Fits, W
    <3> QED BY <3>4, <3>9 DEF E2
  <2> QED BY <2>1, <2>3, <2>6, <2>7, <2>8
<1> QED BY <1>2, <1>3

\* The answers to the frames not accepted yet.
LEMMA AnswersType ==
  ASSUME NEW p \in Seq(Frames)
  PROVE  /\ Answers(p) \in Seq(Messages) /\ Len(Answers(p)) = Len(p)
         /\ \A i \in 1 .. Len(p) : Answers(p)[i] = Answer(p[i])
<1>1. Len(p) \in Nat /\ \A i \in 1 .. Len(p) : Answer(p[i]) \in Messages
  BY LenProperties, ElementOfSeq, FrameFacts
<1> DEFINE n == Len(p)
           a == [i \in 1 .. n |-> Answer(p[i])]
<1>2. n \in Nat /\ \A i \in 1 .. n : Answer(p[i]) \in Messages
  BY <1>1
<1>3. Answers(p) = a
  BY DEF Answers
<1> HIDE DEF n
<1>4. a \in [1 .. n -> Messages]
  BY <1>2
<1>5. a \in Seq(Messages) /\ Len(a) = n
  BY <1>2, <1>4
<1> QED BY <1>3, <1>5 DEF n

\* The reply to the first frame is the first reply.
LEMMA AnswersFront ==
  ASSUME NEW p \in Seq(Frames), p # << >>
  PROVE  Answers(p) = <<Answer(Head(p))>> \o Answers(Tail(p))
<1> DEFINE a == Answers(p)
           t == Answers(Tail(p))
           h == <<Answer(Head(p))>>
           n == Len(p)
<1>1. n \in Nat \ {0} /\ a \in Seq(Messages) /\ Len(a) = n
  BY AnswersType, EmptySeq
<1>2. \A i \in 1 .. n : a[i] = Answer(p[i])
  BY AnswersType
<1>3. /\ Head(p) \in Frames /\ Head(p) = p[1] /\ Tail(p) \in Seq(Frames)
      /\ Len(Tail(p)) = n - 1 /\ \A i \in 1 .. n - 1 : Tail(p)[i] = p[i + 1]
  BY HeadTailProperties
<1>4. t \in Seq(Messages) /\ Len(t) = n - 1
  BY <1>3, AnswersType
<1>5. \A i \in 1 .. n - 1 : t[i] = Answer(p[i + 1])
  <2>1. \A i \in 1 .. Len(Tail(p)) : t[i] = Answer(Tail(p)[i])
    <3>1. Tail(p) \in Seq(Frames)
      BY <1>3
    <3> QED BY <3>1, AnswersType
  <2>2. Len(Tail(p)) = n - 1 /\ \A i \in 1 .. n - 1 : Tail(p)[i] = p[i + 1]
    BY <1>3
  <2> HIDE DEF t, n
  <2> QED BY <2>1, <2>2
<1>6. Answer(Head(p)) \in Messages
  BY <1>3, FrameFacts
<1>7. h \in Seq(Messages) /\ Len(h) = 1 /\ h[1] = Answer(p[1])
  BY <1>3, <1>6
<1> HIDE DEF a, t, h, n
<1> DEFINE c == h \o t
<1> HIDE DEF c
<1>8. /\ c \in Seq(Messages) /\ Len(c) = Len(h) + Len(t)
      /\ \A i \in 1 .. Len(h) + Len(t) : c[i] = IF i <= Len(h) THEN h[i] ELSE t[i - Len(h)]
  BY <1>4, <1>7, ConcatProperties DEF c
<1>9. Len(c) = n /\ \A i \in 1 .. n : c[i] = IF i <= 1 THEN h[i] ELSE t[i - 1]
  BY <1>1, <1>4, <1>7, <1>8
<1>10. \A i \in 1 .. n : a[i] = c[i]
  <2> SUFFICES ASSUME NEW i \in 1 .. n PROVE a[i] = c[i]
    OBVIOUS
  <2>1. CASE i = 1
    <3>1. c[1] = h[1]
      BY <1>1, <1>9
    <3> QED BY <1>2, <1>7, <2>1, <3>1
  <2>2. CASE i # 1
    <3>1. i - 1 \in 1 .. n - 1 /\ (i - 1) + 1 = i /\ ~(i <= 1)
      BY <1>1, <2>2
    <3>2. c[i] = t[i - 1]
      BY <1>9, <3>1
    <3>3. t[i - 1] = Answer(p[(i - 1) + 1])
      BY <1>5, <3>1
    <3> QED BY <1>2, <3>1, <3>2, <3>3
  <2> QED BY <2>1, <2>2
<1>11. Len(a) = Len(c) /\ \A i \in 1 .. Len(a) : a[i] = c[i]
  BY <1>1, <1>9, <1>10
<1>12. a = c
  BY <1>1, <1>8, <1>11, SeqEqual
<1> QED BY <1>12 DEF a, c, h, t

\* The reply to one more frame is one more reply.
LEMMA AnswersBack ==
  ASSUME NEW p \in Seq(Frames), NEW f \in Frames
  PROVE  Answers(p \o <<f>>) = Answers(p) \o <<Answer(f)>>
<1> DEFINE q == p \o <<f>>
           a == Answers(q)
           t == Answers(p)
           h == <<Answer(f)>>
           n == Len(p)
<1>1. n \in Nat /\ <<f>> \in Seq(Frames) /\ Len(<<f>>) = 1 /\ <<f>>[1] = f
  BY LenProperties, Single
<1>2. /\ q \in Seq(Frames) /\ Len(q) = n + 1
      /\ \A i \in 1 .. n + 1 : q[i] = IF i <= n THEN p[i] ELSE <<f>>[i - n]
  BY <1>1, ConcatProperties
<1> HIDE DEF q
<1>3. /\ a \in Seq(Messages) /\ Len(a) = n + 1
      /\ \A i \in 1 .. n + 1 : a[i] = Answer(q[i])
  BY <1>2, AnswersType
<1>4. t \in Seq(Messages) /\ Len(t) = n
  BY AnswersType
<1>5. \A i \in 1 .. n : t[i] = Answer(p[i])
  BY AnswersType
<1>6. Answer(f) \in Messages
  BY FrameFacts
<1>7. h \in Seq(Messages) /\ Len(h) = 1 /\ h[1] = Answer(f)
  BY <1>6
<1> HIDE DEF a, t, h, n
<1> DEFINE c == t \o h
<1> HIDE DEF c
<1>8. /\ c \in Seq(Messages) /\ Len(c) = n + 1
      /\ \A i \in 1 .. n + 1 : c[i] = IF i <= n THEN t[i] ELSE h[i - n]
  <2>1. /\ c \in Seq(Messages) /\ Len(c) = Len(t) + Len(h)
        /\ \A i \in 1 .. Len(t) + Len(h) : c[i] = IF i <= Len(t) THEN t[i] ELSE h[i - Len(t)]
    BY <1>4, <1>7, ConcatProperties DEF c
  <2> QED BY <1>4, <1>7, <2>1
<1>9. \A i \in 1 .. n + 1 : a[i] = c[i]
  <2> SUFFICES ASSUME NEW i \in 1 .. n + 1 PROVE a[i] = c[i]
    OBVIOUS
  <2>1. a[i] = Answer(q[i])
    BY <1>3
  <2>2. CASE i <= n
    <3>1. i \in 1 .. n
      BY <1>1, <2>2
    <3>2. q[i] = p[i] /\ c[i] = t[i]
      BY <1>2, <1>8, <2>2
    <3> QED BY <1>5, <2>1, <3>1, <3>2
  <2>3. CASE ~(i <= n)
    <3>1. i - n = 1
      BY <1>1, <2>3
    <3>2. q[i] = <<f>>[i - n] /\ c[i] = h[i - n]
      BY <1>2, <1>8, <2>3
    <3>3. q[i] = f /\ c[i] = Answer(f)
      BY <1>1, <1>7, <3>1, <3>2
    <3> QED BY <2>1, <3>3
  <2> QED BY <2>2, <2>3
<1>10. Len(a) = Len(c) /\ \A i \in 1 .. Len(a) : a[i] = c[i]
  BY <1>3, <1>8, <1>9
<1>11. a = c
  BY <1>3, <1>8, <1>10, SeqEqual
<1> QED BY <1>11 DEF a, c, h, t, q

\* Only the first reply gets shorter, whatever is behind.
LEMMA ShorterFront ==
  ASSUME NEW s \in Seq(Messages), s # << >>, NEW t \in Seq(Messages)
  PROVE  /\ s \o t # << >> /\ Head(s \o t) = Head(s)
         /\ Shorter(s \o t) = Shorter(s) \o t
<1>1. /\ s \o t # << >> /\ Head(s \o t) = Head(s) /\ Tail(s \o t) = Tail(s) \o t
  BY Front, Zenon
<1>2. CASE Len(Head(s)) = 1
  <2>1. Shorter(s) = Tail(s)
    BY <1>2 DEF Shorter
  <2>2. Shorter(s \o t) = Tail(s \o t)
    BY <1>1, <1>2 DEF Shorter
  <2> QED BY <1>1, <2>1, <2>2, Zenon
<1>3. CASE Len(Head(s)) # 1
  <2> DEFINE h == <<Tail(Head(s))>>
             r == Tail(s)
  <2>1. /\ Tail(Head(s)) \in Messages /\ r \in Seq(Messages)
        /\ Shorter(s) = h \o r
    BY <1>3, ShorterFacts
  <2>2. h \in Seq(Messages)
    BY <2>1, Single
  <2>3. Shorter(s \o t) = <<Tail(Head(s \o t))>> \o Tail(s \o t)
    BY <1>1, <1>3, Zenon DEF Shorter
  <2>4. Shorter(s \o t) = h \o (r \o t)
    BY <1>1, <2>3, Zenon
  <2> HIDE DEF h, r
  <2>5. (h \o r) \o t = h \o (r \o t)
    <3>1. r \in Seq(Messages)
      BY <2>1
    <3> QED BY <2>2, <3>1, AssocM
  <2>6. Shorter(s \o t) = Shorter(s) \o t
    BY <2>1, <2>4, <2>5, Zenon
  <2> QED BY <1>1, <2>6
<1> QED BY <1>2, <1>3

----------------------------------------------------------------------------
(* The line of the host: one cycle. *)

HostTypes ==
  /\ partial \in Seq(Bytes) /\ arrived \in Seq(Bytes) /\ emitted \in Seq(Bytes)
  /\ replies \in Seq(Messages) /\ due \in Seq(Messages)

Serving(p, b, y, E, x) ==
  /\ Flow(partial, arrived, p, b, y)
  /\ Fits(emitted, replies \o Answers(p), due, E, x)
  /\ replies = << >> => x = << >>

accepts(done) == Pipeline!may_accept /\ (replies = << >> \/ done)

\* The pipeline at an edge outside reset.
LEMMA PipelineStep ==
  ASSUME NEW b, NEW done, Clock(b, done), Emit, ~datapath_reset
  PROVE  /\ partial' = IF accepts(done) THEN << >>
                       ELSE partial \o (IF taken_by_pipeline THEN <<Head(rx_queue)>> ELSE << >>)
         /\ replies' = (IF emitted_by_pipeline THEN Shorter(replies) ELSE replies)
                         \o (IF accepts(done) /\ Answer(partial) # << >>
                             THEN <<Answer(partial)>> ELSE << >>)
         /\ emitted' = After(emitted, taken_by_transmitter)
                         \o (IF emitted_by_pipeline THEN <<Head(Head(replies))>> ELSE << >>)
         /\ accepts(done) => IsFrame(partial)
         /\ taken_by_pipeline => rx_queue # << >> /\ ~IsFrame(partial)
         /\ emitted_by_pipeline => replies # << >>
<1>1. Pipeline!Clock(rx_fifo_valid, Head(rx_queue), pipeline_ready, done)
  BY DEF Clock, DatapathClock
<1>2. /\ partial' = IF accepts(done) THEN << >>
                    ELSE partial \o (IF taken_by_pipeline THEN <<Head(rx_queue)>> ELSE << >>)
      /\ replies' = (IF emitted_by_pipeline THEN Shorter(replies) ELSE replies)
                      \o (IF accepts(done) /\ Answer(partial) # << >>
                          THEN <<Answer(partial)>> ELSE << >>)
  BY <1>1 DEF Pipeline!Clock, Pipeline!Edge, Pipeline!Remaining, Shorter, accepts,
     taken_by_pipeline, emitted_by_pipeline
<1>3. emitted' = After(emitted, taken_by_transmitter)
                   \o (IF emitted_by_pipeline THEN <<Head(Head(replies))>> ELSE << >>)
  BY Zenon DEF Emit, Pipeline!out_data
<1>4. accepts(done) => IsFrame(partial)
  BY DEF accepts, Pipeline!may_accept, Pipeline!complete
<1>5. taken_by_pipeline => rx_queue # << >> /\ ~IsFrame(partial)
  BY DEF taken_by_pipeline, rx_fifo_valid, RxFifo!output_valid, Pipeline!in_ready, Pipeline!complete
<1>6. emitted_by_pipeline => replies # << >>
  BY DEF emitted_by_pipeline, Pipeline!out_valid
<1> QED BY <1>2, <1>3, <1>4, <1>5, <1>6

\* The byte that the pipeline takes is the first of those that arrived.
LEMMA OldestTaken ==
  ASSUME IInv, ~reset_sync, arrived \in Seq(Bytes), rx_queue # << >>
  PROVE  arrived # << >> /\ Head(arrived) = Head(rx_queue)
<1>1. rx_queue \in Seq(Bytes) /\ output_data \in Bytes /\ arrived = rx_queue \o held
  BY DEF IInv, ReceptionTypes, BytesKept
<1>2. held \in Seq(Bytes)
  <2>1. << >> \in Seq(Bytes) /\ <<output_data>> \in Seq(Bytes)
    BY <1>1, Single
  <2> QED BY <2>1 DEF held
<1> HIDE DEF held
<1>3. rx_queue \o held # << >> /\ Head(rx_queue \o held) = Head(rx_queue)
  BY <1>1, <1>2, Front
<1> QED BY <1>1, <1>3

\* The frames in order, over a cycle in which no byte ends.
LEMMA FlowStep ==
  ASSUME IInv, HostTypes, ~datapath_reset,
         NEW v, NEW done, Clock(v, done), Emit,
         NEW p \in Seq(Frames), Len(p) <= 3, NEW b \in Seq(Bytes), Begun(b),
         NEW y \in Seq(Bytes), Flow(partial, arrived, p, b, y)
  PROVE  LET kept == After(arrived, taken_by_pipeline)
             left == IF emitted_by_pipeline THEN Shorter(replies) ELSE replies
         IN  /\ kept \in Seq(Bytes) /\ partial' \in Seq(Bytes)
             /\ left \in Seq(Messages) /\ replies' \in Seq(Messages)
             /\ \E q \in Seq(Frames), z \in Seq(Bytes) :
                  /\ Len(q) <= 3
                  /\ Flow(partial', kept, q, b, z)
                  /\ replies' \o Answers(q) = left \o Answers(p)
<1> DEFINE kept == After(arrived, taken_by_pipeline)
           left == IF emitted_by_pipeline THEN Shorter(replies) ELSE replies
           acc == accepts(done)
<1>1. /\ partial' = IF acc THEN << >>
                    ELSE partial \o (IF taken_by_pipeline THEN <<Head(rx_queue)>> ELSE << >>)
      /\ replies' = left \o (IF acc /\ Answer(partial) # << >> THEN <<Answer(partial)>> ELSE << >>)
      /\ acc => IsFrame(partial)
      /\ taken_by_pipeline => rx_queue # << >> /\ ~IsFrame(partial)
      /\ emitted_by_pipeline => replies # << >>
  BY PipelineStep
<1>2. /\ partial \in Seq(Bytes) /\ arrived \in Seq(Bytes) /\ replies \in Seq(Messages)
  BY DEF HostTypes
<1>3. left \in Seq(Messages)
  <2>1. CASE emitted_by_pipeline
    BY <1>1, <1>2, <2>1, ShorterFacts
  <2>2. CASE ~emitted_by_pipeline
    BY <1>2, <2>2
  <2> QED BY <2>1, <2>2
<1>4. IsFrame(partial) <=> p # << >> /\ partial = Head(p)
  BY <1>2, FlowComplete
<1>5. ~reset_sync
  BY DEF datapath_reset
<1> HIDE DEF left, acc
<1>6. CASE acc
  <2>1. p # << >> /\ partial = Head(p) /\ ~taken_by_pipeline
    BY <1>1, <1>4, <1>6
  <2>2. kept = arrived
    BY <2>1 DEF After
  <2> HIDE DEF kept
  <2>3. /\ Head(p) \in Frames /\ Tail(p) \in Seq(Frames) /\ Len(Tail(p)) = Len(p) - 1
        /\ Len(p) \in 1 .. 3
    BY <2>1, BehindFirst
  <2>4. Flow(Head(p), arrived, p, b, y)
    BY <2>1
  <2>5. \E z \in Seq(Bytes) : Flow(<< >>, arrived, Tail(p), b, z)
    BY <1>2, <2>1, <2>4, FlowAccept
  <2>6. partial' = << >> /\ replies' = left \o <<Answer(partial)>>
    BY <1>1, <1>6, <2>1, <2>3, AnswersAssumption
  <2>7. Answer(partial) \in Messages
    BY <2>1, <2>3, FrameFacts
  <2>8. <<Answer(partial)>> \in Seq(Messages)
    BY <2>7, Single
  <2>9. replies' \in Seq(Messages)
    BY <1>3, <2>6, <2>8, ConcatProperties
  <2>10. replies' \o Answers(Tail(p)) = left \o Answers(p)
    <3>1. Answers(p) = <<Answer(partial)>> \o Answers(Tail(p))
      BY <2>1, AnswersFront
    <3>2. Answers(Tail(p)) \in Seq(Messages)
      BY <2>3, AnswersType
    <3>3. (left \o <<Answer(partial)>>) \o Answers(Tail(p)) = left \o (<<Answer(partial)>> \o Answers(Tail(p)))
      BY <1>3, <2>8, <3>2, AssocM
    <3> QED BY <2>6, <3>1, <3>3, Zenon
  <2>11. Len(Tail(p)) <= 3
    BY <2>3
  <2>12. partial' \in Seq(Bytes) /\ kept \in Seq(Bytes)
    BY <1>2, <2>2, <2>6
  <2> QED BY <1>3, <2>2, <2>3, <2>5, <2>6, <2>9, <2>10, <2>11, <2>12 DEF kept, left
<1>7. CASE ~acc
  <2>1. replies' = left
    <3>1. replies' = left \o << >>
      BY <1>1, <1>7
    <3> QED BY <1>3, <3>1, ConcatEmptySeq
  <2>2. CASE taken_by_pipeline
    <3>1. arrived # << >> /\ Head(arrived) = Head(rx_queue)
      BY <1>1, <1>2, <1>5, <2>2, OldestTaken
    <3>2. kept = Tail(arrived)
      BY <2>2, <3>1 DEF After
    <3>3. partial' = partial \o <<Head(arrived)>>
      BY <1>1, <1>7, <2>2, <3>1
    <3>4. p # << >> => partial # Head(p)
      BY <1>1, <1>4, <2>2
    <3>5. \E z \in Seq(Bytes) : Flow(partial \o <<Head(arrived)>>, Tail(arrived), p, b, z)
      BY <1>2, <3>1, <3>4, FlowTake
    <3>6. partial \o <<Head(arrived)>> \in Seq(Bytes) /\ Tail(arrived) \in Seq(Bytes)
      BY <1>2, <3>1, GoesOver
    <3> HIDE DEF kept
    <3>7. /\ kept \in Seq(Bytes) /\ partial' \in Seq(Bytes)
          /\ \E z \in Seq(Bytes) : Flow(partial', kept, p, b, z)
      BY <3>2, <3>3, <3>5, <3>6
    <3>8. replies' \in Seq(Messages) /\ replies' \o Answers(p) = left \o Answers(p)
      BY <1>3, <2>1
    <3> QED BY <1>3, <3>7, <3>8 DEF kept, left
  <2>3. CASE ~taken_by_pipeline
    <3>1. kept = arrived
      BY <2>3 DEF After
    <3>2. partial' = partial
      <4>1. partial' = partial \o << >>
        BY <1>1, <1>7, <2>3
      <4> QED BY <1>2, <4>1, ConcatEmptySeq
    <3> HIDE DEF kept
    <3>3. Flow(partial', kept, p, b, y)
      BY <3>1, <3>2
    <3>4. replies' \in Seq(Messages) /\ replies' \o Answers(p) = left \o Answers(p)
      BY <1>3, <2>1
    <3>5. kept \in Seq(Bytes) /\ partial' \in Seq(Bytes)
      BY <1>2, <3>1, <3>2
    <3> QED BY <1>3, <3>3, <3>4, <3>5 DEF kept, left
  <2> QED BY <2>2, <2>3
<1> QED BY <1>6, <1>7

\* The transmitter takes the first byte of the first reply that is due.
LEMMA FirstDue ==
  ASSUME IInv, HostTypes, NEW p \in Seq(Frames),
         NEW E \in Seq(Messages), NEW x \in Seq(Bytes), Len(due) <= 3,
         Fits(emitted, replies \o Answers(p), due, E, x), taken_by_transmitter
  PROVE  /\ ~datapath_reset /\ emitted # << >> /\ emitted = tx_queue
         /\ due # << >> /\ Head(tx_queue) = Head(Head(due))
         /\ \E E2 \in Seq(Messages), x2 \in Seq(Bytes) :
              /\ Fits(Tail(emitted), replies \o Answers(p), Shorter(due), E2, x2)
              /\ x = << >> => x2 = << >>
<1>1. ~datapath_reset /\ tx_queue # << >>
  BY DEF taken_by_transmitter, tx_fifo_valid, TxFifo!output_valid
<1>2. emitted = tx_queue
  BY <1>1 DEF IInv, BytesKept, datapath_reset
<1>3. due \in Seq(Messages) /\ replies \in Seq(Messages) /\ Answers(p) \in Seq(Messages)
  BY AnswersType DEF HostTypes
<1> DEFINE R == replies \o Answers(p)
<1>4. R \in Seq(Messages)
  BY <1>3, ConcatProperties
<1>5. Fits(emitted, R, due, E, x)
  OBVIOUS
<1> HIDE DEF R
<1>6. Len(E) <= 3
  <2> DEFINE d == Len(due)
             e == Len(E)
             r == Len(R)
  <2>1. d = e + r /\ e \in Nat /\ r \in Nat /\ d <= 3
    BY <1>3, <1>4, <1>5, FitsCount
  <2> HIDE DEF d, e, r
  <2>2. e <= 3
    BY <2>1
  <2> QED BY <2>2 DEF e
<1>7. emitted # << >>
  BY <1>1, <1>2
<1>8. /\ due # << >> /\ Head(Head(due)) = Head(emitted)
      /\ \E E2 \in Seq(Messages), x2 \in Seq(Bytes) :
           /\ Fits(Tail(emitted), R, Shorter(due), E2, x2)
           /\ x = << >> => x2 = << >>
  BY <1>3, <1>4, <1>5, <1>6, <1>7, FitsTake
<1> QED BY <1>1, <1>2, <1>7, <1>8 DEF R

\* The replies in order, over a cycle.
LEMMA FitsStep ==
  ASSUME IInv, HostTypes, ~datapath_reset,
         NEW v, NEW done, Clock(v, done), Emit,
         NEW p \in Seq(Frames), NEW E \in Seq(Messages), NEW x \in Seq(Bytes),
         Len(due) <= 3, Fits(emitted, replies \o Answers(p), due, E, x),
         replies = << >> => x = << >>
  PROVE  LET left == IF emitted_by_pipeline THEN Shorter(replies) ELSE replies
         IN  /\ Left \in Seq(Messages) /\ Len(Left) <= Len(due)
             /\ emitted' \in Seq(Bytes)
             /\ \E E2 \in Seq(Messages), x2 \in Seq(Bytes) :
                  /\ Fits(emitted', left \o Answers(p), Left, E2, x2)
                  /\ left = << >> => x2 = << >>
<1> DEFINE left == IF emitted_by_pipeline THEN Shorter(replies) ELSE replies
           mid == After(emitted, taken_by_transmitter)
           R == replies \o Answers(p)
<1>1. /\ emitted' = mid \o (IF emitted_by_pipeline THEN <<Head(Head(replies))>> ELSE << >>)
      /\ emitted_by_pipeline => replies # << >>
  BY PipelineStep
<1>2. /\ emitted \in Seq(Bytes) /\ replies \in Seq(Messages) /\ due \in Seq(Messages)
      /\ Answers(p) \in Seq(Messages)
  BY AnswersType DEF HostTypes
<1>3. R \in Seq(Messages)
  BY <1>2, ConcatProperties
<1>4. /\ mid \in Seq(Bytes) /\ Left \in Seq(Messages) /\ Len(Left) <= Len(due)
      /\ \E E1 \in Seq(Messages), x1 \in Seq(Bytes) :
           /\ Fits(mid, R, Left, E1, x1)
           /\ x = << >> => x1 = << >>
  <2>1. CASE taken_by_transmitter
    <3>1. /\ emitted # << >> /\ due # << >>
          /\ \E E2 \in Seq(Messages), x2 \in Seq(Bytes) :
               /\ Fits(Tail(emitted), R, Shorter(due), E2, x2)
               /\ x = << >> => x2 = << >>
      BY <2>1, FirstDue
    <3>2. mid = Tail(emitted)
      BY <2>1, <3>1 DEF After
    <3>3. Left = Shorter(due)
      BY <2>1, <3>1 DEF Left, Shorter
    <3>4. Tail(emitted) \in Seq(Bytes)
      BY <1>2, <3>1, HeadTailProperties
    <3>5. Shorter(due) \in Seq(Messages) /\ Len(Shorter(due)) <= Len(due)
      BY <1>2, <3>1, ShorterFacts
    <3> HIDE DEF mid, R
    <3> QED BY <3>1, <3>2, <3>3, <3>4, <3>5
  <2>2. CASE ~taken_by_transmitter
    <3>1. mid = emitted
      BY <2>2 DEF After
    <3>2. Left = due
      BY <2>2 DEF Left
    <3>3. Fits(emitted, R, due, E, x)
      OBVIOUS
    <3>4. Len(due) <= Len(due)
      BY <1>2, LenProperties
    <3> HIDE DEF mid, R
    <3> QED BY <1>2, <3>1, <3>2, <3>3, <3>4
  <2> QED BY <2>1, <2>2
<1>5. PICK E1 \in Seq(Messages), x1 \in Seq(Bytes) :
        Fits(mid, R, Left, E1, x1) /\ (x = << >> => x1 = << >>)
  BY <1>4
<1> HIDE DEF mid
<1>6. CASE emitted_by_pipeline
  <2> DEFINE h == <<Head(Head(replies))>>
  <2>1. replies # << >> /\ left = Shorter(replies) /\ emitted' = mid \o h
    BY <1>1, <1>6
  <2>2. /\ R # << >> /\ Head(R) = Head(replies)
        /\ Shorter(R) = Shorter(replies) \o Answers(p)
    BY <1>2, <2>1, ShorterFront
  <2>3. Head(replies) \in Messages
    BY <1>2, <2>1, ShorterFacts
  <2>4. h \in Seq(Bytes)
    <3>1. Head(Head(replies)) \in Bytes
      BY <2>3, MessageFacts
    <3> QED BY <3>1, Single
  <2>5. emitted' \in Seq(Bytes)
    <3>1. mid \in Seq(Bytes)
      BY <1>4
    <3> HIDE DEF h
    <3> QED BY <2>1, <2>4, <3>1, ConcatProperties
  <2> HIDE DEF R
  <2>6. Len(E1) <= 2
    <3> DEFINE d == Len(due)
               l == Len(Left)
               e == Len(E1)
               r == Len(R)
    <3>1. l = e + r /\ e \in Nat /\ r \in Nat
      BY <1>3, <1>5, FitsCount
    <3>2. l <= d /\ d <= 3 /\ d \in Nat
      BY <1>2, <1>4, LenProperties
    <3>3. r # 0
      BY <1>3, <2>2, EmptySeq
    <3> HIDE DEF d, l, e, r
    <3>4. e <= 2
      BY <3>1, <3>2, <3>3
    <3> QED BY <3>4 DEF e
  <2>7. PICK E2 \in Seq(Messages), x2 \in Seq(Bytes) :
          /\ Fits(mid \o <<Head(Head(R))>>, Shorter(R), Left, E2, x2)
          /\ Len(Head(R)) = 1 => x2 = << >>
    BY <1>3, <1>5, <2>2, <2>6, FitsLeave
  <2>8. mid \o <<Head(Head(R))>> = emitted' /\ Shorter(R) = left \o Answers(p)
    BY <2>1, <2>2
  <2> HIDE DEF left
  <2>9. Fits(emitted', left \o Answers(p), Left, E2, x2)
    BY <2>7, <2>8
  <2>10. left = << >> => x2 = << >>
    <3>1. Len(Head(replies)) # 1 => Shorter(replies) # << >>
      BY <1>2, <2>1, ShorterFacts
    <3> QED BY <2>1, <2>2, <2>7, <3>1
  <2> QED BY <1>4, <2>5, <2>9, <2>10 DEF left
<1>7. CASE ~emitted_by_pipeline
  <2>1. left = replies
    BY <1>7
  <2>2. emitted' = mid
    <3>1. emitted' = mid \o << >>
      BY <1>1, <1>7
    <3>2. mid \in Seq(Bytes)
      BY <1>4
    <3> QED BY <3>1, <3>2, ConcatEmptySeq
  <2> HIDE DEF left
  <2>3. Fits(emitted', left \o Answers(p), Left, E1, x1)
    BY <1>5, <2>1, <2>2 DEF R
  <2>4. left = << >> => x1 = << >>
    BY <1>5, <2>1
  <2>5. emitted' \in Seq(Bytes)
    BY <1>4, <2>2
  <2> QED BY <1>4, <2>3, <2>4, <2>5 DEF left
<1> QED BY <1>6, <1>7

----------------------------------------------------------------------------
(* The line of the host: the invariant. *)

\* Of the frame that is being sent, b has arrived.
Underway(b) ==
  IF unsent = << >> THEN b = << >>
  ELSE /\ unsent[1] \in Frames /\ unsent[2] \in Messages /\ unsent[2] \in Seq(Octet)
       /\ b \in Messages /\ b \o unsent[2] = unsent[1]

\* Three frames are outstanding at most.  When all that fits has arrived behind a
\* complete frame and no reply is before it in the pipeline, one is on its way
\* to the transmitter, or the frame goes in before another byte can end.
Room ==
  /\ Len(due) + (IF unsent = << >> THEN 0 ELSE 1) <= 3
  /\ Len(arrived) <= RX_FIFO_DEPTH
  /\ IsFrame(partial) /\ replies = << >> /\ Len(arrived) = RX_FIFO_DEPTH =>
       quiet < LINE_CYCLES \/ emitted # << >>

Clean ==
  /\ HostTypes /\ Room
  /\ \E p \in Seq(Frames), b \in Seq(Bytes), y \in Seq(Bytes),
        E \in Seq(Messages), x \in Seq(Bytes) :
       Len(p) <= 3 /\ Underway(b) /\ Serving(p, b, y, E, x)

Calm == ~reset_async /\ ~reset_sync_stage_1 /\ ~reset_sync_stage_2

HInv ==
  /\ IInv /\ Calm /\ overflow_error = FALSE /\ framing_error \in BOOLEAN
  /\ quiet \in 1 .. LINE_CYCLES
  /\ IF framing_error THEN unsent = << >> /\ ~output_valid /\ quiet = 1 ELSE Clean

\* There is room for the byte that the receiver holds.
LEMMA Accepted ==
  ASSUME IInv, Calm, ~framing_error, Len(arrived) <= RX_FIFO_DEPTH, output_valid
  PROVE  uart_rx_ready
<1>1. ~datapath_reset /\ ~reset_sync
  BY DEF Calm, datapath_reset, reset_sync
<1>2. rx_queue \in Seq(Bytes) /\ output_data \in Bytes /\ arrived = rx_queue \o <<output_data>>
  BY <1>1 DEF IInv, ReceptionTypes, BytesKept, held
<1> DEFINE n == Len(rx_queue)
           h == <<output_data>>
<1>3. n \in Nat /\ h \in Seq(Bytes) /\ Len(h) = 1
  BY <1>2, LenProperties, Single
<1>4. Len(rx_queue \o h) = n + Len(h)
  BY <1>2, <1>3, ConcatProperties
<1>5. n + 1 <= RX_FIFO_DEPTH /\ RX_FIFO_DEPTH \in Nat
  BY <1>2, <1>3, <1>4, HostAssumption
<1> HIDE DEF n, h
<1>6. n < RX_FIFO_DEPTH
  BY <1>3, <1>5
<1> QED BY <1>1, <1>6 DEF n, uart_rx_ready, RxFifo!input_ready

\* A cycle outside all resets.
LEMMA CalmCycle ==
  ASSUME IInv, Calm, ~framing_error, Len(arrived) <= RX_FIFO_DEPTH,
         NEW v \in Endings, NEW done, Cycle(v, done)
  PROVE  /\ Calm' /\ ~datapath_reset /\ Clock(v, done) /\ Emit
         /\ framing_error' = (v.ends /\ v.level = 0) /\ overflow_error' = FALSE
         /\ framing_error' => output_valid' = FALSE
         /\ arrived' = IF v.ends /\ v.level = 1
                       THEN Append(After(arrived, taken_by_pipeline), v.data)
                       ELSE After(arrived, taken_by_pipeline)
<1>1. Clock(v, done) /\ Emit /\ Arrive(v)
  BY DEF Cycle
<1>2. ~reset_sync /\ ~datapath_reset
  BY DEF Calm, reset_sync, datapath_reset
<1>3. Calm'
  BY <1>1 DEF Clock, Synchronise, Calm
<1>4. output_valid => uart_rx_ready
  BY Accepted
<1>5. /\ framing_error' = (v.ends /\ v.level = 0)
      /\ overflow_error' = (v.ends /\ v.level = 1 /\ output_valid /\ ~uart_rx_ready)
  BY <1>1, <1>2, ReportStep
<1>6. overflow_error' = FALSE
  BY <1>4, <1>5
<1>7. output_valid \in BOOLEAN /\ output_data \in Bytes
  BY DEF IInv, ReceptionTypes
<1>8. output_valid' = (v.ends /\ v.level = 1)
  <2>1. output_valid' = ((output_valid /\ ~uart_rx_ready)
          \/ (v.ends /\ v.level = 1 /\ ~(output_valid /\ ~uart_rx_ready)))
    BY <1>1, <1>2, <1>7, RegisterStep
  <2> QED BY <1>4, <2>1
<1>9. framing_error' => output_valid' = FALSE
  <2>1. framing_error' => v.level = 0
    BY <1>5
  <2>2. v.level = 0 => (v.ends /\ v.level = 1) = FALSE
    OBVIOUS
  <2> QED BY <1>8, <2>1, <2>2, Zenon
<1>10. arrived' = IF v.ends /\ v.level = 1
                  THEN Append(After(arrived, taken_by_pipeline), v.data)
                  ELSE After(arrived, taken_by_pipeline)
  BY <1>1, <1>2, <1>4 DEF Arrive
<1> QED BY <1>1, <1>2, <1>3, <1>5, <1>6, <1>9, <1>10

\* Nothing is taken from a full FIFO only while a frame is complete.
LEMMA Stuck ==
  ASSUME IInv, ~datapath_reset, arrived \in Seq(Bytes), Len(arrived) <= RX_FIFO_DEPTH,
         Len(After(arrived, taken_by_pipeline)) = RX_FIFO_DEPTH
  PROVE  IsFrame(partial) /\ ~taken_by_pipeline /\ Len(arrived) = RX_FIFO_DEPTH
<1> DEFINE n == Len(arrived)
           kept == After(arrived, taken_by_pipeline)
<1>1. n \in Nat /\ n <= RX_FIFO_DEPTH /\ RX_FIFO_DEPTH \in Nat /\ RX_FIFO_DEPTH >= 2
  BY LenProperties, HostAssumption
<1>2. kept = IF taken_by_pipeline /\ arrived # << >> THEN Tail(arrived) ELSE arrived
  BY DEF After
<1>3. Len(kept) = RX_FIFO_DEPTH
  OBVIOUS
<1> HIDE DEF kept
<1>4. ~(taken_by_pipeline /\ arrived # << >>)
  <2> SUFFICES ASSUME taken_by_pipeline /\ arrived # << >> PROVE FALSE
    OBVIOUS
  <2>1. Len(Tail(arrived)) = n - 1
    BY HeadTailProperties
  <2>2. n - 1 = RX_FIFO_DEPTH
    BY <1>2, <1>3, <2>1
  <2> HIDE DEF n
  <2> QED BY <1>1, <2>2
<1>5. n = RX_FIFO_DEPTH
  BY <1>2, <1>3, <1>4
<1>6. rx_queue # << >>
  <2> SUFFICES ASSUME rx_queue = << >> PROVE FALSE
    OBVIOUS
  <2>1. arrived = << >> \o held /\ output_data \in Bytes
    BY DEF IInv, ReceptionTypes, BytesKept, datapath_reset
  <2>2. held \in Seq(Bytes) /\ Len(held) <= 1
    <3>1. << >> \in Seq(Bytes) /\ <<output_data>> \in Seq(Bytes)
      BY <2>1, Single
    <3>2. Len(<<output_data>>) <= 1 /\ Len(<< >>) <= 1
      OBVIOUS
    <3>3. held = <<output_data>> \/ held = << >>
      BY DEF held
    <3> QED BY <3>1, <3>2, <3>3, Zenon
  <2> HIDE DEF held
  <2>3. arrived = held
    BY <2>1, <2>2, ConcatEmptySeq
  <2>4. n <= 1
    BY <2>2, <2>3
  <2> HIDE DEF n
  <2> QED BY <1>1, <1>5, <2>4
<1>7. arrived # << >>
  <2>1. n # 0
    BY <1>1, <1>5
  <2> QED BY <2>1
<1>8. ~taken_by_pipeline
  BY <1>4, <1>7
<1>9. IsFrame(partial)
  BY <1>6, <1>8 DEF taken_by_pipeline, rx_fifo_valid, RxFifo!output_valid,
     Pipeline!in_ready, Pipeline!complete
<1> QED BY <1>5, <1>8, <1>9

\* The part of Room that a cycle without the end of a byte keeps.
LEMMA StuckCycle ==
  ASSUME IInv, HostTypes, Room, ~datapath_reset, quiet \in 1 .. LINE_CYCLES,
         NEW v, NEW done, Clock(v, done), Emit,
         After(arrived, taken_by_pipeline) \in Seq(Bytes),
         After(emitted, taken_by_transmitter) \in Seq(Bytes),
         IsFrame(partial'), replies' = << >>,
         Len(After(arrived, taken_by_pipeline)) = RX_FIFO_DEPTH
  PROVE  emitted' # << >>
<1> DEFINE left == IF emitted_by_pipeline THEN Shorter(replies) ELSE replies
           mid == After(emitted, taken_by_transmitter)
<1>1. IsFrame(partial)
  BY Stuck DEF HostTypes, Room
<1>2. /\ accepts(done) => partial' = << >>
      /\ replies' = left \o (IF accepts(done) /\ Answer(partial) # << >>
                             THEN <<Answer(partial)>> ELSE << >>)
      /\ emitted' = mid \o (IF emitted_by_pipeline THEN <<Head(Head(replies))>> ELSE << >>)
      /\ emitted_by_pipeline => replies # << >>
  BY PipelineStep
<1>3. ~accepts(done)
  BY <1>2, HostAssumption
<1>4. replies # << >>
  BY <1>1, <1>3 DEF accepts, Pipeline!may_accept, Pipeline!complete
<1>5. replies \in Seq(Messages)
  BY DEF HostTypes
<1>6. emitted_by_pipeline
  <2> SUFFICES ASSUME ~emitted_by_pipeline PROVE FALSE
    OBVIOUS
  <2>1. replies' = replies \o << >>
    BY <1>2, <1>3
  <2>2. replies' = replies
    BY <1>5, <2>1, ConcatEmptySeq
  <2> QED BY <1>4, <2>2
<1>7. emitted' = mid \o <<Head(Head(replies))>>
  BY <1>2, <1>6
<1>8. <<Head(Head(replies))>> \in Seq(Bytes)
  <2>1. Head(replies) \in Messages
    BY <1>4, <1>5, ShorterFacts
  <2>2. Head(Head(replies)) \in Bytes
    BY <2>1, MessageFacts
  <2> QED BY <2>2, Single
<1> DEFINE h == <<Head(Head(replies))>>
<1>9. h # << >> /\ h \in Seq(Bytes) /\ mid \in Seq(Bytes) /\ emitted' = mid \o h
  BY <1>7, <1>8
<1> HIDE DEF h, mid
<1> QED BY <1>9, ConcatEqualIffEmpty

\* When a byte of the host ends there is room for it.
LEMMA RoomForByte ==
  ASSUME IInv, HostTypes, Room, ~datapath_reset, quiet = LINE_CYCLES, Len(due) <= 2,
         NEW p \in Seq(Frames), Len(p) <= 3, NEW b \in Seq(Bytes), Begun(b),
         NEW y \in Seq(Bytes), NEW E \in Seq(Messages), NEW x \in Seq(Bytes),
         Serving(p, b, y, E, x)
  PROVE  Len(After(arrived, taken_by_pipeline)) # RX_FIFO_DEPTH
<1> SUFFICES ASSUME Len(After(arrived, taken_by_pipeline)) = RX_FIFO_DEPTH PROVE FALSE
  OBVIOUS
<1>1. /\ partial \in Seq(Bytes) /\ arrived \in Seq(Bytes) /\ replies \in Seq(Messages)
      /\ Len(arrived) <= RX_FIFO_DEPTH
  BY DEF HostTypes, Room
<1>2. IsFrame(partial) /\ Len(arrived) = RX_FIFO_DEPTH
  BY <1>1, Stuck
<1>3. Flow(partial, arrived, p, b, y)
  BY DEF Serving
<1>4. p # << >> /\ partial = Head(p)
  BY <1>1, <1>2, <1>3, FlowComplete
<1>5. Len(p) >= 2
  BY <1>1, <1>2, <1>3, <1>4, Crowded
<1> DEFINE R == replies \o Answers(p)
<1>6. Answers(p) \in Seq(Messages) /\ Len(Answers(p)) = Len(p)
  BY AnswersType
<1>7. R \in Seq(Messages) /\ Len(R) = Len(replies) + Len(p)
  <2> DEFINE a == Answers(p)
  <2>1. a \in Seq(Messages) /\ Len(a) = Len(p) /\ replies \in Seq(Messages)
    BY <1>1, <1>6
  <2>2. R = replies \o a
    OBVIOUS
  <2> HIDE DEF a, R
  <2>3. replies \o a \in Seq(Messages) /\ Len(replies \o a) = Len(replies) + Len(a)
    BY <2>1, ConcatProperties
  <2> QED BY <2>1, <2>2, <2>3
<1>8. Fits(emitted, R, due, E, x) /\ (replies = << >> => x = << >>)
  BY DEF Serving
<1> HIDE DEF R
<1>9. Len(E) = 0 /\ Len(replies) = 0
  <2> DEFINE d == Len(due)
             e == Len(E)
             r == Len(R)
             s == Len(replies)
             k == Len(p)
  <2>1. d = e + r /\ e \in Nat /\ r \in Nat
    BY <1>7, <1>8, FitsCount
  <2>2. r = s + k /\ s \in Nat /\ k \in Nat /\ k >= 2 /\ d <= 2
    BY <1>1, <1>5, <1>7, LenProperties
  <2> HIDE DEF d, e, r, s, k
  <2>3. e = 0 /\ s = 0
    BY <2>1, <2>2
  <2> QED BY <2>3 DEF e, s
<1>10. E = << >> /\ replies = << >>
  BY <1>1, <1>9, EmptySeq
<1>11. x = << >> /\ emitted = Flat(E) \o x
  BY <1>8, <1>10 DEF Fits
<1>12. emitted = << >>
  <2>1. Flat(E) = << >>
    BY <1>9, Flat0
  <2>2. << >> \o << >> = << >>
    BY ConcatEmptySeq
  <2> QED BY <1>11, <2>1, <2>2
<1>13. quiet < LINE_CYCLES \/ emitted # << >>
  BY <1>2, <1>10 DEF Room
<1> QED BY <1>12, <1>13, HostAssumption

\* The FIFO after a cycle, before the byte that ends in it.
LEMMA KeptCount ==
  ASSUME arrived \in Seq(Bytes), Len(arrived) <= RX_FIFO_DEPTH
  PROVE  /\ After(arrived, taken_by_pipeline) \in Seq(Bytes)
         /\ Len(After(arrived, taken_by_pipeline)) <= RX_FIFO_DEPTH
<1>1. CASE taken_by_pipeline /\ arrived # << >>
  <2>1. After(arrived, taken_by_pipeline) = Tail(arrived)
    BY <1>1 DEF After
  <2>2. Tail(arrived) \in Seq(Bytes) /\ Len(Tail(arrived)) = Len(arrived) - 1
    BY <1>1, HeadTailProperties
  <2>3. Len(arrived) \in Nat /\ RX_FIFO_DEPTH \in Nat
    BY LenProperties, HostAssumption
  <2>4. Len(arrived) - 1 <= RX_FIFO_DEPTH
    BY <2>3
  <2> QED BY <2>1, <2>2, <2>4
<1>2. CASE ~(taken_by_pipeline /\ arrived # << >>)
  BY <1>2 DEF After
<1> QED BY <1>1, <1>2

\* What a cycle outside all resets leaves, up to the byte that ends in it.
Kept(b) ==
  /\ After(arrived, taken_by_pipeline) \in Seq(Bytes)
  /\ Len(After(arrived, taken_by_pipeline)) <= RX_FIFO_DEPTH
  /\ After(emitted, taken_by_transmitter) \in Seq(Bytes)
  /\ partial' \in Seq(Bytes) /\ emitted' \in Seq(Bytes)
  /\ replies' \in Seq(Messages) /\ Left \in Seq(Messages) /\ Len(Left) <= Len(due)
  /\ \E p \in Seq(Frames), y \in Seq(Bytes), E \in Seq(Messages), x \in Seq(Bytes) :
       /\ Len(p) <= 3
       /\ Flow(partial', After(arrived, taken_by_pipeline), p, b, y)
       /\ Fits(emitted', replies' \o Answers(p), Left, E, x)
       /\ replies' = << >> => x = << >>

\* No more than three replies are due.
LEMMA FewDue == Room /\ due \in Seq(Messages) => Len(due) <= 3
<1> SUFFICES ASSUME Room, due \in Seq(Messages) PROVE Len(due) <= 3
  OBVIOUS
<1> DEFINE d == Len(due)
<1>1. d \in Nat /\ d + (IF unsent = << >> THEN 0 ELSE 1) <= 3
  BY LenProperties DEF Room
<1> HIDE DEF d
<1>2. d <= 3
  BY <1>1
<1> QED BY <1>2 DEF d

\* The cycle keeps the order of what is under way.
LEMMA KeptInOrder ==
  ASSUME IInv, HostTypes, Room, ~datapath_reset,
         NEW v, NEW done, Clock(v, done), Emit,
         NEW p \in Seq(Frames), Len(p) <= 3, NEW b \in Seq(Bytes), Begun(b),
         NEW y \in Seq(Bytes), NEW E \in Seq(Messages), NEW x \in Seq(Bytes),
         Serving(p, b, y, E, x)
  PROVE  Kept(b)
<1> DEFINE kept == After(arrived, taken_by_pipeline)
           left == IF emitted_by_pipeline THEN Shorter(replies) ELSE replies
<1>1. /\ Flow(partial, arrived, p, b, y)
      /\ Fits(emitted, replies \o Answers(p), due, E, x)
      /\ replies = << >> => x = << >>
  BY DEF Serving
<1>2. Len(due) <= 3
  BY FewDue DEF HostTypes
<1>3. /\ partial' \in Seq(Bytes)
      /\ left \in Seq(Messages) /\ replies' \in Seq(Messages)
      /\ \E q \in Seq(Frames), z \in Seq(Bytes) :
           /\ Len(q) <= 3
           /\ Flow(partial', kept, q, b, z)
           /\ replies' \o Answers(q) = left \o Answers(p)
  BY <1>1, FlowStep
<1>4. /\ Left \in Seq(Messages) /\ Len(Left) <= Len(due)
      /\ emitted' \in Seq(Bytes)
      /\ \E E2 \in Seq(Messages), x2 \in Seq(Bytes) :
           /\ Fits(emitted', left \o Answers(p), Left, E2, x2)
           /\ left = << >> => x2 = << >>
  BY <1>1, <1>2, FitsStep
<1>5. kept \in Seq(Bytes) /\ Len(kept) <= RX_FIFO_DEPTH
  BY KeptCount DEF HostTypes, Room
<1>6. After(emitted, taken_by_transmitter) \in Seq(Bytes)
  <2>1. emitted \in Seq(Bytes)
    BY DEF HostTypes
  <2> QED BY <2>1, HeadTailProperties DEF After
<1>7. replies' = << >> => left = << >>
  <2>1. replies' = left \o (IF accepts(done) /\ Answer(partial) # << >>
                            THEN <<Answer(partial)>> ELSE << >>)
    BY PipelineStep
  <2> HIDE DEF left
  <2>2. CASE accepts(done) /\ Answer(partial) # << >>
    <3> DEFINE m == <<Answer(partial)>>
    <3>1. IsFrame(partial)
      BY <2>2, PipelineStep
    <3>2. partial \in Frames
      <4>1. p # << >> /\ partial = Head(p)
        BY <1>1, <3>1, FlowComplete DEF HostTypes
      <4> QED BY <4>1, HeadTailProperties
    <3>3. m \in Seq(Messages) /\ m # << >>
      BY <3>2, FrameFacts, Single
    <3>4. replies' = left \o m
      BY <2>1, <2>2
    <3>5. left \in Seq(Messages)
      BY <1>3
    <3> HIDE DEF m
    <3>6. replies' # << >>
      BY <3>3, <3>4, <3>5, ConcatEqualIffEmpty
    <3> QED BY <3>6
  <2>3. CASE ~(accepts(done) /\ Answer(partial) # << >>)
    <3>1. replies' = left \o << >>
      BY <2>1, <2>3
    <3>2. left \in Seq(Messages)
      BY <1>3
    <3> QED BY <3>1, <3>2, ConcatEmptySeq
  <2> QED BY <2>2, <2>3
<1> HIDE DEF left
<1>8. PICK q \in Seq(Frames), z \in Seq(Bytes) :
        /\ Len(q) <= 3
        /\ Flow(partial', kept, q, b, z)
        /\ replies' \o Answers(q) = left \o Answers(p)
  BY <1>3
<1>9. PICK E2 \in Seq(Messages), x2 \in Seq(Bytes) :
        /\ Fits(emitted', left \o Answers(p), Left, E2, x2)
        /\ left = << >> => x2 = << >>
  BY <1>4
<1>10. Fits(emitted', replies' \o Answers(q), Left, E2, x2)
  BY <1>8, <1>9
<1>11. replies' = << >> => x2 = << >>
  BY <1>7, <1>9
<1>12. \E p2 \in Seq(Frames), y2 \in Seq(Bytes), E3 \in Seq(Messages), x3 \in Seq(Bytes) :
        /\ Len(p2) <= 3
        /\ Flow(partial', kept, p2, b, y2)
        /\ Fits(emitted', replies' \o Answers(p2), Left, E3, x3)
        /\ replies' = << >> => x3 = << >>
  BY <1>8, <1>10, <1>11
<1> QED BY <1>3, <1>4, <1>5, <1>6, <1>12 DEF Kept

\* What has arrived of a frame is less than all of it.
LEMMA UnderwayBegun ==
  ASSUME NEW b \in Seq(Bytes), Underway(b)
  PROVE  Begun(b)
<1>1. CASE unsent = << >>
  BY <1>1 DEF Underway, Begun
<1>2. CASE unsent # << >>
  <2>1. unsent[2] \in Messages /\ b \o unsent[2] \in Frames
    BY <1>2 DEF Underway
  <2> QED BY <2>1 DEF Begun
<1> QED BY <1>1, <1>2

\* The cycles since the end of a byte.
LEMMA QuietStep ==
  ASSUME quiet \in 1 .. LINE_CYCLES, NEW v, NEW done, Cycle(v, done)
  PROVE  /\ quiet' \in 1 .. LINE_CYCLES
         /\ v.ends => quiet = LINE_CYCLES /\ quiet' = 1 /\ quiet' < LINE_CYCLES
<1>1. LINE_CYCLES \in Nat /\ LINE_CYCLES >= 2
  BY HostAssumption
<1>2. quiet' = IF v.ends THEN 1 ELSE IF quiet < LINE_CYCLES THEN quiet + 1 ELSE quiet
  BY DEF Cycle
<1>3. v.ends => quiet = LINE_CYCLES
  BY DEF Cycle
<1> QED BY <1>1, <1>2, <1>3

\* A cycle in which no byte of the host ends.
LEMMA PauseStep ==
  ASSUME IInv, Calm, framing_error = FALSE, quiet \in 1 .. LINE_CYCLES, Clean,
         NEW done, Pause(done)
  PROVE  HInv'
<1> DEFINE kept == After(arrived, taken_by_pipeline)
<1>1. HostTypes /\ Room
  BY DEF Clean
<1>2. PICK p \in Seq(Frames), b \in Seq(Bytes), y \in Seq(Bytes),
           E \in Seq(Messages), x \in Seq(Bytes) :
        Len(p) <= 3 /\ Underway(b) /\ Serving(p, b, y, E, x)
  BY DEF Clean
<1>3. Cycle(NoByte, done) /\ due' = Left /\ unsent' = unsent
  BY DEF Pause
<1>4. NoByte \in Endings /\ NoByte.ends = FALSE
  BY DEF Endings, NoByte
<1>5. /\ Calm' /\ ~datapath_reset /\ Clock(NoByte, done) /\ Emit
      /\ framing_error' = (NoByte.ends /\ NoByte.level = 0) /\ overflow_error' = FALSE
      /\ arrived' = IF NoByte.ends /\ NoByte.level = 1
                    THEN Append(kept, NoByte.data) ELSE kept
  BY <1>1, <1>3, <1>4, CalmCycle DEF Room
<1>6. framing_error' = FALSE /\ arrived' = kept
  BY <1>4, <1>5
<1>7. IInv'
  BY <1>3, <1>4, CycleStep
<1>8. quiet' \in 1 .. LINE_CYCLES
  BY <1>3, QuietStep
<1>9. Kept(b)
  BY <1>1, <1>2, <1>5, KeptInOrder, UnderwayBegun
<1>10. HostTypes'
  BY <1>3, <1>6, <1>9 DEF Kept, HostTypes
<1>11. Room'
  <2>1. Len(due') + (IF unsent' = << >> THEN 0 ELSE 1) <= 3
    <3> DEFINE l == Len(Left)
               d == Len(due)
               u == IF unsent = << >> THEN 0 ELSE 1
    <3>1. l \in Nat /\ d \in Nat /\ l <= d /\ d + u <= 3
      BY <1>1, <1>9, LenProperties DEF Kept, HostTypes, Room
    <3>2. u \in {0, 1}
      OBVIOUS
    <3> HIDE DEF l, d, u
    <3>3. l + u <= 3
      BY <3>1, <3>2
    <3> QED BY <1>3, <3>3 DEF l, u
  <2>2. Len(arrived') <= RX_FIFO_DEPTH
    BY <1>6, <1>9 DEF Kept
  <2>3. ASSUME IsFrame(partial'), replies' = << >>, Len(arrived') = RX_FIFO_DEPTH
        PROVE  emitted' # << >>
    <3>1. kept \in Seq(Bytes) /\ After(emitted, taken_by_transmitter) \in Seq(Bytes)
      BY <1>9 DEF Kept
    <3> QED BY <1>1, <1>5, <1>6, <2>3, <3>1, StuckCycle
  <2> QED BY <2>1, <2>2, <2>3 DEF Room
<1>12. \E q \in Seq(Frames), z \in Seq(Bytes), E2 \in Seq(Messages), x2 \in Seq(Bytes) :
         Len(q) <= 3 /\ Serving(q, b, z, E2, x2)'
  BY <1>3, <1>6, <1>9 DEF Kept, Serving
<1>13. Underway(b)'
  BY <1>2, <1>3 DEF Underway
<1>14. Clean'
  BY <1>10, <1>11, <1>12, <1>13 DEF Clean
<1> QED BY <1>5, <1>6, <1>7, <1>8, <1>14 DEF HInv

\* A byte of the host ends.
LEMMA SendStep ==
  ASSUME IInv, Calm, framing_error = FALSE, quiet \in 1 .. LINE_CYCLES,
         HostTypes, Room, Len(due) <= 2,
         NEW p \in Seq(Frames), Len(p) <= 3, NEW b \in Seq(Bytes),
         NEW y \in Seq(Bytes), NEW E \in Seq(Messages), NEW x \in Seq(Bytes),
         Serving(p, b, y, E, x),
         NEW f \in Frames, NEW rest \in Messages, rest \in Seq(Octet), b \o rest = f,
         NEW level \in {0, 1}, NEW done, SendByte(f, rest, level, done)
  PROVE  HInv'
<1> DEFINE kept == After(arrived, taken_by_pipeline)
           d == Head(rest)
           v == Ending(level, d)
<1>1. d \in Octet /\ d \in Bytes /\ rest # << >> /\ rest \in Seq(Bytes) /\ Len(rest) \in Nat \ {0}
  <2>1. rest # << >> /\ rest \in Seq(Bytes) /\ Len(rest) \in Nat \ {0}
    BY MessageFacts
  <2>2. d \in Octet
    BY <2>1, HeadTailProperties
  <2> QED BY <2>1, <2>2 DEF Bytes
<1> HIDE DEF d
<1>2. v \in Endings /\ v.ends = TRUE /\ v.level = level /\ v.data = d
  <2>1. v = Ending(level, d)
    OBVIOUS
  <2> HIDE DEF v
  <2>2. v \in Endings
    BY <1>1, <2>1 DEF Endings
  <2>3. v.ends = TRUE /\ v.level = level /\ v.data = d
    BY <2>1 DEF Ending
  <2> QED BY <2>2, <2>3
<1>3. /\ Cycle(v, done)
      /\ level = 1 =>
           /\ unsent' = IF Len(rest) = 1 THEN << >> ELSE <<f, Tail(rest)>>
           /\ due' = IF Len(rest) = 1 THEN Append(Left, Answer(f)) ELSE Left
      /\ level # 1 => unsent' = << >> /\ due' = Left
  BY DEF SendByte, d
<1>4. Begun(b)
  BY DEF Begun
<1> HIDE DEF v
<1>5. /\ Calm' /\ ~datapath_reset /\ Clock(v, done) /\ Emit
      /\ framing_error' = (v.ends /\ v.level = 0) /\ overflow_error' = FALSE
      /\ framing_error' => output_valid' = FALSE
      /\ arrived' = IF v.ends /\ v.level = 1 THEN Append(kept, v.data) ELSE kept
  BY <1>2, <1>3, CalmCycle DEF Room
<1>6. IInv'
  BY <1>2, <1>3, CycleStep
<1>7. quiet = LINE_CYCLES /\ quiet' = 1 /\ quiet' < LINE_CYCLES /\ quiet' \in 1 .. LINE_CYCLES
  BY <1>2, <1>3, QuietStep
<1>8. CASE level = 0
  <2>1. v.ends /\ v.level = 0
    BY <1>2, <1>8
  <2>2. framing_error' = TRUE
    BY <1>5, <2>1
  <2>3. unsent' = << >>
    BY <1>3, <1>8
  <2> QED BY <1>5, <1>6, <1>7, <2>2, <2>3 DEF HInv
<1>9. CASE level = 1
  <2>1. framing_error' = FALSE /\ arrived' = Append(kept, d)
    <3>1. v.ends /\ v.level = 1 /\ v.level # 0 /\ v.data = d
      BY <1>2, <1>9
    <3>2. framing_error' = FALSE
      BY <1>5, <3>1
    <3>3. arrived' = Append(kept, v.data)
      BY <1>5, <3>1
    <3> QED BY <3>1, <3>2, <3>3
  <2>2. Kept(b)
    BY <1>4, <1>5, KeptInOrder
  <2>3. Len(kept) # RX_FIFO_DEPTH
    BY <1>4, <1>5, <1>7, RoomForByte
  <2>4. kept \in Seq(Bytes) /\ Len(kept) <= RX_FIFO_DEPTH
    BY <2>2 DEF Kept
  <2>5. PICK q \in Seq(Frames), z \in Seq(Bytes), E2 \in Seq(Messages), x2 \in Seq(Bytes) :
          /\ Len(q) <= 3
          /\ Flow(partial', kept, q, b, z)
          /\ Fits(emitted', replies' \o Answers(q), Left, E2, x2)
          /\ replies' = << >> => x2 = << >>
    BY <2>2 DEF Kept
  <2>6. /\ partial' \in Seq(Bytes) /\ emitted' \in Seq(Bytes)
        /\ replies' \in Seq(Messages) /\ Left \in Seq(Messages) /\ Len(Left) <= 2
    <3> DEFINE l == Len(Left)
               n == Len(due)
    <3>1. l <= n /\ n <= 2 /\ l \in Nat /\ n \in Nat
      BY <2>2, LenProperties DEF Kept, HostTypes
    <3> HIDE DEF l, n
    <3>2. l <= 2
      BY <3>1
    <3> QED BY <2>2, <3>2 DEF Kept, l
  <2> HIDE DEF kept, d
  <2>7. /\ arrived' = kept \o <<d>> /\ arrived' \in Seq(Bytes)
        /\ Len(arrived') = Len(kept) + 1
    <3>1. d \in Bytes
      BY <1>1
    <3> QED BY <2>1, <2>4, <3>1, AppendIsConcat, AppendProperties
  <2>8. Len(arrived') <= RX_FIFO_DEPTH
    <3> DEFINE n == Len(kept)
    <3>1. n \in Nat /\ n # RX_FIFO_DEPTH /\ n <= RX_FIFO_DEPTH /\ RX_FIFO_DEPTH \in Nat
      BY <2>3, <2>4, LenProperties, HostAssumption
    <3> HIDE DEF n
    <3>2. n + 1 <= RX_FIFO_DEPTH
      BY <3>1
    <3> QED BY <2>7, <3>2 DEF n
  <2>9. Flow(partial', arrived', q, b \o <<d>>, z)
    <3>1. d \in Bytes
      BY <1>1
    <3> QED BY <2>4, <2>5, <2>6, <2>7, <3>1, FlowByte
  <2>10. b \o <<d>> \in Seq(Bytes) /\ (b \o <<d>>) \o Tail(rest) = f /\ Tail(rest) \in Seq(Bytes)
    BY <1>1, GoesOver DEF d
  <2>11. CASE Len(rest) = 1
    <3>1. unsent' = << >> /\ due' = Append(Left, Answer(f))
      BY <1>3, <1>9, <2>11
    <3>2. Answer(f) \in Messages
      BY FrameFacts
    <3>3. /\ due' = Left \o <<Answer(f)>> /\ due' \in Seq(Messages)
          /\ Len(due') = Len(Left) + 1
      BY <2>6, <3>1, <3>2, AppendIsConcat, AppendProperties
    <3>4. HostTypes'
      BY <2>6, <2>7, <3>3 DEF HostTypes
    <3>5. Room'
      <4>1. Len(due') + (IF unsent' = << >> THEN 0 ELSE 1) <= 3
        <5> DEFINE l == Len(Left)
        <5>1. l \in Nat /\ l <= 2
          BY <2>6, LenProperties
        <5> HIDE DEF l
        <5>2. l + 1 + 0 <= 3
          BY <5>1
        <5> QED BY <3>1, <3>3, <5>2 DEF l
      <4> QED BY <1>7, <2>8, <4>1 DEF Room
    <3>6. b \o <<d>> = f
      <4>1. Tail(rest) = << >>
        BY <2>11, MessageFacts
      <4>2. (b \o <<d>>) \o << >> = b \o <<d>>
        BY <2>10, ConcatEmptySeq
      <4> QED BY <2>10, <4>1, <4>2
    <3>7. Len(q) <= 2
      <4> DEFINE R == replies' \o Answers(q)
                 s == replies'
      <4>1. Answers(q) \in Seq(Messages) /\ Len(Answers(q)) = Len(q)
        BY AnswersType
      <4> DEFINE a == Answers(q)
      <4>2. s \in Seq(Messages)
        BY <2>6
      <4>3. R = s \o a
        OBVIOUS
      <4> HIDE DEF s, a, R
      <4>9. a \in Seq(Messages) /\ Len(a) = Len(q)
        BY <4>1 DEF a
      <4>10. s \o a \in Seq(Messages) /\ Len(s \o a) = Len(s) + Len(a)
        BY <4>2, <4>9, ConcatProperties
      <4>4. R \in Seq(Messages) /\ Len(R) = Len(s) + Len(q)
        BY <4>3, <4>9, <4>10
      <4>5. Fits(emitted', R, Left, E2, x2) /\ E2 \in Seq(Messages) /\ x2 \in Seq(Bytes)
        BY <2>5 DEF R
      <4> DEFINE l == Len(Left)
                 e == Len(E2)
                 r == Len(R)
                 k == Len(q)
                 t == Len(s)
      <4>6. l = e + r /\ e \in Nat /\ r \in Nat
        <5>1. Left \in Seq(Messages)
          BY <2>6
        <5> QED BY <4>4, <4>5, <5>1, FitsCount
      <4>7. r = t + k /\ t \in Nat /\ k \in Nat /\ l <= 2
        BY <2>6, <4>2, <4>4, LenProperties
      <4> HIDE DEF l, e, r, k, t
      <4>8. k <= 2
        BY <4>6, <4>7
      <4> QED BY <4>8 DEF k
    <3>8. \E u \in Seq(Bytes) : Flow(partial', arrived', q \o <<f>>, << >>, u)
      <4>1. Flow(partial', arrived', q, f, z)
        BY <2>9, <3>6
      <4> QED BY <2>6, <2>7, <3>7, <4>1, FlowEnd
    <3> DEFINE Q == q \o <<f>>
    <3>9. Q \in Seq(Frames) /\ Len(Q) <= 3
      <4>1. <<f>> \in Seq(Frames) /\ Len(<<f>>) = 1
        BY Single
      <4>2. q \o <<f>> \in Seq(Frames) /\ Len(q \o <<f>>) = Len(q) + Len(<<f>>)
        BY <4>1, ConcatProperties
      <4> DEFINE k == Len(q)
      <4>3. k \in Nat /\ k <= 2
        BY <3>7, LenProperties
      <4> HIDE DEF k
      <4>4. k + 1 <= 3
        BY <4>3
      <4> QED BY <4>1, <4>2, <4>4 DEF k
    <3>10. Fits(emitted', replies' \o Answers(Q), due', E2, x2)
      <4> DEFINE s == replies'
                 a == Answers(q)
                 m == <<Answer(f)>>
      <4>1. Answers(Q) = a \o m
        BY AnswersBack
      <4>2. a \in Seq(Messages) /\ s \in Seq(Messages) /\ m \in Seq(Messages)
        BY <2>6, <3>2, AnswersType, Single
      <4>3. Fits(emitted', s \o a, Left, E2, x2)
        BY <2>5
      <4> HIDE DEF s, a
      <4>4. s \o a \in Seq(Messages)
        BY <4>2, ConcatProperties
      <4>5. Fits(emitted', (s \o a) \o m, Left \o m, E2, x2)
        BY <3>2, <4>3, <4>4, FitsAppend
      <4>6. (s \o a) \o m = s \o (a \o m)
        BY <4>2, AssocM
      <4> HIDE DEF m
      <4>7. Fits(emitted', s \o Answers(Q), Left \o m, E2, x2)
        BY <4>1, <4>5, <4>6
      <4> QED BY <3>3, <4>7 DEF s, m
    <3> HIDE DEF Q
    <3>11. \E u \in Seq(Bytes) : Serving(Q, << >>, u, E2, x2)'
      BY <2>5, <3>8, <3>10 DEF Serving, Q
    <3>12. Underway(<< >>)'
      BY <3>1 DEF Underway
    <3>13. << >> \in Seq(Bytes)
      OBVIOUS
    <3>14. Clean'
      BY <3>4, <3>5, <3>9, <3>11, <3>12, <3>13 DEF Clean
    <3> QED BY <1>5, <1>6, <1>7, <2>1, <3>14 DEF HInv
  <2>12. CASE Len(rest) # 1
    <3>1. unsent' = <<f, Tail(rest)>> /\ due' = Left
      BY <1>3, <1>9, <2>12
    <3>2. HostTypes'
      BY <2>6, <2>7, <3>1 DEF HostTypes
    <3>3. Room'
      <4>1. Len(due') + (IF unsent' = << >> THEN 0 ELSE 1) <= 3
        <5> DEFINE l == Len(Left)
                   u == IF unsent' = << >> THEN 0 ELSE 1
        <5>1. l \in Nat /\ l <= 2 /\ u \in {0, 1}
          BY <2>6, LenProperties
        <5> HIDE DEF l, u
        <5>2. l + u <= 3
          BY <5>1
        <5> QED BY <3>1, <5>2 DEF l, u
      <4> QED BY <1>7, <2>8, <4>1 DEF Room
    <3>4. Serving(q, b \o <<d>>, z, E2, x2)'
      BY <2>5, <2>9, <3>1 DEF Serving
    <3>5. Underway(b \o <<d>>)'
      <4>1. Tail(rest) \in Messages
        BY <2>12, MessageFacts
      <4>2. Tail(rest) \in Seq(Octet)
        BY <1>1, HeadTailProperties
      <4>3. b \o <<d>> \in Messages
        <5>1. <<d>> \in Seq(Bytes) /\ <<d>> # << >>
          BY <1>1, Single
        <5>2. b \o <<d>> # << >>
          BY <5>1, ConcatEqualIffEmpty
        <5> QED BY <2>10, <5>2 DEF Messages
      <4>4. unsent' # << >> /\ unsent'[1] = f /\ unsent'[2] = Tail(rest)
        BY <3>1
      <4> QED BY <2>10, <4>1, <4>2, <4>3, <4>4 DEF Underway
    <3>6. Clean'
      BY <2>5, <2>10, <3>2, <3>3, <3>4, <3>5 DEF Clean
    <3> QED BY <1>5, <1>6, <1>7, <2>1, <3>6 DEF HInv
  <2> QED BY <2>11, <2>12
<1> QED BY <1>8, <1>9

\* Where nothing is under way nothing is due.
LEMMA NothingServed ==
  /\ Flow(<< >>, << >>, << >>, << >>, << >>)
  /\ Fits(<< >>, << >> \o Answers(<< >>), << >>, << >>, << >>)
<1>1. Answers(<< >>) = << >>
  BY DEF Answers
<1>2. << >> \o << >> = << >>
  OBVIOUS
<1>3. Flat(<< >>) = << >>
  BY DEF Flat
<1>4. Whole(<< >>, << >>) = << >>
  BY DEF Whole
<1> QED BY <1>1, <1>2, <1>3, <1>4 DEF Flow, Fits

\* The cycle after a disturbed byte: all that was under way is given up.
LEMMA ErrorCycle ==
  ASSUME HInv, framing_error, NEW done, Pause(done)
  PROVE  HInv'
<1>1. /\ IInv /\ Calm /\ unsent = << >> /\ ~output_valid
      /\ quiet \in 1 .. LINE_CYCLES
  BY DEF HInv
<1>2. datapath_reset /\ ~reset_sync
  BY <1>1 DEF Calm, datapath_reset, reset_sync
<1>3. Cycle(NoByte, done) /\ due' = << >> /\ unsent' = << >>
  BY <1>1, <1>2 DEF Pause, Left
<1>4. NoByte \in Endings /\ NoByte.ends = FALSE
  BY DEF Endings, NoByte
<1>5. Clock(NoByte, done) /\ Arrive(NoByte) /\ Emit
  BY <1>3 DEF Cycle
<1>6. framing_error' = FALSE /\ overflow_error' = FALSE
  BY <1>2, <1>4, <1>5, ReportStep
<1>7. Calm'
  BY <1>1, <1>5 DEF Calm, Clock, Synchronise
<1>8. IInv'
  BY <1>1, <1>3, <1>4, CycleStep
<1>9. quiet' \in 1 .. LINE_CYCLES
  BY <1>1, <1>3, QuietStep
<1>10. partial' = << >> /\ replies' = << >>
  BY <1>2, <1>5 DEF Clock, DatapathClock, DatapathReset, Pipeline!Reset, Pipeline!Init
<1>11. arrived' = << >> /\ emitted' = << >>
  BY <1>1, <1>2, <1>4, <1>5 DEF Arrive, Emit, held
<1>12. << >> \in Seq(Bytes) /\ << >> \in Seq(Messages) /\ << >> \in Seq(Frames) /\ Len(<< >>) = 0
  OBVIOUS
<1>13. HostTypes'
  BY <1>3, <1>10, <1>11, <1>12 DEF HostTypes
<1>14. Room'
  BY <1>3, <1>10, <1>11, <1>12, HostAssumption DEF Room
<1>15. Underway(<< >>)'
  BY <1>3 DEF Underway
<1>16. Serving(<< >>, << >>, << >>, << >>, << >>)'
  BY <1>3, <1>10, <1>11, NothingServed DEF Serving
<1>17. Clean'
  <2>1. Len(<< >>) <= 3
    OBVIOUS
  <2>2. \E p \in Seq(Frames), b \in Seq(Bytes), y \in Seq(Bytes),
           E \in Seq(Messages), x \in Seq(Bytes) :
          Len(p) <= 3 /\ Underway(b)' /\ Serving(p, b, y, E, x)'
    BY <1>12, <1>15, <1>16, <2>1, Zenon
  <2> QED BY <1>13, <1>14, <2>2 DEF Clean
<1> QED BY <1>6, <1>7, <1>8, <1>9, <1>17 DEF HInv

\* A frame begins.
LEMMA BeginStep ==
  ASSUME HInv, ~framing_error, NEW done, NEW level \in {0, 1}, NEW f \in Frames,
         Begin(f, level, done)
  PROVE  HInv'
<1>1. /\ IInv /\ Calm /\ framing_error = FALSE
      /\ quiet \in 1 .. LINE_CYCLES /\ Clean
  BY DEF HInv
<1>2. PICK p \in Seq(Frames), b \in Seq(Bytes), y \in Seq(Bytes),
           E \in Seq(Messages), x \in Seq(Bytes) :
        Len(p) <= 3 /\ Underway(b) /\ Serving(p, b, y, E, x)
  BY <1>1 DEF Clean
<1>3. unsent = << >> /\ Len(due) < MaxOutstanding /\ SendByte(f, f, level, done)
  BY DEF Begin
<1>4. b = << >>
  BY <1>2, <1>3 DEF Underway
<1>5. f \in Messages /\ f \in Seq(Octet)
  BY FrameFacts, HostAssumption
<1>6. b \o f = f
  BY <1>4, <1>5, ConcatEmptySeq
<1>7. HostTypes /\ Room
  BY <1>1 DEF Clean
<1>8. Len(due) <= 2
  <2> DEFINE n == Len(due)
  <2>1. n \in Nat /\ n < MaxOutstanding /\ MaxOutstanding \in 0 .. 3
    BY <1>3, <1>7, LenProperties, HostAssumption DEF HostTypes
  <2> HIDE DEF n
  <2>2. n <= 2
    BY <2>1
  <2> QED BY <2>2 DEF n
<1> QED BY <1>1, <1>2, <1>3, <1>5, <1>6, <1>7, <1>8, SendStep

\* The frame goes on.
LEMMA ContinueStep ==
  ASSUME HInv, ~framing_error, NEW done, NEW level \in {0, 1}, Continue(level, done)
  PROVE  HInv'
<1>1. /\ IInv /\ Calm /\ framing_error = FALSE
      /\ quiet \in 1 .. LINE_CYCLES /\ Clean
  BY DEF HInv
<1>2. PICK p \in Seq(Frames), b \in Seq(Bytes), y \in Seq(Bytes),
           E \in Seq(Messages), x \in Seq(Bytes) :
        Len(p) <= 3 /\ Underway(b) /\ Serving(p, b, y, E, x)
  BY <1>1 DEF Clean
<1> DEFINE f == unsent[1]
           rest == unsent[2]
<1>3. unsent # << >> /\ SendByte(f, rest, level, done)
  BY DEF Continue
<1>4. f \in Frames /\ rest \in Messages /\ rest \in Seq(Octet) /\ b \o rest = f
  BY <1>2, <1>3 DEF Underway
<1>5. HostTypes /\ Room
  BY <1>1 DEF Clean
<1>6. Len(due) <= 2
  <2> DEFINE n == Len(due)
  <2>1. n \in Nat /\ n + 1 <= 3
    BY <1>3, <1>5, LenProperties DEF HostTypes, Room
  <2> HIDE DEF n
  <2>2. n <= 2
    BY <2>1
  <2> QED BY <2>2 DEF n
<1> HIDE DEF f, rest
<1> QED BY <1>1, <1>2, <1>3, <1>4, <1>5, <1>6, SendStep

\* Every step of the host keeps the invariant.
LEMMA HostStep ==
  ASSUME HInv, HostNext
  PROVE  HInv'
<1>1. PICK done \in BOOLEAN :
        \/ Pause(done)
        \/ \E level \in {0, 1} : Continue(level, done) \/ \E f \in Frames : Begin(f, level, done)
  BY DEF HostNext
<1>2. framing_error \in BOOLEAN
  BY DEF HInv
<1>3. CASE Pause(done)
  <2>1. CASE framing_error
    BY <1>3, <2>1, ErrorCycle
  <2>2. CASE ~framing_error
    <3>1. IInv /\ Calm /\ framing_error = FALSE /\ quiet \in 1 .. LINE_CYCLES /\ Clean
      BY <1>2, <2>2 DEF HInv
    <3> QED BY <1>3, <3>1, PauseStep
  <2> QED BY <2>1, <2>2
<1>4. ASSUME NEW level \in {0, 1}, NEW f, NEW rest, SendByte(f, rest, level, done)
      PROVE  ~framing_error
  <2>1. Cycle(Ending(level, Head(rest)), done)
    BY <1>4 DEF SendByte
  <2>2. quiet = LINE_CYCLES
    BY <2>1 DEF Cycle, Ending
  <2> QED BY <2>2, HostAssumption DEF HInv
<1>5. ASSUME NEW level \in {0, 1}, Continue(level, done) PROVE HInv'
  BY <1>4, <1>5, ContinueStep DEF Continue
<1>6. ASSUME NEW level \in {0, 1}, NEW f \in Frames, Begin(f, level, done) PROVE HInv'
  BY <1>4, <1>6, BeginStep DEF Begin
<1> QED BY <1>1, <1>3, <1>5, <1>6

\* It holds before the host sends anything.
LEMMA HostInitially == ASSUME HInit PROVE HInv
<1>1. WInit /\ unsent = << >> /\ due = << >>
  BY DEF HInit
<1>2. IInv
  BY <1>1, Initially
<1>3. /\ reset_async = FALSE /\ reset_sync_stage_1 = FALSE /\ reset_sync_stage_2 = FALSE
      /\ framing_error = FALSE /\ overflow_error = FALSE
      /\ quiet = LINE_CYCLES /\ arrived = << >> /\ emitted = << >>
      /\ partial = << >> /\ replies = << >>
  BY <1>1 DEF WInit, Init, DatapathInit, Pipeline!Init
<1>4. << >> \in Seq(Bytes) /\ << >> \in Seq(Messages) /\ << >> \in Seq(Frames) /\ Len(<< >>) = 0
  OBVIOUS
<1>5. HostTypes
  BY <1>1, <1>3, <1>4 DEF HostTypes
<1>6. Room
  BY <1>1, <1>3, <1>4, HostAssumption DEF Room
<1>7. Underway(<< >>)
  BY <1>1 DEF Underway
<1>8. Serving(<< >>, << >>, << >>, << >>, << >>)
  BY <1>1, <1>3, NothingServed DEF Serving
<1>9. Clean
  <2>1. Len(<< >>) <= 3
    OBVIOUS
  <2>2. \E p \in Seq(Frames), b \in Seq(Bytes), y \in Seq(Bytes),
           E \in Seq(Messages), x \in Seq(Bytes) :
          Len(p) <= 3 /\ Underway(b) /\ Serving(p, b, y, E, x)
    BY <1>4, <1>7, <1>8, <2>1, Zenon
  <2> QED BY <1>5, <1>6, <2>2 DEF Clean
<1>10. quiet \in 1 .. LINE_CYCLES
  BY <1>3, HostAssumption
<1> QED BY <1>2, <1>3, <1>9, <1>10 DEF HInv, Calm

\* It holds throughout on the line of the host.
LEMMA HostInvariance == HSpec => [](paced => HInv)
<1> DEFINE Inv == paced => HInv
<1>1. HInit => Inv
  BY HostInitially
<1>2. Inv /\ [HNext]_<<wvars, paced, host>> => Inv'
  <2> SUFFICES ASSUME Inv, [HNext]_<<wvars, paced, host>>, paced' PROVE HInv'
    OBVIOUS
  <2>1. paced /\ HInv
    BY DEF HNext
  <2>2. CASE HostNext
    BY <2>1, <2>2, HostStep
  <2>3. CASE UNCHANGED <<wvars, paced, host>>
    <3>1. /\ UNCHANGED <<reset_async, reset_sync_stage_1, reset_sync_stage_2>>
          /\ UNCHANGED <<output_data, output_valid, framing_error, overflow_error>>
          /\ UNCHANGED <<rx_queue, tx_queue, partial, replies, working, remaining, data>>
          /\ UNCHANGED <<quiet, arrived, emitted, unsent, due>>
      BY <2>3 DEF wvars, vars, synchroniser, received, datapath, history, host
    <3>2. IInv'
      BY <2>1, <3>1 DEF HInv, IInv, StagesInOrder, ReceptionTypes, BytesKept,
         ResetReachesAll, held, reset_sync, DatapathInit, RxFifo!Init, TxFifo!Init,
         Pipeline!Init, Transmitter!Init
    <3>3. Clean => Clean'
      BY <3>1 DEF Clean, HostTypes, Room, Underway, Serving
    <3> QED BY <2>1, <3>1, <3>2, <3>3 DEF HInv, Calm
  <2> QED BY <2>1, <2>2, <2>3 DEF HNext
<1> QED BY <1>1, <1>2, PTL DEF HSpec

\* For every set of frames of which none begins another, every depth that the
\* code admits, every pause between the bytes and every pace of the handler and
\* the transmitter: what the transmitter is given are, byte for byte, the
\* replies to the whole frames of a host that leaves three at most unanswered,
\* also after bytes of it were disturbed.
THEOREM HostServed == HSpec => []AnswersInOrder
<1>1. (paced => HInv) => AnswersInOrder
  <2> SUFFICES ASSUME HInv, taken_by_transmitter
               PROVE  due # << >> /\ Head(tx_queue) = Head(Head(due))
    BY DEF AnswersInOrder
  <2>1. ~datapath_reset
    BY DEF taken_by_transmitter, tx_fifo_valid
  <2>2. IInv /\ Clean
    BY <2>1 DEF HInv, datapath_reset
  <2>3. HostTypes /\ Len(due) <= 3
    BY <2>2, FewDue DEF Clean, HostTypes
  <2>4. PICK p \in Seq(Frames), b \in Seq(Bytes), y \in Seq(Bytes),
             E \in Seq(Messages), x \in Seq(Bytes) :
          Len(p) <= 3 /\ Underway(b) /\ Serving(p, b, y, E, x)
    BY <2>2 DEF Clean
  <2>5. Fits(emitted, replies \o Answers(p), due, E, x)
    BY <2>4 DEF Serving
  <2> QED BY <2>2, <2>3, <2>4, <2>5, FirstDue
<1> QED BY <1>1, HostInvariance, PTL

\* For the same: the receiver never holds a byte of the host for which there is
\* no room, so that none is lost.
THEOREM HostNeverRefused == HSpec => []NothingRefused
<1>1. (paced => HInv) => NothingRefused
  <2> SUFFICES ASSUME HInv
               PROVE  /\ ~overflow_error
                      /\ output_valid => uart_rx_ready \/ datapath_reset
    BY DEF NothingRefused
  <2>1. ~overflow_error
    BY DEF HInv
  <2>2. CASE framing_error
    BY <2>1, <2>2 DEF HInv
  <2>3. CASE ~framing_error
    <3>1. IInv /\ Calm /\ Len(arrived) <= RX_FIFO_DEPTH
      BY <2>3 DEF HInv, Clean, Room
    <3> QED BY <2>1, <2>3, <3>1, Accepted
  <2> QED BY <2>2, <2>3
<1> QED BY <1>1, HostInvariance, PTL
=============================================================================
