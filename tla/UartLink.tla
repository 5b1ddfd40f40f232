------------------------------ MODULE UartLink ------------------------------
(***************************************************************************)
(* A UART transmitter whose pin is wired to a UART receiver with another   *)
(* clock.  One step is a cycle of the receiver's clock.  The transmitter's *)
(* is faster by a constant, or as fast, or slower: it may fall behind by   *)
(* as many as MAX_LAG cycles in each bit.  The first flop of the receiver, *)
(* when the line has just changed, may still take the old level.           *)
(* History variables:                                                      *)
(*   lag     how many cycles the transmitter fell behind in this bit       *)
(*   onwire  the bytes the transmitter took and the receiver has not ended *)
(*   held    the bytes the receiver ended, did not report as an overflow   *)
(*           and has not handed out                                        *)
(***************************************************************************)
EXTENDS UartTx, Sequences

CONSTANTS
  CLOCKS_PER_BIT,   \* the receiver's divisor
  MAX_LAG,
  Bytes             \* bound: the bytes sent

VARIABLES
  rx_meta, rx_sync, state, rx_clock_count, rx_bit_index, shift_reg,
  output_data, output_valid, framing_error, overflow_error,
  line_before, lag, onwire, held

Rx == INSTANCE UartRx WITH
  clock_count <- rx_clock_count, bit_index <- rx_bit_index

\* Values for Bytes: the level constant, and changing at each bit.
SampleBytes == {[i \in 0 .. 7 |-> 0], [i \in 0 .. 7 |-> 1], [i \in 0 .. 7 |-> i % 2]}

\* The $fatal check of the receiver, and what the link is given.
ASSUME LinkAssumption ==
  /\ CLOCKS_PER_BIT \in Nat /\ CLOCKS_PER_BIT >= 2
  /\ MAX_LAG \in Nat /\ Bytes \subseteq Byte

\* How far the two clocks may drift apart.  From the cycle in which the receiver
\* sees the start bit, one cycle sooner or later than it might, to its sample of
\* the stop bit the slowest transmitter has begun the stop bit and the fastest
\* has not ended it.  The $fatal checks ask for less: divisors of at least two.
SamplingAssumption ==
  /\ CLKS_PER_BIT >= 4
  /\ 9 * (CLKS_PER_BIT + MAX_LAG) + 1 <= Rx!HALF_CLOCKS_PER_BIT + 9 * CLOCKS_PER_BIT
  /\ Rx!HALF_CLOCKS_PER_BIT + 9 * CLOCKS_PER_BIT + 2 <= 10 * CLKS_PER_BIT

ASSUME DriftAssumption == SamplingAssumption

link == <<line_before, lag, onwire, held>>

LinkInit ==
  /\ Init /\ Rx!Init
  /\ line_before = 1 /\ lag = 0 /\ onwire = << >> /\ held = << >>

\* A cycle in which the transmitter's clock does not tick.
Lag ==
  /\ busy /\ SlotEnds /\ lag < MAX_LAG
  /\ lag' = lag + 1
  /\ UNCHANGED <<clock_count, bit_index, shift_register, busy>>

Tick(input_valid, d) ==
  /\ Clock(input_valid, d)
  /\ lag' = IF SlotEnds THEN 0 ELSE lag

\* What becomes of the bytes when the receiver ends one, and when the consumer
\* takes one.  A byte that ends and was never sent is in no history.
Account(taken, output_ready) ==
  LET waiting == onwire \o taken
      left    == IF output_valid /\ output_ready THEN Tail(held) ELSE held
  IN  IF Rx!byte_ends /\ waiting # << >>
      THEN /\ onwire' = Tail(waiting)
           /\ held' = IF overflow_error' THEN left ELSE Append(left, Head(waiting))
      ELSE onwire' = waiting /\ held' = left

\* The levels the first flop may take.
Levels == {tx, line_before}

\* A cycle whatever the source, both clocks, the flop and the consumer do.
Cycle ==
  \E sampled \in Levels, output_ready \in BOOLEAN :
    /\ Rx!Clock(sampled, output_ready)
    /\ line_before' = tx
    /\ \/ Lag /\ Account(<< >>, output_ready)
       \/ \E input_valid \in BOOLEAN, d \in Bytes :
            /\ Tick(input_valid, d)
            /\ Account(IF input_valid /\ input_ready THEN <<d>> ELSE << >>, output_ready)

LinkReset ==
  /\ Reset /\ Rx!Reset
  /\ line_before' = 1 /\ lag' = 0 /\ onwire' = << >> /\ held' = << >>

LinkNext == LinkReset \/ Cycle

LinkSpec == LinkInit /\ [][LinkNext]_<<vars, Rx!vars, link>>

\* The receiver's clock runs.
FairLinkSpec == LinkSpec /\ WF_<<vars, Rx!vars, link>>(Cycle)

----------------------------------------------------------------------------
(* Properties. *)

\* When the receiver looks for a stop bit it holds the byte that was sent, and
\* it finds the stop bit: bytes sent back to back or with any gap are read with
\* their own bits, although the clocks drift and each sample may be late.
BytesRead ==
  /\ state = "STOP" => onwire # << >> /\ shift_reg = Head(onwire)
  /\ ~framing_error

\* Every byte that ends is handed out once, in order, or reported as an
\* overflow; a byte that waits is not disturbed by the one that overflows.
BytesAccounted == held = IF output_valid THEN <<output_data>> ELSE << >>

\* The transmitter is free for another byte again and again, and the last byte
\* it sent is ended by the receiver although nothing follows it.
BytesEnd == []<>input_ready /\ (onwire # << >> /\ ~busy ~> onwire = << >> \/ busy)
=============================================================================
