------------------------------- MODULE UartRx -------------------------------
(***************************************************************************)
(* rtl/common/uart_rx.sv: the UART receiver, 8-N-1, with its two-flop      *)
(* synchroniser and its one-byte output register.  One step is one rising  *)
(* clock edge; `sampled` is what the first flop takes from the pin at that *)
(* edge, output_ready the wire of the consumer.                            *)
(***************************************************************************)
EXTENDS Naturals

\* The rounded divisor of clock by baud rate, which the $fatal check of the
\* initial block wants to be two at least; UartLink assumes it.
CONSTANT CLOCKS_PER_BIT

HALF_CLOCKS_PER_BIT == CLOCKS_PER_BIT \div 2

Bit == {0, 1}
Byte == [0 .. 7 -> Bit]

VARIABLES rx_meta, rx_sync, state, clock_count, bit_index, shift_reg,
          output_data, output_valid, framing_error, overflow_error

synchroniser == <<rx_meta, rx_sync>>
reception == <<state, clock_count, bit_index, shift_reg>>
output == <<output_data, output_valid, framing_error, overflow_error>>

vars == <<synchroniser, reception, output>>

States == {"IDLE", "START", "DATA", "STOP"}

Zeros == [i \in 0 .. 7 |-> 0]

Init ==
  /\ rx_meta = 1 /\ rx_sync = 1
  /\ state = "IDLE" /\ clock_count = 0 /\ bit_index = 0 /\ shift_reg = Zeros
  /\ output_data = Zeros /\ output_valid = FALSE
  /\ framing_error = FALSE /\ overflow_error = FALSE

----------------------------------------------------------------------------
(* The clock edge: the synchroniser, the output register, the state. *)

Shift(sampled) == rx_meta' = sampled /\ rx_sync' = rx_meta

\* The output register when no byte ends: a byte taken leaves it.
NoByte(output_ready) ==
  /\ output_valid' = (output_valid /\ ~output_ready)
  /\ framing_error' = FALSE /\ overflow_error' = FALSE
  /\ UNCHANGED output_data

Idle ==
  /\ state = "IDLE"
  /\ clock_count' = 0
  /\ state' = IF rx_sync = 0 THEN "START" ELSE "IDLE"
  /\ UNCHANGED <<bit_index, shift_reg>>

\* MUTANT: the start bit is sampled at its end.
StartSampled_late == clock_count = CLOCKS_PER_BIT - 1

\* The middle of the start bit.
StartSampled == clock_count = HALF_CLOCKS_PER_BIT - 1

\* MUTANT: the middle of the start bit is not looked at.
Start_unchecked ==
  /\ state = "START"
  /\ IF ~StartSampled
     THEN clock_count' = clock_count + 1 /\ UNCHANGED <<state, bit_index>>
     ELSE clock_count' = 0 /\ state' = "DATA" /\ bit_index' = 0
  /\ UNCHANGED shift_reg

Start ==
  /\ state = "START"
  /\ IF ~StartSampled
     THEN clock_count' = clock_count + 1 /\ UNCHANGED <<state, bit_index>>
     ELSE /\ clock_count' = 0
          /\ IF rx_sync = 0
             THEN state' = "DATA" /\ bit_index' = 0
             ELSE state' = "IDLE" /\ UNCHANGED bit_index
  /\ UNCHANGED shift_reg

DataBit ==
  /\ state = "DATA"
  /\ IF clock_count # CLOCKS_PER_BIT - 1
     THEN clock_count' = clock_count + 1 /\ UNCHANGED <<state, bit_index, shift_reg>>
     ELSE /\ clock_count' = 0
          /\ shift_reg' = [shift_reg EXCEPT ![bit_index] = rx_sync]
          /\ IF bit_index = 7
             THEN state' = "STOP" /\ UNCHANGED bit_index
             ELSE bit_index' = bit_index + 1 /\ UNCHANGED state

\* The edge that samples the stop bit.
byte_ends == state = "STOP" /\ clock_count = CLOCKS_PER_BIT - 1

Stop ==
  /\ state = "STOP"
  /\ IF byte_ends
     THEN clock_count' = 0 /\ state' = "IDLE"
     ELSE clock_count' = clock_count + 1 /\ UNCHANGED state
  /\ UNCHANGED <<bit_index, shift_reg>>

\* MUTANT: a byte that ends in the cycle in which the last one is taken is
\* dropped, and nothing says so.
EndByte_late(output_ready) ==
  /\ framing_error' = (rx_sync = 0)
  /\ overflow_error' = (rx_sync = 1 /\ output_valid /\ ~output_ready)
  /\ IF rx_sync = 1 /\ ~output_valid
     THEN output_data' = shift_reg /\ output_valid' = TRUE
     ELSE output_valid' = (output_valid /\ ~output_ready) /\ UNCHANGED output_data

\* MUTANT: the level of the stop bit is not looked at.
EndByte_unchecked(output_ready) ==
  /\ framing_error' = FALSE
  /\ overflow_error' = (output_valid /\ ~output_ready)
  /\ IF ~(output_valid /\ ~output_ready)
     THEN output_data' = shift_reg /\ output_valid' = TRUE
     ELSE output_valid' = (output_valid /\ ~output_ready) /\ UNCHANGED output_data

\* A byte that ends while the last one waits is dropped and reported.
EndByte(output_ready) ==
  /\ framing_error' = (rx_sync = 0)
  /\ overflow_error' = (rx_sync = 1 /\ output_valid /\ ~output_ready)
  /\ IF rx_sync = 1 /\ ~(output_valid /\ ~output_ready)
     THEN output_data' = shift_reg /\ output_valid' = TRUE
     ELSE output_valid' = (output_valid /\ ~output_ready) /\ UNCHANGED output_data

Clock(sampled, output_ready) ==
  /\ Shift(sampled)
  /\ Idle \/ Start \/ DataBit \/ Stop
  /\ IF byte_ends THEN EndByte(output_ready) ELSE NoByte(output_ready)

Reset ==
  /\ rx_meta' = 1 /\ rx_sync' = 1
  /\ state' = "IDLE" /\ clock_count' = 0 /\ bit_index' = 0 /\ shift_reg' = Zeros
  /\ output_data' = Zeros /\ output_valid' = FALSE
  /\ framing_error' = FALSE /\ overflow_error' = FALSE

----------------------------------------------------------------------------
(* Properties. *)

\* The types of the registers; both counters stay below the constants they are
\* compared with and no bit outside the registers is addressed.
TypeOK ==
  /\ rx_meta \in Bit /\ rx_sync \in Bit /\ state \in States
  /\ clock_count \in 0 .. CLOCKS_PER_BIT - 1 /\ bit_index \in 0 .. 7
  /\ shift_reg \in Byte /\ output_data \in Byte
  /\ output_valid \in BOOLEAN /\ framing_error \in BOOLEAN /\ overflow_error \in BOOLEAN
=============================================================================
