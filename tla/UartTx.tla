------------------------------- MODULE UartTx -------------------------------
(***************************************************************************)
(* rtl/common/uart_tx.sv: the UART transmitter, 8-N-1.  One step is one    *)
(* rising clock edge; Clock's parameters are the input wires at that edge. *)
(***************************************************************************)
EXTENDS Naturals

CONSTANT CLKS_PER_BIT   \* the rounded divisor of clock by baud rate

\* The $fatal checks of the initial block.
ASSUME DivisorAssumption == CLKS_PER_BIT \in Nat /\ CLKS_PER_BIT >= 2

Bit == {0, 1}
Byte == [0 .. 7 -> Bit]

VARIABLES clock_count, bit_index, shift_register, busy

vars == <<clock_count, bit_index, shift_register, busy>>

Init ==
  /\ clock_count = 0 /\ bit_index = 0
  /\ shift_register = [i \in 0 .. 9 |-> 1] /\ busy = FALSE

----------------------------------------------------------------------------
(* Combinational outputs, outside reset; in reset tx is 1. *)

SlotEnds == clock_count = CLKS_PER_BIT - 1

input_ready == ~busy \/ (bit_index = 9 /\ SlotEnds)

tx == IF busy THEN shift_register[bit_index] ELSE 1

----------------------------------------------------------------------------
(* The clock edge. *)

\* The start bit, the data with its lowest bit first, the stop bit.
Load(d) ==
  /\ shift_register' = [i \in 0 .. 9 |-> IF i = 0 THEN 0 ELSE IF i = 9 THEN 1 ELSE d[i - 1]]
  /\ busy' = TRUE
  /\ bit_index' = 0

Rest(input_valid, d) ==
  /\ ~busy
  /\ IF input_valid THEN Load(d) /\ clock_count' = 0 ELSE UNCHANGED vars

\* MUTANT: the stop bit is left out when another byte waits.
NextSlot_no_stop(input_valid, d) ==
  /\ busy /\ SlotEnds
  /\ clock_count' = 0
  /\ IF bit_index # 9 /\ ~(bit_index = 8 /\ input_valid)
     THEN bit_index' = bit_index + 1 /\ UNCHANGED <<shift_register, busy>>
     ELSE IF input_valid
     THEN Load(d)
     ELSE busy' = FALSE /\ UNCHANGED <<bit_index, shift_register>>

NextSlot(input_valid, d) ==
  /\ busy /\ SlotEnds
  /\ clock_count' = 0
  /\ IF bit_index # 9
     THEN bit_index' = bit_index + 1 /\ UNCHANGED <<shift_register, busy>>
     ELSE IF input_valid
     THEN Load(d)
     ELSE busy' = FALSE /\ UNCHANGED <<bit_index, shift_register>>

\* MUTANT: the counter is too narrow for its last value.
Hold_narrow ==
  /\ busy /\ ~SlotEnds
  /\ clock_count' = (clock_count + 1) % (CLKS_PER_BIT - 1)
  /\ UNCHANGED <<bit_index, shift_register, busy>>

Hold ==
  /\ busy /\ ~SlotEnds
  /\ clock_count' = clock_count + 1
  /\ UNCHANGED <<bit_index, shift_register, busy>>

Clock(input_valid, d) == Rest(input_valid, d) \/ NextSlot(input_valid, d) \/ Hold

Reset ==
  /\ clock_count' = 0 /\ bit_index' = 0
  /\ shift_register' = [i \in 0 .. 9 |-> 1] /\ busy' = FALSE

Next == Reset \/ \E valid \in BOOLEAN, d \in Byte : Clock(valid, d)

Spec == Init /\ [][Next]_vars

----------------------------------------------------------------------------
(* Properties. *)

\* The types of the registers; both counters stay below the constants they are
\* compared with and no bit outside the registers is addressed.
TypeOK ==
  /\ clock_count \in 0 .. CLKS_PER_BIT - 1 /\ bit_index \in 0 .. 9
  /\ shift_register \in [0 .. 9 -> Bit] /\ busy \in BOOLEAN

\* The cycles for which the byte is still on the wire, and that byte.
Remaining ==
  IF busy THEN 10 * CLKS_PER_BIT - (bit_index * CLKS_PER_BIT + clock_count) ELSE 0

Sent == [i \in 0 .. 7 |-> shift_register[i + 1]]

Sender == INSTANCE ByteSender WITH
  Data <- Byte, Idle <- [i \in 0 .. 7 |-> 1], BYTE_CYCLES <- 10 * CLKS_PER_BIT,
  remaining <- Remaining, data <- Sent

\* Slot by slot the transmitter is a sender that takes a byte exactly when it is
\* free or in the last cycle of the stop bit, and holds it unchanged for ten bits.
ImplementsSender == Sender!Spec
=============================================================================
