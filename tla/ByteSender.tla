----------------------------- MODULE ByteSender -----------------------------
(***************************************************************************)
(* What the UART transmitter promises the FIFO before it: it takes a byte  *)
(* whenever it is free or in the last cycle of the byte before, and is     *)
(* busy with it for BYTE_CYCLES cycles.                                    *)
(***************************************************************************)
EXTENDS Naturals

CONSTANTS
  Data,         \* the bytes
  Idle,         \* what the data register holds after a reset
  BYTE_CYCLES   \* a start bit, eight data bits and a stop bit

VARIABLES remaining, data

vars == <<remaining, data>>

Init == remaining = 0 /\ data = Idle

input_ready == remaining <= 1

Clock(input_valid, d) ==
  IF input_ready /\ input_valid
  THEN remaining' = BYTE_CYCLES /\ data' = d
  ELSE remaining' = (IF input_ready THEN 0 ELSE remaining - 1) /\ UNCHANGED data

Reset == remaining' = 0 /\ data' = Idle

Next == Reset \/ \E valid \in BOOLEAN, d \in Data : Clock(valid, d)

Spec == Init /\ [][Next]_vars
=============================================================================
