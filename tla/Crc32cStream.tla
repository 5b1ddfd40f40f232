---------------------------- MODULE Crc32cStream ----------------------------
(***************************************************************************)
(* rtl/common/crc32c_stream.sv: the CRC engine, one byte per clock edge.   *)
(* The result of the byte marked last waits in a single output slot; while *)
(* it waits and is not taken, no byte is accepted.  The engine is driven   *)
(* by the frame receiver and the frame transmitter, which pass it its      *)
(* wires; both tie input_empty low.                                        *)
(***************************************************************************)
EXTENDS Naturals, Sequences

CONSTANTS CRC_INITIAL, CrcStep(_, _), CrcBytes(_)

VARIABLES crc_state, output_valid_reg, output_crc_reg

Init ==
  /\ crc_state = CRC_INITIAL
  /\ output_valid_reg = FALSE
  /\ output_crc_reg = <<0, 0, 0, 0>>

input_ready(reset, output_ready) == ~reset /\ (~output_valid_reg \/ output_ready)

PacketCrc(start) == IF start THEN CRC_INITIAL ELSE crc_state

Clear ==
  /\ crc_state' = CRC_INITIAL
  /\ output_valid_reg' = FALSE
  /\ output_crc_reg' = <<0, 0, 0, 0>>

Take(byte, start, last) ==
  LET next_crc == CrcStep(PacketCrc(start), byte)
  IN  /\ crc_state' = next_crc
      /\ output_valid_reg' = last
      /\ output_crc_reg' = IF last THEN CrcBytes(next_crc) ELSE output_crc_reg

Rest(output_ready) ==
  /\ output_valid_reg' = (output_valid_reg /\ ~output_ready)
  /\ UNCHANGED <<crc_state, output_crc_reg>>

Clock(reset, input_valid, byte, start, last, output_ready) ==
  IF reset THEN Clear
  ELSE IF input_valid /\ input_ready(reset, output_ready)
       THEN Take(byte, start, last)
       ELSE Rest(output_ready)
=============================================================================
