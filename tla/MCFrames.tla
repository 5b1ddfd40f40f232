------------------------------ MODULE MCFrames ------------------------------
(***************************************************************************)
(* The two ends of a frame, one of them chosen at the beginning: the       *)
(* receiver on its wire (FrameRxWire) or the transmitter between its       *)
(* source and its wire (FrameTxWire).  Bytes have three values, the CRC    *)
(* three states.                                                           *)
(***************************************************************************)
EXTENDS FrameRxWire

VARIABLES
  component,
  tx_state, tx_header_index, tx_crc_index, tx_message_type, tx_flags,
  tx_payload_length, tx_payload_remaining, tx_length_errors, tx_crc_feed,
  tx_crc_state, tx_crc_output_valid, tx_crc_output, tx_job, tx_used, tx_sent

\* Every payload under two headers, and one frame that is too long.
TxOffers ==
  {f \in Frame : f.type # 2 /\ f.flags = <<1 - f.type, 2>>}
    \cup {[type |-> 2, flags |-> <<0, 0>>, payload |-> <<0, 0, 0>>]}

Tx == INSTANCE FrameTxWire WITH
  Offers <- TxOffers,
  state <- tx_state, header_index <- tx_header_index, crc_index <- tx_crc_index,
  message_type <- tx_message_type, flags <- tx_flags,
  payload_length <- tx_payload_length,
  payload_remaining <- tx_payload_remaining, length_errors <- tx_length_errors,
  crc_feed <- tx_crc_feed, crc_state <- tx_crc_state,
  crc_output_valid <- tx_crc_output_valid, crc_output <- tx_crc_output,
  job <- tx_job, used <- tx_used, sent <- tx_sent

\* The transmitter's instance is one that its proofs are about.
ASSUME TxInstance == Tx!TxAssumption /\ Tx!OffersAssumption

MCCrc == 0 .. 2
MCCrcStep(c, b) == (2 * c + b + 1) % 3
MCCrcBytes(c) == <<c, (c + 1) % 2, 0, c % 2>>

\* SOF_0 is 1, SOF_1 is 2, the version 0.  The length field may say 0 to 2,
\* and 3 to 5, all above the longest payload.
\* The message type and the two flag bytes are three different ones.
MCOffered ==
  [s \in States |->
     CASE s \in SearchStates \cup {"VERSION", "LENGTH_LOW", "CRC_0"} -> Byte
       [] s \in {"LENGTH_HIGH", "PAYLOAD", "CRC_1"} -> {0, 1}
       [] s = "MESSAGE_TYPE" -> {1}
       [] s = "FLAGS_LOW" -> {2}
       [] OTHER -> {0}]

\* The receiver rests with one value in its memory when it is not chosen.
MCInit ==
  /\ component \in {"Rx", "Tx"}
  /\ WInit /\ Tx!WInit
  /\ component = "Tx" => \A i \in DOMAIN payload_memory : payload_memory[i] = 0

tx == <<tx_state, tx_header_index, tx_crc_index, tx_message_type, tx_flags,
        tx_payload_length, tx_payload_remaining, tx_length_errors, tx_crc_feed,
        tx_crc_state, tx_crc_output_valid, tx_crc_output, tx_job, tx_used, tx_sent>>

MCNext ==
  /\ UNCHANGED component
  /\ \/ component = "Rx" /\ WNext /\ UNCHANGED tx
     \/ component = "Tx" /\ Tx!WNext /\ UNCHANGED wvars

allvars == <<component, wvars, tx>>

\* The clock runs.  The consumer of the receiver keeps taking what it is
\* offered, but the wire owes it no byte; the source of the transmitter delivers
\* the payload it announced and the wire takes bytes, but nobody owes a frame.
FairStep ==
  /\ UNCHANGED component
  /\ \/ component = "Rx" /\ WCycle(TRUE) /\ UNCHANGED tx
     \/ /\ component = "Tx" /\ Tx!WClock(FALSE, Tx!NoJob, TRUE, TRUE)
        /\ UNCHANGED wvars

MCSpec == MCInit /\ [][MCNext]_allvars /\ WF_allvars(FairStep)

----------------------------------------------------------------------------
(* Properties. *)

\* The transmitter's: what has left for a frame is the beginning of its encoding,
\* however the source and the wire stall, and in the end all of it; no protected
\* byte is refused by the CRC engine, whose result comes while it is awaited.
EncodingSent ==
  component = "Tx" =>
    Tx!TypeOK /\ Tx!EncodingSent /\ Tx!FeedNeverRefused /\ Tx!ResultInTime

\* With the timeout on, a reception ends whatever the wire does, by a complete
\* frame, an error or the timeout; and a frame accepted for transmission leaves
\* completely: again and again no frame is under way.
UnderWay == receiving_frame \/ tx_state # "IDLE"
FramesEnd == []<>~UnderWay
=============================================================================
