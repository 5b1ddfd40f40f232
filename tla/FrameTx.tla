------------------------------ MODULE FrameTx ------------------------------
(***************************************************************************)
(* rtl/common/frame_tx.sv: the Frame V0 transmitter.  It accepts a header, *)
(* emits the start bytes and the header, passes the payload bytes through  *)
(* as its source delivers them, and emits the CRC.  Every protected byte   *)
(* that leaves reaches the CRC engine one cycle later, through a feed      *)
(* register.  One step is one rising clock edge; the parameters of Clock   *)
(* are the input wires at that edge.                                       *)
(***************************************************************************)
EXTENDS FrameV0

CONSTANT COUNTER_MODULUS   \* the error counter wraps here (2^32)

TxAssumption == COUNTER_MODULUS \in Nat \ {0}

VARIABLES
  state,
  header_index, crc_index,
  message_type, flags, payload_length, payload_remaining,
  length_errors,
  crc_feed,         \* the feed register: valid, data, start, last
  crc_state, crc_output_valid, crc_output

frame == <<message_type, flags, payload_length>>
engine == <<crc_state, crc_output_valid, crc_output>>
vars == <<state, header_index, crc_index, frame, payload_remaining,
          length_errors, crc_feed, engine>>

CRC == INSTANCE Crc32cStream
         WITH output_valid_reg <- crc_output_valid, output_crc_reg <- crc_output

States == {"IDLE", "SOF_0", "SOF_1", "HEADER", "PAYLOAD", "WAIT_CRC", "CRC"}

Feed == [valid : BOOLEAN, data : Byte, start : BOOLEAN, last : BOOLEAN]
NoFeed == [valid |-> FALSE, data |-> 0, start |-> FALSE, last |-> FALSE]

Init ==
  /\ state = "IDLE"
  /\ header_index = 0 /\ crc_index = 0
  /\ message_type = 0 /\ flags = <<0, 0>> /\ payload_length = <<0, 0>>
  /\ payload_remaining = 0
  /\ length_errors = 0
  /\ crc_feed = NoFeed
  /\ CRC!Init

----------------------------------------------------------------------------
(* Wires. *)

frame_ready == state = "IDLE"

payload_ready(out_ready) == state = "PAYLOAD" /\ out_ready

out_valid(payload_valid) ==
  \/ state \in {"SOF_0", "SOF_1", "HEADER", "CRC"}
  \/ state = "PAYLOAD" /\ payload_valid

header_byte ==
  <<FRAME_VERSION, message_type, flags[1], flags[2],
    payload_length[1], payload_length[2]>>[header_index + 1]

out_data(payload_data) ==
  CASE state = "SOF_0"   -> FRAME_SOF_0
    [] state = "SOF_1"   -> FRAME_SOF_1
    [] state = "HEADER"  -> header_byte
    [] state = "PAYLOAD" -> payload_data
    [] state = "CRC"     -> crc_output[crc_index + 1]
    [] OTHER             -> 0

crc_result_ready == state = "WAIT_CRC"

\* The byte on the output is the last one the CRC covers.
LastProtected ==
  \/ state = "HEADER" /\ header_index = 5 /\ Value(payload_length) = 0
  \/ state = "PAYLOAD" /\ payload_remaining = 1

----------------------------------------------------------------------------
(* The arms of the state machine. *)

Goto(s) == state' = s

\* A header is accepted; one longer than the bound is counted and dropped.
Accept(type, fl, length) ==
  /\ state = "IDLE"
  /\ IF Value(length) > MAX_PAYLOAD_BYTES
     THEN /\ length_errors' = (length_errors + 1) % COUNTER_MODULUS
          /\ UNCHANGED <<state, frame, payload_remaining>>
     ELSE /\ message_type' = type
          /\ flags' = fl
          /\ payload_length' = length
          /\ payload_remaining' = Value(length)
          /\ Goto("SOF_0")
          /\ UNCHANGED length_errors
  /\ UNCHANGED <<header_index, crc_index>>

StartOfFrame ==
  /\ \/ state = "SOF_0" /\ Goto("SOF_1") /\ UNCHANGED header_index
     \/ state = "SOF_1" /\ Goto("HEADER") /\ header_index' = 0
  /\ UNCHANGED <<crc_index, frame, payload_remaining, length_errors>>

Header ==
  /\ state = "HEADER"
  /\ IF header_index = 5
     THEN /\ Goto(IF Value(payload_length) = 0 THEN "WAIT_CRC" ELSE "PAYLOAD")
          /\ UNCHANGED header_index
     ELSE header_index' = header_index + 1 /\ UNCHANGED state
  /\ UNCHANGED <<crc_index, frame, payload_remaining, length_errors>>

Payload ==
  /\ state = "PAYLOAD"
  /\ payload_remaining' = payload_remaining - 1
  /\ Goto(IF payload_remaining = 1 THEN "WAIT_CRC" ELSE "PAYLOAD")
  /\ UNCHANGED <<header_index, crc_index, frame, length_errors>>

WaitCrc ==
  /\ state = "WAIT_CRC"
  /\ IF crc_output_valid THEN crc_index' = 0 /\ Goto("CRC")
     ELSE UNCHANGED <<crc_index, state>>
  /\ UNCHANGED <<header_index, frame, payload_remaining, length_errors>>

CrcByte ==
  /\ state = "CRC"
  /\ IF crc_index = 3 THEN Goto("IDLE") /\ UNCHANGED crc_index
     ELSE crc_index' = crc_index + 1 /\ UNCHANGED state
  /\ UNCHANGED <<header_index, frame, payload_remaining, length_errors>>

----------------------------------------------------------------------------
(* The clock edge. *)

\* MUTANT: the byte fed is not marked as the first, so the engine goes on
\* from the CRC of the frame before.
FeedNext_no_start(sent, byte) ==
  crc_feed' = IF sent /\ state \in {"HEADER", "PAYLOAD"}
              THEN [valid |-> TRUE, data |-> byte, start |-> FALSE,
                    last |-> LastProtected]
              ELSE [crc_feed EXCEPT !.valid = FALSE]

\* A protected byte that leaves goes to the feed register.
FeedNext(sent, byte) ==
  crc_feed' = IF sent /\ state \in {"HEADER", "PAYLOAD"}
              THEN [valid |-> TRUE, data |-> byte,
                    start |-> state = "HEADER" /\ header_index = 0,
                    last |-> LastProtected]
              ELSE [crc_feed EXCEPT !.valid = FALSE]

CrcClock ==
  CRC!Clock(FALSE, crc_feed.valid, crc_feed.data, crc_feed.start, crc_feed.last,
            crc_result_ready)

Stall == UNCHANGED <<state, header_index, crc_index, frame, payload_remaining,
                     length_errors>>

Clock(frame_valid, type, fl, length, payload_valid, payload_data, out_ready) ==
  LET sent == out_valid(payload_valid) /\ out_ready
  IN  /\ CrcClock
      /\ FeedNext(sent, out_data(payload_data))
      /\ CASE frame_ready -> IF frame_valid THEN Accept(type, fl, length) ELSE Stall
           [] crc_result_ready -> WaitCrc
           [] OTHER -> IF sent THEN StartOfFrame \/ Header \/ Payload \/ CrcByte
                       ELSE Stall

Reset ==
  /\ Goto("IDLE")
  /\ header_index' = 0 /\ crc_index' = 0
  /\ message_type' = 0 /\ flags' = <<0, 0>> /\ payload_length' = <<0, 0>>
  /\ payload_remaining' = 0
  /\ length_errors' = 0
  /\ crc_feed' = NoFeed
  /\ CRC!Clear

Next ==
  \/ Reset
  \/ \E frame_valid, payload_valid, out_ready \in BOOLEAN,
        type, payload_data \in Byte, fl, length \in TwoBytes :
       Clock(frame_valid, type, fl, length, payload_valid, payload_data, out_ready)

Spec == Init /\ [][Next]_vars

----------------------------------------------------------------------------
(* Properties. *)

\* The types of the registers.
TypeOK ==
  /\ state \in States
  /\ header_index \in 0 .. 5 /\ crc_index \in 0 .. 3
  /\ message_type \in Byte /\ flags \in TwoBytes /\ payload_length \in TwoBytes
  /\ payload_remaining \in 0 .. MAX_PAYLOAD_BYTES
  /\ length_errors \in 0 .. COUNTER_MODULUS - 1
  /\ crc_feed \in Feed
  /\ crc_state \in Crc /\ crc_output_valid \in BOOLEAN
  /\ crc_output \in FourBytes

\* The feed register has no ready wire of its own: whenever it holds a byte the
\* engine accepts it, so no protected byte is missing from the CRC.
FeedNeverRefused == crc_feed.valid => CRC!input_ready(FALSE, crc_result_ready)

\* The engine's result appears while the transmitter waits for it and is
\* consumed there: outside the wait the result slot is empty, and in the wait
\* it is either there or one feed away.
ResultInTime ==
  /\ crc_output_valid => state = "WAIT_CRC"
  /\ state = "WAIT_CRC" => crc_output_valid # (crc_feed.valid /\ crc_feed.last)
=============================================================================
