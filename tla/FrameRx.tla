------------------------------ MODULE FrameRx ------------------------------
(***************************************************************************)
(* rtl/common/frame_rx.sv: the Frame V0 receiver.  It searches the byte    *)
(* stream for the two start bytes, collects the header, the payload and    *)
(* the four CRC bytes, compares the CRC with the one its crc32c_stream     *)
(* engine computed on the way, and only then offers the frame and, byte by *)
(* byte, its payload.  One step is one rising clock edge; the parameters   *)
(* of Clock are the input wires at that edge.                              *)
(***************************************************************************)
EXTENDS FrameV0

CONSTANTS
  IDLE_TIMEOUT_CYCLES,  \* 0 turns the timeout off
  COUNTER_MODULUS       \* the error counters wrap here (2^32)

\* A counter of one value could not count.
ASSUME RxAssumption ==
  IDLE_TIMEOUT_CYCLES \in Nat /\ COUNTER_MODULUS \in Nat /\ COUNTER_MODULUS >= 2

VARIABLES
  state,
  message_type, flags, payload_length,  \* the header; the lengths as byte pairs
  expected_crc,                         \* the four CRC bytes received
  payload_memory, payload_write_index, payload_read_index,
  idle_count,
  errors,                               \* the four error counters
  crc_clear,                            \* resets the engine for one cycle
  crc_state, crc_output_valid, crc_output

engine == <<crc_state, crc_output_valid, crc_output>>
header == <<message_type, flags, payload_length>>
payload == <<payload_memory, payload_write_index>>
vars == <<state, header, expected_crc, payload, payload_read_index, idle_count,
          errors, crc_clear, engine>>

CRC == INSTANCE Crc32cStream
         WITH output_valid_reg <- crc_output_valid, output_crc_reg <- crc_output

SearchStates == {"SEARCH_0", "SEARCH_1"}
HeaderStates == {"VERSION", "MESSAGE_TYPE", "FLAGS_LOW", "FLAGS_HIGH",
                 "LENGTH_LOW", "LENGTH_HIGH"}
CrcStates    == {"CRC_0", "CRC_1", "CRC_2", "CRC_3"}
OutputStates == {"OUTPUT_FRAME", "OUTPUT_PAYLOAD"}
States == SearchStates \cup HeaderStates \cup {"PAYLOAD"} \cup CrcStates
            \cup {"VALIDATE"} \cup OutputStates

ErrorKinds == {"crc", "length", "version", "timeout"}

\* payload_memory is a block RAM: reset leaves it alone.
Init ==
  /\ state = "SEARCH_0"
  /\ message_type = 0 /\ flags = <<0, 0>> /\ payload_length = <<0, 0>>
  /\ expected_crc = <<0, 0, 0, 0>>
  /\ payload_memory \in [0 .. MAX_PAYLOAD_BYTES - 1 -> Byte]
  /\ payload_write_index = 0 /\ payload_read_index = 0
  /\ idle_count = 0
  /\ errors = [kind \in ErrorKinds |-> 0]
  /\ crc_clear = FALSE
  /\ CRC!Init

----------------------------------------------------------------------------
(* Wires. *)

crc_input_state == state \in HeaderStates \cup {"PAYLOAD"}
receiving_frame == crc_input_state \/ state \in CrcStates
crc_output_ready == state = "VALIDATE"

in_ready ==
  IF crc_input_state THEN CRC!input_ready(crc_clear, crc_output_ready)
  ELSE state \in SearchStates \cup CrcStates

incoming_length(b) == <<payload_length[1], b>>

last_payload_byte(index) == index + 1 = Value(payload_length)

crc_input_last(b) ==
  \/ state = "LENGTH_HIGH" /\ Value(incoming_length(b)) = 0
  \/ state = "PAYLOAD" /\ last_payload_byte(payload_write_index)

frame_valid == state = "OUTPUT_FRAME"
payload_valid == state = "OUTPUT_PAYLOAD"
payload_data == payload_memory[payload_read_index]
payload_last == payload_valid /\ last_payload_byte(payload_read_index)

----------------------------------------------------------------------------
(* The arms of the state machine that take the byte b. *)

Goto(s) == state' = s

Count(kind) ==
  errors' = [errors EXCEPT ![kind] = (@ + 1) % COUNTER_MODULUS]

Search0(b) ==
  /\ state = "SEARCH_0"
  /\ Goto(IF b = FRAME_SOF_0 THEN "SEARCH_1" ELSE "SEARCH_0")
  /\ UNCHANGED <<header, expected_crc, payload, errors>>

\* MUTANT: a second SOF_0 is not taken as the start of the frame.
Search1_no_overlap(b) ==
  /\ state = "SEARCH_1"
  /\ Goto(IF b = FRAME_SOF_1 THEN "VERSION" ELSE "SEARCH_0")
  /\ UNCHANGED <<header, expected_crc, payload, errors>>

\* A repeated SOF_0 may still be the first byte of a frame.
Search1(b) ==
  /\ state = "SEARCH_1"
  /\ Goto(IF b = FRAME_SOF_1 THEN "VERSION"
          ELSE IF b = FRAME_SOF_0 THEN "SEARCH_1" ELSE "SEARCH_0")
  /\ UNCHANGED <<header, expected_crc, payload, errors>>

Version(b) ==
  /\ state = "VERSION"
  /\ \/ b = FRAME_VERSION /\ Goto("MESSAGE_TYPE") /\ UNCHANGED errors
     \/ b # FRAME_VERSION /\ Goto("SEARCH_0") /\ Count("version")
  /\ UNCHANGED <<header, expected_crc, payload>>

MessageType(b) ==
  /\ state = "MESSAGE_TYPE"
  /\ message_type' = b
  /\ Goto("FLAGS_LOW")
  /\ UNCHANGED <<flags, payload_length, expected_crc, payload, errors>>

FlagsLow(b) ==
  /\ state = "FLAGS_LOW"
  /\ flags' = [flags EXCEPT ![1] = b]
  /\ Goto("FLAGS_HIGH")
  /\ UNCHANGED <<message_type, payload_length, expected_crc, payload, errors>>

FlagsHigh(b) ==
  /\ state = "FLAGS_HIGH"
  /\ flags' = [flags EXCEPT ![2] = b]
  /\ Goto("LENGTH_LOW")
  /\ UNCHANGED <<message_type, payload_length, expected_crc, payload, errors>>

LengthLow(b) ==
  /\ state = "LENGTH_LOW"
  /\ payload_length' = [payload_length EXCEPT ![1] = b]
  /\ Goto("LENGTH_HIGH")
  /\ UNCHANGED <<message_type, flags, expected_crc, payload, errors>>

LengthHigh(b) ==
  LET length == Value(incoming_length(b))
  IN  /\ state = "LENGTH_HIGH"
      /\ payload_length' = incoming_length(b)
      /\ payload_write_index' = 0
      /\ \/ length > MAX_PAYLOAD_BYTES /\ Goto("SEARCH_0") /\ Count("length")
         \/ length = 0 /\ Goto("CRC_0") /\ UNCHANGED errors
         \/ length \in 1 .. MAX_PAYLOAD_BYTES /\ Goto("PAYLOAD") /\ UNCHANGED errors
      /\ UNCHANGED <<message_type, flags, expected_crc, payload_memory>>

Payload(b) ==
  /\ state = "PAYLOAD"
  /\ payload_memory' = [payload_memory EXCEPT ![payload_write_index] = b]
  /\ IF last_payload_byte(payload_write_index)
     THEN Goto("CRC_0") /\ UNCHANGED payload_write_index
     ELSE payload_write_index' = payload_write_index + 1 /\ UNCHANGED state
  /\ UNCHANGED <<header, expected_crc, errors>>

\* CRC_0 .. CRC_3, one arm for each byte of the word.
CrcByte(k, b) ==
  /\ state = <<"CRC_0", "CRC_1", "CRC_2", "CRC_3">>[k]
  /\ expected_crc' = [expected_crc EXCEPT ![k] = b]
  /\ Goto(<<"CRC_1", "CRC_2", "CRC_3", "VALIDATE">>[k])
  /\ UNCHANGED <<header, payload, errors>>

TakeByte(b) ==
  /\ \/ Search0(b) \/ Search1(b) \/ Version(b) \/ MessageType(b)
     \/ FlagsLow(b) \/ FlagsHigh(b) \/ LengthLow(b) \/ LengthHigh(b)
     \/ Payload(b) \/ \E k \in 1 .. 4 : CrcByte(k, b)
  /\ idle_count' = 0
  /\ crc_clear' = FALSE
  /\ UNCHANGED payload_read_index

----------------------------------------------------------------------------
(* No byte this cycle. *)

\* MUTANT: the CRC result of the abandoned frame is left in the engine.
AbandonCrc_forgotten == crc_clear' = FALSE

AbandonCrc == crc_clear' = TRUE

\* MUTANT: a timeout is not counted.
Timeout_uncounted ==
  /\ receiving_frame
  /\ IDLE_TIMEOUT_CYCLES # 0 /\ idle_count >= IDLE_TIMEOUT_CYCLES - 1
  /\ Goto("SEARCH_0")
  /\ idle_count' = 0
  /\ AbandonCrc
  /\ UNCHANGED errors

Timeout ==
  /\ receiving_frame
  /\ IDLE_TIMEOUT_CYCLES # 0 /\ idle_count >= IDLE_TIMEOUT_CYCLES - 1
  /\ Goto("SEARCH_0")
  /\ idle_count' = 0
  /\ Count("timeout")
  /\ AbandonCrc

\* MUTANT: the count starts again at the limit.
WaitReceiving_wraps ==
  /\ receiving_frame
  /\ idle_count' = IF IDLE_TIMEOUT_CYCLES = 0 THEN idle_count
                   ELSE (idle_count + 1) % IDLE_TIMEOUT_CYCLES
  /\ crc_clear' = FALSE
  /\ UNCHANGED <<state, errors>>

WaitReceiving ==
  /\ receiving_frame
  /\ IDLE_TIMEOUT_CYCLES = 0 \/ idle_count < IDLE_TIMEOUT_CYCLES - 1
  /\ idle_count' = IF IDLE_TIMEOUT_CYCLES = 0 THEN idle_count ELSE idle_count + 1
  /\ crc_clear' = FALSE
  /\ UNCHANGED <<state, errors>>

WaitSearching ==
  /\ state \in SearchStates
  /\ idle_count' = 0
  /\ crc_clear' = FALSE
  /\ UNCHANGED <<state, errors>>

Wait ==
  /\ Timeout \/ WaitReceiving \/ WaitSearching
  /\ UNCHANGED <<header, expected_crc, payload, payload_read_index>>

----------------------------------------------------------------------------
(* The frame is complete. *)

\* MUTANT: only the first three CRC bytes are compared.
CrcMatches_three == \A k \in 1 .. 3 : crc_output[k] = expected_crc[k]

CrcMatches == crc_output = expected_crc

Validate ==
  /\ state = "VALIDATE"
  /\ IF crc_output_valid
     THEN IF CrcMatches
          THEN Goto("OUTPUT_FRAME") /\ payload_read_index' = 0 /\ UNCHANGED errors
          ELSE Goto("SEARCH_0") /\ Count("crc") /\ UNCHANGED payload_read_index
     ELSE UNCHANGED <<state, payload_read_index, errors>>

OutputFrame(frame_ready) ==
  /\ state = "OUTPUT_FRAME"
  /\ Goto(IF ~frame_ready THEN "OUTPUT_FRAME"
          ELSE IF Value(payload_length) = 0 THEN "SEARCH_0" ELSE "OUTPUT_PAYLOAD")
  /\ UNCHANGED <<payload_read_index, errors>>

OutputPayload(payload_ready) ==
  /\ state = "OUTPUT_PAYLOAD"
  /\ IF payload_ready /\ last_payload_byte(payload_read_index)
     THEN Goto("SEARCH_0") /\ UNCHANGED payload_read_index
     ELSE /\ payload_read_index' =
               IF payload_ready THEN payload_read_index + 1 ELSE payload_read_index
          /\ UNCHANGED state
  /\ UNCHANGED errors

Deliver(frame_ready, payload_ready) ==
  /\ Validate \/ OutputFrame(frame_ready) \/ OutputPayload(payload_ready)
  /\ idle_count' = 0
  /\ crc_clear' = FALSE
  /\ UNCHANGED <<header, expected_crc, payload>>

----------------------------------------------------------------------------

CrcClock(in_valid, in_data) ==
  CRC!Clock(crc_clear, in_valid /\ crc_input_state, in_data,
            state = "VERSION", crc_input_last(in_data), crc_output_ready)

Clock(in_valid, in_data, frame_ready, payload_ready) ==
  /\ CrcClock(in_valid, in_data)
  /\ \/ in_valid /\ in_ready /\ TakeByte(in_data)
     \/ ~(in_valid /\ in_ready) /\ Wait
     \/ Deliver(frame_ready, payload_ready)

Reset ==
  /\ Goto("SEARCH_0")
  /\ message_type' = 0 /\ flags' = <<0, 0>> /\ payload_length' = <<0, 0>>
  /\ expected_crc' = <<0, 0, 0, 0>>
  /\ payload_write_index' = 0 /\ payload_read_index' = 0
  /\ idle_count' = 0
  /\ errors' = [kind \in ErrorKinds |-> 0]
  /\ crc_clear' = FALSE
  /\ CRC!Clear
  /\ UNCHANGED payload_memory

Next ==
  \/ Reset
  \/ \E in_valid, frame_ready, payload_ready \in BOOLEAN, b \in Byte :
       Clock(in_valid, b, frame_ready, payload_ready)

Spec == Init /\ [][Next]_vars

----------------------------------------------------------------------------
(* Properties. *)

\* The states in which the length has passed its check.
CheckedStates == {"PAYLOAD"} \cup CrcStates \cup {"VALIDATE"} \cup OutputStates

\* The types of the registers; an index used on the payload memory is inside
\* it, and the length it runs up to is one the memory can hold.
TypeOK ==
  /\ state \in States
  /\ message_type \in Byte /\ flags \in TwoBytes /\ payload_length \in TwoBytes
  /\ expected_crc \in FourBytes
  /\ payload_memory \in [0 .. MAX_PAYLOAD_BYTES - 1 -> Byte]
  /\ payload_write_index \in 0 .. MAX_PAYLOAD_BYTES
  /\ payload_read_index \in 0 .. MAX_PAYLOAD_BYTES
  /\ idle_count \in Nat
  /\ errors \in [ErrorKinds -> 0 .. COUNTER_MODULUS - 1]
  /\ crc_clear \in BOOLEAN
  /\ crc_state \in Crc /\ crc_output_valid \in BOOLEAN
  /\ crc_output \in FourBytes
  /\ state \in CheckedStates => Value(payload_length) <= MAX_PAYLOAD_BYTES
  /\ state = "PAYLOAD" => payload_write_index < Value(payload_length)
  /\ state = "OUTPUT_FRAME" => payload_read_index = 0
  /\ state = "OUTPUT_PAYLOAD" => payload_read_index < Value(payload_length)

\* While a frame is being received the receiver takes a byte every cycle: no
\* CRC result of this frame, nor one left behind by a frame abandoned on a
\* timeout, ever closes the input (the sender cannot wait: it is a UART).
NeverSelfStalls == receiving_frame => in_ready

\* The engine holds a result exactly from the last protected byte to the
\* comparison; one left by a timeout is cleared the cycle after it.
ResultOwned ==
  /\ state \in CrcStates \cup {"VALIDATE"} => crc_output_valid
  /\ crc_output_valid => state \in CrcStates \cup {"VALIDATE"} \/ crc_clear
  /\ crc_clear => state = "SEARCH_0"

\* Every frame abandoned between its start bytes and the comparison of its CRC
\* is counted once, in the counter of its cause; a step that abandons none counts
\* none.
CountsDiscard ==
  LET counted == {kind \in ErrorKinds : errors'[kind] # errors[kind]}
  IN  IF (receiving_frame \/ state = "VALIDATE") /\ state' = "SEARCH_0"
      THEN \E kind \in ErrorKinds :
             /\ counted = {kind}
             /\ errors'[kind] = (errors[kind] + 1) % COUNTER_MODULUS
      ELSE counted = {}

\* Outside resets, no frame is given up without a count and none is counted that
\* was not given up: the four counters are all that tells of such frames.
DiscardsCounted == [][Reset \/ CountsDiscard]_vars

=============================================================================
