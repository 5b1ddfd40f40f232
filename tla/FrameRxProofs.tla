--------------------------- MODULE FrameRxProofs ---------------------------
(***************************************************************************)
(* Proofs about FrameRx for every byte radix, payload bound, timeout and   *)
(* CRC function: the registers stay in range, the CRC engine's result      *)
(* belongs to the frame being checked, the input never closes while a      *)
(* frame is received, what is offered is a frame whose encoding was heard, *)
(* what is thrown away is no beginning of one, and each frame given up is  *)
(* counted.  The last theorem takes over what FrameTxProofs says of the    *)
(* transmitter.                                                            *)
(***************************************************************************)
EXTENDS MCFrames, FrameV0Proofs

\* TypeOK and the ownership of the result are inductive together.
IInv == TypeOK /\ ResultOwned

USE DEF SearchStates, HeaderStates, CrcStates, OutputStates, CheckedStates

\* Counting keeps the counters in their range.
LEMMA CountType ==
  ASSUME NEW kind \in ErrorKinds, errors \in [ErrorKinds -> 0 .. COUNTER_MODULUS - 1],
         Count(kind)
  PROVE  errors' \in [ErrorKinds -> 0 .. COUNTER_MODULUS - 1]
<1>1. (errors[kind] + 1) % COUNTER_MODULUS \in 0 .. COUNTER_MODULUS - 1
  BY RxAssumption
<1> QED BY <1>1 DEF Count

\* The engine's registers keep their types, whatever drives it.
LEMMA EngineType ==
  ASSUME TypeOK, NEW in_valid \in BOOLEAN, NEW b \in Byte, CrcClock(in_valid, b)
  PROVE  /\ crc_state' \in Crc
         /\ crc_output_valid' \in BOOLEAN
         /\ crc_output' \in FourBytes
<1>1. <<0, 0, 0, 0>> \in FourBytes
  BY ByteAssumption DEF FourBytes, Byte
<1>2. \A c \in Crc : CrcStep(c, b) \in Crc /\ CrcBytes(c) \in FourBytes
  BY CrcAssumption
<1>3. CRC_INITIAL \in Crc
  BY CrcAssumption
<1>4. crc_input_last(b) \in BOOLEAN
  BY DEF crc_input_last
<1> QED
  BY <1>1, <1>2, <1>3, <1>4
  DEF TypeOK, CrcClock, CRC!Clock, CRC!Clear, CRC!Take, CRC!Rest, CRC!PacketCrc

\* What the engine's output flag becomes.
LEMMA EngineFlag ==
  ASSUME IInv, NEW in_valid \in BOOLEAN, NEW b \in Byte, CrcClock(in_valid, b)
  PROVE  /\ crc_clear => crc_output_valid' = FALSE
         /\ ~crc_clear /\ in_valid /\ crc_input_state => crc_output_valid' = crc_input_last(b)
         /\ ~crc_clear /\ ~(in_valid /\ crc_input_state) =>
              crc_output_valid' = (crc_output_valid /\ state # "VALIDATE")
<1>1. crc_input_state => ~crc_output_valid \/ crc_clear
  BY DEF IInv, ResultOwned, crc_input_state
<1> QED
  BY <1>1 DEF CrcClock, CRC!Clock, CRC!Clear, CRC!Take, CRC!Rest,
              CRC!input_ready, crc_output_ready, IInv, TypeOK

\* The input is open during a reception.
LEMMA Open == IInv => NeverSelfStalls
BY DEF IInv, TypeOK, ResultOwned, NeverSelfStalls, receiving_frame, in_ready,
       crc_input_state, CRC!input_ready

----------------------------------------------------------------------------
(* One lemma per kind of cycle. *)

\* A byte taken in the search, the header or the CRC, or written to the memory.
LEMMA TakeByteTypes ==
  ASSUME IInv, NEW b \in Byte, TakeByte(b)
  PROVE  /\ state' \in States
         /\ message_type' \in Byte /\ flags' \in TwoBytes /\ payload_length' \in TwoBytes
         /\ expected_crc' \in FourBytes
         /\ payload_memory' \in [0 .. MAX_PAYLOAD_BYTES - 1 -> Byte]
         /\ payload_write_index' \in 0 .. MAX_PAYLOAD_BYTES
         /\ payload_read_index' \in 0 .. MAX_PAYLOAD_BYTES
         /\ idle_count' \in Nat
         /\ errors' \in [ErrorKinds -> 0 .. COUNTER_MODULUS - 1]
         /\ crc_clear' = FALSE
         /\ state' \notin OutputStates
         /\ state' \in CheckedStates => Value(payload_length') <= MAX_PAYLOAD_BYTES
         /\ state' = "PAYLOAD" => payload_write_index' < Value(payload_length')
<1> USE PayloadAssumption DEF IInv, TypeOK, States, Goto
<1> DEFINE P == /\ state' \in States
                /\ message_type' \in Byte /\ flags' \in TwoBytes
                /\ payload_length' \in TwoBytes
                /\ expected_crc' \in FourBytes
                /\ payload_memory' \in [0 .. MAX_PAYLOAD_BYTES - 1 -> Byte]
                /\ payload_write_index' \in 0 .. MAX_PAYLOAD_BYTES
                /\ errors' \in [ErrorKinds -> 0 .. COUNTER_MODULUS - 1]
                /\ state' \notin OutputStates
                /\ state' \in CheckedStates =>
                     Value(payload_length') <= MAX_PAYLOAD_BYTES
                /\ state' = "PAYLOAD" => payload_write_index' < Value(payload_length')
<1> SUFFICES P
  <2>1. idle_count' = 0 /\ crc_clear' = FALSE /\ UNCHANGED payload_read_index
    BY DEF TakeByte
  <2> QED BY <2>1
<1>1. CASE Search0(b) \/ Search1(b)
  BY <1>1 DEF Search0, Search1, header, payload
<1>2. CASE Version(b)
  BY <1>2, CountType DEF Version, header, payload, ErrorKinds
<1>3. CASE MessageType(b)
  BY <1>3 DEF MessageType, payload
<1>4. CASE FlagsLow(b) \/ FlagsHigh(b) \/ LengthLow(b)
  BY <1>4 DEF FlagsLow, FlagsHigh, LengthLow, payload, TwoBytes
<1>5. CASE LengthHigh(b)
  <2>1. incoming_length(b) \in TwoBytes
    BY DEF incoming_length, TwoBytes
  <2>2. Value(incoming_length(b)) \in Nat
    BY <2>1, ValueType
  <2>3. errors' \in [ErrorKinds -> 0 .. COUNTER_MODULUS - 1]
    BY <1>5, CountType DEF LengthHigh, ErrorKinds
  <2> QED BY <1>5, <2>1, <2>2, <2>3 DEF LengthHigh
<1>6. CASE Payload(b)
  <2>1. Value(payload_length) \in Nat
    BY ValueType
  <2>2. UNCHANGED <<message_type, flags, payload_length, expected_crc, errors>>
    BY <1>6 DEF Payload, header
  <2>3. payload_memory' \in [0 .. MAX_PAYLOAD_BYTES - 1 -> Byte]
    BY <1>6 DEF Payload
  <2>4. /\ state' \in {"PAYLOAD", "CRC_0"}
        /\ payload_write_index' \in 0 .. MAX_PAYLOAD_BYTES
        /\ state' = "PAYLOAD" => payload_write_index' < Value(payload_length)
    BY <1>6, <2>1 DEF Payload, last_payload_byte
  <2>5. state = "PAYLOAD"
    BY <1>6 DEF Payload
  <2> QED BY <2>2, <2>3, <2>4, <2>5
<1>7. CASE \E k \in 1 .. 4 : CrcByte(k, b)
  <2> PICK k \in 1 .. 4 : CrcByte(k, b)
    BY <1>7
  <2>1. expected_crc' \in FourBytes
    BY DEF CrcByte, FourBytes
  <2>2. state' \in {"CRC_1", "CRC_2", "CRC_3", "VALIDATE"}
    BY DEF CrcByte
  <2> QED BY <2>1, <2>2 DEF CrcByte, header, payload
<1> HIDE DEF P
<1> QED BY <1>1, <1>2, <1>3, <1>4, <1>5, <1>6, <1>7 DEF TakeByte

\* A cycle without a byte, while one is waited for.
LEMMA WaitTypes ==
  ASSUME IInv, Wait
  PROVE  /\ state' \in States
         /\ idle_count' \in Nat
         /\ errors' \in [ErrorKinds -> 0 .. COUNTER_MODULUS - 1]
         /\ crc_clear' \in BOOLEAN
         /\ crc_clear' => state' = "SEARCH_0"
         /\ state' = state \/ (state' = "SEARCH_0" /\ crc_clear')
         /\ state' \notin OutputStates /\ state # "VALIDATE"
         /\ UNCHANGED <<header, expected_crc, payload, payload_read_index>>
<1> USE DEF IInv, TypeOK, Goto
<1>1. CASE Timeout
  <2>1. errors' \in [ErrorKinds -> 0 .. COUNTER_MODULUS - 1]
    BY <1>1, CountType DEF Timeout, ErrorKinds
  <2> QED BY <1>1, <2>1 DEF Timeout, AbandonCrc, Wait, receiving_frame,
                           crc_input_state, States
<1>2. CASE WaitReceiving
  <2>1. idle_count' \in Nat
    BY <1>2 DEF WaitReceiving
  <2>2. state \in HeaderStates \cup {"PAYLOAD"} \cup CrcStates
    BY <1>2 DEF WaitReceiving, receiving_frame, crc_input_state
  <2> QED BY <1>2, <2>1, <2>2 DEF WaitReceiving, Wait
<1>3. CASE WaitSearching
  BY <1>3 DEF WaitSearching, Wait, States
<1> QED BY <1>1, <1>2, <1>3 DEF Wait

\* A cycle of the comparison or of the hand-over to the consumer.
LEMMA DeliverTypes ==
  ASSUME IInv, NEW fr \in BOOLEAN, NEW pr \in BOOLEAN, Deliver(fr, pr)
  PROVE  /\ state \in {"VALIDATE"} \cup OutputStates
         /\ state' \in {"VALIDATE", "SEARCH_0"} \cup OutputStates
         /\ state' = "VALIDATE" => state = "VALIDATE" /\ ~crc_output_valid
         /\ payload_read_index' \in 0 .. MAX_PAYLOAD_BYTES
         /\ state' = "OUTPUT_FRAME" => payload_read_index' = 0
         /\ state' = "OUTPUT_PAYLOAD" => payload_read_index' < Value(payload_length)
         /\ idle_count' \in Nat
         /\ errors' \in [ErrorKinds -> 0 .. COUNTER_MODULUS - 1]
         /\ crc_clear' = FALSE
         /\ UNCHANGED <<header, expected_crc, payload>>
<1> USE PayloadAssumption DEF IInv, TypeOK, Goto
<1>1. CASE Validate
  <2>1. errors' \in [ErrorKinds -> 0 .. COUNTER_MODULUS - 1]
    BY <1>1, CountType DEF Validate, ErrorKinds
  <2> QED BY <1>1, <2>1 DEF Validate, Deliver
<1>2. CASE OutputFrame(fr)
  <2>1. Value(payload_length) \in Nat
    BY ValueType
  <2> QED BY <1>2, <2>1 DEF OutputFrame, Deliver
<1>3. CASE OutputPayload(pr)
  <2>1. Value(payload_length) \in Nat
    BY ValueType
  <2> QED BY <1>3, <2>1 DEF OutputPayload, Deliver, last_payload_byte
<1> QED BY <1>1, <1>2, <1>3 DEF Deliver

----------------------------------------------------------------------------
(* The invariant. *)

\* The invariant at power-up.
LEMMA InitIInv == Init => IInv
<1> SUFFICES ASSUME Init PROVE IInv
  OBVIOUS
<1>1. /\ 0 \in Byte
      /\ <<0, 0>> \in TwoBytes
      /\ <<0, 0, 0, 0>> \in FourBytes
  BY ByteAssumption DEF Byte, TwoBytes, FourBytes
<1>2. 0 \in 0 .. COUNTER_MODULUS - 1
  BY RxAssumption
<1>3. errors \in [ErrorKinds -> 0 .. COUNTER_MODULUS - 1]
  BY <1>2 DEF Init
<1>4. state = "SEARCH_0" /\ state \in States
  BY DEF Init, States
<1>5. /\ crc_state \in Crc /\ crc_output_valid = FALSE /\ crc_output \in FourBytes
      /\ crc_clear = FALSE
  BY <1>1, CrcAssumption DEF Init, CRC!Init
<1>6. TypeOK
  <2>1. /\ message_type \in Byte /\ flags \in TwoBytes /\ payload_length \in TwoBytes
        /\ expected_crc \in FourBytes /\ idle_count \in Nat
        /\ payload_memory \in [0 .. MAX_PAYLOAD_BYTES - 1 -> Byte]
    BY <1>1 DEF Init
  <2>2. /\ payload_write_index \in 0 .. MAX_PAYLOAD_BYTES
        /\ payload_read_index \in 0 .. MAX_PAYLOAD_BYTES
    BY PayloadAssumption DEF Init
  <2>3. state \notin CheckedStates
    BY <1>4
  <2> QED BY <1>3, <1>4, <1>5, <2>1, <2>2, <2>3 DEF TypeOK
<1> QED BY <1>4, <1>5, <1>6 DEF IInv, ResultOwned

\* The invariant after a reset.
LEMMA ResetIInv == IInv /\ Reset => IInv'
<1> SUFFICES ASSUME IInv, Reset PROVE IInv'
  OBVIOUS
<1>1. /\ 0 \in Byte
      /\ <<0, 0>> \in TwoBytes
      /\ <<0, 0, 0, 0>> \in FourBytes
  BY ByteAssumption DEF Byte, TwoBytes, FourBytes
<1>2. 0 \in 0 .. COUNTER_MODULUS - 1
  BY RxAssumption
<1>3. errors' \in [ErrorKinds -> 0 .. COUNTER_MODULUS - 1]
  BY <1>2 DEF Reset
<1>4. state' = "SEARCH_0" /\ state' \in States
  BY DEF Reset, Goto, States
<1>5. /\ crc_state' \in Crc /\ crc_output_valid' = FALSE /\ crc_output' \in FourBytes
      /\ crc_clear' = FALSE
  BY <1>1, CrcAssumption DEF Reset, CRC!Clear
<1>6. TypeOK'
  <2>1. /\ message_type' \in Byte /\ flags' \in TwoBytes /\ payload_length' \in TwoBytes
        /\ expected_crc' \in FourBytes /\ idle_count' \in Nat
        /\ payload_memory' \in [0 .. MAX_PAYLOAD_BYTES - 1 -> Byte]
    BY <1>1 DEF Reset, IInv, TypeOK
  <2>2. /\ payload_write_index' \in 0 .. MAX_PAYLOAD_BYTES
        /\ payload_read_index' \in 0 .. MAX_PAYLOAD_BYTES
    BY PayloadAssumption DEF Reset
  <2>3. state' \notin CheckedStates
    BY <1>4
  <2> QED BY <1>3, <1>4, <1>5, <2>1, <2>2, <2>3 DEF TypeOK
<1> QED BY <1>4, <1>5, <1>6 DEF IInv, ResultOwned

\* The invariant after a clock edge, state by state.
LEMMA ClockIInv ==
  ASSUME IInv, NEW in_valid \in BOOLEAN, NEW b \in Byte,
         NEW fr \in BOOLEAN, NEW pr \in BOOLEAN, Clock(in_valid, b, fr, pr)
  PROVE  IInv'
<1>1. /\ crc_state' \in Crc
      /\ crc_output_valid' \in BOOLEAN
      /\ crc_output' \in FourBytes
  BY EngineType DEF Clock, IInv
<1>2. /\ crc_clear => crc_output_valid' = FALSE
      /\ ~crc_clear /\ in_valid /\ crc_input_state => crc_output_valid' = crc_input_last(b)
      /\ ~crc_clear /\ ~(in_valid /\ crc_input_state) =>
           crc_output_valid' = (crc_output_valid /\ state # "VALIDATE")
  BY EngineFlag DEF Clock
<1>3. CASE in_valid /\ in_ready /\ TakeByte(b)
  <2>1. TypeOK'
    BY <1>1, <1>3, TakeByteTypes DEF TypeOK
  <2>2. crc_clear' = FALSE
    BY <1>3, TakeByteTypes
  <2>3. ResultOwned'
    <3>1. CASE crc_input_state
      <4>1. ~crc_clear /\ crc_output_valid' = crc_input_last(b)
        BY <1>2, <1>3, <3>1 DEF IInv, ResultOwned, crc_input_state
      <4>2. state' \in CrcStates \cup {"VALIDATE"} <=> crc_input_last(b)
        <5>1. CASE state = "LENGTH_HIGH"
          <6>1. LengthHigh(b)
            BY <1>3, <5>1 DEF TakeByte, Search0, Search1, Version, MessageType,
               FlagsLow, FlagsHigh, LengthLow, Payload, CrcByte
          <6>2. Value(incoming_length(b)) \in Nat
            BY ValueType DEF IInv, TypeOK, TwoBytes, incoming_length
          <6> QED BY <5>1, <6>1, <6>2, PayloadAssumption
                  DEF LengthHigh, Goto, crc_input_last
        <5>2. CASE state = "PAYLOAD"
          <6>1. Payload(b)
            BY <1>3, <5>2 DEF TakeByte, Search0, Search1, Version, MessageType,
               FlagsLow, FlagsHigh, LengthLow, LengthHigh, CrcByte
          <6> QED BY <5>2, <6>1 DEF Payload, Goto, crc_input_last
        <5>3. CASE state \in HeaderStates \ {"LENGTH_HIGH"}
          BY <1>3, <5>3 DEF TakeByte, Search0, Search1, Version, MessageType,
             FlagsLow, FlagsHigh, LengthLow, LengthHigh, Payload, CrcByte, Goto,
             crc_input_last
        <5> QED BY <3>1, <5>1, <5>2, <5>3 DEF crc_input_state
      <4> QED BY <2>2, <4>1, <4>2 DEF ResultOwned
    <3>2. CASE state \in CrcStates
      <4>1. \E k \in 1 .. 4 : CrcByte(k, b)
        BY <1>3, <3>2 DEF TakeByte, Search0, Search1, Version, MessageType,
           FlagsLow, FlagsHigh, LengthLow, LengthHigh, Payload
      <4>2. state' \in {"CRC_1", "CRC_2", "CRC_3", "VALIDATE"}
        BY <4>1 DEF CrcByte, Goto
      <4>3. crc_output_valid' = TRUE
        BY <1>2, <3>2 DEF IInv, ResultOwned, crc_input_state
      <4> QED BY <2>2, <4>2, <4>3 DEF ResultOwned
    <3>3. CASE state \in SearchStates
      <4>1. state' \in SearchStates \cup {"VERSION"}
        BY <1>3, <3>3 DEF TakeByte, Search0, Search1, Version, MessageType,
           FlagsLow, FlagsHigh, LengthLow, LengthHigh, Payload, CrcByte, Goto
      <4>2. crc_output_valid' = FALSE
        BY <1>2, <3>3 DEF IInv, TypeOK, ResultOwned, crc_input_state
      <4> QED BY <2>2, <4>1, <4>2 DEF ResultOwned
    <3> QED BY <1>3, <3>1, <3>2, <3>3 DEF in_ready
  <2> QED BY <2>1, <2>3 DEF IInv
<1>4. CASE ~(in_valid /\ in_ready) /\ Wait
  <2>1. /\ state' \in States
        /\ idle_count' \in Nat
        /\ errors' \in [ErrorKinds -> 0 .. COUNTER_MODULUS - 1]
        /\ crc_clear' \in BOOLEAN
        /\ crc_clear' => state' = "SEARCH_0"
        /\ state' = state \/ (state' = "SEARCH_0" /\ crc_clear')
        /\ state' \notin OutputStates /\ state # "VALIDATE"
        /\ UNCHANGED <<header, expected_crc, payload, payload_read_index>>
    BY <1>4, WaitTypes
  <2>2. TypeOK'
    BY <1>1, <2>1 DEF IInv, TypeOK, header, payload
  <2>3. receiving_frame => in_ready
    BY Open DEF NeverSelfStalls
  <2>4. ResultOwned'
    <3>1. crc_output_valid' =>
            crc_output_valid /\ ~crc_clear
      BY <1>2, <1>4, <2>3 DEF receiving_frame, IInv, TypeOK
    <3>2. state \in CrcStates => crc_output_valid'
      BY <1>2 DEF IInv, ResultOwned, crc_input_state
    <3> QED BY <2>1, <3>1, <3>2 DEF IInv, ResultOwned
  <2> QED BY <2>2, <2>4 DEF IInv
<1>5. CASE Deliver(fr, pr)
  <2>1. /\ state \in {"VALIDATE"} \cup OutputStates
        /\ state' \in {"VALIDATE", "SEARCH_0"} \cup OutputStates
        /\ state' = "VALIDATE" => state = "VALIDATE" /\ ~crc_output_valid
        /\ payload_read_index' \in 0 .. MAX_PAYLOAD_BYTES
        /\ state' = "OUTPUT_FRAME" => payload_read_index' = 0
        /\ state' = "OUTPUT_PAYLOAD" => payload_read_index' < Value(payload_length)
        /\ idle_count' \in Nat
        /\ errors' \in [ErrorKinds -> 0 .. COUNTER_MODULUS - 1]
        /\ crc_clear' = FALSE
        /\ UNCHANGED <<header, expected_crc, payload>>
    BY <1>5, DeliverTypes
  <2>2. crc_output_valid' = FALSE
    BY <1>2, <2>1 DEF IInv, TypeOK, ResultOwned, crc_input_state
  <2>3. state' # "VALIDATE"
    BY <2>1 DEF IInv, ResultOwned
  <2>4. ResultOwned'
    BY <2>1, <2>2, <2>3 DEF ResultOwned
  <2>5. TypeOK'
    BY <1>1, <2>1 DEF IInv, TypeOK, header, payload, States
  <2> QED BY <2>4, <2>5 DEF IInv
<1> QED BY <1>3, <1>4, <1>5 DEF Clock

\* The invariant after any step.
LEMMA StepIInv == IInv /\ [Next]_vars => IInv'
<1> SUFFICES ASSUME IInv, [Next]_vars PROVE IInv'
  OBVIOUS
<1>1. CASE Reset
  BY <1>1, ResetIInv
<1>2. CASE \E in_valid, fr, pr \in BOOLEAN, b \in Byte : Clock(in_valid, b, fr, pr)
  BY <1>2, ClockIInv
<1>3. CASE UNCHANGED vars
  BY <1>3 DEF vars, header, payload, engine, IInv, TypeOK, ResultOwned
<1> QED BY <1>1, <1>2, <1>3 DEF Next

\* The registers of the receiver stay in range and every index it uses on the
\* payload memory is inside the memory, whatever bytes the wire brings.
THEOREM TypeCorrect == Spec => []TypeOK
<1>1. IInv => TypeOK
  BY DEF IInv
<1> QED BY <1>1, InitIInv, StepIInv, PTL DEF Spec

\* A CRC result in the engine belongs to the frame being checked.
THEOREM ResultIsOwned == Spec => []ResultOwned
<1>1. IInv => ResultOwned
  BY DEF IInv
<1> QED BY <1>1, InitIInv, StepIInv, PTL DEF Spec

\* The receiver takes a byte in every cycle of a reception.
THEOREM InputStaysOpen == Spec => []NeverSelfStalls
<1> QED BY InitIInv, StepIInv, Open, PTL DEF Spec

----------------------------------------------------------------------------
(* The counters. *)

\* A counter that is incremented changes, and it alone.
LEMMA Counted ==
  ASSUME TypeOK, NEW kind \in ErrorKinds, Count(kind)
  PROVE  /\ errors'[kind] = (errors[kind] + 1) % COUNTER_MODULUS
         /\ {k \in ErrorKinds : errors'[k] # errors[k]} = {kind}
<1> DEFINE M == COUNTER_MODULUS
<1>1. M \in Nat /\ M >= 2 /\ errors[kind] \in 0 .. M - 1
  BY RxAssumption DEF TypeOK
<1>2. /\ errors'[kind] = (errors[kind] + 1) % M
      /\ \A k \in ErrorKinds : k # kind => errors'[k] = errors[k]
  BY DEF Count, TypeOK
<1> HIDE DEF M
<1>3. \A n \in 0 .. M - 1 : (n + 1) % M # n
  <2> TAKE n \in 0 .. M - 1
  <2>1. CASE n + 1 = M
    BY <1>1, <2>1, Z3
  <2>2. CASE n + 1 < M
    BY <1>1, <2>2, Z3
  <2> QED BY <1>1, <2>1, <2>2
<1>4. errors'[kind] # errors[kind]
  BY <1>1, <1>2, <1>3
<1> QED BY <1>2, <1>4 DEF M

\* Errors that stay as they are count nothing.
LEMMA NotCounted ==
  ASSUME UNCHANGED errors
  PROVE  {k \in ErrorKinds : errors'[k] # errors[k]} = {}
OBVIOUS

\* A step that counts one kind of error as it gives a frame up, or that gives
\* none up and counts none, is as it should be.
LEMMA CountsOne ==
  ASSUME TypeOK, NEW kind \in ErrorKinds, Count(kind),
         receiving_frame \/ state = "VALIDATE", state' = "SEARCH_0"
  PROVE  CountsDiscard
BY Counted DEF CountsDiscard

\* A step that gives no frame up counts none.
LEMMA CountsNone ==
  ASSUME UNCHANGED errors, ~((receiving_frame \/ state = "VALIDATE") /\ state' = "SEARCH_0")
  PROVE  CountsDiscard
BY NotCounted DEF CountsDiscard

\* Every cycle counts what it discards.
LEMMA DiscardStep ==
  ASSUME IInv, [Next]_vars
  PROVE  [Reset \/ CountsDiscard]_vars
<1> USE DEF receiving_frame, crc_input_state
<1>0. TypeOK /\ ErrorKinds = {"crc", "length", "version", "timeout"}
  BY DEF IInv, ErrorKinds
<1>1. ASSUME NEW b \in Byte, TakeByte(b) PROVE CountsDiscard
  <2>1. CASE Search0(b) \/ Search1(b)
    <3>1. UNCHANGED errors /\ state \in SearchStates
      BY <2>1 DEF Search0, Search1
    <3> QED BY <3>1, CountsNone
  <2>2. CASE Version(b)
    <3>1. CASE Count("version") /\ state' = "SEARCH_0"
      BY <1>0, <2>2, <3>1, CountsOne DEF Version
    <3>2. CASE UNCHANGED errors /\ state' = "MESSAGE_TYPE"
      BY <3>2, CountsNone
    <3> QED BY <2>2, <3>1, <3>2 DEF Version, Goto
  <2>3. CASE MessageType(b) \/ FlagsLow(b) \/ FlagsHigh(b) \/ LengthLow(b)
    <3>1. UNCHANGED errors /\ state' # "SEARCH_0"
      BY <2>3 DEF MessageType, FlagsLow, FlagsHigh, LengthLow, Goto
    <3> QED BY <3>1, CountsNone
  <2>4. CASE LengthHigh(b)
    <3>1. CASE Count("length") /\ state' = "SEARCH_0"
      BY <1>0, <2>4, <3>1, CountsOne DEF LengthHigh
    <3>2. CASE UNCHANGED errors /\ state' \in {"CRC_0", "PAYLOAD"}
      BY <3>2, CountsNone
    <3> QED BY <2>4, <3>1, <3>2 DEF LengthHigh, Goto
  <2>5. CASE Payload(b)
    <3>1. UNCHANGED errors /\ state' \in {"CRC_0", "PAYLOAD"}
      BY <2>5 DEF Payload, Goto
    <3> QED BY <3>1, CountsNone
  <2>6. CASE \E k \in 1 .. 4 : CrcByte(k, b)
    <3>1. UNCHANGED errors /\ state' \in {"CRC_1", "CRC_2", "CRC_3", "VALIDATE"}
      BY <2>6 DEF CrcByte, Goto
    <3> QED BY <3>1, CountsNone
  <2> QED BY <1>1, <2>1, <2>2, <2>3, <2>4, <2>5, <2>6 DEF TakeByte
<1>2. ASSUME Wait PROVE CountsDiscard
  <2>1. CASE Timeout
    BY <1>0, <2>1, CountsOne DEF Timeout, Goto
  <2>2. CASE WaitReceiving
    <3>1. UNCHANGED errors /\ state' = state /\ state # "SEARCH_0"
      BY <2>2 DEF WaitReceiving
    <3> QED BY <3>1, CountsNone
  <2>3. CASE WaitSearching
    <3>1. UNCHANGED errors /\ state \in SearchStates
      BY <2>3 DEF WaitSearching
    <3> QED BY <3>1, CountsNone
  <2> QED BY <1>2, <2>1, <2>2, <2>3 DEF Wait
<1>3. ASSUME NEW fr \in BOOLEAN, NEW pr \in BOOLEAN, Deliver(fr, pr) PROVE CountsDiscard
  <2>1. CASE Validate
    <3>1. CASE Count("crc") /\ state' = "SEARCH_0"
      BY <1>0, <2>1, <3>1, CountsOne DEF Validate
    <3>2. CASE UNCHANGED errors /\ state' # "SEARCH_0"
      BY <3>2, CountsNone
    <3> QED BY <2>1, <3>1, <3>2 DEF Validate, Goto
  <2>2. CASE OutputFrame(fr) \/ OutputPayload(pr)
    <3>1. UNCHANGED errors /\ state \in OutputStates
      BY <2>2 DEF OutputFrame, OutputPayload
    <3> QED BY <3>1, CountsNone
  <2> QED BY <1>3, <2>1, <2>2 DEF Deliver
<1>4. ASSUME NEW in_valid \in BOOLEAN, NEW b \in Byte,
             NEW fr \in BOOLEAN, NEW pr \in BOOLEAN, Clock(in_valid, b, fr, pr)
      PROVE  CountsDiscard
  BY <1>1, <1>2, <1>3, <1>4 DEF Clock
<1> QED BY <1>4 DEF Next

\* For every timeout, payload bound and CRC function and every counter of two
\* values or more (2^32 in frame_rx.sv): a frame given up between its start bytes
\* and its CRC is counted once and under its cause, and nothing else is counted.
THEOREM DiscardsAreCounted == Spec => DiscardsCounted
<1>1. IInv /\ [Next]_vars => [Reset \/ CountsDiscard]_vars
  BY DiscardStep
<1> QED BY <1>1, InitIInv, StepIInv, PTL DEF Spec, DiscardsCounted

----------------------------------------------------------------------------
(* What was heard. *)

\* How many bytes of the frame have been heard in this state.
HeardLength ==
  LET length == Value(payload_length)
  IN  CASE state = "SEARCH_0"     -> 0
        [] state = "SEARCH_1"     -> 1
        [] state = "VERSION"      -> 2
        [] state = "MESSAGE_TYPE" -> 3
        [] state = "FLAGS_LOW"    -> 4
        [] state = "FLAGS_HIGH"   -> 5
        [] state = "LENGTH_LOW"   -> 6
        [] state = "LENGTH_HIGH"  -> 7
        [] state = "PAYLOAD"      -> 8 + payload_write_index
        [] state = "CRC_0"        -> 8 + length
        [] state = "CRC_1"        -> 9 + length
        [] state = "CRC_2"        -> 10 + length
        [] state = "CRC_3"        -> 11 + length
        [] OTHER                  -> 12 + length

\* The bytes of the header, in their places, as far as they were heard.
HeardHeader ==
  /\ Len(heard) >= 1 => heard[1] = FRAME_SOF_0
  /\ Len(heard) >= 2 => heard[2] = FRAME_SOF_1
  /\ Len(heard) >= 3 => heard[3] = FRAME_VERSION
  /\ Len(heard) >= 4 => heard[4] = message_type
  /\ Len(heard) >= 5 => heard[5] = flags[1]
  /\ Len(heard) >= 6 => heard[6] = flags[2]
  /\ Len(heard) >= 7 => heard[7] = payload_length[1]
  /\ Len(heard) >= 8 => heard[8] = payload_length[2]

\* The bytes of the payload and of the CRC, in theirs.
HeardBody ==
  LET length == Value(payload_length)
  IN  /\ \A i \in 1 .. length :
           8 + i <= Len(heard) => heard[8 + i] = payload_memory[i - 1]
      /\ \A k \in 1 .. 4 :
           8 + length + k <= Len(heard) => heard[8 + length + k] = expected_crc[k]

\* The register of the engine follows the protected bytes; its result is their
\* CRC, and a frame on the output has passed the comparison with it.
HeardCrc ==
  LET covered == SubSeq(heard, 3, 8 + Value(payload_length))
  IN  /\ state \in (HeaderStates \ {"VERSION"}) \cup {"PAYLOAD"} =>
           crc_state = CrcAfter(SubSeq(heard, 3, Len(heard)))
      /\ state \in CrcStates \cup {"VALIDATE"} => crc_output = CrcOver(covered)
      /\ state \in OutputStates => expected_crc = CrcOver(covered)

\* The registers and the history agree.
Heard ==
  /\ heard \in Seq(Byte) /\ Len(heard) = HeardLength
  /\ HeardHeader /\ HeardBody /\ HeardCrc

\* What the invariant needs when the search has begun again.
LEMMA HeardNone ==
  ASSUME TypeOK', state' = "SEARCH_0", heard' = << >>
  PROVE  Heard'
<1>1. << >> \in Seq(Byte) /\ Len(<< >>) = 0
  OBVIOUS
<1>2. Value(payload_length') \in Nat
  BY ValueType DEF TypeOK
<1>3. HeardLength' = 0 /\ HeardHeader'
  BY <1>1 DEF HeardLength, HeardHeader
<1>4. HeardBody'
  BY <1>1, <1>2 DEF HeardBody
<1>5. HeardCrc'
  BY DEF HeardCrc
<1> QED BY <1>1, <1>3, <1>4, <1>5 DEF Heard

\* One more byte was heard.
LEMMA HeardGrows ==
  ASSUME Heard, NEW b \in Byte, heard' = heard \o <<b>>
  PROVE  /\ heard' \in Seq(Byte) /\ Len(heard) \in Nat /\ Len(heard') = Len(heard) + 1
         /\ \A i \in 1 .. Len(heard) : heard'[i] = heard[i]
         /\ heard'[Len(heard) + 1] = b
<1>1. heard \in Seq(Byte) /\ Len(heard) \in Nat
  BY LenProperties DEF Heard
<1> QED BY <1>1, OneMore

\* The engine takes a protected byte and follows.
LEMMA EngineFollows ==
  ASSUME IInv, Heard, NEW b \in Byte, crc_input_state, CrcClock(TRUE, b),
         heard' = heard \o <<b>>
  PROVE  /\ crc_state' = CrcAfter(SubSeq(heard', 3, Len(heard')))
         /\ crc_input_last(b) => crc_output' = CrcOver(SubSeq(heard', 3, Len(heard')))
<1> DEFINE r == SubSeq(heard, 3, Len(heard))
<1>1. heard \in Seq(Byte) /\ Len(heard) \in Nat /\ Len(heard) >= 2
  <2>1. payload_write_index \in Nat
    BY PayloadAssumption DEF IInv, TypeOK
  <2>2. CASE state = "PAYLOAD"
    BY <2>1, <2>2, LenProperties DEF Heard, HeardLength
  <2>3. CASE state \in HeaderStates
    <3>1. HeardLength \in {2, 3, 4, 5, 6, 7}
      BY <2>3 DEF HeardLength
    <3> QED BY <3>1 DEF Heard
  <2> QED BY <2>2, <2>3 DEF crc_input_state
<1>2. CRC!PacketCrc(state = "VERSION") = CrcAfter(r)
  <2>1. CASE state = "VERSION"
    <3>1. Len(heard) = 2
      BY <2>1 DEF Heard, HeardLength
    <3>2. r = << >>
      BY <3>1, SubSeqEmpty
    <3> QED BY <2>1, <3>2, CrcAfterNone DEF CRC!PacketCrc
  <2>2. CASE state # "VERSION"
    BY <2>2 DEF Heard, HeardCrc, CRC!PacketCrc, crc_input_state
  <2> QED BY <2>1, <2>2
<1>3. /\ crc_state' = CrcStep(CRC!PacketCrc(state = "VERSION"), b)
      /\ crc_input_last(b) => crc_output' = CrcBytes(crc_state')
  <2>1. crc_clear = FALSE
    BY DEF IInv, TypeOK, ResultOwned, crc_input_state
  <2>2. CRC!input_ready(crc_clear, crc_output_ready)
    BY <2>1 DEF IInv, ResultOwned, crc_input_state, CRC!input_ready
  <2>3. CRC!Take(b, state = "VERSION", crc_input_last(b))
    BY <2>1, <2>2 DEF CrcClock, CRC!Clock
  <2> QED BY <2>3 DEF CRC!Take
<1>4. r \in Seq(Byte) /\ SubSeq(heard', 3, Len(heard')) = Append(r, b)
  <2>1. Len(heard') = Len(heard) + 1
    BY HeardGrows
  <2>2. r \in Seq(Byte) /\ SubSeq(heard \o <<b>>, 3, Len(heard) + 1) = Append(r, b)
    BY <1>1, OneMoreFromThird
  <2> QED BY <2>1, <2>2
<1> HIDE DEF r
<1>5. CrcAfter(Append(r, b)) = CrcStep(CrcAfter(r), b)
  BY <1>4, CrcAfterAppend
<1> QED BY <1>2, <1>3, <1>4, <1>5 DEF CrcOver

\* The engine outside the protected bytes keeps its result.
LEMMA EngineKeeps ==
  ASSUME IInv, NEW in_valid \in BOOLEAN, NEW b \in Byte, CrcClock(in_valid, b),
         ~(in_valid /\ crc_input_state), ~crc_clear
  PROVE  crc_state' = crc_state /\ crc_output' = crc_output
BY DEF CrcClock, CRC!Clock, CRC!Rest

\* A byte of the header, in its place.
LEMMA HeardInHeader ==
  ASSUME IInv, TypeOK', Heard, NEW b \in Byte, CrcClock(TRUE, b),
         heard' = heard \o <<b>>, state \in HeaderStates, state' # "SEARCH_0",
         \/ Version(b) \/ MessageType(b) \/ FlagsLow(b) \/ FlagsHigh(b)
         \/ LengthLow(b) \/ LengthHigh(b)
  PROVE  Heard'
<1>1. /\ heard' \in Seq(Byte) /\ Len(heard) \in Nat /\ Len(heard') = Len(heard) + 1
      /\ \A i \in 1 .. Len(heard) : heard'[i] = heard[i]
      /\ heard'[Len(heard) + 1] = b
  BY HeardGrows
<1>2. /\ crc_state' = CrcAfter(SubSeq(heard', 3, Len(heard')))
      /\ crc_input_last(b) => crc_output' = CrcOver(SubSeq(heard', 3, Len(heard')))
  BY EngineFollows DEF crc_input_state
<1>3. Value(payload_length') \in Nat
  BY ValueType DEF TypeOK
<1>4. Len(heard) = HeardLength /\ HeardHeader
  BY DEF Heard
<1>5. CASE Version(b)
  <2>1. state = "VERSION" /\ state' = "MESSAGE_TYPE" /\ b = FRAME_VERSION
    BY <1>5 DEF Version, Goto
  <2>2. Len(heard) = 2 /\ Len(heard') = 3 /\ HeardLength' = 3
    BY <1>1, <1>4, <2>1 DEF HeardLength
  <2>3. HeardHeader'
    BY <1>1, <1>4, <2>1, <2>2 DEF HeardHeader
  <2>4. HeardBody'
    BY <1>3, <2>2 DEF HeardBody
  <2>5. HeardCrc'
    BY <1>2, <2>1 DEF HeardCrc
  <2> QED BY <1>1, <2>2, <2>3, <2>4, <2>5 DEF Heard
<1>6. CASE MessageType(b)
  <2>1. state = "MESSAGE_TYPE" /\ state' = "FLAGS_LOW" /\ message_type' = b
    BY <1>6 DEF MessageType, Goto
  <2>2. Len(heard) = 3 /\ Len(heard') = 4 /\ HeardLength' = 4
    BY <1>1, <1>4, <2>1 DEF HeardLength
  <2>3. HeardHeader'
    BY <1>1, <1>4, <2>1, <2>2 DEF HeardHeader
  <2>4. HeardBody'
    BY <1>3, <2>2 DEF HeardBody
  <2>5. HeardCrc'
    BY <1>2, <2>1 DEF HeardCrc
  <2> QED BY <1>1, <2>2, <2>3, <2>4, <2>5 DEF Heard
<1>7. CASE FlagsLow(b)
  <2>1. /\ state = "FLAGS_LOW" /\ state' = "FLAGS_HIGH" /\ flags'[1] = b
        /\ message_type' = message_type
    BY <1>7 DEF FlagsLow, Goto, IInv, TypeOK, TwoBytes
  <2>2. Len(heard) = 4 /\ Len(heard') = 5 /\ HeardLength' = 5
    BY <1>1, <1>4, <2>1 DEF HeardLength
  <2>3. HeardHeader'
    BY <1>1, <1>4, <2>1, <2>2 DEF HeardHeader
  <2>4. HeardBody'
    BY <1>3, <2>2 DEF HeardBody
  <2>5. HeardCrc'
    BY <1>2, <2>1 DEF HeardCrc
  <2> QED BY <1>1, <2>2, <2>3, <2>4, <2>5 DEF Heard
<1>8. CASE FlagsHigh(b)
  <2>1. /\ state = "FLAGS_HIGH" /\ state' = "LENGTH_LOW" /\ flags'[2] = b
        /\ flags'[1] = flags[1] /\ message_type' = message_type
    BY <1>8 DEF FlagsHigh, Goto, IInv, TypeOK, TwoBytes
  <2>2. Len(heard) = 5 /\ Len(heard') = 6 /\ HeardLength' = 6
    BY <1>1, <1>4, <2>1 DEF HeardLength
  <2>3. HeardHeader'
    BY <1>1, <1>4, <2>1, <2>2 DEF HeardHeader
  <2>4. HeardBody'
    BY <1>3, <2>2 DEF HeardBody
  <2>5. HeardCrc'
    BY <1>2, <2>1 DEF HeardCrc
  <2> QED BY <1>1, <2>2, <2>3, <2>4, <2>5 DEF Heard
<1>9. CASE LengthLow(b)
  <2>1. /\ state = "LENGTH_LOW" /\ state' = "LENGTH_HIGH" /\ payload_length'[1] = b
        /\ flags' = flags /\ message_type' = message_type
    BY <1>9 DEF LengthLow, Goto, IInv, TypeOK, TwoBytes
  <2>2. Len(heard) = 6 /\ Len(heard') = 7 /\ HeardLength' = 7
    BY <1>1, <1>4, <2>1 DEF HeardLength
  <2>3. HeardHeader'
    BY <1>1, <1>4, <2>1, <2>2 DEF HeardHeader
  <2>4. HeardBody'
    BY <1>3, <2>2 DEF HeardBody
  <2>5. HeardCrc'
    BY <1>2, <2>1 DEF HeardCrc
  <2> QED BY <1>1, <2>2, <2>3, <2>4, <2>5 DEF Heard
<1>10. CASE LengthHigh(b)
  <2>1. /\ state = "LENGTH_HIGH" /\ payload_length' = incoming_length(b)
        /\ flags' = flags /\ message_type' = message_type
    BY <1>10 DEF LengthHigh
  <2>2. payload_length'[1] = payload_length[1] /\ payload_length'[2] = b
    BY <2>1 DEF incoming_length
  <2>3. \/ state' = "CRC_0" /\ Value(payload_length') = 0 /\ crc_input_last(b)
        \/ state' = "PAYLOAD" /\ payload_write_index' = 0
    BY <1>10, <2>1 DEF LengthHigh, Goto, crc_input_last
  <2>4. Len(heard) = 7 /\ Len(heard') = 8 /\ HeardLength' = 8
    BY <1>1, <1>4, <2>1, <2>3 DEF HeardLength
  <2>5. HeardHeader'
    BY <1>1, <1>4, <2>1, <2>2, <2>4 DEF HeardHeader
  <2>6. HeardBody'
    BY <1>3, <2>4 DEF HeardBody
  <2>7. HeardCrc'
    <3>1. CASE state' = "CRC_0"
      <4>1. 8 + Value(payload_length') = Len(heard') /\ crc_input_last(b)
        BY <2>3, <2>4, <3>1
      <4> QED BY <1>2, <3>1, <4>1 DEF HeardCrc
    <3>2. CASE state' = "PAYLOAD"
      BY <1>2, <3>2 DEF HeardCrc
    <3> QED BY <2>3, <3>1, <3>2
  <2> QED BY <1>1, <2>4, <2>5, <2>6, <2>7 DEF Heard
<1> QED BY <1>5, <1>6, <1>7, <1>8, <1>9, <1>10

\* A byte of the payload, in its place.
LEMMA HeardInPayload ==
  ASSUME IInv, TypeOK', Heard, NEW b \in Byte, CrcClock(TRUE, b),
         heard' = heard \o <<b>>, Payload(b)
  PROVE  Heard'
<1> DEFINE length == Value(payload_length)
           w == payload_write_index
<1>1. /\ heard' \in Seq(Byte) /\ Len(heard) \in Nat /\ Len(heard') = Len(heard) + 1
      /\ \A i \in 1 .. Len(heard) : heard'[i] = heard[i]
      /\ heard'[Len(heard) + 1] = b
  BY HeardGrows
<1>2. /\ state = "PAYLOAD" /\ UNCHANGED <<message_type, flags, payload_length, expected_crc>>
      /\ payload_memory' = [payload_memory EXCEPT ![w] = b]
      /\ \/ w + 1 = length /\ state' = "CRC_0" /\ w' = w
         \/ w + 1 # length /\ state' = "PAYLOAD" /\ w' = w + 1
  BY DEF Payload, Goto, header, last_payload_byte
<1>3. /\ crc_state' = CrcAfter(SubSeq(heard', 3, Len(heard')))
      /\ crc_input_last(b) => crc_output' = CrcOver(SubSeq(heard', 3, Len(heard')))
  BY <1>2, EngineFollows DEF crc_input_state
<1>4. /\ length \in Nat /\ w \in Nat /\ w < length
      /\ w \in 0 .. MAX_PAYLOAD_BYTES - 1
      /\ payload_memory \in [0 .. MAX_PAYLOAD_BYTES - 1 -> Byte]
  <2>1. length \in Nat /\ w \in Nat /\ w < length /\ length <= MAX_PAYLOAD_BYTES
    BY <1>2, ValueType, PayloadAssumption DEF IInv, TypeOK
  <2> QED BY <2>1, PayloadAssumption DEF IInv, TypeOK
<1>5. length' = length
  BY <1>2
<1>6. Len(heard) = 8 + w /\ HeardHeader
  BY <1>2 DEF Heard, HeardLength
<1>7. /\ \A i \in 1 .. length : 8 + i <= Len(heard) => heard[8 + i] = payload_memory[i - 1]
      /\ \A k \in 1 .. 4 : 8 + length + k <= Len(heard) => heard[8 + length + k] = expected_crc[k]
  BY DEF Heard, HeardBody
<1> HIDE DEF length, w
<1>8. Len(heard') = 9 + w
  BY <1>1, <1>4, <1>6
<1>9. HeardLength' = 9 + w
  <2>1. CASE state' = "CRC_0" /\ w + 1 = length
    BY <1>4, <1>5, <2>1 DEF HeardLength, length
  <2>2. CASE state' = "PAYLOAD" /\ w' = w + 1
    BY <1>4, <2>2 DEF HeardLength, w
  <2> QED BY <1>2, <2>1, <2>2
<1>10. HeardHeader'
  <2>1. \A i \in 1 .. 8 : heard'[i] = heard[i]
    BY <1>1, <1>4, <1>6
  <2> QED BY <1>2, <1>4, <1>6, <1>8, <2>1 DEF HeardHeader
<1>11. \A i \in 1 .. length : 8 + i <= Len(heard') => heard'[8 + i] = payload_memory'[i - 1]
  <2> TAKE i \in 1 .. length
  <2>1. CASE i <= w
    <3>1. 8 + i \in 1 .. Len(heard) /\ 8 + i <= Len(heard) /\ i - 1 # w
          /\ i - 1 \in 0 .. MAX_PAYLOAD_BYTES - 1
      BY <1>4, <1>6, <2>1, PayloadAssumption
    <3>2. payload_memory'[i - 1] = payload_memory[i - 1]
      BY <1>2, <1>4, <3>1
    <3> QED BY <1>1, <1>7, <3>1, <3>2
  <2>2. CASE i = w + 1
    <3>1. 8 + i = Len(heard) + 1 /\ i - 1 = w
      BY <1>4, <1>6, <2>2
    <3>2. payload_memory'[w] = b
      BY <1>2, <1>4
    <3> QED BY <1>1, <3>1, <3>2
  <2>3. CASE i > w + 1
    BY <1>4, <1>8, <2>3
  <2> QED BY <1>4, <2>1, <2>2, <2>3
<1>12. HeardBody'
  <2>1. \A k \in 1 .. 4 : ~(8 + length + k <= Len(heard'))
    BY <1>4, <1>8
  <2> QED BY <1>5, <1>11, <2>1 DEF HeardBody, length
<1>13. HeardCrc'
  <2>1. CASE state' = "CRC_0" /\ w + 1 = length
    <3>1. crc_input_last(b)
      BY <1>2, <2>1 DEF crc_input_last, last_payload_byte, length, w
    <3>2. Len(heard') = 8 + length
      BY <1>4, <1>8, <2>1
    <3> QED BY <1>3, <1>5, <2>1, <3>1, <3>2 DEF HeardCrc, length
  <2>2. CASE state' = "PAYLOAD"
    BY <1>3, <2>2 DEF HeardCrc
  <2> QED BY <1>2, <2>1, <2>2
<1> QED BY <1>1, <1>8, <1>9, <1>10, <1>12, <1>13 DEF Heard

\* A byte of the CRC, in its place.
LEMMA HeardInCrc ==
  ASSUME IInv, TypeOK', Heard, NEW b \in Byte, CrcClock(TRUE, b),
         heard' = heard \o <<b>>, NEW k \in 1 .. 4, CrcByte(k, b)
  PROVE  Heard'
<1> DEFINE length == Value(payload_length)
<1>1. /\ heard' \in Seq(Byte) /\ Len(heard) \in Nat /\ Len(heard') = Len(heard) + 1
      /\ \A i \in 1 .. Len(heard) : heard'[i] = heard[i]
      /\ heard'[Len(heard) + 1] = b
  BY HeardGrows
<1>2. /\ UNCHANGED <<message_type, flags, payload_length, payload_memory>>
      /\ expected_crc' = [expected_crc EXCEPT ![k] = b]
      /\ state = <<"CRC_0", "CRC_1", "CRC_2", "CRC_3">>[k]
      /\ state' = <<"CRC_1", "CRC_2", "CRC_3", "VALIDATE">>[k]
  BY DEF CrcByte, Goto, header, payload
<1>3. state \in CrcStates /\ state' \in CrcStates \cup {"VALIDATE"}
  BY <1>2
<1>4. length \in Nat /\ length' = length
  BY <1>2, ValueType DEF IInv, TypeOK
<1>5. crc_output' = crc_output
  <2>1. ~crc_input_state /\ ~crc_clear
    BY <1>3 DEF crc_input_state, IInv, ResultOwned
  <2> QED BY <2>1, EngineKeeps
<1>6. Len(heard) = HeardLength /\ HeardHeader
  BY DEF Heard
<1>7. \A i \in 1 .. length : 8 + i <= Len(heard) => heard[8 + i] = payload_memory[i - 1]
  BY DEF Heard, HeardBody
<1>8. \A j \in 1 .. 4 : 8 + length + j <= Len(heard) => heard[8 + length + j] = expected_crc[j]
  BY DEF Heard, HeardBody
<1>9. crc_output = CrcOver(SubSeq(heard, 3, 8 + length))
  BY <1>3 DEF Heard, HeardCrc
<1>10. HeardLength = 7 + length + k /\ HeardLength' = 8 + length + k
  <2>1. CASE k = 1
    BY <1>2, <1>4, <2>1 DEF HeardLength
  <2>2. CASE k = 2
    BY <1>2, <1>4, <2>2 DEF HeardLength
  <2>3. CASE k = 3
    BY <1>2, <1>4, <2>3 DEF HeardLength
  <2>4. CASE k = 4
    BY <1>2, <1>4, <2>4 DEF HeardLength
  <2> QED BY <2>1, <2>2, <2>3, <2>4
<1> HIDE DEF length
<1>11. Len(heard) = 7 + length + k /\ Len(heard') = 8 + length + k
  BY <1>1, <1>4, <1>6, <1>10
<1>12. HeardHeader'
  <2>1. \A i \in 1 .. 8 : heard'[i] = heard[i]
    BY <1>1, <1>4, <1>11
  <2> QED BY <1>2, <1>4, <1>6, <1>11, <2>1 DEF HeardHeader
<1>13. \A i \in 1 .. length : 8 + i <= Len(heard') => heard'[8 + i] = payload_memory'[i - 1]
  <2> TAKE i \in 1 .. length
  <2>1. 8 + i \in 1 .. Len(heard) /\ 8 + i <= Len(heard)
    BY <1>4, <1>11
  <2> QED BY <1>1, <1>2, <1>7, <2>1
<1>14. \A j \in 1 .. 4 : 8 + length + j <= Len(heard') => heard'[8 + length + j] = expected_crc'[j]
  <2> TAKE j \in 1 .. 4
  <2>0. \A m \in 1 .. 4 : expected_crc'[m] = IF m = k THEN b ELSE expected_crc[m]
    BY <1>2 DEF IInv, TypeOK, FourBytes
  <2>1. CASE j < k
    <3>1. 8 + length + j \in 1 .. Len(heard) /\ 8 + length + j <= Len(heard) /\ j # k
      BY <1>4, <1>11, <2>1
    <3>2. heard[8 + length + j] = expected_crc[j]
      BY <1>8, <3>1
    <3>3. heard'[8 + length + j] = heard[8 + length + j]
      BY <1>1, <3>1
    <3>4. expected_crc'[j] = expected_crc[j]
      BY <2>0, <3>1
    <3> QED BY <3>2, <3>3, <3>4
  <2>2. CASE j = k
    <3>1. 8 + length + j = Len(heard) + 1
      BY <1>4, <1>11, <2>2
    <3>2. heard'[8 + length + j] = b
      BY <1>1, <3>1
    <3>3. expected_crc'[j] = b
      BY <2>0, <2>2
    <3> QED BY <3>2, <3>3
  <2>3. CASE j > k
    <3>1. ~(8 + length + j <= Len(heard'))
      BY <1>4, <1>11, <2>3
    <3> QED BY <3>1
  <2>4. j < k \/ j = k \/ j > k
    OBVIOUS
  <2> QED BY <2>1, <2>2, <2>3, <2>4
<1>15. HeardBody'
  BY <1>4, <1>13, <1>14 DEF HeardBody, length
<1>16. HeardCrc'
  <2>1. SubSeq(heard', 3, 8 + length) = SubSeq(heard, 3, 8 + length)
    <3>0. heard \in Seq(Byte)
      BY DEF Heard
    <3>1. 8 + length \in Nat /\ 8 + length <= Len(heard)
          /\ 8 + length <= Len(heard') /\ 8 + length >= 3
      BY <1>1, <1>4, <1>11
    <3>2. \A i \in 1 .. 8 + length : heard'[i] = heard[i]
      BY <1>1, <1>4, <1>11
    <3> QED BY <1>1, <3>0, <3>1, <3>2, SameFromThird
  <2>2. crc_output' = CrcOver(SubSeq(heard', 3, 8 + length'))
    BY <1>4, <1>5, <1>9, <2>1
  <2> QED BY <1>3, <2>2 DEF HeardCrc, length
<1> QED BY <1>1, <1>10, <1>11, <1>12, <1>15, <1>16 DEF Heard

\* A byte of the search.
LEMMA HeardInSearch ==
  ASSUME IInv, TypeOK', Heard, NEW b \in Byte,
         Search0(b) \/ Search1(b), state' # "SEARCH_0",
         heard' = IF state' = "SEARCH_1" THEN <<b>> ELSE heard \o <<b>>
  PROVE  Heard'
<1>1. Value(payload_length') \in Nat
  BY ValueType DEF TypeOK
<1>2. CASE state' = "SEARCH_1"
  <2>1. b = FRAME_SOF_0
    BY <1>2 DEF Search0, Search1, Goto
  <2>2. heard' \in Seq(Byte) /\ Len(heard') = 1 /\ heard'[1] = FRAME_SOF_0
    BY <1>2, <2>1
  <2>3. HeardLength' = 1 /\ HeardHeader'
    BY <1>2, <2>2 DEF HeardLength, HeardHeader
  <2>4. HeardBody'
    BY <1>1, <2>2 DEF HeardBody
  <2>5. HeardCrc'
    BY <1>2 DEF HeardCrc
  <2> QED BY <2>2, <2>3, <2>4, <2>5 DEF Heard
<1>3. CASE state' = "VERSION"
  <2>1. state = "SEARCH_1" /\ b = FRAME_SOF_1
    BY <1>3 DEF Search0, Search1, Goto
  <2>2. Len(heard) = 1 /\ heard[1] = FRAME_SOF_0
    BY <2>1 DEF Heard, HeardLength, HeardHeader
  <2>3. /\ heard' \in Seq(Byte) /\ Len(heard') = 2
        /\ heard'[1] = FRAME_SOF_0 /\ heard'[2] = FRAME_SOF_1
    <3>1. heard' = heard \o <<b>>
      BY <1>3
    <3>2. /\ heard' \in Seq(Byte) /\ Len(heard') = Len(heard) + 1
          /\ \A i \in 1 .. Len(heard) : heard'[i] = heard[i]
          /\ heard'[Len(heard) + 1] = b
      BY <3>1, HeardGrows
    <3> QED BY <2>1, <2>2, <3>2
  <2>4. HeardLength' = 2 /\ HeardHeader'
    BY <1>3, <2>3 DEF HeardLength, HeardHeader
  <2>5. HeardBody'
    BY <1>1, <2>3 DEF HeardBody
  <2>6. HeardCrc'
    BY <1>3 DEF HeardCrc
  <2> QED BY <2>3, <2>4, <2>5, <2>6 DEF Heard
<1> QED BY <1>2, <1>3 DEF Search0, Search1, Goto

\* Nothing that the history says depends on what does not change.
LEMMA HeardUnchanged ==
  ASSUME Heard, UNCHANGED <<state, header, expected_crc, payload, crc_state, crc_output, heard>>
  PROVE  Heard'
<1>1. /\ state' = state /\ message_type' = message_type /\ flags' = flags
      /\ payload_length' = payload_length /\ expected_crc' = expected_crc
      /\ payload_memory' = payload_memory /\ payload_write_index' = payload_write_index
      /\ crc_state' = crc_state /\ crc_output' = crc_output /\ heard' = heard
  BY DEF header, payload
<1>2. HeardLength' = HeardLength
  BY <1>1 DEF HeardLength
<1>3. HeardHeader'
  BY <1>1 DEF Heard, HeardHeader
<1>4. HeardBody'
  BY <1>1 DEF Heard, HeardBody
<1>5. HeardCrc'
  BY <1>1 DEF Heard, HeardCrc
<1> QED BY <1>1, <1>2, <1>3, <1>4, <1>5 DEF Heard

\* A cycle without a byte.
LEMMA HeardInWait ==
  ASSUME IInv, TypeOK', Heard, NEW in_valid \in BOOLEAN, NEW b \in Byte,
         CrcClock(in_valid, b), ~(in_valid /\ in_ready), Wait,
         heard' = IF state' = "SEARCH_0" THEN << >> ELSE heard
  PROVE  Heard'
<1>1. CASE state' = "SEARCH_0"
  BY <1>1, HeardNone
<1>2. CASE state' # "SEARCH_0"
  <2>1. /\ state' = state /\ heard' = heard /\ ~crc_clear
        /\ UNCHANGED <<header, expected_crc, payload>>
    BY <1>2, WaitTypes DEF IInv, ResultOwned, TypeOK
  <2>2. ~(in_valid /\ crc_input_state)
    <3>1. crc_input_state => in_ready
      BY Open DEF NeverSelfStalls, receiving_frame
    <3> QED BY <3>1
  <2>3. crc_state' = crc_state /\ crc_output' = crc_output
    BY <2>1, <2>2, EngineKeeps
  <2> QED BY <2>1, <2>3, HeardUnchanged
<1> QED BY <1>1, <1>2

\* A cycle of the comparison or of the hand-over.
LEMMA HeardInDeliver ==
  ASSUME IInv, TypeOK', Heard, NEW in_valid \in BOOLEAN, NEW b \in Byte,
         CrcClock(in_valid, b), NEW fr \in BOOLEAN, NEW pr \in BOOLEAN, Deliver(fr, pr),
         heard' = IF state' = "SEARCH_0" THEN << >> ELSE heard
  PROVE  Heard'
<1>1. CASE state' = "SEARCH_0"
  BY <1>1, HeardNone
<1>2. CASE state' # "SEARCH_0"
  <2>1. /\ state \in {"VALIDATE"} \cup OutputStates
        /\ state' \in {"VALIDATE"} \cup OutputStates
        /\ state' = "VALIDATE" => state = "VALIDATE"
        /\ UNCHANGED <<header, expected_crc, payload>>
    BY <1>2, DeliverTypes
  <2>2. heard' = heard /\ HeardLength' = HeardLength
    BY <1>2, <2>1 DEF HeardLength, header
  <2>3. HeardHeader' /\ HeardBody'
    BY <2>1, <2>2 DEF Heard, HeardHeader, HeardBody, header, payload
  <2>4. HeardCrc'
    <3>1. state' # "VALIDATE"
      BY <2>1, DeliverTypes DEF IInv, ResultOwned
    <3>2. expected_crc = CrcOver(SubSeq(heard, 3, 8 + Value(payload_length)))
      <4>1. CASE state = "VALIDATE"
        <5>1. crc_output = expected_crc
          BY <1>2, <3>1, <4>1
          DEF Deliver, Validate, OutputFrame, OutputPayload, CrcMatches, Goto
        <5> QED BY <4>1, <5>1 DEF Heard, HeardCrc
      <4>2. CASE state \in OutputStates
        BY <4>2 DEF Heard, HeardCrc
      <4> QED BY <2>1, <4>1, <4>2
    <3>3. expected_crc' = expected_crc /\ payload_length' = payload_length
      BY <2>1 DEF header
    <3> QED BY <2>1, <2>2, <3>1, <3>2, <3>3 DEF HeardCrc
  <2> QED BY <2>2, <2>3, <2>4 DEF Heard
<1> QED BY <1>1, <1>2

\* The invariant of the receiver on its wire.
WInv == IInv /\ Heard

\* Where a byte goes when it is taken, and that none is taken elsewhere.
LEMMA HeardClock ==
  ASSUME WInv, NEW in_valid \in BOOLEAN, NEW b \in Byte,
         NEW fr \in BOOLEAN, NEW pr \in BOOLEAN, WClock(in_valid, b, fr, pr)
  PROVE  WInv'
<1>1. IInv /\ Heard /\ Clock(in_valid, b, fr, pr) /\ CrcClock(in_valid, b)
  BY DEF WInv, WClock, Clock
<1>2. IInv' /\ TypeOK'
  BY <1>1, ClockIInv DEF IInv
<1>3. heard \in Seq(Byte) /\ heard \o << >> = heard
  BY ConcatEmptySeq DEF WInv, Heard
<1>4. CASE in_valid /\ in_ready /\ TakeByte(b)
  <2>1. Remember(<<b>>) /\ <<b>> # << >> /\ CrcClock(TRUE, b)
    BY <1>1, <1>4 DEF WClock
  <2>2. heard' = CASE state' = "SEARCH_0" -> << >>
                   [] state' = "SEARCH_1" -> <<b>>
                   [] OTHER -> heard \o <<b>>
    BY <2>1 DEF Remember
  <2>3. CASE state' = "SEARCH_0"
    BY <1>2, <2>2, <2>3, HeardNone DEF WInv
  <2>4. CASE state' # "SEARCH_0"
    <3>1. CASE Search0(b) \/ Search1(b)
      BY <1>1, <1>2, <2>2, <2>4, <3>1, HeardInSearch DEF WInv
    <3>2. CASE \/ Version(b) \/ MessageType(b) \/ FlagsLow(b) \/ FlagsHigh(b)
               \/ LengthLow(b) \/ LengthHigh(b)
      <4>1. state \in HeaderStates
        BY <3>2 DEF Version, MessageType, FlagsLow, FlagsHigh, LengthLow, LengthHigh
      <4>2. state' # "SEARCH_1"
        BY <2>4, <3>2 DEF Version, MessageType, FlagsLow, FlagsHigh, LengthLow, LengthHigh, Goto
      <4>3. heard' = heard \o <<b>>
        BY <2>2, <2>4, <4>2
      <4> QED BY <1>1, <1>2, <2>1, <2>4, <3>2, <4>1, <4>3, HeardInHeader DEF WInv
    <3>3. CASE Payload(b)
      <4>1. heard' = heard \o <<b>>
        BY <2>2, <3>3 DEF Payload, Goto
      <4> QED BY <1>1, <1>2, <2>1, <3>3, <4>1, HeardInPayload DEF WInv
    <3>4. CASE \E k \in 1 .. 4 : CrcByte(k, b)
      <4>1. state' \in {"CRC_1", "CRC_2", "CRC_3", "VALIDATE"}
        BY <3>4 DEF CrcByte, Goto
      <4>2. heard' = heard \o <<b>>
        BY <2>2, <4>1
      <4> QED BY <1>1, <1>2, <2>1, <3>4, <4>2, HeardInCrc DEF WInv
    <3> QED BY <1>4, <3>1, <3>2, <3>3, <3>4 DEF TakeByte
  <2> QED BY <1>2, <2>3, <2>4 DEF WInv
<1>5. CASE ~(in_valid /\ in_ready)
  <2>1. heard' = IF state' = "SEARCH_0" THEN << >> ELSE heard
    BY <1>3, <1>5 DEF WClock, Remember
  <2>2. CASE Wait
    BY <1>1, <1>2, <1>5, <2>1, <2>2, HeardInWait DEF WInv
  <2>3. CASE Deliver(fr, pr)
    BY <1>1, <1>2, <2>1, <2>3, HeardInDeliver DEF WInv
  <2> QED BY <1>1, <1>5, <2>2, <2>3 DEF Clock
<1>6. CASE in_valid /\ in_ready /\ Deliver(fr, pr)
  <2>1. ~in_ready
    BY <1>6 DEF Deliver, Validate, OutputFrame, OutputPayload, in_ready, crc_input_state
  <2> QED BY <1>6, <2>1
<1> QED BY <1>1, <1>4, <1>5, <1>6 DEF Clock

\* The invariant holds at the beginning and is kept by every step.
LEMMA InitWInv == WInit => WInv
<1> SUFFICES ASSUME WInit PROVE WInv
  OBVIOUS
<1>1. IInv /\ state = "SEARCH_0" /\ heard = << >>
  BY InitIInv DEF WInit, Init
<1>2. << >> \in Seq(Byte) /\ Len(<< >>) = 0
  OBVIOUS
<1>3. Value(payload_length) \in Nat
  BY <1>1, ValueType DEF IInv, TypeOK
<1>4. HeardLength = 0 /\ HeardHeader
  BY <1>1, <1>2 DEF HeardLength, HeardHeader
<1>5. HeardBody
  BY <1>1, <1>2, <1>3 DEF HeardBody
<1>6. HeardCrc
  BY <1>1 DEF HeardCrc
<1> QED BY <1>1, <1>2, <1>4, <1>5, <1>6 DEF WInv, Heard

\* The invariant of the wire after any step.
LEMMA StepWInv == WInv /\ [WNext]_wvars => WInv'
<1> SUFFICES ASSUME WInv, [WNext]_wvars PROVE WInv'
  OBVIOUS
<1>1. CASE WReset
  <2>1. IInv'
    BY <1>1, ResetIInv DEF WReset, WInv
  <2>2. state' = "SEARCH_0" /\ heard' = << >>
    BY <1>1 DEF WReset, Reset, Goto
  <2> QED BY <2>1, <2>2, HeardNone DEF WInv, IInv
<1>2. ASSUME NEW ready \in BOOLEAN, WCycle(ready) PROVE WInv'
  <2>1. 0 \in Byte
    BY ByteAssumption DEF Byte
  <2>2. CASE WClock(FALSE, 0, ready, ready)
    BY <2>1, <2>2, HeardClock
  <2>3. CASE \E b \in Offered[state] : WClock(TRUE, b, ready, ready)
    <3>1. \A b \in Offered[state] : b \in Byte
      BY OfferedAssumption DEF WInv, IInv, TypeOK
    <3> QED BY <2>3, <3>1, HeardClock
  <2> QED BY <1>2, <2>2, <2>3 DEF WCycle
<1>3. CASE UNCHANGED wvars
  <2>1. UNCHANGED vars /\ UNCHANGED heard
    BY <1>3 DEF wvars
  <2>2. IInv'
    BY <2>1, StepIInv DEF WInv
  <2>3. Heard'
    BY <2>1, HeardUnchanged DEF WInv, vars, header, payload, engine
  <2> QED BY <2>2, <2>3 DEF WInv
<1> QED BY <1>1, <1>2, <1>3 DEF WNext

----------------------------------------------------------------------------
(* The frame on the output. *)

\* What the registers hold once the length has passed its check is a frame.
LEMMA ReceivedFrame ==
  ASSUME IInv, state \in CheckedStates
  PROVE  /\ Received \in Frame
         /\ Len(Received.payload) = Value(payload_length)
         /\ Value(payload_length) \in Nat
         /\ Received.type = message_type /\ Received.flags = flags
         /\ \A i \in 1 .. Value(payload_length) : Received.payload[i] = payload_memory[i - 1]
         /\ Pair(Len(Received.payload)) = payload_length
<1> DEFINE n == Value(payload_length)
           data == [i \in 1 .. n |-> payload_memory[i - 1]]
<1>1. /\ n \in Nat /\ n <= MAX_PAYLOAD_BYTES /\ payload_length \in TwoBytes
      /\ message_type \in Byte /\ flags \in TwoBytes
      /\ payload_memory \in [0 .. MAX_PAYLOAD_BYTES - 1 -> Byte]
  BY ValueType DEF IInv, TypeOK
<1>2. Received = [type |-> message_type, flags |-> flags, payload |-> data]
  BY DEF Received
<1>3. Pair(n) = payload_length
  BY <1>1, PairOfValue
<1> HIDE DEF n
<1>4. data \in [1 .. n -> Byte]
  <2>1. \A i \in 1 .. n : i - 1 \in 0 .. MAX_PAYLOAD_BYTES - 1
    BY <1>1, PayloadAssumption
  <2> QED BY <1>1, <2>1
<1>5. \A i \in 1 .. n : data[i] = payload_memory[i - 1]
  OBVIOUS
<1> HIDE DEF data
<1>6. data \in Seq(Byte) /\ Len(data) = n
  BY <1>1, <1>4, FunctionIsSeq
<1>7. Received \in Frame
  <2>1. Received \in [type : Byte, flags : TwoBytes, payload : Seq(Byte)]
    BY <1>1, <1>2, <1>6
  <2>2. Len(Received.payload) <= MAX_PAYLOAD_BYTES
    BY <1>1, <1>2, <1>6
  <2> QED BY <2>1, <2>2, AFrame
<1>8. Received.type = message_type /\ Received.flags = flags /\ Received.payload = data
  BY <1>2
<1> QED BY <1>1, <1>3, <1>5, <1>6, <1>7, <1>8 DEF n

\* From the end of the payload on, the bytes heard after the start bytes are
\* what the CRC of that frame covers.
LEMMA CoveredBytes ==
  ASSUME WInv, state \in CrcStates \cup {"VALIDATE"} \cup OutputStates
  PROVE  SubSeq(heard, 3, 8 + Value(payload_length)) = Protected(Received)
<1> DEFINE n == Value(payload_length)
           p == Protected(Received)
           u == SubSeq(heard, 3, 8 + n)
<1>1. /\ Received \in Frame /\ Len(Received.payload) = n /\ n \in Nat
      /\ Received.type = message_type /\ Received.flags = flags
      /\ \A i \in 1 .. n : Received.payload[i] = payload_memory[i - 1]
      /\ Pair(Len(Received.payload)) = payload_length
  BY ReceivedFrame DEF WInv
<1>2. /\ p \in Seq(Byte) /\ Len(p) = 6 + n
      /\ p[1] = FRAME_VERSION /\ p[2] = message_type
      /\ p[3] = flags[1] /\ p[4] = flags[2]
      /\ p[5] = payload_length[1] /\ p[6] = payload_length[2]
  BY <1>1, ProtectedBytes
<1>3. \A i \in 1 .. n : p[6 + i] = payload_memory[i - 1]
  <2>1. \A i \in 1 .. n : p[6 + i] = Received.payload[i]
    BY <1>1, ProtectedBytes
  <2> QED BY <1>1, <2>1
<1>4. heard \in Seq(Byte) /\ Len(heard) \in 8 + n .. 12 + n
  <2>1. HeardLength \in 8 + n .. 12 + n
    BY <1>1 DEF HeardLength
  <2> QED BY <2>1 DEF WInv, Heard
<1>5. \A i \in 1 .. n : 8 + i <= Len(heard) => heard[8 + i] = payload_memory[i - 1]
  BY DEF WInv, Heard, HeardBody
<1>6. HeardHeader
  BY DEF WInv, Heard
<1> HIDE DEF n, p
<1>7. n \in Nat
  BY <1>1
<1>8. \A i \in 3 .. 8 + n : heard[i] \in Byte
  <2>1. \A i \in 3 .. 8 + n : i \in 1 .. Len(heard)
    BY <1>4, <1>7
  <2> QED BY <1>4, <2>1, ElementOfSeq
<1>9. /\ u \in Seq(Byte)
      /\ Len(u) = IF 3 <= 8 + n THEN (8 + n) - 3 + 1 ELSE 0
      /\ \A i \in 1 .. (8 + n) - 3 + 1 : u[i] = heard[3 + i - 1]
  BY <1>7, <1>8, SubSeqProperties
<1> HIDE DEF u
<1>10. Len(u) = 6 + n
  BY <1>7, <1>9
<1>11. \A i \in 1 .. 6 + n : u[i] = heard[2 + i]
  <2> TAKE i \in 1 .. 6 + n
  <2>1. i \in 1 .. (8 + n) - 3 + 1 /\ 3 + i - 1 = 2 + i
    BY <1>7
  <2> QED BY <1>9, <2>1
<1>12. \A i \in 1 .. 6 + n : u[i] = p[i]
  <2> TAKE i \in 1 .. 6 + n
  <2>1. CASE i \in 1 .. 6
    <3>1. i = 1 \/ i = 2 \/ i = 3 \/ i = 4 \/ i = 5 \/ i = 6
      BY <2>1
    <3>2. Len(heard) >= 8
      BY <1>4, <1>7
    <3>3. /\ heard[3] = FRAME_VERSION /\ heard[4] = message_type
          /\ heard[5] = flags[1] /\ heard[6] = flags[2]
          /\ heard[7] = payload_length[1] /\ heard[8] = payload_length[2]
      BY <1>4, <1>6, <1>7, <3>2 DEF HeardHeader
    <3>4. heard[2 + i] = p[i]
      BY <1>2, <3>1, <3>3
    <3> QED BY <1>11, <3>4
  <2>2. CASE i > 6
    <3> DEFINE j == i - 6
    <3>1. j \in 1 .. n /\ i = 6 + j /\ 2 + i = 8 + j
      BY <1>7, <2>2
    <3> HIDE DEF j
    <3>2. 8 + j <= Len(heard)
      BY <1>4, <1>7, <3>1
    <3>3. heard[8 + j] = payload_memory[j - 1]
      BY <1>5, <3>1, <3>2
    <3>4. p[6 + j] = payload_memory[j - 1]
      BY <1>3, <3>1
    <3>5. u[i] = heard[2 + i]
      BY <1>11
    <3> QED BY <3>1, <3>3, <3>4, <3>5
  <2>3. i \in 1 .. 6 \/ i > 6
    BY <1>7
  <2> QED BY <2>1, <2>2, <2>3
<1>13. u = p
  BY <1>2, <1>9, <1>10, <1>12, SeqEqual
<1> QED BY <1>13 DEF n, p, u

\* A frame on the output is the one that was heard.
LEMMA OutputFaithful == WInv => FaithfulFrame
<1> SUFFICES ASSUME WInv, state \in OutputStates
             PROVE  Received \in Frame /\ heard = Encode(Received)
  BY DEF FaithfulFrame
<1> DEFINE n == Value(payload_length)
           e == Encode(Received)
           p == Protected(Received)
<1>1. Received \in Frame /\ Len(Received.payload) = n /\ n \in Nat
  BY ReceivedFrame DEF WInv
<1>2. SubSeq(heard, 3, 8 + n) = p
  BY CoveredBytes
<1>3. expected_crc = CrcOver(p)
  BY <1>2 DEF WInv, Heard, HeardCrc
<1>4. heard \in Seq(Byte) /\ Len(heard) = 12 + n
  <2>1. HeardLength = 12 + n
    BY DEF HeardLength
  <2> QED BY <2>1 DEF WInv, Heard
<1>5. \A k \in 1 .. 4 : 8 + n + k <= Len(heard) => heard[8 + n + k] = expected_crc[k]
  BY DEF WInv, Heard, HeardBody
<1>6. e \in Seq(Byte) /\ Len(e) = 12 + n /\ e[1] = FRAME_SOF_0 /\ e[2] = FRAME_SOF_1
  BY <1>1, EncodeBytes
<1>7. \A k \in 1 .. 4 : e[8 + n + k] = CrcOver(p)[k]
  BY <1>1, EncodeBytes
<1>8. SubSeq(e, 3, 8 + n) = p
  BY <1>1, EncodeProtected
<1>9. heard[1] = FRAME_SOF_0 /\ heard[2] = FRAME_SOF_1
  BY <1>1, <1>4 DEF WInv, Heard, HeardHeader
<1> HIDE DEF n, e, p
<1>10. \A i \in 3 .. 8 + n : heard[i] = e[i]
  <2>1. n \in Nat
    BY <1>1
  <2>2. \A i \in 3 .. 8 + n : heard[i] \in Byte /\ e[i] \in Byte
    <3>1. \A i \in 3 .. 8 + n : i \in 1 .. Len(heard) /\ i \in 1 .. Len(e)
      BY <1>4, <1>6, <2>1
    <3> QED BY <1>4, <1>6, <3>1, ElementOfSeq
  <2>3. \A i \in 1 .. (8 + n) - 3 + 1 : SubSeq(heard, 3, 8 + n)[i] = heard[3 + i - 1]
    BY <2>1, <2>2, SubSeqProperties
  <2>4. \A i \in 1 .. (8 + n) - 3 + 1 : SubSeq(e, 3, 8 + n)[i] = e[3 + i - 1]
    BY <2>1, <2>2, SubSeqProperties
  <2> TAKE i \in 3 .. 8 + n
  <2>5. i - 2 \in 1 .. (8 + n) - 3 + 1 /\ 3 + (i - 2) - 1 = i
    BY <2>1
  <2>6. SubSeq(heard, 3, 8 + n)[i - 2] = heard[i]
    BY <2>3, <2>5
  <2>7. SubSeq(e, 3, 8 + n)[i - 2] = e[i]
    BY <2>4, <2>5
  <2> QED BY <1>2, <1>8, <2>6, <2>7
<1>11. \A i \in 1 .. 12 + n : heard[i] = e[i]
  <2> TAKE i \in 1 .. 12 + n
  <2>1. CASE i \in 1 .. 2
    <3>1. i = 1 \/ i = 2
      BY <2>1
    <3> QED BY <1>6, <1>9, <3>1
  <2>2. CASE i \in 3 .. 8 + n
    BY <1>10, <2>2
  <2>3. CASE i > 8 + n
    <3> DEFINE k == i - (8 + n)
    <3>1. k \in 1 .. 4 /\ i = 8 + n + k /\ 8 + n + k <= Len(heard)
      BY <1>1, <1>4, <2>3
    <3> HIDE DEF k
    <3>2. heard[8 + n + k] = expected_crc[k] /\ e[8 + n + k] = CrcOver(p)[k]
      BY <1>5, <1>7, <3>1
    <3> QED BY <1>3, <3>1, <3>2
  <2>4. i \in 1 .. 2 \/ i \in 3 .. 8 + n \/ i > 8 + n
    BY <1>1
  <2> QED BY <2>1, <2>2, <2>3, <2>4
<1>12. heard = e
  BY <1>4, <1>6, <1>11, SeqEqual
<1> QED BY <1>1, <1>12 DEF e

\* For every timeout, payload bound and CRC function: what the receiver offers
\* is a frame, and the bytes heard since its first start byte are that frame's
\* encoding, until its last payload byte is handed over.
THEOREM FaithfulFrameCorrect == WSpec => []FaithfulFrame
<1> QED BY InitWInv, StepWInv, OutputFaithful, PTL DEF WSpec

----------------------------------------------------------------------------
(* What is thrown away. *)

\* A beginning of a frame agrees with its encoding, byte for byte.
LEMMA Beginning ==
  ASSUME NEW s \in BeginningsOfFrames
  PROVE  \E f \in Frame : /\ Len(s) <= Len(Encode(f))
                          /\ \A i \in 1 .. Len(s) : s[i] = Encode(f)[i]
<1>1. PICK f \in Frame : s \in {SubSeq(Encode(f), 1, n) : n \in 0 .. Len(Encode(f))}
  BY DEF BeginningsOfFrames
<1> DEFINE e == Encode(f)
<1>2. e \in Seq(Byte) /\ Len(e) \in Nat
  <2>1. e \in Seq(Byte)
    BY EncodeBytes
  <2> HIDE DEF e
  <2> QED BY <2>1, LenProperties
<1>3. PICK n \in 0 .. Len(e) : s = SubSeq(e, 1, n)
  BY <1>1
<1> HIDE DEF e
<1>4. n \in Nat /\ n <= Len(e)
  BY <1>2, <1>3
<1>5. \A i \in 1 .. n : e[i] \in Byte
  BY <1>2, <1>4, ElementOfSeq
<1>6. /\ Len(s) = IF 1 <= n THEN n - 1 + 1 ELSE 0
      /\ \A i \in 1 .. n - 1 + 1 : s[i] = e[1 + i - 1]
  BY <1>3, <1>4, <1>5, SubSeqProperties
<1>7. Len(s) = n
  BY <1>4, <1>6
<1>8. \A i \in 1 .. n : s[i] = e[i]
  <2> TAKE i \in 1 .. n
  <2>1. i \in 1 .. n - 1 + 1 /\ 1 + i - 1 = i
    BY <1>4
  <2> QED BY <1>6, <2>1
<1> QED BY <1>4, <1>7, <1>8 DEF e

\* The first eight bytes of a frame.
LEMMA HeaderBytes ==
  ASSUME NEW f \in Frame
  PROVE  LET e == Encode(f)
             n == Len(f.payload)
         IN  /\ n \in 0 .. MAX_PAYLOAD_BYTES /\ Len(e) = 12 + n
             /\ e[1] = FRAME_SOF_0 /\ e[2] = FRAME_SOF_1 /\ e[3] = FRAME_VERSION
             /\ e[7] + BYTE * e[8] = n
<1> DEFINE e == Encode(f)
           n == Len(f.payload)
           p == Protected(f)
<1>1. n \in Nat /\ n \in 0 .. MAX_PAYLOAD_BYTES /\ Value(Pair(n)) = n
  BY FrameFields
<1>2. p[1] = FRAME_VERSION /\ p[5] = Pair(n)[1] /\ p[6] = Pair(n)[2]
  BY ProtectedBytes
<1>3. /\ Len(e) = 12 + n /\ e[1] = FRAME_SOF_0 /\ e[2] = FRAME_SOF_1
      /\ \A i \in 1 .. 6 + n : e[2 + i] = p[i]
  BY EncodeBytes
<1> HIDE DEF e, p, n
<1>4. e[3] = p[1] /\ e[7] = p[5] /\ e[8] = p[6]
  <2>1. 1 \in 1 .. 6 + n /\ 5 \in 1 .. 6 + n /\ 6 \in 1 .. 6 + n
    BY <1>1
  <2>2. e[2 + 1] = p[1] /\ e[2 + 5] = p[5] /\ e[2 + 6] = p[6]
    BY <1>3, <2>1
  <2> QED BY <2>2
<1>5. e[7] + BYTE * e[8] = n
  BY <1>1, <1>2, <1>4 DEF Value
<1> QED BY <1>1, <1>2, <1>3, <1>4, <1>5 DEF e, n

\* A first byte other than SOF_0 begins no frame.
LEMMA NotSof0 ==
  ASSUME NEW b, b # FRAME_SOF_0
  PROVE  <<b>> \notin BeginningsOfFrames
<1> SUFFICES ASSUME <<b>> \in BeginningsOfFrames PROVE FALSE
  OBVIOUS
<1>1. PICK f \in Frame : \A i \in 1 .. Len(<<b>>) : <<b>>[i] = Encode(f)[i]
  BY Beginning
<1>2. b = Encode(f)[1]
  BY <1>1
<1>3. Encode(f)[1] = FRAME_SOF_0
  BY HeaderBytes
<1> QED BY <1>2, <1>3

\* Bytes whose second is not SOF_1, whose third is not the version or whose
\* length field is too large begin no frame.
LEMMA NotHeader ==
  ASSUME NEW s, Len(s) \in Nat,
         \/ Len(s) >= 2 /\ s[2] # FRAME_SOF_1
         \/ Len(s) >= 3 /\ s[3] # FRAME_VERSION
         \/ Len(s) >= 8 /\ ~(s[7] + BYTE * s[8] <= MAX_PAYLOAD_BYTES)
  PROVE  s \notin BeginningsOfFrames
<1> SUFFICES ASSUME s \in BeginningsOfFrames PROVE FALSE
  OBVIOUS
<1>1. PICK f \in Frame : \A i \in 1 .. Len(s) : s[i] = Encode(f)[i]
  BY Beginning
<1> DEFINE e == Encode(f)
           n == Len(f.payload)
<1>2. /\ n \in 0 .. MAX_PAYLOAD_BYTES
      /\ e[2] = FRAME_SOF_1 /\ e[3] = FRAME_VERSION
      /\ e[7] + BYTE * e[8] = n
  BY HeaderBytes
<1>3. \A i \in 1 .. Len(s) : s[i] = e[i]
  BY <1>1
<1> HIDE DEF e, n
<1>4. /\ Len(s) >= 2 => s[2] = e[2]
      /\ Len(s) >= 3 => s[3] = e[3]
      /\ Len(s) >= 8 => s[7] = e[7] /\ s[8] = e[8]
  BY <1>3
<1>5. n <= MAX_PAYLOAD_BYTES
  BY <1>2, PayloadAssumption
<1> QED BY <1>2, <1>4, <1>5

\* The bytes of a frame whose CRC does not match begin no frame either.
LEMMA NotMatching ==
  ASSUME WInv, state = "VALIDATE", heard \in BeginningsOfFrames
  PROVE  CrcMatches
<1> DEFINE n == Value(payload_length)
<1>1. PICK f \in Frame : /\ Len(heard) <= Len(Encode(f))
                         /\ \A i \in 1 .. Len(heard) : heard[i] = Encode(f)[i]
  BY Beginning
<1> DEFINE e == Encode(f)
           p == Protected(f)
<1>2. /\ Len(e) = 12 + Len(f.payload) /\ e[7] + BYTE * e[8] = Len(f.payload)
  BY HeaderBytes
<1>3. e \in Seq(Byte) /\ CrcOver(p) \in FourBytes
  BY EncodeBytes
<1>4. \A k \in 1 .. 4 : e[8 + Len(f.payload) + k] = CrcOver(p)[k]
  BY EncodeBytes
<1>5. SubSeq(e, 3, 8 + Len(f.payload)) = p
  BY EncodeProtected
<1>6. heard \in Seq(Byte) /\ Len(heard) = 12 + n
  <2>1. HeardLength = 12 + n
    BY DEF HeardLength
  <2> QED BY <2>1 DEF WInv, Heard
<1>7. n \in Nat /\ expected_crc \in FourBytes
  BY ValueType DEF WInv, IInv, TypeOK
<1>8. \A k \in 1 .. 4 : 8 + n + k <= Len(heard) => heard[8 + n + k] = expected_crc[k]
  BY DEF WInv, Heard, HeardBody
<1>9. \A i \in 1 .. Len(heard) : heard[i] = e[i]
  BY <1>1
<1>10. Len(f.payload) = n
  <2>1. Len(heard) >= 8
    BY <1>6, <1>7
  <2>2. heard[7] = payload_length[1] /\ heard[8] = payload_length[2]
    BY <1>6, <1>7, <2>1 DEF WInv, Heard, HeardHeader
  <2>3. heard[7] = e[7] /\ heard[8] = e[8]
    <3>1. 7 \in 1 .. Len(heard) /\ 8 \in 1 .. Len(heard)
      BY <1>6, <1>7
    <3> HIDE DEF e
    <3> QED BY <1>9, <3>1
  <2> HIDE DEF e
  <2> QED BY <1>2, <2>2, <2>3 DEF Value
<1>11. crc_output = CrcOver(SubSeq(heard, 3, 8 + n))
  BY DEF WInv, Heard, HeardCrc
<1> HIDE DEF e, p, n
<1>12. SubSeq(heard, 3, 8 + n) = p
  <2>1. /\ 8 + n \in Nat /\ 8 + n >= 3 /\ 8 + n <= Len(heard) /\ 8 + n <= Len(e)
        /\ \A i \in 1 .. 8 + n : i \in 1 .. Len(heard)
    BY <1>2, <1>6, <1>7, <1>10
  <2>2. \A i \in 1 .. 8 + n : heard[i] = e[i]
    BY <1>9, <2>1
  <2>3. SubSeq(heard, 3, 8 + n) = SubSeq(e, 3, 8 + n)
    BY <1>3, <1>6, <2>1, <2>2, SameFromThird
  <2> QED BY <1>5, <1>10, <2>3
<1>13. \A k \in 1 .. 4 : expected_crc[k] = CrcOver(p)[k]
  <2> TAKE k \in 1 .. 4
  <2>1. 8 + n + k \in 1 .. Len(heard) /\ 8 + n + k <= Len(heard)
    BY <1>6, <1>7
  <2>2. heard[8 + n + k] = expected_crc[k]
    BY <1>8, <2>1
  <2>3. heard[8 + n + k] = e[8 + n + k]
    BY <1>9, <2>1
  <2>4. e[8 + n + k] = CrcOver(p)[k]
    BY <1>4, <1>10
  <2> QED BY <2>2, <2>3, <2>4
<1>14. expected_crc = CrcOver(p)
  BY <1>3, <1>7, <1>13 DEF FourBytes
<1> QED BY <1>11, <1>12, <1>14 DEF CrcMatches

\* What a byte that ends the search or the header throws away.
LEMMA DiscardedByByte ==
  ASSUME WInv, NEW b \in Byte, TakeByte(b), state' = "SEARCH_0", lost' = heard \o <<b>>
  PROVE  /\ lost' \notin BeginningsOfFrames
         /\ Len(lost') = 2 => Tail(lost') \notin BeginningsOfFrames
<1>1. heard \in Seq(Byte) /\ Len(heard) \in Nat /\ Len(heard) = HeardLength /\ HeardHeader
  BY LenProperties DEF WInv, Heard
<1>2. /\ lost' \in Seq(Byte) /\ Len(lost') = Len(heard) + 1
      /\ \A i \in 1 .. Len(heard) : lost'[i] = heard[i]
      /\ lost'[Len(heard) + 1] = b
  BY <1>1, OneMore
<1>3. CASE Search0(b)
  <2>1. b # FRAME_SOF_0 /\ Len(heard) = 0
    BY <1>1, <1>3 DEF Search0, Goto, HeardLength
  <2>2. lost' = <<b>>
    <3>1. heard = << >>
      BY <1>1, <2>1, EmptySeq
    <3> QED BY <3>1
  <2> QED BY <1>2, <2>1, <2>2, NotSof0
<1>4. CASE Search1(b)
  <2>1. b # FRAME_SOF_1 /\ b # FRAME_SOF_0 /\ Len(heard) = 1
    BY <1>1, <1>4 DEF Search1, Goto, HeardLength
  <2>2. Len(lost') = 2 /\ lost'[2] = b
    BY <1>2, <2>1
  <2> DEFINE t == Tail(lost')
  <2>3. t \in Seq(Byte) /\ Len(t) = 1 /\ t[1] = b
    <3>1. lost' # << >> /\ 1 \in 1 .. Len(lost') - 1
      BY <2>2, EmptySeq
    <3> QED BY <1>2, <2>2, <3>1, HeadTailProperties
  <2> HIDE DEF t
  <2>4. <<b>> \in Seq(Byte) /\ Len(<<b>>) = 1 /\ <<b>>[1] = b
    OBVIOUS
  <2>5. t = <<b>>
    <3> DEFINE u == <<b>>
    <3>1. u \in Seq(Byte) /\ Len(u) = 1 /\ u[1] = b
      BY <2>4
    <3> HIDE DEF u
    <3>2. Len(t) = Len(u) /\ \A i \in 1 .. Len(t) : t[i] = u[i]
      BY <2>3, <3>1
    <3>3. t = u
      BY <2>3, <3>1, <3>2, SeqEqual
    <3> QED BY <3>3 DEF u
  <2>6. t \notin BeginningsOfFrames
    BY <2>1, <2>5, NotSof0
  <2>7. lost' \notin BeginningsOfFrames
    <3> DEFINE s == lost'
    <3>1. Len(s) \in Nat /\ Len(s) >= 2 /\ s[2] # FRAME_SOF_1
      BY <2>1, <2>2
    <3> HIDE DEF s
    <3>2. s \notin BeginningsOfFrames
      BY <3>1, NotHeader
    <3> QED BY <3>2 DEF s
  <2> QED BY <2>6, <2>7 DEF t
<1>5. CASE Version(b)
  <2>1. b # FRAME_VERSION /\ Len(heard) = 2
    BY <1>1, <1>5 DEF Version, Goto, HeardLength
  <2>2. Len(lost') = 3 /\ lost'[3] = b
    BY <1>2, <2>1
  <2>3. lost' \notin BeginningsOfFrames
    <3> DEFINE s == lost'
    <3>1. Len(s) \in Nat /\ Len(s) >= 3 /\ s[3] # FRAME_VERSION
      BY <2>1, <2>2
    <3> HIDE DEF s
    <3>2. s \notin BeginningsOfFrames
      BY <3>1, NotHeader
    <3> QED BY <3>2 DEF s
  <2> QED BY <2>2, <2>3
<1>6. CASE LengthHigh(b)
  <2>1. Value(incoming_length(b)) > MAX_PAYLOAD_BYTES /\ Len(heard) = 7
    BY <1>1, <1>6 DEF LengthHigh, Goto, HeardLength
  <2>2. Len(lost') = 8 /\ lost'[7] = payload_length[1] /\ lost'[8] = b
    BY <1>1, <1>2, <2>1 DEF HeardHeader
  <2>3. Value(incoming_length(b)) = lost'[7] + BYTE * lost'[8]
    BY <2>2 DEF Value, incoming_length
  <2>4. Value(incoming_length(b)) \in Nat
    BY ValueType DEF WInv, IInv, TypeOK, TwoBytes, incoming_length
  <2>5. ~(Value(incoming_length(b)) <= MAX_PAYLOAD_BYTES)
    BY <2>1, <2>4, PayloadAssumption
  <2>6. ~(lost'[7] + BYTE * lost'[8] <= MAX_PAYLOAD_BYTES)
    BY <2>3, <2>5
  <2>7. Len(lost') \in Nat /\ Len(lost') >= 8 /\ Len(lost') # 2
    BY <2>2
  <2>8. lost' \notin BeginningsOfFrames
    <3> DEFINE s == lost'
    <3>1. Len(s) \in Nat /\ Len(s) >= 8 /\ ~(s[7] + BYTE * s[8] <= MAX_PAYLOAD_BYTES)
      BY <2>6, <2>7
    <3> HIDE DEF s
    <3>2. s \notin BeginningsOfFrames
      BY <3>1, NotHeader
    <3> QED BY <3>2 DEF s
  <2> QED BY <2>7, <2>8
<1>7. Search0(b) \/ Search1(b) \/ Version(b) \/ LengthHigh(b)
  <2>1. ~(MessageType(b) \/ FlagsLow(b) \/ FlagsHigh(b) \/ LengthLow(b))
    BY DEF MessageType, FlagsLow, FlagsHigh, LengthLow, Goto
  <2>2. ~Payload(b)
    BY DEF Payload, Goto
  <2>3. ~(\E k \in 1 .. 4 : CrcByte(k, b))
    BY DEF CrcByte, Goto
  <2> QED BY <2>1, <2>2, <2>3 DEF TakeByte
<1> QED BY <1>3, <1>4, <1>5, <1>6, <1>7

\* What a cycle throws away.
LEMMA DiscardedInClock ==
  ASSUME WInv, NEW in_valid \in BOOLEAN, NEW b \in Byte,
         NEW fr \in BOOLEAN, NEW pr \in BOOLEAN, WClock(in_valid, b, fr, pr)
  PROVE  DiscardsOnlyBadFrames'
<1>0. SUFFICES ASSUME lost' # << >>, ~crc_clear'
               PROVE  /\ lost' \notin BeginningsOfFrames
                      /\ Len(lost') = 2 => Tail(lost') \notin BeginningsOfFrames
  BY DEF DiscardsOnlyBadFrames, BeginningsOfFrames
<1>1. Clock(in_valid, b, fr, pr)
  BY DEF WClock
<1>2. heard \in Seq(Byte) /\ heard \o << >> = heard /\ Len(heard) = HeardLength
  BY ConcatEmptySeq DEF WInv, Heard
<1>3. state \notin OutputStates /\ state' = "SEARCH_0"
      /\ lost' = IF in_valid /\ in_ready THEN heard \o <<b>> ELSE heard
  BY <1>0, <1>2 DEF WClock, Remember
<1>4. CASE in_valid /\ in_ready /\ TakeByte(b)
  BY <1>3, <1>4, DiscardedByByte
<1>5. CASE ~(in_valid /\ in_ready) /\ Wait
  <2>1. ~Timeout /\ ~WaitReceiving
    BY <1>0, <1>3 DEF Timeout, AbandonCrc, WaitReceiving, receiving_frame, crc_input_state
  <2>2. state = "SEARCH_0"
    BY <1>3, <1>5, <2>1 DEF Wait, WaitSearching
  <2>3. Len(heard) = 0
    BY <1>2, <2>2 DEF HeardLength
  <2>4. lost' = << >>
    BY <1>2, <1>3, <1>5, <2>3, EmptySeq
  <2> QED BY <1>0, <2>4
<1>6. CASE Deliver(fr, pr)
  <2>1. Validate /\ state = "VALIDATE" /\ ~in_ready
    BY <1>3, <1>6 DEF Deliver, Validate, OutputFrame, OutputPayload, in_ready, crc_input_state
  <2>2. ~CrcMatches
    BY <1>3, <2>1 DEF Validate, Goto
  <2>3. heard \notin BeginningsOfFrames
    BY <2>1, <2>2, NotMatching
  <2>4. Len(heard) # 2
    <3>1. Value(payload_length) \in Nat
      BY ValueType DEF WInv, IInv, TypeOK
    <3> QED BY <1>2, <2>1, <3>1 DEF HeardLength
  <2> QED BY <1>3, <2>1, <2>3, <2>4
<1> QED BY <1>1, <1>4, <1>5, <1>6 DEF Clock

\* For every timeout, payload bound and CRC function: unless on a timeout, the
\* bytes the receiver throws away begin no frame, nor do those after the first
\* start byte when the second is missing.
THEOREM DiscardsOnlyBad == WSpec => []DiscardsOnlyBadFrames
<1>1. WInit => DiscardsOnlyBadFrames
  BY DEF WInit, DiscardsOnlyBadFrames
<1>2. WInv /\ DiscardsOnlyBadFrames /\ [WNext]_wvars => DiscardsOnlyBadFrames'
  <2> SUFFICES ASSUME WInv, DiscardsOnlyBadFrames, [WNext]_wvars
               PROVE  DiscardsOnlyBadFrames'
    OBVIOUS
  <2>1. CASE WReset
    BY <2>1 DEF WReset, DiscardsOnlyBadFrames
  <2>2. ASSUME NEW ready \in BOOLEAN, WCycle(ready) PROVE DiscardsOnlyBadFrames'
    <3>1. 0 \in Byte
      BY ByteAssumption DEF Byte
    <3>2. CASE WClock(FALSE, 0, ready, ready)
      BY <3>1, <3>2, DiscardedInClock
    <3>3. CASE \E b \in Offered[state] : WClock(TRUE, b, ready, ready)
      <4>1. \A b \in Offered[state] : b \in Byte
        BY OfferedAssumption DEF WInv, IInv, TypeOK
      <4> QED BY <3>3, <4>1, DiscardedInClock
    <3> QED BY <2>2, <3>2, <3>3 DEF WCycle
  <2>3. CASE UNCHANGED wvars
    BY <2>3 DEF wvars, vars, DiscardsOnlyBadFrames, BeginningsOfFrames
  <2> QED BY <2>1, <2>2, <2>3 DEF WNext
<1> QED BY <1>1, <1>2, InitWInv, StepWInv, PTL DEF WSpec

----------------------------------------------------------------------------
(* The transmitter of MCFrames, to which the theorems of FrameTxProofs apply. *)

TxProofs == INSTANCE FrameTxProofs WITH
  Offers <- TxOffers,
  state <- tx_state, header_index <- tx_header_index, crc_index <- tx_crc_index,
  message_type <- tx_message_type, flags <- tx_flags,
  payload_length <- tx_payload_length,
  payload_remaining <- tx_payload_remaining, length_errors <- tx_length_errors,
  crc_feed <- tx_crc_feed, crc_state <- tx_crc_state,
  crc_output_valid <- tx_crc_output_valid, crc_output <- tx_crc_output,
  job <- tx_job, used <- tx_used, sent <- tx_sent

\* The constants are as FrameTxProofs assumes them.
LEMMA TxConstants == TxProofs!TxAssumption /\ TxProofs!OffersAssumption
<1>1. TxProofs!TxAssumption
  BY TxInstance DEF Tx!TxAssumption, TxProofs!TxAssumption
<1>2. TxProofs!OffersAssumption
  BY TxInstance DEF Tx!OffersAssumption, TxProofs!OffersAssumption, Tx!Byte, TxProofs!Byte,
     Tx!TwoBytes, TxProofs!TwoBytes
<1> QED BY <1>1, <1>2

\* Its first state and its steps are those of the module the proofs are about.
LEMMA TxSame ==
  /\ Tx!WInit => TxProofs!WInit
  /\ Tx!WNext => TxProofs!WNext
  /\ UNCHANGED tx => UNCHANGED TxProofs!wvars
<1>1. Tx!WInit => TxProofs!WInit
  BY DEF Tx!WInit, TxProofs!WInit, Tx!Init, TxProofs!Init, Tx!NoJob, TxProofs!NoJob,
     Tx!NoFeed, TxProofs!NoFeed, Tx!CRC!Init, TxProofs!CRC!Init
<1>2. Tx!WNext => TxProofs!WNext
  BY Zenon DEF Tx!WNext, TxProofs!WNext, Tx!WReset, TxProofs!WReset, Tx!WClock,
       TxProofs!WClock, Tx!Reset, TxProofs!Reset, Tx!Goto, TxProofs!Goto,
       Tx!NoFeed, TxProofs!NoFeed, Tx!NoJob, TxProofs!NoJob, Tx!Shown,
       TxProofs!Shown, Tx!Clock, TxProofs!Clock, Tx!frame_ready,
       TxProofs!frame_ready, Tx!out_valid, TxProofs!out_valid, Tx!out_data,
       TxProofs!out_data, Tx!payload_ready, TxProofs!payload_ready,
       Tx!CrcClock, TxProofs!CrcClock, Tx!FeedNext, TxProofs!FeedNext,
       Tx!Accept, TxProofs!Accept, Tx!StartOfFrame, TxProofs!StartOfFrame,
       Tx!Header, TxProofs!Header, Tx!Payload, TxProofs!Payload, Tx!WaitCrc,
       TxProofs!WaitCrc, Tx!CrcByte, TxProofs!CrcByte, Tx!Stall,
       TxProofs!Stall, Tx!LastProtected, TxProofs!LastProtected,
       Tx!crc_result_ready, TxProofs!crc_result_ready, Tx!header_byte,
       TxProofs!header_byte, Tx!frame, TxProofs!frame, Tx!engine,
       TxProofs!engine, Tx!vars, TxProofs!vars, Tx!wvars, TxProofs!wvars,
       Tx!CRC!Clock, TxProofs!CRC!Clock, Tx!CRC!Clear, TxProofs!CRC!Clear,
       Tx!CRC!Take, TxProofs!CRC!Take, Tx!CRC!Rest, TxProofs!CRC!Rest,
       Tx!CRC!PacketCrc, TxProofs!CRC!PacketCrc, Tx!CRC!input_ready,
       TxProofs!CRC!input_ready, Tx!Value, TxProofs!Value, Tx!Pair,
       TxProofs!Pair
<1>3. UNCHANGED tx => UNCHANGED TxProofs!wvars
  BY DEF tx, TxProofs!wvars, TxProofs!vars, TxProofs!frame, TxProofs!engine
<1> QED BY <1>1, <1>2, <1>3

\* What the proofs say of it is what the property says.
LEMMA TxMeans ==
  TxProofs!IInv => Tx!TypeOK /\ Tx!EncodingSent /\ Tx!FeedNeverRefused /\ Tx!ResultInTime
<1> SUFFICES ASSUME TxProofs!IInv
             PROVE  Tx!TypeOK /\ Tx!EncodingSent /\ Tx!FeedNeverRefused /\ Tx!ResultInTime
  OBVIOUS
<1>1. /\ TxProofs!TypeOK /\ TxProofs!EncodingSent
      /\ TxProofs!FeedNeverRefused /\ TxProofs!ResultInTime
  BY TxProofs!InvariantMeans, ByteAssumption, PayloadAssumption, CrcAssumption
     DEF TxProofs!Byte, TxProofs!TwoBytes, TxProofs!FourBytes, Byte, TwoBytes, FourBytes
<1>2. Tx!TypeOK
  BY <1>1, Zenon DEF Tx!TypeOK, TxProofs!TypeOK, Tx!States, TxProofs!States, Tx!Byte,
       TxProofs!Byte, Tx!TwoBytes, TxProofs!TwoBytes, Tx!FourBytes,
       TxProofs!FourBytes, Tx!Feed, TxProofs!Feed
<1>3. Tx!EncodingSent
  BY <1>1, Zenon DEF Tx!EncodingSent, TxProofs!EncodingSent, Tx!NoJob, TxProofs!NoJob,
       Tx!Encode, TxProofs!Encode, Tx!Protected, TxProofs!Protected,
       Tx!CrcOver, TxProofs!CrcOver, Tx!CrcAfter, TxProofs!CrcAfter, Tx!Pair,
       TxProofs!Pair, Tx!IsPrefix, TxProofs!IsPrefix
<1>4. Tx!FeedNeverRefused /\ Tx!ResultInTime
  BY <1>1, Zenon DEF Tx!FeedNeverRefused, TxProofs!FeedNeverRefused, Tx!ResultInTime,
       TxProofs!ResultInTime, Tx!crc_result_ready, TxProofs!crc_result_ready,
       Tx!CRC!input_ready, TxProofs!CRC!input_ready
<1> QED BY <1>2, <1>3, <1>4

\* For every radix, payload bound and CRC function, and however the source of the
\* payload and the wire stall: what has left for a frame is the beginning of its
\* encoding, and all of it when the transmitter is idle again; the CRC engine
\* refuses no byte on the way, and its result comes while it is awaited.
THEOREM TransmitterCorrect == MCSpec => []EncodingSent
<1> DEFINE Inv == component = "Tx" => TxProofs!IInv
<1>1. MCInit => Inv
  BY TxSame, TxConstants, TxProofs!WireInit, ByteAssumption, PayloadAssumption, CrcAssumption
     DEF MCInit, TxProofs!Byte, TxProofs!TwoBytes, TxProofs!FourBytes, Byte, TwoBytes, FourBytes
<1>2. Inv /\ [MCNext]_allvars => Inv'
  <2> SUFFICES ASSUME component = "Tx" => TxProofs!IInv, [MCNext]_allvars, component' = "Tx"
               PROVE  TxProofs!IInv'
    OBVIOUS
  <2>1. component = "Tx" /\ (Tx!WNext \/ UNCHANGED tx)
    BY DEF MCNext, allvars
  <2>2. [TxProofs!WNext]_(TxProofs!wvars)
    BY <2>1, TxSame
  <2> QED BY <2>1, <2>2, TxConstants, TxProofs!WireStep, ByteAssumption, PayloadAssumption,
             CrcAssumption
          DEF TxProofs!Byte, TxProofs!TwoBytes, TxProofs!FourBytes, Byte, TwoBytes, FourBytes
<1>3. Inv => EncodingSent
  BY TxMeans DEF EncodingSent
<1> QED BY <1>1, <1>2, <1>3, PTL DEF MCSpec
=============================================================================
