------------------------ MODULE FramePipelineProofs ------------------------
(***************************************************************************)
(* Proofs about the frame pipeline between a host and a wire, for every    *)
(* byte radix, payload bound, CRC function, handler and set of frames: its *)
(* routing registers agree with its parts, it sends the responses owed and *)
(* counts the others, and it is the service the UART top level relies on.  *)
(***************************************************************************)
EXTENDS FramePipelineWire, FrameV0Proofs

----------------------------------------------------------------------------
(* The pipeline: its three parts, each by itself. *)

RxOutput == {"OUTPUT_FRAME", "OUTPUT_PAYLOAD"}
Length == Value(rx_payload_length)

\* The receiver, as far as the pipeline looks into it.
RxOK ==
  /\ rx_state \in Rx!States
  /\ rx_flags \in TwoBytes /\ rx_payload_length \in TwoBytes
  /\ rx_payload_memory \in [0 .. MAX_PAYLOAD_BYTES - 1 -> Byte]
  /\ rx_payload_read_index \in Nat
  /\ rx_state \in Rx!CheckedStates => Length <= MAX_PAYLOAD_BYTES
  /\ rx_state = "OUTPUT_FRAME" => rx_payload_read_index = 0
  /\ rx_state = "OUTPUT_PAYLOAD" => rx_payload_read_index < Length

Phases == {"IDLE", "COLLECT", "WORK", "RESPONSE_HEADER", "RESPONSE_PAYLOAD"}

\* The handler: what it has of a request, and that its reply can be sent.
HandlerOK ==
  /\ hd_phase \in Phases
  /\ hd_request_flags \in TwoBytes
  /\ hd_request_length \in 0 .. MAX_PAYLOAD_BYTES
  /\ hd_received \in Seq(Byte) /\ hd_taken = Len(hd_received)
  /\ hd_taken <= MAX_PAYLOAD_BYTES
  /\ hd_phase \notin {"COLLECT", "WORK"} => hd_taken = 0
  /\ hd_phase = "COLLECT" => hd_taken < hd_request_length
  /\ hd_replied \in Nat
  /\ hd_phase \in {"RESPONSE_HEADER", "RESPONSE_PAYLOAD"} =>
       Len(hd_reply.payload) \in 1 .. MAX_PAYLOAD_BYTES
  /\ hd_phase = "RESPONSE_HEADER" => hd_replied = 0
  /\ hd_phase = "RESPONSE_PAYLOAD" => hd_replied < Len(hd_reply.payload)

TxHeading == {"SOF_0", "SOF_1", "HEADER"}

\* The transmitter: how many payload bytes it still expects.
TxOK ==
  /\ tx_state \in Tx!States
  /\ tx_payload_remaining \in 0 .. MAX_PAYLOAD_BYTES
  /\ tx_state \in TxHeading => Value(tx_payload_length) = tx_payload_remaining
  /\ tx_state = "PAYLOAD" => tx_payload_remaining > 0

----------------------------------------------------------------------------
(* The receiver. *)

USE DEF Rx!SearchStates, Rx!HeaderStates, Rx!CrcStates, Rx!OutputStates

\* The parts read a length field as the pipeline does.
LEMMA SameValue ==
  ASSUME NEW pair
  PROVE  Rx!Value(pair) = Value(pair) /\ Tx!Value(pair) = Value(pair)
BY DEF Value, Rx!Value, Tx!Value

\* A byte taken by the receiver leads to no frame on its output.
LEMMA RxTakes ==
  ASSUME RxOK, NEW b \in Byte, Rx!TakeByte(b)
  PROVE  RxOK' /\ rx_state \notin RxOutput /\ rx_state' \notin RxOutput
<1> USE PayloadAssumption DEF RxOK, Rx!Goto, RxOutput
<1> DEFINE P == /\ rx_state' \in Rx!States
                /\ rx_flags' \in TwoBytes /\ rx_payload_length' \in TwoBytes
                /\ rx_payload_memory' \in [0 .. MAX_PAYLOAD_BYTES - 1 -> Byte]
                /\ rx_state' \in Rx!CheckedStates => Length' <= MAX_PAYLOAD_BYTES
                /\ rx_state \notin RxOutput /\ rx_state' \notin RxOutput
<1>0. SUFFICES P
  <2>1. UNCHANGED rx_payload_read_index
    BY DEF Rx!TakeByte
  <2> QED BY <2>1
<1>1. CASE Rx!Search0(b) \/ Rx!Search1(b) \/ Rx!Version(b)
  BY <1>1 DEF Rx!Search0, Rx!Search1, Rx!Version, Rx!header, Rx!payload, Length,
              Rx!States, Rx!CheckedStates
<1>2. CASE Rx!MessageType(b) \/ Rx!FlagsLow(b) \/ Rx!FlagsHigh(b) \/ Rx!LengthLow(b)
  BY <1>2 DEF Rx!MessageType, Rx!FlagsLow, Rx!FlagsHigh, Rx!LengthLow, Rx!payload,
              TwoBytes, Rx!States, Rx!CheckedStates
<1>3. CASE Rx!LengthHigh(b)
  <2>1. Rx!incoming_length(b) \in TwoBytes
    BY DEF Rx!incoming_length, TwoBytes
  <2>2. Value(Rx!incoming_length(b)) \in Nat
    BY <2>1, ValueType
  <2>3. /\ rx_payload_length' = Rx!incoming_length(b)
        /\ rx_state' \in {"SEARCH_0", "CRC_0", "PAYLOAD"} /\ rx_state = "LENGTH_HIGH"
        /\ rx_state' # "SEARCH_0" => Value(Rx!incoming_length(b)) <= MAX_PAYLOAD_BYTES
        /\ UNCHANGED <<rx_flags, rx_payload_memory>>
    BY <1>3, <2>2, SameValue DEF Rx!LengthHigh
  <2> QED BY <2>1, <2>3 DEF Length, Rx!States, Rx!CheckedStates
<1>4. CASE Rx!Payload(b)
  <2>1. /\ UNCHANGED <<rx_flags, rx_payload_length>>
        /\ rx_payload_memory' \in [0 .. MAX_PAYLOAD_BYTES - 1 -> Byte]
        /\ rx_state = "PAYLOAD" /\ rx_state' \in {"PAYLOAD", "CRC_0"}
    BY <1>4 DEF Rx!Payload, Rx!header
  <2> QED BY <2>1 DEF Length, Rx!States, Rx!CheckedStates
<1>5. CASE \E k \in 1 .. 4 : Rx!CrcByte(k, b)
  <2> PICK k \in 1 .. 4 : Rx!CrcByte(k, b)
    BY <1>5
  <2>1. /\ UNCHANGED <<rx_flags, rx_payload_length, rx_payload_memory>>
        /\ rx_state \in {"CRC_0", "CRC_1", "CRC_2", "CRC_3"}
        /\ rx_state' \in {"CRC_1", "CRC_2", "CRC_3", "VALIDATE"}
    BY DEF Rx!CrcByte, Rx!header, Rx!payload
  <2> QED BY <2>1 DEF Length, Rx!States, Rx!CheckedStates
<1> HIDE DEF P
<1> QED BY <1>1, <1>2, <1>3, <1>4, <1>5 DEF Rx!TakeByte

\* Nor does a cycle in which it waits for one.
LEMMA RxWaits ==
  ASSUME RxOK, Rx!Wait
  PROVE  RxOK' /\ rx_state \notin RxOutput /\ rx_state' \notin RxOutput
<1>1. /\ UNCHANGED <<rx_flags, rx_payload_length, rx_payload_memory, rx_payload_read_index>>
      /\ rx_state \notin RxOutput /\ rx_state' \in {rx_state, "SEARCH_0"}
  BY DEF Rx!Wait, Rx!Timeout, Rx!WaitReceiving, Rx!WaitSearching, Rx!Goto, Rx!header,
         Rx!payload, Rx!receiving_frame, Rx!crc_input_state, RxOutput
<1> QED BY <1>1 DEF RxOK, Length, RxOutput, Rx!States, Rx!CheckedStates

\* A frame stays on the output until it is taken, and its payload goes byte by
\* byte to the last one.
LEMMA RxDelivers ==
  ASSUME RxOK, NEW fr \in BOOLEAN, NEW pr \in BOOLEAN, Rx!Deliver(fr, pr)
  PROVE  /\ RxOK'
         /\ rx_state \notin RxOutput => rx_state' # "OUTPUT_PAYLOAD"
         /\ UNCHANGED <<rx_flags, rx_payload_length, rx_payload_memory>>
         /\ rx_state = "OUTPUT_FRAME" =>
              /\ UNCHANGED rx_payload_read_index
              /\ rx_state' = IF ~fr THEN "OUTPUT_FRAME"
                             ELSE IF Length = 0 THEN "SEARCH_0" ELSE "OUTPUT_PAYLOAD"
         /\ rx_state = "OUTPUT_PAYLOAD" =>
              IF pr /\ rx_payload_read_index + 1 = Length THEN rx_state' = "SEARCH_0"
              ELSE /\ rx_state' = "OUTPUT_PAYLOAD"
                   /\ rx_payload_read_index' =
                        IF pr THEN rx_payload_read_index + 1 ELSE rx_payload_read_index
<1>0. /\ UNCHANGED <<rx_flags, rx_payload_length, rx_payload_memory>>
      /\ Length \in Nat /\ Length' = Length
  BY ValueType DEF RxOK, Length, Rx!Deliver, Rx!header, Rx!payload
<1>1. CASE Rx!Validate
  BY <1>0, <1>1 DEF Rx!Validate, RxOK, Rx!Goto, RxOutput, Rx!States, Rx!CheckedStates
<1>2. CASE Rx!OutputFrame(fr)
  BY <1>0, <1>2, SameValue DEF Rx!OutputFrame, RxOK, Rx!Goto, RxOutput, Rx!States,
                    Rx!CheckedStates, Length
<1>3. CASE Rx!OutputPayload(pr)
  BY <1>0, <1>3, SameValue DEF Rx!OutputPayload, RxOK, Rx!Goto, RxOutput, Rx!States,
                    Rx!CheckedStates, Length, Rx!last_payload_byte
<1> QED BY <1>1, <1>2, <1>3 DEF Rx!Deliver

\* An edge of the receiver.
LEMMA RxStep ==
  ASSUME RxOK, NEW iv \in BOOLEAN, NEW b \in Byte, NEW fr \in BOOLEAN, NEW pr \in BOOLEAN,
         Rx!Clock(iv, b, fr, pr)
  PROVE  /\ RxOK'
         /\ rx_state \notin RxOutput => rx_state' # "OUTPUT_PAYLOAD"
         /\ rx_state \in RxOutput => UNCHANGED <<rx_flags, rx_payload_length, rx_payload_memory>>
         /\ rx_state = "OUTPUT_FRAME" =>
              /\ UNCHANGED rx_payload_read_index
              /\ rx_state' = IF ~fr THEN "OUTPUT_FRAME"
                             ELSE IF Length = 0 THEN "SEARCH_0" ELSE "OUTPUT_PAYLOAD"
         /\ rx_state = "OUTPUT_PAYLOAD" =>
              IF pr /\ rx_payload_read_index + 1 = Length THEN rx_state' = "SEARCH_0"
              ELSE /\ rx_state' = "OUTPUT_PAYLOAD"
                   /\ rx_payload_read_index' =
                        IF pr THEN rx_payload_read_index + 1 ELSE rx_payload_read_index
<1>1. CASE Rx!TakeByte(b)
  BY <1>1, RxTakes DEF RxOutput
<1>2. CASE Rx!Wait
  BY <1>2, RxWaits DEF RxOutput
<1>3. CASE Rx!Deliver(fr, pr)
  BY <1>3, RxDelivers
<1> QED BY <1>1, <1>2, <1>3 DEF Rx!Clock

----------------------------------------------------------------------------
(* The handler. *)

\* What an edge of the handler does in each phase, when the byte marked last is
\* the one that completes the request.
HandlerEdge(rv, length, pv, last, rr, pr) ==
  /\ hd_phase = "IDLE" =>
       IF rv THEN /\ hd_phase' = IF length = 0 THEN "WORK" ELSE "COLLECT"
                  /\ hd_request_length' = length /\ hd_taken' = 0
       ELSE hd_phase' = "IDLE"
  /\ hd_phase = "COLLECT" =>
       /\ hd_phase' = IF pv /\ last THEN "WORK" ELSE "COLLECT"
       /\ hd_request_length' = hd_request_length
       /\ hd_taken' = IF pv THEN hd_taken + 1 ELSE hd_taken
  /\ hd_phase = "WORK" => hd_phase' \in {"WORK", "RESPONSE_HEADER"}
  /\ hd_phase = "RESPONSE_HEADER" =>
       /\ hd_phase' = IF rr THEN "RESPONSE_PAYLOAD" ELSE "RESPONSE_HEADER"
       /\ UNCHANGED <<hd_reply, hd_replied>>
  /\ hd_phase = "RESPONSE_PAYLOAD" =>
       IF pr /\ hd_replied + 1 = Len(hd_reply.payload) THEN hd_phase' = "IDLE"
       ELSE /\ hd_phase' = "RESPONSE_PAYLOAD"
            /\ UNCHANGED hd_reply
            /\ hd_replied' = IF pr THEN hd_replied + 1 ELSE hd_replied

\* A reply to bytes that were received can be sent.
LEMMA ReplyLength ==
  ASSUME HandlerOK, NEW r \in Replies(hd_request_flags, hd_received)
  PROVE  Len(r.payload) \in 1 .. MAX_PAYLOAD_BYTES
<1>1. /\ Len(hd_received) \in 0 .. MAX_PAYLOAD_BYTES
      /\ hd_received \in [1 .. Len(hd_received) -> Byte]
      /\ hd_request_flags \in TwoBytes
  BY LenProperties, PayloadAssumption DEF HandlerOK
<1> QED BY <1>1, RepliesAssumption

\* An edge of the handler keeps what it has in order.
LEMMA HandlerStep ==
  ASSUME HandlerOK,
         NEW rv, NEW fl, NEW length, NEW pv, NEW byte, NEW last, NEW rr, NEW pr, NEW done,
         rv => fl \in TwoBytes /\ length \in 0 .. MAX_PAYLOAD_BYTES,
         hd_phase = "COLLECT" /\ pv =>
           byte \in Byte /\ (last <=> hd_taken + 1 = hd_request_length),
         Handler!Clock(rv, fl, length, pv, byte, last, rr, pr, done)
  PROVE  HandlerOK' /\ HandlerEdge(rv, length, pv, last, rr, pr)
<1> USE PayloadAssumption
<1>0. UNCHANGED Handler!vars =>
        /\ HandlerOK'
        /\ UNCHANGED <<hd_phase, hd_request_length, hd_taken, hd_reply, hd_replied>>
  BY DEF Handler!vars, Handler!request, HandlerOK
<1>1. CASE hd_phase = "IDLE"
  <2>1. IF rv THEN Handler!Accept(fl, length) ELSE UNCHANGED Handler!vars
    BY <1>1 DEF Handler!Clock, Handler!request_ready, Handler!request_payload_ready,
                Handler!response_valid, Handler!response_payload_valid
  <2>2. CASE rv
    <3>1. /\ hd_phase' = IF length = 0 THEN "WORK" ELSE "COLLECT"
          /\ hd_request_length' = length /\ hd_request_flags' = fl
          /\ UNCHANGED <<hd_received, hd_taken, hd_reply, hd_replied>>
      BY <2>1, <2>2 DEF Handler!Accept
    <3>2. hd_taken = 0
      BY <1>1 DEF HandlerOK
    <3>3. HandlerOK'
      BY <2>2, <3>1, <3>2 DEF HandlerOK, Phases
    <3> QED BY <1>1, <2>2, <3>1, <3>2, <3>3 DEF HandlerEdge
  <2>3. CASE ~rv
    BY <1>0, <1>1, <2>1, <2>3 DEF HandlerEdge
  <2> QED BY <2>2, <2>3
<1>2. CASE hd_phase = "COLLECT"
  <2>1. IF pv THEN Handler!Collect(byte, last) ELSE UNCHANGED Handler!vars
    BY <1>2 DEF Handler!Clock, Handler!request_ready, Handler!request_payload_ready,
                Handler!response_valid, Handler!response_payload_valid
  <2>2. CASE pv
    <3>1. /\ last <=> hd_taken + 1 = hd_request_length
          /\ hd_taken \in Nat /\ hd_taken < hd_request_length
          /\ hd_request_length <= MAX_PAYLOAD_BYTES /\ hd_request_length \in Nat
          /\ byte \in Byte /\ hd_received \in Seq(Byte) /\ hd_taken = Len(hd_received)
      BY <1>2, <2>2 DEF HandlerOK
    <3>2. /\ hd_phase' = IF last THEN "WORK" ELSE "COLLECT"
          /\ hd_received' = Append(hd_received, byte) /\ hd_taken' = hd_taken + 1
          /\ UNCHANGED <<hd_request_flags, hd_request_length, hd_reply, hd_replied>>
      BY <1>2, <2>1, <2>2, <3>1 DEF Handler!Collect, Handler!request
    <3>3. hd_received' \in Seq(Byte) /\ hd_taken' = Len(hd_received')
      BY <3>1, <3>2, AppendProperties
    <3>4. HandlerOK'
      BY <1>2, <3>1, <3>2, <3>3 DEF HandlerOK, Phases
    <3> QED BY <1>2, <2>2, <3>2, <3>4 DEF HandlerEdge
  <2>3. CASE ~pv
    BY <1>0, <1>2, <2>1, <2>3 DEF HandlerEdge
  <2> QED BY <2>2, <2>3
<1>3. CASE hd_phase = "WORK"
  <2>1. IF done THEN Handler!Finish ELSE UNCHANGED Handler!vars
    BY <1>3 DEF Handler!Clock, Handler!request_ready, Handler!request_payload_ready,
                Handler!response_valid, Handler!response_payload_valid
  <2>2. CASE done
    <3>1. PICK r \in Replies(hd_request_flags, hd_received) : Handler!Answer(r)
      BY <2>1, <2>2 DEF Handler!Finish
    <3>2. Len(r.payload) \in 1 .. MAX_PAYLOAD_BYTES
      BY <3>1, ReplyLength
    <3>3. /\ hd_phase' = "RESPONSE_HEADER" /\ hd_reply' = r /\ hd_replied' = 0
          /\ hd_received' = << >> /\ hd_taken' = 0
          /\ UNCHANGED <<hd_request_flags, hd_request_length>>
      BY <2>1, <2>2, <3>1 DEF Handler!Finish, Handler!Answer, Handler!request
    <3>4. HandlerOK'
      BY <3>2, <3>3 DEF HandlerOK, Phases
    <3> QED BY <1>3, <3>3, <3>4 DEF HandlerEdge
  <2>3. CASE ~done
    BY <1>0, <1>3, <2>1, <2>3 DEF HandlerEdge
  <2> QED BY <2>2, <2>3
<1>4. CASE hd_phase = "RESPONSE_HEADER"
  <2>1. IF rr THEN Handler!HeaderTaken ELSE UNCHANGED Handler!vars
    BY <1>4 DEF Handler!Clock, Handler!request_ready, Handler!request_payload_ready,
                Handler!response_valid, Handler!response_payload_valid
  <2>2. CASE rr
    <3>1. /\ hd_phase' = "RESPONSE_PAYLOAD"
          /\ UNCHANGED <<hd_request_flags, hd_request_length, hd_received, hd_taken,
                         hd_reply, hd_replied>>
      BY <2>1, <2>2 DEF Handler!HeaderTaken, Handler!request
    <3>2. HandlerOK'
      BY <1>4, <3>1 DEF HandlerOK, Phases
    <3> QED BY <1>4, <2>2, <3>1, <3>2 DEF HandlerEdge
  <2>3. CASE ~rr
    BY <1>0, <1>4, <2>1, <2>3 DEF HandlerEdge
  <2> QED BY <2>2, <2>3
<1>5. CASE hd_phase = "RESPONSE_PAYLOAD"
  <2>1. IF pr THEN Handler!PayloadTaken ELSE UNCHANGED Handler!vars
    BY <1>5 DEF Handler!Clock, Handler!request_ready, Handler!request_payload_ready,
                Handler!response_valid, Handler!response_payload_valid
  <2>2. CASE pr
    <3> DEFINE m == Len(hd_reply.payload)
    <3>0. m \in Nat /\ hd_replied \in Nat /\ hd_replied < m /\ hd_taken = 0
      BY <1>5 DEF HandlerOK
    <3>1. /\ UNCHANGED <<hd_request_flags, hd_request_length, hd_received, hd_taken>>
          /\ IF hd_replied + 1 = m
             THEN hd_phase' = "IDLE" /\ hd_replied' = 0
             ELSE /\ hd_phase' = "RESPONSE_PAYLOAD" /\ hd_replied' = hd_replied + 1
                  /\ UNCHANGED hd_reply
      BY <1>5, <2>1, <2>2 DEF Handler!PayloadTaken, Handler!request,
           Handler!response_payload_last, Handler!response_payload_valid
    <3>2. HandlerOK'
      <4>1. CASE hd_replied + 1 = m
        <5>1. hd_phase' = "IDLE" /\ hd_replied' = 0
          BY <3>1, <4>1
        <5>2. hd_taken = 0 /\ hd_taken' = hd_taken
          BY <3>0, <3>1
        <5> HIDE DEF m
        <5> QED BY <3>1, <5>1, <5>2 DEF HandlerOK, Phases
      <4>2. CASE hd_replied + 1 # m
        <5>1. hd_reply' = hd_reply /\ hd_phase' = "RESPONSE_PAYLOAD"
              /\ hd_replied' = hd_replied + 1
          BY <3>1, <4>2
        <5>2. m \in 1 .. MAX_PAYLOAD_BYTES /\ hd_replied' < m /\ hd_replied' \in Nat
          <6>1. m \in 1 .. MAX_PAYLOAD_BYTES
            BY <1>5 DEF HandlerOK
          <6>2. hd_replied' = hd_replied + 1
            BY <5>1
          <6>3. hd_replied + 1 < m /\ hd_replied + 1 \in Nat
            <7> HIDE DEF m
            <7> QED BY <3>0, <4>2, <6>1
          <6> QED BY <6>1, <6>2, <6>3
        <5> QED BY <1>5, <3>0, <3>1, <5>1, <5>2 DEF HandlerOK, Phases
      <4> QED BY <4>1, <4>2
    <3> QED BY <1>5, <2>2, <3>1, <3>2 DEF HandlerEdge
  <2>3. CASE ~pr
    BY <1>0, <1>5, <2>1, <2>3 DEF HandlerEdge
  <2> QED BY <2>2, <2>3
<1> QED BY <1>1, <1>2, <1>3, <1>4, <1>5 DEF HandlerOK, Phases

\* What it has of the request and of the reply after the edge.
LEMMA HandlerData ==
  ASSUME HandlerOK,
         NEW rv, NEW fl, NEW length, NEW pv, NEW byte, NEW last, NEW rr, NEW pr, NEW done,
         hd_phase = "COLLECT" /\ pv => (last <=> hd_taken + 1 = hd_request_length),
         Handler!Clock(rv, fl, length, pv, byte, last, rr, pr, done)
  PROVE  /\ hd_phase = "IDLE" /\ rv => hd_request_flags' = fl /\ hd_received' = << >>
         /\ hd_phase = "COLLECT" /\ pv =>
              hd_request_flags' = hd_request_flags /\ hd_received' = Append(hd_received, byte)
         /\ hd_phase = "WORK" =>
              IF done THEN /\ hd_phase' = "RESPONSE_HEADER"
                           /\ hd_reply' \in Replies(hd_request_flags, hd_received)
              ELSE UNCHANGED <<hd_phase, hd_request_flags, hd_received>>
<1> USE DEF Handler!Clock, Handler!request_ready, Handler!request_payload_ready,
            Handler!response_valid, Handler!response_payload_valid
<1>1. ASSUME hd_phase = "IDLE", rv
      PROVE  hd_request_flags' = fl /\ hd_received' = << >>
  <2>1. Handler!Accept(fl, length)
    BY <1>1
  <2>2. hd_received \in Seq(Byte) /\ Len(hd_received) = 0
    BY <1>1 DEF HandlerOK
  <2>3. hd_received = << >>
    BY <2>2, EmptySeq
  <2> QED BY <2>1, <2>3 DEF Handler!Accept
<1>2. ASSUME hd_phase = "COLLECT", pv
      PROVE  hd_request_flags' = hd_request_flags /\ hd_received' = Append(hd_received, byte)
  <2>1. Handler!Collect(byte, last)
    BY <1>2
  <2>2. /\ last <=> hd_taken + 1 = hd_request_length
        /\ hd_taken \in Nat /\ hd_taken < MAX_PAYLOAD_BYTES
        /\ hd_request_length <= MAX_PAYLOAD_BYTES
    BY <1>2, PayloadAssumption DEF HandlerOK
  <2> DEFINE complete == hd_taken + 1 = hd_request_length
  <2>3. /\ last <=> complete
        /\ ~(IF last THEN ~complete \/ hd_request_length > MAX_PAYLOAD_BYTES ELSE complete)
    BY <1>2, <2>2, PayloadAssumption DEF HandlerOK
  <2>4. UNCHANGED Handler!request
        /\ \/ hd_received' = (IF hd_taken < MAX_PAYLOAD_BYTES THEN Append(hd_received, byte)
                              ELSE hd_received)
           \/ IF last THEN ~complete \/ hd_request_length > MAX_PAYLOAD_BYTES ELSE complete
    BY <2>1, Zenon DEF Handler!Collect
  <2> QED BY <2>2, <2>3, <2>4 DEF Handler!request
<1>3. ASSUME hd_phase = "WORK"
      PROVE  IF done THEN /\ hd_phase' = "RESPONSE_HEADER"
                          /\ hd_reply' \in Replies(hd_request_flags, hd_received)
             ELSE UNCHANGED <<hd_phase, hd_request_flags, hd_received>>
  <2>1. IF done THEN Handler!Finish ELSE UNCHANGED Handler!vars
    BY <1>3
  <2> QED BY <2>1 DEF Handler!Finish, Handler!Answer, Handler!vars, Handler!request
<1> QED BY <1>1, <1>2, <1>3

----------------------------------------------------------------------------
(* The transmitter. *)

\* An edge of the transmitter: an offered header of a frame that fits is taken
\* when it is idle, and each payload byte that leaves is one fewer to come.
LEMMA TxStep ==
  ASSUME TxOK, NEW fv \in BOOLEAN, NEW type, NEW fl, NEW n \in 0 .. MAX_PAYLOAD_BYTES,
         NEW length, fv => length \in TwoBytes /\ Value(length) = n,
         NEW pv \in BOOLEAN, NEW data, NEW ready \in BOOLEAN,
         Tx!Clock(fv, type, fl, length, pv, data, ready)
  PROVE  /\ TxOK'
         /\ tx_state = "IDLE" =>
              IF fv THEN tx_state' = "SOF_0" /\ tx_payload_remaining' = n
              ELSE tx_state' = "IDLE"
         /\ tx_state \in TxHeading =>
              /\ UNCHANGED tx_payload_remaining
              /\ tx_state' \in TxHeading \cup {"PAYLOAD", "WAIT_CRC"}
              /\ tx_payload_remaining > 0 => tx_state' # "WAIT_CRC"
         /\ tx_state = "PAYLOAD" =>
              IF pv /\ ready
              THEN /\ tx_payload_remaining' = tx_payload_remaining - 1
                   /\ tx_state' = IF tx_payload_remaining = 1 THEN "WAIT_CRC" ELSE "PAYLOAD"
              ELSE UNCHANGED <<tx_payload_remaining, tx_state>>
         /\ tx_state \in {"WAIT_CRC", "CRC"} => tx_state' \in {"WAIT_CRC", "CRC", "IDLE"}
<1> USE PayloadAssumption DEF Tx!Goto
<1>0. Tx!Stall => UNCHANGED <<tx_state, tx_payload_length, tx_payload_remaining>>
  BY DEF Tx!Stall, Tx!frame
<1>1. CASE tx_state = "IDLE"
  <2>1. IF fv THEN Tx!Accept(type, fl, length) ELSE Tx!Stall
    BY <1>1 DEF Tx!Clock, Tx!frame_ready, Tx!crc_result_ready
  <2>2. CASE fv
    <3>1. tx_state' = "SOF_0" /\ tx_payload_length' = length /\ tx_payload_remaining' = n
      BY <2>1, <2>2, SameValue DEF Tx!Accept
    <3> QED BY <1>1, <2>2, <3>1 DEF TxOK, TxHeading, Tx!States
  <2>3. CASE ~fv
    BY <1>0, <1>1, <2>1, <2>3 DEF TxOK, TxHeading
  <2> QED BY <2>2, <2>3
<1>2. CASE tx_state \in TxHeading
  <2>1. Tx!StartOfFrame \/ Tx!Header \/ Tx!Stall
    BY <1>2 DEF Tx!Clock, Tx!frame_ready, Tx!crc_result_ready, TxHeading, Tx!Payload,
                Tx!CrcByte
  <2>2. Value(tx_payload_length) = tx_payload_remaining
    BY <1>2 DEF TxOK
  <2>3. /\ UNCHANGED <<tx_payload_length, tx_payload_remaining>>
        /\ tx_state' \in TxHeading \cup {"PAYLOAD", "WAIT_CRC"}
        /\ tx_state' = "WAIT_CRC" => tx_payload_remaining = 0
        /\ tx_state' = "PAYLOAD" => tx_payload_remaining # 0
    BY <1>0, <1>2, <2>1, <2>2, SameValue DEF Tx!StartOfFrame, Tx!Header, Tx!frame, TxHeading
  <2> QED BY <1>2, <2>2, <2>3 DEF TxOK, TxHeading, Tx!States
<1>3. CASE tx_state = "PAYLOAD"
  <2>1. IF pv /\ ready THEN Tx!Payload ELSE Tx!Stall
    BY <1>3 DEF Tx!Clock, Tx!frame_ready, Tx!crc_result_ready, Tx!StartOfFrame, Tx!Header,
                Tx!CrcByte, Tx!out_valid
  <2>2. CASE pv /\ ready
    <3>1. /\ tx_payload_remaining' = tx_payload_remaining - 1
          /\ tx_state' = IF tx_payload_remaining = 1 THEN "WAIT_CRC" ELSE "PAYLOAD"
      BY <2>1, <2>2 DEF Tx!Payload
    <3> QED BY <1>3, <2>2, <3>1 DEF TxOK, TxHeading, Tx!States
  <2>3. CASE ~(pv /\ ready)
    BY <1>0, <1>3, <2>1, <2>3 DEF TxOK, TxHeading
  <2> QED BY <2>2, <2>3
<1>4. CASE tx_state \in {"WAIT_CRC", "CRC"}
  <2>1. Tx!WaitCrc \/ Tx!CrcByte \/ Tx!Stall
    BY <1>4 DEF Tx!Clock, Tx!frame_ready, Tx!crc_result_ready, Tx!StartOfFrame, Tx!Header,
                Tx!Payload
  <2>2. /\ UNCHANGED tx_payload_remaining
        /\ tx_state' \in {"WAIT_CRC", "CRC", "IDLE"}
    BY <1>0, <1>4, <2>1 DEF Tx!WaitCrc, Tx!CrcByte
  <2> QED BY <1>4, <2>2 DEF TxOK, TxHeading, Tx!States
<1> QED BY <1>1, <1>2, <1>3, <1>4 DEF TxOK, TxHeading, Tx!States

----------------------------------------------------------------------------
(* The three together. *)

Routes == {"IDLE", "TOKEN", "DROP"}

\* Beside RoutingAgrees, that the transmitter expects payload bytes only of a
\* response that the handler is giving it.
RoutingInv ==
  /\ RxOK /\ HandlerOK /\ TxOK
  /\ payload_route \in Routes /\ token_in_flight \in BOOLEAN
  /\ tx_state \in TxHeading /\ tx_payload_remaining > 0 => hd_phase = "RESPONSE_PAYLOAD"
  /\ RoutingAgrees

\* Nothing is under way at power-up.
LEMMA RoutingInit == Init => RoutingInv
<1> SUFFICES ASSUME Init PROVE RoutingInv
  OBVIOUS
<1>0. 0 \in Byte /\ <<0, 0>> \in TwoBytes
  BY ByteAssumption DEF Byte, TwoBytes
<1>1. RxOK /\ rx_state = "SEARCH_0"
  BY <1>0, PayloadAssumption DEF Init, Rx!Init, RxOK, Rx!States, Rx!CheckedStates,
                                 Rx!Byte, Byte
<1>2. HandlerOK /\ hd_phase = "IDLE"
  BY <1>0, PayloadAssumption DEF Init, Handler!Init, HandlerOK, Phases
<1>3. TxOK /\ tx_state = "IDLE"
  BY PayloadAssumption DEF Init, Tx!Init, TxOK, TxHeading, Tx!States
<1> QED BY <1>1, <1>2, <1>3 DEF Init, RoutingInv, RoutingAgrees, Routes, TxHeading

\* The same holds after a reset, whatever was under way.
LEMMA RoutingReset == RoutingInv /\ Reset => RoutingInv'
<1> SUFFICES ASSUME RoutingInv, Reset PROVE RoutingInv'
  OBVIOUS
<1>0. 0 \in Byte /\ <<0, 0>> \in TwoBytes
  BY ByteAssumption DEF Byte, TwoBytes
<1>1. RxOK' /\ rx_state' = "SEARCH_0"
  BY <1>0 DEF Reset, Rx!Reset, Rx!Goto, RoutingInv, RxOK, Rx!States, Rx!CheckedStates
<1>2. HandlerOK' /\ hd_phase' = "IDLE"
  BY <1>0, PayloadAssumption DEF Reset, Handler!Reset, HandlerOK, Phases
<1>3. TxOK' /\ tx_state' = "IDLE"
  BY PayloadAssumption DEF Reset, Tx!Reset, Tx!Goto, TxOK, TxHeading, Tx!States
<1> QED BY <1>1, <1>2, <1>3 DEF Reset, RoutingInv, RoutingAgrees, Routes, TxHeading

\* The handler is shown a payload byte.
collecting == Rx!payload_valid /\ payload_route = "TOKEN"

\* What the wires between the parts say.
LEMMA Wires ==
  ASSUME RoutingInv, NEW out_ready \in BOOLEAN
  PROVE  /\ received_frame_ready \in BOOLEAN /\ received_payload_ready \in BOOLEAN
         /\ handler_request_valid \in BOOLEAN /\ collecting \in BOOLEAN
         /\ Rx!payload_last \in BOOLEAN /\ handler_response_ready \in BOOLEAN
         /\ Tx!payload_ready(out_ready) \in BOOLEAN /\ transmit_frame_valid \in BOOLEAN
         /\ Handler!response_payload_valid \in BOOLEAN
         /\ handler_request_valid /\ hd_phase = "IDLE" <=> received_frame_accepted /\ token_request
         /\ received_frame_accepted =>
              rx_state = "OUTPUT_FRAME" /\ received_frame_ready /\ hd_phase = "IDLE"
         /\ rx_state = "OUTPUT_FRAME" /\ received_frame_ready => received_frame_accepted
         /\ handler_request_valid => rx_state = "OUTPUT_FRAME"
         /\ Length \in Nat /\ (rx_state \in RxOutput => Length <= MAX_PAYLOAD_BYTES)
         /\ rx_state = "OUTPUT_PAYLOAD" => received_payload_ready
         /\ hd_phase = "COLLECT" => collecting /\ rx_state = "OUTPUT_PAYLOAD"
         /\ rx_state = "OUTPUT_PAYLOAD" =>
              (Rx!payload_last <=> rx_payload_read_index + 1 = Length)
         /\ received_payload_accepted <=> rx_state = "OUTPUT_PAYLOAD"
         /\ hd_phase = "COLLECT" /\ collecting =>
              /\ Rx!payload_data \in Byte
              /\ Rx!payload_last <=> hd_taken + 1 = hd_request_length
<1> DEFINE fr == received_frame_ready
           pr == received_payload_ready
           rv == handler_request_valid
           last == Rx!payload_last
           hr == handler_response_ready
           tp == Tx!payload_ready(out_ready)
           fv == transmit_frame_valid
           giving == Handler!response_payload_valid
<1> USE DEF RoutingInv, collecting
<1>1. /\ fr \in BOOLEAN /\ pr \in BOOLEAN /\ rv \in BOOLEAN /\ collecting \in BOOLEAN
      /\ last \in BOOLEAN /\ hr \in BOOLEAN /\ tp \in BOOLEAN /\ fv \in BOOLEAN
      /\ giving \in BOOLEAN
  BY DEF received_frame_ready, received_payload_ready, handler_request_valid,
         handler_response_ready, transmit_frame_valid, ping_response_valid,
         ping_response_ready, Rx!frame_valid, Rx!payload_valid, Rx!payload_last,
         Handler!request_ready, Handler!request_payload_ready, Handler!response_valid,
         Handler!response_payload_valid, Tx!payload_ready, Tx!frame_ready, supported_ping,
         token_request
<1>2. /\ rv /\ hd_phase = "IDLE" <=> received_frame_accepted /\ token_request
      /\ received_frame_accepted => rx_state = "OUTPUT_FRAME" /\ fr /\ hd_phase = "IDLE"
      /\ rx_state = "OUTPUT_FRAME" /\ fr => received_frame_accepted
      /\ rv => rx_state = "OUTPUT_FRAME"
  BY DEF received_frame_accepted, received_frame_ready, handler_request_valid,
         RoutingAgrees, Rx!frame_valid, Handler!request_ready
<1>3. Length \in Nat /\ (rx_state \in RxOutput => Length <= MAX_PAYLOAD_BYTES)
  BY ValueType DEF RxOK, Length, RxOutput, Rx!CheckedStates
<1>4. /\ rx_state = "OUTPUT_PAYLOAD" => pr
      /\ hd_phase = "COLLECT" => collecting /\ rx_state = "OUTPUT_PAYLOAD"
      /\ rx_state = "OUTPUT_PAYLOAD" => (last <=> rx_payload_read_index + 1 = Length)
      /\ received_payload_accepted <=> rx_state = "OUTPUT_PAYLOAD"
  BY SameValue DEF received_payload_ready, received_payload_accepted, RoutingAgrees, Routes,
         Handler!request_payload_ready, Rx!payload_valid, Rx!payload_last,
         Rx!last_payload_byte, Length
<1>5. hd_phase = "COLLECT" /\ collecting =>
        Rx!payload_data \in Byte /\ (last <=> hd_taken + 1 = hd_request_length)
  <2> SUFFICES ASSUME hd_phase = "COLLECT"
               PROVE  Rx!payload_data \in Byte /\ (last <=> hd_taken + 1 = hd_request_length)
    OBVIOUS
  <2>1. /\ hd_request_length = Length /\ hd_taken = rx_payload_read_index
        /\ rx_state = "OUTPUT_PAYLOAD"
    BY <1>4 DEF RoutingAgrees, Length
  <2>2. rx_payload_read_index \in 0 .. MAX_PAYLOAD_BYTES - 1
    BY <1>3, <2>1, PayloadAssumption DEF RxOK, RxOutput
  <2>3. Rx!payload_data \in Byte
    BY <2>2 DEF Rx!payload_data, RxOK
  <2> QED BY <1>4, <2>1, <2>3
<1> QED BY <1>1, <1>2, <1>3, <1>4, <1>5

\* An edge of the pipeline, whatever is on its input.
LEMMA RoutingClock ==
  ASSUME RoutingInv, NEW iv \in BOOLEAN, NEW b \in Byte, NEW out_ready \in BOOLEAN,
         NEW done \in BOOLEAN, Clock(iv, b, out_ready, done)
  PROVE  RoutingInv'
<1> DEFINE fr == received_frame_ready
           pr == received_payload_ready
           rv == handler_request_valid
           last == Rx!payload_last
           hr == handler_response_ready
           tp == Tx!payload_ready(out_ready)
           fv == transmit_frame_valid
           giving == Handler!response_payload_valid
           n == IF hd_phase = "RESPONSE_HEADER" THEN Len(hd_reply.payload) ELSE 0
<1> USE DEF RoutingInv
\* The wires between the parts.
<1>1. /\ fr \in BOOLEAN /\ pr \in BOOLEAN /\ rv \in BOOLEAN /\ collecting \in BOOLEAN
      /\ last \in BOOLEAN /\ hr \in BOOLEAN /\ tp \in BOOLEAN /\ fv \in BOOLEAN
      /\ giving \in BOOLEAN
  BY Wires
<1>2. /\ rv /\ hd_phase = "IDLE" <=> received_frame_accepted /\ token_request
      /\ received_frame_accepted => rx_state = "OUTPUT_FRAME" /\ fr /\ hd_phase = "IDLE"
      /\ rx_state = "OUTPUT_FRAME" /\ fr => received_frame_accepted
      /\ rv => rx_state = "OUTPUT_FRAME"
  BY Wires
<1>3. Length \in Nat /\ (rx_state \in RxOutput => Length <= MAX_PAYLOAD_BYTES)
  BY Wires
<1>4. /\ rx_state = "OUTPUT_PAYLOAD" => pr
      /\ hd_phase = "COLLECT" => collecting /\ rx_state = "OUTPUT_PAYLOAD"
      /\ rx_state = "OUTPUT_PAYLOAD" => (last <=> rx_payload_read_index + 1 = Length)
      /\ received_payload_accepted <=> rx_state = "OUTPUT_PAYLOAD"
  BY Wires
<1>5. hd_phase = "COLLECT" /\ collecting =>
        Rx!payload_data \in Byte /\ (last <=> hd_taken + 1 = hd_request_length)
  BY Wires
<1>6. n \in 0 .. MAX_PAYLOAD_BYTES
  BY PayloadAssumption DEF HandlerOK
<1>7. fv => transmitted.length \in TwoBytes /\ Value(transmitted.length) = n
  <2>1. n \in 0 .. BYTE * BYTE - 1
    BY <1>6, PayloadAssumption, ByteAssumption
  <2>2. 0 \in 0 .. BYTE * BYTE - 1
    BY PayloadAssumption, ByteAssumption
  <2>3. Pair(n) \in TwoBytes /\ Value(Pair(n)) = n
    BY <2>1, ValueOfPair
  <2>4. <<0, 0>> \in TwoBytes /\ Value(<<0, 0>>) = 0
    BY ByteAssumption DEF TwoBytes, Byte, Value
  <2> QED BY <2>3, <2>4 DEF transmitted, Handler!response_valid
\* What each part does.
<1>8. /\ RxOK'
      /\ rx_state \notin RxOutput => rx_state' # "OUTPUT_PAYLOAD"
      /\ rx_state \in RxOutput => UNCHANGED <<rx_flags, rx_payload_length, rx_payload_memory>>
      /\ rx_state = "OUTPUT_FRAME" =>
           /\ UNCHANGED rx_payload_read_index
           /\ rx_state' = IF ~fr THEN "OUTPUT_FRAME"
                          ELSE IF Length = 0 THEN "SEARCH_0" ELSE "OUTPUT_PAYLOAD"
      /\ rx_state = "OUTPUT_PAYLOAD" =>
           IF last THEN rx_state' = "SEARCH_0"
           ELSE /\ rx_state' = "OUTPUT_PAYLOAD"
                /\ rx_payload_read_index' = rx_payload_read_index + 1
  <2>1. Rx!Clock(iv, b, fr, pr)
    BY DEF Clock, RxClock
  <2> HIDE DEF fr, pr, last
  <2> QED BY <1>1, <1>4, <2>1, RxStep
<1>9. HandlerOK' /\ HandlerEdge(rv, Length, collecting, last, hr, tp)
  <2>1. Handler!Clock(rv, rx_flags, Length, collecting, Rx!payload_data, last, hr, tp, done)
    BY DEF Clock, HandlerClock, Length, collecting
  <2>2. rv => rx_flags \in TwoBytes /\ Length \in 0 .. MAX_PAYLOAD_BYTES
    BY <1>2, <1>3, PayloadAssumption DEF RxOutput, RxOK
  <2>3. HandlerOK
    OBVIOUS
  <2> DEFINE byte == Rx!payload_data
  <2>4. /\ Handler!Clock(rv, rx_flags, Length, collecting, byte, last, hr, tp, done)
        /\ hd_phase = "COLLECT" /\ collecting =>
             byte \in Byte /\ (last <=> hd_taken + 1 = hd_request_length)
    BY <1>5, <2>1
  <2> HIDE DEF rv, last, hr, tp, byte, RoutingInv
  <2> QED BY <2>2, <2>3, <2>4, HandlerStep
<1>10. /\ TxOK'
       /\ tx_state = "IDLE" =>
            IF fv THEN tx_state' = "SOF_0" /\ tx_payload_remaining' = n
            ELSE tx_state' = "IDLE"
       /\ tx_state \in TxHeading =>
            /\ UNCHANGED tx_payload_remaining
            /\ tx_state' \in TxHeading \cup {"PAYLOAD", "WAIT_CRC"}
            /\ tx_payload_remaining > 0 => tx_state' # "WAIT_CRC"
       /\ tx_state = "PAYLOAD" =>
            IF giving /\ out_ready
            THEN /\ tx_payload_remaining' = tx_payload_remaining - 1
                 /\ tx_state' = IF tx_payload_remaining = 1 THEN "WAIT_CRC" ELSE "PAYLOAD"
            ELSE UNCHANGED <<tx_payload_remaining, tx_state>>
       /\ tx_state \in {"WAIT_CRC", "CRC"} => tx_state' \in {"WAIT_CRC", "CRC", "IDLE"}
  <2>1. Tx!Clock(fv, transmitted.type, transmitted.flags, transmitted.length, giving,
                 TxPayload, out_ready)
    BY DEF Clock, TxClock
  <2> DEFINE length == transmitted.length
  <2> HIDE DEF fv, giving, n, length
  <2> QED BY <1>1, <1>6, <1>7, <2>1, TxStep DEF length
<1> HIDE DEF fr, pr, rv, last, fv, n
\* The conjuncts of the invariant.
<1>11. /\ token_in_flight' \in BOOLEAN
       /\ token_in_flight' <=> hd_phase' # "IDLE"
  <2>1. token_in_flight' = IF received_frame_accepted /\ token_request THEN TRUE
                           ELSE token_in_flight /\ ~Released(out_ready)
    BY DEF Clock, TokenInFlight
  <2>2. Released(out_ready) <=>
          tp /\ hd_phase = "RESPONSE_PAYLOAD" /\ hd_replied + 1 = Len(hd_reply.payload)
    BY DEF Released, Handler!response_payload_last, Handler!response_payload_valid
  <2>3. token_in_flight <=> hd_phase # "IDLE"
    BY DEF RoutingAgrees
  <2> HIDE DEF tp, hr
  <2> QED BY <1>1, <1>2, <1>9, <2>1, <2>2, <2>3 DEF HandlerEdge, HandlerOK, Phases
<1>12. /\ payload_route' \in Routes
       /\ rx_state' = "OUTPUT_PAYLOAD" <=> payload_route' # "IDLE"
       /\ rx_state = "OUTPUT_FRAME" =>
            (payload_route' = "TOKEN" <=>
               received_frame_accepted /\ token_request /\ Length # 0)
       /\ rx_state = "OUTPUT_PAYLOAD" =>
            payload_route' = IF last THEN "IDLE" ELSE payload_route
       /\ rx_state \notin RxOutput => payload_route' = "IDLE"
  <2>1. payload_route' =
          IF received_frame_accepted /\ Length # 0
          THEN IF token_request THEN "TOKEN"
               ELSE IF ~supported_ping THEN "DROP" ELSE payload_route
          ELSE IF received_payload_accepted /\ last
          THEN "IDLE" ELSE payload_route
    BY DEF Clock, Route, Length, last
  <2>2. supported_ping => Length = 0
    BY DEF supported_ping, Length
  <2>3. rx_state = "OUTPUT_PAYLOAD" <=> payload_route # "IDLE"
    BY DEF RoutingAgrees
  <2> QED BY <1>1, <1>2, <1>4, <1>8, <2>1, <2>2, <2>3 DEF Routes, RxOutput
<1>13. hd_phase' = "COLLECT" <=> payload_route' = "TOKEN"
  <2>1. hd_phase = "COLLECT" <=> payload_route = "TOKEN"
    BY DEF RoutingAgrees
  <2>2. rx_state = "OUTPUT_PAYLOAD" <=> payload_route # "IDLE"
    BY DEF RoutingAgrees
  <2> HIDE DEF tp, hr
  <2>3. CASE hd_phase = "IDLE"
    BY <1>2, <1>9, <1>12, <2>1, <2>2, <2>3 DEF HandlerEdge, RxOutput
  <2>4. CASE hd_phase = "COLLECT"
    BY <1>4, <1>9, <1>12, <2>1, <2>4 DEF HandlerEdge
  <2>5. CASE hd_phase \in {"WORK", "RESPONSE_HEADER", "RESPONSE_PAYLOAD"}
    BY <1>2, <1>9, <1>12, <2>1, <2>5 DEF HandlerEdge, RxOutput
  <2> QED BY <2>3, <2>4, <2>5 DEF HandlerOK, Phases
<1>14. hd_phase' = "COLLECT" =>
         /\ hd_request_length' = Value(rx_payload_length)'
         /\ hd_taken' = rx_payload_read_index'
  <2> SUFFICES ASSUME hd_phase' = "COLLECT"
               PROVE  /\ hd_request_length' = Length'
                      /\ hd_taken' = rx_payload_read_index'
    BY DEF Length
  <2> HIDE DEF tp, hr
  <2>1. CASE hd_phase = "IDLE"
    <3>1. rv /\ hd_request_length' = Length /\ hd_taken' = 0
      BY <1>9, <2>1 DEF HandlerEdge
    <3>2. rx_state = "OUTPUT_FRAME"
      BY <1>2, <3>1
    <3>3. Length' = Length /\ rx_payload_read_index' = 0
      BY <1>8, <3>2 DEF RxOutput, RxOK, Length
    <3> QED BY <3>1, <3>3
  <2>2. CASE hd_phase = "COLLECT"
    <3>1. rx_state = "OUTPUT_PAYLOAD" /\ collecting
      BY <1>4, <2>2
    <3>2. ~last /\ hd_request_length' = hd_request_length /\ hd_taken' = hd_taken + 1
      BY <1>9, <2>2, <3>1 DEF HandlerEdge
    <3>3. Length' = Length /\ rx_payload_read_index' = rx_payload_read_index + 1
      BY <1>8, <3>1, <3>2 DEF RxOutput, Length
    <3>4. hd_request_length = Length /\ hd_taken = rx_payload_read_index
      BY <2>2 DEF RoutingAgrees, Length
    <3> QED BY <3>2, <3>3, <3>4
  <2>3. CASE hd_phase \in {"WORK", "RESPONSE_HEADER", "RESPONSE_PAYLOAD"}
    BY <1>9, <2>3 DEF HandlerEdge
  <2> QED BY <2>1, <2>2, <2>3 DEF HandlerOK, Phases
<1>15. tp <=> tx_state = "PAYLOAD" /\ out_ready
  BY DEF Tx!payload_ready
<1>16. giving <=> hd_phase = "RESPONSE_PAYLOAD"
  BY DEF Handler!response_payload_valid
<1>17. hr <=> tx_state = "IDLE" /\ hd_phase = "RESPONSE_HEADER"
  BY DEF handler_response_ready, Tx!frame_ready, Handler!response_valid
<1>18. hd_phase = "RESPONSE_HEADER" => fv
  BY DEF fv, transmit_frame_valid, Handler!response_valid
<1> HIDE DEF tp, hr, giving
\* The payload of a response between handler and transmitter.
<1> DEFINE m == Len(hd_reply.payload)
<1>19. hd_phase = "RESPONSE_PAYLOAD" =>
         /\ tx_state \in TxHeading \cup {"PAYLOAD"}
         /\ tx_payload_remaining = m - hd_replied
         /\ m \in Nat /\ hd_replied \in Nat /\ hd_replied < m
  BY DEF RoutingAgrees, HandlerOK, TxHeading
<1>20. hd_phase' = "RESPONSE_PAYLOAD" =>
         /\ tx_state' \in TxHeading \cup {"PAYLOAD"}
         /\ tx_payload_remaining' = Len(hd_reply.payload)' - hd_replied'
  <2> SUFFICES ASSUME hd_phase' = "RESPONSE_PAYLOAD"
               PROVE  /\ tx_state' \in TxHeading \cup {"PAYLOAD"}
                      /\ tx_payload_remaining' = m' - hd_replied'
    OBVIOUS
  <2>1. CASE hd_phase = "RESPONSE_HEADER"
    <3>1. hr /\ m' = m /\ hd_replied' = hd_replied
      BY <1>9, <2>1 DEF HandlerEdge
    <3>2. hd_replied = 0 /\ m \in Nat /\ n = m
      BY <2>1 DEF HandlerOK, n
    <3>3. tx_state' = "SOF_0" /\ tx_payload_remaining' = n
      BY <1>10, <1>17, <1>18, <2>1, <3>1
    <3> HIDE DEF m
    <3> QED BY <3>1, <3>2, <3>3 DEF TxHeading
  <2>2. CASE hd_phase = "RESPONSE_PAYLOAD"
    <3>1. ~(tp /\ hd_replied + 1 = m) /\ m' = m
      BY <1>9, <2>2 DEF HandlerEdge
    <3>2. hd_replied' = IF tp THEN hd_replied + 1 ELSE hd_replied
      BY <1>9, <2>2 DEF HandlerEdge
    <3> HIDE DEF m
    <3>3. CASE tx_state \in TxHeading
      <4>1. ~tp
        BY <1>15, <3>3 DEF TxHeading
      <4>2. tx_payload_remaining' = tx_payload_remaining /\ tx_payload_remaining > 0
        BY <1>10, <1>19, <2>2, <3>3
      <4>3. tx_state' \in TxHeading \cup {"PAYLOAD"}
        BY <1>10, <3>3, <4>2
      <4> QED BY <1>19, <2>2, <3>1, <3>2, <4>1, <4>2, <4>3
    <3>4. CASE tx_state = "PAYLOAD" /\ tp
      <4>1. tx_payload_remaining' = tx_payload_remaining - 1
        BY <1>10, <1>15, <1>16, <2>2, <3>4
      <4>2. tx_payload_remaining # 1
        BY <1>19, <2>2, <3>1, <3>4
      <4>3. tx_state' = "PAYLOAD"
        BY <1>10, <1>15, <1>16, <2>2, <3>4, <4>2
      <4> QED BY <1>19, <2>2, <3>1, <3>2, <3>4, <4>1, <4>3
    <3>5. CASE tx_state = "PAYLOAD" /\ ~tp
      <4>1. UNCHANGED <<tx_payload_remaining, tx_state>>
        BY <1>10, <1>15, <3>5
      <4> QED BY <1>19, <2>2, <3>1, <3>2, <3>5, <4>1
    <3> QED BY <1>19, <2>2, <3>3, <3>4, <3>5
  <2>3. CASE hd_phase \in {"IDLE", "COLLECT", "WORK"}
    BY <1>9, <2>3 DEF HandlerEdge
  <2> QED BY <2>1, <2>2, <2>3 DEF HandlerOK, Phases
<1>21. (tx_state' \in TxHeading /\ tx_payload_remaining' > 0) \/ tx_state' = "PAYLOAD" =>
         hd_phase' = "RESPONSE_PAYLOAD"
  <2> SUFFICES ASSUME (tx_state' \in TxHeading /\ tx_payload_remaining' > 0) \/ tx_state' = "PAYLOAD"
               PROVE  hd_phase' = "RESPONSE_PAYLOAD"
    OBVIOUS
  <2>1. tx_payload_remaining' > 0
    BY <1>10 DEF TxOK
  <2>2. CASE tx_state = "IDLE"
    <3>1. n > 0 /\ fv
      BY <1>10, <2>1, <2>2 DEF TxHeading
    <3>2. hd_phase = "RESPONSE_HEADER"
      BY <3>1 DEF n
    <3> QED BY <1>9, <1>17, <2>2, <3>2 DEF HandlerEdge
  <2>3. CASE tx_state \in TxHeading
    <3>1. hd_phase = "RESPONSE_PAYLOAD"
      BY <1>10, <2>1, <2>3
    <3>2. ~tp
      BY <1>15, <2>3 DEF TxHeading
    <3> QED BY <1>9, <3>1, <3>2 DEF HandlerEdge
  <2>4. CASE tx_state = "PAYLOAD"
    <3>1. hd_phase = "RESPONSE_PAYLOAD"
      BY <2>4 DEF RoutingAgrees
    <3>2. tp => tx_payload_remaining # 1
      BY <1>10, <1>15, <1>16, <2>4, <3>1 DEF TxHeading
    <3>3. ~(tp /\ hd_replied + 1 = m)
      <4> HIDE DEF m
      <4> QED BY <1>19, <3>1, <3>2
    <3> QED BY <1>9, <3>1, <3>3 DEF HandlerEdge
  <2>5. CASE tx_state \in {"WAIT_CRC", "CRC"}
    BY <1>10, <2>5 DEF TxHeading
  <2> QED BY <2>2, <2>3, <2>4, <2>5 DEF TxOK, TxHeading, Tx!States
<1> HIDE DEF RoutingInv
<1>22. RoutingAgrees'
  BY <1>11, <1>12, <1>13, <1>14, <1>20, <1>21 DEF RoutingAgrees, TxHeading
<1> QED BY <1>8, <1>9, <1>10, <1>11, <1>12, <1>21, <1>22 DEF RoutingInv

\* What the host still has to send is bytes.
WInv == RoutingInv /\ unsent \in Seq(Byte)

\* The first byte of some and the rest of them.
LEMMA FirstAndRest ==
  ASSUME NEW s \in Seq(Byte), s # << >>
  PROVE  Head(s) \in Byte /\ Tail(s) \in Seq(Byte)
BY HeadTailProperties

\* The invariant after any step of host, pipeline and wire.
LEMMA RoutingStep == WInv /\ [WNext]_wvars => WInv'
<1> SUFFICES ASSUME WInv, [WNext]_wvars PROVE WInv'
  OBVIOUS
<1>1. CASE WReset
  BY <1>1, RoutingReset DEF WInv, WReset
<1>2. ASSUME NEW out_ready \in BOOLEAN, NEW done \in BOOLEAN, Cycle(out_ready, done)
      PROVE  WInv'
  <2>1. CASE Pause(out_ready, done)
    <3>1. FALSE \in BOOLEAN /\ 0 \in Byte
      BY ByteAssumption DEF Byte
    <3>2. Clock(FALSE, 0, out_ready, done) /\ unsent' = unsent
      BY <2>1 DEF Pause
    <3> QED BY <3>1, <3>2, RoutingClock DEF WInv
  <2>2. ASSUME NEW f, NEW rest \in Seq(Byte), rest # << >>, Send(f, rest, out_ready, done)
        PROVE  WInv'
    <3>1. Head(rest) \in Byte /\ Tail(rest) \in Seq(Byte)
      BY <2>2, FirstAndRest
    <3>2. Clock(TRUE, Head(rest), out_ready, done) /\ unsent' = Tail(rest)
      BY <2>2 DEF Send
    <3>3. RoutingInv'
      BY <3>1, <3>2, RoutingClock DEF WInv
    <3> QED BY <3>1, <3>2, <3>3 DEF WInv
  <2>3. CASE Continue(out_ready, done)
    <3>1. unsent \in Seq(Byte) /\ unsent # << >> /\ Send(current, unsent, out_ready, done)
      BY <2>3 DEF Continue, WInv
    <3> QED BY <2>2, <3>1
  <2>4. CASE \E f \in Sendable : Begin(f, out_ready, done)
    <3>1. PICK f \in Sendable : Begin(f, out_ready, done)
      BY <2>4
    <3>2. f \in Frame
      BY <3>1, SendableAssumption
    <3>3. Encode(f) \in Seq(Byte) /\ Len(Encode(f)) = 12 + Len(f.payload)
          /\ Len(f.payload) \in Nat
      BY <3>2, EncodeBytes, FrameFields
    <3>4. Encode(f) # << >>
      <4> DEFINE e == Encode(f)
                 n == Len(f.payload)
      <4>1. e \in Seq(Byte) /\ Len(e) = 12 + n /\ n \in Nat
        BY <3>3
      <4> HIDE DEF e, n
      <4>2. e # << >>
        BY <4>1
      <4> QED BY <4>2 DEF e
    <3>5. Send(f, Encode(f), out_ready, done)
      BY <3>1 DEF Begin
    <3> QED BY <2>2, <3>3, <3>4, <3>5
  <2> QED BY <1>2, <2>1, <2>3, <2>4 DEF Cycle
<1>3. CASE UNCHANGED wvars
  <2>1. UNCHANGED <<Rx!vars, Handler!vars, Tx!vars, routing, unsent>>
    BY <1>3 DEF wvars, vars
  <2>2. UNCHANGED <<rx_state, rx_flags, rx_payload_length, rx_payload_memory,
                    rx_payload_read_index>>
    BY <2>1 DEF Rx!vars, Rx!header, Rx!payload
  <2>3. UNCHANGED <<hd_phase, hd_request_flags, hd_request_length, hd_received, hd_taken,
                    hd_reply, hd_replied>>
    BY <2>1 DEF Handler!vars, Handler!request
  <2>4. UNCHANGED <<tx_state, tx_payload_length, tx_payload_remaining>>
    BY <2>1 DEF Tx!vars, Tx!frame
  <2>5. UNCHANGED <<payload_route, token_in_flight, unsent>>
    BY <2>1 DEF routing
  <2>6. RxOK' /\ HandlerOK' /\ TxOK'
    BY <2>2, <2>3, <2>4 DEF WInv, RoutingInv, RxOK, HandlerOK, TxOK, Length
  <2> QED BY <2>2, <2>3, <2>4, <2>5, <2>6 DEF WInv, RoutingInv, RoutingAgrees, Length
<1> QED BY <1>1, <1>2, <1>3 DEF WNext

\* However the host pauses, the wire stalls, the handler takes its time and
\* resets come, the routing registers agree with what receiver, handler and
\* transmitter are doing.
THEOREM RoutingCorrect == WSpec => []RoutingAgrees
<1>1. WInit => WInv
  BY RoutingInit DEF WInit, WInv
<1>2. WInv => RoutingAgrees
  BY DEF WInv, RoutingInv
<1> QED BY <1>1, <1>2, RoutingStep, PTL DEF WSpec

----------------------------------------------------------------------------
(* Rests of sequences. *)

\* r is what is left of s after k of its elements.
IsRest(r, s, k) == r = SubSeq(s, k + 1, Len(s))

LEMMA NotEmpty ==
  ASSUME NEW s \in Seq(Byte)
  PROVE  s = << >> <=> Len(s) = 0
OBVIOUS

LEMMA RestOf ==
  ASSUME NEW s \in Seq(Byte), NEW k \in Nat, k < Len(s), NEW r, IsRest(r, s, k)
  PROVE  /\ r \in Seq(Byte) /\ Len(r) = Len(s) - k /\ r # << >>
         /\ Head(r) = s[k + 1] /\ Head(r) \in Byte
         /\ Tail(r) \in Seq(Byte) /\ Len(Tail(r)) = Len(s) - (k + 1)
         /\ IsRest(Tail(r), s, k + 1)
         /\ Tail(r) = << >> <=> k + 1 = Len(s)
<1> DEFINE m == Len(s)
           q == SubSeq(s, k + 1, m)
           t == SubSeq(s, k + 2, m)
<1>0. m \in Nat /\ k \in Nat /\ k < m
  OBVIOUS
<1>1. /\ q \in Seq(Byte) /\ Len(q) = m - k
      /\ \A i \in 1 .. m - k : q[i] = s[k + i]
  OBVIOUS
<1>2. /\ t \in Seq(Byte) /\ Len(t) = m - (k + 1)
      /\ \A i \in 1 .. m - (k + 1) : t[i] = s[k + 1 + i]
  OBVIOUS
<1> HIDE DEF q, t, m
<1>3. Len(q) # 0
  BY <1>0, <1>1
<1>4. q # << >>
  BY <1>1, <1>3, NotEmpty
<1>5. Head(q) = s[k + 1] /\ Head(q) \in Byte
  BY <1>0, <1>1, <1>4 DEF m
<1>6. /\ Tail(q) \in Seq(Byte) /\ Len(Tail(q)) = m - (k + 1)
      /\ \A i \in 1 .. m - (k + 1) : Tail(q)[i] = q[i + 1]
  BY <1>0, <1>1, <1>4
<1>7. \A i \in 1 .. m - (k + 1) : Tail(q)[i] = t[i]
  <2> SUFFICES ASSUME NEW i \in 1 .. m - (k + 1) PROVE Tail(q)[i] = t[i]
    OBVIOUS
  <2>1. i + 1 \in 1 .. m - k /\ k + (i + 1) = k + 1 + i
    BY <1>0
  <2>2. Tail(q)[i] = q[i + 1] /\ q[i + 1] = s[k + (i + 1)] /\ t[i] = s[k + 1 + i]
    BY <1>1, <1>2, <1>6, <2>1, Zenon
  <2> QED BY <2>1, <2>2, Zenon
<1>8. Tail(q) = t
  BY <1>2, <1>6, <1>7
<1>9. t = << >> <=> k + 1 = m
  BY <1>0, <1>2, NotEmpty
<1>10. r = q
  BY Zenon DEF IsRest, q, m
<1>11. k + 1 + 1 = k + 2
  BY <1>0
<1>12. IsRest(t, s, k + 1)
  BY <1>11, Zenon DEF IsRest, t, m
<1> QED BY <1>1, <1>4, <1>5, <1>6, <1>8, <1>9, <1>10, <1>12, Zenon DEF m

----------------------------------------------------------------------------
(* The invariant: the receiver. *)

HeadStates == <<"SEARCH_0", "SEARCH_1", "VERSION", "MESSAGE_TYPE", "FLAGS_LOW",
                "FLAGS_HIGH", "LENGTH_LOW", "LENGTH_HIGH">>
TailStates == <<"CRC_0", "CRC_1", "CRC_2", "CRC_3", "VALIDATE">>

\* Where the receiver is after k bytes of frame f.
RxAt(f, k) ==
  LET n == Len(f.payload)
  IN  IF k < 8 THEN rx_state = HeadStates[k + 1]
      ELSE IF k < 8 + n
      THEN rx_state = "PAYLOAD" /\ rx_payload_write_index = k - 8
      ELSE rx_state = TailStates[k - (8 + n) + 1]

\* What its registers hold of them.
RxHolds(f, k) ==
  LET n == Len(f.payload)
  IN  /\ k >= 4 => rx_message_type = f.type
      /\ k >= 5 => rx_flags[1] = f.flags[1]
      /\ k >= 6 => rx_flags = f.flags
      /\ k >= 7 => rx_payload_length[1] = Pair(n)[1]
      /\ k >= 8 => rx_payload_length = Pair(n)
      /\ \A i \in 0 .. n - 1 : k > 8 + i => rx_payload_memory[i] = f.payload[i + 1]

\* The engine has followed them, and the bytes of the CRC are compared with it.
RxCrc(f, k) ==
  LET n == Len(f.payload)
      p == Protected(f)
  IN  /\ k \in 3 .. 8 + n => rx_crc_state = CrcAfter(SubSeq(p, 1, k - 2))
      /\ rx_crc_output_valid <=> k >= 8 + n
      /\ k >= 8 + n => rx_crc_output = CrcOver(p)
      /\ \A i \in 1 .. 4 : k >= 8 + n + i => rx_expected_crc[i] = CrcOver(p)[i]

Receiving(f, k) == RxAt(f, k) /\ RxHolds(f, k) /\ RxCrc(f, k)

RxTypes ==
  /\ ~rx_crc_clear
  /\ rx_flags \in TwoBytes /\ rx_payload_length \in TwoBytes
  /\ rx_expected_crc \in FourBytes /\ rx_crc_output \in FourBytes

\* The rest s of frame f has not come, or f waits to be taken or is forgotten.
Coming(f, s) ==
  LET e == Encode(f)
      k == Len(e) - Len(s)
  IN  IF s # << >>
      THEN k \in 1 .. Len(e) - 1 /\ IsRest(s, e, k) /\ Receiving(f, k)
      ELSE \/ rx_state = "SEARCH_0" /\ ~rx_crc_output_valid
           \/ rx_state = "VALIDATE" /\ Receiving(f, Len(e))
           \/ rx_state \in RxOutput /\ ~rx_crc_output_valid /\ RxHolds(f, Len(e))

ReceiverInv == RxTypes /\ current \in Frame /\ Coming(current, unsent)

----------------------------------------------------------------------------
(* The invariant: the transmitter. *)

Pong == [Ping EXCEPT !.type = PONG]

\* The frame whose beginning is on the wire.
Job == IF hd_phase = "RESPONSE_PAYLOAD" THEN hd_reply ELSE Pong

\* The register of the engine once it has taken the byte that was fed to it.
Fed == IF tx_crc_feed.valid
       THEN CrcStep(Tx!CRC!PacketCrc(tx_crc_feed.start), tx_crc_feed.data)
       ELSE tx_crc_state

\* Where the transmitter is when k bytes of frame f have left.
TxAt(f, k) ==
  /\ k < 8 + Len(f.payload)
  /\ IF k < 2 THEN tx_state = <<"SOF_0", "SOF_1">>[k + 1]
     ELSE IF k < 8 THEN tx_state = "HEADER" /\ tx_header_index = k - 2
     ELSE tx_state = "PAYLOAD"
  /\ tx_payload_remaining = IF k < 8 THEN Len(f.payload) ELSE Len(f.payload) - (k - 8)

Sending(f, k) ==
  /\ TxAt(f, k)
  /\ tx_message_type = f.type /\ tx_flags = f.flags /\ tx_payload_length = Pair(Len(f.payload))
  /\ ~tx_crc_output_valid
  /\ tx_crc_feed.valid => k >= 3 /\ ~tx_crc_feed.last
  /\ k >= 3 => Fed = CrcAfter(SubSeq(Protected(f), 1, k - 2))

\* How many bytes have left.
TxLeft ==
  CASE tx_state = "SOF_0" -> 0
    [] tx_state = "SOF_1" -> 1
    [] tx_state = "HEADER" -> 2 + tx_header_index
    [] tx_state = "PAYLOAD" -> 8 + hd_replied

\* The CRC bytes `rest` are still to leave.
Closing(rest) ==
  \/ /\ tx_state = "WAIT_CRC" /\ rest \in FourBytes
     /\ IF tx_crc_output_valid
        THEN ~tx_crc_feed.valid /\ rest = tx_crc_output
        ELSE tx_crc_feed.valid /\ tx_crc_feed.last /\ rest = CrcBytes(Fed)
  \/ /\ tx_state = "CRC" /\ ~tx_crc_output_valid /\ ~tx_crc_feed.valid
     /\ tx_crc_index \in 0 .. 3 /\ IsRest(rest, tx_crc_output, tx_crc_index)

TxResting == tx_state = "IDLE" /\ ~tx_crc_output_valid /\ ~tx_crc_feed.valid

----------------------------------------------------------------------------
(* The invariant: what is owed. *)

\* The only reply to a request.
TheReply(fl, payload) == CHOOSE r \in Replies(fl, payload) : TRUE

\* The responses a frame asks for.
Asked(f) ==
  IF f.type = TOKEN_REQUEST THEN <<Encode(TheReply(f.flags, f.payload))>>
  ELSE IF f = Ping THEN <<Encode(Pong)>> ELSE << >>

\* The request that is being worked on asks for this frame, f being the one in
\* the receiver.
Due(f) ==
  CASE hd_phase = "COLLECT" -> TheReply(f.flags, f.payload)
    [] hd_phase = "WORK" -> TheReply(hd_request_flags, hd_received)
    [] hd_phase = "RESPONSE_HEADER" -> hd_reply

HdPhases == {"COLLECT", "WORK", "RESPONSE_HEADER"}

HdOwes(f) == IF hd_phase \in HdPhases THEN <<Encode(Due(f))>> ELSE << >>
RxOwes(f) == IF standing THEN Asked(f) ELSE << >>

Plus(x) == (x + 1) % COUNTER_MODULUS
HdRefuses(f) == hd_phase \in HdPhases /\ Due(f).type = ERROR_RESPONSE
Refused(f) ==
  IF f.type = TOKEN_REQUEST THEN TheReply(f.flags, f.payload).type = ERROR_RESPONSE
  ELSE f # Ping
RxRefuses(f) == standing /\ Refused(f)

\* The error counter once what was asked has been counted.
Counted(f) ==
  LET c == IF HdRefuses(f) THEN Plus(handler_error_count) ELSE handler_error_count
  IN  IF RxRefuses(f) THEN Plus(c) ELSE c

\* The handler has the beginning of the payload of f.
Handling(f) ==
  hd_phase = "COLLECT" =>
    /\ f.type = TOKEN_REQUEST /\ hd_request_flags = f.flags
    /\ hd_received = SubSeq(f.payload, 1, hd_taken)

Replying == hd_phase \in {"RESPONSE_HEADER", "RESPONSE_PAYLOAD"} => hd_reply \in Frame

HandlerInv == Replying /\ Handling(current)

TxTypes ==
  /\ tx_header_index \in 0 .. 5 /\ tx_crc_index \in 0 .. 3
  /\ tx_crc_output \in FourBytes /\ tx_crc_state \in Crc
  /\ tx_crc_feed \in Tx!Feed /\ tx_crc_output_valid \in BOOLEAN

\* rest has not left of the frame on the wire.
Fronting(rest) ==
  \/ /\ tx_state \in TxHeading \cup {"PAYLOAD"}
     /\ \E f \in {Job}, k \in {TxLeft} : Sending(f, k) /\ IsRest(rest, Encode(f), k)
  \/ tx_state \in {"WAIT_CRC", "CRC"} /\ Closing(rest)

\* What is owed beside `later`, all of which is still to come.
Owing(later) ==
  IF tx_state = "IDLE" THEN TxResting /\ owed = later
  ELSE owed # << >> /\ \E rest \in {Head(owed)} : Fronting(rest) /\ owed = <<rest>> \o later

OwedInv ==
  /\ TxTypes
  /\ Owing(HdOwes(current) \o RxOwes(current))
  /\ handler_error_count \in 0 .. COUNTER_MODULUS - 1
  /\ refused = Counted(current)

PInv == ReceiverInv /\ HandlerInv /\ OwedInv

----------------------------------------------------------------------------
(* The receiver: a frame comes. *)

\* The state tells which arm takes the byte.
LEMMA RxArms ==
  ASSUME NEW b, Rx!TakeByte(b)
  PROVE  /\ rx_state = "SEARCH_0" => Rx!Search0(b)
         /\ rx_state = "SEARCH_1" => Rx!Search1(b)
         /\ rx_state = "VERSION" => Rx!Version(b)
         /\ rx_state = "MESSAGE_TYPE" => Rx!MessageType(b)
         /\ rx_state = "FLAGS_LOW" => Rx!FlagsLow(b)
         /\ rx_state = "FLAGS_HIGH" => Rx!FlagsHigh(b)
         /\ rx_state = "LENGTH_LOW" => Rx!LengthLow(b)
         /\ rx_state = "LENGTH_HIGH" => Rx!LengthHigh(b)
         /\ rx_state = "PAYLOAD" => Rx!Payload(b)
         /\ \A j \in 1 .. 4 :
              rx_state = <<"CRC_0", "CRC_1", "CRC_2", "CRC_3">>[j] => Rx!CrcByte(j, b)
<1> DEFINE Word == <<"CRC_0", "CRC_1", "CRC_2", "CRC_3">>
<1>1. /\ Rx!Search0(b) => rx_state = "SEARCH_0"
      /\ Rx!Search1(b) => rx_state = "SEARCH_1"
      /\ Rx!Version(b) => rx_state = "VERSION"
      /\ Rx!MessageType(b) => rx_state = "MESSAGE_TYPE"
      /\ Rx!FlagsLow(b) => rx_state = "FLAGS_LOW"
  BY DEF Rx!Search0, Rx!Search1, Rx!Version, Rx!MessageType, Rx!FlagsLow
<1>2. /\ Rx!FlagsHigh(b) => rx_state = "FLAGS_HIGH"
      /\ Rx!LengthLow(b) => rx_state = "LENGTH_LOW"
      /\ Rx!LengthHigh(b) => rx_state = "LENGTH_HIGH"
      /\ Rx!Payload(b) => rx_state = "PAYLOAD"
  BY DEF Rx!FlagsHigh, Rx!LengthLow, Rx!LengthHigh, Rx!Payload
<1>3. \A j \in 1 .. 4 : Rx!CrcByte(j, b) => rx_state = Word[j]
  BY DEF Rx!CrcByte
<1>4. \/ Rx!Search0(b) \/ Rx!Search1(b) \/ Rx!Version(b) \/ Rx!MessageType(b)
      \/ Rx!FlagsLow(b) \/ Rx!FlagsHigh(b) \/ Rx!LengthLow(b) \/ Rx!LengthHigh(b)
      \/ Rx!Payload(b) \/ \E j \in 1 .. 4 : Rx!CrcByte(j, b)
  BY DEF Rx!TakeByte
<1>5. CASE \E j \in 1 .. 4 : Rx!CrcByte(j, b)
  <2>1. PICK i \in 1 .. 4 : Rx!CrcByte(i, b)
    BY <1>5
  <2>2. rx_state = Word[i]
    BY <1>3, <2>1
  <2>3. \A j \in 1 .. 4 : rx_state = Word[j] => j = i
    BY <2>1, <2>2
  <2>4. rx_state \in {"CRC_0", "CRC_1", "CRC_2", "CRC_3"}
    BY <2>1, <2>2
  <2> HIDE DEF Word
  <2>5. \A j \in 1 .. 4 : rx_state = Word[j] => Rx!CrcByte(j, b)
    BY <2>1, <2>3
  <2> QED BY <2>4, <2>5 DEF Word
<1>6. CASE ~\E j \in 1 .. 4 : Rx!CrcByte(j, b)
  <2>1. rx_state \in {"SEARCH_0", "SEARCH_1", "VERSION", "MESSAGE_TYPE", "FLAGS_LOW",
                      "FLAGS_HIGH", "LENGTH_LOW", "LENGTH_HIGH", "PAYLOAD"}
    BY <1>1, <1>2, <1>4, <1>6
  <2>2. \A j \in 1 .. 4 : rx_state # Word[j]
    BY <2>1
  <2> HIDE DEF Word
  <2> QED BY <1>1, <1>2, <1>4, <1>6, <2>2 DEF Word
<1> QED BY <1>5, <1>6

\* The registers of the header and the bytes of the CRC, as RxArms leaves them
\* for RxMore.
\* A byte of the start or of the header is in its place.
LEMMA RxHeading ==
  ASSUME NEW f \in Frame, NEW k \in 0 .. 7, RxAt(f, k), RxHolds(f, k),
         rx_flags \in TwoBytes, rx_payload_length \in TwoBytes,
         Rx!TakeByte(Encode(f)[k + 1])
  PROVE  RxAt(f, k + 1)' /\ RxHolds(f, k + 1)' /\ rx_expected_crc' = rx_expected_crc
<1> DEFINE e == Encode(f)
           n == Len(f.payload)
<1>0. /\ n \in Nat /\ n <= MAX_PAYLOAD_BYTES /\ MAX_PAYLOAD_BYTES \in Nat
      /\ f.type \in Byte /\ f.flags \in TwoBytes
      /\ Pair(n) \in TwoBytes /\ Value(Pair(n)) = n
  BY FrameFacts, PayloadAssumption
<1>1. /\ e[1] = FRAME_SOF_0 /\ e[2] = FRAME_SOF_1 /\ e[3] = FRAME_VERSION
      /\ e[4] = f.type /\ e[5] = f.flags[1] /\ e[6] = f.flags[2]
      /\ e[7] = Pair(n)[1] /\ e[8] = Pair(n)[2]
  BY EncodePlaces
<1>2. Rx!TakeByte(e[k + 1])
  OBVIOUS
<1>3. /\ k >= 4 => rx_message_type = f.type
      /\ k >= 5 => rx_flags[1] = f.flags[1]
      /\ k >= 6 => rx_flags = f.flags
      /\ k >= 7 => rx_payload_length[1] = Pair(n)[1]
  BY DEF RxHolds
<1>4. rx_state = HeadStates[k + 1]
  <2>1. k < 8
    OBVIOUS
  <2> QED BY <2>1, Zenon DEF RxAt
<1> DEFINE At == IF k + 1 < 8 THEN rx_state' = HeadStates[k + 2]
                 ELSE IF n > 0 THEN rx_state' = "PAYLOAD" /\ rx_payload_write_index' = 0
                 ELSE rx_state' = "CRC_0"
           Holds == /\ k + 1 >= 4 => rx_message_type' = f.type
                    /\ k + 1 >= 5 => rx_flags'[1] = f.flags[1]
                    /\ k + 1 >= 6 => rx_flags' = f.flags
                    /\ k + 1 >= 7 => rx_payload_length'[1] = Pair(n)[1]
                    /\ k + 1 >= 8 => rx_payload_length' = Pair(n)
                    /\ rx_expected_crc' = rx_expected_crc
<1> HIDE DEF e, n
<1>5. SUFFICES At /\ Holds
  <2>1. RxAt(f, k + 1)'
    <3>1. CASE k + 1 < 8
      <4>1. rx_state' = HeadStates[k + 2] /\ k + 2 = (k + 1) + 1
        BY <1>5, <3>1
      <4> QED BY <3>1, <4>1 DEF RxAt
    <3>2. CASE k = 7 /\ n > 0
      BY <1>0, <1>5, <3>2 DEF RxAt, n
    <3>3. CASE k = 7 /\ n = 0
      <4>1. rx_state' = TailStates[1] /\ (k + 1) - (8 + n) + 1 = 1
        BY <1>5, <3>3 DEF TailStates
      <4> QED BY <3>3, <4>1 DEF RxAt, n
    <3> QED BY <1>0, <3>1, <3>2, <3>3
  <2>2. RxHolds(f, k + 1)'
    BY <1>0, <1>5 DEF RxHolds, n
  <2> QED BY <1>5, <2>1, <2>2
<1>10. CASE k = 0
  BY <1>1, <1>2, <1>4, <1>10, RxArms DEF HeadStates, Rx!Search0, Rx!Goto
<1>11. CASE k = 1
  BY <1>1, <1>2, <1>4, <1>11, RxArms DEF HeadStates, Rx!Search1, Rx!Goto
<1>12. CASE k = 2
  BY <1>1, <1>2, <1>4, <1>12, RxArms DEF HeadStates, Rx!Version, Rx!Goto
<1>13. CASE k = 3
  BY <1>1, <1>2, <1>4, <1>13, RxArms DEF HeadStates, Rx!MessageType, Rx!Goto
<1>14. CASE k = 4
  BY <1>1, <1>2, <1>3, <1>4, <1>14, RxArms DEF HeadStates, Rx!FlagsLow, Rx!Goto, TwoBytes
<1>15. CASE k = 5
  BY <1>0, <1>1, <1>2, <1>3, <1>4, <1>15, RxArms DEF HeadStates, Rx!FlagsHigh, Rx!Goto, TwoBytes
<1>16. CASE k = 6
  BY <1>1, <1>2, <1>3, <1>4, <1>16, RxArms DEF HeadStates, Rx!LengthLow, Rx!Goto, TwoBytes
<1>17. CASE k = 7
  <2>1. Rx!LengthHigh(e[8])
    BY <1>2, <1>4, <1>17, RxArms DEF HeadStates
  <2>2. Rx!incoming_length(e[8]) = Pair(n)
    BY <1>1, <1>3, <1>17 DEF Rx!incoming_length, Pair
  <2>3. Rx!Value(Rx!incoming_length(e[8])) = n
    BY <1>0, <2>2, SameValue
  <2> QED BY <1>0, <1>3, <1>17, <2>1, <2>2, <2>3 DEF Rx!LengthHigh, Rx!Goto, HeadStates
<1> QED BY <1>10, <1>11, <1>12, <1>13, <1>14, <1>15, <1>16, <1>17

\* So is a byte of the payload.
LEMMA RxPayload ==
  ASSUME NEW f \in Frame, NEW k \in 8 .. 7 + Len(f.payload), RxAt(f, k), RxHolds(f, k),
         rx_payload_memory \in [0 .. MAX_PAYLOAD_BYTES - 1 -> Byte],
         Rx!TakeByte(Encode(f)[k + 1])
  PROVE  RxAt(f, k + 1)' /\ RxHolds(f, k + 1)' /\ rx_expected_crc' = rx_expected_crc
<1> DEFINE n == Len(f.payload)
           b == Encode(f)[k + 1]
<1>0. n \in Nat /\ n <= MAX_PAYLOAD_BYTES /\ MAX_PAYLOAD_BYTES \in Nat /\ Value(Pair(n)) = n
  BY FrameFacts, PayloadAssumption
<1>1. k - 8 \in 0 .. n - 1 /\ k \in Nat /\ ~(k < 8) /\ k < 8 + n
  BY <1>0
<1>2. b = f.payload[k - 8 + 1]
  <2>1. \A i \in 1 .. n : Encode(f)[8 + i] = f.payload[i]
    BY EncodePlaces
  <2>2. k - 7 \in 1 .. n /\ 8 + (k - 7) = k + 1 /\ k - 8 + 1 = k - 7
    BY <1>1
  <2> QED BY <2>1, <2>2
<1>3. rx_state = "PAYLOAD" /\ rx_payload_write_index = k - 8
  BY <1>1, Zenon DEF RxAt, n
<1>4. /\ rx_message_type = f.type /\ rx_flags = f.flags /\ rx_payload_length = Pair(n)
      /\ rx_payload_length[1] = Pair(n)[1] /\ rx_flags[1] = f.flags[1]
      /\ \A i \in 0 .. n - 1 : k > 8 + i => rx_payload_memory[i] = f.payload[i + 1]
  BY <1>1 DEF RxHolds
<1>5. Rx!Payload(b)
  BY <1>3, RxArms
<1>6. Rx!last_payload_byte(rx_payload_write_index) <=> k - 8 + 1 = n
  BY <1>0, <1>3, <1>4, SameValue DEF Rx!last_payload_byte
<1> HIDE DEF n, b
<1>7. /\ rx_payload_memory' = [rx_payload_memory EXCEPT ![k - 8] = b]
      /\ IF k - 8 + 1 = n THEN rx_state' = "CRC_0"
         ELSE rx_payload_write_index' = k - 8 + 1 /\ rx_state' = "PAYLOAD"
      /\ UNCHANGED <<rx_message_type, rx_flags, rx_payload_length, rx_expected_crc>>
  BY <1>3, <1>5, <1>6 DEF Rx!Payload, Rx!Goto, Rx!header
<1>8. RxAt(f, k + 1)'
  <2>1. CASE k - 8 + 1 = n
    <3>1. rx_state' = TailStates[1]
      BY <1>7, <2>1 DEF TailStates
    <3>2. ~(k + 1 < 8) /\ ~(k + 1 < 8 + n) /\ (k + 1) - (8 + n) + 1 = 1
      BY <1>0, <1>1, <2>1
    <3> QED BY <3>1, <3>2, Zenon DEF RxAt, n
  <2>2. CASE k - 8 + 1 # n
    <3>1. rx_state' = "PAYLOAD" /\ rx_payload_write_index' = k - 8 + 1
      BY <1>7, <2>2
    <3>2. ~(k + 1 < 8) /\ k + 1 < 8 + n /\ (k + 1) - 8 = k - 8 + 1
      BY <1>0, <1>1, <2>2
    <3> QED BY <3>1, <3>2, Zenon DEF RxAt, n
  <2> QED BY <2>1, <2>2
<1>9. \A i \in 0 .. n - 1 : k + 1 > 8 + i => rx_payload_memory'[i] = f.payload[i + 1]
  <2> SUFFICES ASSUME NEW i \in 0 .. n - 1, k + 1 > 8 + i
               PROVE  rx_payload_memory'[i] = f.payload[i + 1]
    OBVIOUS
  <2>1. i \in 0 .. MAX_PAYLOAD_BYTES - 1 /\ k - 8 \in 0 .. MAX_PAYLOAD_BYTES - 1
    BY <1>0, <1>1
  <2>2. CASE i = k - 8
    BY <1>2, <1>7, <2>1, <2>2
  <2>3. CASE i # k - 8
    <3>1. k > 8 + i
      BY <1>1, <2>3
    <3> QED BY <1>4, <1>7, <2>1, <2>3, <3>1
  <2> QED BY <2>2, <2>3
<1>10. RxHolds(f, k + 1)'
  BY <1>4, <1>7, <1>9 DEF RxHolds, n
<1> QED BY <1>7, <1>8, <1>10

\* And a byte of the CRC.
LEMMA RxClosing ==
  ASSUME NEW f \in Frame, NEW k \in 8 + Len(f.payload) .. 11 + Len(f.payload),
         RxAt(f, k), RxHolds(f, k), rx_expected_crc \in FourBytes,
         Rx!TakeByte(Encode(f)[k + 1])
  PROVE  /\ RxAt(f, k + 1)' /\ RxHolds(f, k + 1)'
         /\ rx_expected_crc' =
              [rx_expected_crc EXCEPT ![k - (8 + Len(f.payload)) + 1] = Encode(f)[k + 1]]
<1> DEFINE n == Len(f.payload)
           b == Encode(f)[k + 1]
           j == k - (8 + n) + 1
<1>0. n \in Nat
  BY FrameFacts
<1>1. j \in 1 .. 4 /\ k \in Nat /\ k >= 8 /\ ~(k < 8) /\ ~(k < 8 + n)
  BY <1>0
<1>2. rx_state = TailStates[j]
  BY <1>1, Zenon DEF RxAt, n, j
<1>3. /\ rx_message_type = f.type /\ rx_flags = f.flags /\ rx_payload_length = Pair(n)
      /\ rx_payload_length[1] = Pair(n)[1] /\ rx_flags[1] = f.flags[1]
      /\ \A i \in 0 .. n - 1 : rx_payload_memory[i] = f.payload[i + 1]
  BY <1>0, <1>1 DEF RxHolds
<1>4. Rx!TakeByte(b)
  OBVIOUS
<1> HIDE DEF n, b, j
<1>5. /\ TailStates[j] = <<"CRC_0", "CRC_1", "CRC_2", "CRC_3">>[j]
      /\ TailStates[j + 1] = <<"CRC_1", "CRC_2", "CRC_3", "VALIDATE">>[j]
  BY <1>1 DEF TailStates
<1>6. Rx!CrcByte(j, b)
  BY <1>1, <1>2, <1>4, <1>5, RxArms
<1>7. /\ rx_expected_crc' = [rx_expected_crc EXCEPT ![j] = b]
      /\ rx_state' = TailStates[j + 1]
      /\ UNCHANGED <<rx_message_type, rx_flags, rx_payload_length, rx_payload_memory>>
  BY <1>5, <1>6 DEF Rx!CrcByte, Rx!Goto, Rx!header, Rx!payload
<1>8. RxAt(f, k + 1)'
  <2>1. ~(k + 1 < 8) /\ ~(k + 1 < 8 + n) /\ (k + 1) - (8 + n) + 1 = j + 1
    BY <1>0, <1>1 DEF j
  <2> QED BY <1>7, <2>1, Zenon DEF RxAt, n
<1>9. RxHolds(f, k + 1)'
  BY <1>3, <1>7 DEF RxHolds, n
<1> QED BY <1>7, <1>8, <1>9 DEF n, j, b

\* One protected byte more: the register `reg` has followed those before it.
LEMMA CrcMore ==
  ASSUME NEW f \in Frame, NEW k \in 2 .. 7 + Len(f.payload), NEW reg,
         k >= 3 => reg = CrcAfter(SubSeq(Protected(f), 1, k - 2))
  PROVE  /\ CrcAfter(SubSeq(Protected(f), 1, k - 1)) =
              CrcStep(IF k = 2 THEN CRC_INITIAL ELSE reg, Encode(f)[k + 1])
         /\ SubSeq(Protected(f), 1, 6 + Len(f.payload)) = Protected(f)
<1> DEFINE e == Encode(f)
           p == Protected(f)
           n == Len(f.payload)
<1>0. n \in Nat /\ p \in Seq(Byte) /\ Len(p) = 6 + n /\ k \in 2 .. 7 + n
  BY FrameFacts
<1>1. \A i \in 1 .. 6 + n : e[2 + i] = p[i]
  BY EncodeBytes
<1>2. k >= 3 => reg = CrcAfter(SubSeq(p, 1, k - 2))
  OBVIOUS
<1>3. SubSeq(p, 1, 0) = << >> /\ SubSeq(p, 1, 6 + n) = p
  <2> HIDE DEF p, n
  <2>1. SubSeq(p, 1, 0) = << >>
    BY <1>0, SubSeqEmpty
  <2>2. SubSeq(p, 1, Len(p)) = p
    BY <1>0, SubSeqFull
  <2> QED BY <1>0, <2>1, <2>2
<1> HIDE DEF p, e, n
<1>4. k - 2 \in 0 .. Len(p) - 1 /\ (k - 2) + 1 = k - 1
  BY <1>0
<1>5. CrcAfter(SubSeq(p, 1, (k - 2) + 1)) = CrcStep(CrcAfter(SubSeq(p, 1, k - 2)), p[(k - 2) + 1])
  BY <1>0, <1>4, CrcAfterPrefix
<1>6. e[k + 1] = p[k - 1]
  <2>1. k - 1 \in 1 .. 6 + n /\ 2 + (k - 1) = k + 1
    BY <1>0
  <2> QED BY <1>1, <2>1
<1>7. CrcAfter(SubSeq(p, 1, k - 2)) = IF k = 2 THEN CRC_INITIAL ELSE reg
  <2>1. CASE k = 2
    <3>1. k - 2 = 0
      BY <2>1
    <3> QED BY <1>3, <2>1, <3>1, CrcAfterNone, Zenon
  <2>2. CASE k # 2
    BY <1>0, <1>2, <2>2
  <2> QED BY <2>1, <2>2
<1>8. CrcAfter(SubSeq(p, 1, k - 1)) = CrcStep(IF k = 2 THEN CRC_INITIAL ELSE reg, e[k + 1])
  BY <1>4, <1>5, <1>6, <1>7
<1> QED BY <1>3, <1>8 DEF e, p, n

\* The engine follows, byte by byte.
LEMMA RxFollows ==
  ASSUME NEW f \in Frame, NEW k \in 0 .. 11 + Len(f.payload), RxCrc(f, k),
         rx_expected_crc \in FourBytes,
         rx_expected_crc' =
           IF k >= 8 + Len(f.payload)
           THEN [rx_expected_crc EXCEPT ![k - (8 + Len(f.payload)) + 1] = Encode(f)[k + 1]]
           ELSE rx_expected_crc,
         IF k \in 2 .. 7 + Len(f.payload)
         THEN /\ rx_crc_state' = CrcStep(IF k = 2 THEN CRC_INITIAL ELSE rx_crc_state,
                                         Encode(f)[k + 1])
              /\ rx_crc_output_valid' <=> k + 1 = 8 + Len(f.payload)
              /\ k + 1 = 8 + Len(f.payload) => rx_crc_output' = CrcBytes(rx_crc_state')
         ELSE /\ UNCHANGED <<rx_crc_state, rx_crc_output>>
              /\ rx_crc_output_valid' <=> rx_crc_output_valid
  PROVE  RxCrc(f, k + 1)'
<1> DEFINE e == Encode(f)
           p == Protected(f)
           n == Len(f.payload)
           c == CrcOver(p)
<1>0. /\ n \in Nat /\ p \in Seq(Byte) /\ Len(p) = 6 + n /\ c \in FourBytes
      /\ k \in 0 .. 11 + n
  BY FrameFacts
<1>1. /\ \A i \in 1 .. 6 + n : e[2 + i] = p[i]
      /\ \A i \in 1 .. 4 : e[8 + n + i] = c[i]
  BY EncodeBytes
<1>2. /\ k \in 3 .. 8 + n => rx_crc_state = CrcAfter(SubSeq(p, 1, k - 2))
      /\ rx_crc_output_valid <=> k >= 8 + n
      /\ k >= 8 + n => rx_crc_output = c
      /\ \A i \in 1 .. 4 : k >= 8 + n + i => rx_expected_crc[i] = c[i]
  BY DEF RxCrc
<1>3. k \in 2 .. 7 + n =>
        /\ CrcAfter(SubSeq(p, 1, k - 1)) =
             CrcStep(IF k = 2 THEN CRC_INITIAL ELSE rx_crc_state, e[k + 1])
        /\ SubSeq(p, 1, 6 + n) = p
  <2>1. k \in 2 .. 7 + n /\ k >= 3 => rx_crc_state = CrcAfter(SubSeq(p, 1, k - 2))
    <3> HIDE DEF n, p
    <3> QED BY <1>0, <1>2
  <2> QED BY <2>1, CrcMore
<1>4. k \in 2 .. 7 + n => CrcAfter(SubSeq(p, 1, k - 1)) =
        CrcStep(IF k = 2 THEN CRC_INITIAL ELSE rx_crc_state, e[k + 1])
  BY <1>3
<1>5. \A i \in 1 .. 4 : k + 1 >= 8 + n + i => rx_expected_crc'[i] = c[i]
  <2> DEFINE j == k - (8 + n) + 1
  <2>1. CASE k >= 8 + n
    <3>1. j \in 1 .. 4 /\ 8 + n + j = k + 1
      <4> HIDE DEF n
      <4> QED BY <1>0, <2>1
    <3>2. e[k + 1] = c[j]
      BY <1>1, <3>1
    <3>3. rx_expected_crc' = [rx_expected_crc EXCEPT ![j] = e[k + 1]]
      BY <2>1
    <3> HIDE DEF e, p, n, c, j
    <3>4. rx_expected_crc'[j] = c[j]
      BY <3>1, <3>2, <3>3 DEF FourBytes
    <3>5. \A i \in 1 .. 4 : i # j => rx_expected_crc'[i] = rx_expected_crc[i]
      BY <3>1, <3>3 DEF FourBytes
    <3> QED BY <1>0, <1>2, <3>1, <3>4, <3>5
  <2>2. CASE ~(k >= 8 + n)
    BY <1>0, <2>2
  <2> QED BY <2>1, <2>2
<1>6. /\ k + 1 \in 3 .. 8 + n => rx_crc_state' = CrcAfter(SubSeq(p, 1, (k + 1) - 2))
      /\ rx_crc_output_valid' <=> k + 1 >= 8 + n
      /\ k + 1 >= 8 + n => rx_crc_output' = c
  <2>1. CASE k \in 2 .. 7 + n
    <3>1. (k + 1) - 2 = k - 1
      BY <1>0
    <3>2. rx_crc_state' = CrcAfter(SubSeq(p, 1, k - 1))
      BY <1>4, <2>1
    <3>3. rx_crc_output_valid' <=> k + 1 = 8 + n
      BY <2>1
    <3>4. k + 1 = 8 + n => rx_crc_output' = CrcBytes(rx_crc_state') /\ k - 1 = 6 + n
      BY <1>0, <2>1
    <3>5. c = CrcBytes(CrcAfter(p))
      BY DEF CrcOver
    <3> HIDE DEF e, p, n, c
    <3>6. k + 1 >= 8 + n <=> k + 1 = 8 + n
      BY <1>0, <2>1
    <3>7. ASSUME k + 1 = 8 + n PROVE rx_crc_output' = c
      <4>1. rx_crc_output' = CrcBytes(rx_crc_state') /\ k - 1 = 6 + n
        BY <3>4, <3>7
      <4>2. SubSeq(p, 1, 6 + n) = p
        BY <1>3, <2>1
      <4> QED BY <3>2, <3>5, <4>1, <4>2, Zenon
    <3>8. rx_crc_state' = CrcAfter(SubSeq(p, 1, (k + 1) - 2))
      BY <3>1, <3>2, Zenon
    <3> QED BY <3>3, <3>6, <3>7, <3>8, Zenon
  <2>2. CASE ~(k \in 2 .. 7 + n)
    <3>1. /\ rx_crc_state' = rx_crc_state /\ rx_crc_output' = rx_crc_output
          /\ rx_crc_output_valid' <=> rx_crc_output_valid
      BY <2>2
    <3> HIDE DEF e, p, n, c
    <3> QED BY <1>0, <1>2, <2>2, <3>1
  <2> QED BY <2>1, <2>2
<1> QED BY <1>5, <1>6 DEF RxCrc

\* Which states the beginnings of a frame lead to.
LEMMA RxPlace ==
  ASSUME NEW f \in Frame, NEW k \in 0 .. 12 + Len(f.payload), RxAt(f, k)
  PROVE  /\ rx_state = "SEARCH_0" <=> k = 0
         /\ rx_state = "VERSION" <=> k = 2
         /\ rx_state = "LENGTH_HIGH" <=> k = 7
         /\ rx_state = "PAYLOAD" <=> k \in 8 .. 7 + Len(f.payload)
         /\ Rx!crc_input_state <=> k \in 2 .. 7 + Len(f.payload)
         /\ rx_state = "VALIDATE" <=> k = 12 + Len(f.payload)
         /\ rx_state \notin RxOutput
<1> DEFINE n == Len(f.payload)
<1>0. n \in Nat /\ k \in 0 .. 12 + n
  BY FrameFacts
<1>1. CASE k < 8
  <2>1. rx_state = HeadStates[k + 1]
    BY <1>1, Zenon DEF RxAt
  <2> HIDE DEF n
  <2>0. k \in 0 .. 7
    BY <1>0, <1>1
  <2>2. \/ k = 0 /\ rx_state = "SEARCH_0"
        \/ k = 1 /\ rx_state = "SEARCH_1"
        \/ k = 2 /\ rx_state = "VERSION"
        \/ k = 3 /\ rx_state = "MESSAGE_TYPE"
        \/ k = 4 /\ rx_state = "FLAGS_LOW"
        \/ k = 5 /\ rx_state = "FLAGS_HIGH"
        \/ k = 6 /\ rx_state = "LENGTH_LOW"
        \/ k = 7 /\ rx_state = "LENGTH_HIGH"
    BY <2>0, <2>1 DEF HeadStates
  <2>3. k \in 2 .. 7 + n <=> k >= 2
    BY <1>0, <2>0
  <2>4. k # 12 + n /\ k \notin 8 .. 7 + n
    BY <1>0, <2>0
  <2> QED BY <2>2, <2>3, <2>4 DEF Rx!crc_input_state, RxOutput, n
<1>2. CASE ~(k < 8) /\ k < 8 + n
  <2>1. rx_state = "PAYLOAD"
    BY <1>2, Zenon DEF RxAt, n
  <2> HIDE DEF n
  <2> QED BY <1>0, <1>2, <2>1 DEF Rx!crc_input_state, RxOutput, n
<1>3. CASE ~(k < 8) /\ ~(k < 8 + n)
  <2> DEFINE j == k - (8 + n) + 1
  <2>1. rx_state = TailStates[j]
    BY <1>3, Zenon DEF RxAt, n
  <2> HIDE DEF n
  <2>2. j \in 1 .. 5 /\ (j = 5 <=> k = 12 + n) /\ k >= 8 /\ k \notin 2 .. 7 + n
    BY <1>0, <1>3
  <2> HIDE DEF j
  <2>3. /\ rx_state \in {"CRC_0", "CRC_1", "CRC_2", "CRC_3", "VALIDATE"}
        /\ rx_state = "VALIDATE" <=> j = 5
    BY <2>1, <2>2 DEF TailStates
  <2>4. k # 0 /\ k # 2 /\ k # 7 /\ k \notin 8 .. 7 + n
    BY <1>0, <1>3
  <2> QED BY <2>2, <2>3, <2>4 DEF Rx!crc_input_state, RxOutput, n
<1> QED BY <1>1, <1>2, <1>3

\* The next byte of the frame that is coming is taken in its place.
LEMMA RxMore ==
  ASSUME RxOK, ~rx_crc_clear, rx_expected_crc \in FourBytes, rx_crc_output \in FourBytes,
         NEW f \in Frame, NEW k \in 0 .. 11 + Len(f.payload), Receiving(f, k),
         NEW fr, NEW pr, Rx!Clock(TRUE, Encode(f)[k + 1], fr, pr)
  PROVE  /\ Receiving(f, k + 1)'
         /\ ~rx_crc_clear' /\ rx_expected_crc' \in FourBytes /\ rx_crc_output' \in FourBytes
<1> DEFINE n == Len(f.payload)
           b == Encode(f)[k + 1]
           last == Rx!crc_input_last(b)
           j == k - (8 + n) + 1
<1>0. /\ n \in Nat /\ n <= MAX_PAYLOAD_BYTES /\ k \in 0 .. 11 + n
      /\ Encode(f) \in Seq(Byte) /\ Len(Encode(f)) = 12 + n
      /\ Pair(n) \in TwoBytes /\ Value(Pair(n)) = n
      /\ CrcOver(Protected(f)) \in FourBytes
  BY FrameFacts
<1>1. b \in Byte
  <2>1. k + 1 \in 1 .. 12 + n
    BY <1>0
  <2> QED BY <1>0, <2>1, ElementOfSeq
<1>2. RxAt(f, k) /\ RxHolds(f, k) /\ RxCrc(f, k)
  BY DEF Receiving
<1>3. /\ rx_state = "VERSION" <=> k = 2
      /\ rx_state = "LENGTH_HIGH" <=> k = 7
      /\ rx_state = "PAYLOAD" <=> k \in 8 .. 7 + n
      /\ Rx!crc_input_state <=> k \in 2 .. 7 + n
      /\ rx_state # "VALIDATE" /\ rx_state \notin RxOutput
  <2>1. k \in 0 .. 12 + n /\ k # 12 + n
    BY <1>0
  <2> QED BY <1>2, <2>1, RxPlace
<1>4. rx_crc_output_valid <=> k >= 8 + n
  BY <1>2 DEF RxCrc
<1>5. Rx!in_ready
  <2>1. ~Rx!crc_input_state => rx_state \in Rx!SearchStates \cup Rx!CrcStates
    BY <1>3 DEF RxOK, Rx!States, Rx!crc_input_state, RxOutput
  <2>2. Rx!crc_input_state => ~rx_crc_output_valid
    BY <1>0, <1>3, <1>4
  <2> QED BY <2>1, <2>2 DEF Rx!in_ready, Rx!CRC!input_ready
<1>6. Rx!TakeByte(b)
  BY <1>3, <1>5 DEF Rx!Clock, Rx!Deliver, Rx!Validate, Rx!OutputFrame, Rx!OutputPayload, RxOutput
<1>7. last <=> k + 1 = 8 + n
  <2>1. CASE k = 7
    <3>1. rx_payload_length[1] = Pair(n)[1] /\ b = Pair(n)[2]
      BY <1>2, <2>1, EncodePlaces DEF RxHolds
    <3>2. Rx!incoming_length(b) = Pair(n)
      BY <3>1 DEF Rx!incoming_length, Pair
    <3>3. last <=> n = 0
      BY <1>0, <1>3, <2>1, <3>2, SameValue DEF Rx!crc_input_last
    <3> QED BY <1>0, <2>1, <3>3
  <2>2. CASE k \in 8 .. 7 + n
    <3>1. rx_payload_length = Pair(n)
      BY <1>2, <2>2 DEF RxHolds
    <3>2. rx_state = "PAYLOAD" /\ rx_payload_write_index = k - 8
      <4>1. ~(k < 8) /\ k < 8 + n
        BY <1>0, <2>2
      <4> QED BY <1>2, <4>1, Zenon DEF RxAt, n
    <3>3. last <=> (k - 8) + 1 = n
      BY <1>0, <3>1, <3>2, SameValue DEF Rx!crc_input_last, Rx!last_payload_byte
    <3> HIDE DEF n, b, last
    <3> QED BY <1>0, <2>2, <3>3
  <2>3. CASE k # 7 /\ k \notin 8 .. 7 + n
    BY <1>0, <1>3, <2>3 DEF Rx!crc_input_last
  <2> QED BY <2>1, <2>2, <2>3
<1>8. IF k \in 2 .. 7 + n
      THEN /\ rx_crc_state' = CrcStep(IF k = 2 THEN CRC_INITIAL ELSE rx_crc_state, b)
           /\ rx_crc_output_valid' <=> k + 1 = 8 + n
           /\ rx_crc_output' = IF k + 1 = 8 + n THEN CrcBytes(rx_crc_state') ELSE rx_crc_output
      ELSE /\ UNCHANGED <<rx_crc_state, rx_crc_output>>
           /\ rx_crc_output_valid' <=> rx_crc_output_valid
  <2>1. Rx!CRC!Clock(FALSE, Rx!crc_input_state, b, k = 2, last, FALSE)
    <3>1. Rx!CrcClock(TRUE, b)
      BY DEF Rx!Clock
    <3>2. /\ rx_crc_clear = FALSE
          /\ (TRUE /\ Rx!crc_input_state) = Rx!crc_input_state
          /\ (rx_state = "VERSION") = (k = 2) /\ Rx!crc_output_ready = FALSE
      BY <1>3 DEF Rx!crc_output_ready, Rx!crc_input_state
    <3> QED BY <3>1, <3>2 DEF Rx!CrcClock
  <2> HIDE DEF n, b, last
  <2>2. CASE k \in 2 .. 7 + n
    <3>1. Rx!crc_input_state /\ Rx!CRC!input_ready(FALSE, FALSE)
      BY <1>0, <1>3, <1>4, <2>2 DEF Rx!CRC!input_ready
    <3>2. Rx!CRC!Take(b, k = 2, last)
      BY <2>1, <3>1 DEF Rx!CRC!Clock
    <3> QED BY <1>7, <2>2, <3>2 DEF Rx!CRC!Take, Rx!CRC!PacketCrc
  <2>3. CASE k \notin 2 .. 7 + n
    <3>1. Rx!CRC!Rest(FALSE)
      BY <1>3, <2>1, <2>3 DEF Rx!CRC!Clock
    <3>2. /\ rx_crc_output_valid' <=> rx_crc_output_valid
          /\ UNCHANGED <<rx_crc_state, rx_crc_output>>
      BY <3>1 DEF Rx!CRC!Rest
    <3> QED BY <2>3, <3>2
  <2> QED BY <2>2, <2>3
<1>9. /\ RxAt(f, k + 1)' /\ RxHolds(f, k + 1)'
      /\ rx_expected_crc' = IF k >= 8 + n THEN [rx_expected_crc EXCEPT ![j] = b]
                            ELSE rx_expected_crc
  <2>1. CASE k < 8
    <3>1. k \in 0 .. 7 /\ ~(k >= 8 + n)
      BY <1>0, <2>1
    <3> QED BY <1>2, <1>6, <3>1, RxHeading DEF RxOK
  <2>2. CASE k \in 8 .. 7 + n
    <3>1. ~(k >= 8 + n)
      BY <1>0, <2>2
    <3> QED BY <1>2, <1>6, <2>2, <3>1, RxPayload DEF RxOK
  <2>3. CASE k >= 8 + n
    <3>1. k \in 8 + n .. 11 + n
      BY <1>0, <2>3
    <3> QED BY <1>2, <1>6, <2>3, <3>1, RxClosing
  <2>4. k < 8 \/ k \in 8 .. 7 + n \/ k >= 8 + n
    <3> HIDE DEF n
    <3> QED BY <1>0
  <2> QED BY <2>1, <2>2, <2>3, <2>4, Zenon
<1>10. RxCrc(f, k + 1)'
  BY <1>2, <1>8, <1>9, RxFollows
<1>11. ~rx_crc_clear'
  BY <1>6 DEF Rx!TakeByte
<1>12. rx_expected_crc' \in FourBytes
  <2> HIDE DEF n, b, j
  <2>1. [rx_expected_crc EXCEPT ![j] = b] \in FourBytes
    BY <1>1 DEF FourBytes
  <2> QED BY <1>9, <2>1
<1>13. rx_crc_output' \in FourBytes
  <2>1. CASE k + 1 = 8 + n
    <3>1. rx_crc_output' = CrcOver(Protected(f))
      BY <1>0, <1>10, <2>1 DEF RxCrc
    <3> QED BY <1>0, <3>1
  <2>2. CASE k + 1 # 8 + n
    BY <1>8, <2>2
  <2> QED BY <2>1, <2>2
<1> QED BY <1>9, <1>10, <1>11, <1>12, <1>13 DEF Receiving

\* While no byte comes, a reception stays where it is: the timeout is off.
LEMMA RxStays ==
  ASSUME RxOK, ~rx_crc_clear, rx_state \notin {"VALIDATE", "OUTPUT_FRAME", "OUTPUT_PAYLOAD"},
         NEW b, NEW fr, NEW pr, Rx!Clock(FALSE, b, fr, pr)
  PROVE  /\ UNCHANGED <<rx_state, rx_message_type, rx_flags, rx_payload_length,
                        rx_expected_crc, rx_payload_memory, rx_payload_write_index,
                        rx_crc_state, rx_crc_output>>
         /\ rx_crc_output_valid' <=> rx_crc_output_valid
         /\ ~rx_crc_clear'
<1>1. Rx!Wait
  BY DEF Rx!Clock, Rx!Deliver, Rx!Validate, Rx!OutputFrame, Rx!OutputPayload
<1>2. /\ UNCHANGED <<rx_state, rx_message_type, rx_flags, rx_payload_length,
                     rx_expected_crc, rx_payload_memory, rx_payload_write_index>>
      /\ ~rx_crc_clear'
  BY <1>1, PatienceAssumption DEF Rx!Wait, Rx!Timeout, Rx!WaitReceiving, Rx!WaitSearching,
       Rx!header, Rx!payload
<1>3. Rx!CRC!Clock(FALSE, FALSE, b, rx_state = "VERSION", Rx!crc_input_last(b), FALSE)
  <2>1. /\ rx_crc_clear = FALSE /\ (FALSE /\ Rx!crc_input_state) = FALSE
        /\ Rx!crc_output_ready = FALSE
    BY DEF Rx!crc_output_ready
  <2> QED BY <2>1 DEF Rx!Clock, Rx!CrcClock
<1>4. /\ rx_crc_output_valid' <=> rx_crc_output_valid
      /\ UNCHANGED <<rx_crc_state, rx_crc_output>>
  BY <1>3 DEF Rx!CRC!Clock, Rx!CRC!Rest
<1> QED BY <1>2, <1>4

\* So what has come of a frame is kept.
LEMMA RxKept ==
  ASSUME NEW f, NEW k, Receiving(f, k),
         UNCHANGED <<rx_state, rx_message_type, rx_flags, rx_payload_length,
                     rx_expected_crc, rx_payload_memory, rx_payload_write_index,
                     rx_crc_state, rx_crc_output>>,
         rx_crc_output_valid' <=> rx_crc_output_valid
  PROVE  Receiving(f, k)'
<1>1. RxAt(f, k)' /\ RxHolds(f, k)'
  BY DEF Receiving, RxAt, RxHolds
<1>2. RxCrc(f, k)'
  BY DEF Receiving, RxCrc
<1> QED BY <1>1, <1>2 DEF Receiving

\* A frame that came completely is accepted: its CRC is right.
LEMMA RxValidates ==
  ASSUME RxOK, ~rx_crc_clear, rx_state = "VALIDATE",
         NEW f \in Frame, Receiving(f, 12 + Len(f.payload)), rx_expected_crc \in FourBytes,
         NEW iv, NEW b, NEW fr, NEW pr, Rx!Clock(iv, b, fr, pr)
  PROVE  /\ rx_state' = "OUTPUT_FRAME"
         /\ UNCHANGED <<rx_message_type, rx_flags, rx_payload_length, rx_expected_crc,
                        rx_payload_memory, rx_crc_output>>
         /\ ~rx_crc_output_valid' /\ ~rx_crc_clear'
<1> DEFINE n == Len(f.payload)
           c == CrcOver(Protected(f))
<1>1. n \in Nat /\ c \in FourBytes
  BY FrameFacts
<1>2. RxCrc(f, 12 + n)
  BY DEF Receiving
<1>3. /\ rx_crc_output_valid /\ rx_crc_output = c
      /\ \A i \in 1 .. 4 : rx_expected_crc[i] = c[i]
  <2>1. /\ rx_crc_output_valid <=> 12 + n >= 8 + n
        /\ 12 + n >= 8 + n => rx_crc_output = c
        /\ \A i \in 1 .. 4 : 12 + n >= 8 + n + i => rx_expected_crc[i] = c[i]
    BY <1>2 DEF RxCrc
  <2> HIDE DEF n, c
  <2> QED BY <1>1, <2>1
<1>4. rx_expected_crc = c
  <2> HIDE DEF c
  <2> QED BY <1>1, <1>3 DEF FourBytes
<1>5. Rx!Deliver(fr, pr)
  <2>1. ~Rx!in_ready
    BY DEF Rx!in_ready, Rx!crc_input_state
  <2>2. ~Rx!Wait
    BY DEF Rx!Wait, Rx!Timeout, Rx!WaitReceiving, Rx!WaitSearching, Rx!receiving_frame,
           Rx!crc_input_state
  <2> QED BY <2>1, <2>2 DEF Rx!Clock
<1>6. /\ rx_state' = "OUTPUT_FRAME" /\ ~rx_crc_clear'
      /\ UNCHANGED <<rx_message_type, rx_flags, rx_payload_length, rx_expected_crc,
                     rx_payload_memory>>
  BY <1>3, <1>4, <1>5 DEF Rx!Deliver, Rx!Validate, Rx!OutputFrame, Rx!OutputPayload, Rx!Goto,
       Rx!header, Rx!payload, Rx!CrcMatches
<1>7. Rx!CRC!Clock(FALSE, FALSE, b, rx_state = "VERSION", Rx!crc_input_last(b), TRUE)
  <2>1. /\ rx_crc_clear = FALSE /\ (iv /\ Rx!crc_input_state) = FALSE
        /\ Rx!crc_output_ready = TRUE
    BY DEF Rx!crc_output_ready, Rx!crc_input_state
  <2> QED BY <2>1 DEF Rx!Clock, Rx!CrcClock
<1>8. ~rx_crc_output_valid' /\ UNCHANGED rx_crc_output
  BY <1>7 DEF Rx!CRC!Clock, Rx!CRC!Rest
<1> QED BY <1>6, <1>8

\* While it is offered it is not touched.
LEMMA RxOffers ==
  ASSUME RxOK, ~rx_crc_clear, rx_state \in RxOutput, ~rx_crc_output_valid,
         NEW iv, NEW b, NEW fr, NEW pr, Rx!Clock(iv, b, fr, pr)
  PROVE  /\ rx_state' \in RxOutput \cup {"SEARCH_0"}
         /\ UNCHANGED <<rx_message_type, rx_flags, rx_payload_length, rx_expected_crc,
                        rx_payload_memory, rx_crc_output>>
         /\ ~rx_crc_output_valid' /\ ~rx_crc_clear'
<1>5. Rx!Deliver(fr, pr)
  <2>1. ~Rx!in_ready
    BY DEF Rx!in_ready, Rx!crc_input_state, RxOutput
  <2>2. ~Rx!Wait
    BY DEF Rx!Wait, Rx!Timeout, Rx!WaitReceiving, Rx!WaitSearching, Rx!receiving_frame,
           Rx!crc_input_state, RxOutput
  <2> QED BY <2>1, <2>2 DEF Rx!Clock
<1>6. /\ rx_state' \in RxOutput \cup {"SEARCH_0"} /\ ~rx_crc_clear'
      /\ UNCHANGED <<rx_message_type, rx_flags, rx_payload_length, rx_expected_crc,
                     rx_payload_memory>>
  BY <1>5 DEF Rx!Deliver, Rx!Validate, Rx!OutputFrame, Rx!OutputPayload, Rx!Goto,
       Rx!header, Rx!payload, RxOutput
<1>7. Rx!CRC!Clock(FALSE, FALSE, b, rx_state = "VERSION", Rx!crc_input_last(b), FALSE)
  <2>1. /\ rx_crc_clear = FALSE /\ (iv /\ Rx!crc_input_state) = FALSE
        /\ Rx!crc_output_ready = FALSE
    BY DEF Rx!crc_output_ready, Rx!crc_input_state, RxOutput
  <2> QED BY <2>1 DEF Rx!Clock, Rx!CrcClock
<1>8. ~rx_crc_output_valid' /\ UNCHANGED rx_crc_output
  BY <1>7 DEF Rx!CRC!Clock, Rx!CRC!Rest
<1> QED BY <1>6, <1>8

\* The complement of RxPlace after the edge: no frame is complete before its end.
LEMMA RxPlaceNext ==
  ASSUME NEW f \in Frame, NEW k \in 1 .. 12 + Len(f.payload), RxAt(f, k)'
  PROVE  /\ rx_state' = "VALIDATE" <=> k = 12 + Len(f.payload)
         /\ rx_state' # "SEARCH_0" /\ rx_state' \notin RxOutput
<1> DEFINE n == Len(f.payload)
<1>0. n \in Nat /\ k \in 1 .. 12 + n
  BY FrameFacts
<1>1. CASE k < 8
  <2>1. rx_state' = HeadStates[k + 1]
    BY <1>1, Zenon DEF RxAt
  <2> HIDE DEF n
  <2>2. k \in 1 .. 7 /\ k # 12 + n
    BY <1>0, <1>1
  <2>3. rx_state' \in {"SEARCH_1", "VERSION", "MESSAGE_TYPE", "FLAGS_LOW", "FLAGS_HIGH",
                       "LENGTH_LOW", "LENGTH_HIGH"}
    BY <2>1, <2>2 DEF HeadStates
  <2> QED BY <2>2, <2>3 DEF RxOutput, n
<1>2. CASE ~(k < 8) /\ k < 8 + n
  <2>1. rx_state' = "PAYLOAD"
    BY <1>2, Zenon DEF RxAt, n
  <2> HIDE DEF n
  <2> QED BY <1>0, <1>2, <2>1 DEF RxOutput, n
<1>3. CASE ~(k < 8) /\ ~(k < 8 + n)
  <2> DEFINE j == k - (8 + n) + 1
  <2>1. rx_state' = TailStates[j]
    BY <1>3, Zenon DEF RxAt, n
  <2> HIDE DEF n
  <2>2. j \in 1 .. 5 /\ (j = 5 <=> k = 12 + n)
    BY <1>0, <1>3
  <2> HIDE DEF j
  <2>3. /\ rx_state' \in {"CRC_0", "CRC_1", "CRC_2", "CRC_3", "VALIDATE"}
        /\ rx_state' = "VALIDATE" <=> j = 5
    BY <2>1, <2>2 DEF TailStates
  <2> QED BY <2>2, <2>3 DEF RxOutput, n
<1> QED BY <1>1, <1>2, <1>3

\* A cycle without a byte keeps what has come, and a complete frame as it came.
LEMMA ComingPauses ==
  ASSUME RxOK, RxTypes, NEW f \in Frame, NEW s, Coming(f, s),
         NEW b, NEW fr, NEW pr, Rx!Clock(FALSE, b, fr, pr), RxOK'
  PROVE  /\ RxTypes' /\ Coming(f, s)'
         /\ rx_state = "VALIDATE" => rx_state' = "OUTPUT_FRAME"
         /\ rx_state \notin RxOutput \cup {"VALIDATE"} => UNCHANGED rx_state
         /\ rx_state \in RxOutput => rx_state' \in RxOutput \cup {"SEARCH_0"}
<1> DEFINE e == Encode(f)
           k == Len(e) - Len(s)
           n == Len(f.payload)
<1>0. n \in Nat /\ Len(e) = 12 + n
  BY FrameFacts
<1>1. RxTypes' <=> ~rx_crc_clear' /\ rx_expected_crc' \in FourBytes /\ rx_crc_output' \in FourBytes
  BY DEF RxTypes, RxOK
<1>2. CASE s # << >>
  <2>1. k \in 1 .. Len(e) - 1 /\ IsRest(s, e, k) /\ Receiving(f, k)
    BY <1>2 DEF Coming
  <2>2. k \in 0 .. 12 + n /\ k # 12 + n
    <3> HIDE DEF e, n, k
    <3> QED BY <1>0, <2>1
  <2>3. rx_state # "VALIDATE" /\ rx_state \notin RxOutput
    BY <2>1, <2>2, RxPlace DEF Receiving
  <2>4. /\ UNCHANGED <<rx_state, rx_message_type, rx_flags, rx_payload_length,
                       rx_expected_crc, rx_payload_memory, rx_payload_write_index,
                       rx_crc_state, rx_crc_output>>
        /\ rx_crc_output_valid' <=> rx_crc_output_valid
        /\ ~rx_crc_clear'
    BY <2>3, RxStays DEF RxOutput, RxTypes
  <2>5. Receiving(f, k)'
    BY <2>1, <2>4, RxKept
  <2>6. Coming(f, s)'
    BY <1>2, <2>1, <2>5 DEF Coming
  <2> QED BY <1>1, <2>3, <2>4, <2>6 DEF RxTypes
<1>3. CASE s = << >> /\ rx_state = "SEARCH_0" /\ ~rx_crc_output_valid
  <2>4. /\ UNCHANGED <<rx_state, rx_expected_crc, rx_crc_output>>
        /\ rx_crc_output_valid' <=> rx_crc_output_valid
        /\ ~rx_crc_clear'
    BY <1>3, RxStays DEF RxTypes
  <2> QED BY <1>1, <1>3, <2>4 DEF Coming, RxTypes, RxOutput
<1>4. CASE s = << >> /\ rx_state = "VALIDATE" /\ Receiving(f, Len(e))
  <2>1. Receiving(f, 12 + n)
    BY <1>0, <1>4
  <2>2. /\ rx_state' = "OUTPUT_FRAME"
        /\ UNCHANGED <<rx_message_type, rx_flags, rx_payload_length, rx_expected_crc,
                       rx_payload_memory, rx_crc_output>>
        /\ ~rx_crc_output_valid' /\ ~rx_crc_clear'
    BY <1>4, <2>1, RxValidates DEF RxTypes
  <2>3. RxHolds(f, Len(e))'
    BY <1>4, <2>2 DEF Receiving, RxHolds
  <2> QED BY <1>1, <1>4, <2>2, <2>3 DEF Coming, RxTypes, RxOutput
<1>5. CASE s = << >> /\ rx_state \in RxOutput /\ ~rx_crc_output_valid /\ RxHolds(f, Len(e))
  <2>2. /\ rx_state' \in RxOutput \cup {"SEARCH_0"}
        /\ UNCHANGED <<rx_message_type, rx_flags, rx_payload_length, rx_expected_crc,
                       rx_payload_memory, rx_crc_output>>
        /\ ~rx_crc_output_valid' /\ ~rx_crc_clear'
    BY <1>5, RxOffers DEF RxTypes
  <2>3. RxHolds(f, Len(e))'
    BY <1>5, <2>2 DEF RxHolds
  <2> QED BY <1>1, <1>5, <2>2, <2>3 DEF Coming, RxTypes, RxOutput
<1> QED BY <1>2, <1>3, <1>4, <1>5 DEF Coming

\* A byte of a frame, its first or the next one, leaves one fewer to come.
LEMMA ComingTakes ==
  ASSUME RxOK, RxTypes, NEW f \in Frame, NEW s \in Seq(Byte), Coming(f, s), Rx!in_ready,
         NEW g \in Frame, NEW rest,
         IF s = << >> THEN rest = Encode(g) ELSE g = f /\ rest = s,
         NEW fr, NEW pr, Rx!Clock(TRUE, Head(rest), fr, pr), RxOK'
  PROVE  /\ RxTypes' /\ Coming(g, Tail(rest))'
         /\ rest \in Seq(Byte) /\ rest # << >> /\ Tail(rest) \in Seq(Byte)
         /\ Tail(rest) = << >> <=> Len(rest) = 1
         /\ rx_state \notin RxOutput \cup {"VALIDATE"} /\ rx_state' \notin RxOutput
         /\ rx_state' = "VALIDATE" <=> Len(rest) = 1
         /\ rx_state' # "SEARCH_0"
<1> DEFINE e == Encode(g)
           n == Len(g.payload)
           k == (12 + n) - Len(rest)
<1>0. n \in Nat /\ e \in Seq(Byte) /\ Len(e) = 12 + n
  BY FrameFacts
<1>1. k \in 0 .. 11 + n /\ IsRest(rest, e, k) /\ Receiving(g, k)
  <2>1. CASE s = << >>
    <3>1. k = 0 /\ IsRest(rest, e, 0)
      <4>1. rest = e
        BY <2>1
      <4>2. (12 + n) - Len(e) = 0 /\ e = SubSeq(e, 1, Len(e))
        <5> HIDE DEF e, n
        <5> QED BY <1>0
      <4>3. 0 + 1 = 1
        OBVIOUS
      <4> QED BY <4>1, <4>2, <4>3, Zenon DEF IsRest
    <3>2. rx_state = "SEARCH_0" /\ ~rx_crc_output_valid
      BY <2>1 DEF Coming, Rx!in_ready, Rx!crc_input_state, RxOutput
    <3>3. RxAt(g, 0)
      BY <3>2 DEF RxAt, HeadStates
    <3>4. RxHolds(g, 0)
      BY <1>0 DEF RxHolds
    <3>5. RxCrc(g, 0)
      BY <1>0, <3>2 DEF RxCrc
    <3>6. Receiving(g, 0)
      BY <3>3, <3>4, <3>5 DEF Receiving
    <3> HIDE DEF e, k, n
    <3> QED BY <1>0, <3>1, <3>6
  <2>2. CASE s # << >>
    <3>1. /\ Len(e) - Len(s) \in 1 .. Len(e) - 1
          /\ IsRest(s, e, Len(e) - Len(s)) /\ Receiving(g, Len(e) - Len(s))
          /\ rest = s
      BY <2>2 DEF Coming
    <3>2. Len(e) - Len(s) = k
      BY <1>0, <3>1
    <3>3. k \in 1 .. Len(e) - 1 /\ IsRest(rest, e, k) /\ Receiving(g, k)
      BY <3>1, <3>2
    <3> HIDE DEF e, n, k
    <3> QED BY <1>0, <3>3
  <2> QED BY <2>1, <2>2
<1> HIDE DEF k, e
<1>2. /\ rest \in Seq(Byte) /\ Len(rest) = (12 + n) - k /\ rest # << >> /\ Head(rest) = e[k + 1]
      /\ Tail(rest) \in Seq(Byte) /\ Len(Tail(rest)) = Len(e) - (k + 1)
      /\ IsRest(Tail(rest), e, k + 1)
      /\ Tail(rest) = << >> <=> k + 1 = 12 + n
  <2> HIDE DEF n
  <2>1. k \in Nat /\ k < Len(e) /\ IsRest(rest, e, k)
    BY <1>0, <1>1
  <2>2. /\ rest \in Seq(Byte) /\ Len(rest) = Len(e) - k /\ rest # << >>
        /\ Head(rest) = e[k + 1]
        /\ Tail(rest) \in Seq(Byte) /\ Len(Tail(rest)) = Len(e) - (k + 1)
        /\ IsRest(Tail(rest), e, k + 1)
        /\ Tail(rest) = << >> <=> k + 1 = Len(e)
    BY ONLY <1>0, <2>1, RestOf
  <2>3. Len(e) = 12 + n
    BY <1>0
  <2> QED BY <2>2, <2>3
<1>3. Tail(rest) = << >> <=> k + 1 = 12 + n
  BY <1>2
<1>4. rx_state # "VALIDATE" /\ rx_state \notin RxOutput
  <2>1. k \in 0 .. 12 + n /\ k # 12 + n
    <3> HIDE DEF n
    <3> QED BY <1>0, <1>1
  <2> QED BY <1>1, <2>1, RxPlace DEF Receiving
<1>5. /\ Receiving(g, k + 1)'
      /\ ~rx_crc_clear' /\ rx_expected_crc' \in FourBytes /\ rx_crc_output' \in FourBytes
  BY <1>1, <1>2, RxMore DEF RxTypes, e
<1>6. k + 1 \in 1 .. 12 + n
  <2> HIDE DEF n
  <2> QED BY <1>0, <1>1
<1>7. /\ rx_state' = "VALIDATE" <=> k + 1 = 12 + n
      /\ rx_state' # "SEARCH_0" /\ rx_state' \notin RxOutput
  BY <1>5, <1>6, RxPlaceNext DEF Receiving
<1>8. Coming(g, Tail(rest))'
  <2> DEFINE t == Tail(rest)
  <2>1. CASE t # << >>
    <3>1. k + 1 # 12 + n
      BY <1>3, <2>1
    <3>2. Len(e) - Len(t) = k + 1 /\ k + 1 \in 1 .. Len(e) - 1
      <4>1. k + 1 \in Nat /\ k + 1 < Len(e)
        <5> HIDE DEF n
        <5> QED BY <1>0, <1>1, <1>6, <3>1
      <4>2. Len(t) = Len(e) - (k + 1)
        BY <1>2
      <4> HIDE DEF n, t
      <4> QED BY <1>0, <1>1, <4>1, <4>2
    <3>3. /\ Len(e) - Len(t) \in 1 .. Len(e) - 1
          /\ IsRest(t, e, Len(e) - Len(t))
          /\ Receiving(g, Len(e) - Len(t))'
      BY <1>2, <1>5, <3>2, Zenon
    <3> QED BY <2>1, <3>3, Zenon DEF Coming, e
  <2>2. CASE t = << >>
    <3>1. k + 1 = Len(e) /\ rx_state' = "VALIDATE"
      BY <1>0, <1>3, <1>7, <2>2
    <3>2. Receiving(g, Len(e))'
      BY <1>5, <3>1
    <3> QED BY <2>2, <3>1, <3>2, Zenon DEF Coming, e
  <2> QED BY <2>1, <2>2
<1>9. Len(rest) = 1 <=> k + 1 = 12 + n
  <2> HIDE DEF n
  <2> QED BY <1>0, <1>1, <1>2
<1>10. RxTypes'
  BY <1>5 DEF RxTypes, RxOK
<1> QED BY <1>2, <1>3, <1>4, <1>7, <1>8, <1>9, <1>10

----------------------------------------------------------------------------
(* The handler: what it owes. *)

\* A request has one reply, a frame.
LEMMA OneReply ==
  ASSUME NEW fl \in TwoBytes, NEW payload \in Seq(Byte), Len(payload) <= MAX_PAYLOAD_BYTES
  PROVE  /\ TheReply(fl, payload) \in Frame
         /\ Replies(fl, payload) = {TheReply(fl, payload)}
<1>1. Len(payload) \in 0 .. MAX_PAYLOAD_BYTES /\ payload \in [1 .. Len(payload) -> Byte]
  BY PayloadAssumption
<1>2. PICK r : Replies(fl, payload) = {r} /\ r \in Frame
  BY <1>1, ReplyAssumption
<1>3. TheReply(fl, payload) = r
  BY <1>2, Zenon DEF TheReply
<1> QED BY <1>2, <1>3

\* An edge of the handler, in terms of receiver and transmitter.
LEMMA HandlerMoves ==
  ASSUME RoutingInv, NEW iv, NEW b, NEW out_ready \in BOOLEAN, NEW done,
         Clock(iv, b, out_ready, done)
  PROVE  /\ hd_phase = "IDLE" =>
              IF received_frame_accepted /\ token_request
              THEN /\ hd_phase' = IF Length = 0 THEN "WORK" ELSE "COLLECT"
                   /\ hd_request_flags' = rx_flags /\ hd_received' = << >> /\ hd_taken' = 0
              ELSE hd_phase' = "IDLE"
         /\ hd_phase = "COLLECT" =>
              /\ rx_state = "OUTPUT_PAYLOAD"
              /\ hd_phase' = IF hd_taken + 1 = Length THEN "WORK" ELSE "COLLECT"
              /\ hd_taken' = hd_taken + 1 /\ hd_request_flags' = hd_request_flags
              /\ hd_received' = Append(hd_received, rx_payload_memory[hd_taken])
         /\ hd_phase = "WORK" =>
              \/ /\ hd_phase' = "RESPONSE_HEADER"
                 /\ hd_reply' \in Replies(hd_request_flags, hd_received)
              \/ UNCHANGED <<hd_phase, hd_request_flags, hd_received>>
         /\ hd_phase = "RESPONSE_HEADER" =>
              /\ hd_phase' = IF tx_state = "IDLE" THEN "RESPONSE_PAYLOAD" ELSE "RESPONSE_HEADER"
              /\ UNCHANGED <<hd_reply, hd_replied>>
         /\ hd_phase = "RESPONSE_PAYLOAD" =>
              IF tx_state = "PAYLOAD" /\ out_ready /\ hd_replied + 1 = Len(hd_reply.payload)
              THEN hd_phase' = "IDLE"
              ELSE /\ hd_phase' = "RESPONSE_PAYLOAD" /\ UNCHANGED hd_reply
                   /\ hd_replied' = IF tx_state = "PAYLOAD" /\ out_ready
                                    THEN hd_replied + 1 ELSE hd_replied
<1> DEFINE rv == handler_request_valid
           last == Rx!payload_last
           hr == handler_response_ready
           tp == Tx!payload_ready(out_ready)
           byte == Rx!payload_data
<1>1. HandlerOK /\ RoutingAgrees
  BY DEF RoutingInv
<1>2. Handler!Clock(rv, rx_flags, Length, collecting, byte, last, hr, tp, done)
  BY DEF Clock, HandlerClock, Length, collecting
<1>3. /\ rv /\ hd_phase = "IDLE" <=> received_frame_accepted /\ token_request
      /\ rv => rx_state = "OUTPUT_FRAME"
      /\ Length \in Nat /\ (rx_state \in RxOutput => Length <= MAX_PAYLOAD_BYTES)
      /\ hd_phase = "COLLECT" => collecting /\ rx_state = "OUTPUT_PAYLOAD"
      /\ hd_phase = "COLLECT" /\ collecting =>
           byte \in Byte /\ (last <=> hd_taken + 1 = hd_request_length)
  BY Wires
<1>4. rv => rx_flags \in TwoBytes /\ Length \in 0 .. MAX_PAYLOAD_BYTES
  BY <1>3, PayloadAssumption DEF RxOutput, RxOK, RoutingInv
<1>5. hd_phase = "COLLECT" =>
        /\ hd_request_length = Length /\ hd_taken = rx_payload_read_index
        /\ byte = rx_payload_memory[hd_taken]
  BY <1>1 DEF RoutingAgrees, Length, Rx!payload_data
<1>6. /\ hr <=> tx_state = "IDLE" /\ hd_phase = "RESPONSE_HEADER"
      /\ tp <=> tx_state = "PAYLOAD" /\ out_ready
  BY DEF handler_response_ready, Tx!frame_ready, Handler!response_valid, Tx!payload_ready
<1> HIDE DEF rv, last, hr, tp, byte
<1>7. HandlerEdge(rv, Length, collecting, last, hr, tp)
  BY <1>1, <1>2, <1>3, <1>4, HandlerStep
<1>8. /\ hd_phase = "IDLE" /\ rv => hd_request_flags' = rx_flags /\ hd_received' = << >>
      /\ hd_phase = "COLLECT" /\ collecting =>
           hd_request_flags' = hd_request_flags /\ hd_received' = Append(hd_received, byte)
      /\ hd_phase = "WORK" =>
           IF done THEN /\ hd_phase' = "RESPONSE_HEADER"
                        /\ hd_reply' \in Replies(hd_request_flags, hd_received)
           ELSE UNCHANGED <<hd_phase, hd_request_flags, hd_received>>
  BY <1>1, <1>2, <1>3, HandlerData
<1>9. CASE hd_phase = "IDLE"
  BY <1>3, <1>7, <1>8, <1>9 DEF HandlerEdge
<1>10. CASE hd_phase = "COLLECT"
  BY <1>3, <1>5, <1>7, <1>8, <1>10 DEF HandlerEdge
<1>11. CASE hd_phase = "WORK"
  BY <1>8, <1>11
<1>12. CASE hd_phase \in {"RESPONSE_HEADER", "RESPONSE_PAYLOAD"}
  BY <1>6, <1>7, <1>12 DEF HandlerEdge
<1> QED BY <1>1, <1>9, <1>10, <1>11, <1>12 DEF HandlerOK, Phases

\* The beginning of a sequence grows by one, up to the whole.
LEMMA Longer ==
  ASSUME NEW s \in Seq(Byte), NEW k \in Nat, k < Len(s)
  PROVE  /\ Append(SubSeq(s, 1, k), s[k + 1]) = SubSeq(s, 1, k + 1)
         /\ SubSeq(s, 1, 0) = << >> /\ SubSeq(s, 1, Len(s)) = s
<1>1. /\ SubSeq(s, 1, k) \in Seq(Byte) /\ Len(SubSeq(s, 1, k)) = k
      /\ \A i \in 1 .. k : SubSeq(s, 1, k)[i] = s[i]
  OBVIOUS
<1>2. /\ SubSeq(s, 1, k + 1) \in Seq(Byte) /\ Len(SubSeq(s, 1, k + 1)) = k + 1
      /\ \A i \in 1 .. k + 1 : SubSeq(s, 1, k + 1)[i] = s[i]
  OBVIOUS
<1> DEFINE u == SubSeq(s, 1, k)
           v == SubSeq(s, 1, k + 1)
           w == Append(u, s[k + 1])
<1>3. s[k + 1] \in Byte
  OBVIOUS
<1> HIDE DEF u, v
<1>4. /\ w \in Seq(Byte) /\ Len(w) = k + 1
      /\ \A i \in 1 .. k : w[i] = u[i]
      /\ w[k + 1] = s[k + 1]
  BY <1>1, <1>3 DEF u
<1>5. \A i \in 1 .. k + 1 : w[i] = v[i]
  BY <1>1, <1>2, <1>4 DEF u, v
<1> HIDE DEF w
<1>6. w = v
  BY <1>2, <1>4, <1>5 DEF v
<1>7. SubSeq(s, 1, 0) = << >> /\ SubSeq(s, 1, Len(s)) = s
  OBVIOUS
<1> QED BY <1>6, <1>7 DEF u, v, w

\* Where the reply that is due comes from: from a request that is taken, and
\* after that it is the same until it is handed to the transmitter.
LEMMA HandlerDue ==
  ASSUME RoutingInv, Replying, NEW f \in Frame, Handling(f),
         rx_state \in RxOutput => RxHolds(f, 12 + Len(f.payload)),
         NEW iv, NEW b, NEW out_ready \in BOOLEAN, NEW done, Clock(iv, b, out_ready, done)
  PROVE  /\ Replying' /\ Handling(f)'
         /\ IF received_frame_accepted /\ token_request
            THEN /\ hd_phase = "IDLE" /\ hd_phase' \in HdPhases
                 /\ f.type = TOKEN_REQUEST
                 /\ Due(f)' = TheReply(f.flags, f.payload)
            ELSE /\ hd_phase' \in HdPhases <=>
                      hd_phase \in HdPhases /\ ~(hd_phase = "RESPONSE_HEADER" /\ tx_state = "IDLE")
                 /\ hd_phase' \in HdPhases => Due(f)' = Due(f)
         /\ hd_phase = "RESPONSE_HEADER" =>
              /\ hd_phase' = IF tx_state = "IDLE" THEN "RESPONSE_PAYLOAD" ELSE "RESPONSE_HEADER"
              /\ UNCHANGED <<hd_reply, hd_replied>>
<1> DEFINE n == Len(f.payload)
<1>0. /\ n \in Nat /\ n <= MAX_PAYLOAD_BYTES /\ f.payload \in Seq(Byte)
      /\ f.flags \in TwoBytes /\ Value(Pair(n)) = n
  BY FrameFacts, FrameFields
<1>1. rx_state \in RxOutput =>
        /\ rx_message_type = f.type /\ rx_flags = f.flags /\ Length = n
        /\ \A i \in 0 .. n - 1 : rx_payload_memory[i] = f.payload[i + 1]
  <2>1. 12 + n >= 4 /\ 12 + n >= 6 /\ 12 + n >= 8 /\ \A i \in 0 .. n - 1 : 12 + n > 8 + i
    BY <1>0
  <2> QED BY <1>0, <2>1 DEF RxHolds, Length
<1>2. HandlerOK /\ RoutingAgrees
  BY DEF RoutingInv
<1>3. CASE hd_phase = "IDLE"
  <2>1. CASE received_frame_accepted /\ token_request
    <3>1. /\ hd_phase' = IF Length = 0 THEN "WORK" ELSE "COLLECT"
          /\ hd_request_flags' = rx_flags /\ hd_received' = << >> /\ hd_taken' = 0
      BY <1>3, <2>1, HandlerMoves
    <3>2. rx_state = "OUTPUT_FRAME"
      BY <2>1 DEF received_frame_accepted, Rx!frame_valid
    <3>3. f.type = TOKEN_REQUEST /\ hd_request_flags' = f.flags /\ Length = n
      BY <1>1, <2>1, <3>1, <3>2 DEF token_request, RxOutput
    <3>4. CASE n = 0
      <4>1. hd_phase' = "WORK" /\ f.payload = << >>
        BY <1>0, <3>1, <3>3, <3>4, NotEmpty
      <4>2. Due(f)' = TheReply(hd_request_flags', hd_received')
        BY <4>1 DEF Due
      <4> QED BY <1>3, <2>1, <3>1, <3>3, <4>1, <4>2 DEF Replying, Handling, HdPhases
    <3>5. CASE n # 0
      <4>1. hd_phase' = "COLLECT"
        BY <3>1, <3>3, <3>5
      <4>2. Due(f)' = TheReply(f.flags, f.payload)
        BY <4>1 DEF Due
      <4>3. hd_received' = SubSeq(f.payload, 1, hd_taken')
        BY <1>0, <3>1
      <4> QED BY <1>3, <2>1, <3>3, <4>1, <4>2, <4>3 DEF Replying, Handling, HdPhases
    <3> QED BY <3>4, <3>5
  <2>2. CASE ~(received_frame_accepted /\ token_request)
    <3>1. hd_phase' = "IDLE"
      BY <1>3, <2>2, HandlerMoves
    <3> QED BY <1>3, <2>2, <3>1 DEF Replying, Handling, HdPhases
  <2> QED BY <2>1, <2>2
<1>4. hd_phase # "IDLE" => ~received_frame_accepted
  BY Wires
<1>5. CASE hd_phase = "COLLECT"
  <2>1. /\ rx_state = "OUTPUT_PAYLOAD"
        /\ hd_phase' = IF hd_taken + 1 = Length THEN "WORK" ELSE "COLLECT"
        /\ hd_taken' = hd_taken + 1 /\ hd_request_flags' = hd_request_flags
        /\ hd_received' = Append(hd_received, rx_payload_memory[hd_taken])
    BY <1>5, HandlerMoves
  <2>2. Length = n /\ \A i \in 0 .. n - 1 : rx_payload_memory[i] = f.payload[i + 1]
    BY <1>1, <2>1 DEF RxOutput
  <2>3. hd_taken \in Nat /\ hd_taken < n
    <3>1. hd_taken < hd_request_length /\ hd_request_length = Length /\ hd_taken \in Nat
      BY <1>2, <1>5 DEF HandlerOK, RoutingAgrees, Length
    <3> QED BY <2>2, <3>1
  <2>4. /\ f.type = TOKEN_REQUEST /\ hd_request_flags = f.flags
        /\ hd_received = SubSeq(f.payload, 1, hd_taken)
    BY <1>5 DEF Handling
  <2>5. rx_payload_memory[hd_taken] = f.payload[hd_taken + 1]
    <3> HIDE DEF n
    <3>1. hd_taken \in 0 .. n - 1
      BY <1>0, <2>3
    <3> QED BY <2>2, <3>1
  <2>6. hd_received' = SubSeq(f.payload, 1, hd_taken + 1)
    BY <1>0, <2>1, <2>3, <2>4, <2>5, Longer
  <2>7. CASE hd_taken + 1 = n
    <3>1. hd_phase' = "WORK" /\ hd_received' = f.payload /\ hd_request_flags' = f.flags
      BY <1>0, <2>1, <2>2, <2>3, <2>4, <2>6, <2>7, Longer
    <3>2. Due(f)' = TheReply(hd_request_flags', hd_received')
      BY <3>1 DEF Due
    <3>3. Due(f) = TheReply(f.flags, f.payload)
      BY <1>5 DEF Due
    <3> QED BY <1>4, <1>5, <3>1, <3>2, <3>3 DEF Replying, Handling, HdPhases
  <2>8. CASE hd_taken + 1 # n
    <3>1. hd_phase' = "COLLECT"
      BY <2>1, <2>2, <2>8
    <3>2. Due(f)' = Due(f)
      BY <1>5, <3>1 DEF Due
    <3> QED BY <1>4, <1>5, <2>1, <2>4, <2>6, <3>1, <3>2 DEF Replying, Handling, HdPhases
  <2> QED BY <2>7, <2>8
<1>6. CASE hd_phase = "WORK"
  <2>1. \/ /\ hd_phase' = "RESPONSE_HEADER"
           /\ hd_reply' \in Replies(hd_request_flags, hd_received)
        \/ UNCHANGED <<hd_phase, hd_request_flags, hd_received>>
    BY <1>6, HandlerMoves
  <2>2. Due(f) = TheReply(hd_request_flags, hd_received)
    BY <1>6 DEF Due
  <2>3. CASE /\ hd_phase' = "RESPONSE_HEADER"
             /\ hd_reply' \in Replies(hd_request_flags, hd_received)
    <3>1. /\ TheReply(hd_request_flags, hd_received) \in Frame
          /\ Replies(hd_request_flags, hd_received) = {TheReply(hd_request_flags, hd_received)}
      BY <1>2, OneReply DEF HandlerOK
    <3>2. hd_reply' = Due(f) /\ hd_reply' \in Frame
      BY <2>2, <2>3, <3>1
    <3>3. Due(f)' = hd_reply'
      BY <2>3 DEF Due
    <3> QED BY <1>4, <1>6, <2>3, <3>2, <3>3 DEF Replying, Handling, HdPhases
  <2>4. CASE UNCHANGED <<hd_phase, hd_request_flags, hd_received>>
    <3>1. Due(f)' = Due(f)
      BY <1>6, <2>4 DEF Due
    <3> QED BY <1>4, <1>6, <2>4, <3>1 DEF Replying, Handling, HdPhases
  <2> QED BY <2>1, <2>3, <2>4
<1>7. CASE hd_phase = "RESPONSE_HEADER"
  <2>1. /\ hd_phase' = IF tx_state = "IDLE" THEN "RESPONSE_PAYLOAD" ELSE "RESPONSE_HEADER"
        /\ UNCHANGED <<hd_reply, hd_replied>>
    BY <1>7, HandlerMoves
  <2>2. hd_phase' = "RESPONSE_HEADER" => Due(f)' = Due(f)
    BY <1>7, <2>1 DEF Due
  <2> QED BY <1>4, <1>7, <2>1, <2>2 DEF Replying, Handling, HdPhases
<1>8. CASE hd_phase = "RESPONSE_PAYLOAD"
  <2>1. \/ hd_phase' = "IDLE"
        \/ hd_phase' = "RESPONSE_PAYLOAD" /\ UNCHANGED hd_reply
    BY <1>8, HandlerMoves
  <2> QED BY <1>4, <1>8, <2>1 DEF Replying, Handling, HdPhases
<1> QED BY <1>2, <1>3, <1>5, <1>6, <1>7, <1>8 DEF HandlerOK, Phases

----------------------------------------------------------------------------
(* The transmitter: a frame leaves. *)

\* The engine takes the byte in the feed register, unless a result waits.
LEMMA TxEngine ==
  ASSUME TxTypes, NEW fv, NEW type, NEW fl, NEW length, NEW pv, NEW data, NEW ready,
         Tx!Clock(fv, type, fl, length, pv, data, ready)
  PROVE  /\ ~tx_crc_output_valid =>
              /\ tx_crc_state' = Fed
              /\ tx_crc_output_valid' <=> tx_crc_feed.valid /\ tx_crc_feed.last
              /\ tx_crc_output' = IF tx_crc_feed.valid /\ tx_crc_feed.last THEN CrcBytes(Fed)
                                  ELSE tx_crc_output
         /\ ~tx_crc_feed.valid =>
              /\ UNCHANGED <<tx_crc_state, tx_crc_output>>
              /\ tx_crc_output_valid' <=> tx_crc_output_valid /\ tx_state # "WAIT_CRC"
         /\ tx_crc_output' \in FourBytes /\ tx_crc_state' \in Crc
         /\ tx_crc_output_valid' \in BOOLEAN
<1> DEFINE fd == tx_crc_feed
           taken == tx_state = "WAIT_CRC"
<1>1. Tx!CRC!Clock(FALSE, fd.valid, fd.data, fd.start, fd.last, taken)
  BY DEF Tx!Clock, Tx!CrcClock, Tx!crc_result_ready
<1>2. /\ fd.valid \in BOOLEAN /\ fd.data \in Byte /\ fd.start \in BOOLEAN /\ fd.last \in BOOLEAN
      /\ tx_crc_state \in Crc /\ tx_crc_output \in FourBytes /\ tx_crc_output_valid \in BOOLEAN
  BY DEF TxTypes, Tx!Feed, Tx!Byte, Byte
<1> DEFINE c == CrcStep(Tx!CRC!PacketCrc(fd.start), fd.data)
<1>3. c \in Crc /\ CrcBytes(c) \in FourBytes
  <2>1. Tx!CRC!PacketCrc(fd.start) \in Crc
    BY <1>2, CrcAssumption DEF Tx!CRC!PacketCrc
  <2> HIDE DEF fd
  <2> QED BY <1>2, <2>1, CrcAssumption
<1>4. Fed = IF fd.valid THEN c ELSE tx_crc_state
  BY DEF Fed
<1> HIDE DEF fd, taken, c
<1>5. CASE fd.valid /\ (~tx_crc_output_valid \/ taken)
  <2>1. /\ tx_crc_state' = c /\ tx_crc_output_valid' = fd.last
        /\ tx_crc_output' = IF fd.last THEN CrcBytes(c) ELSE tx_crc_output
    BY <1>1, <1>5 DEF Tx!CRC!Clock, Tx!CRC!input_ready, Tx!CRC!Take, c
  <2> QED BY <1>2, <1>3, <1>4, <1>5, <2>1 DEF fd
<1>6. CASE ~(fd.valid /\ (~tx_crc_output_valid \/ taken))
  <2>1. /\ tx_crc_output_valid' = (tx_crc_output_valid /\ ~taken)
        /\ UNCHANGED <<tx_crc_state, tx_crc_output>>
    BY <1>1, <1>6 DEF Tx!CRC!Clock, Tx!CRC!input_ready, Tx!CRC!Rest
  <2> QED BY <1>2, <1>3, <1>4, <1>6, <2>1 DEF fd, taken
<1> QED BY <1>5, <1>6

\* The byte that leaves and is protected is fed.
LEMMA TxFeeds ==
  ASSUME TxTypes, NEW fv, NEW type, NEW fl, NEW length, NEW pv, NEW data, NEW ready \in BOOLEAN,
         Tx!Clock(fv, type, fl, length, pv, data, ready),
         NEW byte \in Byte, tx_state \in {"HEADER", "PAYLOAD"} => byte = Tx!out_data(data),
         tx_state = "PAYLOAD" => pv
  PROVE  /\ tx_crc_feed' \in Tx!Feed
         /\ tx_crc_feed'.valid <=> tx_state \in {"HEADER", "PAYLOAD"} /\ ready
         /\ tx_crc_feed'.valid => (tx_crc_feed'.last <=> Tx!LastProtected)
         /\ ~tx_crc_output_valid =>
              Fed' = IF tx_state \in {"HEADER", "PAYLOAD"} /\ ready
                     THEN CrcStep(IF tx_state = "HEADER" /\ tx_header_index = 0
                                  THEN CRC_INITIAL ELSE Fed, byte)
                     ELSE Fed
<1> DEFINE inside == tx_state \in {"HEADER", "PAYLOAD"}
           start == tx_state = "HEADER" /\ tx_header_index = 0
           fd == [valid |-> TRUE, data |-> byte, start |-> start, last |-> Tx!LastProtected]
           sent == Tx!out_valid(pv) /\ ready
<1>1. tx_crc_feed \in Tx!Feed
  BY DEF TxTypes
<1>2. ~tx_crc_output_valid => tx_crc_state' = Fed
  BY TxEngine
<1>3. CASE inside /\ ready
  <2>1. sent
    BY <1>3 DEF Tx!out_valid
  <2>2. tx_crc_feed' = fd
    BY <1>3, <2>1 DEF Tx!Clock, Tx!FeedNext
  <2>3. fd \in Tx!Feed
    BY DEF Tx!Feed, Tx!Byte, Byte, Tx!LastProtected
  <2>4. /\ tx_crc_feed'.valid /\ tx_crc_feed'.data = byte /\ (tx_crc_feed'.start <=> start)
        /\ tx_crc_feed'.last <=> Tx!LastProtected
    BY <2>2
  <2>5. Fed' = CrcStep(IF start THEN CRC_INITIAL ELSE tx_crc_state', byte)
    BY <2>4 DEF Fed, Tx!CRC!PacketCrc
  <2> HIDE DEF fd, sent
  <2> QED BY <1>2, <1>3, <2>2, <2>3, <2>4, <2>5
<1>4. CASE ~(inside /\ ready)
  <2>1. tx_crc_feed' = [tx_crc_feed EXCEPT !.valid = FALSE]
    BY <1>4 DEF Tx!Clock, Tx!FeedNext
  <2>2. tx_crc_feed' \in Tx!Feed /\ ~tx_crc_feed'.valid
    BY <1>1, <2>1 DEF Tx!Feed
  <2>3. Fed' = tx_crc_state'
    BY <2>2 DEF Fed
  <2> QED BY <1>2, <1>4, <2>2, <2>3
<1> QED BY <1>3, <1>4

\* The CRC bytes are what is left of a frame after the others.
LEMMA CrcLast ==
  ASSUME NEW f \in Frame, NEW r, IsRest(r, Encode(f), 8 + Len(f.payload))
  PROVE  r = CrcOver(Protected(f))
<1> DEFINE e == Encode(f)
           n == Len(f.payload)
           c == CrcOver(Protected(f))
<1>0. n \in Nat /\ e \in Seq(Byte) /\ Len(e) = 12 + n /\ c \in FourBytes
  BY FrameFacts
<1>1. \A i \in 1 .. 4 : e[8 + n + i] = c[i]
  BY EncodeBytes
<1>2. r = SubSeq(e, 8 + n + 1, 12 + n)
  BY <1>0, Zenon DEF IsRest
<1> DEFINE q == SubSeq(e, 8 + n + 1, 12 + n)
<1> HIDE DEF e, n, c
<1>3. q \in Seq(Byte) /\ Len(q) = 4 /\ \A i \in 1 .. 4 : q[i] = e[8 + n + i]
  BY <1>0
<1>4. c \in Seq(Byte) /\ Len(c) = 4
  <2>1. c \in [1 .. 4 -> Byte] /\ 4 \in Nat
    BY <1>0 DEF FourBytes
  <2> QED BY <2>1, FunctionIsSeq
<1> HIDE DEF q
<1>5. q = c
  BY <1>1, <1>3, <1>4
<1> QED BY <1>2, <1>5 DEF q, c

\* What is shown while a frame leaves is its next byte.
LEMMA TxShows ==
  ASSUME TxTypes, NEW f \in Frame, NEW k \in 0 .. 7 + Len(f.payload), Sending(f, k),
         NEW pv, NEW data, tx_state = "PAYLOAD" => pv /\ data = f.payload[k - 7]
  PROVE  /\ Tx!out_valid(pv) /\ Tx!out_data(data) = Encode(f)[k + 1] /\ Encode(f)[k + 1] \in Byte
         /\ tx_state = "SOF_0" <=> k = 0
         /\ tx_state = "SOF_1" <=> k = 1
         /\ tx_state = "HEADER" <=> k \in 2 .. 7
         /\ tx_state = "PAYLOAD" <=> k >= 8
         /\ k \in 2 .. 7 => tx_header_index = k - 2
         /\ k >= 2 => (Tx!LastProtected <=> k + 1 = 8 + Len(f.payload))
<1> DEFINE e == Encode(f)
           n == Len(f.payload)
<1>0. /\ n \in Nat /\ e \in Seq(Byte) /\ Len(e) = 12 + n /\ k \in 0 .. 7 + n
      /\ Value(Pair(n)) = n
  BY FrameFacts
<1>1. /\ e[1] = FRAME_SOF_0 /\ e[2] = FRAME_SOF_1 /\ e[3] = FRAME_VERSION
      /\ e[4] = f.type /\ e[5] = f.flags[1] /\ e[6] = f.flags[2]
      /\ e[7] = Pair(n)[1] /\ e[8] = Pair(n)[2]
      /\ \A i \in 1 .. n : e[8 + i] = f.payload[i]
  BY EncodePlaces
<1>2. /\ tx_message_type = f.type /\ tx_flags = f.flags /\ tx_payload_length = Pair(n)
      /\ TxAt(f, k)
  BY DEF Sending
<1>3. e[k + 1] \in Byte
  <2> HIDE DEF e, n
  <2> QED BY <1>0
<1>4. CASE k < 2
  <2>0. k = 0 \/ k = 1
    BY <1>0, <1>4
  <2>1. tx_state = <<"SOF_0", "SOF_1">>[k + 1]
    BY <1>2, <1>4, Zenon DEF TxAt
  <2>2. \/ k = 0 /\ tx_state = "SOF_0"
        \/ k = 1 /\ tx_state = "SOF_1"
    BY <2>0, <2>1
  <2> HIDE DEF e, n
  <2> QED BY <1>0, <1>1, <1>3, <1>4, <2>2 DEF Tx!out_valid, Tx!out_data, e
<1>5. CASE k \in 2 .. 7
  <2>1. ~(k < 2) /\ k < 8
    BY <1>5
  <2>2. tx_state = "HEADER" /\ tx_header_index = k - 2
    BY <1>2, <2>1, Zenon DEF TxAt
  <2>3. Tx!LastProtected <=> k = 7 /\ n = 0
    BY <1>0, <1>2, <1>5, <2>2, SameValue DEF Tx!LastProtected
  <2>4. Tx!header_byte = e[k + 1]
    <3>1. Tx!header_byte = <<FRAME_VERSION, f.type, f.flags[1], f.flags[2],
                             Pair(n)[1], Pair(n)[2]>>[k - 2 + 1]
      BY <1>2, <2>2, Zenon DEF Tx!header_byte
    <3> HIDE DEF e, n
    <3> QED BY <1>1, <1>5, <3>1
  <2> HIDE DEF e, n
  <2>5. k + 1 = 8 + n <=> k = 7 /\ n = 0
    BY <1>0, <1>5
  <2> QED BY <1>0, <1>3, <1>5, <2>2, <2>3, <2>4, <2>5 DEF Tx!out_valid, Tx!out_data, e, n
<1>6. CASE k >= 8
  <2>1. ~(k < 2) /\ ~(k < 8)
    BY <1>6
  <2>2. tx_state = "PAYLOAD" /\ tx_payload_remaining = n - (k - 8)
    BY <1>2, <2>1, Zenon DEF TxAt
  <2>3. Tx!LastProtected <=> tx_payload_remaining = 1
    BY <2>2 DEF Tx!LastProtected
  <2>4. data = e[k + 1]
    <3>1. data = f.payload[k - 7]
      BY <2>2
    <3> HIDE DEF e, n
    <3>2. k - 7 \in 1 .. n /\ 8 + (k - 7) = k + 1
      BY <1>0, <1>6
    <3> QED BY <1>1, <3>1, <3>2
  <2>5. n - (k - 8) = 1 <=> k + 1 = 8 + n
    <3> HIDE DEF e, n
    <3> QED BY <1>0, <1>6
  <2>6. pv
    BY <2>2
  <2> HIDE DEF e, n
  <2> QED BY <1>0, <1>3, <1>6, <2>2, <2>3, <2>4, <2>5, <2>6 DEF Tx!out_valid, Tx!out_data, e, n
<1> QED BY <1>0, <1>4, <1>5, <1>6

\* An edge of the state machine of the transmitter while it sends.
LEMMA TxAdvances ==
  ASSUME TxTypes, NEW f \in Frame, NEW k \in 0 .. 7 + Len(f.payload), Sending(f, k),
         NEW fv, NEW type, NEW fl, NEW length, NEW pv, NEW data, NEW ready \in BOOLEAN,
         tx_state = "PAYLOAD" => pv /\ data = f.payload[k - 7],
         Tx!Clock(fv, type, fl, length, pv, data, ready)
  PROVE  /\ tx_header_index' \in 0 .. 5 /\ UNCHANGED tx_crc_index
         /\ UNCHANGED <<tx_message_type, tx_flags, tx_payload_length>>
         /\ IF ~ready THEN TxAt(f, k)'
            ELSE IF k + 1 < 8 + Len(f.payload) THEN TxAt(f, k + 1)' ELSE tx_state' = "WAIT_CRC"
<1> DEFINE n == Len(f.payload)
<1>0. n \in Nat /\ k \in 0 .. 7 + n /\ Value(Pair(n)) = n
  BY FrameFacts
<1>1. /\ Tx!out_valid(pv)
      /\ tx_state = "SOF_0" <=> k = 0
      /\ tx_state = "SOF_1" <=> k = 1
      /\ tx_state = "HEADER" <=> k \in 2 .. 7
      /\ tx_state = "PAYLOAD" <=> k >= 8
      /\ k \in 2 .. 7 => tx_header_index = k - 2
  BY TxShows
<1>2. TxAt(f, k) /\ tx_payload_length = Pair(n)
  BY DEF Sending
<1>3. tx_state \in {"SOF_0", "SOF_1", "HEADER", "PAYLOAD"} /\ tx_header_index \in 0 .. 5
  BY <1>0, <1>1 DEF TxTypes
<1>4. IF ready THEN Tx!StartOfFrame \/ Tx!Header \/ Tx!Payload ELSE Tx!Stall
  BY <1>1, <1>3 DEF Tx!Clock, Tx!frame_ready, Tx!crc_result_ready, Tx!CrcByte
<1>5. CASE ~ready
  <2>1. UNCHANGED <<tx_state, tx_header_index, tx_crc_index, tx_message_type, tx_flags,
                    tx_payload_length, tx_payload_remaining>>
    BY <1>4, <1>5 DEF Tx!Stall, Tx!frame
  <2> QED BY <1>2, <1>3, <1>5, <2>1 DEF TxAt
<1>6. CASE ready
  <2>0. /\ UNCHANGED <<tx_crc_index, tx_message_type, tx_flags, tx_payload_length>>
    BY <1>4, <1>6 DEF Tx!StartOfFrame, Tx!Header, Tx!Payload, Tx!frame
  <2>1. CASE k = 0
    <3>1. tx_state' = "SOF_1" /\ UNCHANGED <<tx_header_index, tx_payload_remaining>>
      BY <1>1, <1>4, <1>6, <2>1 DEF Tx!StartOfFrame, Tx!Header, Tx!Payload, Tx!Goto
    <3>2. tx_payload_remaining = n
      BY <1>2, <2>1 DEF TxAt
    <3>3. TxAt(f, k + 1)'
      BY <1>0, <2>1, <3>1, <3>2 DEF TxAt
    <3> QED BY <1>0, <1>3, <1>6, <2>0, <2>1, <3>1, <3>3
  <2>2. CASE k = 1
    <3>1. tx_state' = "HEADER" /\ tx_header_index' = 0 /\ UNCHANGED tx_payload_remaining
      BY <1>1, <1>4, <1>6, <2>2 DEF Tx!StartOfFrame, Tx!Header, Tx!Payload, Tx!Goto
    <3>2. tx_payload_remaining = n
      BY <1>2, <2>2 DEF TxAt
    <3>3. TxAt(f, k + 1)'
      BY <1>0, <2>2, <3>1, <3>2 DEF TxAt
    <3> QED BY <1>0, <1>6, <2>0, <2>2, <3>1, <3>3
  <2>3. CASE k \in 2 .. 6
    <3>1. tx_header_index = k - 2 /\ tx_header_index # 5 /\ tx_state = "HEADER"
      BY <1>1, <2>3
    <3>2. tx_state' = "HEADER" /\ tx_header_index' = tx_header_index + 1
          /\ UNCHANGED tx_payload_remaining
      BY <1>4, <1>6, <3>1 DEF Tx!StartOfFrame, Tx!Header, Tx!Payload, Tx!Goto
    <3>3. tx_payload_remaining = n
      BY <1>2, <2>3 DEF TxAt
    <3> DEFINE m == k + 1
    <3>4. m \in 3 .. 7 /\ tx_header_index' = m - 2 /\ m < 8 + n
      BY <1>0, <2>3, <3>1, <3>2
    <3> HIDE DEF m
    <3>5. ~(m < 2) /\ m < 8
      BY <3>4
    <3>6. TxAt(f, m)'
      BY <3>2, <3>3, <3>4, <3>5, Zenon DEF TxAt, n
    <3>7. tx_header_index' \in 0 .. 5
      BY <3>4
    <3> QED BY <1>6, <2>0, <3>4, <3>6, <3>7 DEF m
  <2>4. CASE k = 7
    <3>1. tx_header_index = 5 /\ tx_state = "HEADER"
      BY <1>1, <2>4
    <3>2. /\ tx_state' = IF n = 0 THEN "WAIT_CRC" ELSE "PAYLOAD"
          /\ UNCHANGED <<tx_header_index, tx_payload_remaining>>
      BY <1>0, <1>2, <1>4, <1>6, <3>1, SameValue
         DEF Tx!StartOfFrame, Tx!Header, Tx!Payload, Tx!Goto
    <3>3. tx_payload_remaining = n
      BY <1>2, <2>4 DEF TxAt
    <3>4. n # 0 => TxAt(f, 8)'
      <4>1. n - (8 - 8) = n /\ (n # 0 => 8 < 8 + n) /\ ~(8 < 2) /\ ~(8 < 8)
        BY <1>0
      <4> QED BY <3>2, <3>3, <4>1, Zenon DEF TxAt, n
    <3> QED BY <1>0, <1>3, <1>6, <2>0, <2>4, <3>2, <3>4
  <2>5. CASE k >= 8
    <3>1. tx_state = "PAYLOAD"
      BY <1>1, <2>5
    <3>2. /\ tx_payload_remaining' = tx_payload_remaining - 1
          /\ tx_state' = IF tx_payload_remaining = 1 THEN "WAIT_CRC" ELSE "PAYLOAD"
          /\ UNCHANGED tx_header_index
      BY <1>4, <1>6, <3>1 DEF Tx!StartOfFrame, Tx!Header, Tx!Payload, Tx!Goto
    <3>3. tx_payload_remaining = n - (k - 8)
      <4>1. ~(k < 8)
        BY <2>5
      <4> QED BY <1>2, <4>1, Zenon DEF TxAt
    <3> DEFINE m == k + 1
    <3>4. /\ tx_payload_remaining' = n - (m - 8) /\ ~(m < 2) /\ ~(m < 8)
          /\ tx_payload_remaining = 1 <=> ~(m < 8 + n)
      <4> HIDE DEF n
      <4> QED BY <1>0, <2>5, <3>2, <3>3
    <3> HIDE DEF m
    <3>5. m < 8 + n => TxAt(f, m)'
      BY <3>2, <3>4, Zenon DEF TxAt, n
    <3> QED BY <1>3, <1>6, <2>0, <3>2, <3>4, <3>5 DEF m
  <2> QED BY <1>0, <2>1, <2>2, <2>3, <2>4, <2>5
<1> QED BY <1>5, <1>6

\* One more byte of a frame leaves, or none when the wire stalls; after the last
\* protected byte the CRC is on its way.
LEMMA TxMore ==
  ASSUME TxTypes, NEW f \in Frame, NEW k \in 0 .. 7 + Len(f.payload), Sending(f, k),
         NEW fv, NEW type, NEW fl, NEW length, NEW pv, NEW data, NEW ready \in BOOLEAN,
         tx_state = "PAYLOAD" => pv /\ data = f.payload[k - 7],
         Tx!Clock(fv, type, fl, length, pv, data, ready)
  PROVE  /\ TxTypes'
         /\ IF ~ready THEN Sending(f, k)'
            ELSE IF k + 1 < 8 + Len(f.payload) THEN Sending(f, k + 1)'
            ELSE tx_state' = "WAIT_CRC" /\ Closing(CrcOver(Protected(f)))'
<1> DEFINE n == Len(f.payload)
           p == Protected(f)
           byte == Encode(f)[k + 1]
           inside == tx_state \in {"HEADER", "PAYLOAD"}
<1>0. n \in Nat /\ k \in 0 .. 7 + n
  BY FrameFacts
<1>1. /\ Tx!out_data(data) = byte /\ byte \in Byte
      /\ inside <=> k >= 2
      /\ tx_state = "HEADER" <=> k \in 2 .. 7
      /\ k \in 2 .. 7 => tx_header_index = k - 2
      /\ k >= 2 => (Tx!LastProtected <=> k + 1 = 8 + n)
  <2>1. /\ Tx!out_data(data) = byte /\ byte \in Byte
        /\ tx_state = "HEADER" <=> k \in 2 .. 7
        /\ tx_state = "PAYLOAD" <=> k >= 8
        /\ k \in 2 .. 7 => tx_header_index = k - 2
        /\ k >= 2 => (Tx!LastProtected <=> k + 1 = 8 + n)
    BY TxShows
  <2> HIDE DEF n, byte
  <2> QED BY <1>0, <2>1
<1>2. /\ tx_header_index' \in 0 .. 5 /\ UNCHANGED tx_crc_index
      /\ UNCHANGED <<tx_message_type, tx_flags, tx_payload_length>>
      /\ IF ~ready THEN TxAt(f, k)'
         ELSE IF k + 1 < 8 + n THEN TxAt(f, k + 1)' ELSE tx_state' = "WAIT_CRC"
  BY TxAdvances
<1>3. /\ tx_message_type = f.type /\ tx_flags = f.flags /\ tx_payload_length = Pair(n)
      /\ ~tx_crc_output_valid
      /\ tx_crc_feed.valid => k >= 3 /\ ~tx_crc_feed.last
      /\ k >= 3 => Fed = CrcAfter(SubSeq(p, 1, k - 2))
  BY DEF Sending
<1>4. /\ ~tx_crc_output_valid' /\ tx_crc_output' \in FourBytes /\ tx_crc_state' \in Crc
      /\ tx_crc_output_valid' \in BOOLEAN
  BY <1>3, TxEngine
<1>5. tx_state = "PAYLOAD" => pv
  OBVIOUS
<1>6. /\ tx_crc_feed' \in Tx!Feed
      /\ tx_crc_feed'.valid <=> inside /\ ready
      /\ tx_crc_feed'.valid => (tx_crc_feed'.last <=> Tx!LastProtected)
      /\ Fed' = IF inside /\ ready
                THEN CrcStep(IF tx_state = "HEADER" /\ tx_header_index = 0
                             THEN CRC_INITIAL ELSE Fed, byte)
                ELSE Fed
  BY <1>1, <1>3, <1>5, TxFeeds
<1>7. TxTypes'
  BY <1>2, <1>4, <1>6 DEF TxTypes
<1>8. CASE ~ready
  <2>1. ~tx_crc_feed'.valid /\ Fed' = Fed /\ TxAt(f, k)'
    BY <1>2, <1>6, <1>8
  <2>2. Sending(f, k)'
    BY <1>2, <1>3, <1>4, <2>1 DEF Sending
  <2> QED BY <1>7, <1>8, <2>2
<1>9. ASSUME k >= 2, ready
      PROVE  Fed' = CrcAfter(SubSeq(p, 1, k - 1)) /\ SubSeq(p, 1, 6 + n) = p
  <2>1. k \in 2 .. 7 + n
    <3> HIDE DEF n
    <3> QED BY <1>0, <1>9
  <2>2. /\ CrcAfter(SubSeq(p, 1, k - 1)) = CrcStep(IF k = 2 THEN CRC_INITIAL ELSE Fed, byte)
        /\ SubSeq(p, 1, 6 + n) = p
    BY <1>3, <2>1, CrcMore
  <2>3. (tx_state = "HEADER" /\ tx_header_index = 0) <=> k = 2
    <3> HIDE DEF n, byte
    <3> QED BY <1>0, <1>1, <2>1
  <2>4. Fed' = CrcStep(IF tx_state = "HEADER" /\ tx_header_index = 0
                       THEN CRC_INITIAL ELSE Fed, byte)
    BY <1>1, <1>6, <1>9
  <2>5. Fed' = CrcStep(IF k = 2 THEN CRC_INITIAL ELSE Fed, byte)
    BY <2>3, <2>4, Zenon
  <2> QED BY <2>2, <2>5
<1>10. CASE ready /\ k + 1 < 8 + n
  <2>1. TxAt(f, k + 1)'
    BY <1>2, <1>10
  <2>2. k + 1 >= 3 <=> k >= 2
    BY <1>0
  <2>3. tx_crc_feed'.valid => k + 1 >= 3 /\ ~tx_crc_feed'.last
    BY <1>0, <1>1, <1>6, <1>10, <2>2
  <2>4. k + 1 >= 3 => Fed' = CrcAfter(SubSeq(p, 1, (k + 1) - 2))
    <3>1. (k + 1) - 2 = k - 1
      BY <1>0
    <3> QED BY <1>9, <1>10, <2>2, <3>1, Zenon
  <2>5. Sending(f, k + 1)'
    BY <1>2, <1>3, <1>4, <2>1, <2>3, <2>4, Zenon DEF Sending, n, p
  <2> QED BY <1>7, <1>10, <2>5
<1>11. CASE ready /\ ~(k + 1 < 8 + n)
  <2>1. k + 1 = 8 + n /\ k >= 2 /\ k - 1 = 6 + n
    <3> HIDE DEF n
    <3> QED BY <1>0, <1>11
  <2>2. tx_state' = "WAIT_CRC"
    BY <1>2, <1>11
  <2>3. tx_crc_feed'.valid /\ tx_crc_feed'.last
    BY <1>1, <1>6, <1>11, <2>1
  <2>4. Fed' = CrcAfter(p)
    BY <1>9, <1>11, <2>1, Zenon
  <2>5. CrcOver(p) = CrcBytes(Fed') /\ CrcOver(p) \in FourBytes
    BY <2>4, FrameFacts DEF CrcOver
  <2>6. Closing(CrcOver(p))'
    BY <1>4, <2>2, <2>3, <2>5 DEF Closing
  <2> QED BY <1>7, <1>11, <2>2, <2>6
<1> QED BY <1>8, <1>10, <1>11

\* What is shown while the CRC leaves is its next byte.
LEMMA TxShowsCrc ==
  ASSUME TxTypes, NEW rest, Closing(rest), NEW pv, NEW data
  PROVE  /\ rest \in Seq(Byte) /\ rest # << >> /\ Tail(rest) \in Seq(Byte)
         /\ tx_state = "WAIT_CRC" => ~Tx!out_valid(pv)
         /\ tx_state = "CRC" =>
              /\ Tx!out_valid(pv) /\ Tx!out_data(data) = Head(rest)
              /\ Len(rest) = 1 <=> tx_crc_index = 3
              /\ IsRest(Tail(rest), tx_crc_output, tx_crc_index + 1)
<1> DEFINE c == tx_crc_output
           i == tx_crc_index
<1>1. CASE tx_state = "WAIT_CRC" /\ rest \in FourBytes
  <2>1. rest \in Seq(Byte) /\ Len(rest) = 4
    <3>1. rest \in [1 .. 4 -> Byte] /\ 4 \in Nat
      BY <1>1 DEF FourBytes
    <3> QED BY <3>1, FunctionIsSeq
  <2>2. rest # << >> /\ Tail(rest) \in Seq(Byte)
    BY <2>1, NotEmpty, FirstAndRest
  <2> QED BY <1>1, <2>1, <2>2 DEF Tx!out_valid
<1>2. CASE tx_state = "CRC" /\ IsRest(rest, tx_crc_output, tx_crc_index)
  <2>1. c \in Seq(Byte) /\ Len(c) = 4 /\ i \in 0 .. 3
    <3>1. c \in [1 .. 4 -> Byte] /\ 4 \in Nat /\ i \in 0 .. 3
      BY DEF TxTypes, FourBytes
    <3> HIDE DEF c, i
    <3> QED BY <3>1, FunctionIsSeq
  <2> HIDE DEF c, i
  <2>2. c \in Seq(Byte) /\ i \in Nat /\ i < Len(c)
    BY <2>1
  <2>3. IsRest(rest, c, i)
    BY <1>2 DEF c, i
  <2>4. /\ rest \in Seq(Byte) /\ Len(rest) = Len(c) - i /\ rest # << >>
        /\ Head(rest) = c[i + 1]
        /\ Tail(rest) \in Seq(Byte) /\ IsRest(Tail(rest), c, i + 1)
    BY ONLY <2>2, <2>3, RestOf
  <2>5. Len(rest) = 1 <=> i = 3
    BY <2>1, <2>4
  <2>6. Tx!out_valid(pv) /\ Tx!out_data(data) = Head(rest)
    BY <1>2, <2>4 DEF Tx!out_valid, Tx!out_data, c, i
  <2> QED BY <1>2, <2>4, <2>5, <2>6 DEF c, i
<1> QED BY <1>1, <1>2 DEF Closing

\* The CRC leaves, when the engine has it, in four bytes.
LEMMA TxCloses ==
  ASSUME TxTypes, NEW rest, Closing(rest),
         NEW fv, NEW type, NEW fl, NEW length, NEW pv, NEW data, NEW ready \in BOOLEAN,
         Tx!Clock(fv, type, fl, length, pv, data, ready)
  PROVE  /\ TxTypes'
         /\ rest \in Seq(Byte) /\ rest # << >> /\ Tail(rest) \in Seq(Byte)
         /\ Tx!out_valid(pv) => Tx!out_data(data) = Head(rest)
         /\ IF ~(Tx!out_valid(pv) /\ ready)
            THEN tx_state' \in {"WAIT_CRC", "CRC"} /\ Closing(rest)'
            ELSE IF Len(rest) = 1 THEN TxResting'
            ELSE tx_state' \in {"WAIT_CRC", "CRC"} /\ Closing(Tail(rest))'
<1> DEFINE c == tx_crc_output
           i == tx_crc_index
           sent == Tx!out_valid(pv) /\ ready
<1>0. c \in FourBytes /\ i \in 0 .. 3
  BY DEF TxTypes
<1>1. /\ ~tx_crc_output_valid =>
           /\ tx_crc_output_valid' <=> tx_crc_feed.valid /\ tx_crc_feed.last
           /\ tx_crc_output' = IF tx_crc_feed.valid /\ tx_crc_feed.last THEN CrcBytes(Fed)
                               ELSE tx_crc_output
      /\ ~tx_crc_feed.valid =>
           /\ UNCHANGED tx_crc_output
           /\ tx_crc_output_valid' <=> tx_crc_output_valid /\ tx_state # "WAIT_CRC"
      /\ tx_crc_output' \in FourBytes /\ tx_crc_state' \in Crc
      /\ tx_crc_output_valid' \in BOOLEAN
  BY TxEngine
<1>2. tx_state \notin {"HEADER", "PAYLOAD"}
  BY DEF Closing
<1>3. /\ tx_crc_feed' \in Tx!Feed /\ ~tx_crc_feed'.valid
  <2>1. 0 \in Byte
    BY ByteAssumption DEF Byte
  <2> QED BY <1>2, <2>1, TxFeeds
<1>4. UNCHANGED tx_header_index /\ tx_crc_index' \in 0 .. 3
  BY <1>0, <1>2 DEF Closing, Tx!Clock, Tx!frame_ready, Tx!crc_result_ready, Tx!StartOfFrame,
       Tx!Header, Tx!Payload, Tx!WaitCrc, Tx!CrcByte, Tx!Stall
<1>5. TxTypes'
  BY <1>1, <1>3, <1>4 DEF TxTypes
<1>6. CASE /\ tx_state = "WAIT_CRC" /\ rest \in FourBytes
           /\ IF tx_crc_output_valid
              THEN ~tx_crc_feed.valid /\ rest = tx_crc_output
              ELSE tx_crc_feed.valid /\ tx_crc_feed.last /\ rest = CrcBytes(Fed)
  <2>1. rest \in Seq(Byte) /\ rest # << >> /\ Tail(rest) \in Seq(Byte) /\ ~Tx!out_valid(pv)
    BY <1>6, TxShowsCrc
  <2>4. Tx!WaitCrc
    BY <1>6 DEF Tx!Clock, Tx!frame_ready, Tx!crc_result_ready
  <2>5. CASE tx_crc_output_valid
    <3>1. tx_state' = "CRC" /\ tx_crc_index' = 0
      BY <2>4, <2>5 DEF Tx!WaitCrc, Tx!Goto
    <3>2. tx_crc_output' = rest /\ ~tx_crc_output_valid'
      BY <1>1, <1>6, <2>5
    <3>3. IsRest(rest, tx_crc_output', 0)
      <4>1. SubSeq(rest, 1, Len(rest)) = rest
        BY <2>1
      <4>2. 0 + 1 = 1
        OBVIOUS
      <4> QED BY <3>2, <4>1, <4>2, Zenon DEF IsRest
    <3>4. Closing(rest)'
      BY <1>3, <3>1, <3>2, <3>3 DEF Closing
    <3> QED BY <1>5, <2>1, <3>1, <3>4
  <2>6. CASE ~tx_crc_output_valid
    <3>1. tx_state' = "WAIT_CRC"
      BY <1>6, <2>4, <2>6 DEF Tx!WaitCrc
    <3>2. tx_crc_output_valid' /\ tx_crc_output' = rest
      BY <1>1, <1>6, <2>6
    <3>3. Closing(rest)'
      BY <1>3, <1>6, <3>1, <3>2 DEF Closing
    <3> QED BY <1>5, <2>1, <3>1, <3>3
  <2> QED BY <2>5, <2>6
<1>7. CASE /\ tx_state = "CRC" /\ ~tx_crc_output_valid /\ ~tx_crc_feed.valid
           /\ tx_crc_index \in 0 .. 3 /\ IsRest(rest, tx_crc_output, tx_crc_index)
  <2>2. /\ rest \in Seq(Byte) /\ rest # << >> /\ Tail(rest) \in Seq(Byte)
        /\ Tx!out_valid(pv) /\ Tx!out_data(data) = Head(rest)
        /\ Len(rest) = 1 <=> i = 3
        /\ IsRest(Tail(rest), c, i + 1)
    BY <1>7, TxShowsCrc
  <2>4. tx_crc_output' = c /\ ~tx_crc_output_valid'
    BY <1>1, <1>7
  <2>3. i \in 0 .. 3 /\ IsRest(rest, c, i)
    BY <1>7
  <2> HIDE DEF c, i
  <2>6. CASE ~ready
    <3>1. UNCHANGED <<tx_state, tx_crc_index>>
      BY <1>7, <2>6 DEF Tx!Clock, Tx!frame_ready, Tx!crc_result_ready, Tx!Stall
    <3>2. Closing(rest)'
      BY <1>3, <1>7, <2>3, <2>4, <3>1 DEF Closing, c, i
    <3> QED BY <1>5, <1>7, <2>2, <2>3, <2>6, <3>1, <3>2
  <2>7. CASE ready
    <3>1. Tx!CrcByte
      BY <1>7, <2>2, <2>7 DEF Tx!Clock, Tx!frame_ready, Tx!crc_result_ready,
           Tx!StartOfFrame, Tx!Header, Tx!Payload
    <3>2. CASE i = 3
      <4>1. tx_state' = "IDLE"
        BY <3>1, <3>2 DEF Tx!CrcByte, Tx!Goto, i
      <4> QED BY <1>3, <1>5, <2>2, <2>4, <2>7, <3>2, <4>1 DEF TxResting
    <3>3. CASE i # 3
      <4>1. tx_state' = "CRC" /\ tx_crc_index' = i + 1 /\ i + 1 \in 0 .. 3
        BY <1>7, <2>3, <3>1, <3>3 DEF Tx!CrcByte, Tx!Goto, i
      <4>2. Closing(Tail(rest))'
        BY <1>3, <2>2, <2>4, <4>1 DEF Closing
      <4> QED BY <1>5, <2>2, <2>7, <3>3, <4>1, <4>2
    <3> QED BY <3>2, <3>3
  <2> QED BY <2>6, <2>7
<1> QED BY <1>6, <1>7 DEF Closing

----------------------------------------------------------------------------
(* The wire: what is in front leaves. *)

\* The registers of transmitter and handler tell how much of a frame has left.
LEMMA LeftNext ==
  ASSUME RoutingInv', NEW f \in Frame, f = Job', NEW m \in Nat, TxAt(f, m)'
  PROVE  TxLeft' = m /\ tx_state' \in TxHeading \cup {"PAYLOAD"}
<1> DEFINE n == Len(f.payload)
<1>0. n \in Nat
  BY FrameFacts
<1>1. CASE m < 2
  <2>1. tx_state' = <<"SOF_0", "SOF_1">>[m + 1]
    BY <1>1, Zenon DEF TxAt
  <2>2. \/ m = 0 /\ tx_state' = "SOF_0"
        \/ m = 1 /\ tx_state' = "SOF_1"
    BY <1>1, <2>1
  <2> QED BY <2>2 DEF TxLeft, TxHeading
<1>2. CASE m \in 2 .. 7
  <2>1. ~(m < 2) /\ m < 8
    BY <1>2
  <2>2. tx_state' = "HEADER" /\ tx_header_index' = m - 2
    BY <2>1, Zenon DEF TxAt
  <2>3. TxLeft' = 2 + tx_header_index'
    BY <2>2 DEF TxLeft
  <2> QED BY <1>2, <2>2, <2>3 DEF TxHeading
<1>3. CASE m >= 8
  <2>1. ~(m < 2) /\ ~(m < 8)
    BY <1>3
  <2>2. tx_state' = "PAYLOAD" /\ tx_payload_remaining' = n - (m - 8)
    BY <2>1, Zenon DEF TxAt
  <2>3. /\ hd_phase' = "RESPONSE_PAYLOAD" /\ hd_replied' \in Nat
        /\ tx_payload_remaining' = Len(hd_reply'.payload) - hd_replied'
    BY <2>2 DEF RoutingInv, RoutingAgrees, HandlerOK
  <2>4. f = hd_reply'
    BY <2>3 DEF Job
  <2>5. TxLeft' = 8 + hd_replied'
    BY <2>2 DEF TxLeft
  <2>6. n - hd_replied' = n - (m - 8)
    BY <2>2, <2>3, <2>4
  <2> HIDE DEF n
  <2>7. 8 + hd_replied' = m
    <3> DEFINE i == hd_replied'
    <3>1. i \in Nat /\ n - i = n - (m - 8)
      BY <2>3, <2>6
    <3> HIDE DEF i
    <3>2. 8 + i = m
      BY <1>0, <1>3, <3>1
    <3> QED BY <3>2 DEF i
  <2> QED BY <2>2, <2>5, <2>7
<1> QED BY <1>1, <1>2, <1>3

\* The frame on the wire is the same until its payload has left.
LEMMA JobStays ==
  ASSUME RoutingInv, NEW f, f = Job, tx_state # "IDLE",
         NEW iv, NEW b, NEW out_ready \in BOOLEAN, NEW done, Clock(iv, b, out_ready, done),
         ~(tx_state = "PAYLOAD" /\ out_ready /\ hd_replied + 1 = Len(hd_reply.payload))
  PROVE  f = Job'
<1>1. hd_phase \in Phases
  BY DEF RoutingInv, HandlerOK
<1>2. CASE hd_phase = "RESPONSE_PAYLOAD"
  <2>1. hd_phase' = "RESPONSE_PAYLOAD" /\ hd_reply' = hd_reply
    BY <1>2, HandlerMoves
  <2> QED BY <1>2, <2>1 DEF Job
<1>3. CASE hd_phase # "RESPONSE_PAYLOAD"
  <2>1. hd_phase' # "RESPONSE_PAYLOAD"
    <3>1. hd_phase = "IDLE" => hd_phase' # "RESPONSE_PAYLOAD"
      BY HandlerMoves
    <3>2. hd_phase = "COLLECT" => hd_phase' # "RESPONSE_PAYLOAD"
      BY HandlerMoves
    <3>3. hd_phase = "WORK" => hd_phase' # "RESPONSE_PAYLOAD"
      BY HandlerMoves
    <3>4. hd_phase = "RESPONSE_HEADER" => hd_phase' # "RESPONSE_PAYLOAD"
      BY HandlerMoves
    <3> QED BY <1>1, <1>3, <3>1, <3>2, <3>3, <3>4 DEF Phases
  <2> QED BY <1>3, <2>1 DEF Job, Pong, Ping
<1> QED BY <1>2, <1>3

LEMMA EmptyFrame ==
  ASSUME NEW type \in Byte
  PROVE  [type |-> type, flags |-> <<0, 0>>, payload |-> << >>] \in Frame
<1>1. 0 \in Byte /\ 0 \in 0 .. MAX_PAYLOAD_BYTES
  BY ByteAssumption, PayloadAssumption DEF Byte
<1>2. <<0, 0>> \in TwoBytes
  BY <1>1 DEF TwoBytes
<1>3. << >> \in UNION {[1 .. n -> Byte] : n \in 0 .. MAX_PAYLOAD_BYTES}
  <2>1. << >> \in [1 .. 0 -> Byte]
    OBVIOUS
  <2> QED BY <1>1, <2>1
<1> QED BY <1>2, <1>3 DEF Frame

LEMMA PingIsFrame == Ping \in Frame
<1>1. PING \in Byte
  BY TypesAssumption
<1> QED BY <1>1, EmptyFrame DEF Ping

LEMMA PongIsFrame == Pong \in Frame /\ Pong.type = PONG /\ Pong.flags = <<0, 0>> /\ Pong.payload = << >>
<1>1. PONG \in Byte
  BY TypesAssumption
<1>2. Pong = [type |-> PONG, flags |-> <<0, 0>>, payload |-> << >>]
  BY DEF Pong, Ping
<1> HIDE DEF Pong
<1> QED BY <1>1, <1>2, EmptyFrame

\* How far the transmitter is in the frame on the wire, and what it shows of it.
LEMMA FrontSends ==
  ASSUME RoutingInv, TxTypes, Replying, tx_state \in TxHeading \cup {"PAYLOAD"},
         NEW f, f = Job, NEW k, k = TxLeft, Sending(f, k), NEW rest, IsRest(rest, Encode(f), k)
  PROVE  /\ f \in Frame /\ k \in 0 .. 7 + Len(f.payload)
         /\ tx_state = "PAYLOAD" =>
              /\ Handler!response_payload_valid /\ TxPayload = f.payload[k - 7]
              /\ hd_replied + 1 = Len(hd_reply.payload) => ~(k + 1 < 8 + Len(f.payload))
         /\ out_valid /\ out_data = Head(rest)
         /\ rest \in Seq(Byte) /\ rest # << >> /\ Len(rest) = (12 + Len(f.payload)) - k
         /\ IsRest(Tail(rest), Encode(f), k + 1)
<1> DEFINE pv == Handler!response_payload_valid
           data == TxPayload
           n == Len(f.payload)
           e == Encode(f)
<1>1. /\ f = Job /\ k = TxLeft /\ Sending(f, k) /\ IsRest(rest, Encode(f), k)
      /\ tx_state \in TxHeading \cup {"PAYLOAD"}
  OBVIOUS
<1>2. f \in Frame
  BY <1>1, PongIsFrame DEF Job, Replying
<1>3. n \in Nat /\ e \in Seq(Byte) /\ Len(e) = 12 + n /\ CrcOver(Protected(f)) \in FourBytes
  BY <1>2, FrameFacts
<1>4. k < 8 + n /\ tx_payload_remaining = IF k < 8 THEN n ELSE n - (k - 8)
  BY <1>1 DEF Sending, TxAt
<1>5. k \in Nat
  <2>1. hd_replied \in Nat /\ tx_header_index \in Nat
    BY DEF RoutingInv, HandlerOK, TxTypes
  <2> QED BY <1>1, <2>1 DEF TxLeft, TxHeading
<1>6. k \in 0 .. 7 + n
  <2> HIDE DEF n
  <2> QED BY <1>3, <1>4, <1>5
<1>7. tx_state = "PAYLOAD" =>
        /\ pv /\ data = f.payload[k - 7]
        /\ hd_replied + 1 = Len(hd_reply.payload) => ~(k + 1 < 8 + n)
  <2> SUFFICES ASSUME tx_state = "PAYLOAD"
               PROVE  /\ pv /\ data = f.payload[k - 7]
                      /\ hd_replied + 1 = Len(hd_reply.payload) => ~(k + 1 < 8 + n)
    OBVIOUS
  <2>1. hd_phase = "RESPONSE_PAYLOAD" /\ hd_replied \in Nat
    BY DEF RoutingInv, RoutingAgrees, HandlerOK
  <2>2. f = hd_reply /\ pv /\ data = hd_reply.payload[hd_replied + 1] /\ k = 8 + hd_replied
    BY <1>1, <2>1 DEF Job, TxLeft, TxPayload, Handler!response_payload_valid,
       Handler!response_payload_data
  <2>3. k - 7 = hd_replied + 1
    BY <2>1, <2>2
  <2>4. hd_replied + 1 = n => ~(k + 1 < 8 + n)
    <3> HIDE DEF n
    <3> QED BY <1>3, <2>1, <2>2
  <2> QED BY <2>2, <2>3, <2>4
<1>8. Sending(f, k)
  BY <1>1
<1>9. Tx!out_valid(pv) /\ Tx!out_data(data) = e[k + 1]
  BY <1>2, <1>6, <1>7, <1>8, TxShows
<1>10. /\ rest \in Seq(Byte) /\ Len(rest) = (12 + n) - k /\ rest # << >>
       /\ Head(rest) = e[k + 1] /\ IsRest(Tail(rest), e, k + 1)
  <2>1. e \in Seq(Byte) /\ k \in Nat /\ k < Len(e)
    <3> HIDE DEF n, e
    <3> QED BY <1>3, <1>6
  <2>2. IsRest(rest, e, k)
    BY <1>1
  <2> HIDE DEF e
  <2>3. /\ rest \in Seq(Byte) /\ Len(rest) = Len(e) - k /\ rest # << >>
        /\ Head(rest) = e[k + 1] /\ IsRest(Tail(rest), e, k + 1)
    BY ONLY <2>1, <2>2, RestOf
  <2> QED BY <1>3, <2>3
<1> QED BY <1>2, <1>6, <1>7, <1>9, <1>10 DEF out_valid, out_data

\* What is in front shows its next byte, or nothing.
LEMMA FrontShows ==
  ASSUME RoutingInv, TxTypes, Replying, NEW rest, Fronting(rest)
  PROVE  /\ rest \in Seq(Byte) /\ rest # << >> /\ tx_state # "IDLE"
         /\ out_valid => out_data = Head(rest)
<1>1. CASE /\ tx_state \in TxHeading \cup {"PAYLOAD"}
           /\ \E f \in {Job}, k \in {TxLeft} : Sending(f, k) /\ IsRest(rest, Encode(f), k)
  <2>1. PICK f, k : f = Job /\ k = TxLeft /\ Sending(f, k) /\ IsRest(rest, Encode(f), k)
    BY <1>1, Zenon
  <2> QED BY <1>1, <2>1, FrontSends DEF TxHeading
<1>2. CASE tx_state \in {"WAIT_CRC", "CRC"} /\ Closing(rest)
  BY <1>2, TxShowsCrc DEF out_valid, out_data
<1> QED BY <1>1, <1>2 DEF Fronting

\* One cycle of what is in front: its next byte leaves when the wire takes it.
LEMMA FrontStep ==
  ASSUME RoutingInv, RoutingInv', TxTypes, Replying, NEW rest, Fronting(rest),
         NEW iv, NEW b, NEW out_ready \in BOOLEAN, NEW done, Clock(iv, b, out_ready, done)
  PROVE  /\ TxTypes'
         /\ IF ~leaves(out_ready) THEN tx_state' # "IDLE" /\ Fronting(rest)'
            ELSE IF Len(rest) = 1 THEN TxResting'
            ELSE tx_state' # "IDLE" /\ Fronting(Tail(rest))'
<1> DEFINE pv == Handler!response_payload_valid
           data == TxPayload
<1>1. Tx!Clock(transmit_frame_valid, transmitted.type, transmitted.flags, transmitted.length,
               pv, data, out_ready)
  BY DEF Clock, TxClock
<1>2. leaves(out_ready) <=> Tx!out_valid(pv) /\ out_ready
  BY DEF leaves, out_valid
<1>3. CASE /\ tx_state \in TxHeading \cup {"PAYLOAD"}
           /\ \E f \in {Job}, k \in {TxLeft} : Sending(f, k) /\ IsRest(rest, Encode(f), k)
  <2>1. PICK f, k : f = Job /\ k = TxLeft /\ Sending(f, k) /\ IsRest(rest, Encode(f), k)
    BY <1>3, Zenon
  <2> DEFINE n == Len(f.payload)
             e == Encode(f)
  <2>2. n \in Nat
    <3>1. f \in Frame
      BY <1>3, <2>1, FrontSends
    <3> QED BY <3>1, FrameFacts
  <2>3. /\ f \in Frame /\ k \in 0 .. 7 + n
        /\ tx_state = "PAYLOAD" =>
             /\ pv /\ data = f.payload[k - 7]
             /\ hd_replied + 1 = Len(hd_reply.payload) => ~(k + 1 < 8 + n)
        /\ out_valid
        /\ Len(rest) = (12 + n) - k /\ IsRest(Tail(rest), e, k + 1)
    BY <1>3, <2>1, FrontSends
  <2>4. Sending(f, k)
    BY <2>1
  <2>5. /\ TxTypes'
        /\ IF ~out_ready THEN Sending(f, k)'
           ELSE IF k + 1 < 8 + n THEN Sending(f, k + 1)'
           ELSE tx_state' = "WAIT_CRC" /\ Closing(CrcOver(Protected(f)))'
    BY <1>1, <2>3, <2>4, TxMore
  <2>6. leaves(out_ready) <=> out_ready
    BY <2>3 DEF leaves
  <2>7. tx_state # "IDLE"
    BY <1>3 DEF TxHeading
  <2>8. Len(rest) # 1 /\ k \in Nat
    <3> HIDE DEF n
    <3> QED BY <2>2, <2>3
  <2>9. ASSUME NEW m \in Nat, Sending(f, m)', f = Job', NEW r, IsRest(r, e, m)
        PROVE  tx_state' # "IDLE" /\ Fronting(r)'
    <3>1. TxAt(f, m)'
      BY <2>9 DEF Sending
    <3>2. TxLeft' = m /\ tx_state' \in TxHeading \cup {"PAYLOAD"}
      BY <2>3, <2>9, <3>1, LeftNext
    <3>3. Fronting(r)'
      BY <2>9, <3>2, Zenon DEF Fronting
    <3> QED BY <3>2, <3>3 DEF TxHeading
  <2>10. CASE ~out_ready
    <3>1. f = Job'
      BY <2>1, <2>7, <2>10, JobStays
    <3>2. tx_state' # "IDLE" /\ Fronting(rest)'
      BY <2>1, <2>5, <2>8, <2>9, <2>10, <3>1
    <3> QED BY <2>5, <2>6, <2>10, <3>2
  <2>11. CASE out_ready /\ k + 1 < 8 + n
    <3>1. ~(tx_state = "PAYLOAD" /\ out_ready /\ hd_replied + 1 = Len(hd_reply.payload))
      BY <2>3, <2>11, Zenon
    <3>2. f = Job'
      BY <2>1, <2>7, <3>1, JobStays
    <3>3. k + 1 \in Nat /\ Sending(f, k + 1)' /\ IsRest(Tail(rest), e, k + 1)
      BY <2>3, <2>5, <2>8, <2>11
    <3>4. tx_state' # "IDLE" /\ Fronting(Tail(rest))'
      BY <2>9, <3>2, <3>3
    <3> QED BY <2>5, <2>6, <2>8, <2>11, <3>4
  <2>12. CASE out_ready /\ ~(k + 1 < 8 + n)
    <3>1. tx_state' = "WAIT_CRC" /\ Closing(CrcOver(Protected(f)))'
      BY <2>5, <2>12
    <3>2. k + 1 = 8 + n
      <4> HIDE DEF n
      <4> QED BY <2>2, <2>3, <2>12
    <3>3. IsRest(Tail(rest), Encode(f), 8 + Len(f.payload))
      BY <2>3, <3>2
    <3>4. Tail(rest) = CrcOver(Protected(f))
      BY <2>3, <3>3, CrcLast
    <3>5. Fronting(Tail(rest))'
      BY <3>1, <3>4 DEF Fronting
    <3> QED BY <2>5, <2>6, <2>8, <2>12, <3>1, <3>5
  <2> QED BY <2>10, <2>11, <2>12
<1>4. CASE tx_state \in {"WAIT_CRC", "CRC"} /\ Closing(rest)
  <2>1. /\ TxTypes'
        /\ IF ~(Tx!out_valid(pv) /\ out_ready)
           THEN tx_state' \in {"WAIT_CRC", "CRC"} /\ Closing(rest)'
           ELSE IF Len(rest) = 1 THEN TxResting'
           ELSE tx_state' \in {"WAIT_CRC", "CRC"} /\ Closing(Tail(rest))'
    BY <1>1, <1>4, TxCloses
  <2> HIDE DEF pv, data
  <2> QED BY <1>2, <2>1 DEF Fronting
<1> QED BY <1>3, <1>4 DEF Fronting

\* A transmitter that rests takes the header of a response, the handler's first.
LEMMA IdleStep ==
  ASSUME RoutingInv, RoutingInv', TxTypes, Replying, TxResting,
         NEW r, r = IF hd_phase = "RESPONSE_HEADER" THEN hd_reply ELSE Pong,
         NEW iv, NEW b, NEW out_ready \in BOOLEAN, NEW done, Clock(iv, b, out_ready, done)
  PROVE  /\ TxTypes' /\ ~out_valid
         /\ IF hd_phase = "RESPONSE_HEADER" \/ ping_response_valid
            THEN tx_state' # "IDLE" /\ Fronting(Encode(r))'
            ELSE TxResting'
<1> DEFINE pv == Handler!response_payload_valid
           data == TxPayload
           n == Len(r.payload)
           e == Encode(r)
<1>1. Tx!Clock(transmit_frame_valid, transmitted.type, transmitted.flags, transmitted.length,
               pv, data, out_ready)
  BY DEF Clock, TxClock
<1>2. tx_state = "IDLE" /\ ~tx_crc_output_valid /\ ~tx_crc_feed.valid
  BY DEF TxResting
<1>3. ~out_valid
  BY <1>2 DEF out_valid, Tx!out_valid
<1>4. r \in Frame
  BY PongIsFrame DEF Replying
<1>5. /\ n \in Nat /\ n <= MAX_PAYLOAD_BYTES /\ Value(Pair(n)) = n
      /\ e \in Seq(Byte) /\ Len(e) = 12 + n
  BY <1>4, FrameFacts
<1>6. /\ transmitted.type = r.type /\ transmitted.flags = r.flags
      /\ transmitted.length = Pair(n)
  <2>1. CASE hd_phase = "RESPONSE_HEADER"
    BY <2>1 DEF transmitted, Handler!response_valid
  <2>2. CASE hd_phase # "RESPONSE_HEADER"
    <3>1. r.type = PONG /\ r.flags = <<0, 0>> /\ n = 0
      BY <2>2, PongIsFrame
    <3>2. Pair(0) = <<0, 0>>
      BY ByteAssumption DEF Pair
    <3> QED BY <2>2, <3>1, <3>2 DEF transmitted, Handler!response_valid
  <2> QED BY <2>1, <2>2
<1>7. /\ ~tx_crc_output_valid' /\ tx_crc_output_valid' \in BOOLEAN
      /\ tx_crc_output' \in FourBytes /\ tx_crc_state' \in Crc
  BY <1>1, <1>2, TxEngine
<1>8. tx_crc_feed' \in Tx!Feed /\ ~tx_crc_feed'.valid
  <2>1. 0 \in Byte
    BY ByteAssumption DEF Byte
  <2> QED BY <1>1, <1>2, <2>1, TxFeeds
<1>9. /\ UNCHANGED <<tx_header_index, tx_crc_index>>
      /\ IF transmit_frame_valid
         THEN /\ tx_state' = "SOF_0" /\ tx_payload_remaining' = n
              /\ tx_message_type' = r.type /\ tx_flags' = r.flags
              /\ tx_payload_length' = Pair(n)
         ELSE tx_state' = "IDLE"
  <2>1. Tx!Value(Pair(n)) = n /\ ~(n > MAX_PAYLOAD_BYTES)
    BY <1>5, SameValue, PayloadAssumption
  <2> HIDE DEF n
  <2> QED BY <1>1, <1>2, <1>6, <2>1
      DEF Tx!Clock, Tx!frame_ready, Tx!crc_result_ready, Tx!Accept, Tx!Stall, Tx!Goto
<1>10. transmit_frame_valid <=> hd_phase = "RESPONSE_HEADER" \/ ping_response_valid
  BY DEF transmit_frame_valid, Handler!response_valid
<1>12. TxTypes'
  BY <1>7, <1>8, <1>9 DEF TxTypes
<1>13. CASE ~transmit_frame_valid
  <2>1. tx_state' = "IDLE"
    BY <1>9, <1>13
  <2> QED BY <1>3, <1>7, <1>8, <1>10, <1>12, <1>13, <2>1 DEF TxResting
<1>14. CASE transmit_frame_valid
  <2>2. /\ tx_state' = "SOF_0" /\ tx_payload_remaining' = n
        /\ tx_message_type' = r.type /\ tx_flags' = r.flags /\ tx_payload_length' = Pair(n)
    BY <1>9, <1>14
  <2>3. TxAt(r, 0)'
    <3>1. 0 < 8 + n /\ 0 < 2 /\ 0 < 8 /\ <<"SOF_0", "SOF_1">>[0 + 1] = "SOF_0"
      BY <1>5
    <3> QED BY <2>2, <3>1, Zenon DEF TxAt, n
  <2>4. Sending(r, 0)'
    BY <1>7, <1>8, <2>2, <2>3 DEF Sending
  <2>5. r = Job'
    <3>1. CASE hd_phase = "RESPONSE_HEADER"
      <4>1. hd_phase' = "RESPONSE_PAYLOAD" /\ hd_reply' = hd_reply
        BY <1>2, <3>1, HandlerMoves
      <4> QED BY <3>1, <4>1 DEF Job
    <3>2. CASE hd_phase # "RESPONSE_HEADER"
      <4>1. hd_phase \in Phases /\ hd_phase # "RESPONSE_PAYLOAD"
        BY <1>2 DEF RoutingInv, HandlerOK, RoutingAgrees
      <4>2. hd_phase = "IDLE" => hd_phase' # "RESPONSE_PAYLOAD"
        BY HandlerMoves
      <4>3. hd_phase = "COLLECT" => hd_phase' # "RESPONSE_PAYLOAD"
        BY HandlerMoves
      <4>4. hd_phase = "WORK" => hd_phase' # "RESPONSE_PAYLOAD"
        BY HandlerMoves
      <4>5. hd_phase' # "RESPONSE_PAYLOAD"
        BY <3>2, <4>1, <4>2, <4>3, <4>4 DEF Phases
      <4> QED BY <3>2, <4>5 DEF Job, Pong, Ping
    <3> QED BY <3>1, <3>2
  <2>6. TxLeft' = 0 /\ tx_state' \in TxHeading \cup {"PAYLOAD"}
    BY <1>4, <2>3, <2>5, LeftNext
  <2>7. IsRest(e, e, 0)
    <3> HIDE DEF e
    <3>1. SubSeq(e, 1, Len(e)) = e
      BY <1>5
    <3>2. 0 + 1 = 1
      OBVIOUS
    <3> QED BY <3>1, <3>2, Zenon DEF IsRest
  <2>8. Fronting(e)'
    BY <2>4, <2>5, <2>6, <2>7, Zenon DEF Fronting
  <2> QED BY <1>3, <1>10, <1>12, <1>14, <2>2, <2>8
<1> QED BY <1>13, <1>14

----------------------------------------------------------------------------
(* What is owed. *)

Queue == Seq(Seq(Byte))

LEMMA Queues ==
  ASSUME NEW a \in Seq(Byte), NEW s \in Queue, NEW t \in Queue
  PROVE  /\ <<a>> \in Queue /\ << >> \in Queue /\ s \o t \in Queue
         /\ <<a>> \o s # << >> /\ Head(<<a>> \o s) = a /\ Tail(<<a>> \o s) = s
         /\ s \o << >> = s /\ << >> \o s = s
<1>1. <<a>> \in Queue /\ << >> \in Queue /\ s \in Queue /\ t \in Queue
  BY DEF Queue
<1>2. s \o t \in Queue
  BY ConcatProperties DEF Queue
<1>4. s \o << >> = s /\ << >> \o s = s
  BY ConcatEmptySeq DEF Queue
<1>5. <<a>> \o s # << >> /\ Head(<<a>> \o s) = a /\ Tail(<<a>> \o s) = s
  <2> DEFINE q == <<a>> \o s
  <2>1. /\ q \in Queue /\ Len(q) = 1 + Len(s) /\ Len(s) \in Nat
        /\ q[1] = a
        /\ \A i \in 1 .. Len(s) : q[i + 1] = s[i]
    <3>1. s \in Seq(Seq(Byte)) /\ <<a>> \in Seq(Seq(Byte))
      BY <1>1 DEF Queue
    <3> QED BY <3>1 DEF Queue
  <2> HIDE DEF q
  <2>2. q # << >>
    BY <2>1 DEF Queue
  <2>3. Head(q) = a
    BY <2>1, <2>2
  <2>4. Tail(q) = s
    <3>1. /\ Tail(q) \in Seq(Seq(Byte)) /\ Len(Tail(q)) = Len(s)
          /\ \A i \in 1 .. Len(s) : Tail(q)[i] = q[i + 1]
      BY <2>1, <2>2 DEF Queue
    <3>2. s \in Seq(Seq(Byte))
      BY DEF Queue
    <3> DEFINE r == Tail(q)
    <3>3. \A i \in 1 .. Len(s) : r[i] = s[i]
      BY <2>1, <3>1
    <3>4. r \in Seq(Seq(Byte)) /\ Len(r) = Len(s)
      BY <3>1
    <3> HIDE DEF r
    <3>5. r = s
      BY <3>2, <3>3, <3>4, SeqEqual
    <3> QED BY <3>5 DEF r
  <2> QED BY <2>2, <2>3, <2>4 DEF q
<1> QED BY <1>1, <1>2, <1>4, <1>5

LEMMA QueueBehind ==
  ASSUME NEW a \in Seq(Byte), NEW s \in Queue, NEW t \in Queue
  PROVE  (<<a>> \o s) \o t = <<a>> \o (s \o t)
<1>1. <<a>> \in Queue
  BY DEF Queue
<1> QED BY <1>1, ConcatAssociative DEF Queue

\* The frames that can be owed are frames.
LEMMA AskedFrames ==
  ASSUME NEW f \in Frame
  PROVE  /\ Asked(f) \in Queue
         /\ f.type = TOKEN_REQUEST => Encode(TheReply(f.flags, f.payload)) \in Seq(Byte)
<1>1. Encode(Pong) \in Seq(Byte)
  BY PongIsFrame, FrameFacts
<1>2. Encode(TheReply(f.flags, f.payload)) \in Seq(Byte)
  <2>1. f.flags \in TwoBytes /\ f.payload \in Seq(Byte) /\ Len(f.payload) <= MAX_PAYLOAD_BYTES
    BY FrameFields, FrameFacts
  <2> QED BY <2>1, OneReply, FrameFacts
<1>3. << >> \in Queue /\ \A a \in Seq(Byte) : <<a>> \in Queue
  BY DEF Queue
<1> QED BY <1>1, <1>2, <1>3, Zenon DEF Asked

LEMMA DueFrame ==
  ASSUME RoutingInv, Replying, NEW f \in Frame, hd_phase \in HdPhases
  PROVE  Due(f) \in Frame
<1>1. CASE hd_phase = "COLLECT"
  <2>1. f.flags \in TwoBytes /\ f.payload \in Seq(Byte) /\ Len(f.payload) <= MAX_PAYLOAD_BYTES
    BY FrameFields, FrameFacts
  <2> QED BY <1>1, <2>1, OneReply DEF Due
<1>2. CASE hd_phase = "WORK"
  <2>1. /\ hd_request_flags \in TwoBytes /\ hd_received \in Seq(Byte)
        /\ Len(hd_received) <= MAX_PAYLOAD_BYTES
    BY DEF RoutingInv, HandlerOK
  <2>2. TheReply(hd_request_flags, hd_received) \in Frame
    BY <2>1, OneReply
  <2> QED BY <1>2, <2>2 DEF Due
<1>3. CASE hd_phase = "RESPONSE_HEADER"
  BY <1>3 DEF Due, Replying
<1> QED BY <1>1, <1>2, <1>3 DEF HdPhases

\* Which frames the pipeline accepts, and when.
LEMMA Accepts ==
  ASSUME RoutingInv, NEW f \in Frame, rx_state \in RxOutput => RxHolds(f, 12 + Len(f.payload))
  PROVE  /\ received_frame_accepted => hd_phase = "IDLE" /\ rx_state = "OUTPUT_FRAME"
         /\ rx_state = "OUTPUT_FRAME" =>
              /\ token_request <=> f.type = TOKEN_REQUEST
              /\ supported_ping <=> f = Ping
         /\ f = Ping => f.type # TOKEN_REQUEST
         /\ hd_phase = "RESPONSE_HEADER" => ~ping_response_valid
         /\ ping_response_valid /\ tx_state = "IDLE" /\ hd_phase # "RESPONSE_HEADER" <=>
              received_frame_accepted /\ f = Ping
<1> DEFINE n == Len(f.payload)
<1>1. n \in Nat /\ f.payload \in Seq(Byte) /\ Value(Pair(n)) = n
  BY FrameFacts, FrameFields
<1>2. received_frame_accepted => hd_phase = "IDLE" /\ rx_state = "OUTPUT_FRAME"
  BY Wires
<1>3. f = Ping <=> f.type = PING /\ f.flags = <<0, 0>> /\ n = 0
  <2>1. f = Ping => f.type = PING /\ f.flags = <<0, 0>> /\ n = 0
    BY DEF Ping
  <2>2. ASSUME f.type = PING, f.flags = <<0, 0>>, n = 0
        PROVE  f = Ping
    <3>1. f.payload = << >>
      BY <1>1, <2>2, NotEmpty
    <3>2. f = [type |-> f.type, flags |-> f.flags, payload |-> f.payload]
      BY DEF Frame
    <3> QED BY <2>2, <3>1, <3>2, Zenon DEF Ping
  <2> QED BY <2>1, <2>2
<1>4. f = Ping => f.type # TOKEN_REQUEST
  BY <1>3, TypesAssumption
<1>5. rx_state = "OUTPUT_FRAME" =>
        /\ token_request <=> f.type = TOKEN_REQUEST
        /\ supported_ping <=> f = Ping
  <2> SUFFICES ASSUME rx_state = "OUTPUT_FRAME"
               PROVE  /\ token_request <=> f.type = TOKEN_REQUEST
                      /\ supported_ping <=> f = Ping
    OBVIOUS
  <2>1. rx_message_type = f.type /\ rx_flags = f.flags /\ rx_payload_length = Pair(n)
    <3>1. RxHolds(f, 12 + n)
      BY DEF RxOutput
    <3>2. 12 + n >= 4 /\ 12 + n >= 6 /\ 12 + n >= 8
      BY <1>1
    <3> QED BY <3>1, <3>2, Zenon DEF RxHolds, n
  <2>2. Value(rx_payload_length) = n
    BY <1>1, <2>1
  <2> QED BY <1>3, <2>1, <2>2 DEF token_request, supported_ping
<1>6. hd_phase = "RESPONSE_HEADER" => ~ping_response_valid
  BY DEF RoutingInv, RoutingAgrees, ping_response_valid
<1>7. supported_ping => ~token_request
  BY TypesAssumption DEF supported_ping, token_request
<1>8. ASSUME ping_response_valid, tx_state = "IDLE", hd_phase # "RESPONSE_HEADER"
      PROVE  received_frame_accepted /\ f = Ping
  BY <1>5, <1>7, <1>8 DEF ping_response_valid, received_frame_accepted, received_frame_ready,
     ping_response_ready, Tx!frame_ready, Handler!response_valid, Rx!frame_valid
<1>9. ASSUME received_frame_accepted, f = Ping
      PROVE  ping_response_valid /\ tx_state = "IDLE" /\ hd_phase # "RESPONSE_HEADER"
  BY <1>2, <1>5, <1>7, <1>9 DEF ping_response_valid, received_frame_accepted,
     received_frame_ready, ping_response_ready, Tx!frame_ready, Handler!response_valid,
     Rx!frame_valid
<1> QED BY <1>2, <1>4, <1>5, <1>6, <1>8, <1>9

\* What is owed after a cycle is what was owed, but for the frame whose header
\* the transmitter has taken, which was the first.
LEMMA Served ==
  ASSUME RoutingInv, Replying, NEW f \in Frame, Handling(f),
         rx_state \in RxOutput => RxHolds(f, 12 + Len(f.payload)),
         NEW iv, NEW b, NEW out_ready \in BOOLEAN, NEW done, Clock(iv, b, out_ready, done),
         NEW r, r = IF hd_phase = "RESPONSE_HEADER" THEN hd_reply ELSE Pong,
         NEW after, after = IF received_frame_accepted THEN << >> ELSE RxOwes(f)
  PROVE  /\ HdOwes(f) \o RxOwes(f) \in Queue /\ HdOwes(f)' \in Queue /\ after \in Queue
         /\ IF tx_state = "IDLE" /\ (hd_phase = "RESPONSE_HEADER" \/ ping_response_valid)
            THEN HdOwes(f) \o RxOwes(f) = <<Encode(r)>> \o (HdOwes(f)' \o after)
            ELSE HdOwes(f) \o RxOwes(f) = HdOwes(f)' \o after
<1> DEFINE going == tx_state = "IDLE" /\ (hd_phase = "RESPONSE_HEADER" \/ ping_response_valid)
<1>1. /\ received_frame_accepted => hd_phase = "IDLE" /\ rx_state = "OUTPUT_FRAME"
      /\ rx_state = "OUTPUT_FRAME" => (token_request <=> f.type = TOKEN_REQUEST)
      /\ f = Ping => f.type # TOKEN_REQUEST
      /\ hd_phase = "RESPONSE_HEADER" => ~ping_response_valid
      /\ ping_response_valid /\ tx_state = "IDLE" /\ hd_phase # "RESPONSE_HEADER" <=>
           received_frame_accepted /\ f = Ping
  BY Accepts
<1>2. IF received_frame_accepted /\ token_request
      THEN /\ hd_phase = "IDLE" /\ hd_phase' \in HdPhases
           /\ f.type = TOKEN_REQUEST
           /\ Due(f)' = TheReply(f.flags, f.payload)
      ELSE /\ hd_phase' \in HdPhases <=>
                hd_phase \in HdPhases /\ ~(hd_phase = "RESPONSE_HEADER" /\ tx_state = "IDLE")
           /\ hd_phase' \in HdPhases => Due(f)' = Due(f)
  BY HandlerDue
<1>3. hd_phase \in HdPhases => Encode(Due(f)) \in Seq(Byte)
  BY DueFrame, FrameFacts
<1>4. /\ Asked(f) \in Queue
      /\ f.type = TOKEN_REQUEST => Encode(TheReply(f.flags, f.payload)) \in Seq(Byte)
  BY AskedFrames
<1>5. << >> \in Queue /\ (\A a \in Seq(Byte) : <<a>> \in Queue)
  BY DEF Queue
<1>6. \A s \in Queue : s \o << >> = s /\ << >> \o s = s
  BY ConcatEmptySeq DEF Queue
<1>7. HdOwes(f) \in Queue /\ RxOwes(f) \in Queue /\ HdOwes(f) \o RxOwes(f) \in Queue
  <2>1. HdOwes(f) \in Queue
    BY <1>3, <1>5, Zenon DEF HdOwes
  <2>2. RxOwes(f) \in Queue
    BY <1>4, <1>5, Zenon DEF RxOwes
  <2> QED BY <2>1, <2>2, ConcatProperties DEF Queue
<1>8. CASE received_frame_accepted /\ token_request
  <2>1. hd_phase = "IDLE" /\ rx_state = "OUTPUT_FRAME" /\ f.type = TOKEN_REQUEST /\ f # Ping
    BY <1>1, <1>8
  <2>2. ~going
    BY <1>1, <2>1
  <2>3. HdOwes(f) = << >> /\ after = << >>
    BY <1>8, <2>1 DEF HdOwes, HdPhases
  <2>4. RxOwes(f) = <<Encode(TheReply(f.flags, f.payload))>>
    BY <2>1 DEF RxOwes, Asked, standing
  <2>5. HdOwes(f)' = <<Encode(TheReply(f.flags, f.payload))>>
    <3>1. hd_phase' \in HdPhases /\ Due(f)' = TheReply(f.flags, f.payload)
      BY <1>2, <1>8
    <3> QED BY <3>1 DEF HdOwes
  <2> QED BY <1>5, <1>6, <1>7, <2>2, <2>3, <2>4, <2>5
<1>9. CASE received_frame_accepted /\ ~token_request
  <2>1. hd_phase = "IDLE" /\ rx_state = "OUTPUT_FRAME" /\ f.type # TOKEN_REQUEST
    BY <1>1, <1>9
  <2>2. HdOwes(f) = << >> /\ after = << >>
    BY <1>9, <2>1 DEF HdOwes, HdPhases
  <2>3. HdOwes(f)' = << >>
    <3>1. ~(hd_phase' \in HdPhases)
      BY <1>2, <1>9, <2>1 DEF HdPhases
    <3> QED BY <3>1 DEF HdOwes
  <2>4. going <=> f = Ping
    BY <1>1, <1>9, <2>1
  <2>5. r = Pong
    BY <2>1
  <2>6. RxOwes(f) = IF f = Ping THEN <<Encode(r)>> ELSE << >>
    BY <2>1, <2>5 DEF RxOwes, Asked, standing
  <2> QED BY <1>5, <1>6, <1>7, <2>2, <2>3, <2>4, <2>6
<1>10. CASE ~received_frame_accepted
  <2>1. after = RxOwes(f)
    BY <1>10
  <2>2. going <=> hd_phase = "RESPONSE_HEADER" /\ tx_state = "IDLE"
    BY <1>1, <1>10
  <2>3. CASE going
    <3>1. HdOwes(f)' = << >>
      <4>1. ~(hd_phase' \in HdPhases)
        BY <1>2, <1>10, <2>2, <2>3
      <4> QED BY <4>1 DEF HdOwes
    <3>2. HdOwes(f) = <<Encode(r)>>
      BY <2>2, <2>3 DEF HdOwes, HdPhases, Due
    <3> QED BY <1>5, <1>6, <1>7, <2>1, <2>3, <3>1, <3>2
  <2>4. CASE ~going
    <3>1. HdOwes(f)' = HdOwes(f)
      <4>1. /\ hd_phase' \in HdPhases <=> hd_phase \in HdPhases
            /\ hd_phase' \in HdPhases => Due(f)' = Due(f)
        BY <1>2, <1>10, <2>2, <2>4
      <4> QED BY <4>1 DEF HdOwes
    <3> QED BY <1>7, <2>1, <2>4, <3>1
  <2> QED BY <2>3, <2>4
<1> QED BY <1>8, <1>9, <1>10

\* So are the frames that are refused: each is still to be counted or has been.
LEMMA Tallied ==
  ASSUME RoutingInv, Replying, NEW f \in Frame, Handling(f),
         rx_state \in RxOutput => RxHolds(f, 12 + Len(f.payload)),
         handler_error_count \in 0 .. COUNTER_MODULUS - 1,
         NEW iv, NEW b, NEW out_ready \in BOOLEAN, NEW done, Clock(iv, b, out_ready, done),
         NEW c, c = IF HdRefuses(f)' THEN Plus(handler_error_count') ELSE handler_error_count'
  PROVE  /\ handler_error_count' \in 0 .. COUNTER_MODULUS - 1
         /\ c \in 0 .. COUNTER_MODULUS - 1
         /\ Counted(f) = IF RxRefuses(f) /\ ~received_frame_accepted THEN Plus(c) ELSE c
<1> DEFINE count == handler_error_count
           M == COUNTER_MODULUS
<1>0. /\ M \in Nat \ {0} /\ count \in 0 .. M - 1
      /\ count % M = count /\ Plus(count) = (count + 1) % M
      /\ \A i \in Nat : i % M \in 0 .. M - 1
  <2>1. M \in Nat \ {0} /\ count \in 0 .. M - 1 /\ Plus(count) = (count + 1) % M
    BY CounterAssumption DEF Plus
  <2> HIDE DEF M, count
  <2> QED BY <2>1
<1>1. /\ received_frame_accepted => hd_phase = "IDLE" /\ rx_state = "OUTPUT_FRAME"
      /\ rx_state = "OUTPUT_FRAME" =>
           /\ token_request <=> f.type = TOKEN_REQUEST
           /\ supported_ping <=> f = Ping
      /\ f = Ping => f.type # TOKEN_REQUEST
  BY Accepts
<1>2. IF received_frame_accepted /\ token_request
      THEN /\ hd_phase = "IDLE" /\ hd_phase' \in HdPhases
           /\ f.type = TOKEN_REQUEST
           /\ Due(f)' = TheReply(f.flags, f.payload)
      ELSE /\ hd_phase' \in HdPhases <=>
                hd_phase \in HdPhases /\ ~(hd_phase = "RESPONSE_HEADER" /\ tx_state = "IDLE")
           /\ hd_phase' \in HdPhases => Due(f)' = Due(f)
  BY HandlerDue
<1>3. /\ handler_error_response_accepted <=>
           hd_phase = "RESPONSE_HEADER" /\ tx_state = "IDLE" /\ hd_reply.type = ERROR_RESPONSE
      /\ unsupported_drop_accepted <=> received_frame_accepted /\ ~supported_ping /\ ~token_request
  BY DEF handler_error_response_accepted, handler_response_ready, Tx!frame_ready,
         Handler!response_valid, unsupported_drop_accepted
<1>4. count' = (count + (IF handler_error_response_accepted THEN 1 ELSE 0)
                      + (IF unsupported_drop_accepted THEN 1 ELSE 0)) % M
  BY DEF Clock, CountErrors
<1>5. ~(handler_error_response_accepted /\ unsupported_drop_accepted)
  BY <1>1, <1>3
<1>6. count' = IF handler_error_response_accepted \/ unsupported_drop_accepted
               THEN Plus(count) ELSE count
  <2>1. count + 1 + 0 = count + 1 /\ count + 0 + 1 = count + 1 /\ count + 0 + 0 = count
    BY <1>0
  <2>2. CASE handler_error_response_accepted
    BY <1>0, <1>4, <1>5, <2>1, <2>2
  <2>3. CASE ~handler_error_response_accepted
    BY <1>0, <1>4, <2>1, <2>3
  <2> QED BY <2>2, <2>3
<1>7. count' \in 0 .. M - 1 /\ \A i \in 0 .. M - 1 : Plus(i) \in 0 .. M - 1
  <2>1. \A i \in 0 .. M - 1 : Plus(i) \in 0 .. M - 1
    <3> TAKE i \in 0 .. M - 1
    <3>1. i + 1 \in Nat
      OBVIOUS
    <3> QED BY <1>0, <3>1 DEF Plus
  <2> QED BY <1>0, <1>6, <2>1
<1>8. c \in 0 .. M - 1
  BY <1>7, Zenon
<1>9. Counted(f) = LET d == IF HdRefuses(f) THEN Plus(count) ELSE count
                   IN  IF RxRefuses(f) THEN Plus(d) ELSE d
  BY DEF Counted
<1> HIDE DEF M, count
<1>10. CASE received_frame_accepted /\ token_request
  <2>1. /\ hd_phase = "IDLE" /\ rx_state = "OUTPUT_FRAME" /\ f.type = TOKEN_REQUEST
    BY <1>1, <1>10
  <2>2. count' = count
    BY <1>3, <1>6, <1>10, <2>1
  <2>3. ~HdRefuses(f)
    BY <2>1 DEF HdRefuses, HdPhases
  <2>4. HdRefuses(f)' <=> TheReply(f.flags, f.payload).type = ERROR_RESPONSE
    <3>1. hd_phase' \in HdPhases /\ Due(f)' = TheReply(f.flags, f.payload)
      BY <1>2, <1>10
    <3> QED BY <3>1 DEF HdRefuses
  <2>5. RxRefuses(f) <=> TheReply(f.flags, f.payload).type = ERROR_RESPONSE
    BY <2>1 DEF RxRefuses, Refused, standing
  <2>6. c = IF RxRefuses(f) THEN Plus(count) ELSE count
    BY <2>2, <2>4, <2>5 DEF count
  <2> QED BY <1>7, <1>8, <1>9, <1>10, <2>3, <2>6 DEF M, count
<1>11. CASE received_frame_accepted /\ ~token_request
  <2>1. hd_phase = "IDLE" /\ rx_state = "OUTPUT_FRAME" /\ f.type # TOKEN_REQUEST
    BY <1>1, <1>11
  <2>2. count' = IF f # Ping THEN Plus(count) ELSE count
    BY <1>1, <1>3, <1>6, <1>11, <2>1
  <2>3. ~HdRefuses(f)
    BY <2>1 DEF HdRefuses, HdPhases
  <2>4. ~HdRefuses(f)'
    <3>1. ~(hd_phase' \in HdPhases)
      BY <1>2, <1>11, <2>1 DEF HdPhases
    <3> QED BY <3>1 DEF HdRefuses
  <2>5. RxRefuses(f) <=> f # Ping
    BY <2>1 DEF RxRefuses, Refused, standing
  <2>6. c = IF RxRefuses(f) THEN Plus(count) ELSE count
    BY <2>2, <2>4, <2>5 DEF count
  <2> QED BY <1>7, <1>8, <1>9, <1>11, <2>3, <2>6 DEF M, count
<1>12. CASE ~received_frame_accepted
  <2>1. count' = IF handler_error_response_accepted THEN Plus(count) ELSE count
    BY <1>3, <1>6, <1>12
  <2>2. c = IF HdRefuses(f) THEN Plus(count) ELSE count
    <3>1. CASE hd_phase = "RESPONSE_HEADER" /\ tx_state = "IDLE"
      <4>1. ~(hd_phase' \in HdPhases)
        BY <1>2, <1>12, <3>1
      <4>2. ~HdRefuses(f)'
        BY <4>1 DEF HdRefuses
      <4>3. HdRefuses(f) <=> hd_reply.type = ERROR_RESPONSE
        BY <3>1 DEF HdRefuses, HdPhases, Due
      <4> QED BY <1>3, <2>1, <3>1, <4>2, <4>3 DEF count
    <3>2. CASE ~(hd_phase = "RESPONSE_HEADER" /\ tx_state = "IDLE")
      <4>1. /\ hd_phase' \in HdPhases <=> hd_phase \in HdPhases
            /\ hd_phase' \in HdPhases => Due(f)' = Due(f)
        BY <1>2, <1>12, <3>2
      <4>2. HdRefuses(f)' <=> HdRefuses(f)
        BY <4>1 DEF HdRefuses
      <4>3. count' = count
        BY <1>3, <2>1, <3>2
      <4> QED BY <4>2, <4>3 DEF count
    <3> QED BY <3>1, <3>2
  <2> QED BY <1>7, <1>8, <1>9, <1>12, <2>2 DEF M, count
<1> QED BY <1>10, <1>11, <1>12

\* What is owed beside `later` in the next state, when that is what remains of
\* it and something new behind.
LEMMA OwingStep ==
  ASSUME RoutingInv, RoutingInv', TxTypes, Replying,
         NEW later \in Queue, NEW left \in Queue, NEW new \in Queue, Owing(later),
         NEW r, r = IF hd_phase = "RESPONSE_HEADER" THEN hd_reply ELSE Pong,
         IF tx_state = "IDLE" /\ (hd_phase = "RESPONSE_HEADER" \/ ping_response_valid)
         THEN later = <<Encode(r)>> \o left ELSE later = left,
         NEW iv, NEW b, NEW out_ready \in BOOLEAN, NEW done, Clock(iv, b, out_ready, done),
         owed' = Left(out_ready) \o new
  PROVE  TxTypes' /\ Owing(left \o new)'
<1>0. later \in Queue /\ left \in Queue /\ new \in Queue
  OBVIOUS
<1>1. left \o new \in Queue
  BY ConcatProperties DEF Queue
<1>2. CASE tx_state = "IDLE"
  <2>1. TxResting /\ owed = later
    BY <1>2 DEF Owing
  <2>2. /\ TxTypes' /\ ~out_valid
        /\ IF hd_phase = "RESPONSE_HEADER" \/ ping_response_valid
           THEN tx_state' # "IDLE" /\ Fronting(Encode(r))'
           ELSE TxResting'
    BY <2>1, IdleStep
  <2>3. owed' = later \o new
    <3>1. Left(out_ready) = owed
      BY <2>2 DEF Left, leaves
    <3> QED BY <2>1, <3>1
  <2>4. CASE hd_phase = "RESPONSE_HEADER" \/ ping_response_valid
    <3>1. Encode(r) \in Seq(Byte)
      <4>1. r \in Frame
        BY PongIsFrame DEF Replying
      <4> QED BY <4>1, FrameFacts
    <3>2. later = <<Encode(r)>> \o left
      BY <1>2, <2>4
    <3>3. owed' = <<Encode(r)>> \o (left \o new)
      <4>1. (<<Encode(r)>> \o left) \o new = <<Encode(r)>> \o (left \o new)
        BY <3>1, QueueBehind
      <4> QED BY <2>3, <3>2, <4>1, Zenon
    <3>4. owed' # << >> /\ Head(owed') = Encode(r)
      BY <1>1, <3>1, <3>3, Queues
    <3> QED BY <2>2, <2>4, <3>3, <3>4, Zenon DEF Owing
  <2>5. CASE ~(hd_phase = "RESPONSE_HEADER" \/ ping_response_valid)
    <3>1. owed' = left \o new
      BY <1>2, <2>3, <2>5
    <3>2. TxResting'
      BY <2>2, <2>5
    <3>3. tx_state' = "IDLE"
      BY <3>2 DEF TxResting
    <3> QED BY <2>2, <3>1, <3>2, <3>3, Zenon DEF Owing
  <2> QED BY <2>4, <2>5
<1>3. CASE tx_state # "IDLE"
  <2>1. later = left
    BY <1>3
  <2>2. PICK rest : rest = Head(owed) /\ Fronting(rest) /\ owed = <<rest>> \o later
    BY <1>3, Zenon DEF Owing
  <2>3. rest \in Seq(Byte) /\ rest # << >>
    BY <2>2, FrontShows
  <2>4. /\ TxTypes'
        /\ IF ~leaves(out_ready) THEN tx_state' # "IDLE" /\ Fronting(rest)'
           ELSE IF Len(rest) = 1 THEN TxResting'
           ELSE tx_state' # "IDLE" /\ Fronting(Tail(rest))'
    BY <2>2, FrontStep
  <2>5. owed # << >> /\ Head(owed) = rest /\ Tail(owed) = later
    <3>1. <<rest>> \o later # << >> /\ Head(<<rest>> \o later) = rest /\ Tail(<<rest>> \o later) = later
      BY ONLY <1>0, <2>3, Queues
    <3> QED BY <2>2, <3>1, Zenon
  <2>6. ASSUME NEW x \in Seq(Byte), owed' = (<<x>> \o later) \o new, tx_state' # "IDLE", Fronting(x)'
        PROVE  Owing(left \o new)'
    <3>1. owed' = <<x>> \o (left \o new)
      <4>0. x \in Seq(Byte)
        OBVIOUS
      <4>1. (<<x>> \o left) \o new = <<x>> \o (left \o new)
        BY <4>0, QueueBehind
      <4> QED BY <2>1, <2>6, <4>1, Zenon
    <3>2. owed' # << >> /\ Head(owed') = x
      BY <1>1, <3>1, Queues
    <3> QED BY <2>6, <3>1, <3>2, Zenon DEF Owing
  <2>7. CASE ~leaves(out_ready)
    <3>1. Left(out_ready) = <<rest>> \o later
      BY <2>2, <2>7, Zenon DEF Left
    <3>2. owed' = (<<rest>> \o later) \o new
      BY <3>1
    <3> QED BY <2>3, <2>4, <2>6, <2>7, <3>2
  <2>8. CASE leaves(out_ready) /\ Len(rest) = 1
    <3>1. Left(out_ready) = later
      BY <2>5, <2>8, Zenon DEF Left
    <3>2. owed' = left \o new
      BY <2>1, <3>1
    <3>3. TxResting' /\ tx_state' = "IDLE"
      BY <2>4, <2>8 DEF TxResting
    <3> QED BY <2>4, <3>2, <3>3, Zenon DEF Owing
  <2>9. CASE leaves(out_ready) /\ Len(rest) # 1
    <3>1. Left(out_ready) = <<Tail(rest)>> \o later
      BY <2>5, <2>9, Zenon DEF Left
    <3>2. owed' = (<<Tail(rest)>> \o later) \o new
      BY <3>1
    <3>3. Tail(rest) \in Seq(Byte)
      BY <2>3, FirstAndRest
    <3> QED BY <2>4, <2>6, <2>9, <3>2, <3>3
  <2> QED BY <2>7, <2>8, <2>9
<1> QED BY <1>2, <1>3

\* A frame that is offered is the one that came.
LEMMA ComingHolds ==
  ASSUME NEW f \in Frame, NEW s, Coming(f, s), rx_state \in RxOutput
  PROVE  RxHolds(f, 12 + Len(f.payload))
<1> DEFINE e == Encode(f)
           k == Len(e) - Len(s)
           n == Len(f.payload)
<1>0. n \in Nat /\ Len(e) = 12 + n
  BY FrameFacts
<1>1. CASE s # << >>
  <2>1. k \in 1 .. Len(e) - 1 /\ Receiving(f, k)
    BY <1>1 DEF Coming
  <2>2. k \in 0 .. 12 + n
    <3> HIDE DEF e, n, k
    <3> QED BY <1>0, <2>1
  <2> QED BY <2>1, <2>2, RxPlace DEF Receiving
<1>2. CASE s = << >>
  <2>1. RxHolds(f, Len(e))
    BY <1>2 DEF Coming, RxOutput
  <2> QED BY <1>0, <2>1
<1> QED BY <1>1, <1>2

\* The responses a frame asks for, of which there is but one choice.
TheResponses(f) ==
  IF f.type = TOKEN_REQUEST THEN <<TheReply(f.flags, f.payload)>>
  ELSE IF f = Ping THEN <<Pong>> ELSE << >>

LEMMA OneAnswer ==
  ASSUME NEW f \in Frame
  PROVE  ResponsesTo(f) = {TheResponses(f)}
<1>1. CASE f.type = TOKEN_REQUEST
  <2>1. f.flags \in TwoBytes /\ f.payload \in Seq(Byte) /\ Len(f.payload) <= MAX_PAYLOAD_BYTES
    BY FrameFields, FrameFacts
  <2>2. Replies(f.flags, f.payload) = {TheReply(f.flags, f.payload)}
    BY <2>1, OneReply
  <2>3. f # Ping
    <3>1. Ping.type = PING
      BY Zenon DEF Ping
    <3> HIDE DEF Ping
    <3> QED BY <1>1, <3>1, TypesAssumption
  <2>4. ResponsesTo(f) = {<<r>> : r \in Replies(f.flags, f.payload)}
    BY <1>1, <2>3, Zenon DEF ResponsesTo
  <2>5. ResponsesTo(f) = {<<TheReply(f.flags, f.payload)>>}
    BY <2>2, <2>4
  <2> QED BY <1>1, <2>5 DEF TheResponses
<1>2. CASE f.type # TOKEN_REQUEST /\ f = Ping
  <2>1. ResponsesTo(f) = {<<Pong>>}
    BY <1>2 DEF ResponsesTo, Pong
  <2> QED BY <1>2, <2>1 DEF TheResponses
<1>3. CASE f.type # TOKEN_REQUEST /\ f # Ping
  <2>1. ResponsesTo(f) = {<< >>}
    BY <1>3 DEF ResponsesTo
  <2> QED BY <1>3, <2>1 DEF TheResponses
<1> QED BY <1>1, <1>2, <1>3

\* Their bytes and their count.
LEMMA AskedIs ==
  ASSUME NEW f \in Frame, NEW responses \in ResponsesTo(f)
  PROVE  /\ [i \in DOMAIN responses |-> Encode(responses[i])] = Asked(f)
         /\ Refusals(responses) = IF Refused(f) THEN 1 ELSE 0
<1>0. responses = TheResponses(f)
  BY OneAnswer
<1>1. CASE f.type = TOKEN_REQUEST
  <2>1. responses = <<TheReply(f.flags, f.payload)>>
    BY <1>0, <1>1 DEF TheResponses
  <2>2. [i \in DOMAIN responses |-> Encode(responses[i])] = <<Encode(TheReply(f.flags, f.payload))>>
    BY <2>1
  <2> QED BY <1>1, <2>1, <2>2 DEF Asked, Refusals, Refused
<1>2. CASE f.type # TOKEN_REQUEST /\ f = Ping
  <2>1. responses = <<Pong>>
    BY <1>0, <1>2 DEF TheResponses
  <2>2. Pong.type # ERROR_RESPONSE
    BY PongIsFrame, TypesAssumption
  <2>3. [i \in DOMAIN responses |-> Encode(responses[i])] = <<Encode(Pong)>>
    BY <2>1
  <2> QED BY <1>2, <2>1, <2>2, <2>3 DEF Asked, Refusals, Refused
<1>3. CASE f.type # TOKEN_REQUEST /\ f # Ping
  <2>1. responses = << >>
    BY <1>0, <1>3 DEF TheResponses
  <2>2. [i \in DOMAIN responses |-> Encode(responses[i])] = << >>
    BY <2>1
  <2> QED BY <1>3, <2>1, <2>2 DEF Asked, Refusals, Refused
<1> QED BY <1>1, <1>2, <1>3

\* A cycle without a byte keeps the complete frame, unless it is accepted.
LEMMA StandingStays ==
  ASSUME RoutingInv, RoutingInv', RxTypes, NEW f \in Frame, NEW s, Coming(f, s),
         NEW out_ready, NEW done, Clock(FALSE, 0, out_ready, done)
  PROVE  /\ RxTypes' /\ Coming(f, s)'
         /\ standing' <=> standing /\ ~received_frame_accepted
<1> DEFINE fr == received_frame_ready
           pr == received_payload_ready
<1>1. Rx!Clock(FALSE, 0, fr, pr)
  BY DEF Clock, RxClock
<1>2. RxOK /\ RxOK'
  BY DEF RoutingInv
<1>3. /\ RxTypes' /\ Coming(f, s)'
      /\ rx_state = "VALIDATE" => rx_state' = "OUTPUT_FRAME"
      /\ rx_state \notin RxOutput \cup {"VALIDATE"} => UNCHANGED rx_state
      /\ rx_state \in RxOutput => rx_state' \in RxOutput \cup {"SEARCH_0"}
  BY <1>1, <1>2, ComingPauses
<1>4. /\ fr \in BOOLEAN /\ pr \in BOOLEAN
      /\ received_frame_accepted <=> rx_state = "OUTPUT_FRAME" /\ fr
  BY Wires
<1>5. FALSE \in BOOLEAN /\ 0 \in Byte
  BY ByteAssumption DEF Byte
<1>6. /\ rx_state = "OUTPUT_FRAME" =>
           rx_state' = IF ~fr THEN "OUTPUT_FRAME"
                       ELSE IF Length = 0 THEN "SEARCH_0" ELSE "OUTPUT_PAYLOAD"
      /\ rx_state = "OUTPUT_PAYLOAD" => rx_state' \in {"SEARCH_0", "OUTPUT_PAYLOAD"}
  <2> HIDE DEF fr, pr
  <2> QED BY <1>1, <1>2, <1>4, <1>5, RxStep
<1> HIDE DEF fr
<1>7. standing' <=> standing /\ ~received_frame_accepted
  BY <1>3, <1>4, <1>6 DEF standing, RxOutput
<1> QED BY <1>3, <1>7

\* A transmitter that rests shows nothing.
LEMMA IdleSilent == tx_state = "IDLE" => ~out_valid
BY DEF out_valid, Tx!out_valid, TxHeading

\* What is left are frames in bytes.
LEMMA LeftFrames ==
  ASSUME RoutingInv, TxTypes, Replying, NEW later \in Queue, Owing(later), NEW out_ready
  PROVE  Left(out_ready) \in Queue
<1>1. CASE tx_state = "IDLE"
  <2>1. TxResting /\ owed = later
    BY <1>1 DEF Owing
  <2>2. ~out_valid
    BY <1>1, IdleSilent
  <2>3. Left(out_ready) = owed
    BY <2>2 DEF Left, leaves
  <2> QED BY <2>1, <2>3
<1>2. CASE tx_state # "IDLE"
  <2>1. PICK rest : rest = Head(owed) /\ Fronting(rest) /\ owed = <<rest>> \o later
    BY <1>2, Zenon DEF Owing
  <2>2. rest \in Seq(Byte) /\ rest # << >>
    BY <2>1, FrontShows
  <2>3. /\ <<rest>> \o later # << >> /\ Head(<<rest>> \o later) = rest
        /\ Tail(<<rest>> \o later) = later
    BY <2>2, Queues
  <2>4. Tail(rest) \in Seq(Byte)
    BY <2>2, FirstAndRest
  <2>5. Left(out_ready) \in {<<rest>> \o later, later, <<Tail(rest)>> \o later}
    BY <2>1, <2>3, Zenon DEF Left
  <2>6. \A x \in Seq(Byte) : <<x>> \o later \in Queue
    BY ConcatProperties DEF Queue
  <2> QED BY <2>2, <2>4, <2>5, <2>6
<1> QED BY <1>1, <1>2

\* A cycle without a byte.
LEMMA PauseStep ==
  ASSUME RoutingInv, RoutingInv', RxTypes, NEW f \in Frame, NEW s, Coming(f, s),
         Replying, Handling(f), TxTypes, Owing(HdOwes(f) \o RxOwes(f)),
         handler_error_count \in 0 .. COUNTER_MODULUS - 1,
         NEW out_ready \in BOOLEAN, NEW done, Clock(FALSE, 0, out_ready, done),
         owed' = Left(out_ready)
  PROVE  /\ RxTypes' /\ Coming(f, s)' /\ Replying' /\ Handling(f)' /\ TxTypes'
         /\ Owing(HdOwes(f) \o RxOwes(f))'
         /\ handler_error_count' \in 0 .. COUNTER_MODULUS - 1
         /\ Counted(f)' = Counted(f)
<1>1. rx_state \in RxOutput => RxHolds(f, 12 + Len(f.payload))
  BY ComingHolds
<1>2. /\ RxTypes' /\ Coming(f, s)'
      /\ standing' <=> standing /\ ~received_frame_accepted
  BY StandingStays
<1>3. Replying' /\ Handling(f)'
  BY <1>1, HandlerDue
<1>4. PICK r : r = IF hd_phase = "RESPONSE_HEADER" THEN hd_reply ELSE Pong
  OBVIOUS
<1>5. PICK after : after = IF received_frame_accepted THEN << >> ELSE RxOwes(f)
  OBVIOUS
<1>6. PICK next : next = HdOwes(f)'
  OBVIOUS
<1>7. PICK later : later = HdOwes(f) \o RxOwes(f)
  OBVIOUS
<1>8. /\ later \in Queue /\ next \in Queue /\ after \in Queue
      /\ IF tx_state = "IDLE" /\ (hd_phase = "RESPONSE_HEADER" \/ ping_response_valid)
         THEN later = <<Encode(r)>> \o (next \o after)
         ELSE later = next \o after
  BY <1>1, <1>4, <1>5, <1>6, <1>7, Served
<1>9. RxOwes(f)' = after
  BY <1>2, <1>5 DEF RxOwes
<1>10. PICK left : left = next \o after
  OBVIOUS
<1>11. PICK new : new = << >>
  OBVIOUS
<1>12. left \in Queue /\ new \in Queue /\ left \o new = left
  BY <1>8, <1>10, <1>11, ConcatProperties, ConcatEmptySeq DEF Queue
<1>13. Owing(later)
  BY <1>7
<1>14. owed' = Left(out_ready) \o new
  <2>1. Left(out_ready) \in Queue
    BY <1>8, <1>13, LeftFrames
  <2> QED BY <1>11, <2>1, ConcatEmptySeq DEF Queue
<1>15. TxTypes' /\ Owing(left \o new)'
  <2>1. IF tx_state = "IDLE" /\ (hd_phase = "RESPONSE_HEADER" \/ ping_response_valid)
        THEN later = <<Encode(r)>> \o left ELSE later = left
    BY <1>8, <1>10
  <2> QED BY <1>4, <1>8, <1>12, <1>13, <1>14, <2>1, OwingStep
<1>16. Owing(HdOwes(f) \o RxOwes(f))'
  <2>1. (HdOwes(f) \o RxOwes(f))' = left
    BY <1>6, <1>9, <1>10
  <2> QED BY <1>12, <1>15, <2>1, Zenon DEF Owing
<1>17. PICK c : c = IF HdRefuses(f)' THEN Plus(handler_error_count') ELSE handler_error_count'
  OBVIOUS
<1>18. /\ handler_error_count' \in 0 .. COUNTER_MODULUS - 1
       /\ Counted(f) = IF RxRefuses(f) /\ ~received_frame_accepted THEN Plus(c) ELSE c
  BY <1>1, <1>17, Tallied
<1>19. RxRefuses(f)' <=> RxRefuses(f) /\ ~received_frame_accepted
  BY <1>2 DEF RxRefuses, Refused
<1>20. Counted(f)' = IF RxRefuses(f)' THEN Plus(c) ELSE c
  BY <1>17, Zenon DEF Counted
<1>21. Counted(f)' = Counted(f)
  BY <1>18, <1>19, <1>20, Zenon
<1> QED BY <1>2, <1>3, <1>15, <1>16, <1>18, <1>21

\* A cycle that takes the next byte of a frame.
LEMMA SendStep ==
  ASSUME RoutingInv, RoutingInv', RxTypes, NEW f \in Frame, NEW s \in Seq(Byte), Coming(f, s),
         in_ready, NEW g \in Frame, NEW rest,
         IF s = << >> THEN rest = Encode(g) ELSE g = f /\ rest = s,
         Replying, Handling(f), TxTypes, Owing(HdOwes(f) \o RxOwes(f)),
         handler_error_count \in 0 .. COUNTER_MODULUS - 1, refused = Counted(f),
         NEW out_ready \in BOOLEAN, NEW done, Clock(TRUE, Head(rest), out_ready, done),
         IF Len(rest) = 1
         THEN \E responses \in ResponsesTo(g) :
                /\ owed' = Left(out_ready) \o [i \in DOMAIN responses |-> Encode(responses[i])]
                /\ refused' = (refused + Refusals(responses)) % COUNTER_MODULUS
         ELSE owed' = Left(out_ready) /\ UNCHANGED refused
  PROVE  /\ RxTypes' /\ Coming(g, Tail(rest))' /\ Tail(rest) \in Seq(Byte)
         /\ Replying' /\ Handling(g)' /\ TxTypes'
         /\ Owing(HdOwes(g) \o RxOwes(g))'
         /\ handler_error_count' \in 0 .. COUNTER_MODULUS - 1
         /\ refused' = Counted(g)'
<1> DEFINE fr == received_frame_ready
           pr == received_payload_ready
           M == COUNTER_MODULUS
<1>0. /\ RoutingInv /\ Replying /\ f \in Frame /\ Handling(f)
      /\ handler_error_count \in 0 .. COUNTER_MODULUS - 1
      /\ out_ready \in BOOLEAN /\ Clock(TRUE, Head(rest), out_ready, done)
  OBVIOUS
<1>1. /\ RxTypes' /\ Coming(g, Tail(rest))' /\ Tail(rest) \in Seq(Byte)
      /\ rx_state \notin RxOutput \cup {"VALIDATE"} /\ rx_state' \notin RxOutput
      /\ rx_state' = "VALIDATE" <=> Len(rest) = 1
  <2>1. Rx!Clock(TRUE, Head(rest), fr, pr)
    BY DEF Clock, RxClock
  <2>2. RxOK /\ RxOK'
    BY DEF RoutingInv
  <2>3. Rx!in_ready
    BY DEF in_ready
  <2> QED BY <2>1, <2>2, <2>3, ComingTakes
<1>2. /\ ~standing /\ ~received_frame_accepted /\ rx_state \notin RxOutput
      /\ standing' <=> Len(rest) = 1
      /\ hd_phase' # "COLLECT"
  <2>1. ~received_frame_accepted
    BY <1>1, Wires DEF RxOutput
  <2>2. hd_phase' # "COLLECT"
    BY <1>1 DEF RoutingInv, RoutingAgrees, RxOutput
  <2> QED BY <1>1, <2>1, <2>2 DEF standing, RxOutput
<1>3. RxOwes(f) = << >> /\ ~RxRefuses(f)
  BY <1>2 DEF RxOwes, RxRefuses
<1>4. Replying' /\ Handling(f)' /\ Handling(g)'
  <2>1. Replying' /\ Handling(f)'
    BY <1>2, HandlerDue
  <2> QED BY <1>2, <2>1 DEF Handling
<1>5. PICK r : r = IF hd_phase = "RESPONSE_HEADER" THEN hd_reply ELSE Pong
  OBVIOUS
<1>6. PICK after : after = << >>
  OBVIOUS
<1>7. PICK next : next = HdOwes(f)'
  OBVIOUS
<1>8. PICK later : later = HdOwes(f) \o RxOwes(f)
  OBVIOUS
<1>9. /\ later \in Queue /\ next \in Queue /\ after \in Queue
      /\ IF tx_state = "IDLE" /\ (hd_phase = "RESPONSE_HEADER" \/ ping_response_valid)
         THEN later = <<Encode(r)>> \o (next \o after)
         ELSE later = next \o after
  <2>1. after = IF received_frame_accepted THEN << >> ELSE RxOwes(f)
    BY <1>3, <1>6
  <2>2. rx_state \in RxOutput => RxHolds(f, 12 + Len(f.payload))
    BY <1>2
  <2>3. /\ HdOwes(f) \o RxOwes(f) \in Queue /\ HdOwes(f)' \in Queue /\ after \in Queue
        /\ IF tx_state = "IDLE" /\ (hd_phase = "RESPONSE_HEADER" \/ ping_response_valid)
           THEN HdOwes(f) \o RxOwes(f) = <<Encode(r)>> \o (HdOwes(f)' \o after)
           ELSE HdOwes(f) \o RxOwes(f) = HdOwes(f)' \o after
    BY ONLY <1>0, <1>5, <2>1, <2>2, Served
  <2> QED BY <1>7, <1>8, <2>3, Zenon
<1>10. next \o after = next
  BY <1>6, <1>9, ConcatEmptySeq DEF Queue
<1>11. PICK new : new = IF Len(rest) = 1 THEN Asked(g) ELSE << >>
  OBVIOUS
<1>12. new \in Queue
  <2>1. << >> \in Queue
    BY DEF Queue
  <2> QED BY <1>11, <2>1, AskedFrames
<1>13. Owing(later)
  BY <1>8
<1>14. /\ owed' = Left(out_ready) \o new
       /\ refused' = IF Len(rest) = 1 /\ Refused(g) THEN (refused + 1) % M
                     ELSE IF Len(rest) = 1 THEN (refused + 0) % M ELSE refused
  <2>1. CASE Len(rest) = 1
    <3>1. PICK responses \in ResponsesTo(g) :
            /\ owed' = Left(out_ready) \o [i \in DOMAIN responses |-> Encode(responses[i])]
            /\ refused' = (refused + Refusals(responses)) % M
      BY <2>1
    <3>2. /\ [i \in DOMAIN responses |-> Encode(responses[i])] = Asked(g)
          /\ Refusals(responses) = IF Refused(g) THEN 1 ELSE 0
      BY AskedIs
    <3>3. owed' = Left(out_ready) \o new
      BY <1>11, <2>1, <3>1, <3>2, Zenon
    <3> QED BY <2>1, <3>1, <3>2, <3>3, Zenon
  <2>2. CASE Len(rest) # 1
    <3>1. Left(out_ready) \in Queue
      BY <1>9, <1>13, LeftFrames
    <3>2. Left(out_ready) \o new = Left(out_ready)
      BY <1>11, <2>2, <3>1, ConcatEmptySeq DEF Queue
    <3> QED BY <2>2, <3>2
  <2> QED BY <2>1, <2>2
<1>15. TxTypes' /\ Owing(next \o new)'
  <2>1. IF tx_state = "IDLE" /\ (hd_phase = "RESPONSE_HEADER" \/ ping_response_valid)
        THEN later = <<Encode(r)>> \o next ELSE later = next
    BY <1>9, <1>10
  <2> QED BY <1>5, <1>9, <1>12, <1>13, <1>14, <2>1, OwingStep
<1>16. /\ hd_phase' \in HdPhases => Due(g)' = Due(f)'
       /\ HdOwes(g)' = next
       /\ HdRefuses(g)' <=> HdRefuses(f)'
  <2>1. CASE hd_phase' = "WORK"
    <3>1. Due(g)' = Due(f)'
      BY <2>1 DEF Due
    <3> QED BY <1>7, <3>1, Zenon DEF HdOwes, HdRefuses
  <2>2. CASE hd_phase' = "RESPONSE_HEADER"
    <3>1. Due(g)' = Due(f)'
      BY <2>2 DEF Due
    <3> QED BY <1>7, <3>1, Zenon DEF HdOwes, HdRefuses
  <2>3. CASE hd_phase' \notin HdPhases
    BY <1>7, <2>3, Zenon DEF HdOwes, HdRefuses
  <2> QED BY <1>2, <2>1, <2>2, <2>3 DEF HdPhases
<1>17. Owing(HdOwes(g) \o RxOwes(g))'
  <2>1. RxOwes(g)' = new
    BY <1>2, <1>11 DEF RxOwes, Asked
  <2>2. (HdOwes(g) \o RxOwes(g))' = next \o new
    BY <1>16, <2>1
  <2> QED BY <1>15, <2>2, Zenon DEF Owing
<1>18. PICK c : c = IF HdRefuses(f)' THEN Plus(handler_error_count') ELSE handler_error_count'
  OBVIOUS
<1>19. /\ handler_error_count' \in 0 .. M - 1 /\ c \in 0 .. M - 1
       /\ Counted(f) = IF RxRefuses(f) /\ ~received_frame_accepted THEN Plus(c) ELSE c
  <2>1. rx_state \in RxOutput => RxHolds(f, 12 + Len(f.payload))
    BY <1>2
  <2> QED BY ONLY <1>0, <1>18, <2>1, Tallied
<1>20. refused = c
  BY <1>3, <1>19
<1>21. RxRefuses(g)' <=> Len(rest) = 1 /\ Refused(g)
  BY <1>2 DEF RxRefuses, Refused
<1>22. Counted(g)' = IF RxRefuses(g)' THEN Plus(c) ELSE c
  <2>1. c = IF HdRefuses(g)' THEN Plus(handler_error_count') ELSE handler_error_count'
    BY <1>16, <1>18, Zenon
  <2> QED BY <2>1, Zenon DEF Counted
<1>23. (c + 0) % M = c
  <2>1. M \in Nat \ {0} /\ c \in 0 .. M - 1
    BY <1>19, CounterAssumption
  <2> HIDE DEF M
  <2> QED BY <2>1
<1>24. refused' = Counted(g)'
  BY <1>14, <1>20, <1>21, <1>22, <1>23, Zenon DEF Plus
<1> QED BY <1>1, <1>4, <1>15, <1>17, <1>19, <1>24

----------------------------------------------------------------------------
(* The invariant holds. *)

\* Nothing has come and nothing is owed: at power-up and after a reset.
Blank ==
  /\ rx_state = "SEARCH_0" /\ ~rx_crc_output_valid /\ RxTypes
  /\ hd_phase = "IDLE" /\ handler_error_count = 0
  /\ TxResting /\ TxTypes
  /\ current = Ping /\ unsent = << >> /\ owed = << >> /\ refused = 0

LEMMA BlankHolds == Blank => PInv
<1> SUFFICES ASSUME Blank PROVE PInv
  OBVIOUS
<1>1. current \in Frame
  BY PingIsFrame DEF Blank
<1>2. ReceiverInv
  BY <1>1 DEF Blank, ReceiverInv, Coming
<1>3. HandlerInv
  BY DEF Blank, HandlerInv, Replying, Handling
<1>4. HdOwes(current) = << >> /\ RxOwes(current) = << >>
  BY DEF Blank, HdOwes, RxOwes, HdPhases, standing
<1>5. Owing(HdOwes(current) \o RxOwes(current))
  <2>1. << >> \o << >> = << >>
    OBVIOUS
  <2>2. HdOwes(current) \o RxOwes(current) = << >>
    BY <1>4, <2>1
  <2> QED BY <2>2, Zenon DEF Blank, Owing, TxResting
<1>6. handler_error_count \in 0 .. COUNTER_MODULUS - 1 /\ refused = Counted(current)
  <2>1. ~HdRefuses(current) /\ ~RxRefuses(current)
    BY DEF Blank, HdRefuses, RxRefuses, HdPhases, standing
  <2> QED BY <2>1, CounterAssumption DEF Blank, Counted
<1> QED BY <1>2, <1>3, <1>5, <1>6 DEF PInv, OwedInv, Blank

LEMMA Zeros ==
  /\ 0 \in Byte /\ <<0, 0>> \in TwoBytes /\ <<0, 0, 0, 0>> \in FourBytes
  /\ Tx!NoFeed \in Tx!Feed /\ ~Tx!NoFeed.valid
<1>1. 0 \in Byte
  BY ByteAssumption DEF Byte
<1>2. <<0, 0>> \in TwoBytes
  BY <1>1 DEF TwoBytes
<1>3. <<0, 0, 0, 0>> \in FourBytes
  BY <1>1 DEF FourBytes
<1>4. Tx!NoFeed \in Tx!Feed /\ ~Tx!NoFeed.valid
  BY <1>1 DEF Tx!NoFeed, Tx!Feed, Tx!Byte, Byte
<1> QED BY <1>1, <1>2, <1>3, <1>4

LEMMA BlankInit == WInit => Blank
<1> SUFFICES ASSUME WInit PROVE Blank
  OBVIOUS
<1>1. rx_state = "SEARCH_0" /\ ~rx_crc_output_valid /\ RxTypes
  BY Zeros DEF WInit, Init, Rx!Init, Rx!CRC!Init, RxTypes
<1>2. hd_phase = "IDLE"
  BY DEF WInit, Init, Handler!Init
<1>3. TxResting /\ TxTypes
  <2>1. /\ tx_state = "IDLE" /\ tx_header_index = 0 /\ tx_crc_index = 0
        /\ tx_crc_feed = Tx!NoFeed /\ tx_crc_state = CRC_INITIAL
        /\ tx_crc_output_valid = FALSE /\ tx_crc_output = <<0, 0, 0, 0>>
    BY Zenon DEF WInit, Init, Tx!Init, Tx!CRC!Init
  <2>2. 0 \in 0 .. 5 /\ 0 \in 0 .. 3
    OBVIOUS
  <2> QED BY <2>1, <2>2, Zeros, CrcAssumption, Zenon DEF TxTypes, TxResting
<1> QED BY <1>1, <1>2, <1>3 DEF WInit, Init, Blank

LEMMA BlankReset == WReset /\ RxTypes => Blank'
<1> SUFFICES ASSUME WReset, RxTypes PROVE Blank'
  OBVIOUS
<1>1. (rx_state = "SEARCH_0" /\ ~rx_crc_output_valid /\ RxTypes)'
  BY Zeros DEF WReset, Reset, Rx!Reset, Rx!Goto, Rx!CRC!Clear, RxTypes
<1>2. hd_phase' = "IDLE"
  BY DEF WReset, Reset, Handler!Reset
<1>3. TxResting' /\ TxTypes'
  <2>1. /\ tx_state' = "IDLE" /\ tx_header_index' = 0 /\ tx_crc_index' = 0
        /\ tx_crc_feed' = Tx!NoFeed /\ tx_crc_state' = CRC_INITIAL
        /\ tx_crc_output_valid' = FALSE /\ tx_crc_output' = <<0, 0, 0, 0>>
    BY Zenon DEF WReset, Reset, Tx!Reset, Tx!Goto, Tx!CRC!Clear
  <2>2. 0 \in 0 .. 5 /\ 0 \in 0 .. 3
    OBVIOUS
  <2> QED BY <2>1, <2>2, Zeros, CrcAssumption, Zenon DEF TxTypes, TxResting
<1> QED BY <1>1, <1>2, <1>3 DEF WReset, Reset, Blank

LEMMA NothingMoves ==
  ASSUME UNCHANGED wvars, PInv
  PROVE  PInv'
<1>1. UNCHANGED <<Rx!vars, Handler!vars, Tx!vars, routing, current, unsent, owed, refused>>
  BY DEF wvars, vars
<1>2. UNCHANGED <<rx_state, rx_message_type, rx_flags, rx_payload_length, rx_expected_crc,
                  rx_payload_memory, rx_payload_write_index, rx_crc_clear, rx_crc_state,
                  rx_crc_output_valid, rx_crc_output>>
  BY <1>1 DEF Rx!vars, Rx!header, Rx!payload, Rx!engine
<1>3. UNCHANGED <<hd_phase, hd_request_flags, hd_received, hd_taken, hd_reply, hd_replied>>
  BY <1>1 DEF Handler!vars, Handler!request
<1>4. UNCHANGED <<tx_state, tx_header_index, tx_crc_index, tx_message_type, tx_flags,
                  tx_payload_length, tx_payload_remaining, tx_crc_feed, tx_crc_state,
                  tx_crc_output_valid, tx_crc_output>>
  BY <1>1 DEF Tx!vars, Tx!frame, Tx!engine
<1>5. UNCHANGED <<handler_error_count, current, unsent, owed, refused>>
  BY <1>1 DEF routing
<1>6. ReceiverInv'
  <2>1. RxTypes'
    BY <1>2 DEF PInv, ReceiverInv, RxTypes
  <2>2. \A f, k : Receiving(f, k)' <=> Receiving(f, k)
    BY <1>2 DEF Receiving, RxAt, RxHolds, RxCrc
  <2>3. \A f, k : RxHolds(f, k)' <=> RxHolds(f, k)
    BY <1>2 DEF RxHolds
  <2> QED BY <1>2, <1>5, <2>1, <2>2, <2>3 DEF PInv, ReceiverInv, Coming
<1>7. HandlerInv'
  BY <1>3, <1>5 DEF PInv, HandlerInv, Replying, Handling
<1>8. /\ HdOwes(current)' = HdOwes(current)
      /\ HdRefuses(current)' <=> HdRefuses(current)
  BY <1>3, <1>5 DEF HdOwes, HdRefuses, Due
<1>9. /\ RxOwes(current)' = RxOwes(current)
      /\ RxRefuses(current)' <=> RxRefuses(current)
  BY <1>2, <1>5 DEF RxOwes, RxRefuses, standing
<1>10. TxTypes' /\ (TxResting' <=> TxResting)
  BY <1>4 DEF PInv, OwedInv, TxTypes, TxResting
<1>11. \A rest : Fronting(rest)' <=> Fronting(rest)
  <2>1. Fed' = Fed
    BY <1>4 DEF Fed, Tx!CRC!PacketCrc
  <2>2. \A rest : Closing(rest)' <=> Closing(rest)
    BY <1>4, <2>1 DEF Closing
  <2>3. \A f, k : Sending(f, k)' <=> Sending(f, k)
    BY <1>4, <2>1 DEF Sending, TxAt
  <2>4. Job' = Job /\ TxLeft' = TxLeft
    BY <1>3, <1>4 DEF Job, TxLeft
  <2> QED BY <1>4, <2>2, <2>3, <2>4, Zenon DEF Fronting
<1>12. Owing(HdOwes(current) \o RxOwes(current))'
  <2>1. (HdOwes(current) \o RxOwes(current))' = HdOwes(current) \o RxOwes(current)
    BY <1>8, <1>9
  <2>2. Owing(HdOwes(current) \o RxOwes(current))
    BY DEF PInv, OwedInv
  <2> QED BY <1>4, <1>5, <1>10, <1>11, <2>1, <2>2, Zenon DEF Owing
<1>13. Counted(current)' = Counted(current)
  BY <1>5, <1>8, <1>9, Zenon DEF Counted
<1> QED BY <1>5, <1>6, <1>7, <1>10, <1>12, <1>13 DEF PInv, OwedInv

LEMMA ResetHolds == WReset /\ RxTypes => PInv'
<1>1. Blank' => PInv'
  BY BlankHolds, PTL
<1> QED BY <1>1, BlankReset

\* The invariant after any step of host, pipeline and wire.
LEMMA PInvStep == WInv /\ PInv /\ [WNext]_wvars => PInv'
<1> SUFFICES ASSUME WInv, PInv, [WNext]_wvars PROVE PInv'
  OBVIOUS
<1>1. RoutingInv /\ RoutingInv' /\ unsent \in Seq(Byte)
  BY RoutingStep DEF WInv
<1>2. PICK f : f = current
  OBVIOUS
<1>3. PICK s : s = unsent
  OBVIOUS
<1>4. /\ f \in Frame /\ s \in Seq(Byte) /\ Coming(f, s) /\ RxTypes
      /\ Replying /\ Handling(f) /\ TxTypes
      /\ Owing(HdOwes(f) \o RxOwes(f))
      /\ handler_error_count \in 0 .. COUNTER_MODULUS - 1 /\ refused = Counted(f)
  BY <1>1, <1>2, <1>3 DEF PInv, ReceiverInv, HandlerInv, OwedInv
<1>5. CASE WReset
  BY <1>4, <1>5, ResetHolds
<1>6. CASE UNCHANGED wvars
  BY <1>6, NothingMoves
<1>7. ASSUME NEW g \in Frame, NEW rest, current' = g, unsent' = rest,
             RxTypes', Coming(g, rest)', Replying', Handling(g)', TxTypes',
             Owing(HdOwes(g) \o RxOwes(g))',
             handler_error_count' \in 0 .. COUNTER_MODULUS - 1, refused' = Counted(g)'
      PROVE  PInv'
  <2>1. ReceiverInv'
    BY <1>7 DEF ReceiverInv
  <2>2. HandlerInv'
    BY <1>7 DEF HandlerInv
  <2>3. OwedInv'
    BY <1>7 DEF OwedInv
  <2> QED BY <2>1, <2>2, <2>3 DEF PInv
<1>8. ASSUME NEW out_ready \in BOOLEAN, NEW done \in BOOLEAN, Cycle(out_ready, done)
      PROVE  PInv'
  <2>1. CASE Pause(out_ready, done)
    <3>1. /\ Clock(FALSE, 0, out_ready, done) /\ owed' = Left(out_ready)
          /\ current' = f /\ unsent' = s /\ refused' = refused
      BY <1>2, <1>3, <2>1 DEF Pause
    <3>2. /\ RxTypes' /\ Coming(f, s)' /\ Replying' /\ Handling(f)' /\ TxTypes'
          /\ Owing(HdOwes(f) \o RxOwes(f))'
          /\ handler_error_count' \in 0 .. COUNTER_MODULUS - 1
          /\ Counted(f)' = Counted(f)
      BY <1>1, <1>4, <1>8, <3>1, PauseStep
    <3>3. refused' = Counted(f)'
      BY <1>4, <3>1, <3>2
    <3> QED BY <1>4, <1>7, <3>1, <3>2, <3>3
  <2>2. ASSUME NEW g \in Frame, NEW rest, Send(g, rest, out_ready, done),
               IF s = << >> THEN rest = Encode(g) ELSE g = f /\ rest = s
        PROVE  PInv'
    <3>1. /\ in_ready /\ Clock(TRUE, Head(rest), out_ready, done)
          /\ current' = g /\ unsent' = Tail(rest)
          /\ IF Len(rest) = 1
             THEN \E responses \in ResponsesTo(g) :
                    /\ owed' = Left(out_ready)
                                 \o [i \in DOMAIN responses |-> Encode(responses[i])]
                    /\ refused' = (refused + Refusals(responses)) % COUNTER_MODULUS
             ELSE owed' = Left(out_ready) /\ UNCHANGED refused
      BY <2>2 DEF Send
    <3>2. /\ RxTypes' /\ Coming(g, Tail(rest))' /\ Replying' /\ Handling(g)' /\ TxTypes'
          /\ Owing(HdOwes(g) \o RxOwes(g))'
          /\ handler_error_count' \in 0 .. COUNTER_MODULUS - 1
          /\ refused' = Counted(g)'
      BY <1>1, <1>4, <1>8, <2>2, <3>1, SendStep
    <3>3. PICK t : t = Tail(rest)
      OBVIOUS
    <3> QED BY <1>7, <2>2, <3>1, <3>2, <3>3
  <2>3. CASE Continue(out_ready, done)
    <3>1. s # << >> /\ Send(f, s, out_ready, done)
      BY <1>2, <1>3, <2>3 DEF Continue
    <3> QED BY <1>4, <2>2, <3>1
  <2>4. CASE \E g \in Sendable : Begin(g, out_ready, done)
    <3>1. PICK g \in Sendable : Begin(g, out_ready, done)
      BY <2>4
    <3>2. g \in Frame
      BY SendableAssumption
    <3>3. s = << >> /\ Send(g, Encode(g), out_ready, done)
      BY <1>3, <3>1 DEF Begin
    <3>4. PICK rest : rest = Encode(g)
      OBVIOUS
    <3> QED BY <2>2, <3>2, <3>3, <3>4
  <2> QED BY <1>8, <2>1, <2>3, <2>4 DEF Cycle
<1> QED BY <1>5, <1>6, <1>8 DEF WNext

LEMMA PInvHolds == WSpec => [](WInv /\ PInv)
<1>1. WInit => WInv /\ PInv
  <2>1. WInit => WInv
    BY RoutingInit DEF WInit, WInv
  <2> QED BY <2>1, BlankInit, BlankHolds
<1> QED BY <1>1, RoutingStep, PInvStep, PTL DEF WSpec

----------------------------------------------------------------------------
(* The theorems. *)

\* However the host pauses, the wire stalls, the handler takes its time and
\* resets come, what the pipeline sends is byte for byte the responses that are
\* owed to the frames it has taken, in the order of their requests.
THEOREM ResponsesComeInOrder == WSpec => []ResponsesInOrder
<1>1. WInv /\ PInv => ResponsesInOrder
  <2> SUFFICES ASSUME WInv, PInv, out_valid
               PROVE  owed # << >> /\ out_data = Head(Head(owed))
    BY DEF ResponsesInOrder
  <2>1. tx_state # "IDLE"
    BY IdleSilent
  <2>2. Owing(HdOwes(current) \o RxOwes(current)) /\ TxTypes /\ Replying /\ RoutingInv
    BY DEF WInv, PInv, OwedInv, HandlerInv
  <2>3. owed # << >> /\ \E rest \in {Head(owed)} : Fronting(rest)
    BY <2>1, <2>2, Zenon DEF Owing
  <2>4. PICK rest : rest = Head(owed) /\ Fronting(rest)
    BY <2>3, Zenon
  <2>5. out_data = Head(rest)
    BY <2>2, <2>4, FrontShows
  <2> QED BY <2>3, <2>4, <2>5
<1> QED BY <1>1, PInvHolds, PTL

\* Whenever no response is owed and the receiver waits for a frame,
\* handler_error_count is the number of frames dropped or refused since the
\* last reset, in its width.
THEOREM RefusalsAreCounted == WSpec => []RefusalsCounted
<1>1. WInv /\ PInv => RefusalsCounted
  <2> SUFFICES ASSUME WInv, PInv, owed = << >>, rx_state = "SEARCH_0"
               PROVE  handler_error_count = refused
    BY DEF RefusalsCounted
  <2>1. Owing(HdOwes(current) \o RxOwes(current)) /\ refused = Counted(current)
    BY DEF PInv, OwedInv
  <2>2. owed = HdOwes(current) \o RxOwes(current)
    BY <2>1, Zenon DEF Owing
  <2>3. ~standing
    BY DEF standing
  <2>4. hd_phase \notin HdPhases
    <3>1. RxOwes(current) = << >>
      BY <2>3 DEF RxOwes
    <3>2. SUFFICES ASSUME hd_phase \in HdPhases PROVE FALSE
      OBVIOUS
    <3>3. HdOwes(current) = <<Encode(Due(current))>>
      BY <3>2 DEF HdOwes
    <3>4. <<Encode(Due(current))>> \o << >> # << >>
      OBVIOUS
    <3> QED BY <2>2, <3>1, <3>3, <3>4
  <2> QED BY <2>1, <2>3, <2>4, Zenon DEF Counted, HdRefuses, RxRefuses
<1> QED BY <1>1, PInvHolds, PTL

----------------------------------------------------------------------------
(* The pipeline is the service its surroundings take it for. *)

\* No frame is the beginning of another one, and no two frames have the same bytes.
LEMMA FramesDiffer ==
  ASSUME NEW f \in Frame, NEW g \in Frame, NEW k \in 0 .. Len(Encode(f)),
         SubSeq(Encode(f), 1, k) = Encode(g)
  PROVE  k = Len(Encode(f)) /\ f = g
<1> DEFINE e == Encode(f)
           d == Encode(g)
           n == Len(f.payload)
           m == Len(g.payload)
<1>1. /\ e \in Seq(Byte) /\ Len(e) = 12 + n /\ n \in Nat
      /\ d \in Seq(Byte) /\ Len(d) = 12 + m /\ m \in Nat
      /\ Value(Pair(n)) = n /\ Value(Pair(m)) = m
      /\ Pair(n) \in TwoBytes /\ Pair(m) \in TwoBytes
      /\ f.flags \in TwoBytes /\ g.flags \in TwoBytes
  BY FrameFacts
<1>2. /\ e[4] = f.type /\ e[5] = f.flags[1] /\ e[6] = f.flags[2]
      /\ e[7] = Pair(n)[1] /\ e[8] = Pair(n)[2]
      /\ \A i \in 1 .. n : e[8 + i] = f.payload[i]
  BY EncodePlaces
<1>3. /\ d[4] = g.type /\ d[5] = g.flags[1] /\ d[6] = g.flags[2]
      /\ d[7] = Pair(m)[1] /\ d[8] = Pair(m)[2]
      /\ \A i \in 1 .. m : d[8 + i] = g.payload[i]
  BY EncodePlaces
<1>4. k = 12 + m /\ \A i \in 1 .. 12 + m : d[i] = e[i]
  <2>1. k \in 0 .. Len(e) /\ SubSeq(e, 1, k) = d
    OBVIOUS
  <2> HIDE DEF e, d
  <2>2. Len(SubSeq(e, 1, k)) = k /\ \A i \in 1 .. k : SubSeq(e, 1, k)[i] = e[i]
    BY <1>1, <2>1
  <2> QED BY <1>1, <2>1, <2>2
<1>5. Pair(n) = Pair(m) /\ f.flags = g.flags /\ f.type = g.type
  <2> HIDE DEF e, d, n, m
  <2>1. /\ Pair(n)[1] = Pair(m)[1] /\ Pair(n)[2] = Pair(m)[2]
        /\ f.flags[1] = g.flags[1] /\ f.flags[2] = g.flags[2] /\ f.type = g.type
    BY <1>1, <1>2, <1>3, <1>4
  <2>2. \A x, y \in TwoBytes : x[1] = y[1] /\ x[2] = y[2] => x = y
    BY DEF TwoBytes
  <2> QED BY <1>1, <2>1, <2>2, Zenon
<1>6. n = m
  BY <1>1, <1>5
<1>7. f.payload = g.payload
  <2>1. f.payload \in Seq(Byte) /\ g.payload \in Seq(Byte)
    BY FrameFields
  <2> HIDE DEF e, d
  <2>2. \A i \in 1 .. n : f.payload[i] = g.payload[i]
    BY <1>1, <1>2, <1>3, <1>4, <1>6
  <2> QED BY <1>6, <2>1, <2>2, SeqEqual
<1>8. f = g
  <2>1. /\ f = [type |-> f.type, flags |-> f.flags, payload |-> f.payload]
        /\ g = [type |-> g.type, flags |-> g.flags, payload |-> g.payload]
    BY DEF Frame
  <2> QED BY <1>5, <1>7, <2>1, Zenon
<1> QED BY <1>1, <1>4, <1>6, <1>8

\* The reply to a frame that is sent is the one that is owed to it.
LEMMA AnswerIs ==
  ASSUME NEW f \in Sendable
  PROVE  /\ IsSendable(Encode(f))
         /\ IF Asked(f) = << >> THEN AnswerTo(Encode(f)) = << >>
            ELSE AnswerTo(Encode(f)) # << >> /\ Asked(f) = <<AnswerTo(Encode(f))>>
<1> DEFINE All == {BytesOf[g] : g \in Sendable}
           e == Encode(f)
<1>0. f \in Frame /\ \A g \in Sendable : g \in Frame
  BY SendableAssumption
<1>1. \A g \in Sendable : BytesOf[g] = Encode(g)
  BY DEF BytesOf
<1>2. e \in All
  BY <1>1
<1>3. DOMAIN ReplyTo = All
  BY Zenon DEF ReplyTo
<1>4. f = CHOOSE g \in Sendable : BytesOf[g] = e
  <2>1. ASSUME NEW g \in Sendable, BytesOf[g] = e
        PROVE  g = f
    <3>1. Encode(g) = e /\ g \in Frame
      BY <1>0, <1>1, <2>1
    <3>2. Len(e) \in 0 .. Len(e) /\ SubSeq(e, 1, Len(e)) = e
      <4>1. e \in Seq(Byte)
        BY <1>0, FrameFacts
      <4> HIDE DEF e
      <4> QED BY <4>1
    <3> QED BY <1>0, <3>1, <3>2, FramesDiffer
  <2> QED BY <1>1, <2>1
<1> DEFINE h  == CHOOSE g \in Sendable : BytesOf[g] = e
           rs == CHOOSE r \in ResponsesTo(h) : TRUE
<1>5. AnswerTo(e) = IF rs = << >> THEN << >> ELSE Encode(rs[1])
  BY <1>2, Zenon DEF ReplyTo, AnswerTo
<1>6. h = f
  BY <1>4
<1> HIDE DEF h
<1>7. rs = TheResponses(f)
  <2>1. ResponsesTo(h) = {TheResponses(f)}
    BY <1>0, <1>6, OneAnswer
  <2> QED BY <2>1
<1> HIDE DEF rs
<1>8. f.type = TOKEN_REQUEST => TheReply(f.flags, f.payload) \in Frame
  <2>1. f.flags \in TwoBytes /\ f.payload \in Seq(Byte) /\ Len(f.payload) <= MAX_PAYLOAD_BYTES
    BY <1>0, FrameFields, FrameFacts
  <2> QED BY <2>1, OneReply
<1>9. \A r \in Frame : Encode(r) # << >>
  <2> SUFFICES ASSUME NEW r \in Frame PROVE Encode(r) # << >>
    OBVIOUS
  <2>1. Len(Encode(r)) = 12 + Len(r.payload) /\ Len(r.payload) \in Nat
    BY FrameFacts
  <2>2. Len(Encode(r)) # Len(<< >>)
    BY <2>1
  <2> QED BY <2>2, Zenon
<1>10. IsSendable(e)
  BY <1>2, <1>3 DEF IsSendable
<1>11. ASSUME NEW r \in Frame, rs = <<r>>, Asked(f) = <<Encode(r)>>
       PROVE  /\ Asked(f) # << >>
              /\ AnswerTo(e) # << >> /\ Asked(f) = <<AnswerTo(e)>>
  <2>1. rs # << >> /\ rs[1] = r /\ <<Encode(r)>> # << >>
    BY <1>11
  <2>2. AnswerTo(e) = Encode(r)
    BY <1>5, <2>1, Zenon
  <2> QED BY <1>9, <1>11, <2>1, <2>2, Zenon
<1>12. CASE f.type = TOKEN_REQUEST
  <2>1. /\ rs = <<TheReply(f.flags, f.payload)>>
        /\ Asked(f) = <<Encode(TheReply(f.flags, f.payload))>>
    BY <1>7, <1>12, Zenon DEF TheResponses, Asked
  <2> QED BY <1>8, <1>10, <1>11, <1>12, <2>1
<1>13. CASE f.type # TOKEN_REQUEST /\ f = Ping
  <2>1. rs = <<Pong>> /\ Asked(f) = <<Encode(Pong)>> /\ Pong \in Frame
    BY <1>7, <1>13, PongIsFrame, Zenon DEF TheResponses, Asked
  <2> QED BY <1>10, <1>11, <2>1
<1>14. CASE f.type # TOKEN_REQUEST /\ f # Ping
  <2>1. rs = << >> /\ Asked(f) = << >>
    BY <1>7, <1>14, Zenon DEF TheResponses, Asked
  <2> QED BY <1>5, <1>10, <2>1
<1> QED BY <1>12, <1>13, <1>14

\* What is not at rest was sent by the host.
SentInv == current \in Sendable \/ (current = Ping /\ unsent = << >> /\ ~standing)

AllInv == WInv /\ PInv /\ SentInv

\* The abstraction in terms of the invariant.
View ==
  /\ collected = IF unsent # << >>
                 THEN SubSeq(Encode(current), 1, Len(Encode(current)) - Len(unsent))
                 ELSE IF standing THEN Encode(current) ELSE << >>
  /\ IsSendable(collected) <=> unsent = << >> /\ standing
  /\ standing => unsent = << >> /\ current \in Sendable
  /\ accepted_replies \in Queue
  /\ owed = accepted_replies \o RxOwes(current)
  /\ accepted_replies = IF tx_state = "IDLE" THEN HdOwes(current)
                        ELSE <<Head(owed)>> \o HdOwes(current)

LEMMA AllButLast ==
  ASSUME NEW q \in Queue, NEW a \in Seq(Byte)
  PROVE  SubSeq(q \o <<a>>, 1, Len(q \o <<a>>) - 1) = q
<1>1. q \in Seq(Seq(Byte)) /\ <<a>> \in Seq(Seq(Byte)) /\ Len(q) \in Nat
  BY DEF Queue
<1> DEFINE r == q \o <<a>>
           n == Len(q)
<1>2. /\ r \in Seq(Seq(Byte)) /\ Len(r) = n + 1
      /\ \A i \in 1 .. n : r[i] = q[i]
  BY <1>1
<1> HIDE DEF r
<1>3. Len(r) - 1 = n
  BY <1>1, <1>2
<1> DEFINE t == SubSeq(r, 1, n)
<1>4. t \in Seq(Seq(Byte)) /\ Len(t) = n /\ \A i \in 1 .. n : t[i] = r[i]
  BY <1>1, <1>2
<1> HIDE DEF t
<1>5. \A i \in 1 .. n : t[i] = q[i]
  BY <1>2, <1>4
<1>6. t = q
  BY <1>1, <1>4, <1>5, SeqEqual
<1>7. SubSeq(r, 1, Len(r) - 1) = q
  BY <1>3, <1>6 DEF t
<1> QED BY <1>7 DEF r

LEMMA ViewHolds == AllInv => View
<1> SUFFICES ASSUME AllInv PROVE View
  OBVIOUS
<1>0. /\ RoutingInv /\ ReceiverInv /\ Replying /\ TxTypes /\ SentInv
      /\ Owing(HdOwes(current) \o RxOwes(current)) /\ unsent \in Seq(Byte)
  BY DEF AllInv, WInv, PInv, HandlerInv, OwedInv
<1>1. PICK f : f = current
  OBVIOUS
<1>2. PICK s : s = unsent
  OBVIOUS
<1>3. f \in Frame /\ s \in Seq(Byte) /\ Coming(f, s)
  BY <1>0, <1>1, <1>2 DEF ReceiverInv
<1> DEFINE e == Encode(f)
           k == Len(e) - Len(s)
<1>4. e \in Seq(Byte) /\ Len(e) \in Nat /\ Len(e) >= 12 /\ Len(e) = 12 + Len(f.payload)
  BY <1>3, FrameFacts
<1>5. s # << >> => k \in 1 .. Len(e) - 1 /\ Receiving(f, k)
  BY <1>3, Zenon DEF Coming
<1>6. standing => s = << >> /\ f \in Sendable
  <2>1. ASSUME standing, s # << >> PROVE FALSE
    <3>1. k \in 0 .. 12 + Len(f.payload) /\ k # 12 + Len(f.payload) /\ RxAt(f, k)
      <4>1. k \in 1 .. Len(e) - 1 /\ RxAt(f, k)
        BY <1>5, <2>1 DEF Receiving
      <4> HIDE DEF k, e
      <4> QED BY <1>4, <4>1
    <3> HIDE DEF k
    <3> QED BY <1>3, <2>1, <3>1, RxPlace DEF standing, RxOutput
  <2> QED BY <1>0, <1>1, <1>2, <2>1 DEF SentInv
<1>7. s # << >> \/ standing => f \in Sendable /\ BytesOf[f] = e
  BY <1>0, <1>1, <1>2 DEF SentInv, BytesOf
<1>8. collected = IF s # << >> THEN SubSeq(e, 1, k) ELSE IF standing THEN e ELSE << >>
  BY <1>1, <1>2, <1>7, Zenon DEF collected
<1>9. IsSendable(collected) <=> s = << >> /\ standing
  <2>1. ASSUME NEW m \in 0 .. Len(e) - 1, NEW g \in Sendable, SubSeq(e, 1, m) = Encode(g)
        PROVE  FALSE
    <3>1. m \in 0 .. Len(e) /\ m # Len(e)
      BY <1>4, <2>1
    <3> QED BY <1>3, <2>1, <3>1, FramesDiffer, SendableAssumption
  <2>2. \A b : IsSendable(b) => \E g \in Sendable : b = Encode(g)
    BY Zenon DEF IsSendable, ReplyTo, BytesOf
  <2>3. CASE s # << >>
    <3>1. k \in 0 .. Len(e) - 1
      BY <1>4, <1>5, <2>3
    <3>2. collected = SubSeq(e, 1, k)
      BY <1>8, <2>3
    <3> QED BY <2>1, <2>2, <2>3, <3>1, <3>2, Zenon
  <2>4. CASE s = << >> /\ standing
    BY <1>7, <1>8, <2>4, AnswerIs
  <2>5. CASE s = << >> /\ ~standing
    <3>1. collected = SubSeq(e, 1, 0) /\ 0 \in 0 .. Len(e) - 1
      BY <1>4, <1>8, <2>5
    <3> QED BY <2>1, <2>2, <2>5, <3>1, Zenon
  <2> QED BY <2>3, <2>4, <2>5
<1>10. HdOwes(f) \in Queue /\ RxOwes(f) \in Queue
  <2>1. << >> \in Queue /\ \A a \in Seq(Byte) : <<a>> \in Queue
    BY DEF Queue
  <2>2. hd_phase \in HdPhases => Encode(Due(f)) \in Seq(Byte)
    BY <1>0, <1>3, DueFrame, FrameFacts
  <2> QED BY <1>3, <2>1, <2>2, AskedFrames DEF HdOwes, RxOwes
<1>11. PICK q : q = IF tx_state = "IDLE" THEN HdOwes(f) ELSE <<Head(owed)>> \o HdOwes(f)
  OBVIOUS
<1>12. q \in Queue /\ owed = q \o RxOwes(f)
  <2>1. CASE tx_state = "IDLE"
    BY <1>0, <1>1, <1>10, <1>11, <2>1 DEF Owing
  <2>2. CASE tx_state # "IDLE"
    <3>1. PICK rest : /\ rest = Head(owed) /\ Fronting(rest)
                      /\ owed = <<rest>> \o (HdOwes(f) \o RxOwes(f))
      BY <1>0, <1>1, <2>2, Zenon DEF Owing
    <3>2. rest \in Seq(Byte)
      BY <1>0, <3>1, FrontShows
    <3>3. q = <<rest>> \o HdOwes(f) /\ owed = q \o RxOwes(f)
      BY <1>10, <1>11, <2>2, <3>1, <3>2, QueueBehind
    <3> QED BY <1>10, <3>2, <3>3, Queues
  <2> QED BY <2>1, <2>2
<1>13. accepted_replies = q
  <2>1. CASE standing
    <3>1. /\ f \in Sendable /\ BytesOf[f] = e
          /\ RxOwes(f) = Asked(f)
          /\ ReplyTo[e] = AnswerTo(e)
      BY <1>7, <2>1 DEF RxOwes, AnswerTo
    <3>2. CASE Asked(f) = << >>
      <4>1. AnswerTo(e) = << >>
        BY <3>1, <3>2, AnswerIs
      <4>2. owed = q
        BY <1>12, <3>1, <3>2, Queues
      <4> QED BY <1>1, <3>1, <4>1, <4>2, Zenon DEF accepted_replies
    <3>3. CASE Asked(f) # << >>
      <4>1. AnswerTo(e) # << >> /\ Asked(f) = <<AnswerTo(e)>>
        BY <3>1, <3>3, AnswerIs
      <4>2. AnswerTo(e) \in Seq(Byte)
        <5>1. <<AnswerTo(e)>> \in Seq(Seq(Byte))
          BY <1>10, <3>1, <4>1 DEF Queue
        <5> QED BY <5>1
      <4>3. SubSeq(owed, 1, Len(owed) - 1) = q
        BY <1>12, <3>1, <4>1, <4>2, AllButLast
      <4> QED BY <1>1, <2>1, <3>1, <4>1, <4>3, Zenon DEF accepted_replies
    <3> QED BY <3>2, <3>3
  <2>2. CASE ~standing
    <3>1. owed = q
      BY <1>12, <2>2, ConcatEmptySeq DEF Queue, RxOwes
    <3> QED BY <2>2, <3>1, Zenon DEF accepted_replies
  <2> QED BY <2>1, <2>2
<1> QED BY <1>1, <1>2, <1>6, <1>8, <1>9, <1>11, <1>12, <1>13, Zenon DEF View

LEMMA ViewNext == AllInv' => View'
BY ViewHolds, PTL

\* What is owed ends with what is owed to the frame in the receiver; before
\* that nothing is ambiguous.
LEMMA SameBefore ==
  ASSUME NEW q \in Queue, NEW r \in Queue, NEW f \in Frame, NEW t,
         t = << >> \/ t = Asked(f), q \o t = r \o t
  PROVE  q = r
<1>1. CASE t = << >>
  <2>1. q \o << >> = q /\ r \o << >> = r
    BY ConcatEmptySeq DEF Queue
  <2> QED BY <1>1, <2>1
<1>2. ASSUME NEW a \in Seq(Byte), t = <<a>>
      PROVE  q = r
  <2>1. /\ SubSeq(q \o <<a>>, 1, Len(q \o <<a>>) - 1) = q
        /\ SubSeq(r \o <<a>>, 1, Len(r \o <<a>>) - 1) = r
    BY AllButLast
  <2> QED BY <1>2, <2>1
<1>3. t = << >> \/ \E a \in Seq(Byte) : t = <<a>>
  <2>1. Encode(Pong) \in Seq(Byte)
    BY PongIsFrame, FrameFacts
  <2>2. f.type = TOKEN_REQUEST => Encode(TheReply(f.flags, f.payload)) \in Seq(Byte)
    BY AskedFrames
  <2> QED BY <2>1, <2>2, Zenon DEF Asked
<1> QED BY <1>1, <1>2, <1>3

\* The byte that leaves is the first of the replies, and the service may send it.
LEMMA Remains ==
  ASSUME AllInv, View, NEW out_ready, NEW rem,
         rem = IF leaves(out_ready) THEN Service!Remaining ELSE accepted_replies
  PROVE  /\ rem \in Queue /\ Left(out_ready) = rem \o RxOwes(current)
         /\ leaves(out_ready) => Service!out_valid
<1>0. /\ RoutingInv /\ Replying /\ TxTypes /\ current \in Frame
      /\ Owing(HdOwes(current) \o RxOwes(current))
  BY DEF AllInv, WInv, PInv, ReceiverInv, HandlerInv, OwedInv
<1>1. PICK q : q = accepted_replies
  OBVIOUS
<1>2. PICK H : H = HdOwes(current)
  OBVIOUS
<1>3. PICK R : R = RxOwes(current)
  OBVIOUS
<1>4. /\ q \in Queue /\ owed = q \o R
      /\ q = IF tx_state = "IDLE" THEN H ELSE <<Head(owed)>> \o H
  BY <1>1, <1>2, <1>3, Zenon DEF View
<1>5. R \in Queue /\ H \in Queue
  <2>1. << >> \in Queue /\ \A a \in Seq(Byte) : <<a>> \in Queue
    BY DEF Queue
  <2>2. hd_phase \in HdPhases => Encode(Due(current)) \in Seq(Byte)
    BY <1>0, DueFrame, FrameFacts
  <2> QED BY <1>0, <1>2, <1>3, <2>1, <2>2, AskedFrames DEF HdOwes, RxOwes
<1>6. CASE ~leaves(out_ready)
  <2>1. rem = q /\ Left(out_ready) = owed
    BY <1>1, <1>6, Zenon DEF Left
  <2> QED BY <1>3, <1>4, <1>6, <2>1
<1>7. CASE leaves(out_ready)
  <2>1. tx_state # "IDLE"
    BY <1>7, IdleSilent DEF leaves
  <2>2. PICK h : h = Head(owed) /\ Fronting(h)
    BY <1>0, <2>1, Zenon DEF Owing
  <2>3. h \in Seq(Byte) /\ h # << >> /\ Tail(h) \in Seq(Byte)
    BY <1>0, <2>2, FrontShows, FirstAndRest
  <2>4. q = <<h>> \o H /\ owed = <<h>> \o (H \o R)
    <3>1. q = <<h>> \o H
      BY <1>4, <2>1, <2>2
    <3> QED BY <1>4, <1>5, <2>3, <3>1, QueueBehind
  <2>5. H \o R \in Queue
    BY <1>5, ConcatProperties DEF Queue
  <2>6. /\ q # << >> /\ Head(q) = h /\ Tail(q) = H
    BY <1>5, <2>3, <2>4, Queues
  <2>7. owed # << >> /\ Head(owed) = h /\ Tail(owed) = H \o R
    BY <2>3, <2>4, <2>5, Queues
  <2>8. rem = IF Len(h) = 1 THEN H ELSE <<Tail(h)>> \o H
    BY <1>1, <1>7, <2>6, Zenon DEF Service!Remaining
  <2>9. Left(out_ready) = IF Len(h) = 1 THEN H \o R ELSE <<Tail(h)>> \o (H \o R)
    BY <1>7, <2>7, Zenon DEF Left
  <2>10. (<<Tail(h)>> \o H) \o R = <<Tail(h)>> \o (H \o R) /\ <<Tail(h)>> \o H \in Queue
    <3>1. <<Tail(h)>> \in Queue
      BY <2>3 DEF Queue
    <3>2. <<Tail(h)>> \o H \in Queue
      BY <1>5, <3>1, ConcatProperties DEF Queue
    <3> QED BY <1>5, <2>3, <3>2, QueueBehind
  <2>11. Service!out_valid
    <3>1. hd_phase \in {"COLLECT", "WORK"} => Len(q) > 1
      <4> SUFFICES ASSUME hd_phase \in {"COLLECT", "WORK"} PROVE Len(q) > 1
        OBVIOUS
      <4>1. PICK x : x = Encode(Due(current))
        OBVIOUS
      <4>2. H = <<x>>
        BY <1>2, <4>1 DEF HdOwes, HdPhases
      <4>3. q = <<h>> \o <<x>>
        BY <2>4, <4>2
      <4> QED BY <4>3
    <3> QED BY <1>1, <2>6, <3>1 DEF Service!out_valid
  <2> QED BY <1>3, <1>5, <2>8, <2>9, <2>10, <2>11, Zenon
<1> QED BY <1>6, <1>7

\* The abstraction after a step.
LEMMA ViewAfter ==
  ASSUME View', NEW f, NEW s, current' = f, unsent' = s
  PROVE  /\ collected' = IF s # << >> THEN SubSeq(Encode(f), 1, Len(Encode(f)) - Len(s))
                         ELSE IF standing' THEN Encode(f) ELSE << >>
         /\ accepted_replies' \in Queue
         /\ owed' = accepted_replies' \o RxOwes(f)'
BY DEF View

\* The handler begins to work on a request only when one is accepted.
LEMMA WorkBegins ==
  ASSUME RoutingInv, Replying, NEW f \in Frame, Handling(f),
         rx_state \in RxOutput => RxHolds(f, 12 + Len(f.payload)),
         NEW iv, NEW b, NEW out_ready \in BOOLEAN, NEW done, Clock(iv, b, out_ready, done),
         hd_phase' \in {"COLLECT", "WORK"}
  PROVE  \/ received_frame_accepted /\ f.type = TOKEN_REQUEST
         \/ hd_phase \in {"COLLECT", "WORK"}
<1>1. IF received_frame_accepted /\ token_request
      THEN f.type = TOKEN_REQUEST
      ELSE hd_phase' \in HdPhases => hd_phase \in HdPhases
  BY HandlerDue
<1>2. hd_phase = "RESPONSE_HEADER" => hd_phase' \in {"RESPONSE_PAYLOAD", "RESPONSE_HEADER"}
  BY HandlerDue
<1> QED BY <1>1, <1>2 DEF HdPhases

\* A cycle without a byte is a step of the service.
LEMMA PauseServes ==
  ASSUME AllInv, AllInv', NEW out_ready \in BOOLEAN, NEW done \in BOOLEAN,
         Pause(out_ready, done)
  PROVE  Service!Next
<1>1. PICK f : f = current
  OBVIOUS
<1>2. PICK s : s = unsent
  OBVIOUS
<1>3. /\ Clock(FALSE, 0, out_ready, done) /\ owed' = Left(out_ready)
      /\ current' = f /\ unsent' = s
  BY <1>1, <1>2 DEF Pause
<1>4. /\ RoutingInv /\ RoutingInv' /\ RxTypes /\ f \in Frame /\ Coming(f, s)
      /\ Replying /\ Handling(f)
  BY <1>1, <1>2 DEF AllInv, WInv, PInv, ReceiverInv, HandlerInv
<1>5. View /\ View'
  BY ViewHolds, ViewNext
<1>6. rx_state \in RxOutput => RxHolds(f, 12 + Len(f.payload))
  BY <1>4, ComingHolds
<1>7. standing' <=> standing /\ ~received_frame_accepted
  BY <1>3, <1>4, StandingStays
<1>8. PICK accepted \in BOOLEAN : accepted <=> received_frame_accepted
  BY Zenon
<1>9. PICK sent \in BOOLEAN : sent <=> leaves(out_ready)
  BY Zenon
<1>10. PICK rem : rem = IF leaves(out_ready) THEN Service!Remaining ELSE accepted_replies
  OBVIOUS
<1>11. /\ rem \in Queue /\ owed' = rem \o RxOwes(f)
       /\ sent => Service!out_valid
  BY <1>1, <1>3, <1>5, <1>9, <1>10, Remains
<1>12. accepted => hd_phase = "IDLE" /\ rx_state = "OUTPUT_FRAME"
  BY <1>4, <1>6, <1>8, Accepts
<1>13. accepted => standing /\ s = << >> /\ f \in Sendable /\ collected = Encode(f)
  <2>1. accepted => standing
    BY <1>12 DEF standing
  <2>2. standing => s = << >> /\ f \in Sendable
    BY <1>1, <1>2, <1>5, Zenon DEF View
  <2> QED BY <1>1, <1>2, <1>5, <2>1, <2>2, Zenon DEF View
<1>14. /\ collected' = IF s # << >> THEN SubSeq(Encode(f), 1, Len(Encode(f)) - Len(s))
                       ELSE IF standing' THEN Encode(f) ELSE << >>
       /\ accepted_replies' \in Queue /\ owed' = accepted_replies' \o RxOwes(f)'
  BY <1>3, <1>5, ViewAfter
<1>15. PICK q : q = accepted_replies'
  OBVIOUS
<1>16. collected' = IF accepted THEN << >> ELSE collected \o << >>
  <2>1. CASE accepted
    <3>1. s = << >> /\ ~standing'
      BY <1>7, <1>8, <1>13, <2>1
    <3> QED BY <1>14, <2>1, <3>1, Zenon
  <2>2. CASE ~accepted
    <3>1. standing' <=> standing
      BY <1>7, <1>8, <2>2
    <3>2. collected = IF s # << >> THEN SubSeq(Encode(f), 1, Len(Encode(f)) - Len(s))
                      ELSE IF standing THEN Encode(f) ELSE << >>
      BY <1>1, <1>2, <1>5, Zenon DEF View
    <3>3. collected' = collected
      BY <1>14, <3>1, <3>2, Zenon
    <3>4. collected \in Seq(Byte)
      <4>1. Encode(f) \in Seq(Byte) /\ Len(Encode(f)) \in Nat
        BY <1>4, FrameFacts
      <4>2. s # << >> => Len(Encode(f)) - Len(s) \in 1 .. Len(Encode(f)) - 1
        BY <1>4, Zenon DEF Coming
      <4>3. s # << >> => SubSeq(Encode(f), 1, Len(Encode(f)) - Len(s)) \in Seq(Byte)
        <5> DEFINE e == Encode(f)
                   k == Len(e) - Len(s)
        <5>1. s # << >> => k \in 1 .. Len(e) - 1
          BY <4>2
        <5> HIDE DEF k, e
        <5>2. e \in Seq(Byte) => (k \in 1 .. Len(e) - 1 => SubSeq(e, 1, k) \in Seq(Byte))
          OBVIOUS
        <5> QED BY <4>1, <5>1, <5>2 DEF k, e
      <4>4. << >> \in Seq(Byte)
        OBVIOUS
      <4> QED BY <3>2, <4>1, <4>3, <4>4, Zenon
    <3>5. collected \o << >> = collected
      BY <3>4, ConcatEmptySeq
    <3> QED BY <2>2, <3>3, <3>5, Zenon
  <2> QED BY <2>1, <2>2
<1>17. PICK answered \in BOOLEAN : answered <=> accepted /\ AnswerTo(collected) # << >>
  BY Zenon
<1>18. q = rem \o (IF answered THEN <<AnswerTo(collected)>> ELSE << >>)
  <2>1. rem \o << >> = rem /\ q \o << >> = q
    BY <1>11, <1>14, <1>15, ConcatEmptySeq DEF Queue
  <2>2. CASE accepted
    <3>1. RxOwes(f)' = << >> /\ RxOwes(f) = Asked(f)
      BY <1>7, <1>8, <1>13, <2>2 DEF RxOwes
    <3>2. q = rem \o Asked(f)
      BY <1>11, <1>14, <1>15, <2>1, <3>1, Zenon
    <3>3. IF Asked(f) = << >> THEN AnswerTo(collected) = << >>
          ELSE AnswerTo(collected) # << >> /\ Asked(f) = <<AnswerTo(collected)>>
      BY <1>13, <2>2, AnswerIs
    <3> QED BY <1>17, <2>2, <3>2, <3>3, Zenon
  <2>3. CASE ~accepted
    <3>1. RxOwes(f)' = RxOwes(f)
      BY <1>7, <1>8, <2>3 DEF RxOwes, Asked
    <3>2. PICK t : t = RxOwes(f)
      OBVIOUS
    <3>3. t = << >> \/ t = Asked(f)
      BY <3>2 DEF RxOwes
    <3>4. q \o t = rem \o t /\ q \in Queue
      BY <1>11, <1>14, <1>15, <3>1, <3>2, Zenon
    <3>5. q = rem
      BY <1>4, <1>11, <3>3, <3>4, SameBefore
    <3> QED BY <1>17, <2>1, <2>3, <3>5, Zenon
  <2> QED BY <2>2, <2>3
<1>19. PICK working \in BOOLEAN : working <=> hd_phase \in {"COLLECT", "WORK"}
  BY Zenon
<1>20. PICK later \in BOOLEAN : later <=> hd_phase' \in {"COLLECT", "WORK"}
  BY Zenon
<1>21. later => answered \/ working
  <2> SUFFICES ASSUME later, ~working PROVE answered
    OBVIOUS
  <2>1. received_frame_accepted /\ f.type = TOKEN_REQUEST
    BY <1>3, <1>4, <1>6, <1>19, <1>20, WorkBegins
  <2>2. Asked(f) # << >>
    BY <2>1 DEF Asked
  <2> QED BY <1>8, <1>13, <1>17, <2>1, <2>2, AnswerIs
<1>22. accepted => Service!may_accept
  <2> SUFFICES ASSUME accepted PROVE Service!may_accept
    OBVIOUS
  <2>1. Service!complete
    BY <1>1, <1>2, <1>5, <1>13, Zenon DEF View, Service!complete
  <2>2. ~(hd_phase \in {"COLLECT", "WORK"}) /\ HdOwes(f) = << >>
    BY <1>12 DEF HdOwes, HdPhases
  <2>3. PICK p : p = accepted_replies
    OBVIOUS
  <2>4. PICK h : h = Head(owed)
    OBVIOUS
  <2>5. p = << >> \/ p = <<h>> \o << >>
    BY <1>1, <1>5, <2>2, <2>3, <2>4, Zenon DEF View
  <2>6. p = << >> \/ Len(p) = 1
    BY <2>5
  <2> QED BY <2>1, <2>2, <2>3, <2>6, Zenon DEF Service!may_accept
<1>23. Service!Edge(<< >>, accepted, sent, ~later)
  <2>1. (hd_phase \in {"COLLECT", "WORK"})' = ((answered \/ working) /\ ~~later)
    BY <1>20, <1>21
  <2> QED BY <1>9, <1>10, <1>15, <1>16, <1>17, <1>18, <1>19, <2>1, Zenon DEF Service!Edge
<1>24. (~later) \in BOOLEAN
  OBVIOUS
<1> QED BY <1>11, <1>22, <1>23, <1>24, Zenon DEF Service!Next

\* A cycle that takes a byte of a frame is a step of the service.
LEMMA SendServes ==
  ASSUME AllInv, AllInv', NEW g \in Sendable, NEW rest,
         IF unsent = << >> THEN rest = Encode(g) ELSE g = current /\ rest = unsent,
         NEW out_ready \in BOOLEAN, NEW done \in BOOLEAN, Send(g, rest, out_ready, done)
  PROVE  Service!Next
<1> DEFINE e == Encode(g)
           k == Len(e) - Len(rest)
           b == Head(rest)
<1>1. PICK f : f = current
  OBVIOUS
<1>2. PICK s : s = unsent
  OBVIOUS
<1>3. /\ in_ready /\ Clock(TRUE, b, out_ready, done)
      /\ current' = g /\ unsent' = Tail(rest)
      /\ IF Len(rest) = 1
         THEN \E responses \in ResponsesTo(g) :
                owed' = Left(out_ready) \o [i \in DOMAIN responses |-> Encode(responses[i])]
         ELSE owed' = Left(out_ready)
  BY DEF Send
<1>4. /\ RoutingInv /\ RoutingInv' /\ RxTypes /\ f \in Frame /\ s \in Seq(Byte) /\ Coming(f, s)
      /\ Replying /\ Handling(f) /\ g \in Frame
      /\ IF s = << >> THEN rest = Encode(g) ELSE g = f /\ rest = s
  BY <1>1, <1>2, SendableAssumption DEF AllInv, WInv, PInv, ReceiverInv, HandlerInv
<1>5. View /\ View'
  BY ViewHolds, ViewNext
<1>6. /\ rx_state \notin RxOutput \cup {"VALIDATE"}
      /\ rx_state' \notin RxOutput /\ (rx_state' = "VALIDATE" <=> Len(rest) = 1)
  <2>1. Rx!Clock(TRUE, Head(rest), received_frame_ready, received_payload_ready)
    BY <1>3 DEF Clock, RxClock
  <2>2. RxOK /\ RxOK'
    BY <1>4 DEF RoutingInv
  <2>3. Rx!in_ready
    BY <1>3 DEF in_ready
  <2> QED BY <1>4, <2>1, <2>2, <2>3, ComingTakes
<1>7. ~standing /\ ~received_frame_accepted /\ (standing' <=> Len(rest) = 1)
  <2>1. ~received_frame_accepted
    BY <1>4, <1>6, Wires DEF RxOutput
  <2> QED BY <1>6, <2>1 DEF standing, RxOutput
<1>8. e \in Seq(Byte) /\ Len(e) \in Nat /\ Len(e) >= 12
  BY <1>4, FrameFacts
<1>9. /\ k \in Nat /\ k < Len(e) /\ IsRest(rest, e, k)
      /\ collected = SubSeq(e, 1, k)
  <2>1. CASE s = << >>
    <3>1. rest = e
      BY <1>4, <2>1
    <3>2. k = 0
      BY <1>8, <3>1
    <3>3. SubSeq(e, 1, 0) = << >> /\ SubSeq(e, 1, Len(e)) = e
      <4>1. 0 \in Nat /\ 0 < Len(e)
        BY <1>8
      <4> QED BY <1>8, <4>1, Longer
    <3>4. IsRest(rest, e, 0)
      <4>1. 0 + 1 = 1
        OBVIOUS
      <4> QED BY <3>1, <3>3, <4>1, Zenon DEF IsRest
    <3>5. collected = << >>
      BY <1>2, <1>5, <1>7, <2>1, Zenon DEF View
    <3> QED BY <1>8, <3>2, <3>3, <3>4, <3>5
  <2>2. CASE s # << >>
    <3>1. g = f /\ rest = s
      BY <1>4, <2>2
    <3>2. k \in 1 .. Len(e) - 1 /\ IsRest(rest, e, k)
      BY <1>4, <2>2, <3>1, Zenon DEF Coming
    <3>3. collected = SubSeq(e, 1, k)
      BY <1>1, <1>2, <1>5, <2>2, <3>1, Zenon DEF View
    <3>4. k \in Nat /\ k < Len(e)
      <4> HIDE DEF k, e
      <4> QED BY <1>8, <3>2
    <3> QED BY <3>2, <3>3, <3>4
  <2> QED BY <2>1, <2>2
<1> HIDE DEF k
<1>10. /\ Len(rest) = Len(e) - k /\ b = e[k + 1] /\ b \in Byte
       /\ Len(Tail(rest)) = Len(e) - (k + 1)
       /\ Tail(rest) = << >> <=> k + 1 = Len(e)
  <2> HIDE DEF e
  <2> QED BY <1>8, <1>9, RestOf
<1>11. PICK t : t = Tail(rest)
  OBVIOUS
<1>12. /\ collected' = IF t # << >> THEN SubSeq(e, 1, Len(e) - Len(t))
                       ELSE IF standing' THEN e ELSE << >>
       /\ accepted_replies' \in Queue /\ owed' = accepted_replies' \o RxOwes(g)'
  BY <1>3, <1>5, <1>11, ViewAfter
<1>13. collected' = collected \o <<b>>
  <2>1. collected' = SubSeq(e, 1, k + 1)
    <3>1. t = << >> <=> k + 1 = Len(e)
      BY <1>10, <1>11
    <3>2. CASE t = << >>
      <4>1. k + 1 = Len(e) /\ standing'
        <5>1. k + 1 = Len(e)
          BY <3>1, <3>2
        <5>2. Len(rest) = 1
          <6> HIDE DEF e
          <6> QED BY <1>8, <1>9, <1>10, <5>1
        <5> QED BY <1>7, <5>1, <5>2
      <4>2. SubSeq(e, 1, Len(e)) = e
        <5> HIDE DEF e
        <5> QED BY <1>8, <1>9, Longer
      <4> QED BY <1>12, <3>2, <4>1, <4>2, Zenon
    <3>3. CASE t # << >>
      <4>1. Len(e) - Len(t) = k + 1
        <5>1. Len(t) = Len(e) - (k + 1)
          BY <1>10, <1>11, Zenon
        <5>2. k \in Nat /\ Len(e) \in Nat
          BY <1>8, <1>9
        <5> HIDE DEF e
        <5> QED BY ONLY <5>1, <5>2
      <4> QED BY <1>12, <3>3, <4>1, Zenon
    <3> QED BY <3>2, <3>3
  <2>2. Append(SubSeq(e, 1, k), e[k + 1]) = SubSeq(e, 1, k + 1)
    <3> HIDE DEF e
    <3> QED BY <1>8, <1>9, Longer
  <2>3. PICK u : u = SubSeq(e, 1, k)
    OBVIOUS
  <2>4. u \in Seq(Byte)
    <3> HIDE DEF e
    <3> QED BY <1>8, <1>9, <2>3
  <2>5. Append(u, b) = u \o <<b>>
    <3> HIDE DEF b
    <3> QED BY <1>10, <2>4
  <2> QED BY <1>9, <1>10, <2>1, <2>2, <2>3, <2>5, Zenon
<1>14. PICK sent \in BOOLEAN : sent <=> leaves(out_ready)
  BY Zenon
<1>15. PICK rem : rem = IF leaves(out_ready) THEN Service!Remaining ELSE accepted_replies
  OBVIOUS
<1>16. /\ rem \in Queue /\ Left(out_ready) = rem
       /\ sent => Service!out_valid
  <2>1. /\ rem \in Queue /\ Left(out_ready) = rem \o RxOwes(current)
        /\ sent => Service!out_valid
    BY <1>5, <1>14, <1>15, Remains
  <2>2. RxOwes(current) = << >>
    BY <1>7 DEF RxOwes
  <2>3. rem \o << >> = rem
    BY <2>1, ConcatEmptySeq DEF Queue
  <2> QED BY <2>1, <2>2, <2>3
<1>17. PICK q : q = accepted_replies'
  OBVIOUS
<1>18. PICK new : new = IF Len(rest) = 1 THEN Asked(g) ELSE << >>
  OBVIOUS
<1>19. rem \o << >> = rem
  BY <1>16, ConcatEmptySeq DEF Queue
<1>20. q = rem
  <2>1. owed' = rem \o new
    <3>1. CASE Len(rest) = 1
      <4>1. PICK responses \in ResponsesTo(g) :
              owed' = Left(out_ready) \o [i \in DOMAIN responses |-> Encode(responses[i])]
        BY <1>3, <3>1
      <4>2. [i \in DOMAIN responses |-> Encode(responses[i])] = Asked(g)
        BY <1>4, AskedIs
      <4> QED BY <1>16, <1>18, <3>1, <4>1, <4>2, Zenon
    <3>2. CASE Len(rest) # 1
      BY <1>3, <1>16, <1>18, <1>19, <3>2, Zenon
    <3> QED BY <3>1, <3>2
  <2>2. RxOwes(g)' = new
    BY <1>7, <1>18 DEF RxOwes, Asked
  <2>3. q \in Queue /\ q \o new = rem \o new
    BY <1>12, <1>17, <2>1, <2>2, Zenon
  <2>4. new = << >> \/ new = Asked(g)
    BY <1>18
  <2> QED BY <1>4, <1>16, <2>3, <2>4, SameBefore
<1>21. PICK working \in BOOLEAN : working <=> hd_phase \in {"COLLECT", "WORK"}
  BY Zenon
<1>22. PICK later \in BOOLEAN : later <=> hd_phase' \in {"COLLECT", "WORK"}
  BY Zenon
<1>23. later => working
  <2> SUFFICES ASSUME later PROVE working
    OBVIOUS
  <2>1. rx_state \in RxOutput => RxHolds(f, 12 + Len(f.payload))
    BY <1>6
  <2>2. hd_phase \in {"COLLECT", "WORK"}
    BY <1>3, <1>4, <1>7, <1>22, <2>1, WorkBegins
  <2> QED BY <1>21, <2>2
<1>24. Service!in_ready
  BY <1>5, <1>7, Zenon DEF View, Service!in_ready, Service!complete
<1>25. Service!Edge(<<b>>, FALSE, sent, ~later)
  <2>1. (hd_phase \in {"COLLECT", "WORK"})' = ((FALSE \/ working) /\ ~~later)
    BY <1>22, <1>23
  <2> HIDE DEF b
  <2> QED BY <1>13, <1>14, <1>15, <1>17, <1>19, <1>20, <1>21, <2>1, Zenon DEF Service!Edge
<1>26. (~later) \in BOOLEAN /\ FALSE \in BOOLEAN /\ b \in Byte
  BY <1>10
<1> HIDE DEF b
<1> QED BY <1>16, <1>24, <1>25, <1>26, Zenon DEF Service!Next

\* Only what the host sends comes.
LEMMA SentStep == WInv /\ PInv /\ SentInv /\ [WNext]_wvars => SentInv'
<1> SUFFICES ASSUME WInv, PInv, SentInv, [WNext]_wvars PROVE SentInv'
  OBVIOUS
<1>1. RoutingInv /\ RoutingInv'
  BY RoutingStep DEF WInv
<1>2. CASE WReset
  BY <1>2 DEF WReset, Reset, Rx!Reset, Rx!Goto, SentInv, standing
<1>3. CASE UNCHANGED wvars
  BY <1>3 DEF wvars, vars, Rx!vars, SentInv, standing
<1>4. ASSUME NEW out_ready \in BOOLEAN, NEW done \in BOOLEAN, Cycle(out_ready, done)
      PROVE  SentInv'
  <2>1. CASE Pause(out_ready, done)
    <3>1. PICK f : f = current
      OBVIOUS
    <3>2. PICK s : s = unsent
      OBVIOUS
    <3>3. Clock(FALSE, 0, out_ready, done) /\ current' = f /\ unsent' = s
      BY <2>1, <3>1, <3>2 DEF Pause
    <3>4. RxTypes /\ f \in Frame /\ Coming(f, s)
      BY <3>1, <3>2 DEF PInv, ReceiverInv
    <3>5. standing' => standing
      BY <1>1, <3>3, <3>4, StandingStays
    <3> QED BY <3>1, <3>2, <3>3, <3>5 DEF SentInv
  <2>2. CASE Continue(out_ready, done)
    <3>1. unsent # << >> /\ current' = current
      BY <2>2 DEF Continue, Send
    <3> QED BY <3>1 DEF SentInv
  <2>3. CASE \E g \in Sendable : Begin(g, out_ready, done)
    <3>1. PICK g \in Sendable : Begin(g, out_ready, done)
      BY <2>3
    <3>2. current' = g
      BY <3>1 DEF Begin, Send
    <3> QED BY <3>2 DEF SentInv
  <2> QED BY <1>4, <2>1, <2>2, <2>3 DEF Cycle
<1> QED BY <1>2, <1>3, <1>4 DEF WNext

LEMMA AllStep == AllInv /\ [WNext]_wvars => AllInv'
BY RoutingStep, PInvStep, SentStep DEF AllInv

\* At power-up and after a reset the service has nothing to do.
LEMMA BlankServes == Blank => Service!Init
<1> SUFFICES ASSUME Blank PROVE Service!Init
  OBVIOUS
<1>1. unsent = << >> /\ ~standing /\ owed = << >> /\ hd_phase = "IDLE"
  BY DEF Blank, standing
<1>2. collected = << >>
  BY <1>1, Zenon DEF collected
<1>3. accepted_replies = << >>
  BY <1>1, Zenon DEF accepted_replies
<1>4. (hd_phase \in {"COLLECT", "WORK"}) = FALSE
  BY <1>1
<1> QED BY <1>2, <1>3, <1>4, Zenon DEF Service!Init

LEMMA ResetServes == WReset /\ RxTypes => Service!Reset
<1> SUFFICES ASSUME WReset, RxTypes PROVE Service!Reset
  OBVIOUS
<1>1. Blank' => (Service!Init)'
  BY BlankServes, PTL
<1>2. (Service!Init)'
  BY <1>1, BlankReset
<1> QED BY <1>2 DEF Service!Init, Service!Reset

\* Every step of the pipeline is one of the service, or none.
LEMMA StepServes == AllInv /\ AllInv' /\ [WNext]_wvars => [Service!Next]_(Service!vars)
<1> SUFFICES ASSUME AllInv, AllInv', [WNext]_wvars
             PROVE  Service!Next \/ UNCHANGED Service!vars
  OBVIOUS
<1>1. CASE WReset
  <2>1. Service!Reset
    BY <1>1, ResetServes DEF AllInv, PInv, ReceiverInv
  <2> QED BY <2>1 DEF Service!Next
<1>2. CASE UNCHANGED wvars
  <2>1. UNCHANGED <<current, unsent, owed, rx_state, hd_phase>>
    BY <1>2 DEF wvars, vars, Rx!vars, Handler!vars
  <2>2. standing' <=> standing
    BY <2>1 DEF standing
  <2>3. collected' = collected
    BY <2>1, <2>2 DEF collected
  <2>4. accepted_replies' = accepted_replies
    BY <2>1, <2>2 DEF accepted_replies
  <2> QED BY <2>1, <2>3, <2>4 DEF Service!vars
<1>3. ASSUME NEW out_ready \in BOOLEAN, NEW done \in BOOLEAN, Cycle(out_ready, done)
      PROVE  Service!Next
  <2>1. CASE Pause(out_ready, done)
    BY <2>1, PauseServes
  <2>2. CASE Continue(out_ready, done)
    <3>1. PICK f : f = current
      OBVIOUS
    <3>2. PICK rest : rest = unsent
      OBVIOUS
    <3>3. /\ unsent # << >> /\ Send(f, rest, out_ready, done)
          /\ IF unsent = << >> THEN rest = Encode(f) ELSE f = current /\ rest = unsent
      BY <2>2, <3>1, <3>2 DEF Continue
    <3>4. f \in Sendable
      BY <3>1, <3>3 DEF AllInv, SentInv
    <3> QED BY <3>3, <3>4, SendServes
  <2>3. CASE \E g \in Sendable : Begin(g, out_ready, done)
    <3>1. PICK g \in Sendable : Begin(g, out_ready, done)
      BY <2>3
    <3>2. PICK rest : rest = Encode(g)
      OBVIOUS
    <3>3. /\ Send(g, rest, out_ready, done)
          /\ IF unsent = << >> THEN rest = Encode(g) ELSE g = current /\ rest = unsent
      BY <3>1, <3>2 DEF Begin
    <3> QED BY <3>3, SendServes
  <2> QED BY <1>3, <2>1, <2>2, <2>3 DEF Cycle
<1> QED BY <1>1, <1>2, <1>3 DEF WNext

\* The pipeline is the service that the UART top level is composed of: its
\* receiver is the frame that is collected or waits, handler and transmitter are
\* the replies, and no step of theirs is more than one of the service.
THEOREM PipelineServes == WSpec => ImplementsFrameService
<1>1. WInit => AllInv
  <2>1. WInit => WInv
    BY RoutingInit DEF WInit, WInv
  <2>2. WInit => SentInv
    BY BlankInit DEF Blank, SentInv, standing
  <2> QED BY <2>1, <2>2, BlankInit, BlankHolds DEF AllInv
<1>2. WInit => Service!Init
  BY BlankInit, BlankServes
<1>3. WSpec => []AllInv
  BY <1>1, AllStep, PTL DEF WSpec
<1> QED BY <1>2, <1>3, StepServes, PTL DEF WSpec, ImplementsFrameService, Service!Spec
=============================================================================
