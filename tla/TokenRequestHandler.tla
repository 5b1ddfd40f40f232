------------------------ MODULE TokenRequestHandler ------------------------
(***************************************************************************)
(* rtl/common/token_request_handler.sv: collects the payload of one        *)
(* TOKEN_REQUEST, validates it, encodes, disturbs and decodes its token    *)
(* record with the codec it asks for, and answers with a TOKEN_RESULT or   *)
(* an ERROR_RESPONSE.  One step is one rising clock edge; the parameters   *)
(* of Clock are the input wires at that edge.                              *)
(***************************************************************************)
EXTENDS Integers, Sequences, TokenRequestLayout, Fec

CONSTANTS
  MAX_PAYLOAD_BYTES,
  INJECT_ERROR_BIT,    \* the coded bit that is flipped, negative for none
  PowerUpBytes         \* what a memory cell may hold before it is written

ASSUME HandlerAssumption ==
  /\ MAX_PAYLOAD_BYTES \in Nat /\ MAX_PAYLOAD_BYTES >= TOKEN_RECORD_BASE_SIZE + SUFFIX_SIZE
  /\ INJECT_ERROR_BIT \in Int
  /\ PowerUpBytes \subseteq 0 .. 255

VARIABLES
  state,
  request_buffer, response_buffer,
  request_flags, request_length,
  response_type, response_flags, response_length,
  token_length, protection_mode, repetition_count, corrected_count,
  payload_index, response_index, process_index, tlv_index

request == <<request_flags, request_length, request_buffer, payload_index>>
response == <<response_type, response_flags, response_length, response_buffer,
              response_index>>
parameters == <<token_length, protection_mode, repetition_count>>
work == <<corrected_count, process_index, tlv_index>>
vars == <<state, request, response, parameters, work>>

MESSAGE_TOKEN_REQUEST == 16
MESSAGE_TOKEN_RESULT == 17
MESSAGE_ERROR_RESPONSE == 127

WorkStates == {"VALIDATE", "VALIDATE_TLV", "PROCESS_NONE", "PROCESS_REPETITION",
               "PROCESS_HAMMING", "FINALIZE"}
States == {"IDLE", "COLLECT", "RESPONSE_HEADER", "RESPONSE_PAYLOAD"} \cup WorkStates

Memory == 0 .. MAX_PAYLOAD_BYTES - 1

\* The two buffers are memories: reset leaves them alone.
Init ==
  /\ state = "IDLE"
  /\ request_flags = <<0, 0>> /\ request_length = 0
  /\ response_type = 0 /\ response_flags = <<0, 0>> /\ response_length = 0
  /\ token_length = 0 /\ protection_mode = 0 /\ repetition_count = 1
  /\ corrected_count = 0
  /\ payload_index = 0 /\ response_index = 0 /\ process_index = 0 /\ tlv_index = 0
  /\ \E b \in PowerUpBytes : request_buffer = [i \in Memory |-> b]
  /\ \E b \in PowerUpBytes : response_buffer = [i \in Memory |-> b]

----------------------------------------------------------------------------
(* Wires. *)

request_ready == state = "IDLE"
request_payload_ready == state = "COLLECT"
response_valid == state = "RESPONSE_HEADER"
response_payload_valid == state = "RESPONSE_PAYLOAD"
response_payload_last == response_payload_valid /\ response_index + 1 = response_length

\* A codeword through the channel: the injected error counts coded bits, so
\* word n covers the bits from n times its width on (the *_error_mask).
Channel(word, n) ==
  LET relative == INJECT_ERROR_BIT - n * Len(word)
  IN  IF INJECT_ERROR_BIT >= 0 /\ relative \in 0 .. Len(word) - 1
      THEN Flip(word, relative + 1) ELSE word

----------------------------------------------------------------------------
(* The arms of the state machine. *)

Goto(s) == state' = s

\* The buffer with the bytes of a sequence written from an index on.
Written(buf, from, bytes) ==
  [i \in DOMAIN buf |-> IF i - from + 1 \in DOMAIN bytes
                        THEN bytes[i - from + 1] ELSE buf[i]]

\* prepare_error_response and the response registers of a result.
Respond(type, length, from, bytes) ==
  /\ response_type' = type
  /\ response_flags' = request_flags
  /\ response_length' = length
  /\ response_buffer' = Written(response_buffer, from, bytes)
  /\ Goto("RESPONSE_HEADER")
  /\ UNCHANGED response_index

RespondError(flag) ==
  Respond(MESSAGE_ERROR_RESPONSE, 8, 0, <<flag, 0, 0, 0, MESSAGE_TOKEN_REQUEST, 0, 0, 0>>)

\* MUTANT: the write index goes on from the request before.
Accept_index_kept(flags, length) ==
  /\ state = "IDLE"
  /\ request_flags' = flags /\ request_length' = length
  /\ Goto(IF length = 0 THEN "VALIDATE" ELSE "COLLECT")
  /\ UNCHANGED <<request_buffer, payload_index, response, parameters, work>>

Accept(flags, length) ==
  /\ state = "IDLE"
  /\ request_flags' = flags /\ request_length' = length
  /\ payload_index' = 0
  /\ Goto(IF length = 0 THEN "VALIDATE" ELSE "COLLECT")
  /\ UNCHANGED <<request_buffer, response, parameters, work>>

Collect(byte, last) ==
  LET complete == payload_index + 1 = request_length
  IN  /\ state = "COLLECT"
      /\ request_buffer' = IF payload_index < MAX_PAYLOAD_BYTES
                           THEN [request_buffer EXCEPT ![payload_index] = byte]
                           ELSE request_buffer
      /\ \/ /\ last /\ complete /\ request_length <= MAX_PAYLOAD_BYTES
            /\ Goto("VALIDATE") /\ UNCHANGED <<payload_index, response>>
         \/ /\ IF last THEN ~(complete /\ request_length <= MAX_PAYLOAD_BYTES) ELSE complete
            /\ RespondError(RESULT_FLAG_MALFORMED_REQUEST)
            /\ UNCHANGED payload_index
         \/ /\ ~last /\ ~complete
            /\ payload_index' = payload_index + 1 /\ UNCHANGED <<state, response>>
      /\ UNCHANGED <<request_flags, request_length, parameters, work>>

\* The mode and the count are stored before their last check.
Validate ==
  LET buf     == request_buffer
      verdict == Verdict(buf, request_length)
      p       == TokenLength(buf)
  IN  /\ state = "VALIDATE"
      /\ IF EarlyVerdict(buf, request_length) = 0
         THEN protection_mode' = buf[p + 1] /\ repetition_count' = buf[p + 6]
         ELSE UNCHANGED <<protection_mode, repetition_count>>
      /\ IF verdict # 0
         THEN RespondError(verdict) /\ UNCHANGED <<token_length, tlv_index>>
         ELSE /\ token_length' = p
              /\ tlv_index' = TOKEN_RECORD_BASE_SIZE
              /\ Goto("VALIDATE_TLV")
              /\ UNCHANGED response
      /\ UNCHANGED <<request, corrected_count, process_index>>

BeginFecProcessing ==
  /\ process_index' = 0 /\ corrected_count' = 0
  /\ Goto(CASE protection_mode = MODE_NONE -> "PROCESS_NONE"
            [] protection_mode = MODE_REPETITION -> "PROCESS_REPETITION"
            [] OTHER -> "PROCESS_HAMMING")
  /\ UNCHANGED <<response, tlv_index>>

\* MUTANT: the header of the extension is not stepped over.
TlvEnd_no_header == tlv_index + request_buffer[tlv_index + 1]

\* Where the extension at tlv_index ends.
TlvEnd == tlv_index + 2 + request_buffer[tlv_index + 1]

ValidateTlv ==
  /\ state = "VALIDATE_TLV"
  /\ \/ tlv_index = token_length /\ BeginFecProcessing
     \/ /\ tlv_index # token_length
        /\ tlv_index + 2 > token_length \/ TlvEnd > token_length
        /\ RespondError(RESULT_FLAG_MALFORMED_REQUEST) /\ UNCHANGED work
     \/ /\ tlv_index # token_length
        /\ tlv_index + 2 <= token_length /\ TlvEnd <= token_length
        /\ tlv_index' = TlvEnd
        /\ UNCHANGED <<state, response, corrected_count, process_index>>
  /\ UNCHANGED <<request, parameters>>

----------------------------------------------------------------------------
(* Encoding, channel and decoding, one byte or nibble per cycle. *)

codec_byte == request_buffer[process_index]

codec_nibble ==
  Bits(request_buffer[process_index \div 2] \div (IF process_index % 2 = 1 THEN 16 ELSE 1), 4)

\* Process index n is done; the next one, or the end.
Proceed(total) ==
  IF process_index + 1 = total
  THEN Goto("FINALIZE") /\ UNCHANGED process_index
  ELSE process_index' = process_index + 1 /\ UNCHANGED state

\* A decoded byte goes to the response; codes that corrected are counted.
Recover(index, byte, corrections) ==
  /\ response_buffer' = [response_buffer EXCEPT ![index] = byte]
  /\ corrected_count' = (corrected_count + corrections) % 65536
  /\ UNCHANGED <<request, response_type, response_flags, response_length,
                 response_index, parameters, tlv_index>>

ProcessNone ==
  /\ state = "PROCESS_NONE"
  /\ Recover(process_index, Number(Channel(Bits(codec_byte, 8), process_index)), 0)
  /\ Proceed(token_length)

\* (The singleton sets make TLC compute each word once.)
ProcessRepetition ==
  LET count == IF repetition_count = 3 THEN 3 ELSE 1
  IN  /\ state = "PROCESS_REPETITION"
      /\ \E received \in {Channel(RepetitionEncode(Bits(codec_byte, 8), count),
                                  process_index)} :
         \E decoded \in {RepetitionDecode(received, count)} :
           Recover(process_index, Number(decoded.data),
                   Quantify(DOMAIN decoded.status, LAMBDA i : decoded.status[i]))
      /\ Proceed(token_length)

\* Nibble n is the low or the high half of byte n / 2.
ProcessHamming ==
  LET decoded == HammingDecoder[Channel(HammingEncoder[codec_nibble], process_index)]
      nibble  == Number(decoded.data)
      index   == process_index \div 2
      old     == response_buffer[index]
  IN  /\ state = "PROCESS_HAMMING"
      /\ Recover(index,
                 IF process_index % 2 = 1 THEN 16 * nibble + (old % 16)
                                          ELSE 16 * (old \div 16) + nibble,
                 IF decoded.status # 0 THEN 1 ELSE 0)
      /\ Proceed(token_length * 2)

Finalize ==
  /\ state = "FINALIZE"
  /\ Respond(MESSAGE_TOKEN_RESULT, token_length + 8, token_length,
             <<IF corrected_count # 0 THEN RESULT_FLAG_FEC_CORRECTED ELSE 0, 0, 0, 0,
               corrected_count % 256, corrected_count \div 256, 0, 0>>)
  /\ UNCHANGED <<request, parameters, work>>

ResponseHeader ==
  /\ state = "RESPONSE_HEADER"
  /\ response_index' = 0
  /\ Goto("RESPONSE_PAYLOAD")
  /\ UNCHANGED <<request, response_type, response_flags, response_length,
                 response_buffer, parameters, work>>

ResponsePayload ==
  /\ state = "RESPONSE_PAYLOAD"
  /\ IF response_payload_last
     THEN Goto("IDLE") /\ UNCHANGED response_index
     ELSE response_index' = response_index + 1 /\ UNCHANGED state
  /\ UNCHANGED <<request, response_type, response_flags, response_length,
                 response_buffer, parameters, work>>

----------------------------------------------------------------------------
(* The clock edge. *)

Work ==
  \/ Validate \/ ValidateTlv
  \/ ProcessNone \/ ProcessRepetition \/ ProcessHamming \/ Finalize

Clock(request_valid, flags, length, payload_valid, byte, last, response_ready, payload_ready) ==
  \/ request_valid /\ Accept(flags, length)
  \/ payload_valid /\ Collect(byte, last)
  \/ Work
  \/ response_ready /\ ResponseHeader
  \/ payload_ready /\ ResponsePayload
  \/ /\ \/ request_ready /\ ~request_valid
        \/ request_payload_ready /\ ~payload_valid
        \/ response_valid /\ ~response_ready
        \/ response_payload_valid /\ ~payload_ready
     /\ UNCHANGED vars

Reset ==
  /\ Goto("IDLE")
  /\ request_flags' = <<0, 0>> /\ request_length' = 0
  /\ response_type' = 0 /\ response_flags' = <<0, 0>> /\ response_length' = 0
  /\ token_length' = 0 /\ protection_mode' = 0 /\ repetition_count' = 1
  /\ corrected_count' = 0
  /\ payload_index' = 0 /\ response_index' = 0 /\ process_index' = 0 /\ tlv_index' = 0
  /\ UNCHANGED <<request_buffer, response_buffer>>

----------------------------------------------------------------------------
(* Properties. *)

\* The types of the registers; every index is inside the memory it addresses
\* when it is used, and the response fits the payload of a frame.
TypeOK ==
  /\ state \in States
  /\ request_buffer \in [Memory -> 0 .. 255] /\ response_buffer \in [Memory -> 0 .. 255]
  /\ request_flags \in (0 .. 255) \X (0 .. 255) /\ request_length \in 0 .. 65535
  /\ response_flags \in (0 .. 255) \X (0 .. 255)
  /\ response_type \in {0, MESSAGE_TOKEN_RESULT, MESSAGE_ERROR_RESPONSE}
  /\ response_length \in 0 .. MAX_PAYLOAD_BYTES
  /\ token_length \in 0 .. MAX_PAYLOAD_BYTES - SUFFIX_SIZE
  /\ protection_mode \in 0 .. 2 /\ repetition_count \in 0 .. 255
  /\ corrected_count \in 0 .. 65535
  /\ payload_index \in 0 .. 65535 /\ process_index \in 0 .. 2 * MAX_PAYLOAD_BYTES
  /\ tlv_index \in 0 .. token_length
  /\ response_index \in Memory
  /\ state = "RESPONSE_PAYLOAD" => response_index < response_length
=============================================================================
