--------------------------- MODULE RequestService ---------------------------
(***************************************************************************)
(* What the token request handler promises the frame pipeline: it accepts  *)
(* one request at a time, takes its payload bytes, works for a while, and  *)
(* offers exactly one response, which the flags and the bytes of that      *)
(* request alone determine; it is free again when the last payload byte of *)
(* the response has been taken.                                            *)
(***************************************************************************)
EXTENDS Naturals, Sequences

CONSTANTS
  MAX_PAYLOAD_BYTES,
  Byte,
  Flags, Lengths,     \* the header fields a request may carry
  Replies(_, _),      \* the responses allowed to the flags and payload of a request
  MalformedReply(_)   \* the response to a request whose payload came wrong

VARIABLES
  phase,
  request_flags, request_length,
  received, taken,    \* the payload kept, and how much of it has come
  reply, replied      \* the response, and how much of it has gone

request == <<request_flags, request_length>>
vars == <<phase, request, received, taken, reply, replied>>

NoReply == [type |-> 0, flags |-> <<0, 0>>, payload |-> << >>]

Init ==
  /\ phase = "IDLE"
  /\ request_flags = <<0, 0>> /\ request_length = 0
  /\ received = << >> /\ taken = 0
  /\ reply = NoReply /\ replied = 0

request_ready == phase = "IDLE"
request_payload_ready == phase = "COLLECT"
response_valid == phase = "RESPONSE_HEADER"
response_payload_valid == phase = "RESPONSE_PAYLOAD"
response_payload_data == reply.payload[replied + 1]
response_payload_last == response_payload_valid /\ replied + 1 = Len(reply.payload)

\* A response is offered; the request is forgotten.
Answer(r) ==
  /\ reply' = r /\ replied' = 0
  /\ received' = << >> /\ taken' = 0

Accept(flags, length) ==
  /\ phase = "IDLE"
  /\ request_flags' = flags /\ request_length' = length
  /\ phase' = IF length = 0 THEN "WORK" ELSE "COLLECT"
  /\ UNCHANGED <<received, taken, reply, replied>>

\* The byte marked last must be the one that completes the length.
Collect(byte, last) ==
  LET kept     == IF taken < MAX_PAYLOAD_BYTES THEN Append(received, byte) ELSE received
      complete == taken + 1 = request_length
  IN  /\ phase = "COLLECT"
      /\ \/ /\ last /\ complete /\ request_length <= MAX_PAYLOAD_BYTES
            /\ phase' = "WORK"
            /\ received' = kept /\ taken' = taken + 1
            /\ UNCHANGED <<reply, replied>>
         \/ /\ IF last THEN ~complete \/ request_length > MAX_PAYLOAD_BYTES ELSE complete
            /\ phase' = "RESPONSE_HEADER"
            /\ Answer(MalformedReply(request_flags))
         \/ /\ ~last /\ ~complete
            /\ received' = kept /\ taken' = taken + 1
            /\ UNCHANGED <<phase, reply, replied>>
      /\ UNCHANGED request

Finish ==
  /\ phase = "WORK"
  /\ phase' = "RESPONSE_HEADER"
  /\ \E r \in Replies(request_flags, received) : Answer(r)
  /\ UNCHANGED request

HeaderTaken ==
  /\ phase = "RESPONSE_HEADER"
  /\ phase' = "RESPONSE_PAYLOAD"
  /\ UNCHANGED <<request, received, taken, reply, replied>>

PayloadTaken ==
  /\ phase = "RESPONSE_PAYLOAD"
  /\ \/ /\ response_payload_last
        /\ phase' = "IDLE" /\ reply' = NoReply /\ replied' = 0
     \/ /\ ~response_payload_last
        /\ replied' = replied + 1 /\ UNCHANGED <<phase, reply>>
  /\ UNCHANGED <<request, received, taken>>

Reset ==
  /\ phase' = "IDLE"
  /\ request_flags' = <<0, 0>> /\ request_length' = 0
  /\ received' = << >> /\ taken' = 0
  /\ reply' = NoReply /\ replied' = 0

\* One clock edge with the input wires as parameters; the work of a request
\* takes one cycle or several, and this is the last one when done is TRUE.
Clock(request_valid, flags, length, payload_valid, byte, last, response_ready, payload_ready, done) ==
  CASE request_ready -> IF request_valid THEN Accept(flags, length) ELSE UNCHANGED vars
    [] request_payload_ready -> IF payload_valid THEN Collect(byte, last) ELSE UNCHANGED vars
    [] response_valid -> IF response_ready THEN HeaderTaken ELSE UNCHANGED vars
    [] response_payload_valid -> IF payload_ready THEN PayloadTaken ELSE UNCHANGED vars
    [] OTHER -> IF done THEN Finish ELSE UNCHANGED vars

Next ==
  \/ \E flags \in Flags, length \in Lengths : Accept(flags, length)
  \/ \E byte \in Byte, last \in BOOLEAN : Collect(byte, last)
  \/ Finish \/ HeaderTaken \/ PayloadTaken \/ Reset

Spec == Init /\ [][Next]_vars
=============================================================================
