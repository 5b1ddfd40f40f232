--------------------------- MODULE FramePipeline ---------------------------
(***************************************************************************)
(* rtl/top/frame_pipeline.sv: the frame receiver, the token request        *)
(* handler and the frame transmitter, and the logic between them that      *)
(* answers PING, routes payloads, keeps responses in the order of their    *)
(* requests and counts what it drops.  The three parts are clocked by the  *)
(* same edge; the handler stands here as the RequestService it was shown   *)
(* to implement.                                                           *)
(***************************************************************************)
EXTENDS FrameV0

CONSTANTS
  PING, PONG, TOKEN_REQUEST, ERROR_RESPONSE,   \* message types
  IDLE_TIMEOUT_CYCLES, COUNTER_MODULUS,
  Replies(_, _), MalformedReply(_)             \* what the handler answers

\* A response has a payload, an error code or a status at least, and one that
\* fits in a frame; the handler is told no payload longer than that.
ASSUME RepliesAssumption ==
  \A n \in 0 .. MAX_PAYLOAD_BYTES : \A fl \in TwoBytes, payload \in [1 .. n -> Byte] :
    \A r \in Replies(fl, payload) : Len(r.payload) \in 1 .. MAX_PAYLOAD_BYTES

VARIABLES
  rx_state, rx_message_type, rx_flags, rx_payload_length, rx_expected_crc,
  rx_payload_memory, rx_payload_write_index, rx_payload_read_index,
  rx_idle_count, rx_errors, rx_crc_clear,
  rx_crc_state, rx_crc_output_valid, rx_crc_output,
  hd_phase, hd_request_flags, hd_request_length, hd_received, hd_taken,
  hd_reply, hd_replied,
  tx_state, tx_header_index, tx_crc_index, tx_message_type, tx_flags,
  tx_payload_length, tx_payload_remaining, tx_length_errors, tx_crc_feed,
  tx_crc_state, tx_crc_output_valid, tx_crc_output,
  payload_route, token_in_flight, handler_error_count

Rx == INSTANCE FrameRx WITH
  state <- rx_state, message_type <- rx_message_type, flags <- rx_flags,
  payload_length <- rx_payload_length, expected_crc <- rx_expected_crc,
  payload_memory <- rx_payload_memory,
  payload_write_index <- rx_payload_write_index,
  payload_read_index <- rx_payload_read_index,
  idle_count <- rx_idle_count, errors <- rx_errors, crc_clear <- rx_crc_clear,
  crc_state <- rx_crc_state, crc_output_valid <- rx_crc_output_valid,
  crc_output <- rx_crc_output

Handler == INSTANCE RequestService WITH
  Flags <- TwoBytes, Lengths <- 0 .. MAX_PAYLOAD_BYTES,
  phase <- hd_phase, request_flags <- hd_request_flags,
  request_length <- hd_request_length, received <- hd_received,
  taken <- hd_taken, reply <- hd_reply, replied <- hd_replied

Tx == INSTANCE FrameTx WITH
  state <- tx_state, header_index <- tx_header_index, crc_index <- tx_crc_index,
  message_type <- tx_message_type, flags <- tx_flags,
  payload_length <- tx_payload_length, payload_remaining <- tx_payload_remaining,
  length_errors <- tx_length_errors, crc_feed <- tx_crc_feed,
  crc_state <- tx_crc_state, crc_output_valid <- tx_crc_output_valid,
  crc_output <- tx_crc_output

routing == <<payload_route, token_in_flight, handler_error_count>>
vars == <<Rx!vars, Handler!vars, Tx!vars, routing>>

Init ==
  /\ Rx!Init /\ Handler!Init /\ Tx!Init
  /\ payload_route = "IDLE"
  /\ token_in_flight = FALSE
  /\ handler_error_count = 0

----------------------------------------------------------------------------
(* Wires. *)

supported_ping ==
  rx_message_type = PING /\ rx_flags = <<0, 0>> /\ Value(rx_payload_length) = 0
token_request == rx_message_type = TOKEN_REQUEST
handler_request_valid == Rx!frame_valid /\ token_request

\* MUTANT: a PONG may pass a token request that is still being worked on.
ping_response_valid_passing == Rx!frame_valid /\ supported_ping

ping_response_valid == Rx!frame_valid /\ supported_ping /\ ~token_in_flight

transmit_frame_valid == Handler!response_valid \/ ping_response_valid
transmitted ==
  IF Handler!response_valid
  THEN [type |-> hd_reply.type, flags |-> hd_reply.flags,
        length |-> Pair(Len(hd_reply.payload))]
  ELSE [type |-> PONG, flags |-> <<0, 0>>, length |-> <<0, 0>>]

handler_response_ready == Tx!frame_ready /\ Handler!response_valid
ping_response_ready == Tx!frame_ready /\ ~Handler!response_valid

\* MUTANT: frames are taken while a token request is in flight.
received_frame_ready_passing ==
  IF token_request THEN Handler!request_ready
  ELSE supported_ping => ping_response_ready

\* A later response must not pass a token request whose codec is running.
received_frame_ready ==
  /\ ~token_in_flight
  /\ IF token_request THEN Handler!request_ready
     ELSE supported_ping => ping_response_ready
received_frame_accepted == Rx!frame_valid /\ received_frame_ready

received_payload_ready ==
  IF payload_route = "TOKEN" THEN Handler!request_payload_ready
  ELSE payload_route = "DROP"
received_payload_accepted == Rx!payload_valid /\ received_payload_ready

handler_error_response_accepted ==
  handler_response_ready /\ hd_reply.type = ERROR_RESPONSE
unsupported_drop_accepted ==
  received_frame_accepted /\ ~supported_ping /\ ~token_request

----------------------------------------------------------------------------
(* The clock edge. *)

RxClock(in_valid, in_data) ==
  Rx!Clock(in_valid, in_data, received_frame_ready, received_payload_ready)

HandlerClock(out_ready, done) ==
  Handler!Clock(handler_request_valid, rx_flags,
                Value(rx_payload_length),
                Rx!payload_valid /\ payload_route = "TOKEN", Rx!payload_data,
                Rx!payload_last, handler_response_ready,
                Tx!payload_ready(out_ready), done)

TxPayload == IF Handler!response_payload_valid THEN Handler!response_payload_data ELSE 0

TxClock(out_ready) ==
  Tx!Clock(transmit_frame_valid, transmitted.type, transmitted.flags,
           transmitted.length, Handler!response_payload_valid, TxPayload, out_ready)

\* MUTANT: the flag is lowered when the header of the response has gone.
Released_at_header(out_ready) == handler_response_ready

\* The last byte of a token response is taken.
Released(out_ready) == Tx!payload_ready(out_ready) /\ Handler!response_payload_last

TokenInFlight(out_ready) ==
  token_in_flight' =
    IF received_frame_accepted /\ token_request THEN TRUE
    ELSE token_in_flight /\ ~Released(out_ready)

Route ==
  payload_route' =
    IF received_frame_accepted /\ Value(rx_payload_length) # 0
    THEN IF token_request THEN "TOKEN"
         ELSE IF ~supported_ping THEN "DROP" ELSE payload_route
    ELSE IF received_payload_accepted /\ Rx!payload_last
    THEN "IDLE" ELSE payload_route

\* MUTANT: dropped frames are not counted.
CountErrors_responses_only ==
  handler_error_count' =
    (handler_error_count + (IF handler_error_response_accepted THEN 1 ELSE 0))
      % COUNTER_MODULUS

CountErrors ==
  handler_error_count' =
    (handler_error_count + (IF handler_error_response_accepted THEN 1 ELSE 0)
                         + (IF unsupported_drop_accepted THEN 1 ELSE 0))
      % COUNTER_MODULUS

Clock(in_valid, in_data, out_ready, done) ==
  /\ RxClock(in_valid, in_data)
  /\ HandlerClock(out_ready, done)
  /\ TxClock(out_ready)
  /\ TokenInFlight(out_ready) /\ Route /\ CountErrors

Reset ==
  /\ Rx!Reset /\ Handler!Reset /\ Tx!Reset
  /\ payload_route' = "IDLE"
  /\ token_in_flight' = FALSE
  /\ handler_error_count' = 0

\* The bytes on the output.
out_valid == Tx!out_valid(Handler!response_payload_valid)
out_data == Tx!out_data(TxPayload)
in_ready == Rx!in_ready

----------------------------------------------------------------------------
(* Properties. *)

\* The routing registers belong to the frame pipeline but repeat what other
\* parts know; the four sides never disagree.  token_in_flight is up exactly
\* while the handler has a request; a payload has a route to leave by, and the
\* handler collects exactly the payload that is routed to it, byte for byte of
\* the length it was told, so it never answers that a frame was cut wrong; the
\* payload of a response has the transmitter to itself, with as many bytes left
\* on both sides.
RoutingAgrees ==
  /\ token_in_flight <=> hd_phase # "IDLE"
  /\ rx_state = "OUTPUT_PAYLOAD" <=> payload_route # "IDLE"
  /\ hd_phase = "COLLECT" <=> payload_route = "TOKEN"
  /\ hd_phase = "COLLECT" =>
       /\ hd_request_length = Value(rx_payload_length)
       /\ hd_taken = rx_payload_read_index
  /\ hd_phase = "RESPONSE_PAYLOAD" =>
       /\ tx_state \in {"SOF_0", "SOF_1", "HEADER", "PAYLOAD"}
       /\ tx_payload_remaining = Len(hd_reply.payload) - hd_replied
  /\ tx_state = "PAYLOAD" => hd_phase = "RESPONSE_PAYLOAD"
=============================================================================
