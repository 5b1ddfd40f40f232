------------------------- MODULE FramePipelineWire -------------------------
(***************************************************************************)
(* The frame pipeline between a host that sends a number of frames and a   *)
(* wire that takes the responses, with history variables:                  *)
(*   current, unsent  the frame being sent and its bytes not yet taken;    *)
(*   begun            how many frames were begun;                          *)
(*   owed             the responses owed to frames taken completely, each  *)
(*                    in the bytes that have not left;                     *)
(*   refused          how many frames were refused or answered by an       *)
(*                    ERROR_RESPONSE.                                      *)
(***************************************************************************)
EXTENDS FramePipeline

CONSTANTS
  Sendable,     \* bound: the frames the host may send
  MaxFrames     \* bound: how many it sends

\* What the host sends are frames, of any type and with any payload that fits.
ASSUME SendableAssumption == Sendable \subseteq Frame

\* The types are bytes, and those are told apart that the pipeline tells apart.
ASSUME TypesAssumption ==
  /\ {PING, PONG, TOKEN_REQUEST, ERROR_RESPONSE} \subseteq Byte
  /\ PING # TOKEN_REQUEST /\ PONG # ERROR_RESPONSE

\* The handler answers a request in one way, by a frame.
ASSUME ReplyAssumption ==
  \A n \in 0 .. MAX_PAYLOAD_BYTES : \A fl \in TwoBytes, payload \in [1 .. n -> Byte] :
    \E r \in Replies(fl, payload) : Replies(fl, payload) = {r} /\ r \in Frame

\* The host may pause in a frame for as long as it likes: the timeout of the
\* receiver is off, which is the default of the parameter.
ASSUME PatienceAssumption == IDLE_TIMEOUT_CYCLES = 0

ASSUME CounterAssumption == COUNTER_MODULUS \in Nat \ {0}

VARIABLES current, unsent, begun, owed, refused

wvars == <<vars, current, unsent, begun, owed, refused>>

Ping == [type |-> PING, flags |-> <<0, 0>>, payload |-> << >>]

WInit ==
  /\ Init
  /\ \A i \in DOMAIN rx_payload_memory : rx_payload_memory[i] = 0
  /\ current = Ping /\ unsent = << >> /\ begun = 0
  /\ owed = << >> /\ refused = 0

\* The response a frame asks for, none for a frame that is dropped.
ResponsesTo(f) ==
  CASE f.type = TOKEN_REQUEST -> {<<r>> : r \in Replies(f.flags, f.payload)}
    [] f = Ping -> {<<[Ping EXCEPT !.type = PONG]>>}
    [] OTHER -> {<< >>}

Refusals(responses) ==
  IF responses = << >> \/ responses[1].type = ERROR_RESPONSE THEN 1 ELSE 0

leaves(out_ready) == out_valid /\ out_ready

\* What is owed after this cycle.
Left(out_ready) ==
  IF ~leaves(out_ready) \/ owed = << >> THEN owed
  ELSE IF Len(Head(owed)) = 1 THEN Tail(owed)
  ELSE <<Tail(Head(owed))>> \o Tail(owed)

\* A cycle with no byte on the input.
Pause(out_ready, done) ==
  /\ Clock(FALSE, 0, out_ready, done)
  /\ owed' = Left(out_ready)
  /\ UNCHANGED <<current, unsent, begun, refused>>

\* A cycle in which the first of the remaining bytes of frame f is taken.
Send(f, rest, out_ready, done) ==
  /\ in_ready
  /\ Clock(TRUE, Head(rest), out_ready, done)
  /\ current' = f /\ unsent' = Tail(rest)
  /\ IF Len(rest) = 1
     THEN \E responses \in ResponsesTo(f) :
            /\ owed' = Left(out_ready) \o [i \in DOMAIN responses |-> Encode(responses[i])]
            /\ refused' = (refused + Refusals(responses)) % COUNTER_MODULUS
     ELSE owed' = Left(out_ready) /\ UNCHANGED refused

Begin(f, out_ready, done) ==
  /\ unsent = << >> /\ begun < MaxFrames
  /\ begun' = begun + 1
  /\ Send(f, Encode(f), out_ready, done)

Continue(out_ready, done) ==
  /\ unsent # << >>
  /\ Send(current, unsent, out_ready, done)
  /\ UNCHANGED begun

Cycle(out_ready, done) ==
  \/ Pause(out_ready, done)
  \/ Continue(out_ready, done)
  \/ \E f \in Sendable : Begin(f, out_ready, done)

WReset ==
  /\ Reset
  /\ current' = Ping /\ unsent' = << >> /\ owed' = << >> /\ refused' = 0
  /\ UNCHANGED begun

WNext == WReset \/ \E out_ready, done \in BOOLEAN : Cycle(out_ready, done)

WSpec == WInit /\ [][WNext]_wvars

\* The clock runs, the wire keeps taking bytes and the handler finishes.
FairWSpec == WSpec /\ WF_wvars(Pause(TRUE, TRUE))

----------------------------------------------------------------------------
(* The abstraction. *)

\* A frame has been taken completely and is not accepted yet.
standing == rx_state \in {"VALIDATE", "OUTPUT_FRAME"}

\* The host's frames in bytes, and the reply to each of them, which is the only
\* one when the handler has but one answer to a request.
BytesOf == [f \in Sendable |-> Encode(f)]
ReplyTo ==
  [bytes \in {BytesOf[f] : f \in Sendable} |->
     LET f         == CHOOSE g \in Sendable : BytesOf[g] = bytes
         responses == CHOOSE r \in ResponsesTo(f) : TRUE
     IN  IF responses = << >> THEN << >> ELSE Encode(responses[1])]

IsSendable(bytes) == bytes \in DOMAIN ReplyTo
AnswerTo(bytes) == ReplyTo[bytes]

\* The bytes of the frame in the receiver.
collected ==
  LET bytes == BytesOf[current]
  IN  IF unsent # << >> THEN SubSeq(bytes, 1, Len(bytes) - Len(unsent))
      ELSE IF standing THEN bytes ELSE << >>

\* The replies to the frames that were accepted.
accepted_replies ==
  IF standing /\ ReplyTo[BytesOf[current]] # << >> THEN SubSeq(owed, 1, Len(owed) - 1) ELSE owed

Service == INSTANCE FrameService WITH
  Octet <- Byte, IsFrame <- IsSendable, Answer <- AnswerTo,
  partial <- collected, replies <- accepted_replies,
  working <- hd_phase \in {"COLLECT", "WORK"}

----------------------------------------------------------------------------
(* Properties. *)

\* The pipeline is the service that the UART top level is composed of: it takes
\* no byte while a complete frame waits, accepts that one only when the handler
\* is free and one reply at most is still leaving, and sends nothing of a reply
\* before the handler has finished it.
ImplementsFrameService == Service!Spec

\* What leaves is, byte for byte, the responses owed, in the order of their
\* requests and each of them once: none for a frame that is dropped, none
\* early, and none that passes another, however host and wire stall.
ResponsesInOrder == out_valid => owed # << >> /\ out_data = Head(Head(owed))

\* When no response is owed and the pipeline rests, every frame it dropped or
\* refused is in handler_error_count, once.
RefusalsCounted ==
  (owed = << >> /\ rx_state = "SEARCH_0") => handler_error_count = refused

\* Every response owed leaves in the end.
ResponsesLeave == owed # << >> ~> owed = << >>
=============================================================================
