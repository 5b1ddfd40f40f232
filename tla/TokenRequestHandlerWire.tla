---------------------- MODULE TokenRequestHandlerWire ----------------------
(***************************************************************************)
(* The token request handler between a source of requests and a sink of    *)
(* responses, shown to implement RequestService.  History variables:       *)
(*   job     the request being served;                                     *)
(*   served  how many requests were accepted since the start.              *)
(***************************************************************************)
EXTENDS TokenRequestHandler, TokenProtocol

CONSTANTS
  Offers,       \* bound: the requests the source may make: their bytes, the
                \* length their header says and whether the last byte is marked
  MaxRequests,  \* bound: how many requests are accepted
  Resettable    \* bound: the requests a reset may cut short, and may be
                \* followed by

VARIABLES job, served

wvars == <<vars, job, served>>

NoJob == [bytes |-> << >>, length |-> 0, marked |-> FALSE]

\* The flags of a request and of its response, a byte pair passed through.
RequestFlags == <<5, 200>>

WInit == Init /\ job = NoJob /\ served = 0

\* The requests that may come now.
Offered == IF served > 0 /\ job = NoJob THEN Resettable ELSE Offers

Offer ==
  /\ served < MaxRequests
  /\ \E o \in Offered :
       /\ Clock(TRUE, RequestFlags, o.length, FALSE, 0, FALSE, FALSE, FALSE)
       /\ job' = o
  /\ served' = served + 1

\* The receiver marks the last byte it has; the handler may have stopped
\* listening by then.
Supply ==
  /\ request_payload_ready
  /\ Clock(FALSE, <<0, 0>>, 0, TRUE, job.bytes[payload_index + 1],
           job.marked /\ payload_index + 1 = Len(job.bytes), FALSE, FALSE)
  /\ UNCHANGED <<job, served>>

Advance ==
  /\ Clock(FALSE, <<0, 0>>, 0, FALSE, 0, FALSE, TRUE, TRUE)
  /\ UNCHANGED <<job, served>>

WReset == job \in Resettable /\ Reset /\ job' = NoJob /\ UNCHANGED served

WNext == (request_ready /\ Offer) \/ Supply \/ Advance \/ WReset

WSpec == WInit /\ [][WNext]_wvars

\* The clock runs, the receiver delivers the payload it holds and the
\* transmitter takes what it is offered.
FairWSpec == WSpec /\ WF_wvars(Supply) /\ WF_wvars(Advance)

----------------------------------------------------------------------------
(* The abstraction. *)

\* The answers the reference allows: to a request it unpacks, whose reserved
\* fields are zero, the token of that request; to another an error it has.
AllowedReplies(flags, p) ==
  LET faults == RequestFaults(p)
  IN  IF faults = {} /\ ReservedZero(p) THEN {TokenResult(flags, p, INJECT_ERROR_BIT)}
      ELSE {ErrorResponse(flags, f) : f \in faults \cup (IF faults = {} THEN {Format} ELSE {})}

MalformedResponse(flags) == ErrorResponse(flags, Format)

OfferedBytes == UNION {{o.bytes[i] : i \in DOMAIN o.bytes} : o \in Offers}

Kept(n) == [i \in 1 .. n |-> request_buffer[i - 1]]

MinOf(a, b) == IF a <= b THEN a ELSE b

Service == INSTANCE RequestService WITH
  Byte <- OfferedBytes,
  Flags <- {RequestFlags},
  Lengths <- {o.length : o \in Offers},
  Replies <- AllowedReplies,
  MalformedReply <- MalformedResponse,
  phase <- IF state \in WorkStates THEN "WORK" ELSE state,
  received <- IF state = "COLLECT" THEN Kept(MinOf(payload_index, MAX_PAYLOAD_BYTES))
              ELSE IF state \in WorkStates THEN Kept(request_length) ELSE << >>,
  taken <- IF state = "COLLECT" THEN payload_index
           ELSE IF state \in WorkStates THEN request_length ELSE 0,
  reply <- IF state \in {"RESPONSE_HEADER", "RESPONSE_PAYLOAD"}
           THEN [type |-> response_type, flags |-> response_flags,
                 payload |-> [i \in 1 .. response_length |-> response_buffer[i - 1]]]
           ELSE [type |-> 0, flags |-> <<0, 0>>, payload |-> << >>],
  replied <- IF state = "RESPONSE_PAYLOAD" THEN response_index ELSE 0

----------------------------------------------------------------------------
(* Properties. *)

\* The handler is a RequestService: whatever the requests before it left in the
\* buffers, the indices and the parameter registers, and whether or not a reset
\* cut one of them short, a request is answered once, with the answer the
\* reference gives to its own bytes.
ImplementsService == Service!Spec

\* Every request is answered and the handler is free again, however its
\* extensions are laid out.
RequestsAnswered == state # "IDLE" ~> state = "IDLE"

\* The answer that is offered, against the reference's pack and unpack.
AnswersPacked ==
  LET p        == job.bytes
      r        == [i \in 1 .. response_length |-> response_buffer[i - 1]]
      Canonical == Unpacks(p) /\ RequestPack(RequestUnpack(p)) = p
      Accepted == response_type = MESSAGE_TOKEN_RESULT
      whole    == job.marked /\ job.length = Len(p) /\ Len(p) <= MAX_PAYLOAD_BYTES
  IN  state = "RESPONSE_HEADER" =>
        /\ whole => (Accepted <=> Canonical)
        /\ IF ~Accepted THEN ErrorUnpacks(r) /\ ErrorPack(ErrorUnpack(r)) = r
           ELSE LET result == ResultUnpack(r)
                IN  /\ ResultUnpacks(r) /\ ResultPack(result) = r
                    /\ \/ result.token = RequestUnpack(p).token
                       \/ RequestUnpack(p).protection.repetition_count = 1
                            /\ RequestUnpack(p).protection.code_rate_num = 1
                    /\ (result.status.flags = 2) <=> (result.status.corrected_count > 0)

\* Handler and reference agree on the canonical form: of the requests that
\* come whole the handler accepts exactly those that TokenRequest.pack makes of
\* what TokenRequest.unpack reads, and what it answers is what pack makes of
\* what the sender's unpack reads, with the token it was sent unless an
\* uncoded bit was disturbed, and a correction that is both flagged and counted;
\* on the way to it no index leaves the memory it is used for (TypeOK).
AcceptsPacked == TypeOK /\ AnswersPacked

\* What docs/TEST_PROTOCOL_V0.md:49 says: the value of a reserved field is
\* ignored on reception, so a request the reference unpacks is not refused.
ReservedIgnored ==
  (state = "RESPONSE_HEADER" /\ job.length = Len(job.bytes) /\ Unpacks(job.bytes))
    => response_type = MESSAGE_TOKEN_RESULT
=============================================================================
