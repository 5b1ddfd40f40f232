-------------------------- MODULE MCFramePipeline --------------------------
(* FramePipeline with bytes of five values and a three-state CRC. *)
EXTENDS FramePipelineWire

MCCrc == 0 .. 2
MCCrcStep(c, b) == (2 * c + b + 1) % 3
MCCrcBytes(c) == <<c, (c + 1) % 2, 0, c % 2>>

\* An empty or odd request is refused, another one comes back with a status.
MCReplies(flags, payload) ==
  IF payload \in {<< >>, <<1>>}
  THEN {[type |-> ERROR_RESPONSE, flags |-> flags, payload |-> <<4>>]}
  ELSE {[type |-> 3, flags |-> flags, payload |-> <<Head(payload), 4>>]}
MCMalformedReply(flags) ==
  [type |-> ERROR_RESPONSE, flags |-> flags, payload |-> <<3>>]

Message(type, flags, payload) == [type |-> type, flags |-> flags, payload |-> payload]

\* PING, a PING with flags, requests of no, of a bad and of a good byte, and a
\* message of an unknown type that has a payload.
MCSendable ==
  {Message(PING, <<0, 0>>, << >>), Message(PING, <<0, 1>>, << >>),
   Message(TOKEN_REQUEST, <<0, 0>>, << >>), Message(TOKEN_REQUEST, <<1, 0>>, <<1>>),
   Message(TOKEN_REQUEST, <<0, 2>>, <<2>>), Message(4, <<0, 0>>, <<3>>)}
=============================================================================
