---------------------------- MODULE FrameRxWire ----------------------------
(***************************************************************************)
(* The frame receiver fed from a wire, with two history variables:         *)
(*   heard  the bytes accepted since the current frame's first SOF_0;      *)
(*   lost   the bytes of the frame discarded in the last step, if any.     *)
(***************************************************************************)
EXTENDS FrameRx, TLC

CONSTANT
  Offered    \* bound: the bytes the wire may carry in each receiver state

ASSUME OfferedAssumption == Offered \in [States -> SUBSET Byte]

VARIABLES heard, lost

wvars == <<vars, heard, lost>>

\* Bound: the memory starts with bytes the wire could have brought.
WInit ==
  /\ Init
  /\ \A i \in DOMAIN payload_memory : payload_memory[i] \in Offered["PAYLOAD"]
  /\ heard = << >> /\ lost = << >>

\* What the history becomes when the receiver has taken the bytes `taken`.
Remember(taken) ==
  LET now == heard \o taken
  IN  /\ heard' = CASE state' = "SEARCH_0" -> << >>
                    [] state' = "SEARCH_1" /\ taken # << >> -> taken
                    [] OTHER -> now
      /\ lost' = IF state \notin OutputStates /\ state' = "SEARCH_0"
                 THEN now ELSE << >>

WClock(in_valid, b, frame_ready, payload_ready) ==
  /\ Clock(in_valid, b, frame_ready, payload_ready)
  /\ IF in_valid /\ in_ready THEN Remember(<<b>>) ELSE Remember(<< >>)

WReset == Reset /\ heard' = << >> /\ lost' = << >>

\* A cycle with or without a byte.  frame_ready and payload_ready are read in
\* different states, so one choice serves both.
WCycle(ready) ==
  \/ WClock(FALSE, 0, ready, ready)
  \/ \E b \in Offered[state] : WClock(TRUE, b, ready, ready)

WNext == WReset \/ \E ready \in BOOLEAN : WCycle(ready)

WSpec == WInit /\ [][WNext]_wvars

----------------------------------------------------------------------------
(* Properties. *)

\* The frame on the output registers.
Received ==
  [type |-> message_type, flags |-> flags,
   payload |-> [i \in 1 .. Value(payload_length) |-> payload_memory[i - 1]]]

\* A frame is offered only if the bytes heard since its start are exactly its
\* encoding, CRC included, and it stays that frame until its last payload byte
\* is handed over: nothing of an earlier frame (a stale CRC state, index,
\* memory cell or header byte) is in it.
FaithfulFrame ==
  state \in OutputStates => Received \in Frame /\ heard = Encode(Received)

\* Every sequence of bytes some frame begins with.
BeginningsOfFrames ==
  UNION {LET bytes == Encode(f) IN {SubSeq(bytes, 1, n) : n \in 0 .. Len(bytes)} :
         f \in Frame}

\* Bytes are discarded only when no frame begins with them, except on a
\* timeout: a well-formed frame that starts where the receiver searches is
\* never thrown away.  While the second SOF byte is being looked for, that
\* holds of a frame that begins with the byte last heard too.
DiscardsOnlyBadFrames ==
  (lost # << >> /\ ~crc_clear) =>
     /\ lost \notin BeginningsOfFrames
     /\ Len(lost) = 2 => Tail(lost) \notin BeginningsOfFrames
=============================================================================
