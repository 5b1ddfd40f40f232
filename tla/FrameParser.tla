---------------------------- MODULE FrameParser ----------------------------
(***************************************************************************)
(* sw/common/protocol.py: parse_frame and the incremental FrameParser, of  *)
(* which sw/cpp/src/protocol.cpp is the same program.  A call of feed is   *)
(* the action Feed and then one action per turn of its loop, during which  *)
(* nothing else happens in the thread that called it; `frames` is what the *)
(* last call has returned, or is going to.                                 *)
(***************************************************************************)
EXTENDS FrameV0

VARIABLES
  buffer,    \* the bytes waiting for a complete frame
  errors,    \* the validation errors seen so far
  frames,    \* the frames completed by the last chunk
  feeding    \* feed has not returned yet

parser == <<buffer, errors, frames, feeding>>

SOF == <<FRAME_SOF_0, FRAME_SOF_1>>
HEADER_BYTES == 8          \* SOF and header
MIN_FRAME_BYTES == 12      \* and the CRC

payload_length(data) == Value(<<data[7], data[8]>>)
frame_length(data) == MIN_FRAME_BYTES + payload_length(data)

----------------------------------------------------------------------------
(* parse_frame: the error of data that is not exactly one frame, and the   *)
(* frame of data that is.                                                  *)

NoError == "none"

CrcFault(data) ==
  LET payload_end == HEADER_BYTES + payload_length(data)
  IN  CrcOver(SubSeq(data, 3, payload_end))
        # SubSeq(data, payload_end + 1, payload_end + 4)

ParseError(data) ==
  IF Len(data) < MIN_FRAME_BYTES THEN "FrameLengthError"
  ELSE IF SubSeq(data, 1, 2) # SOF THEN "ProtocolError"
  ELSE IF payload_length(data) > MAX_PAYLOAD_BYTES THEN "FrameLengthError"
  ELSE IF Len(data) # frame_length(data) THEN "FrameLengthError"
  ELSE IF data[3] # FRAME_VERSION THEN "FrameVersionError"
  ELSE IF CrcFault(data) THEN "FrameCrcError"
  ELSE NoError

Parsed(data) ==
  [type |-> data[4], flags |-> <<data[5], data[6]>>,
   payload |-> SubSeq(data, HEADER_BYTES + 1, HEADER_BYTES + payload_length(data))]

----------------------------------------------------------------------------
(* FrameParser *)

ParserInit ==
  /\ buffer = << >> /\ errors = << >>
  /\ frames = << >> /\ feeding = FALSE

Feed(data) ==
  /\ ~feeding /\ feeding' = TRUE
  /\ buffer' = buffer \o data
  /\ frames' = << >>
  /\ UNCHANGED errors

\* Where SOF begins in the buffer.
SofAt(i) == i + 1 \in DOMAIN buffer /\ buffer[i] = FRAME_SOF_0 /\ buffer[i + 1] = FRAME_SOF_1
SofFound == \E i \in DOMAIN buffer : SofAt(i)
FirstSof(i) == SofAt(i) /\ \A j \in 1 .. i - 1 : ~SofAt(j)

\* del self._buffer[:sof_index]
FromSof(i) == SubSeq(buffer, i, Len(buffer))

Return(rest) ==
  /\ buffer' = rest /\ feeding' = FALSE
  /\ UNCHANGED <<errors, frames>>

\* MUTANT: nothing is kept when no SOF was found.
NoSof_nothing_kept == feeding /\ ~SofFound /\ Return(<< >>)

\* A first SOF byte at the end may be completed by the next chunk.
NoSof ==
  /\ feeding /\ ~SofFound
  /\ Return(IF buffer # << >> /\ buffer[Len(buffer)] = FRAME_SOF_0
            THEN <<FRAME_SOF_0>> ELSE << >>)

\* MUTANT: the header is waited for, the payload is not bounded by its field.
Wait_unbounded ==
  /\ feeding
  /\ \E i \in DOMAIN buffer :
       /\ FirstSof(i)
       /\ Len(FromSof(i)) >= HEADER_BYTES => Len(FromSof(i)) < frame_length(FromSof(i))
       /\ Return(FromSof(i))

\* Too few bytes for the header, or for the frame it announces.
Wait ==
  /\ feeding
  /\ \E i \in DOMAIN buffer :
       /\ FirstSof(i)
       /\ Len(FromSof(i)) >= HEADER_BYTES =>
            /\ payload_length(FromSof(i)) <= MAX_PAYLOAD_BYTES
            /\ Len(FromSof(i)) < frame_length(FromSof(i))
       /\ Return(FromSof(i))

\* del self._buffer[0]: the search goes on behind the first byte of the SOF.
Refuse(data, error) ==
  /\ errors' = Append(errors, error)
  /\ buffer' = Tail(data)
  /\ UNCHANGED <<frames, feeding>>

LongPayload ==
  /\ feeding
  /\ \E i \in DOMAIN buffer :
       /\ FirstSof(i)
       /\ Len(FromSof(i)) >= HEADER_BYTES
       /\ payload_length(FromSof(i)) > MAX_PAYLOAD_BYTES
       /\ Refuse(FromSof(i), "FrameLengthError")

\* The candidate is complete when the buffer holds the length it announces.
Complete(i) ==
  /\ FirstSof(i)
  /\ Len(FromSof(i)) >= HEADER_BYTES
  /\ payload_length(FromSof(i)) <= MAX_PAYLOAD_BYTES
  /\ Len(FromSof(i)) >= frame_length(FromSof(i))

candidate(i) == SubSeq(FromSof(i), 1, frame_length(FromSof(i)))

BadFrame ==
  /\ feeding
  /\ \E i \in DOMAIN buffer :
       /\ Complete(i)
       /\ ParseError(candidate(i)) # NoError
       /\ Refuse(FromSof(i), ParseError(candidate(i)))

GoodFrame ==
  /\ feeding
  /\ \E i \in DOMAIN buffer :
       /\ Complete(i)
       /\ ParseError(candidate(i)) = NoError
       /\ frames' = Append(frames, Parsed(candidate(i)))
       /\ buffer' = SubSeq(FromSof(i), frame_length(FromSof(i)) + 1, Len(FromSof(i)))
  /\ UNCHANGED <<errors, feeding>>

Turn == NoSof \/ Wait \/ LongPayload \/ BadFrame \/ GoodFrame

\* feed is called with any chunk as often as its caller likes.
ParserNext == (\E data \in Seq(Byte) : Feed(data)) \/ Turn

ParserSpec == ParserInit /\ [][ParserNext]_parser

----------------------------------------------------------------------------
(* Properties. *)

\* Between two calls the buffer holds less than one frame of the greatest
\* length, whatever has been fed: a stream of noise, false starts and length
\* fields of any value does not make it grow.
BufferBounded ==
  ~feeding => Len(buffer) < MIN_FRAME_BYTES + MAX_PAYLOAD_BYTES

\* A frame may begin with the first byte of s: as far as s goes its bytes are
\* those of the encoding of some frame, which the fields read so far determine
\* up to its CRC.
MayBegin(s) ==
  LET There(i) == i \in DOMAIN s
      end      == HEADER_BYTES + payload_length(s)
  IN  /\ s # << >>
      /\ \A i \in 1 .. 2 : There(i) => s[i] = SOF[i]
      /\ There(3) => s[3] = FRAME_VERSION
      /\ There(7) => s[7] <= MAX_PAYLOAD_BYTES
      /\ There(8) =>
           /\ payload_length(s) <= MAX_PAYLOAD_BYTES
           /\ \A i \in 1 .. 3 :
                There(end + i) => s[end + i] = CrcOver(SubSeq(s, 3, end))[i]
           /\ There(end + 4) => SubSeq(s, end + 1, end + 4) = CrcOver(SubSeq(s, 3, end))

\* A turn of the loop gives up only bytes with which no frame can begin, and
\* hands out a frame exactly for its encoding: a frame that follows noise, a
\* false start, or that is hidden in what looked like a longer frame is found,
\* in whatever chunks it comes.
TurnMissesNone ==
  LET encoded == IF frames' = frames THEN << >> ELSE Encode(frames'[Len(frames')])
      noise   == Len(buffer) - Len(buffer') - Len(encoded)
  IN  /\ buffer = SubSeq(buffer, 1, noise) \o encoded \o buffer'
      /\ \A i \in 1 .. noise : ~MayBegin(SubSeq(buffer, i, Len(buffer)))

FindsEveryFrame == [][feeding => TurnMissesNone]_parser
=============================================================================
