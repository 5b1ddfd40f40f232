------------------------- MODULE TokenRequestLayout -------------------------
(***************************************************************************)
(* The bytes of a TOKEN_REQUEST payload and the checks the handler makes   *)
(* on them in its VALIDATE state.  A payload is a 40-byte token record     *)
(* with its extension area, a 16-byte protection request and a 4-byte      *)
(* channel state; buf is the request buffer, from index 0.                 *)
(***************************************************************************)
EXTENDS Naturals

TOKEN_RECORD_BASE_SIZE == 40
PROTECTION_REQUEST_SIZE == 16
SUFFIX_SIZE == 20                 \* protection request and channel state

RESULT_FLAG_FEC_CORRECTED == 2
RESULT_FLAG_MALFORMED_REQUEST == 16
RESULT_FLAG_UNSUPPORTED_VERSION == 32
RESULT_FLAG_UNSUPPORTED_PROTECTION == 64

MODE_NONE == 0
MODE_REPETITION == 1
MODE_HAMMING_7_4 == 2

\* buffer_u16 and buffer_range_is_zero.
U16(buf, i) == buf[i] + 256 * buf[i + 1]
RangeIsZero(buf, i, n) == \A k \in i .. i + n - 1 : buf[k] = 0

\* The token record with its extensions, and where the two other parts start.
TokenLength(buf) == TOKEN_RECORD_BASE_SIZE + U16(buf, 36)
ChannelOffset(buf) == TokenLength(buf) + PROTECTION_REQUEST_SIZE

----------------------------------------------------------------------------
(* The checks, in the order the handler makes them. *)

RecordMalformed(buf, length) ==
  \/ U16(buf, 2) # TOKEN_RECORD_BASE_SIZE
  \/ length # TokenLength(buf) + SUFFIX_SIZE
  \/ buf[1] >= 4
  \/ buf[16] # 0
  \/ ~RangeIsZero(buf, 17, 3)
  \/ ~RangeIsZero(buf, 38, 2)

TimesMalformed(buf) ==
  \/ buf[1] \in {0, 2} /\ ~RangeIsZero(buf, 20, 8)
  \/ buf[1] \in {0, 1} /\ ~RangeIsZero(buf, 28, 8)

VersionsUnsupported(buf) ==
  buf[TokenLength(buf)] # 1 \/ buf[ChannelOffset(buf)] # 1

\* MUTANT: mode 3 is let through, to be decoded as Hamming.
ModeUnsupported_off_by_one(buf) == buf[TokenLength(buf) + 1] > MODE_HAMMING_7_4 + 1

ModeUnsupported(buf) == buf[TokenLength(buf) + 1] > MODE_HAMMING_7_4

SuffixMalformed(buf) ==
  LET p == TokenLength(buf)
      c == ChannelOffset(buf)
  IN  \/ U16(buf, p + 2) # 0
      \/ U16(buf, p + 4) # TokenLength(buf) * 8
      \/ buf[p + 7] # 0
      \/ ~RangeIsZero(buf, p + 12, 4)
      \/ buf[c + 1] >= 2
      \/ buf[c + 1] = 0 /\ U16(buf, c + 2) # 0

\* The repetition count and the code rate the mode allows.
ParametersMalformed(buf) ==
  LET p     == TokenLength(buf)
      mode  == buf[p + 1]
      count == buf[p + 6]
      rate  == <<U16(buf, p + 8), U16(buf, p + 10)>>
  IN  CASE mode = MODE_NONE       -> count # 1 \/ rate # <<1, 1>>
        [] mode = MODE_REPETITION -> count \notin {1, 3} \/ rate # <<1, count>>
        [] OTHER                  -> count # 1 \/ rate # <<4, 7>>

\* The error the checks before those of the parameters report, 0 for none.
EarlyVerdict(buf, length) ==
  IF length < TOKEN_RECORD_BASE_SIZE + SUFFIX_SIZE THEN RESULT_FLAG_MALFORMED_REQUEST
  ELSE IF buf[0] # 1 THEN RESULT_FLAG_UNSUPPORTED_VERSION
  ELSE IF RecordMalformed(buf, length) \/ TimesMalformed(buf)
  THEN RESULT_FLAG_MALFORMED_REQUEST
  ELSE IF VersionsUnsupported(buf) THEN RESULT_FLAG_UNSUPPORTED_VERSION
  ELSE IF ModeUnsupported(buf) THEN RESULT_FLAG_UNSUPPORTED_PROTECTION
  ELSE IF SuffixMalformed(buf) THEN RESULT_FLAG_MALFORMED_REQUEST
  ELSE 0

\* The error all the checks report, 0 for none.
Verdict(buf, length) ==
  IF EarlyVerdict(buf, length) # 0 THEN EarlyVerdict(buf, length)
  ELSE IF ParametersMalformed(buf) THEN RESULT_FLAG_MALFORMED_REQUEST
  ELSE 0
=============================================================================
