--------------------------- MODULE FrameEndsProofs ---------------------------
(***************************************************************************)
(* Proofs about what stands at the two ends of a stream of frames, for     *)
(* every byte radix, payload bound and CRC function.                       *)
(*  - FrameParser: whatever is fed to it and in whatever chunks, the buffer *)
(*    is shorter than the longest frame between two calls, and no frame in *)
(*    the stream is passed over.                                           *)
(*  - UartHost: whatever the vector files hold and the device answers, the *)
(*    files of the runner and the verdict on them are true.                *)
(*  - Experiment: what the scripts print, accept and track.                *)
(***************************************************************************)
EXTENDS MCSoftware, FrameV0Proofs, FiniteSetTheorems

Errors == {"ProtocolError", "FrameLengthError", "FrameVersionError", "FrameCrcError"}

TypeOK ==
  /\ buffer \in Seq(Byte) /\ errors \in Seq(Errors)
  /\ frames \in Seq(Frame) /\ feeding \in BOOLEAN

IInv == TypeOK /\ BufferBounded

----------------------------------------------------------------------------
(* The parser: sequences. *)

\* The rest of a sequence from a place in it.
LEMMA Suffix ==
  ASSUME NEW S, NEW s \in Seq(S), NEW i \in 1 .. Len(s) + 1
  PROVE  /\ SubSeq(s, i, Len(s)) \in Seq(S)
         /\ Len(SubSeq(s, i, Len(s))) = Len(s) - i + 1
         /\ \A k \in 1 .. Len(s) - i + 1 : SubSeq(s, i, Len(s))[k] = s[i + k - 1]
<1>1. Len(s) \in Nat /\ \A j \in i .. Len(s) : s[j] \in S
  BY LenProperties, ElementOfSeq
<1> QED BY <1>1, SubSeqProperties

\* A piece of a sequence.
LEMMA Piece ==
  ASSUME NEW S, NEW s \in Seq(S), NEW m \in 1 .. Len(s) + 1, NEW n \in m - 1 .. Len(s)
  PROVE  /\ SubSeq(s, m, n) \in Seq(S)
         /\ Len(SubSeq(s, m, n)) = n - m + 1
         /\ \A k \in 1 .. n - m + 1 : SubSeq(s, m, n)[k] = s[m + k - 1]
<1>1. Len(s) \in Nat /\ \A j \in m .. n : s[j] \in S
  BY LenProperties, ElementOfSeq
<1> QED BY <1>1, SubSeqProperties

\* A piece and the one behind it.
LEMMA Adjacent ==
  ASSUME NEW S, NEW s \in Seq(S), NEW m \in 1 .. Len(s) + 1, NEW k \in m - 1 .. Len(s),
         NEW j, j = k + 1, NEW n \in k .. Len(s)
  PROVE  SubSeq(s, m, k) \o SubSeq(s, j, n) = SubSeq(s, m, n)
BY ConcatAdjacentSubSeq

----------------------------------------------------------------------------
(* Types. *)

\* A length field holds a natural number.
LEMMA LengthType ==
  ASSUME NEW s \in Seq(Byte), Len(s) >= HEADER_BYTES
  PROVE  payload_length(s) \in Nat /\ frame_length(s) \in Nat /\ frame_length(s) >= MIN_FRAME_BYTES
<1>1. s[7] \in Byte /\ s[8] \in Byte
  BY LenProperties, ElementOfSeq DEF HEADER_BYTES
<1>2. s[7] \in Nat /\ s[8] \in Nat /\ BYTE \in Nat
  BY <1>1, ByteAssumption DEF Byte
<1>3. payload_length(s) = s[7] + BYTE * s[8]
  BY DEF payload_length, Value
<1>4. BYTE * s[8] \in Nat
  BY <1>2
<1>5. payload_length(s) \in Nat
  BY <1>2, <1>3, <1>4
<1> QED BY <1>5 DEF frame_length, MIN_FRAME_BYTES

\* What is left of the buffer from a SOF on.
LEMMA FromSofType ==
  ASSUME buffer \in Seq(Byte), NEW i \in DOMAIN buffer
  PROVE  /\ i \in 1 .. Len(buffer) /\ Len(buffer) \in Nat
         /\ FromSof(i) \in Seq(Byte)
         /\ Len(FromSof(i)) = Len(buffer) - i + 1
         /\ \A k \in 1 .. Len(buffer) - i + 1 : FromSof(i)[k] = buffer[i + k - 1]
<1>1. Len(buffer) \in Nat /\ i \in 1 .. Len(buffer)
  BY LenProperties
<1>2. i \in 1 .. Len(buffer) + 1
  BY <1>1
<1>3. /\ SubSeq(buffer, i, Len(buffer)) \in Seq(Byte)
      /\ Len(SubSeq(buffer, i, Len(buffer))) = Len(buffer) - i + 1
      /\ \A k \in 1 .. Len(buffer) - i + 1 : SubSeq(buffer, i, Len(buffer))[k] = buffer[i + k - 1]
  BY <1>2, Suffix
<1> QED BY <1>1, <1>3 DEF FromSof

\* A complete candidate is a sequence of bytes as long as it announces.
LEMMA CandidateType ==
  ASSUME buffer \in Seq(Byte), NEW i \in DOMAIN buffer, Complete(i)
  PROVE  /\ frame_length(FromSof(i)) \in MIN_FRAME_BYTES .. Len(FromSof(i))
         /\ payload_length(FromSof(i)) \in 0 .. MAX_PAYLOAD_BYTES
         /\ candidate(i) \in Seq(Byte)
         /\ Len(candidate(i)) = frame_length(FromSof(i))
         /\ \A k \in 1 .. frame_length(FromSof(i)) : candidate(i)[k] = FromSof(i)[k]
         /\ payload_length(candidate(i)) = payload_length(FromSof(i))
         /\ frame_length(candidate(i)) = frame_length(FromSof(i))
<1> DEFINE data == FromSof(i)
           size == frame_length(data)
<1>1. data \in Seq(Byte) /\ Len(data) \in Nat
  BY FromSofType, LenProperties
<1>2. payload_length(data) \in Nat /\ size \in Nat /\ size >= MIN_FRAME_BYTES
  BY <1>1, LengthType DEF Complete
<1>3. size <= Len(data) /\ payload_length(data) <= MAX_PAYLOAD_BYTES
  BY DEF Complete
<1>4. size \in MIN_FRAME_BYTES .. Len(data) /\ payload_length(data) \in 0 .. MAX_PAYLOAD_BYTES
  BY <1>1, <1>2, <1>3, PayloadAssumption DEF MIN_FRAME_BYTES
<1>5. 1 \in 1 .. Len(data) + 1 /\ size \in 0 .. Len(data)
  BY <1>1, <1>4 DEF MIN_FRAME_BYTES
<1>6. /\ SubSeq(data, 1, size) \in Seq(Byte)
      /\ Len(SubSeq(data, 1, size)) = size - 1 + 1
      /\ \A k \in 1 .. size - 1 + 1 : SubSeq(data, 1, size)[k] = data[1 + k - 1]
  <2> HIDE DEF data, size
  <2>1. size \in 1 - 1 .. Len(data)
    BY <1>5
  <2> QED BY <1>1, <1>5, <2>1, Piece
<1>7. /\ candidate(i) \in Seq(Byte) /\ Len(candidate(i)) = size
      /\ \A k \in 1 .. size : candidate(i)[k] = data[k]
  <2> HIDE DEF data, size
  <2>1. candidate(i) = SubSeq(data, 1, size)
    BY DEF candidate, data, size
  <2> QED BY <1>2, <1>6, <2>1
<1>8. candidate(i)[7] = data[7] /\ candidate(i)[8] = data[8]
  BY <1>2, <1>7 DEF MIN_FRAME_BYTES
<1>9. payload_length(candidate(i)) = payload_length(data)
  BY <1>8 DEF payload_length, Value
<1> QED BY <1>4, <1>7, <1>9 DEF frame_length

----------------------------------------------------------------------------
(* Encoding what was parsed. *)

\* The two bytes of the length field are those of the number they stand for.
LEMMA PairOfBytes ==
  ASSUME NEW a \in Byte, NEW b \in Byte
  PROVE  Pair(Value(<<a, b>>)) = <<a, b>>
<1>1. BYTE \in Nat /\ BYTE >= 2 /\ a \in 0 .. BYTE - 1 /\ b \in Nat
  BY ByteAssumption DEF Byte
<1>2. (a + BYTE * b) % BYTE = a
  BY <1>1, Z3
<1>3. (a + BYTE * b) \div BYTE = b
  BY <1>1, Z3
<1> QED BY <1>2, <1>3 DEF Pair, Value

\* Two neighbours as a piece.
LEMMA PairPiece ==
  ASSUME NEW s \in Seq(Byte), NEW k \in 1 .. Len(s) - 1
  PROVE  SubSeq(s, k, k + 1) = <<s[k], s[k + 1]>>
<1>1. Len(s) \in Nat /\ k \in 1 .. Len(s) + 1 /\ k + 1 \in k - 1 .. Len(s)
  BY LenProperties
<1>2. /\ SubSeq(s, k, k + 1) \in Seq(Byte)
      /\ Len(SubSeq(s, k, k + 1)) = k + 1 - k + 1
      /\ \A j \in 1 .. k + 1 - k + 1 : SubSeq(s, k, k + 1)[j] = s[k + j - 1]
  BY <1>1, Piece
<1>3. s[k] \in Byte /\ s[k + 1] \in Byte
  BY <1>1, ElementOfSeq
<1>4. <<s[k], s[k + 1]>> \in Seq(Byte) /\ Len(<<s[k], s[k + 1]>>) = 2
  BY <1>3
<1>5. /\ Len(SubSeq(s, k, k + 1)) = 2
      /\ SubSeq(s, k, k + 1)[1] = s[k] /\ SubSeq(s, k, k + 1)[2] = s[k + 1]
  BY <1>1, <1>2
<1>6. \A j \in 1 .. Len(SubSeq(s, k, k + 1)) : SubSeq(s, k, k + 1)[j] = <<s[k], s[k + 1]>>[j]
  <2> DEFINE piece == SubSeq(s, k, k + 1)
             pair  == <<s[k], s[k + 1]>>
  <2>1. pair[1] = s[k] /\ pair[2] = s[k + 1]
    OBVIOUS
  <2>2. Len(piece) = 2 /\ piece[1] = pair[1] /\ piece[2] = pair[2]
    BY <1>5, <2>1
  <2> HIDE DEF piece, pair
  <2>3. \A j \in 1 .. Len(piece) : piece[j] = pair[j]
    <3>1. \A j \in 1 .. 2 : j = 1 \/ j = 2
      OBVIOUS
    <3> QED BY <2>2, <3>1
  <2> QED BY <2>3 DEF piece, pair
<1> QED BY <1>2, <1>4, <1>5, <1>6, SeqEqual

\* What data is found to be that is found to be a frame.
LEMMA ParseErrorIsNone ==
  ASSUME NEW d, ParseError(d) = NoError
  PROVE  /\ SubSeq(d, 1, 2) = SOF /\ ~(payload_length(d) > MAX_PAYLOAD_BYTES)
         /\ Len(d) = frame_length(d) /\ d[3] = FRAME_VERSION /\ ~CrcFault(d)
<1> DEFINE short == Len(d) < MIN_FRAME_BYTES
           long == payload_length(d) > MAX_PAYLOAD_BYTES
<1>1. ParseError(d) = IF short THEN "FrameLengthError"
                      ELSE IF SubSeq(d, 1, 2) # SOF THEN "ProtocolError"
                      ELSE IF long THEN "FrameLengthError"
                      ELSE IF Len(d) # frame_length(d) THEN "FrameLengthError"
                      ELSE IF d[3] # FRAME_VERSION THEN "FrameVersionError"
                      ELSE IF CrcFault(d) THEN "FrameCrcError"
                      ELSE NoError
  BY DEF ParseError
<1> HIDE DEF short, long
<1>2. NoError # "FrameLengthError" /\ NoError # "ProtocolError" /\ NoError # "FrameVersionError"
        /\ NoError # "FrameCrcError"
  BY DEF NoError
<1>3. SubSeq(d, 1, 2) = SOF /\ ~long /\ Len(d) = frame_length(d) /\ d[3] = FRAME_VERSION
        /\ ~CrcFault(d)
  BY <1>1, <1>2
<1> QED BY <1>3 DEF long

\* Writing out a frame that was parsed without an error gives the bytes back.
LEMMA EncodeParsed ==
  ASSUME NEW d \in Seq(Byte), Len(d) >= MIN_FRAME_BYTES, ParseError(d) = NoError
  PROVE  Encode(Parsed(d)) = d /\ Parsed(d) \in Frame
<1>1. PICK n \in 0 .. MAX_PAYLOAD_BYTES :
      /\ n = payload_length(d) /\ Len(d) = 12 + n
      /\ SubSeq(d, 1, 2) = SOF /\ d[3] = FRAME_VERSION /\ ~CrcFault(d)
  <2>1. payload_length(d) \in Nat
    BY LengthType DEF MIN_FRAME_BYTES, HEADER_BYTES
  <2>2. ~(payload_length(d) > MAX_PAYLOAD_BYTES) /\ Len(d) = frame_length(d)
    BY ParseErrorIsNone
  <2>3. SubSeq(d, 1, 2) = SOF /\ d[3] = FRAME_VERSION /\ ~CrcFault(d)
    BY ParseErrorIsNone
  <2> QED BY <2>1, <2>2, <2>3, PayloadAssumption DEF frame_length, MIN_FRAME_BYTES
<1>0. n \in Nat
  BY PayloadAssumption
<1> DEFINE payload == SubSeq(d, 9, 8 + n)
<1>2. \A k \in 1 .. 8 : d[k] \in Byte
  BY <1>1, ElementOfSeq
<1>3. /\ payload \in Seq(Byte) /\ Len(payload) = n
      /\ payload \in [1 .. n -> Byte]
  <2>1. 9 \in 1 .. Len(d) + 1 /\ 8 + n \in 9 - 1 .. Len(d)
    BY <1>0, <1>1
  <2>2. payload \in Seq(Byte) /\ Len(payload) = 8 + n - 9 + 1
    BY <2>1, Piece
  <2>3. Len(payload) = n
    BY <1>0, <2>2
  <2> QED BY <2>2, <2>3, LenProperties
<1>4. <<d[3], d[4]>> = SubSeq(d, 3, 4) /\ <<d[5], d[6]>> = SubSeq(d, 5, 6)
        /\ <<d[7], d[8]>> = SubSeq(d, 7, 8)
  <2>1. 3 \in 1 .. Len(d) - 1 /\ 5 \in 1 .. Len(d) - 1 /\ 7 \in 1 .. Len(d) - 1
    BY <1>1
  <2>2. SubSeq(d, 3, 3 + 1) = <<d[3], d[3 + 1]>> /\ SubSeq(d, 5, 5 + 1) = <<d[5], d[5 + 1]>>
          /\ SubSeq(d, 7, 7 + 1) = <<d[7], d[7 + 1]>>
    BY <2>1, PairPiece
  <2> QED BY <2>2
<1>5. Pair(n) = <<d[7], d[8]>>
  <2>1. d[7] \in Byte /\ d[8] \in Byte
    BY <1>2
  <2>2. Pair(Value(<<d[7], d[8]>>)) = <<d[7], d[8]>>
    BY <2>1, PairOfBytes
  <2>3. n = Value(<<d[7], d[8]>>)
    BY <1>1 DEF payload_length
  <2> QED BY <2>2, <2>3
<1>6. Protected(Parsed(d)) = SubSeq(d, 3, 8 + n)
  <2>1. Protected(Parsed(d)) = <<d[3], d[4]>> \o <<d[5], d[6]>> \o <<d[7], d[8]>> \o payload
    <3>1. /\ Parsed(d).type = d[4] /\ Parsed(d).flags = <<d[5], d[6]>>
          /\ Parsed(d).payload = payload
      <4>1. HEADER_BYTES + 1 = 9 /\ HEADER_BYTES + payload_length(d) = 8 + n
        BY <1>1 DEF HEADER_BYTES
      <4> QED BY <4>1 DEF Parsed
    <3> HIDE DEF payload
    <3> QED BY <1>1, <1>3, <1>5, <3>1 DEF Protected
  <2> HIDE DEF payload
  <2>2. SubSeq(d, 3, 4) \o SubSeq(d, 5, 6) = SubSeq(d, 3, 6)
    <3>1. 3 \in 1 .. Len(d) + 1 /\ 4 \in 3 - 1 .. Len(d) /\ 5 = 4 + 1 /\ 6 \in 4 .. Len(d)
      BY <1>0, <1>1
    <3> QED BY <3>1, Adjacent, Zenon
  <2>3. SubSeq(d, 3, 6) \o SubSeq(d, 7, 8) = SubSeq(d, 3, 8)
    <3>1. 3 \in 1 .. Len(d) + 1 /\ 6 \in 3 - 1 .. Len(d) /\ 7 = 6 + 1 /\ 8 \in 6 .. Len(d)
      BY <1>0, <1>1
    <3> QED BY <3>1, Adjacent, Zenon
  <2>4. SubSeq(d, 3, 8) \o SubSeq(d, 9, 8 + n) = SubSeq(d, 3, 8 + n)
    <3>1. 3 \in 1 .. Len(d) + 1 /\ 8 \in 3 - 1 .. Len(d) /\ 9 = 8 + 1 /\ 8 + n \in 8 .. Len(d)
      BY <1>0, <1>1
    <3> QED BY <3>1, Adjacent, Zenon
  <2>5. Protected(Parsed(d))
          = ((SubSeq(d, 3, 4) \o SubSeq(d, 5, 6)) \o SubSeq(d, 7, 8)) \o payload
    BY <1>4, <2>1, Zenon
  <2> QED BY <2>2, <2>3, <2>4, <2>5, Zenon DEF payload
<1>7. CrcOver(Protected(Parsed(d))) = SubSeq(d, 9 + n, 12 + n)
  <2>1. CrcOver(SubSeq(d, 3, HEADER_BYTES + n))
          = SubSeq(d, HEADER_BYTES + n + 1, HEADER_BYTES + n + 4)
    BY <1>1 DEF CrcFault
  <2>2. HEADER_BYTES + n = 8 + n /\ HEADER_BYTES + n + 1 = 9 + n /\ HEADER_BYTES + n + 4 = 12 + n
    BY <1>0 DEF HEADER_BYTES
  <2> QED BY <1>6, <2>1, <2>2
<1>8. Encode(Parsed(d)) = d
  <2>1. Encode(Parsed(d)) = SubSeq(d, 1, 2) \o SubSeq(d, 3, 8 + n) \o SubSeq(d, 9 + n, 12 + n)
    BY <1>1, <1>6, <1>7 DEF Encode, SOF
  <2>2. SubSeq(d, 1, 2) \o SubSeq(d, 3, 8 + n) = SubSeq(d, 1, 8 + n)
    BY <1>0, <1>1, Adjacent
  <2>3. SubSeq(d, 1, 8 + n) \o SubSeq(d, 9 + n, 12 + n) = SubSeq(d, 1, 12 + n)
    <3>1. 8 + n \in 0 .. Len(d) /\ 9 + n = 8 + n + 1 /\ 12 + n \in 8 + n .. Len(d)
            /\ 1 \in 1 .. Len(d) + 1 /\ 8 + n \in 1 - 1 .. Len(d)
      BY <1>0, <1>1
    <3> QED BY <3>1, Adjacent
  <2>4. SubSeq(d, 1, 12 + n) = d
    BY <1>1, SubSeqFull
  <2> QED BY <2>1, <2>2, <2>3, <2>4
<1>9. Parsed(d) \in Frame
  <2>1. <<d[5], d[6]>> \in TwoBytes /\ d[4] \in Byte
    BY <1>2 DEF TwoBytes
  <2>2. payload \in UNION {[1 .. k -> Byte] : k \in 0 .. MAX_PAYLOAD_BYTES}
    BY <1>1, <1>3
  <2>3. Parsed(d) = [type |-> d[4], flags |-> <<d[5], d[6]>>, payload |-> payload]
    <3>1. HEADER_BYTES + 1 = 9 /\ HEADER_BYTES + payload_length(d) = 8 + n
      BY <1>1 DEF HEADER_BYTES
    <3> QED BY <3>1 DEF Parsed
  <2> HIDE DEF payload
  <2> QED BY <2>1, <2>2, <2>3 DEF Frame
<1> QED BY <1>8, <1>9

----------------------------------------------------------------------------
(* The steps preserve the invariant. *)

\* Only the payload bound matters for the longest buffer.
LEMMA BoundType == MAX_PAYLOAD_BYTES \in Nat /\ MIN_FRAME_BYTES = 12 /\ HEADER_BYTES = 8
BY PayloadAssumption DEF MIN_FRAME_BYTES, HEADER_BYTES

\* The parser starts with nothing in its buffer.
LEMMA InitStep == ASSUME ParserInit PROVE IInv
<1>1. TypeOK
  <2>1. << >> \in Seq(Byte) /\ << >> \in Seq(Errors) /\ << >> \in Seq(Frame)
    BY EmptySeq
  <2> QED BY <2>1 DEF ParserInit, TypeOK
<1>2. BufferBounded
  BY BoundType DEF ParserInit, BufferBounded
<1> QED BY <1>1, <1>2 DEF IInv

\* A call takes any bytes into the buffer.
LEMMA FeedStep == ASSUME IInv, NEW data \in Seq(Byte), Feed(data) PROVE IInv'
<1>1. buffer \o data \in Seq(Byte)
  BY ConcatProperties DEF IInv, TypeOK
<1>2. TypeOK'
  BY <1>1 DEF IInv, TypeOK, Feed
<1>3. BufferBounded'
  BY DEF Feed, BufferBounded
<1> QED BY <1>2, <1>3 DEF IInv

\* Without a SOF at most one byte is kept.
LEMMA NoSofStep == ASSUME IInv, NoSof PROVE IInv'
<1>1. buffer' = <<FRAME_SOF_0>> \/ buffer' = << >>
  BY DEF NoSof, Return
<1>2. buffer' \in Seq(Byte) /\ Len(buffer') < MIN_FRAME_BYTES + MAX_PAYLOAD_BYTES
  <2>1. FRAME_SOF_0 \in Byte
    BY ByteAssumption
  <2>2. <<FRAME_SOF_0>> \in Seq(Byte) /\ Len(<<FRAME_SOF_0>>) = 1
    BY <2>1
  <2>3. << >> \in Seq(Byte) /\ Len(<< >>) = 0
    BY EmptySeq
  <2>4. CASE buffer' = <<FRAME_SOF_0>>
    BY <2>2, <2>4, BoundType
  <2>5. CASE buffer' = << >>
    BY <2>3, <2>5, BoundType
  <2> QED BY <1>1, <2>4, <2>5
<1> QED BY <1>2 DEF IInv, TypeOK, BufferBounded, NoSof, Return

\* A candidate that is not complete is shorter than the longest frame.
LEMMA WaitStep == ASSUME IInv, Wait PROVE IInv'
<1>1. PICK i \in DOMAIN buffer :
        /\ Len(FromSof(i)) >= HEADER_BYTES =>
             /\ payload_length(FromSof(i)) <= MAX_PAYLOAD_BYTES
             /\ Len(FromSof(i)) < frame_length(FromSof(i))
        /\ Return(FromSof(i))
  BY DEF Wait
<1>2. FromSof(i) \in Seq(Byte) /\ Len(FromSof(i)) \in Nat
  BY FromSofType, LenProperties DEF IInv, TypeOK
<1>3. Len(FromSof(i)) < MIN_FRAME_BYTES + MAX_PAYLOAD_BYTES
  <2>1. CASE Len(FromSof(i)) >= HEADER_BYTES
    <3>1. payload_length(FromSof(i)) \in Nat
      BY <1>2, <2>1, LengthType
    <3>2. Len(FromSof(i)) < 12 + payload_length(FromSof(i))
      BY <1>1, <2>1, BoundType DEF frame_length
    <3> QED BY <1>1, <1>2, <2>1, <3>1, <3>2, BoundType
  <2>2. CASE ~(Len(FromSof(i)) >= HEADER_BYTES)
    BY <1>2, <2>2, BoundType
  <2> QED BY <2>1, <2>2
<1> QED BY <1>1, <1>2, <1>3 DEF IInv, TypeOK, BufferBounded, Return

\* A candidate that is refused costs the buffer one byte.
LEMMA RefuseStep ==
  ASSUME IInv, NEW i \in DOMAIN buffer, NEW error \in Errors, feeding,
         Refuse(FromSof(i), error)
  PROVE  IInv'
<1>1. FromSof(i) \in Seq(Byte) /\ FromSof(i) # << >>
  <2>1. Len(FromSof(i)) >= 1 /\ FromSof(i) \in Seq(Byte)
    BY FromSofType DEF IInv, TypeOK
  <2> QED BY <2>1, EmptySeq
<1>2. Tail(FromSof(i)) \in Seq(Byte)
  BY <1>1, HeadTailProperties
<1>3. Append(errors, error) \in Seq(Errors)
  BY AppendProperties DEF IInv, TypeOK
<1> QED BY <1>2, <1>3 DEF IInv, TypeOK, BufferBounded, Refuse

\* A length over the bound is refused.
LEMMA LongPayloadStep == ASSUME IInv, LongPayload PROVE IInv'
<1>1. "FrameLengthError" \in Errors
  BY DEF Errors
<1> QED BY <1>1, RefuseStep DEF LongPayload

\* What is no frame is one of the errors.
LEMMA ParseErrorType ==
  ASSUME NEW d, ParseError(d) # NoError PROVE ParseError(d) \in Errors
BY DEF ParseError, Errors

\* So is a complete candidate with a fault.
LEMMA BadFrameStep == ASSUME IInv, BadFrame PROVE IInv'
<1>1. PICK i \in DOMAIN buffer :
        /\ feeding /\ ParseError(candidate(i)) # NoError
        /\ Refuse(FromSof(i), ParseError(candidate(i)))
  BY DEF BadFrame
<1>2. ParseError(candidate(i)) \in Errors
  BY <1>1, ParseErrorType
<1> QED BY <1>1, <1>2, RefuseStep

\* A turn that finds a frame, in one place.
LEMMA GoodFrameData ==
  ASSUME IInv, NEW i \in DOMAIN buffer, Complete(i), ParseError(candidate(i)) = NoError
  PROVE  /\ Encode(Parsed(candidate(i))) = candidate(i)
         /\ Parsed(candidate(i)) \in Frame
<1>1. candidate(i) \in Seq(Byte) /\ Len(candidate(i)) >= MIN_FRAME_BYTES
  BY CandidateType, BoundType DEF IInv, TypeOK
<1> QED BY <1>1, EncodeParsed

\* A frame that is handed out leaves the buffer.
LEMMA GoodFrameStep == ASSUME IInv, GoodFrame PROVE IInv'
<1>1. PICK i \in DOMAIN buffer :
        /\ feeding /\ Complete(i) /\ ParseError(candidate(i)) = NoError
        /\ frames' = Append(frames, Parsed(candidate(i)))
        /\ buffer' = SubSeq(FromSof(i), frame_length(FromSof(i)) + 1, Len(FromSof(i)))
  BY DEF GoodFrame
<1>2. Append(frames, Parsed(candidate(i))) \in Seq(Frame)
  BY <1>1, GoodFrameData, AppendProperties DEF IInv, TypeOK
<1>3. SubSeq(FromSof(i), frame_length(FromSof(i)) + 1, Len(FromSof(i))) \in Seq(Byte)
  <2>1. FromSof(i) \in Seq(Byte) /\ Len(FromSof(i)) \in Nat
    BY FromSofType, LenProperties DEF IInv, TypeOK
  <2>2. frame_length(FromSof(i)) \in 12 .. Len(FromSof(i))
    BY <1>1, CandidateType, BoundType DEF IInv, TypeOK
  <2>3. frame_length(FromSof(i)) + 1 \in 1 .. Len(FromSof(i)) + 1
    BY <2>1, <2>2
  <2> QED BY <2>1, <2>3, Suffix
<1>4. errors' = errors /\ feeding' = feeding
  BY DEF GoodFrame
<1> QED BY <1>1, <1>2, <1>3, <1>4 DEF IInv, TypeOK, BufferBounded

\* The invariant in every state.
LEMMA Invariant == ParserSpec => []IInv
<1>1. ParserInit => IInv
  BY InitStep
<1>2. IInv /\ [ParserNext]_parser => IInv'
  <2> SUFFICES ASSUME IInv, [ParserNext]_parser PROVE IInv'
    OBVIOUS
  <2>1. CASE \E data \in Seq(Byte) : Feed(data)
    BY <2>1, FeedStep
  <2>2. CASE Turn
    BY <2>2, NoSofStep, WaitStep, LongPayloadStep, BadFrameStep, GoodFrameStep DEF Turn
  <2>3. CASE UNCHANGED parser
    BY <2>3 DEF IInv, TypeOK, BufferBounded, parser
  <2> QED BY <2>1, <2>2, <2>3 DEF ParserNext
<1> QED BY <1>1, <1>2, PTL DEF ParserSpec

\* Between two calls of feed the buffer is shorter than the longest frame,
\* whatever has been fed.
THEOREM Bounded == ParserSpec => []BufferBounded
<1>1. IInv => BufferBounded
  BY DEF IInv
<1> QED BY <1>1, Invariant, PTL

----------------------------------------------------------------------------
(* No frame is passed over. *)

\* A sequence is what stands before a place, a piece from there, and the rest.
LEMMA CutOut ==
  ASSUME NEW S, NEW s \in Seq(S), NEW i \in 1 .. Len(s), NEW t, t = SubSeq(s, i, Len(s)),
         NEW size \in 1 .. Len(t)
  PROVE  /\ Len(SubSeq(t, size + 1, Len(t))) = Len(t) - size
         /\ (SubSeq(s, 1, i - 1) \o SubSeq(t, 1, size)) \o SubSeq(t, size + 1, Len(t)) = s
<1>1. Len(s) \in Nat /\ i \in 1 .. Len(s) + 1 /\ i \in Nat /\ i <= Len(s) /\ i >= 1
  BY LenProperties
<1>2. t \in Seq(S)
  BY <1>1, Suffix
<1>3. Len(t) \in Nat /\ size \in Nat /\ size >= 1 /\ size <= Len(t)
  BY <1>2, LenProperties
<1>4. size + 1 \in 1 .. Len(t) + 1 /\ 1 \in 1 .. Len(t) + 1
  BY <1>3
<1>5. size \in 1 - 1 .. Len(t) /\ Len(t) \in size .. Len(t)
  BY <1>3
<1>6. /\ SubSeq(t, size + 1, Len(t)) \in Seq(S)
      /\ Len(SubSeq(t, size + 1, Len(t))) = Len(t) - (size + 1) + 1
  BY <1>2, <1>4, Suffix
<1>7. SubSeq(t, 1, size) \in Seq(S)
  BY <1>2, <1>4, <1>5, Piece
<1>8. SubSeq(t, 1, size) \o SubSeq(t, size + 1, Len(t)) = t
  <2>1. SubSeq(t, 1, size) \o SubSeq(t, size + 1, Len(t)) = SubSeq(t, 1, Len(t))
    BY <1>2, <1>4, <1>5, Adjacent
  <2> QED BY <1>2, <2>1, SubSeqFull
<1>9. i - 1 \in 1 - 1 .. Len(s) /\ i = i - 1 + 1 /\ Len(s) \in i - 1 .. Len(s)
        /\ 1 \in 1 .. Len(s) + 1
  BY <1>1
<1>10. SubSeq(s, 1, i - 1) \in Seq(S)
  BY <1>9, Piece
<1>11. SubSeq(s, 1, i - 1) \o t = s
  BY <1>9, Adjacent, SubSeqFull
<1>12. Len(t) - (size + 1) + 1 = Len(t) - size
  BY <1>3
<1>13. (SubSeq(s, 1, i - 1) \o SubSeq(t, 1, size)) \o SubSeq(t, size + 1, Len(t))
         = SubSeq(s, 1, i - 1) \o (SubSeq(t, 1, size) \o SubSeq(t, size + 1, Len(t)))
  <2> DEFINE u == SubSeq(s, 1, i - 1)
             v == SubSeq(t, 1, size)
             w == SubSeq(t, size + 1, Len(t))
  <2>1. u \in Seq(S) /\ v \in Seq(S) /\ w \in Seq(S)
    BY <1>6, <1>7, <1>10
  <2> HIDE DEF u, v, w
  <2>2. (u \o v) \o w = u \o (v \o w)
    BY <2>1
  <2> QED BY <2>2 DEF u, v, w
<1>14. (SubSeq(s, 1, i - 1) \o SubSeq(t, 1, size)) \o SubSeq(t, size + 1, Len(t)) = s
  BY <1>8, <1>11, <1>13
<1> QED BY <1>6, <1>12, <1>14

\* Where SOF does not stand no frame begins.
LEMMA NoFrameWithoutSof ==
  ASSUME buffer \in Seq(Byte), NEW k \in 1 .. Len(buffer), ~SofAt(k),
         k < Len(buffer) \/ buffer[k] # FRAME_SOF_0
  PROVE  ~MayBegin(SubSeq(buffer, k, Len(buffer)))
<1> DEFINE s == SubSeq(buffer, k, Len(buffer))
<1>1. Len(buffer) \in Nat /\ DOMAIN buffer = 1 .. Len(buffer) /\ k \in 1 .. Len(buffer) + 1
  BY LenProperties
<1>2. /\ s \in Seq(Byte) /\ Len(s) = Len(buffer) - k + 1
      /\ \A j \in 1 .. Len(buffer) - k + 1 : s[j] = buffer[k + j - 1]
  BY <1>1, Suffix
<1> HIDE DEF s
<1>3. DOMAIN s = 1 .. Len(s)
  BY <1>2, LenProperties
<1>4. 1 \in DOMAIN s /\ s[1] = buffer[k]
  BY <1>1, <1>2, <1>3
<1>5. SUFFICES ASSUME MayBegin(s) PROVE FALSE
  BY DEF s
<1>6. \A j \in 1 .. 2 : j \in DOMAIN s => s[j] = SOF[j]
  BY <1>5 DEF MayBegin
<1>7. SOF[1] = FRAME_SOF_0 /\ SOF[2] = FRAME_SOF_1
  BY DEF SOF
<1>8. buffer[k] = FRAME_SOF_0
  BY <1>4, <1>6, <1>7
<1>9. k < Len(buffer)
  BY <1>8
<1>10. k + 1 \in DOMAIN buffer /\ 2 \in DOMAIN s /\ s[2] = buffer[k + 1]
  BY <1>1, <1>2, <1>3, <1>9
<1>11. buffer[k + 1] = FRAME_SOF_1
  BY <1>6, <1>7, <1>10
<1> QED BY <1>8, <1>10, <1>11 DEF SofAt

\* No frame begins before the first SOF.
LEMMA NoFrameBefore ==
  ASSUME buffer \in Seq(Byte), NEW i \in DOMAIN buffer, FirstSof(i), NEW k \in 1 .. i - 1
  PROVE  ~MayBegin(SubSeq(buffer, k, Len(buffer)))
<1>1. i \in 1 .. Len(buffer) /\ Len(buffer) \in Nat
  BY FromSofType
<1>2. k \in 1 .. Len(buffer) /\ k < Len(buffer)
  BY <1>1
<1>3. ~SofAt(k)
  BY DEF FirstSof
<1> QED BY <1>2, <1>3, NoFrameWithoutSof

\* A turn that finds no frame and drops a prefix with which none begins.
LEMMA PassedOver ==
  ASSUME TypeOK, NEW p \in 0 .. Len(buffer),
         buffer' = SubSeq(buffer, p + 1, Len(buffer)), frames' = frames,
         \A k \in 1 .. p : ~MayBegin(SubSeq(buffer, k, Len(buffer)))
  PROVE  TurnMissesNone
<1>1. buffer \in Seq(Byte) /\ Len(buffer) \in Nat /\ p \in Nat
  BY LenProperties DEF TypeOK
<1>2. p + 1 \in 1 .. Len(buffer) + 1 /\ 1 \in 1 .. Len(buffer) + 1 /\ p \in 1 - 1 .. Len(buffer)
        /\ Len(buffer) \in p .. Len(buffer)
  BY <1>1
<1>3. buffer' \in Seq(Byte) /\ Len(buffer') = Len(buffer) - p
  <2>1. Len(buffer') = Len(buffer) - (p + 1) + 1 /\ buffer' \in Seq(Byte)
    BY <1>1, <1>2, Suffix
  <2> QED BY <1>1, <2>1
<1>4. SubSeq(buffer, 1, p) \in Seq(Byte)
  BY <1>1, <1>2, Piece
<1>5. SubSeq(buffer, 1, p) \o SubSeq(buffer, p + 1, Len(buffer)) = SubSeq(buffer, 1, Len(buffer))
  BY <1>1, <1>2, Adjacent
<1>6. SubSeq(buffer, 1, p) \o << >> \o buffer' = buffer
  BY <1>1, <1>4, <1>5, SubSeqFull, ConcatEmptySeq
<1>7. Len(buffer) - Len(buffer') - Len(<< >>) = p
  BY <1>1, <1>3
<1> QED BY <1>6, <1>7 DEF TurnMissesNone

\* Without a SOF there is no beginning of a frame to miss.
LEMMA NoSofMissesNone == ASSUME IInv, NoSof PROVE TurnMissesNone
<1>1. buffer \in Seq(Byte) /\ Len(buffer) \in Nat /\ DOMAIN buffer = 1 .. Len(buffer)
  BY LenProperties DEF IInv, TypeOK
<1>2. frames' = frames /\ \A k \in 1 .. Len(buffer) : ~SofAt(k)
  BY <1>1 DEF NoSof, Return, SofFound
<1> DEFINE kept == buffer # << >> /\ buffer[Len(buffer)] = FRAME_SOF_0
<1>3. buffer' = IF kept THEN <<FRAME_SOF_0>> ELSE << >>
  BY DEF NoSof, Return
<1>4. CASE kept
  <2>1. Len(buffer) >= 1
    BY <1>1, <1>4, EmptySeq
  <2>2. Len(buffer) - 1 \in 0 .. Len(buffer) /\ Len(buffer) - 1 + 1 = Len(buffer)
    BY <1>1, <2>1
  <2>3. buffer' = SubSeq(buffer, Len(buffer), Len(buffer))
    <3>1. Len(buffer) \in 1 .. Len(buffer) + 1 /\ Len(buffer) - Len(buffer) + 1 = 1
      BY <1>1, <2>1
    <3>2. /\ SubSeq(buffer, Len(buffer), Len(buffer)) \in Seq(Byte)
          /\ Len(SubSeq(buffer, Len(buffer), Len(buffer))) = 1
          /\ SubSeq(buffer, Len(buffer), Len(buffer))[1] = FRAME_SOF_0
      <4>1. 1 \in 1 .. 1 /\ Len(buffer) + 1 - 1 = Len(buffer)
        BY <1>1
      <4> QED BY <1>1, <1>4, <3>1, <4>1, Suffix
    <3>3. <<FRAME_SOF_0>> \in Seq(Byte) /\ Len(<<FRAME_SOF_0>>) = 1 /\ <<FRAME_SOF_0>>[1] = FRAME_SOF_0
      BY ByteAssumption
    <3>4. \A j \in 1 .. 1 : <<FRAME_SOF_0>>[j] = SubSeq(buffer, Len(buffer), Len(buffer))[j]
      BY <3>2, <3>3
    <3>5. <<FRAME_SOF_0>> = SubSeq(buffer, Len(buffer), Len(buffer))
      BY <3>2, <3>3, <3>4, SeqEqual
    <3> QED BY <1>3, <1>4, <3>5
  <2>4. \A k \in 1 .. Len(buffer) - 1 : ~MayBegin(SubSeq(buffer, k, Len(buffer)))
    <3>1. TAKE k \in 1 .. Len(buffer) - 1
    <3>2. k \in 1 .. Len(buffer) /\ k < Len(buffer)
      BY <1>1
    <3> QED BY <1>1, <1>2, <3>2, NoFrameWithoutSof
  <2> QED BY <1>2, <2>2, <2>3, <2>4, PassedOver DEF IInv
<1>5. CASE ~kept
  <2>1. buffer' = SubSeq(buffer, Len(buffer) + 1, Len(buffer))
    BY <1>1, <1>3, <1>5, SubSeqEmpty
  <2>2. \A k \in 1 .. Len(buffer) : ~MayBegin(SubSeq(buffer, k, Len(buffer)))
    <3>1. TAKE k \in 1 .. Len(buffer)
    <3>2. k < Len(buffer) \/ k = Len(buffer)
      <4>1. k \in Nat /\ k <= Len(buffer) /\ Len(buffer) \in Nat
        BY <1>1
      <4> QED BY <4>1
    <3>3. buffer # << >>
      BY <1>1, EmptySeq
    <3>4. k < Len(buffer) \/ buffer[k] # FRAME_SOF_0
      BY <1>5, <3>2, <3>3
    <3> QED BY <1>1, <1>2, <3>4, NoFrameWithoutSof
  <2>3. Len(buffer) \in 0 .. Len(buffer)
    BY <1>1
  <2> QED BY <1>2, <2>1, <2>2, <2>3, PassedOver DEF IInv
<1> QED BY <1>4, <1>5

\* What waits keeps everything from its SOF on.
LEMMA WaitMissesNone == ASSUME IInv, Wait PROVE TurnMissesNone
<1>1. PICK i \in DOMAIN buffer : FirstSof(i) /\ Return(FromSof(i))
  BY DEF Wait
<1>2. buffer \in Seq(Byte) /\ i \in 1 .. Len(buffer) /\ Len(buffer) \in Nat
  BY FromSofType DEF IInv, TypeOK
<1>3. i - 1 \in 0 .. Len(buffer) /\ i - 1 + 1 = i
  BY <1>2
<1>4. buffer' = SubSeq(buffer, i - 1 + 1, Len(buffer)) /\ frames' = frames
  BY <1>1, <1>3 DEF Return, FromSof
<1>5. \A k \in 1 .. i - 1 : ~MayBegin(SubSeq(buffer, k, Len(buffer)))
  BY <1>1, <1>2, NoFrameBefore
<1> QED BY <1>3, <1>4, <1>5, PassedOver DEF IInv

\* Giving up a candidate with which no frame begins.
LEMMA RefuseMissesNone ==
  ASSUME IInv, NEW i \in DOMAIN buffer, FirstSof(i), NEW error,
         Refuse(FromSof(i), error), ~MayBegin(FromSof(i))
  PROVE  TurnMissesNone
<1>1. buffer \in Seq(Byte) /\ i \in 1 .. Len(buffer) /\ Len(buffer) \in Nat
  BY FromSofType DEF IInv, TypeOK
<1>2. i \in 0 .. Len(buffer) /\ Len(buffer) \in i .. Len(buffer)
  BY <1>1
<1>3. Tail(FromSof(i)) = SubSeq(buffer, i + 1, Len(buffer))
  BY <1>1, <1>2, HeadTailOfSubSeq DEF FromSof
<1>4. buffer' = SubSeq(buffer, i + 1, Len(buffer)) /\ frames' = frames
  BY <1>3 DEF Refuse
<1>5. \A k \in 1 .. i : ~MayBegin(SubSeq(buffer, k, Len(buffer)))
  <2>1. TAKE k \in 1 .. i
  <2>2. CASE k = i
    BY <2>2 DEF FromSof
  <2>3. CASE k # i
    <3>1. k \in 1 .. i - 1
      BY <1>1, <2>3
    <3> QED BY <1>1, <3>1, NoFrameBefore
  <2> QED BY <2>2, <2>3
<1> QED BY <1>2, <1>4, <1>5, PassedOver DEF IInv

\* A length over the bound is no frame's.
LEMMA LongPayloadMissesNone == ASSUME IInv, LongPayload PROVE TurnMissesNone
<1>1. PICK i \in DOMAIN buffer :
        /\ FirstSof(i) /\ Len(FromSof(i)) >= HEADER_BYTES
        /\ payload_length(FromSof(i)) > MAX_PAYLOAD_BYTES
        /\ Refuse(FromSof(i), "FrameLengthError")
  BY DEF LongPayload
<1>2. FromSof(i) \in Seq(Byte) /\ Len(FromSof(i)) \in Nat
        /\ DOMAIN FromSof(i) = 1 .. Len(FromSof(i))
  BY FromSofType, LenProperties DEF IInv, TypeOK
<1>3. 8 \in DOMAIN FromSof(i)
  BY <1>1, <1>2, BoundType
<1>4. ~(payload_length(FromSof(i)) <= MAX_PAYLOAD_BYTES)
  <2>1. payload_length(FromSof(i)) \in Nat
    BY <1>1, <1>2, LengthType
  <2> QED BY <1>1, <2>1, BoundType
<1>5. ~MayBegin(FromSof(i))
  BY <1>3, <1>4 DEF MayBegin
<1> QED BY <1>1, <1>5, RefuseMissesNone

\* A candidate with which a frame may begin is one.
LEMMA CandidateIsFrame ==
  ASSUME buffer \in Seq(Byte), NEW i \in DOMAIN buffer, Complete(i), MayBegin(FromSof(i))
  PROVE  ParseError(candidate(i)) = NoError
<1> DEFINE s == FromSof(i)
           d == candidate(i)
<1>1. s \in Seq(Byte) /\ Len(s) \in Nat /\ DOMAIN s = 1 .. Len(s)
  BY FromSofType, LenProperties
<1>2. /\ frame_length(s) \in 12 .. Len(s) /\ payload_length(s) \in 0 .. MAX_PAYLOAD_BYTES
      /\ d \in Seq(Byte) /\ Len(d) = frame_length(s)
      /\ \A k \in 1 .. frame_length(s) : d[k] = s[k]
      /\ payload_length(d) = payload_length(s) /\ frame_length(d) = frame_length(s)
  BY CandidateType, BoundType
<1>3. d = SubSeq(s, 1, frame_length(s)) /\ MayBegin(s)
  BY DEF candidate
<1> HIDE DEF s, d
<1>4. PICK n \in 0 .. MAX_PAYLOAD_BYTES :
        n = payload_length(s) /\ frame_length(s) = 12 + n /\ Len(s) >= 12 + n
  BY <1>1, <1>2, BoundType DEF frame_length
<1>5. n \in Nat
  BY BoundType
<1>6. /\ s[1] = SOF[1] /\ s[2] = SOF[2] /\ s[3] = FRAME_VERSION
      /\ SubSeq(s, 8 + n + 1, 8 + n + 4) = CrcOver(SubSeq(s, 3, 8 + n))
  <2>1. 1 \in DOMAIN s /\ 2 \in DOMAIN s /\ 3 \in DOMAIN s /\ 8 \in DOMAIN s
          /\ 8 + n + 4 \in DOMAIN s
    BY <1>1, <1>4, <1>5
  <2>2. HEADER_BYTES + payload_length(s) = 8 + n
    BY <1>4, BoundType
  <2>3. 1 \in 1 .. 2 /\ 2 \in 1 .. 2
    OBVIOUS
  <2> QED BY <1>3, <2>1, <2>2, <2>3 DEF MayBegin
<1>7. SubSeq(d, 1, 2) = SOF
  <2>1. SubSeq(d, 1, 1 + 1) = <<d[1], d[1 + 1]>>
    <3>1. 1 \in 1 .. Len(d) - 1
      BY <1>2, <1>4, <1>5
    <3> QED BY <1>2, <3>1, PairPiece
  <2>2. d[1] = s[1] /\ d[2] = s[2]
    BY <1>2
  <2>3. SOF = <<SOF[1], SOF[2]>>
    BY DEF SOF
  <2>4. SubSeq(d, 1, 2) = <<d[1], d[2]>>
    BY <2>1
  <2> QED BY <1>6, <2>2, <2>3, <2>4, Zenon
<1>8. d[3] = FRAME_VERSION
  BY <1>2, <1>6
<1>9. ~CrcFault(d)
  <2>1. /\ 1 \in 1 .. Len(s) /\ 12 + n \in 1 .. Len(s)
        /\ 3 \in 1 .. 12 + n - 1 + 1 /\ 8 + n \in 1 .. 12 + n - 1 + 1
        /\ 8 + n + 1 \in 1 .. 12 + n - 1 + 1 /\ 8 + n + 4 \in 1 .. 12 + n - 1 + 1
        /\ 1 + 3 - 1 = 3 /\ 1 + (8 + n) - 1 = 8 + n
        /\ 1 + (8 + n + 1) - 1 = 8 + n + 1 /\ 1 + (8 + n + 4) - 1 = 8 + n + 4
    <3>1. Len(s) \in Nat /\ Len(s) >= 12 + n
      BY <1>1, <1>4
    <3>2. 1 \in 1 .. Len(s) /\ 12 + n \in 1 .. Len(s)
      BY <1>5, <3>1
    <3>3. /\ 3 \in 1 .. 12 + n - 1 + 1 /\ 8 + n \in 1 .. 12 + n - 1 + 1
          /\ 8 + n + 1 \in 1 .. 12 + n - 1 + 1 /\ 8 + n + 4 \in 1 .. 12 + n - 1 + 1
      BY ONLY <1>5
    <3>4. /\ 1 + 3 - 1 = 3 /\ 1 + (8 + n) - 1 = 8 + n
          /\ 1 + (8 + n + 1) - 1 = 8 + n + 1 /\ 1 + (8 + n + 4) - 1 = 8 + n + 4
      BY ONLY <1>5
    <3> QED BY <3>2, <3>3, <3>4, Zenon
  <2>2. d = SubSeq(s, 1, 12 + n)
    BY <1>3, <1>4
  <2>3. SubSeq(d, 3, 8 + n) = SubSeq(s, 3, 8 + n)
    <3>1. SubSeq(SubSeq(s, 1, 12 + n), 3, 8 + n) = SubSeq(s, 1 + 3 - 1, 1 + (8 + n) - 1)
      BY <1>1, <2>1, SubSeqOfSubSeq
    <3> QED BY <2>1, <2>2, <3>1
  <2>4. SubSeq(d, 8 + n + 1, 8 + n + 4) = SubSeq(s, 8 + n + 1, 8 + n + 4)
    <3>1. SubSeq(SubSeq(s, 1, 12 + n), 8 + n + 1, 8 + n + 4)
            = SubSeq(s, 1 + (8 + n + 1) - 1, 1 + (8 + n + 4) - 1)
      BY <1>1, <2>1, SubSeqOfSubSeq
    <3> QED BY <2>1, <2>2, <3>1
  <2>5. HEADER_BYTES + payload_length(d) = 8 + n
    BY <1>2, <1>4, BoundType
  <2> QED BY <1>6, <2>3, <2>4, <2>5 DEF CrcFault
<1>10. ~(Len(d) < MIN_FRAME_BYTES) /\ ~(payload_length(d) > MAX_PAYLOAD_BYTES)
         /\ Len(d) = frame_length(d)
  BY <1>2, <1>4, <1>5, BoundType
<1>11. ParseError(d) = NoError
  BY <1>7, <1>8, <1>9, <1>10, Zenon DEF ParseError
<1> QED BY <1>11 DEF d

\* A complete candidate that is refused is no frame.
LEMMA BadFrameMissesNone == ASSUME IInv, BadFrame PROVE TurnMissesNone
<1>1. PICK i \in DOMAIN buffer :
        /\ Complete(i) /\ ParseError(candidate(i)) # NoError
        /\ Refuse(FromSof(i), ParseError(candidate(i)))
  BY DEF BadFrame
<1>2. ~MayBegin(FromSof(i)) /\ FirstSof(i)
  BY <1>1, CandidateIsFrame DEF IInv, TypeOK, Complete
<1> QED BY <1>1, <1>2, RefuseMissesNone

\* What is handed out is the frame that stood there, whole.
LEMMA GoodFrameMissesNone == ASSUME IInv, GoodFrame PROVE TurnMissesNone
<1>1. PICK i \in DOMAIN buffer :
        /\ Complete(i) /\ ParseError(candidate(i)) = NoError
        /\ frames' = Append(frames, Parsed(candidate(i)))
        /\ buffer' = SubSeq(FromSof(i), frame_length(FromSof(i)) + 1, Len(FromSof(i)))
  BY DEF GoodFrame
<1>2. /\ buffer \in Seq(Byte) /\ i \in 1 .. Len(buffer) /\ Len(buffer) \in Nat
      /\ FromSof(i) \in Seq(Byte) /\ Len(FromSof(i)) = Len(buffer) - i + 1
  BY FromSofType DEF IInv, TypeOK
<1>3. /\ frame_length(FromSof(i)) \in 12 .. Len(FromSof(i))
      /\ Len(candidate(i)) = frame_length(FromSof(i))
  BY <1>1, <1>2, CandidateType, BoundType
<1> DEFINE t == FromSof(i)
           size == frame_length(t)
<1>4. /\ candidate(i) = SubSeq(t, 1, size) /\ t = SubSeq(buffer, i, Len(buffer))
      /\ buffer' = SubSeq(t, size + 1, Len(t))
  BY <1>1 DEF candidate, FromSof
<1>5. Encode(Parsed(candidate(i))) = candidate(i) /\ Parsed(candidate(i)) \in Frame
  BY <1>1, GoodFrameData
<1>6. frames' # frames /\ frames'[Len(frames')] = Parsed(candidate(i))
  <2>1. frames \in Seq(Frame) /\ Len(frames) \in Nat
    BY LenProperties DEF IInv, TypeOK
  <2>2. Len(frames') = Len(frames) + 1 /\ frames'[Len(frames) + 1] = Parsed(candidate(i))
    BY <1>1, <1>5, <2>1, AppendProperties
  <2> QED BY <2>1, <2>2
<1>7. size \in 1 .. Len(t) /\ Len(candidate(i)) = size /\ Len(t) = Len(buffer) - i + 1
  BY <1>2, <1>3
<1> HIDE DEF t, size
<1>8. /\ Len(buffer') = Len(t) - size
      /\ (SubSeq(buffer, 1, i - 1) \o candidate(i)) \o buffer' = buffer
  <2>1. /\ Len(SubSeq(t, size + 1, Len(t))) = Len(t) - size
        /\ (SubSeq(buffer, 1, i - 1) \o SubSeq(t, 1, size)) \o SubSeq(t, size + 1, Len(t)) = buffer
    <3>1. buffer \in Seq(Byte) /\ i \in 1 .. Len(buffer)
            /\ t = SubSeq(buffer, i, Len(buffer)) /\ size \in 1 .. Len(t)
      BY <1>2, <1>4, <1>7
    <3> QED BY ONLY <3>1, CutOut, Zenon
  <2> QED BY <1>4, <2>1
<1>9. Len(buffer) - Len(buffer') - Len(candidate(i)) = i - 1
  BY <1>2, <1>7, <1>8
<1>10. \A k \in 1 .. i - 1 : ~MayBegin(SubSeq(buffer, k, Len(buffer)))
  BY <1>1, <1>2, NoFrameBefore DEF Complete
<1> QED BY <1>5, <1>6, <1>8, <1>9, <1>10 DEF TurnMissesNone

\* No turn of the parser passes a frame over or hands out anything but a frame
\* whose encoding it was fed.
THEOREM MissesNone == ParserSpec => FindsEveryFrame
<1>1. IInv /\ [ParserNext]_parser => [feeding => TurnMissesNone]_parser
  <2> SUFFICES ASSUME IInv, ParserNext, feeding PROVE TurnMissesNone
    OBVIOUS
  <2>1. ~(\E data \in Seq(Byte) : Feed(data))
    BY DEF Feed
  <2>2. Turn
    BY <2>1 DEF ParserNext
  <2> QED
    BY <2>2, NoSofMissesNone, WaitMissesNone, LongPayloadMissesNone, BadFrameMissesNone,
       GoodFrameMissesNone
    DEF Turn
<1> QED BY <1>1, Invariant, PTL DEF ParserSpec, FindsEveryFrame

----------------------------------------------------------------------------
(* The vector runner: its invariant. *)

HostSteps == {"load", "reserve capture", "reserve results", "open", "write", "read", "parse",
              "save capture", "save results", "ended"}
InCase == {"write", "read", "parse"}
PortOpen == InCase \cup {"save capture", "save results"}

\* The bytes of the first n of some results, one behind the other.
Outputs(results, n) == FlattenSeq([i \in 1 .. n |-> results[i].output])

\* What may be on the line.
Lines == Seq([origin : Nat, bytes : Seq(Byte) \ {<< >>}])

\* A result is of its case; while nothing has failed it is what was expected.
ResultOK(i) ==
  LET result == recorder.results[i]
  IN  /\ result.case_id = Cases[i].case_id /\ result.implementation = "fpga-uart"
      /\ result.schema_version = SCHEMA_VERSION
      /\ result.output \in Seq(Byte) /\ result.output_bit_length = 8 * Len(result.output)
      /\ ~failed => /\ result.output = Cases[i].decoded
                    /\ result.status = StatusFlags(Parsed(result.output))

\* Where the run stands in the file, and what is on the line.
ProgressOK ==
  /\ pc \in HostSteps /\ failed \in BOOLEAN /\ vectors \in DOMAIN VectorFiles
  /\ pc \in PortOpen \cup {"reserve capture", "reserve results", "open"} => ~VectorsRefused
  /\ pc \notin PortOpen \cup {"ended"} => recorder = [capture |-> << >>, results |-> << >>]
  /\ pc \in InCase => uart_case \in 1 .. Len(Cases) /\ Len(recorder.results) = uart_case - 1
  /\ pc \in {"save capture", "save results", "ended"} /\ ~failed =>
       Len(recorder.results) = Len(Cases)
  /\ line \in Lines
  /\ owing \in Seq(0 .. Len(Cases))

\* What the recorder holds.
RecorderOK ==
  /\ DOMAIN recorder = {"capture", "results"}
  /\ recorder.capture \in Seq(Byte) /\ received \in Seq(Byte)
  /\ recorder.results = [i \in 1 .. Len(recorder.results) |-> recorder.results[i]]
  /\ Len(recorder.results) \in 0 .. Len(Cases)
  /\ \A i \in 1 .. Len(recorder.results) : ResultOK(i)
  /\ \A n \in 0 .. Len(recorder.results) : IsPrefix(Outputs(recorder.results, n), recorder.capture)
  /\ pc \in InCase =>
       recorder.capture = Outputs(recorder.results, Len(recorder.results)) \o received
  /\ pc = "write" => received = << >>
  /\ Len(recorder.results) = Len(Cases) =>
       recorder.capture = Outputs(recorder.results, Len(recorder.results))

\* What the two files hold.
FilesOK ==
  /\ DOMAIN artifacts = {"capture", "results"} /\ DOMAIN old_files = {"capture", "results"}
  /\ \A file \in {"capture", "results"} :
       /\ old_files[file] \in {NoFile, OldFile}
       /\ old_files[file] = OldFile => artifacts[file] = OldFile
  /\ VectorsRefused \/ pc \in {"load", "reserve capture"} => artifacts = old_files
  /\ pc = "reserve results" => old_files.capture = NoFile /\ artifacts.results = old_files.results
  /\ pc \in PortOpen \cup {"open"} => \A file \in {"capture", "results"} : old_files[file] = NoFile
  /\ pc # "ended" => artifacts.results.records = << >>
  /\ pc = "save results" => artifacts.capture.records = recorder.capture
  /\ \E n \in 0 .. Len(recorder.results) :
       artifacts.results.records = SubSeq(recorder.results, 1, n)
  /\ artifacts.results.records # << >> => artifacts.capture.records = recorder.capture
  /\ pc = "ended" /\ ~failed => artifacts.results = NewFile(recorder.results, FALSE)

HostInv == ProgressOK /\ RecorderOK /\ FilesOK /\ IInv

----------------------------------------------------------------------------
(* Sequences one behind the other. *)

\* Folded, so that the provers do not look into it.
Then(s, t) == s \o t

\* f[i] is the first i of s joined.
Joins(f, s, n, S) ==
  /\ f \in [0 .. n -> Seq(S)] /\ f[0] = << >>
  /\ \A i \in 0 .. n - 1 : f[i + 1] = Then(f[i], s[i + 1])

LEMMA JoinExists ==
  ASSUME NEW S, NEW m \in Nat, NEW s \in [1 .. m -> Seq(S)]
  PROVE  \E f : Joins(f, s, m, S)
<1> DEFINE T == {n \in Nat : n <= m => \E f : Joins(f, s, n, S)}
<1>1. 0 \in T
  <2>1. Joins([i \in 0 .. 0 |-> << >>], s, 0, S)
    BY DEF Joins
  <2> QED BY <2>1
<1>2. ASSUME NEW n \in T PROVE n + 1 \in T
  <2>1. SUFFICES ASSUME n + 1 <= m PROVE \E g : Joins(g, s, n + 1, S)
    OBVIOUS
  <2>2. PICK f : Joins(f, s, n, S)
    BY <2>1
  <2> DEFINE x == Then(f[n], s[n + 1])
             g == [i \in 0 .. n + 1 |-> IF i = n + 1 THEN x ELSE f[i]]
  <2>3. n \in Nat /\ n + 1 \in 1 .. m /\ s[n + 1] \in Seq(S) /\ f[n] \in Seq(S)
    BY <2>1, <2>2 DEF Joins
  <2>4. x \in Seq(S)
    BY <2>3 DEF Then
  <2> HIDE DEF x
  <2>5. \A i \in 0 .. n : g[i] = f[i]
    BY <2>3
  <2>6. g[n + 1] = x
    BY <2>3
  <2>7. g \in [0 .. n + 1 -> Seq(S)]
    BY <2>2, <2>3, <2>4 DEF Joins
  <2>8. \A i \in 0 .. n : g[i + 1] = Then(g[i], s[i + 1])
    <3> HIDE DEF g
    <3> TAKE i \in 0 .. n
    <3>1. CASE i = n
      BY <3>1, <2>3, <2>5, <2>6 DEF x
    <3>2. CASE i \in 0 .. n - 1
      <4>1. i + 1 \in 0 .. n
        BY <2>3, <3>2
      <4>2. g[i] = f[i] /\ g[i + 1] = f[i + 1]
        BY <2>5, <4>1
      <4> QED BY <2>2, <3>2, <4>2 DEF Joins
    <3> QED BY <2>3, <3>1, <3>2
  <2>9. g[0] = << >>
    BY <2>2, <2>3, <2>5 DEF Joins
  <2> HIDE DEF g
  <2>10. \A i \in 0 .. n + 1 - 1 : i \in 0 .. n
    BY <2>3
  <2>11. Joins(g, s, n + 1, S)
    BY <2>7, <2>8, <2>9, <2>10 DEF Joins
  <2> QED BY <2>11
<1> HIDE DEF T
<1>3. T = Nat
  <2>1. T \subseteq Nat
    BY DEF T
  <2> QED BY <1>1, <1>2, <2>1, Induction
<1>4. m \in T
  BY <1>3
<1> QED BY <1>4 DEF T

\* FlattenSeq gives the last value of such a function.
LEMMA FlattenJoins ==
  ASSUME NEW S, NEW m \in Nat, NEW s \in [1 .. m -> Seq(S)]
  PROVE  \E f : Joins(f, s, m, S) /\ FlattenSeq(s) = f[m]
<1> DEFINE Def(f) == [i \in 1 .. Len(s) |-> IF i = 1 THEN s[i] ELSE Then(f[i - 1], s[i])]
           flatten == CHOOSE f : f = Def(f)
<1>0. Len(s) = m
  BY FunctionIsSeq
<1>1. PICK f : Joins(f, s, m, S)
  BY JoinExists
<1>2. \A i \in 1 .. m : f[i] = IF i = 1 THEN s[i] ELSE Then(f[i - 1], s[i])
  <2> TAKE i \in 1 .. m
  <2> DEFINE k == i - 1
  <2>1. k \in 0 .. m - 1 /\ i = k + 1 /\ s[i] \in Seq(S)
    OBVIOUS
  <2> HIDE DEF k
  <2>2. f[k + 1] = Then(f[k], s[k + 1])
    BY <1>1, <2>1 DEF Joins
  <2>3. Then(<< >>, s[i]) = s[i]
    BY <2>1 DEF Then
  <2>4. f[0] = << >>
    BY <1>1 DEF Joins
  <2>5. f[i] = Then(f[k], s[i])
    BY <2>1, <2>2
  <2>6. CASE i = 1
    <3>1. k = 0
      BY <2>6 DEF k
    <3> QED BY <2>3, <2>4, <2>5, <2>6, <3>1
  <2>7. CASE i # 1
    BY <2>5, <2>7 DEF k
  <2> QED BY <2>6, <2>7
<1>3. CASE m = 0
  <2>1. s = << >> /\ FlattenSeq(s) = s
    BY <1>0, <1>3 DEF FlattenSeq
  <2> QED BY <1>1, <1>3, <2>1 DEF Joins
<1>4. CASE m # 0
  <2> DEFINE first == [i \in 1 .. m |-> f[i]]
  <2>1. first = Def(first)
    <3>1. \A i \in 1 .. m : i # 1 => i - 1 \in 1 .. m
      OBVIOUS
    <3> QED BY <1>0, <1>2, <3>1
  <2>2. flatten = Def(flatten)
    <3> HIDE DEF Def
    <3> QED BY <2>1
  <2>3. FlattenSeq(s) = flatten[m]
    BY <1>0, <1>4 DEF FlattenSeq, Then
  <2> HIDE DEF flatten, first
  <2>4. \A i \in 1 .. m : flatten[i] = IF i = 1 THEN s[i] ELSE Then(flatten[i - 1], s[i])
    BY <1>0, <2>2
  <2> DEFINE T == {k \in Nat : k \in 1 .. m => flatten[k] = f[k]}
  <2>5. 0 \in T
    OBVIOUS
  <2>6. ASSUME NEW k \in T PROVE k + 1 \in T
    <3>1. SUFFICES ASSUME k + 1 <= m PROVE flatten[k + 1] = f[k + 1]
      OBVIOUS
    <3> DEFINE i == k + 1
    <3>2. /\ k \in Nat /\ (k # 0 => flatten[k] = f[k]) /\ i \in 1 .. m
          /\ i - 1 = k /\ (i = 1 <=> k = 0)
      BY <3>1
    <3> HIDE DEF i
    <3>3. f[i] = IF i = 1 THEN s[i] ELSE Then(f[i - 1], s[i])
      BY <1>2, <3>2
    <3>4. flatten[i] = IF i = 1 THEN s[i] ELSE Then(flatten[i - 1], s[i])
      BY <2>4, <3>2
    <3>5. flatten[i] = f[i]
      BY <3>2, <3>3, <3>4
    <3> QED BY <3>5 DEF i
  <2> HIDE DEF T
  <2>7. T = Nat
    <3>1. T \subseteq Nat
      BY DEF T
    <3> QED BY <2>5, <2>6, <3>1, Induction
  <2>8. flatten[m] = f[m]
    <3>1. m \in T /\ m \in 1 .. m
      BY <1>4, <2>7
    <3> QED BY <3>1 DEF T
  <2> QED BY <1>1, <2>3, <2>8
<1> QED BY <1>3, <1>4

\* One more sequence is joined at the end.
LEMMA FlattenMore ==
  ASSUME NEW S, NEW n \in Nat, NEW s \in [1 .. n + 1 -> Seq(S)],
         NEW t \in [1 .. n -> Seq(S)], \A i \in 1 .. n : t[i] = s[i]
  PROVE  FlattenSeq(s) = FlattenSeq(t) \o s[n + 1]
<1>0. n + 1 \in Nat
  OBVIOUS
<1>1. PICK f : Joins(f, s, n + 1, S) /\ FlattenSeq(s) = f[n + 1]
  BY <1>0, FlattenJoins, Zenon
<1>2. PICK g : Joins(g, t, n, S) /\ FlattenSeq(t) = g[n]
  BY FlattenJoins, Zenon
<1>3. \A k \in Nat : k <= n => f[k] = g[k]
  <2> DEFINE T == {k \in Nat : k <= n => f[k] = g[k]}
  <2>1. 0 \in T
    BY <1>1, <1>2 DEF Joins
  <2>2. ASSUME NEW k \in T PROVE k + 1 \in T
    <3>1. SUFFICES ASSUME k + 1 <= n PROVE f[k + 1] = g[k + 1]
      OBVIOUS
    <3>2. k \in 0 .. n - 1 /\ k \in 0 .. n + 1 - 1 /\ f[k] = g[k] /\ t[k + 1] = s[k + 1]
      BY <3>1
    <3>3. f[k + 1] = Then(f[k], s[k + 1])
      BY <1>1, <3>2 DEF Joins
    <3>4. g[k + 1] = Then(g[k], t[k + 1])
      BY <1>2, <3>2 DEF Joins
    <3> QED BY <3>2, <3>3, <3>4
  <2> HIDE DEF T
  <2>3. T = Nat
    <3>1. T \subseteq Nat
      BY DEF T
    <3> QED BY <2>1, <2>2, <3>1, Induction
  <2> QED BY <2>3 DEF T
<1>4. f[n] = g[n]
  BY <1>3
<1>5. n \in 0 .. n + 1 - 1
  OBVIOUS
<1>6. f[n + 1] = Then(f[n], s[n + 1])
  BY <1>1, <1>5 DEF Joins
<1> QED BY <1>1, <1>2, <1>4, <1>6 DEF Then

LEMMA FlattenType ==
  ASSUME NEW S, NEW n \in Nat, NEW s \in [1 .. n -> Seq(S)]
  PROVE  FlattenSeq(s) \in Seq(S) /\ (n = 0 => FlattenSeq(s) = << >>)
<1>1. PICK f : Joins(f, s, n, S) /\ FlattenSeq(s) = f[n]
  BY FlattenJoins, Zenon
<1>2. f[0] = << >> /\ f[n] \in Seq(S)
  BY <1>1 DEF Joins
<1> QED BY <1>1, <1>2, Zenon

\* A prefix is the same element by element.
LEMMA PrefixElements ==
  ASSUME NEW S, NEW s \in Seq(S), NEW t \in Seq(S)
  PROVE  IsPrefix(s, t) <=> Len(s) <= Len(t) /\ \A i \in 1 .. Len(s) : s[i] = t[i]
<1> DEFINE n == Len(s)
           p == SubSeq(t, 1, n)
<1>1. n \in Nat /\ Len(t) \in Nat /\ SubSeq(s, 1, n) = s
  BY LenProperties, SubSeqFull
<1>2. IsPrefix(s, t) <=> n <= Len(t) /\ s = p
  BY <1>1 DEF IsPrefix
<1>3. ASSUME n <= Len(t) PROVE s = p <=> \A i \in 1 .. n : s[i] = t[i]
  <2>1. n \in 1 - 1 .. Len(t) /\ 1 \in 1 .. Len(t) + 1
    BY <1>1, <1>3
  <2>2. p \in Seq(S) /\ Len(p) = n - 1 + 1 /\ \A k \in 1 .. n - 1 + 1 : p[k] = t[1 + k - 1]
    <3> HIDE DEF n
    <3> QED BY <2>1, Piece
  <2> HIDE DEF p
  <2>3. Len(p) = n /\ \A k \in 1 .. n : p[k] = t[k]
    BY <1>1, <2>2
  <2>4. s \in [1 .. n -> S] /\ p \in [1 .. n -> S]
    BY <2>2, <2>3, LenProperties
  <2> QED BY <2>3, <2>4
<1> QED BY <1>2, <1>3

\* One more element at the end leaves a prefix one.
LEMMA PrefixAppend ==
  ASSUME NEW S, NEW s \in Seq(S), NEW t \in Seq(S), NEW x \in S, IsPrefix(s, t)
  PROVE  IsPrefix(s, Append(t, x))
<1>1. Len(s) \in Nat /\ Len(t) \in Nat
  BY LenProperties
<1>2. Append(t, x) \in Seq(S) /\ Len(Append(t, x)) = Len(t) + 1
      /\ \A i \in 1 .. Len(t) : Append(t, x)[i] = t[i]
  BY AppendProperties
<1>3. Len(s) <= Len(t) /\ \A i \in 1 .. Len(s) : s[i] = t[i]
  BY PrefixElements
<1>4. Len(s) <= Len(Append(t, x)) /\ \A i \in 1 .. Len(s) : s[i] = Append(t, x)[i]
  BY <1>1, <1>2, <1>3
<1> QED BY <1>2, <1>4, PrefixElements

LEMMA PrefixSelf == ASSUME NEW S, NEW s \in Seq(S) PROVE IsPrefix(s, s)
BY LenProperties DEF IsPrefix

\* Outputs of byte strings are a byte string.
LEMMA OutputsType ==
  ASSUME NEW r, NEW n \in Nat, \A i \in 1 .. n : r[i].output \in Seq(Byte)
  PROVE  Outputs(r, n) \in Seq(Byte) /\ (n = 0 => Outputs(r, n) = << >>)
<1> DEFINE s == [i \in 1 .. n |-> r[i].output]
<1>1. s \in [1 .. n -> Seq(Byte)]
  OBVIOUS
<1> HIDE DEF s
<1>2. FlattenSeq(s) \in Seq(Byte) /\ (n = 0 => FlattenSeq(s) = << >>)
  BY <1>1, FlattenType
<1> QED BY <1>2 DEF Outputs, s

\* The output of one result more stands behind them.
LEMMA OutputsMore ==
  ASSUME NEW r, NEW q, NEW n \in Nat, \A i \in 1 .. n + 1 : q[i].output \in Seq(Byte),
         \A i \in 1 .. n : q[i] = r[i]
  PROVE  Outputs(q, n + 1) = Outputs(r, n) \o q[n + 1].output
<1> DEFINE s == [i \in 1 .. n + 1 |-> q[i].output]
           t == [i \in 1 .. n |-> r[i].output]
<1>1. s \in [1 .. n + 1 -> Seq(Byte)]
  OBVIOUS
<1>2. \A i \in 1 .. n : i \in 1 .. n + 1
  OBVIOUS
<1>3. t \in [1 .. n -> Seq(Byte)] /\ \A i \in 1 .. n : t[i] = s[i]
  BY <1>2
<1>4. n + 1 \in 1 .. n + 1 /\ s[n + 1] = q[n + 1].output
  OBVIOUS
<1> HIDE DEF s, t
<1>5. FlattenSeq(s) = FlattenSeq(t) \o s[n + 1]
  BY <1>1, <1>3, FlattenMore
<1> QED BY <1>4, <1>5 DEF Outputs, s, t

LEMMA OutputsSame ==
  ASSUME NEW r, NEW q, NEW n \in Nat, \A i \in 1 .. n : q[i] = r[i]
  PROVE  Outputs(q, n) = Outputs(r, n)
<1>1. [i \in 1 .. n |-> q[i].output] = [i \in 1 .. n |-> r[i].output]
  OBVIOUS
<1> QED BY <1>1 DEF Outputs

----------------------------------------------------------------------------
(* Frames. *)

\* Reading what was written gives the frame back.
LEMMA ParsedEncode ==
  ASSUME NEW f \in Frame
  PROVE  Parsed(Encode(f)) = f
<1> DEFINE e == Encode(f)
           p == Protected(f)
           n == Len(f.payload)
<1>1. n \in 0 .. MAX_PAYLOAD_BYTES /\ n \in Nat /\ n \in 0 .. BYTE * BYTE - 1
      /\ f.payload \in Seq(Byte) /\ f.payload \in [1 .. n -> Byte]
      /\ f.flags \in TwoBytes
  <2>1. /\ f.payload \in Seq(Byte) /\ n \in 0 .. MAX_PAYLOAD_BYTES /\ f.flags \in TwoBytes
    BY FrameFields
  <2>2. f.payload \in [1 .. n -> Byte]
    BY <2>1, LenProperties
  <2>3. BYTE * BYTE \in Nat
    BY ByteAssumption
  <2> HIDE DEF n
  <2>4. n \in Nat /\ n \in 0 .. BYTE * BYTE - 1
    BY <2>1, <2>3, PayloadAssumption
  <2> QED BY <2>1, <2>2, <2>4
<1>2. /\ p[2] = f.type /\ p[3] = f.flags[1] /\ p[4] = f.flags[2]
      /\ p[5] = Pair(n)[1] /\ p[6] = Pair(n)[2]
      /\ \A i \in 1 .. n : p[6 + i] = f.payload[i]
  BY ProtectedBytes
<1>3. e \in Seq(Byte) /\ Len(e) = 12 + n /\ \A i \in 1 .. 6 + n : e[2 + i] = p[i]
  BY EncodeBytes
<1> HIDE DEF e, p, n
<1>4. e[4] = p[2] /\ e[5] = p[3] /\ e[6] = p[4] /\ e[7] = p[5] /\ e[8] = p[6]
  <2>1. \A i \in 2 .. 6 : i \in 1 .. 6 + n
    BY <1>1
  <2>2. e[2 + 2] = p[2] /\ e[2 + 3] = p[3] /\ e[2 + 4] = p[4] /\ e[2 + 5] = p[5]
          /\ e[2 + 6] = p[6]
    BY <1>3, <2>1
  <2> QED BY <2>2
<1>5. payload_length(e) = n
  <2>1. Pair(n) = <<e[7], e[8]>>
    BY <1>2, <1>4 DEF Pair
  <2> QED BY <1>1, <2>1, ValueOfPair DEF payload_length
<1>6. SubSeq(e, 9, 8 + n) = f.payload
  <2>1. 9 \in 1 .. Len(e) + 1 /\ 8 + n \in 9 - 1 .. Len(e)
    BY <1>1, <1>3
  <2> DEFINE s == SubSeq(e, 9, 8 + n)
             l == 8 + n
  <2>2. s \in Seq(Byte) /\ Len(s) = 8 + n - 9 + 1
          /\ \A k \in 1 .. 8 + n - 9 + 1 : s[k] = e[9 + k - 1]
    <3>1. l \in 9 - 1 .. Len(e) /\ s = SubSeq(e, 9, l)
      BY <2>1
    <3> HIDE DEF l, s
    <3>2. s \in Seq(Byte) /\ Len(s) = l - 9 + 1 /\ \A k \in 1 .. l - 9 + 1 : s[k] = e[9 + k - 1]
      BY <1>3, <2>1, <3>1, Piece
    <3> QED BY <1>1, <3>2 DEF l
  <2> HIDE DEF s
  <2>3. Len(s) = n
    BY <1>1, <2>2
  <2>4. \A k \in 1 .. n : s[k] = f.payload[k]
    <3> TAKE k \in 1 .. n
    <3>1. s[k] = e[9 + k - 1] /\ 9 + k - 1 = 2 + (6 + k) /\ 6 + k \in 1 .. 6 + n
      BY <1>1, <2>2
    <3>2. e[2 + (6 + k)] = p[6 + k]
      BY <1>3, <3>1
    <3> QED BY <1>2, <3>1, <3>2
  <2>5. s \in [1 .. n -> Byte]
    BY <2>2, <2>3, LenProperties
  <2>6. s = f.payload
    BY <1>1, <2>4, <2>5
  <2> QED BY <2>6 DEF s
<1>7. <<e[5], e[6]>> = f.flags
  BY <1>1, <1>2, <1>4 DEF TwoBytes
<1>8. Parsed(e) = [type |-> f.type, flags |-> f.flags, payload |-> f.payload]
  <2>1. HEADER_BYTES + 1 = 9 /\ HEADER_BYTES + n = 8 + n
    BY DEF HEADER_BYTES
  <2> QED BY <1>2, <1>4, <1>5, <1>6, <1>7, <2>1 DEF Parsed
<1>9. f = [type |-> f.type, flags |-> f.flags, payload |-> f.payload]
  BY DEF Frame
<1> QED BY <1>8, <1>9 DEF e

----------------------------------------------------------------------------
(* The vector file. *)

\* Its records are vectors.
LEMMA CasesType ==
  ASSUME vectors \in DOMAIN VectorFiles
  PROVE  /\ Cases \in Seq(TestVector) /\ Len(Cases) \in Nat
         /\ VectorFiles[vectors].torn \in BOOLEAN /\ DOMAIN Cases = 1 .. Len(Cases)
         /\ \A i \in 1 .. Len(Cases) : Cases[i] \in TestVector
<1>1. VectorFiles[vectors] \in [records : Seq(TestVector), torn : BOOLEAN]
  BY VectorsAssumption
<1>2. Cases \in Seq(TestVector) /\ VectorFiles[vectors].torn \in BOOLEAN
  BY <1>1 DEF Cases
<1> QED BY <1>2, LenProperties, ElementOfSeq

\* One that is not refused has cases, and each of them is valid.
LEMMA AcceptedFile ==
  ASSUME vectors \in DOMAIN VectorFiles, ~VectorsRefused
  PROVE  /\ ~VectorFiles[vectors].torn /\ Len(Cases) > 0 /\ Unique(Cases)
         /\ \A i \in DOMAIN Cases : ~RefusesCase(Cases[i])
<1>1. ~RefusesFile(VectorFiles[vectors])
  BY DEF VectorsRefused, Refused
<1>2. /\ ~VectorFiles[vectors].torn /\ Cases # << >> /\ Unique(Cases)
      /\ \A i \in DOMAIN Cases : ~RefusesCase(Cases[i])
  BY <1>1 DEF RefusesFile, Cases
<1>3. Len(Cases) > 0
  BY <1>2, CasesType
<1> QED BY <1>2, <1>3

----------------------------------------------------------------------------
(* The invariant, step by step. *)

LEMMA HostInitInv == HostInit => HostInv
<1> SUFFICES ASSUME HostInit PROVE HostInv
  OBVIOUS
<1>1. /\ pc = "load" /\ failed = FALSE /\ vectors \in DOMAIN VectorFiles
      /\ received = << >> /\ recorder = [capture |-> << >>, results |-> << >>]
      /\ artifacts \in [capture : {NoFile, OldFile}, results : {NoFile, OldFile}]
      /\ old_files = artifacts /\ line = << >> /\ owing \in {<< >>, <<0>>}
  BY DEF HostInit
<1>2. Len(Cases) \in Nat
  BY <1>1, CasesType
<1>3. owing \in Seq(0 .. Len(Cases))
  <2>1. 0 \in 0 .. Len(Cases)
    BY <1>2
  <2>2. << >> \in Seq(0 .. Len(Cases)) /\ <<0>> \in Seq(0 .. Len(Cases))
    BY <2>1
  <2> QED BY <1>1, <2>2
<1>4. ProgressOK
  <2>1. line \in Lines
    BY <1>1, EmptySeq DEF Lines
  <2>2. pc \in HostSteps /\ pc \notin PortOpen /\ pc \notin InCase
        /\ pc \notin {"save capture", "save results", "ended"}
        /\ pc \notin PortOpen \cup {"reserve capture", "reserve results", "open"}
    BY <1>1 DEF HostSteps, PortOpen, InCase
  <2> QED BY <1>1, <1>3, <2>1, <2>2 DEF ProgressOK
<1>5. recorder.capture = << >> /\ recorder.results = << >> /\ Len(recorder.results) = 0
  BY <1>1
<1>6. RecorderOK
  <2>1. Outputs(recorder.results, 0) = << >>
    BY OutputsType
  <2>2. IsPrefix(<< >>, << >>)
    BY EmptySeq, PrefixSelf
  <2>3. \A n \in 0 .. Len(recorder.results) : IsPrefix(Outputs(recorder.results, n), recorder.capture)
    <3> TAKE n \in 0 .. Len(recorder.results)
    <3>1. n = 0
      BY <1>5
    <3> QED BY <1>5, <2>1, <2>2, <3>1
  <2>4. recorder.results = [i \in 1 .. Len(recorder.results) |-> recorder.results[i]]
    BY <1>5
  <2>5. DOMAIN recorder = {"capture", "results"}
    BY <1>1
  <2>6. Len(recorder.results) \in 0 .. Len(Cases)
    BY <1>2, <1>5
  <2>7. \A i \in 1 .. Len(recorder.results) : ResultOK(i)
    BY <1>5
  <2>8. Len(recorder.results) = Len(Cases) =>
          recorder.capture = Outputs(recorder.results, Len(recorder.results))
    BY <1>5, <2>1
  <2>9. recorder.capture \in Seq(Byte) /\ received \in Seq(Byte)
    BY <1>1, <1>5
  <2> QED BY <1>1, <2>3, <2>4, <2>5, <2>6, <2>7, <2>8, <2>9 DEF RecorderOK, InCase
<1>7. FilesOK
  <2>1. \A file \in {"capture", "results"} : artifacts[file] \in {NoFile, OldFile}
    BY <1>1
  <2>2. artifacts.results.records = << >>
    BY <1>1 DEF NoFile, OldFile
  <2>3. SubSeq(recorder.results, 1, 0) = << >> /\ 0 \in 0 .. Len(recorder.results)
    BY <1>5
  <2> HIDE DEF NoFile
  <2> QED BY <1>1, <2>1, <2>2, <2>3 DEF FilesOK, PortOpen, InCase
<1>8. IInv
  BY InitStep DEF HostInit
<1> QED BY <1>4, <1>6, <1>7, <1>8 DEF HostInv

\* A step that leaves the parser alone.
LEMMA ParserKept == ASSUME IInv, UNCHANGED parser PROVE IInv'
BY DEF IInv, TypeOK, BufferBounded, parser

\* A step that goes on, or fails, with the recorder as it is.
LEMMA ProgressKept ==
  ASSUME ProgressOK, UNCHANGED <<vectors, recorder, uart_case>>,
         line' \in Lines, owing' \in Seq(0 .. Len(Cases)),
         pc' \in HostSteps, failed' \in BOOLEAN,
         pc' \in PortOpen \cup {"reserve capture", "reserve results", "open"} => ~VectorsRefused,
         pc' \notin PortOpen \cup {"ended"} => pc \notin PortOpen \cup {"ended"},
         pc' \in InCase => pc \in InCase,
         pc' \in {"save capture", "save results", "ended"} /\ ~failed' =>
           pc \in {"save capture", "save results", "ended"} /\ ~failed
  PROVE  ProgressOK'
BY DEF ProgressOK, Cases, VectorsRefused, Lines, HostSteps

LEMMA RecorderKept ==
  ASSUME RecorderOK, UNCHANGED <<vectors, recorder, received>>, failed => failed',
         pc' \in InCase => pc \in InCase, pc' = "write" => pc = "write"
  PROVE  RecorderOK'
<1>1. ASSUME NEW i \in 1 .. Len(recorder.results), ResultOK(i) PROVE ResultOK(i)'
  BY <1>1 DEF ResultOK, Cases
<1>2. Outputs(recorder.results, Len(recorder.results))'
        = Outputs(recorder.results, Len(recorder.results))
  OBVIOUS
<1> QED BY <1>1, <1>2 DEF RecorderOK, Cases, InCase

LEMMA FilesKept ==
  ASSUME FilesOK, UNCHANGED <<vectors, recorder, artifacts, old_files>>,
         pc' \in {"load", "reserve capture"} => pc \in {"load", "reserve capture"},
         pc' = "reserve results" => pc = "reserve results",
         pc' \in PortOpen \cup {"open"} => pc \in PortOpen \cup {"open"},
         pc' # "ended" => pc # "ended",
         pc' = "save results" => pc = "save results",
         pc' = "ended" /\ ~failed' => pc = "ended" /\ ~failed
  PROVE  FilesOK'
<1>1. /\ recorder' = recorder /\ artifacts' = artifacts /\ old_files' = old_files
      /\ VectorsRefused' = VectorsRefused
  BY DEF VectorsRefused
<1> QED BY <1>1 DEF FilesOK, NewFile, NoFile, OldFile, PortOpen, InCase

LEMMA FailGoes ==
  ASSUME Fail
  PROVE  /\ failed' = TRUE /\ pc' \in {"save capture", "ended"}
         /\ pc' = "save capture" <=> pc \in {"open", "write", "read", "parse"}
BY DEF Fail

LEMMA LoadStep == ASSUME HostInv, Load PROVE HostInv'
<1>0. ProgressOK /\ RecorderOK /\ FilesOK /\ IInv
  BY DEF HostInv
<1>1. /\ pc = "load"
      /\ UNCHANGED <<parser, vectors, uart_case, received, recorder, artifacts, old_files, line, owing>>
  BY DEF Load, device
<1>2. \/ pc' = "ended" /\ failed' = TRUE
      \/ pc' = "reserve capture" /\ failed' = failed /\ ~VectorsRefused
  BY <1>1 DEF Load, Fail, Goto
<1>3. failed \in BOOLEAN /\ line' \in Lines /\ owing' \in Seq(0 .. Len(Cases))
  BY <1>0, <1>1 DEF ProgressOK
<1>4. ProgressOK'
  BY <1>0, <1>1, <1>2, <1>3, ProgressKept DEF HostSteps, PortOpen, InCase
<1>5. RecorderOK'
  <2>1. failed => failed'
    BY <1>2, <1>3
  <2>2. pc' \notin InCase /\ pc' # "write"
    BY <1>2 DEF InCase
  <2> QED BY <1>0, <1>1, <2>1, <2>2, RecorderKept
<1>6. FilesOK'
  BY <1>0, <1>1, <1>2, FilesKept DEF PortOpen, InCase
<1>7. IInv'
  BY <1>0, <1>1, ParserKept
<1> QED BY <1>4, <1>5, <1>6, <1>7 DEF HostInv

LEMMA KilledStep == ASSUME HostInv, Killed PROVE HostInv'
<1>0. ProgressOK /\ RecorderOK /\ FilesOK /\ IInv
  BY DEF HostInv
<1>1. /\ UNCHANGED <<parser, vectors, uart_case, received, recorder, artifacts, old_files, line, owing>>
      /\ pc' = "ended" /\ failed' = TRUE
  BY DEF Killed, device
<1>3. line' \in Lines /\ owing' \in Seq(0 .. Len(Cases))
  BY <1>0, <1>1 DEF ProgressOK
<1>4. ProgressOK'
  BY <1>0, <1>1, <1>3, ProgressKept DEF HostSteps, PortOpen, InCase
<1>5. RecorderOK'
  BY <1>0, <1>1, RecorderKept DEF InCase
<1>6. FilesOK'
  BY <1>0, <1>1, FilesKept DEF PortOpen, InCase
<1>7. IInv'
  BY <1>0, <1>1, ParserKept
<1> QED BY <1>4, <1>5, <1>6, <1>7 DEF HostInv

\* A step of which only what is on the line is seen here.
LEMMA QuietStep ==
  ASSUME HostInv, IInv',
         UNCHANGED <<pc, failed, vectors, uart_case, received, recorder, artifacts, old_files>>,
         line' \in Lines, owing' \in Seq(0 .. Len(Cases))
  PROVE  HostInv'
<1>0. ProgressOK /\ RecorderOK /\ FilesOK /\ IInv
  BY DEF HostInv
<1>1. UNCHANGED <<pc, failed, vectors, uart_case, received, recorder, artifacts, old_files>>
  OBVIOUS
<1>3. pc \in HostSteps /\ failed \in BOOLEAN
      /\ (pc \in PortOpen \cup {"reserve capture", "reserve results", "open"} => ~VectorsRefused)
  BY <1>0 DEF ProgressOK
<1>2. /\ pc' \in {"save capture", "save results", "ended"} /\ ~failed' =>
           pc \in {"save capture", "save results", "ended"} /\ ~failed
      /\ pc' = "ended" /\ ~failed' => pc = "ended" /\ ~failed
  BY Zenon
<1>4. ProgressOK'
  BY <1>0, <1>1, <1>2, <1>3, ProgressKept
<1>5. RecorderOK'
  BY <1>0, <1>1, RecorderKept
<1>6. FilesOK'
  BY <1>0, <1>1, <1>2, FilesKept
<1> QED BY <1>4, <1>5, <1>6 DEF HostInv

LEMMA AnswerStep == ASSUME HostInv, Answer PROVE HostInv'
<1>0. line \in Lines /\ owing \in Seq(0 .. Len(Cases)) /\ vectors \in DOMAIN VectorFiles
  BY DEF HostInv, ProgressOK
<1>1. UNCHANGED <<parser, host>> /\ owing # << >> /\ owing' = Tail(owing)
  BY DEF Answer
<1>2. PICK bytes \in (IF Head(owing) = 0 THEN Stale ELSE Answers(Head(owing))) :
        line' = IF bytes = << >> THEN line
                ELSE Append(line, [origin |-> Head(owing), bytes |-> bytes])
  BY DEF Answer
<1>3. Head(owing) \in 0 .. Len(Cases) /\ owing' \in Seq(0 .. Len(Cases))
  BY <1>0, <1>1, HeadTailProperties
<1>4. Head(owing) # 0 => Head(owing) \in DOMAIN VectorFiles[vectors].records
  BY <1>0, <1>3, CasesType DEF Cases
<1>5. bytes \in Seq(Byte) /\ Head(owing) \in Nat
  BY <1>0, <1>2, <1>3, <1>4, CasesType, AnswersAssumption
<1>6. line' \in Lines
  <2>1. CASE bytes = << >>
    BY <1>0, <1>2, <2>1
  <2>2. CASE bytes # << >>
    <3> DEFINE R == [origin : Nat, bytes : Seq(Byte) \ {<< >>}]
               r == [origin |-> Head(owing), bytes |-> bytes]
    <3>1. r \in R
      BY <1>5, <2>2
    <3> HIDE DEF R, r
    <3>2. Append(line, r) \in Seq(R)
      BY <1>0, <3>1, AppendProperties DEF Lines, R
    <3> QED BY <1>2, <2>2, <3>2 DEF Lines, R, r
  <2> QED BY <2>1, <2>2
<1>7. IInv'
  BY <1>1, ParserKept DEF HostInv
<1> QED BY <1>1, <1>3, <1>6, <1>7, QuietStep DEF host

LEMMA LoseStep == ASSUME HostInv, Lose PROVE HostInv'
<1>0. line \in Lines /\ owing \in Seq(0 .. Len(Cases))
  BY DEF HostInv, ProgressOK
<1>1. UNCHANGED <<parser, host, line>> /\ owing # << >> /\ owing' = Tail(owing)
  BY DEF Lose
<1>2. owing' \in Seq(0 .. Len(Cases))
  BY <1>0, <1>1, HeadTailProperties
<1>3. IInv'
  BY <1>1, ParserKept DEF HostInv
<1> QED BY <1>0, <1>1, <1>2, <1>3, QuietStep DEF host

LEMMA TickStep == ASSUME HostInv, Tick PROVE HostInv'
<1>0. line \in Lines /\ owing \in Seq(0 .. Len(Cases))
  BY DEF HostInv, ProgressOK
<1>1. UNCHANGED <<parser, pc, failed, vectors, uart_case, received, recorder, artifacts, old_files,
                  line, owing>>
  BY DEF Tick, device
<1>2. IInv'
  BY <1>1, ParserKept DEF HostInv
<1> QED BY <1>0, <1>1, <1>2, QuietStep

\* A line without its first byte is one, too.
LEMMA RestType ==
  ASSUME line \in Lines, line # << >>
  PROVE  RestOfLine \in Lines /\ Head(Head(line).bytes) \in Byte /\ Head(line).origin \in Nat
<1> DEFINE R == [origin : Nat, bytes : Seq(Byte) \ {<< >>}]
           r == Head(line)
           q == [r EXCEPT !.bytes = Tail(@)]
<1>1. line \in Seq(R) /\ r \in R /\ Tail(line) \in Seq(R) /\ r = line[1] /\ 1 \in 1 .. Len(line)
  <2> HIDE DEF R
  <2>1. line \in Seq(R)
    BY DEF Lines, R
  <2>2. r \in R /\ Tail(line) \in Seq(R)
    BY <2>1, HeadTailProperties
  <2>3. Len(line) \in Nat /\ Len(line) # 0 /\ r = line[1]
    BY <2>1, EmptySeq, LenProperties
  <2> QED BY <2>1, <2>2, <2>3
<1>2. r.bytes \in Seq(Byte) /\ r.bytes # << >> /\ r.origin \in Nat
  BY <1>1
<1>3. Head(r.bytes) \in Byte /\ Tail(r.bytes) \in Seq(Byte) /\ Len(Tail(r.bytes)) = Len(r.bytes) - 1
  BY <1>2, HeadTailProperties
<1>4. ASSUME Len(r.bytes) # 1 PROVE [line EXCEPT ![1].bytes = Tail(@)] \in Seq(R)
  <2>1. Len(r.bytes) \in Nat /\ Len(r.bytes) # 0
    BY <1>2, EmptySeq, LenProperties
  <2>2. Tail(r.bytes) # << >>
    <3> DEFINE l == Len(r.bytes)
               s == Tail(r.bytes)
    <3>1. s \in Seq(Byte) /\ Len(s) = l - 1 /\ l \in Nat /\ l # 0 /\ l # 1
      BY <1>3, <1>4, <2>1
    <3> HIDE DEF l, s
    <3>2. s # << >>
      BY <3>1
    <3> QED BY <3>2 DEF s
  <2>3. q \in R
    BY <1>1, <1>3, <2>2
  <2>4. [line EXCEPT ![1] = q] \in Seq(R)
    <3> HIDE DEF q, R
    <3> QED BY <1>1, <2>3, ExceptSeq
  <2>5. [line EXCEPT ![1].bytes = Tail(@)] = [line EXCEPT ![1] = q]
    BY <1>1
  <2> QED BY <2>4, <2>5
<1>5. RestOfLine \in Lines
  <2> HIDE DEF R, r
  <2> QED BY <1>1, <1>4 DEF RestOfLine, Lines, r, R
<1> QED BY <1>2, <1>3, <1>5

\* A failure while the port is open, or when it does not open.
LEMMA FailStep ==
  ASSUME HostInv, Fail, pc \in {"open", "write", "read", "parse"},
         UNCHANGED <<parser, vectors, uart_case, received, recorder, artifacts, old_files, owing>>,
         line' \in Lines
  PROVE  HostInv'
<1>0. ProgressOK /\ RecorderOK /\ FilesOK /\ IInv
  BY DEF HostInv
<1>1. pc' = "save capture" /\ failed' = TRUE
  BY FailGoes
<1>2. owing' \in Seq(0 .. Len(Cases)) /\ ~VectorsRefused
  BY <1>0 DEF ProgressOK, PortOpen, InCase
<1>4. ProgressOK'
  <2>1. ProgressOK /\ UNCHANGED <<vectors, recorder, uart_case>>
    BY <1>0
  <2>2. pc' \in HostSteps /\ failed' \in BOOLEAN /\ pc' \in PortOpen /\ pc' \notin InCase
    BY <1>1 DEF HostSteps, PortOpen, InCase
  <2>3. ~failed' => FALSE
    BY <1>1
  <2> QED BY <1>2, <2>1, <2>2, <2>3, ProgressKept
<1>5. RecorderOK'
  BY <1>0, <1>1, RecorderKept DEF InCase
<1>6. FilesOK'
  BY <1>0, <1>1, FilesKept DEF PortOpen, InCase
<1>7. IInv'
  BY <1>0, ParserKept
<1> QED BY <1>4, <1>5, <1>6, <1>7 DEF HostInv

LEMMA TimedOutStep == ASSUME HostInv, TimedOut PROVE HostInv'
<1>0. line \in Lines
  BY DEF HostInv, ProgressOK
<1>1. /\ UNCHANGED <<parser, vectors, uart_case, received, recorder, artifacts, old_files, owing>>
      /\ Fail /\ pc \in {"open", "write", "read", "parse"}
  BY DEF TimedOut
<1>2. line' = line \/ (line # << >> /\ line' = RestOfLine)
  BY DEF TimedOut
<1>3. line' \in Lines
  BY <1>0, <1>2, RestType
<1> QED BY <1>1, <1>3, FailStep

LEMMA WriteStep == ASSUME HostInv, Write PROVE HostInv'
<1>0. ProgressOK /\ RecorderOK /\ FilesOK /\ IInv
  BY DEF HostInv
<1>1. /\ UNCHANGED <<parser, vectors, uart_case, received, recorder, artifacts, old_files, line>>
      /\ pc = "write"
  BY DEF Write
<1>2. \/ Goto("read") /\ owing' = Append(owing, uart_case)
      \/ UNCHANGED <<pc, failed, owing>>
      \/ Fail /\ UNCHANGED owing
  BY DEF Write
<1>3. line' \in Lines /\ owing \in Seq(0 .. Len(Cases)) /\ failed \in BOOLEAN /\ ~VectorsRefused
      /\ uart_case \in 0 .. Len(Cases) /\ pc \in HostSteps
  <2>1. uart_case \in 1 .. Len(Cases) /\ Len(Cases) \in Nat
    BY <1>0, <1>1, CasesType DEF ProgressOK, InCase
  <2> QED BY <1>0, <1>1, <2>1 DEF ProgressOK, InCase, PortOpen
<1>4. CASE Goto("read") /\ owing' = Append(owing, uart_case)
  <2>1. pc' = "read" /\ failed' = failed
    BY <1>4 DEF Goto
  <2>2. owing' \in Seq(0 .. Len(Cases))
    BY <1>3, <1>4, AppendProperties
  <2>3. pc' \in HostSteps /\ pc' \in PortOpen /\ pc \in InCase
        /\ pc' \notin {"save capture", "save results", "ended"}
    BY <1>1, <2>1 DEF HostSteps, InCase, PortOpen
  <2>4. ProgressOK'
    BY <1>0, <1>1, <1>3, <2>1, <2>2, <2>3, ProgressKept
  <2>5. RecorderOK'
    BY <1>0, <1>1, <2>1, <2>3, RecorderKept
  <2>6. FilesOK'
    BY <1>0, <1>1, <2>1, FilesKept DEF PortOpen, InCase
  <2>7. IInv'
    BY <1>0, <1>1, ParserKept
  <2> QED BY <2>4, <2>5, <2>6, <2>7 DEF HostInv
<1>5. CASE UNCHANGED <<pc, failed, owing>>
  <2>1. IInv'
    BY <1>0, <1>1, ParserKept
  <2> QED BY <1>1, <1>3, <1>5, <2>1, QuietStep
<1>6. CASE Fail /\ UNCHANGED owing
  BY <1>1, <1>3, <1>6, FailStep
<1> QED BY <1>2, <1>4, <1>5, <1>6

LEMMA ReserveStep == ASSUME HostInv, Reserve PROVE HostInv'
<1>0. ProgressOK /\ RecorderOK /\ FilesOK /\ IInv
  BY DEF HostInv
<1>1. UNCHANGED <<parser, vectors, uart_case, received, recorder, old_files, line, owing>>
  BY DEF Reserve, device
<1>2. \/ /\ pc = "reserve capture" /\ artifacts.capture = NoFile
         /\ artifacts' = [artifacts EXCEPT !.capture = NewFile(<< >>, FALSE)]
         /\ pc' = "reserve results" /\ failed' = failed
      \/ /\ pc = "reserve results" /\ artifacts.results = NoFile
         /\ artifacts' = [artifacts EXCEPT !.results = NewFile(<< >>, FALSE)]
         /\ pc' = "open" /\ failed' = failed
      \/ /\ pc \in {"reserve capture", "reserve results"} /\ artifacts' = artifacts
         /\ pc' = "ended" /\ failed' = TRUE
  BY Zenon DEF Reserve, CreateNew, Goto, Fail
<1>3. /\ pc \in {"reserve capture", "reserve results"} /\ pc' \in {"reserve results", "open", "ended"}
      /\ failed' \in {failed, TRUE} /\ (pc' = "ended" => failed' = TRUE)
  BY <1>2
<1>4. line' \in Lines /\ owing' \in Seq(0 .. Len(Cases)) /\ failed \in BOOLEAN /\ ~VectorsRefused
      /\ recorder.results = << >>
  <2>1. pc \in PortOpen \cup {"reserve capture", "reserve results", "open"}
        /\ pc \notin PortOpen \cup {"ended"}
    BY <1>3 DEF PortOpen, InCase
  <2>2. line \in Lines /\ owing \in Seq(0 .. Len(Cases)) /\ failed \in BOOLEAN /\ ~VectorsRefused
        /\ recorder = [capture |-> << >>, results |-> << >>]
    BY <1>0, <2>1 DEF ProgressOK
  <2>3. recorder.results = << >>
    BY <2>2
  <2> QED BY <1>1, <2>2, <2>3
<1>5. failed' \in BOOLEAN /\ (failed => failed') /\ ~(pc' = "ended" /\ ~failed')
  BY <1>3, <1>4
<1>6. ProgressOK'
  <2>1. pc' \in HostSteps /\ pc \notin PortOpen \cup {"ended"} /\ pc' \notin InCase
    BY <1>3 DEF HostSteps, PortOpen, InCase
  <2>2. ~(pc' \in {"save capture", "save results", "ended"} /\ ~failed')
    BY <1>3, <1>5
  <2> QED BY <1>0, <1>1, <1>4, <1>5, <2>1, <2>2, ProgressKept
<1>7. RecorderOK'
  <2>1. pc' \notin InCase /\ pc' # "write"
    BY <1>3 DEF InCase
  <2> QED BY <1>0, <1>1, <1>5, <2>1, RecorderKept
<1>8. FilesOK'
  <2>0. DOMAIN artifacts = {"capture", "results"}
    BY <1>0 DEF FilesOK
  <2>1. CASE artifacts' = artifacts
    <3>1. pc' = "ended" \/ artifacts' # artifacts
      <4>1. NoFile # NewFile(<< >>, FALSE)
        BY DEF NoFile, NewFile
      <4> QED BY <1>2, <2>0, <4>1
    <3>2. pc' = "ended"
      BY <2>1, <3>1
    <3> QED BY <1>0, <1>1, <1>5, <2>1, <3>2, FilesKept DEF PortOpen, InCase
  <2>2. NoFile # OldFile /\ NewFile(<< >>, FALSE).records = << >>
    BY DEF NoFile, OldFile, NewFile
  <2>3. CASE pc = "reserve capture" /\ artifacts.capture = NoFile /\ pc' = "reserve results"
             /\ artifacts' = [artifacts EXCEPT !.capture = NewFile(<< >>, FALSE)]
    <3>1. artifacts'.results = artifacts.results /\ DOMAIN artifacts' = {"capture", "results"}
      BY <2>0, <2>3
    <3>2. old_files = artifacts
      BY <1>0, <2>3 DEF FilesOK
    <3>3. VectorsRefused' = VectorsRefused
      BY <1>1 DEF VectorsRefused
    <3> QED BY <1>0, <1>1, <1>4, <2>2, <2>3, <3>1, <3>2, <3>3 DEF FilesOK, PortOpen, InCase
  <2>4. CASE pc = "reserve results" /\ artifacts.results = NoFile /\ pc' = "open"
             /\ artifacts' = [artifacts EXCEPT !.results = NewFile(<< >>, FALSE)]
    <3>1. artifacts'.capture = artifacts.capture /\ artifacts'.results.records = << >>
          /\ DOMAIN artifacts' = {"capture", "results"}
      BY <2>0, <2>2, <2>4
    <3>2. old_files.capture = NoFile /\ old_files.results = NoFile
      BY <1>0, <2>4 DEF FilesOK
    <3>3. VectorsRefused' = VectorsRefused
      BY <1>1 DEF VectorsRefused
    <3>4. SubSeq(recorder'.results, 1, 0) = << >> /\ 0 \in 0 .. Len(recorder'.results)
      BY <1>1, <1>4
    <3> QED BY <1>0, <1>1, <1>4, <2>2, <2>4, <3>1, <3>2, <3>3, <3>4 DEF FilesOK, PortOpen, InCase
  <2> QED BY <1>2, <2>1, <2>3, <2>4
<1>9. IInv'
  BY <1>0, <1>1, ParserKept
<1> QED BY <1>6, <1>7, <1>8, <1>9 DEF HostInv

\* A parser that begins again.
LEMMA Emptied ==
  ASSUME buffer' = << >>, errors' = << >>, frames' = << >>, feeding' = FALSE
  PROVE  IInv'
<1>1. buffer' \in Seq(Byte) /\ errors' \in Seq(Errors) /\ frames' \in Seq(Frame) /\ Len(buffer') = 0
  BY EmptySeq
<1>2. 0 < MIN_FRAME_BYTES + MAX_PAYLOAD_BYTES
  BY BoundType
<1> QED BY <1>1, <1>2 DEF IInv, TypeOK, BufferBounded

LEMMA OpenStep == ASSUME HostInv, Open PROVE HostInv'
<1>0. ProgressOK /\ RecorderOK /\ FilesOK /\ IInv
  BY DEF HostInv
<1>1. UNCHANGED <<vectors, recorder, artifacts, old_files, owing>> /\ pc = "open"
  BY DEF Open
<1>2. \/ Goto("write") /\ BeginCase(1) /\ line' = << >>
      \/ Fail /\ UNCHANGED <<parser, uart_case, received, line>>
  BY DEF Open
<1>3. /\ line \in Lines /\ owing \in Seq(0 .. Len(Cases)) /\ failed \in BOOLEAN /\ ~VectorsRefused
      /\ recorder = [capture |-> << >>, results |-> << >>] /\ vectors \in DOMAIN VectorFiles
  BY <1>0, <1>1 DEF ProgressOK, PortOpen, InCase
<1>4. CASE Goto("write") /\ BeginCase(1) /\ line' = << >>
  <2>1. /\ pc' = "write" /\ failed' = failed /\ uart_case' = 1 /\ received' = << >>
        /\ buffer' = << >> /\ errors' = << >> /\ frames' = << >> /\ feeding' = FALSE
    BY <1>4 DEF Goto, BeginCase
  <2>2. recorder.results = << >> /\ recorder.capture = << >> /\ Len(recorder.results) = 0
    BY <1>3
  <2>3. ProgressOK'
    <3>1. line' \in Lines
      BY <1>4, EmptySeq DEF Lines
    <3>2. uart_case' \in 1 .. Len(Cases) /\ Len(recorder.results) = uart_case' - 1
      <4>1. Len(Cases) \in Nat /\ Len(Cases) > 0
        BY <1>3, CasesType, AcceptedFile
      <4> QED BY <2>1, <2>2, <4>1
    <3>3. pc' \in HostSteps /\ pc' \in PortOpen /\ pc' \notin {"save capture", "save results", "ended"}
      BY <2>1 DEF HostSteps, PortOpen, InCase
    <3>4. Cases' = Cases /\ VectorsRefused' = VectorsRefused /\ vectors' = vectors
          /\ recorder' = recorder /\ owing' = owing
      BY <1>1 DEF Cases, VectorsRefused
    <3> QED BY <1>3, <2>1, <3>1, <3>2, <3>3, <3>4 DEF ProgressOK, Lines
  <2>4. RecorderOK'
    <3>1. Outputs(recorder.results, 0) = << >>
      BY OutputsType
    <3>2. recorder.capture = Outputs(recorder.results, 0) \o << >>
      BY <2>2, <3>1
    <3>3. ASSUME NEW i \in 1 .. Len(recorder.results) PROVE FALSE
      BY <2>2, <3>3
    <3>4. Cases' = Cases /\ recorder' = recorder
      BY <1>1 DEF Cases
    <3>5. Outputs(recorder.results, 0)' = Outputs(recorder.results, 0)
      BY <3>4
    <3> QED BY <1>0, <2>1, <2>2, <3>2, <3>3, <3>4, <3>5 DEF RecorderOK, InCase
  <2>5. FilesOK'
    BY <1>0, <1>1, <2>1, FilesKept DEF PortOpen, InCase
  <2>6. IInv'
    BY <2>1, Emptied
  <2> QED BY <2>3, <2>4, <2>5, <2>6 DEF HostInv
<1>5. CASE Fail /\ UNCHANGED <<parser, uart_case, received, line>>
  BY <1>1, <1>3, <1>5, FailStep
<1> QED BY <1>2, <1>4, <1>5

\* What the results say is a byte string.
LEMMA OutputsSeq ==
  ASSUME HostInv
  PROVE  /\ Len(recorder.results) \in Nat /\ Len(recorder.results) <= Len(Cases)
         /\ \A n \in 0 .. Len(recorder.results) : Outputs(recorder.results, n) \in Seq(Byte)
         /\ Cases \in Seq(TestVector) /\ Len(Cases) \in Nat
<1>1. Cases \in Seq(TestVector) /\ Len(Cases) \in Nat
  BY CasesType DEF HostInv, ProgressOK
<1>2. Len(recorder.results) \in 0 .. Len(Cases)
      /\ \A i \in 1 .. Len(recorder.results) : recorder.results[i].output \in Seq(Byte)
  BY DEF HostInv, RecorderOK, ResultOK
<1>3. ASSUME NEW n \in 0 .. Len(recorder.results)
      PROVE  Outputs(recorder.results, n) \in Seq(Byte)
  <2>1. n \in Nat /\ \A i \in 1 .. n : i \in 1 .. Len(recorder.results)
    BY <1>1, <1>2
  <2>2. \A i \in 1 .. n : recorder.results[i].output \in Seq(Byte)
    BY <1>2, <2>1
  <2> QED BY <2>1, <2>2, OutputsType
<1> QED BY <1>1, <1>2, <1>3

LEMMA ReadStep == ASSUME HostInv, Read PROVE HostInv'
<1>0. ProgressOK /\ RecorderOK /\ FilesOK /\ IInv
  BY DEF HostInv
<1>1. UNCHANGED <<vectors, uart_case, artifacts, old_files, owing>> /\ pc = "read"
  BY DEF Read
<1>2. /\ line \in Lines /\ owing \in Seq(0 .. Len(Cases)) /\ failed \in BOOLEAN /\ ~VectorsRefused
      /\ vectors \in DOMAIN VectorFiles /\ pc \in InCase
      /\ uart_case \in 1 .. Len(Cases) /\ Len(recorder.results) = uart_case - 1
  <2>1. pc \in InCase /\ pc \in PortOpen
    BY <1>1 DEF PortOpen, InCase
  <2> QED BY <1>0, <1>1, <2>1 DEF ProgressOK
<1> DEFINE byte == Head(Head(line).bytes)
<1>3. CASE /\ line # << >> /\ Record(byte) /\ received' = Append(received, byte)
           /\ Feed(<<byte>>) /\ line' = RestOfLine /\ Goto("parse")
  <2>1. byte \in Byte /\ line' \in Lines
    BY <1>2, <1>3, RestType
  <2> HIDE DEF byte
  <2>2. /\ pc' = "parse" /\ failed' = failed /\ received' = Append(received, byte)
        /\ recorder' = [recorder EXCEPT !.capture = Append(@, byte)]
    BY <1>3 DEF Goto, Record
  <2>3. DOMAIN recorder = {"capture", "results"} /\ recorder.capture \in Seq(Byte)
        /\ received \in Seq(Byte)
    BY <1>0 DEF RecorderOK
  <2>4. /\ recorder'.results = recorder.results /\ recorder'.capture = Append(recorder.capture, byte)
        /\ DOMAIN recorder' = {"capture", "results"}
    BY <2>2, <2>3
  <2>5. Cases' = Cases /\ VectorsRefused' = VectorsRefused
    BY <1>1 DEF Cases, VectorsRefused
  <2>6. ProgressOK'
    <3>1. pc' \in HostSteps /\ pc' \in PortOpen /\ pc' \notin {"save capture", "save results", "ended"}
      BY <2>2 DEF HostSteps, PortOpen, InCase
    <3> QED BY <1>1, <1>2, <2>1, <2>2, <2>4, <2>5, <3>1 DEF ProgressOK, Lines
  <2> DEFINE r == recorder.results
             n == Len(r)
  <2>7. n \in Nat /\ n # Len(Cases) /\ \A k \in 0 .. n : Outputs(r, k) \in Seq(Byte)
    BY <1>2, OutputsSeq
  <2>8. \A k \in 0 .. n : IsPrefix(Outputs(r, k), recorder'.capture)
    <3> TAKE k \in 0 .. n
    <3>1. IsPrefix(Outputs(r, k), recorder.capture)
      BY <1>0 DEF RecorderOK
    <3> HIDE DEF r, n
    <3> QED BY <2>1, <2>3, <2>4, <2>7, <3>1, PrefixAppend
  <2>9. recorder'.capture = Outputs(r, n) \o received'
    <3>1. recorder.capture = Outputs(r, n) \o received
      BY <1>0, <1>2 DEF RecorderOK
    <3> HIDE DEF r, n
    <3>2. Outputs(r, n) \in Seq(Byte)
      BY <2>7
    <3>3. Append(Outputs(r, n) \o received, byte) = Outputs(r, n) \o Append(received, byte)
      <4>1. \A s, t \in Seq(Byte) : \A x \in Byte : Append(s \o t, x) = s \o Append(t, x)
        BY Z3
      <4> QED BY <2>1, <2>3, <3>2, <4>1, Zenon
    <3> QED BY <2>2, <2>4, <3>1, <3>3, Zenon
  <2>10. \A i \in 1 .. n : ResultOK(i)'
    <3> TAKE i \in 1 .. n
    <3>1. ResultOK(i)
      BY <1>0 DEF RecorderOK
    <3> QED BY <2>2, <2>4, <2>5, <3>1 DEF ResultOK
  <2>11. recorder'.capture \in Seq(Byte) /\ received' \in Seq(Byte)
    BY <2>1, <2>2, <2>3, <2>4
  <2>12. r = [i \in 1 .. n |-> r[i]] /\ n \in 0 .. Len(Cases)
    BY <1>0 DEF RecorderOK
  <2>13. RecorderOK'
    <3>1. recorder'.results = r /\ Len(recorder'.results) = n
      BY <2>4
    <3> HIDE DEF r, n
    <3> QED BY <2>2, <2>4, <2>5, <2>7, <2>8, <2>9, <2>10, <2>11, <2>12, <3>1 DEF RecorderOK
  <2>14. FilesOK'
    <3>1. pc = "read" /\ pc' = "parse" /\ artifacts' = artifacts /\ old_files' = old_files
      BY <1>1, <2>2
    <3> QED BY <1>0, <1>2, <2>4, <2>5, <3>1 DEF FilesOK, PortOpen, InCase
  <2>15. IInv'
    <3>1. <<byte>> \in Seq(Byte)
      BY <2>1
    <3> QED BY <1>0, <1>3, <3>1, FeedStep
  <2> QED BY <2>6, <2>13, <2>14, <2>15 DEF HostInv
<1>4. CASE Fail /\ UNCHANGED <<parser, received, recorder, line>>
  BY <1>1, <1>2, <1>4, FailStep
<1> QED BY <1>3, <1>4 DEF Read

\* The first results.
LEMMA FirstPart ==
  ASSUME NEW l \in Nat, NEW r, r = [i \in 1 .. l |-> r[i]], NEW n \in 0 .. l
  PROVE  LET q == SubSeq(r, 1, n)
         IN  /\ DOMAIN q = 1 .. n /\ Len(q) = n
             /\ \A i \in 1 .. n : q[i] = r[i] /\ i \in 1 .. l
<1> DEFINE S == {r[i] : i \in 1 .. l}
           q == SubSeq(r, 1, n)
<1>1. r \in Seq(S) /\ Len(r) = l
  <2>1. r \in [1 .. l -> S]
    OBVIOUS
  <2> HIDE DEF S
  <2> QED BY <2>1
<1> HIDE DEF S
<1>2. n \in 1 - 1 .. Len(r) /\ 1 \in 1 .. Len(r) + 1
  BY <1>1
<1>3. q \in Seq(S) /\ Len(q) = n - 1 + 1 /\ \A k \in 1 .. n - 1 + 1 : q[k] = r[1 + k - 1]
  BY <1>1, <1>2, Piece
<1> HIDE DEF q
<1>4. n \in Nat /\ n - 1 + 1 = n /\ \A k \in 1 .. n : 1 + k - 1 = k /\ k \in 1 .. l
  OBVIOUS
<1>5. Len(q) = n /\ \A k \in 1 .. n : q[k] = r[k] /\ k \in 1 .. l
  BY <1>3, <1>4
<1> QED BY <1>3, <1>5, LenProperties DEF q

\* One more result.
LEMMA ResultAdded ==
  ASSUME NEW n \in Nat, NEW r, r = [i \in 1 .. n |-> r[i]], NEW c
  PROVE  /\ Len(Append(r, c)) = n + 1 /\ Append(r, c)[n + 1] = c
         /\ (\A i \in 1 .. n : Append(r, c)[i] = r[i])
         /\ Append(r, c) = [i \in 1 .. n + 1 |-> Append(r, c)[i]]
<1> DEFINE S == {r[i] : i \in 1 .. n} \cup {c}
           q == Append(r, c)
<1>1. r \in Seq(S) /\ Len(r) = n
  <2>1. r \in [1 .. n -> S]
    OBVIOUS
  <2> HIDE DEF S
  <2> QED BY <2>1
<1>2. c \in S
  OBVIOUS
<1> HIDE DEF S
<1>3. q \in Seq(S) /\ Len(q) = n + 1 /\ q[n + 1] = c /\ \A i \in 1 .. n : q[i] = r[i]
  BY <1>1, <1>2, AppendProperties
<1>4. q \in [1 .. n + 1 -> S]
  BY <1>3, LenProperties
<1>5. q = [i \in 1 .. n + 1 |-> q[i]]
  BY <1>4
<1> QED BY <1>3, <1>5

\* A turn of the parser's loop.
LEMMA TurnStep == ASSUME IInv, Turn PROVE IInv'
BY NoSofStep, WaitStep, LongPayloadStep, BadFrameStep, GoodFrameStep DEF Turn

\* A response was accepted, and what comes next.
Accepting ==
  /\ pc = "parse" /\ frames # << >> /\ ~Response_faulty
  /\ recorder' = [recorder EXCEPT !.results = Append(@, CompletedResult)]
  /\ UNCHANGED <<vectors, artifacts, old_files, line, owing>>
  /\ \/ pc' = "save capture" /\ failed' = TRUE /\ UNCHANGED <<uart_case, received>>
     \/ /\ failed' = failed /\ Response = Expected /\ StatusFlags(frames[1]) # Undecodable
        /\ \/ pc' = "save capture" /\ uart_case = Len(Cases) /\ UNCHANGED <<uart_case, received>>
           \/ /\ pc' = "write" /\ uart_case # Len(Cases)
              /\ uart_case' = uart_case + 1 /\ received' = << >>

\* Its result joins the others.
LEMMA AcceptedStep == ASSUME HostInv, Accepting, IInv' PROVE HostInv'
<1>0. ProgressOK /\ RecorderOK /\ FilesOK /\ IInv
  BY DEF HostInv
<1>1. pc \in InCase /\ pc \in PortOpen /\ pc' \in {"save capture", "write"} /\ pc' \in PortOpen
      /\ pc' \in HostSteps
  BY DEF Accepting, PortOpen, InCase, HostSteps
<1>2. /\ line \in Lines /\ owing \in Seq(0 .. Len(Cases)) /\ failed \in BOOLEAN /\ ~VectorsRefused
      /\ vectors \in DOMAIN VectorFiles
      /\ uart_case \in 1 .. Len(Cases) /\ Len(recorder.results) = uart_case - 1
  BY <1>0, <1>1 DEF ProgressOK
<1>3. failed' \in BOOLEAN /\ (failed => failed')
  <2>1. failed' = TRUE \/ failed' = failed
    BY DEF Accepting
  <2> QED BY <1>2, <2>1
<1>4. /\ Cases' = Cases /\ VectorsRefused' = VectorsRefused /\ Len(Cases) \in Nat
      /\ vectors' = vectors /\ artifacts' = artifacts /\ old_files' = old_files
      /\ line' = line /\ owing' = owing
  BY <1>2, CasesType DEF Accepting, Cases, VectorsRefused
<1>5. received = Response /\ frames \in Seq(Frame) /\ frames[1] \in Frame
  <2>1. Len(frames) = 1 /\ received = Response
    BY DEF Accepting, Response_faulty
  <2>2. frames \in Seq(Frame)
    BY <1>0 DEF IInv, TypeOK
  <2>3. frames[1] \in Frame
    BY <2>1, <2>2, ElementOfSeq
  <2> QED BY <2>1, <2>2, <2>3
<1>6. Response \in Seq(Byte) /\ Len(Response) \in Nat /\ Parsed(Response) = frames[1]
  BY <1>5, EncodeBytes, ParsedEncode, LenProperties DEF Response
<1> DEFINE c == CompletedResult
           r == recorder.results
           q == Append(r, c)
           n == Len(r)
<1>7. /\ c.case_id = Cases[uart_case].case_id /\ c.implementation = "fpga-uart"
      /\ c.schema_version = SCHEMA_VERSION
      /\ c.output = Response /\ c.output_bit_length = 8 * Len(Response)
      /\ StatusFlags(frames[1]) # Undecodable => c.status = StatusFlags(frames[1])
  BY DEF CompletedResult
<1> HIDE DEF c
<1>8. n \in Nat /\ n + 1 = uart_case /\ n # Len(Cases) /\ n + 1 \in 0 .. Len(Cases)
      /\ r = [i \in 1 .. n |-> r[i]]
  <2>1. n \in 0 .. Len(Cases) /\ r = [i \in 1 .. n |-> r[i]]
    BY <1>0 DEF RecorderOK
  <2> HIDE DEF r
  <2> DEFINE m == Len(r)
  <2>2. m \in Nat /\ m = uart_case - 1 /\ uart_case \in 1 .. Len(Cases)
    BY <1>2, <1>4, <2>1 DEF r
  <2> HIDE DEF m
  <2>3. m + 1 = uart_case /\ m # Len(Cases) /\ m + 1 \in 0 .. Len(Cases)
    BY <1>4, <2>2
  <2> QED BY <2>1, <2>2, <2>3 DEF m
<1>9. DOMAIN recorder = {"capture", "results"} /\ recorder.capture \in Seq(Byte)
      /\ received \in Seq(Byte)
  BY <1>0 DEF RecorderOK
<1>10. recorder'.results = q /\ recorder'.capture = recorder.capture
       /\ DOMAIN recorder' = {"capture", "results"}
  BY <1>9 DEF Accepting, c
<1>11. \A k \in 0 .. n : Outputs(r, k) \in Seq(Byte)
  BY OutputsSeq
<1>12. recorder.capture = Outputs(r, n) \o Response
  BY <1>0, <1>1, <1>5 DEF RecorderOK
<1>13. \A i \in 1 .. n : ResultOK(i)
  BY <1>0 DEF RecorderOK
<1>14. \A k \in 0 .. n : IsPrefix(Outputs(r, k), recorder.capture)
  BY <1>0 DEF RecorderOK
<1> HIDE DEF r, n
<1>15. Len(q) = n + 1 /\ q[n + 1] = c /\ (\A i \in 1 .. n : q[i] = r[i])
       /\ q = [i \in 1 .. n + 1 |-> q[i]]
  BY <1>8, ResultAdded
<1> HIDE DEF q
<1>16. \A i \in 1 .. n + 1 : ResultOK(i)'
  <2> SUFFICES ASSUME NEW i \in 1 .. n + 1 PROVE ResultOK(i)'
    OBVIOUS
  <2>1. CASE i \in 1 .. n
    <3>1. ResultOK(i) /\ recorder'.results[i] = recorder.results[i]
      BY <1>10, <1>13, <1>15, <2>1 DEF r
    <3> QED BY <1>3, <1>4, <3>1 DEF ResultOK
  <2>2. CASE i = n + 1
    <3>1. recorder'.results[i] = c /\ Cases'[i] = Cases[uart_case]
      BY <1>4, <1>8, <1>10, <1>15, <2>2
    <3>2. ~failed' => Response = Cases[uart_case].decoded /\ c.status = StatusFlags(Parsed(Response))
      BY <1>6, <1>7 DEF Accepting, Expected
    <3>3. /\ c.case_id = Cases'[i].case_id
          /\ c.output \in Seq(Byte) /\ c.output_bit_length = 8 * Len(c.output)
          /\ ~failed' => c.output = Cases'[i].decoded /\ c.status = StatusFlags(Parsed(c.output))
      BY <1>6, <1>7, <3>1, <3>2
    <3> QED BY <1>7, <3>1, <3>3, Zenon DEF ResultOK
  <2> QED BY <1>8, <2>1, <2>2
<1>17. recorder.capture = Outputs(q, n + 1)
  <2>1. \A i \in 1 .. n + 1 : q[i].output \in Seq(Byte)
    BY <1>10, <1>16 DEF ResultOK
  <2>2. Outputs(q, n + 1) = Outputs(r, n) \o q[n + 1].output
    BY <1>8, <1>15, <2>1, OutputsMore
  <2> QED BY <1>7, <1>12, <1>15, <2>2
<1>18. \A k \in 0 .. n + 1 : IsPrefix(Outputs(q, k), recorder.capture)
  <2> TAKE k \in 0 .. n + 1
  <2>1. CASE k \in 0 .. n
    <3>1. Outputs(q, k) = Outputs(r, k)
      <4>1. k \in Nat /\ \A j \in 1 .. k : j \in 1 .. n
        BY <1>8, <2>1
      <4>2. \A j \in 1 .. k : q[j] = r[j]
        BY <1>15, <4>1
      <4> QED BY <4>1, <4>2, OutputsSame
    <3> QED BY <1>14, <2>1, <3>1
  <2>2. CASE k = n + 1
    BY <1>9, <1>17, <2>2, PrefixSelf
  <2> QED BY <1>8, <2>1, <2>2
<1>19. ProgressOK'
  <2>1. line' \in Lines /\ owing' \in Seq(0 .. Len(Cases'))
    BY <1>2, <1>4
  <2>2. pc' \in InCase => uart_case' \in 1 .. Len(Cases') /\ Len(recorder'.results) = uart_case' - 1
    <3>1. pc' \in InCase => uart_case' = uart_case + 1 /\ uart_case # Len(Cases)
      BY DEF Accepting, InCase
    <3>2. Len(recorder'.results) = n + 1
      BY <1>10, <1>15
    <3> QED BY <1>2, <1>4, <1>8, <3>1, <3>2
  <2>3. pc' \in {"save capture", "save results", "ended"} /\ ~failed' =>
          Len(recorder'.results) = Len(Cases')
    <3>1. pc' \in {"save capture", "save results", "ended"} /\ ~failed' => uart_case = Len(Cases)
      BY DEF Accepting
    <3> QED BY <1>4, <1>8, <1>10, <1>15, <3>1
  <2> QED BY <1>1, <1>2, <1>3, <1>4, <2>1, <2>2, <2>3 DEF ProgressOK
<1>20. RecorderOK'
  <2>1. recorder'.capture = Outputs(recorder'.results, Len(recorder'.results))
    BY <1>10, <1>15, <1>17
  <2>2. pc' \in InCase => recorder'.capture
                            = Outputs(recorder'.results, Len(recorder'.results)) \o received'
    <3>1. pc' \in InCase => received' = << >>
      BY DEF Accepting, InCase
    <3>2. Outputs(recorder'.results, Len(recorder'.results)) \in Seq(Byte)
      BY <1>9, <1>10, <2>1
    <3> QED BY <2>1, <3>1, <3>2, ConcatEmptySeq
  <2>3. received' \in Seq(Byte) /\ (pc' = "write" => received' = << >>)
    BY <1>9, EmptySeq DEF Accepting
  <2>4. recorder'.results = [i \in 1 .. Len(recorder'.results) |-> recorder'.results[i]]
    <3>1. Len(recorder'.results) = n + 1 /\ recorder'.results = q
      BY <1>10, <1>15
    <3> QED BY <1>15, <3>1, Zenon
  <2>5. Len(recorder'.results) \in 0 .. Len(Cases')
    BY <1>4, <1>8, <1>10, <1>15
  <2>6. \A i \in 1 .. Len(recorder'.results) : ResultOK(i)'
    BY <1>10, <1>15, <1>16
  <2>7. \A k \in 0 .. Len(recorder'.results) : IsPrefix(Outputs(recorder'.results, k), recorder'.capture)
    BY <1>10, <1>15, <1>18
  <2> QED BY <1>9, <1>10, <2>1, <2>2, <2>3, <2>4, <2>5, <2>6, <2>7 DEF RecorderOK
<1>21. FilesOK'
  <2>1. artifacts' = artifacts /\ old_files' = old_files
    BY <1>4
  <2>2. artifacts.results.records = << >>
    BY <1>0 DEF Accepting, FilesOK
  <2>3. SubSeq(recorder'.results, 1, 0) = << >> /\ 0 \in 0 .. Len(recorder'.results)
    <3>1. Len(recorder'.results) = n + 1
      BY <1>10, <1>15
    <3>2. SubSeq(recorder'.results, 1, 0) = << >>
      BY SubSeqEmpty
    <3> QED BY <1>8, <3>1, <3>2
  <2>4. pc' # "ended" /\ pc' # "save results" /\ pc' # "reserve results"
        /\ pc' \notin {"load", "reserve capture"}
    BY DEF Accepting
  <2> QED BY <1>0, <1>1, <1>2, <1>4, <2>1, <2>2, <2>3, <2>4 DEF FilesOK
<1> QED BY <1>19, <1>20, <1>21 DEF HostInv

LEMMA ParseStep == ASSUME HostInv, Parse PROVE HostInv'
<1>0. ProgressOK /\ RecorderOK /\ FilesOK /\ IInv
  BY DEF HostInv
<1>1. UNCHANGED <<vectors, artifacts, old_files, line, owing>> /\ pc = "parse"
  BY DEF Parse, device
<1>2. line' \in Lines /\ owing' \in Seq(0 .. Len(Cases)) /\ failed \in BOOLEAN /\ ~VectorsRefused
      /\ pc \in InCase /\ pc \in PortOpen
  <2>1. pc \in InCase /\ pc \in PortOpen
    BY <1>1 DEF PortOpen, InCase
  <2> QED BY <1>0, <1>1, <2>1 DEF ProgressOK
<1>3. CASE Turn /\ UNCHANGED <<pc, failed, uart_case, received, recorder>>
  <2>1. IInv'
    BY <1>0, <1>3, TurnStep
  <2> QED BY <1>1, <1>2, <1>3, <2>1, QuietStep
<1>4. CASE Goto("read") /\ UNCHANGED <<parser, uart_case, received, recorder>>
  <2>1. pc' = "read" /\ failed' = failed
    BY <1>4 DEF Goto
  <2>2. pc' \in HostSteps /\ pc' \in PortOpen /\ pc' \notin {"save capture", "save results", "ended"}
    BY <2>1 DEF HostSteps, PortOpen, InCase
  <2>3. ProgressOK'
    BY <1>0, <1>1, <1>2, <1>4, <2>1, <2>2, ProgressKept
  <2>4. RecorderOK'
    BY <1>0, <1>1, <1>2, <1>4, <2>1, RecorderKept
  <2>5. FilesOK'
    BY <1>0, <1>1, <1>2, <1>4, <2>1, FilesKept
  <2>6. IInv'
    BY <1>0, <1>4, ParserKept
  <2> QED BY <2>3, <2>4, <2>5, <2>6 DEF HostInv
<1>5. CASE Fail /\ UNCHANGED <<parser, uart_case, received, recorder>>
  BY <1>1, <1>2, <1>5, FailStep
<1>6. CASE /\ frames # << >> /\ ~Response_faulty
           /\ recorder' = [recorder EXCEPT !.results = Append(@, CompletedResult)]
           /\ IF StatusFlags(frames[1]) = Undecodable \/ Response # Expected
              THEN Fail /\ UNCHANGED <<parser, uart_case, received>>
              ELSE IF uart_case = Len(Cases)
              THEN Goto("save capture") /\ UNCHANGED <<parser, uart_case, received>>
              ELSE Goto("write") /\ BeginCase(uart_case + 1)
  <2>1. CASE Fail /\ UNCHANGED <<parser, uart_case, received>>
    <3>1. pc' = "save capture" /\ failed' = TRUE
      BY <1>1, <2>1, FailGoes
    <3>2. IInv'
      BY <1>0, <2>1, ParserKept
    <3>3. Accepting
      BY <1>1, <1>6, <2>1, <3>1 DEF Accepting
    <3> QED BY <3>2, <3>3, AcceptedStep
  <2>2. CASE /\ ~(StatusFlags(frames[1]) = Undecodable \/ Response # Expected)
             /\ uart_case = Len(Cases)
             /\ Goto("save capture") /\ UNCHANGED <<parser, uart_case, received>>
    <3>1. pc' = "save capture" /\ failed' = failed
      BY <2>2 DEF Goto
    <3>2. IInv'
      BY <1>0, <2>2, ParserKept
    <3>3. Accepting
      BY <1>1, <1>6, <2>2, <3>1 DEF Accepting
    <3> QED BY <3>2, <3>3, AcceptedStep
  <2>3. CASE /\ ~(StatusFlags(frames[1]) = Undecodable \/ Response # Expected)
             /\ uart_case # Len(Cases)
             /\ Goto("write") /\ BeginCase(uart_case + 1)
    <3>1. pc' = "write" /\ failed' = failed /\ uart_case' = uart_case + 1 /\ received' = << >>
      BY <2>3 DEF Goto, BeginCase
    <3>2. IInv'
      BY <2>3, Emptied DEF BeginCase
    <3>3. Accepting
      BY <1>1, <1>6, <2>3, <3>1 DEF Accepting
    <3> QED BY <3>2, <3>3, AcceptedStep
  <2> QED BY <1>6, <2>1, <2>2, <2>3
<1> QED BY <1>3, <1>4, <1>5, <1>6, Zenon DEF Parse

LEMMA SaveCaptureStep == ASSUME HostInv, SaveCapture PROVE HostInv'
<1>0. ProgressOK /\ RecorderOK /\ FilesOK /\ IInv
  BY DEF HostInv
<1>1. /\ UNCHANGED <<parser, vectors, uart_case, received, recorder, old_files, line, owing>>
      /\ pc = "save capture"
  BY DEF SaveCapture, device
<1>2. PICK content :
        /\ artifacts' = [artifacts EXCEPT !.capture = NewFile(content, FALSE)]
        /\ \/ content = recorder.capture /\ pc' = "save results" /\ failed' = failed
           \/ pc' = "ended" /\ failed' = TRUE
  BY <1>1, Zenon DEF SaveCapture, Goto, Fail
<1>3. line' \in Lines /\ owing' \in Seq(0 .. Len(Cases)) /\ failed \in BOOLEAN /\ ~VectorsRefused
      /\ pc \in PortOpen /\ pc' \notin InCase
  <2>1. pc \in PortOpen /\ pc' \notin InCase
    BY <1>1, <1>2 DEF PortOpen, InCase
  <2> QED BY <1>0, <1>1, <2>1 DEF ProgressOK
<1>4. failed' \in BOOLEAN /\ (failed => failed') /\ (pc' = "ended" => failed')
      /\ (~failed' => ~failed)
  BY <1>2, <1>3
<1>5. ProgressOK'
  <2>1. pc' \in HostSteps /\ pc' \in PortOpen \cup {"ended"}
    BY <1>2 DEF HostSteps, PortOpen, InCase
  <2>2. pc' \in {"save capture", "save results", "ended"} /\ ~failed' =>
          pc \in {"save capture", "save results", "ended"} /\ ~failed
    BY <1>1, <1>4
  <2> QED BY <1>0, <1>1, <1>3, <1>4, <2>1, <2>2, ProgressKept
<1>6. RecorderOK'
  <2>1. pc' # "write"
    BY <1>2
  <2> QED BY <1>0, <1>1, <1>3, <1>4, <2>1, RecorderKept
<1>7. FilesOK'
  <2>1. DOMAIN artifacts = {"capture", "results"} /\ artifacts.results.records = << >>
    BY <1>0, <1>1 DEF FilesOK
  <2>2. /\ DOMAIN artifacts' = {"capture", "results"} /\ artifacts'.results = artifacts.results
        /\ artifacts'.capture = NewFile(content, FALSE)
    BY <1>2, <2>1
  <2>3. NewFile(content, FALSE).records = content
    BY DEF NewFile
  <2>4. pc' = "save results" => content = recorder.capture
    BY <1>2
  <2>5. \A file \in {"capture", "results"} : old_files[file] = NoFile /\ NoFile # OldFile
    BY <1>0, <1>3 DEF FilesOK, NoFile, OldFile
  <2>6. \E n \in 0 .. Len(recorder.results) : << >> = SubSeq(recorder.results, 1, n)
    BY <1>0, <2>1 DEF FilesOK
  <2>7. VectorsRefused' = VectorsRefused /\ recorder' = recorder /\ old_files' = old_files
    BY <1>1 DEF VectorsRefused
  <2>8. pc' \notin {"load", "reserve capture", "reserve results"} /\ ~(pc' = "ended" /\ ~failed')
    BY <1>2, <1>4
  <2>9. DOMAIN old_files = {"capture", "results"}
    BY <1>0 DEF FilesOK
  <2> QED BY <1>3, <2>1, <2>2, <2>3, <2>4, <2>5, <2>6, <2>7, <2>8, <2>9 DEF FilesOK
<1>8. IInv'
  BY <1>0, <1>1, ParserKept
<1> QED BY <1>5, <1>6, <1>7, <1>8 DEF HostInv

LEMMA SaveResultsStep == ASSUME HostInv, SaveResults PROVE HostInv'
<1>0. ProgressOK /\ RecorderOK /\ FilesOK /\ IInv
  BY DEF HostInv
<1>1. /\ UNCHANGED <<parser, vectors, uart_case, received, recorder, old_files, line, owing>>
      /\ pc = "save results" /\ pc' = "ended"
  BY DEF SaveResults, device, Goto, Fail
<1>2. PICK content, torn :
        /\ artifacts' = [artifacts EXCEPT !.results = NewFile(content, torn)]
        /\ \/ content = recorder.results /\ torn = FALSE /\ failed' = failed
           \/ /\ \E n \in 0 .. Len(recorder.results) : content = SubSeq(recorder.results, 1, n)
              /\ failed' = TRUE
  BY Zenon DEF SaveResults, Goto, Fail
<1>3. line' \in Lines /\ owing' \in Seq(0 .. Len(Cases)) /\ failed \in BOOLEAN /\ ~VectorsRefused
      /\ pc \in PortOpen /\ pc' \notin InCase
  <2>1. pc \in PortOpen /\ pc' \notin InCase
    BY <1>1 DEF PortOpen, InCase
  <2> QED BY <1>0, <1>1, <2>1 DEF ProgressOK
<1>4. failed' \in BOOLEAN /\ (failed => failed') /\ (~failed' => ~failed)
  BY <1>2, <1>3
<1>5. ProgressOK'
  <2>1. pc' \in HostSteps /\ pc' \in PortOpen \cup {"ended"} /\ pc' \notin PortOpen
        /\ pc' \notin {"reserve capture", "reserve results", "open"}
    BY <1>1 DEF HostSteps, PortOpen, InCase
  <2>2. pc' \in {"save capture", "save results", "ended"} /\ ~failed' =>
          pc \in {"save capture", "save results", "ended"} /\ ~failed
    BY <1>1, <1>4
  <2> QED BY <1>0, <1>1, <1>3, <1>4, <2>1, <2>2, ProgressKept
<1>6. RecorderOK'
  BY <1>0, <1>1, <1>3, <1>4, RecorderKept
<1>7. FilesOK'
  <2>1. DOMAIN artifacts = {"capture", "results"} /\ artifacts.capture.records = recorder.capture
    BY <1>0, <1>1 DEF FilesOK
  <2>2. /\ DOMAIN artifacts' = {"capture", "results"} /\ artifacts'.capture = artifacts.capture
        /\ artifacts'.results = NewFile(content, torn)
    BY <1>2, <2>1
  <2>3. NewFile(content, torn).records = content
    BY DEF NewFile
  <2>4. recorder.results = [i \in 1 .. Len(recorder.results) |-> recorder.results[i]]
        /\ Len(recorder.results) \in Nat
    BY <1>0, OutputsSeq DEF RecorderOK
  <2>5. \E n \in 0 .. Len(recorder.results) : content = SubSeq(recorder.results, 1, n)
    <3>1. CASE content = recorder.results
      <4> DEFINE r == recorder.results
                 S == {r[i] : i \in 1 .. Len(r)}
      <4>1. r \in [1 .. Len(r) -> S] /\ Len(r) \in Nat
        BY <2>4
      <4> HIDE DEF r, S
      <4>2. r \in Seq(S)
        BY <4>1
      <4>3. SubSeq(r, 1, Len(r)) = r /\ Len(r) \in 0 .. Len(r)
        BY <4>1, <4>2, SubSeqFull
      <4> QED BY <3>1, <4>3 DEF r
    <3> QED BY <1>2, <3>1
  <2>6. \A file \in {"capture", "results"} : old_files[file] = NoFile /\ NoFile # OldFile
    BY <1>0, <1>3 DEF FilesOK, NoFile, OldFile
  <2>7. VectorsRefused' = VectorsRefused /\ recorder' = recorder /\ old_files' = old_files
    BY <1>1 DEF VectorsRefused
  <2>8. pc' = "ended" /\ pc' \notin PortOpen
    BY <1>1 DEF PortOpen, InCase
  <2>9. ~failed' => artifacts'.results = NewFile(recorder.results, FALSE)
    BY <1>2, <2>2
  <2>10. DOMAIN old_files = {"capture", "results"}
    BY <1>0 DEF FilesOK
  <2> QED BY <1>3, <2>1, <2>2, <2>3, <2>5, <2>6, <2>7, <2>8, <2>9, <2>10 DEF FilesOK
<1>8. IInv'
  BY <1>0, <1>1, ParserKept
<1> QED BY <1>5, <1>6, <1>7, <1>8 DEF HostInv

LEMMA HostInvariant == HostSpec => []HostInv
<1>1. HostInv /\ [HostNext]_hvars => HostInv'
  <2> SUFFICES ASSUME HostInv, [HostNext]_hvars PROVE HostInv'
    OBVIOUS
  <2>1. CASE HostNext
    BY <2>1, LoadStep, ReserveStep, OpenStep, WriteStep, TickStep, TimedOutStep, ReadStep, ParseStep,
       SaveCaptureStep, SaveResultsStep, KilledStep, AnswerStep, LoseStep DEF HostNext, HostStep
  <2>2. CASE UNCHANGED hvars
    <3>1. UNCHANGED <<parser, host, line, owing>>
      BY <2>2 DEF hvars, device
    <3>2. IInv' /\ line \in Lines /\ owing \in Seq(0 .. Len(Cases))
      BY <3>1, ParserKept DEF HostInv, ProgressOK
    <3> QED BY <3>1, <3>2, QuietStep DEF host
  <2> QED BY <2>1, <2>2
<1> QED BY <1>1, HostInitInv, PTL DEF HostSpec

----------------------------------------------------------------------------
(* What follows from the invariant. *)

LEMMA ArtifactsFollow == ASSUME HostInv PROVE ArtifactsTruthful
<1>0. RecorderOK /\ FilesOK
  BY DEF HostInv
<1>1. \A file \in {"capture", "results"} :
        /\ old_files[file] = OldFile => artifacts[file] = OldFile
        /\ VectorsRefused => artifacts[file] = old_files[file]
  BY <1>0 DEF FilesOK
<1> DEFINE r == recorder.results
           q == artifacts.results.records
<1>2. PICK n \in 0 .. Len(r) : q = SubSeq(r, 1, n)
  BY <1>0 DEF FilesOK
<1>3. Len(r) \in Nat /\ r = [i \in 1 .. Len(r) |-> r[i]] /\ n \in Nat
  BY <1>0, OutputsSeq DEF RecorderOK
<1>4. DOMAIN q = 1 .. n /\ \A i \in 1 .. n : q[i] = r[i] /\ i \in 1 .. Len(r)
  BY <1>2, <1>3, FirstPart
<1>5. q # << >> => artifacts.capture.records = recorder.capture
  BY <1>0 DEF FilesOK
<1>6. \A i \in 1 .. n : q[i].case_id = Cases[i].case_id
  BY <1>0, <1>4 DEF RecorderOK, ResultOK
<1>7. IsPrefix(FlattenSeq([i \in DOMAIN q |-> q[i].output]), recorder.capture)
  <2>1. Outputs(q, n) = Outputs(r, n)
    BY <1>3, <1>4, OutputsSame
  <2>2. IsPrefix(Outputs(r, n), recorder.capture)
    BY <1>0, <1>2 DEF RecorderOK
  <2>3. FlattenSeq([i \in DOMAIN q |-> q[i].output]) = Outputs(q, n)
    <3> HIDE DEF q
    <3> QED BY <1>4 DEF Outputs
  <2> QED BY <2>1, <2>2, <2>3
<1> QED BY <1>1, <1>4, <1>5, <1>6, <1>7, Zenon DEF ArtifactsTruthful

\* The files of the runner tell what happened, whatever vectors and answers
\* there are and at whatever point the run fails or is killed.
THEOREM ArtifactsAreTruthful == HostSpec => []ArtifactsTruthful
<1>1. HostInv => ArtifactsTruthful
  BY ArtifactsFollow
<1> QED BY <1>1, HostInvariant, PTL

\* Case IDs of which there are as many as records tell the records apart.
LEMMA UniqueIds ==
  ASSUME NEW n \in Nat, NEW records, DOMAIN records = 1 .. n, Len(records) = n, Unique(records)
  PROVE  \A i, j \in 1 .. n : records[i].case_id = records[j].case_id => i = j
<1> DEFINE T == CaseIds(records)
           f == [i \in 1 .. n |-> records[i].case_id]
<1>1. T = {records[i].case_id : i \in 1 .. n}
  BY DEF CaseIds
<1>2. f \in Surjection(1 .. n, T)
  <2>1. f \in [1 .. n -> T] /\ \A t \in T : \E i \in 1 .. n : f[i] = t
    BY <1>1
  <2> HIDE DEF f, T
  <2> QED BY <2>1, Zenon DEF Surjection
<1>3. IsFiniteSet(1 .. n) /\ Cardinality(1 .. n) = n
  <2>1. n \in Int /\ 1 \in Int /\ (1 > n => n = 0) /\ n - 1 + 1 = n
    OBVIOUS
  <2>2. IsFiniteSet(1 .. n) /\ Cardinality(1 .. n) = IF 1 > n THEN 0 ELSE n - 1 + 1
    BY <2>1, FS_Interval
  <2> QED BY <2>1, <2>2
<1>4. Cardinality(T) = n
  BY DEF Unique
<1> HIDE DEF T
<1>5. f \in Injection(1 .. n, T)
  <2> HIDE DEF f
  <2> QED BY <1>2, <1>3, <1>4, FS_SurjSameCardinalityImpliesInj
<1>6. \A i, j \in 1 .. n : f[i] = f[j] => i = j
  <2> HIDE DEF f
  <2> QED BY <1>5, Zenon DEF Injection, IsInjective
<1> QED BY <1>6

\* The images of a finite set are finitely many.
LEMMA FiniteImages ==
  ASSUME NEW S, IsFiniteSet(S), NEW f, NEW T, T = {f[x] : x \in S}, f = [x \in S |-> f[x]]
  PROVE  IsFiniteSet(T)
<1>1. f \in [S -> T] /\ \A t \in T : \E s \in S : f[s] = t
  OBVIOUS
<1>2. f \in Surjection(S, T)
  BY <1>1, Zenon DEF Surjection
<1> QED BY <1>2, FS_Surjection

\* The evaluation counts no failure exactly when there is none.
LEMMA NoFailures ==
  ASSUME NEW m \in Nat, NEW n \in Nat, NEW v, NEW q, DOMAIN v = 1 .. m, DOMAIN q = 1 .. n
  PROVE  ~(evaluate_results(v, q).failed > 0) <=>
           /\ \A i \in 1 .. m : Failure(v[i], q) = "none"
           /\ CaseIds(q) \subseteq CaseIds(v)
<1> DEFINE Bad == {i \in DOMAIN v : Failure(v[i], q) # "none"}
           Unknown == CaseIds(q) \ CaseIds(v)
           f == [i \in Bad |-> [case_id |-> v[i].case_id, reason |-> Failure(v[i], q)]]
           g == [id \in Unknown |-> [case_id |-> id, reason |-> "unknown result case_id"]]
           A == {[case_id |-> v[i].case_id, reason |-> Failure(v[i], q)] : i \in Bad}
           B == {[case_id |-> id, reason |-> "unknown result case_id"] : id \in Unknown}
<1>1. evaluate_results(v, q).failed = Cardinality(A \cup B)
  BY DEF evaluate_results
<1>2. IsFiniteSet(1 .. m) /\ IsFiniteSet(1 .. n)
  BY FS_Interval
<1>3. IsFiniteSet(A)
  <2>1. Bad \in SUBSET (1 .. m)
    OBVIOUS
  <2>2. A = {f[i] : i \in Bad} /\ f = [i \in Bad |-> f[i]]
    OBVIOUS
  <2> HIDE DEF A, Bad, f
  <2>3. IsFiniteSet(Bad)
    BY <1>2, <2>1, FS_Subset
  <2> QED BY <2>2, <2>3, FiniteImages
<1>4. IsFiniteSet(B)
  <2> DEFINE ids == [i \in 1 .. n |-> q[i].case_id]
             C == CaseIds(q)
  <2>1. C = {ids[i] : i \in 1 .. n} /\ ids = [i \in 1 .. n |-> ids[i]]
    BY DEF CaseIds
  <2>2. Unknown \in SUBSET C
    OBVIOUS
  <2>3. B = {g[id] : id \in Unknown} /\ g = [id \in Unknown |-> g[id]]
    OBVIOUS
  <2> HIDE DEF C, ids, Unknown, B, g
  <2>4. IsFiniteSet(C)
    BY <1>2, <2>1, FiniteImages
  <2>5. IsFiniteSet(Unknown)
    BY <2>2, <2>4, FS_Subset
  <2> QED BY <2>3, <2>5, FiniteImages
<1>5. IsFiniteSet(A \cup B)
  <2> HIDE DEF A, B
  <2> QED BY <1>3, <1>4, FS_Union
<1>6. Cardinality(A \cup B) \in Nat /\ (Cardinality(A \cup B) = 0 <=> A \cup B = {})
  <2> DEFINE U == A \cup B
  <2> HIDE DEF U
  <2>1. IsFiniteSet(U)
    BY <1>5 DEF U
  <2>2. Cardinality(U) \in Nat /\ (Cardinality(U) = 0 <=> U = {})
    BY <2>1, FS_CardinalityType, FS_EmptySet
  <2> QED BY <2>2 DEF U
<1>7. A = {} <=> \A i \in 1 .. m : Failure(v[i], q) = "none"
  OBVIOUS
<1>8. B = {} <=> CaseIds(q) \subseteq CaseIds(v)
  OBVIOUS
<1> HIDE DEF A, B
<1>9. ~(Cardinality(A \cup B) > 0) <=> A = {} /\ B = {}
  BY <1>6
<1> QED BY <1>1, <1>7, <1>8, <1>9

\* The one result with an ID is found.
LEMMA ResultFound ==
  ASSUME NEW n, NEW q, DOMAIN q = 1 .. n, NEW i \in 1 .. n, NEW id, q[i].case_id = id,
         \A j, k \in 1 .. n : q[j].case_id = q[k].case_id => j = k
  PROVE  id \in CaseIds(q) /\ ResultOf(q, id) = q[i]
<1>1. id \in CaseIds(q)
  BY DEF CaseIds
<1> DEFINE k == CHOOSE j \in DOMAIN q : q[j].case_id = id
<1>2. k \in 1 .. n /\ q[k].case_id = id
  OBVIOUS
<1>3. k = i
  <2> HIDE DEF k
  <2> QED BY <1>2
<1>4. ResultOf(q, id) = q[k]
  BY DEF ResultOf
<1> QED BY <1>1, <1>3, <1>4

\* The results in the file are those of the first cases, and the case IDs of
\* the vectors tell these apart.
LEMMA ResultsOfCases ==
  ASSUME HostInv, pc = "ended", artifacts.results.kind = "new"
  PROVE  /\ ~VectorsRefused /\ ~VectorFiles[vectors].torn /\ Unique(Cases)
         /\ Len(Cases) \in Nat /\ Len(Cases) > 0 /\ DOMAIN Cases = 1 .. Len(Cases)
         /\ \A i \in 1 .. Len(Cases) : ~RefusesCase(Cases[i])
         /\ \A i, j \in 1 .. Len(Cases) : Cases[i].case_id = Cases[j].case_id => i = j
         /\ \E n \in 0 .. Len(Cases) :
              LET q == artifacts.results.records
              IN  /\ DOMAIN q = 1 .. n /\ Len(q) = n /\ n <= Len(recorder.results)
                  /\ \A i \in 1 .. n : /\ q[i] = recorder.results[i] /\ ResultOK(i)
                                       /\ i \in 1 .. Len(Cases)
                                       /\ q[i].case_id = Cases[i].case_id
<1>0. RecorderOK /\ FilesOK /\ vectors \in DOMAIN VectorFiles
  BY DEF HostInv, ProgressOK
<1>1. ~VectorsRefused
  <2>1. NoFile.kind # "new" /\ OldFile.kind # "new"
    BY DEF NoFile, OldFile
  <2>2. VectorsRefused => artifacts.results \in {NoFile, OldFile}
    BY <1>0 DEF FilesOK
  <2> QED BY <2>1, <2>2
<1>2. /\ ~VectorFiles[vectors].torn /\ Len(Cases) > 0 /\ Unique(Cases)
      /\ \A i \in DOMAIN Cases : ~RefusesCase(Cases[i])
  BY <1>0, <1>1, AcceptedFile
<1>3. Len(Cases) \in Nat /\ DOMAIN Cases = 1 .. Len(Cases)
  BY <1>0, CasesType
<1>4. \A i, j \in 1 .. Len(Cases) : Cases[i].case_id = Cases[j].case_id => i = j
  BY <1>2, <1>3, UniqueIds
<1> DEFINE r == recorder.results
           l == Len(r)
           m == Len(Cases)
           q == artifacts.results.records
<1>5. PICK n \in 0 .. l : q = SubSeq(r, 1, n)
  BY <1>0 DEF FilesOK
<1>6. l \in Nat /\ l <= m /\ r = [i \in 1 .. l |-> r[i]]
  BY <1>0, OutputsSeq DEF RecorderOK
<1>7. \A i \in 1 .. l : ResultOK(i) /\ r[i].case_id = Cases[i].case_id
  BY <1>0 DEF RecorderOK, ResultOK
<1>8. m \in Nat
  BY <1>3
<1>9. DOMAIN q = 1 .. n /\ Len(q) = n /\ \A i \in 1 .. n : q[i] = r[i] /\ i \in 1 .. l
  <2> HIDE DEF r, l
  <2> QED BY <1>5, <1>6, FirstPart
<1>10. n \in 0 .. m /\ n <= l /\ \A i \in 1 .. n : i \in 1 .. m
  <2> HIDE DEF l, m
  <2> QED BY <1>6, <1>8
<1>11. \A i \in 1 .. n : /\ q[i] = r[i] /\ ResultOK(i) /\ i \in 1 .. m
                         /\ q[i].case_id = Cases[i].case_id
  BY <1>7, <1>9, <1>10
<1> HIDE DEF q, r, l, m
<1>12. \E k \in 0 .. m : /\ DOMAIN q = 1 .. k /\ Len(q) = k /\ k <= l
                         /\ \A i \in 1 .. k : /\ q[i] = r[i] /\ ResultOK(i) /\ i \in 1 .. m
                                              /\ q[i].case_id = Cases[i].case_id
  BY <1>9, <1>10, <1>11
<1> QED BY <1>1, <1>2, <1>3, <1>4, <1>12, Zenon DEF q, r, l, m

\* Exit status 0 of the evaluation: each vector has its result, with its output.
LEMMA AcceptedMeans ==
  ASSUME HostInv, pc = "ended", artifacts.results.kind = "new", Verdict = 0
  PROVE  artifacts.capture.records = FlattenSeq([i \in DOMAIN Cases |-> Cases[i].decoded])
<1> DEFINE q == artifacts.results.records
           m == Len(Cases)
<1>1. /\ m \in Nat /\ m > 0 /\ DOMAIN Cases = 1 .. m /\ Unique(Cases)
      /\ \A i, j \in 1 .. m : Cases[i].case_id = Cases[j].case_id => i = j
  BY ResultsOfCases
<1>2. PICK n \in 0 .. m :
        /\ DOMAIN q = 1 .. n /\ Len(q) = n /\ n <= Len(recorder.results)
        /\ \A i \in 1 .. n : q[i] = recorder.results[i] /\ i \in 1 .. m
                             /\ q[i].case_id = Cases[i].case_id
  BY ResultsOfCases
<1>3. ~(evaluate_results(Cases, q).failed > 0) /\ Unique(q)
  BY DEF Verdict, evaluate_reference_results, evaluate_results_refuses, Cases
<1> HIDE DEF q, m
<1>4. n \in Nat
  BY <1>1
<1>5. /\ \A i \in 1 .. m : Failure(Cases[i], q) = "none"
      /\ CaseIds(q) \subseteq CaseIds(Cases)
  BY <1>1, <1>2, <1>3, <1>4, NoFailures
<1>6. \A i \in 1 .. m : /\ Cases[i].case_id \in CaseIds(q)
                        /\ ResultOf(q, Cases[i].case_id).output = Cases[i].decoded
  BY <1>5 DEF Failure
<1>7. CaseIds(q) = CaseIds(Cases)
  <2>1. CaseIds(Cases) = {Cases[i].case_id : i \in 1 .. m}
    BY <1>1 DEF CaseIds
  <2> QED BY <1>5, <1>6, <2>1
<1>8. n = m
  BY <1>1, <1>2, <1>3, <1>7 DEF Unique, m
<1>9. \A i \in 1 .. m : q[i].output = Cases[i].decoded
  <2> TAKE i \in 1 .. m
  <2>1. \A j, k \in 1 .. n : q[j].case_id = q[k].case_id => j = k
    BY <1>1, <1>2
  <2>2. ResultOf(q, Cases[i].case_id) = q[i]
    BY <1>2, <1>8, <2>1, ResultFound
  <2> QED BY <1>6, <2>2
<1>10. q # << >> /\ artifacts.capture.records = recorder.capture
  <2>1. q # << >>
    <3>1. n # 0
      BY <1>1, <1>8
    <3>2. Len(<< >>) = 0
      OBVIOUS
    <3> QED BY <1>2, <3>1, <3>2
  <2>2. FilesOK
    BY DEF HostInv
  <2> QED BY <2>1, <2>2 DEF FilesOK, q
<1>11. recorder.capture = Outputs(recorder.results, m)
  <2>1. Len(recorder.results) \in Nat /\ Len(recorder.results) <= m
    BY OutputsSeq DEF m
  <2>2. Len(recorder.results) = m
    BY <1>1, <1>2, <1>8, <2>1
  <2> QED BY <2>2 DEF HostInv, RecorderOK, m
<1>12. [i \in 1 .. m |-> recorder.results[i].output] = [i \in DOMAIN Cases |-> Cases[i].decoded]
  <2>1. \A i \in 1 .. m : recorder.results[i].output = Cases[i].decoded
    BY <1>2, <1>8, <1>9
  <2> QED BY <1>1, <2>1
<1> QED BY <1>10, <1>11, <1>12 DEF Outputs

\* A byte string as long as its bytes is canonical.
LEMMA WholeBytes ==
  ASSUME NEW s, Len(s) \in Nat
  PROVE  CanonicalLength(s, 8 * Len(s))
<1> DEFINE l == Len(s)
<1>1. l \in Nat
  OBVIOUS
<1> HIDE DEF l
<1>2. (8 * l + 7) \div 8 = l /\ (8 * l) % 8 = 0
  BY <1>1
<1> QED BY <1>2 DEF CanonicalLength, l

\* A run that ended with exit status 0 is accepted.
LEMMA FinishedIsAccepted ==
  ASSUME HostInv, pc = "ended", artifacts.results.kind = "new", ~failed, StatusesMeant
  PROVE  Verdict = 0
<1> DEFINE q == artifacts.results.records
           m == Len(Cases)
<1>0. artifacts.results = NewFile(recorder.results, FALSE) /\ Len(recorder.results) = m
  BY DEF HostInv, FilesOK, ProgressOK
<1>1. /\ ~VectorFiles[vectors].torn /\ m \in Nat /\ DOMAIN Cases = 1 .. m /\ Unique(Cases)
      /\ \A i \in 1 .. m : ~RefusesCase(Cases[i])
      /\ \A i, j \in 1 .. m : Cases[i].case_id = Cases[j].case_id => i = j
  BY ResultsOfCases
<1>2. /\ DOMAIN q = 1 .. m /\ Len(q) = m
      /\ \A i \in 1 .. m : ResultOK(i) /\ q[i] = recorder.results[i]
                           /\ q[i].case_id = Cases[i].case_id
  <2>1. PICK n \in 0 .. m :
        /\ DOMAIN q = 1 .. n /\ Len(q) = n
        /\ \A i \in 1 .. n : q[i] = recorder.results[i] /\ ResultOK(i)
                             /\ q[i].case_id = Cases[i].case_id
    BY ResultsOfCases
  <2>2. q = recorder.results
    BY <1>0 DEF NewFile
  <2>3. n = m
    BY <1>0, <2>1, <2>2
  <2> QED BY <2>1, <2>3
<1> HIDE DEF q, m
<1>3. \A i \in 1 .. m :
        /\ q[i].implementation = "fpga-uart" /\ q[i].schema_version = SCHEMA_VERSION
        /\ Len(q[i].output) \in Nat /\ q[i].output_bit_length = 8 * Len(q[i].output)
        /\ q[i].output = Cases[i].decoded /\ q[i].status = StatusFlags(Parsed(Cases[i].decoded))
  <2> TAKE i \in 1 .. m
  <2>1. ResultOK(i) /\ q[i] = recorder.results[i]
    BY <1>2
  <2>2. /\ q[i].implementation = "fpga-uart" /\ q[i].schema_version = SCHEMA_VERSION
        /\ q[i].output \in Seq(Byte) /\ q[i].output_bit_length = 8 * Len(q[i].output)
        /\ q[i].output = Cases[i].decoded /\ q[i].status = StatusFlags(Parsed(q[i].output))
    BY <2>1 DEF ResultOK
  <2> QED BY <2>2, LenProperties
<1>4. \A i \in 1 .. m : /\ ValidVector(Cases[i]) /\ Cases[i].case_id # ""
                        /\ Cases[i].decoded_bit_length = 8 * Len(Cases[i].decoded)
  BY <1>1 DEF RefusesCase, ValidVector
<1>5. ~read_vectors_refuses(VectorFiles[vectors])
  BY <1>1, <1>4 DEF read_vectors_refuses, Cases
<1>6. ~read_results_refuses(artifacts.results)
  <2>1. artifacts.results.torn = FALSE /\ artifacts.results.records = q
    BY <1>0 DEF NewFile, q
  <2>2. \A i \in 1 .. m : ValidResult(q[i])
    <3> TAKE i \in 1 .. m
    <3>1. CanonicalLength(q[i].output, q[i].output_bit_length)
      BY <1>3, WholeBytes
    <3>2. q[i].case_id # "" /\ q[i].implementation # ""
      BY <1>2, <1>3, <1>4
    <3> QED BY <1>3, <3>1, <3>2 DEF ValidResult
  <2> QED BY <1>2, <2>1, <2>2 DEF read_results_refuses
<1>7. CaseIds(q) = CaseIds(Cases)
  BY <1>1, <1>2 DEF CaseIds
<1>8. Unique(q)
  BY <1>1, <1>2, <1>7 DEF Unique, m
<1>9. \A i \in 1 .. m : Failure(Cases[i], q) = "none"
  <2> TAKE i \in 1 .. m
  <2>1. \A j, k \in 1 .. m : q[j].case_id = q[k].case_id => j = k
    BY <1>1, <1>2
  <2>2. Cases[i].case_id \in CaseIds(q) /\ ResultOf(q, Cases[i].case_id) = q[i]
    BY <1>2, <2>1, ResultFound
  <2>3. q[i].status = Cases[i].expected_status
    BY <1>1, <1>3 DEF StatusesMeant
  <2>4. q[i].output = Cases[i].decoded /\ q[i].output_bit_length = Cases[i].decoded_bit_length
    BY <1>3, <1>4
  <2> QED BY <2>2, <2>3, <2>4 DEF Failure
<1>10. ~(evaluate_results(Cases, q).failed > 0)
  BY <1>1, <1>2, <1>7, <1>9, NoFailures
<1>11. ~evaluate_results_refuses(Cases, q)
  BY <1>1, <1>8 DEF evaluate_results_refuses
<1> QED BY <1>5, <1>6, <1>10, <1>11 DEF Verdict, evaluate_reference_results, Cases, q

\* The evaluation accepts a result file exactly for the right reason, whatever
\* vectors and answers there are.
THEOREM EvaluationIsSound == HostSpec => []EvaluationSound
<1>1. HostInv => EvaluationSound
  BY AcceptedMeans, FinishedIsAccepted DEF EvaluationSound
<1> QED BY <1>1, HostInvariant, PTL

----------------------------------------------------------------------------
(* The experiment scripts: their invariant. *)

Steps == {"config", "fetch", "verify", "load", "git", "track", "prompt", "token", "decode", 
          "log", "finish", "print", "ended"}

\* The steps before there is a model, and before W&B is started.
BeforeModel == {"config", "fetch", "verify", "load"}
BeforeRun == BeforeModel \cup {"git", "track"}

\* A script that runs has no exit status yet.
Control ==
  /\ step \in Steps
  /\ script \in {"none", "download", "smoke", "dummy"}
  /\ step # "ended" => exit = E!Running
  /\ step \in {"load", "prompt", "token", "decode"} => script = "smoke"
  /\ step = "config" => script \in {"smoke", "dummy"}
  /\ step = "fetch" => script = "download"
  /\ step \in {"git", "track", "log", "finish"} => script # "download"
  /\ step = "verify" => script # "dummy"

\* The limits are numbers, and the configuration is one that was accepted.
ConfigOK ==
  /\ options.max_tokens \in Int \cup {None} /\ options.prompt \in Nat
  /\ script = "smoke" /\ step \notin {"config", "ended"} =>
       /\ config.max_tokens \in Int /\ config.max_tokens > 0
       /\ ~E!negative(config.temperature)

\* What was hashed, and what was loaded.
ModelOK ==
  /\ step \in BeforeModel \/ script = "dummy" => model = E!NoModel
  /\ script = "smoke" /\ step = "load" => replaced.since \/ model_file = metadata
  /\ script = "smoke" /\ step \notin BeforeModel \cup {"ended"} =>
       replaced.since \/ model.file = metadata
  /\ script # "dummy" /\ step \notin {"config", "fetch", "verify", "ended"} => metadata = "right"

\* What the generation has so far, and what it ends with.
TokensOK ==
  /\ step \in BeforeRun \cup {"prompt"} => output_ids = << >> /\ yielded = << >>
  /\ script = "smoke" /\ step = "token" =>
       /\ output_ids \in Seq(E!Tokens) /\ yielded = output_ids
       /\ Len(output_ids) < E!limit
  /\ script = "smoke" /\ step \in {"decode", "log", "finish", "print"} =>
       /\ output_ids \in Seq(E!Tokens)
       /\ \/ yielded = output_ids /\ Len(output_ids) = E!limit
          \/ yielded = Append(output_ids, E!EOS) /\ Len(output_ids) <= E!limit

\* The tracker holds the run until it is finished; the run is told once.
RunOK ==
  /\ DOMAIN wandb_run = {"opened", "max_tokens", "file", "logged", "finished"}
  /\ wandb_run.opened \in BOOLEAN /\ wandb_run.finished \in BOOLEAN /\ tracker \in BOOLEAN
  /\ step \in BeforeRun => ~sdk_imported /\ ~tracker /\ wandb_run = E!NoRun /\ raised = {}
  /\ step \in {"prompt", "token", "decode", "log", "finish"} => tracker = wandb_run.opened
  /\ step \in {"prompt", "token", "decode", "log"} => raised = {} /\ wandb_run.logged = << >>
  /\ step \in {"prompt", "token", "decode", "log", "finish"} =>
       "finish" \notin raised /\ ~wandb_run.finished
  /\ step \in {"finish", "print"} /\ wandb_run.opened =>
       wandb_run.logged = IF "log" \in raised THEN << >> ELSE <<Len(output_ids)>>
  /\ step = "print" /\ wandb_run.opened => wandb_run.finished = ("finish" \notin raised)
  /\ step # "ended" /\ wandb_run.opened => wandb_run.file = metadata

ExperimentInv ==
  /\ Control /\ ConfigOK /\ ModelOK /\ TokensOK /\ RunOK
  /\ E!RunTruthful /\ E!SdkWithLeave

----------------------------------------------------------------------------
(* The configuration. *)

\* The one mapping among the values that are put in a document's places.
Stray == <<"map", [unknown |-> <<"null">>]>>

LEMMA ValueKinds ==
  ASSUME NEW v \in E!Values \cup {E!Missing}
  PROVE  /\ v[1] = "map" => v = Stray
         /\ v[1] = "int" => v[2] \in Int
<1>1. CASE v \in {<<"int", -1>>, <<"int", 0>>, <<"int", 1>>}
  BY <1>1
<1>2. CASE \/ v \in {<<"null">>, <<"blank">>, <<"missing">>}
           \/ v \in {<<"text", "other">>, <<"float", "negative">>, <<"float", "positive">>,
                     <<"float", "nan">>}
           \/ v \in {<<"bool", TRUE>>, <<"bool", FALSE>>}
  <2>1. v[1] \in {"null", "blank", "missing", "text", "float", "bool"}
    <3>1. CASE v \in {<<"null">>, <<"blank">>, <<"missing">>}
      BY <3>1
    <3>2. CASE v \in {<<"text", "other">>, <<"float", "negative">>, <<"float", "positive">>,
                      <<"float", "nan">>}
      BY <3>2
    <3>3. CASE v \in {<<"bool", TRUE>>, <<"bool", FALSE>>}
      <4>1. PICK b : v = <<"bool", b>>
        BY <3>3, Zenon
      <4> QED BY <4>1
    <3> QED BY <1>2, <3>1, <3>2, <3>3
  <2> QED BY <2>1
<1>3. CASE v = Stray
  BY <1>3 DEF Stray
<1> QED
  BY <1>1, <1>2, <1>3, Zenon DEF E!Values, E!Missing, E!YMap, E!YText, E!YInt, Stray

\* It has one key, which no mapping of a configuration has.
LEMMA NoMapping ==
  ASSUME NEW v \in E!Values \cup {E!Missing},
         NEW names, "unknown" \notin names
  PROVE  ~E!mapping(v, names)
<1>1. DOMAIN Stray[2] = {"unknown"}
  BY DEF Stray
<1> QED BY <1>1, ValueKinds DEF E!mapping

\* An integer among them is a number.
LEMMA IntegerValue ==
  ASSUME NEW v \in E!Values \cup {E!Missing}, v[1] = "int"
  PROVE  v[2] \in Int
BY ValueKinds

\* Both documents have the same keys and the same generation section.
Section ==
  [seed |-> <<"int", 1>>, max_tokens |-> <<"int", 2>>, temperature |-> <<"int", 0>>,
   thinking |-> <<"bool", FALSE>>]

Names == {"name", "model", "generation", "prompt_dataset", "channel", "fec", "tracking"}

LEMMA Sections ==
  \A document \in {E!Document, E!Tracked} :
    document.generation = <<"map", Section>> /\ DOMAIN document = Names
<1>1. E!Document.generation = <<"map", Section>> /\ DOMAIN E!Document = Names
  BY DEF E!Document, Section, E!YMap, E!YInt, Names
<1>2. PICK t : E!Tracked = [E!Document EXCEPT !["tracking"] = t]
  BY Zenon DEF E!Tracked
<1>3. E!Tracked.generation = E!Document.generation /\ DOMAIN E!Tracked = DOMAIN E!Document
  BY <1>1, <1>2 DEF Names
<1> QED BY <1>1, <1>3

\* A configuration that is accepted has a token limit that is a number.
LEMMA AcceptedLimit ==
  ASSUME NEW document \in {E!Document, E!Tracked}, NEW place \in E!Places,
         NEW v \in E!Values \cup {E!Missing}, NEW key \in E!KeysAt(place),
         NEW d, d = E!Edited(document, place, key, v),
         E!load_experiment_config(d)
  PROVE  d[2].generation[2].max_tokens[2] \in Int
<1> DEFINE keys(map) == IF v = E!Missing THEN DOMAIN map \ {key} ELSE DOMAIN map \cup {key}
           change(map) == [k \in keys(map) |-> IF k = key THEN v ELSE map[k]]
           settings == {"seed", "max_tokens", "temperature", "thinking"}
           generation == d[2].generation
<1>1. /\ E!mapping(d, Names) /\ E!mapping(generation, settings)
      /\ E!integer(generation[2].max_tokens)
  BY DEF E!load_experiment_config, E!positive_integer, E!integer, Names, Names
<1>2. document.generation = <<"map", Section>> /\ Section.max_tokens = <<"int", 2>>
  BY Sections DEF Section
<1>3. CASE place = "file"
  <2>1. d = v
    BY <1>3 DEF E!Edited
  <2> QED BY <2>1, <1>1, NoMapping DEF Names
<1>4. CASE place = "config"
  <2>1. d = <<"map", change(document)>>
    BY <1>4 DEF E!Edited, E!YMap
  <2>2. generation = IF key = "generation" THEN v ELSE document.generation
    BY <2>1, <1>1 DEF E!mapping, Names
  <2>3. key # "generation"
    BY <2>2, <1>1, NoMapping
  <2> QED BY <2>2, <2>3, <1>2
<1>5. CASE place = "generation"
  <2>1. d = <<"map", [document EXCEPT !["generation"] = <<"map", change(Section)>>]>>
    <3>1. d = <<"map", [document EXCEPT !["generation"] =
                          <<"map", change(document["generation"][2])>>]>>
      BY <1>5, Zenon DEF E!Edited, E!YMap
    <3>2. document["generation"][2] = Section
      BY <1>2
    <3> QED BY <3>1, <3>2
  <2>2. "generation" \in DOMAIN document
    BY Sections DEF Names
  <2>3. generation = <<"map", change(Section)>>
    BY <2>1, <2>2
  <2>4. generation[2] = change(Section) /\ "max_tokens" \in DOMAIN change(Section)
    BY <2>3, <1>1 DEF E!mapping
  <2>5. generation[2].max_tokens = IF key = "max_tokens" THEN v ELSE Section.max_tokens
    BY <2>4
  <2> QED BY <2>5, <1>1, <1>2, IntegerValue DEF E!integer
<1>6. CASE place \in {"model", "tracking", "wandb"}
  <2>1. generation = document.generation
    <3>1. CASE place = "wandb"
      <4>1. PICK w : d = <<"map", [document EXCEPT !["tracking"] = w]>>
        BY <3>1, Zenon DEF E!Edited, E!YMap
      <4> QED BY <4>1, Sections DEF Names
    <3>2. CASE place \in {"model", "tracking"}
      <4>1. place # "wandb" /\ place # "file" /\ place # "config"
        BY <3>2
      <4>2. PICK w : d = <<"map", [document EXCEPT ![place] = w]>>
        BY <4>1, Zenon DEF E!Edited, E!YMap
      <4> QED BY <3>2, <4>2, Sections DEF Names
    <3> QED BY <1>6, <3>1, <3>2
  <2> QED BY <2>1, <1>2
<1> QED BY <1>3, <1>4, <1>5, <1>6 DEF E!Places

----------------------------------------------------------------------------
(* The invariant. *)

\* A configuration is loaded or refused, and nothing else happens.
LEMMA Loaded ==
  ASSUME E!LoadConfig
  PROVE  /\ step = "config" /\ UNCHANGED <<script, options, replaced>>
         /\ UNCHANGED <<model_file, metadata, model, E!run_state, E!generation_state, printed>>
         /\ \/ step' = (IF script = "smoke" THEN "verify" ELSE "git") /\ exit' = exit
            \/ step' = "ended" /\ exit' = 1
<1>1. /\ step = "config" /\ UNCHANGED <<script, options, replaced>>
      /\ UNCHANGED <<model_file, metadata, model, E!run_state, E!generation_state, printed>>
  BY DEF E!LoadConfig, E!At
<1>2. \E d : E!Load(d)
  BY Zenon DEF E!LoadConfig
<1> QED BY <1>1, <1>2 DEF E!Load, E!Goto, E!Raise

LEMMA LimitsKept ==
  ASSUME ConfigOK, script = "smoke", step \notin {"config", "ended"},
         UNCHANGED <<config, options>>
  PROVE  E!limit \in Int /\ E!limit' = E!limit
BY DEF ConfigOK, E!limit

LEMMA ControlStep ==
  ASSUME Control, E!ExperimentNext
  PROVE  Control'
<1> USE DEF Control, Steps, E!Goto, E!Raise, E!At, E!Running
<1>1. CASE \E s \in {"download", "smoke", "dummy"} : E!StartScript(s)
  BY <1>1 DEF E!StartScript
<1>2. CASE E!Fetch
  BY <1>2 DEF E!Fetch
<1>3. CASE E!LoadConfig
  BY <1>3, Loaded
<1>4. CASE E!read_model_metadata
  BY <1>4 DEF E!read_model_metadata
<1>5. CASE E!load_cpu_model
  BY <1>5 DEF E!load_cpu_model
<1>6. CASE E!Track
  BY <1>6 DEF E!Track, E!start_tracker, E!Inactive, E!TrackedNext
<1>7. CASE E!Prompt
  BY <1>7 DEF E!Prompt
<1>8. CASE E!Token
  BY <1>8 DEF E!Token, E!NextToken
<1>9. CASE E!Decode
  BY <1>9 DEF E!Decode
<1>10. CASE E!log
  BY <1>10 DEF E!log
<1>11. CASE E!finish
  BY <1>11 DEF E!finish
<1>12. CASE E!PrintResult
  BY <1>12 DEF E!PrintResult
<1>13. CASE E!Replace
  BY <1>13 DEF E!Replace
<1>14. CASE E!current_git_commit
  BY <1>14 DEF E!current_git_commit
<1> QED
  BY <1>1, <1>2, <1>3, <1>4, <1>5, <1>6, <1>7, <1>8, <1>9, <1>10, <1>11, <1>12, <1>13, <1>14
     DEF E!ExperimentNext, E!ScriptStep

LEMMA ConfigStep ==
  ASSUME Control, ConfigOK, E!ExperimentNext
  PROVE  ConfigOK'
<1> USE DEF ConfigOK, E!Goto, E!Raise, E!At
<1>1. CASE \E s \in {"download", "smoke", "dummy"} : E!StartScript(s)
  BY <1>1, LimitsAssumption DEF E!StartScript, E!OptionsOf
<1>2. CASE E!LoadConfig
  <2>1. UNCHANGED <<options, script>>
    BY <1>2 DEF E!LoadConfig
  <2>2. ASSUME script = "smoke", step' \notin {"config", "ended"}
        PROVE  /\ config'.max_tokens \in Int /\ config'.max_tokens > 0
               /\ ~E!negative(config'.temperature)
    <3>1. PICK document \in {E!Document, E!Tracked}, place \in E!Places,
               v \in E!Values \cup {E!Missing} :
            \E key \in E!KeysAt(place) : E!Load(E!Edited(document, place, key, v))
      BY <1>2, Zenon DEF E!LoadConfig
    <3>2. PICK key \in E!KeysAt(place) : E!Load(E!Edited(document, place, key, v))
      BY <3>1
    <3> DEFINE d == E!Edited(document, place, key, v)
    <3>3. d = E!Edited(document, place, key, v)
      OBVIOUS
    <3> HIDE DEF d
    <3>4. E!Load(d)
      BY <3>2, <3>3
    <3>5. E!load_experiment_config(d)
      BY <3>4, <2>2 DEF E!Load
    <3>6. /\ config'.max_tokens = d[2].generation[2].max_tokens[2]
          /\ config'.temperature = d[2].generation[2].temperature
      BY <3>4, <3>5, <2>2 DEF E!Load
    <3>7. d[2].generation[2].max_tokens[2] > 0 /\ ~E!negative(d[2].generation[2].temperature)
      BY <3>5 DEF E!load_experiment_config, E!positive_integer, E!temperature
    <3>8. d[2].generation[2].max_tokens[2] \in Int
      BY <3>3, <3>5, AcceptedLimit
    <3> QED BY <3>6, <3>7, <3>8
  <2> QED BY <2>1, <2>2
<1>3. CASE E!Fetch \/ E!read_model_metadata \/ E!load_cpu_model \/ E!current_git_commit
           \/ E!Track \/ E!Prompt \/ E!Token \/ E!Decode \/ E!log \/ E!finish \/ E!PrintResult \/ E!Replace
  <2>1. UNCHANGED <<options, config, script>>
    BY <1>3 DEF E!Fetch, E!read_model_metadata, E!load_cpu_model, E!current_git_commit,
       E!Track, E!Prompt, E!Token, E!Decode, E!log, E!finish, E!PrintResult, E!Replace
  <2>2. step \notin {"config", "ended"} \/ step' = step
    BY <1>3 DEF E!Fetch, E!read_model_metadata, E!load_cpu_model, E!current_git_commit,
       E!Track, E!Prompt, E!Token, E!Decode, E!log, E!finish, E!PrintResult, E!Replace
  <2> QED BY <2>1, <2>2
<1> QED BY <1>1, <1>2, <1>3 DEF E!ExperimentNext, E!ScriptStep

LEMMA ModelStep ==
  ASSUME Control, ModelOK, E!ExperimentNext
  PROVE  ModelOK'
<1> USE DEF ModelOK, Control, E!Goto, E!Raise, E!At, BeforeModel
<1>1. CASE \E s \in {"download", "smoke", "dummy"} : E!StartScript(s)
  BY <1>1 DEF E!StartScript
<1>2. CASE E!Fetch
  BY <1>2 DEF E!Fetch
<1>3. CASE E!LoadConfig
  BY <1>3, Loaded
<1>4. CASE E!read_model_metadata
  BY <1>4 DEF E!read_model_metadata, E!Verified
<1>5. CASE E!load_cpu_model
  BY <1>5 DEF E!load_cpu_model
<1>6. CASE E!Track
  BY <1>6 DEF E!Track, E!start_tracker, E!Inactive, E!TrackedNext
<1>7. CASE E!Prompt \/ E!Token \/ E!Decode
  BY <1>7 DEF E!Prompt, E!Token, E!NextToken, E!Decode
<1>8. CASE E!log \/ E!finish \/ E!PrintResult
  BY <1>8 DEF E!log, E!finish, E!PrintResult
<1>9. CASE E!Replace
  BY <1>9 DEF E!Replace
<1>10. CASE E!current_git_commit
  BY <1>10 DEF E!current_git_commit
<1> QED
  BY <1>1, <1>2, <1>3, <1>4, <1>5, <1>6, <1>7, <1>8, <1>9, <1>10
     DEF E!ExperimentNext, E!ScriptStep

LEMMA TokensStep ==
  ASSUME Control, ConfigOK, TokensOK, E!ExperimentNext
  PROVE  TokensOK'
<1> USE DEF TokensOK, Control, E!Goto, E!Raise, E!At, BeforeRun, BeforeModel
<1>1. CASE \E s \in {"download", "smoke", "dummy"} : E!StartScript(s)
  BY <1>1 DEF E!StartScript
<1>2. CASE E!Fetch \/ E!read_model_metadata \/ E!load_cpu_model \/ E!current_git_commit
  BY <1>2 DEF E!Fetch, E!read_model_metadata, E!load_cpu_model, E!current_git_commit,
     E!generation_state
<1>3. CASE E!LoadConfig
  BY <1>3, Loaded DEF E!generation_state
<1>4. CASE E!Track
  BY <1>4 DEF E!Track, E!start_tracker, E!Inactive, E!TrackedNext, E!generation_state
<1>5. CASE E!Prompt
  <2>1. UNCHANGED <<config, options, output_ids, yielded>>
    BY <1>5 DEF E!Prompt, E!generation_state
  <2>2. step = "prompt" /\ script' = script /\ output_ids = << >> /\ yielded = << >>
    BY <1>5 DEF E!Prompt
  <2>3. step' = "ended" \/ (step' = "token" /\ ~(E!limit <= 0))
    BY <1>5 DEF E!Prompt
  <2>4. << >> \in Seq(E!Tokens) /\ Len(<< >>) = 0
    OBVIOUS
  <2>5. ASSUME script = "smoke", step' = "token" PROVE 0 < E!limit'
    BY <2>1, <2>2, <2>3, <2>5, LimitsKept
  <2> QED BY <2>1, <2>2, <2>3, <2>4, <2>5
<1>6. CASE E!Token
  <2>1. /\ script = "smoke" /\ script' = script /\ step = "token"
        /\ UNCHANGED <<config, options>>
    BY <1>6 DEF E!Token
  <2>2. E!limit \in Int /\ E!limit' = E!limit
    BY <2>1, LimitsKept
  <2>3. /\ output_ids \in Seq(E!Tokens) /\ yielded = output_ids
        /\ Len(output_ids) < E!limit /\ Len(output_ids) \in Nat
    BY <2>1, LenProperties
  <2>4. CASE options.prompt + Len(output_ids) > ContextSize
    <3>1. step' = "ended"
      BY <1>6, <2>4 DEF E!Token
    <3> QED BY <3>1
  <2>5. CASE ~(options.prompt + Len(output_ids) > ContextSize)
    <3>1. PICK token \in E!Tokens \cup {E!EOS} : E!NextToken(token)
      BY <1>6, <2>5 DEF E!Token
    <3>2. CASE token = E!EOS
      BY <2>1, <2>2, <2>3, <3>1, <3>2 DEF E!NextToken
    <3>3. CASE token # E!EOS
      <4>1. output_ids' = Append(output_ids, token) /\ yielded' = output_ids'
        BY <2>3, <3>1, <3>3 DEF E!NextToken
      <4>2. output_ids' \in Seq(E!Tokens) /\ Len(output_ids') = Len(output_ids) + 1
        BY <4>1, <2>3, <3>1, <3>3, AppendProperties
      <4>3. step' = IF Len(output_ids) + 1 >= E!limit THEN "decode" ELSE "token"
        BY <3>1, <3>3 DEF E!NextToken
      <4> QED BY <2>1, <2>2, <2>3, <4>1, <4>2, <4>3
    <3> QED BY <3>2, <3>3
  <2> QED BY <2>4, <2>5
<1>7. CASE E!Decode \/ E!log \/ E!finish \/ E!PrintResult
  <2>1. /\ UNCHANGED <<config, options, output_ids, yielded, script>>
        /\ step \in {"decode", "log", "finish", "print"}
        /\ step' \in {"log", "finish", "print", "ended"}
    BY <1>7 DEF E!Decode, E!log, E!finish, E!PrintResult, E!generation_state
  <2>2. script = "smoke" => E!limit' = E!limit
    BY <2>1, LimitsKept
  <2> QED BY <2>1, <2>2
<1>8. CASE E!Replace
  <2>1. UNCHANGED <<script, step, config, options, output_ids, yielded>>
    BY <1>8 DEF E!Replace, E!generation_state
  <2> QED BY <2>1 DEF E!limit
<1> QED
  BY <1>1, <1>2, <1>3, <1>4, <1>5, <1>6, <1>7, <1>8 DEF E!ExperimentNext, E!ScriptStep

LEMMA RunStep ==
  ASSUME Control, RunOK, E!ExperimentNext
  PROVE  RunOK'
<1> USE DEF RunOK, Control, E!Goto, E!Raise, E!At, BeforeRun, BeforeModel, E!run_state,
        E!generation_state
<1>1. CASE \E s \in {"download", "smoke", "dummy"} : E!StartScript(s)
  <2>1. /\ step' \in {"fetch", "config"} /\ sdk_imported' = FALSE /\ tracker' = FALSE
        /\ wandb_run' = E!NoRun /\ raised' = {}
    BY <1>1 DEF E!StartScript
  <2>2. /\ DOMAIN E!NoRun = {"opened", "max_tokens", "file", "logged", "finished"}
        /\ E!NoRun.opened = FALSE /\ E!NoRun.finished = FALSE
    BY DEF E!NoRun
  <2> QED BY <2>1, <2>2
<1>2. CASE E!Fetch \/ E!load_cpu_model \/ E!current_git_commit
  BY <1>2 DEF E!Fetch, E!load_cpu_model, E!current_git_commit, E!NoRun
<1>3. CASE E!LoadConfig
  BY <1>3, Loaded DEF E!NoRun
<1>4. CASE E!read_model_metadata
  BY <1>4 DEF E!read_model_metadata, E!NoRun
<1>5. CASE E!Track
  <2>1. PICK mode, key, url, files : E!start_tracker(mode, key, url, files)
    BY <1>5, Zenon DEF E!Track
  <2>2. /\ step = "track" /\ UNCHANGED <<metadata, raised, output_ids>>
        /\ UNCHANGED <<script>>
    BY <1>5 DEF E!Track
  <2>3. /\ step' \in {"prompt", "log", "ended"}
        /\ \/ UNCHANGED <<tracker, wandb_run>>
           \/ tracker' = TRUE /\ wandb_run' = E!build_run_config
    BY <2>1 DEF E!start_tracker, E!Inactive, E!TrackedNext
  <2>4. wandb_run = E!NoRun /\ tracker = FALSE /\ raised = {}
    BY <2>2
  <2>5. CASE UNCHANGED <<tracker, wandb_run>>
    BY <2>2, <2>3, <2>4, <2>5 DEF E!NoRun
  <2>6. CASE tracker' = TRUE /\ wandb_run' = E!build_run_config
    BY <2>2, <2>3, <2>4, <2>6 DEF E!NoRun, E!build_run_config
  <2> QED BY <2>3, <2>5, <2>6
<1>6. CASE E!Prompt
  BY <1>6 DEF E!Prompt
<1>7. CASE E!Token
  BY <1>7 DEF E!Token, E!NextToken
<1>8. CASE E!Decode
  BY <1>8 DEF E!Decode
<1>9. CASE E!log
  <2>1. /\ step = "log" /\ step' = "finish" /\ tracker = wandb_run.opened
        /\ UNCHANGED <<tracker, metadata, output_ids>>
    BY <1>9 DEF E!log
  <2>2. CASE UNCHANGED wandb_run
    BY <1>9, <2>1, <2>2 DEF E!log
  <2>3. CASE /\ UNCHANGED raised
             /\ wandb_run' = [wandb_run EXCEPT !.logged = Append(@, Len(output_ids))]
    <3> DEFINE n == Len(output_ids)
    <3>0. n' = n /\ wandb_run' = [wandb_run EXCEPT !["logged"] = Append(@, n)]
      BY <2>1, <2>3, Zenon
    <3> HIDE DEF n
    <3>1. "logged" \in DOMAIN wandb_run /\ wandb_run.logged = << >>
      BY <2>1
    <3>2. Append(<< >>, n) = <<n>>
      OBVIOUS
    <3>3. /\ wandb_run' = [wandb_run EXCEPT !["logged"] = <<n>>]
      BY <3>0, <3>1, <3>2
    <3>4. /\ wandb_run'.logged = <<n>> /\ DOMAIN wandb_run' = DOMAIN wandb_run
          /\ wandb_run'.opened = wandb_run.opened /\ wandb_run'.finished = wandb_run.finished
          /\ wandb_run'.file = wandb_run.file
      BY <3>1, <3>3
    <3>5. wandb_run'.logged = <<Len(output_ids')>>
      BY <3>0, <3>4 DEF n
    <3>6. "log" \notin raised /\ "finish" \notin raised /\ UNCHANGED raised
      BY <2>1, <2>3
    <3> QED BY <2>1, <3>4, <3>5, <3>6
  <2> QED BY <1>9, <2>2, <2>3 DEF E!log
<1>10. CASE E!finish
  BY <1>10 DEF E!finish
<1>11. CASE E!PrintResult
  BY <1>11 DEF E!PrintResult
<1>12. CASE E!Replace
  BY <1>12 DEF E!Replace
<1> QED
  BY <1>1, <1>2, <1>3, <1>4, <1>5, <1>6, <1>7, <1>8, <1>9, <1>10, <1>11, <1>12
     DEF E!ExperimentNext, E!ScriptStep

LEMMA TruthfulStep ==
  ASSUME Control, ConfigOK, ModelOK, TokensOK, RunOK, E!RunTruthful, E!ExperimentNext
  PROVE  E!RunTruthful'
<1>1. CASE E!PrintResult /\ exit' # 1
  <2>1. /\ step = "print"
        /\ printed' = [ids |-> output_ids, file |-> metadata, tracking |-> wandb_run.opened]
        /\ UNCHANGED <<script, options, config, metadata, model, wandb_run, raised,
                       output_ids, yielded, replaced>>
    BY <1>1 DEF E!PrintResult, E!At, E!Raise, E!generation_state
  <2>2. script \in {"download", "smoke"} => printed'.file = "right"
    BY <2>1 DEF ModelOK
  <2>3. ASSUME script = "smoke"
        PROVE  /\ E!IsPrefix(output_ids, yielded) /\ E!EOS \notin E!Range(output_ids)
               /\ Len(output_ids) <= E!limit
               /\ E!EOS \in E!Range(yielded) \/ Len(output_ids) = E!limit
               /\ E!limit' = E!limit
               /\ replaced.since \/ model.file = metadata
    <3>1. E!limit \in Int /\ E!limit' = E!limit
      BY <2>1, <2>3, LimitsKept
    <3>2. /\ output_ids \in Seq(E!Tokens)
          /\ \/ yielded = output_ids /\ Len(output_ids) = E!limit
             \/ yielded = Append(output_ids, E!EOS) /\ Len(output_ids) <= E!limit
      BY <2>1, <2>3 DEF TokensOK
    <3>3. E!EOS \notin E!Range(output_ids)
      BY <3>2 DEF E!Range, E!EOS, E!Tokens
    <3>4. E!IsPrefix(output_ids, yielded)
      BY <3>2 DEF E!IsPrefix
    <3>5. E!EOS \in E!Range(yielded) \/ Len(output_ids) = E!limit
      BY <3>2 DEF E!Range
    <3>6. replaced.since \/ model.file = metadata
      BY <2>1, <2>3 DEF ModelOK, BeforeModel
    <3> QED BY <3>1, <3>2, <3>3, <3>4, <3>5, <3>6
  <2>4. wandb_run.opened =>
          /\ wandb_run.file = metadata
          /\ wandb_run.logged = IF "log" \in raised THEN << >> ELSE <<Len(output_ids)>>
          /\ wandb_run.finished = ("finish" \notin raised)
    BY <2>1 DEF RunOK
  <2> QED BY <2>1, <2>2, <2>3, <2>4 DEF E!RunTruthful, Control
<1>2. CASE E!Replace
  BY <1>2 DEF E!Replace, E!RunTruthful, E!limit, E!run_state, E!generation_state
<1>3. CASE \E s \in {"download", "smoke", "dummy"} : E!StartScript(s)
  BY <1>3 DEF E!StartScript, E!RunTruthful, E!Running
<1>4. CASE E!ScriptStep /\ ~(E!PrintResult /\ exit' # 1)
  <2>1. exit' \in {exit, 1} /\ exit = E!Running
    <3>1. exit' = exit \/ exit' = 1
      <4>1. CASE E!LoadConfig
        BY <4>1, Loaded
      <4>2. CASE E!Track
        BY <4>2, Zenon DEF E!Track, E!start_tracker, E!Inactive, E!Goto, E!Raise
      <4>3. CASE E!Fetch \/ E!read_model_metadata \/ E!load_cpu_model \/ E!current_git_commit
                 \/ E!Prompt \/ E!Token \/ E!Decode \/ E!log \/ E!finish
        BY <4>3, Zenon DEF E!Fetch, E!read_model_metadata, E!load_cpu_model,
           E!current_git_commit, E!Prompt, E!Token, E!NextToken, E!Decode, E!log, E!finish,
           E!Goto, E!Raise
      <4> QED BY <1>4, <4>1, <4>2, <4>3 DEF E!ScriptStep
    <3>2. step # "ended"
      <4>1. CASE E!LoadConfig
        BY <4>1, Loaded
      <4> QED BY <1>4, <4>1 DEF E!ScriptStep, E!Fetch, E!read_model_metadata, E!load_cpu_model,
            E!current_git_commit, E!Track, E!Prompt, E!Token, E!Decode, E!log, E!finish,
            E!PrintResult, E!At
    <3> QED BY <3>1, <3>2 DEF Control
  <2> QED BY <2>1 DEF E!RunTruthful, E!Running
<1> QED BY <1>1, <1>2, <1>3, <1>4 DEF E!ExperimentNext

\* What the lookup of credentials may find, and when it raises.
LEMMA CredentialKinds ==
  ASSUME NEW key \in BOOLEAN, NEW url, NEW files,
         NEW credentials, credentials = E!has_online_credentials(key, url, files)
  PROVE  /\ credentials \in {"key", "netrc", "none", "error"}
         /\ credentials = "error" =>
              url = "malformed" \/ files = << >> \/ "undecodable" \in E!Range(files)
<1> DEFINE password == \E i \in DOMAIN files : /\ files[i] = "password"
                                              /\ \A j \in 1 .. i : files[j] # "undecodable"
           unread == files = << >> \/ "undecodable" \in E!Range(files)
<1>1. credentials = CASE key -> "key"
                      [] ~key /\ url = "malformed" -> "error"
                      [] ~key /\ url = "no host" -> "none"
                      [] OTHER -> IF password THEN "netrc" ELSE IF unread THEN "error" ELSE "none"
  BY DEF E!has_online_credentials
<1> HIDE DEF password, unread
<1>2. /\ credentials \in {"key", "netrc", "none", "error"}
      /\ credentials = "error" => url = "malformed" \/ unread
  BY <1>1
<1> QED BY <1>2 DEF unread

LEMMA LeaveStep ==
  ASSUME Control, RunOK, E!SdkWithLeave, E!ExperimentNext
  PROVE  E!SdkWithLeave'
<1>1. CASE \E s \in {"download", "smoke", "dummy"} : E!StartScript(s)
  BY <1>1 DEF E!StartScript, E!SdkWithLeave
<1>2. CASE E!Track
  <2>1. PICK mode \in Modes, key \in BOOLEAN, url \in BaseUrls,
             files \in E!SeqOf(E!NetrcFiles, 2) : E!start_tracker(mode, key, url, files)
    BY <1>2, Zenon DEF E!Track
  <2>2. step = "track" /\ ~sdk_imported /\ UNCHANGED config
    BY <1>2 DEF E!Track, E!At, RunOK, BeforeRun
  <2> DEFINE credentials == E!has_online_credentials(key, url, files)
             offline == mode \in {"offline", "dryrun"}
  <2>3. environment'.mode = mode /\ environment'.credentials = credentials
    BY <2>1 DEF E!start_tracker
  <2>4. sdk_imported' => /\ config.enabled /\ mode # "disabled"
                         /\ offline \/ credentials \notin {"error", "none"}
    BY <2>1, <2>2 DEF E!start_tracker, E!Inactive
  <2>5. credentials \in {"key", "netrc", "none", "error"}
    BY CredentialKinds
  <2> HIDE DEF credentials
  <2> QED BY <2>2, <2>3, <2>4, <2>5 DEF E!SdkWithLeave
<1>3. CASE E!LoadConfig
  BY <1>3, Loaded DEF E!run_state, RunOK, BeforeRun, BeforeModel, E!SdkWithLeave
<1>4. CASE E!Fetch \/ E!read_model_metadata \/ E!load_cpu_model \/ E!current_git_commit
           \/ E!Prompt \/ E!Token \/ E!Decode \/ E!log \/ E!finish \/ E!PrintResult
           \/ E!Replace
  <2>1. UNCHANGED <<sdk_imported, environment, config>>
    BY <1>4 DEF E!Fetch, E!read_model_metadata, E!load_cpu_model, E!current_git_commit,
       E!Prompt, E!Token, E!Decode, E!log, E!finish, E!PrintResult, E!Replace, E!run_state
  <2> QED BY <2>1 DEF E!SdkWithLeave
<1> QED BY <1>1, <1>2, <1>3, <1>4 DEF E!ExperimentNext, E!ScriptStep

\* The start of tracking raises only where credentials cannot be read.
LEMMA TrackRaises ==
  ASSUME Control, E!Track, exit' = 1
  PROVE  E!Unreadable'
<1>1. PICK mode \in Modes, key \in BOOLEAN, url \in BaseUrls,
           files \in E!SeqOf(E!NetrcFiles, 2) : E!start_tracker(mode, key, url, files)
  BY Zenon DEF E!Track
<1>2. exit = 2 /\ UNCHANGED config
  BY DEF E!Track, E!At, Control, E!Running
<1> DEFINE credentials == E!has_online_credentials(key, url, files)
           readable == url # "malformed" /\ files # << >> /\ "undecodable" \notin E!Range(files)
<1>3. /\ environment'.mode = mode /\ environment'.credentials = credentials
      /\ environment'.readable = readable
  BY <1>1 DEF E!start_tracker
<1>4. /\ config.enabled /\ mode \notin {"disabled", "offline", "dryrun"}
      /\ credentials = "error"
  BY <1>1, <1>2 DEF E!start_tracker, E!Inactive, E!Goto
<1>5. credentials = "error" => ~readable
  BY CredentialKinds
<1> HIDE DEF credentials, readable
<1> QED BY <1>2, <1>3, <1>4, <1>5 DEF E!Unreadable

\* Only ScriptStep moves exit; what it may raise after the model was loaded.
LEMMA Suffices ==
  ASSUME Control, ConfigOK, ModelOK, TokensOK, E!ConfigSuffices, E!ExperimentNext
  PROVE  E!ConfigSuffices'
<1> USE DEF Control, E!Goto, E!Raise, E!At, E!Running
<1>1. CASE \E s \in {"download", "smoke", "dummy"} : E!StartScript(s)
  BY <1>1 DEF E!StartScript, E!ConfigSuffices
<1>2. CASE E!Fetch \/ E!LoadConfig \/ E!read_model_metadata
  <2>1. step \in BeforeModel /\ UNCHANGED model
    BY <1>2, Loaded DEF E!Fetch, E!read_model_metadata, BeforeModel
  <2> QED BY <2>1 DEF ModelOK, E!ConfigSuffices
<1>3. CASE E!load_cpu_model
  <2>1. exit' # 1 \/ UNCHANGED model
    BY <1>3 DEF E!load_cpu_model
  <2>2. step \in BeforeModel
    BY <1>3 DEF E!load_cpu_model, BeforeModel
  <2> QED BY <2>1, <2>2 DEF ModelOK, E!ConfigSuffices
<1>4. CASE E!Track
  <2>1. exit' = 1 => E!Unreadable'
    BY <1>4, TrackRaises
  <2> QED BY <2>1, Zenon DEF E!ConfigSuffices
<1>5. CASE E!Prompt
  <2>1. /\ step = "prompt" /\ script = "smoke" /\ UNCHANGED <<model, options>>
        /\ exit' = 1 => \/ options.prompt = 0 \/ E!limit <= 0
                       \/ E!negative(config.temperature) \/ ~model.template
    <3>1. step = "prompt" /\ UNCHANGED <<model, options>>
      BY <1>5 DEF E!Prompt
    <3>2. CASE \/ options.prompt = 0 \/ E!limit <= 0
               \/ E!negative(config.temperature) \/ ~model.template
      BY <3>1, <3>2, Zenon
    <3>3. CASE ~(\/ options.prompt = 0 \/ E!limit <= 0
                 \/ E!negative(config.temperature) \/ ~model.template)
      <4>1. exit' = exit
        BY <1>5, <3>3, Zenon DEF E!Prompt
      <4>2. exit' # 1
        BY <4>1, <3>1
      <4> QED BY <3>1, <4>2
    <3> QED BY <3>2, <3>3
  <2>2. ~E!negative(config.temperature) /\ config.max_tokens \in Int /\ config.max_tokens > 0
    BY <2>1 DEF ConfigOK
  <2>3. E!limit <= 0 => options.max_tokens # None /\ options.max_tokens <= 0
    <3>1. CASE options.max_tokens = None
      BY <2>2, <3>1 DEF E!limit
    <3>2. CASE options.max_tokens # None
      <4>1. E!limit = options.max_tokens
        BY <3>2 DEF E!limit
      <4> QED BY <3>2, <4>1
    <3> QED BY <3>1, <3>2
  <2>4. exit' = 1 => \/ options'.prompt = 0
                     \/ options'.max_tokens # None /\ options'.max_tokens <= 0
                     \/ ~model'.template
    BY <2>1, <2>2, <2>3, Zenon
  <2> QED BY <2>4, Zenon DEF E!ConfigSuffices
<1>6. CASE E!Decode
  <2>1. exit' = 1 => ~E!Decodable(output_ids)
    BY <1>6 DEF E!Decode
  <2>2. UNCHANGED output_ids
    BY <1>6 DEF E!Decode, E!generation_state
  <2>3. exit' = 1 => ~E!Decodable(output_ids')
    BY <2>1, <2>2
  <2> QED BY <2>3 DEF E!ConfigSuffices, E!Decodable
<1>7. CASE E!log \/ E!finish
  <2>1. exit' # 1
    BY <1>7 DEF E!log, E!finish
  <2> QED BY <2>1 DEF E!ConfigSuffices
<1>8. CASE E!Replace
  <2>1. UNCHANGED <<exit, model, options, config, output_ids, raised, environment>>
    BY <1>8 DEF E!Replace, E!generation_state, E!run_state
  <2>2. UNCHANGED E!limit /\ UNCHANGED E!Unreadable
    BY <2>1 DEF E!limit, E!Unreadable
  <2> QED BY <2>1, <2>2 DEF E!ConfigSuffices, E!Decodable
<1>9. CASE E!Token
  <2>1. step = "token" /\ script = "smoke" /\ UNCHANGED <<options, config>>
    BY <1>9 DEF E!Token
  <2>2. CASE options.prompt + Len(output_ids) > ContextSize
    <3>1. /\ E!limit \in Int /\ E!limit' = E!limit /\ options.prompt \in Nat
          /\ Len(output_ids) < E!limit /\ Len(output_ids) \in Nat
      BY <2>1, LimitsKept, LenProperties DEF TokensOK, ConfigOK
    <3>2. options.prompt + E!limit > ContextSize + 1
      BY ONLY <2>2, <3>1, LimitsAssumption
    <3>3. options'.prompt + E!limit' > ContextSize + 1
      BY <2>1, <3>1, <3>2
    <3> QED BY <3>3, Zenon DEF E!ConfigSuffices
  <2>3. CASE ~(options.prompt + Len(output_ids) > ContextSize)
    <3>1. exit' # 1
      BY <1>9, <2>3 DEF E!Token, E!NextToken
    <3> QED BY <3>1 DEF E!ConfigSuffices
  <2> QED BY <2>2, <2>3
<1>10. CASE E!current_git_commit \/ E!PrintResult
  <2>1. exit' = 1 => raised' \cap {"git", "print"} # {}
    BY <1>10 DEF E!current_git_commit, E!PrintResult
  <2> QED BY <2>1, Zenon DEF E!ConfigSuffices
<1> QED
  BY <1>1, <1>2, <1>3, <1>4, <1>5, <1>6, <1>7, <1>8, <1>9, <1>10
     DEF E!ExperimentNext, E!ScriptStep

\* Tracking touches nothing, and stops nothing but where credentials cannot be read.
LEMMA TrackingStep ==
  ASSUME Control, E!ExperimentNext, step \in {"track", "log", "finish"}
  PROVE  /\ exit' = 1 => step = "track" /\ E!Unreadable'
         /\ UNCHANGED <<model, metadata, output_ids>>
<1> USE DEF Control, E!Goto, E!Raise, E!At, E!Running
<1>1. exit = 2
  OBVIOUS
<1>2. CASE E!Track
  <2>1. exit' = 1 => E!Unreadable'
    BY <1>2, TrackRaises
  <2>2. step = "track" /\ UNCHANGED <<model, metadata, output_ids>>
    BY <1>2 DEF E!Track, E!generation_state
  <2> QED BY <2>1, <2>2
<1>3. CASE E!log \/ E!finish
  BY <1>1, <1>3 DEF E!log, E!finish, E!generation_state
<1>4. CASE E!Replace
  BY <1>1, <1>4 DEF E!Replace, E!generation_state
<1>5. ~\E s \in {"download", "smoke", "dummy"} : E!StartScript(s)
  BY DEF E!StartScript
<1>6. ~E!LoadConfig
  BY Loaded
<1>7. ~(E!Fetch \/ E!read_model_metadata \/ E!load_cpu_model \/ E!current_git_commit
        \/ E!Prompt \/ E!Token \/ E!Decode \/ E!PrintResult)
  BY DEF E!Fetch, E!read_model_metadata, E!load_cpu_model, E!current_git_commit, E!Prompt, E!Token, E!Decode,
     E!PrintResult
<1> QED BY <1>2, <1>3, <1>4, <1>5, <1>6, <1>7 DEF E!ExperimentNext, E!ScriptStep

----------------------------------------------------------------------------
(* The programs together. *)

LEMMA ExperimentStarts ==
  ASSUME MCInit
  PROVE  ExperimentInv /\ E!ConfigSuffices
<1>1. E!ExperimentInit
  BY DEF MCInit
<1>2. Control /\ ConfigOK /\ ModelOK /\ TokensOK
  BY <1>1 DEF E!ExperimentInit, Control, Steps, ConfigOK, ModelOK, TokensOK, BeforeModel, BeforeRun
<1>3. RunOK
  BY <1>1 DEF E!ExperimentInit, E!NoRun, RunOK, BeforeRun, BeforeModel
<1> QED
  BY <1>1, <1>2, <1>3 DEF E!ExperimentInit, ExperimentInv, E!RunTruthful, E!SdkWithLeave,
     E!ConfigSuffices

LEMMA ExperimentSteps ==
  ASSUME ExperimentInv, [MCNext]_allvars
  PROVE  ExperimentInv'
<1>1. CASE E!ExperimentNext
  BY <1>1, ControlStep, ConfigStep, ModelStep, TokensStep, RunStep, TruthfulStep, LeaveStep
     DEF ExperimentInv
<1>2. CASE UNCHANGED experiment
  <2>1. Control' /\ ConfigOK' /\ ModelOK' /\ RunOK'
    BY <1>2 DEF experiment, ExperimentInv, Control, ConfigOK, ModelOK, RunOK
  <2>2. TokensOK'
    BY <1>2 DEF experiment, ExperimentInv, TokensOK, E!limit
  <2>3. E!RunTruthful' /\ E!SdkWithLeave'
    BY <1>2 DEF experiment, ExperimentInv, E!RunTruthful, E!limit, E!SdkWithLeave
  <2> QED BY <2>1, <2>2, <2>3 DEF ExperimentInv
<1> QED BY <1>1, <1>2 DEF MCNext, allvars

LEMMA ExperimentAlways == MCSpec => []ExperimentInv
<1>1. MCInit => ExperimentInv
  BY ExperimentStarts
<1>2. ExperimentInv /\ [MCNext]_allvars => ExperimentInv'
  BY ExperimentSteps
<1> QED BY <1>1, <1>2, PTL DEF MCSpec

\* A script of the experiment that succeeds printed the tokens it was handed and named
\* the file it hashed, and recorded the same; that file is the one it loaded unless it
\* was replaced in between.
THEOREM SuccessIsTruthful == MCSpec => []RunTruthful
<1>1. ExperimentInv => RunTruthful
  BY DEF ExperimentInv, RunTruthful
<1> QED BY <1>1, ExperimentAlways, PTL

\* What stops an experiment with a model loaded is its command line, the GGUF, a
\* prompt and a limit beyond the context, git, unreadable credentials or its output:
\* never a configuration that was accepted.
THEOREM AcceptedIsEnough == MCSpec => []ConfigSuffices
<1>1. MCInit => ConfigSuffices
  BY ExperimentStarts DEF ConfigSuffices
<1>2. ExperimentInv /\ ConfigSuffices /\ [MCNext]_allvars => ConfigSuffices'
  <2>1. ASSUME ExperimentInv, ConfigSuffices, E!ExperimentNext PROVE ConfigSuffices'
    BY <2>1, Suffices DEF ExperimentInv, ConfigSuffices
  <2>2. ASSUME ConfigSuffices, UNCHANGED experiment PROVE ConfigSuffices'
    BY <2>2 DEF ConfigSuffices, E!ConfigSuffices, E!Decodable, E!limit, E!Unreadable, experiment
  <2> QED BY <2>1, <2>2 DEF MCNext, allvars
<1> QED BY <1>1, <1>2, ExperimentAlways, PTL DEF MCSpec

\* W&B touches no result of an experiment and stops one only where it starts and
\* credentials cannot be read; its SDK is used with leave and credentials only.
THEOREM TrackingIsHarmless == MCSpec => TrackingHarmless
<1> DEFINE Harmless ==
             (step \in {"track", "log", "finish"}) =>
               /\ exit' = 1 => step = "track" /\ E!Unreadable'
               /\ UNCHANGED <<model, metadata, output_ids>>
<1>1. ExperimentInv => E!SdkWithLeave
  BY DEF ExperimentInv
<1>2. ExperimentInv /\ [MCNext]_allvars => [Harmless]_experiment
  <2>1. ASSUME ExperimentInv, E!ExperimentNext PROVE Harmless
    BY <2>1, TrackingStep DEF ExperimentInv
  <2> HIDE DEF Harmless
  <2> QED BY <2>1 DEF MCNext, allvars
<1> HIDE DEF Harmless
<1>3. MCSpec => [][Harmless]_experiment
  BY <1>2, ExperimentAlways, PTL DEF MCSpec
<1>4. MCSpec => []E!SdkWithLeave
  BY <1>1, ExperimentAlways, PTL
<1> QED
  BY <1>3, <1>4 DEF Harmless, TrackingHarmless, E!TrackingHarmless, experiment, E!experiment
=============================================================================
