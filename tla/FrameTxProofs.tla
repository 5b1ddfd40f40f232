--------------------------- MODULE FrameTxProofs ---------------------------
(***************************************************************************)
(* Proofs about the frame transmitter for every byte radix, payload bound, *)
(* CRC function and source of frames: no protected byte is refused by the  *)
(* CRC engine, its result comes while it is awaited, and what leaves for a *)
(* frame is its encoding.                                                  *)
(***************************************************************************)
EXTENDS FrameTxWire, FrameV0Proofs

HeaderStates == {"SOF_0", "SOF_1", "HEADER"}
FeedStates == {"HEADER", "PAYLOAD", "WAIT_CRC"}

\* The control of the transmitter: what is left of the payload while the header
\* leaves, where a protected byte may be on its way to the engine, and when the
\* engine's result is there.
Control ==
  /\ TypeOK
  /\ state \in HeaderStates => payload_remaining = Value(payload_length)
  /\ state = "PAYLOAD" => payload_remaining >= 1
  /\ crc_feed.valid => state \in FeedStates
  /\ crc_feed.valid /\ crc_feed.last => state = "WAIT_CRC"
  /\ ResultInTime

\* The registers hold the header of the job, and what was taken of its payload
\* is what does not remain.
OfJob ==
  /\ job \in Frame
  /\ used \in Nat
  /\ state # "IDLE" =>
       /\ message_type = job.type /\ flags = job.flags
       /\ payload_length = Pair(Len(job.payload))
       /\ used = IF state = "PAYLOAD" THEN Len(job.payload) - payload_remaining
                 ELSE IF state \in HeaderStates THEN 0 ELSE Len(job.payload)

\* How many bytes have left in this state.
HasLeft ==
  CASE state = "SOF_0" -> 0
    [] state = "SOF_1" -> 1
    [] state = "HEADER" -> 2 + header_index
    [] state = "PAYLOAD" -> 8 + used
    [] state = "WAIT_CRC" -> 8 + Len(job.payload)
    [] state = "CRC" -> 8 + Len(job.payload) + crc_index

\* They are the first bytes of the encoding.
SentFirst ==
  /\ sent \in Seq(Byte)
  /\ state # "IDLE" =>
       /\ Len(sent) = HasLeft
       /\ \A i \in 1 .. Len(sent) : sent[i] = Encode(job)[i]
  /\ state = "IDLE" /\ job # NoJob => sent = Encode(job) /\ used = Len(job.payload)

\* The number of protected bytes that have left.
protected == Len(sent) - 2

\* The register of the engine lags one byte behind when the feed register is
\* full, and its result is the CRC of the job.
CrcFollows ==
  /\ state \in FeedStates =>
       IF crc_feed.valid
       THEN /\ protected >= 1
            /\ crc_feed.data = Protected(job)[protected]
            /\ crc_feed.start = (protected = 1)
            /\ crc_feed.last = (protected = 6 + Len(job.payload))
            /\ protected > 1 =>
                 crc_state = CrcAfter(SubSeq(Protected(job), 1, protected - 1))
       ELSE protected >= 1 => crc_state = CrcAfter(SubSeq(Protected(job), 1, protected))
  /\ crc_output_valid \/ state = "CRC" => crc_output = CrcOver(Protected(job))

IInv == Control /\ OfJob /\ SentFirst /\ CrcFollows

----------------------------------------------------------------------------
(* The control of the transmitter. *)

\* Zero is a byte.
LEMMA ZeroByte == 0 \in Byte /\ <<0, 0>> \in TwoBytes /\ <<0, 0, 0, 0>> \in FourBytes
BY ByteAssumption DEF Byte, TwoBytes, FourBytes

\* What the engine makes of a cycle: it takes the byte in the feed register, or
\* rests.  It never refuses one.
LEMMA EngineStep ==
  ASSUME Control, CrcClock
  PROVE  /\ crc_feed.valid => /\ crc_state' = CrcStep(CRC!PacketCrc(crc_feed.start), crc_feed.data)
                              /\ crc_output_valid' = crc_feed.last
                              /\ crc_output' = IF crc_feed.last THEN CrcBytes(crc_state') ELSE crc_output
         /\ ~crc_feed.valid => /\ crc_state' = crc_state
                               /\ crc_output_valid' = FALSE
                               /\ crc_output' = crc_output
         /\ crc_state' \in Crc /\ crc_output_valid' \in BOOLEAN /\ crc_output' \in FourBytes
<1>1. crc_feed.valid => CRC!input_ready(FALSE, crc_result_ready)
  BY DEF Control, TypeOK, ResultInTime, CRC!input_ready, crc_result_ready, FeedStates
<1>2. crc_feed.valid \in BOOLEAN /\ crc_feed.data \in Byte /\ crc_feed.last \in BOOLEAN
      /\ crc_feed.start \in BOOLEAN
  BY DEF Control, TypeOK, Feed
<1>3. crc_state \in Crc /\ crc_output \in FourBytes /\ crc_output_valid \in BOOLEAN
      /\ (crc_output_valid => state = "WAIT_CRC")
  BY DEF Control, TypeOK, ResultInTime
<1>4. CASE crc_feed.valid
  <2>1. /\ crc_state' = CrcStep(CRC!PacketCrc(crc_feed.start), crc_feed.data)
        /\ crc_output_valid' = crc_feed.last
        /\ crc_output' = IF crc_feed.last THEN CrcBytes(crc_state') ELSE crc_output
    BY <1>1, <1>4 DEF CrcClock, CRC!Clock, CRC!Take
  <2>2. CRC!PacketCrc(crc_feed.start) \in Crc
    BY <1>3, CrcAssumption DEF CRC!PacketCrc
  <2>3. crc_state' \in Crc
    BY <1>2, <2>1, <2>2, CrcAssumption
  <2> QED BY <1>2, <1>3, <1>4, <2>1, <2>3, CrcAssumption
<1>5. CASE ~crc_feed.valid
  BY <1>3, <1>5 DEF CrcClock, CRC!Clock, CRC!Rest, crc_result_ready
<1> QED BY <1>4, <1>5

\* What the transmitter shows is a byte.
LEMMA OutDataType ==
  ASSUME Control, NEW d \in Byte
  PROVE  out_data(d) \in Byte
<1>1. state = "HEADER" => header_byte \in Byte
  BY ByteAssumption DEF Control, TypeOK, header_byte, TwoBytes
<1>2. state = "CRC" => crc_output[crc_index + 1] \in Byte
  BY DEF Control, TypeOK, FourBytes
<1> QED BY <1>1, <1>2, ZeroByte, ByteAssumption DEF out_data

\* The feed register in the next cycle.
LEMMA FeedStep ==
  ASSUME Control, NEW s \in BOOLEAN, NEW d \in Byte, FeedNext(s, d)
  PROVE  /\ crc_feed' \in Feed
         /\ s /\ state \in {"HEADER", "PAYLOAD"} =>
              /\ crc_feed'.valid /\ crc_feed'.data = d
              /\ crc_feed'.start = (state = "HEADER" /\ header_index = 0)
              /\ crc_feed'.last = LastProtected
         /\ ~(s /\ state \in {"HEADER", "PAYLOAD"}) => ~crc_feed'.valid
<1>1. LastProtected \in BOOLEAN
  BY DEF LastProtected
<1>2. crc_feed \in Feed
  BY DEF Control, TypeOK
<1>3. CASE s /\ state \in {"HEADER", "PAYLOAD"}
  BY <1>1, <1>3 DEF FeedNext, Feed
<1>4. CASE ~(s /\ state \in {"HEADER", "PAYLOAD"})
  BY <1>2, <1>4 DEF FeedNext, Feed
<1> QED BY <1>3, <1>4

\* Control is preserved by every cycle.
LEMMA ControlStep ==
  ASSUME TxAssumption, Control,
         NEW frame_valid \in BOOLEAN, NEW type \in Byte,
         NEW fl \in TwoBytes, NEW length \in TwoBytes,
         NEW payload_valid \in BOOLEAN, NEW d \in Byte, NEW out_ready \in BOOLEAN,
         Clock(frame_valid, type, fl, length, payload_valid, d, out_ready)
  PROVE  Control'
<1> DEFINE leaves == out_valid(payload_valid) /\ out_ready
           Registers ==
             /\ state' \in States
             /\ header_index' \in 0 .. 5 /\ crc_index' \in 0 .. 3
             /\ message_type' \in Byte /\ flags' \in TwoBytes /\ payload_length' \in TwoBytes
             /\ payload_remaining' \in 0 .. MAX_PAYLOAD_BYTES
             /\ length_errors' \in 0 .. COUNTER_MODULUS - 1
             /\ state' \in HeaderStates => payload_remaining' = Value(payload_length')
             /\ state' = "PAYLOAD" => payload_remaining' >= 1
           Results ==
             /\ crc_feed'.valid => state' \in FeedStates
             /\ crc_feed'.valid /\ crc_feed'.last => state' = "WAIT_CRC"
             /\ crc_output_valid' => state' = "WAIT_CRC"
             /\ state' = "WAIT_CRC" =>
                  crc_output_valid' # (crc_feed'.valid /\ crc_feed'.last)
<1>1. /\ header_index \in 0 .. 5 /\ crc_index \in 0 .. 3
      /\ message_type \in Byte /\ flags \in TwoBytes /\ payload_length \in TwoBytes
      /\ payload_remaining \in 0 .. MAX_PAYLOAD_BYTES
      /\ length_errors \in 0 .. COUNTER_MODULUS - 1
      /\ state \in States
      /\ MAX_PAYLOAD_BYTES \in Nat /\ COUNTER_MODULUS \in Nat
  BY PayloadAssumption DEF Control, TypeOK, TxAssumption
<1>2. /\ state \in HeaderStates => payload_remaining = Value(payload_length)
      /\ state = "PAYLOAD" => payload_remaining >= 1
  BY DEF Control
<1>3. /\ crc_feed.valid => state \in FeedStates
      /\ crc_feed.valid /\ crc_feed.last => state = "WAIT_CRC"
      /\ crc_output_valid => state = "WAIT_CRC"
      /\ state = "WAIT_CRC" => crc_output_valid # (crc_feed.valid /\ crc_feed.last)
      /\ crc_feed.valid \in BOOLEAN /\ crc_feed.last \in BOOLEAN /\ crc_output_valid \in BOOLEAN
  BY DEF Control, ResultInTime, TypeOK, Feed
<1>4. /\ crc_feed.valid => crc_output_valid' = crc_feed.last
      /\ ~crc_feed.valid => crc_output_valid' = FALSE
      /\ crc_state' \in Crc /\ crc_output_valid' \in BOOLEAN /\ crc_output' \in FourBytes
  BY EngineStep DEF Clock
<1>5. leaves \in BOOLEAN /\ FeedNext(leaves, out_data(d))
  BY DEF Clock, out_valid
<1>6. /\ crc_feed' \in Feed
      /\ leaves /\ state \in {"HEADER", "PAYLOAD"} =>
           crc_feed'.valid /\ crc_feed'.last = LastProtected
      /\ ~(leaves /\ state \in {"HEADER", "PAYLOAD"}) => ~crc_feed'.valid
  <2>1. out_data(d) \in Byte
    BY OutDataType
  <2> HIDE DEF leaves
  <2> QED BY <1>5, <2>1, FeedStep
<1>7. Value(length) \in Nat /\ Value(payload_length) \in Nat
  BY <1>1, ValueType
<1>8. /\ state = "IDLE" => IF frame_valid THEN Accept(type, fl, length) ELSE Stall
      /\ state = "WAIT_CRC" => WaitCrc
      /\ state \notin {"IDLE", "WAIT_CRC"} =>
           IF leaves THEN StartOfFrame \/ Header \/ Payload \/ CrcByte ELSE Stall
  BY DEF Clock, frame_ready, crc_result_ready
<1>9. leaves => state \notin {"IDLE", "WAIT_CRC"}
  BY DEF out_valid
<1> HIDE DEF leaves
<1> SUFFICES Registers /\ Results
  BY <1>4, <1>6 DEF Control, TypeOK, ResultInTime
<1>10. CASE Stall /\ ~leaves /\ state # "WAIT_CRC"
  <2>1. Registers
    BY <1>1, <1>2, <1>10 DEF Stall, frame
  <2>2. Results
    <3>1. UNCHANGED state
      BY <1>10 DEF Stall
    <3> QED BY <1>3, <1>4, <1>6, <1>10, <3>1
  <2> QED BY <2>1, <2>2
<1>11. CASE Accept(type, fl, length)
  <2>1. Registers
    BY <1>1, <1>2, <1>7, <1>11 DEF Accept, Goto, frame, States, HeaderStates
  <2>2. Results
    <3>1. state = "IDLE" /\ state' \in {"IDLE", "SOF_0"}
      BY <1>11 DEF Accept, Goto
    <3> QED BY <1>3, <1>4, <1>6, <3>1 DEF FeedStates
  <2> QED BY <2>1, <2>2
<1>12. CASE WaitCrc
  <2>1. Registers
    BY <1>1, <1>2, <1>12 DEF WaitCrc, Goto, frame, States, HeaderStates
  <2>2. Results
    BY <1>3, <1>4, <1>6, <1>12 DEF WaitCrc, Goto, FeedStates
  <2> QED BY <2>1, <2>2
<1>13. CASE leaves /\ StartOfFrame
  <2>1. Registers
    BY <1>1, <1>2, <1>13 DEF StartOfFrame, Goto, frame, States, HeaderStates
  <2>2. Results
    BY <1>3, <1>4, <1>6, <1>13 DEF StartOfFrame, Goto, FeedStates
  <2> QED BY <2>1, <2>2
<1>14. CASE leaves /\ Header
  <2>1. Registers
    BY <1>1, <1>2, <1>7, <1>14 DEF Header, Goto, frame, States, HeaderStates
  <2>2. Results
    BY <1>3, <1>4, <1>6, <1>14 DEF Header, Goto, FeedStates, LastProtected
  <2> QED BY <2>1, <2>2
<1>15. CASE leaves /\ Payload
  <2>1. Registers
    BY <1>1, <1>2, <1>15 DEF Payload, Goto, frame, States, HeaderStates
  <2>2. Results
    BY <1>3, <1>4, <1>6, <1>15 DEF Payload, Goto, FeedStates, LastProtected
  <2> QED BY <2>1, <2>2
<1>16. CASE leaves /\ CrcByte
  <2>1. Registers
    BY <1>1, <1>2, <1>16 DEF CrcByte, Goto, frame, States, HeaderStates
  <2>2. Results
    BY <1>3, <1>4, <1>6, <1>16 DEF CrcByte, Goto, FeedStates
  <2> QED BY <2>1, <2>2
<1> QED BY <1>8, <1>9, <1>10, <1>11, <1>12, <1>13, <1>14, <1>15, <1>16

\* Control holds at the beginning and after a reset.
LEMMA ControlInit == TxAssumption /\ Init => Control
<1>1. NoFeed \in Feed /\ NoFeed.valid = FALSE
  BY ZeroByte DEF NoFeed, Feed
<1>2. 0 \in 0 .. 5 /\ 0 \in 0 .. 3 /\ 0 \in 0 .. MAX_PAYLOAD_BYTES /\ CRC_INITIAL \in Crc
  BY PayloadAssumption, CrcAssumption
<1>3. TxAssumption => 0 \in 0 .. COUNTER_MODULUS - 1
  BY DEF TxAssumption
<1> QED BY <1>1, <1>2, <1>3, ZeroByte
        DEF Init, CRC!Init, Control, TypeOK, ResultInTime, States, HeaderStates, FeedStates

\* A reset gives up what was under way.
LEMMA ControlReset == TxAssumption /\ Reset => Control'
<1>1. NoFeed \in Feed /\ NoFeed.valid = FALSE
  BY ZeroByte DEF NoFeed, Feed
<1>2. 0 \in 0 .. 5 /\ 0 \in 0 .. 3 /\ 0 \in 0 .. MAX_PAYLOAD_BYTES /\ CRC_INITIAL \in Crc
  BY PayloadAssumption, CrcAssumption
<1>3. TxAssumption => 0 \in 0 .. COUNTER_MODULUS - 1
  BY DEF TxAssumption
<1> QED BY <1>1, <1>2, <1>3, ZeroByte
        DEF Reset, Goto, CRC!Clear, Control, TypeOK, ResultInTime, States, HeaderStates

\* Nothing changes between two clock edges.
LEMMA ControlStutter == Control /\ UNCHANGED vars => Control'
BY DEF vars, frame, engine, Control, TypeOK, ResultInTime

\* For every COUNTER_MODULUS other than zero, byte radix, payload bound and CRC
\* function (frame_tx.sv has 2^32, 256, 4096 and CRC-32C), the registers stay in
\* their types, the CRC engine never refuses a byte of the feed register, and its
\* result is there exactly when the transmitter waits for it.
THEOREM ControlCorrect ==
  ASSUME TxAssumption
  PROVE  Spec => [](TypeOK /\ FeedNeverRefused /\ ResultInTime)
<1>1. Init => Control
  BY ControlInit
<1>2. Control /\ [Next]_vars => Control'
  BY ControlStep, ControlReset, ControlStutter DEF Next
<1>3. Control => TypeOK /\ FeedNeverRefused /\ ResultInTime
  BY DEF Control, TypeOK, FeedNeverRefused, ResultInTime, CRC!input_ready,
         crc_result_ready, FeedStates
<1> QED BY <1>1, <1>2, <1>3, PTL DEF Spec

----------------------------------------------------------------------------
(* What leaves. *)

\* The source shows a byte.
LEMMA ShownType == OfJob => Shown \in Byte
<1> SUFFICES ASSUME OfJob PROVE Shown \in Byte
  OBVIOUS
<1>1. Len(job.payload) \in Nat /\ used \in Nat
  BY FrameFacts DEF OfJob
<1>2. used < Len(job.payload) => used + 1 \in 1 .. Len(job.payload)
  BY <1>1
<1> QED BY <1>2, FrameFacts, ZeroByte DEF Shown, OfJob

\* The byte after those that have left is on the output.
LEMMA NextByte ==
  ASSUME Control, OfJob, SentFirst, CrcFollows,
         state \in {"SOF_0", "SOF_1", "HEADER", "PAYLOAD", "CRC"}
  PROVE  /\ Len(sent) + 1 <= 12 + Len(job.payload)
         /\ out_data(Shown) = Encode(job)[Len(sent) + 1]
         /\ state \in {"HEADER", "PAYLOAD"} =>
              out_data(Shown) = Protected(job)[protected + 1]
<1> DEFINE e == Encode(job)
           p == Protected(job)
           n == Len(job.payload)
<1>1. /\ n \in Nat /\ Value(Pair(n)) = n
  BY FrameFacts DEF OfJob
<1>2. /\ e[1] = FRAME_SOF_0 /\ e[2] = FRAME_SOF_1
      /\ \A i \in 1 .. 6 + n : e[2 + i] = p[i]
      /\ \A k \in 1 .. 4 : e[8 + n + k] = CrcOver(p)[k]
  BY EncodeBytes DEF OfJob
<1>3. /\ p[1] = FRAME_VERSION /\ p[2] = job.type
      /\ p[3] = job.flags[1] /\ p[4] = job.flags[2]
      /\ p[5] = Pair(n)[1] /\ p[6] = Pair(n)[2]
      /\ \A i \in 1 .. n : p[6 + i] = job.payload[i]
  BY ProtectedBytes DEF OfJob
<1>4. /\ message_type = job.type /\ flags = job.flags /\ payload_length = Pair(n)
      /\ state = "PAYLOAD" => used = n - payload_remaining
      /\ Len(sent) = HasLeft
  BY DEF OfJob, SentFirst
<1>5. header_index \in 0 .. 5 /\ crc_index \in 0 .. 3 /\ payload_remaining \in Nat
  BY PayloadAssumption DEF Control, TypeOK
<1> HIDE DEF e, p, n
<1>6. CASE state = "SOF_0"
  BY <1>1, <1>2, <1>4, <1>6 DEF HasLeft, out_data, e, n
<1>7. CASE state = "SOF_1"
  BY <1>1, <1>2, <1>4, <1>7 DEF HasLeft, out_data, e, n
<1>8. CASE state = "HEADER"
  <2>1. Len(sent) = 2 + header_index /\ protected = header_index
    BY <1>4, <1>5, <1>8 DEF HasLeft, protected
  <2>2. out_data(Shown) = header_byte
    BY <1>8 DEF out_data
  <2>3. header_byte = p[header_index + 1]
    BY <1>3, <1>4, <1>5 DEF header_byte
  <2>4. header_index + 1 \in 1 .. 6 + n /\ 2 + (header_index + 1) = Len(sent) + 1
    BY <1>1, <1>5, <2>1
  <2>5. e[Len(sent) + 1] = p[header_index + 1]
    BY <1>2, <2>4
  <2> QED BY <1>1, <1>5, <2>1, <2>2, <2>3, <2>5 DEF e, p, n
<1>9. CASE state = "PAYLOAD"
  <2>1. used \in Nat /\ used + 1 \in 1 .. n
    <3>1. payload_remaining >= 1
      BY <1>9 DEF Control
    <3> QED BY <1>1, <1>4, <1>5, <1>9, <3>1 DEF OfJob
  <2>2. Len(sent) = 8 + used /\ protected = 6 + used
    BY <1>4, <1>9, <2>1 DEF HasLeft, protected
  <2>3. out_data(Shown) = job.payload[used + 1]
    BY <1>1, <1>9, <2>1 DEF out_data, Shown, n
  <2>4. p[6 + (used + 1)] = job.payload[used + 1]
    BY <1>3, <2>1
  <2>5. 6 + (used + 1) \in 1 .. 6 + n /\ 2 + (6 + (used + 1)) = Len(sent) + 1
        /\ 6 + (used + 1) = protected + 1 /\ Len(sent) + 1 <= 12 + n
    BY <1>1, <2>1, <2>2
  <2>6. e[Len(sent) + 1] = p[protected + 1]
    BY <1>2, <2>5
  <2> QED BY <2>3, <2>4, <2>5, <2>6 DEF e, p, n
<1>10. CASE state = "CRC"
  <2>1. Len(sent) = 8 + n + crc_index
    BY <1>4, <1>10 DEF HasLeft, n
  <2>2. out_data(Shown) = CrcOver(p)[crc_index + 1]
    BY <1>10 DEF out_data, CrcFollows, p
  <2>3. crc_index + 1 \in 1 .. 4 /\ 8 + n + (crc_index + 1) = Len(sent) + 1
        /\ Len(sent) + 1 <= 12 + n
    BY <1>1, <1>5, <2>1
  <2>4. e[Len(sent) + 1] = CrcOver(p)[crc_index + 1]
    BY <1>2, <2>3
  <2> QED BY <1>10, <2>2, <2>3, <2>4 DEF e, n
<1> QED BY <1>6, <1>7, <1>8, <1>9, <1>10

\* One more byte in its place leaves a beginning of the encoding.
LEMMA SentGrows ==
  ASSUME NEW e \in Seq(Byte), NEW s \in Seq(Byte), Len(s) + 1 <= Len(e),
         \A i \in 1 .. Len(s) : s[i] = e[i]
  PROVE  LET t == Append(s, e[Len(s) + 1])
         IN  /\ t \in Seq(Byte) /\ Len(t) = Len(s) + 1
             /\ \A i \in 1 .. Len(t) : t[i] = e[i]
<1> DEFINE b == e[Len(s) + 1]
           t == Append(s, b)
<1>1. Len(s) \in Nat /\ Len(e) \in Nat
  BY LenProperties
<1>2. b \in Byte
  <2>1. Len(s) + 1 \in 1 .. Len(e)
    BY <1>1
  <2> QED BY <2>1, ElementOfSeq
<1> HIDE DEF b
<1>3. /\ t \in Seq(Byte) /\ Len(t) = Len(s) + 1
      /\ \A i \in 1 .. Len(s) : t[i] = s[i]
      /\ t[Len(s) + 1] = b
  BY <1>2, AppendProperties
<1> HIDE DEF t
<1>4. \A i \in 1 .. Len(t) : t[i] = e[i]
  <2> TAKE i \in 1 .. Len(t)
  <2>1. i \in 1 .. Len(s) \/ i = Len(s) + 1
    BY <1>1, <1>3
  <2> QED BY <1>3, <2>1 DEF b
<1> QED BY <1>3, <1>4 DEF t, b

\* Where the protected bytes are counted, their number.
LEMMA ProtectedCount ==
  ASSUME Control, OfJob, SentFirst, state \in FeedStates
  PROVE  /\ protected \in 0 .. 6 + Len(job.payload)
         /\ state = "HEADER" => protected = header_index
         /\ state = "PAYLOAD" => protected = 6 + used /\ payload_remaining = Len(job.payload) - used
         /\ state = "WAIT_CRC" => protected = 6 + Len(job.payload)
<1>1. Len(job.payload) \in Nat
  BY FrameFacts DEF OfJob
<1>2. Len(sent) = HasLeft /\ header_index \in 0 .. 5 /\ payload_remaining \in Nat
      /\ used \in Nat /\ (state = "PAYLOAD" => used = Len(job.payload) - payload_remaining)
  BY PayloadAssumption DEF Control, TypeOK, OfJob, SentFirst, FeedStates
<1>3. CASE state = "HEADER"
  BY <1>1, <1>2, <1>3 DEF HasLeft, protected
<1>4. CASE state = "PAYLOAD"
  BY <1>1, <1>2, <1>4 DEF HasLeft, protected
<1>5. CASE state = "WAIT_CRC"
  BY <1>1, <1>2, <1>5 DEF HasLeft, protected
<1> QED BY <1>3, <1>4, <1>5 DEF FeedStates

\* The engine has followed the protected bytes, all of them, after one more cycle.
LEMMA Absorbed ==
  ASSUME Control, OfJob, SentFirst, CrcFollows, CrcClock, state \in FeedStates
  PROVE  /\ protected >= 1 =>
              crc_state' = CrcAfter(SubSeq(Protected(job), 1, protected))
         /\ crc_output_valid' => crc_output' = CrcOver(Protected(job))
<1> DEFINE p == Protected(job)
           n == protected
           L == Len(job.payload)
<1>1. L \in Nat /\ p \in Seq(Byte) /\ Len(p) = 6 + L
  BY FrameFacts DEF OfJob
<1>2. n \in 0 .. 6 + L
  BY ProtectedCount
<1>3. crc_feed.valid =>
        /\ n >= 1 /\ crc_feed.data = p[n] /\ crc_feed.start = (n = 1)
        /\ crc_feed.last = (n = 6 + L)
        /\ n > 1 => crc_state = CrcAfter(SubSeq(p, 1, n - 1))
  BY DEF CrcFollows
<1>4. ~crc_feed.valid => (n >= 1 => crc_state = CrcAfter(SubSeq(p, 1, n)))
  BY DEF CrcFollows
<1> HIDE DEF p, n, L
<1>5. CASE crc_feed.valid
  <2>1. /\ crc_state' = CrcStep(CRC!PacketCrc(crc_feed.start), crc_feed.data)
        /\ crc_output_valid' = crc_feed.last
        /\ crc_output' = IF crc_feed.last THEN CrcBytes(crc_state') ELSE crc_output
    BY <1>5, EngineStep
  <2>2. CRC!PacketCrc(crc_feed.start) = CrcAfter(SubSeq(p, 1, n - 1))
    <3>1. CASE n = 1
      <4>1. SubSeq(p, 1, 0) = << >>
        BY SubSeqEmpty
      <4>2. n - 1 = 0
        BY <3>1
      <4>3. crc_feed.start
        BY <1>3, <1>5, <3>1
      <4> QED BY <4>1, <4>2, <4>3, CrcAfterNone DEF CRC!PacketCrc
    <3>2. CASE n # 1
      <4>1. n > 1
        BY <1>1, <1>2, <1>3, <1>5, <3>2
      <4>2. ~crc_feed.start
        BY <1>3, <1>5, <3>2
      <4> QED BY <1>3, <1>5, <4>1, <4>2 DEF CRC!PacketCrc
    <3> QED BY <3>1, <3>2
  <2>3. crc_state' = CrcAfter(SubSeq(p, 1, n))
    <3>1. n - 1 \in 0 .. Len(p) - 1 /\ (n - 1) + 1 = n
      BY <1>1, <1>2, <1>3, <1>5
    <3>2. CrcAfter(SubSeq(p, 1, n)) = CrcStep(CrcAfter(SubSeq(p, 1, n - 1)), p[n])
      BY <1>1, <3>1, CrcAfterPrefix
    <3> QED BY <1>3, <1>5, <2>1, <2>2, <3>2
  <2>4. crc_output_valid' => crc_output' = CrcOver(p)
    <3>1. SUFFICES ASSUME crc_feed.last PROVE crc_output' = CrcOver(p)
      BY <2>1
    <3>2. n = Len(p)
      BY <1>1, <1>3, <1>5, <3>1
    <3>3. SubSeq(p, 1, n) = p
      BY <1>1, <3>2, SubSeqFull
    <3> QED BY <2>1, <2>3, <3>1, <3>3 DEF CrcOver
  <2> QED BY <2>3, <2>4 DEF p, n
<1>6. CASE ~crc_feed.valid
  BY <1>4, <1>6, EngineStep DEF p, n
<1> QED BY <1>5, <1>6

\* What the history becomes when no header is accepted.
LEMMA Follows ==
  ASSUME Control, OfJob, SentFirst, CrcFollows,
         NEW payload_valid \in BOOLEAN, NEW out_ready \in BOOLEAN,
         WClock(FALSE, NoJob, payload_valid, out_ready)
  PROVE  /\ job' = job
         /\ used' = IF payload_valid /\ payload_ready(out_ready) THEN used + 1 ELSE used
         /\ IF out_valid(payload_valid) /\ out_ready
            THEN /\ sent' \in Seq(Byte) /\ Len(sent') = Len(sent) + 1
                 /\ \A i \in 1 .. Len(sent') : sent'[i] = Encode(job)[i]
            ELSE sent' = sent
<1>1. /\ job' = job
      /\ used' = IF payload_valid /\ payload_ready(out_ready) THEN used + 1 ELSE used
      /\ sent' = IF out_valid(payload_valid) /\ out_ready
                 THEN Append(sent, out_data(Shown)) ELSE sent
  BY DEF WClock
<1>2. ASSUME out_valid(payload_valid), out_ready
      PROVE  /\ sent' \in Seq(Byte) /\ Len(sent') = Len(sent) + 1
             /\ \A i \in 1 .. Len(sent') : sent'[i] = Encode(job)[i]
  <2>1. state \in {"SOF_0", "SOF_1", "HEADER", "PAYLOAD", "CRC"}
    BY <1>2 DEF out_valid
  <2>2. /\ Len(sent) + 1 <= 12 + Len(job.payload)
        /\ out_data(Shown) = Encode(job)[Len(sent) + 1]
    BY <2>1, NextByte
  <2>3. Encode(job) \in Seq(Byte) /\ Len(Encode(job)) = 12 + Len(job.payload)
    BY FrameFacts DEF OfJob
  <2>4. sent \in Seq(Byte) /\ \A i \in 1 .. Len(sent) : sent[i] = Encode(job)[i]
    BY <2>1 DEF SentFirst
  <2>5. sent' = Append(sent, Encode(job)[Len(sent) + 1])
    BY <1>1, <1>2, <2>2
  <2>6. Len(sent) + 1 <= Len(Encode(job))
    BY <2>2, <2>3
  <2> QED BY <2>3, <2>4, <2>5, <2>6, SentGrows
<1> QED BY <1>1, <1>2

\* The registers and the count of what has left after a cycle in which no
\* header is accepted.
LEMMA FollowsJob ==
  ASSUME Control, OfJob, SentFirst, CrcFollows,
         NEW payload_valid \in BOOLEAN, NEW out_ready \in BOOLEAN,
         WClock(FALSE, NoJob, payload_valid, out_ready)
  PROVE  OfJob' /\ SentFirst'
<1> DEFINE leaves == out_valid(payload_valid) /\ out_ready
           L == Len(job.payload)
<1>1. /\ job' = job
      /\ used' = IF payload_valid /\ payload_ready(out_ready) THEN used + 1 ELSE used
  BY Follows
<1>2. /\ leaves => /\ sent' \in Seq(Byte) /\ Len(sent') = Len(sent) + 1
                   /\ \A i \in 1 .. Len(sent') : sent'[i] = Encode(job)[i]
      /\ ~leaves => sent' = sent
  BY Follows
<1>3. /\ sent \in Seq(Byte)
      /\ state # "IDLE" =>
           /\ Len(sent) = HasLeft
           /\ \A i \in 1 .. Len(sent) : sent[i] = Encode(job)[i]
      /\ state = "IDLE" /\ job # NoJob => sent = Encode(job) /\ used = Len(job.payload)
  BY DEF SentFirst
<1>4. /\ job \in Frame /\ used \in Nat
      /\ state # "IDLE" =>
           /\ message_type = job.type /\ flags = job.flags
           /\ payload_length = Pair(L)
           /\ used = IF state = "PAYLOAD" THEN L - payload_remaining
                     ELSE IF state \in HeaderStates THEN 0 ELSE L
  BY DEF OfJob
<1>5. L \in Nat /\ Value(Pair(L)) = L
      /\ Encode(job) \in Seq(Byte) /\ Len(Encode(job)) = 12 + L
  BY <1>4, FrameFacts
<1>6. /\ state = "IDLE" => Stall
      /\ state = "WAIT_CRC" => WaitCrc
      /\ state \notin {"IDLE", "WAIT_CRC"} =>
           IF leaves THEN StartOfFrame \/ Header \/ Payload \/ CrcByte ELSE Stall
  BY DEF WClock, Clock, frame_ready, crc_result_ready
<1>7. leaves => state \notin {"IDLE", "WAIT_CRC"}
  BY DEF out_valid
<1>8. /\ payload_valid /\ payload_ready(out_ready) <=> state = "PAYLOAD" /\ leaves
  BY DEF out_valid, payload_ready
<1>9. /\ header_index \in 0 .. 5 /\ crc_index \in 0 .. 3 /\ payload_remaining \in Nat
      /\ state \in HeaderStates => payload_remaining = Value(payload_length)
      /\ state = "PAYLOAD" => payload_remaining >= 1
  BY PayloadAssumption DEF Control, TypeOK
<1> HIDE DEF leaves, L
<1>10. CASE Stall /\ ~leaves
  <2>1. OfJob'
    BY <1>1, <1>4, <1>8, <1>10 DEF Stall, frame, OfJob, L
  <2>2. HasLeft' = HasLeft
    BY <1>1, <1>8, <1>10 DEF Stall, HasLeft
  <2>3. SentFirst'
    BY <1>1, <1>2, <1>3, <1>8, <1>10, <2>2 DEF Stall, SentFirst
  <2> QED BY <2>1, <2>3
<1>11. CASE WaitCrc /\ ~leaves
  <2>1. OfJob'
    BY <1>1, <1>4, <1>8, <1>11 DEF WaitCrc, Goto, frame, OfJob, L, HeaderStates
  <2>2. HasLeft' = HasLeft
    BY <1>1, <1>3, <1>5, <1>8, <1>11 DEF WaitCrc, Goto, HasLeft, L
  <2>3. state # "IDLE" /\ state' # "IDLE"
    BY <1>11 DEF WaitCrc, Goto
  <2>4. SentFirst'
    BY <1>1, <1>2, <1>3, <1>11, <2>2, <2>3 DEF SentFirst
  <2> QED BY <2>1, <2>4
<1>12. CASE leaves /\ StartOfFrame
  <2>1. /\ state \in {"SOF_0", "SOF_1"} /\ state' = IF state = "SOF_0" THEN "SOF_1" ELSE "HEADER"
        /\ (state = "SOF_1" => header_index' = 0)
        /\ UNCHANGED <<message_type, flags, payload_length, payload_remaining>>
    BY <1>12 DEF StartOfFrame, Goto, frame
  <2>2. OfJob'
    BY <1>1, <1>4, <1>8, <2>1 DEF OfJob, L, HeaderStates
  <2>3. HasLeft' = HasLeft + 1
    BY <2>1 DEF HasLeft
  <2>4. SentFirst'
    BY <1>1, <1>2, <1>3, <1>12, <2>1, <2>3 DEF SentFirst
  <2> QED BY <2>2, <2>4
<1>13. CASE leaves /\ Header
  <2>1. /\ state = "HEADER" /\ used = 0 /\ used' = 0
        /\ UNCHANGED <<message_type, flags, payload_length, payload_remaining>>
        /\ payload_remaining = L
    BY <1>1, <1>4, <1>5, <1>8, <1>9, <1>13 DEF Header, Goto, frame, HeaderStates
  <2>2. \/ header_index' = header_index + 1 /\ state' = "HEADER"
        \/ header_index = 5 /\ state' = "PAYLOAD" /\ L # 0
        \/ header_index = 5 /\ state' = "WAIT_CRC" /\ L = 0
    BY <1>4, <1>5, <1>13 DEF Header, Goto
  <2>3. OfJob'
    BY <1>1, <1>4, <1>5, <2>1, <2>2 DEF OfJob, L, HeaderStates
  <2>4. HasLeft' = HasLeft + 1
    BY <1>1, <1>5, <1>9, <2>1, <2>2 DEF HasLeft, L
  <2>5. state' # "IDLE"
    BY <2>2
  <2>6. SentFirst'
    BY <1>1, <1>2, <1>3, <1>13, <2>1, <2>4, <2>5 DEF SentFirst
  <2> QED BY <2>3, <2>6
<1>14. CASE leaves /\ Payload
  <2>1. /\ state = "PAYLOAD" /\ used = L - payload_remaining /\ used' = used + 1
        /\ UNCHANGED <<message_type, flags, payload_length>>
        /\ payload_remaining' = payload_remaining - 1
        /\ state' = IF payload_remaining = 1 THEN "WAIT_CRC" ELSE "PAYLOAD"
    BY <1>1, <1>4, <1>8, <1>14 DEF Payload, Goto, frame
  <2>2. used' = L - payload_remaining' /\ used' \in Nat
    BY <1>4, <1>5, <1>9, <2>1
  <2>3. state' = "WAIT_CRC" => used' = L
    BY <1>4, <1>5, <1>9, <2>1, <2>2
  <2>4. OfJob'
    BY <1>1, <1>4, <2>1, <2>2, <2>3 DEF OfJob, L, HeaderStates
  <2>5. HasLeft' = HasLeft + 1
    BY <1>1, <1>4, <1>5, <2>1, <2>2, <2>3 DEF HasLeft, L
  <2>6. state' # "IDLE"
    BY <2>1
  <2>7. SentFirst'
    BY <1>1, <1>2, <1>3, <1>14, <2>1, <2>5, <2>6 DEF SentFirst
  <2> QED BY <2>4, <2>7
<1>15. CASE leaves /\ CrcByte
  <2>1. /\ state = "CRC" /\ used = L /\ used' = L
        /\ UNCHANGED <<message_type, flags, payload_length>>
        /\ \/ state' = "CRC" /\ crc_index' = crc_index + 1
           \/ state' = "IDLE" /\ crc_index = 3
    BY <1>1, <1>4, <1>8, <1>15 DEF CrcByte, Goto, frame, HeaderStates
  <2>2. OfJob'
    BY <1>1, <1>4, <1>5, <2>1 DEF OfJob, L, HeaderStates
  <2>3. Len(sent') = 9 + L + crc_index
    <3>1. HasLeft = 8 + L + crc_index
      BY <2>1 DEF HasLeft, L
    <3>2. Len(sent) = HasLeft /\ Len(sent') = Len(sent) + 1
      BY <1>2, <1>3, <1>15, <2>1
    <3> QED BY <1>5, <1>9, <3>1, <3>2
  <2>4. CASE state' = "CRC"
    <3>1. HasLeft' = 9 + L + crc_index
      BY <1>1, <1>5, <1>9, <2>1, <2>4 DEF HasLeft, L
    <3> QED BY <1>1, <1>2, <1>15, <2>2, <2>3, <2>4, <3>1 DEF SentFirst
  <2>5. CASE state' = "IDLE"
    <3>1. Len(sent') = 12 + L
      BY <1>5, <2>1, <2>3, <2>5
    <3>2. sent' = Encode(job)
      BY <1>2, <1>5, <1>15, <3>1, SeqEqual
    <3> QED BY <1>1, <1>2, <1>15, <2>1, <2>2, <2>5, <3>2 DEF SentFirst, L
  <2> QED BY <2>1, <2>2, <2>4, <2>5
<1> QED BY <1>6, <1>7, <1>10, <1>11, <1>12, <1>13, <1>14, <1>15

\* The engine after such a cycle.
LEMMA FollowsCrc ==
  ASSUME Control, OfJob, SentFirst, CrcFollows,
         NEW payload_valid \in BOOLEAN, NEW out_ready \in BOOLEAN,
         WClock(FALSE, NoJob, payload_valid, out_ready)
  PROVE  CrcFollows'
<1> DEFINE leaves == out_valid(payload_valid) /\ out_ready
           p == Protected(job)
           L == Len(job.payload)
           n == protected
           m == protected'
<1>1. job' = job
  BY Follows
<1>2. L \in Nat /\ Value(Pair(L)) = L /\ p \in Seq(Byte) /\ Len(p) = 6 + L
  BY FrameFacts DEF OfJob
<1>3. CrcClock /\ FeedNext(leaves, out_data(Shown))
  BY DEF WClock, Clock
<1>4. /\ leaves => m = n + 1
      /\ ~leaves => m = n
  <2>1. Len(sent) \in Nat
    BY LenProperties DEF SentFirst
  <2>2. /\ leaves => Len(sent') = Len(sent) + 1
        /\ ~leaves => sent' = sent
    BY Follows
  <2> QED BY <2>1, <2>2 DEF protected
<1>5. /\ leaves /\ state \in {"HEADER", "PAYLOAD"} =>
           /\ crc_feed'.valid /\ crc_feed'.data = out_data(Shown)
           /\ crc_feed'.start = (state = "HEADER" /\ header_index = 0)
           /\ crc_feed'.last = LastProtected
      /\ ~(leaves /\ state \in {"HEADER", "PAYLOAD"}) => ~crc_feed'.valid
  <2>3. out_data(Shown) \in Byte
    BY ShownType, OutDataType
  <2>4. leaves \in BOOLEAN
    BY DEF out_valid
  <2> HIDE DEF leaves
  <2> QED BY <1>3, <2>3, <2>4, FeedStep
<1>6. /\ state = "IDLE" => Stall
      /\ state = "WAIT_CRC" => WaitCrc
      /\ state \notin {"IDLE", "WAIT_CRC"} =>
           IF leaves THEN StartOfFrame \/ Header \/ Payload \/ CrcByte ELSE Stall
  BY DEF WClock, Clock, frame_ready, crc_result_ready
<1>7. leaves => state \notin {"IDLE", "WAIT_CRC"}
  BY DEF out_valid
<1>8. state \in FeedStates =>
        /\ n \in 0 .. 6 + L
        /\ n >= 1 => crc_state' = CrcAfter(SubSeq(p, 1, n))
        /\ crc_output_valid' => crc_output' = CrcOver(p)
  BY <1>3, Absorbed, ProtectedCount
<1>9. state \notin FeedStates => ~crc_feed.valid /\ ~crc_output_valid' /\ crc_output' = crc_output
  BY <1>3, EngineStep DEF Control
<1>10. crc_output_valid' => crc_output' = CrcOver(p)
  BY <1>8, <1>9
<1>11. state' = "CRC" => crc_output' = CrcOver(p)
  <2>1. CASE state = "CRC"
    BY <1>9, <2>1 DEF CrcFollows, FeedStates
  <2>2. CASE state = "WAIT_CRC"
    <3>1. SUFFICES ASSUME state' = "CRC" PROVE crc_output' = CrcOver(p)
      OBVIOUS
    <3>2. crc_output_valid
      BY <1>6, <2>2, <3>1 DEF WaitCrc, Goto
    <3>3. ~crc_feed.valid
      <4>1. n = 6 + L
        BY <2>2, ProtectedCount DEF FeedStates
      <4>2. crc_feed.valid => crc_feed.last
        BY <2>2, <4>1 DEF CrcFollows, FeedStates
      <4>3. ~(crc_feed.valid /\ crc_feed.last)
        BY <2>2, <3>2 DEF Control, ResultInTime
      <4> QED BY <4>2, <4>3
    <3>4. crc_output' = crc_output
      BY <1>3, <3>3, EngineStep
    <3> QED BY <3>2, <3>4 DEF CrcFollows
  <2>3. CASE state \notin {"CRC", "WAIT_CRC"}
    BY <1>6, <2>3 DEF StartOfFrame, Header, Payload, CrcByte, Stall, Goto
  <2> QED BY <2>1, <2>2, <2>3
<1>12. CASE leaves /\ state \in {"HEADER", "PAYLOAD"}
  <2>1. state \in FeedStates
    BY <1>12 DEF FeedStates
  <2>2. out_data(Shown) = p[n + 1]
    BY <1>12, NextByte
  <2>3. (state = "HEADER" /\ header_index = 0) = (n = 0)
    <3>1. /\ state = "HEADER" => n = header_index
          /\ state = "PAYLOAD" => n = 6 + used
      BY <2>1, ProtectedCount
    <3>2. used \in Nat
      BY DEF OfJob
    <3> HIDE DEF n
    <3> QED BY <1>12, <3>1, <3>2
  <2>4. LastProtected = (n + 1 = 6 + L)
    <3>1. /\ state = "HEADER" => n = header_index
          /\ state = "PAYLOAD" => n = 6 + used /\ payload_remaining = L - used
      BY <2>1, ProtectedCount
    <3>2. used \in Nat /\ payload_length = Pair(L) /\ header_index \in 0 .. 5
      BY <1>12 DEF OfJob, Control, TypeOK
    <3> HIDE DEF n, L
    <3>3. CASE state = "HEADER"
      <4>1. LastProtected = (header_index = 5 /\ L = 0)
        BY <1>2, <3>2, <3>3 DEF LastProtected
      <4>2. (header_index = 5 /\ L = 0) <=> (n + 1 = 6 + L)
        BY <1>2, <3>1, <3>2, <3>3
      <4> QED BY <4>1, <4>2
    <3>4. CASE state = "PAYLOAD"
      <4>1. LastProtected = (payload_remaining = 1)
        BY <3>4 DEF LastProtected
      <4>2. (payload_remaining = 1) <=> (n + 1 = 6 + L)
        BY <1>2, <3>1, <3>2, <3>4
      <4> QED BY <4>1, <4>2
    <3> QED BY <1>12, <3>3, <3>4
  <2>5. n \in Nat /\ m = n + 1
    BY <1>2, <1>4, <1>8, <1>12, <2>1
  <2> HIDE DEF m, n, p, L, leaves
  <2>6. /\ m >= 1 /\ crc_feed'.data = p[m] /\ m - 1 = n
        /\ m > 1 => n >= 1
    BY <1>5, <1>12, <2>2, <2>5
  <2>7. crc_feed'.start = (m = 1)
    <3>1. (m = 1) = (n = 0)
      BY <2>5
    <3> QED BY <1>5, <1>12, <2>3, <3>1
  <2>8. crc_feed'.last = (m = 6 + L)
    <3>1. (m = 6 + L) = (n + 1 = 6 + L)
      BY <2>5
    <3> QED BY <1>5, <1>12, <2>4, <3>1
  <2>9. m > 1 => crc_state' = CrcAfter(SubSeq(p, 1, m - 1))
    BY <1>8, <2>1, <2>6
  <2>10. p' = p /\ L' = L
    BY <1>1 DEF p, L
  <2> QED BY <1>5, <1>10, <1>11, <1>12, <2>6, <2>7, <2>8, <2>9, <2>10 DEF CrcFollows, m, p, L
<1>13. CASE ~(leaves /\ state \in {"HEADER", "PAYLOAD"})
  <2>1. ~crc_feed'.valid
    BY <1>5, <1>13
  <2>2. state' \in FeedStates /\ m >= 1 => crc_state' = CrcAfter(SubSeq(p, 1, m))
    <3>1. CASE state \in FeedStates
      <4>1. ~leaves
        BY <1>7, <1>13, <3>1 DEF FeedStates
      <4> QED BY <1>4, <1>8, <3>1, <4>1
    <3>2. CASE state \notin FeedStates
      <4>1. SUFFICES ASSUME state' \in FeedStates PROVE ~(m >= 1)
        OBVIOUS
      <4>2. state = "SOF_1" /\ leaves
        BY <1>6, <1>7, <3>2, <4>1
        DEF FeedStates, StartOfFrame, Header, Payload, CrcByte, Stall, Goto
      <4>3. Len(sent) = 1
        BY <4>2 DEF SentFirst, HasLeft
      <4>4. m = 0
        BY <1>4, <4>2, <4>3 DEF protected
      <4> QED BY <4>4
    <3> QED BY <3>1, <3>2
  <2>3. p' = p
    BY <1>1
  <2> HIDE DEF m, p
  <2> QED BY <1>10, <1>11, <2>1, <2>2, <2>3 DEF CrcFollows, m, p
<1> QED BY <1>12, <1>13

\* A cycle in which the source offers the frame f to an idle transmitter.
LEMMA Offered ==
  ASSUME TxAssumption, OffersAssumption, IInv, NEW f \in Offers, frame_ready,
         WClock(TRUE, f, FALSE, FALSE)
  PROVE  OfJob' /\ SentFirst' /\ CrcFollows'
<1> DEFINE n == Len(f.payload)
<1>1. f.type \in Byte /\ f.flags \in TwoBytes /\ f.payload \in Seq(Byte) /\ n < BYTE * BYTE /\ n \in Nat
  BY LenProperties DEF OffersAssumption
<1>2. Pair(n) \in TwoBytes /\ Value(Pair(n)) = n
  <2>1. BYTE * BYTE \in Nat
    BY ByteAssumption
  <2>2. n \in 0 .. BYTE * BYTE - 1
    BY <1>1, <2>1
  <2> QED BY <2>2, ValueOfPair
<1>3. Accept(f.type, f.flags, Pair(n)) /\ CrcClock /\ state = "IDLE"
  <2>1. Clock(TRUE, f.type, f.flags, Pair(n), FALSE, Shown, FALSE)
    BY DEF WClock
  <2> HIDE DEF n
  <2>2. state = "IDLE"
    BY DEF frame_ready
  <2>3. CrcClock
    BY <2>1 DEF Clock
  <2>4. Accept(f.type, f.flags, Pair(n))
    BY <2>1, <2>2 DEF Clock, frame_ready, crc_result_ready
  <2> QED BY <2>2, <2>3, <2>4
<1>4. ~crc_feed.valid /\ ~crc_output_valid'
  BY <1>3, EngineStep DEF IInv, Control, FeedStates
<1>5. ~out_valid(FALSE) /\ ~payload_ready(FALSE)
  BY <1>3 DEF out_valid, payload_ready
<1>6. OfJob /\ SentFirst
  BY DEF IInv
<1>7. CASE n > MAX_PAYLOAD_BYTES
  <2>1. ~(n <= MAX_PAYLOAD_BYTES)
    BY <1>1, <1>7, PayloadAssumption
  <2>2. state' = "IDLE" /\ UNCHANGED frame
    BY <1>2, <1>3, <1>7 DEF Accept
  <2>3. job' = job /\ used' = used /\ sent' = sent
    BY <1>5, <2>1 DEF WClock
  <2> QED BY <1>3, <1>4, <1>6, <2>2, <2>3
          DEF OfJob, SentFirst, CrcFollows, FeedStates
<1>8. CASE ~(n > MAX_PAYLOAD_BYTES)
  <2>1. n <= MAX_PAYLOAD_BYTES
    BY <1>1, <1>8, PayloadAssumption
  <2>2. state' = "SOF_0" /\ message_type' = f.type /\ flags' = f.flags
        /\ payload_length' = Pair(n)
    BY <1>2, <1>3, <1>8 DEF Accept, Goto
  <2>3. job' = f /\ used' = 0 /\ sent' = << >>
    BY <2>1 DEF WClock, frame_ready
  <2>4. f \in Frame
    BY <1>1, <2>1, AFrame DEF OffersAssumption
  <2>5. OfJob'
    BY <2>2, <2>3, <2>4 DEF OfJob, HeaderStates
  <2>6. SentFirst'
    <3>1. << >> \in Seq(Byte) /\ Len(<< >>) = 0
      OBVIOUS
    <3> QED BY <2>2, <2>3, <3>1 DEF SentFirst, HasLeft
  <2>7. CrcFollows'
    BY <1>4, <2>2 DEF CrcFollows, FeedStates
  <2> QED BY <2>5, <2>6, <2>7
<1> QED BY <1>7, <1>8

\* NoJob is a frame of its own kind.
LEMMA NoJobFrame == NoJob \in Frame /\ Len(NoJob.payload) = 0
<1>1. NoJob.payload = << >> /\ NoJob.type = 0 /\ NoJob.flags = <<0, 0>>
  BY DEF NoJob
<1>2. << >> \in [1 .. 0 -> Byte] /\ 0 \in 0 .. MAX_PAYLOAD_BYTES
  BY PayloadAssumption
<1> QED BY <1>1, <1>2, ZeroByte DEF Frame, NoJob

\* The invariant holds at the beginning and after a reset, where there is no job.
LEMMA WireInit == TxAssumption /\ WInit => IInv
<1> SUFFICES ASSUME TxAssumption, WInit PROVE IInv
  OBVIOUS
<1>1. Control
  BY ControlInit DEF WInit
<1>2. OfJob /\ SentFirst /\ CrcFollows
  BY NoJobFrame DEF WInit, Init, CRC!Init, OfJob, SentFirst, CrcFollows, FeedStates
<1> QED BY <1>1, <1>2 DEF IInv

\* A reset with its history.
LEMMA WireReset == TxAssumption /\ WReset => IInv'
<1> SUFFICES ASSUME TxAssumption, WReset PROVE IInv'
  OBVIOUS
<1>1. Control'
  BY ControlReset DEF WReset
<1>2. OfJob' /\ SentFirst' /\ CrcFollows'
  BY NoJobFrame DEF WReset, Reset, Goto, CRC!Clear, OfJob, SentFirst, CrcFollows, FeedStates
<1> QED BY <1>1, <1>2 DEF IInv

\* The invariant is kept by every step.
LEMMA WireStep == TxAssumption /\ OffersAssumption /\ IInv /\ [WNext]_wvars => IInv'
<1> SUFFICES ASSUME TxAssumption, OffersAssumption, IInv, [WNext]_wvars PROVE IInv'
  OBVIOUS
<1>1. CASE WReset
  BY <1>1, WireReset
<1>2. ASSUME frame_ready, NEW f \in Offers, WClock(TRUE, f, FALSE, FALSE)
      PROVE  IInv'
  <2>1. OfJob' /\ SentFirst' /\ CrcFollows'
    BY <1>2, Offered
  <2>2. f.type \in Byte /\ f.flags \in TwoBytes /\ Pair(Len(f.payload)) \in TwoBytes
    <3>1. BYTE * BYTE \in Nat
      BY ByteAssumption
    <3>2. Len(f.payload) \in 0 .. BYTE * BYTE - 1
      BY <3>1, LenProperties DEF OffersAssumption
    <3> QED BY <3>2, ValueOfPair DEF OffersAssumption
  <2>3. Clock(TRUE, f.type, f.flags, Pair(Len(f.payload)), FALSE, Shown, FALSE)
    BY <1>2 DEF WClock
  <2>4. Control'
    BY <2>2, <2>3, ShownType, ControlStep DEF IInv
  <2> QED BY <2>1, <2>4 DEF IInv
<1>3. ASSUME NEW payload_valid \in BOOLEAN, NEW out_ready \in BOOLEAN,
             WClock(FALSE, NoJob, payload_valid, out_ready)
      PROVE  IInv'
  <2>1. OfJob' /\ SentFirst' /\ CrcFollows'
    BY <1>3, FollowsJob, FollowsCrc DEF IInv
  <2>2. NoJob.type \in Byte /\ NoJob.flags \in TwoBytes /\ Pair(Len(NoJob.payload)) \in TwoBytes
    BY NoJobFrame, FrameFacts
  <2>3. Clock(FALSE, NoJob.type, NoJob.flags, Pair(Len(NoJob.payload)), payload_valid, Shown, out_ready)
    BY <1>3 DEF WClock
  <2>4. Control'
    BY <2>2, <2>3, ShownType, ControlStep DEF IInv
  <2> QED BY <2>1, <2>4 DEF IInv
<1>4. CASE UNCHANGED wvars
  <2>1. UNCHANGED vars /\ UNCHANGED <<job, used, sent>>
    BY <1>4 DEF wvars
  <2>2. Control'
    BY <2>1, ControlStutter DEF IInv
  <2>3. OfJob' /\ SentFirst' /\ CrcFollows'
    BY <2>1 DEF IInv, vars, frame, engine, OfJob, SentFirst, HasLeft, CrcFollows, protected
  <2> QED BY <2>2, <2>3 DEF IInv
<1> QED BY <1>1, <1>2, <1>3, <1>4 DEF WNext

\* The invariant says that what has left is the beginning of the encoding.
LEMMA SentPrefix == IInv => EncodingSent
<1> SUFFICES ASSUME IInv, job # NoJob
             PROVE  IsPrefix(sent, Encode(job))
  BY DEF EncodingSent, IInv, SentFirst
<1> DEFINE e == Encode(job)
<1>1. sent \in Seq(Byte) /\ e \in Seq(Byte) /\ Len(e) = 12 + Len(job.payload)
      /\ Len(job.payload) \in Nat /\ Len(sent) \in Nat /\ Len(e) \in Nat
  BY FrameFacts, LenProperties DEF IInv, OfJob, SentFirst
<1>2. Len(sent) <= Len(e) /\ \A i \in 1 .. Len(sent) : sent[i] = e[i]
  <2>1. CASE state = "IDLE"
    BY <1>1, <2>1 DEF IInv, SentFirst
  <2>2. CASE state # "IDLE"
    <3>1. Len(sent) = HasLeft /\ \A i \in 1 .. Len(sent) : sent[i] = e[i]
      BY <2>2 DEF IInv, SentFirst
    <3>2. /\ state \in States /\ header_index \in 0 .. 5 /\ crc_index \in 0 .. 3
          /\ used \in Nat /\ payload_remaining \in Nat
          /\ state = "PAYLOAD" => used = Len(job.payload) - payload_remaining
      BY PayloadAssumption DEF IInv, Control, TypeOK, OfJob
    <3>3. HasLeft <= 12 + Len(job.payload)
      BY <1>1, <2>2, <3>2 DEF HasLeft, States
    <3> QED BY <1>1, <3>1, <3>3
  <2> QED BY <2>1, <2>2
<1>3. SubSeq(sent, 1, Len(sent)) = SubSeq(e, 1, Len(sent))
  BY <1>1, <1>2, SameFirst
<1> QED BY <1>2, <1>3 DEF IsPrefix

\* And that neither the registers nor the CRC engine are ever out of step.
LEMMA InvariantMeans == IInv => TypeOK /\ EncodingSent /\ FeedNeverRefused /\ ResultInTime
<1>1. IInv => TypeOK /\ FeedNeverRefused /\ ResultInTime
  BY DEF IInv, Control, TypeOK, FeedNeverRefused, ResultInTime, CRC!input_ready,
         crc_result_ready, FeedStates
<1> QED BY <1>1, SentPrefix

\* For every radix, payload bound and CRC function, for every set of frames
\* offered, oversized ones included, and however the source of the payload and the
\* wire stall: what has left for a frame is the beginning of its encoding with the
\* CRC over the header and payload that were sent, and all of it when the
\* transmitter is idle again; the CRC engine refuses no byte on the way.
THEOREM EncodingCorrect ==
  ASSUME TxAssumption, OffersAssumption
  PROVE  WSpec => [](TypeOK /\ EncodingSent /\ FeedNeverRefused /\ ResultInTime)
<1>1. WInit => IInv
  BY WireInit
<1>2. IInv /\ [WNext]_wvars => IInv'
  BY WireStep
<1> QED BY <1>1, <1>2, InvariantMeans, PTL DEF WSpec
=============================================================================
