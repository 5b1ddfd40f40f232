---------------------------- MODULE VectorFiles ----------------------------
(***************************************************************************)
(* The reference vectors and what is made of them.  sw/evaluation/         *)
(* vectors.py computes them with the reference codecs and writes one JSONL *)
(* file for each algorithm; rtl_vectors.py makes of each a text file that  *)
(* a testbench can scan; scripts/test_rtl.ps1, test_frame_rtl.ps1 and      *)
(* test_uart_rtl.ps1 run the testbenches on them and evaluate the results. *)
(* The scripts run one after the other, any of them may be killed, and     *)
(* between two of them a file may be edited.                               *)
(***************************************************************************)
EXTENDS FecReference, Crc32c, TokenProtocol, Evaluation

CONSTANTS
  MaxPayload,    \* bound: the longest payload of a frame (1024 bytes)
  MaxCommands,   \* bound: how many scripts run
  MaxFaults      \* bound: how many of them are killed, and files edited

----------------------------------------------------------------------------
(* protocol.py: a message as the frame that carries it. *)

serialize_frame(frame) ==
  LET covered == <<0, frame.type>> \o frame.flags \o FromU16(Len(frame.payload)) \o frame.payload
  IN  <<165, 90>> \o covered \o crc32c(covered)

\* The payload of a frame that parse_frame accepts.
PayloadOf(bytes) == SubSeq(bytes, 9, Len(bytes) - 4)

----------------------------------------------------------------------------
(* bits.py *)

pack_bits(bits) ==
  [n \in 1 .. (Len(bits) + 7) \div 8 |->
     Number([i \in 1 .. 8 |-> IF 8 * (n - 1) + i <= Len(bits) THEN bits[8 * (n - 1) + i] ELSE 0])]

unpack_bits(bytes, bit_length) ==
  [i \in 1 .. bit_length |-> Bits(bytes[((i - 1) \div 8) + 1], 8)[((i - 1) % 8) + 1]]

----------------------------------------------------------------------------
(* vectors.py *)

BitVector(case_id, algorithm, parameters, input, encoded, errors, decoded, status) ==
  [case_id |-> case_id, algorithm |-> algorithm, parameters |-> parameters,
   input |-> pack_bits(input), input_bit_length |-> Len(input),
   encoded |-> pack_bits(encoded), encoded_bit_length |-> Len(encoded),
   error_bit_positions |-> errors,
   received |-> pack_bits(Disturbed(encoded, {errors[i] + 1 : i \in DOMAIN errors})),
   decoded |-> pack_bits(decoded), decoded_bit_length |-> Len(decoded),
   expected_status |-> status, schema_version |-> SCHEMA_VERSION]

ByteVector(case_id, algorithm, parameters, input, encoded, decoded, status) ==
  [case_id |-> case_id, algorithm |-> algorithm, parameters |-> parameters,
   input |-> input, input_bit_length |-> 8 * Len(input),
   encoded |-> encoded, encoded_bit_length |-> 8 * Len(encoded),
   error_bit_positions |-> << >>, received |-> encoded,
   decoded |-> decoded, decoded_bit_length |-> 8 * Len(decoded),
   expected_status |-> status, schema_version |-> SCHEMA_VERSION]

crc_vectors ==
  LET vector(id, data) == ByteVector(id, "crc32c", << >>, data, crc32c(data), crc32c(data), << >>)
  IN  <<vector("crc32c-empty", << >>),
        vector("crc32c-check", <<49, 50, 51, 52, 53, 54, 55, 56, 57>>)>>

parity_vectors ==
  LET vector(id, bits) ==
        LET parity == <<even_parity_bit(bits)>>
        IN  BitVector(id, "even_parity", << >>, bits, parity, << >>, parity, << >>)
  IN  <<vector("parity-empty", << >>), vector("parity-a5", Bits(165, 8)),
        vector("parity-one", <<1>>)>>

repetition_vectors ==
  LET data == Bits(165, 8)
      calls == <<<<1, << >>>>, <<3, << >>>>, <<3, <<2>>>>, <<3, <<2, 5>>>>, <<3, <<0, 1>>>>>>
      vector(count, errors) ==
        LET encoded == repetition_encode(data, count)
            decoded == repetition_decode(
                         Disturbed(encoded, {errors[i] + 1 : i \in DOMAIN errors}), count)
        IN  BitVector("repetition-r" \o ToString(count) \o "-errors-" \o ToString(errors),
                      "repetition", <<count>>, data, encoded, errors, decoded.data,
                      IF decoded.corrected_groups > 0 THEN <<"FEC_CORRECTED">> ELSE << >>)
  IN  [n \in DOMAIN calls |-> vector(calls[n][1], calls[n][2])]

hamming_vectors ==
  LET vector(nibble, errors) ==
        LET data    == Bits(nibble, 4)
            encoded == hamming74_encode(data)
            decoded == hamming74_decode(
                         Disturbed(encoded, {errors[i] + 1 : i \in DOMAIN errors}), 4)
        IN  BitVector("hamming74-" \o ToString(nibble) \o "-error-" \o ToString(errors),
                      "hamming74", << >>, data, encoded, errors, decoded.data,
                      IF errors # << >> THEN <<"FEC_CORRECTED">> ELSE << >>)
  IN  [n \in 1 .. 128 |->
         vector((n - 1) \div 8, IF n % 8 = 1 THEN << >> ELSE <<(n - 2) % 8>>)]

\* The token of the frames, its request and its result.
token ==
  [stream_id |-> <<68, 51, 34, 17>>, sequence |-> <<255, 255, 255, 255>>,
   token_id |-> <<136, 119, 102, 85>>, importance |-> 0,
   generated_time_us |-> <<232, 3>> \o Zeros(6), deadline_us |-> <<208, 7>> \o Zeros(6),
   flags |-> 3, extensions |-> <<[type_id |-> 128, value |-> <<170, 85>>]>>]

request_payload ==
  RequestPack(
    [token |-> token,
     protection |-> [mode |-> 2, flags |-> 0, block_length_bits |-> 8 * Len(TokenPack(token)),
                     repetition_count |-> 1, code_rate_num |-> 4, code_rate_den |-> 7],
     channel |-> [flags |-> 1, channel_quality |-> 32768]])

result_payload ==
  ResultPack([token |-> token,
              status |-> [flags |-> 2, corrected_count |-> 1, detected_error_count |-> 0]])

Message(type, flags, payload) == [type |-> type, flags |-> flags, payload |-> payload]

Ping == Message(1, <<0, 0>>, << >>)
Pong == Message(2, <<0, 0>>, << >>)
TokenRequestFrame == Message(MESSAGE_TYPE_TOKEN_REQUEST, <<0, 0>>, request_payload)
TokenResultFrame == Message(MESSAGE_TYPE_TOKEN_RESULT, <<0, 0>>, result_payload)
LongFrame == Message(126, <<90, 165>>, [i \in 1 .. MaxPayload |-> (i - 1) % 256])

protocol_vector(id, frame) ==
  LET encoded == serialize_frame(frame)
  IN  ByteVector(id, "frame_v0", <<frame.type, frame.flags>>, frame.payload,
                 encoded, PayloadOf(encoded), << >>)

protocol_vectors ==
  <<protocol_vector("frame-v0-ping", Ping),
    protocol_vector("frame-v0-token-request-v1", TokenRequestFrame),
    protocol_vector("frame-v0-token-result-v1", TokenResultFrame),
    protocol_vector("frame-v0-max-payload", LongFrame)>>

protocol_pipeline_vectors ==
  LET vector(id, request, response, corrected_count, status) ==
        ByteVector(id, "protocol_pipeline", <<corrected_count>>, serialize_frame(request),
                   serialize_frame(request), serialize_frame(response), status)
  IN  <<vector("pipeline-v0-ping-pong", Ping, Pong, 0, << >>),
        vector("pipeline-v0-hamming-token", TokenRequestFrame, TokenResultFrame, 1,
               <<"FEC_CORRECTED">>)>>

generate_vector_sets ==
  [crc32c |-> crc_vectors, parity |-> parity_vectors, repetition |-> repetition_vectors,
   hamming74 |-> hamming_vectors, protocol |-> protocol_vectors,
   protocol_pipeline |-> protocol_pipeline_vectors]

Written == <<"crc32c", "parity", "repetition", "hamming74", "protocol", "protocol_pipeline">>

----------------------------------------------------------------------------
(* rtl_vectors.py: a record of a text file.  A value is the bytes in the   *)
(* order their digits are printed in.                                      *)

hex_value(bytes) == IF bytes = << >> THEN <<0>> ELSE bytes

\* MUTANT: the digits of a packed vector stand in the order of the JSONL file.
packed_vector_value_unreversed(bytes) == IF bytes = << >> THEN <<0>> ELSE bytes

packed_vector_value(bytes) == IF bytes = << >> THEN <<0>> ELSE Reverse(bytes)

corrected(vector) == IF Contains(vector.expected_status, "FEC_CORRECTED") THEN 1 ELSE 0

first_error(vector) ==
  IF vector.error_bit_positions = << >> THEN 0 ELSE vector.error_bit_positions[1] + 1

\* _byte_length raises.
Unaligned(name, vector) ==
  CASE name = "protocol" -> vector.encoded_bit_length % 8 # 0 \/ vector.input_bit_length % 8 # 0
    [] name = "protocol_pipeline" ->
         vector.encoded_bit_length % 8 # 0 \/ vector.decoded_bit_length % 8 # 0
    [] OTHER -> FALSE

RtlRecord(name, v) ==
  CASE name = "parity" -> <<<<v.input_bit_length>>, hex_value(v.input), hex_value(v.decoded)>>
    [] name = "repetition" ->
         <<v.parameters, packed_vector_value(v.input), packed_vector_value(v.encoded),
           packed_vector_value(v.received), packed_vector_value(v.decoded), <<corrected(v)>>>>
    [] name = "hamming74" ->
         <<hex_value(v.input), hex_value(v.encoded), hex_value(v.received),
           hex_value(v.decoded), <<first_error(v)>>, <<corrected(v)>>>>
    [] name = "protocol" ->
         <<<<v.encoded_bit_length \div 8>>, packed_vector_value(v.encoded), v.parameters,
           <<v.input_bit_length \div 8>>, packed_vector_value(v.input)>>
    [] name = "protocol_pipeline" ->
         <<<<v.encoded_bit_length \div 8>>, packed_vector_value(v.encoded),
           <<v.decoded_bit_length \div 8>>, packed_vector_value(v.decoded)>>

Converted == <<"parity", "repetition", "hamming74", "protocol", "protocol_pipeline">>

----------------------------------------------------------------------------
(* The testbenches on a record: what $fscanf makes of it, and whether the  *)
(* RTL does what it says.                                                  *)

\* %h into a register of some bytes or bits: the digits are one number.
ScanBytes(text, size) == Reverse(SubSeq(Zeros(size) \o text, Len(text) + 1, Len(text) + size))
ScanBits(text, width) == unpack_bits(ScanBytes(text, (width + 7) \div 8), width)

ParityTb(r) ==
  LET data == ScanBits(r[2], 8)
      used == [i \in 1 .. 8 |-> IF i <= r[1][1] THEN data[i] ELSE 0]
      parity == Parity(used)
  IN  [output |-> <<parity>>, output_bit_length |-> 1, status |-> << >>,
       agrees |-> parity = ScanBits(r[3], 8)[1] /\ ~ParityError(used, parity)
                    /\ ParityError(used, 1 - parity)]

RepetitionTb(r) ==
  LET count    == r[1][1]
      encoded  == RepetitionEncode(ScanBits(r[2], 8), count)
      result   == RepetitionDecode(ScanBits(r[4], 8 * count), count)
      disagree == \E i \in 1 .. 8 : result.status[i]
  IN  [output |-> pack_bits(result.data), output_bit_length |-> 8,
       status |-> IF disagree THEN <<"FEC_CORRECTED">> ELSE << >>,
       agrees |-> /\ encoded = ScanBits(r[3], 8 * count)
                  /\ result.data = ScanBits(r[5], 8)
                  /\ disagree <=> r[6] = <<1>>]

HammingTb(r) ==
  LET result == HammingDecode(ScanBits(r[3], 7))
  IN  [output |-> pack_bits(result.data), output_bit_length |-> 4,
       status |-> IF result.status # 0 THEN <<"FEC_CORRECTED">> ELSE << >>,
       agrees |-> /\ HammingEncode(ScanBits(r[1], 4)) = ScanBits(r[2], 7)
                  /\ result.data = ScanBits(r[4], 4)
                  /\ result.status = r[5][1]
                  /\ (result.status # 0) <=> r[6] = <<1>>]

\* The frame that the transmitter sends.
FrameTb(r) ==
  LET frame == Message(r[3][1], r[3][2], ScanBytes(r[5], r[4][1]))
  IN  r[4][1] <= MaxPayload /\ ScanBytes(r[2], r[1][1]) = serialize_frame(frame)

\* The frame that the receiver hands on.  A payload of full length has to count
\* up, whatever the record says.
FrameRxTb(r) ==
  FrameTb(IF r[4][1] = MaxPayload THEN [r EXCEPT ![5] = Reverse(LongFrame.payload)] ELSE r)

\* The payload of the last record of a message type, or nothing.
LastPayload(values, type) ==
  LET found == {n \in DOMAIN values : values[n][3][1] = type}
  IN  IF found = {} THEN << >> ELSE ScanBytes(values[Max(found)][5], values[Max(found)][4][1])

\* The payload the token handler answers with, the first bit of the coded form
\* flipped; an error response has eight bytes.
HandlerAnswer(p) ==
  IF Unpacks(p) /\ ReservedZero(p) THEN TokenResult(<<0, 0>>, p, 0).payload
  ELSE ErrorResponse(<<0, 0>>, Max(RequestFaults(p) \cup {Format})).payload

\* The request with another protection.
Protected(p, mode, count, num, den) ==
  LET base == 40 + u16(p, 36)
  IN  [p EXCEPT ![base + 2] = mode, ![base + 7] = count, ![base + 9] = num,
                ![base + 10] = 0, ![base + 11] = den, ![base + 12] = 0]

\* The request as it is (Hamming), without protection and repeated.
Requests(p) == <<p, Protected(p, 0, 1, 1, 1), Protected(p, 1, 3, 1, 3)>>

\* The testbench waits for as many bytes as the result has, and then for the
\* handler to take the next request.
HandlerTbEnds(p, result) ==
  \A n \in 1 .. 3 : Len(HandlerAnswer(Requests(p)[n])) = Len(result)

HandlerTb(p, result) ==
  LET answer(n) == HandlerAnswer(Requests(p)[n])
      base      == 40 + u16(p, 36)
      fault(q)  == HandlerAnswer(q)[1]
      status(n, flags, count) ==
        LET end == Len(answer(n)) IN answer(n)[end - 7] = flags /\ answer(n)[end - 3] = count
  IN  /\ HandlerTbEnds(p, result)
      /\ answer(1) = result /\ status(1, 2, 1)
      /\ TokenPart(p) = FlipBit(SubSeq(answer(2), 1, Len(p) - 20), 0) /\ status(2, 0, 0)
      /\ TokenPart(p) = SubSeq(answer(3), 1, Len(p) - 20) /\ status(3, 2, 1)
      /\ fault(SubSeq(p, 1, 8)) = Format /\ fault([p EXCEPT ![1] = 2]) = Version
      /\ fault([p EXCEPT ![base + 2] = 126]) = Unsupported

\* What the frame pipeline sends for a request, with the first bit of its coded
\* form flipped.
Answer(request) ==
  IF request[4] = MESSAGE_TYPE_TOKEN_REQUEST
  THEN serialize_frame(TokenResult(SubSeq(request, 5, 6), PayloadOf(request), 0))
  ELSE serialize_frame(Pong)

PipelineTb(r) == ScanBytes(r[4], r[3][1]) = Answer(ScanBytes(r[2], r[1][1]))

\* The testbenches, the file each one scans, if any, and the cases it has to report.
BenchFile ==
  [parity |-> "parity", repetition |-> "repetition", hamming74 |-> "hamming74",
   frame_rx |-> "protocol", frame_tx |-> "protocol", token_request_handler |-> "protocol",
   frame_pipeline |-> "protocol_pipeline", uart_frame_pipeline |-> "protocol_pipeline"]

ExpectedCases ==
  [parity |-> 3, repetition |-> 5, hamming74 |-> 128, frame_rx |-> 10, frame_tx |-> 6,
   token_request_handler |-> 6, frame_pipeline |-> 8, uart_tx |-> 7, uart_rx |-> 8,
   uart_frame_pipeline |-> 5]

Streaming == DOMAIN ExpectedCases \ {"parity", "repetition", "hamming74"}

FecResult(case_id, tb) ==
  [case_id |-> case_id, implementation |-> "rtl", output |-> tb.output,
   output_bit_length |-> tb.output_bit_length, status |-> tb.status, schema_version |-> 0]

Passed(case_id) ==
  [case_id |-> case_id, implementation |-> "rtl", output |-> <<1>>, output_bit_length |-> 1,
   status |-> << >>, schema_version |-> 0]

Directed(count) == [n \in 1 .. count |-> Passed("directed " \o ToString(n))]

\* A simulation of the testbench on a text: whether it ends, whether it prints the
\* line that the script waits for, and the results it writes, which are read only
\* then.  Of those that scan a file all but the token handler's have a limit on the
\* cycles they wait.
Simulation(bench, text) ==
  LET ids   == [n \in DOMAIN text |-> text[n].case_id]
      value == [n \in DOMAIN text |-> text[n].values]
      full  == \E n \in DOMAIN text : value[n][4][1] = MaxPayload
      Run(success, results) == [ends |-> TRUE, success |-> success, results |-> results]
      fec(Tb(_)) ==
        Run(Len(text) = ExpectedCases[bench] /\ \A n \in DOMAIN text : Tb(value[n]).agrees,
            [n \in DOMAIN text |-> FecResult(ids[n], Tb(value[n]))])
  IN  CASE bench = "parity" -> fec(ParityTb)
        [] bench = "repetition" -> fec(RepetitionTb)
        [] bench = "hamming74" -> fec(HammingTb)
        [] bench = "frame_rx" ->
             Run(Len(text) >= 2 /\ full /\ \A n \in DOMAIN text : FrameRxTb(value[n]),
                 Directed(10))
        [] bench = "frame_tx" ->
             Run(/\ Len(text) + 2 = ExpectedCases[bench] /\ full
                 /\ \A n \in DOMAIN text : value[n][1][1] = value[n][4][1] + 12
                 /\ \A n \in DOMAIN text : FrameTb(value[n]),
                 [n \in DOMAIN text |-> Passed(ids[n])]
                   \o <<Passed("oversize_rejected"), Passed("reset_recovery")>>)
        [] bench = "token_request_handler" ->
             LET request == LastPayload(value, MESSAGE_TYPE_TOKEN_REQUEST)
                 result  == LastPayload(value, MESSAGE_TYPE_TOKEN_RESULT)
                 found   == request # << >> /\ result # << >>
             IN  [Run(found /\ HandlerTb(request, result), Directed(6)) EXCEPT
                    !.ends = ~found \/ HandlerTbEnds(request, result)]
        [] bench = "frame_pipeline" ->
             Run(Len(text) = 2 /\ \A n \in DOMAIN text : PipelineTb(value[n]),
                 Directed(7) \o (IF Len(text) = 2 THEN <<Passed(ids[2])>> ELSE << >>))
        [] bench = "uart_frame_pipeline" ->
             Run(Len(text) = 2 /\ \A n \in DOMAIN text : PipelineTb(value[n]), Directed(5))
        [] bench \in {"uart_tx", "uart_rx"} -> Run(TRUE, Directed(ExpectedCases[bench]))

----------------------------------------------------------------------------
(* The files and the scripts.                                              *)

VARIABLES
  generated,     \* the vector sets, the same whenever they are computed
  vector_files,  \* the JSONL files
  stray,         \* whether another JSONL file lies beside them
  rtl_files,     \* the text files
  result_file,   \* the results of the last simulation
  command,       \* the script that runs or ran last
  at,            \* its next stage
  exit_status,   \* how it ended; Running before that
  commands, faults

vector_vars ==
  <<generated, vector_files, stray, rtl_files, result_file, command, at, exit_status,
    commands, faults>>

Running == 100
Killed == 101

\* A file of whole records, torn in the middle of the next one or not, and with
\* the newline that ends the last of them or not.
File(records) == [there |-> TRUE, records |-> records, torn |-> FALSE, ended |-> TRUE]
Missing == [there |-> FALSE, records |-> << >>, torn |-> FALSE, ended |-> TRUE]

\* What write_bytes leaves of a file when it is killed.
Cuts(records) ==
  {[there |-> TRUE, records |-> SubSeq(records, 1, kept), torn |-> torn, ended |-> ~torn] :
     kept \in {0, Len(records) - 1}, torn \in BOOLEAN}
    \cup {[there |-> TRUE, records |-> records, torn |-> FALSE, ended |-> FALSE]}

FlipFirst(bytes) == [bytes EXCEPT ![1] = IF bytes[1] % 2 = 0 THEN bytes[1] + 1 ELSE bytes[1] - 1]

\* What an editor makes of the last record: a wrong expected output, a received
\* word with one more error, a length that is no longer a whole byte, and a
\* record pasted over another.  Of the frames, which the receiver and the
\* transmitter go on to find right: those without a request for a token, those
\* whose result is not that of the request, of the same length or longer, and a
\* longest frame that does not count up, which the receiver's testbench refuses.
Edits(name, records) ==
  LET last == Len(records)
      frame(n, message) ==
        [records EXCEPT ![n] = protocol_vector(records[n].case_id, message)]
      result(payload) == frame(3, Message(MESSAGE_TYPE_TOKEN_RESULT, <<0, 0>>, payload))
  IN  {[records EXCEPT ![last].decoded = FlipFirst(records[last].decoded)],
       [records EXCEPT ![last].received = FlipFirst(records[last].received)],
       [records EXCEPT ![last].input_bit_length = records[last].input_bit_length - 1]}
        \cup (IF name = "protocol_pipeline" THEN {}
              ELSE {[records EXCEPT ![last] = records[1]]})
        \cup (IF name = "protocol" /\ last > 2
              THEN {frame(2, Pong), result(FlipFirst(result_payload)),
                    result(result_payload \o Zeros(1)),
                    frame(last, [LongFrame EXCEPT !.payload = Reverse(@)])}
              ELSE {})

VectorInit ==
  /\ generated = generate_vector_sets
  /\ vector_files \in {[name \in Range(Written) |-> File(generated[name])],
                       [name \in Range(Written) |-> Missing]}
  /\ stray = FALSE
  /\ rtl_files = [name \in Range(Converted) |-> << >>]
  /\ result_file = File(<< >>)
  /\ command = "none" /\ at = 1 /\ exit_status = 0
  /\ commands = 0 /\ faults = 0

\* What a script does one after the other.
Convert == [n \in DOMAIN Converted |-> <<"convert", Converted[n]>>]
Bench(bench) == <<<<"simulate", bench>>, <<"evaluate", bench>>>>

Stages ==
  [generate |-> [n \in DOMAIN Written |-> <<"write", Written[n]>>],
   check |-> <<<<"compare", "all">>>>,
   test_rtl |-> Convert \o Bench("parity") \o Bench("repetition") \o Bench("hamming74"),
   test_frame_rtl |-> Convert \o Bench("frame_rx") \o Bench("frame_tx")
                        \o Bench("token_request_handler") \o Bench("frame_pipeline"),
   test_uart_rtl |-> Convert \o Bench("uart_tx") \o Bench("uart_rx")
                       \o Bench("uart_frame_pipeline")]

\* A stage ends with a status: anything but zero ends the script.
Stage(status) ==
  /\ exit_status' = IF status = 0 /\ at < Len(Stages[command]) THEN Running ELSE status
  /\ at' = IF exit_status' = Running THEN at + 1 ELSE 1

In(kind) == exit_status = Running /\ Stages[command][at][1] = kind
Name == Stages[command][at][2]

\* write_vector_files, one file after the other.
write_vector_file ==
  /\ In("write")
  /\ vector_files' = [vector_files EXCEPT ![Name] = File(generated[Name])]
  /\ Stage(0)
  /\ UNCHANGED <<generated, stray, rtl_files, result_file, command, commands, faults>>

AsGenerated == \A name \in Range(Written) : vector_files[name] = File(generated[name])

check_vector_files ==
  /\ In("compare")
  /\ Stage(IF /\ ~stray /\ \A name \in Range(Written) : vector_files[name].there
              /\ AsGenerated
           THEN 0 ELSE 1)
  /\ UNCHANGED <<generated, vector_files, stray, rtl_files, result_file, command, commands, faults>>

\* write_rtl_vector_files raises at a file.
ConversionFails(name) ==
  LET file == vector_files[name]
  IN  \/ ~file.there
      \/ read_vectors_refuses(file)
      \/ \E n \in DOMAIN file.records : Unaligned(name, file.records[n])

Text(name) ==
  LET records == vector_files[name].records
  IN  [n \in DOMAIN records |->
         [case_id |-> records[n].case_id, values |-> RtlRecord(name, records[n])]]

write_rtl_vector_file ==
  /\ In("convert")
  /\ IF ConversionFails(Name)
     THEN Stage(1) /\ UNCHANGED rtl_files
     ELSE Stage(0) /\ rtl_files' = [rtl_files EXCEPT ![Name] = Text(Name)]
  /\ UNCHANGED <<generated, vector_files, stray, result_file, command, commands, faults>>

\* A testbench that waits for ever leaves the script where it is.
Simulate ==
  /\ In("simulate")
  /\ LET text == IF Name \in DOMAIN BenchFile THEN rtl_files[BenchFile[Name]] ELSE << >>
         run  == Simulation(Name, text)
     IN  /\ run.ends
         /\ result_file' = File(run.results)
         /\ Stage(IF run.success THEN 0 ELSE 1)
  /\ UNCHANGED <<generated, vector_files, stray, rtl_files, command, commands, faults>>

Evaluate ==
  /\ In("evaluate")
  /\ Stage(IF Name \in Streaming
           THEN evaluate_streaming_results(result_file, ExpectedCases[Name])
           ELSE evaluate_reference_results(vector_files[BenchFile[Name]], result_file))
  /\ UNCHANGED <<generated, vector_files, stray, rtl_files, result_file, command, commands, faults>>

\* The next script; before it, once, an edit or a file that does not belong.
Start ==
  /\ exit_status # Running /\ commands < MaxCommands
  /\ command' \in DOMAIN Stages /\ at' = 1 /\ exit_status' = Running
  /\ commands' = commands + 1
  /\ UNCHANGED <<generated, vector_files, stray, rtl_files, result_file, faults>>

Edit ==
  /\ exit_status # Running /\ faults < MaxFaults /\ faults' = faults + 1
  /\ \/ \E name \in Range(Written) :
          /\ vector_files[name].records # << >>
          /\ \E records \in Edits(name, vector_files[name].records) :
               vector_files' = [vector_files EXCEPT ![name].records = records]
          /\ UNCHANGED stray
     \/ stray' = TRUE /\ UNCHANGED vector_files
  /\ command' = "none"
  /\ UNCHANGED <<generated, rtl_files, result_file, at, exit_status, commands>>

\* The script is killed, a write in the middle of its file.
Kill ==
  /\ exit_status = Running /\ faults < MaxFaults /\ faults' = faults + 1
  /\ exit_status' = Killed /\ at' = 1
  /\ IF In("write")
     THEN \E cut \in Cuts(generated[Name]) : vector_files' = [vector_files EXCEPT ![Name] = cut]
     ELSE UNCHANGED vector_files
  /\ UNCHANGED <<generated, stray, rtl_files, result_file, command, commands>>

VectorNext ==
  \/ write_vector_file \/ check_vector_files \/ write_rtl_vector_file
  \/ Simulate \/ Evaluate \/ Start \/ Edit \/ Kill

----------------------------------------------------------------------------
(* Properties. *)

\* What the test scripts are to find out, without text files: the RTL does
\* what a record says, bit string by bit string.
Holds(bench, v) ==
  LET received == unpack_bits(v.received, v.encoded_bit_length)
      data     == unpack_bits(v.input, v.input_bit_length)
      encoded  == unpack_bits(v.encoded, v.encoded_bit_length)
      decoded  == unpack_bits(v.decoded, v.decoded_bit_length)
      reports(corrects) ==
        v.expected_status = IF corrects THEN <<"FEC_CORRECTED">> ELSE << >>
  IN  CASE bench = "parity" -> decoded = <<Parity(data)>> /\ reports(FALSE)
        [] bench = "repetition" ->
             LET result == RepetitionDecode(received, v.parameters[1])
             IN  /\ RepetitionEncode(data, v.parameters[1]) = encoded
                 /\ result.data = decoded
                 /\ reports(\E i \in DOMAIN result.status : result.status[i])
        [] bench = "hamming74" ->
             LET result == HammingDecode(received)
             IN  /\ HammingEncode(data) = encoded /\ result.data = decoded
                 /\ reports(result.status # 0) /\ result.status = first_error(v)
        [] bench \in {"frame_rx", "frame_tx"} ->
             v.encoded = serialize_frame(Message(v.parameters[1], v.parameters[2], v.input))
        [] bench \in {"frame_pipeline", "uart_frame_pipeline"} -> v.decoded = Answer(v.encoded)

\* The frames include a request for a token and its result, the last of each: what
\* a request comes back as whose protection corrects an error.
HasRequestAndResult(records) ==
  LET of(type) == {n \in DOMAIN records : records[n].parameters[1] = type}
      requests == of(MESSAGE_TYPE_TOKEN_REQUEST)
      results  == of(MESSAGE_TYPE_TOKEN_RESULT)
  IN  /\ requests # {} /\ results # {}
      /\ LET p == records[Max(requests)].input
             q == records[Max(results)].input
         IN  /\ Unpacks(p) /\ ReservedZero(p) /\ ResultUnpacks(q)
             /\ ResultUnpack(q) =
                  [token |-> RequestUnpack(p).token,
                   status |-> [flags |-> 2, corrected_count |-> 1, detected_error_count |-> 0]]
             /\ RequestUnpack(p).protection.mode # 0

\* A complete file of what a testbench is to find right.
HoldsFor(bench) ==
  LET name    == BenchFile[bench]
      records == vector_files[name].records
  IN  /\ Len(records) = Len(generated[name])
      /\ name # "protocol_pipeline" => Unique(records)
      /\ IF bench = "token_request_handler" THEN HasRequestAndResult(records)
         ELSE \A n \in DOMAIN records : Holds(bench, records[n])
      /\ bench = "frame_rx" =>
           \A n \in DOMAIN records :
             Len(records[n].input) = MaxPayload => records[n].input = LongFrame.payload
      /\ bench \in {"frame_rx", "frame_tx"} =>
           \E n \in DOMAIN records : Len(records[n].input) = MaxPayload

Benches(script) ==
  DOMAIN BenchFile \cap {Stages[script][n][2] : n \in 6 .. Len(Stages[script])}

\* The scripts' verdicts mean what they say.  Generating leaves what --check
\* accepts, and --check accepts nothing else: not a set of files cut off by a
\* kill, not one an editor touched, not one with a file too many.  A test
\* script that comes to a verdict succeeds exactly when all five files can be
\* read and converted and each file it tests is complete and says, in the bit
\* order of the JSONL files, what the RTL does; the frames have to include the
\* longest one, with the payload its testbench knows, and a request for a token
\* with its result.
VectorVerdicts ==
  /\ command = "generate" /\ exit_status = 0 => AsGenerated
  /\ command = "check" /\ exit_status \in {0, 1} =>
       (exit_status = 0 <=> AsGenerated /\ ~stray)
  /\ command \in {"test_rtl", "test_frame_rtl", "test_uart_rtl"} /\ exit_status \in {0, 1} =>
       (exit_status = 0 <=>
          /\ \A name \in Range(Converted) : ~ConversionFails(name)
          /\ \A bench \in Benches(command) : HoldsFor(bench))
=============================================================================
