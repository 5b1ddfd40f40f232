------------------------------ MODULE UartHost ------------------------------
(***************************************************************************)
(* sw/cpp: uart_vector_runner, one run of it against a device behind a     *)
(* serial line.  The program loads the vectors, reserves two files, opens  *)
(* the port, sends the request of each case and reads one frame for it     *)
(* under a deadline, and writes the files.  A byte is read at a time       *)
(* (Win32Serial::read_some) and parsed by FrameParser.  The device is      *)
(* external: what comes back, and when, is a parameter; so is an answer    *)
(* left over from an earlier run.  `pc` names what the program does next.  *)
(***************************************************************************)
EXTENDS FrameParser, Evaluation

CONSTANTS
  TIMEOUT,          \* --timeout-ms in ticks of the clock
  VectorFiles,      \* bound: the vector files runs are started with, a sequence
  Answers(_),       \* bound: what may come back for a request, as bytes
  Stale,            \* bound: what may still come from an earlier run
  StatusFlags(_),   \* the names of the flags in the payload of a frame
  Undecodable       \* stands for them when the payload does not unpack

ASSUME HostAssumption == TIMEOUT \in Nat /\ TIMEOUT > 0

\* A record of a vector file, by the types of its fields.
TestVector ==
  [case_id : STRING, algorithm : STRING, schema_version : Nat,
   input : Seq(Byte), input_bit_length : Nat, encoded : Seq(Byte), encoded_bit_length : Nat,
   received : Seq(Byte), error_bit_positions : Seq(Nat),
   decoded : Seq(Byte), decoded_bit_length : Nat, expected_status : Seq(STRING)]

\* Whatever stands in the files, and whatever bytes come back.
ASSUME VectorsAssumption ==
  \A n \in DOMAIN VectorFiles : VectorFiles[n] \in [records : Seq(TestVector), torn : BOOLEAN]
ASSUME AnswersAssumption ==
  /\ Stale \subseteq Seq(Byte)
  /\ \A n \in DOMAIN VectorFiles : \A i \in DOMAIN VectorFiles[n].records :
       Answers(i) \subseteq Seq(Byte)

VARIABLES
  pc, failed,       \* what comes next; the exit status will be 1
  vectors,          \* which vector file this one is started with
  uart_case,        \* the case in progress
  offset,           \* how much of its request is written
  clock, deadline,  \* the time since the case began, and its limit
  received,         \* the bytes read for it
  recorder,         \* UartArtifactRecorder: capture and results
  artifacts,        \* the two files
  old_files,        \* history: those that stood there before
  line,             \* what the device has sent and the host not read: the
                    \* request each piece answers and its bytes
  owing,            \* requests the device has not answered yet, 0: stale ones
  lost,             \* history: the device lost a request
  origins,          \* history: for each passed case, whose answers it took
  missed            \* history: a byte went with a cancelled read

host == <<pc, failed, vectors, uart_case, offset, clock, deadline, received,
          recorder, artifacts, old_files>>
device == <<line, owing, lost>>
hvars == <<parser, host, device, origins, missed>>

Cases == VectorFiles[vectors].records

\* A file: absent, that of an earlier run, or this run's with its content.
NoFile == [kind |-> "absent", records |-> << >>, torn |-> FALSE]
OldFile == [NoFile EXCEPT !.kind = "old"]
NewFile(content, torn) == [kind |-> "new", records |-> content, torn |-> torn]

HostInit ==
  /\ ParserInit
  /\ pc = "load" /\ failed = FALSE
  /\ vectors \in DOMAIN VectorFiles
  /\ uart_case = 0 /\ offset = 0 /\ clock = 0 /\ deadline = 0 /\ received = << >>
  /\ recorder = [capture |-> << >>, results |-> << >>]
  /\ artifacts \in [capture : {NoFile, OldFile}, results : {NoFile, OldFile}]
  /\ old_files = artifacts
  /\ line = << >> /\ owing \in {<< >>, <<0>>} /\ lost = FALSE
  /\ origins = [i \in DOMAIN Cases |-> {}] /\ missed = FALSE

Goto(step) == pc' = step /\ UNCHANGED failed

\* The handler of main: with both files reserved and not tried yet, what is
\* there is written to them; the exit status is 1.
Fail ==
  /\ pc' = IF pc \in {"open", "write", "read", "parse"} THEN "save capture" ELSE "ended"
  /\ failed' = TRUE

----------------------------------------------------------------------------
(* Before the port is opened. *)

\* Whether a byte string is one frame.
IsFrame(bytes) == ParseError(bytes) = NoError

\* load_uart_cases, and the validation of run_uart_cases.
RefusesCase(c) ==
  \/ ~ValidVector(c)
  \/ c.algorithm # "protocol_pipeline"
  \/ c.input_bit_length # 8 * Len(c.input)
  \/ c.decoded_bit_length # 8 * Len(c.decoded)
  \/ ~IsFrame(c.input) \/ ~IsFrame(c.decoded)

RefusesFile(file) ==
  \/ file.torn \/ file.records = << >> \/ ~Unique(file.records)
  \/ \E i \in DOMAIN file.records : RefusesCase(file.records[i])

\* The same for each of the files, once.
Refused == [i \in DOMAIN VectorFiles |-> RefusesFile(VectorFiles[i])]
VectorsRefused == Refused[vectors]

Load ==
  /\ pc = "load"
  /\ IF VectorsRefused THEN Fail ELSE Goto("reserve capture")
  /\ UNCHANGED <<parser, vectors, uart_case, offset, clock, deadline, received,
                 recorder, artifacts, old_files, device, origins, missed>>

\* CREATE_NEW: a path that exists is refused.
CreateNew(file, next) ==
  IF artifacts[file] = NoFile
  THEN artifacts' = [artifacts EXCEPT ![file] = NewFile(<< >>, FALSE)] /\ Goto(next)
  ELSE UNCHANGED artifacts /\ Fail

\* UartArtifactFiles: the capture, then the results.  When the second fails
\* the first is closed and stays.
Reserve ==
  /\ \/ pc = "reserve capture" /\ CreateNew("capture", "reserve results")
     \/ pc = "reserve results" /\ CreateNew("results", "open")
  /\ UNCHANGED <<parser, vectors, uart_case, offset, clock, deadline, received,
                 recorder, old_files, device, origins, missed>>

\* A case begins: its deadline is fixed once.
BeginCase(next) ==
  /\ uart_case' = next /\ offset' = 0 /\ received' = << >>
  /\ clock' = 0 /\ deadline' = TIMEOUT
  /\ buffer' = << >> /\ errors' = << >> /\ frames' = << >> /\ feeding' = FALSE

\* Win32Serial: open, configure and purge the port, or fail.
Open ==
  /\ pc = "open"
  /\ \/ Goto("write") /\ BeginCase(1) /\ line' = << >>
     \/ /\ Fail
        /\ UNCHANGED <<parser, uart_case, offset, clock, deadline, received, line>>
  /\ UNCHANGED <<vectors, recorder, artifacts, old_files, owing, lost, origins, missed>>

----------------------------------------------------------------------------
(* One case. *)

Request == Cases[uart_case].input
Expected == Cases[uart_case].decoded

\* wait_duration: an operation is begun, and waited for, before the deadline.
TimeLeft == clock < deadline

\* Time passes while an operation is pending.
Tick ==
  /\ pc \in {"write", "read"} /\ TimeLeft
  /\ clock' = clock + 1
  /\ UNCHANGED <<parser, pc, failed, vectors, uart_case, offset, deadline, received,
                 recorder, artifacts, old_files, device, origins, missed>>

\* write_some takes some of what is left; none, or an error of the port, ends
\* the run.  The whole request reaches the device with its last byte.
Write ==
  /\ pc = "write" /\ TimeLeft
  /\ \/ \E count \in {1, Len(Request) - offset} :
          /\ offset' = offset + count
          /\ IF offset' = Len(Request)
             THEN Goto("read") /\ owing' = Append(owing, uart_case)
             ELSE UNCHANGED <<pc, failed, owing>>
     \/ Fail /\ UNCHANGED <<offset, owing>>
  /\ UNCHANGED <<parser, vectors, uart_case, clock, deadline, received, recorder,
                 artifacts, old_files, line, lost, origins, missed>>

\* The line without its first byte.
RestOfLine ==
  IF Len(Head(line).bytes) = 1 THEN Tail(line)
  ELSE [line EXCEPT ![1].bytes = Tail(@)]

\* MUTANT: a read that timed out is tried again with a new deadline.
TimedOut_retried ==
  /\ pc \in {"write", "read"} /\ ~TimeLeft
  /\ clock' = 0
  /\ UNCHANGED <<parser, pc, failed, vectors, uart_case, offset, deadline, received,
                 recorder, artifacts, old_files, device, origins, missed>>

\* TransportTimeout.  A read that completes between the end of the wait and
\* its cancellation is drained, and its byte with it.
TimedOut ==
  /\ pc \in {"write", "read"} /\ ~TimeLeft
  /\ Fail
  /\ \/ UNCHANGED <<line, missed>>
     \/ pc = "read" /\ line # << >> /\ line' = RestOfLine /\ missed' = TRUE
  /\ UNCHANGED <<parser, vectors, uart_case, offset, clock, deadline, received, recorder,
                 artifacts, old_files, owing, lost, origins>>

\* MUTANT: the recorder sees the bytes of a frame once it is complete.
Record_at_frame(byte) == UNCHANGED recorder

\* UartObserver::received, before the bytes are parsed.
Record(byte) == recorder' = [recorder EXCEPT !.capture = Append(@, byte)]

Read ==
  /\ pc = "read" /\ TimeLeft
  /\ \/ /\ line # << >>
        /\ LET byte == Head(Head(line).bytes)
           IN  /\ Record(byte)
               /\ received' = Append(received, byte)
               /\ Feed(<<byte>>)
        /\ line' = RestOfLine
        /\ origins' = [origins EXCEPT ![uart_case] = @ \cup {Head(line).origin}]
        /\ Goto("parse")
     \/ /\ Fail
        /\ UNCHANGED <<parser, received, recorder, line, origins>>
  /\ UNCHANGED <<vectors, uart_case, offset, clock, deadline, artifacts, old_files,
                 owing, lost, missed>>

Response == Encode(frames[1])

\* MUTANT: bytes before the frame are skipped.
Response_faulty_resynchronised == Len(frames) # 1 \/ buffer # << >>

\* read_frame: more than one frame, bytes behind it, or bytes that were not
\* part of it.
Response_faulty ==
  \/ Len(frames) # 1 \/ buffer # << >>
  \/ errors # << >> \/ received # Response

\* UartArtifactRecorder::completed: the result stands before its flags are
\* unpacked, which fails for a payload that does not unpack.
CompletedResult ==
  LET flags == StatusFlags(frames[1])
  IN  [case_id |-> Cases[uart_case].case_id, implementation |-> "fpga-uart",
       output |-> Response, output_bit_length |-> 8 * Len(Response),
       status |-> IF flags = Undecodable THEN << >> ELSE flags,
       schema_version |-> SCHEMA_VERSION]

\* The bytes read so far hold no frame, an acceptable one or something else.
Parse ==
  /\ pc = "parse"
  /\ \/ /\ Turn
        /\ UNCHANGED <<pc, failed, uart_case, offset, clock, deadline, received, recorder>>
     \/ /\ ~feeding /\ frames = << >> /\ Goto("read")
        /\ UNCHANGED <<parser, uart_case, offset, clock, deadline, received, recorder>>
     \/ /\ ~feeding /\ frames # << >> /\ Response_faulty /\ Fail
        /\ UNCHANGED <<parser, uart_case, offset, clock, deadline, received, recorder>>
     \/ /\ ~feeding /\ frames # << >> /\ ~Response_faulty
        /\ recorder' = [recorder EXCEPT !.results = Append(@, CompletedResult)]
        /\ IF StatusFlags(frames[1]) = Undecodable \/ Response # Expected
           THEN Fail /\ UNCHANGED <<parser, uart_case, offset, clock, deadline, received>>
           ELSE IF uart_case = Len(Cases)
           THEN /\ Goto("save capture")
                /\ UNCHANGED <<parser, uart_case, offset, clock, deadline, received>>
           ELSE Goto("write") /\ BeginCase(uart_case + 1)
  /\ UNCHANGED <<vectors, artifacts, old_files, device, origins, missed>>

----------------------------------------------------------------------------
(* The files, and the end. *)

\* UartArtifactFiles::write: the capture, then the results; a failed write
\* leaves some of the content, in the results perhaps a part of a line.
SaveCapture ==
  /\ pc = "save capture"
  /\ \/ /\ artifacts' = [artifacts EXCEPT !.capture = NewFile(recorder.capture, FALSE)]
        /\ Goto("save results")
     \/ \E n \in 0 .. Len(recorder.capture) :
          /\ artifacts' = [artifacts EXCEPT !.capture =
                             NewFile(SubSeq(recorder.capture, 1, n), FALSE)]
          /\ Fail
  /\ UNCHANGED <<parser, vectors, uart_case, offset, clock, deadline, received, recorder,
                 old_files, device, origins, missed>>

SaveResults ==
  /\ pc = "save results"
  /\ \/ /\ artifacts' = [artifacts EXCEPT !.results = NewFile(recorder.results, FALSE)]
        /\ Goto("ended")
     \/ \E n \in 0 .. Len(recorder.results), torn \in BOOLEAN :
          /\ torn => n < Len(recorder.results)
          /\ artifacts' = [artifacts EXCEPT !.results =
                             NewFile(SubSeq(recorder.results, 1, n), torn)]
          /\ Fail
  /\ UNCHANGED <<parser, vectors, uart_case, offset, clock, deadline, received, recorder,
                 old_files, device, origins, missed>>

\* The process is killed; the files stay as they are.
Killed ==
  /\ pc # "ended"
  /\ pc' = "ended" /\ failed' = TRUE
  /\ UNCHANGED <<parser, vectors, uart_case, offset, clock, deadline, received, recorder,
                 artifacts, old_files, device, origins, missed>>

HostStep ==
  \/ Load \/ Reserve \/ Open \/ Write \/ Tick \/ TimedOut \/ Read \/ Parse
  \/ SaveCapture \/ SaveResults

----------------------------------------------------------------------------
(* The device, external. *)

\* It answers in order: bytes arrive, or are lost with the request.
Answer ==
  /\ owing # << >> /\ pc \in {"open", "write", "read"}
  /\ \E bytes \in (IF Head(owing) = 0 THEN Stale ELSE Answers(Head(owing))) :
       line' = IF bytes = << >> THEN line
               ELSE Append(line, [origin |-> Head(owing), bytes |-> bytes])
  /\ owing' = Tail(owing)
  /\ UNCHANGED <<parser, host, lost, origins, missed>>

Lose ==
  /\ owing # << >> /\ Head(owing) # 0
  /\ owing' = Tail(owing) /\ lost' = TRUE
  /\ UNCHANGED <<parser, host, line, origins, missed>>

HostNext == HostStep \/ Killed \/ Answer \/ Lose

HostSpec == HostInit /\ [][HostNext]_hvars /\ WF_hvars(HostStep)

----------------------------------------------------------------------------
(* Properties. *)

\* Exit status 0 means that each response was the device's answer to that
\* request: an answer of an earlier run that comes after the port was purged,
\* as a whole or in part, makes the run fail.  Not so when the device has lost
\* a request as well, or when the file asks for one and the same response
\* throughout, so that answers may be taken for one another.
OwnAnswers ==
  /\ pc = "ended" /\ ~failed /\ ~lost
  /\ \E i, j \in DOMAIN Cases : Cases[i].decoded # Cases[j].decoded
  => \A i \in DOMAIN Cases : origins[i] = {i}

\* The files tell what happened, at whatever point the run fails or is killed:
\* those of an earlier run are untouched, nothing is created for a bad vector
\* file, and when there is any result the capture is complete and begins with
\* the responses of the results, in the order of the vectors.
ArtifactsTruthful ==
  /\ \A file \in {"capture", "results"} :
       /\ old_files[file] = OldFile => artifacts[file] = OldFile
       /\ VectorsRefused => artifacts[file] = old_files[file]
  /\ artifacts.results.records # << >> =>
       /\ artifacts.capture.records = recorder.capture
       /\ \A i \in DOMAIN artifacts.results.records :
            artifacts.results.records[i].case_id = Cases[i].case_id
       /\ IsPrefix(FlattenSeq([i \in DOMAIN artifacts.results.records |->
                                 artifacts.results.records[i].output]),
                   artifacts.capture.records)

\* What expected_status says is what the expected frame's payload says.
StatusesMeant ==
  \A i \in DOMAIN Cases :
    /\ Cases[i].decoded # << >>
    /\ Cases[i].expected_status = StatusFlags(Parsed(Cases[i].decoded))

Verdict == evaluate_reference_results(VectorFiles[vectors], artifacts.results)

\* The offline evaluation accepts the results of a run only if the device's
\* bytes were those of the vectors, case by case, a file cut short included,
\* and it accepts those of every run that ended with exit status 0.
EvaluationSound ==
  pc = "ended" /\ artifacts.results.kind = "new" =>
    /\ Verdict = 0 =>
         artifacts.capture.records = FlattenSeq([i \in DOMAIN Cases |-> Cases[i].decoded])
    /\ ~failed /\ StatusesMeant => Verdict = 0

\* The run ends, whatever the device does or fails to do.
RunnerEnds == pc = "load" ~> pc = "ended"
=============================================================================
