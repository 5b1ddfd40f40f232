----------------------------- MODULE MCSoftware -----------------------------
(***************************************************************************)
(* The software around the RTL, one program chosen at the beginning:       *)
(*   runner      the runner against a device that answers, answers         *)
(*               wrongly, damages or loses answers and is late, with two   *)
(*               cases as in protocol_pipeline.jsonl (a PONG and a         *)
(*               TOKEN_RESULT that reports a correction);                  *)
(*   parser      FrameParser alone, fed with streams put together from     *)
(*               whole, cut, damaged, false and hidden frames in chunks    *)
(*               of several sizes;                                         *)
(*   vectors     the scripts that generate, check, convert and test the    *)
(*               vector files (VectorFiles);                               *)
(*   experiment  the scripts of the language-model experiment (Experiment).*)
(***************************************************************************)
EXTENDS UartHost

CONSTANTS
  LongestPayload, MaxCommands, MaxFaults,
  Prompts, Limits, None, Modes, BaseUrls, MaxStarts, MaxReplaced, ContextSize

VARIABLES
  program,
  generated, vector_files, stray, rtl_files, result_file, command, at, exit_status,
  commands, faults,
  script, step, exit, options, config, model_file, metadata, model, sdk_imported,
  tracker, wandb_run, raised, environment, output_ids, yielded, printed, replaced, starts

\* --max-tokens is a number when it is given; tokens are counted.
ASSUME LimitsAssumption ==
  Limits \subseteq Int \cup {None} /\ Prompts \subseteq Nat /\ ContextSize \in Nat

V == INSTANCE VectorFiles WITH MaxPayload <- LongestPayload
E == INSTANCE Experiment

MCCrc == 0 .. 2
MCCrcStep(c, b) == (2 * c + b + 1) % 3
MCCrcBytes(c) == <<c, (c + 1) % 2, 0, c % 2>>

\* SOF is 4 5, the version 0, the types 0 (PING, PONG) and 1 (TOKEN_*).
FrameOf(type, payload) == [type |-> type, flags |-> <<0, 0>>, payload |-> payload]
PingBytes == Encode(FrameOf(2, << >>))
PongBytes == Encode(FrameOf(0, << >>))
TokenRequest == Encode(FrameOf(1, <<3>>))
TokenResult == Encode(FrameOf(1, <<1>>))

MCUndecodable == <<"undecodable">>

\* TOKEN_RESULT payload 0 has no flags, 1 FEC_CORRECTED; others do not unpack.
MCStatusFlags(frame) ==
  IF frame.type # 1 \/ frame.payload = <<0>> THEN << >>
  ELSE IF frame.payload = <<1>> THEN <<"FEC_CORRECTED">> ELSE MCUndecodable

Vector(id, request, response, status) ==
  [case_id |-> id, algorithm |-> "protocol_pipeline", schema_version |-> 0,
   input |-> request, input_bit_length |-> 8 * Len(request),
   encoded |-> request, encoded_bit_length |-> 8 * Len(request),
   received |-> request, error_bit_positions |-> << >>,
   decoded |-> response, decoded_bit_length |-> 8 * Len(response),
   expected_status |-> status]

PingCase == Vector("ping", PingBytes, PongBytes, << >>)
TokenCase == Vector("token", TokenRequest, TokenResult, <<"FEC_CORRECTED">>)

File(vector_records) == [records |-> vector_records, torn |-> FALSE]

\* The tracked file; one whose status is not what the frame says; and one for
\* each thing that is refused.
MCVectorFiles ==
  <<File(<<PingCase, TokenCase>>),
   File(<<[PingCase EXCEPT !.expected_status = <<"CRC_ERROR">>]>>),
   File(<< >>), [File(<<PingCase>>) EXCEPT !.torn = TRUE],
   File(<<PingCase, PingCase>>),
   File(<<[PingCase EXCEPT !.algorithm = "crc32c"]>>),
   File(<<TokenCase, [PingCase EXCEPT !.decoded = Tail(PongBytes),
                                      !.decoded_bit_length = 8 * Len(Tail(PongBytes))]>>)>>

Damaged(frame) == [frame EXCEPT ![4] = 3]
\* A header that announces as much as it takes to hide two PONGs behind it.
Hiding == <<4, 5, 0, 0, 0, 0, 2, 3>> \o PongBytes \o PongBytes
\* A header that announces less, so that one of them is cut.
HidingOne == <<4, 5, 0, 0, 0, 0, 5, 1>> \o PongBytes \o SubSeq(PongBytes, 1, 3)

MCAnswers(request) ==
  CASE request = 1 -> {PongBytes, Damaged(PongBytes), <<4, 5>> \o PongBytes, Hiding, HidingOne,
                       PongBytes \o <<4>>}
    [] request = 2 -> {TokenResult, Encode(FrameOf(1, <<2>>)), Encode(FrameOf(1, <<0>>)),
                       SubSeq(TokenResult, 1, 9)}

MCStale == {PongBytes, SubSeq(PongBytes, 9, 12), TokenResult}

----------------------------------------------------------------------------
(* FrameParser alone. *)

Long == <<4, 5, 0, 0, 0, 0, 3, 3>>
OtherVersion == [PongBytes EXCEPT ![3] = 1]
SofInside == Encode(FrameOf(3, <<4, 5, 0>>))

Pieces == {PongBytes, Damaged(TokenResult), <<4>>, <<4, 5>>, Long, OtherVersion, SofInside,
           SubSeq(TokenResult, 1, 10), Hiding, HidingOne}

Streams == {a \o b \o c : a, b, c \in Pieces}

\* Each program while another one is chosen.
HostRests(stream) ==
  /\ ParserInit /\ pc = "rests" /\ failed = FALSE
  /\ vectors = 1
  /\ uart_case = 0 /\ offset = 0 /\ clock = 0 /\ deadline = 0 /\ received = << >>
  /\ recorder = [capture |-> << >>, results |-> << >>]
  /\ artifacts = [capture |-> NoFile, results |-> NoFile] /\ old_files = artifacts
  /\ line = <<[origin |-> 0, bytes |-> stream]>>
  /\ owing = << >> /\ lost = FALSE /\ origins = << >> /\ missed = FALSE

VectorsRest ==
  /\ generated = << >> /\ vector_files = << >> /\ stray = FALSE /\ rtl_files = << >>
  /\ result_file = << >> /\ command = "none" /\ at = 1 /\ exit_status = 0
  /\ commands = 0 /\ faults = 0

MCInit ==
  \/ program = "runner" /\ HostInit /\ VectorsRest /\ E!ExperimentInit
  \/ /\ program = "parser" /\ (\E stream \in Streams : HostRests(stream))
     /\ VectorsRest /\ E!ExperimentInit
  \/ program = "vectors" /\ HostRests(<< >>) /\ V!VectorInit /\ E!ExperimentInit
  \/ program = "experiment" /\ HostRests(<< >>) /\ VectorsRest /\ E!ExperimentInit

FeedChunk ==
  /\ line # << >>
  /\ LET bytes == line[1].bytes
     IN  \E n \in {1, 7, 30, Len(bytes)} :
           /\ n <= Len(bytes)
           /\ Feed(SubSeq(bytes, 1, n))
           /\ line' = IF n = Len(bytes) THEN << >>
                      ELSE [line EXCEPT ![1].bytes = SubSeq(bytes, n + 1, Len(bytes))]
  /\ UNCHANGED <<host, owing, lost, origins, missed>>

FeedTurn == Turn /\ UNCHANGED <<host, device, origins, missed>>

vector_vars ==
  <<generated, vector_files, stray, rtl_files, result_file, command, at, exit_status,
    commands, faults>>

experiment ==
  <<script, step, exit, options, config, model_file, metadata, model, sdk_imported,
    tracker, wandb_run, raised, environment, output_ids, yielded, printed, replaced,
    starts>>

MCNext ==
  /\ UNCHANGED program
  /\ \/ program = "runner" /\ HostNext /\ UNCHANGED <<vector_vars, experiment>>
     \/ /\ program = "parser" /\ (FeedChunk \/ FeedTurn)
        /\ UNCHANGED <<vector_vars, experiment>>
     \/ program = "vectors" /\ V!VectorNext /\ UNCHANGED <<hvars, experiment>>
     \/ program = "experiment" /\ E!ExperimentNext /\ UNCHANGED <<hvars, vector_vars>>

allvars == <<program, hvars, vector_vars, experiment>>

\* The runner and a script of the experiment that was started run on.
FairStep ==
  /\ UNCHANGED program
  /\ \/ program = "runner" /\ HostStep /\ UNCHANGED <<vector_vars, experiment>>
     \/ program = "experiment" /\ E!ScriptStep /\ UNCHANGED <<hvars, vector_vars>>

MCSpec == MCInit /\ [][MCNext]_allvars /\ WF_allvars(FairStep)

----------------------------------------------------------------------------
(* The properties of VectorFiles and of Experiment. *)

\* What generating, checking and testing the vectors report is so.
VectorVerdicts == program = "vectors" => V!VectorVerdicts

\* W&B never touches the result of an experiment and stops one only where
\* credentials cannot be read; its SDK is used with leave and credentials only.
TrackingHarmless == E!TrackingHarmless

\* What a successful script prints and records is what it did; the model it names
\* is the one it hashed.
RunTruthful == E!RunTruthful

\* What stops an experiment with a model loaded is one of the things named there,
\* and not a configuration that was accepted.
ConfigSuffices == E!ConfigSuffices

\* The runner ends, whatever the device does or fails to do, and so does every
\* script of the experiment, whatever the model and W&B do.
ProgramsEnd == RunnerEnds /\ E!ScriptEnds
=============================================================================
