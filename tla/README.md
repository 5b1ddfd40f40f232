# A verification project for llm-token-fec-fpga

The repository sends frames over a UART to an FPGA design, which answers PING
and runs the token record of a TOKEN_REQUEST through an error-correcting code.
Around the design stand the reference software in Python and C++, a host that
talks to it, the generation and evaluation of test vectors, and a
language-model experiment. This directory models the FPGA data path in TLA+,
from the UART pins to the codecs, and these programs, checks them with TLC and
proves the core of them with TLAPS. Paths below are paths of the repository.

## The system

| component | state it keeps | operations | talks to |
| --- | --- | --- | --- |
| `rtl/common/uart_rx.sv`, `uart_tx.sv` | bit and clock counters, shift register, one output byte | sample, shift, one byte in or out | pins, FIFOs |
| `rtl/common/stream_fifo.sv` | storage array, two pointers, a count | push, pop, both, reset | UART on one side, frame pipeline on the other |
| `rtl/common/crc32c_stream.sv` | CRC register, one result slot | byte, result taken, reset | inside receiver and transmitter |
| `rtl/common/frame_rx.sv` | parse state, header, payload memory, idle counter, four error counters | take a byte, idle, time out, compare, offer frame, offer payload | FIFO, pipeline |
| `rtl/common/frame_tx.sv` | send state, header, remaining length, CRC feed register | accept a header, send a byte, wait for the CRC | pipeline, FIFO |
| `rtl/fec/*` | an output register per stage | encode, decode, stall | handler (codecs only), testbenches (stages) |
| `rtl/common/token_request_handler.sv` | request and response buffers, lengths, mode, counts, indices | accept, collect, validate, walk extensions, run the codec, answer | pipeline |
| `rtl/top/frame_pipeline.sv` | payload route, token_in_flight, handler_error_count | answer PING, route, drop, order responses | receiver, handler, transmitter |
| `rtl/top/uart_frame_pipeline.sv` | reset synchroniser, two counters | framing-error reset, overflow count | all of the above |
| `sw/common/protocol.py`, `sw/cpp/src/protocol.cpp` | buffer, errors seen | feed a chunk: search, wait, refuse, hand out frames | host, vectors |
| `sw/fec`, `sw/common/bits.py`, `crc32c.py`, `types.py` | none | encode, decode, pack, unpack, or raise | vectors, host |
| `sw/cpp` UART host | case in progress, deadline, bytes received, two reserved files | load, reserve, open the port, write and read under a deadline, record, save | the device, a terminal, files |
| `sw/evaluation`, the vector and RTL test scripts | vector files, converted text files, a result file | generate, check, convert, run a testbench, evaluate | each other by files |
| `sw/experiment` and its scripts | configuration, model, tracker, W&B run | validate, download, hash, load, generate, log, finish | llama.cpp, hub, W&B |

All RTL modules share one clock and hand data over with valid/ready wires, so
the interaction is: many registers change at one edge, each from wires computed
of the state before the edge. What is hard is what spans several edges and
several modules: a byte that reaches the CRC a cycle after it was sent, a CRC
result that outlives the frame it belongs to, buffers that a reset leaves
alone, a PING that overtakes a token request, a payload nobody drains. The
programs share files and a serial line with what they do not control: answers
come late, writes are partial, any program can be killed between two files, an
artifact can be another one when it is opened again.

What must hold: a FIFO is a queue; the receiver passes on exactly the frames
that were sent intact; the transmitter sends exactly the encoding of what it
was given; the handler's answer is determined by its own request; responses
leave in the order of their requests, once each; a byte is read with its own
bits by a receiver with another clock; a framing error costs the frames in
flight and nothing after them; no frame in a stream is passed over by the
software's parser; a result file or an exit status says what happened; tracking
is out of the experiment's way.
`PROJECT.json` lists every hazard at its line with the properties for it.

## The modules

One TLA+ step of a component is one rising clock edge. The inputs of the module
at that edge are the parameters of its `Clock` operator, its combinational
outputs are operators over the state, its registers are the variables. So a
module can be run alone with every input (`Next`), behind a small environment
(`...Wire`), or inside a larger design that computes its inputs.

| module | models | role |
| --- | --- | --- |
| `BoundedQueue` | | abstract: what a FIFO promises |
| `StreamFifo` | `stream_fifo.sv` | refines `BoundedQueue`; history `owed` |
| `FrameV0` | `protocol_pkg.sv`, `serialize_frame` | bytes, frames, `Encode`; the CRC function is a constant |
| `Crc32cStream` | `crc32c_stream.sv` | the engine, instantiated twice |
| `FrameRx` | `frame_rx.sv` | the receiver; one action per state |
| `FrameRxWire` | | a wire before it and a consumer behind it; history `heard`, `lost` |
| `FrameTx` | `frame_tx.sv` | the transmitter |
| `FrameTxWire` | | a source and a wire; history `job`, `used`, `sent` |
| `Fec` | `hamming74_*.sv`, `repetition_encoder.sv`, `majority_decoder.sv` | the codes, bit by bit |
| `FecLink` | `hamming74_stream.sv`, `repetition_stream.sv` | encoder stage, channel, decoder stage; history `owed`, `disturbed` |
| `TokenRequestLayout` | VALIDATE of `token_request_handler.sv` | the checks as predicates on the buffer |
| `TokenProtocol` | `sw/common/types.py` | what the Python reference packs and unpacks, and the answer due |
| `RequestService` | | abstract: what the handler promises |
| `TokenRequestHandler` | `token_request_handler.sv` | the handler |
| `TokenRequestHandlerWire` | | requests and bounds; refines `RequestService` |
| `FramePipeline` | `frame_pipeline.sv` | composes `FrameRx`, `RequestService`, `FrameTx` |
| `FramePipelineWire` | | a host and a wire; history `owed`, `refused` |
| `ByteSender` | | abstract: when the transmitter takes a byte, how long it is busy |
| `UartTx` | `uart_tx.sv` | refines `ByteSender` |
| `UartRx` | `uart_rx.sv` | synchroniser, states, output register |
| `UartLink` | | transmitter and receiver with two clocks; history `lag`, `onwire`, `held` |
| `UartRxLine` | | the receiver of `UartLink` cut off from the transmitter, on a line that does what it likes |
| `FrameService` | | abstract: what the frame pipeline is to the FIFOs beside it |
| `UartFramePipeline` | `uart_frame_pipeline.sv` | composes `UartRx`'s output register, `BoundedQueue` twice, `FrameService`, `ByteSender`; reset synchroniser, counters |
| `UartFramePipelineWire` | | any bytes, framing errors and resets, or a host that sends whole frames with a limited number unanswered; history `arrived`, `emitted`, `stale`, `lost`, `broken`, `unsent`, `due` |
| `FecReference` | `sw/fec`, `sw/common/bits.py`, parity | the reference codecs on whole bit strings, and `Agrees` with `Fec` |
| `Crc32c` | `crc32c.py`, `crc32c_byte` | CRC-32C bit by bit, at 32 bits |
| `FrameParser` | `protocol.py`, `protocol.cpp` | `parse_frame` and each turn of `FrameParser.feed` |
| `UartHost` | `uart_vector_runner.cpp`, `uart_transaction.cpp`, `win32_serial.cpp`, `uart_artifacts.cpp`, `uart_vector_cases.cpp` | a run of the runner against an external device; history `origins`, `lost`, `missed`, `old_files` |
| `Evaluation` | `results.py`, `schema.py`, `evaluate_reference_results.py` | what is read and refused, and the exit status |
| `VectorFiles` | `vectors.py`, `rtl_vectors.py`, the generating and testing scripts, the eight testbenches that read vector files | scripts one after the other, killed and edited between |
| `Experiment` | `config.py`, `qwen3_cpu.py`, `wandb_tracker.py` and three scripts | one script after the other on one model file |
| `MCStreams`, `MCFrames`, `MCSoftware` | | one of several components each, chosen in the first state |
| `MCTokenRequestHandler`, `MCFramePipeline`, `MCUartFramePipeline` | | constants for TLC |
| `StreamProofs`, `FrameV0Proofs`, `FrameRxProofs`, `FrameTxProofs`, `FramePipelineProofs`, `FrameEndsProofs`, `UartLinkProofs`, `UartFramePipelineProofs` | | the theorems |

The pipeline contains the abstract handler, not the detailed one: the handler's
runs show that it implements `RequestService`, and the pipeline's runs use
nothing else of it. The time the handler takes is the free input `done`.

The UART top level is composed of abstractions too: `BoundedQueue` and
`ByteSender`, which `StreamFifo` and `UartTx` are proved to implement for every
depth and divisor, and `FrameService`, which keeps of the frame pipeline what
the FIFOs see of it: it collects one frame while the replies to at most two
others are made and sent, and then takes no more bytes. A frame is accepted when
no reply is left, and may be as soon as the one before only has to leave: a
request while a PONG is sent, or while the CRC of the response before it is. A
frame that is dropped is one whose answer is empty. `ImplementsFrameService`,
checked in run `frame_pipeline` and proved, says that `FramePipeline` implements it, for frames that
arrive whole; what the receiver makes of other bytes is the subject of `frames`.
`FrameService!Next` leaves open how many cycles each thing takes. `Clock`, which
the top level uses, accepts a frame in the cycle after its last byte when it
must; the pipeline needs as many more cycles as it has payload bytes to hand on,
in which a UART brings less than the FIFO holds. Of the UART receiver the top level has the
output register, with `UartRx`'s own operators; that a byte ends, and with which
stop bit, is the choice of the environment, at most once in `LINE_CYCLES`
cycles. The external reset is asynchronous, so `AssertReset` and `ReleaseReset`
are steps between two clock edges.

The programs. A call of `feed` is `Feed` and then one action per turn of its
loop. `UartHost` contains `FrameParser`, as the runner does, and `Evaluation`,
which judges the files it leaves. What the device sends for a request, and when,
is free: an answer may be right, wrong, damaged, late, split or missing, and
answers of an earlier run may still come. `Killed` can end the runner at any
step. In `VectorFiles` each script is a list of stages, each of which reads or
writes one file; a kill between two, or in one, leaves the rest as it was. The test
scripts run all of their testbenches in the order of the script: parity, repetition
and Hamming in `test_rtl.ps1`; frame receiver, frame transmitter, token handler and
pipeline in `test_frame_rtl.ps1`, the first three of them on `protocol.txt`; UART
transmitter, UART receiver (which read no file) and UART pipeline in
`test_uart_rtl.ps1`. In
`Experiment` the SDK of W&B, the hub, git, llama.cpp and standard output raise or
return whatever their callers handle or do not handle.

Conventions. Wires keep the names of the code; a state is a string with the
name of its `STATE_` constant. Multi-byte fields that are only passed through
are byte sequences. `reset` is an action of its own, since it wins over every
other input. Memories keep their content over a reset and start with any
content. A definition marked MUTANT is a broken variant of the one after it:
it is not used by the model and shows that a property can fail.

## The runs

| run | question | instance and why it is enough |
| --- | --- | --- |
| `streams` | Is the ring a queue? Are codec stages a queue with the right status? Do RTL and reference codecs agree? | three words, depth 3: not a power of two, holds full, empty and wrapped states in all positions; Hamming: all nibbles and all single-bit errors; repetition: two-bit words with one error per group; the calls of `FecReference` |
| `frames` | Does the receiver pass on what was sent and nothing else, count each discard once, and come to an end? Does the transmitter send the encoding? | bytes of three values (so SOF bytes occur in headers and payloads), payloads up to 2, timeout after 2 idle cycles, bad lengths 3 to 5, a three-state CRC that wrong bytes do hit, counters modulo 2 so they wrap; at the transmitter every payload under two headers, and one oversized offer |
| `token_handler` | Is each answer that of the reference, whatever came before, and does it come? | real offsets and sizes; 5 valid requests of all modes, with and without extensions, and 32 with one flaw or wrong framing, in all ordered pairs; resets at any cycle of three of them; the injected bit 340 lies beyond the two shortest coded streams and inside the other three |
| `reserved_fields` | Are reserved fields ignored as documented? | expected violation, see below |
| `frame_pipeline` | Do responses leave once, in order, and in the end? Is the pipeline the `FrameService` of the top level? | three frames of six kinds (PING, PING with flags, three requests, unknown type with payload): a third frame arrives while the first two are in receiver, handler and transmitter |
| `uart_link` | Are bytes read with their own bits, taken and ended in time? | 24 cycles per bit at the receiver, 23 to 25 at the sender, chosen anew for each bit: 4 % off, where the last sample is a bit and more from both ends of the stop bit; each change may be seen a cycle late; bytes 00, ff and alternating bits |
| `uart_line` | Does the receiver find back from any line? | 4 cycles per bit, five changes of level, at any distance |
| `uart_pipeline` | Is a byte ever in no place or in two? Do whole frames get their replies, whatever was disturbed before? | frames of one and two bytes, FIFOs of two (the receive FIFO holds exactly one largest frame), a byte every two cycles against three at the transmitter, so both FIFOs fill; counters up to 5; resets of any length; on the host's line five frames, three unanswered, any byte disturbed |
| `framing_discard` | Is the partial frame discarded? | expected violation, see below |
| `software` | Does the runner take only a device's own answers, and do its files tell the truth? Does the parser find every frame? Do the verdicts of the vector scripts mean what they say? Is tracking harmless? Does every program end? | see below |
| `tracking_stops` | Does tracking never stop an experiment? | expected violation, see below |
| `recorded_limit` | Is the limit recorded the limit used? | expected violation, see below |

The instance of `software`, program by program. *Runner*: seven vector files (the
tracked kind with a PONG and a TOKEN_RESULT that reports a correction, one with a
wrong status, five that are refused for one reason each); right, damaged,
wrong, incomplete answers and ones that hide two frames behind a false header;
whole and partial answers left from before; a deadline of two ticks, so that an
answer comes before it, with it and after it. *Parser*: every stream of three out
of ten pieces (whole, cut, damaged, false, hidden, too long), fed in chunks of 1, 7,
30 bytes and all at once; bytes of six values and payloads of up to 20, which the
pieces that hide two frames need. *Vectors*: the generated sets at their real bit
lengths, with 65 bytes in place of 1024 as the longest payload (the request for a
token has 64); two scripts one
after the other and one kill or edit. *Experiment*: two starts, one of which may
find the model file replaced; an empty prompt and ones of one and three tokens in a
context of three, so that limits fit, fit exactly and do not; limits absent, 0 and 3;
W&B modes; base URLs with a host, without one and malformed; up to two netrc files,
each refused, undecodable, without or with a password, or no home directory. The
configurations are the tracked document, the same with tracking enabled, and
the two with any one value replaced by each of twelve kinds, missing, or added.

Bounds are constants: `Offered` (bytes per receiver state), `Offers`,
`Sendable` (frames or requests), `MaxRequests`, `MaxFrames`, `MaxOutstanding`,
`Resettable`, `Marks`, `Bytes`, `MaxEdges`, `MaxCount`, `PowerUpBytes`; of the
software `VectorFiles`, `Answers`, `Stale`, `MaxPayload` (in `MCSoftware` `LongestPayload`), `MaxCommands`,
`MaxFaults`, `Prompts`, `Limits`, `Modes`, `BaseUrls`, `MaxStarts`,
`MaxReplaced`, `ContextSize`. Counters wrap at `COUNTER_MODULUS` (2^32 in the code).
The handler is deterministic between its inputs and a stall leaves its state
unchanged, so stalls cost no states there; they are all included. The cfgs
of the software say `CHECK_DEADLOCK FALSE` because programs end.

Fairness. The clock runs, so a cycle with given inputs is weakly fair. Beyond
it each liveness run assumes only that the other side of a handshake goes on:
in `frames` the consumer of `FrameRx` takes what it is offered, the payload
source of `FrameTx` has the payload it announced and the wire takes bytes; in
`token_handler` the pipeline delivers a payload it has begun and takes the
answer. Nobody is assumed to send anything: that a reception ends (`FramesEnd`)
relies on the timeout alone. The UART runs assume the clock, and `AnswersLeave`
that the handler finishes; the host may stop in the middle of a frame. Of the
programs the runner and a script of the experiment that was started are
assumed to run on (`HostStep`, `ScriptStep`): its own steps and the passing of
time, neither an answer of the device nor an end-of-sequence token.

### What the runs show

* The FIFO, receiver, transmitter, codec stages, handler and pipeline behave as
  stated at the properties.
* The runner's exit status 0 means that each response was the device's answer
  to that very request (`OwnAnswers`), with two exceptions the property names: a
  device that loses a request while an old answer is still under way, and a file
  that asks for one and the same response throughout. Its two files tell what
  happened wherever it fails or is killed (`ArtifactsTruthful`), and the offline
  evaluation accepts them only if the device's bytes were those of the vectors
  (`EvaluationSound`).
* The parser rescans from the byte after a false start and so finds frames that
  the receiver, which goes on behind the discarded bytes, does not
  (`FindsEveryFrame` against `DiscardsOnlyBadFrames`).
* `generate` rewrites five files in place; killed in the middle it leaves a set
  that `--check` refuses, and the test scripts, which do not call `--check`,
  refuse a file cut short and judge each file they can read by what it says
  (`VectorVerdicts`). What a testbench asks of its file differs: the receiver's wants
  a frame of full length whose payload counts up, the transmitter's one of full
  length, the token handler's a TOKEN_REQUEST and the TOKEN_RESULT that belongs to it.
* The token handler's testbench has no limit on the cycles it waits: where the
  TOKEN_RESULT in the file has another length than the handler's reply, it and the
  script wait for ever. `VectorVerdicts` is about the scripts that come to a verdict.
* `RunTruthful` says that a script which succeeds names the file it hashed. That this
  is the file it loaded is not checked by the code, which opens the path twice; it
  holds when nothing was put in its place in between, and the property says so.
* A configuration that was accepted can still end a script with a model loaded.
  `ConfigSuffices` lists the ways: among them a limit that falls inside a character,
  a prompt and limit that outgrow the context, an undecodable commit, credentials
  that cannot be read.
* `tracking_stops` finds that credentials are looked for outside the try block: with
  tracking enabled and no API key the script ends with a traceback when `urlparse`
  rejects the base URL, when a netrc file is not text (`UnicodeDecodeError` is none of
  the exceptions caught), and when no home directory is found, against the comment at
  `sw/experiment/tracking/wandb_tracker.py:246`. `TrackingHarmless` says that this
  lookup is the only step of the tracker that stops a script, and in these cases only.
* `recorded_limit` finds that the W&B run records the configuration's token limit
  where `--max-tokens` sets another, against `docs/EXPERIMENTS.md:48`.
* `reserved_fields` finds the disagreement with `docs/TEST_PROTOCOL_V0.md:49`:
  reserved fields are to be ignored on reception, and the Python reference
  skips them, but the handler refuses a request with a reserved byte set.
  `AllowedReplies` therefore lets such a request be answered by an error; for
  all others handler and reference agree.
* `framing_discard` finds that not all of a partial frame is discarded at a
  framing error, against `docs/TEST_PROTOCOL_V0.md:230`: a byte that waits in
  the UART receiver before a full FIFO stays, and leads the stream after the
  error. It takes a full receive FIFO, and a byte before a SOF is skipped, so
  `AnswersInOrder` holds for a host that does not fill it.
* `internal_overflow_count` counts cycles in which a FIFO refuses a word, also
  where the word only waits and nothing is lost (the pipeline before the
  transmit FIFO). `ErrorsCounted` therefore bounds the losses by the counter
  and does not equate them.

Which of several flaws is reported is not fixed by the reference, so
`AllowedReplies` allows the flag of any of them; a request with one flaw has
exactly one allowed answer.

## The proofs

Each theorem holds for every value of the constants that the named assumptions
admit; TLC evaluates the assumptions in the runs, so each is met by an instance.

`StreamProofs` (FIFO, codes and stages). For every set of words and every depth
of at least 2: `Invariance` (`TypeOK` and `PointersAgree`), `Refinement` (the
FIFO implements `BoundedQueue`) and `HandshakesKept` (`WordsKept`).
`BoundedQueue` cannot see the handshakes, so a FIFO that took a word and dropped
it would still refine it; `WordsKept` says that this does not happen either.
`PointersAgree` says that the write pointer is the read pointer plus the count,
modulo the depth; the types alone do not exclude a count that disagrees with the
pointers. Each edge is one of four cases (push, pop, both, neither); `EdgeSlots`
says where the slots of the queue lie after it, `EdgeContents` what they hold.
`LinksCorrect` (`CodedWordsKept`) is for words of the real width, every nibble
and every pair of bits, and any sequence of them and of errors: `HammingCorrects`
and `RepetitionCorrects` say of each single error that the word comes back with
the status that names it, bit by bit, and the invariant that the two stages are a
queue of two.

`FrameV0Proofs` (the format) has no theorem of its own, only what the others
cite: which byte stands at each place of `Encode` (`EncodeBytes`, `EncodeProtected`,
`ProtectedBytes`), that a pair of bytes and the length it stands for determine each
other (`ValueOfPair`, `PairOfValue`), what a frame and its encoding hold (`FrameFacts`,
`EncodePlaces`), and that the CRC of one more byte is one more
step of the register (`CrcAfterAppend`). The last needs the value of the recursive
function inside `CrcAfter`: the library's induction takes an operator as argument,
so `Induction` states it for a set of naturals, from the well-foundedness of `<`, and
`RunExists`, `RunUnique` and `AfterRun` take that one function apart.

`FrameRxProofs`, for every radix, payload bound, timeout, counter width and CRC
function allowed by the assumptions of `FrameV0` and `FrameRx`: `TypeCorrect`,
`ResultIsOwned`, `InputStaysOpen`, whose invariant is
`IInv == TypeOK /\ ResultOwned`. `ResultOwned` says in which states the engine
holds a result. The input stays open since no state that feeds the engine is one
of them, and the one state that could be (after a timeout) clears the engine in
its first cycle. `FaithfulFrameCorrect` (`FaithfulFrame`), `DiscardsOnlyBad`
(`DiscardsOnlyBadFrames`) and `DiscardsAreCounted` (`DiscardsCounted`) need what the
registers mean, `WInv == IInv /\ Heard`: in each state the bytes heard since the SOF are the encoding of
the header and payload registers so far and the engine's state is the CRC of the
protected ones; memory beyond the write index is left open, as an earlier
frame may have filled it.

`FrameTxProofs`, for every radix, payload bound, CRC function and set of offered
frames: `ControlCorrect` (the feed register is never refused, the result comes
when it is awaited, types) and `EncodingCorrect`: what has left is a prefix of
`Encode(job)`. The invariant `Control /\ OfJob /\ SentFirst /\ CrcFollows` says what
the registers hold of the job, how many of its bytes have left in each state, and
that the engine holds the CRC of the bytes sent without the one in the feed
register, which reaches it a cycle later. `TransmitterCorrect`
of `FrameRxProofs` carries this over to the instance in `MCFrames`, the
specification run `frames` checks.

`FramePipelineProofs` (the pipeline between a host that sends frames and a wire), for
every radix, payload bound, CRC function and set of frames. `RoutingCorrect`
(`RoutingAgrees`) uses of the handler only that it refines `RequestService` under
`RepliesAssumption`: a response has a payload, and one that fits in a frame; neither the
timeout nor the number of answers matters to it. `RxStep`, `HandlerStep` and
`TxStep` say what an edge does to each part by itself, as far as the others see it;
`RoutingClock` joins them by the wires. `RoutingAgrees` is not inductive by itself:
`RoutingInv` adds that the indices of the three parts are below the length they run
to, and that a transmitter which still expects payload bytes has a handler that is
giving them, without which a PONG and a response could not be told apart.

`ResponsesComeInOrder` (`ResponsesInOrder`), `RefusalsAreCounted` (`RefusalsCounted`)
and `PipelineServes` (`ImplementsFrameService`) say what the data are. They need
four assumptions more, which `FramePipelineWire` names: the message types are bytes
and differ where the pipeline tells them apart (`TypesAssumption`); the handler answers a
request with one frame (`ReplyAssumption`: the RTL does, and where `AllowedReplies` lets
several flags pass it is the reference that leaves the choice open); the
idle timeout is off, which is the default of the parameter
(`PatienceAssumption`: a host that pauses too long loses its frame, and nothing is
owed for it); the width of the counter. The invariant `PInv` has three parts beside `RoutingInv`.
`ReceiverInv` says which bytes of the host's frame have come and what state, header,
memory and CRC register are after them (`Receiving`), until the frame stands complete
before the handler. `HandlerInv` says that what the handler has collected is the
beginning of that frame's payload. `OwedInv` is the ledger: `owed` is the rest of the frame on the wire,
then the frame the handler owes (`HdOwes`), then what the complete frame in the receiver
asks for (`RxOwes`), and nothing else; and `refused` is the counter once the refusals
among those have been added (`Counted`). `Fronting` says what the rest on the wire is:
the bytes of the reply, or of a PONG, that have not left, the CRC of which is in
the engine or the feed register. `Served` shows that an edge moves a frame from
receiver to handler and from handler to transmitter and drops or doubles none, `OwingStep` that with this
the ledger balances after it, whether a byte has left or not; `Tallied` is the same for
the counter. For the refinement `View` rewrites the mapping in these terms: the
bytes collected are a prefix of the current frame, and the replies accepted are the
ledger without its last part. That a prefix is a complete frame only at its end is
`FramesDiffer`: no frame is the beginning of another one. `PauseServes` and
`SendServes` show that a cycle without and with a byte is a step of the service.

`FrameEndsProofs` (the parser, the runner and the experiment), for
every radix, payload bound and CRC function. Of the parser: `Bounded` (`BufferBounded`) and `MissesNone`
(`FindsEveryFrame`). The invariant is the types and the bound. For a turn that
refuses a candidate, `CandidateIsFrame` says that a complete candidate with which
a frame may begin is one, so that `parse_frame` does not refuse it; `NoFrameBefore` that no frame begins before the first SOF;
`EncodeParsed` that encoding what was parsed gives back the bytes. `MayBegin`
speaks of one place in the buffer, so what is proved is that no byte is given up
wrongly in any turn, and with it that the sum of all turns loses no frame.

Of the runner: `ArtifactsAreTruthful` (`ArtifactsTruthful`) and `EvaluationIsSound`
(`EvaluationSound`), for every sequence of vector files, every set of answers and
of bytes left from before (`VectorsAssumption`, `AnswersAssumption`: records of the
fields' types, byte strings), every deadline and every reading of the status
flags. The invariant is `HostInv`: `ProgressOK` says where in the file the run is
and that what is on the line are bytes; `RecorderOK` that there is one result
for each case behind, in order, whose output is that of an accepted response, and that the
outputs of all of them are the first bytes of the capture; `FilesOK` which of the
two files exist at each step and what they hold; with them the parser's own
invariant, since the runner feeds it. Most of the work is in joining byte strings:
`FlattenSeq` is a recursive function, and `FlattenMore` says for the values met
here what one more string adds. `AcceptedMeans` says that a response which agrees
with the expected bytes after parsing does so before it, since parsing and
encoding undo each other (`ParsedEncode`, `EncodeParsed`); `UniqueIds` that as many different
case IDs as records tell the records apart, which is what the evaluation's map
from case IDs relies on.

Of the experiment, for every set of modes and base URLs and all prompts, limits and
contexts that are numbers (`LimitsAssumption`): `SuccessIsTruthful` (`RunTruthful`),
`AcceptedIsEnough` (`ConfigSuffices`) and `TrackingIsHarmless` (`TrackingHarmless`).
All three properties name their exceptions themselves: the replaced file, what stops a
script with a model loaded, the lookup of credentials. For the last
`CredentialKinds` says what the lookup can end with, and `TrackRaises` that the start of
the tracker raises only where credentials cannot be read. `ExperimentInv` says step by step what configuration, metadata, model, tracker
and run have become of each other: which of them exist yet, that the metadata name
the verified file, that the limit in force is positive and not yet reached
while another token may come, that the
tokens kept are the first of those handed out.

`UartLinkProofs`. For every divisor: `TypeCorrect`, and `Implementation` (the
transmitter implements `ByteSender`), by the number of cycles left, `Remaining`.
For every pair of divisors and every drift within `SamplingAssumption`:
`LinkCorrect` (`BytesRead`) and `LinkAccounts` (`BytesAccounted`). With C the
receiver's divisor, D the transmitter's and L the most cycles it may fall behind
in a bit, the assumption is `D >= 4`, `9 (D + L) + 1 <= C / 2 + 9 C` and
`C / 2 + 9 C + 2 <= 10 D`: at its sample of the stop bit neither the slowest nor
the fastest transmitter has left it, one cycle of uncertainty at the start bit
included. It is sharp: 23 and 24 cycles with two of lag, the instance of run
`uart_link`, meet it with equality, and one more cycle of lag, or 22 and 24, or 2
and 2 cycles, violate `BytesRead`. The invariant `LInv` says of the two ends that the
receiver waits on a quiet line (`Quiet`), or has a place in the byte at the
transmitter which `Reached` and the two clocks bound from both sides (`Locked`), or
is still in the stop bit of a byte that the transmitter has ended (`Overlap`).
For the receiver alone on any line, where of the assumptions only the least divisor,
two, is used: `QuietLine` (`Resynchronises`) and `BrokenLine` (`BreakReported`). The receiver
has no notion of what the line did; the invariant `LineInv` bounds how far it can be
from the pin: `Pace` says that the place in the byte that the receiver believes
in advances with every cycle the level has lasted, `StartInTime` that the check of a
start bit ends at its middle. The bound of nine bits is what is left of a byte whose start
was sampled in the last cycle before the line came to rest.

`UartFramePipelineProofs`, for every depth, frame format and line rate, on a line
that brings any bytes: `HandedOver` (`BytesKept`), `ResetReaches`
(`ResetReachesAll`) and, while no counter wraps, `ErrorsAreCounted`
(`ErrorsCounted`). The first invariant adds to the two properties that the first
stage of the reset synchroniser is never set without the second; `ArriveStep`
splits the edge by framing error, byte handed over or held back, and byte
ending. The second says when the counters and the histories are both cleared.
On the line of a host: `HostServed` (`AnswersInOrder`) and `HostNeverRefused`
(`NothingRefused`), under `HostAssumption`: a byte ends at most every second cycle
(a divisor is two at least and a byte has ten bits), a FIFO has two places, no
frame begins with another one (`FramesDiffer` of `FramePipelineProofs` shows it of this format), and three
frames at most are unanswered. The invariant `HInv` follows a frame through all
places at once. `Flow` says of the bytes on the receiving side that they are the
rest of the frames not yet accepted, then the part of the frame that is being
sent. `Fits` says of the replies due that they are those behind the pipeline
complete (`E`), one that has left the pipeline in part (`x`), those in the
pipeline, and those of the frames not yet accepted. `Room` is why nothing is
refused: with three frames outstanding a full FIFO and a complete frame before
it mean that a reply is on its way, so a place becomes free in the cycles before the
next byte can end. In the cycle after a disturbed byte everything is given up, and
`Clean` holds again with nothing under way.

Model-checked only: liveness and fairness, which with ENABLED are out of the
provers' reach; the handler (`ImplementsService`, `AcceptsPacked`);
`CodecsAgree`, a comparison with codecs that are folds over bit strings of any
length; `OwnAnswers`, whose histories are about the device, and only hold for one that
answers as the instance does; and `VectorVerdicts`, a statement about the bits of the
generated sets. What CRC-32C computes is never used: where it occurs the CRC is
an arbitrary function.

## Not modelled, and the plan

Not modelled: `input_empty` of the CRC engine and `underflow_attempt` of the FIFO
(no instance uses them); the bitwise step inside `Crc32cStream` (a constant
there, `Crc32c` has it at 32 bits); the records of `sw/cpp/src/types.cpp`, a
copy of `sw/common/types.py`; `next_sequence`, which nothing calls; what
llama.cpp, the hub and W&B do inside, a generator that raises for another reason than
the context; the commit itself and the other text fields of a run's record;
`generate_protocol_constants.py`, which turns a JSON file into source
text; developer tooling (bootstrap, work items, environment check); the
cases for which a testbench has stimuli of its own, and the benches that read no file
(`uart_tx` and `uart_rx` of `test_uart_rtl.ps1`, which count as passed, and the three
of `test_streaming_rtl.ps1`, which is not modelled). Of the ways in which a vector
file may be edited there are eight: of every file's last record a wrong expected
output, one more error, a length that is no whole byte, a record pasted over another (not in `protocol_pipeline`, whose benches take each
record by itself); and of the frames no TOKEN_REQUEST, a TOKEN_RESULT that is not the
request's, of the same length or longer, and a longest frame whose payload does not
count up.

Left, in order:

1. `OwnAnswers` for a device described by what it may do, in place of the sets
   `Answers` and `Stale`, which say it by example.
2. The types of the handler and `AcceptsPacked`; `CodecsAgree` per word.
3. A bound on the cycles in which the pipeline takes no byte, so that `FrameService`
   could promise it and the top level need not assume it.
4. The pipeline with the idle timeout on, where a host that pauses too long loses its
   frame and only `frames` says what the receiver makes of the rest.
