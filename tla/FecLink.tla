------------------------------ MODULE FecLink ------------------------------
(***************************************************************************)
(* rtl/fec/hamming74_stream.sv and repetition_stream.sv: an encoder stage, *)
(* a channel that disturbs each word as it passes, and a decoder stage.    *)
(* A stage is one output register, replaced only when it is empty or being *)
(* consumed; ready runs through both stages within the cycle.  One step is *)
(* one rising clock edge.  The codec is a parameter.                       *)
(***************************************************************************)
EXTENDS Naturals, Sequences

CONSTANTS
  Words,             \* the data words
  Marks,             \* bound: the values of the last wire
  Errors, NoError,   \* what the channel may do to a codeword
  EncodeWord(_), Disturb(_, _),
  DecodeWord(_),     \* the data and the status
  StatusFor(_),      \* the status an error should be reported with
  Zero               \* the data word of a reset decoder

VARIABLES
  coded,      \* encoder stage: valid, codeword, last
  decoded,    \* decoder stage: valid, data, status, last
  disturbed,  \* history: the error of the word in the decoder stage
  owed        \* history: the words taken in and not yet handed out

vars == <<coded, decoded, disturbed, owed>>

Init ==
  /\ coded = [valid |-> FALSE, word |-> EncodeWord(Zero), last |-> FALSE]
  /\ decoded = [valid |-> FALSE, data |-> Zero, status |-> StatusFor(NoError),
                last |-> FALSE]
  /\ disturbed = NoError
  /\ owed = << >>

decoder_in_ready(out_ready) == ~decoded.valid \/ out_ready
encoder_in_ready(out_ready) == ~coded.valid \/ decoder_in_ready(out_ready)

\* MUTANT: the register is not replaced while its word is being consumed, and
\* the word taken in is lost.
EncoderStage_keeps(in_valid, data, last, out_ready) ==
  IF ~coded.valid
  THEN coded' = IF in_valid
                THEN [valid |-> TRUE, word |-> EncodeWord(data), last |-> last]
                ELSE [coded EXCEPT !.valid = FALSE]
  ELSE coded' = [coded EXCEPT !.valid = ~decoder_in_ready(out_ready)]

EncoderStage(in_valid, data, last, out_ready) ==
  IF encoder_in_ready(out_ready)
  THEN coded' = IF in_valid
                THEN [valid |-> TRUE, word |-> EncodeWord(data), last |-> last]
                ELSE [coded EXCEPT !.valid = FALSE]
  ELSE UNCHANGED coded

DecoderStage(error, out_ready) ==
  LET result == DecodeWord(Disturb(coded.word, error))
  IN  IF decoder_in_ready(out_ready)
      THEN IF coded.valid
           THEN /\ decoded' = [valid |-> TRUE, data |-> result.data,
                               status |-> result.status, last |-> coded.last]
                /\ disturbed' = error
           ELSE decoded' = [decoded EXCEPT !.valid = FALSE] /\ UNCHANGED disturbed
      ELSE UNCHANGED <<decoded, disturbed>>

\* The two handshakes of the edge.
Handshakes(in_valid, data, last, out_ready) ==
  LET left == IF decoded.valid /\ out_ready THEN Tail(owed) ELSE owed
  IN  owed' = IF in_valid /\ encoder_in_ready(out_ready)
              THEN Append(left, [data |-> data, last |-> last]) ELSE left

Clock(in_valid, data, last, error, out_ready) ==
  /\ EncoderStage(in_valid, data, last, out_ready)
  /\ DecoderStage(error, out_ready)
  /\ Handshakes(in_valid, data, last, out_ready)

Reset ==
  /\ coded' = [valid |-> FALSE, word |-> EncodeWord(Zero), last |-> FALSE]
  /\ decoded' = [valid |-> FALSE, data |-> Zero, status |-> StatusFor(NoError),
                 last |-> FALSE]
  /\ disturbed' = NoError
  /\ owed' = << >>

\* The channel acts on a word that passes.
PassingErrors(out_ready) ==
  IF coded.valid /\ decoder_in_ready(out_ready) THEN Errors ELSE {NoError}

Next ==
  \/ Reset
  \/ \E out_ready \in BOOLEAN : \E error \in PassingErrors(out_ready) :
       \/ Clock(FALSE, Zero, FALSE, error, out_ready)
       \/ \E data \in Words, last \in Marks : Clock(TRUE, data, last, error, out_ready)

Spec == Init /\ [][Next]_vars

----------------------------------------------------------------------------
(* Properties. *)

InDecoder ==
  IF decoded.valid THEN <<[data |-> decoded.data, last |-> decoded.last]>> ELSE << >>
InEncoder ==
  IF coded.valid
  THEN <<[data |-> DecodeWord(coded.word).data, last |-> coded.last]>> ELSE << >>

\* Encoder, channel and decoder hold exactly the words they took in and have
\* not handed out: in every pattern of stalls on both sides each word comes out
\* once, in order, with its own last mark, and as it went in although the
\* channel disturbed its codeword.
WordsKept == owed = InDecoder \o InEncoder

\* The status in the output register is that of the word beside it, and names
\* the error the channel made on that word, during a stall too.
StatusTravels == decoded.valid => decoded.status = StatusFor(disturbed)
=============================================================================
