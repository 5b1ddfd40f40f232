----------------------------- MODULE MCStreams -----------------------------
(***************************************************************************)
(* The stream components, one of them chosen at the beginning: the         *)
(* FIFO with its writer and reader, and FecLink with each of the two       *)
(* codes: Hamming(7,4) with every nibble and at most one bit flipped,      *)
(* whose wire `last` is tied low, and R=3 repetition of two-bit words with *)
(* at most one copy of each bit flipped (an error says which copy, 0 for   *)
(* none).  The links' history of words under way is `passing`.  With       *)
(* component "Codecs" the codecs are called with one bit string after      *)
(* another, the call standing in `coded`.                                  *)
(***************************************************************************)
EXTENDS StreamFifo, FecReference

VARIABLES component, coded, decoded, disturbed, passing

link == <<coded, decoded, disturbed, passing>>

HammingWord(d) == HammingEncoder[d]
HammingResult(c) == HammingDecoder[c]
HammingDisturb(word, error) == IF error = 0 THEN word ELSE Flip(word, error)
HammingStatus(error) == error

\* The codec as tables, which TLC computes once.
RepetitionEncoder == [d \in [1 .. 2 -> Bit] |-> RepetitionEncode(d, 3)]
RepetitionDecoder == [c \in [1 .. 6 -> Bit] |-> RepetitionDecode(c, 3)]
RepetitionWord(d) == RepetitionEncoder[d]
RepetitionResult(c) == RepetitionDecoder[c]
RepetitionDisturb(word, error) ==
  [i \in DOMAIN word |->
     IF error[(i - 1) \div 3 + 1] = ((i - 1) % 3) + 1 THEN 1 - word[i] ELSE word[i]]
RepetitionStatus(error) == [i \in 1 .. 2 |-> error[i] # 0]

H == INSTANCE FecLink WITH
  Words <- [1 .. 4 -> Bit], Marks <- {FALSE}, Errors <- 0 .. 7, NoError <- 0,
  Zero <- <<0, 0, 0, 0>>, EncodeWord <- HammingWord, DecodeWord <- HammingResult,
  Disturb <- HammingDisturb, StatusFor <- HammingStatus,
  owed <- passing

R == INSTANCE FecLink WITH
  Words <- [1 .. 2 -> Bit], Marks <- BOOLEAN, Errors <- [1 .. 2 -> 0 .. 3],
  NoError <- <<0, 0>>, Zero <- <<0, 0>>, EncodeWord <- RepetitionWord,
  DecodeWord <- RepetitionResult, Disturb <- RepetitionDisturb,
  StatusFor <- RepetitionStatus, owed <- passing

\* The FIFO of the runs about a link stays empty, and its memory is one value.
Resting == WInit /\ storage = [s \in Slots |-> CHOOSE d \in Data : TRUE]

MCInit ==
  \/ component = "Fifo" /\ WInit
     /\ coded = 0 /\ decoded = 0 /\ disturbed = 0 /\ passing = << >>
  \/ component = "Hamming" /\ H!Init /\ Resting
  \/ component = "Repetition" /\ R!Init /\ Resting
  \/ component = "Codecs" /\ Resting
     /\ coded = << >> /\ decoded = "idle" /\ disturbed = 0 /\ passing = << >>

\* One call and its return.
Call ==
  /\ decoded = "idle" /\ decoded' = "called" /\ coded' \in Calls
  /\ UNCHANGED <<wvars, disturbed, passing>>

Return ==
  /\ decoded = "called" /\ decoded' = "idle" /\ coded' = << >>
  /\ UNCHANGED <<wvars, disturbed, passing>>

MCNext ==
  /\ UNCHANGED component
  /\ \/ component = "Fifo" /\ WNext /\ UNCHANGED link
     \/ component = "Hamming" /\ H!Next /\ UNCHANGED wvars
     \/ component = "Repetition" /\ R!Next /\ UNCHANGED wvars
     \/ component = "Codecs" /\ (Call \/ Return)

allvars == <<component, wvars, link>>

MCSpec == MCInit /\ [][MCNext]_allvars

\* FecLink's WordsKept and StatusTravels of either code: each word comes out
\* once, in order, as it went in, whatever the stages' stalls and the channel's
\* error, and a syndrome or a mask of unanimous copies stays with its own word.
CodedWordsKept ==
  CASE component \in {"Fifo", "Codecs"} -> TRUE
    [] component = "Hamming" -> H!WordsKept /\ H!StatusTravels
    [] component = "Repetition" -> R!WordsKept /\ R!StatusTravels

\* The RTL's codecs and the Python reference, written apart from each other,
\* do the same with every call.
CodecsAgree == component = "Codecs" /\ decoded = "called" => Agrees(coded)
=============================================================================
