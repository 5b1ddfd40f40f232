--------------------------- MODULE UartLinkProofs ---------------------------
(***************************************************************************)
(* Proofs about the UART transmitter, for every divisor, and about the     *)
(* link of the two UARTs, for every two divisors and every drift within    *)
(* the margin: every byte is read as it was sent.  The invariant says how  *)
(* far the receiver is behind the transmitter, cycle by cycle, and what    *)
(* its flops can hold by then.  Last, about the receiver on any line, for  *)
(* every divisor: nothing of the transmitter or of the margin is used.     *)
(***************************************************************************)
EXTENDS UartRxLine, SequenceTheorems, TLAPS

\* Zero is a value of both counters.
LEMMA Zero == 0 \in 0 .. CLKS_PER_BIT - 1 /\ 0 \in 0 .. 9
BY DivisorAssumption

\* A byte in its frame fills the shift register.
LEMMA Frame ==
  ASSUME NEW d \in Byte, Load(d)
  PROVE  shift_register' \in [0 .. 9 -> Bit] /\ busy' = TRUE /\ bit_index' = 0
BY DEF Load, Bit, Byte

\* A clock edge keeps the types.
LEMMA ClockTypes ==
  ASSUME TypeOK, NEW valid \in BOOLEAN, NEW d \in Byte, Clock(valid, d)
  PROVE  TypeOK'
<1>1. CASE Rest(valid, d)
  <2>1. CASE valid
    BY <1>1, <2>1, Frame, Zero, Zenon DEF Rest, TypeOK
  <2>2. CASE ~valid
    BY <1>1, <2>2 DEF Rest, TypeOK, vars
  <2> QED BY <2>1, <2>2
<1>2. CASE NextSlot(valid, d)
  <2>1. CASE bit_index # 9
    <3>1. bit_index' \in 0 .. 9
      BY <1>2, <2>1 DEF NextSlot, TypeOK
    <3> QED BY <1>2, <2>1, <3>1, Zero, Zenon DEF NextSlot, TypeOK
  <2>2. CASE bit_index = 9 /\ valid
    BY <1>2, <2>2, Frame, Zero, Zenon DEF NextSlot, TypeOK
  <2>3. CASE bit_index = 9 /\ ~valid
    BY <1>2, <2>3, Zero, Zenon DEF NextSlot, TypeOK
  <2> QED BY <2>1, <2>2, <2>3
<1>3. CASE Hold
  <2>1. clock_count' \in 0 .. CLKS_PER_BIT - 1
    BY <1>3, DivisorAssumption DEF Hold, SlotEnds, TypeOK
  <2> QED BY <1>3, <2>1, Zenon DEF Hold, TypeOK
<1> QED BY <1>1, <1>2, <1>3 DEF Clock

\* Both counters stay in their ranges, whatever the divisor.
THEOREM TypeCorrect == Spec => []TypeOK
<1>1. ASSUME Init PROVE TypeOK
  <2>1. shift_register \in [0 .. 9 -> Bit]
    BY <1>1 DEF Init, Bit
  <2> QED BY <1>1, <2>1, Zero, Zenon DEF Init, TypeOK
<1>2. TypeOK /\ [Next]_vars => TypeOK'
  <2> SUFFICES ASSUME TypeOK, [Next]_vars PROVE TypeOK'
    OBVIOUS
  <2>1. CASE Reset
    <3>1. shift_register' \in [0 .. 9 -> Bit]
      BY <2>1 DEF Reset, Bit
    <3> QED BY <2>1, <3>1, Zero, Zenon DEF Reset, TypeOK
  <2>2. ASSUME NEW valid \in BOOLEAN, NEW d \in Byte, Clock(valid, d) PROVE TypeOK'
    BY <2>2, ClockTypes
  <2>3. CASE UNCHANGED vars
    BY <2>3 DEF vars, TypeOK
  <2> QED BY <2>1, <2>2, <2>3 DEF Next
<1> QED BY <1>1, <1>2, PTL DEF Spec

----------------------------------------------------------------------------

\* How long the sender is still busy: with the last cycle of the stop bit only
\* one cycle is left, and never before.
LEMMA Cycles ==
  ASSUME TypeOK
  PROVE  /\ Remaining \in Nat
         /\ busy => (Remaining = 1 <=> bit_index = 9 /\ SlotEnds) /\ Remaining >= 1
         /\ Remaining <= 1 <=> input_ready
<1> USE DivisorAssumption
<1>1. CASE ~busy
  BY <1>1 DEF Remaining, input_ready
<1>2. CASE busy
  <2>1. PICK b \in 0 .. 9, c \in 0 .. CLKS_PER_BIT - 1 : bit_index = b /\ clock_count = c
    BY DEF TypeOK
  <2>2. Remaining = 10 * CLKS_PER_BIT - (b * CLKS_PER_BIT + c)
    BY <1>2, <2>1 DEF Remaining
  <2>3. CASE b = 9
    <3>1. Remaining = CLKS_PER_BIT - c
      BY <2>2, <2>3
    <3> QED BY <1>2, <2>1, <2>3, <3>1 DEF input_ready, SlotEnds
  <2>4. CASE b # 9
    <3>1. b * CLKS_PER_BIT <= 8 * CLKS_PER_BIT /\ b * CLKS_PER_BIT \in Nat
      BY <2>4
    <3>2. Remaining \in Nat /\ Remaining > 1
      BY <2>2, <3>1
    <3> QED BY <1>2, <2>1, <2>4, <3>2 DEF input_ready
  <2> QED BY <2>3, <2>4
<1> QED BY <1>1, <1>2

\* A loaded byte has all its ten bits before it.
LEMMA Loaded ==
  ASSUME TypeOK, NEW d \in Byte, Load(d), clock_count' = 0
  PROVE  Remaining' = 10 * CLKS_PER_BIT /\ Sent' = d
<1>1. Remaining' = 10 * CLKS_PER_BIT
  BY DivisorAssumption DEF Load, Remaining
<1>2. Sent' = [i \in 0 .. 7 |-> d[i]]
  BY DEF Load, Sent
<1> QED BY <1>1, <1>2 DEF Byte

\* An edge of the transmitter is an edge of the sender.
LEMMA Edge ==
  ASSUME TypeOK, NEW valid \in BOOLEAN, NEW d \in Byte, Clock(valid, d)
  PROVE  Sender!Clock(valid, d)
<1> USE DivisorAssumption
<1>1. CASE Rest(valid, d)
  <2>1. input_ready /\ Sender!input_ready
    BY <1>1, Cycles DEF Rest, input_ready, Sender!input_ready
  <2>2. CASE valid
    BY <1>1, <2>1, <2>2, Loaded DEF Rest, Sender!Clock
  <2>3. CASE ~valid
    BY <1>1, <2>1, <2>3 DEF Rest, Sender!Clock, vars, Remaining, Sent
  <2> QED BY <2>2, <2>3
<1>2. CASE NextSlot(valid, d)
  <2>1. CASE bit_index = 9
    <3>1. Sender!input_ready
      BY <1>2, <2>1, Cycles DEF NextSlot, input_ready, Sender!input_ready
    <3>2. CASE valid
      BY <1>2, <2>1, <3>1, <3>2, Loaded DEF NextSlot, Sender!Clock
    <3>3. CASE ~valid
      BY <1>2, <2>1, <3>1, <3>3 DEF NextSlot, Sender!Clock, Remaining, Sent
    <3> QED BY <3>2, <3>3
  <2>2. CASE bit_index # 9
    <3>1. ~Sender!input_ready
      BY <1>2, <2>2, Cycles DEF NextSlot, input_ready, Sender!input_ready
    <3>2. PICK b \in 0 .. 8 : bit_index = b /\ bit_index' = b + 1
      BY <1>2, <2>2 DEF NextSlot, TypeOK
    <3>3. (b + 1) * CLKS_PER_BIT = b * CLKS_PER_BIT + CLKS_PER_BIT
      BY <3>2
    <3>4. /\ Remaining = 10 * CLKS_PER_BIT - (b * CLKS_PER_BIT + (CLKS_PER_BIT - 1))
          /\ Remaining' = 10 * CLKS_PER_BIT - ((b + 1) * CLKS_PER_BIT + 0)
      BY <1>2, <2>2, <3>2 DEF NextSlot, SlotEnds, Remaining
    <3>5. b * CLKS_PER_BIT \in Nat
      BY <3>2
    <3>6. Remaining' = Remaining - 1
      BY <3>3, <3>4, <3>5
    <3>7. UNCHANGED Sent
      BY <1>2, <2>2 DEF NextSlot, Sent
    <3> QED BY <3>1, <3>6, <3>7 DEF Sender!Clock
  <2> QED BY <2>1, <2>2
<1>3. CASE Hold
  <2>1. ~Sender!input_ready
    BY <1>3, Cycles DEF Hold, input_ready, Sender!input_ready
  <2>2. PICK b \in 0 .. 9, c \in Nat : bit_index = b /\ bit_index' = b /\ clock_count = c /\ clock_count' = c + 1
    BY <1>3 DEF Hold, TypeOK
  <2>3. b * CLKS_PER_BIT \in Nat
    BY <2>2
  <2>4. /\ Remaining = 10 * CLKS_PER_BIT - (b * CLKS_PER_BIT + c)
        /\ Remaining' = 10 * CLKS_PER_BIT - (b * CLKS_PER_BIT + (c + 1))
    BY <1>3, <2>2 DEF Hold, Remaining
  <2>5. Remaining' = Remaining - 1
    BY <2>3, <2>4
  <2>6. UNCHANGED Sent
    BY <1>3 DEF Hold, Sent
  <2> QED BY <2>1, <2>5, <2>6 DEF Sender!Clock
<1> QED BY <1>1, <1>2, <1>3 DEF Clock

\* For every divisor the transmitter keeps the promise the top level relies on:
\* ready when free and in the last cycle of the stop bit, busy for ten bits with
\* the byte it took.
THEOREM Implementation == Spec => ImplementsSender
<1>1. Init => Sender!Init
  BY DEF Init, Sender!Init, Remaining, Sent
<1>2. TypeOK /\ [Next]_vars => [Sender!Next]_Sender!vars
  <2> SUFFICES ASSUME TypeOK, [Next]_vars PROVE [Sender!Next]_Sender!vars
    OBVIOUS
  <2>1. CASE Reset
    BY <2>1 DEF Reset, Sender!Reset, Sender!Next, Remaining, Sent
  <2>2. ASSUME NEW valid \in BOOLEAN, NEW d \in Byte, Clock(valid, d) PROVE Sender!Next
    BY <2>2, Edge DEF Sender!Next
  <2>3. CASE UNCHANGED vars
    BY <2>3 DEF vars, Sender!vars, Remaining, Sent
  <2> QED BY <2>1, <2>2, <2>3 DEF Next
<1> QED BY <1>1, <1>2, TypeCorrect, PTL DEF Spec, ImplementsSender, Sender!Spec

----------------------------------------------------------------------------
(* The link: where both sides are while a byte is on the wire. *)

Half == Rx!HALF_CLOCKS_PER_BIT

\* The cycles since the bit on the line began, and the least and the most there
\* can be since its start bit did.
Age == clock_count + lag
Least == bit_index * CLKS_PER_BIT + Age
Most == bit_index * (CLKS_PER_BIT + MAX_LAG) + Age

\* The cycles since the receiver saw the start bit.
Reached ==
  CASE state = "START" -> rx_clock_count + 1
    [] state = "DATA" -> Half + rx_bit_index * CLOCKS_PER_BIT + rx_clock_count + 1
    [] state = "STOP" -> Half + 8 * CLOCKS_PER_BIT + rx_clock_count + 1
    [] OTHER -> 0

\* The level before that of the bit on the line.
Previous == IF bit_index = 0 THEN 1 ELSE shift_register[bit_index - 1]

\* What the bit's age says of the receiver's flops.
Settled ==
  IF busy
  THEN /\ line_before = IF Age = 0 THEN Previous ELSE tx
       /\ rx_meta \in IF Age = 0 THEN {Previous}
                      ELSE IF Age = 1 THEN {Previous, tx} ELSE {tx}
       /\ rx_sync \in IF Age <= 1 THEN {Previous}
                      ELSE IF Age = 2 THEN {Previous, tx} ELSE {tx}
  ELSE line_before = 1 /\ rx_meta = 1 /\ rx_sync = 1

\* A frame has its start and stop bits, and without one the counters are zero.
Framed ==
  IF busy THEN shift_register[0] = 0 /\ shift_register[9] = 1
  ELSE clock_count = 0 /\ lag = 0

\* The receiver waits: on a free line, in a stop bit it has read, or in a start
\* bit too young to be seen.
Quiet ==
  /\ state = "IDLE"
  /\ \/ ~busy /\ onwire = << >>
     \/ busy /\ bit_index = 9 /\ Age >= 3 /\ onwire = << >>
     \/ busy /\ bit_index = 0 /\ Age <= 3 /\ onwire = <<Sent>>

\* The receiver reads the frame on the line, two or three cycles behind it.
Locked ==
  /\ state # "IDLE"
  /\ busy /\ onwire = <<Sent>>
  /\ Least <= Reached + 3 /\ Reached + 2 <= Most
  /\ \A i \in 0 .. 7 :
       state = "STOP" \/ (state = "DATA" /\ i < rx_bit_index) => shift_reg[i] = Sent[i]

\* The receiver is about to read the stop bit of a frame that has just left the
\* line, and the next one may already be on it.
Overlap ==
  /\ state = "STOP"
  /\ onwire = IF busy THEN <<shift_reg, Sent>> ELSE <<shift_reg>>
  /\ busy => bit_index = 0
  /\ rx_clock_count + 2 >= CLOCKS_PER_BIT + Age

\* The inductive invariant of the link.
LTypes ==
  /\ TypeOK /\ Rx!TypeOK /\ lag \in 0 .. MAX_LAG
  /\ state = "START" => rx_clock_count < Half

LInv ==
  /\ LTypes /\ Framed /\ Settled
  /\ Quiet \/ Locked \/ Overlap
  /\ BytesAccounted /\ ~framing_error

\* Multiples up to the tenth.
LEMMA Multiples ==
  \A X \in Nat :
    /\ \A i \in 0 .. 10 : i * X \in Nat /\ (i + 1) * X = i * X + X
    /\ \A i, j \in 0 .. 10 : i <= j => i * X <= j * X
<1> TAKE X \in Nat
<1>1. \A i \in 0 .. 10 : i * X \in Nat /\ (i + 1) * X = i * X + X
  BY Z3
<1>2. \A i, j \in 0 .. 10 : i <= j => i * X <= j * X
  <2> TAKE i, j \in 0 .. 10
  <2>1. i \in Nat /\ j \in Nat /\ (i <= j => (j - i) * X >= 0)
    BY Z3
  <2> QED BY <2>1, Z3
<1> QED BY <1>1, <1>2

\* Half a bit of the receiver, rounded down.
LEMMA Halves ==
  /\ Half \in Nat /\ Half >= 1 /\ 2 * Half <= CLOCKS_PER_BIT /\ Half < CLOCKS_PER_BIT
  /\ CLOCKS_PER_BIT \in Nat /\ CLOCKS_PER_BIT <= 2 * Half + 1
BY LinkAssumption DEF Half, Rx!HALF_CLOCKS_PER_BIT

\* The margin at the first and the last sample is that of every sample.
LEMMA SamplePoints ==
  ASSUME SamplingAssumption, NEW k \in 0 .. 9
  PROVE  /\ k * (CLKS_PER_BIT + MAX_LAG) + 1 <= Half + k * CLOCKS_PER_BIT
         /\ Half + k * CLOCKS_PER_BIT + 2 <= (k + 1) * CLKS_PER_BIT
<1>1. /\ CLKS_PER_BIT \in Nat /\ MAX_LAG \in Nat
      /\ 9 * (CLKS_PER_BIT + MAX_LAG) + 1 <= Half + 9 * CLOCKS_PER_BIT
      /\ Half + 9 * CLOCKS_PER_BIT + 2 <= 10 * CLKS_PER_BIT
  BY DivisorAssumption, LinkAssumption DEF SamplingAssumption, Half
<1>2. k = 0 \/ k = 1 \/ k = 2 \/ k = 3 \/ k = 4 \/ k = 5 \/ k = 6 \/ k = 7 \/ k = 8 \/ k = 9
  OBVIOUS
<1> QED BY <1>1, <1>2, Halves

----------------------------------------------------------------------------
(* One cycle of the transmitter. *)

\* The frame goes on, a frame begins, or there is none.
Goes ==
  /\ busy /\ busy' /\ shift_register' = shift_register
  /\ \/ bit_index' = bit_index /\ Age' = Age + 1
     \/ /\ bit_index < 9 /\ bit_index' = bit_index + 1
        /\ Age' = 0 /\ clock_count = CLKS_PER_BIT - 1

Free == busy => bit_index = 9 /\ clock_count = CLKS_PER_BIT - 1

Begins(d) == Free /\ busy' /\ bit_index' = 0 /\ Age' = 0 /\ Sent' = d

Rests == Free /\ ~busy' /\ Age' = 0

\* A frame holds its byte between its start and stop bits.
LEMMA LoadedFrame ==
  ASSUME NEW d \in Byte, Load(d)
  PROVE  Sent' = d /\ busy' /\ bit_index' = 0 /\ shift_register'[0] = 0 /\ shift_register'[9] = 1
<1>1. Sent' = [i \in 0 .. 7 |-> d[i]]
  BY DEF Load, Sent
<1> QED BY <1>1 DEF Load, Byte

\* A cycle of the transmitter: its byte goes on, begins, or there is none.
LEMMA TickMoves ==
  ASSUME LTypes, Framed, NEW valid \in BOOLEAN, NEW d \in Bytes, Tick(valid, d)
  PROVE  /\ LET taken == IF valid /\ input_ready THEN <<d>> ELSE << >>
            IN  \/ Goes /\ taken = << >>
                \/ Begins(d) /\ taken = <<d>>
                \/ Rests /\ taken = << >>
         /\ TypeOK' /\ lag' \in 0 .. MAX_LAG /\ Framed'
<1> USE DivisorAssumption, LinkAssumption
<1>1. d \in Byte /\ TypeOK /\ lag \in 0 .. MAX_LAG /\ Clock(valid, d)
  BY DEF LTypes, Tick
<1>2. TypeOK'
  BY <1>1, ClockTypes
<1>3. lag' \in 0 .. MAX_LAG
  BY <1>1 DEF Tick
<1>4. CASE Rest(valid, d)
  <2>1. /\ ~busy /\ input_ready /\ clock_count = 0 /\ lag = 0 /\ lag' = 0
        /\ clock_count' = 0 /\ Age' = 0 /\ Free
    BY <1>4 DEF Rest, Framed, input_ready, Tick, Age, vars, Free
  <2>2. CASE valid
    <3>1. Load(d)
      BY <1>4, <2>2 DEF Rest
    <3> QED BY <1>1, <1>2, <1>3, <2>1, <2>2, <3>1, LoadedFrame DEF Begins, Framed
  <2>3. CASE ~valid
    BY <1>2, <1>3, <1>4, <2>1, <2>3 DEF Rest, Rests, Framed, vars
  <2> QED BY <2>2, <2>3
<1>5. CASE NextSlot(valid, d)
  <2>1. /\ busy /\ clock_count = CLKS_PER_BIT - 1 /\ clock_count' = 0 /\ lag' = 0 /\ Age' = 0
        /\ input_ready = (bit_index = 9)
    BY <1>5 DEF NextSlot, SlotEnds, Tick, Age, input_ready
  <2>2. CASE bit_index # 9
    <3>1. /\ bit_index < 9 /\ bit_index' = bit_index + 1
          /\ UNCHANGED <<shift_register, busy>>
      BY <1>1, <1>5, <2>2 DEF NextSlot, TypeOK
    <3> QED BY <1>2, <1>3, <2>1, <2>2, <3>1 DEF Goes, Framed
  <2>3. CASE bit_index = 9 /\ valid
    <3>1. Load(d)
      BY <1>5, <2>3 DEF NextSlot
    <3> QED BY <1>1, <1>2, <1>3, <2>1, <2>3, <3>1, LoadedFrame DEF Begins, Framed, Free
  <2>4. CASE bit_index = 9 /\ ~valid
    BY <1>2, <1>3, <1>5, <2>1, <2>4 DEF NextSlot, Rests, Framed, Free
  <2> QED BY <2>2, <2>3, <2>4
<1>6. CASE Hold
  <2>1. ~input_ready /\ busy /\ lag' = lag /\ clock_count' = clock_count + 1
        /\ UNCHANGED <<bit_index, shift_register, busy>>
    BY <1>6 DEF Hold, input_ready, Tick
  <2>2. Age' = Age + 1
    BY <1>1, <2>1 DEF Age, TypeOK
  <2> QED BY <1>2, <1>3, <2>1, <2>2 DEF Goes, Framed
<1> QED BY <1>1, <1>4, <1>5, <1>6 DEF Clock

\* A cycle in which the transmitter's slower clock has no edge.
LEMMA LagMoves ==
  ASSUME LTypes, Framed, Lag
  PROVE  Goes /\ TypeOK' /\ lag' \in 0 .. MAX_LAG /\ Framed'
<1>1. /\ busy /\ lag' = lag + 1 /\ lag < MAX_LAG /\ lag \in 0 .. MAX_LAG
      /\ UNCHANGED <<clock_count, bit_index, shift_register, busy>>
  BY DEF Lag, LTypes
<1>2. lag' \in 0 .. MAX_LAG
  BY <1>1, LinkAssumption
<1>3. Age' = Age + 1
  BY <1>1, LinkAssumption, DivisorAssumption DEF Age, LTypes, TypeOK
<1>4. TypeOK'
  BY <1>1 DEF LTypes, TypeOK
<1> QED BY <1>1, <1>2, <1>3, <1>4 DEF Goes, Framed

\* A step of the transmitter, with the bytes it takes.
Moves(taken) ==
  \/ Goes /\ taken = << >>
  \/ \E d \in Bytes : Begins(d) /\ taken = <<d>>
  \/ Rests /\ taken = << >>

\* The flops follow the line.
LEMMA LevelsSettle ==
  ASSUME SamplingAssumption, LTypes, TypeOK', Framed, Framed', lag' \in 0 .. MAX_LAG,
         Settled, NEW sampled \in Levels, NEW taken, Moves(taken),
         Rx!Shift(sampled), line_before' = tx
  PROVE  Settled'
<1> USE DivisorAssumption, LinkAssumption
<1>1. /\ clock_count \in Nat /\ lag \in Nat /\ bit_index \in 0 .. 9 /\ CLKS_PER_BIT >= 4
      /\ Age \in Nat /\ Age = clock_count + lag
      /\ busy \in BOOLEAN /\ busy' \in BOOLEAN
  BY DEF LTypes, TypeOK, Age, SamplingAssumption
<1>2. /\ rx_meta' = sampled /\ rx_sync' = rx_meta /\ sampled \in {tx, line_before}
  BY DEF Rx!Shift, Levels
<1>3. ASSUME busy, busy', shift_register' = shift_register, bit_index' = bit_index,
             Age' = Age + 1
      PROVE  Settled'
  <2>1. tx' = tx /\ Previous' = Previous
    BY <1>3 DEF tx, Previous
  <2> HIDE DEF Age
  <2>2. CASE Age = 0
    BY <1>1, <1>2, <1>3, <2>1, <2>2 DEF Settled
  <2>3. CASE Age = 1
    BY <1>1, <1>2, <1>3, <2>1, <2>3 DEF Settled
  <2>4. CASE Age >= 2
    BY <1>1, <1>2, <1>3, <2>1, <2>4 DEF Settled
  <2> QED BY <1>1, <2>2, <2>3, <2>4
<1>4. ASSUME busy, clock_count = CLKS_PER_BIT - 1
      PROVE  rx_meta = tx /\ line_before = tx /\ sampled = tx
  <2>1. Age >= 3
    BY <1>1, <1>4
  <2> QED BY <1>2, <1>4, <2>1 DEF Settled
<1>5. CASE Goes
  <2>1. CASE bit_index' = bit_index /\ Age' = Age + 1
    BY <1>3, <1>5, <2>1 DEF Goes
  <2>2. CASE bit_index < 9 /\ bit_index' = bit_index + 1 /\ Age' = 0 /\ clock_count = CLKS_PER_BIT - 1
    <3>1. Previous' = tx
      BY <1>1, <1>5, <2>2 DEF Goes, Previous, tx
    <3> QED BY <1>2, <1>4, <1>5, <2>2, <3>1 DEF Goes, Settled
  <2> QED BY <1>5, <2>1, <2>2 DEF Goes
<1>6. CASE Free /\ Age' = 0 /\ (busy' => bit_index' = 0)
  <2>1. tx = 1 /\ rx_meta = 1 /\ sampled = 1
    <3>1. CASE busy
      BY <1>4, <1>6, <3>1 DEF Free, tx, Framed
    <3>2. CASE ~busy
      BY <1>2, <3>2 DEF Settled, tx
    <3> QED BY <1>1, <3>1, <3>2
  <2>2. busy' => Previous' = 1
    BY <1>6 DEF Previous
  <2> QED BY <1>2, <1>6, <2>1, <2>2 DEF Settled
<1> QED BY <1>5, <1>6 DEF Moves, Begins, Rests

\* With the next bit the least grows by at most a cycle, the most by at least one.
LEMMA NextSlotBounds ==
  ASSUME NEW L \in Nat, NEW G \in Nat, NEW b \in 0 .. 9, NEW t \in 0 .. L - 1,
         NEW l \in 0 .. G
  PROVE  /\ b * L + (t + l) \in Nat /\ b * (L + G) + (t + l) \in Nat
         /\ b * L + (t + l + 1) \in Nat /\ b * L + (t + l + 1) <= b * L + (t + l) + 1
         /\ b * (L + G) + (t + l + 1) \in Nat
         /\ b * (L + G) + (t + l + 1) >= b * (L + G) + (t + l) + 1
         /\ (b + 1) * L + 0 \in Nat /\ (b + 1) * (L + G) + 0 \in Nat
         /\ t = L - 1 => /\ (b + 1) * L + 0 <= b * L + (t + l) + 1
                        /\ (b + 1) * (L + G) + 0 >= b * (L + G) + (t + l) + 1
<1> DEFINE M == L + G
           p == b * L
           q == b * M
           pp == (b + 1) * L
           qq == (b + 1) * M
           a == t + l
<1>1. /\ M \in Nat /\ M = L + G
      /\ p \in Nat /\ q \in Nat /\ pp = p + L /\ qq = q + M
  <2>1. b \in 0 .. 10 /\ M \in Nat /\ M = L + G
    OBVIOUS
  <2> HIDE DEF M
  <2> QED BY <2>1, Multiples
<1>2. a \in Nat /\ a = t + l
  OBVIOUS
<1> HIDE DEF M, p, q, pp, qq, a
<1>3. /\ p + a \in Nat /\ q + a \in Nat
      /\ p + (a + 1) \in Nat /\ p + (a + 1) <= p + a + 1
      /\ q + (a + 1) \in Nat /\ q + (a + 1) >= q + a + 1
      /\ pp + 0 \in Nat /\ qq + 0 \in Nat
  BY <1>1, <1>2
<1>4. t = L - 1 => pp + 0 <= p + a + 1 /\ qq + 0 >= q + a + 1
  BY <1>1, <1>2
<1> QED BY <1>3, <1>4 DEF M, p, q, pp, qq, a

\* The position on the line advances by a cycle at a time: with the transmitter's
\* lag between the two bounds.
LEMMA GoesOn ==
  ASSUME LTypes, Goes
  PROVE  /\ Least \in Nat /\ Most \in Nat /\ Least' \in Nat /\ Most' \in Nat
         /\ Least' <= Least + 1 /\ Most' >= Most + 1
<1>1. /\ CLKS_PER_BIT \in Nat /\ MAX_LAG \in Nat /\ bit_index \in 0 .. 9
      /\ clock_count \in 0 .. CLKS_PER_BIT - 1 /\ lag \in 0 .. MAX_LAG
  BY DivisorAssumption, LinkAssumption DEF LTypes, TypeOK
<1> DEFINE L == CLKS_PER_BIT
           G == MAX_LAG
           b == bit_index
           t == clock_count
           l == lag
<1>2. /\ Least = b * L + (t + l) /\ Most = b * (L + G) + (t + l)
      /\ Age = t + l
  BY DEF Least, Most, Age
<1>3. CASE bit_index' = bit_index /\ Age' = Age + 1
  <2>1. Least' = b * L + (t + l + 1) /\ Most' = b * (L + G) + (t + l + 1)
    BY <1>2, <1>3 DEF Least, Most
  <2> HIDE DEF L, G, b, t, l
  <2> QED BY <1>1, <1>2, <2>1, NextSlotBounds DEF L, G, b, t, l
<1>4. CASE bit_index' = bit_index + 1 /\ Age' = 0 /\ clock_count = CLKS_PER_BIT - 1
  <2>1. Least' = (b + 1) * L + 0 /\ Most' = (b + 1) * (L + G) + 0
    BY <1>4 DEF Least, Most
  <2> QED BY <1>1, <1>2, <1>4, <2>1, NextSlotBounds
<1> QED BY <1>3, <1>4 DEF Goes

\* At each of its samples the receiver sees the bit it is to read, which is
\* the one on the line or the one before it.
LEMMA SampledBit ==
  ASSUME SamplingAssumption, LTypes, Settled, busy, NEW k \in 0 .. 9,
         NEW r \in Nat, r = Half + k * CLOCKS_PER_BIT, Least <= r + 3, r + 2 <= Most
  PROVE  rx_sync = shift_register[k] /\ (k = 9 => bit_index = 9 /\ Age >= 3)
<1> USE DivisorAssumption, LinkAssumption
<1> DEFINE L == CLKS_PER_BIT
           M == CLKS_PER_BIT + MAX_LAG
           b == bit_index
<1>0. L >= 4
  BY DEF SamplingAssumption
<1>1. /\ L \in Nat /\ M \in Nat /\ M = L + MAX_LAG /\ b \in 0 .. 9
      /\ clock_count \in 0 .. L - 1 /\ lag \in 0 .. MAX_LAG /\ Age = clock_count + lag
      /\ Age \in Nat
  BY DEF LTypes, TypeOK, Age
<1>2. Least = b * L + Age /\ Most = b * M + Age
  BY DEF Least, Most
<1>3. k * M + 1 <= r /\ r + 2 <= (k + 1) * L
  BY SamplePoints
<1> HIDE DEF L, M, b
<1>4. /\ b * L \in Nat /\ b * M \in Nat /\ k * M \in Nat /\ k * L \in Nat
      /\ (b + 1) * M = b * M + M /\ (k + 1) * L = k * L + L /\ (k + 1 + 1) * L = (k + 1) * L + L
  <2>1. b \in 0 .. 10 /\ k \in 0 .. 10 /\ k + 1 \in 0 .. 10
    BY <1>1
  <2> QED BY <1>1, <2>1, Multiples
<1>5. b >= k
  <2> SUFFICES ASSUME b + 1 <= k PROVE FALSE
    BY <1>1
  <2>1. (b + 1) * M <= k * M
    <3>1. b + 1 \in 0 .. 10 /\ k \in 0 .. 10
      BY <1>1
    <3> QED BY <1>1, <3>1, Multiples
  <2> QED BY <1>1, <1>2, <1>3, <1>4, <2>1
<1>6. CASE b = k
  <2>1. Age >= 3
    BY <1>1, <1>2, <1>3, <1>4, <1>6
  <2>2. rx_sync = tx
    BY <1>1, <2>1 DEF Settled
  <2> QED BY <1>6, <2>1, <2>2 DEF tx, b
<1>7. CASE b = k + 1
  <2>1. b * L = (k + 1) * L
    BY <1>7
  <2>2. Age <= 1
    BY <1>0, <1>1, <1>2, <1>3, <1>4, <2>1
  <2>3. rx_sync = Previous
    BY <1>1, <2>2 DEF Settled
  <2> QED BY <1>1, <1>7, <2>3 DEF Previous, b
<1>8. CASE b >= k + 2
  <2>1. (k + 1 + 1) * L <= b * L
    <3>1. k + 1 + 1 \in 0 .. 10 /\ b \in 0 .. 10 /\ k + 1 + 1 <= b
      BY <1>1, <1>8
    <3> QED BY <1>1, <3>1, Multiples
  <2> QED BY <1>0, <1>1, <1>2, <1>3, <1>4, <2>1
<1>9. b = k \/ b = k + 1 \/ b >= k + 2
  BY <1>1, <1>5
<1> QED BY <1>6, <1>7, <1>8, <1>9

----------------------------------------------------------------------------
(* One cycle of the receiver. *)

\* A clock edge keeps the types of the receiver, whatever is sampled.
LEMMA ReceiverTypes ==
  ASSUME Rx!TypeOK, state = "START" => rx_clock_count < Half,
         NEW sampled \in {0, 1}, NEW ready \in BOOLEAN, Rx!Clock(sampled, ready)
  PROVE  Rx!TypeOK' /\ (state' = "START" => rx_clock_count' < Half)
<1>1. /\ rx_meta' \in Rx!Bit /\ rx_sync' \in Rx!Bit
  BY DEF Rx!TypeOK, Rx!Clock, Rx!Shift, Rx!Bit
<1>2. /\ output_data' \in Rx!Byte /\ output_valid' \in BOOLEAN
      /\ framing_error' \in BOOLEAN /\ overflow_error' \in BOOLEAN
  BY DEF Rx!TypeOK, Rx!Clock, Rx!EndByte, Rx!NoByte
<1>3. /\ state' \in Rx!States /\ rx_clock_count' \in 0 .. CLOCKS_PER_BIT - 1
      /\ rx_bit_index' \in 0 .. 7 /\ shift_reg' \in Rx!Byte
      /\ state' = "START" => rx_clock_count' < Half
  <2> USE LinkAssumption, Halves
  <2>1. CASE Rx!Idle
    BY <2>1 DEF Rx!Idle, Rx!TypeOK, Rx!States
  <2>2. CASE Rx!Start
    BY <2>2 DEF Rx!Start, Rx!StartSampled, Rx!TypeOK, Rx!States, Half
  <2>3. CASE Rx!DataBit
    BY <2>3 DEF Rx!DataBit, Rx!TypeOK, Rx!States, Rx!Byte
  <2>4. CASE Rx!Stop
    BY <2>4 DEF Rx!Stop, Rx!byte_ends, Rx!TypeOK, Rx!States
  <2> QED BY <2>1, <2>2, <2>3, <2>4 DEF Rx!Clock
<1> QED BY <1>1, <1>2, <1>3 DEF Rx!TypeOK

\* What an edge does in each state, by the cycles since the start bit was seen.
LEMMA IdleMoves ==
  ASSUME LTypes, state = "IDLE", NEW sampled, NEW ready, Rx!Clock(sampled, ready)
  PROVE  /\ ~Rx!byte_ends
         /\ rx_sync = 0 => state' = "START" /\ Reached' = 1
         /\ rx_sync # 0 => state' = "IDLE"
<1>1. Rx!Idle /\ ~Rx!byte_ends
  BY DEF Rx!Clock, Rx!Start, Rx!DataBit, Rx!Stop, Rx!byte_ends
<1> QED BY <1>1 DEF Rx!Idle, Reached

\* A cycle of the receiver in the start bit.
LEMMA StartMoves ==
  ASSUME LTypes, state = "START", NEW sampled, NEW ready, Rx!Clock(sampled, ready)
  PROVE  /\ ~Rx!byte_ends /\ Reached \in Nat
         /\ \/ state' = "START" /\ Reached' = Reached + 1
            \/ /\ Reached = Half + 0 * CLOCKS_PER_BIT
               /\ rx_sync = 0 =>
                    state' = "DATA" /\ rx_bit_index' = 0 /\ Reached' = Reached + 1
<1>1. Rx!Start /\ ~Rx!byte_ends
  BY DEF Rx!Clock, Rx!Idle, Rx!DataBit, Rx!Stop, Rx!byte_ends
<1>2. Reached = rx_clock_count + 1 /\ rx_clock_count \in Nat
  BY LinkAssumption DEF Reached, LTypes, Rx!TypeOK
<1>3. CASE rx_clock_count # Half - 1
  BY <1>1, <1>2, <1>3 DEF Rx!Start, Rx!StartSampled, Reached, Half
<1>4. CASE rx_clock_count = Half - 1
  <2>1. Reached = Half + 0 * CLOCKS_PER_BIT
    BY <1>2, <1>4, Halves
  <2>2. ASSUME rx_sync = 0
        PROVE  state' = "DATA" /\ rx_bit_index' = 0 /\ rx_clock_count' = 0
    BY <1>1, <1>4, <2>2 DEF Rx!Start, Rx!StartSampled, Half
  <2>3. ASSUME rx_sync = 0
        PROVE  Reached' = Reached + 1
    BY <2>1, <2>2, <2>3, Halves DEF Reached, Half, Rx!HALF_CLOCKS_PER_BIT
  <2> QED BY <1>1, <1>2, <2>1, <2>2, <2>3
<1> QED BY <1>3, <1>4

\* A cycle of the receiver in a data bit.
LEMMA DataMoves ==
  ASSUME LTypes, state = "DATA", NEW sampled, NEW ready, Rx!Clock(sampled, ready)
  PROVE  /\ ~Rx!byte_ends /\ Reached \in Nat /\ Reached' = Reached + 1
         /\ \/ /\ state' = "DATA"
               /\ UNCHANGED <<rx_bit_index, shift_reg>>
            \/ /\ Reached = Half + (rx_bit_index + 1) * CLOCKS_PER_BIT
               /\ shift_reg' = [shift_reg EXCEPT ![rx_bit_index] = rx_sync]
               /\ \/ rx_bit_index = 7 /\ state' = "STOP"
                  \/ /\ rx_bit_index < 7 /\ state' = "DATA"
                     /\ rx_bit_index' = rx_bit_index + 1
<1> DEFINE C == CLOCKS_PER_BIT
           i == rx_bit_index
           t == rx_clock_count
           h == Half
<1>1. Rx!DataBit /\ ~Rx!byte_ends
  BY DEF Rx!Clock, Rx!Idle, Rx!Start, Rx!Stop, Rx!byte_ends
<1>2. C \in Nat /\ h \in Nat /\ i \in 0 .. 7 /\ t \in 0 .. C - 1
  BY Halves DEF LTypes, Rx!TypeOK
<1>3. Reached = h + i * C + t + 1
  BY DEF Reached
<1>4. i * C \in Nat /\ (i + 1) * C = i * C + C
  <2>1. i \in 0 .. 10
    BY <1>2
  <2> HIDE DEF C, i
  <2> QED BY <1>2, <2>1, Multiples
<1>5. Reached \in Nat
  <2> DEFINE p == i * C
  <2>1. p \in Nat
    BY <1>4
  <2> HIDE DEF p, i, C, t, h
  <2> QED BY <1>2, <1>3, <2>1 DEF p
<1>6. CASE t # C - 1
  <2>1. state' = "DATA" /\ t' = t + 1 /\ UNCHANGED <<rx_bit_index, shift_reg>>
    BY <1>1, <1>6 DEF Rx!DataBit
  <2>2. Reached' = h + i * C + (t + 1) + 1
    BY <2>1 DEF Reached, Half, Rx!HALF_CLOCKS_PER_BIT
  <2>3. h + i * C + (t + 1) + 1 = h + i * C + t + 1 + 1
    <3> DEFINE p == i * C
    <3>1. p \in Nat
      BY <1>4
    <3> HIDE DEF p, i, C, t, h
    <3> QED BY <1>2, <3>1 DEF p
  <2> QED BY <1>1, <1>3, <1>5, <2>1, <2>2, <2>3
<1>7. CASE t = C - 1
  <2>1. /\ rx_clock_count' = 0
        /\ shift_reg' = [shift_reg EXCEPT ![rx_bit_index] = rx_sync]
        /\ IF rx_bit_index = 7
           THEN state' = "STOP" /\ UNCHANGED rx_bit_index
           ELSE rx_bit_index' = rx_bit_index + 1 /\ state' = "DATA"
    BY <1>1, <1>7 DEF Rx!DataBit
  <2>2. Reached = h + (i + 1) * C
    <3> DEFINE p == i * C
               q == (i + 1) * C
    <3>1. p \in Nat /\ q = p + C
      BY <1>4
    <3>2. Reached = h + p + t + 1 /\ t = C - 1
      BY <1>3, <1>7
    <3> HIDE DEF p, q, i, C, t, h
    <3>3. Reached = h + q
      BY <1>2, <3>1, <3>2
    <3> QED BY <3>3 DEF q
  <2>3. Reached' = h + (i + 1) * C + 0 + 1
    <3>1. CASE i = 7
      <4>1. Reached' = h + 8 * C + 0 + 1
        BY <2>1, <3>1 DEF Reached, Half, Rx!HALF_CLOCKS_PER_BIT
      <4> QED BY <3>1, <4>1
    <3>2. CASE i # 7
      BY <2>1, <3>2 DEF Reached, Half, Rx!HALF_CLOCKS_PER_BIT
    <3> QED BY <3>1, <3>2
  <2>4. h + (i + 1) * C + 0 + 1 = h + (i + 1) * C + 1
    <3> DEFINE q == (i + 1) * C
    <3>1. q \in Nat
      <4> HIDE DEF i, C
      <4> QED BY <1>2, <1>4
    <3> HIDE DEF q, h
    <3> QED BY <1>2, <3>1 DEF q
  <2>5. i = 7 \/ i < 7
    BY <1>2
  <2> QED BY <1>1, <1>5, <2>1, <2>2, <2>3, <2>4, <2>5
<1> QED BY <1>6, <1>7

\* A cycle of the receiver in the stop bit.
LEMMA StopMoves ==
  ASSUME LTypes, state = "STOP", NEW sampled, NEW ready, Rx!Clock(sampled, ready)
  PROVE  /\ Reached \in Nat /\ shift_reg' = shift_reg
         /\ \/ /\ ~Rx!byte_ends /\ state' = "STOP" /\ Reached' = Reached + 1
               /\ rx_clock_count' = rx_clock_count + 1
            \/ /\ Rx!byte_ends /\ state' = "IDLE"
               /\ Reached = Half + 9 * CLOCKS_PER_BIT
<1>1. Rx!Stop
  BY DEF Rx!Clock, Rx!Idle, Rx!Start, Rx!DataBit
<1>2. /\ Half \in Nat /\ CLOCKS_PER_BIT \in Nat
      /\ rx_clock_count \in 0 .. CLOCKS_PER_BIT - 1
      /\ Reached = Half + 8 * CLOCKS_PER_BIT + rx_clock_count + 1
  BY Halves DEF LTypes, Rx!TypeOK, Reached
<1>3. CASE ~Rx!byte_ends
  <2>1. state' = "STOP" /\ rx_clock_count' = rx_clock_count + 1
    BY <1>1, <1>3 DEF Rx!Stop
  <2>2. Reached' = Half + 8 * CLOCKS_PER_BIT + (rx_clock_count + 1) + 1
    BY <2>1 DEF Reached, Half, Rx!HALF_CLOCKS_PER_BIT
  <2> QED BY <1>1, <1>2, <1>3, <2>1, <2>2 DEF Rx!Stop
<1>4. CASE Rx!byte_ends
  BY <1>1, <1>2, <1>4 DEF Rx!Stop, Rx!byte_ends
<1> QED BY <1>3, <1>4

----------------------------------------------------------------------------
(* The bytes. *)

\* At most two bytes wait on the wire.
LEMMA FewBytes ==
  ASSUME NEW x, NEW y
  PROVE  /\ << >> \o << >> = << >> /\ << >> \o <<x>> = <<x>>
         /\ <<x>> \o << >> = <<x>> /\ <<x>> \o <<y>> = <<x, y>>
         /\ <<x, y>> \o << >> = <<x, y>>
         /\ Append(<< >>, x) = <<x>>
         /\ Tail(<<x>>) = << >> /\ Tail(<<x, y>>) = <<y>>
         /\ Head(<<x>>) = x /\ Head(<<x, y>>) = x
         /\ <<x>> # << >> /\ <<x, y>> # << >>
<1> DEFINE S == {x, y}
<1>1. << >> \in Seq(S)
  OBVIOUS
<1>2. <<x>> \in Seq(S) /\ <<y>> \in Seq(S)
  OBVIOUS
<1>3. <<x, y>> \in Seq(S)
  OBVIOUS
<1>4. << >> \o << >> = << >>
  BY <1>1, ConcatEmptySeq
<1>5. << >> \o <<x>> = <<x>> /\ <<x>> \o << >> = <<x>>
  BY <1>2, ConcatEmptySeq
<1>6. <<x, y>> \o << >> = <<x, y>>
  BY <1>3, ConcatEmptySeq
<1>7. Append(<< >>, x) = <<x>>
  <2>1. x \in S
    OBVIOUS
  <2>2. Append(<< >>, x) = << >> \o <<x>>
    BY <1>1, <2>1, AppendIsConcat
  <2> QED BY <1>5, <2>2
<1>8. <<x>> \o <<y>> = <<x, y>>
  <2> DEFINE s == <<x>>
             r == <<y>>
             t == s \o r
             u == <<x, y>>
  <2>1. s \in Seq(S) /\ Len(s) = 1 /\ s[1] = x /\ r \in Seq(S) /\ Len(r) = 1 /\ r[1] = y
    OBVIOUS
  <2>2. u \in Seq(S) /\ Len(u) = 2 /\ u[1] = x /\ u[2] = y
    OBVIOUS
  <2> HIDE DEF s, r, u, S
  <2>3. s \in Seq(S) /\ r \in Seq(S)
    BY <2>1
  <2>4. /\ t \in Seq(S) /\ Len(t) = Len(s) + Len(r)
        /\ \A i \in 1 .. Len(s) + Len(r) : t[i] = IF i <= Len(s) THEN s[i] ELSE r[i - Len(s)]
    BY <2>3, ConcatProperties
  <2> HIDE DEF t
  <2>5. Len(t) = 2 /\ t[1] = x /\ t[2] = y
    BY <2>1, <2>4
  <2>6. \A i \in 1 .. Len(t) : t[i] = u[i]
    <3>1. \A i \in 1 .. 2 : i = 1 \/ i = 2
      OBVIOUS
    <3> QED BY <2>2, <2>5, <3>1
  <2>7. t = u
    BY <2>2, <2>4, <2>5, <2>6, SeqEqual
  <2> QED BY <2>7 DEF s, r, t, u
<1>9. /\ Tail(<<x>>) = << >> /\ Tail(<<x, y>>) = <<y>>
      /\ Head(<<x>>) = x /\ Head(<<x, y>>) = x
      /\ <<x>> # << >> /\ <<x, y>> # << >>
  OBVIOUS
<1> QED BY <1>4, <1>5, <1>6, <1>7, <1>8, <1>9

\* A cycle in which no byte ends: the consumer may take the one that waits.
LEMMA NoneEnds ==
  ASSUME LTypes, BytesAccounted, NEW sampled, NEW ready \in BOOLEAN, NEW taken,
         Rx!Clock(sampled, ready), Account(taken, ready), ~Rx!byte_ends
  PROVE  onwire' = onwire \o taken /\ BytesAccounted' /\ ~framing_error'
<1>1. /\ output_valid' = (output_valid /\ ~ready) /\ framing_error' = FALSE
      /\ output_data' = output_data
  BY DEF Rx!Clock, Rx!NoByte
<1>2. /\ onwire' = onwire \o taken
      /\ held' = IF output_valid /\ ready THEN Tail(held) ELSE held
  BY DEF Account
<1>3. output_valid \in BOOLEAN
  BY DEF LTypes, Rx!TypeOK
<1>4. CASE output_valid
  <2>1. held = <<output_data>> /\ Tail(<<output_data>>) = << >>
    BY <1>4, FewBytes DEF BytesAccounted
  <2> QED BY <1>1, <1>2, <1>4, <2>1 DEF BytesAccounted
<1>5. CASE ~output_valid
  BY <1>1, <1>2, <1>5 DEF BytesAccounted
<1> QED BY <1>1, <1>2, <1>3, <1>4, <1>5

\* A cycle in which the oldest byte on the wire ends, its stop bit seen.
LEMMA OneEnds ==
  ASSUME LTypes, BytesAccounted, NEW sampled, NEW ready \in BOOLEAN, NEW taken,
         Rx!Clock(sampled, ready), Account(taken, ready), Rx!byte_ends, rx_sync = 1,
         onwire \o taken # << >>, Head(onwire \o taken) = shift_reg
  PROVE  onwire' = Tail(onwire \o taken) /\ BytesAccounted' /\ ~framing_error'
<1>1. /\ framing_error' = FALSE
      /\ overflow_error' = (output_valid /\ ~ready)
      /\ IF ~(output_valid /\ ~ready)
         THEN output_data' = shift_reg /\ output_valid' = TRUE
         ELSE output_valid' = (output_valid /\ ~ready) /\ UNCHANGED output_data
  <2>1. Rx!EndByte(ready)
    BY DEF Rx!Clock
  <2>2. (rx_sync = 0) = FALSE /\ (rx_sync = 1) = TRUE
    OBVIOUS
  <2> QED BY <2>1, <2>2 DEF Rx!EndByte
<1> DEFINE left == IF output_valid /\ ready THEN Tail(held) ELSE held
<1>2. /\ onwire' = Tail(onwire \o taken)
      /\ held' = IF overflow_error' THEN left ELSE Append(left, shift_reg)
  BY DEF Account
<1>3. output_valid \in BOOLEAN
  BY DEF LTypes, Rx!TypeOK
<1>4. CASE output_valid /\ ~ready
  <2>1. overflow_error' /\ held = <<output_data>>
    BY <1>1, <1>4 DEF BytesAccounted
  <2> QED BY <1>1, <1>2, <1>4, <2>1 DEF BytesAccounted
<1>5. CASE ~(output_valid /\ ~ready)
  <2>1. left = << >>
    BY <1>3, <1>5, FewBytes DEF BytesAccounted
  <2>2. held' = Append(<< >>, shift_reg) /\ ~overflow_error'
    BY <1>1, <1>2, <1>5, <2>1
  <2>3. held' = <<shift_reg>>
    BY <2>2, FewBytes
  <2> QED BY <1>1, <1>2, <1>5, <2>3 DEF BytesAccounted
<1> QED BY <1>4, <1>5

----------------------------------------------------------------------------
(* One cycle of the link in each of its phases. *)

\* What a cycle keeps.
Kept == (Quiet \/ Locked \/ Overlap) /\ BytesAccounted /\ ~framing_error

\* A cycle in which the receiver waits and no byte is under way.
LEMMA QuietStep ==
  ASSUME SamplingAssumption, LTypes, Framed, Framed', Settled, BytesAccounted, Quiet,
         NEW sampled, NEW ready \in BOOLEAN, NEW taken,
         Rx!Clock(sampled, ready), Account(taken, ready), Moves(taken)
  PROVE  Kept'
<1>1. /\ Age \in Nat /\ Age = clock_count + lag /\ clock_count \in Nat /\ lag \in Nat
      /\ bit_index \in 0 .. 9 /\ busy \in BOOLEAN /\ CLKS_PER_BIT \in Nat /\ CLKS_PER_BIT >= 4
  BY LinkAssumption, DivisorAssumption DEF LTypes, TypeOK, Age, SamplingAssumption
<1>2. /\ rx_sync = 0 => state' = "START" /\ Reached' = 1
      /\ rx_sync # 0 => state' = "IDLE"
  BY IdleMoves DEF Quiet
<1>3. /\ onwire' = onwire \o taken /\ BytesAccounted' /\ ~framing_error'
  BY IdleMoves, NoneEnds DEF Quiet
<1>4. CASE ~busy /\ onwire = << >>
  <2>1. state' = "IDLE"
    BY <1>2, <1>4 DEF Settled
  <2>2. CASE Rests /\ taken = << >>
    <3>1. onwire' = << >>
      BY <1>3, <1>4, <2>2, FewBytes
    <3> QED BY <1>3, <2>1, <2>2, <3>1 DEF Rests, Quiet, Kept
  <2>3. ASSUME NEW d \in Bytes, Begins(d), taken = <<d>> PROVE Kept'
    <3>1. onwire' = <<d>>
      BY <1>3, <1>4, <2>3, FewBytes
    <3>2. busy' /\ bit_index' = 0 /\ Age' = 0 /\ Sent' = d
      BY <2>3 DEF Begins
    <3>3. Age' <= 3
      BY <3>2
    <3> QED BY <1>3, <2>1, <3>1, <3>2, <3>3 DEF Quiet, Kept
  <2> QED BY <1>4, <2>2, <2>3 DEF Moves, Goes
<1>5. CASE busy /\ bit_index = 9 /\ Age >= 3 /\ onwire = << >>
  <2>1. state' = "IDLE"
    <3>1. rx_sync = 1
      BY <1>1, <1>5 DEF Settled, tx, Framed
    <3> QED BY <1>2, <3>1
  <2>2. CASE Rests /\ taken = << >>
    <3>1. onwire' = << >>
      BY <1>3, <1>5, <2>2, FewBytes
    <3> QED BY <1>3, <2>1, <2>2, <3>1 DEF Rests, Quiet, Kept
  <2>3. ASSUME NEW d \in Bytes, Begins(d), taken = <<d>> PROVE Kept'
    <3>1. onwire' = <<d>>
      BY <1>3, <1>5, <2>3, FewBytes
    <3>2. busy' /\ bit_index' = 0 /\ Age' = 0 /\ Sent' = d
      BY <2>3 DEF Begins
    <3>3. Age' <= 3
      BY <3>2
    <3> QED BY <1>3, <2>1, <3>1, <3>2, <3>3 DEF Quiet, Kept
  <2>4. CASE Goes /\ taken = << >>
    <3>1. onwire' = << >>
      BY <1>3, <1>5, <2>4, FewBytes
    <3>2. busy' /\ bit_index' = 9 /\ Age' = Age + 1
      BY <1>5, <2>4 DEF Goes
    <3>3. Age' >= 3
      BY <1>1, <1>5, <3>2
    <3> QED BY <1>3, <2>1, <3>1, <3>2, <3>3 DEF Quiet, Kept
  <2> QED BY <2>2, <2>3, <2>4 DEF Moves
<1>6. CASE busy /\ bit_index = 0 /\ Age <= 3 /\ onwire = <<Sent>>
  <2>1. Goes /\ taken = << >>
    BY <1>6 DEF Moves, Begins, Rests, Free
  <2>2. onwire' = <<Sent'>>
    <3>1. Sent' = Sent
      BY <2>1 DEF Goes, Sent
    <3> QED BY <1>3, <1>6, <2>1, <3>1, FewBytes
  <2>3. Age = 3 => rx_sync = 0
    BY <1>6 DEF Settled, tx, Framed
  <2>4. CASE rx_sync = 0
    <3>1. Age >= 2
      BY <1>1, <1>6, <2>4 DEF Settled, Previous
    <3>2. /\ Least' <= Age + 1 /\ Most' >= Age + 1 /\ Least' \in Nat /\ Most' \in Nat
      <4>1. Least = Age /\ Most = Age
        BY <1>1, <1>6, LinkAssumption DEF Least, Most
      <4> QED BY <2>1, <4>1, GoesOn
    <3>3. state' = "START" /\ Reached' = 1
      BY <1>2, <2>4
    <3>4. Least' <= Reached' + 3 /\ Reached' + 2 <= Most'
      <4> DEFINE m == Least'
                 n == Most'
      <4>1. m <= Age + 1 /\ n >= Age + 1 /\ m \in Nat /\ n \in Nat
        BY <3>2
      <4> HIDE DEF m, n
      <4>2. m <= 1 + 3 /\ 1 + 2 <= n
        BY <1>1, <1>6, <3>1, <4>1
      <4> QED BY <3>3, <4>2 DEF m, n
    <3> QED BY <1>3, <2>1, <2>2, <3>3, <3>4 DEF Goes, Locked, Kept
  <2>5. CASE rx_sync # 0
    <3>1. Age <= 2
      BY <1>1, <1>6, <2>3, <2>5
    <3>2. clock_count # CLKS_PER_BIT - 1
      BY <1>1, <3>1
    <3>3. busy' /\ bit_index' = 0 /\ Age' = Age + 1
      BY <1>6, <2>1, <3>2 DEF Goes
    <3>4. Age' <= 3
      BY <1>1, <3>1, <3>3
    <3> QED BY <1>2, <1>3, <2>2, <2>5, <3>3, <3>4 DEF Quiet, Kept
  <2> QED BY <2>4, <2>5
<1> QED BY <1>4, <1>5, <1>6 DEF Quiet

\* A cycle in which the receiver is at the end of one byte and the next begins.
LEMMA OverlapStep ==
  ASSUME SamplingAssumption, LTypes, Settled, BytesAccounted, Overlap,
         NEW sampled, NEW ready \in BOOLEAN, NEW taken,
         Rx!Clock(sampled, ready), Account(taken, ready), Moves(taken)
  PROVE  Kept'
<1>1. /\ Age \in Nat /\ Age = clock_count + lag /\ clock_count \in Nat /\ lag \in Nat
      /\ busy \in BOOLEAN /\ CLKS_PER_BIT \in Nat /\ CLKS_PER_BIT >= 4
      /\ CLOCKS_PER_BIT \in Nat /\ rx_clock_count \in 0 .. CLOCKS_PER_BIT - 1
      /\ rx_clock_count + 2 >= CLOCKS_PER_BIT + Age
  BY LinkAssumption, DivisorAssumption
     DEF LTypes, TypeOK, Rx!TypeOK, Age, SamplingAssumption, Overlap
<1>2. Age <= 1
  BY <1>1
<1>3. rx_sync = 1
  BY <1>1, <1>2 DEF Overlap, Settled, Previous
<1>4. /\ shift_reg' = shift_reg
      /\ \/ /\ ~Rx!byte_ends /\ state' = "STOP" /\ rx_clock_count' = rx_clock_count + 1
         \/ Rx!byte_ends /\ state' = "IDLE"
  BY StopMoves DEF Overlap
<1>5. CASE busy
  <2>1. Goes /\ taken = << >> /\ bit_index = 0 /\ onwire = <<shift_reg, Sent>>
    BY <1>5 DEF Moves, Begins, Rests, Free, Overlap
  <2>2. onwire \o taken = <<shift_reg, Sent>> /\ Sent' = Sent
    BY <2>1, FewBytes DEF Goes, Sent
  <2>3. clock_count # CLKS_PER_BIT - 1
    BY <1>1, <1>2
  <2>4. busy' /\ bit_index' = 0 /\ Age' = Age + 1
    BY <2>1, <2>3 DEF Goes
  <2>5. CASE ~Rx!byte_ends
    <3>1. onwire' = <<shift_reg', Sent'>> /\ BytesAccounted' /\ ~framing_error'
      BY <1>4, <2>2, <2>5, NoneEnds
    <3>2. rx_clock_count' + 2 >= CLOCKS_PER_BIT + Age'
      BY <1>1, <1>4, <2>4, <2>5
    <3> QED BY <1>4, <2>4, <2>5, <3>1, <3>2 DEF Overlap, Kept
  <2>6. CASE Rx!byte_ends
    <3>1. /\ onwire' = Tail(<<shift_reg, Sent>>) /\ BytesAccounted' /\ ~framing_error'
      <4>1. onwire \o taken # << >> /\ Head(onwire \o taken) = shift_reg
        BY <2>2, FewBytes
      <4> QED BY <1>3, <2>2, <2>6, <4>1, OneEnds
    <3>2. onwire' = <<Sent'>>
      BY <2>2, <3>1, FewBytes
    <3>3. Age' <= 3
      BY <1>1, <1>2, <2>4
    <3> QED BY <1>4, <2>4, <2>6, <3>1, <3>2, <3>3 DEF Quiet, Kept
  <2> QED BY <2>5, <2>6
<1>6. CASE ~busy
  <2>1. onwire = <<shift_reg>>
    BY <1>6 DEF Overlap
  <2>2. CASE Rests /\ taken = << >>
    <3>1. onwire \o taken = <<shift_reg>> /\ ~busy' /\ Age' = 0
      BY <2>1, <2>2, FewBytes DEF Rests
    <3>2. CASE ~Rx!byte_ends
      <4>1. onwire' = <<shift_reg'>> /\ BytesAccounted' /\ ~framing_error'
        BY <1>4, <3>1, <3>2, NoneEnds
      <4>2. rx_clock_count' + 2 >= CLOCKS_PER_BIT + Age'
        BY <1>1, <1>4, <3>1, <3>2
      <4> QED BY <1>4, <3>1, <3>2, <4>1, <4>2 DEF Overlap, Kept
    <3>3. CASE Rx!byte_ends
      <4>1. onwire' = Tail(<<shift_reg>>) /\ BytesAccounted' /\ ~framing_error'
        <5>1. onwire \o taken # << >> /\ Head(onwire \o taken) = shift_reg
          BY <3>1, FewBytes
        <5> QED BY <1>3, <3>1, <3>3, <5>1, OneEnds
      <4>2. onwire' = << >>
        BY <4>1, FewBytes
      <4> QED BY <1>4, <3>1, <3>3, <4>1, <4>2 DEF Quiet, Kept
    <3> QED BY <3>2, <3>3
  <2>3. ASSUME NEW d \in Bytes, Begins(d), taken = <<d>> PROVE Kept'
    <3>1. /\ onwire \o taken = <<shift_reg, d>> /\ busy' /\ bit_index' = 0
          /\ Age' = 0 /\ Sent' = d
      BY <2>1, <2>3, FewBytes DEF Begins
    <3>2. CASE ~Rx!byte_ends
      <4>1. onwire' = <<shift_reg', Sent'>> /\ BytesAccounted' /\ ~framing_error'
        BY <1>4, <3>1, <3>2, NoneEnds
      <4>2. rx_clock_count' + 2 >= CLOCKS_PER_BIT + Age'
        BY <1>1, <1>4, <3>1, <3>2
      <4> QED BY <1>4, <3>1, <3>2, <4>1, <4>2 DEF Overlap, Kept
    <3>3. CASE Rx!byte_ends
      <4>1. onwire' = Tail(<<shift_reg, d>>) /\ BytesAccounted' /\ ~framing_error'
        <5>1. onwire \o taken # << >> /\ Head(onwire \o taken) = shift_reg
          BY <3>1, FewBytes
        <5> QED BY <1>3, <3>1, <3>3, <5>1, OneEnds
      <4>2. onwire' = <<Sent'>>
        BY <3>1, <4>1, FewBytes
      <4> QED BY <1>4, <3>1, <3>3, <4>1, <4>2 DEF Quiet, Kept
    <3> QED BY <3>2, <3>3
  <2> QED BY <1>6, <2>2, <2>3 DEF Moves, Goes
<1> QED BY <1>1, <1>5, <1>6

\* The frame cannot leave the line before the receiver is within two cycles of
\* its stop bit's sample.
LEMMA NearTheEnd ==
  ASSUME SamplingAssumption, LTypes, busy, bit_index = 9, clock_count = CLKS_PER_BIT - 1,
         state # "IDLE", Least <= Reached + 3
  PROVE  state = "STOP" /\ rx_clock_count + 3 >= CLOCKS_PER_BIT
<1> DEFINE C == CLOCKS_PER_BIT
           L == CLKS_PER_BIT
           h == Half
           t == rx_clock_count
<1>1. /\ C \in Nat /\ L \in Nat /\ lag \in Nat /\ h \in Nat /\ h < C
      /\ t \in 0 .. C - 1 /\ state \in {"START", "DATA", "STOP"} /\ rx_bit_index \in 0 .. 7
      /\ state = "START" => t < h
  BY LinkAssumption, DivisorAssumption, Halves
     DEF LTypes, Rx!TypeOK, Rx!States
<1>2. Least = 9 * L + ((L - 1) + lag)
  BY DEF Least, Age
<1>3. L >= 4 /\ h + 9 * C + 2 <= 10 * L /\ 9 * (L + MAX_LAG) + 1 <= h + 9 * C
  BY DEF SamplingAssumption, Half
<1>4. Least <= Reached + 3
  OBVIOUS
<1>5. C >= 3
  <2>1. 2 * h <= C /\ MAX_LAG \in Nat
    BY Halves, LinkAssumption
  <2> HIDE DEF C, L, h, t
  <2> QED BY <1>1, <1>3, <2>1
<1>6. state = "START" => Reached = t + 1
  BY DEF Reached
<1>7. state = "STOP" => Reached = h + 8 * C + t + 1
  BY DEF Reached
<1>8. state = "DATA" => Reached <= h + 7 * C + t + 1 /\ Reached \in Nat
  <2> SUFFICES ASSUME state = "DATA" PROVE Reached <= h + 7 * C + t + 1 /\ Reached \in Nat
    OBVIOUS
  <2> DEFINE p == rx_bit_index * C
  <2>1. Reached = h + p + t + 1
    BY DEF Reached
  <2>2. p \in Nat /\ p <= 7 * C
    <3>1. rx_bit_index \in 0 .. 10 /\ 7 \in 0 .. 10 /\ rx_bit_index <= 7
      BY <1>1
    <3> HIDE DEF C
    <3> QED BY <1>1, <3>1, Multiples
  <2> HIDE DEF C, L, h, t, p
  <2> QED BY <1>1, <2>1, <2>2
<1> HIDE DEF C, L, h, t
<1>9. state # "START"
  BY <1>1, <1>2, <1>3, <1>4, <1>5, <1>6
<1>10. state # "DATA"
  BY <1>1, <1>2, <1>3, <1>4, <1>5, <1>8
<1>11. t + 3 >= C
  BY <1>1, <1>2, <1>3, <1>4, <1>7, <1>9, <1>10
<1> QED BY <1>1, <1>9, <1>10, <1>11 DEF t, C

\* The receiver reads another cycle of the frame, correctly.
LEMMA Reads ==
  ASSUME SamplingAssumption, LTypes, Framed, Settled, Locked, NEW sampled, NEW ready,
         Rx!Clock(sampled, ready)
  PROVE  /\ Reached \in Nat
         /\ \/ /\ ~Rx!byte_ends /\ state' # "IDLE" /\ Reached' = Reached + 1
               /\ state = "STOP" =>
                    state' = "STOP" /\ rx_clock_count' = rx_clock_count + 1
               /\ \A i \in 0 .. 7 :
                    state' = "STOP" \/ (state' = "DATA" /\ i < rx_bit_index')
                      => shift_reg'[i] = Sent[i]
            \/ /\ Rx!byte_ends /\ state' = "IDLE" /\ state = "STOP"
               /\ rx_sync = 1 /\ bit_index = 9 /\ Age >= 3
         /\ state = "STOP" => shift_reg = Sent /\ shift_reg' = shift_reg
<1>1. /\ state \in {"START", "DATA", "STOP"} /\ busy /\ rx_bit_index \in 0 .. 7
      /\ shift_reg \in [0 .. 7 -> {0, 1}]
      /\ Least <= Reached + 3 /\ Reached + 2 <= Most
  BY DEF LTypes, Rx!TypeOK, Rx!States, Rx!Byte, Rx!Bit, Locked
<1>2. ASSUME NEW k \in 0 .. 9, Reached \in Nat, Reached = Half + k * CLOCKS_PER_BIT
      PROVE  rx_sync = shift_register[k] /\ (k = 9 => bit_index = 9 /\ Age >= 3)
  BY <1>1, <1>2, SampledBit
<1>3. \A i \in 0 .. 7 :
        state = "STOP" \/ (state = "DATA" /\ i < rx_bit_index) => shift_reg[i] = Sent[i]
  BY DEF Locked
<1>4. CASE state = "START"
  <2>1. /\ ~Rx!byte_ends /\ Reached \in Nat
        /\ \/ state' = "START" /\ Reached' = Reached + 1
           \/ /\ Reached = Half + 0 * CLOCKS_PER_BIT
              /\ rx_sync = 0 =>
                   state' = "DATA" /\ rx_bit_index' = 0 /\ Reached' = Reached + 1
    BY <1>4, StartMoves
  <2>2. CASE state' = "START" /\ Reached' = Reached + 1
    BY <1>4, <2>1, <2>2
  <2>3. CASE /\ Reached = Half + 0 * CLOCKS_PER_BIT
             /\ rx_sync = 0 =>
                  state' = "DATA" /\ rx_bit_index' = 0 /\ Reached' = Reached + 1
    <3>1. rx_sync = 0
      BY <1>1, <1>2, <2>1, <2>3 DEF Framed
    <3>2. state' = "DATA" /\ rx_bit_index' = 0 /\ Reached' = Reached + 1
      BY <2>1, <2>3, <3>1
    <3>3. \A i \in 0 .. 7 : ~(i < 0)
      OBVIOUS
    <3> QED BY <1>4, <2>1, <3>2, <3>3
  <2> QED BY <2>1, <2>2, <2>3
<1>5. CASE state = "DATA"
  <2>1. /\ ~Rx!byte_ends /\ Reached \in Nat /\ Reached' = Reached + 1
        /\ \/ /\ state' = "DATA"
              /\ UNCHANGED <<rx_bit_index, shift_reg>>
           \/ /\ Reached = Half + (rx_bit_index + 1) * CLOCKS_PER_BIT
              /\ shift_reg' = [shift_reg EXCEPT ![rx_bit_index] = rx_sync]
              /\ \/ rx_bit_index = 7 /\ state' = "STOP"
                 \/ /\ rx_bit_index < 7 /\ state' = "DATA"
                    /\ rx_bit_index' = rx_bit_index + 1
    BY <1>5, DataMoves
  <2>2. CASE state' = "DATA" /\ UNCHANGED <<rx_bit_index, shift_reg>>
    BY <1>3, <1>5, <2>1, <2>2
  <2>3. CASE /\ Reached = Half + (rx_bit_index + 1) * CLOCKS_PER_BIT
             /\ shift_reg' = [shift_reg EXCEPT ![rx_bit_index] = rx_sync]
             /\ \/ rx_bit_index = 7 /\ state' = "STOP"
                \/ /\ rx_bit_index < 7 /\ state' = "DATA"
                   /\ rx_bit_index' = rx_bit_index + 1
    <3>1. rx_bit_index + 1 \in 0 .. 9
      BY <1>1
    <3>2. rx_sync = shift_register[rx_bit_index + 1]
      BY <1>2, <2>1, <2>3, <3>1
    <3>3. Sent[rx_bit_index] = shift_register[rx_bit_index + 1]
      BY <1>1 DEF Sent
    <3>4. \A i \in 0 .. 7 : i <= rx_bit_index => shift_reg'[i] = Sent[i]
      <4> SUFFICES ASSUME NEW i \in 0 .. 7, i <= rx_bit_index PROVE shift_reg'[i] = Sent[i]
        OBVIOUS
      <4>1. CASE i = rx_bit_index
        BY <1>1, <2>3, <3>2, <3>3, <4>1
      <4>2. CASE i # rx_bit_index
        <5>1. i < rx_bit_index
          BY <1>1, <4>2
        <5> QED BY <1>1, <1>3, <1>5, <2>3, <4>2, <5>1
      <4> QED BY <4>1, <4>2
    <3>5. CASE rx_bit_index = 7 /\ state' = "STOP"
      BY <1>5, <2>1, <3>4, <3>5
    <3>6. CASE rx_bit_index < 7 /\ state' = "DATA" /\ rx_bit_index' = rx_bit_index + 1
      <4>1. \A i \in 0 .. 7 : i < rx_bit_index + 1 => i <= rx_bit_index
        BY <1>1
      <4> QED BY <1>5, <2>1, <3>4, <3>6, <4>1
    <3> QED BY <2>3, <3>5, <3>6
  <2> QED BY <2>1, <2>2, <2>3
<1>6. CASE state = "STOP"
  <2>1. /\ Reached \in Nat /\ shift_reg' = shift_reg
        /\ \/ /\ ~Rx!byte_ends /\ state' = "STOP" /\ Reached' = Reached + 1
              /\ rx_clock_count' = rx_clock_count + 1
           \/ /\ Rx!byte_ends /\ state' = "IDLE"
              /\ Reached = Half + 9 * CLOCKS_PER_BIT
    BY <1>6, StopMoves
  <2>2. shift_reg = Sent
    <3>1. \A i \in 0 .. 7 : shift_reg[i] = Sent[i]
      BY <1>3, <1>6
    <3>2. shift_reg = [i \in 0 .. 7 |-> shift_reg[i]] /\ Sent = [i \in 0 .. 7 |-> Sent[i]]
      BY <1>1 DEF Sent
    <3> QED BY <3>1, <3>2
  <2>3. CASE ~Rx!byte_ends /\ state' = "STOP" /\ Reached' = Reached + 1
             /\ rx_clock_count' = rx_clock_count + 1
    BY <1>3, <1>6, <2>1, <2>2, <2>3
  <2>4. CASE Rx!byte_ends /\ state' = "IDLE" /\ Reached = Half + 9 * CLOCKS_PER_BIT
    <3>1. 9 \in 0 .. 9
      OBVIOUS
    <3>2. rx_sync = shift_register[9] /\ bit_index = 9 /\ Age >= 3
      BY <1>2, <2>1, <2>4, <3>1
    <3>3. rx_sync = 1
      BY <1>1, <3>2 DEF Framed
    <3> QED BY <1>6, <2>1, <2>2, <2>4, <3>2, <3>3
  <2> QED BY <2>1, <2>3, <2>4
<1> QED BY <1>1, <1>4, <1>5, <1>6

\* A cycle in which the receiver is within the byte that is on the line.
LEMMA LockedStep ==
  ASSUME SamplingAssumption, LTypes, Framed, Settled, BytesAccounted, Locked,
         NEW sampled, NEW ready \in BOOLEAN, NEW taken,
         Rx!Clock(sampled, ready), Account(taken, ready), Moves(taken)
  PROVE  Kept'
<1>1. Reached \in Nat
  BY Reads
<1>2. state = "STOP" => shift_reg = Sent /\ shift_reg' = shift_reg
  BY Reads
<1>3. onwire = <<Sent>> /\ busy /\ state # "IDLE" /\ Least <= Reached + 3 /\ Reached + 2 <= Most
  BY DEF Locked
<1>4. /\ Age \in Nat /\ CLOCKS_PER_BIT \in Nat /\ rx_clock_count \in Nat
  BY LinkAssumption, DivisorAssumption DEF LTypes, TypeOK, Rx!TypeOK, Age
<1>5. CASE /\ ~Rx!byte_ends /\ state' # "IDLE" /\ Reached' = Reached + 1
           /\ state = "STOP" =>
                state' = "STOP" /\ rx_clock_count' = rx_clock_count + 1
           /\ \A i \in 0 .. 7 :
                state' = "STOP" \/ (state' = "DATA" /\ i < rx_bit_index')
                  => shift_reg'[i] = Sent[i]
  <2>1. onwire' = onwire \o taken /\ BytesAccounted' /\ ~framing_error'
    BY <1>5, NoneEnds
  <2>2. CASE Goes /\ taken = << >>
    <3>1. Sent' = Sent /\ busy'
      BY <2>2 DEF Goes, Sent
    <3>2. onwire' = <<Sent'>>
      BY <1>3, <2>1, <2>2, <3>1, FewBytes
    <3>3. Least' <= Reached' + 3 /\ Reached' + 2 <= Most'
      <4> DEFINE m == Least'
                 n == Most'
      <4>1. /\ m \in Nat /\ n \in Nat /\ m <= Least + 1 /\ n >= Most + 1
            /\ Least \in Nat /\ Most \in Nat
        BY <2>2, GoesOn
      <4> HIDE DEF m, n
      <4>2. m <= Reached + 1 + 3 /\ Reached + 1 + 2 <= n
        BY <1>1, <1>3, <4>1
      <4> QED BY <1>5, <4>2 DEF m, n
    <3>4. \A i \in 0 .. 7 :
            state' = "STOP" \/ (state' = "DATA" /\ i < rx_bit_index')
              => shift_reg'[i] = Sent'[i]
      BY <1>5, <3>1
    <3>5. Locked'
      BY <1>5, <3>1, <3>2, <3>3, <3>4 DEF Locked
    <3> QED BY <2>1, <3>5 DEF Kept
  <2>3. ASSUME Free
        PROVE  /\ state = "STOP" /\ state' = "STOP" /\ shift_reg' = Sent
               /\ rx_clock_count' + 2 >= CLOCKS_PER_BIT + 0
    <3>1. state = "STOP" /\ rx_clock_count + 3 >= CLOCKS_PER_BIT
      BY <1>3, <2>3, NearTheEnd DEF Free
    <3>2. rx_clock_count + 1 + 2 >= CLOCKS_PER_BIT + 0
      BY <1>4, <3>1
    <3> QED BY <1>2, <1>5, <3>1, <3>2
  <2>4. ASSUME NEW d \in Bytes, Begins(d), taken = <<d>> PROVE Kept'
    <3>1. Free /\ busy' /\ bit_index' = 0 /\ Age' = 0 /\ Sent' = d
      BY <2>4 DEF Begins
    <3>2. onwire' = <<Sent, d>>
      BY <1>3, <2>1, <2>4, FewBytes
    <3>3. onwire' = <<shift_reg', Sent'>>
      BY <2>3, <3>1, <3>2
    <3>4. Overlap'
      BY <2>3, <3>1, <3>3 DEF Overlap
    <3> QED BY <2>1, <3>4 DEF Kept
  <2>5. CASE Rests /\ taken = << >>
    <3>1. Free /\ ~busy' /\ Age' = 0
      BY <2>5 DEF Rests
    <3>2. onwire' = <<Sent>>
      BY <1>3, <2>1, <2>5, FewBytes
    <3>3. onwire' = <<shift_reg'>>
      BY <2>3, <3>1, <3>2
    <3>4. Overlap'
      BY <2>3, <3>1, <3>3 DEF Overlap
    <3> QED BY <2>1, <3>4 DEF Kept
  <2> QED BY <2>2, <2>4, <2>5 DEF Moves
<1>6. CASE /\ Rx!byte_ends /\ state' = "IDLE" /\ state = "STOP"
           /\ rx_sync = 1 /\ bit_index = 9 /\ Age >= 3
  <2>1. ASSUME NEW s, onwire \o taken = s, s # << >>, Head(s) = Sent
        PROVE  onwire' = Tail(s) /\ BytesAccounted' /\ ~framing_error'
    BY <1>2, <1>6, <2>1, OneEnds
  <2>2. CASE Goes /\ taken = << >>
    <3>1. onwire \o taken = <<Sent>> /\ <<Sent>> # << >> /\ Head(<<Sent>>) = Sent
      BY <1>3, <2>2, FewBytes
    <3>2. onwire' = << >> /\ BytesAccounted' /\ ~framing_error'
      BY <2>1, <3>1, FewBytes
    <3>3. busy' /\ bit_index' = 9 /\ Age' = Age + 1
      BY <1>6, <2>2 DEF Goes
    <3>4. Age' >= 3
      BY <1>4, <1>6, <3>3
    <3> QED BY <1>6, <3>2, <3>3, <3>4 DEF Quiet, Kept
  <2>3. ASSUME NEW d \in Bytes, Begins(d), taken = <<d>> PROVE Kept'
    <3>1. onwire \o taken = <<Sent, d>> /\ <<Sent, d>> # << >> /\ Head(<<Sent, d>>) = Sent
      BY <1>3, <2>3, FewBytes
    <3>2. onwire' = <<d>> /\ BytesAccounted' /\ ~framing_error'
      <4>1. onwire' = Tail(<<Sent, d>>) /\ BytesAccounted' /\ ~framing_error'
        BY <2>1, <3>1
      <4> QED BY <4>1, FewBytes
    <3>3. busy' /\ bit_index' = 0 /\ Age' = 0 /\ Sent' = d
      BY <2>3 DEF Begins
    <3>4. Age' <= 3
      BY <3>3
    <3> QED BY <1>6, <3>2, <3>3, <3>4 DEF Quiet, Kept
  <2>4. CASE Rests /\ taken = << >>
    <3>1. onwire \o taken = <<Sent>> /\ <<Sent>> # << >> /\ Head(<<Sent>>) = Sent
      BY <1>3, <2>4, FewBytes
    <3>2. onwire' = << >> /\ BytesAccounted' /\ ~framing_error'
      BY <2>1, <3>1, FewBytes
    <3> QED BY <1>6, <2>4, <3>2 DEF Rests, Quiet, Kept
  <2> QED BY <2>2, <2>3, <2>4 DEF Moves
<1> QED BY <1>5, <1>6, Reads

----------------------------------------------------------------------------
(* The theorems. *)

\* The invariant holds from the beginning on and implies both properties.
LEMMA LinkInvariance ==
  ASSUME SamplingAssumption
  PROVE  LinkSpec => [](BytesRead /\ BytesAccounted)
<1>1. LinkInit => LInv
  <2> SUFFICES ASSUME LinkInit PROVE LInv
    OBVIOUS
  <2>1. TypeOK
    <3>1. shift_register \in [0 .. 9 -> Bit]
      BY DEF LinkInit, Init, Bit
    <3> QED BY <3>1, Zero, Zenon DEF LinkInit, Init, TypeOK
  <2>2. Rx!TypeOK
    <3>1. Rx!Zeros \in Rx!Byte /\ 1 \in Rx!Bit /\ "IDLE" \in Rx!States
      BY DEF Rx!Zeros, Rx!Byte, Rx!Bit, Rx!States
    <3>2. 0 \in 0 .. CLOCKS_PER_BIT - 1 /\ 0 \in 0 .. 7
      BY LinkAssumption
    <3> QED BY <3>1, <3>2, Zenon DEF LinkInit, Rx!Init, Rx!TypeOK
  <2>3. lag \in 0 .. MAX_LAG
    BY LinkAssumption DEF LinkInit
  <2>4. Framed /\ Settled /\ Quiet /\ BytesAccounted /\ ~framing_error /\ state # "START"
    BY DEF LinkInit, Init, Rx!Init, Framed, Settled, Quiet, BytesAccounted
  <2> QED BY <2>1, <2>2, <2>3, <2>4 DEF LInv, LTypes
<1>2. LInv /\ [LinkNext]_<<vars, Rx!vars, link>> => LInv'
  <2> SUFFICES ASSUME LInv, [LinkNext]_<<vars, Rx!vars, link>> PROVE LInv'
    OBVIOUS
  <2>1. CASE LinkReset
    <3>1. TypeOK'
      <4>1. shift_register' \in [0 .. 9 -> Bit]
        BY <2>1 DEF LinkReset, Reset, Bit
      <4> QED BY <2>1, <4>1, Zero, Zenon DEF LinkReset, Reset, TypeOK
    <3>2. Rx!TypeOK'
      <4>1. Rx!Zeros \in Rx!Byte /\ 1 \in Rx!Bit /\ "IDLE" \in Rx!States
        BY DEF Rx!Zeros, Rx!Byte, Rx!Bit, Rx!States
      <4>2. 0 \in 0 .. CLOCKS_PER_BIT - 1 /\ 0 \in 0 .. 7
        BY LinkAssumption
      <4> QED BY <2>1, <4>1, <4>2, Zenon DEF LinkReset, Rx!Reset, Rx!TypeOK
    <3>3. lag' \in 0 .. MAX_LAG
      BY <2>1, LinkAssumption DEF LinkReset
    <3>4. /\ Framed' /\ Settled' /\ Quiet' /\ BytesAccounted' /\ ~framing_error'
          /\ state' # "START"
      BY <2>1 DEF LinkReset, Reset, Rx!Reset, Framed, Settled, Quiet, BytesAccounted
    <3> QED BY <3>1, <3>2, <3>3, <3>4 DEF LInv, LTypes
  <2>2. CASE Cycle
    <3>1. PICK sampled \in Levels, ready \in BOOLEAN :
            /\ Rx!Clock(sampled, ready)
            /\ line_before' = tx
            /\ \/ Lag /\ Account(<< >>, ready)
               \/ \E input_valid \in BOOLEAN, d \in Bytes :
                    /\ Tick(input_valid, d)
                    /\ Account(IF input_valid /\ input_ready THEN <<d>> ELSE << >>, ready)
      BY <2>2 DEF Cycle
    <3>2. PICK taken : /\ Moves(taken) /\ Account(taken, ready)
                       /\ TypeOK' /\ lag' \in 0 .. MAX_LAG /\ Framed'
      <4>1. CASE Lag /\ Account(<< >>, ready)
        BY <4>1, LagMoves DEF LInv, Moves
      <4>2. ASSUME NEW valid \in BOOLEAN, NEW d \in Bytes, Tick(valid, d),
                   Account(IF valid /\ input_ready THEN <<d>> ELSE << >>, ready)
            PROVE  \E taken : /\ Moves(taken) /\ Account(taken, ready)
                              /\ TypeOK' /\ lag' \in 0 .. MAX_LAG /\ Framed'
        <5> DEFINE taken == IF valid /\ input_ready THEN <<d>> ELSE << >>
        <5>1. /\ \/ Goes /\ taken = << >>
                 \/ Begins(d) /\ taken = <<d>>
                 \/ Rests /\ taken = << >>
              /\ TypeOK' /\ lag' \in 0 .. MAX_LAG /\ Framed'
          BY <4>2, TickMoves DEF LInv
        <5>2. Account(taken, ready)
          BY <4>2
        <5> HIDE DEF taken
        <5>3. Moves(taken)
          BY <5>1 DEF Moves
        <5> QED BY <5>1, <5>2, <5>3
      <4> QED BY <3>1, <4>1, <4>2
    <3>3. sampled \in {0, 1}
      <4>1. tx \in {0, 1}
        BY DEF LInv, LTypes, TypeOK, tx, Bit
      <4>2. line_before \in {0, 1}
        <5>1. Previous \in {0, 1}
          BY DEF LInv, LTypes, TypeOK, Previous, Bit
        <5> QED BY <4>1, <5>1 DEF LInv, Settled
      <4> QED BY <4>1, <4>2 DEF Levels
    <3>4. LTypes'
      <4>1. Rx!TypeOK' /\ (state' = "START" => rx_clock_count' < Half)
        BY <3>1, <3>3, ReceiverTypes DEF LInv, LTypes
      <4>2. (state = "START" => rx_clock_count < Half)'
        BY <4>1 DEF Half, Rx!HALF_CLOCKS_PER_BIT
      <4> QED BY <3>2, <4>1, <4>2 DEF LTypes
    <3>5. Settled'
      BY <3>1, <3>2, LevelsSettle DEF LInv, Rx!Clock
    <3>6. Kept'
      <4>1. CASE Quiet
        BY <3>1, <3>2, <4>1, QuietStep DEF LInv
      <4>2. CASE Locked
        BY <3>1, <3>2, <4>2, LockedStep DEF LInv
      <4>3. CASE Overlap
        BY <3>1, <3>2, <4>3, OverlapStep DEF LInv
      <4> QED BY <4>1, <4>2, <4>3 DEF LInv
    <3> QED BY <3>2, <3>4, <3>5, <3>6 DEF LInv, Kept
  <2>3. CASE UNCHANGED <<vars, Rx!vars, link>>
    <3>1. /\ UNCHANGED <<clock_count, bit_index, shift_register, busy>>
          /\ UNCHANGED <<rx_meta, rx_sync, state, rx_clock_count, rx_bit_index, shift_reg>>
          /\ UNCHANGED <<output_data, output_valid, framing_error, overflow_error>>
          /\ UNCHANGED <<line_before, lag, onwire, held>>
      BY <2>3 DEF vars, Rx!vars, Rx!synchroniser, Rx!reception, Rx!output, link
    <3>2. LTypes'
      <4>1. TypeOK' /\ Rx!TypeOK' /\ lag' \in 0 .. MAX_LAG
        BY <3>1 DEF LInv, LTypes, TypeOK, Rx!TypeOK
      <4>2. (state = "START" => rx_clock_count < Half)'
        BY <3>1 DEF LInv, LTypes, Half, Rx!HALF_CLOCKS_PER_BIT
      <4> QED BY <4>1, <4>2 DEF LTypes
    <3>3. Age' = Age /\ tx' = tx /\ Previous' = Previous /\ Sent' = Sent
      BY <3>1 DEF Age, tx, Previous, Sent
    <3>4. Least' = Least /\ Most' = Most /\ Reached' = Reached
      BY <3>1 DEF Least, Most, Reached, Age, Half, Rx!HALF_CLOCKS_PER_BIT
    <3>5. Settled'
      BY <3>1, <3>3 DEF LInv, Settled
    <3>6. Framed' /\ BytesAccounted' /\ ~framing_error'
      BY <3>1 DEF LInv, Framed, BytesAccounted
    <3>7. Quiet => Quiet'
      BY <3>1, <3>3 DEF Quiet
    <3>8. Locked => Locked'
      BY <3>1, <3>3, <3>4 DEF Locked
    <3>9. Overlap => Overlap'
      BY <3>1, <3>3 DEF Overlap
    <3> QED BY <3>2, <3>5, <3>6, <3>7, <3>8, <3>9 DEF LInv
  <2> QED BY <2>1, <2>2, <2>3 DEF LinkNext
<1>3. LInv => BytesRead /\ BytesAccounted
  <2> SUFFICES ASSUME LInv PROVE BytesRead /\ BytesAccounted
    OBVIOUS
  <2>1. ASSUME state = "STOP" PROVE onwire # << >> /\ shift_reg = Head(onwire)
    <3>1. CASE Locked
      <4>1. shift_reg = Sent
        <5>1. \A i \in 0 .. 7 : shift_reg[i] = Sent[i]
          BY <2>1, <3>1 DEF Locked
        <5>2. shift_reg = [i \in 0 .. 7 |-> shift_reg[i]] /\ Sent = [i \in 0 .. 7 |-> Sent[i]]
          BY DEF Sent, LInv, LTypes, Rx!TypeOK, Rx!Byte
        <5> QED BY <5>1, <5>2
      <4>2. onwire = <<shift_reg>>
        BY <3>1, <4>1 DEF Locked
      <4> QED BY <4>2, FewBytes
    <3>2. CASE Overlap
      <4>1. CASE busy
        <5>1. onwire = <<shift_reg, Sent>>
          BY <3>2, <4>1 DEF Overlap
        <5> QED BY <5>1, FewBytes
      <4>2. CASE ~busy
        <5>1. onwire = <<shift_reg>>
          BY <3>2, <4>2 DEF Overlap
        <5> QED BY <5>1, FewBytes
      <4> QED BY <4>1, <4>2
    <3> QED BY <2>1, <3>1, <3>2 DEF LInv, Quiet
  <2> QED BY <2>1 DEF LInv, BytesRead
<1> QED BY <1>1, <1>2, <1>3, PTL DEF LinkSpec

\* For every byte, every two divisors and every drift inside the margin of the
\* sampling points: each byte the transmitter takes is read with its own bits and
\* its stop bit.
THEOREM LinkCorrect == LinkSpec => []BytesRead
BY LinkInvariance, DriftAssumption, PTL

\* Within the same margin each byte that was sent is handed out once, in order,
\* or reported as an overflow.
THEOREM LinkAccounts == LinkSpec => []BytesAccounted
BY LinkInvariance, DriftAssumption, PTL

----------------------------------------------------------------------------
(* The receiver on any line. *)

\* How far the receiver is in a byte, counted from the middle of its start bit.
Position ==
  IF state = "STOP" THEN 8 * CLOCKS_PER_BIT + rx_clock_count
  ELSE rx_bit_index * CLOCKS_PER_BIT + rx_clock_count

\* The line and what the synchroniser has seen of its present level.
LineOK ==
  /\ line \in Rx!Bit /\ same \in Nat
  /\ same >= 1 => rx_meta = line
  /\ same >= 2 => rx_sync = line

\* The level has not lasted longer than the receiver has been reading, unless
\* the receiver is idle (a high line) or has complained (a low line).
Pace ==
  /\ line = 1 =>
       /\ state = "START" => same <= rx_clock_count + 2
       /\ state \in {"DATA", "STOP"} => same <= Position + 2
  /\ line = 0 /\ ~broken =>
       /\ state = "IDLE" => same <= 2
       /\ state = "START" => same <= rx_clock_count + 3
       /\ state \in {"DATA", "STOP"} => same <= Position + Half + 3

\* The start bit is sampled in its middle.
StartInTime == state = "START" => rx_clock_count < Half

LineInv == Rx!TypeOK /\ LineOK /\ StartInTime /\ Pace

\* The first clock count of a bit follows the last one of the bit before it.
LEMMA BitStarts ==
  \A b \in 0 .. 7 : /\ b * CLOCKS_PER_BIT \in Nat
                    /\ (b + 1) * CLOCKS_PER_BIT = b * CLOCKS_PER_BIT + CLOCKS_PER_BIT
                    /\ b * CLOCKS_PER_BIT <= 7 * CLOCKS_PER_BIT
<1> DEFINE c == CLOCKS_PER_BIT
<1>1. c \in Nat
  BY LinkAssumption
<1> HIDE DEF c
<1>2. \A b \in 0 .. 7 : b * c \in Nat /\ (b + 1) * c = b * c + c /\ b * c <= 7 * c
  BY <1>1
<1> QED BY <1>2 DEF c

\* Where a clock edge takes the state, and how far.
Advance ==
  /\ state = "IDLE" =>
       \/ rx_sync = 1 /\ state' = "IDLE"
       \/ rx_sync = 0 /\ state' = "START" /\ rx_clock_count' = 0
  /\ state = "START" =>
       \/ state' = "START" /\ rx_clock_count' = rx_clock_count + 1
       \/ rx_sync = 1 /\ state' = "IDLE"
       \/ rx_sync = 0 /\ state' = "DATA" /\ Position' = 0
  /\ state = "DATA" =>
       state' \in {"DATA", "STOP"} /\ Position' = Position + 1
  /\ state = "STOP" =>
       \/ state' = "STOP" /\ Position' = Position + 1
       \/ /\ state' = "IDLE" /\ Position = 9 * CLOCKS_PER_BIT - 1
          /\ framing_error' = (rx_sync = 0)

\* Every clock edge is such a step.
LEMMA Advances ==
  ASSUME Rx!TypeOK, StartInTime, NEW sampled \in Rx!Bit, NEW ready \in BOOLEAN,
         Rx!Clock(sampled, ready)
  PROVE  Advance
<1> USE LinkAssumption, Halves
<1>1. ASSUME state = "IDLE"
      PROVE  \/ rx_sync = 1 /\ state' = "IDLE"
             \/ rx_sync = 0 /\ state' = "START" /\ rx_clock_count' = 0
  BY <1>1 DEF Rx!Clock, Rx!Idle, Rx!Start, Rx!DataBit, Rx!Stop, Rx!TypeOK, Rx!Bit
<1>2. ASSUME state = "START"
      PROVE  \/ state' = "START" /\ rx_clock_count' = rx_clock_count + 1
             \/ rx_sync = 1 /\ state' = "IDLE"
             \/ rx_sync = 0 /\ state' = "DATA" /\ Position' = 0
  <2>1. Rx!Start
    BY <1>2 DEF Rx!Clock, Rx!Idle, Rx!DataBit, Rx!Stop
  <2> QED BY <1>2, <2>1, BitStarts DEF Rx!Start, Rx!TypeOK, Rx!Bit, Position
<1>3. ASSUME state = "DATA"
      PROVE  state' \in {"DATA", "STOP"} /\ Position' = Position + 1
  <2>1. Rx!DataBit
    BY <1>3 DEF Rx!Clock, Rx!Idle, Rx!Start, Rx!Stop
  <2>2. /\ rx_bit_index \in 0 .. 7 /\ rx_clock_count \in 0 .. CLOCKS_PER_BIT - 1
        /\ Position = rx_bit_index * CLOCKS_PER_BIT + rx_clock_count
    BY <1>3 DEF Rx!TypeOK, Position
  <2>3. CASE rx_clock_count # CLOCKS_PER_BIT - 1
    BY <1>3, <2>1, <2>2, <2>3, BitStarts DEF Rx!DataBit, Position
  <2>4. CASE rx_clock_count = CLOCKS_PER_BIT - 1 /\ rx_bit_index = 7
    BY <2>1, <2>2, <2>4, BitStarts DEF Rx!DataBit, Position
  <2>5. CASE rx_clock_count = CLOCKS_PER_BIT - 1 /\ rx_bit_index # 7
    <3>1. state' = "DATA" /\ rx_clock_count' = 0 /\ rx_bit_index' = rx_bit_index + 1
      BY <1>3, <2>1, <2>5 DEF Rx!DataBit
    <3>2. (rx_bit_index + 1) * CLOCKS_PER_BIT = rx_bit_index * CLOCKS_PER_BIT + CLOCKS_PER_BIT
      BY <2>2, BitStarts
    <3> QED BY <2>2, <2>5, <3>1, <3>2, BitStarts DEF Position
  <2> QED BY <2>3, <2>4, <2>5
<1>4. ASSUME state = "STOP"
      PROVE  \/ state' = "STOP" /\ Position' = Position + 1
             \/ /\ state' = "IDLE" /\ Position = 9 * CLOCKS_PER_BIT - 1
                /\ framing_error' = (rx_sync = 0)
  <2>1. Rx!Stop
    BY <1>4 DEF Rx!Clock, Rx!Idle, Rx!Start, Rx!DataBit
  <2>2. rx_clock_count \in 0 .. CLOCKS_PER_BIT - 1
    BY DEF Rx!TypeOK
  <2>3. CASE Rx!byte_ends
    <3>1. framing_error' = (rx_sync = 0)
      BY <2>3 DEF Rx!Clock, Rx!EndByte
    <3> QED BY <1>4, <2>1, <2>2, <2>3, <3>1 DEF Rx!Stop, Rx!byte_ends, Position
  <2>4. CASE ~Rx!byte_ends
    BY <1>4, <2>1, <2>2, <2>4 DEF Rx!Stop, Position
  <2> QED BY <2>3, <2>4
<1> QED BY <1>1, <1>2, <1>3, <1>4 DEF Advance

LEMMA PositionNat == ASSUME Rx!TypeOK PROVE Position \in Nat /\ Position <= 9 * CLOCKS_PER_BIT - 1
BY LinkAssumption, BitStarts DEF Rx!TypeOK, Position

\* The invariant is inductive.
LEMMA LineStep == LineInv /\ [WNext]_wvars => LineInv'
<1> USE LinkAssumption, Halves
<1> SUFFICES ASSUME LineInv, [WNext]_wvars PROVE LineInv'
  OBVIOUS
<1>1. CASE UNCHANGED wvars
  BY <1>1 DEF wvars, Rx!vars, Rx!synchroniser, Rx!reception, Rx!output, LineInv, Rx!TypeOK, LineOK,
              StartInTime, Pace, Position
<1>2. CASE WNext
  <2>1. line \in Rx!Bit /\ same \in Nat /\ rx_sync \in Rx!Bit /\ state \in Rx!States
    BY DEF LineInv, LineOK, Rx!TypeOK
  <2>2. Rx!Clock(line, TRUE)
    BY <1>2 DEF WNext
  <2>3. Rx!TypeOK' /\ StartInTime'
    BY <2>1, <2>2, ReceiverTypes DEF LineInv, StartInTime, Rx!Bit
  <2>4. \/ /\ same' \in {same, same + 1} /\ line' = line
           /\ same' = same => same > Latency + Reading
           /\ broken' = (broken \/ framing_error')
        \/ same' = 0 /\ line' = 1 - line /\ broken' = FALSE
    BY <1>2, <2>1 DEF WNext, Stay, Change
  <2>5. LineOK'
    <3>1. rx_meta' = line /\ rx_sync' = rx_meta
      BY <2>2 DEF Rx!Clock, Rx!Shift
    <3>0. \/ same' \in {same, same + 1} /\ line' = line
          \/ same' = 0 /\ line' = 1 - line
      BY <2>4
    <3>2. same' \in Nat /\ line' \in Rx!Bit
      BY <2>1, <3>0 DEF Rx!Bit
    <3>3. Latency + Reading >= 2
      BY DEF Latency, Reading, Half
    <3>4. \/ /\ same' \in {same, same + 1} /\ line' = line
             /\ same' = same => same > Latency + Reading
          \/ same' = 0
      BY <2>4
    <3>5. LineOK
      BY DEF LineInv
    <3>6. CASE same' = 0
      BY <3>2, <3>6 DEF LineOK
    <3>7. CASE /\ same' \in {same, same + 1} /\ line' = line
               /\ same' = same => same > Latency + Reading
      <4>1. same' >= 2 => same >= 1
        BY <2>1, <3>3, <3>7 DEF Latency, Reading
      <4> QED BY <2>1, <3>1, <3>2, <3>5, <3>7, <4>1 DEF LineOK
    <3> QED BY <3>4, <3>6, <3>7
  <2>6. Pace'
    <3>1. PICK p, p1, c, c1, s1 \in Nat :
            /\ Position = p /\ Position' = p1 /\ same' = s1
            /\ rx_clock_count = c /\ rx_clock_count' = c1
      <4>1. Position \in Nat /\ rx_clock_count \in Nat
        BY PositionNat DEF LineInv, Rx!TypeOK
      <4>2. PICK k \in 0 .. CLOCKS_PER_BIT - 1, b \in 0 .. 7 :
              rx_clock_count' = k /\ rx_bit_index' = b
        BY <2>3 DEF Rx!TypeOK
      <4>3. 8 * CLOCKS_PER_BIT + k \in Nat /\ b * CLOCKS_PER_BIT + k \in Nat
        BY <4>2, BitStarts
      <4>4. Position' \in Nat /\ rx_clock_count' \in Nat
        BY <4>2, <4>3 DEF Position
      <4>5. same' \in Nat
        BY <2>5 DEF LineOK
      <4> QED BY <4>1, <4>4, <4>5
    <3>a. Advance
      BY <2>1, <2>2, Advances DEF LineInv
    <3>b. Half' = Half
      BY DEF Half
    <3>2. CASE same' = 0
      <4>1. same' <= rx_clock_count' + 2 /\ same' <= Position' + 2
        BY <3>1, <3>2
      <4>2. /\ same' <= 2 /\ same' <= rx_clock_count' + 3
            /\ same' <= Position' + Half + 3
        BY <3>1, <3>2
      <4> QED BY <3>b, <4>1, <4>2 DEF Pace
    <3>3. CASE same' \in {same, same + 1} /\ line' = line
      <4>0. same' <= same + 1 /\ same' \in Nat
        BY <2>1, <3>3
      <4>1. ASSUME line = 1
            PROVE  /\ state' = "START" => same' <= rx_clock_count' + 2
                   /\ state' \in {"DATA", "STOP"} => same' <= Position' + 2
        <5>1. rx_sync = 0 => same <= 1
          BY <2>1, <4>1 DEF LineInv, LineOK
        <5>2. state = "START" => same <= rx_clock_count + 2
          BY <4>1 DEF LineInv, Pace
        <5>3. state \in {"DATA", "STOP"} => same <= Position + 2
          BY <4>1 DEF LineInv, Pace
        <5> QED BY <2>1, <3>1, <3>a, <4>0, <5>1, <5>2, <5>3 DEF Advance, Rx!States, Rx!Bit
      <4>2. ASSUME line = 0, ~broken'
            PROVE  /\ state' = "IDLE" => same' <= 2
                   /\ state' = "START" => same' <= rx_clock_count' + 3
                   /\ state' \in {"DATA", "STOP"} =>
                        same' <= Position' + Half + 3
        <5>1. rx_sync = 1 => same <= 1
          BY <2>1, <4>2 DEF LineInv, LineOK
        <5>2. same' = 0 \/ (~broken /\ ~framing_error')
          <6>1. Change => same' = 0
            BY DEF Change
          <6>2. Stay => ~broken /\ ~framing_error'
            BY <4>2, Zenon DEF Stay
          <6>3. Stay \/ Change
            BY <1>2 DEF WNext
          <6> QED BY <6>1, <6>2, <6>3
        <5>3. CASE same' = 0
          <6>1. /\ same' <= 2 /\ same' <= rx_clock_count' + 3
                /\ same' <= Position' + Half + 3
            BY <3>1, <5>3
          <6> QED BY <6>1
        <5>4. CASE ~broken /\ ~framing_error'
          <6>1. state = "START" => rx_clock_count < Half
            BY DEF LineInv, StartInTime
          <6>2. state = "IDLE" => same <= 2
            BY <4>2, <5>4 DEF LineInv, Pace
          <6>3. state = "START" => same <= rx_clock_count + 3
            BY <4>2, <5>4 DEF LineInv, Pace
          <6>4. state \in {"DATA", "STOP"} => same <= Position + Half + 3
            BY <4>2, <5>4 DEF LineInv, Pace
          <6>5. state = "STOP" /\ state' = "IDLE" => rx_sync = 1
            BY <2>1, <3>a, <5>4 DEF Advance, Rx!Bit
          <6> QED BY <2>1, <3>1, <3>a, <4>0, <5>1, <6>1, <6>2, <6>3, <6>4, <6>5
                  DEF Advance, Rx!States, Rx!Bit
        <5> QED BY <5>2, <5>3, <5>4
      <4> QED BY <3>3, <4>1, <4>2 DEF Pace
    <3> QED BY <2>4, <3>2, <3>3
  <2> QED BY <2>3, <2>5, <2>6 DEF LineInv
<1> QED BY <1>1, <1>2

LEMMA LineStart == WInit => LineInv
<1> USE LinkAssumption, Halves
<1> SUFFICES ASSUME WInit PROVE LineInv
  OBVIOUS
<1>1. Rx!Zeros \in Rx!Byte
  BY DEF Rx!Zeros, Rx!Byte, Rx!Bit
<1>2. Rx!TypeOK
  <2>1. /\ rx_meta = 1 /\ rx_sync = 1 /\ state = "IDLE" /\ rx_clock_count = 0 /\ rx_bit_index = 0
        /\ shift_reg = Rx!Zeros /\ output_data = Rx!Zeros
    BY DEF WInit, LinkInit, Rx!Init
  <2>2. output_valid = FALSE /\ framing_error = FALSE /\ overflow_error = FALSE
    BY DEF WInit, LinkInit, Rx!Init
  <2>3. rx_meta \in Rx!Bit /\ rx_sync \in Rx!Bit /\ state \in Rx!States
    BY <2>1 DEF Rx!Bit, Rx!States
  <2>4. rx_clock_count \in 0 .. CLOCKS_PER_BIT - 1 /\ rx_bit_index \in 0 .. 7
    BY <2>1
  <2> QED BY <1>1, <2>1, <2>2, <2>3, <2>4 DEF Rx!TypeOK
<1>3. LineOK /\ StartInTime /\ Pace
  <2>1. line = 1 /\ same = 0 /\ state = "IDLE"
    BY DEF WInit, LinkInit, Rx!Init
  <2>2. LineOK
    BY <2>1 DEF LineOK, Rx!Bit
  <2>3. StartInTime /\ Pace
    BY <2>1 DEF StartInTime, Pace
  <2> QED BY <2>2, <2>3
<1> QED BY <1>2, <1>3 DEF LineInv

LEMMA LineInvariance == WSpec => []LineInv
BY LineStart, LineStep, PTL DEF WSpec

\* For every divisor: whatever came before, a line that has been high for nine
\* bits and two cycles leaves the receiver idle.
THEOREM QuietLine == WSpec => []Resynchronises
<1>1. LineInv => Resynchronises
  <2> SUFFICES ASSUME LineInv, line = 1, same > Reading + 1 PROVE state = "IDLE"
    BY DEF Resynchronises
  <2>1. Position \in Nat /\ Position <= 9 * CLOCKS_PER_BIT - 1
    BY PositionNat DEF LineInv
  <2> QED BY <2>1, LinkAssumption, Halves
          DEF LineInv, Pace, StartInTime, Rx!TypeOK, LineOK, Rx!States, Reading
<1> QED BY <1>1, LineInvariance, PTL

\* For every divisor: a line held low for nine and a half bits and three cycles
\* has been reported as a framing error.
THEOREM BrokenLine == WSpec => []BreakReported
<1>1. LineInv => BreakReported
  <2> SUFFICES ASSUME LineInv, line = 0, same > Latency + Reading, ~broken PROVE FALSE
    BY DEF BreakReported
  <2>1. Position \in Nat /\ Position <= 9 * CLOCKS_PER_BIT - 1
    BY PositionNat DEF LineInv
  <2> QED BY <2>1, LinkAssumption, Halves
          DEF LineInv, Pace, StartInTime, Rx!TypeOK, LineOK, Rx!States, Reading, Latency, Half
<1> QED BY <1>1, LineInvariance, PTL
=============================================================================
