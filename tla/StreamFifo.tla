----------------------------- MODULE StreamFifo -----------------------------
(***************************************************************************)
(* rtl/common/stream_fifo.sv: a synchronous ring buffer with a valid/ready *)
(* handshake on both sides.  One step is one rising clock edge; the input  *)
(* wires sampled at that edge are the parameters of Clock.  DEPTH need not *)
(* be a power of two, so both pointers wrap by comparison.                 *)
(***************************************************************************)
EXTENDS Naturals, Sequences

CONSTANTS
  Data,    \* the values of one DATA_WIDTH-bit word
  DEPTH    \* parameter DEPTH

\* The two $fatal checks of the initial block.
ASSUME DepthAssumption == DEPTH \in Nat /\ DEPTH >= 2
ASSUME DataAssumption == Data # {}

VARIABLES storage, write_pointer, read_pointer, item_count

vars == <<storage, write_pointer, read_pointer, item_count>>

Slots == 0 .. DEPTH - 1

\* The block RAM has arbitrary contents; the pointers are those after reset.
Init ==
  /\ storage \in [Slots -> Data]
  /\ write_pointer = 0
  /\ read_pointer = 0
  /\ item_count = 0

----------------------------------------------------------------------------
(* Combinational outputs, outside reset. *)

output_valid == item_count # 0

\* MUTANT: a full FIFO that takes a word without room for it.
input_ready_unconditional(output_ready) == TRUE

input_ready(output_ready) ==
  \/ item_count < DEPTH
  \/ output_valid /\ output_ready

output_data == storage[read_pointer]

----------------------------------------------------------------------------
(* The clock edge. *)

AfterSlot(p) == IF p = DEPTH - 1 THEN 0 ELSE p + 1

NextCount(push, pop) ==
  CASE push /\ ~pop -> item_count + 1
    [] pop /\ ~push -> item_count - 1
    [] OTHER        -> item_count

Reset ==
  /\ write_pointer' = 0
  /\ read_pointer' = 0
  /\ item_count' = 0
  /\ UNCHANGED storage

\* MUTANT: the read pointer holds while a push is accepted.
Edge_pop_blocked(push, pop, d) ==
  /\ storage' = IF push THEN [storage EXCEPT ![write_pointer] = d] ELSE storage
  /\ write_pointer' = IF push THEN AfterSlot(write_pointer) ELSE write_pointer
  /\ read_pointer' = IF pop /\ ~push THEN AfterSlot(read_pointer) ELSE read_pointer
  /\ item_count' = NextCount(push, pop)

\* The registers after an edge that accepts a push of d, a pop, both or none.
Edge(push, pop, d) ==
  /\ storage' = IF push THEN [storage EXCEPT ![write_pointer] = d] ELSE storage
  /\ write_pointer' = IF push THEN AfterSlot(write_pointer) ELSE write_pointer
  /\ read_pointer' = IF pop THEN AfterSlot(read_pointer) ELSE read_pointer
  /\ item_count' = NextCount(push, pop)

Clock(input_valid, input_data, output_ready) ==
  Edge(input_valid /\ input_ready(output_ready),
       output_valid /\ output_ready,
       input_data)

Next ==
  \/ Reset
  \/ \E valid, ready \in BOOLEAN, d \in Data : Clock(valid, d, ready)

Spec == Init /\ [][Next]_vars

----------------------------------------------------------------------------
(* A writer and a reader: the words that passed the input handshake and    *)
(* have not yet passed the output handshake, oldest first.                 *)

VARIABLE owed

wvars == <<vars, owed>>

WInit == Init /\ owed = << >>

WReset == Reset /\ owed' = << >>

WClock(input_valid, input_data, output_ready) ==
  LET left == IF output_valid /\ output_ready THEN Tail(owed) ELSE owed
  IN  /\ Clock(input_valid, input_data, output_ready)
      /\ owed' = IF input_valid /\ input_ready(output_ready)
                 THEN Append(left, input_data) ELSE left

WNext ==
  \/ WReset
  \/ \E valid, ready \in BOOLEAN, d \in Data : WClock(valid, d, ready)

WSpec == WInit /\ [][WNext]_wvars

----------------------------------------------------------------------------
(* Properties. *)

\* The types of the registers: the pointers stay inside the storage array and
\* the count inside 0..DEPTH although neither width is a power of two.
TypeOK ==
  /\ storage \in [Slots -> Data]
  /\ write_pointer \in Slots
  /\ read_pointer \in Slots
  /\ item_count \in 0 .. DEPTH

\* The slot i places after the read pointer.
SlotAt(i) ==
  IF read_pointer + i < DEPTH THEN read_pointer + i ELSE read_pointer + i - DEPTH

\* The two pointers and the count, three registers updated by separate
\* statements, always describe the same queue: the next write goes to the slot
\* item_count places after the read pointer.
PointersAgree == write_pointer = SlotAt(item_count)

\* The words held, oldest first.
Contents == [i \in 1 .. item_count |-> storage[SlotAt(i - 1)]]

Abstract == INSTANCE BoundedQueue WITH queue <- Contents, Capacity <- DEPTH

\* The ring buffer is a bounded first-in first-out queue: through any mix of
\* pushes, pops, simultaneous push and pop in a full FIFO, and resets, no word
\* is lost, duplicated, reordered or altered.
ImplementsQueue == Abstract!Spec

\* The words between the two pointers are the words the FIFO took in and has
\* not handed out, whatever the two sides and the resets do.
WordsKept == owed = Contents
=============================================================================
