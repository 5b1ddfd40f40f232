----------------------------- MODULE UartRxLine -----------------------------
(***************************************************************************)
(* The UART receiver of the link on a line that is cut off from the        *)
(* transmitter and does what it likes: levels of any length that need not  *)
(* be bytes, such as noise, a sender at another rate or a broken line.     *)
(* The consumer takes every byte.  History variables:                      *)
(*   line   the level of the pin      same    cycles it has lasted         *)
(*   edges  its changes so far        broken  a framing error was reported *)
(*                                            while the level lasted       *)
(***************************************************************************)
EXTENDS UartLink

CONSTANT MaxEdges   \* bound: how often the line may change

\* The cycles from a low level at the pin to the start bit it is taken for, and
\* from there to the stop bit.
Latency == 2 + Rx!HALF_CLOCKS_PER_BIT
Reading == 9 * CLOCKS_PER_BIT

VARIABLES line, same, edges, broken

wvars == <<vars, Rx!vars, link, line, same, edges, broken>>

WInit == LinkInit /\ line = 1 /\ same = 0 /\ edges = 0 /\ broken = FALSE

\* `same` stops counting (bound) when no property tells more cycles apart.
Stay ==
  /\ same' = IF same > Latency + Reading THEN same ELSE same + 1
  /\ broken' = (broken \/ framing_error')
  /\ UNCHANGED <<line, edges>>

Change ==
  /\ edges < MaxEdges
  /\ line' = 1 - line /\ same' = 0 /\ edges' = edges + 1 /\ broken' = FALSE

WNext == Rx!Clock(line, TRUE) /\ (Stay \/ Change) /\ UNCHANGED <<vars, link>>

WSpec == WInit /\ [][WNext]_wvars

----------------------------------------------------------------------------
(* Properties. *)

\* Whatever was on the line, once it has been high for nine bits and the two
\* cycles of the synchroniser, the receiver is idle, and reads what follows from its
\* first start bit on.
Resynchronises == (line = 1 /\ same > Reading + 1) => state = "IDLE"

\* A line held low is reported as a framing error within nine and a half bits
\* and three cycles, wherever in a byte the break began.
BreakReported == (line = 0 /\ same > Latency + Reading) => broken
=============================================================================
