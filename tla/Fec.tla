-------------------------------- MODULE Fec --------------------------------
(***************************************************************************)
(* The combinational codecs of rtl/fec.  A word is a sequence of bits, bit *)
(* zero first, as both the RTL comments and the references number them.    *)
(***************************************************************************)
EXTENDS Naturals, Sequences, FiniteSetsExt

Bit == {0, 1}

\* The w low bits of a number, and the number a sequence of bits stands for.
Bits(v, w) == [i \in 1 .. w |-> (v \div 2^(i - 1)) % 2]
Number(bits) == MapThenSumSet(LAMBDA i : bits[i] * 2^(i - 1), DOMAIN bits)

Xor(a, b) == (a + b) % 2
Xor3(a, b, c) == (a + b + c) % 2
Xor4(a, b, c, d) == (a + b + c + d) % 2

Flip(bits, i) == [bits EXCEPT ![i] = 1 - @]

----------------------------------------------------------------------------
(* Hamming(7,4): p1, p2, d0, p4, d1, d2, d3 from bit zero. *)

HammingEncode(d) ==
  <<Xor3(d[1], d[2], d[4]), Xor3(d[1], d[3], d[4]), d[1],
    Xor3(d[2], d[3], d[4]), d[2], d[3], d[4]>>

\* The number of three parity checks, the first one in bit zero.
Syndrome(c) ==
  Xor4(c[1], c[3], c[5], c[7]) + 2 * Xor4(c[2], c[3], c[6], c[7])
    + 4 * Xor4(c[4], c[5], c[6], c[7])

\* A nonzero syndrome is the position of the bit to flip.
HammingDecode(c) ==
  LET s     == Syndrome(c)
      fixed == IF s # 0 THEN Flip(c, s) ELSE c
  IN  [data |-> <<fixed[3], fixed[5], fixed[6], fixed[7]>>, status |-> s]

\* The codec as two tables.
HammingEncoder == [d \in [1 .. 4 -> Bit] |-> HammingEncode(d)]
HammingDecoder == [c \in [1 .. 7 -> Bit] |-> HammingDecode(c)]

----------------------------------------------------------------------------
(* Repetition: count adjacent copies of every bit, count 1 or 3. *)

RepetitionEncode(d, count) ==
  [i \in 1 .. Len(d) * count |-> d[((i - 1) \div count) + 1]]

Copies(c, i) == <<c[3 * i - 2], c[3 * i - 1], c[3 * i]>>

Majority(t) == IF t[1] + t[2] + t[3] >= 2 THEN 1 ELSE 0

Disagree(t) == t[1] # t[2] \/ t[1] # t[3]

\* The decoded bits, and for each of them whether its copies disagreed.
RepetitionDecode(c, count) ==
  IF count = 1
  THEN [data |-> c, status |-> [i \in DOMAIN c |-> FALSE]]
  ELSE [data   |-> [i \in 1 .. Len(c) \div 3 |-> Majority(Copies(c, i))],
        status |-> [i \in 1 .. Len(c) \div 3 |-> Disagree(Copies(c, i))]]

----------------------------------------------------------------------------
(* Parity: one bit that makes the number of ones even. *)

\* parity_gen.sv, the reduction of the word by exclusive or.
Parity(bits) == MapThenFoldSet(Xor, 0, LAMBDA i : bits[i],
                               LAMBDA S : CHOOSE i \in S : TRUE, DOMAIN bits)

\* parity_check.sv, the same over the word and its parity bit.
ParityError(bits, parity) == Xor(Parity(bits), parity) = 1
=============================================================================
