---------------------------- MODULE FecReference ----------------------------
(***************************************************************************)
(* sw/fec: the reference codecs, which work on whole bit strings where the *)
(* RTL works word by word.  Packed bytes and their bit length are kept as  *)
(* the sequence of bits they stand for (sw/common/bits.py).  A call the    *)
(* code refuses with ValueError is outside the _accepts operator.          *)
(***************************************************************************)
EXTENDS Fec, SequencesExt

\* The number of ones in a bit string.
Ones(bits) == FoldLeft(+, 0, bits)

----------------------------------------------------------------------------
(* hamming74.py *)

encode_nibble(d) ==
  LET p1 == Xor3(d[1], d[2], d[4])
      p2 == Xor3(d[1], d[3], d[4])
      p4 == Xor3(d[2], d[3], d[4])
  IN  <<p1, p2, d[1], p4, d[2], d[3], d[4]>>

\* The nibbles of a bit string, the last one padded with zeros.
Nibbles(bits) ==
  [n \in 1 .. (Len(bits) + 3) \div 4 |->
     [i \in 1 .. 4 |-> IF 4 * (n - 1) + i <= Len(bits) THEN bits[4 * (n - 1) + i] ELSE 0]]

hamming74_encode(bits) ==
  FlattenSeq([n \in DOMAIN Nibbles(bits) |-> encode_nibble(Nibbles(bits)[n])])

hamming74_decode_accepts(encoded, output_bit_length) ==
  /\ Len(encoded) % 7 = 0
  /\ output_bit_length \in 0 .. (Len(encoded) \div 7) * 4

codewords(encoded) ==
  [n \in 1 .. Len(encoded) \div 7 |-> SubSeq(encoded, 7 * n - 6, 7 * n)]

syndrome(c) ==
  Xor4(c[1], c[3], c[5], c[7]) + 2 * Xor4(c[2], c[3], c[6], c[7])
    + 4 * Xor4(c[4], c[5], c[6], c[7])

\* codeword[syndrome - 1] ^= 1, and the four data positions.
corrected_nibble(c) ==
  LET fixed == IF syndrome(c) # 0 THEN [c EXCEPT ![syndrome(c)] = 1 - @] ELSE c
  IN  <<fixed[3], fixed[5], fixed[6], fixed[7]>>

hamming74_decode(encoded, output_bit_length) ==
  LET words == codewords(encoded)
  IN  [data |-> SubSeq(FlattenSeq([n \in DOMAIN words |-> corrected_nibble(words[n])]),
                       1, output_bit_length),
       bit_length |-> output_bit_length,
       corrected_codewords |-> Len(SelectSeq(words, LAMBDA c : syndrome(c) # 0))]

----------------------------------------------------------------------------
(* repetition.py *)

repetition_encode_accepts(count) == count \in {1, 3}

repetition_encode(bits, count) ==
  FlattenSeq([n \in DOMAIN bits |-> [i \in 1 .. count |-> bits[n]]])

repetition_decode_accepts(encoded, count) ==
  count \in {1, 3} /\ Len(encoded) % count = 0

groups(encoded, count) ==
  [n \in 1 .. Len(encoded) \div count |-> SubSeq(encoded, count * (n - 1) + 1, count * n)]

\* MUTANT: a group is one when any of its copies is.
decoded_bit_any(group, count) == IF Ones(group) > 0 THEN 1 ELSE 0

decoded_bit(group, count) == IF Ones(group) > count \div 2 THEN 1 ELSE 0

repetition_decode(encoded, count) ==
  LET received == groups(encoded, count)
      data     == [n \in DOMAIN received |-> decoded_bit(received[n], count)]
  IN  [data |-> data, bit_length |-> Len(data),
       corrected_groups |->
         Cardinality({n \in DOMAIN received :
           \E i \in 1 .. count : received[n][i] # data[n]})]

----------------------------------------------------------------------------
(* parity.py *)

even_parity_bit(bits) == Ones(bits) % 2

has_even_parity(bits, parity_bit) == (Ones(bits) + parity_bit) % 2 = 0

----------------------------------------------------------------------------
(* The RTL codecs on the same bit strings, word by word. *)

\* The encoder and decoder of hamming74_stream fed with the nibbles.
HammingStream(bits) ==
  FlattenSeq([n \in DOMAIN Nibbles(bits) |-> HammingEncoder[Nibbles(bits)[n]]])

HammingStreamDecode(encoded, length) ==
  LET results == [n \in DOMAIN codewords(encoded) |-> HammingDecoder[codewords(encoded)[n]]]
  IN  [data |-> SubSeq(FlattenSeq([n \in DOMAIN results |-> results[n].data]), 1, length),
       bit_length |-> length,
       corrected_codewords |-> Len(SelectSeq(results, LAMBDA r : r.status # 0))]

RepetitionStreamDecode(encoded, count) ==
  LET result == RepetitionDecode(encoded, count)
  IN  [data |-> result.data, bit_length |-> Len(result.data),
       corrected_groups |-> Cardinality({n \in DOMAIN result.status : result.status[n]})]

\* A bit string as the channel leaves it: the positions of a set flipped.
Disturbed(bits, positions) ==
  [i \in DOMAIN bits |-> IF i \in positions THEN 1 - bits[i] ELSE bits[i]]

BitStrings(max) == UNION {[1 .. n -> Bit] : n \in 0 .. max}

----------------------------------------------------------------------------
(* Properties. *)

HammingAgrees(bits, positions) ==
  LET encoded  == hamming74_encode(bits)
      received == Disturbed(encoded, positions)
  IN  /\ encoded = HammingStream(bits)
      /\ hamming74_decode_accepts(received, Len(bits))
      /\ hamming74_decode(received, Len(bits)) = HammingStreamDecode(received, Len(bits))

RepetitionAgrees(bits, count, positions) ==
  LET encoded  == repetition_encode(bits, count)
      received == Disturbed(encoded, positions)
  IN  /\ encoded = RepetitionEncode(bits, count)
      /\ repetition_decode_accepts(received, count)
      /\ repetition_decode(received, count) = RepetitionStreamDecode(received, count)

ParityAgrees(bits, positions) ==
  LET received == Disturbed(bits, positions)
  IN  /\ even_parity_bit(bits) = Parity(bits)
      /\ has_even_parity(received, Parity(bits)) = ~ParityError(received, Parity(bits))

\* The calls compared: every short bit string under every disturbance of its
\* coded form, beyond what the code can correct too; two flips, in one codeword
\* or in different ones, stand for the longer strings.
Calls ==
  LET calls(codec, count, bits, positions) ==
        [codec : {codec}, count : {count}, bits : {bits}, positions : positions]
  IN  UNION {calls("Hamming", 1, bits, SUBSET (1 .. Len(hamming74_encode(bits)))) :
               bits \in BitStrings(4)}
        \cup UNION {calls("Hamming", 1, bits, {{i, j} : i, j \in 1 .. 14}) :
                      bits \in [1 .. 6 -> Bit]}
        \cup UNION {calls("Repetition", count, bits, SUBSET (1 .. count * Len(bits))) :
                      count \in {1, 3}, bits \in BitStrings(2)}
        \cup UNION {calls("Parity", 1, bits, SUBSET DOMAIN bits) : bits \in BitStrings(4)}

\* The two implementations of each code, the RTL's equations and the reference
\* that the test vectors are made from, do the same with a call: same coded
\* bits, same decoded bits without the padding of the last nibble, same count
\* of corrected words.
Agrees(call) ==
  CASE call.codec = "Hamming" -> HammingAgrees(call.bits, call.positions)
    [] call.codec = "Repetition" -> RepetitionAgrees(call.bits, call.count, call.positions)
    [] call.codec = "Parity" -> ParityAgrees(call.bits, call.positions)
=============================================================================
