------------------------------- MODULE Crc32c -------------------------------
(***************************************************************************)
(* CRC-32C (Castagnoli) bit by bit, as sw/common/crc32c.py and the         *)
(* function crc32c_byte of rtl/common/crc32c_stream.sv compute it: the     *)
(* step that Crc32cStream and FrameV0 take as a parameter.  The register   *)
(* is a sequence of 32 bits, bit zero first.                               *)
(***************************************************************************)
EXTENDS Fec, SequencesExt

Register == [1 .. 32 -> Bit]

\* 82f63b78 and ffffffff, the low byte first.
CRC32C_REFLECTED_POLYNOMIAL == Bits(120, 8) \o Bits(59, 8) \o Bits(246, 8) \o Bits(130, 8)
CRC32C_INITIAL == [i \in 1 .. 32 |-> 1]
CRC32C_XOR_OUT == [i \in 1 .. 32 |-> 1]

XorWords(a, b) == [i \in DOMAIN a |-> Xor(a[i], b[i])]

ShiftedRight(crc) == Append(Tail(crc), 0)

\* One turn of the loop over the bits.
crc_bit(crc) ==
  IF crc[1] = 1 THEN XorWords(ShiftedRight(crc), CRC32C_REFLECTED_POLYNOMIAL)
  ELSE ShiftedRight(crc)

crc32c_byte(crc, byte) ==
  FoldLeft(LAMBDA value, turn : crc_bit(value),
           XorWords(crc, Bits(byte, 8) \o [i \in 1 .. 24 |-> 0]),
           [turn \in 1 .. 8 |-> turn])

\* The register after each byte; a set of one register, so that TLC has it at
\* hand before it goes on to the next byte.
crc32c_update(crc, data) ==
  LET after[i \in 0 .. Len(data)] ==
        IF i = 0 THEN crc
        ELSE CHOOSE next \in {crc32c_byte(c, data[i]) : c \in {after[i - 1]}} : TRUE
  IN  after[Len(data)]

\* The finished register as four bytes, the low one first.
crc_bytes(crc) ==
  LET finished == XorWords(crc, CRC32C_XOR_OUT)
  IN  [i \in 1 .. 4 |-> Number(SubSeq(finished, 8 * i - 7, 8 * i))]

crc32c(data) == crc_bytes(crc32c_update(CRC32C_INITIAL, data))
=============================================================================
