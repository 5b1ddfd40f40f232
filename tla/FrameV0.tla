------------------------------ MODULE FrameV0 ------------------------------
(***************************************************************************)
(* The Frame V0 wire format shared by the receiver, the transmitter and    *)
(* the pipeline:                                                           *)
(*                                                                         *)
(*   SOF_0 SOF_1 | version type flags(2) length(2) payload | crc(4)        *)
(*                                                                         *)
(* Multi-byte fields are little endian and kept as sequences of bytes, low *)
(* byte first.  The CRC covers what stands between the bars.  The radix of *)
(* a byte and the CRC function are constants: 256 and CRC-32C in the code, *)
(* small ones when TLC runs.                                               *)
(***************************************************************************)
EXTENDS Naturals, Sequences, SequencesExt

CONSTANTS
  BYTE,                \* how many values a byte has (256)
  FRAME_SOF_0,         \* a5
  FRAME_SOF_1,         \* 5a
  FRAME_VERSION,       \* 0
  MAX_PAYLOAD_BYTES,   \* the longest payload a frame may have
  Crc,                 \* the states of the CRC register
  CRC_INITIAL,         \* its state before the first byte
  CrcStep(_, _),       \* its state after one more byte (crc32c_byte)
  CrcBytes(_)          \* the finished CRC as four bytes on the wire

Byte == 0 .. BYTE - 1
TwoBytes == [1 .. 2 -> Byte]
FourBytes == [1 .. 4 -> Byte]

ASSUME ByteAssumption ==
  /\ BYTE \in Nat /\ BYTE >= 2
  /\ {FRAME_SOF_0, FRAME_SOF_1, FRAME_VERSION} \subseteq Byte
  /\ FRAME_SOF_0 # FRAME_SOF_1

\* A payload length fits in the two bytes of its field.
ASSUME PayloadAssumption ==
  MAX_PAYLOAD_BYTES \in Nat /\ MAX_PAYLOAD_BYTES < BYTE * BYTE

ASSUME CrcAssumption ==
  /\ CRC_INITIAL \in Crc
  /\ \A c \in Crc : CrcBytes(c) \in FourBytes
  /\ \A c \in Crc, b \in Byte : CrcStep(c, b) \in Crc

\* The number a little-endian pair of bytes stands for, and back.
Value(pair) == pair[1] + BYTE * pair[2]
Pair(n) == <<n % BYTE, n \div BYTE>>

\* A frame as the sender means it.
Frame ==
  [type : Byte, flags : TwoBytes,
   payload : UNION {[1 .. n -> Byte] : n \in 0 .. MAX_PAYLOAD_BYTES}]

\* The bytes the CRC covers.
Protected(f) ==
  <<FRAME_VERSION, f.type>> \o f.flags \o Pair(Len(f.payload)) \o f.payload

\* The CRC register after some bytes, and the CRC that closes a frame.
CrcAfter(bytes) ==
  LET after[n \in 0 .. Len(bytes)] ==
        IF n = 0 THEN CRC_INITIAL ELSE CrcStep(after[n - 1], bytes[n])
  IN  after[Len(bytes)]
CrcOver(bytes) == CrcBytes(CrcAfter(bytes))

\* The bytes of a frame on the wire.
Encode(f) ==
  <<FRAME_SOF_0, FRAME_SOF_1>> \o Protected(f) \o CrcOver(Protected(f))
=============================================================================
