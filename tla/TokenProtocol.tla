--------------------------- MODULE TokenProtocol ---------------------------
(***************************************************************************)
(* The token payloads as the Python reference implementation reads and     *)
(* writes them (sw/common/types.py, sw/fec): which byte strings unpack as  *)
(* a TOKEN_REQUEST, what is wrong with the others, the records they hold   *)
(* and their canonical form, and the TOKEN_RESULT one injected bit error   *)
(* must lead to.  Payloads are sequences of bytes.                         *)
(***************************************************************************)
EXTENDS Integers, Sequences, SequencesExt

MESSAGE_TYPE_TOKEN_REQUEST == 16
MESSAGE_TYPE_TOKEN_RESULT == 17
MESSAGE_TYPE_ERROR_RESPONSE == 127

Format == 16           \* PayloadFormatError
Version == 32          \* PayloadVersionError
Unsupported == 64      \* UnsupportedProtectionError

\* Little-endian fields at a byte offset.
u8(p, i) == p[i + 1]
u16(p, i) == p[i + 1] + 256 * p[i + 2]
Zero(p, from, size) == \A i \in from + 1 .. from + size : p[i] = 0

Slice(p, from, to) == SubSeq(p, from + 1, to)

----------------------------------------------------------------------------
(* Unpacking.  A part has at most one fault: the first its unpack raises. *)

\* _unpack_extensions: the TLVs from base to the end fill it exactly.
ExtensionsUnpack(t) ==
  LET ends[i \in 40 .. Len(t)] ==
        IF i = Len(t) THEN TRUE
        ELSE /\ Len(t) - i >= 2
             /\ i + 2 + u8(t, i + 1) <= Len(t)
             /\ ends[i + 2 + u8(t, i + 1)]
  IN  ends[40]

TokenUnpacks(t) ==
  /\ u16(t, 2) = 40
  /\ Len(t) = 40 + u16(t, 36)
  /\ u8(t, 1) \in 0 .. 3
  /\ u8(t, 16) = 0
  /\ u8(t, 1) % 2 = 0 => Zero(t, 20, 8)
  /\ u8(t, 1) \div 2 = 0 => Zero(t, 28, 8)
  /\ ExtensionsUnpack(t)

TokenFaults(t) ==
  IF u8(t, 0) # 1 THEN {Version} ELSE IF TokenUnpacks(t) THEN {} ELSE {Format}

\* The parameters each mode expects.
ModeParameters(mode) ==
  CASE mode = 0 -> {<<1, 1, 1>>}
    [] mode = 1 -> {<<1, 1, 1>>, <<3, 1, 3>>}
    [] mode = 2 -> {<<1, 4, 7>>}

ProtectionFaults(s) ==
  IF u8(s, 0) # 1 THEN {Version}
  ELSE IF u8(s, 1) \notin 0 .. 2 THEN {Unsupported}
  ELSE IF u16(s, 2) = 0 /\ <<u8(s, 6), u16(s, 8), u16(s, 10)>> \in ModeParameters(u8(s, 1))
  THEN {} ELSE {Format}

ChannelFaults(c) ==
  IF u8(c, 0) # 1 THEN {Version}
  ELSE IF u8(c, 1) \in {0, 1} /\ (u8(c, 1) = 0 => u16(c, 2) = 0) THEN {} ELSE {Format}

TokenPart(p) == Slice(p, 0, Len(p) - 20)
ProtectionPart(p) == Slice(p, Len(p) - 20, Len(p) - 4)
ChannelPart(p) == Slice(p, Len(p) - 4, Len(p))

\* What is wrong with a TOKEN_REQUEST payload; it unpacks when nothing is.
RequestFaults(p) ==
  IF Len(p) < 60 THEN {Format}
  ELSE IF Len(p) # 60 + u16(p, 36)
  THEN {Format} \cup (IF u8(p, 0) # 1 THEN {Version} ELSE {})
  ELSE TokenFaults(TokenPart(p)) \cup ProtectionFaults(ProtectionPart(p))
         \cup ChannelFaults(ChannelPart(p))
         \cup (IF u16(ProtectionPart(p), 4) # 8 * Len(TokenPart(p))
               THEN {Format} ELSE {})

Unpacks(p) == RequestFaults(p) = {}

----------------------------------------------------------------------------
(* Records.  A field of 32 or 64 bits is the sequence of its bytes, low    *)
(* byte first; a record is what the dataclass of its name holds.           *)

Zeros(n) == [i \in 1 .. n |-> 0]
FromU16(n) == <<n % 256, n \div 256>>

ExtensionPack(e) == <<e.type_id, Len(e.value)>> \o e.value
ExtensionsPack(extensions) ==
  FlattenSeq([i \in DOMAIN extensions |-> ExtensionPack(extensions[i])])

TokenPack(t) ==
  LET extensions == ExtensionsPack(t.extensions)
  IN  <<1, t.flags>> \o FromU16(40) \o t.stream_id \o t.sequence \o t.token_id
        \o <<t.importance>> \o Zeros(3) \o t.generated_time_us \o t.deadline_us
        \o FromU16(Len(extensions)) \o Zeros(2) \o extensions

ProtectionPack(s) ==
  <<1, s.mode>> \o FromU16(s.flags) \o FromU16(s.block_length_bits)
    \o <<s.repetition_count, 0>> \o FromU16(s.code_rate_num) \o FromU16(s.code_rate_den)
    \o Zeros(4)

ChannelPack(c) == <<1, c.flags>> \o FromU16(c.channel_quality)

RequestPack(r) == TokenPack(r.token) \o ProtectionPack(r.protection) \o ChannelPack(r.channel)

StatusPack(s) ==
  FromU16(s.flags) \o Zeros(2) \o FromU16(s.corrected_count) \o FromU16(s.detected_error_count)

ResultPack(r) == TokenPack(r.token) \o StatusPack(r.status)

ErrorPack(e) == FromU16(e.flags) \o Zeros(2) \o <<e.request_message_type>> \o Zeros(3)

\* The TLVs in data, which ExtensionsUnpack has accepted.
Extensions(data) ==
  LET from[i \in 0 .. Len(data)] ==
        IF i = Len(data) THEN << >>
        ELSE LET end == i + 2 + u8(data, i + 1)
             IN  <<[type_id |-> u8(data, i), value |-> Slice(data, i + 2, end)]>> \o from[end]
  IN  from[0]

TokenUnpack(t) ==
  [flags |-> u8(t, 1), stream_id |-> Slice(t, 4, 8), sequence |-> Slice(t, 8, 12),
   token_id |-> Slice(t, 12, 16), importance |-> u8(t, 16),
   generated_time_us |-> Slice(t, 20, 28), deadline_us |-> Slice(t, 28, 36),
   extensions |-> Extensions(Slice(t, 40, Len(t)))]

RequestUnpack(p) ==
  LET s == ProtectionPart(p)
      c == ChannelPart(p)
  IN  [token |-> TokenUnpack(TokenPart(p)),
       protection |->
         [mode |-> u8(s, 1), flags |-> u16(s, 2), block_length_bits |-> u16(s, 4),
          repetition_count |-> u8(s, 6), code_rate_num |-> u16(s, 8),
          code_rate_den |-> u16(s, 10)],
       channel |-> [flags |-> u8(c, 1), channel_quality |-> u16(c, 2)]]

\* The flags a result or an error may have, ten bits of 32.
KnownFlags(p, i) == u16(p, i) < 1024 /\ Zero(p, i + 2, 2)

ResultUnpacks(p) ==
  /\ Len(p) >= 48
  /\ Len(p) = 48 + u16(p, 36)
  /\ TokenFaults(Slice(p, 0, Len(p) - 8)) = {}
  /\ KnownFlags(p, Len(p) - 8)

ResultUnpack(p) ==
  LET s == Slice(p, Len(p) - 8, Len(p))
  IN  [token |-> TokenUnpack(Slice(p, 0, Len(p) - 8)),
       status |-> [flags |-> u16(s, 0), corrected_count |-> u16(s, 4),
                   detected_error_count |-> u16(s, 6)]]

ErrorUnpacks(p) == Len(p) = 8 /\ KnownFlags(p, 0)

ErrorUnpack(p) == [flags |-> u16(p, 0), request_message_type |-> u8(p, 4)]

\* The fields the layouts reserve (pad bytes of the structs).
ReservedZero(p) ==
  /\ Zero(p, 17, 3) /\ Zero(p, 38, 2)
  /\ u8(ProtectionPart(p), 7) = 0 /\ Zero(ProtectionPart(p), 12, 4)

----------------------------------------------------------------------------
(* The answers. *)

ErrorResponse(flags, fault) ==
  [type |-> MESSAGE_TYPE_ERROR_RESPONSE, flags |-> flags,
   payload |-> <<fault, 0, 0, 0, MESSAGE_TYPE_TOKEN_REQUEST, 0, 0, 0>>]

\* Bit k of a string of bytes flipped.
FlipBit(t, k) ==
  LET byte == t[k \div 8 + 1]
      bit  == 2^(k % 8)
  IN  [t EXCEPT ![k \div 8 + 1] =
         IF (byte \div bit) % 2 = 1 THEN byte - bit ELSE byte + bit]

\* The record that comes back when coded bit k of its protected form is
\* flipped (no bit when k is negative or past the end): the modes that can
\* correct return it as it was and report one correction.
TokenResult(flags, p, k) ==
  LET t         == TokenPart(p)
      s         == ProtectionPart(p)
      uncoded   == u8(s, 1) = 0 \/ <<u8(s, 1), u8(s, 6)>> = <<1, 1>>
      bits      == (8 * Len(t) * u16(s, 10)) \div u16(s, 8)
      hit       == k >= 0 /\ k < bits
      corrected == hit /\ ~uncoded
      status    == IF corrected THEN <<2, 0, 0, 0, 1, 0, 0, 0>>
                   ELSE <<0, 0, 0, 0, 0, 0, 0, 0>>
  IN  [type |-> MESSAGE_TYPE_TOKEN_RESULT, flags |-> flags,
       payload |-> (IF hit /\ uncoded THEN FlipBit(t, k) ELSE t) \o status]
=============================================================================
