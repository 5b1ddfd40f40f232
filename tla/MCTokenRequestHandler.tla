----------------------- MODULE MCTokenRequestHandler -----------------------
(* The handler with the real layout and requests of at most 72 bytes. *)
EXTENDS TokenRequestHandlerWire

Token(flags, ext) ==
  <<1, flags, 40, 0, 68, 51, 34, 17, 255, 255, 255, 255, 136, 119, 102, 85,
    0, 0, 0, 0, 232, 3, 0, 0, 0, 0, 0, 0, 208, 7, 0, 0, 0, 0, 0, 0,
    Len(ext), 0, 0, 0>> \o ext

Suffix(mode, count, num, den, length) ==
  <<1, mode, 0, 0, (8 * length) % 256, (8 * length) \div 256, count, 0,
    num, 0, den, 0, 0, 0, 0, 0, 1, 1, 255, 128>>

Payload(flags, ext, mode, count, num, den) ==
  Token(flags, ext) \o Suffix(mode, count, num, den, 40 + Len(ext))

Whole(p) == [bytes |-> p, length |-> Len(p), marked |-> TRUE]

None == Payload(3, << >>, 0, 1, 1, 1)
NoneExtended == Payload(3, <<128, 2, 170, 85, 7, 0>>, 0, 1, 1, 1)
Once == Payload(3, <<1, 0>>, 1, 1, 1, 1)
Thrice == Payload(3, <<128, 2, 170, 85>>, 1, 3, 1, 3)
Hamming == Payload(3, << >>, 2, 1, 4, 7)

ValidRequests == {None, NoneExtended, Once, Thrice, Hamming}

\* One field of a request changed, the field at offset i.
With(p, i, v) == [p EXCEPT ![i + 1] = v]

RecordFlaws ==
  {With(None, 0, 2), With(None, 1, 7), With(Hamming, 2, 41), With(None, 16, 1),
   With(None, 1, 1), With(Hamming, 1, 2), With(Thrice, 36, 5), With(None, 37, 1)}

SuffixFlaws ==
  {With(None, 40, 0), With(Hamming, 41, 3), With(None, 42, 1), With(Hamming, 44, 0),
   With(None, 46, 3), With(Once, 48, 2), With(Thrice, 52, 1), With(Hamming, 50, 8),
   With(None, 56, 2), With(None, 57, 2), With(Hamming, 57, 0)}

ReservedSet ==
  {With(None, 17, 1), With(None, 39, 1), With(Hamming, 47, 9), With(None, 55, 1)}

\* Extensions that stop in their header and in their value.
ExtensionFlaws ==
  {Payload(3, <<9>>, 0, 1, 1, 1), Payload(3, <<9, 2, 0>>, 2, 1, 4, 7)}

WrongLengths == {<< >>, SubSeq(None, 1, 8), SubSeq(None, 1, 59), Append(None, 0)}

\* The last byte marked too early, too late, and a request too long to keep.
WrongFraming ==
  {[bytes |-> SubSeq(None, 1, 9), length |-> 60, marked |-> TRUE],
   [bytes |-> SubSeq(None, 1, 9), length |-> 9, marked |-> FALSE],
   [bytes |-> [i \in 1 .. 73 |-> 1], length |-> 73, marked |-> TRUE]}

MCOffers ==
  WrongFraming \cup
  {Whole(p) : p \in ValidRequests \cup RecordFlaws \cup SuffixFlaws \cup ReservedSet
                      \cup ExtensionFlaws \cup WrongLengths}

MCResettable == {Whole(p) : p \in {Once, Thrice, SubSeq(None, 1, 8)}}
=============================================================================
