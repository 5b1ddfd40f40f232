---------------------------- MODULE StreamProofs ----------------------------
(***************************************************************************)
(* Proofs about the stream components: StreamFifo for every DEPTH >= 2 and *)
(* every word type, and the two FEC links, whose codes are proved to give  *)
(* every word back before the stages are proved to keep every word.        *)
(***************************************************************************)
EXTENDS MCStreams, SequenceTheorems, TLAPS

\* The inductive invariant: the types, and the agreement of the registers.
IInv == TypeOK /\ PointersAgree

\* One edge, whatever is accepted, keeps the types and the agreement.
LEMMA EdgePreserves ==
  ASSUME IInv,
         NEW push \in BOOLEAN, NEW pop \in BOOLEAN, NEW d \in Data,
         pop => item_count # 0,
         push => item_count < DEPTH \/ pop,
         Edge(push, pop, d)
  PROVE  IInv'
<1> USE DepthAssumption DEF Slots
<1> DEFINE n == item_count
<1>1. item_count' = CASE push /\ ~pop -> n + 1 [] pop /\ ~push -> n - 1 [] OTHER -> n
  BY DEF Edge, NextCount
<1>2. item_count' \in 0 .. DEPTH
  BY <1>1 DEF IInv, TypeOK
<1>3. write_pointer' \in Slots /\ read_pointer' \in Slots
  BY DEF Edge, AfterSlot, IInv, TypeOK
<1>4. storage' \in [Slots -> Data]
  BY DEF Edge, IInv, TypeOK
<1>5. PointersAgree'
  <2>1. /\ write_pointer \in Slots /\ read_pointer \in Slots /\ item_count \in 0 .. DEPTH
        /\ write_pointer = SlotAt(item_count)
        /\ read_pointer' = IF pop THEN AfterSlot(read_pointer) ELSE read_pointer
        /\ write_pointer' = IF push THEN AfterSlot(write_pointer) ELSE write_pointer
    BY DEF Edge, IInv, TypeOK, PointersAgree
  <2>2. CASE push /\ pop
    BY <1>1, <2>1, <2>2 DEF AfterSlot, PointersAgree, SlotAt
  <2>3. CASE push /\ ~pop
    BY <1>1, <2>1, <2>3 DEF AfterSlot, PointersAgree, SlotAt
  <2>4. CASE ~push /\ pop
    BY <1>1, <2>1, <2>4 DEF AfterSlot, PointersAgree, SlotAt
  <2>5. CASE ~push /\ ~pop
    BY <1>1, <2>1, <2>5 DEF PointersAgree, SlotAt
  <2> QED BY <2>2, <2>3, <2>4, <2>5
<1> QED BY <1>2, <1>3, <1>4, <1>5 DEF IInv, TypeOK

\* The registers stay in range and agree in every reachable state.
THEOREM Invariance == Spec => [](TypeOK /\ PointersAgree)
<1> USE DepthAssumption, DataAssumption
<1>1. Init => IInv
  BY DEF Init, IInv, TypeOK, PointersAgree, SlotAt, Slots
<1>2. IInv /\ [Next]_vars => IInv'
  <2> SUFFICES ASSUME IInv, [Next]_vars PROVE IInv'
    OBVIOUS
  <2>1. CASE Reset
    BY <2>1 DEF Reset, IInv, TypeOK, PointersAgree, SlotAt, Slots
  <2>2. ASSUME NEW valid \in BOOLEAN, NEW ready \in BOOLEAN, NEW d \in Data,
               Clock(valid, d, ready)
        PROVE  IInv'
    <3> DEFINE push == valid /\ input_ready(ready)
               pop  == output_valid /\ ready
    <3>1. /\ push \in BOOLEAN
          /\ pop \in BOOLEAN
          /\ pop => item_count # 0
          /\ push => item_count < DEPTH \/ pop
      BY DEF input_ready, output_valid
    <3>2. Edge(push, pop, d)
      BY <2>2 DEF Clock
    <3> HIDE DEF push, pop
    <3> QED BY <3>1, <3>2, EdgePreserves
  <2>3. CASE UNCHANGED vars
    BY <2>3 DEF vars, IInv, TypeOK, PointersAgree, SlotAt
  <2> QED BY <2>1, <2>2, <2>3 DEF Next
<1>3. IInv => TypeOK /\ PointersAgree
  BY DEF IInv
<1> QED BY <1>1, <1>2, <1>3, PTL DEF Spec

----------------------------------------------------------------------------
(* Refinement: every edge is a step of the bounded queue or a stutter. *)

\* Wrapping by comparison stays inside the ring.
LEMMA WrapInRange ==
  \A r, j \in 0 .. DEPTH - 1 :
    (IF r + j < DEPTH THEN r + j ELSE r + j - DEPTH) \in 0 .. DEPTH - 1
BY DepthAssumption

\* What the queue is, as a sequence.
LEMMA ContentsSeq ==
  ASSUME IInv
  PROVE  /\ Contents \in Seq(Data)
         /\ Len(Contents) = item_count
         /\ DOMAIN Contents = 1 .. item_count
         /\ \A i \in 1 .. item_count : Contents[i] = storage[SlotAt(i - 1)]
<1>1. \A i \in 1 .. item_count : SlotAt(i - 1) \in Slots
  BY DepthAssumption DEF IInv, TypeOK, SlotAt, Slots
<1>2. item_count \in Nat /\ storage \in [Slots -> Data]
  BY DepthAssumption DEF IInv, TypeOK
<1>3. Contents \in [1 .. item_count -> Data]
  BY <1>1, <1>2 DEF Contents
<1> QED BY <1>2, <1>3 DEF Contents

\* An accepted pop advances the view of every slot by one; a push, which
\* writes the first free slot, leaves the slots of the words held alone.
LEMMA EdgeSlots ==
  ASSUME IInv,
         NEW push \in BOOLEAN, NEW pop \in BOOLEAN, NEW d \in Data,
         pop => item_count # 0,
         push => item_count < DEPTH \/ pop,
         Edge(push, pop, d)
  PROVE  /\ \A i \in 0 .. DEPTH - 1 :
              SlotAt(i)' = IF pop THEN SlotAt(i + 1) ELSE SlotAt(i)
         /\ \A i \in 0 .. item_count - 1 :
              (pop => i # 0) => storage'[SlotAt(i)] = storage[SlotAt(i)]
         /\ push => storage'[write_pointer] = d
<1> USE DepthAssumption DEF Slots, IInv, TypeOK
<1>1. \A i \in 0 .. DEPTH - 1 :
        SlotAt(i)' = IF pop THEN SlotAt(i + 1) ELSE SlotAt(i)
  BY DEF Edge, AfterSlot, SlotAt
<1>2. \A i \in 0 .. item_count - 1 :
        (pop => i # 0) => storage'[SlotAt(i)] = storage[SlotAt(i)]
  <2> SUFFICES ASSUME NEW i \in 0 .. item_count - 1, pop => i # 0
               PROVE  storage'[SlotAt(i)] = storage[SlotAt(i)]
    OBVIOUS
  <2>1. CASE push
    <3>1. SlotAt(i) # write_pointer
      BY <2>1 DEF PointersAgree, SlotAt
    <3> QED BY <2>1, <3>1 DEF Edge, SlotAt
  <2>2. CASE ~push
    BY <2>2 DEF Edge
  <2> QED BY <2>1, <2>2
<1>3. push => storage'[write_pointer] = d
  BY DEF Edge
<1> QED BY <1>1, <1>2, <1>3

\* An edge appends the word pushed to what is left after the word popped.
LEMMA EdgeContents ==
  ASSUME IInv,
         NEW push \in BOOLEAN, NEW pop \in BOOLEAN, NEW d \in Data,
         pop => item_count # 0,
         push => item_count < DEPTH \/ pop,
         Edge(push, pop, d)
  PROVE  /\ push /\ ~pop => Abstract!Put(d)
         /\ push /\ pop => Abstract!PutAndTake(d)
         /\ ~push /\ pop => Abstract!Take
         /\ ~push /\ ~pop => Contents' = Contents
<1> USE DepthAssumption DEF Slots
<1>1. IInv'
  BY EdgePreserves
<1>2. /\ Contents \in Seq(Data)
      /\ Len(Contents) = item_count
      /\ \A i \in 1 .. item_count : Contents[i] = storage[SlotAt(i - 1)]
  BY ContentsSeq
<1>3. Contents' = [i \in 1 .. item_count' |-> storage'[SlotAt(i - 1)']]
  BY DEF Contents
<1>4. item_count' = CASE push /\ ~pop -> item_count + 1
                      [] pop /\ ~push -> item_count - 1
                      [] OTHER -> item_count
  BY DEF Edge, NextCount
<1>5. item_count \in 0 .. DEPTH /\ item_count' \in 0 .. DEPTH
  BY <1>1 DEF IInv, TypeOK
<1>6. \A i \in 1 .. item_count' :
        Contents'[i] = storage'[IF pop THEN SlotAt(i) ELSE SlotAt(i - 1)]
  <2> SUFFICES ASSUME NEW i \in 1 .. item_count'
               PROVE  Contents'[i] = storage'[IF pop THEN SlotAt(i) ELSE SlotAt(i - 1)]
    OBVIOUS
  <2>1. i - 1 \in 0 .. DEPTH - 1 /\ (i - 1) + 1 = i
    BY <1>5
  <2>2. SlotAt(i - 1)' = IF pop THEN SlotAt(i) ELSE SlotAt(i - 1)
    BY <2>1, EdgeSlots
  <2> QED BY <1>3, <2>2
<1>7. \A i \in 0 .. item_count - 1 :
        (pop => i # 0) => storage'[SlotAt(i)] = Contents[i + 1]
  <2> SUFFICES ASSUME NEW i \in 0 .. item_count - 1, pop => i # 0
               PROVE  storage'[SlotAt(i)] = Contents[i + 1]
    OBVIOUS
  <2>1. i + 1 \in 1 .. item_count /\ (i + 1) - 1 = i
    BY <1>5
  <2>2. Contents[i + 1] = storage[SlotAt(i)]
    BY <1>2, <2>1
  <2> QED BY <2>2, EdgeSlots
<1>8. push => storage'[SlotAt(item_count)] = d
  BY EdgeSlots DEF IInv, PointersAgree
<1>9. /\ Contents' \in Seq(Data)
      /\ Len(Contents') = item_count'
  <2>1. \A i \in 1 .. item_count' : SlotAt(i - 1)' \in Slots
    <3>1. read_pointer' \in 0 .. DEPTH - 1
      BY <1>1 DEF IInv, TypeOK
    <3>2. \A j \in 0 .. DEPTH - 1 : SlotAt(j)' \in Slots
      BY <3>1, WrapInRange DEF SlotAt
    <3>3. \A i \in 1 .. item_count' : i - 1 \in 0 .. DEPTH - 1
      BY <1>5
    <3> QED BY <3>2, <3>3
  <2>2. item_count' \in Nat /\ storage' \in [Slots -> Data]
    BY <1>1 DEF IInv, TypeOK
  <2>3. Contents' \in [1 .. item_count' -> Data]
    BY <1>3, <2>1, <2>2
  <2> QED BY <1>3, <2>2, <2>3
<1> DEFINE c == Contents
           e == Contents'
<1>10. c # << >> <=> item_count # 0
  BY <1>2, <1>5, EmptySeq
<1>11. ASSUME push, ~pop PROVE Abstract!Put(d)
  <2>1. Append(c, d) \in Seq(Data) /\ Len(Append(c, d)) = Len(e)
    BY <1>2, <1>4, <1>5, <1>9, <1>11, AppendProperties
  <2>2. \A i \in 1 .. Len(e) : e[i] = Append(c, d)[i]
    <3> SUFFICES ASSUME NEW i \in 1 .. Len(e) PROVE e[i] = Append(c, d)[i]
      OBVIOUS
    <3>1. e[i] = storage'[SlotAt(i - 1)]
      BY <1>6, <1>9, <1>11
    <3>2. CASE i = item_count + 1
      BY <1>2, <1>5, <1>8, <1>11, <3>1, <3>2, AppendProperties
    <3>3. CASE i # item_count + 1
      <4>1. i \in 1 .. item_count /\ i - 1 \in 0 .. item_count - 1 /\ (i - 1) + 1 = i
        BY <1>4, <1>5, <1>9, <1>11, <3>3
      <4>2. e[i] = c[i]
        BY <1>7, <1>11, <3>1, <4>1
      <4> QED BY <1>2, <4>1, <4>2, AppendProperties
    <3> QED BY <3>2, <3>3
  <2>3. e = Append(c, d)
    <3> HIDE DEF c, e
    <3> QED BY <1>9, <2>1, <2>2, SeqEqual DEF e
  <2> QED BY <1>2, <1>5, <1>11, <2>3 DEF Abstract!Put
<1>12. ASSUME ~push, pop PROVE Abstract!Take
  <2>1. Tail(c) \in Seq(Data) /\ Len(Tail(c)) = Len(e)
    BY <1>2, <1>4, <1>5, <1>9, <1>10, <1>12, HeadTailProperties
  <2>2. \A i \in 1 .. Len(e) : e[i] = Tail(c)[i]
    <3> SUFFICES ASSUME NEW i \in 1 .. Len(e) PROVE e[i] = Tail(c)[i]
      OBVIOUS
    <3>1. i \in 0 .. item_count - 1 /\ i # 0
      BY <1>4, <1>5, <1>9, <1>12
    <3>2. e[i] = c[i + 1]
      BY <1>6, <1>7, <1>9, <1>12, <3>1
    <3>3. Tail(c)[i] = c[i + 1]
      BY <1>2, <1>10, <1>12, <2>1, HeadTailProperties
    <3> QED BY <3>2, <3>3
  <2>3. e = Tail(c)
    <3> HIDE DEF c, e
    <3> QED BY <1>9, <2>1, <2>2, SeqEqual DEF e
  <2> QED BY <1>10, <1>12, <2>3 DEF Abstract!Take
<1>13. ASSUME push, pop PROVE Abstract!PutAndTake(d)
  <2>1. Tail(c) \in Seq(Data) /\ Len(Tail(c)) = item_count - 1
    BY <1>2, <1>10, <1>13, HeadTailProperties
  <2>2. /\ Append(Tail(c), d) \in Seq(Data)
        /\ Len(Append(Tail(c), d)) = Len(e)
    BY <1>4, <1>5, <1>9, <1>13, <2>1, AppendProperties
  <2>3. \A i \in 1 .. Len(e) : e[i] = Append(Tail(c), d)[i]
    <3> SUFFICES ASSUME NEW i \in 1 .. Len(e)
                 PROVE  e[i] = Append(Tail(c), d)[i]
      OBVIOUS
    <3>1. e[i] = storage'[SlotAt(i)] /\ i \in 1 .. item_count
      BY <1>4, <1>5, <1>6, <1>9, <1>13
    <3>2. CASE i = item_count
      BY <1>5, <1>8, <1>13, <2>1, <3>1, <3>2, AppendProperties
    <3>3. CASE i # item_count
      <4>1. i \in 1 .. Len(Tail(c)) /\ i \in 0 .. item_count - 1 /\ i # 0
        BY <1>5, <2>1, <3>1, <3>3
      <4>2. e[i] = c[i + 1]
        BY <1>7, <3>1, <4>1
      <4>3. Append(Tail(c), d)[i] = Tail(c)[i]
        BY <2>1, <4>1, AppendProperties
      <4>4. Tail(c)[i] = c[i + 1]
        BY <1>2, <1>10, <1>13, <4>1, HeadTailProperties
      <4> QED BY <4>2, <4>3, <4>4
    <3> QED BY <3>2, <3>3
  <2>4. e = Append(Tail(c), d)
    <3> HIDE DEF c, e
    <3> QED BY <1>9, <2>2, <2>3, SeqEqual DEF e
  <2> QED BY <1>10, <1>13, <2>4 DEF Abstract!PutAndTake
<1>14. ASSUME ~push, ~pop PROVE Contents' = Contents
  <2>1. Len(e) = Len(c)
    BY <1>2, <1>4, <1>5, <1>9, <1>14
  <2>2. \A i \in 1 .. Len(e) : e[i] = c[i]
    <3> SUFFICES ASSUME NEW i \in 1 .. Len(e) PROVE e[i] = c[i]
      OBVIOUS
    <3>1. i - 1 \in 0 .. item_count - 1 /\ (i - 1) + 1 = i
      BY <1>4, <1>5, <1>9, <1>14
    <3> QED BY <1>6, <1>7, <1>9, <1>14, <3>1
  <2> HIDE DEF c, e
  <2> QED BY <1>2, <1>9, <2>1, <2>2, SeqEqual DEF c, e
<1> QED BY <1>11, <1>12, <1>13, <1>14

\* Every behaviour of the ring buffer is a behaviour of the bounded queue.
THEOREM Refinement == Spec => ImplementsQueue
<1> USE DepthAssumption, DataAssumption
<1>1. Init => Abstract!Init
  BY DEF Init, Abstract!Init, Contents
<1>2. IInv /\ [Next]_vars => [Abstract!Next]_Contents
  <2> SUFFICES ASSUME IInv, [Next]_vars PROVE [Abstract!Next]_Contents
    OBVIOUS
  <2>1. CASE Reset
    <3>1. Contents' = << >>
      BY <2>1 DEF Reset, Contents
    <3> QED BY <3>1 DEF Abstract!Next, Abstract!Clear
  <2>2. ASSUME NEW valid \in BOOLEAN, NEW ready \in BOOLEAN, NEW d \in Data,
               Clock(valid, d, ready)
        PROVE  [Abstract!Next]_Contents
    <3> DEFINE push == valid /\ input_ready(ready)
               pop  == output_valid /\ ready
    <3>1. /\ push \in BOOLEAN
          /\ pop \in BOOLEAN
          /\ pop => item_count # 0
          /\ push => item_count < DEPTH \/ pop
      BY DEF input_ready, output_valid
    <3>2. Edge(push, pop, d)
      BY <2>2 DEF Clock
    <3> HIDE DEF push, pop
    <3>3. /\ push /\ ~pop => Abstract!Put(d)
          /\ push /\ pop => Abstract!PutAndTake(d)
          /\ ~push /\ pop => Abstract!Take
          /\ ~push /\ ~pop => Contents' = Contents
      BY <3>1, <3>2, EdgeContents
    <3> QED BY <3>3 DEF Abstract!Next
  <2>3. CASE UNCHANGED vars
    BY <2>3 DEF vars, Contents, SlotAt
  <2> QED BY <2>1, <2>2, <2>3 DEF Next
<1>3. Spec => []IInv
  BY Invariance, PTL DEF IInv
<1> QED BY <1>1, <1>2, <1>3, PTL DEF Spec, ImplementsQueue, Abstract!Spec

----------------------------------------------------------------------------
(* The handshakes: what the writer put in is what the reader gets. *)

\* The FIFO with its history behaves as the FIFO.
LEMMA WireIsFifo == WSpec => Spec
<1>1. WInit => Init
  BY DEF WInit
<1>2. [WNext]_wvars => [Next]_vars
  BY DEF WNext, Next, WReset, WClock, wvars
<1> QED BY <1>1, <1>2, PTL DEF WSpec, Spec

\* The words between the pointers are exactly the words taken in and not yet
\* handed out, in their order, for every depth.
THEOREM HandshakesKept == WSpec => []WordsKept
<1> USE DepthAssumption, DataAssumption
<1>1. WInit => WordsKept
  BY DEF WInit, Init, WordsKept, Contents
<1>2. IInv /\ WordsKept /\ [WNext]_wvars => WordsKept'
  <2> SUFFICES ASSUME IInv, WordsKept, [WNext]_wvars PROVE WordsKept'
    OBVIOUS
  <2>1. CASE WReset
    BY <2>1 DEF WReset, Reset, WordsKept, Contents
  <2>2. ASSUME NEW valid \in BOOLEAN, NEW ready \in BOOLEAN, NEW d \in Data,
               WClock(valid, d, ready)
        PROVE  WordsKept'
    <3> DEFINE push == valid /\ input_ready(ready)
               pop  == output_valid /\ ready
               left == IF pop THEN Tail(owed) ELSE owed
    <3>1. /\ push \in BOOLEAN
          /\ pop \in BOOLEAN
          /\ pop => item_count # 0
          /\ push => item_count < DEPTH \/ pop
      BY DEF input_ready, output_valid
    <3>2. /\ Edge(push, pop, d)
          /\ owed' = IF push THEN Append(left, d) ELSE left
      BY <2>2 DEF WClock, Clock
    <3>3. owed = Contents
      BY DEF WordsKept
    <3> HIDE DEF push, pop
    <3>4. /\ push /\ ~pop => Abstract!Put(d)
          /\ push /\ pop => Abstract!PutAndTake(d)
          /\ ~push /\ pop => Abstract!Take
          /\ ~push /\ ~pop => Contents' = Contents
      BY <3>1, <3>2, EdgeContents
    <3>5. Contents' = IF push THEN Append(IF pop THEN Tail(Contents) ELSE Contents, d)
                      ELSE IF pop THEN Tail(Contents) ELSE Contents
      BY <3>1, <3>4 DEF Abstract!Put, Abstract!PutAndTake, Abstract!Take
    <3> QED BY <3>2, <3>3, <3>5 DEF WordsKept
  <2>3. CASE UNCHANGED wvars
    BY <2>3 DEF wvars, vars, WordsKept, Contents, SlotAt
  <2> QED BY <2>1, <2>2, <2>3 DEF WNext
<1>3. WSpec => []IInv
  BY WireIsFifo, Invariance, PTL DEF IInv
<1> QED BY <1>1, <1>2, <1>3, PTL DEF WSpec

----------------------------------------------------------------------------
(* The codes: what the decoders make of a disturbed codeword. *)

\* The sum of bits modulo two is a bit.
LEMMA XorBit ==
  /\ \A a, b, c \in Bit : Xor3(a, b, c) \in Bit
  /\ \A a, b, c, d \in Bit : Xor4(a, b, c, d) \in Bit
BY DEF Bit, Xor3, Xor4

\* Whichever bit of a codeword is flipped, or none, the decoder gives the word
\* back and names the bit.
LEMMA HammingCorrects ==
  ASSUME NEW d \in [1 .. 4 -> Bit], NEW e \in 0 .. 7
  PROVE  HammingResult(HammingDisturb(HammingWord(d), e)) = [data |-> d, status |-> e]
<1> DEFINE p1 == Xor3(d[1], d[2], d[4])
           p2 == Xor3(d[1], d[3], d[4])
           p4 == Xor3(d[2], d[3], d[4])
           w == <<p1, p2, d[1], p4, d[2], d[3], d[4]>>
           c == HammingDisturb(w, e)
<1>1. d[1] \in Bit /\ d[2] \in Bit /\ d[3] \in Bit /\ d[4] \in Bit
  OBVIOUS
<1>2. p1 \in Bit /\ p2 \in Bit /\ p4 \in Bit
  BY <1>1, XorBit
<1>3. HammingWord(d) = w
  BY DEF HammingWord, HammingEncoder, HammingEncode
<1>4. d = <<d[1], d[2], d[3], d[4]>>
  OBVIOUS
<1>5. w \in [1 .. 7 -> Bit]
  BY <1>1, <1>2
<1>6. \A b \in Bit : 1 - b \in Bit /\ 1 - (1 - b) = b
  BY DEF Bit
<1>7. c \in [1 .. 7 -> Bit] /\ \A i \in 1 .. 7 : c[i] = IF i = e THEN 1 - w[i] ELSE w[i]
  <2> HIDE DEF w
  <2> QED BY <1>5, <1>6 DEF HammingDisturb, Flip
<1> HIDE DEF c
<1>8. HammingResult(c) = HammingDecode(c)
  BY <1>7 DEF HammingResult, HammingDecoder
<1>9. Syndrome(c) = e
  <2>1. /\ c[1] = IF e = 1 THEN 1 - p1 ELSE p1
        /\ c[2] = IF e = 2 THEN 1 - p2 ELSE p2
        /\ c[3] = IF e = 3 THEN 1 - d[1] ELSE d[1]
        /\ c[4] = IF e = 4 THEN 1 - p4 ELSE p4
        /\ c[5] = IF e = 5 THEN 1 - d[2] ELSE d[2]
        /\ c[6] = IF e = 6 THEN 1 - d[3] ELSE d[3]
        /\ c[7] = IF e = 7 THEN 1 - d[4] ELSE d[4]
    BY <1>7
  <2> HIDE DEF p1, p2, p4, w
  <2> QED BY <1>1, <1>2, <2>1 DEF Syndrome, Xor4, Xor3, p1, p2, p4, Bit
<1>10. HammingDecode(c) = [data |-> d, status |-> e]
  <2> DEFINE fixed == IF e # 0 THEN Flip(c, e) ELSE c
  <2>1. fixed[3] = w[3] /\ fixed[5] = w[5] /\ fixed[6] = w[6] /\ fixed[7] = w[7]
    <3> HIDE DEF w
    <3> QED BY <1>5, <1>6, <1>7 DEF Flip
  <2>2. fixed[3] = d[1] /\ fixed[5] = d[2] /\ fixed[6] = d[3] /\ fixed[7] = d[4]
    <3> HIDE DEF fixed
    <3> QED BY <2>1
  <2> QED BY <1>4, <1>9, <2>2 DEF HammingDecode
<1> QED BY <1>3, <1>8, <1>10 DEF c

\* Of three copies of a bit of which at most one is flipped two are right.
LEMMA Copied ==
  \A b \in Bit, e \in 0 .. 3 :
    LET t == <<IF e = 1 THEN 1 - b ELSE b,
               IF e = 2 THEN 1 - b ELSE b,
               IF e = 3 THEN 1 - b ELSE b>>
    IN  Majority(t) = b /\ Disagree(t) = (e # 0)
<1> TAKE b \in Bit, e \in 0 .. 3
<1>1. b = 0 \/ b = 1
  BY DEF Bit
<1>2. e = 0 \/ e = 1 \/ e = 2 \/ e = 3
  OBVIOUS
<1> QED BY <1>1, <1>2 DEF Majority, Disagree

\* The same of the repetition code, with at most one copy of each bit flipped.
LEMMA RepetitionCorrects ==
  ASSUME NEW d \in [1 .. 2 -> Bit], NEW e \in [1 .. 2 -> 0 .. 3]
  PROVE  RepetitionResult(RepetitionDisturb(RepetitionWord(d), e))
           = [data |-> d, status |-> RepetitionStatus(e)]
<1> DEFINE w == RepetitionWord(d)
           c == RepetitionDisturb(w, e)
           x(i, k) == IF e[i] = k THEN 1 - d[i] ELSE d[i]
<1>1. /\ d[1] \in Bit /\ d[2] \in Bit /\ d = <<d[1], d[2]>> /\ Len(d) = 2
      /\ e[1] \in 0 .. 3 /\ e[2] \in 0 .. 3
  OBVIOUS
<1>2. w = [i \in 1 .. 6 |-> d[((i - 1) \div 3) + 1]]
  <2>1. RepetitionWord(d) = RepetitionEncode(d, 3)
    BY DEF RepetitionWord, RepetitionEncoder
  <2> QED BY <1>1, <2>1 DEF RepetitionEncode
<1>3. /\ (1 - 1) \div 3 = 0 /\ (2 - 1) \div 3 = 0 /\ (3 - 1) \div 3 = 0
      /\ (4 - 1) \div 3 = 1 /\ (5 - 1) \div 3 = 1 /\ (6 - 1) \div 3 = 1
      /\ (1 - 1) % 3 = 0 /\ (2 - 1) % 3 = 1 /\ (3 - 1) % 3 = 2
      /\ (4 - 1) % 3 = 0 /\ (5 - 1) % 3 = 1 /\ (6 - 1) % 3 = 2
  OBVIOUS
<1>4. c = [i \in 1 .. 6 |-> IF e[((i - 1) \div 3) + 1] = ((i - 1) % 3) + 1
                             THEN 1 - w[i] ELSE w[i]]
  <2> HIDE DEF w
  <2>1. DOMAIN w = 1 .. 6
    BY <1>2
  <2> QED BY <2>1 DEF RepetitionDisturb
<1>5. /\ w[1] = d[1] /\ w[2] = d[1] /\ w[3] = d[1]
      /\ w[4] = d[2] /\ w[5] = d[2] /\ w[6] = d[2]
  <2> HIDE DEF w
  <2> QED BY <1>2, <1>3
<1> HIDE DEF w, c
<1>6. /\ c[1] = x(1, 1) /\ c[2] = x(1, 2) /\ c[3] = x(1, 3)
      /\ c[4] = x(2, 1) /\ c[5] = x(2, 2) /\ c[6] = x(2, 3)
  BY <1>3, <1>4, <1>5
<1>7. c \in [1 .. 6 -> Bit]
  <2>1. \A i \in 1 .. 6 : i = 1 \/ i = 2 \/ i = 3 \/ i = 4 \/ i = 5 \/ i = 6
    OBVIOUS
  <2>2. \A i \in 1 .. 6 : c[i] \in Bit
    BY <1>1, <1>6, <2>1 DEF Bit
  <2>3. c = [i \in 1 .. 6 |-> c[i]]
    BY <1>4
  <2> QED BY <2>2, <2>3
<1>8. RepetitionResult(c) = RepetitionDecode(c, 3) /\ Len(c) = 6
  BY <1>7 DEF RepetitionResult, RepetitionDecoder
<1>9. /\ Majority(Copies(c, 1)) = d[1] /\ Disagree(Copies(c, 1)) = (e[1] # 0)
      /\ Majority(Copies(c, 2)) = d[2] /\ Disagree(Copies(c, 2)) = (e[2] # 0)
  <2>1. Copies(c, 1) = <<x(1, 1), x(1, 2), x(1, 3)>>
    BY <1>6 DEF Copies
  <2>2. Copies(c, 2) = <<x(2, 1), x(2, 2), x(2, 3)>>
    BY <1>6 DEF Copies
  <2>3. /\ Majority(<<x(1, 1), x(1, 2), x(1, 3)>>) = d[1]
        /\ Disagree(<<x(1, 1), x(1, 2), x(1, 3)>>) = (e[1] # 0)
    BY <1>1, Copied
  <2>4. /\ Majority(<<x(2, 1), x(2, 2), x(2, 3)>>) = d[2]
        /\ Disagree(<<x(2, 1), x(2, 2), x(2, 3)>>) = (e[2] # 0)
    BY <1>1, Copied
  <2> QED BY <2>1, <2>2, <2>3, <2>4
<1>10. 6 \div 3 = 2 /\ \A i \in 1 .. 2 : i = 1 \/ i = 2
  OBVIOUS
<1>11. [i \in 1 .. 2 |-> Majority(Copies(c, i))] = d
  <2>1. \A i \in 1 .. 2 : Majority(Copies(c, i)) = d[i]
    BY <1>9, <1>10
  <2> QED BY <2>1
<1>12. [i \in 1 .. 2 |-> Disagree(Copies(c, i))] = RepetitionStatus(e)
  <2>1. \A i \in 1 .. 2 : Disagree(Copies(c, i)) = (e[i] # 0)
    BY <1>9, <1>10
  <2> QED BY <2>1 DEF RepetitionStatus
<1>13. RepetitionDecode(c, 3)
         = [data |-> [i \in 1 .. 2 |-> Majority(Copies(c, i))],
            status |-> [i \in 1 .. 2 |-> Disagree(Copies(c, i))]]
  BY <1>8, <1>10 DEF RepetitionDecode
<1>14. RepetitionResult(c) = [data |-> d, status |-> RepetitionStatus(e)]
  BY <1>8, <1>11, <1>12, <1>13
<1> QED BY <1>14 DEF c, w

----------------------------------------------------------------------------
(* The links: two registers as a queue. *)

\* At most one item.
One(valid, x) == IF valid THEN <<x>> ELSE << >>

\* The queue of the two stages after an edge: the decoder's word leaves when the
\* reader takes it, the encoder's moves on when the decoder is free, and the
\* writer's enters when the encoder is.
Shifts(cv, c, dv, d, ready, valid, x) ==
  LET empty == ~dv \/ ready
      room  == ~cv \/ empty
      queue == One(dv, d) \o One(cv, c)
      left  == IF dv /\ ready THEN Tail(queue) ELSE queue
  IN  (IF valid /\ room THEN Append(left, x) ELSE left)
        = One(IF empty THEN cv ELSE dv, IF empty THEN c ELSE d)
            \o One(IF room THEN valid ELSE cv, IF room THEN x ELSE c)

\* That queue is what the two registers hold after the edge.
LEMMA TwoStages ==
  ASSUME NEW S, NEW cv \in BOOLEAN, NEW c \in S, NEW dv \in BOOLEAN, NEW d \in S,
         NEW ready \in BOOLEAN, NEW valid \in BOOLEAN, NEW x \in S
  PROVE  Shifts(cv, c, dv, d, ready, valid, x)
<1> USE DEF Shifts
<1>1. \A y \in S : << >> \o <<y>> = <<y>> /\ <<y>> \o << >> = <<y>>
  <2> TAKE y \in S
  <2>1. <<y>> \in Seq(S)
    OBVIOUS
  <2> QED BY <2>1, ConcatEmptySeq
<1>2. << >> \o << >> = << >>
  <2>1. << >> \in Seq(S)
    OBVIOUS
  <2> QED BY <2>1, ConcatEmptySeq
<1>3. \A y, z \in S : Append(<<y>>, z) = <<y, z>>
  <2> TAKE y \in S, z \in S
  <2> DEFINE s == <<y>>
             t == Append(s, z)
             u == <<y, z>>
  <2>1. s \in Seq(S) /\ Len(s) = 1 /\ s[1] = y
    OBVIOUS
  <2>2. u \in Seq(S) /\ Len(u) = 2 /\ u[1] = y /\ u[2] = z
    OBVIOUS
  <2> HIDE DEF s, u
  <2>0. s \in Seq(S)
    BY <2>1
  <2>3. /\ t \in Seq(S) /\ Len(t) = Len(s) + 1
        /\ \A i \in 1 .. Len(s) : t[i] = s[i]
        /\ t[Len(s) + 1] = z
    BY <2>0, AppendProperties
  <2> HIDE DEF t
  <2>4. Len(t) = 2 /\ t[1] = y /\ t[2] = z
    BY <2>1, <2>3
  <2>5. \A i \in 1 .. Len(t) : t[i] = u[i]
    <3>1. \A i \in 1 .. 2 : i = 1 \/ i = 2
      OBVIOUS
    <3> QED BY <2>2, <2>4, <3>1
  <2>6. t = u
    BY <2>2, <2>3, <2>4, <2>5, SeqEqual
  <2> QED BY <2>6 DEF s, t, u
<1>10. \A y \in S : Append(<< >>, y) = <<y>>
  <2> TAKE y \in S
  <2>1. << >> \in Seq(S)
    OBVIOUS
  <2>2. Append(<< >>, y) = << >> \o <<y>>
    BY <2>1, AppendIsConcat
  <2> QED BY <1>1, <2>2
<1>4. \A y, z \in S : <<y>> \o <<z>> = <<y, z>>
  <2> TAKE y \in S, z \in S
  <2>1. <<y>> \in Seq(S)
    OBVIOUS
  <2>2. <<y>> \o <<z>> = Append(<<y>>, z)
    BY <2>1, AppendIsConcat
  <2> QED BY <2>2, <1>3
<1>5. \A y, z \in S : Tail(<<y, z>>) = <<z>> /\ Tail(<<y>>) = << >>
  OBVIOUS
<1>6. CASE dv /\ cv
  <2>1. One(dv, d) \o One(cv, c) = <<d, c>>
    BY <1>4, <1>6 DEF One
  <2>2. CASE ready
    <3>1. /\ One(IF ~dv \/ ready THEN cv ELSE dv, IF ~dv \/ ready THEN c ELSE d) = <<c>>
          /\ One(IF ~cv \/ ~dv \/ ready THEN valid ELSE cv,
                 IF ~cv \/ ~dv \/ ready THEN x ELSE c) = One(valid, x)
      BY <1>6, <2>2 DEF One
    <3>2. <<c>> \o One(valid, x) = IF valid THEN Append(<<c>>, x) ELSE <<c>>
      BY <1>1, <1>3, <1>4 DEF One
    <3>3. Tail(<<d, c>>) = <<c>>
      BY <1>5
    <3> QED BY <1>6, <2>1, <2>2, <3>1, <3>2, <3>3
  <2>3. CASE ~ready
    <3>1. /\ One(IF ~dv \/ ready THEN cv ELSE dv, IF ~dv \/ ready THEN c ELSE d) = One(dv, d)
          /\ One(IF ~cv \/ ~dv \/ ready THEN valid ELSE cv,
                 IF ~cv \/ ~dv \/ ready THEN x ELSE c) = One(cv, c)
      BY <1>6, <2>3 DEF One
    <3> QED BY <1>6, <2>1, <2>3, <3>1
  <2> QED BY <2>2, <2>3
<1>7. CASE dv /\ ~cv
  <2>1. One(dv, d) \o One(cv, c) = <<d>>
    BY <1>1, <1>7 DEF One
  <2>2. CASE ready
    <3>1. /\ One(IF ~dv \/ ready THEN cv ELSE dv, IF ~dv \/ ready THEN c ELSE d) = << >>
          /\ One(IF ~cv \/ ~dv \/ ready THEN valid ELSE cv,
                 IF ~cv \/ ~dv \/ ready THEN x ELSE c) = One(valid, x)
      BY <1>7, <2>2 DEF One
    <3>2. << >> \o One(valid, x) = IF valid THEN Append(<< >>, x) ELSE << >>
      BY <1>1, <1>2, <1>10 DEF One
    <3>3. Tail(<<d>>) = << >>
      BY <1>5
    <3> QED BY <1>7, <2>1, <2>2, <3>1, <3>2, <3>3
  <2>3. CASE ~ready
    <3>1. /\ One(IF ~dv \/ ready THEN cv ELSE dv, IF ~dv \/ ready THEN c ELSE d) = <<d>>
          /\ One(IF ~cv \/ ~dv \/ ready THEN valid ELSE cv,
                 IF ~cv \/ ~dv \/ ready THEN x ELSE c) = One(valid, x)
      BY <1>7, <2>3 DEF One
    <3>2. <<d>> \o One(valid, x) = IF valid THEN Append(<<d>>, x) ELSE <<d>>
      BY <1>1, <1>3, <1>4 DEF One
    <3> QED BY <1>7, <2>1, <2>3, <3>1, <3>2
  <2> QED BY <2>2, <2>3
<1>8. CASE ~dv /\ cv
  <2>1. One(dv, d) \o One(cv, c) = <<c>>
    BY <1>1, <1>8 DEF One
  <2>2. /\ One(IF ~dv \/ ready THEN cv ELSE dv, IF ~dv \/ ready THEN c ELSE d) = <<c>>
        /\ One(IF ~cv \/ ~dv \/ ready THEN valid ELSE cv,
               IF ~cv \/ ~dv \/ ready THEN x ELSE c) = One(valid, x)
    BY <1>8 DEF One
  <2>3. <<c>> \o One(valid, x) = IF valid THEN Append(<<c>>, x) ELSE <<c>>
    BY <1>1, <1>3, <1>4 DEF One
  <2> QED BY <1>8, <2>1, <2>2, <2>3
<1>9. CASE ~dv /\ ~cv
  <2>1. One(dv, d) \o One(cv, c) = << >>
    BY <1>2, <1>9 DEF One
  <2>2. /\ One(IF ~dv \/ ready THEN cv ELSE dv, IF ~dv \/ ready THEN c ELSE d) = << >>
        /\ One(IF ~cv \/ ~dv \/ ready THEN valid ELSE cv,
               IF ~cv \/ ~dv \/ ready THEN x ELSE c) = One(valid, x)
    BY <1>9 DEF One
  <2>3. << >> \o One(valid, x) = IF valid THEN Append(<< >>, x) ELSE << >>
    BY <1>1, <1>2, <1>10 DEF One
  <2> QED BY <1>9, <2>1, <2>2, <2>3
<1> QED BY <1>6, <1>7, <1>8, <1>9

\* The words of each link.
NibbleWords == [1 .. 4 -> Bit]
PairWords == [1 .. 2 -> Bit]

\* The Hamming link's inductive invariant: the encoder stage holds a codeword,
\* the decoder stage a word with the syndrome of its own error, and the two
\* together the words on their way.
HInv ==
  /\ coded \in [valid : BOOLEAN, word : {HammingWord(d) : d \in NibbleWords}, last : BOOLEAN]
  /\ decoded \in [valid : BOOLEAN, data : NibbleWords, status : 0 .. 7, last : BOOLEAN]
  /\ disturbed \in 0 .. 7
  /\ decoded.status = disturbed
  /\ passing = H!InDecoder \o H!InEncoder

\* An undisturbed codeword decodes to its word.
LEMMA HammingClean ==
  ASSUME NEW d \in NibbleWords PROVE HammingResult(HammingWord(d)).data = d
<1>1. HammingDisturb(HammingWord(d), 0) = HammingWord(d)
  BY DEF HammingDisturb
<1>2. HammingResult(HammingWord(d)) = [data |-> d, status |-> 0]
  BY <1>1, HammingCorrects DEF NibbleWords
<1> QED BY <1>2

\* One edge, whatever the stalls and the channel's error, keeps the invariant.
LEMMA HammingEdge ==
  ASSUME HInv, NEW in_valid \in BOOLEAN, NEW data \in NibbleWords, NEW last \in BOOLEAN,
         NEW out_ready \in BOOLEAN, NEW error \in H!PassingErrors(out_ready),
         H!Clock(in_valid, data, last, error, out_ready)
  PROVE  HInv'
<1> DEFINE empty == ~decoded.valid \/ out_ready
           room  == ~coded.valid \/ empty
           S == [data : NibbleWords, last : BOOLEAN]
           c == [data |-> HammingResult(coded.word).data, last |-> coded.last]
           d == [data |-> decoded.data, last |-> decoded.last]
           x == [data |-> data, last |-> last]
<1>1. PICK w \in NibbleWords : coded.word = HammingWord(w)
  BY DEF HInv
<1>2. HammingResult(coded.word).data = w
  BY <1>1, HammingClean
<1>3. /\ coded.valid \in BOOLEAN /\ coded.last \in BOOLEAN
      /\ decoded.valid \in BOOLEAN /\ decoded.last \in BOOLEAN
      /\ decoded.data \in NibbleWords
  BY DEF HInv
<1>4. c \in S /\ d \in S /\ x \in S
  BY <1>2, <1>3
<1>5. error \in 0 .. 7
  BY DEF H!PassingErrors
<1>6. HammingResult(HammingDisturb(coded.word, error))
        = [data |-> w, status |-> error]
  BY <1>1, <1>5, HammingCorrects DEF NibbleWords
<1>7. coded' =
        IF room
        THEN IF in_valid
             THEN [valid |-> TRUE, word |-> HammingWord(data), last |-> last]
             ELSE [coded EXCEPT !.valid = FALSE]
        ELSE coded
  BY DEF H!Clock, H!EncoderStage, H!encoder_in_ready, H!decoder_in_ready
<1>8. decoded' =
        IF empty
        THEN IF coded.valid
             THEN [valid |-> TRUE, data |-> w, status |-> error,
                   last |-> coded.last]
             ELSE [decoded EXCEPT !.valid = FALSE]
        ELSE decoded
  BY <1>6 DEF H!Clock, H!DecoderStage, H!decoder_in_ready
<1>9. disturbed' = IF empty /\ coded.valid THEN error ELSE disturbed
  BY <1>6 DEF H!Clock, H!DecoderStage, H!decoder_in_ready
<1>10. coded' \in [valid : BOOLEAN, word : {HammingWord(v) : v \in NibbleWords}, last : BOOLEAN]
  BY <1>7 DEF HInv
<1>11. /\ decoded' \in [valid : BOOLEAN, data : NibbleWords, status : 0 .. 7, last : BOOLEAN]
       /\ disturbed' \in 0 .. 7
       /\ decoded'.status = disturbed'
  BY <1>3, <1>5, <1>8, <1>9 DEF HInv
<1>12. (H!InEncoder)' = One(IF room THEN in_valid ELSE coded.valid, IF room THEN x ELSE c)
  <2>1. (H!InEncoder)' = 
          One(coded'.valid, [data |-> HammingResult(coded'.word).data, last |-> coded'.last])
    BY DEF H!InEncoder, One
  <2>2. CASE room /\ in_valid
    BY <1>7, <2>1, <2>2, HammingClean
  <2>3. CASE room /\ ~in_valid
    <3>1. coded'.valid = FALSE
      BY <1>7, <2>3 DEF HInv
    <3> QED BY <2>1, <2>3, <3>1 DEF One
  <2>4. CASE ~room
    BY <1>7, <2>1, <2>4
  <2> QED BY <2>2, <2>3, <2>4
<1>13. (H!InDecoder)' = One(IF empty THEN coded.valid ELSE decoded.valid, IF empty THEN c ELSE d)
  <2>1. (H!InDecoder)' = One(decoded'.valid, [data |-> decoded'.data, last |-> decoded'.last])
    BY DEF H!InDecoder, One
  <2>2. CASE empty /\ coded.valid
    BY <1>2, <1>8, <2>1, <2>2
  <2>3. CASE empty /\ ~coded.valid
    <3>1. decoded'.valid = FALSE
      BY <1>8, <2>3 DEF HInv
    <3> QED BY <2>1, <2>3, <3>1 DEF One
  <2>4. CASE ~empty
    BY <1>8, <2>1, <2>4
  <2> QED BY <2>2, <2>3, <2>4
<1>14. passing = One(decoded.valid, d) \o One(coded.valid, c)
  BY DEF HInv, H!InDecoder, H!InEncoder, One
<1>15. passing' = LET left == IF decoded.valid /\ out_ready THEN Tail(passing) ELSE passing
                  IN  IF in_valid /\ room THEN Append(left, x) ELSE left
  BY DEF H!Clock, H!Handshakes, H!encoder_in_ready, H!decoder_in_ready
<1>16. passing' = One(IF empty THEN coded.valid ELSE decoded.valid, IF empty THEN c ELSE d)
                    \o One(IF room THEN in_valid ELSE coded.valid, IF room THEN x ELSE c)
  <2> DEFINE queue == One(decoded.valid, d) \o One(coded.valid, c)
             left  == IF decoded.valid /\ out_ready THEN Tail(queue) ELSE queue
  <2>1. passing' = IF in_valid /\ room THEN Append(left, x) ELSE left
    BY <1>14, <1>15
  <2> HIDE DEF S, c, d, x
  <2>2. coded.valid \in BOOLEAN /\ decoded.valid \in BOOLEAN
    BY <1>3
  <2>3. Shifts(coded.valid, c, decoded.valid, d, out_ready, in_valid, x)
    BY <1>4, <2>2, TwoStages
  <2> QED BY <2>1, <2>3 DEF Shifts
<1> QED BY <1>10, <1>11, <1>12, <1>13, <1>16 DEF HInv
\* The repetition link's inductive invariant, with masks instead of syndromes.
RInv ==
  /\ coded \in [valid : BOOLEAN, word : {RepetitionWord(d) : d \in PairWords}, last : BOOLEAN]
  /\ decoded \in [valid : BOOLEAN, data : PairWords, status : [1 .. 2 -> BOOLEAN], last : BOOLEAN]
  /\ disturbed \in [1 .. 2 -> 0 .. 3]
  /\ decoded.status = RepetitionStatus(disturbed)
  /\ passing = R!InDecoder \o R!InEncoder

\* The same of the repetition code.
LEMMA RepetitionClean ==
  ASSUME NEW d \in PairWords PROVE RepetitionResult(RepetitionWord(d)).data = d
<1>1. RepetitionDisturb(RepetitionWord(d), <<0, 0>>) = RepetitionWord(d)
  <2> DEFINE w == RepetitionWord(d)
  <2>1. w = [i \in 1 .. 6 |-> d[((i - 1) \div 3) + 1]]
    <3>1. d \in [1 .. 2 -> Bit] /\ Len(d) = 2
      BY DEF PairWords
    <3>2. RepetitionWord(d) = RepetitionEncode(d, 3)
      BY <3>1 DEF RepetitionWord, RepetitionEncoder
    <3> QED BY <3>1, <3>2 DEF RepetitionEncode
  <2> HIDE DEF w
  <2>2. \A i \in 1 .. 6 :
          ((i - 1) \div 3) + 1 \in 1 .. 2 /\ ((i - 1) % 3) + 1 # 0
    BY Z3
  <2>3. \A j \in 1 .. 2 : <<0, 0>>[j] = 0
    OBVIOUS
  <2>4. \A i \in 1 .. 6 : <<0, 0>>[((i - 1) \div 3) + 1] # ((i - 1) % 3) + 1
    BY <2>2, <2>3
  <2> QED BY <2>1, <2>4 DEF RepetitionDisturb, w
<1>2. RepetitionResult(RepetitionWord(d)) = [data |-> d, status |-> RepetitionStatus(<<0, 0>>)]
  <2>1. <<0, 0>> \in [1 .. 2 -> 0 .. 3] /\ d \in [1 .. 2 -> Bit]
    BY DEF PairWords
  <2> QED BY <1>1, <2>1, RepetitionCorrects
<1> QED BY <1>2

\* The same of the repetition link.
LEMMA RepetitionEdge ==
  ASSUME RInv, NEW in_valid \in BOOLEAN, NEW data \in PairWords, NEW last \in BOOLEAN,
         NEW out_ready \in BOOLEAN, NEW error \in R!PassingErrors(out_ready),
         R!Clock(in_valid, data, last, error, out_ready)
  PROVE  RInv'
<1> DEFINE empty == ~decoded.valid \/ out_ready
           room  == ~coded.valid \/ empty
           S == [data : PairWords, last : BOOLEAN]
           c == [data |-> RepetitionResult(coded.word).data, last |-> coded.last]
           d == [data |-> decoded.data, last |-> decoded.last]
           x == [data |-> data, last |-> last]
<1>1. PICK w \in PairWords : coded.word = RepetitionWord(w)
  BY DEF RInv
<1>2. RepetitionResult(coded.word).data = w
  BY <1>1, RepetitionClean
<1>3. /\ coded.valid \in BOOLEAN /\ coded.last \in BOOLEAN
      /\ decoded.valid \in BOOLEAN /\ decoded.last \in BOOLEAN
      /\ decoded.data \in PairWords
  BY DEF RInv
<1>4. c \in S /\ d \in S /\ x \in S
  BY <1>2, <1>3
<1>5. error \in [1 .. 2 -> 0 .. 3]
  BY DEF R!PassingErrors
<1>6. RepetitionResult(RepetitionDisturb(coded.word, error))
        = [data |-> w, status |-> RepetitionStatus(error)]
  BY <1>1, <1>5, RepetitionCorrects DEF PairWords
<1>7. coded' =
        IF room
        THEN IF in_valid
             THEN [valid |-> TRUE, word |-> RepetitionWord(data), last |-> last]
             ELSE [coded EXCEPT !.valid = FALSE]
        ELSE coded
  BY DEF R!Clock, R!EncoderStage, R!encoder_in_ready, R!decoder_in_ready
<1>8. decoded' =
        IF empty
        THEN IF coded.valid
             THEN [valid |-> TRUE, data |-> w, status |-> RepetitionStatus(error),
                   last |-> coded.last]
             ELSE [decoded EXCEPT !.valid = FALSE]
        ELSE decoded
  BY <1>6 DEF R!Clock, R!DecoderStage, R!decoder_in_ready
<1>9. disturbed' = IF empty /\ coded.valid THEN error ELSE disturbed
  BY <1>6 DEF R!Clock, R!DecoderStage, R!decoder_in_ready
<1>10. coded' \in [valid : BOOLEAN, word : {RepetitionWord(v) : v \in PairWords}, last : BOOLEAN]
  BY <1>7 DEF RInv
<1>11. /\ decoded' \in [valid : BOOLEAN, data : PairWords, status : [1 .. 2 -> BOOLEAN], last : BOOLEAN]
       /\ disturbed' \in [1 .. 2 -> 0 .. 3]
       /\ decoded'.status = RepetitionStatus(disturbed')
  <2>1. \A v \in [1 .. 2 -> 0 .. 3] : RepetitionStatus(v) \in [1 .. 2 -> BOOLEAN]
    BY DEF RepetitionStatus
  <2> QED BY <1>3, <1>5, <1>8, <1>9, <2>1 DEF RInv
<1>12. (R!InEncoder)' = One(IF room THEN in_valid ELSE coded.valid, IF room THEN x ELSE c)
  <2>1. (R!InEncoder)' = 
          One(coded'.valid, [data |-> RepetitionResult(coded'.word).data, last |-> coded'.last])
    BY DEF R!InEncoder, One
  <2>2. CASE room /\ in_valid
    BY <1>7, <2>1, <2>2, RepetitionClean
  <2>3. CASE room /\ ~in_valid
    <3>1. coded'.valid = FALSE
      BY <1>7, <2>3 DEF RInv
    <3> QED BY <2>1, <2>3, <3>1 DEF One
  <2>4. CASE ~room
    BY <1>7, <2>1, <2>4
  <2> QED BY <2>2, <2>3, <2>4
<1>13. (R!InDecoder)' = One(IF empty THEN coded.valid ELSE decoded.valid, IF empty THEN c ELSE d)
  <2>1. (R!InDecoder)' = One(decoded'.valid, [data |-> decoded'.data, last |-> decoded'.last])
    BY DEF R!InDecoder, One
  <2>2. CASE empty /\ coded.valid
    BY <1>2, <1>8, <2>1, <2>2
  <2>3. CASE empty /\ ~coded.valid
    <3>1. decoded'.valid = FALSE
      BY <1>8, <2>3 DEF RInv
    <3> QED BY <2>1, <2>3, <3>1 DEF One
  <2>4. CASE ~empty
    BY <1>8, <2>1, <2>4
  <2> QED BY <2>2, <2>3, <2>4
<1>14. passing = One(decoded.valid, d) \o One(coded.valid, c)
  BY DEF RInv, R!InDecoder, R!InEncoder, One
<1>15. passing' = LET left == IF decoded.valid /\ out_ready THEN Tail(passing) ELSE passing
                  IN  IF in_valid /\ room THEN Append(left, x) ELSE left
  BY DEF R!Clock, R!Handshakes, R!encoder_in_ready, R!decoder_in_ready
<1>16. passing' = One(IF empty THEN coded.valid ELSE decoded.valid, IF empty THEN c ELSE d)
                    \o One(IF room THEN in_valid ELSE coded.valid, IF room THEN x ELSE c)
  <2> DEFINE queue == One(decoded.valid, d) \o One(coded.valid, c)
             left  == IF decoded.valid /\ out_ready THEN Tail(queue) ELSE queue
  <2>1. passing' = IF in_valid /\ room THEN Append(left, x) ELSE left
    BY <1>14, <1>15
  <2> HIDE DEF S, c, d, x
  <2>2. coded.valid \in BOOLEAN /\ decoded.valid \in BOOLEAN
    BY <1>3
  <2>3. Shifts(coded.valid, c, decoded.valid, d, out_ready, in_valid, x)
    BY <1>4, <2>2, TwoStages
  <2> QED BY <2>1, <2>3 DEF Shifts
<1> QED BY <1>10, <1>11, <1>12, <1>13, <1>16 DEF RInv

\* Of the component chosen.
LInv ==
  /\ component \in {"Fifo", "Hamming", "Repetition", "Codecs"}
  /\ component = "Hamming" => HInv
  /\ component = "Repetition" => RInv

\* Of both links in every reachable state: the words taken in and not yet handed
\* out are those the two registers decode to, in order and with their last
\* marks, and the status out is that of the word beside it.
THEOREM LinksCorrect == MCSpec => []CodedWordsKept
<1>1. MCInit => LInv
  <2> SUFFICES ASSUME MCInit PROVE LInv
    OBVIOUS
  <2>1. ASSUME H!Init PROVE HInv
    <3>1. coded.word = HammingWord(<<0, 0, 0, 0>>) /\ <<0, 0, 0, 0>> \in NibbleWords
      BY <2>1 DEF H!Init, NibbleWords, Bit
    <3> QED BY <2>1, <3>1 DEF H!Init, HInv, H!InDecoder, H!InEncoder, HammingStatus
  <2>2. ASSUME R!Init PROVE RInv
    <3>1. coded.word = RepetitionWord(<<0, 0>>) /\ <<0, 0>> \in PairWords /\ <<0, 0>> \in [1 .. 2 -> 0 .. 3]
      BY <2>2 DEF R!Init, PairWords, Bit
    <3>2. RepetitionStatus(<<0, 0>>) \in [1 .. 2 -> BOOLEAN]
      BY DEF RepetitionStatus
    <3> QED BY <2>2, <3>1, <3>2 DEF R!Init, RInv, R!InDecoder, R!InEncoder
  <2> QED BY <2>1, <2>2 DEF MCInit, LInv
<1>2. LInv /\ [MCNext]_allvars => LInv'
  <2> SUFFICES ASSUME LInv, [MCNext]_allvars PROVE LInv'
    OBVIOUS
  <2>1. component' = component
    BY DEF MCNext, allvars
  <2>2. ASSUME HInv, H!Next PROVE HInv'
    <3>1. CASE H!Reset
      <4>1. coded'.word = HammingWord(<<0, 0, 0, 0>>) /\ <<0, 0, 0, 0>> \in NibbleWords
        BY <3>1 DEF H!Reset, NibbleWords, Bit
      <4> QED BY <3>1, <4>1 DEF H!Reset, HInv, H!InDecoder, H!InEncoder, HammingStatus
    <3>2. ASSUME NEW out_ready \in BOOLEAN, NEW error \in H!PassingErrors(out_ready),
                 H!Clock(FALSE, <<0, 0, 0, 0>>, FALSE, error, out_ready)
          PROVE  HInv'
      <4>1. <<0, 0, 0, 0>> \in NibbleWords
        BY DEF NibbleWords, Bit
      <4> QED BY <2>2, <3>2, <4>1, HammingEdge
    <3>3. ASSUME NEW out_ready \in BOOLEAN, NEW error \in H!PassingErrors(out_ready),
                 NEW data \in NibbleWords, NEW last \in {FALSE},
                 H!Clock(TRUE, data, last, error, out_ready)
          PROVE  HInv'
      BY <2>2, <3>3, HammingEdge
    <3> QED BY <2>2, <3>1, <3>2, <3>3 DEF H!Next, NibbleWords
  <2>3. ASSUME RInv, R!Next PROVE RInv'
    <3>1. CASE R!Reset
      <4>1. coded'.word = RepetitionWord(<<0, 0>>) /\ <<0, 0>> \in PairWords /\ <<0, 0>> \in [1 .. 2 -> 0 .. 3]
        BY <3>1 DEF R!Reset, PairWords, Bit
      <4>2. RepetitionStatus(<<0, 0>>) \in [1 .. 2 -> BOOLEAN]
        BY DEF RepetitionStatus
      <4> QED BY <3>1, <4>1, <4>2 DEF R!Reset, RInv, R!InDecoder, R!InEncoder
    <3>2. ASSUME NEW out_ready \in BOOLEAN, NEW error \in R!PassingErrors(out_ready),
                 R!Clock(FALSE, <<0, 0>>, FALSE, error, out_ready)
          PROVE  RInv'
      <4>1. <<0, 0>> \in PairWords
        BY DEF PairWords, Bit
      <4> QED BY <2>3, <3>2, <4>1, RepetitionEdge
    <3>3. ASSUME NEW out_ready \in BOOLEAN, NEW error \in R!PassingErrors(out_ready),
                 NEW data \in PairWords, NEW last \in BOOLEAN,
                 R!Clock(TRUE, data, last, error, out_ready)
          PROVE  RInv'
      BY <2>3, <3>3, RepetitionEdge
    <3> QED BY <2>3, <3>1, <3>2, <3>3 DEF R!Next, PairWords
  <2>4. CASE MCNext
    <3>1. CASE component = "Hamming"
      <4>1. H!Next
        BY <2>4, <3>1 DEF MCNext
      <4> QED BY <2>1, <2>2, <3>1, <4>1 DEF LInv
    <3>2. CASE component = "Repetition"
      <4>1. R!Next
        BY <2>4, <3>2 DEF MCNext
      <4> QED BY <2>1, <2>3, <3>2, <4>1 DEF LInv
    <3>3. CASE component \notin {"Hamming", "Repetition"}
      BY <2>1, <3>3 DEF LInv
    <3> QED BY <3>1, <3>2, <3>3
  <2>5. CASE UNCHANGED allvars
    <3>1. UNCHANGED <<component, coded, decoded, disturbed, passing>>
      BY <2>5 DEF allvars, link
    <3>2. HInv => HInv'
      BY <3>1 DEF HInv, H!InDecoder, H!InEncoder
    <3>3. RInv => RInv'
      BY <3>1 DEF RInv, R!InDecoder, R!InEncoder
    <3> QED BY <3>1, <3>2, <3>3 DEF LInv
  <2> QED BY <2>4, <2>5
<1>3. LInv => CodedWordsKept
  <2>1. HInv => H!WordsKept /\ H!StatusTravels
    BY DEF HInv, H!WordsKept, H!StatusTravels, HammingStatus
  <2>2. RInv => R!WordsKept /\ R!StatusTravels
    BY DEF RInv, R!WordsKept, R!StatusTravels
  <2> QED BY <2>1, <2>2 DEF LInv, CodedWordsKept
<1> QED BY <1>1, <1>2, <1>3, PTL DEF MCSpec
=============================================================================
