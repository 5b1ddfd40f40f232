--------------------------- MODULE FrameV0Proofs ---------------------------
(***************************************************************************)
(* Lemmas about bytes and frames, for every radix and CRC function: the    *)
(* CRC register goes on from byte to byte, what a concatenation holds at   *)
(* each place, and how the encoding of a frame is laid out.                *)
(***************************************************************************)
EXTENDS FrameV0, SequenceTheorems, NaturalsInduction, WellFoundedInduction, TLAPS

----------------------------------------------------------------------------
\* Induction over the natural numbers, for a set of them.
LEMMA Induction ==
  ASSUME NEW S, S \subseteq Nat, 0 \in S, \A n \in S : n + 1 \in S
  PROVE  S = Nat
<1> DEFINE R == OpToRel(<, Nat)
           T == Nat \ S
<1>1. IsWellFoundedOn(R, Nat)
  BY NatLessThanWellFounded
<1>2. SUFFICES ASSUME T # {} PROVE FALSE
  OBVIOUS
<1>3. PICK x \in T : \A y \in T : ~(<<y, x>> \in R)
  <2> HIDE DEF R
  <2> QED BY <1>1, <1>2, WFMin
<1>4. x \in Nat /\ x # 0 /\ x - 1 \in Nat /\ x - 1 < x
  OBVIOUS
<1>5. x - 1 \in T
  <2>1. x - 1 \in S => (x - 1) + 1 \in S
    OBVIOUS
  <2> QED BY <1>4, <2>1
<1>6. <<x - 1, x>> \in R
  BY <1>4, <1>5 DEF OpToRel
<1> QED BY <1>3, <1>5, <1>6

(* Sequences. *)

\* A function on 1 .. n is a sequence.
LEMMA FunctionIsSeq ==
  ASSUME NEW S, NEW n \in Nat, NEW f \in [1 .. n -> S]
  PROVE  f \in Seq(S) /\ Len(f) = n
OBVIOUS

\* Two sequences one behind the other, and the elements of each.
LEMMA Joined ==
  ASSUME NEW S, NEW s \in Seq(S), NEW t \in Seq(S)
  PROVE  /\ s \o t \in Seq(S)
         /\ Len(s \o t) = Len(s) + Len(t)
         /\ \A i \in 1 .. Len(s) : (s \o t)[i] = s[i]
         /\ \A i \in 1 .. Len(t) : (s \o t)[Len(s) + i] = t[i]
<1>1. \A i \in 1 .. Len(s) : (s \o t)[i] = s[i]
  <2> TAKE i \in 1 .. Len(s)
  <2>1. i \in 1 .. Len(s) + Len(t) /\ i <= Len(s)
    BY LenProperties
  <2> QED BY <2>1, ConcatProperties
<1>2. \A i \in 1 .. Len(t) : (s \o t)[Len(s) + i] = t[i]
  <2> TAKE i \in 1 .. Len(t)
  <2>1. Len(s) + i \in 1 .. Len(s) + Len(t) /\ ~(Len(s) + i <= Len(s)) /\ (Len(s) + i) - Len(s) = i
    BY LenProperties
  <2> QED BY <2>1, ConcatProperties
<1> QED BY <1>1, <1>2, ConcatProperties

\* Sequences that agree in their first elements have the same beginning.
LEMMA SameFirst ==
  ASSUME NEW S, NEW s \in Seq(S), NEW t \in Seq(S), NEW n \in Nat,
         n <= Len(s), n <= Len(t), \A i \in 1 .. n : s[i] = t[i]
  PROVE  SubSeq(s, 1, n) = SubSeq(t, 1, n)
<1> DEFINE u == SubSeq(s, 1, n)
           v == SubSeq(t, 1, n)
<1>1. \A i \in 1 .. n : s[i] \in S /\ t[i] \in S
  BY LenProperties, ElementOfSeq
<1>2. u \in Seq(S) /\ Len(u) = n /\ \A i \in 1 .. n : u[i] = s[i]
  BY <1>1, SubSeqProperties
<1>3. v \in Seq(S) /\ Len(v) = n /\ \A i \in 1 .. n : v[i] = t[i]
  BY <1>1, SubSeqProperties
<1> HIDE DEF u, v
<1>4. u = v
  BY <1>2, <1>3, SeqEqual
<1> QED BY <1>4 DEF u, v

\* And the same middle from the third element on.
LEMMA SameFromThird ==
  ASSUME NEW S, NEW s \in Seq(S), NEW t \in Seq(S), NEW n \in Nat, n >= 3,
         n <= Len(s), n <= Len(t), \A i \in 1 .. n : s[i] = t[i]
  PROVE  SubSeq(s, 3, n) = SubSeq(t, 3, n)
<1> DEFINE u == SubSeq(s, 3, n)
           v == SubSeq(t, 3, n)
<1>1. \A i \in 3 .. n : s[i] \in S /\ t[i] \in S /\ s[i] = t[i]
  BY LenProperties, ElementOfSeq
<1>2. u \in Seq(S) /\ Len(u) = n - 3 + 1 /\ \A i \in 1 .. n - 3 + 1 : u[i] = s[3 + i - 1]
  BY <1>1, SubSeqProperties
<1>3. v \in Seq(S) /\ Len(v) = n - 3 + 1 /\ \A i \in 1 .. n - 3 + 1 : v[i] = t[3 + i - 1]
  BY <1>1, SubSeqProperties
<1> HIDE DEF u, v
<1>4. \A i \in 1 .. n - 3 + 1 : u[i] = v[i]
  <2> TAKE i \in 1 .. n - 3 + 1
  <2>1. 3 + i - 1 \in 3 .. n
    OBVIOUS
  <2> QED BY <1>1, <1>2, <1>3, <2>1
<1>5. u = v
  BY <1>2, <1>3, <1>4, SeqEqual
<1> QED BY <1>5 DEF u, v

\* One more element.
LEMMA OneMore ==
  ASSUME NEW S, NEW s \in Seq(S), NEW b \in S
  PROVE  /\ s \o <<b>> \in Seq(S) /\ Len(s \o <<b>>) = Len(s) + 1
         /\ \A i \in 1 .. Len(s) : (s \o <<b>>)[i] = s[i]
         /\ (s \o <<b>>)[Len(s) + 1] = b
<1> DEFINE t == <<b>>
<1>1. t \in Seq(S) /\ Len(t) = 1 /\ t[1] = b
  OBVIOUS
<1> HIDE DEF t
<1>2. /\ s \o t \in Seq(S)
      /\ Len(s \o t) = Len(s) + Len(t)
      /\ \A i \in 1 .. Len(s) : (s \o t)[i] = s[i]
      /\ \A i \in 1 .. Len(t) : (s \o t)[Len(s) + i] = t[i]
  BY <1>1, Joined
<1>3. (s \o t)[Len(s) + 1] = b
  BY <1>1, <1>2
<1>4. /\ s \o t \in Seq(S) /\ Len(s \o t) = Len(s) + 1
      /\ \A i \in 1 .. Len(s) : (s \o t)[i] = s[i]
      /\ (s \o t)[Len(s) + 1] = b
  BY <1>1, <1>2, <1>3
<1> QED BY <1>4 DEF t

\* One more element at the end of what stands from the third on.
LEMMA OneMoreFromThird ==
  ASSUME NEW S, NEW s \in Seq(S), NEW b \in S, Len(s) >= 2
  PROVE  /\ SubSeq(s, 3, Len(s)) \in Seq(S)
         /\ SubSeq(s \o <<b>>, 3, Len(s) + 1) = Append(SubSeq(s, 3, Len(s)), b)
<1> DEFINE t == s \o <<b>>
           n == Len(s)
           u == SubSeq(t, 3, n + 1)
           r == SubSeq(s, 3, n)
           v == Append(r, b)
<1>1. n \in Nat /\ n >= 2
  BY LenProperties
<1>2. /\ t \in Seq(S) /\ Len(t) = n + 1
      /\ \A i \in 1 .. n : t[i] = s[i]
      /\ t[n + 1] = b
  BY OneMore
<1> HIDE DEF t, n
<1>3. (\A i \in 3 .. n : s[i] \in S) /\ (\A i \in 3 .. n + 1 : t[i] \in S)
  <2>1. \A i \in 1 .. n : s[i] \in S
    BY ElementOfSeq DEF n
  <2>2. \A i \in 3 .. n : i \in 1 .. n
    BY <1>1
  <2>3. \A i \in 3 .. n + 1 : i \in 1 .. n \/ i = n + 1
    BY <1>1
  <2> QED BY <1>2, <2>1, <2>2, <2>3
<1>4. /\ r \in Seq(S) /\ Len(r) = n - 2
      /\ \A i \in 1 .. n - 2 : r[i] = s[2 + i]
  <2>1. /\ r \in Seq(S) /\ Len(r) = IF 3 <= n THEN n - 3 + 1 ELSE 0
        /\ \A i \in 1 .. n - 3 + 1 : r[i] = s[3 + i - 1]
    BY <1>1, <1>3, SubSeqProperties
  <2> HIDE DEF r
  <2>2. Len(r) = n - 2
    BY <1>1, <2>1
  <2>3. \A i \in 1 .. n - 2 : r[i] = s[2 + i]
    <3> TAKE i \in 1 .. n - 2
    <3>1. i \in 1 .. n - 3 + 1 /\ 3 + i - 1 = 2 + i
      BY <1>1
    <3> QED BY <2>1, <3>1
  <2> QED BY <2>1, <2>2, <2>3
<1>5. /\ u \in Seq(S) /\ Len(u) = n - 1
      /\ \A i \in 1 .. n - 1 : u[i] = t[2 + i]
  <2>1. /\ u \in Seq(S) /\ Len(u) = IF 3 <= n + 1 THEN (n + 1) - 3 + 1 ELSE 0
        /\ \A i \in 1 .. (n + 1) - 3 + 1 : u[i] = t[3 + i - 1]
    BY <1>1, <1>3, SubSeqProperties
  <2> HIDE DEF u
  <2>2. Len(u) = n - 1
    BY <1>1, <2>1
  <2>3. \A i \in 1 .. n - 1 : u[i] = t[2 + i]
    <3> TAKE i \in 1 .. n - 1
    <3>1. i \in 1 .. (n + 1) - 3 + 1 /\ 3 + i - 1 = 2 + i
      BY <1>1
    <3> QED BY <2>1, <3>1
  <2> QED BY <2>1, <2>2, <2>3
<1> HIDE DEF r, u
<1>6. /\ v \in Seq(S) /\ Len(v) = n - 1
      /\ \A i \in 1 .. n - 2 : v[i] = r[i]
      /\ v[n - 1] = b
  <2>1. /\ v \in Seq(S) /\ Len(v) = Len(r) + 1
        /\ \A i \in 1 .. Len(r) : v[i] = r[i]
        /\ v[Len(r) + 1] = b
    BY <1>4, AppendProperties
  <2>2. Len(r) = n - 2 /\ (n - 2) + 1 = n - 1
    BY <1>1, <1>4
  <2> QED BY <2>1, <2>2
<1> HIDE DEF v
<1>7. \A i \in 1 .. n - 1 : u[i] = v[i]
  <2> TAKE i \in 1 .. n - 1
  <2>1. CASE i \in 1 .. n - 2
    <3>1. 2 + i \in 1 .. n
      BY <1>1, <2>1
    <3> QED BY <1>2, <1>4, <1>5, <1>6, <2>1, <3>1
  <2>2. CASE i = n - 1
    <3>1. 2 + i = n + 1
      BY <1>1, <2>2
    <3> QED BY <1>2, <1>5, <1>6, <2>2, <3>1
  <2> QED BY <1>1, <2>1, <2>2
<1>8. u = v
  BY <1>5, <1>6, <1>7, SeqEqual
<1> QED BY <1>4, <1>8 DEF n, r, t, u, v

----------------------------------------------------------------------------
(* The CRC. *)

\* f gives the register after each of the first n bytes of s.
Runs(f, s, n) ==
  /\ f \in [0 .. n -> Crc]
  /\ f[0] = CRC_INITIAL
  /\ \A i \in 1 .. n : f[i] = CrcStep(f[i - 1], s[i])

\* There is a function that goes on from byte to byte.
LEMMA RunExists ==
  ASSUME NEW s \in Seq(Byte)
  PROVE  \A n \in 0 .. Len(s) : \E f : Runs(f, s, n)
<1> DEFINE S == {n \in Nat : n <= Len(s) => \E f : Runs(f, s, n)}
<1>0. Len(s) \in Nat
  OBVIOUS
<1>1. 0 \in S
  <2>1. Runs([i \in 0 .. 0 |-> CRC_INITIAL], s, 0)
    BY CrcAssumption DEF Runs
  <2> QED BY <2>1
<1>2. ASSUME NEW n \in S PROVE n + 1 \in S
  <2>1. SUFFICES ASSUME n + 1 <= Len(s) PROVE \E g : Runs(g, s, n + 1)
    OBVIOUS
  <2>2. PICK f : Runs(f, s, n)
    BY <1>0, <2>1
  <2> DEFINE g == [i \in 0 .. n + 1 |-> IF i = n + 1 THEN CrcStep(f[n], s[n + 1]) ELSE f[i]]
  <2>3. n \in Nat /\ s[n + 1] \in Byte /\ f[n] \in Crc
    BY <1>0, <2>1, <2>2, ElementOfSeq DEF Runs
  <2>4. CrcStep(f[n], s[n + 1]) \in Crc
    BY <2>3, CrcAssumption
  <2>5. \A i \in 0 .. n : g[i] = f[i]
    BY <2>3
  <2>6. g \in [0 .. n + 1 -> Crc]
    BY <2>2, <2>3, <2>4 DEF Runs
  <2>7. g[0] = CRC_INITIAL
    BY <2>2, <2>3 DEF Runs
  <2>8. \A i \in 1 .. n + 1 : g[i] = CrcStep(g[i - 1], s[i])
    <3> TAKE i \in 1 .. n + 1
    <3>1. CASE i = n + 1
      BY <3>1, <2>3, <2>5
    <3>2. CASE i \in 1 .. n
      <4>1. g[i] = f[i] /\ g[i - 1] = f[i - 1]
        BY <2>3, <3>2
      <4> QED BY <2>2, <3>2, <4>1 DEF Runs
    <3> QED BY <2>3, <3>1, <3>2
  <2> HIDE DEF g
  <2> QED BY <2>6, <2>7, <2>8 DEF Runs
<1> HIDE DEF S
<1>3. S = Nat
  <2>1. S \subseteq Nat
    BY DEF S
  <2> QED BY <1>1, <1>2, <2>1, Induction
<1> QED BY <1>0, <1>3 DEF S

\* Two such functions agree as far as both go, when the bytes do.
LEMMA RunUnique ==
  ASSUME NEW s, NEW t, NEW m \in Nat, NEW n \in Nat, m <= n,
         NEW f, NEW g, Runs(f, s, m), Runs(g, t, n), \A i \in 1 .. m : s[i] = t[i]
  PROVE  f[m] = g[m]
<1> DEFINE S == {k \in Nat : k <= m => f[k] = g[k]}
<1>1. 0 \in S
  BY DEF Runs
<1>2. ASSUME NEW k \in S PROVE k + 1 \in S
  <2>1. SUFFICES ASSUME k + 1 <= m PROVE f[k + 1] = g[k + 1]
    OBVIOUS
  <2>2. k \in Nat /\ f[k] = g[k] /\ k + 1 \in 1 .. m /\ k + 1 \in 1 .. n
    BY <2>1
  <2>3. f[k + 1] = CrcStep(f[k], s[k + 1])
    BY <2>2 DEF Runs
  <2>4. g[k + 1] = CrcStep(g[k], t[k + 1])
    BY <2>2 DEF Runs
  <2> QED BY <2>2, <2>3, <2>4
<1> HIDE DEF S
<1>3. S = Nat
  <2>1. S \subseteq Nat
    BY DEF S
  <2> QED BY <1>1, <1>2, <2>1, Induction
<1> QED BY <1>3 DEF S

\* The register after the bytes is the last value of the function that runs
\* through them.
LEMMA AfterRun ==
  ASSUME NEW s \in Seq(Byte)
  PROVE  \E f : Runs(f, s, Len(s)) /\ CrcAfter(s) = f[Len(s)]
<1> DEFINE Def(f) == [n \in 0 .. Len(s) |-> IF n = 0 THEN CRC_INITIAL ELSE CrcStep(f[n - 1], s[n])]
           after == CHOOSE f : f = Def(f)
<1>0. Len(s) \in Nat
  OBVIOUS
<1>1. PICK f : Runs(f, s, Len(s))
  BY <1>0, RunExists
<1>2. f = Def(f)
  BY <1>0, <1>1 DEF Runs
<1>3. after = Def(after)
  <2> HIDE DEF Def
  <2> QED BY <1>2
<1>4. CrcAfter(s) = after[Len(s)]
  BY DEF CrcAfter
<1>5. Runs(after, s, Len(s))
  <2> HIDE DEF after
  <2>1. after[0] = CRC_INITIAL
    BY <1>0, <1>3
  <2>2. \A i \in 1 .. Len(s) : after[i] = CrcStep(after[i - 1], s[i])
    BY <1>0, <1>3
  <2>3. after \in [0 .. Len(s) -> Crc]
    <3> DEFINE S == {k \in Nat : k <= Len(s) => after[k] \in Crc}
    <3>1. 0 \in S
      BY <2>1, CrcAssumption
    <3>2. ASSUME NEW k \in S PROVE k + 1 \in S
      <4>1. SUFFICES ASSUME k + 1 <= Len(s) PROVE after[k + 1] \in Crc
        OBVIOUS
      <4>2. k + 1 \in 1 .. Len(s) /\ after[k] \in Crc /\ k + 1 - 1 = k
        BY <1>0, <4>1
      <4>3. s[k + 1] \in Byte
        BY <4>2, ElementOfSeq
      <4> QED BY <2>2, <4>2, <4>3, CrcAssumption
    <3> HIDE DEF S
    <3>3. S = Nat
      <4>1. S \subseteq Nat
        BY DEF S
      <4> QED BY <3>1, <3>2, <4>1, Induction
    <3>4. \A k \in 0 .. Len(s) : after[k] \in Crc
      BY <1>0, <3>3 DEF S
    <3>5. after = [k \in 0 .. Len(s) |-> after[k]]
      BY <1>3
    <3> QED BY <3>4, <3>5
  <2> QED BY <2>1, <2>2, <2>3 DEF Runs
<1> QED BY <1>4, <1>5

\* The register before the first byte.
LEMMA CrcAfterNone == CrcAfter(<< >>) = CRC_INITIAL
<1>1. << >> \in Seq(Byte) /\ Len(<< >>) = 0
  OBVIOUS
<1>2. PICK f : Runs(f, << >>, Len(<< >>)) /\ CrcAfter(<< >>) = f[Len(<< >>)]
  BY <1>1, AfterRun
<1> QED BY <1>1, <1>2 DEF Runs

\* The register takes one step for each byte.
LEMMA CrcAfterAppend ==
  ASSUME NEW s \in Seq(Byte), NEW b \in Byte
  PROVE  /\ CrcAfter(s) \in Crc
         /\ CrcAfter(Append(s, b)) = CrcStep(CrcAfter(s), b)
<1> DEFINE t == Append(s, b)
<1>1. t \in Seq(Byte) /\ Len(t) = Len(s) + 1 /\ Len(s) \in Nat /\ t[Len(s) + 1] = b
      /\ \A i \in 1 .. Len(s) : t[i] = s[i]
  BY AppendProperties
<1> HIDE DEF t
<1>2. PICK f : Runs(f, s, Len(s)) /\ CrcAfter(s) = f[Len(s)]
  BY AfterRun
<1>3. PICK g : Runs(g, t, Len(t)) /\ CrcAfter(t) = g[Len(t)]
  BY <1>1, AfterRun
<1>4. f[Len(s)] = g[Len(s)]
  <2>1. Len(s) <= Len(t) /\ Len(t) \in Nat /\ \A i \in 1 .. Len(s) : s[i] = t[i]
    BY <1>1
  <2> QED BY <1>1, <1>2, <1>3, <2>1, RunUnique
<1>5. g[Len(t)] = CrcStep(g[Len(s)], b)
  <2>1. Len(t) \in 1 .. Len(t) /\ Len(t) - 1 = Len(s)
    BY <1>1
  <2> QED BY <1>1, <1>3, <2>1 DEF Runs
<1>6. f[Len(s)] \in Crc
  BY <1>1, <1>2 DEF Runs
<1> QED BY <1>2, <1>3, <1>4, <1>5, <1>6 DEF t

\* The register is a register after any bytes.
LEMMA CrcAfterIn ==
  ASSUME NEW s \in Seq(Byte)
  PROVE  CrcAfter(s) \in Crc
<1>1. 0 \in Byte
  BY ByteAssumption DEF Byte
<1> QED BY <1>1, CrcAfterAppend

\* The register goes on from one beginning of the bytes to the next.
LEMMA CrcAfterPrefix ==
  ASSUME NEW s \in Seq(Byte), NEW n \in 0 .. Len(s) - 1
  PROVE  /\ CrcAfter(SubSeq(s, 1, n)) \in Crc
         /\ CrcAfter(SubSeq(s, 1, n + 1)) = CrcStep(CrcAfter(SubSeq(s, 1, n)), s[n + 1])
<1> DEFINE t == SubSeq(s, 1, n)
<1>1. Len(s) \in Nat /\ n \in Nat /\ n + 1 \in 1 .. Len(s) /\ s[n + 1] \in Byte
  BY LenProperties, ElementOfSeq
<1>2. t \in Seq(Byte) /\ SubSeq(s, 1, n + 1) = Append(t, s[n + 1])
  <2>1. \A i \in 1 .. n : s[i] \in Byte
    BY <1>1, ElementOfSeq
  <2>2. /\ t \in Seq(Byte) /\ Len(t) = n /\ \A i \in 1 .. n : t[i] = s[i]
    BY <1>1, <2>1, SubSeqProperties
  <2> DEFINE u == SubSeq(s, 1, n + 1)
             v == Append(t, s[n + 1])
  <2>3. /\ u \in Seq(Byte) /\ Len(u) = n + 1 /\ \A i \in 1 .. n + 1 : u[i] = s[i]
    BY <1>1, ElementOfSeq, SubSeqProperties
  <2> HIDE DEF t, u
  <2>4. /\ v \in Seq(Byte) /\ Len(v) = n + 1 /\ v[n + 1] = s[n + 1]
        /\ \A i \in 1 .. n : v[i] = t[i]
    BY <1>1, <2>2, AppendProperties
  <2> HIDE DEF v
  <2>5. \A i \in 1 .. n + 1 : u[i] = v[i]
    <3> TAKE i \in 1 .. n + 1
    <3>1. i \in 1 .. n \/ i = n + 1
      BY <1>1
    <3> QED BY <2>2, <2>3, <2>4, <3>1
  <2>6. u = v
    BY <2>3, <2>4, <2>5, SeqEqual
  <2> QED BY <2>2, <2>6 DEF u, v
<1> HIDE DEF t
<1> QED BY <1>1, <1>2, CrcAfterAppend DEF t

----------------------------------------------------------------------------
(* The bytes of a frame. *)

\* A pair of bytes stands for a number.
LEMMA ValueType ==
  ASSUME NEW pair \in TwoBytes
  PROVE  Value(pair) \in Nat
<1>1. BYTE \in Nat /\ pair[1] \in Nat /\ pair[2] \in Nat
  BY ByteAssumption DEF TwoBytes, Byte
<1> QED BY <1>1 DEF Value

\* A length field holds the number it was made of.
LEMMA ValueOfPair ==
  ASSUME NEW n \in 0 .. BYTE * BYTE - 1
  PROVE  Pair(n) \in TwoBytes /\ Value(Pair(n)) = n
<1> DEFINE q == n \div BYTE
           r == n % BYTE
<1>0. BYTE \in Nat /\ BYTE >= 2 /\ n \in Nat /\ n < BYTE * BYTE
  <2>1. BYTE \in Nat /\ BYTE >= 2
    BY ByteAssumption
  <2>2. BYTE * BYTE \in Nat
    BY <2>1
  <2> QED BY <2>1, <2>2
<1>1. r \in 0 .. BYTE - 1 /\ q \in Nat /\ n = r + BYTE * q
  BY <1>0, Z3
<1>2. q <= BYTE - 1
  <2>1. SUFFICES ASSUME q >= BYTE PROVE FALSE
    BY <1>0, <1>1
  <2> HIDE DEF q, r
  <2>2. BYTE * q >= BYTE * BYTE
    BY <1>0, <1>1, <2>1, Z3
  <2>3. BYTE * q \in Nat /\ BYTE * BYTE \in Nat
    BY <1>0, <1>1
  <2> QED BY <1>0, <1>1, <2>2, <2>3
<1>3. Pair(n) = <<r, q>>
  BY DEF Pair
<1> HIDE DEF q, r
<1> QED BY <1>0, <1>1, <1>2, <1>3 DEF TwoBytes, Byte, Value

\* There is one pair for a number.
LEMMA PairOfValue ==
  ASSUME NEW pair \in TwoBytes
  PROVE  Pair(Value(pair)) = pair
<1> DEFINE lo == pair[1]
           hi == pair[2]
           n == lo + BYTE * hi
<1>1. BYTE \in Nat /\ BYTE >= 2 /\ lo \in 0 .. BYTE - 1 /\ hi \in 0 .. BYTE - 1
  BY ByteAssumption DEF TwoBytes, Byte
<1>2. n % BYTE = lo /\ n \div BYTE = hi
  <2> HIDE DEF lo, hi
  <2>1. BYTE * hi \in Nat
    BY <1>1
  <2>2. n \in Nat
    BY <1>1, <2>1
  <2> QED BY <1>1, <2>1, <2>2, Z3
<1>3. Pair(Value(pair)) = <<lo, hi>>
  <2>1. Value(pair) = n
    BY DEF Value
  <2> HIDE DEF n, lo, hi
  <2> QED BY <1>2, <2>1 DEF Pair
<1>4. pair = <<lo, hi>>
  BY DEF TwoBytes
<1> QED BY <1>3, <1>4

\* A payload is a sequence of bytes whose length fits in its field.
LEMMA FrameFields ==
  ASSUME NEW f \in Frame
  PROVE  /\ f.type \in Byte /\ f.flags \in TwoBytes /\ f.payload \in Seq(Byte)
         /\ Len(f.payload) \in 0 .. MAX_PAYLOAD_BYTES
         /\ Len(f.payload) \in 0 .. BYTE * BYTE - 1
         /\ Pair(Len(f.payload)) \in TwoBytes
         /\ Value(Pair(Len(f.payload))) = Len(f.payload)
<1>1. PICK n \in 0 .. MAX_PAYLOAD_BYTES : f.payload \in [1 .. n -> Byte]
  BY DEF Frame
<1>2. f.type \in Byte /\ f.flags \in TwoBytes
  BY DEF Frame
<1>3. f.payload \in Seq(Byte) /\ Len(f.payload) = n /\ n \in Nat
  BY <1>1, PayloadAssumption
<1>4. Len(f.payload) \in 0 .. BYTE * BYTE - 1
  <2>1. BYTE * BYTE \in Nat
    BY ByteAssumption
  <2> QED BY <1>3, <2>1, PayloadAssumption
<1> QED BY <1>2, <1>3, <1>4, ValueOfPair, PayloadAssumption

\* Fields of the right types and a payload within its bound make a frame.
LEMMA AFrame ==
  ASSUME NEW f, f \in [type : Byte, flags : TwoBytes, payload : Seq(Byte)],
         Len(f.payload) <= MAX_PAYLOAD_BYTES
  PROVE  f \in Frame
<1>1. f.payload \in [1 .. Len(f.payload) -> Byte] /\ Len(f.payload) \in 0 .. MAX_PAYLOAD_BYTES
  BY LenProperties, PayloadAssumption
<1> QED BY <1>1 DEF Frame

\* What the CRC of a frame covers.
LEMMA ProtectedBytes ==
  ASSUME NEW f \in Frame
  PROVE  LET p == Protected(f)
             n == Len(f.payload)
         IN  /\ p \in Seq(Byte) /\ Len(p) = 6 + n
             /\ p[1] = FRAME_VERSION /\ p[2] = f.type
             /\ p[3] = f.flags[1] /\ p[4] = f.flags[2]
             /\ p[5] = Pair(n)[1] /\ p[6] = Pair(n)[2]
             /\ \A i \in 1 .. n : p[6 + i] = f.payload[i]
<1> DEFINE n == Len(f.payload)
           a == <<FRAME_VERSION, f.type>>
<1>1. /\ f.type \in Byte /\ f.flags \in TwoBytes /\ f.payload \in Seq(Byte)
      /\ n \in Nat /\ Pair(n) \in TwoBytes /\ FRAME_VERSION \in Byte
  BY FrameFields, ByteAssumption
<1> HIDE DEF n
<1>2. f.flags \in Seq(Byte) /\ Len(f.flags) = 2 /\ Pair(n) \in Seq(Byte) /\ Len(Pair(n)) = 2
  <2>1. 2 \in Nat
    OBVIOUS
  <2> QED BY <1>1, <2>1, FunctionIsSeq DEF TwoBytes
<1>3. a \in Seq(Byte) /\ Len(a) = 2 /\ a[1] = FRAME_VERSION /\ a[2] = f.type
  BY <1>1
<1> DEFINE g == f.flags
           m == Pair(n)
           ab == a \o g
           abc == ab \o m
           p == abc \o f.payload
<1>4. Protected(f) = p
  BY DEF Protected, n
<1>g. g \in Seq(Byte) /\ Len(g) = 2 /\ m \in Seq(Byte) /\ Len(m) = 2
  BY <1>2
<1> HIDE DEF a, g, m
<1>5. /\ ab \in Seq(Byte) /\ Len(ab) = 4
      /\ ab[1] = a[1] /\ ab[2] = a[2] /\ ab[3] = g[1] /\ ab[4] = g[2]
  <2>1. a \in Seq(Byte) /\ g \in Seq(Byte)
    BY <1>3, <1>g
  <2>2. /\ ab \in Seq(Byte) /\ Len(ab) = Len(a) + Len(g)
        /\ \A i \in 1 .. Len(a) : ab[i] = a[i]
        /\ \A i \in 1 .. Len(g) : ab[Len(a) + i] = g[i]
    BY <2>1, Joined, SMTT(30)
  <2> HIDE DEF ab
  <2> QED BY <1>3, <1>g, <2>2
<1> HIDE DEF ab
<1>6. /\ abc \in Seq(Byte) /\ Len(abc) = 6
      /\ abc[1] = ab[1] /\ abc[2] = ab[2] /\ abc[3] = ab[3] /\ abc[4] = ab[4]
      /\ abc[5] = m[1] /\ abc[6] = m[2]
  <2>1. ab \in Seq(Byte) /\ m \in Seq(Byte)
    BY <1>5, <1>g
  <2>2. /\ abc \in Seq(Byte) /\ Len(abc) = Len(ab) + Len(m)
        /\ \A i \in 1 .. Len(ab) : abc[i] = ab[i]
        /\ \A i \in 1 .. Len(m) : abc[Len(ab) + i] = m[i]
    BY <2>1, Joined, SMTT(30)
  <2> HIDE DEF abc
  <2> QED BY <1>g, <1>5, <2>2
<1> HIDE DEF abc
<1>7. /\ p \in Seq(Byte) /\ Len(p) = 6 + n
      /\ p[1] = abc[1] /\ p[2] = abc[2] /\ p[3] = abc[3] /\ p[4] = abc[4]
      /\ p[5] = abc[5] /\ p[6] = abc[6]
      /\ \A i \in 1 .. n : p[6 + i] = f.payload[i]
  <2>1. abc \in Seq(Byte) /\ f.payload \in Seq(Byte)
    BY <1>1, <1>6
  <2>2. /\ p \in Seq(Byte) /\ Len(p) = Len(abc) + Len(f.payload)
        /\ \A i \in 1 .. Len(abc) : p[i] = abc[i]
        /\ \A i \in 1 .. Len(f.payload) : p[Len(abc) + i] = f.payload[i]
    BY <2>1, Joined, SMTT(30)
  <2> HIDE DEF p
  <2> QED BY <1>1, <1>6, <2>2 DEF n
<1> HIDE DEF p
<1> QED BY <1>3, <1>4, <1>5, <1>6, <1>7 DEF n, g, m

\* The bytes of a frame in their places.
LEMMA EncodeBytes ==
  ASSUME NEW f \in Frame
  PROVE  LET e == Encode(f)
             p == Protected(f)
             n == Len(f.payload)
         IN  /\ e \in Seq(Byte) /\ Len(e) = 12 + n
             /\ e[1] = FRAME_SOF_0 /\ e[2] = FRAME_SOF_1
             /\ \A i \in 1 .. 6 + n : e[2 + i] = p[i]
             /\ \A k \in 1 .. 4 : e[8 + n + k] = CrcOver(p)[k]
             /\ CrcOver(p) \in FourBytes
<1> DEFINE p == Protected(f)
           n == Len(f.payload)
           c == CrcOver(p)
           sof == <<FRAME_SOF_0, FRAME_SOF_1>>
<1>1. n \in Nat /\ p \in Seq(Byte) /\ Len(p) = 6 + n
  BY FrameFields, ProtectedBytes
<1>2. sof \in Seq(Byte) /\ Len(sof) = 2 /\ sof[1] = FRAME_SOF_0 /\ sof[2] = FRAME_SOF_1
  BY ByteAssumption
<1>3. c \in FourBytes
  <2>1. CrcAfter(p) \in Crc
    <3> HIDE DEF p
    <3> QED BY <1>1, CrcAfterIn
  <2> QED BY <2>1, CrcAssumption DEF CrcOver
<1>4. c \in Seq(Byte) /\ Len(c) = 4
  <2>1. 4 \in Nat
    OBVIOUS
  <2> HIDE DEF c
  <2> QED BY <1>3, <2>1, FunctionIsSeq DEF FourBytes
<1> DEFINE u == sof \o p
<1>5. Encode(f) = u \o c
  BY DEF Encode
<1> HIDE DEF p, n, c, sof
<1>6. /\ u \in Seq(Byte) /\ Len(u) = 8 + n
      /\ u[1] = FRAME_SOF_0 /\ u[2] = FRAME_SOF_1
      /\ \A i \in 1 .. 6 + n : u[2 + i] = p[i]
  <2>1. sof \in Seq(Byte) /\ p \in Seq(Byte)
    BY <1>1, <1>2
  <2>2. /\ u \in Seq(Byte) /\ Len(u) = Len(sof) + Len(p)
        /\ \A i \in 1 .. Len(sof) : u[i] = sof[i]
        /\ \A i \in 1 .. Len(p) : u[Len(sof) + i] = p[i]
    BY <2>1, Joined, SMTT(30)
  <2> HIDE DEF u
  <2> QED BY <1>1, <1>2, <2>2
<1> HIDE DEF u
<1> DEFINE e == u \o c
<1>7. /\ e \in Seq(Byte) /\ Len(e) = 12 + n
      /\ \A i \in 1 .. 8 + n : e[i] = u[i]
      /\ \A k \in 1 .. 4 : e[8 + n + k] = c[k]
  <2>1. u \in Seq(Byte) /\ c \in Seq(Byte)
    BY <1>4, <1>6
  <2>2. /\ e \in Seq(Byte) /\ Len(e) = Len(u) + Len(c)
        /\ \A i \in 1 .. Len(u) : e[i] = u[i]
        /\ \A i \in 1 .. Len(c) : e[Len(u) + i] = c[i]
    BY <2>1, Joined, SMTT(30)
  <2> HIDE DEF e
  <2> QED BY <1>1, <1>4, <1>6, <2>2
<1> HIDE DEF e
<1>8. \A i \in 1 .. 6 + n : e[2 + i] = p[i]
  <2> TAKE i \in 1 .. 6 + n
  <2>1. 2 + i \in 1 .. 8 + n
    BY <1>1
  <2> QED BY <1>6, <1>7, <2>1
<1>9. e[1] = FRAME_SOF_0 /\ e[2] = FRAME_SOF_1
  BY <1>1, <1>6, <1>7
<1>10. Encode(f) = e
  BY <1>5 DEF e
<1>11. /\ Encode(f) \in Seq(Byte) /\ Len(Encode(f)) = 12 + n
       /\ Encode(f)[1] = FRAME_SOF_0 /\ Encode(f)[2] = FRAME_SOF_1
       /\ \A i \in 1 .. 6 + n : Encode(f)[2 + i] = p[i]
       /\ \A k \in 1 .. 4 : Encode(f)[8 + n + k] = c[k]
  BY <1>7, <1>8, <1>9, <1>10
<1> QED BY <1>3, <1>11 DEF p, n, c

\* The protected bytes stand in the encoding from the third on.
LEMMA EncodeProtected ==
  ASSUME NEW f \in Frame
  PROVE  SubSeq(Encode(f), 3, 8 + Len(f.payload)) = Protected(f)
<1> DEFINE e == Encode(f)
           p == Protected(f)
           n == Len(f.payload)
           u == SubSeq(e, 3, 8 + n)
<1>1. n \in Nat /\ p \in Seq(Byte) /\ Len(p) = 6 + n
  BY FrameFields, ProtectedBytes
<1>2. /\ e \in Seq(Byte) /\ Len(e) = 12 + n
      /\ \A i \in 1 .. 6 + n : e[2 + i] = p[i]
  BY EncodeBytes
<1> HIDE DEF e, p, n
<1>3. \A i \in 3 .. 8 + n : e[i] \in Byte
  <2>1. \A i \in 3 .. 8 + n : i \in 1 .. Len(e)
    BY <1>1, <1>2
  <2> QED BY <1>2, <2>1, ElementOfSeq
<1>4. /\ u \in Seq(Byte)
      /\ Len(u) = IF 3 <= 8 + n THEN (8 + n) - 3 + 1 ELSE 0
      /\ \A i \in 1 .. (8 + n) - 3 + 1 : u[i] = e[3 + i - 1]
  BY <1>1, <1>3, SubSeqProperties
<1> HIDE DEF u
<1>5. Len(u) = 6 + n
  BY <1>1, <1>4
<1>6. \A i \in 1 .. 6 + n : u[i] = p[i]
  <2> TAKE i \in 1 .. 6 + n
  <2>1. i \in 1 .. (8 + n) - 3 + 1 /\ 3 + i - 1 = 2 + i
    BY <1>1
  <2> QED BY <1>2, <1>4, <2>1
<1>7. u = p
  BY <1>1, <1>4, <1>5, <1>6, SeqEqual
<1> QED BY <1>7 DEF u, e, p, n

\* The lengths and types of a frame and of its encoding.
LEMMA FrameFacts ==
  ASSUME NEW f \in Frame
  PROVE  /\ f.type \in Byte /\ f.flags \in TwoBytes
         /\ Len(f.payload) \in Nat /\ Len(f.payload) <= MAX_PAYLOAD_BYTES
         /\ Pair(Len(f.payload)) \in TwoBytes
         /\ Value(Pair(Len(f.payload))) = Len(f.payload)
         /\ Protected(f) \in Seq(Byte) /\ Len(Protected(f)) = 6 + Len(f.payload)
         /\ Encode(f) \in Seq(Byte) /\ Len(Encode(f)) = 12 + Len(f.payload)
         /\ CrcOver(Protected(f)) \in FourBytes
         /\ \A i \in 1 .. Len(f.payload) : f.payload[i] \in Byte
<1>1. /\ f.type \in Byte /\ f.flags \in TwoBytes
      /\ Len(f.payload) \in 0 .. MAX_PAYLOAD_BYTES
      /\ Pair(Len(f.payload)) \in TwoBytes
      /\ Value(Pair(Len(f.payload))) = Len(f.payload)
      /\ f.payload \in Seq(Byte)
  BY FrameFields
<1>2. Protected(f) \in Seq(Byte) /\ Len(Protected(f)) = 6 + Len(f.payload)
  BY ProtectedBytes
<1>3. /\ Encode(f) \in Seq(Byte) /\ Len(Encode(f)) = 12 + Len(f.payload)
      /\ CrcOver(Protected(f)) \in FourBytes
  BY EncodeBytes
<1>4. \A i \in 1 .. Len(f.payload) : f.payload[i] \in Byte
  BY <1>1, ElementOfSeq
<1> QED BY <1>1, <1>2, <1>3, <1>4, PayloadAssumption

\* What stands where in the encoding of a frame.
LEMMA EncodePlaces ==
  ASSUME NEW f \in Frame
  PROVE  LET e == Encode(f)
             n == Len(f.payload)
         IN  /\ e[1] = FRAME_SOF_0 /\ e[2] = FRAME_SOF_1 /\ e[3] = FRAME_VERSION
             /\ e[4] = f.type /\ e[5] = f.flags[1] /\ e[6] = f.flags[2]
             /\ e[7] = Pair(n)[1] /\ e[8] = Pair(n)[2]
             /\ \A i \in 1 .. n : e[8 + i] = f.payload[i]
             /\ \A k \in 1 .. 4 : e[8 + n + k] = CrcOver(Protected(f))[k]
<1> DEFINE e == Encode(f)
           p == Protected(f)
           n == Len(f.payload)
           c == CrcOver(p)
<1>1. n \in Nat
  BY FrameFacts
<1>2. /\ p[1] = FRAME_VERSION /\ p[2] = f.type
      /\ p[3] = f.flags[1] /\ p[4] = f.flags[2]
      /\ p[5] = Pair(n)[1] /\ p[6] = Pair(n)[2]
      /\ \A i \in 1 .. n : p[6 + i] = f.payload[i]
  BY ProtectedBytes
<1>3. /\ e[1] = FRAME_SOF_0 /\ e[2] = FRAME_SOF_1
      /\ \A i \in 1 .. 6 + n : e[2 + i] = p[i]
      /\ \A k \in 1 .. 4 : e[8 + n + k] = c[k]
  BY EncodeBytes
<1> SUFFICES /\ e[1] = FRAME_SOF_0 /\ e[2] = FRAME_SOF_1 /\ e[3] = FRAME_VERSION
             /\ e[4] = f.type /\ e[5] = f.flags[1] /\ e[6] = f.flags[2]
             /\ e[7] = Pair(n)[1] /\ e[8] = Pair(n)[2]
             /\ \A i \in 1 .. n : e[8 + i] = f.payload[i]
             /\ \A k \in 1 .. 4 : e[8 + n + k] = c[k]
  OBVIOUS
<1> HIDE DEF e, p, n, c
<1>4. /\ e[2 + 1] = p[1] /\ e[2 + 2] = p[2] /\ e[2 + 3] = p[3] /\ e[2 + 4] = p[4]
      /\ e[2 + 5] = p[5] /\ e[2 + 6] = p[6]
  BY <1>1, <1>3
<1>5. \A i \in 1 .. n : 6 + i \in 1 .. 6 + n /\ 2 + (6 + i) = 8 + i
  BY <1>1
<1> QED BY <1>2, <1>3, <1>4, <1>5
=============================================================================
