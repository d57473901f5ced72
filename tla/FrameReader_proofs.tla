------------------------ MODULE FrameReader_proofs ------------------------
(***************************************************************************)
(* handleStream() uses its TCPClient as a TCPClient is meant to be used,   *)
(* so it reads from a FIFO; and from the peer's bytes, in their order, it  *)
(* makes the peer's frames.  For all frames, sizes and numbers of polls.   *)
(***************************************************************************)
EXTENDS FrameReader, ClientBuffer_proofs, FiniteSetTheorems, WellFoundedInduction

(***************************************************************************)
(* Induction over the frames, as a statement about a set of numbers.       *)
(***************************************************************************)
Smaller == {p \in Nat \X Nat : p[1] < p[2]}

LEMMA SmallerWellFounded == IsWellFoundedOn(Smaller, Nat)
  BY NatLessThanWellFounded DEF Smaller, OpToRel

LEMMA FirstFailure ==
  ASSUME NEW n \in Nat, NEW S \in SUBSET Nat,
         0 \in S, \A i \in 1..n : i - 1 \in S => i \in S
  PROVE  0..n \subseteq S
<1>1. SUFFICES ASSUME (0..n) \ S # {} PROVE FALSE
  OBVIOUS
<1>2. (0..n) \ S \in SUBSET Nat
  OBVIOUS
<1>3. PICK i \in (0..n) \ S : \A j \in (0..n) \ S : ~(<<j, i>> \in Smaller)
  BY <1>1, <1>2, SmallerWellFounded, WFMin
<1>4. i # 0 /\ i \in 1..n
  OBVIOUS
<1>5. i - 1 \in S
  <2>1. i - 1 \in 0..n /\ <<i - 1, i>> \in Nat \X Nat
    BY <1>4
  <2>2. <<i - 1, i>> \in Smaller
    BY <1>4, <2>1 DEF Smaller
  <2> QED BY <1>3, <2>1, <2>2
<1> QED BY <1>3, <1>4, <1>5

(***************************************************************************)
(* Where each byte of each frame is in what the peer sends.                *)
(***************************************************************************)
AnyTag == Frames \X Stages \X Nat

ExtLength(f) == IF IsLong(f) THEN 2 ELSE 0

PartLength(f, part) ==
  IF part = "ext" THEN ExtLength(f)
  ELSE IF part = "mask" THEN MaskLength
  ELSE IF part = "data" THEN Sizes[f] ELSE 1

PartStart(f, part) ==
  IF part = "op" THEN 0
  ELSE IF part = "len" THEN 1
  ELSE IF part = "ext" THEN 2
  ELSE IF part = "mask" THEN 2 + ExtLength(f) ELSE 2 + ExtLength(f) + MaskLength

FrameLength(f) == 2 + ExtLength(f) + MaskLength + Sizes[f]

LEMMA SizesAreNumbers ==
  ASSUME NEW f \in Frames
  PROVE  /\ Sizes[f] \in Nat /\ MaskLength \in Nat \ {0}
         /\ ExtLength(f) \in Nat /\ FrameLength(f) \in Nat \ {0}
<1>1. Sizes[f] \in Nat
  BY FrameAssumption, ElementOfSeq DEF Frames
<1>2. MaskLength \in Nat \ {0} /\ ExtLength(f) \in {0, 2}
  BY FrameAssumption DEF ExtLength
<1> QED BY <1>1, <1>2 DEF FrameLength

LEMMA PartSeq ==
  ASSUME NEW f \in Frames, NEW part \in Stages, NEW n \in Nat
  PROVE  /\ Part(f, part, n) \in Seq(AnyTag) /\ Len(Part(f, part, n)) = n
         /\ \A i \in 1..n : Part(f, part, n)[i] = <<f, part, i - 1>>
<1>1. \A i \in 1..n : <<f, part, i - 1>> \in AnyTag
  BY DEF AnyTag
<1> QED BY <1>1 DEF Part

(* Some bytes, and a part after them. *)
Extends(t, s, f, part, n) ==
  /\ t \in Seq(AnyTag) /\ Len(s) \in Nat /\ Len(t) = Len(s) + n
  /\ \A i \in 1..Len(s) : t[i] = s[i]
  /\ \A i \in 0..(n - 1) : t[Len(s) + i + 1] = <<f, part, i>>

LEMMA PartAfter ==
  ASSUME NEW s \in Seq(AnyTag), NEW f \in Frames, NEW part \in Stages, NEW n \in Nat
  PROVE  Extends(s \o Part(f, part, n), s, f, part, n)
<1> DEFINE t == Part(f, part, n)
<1>1. /\ t \in Seq(AnyTag) /\ Len(t) = n
      /\ \A i \in 1..n : t[i] = <<f, part, i - 1>>
  BY PartSeq
<1> HIDE DEF t
<1>2. /\ s \o t \in Seq(AnyTag) /\ Len(s) \in Nat /\ Len(s \o t) = Len(s) + Len(t)
      /\ \A i \in 1..Len(s) + Len(t) :
           (s \o t)[i] = IF i <= Len(s) THEN s[i] ELSE t[i - Len(s)]
  BY <1>1, ConcatProperties, LenProperties
<1>3. ASSUME NEW i \in 0..(n - 1)
      PROVE  (s \o t)[Len(s) + i + 1] = <<f, part, i>>
  <2>1. /\ Len(s) + i + 1 \in 1..Len(s) + Len(t) /\ ~(Len(s) + i + 1 <= Len(s))
        /\ Len(s) + i + 1 - Len(s) = i + 1 /\ i + 1 \in 1..n /\ i + 1 - 1 = i
    BY <1>1, <1>2
  <2>2. (s \o t)[Len(s) + i + 1] = t[i + 1]
    BY <1>2, <2>1
  <2> QED BY <1>1, <2>1, <2>2
<1>4. \A i \in 1..Len(s) : (s \o t)[i] = s[i]
  BY <1>1, <1>2
<1> QED BY <1>1, <1>2, <1>3, <1>4 DEF t, Extends

LEMMA FrameBytes ==
  ASSUME NEW f \in Frames
  PROVE  /\ Frame(f) \in Seq(AnyTag) /\ Len(Frame(f)) = FrameLength(f)
         /\ \A part \in Stages : \A i \in 0..(PartLength(f, part) - 1) :
              /\ PartStart(f, part) + i + 1 \in 1..FrameLength(f)
              /\ Frame(f)[PartStart(f, part) + i + 1] = <<f, part, i>>
<1> DEFINE s1 == Part(f, "op", 1)
           s2 == s1 \o Part(f, "len", 1)
           s3 == s2 \o Part(f, "ext", ExtLength(f))
           s4 == s3 \o Part(f, "mask", MaskLength)
           s5 == s4 \o Part(f, "data", Sizes[f])
<1>0. /\ Sizes[f] \in Nat /\ MaskLength \in Nat \ {0} /\ ExtLength(f) \in Nat
      /\ "op" \in Stages /\ "len" \in Stages /\ "ext" \in Stages
      /\ "mask" \in Stages /\ "data" \in Stages /\ 1 \in Nat
  BY SizesAreNumbers DEF Stages
<1>1. s1 \in Seq(AnyTag) /\ Len(s1) = 1 /\ s1[1] = <<f, "op", 0>>
  <2>1. /\ s1 \in Seq(AnyTag) /\ Len(s1) = 1
        /\ \A i \in 1..1 : s1[i] = <<f, "op", i - 1>>
    BY <1>0, PartSeq, Zenon
  <2> HIDE DEF s1
  <2> QED BY <2>1
<1> HIDE DEF s1
<1>2. /\ s2 \in Seq(AnyTag) /\ Len(s2) = 2
      /\ s2[1] = <<f, "op", 0>> /\ s2[2] = <<f, "len", 0>>
  <2>1. Extends(s2, s1, f, "len", 1)
    BY <1>0, <1>1, PartAfter, Zenon
  <2> HIDE DEF s2
  <2> QED BY <1>1, <2>1 DEF Extends
<1> HIDE DEF s2
<1>3. /\ s3 \in Seq(AnyTag) /\ Len(s3) = 2 + ExtLength(f)
      /\ \A i \in 1..2 : s3[i] = s2[i]
      /\ \A i \in 0..(ExtLength(f) - 1) : s3[2 + i + 1] = <<f, "ext", i>>
  <2>1. Extends(s3, s2, f, "ext", ExtLength(f))
    BY <1>0, <1>2, PartAfter, Zenon
  <2> HIDE DEF s3
  <2> QED BY <1>2, <2>1 DEF Extends
<1> HIDE DEF s3
<1>4. /\ s4 \in Seq(AnyTag) /\ Len(s4) = 2 + ExtLength(f) + MaskLength
      /\ \A i \in 1..2 + ExtLength(f) : s4[i] = s3[i]
      /\ \A i \in 0..(MaskLength - 1) : s4[2 + ExtLength(f) + i + 1] = <<f, "mask", i>>
  <2>1. Extends(s4, s3, f, "mask", MaskLength)
    BY <1>0, <1>3, PartAfter, Zenon
  <2> HIDE DEF s4
  <2> QED BY <1>3, <2>1 DEF Extends
<1> HIDE DEF s4
<1>5. /\ s5 \in Seq(AnyTag) /\ Len(s5) = FrameLength(f)
      /\ \A i \in 1..2 + ExtLength(f) + MaskLength : s5[i] = s4[i]
      /\ \A i \in 0..(Sizes[f] - 1) :
           s5[2 + ExtLength(f) + MaskLength + i + 1] = <<f, "data", i>>
  <2>1. Extends(s5, s4, f, "data", Sizes[f])
    BY <1>0, <1>4, PartAfter, Zenon
  <2> HIDE DEF s5
  <2> QED BY <1>4, <2>1 DEF FrameLength, Extends
<1>6. Frame(f) = s5
  BY DEF Frame, ExtLength, s1, s2, s3, s4
<1> HIDE DEF s5
<1>7. /\ FrameLength(f) \in Nat /\ 2 + ExtLength(f) + MaskLength <= FrameLength(f)
      /\ s5[1] = <<f, "op", 0>> /\ s5[2] = <<f, "len", 0>>
  <2>1. FrameLength(f) \in Nat /\ 2 + ExtLength(f) + MaskLength <= FrameLength(f)
    BY <1>0 DEF FrameLength
  <2>2. \A i \in 1..2 : /\ i \in 1..2 + ExtLength(f)
                       /\ i \in 1..2 + ExtLength(f) + MaskLength
    BY <1>0
  <2>3. \A i \in 1..2 : s5[i] = s2[i]
    BY <2>2, <1>3, <1>4, <1>5
  <2>4. 1 \in 1..2 /\ 2 \in 1..2
    OBVIOUS
  <2> QED BY <2>1, <2>3, <2>4, <1>2
<1>8. ASSUME NEW part \in Stages, NEW i \in 0..(PartLength(f, part) - 1)
      PROVE  /\ PartStart(f, part) + i + 1 \in 1..FrameLength(f)
             /\ s5[PartStart(f, part) + i + 1] = <<f, part, i>>
  <2>1. CASE part = "op"
    <3>1. i = 0 /\ PartStart(f, part) = 0
      BY <2>1, <1>0, <1>8 DEF PartLength, PartStart
    <3>2. PartStart(f, part) + i + 1 = 1 /\ 1 \in 1..FrameLength(f)
      BY <3>1, <1>0, <1>7
    <3> QED BY <2>1, <3>1, <3>2, <1>7, Zenon
  <2>2. CASE part = "len"
    <3>1. i = 0 /\ PartStart(f, part) = 1
      BY <2>2, <1>0, <1>8 DEF PartLength, PartStart
    <3>2. PartStart(f, part) + i + 1 = 2 /\ 2 \in 1..FrameLength(f)
      BY <3>1, <1>0, <1>7
    <3> QED BY <2>2, <3>1, <3>2, <1>7, Zenon
  <2>3. CASE part = "ext"
    <3>1. i \in 0..(ExtLength(f) - 1) /\ PartStart(f, part) = 2
      BY <2>3, <1>0, <1>8 DEF PartLength, PartStart
    <3>2. /\ 2 + i + 1 \in 1..2 + ExtLength(f)
          /\ 2 + i + 1 \in 1..2 + ExtLength(f) + MaskLength
          /\ 2 + i + 1 \in 1..FrameLength(f)
      BY <3>1, <1>0, <1>7
    <3>3. s5[2 + i + 1] = s4[2 + i + 1] /\ s4[2 + i + 1] = s3[2 + i + 1]
      BY <3>2, <1>4, <1>5
    <3>4. s3[2 + i + 1] = <<f, "ext", i>>
      BY <3>1, <1>3
    <3> QED BY <2>3, <3>1, <3>2, <3>3, <3>4
  <2>4. CASE part = "mask"
    <3>1. i \in 0..(MaskLength - 1) /\ PartStart(f, part) = 2 + ExtLength(f)
      BY <2>4, <1>0, <1>8 DEF PartLength, PartStart
    <3>2. /\ 2 + ExtLength(f) + i + 1 \in 1..2 + ExtLength(f) + MaskLength
          /\ 2 + ExtLength(f) + i + 1 \in 1..FrameLength(f)
      BY <3>1, <1>0, <1>7
    <3>3. s5[2 + ExtLength(f) + i + 1] = s4[2 + ExtLength(f) + i + 1]
      BY <3>2, <1>5
    <3> QED BY <2>4, <3>1, <3>2, <3>3, <1>4
  <2>5. CASE part = "data"
    <3>1. /\ i \in 0..(Sizes[f] - 1)
          /\ PartStart(f, part) = 2 + ExtLength(f) + MaskLength
      BY <2>5, <1>0, <1>8 DEF PartLength, PartStart
    <3>2. 2 + ExtLength(f) + MaskLength + i + 1 \in 1..FrameLength(f)
      BY <3>1, <1>0 DEF FrameLength
    <3> QED BY <2>5, <3>1, <3>2, <1>5
  <2> QED BY <2>1, <2>2, <2>3, <2>4, <2>5 DEF Stages
<1> QED BY <1>5, <1>6, <1>8

(***************************************************************************)
(* The recursive function Sent is what its definition says, and puts each  *)
(* frame behind the ones before it.                                        *)
(***************************************************************************)
SentNext(before, f) == IF f = 0 THEN <<>> ELSE before \o Frame(f)

SentExists(g, n) ==
  /\ g \in [0..n -> Seq(AnyTag)]
  /\ \A f \in 0..n : g[f] = SentNext(g[f - 1], f)

LEMMA SentTo ==
  ASSUME NEW n \in 1..Len(Sizes), NEW g, SentExists(g, n - 1)
  PROVE  \E h : SentExists(h, n)
<1> DEFINE h == [f \in 0..n |-> IF f = n THEN g[n - 1] \o Frame(n) ELSE g[f]]
<1>1. n \in Nat /\ n - 1 \in 0..(n - 1) /\ n \in Frames
  BY DEF Frames
<1>2. g[n - 1] \in Seq(AnyTag) /\ Frame(n) \in Seq(AnyTag)
  BY <1>1, FrameBytes DEF SentExists
<1>3. g[n - 1] \o Frame(n) \in Seq(AnyTag)
  BY <1>2, ConcatProperties
<1>4. h \in [0..n -> Seq(AnyTag)]
  BY <1>1, <1>3 DEF SentExists
<1>5. ASSUME NEW f \in 0..n
      PROVE  h[f] = SentNext(h[f - 1], f)
  <2>1. CASE f = n
    <3>1. n - 1 \in 0..n /\ n - 1 # n /\ n \in 0..n /\ n # 0
      BY <1>1
    <3>2. h[n] = g[n - 1] \o Frame(n) /\ h[n - 1] = g[n - 1]
      BY <3>1
    <3> HIDE DEF h
    <3> QED BY <2>1, <3>1, <3>2 DEF SentNext
  <2>2. CASE f # n
    <3>1. f \in 0..(n - 1) /\ h[f] = g[f]
      BY <1>1, <2>2
    <3>2. f # 0 => f - 1 \in 0..n /\ h[f - 1] = g[f - 1]
      BY <1>1, <2>2
    <3>3. g[f] = SentNext(g[f - 1], f)
      BY <3>1 DEF SentExists
    <3> QED BY <3>1, <3>2, <3>3 DEF SentNext
  <2> QED BY <2>1, <2>2
<1> HIDE DEF h
<1> QED BY <1>4, <1>5 DEF SentExists

LEMMA SentIs ==
  /\ \A f \in 0..Len(Sizes) : Sent[f] \in Seq(AnyTag)
  /\ Sent[0] = <<>>
  /\ \A f \in Frames : Sent[f] = Sent[f - 1] \o Frame(f)
<1> DEFINE S == {n \in Nat : \E g : SentExists(g, n)}
           Step(g) == [f \in 0..Len(Sizes) |-> SentNext(g[f - 1], f)]
           F == CHOOSE g : g = Step(g)
<1>1. Len(Sizes) \in Nat
  BY FrameAssumption, LenProperties
<1>2. 0 \in S
  <2> DEFINE g == [f \in 0..0 |-> <<>>]
  <2>1. SentExists(g, 0)
    BY EmptySeq DEF SentExists, SentNext
  <2> HIDE DEF g
  <2> QED BY <2>1
<1>3. ASSUME NEW i \in 1..Len(Sizes), i - 1 \in S
      PROVE  i \in S
  BY <1>1, <1>3, SentTo
<1>4. S \in SUBSET Nat
  OBVIOUS
<1> HIDE DEF S
<1>5. Len(Sizes) \in S
  <2>1. 0..Len(Sizes) \subseteq S
    BY <1>1, <1>2, <1>3, <1>4, FirstFailure
  <2> QED BY <1>1, <2>1
<1>6. PICK g : SentExists(g, Len(Sizes))
  BY <1>5 DEF S
<1>7. g = Step(g)
  BY <1>6 DEF SentExists
<1>8. F = Step(F)
  BY <1>7
<1>9. Sent = F
  BY DEF Sent, SentNext
<1> HIDE DEF F
<1>10. \A f \in 0..Len(Sizes) : F[f] = SentNext(F[f - 1], f)
  BY <1>8
<1>11. F[0] = <<>> /\ \A f \in Frames : F[f] = F[f - 1] \o Frame(f)
  <2>1. F[0] = <<>>
    BY <1>1, <1>10 DEF SentNext
  <2>2. ASSUME NEW f \in Frames
        PROVE  F[f] = F[f - 1] \o Frame(f)
    <3>1. f \in 0..Len(Sizes) /\ f # 0
      BY <1>1 DEF Frames
    <3>2. F[f] = SentNext(F[f - 1], f)
      BY <1>10, <3>1
    <3> QED BY <3>1, <3>2 DEF SentNext
  <2> QED BY <2>1, <2>2
<1> DEFINE T == {n \in Nat : F[n] \in Seq(AnyTag)}
<1>12. 0 \in T
  BY <1>11, EmptySeq
<1>13. ASSUME NEW i \in 1..Len(Sizes), i - 1 \in T
       PROVE  i \in T
  <2>1. i \in Frames /\ i \in Nat
    BY DEF Frames
  <2>2. F[i] = F[i - 1] \o Frame(i) /\ F[i - 1] \in Seq(AnyTag)
    BY <1>11, <1>13, <2>1
  <2>3. F[i] \in Seq(AnyTag)
    BY <2>1, <2>2, FrameBytes, ConcatProperties
  <2> QED BY <2>1, <2>3
<1>14. T \in SUBSET Nat
  OBVIOUS
<1> HIDE DEF T
<1>15. 0..Len(Sizes) \subseteq T
  BY <1>1, <1>12, <1>13, <1>14, FirstFailure
<1> QED BY <1>9, <1>11, <1>15 DEF T

(* A frame adds its bytes at the end. *)
LEMMA SentAppends ==
  ASSUME NEW f \in Frames
  PROVE  /\ f - 1 \in 0..Len(Sizes) /\ f \in 0..Len(Sizes)
         /\ Sent[f] \in Seq(AnyTag) /\ Len(Sent[f - 1]) \in Nat /\ Len(Sent[f]) \in Nat
         /\ Len(Sent[f]) = Len(Sent[f - 1]) + FrameLength(f)
         /\ \A i \in 1..Len(Sent[f - 1]) : Sent[f][i] = Sent[f - 1][i]
         /\ \A i \in 1..FrameLength(f) : Sent[f][Len(Sent[f - 1]) + i] = Frame(f)[i]
<1> DEFINE s == Sent[f - 1]
           t == Frame(f)
<1>1. f - 1 \in 0..Len(Sizes) /\ f \in 0..Len(Sizes)
  BY FrameAssumption, LenProperties DEF Frames
<1>2. Sent[f] \in Seq(AnyTag) /\ s \in Seq(AnyTag) /\ Sent[f] = s \o t
  BY <1>1, SentIs
<1>3. t \in Seq(AnyTag) /\ Len(t) = FrameLength(f) /\ FrameLength(f) \in Nat
  BY FrameBytes, SizesAreNumbers
<1> HIDE DEF s, t
<1>4. /\ Len(s) \in Nat /\ Len(s \o t) = Len(s) + Len(t)
      /\ \A i \in 1..Len(s) + Len(t) :
           (s \o t)[i] = IF i <= Len(s) THEN s[i] ELSE t[i - Len(s)]
  BY <1>2, <1>3, ConcatProperties, LenProperties
<1>5. \A i \in 1..Len(s) : (s \o t)[i] = s[i]
  BY <1>3, <1>4
<1>6. ASSUME NEW i \in 1..FrameLength(f)
      PROVE  (s \o t)[Len(s) + i] = t[i]
  <2>1. /\ Len(s) + i \in 1..Len(s) + Len(t) /\ ~(Len(s) + i <= Len(s))
        /\ Len(s) + i - Len(s) = i
    BY <1>3, <1>4
  <2> QED BY <1>4, <2>1
<1>7. Len(Sent[f]) = Len(s) + FrameLength(f) /\ Len(Sent[f]) \in Nat
  BY <1>2, <1>3, <1>4
<1> QED BY <1>1, <1>2, <1>4, <1>5, <1>6, <1>7 DEF s, t

(* What has been sent first stays at the beginning. *)
LEMMA SentGrows ==
  ASSUME NEW f \in 0..Len(Sizes), NEW g \in f..Len(Sizes)
  PROVE  /\ Len(Sent[f]) \in Nat /\ Len(Sent[g]) \in Nat /\ Len(Sent[f]) <= Len(Sent[g])
         /\ \A i \in 1..Len(Sent[f]) : Sent[g][i] = Sent[f][i]
<1> DEFINE Begins(m) ==
             /\ Len(Sent[m]) \in Nat /\ Len(Sent[f]) <= Len(Sent[m])
             /\ \A i \in 1..Len(Sent[f]) : Sent[m][i] = Sent[f][i]
           S == {m \in Nat : m < f \/ Begins(m)}
<1>1. /\ Len(Sizes) \in Nat /\ f \in Nat /\ g \in 0..Len(Sizes) /\ ~(g < f)
      /\ Len(Sent[f]) \in Nat
  BY FrameAssumption, LenProperties, SentIs
<1>2. f \in S
  BY <1>1
<1>3. 0 \in S
  BY <1>1, <1>2
<1>4. ASSUME NEW m \in 1..Len(Sizes), m - 1 \in S
      PROVE  m \in S
  <2>1. m \in Frames /\ m \in Nat
    BY DEF Frames
  <2>2. /\ Len(Sent[m]) \in Nat /\ Len(Sent[m - 1]) \in Nat
        /\ Len(Sent[m - 1]) <= Len(Sent[m])
        /\ \A i \in 1..Len(Sent[m - 1]) : Sent[m][i] = Sent[m - 1][i]
    BY <2>1, SentAppends, SizesAreNumbers
  <2>3. CASE m <= f
    BY <1>2, <2>1, <2>3, <1>1
  <2>4. CASE ~(m <= f)
    <3>1. ~(m - 1 < f)
      BY <1>1, <2>1, <2>4
    <3>2. Begins(m - 1)
      BY <1>4, <3>1
    <3>3. Begins(m)
      BY <1>1, <2>2, <3>2
    <3> QED BY <2>1, <3>3
  <2> QED BY <2>3, <2>4
<1>5. S \in SUBSET Nat
  OBVIOUS
<1> HIDE DEF S
<1>6. g \in S
  <2>1. 0..Len(Sizes) \subseteq S
    BY <1>1, <1>3, <1>4, <1>5, FirstFailure
  <2> QED BY <1>1, <2>1
<1> QED BY <1>1, <1>6 DEF S

(* Where byte i of a part is in what the peer sends. *)
LEMMA ScriptBytes ==
  ASSUME NEW f \in Frames, NEW part \in Stages, NEW i \in 0..(PartLength(f, part) - 1)
  PROVE  /\ Len(Sent[f - 1]) + PartStart(f, part) + i + 1 <= Len(Script)
         /\ Script[Len(Sent[f - 1]) + PartStart(f, part) + i + 1] = <<f, part, i>>
<1> DEFINE k == PartStart(f, part) + i + 1
<1>1. k \in 1..FrameLength(f) /\ Frame(f)[k] = <<f, part, i>> /\ FrameLength(f) \in Nat
  BY FrameBytes, SizesAreNumbers
<1>2. PartStart(f, part) \in Nat /\ PartStart(f, part) + i + 1 = k /\ i \in Nat
  <2>1. i \in Nat
    BY SizesAreNumbers
  <2> QED BY <2>1, SizesAreNumbers DEF PartStart
<1> HIDE DEF k
<1>3. /\ f \in 0..Len(Sizes) /\ Len(Sent[f - 1]) \in Nat /\ Len(Sent[f]) \in Nat
      /\ Len(Sent[f]) = Len(Sent[f - 1]) + FrameLength(f)
      /\ Sent[f][Len(Sent[f - 1]) + k] = <<f, part, i>>
  BY <1>1, SentAppends
<1>4. Len(Sizes) \in f..Len(Sizes)
  BY <1>3, FrameAssumption, LenProperties
<1>5. /\ Len(Script) \in Nat /\ Len(Sent[f]) <= Len(Script)
      /\ \A j \in 1..Len(Sent[f]) : Script[j] = Sent[f][j]
  BY <1>3, <1>4, SentGrows DEF Script
<1>6. Len(Sent[f - 1]) + k \in 1..Len(Sent[f])
  BY <1>1, <1>3
<1>7. /\ Len(Sent[f - 1]) + k <= Len(Script)
      /\ Script[Len(Sent[f - 1]) + k] = <<f, part, i>>
  <2>1. Len(Sent[f - 1]) + k <= Len(Sent[f])
    BY <1>6, <1>3
  <2>2. Len(Sent[f - 1]) + k <= Len(Script)
    BY <1>1, <1>3, <1>5, <2>1
  <2>3. Script[Len(Sent[f - 1]) + k] = Sent[f][Len(Sent[f - 1]) + k]
    BY <1>5, <1>6
  <2> QED BY <1>3, <2>2, <2>3
<1>8. Len(Sent[f - 1]) + k = Len(Sent[f - 1]) + PartStart(f, part) + i + 1
  <2>1. k \in Nat /\ Len(Sent[f - 1]) \in Nat
    BY <1>1, <1>3
  <2> QED BY <1>2, <2>1
<1> QED BY <1>7, <1>8

(* So the peer sends bytes. *)
LEMMA ScriptIsBytes == Script \in Seq(Bytes)
<1> DEFINE S == {n \in Nat : Sent[n] \in Seq(Bytes)}
<1>1. Len(Sizes) \in Nat
  BY FrameAssumption, LenProperties
<1>2. 0 \in S
  BY SentIs, EmptySeq
<1>3. ASSUME NEW i \in 1..Len(Sizes), i - 1 \in S
      PROVE  i \in S
  <2>1. i \in Frames /\ i \in Nat /\ Sent[i - 1] \in Seq(Bytes)
    BY <1>3 DEF Frames
  <2>2. Frame(i) \in Seq(Bytes) /\ Sent[i] = Sent[i - 1] \o Frame(i)
    BY <2>1, SentIs, TagsAssumption
  <2>3. Sent[i] \in Seq(Bytes)
    BY <2>1, <2>2, ConcatProperties
  <2> QED BY <2>1, <2>3
<1>4. S \in SUBSET Nat
  OBVIOUS
<1> HIDE DEF S
<1>5. 0..Len(Sizes) \subseteq S
  BY <1>1, <1>2, <1>3, <1>4, FirstFailure
<1>6. Len(Sizes) \in S
  BY <1>1, <1>5
<1> QED BY <1>6 DEF S, Script

LEMMA ScriptLength == Len(Script) \in Nat
  BY ScriptIsBytes, LenProperties

(***************************************************************************)
(* The reader and its buffer.                                              *)
(***************************************************************************)
SentOK == sent \in 0..Len(Script)

LEMMA SentStep ==
  ASSUME SentOK, [Next]_vars
  PROVE  SentOK'
<1>1. CASE Line
  BY <1>1, ScriptLength DEF Line, SentOK
<1>2. CASE GetData
  BY <1>2 DEF GetData, SentOK
<1>3. CASE Call
  BY <1>3 DEF Call, Poll, Wait, Alive, Read, Take, Parse, SentOK
<1>4. CASE UNCHANGED vars
  BY <1>4 DEF vars, SentOK
<1> QED BY <1>1, <1>2, <1>3, <1>4 DEF Next

(* Every call of timedRead() and handleStream() that touches the socket is *)
(* a TCPClient method.                                                     *)
LEMMA ReaderStep ==
  ASSUME SentOK, [Next]_vars
  PROVE  [BufNext]_streamVars
<1>1. CASE Line
  <2>1. CASE sent < Len(Script) /\ Arrive(Script[sent + 1])
    <3>1. sent + 1 \in 1..Len(Script)
      BY <2>1, ScriptLength DEF SentOK
    <3>2. Script[sent + 1] \in Bytes
      BY <3>1, ScriptIsBytes, ElementOfSeq
    <3> QED BY <2>1, <3>2 DEF BufNext, LineNext
  <2>2. CASE CloseWait \/ Outage \/ Recovery
    BY <2>2 DEF BufNext, LineNext
  <2> QED BY <1>1, <2>1, <2>2 DEF Line
<1>2. CASE GetData
  BY <1>2 DEF GetData, BufNext
<1>3. CASE Poll
  BY <1>3 DEF Poll, BufNext
<1>4. CASE Wait
  BY <1>4 DEF Wait, BufNext
<1>5. CASE Alive
  BY <1>5 DEF Alive, BufNext
<1>6. CASE Read
  BY <1>6 DEF Read, BufNext
<1>7. CASE Take
  BY <1>7 DEF Take, BufNext
<1>8. CASE Parse
  BY <1>8 DEF Parse, BufNext
<1>9. CASE UNCHANGED vars
  BY <1>9 DEF vars
<1> QED
  BY <1>1, <1>2, <1>3, <1>4, <1>5, <1>6, <1>7, <1>8, <1>9 DEF Next, Call

(* What handleStream() takes for frames are the peer's bytes, each once    *)
(* and in order: nothing is lost or doubled between recv() and the parser. *)
THEOREM ReaderReadsAStream == Spec => ImplementsStream
<1>1. Init => SentOK /\ BufInit
  BY ScriptLength DEF Init, SentOK
<1>2. SentOK /\ [Next]_vars => SentOK' /\ [BufNext]_streamVars
  BY SentStep, ReaderStep
<1>3. Spec => BufSpec
  BY <1>1, <1>2, PTL DEF Spec, BufSpec
<1> QED BY <1>3, BufferIsAStream

(***************************************************************************)
(* When connected() closes.                                                *)
(***************************************************************************)
LEMMA EmptyWhenClosed ==
  ASSUME BufTypeOK, ConnectedEffect, open, ~open', up
  PROVE  Buffered \o wire = << >>
<1>1. MustAsk /\ ~CanReceive
  BY DEF ConnectedEffect, streamVars, Available, Receive
<1>2. bufferCount = 0
  BY <1>1 DEF MustAsk
<1>3. Total0 = 0
  BY <1>2, CapAssumption DEF Total0, AtEnd, bufferCount, BufTypeOK
<1>4. wire = << >>
  BY <1>1, <1>3, CapAssumption DEF CanReceive, Room
<1>5. Buffered = << >>
  BY <1>2 DEF Buffered
<1> QED BY <1>4, <1>5

LEMMA ClosingStep ==
  ASSUME BufTypeOK, Next, open, ~open', up
  PROVE  Buffered \o wire = << >>
<1>1. CASE Line
  BY <1>1 DEF Line, Arrive, CloseWait, Outage, Recovery
<1>2. CASE GetData
  BY <1>2, EmptyWhenClosed DEF GetData
<1>3. CASE Poll \/ Read \/ Take
  BY <1>3 DEF Poll, Read, Take, Available, Receive, ReadByte, streamVars
<1>4. CASE Wait \/ Alive \/ Parse
  BY <1>4, EmptyWhenClosed DEF Wait, Alive, Parse
<1> QED BY <1>1, <1>2, <1>3, <1>4 DEF Next, Call

(* While the network is up, connected() closes a socket only after read()  *)
(* has returned everything the chip had received for it.                   *)
THEOREM SocketClosesWhenDrained == Spec => ClosesWhenDrained
<1>1. Init => SentOK /\ BufTypeOK
  BY ScriptLength, BufStart DEF Init, SentOK
<1>2. SentOK /\ BufTypeOK /\ [Next]_vars => SentOK' /\ BufTypeOK'
  BY SentStep, ReaderStep, BufStep
<1>3. BufTypeOK /\ [Next]_vars
        => [open /\ ~open' /\ up => Buffered \o wire = << >>]_vars
  BY ClosingStep
<1> QED BY <1>1, <1>2, <1>3, PTL DEF Spec, ClosesWhenDrained

(***************************************************************************)
(* Types.                                                                  *)
(***************************************************************************)
IInv == TypeOK /\ (pc = "wait" => tries < MaxTries)

ByteOK == byte \in Bytes \cup {None}

LEMMA SizeIsNat ==
  ASSUME NEW b \in Bytes
  PROVE  Sizes[b[1]] \in Nat
<1>1. b[1] \in Frames
  BY TagsAssumption
<1> QED BY <1>1, FrameAssumption, ElementOfSeq DEF Frames

LEMMA DigitIsNat ==
  ASSUME NEW n \in Nat
  PROVE  n \div Base \in Nat /\ n % Base \in Nat
  BY FrameAssumption

LEMMA ShortLengthIsNat ==
  ASSUME ByteOK
  PROVE  ShortLengths \subseteq Nat
<1>1. TooLong \in Nat /\ Extended \in Nat
  BY FrameAssumption DEF TooLong, Extended
<1>2. CASE byte \in Bytes
  <2>1. Sizes[byte[1]] \in Nat
    BY <1>2, SizeIsNat
  <2> QED BY <1>1, <2>1 DEF ShortLengths
<1>3. CASE byte = None
  BY <1>1, <1>3 DEF ShortLengths
<1> QED BY <1>2, <1>3 DEF ByteOK

LEMMA ExtValueIsNat ==
  ASSUME ByteOK, NEW i
  PROVE  ExtValues(i) \subseteq Nat
<1>1. 0..(Base - 1) \subseteq Nat
  BY FrameAssumption
<1>2. CASE IsA("ext", i)
  <2>1. Sizes[byte[1]] \in Nat
    BY <1>2, SizeIsNat DEF IsA, ByteOK
  <2>2. Sizes[byte[1]] \div Base \in Nat /\ Sizes[byte[1]] % Base \in Nat
    BY <2>1, DigitIsNat
  <2> QED BY <1>2, <2>2 DEF ExtValues
<1> QED BY <1>1, <1>2 DEF ExtValues

LEMMA ExtLengthIsInt ==
  ASSUME ByteOK, length \in Int
  PROVE  HighLengths \subseteq Int /\ FullLengths \subseteq Int
<1>1. ExtValues(0) \subseteq Nat /\ ExtValues(1) \subseteq Nat
  BY ExtValueIsNat
<1>2. \A v \in Nat : v * Base \in Int
  BY FrameAssumption
<1> QED BY <1>1, <1>2 DEF HighLengths, FullLengths

LEMMA TextType ==
  ASSUME ByteOK, data \in Seq(Bytes \cup {None})
  PROVE  Text \in Seq(Bytes \cup {None})
<1>1. Unmasked \in Bytes \cup {None}
  BY DEF Unmasked, ByteOK
<1> QED BY <1>1 DEF Text

(* The variables handleStream() works on. *)
ParseTypeOK ==
  /\ pc \in Calls /\ stage \in Stages
  /\ index \in Nat /\ length \in Int
  /\ mask \in [0..(MaskLength - 1) -> Bytes \cup {None}]
  /\ data \in Seq(Bytes \cup {None})
  /\ results \in Seq(Seq(Bytes \cup {None}))
  /\ sync \in {"whole", "cut", "lost"}

LEMMA ReturnType ==
  ASSUME ParseTypeOK, ByteOK, NEW state \in {"whole", "cut", "lost"}, Return(state)
  PROVE  ParseTypeOK' /\ pc' # "wait"
<1>1. NoMask \in [0..(MaskLength - 1) -> Bytes \cup {None}]
  BY DEF NoMask
<1>2. results' \in Seq(Seq(Bytes \cup {None}))
  BY TextType DEF Return, ParseTypeOK
<1> QED BY <1>1, <1>2 DEF Return, Reset, ParseTypeOK, Calls, Stages

LEMMA ResetType ==
  ASSUME ParseTypeOK, Reset, UNCHANGED <<results, sync>>
  PROVE  ParseTypeOK' /\ pc' # "wait"
  BY DEF Reset, NoMask, ParseTypeOK, Calls, Stages

LEMMA ContinueType ==
  ASSUME ParseTypeOK, NEW st \in Stages, NEW n \in Nat, Continue(st, n),
         length' \in Int,
         mask' \in [0..(MaskLength - 1) -> Bytes \cup {None}],
         data' \in Seq(Bytes \cup {None})
  PROVE  ParseTypeOK' /\ pc' # "wait"
  BY DEF Continue, NewSync, ParseTypeOK, Calls

LEMMA ParseType ==
  ASSUME ParseTypeOK, ByteOK, Parse
  PROVE  ParseTypeOK' /\ pc' # "wait"
<1>1. NewSync \in {"whole", "cut", "lost"}
  BY DEF NewSync, ParseTypeOK
<1>2. CASE GiveUp
  <2>1. CASE NoFrame
    BY <1>2, <2>1, ResetType DEF GiveUp
  <2>2. CASE ~NoFrame
    BY <1>2, <2>2, ReturnType DEF GiveUp, ParseTypeOK
  <2> QED BY <2>1, <2>2
<1>3. CASE ParseOp
  <2>1. CASE NoFrame
    BY <1>3, <2>1, ResetType DEF ParseOp
  <2>2. CASE ~NoFrame
    BY <1>3, <2>2, ContinueType DEF ParseOp, ParseTypeOK, Stages
  <2> QED BY <2>1, <2>2
<1>4. CASE ParseLength
  <2>1. PICK l \in ShortLengths :
          IF l = TooLong THEN Return(NewSync)
          ELSE /\ length' = l
               /\ Continue(IF l = Extended THEN "ext" ELSE "mask", 0)
               /\ UNCHANGED <<mask, data>>
    BY <1>4 DEF ParseLength
  <2>2. l \in Int
    BY ShortLengthIsNat
  <2>3. CASE l = TooLong
    BY <1>1, <2>1, <2>3, ReturnType
  <2>4. CASE l # TooLong
    <3>1. (IF l = Extended THEN "ext" ELSE "mask") \in Stages
      BY DEF Stages
    <3> QED BY <2>1, <2>2, <2>4, <3>1, ContinueType DEF ParseTypeOK
  <2> QED BY <2>3, <2>4
<1>5. CASE ParseExt
  <2>1. length' \in Int
    BY <1>5, ExtLengthIsInt DEF ParseExt, ParseTypeOK
  <2> QED BY <1>5, <2>1, ContinueType DEF ParseExt, ParseTypeOK, Stages
<1>6. CASE ParseMask
  <2>1. CASE LastMask /\ length <= 0
    BY <1>1, <1>6, <2>1, ReturnType DEF ParseMask
  <2>2. CASE ~(LastMask /\ length <= 0)
    <3>1. mask' \in [0..(MaskLength - 1) -> Bytes \cup {None}]
      BY <1>6, <2>2 DEF ParseMask, NoMask, ParseTypeOK, ByteOK
    <3>2. \E st \in Stages, n \in Nat : Continue(st, n)
      BY <1>6, <2>2 DEF ParseMask, Stages, ParseTypeOK
    <3> QED BY <1>6, <2>2, <3>1, <3>2, ContinueType DEF ParseMask, ParseTypeOK
  <2> QED BY <2>1, <2>2
<1>7. CASE ParseData
  <2>1. CASE LastByte
    BY <1>1, <1>7, <2>1, ReturnType DEF ParseData
  <2>2. CASE ~LastByte
    <3>1. data' \in Seq(Bytes \cup {None})
      <4>1. Text \in Seq(Bytes \cup {None})
        BY TextType DEF ParseTypeOK
      <4>2. data' = << >> \/ data' = Text
        BY <1>7, <2>2 DEF ParseData
      <4>3. << >> \in Seq(Bytes \cup {None})
        OBVIOUS
      <4>4. CASE data' = << >>
        BY <4>3, <4>4, Zenon
      <4>5. CASE data' = Text
        BY <4>1, <4>5, Zenon
      <4> QED BY <4>2, <4>4, <4>5
    <3>2. /\ Continue("data", index + 1) /\ index + 1 \in Nat /\ "data" \in Stages
          /\ length' = length /\ mask' = mask
      BY <1>7, <2>2 DEF ParseData, ParseTypeOK, Stages
    <3>3. length \in Int /\ mask \in [0..(MaskLength - 1) -> Bytes \cup {None}]
      BY DEF ParseTypeOK
    <3> QED BY <3>1, <3>2, <3>3, ContinueType
  <2> QED BY <2>1, <2>2
<1> QED BY <1>2, <1>3, <1>4, <1>5, <1>6, <1>7 DEF Parse

LEMMA ParseVarsUnchanged ==
  ASSUME ParseTypeOK, UNCHANGED parseVars, pc' \in Calls
  PROVE  ParseTypeOK'
  BY DEF ParseTypeOK, parseVars

LEMMA IInvStep ==
  ASSUME IInv, [Next]_vars
  PROVE  IInv'
<1>1. BufTypeOK' /\ SentOK'
  BY SentStep, ReaderStep, BufStep DEF IInv, TypeOK, SentOK
<1>2. ParseTypeOK /\ ByteOK /\ tries \in 0..MaxTries
  BY DEF IInv, TypeOK, ParseTypeOK, ByteOK
<1>3. MaxTries \in Nat
  BY FrameAssumption
<1>4. ASSUME ParseTypeOK', ByteOK', tries' \in 0..MaxTries,
             pc' = "wait" => tries' < MaxTries
      PROVE  IInv'
  BY <1>1, <1>4 DEF IInv, TypeOK, SentOK, ParseTypeOK, ByteOK
<1>5. CASE Line
  <2>1. UNCHANGED <<pc, tries, byte, parseVars>>
    BY <1>5 DEF Line
  <2> QED BY <1>2, <1>4, <2>1, ParseVarsUnchanged DEF IInv, ParseTypeOK, ByteOK
<1>6. CASE GetData
  BY <1>2, <1>3, <1>4, <1>6, ParseVarsUnchanged DEF GetData, Calls, ByteOK
<1>7. CASE Poll
  BY <1>2, <1>3, <1>4, <1>7, ParseVarsUnchanged DEF Poll, Calls, ByteOK
<1>8. CASE Wait
  <2>1. tries' \in 0..MaxTries
    BY <1>2, <1>3, <1>8 DEF Wait, NextTry, IInv
  <2> QED BY <1>2, <1>4, <1>8, <2>1, ParseVarsUnchanged DEF Wait, Calls, ByteOK
<1>9. CASE Alive \/ Read
  BY <1>2, <1>3, <1>4, <1>9, ParseVarsUnchanged DEF Alive, Read, Calls, ByteOK
<1>10. CASE Take
  <2>1. ByteOK'
    BY <1>2, <1>10, CapAssumption
    DEF Take, ByteOK, IInv, TypeOK, BufTypeOK, bufferCount, Cells
  <2> QED BY <1>2, <1>4, <1>10, <2>1, ParseVarsUnchanged DEF Take, Calls
<1>11. CASE Parse
  BY <1>2, <1>3, <1>4, <1>11, ParseType DEF Parse, ByteOK
<1>12. CASE UNCHANGED vars
  <2>1. UNCHANGED <<pc, tries, byte, parseVars>>
    BY <1>12 DEF vars
  <2> QED BY <1>2, <1>4, <2>1, ParseVarsUnchanged DEF IInv, ParseTypeOK, ByteOK
<1> QED
  BY <1>5, <1>6, <1>7, <1>8, <1>9, <1>10, <1>11, <1>12 DEF Next, Call

LEMMA TypesStart == Init => IInv
<1> SUFFICES ASSUME Init PROVE IInv
  OBVIOUS
<1>1. BufTypeOK /\ SentOK
  BY BufStart, ScriptLength DEF Init, SentOK
<1> QED
  BY <1>1, FrameAssumption DEF Init, IInv, TypeOK, SentOK, NoMask, Calls, Stages

(* Types of the buffer and of the reader: no byte is put outside the array *)
(* and no poll counter exceeds its limit.                                  *)
THEOREM ReaderTypesHold == Spec => []TypeOK
<1>1. Init => IInv
  BY TypesStart
<1>2. IInv /\ [Next]_vars => IInv'
  BY IInvStep
<1>3. IInv => TypeOK
  BY DEF IInv
<1> QED BY <1>1, <1>2, <1>3, PTL DEF Spec

(***************************************************************************)
(* What is on its way to the parser is what the peer sent after what has   *)
(* been read.                                                              *)
(***************************************************************************)
FlowInv ==
  /\ Len(got) + Len(Pending) = sent
  /\ \A i \in 1..Len(Pending) : Pending[i] = Script[Len(got) + i]

LEMMA PendingSeq ==
  ASSUME BufTypeOK
  PROVE  /\ Pending \in Seq(Bytes) /\ Len(Pending) \in Nat
         /\ got \in Seq(Bytes) /\ Len(got) \in Nat
<1>1. Buffered \in Seq(Bytes)
  BY BufferedIsWindow, WindowSeq DEF BufTypeOK
<1>2. wire \in Seq(Bytes) /\ got \in Seq(Bytes)
  BY DEF BufTypeOK
<1>3. Pending \in Seq(Bytes)
  BY <1>1, <1>2, ConcatProperties DEF Pending
<1> QED BY <1>2, <1>3, LenProperties

LEMMA FlowArrives ==
  ASSUME BufTypeOK, SentOK, FlowInv,
         sent < Len(Script), Arrive(Script[sent + 1]), sent' = sent + 1
  PROVE  FlowInv' /\ got' = got
<1>1. sent \in Nat /\ sent + 1 \in 1..Len(Script)
  BY ScriptLength DEF SentOK
<1>2. Script[sent + 1] \in Bytes
  BY <1>1, ScriptIsBytes, ElementOfSeq
<1> DEFINE b == Script[sent + 1]
<1>3. b \in Bytes /\ Stream!Put(b)
  BY <1>2, ArrivePuts
<1>4. Pending' = Append(Pending, b) /\ got' = got
  BY <1>3 DEF Stream!Put, Pending
<1>5. Pending \in Seq(Bytes) /\ Len(Pending) \in Nat /\ Len(got) \in Nat
  BY PendingSeq
<1>6. Len(got) + Len(Pending) = sent
  BY DEF FlowInv
<1>7. b = Script[Len(got) + (Len(Pending) + 1)]
  <2>1. sent + 1 = Len(got) + (Len(Pending) + 1)
    BY <1>5, <1>6
  <2> QED BY <2>1
<1> HIDE DEF b
<1>8. /\ Len(Pending') = Len(Pending) + 1
      /\ \A i \in 1..Len(Pending) : Pending'[i] = Pending[i]
      /\ Pending'[Len(Pending) + 1] = b
  BY <1>3, <1>4, <1>5
<1>9. Len(got) + Len(Pending') = sent'
  BY <1>1, <1>5, <1>6, <1>8
<1>10. ASSUME NEW i \in 1..Len(Pending')
       PROVE  Pending'[i] = Script[Len(got) + i]
  <2>1. CASE i = Len(Pending) + 1
    BY <1>7, <1>8, <2>1
  <2>2. CASE i # Len(Pending) + 1
    <3>1. i \in 1..Len(Pending)
      BY <1>5, <1>8, <2>2
    <3> QED BY <1>8, <3>1 DEF FlowInv
  <2> QED BY <2>1, <2>2
<1> QED BY <1>4, <1>9, <1>10 DEF FlowInv

LEMMA FlowReads ==
  ASSUME BufTypeOK, FlowInv, ReadByte, sent' = sent
  PROVE  /\ FlowInv' /\ Len(got') = Len(got) + 1
         /\ buffer[offset] = Script[Len(got')]
<1> DEFINE q == Pending
<1>1. q \in Seq(Bytes) /\ Len(q) \in Nat /\ got \in Seq(Bytes) /\ Len(got) \in Nat
  BY PendingSeq
<1>2. q # <<>> /\ got' = Append(got, Head(q)) /\ Pending' = Tail(q)
  <2>1. Stream!Get
    BY ReadGets
  <2> QED BY <2>1 DEF Stream!Get, Pending
<1>3. got' = Append(got, buffer[offset])
  BY DEF ReadByte
<1>4. /\ Len(got) + Len(q) = sent
      /\ \A i \in 1..Len(q) : q[i] = Script[Len(got) + i]
  BY DEF FlowInv
<1> HIDE DEF q
<1>5. Len(q) >= 1 /\ Head(q) = q[1] /\ Head(q) \in Bytes
  BY <1>1, <1>2, EmptySeq, HeadTailProperties
<1>6. /\ Len(Tail(q)) = Len(q) - 1
      /\ \A i \in 1..(Len(q) - 1) : Tail(q)[i] = q[i + 1]
  BY <1>1, <1>2, HeadTailProperties
<1>7. /\ Len(got') = Len(got) + 1 /\ got'[Len(got) + 1] = Head(q)
  BY <1>1, <1>2, <1>5
<1>8. got'[Len(got) + 1] = buffer[offset]
  BY <1>1, <1>3
<1>9. buffer[offset] = Script[Len(got')]
  BY <1>1, <1>4, <1>5, <1>7, <1>8
<1>10. Len(got') + Len(Pending') = sent'
  BY <1>1, <1>2, <1>4, <1>5, <1>6, <1>7
<1>11. ASSUME NEW i \in 1..Len(Pending')
       PROVE  Pending'[i] = Script[Len(got') + i]
  <2>1. i \in 1..(Len(q) - 1) /\ i + 1 \in 1..Len(q)
    BY <1>1, <1>2, <1>5, <1>6
  <2>2. Pending'[i] = Script[Len(got) + (i + 1)]
    BY <1>2, <1>4, <1>6, <2>1
  <2>3. Len(got) + (i + 1) = Len(got') + i
    BY <1>1, <1>7, <2>1
  <2> QED BY <2>2, <2>3
<1> QED BY <1>7, <1>9, <1>10, <1>11 DEF FlowInv

(***************************************************************************)
(* The invariant behind ExactFrames.  While no byte has been missed the    *)
(* parser's position is the position of what it reads in the stream, and   *)
(* what it has kept is what those bytes said.                              *)
(***************************************************************************)
Now == Len(results) + 1

ByteInv ==
  /\ byte # None => pc = "parse" /\ byte = Script[Len(got)]
  /\ pc = "idle" => stage = "op"

PlaceInv ==
  /\ Len(results) <= Len(Sizes)
  /\ Len(got) = Len(Sent[Now - 1]) + PartStart(Now, stage) + index
                + (IF byte = None THEN 0 ELSE 1)
  /\ stage # "op" => Now \in Frames
  /\ index \in 0..(PartLength(Now, stage) - 1)

KeptInv ==
  /\ stage = "ext" /\ index = 1 => length = (Sizes[Now] \div Base) * Base
  /\ stage \in {"mask", "data"} => length = Sizes[Now]
  /\ stage = "mask" => \A j \in 0..(index - 1) : mask[j] = <<Now, "mask", j>>
  /\ stage = "data" => \A j \in 0..(MaskLength - 1) : mask[j] = <<Now, "mask", j>>
  /\ data = IF stage = "data" THEN SubSeq(Payload(Now), 1, index) ELSE <<>>

ResultsInv ==
  /\ \A k \in 1..Len(results) :
        \/ results[k] = Payload(k)
        \/ k = Len(results) /\ sync # "whole" /\ Partial(results[k], k)
  /\ sync = "cut" => stage = "op"

ParseInv == ResultsInv /\ (sync = "whole" => PlaceInv /\ KeptInv)

FInv == FlowInv /\ ByteInv /\ ParseInv

(* The buffer may move bytes about; the parser sees none of it. *)
LEMMA FlowKept ==
  ASSUME FlowInv, Keeps, sent' = sent
  PROVE  FlowInv' /\ got' = got
  BY DEF FlowInv, Keeps

LEMMA ParseInvKept ==
  ASSUME ParseInv, UNCHANGED <<got, byte, parseVars>>
  PROVE  ParseInv'
<1>1. /\ got' = got /\ byte' = byte /\ stage' = stage /\ index' = index
      /\ length' = length /\ mask' = mask /\ data' = data /\ results' = results
      /\ sync' = sync
  BY DEF parseVars
<1> QED BY <1>1 DEF ParseInv, ResultsInv, PlaceInv, KeptInv, Now

LEMMA LineExact ==
  ASSUME TypeOK, FInv, Line
  PROVE  FInv'
<1>1. FlowInv /\ ByteInv /\ ParseInv /\ BufTypeOK /\ SentOK
  BY DEF FInv, TypeOK, SentOK
<1>2. pc' = pc /\ byte' = byte /\ UNCHANGED parseVars
  BY DEF Line
<1>3. FlowInv' /\ got' = got
  <2>1. CASE sent < Len(Script) /\ Arrive(Script[sent + 1]) /\ sent' = sent + 1
    BY <1>1, <2>1, FlowArrives
  <2>2. CASE (CloseWait \/ Outage \/ Recovery) /\ sent' = sent
    <3>1. Keeps
      BY <1>1, <2>2, LineKeeps
    <3> QED BY <1>1, <2>2, <3>1, FlowKept
  <2> QED BY <2>1, <2>2 DEF Line
<1>4. ByteInv'
  BY <1>1, <1>2, <1>3 DEF ByteInv, parseVars
<1>5. ParseInv'
  BY <1>1, <1>2, <1>3, ParseInvKept
<1> QED BY <1>3, <1>4, <1>5 DEF FInv

(* The steps of timedRead() before it has a byte. *)
LEMMA AskExact ==
  ASSUME TypeOK, FInv, GetData \/ Poll \/ Wait \/ Alive \/ Read
  PROVE  FInv'
<1>1. FlowInv /\ ByteInv /\ ParseInv /\ BufTypeOK
  BY DEF FInv, TypeOK
<1>2. ConnectedEffect \/ Available \/ UNCHANGED streamVars
  BY DEF GetData, Poll, Wait, Alive, Read
<1>3. Keeps
  <2>1. CASE UNCHANGED streamVars
    BY <1>1, <2>1, UnchangedKeeps DEF streamVars, lineVars, BufTypeOK
  <2> QED BY <1>1, <1>2, <2>1, ConnectedKeeps, AvailableKeeps
<1>4. sent' = sent /\ UNCHANGED parseVars
  BY DEF GetData, Poll, Wait, Alive, Read
<1>5. FlowInv' /\ got' = got
  BY <1>1, <1>3, <1>4, FlowKept
<1>6. byte = None /\ byte' = None
  BY <1>1 DEF GetData, Poll, Wait, Alive, Read, ByteInv
<1>7. pc' = "idle" => pc = "idle"
  BY DEF GetData, Poll, Wait, Alive, Read
<1>8. ByteInv'
  BY <1>1, <1>4, <1>6, <1>7 DEF ByteInv, parseVars
<1>9. ParseInv'
  BY <1>1, <1>4, <1>5, <1>6, ParseInvKept
<1> QED BY <1>5, <1>8, <1>9 DEF FInv

LEMMA PlaceTypes ==
  ASSUME TypeOK, PlaceInv
  PROVE  /\ Len(results) \in Nat /\ Now - 1 = Len(results) /\ Now \in Nat
         /\ Now - 1 \in 0..Len(Sizes)
         /\ Len(Sent[Now - 1]) \in Nat /\ PartStart(Now, stage) \in Nat
         /\ index \in Nat /\ Len(got) \in Nat
<1>1. Len(results) \in Nat /\ index \in Nat /\ Len(got) \in Nat
  <2>1. results \in Seq(Seq(Bytes \cup {None})) /\ BufTypeOK /\ index \in Nat
    BY DEF TypeOK
  <2> QED BY <2>1, LenProperties, PendingSeq
<1>2. Now - 1 = Len(results) /\ Now \in Nat /\ Now - 1 \in 0..Len(Sizes)
  BY <1>1, FrameAssumption, LenProperties DEF Now, PlaceInv
<1>3. Len(Sent[Now - 1]) \in Nat
  BY <1>2, SentIs, LenProperties
<1>4. CASE stage = "op"
  BY <1>1, <1>2, <1>3, <1>4 DEF PartStart
<1>5. CASE stage # "op"
  <2>1. ExtLength(Now) \in Nat /\ MaskLength \in Nat
    BY <1>5, SizesAreNumbers DEF PlaceInv
  <2>2. PartStart(Now, stage) \in Nat
    BY <2>1 DEF PartStart
  <2> QED BY <1>1, <1>2, <1>3, <2>2
<1> QED BY <1>4, <1>5

LEMMA TakeExact ==
  ASSUME TypeOK, FInv, Take
  PROVE  FInv'
<1>1. FlowInv /\ ByteInv /\ ParseInv /\ BufTypeOK
  BY DEF FInv, TypeOK
<1>2. byte = None /\ pc' = "parse" /\ sent' = sent /\ UNCHANGED parseVars
  BY <1>1 DEF Take, ByteInv
<1>3. CASE bufferCount > 0
  <2>1. ReadByte /\ byte' = buffer[offset]
    BY <1>3 DEF Take
  <2>2. FlowInv' /\ Len(got') = Len(got) + 1 /\ byte' = Script[Len(got')]
    BY <1>1, <1>2, <2>1, FlowReads
  <2>3. byte' # None
    <3>1. offset \in offset..(total - 1)
      BY <1>1, <1>3, CapAssumption DEF bufferCount, BufTypeOK
    <3>2. buffer[offset] \in Bytes
      BY <1>1, <3>1 DEF BufTypeOK
    <3> QED BY <2>1, <3>2, BytesAssumption
  <2>4. ByteInv'
    BY <1>2, <2>2 DEF ByteInv
  <2>5. ResultsInv'
    BY <1>1, <1>2 DEF ParseInv, ResultsInv, parseVars
  <2>6. ASSUME sync' = "whole" PROVE PlaceInv' /\ KeptInv'
    <3>1. /\ stage' = stage /\ index' = index /\ length' = length /\ mask' = mask
          /\ data' = data /\ results' = results /\ sync' = sync
      BY <1>2 DEF parseVars
    <3>2. PlaceInv /\ KeptInv
      BY <1>1, <2>6, <3>1 DEF ParseInv
    <3>3. KeptInv'
      BY <3>1, <3>2 DEF KeptInv, Now
    <3>4. Len(got) = Len(Sent[Now - 1]) + PartStart(Now, stage) + index
      <4>1. /\ Len(Sent[Now - 1]) \in Nat /\ PartStart(Now, stage) \in Nat
            /\ index \in Nat
        BY <3>2, PlaceTypes
      <4>2. Len(got) = Len(Sent[Now - 1]) + PartStart(Now, stage) + index + 0
        BY <1>2, <3>2 DEF PlaceInv
      <4> QED BY <4>1, <4>2
    <3>5. Len(got') = Len(Sent[Now - 1]) + PartStart(Now, stage) + index + 1
      BY <2>2, <3>4
    <3>6. PlaceInv'
      BY <2>3, <3>1, <3>2, <3>5 DEF PlaceInv, Now
    <3> QED BY <3>3, <3>6
  <2> QED BY <2>2, <2>4, <2>5, <2>6 DEF FInv, ParseInv
<1>4. CASE ~(bufferCount > 0)
  <2>1. UNCHANGED <<streamVars, byte>>
    BY <1>4 DEF Take
  <2>2. Keeps
    BY <1>1, <2>1, UnchangedKeeps DEF streamVars, lineVars, BufTypeOK
  <2>3. FlowInv' /\ got' = got
    BY <1>1, <1>2, <2>2, FlowKept
  <2>4. ByteInv'
    BY <1>2, <2>1 DEF ByteInv
  <2>5. ParseInv'
    BY <1>1, <1>2, <2>1, <2>3, ParseInvKept
  <2> QED BY <2>3, <2>4, <2>5 DEF FInv
<1> QED BY <1>3, <1>4

(***************************************************************************)
(* The payload of a frame, byte by byte.                                   *)
(***************************************************************************)
LEMMA PayloadBytes ==
  ASSUME NEW f \in Frames
  PROVE  /\ Payload(f) \in Seq(AnyTag) /\ Len(Payload(f)) = Sizes[f]
         /\ \A i \in 1..Sizes[f] : Payload(f)[i] = <<f, "data", i - 1>>
  BY SizesAreNumbers, PartSeq, Zenon DEF Payload, Stages

LEMMA PayloadGrows ==
  ASSUME NEW f \in Frames, NEW n \in 0..(Sizes[f] - 1)
  PROVE  Append(SubSeq(Payload(f), 1, n), <<f, "data", n>>) = SubSeq(Payload(f), 1, n + 1)
<1> DEFINE p == Payload(f)
<1>1. p \in Seq(AnyTag) /\ Len(p) = Sizes[f] /\ Sizes[f] \in Nat
  BY PayloadBytes, SizesAreNumbers
<1>2. n + 1 \in 1..Len(p) /\ n + 1 - 1 = n /\ p[n + 1] = <<f, "data", n + 1 - 1>>
  BY <1>1, PayloadBytes
<1> HIDE DEF p
<1>3. 1 \in 1..Len(p) /\ n + 1 \in 1..Len(p)
  BY <1>1, <1>2
<1>4. SubSeq(p, 1, n + 1) = SubSeq(p, 1, n + 1 - 1) \o <<p[n + 1]>>
  BY <1>1, <1>3, SubSeqRecursiveSecond
<1>5. SubSeq(p, 1, n) \in Seq(AnyTag)
  <2>1. \A i \in 1..n : p[i] \in AnyTag
    BY <1>1, <1>2, ElementOfSeq
  <2> QED BY <1>1, <2>1, SubSeqProperties
<1>6. <<f, "data", n>> \in AnyTag
  BY DEF AnyTag, Stages
<1>7. Append(SubSeq(p, 1, n), <<f, "data", n>>) = SubSeq(p, 1, n) \o <<<<f, "data", n>>>>
  BY <1>5, <1>6, AppendIsConcat
<1> QED BY <1>2, <1>4, <1>7 DEF p

LEMMA PayloadEnds ==
  ASSUME NEW f \in Frames
  PROVE  /\ SubSeq(Payload(f), 1, 0) = <<>>
         /\ SubSeq(Payload(f), 1, Sizes[f]) = Payload(f)
         /\ Sizes[f] = 0 => Payload(f) = <<>>
<1>1. Payload(f) \in Seq(AnyTag) /\ Len(Payload(f)) = Sizes[f]
  BY PayloadBytes
<1>2. SubSeq(Payload(f), 1, 0) = <<>>
  BY SubSeqEmpty
<1>3. SubSeq(Payload(f), 1, Sizes[f]) = Payload(f)
  BY <1>1, SubSeqFull
<1> QED BY <1>2, <1>3

(***************************************************************************)
(* Once the place is lost, results are not about frames any more.          *)
(***************************************************************************)
LEMMA LostExact ==
  ASSUME ParseInv, results' = results, sync' # "whole", sync' = "cut" => stage' = "op"
  PROVE  ParseInv'
  BY DEF ParseInv, ResultsInv

LEMMA ParseFlow ==
  ASSUME TypeOK, FInv, Parse
  PROVE  FlowInv' /\ got' = got
<1>1. Keeps
  BY ConnectedKeeps DEF Parse, TypeOK
<1> QED BY <1>1, FlowKept DEF FInv, Parse

LEMMA ParseByte ==
  ASSUME Parse
  PROVE  ByteInv'
  BY DEF Parse, ByteInv, GiveUp, ParseOp, ParseLength, ParseExt, ParseMask, ParseData,
         Return, Reset, Continue

LEMMA StaysBroken ==
  ASSUME ParseInv, Parse, sync # "whole", sync \in {"whole", "cut", "lost"}
  PROVE  ParseInv'
<1>1. sync = "cut" => stage = "op"
  BY DEF ParseInv, ResultsInv
<1>2. CASE sync = "lost"
  <2>1. NewSync = "lost"
    BY <1>2 DEF NewSync
  <2>2. results' = results /\ sync' = "lost"
    BY <1>2, <2>1 DEF Parse, GiveUp, ParseOp, ParseLength, ParseExt, ParseMask,
                      ParseData, Return, Reset, Continue
  <2> QED BY <2>2, LostExact
<1>3. CASE sync = "cut"
  <2>1. stage = "op" /\ ~Complete
    BY <1>1, <1>3 DEF Complete
  <2>2. CASE NoFrame
    <3>1. Reset /\ results' = results /\ sync' = sync
      BY <2>1, <2>2 DEF Parse, GiveUp, ParseOp
    <3> QED BY <1>3, <3>1, LostExact DEF Reset
  <2>3. CASE ~NoFrame
    <3>1. NewSync = "lost"
      BY <1>3, <2>1 DEF NewSync
    <3>2. results' = results /\ sync' = "lost"
      BY <1>3, <2>1, <2>3, <3>1 DEF Parse, GiveUp, ParseOp, Return, Continue
    <3> QED BY <3>2, LostExact
  <2> QED BY <2>2, <2>3
<1> QED BY <1>2, <1>3

(***************************************************************************)
(* While it is not lost, a byte is what its place says.                    *)
(***************************************************************************)
LEMMA ByteIs ==
  ASSUME TypeOK, FInv, sync = "whole", byte # None
  PROVE  /\ Now \in Frames /\ byte = <<Now, stage, index>>
         /\ Sizes[Now] \in Nat /\ MaskLength \in Nat \ {0} /\ ExtLength(Now) \in {0, 2}
         /\ NewSync = "whole"
<1>1. PlaceInv /\ stage \in Stages
  BY DEF FInv, ParseInv, TypeOK
<1>2. /\ Len(results) \in Nat /\ Now - 1 = Len(results) /\ Now \in Nat
      /\ Now - 1 \in 0..Len(Sizes) /\ Len(Sent[Now - 1]) \in Nat
      /\ PartStart(Now, stage) \in Nat /\ index \in Nat /\ Len(got) \in Nat
  BY <1>1, PlaceTypes
<1>3. Len(got) = Len(Sent[Now - 1]) + PartStart(Now, stage) + index + 1
  BY <1>1 DEF PlaceInv
<1>4. Len(got) <= Len(Script)
  <2>1. Len(got) + Len(Pending) = sent /\ Len(Pending) \in Nat /\ sent \in 0..Len(Script)
    BY PendingSeq DEF FInv, FlowInv, TypeOK
  <2> QED BY <1>2, <2>1, ScriptLength
<1>5. Now \in Frames
  <2>1. CASE stage # "op"
    BY <1>1, <2>1 DEF PlaceInv
  <2>2. CASE stage = "op"
    <3>1. Now - 1 # Len(Sizes)
      <4> SUFFICES ASSUME Now - 1 = Len(Sizes) PROVE FALSE
        OBVIOUS
      <4>1. Len(Sent[Now - 1]) = Len(Script)
        BY DEF Script
      <4> QED BY <1>2, <1>3, <1>4, <4>1
    <3>2. Len(Sizes) \in Nat
      BY FrameAssumption, LenProperties
    <3> QED BY <1>2, <3>1, <3>2 DEF Frames
  <2> QED BY <2>1, <2>2
<1>6. Script[Len(got)] = <<Now, stage, index>>
  <2>1. index \in 0..(PartLength(Now, stage) - 1)
    BY <1>1 DEF PlaceInv
  <2>2. Script[Len(Sent[Now - 1]) + PartStart(Now, stage) + index + 1] = <<Now, stage, index>>
    BY <1>1, <1>5, <2>1, ScriptBytes
  <2> QED BY <1>3, <2>2
<1>7. NewSync = "whole"
  BY DEF NewSync
<1> QED BY <1>5, <1>6, <1>7, SizesAreNumbers DEF FInv, ByteInv, ExtLength

LEMMA KeptText ==
  ASSUME TypeOK, FInv, sync = "whole", stage = "data"
  PROVE  /\ Now \in Frames /\ Sizes[Now] \in Nat /\ length = Sizes[Now]
         /\ index \in 0..(Sizes[Now] - 1)
         /\ data = SubSeq(Payload(Now), 1, index)
         /\ \A j \in 0..(MaskLength - 1) : mask[j] = <<Now, "mask", j>>
<1>1. PlaceInv /\ KeptInv
  BY DEF FInv, ParseInv
<1>2. Now \in Frames
  BY <1>1 DEF PlaceInv
<1>3. index \in 0..(PartLength(Now, "data") - 1)
  BY <1>1 DEF PlaceInv
<1>4. PartLength(Now, "data") = Sizes[Now]
  BY DEF PartLength
<1>5. length = Sizes[Now] /\ data = SubSeq(Payload(Now), 1, index)
  BY <1>1 DEF KeptInv
<1>6. \A j \in 0..(MaskLength - 1) : mask[j] = <<Now, "mask", j>>
  BY <1>1 DEF KeptInv
<1> QED BY <1>2, <1>3, <1>4, <1>5, <1>6, SizesAreNumbers

(* The byte meets the mask byte that the peer used. *)
LEMMA TextIs ==
  ASSUME TypeOK, FInv, sync = "whole", stage = "data", byte # None
  PROVE  Text = SubSeq(Payload(Now), 1, index + 1)
<1>1. byte = <<Now, "data", index>> /\ MaskLength \in Nat \ {0}
  BY ByteIs
<1>2. index \in Nat /\ index \in 0..(Sizes[Now] - 1)
  BY KeptText
<1>3. index % MaskLength \in 0..(MaskLength - 1)
  BY <1>1, <1>2
<1>4. mask[index % MaskLength] = <<Now, "mask", index % MaskLength>>
  BY <1>3, KeptText
<1>5. byte[1] = Now /\ byte[2] = "data" /\ byte[3] = index
  BY <1>1
<1>6. Unmasked = byte
  BY <1>4, <1>5 DEF Unmasked
<1>7. Text = Append(SubSeq(Payload(Now), 1, index), <<Now, "data", index>>)
  BY <1>1, <1>6, KeptText DEF Text
<1> QED BY <1>2, <1>7, KeptText, PayloadGrows

LEMMA CompleteText ==
  ASSUME TypeOK, FInv, sync = "whole", byte # None, Complete
  PROVE  /\ Text = Payload(Now)
         /\ PartStart(Now, stage) + index + 1 = FrameLength(Now)
<1>1. /\ Now \in Frames /\ Sizes[Now] \in Nat /\ MaskLength \in Nat \ {0}
      /\ ExtLength(Now) \in {0, 2}
  BY ByteIs
<1>2. PlaceInv /\ KeptInv
  BY DEF FInv, ParseInv
<1>3. index \in Nat
  BY <1>2, PlaceTypes
<1>4. CASE stage = "data" /\ LastByte
  <2>1. index + 1 = Sizes[Now]
    BY <1>4, KeptText DEF LastByte
  <2>2. Text = Payload(Now)
    BY <1>1, <1>4, <2>1, TextIs, PayloadEnds
  <2>3. PartStart(Now, stage) = 2 + ExtLength(Now) + MaskLength
    BY <1>4 DEF PartStart
  <2> QED BY <1>1, <1>3, <2>1, <2>2, <2>3 DEF FrameLength
<1>5. CASE stage = "mask" /\ LastMask /\ length <= 0
  <2>1. length = Sizes[Now] /\ data = <<>>
    BY <1>2, <1>5 DEF KeptInv
  <2>2. Sizes[Now] = 0
    BY <1>1, <1>5, <2>1
  <2>3. Text = Payload(Now)
    BY <1>1, <1>5, <2>1, <2>2, PayloadEnds DEF Text
  <2>4. PartStart(Now, stage) = 2 + ExtLength(Now) /\ index + 1 = MaskLength
    BY <1>5 DEF PartStart, LastMask
  <2> QED BY <1>1, <1>3, <2>2, <2>3, <2>4 DEF FrameLength
<1> QED BY <1>4, <1>5 DEF Complete

LEMMA BrokenText ==
  ASSUME TypeOK, FInv, sync = "whole", ~NoFrame, ~(Complete /\ byte # None)
  PROVE  Partial(Text, Now)
<1>1. PlaceInv /\ KeptInv
  BY DEF FInv, ParseInv
<1>2. Now \in Frames /\ Sizes[Now] \in Nat
  <2>1. CASE byte # None
    BY <2>1, ByteIs
  <2>2. CASE stage # "op"
    BY <1>1, <2>2, SizesAreNumbers DEF PlaceInv
  <2> QED BY <2>1, <2>2 DEF NoFrame
<1>3. CASE stage # "data"
  <2>1. Text = <<>> /\ 0 \in 0..Sizes[Now]
    BY <1>1, <1>2, <1>3 DEF Text, KeptInv
  <2>2. SubSeq(Payload(Now), 1, 0) = <<>>
    BY <1>2, PayloadEnds
  <2> QED BY <2>1, <2>2 DEF Partial
<1>4. CASE stage = "data" /\ byte = None
  <2>1. Text = Append(SubSeq(Payload(Now), 1, index), None)
    BY <1>4, KeptText, BytesAssumption DEF Text, Unmasked
  <2>2. index \in 0..Sizes[Now]
    BY <1>2, <1>4, KeptText
  <2> QED BY <2>1, <2>2 DEF Partial
<1>5. CASE stage = "data" /\ byte # None
  <2>1. Text = SubSeq(Payload(Now), 1, index + 1)
    BY <1>5, TextIs
  <2>2. index + 1 \in 0..Sizes[Now]
    BY <1>2, <1>5, KeptText
  <2> QED BY <2>1, <2>2 DEF Partial
<1> QED BY <1>3, <1>4, <1>5

(***************************************************************************)
(* handleStream() returns.                                                 *)
(***************************************************************************)
LEMMA ResultsGrow ==
  ASSUME TypeOK, results' = Append(results, Text)
  PROVE  /\ Len(results) \in Nat /\ Len(results') = Now
         /\ \A k \in 1..Len(results) : results'[k] = results[k]
         /\ results'[Now] = Text
<1>1. results \in Seq(Seq(Bytes \cup {None})) /\ Text \in Seq(Bytes \cup {None})
  BY TextType DEF TypeOK, ByteOK
<1>2. Len(results) \in Nat
  BY <1>1, LenProperties
<1> HIDE DEF TypeOK
<1> QED BY <1>1, <1>2 DEF Now

LEMMA CutReturn ==
  ASSUME TypeOK, FInv, sync = "whole", Return("cut"), Partial(Text, Now)
  PROVE  ParseInv'
<1>1. sync' = "cut" /\ stage' = "op" /\ results' = Append(results, Text)
  BY DEF Return, Reset
<1>2. /\ Len(results) \in Nat /\ Len(results') = Now
      /\ \A k \in 1..Len(results) : results'[k] = results[k]
      /\ results'[Now] = Text
  BY <1>1, ResultsGrow
<1>3. \A k \in 1..Len(results) : results[k] = Payload(k)
  BY DEF FInv, ParseInv, ResultsInv
<1>4. ASSUME NEW k \in 1..Len(results')
      PROVE  \/ results'[k] = Payload(k)
             \/ k = Len(results') /\ sync' # "whole" /\ Partial(results'[k], k)
  <2>1. CASE k = Now
    BY <1>1, <1>2, <2>1
  <2>2. CASE k # Now
    <3>1. k \in 1..Len(results)
      BY <1>2, <2>2 DEF Now
    <3> QED BY <1>2, <1>3, <3>1
  <2> QED BY <2>1, <2>2
<1> QED BY <1>1, <1>4 DEF ParseInv, ResultsInv

LEMMA WholeReturn ==
  ASSUME TypeOK, FInv, sync = "whole", byte # None, Complete,
         Return("whole"), got' = got, byte' = None
  PROVE  ParseInv'
<1>1. /\ sync' = "whole" /\ stage' = "op" /\ index' = 0 /\ data' = <<>>
      /\ results' = Append(results, Text)
  BY DEF Return, Reset
<1>2. /\ Len(results) \in Nat /\ Len(results') = Now
      /\ \A k \in 1..Len(results) : results'[k] = results[k]
      /\ results'[Now] = Text
  BY <1>1, ResultsGrow
<1>3. Text = Payload(Now) /\ PartStart(Now, stage) + index + 1 = FrameLength(Now)
  BY CompleteText
<1>4. \A k \in 1..Len(results) : results[k] = Payload(k)
  BY DEF FInv, ParseInv, ResultsInv
<1>5. ASSUME NEW k \in 1..Len(results')
      PROVE  results'[k] = Payload(k)
  <2>1. CASE k = Now
    BY <1>2, <1>3, <2>1
  <2>2. CASE k # Now
    <3>1. k \in 1..Len(results)
      BY <1>2, <2>2 DEF Now
    <3> QED BY <1>2, <1>4, <3>1
  <2> QED BY <2>1, <2>2
<1>6. Now \in Frames /\ PlaceInv
  BY ByteIs DEF FInv, ParseInv
<1>7. Now <= Len(Sizes) /\ Now \in Nat
  BY <1>6, FrameAssumption, LenProperties DEF Frames
<1>8. Len(got) = Len(Sent[Now])
  <2>1. Len(Sent[Now]) = Len(Sent[Now - 1]) + FrameLength(Now)
    BY <1>6, SentAppends
  <2>2. /\ Len(Sent[Now - 1]) \in Nat /\ PartStart(Now, stage) \in Nat
        /\ index \in Nat /\ FrameLength(Now) \in Nat
    BY <1>6, PlaceTypes, SizesAreNumbers
  <2>3. Len(got) = Len(Sent[Now - 1]) + PartStart(Now, stage) + index + 1
    BY <1>6 DEF PlaceInv
  <2> QED BY <1>3, <2>1, <2>2, <2>3
<1>9. Now' - 1 = Now
  BY <1>2, <1>7 DEF Now
<1>10. PartStart(Now', "op") = 0 /\ PartLength(Now', "op") = 1
  BY DEF PartStart, PartLength
<1>11. Len(got') = Len(Sent[Now' - 1]) + PartStart(Now', stage') + index' + 0
  <2>1. Len(Sent[Now]) \in Nat
    BY <1>6, SentAppends
  <2>2. Len(Sent[Now' - 1]) = Len(Sent[Now]) /\ Len(got') = Len(Sent[Now])
    BY <1>8, <1>9
  <2>3. PartStart(Now', stage') = 0
    BY <1>1, <1>10
  <2> QED BY <1>1, <2>1, <2>2, <2>3
<1>12. PlaceInv'
  BY <1>1, <1>2, <1>7, <1>10, <1>11 DEF PlaceInv
<1>13. KeptInv'
  BY <1>1 DEF KeptInv
<1> QED BY <1>1, <1>5, <1>12, <1>13 DEF ParseInv, ResultsInv

(***************************************************************************)
(* handleStream() goes on to the next byte.                                *)
(***************************************************************************)
LEMMA MovesOn ==
  ASSUME TypeOK, FInv, sync = "whole", byte # None, got' = got, byte' = None,
         NEW part, NEW i \in 0..(PartLength(Now, part) - 1), part # "op",
         Continue(part, i), PartStart(Now, part) + i = PartStart(Now, stage) + index + 1,
         KeptInv'
  PROVE  ParseInv'
<1>1. stage' = part /\ index' = i /\ results' = results /\ sync' = "whole"
  BY ByteIs DEF Continue
<1>2. Now' = Now
  BY <1>1 DEF Now
<1>3. PlaceInv /\ ResultsInv
  BY DEF FInv, ParseInv
<1>4. Len(got) = Len(Sent[Now - 1]) + PartStart(Now, stage) + index + 1
  BY <1>3 DEF PlaceInv
<1>5. /\ Len(Sent[Now - 1]) \in Nat /\ PartStart(Now, stage) \in Nat /\ index \in Nat
      /\ i \in Int /\ Now \in Frames
  BY <1>3, PlaceTypes, ByteIs
<1>6. PartStart(Now, part) \in Nat
  BY <1>5, SizesAreNumbers DEF PartStart
<1>7. Len(got) = Len(Sent[Now - 1]) + PartStart(Now, part) + i + 0
  <2>1. Len(got) = Len(Sent[Now - 1]) + (PartStart(Now, stage) + index + 1)
    BY <1>4, <1>5
  <2>2. Len(got) = Len(Sent[Now - 1]) + (PartStart(Now, part) + i)
    BY <2>1
  <2> QED BY <1>5, <1>6, <2>2
<1>8. PlaceInv'
  BY <1>1, <1>2, <1>3, <1>5, <1>7 DEF PlaceInv
<1>9. ResultsInv'
  BY <1>1, <1>3 DEF ResultsInv
<1> QED BY <1>8, <1>9 DEF ParseInv

(* Two digits make the number. *)
LEMMA TwoDigits ==
  ASSUME NEW n \in Nat
  PROVE  (n \div Base) * Base + (n % Base) = n /\ (n \div Base) * Base \in Nat
  BY FrameAssumption

LEMMA LengthGoesOn ==
  ASSUME TypeOK, FInv, sync = "whole", byte # None, got' = got, byte' = None,
         stage = "len", ParseLength
  PROVE  ParseInv'
<1>1. /\ Now \in Frames /\ byte = <<Now, "len", index>> /\ Sizes[Now] \in Nat
      /\ MaskLength \in Nat \ {0}
  BY ByteIs
<1>2. PlaceInv /\ KeptInv
  BY DEF FInv, ParseInv
<1>3. index = 0
  BY <1>2 DEF PlaceInv, PartLength
<1>4. IsA("len", 0) /\ byte[1] = Now
  BY <1>1, <1>3 DEF IsA
<1>5. ShortLengths = {IF IsLong(Now) THEN Extended ELSE Sizes[Now]}
  BY <1>4 DEF ShortLengths
<1> DEFINE l == IF IsLong(Now) THEN Extended ELSE Sizes[Now]
<1>6. l # TooLong /\ (l = Extended <=> IsLong(Now))
  BY <1>1, FrameAssumption DEF IsLong, Extended, TooLong
<1>7. /\ length' = l /\ Continue(IF l = Extended THEN "ext" ELSE "mask", 0)
      /\ mask' = mask /\ data' = data
  BY <1>5, <1>6 DEF ParseLength
<1>8. data = <<>> /\ results' = results /\ Now' = Now
  BY <1>2, <1>7 DEF KeptInv, Continue, Now
<1>9. PartStart(Now, stage) = 1
  BY DEF PartStart
<1>10. CASE IsLong(Now)
  <2>1. Continue("ext", 0)
    BY <1>6, <1>7, <1>10
  <2>2. stage' = "ext" /\ index' = 0
    BY <2>1 DEF Continue
  <2>3. KeptInv'
    BY <1>7, <1>8, <2>2 DEF KeptInv
  <2>4. PartStart(Now, "ext") = 2 /\ 0 \in 0..(PartLength(Now, "ext") - 1)
    BY <1>10 DEF PartStart, PartLength, ExtLength
  <2>5. PartStart(Now, "ext") + 0 = PartStart(Now, stage) + index + 1
    BY <1>3, <1>9, <2>4
  <2> QED BY <2>1, <2>3, <2>4, <2>5, MovesOn
<1>11. CASE ~IsLong(Now)
  <2>1. Continue("mask", 0) /\ length' = Sizes[Now]
    BY <1>6, <1>7, <1>11
  <2>2. stage' = "mask" /\ index' = 0
    BY <2>1 DEF Continue
  <2>3. KeptInv'
    BY <1>7, <1>8, <2>1, <2>2 DEF KeptInv
  <2>4. PartStart(Now, "mask") = 2 /\ 0 \in 0..(PartLength(Now, "mask") - 1)
    BY <1>1, <1>11 DEF PartStart, PartLength, ExtLength
  <2>5. PartStart(Now, "mask") + 0 = PartStart(Now, stage) + index + 1
    BY <1>3, <1>9, <2>4
  <2> QED BY <2>1, <2>3, <2>4, <2>5, MovesOn
<1> QED BY <1>10, <1>11

LEMMA ExtGoesOn ==
  ASSUME TypeOK, FInv, sync = "whole", byte # None, got' = got, byte' = None,
         stage = "ext", ParseExt
  PROVE  ParseInv'
<1>1. /\ Now \in Frames /\ byte = <<Now, "ext", index>> /\ Sizes[Now] \in Nat
      /\ MaskLength \in Nat \ {0} /\ ExtLength(Now) \in {0, 2}
  BY ByteIs
<1>2. PlaceInv /\ KeptInv
  BY DEF FInv, ParseInv
<1>3. ExtLength(Now) = 2 /\ index \in {0, 1}
  <2>1. index \in 0..(ExtLength(Now) - 1)
    BY <1>2 DEF PlaceInv, PartLength
  <2> QED BY <1>1, <2>1
<1>4. IsA("ext", index) /\ byte[1] = Now
  BY <1>1 DEF IsA
<1>5. data = <<>> /\ mask' = mask /\ data' = data /\ PartStart(Now, stage) = 2
  BY <1>2 DEF KeptInv, ParseExt, PartStart
<1>6. CASE index = 0
  <2>1. Continue("ext", 1) /\ length' \in HighLengths
    BY <1>6 DEF ParseExt
  <2>2. stage' = "ext" /\ index' = 1 /\ Now' = Now
    BY <2>1 DEF Continue, Now
  <2>3. ExtValues(0) = {Sizes[Now] \div Base}
    BY <1>4, <1>6 DEF ExtValues
  <2>4. length' = (Sizes[Now] \div Base) * Base
    BY <2>1, <2>3 DEF HighLengths
  <2>5. KeptInv'
    BY <1>5, <2>2, <2>4 DEF KeptInv
  <2>6. PartStart(Now, "ext") = 2 /\ 1 \in 0..(PartLength(Now, "ext") - 1)
    BY <1>3 DEF PartStart, PartLength
  <2>7. PartStart(Now, "ext") + 1 = PartStart(Now, stage) + index + 1
    BY <1>5, <1>6, <2>6
  <2> QED BY <2>1, <2>5, <2>6, <2>7, MovesOn
<1>7. CASE index = 1
  <2>1. Continue("mask", 0) /\ length' \in FullLengths
    BY <1>7 DEF ParseExt
  <2>2. stage' = "mask" /\ index' = 0 /\ Now' = Now
    BY <2>1 DEF Continue, Now
  <2>3. ExtValues(1) = {Sizes[Now] % Base}
    BY <1>4, <1>7 DEF ExtValues
  <2>4. length = (Sizes[Now] \div Base) * Base /\ length \in Nat
    BY <1>1, <1>2, <1>7, TwoDigits DEF KeptInv
  <2>5. length' = length + (Sizes[Now] % Base)
    BY <2>1, <2>3, <2>4 DEF FullLengths
  <2>6. length' = Sizes[Now]
    BY <1>1, <2>4, <2>5, TwoDigits
  <2>7. KeptInv'
    BY <1>5, <2>2, <2>6 DEF KeptInv
  <2>8. PartStart(Now, "mask") = 4 /\ 0 \in 0..(PartLength(Now, "mask") - 1)
    BY <1>1, <1>3 DEF PartStart, PartLength
  <2>9. PartStart(Now, "mask") + 0 = PartStart(Now, stage) + index + 1
    BY <1>5, <1>7, <2>8
  <2> QED BY <2>1, <2>7, <2>8, <2>9, MovesOn
<1> QED BY <1>3, <1>6, <1>7

LEMMA MaskGoesOn ==
  ASSUME TypeOK, FInv, sync = "whole", byte # None, got' = got, byte' = None,
         stage = "mask", ParseMask
  PROVE  ParseInv'
<1>1. /\ Now \in Frames /\ byte = <<Now, "mask", index>> /\ Sizes[Now] \in Nat
      /\ MaskLength \in Nat \ {0} /\ ExtLength(Now) \in {0, 2} /\ NewSync = "whole"
  BY ByteIs
<1>2. PlaceInv /\ KeptInv
  BY DEF FInv, ParseInv
<1>3. CASE LastMask /\ length <= 0
  <2>1. Return("whole") /\ Complete
    BY <1>1, <1>3 DEF ParseMask, Complete
  <2> QED BY <2>1, WholeReturn
<1>4. CASE ~(LastMask /\ length <= 0)
  <2>1. /\ mask' = [mask EXCEPT ![index] = byte]
        /\ IF LastMask THEN Continue("data", 0) ELSE Continue("mask", index + 1)
        /\ length' = length /\ data' = data
    BY <1>1, <1>4 DEF ParseMask
  <2>2. /\ index \in 0..(MaskLength - 1) /\ length = Sizes[Now] /\ data = <<>>
        /\ \A j \in 0..(index - 1) : mask[j] = <<Now, "mask", j>>
    BY <1>2 DEF PlaceInv, KeptInv, PartLength
  <2>3. \A j \in 0..index : mask'[j] = <<Now, "mask", j>>
    <3>1. mask \in [0..(MaskLength - 1) -> Bytes \cup {None}]
      BY DEF TypeOK
    <3>2. ASSUME NEW j \in 0..index
          PROVE  mask'[j] = <<Now, "mask", j>>
      <4>1. j \in 0..(MaskLength - 1)
        BY <1>1, <2>2
      <4>2. mask'[j] = IF j = index THEN byte ELSE mask[j]
        BY <2>1, <2>2, <3>1, <4>1
      <4>3. j # index => j \in 0..(index - 1)
        BY <1>1, <2>2
      <4> QED BY <1>1, <2>2, <4>2, <4>3
    <3> QED BY <3>2
  <2>4. PartStart(Now, stage) = 2 + ExtLength(Now)
    BY DEF PartStart
  <2>5. CASE LastMask
    <3>1. Continue("data", 0) /\ index + 1 = MaskLength
      BY <2>1, <2>5 DEF LastMask
    <3>2. stage' = "data" /\ index' = 0 /\ Now' = Now
      BY <3>1 DEF Continue, Now
    <3>3. SubSeq(Payload(Now), 1, 0) = <<>>
      BY <1>1, PayloadEnds
    <3>4. \A j \in 0..(MaskLength - 1) : mask'[j] = <<Now, "mask", j>>
      BY <1>1, <2>2, <2>3, <3>1
    <3>5. KeptInv'
      BY <2>1, <2>2, <3>2, <3>3, <3>4 DEF KeptInv
    <3>6. /\ PartStart(Now, "data") = 2 + ExtLength(Now) + MaskLength
          /\ PartLength(Now, "data") = Sizes[Now]
      BY DEF PartStart, PartLength
    <3>7. 0 \in 0..(PartLength(Now, "data") - 1)
      BY <1>1, <1>4, <2>2, <2>5, <3>6
    <3>8. PartStart(Now, "data") + 0 = PartStart(Now, stage) + index + 1
      BY <1>1, <2>2, <2>4, <3>1, <3>6
    <3> QED BY <3>1, <3>5, <3>7, <3>8, MovesOn
  <2>6. CASE ~LastMask
    <3>1. Continue("mask", index + 1) /\ index + 1 # MaskLength
      BY <2>1, <2>6 DEF LastMask
    <3>2. stage' = "mask" /\ index' = index + 1 /\ Now' = Now
      BY <3>1 DEF Continue, Now
    <3>3. \A j \in 0..(index' - 1) : mask'[j] = <<Now, "mask", j>>
      BY <1>1, <2>2, <2>3, <3>2
    <3>4. KeptInv'
      BY <2>1, <2>2, <3>2, <3>3 DEF KeptInv
    <3>5. PartStart(Now, "mask") = 2 + ExtLength(Now) /\ PartLength(Now, "mask") = MaskLength
      BY DEF PartStart, PartLength
    <3>6. index + 1 \in 0..(PartLength(Now, "mask") - 1)
      BY <1>1, <2>2, <3>1, <3>5
    <3>7. PartStart(Now, "mask") + (index + 1) = PartStart(Now, stage) + index + 1
      BY <1>1, <2>2, <2>4, <3>5
    <3> QED BY <3>1, <3>4, <3>6, <3>7, MovesOn
  <2> QED BY <2>5, <2>6
<1> QED BY <1>3, <1>4

LEMMA DataGoesOn ==
  ASSUME TypeOK, FInv, sync = "whole", byte # None, got' = got, byte' = None,
         stage = "data", ParseData
  PROVE  ParseInv'
<1>1. /\ Now \in Frames /\ Sizes[Now] \in Nat /\ MaskLength \in Nat \ {0}
      /\ ExtLength(Now) \in {0, 2} /\ NewSync = "whole"
  BY ByteIs
<1>2. /\ index \in 0..(Sizes[Now] - 1) /\ length = Sizes[Now]
      /\ \A j \in 0..(MaskLength - 1) : mask[j] = <<Now, "mask", j>>
  BY KeptText
<1>3. CASE LastByte
  <2>1. Return("whole") /\ Complete
    BY <1>1, <1>3 DEF ParseData, Complete
  <2> QED BY <2>1, WholeReturn
<1>4. CASE ~LastByte
  <2>1. /\ Continue("data", index + 1) /\ data' = Text /\ length' = length
        /\ mask' = mask /\ index + 1 # length
    BY <1>1, <1>4 DEF ParseData, LastByte
  <2>2. stage' = "data" /\ index' = index + 1 /\ Now' = Now
    BY <2>1 DEF Continue, Now
  <2>3. data' = SubSeq(Payload(Now), 1, index + 1)
    BY <2>1, TextIs
  <2>4. KeptInv'
    BY <1>2, <2>1, <2>2, <2>3 DEF KeptInv
  <2>5. /\ PartStart(Now, "data") = 2 + ExtLength(Now) + MaskLength
        /\ PartLength(Now, "data") = Sizes[Now]
    BY DEF PartStart, PartLength
  <2>6. index + 1 \in 0..(PartLength(Now, "data") - 1)
    BY <1>1, <1>2, <2>1, <2>5
  <2>7. PartStart(Now, "data") + (index + 1) = PartStart(Now, stage) + index + 1
    BY <1>1, <1>2, <2>5
  <2> QED BY <2>1, <2>4, <2>6, <2>7, MovesOn
<1> QED BY <1>3, <1>4

LEMMA OpGoesOn ==
  ASSUME TypeOK, FInv, sync = "whole", byte # None, got' = got, byte' = None,
         stage = "op", ParseOp
  PROVE  ParseInv'
<1>1. PlaceInv /\ KeptInv
  BY DEF FInv, ParseInv
<1>2. Continue("len", 0) /\ mask' = mask /\ data' = data /\ length' = length
  BY DEF ParseOp, NoFrame
<1>3. stage' = "len" /\ index' = 0 /\ Now' = Now /\ data = <<>> /\ index = 0
  BY <1>1, <1>2 DEF Continue, Now, KeptInv, PlaceInv, PartLength
<1>4. KeptInv'
  BY <1>2, <1>3 DEF KeptInv
<1>5. /\ PartStart(Now, "len") = 1 /\ PartStart(Now, stage) = 0
      /\ 0 \in 0..(PartLength(Now, "len") - 1)
  BY DEF PartStart, PartLength
<1>6. PartStart(Now, "len") + 0 = PartStart(Now, stage) + index + 1
  BY <1>3, <1>5
<1> QED BY <1>2, <1>4, <1>5, <1>6, MovesOn

(* No byte, and none of the next frame has been read. *)
LEMMA NothingRead ==
  ASSUME TypeOK, FInv, sync = "whole", NoFrame, got' = got, byte' = None,
         Reset, UNCHANGED <<results, sync>>
  PROVE  ParseInv'
<1>1. PlaceInv /\ KeptInv /\ ResultsInv
  BY DEF FInv, ParseInv
<1>2. stage = "op" /\ byte = None /\ index = 0
  BY <1>1 DEF NoFrame, PlaceInv, PartLength
<1>3. /\ stage' = "op" /\ index' = 0 /\ data' = <<>> /\ Now' = Now
      /\ results' = results /\ sync' = sync
  BY DEF Reset, Now
<1>4. PlaceInv'
  BY <1>1, <1>2, <1>3 DEF PlaceInv
<1>5. KeptInv'
  BY <1>3 DEF KeptInv
<1> QED BY <1>1, <1>3, <1>4, <1>5 DEF ParseInv, ResultsInv

LEMMA ParseExact ==
  ASSUME TypeOK, FInv, Parse
  PROVE  FInv'
<1>1. FlowInv' /\ got' = got /\ ByteInv' /\ byte' = None /\ stage \in Stages
      /\ sync \in {"whole", "cut", "lost"} /\ ParseInv
  BY ParseFlow, ParseByte DEF Parse, TypeOK, FInv
<1>2. CASE sync # "whole"
  <2>1. ParseInv'
    BY <1>1, <1>2, StaysBroken
  <2> QED BY <1>1, <2>1 DEF FInv
<1>3. CASE sync = "whole" /\ NoFrame
  <2>1. Reset /\ UNCHANGED <<results, sync>>
    BY <1>3 DEF Parse, GiveUp, ParseOp, NoFrame
  <2>2. ParseInv'
    BY <1>1, <1>3, <2>1, NothingRead
  <2> QED BY <1>1, <2>2 DEF FInv
<1>4. CASE sync = "whole" /\ ~NoFrame /\ GiveUp
  <2>1. CASE Complete /\ byte # None
    <3>1. Return("whole")
      BY <1>4, <2>1 DEF GiveUp
    <3>2. ParseInv'
      BY <1>1, <1>4, <2>1, <3>1, WholeReturn
    <3> QED BY <1>1, <3>2 DEF FInv
  <2>2. CASE ~(Complete /\ byte # None)
    <3>1. Return("cut") /\ Partial(Text, Now)
      BY <1>4, <2>2, BrokenText DEF GiveUp
    <3>2. ParseInv'
      BY <1>4, <3>1, CutReturn
    <3> QED BY <1>1, <3>2 DEF FInv
  <2> QED BY <2>1, <2>2
<1>5. CASE sync = "whole" /\ ~NoFrame /\ byte = None /\ ~GiveUp
  <2>1. stage # "op" /\ NewSync = "lost"
    BY <1>5 DEF NoFrame, NewSync
  <2>2. results' = results /\ sync' = "lost"
    BY <1>5, <2>1 DEF Parse, ParseLength, ParseExt, ParseMask, ParseData, Return, Continue
  <2>3. ParseInv'
    BY <1>1, <2>2, LostExact
  <2> QED BY <1>1, <2>3 DEF FInv
<1>6. CASE sync = "whole" /\ byte # None /\ ~GiveUp
  <2>1. \/ stage = "op"   /\ ParseOp
        \/ stage = "len"  /\ ParseLength
        \/ stage = "ext"  /\ ParseExt
        \/ stage = "mask" /\ ParseMask
        \/ stage = "data" /\ ParseData
    BY <1>6 DEF Parse
  <2>2. ParseInv'
    BY <1>1, <1>6, <2>1, OpGoesOn, LengthGoesOn, ExtGoesOn, MaskGoesOn, DataGoesOn
  <2> QED BY <1>1, <2>2 DEF FInv
<1> QED BY <1>1, <1>2, <1>3, <1>4, <1>5, <1>6

LEMMA FInvStep ==
  ASSUME TypeOK, FInv, [Next]_vars
  PROVE  FInv'
<1>1. CASE UNCHANGED vars
  <2>1. /\ UNCHANGED <<got, byte, parseVars>> /\ sent' = sent /\ pc' = pc
        /\ buffer' = buffer /\ offset' = offset /\ total' = total /\ wire' = wire
    BY <1>1 DEF vars, streamVars, bufVars
  <2>2. ParseInv'
    BY <2>1, ParseInvKept DEF FInv
  <2>3. FlowInv'
    BY <2>1 DEF FInv, FlowInv, Pending, Buffered, bufferCount
  <2>4. ByteInv'
    BY <2>1 DEF FInv, ByteInv, parseVars
  <2> QED BY <2>2, <2>3, <2>4 DEF FInv
<1>2. CASE Line
  BY <1>2, LineExact
<1>3. CASE GetData \/ Poll \/ Wait \/ Alive \/ Read
  BY <1>3, AskExact
<1>4. CASE Take
  BY <1>4, TakeExact
<1>5. CASE Parse
  BY <1>5, ParseExact
<1> QED BY <1>1, <1>2, <1>3, <1>4, <1>5 DEF Next, Call

LEMMA FInvStart ==
  ASSUME Init
  PROVE  FInv
<1>1. got = <<>> /\ byte = None /\ stage = "op" /\ index = 0 /\ results = <<>>
      /\ data = <<>> /\ sync = "whole" /\ sent = 0 /\ pc = "idle"
  BY DEF Init, BufInit
<1>2. Pending = <<>>
  <2>1. Stream!Init
    BY BufStart DEF Init
  <2> QED BY <2>1 DEF Stream!Init, Pending
<1>3. FlowInv
  BY <1>1, <1>2 DEF FlowInv
<1>4. ByteInv /\ ResultsInv
  BY <1>1 DEF ByteInv, ResultsInv
<1>5. Now = 1 /\ Len(results) = 0 /\ Len(got) = 0 /\ Len(Sent[0]) = 0
  BY <1>1, SentIs DEF Now
<1>6. PartStart(Now, stage) = 0 /\ PartLength(Now, stage) = 1
  BY <1>1 DEF PartStart, PartLength
<1>7. Len(Sizes) \in Nat
  BY FrameAssumption, LenProperties
<1>8. PlaceInv
  BY <1>1, <1>5, <1>6, <1>7 DEF PlaceInv
<1>9. KeptInv
  BY <1>1 DEF KeptInv
<1> QED BY <1>3, <1>4, <1>8, <1>9 DEF FInv, ParseInv

(***************************************************************************)
(* Between calls, the frames that have been read are those returned.       *)
(***************************************************************************)
LEMMA AllReturned ==
  ASSUME TypeOK, FInv, sync = "whole", pc = "idle"
  PROVE  Len(results) = Cardinality(FramesRead)
<1> DEFINE r == Len(results)
<1>1. PlaceInv /\ stage = "op" /\ byte = None
  BY DEF FInv, ParseInv, ByteInv
<1>2. /\ r \in Nat /\ Now - 1 = r /\ r \in 0..Len(Sizes)
      /\ Len(Sent[r]) \in Nat /\ Len(got) \in Nat
  BY <1>1, PlaceTypes
<1>3. PartStart(Now, stage) = 0 /\ index = 0
  BY <1>1 DEF PlaceInv, PartStart, PartLength
<1>4. Len(got) = Len(Sent[r])
  BY <1>1, <1>2, <1>3 DEF PlaceInv
<1>5. Len(Sizes) \in Nat
  BY FrameAssumption, LenProperties
<1> HIDE DEF r
<1>6. ASSUME NEW f \in Frames
      PROVE  Len(Sent[f]) <= Len(got) <=> f <= r
  <2>1. f \in Nat /\ f \in 0..Len(Sizes) /\ f - 1 \in 0..Len(Sizes)
    BY <1>5 DEF Frames
  <2>2. CASE f <= r
    <3>1. r \in f..Len(Sizes)
      BY <1>2, <1>5, <2>1, <2>2
    <3> QED BY <1>4, <2>1, <2>2, <3>1, SentGrows
  <2>3. CASE ~(f <= r)
    <3>1. f - 1 \in r..Len(Sizes)
      BY <1>2, <1>5, <2>1, <2>3
    <3>2. Len(Sent[r]) <= Len(Sent[f - 1])
      BY <1>2, <3>1, SentGrows
    <3>3. /\ Len(Sent[f]) = Len(Sent[f - 1]) + FrameLength(f) /\ FrameLength(f) \in Nat \ {0}
          /\ Len(Sent[f - 1]) \in Nat
      BY SentAppends, SizesAreNumbers
    <3> QED BY <1>2, <1>4, <2>3, <3>2, <3>3
  <2> QED BY <2>2, <2>3
<1>7. FramesRead = 1..r
  BY <1>2, <1>5, <1>6 DEF FramesRead, Frames
<1>8. Cardinality(1..r) = r
  BY <1>2, FS_Interval
<1> QED BY <1>7, <1>8 DEF r

(* handleStream() returns each frame's payload, unmasked, once and in      *)
(* order, for all frames, lengths and arrivals, as long as no byte within  *)
(* a frame was waited for in vain.                                         *)
THEOREM FramesReadExactly == Spec => []ExactFrames
<1>1. Init => FInv
  BY FInvStart
<1>2. TypeOK /\ FInv /\ [Next]_vars => FInv'
  BY FInvStep
<1>3. TypeOK /\ FInv => ExactFrames
  BY AllReturned DEF FInv, ParseInv, ResultsInv, ExactFrames
<1> QED BY <1>1, <1>2, <1>3, ReaderTypesHold, PTL DEF Spec

(***************************************************************************)
(* How far a call of getData() is from its end: the stages to come, the    *)
(* bytes left in this one as far as the reader knows, and the steps of     *)
(* timedRead() before it gives this byte up.                               *)
(***************************************************************************)
StagesLeft ==
  IF stage = "op" THEN 4
  ELSE IF stage = "len" THEN 3
  ELSE IF stage = "ext" THEN 2
  ELSE IF stage = "mask" THEN 1 ELSE 0

BytesLeft ==
  IF stage = "ext" THEN 2 - index
  ELSE IF stage = "mask" THEN MaskLength - index
  ELSE IF stage = "data" THEN length - index ELSE 0

StepsLeft ==
  IF pc = "poll" THEN 5 + 2 * (MaxTries - tries)
  ELSE IF pc = "wait" THEN 4 + 2 * (MaxTries - tries)
  ELSE IF pc = "alive" THEN 3
  ELSE IF pc = "read" THEN 2
  ELSE IF pc = "take" THEN 1 ELSE 0

IndexInv ==
  /\ stage = "ext" => index \in {0, 1}
  /\ stage = "mask" => index < MaskLength
  /\ stage = "data" => index < length

Closer ==
  \/ StagesLeft' < StagesLeft
  \/ StagesLeft' = StagesLeft /\ BytesLeft' < BytesLeft
  \/ StagesLeft' = StagesLeft /\ BytesLeft' = BytesLeft /\ StepsLeft' < StepsLeft

(* Three natural numbers, that is, compared in this order. *)
CallsEnd ==
  /\ [](StagesLeft \in Nat /\ BytesLeft \in Nat /\ StepsLeft \in Nat)
  /\ [][/\ Call => pc' = "idle" \/ Closer
        /\ Line => UNCHANGED <<StagesLeft, BytesLeft, StepsLeft>>]_vars

LEMMA VariantTypes ==
  ASSUME IInv, IndexInv
  PROVE  StagesLeft \in Nat /\ BytesLeft \in Nat /\ StepsLeft \in Nat
<1>1. MaskLength \in Nat /\ MaxTries \in Nat
  BY FrameAssumption
<1>2. index \in Nat /\ length \in Int /\ tries \in 0..MaxTries
  BY DEF IInv, TypeOK
<1>3. StagesLeft \in Nat
  BY DEF StagesLeft
<1>4. BytesLeft \in Nat
  BY <1>1, <1>2 DEF BytesLeft, IndexInv
<1>5. StepsLeft \in Nat
  BY <1>1, <1>2 DEF StepsLeft
<1> QED BY <1>3, <1>4, <1>5

(* Each step of timedRead() is nearer to an answer. *)
LEMMA AskComesCloser ==
  ASSUME IInv, IndexInv, Poll \/ Wait \/ Alive \/ Read \/ Take
  PROVE  IndexInv' /\ Closer
<1>1. MaxTries \in Nat /\ tries \in 0..MaxTries
  BY FrameAssumption DEF IInv, TypeOK
<1>2. UNCHANGED parseVars
  BY DEF Poll, Wait, Alive, Read, Take
<1>3. stage' = stage /\ index' = index /\ length' = length
  BY <1>2 DEF parseVars
<1>4. IndexInv' /\ StagesLeft' = StagesLeft /\ BytesLeft' = BytesLeft
  BY <1>3 DEF IndexInv, StagesLeft, BytesLeft
<1>5. CASE Poll
  <2>1. tries' = tries /\ pc = "poll" /\ pc' \in {"wait", "alive"}
    BY <1>5 DEF Poll
  <2> QED BY <1>1, <1>4, <2>1 DEF StepsLeft, Closer
<1>6. CASE Wait
  <2>1. pc = "wait" /\ (pc' = "alive" \/ (pc' = "poll" /\ tries' = tries + 1))
    BY <1>6 DEF Wait, NextTry
  <2>2. tries < MaxTries
    BY <2>1 DEF IInv
  <2> QED BY <1>1, <1>4, <2>1, <2>2 DEF StepsLeft, Closer
<1>7. CASE Alive
  <2>1. pc = "alive" /\ pc' \in {"read", "parse"}
    BY <1>7 DEF Alive
  <2> QED BY <1>4, <2>1 DEF StepsLeft, Closer
<1>8. CASE Read
  <2>1. pc = "read" /\ pc' = "take"
    BY <1>8 DEF Read
  <2> QED BY <1>4, <2>1 DEF StepsLeft, Closer
<1>9. CASE Take
  <2>1. pc \in {"read", "take"} /\ pc' = "parse"
    BY <1>9 DEF Take
  <2> QED BY <1>4, <2>1 DEF StepsLeft, Closer
<1> QED BY <1>5, <1>6, <1>7, <1>8, <1>9

(* handleStream() returns, or has a byte less to read of this part, or     *)
(* begins a later part.                                                    *)
LEMMA ParseComesCloser ==
  ASSUME IInv, IndexInv, Parse
  PROVE  IndexInv' /\ (pc' = "idle" \/ Closer)
<1>1. MaskLength \in Nat \ {0} /\ index \in Nat /\ length \in Int /\ stage \in Stages
  BY FrameAssumption DEF IInv, TypeOK
<1>2. CASE Reset
  BY <1>2 DEF Reset, IndexInv
<1>3. CASE stage = "op" /\ Continue("len", 0)
  BY <1>3 DEF Continue, IndexInv, Closer, StagesLeft
<1>4. CASE stage = "len" /\ (Continue("ext", 0) \/ Continue("mask", 0))
  BY <1>1, <1>4 DEF Continue, IndexInv, Closer, StagesLeft
<1>5. CASE stage = "ext" /\ index = 0 /\ Continue("ext", 1)
  BY <1>5 DEF Continue, IndexInv, Closer, StagesLeft, BytesLeft
<1>6. CASE stage = "ext" /\ Continue("mask", 0)
  BY <1>1, <1>6 DEF Continue, IndexInv, Closer, StagesLeft
<1>7. CASE stage = "mask" /\ ~LastMask /\ Continue("mask", index + 1)
  BY <1>1, <1>7 DEF LastMask, Continue, IndexInv, Closer, StagesLeft, BytesLeft
<1>8. CASE stage = "mask" /\ length' = length /\ ~(length <= 0) /\ Continue("data", 0)
  BY <1>1, <1>8 DEF Continue, IndexInv, Closer, StagesLeft
<1>9. CASE stage = "data" /\ length' = length /\ ~LastByte /\ Continue("data", index + 1)
  BY <1>1, <1>9 DEF LastByte, Continue, IndexInv, Closer, StagesLeft, BytesLeft
<1>10. CASE GiveUp
  BY <1>2, <1>10 DEF GiveUp, Return
<1>11. CASE stage = "op" /\ ParseOp
  BY <1>2, <1>3, <1>11 DEF ParseOp
<1>12. CASE stage = "len" /\ ParseLength
  BY <1>2, <1>4, <1>12 DEF ParseLength, Return
<1>13. CASE stage = "ext" /\ ParseExt
  BY <1>5, <1>6, <1>13 DEF ParseExt
<1>14. CASE stage = "mask" /\ ParseMask
  BY <1>2, <1>7, <1>8, <1>14 DEF ParseMask, Return
<1>15. CASE stage = "data" /\ ParseData
  BY <1>2, <1>9, <1>15 DEF ParseData, Return
<1> QED BY <1>10, <1>11, <1>12, <1>13, <1>14, <1>15 DEF Parse

LEMMA CloserStep ==
  ASSUME IInv, IndexInv, [Next]_vars
  PROVE  /\ IndexInv'
         /\ Call => pc' = "idle" \/ Closer
         /\ Line => UNCHANGED <<StagesLeft, BytesLeft, StepsLeft>>
<1>1. CASE Line
  <2>1. UNCHANGED <<pc, tries, byte, parseVars>>
    BY <1>1 DEF Line
  <2>2. pc' = pc /\ tries' = tries /\ stage' = stage /\ index' = index /\ length' = length
    BY <2>1 DEF parseVars
  <2>3. ~Call \/ pc' = "idle" \/ Closer
    <3>1. CASE Poll \/ Wait \/ Alive \/ Read \/ Take
      BY <3>1, AskComesCloser
    <3>2. CASE Parse
      BY <3>2, ParseComesCloser
    <3> QED BY <3>1, <3>2 DEF Call
  <2> QED BY <2>2, <2>3 DEF IndexInv, StagesLeft, BytesLeft, StepsLeft
<1>2. CASE ~Line /\ Call
  BY <1>2, AskComesCloser, ParseComesCloser DEF Call
<1>3. CASE ~Line /\ ~Call
  <2>1. UNCHANGED parseVars
    BY <1>3 DEF Next, GetData, vars
  <2> QED BY <1>3, <2>1 DEF IndexInv, parseVars
<1> QED BY <1>1, <1>2, <1>3

(* Whatever the peer, the chip and the network do, every step of a call of *)
(* getData() brings it nearer to its end, also when it has lost its place  *)
(* and takes payload for lengths: timedRead() does not poll for ever, and  *)
(* the index meets the length it is compared with.                         *)
THEOREM CallsComeToAnEnd == Spec => CallsEnd
<1>1. Init => IInv /\ IndexInv
  <2> SUFFICES ASSUME Init PROVE IInv /\ IndexInv
    OBVIOUS
  <2>1. IInv
    BY TypesStart
  <2> QED BY <2>1 DEF Init, IndexInv
<1>2. IInv /\ IndexInv /\ [Next]_vars
      => /\ IInv' /\ IndexInv'
         /\ [/\ Call => pc' = "idle" \/ Closer
             /\ Line => UNCHANGED <<StagesLeft, BytesLeft, StepsLeft>>]_vars
  BY IInvStep, CloserStep
<1>3. IInv /\ IndexInv => StagesLeft \in Nat /\ BytesLeft \in Nat /\ StepsLeft \in Nat
  BY VariantTypes
<1> QED BY <1>1, <1>2, <1>3, PTL DEF Spec, CallsEnd
=============================================================================
