------------------------- MODULE FrameWriter_proofs -------------------------
(***************************************************************************)
(* What sendEncodedData() writes is what its header announces, byte by     *)
(* byte, for every short message, and for the long ones whose low length   *)
(* byte is the truth value line 279 puts there.  The run LongReply shows   *)
(* that no other long message is framed right.                             *)
(***************************************************************************)
EXTENDS FrameWriter, Integers, SequenceTheorems, TLAPS

-----------------------------------------------------------------------------
(* Arithmetic of a number written in two digits of base b. *)

(* A number is made of its quotient and its remainder. *)
LEMMA Digits ==
  ASSUME NEW n \in Nat, NEW b \in Nat, b > 0
  PROVE  /\ n \div b \in Nat
         /\ n % b \in 0 .. (b - 1)
         /\ n = b * (n \div b) + (n % b)
  OBVIOUS

(* A number below b * b has a quotient that is a digit. *)
LEMMA HighDigit ==
  ASSUME NEW n \in Nat, NEW b \in Nat, b > 0, n < b * b
  PROVE  (n \div b) % b = n \div b
<1> DEFINE q == n \div b
<1>1. q \in Nat /\ n % b \in 0 .. (b - 1) /\ n = b * q + (n % b)
  BY Digits
<1> HIDE DEF q
<1>2. q < b
  <2>1. SUFFICES ASSUME q >= b PROVE FALSE
    BY <1>1
  <2>2. b * q >= b * b
    BY <1>1, <2>1
  <2> QED
    BY <1>1, <2>2
<1>3. q % b = q
  BY <1>1, <1>2
<1> QED
  BY <1>3 DEF q

-----------------------------------------------------------------------------
(***************************************************************************)
(* The sizes line 279 frames right: strlen(str) && 0xFF is 1, so a long    *)
(* message must leave the remainder 1, and the two bytes must hold it.     *)
(***************************************************************************)
Framable ==
  \A n \in Sizes : n > MaxShort => n % Base = 1 /\ n < Base * Base

TypeOK ==
  /\ up \in BOOLEAN /\ busy \in BOOLEAN /\ dropped \in BOOLEAN
  /\ pos \in Nat /\ need \in Nat
  /\ size \in Nat /\ (busy => size \in Sizes)
  /\ awaits \in {"op", "len", "high", "low", "data"}
  /\ messages \in Seq(Nat) /\ received \in Seq(Nat)

(* The header of the frame in hand is still on its way to the peer. *)
InHeader ==
  /\ messages = Append(received, size)
  /\ pos = 0 => awaits = "op"
  /\ pos = 1 => awaits = "len"
  /\ pos = 2 => awaits = "high"
  /\ pos = 3 => awaits = "low" /\ need = HighByte

(* The peer has read the header and counts the bytes of the payload. *)
InPayload ==
  /\ received = messages
  /\ pos = FrameLength => awaits = "op"
  /\ pos < FrameLength => awaits = "data" /\ need = FrameLength - pos

(* How far the server has written is how far the peer has read. *)
InLockstep ==
  ~dropped =>
    /\ ~busy => awaits = "op" /\ received = messages
    /\ busy => /\ pos <= FrameLength
               /\ pos < Len(Header) => InHeader
               /\ pos >= Len(Header) => InPayload

IInv == TypeOK /\ InLockstep

-----------------------------------------------------------------------------
(* The types of what lines 264 to 280 of websocket.cpp compute. *)
LEMMA HeaderTypes ==
  ASSUME size \in Nat
  PROVE  /\ Len(Header) \in Nat
         /\ FrameLength \in Nat /\ FrameLength = size + Len(Header)
         /\ HighByte \in Nat /\ LowByte \in Nat
<1>1. HighByte \in Nat
  <2>1. Base \in Nat /\ Base > 0
    BY WriterAssumption
  <2>2. size \div Base \in Nat
    BY <2>1, Digits
  <2> QED
    BY <2>1, <2>2, Digits DEF HighByte
<1>2. LowByte \in Nat
  BY DEF LowByte
<1>3. Len(Header) \in Nat
  BY DEF Header
<1> QED
  BY <1>1, <1>2, <1>3 DEF FrameLength

(* The header of a short message is two bytes, of which the second counts. *)
LEMMA ShortHeader ==
  ASSUME size \in Nat, size <= MaxShort
  PROVE  Len(Header) = 2 /\ Header[2] = size
  BY WriterAssumption DEF Header, IsLong

(* The header of a long message is four bytes. *)
LEMMA LongHeader ==
  ASSUME size \in Nat, size > MaxShort
  PROVE  /\ Len(Header) = 4
         /\ Header[2] = Extended
         /\ Header[3] = HighByte
         /\ Header[4] = LowByte
  BY WriterAssumption DEF Header, IsLong

(* A multiple of b above another is at least b above it. *)
LEMMA Multiples ==
  ASSUME NEW b \in Nat, NEW h \in Nat, NEW k \in Nat, h < k
  PROVE  b * h + b <= b * k
<1>1. PICK d \in Nat : k = h + 1 + d
  <2>1. k - h - 1 \in Nat /\ k = h + 1 + (k - h - 1)
    OBVIOUS
  <2> QED
    BY <2>1
<1>2. b * k = b * h + b + b * d /\ b * d \in Nat
  BY <1>1
<1> QED
  BY <1>2

(* The two length bytes of line 279 say what follows exactly when the      *)
(* length leaves remainder 1 and fits in them: the hypothesis of InStep    *)
(* leaves out no length that is announced right.                           *)
THEOREM AnnouncedRight ==
  ASSUME size \in Nat, size > MaxShort
  PROVE  HighByte * Base + LowByte = size <=> size % Base = 1 /\ size < Base * Base
<1>1. Base \in Nat /\ Base > 1 /\ MaxShort \in Nat /\ size # 0
  BY WriterAssumption
<1> DEFINE q == size \div Base
           r == size % Base
           h == HighByte
<1>2. q \in Nat /\ r \in 0 .. (Base - 1) /\ size = Base * q + r
  BY <1>1, Digits
<1>3. h = q % Base /\ LowByte = 1
  BY <1>1 DEF HighByte, LowByte
<1> HIDE DEF q, r, h
<1>4. h \in 0 .. (Base - 1)
  BY <1>1, <1>2, <1>3, Digits
<1>5. ASSUME h * Base + 1 = size
      PROVE  r = 1 /\ size < Base * Base
  <2>1. size = Base * h + 1
    BY <1>1, <1>4, <1>5
  <2>2. ~(h < q)
    <3> SUFFICES ASSUME h < q PROVE FALSE
      OBVIOUS
    <3>1. Base * h + Base <= Base * q
      BY <1>1, <1>2, <1>4, Multiples
    <3>2. Base * h \in Nat /\ Base * q \in Nat
      BY <1>1, <1>2, <1>4
    <3> QED
      BY <1>1, <1>2, <2>1, <3>1, <3>2
  <2>3. ~(q < h)
    <3> SUFFICES ASSUME q < h PROVE FALSE
      OBVIOUS
    <3>1. Base * q + Base <= Base * h
      BY <1>1, <1>2, <1>4, Multiples
    <3>2. Base * h \in Nat /\ Base * q \in Nat
      BY <1>1, <1>2, <1>4
    <3> QED
      BY <1>1, <1>2, <2>1, <3>1, <3>2
  <2>4. r = 1
    <3>1. h = q
      BY <1>2, <1>4, <2>2, <2>3
    <3>2. Base * h = Base * q /\ Base * q \in Nat
      BY <1>1, <1>2, <3>1
    <3> QED
      BY <1>2, <2>1, <3>2
  <2>5. Base * h + Base <= Base * Base
    BY <1>1, <1>4, Multiples
  <2>6. Base * h \in Nat /\ Base * Base \in Nat
    BY <1>1, <1>4
  <2> QED
    BY <1>1, <2>1, <2>4, <2>5, <2>6
<1>6. ASSUME r = 1, size < Base * Base
      PROVE  h * Base + 1 = size
  <2>1. h = q
    BY <1>1, <1>3, <1>6, HighDigit DEF q
  <2> QED
    BY <1>1, <1>2, <1>6, <2>1
<1> QED
  BY <1>3, <1>5, <1>6 DEF r, h

(* The two length bytes of a framable long message name its size. *)
LEMMA LengthBytes ==
  ASSUME Framable, size \in Sizes, size > MaxShort
  PROVE  HighByte * Base + LowByte = size
  BY AnnouncedRight, WriterAssumption DEF Framable

-----------------------------------------------------------------------------
LEMMA InitInv == Init => IInv
<1> SUFFICES ASSUME Init PROVE IInv
  OBVIOUS
<1>1. <<>> \in Seq(Nat)
  BY EmptySeq
<1> QED
  BY <1>1 DEF Init, IInv, TypeOK, InLockstep

(* One byte that reaches the peer takes both of them one step on. *)
LEMMA ByteKeeps ==
  ASSUME Framable, IInv, busy, pos < FrameLength, ~dropped, pos' = pos + 1,
         UNCHANGED <<busy, size, messages, dropped, up>>,
         PeerReads(IF pos < Len(Header) THEN Header[pos + 1] ELSE 0)
  PROVE  IInv'
<1> USE DEF IInv
<1> DEFINE byte == IF pos < Len(Header) THEN Header[pos + 1] ELSE 0
<1>0. PeerReads(byte)
  OBVIOUS
<1> HIDE DEF byte
<1>1. /\ MaxShort \in Nat /\ Base \in Nat /\ Base > 0
      /\ size \in Sizes /\ size \in Nat /\ pos \in Nat /\ need \in Nat
      /\ received \in Seq(Nat) /\ messages \in Seq(Nat)
  BY WriterAssumption DEF TypeOK
<1>2. /\ Len(Header) \in Nat
      /\ FrameLength \in Nat /\ FrameLength = size + Len(Header)
      /\ HighByte \in Nat /\ LowByte \in Nat
  BY <1>1, HeaderTypes
<1>3. /\ Header' = Header /\ FrameLength' = FrameLength
      /\ HighByte' = HighByte
  BY DEF Header, FrameLength, HighByte, LowByte, IsLong
<1>4. /\ pos < Len(Header) => InHeader
      /\ pos >= Len(Header) => InPayload
  BY DEF InLockstep
<1>5. CASE pos = 0
  <2>0. Len(Header) >= 2
    BY <1>1, <1>2, ShortHeader, LongHeader
  <2>1. awaits = "op" /\ messages = Append(received, size)
    BY <1>1, <1>2, <1>4, <1>5, <2>0 DEF InHeader
  <2>2. awaits' = "len" /\ UNCHANGED <<need, received>>
    BY <1>0, <2>1 DEF PeerReads
  <2>3. TypeOK'
    BY <1>1, <2>2 DEF TypeOK
  <2>4. InHeader'
    BY <1>1, <1>5, <2>1, <2>2 DEF InHeader
  <2> QED
    BY <1>1, <1>2, <1>3, <1>5, <2>0, <2>3, <2>4 DEF InLockstep
<1>6. CASE pos = 1 /\ size > MaxShort
  <2>a. Len(Header) = 4 /\ Header[2] = Extended
    BY <1>1, <1>6, LongHeader
  <2>0. byte = Extended
    BY <1>6, <2>a DEF byte
  <2>1. awaits = "len" /\ messages = Append(received, size)
    BY <1>4, <1>6, <2>a DEF InHeader
  <2>2. awaits' = "high" /\ UNCHANGED <<need, received>>
    BY <1>0, <2>0, <2>1 DEF PeerReads
  <2>3. TypeOK'
    BY <1>1, <2>2 DEF TypeOK
  <2>4. InHeader'
    BY <1>1, <1>6, <2>1, <2>2 DEF InHeader
  <2> QED
    BY <1>1, <1>2, <1>3, <1>6, <2>a, <2>3, <2>4 DEF InLockstep
<1>7. CASE pos = 1 /\ size <= MaxShort
  <2>a. Len(Header) = 2 /\ Header[2] = size
    BY <1>1, <1>7, ShortHeader
  <2>0. byte = size
    BY <1>7, <2>a DEF byte
  <2>1. awaits = "len" /\ messages = Append(received, size)
    BY <1>4, <1>7, <2>a DEF InHeader
  <2>2. size # Extended
    BY <1>1, <1>7 DEF Extended
  <2>3. Expect(size) /\ received' = Append(received, size)
    BY <1>0, <2>0, <2>1, <2>2 DEF PeerReads
  <2>4. awaits' = (IF size = 0 THEN "op" ELSE "data") /\ need' = size
    BY <2>3 DEF Expect
  <2>5. TypeOK'
    BY <1>1, <2>1, <2>3, <2>4 DEF TypeOK
  <2>6. InPayload'
    BY <1>1, <1>2, <1>3, <1>7, <2>a, <2>1, <2>3, <2>4 DEF InPayload
  <2> QED
    BY <1>1, <1>2, <1>3, <1>7, <2>a, <2>5, <2>6 DEF InLockstep
<1>8. CASE pos = 2 /\ size > MaxShort
  <2>a. Len(Header) = 4 /\ Header[3] = HighByte
    BY <1>1, <1>8, LongHeader
  <2>0. byte = HighByte
    BY <1>8, <2>a DEF byte
  <2>1. awaits = "high" /\ messages = Append(received, size)
    BY <1>4, <1>8, <2>a DEF InHeader
  <2>2. awaits' = "low" /\ need' = HighByte /\ UNCHANGED received
    BY <1>0, <2>0, <2>1 DEF PeerReads
  <2>3. TypeOK'
    BY <1>1, <1>2, <2>2 DEF TypeOK
  <2>4. InHeader'
    BY <1>1, <1>3, <1>8, <2>a, <2>1, <2>2 DEF InHeader
  <2> QED
    BY <1>1, <1>2, <1>3, <1>8, <2>a, <2>3, <2>4 DEF InLockstep
<1>9. CASE pos = 3 /\ size > MaxShort
  <2>a. Len(Header) = 4 /\ Header[4] = LowByte
    BY <1>1, <1>9, LongHeader
  <2>0. byte = LowByte
    BY <1>9, <2>a DEF byte
  <2>1. /\ awaits = "low" /\ need = HighByte
        /\ messages = Append(received, size)
    BY <1>4, <1>9, <2>a DEF InHeader
  <2>2. need * Base + byte = size
    BY <1>1, <1>9, <2>0, <2>1, LengthBytes
  <2>3. Expect(size) /\ received' = Append(received, size)
    BY <1>0, <2>0, <2>1, <2>2 DEF PeerReads
  <2>4. awaits' = (IF size = 0 THEN "op" ELSE "data") /\ need' = size
    BY <2>3 DEF Expect
  <2>5. TypeOK'
    BY <1>1, <2>1, <2>3, <2>4 DEF TypeOK
  <2>6. InPayload'
    BY <1>1, <1>2, <1>3, <1>9, <2>a, <2>1, <2>3, <2>4 DEF InPayload
  <2> QED
    BY <1>1, <1>2, <1>3, <1>9, <2>a, <2>5, <2>6 DEF InLockstep
<1>10. CASE pos >= Len(Header)
  <2>1. received = messages /\ awaits = "data" /\ need = FrameLength - pos
    BY <1>4, <1>10 DEF InPayload
  <2>2. Expect(need - 1) /\ UNCHANGED received
    BY <1>0, <2>1 DEF PeerReads
  <2>3. /\ awaits' = IF need = 1 THEN "op" ELSE "data"
        /\ need' = need - 1
    BY <1>1, <2>2 DEF Expect
  <2>4. need > 0
    BY <1>1, <1>2, <2>1
  <2>5. TypeOK'
    BY <1>1, <2>2, <2>3, <2>4 DEF TypeOK
  <2>6. InPayload'
    BY <1>1, <1>2, <1>3, <2>1, <2>2, <2>3, <2>4 DEF InPayload
  <2> QED
    BY <1>1, <1>2, <1>3, <1>10, <2>5, <2>6 DEF InLockstep
<1>11. CASE size <= MaxShort
  <2>1. Len(Header) = 2
    BY <1>1, <1>11, ShortHeader
  <2> QED
    BY <1>1, <1>5, <1>7, <1>10, <1>11, <2>1
<1>12. CASE size > MaxShort
  <2>1. Len(Header) = 4
    BY <1>1, <1>12, LongHeader
  <2> QED
    BY <1>1, <1>5, <1>6, <1>8, <1>9, <1>10, <1>12, <2>1
<1> QED
  BY <1>1, <1>11, <1>12

LEMMA NextInv ==
  ASSUME Framable, IInv, [Next]_vars
  PROVE  IInv'
<1> USE DEF IInv
<1>1. ASSUME NEW n \in Sizes, SendData(n) PROVE IInv'
  <2> USE <1>1 DEF SendData
  <2>1. n \in Nat /\ messages \in Seq(Nat)
    BY WriterAssumption DEF TypeOK
  <2>2. TypeOK'
    BY <2>1 DEF TypeOK, peerVars
  <2>3. ~dropped => InHeader'
    BY <2>1 DEF InHeader, InLockstep, peerVars
  <2>4. /\ Len(Header)' \in Nat /\ Len(Header)' > 0
        /\ FrameLength' \in Nat
    BY <2>1 DEF Header, FrameLength
  <2>5. pos' = 0 /\ busy' = TRUE /\ dropped' = dropped
    OBVIOUS
  <2> HIDE <1>1 DEF SendData
  <2> QED
    BY <2>2, <2>3, <2>4, <2>5 DEF InLockstep
<1>2. CASE Write
  <2>1. CASE ~up \/ dropped
    <3>1. dropped' = TRUE /\ UNCHANGED <<awaits, need, received>>
      BY <1>2, <2>1 DEF Write, peerVars
    <3>2. TypeOK'
      BY <1>2, <3>1 DEF Write, TypeOK
    <3> QED
      BY <3>1, <3>2 DEF InLockstep
  <2>2. CASE up /\ ~dropped
    BY <1>2, <2>2, ByteKeeps DEF Write
  <2> QED
    BY <2>1, <2>2
<1>3. CASE Finish
  <2> USE <1>3 DEF Finish
  <2>1. TypeOK'
    BY DEF TypeOK, peerVars
  <2>2. size \in Nat
    BY DEF TypeOK
  <2>3. Len(Header) \in Nat /\ FrameLength >= Len(Header)
    BY <2>2, HeaderTypes
  <2>4. ~dropped => InPayload
    BY <2>2, <2>3 DEF InLockstep
  <2> QED
    BY <2>1, <2>4 DEF InLockstep, InPayload, peerVars
<1>4. CASE LineChanges \/ UNCHANGED vars
  <2>1. /\ UNCHANGED <<busy, size, pos, messages, dropped,
                       awaits, need, received>>
        /\ up' \in BOOLEAN
    BY <1>4 DEF LineChanges, vars, peerVars, TypeOK
  <2>2. TypeOK'
    BY <2>1 DEF TypeOK
  <2>3. InLockstep'
    BY <2>1 DEF InLockstep, InHeader, InPayload, Header, FrameLength,
                HighByte, LowByte, IsLong
  <2> QED
    BY <2>2, <2>3
<1> QED
  BY <1>1, <1>2, <1>3, <1>4 DEF Next

(* Of a sequence and one more element, the sequence is a prefix. *)
LEMMA PrefixOfAppend ==
  ASSUME NEW s \in Seq(Nat), NEW e \in Nat
  PROVE  IsPrefix(s, s) /\ IsPrefix(s, Append(s, e))
<1>1. Append(s, e) \in Seq(Nat) /\ Len(Append(s, e)) = Len(s) + 1
  BY AppendProperties
<1>2. SubSeq(s, 1, Len(s)) = SubSeq(Append(s, e), 1, Len(s))
  OBVIOUS
<1>3. Len(s) \in Nat
  BY LenProperties
<1> QED
  BY <1>1, <1>2, <1>3 DEF IsPrefix

LEMMA InvGivesInStep == IInv => PeerInStep
<1> SUFFICES ASSUME IInv, ~dropped
             PROVE  /\ ~busy => awaits = "op" /\ received = messages
                    /\ IsPrefix(received, messages)
  BY DEF PeerInStep
<1> USE DEF IInv
<1>1. received \in Seq(Nat) /\ size \in Nat
  BY DEF TypeOK
<1>2. received = messages \/ messages = Append(received, size)
  <2>1. pos \in Nat /\ Len(Header) \in Nat
    BY <1>1, HeaderTypes DEF TypeOK
  <2> QED
    BY <2>1 DEF InLockstep, InHeader, InPayload
<1> QED
  BY <1>1, <1>2, PrefixOfAppend DEF InLockstep

(***************************************************************************)
(* As long as no write() has failed, the peer reads exactly the messages   *)
(* sendData() was called with, in order, and both are at a frame's start   *)
(* together: the header sendEncodedData() writes announces the bytes it    *)
(* goes on to write.  Stated for every set of message sizes that line 279  *)
(* frames right, and any number of messages.                               *)
(***************************************************************************)
THEOREM InStep ==
  ASSUME Framable
  PROVE  Spec => []PeerInStep
<1>1. Init => IInv
  BY InitInv
<1>2. IInv /\ [Next]_vars => IInv'
  BY NextInv
<1>3. IInv => PeerInStep
  BY InvGivesInStep
<1> QED
  BY <1>1, <1>2, <1>3, PTL DEF Spec
=============================================================================
