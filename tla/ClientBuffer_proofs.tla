------------------------ MODULE ClientBuffer_proofs ------------------------
(***************************************************************************)
(* The receive side of a TCPClient implements a FIFO of bytes, for every   *)
(* size of the array, every splitting of the data by recv() and any reader. *)
(***************************************************************************)
EXTENDS ClientBuffer, TLAPS, SequenceTheorems

(* Cells o to t - 1 of an array, as a sequence. *)
Window(b, o, t) == [i \in 1..(t - o) |-> b[o + i - 1]]

LEMMA WindowSeq ==
  ASSUME NEW b, NEW t \in Nat, NEW o \in 0..t,
         \A k \in o..(t - 1) : b[k] \in Bytes
  PROVE  /\ Window(b, o, t) \in Seq(Bytes)
         /\ Len(Window(b, o, t)) = t - o
         /\ \A i \in 1..(t - o) : Window(b, o, t)[i] = b[o + i - 1]
<1>1. \A i \in 1..(t - o) : b[o + i - 1] \in Bytes
  OBVIOUS
<1> QED
  BY <1>1 DEF Window

(* recv() moves the first n bytes of the wire to the end of the window. *)
LEMMA WindowReceives ==
  ASSUME NEW b, NEW t \in Nat, NEW o \in 0..t,
         \A k \in o..(t - 1) : b[k] \in Bytes,
         NEW w \in Seq(Bytes), NEW n \in 1..Len(w), NEW nb,
         \A k \in o..(t - 1) : nb[k] = b[k],
         \A k \in t..(t + n - 1) : nb[k] = w[k - t + 1]
  PROVE  /\ \A k \in o..(t + n - 1) : nb[k] \in Bytes
         /\ SubSeq(w, n + 1, Len(w)) \in Seq(Bytes)
         /\ Window(nb, o, t + n) \o SubSeq(w, n + 1, Len(w)) = Window(b, o, t) \o w
<1> DEFINE rest == SubSeq(w, n + 1, Len(w))
           old == Window(b, o, t)
           new == Window(nb, o, t + n)
<1>1. \A i \in 1..Len(w) : w[i] \in Bytes
  BY ElementOfSeq
<1>2. Len(w) \in Nat
  BY LenProperties
<1>3. \A k \in o..(t + n - 1) : nb[k] \in Bytes
  <2> SUFFICES ASSUME NEW k \in o..(t + n - 1) PROVE nb[k] \in Bytes
    OBVIOUS
  <2>1. CASE k < t
    BY <2>1
  <2>2. CASE k >= t
    <3>1. k - t + 1 \in 1..Len(w) /\ nb[k] = w[k - t + 1]
      BY <2>2, <1>2
    <3> QED BY <3>1, <1>1
  <2> QED BY <2>1, <2>2
<1>4. /\ rest \in Seq(Bytes) /\ Len(rest) = Len(w) - n
      /\ \A i \in 1..(Len(w) - n) : rest[i] = w[n + i]
  <2>1. \A i \in (n + 1)..Len(w) : w[i] \in Bytes
    BY <1>1, <1>2
  <2>2. /\ rest \in Seq(Bytes)
        /\ Len(rest) = IF n + 1 <= Len(w) THEN Len(w) - (n + 1) + 1 ELSE 0
        /\ \A i \in 1..(Len(w) - (n + 1) + 1) : rest[i] = w[(n + 1) + i - 1]
    <3>1. n + 1 \in Int /\ Len(w) \in Int
      BY <1>2
    <3> HIDE DEF rest
    <3> QED BY <3>1, <2>1, SubSeqProperties DEF rest
  <2> HIDE DEF rest
  <2> QED BY <2>2, <1>2
<1>5. /\ old \in Seq(Bytes) /\ Len(old) = t - o
      /\ \A i \in 1..(t - o) : old[i] = b[o + i - 1]
  BY WindowSeq
<1>6. /\ new \in Seq(Bytes) /\ Len(new) = t + n - o
      /\ \A i \in 1..(t + n - o) : new[i] = nb[o + i - 1]
  <2>1. t + n \in Nat /\ o \in 0..(t + n)
    BY <1>2
  <2> QED BY <2>1, <1>3, WindowSeq
<1> HIDE DEF rest, old, new
<1>7. /\ new \o rest \in Seq(Bytes)
      /\ Len(new \o rest) = (t + n - o) + (Len(w) - n)
      /\ \A i \in 1..((t + n - o) + (Len(w) - n)) :
           (new \o rest)[i] = IF i <= t + n - o THEN new[i] ELSE rest[i - (t + n - o)]
  <2>1. new \in Seq(Bytes) /\ rest \in Seq(Bytes)
    BY <1>4, <1>6
  <2>2. /\ new \o rest \in Seq(Bytes) /\ Len(new \o rest) = Len(new) + Len(rest)
        /\ \A i \in 1..(Len(new) + Len(rest)) :
             (new \o rest)[i] = IF i <= Len(new) THEN new[i] ELSE rest[i - Len(new)]
    BY <2>1, ConcatProperties
  <2>3. Len(new) = t + n - o /\ Len(rest) = Len(w) - n
    BY <1>4, <1>6
  <2> QED BY <2>2, <2>3
<1>8. /\ old \o w \in Seq(Bytes) /\ Len(old \o w) = (t - o) + Len(w)
      /\ \A i \in 1..((t - o) + Len(w)) :
           (old \o w)[i] = IF i <= t - o THEN old[i] ELSE w[i - (t - o)]
  <2>1. old \in Seq(Bytes) /\ w \in Seq(Bytes)
    BY <1>5
  <2>2. /\ old \o w \in Seq(Bytes) /\ Len(old \o w) = Len(old) + Len(w)
        /\ \A i \in 1..(Len(old) + Len(w)) :
             (old \o w)[i] = IF i <= Len(old) THEN old[i] ELSE w[i - Len(old)]
    BY <2>1, ConcatProperties
  <2>3. Len(old) = t - o
    BY <1>5
  <2> QED BY <2>2, <2>3
<1>9. ASSUME NEW i \in 1..(t - o + Len(w))
      PROVE  (new \o rest)[i] = (old \o w)[i]
  <2>4. /\ i \in Int /\ t + n - o \in Int /\ t - o \in Int
        /\ i \in 1..((t + n - o) + (Len(w) - n))
    BY <1>2
  <2>5. i <= t - o \/ (i > t - o /\ i <= t + n - o) \/ i > t + n - o
    BY <2>4
  <2>1. CASE i <= t - o
    <3>1. old[i] = b[o + i - 1] /\ new[i] = nb[o + i - 1] /\ o + i - 1 \in o..(t - 1)
      BY <2>1, <2>4, <1>5, <1>6
    <3> QED BY <3>1, <2>1, <2>4, <1>7, <1>8
  <2>2. CASE i > t - o /\ i <= t + n - o
    <3>1. new[i] = nb[o + i - 1] /\ o + i - 1 \in t..(t + n - 1)
      BY <2>2, <1>6
    <3>2. nb[o + i - 1] = w[i - (t - o)]
      BY <3>1
    <3>3. (new \o rest)[i] = new[i]
      BY <2>2, <2>4, <1>7
    <3>4. (old \o w)[i] = w[i - (t - o)]
      BY <2>2, <2>4, <1>8
    <3> QED BY <3>1, <3>2, <3>3, <3>4
  <2>3. CASE i > t + n - o
    <3>1. i - (t + n - o) \in 1..(Len(w) - n)
      BY <2>3, <1>2
    <3>2. rest[i - (t + n - o)] = w[i - (t - o)]
      BY <3>1, <1>4
    <3> QED BY <2>3, <2>4, <3>2, <1>7, <1>8
  <2> QED BY <2>1, <2>2, <2>3, <2>5
<1>10. new \o rest = old \o w
  <2>1. Len(new \o rest) = Len(old \o w)
    BY <1>2, <1>7, <1>8
  <2> QED BY <2>1, <1>7, <1>8, <1>9, SeqEqual
<1> QED
  BY <1>3, <1>4, <1>10 DEF rest, old, new

Reads(q, x, rest) == q # << >> /\ Head(q) = x /\ Tail(q) = rest

(* read() takes the head of what is between the reader and the peer. *)
LEMMA WindowReads ==
  ASSUME NEW b, NEW t \in Nat, NEW o \in 0..(t - 1),
         \A k \in o..(t - 1) : b[k] \in Bytes,
         NEW w \in Seq(Bytes), NEW nb,
         \A k \in (o + 1)..(t - 1) : nb[k] = b[k]
  PROVE  Reads(Window(b, o, t) \o w, b[o], Window(nb, o + 1, t) \o w)
<1> DEFINE old == Window(b, o, t)
           new == Window(nb, o + 1, t)
           q == old \o w
<1>0. o \in 0..t /\ t - o \in Nat /\ t - o - 1 \in Nat
  OBVIOUS
<1>1. /\ old \in Seq(Bytes) /\ Len(old) = t - o
      /\ \A i \in 1..(t - o) : old[i] = b[o + i - 1]
  BY <1>0, WindowSeq
<1>2. /\ new \in Seq(Bytes) /\ Len(new) = t - o - 1
      /\ \A i \in 1..(t - o - 1) : new[i] = b[o + i]
  <2>1. o + 1 \in 0..t /\ \A k \in (o + 1)..(t - 1) : nb[k] \in Bytes
    OBVIOUS
  <2>2. /\ new \in Seq(Bytes) /\ Len(new) = t - (o + 1)
        /\ \A i \in 1..(t - (o + 1)) : new[i] = nb[(o + 1) + i - 1]
    BY <2>1, WindowSeq
  <2> HIDE DEF new
  <2> QED BY <2>2
<1> HIDE DEF old, new
<1>3. Len(w) \in Nat
  BY LenProperties
<1> HIDE DEF q
<1>4. /\ q \in Seq(Bytes) /\ Len(q) = t - o + Len(w)
      /\ \A i \in 1..(t - o + Len(w)) :
           q[i] = IF i <= t - o THEN old[i] ELSE w[i - (t - o)]
  <2>1. old \in Seq(Bytes) /\ w \in Seq(Bytes)
    BY <1>1
  <2>2. /\ old \o w \in Seq(Bytes) /\ Len(old \o w) = Len(old) + Len(w)
        /\ \A i \in 1..(Len(old) + Len(w)) :
             (old \o w)[i] = IF i <= Len(old) THEN old[i] ELSE w[i - Len(old)]
    BY <2>1, ConcatProperties
  <2>3. Len(old) = t - o
    BY <1>1
  <2> QED BY <2>2, <2>3 DEF q
<1>5. /\ new \o w \in Seq(Bytes) /\ Len(new \o w) = t - o - 1 + Len(w)
      /\ \A i \in 1..(t - o - 1 + Len(w)) :
           (new \o w)[i] = IF i <= t - o - 1 THEN new[i] ELSE w[i - (t - o - 1)]
  <2>1. new \in Seq(Bytes) /\ w \in Seq(Bytes)
    BY <1>2
  <2>2. /\ new \o w \in Seq(Bytes) /\ Len(new \o w) = Len(new) + Len(w)
        /\ \A i \in 1..(Len(new) + Len(w)) :
             (new \o w)[i] = IF i <= Len(new) THEN new[i] ELSE w[i - Len(new)]
    BY <2>1, ConcatProperties
  <2>3. Len(new) = t - o - 1
    BY <1>2
  <2> QED BY <2>2, <2>3
<1>6. q # << >>
  BY <1>3, <1>4, EmptySeq
<1>7. Head(q) = q[1]
  BY <1>4, <1>6
<1>8. q[1] = b[o]
  BY <1>1, <1>3, <1>4
<1>9. /\ Tail(q) \in Seq(Bytes) /\ Len(Tail(q)) = Len(q) - 1
      /\ \A i \in 1..Len(Tail(q)) : Tail(q)[i] = q[i + 1]
  BY <1>4, <1>6, HeadTailProperties
<1>10. ASSUME NEW i \in 1..Len(Tail(q))
       PROVE  Tail(q)[i] = (new \o w)[i]
  <2>1. i + 1 \in 1..(t - o + Len(w)) /\ i \in 1..(t - o - 1 + Len(w))
    BY <1>3, <1>4, <1>9
  <2>4. i \in Int /\ i + 1 \in Int /\ t - o \in Int
    BY <2>1, <1>0, <1>3, <1>4, <1>9
  <2>2. CASE i + 1 <= t - o
    BY <2>1, <2>2, <1>1, <1>2, <1>4, <1>5, <1>9
  <2>3. CASE i + 1 > t - o
    <3>1. Tail(q)[i] = w[(i + 1) - (t - o)]
      BY <2>1, <2>3, <1>4, <1>9
    <3>2. (new \o w)[i] = w[i - (t - o - 1)]
      BY <2>1, <2>3, <1>3, <1>5
    <3>3. (i + 1) - (t - o) = i - (t - o - 1)
      BY <2>1, <1>3
    <3> QED BY <3>1, <3>2, <3>3
  <2>5. i + 1 <= t - o \/ i + 1 > t - o
    BY <2>4
  <2> QED BY <2>2, <2>3, <2>5
<1>11. Tail(q) = new \o w
  <2>1. Len(Tail(q)) = Len(new \o w)
    BY <1>3, <1>4, <1>5, <1>9
  <2> QED BY <2>1, <1>5, <1>9, <1>10, SeqEqual
<1> QED
  BY <1>6, <1>7, <1>8, <1>11 DEF q, old, new, Reads

(***************************************************************************)
(* The steps of a TCPClient.                                               *)
(***************************************************************************)
Pending == Buffered \o wire

Keeps == BufTypeOK' /\ Pending' = Pending /\ got' = got

LEMMA BufferedIsWindow ==
  /\ Buffered = Window(buffer, offset, total)
  /\ Buffered' = Window(buffer', offset', total')
  BY DEF Buffered, Window, bufferCount

(* "At EOB => Flush it" drops nothing. *)
LEMMA FlushKeeps ==
  ASSUME BufTypeOK
  PROVE  /\ Total0 \in 0..Cap /\ Offset0 \in 0..Total0
         /\ \A k \in Offset0..(Total0 - 1) : buffer[k] \in Bytes
         /\ Window(buffer, Offset0, Total0) = Buffered
<1>1. CASE AtEnd
  <2>1. Total0 = 0 /\ Offset0 = 0 /\ total - offset = 0
    BY <1>1, CapAssumption DEF Total0, Offset0, AtEnd, BufTypeOK
  <2>2. 1..(Total0 - Offset0) = {} /\ 1..(total - offset) = {}
    BY <2>1
  <2> QED BY <2>1, <2>2, CapAssumption DEF Window, Buffered, bufferCount
<1>2. CASE ~AtEnd
  BY <1>2, BufferedIsWindow DEF Total0, Offset0, BufTypeOK
<1> QED BY <1>1, <1>2

LEMMA UnchangedKeeps ==
  ASSUME BufTypeOK, UNCHANGED <<wire, bufVars, got>>,
         up' \in BOOLEAN, open' \in BOOLEAN, active' \in BOOLEAN
  PROVE  Keeps
  BY DEF Keeps, Pending, BufTypeOK, Buffered, bufferCount, bufVars

LEMMA FlushedKeeps ==
  ASSUME BufTypeOK, offset' = Offset0, total' = Total0,
         UNCHANGED <<wire, buffer, got>>,
         up' \in BOOLEAN, open' \in BOOLEAN, active' \in BOOLEAN
  PROVE  Keeps
<1>1. BufTypeOK'
  BY FlushKeeps DEF BufTypeOK
<1>2. Buffered' = Buffered
  BY FlushKeeps, BufferedIsWindow
<1> QED BY <1>1, <1>2 DEF Keeps, Pending

LEMMA ReceiveKeeps ==
  ASSUME BufTypeOK, CanReceive, NEW n \in 1..Lesser(Room, Len(wire)), Receive(n)
  PROVE  Keeps
<1>1. Len(wire) \in Nat /\ \A i \in 1..Len(wire) : wire[i] \in Bytes
  BY ElementOfSeq, LenProperties DEF BufTypeOK
<1>2. n \in 1..Len(wire) /\ Total0 + n <= Cap
  BY <1>1, FlushKeeps, CapAssumption DEF Lesser, Room
<1>3. /\ Total0 \in Nat /\ Offset0 \in 0..Total0 /\ Total0 - 1 < Cap
      /\ \A k \in Offset0..(Total0 - 1) : buffer[k] \in Bytes
  BY FlushKeeps, CapAssumption
<1>4. /\ \A k \in Offset0..(Total0 - 1) : Received(n)[k] = buffer[k]
      /\ \A k \in Total0..(Total0 + n - 1) : Received(n)[k] = wire[k - Total0 + 1]
  <2>1. \A k \in Offset0..(Total0 + n - 1) : k \in Cells
    BY <1>2, <1>3, CapAssumption DEF Cells
  <2>2. \A k \in Offset0..(Total0 - 1) :
          k \in Offset0..(Total0 + n - 1) /\ k \notin Total0..(Total0 + n - 1)
    BY <1>1, <1>2, <1>3
  <2>3. \A k \in Total0..(Total0 + n - 1) : k \in Offset0..(Total0 + n - 1)
    BY <1>1, <1>2, <1>3
  <2> QED BY <2>1, <2>2, <2>3 DEF Received
<1>5. /\ \A k \in Offset0..(Total0 + n - 1) : Received(n)[k] \in Bytes
      /\ SubSeq(wire, n + 1, Len(wire)) \in Seq(Bytes)
      /\ Window(Received(n), Offset0, Total0 + n) \o SubSeq(wire, n + 1, Len(wire))
           = Window(buffer, Offset0, Total0) \o wire
  <2> DEFINE old == buffer
             new == Received(n)
             top == Total0
             low == Offset0
  <2>1. /\ top \in Nat /\ low \in 0..top /\ wire \in Seq(Bytes) /\ n \in 1..Len(wire)
        /\ \A k \in low..(top - 1) : old[k] \in Bytes
        /\ \A k \in low..(top - 1) : new[k] = old[k]
        /\ \A k \in top..(top + n - 1) : new[k] = wire[k - top + 1]
    BY <1>2, <1>3, <1>4 DEF BufTypeOK
  <2> HIDE DEF old, new, top, low
  <2>2. /\ \A k \in low..(top + n - 1) : new[k] \in Bytes
        /\ SubSeq(wire, n + 1, Len(wire)) \in Seq(Bytes)
        /\ Window(new, low, top + n) \o SubSeq(wire, n + 1, Len(wire))
             = Window(old, low, top) \o wire
    BY <2>1, WindowReceives
  <2> QED
    BY <2>2 DEF old, new, top, low
<1>6. Received(n) \in [Cells -> Bytes \cup {None}]
  <2> SUFFICES ASSUME NEW k \in Cells
               PROVE  (IF k \in Total0..(Total0 + n - 1) THEN wire[k - Total0 + 1]
                       ELSE buffer[k]) \in Bytes \cup {None}
    BY DEF Received
  <2>1. CASE k \in Total0..(Total0 + n - 1)
    <3>1. k - Total0 + 1 \in 1..Len(wire)
      BY <2>1, <1>1, <1>2, <1>3
    <3> QED BY <2>1, <3>1, <1>1
  <2>2. CASE k \notin Total0..(Total0 + n - 1)
    BY <2>2 DEF BufTypeOK
  <2> QED BY <2>1, <2>2
<1>7. BufTypeOK'
  <2>1. total' \in 0..Cap /\ offset' \in 0..total'
    BY <1>2, <1>3, CapAssumption DEF Receive
  <2>2. \A k \in offset'..(total' - 1) : buffer'[k] \in Bytes
    <3>1. offset' = Offset0 /\ total' = Total0 + n /\ buffer' = Received(n)
      BY DEF Receive
    <3>2. \A k \in Offset0..(Total0 + n - 1) : Received(n)[k] \in Bytes
      BY <1>5
    <3> QED BY <3>1, <3>2, <1>2, <1>3
  <2> QED BY <1>5, <1>6, <2>1, <2>2 DEF Receive, BufTypeOK, lineVars
<1>8. Pending' = Pending
  BY <1>5, BufferedIsWindow, FlushKeeps DEF Receive, Pending
<1> QED BY <1>7, <1>8 DEF Keeps, Receive

LEMMA AvailableKeeps ==
  ASSUME BufTypeOK, Available
  PROVE  Keeps
<1>1. CASE CanReceive
  BY <1>1, ReceiveKeeps DEF Available
<1>2. CASE ~CanReceive
  BY <1>2, FlushedKeeps DEF Available, lineVars, BufTypeOK
<1> QED BY <1>1, <1>2

LEMMA ConnectedKeeps ==
  ASSUME BufTypeOK, ConnectedEffect
  PROVE  Keeps
<1>1. CASE ~MustAsk
  BY <1>1, UnchangedKeeps DEF ConnectedEffect, streamVars, lineVars, BufTypeOK
<1>2. CASE MustAsk /\ CanReceive
  BY <1>2, AvailableKeeps DEF ConnectedEffect
<1>3. CASE MustAsk /\ ~CanReceive
  BY <1>3, FlushedKeeps DEF ConnectedEffect, lineVars, BufTypeOK
<1> QED BY <1>1, <1>2, <1>3

LEMMA StopKeeps ==
  ASSUME BufTypeOK, StopReading
  PROVE  Keeps
  BY UnchangedKeeps DEF StopReading, lineVars, BufTypeOK

LEMMA LineKeeps ==
  ASSUME BufTypeOK, CloseWait \/ Outage \/ Recovery
  PROVE  Keeps
  BY UnchangedKeeps DEF CloseWait, Outage, Recovery, BufTypeOK

LEMMA ArrivePuts ==
  ASSUME BufTypeOK, NEW b \in Bytes, Arrive(b)
  PROVE  BufTypeOK' /\ Stream!Put(b)
<1>1. BufTypeOK'
  BY DEF BufTypeOK, Arrive, bufVars, lineVars
<1>2. Buffered' = Buffered /\ Buffered \in Seq(Bytes)
  <2>1. Buffered \in Seq(Bytes)
    BY BufferedIsWindow, WindowSeq DEF BufTypeOK
  <2> QED BY <2>1 DEF Arrive, bufVars, Buffered, bufferCount
<1>3. Append(wire, b) = wire \o <<b>> /\ wire \in Seq(Bytes) /\ <<b>> \in Seq(Bytes)
  BY DEF BufTypeOK
<1>4. Append(Pending, b) = Pending \o <<b>>
  <2>1. Pending \in Seq(Bytes)
    BY <1>2, <1>3 DEF Pending
  <2> QED BY <2>1
<1>5. Buffered \o (wire \o <<b>>) = (Buffered \o wire) \o <<b>>
  BY <1>2, <1>3, ConcatAssociative, SMTT(30)
<1> QED BY <1>1, <1>2, <1>3, <1>4, <1>5 DEF Arrive, Stream!Put, Pending

LEMMA ReadGets ==
  ASSUME BufTypeOK, ReadByte
  PROVE  BufTypeOK' /\ Stream!Get
<1>1. /\ total \in Nat /\ offset \in 0..(total - 1) /\ total <= Cap
      /\ buffer[offset] \in Bytes
      /\ \A k \in (offset + 1)..(total - 1) : buffer'[k] = buffer[k]
  BY CapAssumption DEF BufTypeOK, ReadByte, bufferCount, Cells
<1>2. BufTypeOK'
  <2>1. offset' \in 0..total' /\ total' \in 0..Cap
    BY <1>1, CapAssumption DEF ReadByte, BufTypeOK
  <2>2. buffer' \in [Cells -> Bytes \cup {None}]
    BY DEF ReadByte, BufTypeOK
  <2>3. got' \in Seq(Bytes) /\ wire' \in Seq(Bytes)
    BY <1>1 DEF ReadByte, BufTypeOK
  <2>4. \A k \in offset'..(total' - 1) : buffer'[k] \in Bytes
    <3>1. offset' = offset + 1 /\ total' = total
      BY DEF ReadByte
    <3>2. \A k \in (offset + 1)..(total - 1) : k \in offset..(total - 1)
      BY <1>1
    <3>3. \A k \in offset..(total - 1) : buffer[k] \in Bytes
      BY DEF BufTypeOK
    <3> QED BY <1>1, <3>1, <3>2, <3>3
  <2> QED BY <2>1, <2>2, <2>3, <2>4 DEF BufTypeOK, ReadByte, lineVars
<1>3. Reads(Window(buffer, offset, total) \o wire, buffer[offset],
            Window(buffer', offset + 1, total) \o wire)
  <2>1. wire \in Seq(Bytes) /\ \A k \in offset..(total - 1) : buffer[k] \in Bytes
    BY DEF BufTypeOK
  <2> QED BY <1>1, <2>1, WindowReads
<1> QED BY <1>2, <1>3, BufferedIsWindow DEF Stream!Get, ReadByte, Reads

(***************************************************************************)
(* The theorems.                                                           *)
(***************************************************************************)
LEMMA BufStep ==
  ASSUME BufTypeOK, [BufNext]_streamVars
  PROVE  BufTypeOK' /\ [Stream!Next]_(Stream!vars)
<1>1. ASSUME NEW b \in Bytes, Arrive(b)
      PROVE  BufTypeOK' /\ Stream!Next
  BY <1>1, ArrivePuts DEF Stream!Next
<1>2. ASSUME ReadByte
      PROVE  BufTypeOK' /\ Stream!Next
  BY <1>2, ReadGets DEF Stream!Next
<1>3. Keeps => BufTypeOK' /\ UNCHANGED Stream!vars
  BY DEF Keeps, Pending, Stream!vars
<1>4. CASE UNCHANGED streamVars
  <2>1. Keeps
    BY <1>4, UnchangedKeeps DEF streamVars, lineVars, BufTypeOK
  <2> QED BY <2>1, <1>3
<1> QED
  BY <1>1, <1>2, <1>3, <1>4, AvailableKeeps, ConnectedKeeps, StopKeeps, LineKeeps
  DEF BufNext, LineNext

LEMMA BufStart ==
  ASSUME BufInit
  PROVE  BufTypeOK /\ Stream!Init
<1>1. BufTypeOK
  BY CapAssumption DEF BufInit, BufTypeOK, Cells
<1>2. Buffered = << >>
  BY DEF BufInit, Buffered, bufferCount
<1> QED BY <1>1, <1>2 DEF BufInit, Stream!Init

(* The array holds at most Cap bytes and every unread cell a byte of the   *)
(* wire, for any reader (spark_wiring_tcpclient.cpp).                      *)
THEOREM BufferTypesHold == BufSpec => []BufTypeOK
<1>1. BufInit => BufTypeOK
  BY BufStart
<1>2. BufTypeOK /\ [BufNext]_streamVars => BufTypeOK'
  BY BufStep
<1> QED BY <1>1, <1>2, PTL DEF BufSpec

(* Every behaviour of a TCPClient is one of a FIFO: read() returns the     *)
(* peer's bytes, each once and in order.                                   *)
THEOREM BufferIsAStream == BufSpec => ImplementsStream
<1>1. BufInit => Stream!Init
  BY BufStart
<1>2. BufTypeOK /\ [BufNext]_streamVars => [Stream!Next]_(Stream!vars)
  BY BufStep
<1> QED BY <1>1, <1>2, BufferTypesHold, PTL DEF BufSpec, ImplementsStream, Stream!Spec
=============================================================================
