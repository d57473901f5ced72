------------------------ MODULE SparkProtocol_proofs ------------------------
(***************************************************************************)
(* Proofs about SparkProtocol: types, the order of the chunks, that only a *)
(* whole image is handed to the boot loader, that a connection is dropped  *)
(* for silence only after a ping, and the end of every silence.            *)
(***************************************************************************)
EXTENDS SparkProtocol, SequenceTheorems, TLAPS

(* Sequences without a message of a set, and with at most one.             *)
Without(s, S) == \A i \in 1..Len(s) : s[i] \notin S
AtMostOne(s, S) == \A i, j \in 1..Len(s) : s[i] \in S /\ s[j] \in S => i = j

(* Messages of some kinds, answers the server answers with a chunk.        *)
Of(K)     == {m \in Messages : m.kind \in K}
Update    == Of({"begin", "chunk", "done"})
Eliciting == {m \in Messages : Elicits(m)}

(* A message of the server that does not fit the core's index n and the    *)
(* server's cursor c, and such an answer of the core.                      *)
Fits(m, n, c) ==
  /\ m.kind = "chunk" => m.no = n /\ n < Chunks /\ c = n
  /\ m.kind = "done" => n = Chunks
Answers(m, n, c) ==
  /\ m.kind = "ready" => n = 0
  /\ m.kind = "ok" => n = c + 1 /\ n <= Chunks
  /\ m.kind = "bad" => n = c /\ n < Chunks
  /\ m.kind = "missed" /\ m.no < Chunks => m.no = n
Misfits(n, c)    == {m \in Messages : ~Fits(m, n, c)}
Misanswers(n, c) == {m \in Messages : ~Answers(m, n, c)}

-----------------------------------------------------------------------------
(* An update is an exchange of which one message exists at a time: one of  *)
(* the server's on its way or being handled, or one of the core's answers. *)
Handling   == pc \in {"body", "ack", "act"}
BusyUpdate == Handling /\ msg \in Update
BusyAnswer == pc = "reply" /\ msg \in Eliciting
Before     == Running /\ synced /\ ~updating
During     == Running /\ synced /\ updating

BeforeInv == Before =>
  /\ Without(toServer, Eliciting) /\ ~BusyAnswer
  /\ Without(toCore, Of({"chunk", "done"}))
  /\ Handling => msg \notin Of({"chunk", "done"})
  /\ AtMostOne(toCore, Update)
  /\ BusyUpdate => Without(toCore, Update)
  /\ ~begun => Without(toCore, Update) /\ ~BusyUpdate

BegunInv == During =>
  /\ begun /\ Without(toCore, Of({"begin"}))
  /\ Handling => msg \notin Of({"begin"})

TokenInv == During /\ ~excused =>
  /\ AtMostOne(toCore, Update) /\ AtMostOne(toServer, Eliciting)
  /\ Without(toCore, Update) \/ Without(toServer, Eliciting)
  /\ BusyUpdate \/ BusyAnswer =>
       Without(toCore, Update) /\ Without(toServer, Eliciting)

FitInv == During /\ ~excused =>
  /\ Without(toCore, Misfits(chunk_index, cursor))
  /\ Handling => msg \notin Misfits(chunk_index, cursor)
  /\ Without(toServer, Misanswers(chunk_index, cursor))
  /\ pc = "reply" => msg \notin Misanswers(chunk_index, cursor)

Exchange == BeforeInv /\ BegunInv /\ TokenInv /\ FitInv

(* The framing: only bytes out of step are junk, and no chunk is handled   *)
(* out of step.                                                            *)
LinkInv ==
  /\ Without(toCore, Of({"junk"}))
  /\ Handling /\ msg.kind = "chunk" => synced
  /\ Handling /\ synced => msg.kind # "junk"
  /\ Running /\ pc # "shaken" /\ socketed /\ ~connected => ~synced

(* A ping waited for was sent on this connection or on the one before.     *)
AskedInv == expecting_ping_ack => asked \/ stale

IInv == TypeOK /\ AskedInv /\ LinkInv /\ Exchange /\ InOrder /\ OnlyWhole

-----------------------------------------------------------------------------
(* Sequences.                                                              *)

LEMMA Empty == ASSUME NEW S PROVE Without(<< >>, S) /\ AtMostOne(<< >>, S)
BY DEF Without, AtMostOne

LEMMA WithoutOne ==
  ASSUME NEW s, NEW S, Without(s, S) PROVE AtMostOne(s, S)
BY DEF Without, AtMostOne

LEMMA WithoutSubset ==
  ASSUME NEW s, NEW S, NEW T, T \subseteq S, Without(s, S) PROVE Without(s, T)
BY DEF Without

(* What is read is the head, what stays is the tail.                       *)
LEMMA Taken ==
  ASSUME NEW s \in Seq(Messages), s # << >>, NEW S
  PROVE  /\ Head(s) \in Messages /\ Tail(s) \in Seq(Messages)
         /\ Without(s, S) => Head(s) \notin S /\ Without(Tail(s), S)
         /\ AtMostOne(s, S) => AtMostOne(Tail(s), S)
         /\ AtMostOne(s, S) /\ Head(s) \in S => Without(Tail(s), S)
<1>1. Head(s) \in Messages /\ Tail(s) \in Seq(Messages)
  OBVIOUS
<1>2. Head(s) = s[1] /\ 1 \in 1..Len(s)
  OBVIOUS
<1>3. \A i \in 1..Len(Tail(s)) : i + 1 \in 1..Len(s) /\ Tail(s)[i] = s[i + 1]
  OBVIOUS
<1>4. Without(s, S) => Head(s) \notin S /\ Without(Tail(s), S)
  BY <1>2, <1>3 DEF Without
<1>5. AtMostOne(s, S) => AtMostOne(Tail(s), S)
  BY <1>3 DEF AtMostOne
<1>6. AtMostOne(s, S) /\ Head(s) \in S => Without(Tail(s), S)
  <2> SUFFICES ASSUME AtMostOne(s, S), Head(s) \in S, NEW i \in 1..Len(Tail(s)),
                      Tail(s)[i] \in S
               PROVE  FALSE
    BY DEF Without
  <2>1. i + 1 = 1
    BY <1>2, <1>3 DEF AtMostOne
  <2> QED
    BY <2>1
<1> QED
  BY <1>1, <1>4, <1>5, <1>6

(* What is sent is the last.                                               *)
LEMMA Appended ==
  ASSUME NEW s \in Seq(Messages), NEW m \in Messages, NEW S
  PROVE  /\ Append(s, m) \in Seq(Messages)
         /\ Without(s, S) => AtMostOne(Append(s, m), S)
         /\ Without(s, S) /\ m \notin S => Without(Append(s, m), S)
         /\ AtMostOne(s, S) /\ m \notin S => AtMostOne(Append(s, m), S)
<1>1. Append(s, m) \in Seq(Messages)
  OBVIOUS
<1>2. \A i \in 1..Len(Append(s, m)) :
        \/ i \in 1..Len(s) /\ Append(s, m)[i] = s[i]
        \/ i = Len(s) + 1 /\ Append(s, m)[i] = m
  OBVIOUS
<1> QED
  BY <1>1, <1>2 DEF Without, AtMostOne

-----------------------------------------------------------------------------
(* Messages and chunks.                                                    *)

LEMMA MsgType ==
  ASSUME NEW kind \in ToCore \union ToServer \union {"none"}, NEW no \in Nat
  PROVE  Msg(kind, no) \in Messages /\ Msg(kind, no).kind = kind /\ Msg(kind, no).no = no
BY DEF Msg, Messages

LEMMA SizeType ==
  ASSUME NEW n \in Nat
  PROVE  /\ Size(n) \in Nat \ {0} /\ Start(n) \in Nat
         /\ Units(n) \in Seq(Nat) /\ Len(Units(n)) = Size(n)
         /\ \A k \in 1..Size(n) : Units(n)[k] = Start(n) + k - 1
<1>1. Size(n) \in Nat \ {0}
  BY ProtocolAssumption DEF Size
<1>2. Start(n) \in Nat
  BY ProtocolAssumption DEF Start
<1> HIDE DEF Size, Start
<1>3. \A k \in 1..Size(n) : Start(n) + k - 1 \in Nat
  BY <1>1, <1>2
<1>4. Units(n) \in [1..Size(n) -> Nat]
  BY <1>3 DEF Units
<1>5. Units(n) \in Seq(Nat) /\ Len(Units(n)) = Size(n)
  BY <1>1, <1>4
<1>6. \A k \in 1..Size(n) : Units(n)[k] = Start(n) + k - 1
  BY DEF Units
<1> QED
  BY <1>1, <1>2, <1>5, <1>6

(* Where a failed write leaves the address: at the start of its page.      *)
LEMMA PageStart ==
  ASSUME NEW a \in Nat, NEW p \in Nat \ {0}
  PROVE  (a \div p) * p \in Nat /\ (a \div p) * p <= a
OBVIOUS

LEMMA PageType ==
  ASSUME NEW a \in Nat PROVE PageOf(a) \in Nat /\ PageOf(a) <= a
<1>1. PageSize \in Nat \ {0}
  BY ProtocolAssumption
<1> QED
  BY <1>1, PageStart DEF PageOf

LEMMA Quotient ==
  ASSUME NEW a \in Nat, NEW b \in Nat \ {0} PROVE a \div b \in Nat
OBVIOUS

(* ... where a chunk begins.                                               *)
LEMMA PageOfChunks ==
  ASSUME NEW a \in Nat, NEW p \in Nat \ {0}, NEW c \in Nat \ {0}, p % c = 0
  PROVE  (((a \div p) * p) \div c) * c = (a \div p) * p
<1> DEFINE k == p \div c
           q == a \div p
<1>1. k \in Nat /\ q \in Nat /\ p = k * c
  OBVIOUS
<1> HIDE DEF k, q
<1>2. q * p = (q * k) * c /\ q * k \in Nat
  BY <1>1
<1>3. ((q * k) * c) \div c = q * k
  BY <1>2
<1> QED
  BY <1>2, <1>3 DEF q

LEMMA Cancel ==
  ASSUME NEW a \in Nat, NEW b \in Nat, NEW c \in Nat \ {0}, a * c <= b * c
  PROVE  a <= b
<1> SUFFICES ASSUME b + 1 <= a PROVE FALSE
  OBVIOUS
<1>1. PICK d \in Nat : a = b + 1 + d
  <2>1. a - (b + 1) \in Nat /\ a = b + 1 + (a - (b + 1))
    OBVIOUS
  <2> QED
    BY <2>1
<1>2. a * c = b * c + c + d * c /\ d * c \in Nat
  BY <1>1
<1> QED
  BY <1>2

(* The index a failed write leaves: of the chunk its page begins with.     *)
LEMMA Rewound ==
  ASSUME NEW n \in Nat, NEW size \in Nat \ {0}, NEW base,
         base = PageOf(Start(n)), base = 0 \/ size = ChunkSize
  PROVE  /\ base \in Nat /\ base <= Start(n)
         /\ base \div size \in Nat /\ base \div size <= n
         /\ Start(base \div size) = base
<1>1. Start(n) \in Nat /\ ChunkSize \in Nat \ {0} /\ PageSize \in Nat \ {0}
  BY SizeType, ProtocolAssumption
<1>2. base \in Nat /\ base <= Start(n)
  BY <1>1, PageType
<1>3. base \div size \in Nat
  BY <1>2, Quotient
<1>4. CASE base = 0
  <2>1. base \div size = 0
    BY <1>4
  <2> QED
    BY <1>1, <1>2, <1>4, <2>1 DEF Start
<1>5. CASE size = ChunkSize
  <2>1. (base \div ChunkSize) * ChunkSize = base
    BY <1>1, PageOfChunks, ProtocolAssumption DEF PageOf
  <2>2. (base \div ChunkSize) * ChunkSize <= n * ChunkSize
    BY <1>2, <2>1 DEF Start
  <2>3. base \div ChunkSize <= n
    BY <1>1, <1>3, <1>5, <2>2, Cancel
  <2> QED
    BY <1>2, <1>3, <1>5, <2>1, <2>3 DEF Start
<1> QED
  BY <1>4, <1>5

(* Which messages the server answers with.                                 *)
LEMMA Answered ==
  ASSUME toServer \in Seq(Messages), cursor \in Nat, Answer
  PROVE  \E m \in Messages : m.kind \in {"ack", "done", "chunk"} /\ toCore' = Append(toCore, m)
<1>1. Head(toServer) \in Messages
  BY Taken DEF Answer, Read
<1>2. Head(toServer).no \in Nat /\ 0 \in Nat /\ cursor + 1 \in Nat
  BY <1>1 DEF Messages
<1>3. \A n \in Nat : Msg("chunk", n) \in Messages /\ Msg("chunk", n).kind = "chunk"
  BY MsgType DEF ToCore
<1>4. \A kind \in {"ack", "done"} : Msg(kind, 0) \in Messages /\ Msg(kind, 0).kind = kind
  BY MsgType DEF ToCore
<1>5. \A n : SendChunk(n) => toCore' = Append(toCore, Msg("chunk", n))
  BY DEF SendChunk, Tell
<1>6. \/ toCore' = Append(toCore, Msg("ack", 0))
      \/ toCore' = Append(toCore, Msg("done", 0))
      \/ SendChunk(0) \/ SendChunk(cursor + 1) \/ SendChunk(cursor)
      \/ SendChunk(Head(toServer).no)
  BY DEF Answer, Tell
<1> QED
  BY <1>2, <1>3, <1>4, <1>5, <1>6

-----------------------------------------------------------------------------
(* Types.                                                                  *)

FlagsOK ==
  /\ socketed \in BOOLEAN /\ connected \in BOOLEAN /\ flashing \in BOOLEAN
  /\ updating \in BOOLEAN /\ expecting_ping_ack \in BOOLEAN

AgesOK == messageAge \in 0..2 /\ chunkAge \in 0..1 /\ flashAge \in 0..1

LEMMA TypesInit == Init => TypeOK
<1> SUFFICES ASSUME Init PROVE TypeOK
  OBVIOUS
<1>1. None \in Messages
  BY MsgType DEF None
<1>2. << >> \in Seq(Messages) /\ << >> \in Seq(Nat)
  OBVIOUS
<1>3. {sends, talks, updates, breaks, faults} \subseteq Nat
  BY DEF Init
<1>4. pc = "idle" /\ msg \in Messages
  BY <1>1 DEF Init, Boot
<1>5. FlagsOK
  BY DEF Init, Boot, FlagsOK
<1>9. AgesOK
  BY DEF Init, Boot, AgesOK
<1>6. chunk_index \in Nat /\ flash \in Seq(Nat) /\ cursor \in Nat
  BY <1>2 DEF Init, Boot
<1>7. open \in BOOLEAN /\ synced \in BOOLEAN /\ toCore \in Seq(Messages)
      /\ toServer \in Seq(Messages)
  BY <1>2 DEF Init, Boot
<1>8. begun \in BOOLEAN /\ excused \in BOOLEAN /\ asked \in BOOLEAN /\ stale \in BOOLEAN
  BY DEF Init, Boot
<1> QED
  BY <1>3, <1>4, <1>5, <1>6, <1>7, <1>8, <1>9 DEF TypeOK, FlagsOK, AgesOK

(* The message read, and the answer made of it.                            *)
LEMMA MsgStep ==
  ASSUME TypeOK, [Next]_vars
  PROVE  /\ pc' \in {"idle", "shaken", "loop", "body", "ack", "act", "reply", "flashed", "reset"}
         /\ msg' \in Messages
<1>0. None \in Messages /\ None.kind = "none"
  BY MsgType DEF None
<1> USE DEF TypeOK
<1>1. CASE Connect \/ Shake \/ Shaken \/ OnDisconnect \/ OnCloseWait \/ Elapse
           \/ FlashTimeout \/ Talk \/ Begin \/ Answer \/ Ignore
  <2>1. msg' = msg /\ (pc' = pc \/ pc' \in {"shaken", "loop", "reset"})
    BY <1>1 DEF Connect, Shake, Shaken, OnDisconnect, OnCloseWait, ConnectionLost, Elapse,
                FlashTimeout, Talk, Begin, Answer, Ignore, Tell, SendChunk, Outside
  <2> QED
    BY <2>1
<1>2. CASE ReceiveError \/ AskAgain \/ TimeOut \/ Ping \/ NothingDue \/ BodyFails \/ Restart
  BY <1>0, <1>2 DEF ReceiveError, AskAgain, Missing, TimeOut, Ping, Pinging, NothingDue,
                    BodyFails, Restart, GiveUp, Return
<1>3. CASE Receive
  <2>1. CASE toCore # << >> /\ msg' = Head(toCore) /\ pc' = "body"
    BY <2>1, Taken
  <2>2. CASE GiveUp
    BY <2>2, <1>0 DEF GiveUp, Return
  <2>3. ASSUME NEW kind \in {"ack", "begin", "junk", "done"}, msg' = Msg(kind, 0),
               pc' = "body"
        PROVE  pc' = "body" /\ msg' \in Messages
    BY <2>3, MsgType DEF ToCore
  <2> QED
    BY <1>3, <2>1, <2>2, <2>3 DEF Receive, Heard
<1>4. CASE Body
  BY <1>0, <1>4 DEF Body, Return
<1>5. CASE Acknowledge
  BY <1>0, <1>5 DEF Acknowledge, GiveUp, Return
<1>6. CASE Call
  <2>1. Msg("value", 0) \in Messages
    BY MsgType DEF ToServer
  <2> QED
    BY <1>0, <1>6, <2>1 DEF Call, GiveUp, Return
<1>7. CASE BadChunk
  BY <1>7, MsgType DEF BadChunk, Saving, ToServer
<1>v. \A next \in Nat : Verdict(next) \in Messages
  BY MsgType DEF Verdict, ToServer
<1>8. CASE Written
  <2>1. pc' = "reply" /\ msg' = Verdict(chunk_index + 1)
    BY <1>8 DEF Written, Saving
  <2>2. chunk_index + 1 \in Nat
    OBVIOUS
  <2> QED
    BY <1>v, <2>1, <2>2
<1>9. CASE NotWritten
  <2> DEFINE next == PageOf(Len(flash)) \div Size(msg.no)
  <2>1. msg.no \in Nat
    BY DEF Messages
  <2>2. next \in Nat
    <3>1. Len(flash) \in Nat
      OBVIOUS
    <3>2. PageOf(Len(flash)) \in Nat /\ Size(msg.no) \in Nat \ {0}
      BY <2>1, <3>1, SizeType, PageType
    <3> QED
      BY <3>2, Quotient
  <2>3. pc' = "reply" /\ msg' = Verdict(next)
    BY <1>9 DEF NotWritten, Saving
  <2> HIDE DEF next
  <2> QED
    BY <1>v, <2>2, <2>3
<1>10. CASE Prepare
  BY <1>10, MsgType DEF Prepare, ToServer
<1>11. CASE Finish
  BY <1>0, <1>11 DEF Finish
<1>12. CASE Reply
  BY <1>0, <1>12 DEF Reply, GiveUp, Return
<1>13. CASE UNCHANGED vars
  BY <1>13 DEF vars
<1> QED
  BY <1>1, <1>2, <1>3, <1>4, <1>5, <1>6, <1>7, <1>8, <1>9, <1>10, <1>11, <1>12, <1>13
     DEF Next, Thread, Server

(* The flags.                                                              *)
LEMMA FlagsStep ==
  ASSUME FlagsOK, [Next]_vars
  PROVE  FlagsOK'
<1> USE DEF FlagsOK, flags, ping, update, store
<1>1. CASE Talk \/ Begin \/ Answer \/ Ignore
  <2>1. UNCHANGED <<flags, ping, update, store>>
    BY <1>1 DEF Talk, Begin, Answer, Ignore, Tell, SendChunk, Outside
  <2> QED
    BY <2>1
<1>2. CASE Connect \/ Shake \/ Shaken
  BY <1>2 DEF Connect, Shake, Shaken
<1>3. CASE Receive \/ ReceiveError
  BY <1>3 DEF Receive, Heard, ReceiveError, GiveUp
<1>4. CASE AskAgain
  BY <1>4 DEF AskAgain, Missing, GiveUp
<1>5. CASE TimeOut
  BY <1>5 DEF TimeOut, GiveUp
<1>6. CASE Ping \/ NothingDue
  BY <1>6 DEF Ping, Pinging, NothingDue
<1>7. CASE BodyFails \/ Acknowledge \/ Call \/ Reply
  BY <1>7 DEF BodyFails, Acknowledge, Call, Reply, GiveUp
<1>8. CASE Body
  BY <1>8 DEF Body
<1>9. CASE BadChunk \/ Written \/ NotWritten
  BY <1>9 DEF BadChunk, Written, NotWritten, Saving
<1>10. CASE Prepare \/ Finish
  BY <1>10 DEF Prepare, Finish
<1>11. CASE OnDisconnect \/ OnCloseWait
  BY <1>11 DEF OnDisconnect, OnCloseWait, ConnectionLost
<1>12. CASE Elapse
  BY <1>12 DEF Elapse
<1>13. CASE FlashTimeout \/ Restart
  BY <1>13 DEF FlashTimeout, Restart
<1>14. CASE UNCHANGED vars
  BY <1>14 DEF vars
<1> QED
  BY <1>1, <1>2, <1>3, <1>4, <1>5, <1>6, <1>7, <1>8, <1>9, <1>10, <1>11, <1>12, <1>13,
     <1>14 DEF Next, Thread, Server

(* The timers.                                                             *)
LEMMA AgesStep ==
  ASSUME AgesOK, [Next]_vars
  PROVE  AgesOK'
<1> USE DEF AgesOK, flags, ping, update, store
<1>1. CASE Talk \/ Begin \/ Answer \/ Ignore
  <2>1. UNCHANGED <<flags, ping, update, store>>
    BY <1>1 DEF Talk, Begin, Answer, Ignore, Tell, SendChunk, Outside
  <2> QED
    BY <2>1
<1>2. CASE Connect \/ Shake \/ Shaken
  BY <1>2 DEF Connect, Shake, Shaken
<1>3. CASE Receive \/ ReceiveError
  BY <1>3 DEF Receive, Heard, ReceiveError, GiveUp
<1>4. CASE AskAgain
  BY <1>4 DEF AskAgain, Missing, GiveUp
<1>5. CASE TimeOut
  BY <1>5 DEF TimeOut, GiveUp
<1>6. CASE Ping \/ NothingDue
  BY <1>6 DEF Ping, Pinging, NothingDue
<1>7. CASE BodyFails \/ Acknowledge \/ Call \/ Reply
  BY <1>7 DEF BodyFails, Acknowledge, Call, Reply, GiveUp
<1>8. CASE Body
  BY <1>8 DEF Body
<1>9. CASE BadChunk \/ Written \/ NotWritten
  BY <1>9 DEF BadChunk, Written, NotWritten, Saving
<1>10. CASE Prepare \/ Finish
  BY <1>10 DEF Prepare, Finish
<1>11. CASE OnDisconnect \/ OnCloseWait
  BY <1>11 DEF OnDisconnect, OnCloseWait, ConnectionLost
<1>12. CASE Elapse
  BY <1>12 DEF Elapse
<1>13. CASE FlashTimeout \/ Restart
  BY <1>13 DEF FlashTimeout, Restart
<1>14. CASE UNCHANGED vars
  BY <1>14 DEF vars
<1> QED
  BY <1>1, <1>2, <1>3, <1>4, <1>5, <1>6, <1>7, <1>8, <1>9, <1>10, <1>11, <1>12, <1>13,
     <1>14 DEF Next, Thread, Server

(* The image and its index.                                                *)
LEMMA FlashStep ==
  ASSUME TypeOK, [Next]_vars
  PROVE  chunk_index' \in Nat /\ flash' \in Seq(Nat)
<1> USE DEF TypeOK, update, store
<1>1. CASE Talk \/ Begin \/ Answer \/ Ignore
  BY <1>1 DEF Talk, Begin, Answer, Ignore, Tell, SendChunk, Outside
<1>2. CASE Connect \/ Shake \/ Shaken \/ Receive \/ ReceiveError \/ AskAgain \/ TimeOut
           \/ Ping \/ NothingDue \/ BodyFails \/ Body \/ Acknowledge \/ Call \/ BadChunk
           \/ Finish \/ Reply \/ OnDisconnect \/ OnCloseWait \/ Elapse \/ FlashTimeout
  <2>1. UNCHANGED <<chunk_index, flash>>
    BY <1>2 DEF Connect, Shake, Shaken, Receive, Heard, ReceiveError, AskAgain, Missing,
                TimeOut, Ping, Pinging, NothingDue, BodyFails, Body, Acknowledge, Call,
                BadChunk, Finish, Reply, OnDisconnect, OnCloseWait, ConnectionLost,
                Elapse, FlashTimeout
  <2> QED
    BY <2>1
<1>3. CASE Written
  <2>1. msg.no \in Nat
    BY DEF Messages
  <2>2. Units(msg.no) \in Seq(Nat)
    BY <2>1, SizeType
  <2> QED
    BY <1>3, <2>2 DEF Written
<1>4. CASE NotWritten
  <2> DEFINE base == PageOf(Len(flash))
  <2>1. msg.no \in Nat
    BY DEF Messages
  <2>2. Len(flash) \in Nat
    OBVIOUS
  <2>3. base \in Nat /\ base <= Len(flash)
    BY <2>2, PageType
  <2>4. flash' = SubSeq(flash, 1, base) /\ chunk_index' = base \div Size(msg.no)
    BY <1>4 DEF NotWritten
  <2> HIDE DEF base
  <2>5. base \div Size(msg.no) \in Nat
    BY <2>1, <2>3, SizeType, Quotient
  <2>6. SubSeq(flash, 1, base) \in Seq(Nat)
    BY <2>2, <2>3, SubSeqProperties
  <2> QED
    BY <2>4, <2>5, <2>6
<1>5. CASE Prepare \/ Restart
  <2>1. chunk_index' = 0 /\ flash' = << >>
    BY <1>5 DEF Prepare, Restart
  <2> QED
    BY <2>1
<1>6. CASE UNCHANGED vars
  BY <1>6 DEF vars
<1> QED
  BY <1>1, <1>2, <1>3, <1>4, <1>5, <1>6 DEF Next, Thread, Server

(* The two directions of the connection.                                   *)
LEMMA QueuesStep ==
  ASSUME TypeOK, [Next]_vars
  PROVE  toCore' \in Seq(Messages) /\ toServer' \in Seq(Messages)
<1> USE DEF TypeOK, link
<1>e. << >> \in Seq(Messages)
  OBVIOUS
<1>1. CASE Shaken \/ ReceiveError \/ TimeOut \/ NothingDue \/ BodyFails \/ Body
           \/ Acknowledge \/ Call \/ BadChunk \/ Written \/ NotWritten \/ Prepare
           \/ Finish \/ OnDisconnect \/ OnCloseWait \/ Elapse \/ FlashTimeout
  <2>1. UNCHANGED <<toCore, toServer>>
    BY <1>1 DEF Shaken, ReceiveError, TimeOut, NoMessage, NothingDue, BodyFails, Body,
                Acknowledge, Sent, Call, BadChunk, Written, NotWritten, Saving, Prepare,
                Finish, OnDisconnect, OnCloseWait, ConnectionLost, Elapse, FlashTimeout
  <2> QED
    BY <2>1
<1>2. CASE Connect \/ Shake \/ Restart
  <2>1. (toCore' = << >> \/ toCore' = toCore) /\ (toServer' = << >> \/ toServer' = toServer)
    BY <1>2 DEF Connect, Shake, Restart
  <2> QED
    BY <1>e, <2>1
<1>3. CASE Receive
  <2>1. toServer' = toServer
    BY <1>3 DEF Receive, Heard
  <2>2. toCore' = toCore \/ (toCore # << >> /\ toCore' = Tail(toCore))
    BY <1>3 DEF Receive, Heard
  <2> QED
    BY <2>1, <2>2, Taken
<1>4. CASE AskAgain
  <2>1. Msg("missed", chunk_index) \in Messages
    BY MsgType DEF ToServer
  <2>2. toCore' = toCore
    BY <1>4 DEF AskAgain, Missing, NoMessage
  <2>3. toServer' = toServer \/ toServer' = Append(toServer, Msg("missed", chunk_index))
    BY <1>4 DEF AskAgain, Missing, Send
  <2> QED
    BY <2>1, <2>2, <2>3, Appended
<1>5. CASE Ping
  <2>1. Msg("ping", 0) \in Messages
    BY MsgType DEF ToServer
  <2>2. toCore' = toCore
    BY <1>5 DEF Ping, Pinging, NoMessage
  <2>3. toServer' = toServer \/ toServer' = Append(toServer, Msg("ping", 0))
    BY <1>5 DEF Ping, Pinging, Send
  <2> QED
    BY <2>1, <2>2, <2>3, Appended
<1>6. CASE Reply
  <2>1. toCore' = toCore
    BY <1>6 DEF Reply
  <2>2. toServer' = toServer \/ toServer' = Append(toServer, msg)
    BY <1>6 DEF Reply, Send, Sent
  <2> QED
    BY <2>1, <2>2, Appended
<1>7. CASE Talk
  <2>1. \A kind \in {"request", "call"} : Msg(kind, 0) \in Messages
    BY MsgType DEF ToCore
  <2>2. toServer' = toServer
    BY <1>7 DEF Talk
  <2>3. \E kind \in {"request", "call"} : toCore' = Append(toCore, Msg(kind, 0))
    BY <1>7 DEF Talk, Tell
  <2> QED
    BY <2>1, <2>2, <2>3, Appended
<1>8. CASE Begin
  <2>1. Msg("begin", 0) \in Messages
    BY MsgType DEF ToCore
  <2>2. toServer' = toServer /\ toCore' = Append(toCore, Msg("begin", 0))
    BY <1>8 DEF Begin, Tell
  <2> QED
    BY <2>1, <2>2, Appended
<1>9. CASE Answer
  <2>1. toServer # << >> /\ toServer' = Tail(toServer)
    BY <1>9 DEF Answer, Read
  <2>2. \E m \in Messages : toCore' = Append(toCore, m)
    BY <1>9, Answered
  <2> QED
    BY <2>1, <2>2, Taken, Appended
<1>10. CASE Ignore
  <2>1. toCore' = toCore /\ toServer # << >> /\ toServer' = Tail(toServer)
    BY <1>10 DEF Ignore, Read
  <2> QED
    BY <2>1, Taken
<1>11. CASE UNCHANGED vars
  BY <1>11 DEF vars
<1> QED
  BY <1>1, <1>2, <1>3, <1>4, <1>5, <1>6, <1>7, <1>8, <1>9, <1>10, <1>11
     DEF Next, Thread, Server

(* The server's state, the bounds' counters and the history.               *)
CountsOK == /\ cursor \in Nat /\ sends \in Nat /\ talks \in Nat /\ updates \in Nat
            /\ breaks \in Nat /\ faults \in Nat
BitsOK   == /\ open \in BOOLEAN /\ synced \in BOOLEAN /\ begun \in BOOLEAN
            /\ excused \in BOOLEAN /\ asked \in BOOLEAN /\ stale \in BOOLEAN

LEMMA CountsStep ==
  ASSUME CountsOK, toServer \in Seq(Messages), [Next]_vars
  PROVE  CountsOK'
<1> USE DEF CountsOK, server, bounds
<1>1. CASE Shake \/ Shaken \/ ReceiveError \/ AskAgain \/ TimeOut \/ Ping \/ NothingDue
           \/ BodyFails \/ Body \/ Acknowledge \/ Call \/ Written \/ Prepare \/ Finish
           \/ Reply \/ Elapse \/ FlashTimeout \/ Ignore
  <2>1. UNCHANGED <<server, bounds>>
    BY <1>1 DEF Shake, Shaken, ReceiveError, AskAgain, Missing, NoMessage, TimeOut, Ping,
                Pinging, NothingDue, BodyFails, Body, Acknowledge, Call, Written, Saving,
                Prepare, Finish, Reply, Elapse, FlashTimeout, Ignore, Outside
  <2> QED
    BY <2>1
<1>2. CASE Connect
  BY <1>2 DEF Connect
<1>3. CASE Receive
  BY <1>3 DEF Receive, Heard, Fault
<1>4. CASE BadChunk \/ NotWritten
  BY <1>4 DEF BadChunk, NotWritten, Saving, Fault
<1>5. CASE OnDisconnect \/ OnCloseWait
  BY <1>5 DEF OnDisconnect, OnCloseWait, ConnectionLost
<1>6. CASE Restart
  BY <1>6 DEF Restart
<1>7. CASE Talk
  BY <1>7 DEF Talk, Tell, Outside
<1>8. CASE Begin
  BY <1>8 DEF Begin, Tell, Outside
<1>9. CASE Answer
  <2>1. UNCHANGED <<talks, updates, bounds>>
    BY <1>9 DEF Answer, SendChunk, Tell, Outside
  <2>2. \A n \in Nat : SendChunk(n) => cursor' \in Nat /\ sends' \in Nat
    BY DEF SendChunk
  <2>3. \/ UNCHANGED <<cursor, sends>>
        \/ SendChunk(0) \/ SendChunk(cursor + 1)
        \/ SendChunk(cursor) \/ SendChunk(Head(toServer).no)
    BY <1>9 DEF Answer
  <2>4. Head(toServer) \in Messages
    BY <1>9, Taken DEF Answer, Read
  <2>5. Head(toServer).no \in Nat
    BY <2>4 DEF Messages
  <2> QED
    BY <2>1, <2>2, <2>3, <2>5
<1>10. CASE UNCHANGED vars
  BY <1>10 DEF vars
<1> QED
  BY <1>1, <1>2, <1>3, <1>4, <1>5, <1>6, <1>7, <1>8, <1>9, <1>10 DEF Next, Thread, Server

LEMMA BitsStep ==
  ASSUME BitsOK, FlagsOK, [Next]_vars
  PROVE  BitsOK'
<1> USE DEF BitsOK, link, doubt
<1>1. CASE Connect \/ Shake \/ Shaken
  BY <1>1 DEF Connect, Shake, Shaken, server, FlagsOK
<1>2. CASE Receive \/ ReceiveError
  BY <1>2 DEF Receive, Heard, ReceiveError, server
<1>3. CASE AskAgain
  <2>1. UNCHANGED <<open, begun, asked, stale>> /\ synced' \in BOOLEAN
    BY <1>3 DEF AskAgain, Missing, NoMessage, server
  <2>2. excused' = (excused \/ UnderWay) \/ excused' = excused
    BY <1>3 DEF AskAgain, Missing
  <2>3. excused' \in BOOLEAN
    BY <2>2
  <2> QED
    BY <2>1, <2>3
<1>4. CASE TimeOut \/ NothingDue \/ Ping
  BY <1>4 DEF TimeOut, NothingDue, Ping, Pinging, NoMessage, server
<1>5. CASE BodyFails \/ Body \/ Acknowledge \/ Call \/ Reply \/ BadChunk \/ Written
  BY <1>5 DEF BodyFails, Body, Acknowledge, Call, Reply, BadChunk, Written, Saving, server
<1>6. CASE NotWritten
  <2> DEFINE base == PageOf(Len(flash))
             P == base > 0 /\ Size(msg.no) # ChunkSize
  <2>1. UNCHANGED <<open, synced, begun, asked, stale>>
    BY <1>6 DEF NotWritten, Saving, server
  <2>2. excused' = (excused \/ P)
    BY <1>6 DEF NotWritten
  <2> HIDE DEF P
  <2> QED
    BY <2>1, <2>2
<1>7. CASE Prepare \/ Finish
  BY <1>7 DEF Prepare, Finish, server
<1>8. CASE OnDisconnect \/ OnCloseWait \/ Elapse \/ FlashTimeout
  BY <1>8 DEF OnDisconnect, OnCloseWait, ConnectionLost, Elapse, FlashTimeout, server
<1>9. CASE Restart
  BY <1>9 DEF Restart
<1>10. CASE Talk \/ Begin \/ Answer \/ Ignore
  <2>1. UNCHANGED <<open, synced, doubt, excused>>
    BY <1>10 DEF Talk, Begin, Answer, Ignore, SendChunk, Tell, Outside
  <2>2. begun' \in BOOLEAN
    BY <1>10 DEF Talk, Begin, Answer, Ignore, server
  <2> QED
    BY <2>1, <2>2
<1>11. CASE UNCHANGED vars
  BY <1>11 DEF vars, server
<1> QED
  BY <1>1, <1>2, <1>3, <1>4, <1>5, <1>6, <1>7, <1>8, <1>9, <1>10, <1>11
     DEF Next, Thread, Server

LEMMA TypesStep == TypeOK /\ [Next]_vars => TypeOK'
<1> SUFFICES ASSUME TypeOK, [Next]_vars PROVE TypeOK'
  OBVIOUS
<1>1. FlagsOK /\ AgesOK /\ BitsOK /\ toServer \in Seq(Messages)
  BY DEF TypeOK, FlagsOK, AgesOK, BitsOK
<1>2. CountsOK
  BY DEF TypeOK, CountsOK
<1>3. FlagsOK' /\ AgesOK' /\ BitsOK' /\ CountsOK'
  BY <1>1, <1>2, FlagsStep, AgesStep, BitsStep, CountsStep
<1>4. {sends, talks, updates, breaks, faults}' \subseteq Nat
  BY <1>3 DEF CountsOK
<1> QED
  BY <1>3, <1>4, MsgStep, FlashStep, QueuesStep DEF TypeOK, FlagsOK, AgesOK, BitsOK, CountsOK

-----------------------------------------------------------------------------
(* The ping that is waited for.                                            *)

LEMMA AskedStep == AskedInv /\ [Next]_vars => AskedInv'
<1> SUFFICES ASSUME AskedInv, [Next]_vars PROVE AskedInv'
  OBVIOUS
<1> USE DEF AskedInv, ping, doubt
<1>1. CASE Shake \/ Shaken \/ ReceiveError \/ AskAgain \/ NothingDue \/ BodyFails
           \/ Body \/ Acknowledge \/ Call \/ BadChunk \/ Written \/ NotWritten
           \/ Prepare \/ Finish \/ Reply \/ OnDisconnect \/ OnCloseWait \/ Elapse
           \/ FlashTimeout \/ Talk \/ Begin \/ Answer \/ Ignore
  <2>1. UNCHANGED <<expecting_ping_ack, asked, stale>>
    BY <1>1 DEF Shake, Shaken, ReceiveError, AskAgain, Missing, NothingDue, BodyFails,
                Body, Acknowledge, Call, BadChunk, Written, NotWritten, Saving, Prepare,
                Finish, Reply, OnDisconnect, OnCloseWait, ConnectionLost, Elapse,
                FlashTimeout, Talk, Begin, Answer, Ignore, SendChunk, Tell, Outside
  <2> QED
    BY <2>1
<1>2. CASE Connect
  BY <1>2 DEF Connect
<1>3. CASE Receive
  BY <1>3 DEF Receive
<1>4. CASE TimeOut
  BY <1>4 DEF TimeOut
<1>5. CASE Ping
  BY <1>5 DEF Ping, Pinging
<1>6. CASE Restart
  BY <1>6 DEF Restart
<1>7. CASE UNCHANGED vars
  BY <1>7 DEF vars
<1> QED
  BY <1>1, <1>2, <1>3, <1>4, <1>5, <1>6, <1>7 DEF Next, Thread, Server

-----------------------------------------------------------------------------
(* The framing.                                                            *)

LEMMA NoJunk ==
  ASSUME TypeOK, Without(toCore, Of({"junk"})), [Next]_vars
  PROVE  Without(toCore, Of({"junk"}))'
<1> USE DEF TypeOK
<1> DEFINE Junk == Of({"junk"})
<1>1. toCore' = toCore \/ toCore' = << >> \/ (toCore # << >> /\ toCore' = Tail(toCore))
      \/ \E m \in Messages : m.kind # "junk" /\ toCore' = Append(toCore, m)
  <2>1. CASE Connect \/ Shake \/ Shaken \/ ReceiveError \/ AskAgain \/ TimeOut \/ Ping
             \/ NothingDue \/ BodyFails \/ Body \/ Acknowledge \/ Call \/ BadChunk
             \/ Written \/ NotWritten \/ Prepare \/ Finish \/ Reply \/ OnDisconnect
             \/ OnCloseWait \/ Elapse \/ FlashTimeout \/ Ignore \/ Restart
    BY <2>1 DEF Connect, Shake, Shaken, ReceiveError, AskAgain, Missing, NoMessage,
                TimeOut, Ping, Pinging, NothingDue, BodyFails, Body, Acknowledge, Call,
                BadChunk, Written, NotWritten, Saving, Prepare, Finish, Reply,
                OnDisconnect, OnCloseWait, ConnectionLost, Elapse, FlashTimeout, Ignore,
                Restart, link
  <2>2. CASE Receive
    BY <2>2 DEF Receive, Heard
  <2>3. CASE Talk
    <3>1. \A kind \in {"request", "call"} :
            Msg(kind, 0) \in Messages /\ Msg(kind, 0).kind # "junk"
      BY MsgType DEF ToCore
    <3> QED
      BY <2>3, <3>1 DEF Talk, Tell
  <2>4. CASE Begin
    <3>1. Msg("begin", 0) \in Messages /\ Msg("begin", 0).kind = "begin"
      BY MsgType DEF ToCore
    <3> QED
      BY <2>4, <3>1 DEF Begin, Tell
  <2>5. CASE Answer
    BY <2>5, Answered
  <2>6. CASE UNCHANGED vars
    BY <2>6 DEF vars, link
  <2> QED
    BY <2>1, <2>2, <2>3, <2>4, <2>5, <2>6 DEF Next, Thread, Server
<1>2. \A m \in Messages : m.kind # "junk" => m \notin Junk
  BY DEF Of
<1> HIDE DEF Junk
<1>3. Without(toCore', Junk)
  <2>1. ASSUME NEW m \in Messages, m.kind # "junk", toCore' = Append(toCore, m)
        PROVE  Without(toCore', Junk)
    BY <1>2, <2>1, Appended DEF Junk
  <2>2. ASSUME toCore # << >>, toCore' = Tail(toCore)
        PROVE  Without(toCore', Junk)
    BY <2>2, Taken DEF Junk
  <2>3. Without(toCore, Junk)
    BY DEF Junk
  <2> QED
    BY <1>1, <2>1, <2>2, <2>3, Empty
<1> QED
  BY <1>3 DEF Junk, Without, Of

LEMMA LinkStep ==
  ASSUME TypeOK, LinkInv, [Next]_vars
  PROVE  LinkInv'
<1>0. Without(toCore, Of({"junk"}))'
  BY NoJunk DEF LinkInv
<1> DEFINE Framed ==
      /\ Handling /\ msg.kind = "chunk" => synced
      /\ Handling /\ synced => msg.kind # "junk"
      /\ Running /\ pc # "shaken" /\ socketed /\ ~connected => ~synced
<1> USE DEF LinkInv, Handling, Running, flags, link
<1>1. CASE Connect
  BY <1>0, <1>1 DEF Connect
<1>2. CASE Shake \/ Shaken
  BY <1>0, <1>2 DEF Shake, Shaken
<1>3. CASE Receive
  <2>1. CASE synced /\ toCore # << >> /\ msg' = Head(toCore) /\ UNCHANGED flags
    <3>1. msg' \in Messages /\ msg' \notin Of({"junk"})
      BY <2>1, Taken DEF TypeOK
    <3>2. msg'.kind # "junk"
      BY <3>1 DEF Of
    <3> QED
      BY <1>0, <1>3, <2>1, <3>2 DEF Receive, Heard, Polling
  <2>2. CASE ~synced /\ GiveUp
    BY <1>3, <2>2 DEF Receive, Heard, GiveUp, Return
  <2>3. ASSUME ~synced, UNCHANGED flags,
               NEW kind \in {"ack", "begin", "junk", "done"}, msg' = Msg(kind, 0)
        PROVE  Framed'
    <3>1. msg'.kind # "chunk"
      BY <2>3 DEF Msg
    <3> QED
      BY <1>3, <2>3, <3>1 DEF Receive, Heard, Polling
  <2> QED
    BY <1>0, <1>3, <2>1, <2>2, <2>3 DEF Receive, Heard
<1>4. CASE ReceiveError \/ BodyFails
  BY <1>0, <1>4 DEF ReceiveError, BodyFails, GiveUp, Return
<1>5. CASE AskAgain
  BY <1>0, <1>5 DEF AskAgain, Missing, NoMessage, Polling, GiveUp, Return
<1>6. CASE TimeOut \/ Ping \/ NothingDue
  BY <1>0, <1>6 DEF TimeOut, Ping, Pinging, NothingDue, NoMessage, Polling, GiveUp, Return
<1>7. CASE Body
  BY <1>0, <1>7 DEF Body, Return
<1>8. CASE Acknowledge \/ Call \/ Reply
  BY <1>0, <1>8 DEF Acknowledge, Call, Reply, GiveUp, Return
<1>9. CASE BadChunk \/ Written \/ NotWritten
  BY <1>0, <1>9 DEF BadChunk, Written, NotWritten, Saving
<1>10. CASE Prepare \/ Finish
  BY <1>0, <1>10 DEF Prepare, Finish
<1>11. CASE OnDisconnect \/ OnCloseWait
  BY <1>0, <1>11 DEF OnDisconnect, OnCloseWait, ConnectionLost
<1>12. CASE Elapse \/ FlashTimeout
  BY <1>0, <1>12 DEF Elapse, FlashTimeout
<1>13. CASE Restart
  BY <1>0, <1>13 DEF Restart
<1>14. CASE Talk \/ Begin \/ Answer \/ Ignore
  <2>1. UNCHANGED <<pc, msg, flags, synced>>
    BY <1>14 DEF Talk, Begin, Answer, Ignore, SendChunk, Tell, Outside
  <2> QED
    BY <1>0, <2>1
<1>15. CASE UNCHANGED vars
  BY <1>0, <1>15 DEF vars
<1> QED
  BY <1>1, <1>2, <1>3, <1>4, <1>5, <1>6, <1>7, <1>8, <1>9, <1>10, <1>11, <1>12, <1>13,
     <1>14, <1>15 DEF Next, Thread, Server

-----------------------------------------------------------------------------
(* The update's exchange.  Most steps leave it alone.                      *)

Quiet ==
  /\ UNCHANGED <<updating, chunk_index, toCore, toServer, begun, cursor, excused>>
  /\ synced' => synced
  /\ Running' => Running
  /\ \/ UNCHANGED <<pc, msg>>
     \/ pc' \in {"idle", "loop", "reset"}
     \/ Handling /\ pc' \in {"ack", "act"} /\ UNCHANGED msg

LEMMA QuietKeeps == Exchange /\ Quiet => Exchange'
<1> SUFFICES ASSUME Exchange, Quiet PROVE Exchange'
  OBVIOUS
<1>1. UNCHANGED <<updating, chunk_index, toCore, toServer, begun, cursor, excused>>
  BY DEF Quiet
<1>2. Before' => Before
  BY <1>1 DEF Quiet, Before
<1>3. During' => During
  BY <1>1 DEF Quiet, During
<1>4. Handling' => Handling /\ msg' = msg
  BY DEF Quiet, Handling
<1>5. (pc = "reply")' => pc = "reply" /\ msg' = msg
  BY DEF Quiet
<1>6. (BusyUpdate' => BusyUpdate) /\ (BusyAnswer' => BusyAnswer)
  BY <1>4, <1>5 DEF BusyUpdate, BusyAnswer
<1>7. BeforeInv'
  BY <1>1, <1>2, <1>4, <1>6 DEF Exchange, BeforeInv
<1>8. BegunInv'
  BY <1>1, <1>3, <1>4 DEF Exchange, BegunInv
<1>9. TokenInv'
  BY <1>1, <1>3, <1>6 DEF Exchange, TokenInv
<1>10. FitInv'
  BY <1>1, <1>3, <1>4, <1>5 DEF Exchange, FitInv
<1> QED
  BY <1>7, <1>8, <1>9, <1>10 DEF Exchange

LEMMA QuietSteps ==
  ASSUME \/ Shaken \/ ReceiveError \/ TimeOut \/ NothingDue \/ BodyFails \/ Body
         \/ Acknowledge \/ OnDisconnect \/ OnCloseWait \/ Elapse \/ FlashTimeout
         \/ UNCHANGED vars
  PROVE  Quiet
<1> USE DEF Quiet, Running, Handling, GiveUp, Return, update, link, server
<1>1. CASE Shaken
  BY <1>1 DEF Shaken
<1>2. CASE ReceiveError \/ BodyFails
  BY <1>2 DEF ReceiveError, BodyFails, Polling
<1>3. CASE TimeOut \/ NothingDue
  BY <1>3 DEF TimeOut, NothingDue, NoMessage, Polling
<1>4. CASE Body
  BY <1>4 DEF Body
<1>5. CASE Acknowledge
  BY <1>5 DEF Acknowledge, Sent
<1>6. CASE OnDisconnect \/ OnCloseWait
  BY <1>6 DEF OnDisconnect, OnCloseWait, ConnectionLost
<1>7. CASE Elapse
  BY <1>7 DEF Elapse
<1>8. CASE FlashTimeout
  BY <1>8 DEF FlashTimeout
<1>9. CASE UNCHANGED vars
  BY <1>9 DEF vars
<1> QED
  BY <1>1, <1>2, <1>3, <1>4, <1>5, <1>6, <1>7, <1>8, <1>9

(* ... and where there is no connection there is none.                     *)
LEMMA OutOfStep == ASSUME ~synced' \/ ~Running' PROVE Exchange'
BY DEF Exchange, BeforeInv, BegunInv, TokenInv, FitInv, Before, During

LEMMA LinkSteps ==
  ASSUME LinkInv, Connect \/ Shake \/ Restart \/ Finish
  PROVE  Exchange'
<1>1. CASE Connect \/ Restart
  BY <1>1, OutOfStep DEF Connect, Restart
<1>2. CASE Finish
  BY <1>2, OutOfStep DEF Finish, Running
<1>3. CASE Shake
  <2>1. CASE pc' = "loop" /\ UNCHANGED <<synced, toCore, toServer>>
    <3>1. ~synced
      BY <1>3 DEF Shake, LinkInv, Running
    <3> QED
      BY <2>1, <3>1, OutOfStep
  <2>2. CASE pc' = "shaken" /\ toCore' = << >> /\ toServer' = << >>
    <3>1. \A S : Without(toCore', S) /\ Without(toServer', S) /\ AtMostOne(toCore', S)
      BY <2>2, Empty
    <3>2. ~Handling' /\ ~BusyUpdate' /\ ~BusyAnswer'
      BY <2>2 DEF Handling, BusyUpdate, BusyAnswer
    <3>3. ~During'
      BY <1>3 DEF Shake, During
    <3>4. BeforeInv'
      BY <3>1, <3>2 DEF BeforeInv
    <3> QED
      BY <3>3, <3>4 DEF Exchange, BegunInv, TokenInv, FitInv
  <2> QED
    BY <1>3, <2>1, <2>2 DEF Shake
<1> QED
  BY <1>1, <1>2, <1>3

(* A message is read: what was on its way is now handled.                  *)
LEMMA ReceiveStep ==
  ASSUME TypeOK, Exchange, Receive
  PROVE  Exchange'
<1>1. CASE ~synced
  BY <1>1, OutOfStep DEF Receive, Heard
<1>2. CASE synced
  <2>1. /\ toCore # << >> /\ msg' = Head(toCore) /\ toCore' = Tail(toCore)
        /\ pc' = "body"
        /\ UNCHANGED <<updating, chunk_index, toServer, begun, cursor, excused, synced>>
    BY <1>2 DEF Receive, Heard, update, server
  <2>2. Running
    BY <1>2 DEF Receive, Heard, Polling, Running
  <2>3. /\ (Before' => Before) /\ (During' => During) /\ ~BusyAnswer'
        /\ Handling' /\ ~(pc = "reply")'
    BY <2>1, <2>2 DEF Before, During, BusyAnswer, Handling
  <2>4. \A S : Without(toCore, S) => msg' \notin S /\ Without(toCore', S)
    BY <2>1, Taken DEF TypeOK
  <2>5. \A S : AtMostOne(toCore, S) => AtMostOne(toCore', S)
    BY <2>1, Taken DEF TypeOK
  <2>6. AtMostOne(toCore, Update) /\ msg' \in Update =>
          Without(toCore', Update) /\ ~Without(toCore, Update)
    BY <2>1, <2>4, Taken DEF TypeOK
  <2>7. BeforeInv'
    BY <2>1, <2>3, <2>4, <2>5, <2>6 DEF Exchange, BeforeInv, BusyUpdate
  <2>8. BegunInv'
    BY <2>1, <2>3, <2>4 DEF Exchange, BegunInv
  <2>9. TokenInv'
    BY <2>1, <2>3, <2>4, <2>5, <2>6 DEF Exchange, TokenInv, BusyUpdate
  <2>10. FitInv'
    BY <2>1, <2>3, <2>4 DEF Exchange, FitInv
  <2> QED
    BY <2>7, <2>8, <2>9, <2>10 DEF Exchange
<1> QED
  BY <1>1, <1>2

(* Something that asks for no chunk is sent to the server: a ping, a value *)
LEMMA SentAside ==
  ASSUME TypeOK, Exchange, Running, NEW m \in Messages, ~Elicits(m),
         \A n, c : Answers(m, n, c),
         toServer' = Append(toServer, m), pc' = "idle",
         UNCHANGED <<updating, chunk_index, toCore, begun, cursor, excused>>,
         synced' => synced
  PROVE  Exchange'
<1>1. m \notin Eliciting /\ m \notin Misanswers(chunk_index, cursor)
  BY DEF Eliciting, Misanswers
<1>2. \A S : m \notin S /\ Without(toServer, S) => Without(toServer', S)
  BY Appended DEF TypeOK
<1>3. \A S : m \notin S /\ AtMostOne(toServer, S) => AtMostOne(toServer', S)
  BY Appended DEF TypeOK
<1>4. ~Handling' /\ ~BusyUpdate' /\ ~BusyAnswer' /\ ~(pc = "reply")'
  BY DEF Handling, BusyUpdate, BusyAnswer
<1>5. (Before' => Before) /\ (During' => During)
  BY DEF Before, During
<1>6. BeforeInv'
  BY <1>1, <1>2, <1>4, <1>5 DEF Exchange, BeforeInv
<1>7. BegunInv'
  BY <1>4, <1>5 DEF Exchange, BegunInv
<1>8. TokenInv'
  BY <1>1, <1>2, <1>3, <1>4, <1>5 DEF Exchange, TokenInv
<1>9. FitInv'
  BY <1>1, <1>2, <1>4, <1>5 DEF Exchange, FitInv
<1> QED
  BY <1>6, <1>7, <1>8, <1>9 DEF Exchange

LEMMA PingStep ==
  ASSUME TypeOK, Exchange, Ping
  PROVE  Exchange'
<1>1. /\ Running /\ pc' = "idle" /\ (synced' => synced)
      /\ UNCHANGED <<updating, chunk_index, toCore, begun, cursor, excused>>
  BY DEF Ping, Pinging, NoMessage, Polling, Running, Return, update, server
<1>2. CASE toServer' = toServer
  <2>1. Quiet
    BY <1>1, <1>2 DEF Quiet, Running
  <2> QED
    BY <2>1, QuietKeeps
<1>3. CASE toServer' = Append(toServer, Msg("ping", 0))
  <2>1. Msg("ping", 0) \in Messages /\ Msg("ping", 0).kind = "ping"
    BY MsgType DEF ToServer
  <2>2. ~Elicits(Msg("ping", 0)) /\ \A n, c : Answers(Msg("ping", 0), n, c)
    BY <2>1 DEF Elicits, Answers
  <2> QED
    BY <1>1, <1>3, <2>1, <2>2, SentAside
<1> QED
  BY <1>2, <1>3 DEF Ping, Pinging, Send

(* An answer of the core is sent.                                          *)
LEMMA ReplyStep ==
  ASSUME TypeOK, Exchange, Reply
  PROVE  Exchange'
<1>1. /\ pc = "reply" /\ Running /\ pc' = "idle"
      /\ UNCHANGED <<updating, chunk_index, toCore, begun, cursor, excused, synced>>
  BY DEF Reply, GiveUp, Return, Running, update, server
<1>2. CASE toServer' = toServer
  <2>1. Quiet
    BY <1>1, <1>2 DEF Quiet, Running
  <2> QED
    BY <2>1, QuietKeeps
<1>3. CASE toServer' = Append(toServer, msg)
  <2>1. (Before' => Before) /\ (During' => During)
    BY <1>1 DEF Before, During
  <2>2. ~Handling' /\ ~BusyUpdate' /\ ~BusyAnswer' /\ ~(pc = "reply")'
    BY <1>1 DEF Handling, BusyUpdate, BusyAnswer
  <2>3. \A S : /\ Without(toServer, S) => AtMostOne(toServer', S)
               /\ Without(toServer, S) /\ msg \notin S => Without(toServer', S)
               /\ AtMostOne(toServer, S) /\ msg \notin S => AtMostOne(toServer', S)
    BY <1>3, Appended DEF TypeOK
  <2>4. BusyAnswer <=> msg \in Eliciting
    BY <1>1 DEF BusyAnswer
  <2>5. BeforeInv'
    BY <1>1, <2>1, <2>2, <2>3, <2>4 DEF Exchange, BeforeInv
  <2>6. BegunInv'
    BY <1>1, <2>1, <2>2 DEF Exchange, BegunInv
  <2>7. TokenInv'
    BY <1>1, <2>1, <2>2, <2>3, <2>4 DEF Exchange, TokenInv
  <2>8. FitInv'
    BY <1>1, <2>1, <2>2, <2>3 DEF Exchange, FitInv
  <2> QED
    BY <2>5, <2>6, <2>7, <2>8 DEF Exchange
<1> QED
  BY <1>2, <1>3 DEF Reply, Send, Sent

(* A chunk is asked for again; while one is under way this is excused.     *)
LEMMA AskAgainStep ==
  ASSUME TypeOK, LinkInv, Exchange, AskAgain
  PROVE  Exchange'
<1> DEFINE m == Msg("missed", chunk_index)
<1>1. /\ Running /\ updating /\ pc' = "idle" /\ (synced' => synced)
      /\ UNCHANGED <<updating, chunk_index, toCore, begun, cursor>>
  BY DEF AskAgain, Missing, NoMessage, Polling, Running, GiveUp, Return, server
<1>2. CASE UNCHANGED <<toServer, excused>>
  <2>1. Quiet
    BY <1>1, <1>2 DEF Quiet, Running
  <2> QED
    BY <2>1, QuietKeeps
<1>3. CASE toServer' = Append(toServer, m) /\ excused' = (excused \/ UnderWay)
  <2>1. ~Before' /\ (During' => During)
    BY <1>1 DEF Before, During
  <2>2. ~Handling' /\ ~BusyUpdate' /\ ~BusyAnswer' /\ ~(pc = "reply")'
    BY <1>1 DEF Handling, BusyUpdate, BusyAnswer
  <2>3. m \in Messages /\ m.kind = "missed" /\ m.no = chunk_index
    BY MsgType DEF TypeOK, ToServer
  <2>4. m \notin Misanswers(chunk_index, cursor)
    BY <2>3 DEF Misanswers, Answers
  <2>5. BeforeInv' /\ BegunInv'
    BY <1>1, <2>1, <2>2 DEF Exchange, BeforeInv, BegunInv
  <2>6. CASE excused'
    BY <2>5, <2>6 DEF Exchange, TokenInv, FitInv
  <2>7. CASE ~excused' /\ ~During'
    BY <2>5, <2>7 DEF Exchange, TokenInv, FitInv
  <2>8. CASE ~excused' /\ During'
    <3>1. During /\ ~excused /\ ~UnderWay
      BY <1>3, <2>1, <2>8
    <3>2. Without(toServer, Eliciting)
      BY <3>1 DEF UnderWay, Without, Eliciting, TypeOK
    <3>3. Without(toCore, Update) \/ m \notin Eliciting
      <4> SUFFICES ASSUME NEW i \in 1..Len(toCore), toCore[i] \in Update
                   PROVE  m \notin Eliciting
        BY DEF Without
      <4>1. toCore[i].kind # "chunk"
        BY <3>1 DEF UnderWay, TypeOK
      <4>2. toCore[i].kind # "begin"
        BY <3>1 DEF Exchange, BegunInv, Without, Of, Update
      <4>3. toCore[i].kind = "done" /\ toCore[i] \in Messages
        BY <4>1, <4>2 DEF Update, Of
      <4>4. toCore[i] \notin Misfits(chunk_index, cursor)
        BY <3>1 DEF Exchange, FitInv, Without
      <4>5. chunk_index = Chunks
        BY <4>3, <4>4 DEF Misfits, Fits
      <4> QED
        BY <2>3, <4>5, ProtocolAssumption DEF Eliciting, Elicits
    <3>4. /\ AtMostOne(toServer', Eliciting)
          /\ m \notin Eliciting => Without(toServer', Eliciting)
      BY <1>3, <2>3, <3>2, Appended DEF TypeOK
    <3>5. AtMostOne(toCore', Update)
      BY <1>1, <3>1 DEF Exchange, TokenInv
    <3>6. TokenInv'
      BY <1>1, <2>2, <3>3, <3>4, <3>5 DEF TokenInv
    <3>7. Without(toServer', Misanswers(chunk_index, cursor))
      BY <1>3, <2>3, <2>4, <3>1, Appended DEF Exchange, FitInv, TypeOK
    <3>8. FitInv'
      BY <1>1, <2>2, <3>1, <3>7 DEF Exchange, FitInv
    <3> QED
      BY <2>5, <3>6, <3>8 DEF Exchange
  <2> QED
    BY <2>6, <2>7, <2>8
<1> QED
  BY <1>2, <1>3 DEF AskAgain, Missing, Send

(* Without an update's message nothing misfits, whatever the index.        *)
LEMMA NothingMisfits ==
  ASSUME NEW s, NEW n, NEW c
  PROVE  /\ Without(s, Update) => Without(s, Misfits(n, c))
         /\ Without(s, Eliciting) => Without(s, Misanswers(n, c))
<1>1. Misfits(n, c) \subseteq Update
  BY DEF Misfits, Fits, Update, Of
<1>2. Misanswers(n, c) \subseteq Eliciting
  BY DEF Misanswers, Answers, Eliciting, Elicits
<1> QED
  BY <1>1, <1>2, WithoutSubset

(* A chunk is being handled: an update is under way, and the chunk is the  *)
(* next one and the only message of the exchange.                          *)
LEMMA ChunkAtHand ==
  ASSUME TypeOK, LinkInv, Exchange, pc = "act", msg.kind = "chunk"
  PROVE  /\ During
         /\ ~excused => /\ Without(toCore, Update) /\ Without(toServer, Eliciting)
                       /\ msg.no = chunk_index /\ chunk_index < Chunks
                       /\ cursor = chunk_index
<1>1. Handling /\ Running /\ synced /\ msg \in Messages
  BY DEF Handling, Running, LinkInv, TypeOK
<1>2. msg \in Update /\ msg \in Of({"chunk", "done"})
  BY <1>1 DEF Update, Of
<1>3. During
  BY <1>1, <1>2 DEF Exchange, BeforeInv, Before, During, TypeOK
<1>4. ASSUME ~excused
      PROVE  /\ Without(toCore, Update) /\ Without(toServer, Eliciting)
             /\ msg \notin Misfits(chunk_index, cursor)
  BY <1>1, <1>2, <1>3, <1>4 DEF Exchange, TokenInv, FitInv, BusyUpdate
<1> QED
  BY <1>1, <1>3, <1>4 DEF Misfits, Fits

(* ... and it is answered.                                                 *)
LEMMA ChunkAnswered ==
  ASSUME TypeOK, LinkInv, Exchange, pc = "act", msg.kind = "chunk", pc' = "reply",
         UNCHANGED <<updating, toCore, toServer, begun, cursor, synced>>,
         excused => excused',
         ~excused' => Answers(msg', chunk_index', cursor)
  PROVE  Exchange'
<1>1. During /\ ~Before' /\ Handling
  BY ChunkAtHand DEF Before, During, Handling
<1>2. ~Handling' /\ ~BusyUpdate'
  BY DEF Handling, BusyUpdate
<1>3. BeforeInv' /\ BegunInv'
  BY <1>1, <1>2 DEF Exchange, BeforeInv, BegunInv
<1>4. CASE excused'
  BY <1>3, <1>4 DEF Exchange, TokenInv, FitInv
<1>5. CASE ~excused'
  <2>1. Without(toCore, Update) /\ Without(toServer, Eliciting)
    BY <1>5, ChunkAtHand
  <2>2. AtMostOne(toCore, Update) /\ AtMostOne(toServer, Eliciting)
    BY <2>1, WithoutOne
  <2>3. TokenInv'
    BY <2>1, <2>2 DEF TokenInv
  <2>4. /\ Without(toCore, Misfits(chunk_index', cursor))
        /\ Without(toServer, Misanswers(chunk_index', cursor))
    BY <2>1, NothingMisfits
  <2>5. msg' \notin Misanswers(chunk_index', cursor)
    BY <1>5 DEF Misanswers
  <2>6. FitInv'
    BY <1>2, <2>4, <2>5 DEF FitInv
  <2> QED
    BY <1>3, <2>3, <2>6 DEF Exchange
<1> QED
  BY <1>4, <1>5

LEMMA BadChunkStep ==
  ASSUME TypeOK, LinkInv, Exchange, BadChunk
  PROVE  Exchange'
<1>1. /\ pc = "act" /\ pc' = "reply" /\ msg' = Msg("bad", 0)
      /\ msg.kind \in {"chunk", "junk"}
      /\ UNCHANGED <<updating, chunk_index, toCore, toServer, begun, cursor, synced, excused>>
  BY DEF BadChunk, Saving, link, server
<1>2. CASE msg.kind = "junk"
  <2>1. ~synced
    BY <1>1, <1>2 DEF LinkInv, Handling
  <2> QED
    BY <1>1, <2>1, OutOfStep
<1>3. CASE msg.kind = "chunk"
  <2>1. msg'.kind = "bad"
    BY <1>1, MsgType DEF ToServer
  <2>2. ~excused => cursor = chunk_index /\ chunk_index < Chunks
    BY <1>1, <1>3, ChunkAtHand
  <2>3. ~excused => Answers(msg', chunk_index, cursor)
    BY <2>1, <2>2 DEF Answers
  <2> QED
    BY <1>1, <1>3, <2>3, ChunkAnswered
<1> QED
  BY <1>1, <1>2, <1>3

LEMMA WrittenStep ==
  ASSUME TypeOK, LinkInv, Exchange, Written
  PROVE  Exchange'
<1>1. /\ pc = "act" /\ msg.kind = "chunk" /\ pc' = "reply"
      /\ chunk_index' = chunk_index + 1 /\ msg' = Verdict(chunk_index + 1)
      /\ UNCHANGED <<updating, toCore, toServer, begun, cursor, synced, excused>>
  BY DEF Written, Saving, link, server
<1>2. chunk_index \in Nat /\ Chunks \in Nat
  BY ProtocolAssumption DEF TypeOK
<1>3. msg' = Msg("ok", 0) /\ msg'.kind = "ok"
  BY <1>1, <1>2, MsgType DEF Verdict, ToServer
<1>4. ~excused => cursor = chunk_index /\ chunk_index < Chunks
  BY <1>1, ChunkAtHand
<1>5. ~excused => Answers(msg', chunk_index', cursor)
  BY <1>1, <1>2, <1>3, <1>4 DEF Answers
<1> QED
  BY <1>1, <1>5, ChunkAnswered

(* What a failed write leaves of the image, where it is promised.          *)
LEMMA Erased ==
  ASSUME TypeOK, LinkInv, Exchange, InOrder, NotWritten, ~excused'
  PROVE  /\ ~excused /\ chunk_index' \in Nat /\ chunk_index' <= chunk_index
         /\ chunk_index < Chunks
         /\ Start(chunk_index') <= Len(flash)
         /\ flash' = SubSeq(flash, 1, Start(chunk_index'))
         /\ msg' = Verdict(chunk_index')
<1> DEFINE base == PageOf(Len(flash))
           size == Size(msg.no)
<1>1. /\ pc = "act" /\ msg.kind = "chunk"
      /\ flash' = SubSeq(flash, 1, base) /\ chunk_index' = base \div size
      /\ msg' = Verdict(base \div size)
      /\ excused' = (excused \/ (base > 0 /\ size # ChunkSize))
  BY DEF NotWritten, Saving
<1>2. chunk_index \in Nat /\ Chunks \in Nat /\ msg.no \in Nat
  BY ProtocolAssumption DEF TypeOK, Messages
<1>3. ~excused /\ (~(base > 0) \/ size = ChunkSize)
  BY <1>1
<1>4. msg.no = chunk_index /\ chunk_index < Chunks
  BY <1>1, <1>3, ChunkAtHand
<1>5. Len(flash) = Start(chunk_index)
  BY <1>2, <1>3, <1>4 DEF InOrder
<1>6. base = PageOf(Start(chunk_index)) /\ size \in Nat \ {0}
  BY <1>2, <1>5, SizeType
<1>7. base \in Nat
  BY <1>2, <1>6, SizeType, PageType
<1> HIDE DEF base, size
<1>8. base = 0 \/ size = ChunkSize
  BY <1>3, <1>7
<1>9. /\ base <= Start(chunk_index)
      /\ base \div size \in Nat /\ base \div size <= chunk_index
      /\ Start(base \div size) = base
  BY <1>2, <1>6, <1>8, Rewound
<1> QED
  BY <1>1, <1>3, <1>4, <1>5, <1>9

LEMMA NotWrittenStep ==
  ASSUME TypeOK, LinkInv, Exchange, InOrder, NotWritten
  PROVE  Exchange'
<1>1. /\ pc = "act" /\ msg.kind = "chunk" /\ pc' = "reply"
      /\ UNCHANGED <<updating, toCore, toServer, begun, cursor, synced>>
      /\ (excused => excused')
  BY DEF NotWritten, Saving, link, server
<1>2. ASSUME ~excused'
      PROVE  Answers(msg', chunk_index', cursor)
  <2>1. chunk_index' \in Nat /\ chunk_index' <= chunk_index /\ msg' = Verdict(chunk_index')
    BY <1>2, Erased
  <2>2. chunk_index \in Nat
    BY DEF TypeOK
  <2>3. msg' = Msg("missed", chunk_index')
    BY <2>1, <2>2 DEF Verdict
  <2>4. msg'.kind = "missed" /\ msg'.no = chunk_index'
    BY <2>1, <2>3, MsgType DEF ToServer
  <2> QED
    BY <2>4 DEF Answers
<1> QED
  BY <1>1, <1>2, ChunkAnswered

LEMMA PrepareStep ==
  ASSUME TypeOK, LinkInv, Exchange, Prepare
  PROVE  Exchange'
<1>1. /\ pc = "act" /\ msg.kind = "begin" /\ pc' = "reply" /\ msg' = Msg("ready", 0)
      /\ chunk_index' = 0 /\ updating' /\ ~excused'
      /\ UNCHANGED <<toCore, toServer, begun, cursor, synced>>
  BY DEF Prepare, link, server
<1>2. CASE ~synced
  BY <1>1, <1>2, OutOfStep
<1>3. CASE synced
  <2>1. Handling /\ Running /\ msg \in Messages
    BY <1>1 DEF Handling, Running, TypeOK
  <2>2. msg \in Update /\ msg \in Of({"begin"})
    BY <1>1, <2>1 DEF Update, Of
  <2>3. Before
    BY <1>3, <2>1, <2>2 DEF Exchange, BegunInv, Before, During, TypeOK
  <2>4. begun /\ Without(toCore, Update) /\ Without(toServer, Eliciting)
    BY <2>1, <2>2, <2>3 DEF Exchange, BeforeInv, BusyUpdate
  <2>5. Of({"begin"}) \subseteq Update
    BY DEF Of, Update
  <2>6. ~Handling' /\ ~BusyUpdate' /\ ~Before'
    BY <1>1 DEF Handling, BusyUpdate, Before
  <2>7. BeforeInv' /\ BegunInv'
    BY <1>1, <2>4, <2>5, <2>6, WithoutSubset DEF BeforeInv, BegunInv
  <2>8. AtMostOne(toCore, Update) /\ AtMostOne(toServer, Eliciting)
    BY <2>4, WithoutOne
  <2>9. TokenInv'
    BY <1>1, <2>4, <2>8 DEF TokenInv
  <2>10. /\ Without(toCore, Misfits(chunk_index', cursor))
         /\ Without(toServer, Misanswers(chunk_index', cursor))
    BY <2>4, NothingMisfits
  <2>11. msg' \in Messages /\ msg'.kind = "ready"
    BY <1>1, MsgType DEF ToServer
  <2>12. msg' \notin Misanswers(chunk_index', cursor)
    BY <1>1, <2>11 DEF Misanswers, Answers
  <2>13. FitInv'
    BY <1>1, <2>6, <2>10, <2>12 DEF FitInv
  <2> QED
    BY <2>7, <2>9, <2>13 DEF Exchange
<1> QED
  BY <1>2, <1>3 DEF TypeOK

(* A call is answered with its value, beside an update or without one.     *)
LEMMA CallStep ==
  ASSUME TypeOK, Exchange, Call
  PROVE  Exchange'
<1>1. /\ pc = "act" /\ msg.kind = "call"
      /\ UNCHANGED <<updating, chunk_index, toCore, toServer, begun, cursor, excused, synced>>
  BY DEF Call, update, link, server
<1>2. CASE pc' = "idle"
  <2>1. Quiet
    BY <1>1, <1>2 DEF Quiet, Running
  <2> QED
    BY <2>1, QuietKeeps
<1>3. CASE pc' = "reply" /\ msg' = Msg("value", 0)
  <2>1. msg' \in Messages /\ msg'.kind = "value"
    BY <1>3, MsgType DEF ToServer
  <2>2. msg' \notin Eliciting /\ msg' \notin Misanswers(chunk_index, cursor)
    BY <2>1 DEF Eliciting, Elicits, Misanswers, Answers
  <2>3. ~Handling' /\ ~BusyUpdate' /\ ~BusyAnswer'
    BY <1>3, <2>2 DEF Handling, BusyUpdate, BusyAnswer
  <2>4. (Before' => Before) /\ (During' => During)
    BY <1>1 DEF Before, During, Running
  <2>5. BeforeInv' /\ BegunInv'
    BY <1>1, <2>3, <2>4 DEF Exchange, BeforeInv, BegunInv
  <2>6. TokenInv'
    BY <1>1, <2>3, <2>4 DEF Exchange, TokenInv
  <2>7. FitInv'
    BY <1>1, <2>2, <2>3, <2>4 DEF Exchange, FitInv
  <2> QED
    BY <2>5, <2>6, <2>7 DEF Exchange
<1> QED
  BY <1>2, <1>3 DEF Call, GiveUp, Return

-----------------------------------------------------------------------------
(* The server's steps.                                                     *)

LEMMA TalkStep ==
  ASSUME TypeOK, Exchange, Talk
  PROVE  Exchange'
<1>1. /\ ~begun
      /\ UNCHANGED <<pc, msg, updating, chunk_index, toServer, begun, cursor, excused, synced>>
  BY DEF Talk, Tell, Outside, update, server
<1>2. PICK m \in Messages : m.kind \in {"request", "call"} /\ toCore' = Append(toCore, m)
  <2>1. \A kind \in {"request", "call"} :
          Msg(kind, 0) \in Messages /\ Msg(kind, 0).kind = kind
    BY MsgType DEF ToCore
  <2> QED
    BY <2>1 DEF Talk, Tell
<1>3. m \notin Update /\ m \notin Of({"chunk", "done"})
  BY <1>2 DEF Update, Of
<1>4. /\ Without(toCore, Update) => Without(toCore', Update)
      /\ AtMostOne(toCore, Update) => AtMostOne(toCore', Update)
      /\ Without(toCore, Of({"chunk", "done"})) => Without(toCore', Of({"chunk", "done"}))
  BY <1>2, <1>3, Appended DEF TypeOK
<1>5. /\ Before' <=> Before
      /\ Handling' <=> Handling
      /\ BusyUpdate' <=> BusyUpdate
      /\ BusyAnswer' <=> BusyAnswer
  BY <1>1 DEF Before, Handling, BusyUpdate, BusyAnswer, Running
<1>6. ~During'
  BY <1>1 DEF Exchange, BegunInv, During, Running
<1>7. BeforeInv'
  BY <1>1, <1>4, <1>5 DEF Exchange, BeforeInv
<1> QED
  BY <1>6, <1>7 DEF Exchange, BegunInv, TokenInv, FitInv

LEMMA BeginStep ==
  ASSUME TypeOK, Exchange, Begin
  PROVE  Exchange'
<1>1. /\ ~begun /\ begun'
      /\ UNCHANGED <<pc, msg, updating, chunk_index, toServer, excused, synced>>
      /\ toCore' = Append(toCore, Msg("begin", 0))
  BY DEF Begin, Tell, Outside, update
<1>2. Msg("begin", 0) \in Messages /\ Msg("begin", 0).kind = "begin"
  BY MsgType DEF ToCore
<1>3. Msg("begin", 0) \notin Of({"chunk", "done"})
  BY <1>2 DEF Of
<1>4. /\ Without(toCore, Update) => AtMostOne(toCore', Update)
      /\ Without(toCore, Of({"chunk", "done"})) => Without(toCore', Of({"chunk", "done"}))
  BY <1>1, <1>2, <1>3, Appended DEF TypeOK
<1>5. /\ Before' <=> Before
      /\ Handling' <=> Handling
      /\ BusyUpdate' <=> BusyUpdate
      /\ BusyAnswer' <=> BusyAnswer
  BY <1>1 DEF Before, Handling, BusyUpdate, BusyAnswer, Running
<1>6. ~During'
  BY <1>1 DEF Exchange, BegunInv, During, Running
<1>7. BeforeInv'
  BY <1>1, <1>4, <1>5 DEF Exchange, BeforeInv
<1> QED
  BY <1>6, <1>7 DEF Exchange, BegunInv, TokenInv, FitInv

LEMMA IgnoreStep ==
  ASSUME TypeOK, Exchange, Ignore
  PROVE  Exchange'
<1>1. /\ toServer # << >> /\ toServer' = Tail(toServer)
      /\ UNCHANGED <<pc, msg, updating, chunk_index, toCore, begun, cursor, excused, synced>>
  BY DEF Ignore, Read, Outside, update, server
<1>2. \A S : /\ Without(toServer, S) => Without(toServer', S)
             /\ AtMostOne(toServer, S) => AtMostOne(toServer', S)
  BY <1>1, Taken DEF TypeOK
<1>3. /\ Before' <=> Before
      /\ During' <=> During
      /\ Handling' <=> Handling
      /\ BusyUpdate' <=> BusyUpdate
      /\ BusyAnswer' <=> BusyAnswer
  BY <1>1 DEF Before, During, Handling, BusyUpdate, BusyAnswer, Running
<1>4. BeforeInv'
  BY <1>1, <1>2, <1>3 DEF Exchange, BeforeInv
<1>5. BegunInv'
  BY <1>1, <1>3 DEF Exchange, BegunInv
<1>6. TokenInv'
  BY <1>1, <1>2, <1>3 DEF Exchange, TokenInv
<1>7. FitInv'
  BY <1>1, <1>2, <1>3 DEF Exchange, FitInv
<1> QED
  BY <1>4, <1>5, <1>6, <1>7 DEF Exchange

(* What the server's answer is to an answer of the core that fits.         *)
LEMMA AnswerFits ==
  ASSUME TypeOK, Answer
  PROVE  \E m \in Messages :
           /\ toCore' = Append(toCore, m)
           /\ m.kind \in {"ack", "done", "chunk"}
           /\ m.kind # "ack" => Elicits(Head(toServer))
           /\ m.kind = "ack" => cursor' = cursor
           /\ \A n \in Nat : Answers(Head(toServer), n, cursor) => Fits(m, n, cursor')
<1> DEFINE h == Head(toServer)
<1>1. h \in Messages
  BY Taken DEF Answer, Read, TypeOK
<1>2. h.no \in Nat /\ cursor \in Nat /\ cursor + 1 \in Nat /\ Chunks \in Nat
  <2>1. h.no \in Nat
    BY <1>1 DEF Messages
  <2>2. cursor \in Nat
    BY DEF TypeOK
  <2>3. cursor + 1 \in Nat
    BY <2>2
  <2>4. Chunks \in Nat
    BY ProtocolAssumption
  <2> QED BY <2>1, <2>2, <2>3, <2>4
<1> HIDE DEF h
<1>3. ASSUME NEW k \in Nat, SendChunk(k), Elicits(h),
             \A n \in Nat : Answers(h, n, cursor) => n = k
      PROVE  \E m \in Messages :
               /\ toCore' = Append(toCore, m) /\ m.kind = "chunk"
               /\ \A n \in Nat : Answers(h, n, cursor) => Fits(m, n, cursor')
  <2>1. /\ k < Chunks /\ toCore' = Append(toCore, Msg("chunk", k)) /\ cursor' = k
    BY <1>3 DEF SendChunk, Tell
  <2>2. /\ Msg("chunk", k) \in Messages
        /\ Msg("chunk", k).kind = "chunk" /\ Msg("chunk", k).no = k
    BY MsgType DEF ToCore
  <2>3. Fits(Msg("chunk", k), k, cursor')
    BY <2>1, <2>2 DEF Fits
  <2> QED
    BY <1>3, <2>1, <2>2, <2>3
<1>4. CASE h.kind = "ping" /\ Tell(Msg("ack", 0)) /\ UNCHANGED <<cursor, sends>>
  <2>1. Msg("ack", 0) \in Messages /\ Msg("ack", 0).kind = "ack"
    BY MsgType DEF ToCore
  <2>2. \A n : Fits(Msg("ack", 0), n, cursor')
    BY <2>1 DEF Fits
  <2> QED
    BY <1>4, <2>1, <2>2 DEF Tell, h
<1>5. CASE h.kind = "ready" /\ SendChunk(0)
  <2>1. Elicits(h) /\ \A n \in Nat : Answers(h, n, cursor) => n = 0
    BY <1>5 DEF Elicits, Answers
  <2> QED
    BY <1>3, <1>5, <2>1 DEF h
<1>6. CASE h.kind = "ok" /\ SendChunk(cursor + 1)
  <2>1. Elicits(h) /\ \A n \in Nat : Answers(h, n, cursor) => n = cursor + 1
    BY <1>6 DEF Elicits, Answers
  <2> QED
    BY <1>2, <1>3, <1>6, <2>1 DEF h
<1>7. CASE h.kind = "ok" /\ cursor + 1 = Chunks /\ Tell(Msg("done", 0))
  <2>1. Elicits(h) /\ \A n \in Nat : Answers(h, n, cursor) => n = Chunks
    BY <1>7 DEF Elicits, Answers
  <2>2. Msg("done", 0) \in Messages /\ Msg("done", 0).kind = "done"
    BY MsgType DEF ToCore
  <2>3. \A n \in Nat : Answers(h, n, cursor) => Fits(Msg("done", 0), n, cursor')
    BY <2>1, <2>2 DEF Fits
  <2> QED
    BY <1>7, <2>1, <2>2, <2>3 DEF Tell, h
<1>8. CASE h.kind = "bad" /\ SendChunk(cursor)
  <2>1. Elicits(h) /\ \A n \in Nat : Answers(h, n, cursor) => n = cursor
    BY <1>8 DEF Elicits, Answers
  <2> QED
    BY <1>2, <1>3, <1>8, <2>1 DEF h
<1>9. CASE h.kind = "missed" /\ SendChunk(h.no)
  <2>1. h.no < Chunks
    BY <1>9 DEF SendChunk
  <2>2. Elicits(h) /\ \A n \in Nat : Answers(h, n, cursor) => n = h.no
    BY <1>9, <2>1 DEF Elicits, Answers
  <2> QED
    BY <1>2, <1>3, <1>9, <2>2 DEF h
<1> QED
  BY <1>4, <1>5, <1>6, <1>7, <1>8, <1>9 DEF Answer, h

LEMMA AnswerStep ==
  ASSUME TypeOK, Exchange, Answer
  PROVE  Exchange'
<1> DEFINE h == Head(toServer)
<1>1. /\ toServer # << >> /\ toServer' = Tail(toServer)
      /\ UNCHANGED <<pc, msg, updating, chunk_index, begun, excused, synced>>
  BY DEF Answer, Read, SendChunk, Tell, Outside, update
<1>2. PICK m \in Messages :
        /\ toCore' = Append(toCore, m)
        /\ m.kind \in {"ack", "done", "chunk"}
        /\ m.kind # "ack" => Elicits(h)
        /\ m.kind = "ack" => cursor' = cursor
        /\ \A n \in Nat : Answers(h, n, cursor) => Fits(m, n, cursor')
  BY AnswerFits
<1>3. h \in Messages
  BY <1>1, Taken DEF TypeOK
<1>4. \A S : /\ Without(toServer, S) => h \notin S /\ Without(toServer', S)
             /\ AtMostOne(toServer, S) => AtMostOne(toServer', S)
             /\ AtMostOne(toServer, S) /\ h \in S => Without(toServer', S)
  BY <1>1, Taken DEF TypeOK
<1>5. \A S : /\ Without(toCore, S) => AtMostOne(toCore', S)
             /\ Without(toCore, S) /\ m \notin S => Without(toCore', S)
             /\ AtMostOne(toCore, S) /\ m \notin S => AtMostOne(toCore', S)
  BY <1>2, Appended DEF TypeOK
<1> HIDE DEF h
<1>6. /\ Before' <=> Before
      /\ During' <=> During
      /\ Handling' <=> Handling
      /\ BusyUpdate' <=> BusyUpdate
      /\ BusyAnswer' <=> BusyAnswer
  BY <1>1 DEF Before, During, Handling, BusyUpdate, BusyAnswer, Running
<1>7. m \notin Of({"begin"}) /\ (m.kind = "ack" => m \notin Update)
      /\ (m.kind = "ack" => m \notin Of({"chunk", "done"}))
  BY <1>2 DEF Of, Update
<1>8. Elicits(h) <=> h \in Eliciting
  BY <1>3 DEF Eliciting
<1>9. BeforeInv'
  <2> SUFFICES ASSUME Before PROVE BeforeInv'
    BY <1>6 DEF BeforeInv
  <2>1. h \notin Eliciting /\ Without(toServer', Eliciting)
    BY <1>4 DEF Exchange, BeforeInv
  <2>2. m \notin Update /\ m \notin Of({"chunk", "done"})
    BY <1>2, <1>7, <1>8, <2>1
  <2> QED
    BY <1>1, <1>5, <1>6, <2>1, <2>2 DEF Exchange, BeforeInv
<1>10. BegunInv'
  BY <1>1, <1>5, <1>6, <1>7 DEF Exchange, BegunInv
<1>11. ASSUME During, ~excused
       PROVE  TokenInv' /\ FitInv'
  <2>1. h \notin Misanswers(chunk_index, cursor)
    BY <1>4, <1>11 DEF Exchange, FitInv
  <2>2. Fits(m, chunk_index, cursor')
    BY <1>2, <1>3, <2>1 DEF Misanswers, TypeOK
  <2>3. m \notin Misfits(chunk_index, cursor')
    BY <2>2 DEF Misfits
  <2>4. CASE h \notin Eliciting
    <3>1. cursor' = cursor /\ m \notin Update
      BY <1>2, <1>7, <1>8, <2>4
    <3>2. TokenInv'
      BY <1>1, <1>4, <1>5, <1>6, <1>11, <3>1 DEF Exchange, TokenInv
    <3>3. FitInv'
      BY <1>1, <1>4, <1>5, <1>6, <1>11, <2>3, <3>1 DEF Exchange, FitInv
    <3> QED
      BY <3>2, <3>3
  <2>5. CASE h \in Eliciting
    <3>1. ~Without(toServer, Eliciting) /\ Without(toServer', Eliciting)
      BY <1>4, <1>11, <2>5 DEF Exchange, TokenInv
    <3>2. Without(toCore, Update) /\ ~BusyUpdate /\ ~BusyAnswer
      BY <1>11, <3>1 DEF Exchange, TokenInv
    <3>3. AtMostOne(toCore', Update) /\ AtMostOne(toServer', Eliciting)
      BY <1>5, <3>1, <3>2, WithoutOne
    <3>4. TokenInv'
      BY <1>6, <3>1, <3>2, <3>3 DEF TokenInv
    <3>5. /\ Without(toCore, Misfits(chunk_index, cursor'))
          /\ Without(toServer', Misanswers(chunk_index, cursor'))
      BY <3>1, <3>2, NothingMisfits
    <3>6. Handling => msg \notin Misfits(chunk_index, cursor')
      BY <3>2 DEF BusyUpdate, Misfits, Fits, Update, Of
    <3>7. pc = "reply" => msg \notin Misanswers(chunk_index, cursor')
      BY <3>2 DEF BusyAnswer, Misanswers, Answers, Eliciting, Elicits
    <3>8. FitInv'
      BY <1>1, <1>5, <1>6, <2>3, <3>5, <3>6, <3>7 DEF FitInv
    <3> QED
      BY <3>4, <3>8
  <2> QED
    BY <2>4, <2>5
<1>12. TokenInv' /\ FitInv'
  BY <1>1, <1>6, <1>11 DEF TokenInv, FitInv
<1> QED
  BY <1>9, <1>10, <1>12 DEF Exchange

LEMMA ExchangeStep ==
  ASSUME TypeOK, LinkInv, Exchange, InOrder, [Next]_vars
  PROVE  Exchange'
<1>1. CASE \/ Shaken \/ ReceiveError \/ TimeOut \/ NothingDue \/ BodyFails \/ Body
           \/ Acknowledge \/ OnDisconnect \/ OnCloseWait \/ Elapse \/ FlashTimeout
           \/ UNCHANGED vars
  BY <1>1, QuietSteps, QuietKeeps
<1>2. CASE Connect \/ Shake \/ Restart \/ Finish
  BY <1>2, LinkSteps
<1>3. CASE Receive \/ AskAgain \/ Ping \/ Reply
  BY <1>3, ReceiveStep, AskAgainStep, PingStep, ReplyStep
<1>4. CASE Call \/ BadChunk \/ Written \/ NotWritten \/ Prepare
  BY <1>4, CallStep, BadChunkStep, WrittenStep, NotWrittenStep, PrepareStep
<1>5. CASE Talk \/ Begin \/ Answer \/ Ignore
  BY <1>5, TalkStep, BeginStep, AnswerStep, IgnoreStep
<1> QED
  BY <1>1, <1>2, <1>3, <1>4, <1>5 DEF Next, Thread, Server

-----------------------------------------------------------------------------
(* The image.                                                              *)

LEMMA Erasing ==
  ASSUME chunk_index' = 0, flash' = << >>
  PROVE  InOrder'
<1>1. Chunks \in Nat \ {0} /\ ChunkSize \in Nat
  BY ProtocolAssumption
<1>2. Start(0) = 0
  BY <1>1 DEF Start
<1> QED
  BY <1>1, <1>2 DEF InOrder

LEMMA WrittenInOrder ==
  ASSUME TypeOK, LinkInv, Exchange, InOrder, Written
  PROVE  InOrder'
<1> DEFINE n == chunk_index
<1>1. /\ pc = "act" /\ msg.kind = "chunk" /\ excused' = excused
      /\ flash' = flash \o Units(msg.no) /\ chunk_index' = n + 1
  BY DEF Written, Saving
<1>2. n \in Nat /\ Chunks \in Nat \ {0} /\ {ChunkSize, LastSize} \subseteq Nat \ {0}
  BY ProtocolAssumption DEF TypeOK
<1>3. ASSUME ~excused
      PROVE  /\ n + 1 <= Chunks
             /\ Len(flash') = IF n + 1 = Chunks THEN ImageSize ELSE Start(n + 1)
             /\ \A k \in DOMAIN flash' : flash'[k] = k - 1
  <2>1. msg.no = n /\ n < Chunks
    BY <1>1, <1>3, ChunkAtHand
  <2>2. Len(flash) = Start(n) /\ \A k \in 1..Len(flash) : flash[k] = k - 1
    BY <1>2, <1>3, <2>1, SMTT(30) DEF InOrder, TypeOK
  <2>3. /\ Size(n) \in Nat \ {0} /\ Start(n) \in Nat
        /\ Units(n) \in Seq(Nat) /\ Len(Units(n)) = Size(n)
        /\ \A k \in 1..Size(n) : Units(n)[k] = Start(n) + k - 1
    BY <1>2, SizeType
  <2>4. flash \in Seq(Nat)
    BY DEF TypeOK
  <2>5. /\ Len(flash \o Units(n)) = Start(n) + Size(n)
        /\ DOMAIN (flash \o Units(n)) = 1..(Start(n) + Size(n))
        /\ \A k \in 1..(Start(n) + Size(n)) :
             (flash \o Units(n))[k] =
               IF k <= Start(n) THEN flash[k] ELSE Units(n)[k - Start(n)]
    <3>1. /\ flash \o Units(n) \in Seq(Nat)
          /\ Len(flash \o Units(n)) = Len(flash) + Len(Units(n))
          /\ \A k \in 1..Len(flash) + Len(Units(n)) :
               (flash \o Units(n))[k] =
                 IF k <= Len(flash) THEN flash[k] ELSE Units(n)[k - Len(flash)]
      BY <2>3, <2>4, ConcatProperties
    <3>2. DOMAIN (flash \o Units(n)) = 1..Len(flash \o Units(n))
      BY <3>1
    <3>3. Len(flash) = Start(n) /\ Len(Units(n)) = Size(n)
      BY <2>2, <2>3
    <3> QED
      BY <3>1, <3>2, <3>3
  <2>6. \A k \in 1..(Start(n) + Size(n)) : (flash \o Units(n))[k] = k - 1
    BY <2>2, <2>3, <2>5
  <2>7. Start(n) + Size(n) = IF n + 1 = Chunks THEN ImageSize ELSE Start(n + 1)
    <3>1. CASE n + 1 = Chunks
      <4>1. n = Chunks - 1
        BY <1>2, <3>1
      <4> QED
        BY <1>2, <3>1, <4>1 DEF Size, ImageSize
    <3>2. CASE n + 1 # Chunks
      <4>1. n # Chunks - 1
        BY <1>2, <3>2
      <4>2. (n + 1) * ChunkSize = n * ChunkSize + ChunkSize
        BY <1>2
      <4> QED
        BY <3>2, <4>1, <4>2 DEF Size, Start
    <3> QED
      BY <3>1, <3>2
  <2>8. n + 1 <= Chunks
    BY <1>2, <2>1
  <2> QED
    BY <1>1, <2>1, <2>5, <2>6, <2>7, <2>8
<1> QED
  BY <1>1, <1>3 DEF InOrder

LEMMA NotWrittenInOrder ==
  ASSUME TypeOK, LinkInv, Exchange, InOrder, NotWritten
  PROVE  InOrder'
<1> SUFFICES ASSUME ~excused'
             PROVE  /\ chunk_index' <= Chunks
                    /\ Len(flash') = IF chunk_index' = Chunks THEN ImageSize
                                     ELSE Start(chunk_index')
                    /\ \A k \in DOMAIN flash' : flash'[k] = k - 1
  BY DEF InOrder
<1>1. /\ ~excused /\ chunk_index' \in Nat /\ chunk_index' <= chunk_index
      /\ chunk_index < Chunks /\ Start(chunk_index') <= Len(flash)
      /\ flash' = SubSeq(flash, 1, Start(chunk_index'))
  BY Erased
<1>2. Chunks \in Nat /\ chunk_index \in Nat /\ flash \in Seq(Nat)
  BY ProtocolAssumption DEF TypeOK
<1>3. chunk_index' <= Chunks /\ chunk_index' # Chunks
  BY <1>1, <1>2
<1>4. Start(chunk_index') \in Nat
  BY <1>1, SizeType
<1>5. /\ Len(flash') = Start(chunk_index')
      /\ DOMAIN flash' = 1..Start(chunk_index')
      /\ \A k \in 1..Start(chunk_index') : flash'[k] = flash[k] /\ k \in DOMAIN flash
  BY <1>1, <1>2, <1>4, SubSeqProperties
<1>6. \A k \in DOMAIN flash' : flash'[k] = k - 1
  BY <1>1, <1>5 DEF InOrder
<1> QED
  BY <1>3, <1>5, <1>6

LEMMA InOrderStep ==
  ASSUME TypeOK, LinkInv, Exchange, InOrder, [Next]_vars
  PROVE  InOrder'
<1>1. CASE Written
  BY <1>1, WrittenInOrder
<1>2. CASE NotWritten
  BY <1>2, NotWrittenInOrder
<1>3. CASE Prepare \/ Restart
  <2>1. chunk_index' = 0 /\ flash' = << >>
    BY <1>3 DEF Prepare, Restart
  <2> QED
    BY <2>1, Erasing
<1>4. CASE \/ Connect \/ Shake \/ Shaken \/ Receive \/ ReceiveError \/ AskAgain \/ TimeOut
           \/ Ping \/ NothingDue \/ BodyFails \/ Body \/ Acknowledge \/ Call \/ BadChunk
           \/ Finish \/ Reply \/ OnDisconnect \/ OnCloseWait \/ Elapse \/ FlashTimeout
           \/ Talk \/ Begin \/ Answer \/ Ignore
  <2>1. UNCHANGED <<chunk_index, flash>>
    BY <1>4 DEF Connect, Shake, Shaken, Receive, Heard, ReceiveError, AskAgain, Missing,
                TimeOut, Ping, Pinging, NothingDue, BodyFails, Body, Acknowledge, Call,
                BadChunk, Finish, Reply, OnDisconnect, OnCloseWait, ConnectionLost,
                Elapse, FlashTimeout, Talk, Begin, Answer, Ignore, SendChunk, Tell,
                Outside, update, store
  <2>2. excused => excused'
    BY <1>4 DEF Connect, Shake, Shaken, Receive, Heard, ReceiveError, AskAgain, Missing,
                TimeOut, Ping, Pinging, NothingDue, BodyFails, Body, Acknowledge, Call,
                BadChunk, Finish, Reply, OnDisconnect, OnCloseWait, ConnectionLost,
                Elapse, FlashTimeout, Talk, Begin, Answer, Ignore, SendChunk, Tell,
                Outside
  <2> QED
    BY <2>1, <2>2 DEF InOrder
<1>5. CASE UNCHANGED vars
  BY <1>5 DEF vars, update, store, InOrder
<1> QED
  BY <1>1, <1>2, <1>3, <1>4, <1>5 DEF Next, Thread, Server

(* The end of the update comes with the last chunk written.                *)
LEMMA FinishWhole ==
  ASSUME TypeOK, LinkInv, Exchange, InOrder, Finish, ~excused'
  PROVE  Len(flash') = ImageSize
<1>1. /\ pc = "act" /\ msg.kind = "done" /\ ~excused /\ synced /\ flash' = flash
  BY DEF Finish
<1>2. Handling /\ Running /\ msg \in Messages
  BY <1>1 DEF Handling, Running, TypeOK
<1>3. msg \in Of({"chunk", "done"})
  BY <1>1, <1>2 DEF Of
<1>4. During
  BY <1>1, <1>2, <1>3 DEF Exchange, BeforeInv, Before, During, TypeOK
<1>5. msg \notin Misfits(chunk_index, cursor)
  BY <1>1, <1>2, <1>4 DEF Exchange, FitInv
<1>6. chunk_index = Chunks
  BY <1>1, <1>2, <1>5 DEF Misfits, Fits
<1> QED
  BY <1>1, <1>6 DEF InOrder

LEMMA OnlyWholeStep ==
  ASSUME TypeOK, LinkInv, Exchange, InOrder, OnlyWhole, [Next]_vars
  PROVE  OnlyWhole'
<1> SUFFICES ASSUME pc' = "flashed", ~excused' PROVE Len(flash') = ImageSize
  BY DEF OnlyWhole
<1>1. CASE Finish
  BY <1>1, FinishWhole
<1>2. CASE \/ Connect \/ Shake \/ Shaken \/ Receive \/ ReceiveError \/ AskAgain \/ TimeOut
           \/ Ping \/ NothingDue \/ BodyFails \/ Body \/ Acknowledge \/ Call \/ BadChunk
           \/ Written \/ NotWritten \/ Prepare \/ Reply \/ OnDisconnect \/ OnCloseWait
           \/ Elapse \/ FlashTimeout \/ Restart
  <2>1. pc' # "flashed"
    BY <1>2 DEF Connect, Shake, Shaken, Receive, Heard, ReceiveError, AskAgain, Missing,
                NoMessage, Polling, TimeOut, Ping, Pinging, NothingDue, BodyFails, Body,
                Acknowledge, Call, BadChunk, Written, NotWritten, Saving, Prepare, Reply,
                OnDisconnect, OnCloseWait, ConnectionLost, Elapse, FlashTimeout, Restart,
                GiveUp, Return, Running
  <2> QED
    BY <2>1
<1>3. CASE Talk \/ Begin \/ Answer \/ Ignore \/ UNCHANGED vars
  <2>1. UNCHANGED <<pc, flash, excused>>
    BY <1>3 DEF Talk, Begin, Answer, Ignore, SendChunk, Tell, Outside, vars, store
  <2> QED
    BY <2>1 DEF OnlyWhole
<1> QED
  BY <1>1, <1>2, <1>3 DEF Next, Thread, Server

-----------------------------------------------------------------------------
(* The inductive invariant.                                                *)

LEMMA IInvInit == Init => IInv
<1> SUFFICES ASSUME Init PROVE IInv
  OBVIOUS
<1>1. TypeOK
  BY TypesInit
<1>2. /\ pc = "idle" /\ ~expecting_ping_ack /\ ~synced /\ ~socketed
      /\ toCore = << >> /\ chunk_index = 0 /\ flash = << >>
  BY DEF Init, Boot
<1>3. AskedInv
  BY <1>2 DEF AskedInv
<1>4. LinkInv
  BY <1>2, Empty DEF LinkInv, Handling
<1>5. Exchange
  BY <1>2 DEF Exchange, BeforeInv, BegunInv, TokenInv, FitInv, Before, During
<1>6. InOrder
  <2>1. Chunks \in Nat \ {0} /\ ChunkSize \in Nat
    BY ProtocolAssumption
  <2>2. Start(0) = 0
    BY <2>1 DEF Start
  <2> QED
    BY <1>2, <2>1, <2>2 DEF InOrder
<1>7. OnlyWhole
  BY <1>2 DEF OnlyWhole
<1> QED
  BY <1>1, <1>3, <1>4, <1>5, <1>6, <1>7 DEF IInv

LEMMA IInvStep == IInv /\ [Next]_vars => IInv'
BY TypesStep, AskedStep, LinkStep, ExchangeStep, InOrderStep, OnlyWholeStep DEF IInv

LEMMA Invariant == Spec => []IInv
<1>1. Init => IInv
  BY IInvInit
<1>2. IInv /\ [Next]_vars => IInv'
  BY IInvStep
<1> QED
  BY <1>1, <1>2, PTL DEF Spec

(* The variables of the event loop keep their types.                       *)
THEOREM ProtocolTypes == Spec => []TypeOK
<1>1. IInv => TypeOK
  BY DEF IInv
<1> QED
  BY <1>1, Invariant, PTL

(* Whatever is retried, refused or lost, the chunks programmed so far are  *)
(* the image's, in order and once each, unless one of the two cases named  *)
(* at InOrder occurred: for images, pages and chunks of any size.          *)
THEOREM ImageInOrder == Spec => []InOrder
<1>1. IInv => InOrder
  BY DEF IInv
<1> QED
  BY <1>1, Invariant, PTL

(* The boot loader is handed a whole image, with the same exceptions.      *)
THEOREM OnlyWholeImages == Spec => []OnlyWhole
<1>1. IInv => OnlyWhole
  BY DEF IInv
<1> QED
  BY <1>1, Invariant, PTL

(* No connection is dropped for silence before the server was pinged on it *)
(* or on the one before.                                                   *)
THEOREM SilentServerPinged == Spec => DroppedAfterPing
<1>1. AskedInv /\ [Next]_vars => [TimeOut => asked \/ stale]_vars
  BY DEF AskedInv, TimeOut
<1>2. IInv => AskedInv
  BY DEF IInv
<1> QED
  BY <1>1, <1>2, Invariant, PTL DEF Spec, DroppedAfterPing

-----------------------------------------------------------------------------
(* What is left of a silence: the ticks up to the ping, the ping, and the  *)
(* ticks in which its answer is waited for; in an update, the tick up to   *)
(* the reset.                                                              *)
Waiting == pc \in {"idle", "loop"} /\ socketed /\ connected

SilenceLeft ==
  IF updating THEN 1 - flashAge
  ELSE IF expecting_ping_ack THEN 2 - messageAge ELSE 5 - messageAge

(* While the thread polls a connection on which it hears nothing, no poll  *)
(* and no event starts the count again, asking for a chunk included, and   *)
(* each tick and the ping bring it down; once it is down, no poll finds    *)
(* that nothing is due, or an update's timeout has come.  That timeout     *)
(* runs in every update, whatever connections were lost and made.          *)
SilenceRunsOut ==
  /\ [](Waiting /\ updating => flashing)
  /\ [][Waiting /\ Waiting' =>
          /\ SilenceLeft' \in {SilenceLeft, SilenceLeft - 1}
          /\ Ping \/ messageAge' # messageAge \/ (updating /\ flashAge' # flashAge)
               => SilenceLeft' # SilenceLeft
          /\ NothingDue /\ SilenceLeft = 0 => updating /\ flashAge = 1]_vars

(* The update's timeout runs on a connection; no handshake leaves an       *)
(* update behind.                                                          *)
TimedInv ==
  /\ Running /\ updating /\ connected => flashing
  /\ pc = "shaken" => ~updating

LEMMA TimedStep ==
  ASSUME TypeOK, TimedInv, [Next]_vars
  PROVE  TimedInv'
<1>1. CASE UNCHANGED vars \/ Server \/ Elapse
  <2>1. UNCHANGED <<pc, updating, connected, flashing>>
    BY <1>1 DEF vars, Server, Talk, Begin, Answer, Ignore, SendChunk, Tell, Outside, Elapse,
                flags, update
  <2> QED
    BY <2>1 DEF TimedInv, Running
<1>2. CASE Shake
  BY <1>2 DEF Shake, TimedInv
<1>3. CASE Connect \/ Shaken
  BY <1>3 DEF Connect, Shaken, TimedInv, Running, update
<1>4. CASE Receive \/ ReceiveError
  BY <1>4 DEF Receive, Heard, ReceiveError, Polling, GiveUp, Return, TimedInv, Running,
              update, flags
<1>5. CASE AskAgain \/ TimeOut \/ Ping \/ NothingDue
  BY <1>5 DEF AskAgain, Missing, TimeOut, Ping, Pinging, NothingDue, NoMessage, Polling,
              GiveUp, Return, TimedInv, Running, update, flags
<1>6. CASE BodyFails \/ Body \/ Acknowledge \/ Reply \/ Call
  BY <1>6 DEF BodyFails, Body, Acknowledge, Reply, Call, GiveUp, Return, TimedInv,
              Running, update, flags
<1>7. CASE BadChunk \/ Written \/ NotWritten
  BY <1>7 DEF BadChunk, Written, NotWritten, Saving, TimedInv, Running, flags
<1>8. CASE Prepare \/ Finish
  BY <1>8 DEF Prepare, Finish, TimedInv, Running
<1>9. CASE OnDisconnect \/ OnCloseWait
  BY <1>9 DEF OnDisconnect, OnCloseWait, ConnectionLost, TimedInv, update
<1>10. CASE FlashTimeout \/ Restart
  BY <1>10 DEF FlashTimeout, Restart, TimedInv, Running, update
<1> QED
  BY <1>1, <1>2, <1>3, <1>4, <1>5, <1>6, <1>7, <1>8, <1>9, <1>10 DEF Next, Thread

LEMMA Timed == Spec => []TimedInv
<1>1. Init => TimedInv
  BY DEF Init, Boot, TimedInv
<1>2. TypeOK /\ TimedInv /\ [Next]_vars => TimedInv'
  BY TimedStep
<1>3. IInv => TypeOK
  BY DEF IInv
<1> QED
  BY <1>1, <1>2, <1>3, Invariant, PTL DEF Spec

(* Of what the thread and the others do, this leaves a connection waiting. *)
LEMMA WaitingSteps ==
  ASSUME Next, Waiting, Waiting'
  PROVE  \/ AskAgain \/ NothingDue \/ Server
         \/ Ping
         \/ Elapse
<1>1. /\ pc \in {"idle", "loop"} /\ socketed /\ connected
      /\ pc' \in {"idle", "loop"} /\ socketed' /\ connected'
  BY DEF Waiting
<1>2. ~Connect /\ ~Shake /\ ~Shaken
  BY <1>1 DEF Connect, Shake, Shaken
<1>3. ~Receive /\ ~ReceiveError /\ ~TimeOut
  BY <1>1 DEF Receive, Heard, ReceiveError, TimeOut, GiveUp
<1>4. ~BodyFails /\ ~Body /\ ~Acknowledge /\ ~Call /\ ~Reply
  BY <1>1 DEF BodyFails, Body, Acknowledge, Call, Reply
<1>5. ~BadChunk /\ ~Written /\ ~NotWritten /\ ~Prepare /\ ~Finish
  BY <1>1 DEF BadChunk, Written, NotWritten, Saving, Prepare, Finish
<1>6. ~OnDisconnect /\ ~OnCloseWait /\ ~FlashTimeout /\ ~Restart
  BY <1>1 DEF OnDisconnect, OnCloseWait, ConnectionLost, FlashTimeout, Restart, Running
<1> QED
  BY <1>2, <1>3, <1>4, <1>5, <1>6 DEF Next, Thread

LEMMA SilenceStep ==
  ASSUME TypeOK, Next, Waiting, Waiting'
  PROVE  /\ SilenceLeft' \in {SilenceLeft, SilenceLeft - 1}
         /\ Ping \/ messageAge' # messageAge \/ (updating /\ flashAge' # flashAge)
              => SilenceLeft' # SilenceLeft
<1>1. messageAge \in {0, 1, 2} /\ flashAge \in {0, 1}
  BY DEF TypeOK
<1>2. CASE AskAgain \/ NothingDue \/ Server
  <2>1. UNCHANGED <<updating, expecting_ping_ack, messageAge, flashAge>> /\ ~Ping
    <3>1. CASE AskAgain \/ NothingDue
      <4>1. UNCHANGED <<updating, expecting_ping_ack, messageAge, flashAge>>
        BY <3>1 DEF AskAgain, Missing, NothingDue, ping, update, store
      <4>2. messageAge' = messageAge /\ expecting_ping_ack' = expecting_ping_ack
        BY <4>1
      <4>3. ~Ping
        BY <1>1, <4>2 DEF Ping, Pinging
      <4> QED
        BY <4>1, <4>3
    <3>2. CASE Server
      <4>1. UNCHANGED <<updating, expecting_ping_ack, messageAge, flashAge>>
        BY <3>2 DEF Server, Talk, Begin, Answer, Ignore, SendChunk, Tell, Outside, ping,
                    update, store
      <4>2. ~Ping
        BY <4>1 DEF Ping, Pinging
      <4> QED
        BY <4>1, <4>2
    <3> QED
      BY <1>2, <3>1, <3>2
  <2>2. SilenceLeft' = SilenceLeft
    BY <2>1 DEF SilenceLeft
  <2> QED
    BY <2>1, <2>2
<1>3. CASE Ping
  <2>1. /\ ~updating /\ ~updating' /\ ~expecting_ping_ack /\ expecting_ping_ack'
        /\ messageAge = 2 /\ messageAge' = 0
    BY <1>3 DEF Ping, Pinging, update
  <2>2. SilenceLeft = 3 /\ SilenceLeft' = 2
    BY <2>1 DEF SilenceLeft
  <2> QED
    BY <2>2
<1>4. CASE Elapse /\ messageAge' # messageAge
  <2>1. /\ ~updating /\ ~updating' /\ expecting_ping_ack' = expecting_ping_ack
        /\ messageAge' = messageAge + 1 /\ flashAge' = flashAge
    BY <1>4 DEF Elapse
  <2>2. SilenceLeft' = SilenceLeft - 1 /\ SilenceLeft \in Int
    BY <1>1, <2>1 DEF SilenceLeft
  <2>3. SilenceLeft' # SilenceLeft
    <3> HIDE DEF SilenceLeft
    <3> QED
      BY <2>2
  <2> QED
    BY <2>2, <2>3
<1>5. CASE Elapse /\ messageAge' = messageAge /\ updating
  <2>1. updating' /\ (flashAge' = flashAge \/ (flashAge = 0 /\ flashAge' = 1)) /\ ~Ping
    <3>1. updating' /\ (flashAge' = flashAge \/ (flashAge = 0 /\ flashAge' = 1))
      <4>1. updating'
        BY <1>5 DEF Elapse
      <4>2. \/ ~updating
            \/ flashAge' = flashAge
            \/ flashAge = 0 /\ flashAge' = 1
        BY <1>5 DEF Elapse
      <4> QED
        BY <1>5, <4>1, <4>2
    <3>2. ~Ping
      BY <1>5 DEF Ping, Pinging
    <3> QED
      BY <3>1, <3>2
  <2>2. CASE flashAge' = flashAge
    BY <1>5, <2>1, <2>2 DEF SilenceLeft
  <2>3. CASE flashAge = 0 /\ flashAge' = 1
    <3>1. SilenceLeft = 1 /\ SilenceLeft' = 0
      BY <1>5, <2>1, <2>3 DEF SilenceLeft
    <3> QED
      BY <3>1
  <2> QED
    BY <2>1, <2>2, <2>3
<1>6. CASE Elapse /\ messageAge' = messageAge /\ ~updating
  <2>1. ~updating' /\ expecting_ping_ack' = expecting_ping_ack
    BY <1>6 DEF Elapse
  <2>2. ~Ping
    BY <1>1, <1>6 DEF Ping, Pinging
  <2>3. SilenceLeft' = SilenceLeft
    BY <1>6, <2>1 DEF SilenceLeft
  <2> QED
    BY <1>6, <2>2, <2>3
<1> QED
  BY <1>2, <1>3, <1>4, <1>5, <1>6, WaitingSteps

(* A silent connection is given up or the core is reset after a bounded    *)
(* number of ticks: four and the ping, or one in an update.                *)
THEOREM SilenceComesToAnEnd == Spec => SilenceRunsOut
<1>1. TimedInv => (Waiting /\ updating => flashing)
  BY DEF TimedInv, Waiting, Running
<1>2. ASSUME TypeOK, NothingDue, SilenceLeft = 0
      PROVE  updating /\ flashAge = 1
  <2>1. messageAge \in {0, 1, 2} /\ flashAge \in {0, 1}
    BY <1>2 DEF TypeOK
  <2>2. CASE updating
    BY <1>2, <2>1, <2>2 DEF SilenceLeft
  <2>3. CASE ~updating
    BY <1>2, <2>1, <2>3 DEF SilenceLeft, NothingDue
  <2> QED
    BY <2>2, <2>3
<1>3. TypeOK /\ [Next]_vars =>
        [Waiting /\ Waiting' =>
          /\ SilenceLeft' \in {SilenceLeft, SilenceLeft - 1}
          /\ Ping \/ messageAge' # messageAge \/ (updating /\ flashAge' # flashAge)
               => SilenceLeft' # SilenceLeft
          /\ NothingDue /\ SilenceLeft = 0 => updating /\ flashAge = 1]_vars
  BY <1>2, SilenceStep
<1>4. IInv => TypeOK
  BY DEF IInv
<1> QED
  BY <1>1, <1>3, <1>4, Invariant, Timed, PTL DEF Spec, SilenceRunsOut
=============================================================================
