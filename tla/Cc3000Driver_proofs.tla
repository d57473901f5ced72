----------------------- MODULE Cc3000Driver_proofs ------------------------
(***************************************************************************)
(* The driver's types, the exclusion between the chip's packets in the one *)
(* receive buffer, the count of the chip's free buffers, the match of      *)
(* answers and calls, and the end of every call, for every number of       *)
(* calls, restarts and buffers.                                            *)
(***************************************************************************)
EXTENDS Cc3000Driver, SequenceTheorems, TLAPS

(* Which transfer runs in which state, and who asked for it.               *)
BusInv ==
  /\ dma = "read" <=> spi \in {"READ_IRQ", "READ_PROCEED"}
  /\ dma = "write" => \/ pc = "first" /\ spi = "FIRST_WRITE"
                      \/ pc = "writing" /\ spi = "WRITE_PROCEED"
  /\ pc = "powerup" => spi \in {"POWERUP", "INITIALIZED"}
  /\ pc = "first" => spi \in {"FIRST_WRITE", "WRITE_PROCEED"}
  /\ pc = "waitIrq" => spi \in {"WRITE_WAIT_IRQ", "WRITE_PROCEED"}
  /\ pc \notin {"powerup", "first", "waitIrq", "writing", "off"} =>
       spi \in {"IDLE", "READ_IRQ", "READ_PROCEED"}
  /\ pc = "writing" => spi \in {"IDLE", "READ_IRQ", "READ_PROCEED", "WRITE_PROCEED"}

(* The line is low and a read is under way only for a packet that exists.  *)
OfferInv ==
  /\ spi = "IDLE" /\ pinLow => toHost # << >>
  /\ spi \in {"READ_IRQ", "READ_PROCEED"} => toHost # << >>
  /\ rx.op \notin {"FREE_BUFF", "CLOSE_WAIT"}

OffInv ==
  pc = "off" => /\ ~irq /\ dma = "none" /\ ~pinLow /\ cmds = << >> /\ toHost = << >>
                /\ held = 0 /\ credits = 0 /\ conn = "none"

(* What the thread waits for, and that nothing was sent before the count   *)
(* of buffers is read.                                                     *)
WaitInv ==
  /\ pc = "wait" => rxOpcode \in {call.op, "NONE"}
  /\ pc \in {"recvd", "waitData"} => rxOpcode = "NONE"
  /\ call.op \in {"START", "READ_BUFFER_SIZE"} => held = 0 /\ credits = 0
  /\ pc \in {"powerup", "first"} => call.op = "START"
  /\ pc \in {"flow", "take"} => call.op = "SEND"
  /\ pc = "take" => loaded \in 1..free

IInv == TypeOK /\ BusInv /\ OfferInv /\ OffInv /\ WaitInv /\ UnreadKept /\ NeverOverrun

USE DriverAssumption DEF thread, bus, inbox, wait, flow, socks, chip, hist
USE DEF TypeOK, ThreadOK, BusOK, InboxOK, WaitOK, FlowOK, SocksOK, ChipOK, HistOK

LEMMA SeqFacts ==
  ASSUME NEW S, NEW s \in Seq(S), NEW x \in S, NEW y \in S
  PROVE  /\ s # << >> => Head(s) \in S /\ Tail(s) \in Seq(S)
         /\ Append(s, x) \in Seq(S) /\ Append(s, x) # << >>
         /\ s \o <<x, y>> \in Seq(S) /\ s \o <<x, y>> # << >>
<1>1. s # << >> => Head(s) \in S /\ Tail(s) \in Seq(S)
  OBVIOUS
<1>2. Append(s, x) \in Seq(S) /\ Append(s, x) # << >>
  BY AppendProperties
<1>3. <<x, y>> \in Seq(S) /\ Len(<<x, y>>) = 2
  OBVIOUS
<1>4. s \o <<x, y>> \in Seq(S) /\ Len(s \o <<x, y>>) = Len(s) + 2 /\ Len(s) \in Nat
  BY <1>3, ConcatProperties, LenProperties
<1> QED BY <1>1, <1>2, <1>4, EmptySeq

LEMMA MsgType ==
  /\ Msg("JUNK", 0, FALSE) \in Messages /\ Msg("FREE_BUFF", 0, TRUE) \in Messages
  /\ Msg("CLOSE_WAIT", 0, TRUE) \in Messages /\ Msg("DATA", 0, FALSE) \in Messages
  BY DEF Msg, Messages

(* What the chip offers is a packet, and a FREE_BUFF event reports what it  *)
(* owes.                                                                   *)
LEMMA PacketType ==
  ASSUME IInv, DmaPacket
  PROVE  /\ Packet \in Messages /\ Packet.id \in Nat /\ Tail(toHost) \in Seq(Messages)
         /\ Packet.op = "FREE_BUFF" => Packet.id = credits
         /\ credits \in Nat /\ credits <= unreleased
         /\ unreleased = Owed /\ Owed \in Nat /\ free + Owed <= Buffers
         /\ pc # "off" /\ spi \in {"READ_IRQ", "READ_PROCEED"}
<1>1. toHost # << >> /\ toHost \in Seq(Messages) /\ pc # "off" /\ spi = "READ_PROCEED"
  BY DEF IInv, OfferInv, OffInv, DmaPacket
<1>2. Head(toHost) \in Messages /\ Tail(toHost) \in Seq(Messages)
  BY <1>1, SeqFacts, MsgType
<1>3. credits \in Nat /\ held \in Nat /\ unreleased = Owed /\ free + Owed <= Buffers
  BY <1>1 DEF IInv, NeverOverrun
<1>4. credits <= unreleased /\ Owed \in Nat
  BY <1>3 DEF Owed
<1> QED BY <1>1, <1>2, <1>3, <1>4 DEF Packet, Messages

LEMMA OverwrittenType ==
  ASSUME rx \in Messages, Overwritten
  PROVE  /\ rx' \in Messages
         /\ rx.op \notin {"FREE_BUFF", "CLOSE_WAIT"} => rx'.op \notin {"FREE_BUFF", "CLOSE_WAIT"}
<1>1. rx' \in {Msg("JUNK", 0, FALSE), Msg("DATA", 0, FALSE), rx}
  BY DEF Overwritten
<1>2. rx' \in Messages
  BY <1>1, MsgType
<1>3. rx' # rx => rx'.op \in {"JUNK", "DATA"}
  BY <1>1 DEF Msg
<1> QED BY <1>2, <1>3

LEMMA AnswerType ==
  ASSUME ChipOK, Answer
  PROVE  toHost' \in Seq(Messages) /\ toHost' # << >> /\ cmds' \in Seq([op : Opcodes, id : Nat])
<1>1. cmds' \in Seq([op : Opcodes, id : Nat]) /\ Head(cmds) \in [op : Opcodes, id : Nat]
  <2> DEFINE C == [op : Opcodes, id : Nat]
  <2>1. cmds \in Seq(C) /\ cmds # << >> /\ cmds' = Tail(cmds)
    BY DEF Answer
  <2> HIDE DEF C
  <2>2. Head(cmds) \in C /\ cmds' \in Seq(C)
    BY <2>1
  <2> QED BY <2>2 DEF C
<1> DEFINE m(ok) == Msg(Head(cmds).op, Head(cmds).id, ok)
           data  == Msg("DATA", Head(cmds).id, TRUE)
<1>2. PICK ok \in BOOLEAN : toHost' = IF Head(cmds).op = "RECV" /\ ok
                                       THEN toHost \o <<m(ok), data>> ELSE Append(toHost, m(ok))
  BY DEF Answer
<1>3. m(ok) \in Messages /\ data \in Messages /\ toHost \in Seq(Messages)
  BY <1>1 DEF Msg, Messages
<1> HIDE DEF m, data
<1>4. /\ Append(toHost, m(ok)) \in Seq(Messages) /\ Append(toHost, m(ok)) # << >>
      /\ toHost \o <<m(ok), data>> \in Seq(Messages) /\ toHost \o <<m(ok), data>> # << >>
  BY <1>3, SeqFacts
<1> QED BY <1>1, <1>2, <1>4

LEMMA PacketSentType ==
  ASSUME ChipOK, PacketSent
  PROVE  toHost' \in Seq(Messages) /\ (toHost # << >> => toHost' # << >>)
<1> DEFINE m == Msg("FREE_BUFF", 0, TRUE)
<1>1. toHost' = toHost \/ toHost' = Append(toHost, m)
  BY DEF PacketSent
<1>2. toHost \in Seq(Messages) /\ m \in Messages
  BY MsgType
<1> HIDE DEF m
<1>3. Append(toHost, m) \in Seq(Messages) /\ Append(toHost, m) # << >>
  BY <1>2, SeqFacts
<1> QED BY <1>1, <1>2, <1>3

LEMMA InitInv == Init => IInv
<1> SUFFICES ASSUME Init PROVE IInv
  OBVIOUS
<1>1. ThreadOK /\ BusOK
  BY DEF Init, Opcodes
<1>2. InboxOK /\ WaitOK /\ FlowOK /\ SocksOK /\ HistOK
  BY DEF Init, Nothing, Msg, Messages
<1>3. ChipOK
  BY DEF Init
<1>4. BusInv /\ OfferInv /\ OffInv /\ WaitInv /\ UnreadKept /\ NeverOverrun
  BY DEF Init, BusInv, OfferInv, OffInv, WaitInv, UnreadKept, NeverOverrun, Nothing, Msg
<1> QED BY <1>1, <1>2, <1>3, <1>4 DEF IInv

LEMMA TypeStep ==
  ASSUME IInv, [Next]_vars
  PROVE  TypeOK'
<1> USE DEF IInv, Opcodes, Messages, Msg, Nothing
<1>1. CASE WlanStart
  <2>1. (ThreadOK)' BY <1>1 DEF WlanStart, Begin
  <2>2. (BusOK)' BY <1>1 DEF WlanStart, Begin
  <2>3. (InboxOK /\ WaitOK /\ HistOK)' BY <1>1 DEF WlanStart, Begin
  <2>4. (FlowOK)' BY <1>1 DEF WlanStart, Begin
  <2>5. (SocksOK /\ ChipOK)' BY <1>1 DEF WlanStart, Begin
  <2> QED BY <2>1, <2>2, <2>3, <2>4, <2>5
<1>2. CASE WlanStop
  <2>1. (ThreadOK /\ BusOK)' BY <1>2 DEF WlanStop
  <2>2. (InboxOK /\ WaitOK)' BY <1>2 DEF WlanStop
  <2>3. (FlowOK)' BY <1>2 DEF WlanStop
  <2>4. (HistOK)' BY <1>2 DEF WlanStop
  <2>5. (SocksOK)' BY <1>2 DEF WlanStop
  <2>6. (ChipOK)' BY <1>2 DEF WlanStop
  <2> QED BY <2>1, <2>2, <2>3, <2>4, <2>5, <2>6
<1>3. CASE FirstWrite BY <1>3 DEF FirstWrite
<1>4. CASE FirstRest BY <1>4 DEF FirstRest
<1>5. CASE Reserve BY <1>5 DEF Reserve
<1>6. CASE WaitIrq BY <1>6 DEF WaitIrq
<1>7. CASE Written BY <1>7 DEF Written
<1>8. CASE NoBuffer
  <2>1. (ThreadOK)' BY <1>8 DEF NoBuffer
  <2>2. (FlowOK)' BY <1>8 DEF NoBuffer
  <2>3. (BusOK /\ InboxOK /\ WaitOK /\ SocksOK /\ ChipOK /\ HistOK)' BY <1>8 DEF NoBuffer
  <2> QED BY <2>1, <2>2, <2>3
<1>9. CASE LoadFree BY <1>9 DEF LoadFree
<1>10. CASE StoreFree
  <2>1. (ThreadOK)' BY <1>10 DEF StoreFree, WaitInv
  <2>2. (FlowOK)' BY <1>10 DEF StoreFree, WaitInv
  <2>3. (BusOK /\ InboxOK /\ WaitOK /\ SocksOK /\ ChipOK /\ HistOK)' BY <1>10 DEF StoreFree, WaitInv
  <2> QED BY <2>1, <2>2, <2>3
<1>11. CASE WaitEvent BY <1>11 DEF WaitEvent
<1>12. CASE WaitData BY <1>12 DEF WaitData
<1>13. CASE HandleEvent
  <2>1. (ThreadOK)' BY <1>13 DEF HandleEvent, UnsolEvent, Unsolicited, OfferInv, After
  <2>2. (BusOK /\ InboxOK)' BY <1>13 DEF HandleEvent, UnsolEvent, Unsolicited, OfferInv, After
  <2>3. (WaitOK)' BY <1>13 DEF HandleEvent, UnsolEvent, Unsolicited, OfferInv, After
  <2>4. (FlowOK)' BY <1>13 DEF HandleEvent, UnsolEvent, Unsolicited, OfferInv, After
  <2>5. (SocksOK)' BY <1>13 DEF HandleEvent, UnsolEvent, Unsolicited, OfferInv, After
  <2>6. (ChipOK)' BY <1>13 DEF HandleEvent, UnsolEvent, Unsolicited, OfferInv, After
  <2>7. (HistOK)' BY <1>13 DEF HandleEvent, UnsolEvent, Unsolicited, OfferInv, After
  <2> QED BY <2>1, <2>2, <2>3, <2>4, <2>5, <2>6, <2>7
<1>14. CASE Return
  <2>1. (ThreadOK)' BY <1>14 DEF Return
  <2>2. (SocksOK)' BY <1>14 DEF Return
  <2>3. (HistOK)' BY <1>14 DEF Return
  <2>4. (BusOK /\ InboxOK /\ WaitOK /\ FlowOK /\ ChipOK)' BY <1>14 DEF Return
  <2> QED BY <2>1, <2>2, <2>3, <2>4
<1>15. CASE Timeout BY <1>15 DEF Timeout
<1>16. CASE Exti
  <2>1. (BusOK)' BY <1>16 DEF Exti
  <2>2. (ThreadOK /\ InboxOK /\ WaitOK /\ FlowOK /\ SocksOK /\ ChipOK /\ HistOK)' BY <1>16 DEF Exti
  <2> QED BY <2>1, <2>2
<1>17. CASE DmaHeader BY <1>17 DEF DmaHeader
<1>18. CASE DmaPacket
  <2>1. (ThreadOK /\ WaitOK /\ HistOK)' BY <1>18, PacketType DEF DmaPacket, Receive, UnsolEvent
  <2>2. (BusOK)' BY <1>18, PacketType DEF DmaPacket, Receive, UnsolEvent
  <2>3. (InboxOK)' BY <1>18, PacketType DEF DmaPacket, Receive, UnsolEvent
  <2>4. FlowOK'
    <3>1. txError' \in BOOLEAN /\ loaded' = loaded
      BY <1>18 DEF DmaPacket, Receive, UnsolEvent
    <3>2. free' \in {free, free + Packet.id}
      BY <1>18 DEF DmaPacket, Receive, UnsolEvent
    <3>3. unreleased' \in {unreleased, unreleased - credits}
      BY <1>18, PacketType DEF DmaPacket, Receive, UnsolEvent
    <3> HIDE DEF Owed
    <3> QED BY <1>18, <3>1, <3>2, <3>3, PacketType
  <2>5. (SocksOK)' BY <1>18, PacketType DEF DmaPacket, Receive, UnsolEvent
  <2>6. (ChipOK)' BY <1>18, PacketType DEF DmaPacket, Receive, UnsolEvent
  <2> QED BY <2>1, <2>2, <2>3, <2>4, <2>5, <2>6
<1>19. CASE DmaFirst
  <2>1. (BusOK)' BY <1>19, OverwrittenType DEF DmaFirst
  <2>2. (InboxOK)' BY <1>19, OverwrittenType DEF DmaFirst
  <2>3. (ThreadOK /\ WaitOK /\ FlowOK /\ SocksOK /\ ChipOK /\ HistOK)' BY <1>19, OverwrittenType DEF DmaFirst
  <2> QED BY <2>1, <2>2, <2>3
<1>20. CASE DmaWritten
  <2>1. (BusOK)' BY <1>20, OverwrittenType DEF DmaWritten
  <2>2. (InboxOK)' BY <1>20, OverwrittenType DEF DmaWritten
  <2>3. (ChipOK)' BY <1>20, OverwrittenType DEF DmaWritten
  <2>4. (ThreadOK /\ WaitOK /\ FlowOK /\ SocksOK /\ HistOK)' BY <1>20, OverwrittenType DEF DmaWritten
  <2> QED BY <2>1, <2>2, <2>3, <2>4
<1>21. CASE LowerPin BY <1>21 DEF LowerPin
<1>22. CASE Answer
  <2>1. (ChipOK)' BY <1>22, AnswerType DEF Answer
  <2>2. (ThreadOK /\ BusOK /\ InboxOK /\ WaitOK /\ FlowOK /\ SocksOK /\ HistOK)' BY <1>22, AnswerType DEF Answer
  <2> QED BY <2>1, <2>2
<1>23. CASE PeerCloses BY <1>23 DEF PeerCloses, Msg
<1>24. CASE PacketSent
  <2>1. (ChipOK)' BY <1>24, PacketSentType DEF PacketSent
  <2>2. (ThreadOK /\ BusOK /\ InboxOK /\ WaitOK /\ FlowOK /\ SocksOK /\ HistOK)' BY <1>24, PacketSentType DEF PacketSent
  <2> QED BY <2>1, <2>2
<1>25. CASE \E op \in Opcodes : Call(op) BY <1>25 DEF Call, Begin, Opcodes
<1>26. CASE UNCHANGED vars BY <1>26 DEF vars
<1> QED
  BY <1>1, <1>2, <1>3, <1>4, <1>5, <1>6, <1>7, <1>8, <1>9, <1>10, <1>11, <1>12, <1>13, <1>14, <1>15, <1>16, <1>17, <1>18, <1>19, <1>20, <1>21, <1>22, <1>23, <1>24, <1>25, <1>26
  DEF Next, Thread, SpiWriteStep, ConsumeBuff, Dma, Chip

LEMMA BusStep ==
  ASSUME IInv, [Next]_vars
  PROVE  BusInv'
<1> USE DEF IInv, BusInv, OffInv
<1>1. CASE WlanStart BY <1>1 DEF WlanStart, Begin
<1>2. CASE WlanStop BY <1>2 DEF WlanStop
<1>3. CASE FirstWrite BY <1>3 DEF FirstWrite
<1>4. CASE FirstRest BY <1>4 DEF FirstRest
<1>5. CASE Reserve BY <1>5 DEF Reserve
<1>6. CASE WaitIrq BY <1>6 DEF WaitIrq
<1>7. CASE Written BY <1>7 DEF Written
<1>8. CASE NoBuffer BY <1>8 DEF NoBuffer
<1>9. CASE LoadFree BY <1>9 DEF LoadFree
<1>10. CASE StoreFree BY <1>10 DEF StoreFree
<1>11. CASE WaitEvent BY <1>11 DEF WaitEvent
<1>12. CASE WaitData BY <1>12 DEF WaitData
<1>13. CASE HandleEvent BY <1>13 DEF HandleEvent, UnsolEvent, Unsolicited, After
<1>14. CASE Return BY <1>14 DEF Return
<1>15. CASE Timeout BY <1>15 DEF Timeout
<1>16. CASE Exti BY <1>16 DEF Exti
<1>17. CASE DmaHeader BY <1>17 DEF DmaHeader
<1>18. CASE DmaPacket BY <1>18 DEF DmaPacket, Receive, UnsolEvent, Unsolicited
<1>19. CASE DmaFirst BY <1>19 DEF DmaFirst, Overwritten, Msg
<1>20. CASE DmaWritten BY <1>20 DEF DmaWritten, Overwritten, Msg
<1>21. CASE LowerPin BY <1>21 DEF LowerPin
<1>22. CASE Answer BY <1>22 DEF Answer, Msg
<1>23. CASE PeerCloses BY <1>23 DEF PeerCloses, Msg
<1>24. CASE PacketSent BY <1>24 DEF PacketSent, Msg
<1>25. CASE \E op \in Opcodes : Call(op) BY <1>25 DEF Call, Begin, Opcodes
<1>26. CASE UNCHANGED vars BY <1>26 DEF vars
<1> QED
  BY <1>1, <1>2, <1>3, <1>4, <1>5, <1>6, <1>7, <1>8, <1>9, <1>10, <1>11, <1>12, <1>13, <1>14, <1>15, <1>16, <1>17, <1>18, <1>19, <1>20, <1>21, <1>22, <1>23, <1>24, <1>25, <1>26
  DEF Next, Thread, SpiWriteStep, ConsumeBuff, Dma, Chip

LEMMA OfferStep ==
  ASSUME IInv, [Next]_vars
  PROVE  OfferInv'
<1> USE DEF IInv, OfferInv, Nothing, Msg
<1>1. CASE WlanStart BY <1>1 DEF WlanStart, Begin
<1>2. CASE WlanStop BY <1>2 DEF WlanStop
<1>3. CASE FirstWrite BY <1>3 DEF FirstWrite
<1>4. CASE FirstRest BY <1>4 DEF FirstRest
<1>5. CASE Reserve BY <1>5 DEF Reserve
<1>6. CASE WaitIrq BY <1>6 DEF WaitIrq
<1>7. CASE Written BY <1>7 DEF Written
<1>8. CASE NoBuffer BY <1>8 DEF NoBuffer
<1>9. CASE LoadFree BY <1>9 DEF LoadFree
<1>10. CASE StoreFree BY <1>10 DEF StoreFree
<1>11. CASE WaitEvent BY <1>11 DEF WaitEvent
<1>12. CASE WaitData BY <1>12 DEF WaitData
<1>13. CASE HandleEvent BY <1>13 DEF HandleEvent, UnsolEvent, Unsolicited, After
<1>14. CASE Return BY <1>14 DEF Return
<1>15. CASE Timeout BY <1>15 DEF Timeout
<1>16. CASE Exti BY <1>16 DEF Exti
<1>17. CASE DmaHeader BY <1>17 DEF DmaHeader
<1>18. CASE DmaPacket
  BY <1>18, PacketType DEF DmaPacket, Receive, Unsolicited
<1>19. CASE DmaFirst
  BY <1>19, OverwrittenType DEF DmaFirst
<1>20. CASE DmaWritten
  BY <1>20, OverwrittenType DEF DmaWritten
<1>21. CASE LowerPin BY <1>21 DEF LowerPin
<1>22. CASE Answer
  BY <1>22, AnswerType DEF Answer
<1>23. CASE PeerCloses BY <1>23 DEF PeerCloses, Msg
<1>24. CASE PacketSent
  BY <1>24, PacketSentType DEF PacketSent
<1>25. CASE \E op \in Opcodes : Call(op) BY <1>25 DEF Call, Begin, Opcodes
<1>26. CASE UNCHANGED vars BY <1>26 DEF vars
<1> QED
  BY <1>1, <1>2, <1>3, <1>4, <1>5, <1>6, <1>7, <1>8, <1>9, <1>10, <1>11, <1>12, <1>13, <1>14, <1>15, <1>16, <1>17, <1>18, <1>19, <1>20, <1>21, <1>22, <1>23, <1>24, <1>25, <1>26
  DEF Next, Thread, SpiWriteStep, ConsumeBuff, Dma, Chip

LEMMA OffStep ==
  ASSUME IInv, [Next]_vars
  PROVE  OffInv'
<1> USE DEF IInv, OffInv, BusInv
<1>1. CASE WlanStart BY <1>1 DEF WlanStart, Begin
<1>2. CASE WlanStop BY <1>2 DEF WlanStop
<1>3. CASE FirstWrite BY <1>3 DEF FirstWrite
<1>4. CASE FirstRest BY <1>4 DEF FirstRest
<1>5. CASE Reserve BY <1>5 DEF Reserve
<1>6. CASE WaitIrq BY <1>6 DEF WaitIrq
<1>7. CASE Written BY <1>7 DEF Written
<1>8. CASE NoBuffer BY <1>8 DEF NoBuffer
<1>9. CASE LoadFree BY <1>9 DEF LoadFree
<1>10. CASE StoreFree BY <1>10 DEF StoreFree
<1>11. CASE WaitEvent BY <1>11 DEF WaitEvent
<1>12. CASE WaitData BY <1>12 DEF WaitData
<1>13. CASE HandleEvent BY <1>13 DEF HandleEvent, UnsolEvent, Unsolicited, After
<1>14. CASE Return BY <1>14 DEF Return
<1>15. CASE Timeout BY <1>15 DEF Timeout
<1>16. CASE Exti BY <1>16 DEF Exti
<1>17. CASE DmaHeader BY <1>17 DEF DmaHeader
<1>18. CASE DmaPacket BY <1>18 DEF DmaPacket, Receive, UnsolEvent, Unsolicited
<1>19. CASE DmaFirst BY <1>19 DEF DmaFirst, Overwritten, Msg
<1>20. CASE DmaWritten BY <1>20 DEF DmaWritten, Overwritten, Msg
<1>21. CASE LowerPin BY <1>21 DEF LowerPin
<1>22. CASE Answer BY <1>22 DEF Answer, Msg
<1>23. CASE PeerCloses BY <1>23 DEF PeerCloses, Msg
<1>24. CASE PacketSent BY <1>24 DEF PacketSent, Msg
<1>25. CASE \E op \in Opcodes : Call(op) BY <1>25 DEF Call, Begin, Opcodes
<1>26. CASE UNCHANGED vars BY <1>26 DEF vars
<1> QED
  BY <1>1, <1>2, <1>3, <1>4, <1>5, <1>6, <1>7, <1>8, <1>9, <1>10, <1>11, <1>12, <1>13, <1>14, <1>15, <1>16, <1>17, <1>18, <1>19, <1>20, <1>21, <1>22, <1>23, <1>24, <1>25, <1>26
  DEF Next, Thread, SpiWriteStep, ConsumeBuff, Dma, Chip

LEMMA WaitStep ==
  ASSUME IInv, [Next]_vars
  PROVE  WaitInv'
<1> USE DEF IInv, WaitInv, OffInv, OfferInv, Opcodes
<1>1. CASE WlanStart BY <1>1 DEF WlanStart, Begin
<1>2. CASE WlanStop BY <1>2 DEF WlanStop
<1>3. CASE FirstWrite BY <1>3 DEF FirstWrite
<1>4. CASE FirstRest BY <1>4 DEF FirstRest
<1>5. CASE Reserve BY <1>5 DEF Reserve
<1>6. CASE WaitIrq BY <1>6 DEF WaitIrq
<1>7. CASE Written BY <1>7 DEF Written
<1>8. CASE NoBuffer BY <1>8 DEF NoBuffer
<1>9. CASE LoadFree BY <1>9 DEF LoadFree
<1>10. CASE StoreFree BY <1>10 DEF StoreFree
<1>11. CASE WaitEvent BY <1>11 DEF WaitEvent
<1>12. CASE WaitData BY <1>12 DEF WaitData
<1>13. CASE HandleEvent BY <1>13 DEF HandleEvent, UnsolEvent, Unsolicited, After
<1>14. CASE Return BY <1>14 DEF Return
<1>15. CASE Timeout BY <1>15 DEF Timeout
<1>16. CASE Exti BY <1>16 DEF Exti
<1>17. CASE DmaHeader BY <1>17 DEF DmaHeader
<1>18. CASE DmaPacket
  <2>1. free' \in Nat /\ free' >= free
    <3>1. free' \in {free, free + Packet.id}
      BY <1>18 DEF DmaPacket, Receive, UnsolEvent
    <3> QED BY <1>18, <3>1, PacketType
  <2> QED BY <1>18, <2>1, PacketType DEF DmaPacket
<1>19. CASE DmaFirst BY <1>19 DEF DmaFirst, Overwritten, Msg
<1>20. CASE DmaWritten BY <1>20 DEF DmaWritten, Overwritten, Msg
<1>21. CASE LowerPin BY <1>21 DEF LowerPin
<1>22. CASE Answer BY <1>22 DEF Answer, Msg
<1>23. CASE PeerCloses BY <1>23 DEF PeerCloses, Msg
<1>24. CASE PacketSent BY <1>24 DEF PacketSent, Msg
<1>25. CASE \E op \in Opcodes : Call(op) BY <1>25 DEF Call, Begin, Opcodes
<1>26. CASE UNCHANGED vars BY <1>26 DEF vars
<1> QED
  BY <1>1, <1>2, <1>3, <1>4, <1>5, <1>6, <1>7, <1>8, <1>9, <1>10, <1>11, <1>12, <1>13, <1>14, <1>15, <1>16, <1>17, <1>18, <1>19, <1>20, <1>21, <1>22, <1>23, <1>24, <1>25, <1>26
  DEF Next, Thread, SpiWriteStep, ConsumeBuff, Dma, Chip

LEMMA UnreadKeptStep ==
  ASSUME IInv, [Next]_vars
  PROVE  UnreadKept'
<1> USE DEF IInv, UnreadKept
<1>1. CASE WlanStart BY <1>1 DEF WlanStart, Begin
<1>2. CASE WlanStop BY <1>2 DEF WlanStop
<1>3. CASE FirstWrite BY <1>3 DEF FirstWrite
<1>4. CASE FirstRest BY <1>4 DEF FirstRest
<1>5. CASE Reserve BY <1>5 DEF Reserve
<1>6. CASE WaitIrq BY <1>6 DEF WaitIrq
<1>7. CASE Written BY <1>7 DEF Written
<1>8. CASE NoBuffer BY <1>8 DEF NoBuffer
<1>9. CASE LoadFree BY <1>9 DEF LoadFree
<1>10. CASE StoreFree BY <1>10 DEF StoreFree
<1>11. CASE WaitEvent BY <1>11 DEF WaitEvent
<1>12. CASE WaitData BY <1>12 DEF WaitData
<1>13. CASE HandleEvent BY <1>13 DEF HandleEvent, UnsolEvent, Unsolicited, After
<1>14. CASE Return BY <1>14 DEF Return
<1>15. CASE Timeout BY <1>15 DEF Timeout
<1>16. CASE Exti BY <1>16 DEF Exti
<1>17. CASE DmaHeader BY <1>17 DEF DmaHeader
<1>18. CASE DmaPacket BY <1>18 DEF DmaPacket, Receive, UnsolEvent, Unsolicited
<1>19. CASE DmaFirst BY <1>19 DEF DmaFirst, Overwritten, Msg
<1>20. CASE DmaWritten BY <1>20 DEF DmaWritten, Overwritten, Msg
<1>21. CASE LowerPin BY <1>21 DEF LowerPin
<1>22. CASE Answer BY <1>22 DEF Answer, Msg
<1>23. CASE PeerCloses BY <1>23 DEF PeerCloses, Msg
<1>24. CASE PacketSent BY <1>24 DEF PacketSent, Msg
<1>25. CASE \E op \in Opcodes : Call(op) BY <1>25 DEF Call, Begin, Opcodes
<1>26. CASE UNCHANGED vars BY <1>26 DEF vars
<1> QED
  BY <1>1, <1>2, <1>3, <1>4, <1>5, <1>6, <1>7, <1>8, <1>9, <1>10, <1>11, <1>12, <1>13, <1>14, <1>15, <1>16, <1>17, <1>18, <1>19, <1>20, <1>21, <1>22, <1>23, <1>24, <1>25, <1>26
  DEF Next, Thread, SpiWriteStep, ConsumeBuff, Dma, Chip

LEMMA NeverOverrunStep ==
  ASSUME IInv, [Next]_vars
  PROVE  NeverOverrun'
<1> USE DEF IInv, NeverOverrun, Owed, Unwritten, BusInv, OffInv, OfferInv, WaitInv
<1>1. CASE WlanStart BY <1>1 DEF WlanStart, Begin
<1>2. CASE WlanStop BY <1>2 DEF WlanStop
<1>3. CASE FirstWrite BY <1>3 DEF FirstWrite
<1>4. CASE FirstRest BY <1>4 DEF FirstRest
<1>5. CASE Reserve BY <1>5 DEF Reserve
<1>6. CASE WaitIrq BY <1>6 DEF WaitIrq
<1>7. CASE Written BY <1>7 DEF Written
<1>8. CASE NoBuffer BY <1>8 DEF NoBuffer
<1>9. CASE LoadFree BY <1>9 DEF LoadFree
<1>10. CASE StoreFree BY <1>10 DEF StoreFree
<1>11. CASE WaitEvent BY <1>11 DEF WaitEvent
<1>12. CASE WaitData BY <1>12 DEF WaitData
<1>13. CASE HandleEvent
  <2>1. CASE pc = "wait" /\ rx.op = "READ_BUFFER_SIZE" /\ rxOpcode = "READ_BUFFER_SIZE"
    BY <1>13, <2>1 DEF HandleEvent, Unsolicited, After
  <2>2. CASE ~(pc = "wait" /\ rx.op = "READ_BUFFER_SIZE" /\ rxOpcode = "READ_BUFFER_SIZE")
    <3>1. free' = free /\ unreleased' = unreleased /\ pc # "off"
      BY <1>13, <2>2 DEF HandleEvent, UnsolEvent, Unsolicited
    <3> QED BY <1>13, <3>1 DEF HandleEvent, After
  <2> QED BY <2>1, <2>2
<1>14. CASE Return BY <1>14 DEF Return
<1>15. CASE Timeout BY <1>15 DEF Timeout
<1>16. CASE Exti BY <1>16 DEF Exti
<1>17. CASE DmaHeader BY <1>17 DEF DmaHeader
<1>18. CASE DmaPacket
  <2>1. Owed' = Owed - credits + credits' /\ pc' = pc
    BY <1>18, PacketType DEF DmaPacket
  <2>2. CASE Packet.op = "FREE_BUFF"
    <3>1. free' = free + credits /\ unreleased' = unreleased - credits /\ credits' = 0
      BY <1>18, <2>2, PacketType DEF DmaPacket, Receive, UnsolEvent, Unsolicited
    <3> HIDE DEF Owed
    <3> QED BY <3>1, <2>1, PacketType
  <2>3. CASE Packet.op # "FREE_BUFF"
    <3>1. free' = free /\ unreleased' = unreleased /\ credits' = credits
      BY <1>18, <2>3, PacketType DEF DmaPacket, Receive, UnsolEvent
    <3> HIDE DEF Owed
    <3> QED BY <3>1, <2>1, PacketType
  <2> QED BY <2>2, <2>3
<1>19. CASE DmaFirst BY <1>19 DEF DmaFirst, Overwritten, Msg
<1>20. CASE DmaWritten BY <1>20 DEF DmaWritten, Overwritten, Msg
<1>21. CASE LowerPin BY <1>21 DEF LowerPin
<1>22. CASE Answer BY <1>22 DEF Answer, Msg
<1>23. CASE PeerCloses BY <1>23 DEF PeerCloses, Msg
<1>24. CASE PacketSent BY <1>24 DEF PacketSent, Msg
<1>25. CASE \E op \in Opcodes : Call(op) BY <1>25 DEF Call, Begin, Opcodes
<1>26. CASE UNCHANGED vars BY <1>26 DEF vars
<1> QED
  BY <1>1, <1>2, <1>3, <1>4, <1>5, <1>6, <1>7, <1>8, <1>9, <1>10, <1>11, <1>12, <1>13, <1>14, <1>15, <1>16, <1>17, <1>18, <1>19, <1>20, <1>21, <1>22, <1>23, <1>24, <1>25, <1>26
  DEF Next, Thread, SpiWriteStep, ConsumeBuff, Dma, Chip

(* The driver's variables keep their types: no count of buffers goes below *)
(* zero, although its decrement can be interrupted.                        *)
THEOREM DriverTypes == Spec => []TypeOK
<1>1. IInv /\ [Next]_vars => IInv'
  BY TypeStep, BusStep, OfferStep, OffStep, WaitStep, UnreadKeptStep, NeverOverrunStep DEF IInv
<1> QED BY InitInv, <1>1, PTL DEF Spec, IInv

(* No packet from the chip is read over one the thread has not seen.       *)
THEOREM ReadsWait == Spec => []UnreadKept
<1>1. IInv /\ [Next]_vars => IInv'
  BY TypeStep, BusStep, OfferStep, OffStep, WaitStep, UnreadKeptStep, NeverOverrunStep DEF IInv
<1> QED BY InitInv, <1>1, PTL DEF Spec, IInv

(* send() never writes more packets than the chip has buffers, however the *)
(* decrements and the events interleave.                                   *)
THEOREM ChipNotOverrun == Spec => []NeverOverrun
<1>1. IInv /\ [Next]_vars => IInv'
  BY TypeStep, BusStep, OfferStep, OffStep, WaitStep, UnreadKeptStep, NeverOverrunStep DEF IInv
<1> QED BY InitInv, <1>1, PTL DEF Spec, IInv

(***************************************************************************)
(* Close events.                                                           *)
(***************************************************************************)
LEMMA AppendKeeps ==
  ASSUME NEW S, NEW s \in Seq(S), NEW t \in Seq(S), NEW i \in 1..Len(s)
  PROVE  i \in 1..Len(s \o t) /\ (s \o t)[i] = s[i]
  BY ConcatProperties, LenProperties

LEMMA TailKeeps ==
  ASSUME NEW S, NEW s \in Seq(S), NEW i \in 1..Len(s), i # 1
  PROVE  i - 1 \in 1..Len(Tail(s)) /\ Tail(s)[i - 1] = s[i]
  OBVIOUS

LEMMA AnswerKeeps ==
  ASSUME ChipOK, Answer, ClosePending
  PROVE  ClosePending'
<1> DEFINE m(ok) == Msg(Head(cmds).op, Head(cmds).id, ok)
           data  == Msg("DATA", Head(cmds).id, TRUE)
<1>1. PICK i \in 1..Len(toHost) : toHost[i].op = "CLOSE_WAIT"
  BY DEF ClosePending
<1>2. PICK ok \in BOOLEAN : toHost' = IF Head(cmds).op = "RECV" /\ ok
                                       THEN toHost \o <<m(ok), data>> ELSE Append(toHost, m(ok))
  BY DEF Answer
<1>3. Head(cmds) \in [op : Opcodes, id : Nat]
  <2> DEFINE C == [op : Opcodes, id : Nat]
  <2>1. cmds \in Seq(C) /\ cmds # << >>
    BY DEF Answer
  <2> HIDE DEF C
  <2>2. Head(cmds) \in C
    BY <2>1
  <2> QED BY <2>2 DEF C
<1>4. m(ok) \in Messages /\ data \in Messages /\ toHost \in Seq(Messages)
  BY <1>3 DEF Msg, Messages
<1> HIDE DEF m, data
<1>5. <<m(ok), data>> \in Seq(Messages) /\ <<m(ok)>> \in Seq(Messages)
      /\ Append(toHost, m(ok)) = toHost \o <<m(ok)>>
  BY <1>4, AppendIsConcat
<1>6. i \in 1..Len(toHost') /\ toHost'[i] = toHost[i]
  BY <1>2, <1>4, <1>5, AppendKeeps
<1> QED BY <1>1, <1>6 DEF ClosePending

LEMMA NoticedStep ==
  ASSUME IInv, CloseNoticed, [Next]_vars
  PROVE  CloseNoticed'
<1> USE DEF IInv, CloseNoticed, ClosePending
<1>1. CASE WlanStart BY <1>1 DEF WlanStart, Begin
<1>2. CASE WlanStop BY <1>2 DEF WlanStop
<1>3. CASE FirstWrite BY <1>3 DEF FirstWrite
<1>4. CASE FirstRest BY <1>4 DEF FirstRest
<1>5. CASE Reserve BY <1>5 DEF Reserve
<1>6. CASE WaitIrq BY <1>6 DEF WaitIrq
<1>7. CASE Written BY <1>7 DEF Written
<1>8. CASE NoBuffer BY <1>8 DEF NoBuffer
<1>9. CASE LoadFree BY <1>9 DEF LoadFree
<1>10. CASE StoreFree BY <1>10 DEF StoreFree
<1>11. CASE WaitEvent BY <1>11 DEF WaitEvent
<1>12. CASE WaitData BY <1>12 DEF WaitData
<1>13. CASE HandleEvent BY <1>13 DEF HandleEvent, UnsolEvent
<1>14. CASE Return BY <1>14 DEF Return
<1>15. CASE Timeout BY <1>15 DEF Timeout
<1>16. CASE Exti BY <1>16 DEF Exti
<1>17. CASE DmaHeader BY <1>17 DEF DmaHeader
<1>18. CASE DmaFirst BY <1>18 DEF DmaFirst
<1>19. CASE DmaWritten BY <1>19 DEF DmaWritten
<1>20. CASE LowerPin BY <1>20 DEF LowerPin
<1>21. CASE \E op \in Opcodes : Call(op) BY <1>21 DEF Call, Begin
<1>22. CASE UNCHANGED vars BY <1>22 DEF vars
<1>23. CASE DmaPacket
  <2>1. toHost # << >> /\ toHost \in Seq(Messages) /\ toHost' = Tail(toHost)
    BY <1>23 DEF DmaPacket, OfferInv
  <2>2. CASE Packet.op = "CLOSE_WAIT"
    BY <1>23, <2>2 DEF DmaPacket, Receive, UnsolEvent, Unsolicited
  <2>3. CASE Packet.op # "CLOSE_WAIT"
    <3>1. toHost[1].op # "CLOSE_WAIT"
      BY <2>1, <2>3, HeadTailProperties DEF Packet, Messages
    <3>2. ASSUME NEW i \in 1..Len(toHost), toHost[i].op = "CLOSE_WAIT"
          PROVE  ClosePending'
      <4>1. i - 1 \in 1..Len(toHost') /\ toHost'[i - 1] = toHost[i]
        BY <2>1, <3>1, <3>2, TailKeeps
      <4> QED BY <4>1, <3>2
    <3>3. conn' = conn /\ hidden' = hidden /\ (active' => active)
      BY <1>23 DEF DmaPacket, Receive, UnsolEvent
    <3> QED BY <3>2, <3>3
  <2> QED BY <2>2, <2>3
<1>24. CASE Answer
  <2>1. ClosePending => ClosePending'
    BY <1>24, AnswerKeeps
  <2>2. active' = active /\ hidden' = hidden /\ (conn' = "closed" => conn = "closed")
    BY <1>24 DEF Answer
  <2> QED BY <2>1, <2>2
<1>25. CASE PeerCloses
  <2> DEFINE m == Msg("CLOSE_WAIT", 0, TRUE)
  <2>1. toHost' = Append(toHost, m) /\ m \in Messages /\ m.op = "CLOSE_WAIT" /\ toHost \in Seq(Messages)
    BY <1>25, MsgType DEF PeerCloses, Msg
  <2> HIDE DEF m
  <2>2. toHost'[Len(toHost) + 1] = m /\ Len(toHost') = Len(toHost) + 1 /\ Len(toHost) \in Nat
    BY <2>1, AppendProperties, LenProperties
  <2> QED BY <2>1, <2>2
<1>26. CASE PacketSent
  <2> DEFINE m == Msg("FREE_BUFF", 0, TRUE)
  <2>1. (toHost' = toHost \/ toHost' = Append(toHost, m)) /\ m \in Messages /\ toHost \in Seq(Messages)
    BY <1>26, MsgType DEF PacketSent
  <2> HIDE DEF m
  <2>2. ASSUME NEW i \in 1..Len(toHost), toHost[i].op = "CLOSE_WAIT"
        PROVE  ClosePending'
    <3>1. i \in 1..Len(toHost') /\ toHost'[i] = toHost[i]
      BY <2>1, AppendProperties, LenProperties
    <3> QED BY <3>1, <2>2
  <2>3. UNCHANGED <<conn, active, hidden>>
    BY <1>26 DEF PacketSent
  <2> QED BY <2>2, <2>3
<1> QED
  BY <1>1, <1>2, <1>3, <1>4, <1>5, <1>6, <1>7, <1>8, <1>9, <1>10, <1>11, <1>12, <1>13, <1>14, <1>15, <1>16, <1>17, <1>18, <1>19, <1>20, <1>21, <1>22, <1>23, <1>24, <1>25, <1>26
  DEF Next, Thread, SpiWriteStep, ConsumeBuff, Dma, Chip

(* A close event is never lost to the driver: only accept() itself, which  *)
(* marks its new socket active after the wait, can hide one.               *)
THEOREM ClosesAreNoticed == Spec => []CloseNoticed
<1>1. Init => CloseNoticed
  BY DEF Init, CloseNoticed
<1>2. IInv /\ CloseNoticed /\ [Next]_vars => CloseNoticed'
  BY NoticedStep
<1>3. IInv /\ [Next]_vars => IInv'
  BY TypeStep, BusStep, OfferStep, OffStep, WaitStep, UnreadKeptStep, NeverOverrunStep DEF IInv
<1> QED BY InitInv, <1>1, <1>2, <1>3, PTL DEF Spec

(***************************************************************************)
(* Whose answer is on the way: commands and answers carry the number of    *)
(* their call.                                                             *)
(***************************************************************************)
IdsInv ==
  /\ \A i \in 1..Len(cmds) : cmds[i].id <= call.id
  /\ \A i \in 1..Len(toHost) : toHost[i].id <= call.id
  /\ rx.id <= call.id /\ got.id <= call.id /\ gotData.id <= call.id

(* An answer or data, not an event of the chip's own. *)
Reply(i) == toHost[i].op \notin {"FREE_BUFF", "CLOSE_WAIT"}

Clear ==
  /\ cmds = << >> /\ ~received
  /\ \A i \in 1..Len(toHost) : ~Reply(i)

(* The command of the call under way is out. *)
Posted == pc \in {"sent", "wait", "recvd", "waitData"} \/ (pc = "writing" /\ dma # "write")

TurnInv ==
  /\ ~Posted => Clear
  /\ rxOpcode = IF pc = "wait" THEN call.op ELSE "NONE"
  /\ dataPending <=> pc = "waitData"
  /\ pc \in {"recvd", "waitData"} => call.op = "RECV"

(* Either the command is in the chip, or what is left of its answer comes  *)
(* in order: the event, and after a RECV's that is good the data.          *)
CommandInv ==
  cmds # << >> =>
    /\ cmds = <<call>> /\ ~received /\ pc \notin {"recvd", "waitData"}
    /\ \A i \in 1..Len(toHost) : ~Reply(i)

QueueInv ==
  /\ \A i \in 1..Len(toHost) : Reply(i) =>
       /\ toHost[i].id = call.id
       /\ toHost[i].op \in {call.op, "DATA"}
       /\ received => rx.op = "RECV" /\ rx.ok
       /\ received \/ pc \in {"recvd", "waitData"} => toHost[i].op = "DATA"
  /\ \A i, j \in 1..Len(toHost) : Reply(i) /\ Reply(j) /\ i < j =>
       toHost[i].op = "RECV" /\ toHost[i].ok /\ toHost[j].op = "DATA"

HandInv ==
  /\ received => /\ rx.id = call.id
                 /\ rx.op \in {call.op, "DATA"}
                 /\ pc \in {"recvd", "waitData"} => rx.op = "DATA"
  /\ got = Nothing \/ got.id = call.id
  /\ gotData = Nothing \/ gotData.id = call.id

RepliesInv == CommandInv /\ QueueInv /\ HandInv

FreshInv == ~late => TurnInv /\ RepliesInv

(* What the chip's answer adds to the packets it offers.                   *)
LEMMA AnswerEffect ==
  ASSUME ChipOK, Answer
  PROVE  /\ cmds # << >> /\ cmds' = Tail(cmds) /\ Len(cmds) \in Nat \ {0}
         /\ \A i \in 1..Len(cmds') : i + 1 \in 1..Len(cmds) /\ cmds'[i] = cmds[i + 1]
         /\ cmds[1].id \in Nat /\ cmds[1].op \in Opcodes
         /\ Len(toHost) \in Nat
         /\ \E ok \in BOOLEAN : \A j \in 1..Len(toHost') :
              \/ j \in 1..Len(toHost) /\ toHost'[j] = toHost[j]
              \/ j = Len(toHost) + 1 /\ toHost'[j] = Msg(cmds[1].op, cmds[1].id, ok)
              \/ /\ j = Len(toHost) + 2 /\ cmds[1].op = "RECV" /\ ok
                 /\ toHost'[j] = Msg("DATA", cmds[1].id, TRUE)
<1>1. /\ cmds # << >> /\ cmds' = Tail(cmds) /\ Len(cmds) \in Nat \ {0}
      /\ \A i \in 1..Len(cmds') : i + 1 \in 1..Len(cmds) /\ cmds'[i] = cmds[i + 1]
      /\ Head(cmds) = cmds[1] /\ cmds[1] \in [op : Opcodes, id : Nat]
  <2> DEFINE C == [op : Opcodes, id : Nat]
  <2>1. cmds \in Seq(C) /\ cmds # << >> /\ cmds' = Tail(cmds)
    BY DEF Answer
  <2> HIDE DEF C
  <2>2. Len(cmds) \in Nat \ {0} /\ Head(cmds) = cmds[1] /\ cmds[1] \in C
    BY <2>1
  <2>3. \A i \in 1..Len(cmds') : i + 1 \in 1..Len(cmds) /\ cmds'[i] = cmds[i + 1]
    BY <2>1
  <2> QED BY <2>1, <2>2, <2>3 DEF C
<1> DEFINE m(ok) == Msg(cmds[1].op, cmds[1].id, ok)
           data  == Msg("DATA", cmds[1].id, TRUE)
<1>2. PICK ok \in BOOLEAN : toHost' = IF cmds[1].op = "RECV" /\ ok
                                       THEN toHost \o <<m(ok), data>> ELSE Append(toHost, m(ok))
  BY <1>1 DEF Answer
<1>3. m(ok) \in Messages /\ data \in Messages /\ toHost \in Seq(Messages)
  BY <1>1 DEF Msg, Messages
<1> HIDE DEF m, data
<1>4. /\ Len(toHost) \in Nat
      /\ <<m(ok), data>> \in Seq(Messages) /\ Len(<<m(ok), data>>) = 2
      /\ <<m(ok), data>>[1] = m(ok) /\ <<m(ok), data>>[2] = data
  BY <1>3, LenProperties
<1>5. CASE cmds[1].op = "RECV" /\ ok
  <2>1. /\ Len(toHost') = Len(toHost) + 2
        /\ \A j \in 1..Len(toHost) + 2 : toHost'[j] =
             IF j <= Len(toHost) THEN toHost[j] ELSE <<m(ok), data>>[j - Len(toHost)]
    BY <1>2, <1>3, <1>4, <1>5, ConcatProperties
  <2>2. \A j \in 1..Len(toHost') :
          \/ j \in 1..Len(toHost) /\ toHost'[j] = toHost[j]
          \/ j = Len(toHost) + 1 /\ toHost'[j] = m(ok)
          \/ j = Len(toHost) + 2 /\ toHost'[j] = data
    BY <1>4, <2>1
  <2> QED BY <1>1, <1>4, <1>5, <2>2 DEF m, data
<1>6. CASE ~(cmds[1].op = "RECV" /\ ok)
  <2>1. \A j \in 1..Len(toHost') :
          \/ j \in 1..Len(toHost) /\ toHost'[j] = toHost[j]
          \/ j = Len(toHost) + 1 /\ toHost'[j] = m(ok)
    BY <1>2, <1>3, <1>4, <1>6, AppendProperties
  <2> QED BY <1>1, <1>4, <2>1 DEF m
<1> QED BY <1>5, <1>6

(* The chip's events are no replies. *)
LEMMA EventsEffect ==
  ASSUME ChipOK, PeerCloses \/ PacketSent
  PROVE  /\ UNCHANGED <<cmds, received, rx, got, gotData, call, late, pc, dma, rxOpcode,
                        dataPending>>
         /\ \A j \in 1..Len(toHost') :
              \/ j \in 1..Len(toHost) /\ toHost'[j] = toHost[j]
              \/ toHost'[j].op \in {"FREE_BUFF", "CLOSE_WAIT"} /\ toHost'[j].id = 0
<1>1. PICK op \in {"FREE_BUFF", "CLOSE_WAIT"} :
        toHost' = toHost \/ toHost' = Append(toHost, Msg(op, 0, TRUE))
  BY DEF PeerCloses, PacketSent
<1> DEFINE m == Msg(op, 0, TRUE)
<1>2. m \in Messages /\ m.op = op /\ m.id = 0 /\ toHost \in Seq(Messages)
  BY DEF Msg, Messages
<1>3. toHost' = toHost \/ toHost' = Append(toHost, m)
  BY <1>1
<1> HIDE DEF m
<1>4. \A j \in 1..Len(toHost') :
        \/ j \in 1..Len(toHost) /\ toHost'[j] = toHost[j]
        \/ toHost'[j] = m
  BY <1>2, <1>3, AppendProperties, LenProperties
<1>5. UNCHANGED <<cmds, received, rx, got, gotData, call, late, pc, dma, rxOpcode, dataPending>>
  BY DEF PeerCloses, PacketSent
<1> QED BY <1>1, <1>2, <1>4, <1>5

(* A packet read from the chip is the first one it offered; what the       *)
(* interrupt does not handle itself is a reply.                            *)
LEMMA PacketEffect ==
  ASSUME IInv, DmaPacket
  PROVE  /\ UNCHANGED <<cmds, got, gotData, call, late, pc, rxOpcode, dataPending>>
         /\ dma = "read" /\ dma' = "none" /\ ~received
         /\ Len(toHost) \in Nat \ {0} /\ toHost[1] \in Messages
         /\ \A j \in 1..Len(toHost') : j + 1 \in 1..Len(toHost) /\ toHost'[j] = toHost[j + 1]
         /\ received' => rx' = toHost[1] /\ Reply(1)
         /\ ~received' => rx' = Nothing
<1>1. toHost \in Seq(Messages) /\ toHost # << >> /\ toHost' = Tail(toHost)
  BY DEF IInv, OfferInv, DmaPacket
<1>2. /\ Len(toHost) \in Nat \ {0} /\ toHost[1] \in Messages /\ Head(toHost) = toHost[1]
      /\ \A j \in 1..Len(toHost') : j + 1 \in 1..Len(toHost) /\ toHost'[j] = toHost[j + 1]
  BY <1>1
<1>3. Packet.op = toHost[1].op /\ (Packet.op # "FREE_BUFF" => Packet = toHost[1])
  BY <1>2 DEF Packet, Messages
<1>4. received' => Packet.op \notin {"FREE_BUFF", "CLOSE_WAIT"} /\ rx' = Packet
  BY DEF DmaPacket, Receive, Unsolicited
<1>5. ~received' => rx' = Nothing
  BY DEF DmaPacket, Receive
<1>6. /\ UNCHANGED <<cmds, got, gotData, call, late, pc, rxOpcode, dataPending>>
      /\ dma = "read" /\ dma' = "none" /\ ~received
  BY DEF DmaPacket, IInv, UnreadKept
<1> QED BY <1>2, <1>3, <1>4, <1>5, <1>6 DEF Reply

LEMMA IdTypes ==
  ASSUME TypeOK
  PROVE  /\ \A i \in 1..Len(cmds) : cmds[i].id \in Nat
         /\ \A i \in 1..Len(toHost) : toHost[i].id \in Nat
         /\ rx.id \in Nat /\ got.id \in Nat /\ gotData.id \in Nat /\ call.id \in Nat
<1>1. \A i \in 1..Len(cmds) : cmds[i].id \in Nat
  <2> DEFINE C == [op : Opcodes, id : Nat]
  <2>1. cmds \in Seq(C)
    OBVIOUS
  <2> HIDE DEF C
  <2>2. \A i \in 1..Len(cmds) : cmds[i] \in C
    BY <2>1, ElementOfSeq
  <2> QED BY <2>2 DEF C
<1>2. \A i \in 1..Len(toHost) : toHost[i].id \in Nat
  <2>1. \A i \in 1..Len(toHost) : toHost[i] \in Messages
    BY ElementOfSeq
  <2> QED BY <2>1 DEF Messages
<1>3. rx.id \in Nat /\ got.id \in Nat /\ gotData.id \in Nat /\ call.id \in Nat
  BY DEF Messages
<1> QED BY <1>1, <1>2, <1>3

LEMMA IdsStep ==
  ASSUME IInv, IdsInv, [Next]_vars
  PROVE  IdsInv'
<1> USE DEF IdsInv
<1>0. TypeOK /\ call.id \in Nat /\ Len(cmds) \in Nat /\ Len(toHost) \in Nat
  BY LenProperties DEF IInv
<1>1. CASE WlanStart
  <2>1. call'.id = call.id + 1 /\ UNCHANGED <<cmds, toHost>>
        /\ rx' = Nothing /\ got' = Nothing /\ gotData' = Nothing
    BY <1>1 DEF WlanStart, Begin
  <2> HIDE DEF TypeOK
  <2> QED BY <1>0, <2>1, IdTypes DEF Nothing, Msg
<1>2. CASE WlanStop
  BY <1>2 DEF WlanStop
<1>3. CASE \E op \in Opcodes : Call(op)
  <2>1. call'.id = call.id + 1 /\ UNCHANGED <<cmds, toHost, rx>>
        /\ got' = Nothing /\ gotData' = Nothing
    BY <1>3 DEF Call, Begin
  <2> HIDE DEF TypeOK
  <2> QED BY <1>0, <2>1, IdTypes DEF Nothing, Msg
<1>4. CASE HandleEvent
  <2>1. /\ UNCHANGED <<cmds, toHost, call>> /\ rx' = Nothing
        /\ got' \in {got, rx} /\ gotData' \in {gotData, rx}
    BY <1>4 DEF HandleEvent
  <2> QED BY <1>0, <2>1 DEF Nothing, Msg
<1>5. CASE DmaPacket
  <2>1. rx' \in {toHost[1], Nothing} /\ 1 \in 1..Len(toHost)
    BY <1>5, PacketEffect
  <2>2. rx'.id <= call.id
    BY <1>0, <2>1 DEF Nothing, Msg
  <2> QED BY <1>5, <2>2, PacketEffect
<1>6. CASE DmaFirst \/ DmaWritten
  <2>1. /\ UNCHANGED <<toHost, call, got, gotData>>
        /\ cmds' = cmds \/ cmds' = Append(cmds, call)
        /\ Overwritten
    BY <1>6 DEF DmaFirst, DmaWritten
  <2>2. rx'.id <= call.id
    BY <1>0, <2>1 DEF Overwritten, Msg
  <2>3. ASSUME NEW i \in 1..Len(cmds')
        PROVE  cmds'[i].id <= call.id
    <3> DEFINE C == [op : Opcodes, id : Nat]
    <3>1. cmds \in Seq(C) /\ call \in C
      BY <1>0
    <3> HIDE DEF C
    <3>2. (i \in 1..Len(cmds) /\ cmds'[i] = cmds[i]) \/ cmds'[i] = call
      BY <2>1, <3>1, AppendProperties, LenProperties
    <3> QED BY <1>0, <3>2
  <2> QED BY <2>1, <2>2, <2>3
<1>7. CASE Answer
  <2>1. UNCHANGED <<call, rx, got, gotData>>
    BY <1>7 DEF Answer
  <2>2. \A i \in 1..Len(cmds') : cmds'[i].id <= call.id
    BY <1>0, <1>7, AnswerEffect
  <2>3. 1 \in 1..Len(cmds) /\ cmds[1].id <= call.id
    <3>1. Len(cmds) \in Nat \ {0}
      BY <1>0, <1>7, AnswerEffect
    <3> QED BY <3>1
  <2>4. PICK ok \in BOOLEAN : \A j \in 1..Len(toHost') :
          \/ j \in 1..Len(toHost) /\ toHost'[j] = toHost[j]
          \/ j = Len(toHost) + 1 /\ toHost'[j] = Msg(cmds[1].op, cmds[1].id, ok)
          \/ /\ j = Len(toHost) + 2 /\ cmds[1].op = "RECV" /\ ok
             /\ toHost'[j] = Msg("DATA", cmds[1].id, TRUE)
    BY <1>0, <1>7, AnswerEffect
  <2>5. \A j \in 1..Len(toHost') : toHost'[j].id <= call.id
    BY <2>3, <2>4 DEF Msg
  <2> QED BY <2>1, <2>2, <2>5
<1>8. CASE PeerCloses \/ PacketSent
  BY <1>0, <1>8, EventsEffect
<1>9. CASE UNCHANGED <<cmds, toHost, rx, got, gotData, call>>
  BY <1>9
<1>10. CASE SpiWriteStep \/ ConsumeBuff \/ WaitEvent \/ WaitData \/ Return
  BY <1>9, <1>10 DEF SpiWriteStep, ConsumeBuff, WaitEvent, WaitData, Return, FirstWrite,
       FirstRest, Reserve, WaitIrq, Written, NoBuffer, LoadFree, StoreFree
<1>11. CASE Timeout \/ Exti \/ DmaHeader \/ LowerPin \/ UNCHANGED vars
  BY <1>9, <1>11 DEF Timeout, Exti, DmaHeader, LowerPin, vars
<1> QED
  BY <1>1, <1>2, <1>3, <1>4, <1>5, <1>6, <1>7, <1>8, <1>10, <1>11
  DEF Next, Thread, Dma, Chip

Replying == <<cmds, toHost, received, rx, got, gotData, call>>

LEMMA StartFresh ==
  ASSUME IInv, WlanStart
  PROVE  TurnInv' /\ RepliesInv'
<1>1. /\ cmds' = << >> /\ toHost' = << >> /\ ~received' /\ pc' = "powerup"
      /\ rxOpcode' = "NONE" /\ ~dataPending' /\ got' = Nothing /\ gotData' = Nothing
  BY DEF IInv, OffInv, WlanStart, Begin
<1> QED BY <1>1 DEF TurnInv, RepliesInv, Clear, Posted, CommandInv, QueueInv, HandInv

LEMMA QuietReplies ==
  ASSUME RepliesInv, UNCHANGED Replying,
         pc' \in {"recvd", "waitData"} => pc \in {"recvd", "waitData"}
  PROVE  RepliesInv'
BY DEF RepliesInv, Replying, CommandInv, QueueInv, HandInv, Reply

LEMMA ThreadFresh ==
  ASSUME IInv, TurnInv, RepliesInv,
         SpiWriteStep \/ ConsumeBuff \/ WaitEvent \/ WaitData \/ Return
  PROVE  TurnInv' /\ RepliesInv'
<1> USE DEF TurnInv, Posted, Clear, Reply, Replying
<1>1. CASE FirstWrite \/ FirstRest \/ Reserve \/ WaitIrq
  <2>1. TurnInv'
    BY <1>1 DEF FirstWrite, FirstRest, Reserve, WaitIrq
  <2>2. UNCHANGED Replying /\ pc' \notin {"recvd", "waitData"}
    BY <1>1 DEF FirstWrite, FirstRest, Reserve, WaitIrq
  <2> QED BY <2>1, <2>2, QuietReplies
<1>2. CASE ConsumeBuff
  <2>1. TurnInv'
    BY <1>2 DEF ConsumeBuff, NoBuffer, LoadFree, StoreFree
  <2>2. UNCHANGED Replying /\ pc' \notin {"recvd", "waitData"}
    BY <1>2 DEF ConsumeBuff, NoBuffer, LoadFree, StoreFree
  <2> QED BY <2>1, <2>2, QuietReplies
<1>3. CASE Written \/ WaitEvent \/ WaitData \/ Return
  <2>1. TurnInv'
    BY <1>3 DEF Written, WaitEvent, WaitData, Return
  <2>2. UNCHANGED Replying /\ (pc' \in {"recvd", "waitData"} => pc = "recvd")
    BY <1>3 DEF Written, WaitEvent, WaitData, Return
  <2> QED BY <2>1, <2>2, QuietReplies
<1> QED BY <1>1, <1>2, <1>3 DEF SpiWriteStep

LEMMA HandleFresh ==
  ASSUME IInv, TurnInv, RepliesInv, HandleEvent
  PROVE  TurnInv' /\ RepliesInv'
<1>1. /\ pc \in {"wait", "waitData"} /\ received
      /\ UNCHANGED <<cmds, toHost, call, dma>> /\ ~received' /\ rx' = Nothing
      /\ got' \in {got, rx} /\ gotData' \in {gotData, rx}
  BY DEF HandleEvent
<1>2. /\ rx.id = call.id /\ rx.op \in {call.op, "DATA"}
      /\ cmds = << >>
      /\ pc = "waitData" => rx.op = "DATA" /\ rxOpcode = "NONE" /\ dataPending
      /\ pc = "wait" => rxOpcode = call.op /\ ~dataPending
  BY <1>1 DEF TurnInv, RepliesInv, CommandInv, HandInv
<1>3. HandInv'
  BY <1>1, <1>2 DEF HandInv, RepliesInv
<1>4. CommandInv'
  BY <1>1, <1>2 DEF CommandInv
<1>5. rx.op = "DATA" => \A i \in 1..Len(toHost) : ~Reply(i)
  BY <1>1 DEF RepliesInv, QueueInv
<1>6. \A i \in 1..Len(toHost) : Reply(i) =>
        rx.op = "RECV" /\ rx.ok /\ toHost[i].op = "DATA" /\ toHost[i].id = call.id
  BY <1>1 DEF RepliesInv, QueueInv
<1>7. QueueInv'
  BY <1>1, <1>6 DEF RepliesInv, QueueInv, Reply
<1>8. TurnInv'
  <2>1. CASE rx.op = "DATA"
    <3>1. /\ pc = "wait" => pc' = "wait" /\ rxOpcode' = rxOpcode /\ ~dataPending'
          /\ pc = "waitData" => pc' = "ret" /\ rxOpcode' = "NONE" /\ ~dataPending'
      <4>1. rxOpcode' = rxOpcode /\ ~dataPending'
        BY <1>1, <2>1 DEF HandleEvent
      <4>2. pc' = IF rxOpcode' = "NONE" /\ ~dataPending' THEN After(got') ELSE pc
        BY DEF HandleEvent
      <4>3. call.op # "NONE"
        BY DEF IInv, Opcodes
      <4> QED BY <1>1, <1>2, <4>1, <4>2, <4>3 DEF After
    <3> QED BY <1>1, <1>2, <1>5, <2>1, <3>1 DEF TurnInv, Clear, Posted, Reply
  <2>2. CASE rx.op # "DATA"
    <3>1. /\ pc = "wait" /\ rx.op = rxOpcode /\ rxOpcode' = "NONE" /\ ~dataPending'
          /\ pc' = After(got')
          /\ rx.op = "RECV" => got' = rx
      BY <1>1, <1>2, <2>2 DEF HandleEvent, Unsolicited
    <3>2. pc' = "recvd" => call.op = "RECV"
      BY <3>1 DEF After
    <3>3. pc' # "recvd" => pc' = "ret" /\ ~(rx.op = "RECV" /\ rx.ok)
      BY <1>2, <2>2, <3>1 DEF After
    <3> QED BY <1>1, <1>2, <1>6, <3>1, <3>2, <3>3 DEF TurnInv, Clear, Posted, Reply
  <2> QED BY <2>1, <2>2
<1> QED BY <1>3, <1>4, <1>7, <1>8 DEF RepliesInv

LEMMA PacketFresh ==
  ASSUME IInv, TurnInv, RepliesInv, DmaPacket
  PROVE  TurnInv' /\ RepliesInv'
<1>1. /\ UNCHANGED <<cmds, got, gotData, call, pc, rxOpcode, dataPending>>
      /\ dma = "read" /\ dma' = "none" /\ ~received
      /\ 1 \in 1..Len(toHost)
      /\ \A j \in 1..Len(toHost') : j + 1 \in 1..Len(toHost) /\ toHost'[j] = toHost[j + 1]
      /\ received' => rx' = toHost[1] /\ Reply(1)
      /\ ~received' => rx' = Nothing
  BY PacketEffect
<1>2. \A j \in 1..Len(toHost') : Reply(j)' = Reply(j + 1)
  BY <1>1 DEF Reply
<1>3. received' => Posted /\ cmds = << >>
  BY <1>1 DEF TurnInv, Clear, RepliesInv, CommandInv
<1>4. TurnInv'
  BY <1>1, <1>2, <1>3 DEF TurnInv, Clear, Posted
<1>5. CommandInv'
  BY <1>1, <1>2, <1>3 DEF CommandInv, RepliesInv
<1>6. HandInv'
  BY <1>1 DEF HandInv, RepliesInv, QueueInv
<1>7. QueueInv'
  <2>1. ASSUME NEW i \in 1..Len(toHost'), Reply(i)'
        PROVE  /\ toHost'[i].id = call'.id
               /\ toHost'[i].op \in {call'.op, "DATA"}
               /\ received' => rx'.op = "RECV" /\ rx'.ok
               /\ received' \/ pc' \in {"recvd", "waitData"} => toHost'[i].op = "DATA"
    <3>1. /\ i + 1 \in 1..Len(toHost) /\ Reply(i + 1) /\ toHost'[i] = toHost[i + 1]
          /\ 1 < i + 1
      BY <1>1, <1>2, <2>1
    <3> QED BY <1>1, <3>1 DEF RepliesInv, QueueInv
  <2>2. ASSUME NEW i \in 1..Len(toHost'), NEW j \in 1..Len(toHost'),
               Reply(i)', Reply(j)', i < j
        PROVE  toHost'[i].op = "RECV" /\ toHost'[i].ok /\ toHost'[j].op = "DATA"
    <3>1. /\ i + 1 \in 1..Len(toHost) /\ Reply(i + 1) /\ toHost'[i] = toHost[i + 1]
          /\ j + 1 \in 1..Len(toHost) /\ Reply(j + 1) /\ toHost'[j] = toHost[j + 1]
          /\ i + 1 < j + 1
      BY <1>1, <1>2, <2>2
    <3> QED BY <3>1 DEF RepliesInv, QueueInv
  <2> QED BY <2>1, <2>2 DEF QueueInv
<1> QED BY <1>4, <1>5, <1>6, <1>7 DEF RepliesInv

LEMMA WriteFresh ==
  ASSUME IInv, TurnInv, RepliesInv, DmaFirst \/ DmaWritten
  PROVE  TurnInv' /\ RepliesInv'
<1>1. Clear /\ ~Posted
  BY DEF DmaFirst, DmaWritten, IInv, BusInv, TurnInv, Posted
<1>2. CASE DmaFirst
  <2>1. UNCHANGED Replying /\ UNCHANGED <<pc, rxOpcode, dataPending>> /\ pc = "first"
    BY <1>1, <1>2 DEF DmaFirst, Overwritten, Clear, Replying, IInv, BusInv
  <2>2. TurnInv'
    BY <1>1, <2>1 DEF TurnInv, Posted, Clear, Reply, Replying
  <2> QED BY <2>1, <2>2, QuietReplies
<1>3. CASE DmaWritten
  <2>1. /\ UNCHANGED <<pc, toHost, received, rx, got, gotData, call, rxOpcode, dataPending>>
        /\ pc = "writing" /\ dma' = "none" /\ cmds' = Append(cmds, call)
    BY <1>1, <1>3 DEF DmaWritten, Overwritten, Clear, IInv, BusInv
  <2>2. cmds' = <<call>>
    BY <1>1, <2>1 DEF Clear
  <2>3. TurnInv'
    BY <2>1 DEF TurnInv, Posted
  <2>4. CommandInv' /\ QueueInv' /\ HandInv'
    BY <1>1, <2>1, <2>2 DEF CommandInv, QueueInv, HandInv, Clear, Reply, RepliesInv
  <2> QED BY <2>3, <2>4 DEF RepliesInv
<1> QED BY <1>2, <1>3

LEMMA AnswerFresh ==
  ASSUME IInv, TurnInv, RepliesInv, Answer
  PROVE  TurnInv' /\ RepliesInv'
<1>0. ChipOK
  BY DEF IInv
<1>1. /\ UNCHANGED <<pc, dma, received, rx, got, gotData, call, rxOpcode, dataPending>>
      /\ cmds # << >> /\ cmds' = Tail(cmds)
  BY DEF Answer
<1>2. /\ cmds = <<call>> /\ ~received /\ pc \notin {"recvd", "waitData"}
      /\ \A i \in 1..Len(toHost) : ~Reply(i)
  BY <1>1 DEF RepliesInv, CommandInv
<1>3. cmds' = << >> /\ cmds[1] = call
  BY <1>1, <1>2
<1>4. Posted /\ Posted'
  BY <1>1 DEF TurnInv, Clear, Posted
<1>5. PICK ok \in BOOLEAN : \A j \in 1..Len(toHost') :
        \/ j \in 1..Len(toHost) /\ toHost'[j] = toHost[j]
        \/ j = Len(toHost) + 1 /\ toHost'[j] = Msg(call.op, call.id, ok)
        \/ /\ j = Len(toHost) + 2 /\ call.op = "RECV" /\ ok
           /\ toHost'[j] = Msg("DATA", call.id, TRUE)
  BY <1>0, <1>3, AnswerEffect
<1>6. Len(toHost) \in Nat
  BY <1>0, AnswerEffect
<1>7. \A j \in 1..Len(toHost') : Reply(j)' =>
        \/ j = Len(toHost) + 1 /\ toHost'[j] = Msg(call.op, call.id, ok)
        \/ /\ j = Len(toHost) + 2 /\ call.op = "RECV" /\ ok
           /\ toHost'[j] = Msg("DATA", call.id, TRUE)
  BY <1>2, <1>5 DEF Reply
<1>8. ASSUME NEW i \in 1..Len(toHost'), NEW j \in 1..Len(toHost'),
             Reply(i)', Reply(j)', i < j
      PROVE  /\ toHost'[i] = Msg(call.op, call.id, ok) /\ call.op = "RECV" /\ ok
             /\ toHost'[j] = Msg("DATA", call.id, TRUE)
  <2>1. i \in {Len(toHost) + 1, Len(toHost) + 2} /\ j \in {Len(toHost) + 1, Len(toHost) + 2}
    BY <1>7, <1>8
  <2>2. i # Len(toHost) + 2 /\ j # Len(toHost) + 1
    BY <1>6, <1>8, <2>1
  <2> QED BY <1>7, <1>8, <2>2
<1>9. QueueInv'
  BY <1>1, <1>2, <1>7, <1>8 DEF QueueInv, Msg
<1>10. TurnInv'
  BY <1>1, <1>4 DEF TurnInv
<1>11. CommandInv' /\ HandInv'
  BY <1>1, <1>3 DEF CommandInv, HandInv, RepliesInv
<1> QED BY <1>9, <1>10, <1>11 DEF RepliesInv

LEMMA EventsFresh ==
  ASSUME IInv, TurnInv, RepliesInv, PeerCloses \/ PacketSent
  PROVE  TurnInv' /\ RepliesInv'
<1>1. /\ UNCHANGED <<cmds, received, rx, got, gotData, call, pc, dma, rxOpcode, dataPending>>
      /\ \A j \in 1..Len(toHost') : Reply(j)' =>
           j \in 1..Len(toHost) /\ toHost'[j] = toHost[j] /\ Reply(j)
  BY EventsEffect DEF IInv, Reply
<1>2. TurnInv'
  BY <1>1 DEF TurnInv, Clear, Posted
<1>3. CommandInv' /\ HandInv'
  BY <1>1 DEF CommandInv, HandInv, RepliesInv
<1>4. QueueInv'
  BY <1>1 DEF QueueInv, RepliesInv
<1> QED BY <1>2, <1>3, <1>4 DEF RepliesInv

LEMMA CallFresh ==
  ASSUME IInv, TurnInv, RepliesInv, WlanStop \/ \E op \in Opcodes : Call(op)
  PROVE  TurnInv' /\ RepliesInv'
<1>1. pc = "idle" /\ Clear
  BY DEF WlanStop, Call, TurnInv, Posted
<1>2. /\ UNCHANGED <<received, rxOpcode, dataPending>>
      /\ pc' \in {"off", "flow", "reserve"}
      /\ cmds' \in {cmds, << >>} /\ toHost' \in {toHost, << >>}
      /\ (UNCHANGED <<got, gotData, call>>) \/ (got' = Nothing /\ gotData' = Nothing)
  BY DEF WlanStop, Call, Begin
<1>3. Clear'
  BY <1>1, <1>2 DEF Clear, Reply
<1> QED
  BY <1>1, <1>2, <1>3 DEF TurnInv, Posted, Clear, RepliesInv, CommandInv, QueueInv, HandInv

LEMMA FreshStep ==
  ASSUME IInv, FreshInv, [Next]_vars
  PROVE  FreshInv'
<1>1. CASE WlanStart
  BY <1>1, StartFresh DEF FreshInv
<1>2. CASE Timeout
  BY <1>2 DEF Timeout, FreshInv
<1>3. CASE WlanStop \/ \E op \in Opcodes : Call(op)
  <2>1. late' = late
    BY <1>3 DEF WlanStop, Call
  <2> QED BY <1>3, <2>1, CallFresh DEF FreshInv
<1>4. CASE SpiWriteStep \/ ConsumeBuff \/ WaitEvent \/ WaitData \/ Return
  <2>1. late' = late
    BY <1>4 DEF SpiWriteStep, ConsumeBuff, WaitEvent, WaitData, Return, FirstWrite,
         FirstRest, Reserve, WaitIrq, Written, NoBuffer, LoadFree, StoreFree
  <2> QED BY <1>4, <2>1, ThreadFresh DEF FreshInv
<1>5. CASE HandleEvent
  <2>1. late' = late
    BY <1>5 DEF HandleEvent
  <2> QED BY <1>5, <2>1, HandleFresh DEF FreshInv
<1>6. CASE DmaPacket
  <2>1. late' = late
    BY <1>6 DEF DmaPacket
  <2> QED BY <1>6, <2>1, PacketFresh DEF FreshInv
<1>7. CASE DmaFirst \/ DmaWritten
  <2>1. late' = late
    BY <1>7 DEF DmaFirst, DmaWritten
  <2> QED BY <1>7, <2>1, WriteFresh DEF FreshInv
<1>8. CASE Answer
  <2>1. late' = late
    BY <1>8 DEF Answer
  <2> QED BY <1>8, <2>1, AnswerFresh DEF FreshInv
<1>9. CASE PeerCloses \/ PacketSent
  <2>1. late' = late
    BY <1>9 DEF PeerCloses, PacketSent
  <2> QED BY <1>9, <2>1, EventsFresh DEF FreshInv
<1>10. CASE Exti \/ DmaHeader \/ LowerPin \/ UNCHANGED vars
  <2>1. /\ UNCHANGED Replying /\ UNCHANGED <<pc, late, rxOpcode, dataPending>>
        /\ dma' = dma \/ (dma # "write" /\ dma' # "write")
    BY <1>10 DEF Exti, DmaHeader, LowerPin, vars, Replying, IInv, BusInv
  <2>2. TurnInv => TurnInv'
    BY <2>1 DEF TurnInv, Posted, Clear, Reply, Replying
  <2> QED BY <2>1, <2>2, QuietReplies DEF FreshInv
<1> QED
  BY <1>1, <1>2, <1>3, <1>4, <1>5, <1>6, <1>7, <1>8, <1>9, <1>10
  DEF Next, Thread, Dma, Chip

(* While no wait has been given up since wlan_start(), a call that returns *)
(* has the chip's answer to that very call, whatever events came between;  *)
(* after a timeout it may have an older call's, never one of its future.   *)
THEOREM AnswersMatch == Spec => []OwnAnswer
<1>1. Init => IdsInv /\ FreshInv
  <2> SUFFICES ASSUME Init PROVE IdsInv /\ FreshInv
    OBVIOUS
  <2>1. IdsInv
    BY DEF Init, IdsInv, Nothing, Msg
  <2>2. TurnInv /\ RepliesInv
    BY DEF Init, TurnInv, Posted, Clear, RepliesInv, CommandInv, QueueInv, HandInv
  <2> QED BY <2>1, <2>2 DEF FreshInv
<1>2. IInv /\ [Next]_vars => IInv'
  BY TypeStep, BusStep, OfferStep, OffStep, WaitStep, UnreadKeptStep, NeverOverrunStep DEF IInv
<1>3. IInv /\ IdsInv /\ FreshInv /\ [Next]_vars => IdsInv' /\ FreshInv'
  BY IdsStep, FreshStep
<1>4. IdsInv /\ FreshInv => OwnAnswer
  BY DEF IdsInv, FreshInv, RepliesInv, HandInv, OwnAnswer
<1> QED BY InitInv, <1>1, <1>2, <1>3, <1>4, PTL DEF Spec

-----------------------------------------------------------------------------
(***************************************************************************)
(* Every call comes to an end, for want of work: what the thread, the two  *)
(* interrupt handlers and the chip can still do before the program's next  *)
(* call, counted in steps at most.                                         *)
(***************************************************************************)

(* To the end of the call.  A command that is still to be written is worth *)
(* the transfer and all that can follow it.                                *)
ThreadWork ==
  IF pc = "off" THEN 0 ELSE IF pc = "idle" THEN 3 ELSE IF pc = "ret" THEN 4
  ELSE IF pc = "waitData" THEN 5 ELSE IF pc = "recvd" THEN 6 ELSE IF pc = "wait" THEN 7
  ELSE IF pc = "sent" THEN 8 ELSE IF pc = "writing" THEN 9
  ELSE IF pc \in {"waitIrq", "first"} THEN 50 ELSE IF pc \in {"reserve", "powerup"} THEN 51
  ELSE IF pc = "take" THEN 52 ELSE 53

(* The transfer, the line and its edge, the packet to be looked at.        *)
StateWork ==
  IF spi \in {"IDLE", "POWERUP"} THEN 2
  ELSE IF spi \in {"READ_PROCEED", "WRITE_PROCEED"} THEN 0 ELSE 1
WriteWork == IF dma = "write" /\ spi = "WRITE_PROCEED" THEN 40 ELSE 0
LineWork == (IF pinLow THEN 0 ELSE 2) + (IF exti THEN 1 ELSE 0)
InboxWork == IF received THEN 1 ELSE 0

(* A packet is offered, read and looked at; a command brings two packets   *)
(* at most, a connection's end and a release one each.                     *)
ConnWork == IF conn = "open" THEN 8 ELSE 0
ChipLeft == [cmds |-> 23 * Len(cmds), packets |-> 7 * Len(toHost), held |-> 8 * held,
             conn |-> ConnWork]
ChipWork == ChipLeft.cmds + ChipLeft.packets + ChipLeft.held + ChipLeft.conn

Left == [thread |-> ThreadWork, state |-> StateWork, write |-> WriteWork, line |-> LineWork,
         inbox |-> InboxWork, chip |-> ChipWork]
Work == Left.thread + Left.state + Left.write + Left.line + Left.inbox + Left.chip
CallCost == 54

(* No step is for nothing: each brings the call nearer to its end and the  *)
(* bus and the chip nearer to rest, whatever order the interrupts come in; *)
(* only a new call, with what it can bring about, adds to the work.  So no *)
(* call lasts more steps than were left over and CallCost, and there is no *)
(* storm of interrupts (SpiWrite(), hci_event_handler(), cc3000_spi.c).    *)
CallsAreBounded ==
  /\ [](Work \in Nat)
  /\ [][IF call' = call THEN Work' < Work ELSE Work' <= Work + CallCost]_vars

WorkOK ==
  Left \in [thread : Nat, state : Nat, write : Nat, line : Nat, inbox : Nat, chip : Nat]
ChipLeftOK == ChipLeft \in [cmds : Nat, packets : Nat, held : Nat, conn : Nat]

LEMMA Products ==
  \A n \in Nat : /\ 8 * (n - 1) = 8 * n - 8 /\ 23 * n \in Nat /\ 7 * n \in Nat /\ 8 * n \in Nat
                  /\ 8 * (n + 1) = 8 * n + 8 /\ 23 * (n + 1) = 23 * n + 23
                  /\ 7 * (n + 1) = 7 * n + 7
  OBVIOUS

LEMMA RecordSum ==
  \A r \in [cmds : Nat, packets : Nat, held : Nat, conn : Nat] :
    r.cmds + r.packets + r.held + r.conn \in Nat
  OBVIOUS

LEMMA WorkTypes ==
  ASSUME TypeOK
  PROVE  WorkOK /\ ChipLeftOK
<1>1. Len(cmds) \in Nat /\ Len(toHost) \in Nat /\ held \in Nat
  <2>1. cmds \in Seq([op : Opcodes, id : Nat]) /\ toHost \in Seq(Messages) /\ held \in Nat
    OBVIOUS
  <2> QED BY <2>1, LenProperties
<1>2. 23 * Len(cmds) \in Nat /\ 7 * Len(toHost) \in Nat /\ 8 * held \in Nat /\ ConnWork \in Nat
  BY <1>1, Products DEF ConnWork
<1>3. ChipLeftOK
  BY <1>2 DEF ChipLeftOK, ChipLeft
<1>4. ChipWork \in Nat
  <2> HIDE DEF ChipLeft
  <2> QED BY <1>3, RecordSum DEF ChipLeftOK, ChipWork
<1>5. ThreadWork \in Nat /\ LineWork \in Nat /\ StateWork \in Nat /\ WriteWork \in Nat
  BY DEF ThreadWork, LineWork, StateWork, WriteWork
<1>6. InboxWork \in Nat
  BY DEF InboxWork
<1> QED BY <1>3, <1>4, <1>5, <1>6 DEF WorkOK, Left

LEMMA WorkTypesNext ==
  ASSUME TypeOK'
  PROVE  WorkOK' /\ ChipLeftOK'
<1>1. (Len(cmds) \in Nat /\ Len(toHost) \in Nat /\ held \in Nat)'
  <2>1. (cmds \in Seq([op : Opcodes, id : Nat]) /\ toHost \in Seq(Messages) /\ held \in Nat)'
    OBVIOUS
  <2> QED BY <2>1, LenProperties
<1>2. (23 * Len(cmds) \in Nat /\ 7 * Len(toHost) \in Nat /\ 8 * held \in Nat /\ ConnWork \in Nat)'
  BY <1>1, Products DEF ConnWork
<1>3. ChipLeftOK'
  BY <1>2 DEF ChipLeftOK, ChipLeft
<1>4. (ChipWork \in Nat)'
  <2> HIDE DEF ChipLeft
  <2> QED BY <1>3, RecordSum DEF ChipLeftOK, ChipWork
<1>5. (ThreadWork \in Nat /\ LineWork \in Nat /\ StateWork \in Nat /\ WriteWork \in Nat)'
  BY DEF ThreadWork, LineWork, StateWork, WriteWork
<1>6. (InboxWork \in Nat)'
  BY DEF InboxWork
<1> QED BY <1>3, <1>4, <1>5, <1>6 DEF WorkOK, Left

LEMMA WorkNat == WorkOK => Work \in Nat
  BY DEF WorkOK, Work

LEMMA SameChip ==
  ASSUME UNCHANGED <<cmds, toHost, held, conn>>
  PROVE  Left.chip' = Left.chip
  BY DEF Left, ChipWork, ChipLeft, ConnWork

LEMMA ThreadSteps ==
  ASSUME IInv, IInv', SpiWriteStep \/ ConsumeBuff \/ WaitEvent \/ WaitData \/ Return \/ Timeout
  PROVE  call' = call /\ Work' < Work
<1> USE DEF Left, ThreadWork, StateWork, WriteWork
<1>1. BusInv /\ WorkOK /\ WorkOK'
  BY WorkTypes, WorkTypesNext DEF IInv
<1>2. UNCHANGED <<call, cmds, toHost, held, conn, received, pinLow, exti>>
  BY DEF SpiWriteStep, FirstWrite, FirstRest, Reserve, WaitIrq, Written, ConsumeBuff,
         NoBuffer, LoadFree, StoreFree, WaitEvent, WaitData, Return, Timeout
<1>3. Left.line' = Left.line /\ Left.inbox' = Left.inbox /\ Left.chip' = Left.chip
  BY <1>2, SameChip DEF Left, LineWork, InboxWork
<1>4. Left.thread' + Left.state' + Left.write' < Left.thread + Left.state + Left.write
  <2>1. CASE FirstWrite BY <2>1 DEF FirstWrite
  <2>2. CASE FirstRest BY <1>1, <2>2 DEF FirstRest, BusInv
  <2>3. CASE Reserve BY <2>3 DEF Reserve
  <2>4. CASE WaitIrq BY <1>1, <2>4 DEF WaitIrq, BusInv
  <2>5. CASE Written BY <2>5 DEF Written
  <2>6. CASE ConsumeBuff \/ WaitEvent \/ WaitData
    BY <2>6 DEF ConsumeBuff, NoBuffer, LoadFree, StoreFree, WaitEvent, WaitData
  <2>7. CASE Return \/ Timeout BY <2>7 DEF Return, Timeout
  <2> QED BY <2>1, <2>2, <2>3, <2>4, <2>5, <2>6, <2>7 DEF SpiWriteStep
<1> HIDE DEF Left, ThreadWork, StateWork, WriteWork
<1> QED BY <1>1, <1>2, <1>3, <1>4 DEF Work, WorkOK

LEMMA HandleWork ==
  ASSUME IInv, IInv', HandleEvent
  PROVE  call' = call /\ Work' < Work
<1>0. TypeOK
  BY DEF IInv
<1>1. WorkOK /\ WorkOK' /\ ChipLeftOK /\ ChipLeftOK'
  BY WorkTypes, WorkTypesNext DEF IInv
<1>2. UNCHANGED <<call, spi, dma, pinLow, exti, cmds, toHost, held, conn>>
  BY DEF HandleEvent
<1>3. /\ Left.state' = Left.state /\ Left.write' = Left.write /\ Left.line' = Left.line
      /\ Left.chip' = Left.chip
  BY <1>2, SameChip DEF Left, StateWork, WriteWork, LineWork
<1>4. Left.inbox = 1 /\ Left.inbox' = 0
  BY DEF HandleEvent, Left, InboxWork
<1>5. Left.thread' <= Left.thread
  <2>1. pc \in {"wait", "waitData"} /\ pc' \in {pc, "recvd", "ret"}
        /\ (pc' = "recvd" => pc = "wait")
    BY DEF HandleEvent, After
  <2> QED BY <2>1 DEF Left, ThreadWork
<1> QED BY <1>1, <1>2, <1>3, <1>4, <1>5 DEF Work, WorkOK

(* Turning the chip off ends what it had to do; a new call adds its cost.  *)
LEMMA StopWork ==
  ASSUME IInv, IInv', WlanStop
  PROVE  call' = call /\ Work' < Work
<1>0. TypeOK
  BY DEF IInv
<1>1. WorkOK /\ WorkOK' /\ ChipLeftOK /\ ChipLeftOK'
  BY WorkTypes, WorkTypesNext DEF IInv
<1>2. /\ call' = call /\ UNCHANGED <<spi, dma, exti, received>>
      /\ pc = "idle" /\ pc' = "off" /\ cmds' = << >> /\ toHost' = << >> /\ held' = 0
      /\ conn' = "none" /\ pinLow' = FALSE
  BY DEF WlanStop
<1>3. Left.thread = 3 /\ Left.thread' = 0
  BY <1>2 DEF Left, ThreadWork
<1>4. /\ Left.state' = Left.state /\ Left.write' = Left.write /\ Left.inbox' = Left.inbox
      /\ Left.line' <= Left.line + 2
  BY <1>1, <1>2 DEF Left, StateWork, WriteWork, InboxWork, LineWork
<1>5. Left.chip' = 0
  <2>1. Len(cmds') = 0 /\ Len(toHost') = 0
    BY <1>2, EmptySeq
  <2> QED BY <1>2, <2>1 DEF Left, ChipWork, ChipLeft, ConnWork
<1>6. call' = call
  BY <1>2
<1> QED BY <1>1, <1>3, <1>4, <1>5, <1>6 DEF Work, WorkOK

LEMMA BeginWork ==
  ASSUME IInv, IInv', WlanStart \/ \E op \in Opcodes : Call(op)
  PROVE  call' # call /\ Work' <= Work + CallCost
<1>0. TypeOK
  BY DEF IInv
<1>1. WorkOK /\ WorkOK' /\ ChipLeftOK /\ ChipLeftOK'
  BY WorkTypes, WorkTypesNext DEF IInv
<1>2. call' # call
  <2>1. call'.id = call.id + 1 /\ call.id \in Nat
    BY <1>0 DEF WlanStart, Call, Begin
  <2> QED BY <2>1
<1>3. CASE WlanStart
  <2>1. /\ UNCHANGED <<cmds, toHost, held, conn, pinLow, dma>>
        /\ pc = "off" /\ pc' = "powerup" /\ spi' = "POWERUP" /\ exti' = FALSE
        /\ received' = FALSE
    BY <1>3 DEF WlanStart
  <2>2. /\ Left.thread = 0 /\ Left.thread' = 51 /\ Left.write' = 0 /\ Left.inbox' = 0
        /\ Left.state' = 2
    BY <2>1 DEF Left, ThreadWork, StateWork, WriteWork, InboxWork
  <2>3. Left.chip' = Left.chip /\ Left.line' <= Left.line
    BY <2>1, SameChip DEF Left, LineWork
  <2> QED BY <1>1, <1>2, <2>2, <2>3 DEF Work, WorkOK, CallCost
<1>4. CASE \E op \in Opcodes : Call(op)
  <2>1. /\ UNCHANGED <<cmds, toHost, held, conn, pinLow, dma, spi, exti, received>>
        /\ pc = "idle" /\ pc' \in {"flow", "reserve"}
    BY <1>4 DEF Call
  <2>2. Left.thread = 3 /\ Left.thread' <= 53
    BY <2>1 DEF Left, ThreadWork
  <2>3. /\ Left.chip' = Left.chip /\ Left.line' = Left.line /\ Left.write' = Left.write
        /\ Left.inbox' = Left.inbox /\ Left.state' = Left.state
    BY <2>1, SameChip DEF Left, LineWork, WriteWork, InboxWork, StateWork
  <2> QED BY <1>1, <1>2, <2>2, <2>3 DEF Work, WorkOK, CallCost
<1> QED BY <1>3, <1>4

(* The interrupts: an edge taken, a transfer done.                         *)
LEMMA ExtiWork ==
  ASSUME IInv, IInv', Exti
  PROVE  call' = call /\ Work' < Work
<1>0. TypeOK
  BY DEF IInv
<1>1. WorkOK /\ WorkOK' /\ ChipLeftOK /\ ChipLeftOK' /\ BusInv
  BY WorkTypes, WorkTypesNext DEF IInv
<1>2. UNCHANGED <<call, pc, pinLow, received, cmds, toHost, held, conn>>
  BY DEF Exti
<1>3. Left.thread' = Left.thread /\ Left.inbox' = Left.inbox /\ Left.chip' = Left.chip
  BY <1>2, SameChip DEF Left, ThreadWork, InboxWork
<1>4. exti /\ ~exti'
  BY DEF Exti
<1>5. Left.line' < Left.line
  BY <1>2, <1>4 DEF Left, LineWork
<1>6. Left.state' <= Left.state
  BY DEF Exti, Left, StateWork
<1>7. Left.write' <= Left.write
  <2>1. CASE spi' = spi /\ dma' = dma
    BY <1>1, <2>1 DEF Left, WriteWork, WorkOK
  <2>2. CASE dma' # "write"
    BY <1>1, <2>2 DEF Left, WriteWork, WorkOK
  <2>3. CASE spi' # spi /\ dma' = "write"
    <3>1. dma = "write" /\ spi \in {"FIRST_WRITE", "WRITE_PROCEED"}
      BY <1>1, <2>3 DEF Exti, BusInv
    <3> QED BY <2>3, <3>1 DEF Exti
  <2>4. dma' \in {dma, "read"}
    BY DEF Exti
  <2>5. CASE spi' = spi /\ dma' # dma
    BY <2>2, <2>4, <2>5
  <2> QED BY <2>1, <2>2, <2>3, <2>4, <2>5
<1> QED BY <1>1, <1>2, <1>3, <1>5, <1>6, <1>7 DEF Work, WorkOK

LEMMA DmaWork ==
  ASSUME IInv, IInv', Dma
  PROVE  call' = call /\ Work' < Work
<1>0. TypeOK
  BY DEF IInv
<1>1. WorkOK /\ WorkOK' /\ ChipLeftOK /\ ChipLeftOK' /\ BusInv
  BY WorkTypes, WorkTypesNext DEF IInv
<1>2. CASE DmaHeader \/ DmaFirst
  <2>1. /\ UNCHANGED <<call, pc, pinLow, exti, received, cmds, toHost, held, conn>>
        /\ Left.state = 1 /\ Left.state' = 0 /\ Left.write' = 0
    BY <1>2 DEF DmaHeader, DmaFirst, Left, StateWork, WriteWork
  <2>2. /\ Left.thread' = Left.thread /\ Left.inbox' = Left.inbox /\ Left.chip' = Left.chip
        /\ Left.line' = Left.line
    BY <2>1, SameChip DEF Left, ThreadWork, InboxWork, LineWork
  <2> QED BY <1>1, <2>1, <2>2 DEF Work, WorkOK
<1>3. CASE DmaPacket
  <2>1. /\ UNCHANGED <<call, pc, exti, cmds, held, conn>> /\ pinLow' = FALSE
        /\ toHost' = Tail(toHost) /\ spi = "READ_PROCEED" /\ spi' = "IDLE" /\ dma' = "none"
    BY <1>3 DEF DmaPacket
  <2>2. Len(toHost') = Len(toHost) - 1
    <3>1. toHost # << >> /\ toHost \in Seq(Messages)
      BY <1>0, <2>1 DEF IInv, OfferInv
    <3> QED BY <2>1, <3>1, HeadTailProperties
  <2>3. /\ Left.thread' = Left.thread /\ Left.state = 0 /\ Left.state' = 2 /\ Left.write' = 0
        /\ Left.line' <= Left.line + 2 /\ Left.inbox' <= 1
    BY <1>1, <2>1 DEF Left, ThreadWork, StateWork, WriteWork, LineWork, InboxWork
  <2>4. /\ ChipLeft.packets' = ChipLeft.packets - 7
        /\ UNCHANGED <<ChipLeft.cmds, ChipLeft.held, ChipLeft.conn>>
    BY <2>1, <2>2 DEF ChipLeft, ConnWork
  <2>5. Left.chip' = Left.chip - 7
    BY <1>1, <2>4 DEF Left, ChipWork, ChipLeftOK
  <2>6. call' = call
    BY <2>1
  <2> QED BY <1>1, <2>3, <2>5, <2>6 DEF Work, WorkOK
<1>4. CASE DmaWritten
  <2>1. /\ UNCHANGED <<call, pc, exti, received, toHost, conn>> /\ pinLow' = FALSE
        /\ cmds' = Append(cmds, call) /\ held' \in {held, held + 1} /\ dma = "write" /\ dma' = "none"
        /\ spi = "WRITE_PROCEED" /\ spi' = "IDLE"
    BY <1>4 DEF DmaWritten
  <2>2. Len(cmds') = Len(cmds) + 1
    <3>1. cmds \in Seq([op : Opcodes, id : Nat]) /\ call \in [op : Opcodes, id : Nat]
      BY <1>0
    <3> QED BY <2>1, <3>1, AppendProperties
  <2>3. /\ Left.thread' = Left.thread /\ Left.state = 0 /\ Left.state' = 2 /\ Left.write = 40
        /\ Left.write' = 0 /\ Left.inbox' = Left.inbox /\ Left.line' <= Left.line + 2
    BY <1>1, <2>1 DEF Left, ThreadWork, StateWork, WriteWork, LineWork, InboxWork
  <2>4. /\ ChipLeft.cmds' = ChipLeft.cmds + 23
        /\ ChipLeft.held' \in {ChipLeft.held, ChipLeft.held + 8}
        /\ UNCHANGED <<ChipLeft.packets, ChipLeft.conn>>
    <3>1. 8 * (held + 1) = 8 * held + 8 /\ 23 * (Len(cmds) + 1) = 23 * Len(cmds) + 23
      BY <1>0, Products, LenProperties
    <3> QED BY <2>1, <2>2, <3>1 DEF ChipLeft, ConnWork
  <2>5. Left.chip' <= Left.chip + 31
    BY <1>1, <2>4 DEF Left, ChipWork, ChipLeftOK
  <2>6. call' = call
    BY <2>1
  <2> QED BY <1>1, <2>3, <2>5, <2>6 DEF Work, WorkOK
<1> QED BY <1>2, <1>3, <1>4 DEF Dma

LEMMA ChipSteps ==
  ASSUME IInv, IInv', Chip
  PROVE  call' = call /\ Work' < Work
<1>0. TypeOK
  BY DEF IInv
<1>1. WorkOK /\ WorkOK' /\ ChipLeftOK /\ ChipLeftOK'
  BY WorkTypes, WorkTypesNext DEF IInv
<1>2. CASE LowerPin
  <2>1. /\ UNCHANGED <<call, pc, spi, dma, received, cmds, toHost, held, conn>>
        /\ ~pinLow /\ pinLow' /\ exti'
    BY <1>2 DEF LowerPin
  <2>2. Left.line >= 2 /\ Left.line' = 1
    BY <2>1 DEF Left, LineWork
  <2>3. /\ Left.thread' = Left.thread /\ Left.state' = Left.state /\ Left.write' = Left.write
        /\ Left.inbox' = Left.inbox /\ Left.chip' = Left.chip
    BY <2>1, SameChip DEF Left, ThreadWork, StateWork, WriteWork, InboxWork
  <2> QED BY <1>1, <2>1, <2>2, <2>3 DEF Work, WorkOK
<1>3. ASSUME UNCHANGED <<thread, bus, received>>, Left.chip' < Left.chip
      PROVE  call' = call /\ Work' < Work
  <2>1. /\ Left.thread' = Left.thread /\ Left.state' = Left.state /\ Left.write' = Left.write
        /\ Left.inbox' = Left.inbox /\ Left.line' = Left.line
    BY <1>3 DEF Left, ThreadWork, StateWork, WriteWork, InboxWork, LineWork
  <2> QED BY <1>1, <1>3, <2>1 DEF Work, WorkOK
<1>4. CASE Answer
  <2>1. /\ UNCHANGED <<thread, bus, received, held>>
        /\ cmds # << >> /\ cmds' = Tail(cmds)
    BY <1>4 DEF Answer
  <2>2. Len(cmds') = Len(cmds) - 1
    <3>1. cmds \in Seq([op : Opcodes, id : Nat])
      BY <1>0
    <3> QED BY <2>1, <3>1, HeadTailProperties
  <2>3. Len(toHost') \in {Len(toHost) + 1, Len(toHost) + 2}
    <3> DEFINE m(ok) == Msg(Head(cmds).op, Head(cmds).id, ok)
               data  == Msg("DATA", Head(cmds).id, TRUE)
    <3>1. PICK ok \in BOOLEAN : toHost' = IF Head(cmds).op = "RECV" /\ ok
                                          THEN toHost \o <<m(ok), data>> ELSE Append(toHost, m(ok))
      BY <1>4 DEF Answer
    <3>2. toHost \in Seq(Messages) /\ m(ok) \in Messages /\ data \in Messages
      <4>1. Head(cmds) \in [op : Opcodes, id : Nat]
        <5>1. cmds \in Seq([op : Opcodes, id : Nat])
          BY <1>0
        <5> QED BY <2>1, <5>1, HeadTailProperties
      <4> QED BY <1>0, <4>1 DEF Msg, Messages
    <3> HIDE DEF m, data
    <3>3. Len(Append(toHost, m(ok))) = Len(toHost) + 1
      BY <3>2, AppendProperties
    <3>4. <<m(ok), data>> \in Seq(Messages) /\ Len(<<m(ok), data>>) = 2
      BY <3>2
    <3>5. Len(toHost \o <<m(ok), data>>) = Len(toHost) + 2
      BY <3>2, <3>4, ConcatProperties
    <3> QED BY <3>1, <3>3, <3>5
  <2>4. /\ ChipLeft.cmds' = ChipLeft.cmds - 23 /\ ChipLeft.held' = ChipLeft.held
        /\ ChipLeft.packets' \in {ChipLeft.packets + 7, ChipLeft.packets + 14}
        /\ ChipLeft.conn' \in {0, 8}
    BY <2>1, <2>2, <2>3 DEF ChipLeft, ConnWork
  <2>5. Left.chip' < Left.chip
    BY <1>1, <2>4 DEF Left, ChipWork, ChipLeftOK
  <2> QED BY <1>3, <2>1, <2>5
<1>5. CASE PeerCloses
  <2>1. /\ UNCHANGED <<thread, bus, received, cmds, held>>
        /\ conn = "open" /\ conn' = "closed"
        /\ toHost' = Append(toHost, Msg("CLOSE_WAIT", 0, TRUE))
    BY <1>5 DEF PeerCloses
  <2>2. Len(toHost') = Len(toHost) + 1
    <3>1. toHost \in Seq(Messages) /\ Msg("CLOSE_WAIT", 0, TRUE) \in Messages
      BY <1>0, MsgType
    <3> QED BY <2>1, <3>1, AppendProperties
  <2>3. /\ UNCHANGED <<ChipLeft.cmds, ChipLeft.held>> /\ ChipLeft.packets' = ChipLeft.packets + 7
        /\ ChipLeft.conn = 8 /\ ChipLeft.conn' = 0
    BY <2>1, <2>2 DEF ChipLeft, ConnWork
  <2>4. Left.chip' < Left.chip
    BY <1>1, <2>3 DEF Left, ChipWork, ChipLeftOK
  <2> QED BY <1>3, <2>1, <2>4
<1>6. CASE PacketSent
  <2>1. /\ UNCHANGED <<thread, bus, received, cmds, conn>> /\ held' = held - 1
        /\ toHost' = toHost \/ toHost' = Append(toHost, Msg("FREE_BUFF", 0, TRUE))
    BY <1>6 DEF PacketSent
  <2>2. Len(toHost') \in {Len(toHost), Len(toHost) + 1}
    <3>1. toHost \in Seq(Messages) /\ Msg("FREE_BUFF", 0, TRUE) \in Messages
      BY <1>0, MsgType
    <3>2. Len(Append(toHost, Msg("FREE_BUFF", 0, TRUE))) = Len(toHost) + 1
      BY <3>1, AppendProperties
    <3> QED BY <2>1, <3>2
  <2>3. /\ ChipLeft.held' = ChipLeft.held - 8 /\ UNCHANGED <<ChipLeft.cmds, ChipLeft.conn>>
        /\ ChipLeft.packets' \in {ChipLeft.packets, ChipLeft.packets + 7}
    <3>1. 8 * (held - 1) = 8 * held - 8 /\ 7 * (Len(toHost) + 1) = 7 * Len(toHost) + 7
      BY <1>0, Products, LenProperties
    <3> QED BY <2>1, <2>2, <3>1 DEF ChipLeft, ConnWork
  <2>4. Left.chip' < Left.chip
    BY <1>1, <2>3 DEF Left, ChipWork, ChipLeftOK
  <2> QED BY <1>3, <2>1, <2>4
<1> QED BY <1>2, <1>4, <1>5, <1>6 DEF Chip

(* Every step but a new call uses up some of the work, from any state the   *)
(* driver and the chip can be in, and a call brings a constant amount: no   *)
(* call goes on for ever, for every number of calls, restarts and buffers.  *)
THEOREM CallsHaveBoundedWork == Spec => CallsAreBounded
<1>1. IInv => Work \in Nat
  BY WorkTypes, WorkNat DEF IInv
<1>2. IInv /\ IInv' /\ [Next]_vars
      => [IF call' = call THEN Work' < Work ELSE Work' <= Work + CallCost]_vars
  <2> SUFFICES ASSUME IInv, IInv', Next
               PROVE  IF call' = call THEN Work' < Work ELSE Work' <= Work + CallCost
    OBVIOUS
  <2>1. CASE WlanStart \/ \E op \in Opcodes : Call(op)
    BY <2>1, BeginWork
  <2>2. CASE WlanStop \/ Thread \/ Timeout \/ Exti \/ Dma \/ Chip
    <3>1. call' = call /\ Work' < Work
      BY <2>2, StopWork, ThreadSteps, HandleWork, ExtiWork, DmaWork, ChipSteps DEF Thread
    <3> QED BY <3>1
  <2> QED BY <2>1, <2>2 DEF Next
<1>3. IInv /\ [Next]_vars => IInv'
  BY TypeStep, BusStep, OfferStep, OffStep, WaitStep, UnreadKeptStep, NeverOverrunStep DEF IInv
<1> QED BY <1>1, <1>2, <1>3, InitInv, PTL DEF Spec, CallsAreBounded
=============================================================================
