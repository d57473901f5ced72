--------------------------- MODULE Cc3000Driver ---------------------------
(***************************************************************************)
(* The CC3000 host driver: SpiWrite() and the waits of the one program     *)
(* thread, the two interrupt handlers that move packets over the SPI bus,  *)
(* and the chip at the other end.  One connected socket stands for all.    *)
(***************************************************************************)
EXTENDS Naturals, Sequences

CONSTANTS Commands,   \* the socket calls the program makes
          MaxCalls,   \* calls in one behaviour, those of wlan_start() included
          MaxStarts,  \* calls of wlan_start()
          Buffers     \* packets the chip can hold

ASSUME DriverAssumption ==
  /\ Commands \subseteq {"SEND", "RECV", "ACCEPT", "CLOSE_SOCKET", "SELECT"}
  /\ MaxCalls \in Nat /\ MaxStarts \in Nat /\ Buffers \in Nat \ {0}

VARIABLES
  pc, call,          \* where the thread is, and in which call
  starts, timeoutOn, \* wlan_start() calls; cc3000__event_timeout_ms # 0
  spi, dma,          \* sSpiInformation.ulSpiState; the transfer under way
  pinLow, exti, irq, \* the chip's IRQ line, its latched edge, NVIC enable
  received, rx,      \* usEventOrDataReceived; wlan_rx_buffer
  rxOpcode, dataPending, solicited,     \* usRxEventOpcode, usRxDataPending
  free, loaded, unreleased, txError,    \* usNumberOfFreeBuffers and its copy
                     \* in a register, packets sent and not yet released
  active, handle,    \* socket_active_status; the program holds the socket
  cmds, toHost, held, credits, conn,    \* the chip
  got, gotData, late, hidden            \* history

thread == <<pc, call, starts, timeoutOn>>
bus    == <<spi, dma, pinLow, exti, irq>>
inbox  == <<received, rx>>
wait   == <<rxOpcode, dataPending, solicited>>
flow   == <<free, loaded, unreleased, txError>>
socks  == <<active, handle>>
chip   == <<cmds, toHost, held, credits, conn>>
hist   == <<got, gotData, late, hidden>>
vars   == <<thread, bus, inbox, wait, flow, socks, chip, hist>>

Opcodes  == Commands \union {"START", "READ_BUFFER_SIZE"}
Messages == [op : Opcodes \union {"NONE", "DATA", "FREE_BUFF", "CLOSE_WAIT", "JUNK"},
             id : Nat, ok : BOOLEAN]
Msg(op, id, ok) == [op |-> op, id |-> id, ok |-> ok]
Nothing == Msg("NONE", 0, FALSE)

ThreadOK ==
  /\ pc \in {"off", "powerup", "first", "idle", "flow", "take", "reserve", "waitIrq",
             "writing", "sent", "wait", "recvd", "waitData", "ret"}
  /\ call \in [op : Opcodes, id : Nat]
  /\ starts \in Nat /\ timeoutOn \in BOOLEAN
BusOK ==
  /\ spi \in {"POWERUP", "INITIALIZED", "FIRST_WRITE", "IDLE", "WRITE_WAIT_IRQ",
              "WRITE_PROCEED", "READ_IRQ", "READ_PROCEED"}
  /\ dma \in {"none", "read", "write"}
  /\ pinLow \in BOOLEAN /\ exti \in BOOLEAN /\ irq \in BOOLEAN
InboxOK == received \in BOOLEAN /\ rx \in Messages
WaitOK ==
  /\ rxOpcode \in Opcodes \union {"NONE"}
  /\ dataPending \in BOOLEAN /\ solicited \in BOOLEAN
FlowOK == free \in Nat /\ loaded \in Nat /\ unreleased \in Nat /\ txError \in BOOLEAN
SocksOK == active \in BOOLEAN /\ handle \in BOOLEAN
ChipOK ==
  /\ cmds \in Seq([op : Opcodes, id : Nat]) /\ toHost \in Seq(Messages)
  /\ held \in Nat /\ credits \in Nat /\ conn \in {"none", "open", "closed"}
HistOK == got \in Messages /\ gotData \in Messages /\ late \in BOOLEAN /\ hidden \in BOOLEAN

TypeOK ==
  ThreadOK /\ BusOK /\ InboxOK /\ WaitOK /\ FlowOK /\ SocksOK /\ ChipOK /\ HistOK

Init ==
  /\ pc = "off" /\ call = [op |-> "READ_BUFFER_SIZE", id |-> 0]
  /\ starts = 0 /\ timeoutOn = FALSE
  /\ spi = "POWERUP" /\ dma = "none"
  /\ pinLow = FALSE /\ exti = FALSE /\ irq = FALSE
  /\ received = FALSE /\ rx = Nothing
  /\ rxOpcode = "NONE" /\ dataPending = FALSE /\ solicited = FALSE
  /\ free = 0 /\ loaded = 0 /\ unreleased = 0 /\ txError = FALSE
  /\ active = FALSE /\ handle = FALSE
  /\ cmds = << >> /\ toHost = << >> /\ held = 0 /\ credits = 0 /\ conn = "none"
  /\ got = Nothing /\ gotData = Nothing /\ late = FALSE /\ hidden = FALSE

-----------------------------------------------------------------------------
(* wlan_start(), wlan_stop().                                              *)

Begin(op) ==
  /\ call.id < MaxCalls
  /\ call' = [op |-> op, id |-> call.id + 1]
  /\ got' = Nothing /\ gotData' = Nothing

(* wlan_start(): the counters and SpiOpen(), which powers the chip up.     *)
WlanStart ==
  /\ pc = "off" /\ starts < MaxStarts
  /\ Begin("START") /\ pc' = "powerup" /\ starts' = starts + 1
  /\ received' = FALSE /\ rx' = Nothing /\ rxOpcode' = "NONE" /\ dataPending' = FALSE
  /\ free' = 0 /\ unreleased' = 0 /\ txError' = FALSE /\ late' = FALSE
  /\ spi' = "POWERUP" /\ exti' = FALSE /\ irq' = TRUE
  /\ UNCHANGED <<timeoutOn, dma, pinLow, solicited, loaded, socks, chip, hidden>>

(* SpiWrite() of the first command: two transfers without asking the chip. *)
FirstWrite ==
  /\ pc = "powerup" /\ spi = "INITIALIZED"
  /\ spi' = "FIRST_WRITE" /\ solicited' = TRUE /\ dma' = "write" /\ pc' = "first"
  /\ UNCHANGED <<call, starts, timeoutOn, pinLow, exti, irq, inbox, rxOpcode, dataPending,
                 flow, socks, chip, hist>>

FirstRest ==
  /\ pc = "first" /\ spi = "WRITE_PROCEED"
  /\ dma' = "write" /\ pc' = "writing"
  /\ UNCHANGED <<call, starts, timeoutOn, spi, pinLow, exti, irq, inbox, wait, flow, socks,
                 chip, hist>>

(* wlan_stop(): the chip forgets everything, the host keeps its handle and *)
(* what it noted of the socket.                                            *)
WlanStop ==
  /\ pc = "idle" /\ call.op # "START" /\ starts < MaxStarts
  /\ spi = "IDLE"
  /\ pc' = "off" /\ pinLow' = FALSE /\ irq' = FALSE
  /\ cmds' = << >> /\ toHost' = << >> /\ held' = 0 /\ credits' = 0 /\ conn' = "none"
  /\ hidden' = FALSE
  /\ UNCHANGED <<call, starts, timeoutOn, spi, dma, exti, inbox, wait, flow, socks, got,
                 gotData, late>>

-----------------------------------------------------------------------------
(* A call: a command written, its answer awaited.                          *)

Call(op) ==
  /\ pc = "idle" /\ Begin(op)
  /\ IF call.op = "START" THEN op = "READ_BUFFER_SIZE"
     ELSE /\ op \in Commands
          /\ op \in {"SEND", "RECV", "CLOSE_SOCKET"} => handle
          /\ op = "ACCEPT" => ~handle
  /\ pc' = IF op = "SEND" THEN "flow" ELSE "reserve"
  /\ UNCHANGED <<starts, timeoutOn, bus, inbox, wait, flow, socks, chip, late, hidden>>

(* HostFlowControlConsumeBuff(): the errors; the timeout is checked before *)
(* the count.                                                              *)
NoBuffer ==
  /\ pc = "flow"
  /\ txError \/ ~active \/ timeoutOn
  /\ txError' = FALSE /\ pc' = "idle"
  /\ UNCHANGED <<call, starts, timeoutOn, bus, inbox, wait, free, loaded, unreleased, socks,
                 chip, hist>>

(* Slip: a command is loaded without a look at the free buffers.           *)
LoadUnchecked ==
  /\ pc = "flow" /\ ~txError /\ active
  /\ loaded' = free /\ pc' = "take"
  /\ UNCHANGED <<call, starts, timeoutOn, bus, inbox, wait, free, unreleased, txError, socks,
                 chip, hist>>

(* usNumberOfFreeBuffers--: a load ...                                     *)
LoadFree ==
  /\ pc = "flow" /\ ~txError /\ active /\ free > 0
  /\ loaded' = free /\ pc' = "take"
  /\ UNCHANGED <<call, starts, timeoutOn, bus, inbox, wait, free, unreleased, txError, socks,
                 chip, hist>>

(* ... and a store, with an interrupt between them; NumberOfSentPackets++. *)
StoreFree ==
  /\ pc = "take"
  /\ free' = loaded - 1 /\ loaded' = 0 /\ unreleased' = unreleased + 1 /\ pc' = "reserve"
  /\ UNCHANGED <<call, starts, timeoutOn, bus, inbox, wait, txError, socks, chip, hist>>

(* SpiWrite(): the bus is taken when nothing is read.                      *)
Reserve ==
  /\ pc = "reserve" /\ spi = "IDLE"
  /\ spi' = "WRITE_WAIT_IRQ" /\ solicited' = TRUE /\ pc' = "waitIrq"
  /\ UNCHANGED <<call, starts, timeoutOn, dma, pinLow, exti, irq, inbox, rxOpcode,
                 dataPending, flow, socks, chip, hist>>

(* Slip: an interrupt that was lost is not made up for by the pin.         *)
WaitIrqNoPin ==
  /\ pc = "waitIrq" /\ spi = "WRITE_PROCEED"
  /\ dma' = "write" /\ pc' = "writing"
  /\ UNCHANGED <<call, starts, timeoutOn, spi, pinLow, exti, irq, inbox, wait, flow, socks,
                 chip, hist>>

(* WaitFor(WRITE_PROCEED) looks at the pin itself, for when the interrupt  *)
(* is off; then the transfer.                                              *)
WaitIrq ==
  /\ pc = "waitIrq" /\ (spi = "WRITE_PROCEED" \/ pinLow)
  /\ spi' = "WRITE_PROCEED" /\ dma' = "write" /\ pc' = "writing"
  /\ UNCHANGED <<call, starts, timeoutOn, pinLow, exti, irq, inbox, wait, flow, socks, chip,
                 hist>>

Written ==
  /\ pc = "writing" /\ spi # "WRITE_PROCEED"
  /\ pc' = "sent"
  /\ UNCHANGED <<call, starts, timeoutOn, bus, inbox, wait, flow, socks, chip, hist>>

(* SimpleLinkWaitEvent(), SimpleLinkWaitData() up to hci_event_handler().  *)
WaitEvent ==
  /\ pc = "sent"
  /\ rxOpcode' = call.op /\ pc' = "wait"
  /\ UNCHANGED <<call, starts, timeoutOn, bus, inbox, dataPending, solicited, flow, socks,
                 chip, hist>>

(* Slip: usRxDataPending stays set after the data was waited for.          *)
DataLeft ==
  /\ pc = "recvd"
  /\ dataPending' = TRUE /\ pc' = "ret"
  /\ UNCHANGED <<call, starts, timeoutOn, bus, inbox, rxOpcode, solicited, flow, socks, chip,
                 hist>>

WaitData ==
  /\ pc = "recvd"
  /\ dataPending' = TRUE /\ pc' = "waitData"
  /\ UNCHANGED <<call, starts, timeoutOn, bus, inbox, rxOpcode, solicited, flow, socks, chip,
                 hist>>

-----------------------------------------------------------------------------
(* Packets from the chip.                                                  *)

(* What hci_unsol_event_handler() keeps from the caller: it also discards  *)
(* every answer but a SEND's that is not awaited.                          *)
Unsolicited(m) ==
  \/ m.op \in {"FREE_BUFF", "CLOSE_WAIT"}
  \/ m.op = "SEND" /\ ~m.ok
  \/ m.op \notin {"SEND", rxOpcode}

(* Slip: a returned buffer is counted once too often.                      *)
CountsOneMore(m) ==
  /\ free' = IF m.op = "FREE_BUFF" THEN free + m.id + 1 ELSE free
  /\ unreleased' = IF m.op = "FREE_BUFF" THEN unreleased - m.id ELSE unreleased
  /\ txError' \in IF m.op = "SEND" THEN BOOLEAN ELSE {txError}
  /\ active' = IF m.op \in {"CLOSE_WAIT", "SEND"} THEN FALSE ELSE active

UnsolEvent(m) ==
  /\ free' = IF m.op = "FREE_BUFF" THEN free + m.id ELSE free
  /\ unreleased' = IF m.op = "FREE_BUFF" THEN unreleased - m.id ELSE unreleased
  /\ txError' \in IF m.op = "SEND" THEN BOOLEAN ELSE {txError}
  /\ active' = IF m.op \in {"CLOSE_WAIT", "SEND"} THEN FALSE ELSE active

(* Slip: the receiver is not paused while its packet is still unread.      *)
ReceiveUnpaused(m) ==
  /\ IF m.op # "DATA" /\ Unsolicited(m)
       THEN UnsolEvent(m) ELSE UNCHANGED <<free, unreleased, txError, active>>
  /\ received' = (m.op = "DATA" \/ (~Unsolicited(m) /\ solicited))
  /\ rx' = IF received' THEN m ELSE Nothing
  /\ irq' = TRUE

(* Slip: during a call its events are left for the caller to look at.      *)
LeavesEvents(m) ==
  /\ IF m.op # "DATA" /\ Unsolicited(m) /\ ~solicited
       THEN UnsolEvent(m) ELSE UNCHANGED <<free, unreleased, txError, active>>
  /\ received' = (m.op = "DATA" \/ solicited)
  /\ rx' = IF received' THEN m ELSE Nothing
  /\ irq' = ~received'

(* SpiReceiveHandler(), in the interrupt: what it does not handle stays in *)
(* the buffer, with the interrupt off (SpiPauseSpi), for the thread.       *)
Receive(m) ==
  /\ IF m.op # "DATA" /\ Unsolicited(m)
       THEN UnsolEvent(m) ELSE UNCHANGED <<free, unreleased, txError, active>>
  /\ received' = (m.op = "DATA" \/ (~Unsolicited(m) /\ solicited))
  /\ rx' = IF received' THEN m ELSE Nothing
  /\ irq' = ~received'

(* One turn of hci_event_handler() with a packet in the buffer.            *)
After(answer) == IF pc = "wait" /\ call.op = "RECV" /\ answer.ok THEN "recvd" ELSE "ret"

HandleEvent ==
  LET isEvent == rx.op # "DATA"
      answers == isEvent /\ ~Unsolicited(rx)
      match   == isEvent /\ rx.op = rxOpcode
  IN /\ pc \in {"wait", "waitData"} /\ received
     /\ IF isEvent /\ Unsolicited(rx)
          THEN UnsolEvent(rx)
          ELSE /\ free' = IF rx.op = "READ_BUFFER_SIZE" THEN Buffers ELSE free
               /\ UNCHANGED <<unreleased, txError, active>>
     /\ got' = IF answers /\ pc = "wait" THEN rx ELSE got
     /\ rxOpcode' = IF match THEN "NONE" ELSE rxOpcode
     /\ solicited' = (solicited /\ ~match)
     /\ gotData' = IF ~isEvent /\ dataPending THEN rx ELSE gotData
     /\ dataPending' = (dataPending /\ isEvent)
     /\ received' = FALSE /\ rx' = Nothing /\ irq' = TRUE
     /\ pc' = IF rxOpcode' = "NONE" /\ ~dataPending' THEN After(got') ELSE pc
     /\ UNCHANGED <<call, starts, timeoutOn, spi, dma, pinLow, exti, loaded, handle, chip,
                    late, hidden>>

(* ... and with none for cc3000__event_timeout_ms: the opcode stays set.   *)
Timeout ==
  /\ pc \in {"wait", "waitData"} /\ ~received /\ timeoutOn
  /\ late' = TRUE
  /\ pc' = "ret"
  /\ UNCHANGED <<call, starts, timeoutOn, bus, inbox, wait, flow, socks, chip, got, gotData,
                 hidden>>

ClosePending == \E i \in 1..Len(toHost) : toHost[i].op = "CLOSE_WAIT"

(* What the caller makes of the answer; Set_NetApp_Timeout() follows the   *)
(* first wlan_start().                                                     *)
Return ==
  /\ pc = "ret" /\ pc' = "idle"
  /\ timeoutOn' = (timeoutOn \/ call.op = "READ_BUFFER_SIZE")
  /\ active' = (IF call.op = "ACCEPT" THEN active \/ got.ok ELSE active /\ call.op # "CLOSE_SOCKET")
  /\ handle' = (IF call.op = "ACCEPT" THEN got.ok ELSE handle /\ call.op # "CLOSE_SOCKET")
  /\ hidden' = (IF call.op = "ACCEPT" /\ got.ok
                  THEN conn = "closed" /\ ~ClosePending
                  ELSE hidden)
  /\ UNCHANGED <<call, starts, bus, inbox, wait, flow, chip, got, gotData, late>>

-----------------------------------------------------------------------------
(* The interrupt handlers.                                                 *)

(* SPI_EXTI_IntHandler(): an edge in any other state is passed over.       *)
Exti ==
  /\ exti /\ irq /\ exti' = FALSE
  /\ LET start == pinLow /\ spi = "IDLE" IN
     /\ spi' = (IF ~pinLow THEN spi ELSE
                CASE spi = "POWERUP" -> "INITIALIZED"
                  [] spi = "IDLE" -> "READ_IRQ"
                  [] spi = "WRITE_WAIT_IRQ" -> "WRITE_PROCEED"
                  [] OTHER -> spi)
     /\ dma' = IF start THEN "read" ELSE dma
  /\ UNCHANGED <<thread, pinLow, irq, inbox, wait, flow, socks, chip, hist>>

(* SPI_DMA_IntHandler(): the header is in; the packet is in; the command   *)
(* is out.  A write receives too: it overwrites a packet left unread.      *)
DmaHeader ==
  /\ dma = "read" /\ spi = "READ_IRQ" /\ spi' = "READ_PROCEED"
  /\ UNCHANGED <<thread, dma, pinLow, exti, irq, inbox, wait, flow, socks, chip, hist>>

(* A FREE_BUFF event names all packets sent since the last one.            *)
Packet ==
  LET m == Head(toHost) IN IF m.op = "FREE_BUFF" THEN [m EXCEPT !.id = credits] ELSE m

DmaPacket ==
  /\ dma = "read" /\ spi = "READ_PROCEED"
  /\ spi' = "IDLE" /\ dma' = "none" /\ pinLow' = FALSE
  /\ Receive(Packet)
  /\ credits' = IF Packet.op = "FREE_BUFF" THEN 0 ELSE credits
  /\ toHost' = Tail(toHost)
  /\ UNCHANGED <<thread, exti, wait, loaded, handle, cmds, held, conn, hist>>

Overwritten ==
  rx' \in IF received THEN {Msg("JUNK", 0, FALSE), Msg("DATA", 0, FALSE)} ELSE {rx}

DmaFirst ==
  /\ dma = "write" /\ spi = "FIRST_WRITE"
  /\ spi' = "WRITE_PROCEED" /\ dma' = "none" /\ Overwritten
  /\ UNCHANGED <<thread, pinLow, exti, irq, received, wait, flow, socks, chip, hist>>

DmaWritten ==
  /\ dma = "write" /\ spi = "WRITE_PROCEED"
  /\ spi' = "IDLE" /\ dma' = "none" /\ pinLow' = FALSE /\ Overwritten
  /\ cmds' = Append(cmds, call)
  /\ held' = IF call.op = "SEND" THEN held + 1 ELSE held
  /\ UNCHANGED <<thread, exti, irq, received, wait, flow, socks, toHost, credits, conn, hist>>

-----------------------------------------------------------------------------
(* The chip, from how the driver uses it: it lowers the line to offer a    *)
(* packet or to take a command, and answers commands in order.             *)

LowerPin ==
  /\ pc # "off" /\ ~pinLow
  /\ \/ spi \in {"POWERUP", "WRITE_WAIT_IRQ"}
     \/ spi = "IDLE" /\ toHost # << >>
  /\ pinLow' = TRUE /\ exti' = TRUE
  /\ UNCHANGED <<thread, spi, dma, irq, inbox, wait, flow, socks, chip, hist>>

Answer ==
  /\ cmds # << >> /\ cmds' = Tail(cmds)
  /\ \E ok \in BOOLEAN :
       LET c == Head(cmds)
           m == Msg(c.op, c.id, ok)
       IN /\ CASE c.op = "ACCEPT" -> ok => conn = "none"
               [] c.op = "SEND" -> ok = (conn = "open")
               [] c.op = "RECV" -> ok => conn # "none"
               [] OTHER -> ok
          /\ toHost' = IF c.op = "RECV" /\ ok
                         THEN toHost \o <<m, Msg("DATA", c.id, TRUE)>> ELSE Append(toHost, m)
          /\ conn' = CASE c.op = "ACCEPT" /\ ok -> "open"
                       [] c.op = "CLOSE_SOCKET" -> "none"
                       [] OTHER -> conn
  /\ UNCHANGED <<thread, bus, inbox, wait, flow, socks, held, credits, hist>>

PeerCloses ==
  /\ conn = "open" /\ conn' = "closed"
  /\ toHost' = Append(toHost, Msg("CLOSE_WAIT", 0, TRUE))
  /\ UNCHANGED <<thread, bus, inbox, wait, flow, socks, cmds, held, credits, hist>>

PacketSent ==
  /\ held > 0 /\ held' = held - 1 /\ credits' = credits + 1
  /\ toHost' = IF \E i \in 1..Len(toHost) : toHost[i].op = "FREE_BUFF"
                 THEN toHost ELSE Append(toHost, Msg("FREE_BUFF", 0, TRUE))
  /\ UNCHANGED <<thread, bus, inbox, wait, flow, socks, cmds, conn, hist>>

-----------------------------------------------------------------------------
SpiWriteStep == FirstWrite \/ FirstRest \/ Reserve \/ WaitIrq \/ Written
ConsumeBuff  == NoBuffer \/ LoadFree \/ StoreFree
Thread == SpiWriteStep \/ ConsumeBuff \/ WaitEvent \/ WaitData \/ HandleEvent \/ Return
Dma    == DmaHeader \/ DmaPacket \/ DmaFirst \/ DmaWritten
Chip   == LowerPin \/ Answer \/ PeerCloses \/ PacketSent

Next ==
  \/ WlanStart \/ WlanStop \/ \E op \in Opcodes : Call(op)
  \/ Thread \/ Timeout \/ Exti \/ Dma \/ Chip

(* Interrupts are served, transfers end, the chip answers the line, and    *)
(* the thread's loops are polled until their condition or the clock.       *)
Spec ==
  /\ Init /\ [][Next]_vars
  /\ WF_vars(Thread) /\ WF_vars(Timeout) /\ WF_vars(Exti) /\ WF_vars(Dma) /\ WF_vars(LowerPin)

-----------------------------------------------------------------------------
(* A packet that waits for the thread is not overwritten by the next one:  *)
(* no read is begun while usEventOrDataReceived is set (cc3000_spi.c pauses *)
(* the interrupt until the buffer is released).                            *)
UnreadKept ==
  received => ~irq /\ spi \notin {"READ_IRQ", "READ_PROCEED"}

(* Packets the chip must still report: counted, not yet written, in the    *)
(* chip, or released and not yet reported.                                 *)
Unwritten == call.op = "SEND" /\ (pc \in {"reserve", "waitIrq"} \/ (pc = "writing" /\ dma = "write"))
Owed == (IF Unwritten THEN 1 ELSE 0) + held + credits

(* send() never writes a packet the chip has no buffer for, although the   *)
(* decrement of the count can be lost to an interrupt; and the packets     *)
(* sent and not yet released are exactly those the chip owes an event for. *)
NeverOverrun ==
  pc # "off" => /\ free + Owed <= Buffers
                /\ unreleased = Owed

(* While no wait has been given up since wlan_start(), a call gets the     *)
(* chip's answer, and the data, to that very call; hci_event_handler()     *)
(* discards the others.  After a timeout it may be given an older one.     *)
OwnAnswer ==
  pc = "idle" =>
    \A m \in {got, gotData} \ {Nothing} : IF late THEN m.id <= call.id ELSE m.id = call.id

(* A peer's close is noticed: the event is under way, or the socket is     *)
(* marked inactive, unless accept() marked it active after the event.      *)
CloseNoticed ==
  conn = "closed" /\ active =>
    hidden \/ ClosePending

(* Every call returns, once the timeout is set: no interrupt is lost that  *)
(* SpiWrite() or hci_event_handler() waits for.                            *)
CallsReturn ==
  timeoutOn /\ pc \notin {"idle", "off"} ~> pc = "idle"
=============================================================================
