--------------------------- MODULE SparkProtocol ---------------------------
(***************************************************************************)
(* The core's side of the cloud connection: SparkProtocol's event loop and *)
(* handlers as SPARK_WLAN_Loop() calls them, its three timers, and the     *)
(* firmware update that writes the external flash chunk by chunk.  The     *)
(* server, the network and the flash chip's failures are the environment.  *)
(* Times are how many of the limits that matter have passed: 10 s and 15 s *)
(* of messageAge, 3 s of chunkAge, 30 s of flashAge.                       *)
(***************************************************************************)
EXTENDS Naturals, Sequences

CONSTANTS Chunks,      \* chunks of the image
          ChunkSize,   \* units of all chunks but the last
          LastSize,    \* units of the last chunk
          PageSize,    \* sFLASH_PAGESIZE in units
          Window,      \* messages the network takes before a send blocks
          MaxSends, MaxTalks, MaxUpdates, \* chunks, other messages, updates of the server
          MaxBreaks, MaxFaults            \* connections lost; failures of the flash, the
                                          \* checksum and the framing

ASSUME ProtocolAssumption ==
  /\ {Chunks, ChunkSize, LastSize, PageSize} \subseteq Nat \ {0}
  /\ LastSize <= ChunkSize /\ PageSize % ChunkSize = 0
  /\ {Window, MaxSends, MaxTalks, MaxUpdates, MaxBreaks, MaxFaults} \subseteq Nat

VARIABLES
  pc, msg,                \* the thread, and the queue: the message read, then its answer
  socketed, connected,    \* SPARK_CLOUD_SOCKETED, SPARK_CLOUD_CONNECTED
  flashing,               \* SPARK_FLASH_UPDATE
  updating, chunk_index, expecting_ping_ack,
  messageAge, chunkAge, flashAge,  \* time since last_message_millis,
                          \* last_chunk_millis and of TimingFlashUpdateTimeout
  flash,                  \* units programmed since FLASH_Begin()
  open, synced,           \* socket_active_status; framing and keys agree
  toCore, toServer,       \* the two directions of the connection
  begun, cursor,          \* the server: update begun, chunk sent last
  sends, talks, updates, breaks, faults,  \* counters of the bounds
  excused, asked, stale   \* history, see InOrder and DroppedAfterPing

flags  == <<socketed, connected, flashing>>
ping   == <<expecting_ping_ack, messageAge>>
update == <<updating, chunk_index, chunkAge>>
store  == <<flashAge, flash>>
link   == <<open, synced, toCore, toServer>>
server == <<begun, cursor, sends, talks, updates>>
bounds == <<breaks, faults>>
doubt  == <<asked, stale>>
vars   == <<pc, msg, flags, ping, update, store, link, server, bounds, doubt, excused>>

(* A request is answered once (describe, variable, signal, ping), a call   *)
(* twice; junk passes for a chunk until its checksum is computed.          *)
Msg(kind, no) == [kind |-> kind, no |-> no]
None     == Msg("none", 0)
ToCore   == {"request", "call", "ack", "begin", "chunk", "done", "junk"}
ToServer == {"value", "ping", "ready", "ok", "bad", "missed"}
Messages == [kind : ToCore \union ToServer \union {"none"}, no : Nat]

TypeOK ==
  /\ pc \in {"idle", "shaken", "loop", "body", "ack", "act", "reply", "flashed", "reset"}
  /\ msg \in Messages
  /\ socketed \in BOOLEAN /\ connected \in BOOLEAN /\ flashing \in BOOLEAN
  /\ updating \in BOOLEAN /\ chunk_index \in Nat /\ expecting_ping_ack \in BOOLEAN
  /\ messageAge \in 0..2 /\ chunkAge \in 0..1 /\ flashAge \in 0..1
  /\ flash \in Seq(Nat)
  /\ open \in BOOLEAN /\ synced \in BOOLEAN
  /\ toCore \in Seq(Messages)
  /\ toServer \in Seq(Messages)
  /\ begun \in BOOLEAN /\ cursor \in Nat
  /\ {sends, talks, updates, breaks, faults} \subseteq Nat
  /\ excused \in BOOLEAN /\ asked \in BOOLEAN /\ stale \in BOOLEAN

(* Unit u of the image is the number u: chunk n is the run from Start(n).  *)
Start(n)  == n * ChunkSize
Size(n)   == IF n = Chunks - 1 THEN LastSize ELSE ChunkSize
Units(n)  == [k \in 1..Size(n) |-> Start(n) + k - 1]
ImageSize == Start(Chunks - 1) + LastSize

(* The objects as they are constructed, after power-up or a system reset.  *)
Boot ==
  /\ pc = "idle" /\ msg = None
  /\ socketed = FALSE /\ connected = FALSE /\ flashing = FALSE
  /\ updating = FALSE /\ chunk_index = 0 /\ expecting_ping_ack = FALSE
  /\ messageAge = 0 /\ chunkAge = 0 /\ flashAge = 0
  /\ flash = << >> /\ open = FALSE /\ synced = FALSE
  /\ toCore = << >> /\ toServer = << >> /\ begun = FALSE /\ cursor = 0
  /\ excused = FALSE /\ asked = FALSE /\ stale = FALSE

Init == Boot /\ sends = 0 /\ talks = 0 /\ updates = 0 /\ breaks = 0 /\ faults = 0

-----------------------------------------------------------------------------
(* What the thread does in many places.                                    *)

(* event_loop() returns; with false SPARK_WLAN_Loop() drops the connection *)
Return == pc' = "idle" /\ msg' = None
GiveUp ==
  /\ Return
  /\ flashing' = FALSE /\ connected' = FALSE /\ socketed' = FALSE

(* blocking_send() of a message somebody waits for, and of one nobody does *)
Send(m)  == open /\ Len(toServer) < Window /\ toServer' = Append(toServer, m)
Sent     == open /\ UNCHANGED toServer
Fault    == faults < MaxFaults /\ faults' = faults + 1

(* Chunks under way: on their way to the core, or asked for by a message   *)
(* the server has not read.                                                *)
Elicits(m) == m.kind \in {"ready", "ok", "bad"} \/ (m.kind = "missed" /\ m.no < Chunks)
UnderWay ==
  \/ \E i \in DOMAIN toCore : toCore[i].kind = "chunk"
  \/ \E i \in DOMAIN toServer : Elicits(toServer[i])

-----------------------------------------------------------------------------
(* SPARK_WLAN_Loop(): connecting and the handshake.                        *)

Connect ==
  /\ pc = "idle" /\ ~socketed /\ socketed' = TRUE
  /\ open' = TRUE /\ synced' = FALSE /\ toCore' = << >> /\ toServer' = << >>
  /\ begun' = FALSE /\ cursor' = 0
  /\ asked' = FALSE /\ stale' = expecting_ping_ack
  /\ UNCHANGED <<pc, msg, connected, flashing, ping, update, store, sends, talks,
                 updates, bounds, excused>>

(* Spark_Handshake(), which a failure leaves to the next pass; the event   *)
(* loop is entered either way.  What was sent before meant nothing.        *)
Shake ==
  /\ pc = "idle" /\ socketed /\ ~connected
  /\ updating' = FALSE /\ chunkAge' = 0
  /\ \/ pc' = "loop" /\ UNCHANGED <<synced, toCore, toServer>>
     \/ open /\ pc' = "shaken" /\ synced' = TRUE /\ toCore' = << >> /\ toServer' = << >>
  /\ UNCHANGED <<msg, flags, ping, chunk_index, store, open, server, bounds, doubt,
                 excused>>

(* A disconnect that came in between is overwritten here.                  *)
Shaken ==
  /\ pc = "shaken" /\ pc' = "loop" /\ connected' = TRUE
  /\ UNCHANGED <<msg, socketed, flashing, ping, update, store, link, server, bounds,
                 doubt, excused>>

-----------------------------------------------------------------------------
(* event_loop(), entered after the handshake or by a later pass.           *)

Polling == pc = "loop" \/ (pc = "idle" /\ socketed /\ connected)

(* Two bytes out of step are an absurd length or pass for a message.       *)
Heard ==
  /\ Polling /\ open /\ messageAge' = 0 /\ asked' = FALSE /\ stale' = FALSE
  /\ \/ /\ synced /\ toCore # << >> /\ msg' = Head(toCore) /\ toCore' = Tail(toCore)
        /\ pc' = "body" /\ UNCHANGED <<flags, faults>>
     \/ ~synced /\ GiveUp /\ UNCHANGED <<toCore, faults>>
     \/ /\ ~synced /\ Fault /\ pc' = "body" /\ UNCHANGED <<flags, toCore>>
        /\ \E kind \in {"ack", "begin", "junk", "done"} : msg' = Msg(kind, 0)
  /\ UNCHANGED <<update, store, open, synced, toServer, server, breaks, excused>>

(* Slip: the answer to a ping is not noticed.                              *)
HeardStillWaiting == Heard /\ UNCHANGED expecting_ping_ack

Receive == Heard /\ expecting_ping_ack' = FALSE

ReceiveError ==
  /\ Polling /\ GiveUp
  /\ UNCHANGED <<ping, update, store, link, server, bounds, doubt, excused>>

(* Fewer than two bytes: none, or one that is lost for the framing.        *)
NoMessage ==
  /\ Polling
  /\ \/ UNCHANGED synced
     \/ synced /\ open /\ toCore # << >> /\ synced' = FALSE
  /\ UNCHANGED <<open, toCore, server, bounds>>

Missing ==
  /\ NoMessage /\ updating /\ chunkAge = 1
  /\ \/ /\ Send(Msg("missed", chunk_index)) /\ chunkAge' = 0 /\ Return
        /\ excused' = (excused \/ UnderWay)
        /\ UNCHANGED flags
     \/ GiveUp /\ UNCHANGED <<toServer, chunkAge, excused>>
  /\ UNCHANGED <<ping, updating, chunk_index, flash, doubt>>

(* Slip: asking again restarts the 30 s of the update.                     *)
MissingProlongs == Missing /\ flashAge' = 0

AskAgain == Missing /\ UNCHANGED flashAge

TimeOut ==
  /\ NoMessage /\ ~updating /\ expecting_ping_ack /\ messageAge >= 1
  /\ expecting_ping_ack' = FALSE /\ messageAge' = 0 /\ GiveUp
  /\ UNCHANGED <<update, store, toServer, doubt, excused>>

(* Whether the ping could be sent is not looked at.                        *)
Pinging ==
  /\ NoMessage /\ ~updating /\ ~expecting_ping_ack /\ messageAge = 2
  /\ Send(Msg("ping", 0)) \/ UNCHANGED toServer
  /\ messageAge' = 0 /\ asked' = TRUE /\ Return
  /\ UNCHANGED <<flags, update, store, stale, excused>>

(* Slip: the answer is not waited for.                                     *)
PingForgotten == Pinging /\ UNCHANGED expecting_ping_ack

Ping == Pinging /\ expecting_ping_ack' = TRUE

NothingDue ==
  /\ NoMessage /\ Return
  /\ IF updating THEN chunkAge = 0
     ELSE IF expecting_ping_ack THEN messageAge = 0 ELSE messageAge < 2
  /\ UNCHANGED <<flags, ping, update, store, toServer, doubt, excused>>

-----------------------------------------------------------------------------
(* handle_received_message().                                              *)

(* The body did not come within 20 s.                                      *)
BodyFails ==
  /\ pc = "body" /\ GiveUp
  /\ UNCHANGED <<ping, update, store, link, server, bounds, doubt, excused>>

Body ==
  /\ pc = "body"
  /\ \/ msg.kind = "ack" /\ Return
     \/ msg.kind # "ack" /\ pc' = "ack" /\ UNCHANGED msg
  /\ chunkAge' = IF msg.kind \in {"chunk", "junk"} THEN 0 ELSE chunkAge
  /\ UNCHANGED <<flags, ping, updating, chunk_index, store, link, server, bounds, doubt,
                 excused>>

(* The first answer, which for a request is the only one.                  *)
Acknowledge ==
  /\ pc = "ack"
  /\ \/ Sent /\ msg.kind = "request" /\ Return /\ UNCHANGED flags
     \/ Sent /\ msg.kind # "request" /\ pc' = "act" /\ UNCHANGED <<msg, flags>>
     \/ GiveUp /\ UNCHANGED toServer
  /\ UNCHANGED <<ping, update, store, open, synced, toCore, server, bounds, doubt, excused>>

(* The user's function; an argument that is too long ends the connection.  *)
Call ==
  /\ pc = "act" /\ msg.kind = "call"
  /\ (pc' = "reply" /\ msg' = Msg("value", 0) /\ UNCHANGED flags) \/ GiveUp
  /\ UNCHANGED <<ping, update, store, link, server, bounds, doubt, excused>>

Saving ==
  /\ pc = "act" /\ msg.kind \in {"chunk", "junk"} /\ pc' = "reply"
  /\ UNCHANGED <<flags, ping, updating, chunkAge, link, server, breaks, doubt>>

BadChunk ==
  /\ Saving
  /\ \/ msg.kind = "junk" /\ UNCHANGED faults
     \/ msg.kind = "chunk" /\ Fault
  /\ msg' = Msg("bad", 0)
  /\ UNCHANGED <<chunk_index, store, excused>>

(* Slips: the write's result is not looked at; equal passes for greater;   *)
(* the chunk before is asked for.                                          *)
VerdictBlind(next) == Msg("ok", 0)

VerdictLax(next) == IF next >= chunk_index THEN Msg("ok", 0) ELSE Msg("missed", next)

VerdictBefore(next) ==
  IF next > chunk_index THEN Msg("ok", 0) ELSE Msg("missed", next - 1)

Verdict(next) == IF next > chunk_index THEN Msg("ok", 0) ELSE Msg("missed", next)

(* Spark_Save_Firmware_Chunk() and what it returns.                        *)
Written ==
  /\ Saving /\ msg.kind = "chunk" /\ flashAge' = 0
  /\ flash' = flash \o Units(msg.no)
  /\ chunk_index' = chunk_index + 1 /\ msg' = Verdict(chunk_index + 1)
  /\ UNCHANGED <<faults, excused>>

(* The page is erased and the index follows, computed with the size of the *)
(* chunk that failed.                                                      *)
PageOf(address) == (address \div PageSize) * PageSize
NotWritten ==
  /\ Saving /\ msg.kind = "chunk" /\ Fault /\ flashAge' = 0
  /\ LET base == PageOf(Len(flash))
         next == base \div Size(msg.no)
     IN  /\ flash' = SubSeq(flash, 1, base)
         /\ chunk_index' = next /\ msg' = Verdict(next)
         /\ excused' = (excused \/ (base > 0 /\ Size(msg.no) # ChunkSize))

Prepare ==
  /\ pc = "act" /\ msg.kind = "begin" /\ pc' = "reply" /\ msg' = Msg("ready", 0)
  /\ flashing' = TRUE /\ flashAge' = 0 /\ flash' = << >>
  /\ chunkAge' = 0 /\ chunk_index' = 0 /\ updating' = TRUE
  /\ excused' = FALSE
  /\ UNCHANGED <<socketed, connected, ping, link, server, bounds, doubt>>

(* FLASH_End(): the boot loader takes over.                                *)
Finish ==
  /\ pc = "act" /\ msg.kind = "done" /\ pc' = "flashed" /\ msg' = None
  /\ updating' = FALSE /\ flashing' = FALSE /\ flashAge' = 0
  /\ excused' = (excused \/ ~synced)
  /\ UNCHANGED <<socketed, connected, ping, chunk_index, chunkAge, flash, link, server,
                 bounds, doubt>>

Reply ==
  /\ pc = "reply"
  /\ \/ /\ IF msg.kind = "value" THEN Sent ELSE Send(msg)
        /\ Return /\ UNCHANGED flags
     \/ GiveUp /\ UNCHANGED toServer
  /\ UNCHANGED <<ping, update, store, open, synced, toCore, server, bounds, doubt, excused>>

Thread ==
  \/ Connect \/ Shake \/ Shaken
  \/ Receive \/ ReceiveError \/ AskAgain \/ TimeOut \/ Ping \/ NothingDue
  \/ BodyFails \/ Body \/ Acknowledge \/ Call \/ BadChunk \/ Written \/ NotWritten
  \/ Prepare \/ Finish \/ Reply

-----------------------------------------------------------------------------
(* Interrupts: the chip's events, the tick and what it may do, the reset.  *)

Running == pc \notin {"flashed", "reset"}

ConnectionLost ==
  /\ Running /\ breaks < MaxBreaks /\ breaks' = breaks + 1
  /\ flashing' = FALSE /\ connected' = FALSE /\ socketed' = FALSE
  /\ UNCHANGED <<pc, msg, ping, update, store, synced, toCore, toServer, server, faults,
                 doubt, excused>>

OnDisconnect == ConnectionLost /\ UNCHANGED open
OnCloseWait  == ConnectionLost /\ open /\ open' = FALSE

(* A timer is left alone where nothing reads it before it is set again.    *)
Elapse ==
  /\ Running
  /\ \/ ~updating /\ pc \in {"idle", "loop"}
        /\ messageAge < 2 /\ messageAge' = messageAge + 1
        /\ UNCHANGED <<chunkAge, flashAge>>
     \/ updating /\ pc \in {"idle", "loop"} /\ chunkAge = 0 /\ chunkAge' = 1
        /\ UNCHANGED <<messageAge, flashAge>>
     \/ flashing /\ flashAge = 0 /\ flashAge' = 1 /\ UNCHANGED <<messageAge, chunkAge>>
  /\ UNCHANGED <<pc, msg, flags, expecting_ping_ack, updating, chunk_index, flash, link,
                 server, bounds, doubt, excused>>

FlashTimeout ==
  /\ Running /\ flashing /\ flashAge = 1 /\ pc' = "reset" /\ flashing' = FALSE
  /\ UNCHANGED <<msg, socketed, connected, ping, update, store, link, server, bounds,
                 doubt, excused>>

Restart ==
  /\ ~Running /\ pc' = "idle" /\ msg' = None
  /\ socketed' = FALSE /\ connected' = FALSE /\ flashing' = FALSE
  /\ updating' = FALSE /\ chunk_index' = 0 /\ expecting_ping_ack' = FALSE
  /\ messageAge' = 0 /\ chunkAge' = 0 /\ flashAge' = 0
  /\ flash' = << >> /\ open' = FALSE /\ synced' = FALSE
  /\ toCore' = << >> /\ toServer' = << >> /\ begun' = FALSE /\ cursor' = 0
  /\ excused' = FALSE /\ asked' = FALSE /\ stale' = FALSE
  /\ UNCHANGED <<sends, talks, updates, bounds>>

-----------------------------------------------------------------------------
(* The server: it talks of other things, begins an update, and answers     *)
(* what it reads or does not.                                              *)

(* What happens on a connection the core has given up is lost.             *)
Online  == open /\ (socketed \/ pc # "idle")
Outside == UNCHANGED <<pc, msg, flags, ping, update, store, bounds, doubt, excused>>
Tell(m) == toCore' = Append(toCore, m) /\ UNCHANGED <<open, synced>> /\ Outside

Talk ==
  /\ Online /\ synced /\ ~begun /\ talks < MaxTalks /\ talks' = talks + 1
  /\ \E kind \in {"request", "call"} : Tell(Msg(kind, 0))
  /\ UNCHANGED <<toServer, begun, cursor, sends, updates>>

Begin ==
  /\ Online /\ synced /\ ~begun /\ begun' = TRUE
  /\ updates < MaxUpdates /\ updates' = updates + 1
  /\ Tell(Msg("begin", 0)) /\ cursor' = 0
  /\ UNCHANGED <<toServer, sends, talks>>

SendChunk(n) ==
  /\ n < Chunks /\ sends < MaxSends /\ sends' = sends + 1
  /\ Tell(Msg("chunk", n)) /\ cursor' = n

Read == Online /\ toServer # << >> /\ toServer' = Tail(toServer)

(* An acknowledged chunk is followed by the next one or by the end.        *)
Answer ==
  /\ Read /\ LET m == Head(toServer) IN
     \/ m.kind = "ping" /\ Tell(Msg("ack", 0)) /\ UNCHANGED <<cursor, sends>>
     \/ begun /\ m.kind = "ready" /\ SendChunk(0)
     \/ begun /\ m.kind = "ok" /\ SendChunk(cursor + 1)
     \/ begun /\ m.kind = "ok" /\ cursor + 1 = Chunks
        /\ Tell(Msg("done", 0)) /\ UNCHANGED <<cursor, sends>>
     \/ begun /\ m.kind = "bad" /\ SendChunk(cursor)
     \/ begun /\ m.kind = "missed" /\ SendChunk(m.no)
  /\ UNCHANGED <<begun, talks, updates>>

Ignore ==
  /\ Read /\ UNCHANGED <<open, synced, toCore, server>> /\ Outside

Server == Talk \/ Begin \/ Answer \/ Ignore

Next ==
  \/ Thread \/ OnDisconnect \/ OnCloseWait \/ Elapse \/ FlashTimeout \/ Restart
  \/ Server

Spec     == Init /\ [][Next]_vars
FairSpec ==
  /\ Spec /\ WF_vars(Thread) /\ WF_vars(FlashTimeout)
  /\ WF_vars(Elapse /\ messageAge' # messageAge)
  /\ WF_vars(Elapse /\ chunkAge' # chunkAge)
  /\ WF_vars(Elapse /\ flashAge' # flashAge)

-----------------------------------------------------------------------------

(* What FLASH_Update() has programmed is the image as far as chunk_index   *)
(* says: no chunk twice, none left out, none in another's place, whatever  *)
(* was retried.  Chunks carry no number, so this rests on never having two *)
(* under way; it is not promised                                           *)
(*  - once a chunk was asked for again after 3 s of silence while it, or   *)
(*    the answer that asks for it, was still under way: it comes twice and *)
(*    is written twice;                                                    *)
(*  - once the write of a last, shorter chunk failed beyond the first      *)
(*    page: the index is the address divided by the wrong size.            *)
InOrder ==
  ~excused =>
    /\ chunk_index <= Chunks
    /\ Len(flash) = IF chunk_index = Chunks THEN ImageSize ELSE Start(chunk_index)
    /\ \A k \in DOMAIN flash : flash[k] = k - 1

(* FLASH_End() hands the boot loader a whole image, except after these and *)
(* after bytes out of step that pass for the end of the update.            *)
OnlyWhole == pc = "flashed" /\ ~excused => Len(flash) = ImageSize

(* A connection is dropped for silence only if the server was pinged on it *)
(* and nothing was heard since.  The ping may be one of the connection     *)
(* before: neither Spark_Connect() nor handshake() clears                  *)
(* expecting_ping_ack and last_message_millis, so that a fresh connection  *)
(* can be dropped by its first poll.                                       *)
DroppedAfterPing == [][TimeOut => asked \/ stale]_vars

(* The event loop does not wait for ever on a connection that is silent:   *)
(* something is read, or it is dropped, or the core is reset, with an      *)
(* update under way or without.  (WlanManager's CommFails relies on it.)   *)
SilenceEnds ==
  (socketed /\ pc \in {"idle", "loop"}) ~> (pc = "body" \/ ~socketed \/ ~Running)

(* SPARK_FLASH_UPDATE does not stay set: an update ends, with the image,   *)
(* the connection or a reset.  The application does not run until then.    *)
UpdateEnds == flashing ~> ~flashing
=============================================================================
