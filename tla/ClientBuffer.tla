---------------------------- MODULE ClientBuffer ----------------------------
(***************************************************************************)
(* The receive side of one TCPClient, byte by byte: the chip's queue, the  *)
(* array _buffer that available() fills from it, and read().  The array is *)
(* used from 0 on: new bytes go behind _total, and both indices go back to *)
(* 0 only when everything has been read.                                   *)
(***************************************************************************)
EXTENDS Integers, Sequences

CONSTANTS Cap,     \* TCPCLIENT_BUF_MAX_SIZE
          Bytes,   \* what a byte on the wire can be
          None     \* no byte: the -1 of read(), a cell not in use

ASSUME CapAssumption == Cap \in Nat \ {0}
ASSUME BytesAssumption == None \notin Bytes

VARIABLES
  wire,     \* bytes the chip holds for the socket
  buffer,   \* _buffer
  offset,   \* _offset
  total,    \* _total
  up,       \* WiFi.status() == WIFI_ON
  open,     \* _sock # MAX_SOCK_NUM
  active,   \* the socket's bit in socket_active_status
  got       \* history: the bytes read() has returned

bufVars == <<buffer, offset, total>>
lineVars == <<up, active>>
streamVars == <<wire, bufVars, lineVars, open, got>>

Cells == 0..(Cap - 1)

BufTypeOK ==
  /\ wire \in Seq(Bytes)
  /\ buffer \in [Cells -> Bytes \cup {None}]
  /\ total \in 0..Cap
  /\ offset \in 0..total
  /\ up \in BOOLEAN /\ open \in BOOLEAN /\ active \in BOOLEAN
  /\ got \in Seq(Bytes)
  /\ \A k \in offset..(total - 1) : buffer[k] \in Bytes

BufInit ==
  /\ wire = <<>>
  /\ buffer = [k \in Cells |-> None]
  /\ offset = 0 /\ total = 0
  /\ up = TRUE /\ open = TRUE /\ active = TRUE
  /\ got = <<>>

(***************************************************************************)
(* The peer, the chip and the network.                                     *)
(***************************************************************************)
Arrive(b) ==
  /\ active /\ open /\ up
  /\ wire' = Append(wire, b)
  /\ UNCHANGED <<bufVars, lineVars, open, got>>

CloseWait ==
  /\ active
  /\ active' = FALSE
  /\ UNCHANGED <<wire, bufVars, up, open, got>>

Outage ==
  /\ up
  /\ up' = FALSE
  /\ UNCHANGED <<wire, bufVars, active, open, got>>

Recovery ==
  /\ ~up
  /\ up' = TRUE
  /\ UNCHANGED <<wire, bufVars, active, open, got>>

(***************************************************************************)
(* TCPClient                                                               *)
(***************************************************************************)
bufferCount == total - offset

\* Slip: a full array is flushed, whether it has been read or not.
AtCap == total = Cap

AtEnd == total # 0 /\ offset = total

(* _offset and _total after "At EOB => Flush it". *)
Offset0 == IF AtEnd THEN 0 ELSE offset
Total0 == IF AtEnd THEN 0 ELSE total

\* Slip: room is computed from what has not been read.
RoomUnread == Cap - (Total0 - Offset0)

Room == Cap - Total0

CanReceive == up /\ open /\ Room > 0 /\ wire # <<>>

(* recv() puts n bytes behind _total. *)
Received(n) ==
  [k \in Cells |-> IF k \in Total0..(Total0 + n - 1) THEN wire[k - Total0 + 1]
                   ELSE buffer[k]]

Lesser(a, b) == IF a <= b THEN a ELSE b

Receive(n) ==
  /\ buffer' = Received(n)
  /\ total' = Total0 + n
  /\ offset' = Offset0
  /\ wire' = SubSeq(wire, n + 1, Len(wire))
  /\ UNCHANGED <<lineVars, open, got>>

(* available(): the chip hands out any number of the bytes it has. *)
Available ==
  IF CanReceive THEN \E n \in 1..Lesser(Room, Len(wire)) : Receive(n)
  ELSE /\ offset' = Offset0 /\ total' = Total0
       /\ UNCHANGED <<wire, buffer, lineVars, open, got>>

(* read() of a byte that is there.  Its cell is not read again. *)
ReadByte ==
  /\ bufferCount > 0
  /\ got' = Append(got, buffer[offset])
  /\ offset' = offset + 1
  /\ buffer' = [buffer EXCEPT ![offset] = None]
  /\ UNCHANGED <<wire, total, lineVars, open>>

Status == open /\ up /\ active

(* stop(): closesocket(); the buffer is left alone. *)
StopReading ==
  /\ open' = FALSE
  /\ UNCHANGED <<wire, bufVars, lineVars, got>>

(* In CLOSE_WAIT with an empty buffer connected() has to ask the chip. *)
MustAsk == ~Status /\ bufferCount = 0 /\ open /\ ~active

Connected == Status \/ bufferCount > 0 \/ (MustAsk /\ CanReceive)

\* Slip: the socket is closed without a look at the chip.
ClosesAtOnce == IF MustAsk THEN StopReading ELSE UNCHANGED streamVars

ConnectedEffect ==
  IF ~MustAsk THEN UNCHANGED streamVars
  ELSE IF CanReceive THEN Available
  ELSE \* available() has flushed before stop() closes
       /\ offset' = Offset0 /\ total' = Total0 /\ open' = FALSE
       /\ UNCHANGED <<wire, buffer, lineVars, got>>

(***************************************************************************)
(* Any reader at all.                                                      *)
(***************************************************************************)
LineNext == (\E b \in Bytes : Arrive(b)) \/ CloseWait \/ Outage \/ Recovery

BufNext == LineNext \/ Available \/ ReadByte \/ ConnectedEffect \/ StopReading

BufSpec == BufInit /\ [][BufNext]_streamVars

(* The bytes between the peer and the reader. *)
Buffered == [i \in 1..bufferCount |-> buffer[offset + i - 1]]

Stream == INSTANCE ByteStream WITH queue <- Buffered \o wire

(* What read() returns are the peer's bytes, each once and in order,       *)
(* however available() splits them and however often the array is re-used. *)
ImplementsStream == Stream!Spec
=============================================================================
