---------------------------- MODULE FrameWriter ----------------------------
(***************************************************************************)
(* sendData() and sendEncodedData() for a client of the final protocol:    *)
(* messages go out one TCPClient::write() per byte, and a peer that        *)
(* follows RFC 6455 reads them.  The bytes of a payload do not matter.     *)
(***************************************************************************)
EXTENDS Naturals, Sequences, SequencesExt

CONSTANTS Sizes,        \* lengths of the messages sendData() is called with
          MaxShort,     \* 125
          Base,         \* 256
          MaxMessages   \* bound: how many messages are sent

ASSUME WriterAssumption ==
  /\ Sizes \subseteq Nat /\ MaxMessages \in Nat
  /\ MaxShort \in Nat /\ Base \in Nat /\ MaxShort + 2 < Base

Extended == MaxShort + 1   \* 126

VARIABLES
  up,        \* client.status() == 1
  busy,      \* in sendEncodedData()
  size,      \* strlen(str)
  pos,       \* bytes written of the frame
  messages,  \* history: sizes passed to sendData() while connected
  dropped,   \* history: a write() has returned -1
  awaits,    \* the peer: what its next byte is
  need,      \* the peer: high length byte, then payload bytes to come
  received   \* the peer: the messages it has read, a size each

vars == <<up, busy, size, pos, messages, dropped, awaits, need, received>>
peerVars == <<awaits, need, received>>

Init ==
  /\ up = TRUE /\ busy = FALSE /\ size = 0 /\ pos = 0
  /\ messages = <<>> /\ dropped = FALSE
  /\ awaits = "op" /\ need = 0 /\ received = <<>>

\* Slip: a payload of MaxShort gets a long header.
LongFrom == size >= MaxShort

IsLong == size > MaxShort

HighByte == (size \div Base) % Base
(* "size && 0xFF" is a truth value. *)
LowByte == IF size # 0 THEN 1 ELSE 0

Header == IF IsLong THEN <<129, Extended, HighByte, LowByte>> ELSE <<129, size>>

FrameLength == Len(Header) + size

(***************************************************************************)
(* The peer's parser.                                                      *)
(***************************************************************************)
Expect(n) ==
  IF n = 0 THEN awaits' = "op" /\ need' = 0
  ELSE awaits' = "data" /\ need' = n

PeerReads(b) ==
  \/ awaits = "op" /\ awaits' = "len" /\ UNCHANGED <<need, received>>
  \/ /\ awaits = "len"
     /\ IF b = Extended THEN awaits' = "high" /\ UNCHANGED <<need, received>>
        ELSE Expect(b) /\ received' = Append(received, b)
  \/ awaits = "high" /\ awaits' = "low" /\ need' = b /\ UNCHANGED received
  \/ /\ awaits = "low"
     /\ Expect(need * Base + b)
     /\ received' = Append(received, need * Base + b)
  \/ awaits = "data" /\ Expect(need - 1) /\ UNCHANGED received

(***************************************************************************)
(* The server.  What a peer makes of a frame with a hole is not followed.  *)
(***************************************************************************)
SendData(n) ==
  /\ ~busy /\ up /\ Len(messages) < MaxMessages
  /\ busy' = TRUE /\ size' = n /\ pos' = 0
  /\ messages' = Append(messages, n)
  /\ UNCHANGED <<up, dropped, peerVars>>

Write ==
  /\ busy /\ pos < FrameLength
  /\ pos' = pos + 1
  /\ IF ~up \/ dropped
     THEN dropped' = TRUE /\ UNCHANGED peerVars
     ELSE /\ PeerReads(IF pos < Len(Header) THEN Header[pos + 1] ELSE 0)
          /\ UNCHANGED dropped
  /\ UNCHANGED <<up, busy, size, messages>>

Finish ==
  /\ busy /\ pos = FrameLength
  /\ busy' = FALSE /\ size' = 0 /\ pos' = 0
  /\ UNCHANGED <<up, messages, dropped, peerVars>>

LineChanges ==
  /\ up' = ~up
  /\ UNCHANGED <<busy, size, pos, messages, dropped, peerVars>>

Next == (\E n \in Sizes : SendData(n)) \/ Write \/ Finish \/ LineChanges

Spec == Init /\ [][Next]_vars

(***************************************************************************)
(* Properties                                                              *)
(***************************************************************************)
(* As long as no write() has failed, the peer reads messages of the sizes  *)
(* that were sent and is at the start of a frame when the server is: what  *)
(* sendEncodedData() writes is what its own header announces.              *)
PeerInStep ==
  ~dropped =>
    /\ ~busy => awaits = "op" /\ received = messages
    /\ IsPrefix(received, messages)
=============================================================================
