---------------------------- MODULE FrameReader ----------------------------
(***************************************************************************)
(* getData() for a client of the final protocol: handleStream() and        *)
(* timedRead() over the bytes of one TCPClient, which arrive when they     *)
(* like and may stop arriving anywhere.                                    *)
(*                                                                         *)
(* A byte is a tag <<frame, part, index>>: what the peer meant by it.  The *)
(* code takes bytes for what its position says they are, so a tag met      *)
(* where another was due stands for any value.                             *)
(***************************************************************************)
EXTENDS ClientBuffer, FiniteSets

CONSTANTS Sizes,     \* the peer's frames: the length of each payload
          MaxShort,  \* 125: the longest payload with a one-byte length
          Base,      \* 256
          MaskLength,\* 4
          MaxTries   \* 20: polls of timedRead

ASSUME FrameAssumption ==
  /\ Sizes \in Seq(Nat)
  /\ MaxShort \in Nat /\ MaxTries \in Nat
  /\ Base \in Nat \ {0} /\ MaskLength \in Nat \ {0}

Frames == 1..Len(Sizes)
Extended == MaxShort + 1   \* 126
TooLong == MaxShort + 2    \* 127

(* What the peer sends. *)
IsLong(f) == Sizes[f] > MaxShort
Part(f, part, n) == [i \in 1..n |-> <<f, part, i - 1>>]
Frame(f) ==
  Part(f, "op", 1) \o Part(f, "len", 1) \o Part(f, "ext", IF IsLong(f) THEN 2 ELSE 0)
    \o Part(f, "mask", MaskLength) \o Part(f, "data", Sizes[f])
Sent[f \in 0..Len(Sizes)] == IF f = 0 THEN <<>> ELSE Sent[f - 1] \o Frame(f)
Script == Sent[Len(Sizes)]

Stages == {"op", "len", "ext", "mask", "data"}

ASSUME TagsAssumption ==
  /\ Bytes \subseteq Frames \X Stages \X Nat
  /\ \A f \in Frames : Frame(f) \in Seq(Bytes)

VARIABLES
  sent,     \* how many bytes of Script the peer has sent
  pc,       \* the next call: "idle" outside getData()
  stage,    \* what the byte being read is for
  index,    \* the mask byte or payload byte it is
  tries,    \* test
  byte,     \* what timedRead() returns
  length, mask, data,
  results,  \* history: what the calls have returned
  sync      \* history: "whole"; "cut" by the end of the line; "lost" its place

parseVars == <<stage, index, length, mask, data, results, sync>>
vars == <<streamVars, sent, pc, tries, byte, parseVars>>

NoMask == [k \in 0..(MaskLength - 1) |-> None]

Init ==
  /\ BufInit
  /\ sent = 0 /\ pc = "idle" /\ tries = 0 /\ byte = None
  /\ stage = "op" /\ index = 0 /\ length = 0
  /\ mask = NoMask
  /\ data = <<>> /\ results = <<>> /\ sync = "whole"

Line ==
  \/ /\ sent < Len(Script) /\ Arrive(Script[sent + 1])
     /\ sent' = sent + 1
     /\ UNCHANGED <<pc, tries, byte, parseVars>>
  \/ /\ CloseWait \/ Outage \/ Recovery
     /\ UNCHANGED <<sent, pc, tries, byte, parseVars>>

(***************************************************************************)
(* timedRead(): poll up to MaxTries times, then read if still connected.   *)
(***************************************************************************)
\* Slip: test++ is forgotten.
SameTry == tries

NextTry == tries + 1

Poll ==
  /\ pc = "poll"
  /\ IF tries < MaxTries
     THEN Available /\ pc' = IF total' > offset' THEN "alive" ELSE "wait"
     ELSE UNCHANGED streamVars /\ pc' = "alive"
  /\ UNCHANGED <<sent, tries, byte, parseVars>>

(* "&& client.connected()", then delay(1) and test++; that delay() may run *)
(* SPARK_WLAN_Loop() before it returns is left out.                        *)
Wait ==
  /\ pc = "wait"
  /\ ConnectedEffect
  /\ IF Connected THEN pc' = "poll" /\ tries' = NextTry
     ELSE pc' = "alive" /\ UNCHANGED tries
  /\ UNCHANGED <<sent, byte, parseVars>>

Alive ==
  /\ pc = "alive"
  /\ ConnectedEffect
  /\ pc' = IF Connected THEN "read" ELSE "parse"
  /\ byte' = None
  /\ UNCHANGED <<sent, tries, parseVars>>

(* read(): a byte of the array, or after another available(), or -1. *)
Read ==
  /\ pc = "read" /\ bufferCount = 0
  /\ Available
  /\ pc' = "take"
  /\ UNCHANGED <<sent, tries, byte, parseVars>>

Take ==
  /\ \/ pc = "read" /\ bufferCount > 0
     \/ pc = "take"
  /\ IF bufferCount > 0 THEN ReadByte /\ byte' = buffer[offset]
     ELSE UNCHANGED <<streamVars, byte>>
  /\ pc' = "parse"
  /\ UNCHANGED <<sent, tries, parseVars>>

(***************************************************************************)
(* What the code makes of a byte.                                          *)
(***************************************************************************)
IsA(part, i) == byte # None /\ byte[2] = part /\ byte[3] = i

(* "timedRead(client) & 127": -1 gives 127. *)
ShortLengths ==
  IF byte = None THEN {TooLong}
  ELSE IF IsA("len", 0)
       THEN {IF IsLong(byte[1]) THEN Extended ELSE Sizes[byte[1]]}
       ELSE 0..TooLong

(* A byte of a 16-bit length, high byte first. *)
ExtValues(i) ==
  IF ~IsA("ext", i) THEN 0..(Base - 1)
  ELSE {IF i = 0 THEN Sizes[byte[1]] \div Base ELSE Sizes[byte[1]] % Base}

(* -1 in either byte makes the length negative. *)
HighLengths == IF byte = None THEN {-1} ELSE {v * Base : v \in ExtValues(0)}
FullLengths ==
  IF byte = None \/ length < 0 THEN {-1} ELSE {length + v : v \in ExtValues(1)}

(* The byte comes out right if it meets the mask byte the peer used. *)
Unmasked ==
  IF /\ byte # None /\ byte[2] = "data"
     /\ mask[index % MaskLength] = <<byte[1], "mask", byte[3] % MaskLength>>
  THEN byte ELSE None

\* Slip: i <= length.
OneTooMany == index = length

LastByte == index + 1 = length

LastMask == index + 1 = MaskLength

Payload(f) == Part(f, "data", Sizes[f])

(***************************************************************************)
(* The steps of handleStream().                                            *)
(***************************************************************************)
Text == IF stage = "data" THEN Append(data, Unmasked) ELSE data

(* All of the frame has been read when the call returns here. *)
Complete ==
  \/ stage = "data" /\ LastByte
  \/ stage = "mask" /\ LastMask /\ length <= 0

Reset ==
  /\ pc' = "idle" /\ stage' = "op" /\ index' = 0 /\ length' = 0 /\ data' = <<>>
  /\ mask' = NoMask

(* Once the place in the stream is lost a payload is any string, and neither *)
(* it nor the mask is kept.                                                *)
Return(state) ==
  /\ Reset
  /\ sync' = state
  /\ results' = IF state = "lost" THEN results ELSE Append(results, Text)

GetData ==
  /\ pc = "idle"
  /\ ConnectedEffect
  /\ pc' = IF Connected THEN "poll" ELSE "idle"
  /\ tries' = 0
  /\ UNCHANGED <<sent, byte, parseVars>>

NoFrame == stage = "op" /\ byte = None

GiveUp ==
  IF NoFrame THEN Reset /\ UNCHANGED <<results, sync>>
  ELSE Return(IF Complete /\ byte # None THEN sync
              ELSE IF sync = "whole" THEN "cut" ELSE "lost")

(* A byte that timed out, or a frame begun after a broken one. *)
NewSync ==
  IF (stage # "op" /\ byte = None) \/ (stage = "op" /\ sync = "cut")
  THEN "lost" ELSE sync

Continue(nextStage, nextIndex) ==
  /\ pc' = "poll" /\ stage' = nextStage /\ index' = nextIndex
  /\ sync' = NewSync
  /\ UNCHANGED results

ParseOp ==
  IF NoFrame THEN Reset /\ UNCHANGED <<results, sync>>
  ELSE Continue("len", 0) /\ UNCHANGED <<length, mask, data>>

ParseLength ==
  \E l \in ShortLengths :
     IF l = TooLong THEN Return(NewSync)
     ELSE /\ length' = l
          /\ Continue(IF l = Extended THEN "ext" ELSE "mask", 0)
          /\ UNCHANGED <<mask, data>>

ParseExt ==
  /\ length' \in IF index = 0 THEN HighLengths ELSE FullLengths
  /\ IF index = 0 THEN Continue("ext", 1) ELSE Continue("mask", 0)
  /\ UNCHANGED <<mask, data>>

ParseMask ==
  IF LastMask /\ length <= 0 THEN Return(NewSync)
  ELSE /\ mask' = IF NewSync = "lost" THEN NoMask ELSE [mask EXCEPT ![index] = byte]
       /\ IF LastMask THEN Continue("data", 0) ELSE Continue("mask", index + 1)
       /\ UNCHANGED <<length, data>>

ParseData ==
  IF LastByte THEN Return(NewSync)
  ELSE /\ Continue("data", index + 1)
       /\ data' = IF NewSync = "lost" THEN <<>> ELSE Text
       /\ UNCHANGED <<length, mask>>

(* The check of connected() after each byte, and what follows it. *)
Parse ==
  /\ pc = "parse"
  /\ ConnectedEffect
  /\ tries' = 0 /\ byte' = None
  /\ \/ ~Connected /\ GiveUp
     \/ /\ Connected
        /\ \/ stage = "op"   /\ ParseOp
           \/ stage = "len"  /\ ParseLength
           \/ stage = "ext"  /\ ParseExt
           \/ stage = "mask" /\ ParseMask
           \/ stage = "data" /\ ParseData
  /\ UNCHANGED sent

Call == Poll \/ Wait \/ Alive \/ Read \/ Take \/ Parse

Next == Line \/ GetData \/ Call

Spec == Init /\ [][Next]_vars

(* doIt() runs on the only thread; no call waits for the line. *)
FairSpec == Spec /\ WF_vars(Call)

(***************************************************************************)
(* Properties                                                              *)
(***************************************************************************)
Calls == {"idle", "poll", "wait", "alive", "read", "take", "parse"}

(* The type invariant of the reader and of the buffer under it.  The array *)
(* never holds more than Cap bytes, and what is unread in it came from the *)
(* wire.                                                                   *)
TypeOK ==
  /\ BufTypeOK
  /\ sent \in 0..Len(Script)
  /\ pc \in Calls /\ stage \in Stages
  /\ index \in Nat /\ length \in Int
  /\ tries \in 0..MaxTries
  /\ byte \in Bytes \cup {None}
  /\ mask \in [0..(MaskLength - 1) -> Bytes \cup {None}]
  /\ data \in Seq(Bytes \cup {None})
  /\ results \in Seq(Seq(Bytes \cup {None}))
  /\ sync \in {"whole", "cut", "lost"}

FramesRead == {f \in Frames : Len(Sent[f]) <= Len(got)}

(* The beginning of a payload, and at most one byte that never came.       *)
Partial(text, f) ==
  \E n \in 0..Sizes[f] :
    LET begin == SubSeq(Payload(f), 1, n)
    IN  text = begin \/ text = Append(begin, None)

(* handleStream() returns each frame's payload, unmasked, once and in      *)
(* order, as long as no byte within a frame was waited for in vain.  If    *)
(* the connection ends within a frame the last result is a prefix of the   *)
(* payload (and what the missing byte was taken for); a frame that had     *)
(* been read by then is returned whole.                                    *)
ExactFrames ==
  /\ \A k \in 1..Len(results) :
        \/ results[k] = Payload(k)
        \/ k = Len(results) /\ sync # "whole" /\ Partial(results[k], k)
  /\ sync = "whole" /\ pc = "idle" => Len(results) = Cardinality(FramesRead)

(* connected() closes the socket only when there is nothing left that      *)
(* read() could return, unless the network is down.                        *)
ClosesWhenDrained ==
  [][open /\ ~open' /\ up => Buffered \o wire = <<>>]_vars

(* getData() returns, whatever the peer, the chip and the network do.      *)
GetDataReturns == pc # "idle" ~> pc = "idle"
=============================================================================
