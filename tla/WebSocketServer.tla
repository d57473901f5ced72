-------------------------- MODULE WebSocketServer --------------------------
(***************************************************************************)
(* SparkWebSocketServer::doIt(), called for ever by loop(): one thread,    *)
(* which accepts a connection, answers its handshake, then walks clients[] *)
(* and serves each client in turn.  The peers, the chip's events and the   *)
(* network move between any two calls that touch a socket, so a step here  *)
(* makes one such call, or several that no event in between can tell from  *)
(* one.                                                                    *)
(***************************************************************************)
EXTENDS TcpSockets

CONSTANTS MaxClients   \* MAX_CLIETNS

ASSUME MaxClientsAssumption == MaxClients \in Nat \ {0}

VARIABLES
  slots,    \* clients[]
  hixie,    \* hixie76style: one flag for all clients
  beat,     \* doIt's local: this pass sends heartbeats
  pc,       \* where doIt is
  cur,      \* doIt's `client` in the handshake, `myClient` in the loop
  idx,      \* doIt's loop index
  scanned,  \* the inner loop's index j
  found,    \* analyzeRequest's foundupgrade
  newkey,   \* analyzeRequest's newkey is not empty
  req,      \* doIt's local `test`: the request just read
  handled,  \* history: what the callback was given, by client
  desync    \* history: a header line of c was read as a frame

doItVars == <<beat, pc, cur, idx, scanned, found, newkey, req>>
ghostVars == <<handled, desync>>
vars == <<tcpVars, slots, hixie, doItVars, ghostVars>>

Slots == 1..MaxClients
NoRequest == "none"
Garbage == "garbage"

PCs == {"accept", "new", "headers", "verdict", "scan", "recheck", "get",
        "framed", "dfuscan", "call", "send", "empty", "dfu"}

ControlTypeOK ==
  /\ beat \in BOOLEAN
  /\ pc \in PCs
  /\ cur \in Conns \cup {NoConn}
  /\ pc \notin {"accept", "scan"} => cur \in Conns
  /\ idx \in 1..(MaxClients + 1)
  /\ pc \notin {"accept", "new", "headers", "verdict", "scan"} => idx \in Slots
  /\ scanned \in 1..(MaxClients + 1)
  /\ found \in BOOLEAN
  /\ newkey \in BOOLEAN
  /\ req \in Commands \cup {NoRequest, Garbage}

TypeOK ==
  /\ TcpTypeOK
  /\ slots \in [Slots -> Conns \cup {NoConn}]
  /\ hixie \in BOOLEAN
  /\ ControlTypeOK
  /\ handled \in [Conns -> Seq(Commands \cup {Garbage})]
  /\ desync \in [Conns -> BOOLEAN]

Init ==
  /\ TcpInit
  /\ slots = [i \in Slots |-> NoConn]
  /\ hixie = FALSE
  /\ beat = FALSE
  /\ pc = "accept"
  /\ cur = NoConn
  /\ idx = 1
  /\ scanned = 1
  /\ found = FALSE
  /\ newkey = FALSE
  /\ req = NoRequest
  /\ handled = [c \in Conns |-> <<>>]
  /\ desync = [c \in Conns |-> FALSE]

(***************************************************************************)
(* Control: where doIt goes next.                                          *)
(***************************************************************************)

(* The for loop over clients[] begins. *)
StartScan ==
  /\ pc' = "scan" /\ idx' = 1 /\ cur' = NoConn
  /\ UNCHANGED <<beat, scanned, found, newkey, req>>

\* Slip: the index is incremented in the body too.
NextSlotTwice ==
  /\ pc' = "scan" /\ idx' = idx + 2 /\ cur' = NoConn /\ req' = NoRequest
  /\ UNCHANGED <<beat, scanned, found, newkey>>

(* i++ *)
NextSlot ==
  /\ pc' = "scan" /\ idx' = idx + 1 /\ cur' = NoConn /\ req' = NoRequest
  /\ UNCHANGED <<beat, scanned, found, newkey>>

Goto(label) ==
  /\ pc' = label
  /\ UNCHANGED <<beat, cur, idx, scanned, found, newkey, req>>

(***************************************************************************)
(* server->available()                                                     *)
(***************************************************************************)

(* begin() gets a handle; when setsockopt, bind or listen fails after that *)
(* it returns without closing the handle.                                  *)
Begin(s) ==
  /\ pc = "accept" /\ lsock = NoSock /\ wifi
  /\ chip[s] = Free
  /\ chip' = [chip EXCEPT ![s] = Listener]
  /\ active' = [active EXCEPT ![s] = TRUE]
  /\ \/ lsock' = s /\ Goto("accept")
     \/ lsock' = NoSock /\ StartScan
  /\ UNCHANGED <<netVars, inbox, sock, buf, heap, upgraded, slots, hixie,
                 ghostVars>>

(* accept() hands out a waiting connection and available() wraps it. *)
Accept(c, s) ==
  /\ pc = "accept" /\ lsock # NoSock /\ wifi
  /\ peer[c] # "idle" /\ heap[c] = "none" /\ chip[s] = Free
  /\ chip' = [chip EXCEPT ![s] = c]
  /\ active' = [active EXCEPT ![s] = TRUE]
  /\ sock' = [sock EXCEPT ![c] = s]
  /\ heap' = [heap EXCEPT ![c] = "live"]
  /\ cur' = c
  /\ pc' = "new"
  /\ UNCHANGED <<netVars, inbox, buf, lsock, upgraded, slots, hixie, beat, idx,
                 scanned, found, newkey, req, ghostVars>>

(* accept() has nothing to hand out, or there is no listening socket.  The *)
(* driver takes the failure for the end of the listening socket.           *)
NoAccept ==
  /\ pc = "accept"
  /\ \/ ~wifi
     \/ lsock = NoSock /\ \A s \in Sds : chip[s] # Free
     \/ lsock # NoSock
        /\ \/ \A c \in Conns : peer[c] = "idle" \/ heap[c] # "none"
           \/ \A s \in Sds : chip[s] # Free
  /\ lsock' = IF wifi THEN lsock ELSE NoSock
  /\ active' = [s \in Sds |-> active[s] /\ s # lsock']
  /\ StartScan
  /\ UNCHANGED <<netVars, inbox, chip, sock, buf, heap, upgraded, slots, hixie,
                 ghostVars>>

(***************************************************************************)
(* handshake() and analyzeRequest()                                        *)
(***************************************************************************)
\* Slip: equals() compares nothing.
AnyClient(c) == {i \in Slots : slots[i] # NoConn}

SameKey(c) == {i \in Slots : slots[i] # NoConn /\ Key[slots[i]] = Key[c]}
Empty == {i \in Slots : slots[i] = NoConn}

First(S) == CHOOSE i \in S : \A j \in S : i <= j

\* Slip: a free slot is taken before one with an equal client.
FreeSlotFirst(c) ==
  IF Empty # {} THEN First(Empty) ELSE First(SameKey(c))

(* The slot handshake() picks: one it re-uses, else the first free one. *)
SlotFor(c) == IF SameKey(c) # {} THEN First(SameKey(c)) ELSE First(Empty)
HasSlot(c) == SameKey(c) \cup Empty # {}

(* `client && client->connected()` holds and handshake() finds a slot. *)
NewClient ==
  /\ pc = "new" /\ Connected(cur) /\ HasSlot(cur)
  /\ ConnectedEffect(cur)
  /\ hixie' = FALSE
  /\ found' = FALSE /\ newkey' = FALSE
  /\ pc' = "headers"
  /\ UNCHANGED <<netVars, heap, lsock, upgraded, slots, beat, cur, idx, scanned,
                 req, ghostVars>>

(* The connection is gone already, or clients[] is full: the object and    *)
(* its socket, unless connected() closes it, are left to themselves.       *)
IgnoreClient ==
  /\ pc = "new"
  /\ ~Connected(cur) \/ ~HasSlot(cur)
  /\ ConnectedEffect(cur)
  /\ StartScan
  /\ UNCHANGED <<netVars, heap, lsock, upgraded, slots, hixie, ghostVars>>

(* One line of the request. *)
ReadLine ==
  /\ pc = "headers" /\ Pulled(cur) # <<>>
  /\ Pull(cur, Tail(Pulled(cur)))
  /\ LET line == Head(Pulled(cur))
     IN  /\ found' = (found \/ line \in {"upgrade", "hixie"})
         /\ newkey' = (newkey \/ line = "key")
         /\ hixie' = (hixie \/ (~found /\ line = "hixie"))
  /\ UNCHANGED <<netVars, heap, lsock, upgraded, slots, beat, pc, cur, idx,
                 scanned, req, ghostVars>>

(* read() returned -1: whatever has arrived is the request. *)
EndOfRequest ==
  /\ pc = "headers" /\ Pulled(cur) = <<>>
  /\ Pull(cur, <<>>)
  /\ Goto("verdict")
  /\ UNCHANGED <<netVars, heap, lsock, upgraded, slots, hixie, ghostVars>>

RequestOK == Connected(cur) /\ found /\ ~hixie /\ newkey

(* Answer 101 and store the client. *)
Establish ==
  /\ pc = "verdict" /\ RequestOK
  /\ slots' = [slots EXCEPT ![SlotFor(cur)] = cur]
  /\ upgraded' = [upgraded EXCEPT ![cur] = TRUE]
  /\ ConnectedEffect(cur)
  /\ StartScan
  /\ UNCHANGED <<netVars, heap, lsock, hixie, ghostVars>>

(* analyzeRequest() returns false and nothing closes the connection. *)
Refuse ==
  /\ pc = "verdict" /\ ~RequestOK
  /\ ConnectedEffect(cur)
  /\ StartScan
  /\ UNCHANGED <<netVars, heap, lsock, upgraded, slots, hixie, ghostVars>>

(***************************************************************************)
(* disconnectClient(): close, and delete the first object that `equals`.   *)
(***************************************************************************)
Disconnect(c) ==
  /\ Stop(c)
  /\ buf' = [buf EXCEPT ![c] = <<>>]
  /\ IF SameKey(c) = {} THEN UNCHANGED <<slots, heap>>
     ELSE /\ slots' = [slots EXCEPT ![First(SameKey(c))] = NoConn]
          /\ heap' = [heap EXCEPT ![slots[First(SameKey(c))]] = "freed"]

(***************************************************************************)
(* The loop over clients[]                                                 *)
(***************************************************************************)
SkipSlot ==
  /\ pc = "scan" /\ idx \in Slots /\ slots[idx] = NoConn
  /\ NextSlot
  /\ UNCHANGED <<tcpVars, slots, hixie, ghostVars>>

(* !myClient->connected() *)
DropClient ==
  /\ pc = "scan" /\ idx \in Slots /\ slots[idx] # NoConn
  /\ ~Connected(slots[idx])
  /\ Disconnect(slots[idx])
  /\ NextSlot
  /\ UNCHANGED <<netVars, lsock, upgraded, hixie, ghostVars>>

(* The first connected() holds ... *)
CheckClient ==
  /\ pc = "scan" /\ idx \in Slots /\ slots[idx] # NoConn
  /\ Connected(slots[idx])
  /\ ConnectedEffect(slots[idx])
  /\ cur' = slots[idx] /\ pc' = "recheck"
  /\ UNCHANGED <<netVars, heap, lsock, upgraded, slots, hixie, beat, idx,
                 scanned, found, newkey, req, ghostVars>>

(* ... and the second one is asked again. *)
RecheckClient ==
  /\ pc = "recheck"
  /\ ConnectedEffect(cur)
  /\ IF Connected(cur) THEN Goto("get") ELSE NextSlot
  /\ UNCHANGED <<netVars, heap, lsock, upgraded, slots, hixie, ghostVars>>

(* The outer loop ends and so does doIt(); the next pass picks its beat. *)
EndPass ==
  /\ pc = "scan" /\ idx \notin Slots
  /\ pc' = "accept"
  /\ beat' \in BOOLEAN
  /\ idx' = 1
  /\ UNCHANGED <<tcpVars, slots, hixie, cur, scanned, found, newkey, req,
                 ghostVars>>

\* Slip: the buffer is flushed after a frame.
FlushedRest(c) == <<>>

(* What handleStream leaves in the buffer. *)
FrameRest(c) == Tail(Pulled(c))

(* getData(): a whole frame is there. *)
ReadFrame ==
  /\ pc = "get" /\ ~hixie
  /\ Pulled(cur) # <<>> /\ Head(Pulled(cur)) \in Commands
  /\ Pull(cur, FrameRest(cur))
  /\ req' = Head(Pulled(cur))
  /\ pc' = "framed"
  /\ UNCHANGED <<netVars, heap, lsock, upgraded, slots, hixie, beat, cur, idx,
                 scanned, found, newkey, ghostVars>>

(* getData(): a header line that came late is parsed as a frame, which     *)
(* may swallow what follows it and may yield a string of garbage.          *)
ReadGarbage ==
  /\ pc = "get" /\ ~hixie
  /\ Pulled(cur) # <<>> /\ Head(Pulled(cur)) \in Lines
  /\ \E n \in 1..Len(Pulled(cur)) :
       Pull(cur, SubSeq(Pulled(cur), n + 1, Len(Pulled(cur))))
  /\ desync' = [desync EXCEPT ![cur] = TRUE]
  /\ req' \in {NoRequest, Garbage}
  /\ pc' = "framed"
  /\ UNCHANGED <<netVars, heap, lsock, upgraded, slots, hixie, beat, cur, idx,
                 scanned, found, newkey, handled>>

(* handleStream asks connected() after the last byte; doIt looks at the    *)
(* string it got.                                                          *)
AfterFrame ==
  CASE req = NoRequest -> "empty"
    [] req = "dfu"     -> "dfuscan"
    [] OTHER           -> "call"

FrameDone ==
  /\ pc = "framed"
  /\ ConnectedEffect(cur)
  /\ pc' = AfterFrame /\ scanned' = 1
  /\ UNCHANGED <<netVars, heap, lsock, upgraded, slots, hixie, beat, cur, idx,
                 found, newkey, req, ghostVars>>

\* Slip: an empty string goes to the callback too.
ReadNothingCalls ==
  /\ pc = "get"
  /\ hixie \/ Pulled(cur) = <<>>
  /\ IF hixie THEN UNCHANGED sockVars ELSE ConnectedEffect(cur)
  /\ Goto("call")
  /\ UNCHANGED <<netVars, heap, lsock, upgraded, slots, hixie, ghostVars>>

(* getData(): nothing to read, or the hixie flag keeps it from reading. *)
ReadNothing ==
  /\ pc = "get"
  /\ hixie \/ Pulled(cur) = <<>>
  /\ IF hixie THEN UNCHANGED sockVars ELSE ConnectedEffect(cur)
  /\ Goto("empty")
  /\ UNCHANGED <<netVars, heap, lsock, upgraded, slots, hixie, ghostVars>>

(* The beat: sendData(HB) to a client still connected, else drop it. *)
Heartbeat ==
  /\ pc = "empty"
  /\ IF beat /\ ~Connected(cur) THEN Disconnect(cur)
     ELSE /\ IF beat THEN ConnectedEffect(cur) ELSE UNCHANGED sockVars
          /\ UNCHANGED <<slots, heap>>
  /\ NextSlot
  /\ UNCHANGED <<netVars, lsock, upgraded, hixie, ghostVars>>

(* "/dfu": one step of the inner loop, which drops the clients that are   *)
(* gone; the requesting client can be one of them.                         *)
DfuScan ==
  /\ pc = "dfuscan" /\ scanned \in Slots
  /\ LET tmp == slots[scanned]
     IN  IF tmp = NoConn THEN UNCHANGED <<sockVars, slots, heap>>
         ELSE IF ~Connected(tmp) THEN Disconnect(tmp)
         ELSE ConnectedEffect(tmp) /\ UNCHANGED <<slots, heap>>
  /\ scanned' = scanned + 1
  /\ UNCHANGED <<netVars, lsock, upgraded, hixie, beat, pc, cur, idx, found,
                 newkey, req, ghostVars>>

DfuScanned ==
  /\ pc = "dfuscan" /\ scanned \notin Slots
  /\ Goto("call")
  /\ UNCHANGED <<tcpVars, slots, hixie, ghostVars>>

\* Slip: a callback that comes back from "/dfu".
CallReturns == "send"

(* The callback, handle(), never returns from "/dfu": the core resets. *)
AfterCall == IF req = "dfu" THEN "dfu" ELSE "send"

CallBack ==
  /\ pc = "call"
  /\ handled' = [handled EXCEPT ![cur] = Append(@, req)]
  /\ Goto(AfterCall)
  /\ UNCHANGED <<tcpVars, slots, hixie, desync>>

(* sendData(resutl, *myClient) leaves the sockets as they are: it asks    *)
(* connected() only when status() holds.                                   *)
SendResult ==
  /\ pc = "send"
  /\ NextSlot
  /\ UNCHANGED <<tcpVars, slots, hixie, ghostVars>>

DoIt ==
  \/ \E s \in Sds : Begin(s)
  \/ \E c \in Conns, s \in Sds : Accept(c, s)
  \/ NoAccept
  \/ NewClient \/ IgnoreClient
  \/ ReadLine \/ EndOfRequest \/ Establish \/ Refuse
  \/ SkipSlot \/ DropClient \/ CheckClient \/ RecheckClient \/ EndPass
  \/ ReadFrame \/ ReadGarbage \/ FrameDone \/ ReadNothing \/ Heartbeat
  \/ DfuScan \/ DfuScanned \/ CallBack \/ SendResult

Environment ==
  Network /\ UNCHANGED <<slots, hixie, doItVars, ghostVars>>

Next == DoIt \/ Environment

Spec == Init /\ [][Next]_vars

(* main() calls loop() for ever, and the chip reports a peer's close.      *)
FairSpec ==
  /\ Spec
  /\ WF_vars(DoIt)
  /\ \A s \in Sds : WF_vars(CloseWaitEvent(s) /\ Environment)

(***************************************************************************)
(* Safety                                                                  *)
(***************************************************************************)
Members == {slots[i] : i \in Slots} \ {NoConn}

(* No two entries of clients[] are equals(): the object disconnectClient() *)
(* finds and deletes is the one it was called for.                         *)
SlotsDistinct ==
  \A i, j \in Slots :
    /\ slots[i] # NoConn /\ slots[j] # NoConn
    /\ Key[slots[i]] = Key[slots[j]]
    => i = j

(* clients[] never points to a deleted object, and doIt() never uses one:  *)
(* what "/dfu" deletes, possibly the requesting client itself, is not      *)
(* touched again, for the callback does not return.                        *)
UsesCur == pc \in {"new", "headers", "verdict", "recheck", "get", "framed",
                   "send", "empty"}

NoUseAfterFree ==
  /\ \A c \in Members : heap[c] = "live"
  /\ UsesCur => heap[cur] = "live"

(* A handle in the _sock of an object is that connection's on the chip: no *)
(* client reads, answers or closes the connection of another one, whatever *)
(* was leaked before.                                                      *)
SockOwner ==
  \A c \in Conns : heap[c] = "live" /\ isOpen(c) => chip[sock[c]] = c

(* The requests among some tokens, in their order. *)
Requests(tokens) ==
  LET R[n \in 0..Len(tokens)] ==
        IF n = 0 THEN <<>>
        ELSE IF tokens[n] \in Commands THEN Append(R[n - 1], tokens[n])
        ELSE R[n - 1]
  IN  R[Len(tokens)]

(* The request of c that doIt() has read and not given to the callback. *)
Pending(c) ==
  IF pc \in {"framed", "dfuscan", "call"} /\ cur = c /\ req # NoRequest
  THEN <<req>> ELSE <<>>
Executed(c) == handled[c] \o Pending(c)
Sent(c) == Requests(SubSeq(script[c], 1, sent[c]))

(* Each request reaches the callback once and in the order sent; only an   *)
(* outage loses any, and then the last ones.  (A client whose header lines *)
(* come after the answer has its frames cut in the wrong places.)          *)
ExactlyOnce ==
  \A c \in Conns : ~desync[c] =>
    /\ IsPrefix(Executed(c), Sent(c))
    /\ drops = 0 =>
         Executed(c) \o Requests(buf[c]) \o Requests(inbox[c]) = Sent(c)

(* An established client stays in its slot until it has closed or the      *)
(* network has been away; only a client with the same key takes it over.   *)
StaysUntilGone ==
  [][\A i \in Slots : slots[i] # NoConn /\ slots'[i] # slots[i] =>
       IF slots'[i] = NoConn
       THEN peer[slots[i]] = "closed" \/ drops > 0
       ELSE Key[slots'[i]] = Key[slots[i]]]_vars

(***************************************************************************)
(* Liveness                                                                *)
(***************************************************************************)

(* A client whose peer has closed leaves clients[], so that its slot can   *)
(* be used again.                                                          *)
ClosedClientLeaves ==
  \A c \in Conns :
    c \in Members /\ peer[c] = "closed" ~> c \notin Members \/ pc = "dfu"

(* A request of an established client is handled (README.md and the doc of *)
(* doIt(): "check for new connection, and handle client requests").        *)
Unread(c) == Requests(buf[c] \o inbox[c]) # <<>>

RequestsServed ==
  \A c \in Conns : c \in Members /\ Unread(c) ~> ~Unread(c) \/ pc = "dfu"

(***************************************************************************)
(* What comments and documents say, and the code does not do.              *)
(***************************************************************************)

(* "Nope, failed handshake. Disconnect" (SparkWebSocketServer.cpp). *)
FailedHandshakeDisconnects ==
  \A c \in Conns : pc = "verdict" /\ cur = c /\ ~found ~> ~isOpen(c)

(* "The server, by default handles up-to 4 simultaneous clients" (README): *)
(* a client that is still there is not put out by the next one's handshake.*)
ClientsCoexist ==
  [][\A i \in Slots : slots[i] # NoConn /\ peer[slots[i]] = "open" =>
       slots'[i] \in {slots[i], NoConn}]_vars

(***************************************************************************)
(* The server as the client table it promises to be.                       *)
(***************************************************************************)
Phase(c) ==
  IF c \in Members THEN "member" ELSE IF upgraded[c] THEN "left" ELSE "new"

Table == INSTANCE ClientTable
           WITH phase <- [c \in Conns |-> Phase(c)],
                log <- [c \in Conns |-> Executed(c)],
                Requested <- Commands \cup {Garbage}

ImplementsTable == Table!Spec
=============================================================================
