----------------------- MODULE WebSocketServer_proofs -----------------------
(***************************************************************************)
(* The safety of the client table, for every number of slots, handles and  *)
(* peers: types, distinct slots, no use of a deleted object, and a handle  *)
(* of one's own.                                                           *)
(***************************************************************************)
EXTENDS WebSocketServer, TLAPS, WellFoundedInduction,
        SequenceTheorems

(* The object in hand between accept() and the end of the handshake is not *)
(* in clients[]; in the loop it is the one clients[i] points to, until     *)
(* "/dfu" deletes clients.                                                 *)
CurInv ==
  /\ pc \in {"new", "headers", "verdict"} => heap[cur] = "live" /\ cur \notin Members
  /\ pc \in {"recheck", "get", "framed", "empty"} => slots[idx] = cur
  /\ pc \in {"call", "send"} /\ req # "dfu" => slots[idx] = cur
  /\ pc = "send" => req # "dfu"
  /\ pc = "dfuscan" => req = "dfu"
  /\ pc = "call" => req # NoRequest

MembersLive == \A c \in Members : heap[c] = "live"

IInv == TypeOK /\ SlotsDistinct /\ MembersLive /\ SockOwner /\ CurInv

(***************************************************************************)
(* The operators the model is built from.                                  *)
(***************************************************************************)

(* A non-empty set of slots has a first one. *)
Below == {p \in Nat \X Nat : p[1] < p[2]}

LEMMA BelowWellFounded == IsWellFoundedOn(Below, Nat)
  BY NatLessThanWellFounded DEF OpToRel, Below

LEMMA FirstIn ==
  ASSUME NEW S, S \subseteq Nat, S # {}
  PROVE  First(S) \in S
<1>1. PICK i \in S : \A j \in S : ~ (<<j, i>> \in Below)
  BY BelowWellFounded, WFMin
<1>2. ASSUME NEW j \in S
      PROVE  i <= j
  <2>1. i \in Nat /\ j \in Nat /\ <<j, i>> \in Nat \X Nat
    OBVIOUS
  <2>2. ~(<<j, i>>[1] < <<j, i>>[2])
    BY <1>1, <2>1 DEF Below
  <2>3. ~(j < i)
    BY <2>2
  <2> QED
    BY <2>1, <2>3
<1> QED
  BY <1>2 DEF First

(* What available() offers to read is made of tokens. *)
LEMMA PulledType ==
  ASSUME SockTypeOK, NEW c \in Conns
  PROVE  Pulled(c) \in Seq(Tokens)
<1>1. ChipData(c) \in Seq(Tokens)
  BY DEF ChipData, SockTypeOK
<1>2. buf[c] \in Seq(Tokens)
  BY DEF SockTypeOK
<1>3. buf[c] \o ChipData(c) \in Seq(Tokens)
  BY <1>1, <1>2, ConcatProperties
<1> QED
  BY <1>2, <1>3 DEF Pulled

LEMMA InboxTakenType ==
  ASSUME SockTypeOK, NEW c \in Conns
  PROVE  InboxTaken(c) \in [Conns -> Seq(Tokens)]
  BY DEF InboxTaken, SockTypeOK

(* Reading moves tokens and leaves the handles alone. *)
LEMMA PullType ==
  ASSUME SockTypeOK, NEW c \in Conns, NEW rest \in Seq(Tokens), Pull(c, rest)
  PROVE  SockTypeOK' /\ UNCHANGED <<chip, sock>>
  BY InboxTakenType DEF Pull, SockTypeOK

(* stop() and connected(): types, and each object keeps a handle of its    *)
(* own.  An object that forgets its handle owns none.                      *)
OwnedBy(objects) ==
  \A d \in objects : sock[d] # NoSock => chip[sock[d]] = d

Live == {c \in Conns : heap[c] = "live"}

LEMMA SockOwnerIsOwned == SockOwner <=> OwnedBy(Live)
  BY DEF SockOwner, OwnedBy, Live, isOpen

LEMMA StopSafe ==
  ASSUME NEW S \in SUBSET Conns, SockTypeOK, OwnedBy(S),
         NEW c \in S, Stop(c), buf' \in [Conns -> Seq(Tokens)]
  PROVE  SockTypeOK' /\ (\A d \in S : sock'[d] # NoSock => chip'[sock'[d]] = d)
<1>1. CASE sock[c] = NoSock
  BY <1>1 DEF Stop, isOpen, SockTypeOK, OwnedBy
<1>2. CASE sock[c] # NoSock
  <2>1. /\ sock[c] \in Sds
        /\ sock' = [sock EXCEPT ![c] = NoSock]
        /\ chip' = [chip EXCEPT ![sock[c]] = Free]
        /\ active' = [active EXCEPT ![sock[c]] = FALSE]
        /\ inbox' = InboxTaken(c)
    BY <1>2 DEF Stop, isOpen, SockTypeOK
  <2>2. SockTypeOK'
    BY <2>1, InboxTakenType DEF SockTypeOK
  <2>3. ASSUME NEW d \in S, sock'[d] # NoSock
        PROVE  chip'[sock'[d]] = d
    <3>1. d # c /\ sock'[d] = sock[d] /\ sock[d] \in Sds
      BY <2>1, <2>3 DEF SockTypeOK
    <3>2. chip[sock[d]] = d /\ chip[sock[c]] = c
      BY <1>2, <2>3, <3>1 DEF OwnedBy
    <3> QED
      BY <2>1, <3>1, <3>2 DEF SockTypeOK
  <2> QED
    BY <2>2, <2>3
<1> QED
  BY <1>1, <1>2

LEMMA ConnectedSafe ==
  ASSUME NEW S \in SUBSET Conns, SockTypeOK, OwnedBy(S),
         NEW c \in S, ConnectedEffect(c)
  PROVE  SockTypeOK' /\ (\A d \in S : sock'[d] # NoSock => chip'[sock'[d]] = d)
<1>1. CASE UNCHANGED sockVars
  BY <1>1 DEF sockVars, SockTypeOK, OwnedBy
<1>2. CASE Pull(c, Pulled(c))
  BY <1>2, PulledType, PullType DEF OwnedBy
<1>3. CASE Stop(c) /\ UNCHANGED buf
  BY <1>3, StopSafe DEF SockTypeOK
<1> QED
  BY <1>1, <1>2, <1>3 DEF ConnectedEffect

(* disconnectClient(c) deletes c itself and empties its slot. *)
LEMMA DisconnectSafe ==
  ASSUME IInv, NEW c \in Members, Disconnect(c)
  PROVE  /\ SockTypeOK' /\ SockOwner'
         /\ heap' = [heap EXCEPT ![c] = "freed"]
         /\ \E k \in Slots : slots[k] = c /\ slots' = [slots EXCEPT ![k] = NoConn]
<1>1. PICK k \in Slots : slots[k] = c /\ c \in Conns
  BY DEF Members, IInv, TypeOK
<1>2. SameKey(c) = {k}
  BY <1>1, NamesAssumption DEF IInv, SlotsDistinct, SameKey
<1>3. First(SameKey(c)) = k
  BY <1>2, FirstIn DEF Slots
<1>4. /\ slots' = [slots EXCEPT ![k] = NoConn]
      /\ heap' = [heap EXCEPT ![c] = "freed"]
      /\ Stop(c) /\ buf' = [buf EXCEPT ![c] = <<>>]
  BY <1>1, <1>2, <1>3 DEF Disconnect
<1>5. SockTypeOK /\ heap \in [Conns -> {"none", "live", "freed"}]
  BY DEF IInv, TypeOK, TcpTypeOK
<1>6. c \in Live /\ Live \in SUBSET Conns /\ OwnedBy(Live)
  BY <1>1, SockOwnerIsOwned DEF IInv, MembersLive, Live
<1>7. buf' \in [Conns -> Seq(Tokens)]
  BY <1>1, <1>4, <1>5 DEF SockTypeOK
<1>8. SockTypeOK' /\ \A d \in Live : sock'[d] # NoSock => chip'[sock'[d]] = d
  BY <1>4, <1>5, <1>6, <1>7, StopSafe
<1>9. SockOwner'
  BY <1>4, <1>5, <1>8 DEF SockOwner, Live, isOpen
<1> QED
  BY <1>1, <1>4, <1>8, <1>9

(* connected() on a live object. *)
LEMMA ConnectedKeeps ==
  ASSUME IInv, NEW c \in Conns, heap[c] = "live", ConnectedEffect(c),
         UNCHANGED heap
  PROVE  SockTypeOK' /\ SockOwner'
<1>1. c \in Live /\ Live \in SUBSET Conns /\ OwnedBy(Live) /\ SockTypeOK
  BY SockOwnerIsOwned DEF IInv, Live, TypeOK, TcpTypeOK
<1>2. SockTypeOK' /\ \A d \in Live : sock'[d] # NoSock => chip'[sock'[d]] = d
  BY <1>1, ConnectedSafe
<1> QED
  BY <1>2 DEF SockOwner, Live, isOpen

(* Reading keeps the handles. *)
LEMMA PullKeeps ==
  ASSUME IInv, NEW c \in Conns, NEW rest \in Seq(Tokens), Pull(c, rest),
         UNCHANGED heap
  PROVE  SockTypeOK' /\ SockOwner'
<1>1. SockTypeOK
  BY DEF IInv, TypeOK, TcpTypeOK
<1>2. SockTypeOK' /\ UNCHANGED <<chip, sock>>
  BY <1>1, PullType
<1> QED
  BY <1>2 DEF SockOwner, isOpen, IInv

LEMMA InitInv == Init => IInv
<1> SUFFICES ASSUME Init PROVE IInv
  OBVIOUS
<1>1. TcpTypeOK
  BY NamesAssumption, ScriptsAssumption DEF Init, TcpInit, TcpTypeOK, SockTypeOK
<1>2. TypeOK
  <2>1. hixie \in BOOLEAN /\ beat \in BOOLEAN /\ found \in BOOLEAN /\ newkey \in BOOLEAN
    BY DEF Init
  <2>2. idx \in 1..(MaxClients + 1) /\ scanned \in 1..(MaxClients + 1)
    BY MaxClientsAssumption DEF Init
  <2>3. /\ slots \in [Slots -> Conns \cup {NoConn}]
        /\ pc = "accept" /\ cur = NoConn
        /\ req \in Commands \cup {NoRequest, Garbage}
        /\ handled \in [Conns -> Seq(Commands \cup {Garbage})]
        /\ desync \in [Conns -> BOOLEAN]
    BY DEF Init
  <2> QED
    BY <1>1, <2>1, <2>2, <2>3 DEF TypeOK, ControlTypeOK, PCs
<1>3. SlotsDistinct /\ MembersLive /\ CurInv
  BY DEF Init, SlotsDistinct, MembersLive, Members, CurInv, Slots
<1>4. SockOwner
  BY DEF Init, TcpInit, SockOwner, isOpen
<1> QED
  BY <1>2, <1>3, <1>4 DEF IInv

LEMMA EnvironmentInv ==
  ASSUME IInv, Environment
  PROVE  IInv'
<1> USE DEF Environment, netVars, sockVars, doItVars, ghostVars
<1>1. TypeOK /\ TcpTypeOK /\ SockTypeOK /\ SockOwner
  BY DEF IInv, TypeOK, TcpTypeOK
<1>2. SUFFICES TcpTypeOK' /\ SockOwner' /\ UNCHANGED heap
  BY <1>1 DEF IInv, TypeOK, ControlTypeOK, SlotsDistinct, MembersLive, Members,
              CurInv, Slots
<1>3. CASE \E c \in Conns : PeerConnects(c)
  BY <1>1, <1>3 DEF PeerConnects, TcpTypeOK, SockTypeOK, SockOwner, isOpen
<1>4. ASSUME NEW c \in Conns, PeerSends(c)
      PROVE  TcpTypeOK' /\ SockOwner' /\ UNCHANGED heap
  <2>1. script[c] \in Seq(Tokens) /\ sent[c] + 1 \in 1..Len(script[c])
    BY <1>1, <1>4, ScriptsAssumption DEF PeerSends, TcpTypeOK
  <2>2. script[c][sent[c] + 1] \in Tokens
    BY <2>1, ElementOfSeq
  <2>3. Append(inbox[c], script[c][sent[c] + 1]) \in Seq(Tokens)
    BY <1>1, <2>2 DEF SockTypeOK
  <2> QED
    BY <1>1, <1>4, <2>3 DEF PeerSends, TcpTypeOK, SockTypeOK, SockOwner, isOpen
<1>5. CASE \E c \in Conns : PeerCloses(c)
  BY <1>1, <1>5 DEF PeerCloses, TcpTypeOK, SockTypeOK, SockOwner, isOpen
<1>6. CASE \E s \in Sds : CloseWaitEvent(s)
  BY <1>1, <1>6 DEF CloseWaitEvent, TcpTypeOK, SockTypeOK, SockOwner, isOpen
<1>7. CASE WifiDown \/ WifiUp
  <2>1. drops' \in 0..MaxDrops
    BY <1>1, <1>7, ScriptsAssumption DEF WifiDown, WifiUp, TcpTypeOK
  <2>2. wifi' \in BOOLEAN
    BY <1>7 DEF WifiDown, WifiUp
  <2>3. UNCHANGED <<peer, script, sent, sockVars, heap, lsock, upgraded>>
    BY <1>7 DEF WifiDown, WifiUp
  <2>4. SockTypeOK' /\ SockOwner'
    BY <1>1, <2>3 DEF SockTypeOK, SockOwner, isOpen
  <2> QED
    BY <1>1, <2>1, <2>2, <2>3, <2>4 DEF TcpTypeOK
<1> QED
  BY <1>3, <1>4, <1>5, <1>6, <1>7 DEF Network

(***************************************************************************)
(* Control keeps its type.                                                 *)
(***************************************************************************)
LEMMA StartScanType ==
  ASSUME ControlTypeOK, StartScan
  PROVE  ControlTypeOK'
<1>1. idx' \in 1..(MaxClients + 1)
  BY MaxClientsAssumption DEF StartScan
<1> QED
  BY <1>1 DEF ControlTypeOK, StartScan, PCs

LEMMA NextSlotType ==
  ASSUME ControlTypeOK, idx \in Slots, NextSlot
  PROVE  ControlTypeOK'
<1>1. idx' \in 1..(MaxClients + 1)
  BY MaxClientsAssumption DEF NextSlot, Slots
<1> QED
  BY <1>1 DEF ControlTypeOK, NextSlot, PCs

LEMMA GotoType ==
  ASSUME ControlTypeOK, NEW label \in PCs, Goto(label), cur \in Conns,
         label \notin {"headers", "verdict"} => idx \in Slots
  PROVE  ControlTypeOK'
  BY DEF ControlTypeOK, Goto

(* What the objects and the table have to satisfy when a pass goes on to   *)
(* the next slot: nothing is in hand any more.                             *)
LEMMA NothingInHand ==
  ASSUME pc' = "scan"
  PROVE  CurInv'
  BY DEF CurInv

(***************************************************************************)
(* server->available() and the handshake.                                  *)
(***************************************************************************)
LEMMA AcceptInv ==
  ASSUME IInv,
         NoAccept \/ (\E s \in Sds : Begin(s)) \/ (\E c \in Conns, s \in Sds : Accept(c, s))
  PROVE  IInv'
<1> USE DEF netVars, sockVars, ghostVars
<1>1. TypeOK /\ TcpTypeOK /\ SockTypeOK /\ SockOwner /\ ControlTypeOK /\ MembersLive
  BY DEF IInv, TypeOK, TcpTypeOK
<1>2. CASE NoAccept
  <2>1. ControlTypeOK' /\ CurInv'
    BY <1>1, <1>2, StartScanType, NothingInHand DEF NoAccept, StartScan
  <2>2. TcpTypeOK' /\ SockOwner' /\ UNCHANGED <<heap, slots, hixie, handled, desync>>
    BY <1>1, <1>2 DEF NoAccept, TcpTypeOK, SockTypeOK, SockOwner, isOpen
  <2> QED
    BY <1>1, <2>1, <2>2 DEF IInv, TypeOK, SlotsDistinct, MembersLive, Members
<1>3. ASSUME NEW s \in Sds, Begin(s)
      PROVE  IInv'
  <2>1. ControlTypeOK'
    <3>1. CASE StartScan
      BY <1>1, <3>1, StartScanType
    <3>2. CASE Goto("accept") /\ pc = "accept"
      BY <1>1, <3>2 DEF Goto, ControlTypeOK
    <3> QED
      BY <1>3, <3>1, <3>2 DEF Begin
  <2>2. CurInv'
    BY <1>3 DEF Begin, StartScan, Goto, CurInv
  <2>3. TcpTypeOK' /\ UNCHANGED <<heap, slots, hixie, handled, desync>>
    BY <1>1, <1>3 DEF Begin, TcpTypeOK, SockTypeOK
  <2>4. SockOwner'
    BY <1>1, <1>3, NamesAssumption DEF Begin, SockOwner, isOpen, SockTypeOK
  <2> QED
    BY <1>1, <2>1, <2>2, <2>3, <2>4
       DEF IInv, TypeOK, SlotsDistinct, MembersLive, Members
<1>4. ASSUME NEW c \in Conns, NEW s \in Sds, Accept(c, s)
      PROVE  IInv'
  <2>1. ControlTypeOK'
    BY <1>1, <1>4 DEF Accept, ControlTypeOK, PCs
  <2>2. TcpTypeOK' /\ UNCHANGED <<slots, hixie, handled, desync>>
    BY <1>1, <1>4 DEF Accept, TcpTypeOK, SockTypeOK
  <2>3. SockOwner'
    BY <1>1, <1>4, NamesAssumption DEF Accept, SockOwner, isOpen, SockTypeOK, TcpTypeOK
  <2>4. c \notin Members /\ Members' = Members
    BY <1>1, <1>4 DEF Accept, MembersLive, Members
  <2>5. MembersLive' /\ CurInv'
    BY <1>1, <1>4, <2>4 DEF Accept, MembersLive, CurInv, TcpTypeOK
  <2> QED
    BY <1>1, <2>1, <2>2, <2>3, <2>5 DEF IInv, TypeOK, SlotsDistinct
<1> QED
  BY <1>2, <1>3, <1>4

(* Steps that go on to the loop and change no more than the sockets. *)
LEMMA LeavesObjects ==
  ASSUME IInv, ControlTypeOK', pc' = "scan", SockTypeOK', SockOwner',
         UNCHANGED <<netVars, heap, lsock, upgraded, slots, hixie, ghostVars>>
  PROVE  IInv'
<1> USE DEF netVars, ghostVars
<1>1. TcpTypeOK'
  BY DEF IInv, TypeOK, TcpTypeOK
<1> QED
  BY <1>1, NothingInHand DEF IInv, TypeOK, SlotsDistinct, MembersLive, Members

LEMMA HandshakeInv ==
  ASSUME IInv,
         NewClient \/ IgnoreClient \/ ReadLine \/ EndOfRequest \/ Establish \/ Refuse
  PROVE  IInv'
<1> USE DEF netVars, ghostVars
<1>1. TypeOK /\ TcpTypeOK /\ SockTypeOK /\ SockOwner /\ ControlTypeOK /\ MembersLive
  BY DEF IInv, TypeOK, TcpTypeOK
<1>2. pc \in {"new", "headers", "verdict"}
  BY DEF NewClient, IgnoreClient, ReadLine, EndOfRequest, Establish, Refuse
<1>3. cur \in Conns /\ heap[cur] = "live" /\ cur \notin Members
  BY <1>1, <1>2 DEF IInv, CurInv, ControlTypeOK
<1>4. CASE NewClient
  <2>1. ControlTypeOK'
    BY <1>1, <1>3, <1>4 DEF NewClient, ControlTypeOK, PCs
  <2>2. SockTypeOK' /\ SockOwner'
    BY <1>3, <1>4, ConnectedKeeps DEF NewClient
  <2>3. UNCHANGED <<netVars, heap, lsock, upgraded, slots, ghostVars>>
    BY <1>4 DEF NewClient
  <2>4. CurInv' /\ TcpTypeOK' /\ hixie' \in BOOLEAN
    BY <1>1, <1>3, <1>4, <2>2, <2>3 DEF NewClient, CurInv, TcpTypeOK, Members
  <2> QED
    BY <1>1, <2>1, <2>2, <2>3, <2>4
       DEF IInv, TypeOK, SlotsDistinct, MembersLive, Members
<1>5. CASE IgnoreClient
  <2>1. ControlTypeOK' /\ pc' = "scan"
    BY <1>1, <1>5, StartScanType DEF IgnoreClient, StartScan
  <2>2. SockTypeOK' /\ SockOwner'
    BY <1>3, <1>5, ConnectedKeeps DEF IgnoreClient
  <2> QED
    BY <1>5, <2>1, <2>2, LeavesObjects DEF IgnoreClient
<1>6. CASE ReadLine
  <2>1. Tail(Pulled(cur)) \in Seq(Tokens)
    BY <1>1, <1>3, <1>6, PulledType DEF ReadLine
  <2>2. SockTypeOK' /\ SockOwner'
    BY <1>3, <1>6, <2>1, PullKeeps DEF ReadLine
  <2>3. found' \in BOOLEAN /\ newkey' \in BOOLEAN /\ hixie' \in BOOLEAN
    BY <1>6 DEF ReadLine
  <2>4. UNCHANGED <<netVars, heap, lsock, upgraded, slots, beat, pc, cur, idx,
                    scanned, req, ghostVars>>
    BY <1>6 DEF ReadLine
  <2>5. ControlTypeOK' /\ CurInv' /\ TcpTypeOK'
    BY <1>1, <2>2, <2>3, <2>4 DEF ControlTypeOK, CurInv, IInv, TcpTypeOK, Members
  <2> QED
    BY <1>1, <2>2, <2>3, <2>4, <2>5
       DEF IInv, TypeOK, SlotsDistinct, MembersLive, Members
<1>7. CASE EndOfRequest
  <2> <<>> \in Seq(Tokens)
    OBVIOUS
  <2>1. SockTypeOK' /\ SockOwner'
    BY <1>3, <1>7, PullKeeps DEF EndOfRequest
  <2>2. ControlTypeOK' /\ CurInv'
    BY <1>1, <1>3, <1>7, GotoType DEF EndOfRequest, Goto, CurInv, Members, PCs
  <2>3. TcpTypeOK' /\ UNCHANGED <<heap, slots, hixie, ghostVars>>
    BY <1>1, <1>7, <2>1 DEF EndOfRequest, TcpTypeOK
  <2> QED
    BY <1>1, <2>1, <2>2, <2>3 DEF IInv, TypeOK, SlotsDistinct, MembersLive, Members
<1>8. CASE Establish
  <2>1. ControlTypeOK' /\ pc' = "scan"
    BY <1>1, <1>8, StartScanType DEF Establish, StartScan
  <2>2. SockTypeOK' /\ SockOwner'
    BY <1>3, <1>8, ConnectedKeeps DEF Establish
  <2>3. TcpTypeOK' /\ UNCHANGED <<heap, hixie, ghostVars>>
    BY <1>1, <1>8, <2>2 DEF Establish, TcpTypeOK
  <2> DEFINE k == SlotFor(cur)
  <2>4. slots' = [slots EXCEPT ![k] = cur]
    BY <1>8 DEF Establish
  <2>5. \A i \in Slots : slots[i] # NoConn /\ Key[slots[i]] = Key[cur] => i = k
    <3>1. CASE SameKey(cur) # {}
      <4>1. k \in SameKey(cur)
        BY <3>1, FirstIn DEF SlotFor, SameKey, Slots
      <4> QED
        BY <4>1 DEF SameKey, IInv, SlotsDistinct
    <3>2. CASE SameKey(cur) = {}
      BY <3>2 DEF SameKey
    <3> QED
      BY <3>1, <3>2
  <2> HIDE DEF k
  <2>6. slots' \in [Slots -> Conns \cup {NoConn}]
    BY <1>1, <1>3, <2>4 DEF TypeOK
  <2>7. SlotsDistinct'
    <3> SUFFICES ASSUME NEW i \in Slots, NEW j \in Slots,
                        slots'[i] # NoConn, slots'[j] # NoConn,
                        Key[slots'[i]] = Key[slots'[j]]
                 PROVE  i = j
      BY DEF SlotsDistinct, Slots
    <3>1. slots'[i] = IF i = k THEN cur ELSE slots[i]
      BY <1>1, <2>4 DEF TypeOK
    <3>2. slots'[j] = IF j = k THEN cur ELSE slots[j]
      BY <1>1, <2>4 DEF TypeOK
    <3> QED
      BY <2>5, <3>1, <3>2 DEF IInv, SlotsDistinct
  <2>8. MembersLive'
    BY <1>1, <1>3, <2>3, <2>4 DEF MembersLive, Members, TypeOK, Slots
  <2> QED
    BY <1>1, <2>1, <2>2, <2>3, <2>6, <2>7, <2>8, NothingInHand DEF IInv, TypeOK
<1>9. CASE Refuse
  <2>1. ControlTypeOK' /\ pc' = "scan"
    BY <1>1, <1>9, StartScanType DEF Refuse, StartScan
  <2>2. SockTypeOK' /\ SockOwner'
    BY <1>3, <1>9, ConnectedKeeps DEF Refuse
  <2> QED
    BY <1>9, <2>1, <2>2, LeavesObjects DEF Refuse
<1> QED
  BY <1>4, <1>5, <1>6, <1>7, <1>8, <1>9

(***************************************************************************)
(* The loop over clients[].                                                *)
(***************************************************************************)

(* What disconnectClient() leaves when the loop goes on. *)
LEMMA DisconnectInv ==
  ASSUME IInv, NEW c \in Members, Disconnect(c), ControlTypeOK', CurInv',
         UNCHANGED <<netVars, lsock, upgraded, hixie, ghostVars>>
  PROVE  IInv'
<1> USE DEF netVars, ghostVars
<1>1. PICK k \in Slots : slots[k] = c /\ slots' = [slots EXCEPT ![k] = NoConn]
  BY DisconnectSafe
<1>2. /\ SockTypeOK' /\ SockOwner'
      /\ heap' = [heap EXCEPT ![c] = "freed"]
  BY DisconnectSafe
<1>3. TypeOK /\ TcpTypeOK /\ SlotsDistinct /\ MembersLive
  BY DEF IInv, TypeOK
<1>4. TcpTypeOK'
  BY <1>2, <1>3 DEF TcpTypeOK
<1>5. TypeOK' /\ SlotsDistinct'
  BY <1>1, <1>3, <1>4 DEF TypeOK, SlotsDistinct, Slots
<1>6. MembersLive'
  <2> SUFFICES ASSUME NEW i \in Slots, slots'[i] # NoConn
               PROVE  heap'[slots'[i]] = "live"
    BY DEF MembersLive, Members, Slots
  <2>1. i # k /\ slots'[i] = slots[i] /\ slots[i] \in Conns
    BY <1>1, <1>3 DEF TypeOK
  <2>2. slots[i] # c
    BY <1>1, <1>3, <2>1, NamesAssumption DEF SlotsDistinct, Members
  <2> QED
    BY <1>2, <1>3, <2>1, <2>2 DEF MembersLive, Members, TcpTypeOK
<1> QED
  BY <1>2, <1>5, <1>6 DEF IInv

(* The object the loop has in hand is alive. *)
LEMMA InHand ==
  ASSUME IInv, \/ pc \in {"recheck", "get", "framed", "empty"}
               \/ pc = "send"
  PROVE  cur \in Conns /\ cur \in Members /\ heap[cur] = "live" /\ idx \in Slots
<1>1. cur \in Conns /\ idx \in Slots /\ slots[idx] = cur
  BY DEF IInv, TypeOK, ControlTypeOK, CurInv
<1>2. cur \in Members
  BY <1>1, NamesAssumption DEF Members
<1> QED
  BY <1>1, <1>2 DEF IInv, MembersLive

LEMMA ScanInv ==
  ASSUME IInv, SkipSlot \/ DropClient \/ CheckClient \/ RecheckClient \/ EndPass
  PROVE  IInv'
<1> USE DEF netVars, ghostVars
<1>1. TypeOK /\ TcpTypeOK /\ SockTypeOK /\ SockOwner /\ ControlTypeOK /\ MembersLive
  BY DEF IInv, TypeOK, TcpTypeOK
<1>2. CASE SkipSlot
  <2>1. ControlTypeOK' /\ pc' = "scan"
    BY <1>1, <1>2, NextSlotType DEF SkipSlot, NextSlot
  <2>2. UNCHANGED <<tcpVars, slots, hixie, ghostVars>>
    BY <1>2 DEF SkipSlot
  <2>3. SockTypeOK' /\ SockOwner'
    BY <1>1, <2>2 DEF tcpVars, sockVars, SockTypeOK, SockOwner, isOpen
  <2> QED
    BY <2>1, <2>2, <2>3, LeavesObjects DEF tcpVars
<1>3. CASE DropClient
  <2>1. ControlTypeOK' /\ CurInv'
    BY <1>1, <1>3, NextSlotType, NothingInHand DEF DropClient, NextSlot
  <2>2. slots[idx] \in Members /\ Disconnect(slots[idx])
    BY <1>1, <1>3 DEF DropClient, Members
  <2> QED
    BY <1>3, <2>1, <2>2, DisconnectInv DEF DropClient
<1>4. CASE CheckClient
  <2>1. slots[idx] \in Conns /\ heap[slots[idx]] = "live" /\ idx \in Slots
    BY <1>1, <1>4 DEF CheckClient, TypeOK, MembersLive, Members
  <2>2. SockTypeOK' /\ SockOwner'
    BY <1>4, <2>1, ConnectedKeeps DEF CheckClient
  <2>3. ControlTypeOK'
    BY <1>1, <1>4, <2>1 DEF CheckClient, ControlTypeOK, PCs
  <2>4. CurInv'
    BY <1>4, <2>1 DEF CheckClient, CurInv
  <2>5. TcpTypeOK' /\ UNCHANGED <<heap, slots, hixie, ghostVars>>
    BY <1>1, <1>4, <2>2 DEF CheckClient, TcpTypeOK
  <2> QED
    BY <1>1, <2>2, <2>3, <2>4, <2>5
       DEF IInv, TypeOK, SlotsDistinct, MembersLive, Members
<1>5. CASE RecheckClient
  <2>1. cur \in Conns /\ heap[cur] = "live" /\ idx \in Slots
    BY <1>5, InHand DEF RecheckClient
  <2>2. SockTypeOK' /\ SockOwner'
    BY <1>5, <2>1, ConnectedKeeps DEF RecheckClient
  <2>3. CASE Goto("get")
    <3>1. ControlTypeOK'
      BY <1>1, <2>1, <2>3, GotoType DEF PCs
    <3>2. CurInv'
      BY <1>5, <2>3 DEF RecheckClient, Goto, CurInv, IInv
    <3>3. TcpTypeOK' /\ UNCHANGED <<heap, slots, hixie, ghostVars>>
      BY <1>1, <1>5, <2>2 DEF RecheckClient, TcpTypeOK
    <3> QED
      BY <1>1, <2>2, <3>1, <3>2, <3>3
         DEF IInv, TypeOK, SlotsDistinct, MembersLive, Members
  <2>4. CASE NextSlot
    <3>1. ControlTypeOK' /\ pc' = "scan"
      BY <1>1, <2>1, <2>4, NextSlotType DEF NextSlot
    <3> QED
      BY <1>5, <2>2, <3>1, LeavesObjects DEF RecheckClient
  <2> QED
    BY <1>5, <2>3, <2>4 DEF RecheckClient
<1>6. CASE EndPass
  <2>1. idx' \in 1..(MaxClients + 1)
    BY <1>6, MaxClientsAssumption DEF EndPass
  <2>2. ControlTypeOK'
    BY <1>1, <1>6, <2>1 DEF EndPass, ControlTypeOK, PCs
  <2>3. CurInv'
    BY <1>6 DEF EndPass, CurInv
  <2>4. UNCHANGED <<tcpVars, slots, hixie, ghostVars>>
    BY <1>6 DEF EndPass
  <2>5. TcpTypeOK' /\ SockOwner'
    BY <1>1, <2>4 DEF tcpVars, sockVars, TcpTypeOK, SockTypeOK, SockOwner, isOpen
  <2> QED
    BY <1>1, <2>2, <2>3, <2>4, <2>5
       DEF IInv, TypeOK, SlotsDistinct, MembersLive, Members, tcpVars
<1> QED
  BY <1>2, <1>3, <1>4, <1>5, <1>6

LEMMA ReadInv ==
  ASSUME IInv, ReadFrame \/ ReadGarbage \/ FrameDone \/ ReadNothing
  PROVE  IInv'
<1> USE DEF netVars, ghostVars
<1>1. TypeOK /\ TcpTypeOK /\ SockTypeOK /\ SockOwner /\ ControlTypeOK /\ MembersLive
  BY DEF IInv, TypeOK, TcpTypeOK
<1>2. /\ cur \in Conns /\ heap[cur] = "live" /\ idx \in Slots /\ slots[idx] = cur
      /\ pc \in {"get", "framed"}
  BY InHand DEF ReadFrame, ReadGarbage, FrameDone, ReadNothing, IInv, CurInv
<1>3. Pulled(cur) \in Seq(Tokens)
  BY <1>1, <1>2, PulledType
<1>4. SUFFICES /\ SockTypeOK' /\ SockOwner' /\ ControlTypeOK' /\ CurInv'
               /\ UNCHANGED <<netVars, heap, lsock, upgraded, slots, hixie, handled>>
               /\ desync' \in [Conns -> BOOLEAN]
  BY <1>1 DEF IInv, TypeOK, TcpTypeOK, SlotsDistinct, MembersLive, Members
<1>5. CASE ReadFrame
  <2>1. FrameRest(cur) \in Seq(Tokens) /\ Head(Pulled(cur)) \in Commands
    BY <1>3, <1>5 DEF ReadFrame, FrameRest
  <2>2. SockTypeOK' /\ SockOwner'
    BY <1>2, <1>5, <2>1, PullKeeps DEF ReadFrame
  <2>3. ControlTypeOK' /\ CurInv'
    BY <1>1, <1>2, <1>5, <2>1 DEF ReadFrame, ControlTypeOK, PCs, CurInv
  <2> QED
    BY <1>1, <1>5, <2>2, <2>3 DEF ReadFrame, TypeOK
<1>6. CASE ReadGarbage
  <2>1. PICK n \in 1..Len(Pulled(cur)) :
          Pull(cur, SubSeq(Pulled(cur), n + 1, Len(Pulled(cur))))
    BY <1>6 DEF ReadGarbage
  <2>2. SubSeq(Pulled(cur), n + 1, Len(Pulled(cur))) \in Seq(Tokens)
    BY <1>3, <2>1, SubSeqProperties
  <2>3. SockTypeOK' /\ SockOwner'
    BY <1>2, <1>6, <2>1, <2>2, PullKeeps DEF ReadGarbage
  <2>4. ControlTypeOK' /\ CurInv'
    BY <1>1, <1>2, <1>6 DEF ReadGarbage, ControlTypeOK, PCs, CurInv
  <2> QED
    BY <1>1, <1>2, <1>6, <2>3, <2>4 DEF ReadGarbage, TypeOK
<1>7. CASE FrameDone
  <2>1. SockTypeOK' /\ SockOwner'
    BY <1>2, <1>7, ConnectedKeeps DEF FrameDone
  <2>2. scanned' \in 1..(MaxClients + 1)
    BY <1>7, MaxClientsAssumption DEF FrameDone
  <2>3. pc' \in {"empty", "dfuscan", "call"}
    BY <1>7 DEF FrameDone, AfterFrame
  <2>4. ControlTypeOK'
    BY <1>1, <1>2, <1>7, <2>2, <2>3 DEF FrameDone, ControlTypeOK, PCs
  <2>5. CurInv'
    BY <1>2, <1>7 DEF FrameDone, AfterFrame, CurInv
  <2> QED
    BY <1>1, <1>7, <2>1, <2>4, <2>5 DEF FrameDone, TypeOK
<1>8. CASE ReadNothing
  <2>1. SockTypeOK' /\ SockOwner'
    <3>1. CASE UNCHANGED sockVars
      BY <1>1, <1>8, <3>1 DEF ReadNothing, sockVars, SockTypeOK, SockOwner, isOpen
    <3>2. CASE ConnectedEffect(cur)
      BY <1>2, <1>8, <3>2, ConnectedKeeps DEF ReadNothing
    <3> QED
      BY <1>8, <3>1, <3>2 DEF ReadNothing
  <2>2. ControlTypeOK'
    BY <1>1, <1>2, <1>8, GotoType DEF ReadNothing, PCs
  <2>3. CurInv'
    BY <1>2, <1>8 DEF ReadNothing, Goto, CurInv
  <2> QED
    BY <1>1, <1>8, <2>1, <2>2, <2>3 DEF ReadNothing, TypeOK
<1> QED
  BY <1>5, <1>6, <1>7, <1>8

LEMMA HeartbeatInv ==
  ASSUME IInv, Heartbeat
  PROVE  IInv'
<1>1. cur \in Conns /\ cur \in Members /\ heap[cur] = "live" /\ idx \in Slots
  BY InHand DEF Heartbeat
<1>2. ControlTypeOK' /\ pc' = "scan" /\ CurInv'
  BY <1>1, NextSlotType, NothingInHand DEF Heartbeat, NextSlot, IInv, TypeOK
<1>3. CASE Disconnect(cur)
  BY <1>1, <1>2, <1>3, DisconnectInv DEF Heartbeat
<1>4. CASE UNCHANGED <<slots, heap>> /\ (ConnectedEffect(cur) \/ UNCHANGED sockVars)
  <2>1. SockTypeOK' /\ SockOwner'
    <3>1. CASE UNCHANGED sockVars
      BY <1>4, <3>1
         DEF sockVars, SockTypeOK, SockOwner, isOpen, IInv, TypeOK, TcpTypeOK
    <3>2. CASE ConnectedEffect(cur)
      BY <1>1, <1>4, <3>2, ConnectedKeeps
    <3> QED
      BY <1>4, <3>1, <3>2
  <2> QED
    BY <1>2, <1>4, <2>1, LeavesObjects DEF Heartbeat
<1> QED
  BY <1>3, <1>4 DEF Heartbeat

LEMMA DfuInv ==
  ASSUME IInv, DfuScan \/ DfuScanned
  PROVE  IInv'
<1> USE DEF netVars, ghostVars
<1>1. TypeOK /\ TcpTypeOK /\ SockTypeOK /\ SockOwner /\ ControlTypeOK /\ MembersLive
  BY DEF IInv, TypeOK, TcpTypeOK
<1>2. req = "dfu" /\ cur \in Conns /\ idx \in Slots
  BY <1>1 DEF DfuScan, DfuScanned, IInv, CurInv, ControlTypeOK
<1>3. CASE DfuScan
  <2>1. scanned' \in 1..(MaxClients + 1)
    BY <1>3, MaxClientsAssumption DEF DfuScan, Slots
  <2>2. ControlTypeOK' /\ CurInv'
    BY <1>1, <1>2, <1>3, <2>1 DEF DfuScan, ControlTypeOK, CurInv, PCs
  <2> DEFINE tmp == slots[scanned]
  <2>3. CASE tmp # NoConn /\ Disconnect(tmp)
    <3>1. tmp \in Members
      BY <1>3, <2>3 DEF DfuScan, Members
    <3> QED
      BY <1>3, <2>2, <2>3, <3>1, DisconnectInv DEF DfuScan
  <2>4. CASE UNCHANGED <<sockVars, slots, heap>>
    <3>1. TcpTypeOK' /\ SockOwner' /\ UNCHANGED <<hixie, ghostVars>>
      BY <1>1, <1>3, <2>4
         DEF DfuScan, sockVars, TcpTypeOK, SockTypeOK, SockOwner, isOpen
    <3> QED
      BY <1>1, <2>2, <2>4, <3>1 DEF IInv, TypeOK, SlotsDistinct, MembersLive, Members
  <2>5. CASE tmp # NoConn /\ ConnectedEffect(tmp) /\ UNCHANGED <<slots, heap>>
    <3>1. tmp \in Conns /\ heap[tmp] = "live"
      BY <1>1, <1>3, <2>5 DEF DfuScan, TypeOK, MembersLive, Members
    <3>2. SockTypeOK' /\ SockOwner'
      BY <2>5, <3>1, ConnectedKeeps
    <3>3. TcpTypeOK' /\ UNCHANGED <<hixie, ghostVars>>
      BY <1>1, <1>3, <2>5, <3>2 DEF DfuScan, TcpTypeOK
    <3> QED
      BY <1>1, <2>2, <2>5, <3>2, <3>3
         DEF IInv, TypeOK, SlotsDistinct, MembersLive, Members
  <2> QED
    BY <1>3, <2>3, <2>4, <2>5 DEF DfuScan
<1>4. CASE DfuScanned
  <2>1. ControlTypeOK' /\ CurInv'
    BY <1>1, <1>2, <1>4, GotoType DEF DfuScanned, Goto, CurInv, PCs, NoRequest
  <2>2. UNCHANGED <<tcpVars, slots, hixie, ghostVars>>
    BY <1>4 DEF DfuScanned
  <2>3. TcpTypeOK' /\ SockOwner'
    BY <1>1, <2>2 DEF tcpVars, sockVars, TcpTypeOK, SockTypeOK, SockOwner, isOpen
  <2> QED
    BY <1>1, <2>1, <2>2, <2>3
       DEF IInv, TypeOK, SlotsDistinct, MembersLive, Members, tcpVars
<1> QED
  BY <1>3, <1>4

LEMMA CallInv ==
  ASSUME IInv, CallBack \/ SendResult
  PROVE  IInv'
<1> USE DEF netVars, ghostVars
<1>1. TypeOK /\ TcpTypeOK /\ SockTypeOK /\ SockOwner /\ ControlTypeOK /\ MembersLive
  BY DEF IInv, TypeOK, TcpTypeOK
<1>2. UNCHANGED <<tcpVars, slots, hixie, desync>>
  BY DEF CallBack, SendResult
<1>3. TcpTypeOK' /\ SockOwner'
  BY <1>1, <1>2 DEF tcpVars, sockVars, TcpTypeOK, SockTypeOK, SockOwner, isOpen
<1>4. SUFFICES /\ ControlTypeOK' /\ CurInv'
               /\ handled' \in [Conns -> Seq(Commands \cup {Garbage})]
  BY <1>1, <1>2, <1>3 DEF IInv, TypeOK, SlotsDistinct, MembersLive, Members, tcpVars
<1>5. CASE CallBack
  <2>1. cur \in Conns /\ idx \in Slots /\ req \in Commands \cup {Garbage}
    BY <1>1, <1>5 DEF CallBack, ControlTypeOK, IInv, CurInv
  <2>2. ControlTypeOK'
    BY <1>1, <1>5, <2>1, GotoType DEF CallBack, AfterCall, PCs
  <2>3. CurInv'
    BY <1>2, <1>5 DEF CallBack, AfterCall, Goto, IInv, CurInv
  <2>4. Append(handled[cur], req) \in Seq(Commands \cup {Garbage})
    BY <1>1, <2>1 DEF TypeOK
  <2> QED
    BY <1>1, <1>5, <2>2, <2>3, <2>4 DEF CallBack, TypeOK
<1>6. CASE SendResult
  <2>1. idx \in Slots
    BY <1>6, InHand DEF SendResult
  <2> QED
    BY <1>1, <1>6, <2>1, NextSlotType, NothingInHand DEF SendResult, NextSlot, TypeOK
<1> QED
  BY <1>5, <1>6

(***************************************************************************)
(* The theorems.                                                           *)
(***************************************************************************)
LEMMA NextInv == IInv /\ [Next]_vars => IInv'
<1> SUFFICES ASSUME IInv, [Next]_vars PROVE IInv'
  OBVIOUS
<1>1. CASE UNCHANGED vars
  BY <1>1 DEF vars, tcpVars, netVars, sockVars, doItVars, ghostVars, IInv, TypeOK,
              TcpTypeOK, SockTypeOK, ControlTypeOK, SlotsDistinct, MembersLive,
              Members, SockOwner, isOpen, CurInv
<1>2. CASE DoIt
  BY <1>2, AcceptInv, HandshakeInv, ScanInv, ReadInv, HeartbeatInv, DfuInv, CallInv
     DEF DoIt
<1>3. CASE Environment
  BY <1>3, EnvironmentInv
<1> QED
  BY <1>1, <1>2, <1>3 DEF Next

THEOREM Invariance == Spec => []IInv
  BY InitInv, NextInv, PTL DEF Spec

(* Every variable keeps the values its declaration in the code allows, for *)
(* any number of slots, handles and peers.                                 *)
THEOREM TypesHold == Spec => []TypeOK
<1>1. IInv => TypeOK
  BY DEF IInv
<1> QED
  BY <1>1, Invariance, PTL

(* No two entries of clients[] are equals().                               *)
THEOREM SlotsStayDistinct == Spec => []SlotsDistinct
<1>1. IInv => SlotsDistinct
  BY DEF IInv
<1> QED
  BY <1>1, Invariance, PTL

(* No handle is shared: what a TCPClient reads, answers or closes is its   *)
(* own connection.                                                         *)
THEOREM HandlesAreOwned == Spec => []SockOwner
<1>1. IInv => SockOwner
  BY DEF IInv
<1> QED
  BY <1>1, Invariance, PTL

(* doIt() and clients[] refer to no object that delete has freed.          *)
THEOREM NoObjectUsedAfterFree == Spec => []NoUseAfterFree
<1>1. ASSUME IInv PROVE NoUseAfterFree
  <2>1. UsesCur => heap[cur] = "live"
    BY <1>1, InHand DEF UsesCur, IInv, CurInv
  <2> QED
    BY <1>1, <2>1 DEF IInv, MembersLive, NoUseAfterFree
<1> QED
  BY <1>1, Invariance, PTL
=============================================================================
