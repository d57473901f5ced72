---------------------------- MODULE TcpSockets ----------------------------
(***************************************************************************)
(* The TCP layer under the WebSocket server: the CC3000's socket table,    *)
(* the driver's word of socket statuses, and the TCPClient objects that    *)
(* TCPServer::available() allocates with `new`.                            *)
(*                                                                         *)
(* A connection c is one TCP connection of a peer.  The firmware makes at  *)
(* most one TCPClient object for it, so c also names that object.  Bytes   *)
(* are abstracted to tokens: a header line or a whole WebSocket frame.     *)
(*                                                                         *)
(* This module holds the state, what the chip and the peers do on their    *)
(* own, and the TCPClient methods as operators: predicates for what a call *)
(* returns and action fragments for what it changes.                       *)
(***************************************************************************)
EXTENDS Naturals, Sequences, SequencesExt

CONSTANTS Conns,      \* the TCP connections peers may open
          Sds,        \* the socket handles of the CC3000
          NoConn,     \* a NULL TCPClient pointer
          NoSock,     \* MAX_SOCK_NUM: a closed TCPClient or TCPServer
          Free,       \* a handle the chip has not given out
          Listener,   \* a handle made by TCPServer::begin()
          Key,        \* ip[0..4]: the address and low port byte of a peer
          Scripts,    \* what a peer may send, token by token
          MaxDrops    \* bound: how often the network goes away

Lines    == {"upgrade", "hixie", "key", "other"}
Commands == {"read", "write", "dfu"}
Tokens   == Lines \cup Commands

ASSUME NamesAssumption ==
  /\ NoConn \notin Conns /\ NoSock \notin Sds
  /\ Free \notin Conns /\ Listener \notin Conns /\ Free # Listener

ASSUME ScriptsAssumption ==
  /\ Scripts \subseteq Seq(Tokens)
  /\ MaxDrops \in Nat

VARIABLES
  wifi,     \* WiFi.status() == WIFI_ON
  drops,    \* outages so far
  peer,     \* the peer's end of c: "idle", "open" or "closed"
  script,   \* the tokens the peer of c sends
  sent,     \* how many of them it has sent
  inbox,    \* tokens of c that the chip holds
  chip,     \* the chip's socket table
  active,   \* socket_active_status: TRUE for SOCKET_STATUS_ACTIVE
  sock,     \* TCPClient::_sock
  buf,      \* TCPClient::_buffer from _offset to _total
  heap,     \* the object of c: "none", "live" or "freed"
  lsock,    \* TCPServer::_sock
  upgraded  \* c was answered "101 Web Socket Protocol Handshake"

netVars == <<wifi, drops, peer, script, sent>>
sockVars == <<inbox, chip, active, sock, buf>>
tcpVars == <<netVars, sockVars, heap, lsock, upgraded>>

SockTypeOK ==
  /\ inbox \in [Conns -> Seq(Tokens)]
  /\ chip \in [Sds -> Conns \cup {Free, Listener}]
  /\ active \in [Sds -> BOOLEAN]
  /\ sock \in [Conns -> Sds \cup {NoSock}]
  /\ buf \in [Conns -> Seq(Tokens)]

TcpTypeOK ==
  /\ wifi \in BOOLEAN
  /\ drops \in 0..MaxDrops
  /\ peer \in [Conns -> {"idle", "open", "closed"}]
  /\ script \in [Conns -> Scripts]
  /\ sent \in [Conns -> Nat]
  /\ SockTypeOK
  /\ heap \in [Conns -> {"none", "live", "freed"}]
  /\ lsock \in Sds \cup {NoSock}
  /\ upgraded \in [Conns -> BOOLEAN]

(* setup() has called server.begin() with the network up. *)
TcpInit ==
  /\ wifi = TRUE
  /\ drops = 0
  /\ peer = [c \in Conns |-> "idle"]
  /\ script \in [Conns -> Scripts]
  /\ sent = [c \in Conns |-> 0]
  /\ inbox = [c \in Conns |-> <<>>]
  /\ lsock \in Sds
  /\ chip = [s \in Sds |-> IF s = lsock THEN Listener ELSE Free]
  /\ active = [s \in Sds |-> s = lsock]
  /\ sock = [c \in Conns |-> NoSock]
  /\ buf = [c \in Conns |-> <<>>]
  /\ heap = [c \in Conns |-> "none"]
  /\ upgraded = [c \in Conns |-> FALSE]

(***************************************************************************)
(* The peers, the chip and the network.                                    *)
(***************************************************************************)
OnChip(c) == \E s \in Sds : chip[s] = c

PeerConnects(c) ==
  /\ wifi /\ peer[c] = "idle"
  /\ peer' = [peer EXCEPT ![c] = "open"]
  /\ UNCHANGED <<wifi, drops, script, sent, sockVars, heap, lsock, upgraded>>

(* The chip queues what arrives, before the firmware accepts c too.  A     *)
(* client sends no frame before it has read the handshake's answer.        *)
PeerSends(c) ==
  /\ wifi /\ peer[c] = "open" /\ sent[c] < Len(script[c])
  /\ heap[c] = "none" \/ OnChip(c)
  /\ LET token == script[c][sent[c] + 1]
     IN  /\ token \in Commands => upgraded[c]
         /\ inbox' = [inbox EXCEPT ![c] = Append(@, token)]
  /\ sent' = [sent EXCEPT ![c] = @ + 1]
  /\ UNCHANGED <<wifi, drops, peer, script, chip, active, sock, buf, heap,
                 lsock, upgraded>>

PeerCloses(c) ==
  /\ wifi /\ peer[c] = "open"
  /\ peer' = [peer EXCEPT ![c] = "closed"]
  /\ UNCHANGED <<wifi, drops, script, sent, sockVars, heap, lsock, upgraded>>

(* HCI_EVNT_BSD_TCP_CLOSE_WAIT reaches WLAN_Async_Callback. *)
CloseWaitEvent(s) ==
  /\ chip[s] \in Conns /\ active[s]
  /\ peer[chip[s]] = "closed"
  /\ active' = [active EXCEPT ![s] = FALSE]
  /\ UNCHANGED <<netVars, inbox, chip, sock, buf, heap, lsock, upgraded>>

(* HCI_EVNT_WLAN_UNSOL_DISCONNECT clears WLAN_DHCP ... *)
WifiDown ==
  /\ wifi /\ drops < MaxDrops
  /\ wifi' = FALSE
  /\ drops' = drops + 1
  /\ UNCHANGED <<peer, script, sent, sockVars, heap, lsock, upgraded>>

(* ... and HCI_EVNT_WLAN_UNSOL_DHCP sets it again. *)
WifiUp ==
  /\ ~wifi
  /\ wifi' = TRUE
  /\ UNCHANGED <<drops, peer, script, sent, sockVars, heap, lsock, upgraded>>

Network ==
  \/ \E c \in Conns : PeerConnects(c) \/ PeerSends(c) \/ PeerCloses(c)
  \/ \E s \in Sds : CloseWaitEvent(s)
  \/ WifiDown
  \/ WifiUp

(***************************************************************************)
(* TCPClient.                                                              *)
(***************************************************************************)
isOpen(c) == sock[c] # NoSock

\* Slip: CLOSE_WAIT is not looked at.
StatusIgnoresClose(c) == isOpen(c) /\ wifi

(* status(), which is also operator bool. *)
Status(c) == isOpen(c) /\ wifi /\ active[sock[c]]

(* What the chip holds for the handle in _sock. *)
ChipData(c) ==
  IF isOpen(c) /\ chip[sock[c]] \in Conns THEN inbox[chip[sock[c]]] ELSE <<>>

(* available(): what can be read once it has looked at the chip. *)
Pulled(c) == IF wifi /\ isOpen(c) THEN buf[c] \o ChipData(c) ELSE buf[c]

(* inbox after available() or closesocket() has emptied the chip's queue. *)
InboxTaken(c) ==
  IF isOpen(c) THEN [d \in Conns |-> IF d = chip[sock[c]] THEN <<>> ELSE inbox[d]]
  ELSE inbox

(* available(), after which `rest` is what the object's buffer holds. *)
Pull(c, rest) ==
  /\ buf' = [buf EXCEPT ![c] = rest]
  /\ inbox' = IF wifi THEN InboxTaken(c) ELSE inbox
  /\ UNCHANGED <<chip, active, sock>>

\* Slip: stop() leaves the handle in _sock.
StopKeepsHandle(c) ==
  /\ UNCHANGED sock
  /\ IF isOpen(c)
     THEN /\ chip' = [chip EXCEPT ![sock[c]] = Free]
          /\ active' = [active EXCEPT ![sock[c]] = FALSE]
          /\ inbox' = InboxTaken(c)
     ELSE UNCHANGED <<chip, active, inbox>>

(* stop(): closesocket(), and the object forgets the handle. *)
Stop(c) ==
  /\ sock' = [sock EXCEPT ![c] = NoSock]
  /\ IF isOpen(c)
     THEN /\ chip' = [chip EXCEPT ![sock[c]] = Free]
          /\ active' = [active EXCEPT ![sock[c]] = FALSE]
          /\ inbox' = InboxTaken(c)
     ELSE UNCHANGED <<chip, active, inbox>>

(* In CLOSE_WAIT with an empty buffer connected() has to ask the chip. *)
MustAsk(c) ==
  ~Status(c) /\ buf[c] = <<>> /\ isOpen(c) /\ ~active[sock[c]]

\* Slip: connected() does not try the chip in CLOSE_WAIT.
ConnectedLocally(c) == Status(c) \/ buf[c] # <<>>

(* What connected() returns ... *)
Connected(c) ==
  \/ Status(c)
  \/ buf[c] # <<>>
  \/ MustAsk(c) /\ Pulled(c) # <<>>

(* ... and what it does: pull the last data in, or close our side. *)
ConnectedEffect(c) ==
  IF ~MustAsk(c) THEN UNCHANGED sockVars
  ELSE IF Pulled(c) # <<>> THEN Pull(c, Pulled(c))
  ELSE Stop(c) /\ UNCHANGED buf
=============================================================================
