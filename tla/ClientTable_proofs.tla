------------------------ MODULE ClientTable_proofs ------------------------
(***************************************************************************)
(* The server keeps what it promises its clients, for every number of      *)
(* slots, handles and peers: who is established stays until gone, no       *)
(* request is lost, repeated or reordered, clients[] with the requests     *)
(* executed is the table of module ClientTable, no client holds up a pass, *)
(* and clients with keys of their own keep their places.                   *)
(***************************************************************************)
EXTENDS WebSocketServer_proofs, FiniteSetTheorems

(* c has closed, or the network has been away. *)
Gone(c) == peer[c] = "closed" \/ drops > 0

(* The chip's table names the one object that holds the handle; a handle   *)
(* that is not active, like an object without one, is of a connection that *)
(* is gone.                                                                *)
HandleInv ==
  /\ ~wifi => drops > 0
  /\ lsock # NoSock => chip[lsock] = Listener
  /\ \A s \in Sds : chip[s] \in Conns =>
       /\ sock[chip[s]] = s
       /\ heap[chip[s]] # "none"
       /\ active[s] \/ Gone(chip[s])
  /\ \A c \in Conns : heap[c] = "live" /\ ~isOpen(c) => Gone(c)

(* Only the end of a handshake that found its slot makes a member, once.   *)
UpgradeInv ==
  /\ \A c \in Conns : heap[c] = "none" => ~upgraded[c]
  /\ \A c \in Members : upgraded[c]
  /\ pc \in {"new", "headers", "verdict"} => ~upgraded[cur]
  /\ pc \in {"headers", "verdict"} => HasSlot(cur)

(* The tokens of c that the firmware or the chip holds are in order what   *)
(* was sent and not yet executed; but what an outage cost is missing at    *)
(* the end, and then the chip has closed the connection.                   *)
Lossless(c) == drops = 0 \/ heap[c] = "none" \/ OnChip(c)

Held(c) == Requests(buf[c]) \o Requests(inbox[c])

Delivered(c) ==
  /\ ~upgraded[c] => Requests(buf[c]) = <<>> /\ Requests(inbox[c]) = <<>>
  /\ ~desync[c] =>
       \E lost \in Seq(Commands) :
         /\ Executed(c) \o (Held(c) \o lost) = Sent(c)
         /\ Lossless(c) => lost = <<>>

DeliveryInv == \A c \in Conns : Delivered(c)

SentInv == \A c \in Conns : sent[c] <= Len(script[c])

TableInv == IInv /\ HandleInv /\ UpgradeInv /\ DeliveryInv /\ SentInv

(***************************************************************************)
(* Requests(): the recursive function it is defined by exists, filters     *)
(* token by token, and distributes over \o.  Each proof looks at the first *)
(* number for which the claim would fail.                                  *)
(***************************************************************************)

(* A set of numbers that has an element has a least one. *)
LEMMA Least ==
  ASSUME NEW S \in SUBSET Nat, S # {}
  PROVE  \E i \in S : \A j \in S : i <= j
<1>1. PICK i \in S : \A j \in S : ~ (<<j, i>> \in Below)
  BY BelowWellFounded, WFMin
<1>2. ASSUME NEW j \in S
      PROVE  i <= j
  <2>1. i \in Nat /\ j \in Nat /\ <<j, i>> \in Nat \X Nat
    OBVIOUS
  <2>2. ~(<<j, i>>[1] < <<j, i>>[2])
    BY <1>1, <2>1 DEF Below
  <2> QED
    BY <2>1, <2>2
<1> QED
  BY <1>2

(* Induction over the numbers up to n, as a statement about a set. *)
LEMMA UpTo ==
  ASSUME NEW n \in Nat, NEW S \in SUBSET Nat,
         0 \in S, \A i \in 1 .. n : i - 1 \in S => i \in S
  PROVE  0 .. n \subseteq S
<1>1. SUFFICES ASSUME (0 .. n) \ S # {} PROVE FALSE
  OBVIOUS
<1>2. (0 .. n) \ S \in SUBSET Nat
  OBVIOUS
<1>3. PICK i \in (0 .. n) \ S : \A j \in (0 .. n) \ S : i <= j
  BY <1>1, <1>2, Least
<1>4. i # 0 /\ i \in 1 .. n
  OBVIOUS
<1>5. i - 1 \in S
  <2>1. i - 1 \in 0 .. n /\ ~(i <= i - 1)
    BY <1>4
  <2> QED
    BY <1>3, <2>1
<1> QED
  BY <1>3, <1>4, <1>5

(* One token more: kept when it is a request. *)
Kept(seq, token) == IF token \in Commands THEN Append(seq, token) ELSE seq

Filters(f, tokens) ==
  \A n \in 0 .. Len(tokens) :
    f[n] = IF n = 0 THEN <<>> ELSE Kept(f[n - 1], tokens[n])

LEMMA KeptType ==
  ASSUME NEW s \in Seq(Commands), NEW token
  PROVE  Kept(s, token) \in Seq(Commands)
  BY AppendProperties DEF Kept

LEMMA FilterExists ==
  ASSUME NEW s \in Seq(Tokens)
  PROVE  \E f \in [0 .. Len(s) -> Seq(Commands)] : Filters(f, s)
<1> DEFINE Good(f, m) ==
      \A n \in 0 .. m : f[n] = IF n = 0 THEN <<>> ELSE Kept(f[n - 1], s[n])
<1> DEFINE S == {m \in Nat : \E f \in [0 .. m -> Seq(Commands)] : Good(f, m)}
<1>1. Len(s) \in Nat
  BY LenProperties
<1>2. 0 \in S
  <2> DEFINE f == [n \in 0 .. 0 |-> <<>>]
  <2>1. f \in [0 .. 0 -> Seq(Commands)]
    BY EmptySeq
  <2>2. Good(f, 0)
    OBVIOUS
  <2> QED
    BY <2>1, <2>2
<1>3. ASSUME NEW i \in 1 .. Len(s), i - 1 \in S
      PROVE  i \in S
  <2>1. PICK g \in [0 .. (i - 1) -> Seq(Commands)] : Good(g, i - 1)
    BY <1>3
  <2> DEFINE f == [n \in 0 .. i |-> IF n = i THEN Kept(g[i - 1], s[i]) ELSE g[n]]
  <2>2. i \in Nat /\ i - 1 \in 0 .. (i - 1) /\ g[i - 1] \in Seq(Commands)
    BY <1>1
  <2>3. Kept(g[i - 1], s[i]) \in Seq(Commands)
    BY <2>2, KeptType
  <2>4. f \in [0 .. i -> Seq(Commands)]
    BY <2>2, <2>3
  <2>5. ASSUME NEW n \in 0 .. i
        PROVE  f[n] = IF n = 0 THEN <<>> ELSE Kept(f[n - 1], s[n])
    <3>1. CASE n = i
      BY <2>2, <3>1
    <3>2. CASE n # i
      <4>1. n \in 0 .. (i - 1) /\ f[n] = g[n]
        BY <2>2, <3>2
      <4>2. n # 0 => n - 1 \in 0 .. i /\ f[n - 1] = g[n - 1]
        BY <2>2, <3>2
      <4>3. g[n] = IF n = 0 THEN <<>> ELSE Kept(g[n - 1], s[n])
        BY <2>1, <4>1
      <4> QED
        BY <4>1, <4>2, <4>3
    <3> QED
      BY <3>1, <3>2
  <2>6. Good(f, i)
    BY <2>5
  <2> QED
    BY <2>2, <2>4, <2>6
<1> HIDE DEF S
<1>4. 0 .. Len(s) \subseteq S
  <2>1. S \in SUBSET Nat
    BY DEF S
  <2> QED
    BY <1>1, <1>2, <1>3, <2>1, UpTo
<1>5. Len(s) \in S
  BY <1>1, <1>4
<1> QED
  BY <1>5 DEF S, Filters

(* What the recursive function in Requests() is. *)
LEMMA RequestsFilter ==
  ASSUME NEW s \in Seq(Tokens)
  PROVE  \E f : /\ DOMAIN f = 0 .. Len(s)
               /\ Filters(f, s)
               /\ Requests(s) = f[Len(s)]
<1> DEFINE Step(f) == [n \in 0 .. Len(s) |->
                         IF n = 0 THEN <<>>
                         ELSE IF s[n] \in Commands THEN Append(f[n - 1], s[n])
                         ELSE f[n - 1]]
<1> DEFINE F == CHOOSE f : f = Step(f)
<1>1. PICK g \in [0 .. Len(s) -> Seq(Commands)] : Filters(g, s)
  BY FilterExists
<1>2. g = Step(g)
  BY <1>1 DEF Filters, Kept
<1>3. F = Step(F)
  BY <1>2
<1>4. Requests(s) = F[Len(s)]
  BY DEF Requests
<1> HIDE DEF F
<1>5. DOMAIN F = 0 .. Len(s)
  BY <1>3
<1>6. Filters(F, s)
  BY <1>3 DEF Filters, Kept
<1> QED
  BY <1>4, <1>5, <1>6

(* A filter computes sequences of requests, and those of a longer sequence *)
(* agree with those of a shorter one that it begins with.                  *)
LEMMA FilterType ==
  ASSUME NEW s \in Seq(Tokens), NEW f, Filters(f, s)
  PROVE  f[Len(s)] \in Seq(Commands)
<1> DEFINE S == {n \in Nat : f[n] \in Seq(Commands)}
<1>1. Len(s) \in Nat
  BY LenProperties
<1>2. 0 \in S
  <2>1. 0 \in 0 .. Len(s)
    BY <1>1
  <2>2. f[0] = <<>>
    BY <2>1 DEF Filters
  <2> QED
    BY <2>2, EmptySeq
<1>3. ASSUME NEW i \in 1 .. Len(s), i - 1 \in S
      PROVE  i \in S
  <2>1. i \in 0 .. Len(s) /\ i # 0 /\ f[i - 1] \in Seq(Commands)
    BY <1>3
  <2>2. f[i] = Kept(f[i - 1], s[i])
    BY <2>1 DEF Filters
  <2> QED
    BY <2>1, <2>2, KeptType
<1> HIDE DEF S
<1>4. 0 .. Len(s) \subseteq S
  <2>1. S \in SUBSET Nat
    BY DEF S
  <2> QED
    BY <1>1, <1>2, <1>3, <2>1, UpTo
<1> QED
  BY <1>1, <1>4 DEF S

LEMMA FilterAgrees ==
  ASSUME NEW s \in Seq(Tokens), NEW t \in Seq(Tokens), Len(s) <= Len(t),
         \A i \in 1 .. Len(s) : s[i] = t[i],
         NEW f, NEW g, Filters(f, s), Filters(g, t)
  PROVE  f[Len(s)] = g[Len(s)]
<1> DEFINE S == {n \in Nat : f[n] = g[n]}
<1>1. Len(s) \in Nat /\ Len(t) \in Nat
  BY LenProperties
<1>2. 0 \in S
  <2>1. 0 \in 0 .. Len(s) /\ 0 \in 0 .. Len(t)
    BY <1>1
  <2> QED
    BY <2>1 DEF Filters
<1>3. ASSUME NEW i \in 1 .. Len(s), i - 1 \in S
      PROVE  i \in S
  <2>1. i \in 0 .. Len(s) /\ i \in 0 .. Len(t) /\ i # 0 /\ f[i - 1] = g[i - 1]
    BY <1>1, <1>3
  <2>2. f[i] = Kept(f[i - 1], s[i]) /\ g[i] = Kept(g[i - 1], t[i])
    BY <2>1 DEF Filters
  <2> QED
    BY <2>1, <2>2
<1> HIDE DEF S
<1>4. 0 .. Len(s) \subseteq S
  <2>1. S \in SUBSET Nat
    BY DEF S
  <2> QED
    BY <1>1, <1>2, <1>3, <2>1, UpTo
<1> QED
  BY <1>1, <1>4 DEF S

(* The requests of no token, and of one token more. *)
LEMMA RequestsType ==
  ASSUME NEW s \in Seq(Tokens)
  PROVE  Requests(s) \in Seq(Commands)
  BY RequestsFilter, FilterType

LEMMA RequestsEmpty == Requests(<<>>) = <<>>
<1>1. <<>> \in Seq(Tokens) /\ Len(<<>>) = 0
  BY EmptySeq
<1>2. PICK f : Filters(f, <<>>) /\ Requests(<<>>) = f[0]
  BY <1>1, RequestsFilter
<1> QED
  BY <1>1, <1>2 DEF Filters

LEMMA RequestsAppend ==
  ASSUME NEW s \in Seq(Tokens), NEW token \in Tokens
  PROVE  Requests(Append(s, token)) = Kept(Requests(s), token)
<1> DEFINE t == Append(s, token)
<1>1. /\ t \in Seq(Tokens) /\ Len(t) = Len(s) + 1 /\ Len(s) \in Nat
      /\ \A i \in 1 .. Len(s) : s[i] = t[i]
      /\ t[Len(s) + 1] = token
  BY AppendProperties, LenProperties
<1> HIDE DEF t
<1>2. PICK f : Filters(f, s) /\ Requests(s) = f[Len(s)]
  BY RequestsFilter
<1>3. PICK g : Filters(g, t) /\ Requests(t) = g[Len(t)]
  BY <1>1, RequestsFilter
<1>4. f[Len(s)] = g[Len(s)]
  BY <1>1, <1>2, <1>3, FilterAgrees
<1>5. g[Len(s) + 1] = Kept(g[Len(s)], t[Len(s) + 1])
  <2>1. Len(s) + 1 \in 0 .. Len(t) /\ Len(s) + 1 # 0 /\ (Len(s) + 1) - 1 = Len(s)
    BY <1>1
  <2> QED
    BY <1>3, <2>1 DEF Filters
<1> QED
  BY <1>1, <1>2, <1>3, <1>4, <1>5 DEF t

(* Filtering distributes over concatenation. *)
LEMMA KeptConcat ==
  ASSUME NEW s \in Seq(Commands), NEW t \in Seq(Commands), NEW token
  PROVE  Kept(s \o t, token) = s \o Kept(t, token)
<1>1. CASE token \in Commands
  <2>1. s \o Append(t, token) = Append(s \o t, token)
    <3>1. Append(t, token) = t \o <<token>> /\ <<token>> \in Seq(Commands)
      BY <1>1, AppendIsConcat
    <3>2. s \o t \in Seq(Commands)
      BY ConcatProperties
    <3>3. Append(s \o t, token) = (s \o t) \o <<token>>
      BY <1>1, <3>2, AppendIsConcat
    <3> QED
      BY <3>1, <3>3, ConcatAssociative, SMTT(30)
  <2> QED
    BY <1>1, <2>1 DEF Kept
<1>2. CASE token \notin Commands
  BY <1>2 DEF Kept
<1> QED
  BY <1>1, <1>2

LEMMA RequestsConcat ==
  ASSUME NEW s \in Seq(Tokens), NEW t \in Seq(Tokens)
  PROVE  Requests(s \o t) = Requests(s) \o Requests(t)
<1> DEFINE u(n) == SubSeq(t, 1, n)
<1> DEFINE S == {n \in Nat : Requests(s \o u(n)) = Requests(s) \o Requests(u(n))}
<1>1. Len(t) \in Nat
  BY LenProperties
<1>2. 0 \in S
  <2>1. u(0) = <<>>
    BY SubSeqEmpty
  <2>2. s \o <<>> = s
    BY ConcatEmptySeq
  <2>3. Requests(s) \o <<>> = Requests(s)
    BY RequestsType, ConcatEmptySeq
  <2> QED
    BY <2>1, <2>2, <2>3, RequestsEmpty
<1>3. ASSUME NEW i \in 1 .. Len(t), i - 1 \in S
      PROVE  i \in S
  <2>1. i \in Nat /\ t[i] \in Tokens
    BY <1>1, ElementOfSeq
  <2>2. u(i - 1) \in Seq(Tokens)
    BY <1>1, ElementOfSeq, SubSeqProperties
  <2>3. u(i) = Append(u(i - 1), t[i])
    <3>1. u(i) = u(i - 1) \o <<t[i]>>
      BY <1>1, SubSeqRecursiveSecond
    <3> QED
      BY <2>1, <2>2, <3>1, AppendIsConcat
  <2> HIDE DEF u
  <2>4. s \o u(i) = Append(s \o u(i - 1), t[i])
    <3>1. u(i) = u(i - 1) \o <<t[i]>> /\ <<t[i]>> \in Seq(Tokens)
      BY <2>1, <2>2, <2>3, AppendIsConcat
    <3>2. s \o u(i - 1) \in Seq(Tokens)
      BY <2>2, ConcatProperties
    <3>3. s \in Seq(Tokens) /\ u(i - 1) \in Seq(Tokens)
      BY <2>2
    <3>4. (s \o u(i - 1)) \o <<t[i]>> = s \o (u(i - 1) \o <<t[i]>>)
      <4> HIDE DEF u
      <4> DEFINE v == u(i - 1)
                 w == <<t[i]>>
      <4>1. s \in Seq(Tokens) /\ v \in Seq(Tokens) /\ w \in Seq(Tokens)
        BY <3>1, <3>3
      <4> HIDE DEF v, w
      <4>2. (s \o v) \o w = s \o (v \o w)
        BY <4>1, ConcatAssociative, SMTT(30)
      <4> QED
        BY <4>2 DEF v, w
    <3> QED
      BY <2>1, <3>1, <3>2, <3>4, AppendIsConcat
  <2>5. s \o u(i - 1) \in Seq(Tokens)
    BY <2>2, ConcatProperties
  <2>6. Requests(s \o u(i)) = Kept(Requests(s \o u(i - 1)), t[i])
    BY <2>1, <2>4, <2>5, RequestsAppend
  <2>7. Requests(u(i)) = Kept(Requests(u(i - 1)), t[i])
    BY <2>1, <2>2, <2>3, RequestsAppend
  <2>8. Requests(s \o u(i - 1)) = Requests(s) \o Requests(u(i - 1))
    BY <1>3
  <2>9. Requests(s) \in Seq(Commands) /\ Requests(u(i - 1)) \in Seq(Commands)
    BY <2>2, RequestsType
  <2>10. Kept(Requests(s) \o Requests(u(i - 1)), t[i])
           = Requests(s) \o Kept(Requests(u(i - 1)), t[i])
    BY <2>9, KeptConcat
  <2>11. Requests(s \o u(i)) = Requests(s) \o Requests(u(i))
    BY <2>6, <2>7, <2>8, <2>10
  <2> QED
    BY <2>1, <2>11
<1> HIDE DEF S
<1>4. 0 .. Len(t) \subseteq S
  <2>1. S \in SUBSET Nat
    BY DEF S
  <2> QED
    BY <1>1, <1>2, <1>3, <2>1, UpTo
<1>5. Len(t) \in S
  BY <1>1, <1>4
<1> QED
  BY <1>5, SubSeqFull DEF S

(* What is read first is executed first. *)
LEMMA RequestsHead ==
  ASSUME NEW s \in Seq(Tokens), s # <<>>
  PROVE  Requests(s) = Kept(<<>>, Head(s)) \o Requests(Tail(s))
<1>1. Head(s) \in Tokens /\ Tail(s) \in Seq(Tokens)
  BY HeadTailProperties
<1>2. s = <<Head(s)>> \o Tail(s)
  <2>1. <<Head(s)>> \in Seq(Tokens) /\ Len(<<Head(s)>>) = 1
    BY <1>1
  <2>2. <<Head(s)>> \o Tail(s) \in Seq(Tokens)
    BY <1>1, <2>1, ConcatProperties
  <2>3. Len(s) \in Nat /\ Len(s) # 0 /\ Len(Tail(s)) = Len(s) - 1
    BY HeadTailProperties, EmptySeq, LenProperties
  <2>4. Len(<<Head(s)>> \o Tail(s)) = Len(s)
    BY <1>1, <2>1, <2>3, ConcatProperties
  <2>5. ASSUME NEW i \in 1 .. Len(s)
        PROVE  s[i] = (<<Head(s)>> \o Tail(s))[i]
    <3>1. (<<Head(s)>> \o Tail(s))[i] = IF i <= 1 THEN Head(s) ELSE Tail(s)[i - 1]
      BY <1>1, <2>1, <2>3, ConcatProperties
    <3>2. i > 1 => Tail(s)[i - 1] = s[i]
      <4>1. SUFFICES ASSUME i > 1 PROVE Tail(s)[i - 1] = s[i]
        OBVIOUS
      <4>2. i - 1 \in 1 .. Len(Tail(s)) /\ (i - 1) + 1 = i
        BY <2>3, <4>1
      <4> QED
        BY <4>2, HeadTailProperties
    <3>3. Head(s) = s[1]
      OBVIOUS
    <3> QED
      BY <2>3, <3>1, <3>2, <3>3
  <2> QED
    BY <2>2, <2>4, <2>5, SeqEqual
<1>3. <<Head(s)>> \in Seq(Tokens) /\ <<>> \in Seq(Tokens)
  BY <1>1
<1>4. Requests(<<Head(s)>>) = Kept(<<>>, Head(s))
  <2>1. <<Head(s)>> = Append(<<>>, Head(s))
    OBVIOUS
  <2> QED
    BY <1>1, <1>3, <2>1, RequestsAppend, RequestsEmpty
<1> QED
  BY <1>1, <1>2, <1>3, <1>4, RequestsConcat

(***************************************************************************)
(* What a step of doIt() does to the sockets: nothing, ask connected() of  *)
(* an object, read from one, drop one that is gone, or accept().           *)
(***************************************************************************)
Asks(c) ==
  /\ heap[c] = "live" /\ ConnectedEffect(c)
  /\ UNCHANGED <<netVars, heap, lsock>>

Reads(c) ==
  /\ heap[c] = "live" /\ \E rest \in Seq(Tokens) : Pull(c, rest)
  /\ UNCHANGED <<netVars, heap, lsock>>

Drops(c) ==
  /\ c \in Members /\ ~Connected(c) /\ Disconnect(c)
  /\ UNCHANGED <<netVars, lsock>>

Reading == ReadLine \/ EndOfRequest \/ ReadFrame \/ ReadGarbage

Quiet == UNCHANGED <<netVars, sockVars, heap, lsock>>

Accepts ==
  \/ NoAccept
  \/ \E s \in Sds : Begin(s)
  \/ \E c \in Conns, s \in Sds : Accept(c, s)

LEMMA StepKinds ==
  ASSUME IInv, DoIt
  PROVE  \/ Quiet \/ Accepts
         \/ \E c \in Conns : Asks(c) \/ Drops(c)
         \/ Reading /\ \E c \in Conns : Reads(c)
<1>1. CASE Accepts
  BY <1>1
<1>2. CASE SkipSlot \/ EndPass \/ DfuScanned \/ CallBack \/ SendResult
  <2>1. UNCHANGED tcpVars
    BY <1>2 DEF SkipSlot, EndPass, DfuScanned, CallBack, SendResult
  <2> QED
    BY <2>1 DEF tcpVars, Quiet
<1>3. CASE NewClient \/ IgnoreClient \/ Establish \/ Refuse
  <2>1. cur \in Conns /\ heap[cur] = "live"
    BY <1>3 DEF NewClient, IgnoreClient, Establish, Refuse, IInv, TypeOK, ControlTypeOK,
                CurInv
  <2>2. Asks(cur)
    BY <1>3, <2>1 DEF NewClient, IgnoreClient, Establish, Refuse, Asks
  <2> QED
    BY <2>1, <2>2
<1>4. CASE ReadLine \/ EndOfRequest
  <2>1. cur \in Conns /\ heap[cur] = "live"
    BY <1>4 DEF ReadLine, EndOfRequest, IInv, TypeOK, ControlTypeOK, CurInv
  <2>2. Pulled(cur) \in Seq(Tokens)
    BY <2>1, PulledType DEF IInv, TypeOK, TcpTypeOK
  <2>3. \E rest \in Seq(Tokens) : Pull(cur, rest)
    <3>1. CASE ReadLine
      <4>1. Tail(Pulled(cur)) \in Seq(Tokens)
        BY <2>2, <3>1, HeadTailProperties DEF ReadLine
      <4> QED
        BY <3>1, <4>1 DEF ReadLine
    <3>2. CASE EndOfRequest
      BY <3>2, EmptySeq DEF EndOfRequest
    <3> QED
      BY <1>4, <3>1, <3>2
  <2>4. Reads(cur)
    BY <1>4, <2>1, <2>3 DEF ReadLine, EndOfRequest, Reads
  <2> QED
    BY <1>4, <2>1, <2>4 DEF Reading
<1>5. CASE CheckClient \/ DropClient
  <2>1. slots[idx] \in Conns /\ slots[idx] \in Members /\ heap[slots[idx]] = "live"
    BY <1>5 DEF CheckClient, DropClient, IInv, TypeOK, MembersLive, Members
  <2>2. CheckClient => Asks(slots[idx])
    BY <2>1 DEF CheckClient, Asks
  <2>3. DropClient => Drops(slots[idx])
    BY <2>1 DEF DropClient, Drops
  <2> QED
    BY <1>5, <2>1, <2>2, <2>3
<1>6. CASE RecheckClient \/ FrameDone \/ ReadNothing \/ Heartbeat
  <2>1. cur \in Conns /\ cur \in Members /\ heap[cur] = "live"
    BY <1>6, InHand DEF RecheckClient, FrameDone, ReadNothing, Heartbeat
  <2>2. RecheckClient \/ FrameDone => Asks(cur)
    BY <2>1 DEF RecheckClient, FrameDone, Asks
  <2>3. ReadNothing => Asks(cur) \/ Quiet
    BY <2>1 DEF ReadNothing, Asks, Quiet
  <2>4. Heartbeat => Asks(cur) \/ Quiet \/ Drops(cur)
    BY <2>1 DEF Heartbeat, Asks, Quiet, Drops
  <2> QED
    BY <1>6, <2>1, <2>2, <2>3, <2>4
<1>7. CASE ReadFrame \/ ReadGarbage
  <2>1. cur \in Conns /\ heap[cur] = "live"
    BY <1>7, InHand DEF ReadFrame, ReadGarbage
  <2>2. Pulled(cur) \in Seq(Tokens)
    BY <2>1, PulledType DEF IInv, TypeOK, TcpTypeOK
  <2>3. \E rest \in Seq(Tokens) : Pull(cur, rest)
    <3>1. CASE ReadFrame
      <4>1. FrameRest(cur) \in Seq(Tokens)
        BY <2>2, <3>1, HeadTailProperties DEF ReadFrame, FrameRest
      <4> QED
        BY <3>1, <4>1 DEF ReadFrame
    <3>2. CASE ReadGarbage
      <4>1. PICK n \in 1..Len(Pulled(cur)) :
              Pull(cur, SubSeq(Pulled(cur), n + 1, Len(Pulled(cur))))
        BY <3>2 DEF ReadGarbage
      <4>2. SubSeq(Pulled(cur), n + 1, Len(Pulled(cur))) \in Seq(Tokens)
        BY <2>2, <4>1, SubSeqProperties
      <4> QED
        BY <4>1, <4>2
    <3> QED
      BY <1>7, <3>1, <3>2
  <2>4. Reads(cur)
    BY <1>7, <2>1, <2>3 DEF ReadFrame, ReadGarbage, Reads
  <2> QED
    BY <1>7, <2>1, <2>4 DEF Reading
<1>8. CASE DfuScan
  <2> DEFINE tmp == slots[scanned]
  <2>1. CASE tmp = NoConn
    BY <1>8, <2>1 DEF DfuScan, Quiet
  <2>2. CASE tmp # NoConn
    <3>1. tmp \in Conns /\ tmp \in Members /\ heap[tmp] = "live"
      BY <1>8, <2>2 DEF DfuScan, IInv, TypeOK, MembersLive, Members
    <3>2. Asks(tmp) \/ Drops(tmp)
      BY <1>8, <2>2, <3>1 DEF DfuScan, Asks, Drops
    <3> QED
      BY <3>1, <3>2
  <2> QED
    BY <2>1, <2>2
<1> QED
  BY <1>1, <1>2, <1>3, <1>4, <1>5, <1>6, <1>7, <1>8 DEF DoIt, Accepts

(***************************************************************************)
(* The handles.                                                            *)
(***************************************************************************)

(* What a live object that is open reads, empties and closes is its own.   *)
LEMMA OwnHandle ==
  ASSUME IInv, NEW c \in Conns, heap[c] = "live", isOpen(c)
  PROVE  /\ sock[c] \in Sds /\ chip[sock[c]] = c
         /\ ChipData(c) = inbox[c]
         /\ InboxTaken(c) = [inbox EXCEPT ![c] = <<>>]
<1>1. sock[c] \in Sds /\ chip[sock[c]] = c
  BY DEF IInv, TypeOK, TcpTypeOK, SockTypeOK, SockOwner, isOpen
<1>2. inbox \in [Conns -> Seq(Tokens)]
  BY DEF IInv, TypeOK, TcpTypeOK, SockTypeOK
<1> QED
  BY <1>1, <1>2 DEF ChipData, InboxTaken

(* Who is not connected() with the network up, or not even asked, is gone. *)
LEMMA NotConnectedGone ==
  ASSUME IInv, HandleInv, NEW c \in Conns, heap[c] = "live", ~Status(c)
  PROVE  Gone(c)
<1>1. CASE ~isOpen(c)
  BY <1>1 DEF HandleInv
<1>2. CASE ~wifi
  BY <1>2 DEF HandleInv, Gone
<1>3. CASE isOpen(c) /\ ~active[sock[c]]
  BY <1>3, OwnHandle DEF HandleInv
<1> QED
  BY <1>1, <1>2, <1>3 DEF Status

(* stop() of an object that is gone, or that is deleted with it. *)
LEMMA StopHandles ==
  ASSUME IInv, HandleInv, NEW c \in Conns, heap[c] = "live", Gone(c), Stop(c),
         UNCHANGED <<netVars, lsock>>,
         heap' = heap \/ heap' = [heap EXCEPT ![c] = "freed"]
  PROVE  HandleInv'
<1> USE DEF netVars
<1>1. /\ heap \in [Conns -> {"none", "live", "freed"}]
      /\ sock \in [Conns -> Sds \cup {NoSock}]
      /\ chip \in [Sds -> Conns \cup {Free, Listener}]
      /\ active \in [Sds -> BOOLEAN]
      /\ lsock \in Sds \cup {NoSock}
  BY DEF IInv, TypeOK, TcpTypeOK, SockTypeOK
<1>2. sock' = [sock EXCEPT ![c] = NoSock]
  BY DEF Stop
<1>3. \A d \in Conns : Gone(d)' = Gone(d)
  BY DEF Gone
<1>4. ASSUME NEW d \in Conns, heap'[d] = "live", ~isOpen(d)'
      PROVE  Gone(d)'
  BY <1>1, <1>2, <1>3, <1>4 DEF HandleInv, isOpen
<1>5. CASE ~isOpen(c)
  <2>1. UNCHANGED <<chip, active>> /\ sock' = sock
    BY <1>1, <1>2, <1>5 DEF Stop, isOpen
  <2> QED
    BY <1>1, <1>3, <1>4, <2>1 DEF HandleInv
<1>6. CASE isOpen(c)
  <2>1. sock[c] \in Sds /\ chip[sock[c]] = c
    BY <1>6, OwnHandle
  <2>2. /\ chip' = [chip EXCEPT ![sock[c]] = Free]
        /\ active' = [active EXCEPT ![sock[c]] = FALSE]
    BY <1>6 DEF Stop
  <2>3. lsock' # NoSock => chip'[lsock'] = Listener
    BY <1>1, <2>1, <2>2, NamesAssumption DEF HandleInv
  <2>4. ASSUME NEW s \in Sds, chip'[s] \in Conns
        PROVE  /\ sock'[chip'[s]] = s
               /\ heap'[chip'[s]] # "none"
               /\ active'[s] \/ Gone(chip[s])'
    <3>1. s # sock[c] /\ chip'[s] = chip[s] /\ active'[s] = active[s]
      BY <1>1, <2>1, <2>2, <2>4, NamesAssumption
    <3>2. chip[s] \in Conns /\ sock[chip[s]] = s /\ heap[chip[s]] # "none"
          /\ (active[s] \/ Gone(chip[s]))
      BY <2>4, <3>1 DEF HandleInv
    <3>3. chip[s] # c
      BY <3>1, <3>2
    <3> QED
      BY <1>1, <1>2, <3>1, <3>2, <3>3 DEF Gone
  <2> QED
    BY <1>4, <2>3, <2>4 DEF HandleInv
<1> QED
  BY <1>5, <1>6

LEMMA AsksHandles ==
  ASSUME IInv, HandleInv, NEW c \in Conns, Asks(c)
  PROVE  HandleInv'
<1>1. CASE UNCHANGED <<chip, active, sock>>
  BY <1>1 DEF Asks, HandleInv, Gone, isOpen, netVars
<1>2. CASE Stop(c) /\ ~Status(c)
  <2>1. Gone(c)
    BY <1>2, NotConnectedGone DEF Asks
  <2> QED
    BY <1>2, <2>1, StopHandles DEF Asks
<1> QED
  BY <1>1, <1>2 DEF Asks, ConnectedEffect, MustAsk, Pull, sockVars

LEMMA DropsHandles ==
  ASSUME IInv, HandleInv, NEW c \in Conns, Drops(c)
  PROVE  HandleInv' /\ Gone(c)
<1>1. heap[c] = "live"
  BY DEF Drops, IInv, MembersLive
<1>2. Gone(c)
  BY <1>1, NotConnectedGone DEF Drops, Connected
<1>3. Stop(c) /\ heap' = [heap EXCEPT ![c] = "freed"]
  BY DisconnectSafe DEF Drops, Disconnect
<1> QED
  BY <1>1, <1>2, <1>3, StopHandles DEF Drops

LEMMA AcceptHandles ==
  ASSUME IInv, HandleInv, Accepts
  PROVE  HandleInv'
<1> USE DEF netVars
<1>1. /\ heap \in [Conns -> {"none", "live", "freed"}]
      /\ sock \in [Conns -> Sds \cup {NoSock}]
      /\ chip \in [Sds -> Conns \cup {Free, Listener}]
      /\ active \in [Sds -> BOOLEAN]
      /\ lsock \in Sds \cup {NoSock}
  BY DEF IInv, TypeOK, TcpTypeOK, SockTypeOK
<1>2. CASE NoAccept
  <2>1. /\ UNCHANGED <<netVars, chip, sock, heap>>
        /\ lsock' = IF wifi THEN lsock ELSE NoSock
        /\ active' = [s \in Sds |-> active[s] /\ s # lsock']
    BY <1>2 DEF NoAccept
  <2>2. ASSUME NEW s \in Sds, chip[s] \in Conns
        PROVE  active'[s] = active[s]
    BY <1>1, <2>1, <2>2, NamesAssumption DEF HandleInv
  <2> QED
    BY <1>1, <2>1, <2>2 DEF HandleInv, Gone, isOpen
<1>3. ASSUME NEW s \in Sds, Begin(s)
      PROVE  HandleInv'
  <2>1. /\ UNCHANGED <<netVars, sock, heap>>
        /\ chip[s] = Free
        /\ chip' = [chip EXCEPT ![s] = Listener]
        /\ active' = [active EXCEPT ![s] = TRUE]
        /\ lsock' \in {s, NoSock}
    BY <1>3 DEF Begin
  <2> QED
    BY <1>1, <2>1, NamesAssumption DEF HandleInv, Gone, isOpen
<1>4. ASSUME NEW c \in Conns, NEW s \in Sds, Accept(c, s)
      PROVE  HandleInv'
  <2>1. /\ UNCHANGED <<netVars, lsock>>
        /\ heap[c] = "none" /\ chip[s] = Free
        /\ chip' = [chip EXCEPT ![s] = c]
        /\ active' = [active EXCEPT ![s] = TRUE]
        /\ sock' = [sock EXCEPT ![c] = s]
        /\ heap' = [heap EXCEPT ![c] = "live"]
    BY <1>4 DEF Accept
  <2>2. \A d \in Conns : Gone(d)' = Gone(d)
    BY <2>1 DEF Gone
  <2>3. ASSUME NEW t \in Sds, chip'[t] \in Conns
        PROVE  /\ sock'[chip'[t]] = t
               /\ heap'[chip'[t]] # "none"
               /\ active'[t] \/ Gone(chip[t])'
    <3>1. CASE t = s
      BY <1>1, <2>1, <3>1
    <3>2. CASE t # s
      <4>1. chip'[t] = chip[t] /\ active'[t] = active[t]
        BY <1>1, <2>1, <3>2
      <4>2. /\ chip[t] \in Conns /\ sock[chip[t]] = t /\ heap[chip[t]] # "none"
            /\ active[t] \/ Gone(chip[t])
        BY <2>3, <4>1 DEF HandleInv
      <4>3. chip[t] # c
        BY <2>1, <4>2
      <4> QED
        BY <1>1, <2>1, <4>1, <4>2, <4>3 DEF Gone
    <3> QED
      BY <3>1, <3>2
  <2>4. lsock' # NoSock => chip'[lsock'] = Listener
    BY <1>1, <2>1, NamesAssumption DEF HandleInv
  <2>5. ASSUME NEW d \in Conns, heap'[d] = "live", ~isOpen(d)'
        PROVE  Gone(d)'
    BY <1>1, <2>1, <2>2, <2>5, NamesAssumption DEF HandleInv, isOpen
  <2> QED
    BY <2>1, <2>3, <2>4, <2>5 DEF HandleInv
<1> QED
  BY <1>2, <1>3, <1>4 DEF Accepts

LEMMA NetworkHandles ==
  ASSUME IInv, HandleInv, Environment
  PROVE  HandleInv'
<1> USE DEF netVars
<1>1. /\ UNCHANGED <<chip, sock, heap, lsock>>
  BY DEF Environment, Network, PeerConnects, PeerSends, PeerCloses, CloseWaitEvent,
         WifiDown, WifiUp, sockVars
<1>2. active \in [Sds -> BOOLEAN] /\ drops \in Nat /\ peer \in [Conns -> {"idle", "open", "closed"}]
  BY ScriptsAssumption DEF IInv, TypeOK, TcpTypeOK, SockTypeOK
<1>3. \A c \in Conns : Gone(c) => Gone(c)'
  BY <1>2 DEF Gone, Environment, Network, PeerConnects, PeerSends, PeerCloses,
              CloseWaitEvent, WifiDown, WifiUp
<1>4. ~wifi' => drops' > 0
  BY <1>2 DEF HandleInv, Environment, Network, PeerConnects, PeerSends, PeerCloses,
              CloseWaitEvent, WifiDown, WifiUp
<1>5. ASSUME NEW s \in Sds, chip[s] \in Conns, active[s] \/ Gone(chip[s])
      PROVE  active'[s] \/ Gone(chip[s])'
  <2>1. CASE UNCHANGED active
    BY <1>1, <1>3, <1>5, <2>1
  <2>2. ASSUME NEW t \in Sds, CloseWaitEvent(t)
        PROVE  active'[s] \/ Gone(chip[s])'
    BY <1>1, <1>2, <1>3, <1>5, <2>2 DEF CloseWaitEvent, Gone
  <2> QED
    BY <2>1, <2>2 DEF Environment, Network, PeerConnects, PeerSends, PeerCloses,
                      WifiDown, WifiUp, sockVars
<1> QED
  BY <1>1, <1>3, <1>4, <1>5 DEF HandleInv, isOpen

LEMMA HandleNext ==
  ASSUME IInv, HandleInv, [Next]_vars
  PROVE  HandleInv'
<1>1. CASE Quiet
  BY <1>1 DEF Quiet, HandleInv, Gone, isOpen, netVars, sockVars
<1>2. ASSUME NEW c \in Conns, Reads(c)
      PROVE  HandleInv'
  BY <1>2 DEF Reads, Pull, HandleInv, Gone, isOpen, netVars
<1>3. CASE Environment
  BY <1>3, NetworkHandles
<1>4. CASE UNCHANGED vars
  BY <1>1, <1>4 DEF vars, tcpVars, Quiet
<1> QED
  BY <1>1, <1>2, <1>3, <1>4, StepKinds, AsksHandles, DropsHandles, AcceptHandles
     DEF Next

(***************************************************************************)
(* Who enters and leaves clients[].                                        *)
(***************************************************************************)
Handshaking == pc \in {"new", "headers", "verdict"}

(* The table changes when a handshake ends well, and when a client that is *)
(* gone is dropped; objects are made by accept() alone.                    *)
LEMMA TableSteps ==
  ASSUME IInv, [Next]_vars
  PROVE  \/ Establish
         \/ \E c \in Conns, s \in Sds : Accept(c, s)
         \/ /\ \E c \in Conns : Drops(c)
            /\ UNCHANGED upgraded /\ ~Handshaking'
         \/ /\ UNCHANGED <<slots, upgraded, heap>>
            /\ ~Handshaking' \/ (UNCHANGED <<pc, cur>>)
               \/ NewClient \/ EndOfRequest
<1> USE DEF Handshaking
<1>1. CASE UNCHANGED vars
  BY <1>1 DEF vars, tcpVars, doItVars
<1>2. CASE Environment
  BY <1>2 DEF Environment, Network, PeerConnects, PeerSends, PeerCloses,
              CloseWaitEvent, WifiDown, WifiUp, doItVars
<1>3. CASE NoAccept \/ \E s \in Sds : Begin(s)
  BY <1>3 DEF NoAccept, Begin, StartScan, Goto
<1>4. CASE NewClient \/ IgnoreClient \/ ReadLine \/ EndOfRequest \/ Refuse
  BY <1>4 DEF NewClient, IgnoreClient, ReadLine, EndOfRequest, Refuse, StartScan,
              tcpVars
<1>5. CASE DropClient \/ Heartbeat
  <2>1. DropClient => slots[idx] \in Conns /\ Drops(slots[idx])
    BY DEF DropClient, Drops, IInv, TypeOK, Members
  <2>2. Heartbeat => cur \in Members /\ cur \in Conns
    BY InHand DEF Heartbeat
  <2>3. Heartbeat => Drops(cur) \/ UNCHANGED <<slots, heap>>
    BY <2>2 DEF Heartbeat, Drops
  <2>4. ~Handshaking' /\ UNCHANGED upgraded
    BY <1>5 DEF DropClient, Heartbeat, NextSlot
  <2> QED
    BY <1>5, <2>1, <2>2, <2>3, <2>4
<1>6. CASE DfuScan
  <2>1. slots[scanned] # NoConn => slots[scanned] \in Conns /\ slots[scanned] \in Members
    BY <1>6 DEF DfuScan, IInv, TypeOK, Members
  <2>2. \/ Drops(slots[scanned]) /\ slots[scanned] \in Conns
        \/ UNCHANGED <<slots, heap>>
    BY <1>6, <2>1 DEF DfuScan, Drops
  <2>3. ~Handshaking' /\ UNCHANGED upgraded
    BY <1>6 DEF DfuScan
  <2> QED
    BY <2>2, <2>3
<1>7. CASE SkipSlot \/ CheckClient \/ RecheckClient \/ EndPass
  BY <1>7 DEF SkipSlot, CheckClient, RecheckClient, EndPass, NextSlot, Goto, tcpVars
<1>8. CASE ReadFrame \/ ReadGarbage \/ FrameDone \/ ReadNothing
  BY <1>8 DEF ReadFrame, ReadGarbage, FrameDone, ReadNothing, AfterFrame, Goto
<1>9. CASE DfuScanned \/ CallBack \/ SendResult
  BY <1>9 DEF DfuScanned, CallBack, SendResult, AfterCall, NextSlot, Goto, tcpVars
<1> QED
  BY <1>1, <1>2, <1>3, <1>4, <1>5, <1>6, <1>7, <1>8, <1>9 DEF Next, DoIt

(* Where a client that has shaken hands is put. *)
LEMMA EstablishEffect ==
  ASSUME IInv, UpgradeInv, Establish
  PROVE  /\ cur \in Conns /\ cur \notin Members
         /\ ~upgraded[cur] /\ upgraded' = [upgraded EXCEPT ![cur] = TRUE]
         /\ \E k \in Slots :
              /\ slots' = [slots EXCEPT ![k] = cur]
              /\ \/ k \in SameKey(cur)
                 \/ SameKey(cur) = {} /\ slots[k] = NoConn
<1>1. /\ cur \in Conns /\ cur \notin Members /\ ~upgraded[cur] /\ HasSlot(cur)
  BY DEF Establish, IInv, TypeOK, ControlTypeOK, CurInv, UpgradeInv
<1>2. /\ slots' = [slots EXCEPT ![SlotFor(cur)] = cur]
      /\ upgraded' = [upgraded EXCEPT ![cur] = TRUE]
  BY DEF Establish
<1>3. CASE SameKey(cur) # {}
  <2>1. SlotFor(cur) \in SameKey(cur)
    BY <1>3, FirstIn DEF SlotFor, SameKey, Slots
  <2> QED
    BY <1>1, <1>2, <2>1 DEF SameKey
<1>4. CASE SameKey(cur) = {}
  <2>1. Empty # {} /\ SlotFor(cur) = First(Empty)
    BY <1>1, <1>4 DEF HasSlot, SlotFor
  <2>2. SlotFor(cur) \in Empty
    BY <2>1, FirstIn DEF Empty, Slots
  <2> QED
    BY <1>1, <1>2, <1>4, <2>2 DEF Empty
<1> QED
  BY <1>3, <1>4

LEMMA UpgradeNext ==
  ASSUME IInv, UpgradeInv, [Next]_vars
  PROVE  UpgradeInv'
<1>1. /\ heap \in [Conns -> {"none", "live", "freed"}]
      /\ upgraded \in [Conns -> BOOLEAN]
      /\ slots \in [Slots -> Conns \cup {NoConn}]
  BY DEF IInv, TypeOK, TcpTypeOK
<1>2. CASE Establish
  <2>1. PICK k \in Slots : slots' = [slots EXCEPT ![k] = cur]
    BY <1>2, EstablishEffect
  <2>2. /\ cur \in Conns /\ upgraded' = [upgraded EXCEPT ![cur] = TRUE]
        /\ heap' = heap /\ pc' = "scan" /\ heap[cur] = "live"
    BY <1>2, EstablishEffect DEF Establish, StartScan, IInv, CurInv
  <2>3. ASSUME NEW c \in Members'
        PROVE  upgraded'[c]
    <3>1. c = cur \/ c \in Members
      BY <1>1, <2>1, <2>3 DEF Members, Slots
    <3>2. c \in Conns
      BY <1>1, <2>2, <3>1 DEF Members
    <3> QED
      BY <1>1, <2>2, <3>1, <3>2 DEF UpgradeInv
  <2> QED
    BY <1>1, <2>2, <2>3 DEF UpgradeInv
<1>3. ASSUME NEW c \in Conns, NEW s \in Sds, Accept(c, s)
      PROVE  UpgradeInv'
  <2>1. /\ heap[c] = "none" /\ heap' = [heap EXCEPT ![c] = "live"]
        /\ UNCHANGED <<slots, upgraded>> /\ cur' = c /\ pc' = "new"
    BY <1>3 DEF Accept
  <2> QED
    BY <1>1, <2>1 DEF UpgradeInv, Members, Slots
<1>4. ASSUME NEW c \in Conns, Drops(c), UNCHANGED upgraded, ~Handshaking'
      PROVE  UpgradeInv'
  <2>1. PICK k \in Slots : slots' = [slots EXCEPT ![k] = NoConn]
    BY <1>4, DisconnectSafe DEF Drops
  <2>2. heap' = [heap EXCEPT ![c] = "freed"]
    BY <1>4, DisconnectSafe DEF Drops
  <2>3. Members' \subseteq Members
    BY <1>1, <2>1 DEF Members, Slots
  <2> QED
    BY <1>1, <1>4, <2>2, <2>3 DEF UpgradeInv, Handshaking
<1>5. ASSUME UNCHANGED <<slots, upgraded, heap>>,
             ~Handshaking' \/ (UNCHANGED <<pc, cur>>) \/ NewClient \/ EndOfRequest
      PROVE  UpgradeInv'
  BY <1>5 DEF UpgradeInv, Handshaking, Members, Slots, HasSlot, SameKey, Empty,
              NewClient, EndOfRequest, Goto
<1> QED
  BY <1>2, <1>3, <1>4, <1>5, TableSteps

(* A slot changes hands between equals, or loses one that is gone. *)
LEMMA SlotKept ==
  ASSUME IInv, HandleInv, UpgradeInv, [Next]_vars,
         NEW i \in Slots, slots[i] # NoConn, slots'[i] # slots[i]
  PROVE  IF slots'[i] = NoConn THEN Gone(slots[i])
         ELSE Key[slots'[i]] = Key[slots[i]]
<1>1. slots \in [Slots -> Conns \cup {NoConn}]
  BY DEF IInv, TypeOK
<1>2. CASE Establish
  <2>1. PICK k \in Slots :
          /\ slots' = [slots EXCEPT ![k] = cur]
          /\ \/ k \in SameKey(cur)
             \/ SameKey(cur) = {} /\ slots[k] = NoConn
    BY <1>2, EstablishEffect
  <2>2. cur # NoConn
    BY <1>2, EstablishEffect, NamesAssumption
  <2>3. i = k /\ slots'[i] = cur
    BY <1>1, <2>1
  <2> QED
    BY <2>1, <2>2, <2>3 DEF SameKey
<1>3. ASSUME NEW c \in Conns, Drops(c)
      PROVE  slots'[i] = NoConn /\ Gone(slots[i])
  <2>1. PICK k \in Slots : slots[k] = c /\ slots' = [slots EXCEPT ![k] = NoConn]
    BY <1>3, DisconnectSafe DEF Drops
  <2>2. i = k
    BY <1>1, <2>1
  <2> QED
    BY <1>1, <1>3, <2>1, <2>2, DropsHandles
<1> QED
  BY <1>2, <1>3, TableSteps DEF Accept

(***************************************************************************)
(* The requests: where they are, from the peer to the callback.            *)
(***************************************************************************)
Logged == Commands \cup {Garbage}

LEMMA LogTypes ==
  ASSUME IInv, NEW c \in Conns
  PROVE  /\ Executed(c) \in Seq(Logged)
         /\ handled[c] \in Seq(Logged)
         /\ buf[c] \in Seq(Tokens) /\ inbox[c] \in Seq(Tokens)
         /\ Requests(buf[c]) \in Seq(Commands)
         /\ Requests(inbox[c]) \in Seq(Commands)
         /\ Held(c) \in Seq(Commands)
<1>1. /\ handled[c] \in Seq(Logged)
      /\ buf[c] \in Seq(Tokens) /\ inbox[c] \in Seq(Tokens)
      /\ req \in Logged \cup {NoRequest}
  BY DEF IInv, TypeOK, TcpTypeOK, SockTypeOK, ControlTypeOK, Logged
<1>2. Pending(c) \in Seq(Logged)
  <2>1. CASE req # NoRequest
    <3>1. <<req>> \in Seq(Logged) /\ <<>> \in Seq(Logged)
      BY <1>1, <2>1
    <3> QED
      BY <3>1 DEF Pending
  <2>2. CASE req = NoRequest
    BY <2>2, EmptySeq DEF Pending
  <2> QED
    BY <2>1, <2>2
<1>3. Executed(c) \in Seq(Logged)
  BY <1>1, <1>2, ConcatProperties DEF Executed
<1>4. Requests(buf[c]) \in Seq(Commands) /\ Requests(inbox[c]) \in Seq(Commands)
  BY <1>1, RequestsType
<1> QED
  BY <1>1, <1>3, <1>4, ConcatProperties DEF Held

(* What is executed changes when a frame is read, and then for its client. *)
LEMMA LogSteps ==
  ASSUME IInv, [Next]_vars, NEW c \in Conns,
         ~(ReadFrame \/ ReadGarbage) \/ c # cur
  PROVE  Executed(c)' = Executed(c) /\ desync'[c] = desync[c]
<1>1. /\ handled \in [Conns -> Seq(Logged)] /\ desync \in [Conns -> BOOLEAN]
  BY DEF IInv, TypeOK, Logged
<1>2. CASE UNCHANGED vars \/ Environment
  BY <1>2 DEF vars, doItVars, ghostVars, Environment, Executed, Pending
<1>3. CASE NoAccept \/ (\E s \in Sds : Begin(s)) \/ (\E d \in Conns, s \in Sds : Accept(d, s))
  BY <1>3 DEF NoAccept, Begin, Accept, StartScan, Goto, ghostVars, Executed, Pending
<1>4. CASE NewClient \/ IgnoreClient \/ ReadLine \/ EndOfRequest \/ Establish \/ Refuse
  BY <1>4 DEF NewClient, IgnoreClient, ReadLine, EndOfRequest, Establish, Refuse,
              StartScan, Goto, ghostVars, Executed, Pending
<1>5. CASE SkipSlot \/ DropClient \/ CheckClient \/ RecheckClient \/ EndPass
  BY <1>5 DEF SkipSlot, DropClient, CheckClient, RecheckClient, EndPass,
              NextSlot, Goto, ghostVars, Executed, Pending
<1>6. CASE (ReadFrame \/ ReadGarbage) /\ c # cur
  BY <1>1, <1>6 DEF ReadFrame, ReadGarbage, ghostVars, Executed, Pending
<1>7. CASE FrameDone \/ ReadNothing \/ Heartbeat
  BY <1>7 DEF FrameDone, AfterFrame, ReadNothing, Heartbeat, NextSlot, Goto,
              ghostVars, Executed, Pending
<1>8. CASE DfuScan \/ DfuScanned \/ SendResult
  BY <1>8 DEF DfuScan, DfuScanned, SendResult, NextSlot, Goto, ghostVars, Executed,
              Pending
<1>9. CASE CallBack
  <2>1. /\ cur \in Conns /\ req # NoRequest /\ req \in Logged
        /\ handled' = [handled EXCEPT ![cur] = Append(@, req)]
        /\ pc = "call" /\ pc' \in {"dfu", "send"} /\ UNCHANGED <<cur, req, desync>>
    BY <1>9 DEF CallBack, AfterCall, Goto, IInv, TypeOK, ControlTypeOK, CurInv, Logged
  <2>2. CASE c = cur
    <3>1. Pending(c) = <<req>> /\ Pending(c)' = <<>>
      BY <2>1, <2>2 DEF Pending
    <3>2. handled'[c] = Append(handled[c], req)
      BY <1>1, <2>1, <2>2
    <3>3. Append(handled[c], req) = handled[c] \o <<req>>
      BY <1>1, <2>1, AppendIsConcat
    <3>4. Append(handled[c], req) \in Seq(Logged)
      BY <1>1, <2>1, AppendProperties
    <3>5. Append(handled[c], req) \o <<>> = Append(handled[c], req)
      BY <3>4, ConcatEmptySeq
    <3> QED
      BY <2>1, <3>1, <3>2, <3>3, <3>5 DEF Executed
  <2>3. CASE c # cur
    BY <1>1, <2>1, <2>3 DEF Executed, Pending
  <2> QED
    BY <2>2, <2>3
<1> QED
  BY <1>2, <1>3, <1>4, <1>5, <1>6, <1>7, <1>8, <1>9 DEF Next, DoIt

(* Reading moves tokens along, in order, from the client that is read. *)
LEMMA PullTokens ==
  ASSUME IInv, NEW c \in Conns, heap[c] = "live", NEW rest, Pull(c, rest)
  PROVE  /\ buf'[c] = rest
         /\ inbox'[c] \in Seq(Tokens)
         /\ Requests(Pulled(c)) \o Requests(inbox'[c]) = Held(c)
         /\ inbox'[c] = inbox[c] \/ inbox'[c] = <<>>
         /\ \A d \in Conns \ {c} : buf'[d] = buf[d] /\ inbox'[d] = inbox[d]
<1>1. /\ buf \in [Conns -> Seq(Tokens)] /\ inbox \in [Conns -> Seq(Tokens)]
  BY DEF IInv, TypeOK, TcpTypeOK, SockTypeOK
<1>2. buf' = [buf EXCEPT ![c] = rest]
  BY DEF Pull
<1>3. CASE wifi /\ isOpen(c)
  <2>1. inbox' = [inbox EXCEPT ![c] = <<>>] /\ Pulled(c) = buf[c] \o inbox[c]
    BY <1>3, OwnHandle DEF Pull, Pulled
  <2>2. inbox'[c] = <<>> /\ <<>> \in Seq(Tokens)
    BY <1>1, <2>1, EmptySeq
  <2>3. Requests(Pulled(c)) \o <<>> = Held(c)
    BY <1>1, <2>1, RequestsConcat, LogTypes, ConcatEmptySeq DEF Held
  <2> QED
    BY <1>1, <1>2, <2>1, <2>2, <2>3, RequestsEmpty
<1>4. CASE ~(wifi /\ isOpen(c))
  <2>1. inbox' = inbox /\ Pulled(c) = buf[c]
    BY <1>4 DEF Pull, Pulled, InboxTaken
  <2> QED
    BY <1>1, <1>2, <2>1 DEF Held
<1> QED
  BY <1>3, <1>4

(* Of a client that has no request in its buffers, none is pulled. *)
LEMMA PulledEmpty ==
  ASSUME IInv, NEW c \in Conns, heap[c] = "live",
         Requests(buf[c]) = <<>>, Requests(inbox[c]) = <<>>
  PROVE  Requests(Pulled(c)) = <<>>
<1>1. buf[c] \in Seq(Tokens) /\ inbox[c] \in Seq(Tokens)
  BY LogTypes
<1>2. CASE wifi /\ isOpen(c)
  BY <1>1, <1>2, OwnHandle, RequestsConcat DEF Pulled
<1>3. CASE ~(wifi /\ isOpen(c))
  BY <1>3 DEF Pulled
<1> QED
  BY <1>2, <1>3

(* A step that executes nothing keeps what is held of a client, or loses   *)
(* all of it with the connection.                                          *)
Shifts(c) ==
  /\ Held(c)' = Held(c)
  /\ Requests(buf[c]) = <<>> /\ Requests(inbox[c]) = <<>> =>
       Requests(buf[c])' = <<>> /\ Requests(inbox[c])' = <<>>
  /\ Lossless(c)' => Lossless(c)

Loses(c) ==
  /\ buf[c] = <<>> /\ buf'[c] = <<>> /\ inbox'[c] = <<>>
  /\ Lossless(c)' => Lossless(c) /\ inbox[c] = <<>>

LEMMA CarriesOn ==
  ASSUME IInv, NEW c \in Conns, Delivered(c), Shifts(c) \/ Loses(c),
         Executed(c)' = Executed(c), desync'[c] = desync[c], Sent(c)' = Sent(c),
         upgraded'[c] = upgraded[c] \/ upgraded'[c] = TRUE
  PROVE  Delivered(c)'
<1>1. /\ Requests(inbox[c]) \in Seq(Commands) /\ Held(c) \in Seq(Commands)
  BY LogTypes
<1>2. CASE Shifts(c)
  BY <1>2 DEF Shifts, Delivered
<1>3. CASE Loses(c)
  <2>1. /\ Requests(buf[c])' = <<>> /\ Requests(inbox[c])' = <<>>
        /\ Requests(buf[c]) = <<>>
    BY <1>3, RequestsEmpty DEF Loses
  <2>2. Held(c) = Requests(inbox[c]) /\ Held(c)' = <<>>
    BY <1>1, <2>1, ConcatEmptySeq DEF Held
  <2>3. ASSUME ~desync[c]
        PROVE  \E lost \in Seq(Commands) :
                 /\ Executed(c) \o (<<>> \o lost) = Sent(c)
                 /\ Lossless(c)' => lost = <<>>
    <3>1. PICK lost \in Seq(Commands) :
            /\ Executed(c) \o (Held(c) \o lost) = Sent(c)
            /\ Lossless(c) => lost = <<>>
      BY <2>3 DEF Delivered
    <3> DEFINE more == Held(c) \o lost
    <3>2. more \in Seq(Commands)
      BY <1>1, ConcatProperties
    <3>3. <<>> \o more = more
      BY <3>2, ConcatEmptySeq
    <3>4. Lossless(c)' => more = <<>>
      BY <1>3, <2>2, <3>1, RequestsEmpty, ConcatEmptySeq, EmptySeq DEF Loses
    <3> QED
      BY <3>1, <3>2, <3>3, <3>4
  <2> QED
    BY <2>1, <2>2, <2>3 DEF Delivered
<1> QED
  BY <1>2, <1>3

(* connected() and disconnectClient(): the client that is asked or dropped *)
(* has nothing left to read when its connection is closed, but for what    *)
(* the chip could not be asked for in an outage.                           *)
LEMMA OtherShifts ==
  ASSUME NEW d \in Conns,
         buf'[d] = buf[d], inbox'[d] = inbox[d], UNCHANGED netVars,
         heap'[d] = "none" => heap[d] = "none",
         OnChip(d)' => OnChip(d)
  PROVE  Shifts(d)
  BY DEF Shifts, Held, Lossless, netVars

LEMMA StopTokens ==
  ASSUME IInv, HandleInv, NEW c \in Conns, heap[c] = "live", Stop(c),
         buf[c] = <<>>, buf' = buf, UNCHANGED netVars,
         isOpen(c) => (drops = 0 => inbox[c] = <<>>),
         NEW h \in {"live", "freed"}, heap' = [heap EXCEPT ![c] = h]
  PROVE  \A d \in Conns : Shifts(d) \/ Loses(d)
<1>1. /\ heap \in [Conns -> {"none", "live", "freed"}]
      /\ chip \in [Sds -> Conns \cup {Free, Listener}]
      /\ inbox \in [Conns -> Seq(Tokens)]
  BY DEF IInv, TypeOK, TcpTypeOK, SockTypeOK
<1>2. \A d \in Conns : heap'[d] = "none" => heap[d] = "none"
  BY <1>1
<1>3. CASE ~isOpen(c)
  <2>1. UNCHANGED <<chip, inbox>>
    BY <1>3 DEF Stop
  <2> QED
    BY <1>2, <2>1, OtherShifts DEF OnChip
<1>4. CASE isOpen(c)
  <2>1. /\ sock[c] \in Sds /\ chip[sock[c]] = c
        /\ chip' = [chip EXCEPT ![sock[c]] = Free]
        /\ inbox' = [inbox EXCEPT ![c] = <<>>]
    BY <1>4, OwnHandle DEF Stop
  <2>2. \A d \in Conns : OnChip(d)' => OnChip(d)
    BY <1>1, <2>1, NamesAssumption DEF OnChip
  <2>3. \A d \in Conns \ {c} : Shifts(d)
    BY <1>1, <1>2, <2>1, <2>2, OtherShifts
  <2>4. ~OnChip(c)'
    <3>1. SUFFICES ASSUME NEW s \in Sds, chip'[s] = c PROVE FALSE
      BY DEF OnChip
    <3>2. s # sock[c] /\ chip[s] = c
      BY <1>1, <2>1, <3>1, NamesAssumption
    <3> QED
      BY <3>2 DEF HandleInv
  <2>5. Lossless(c)' => drops = 0
    BY <1>1, <2>4 DEF Lossless, netVars
  <2>6. Loses(c)
    BY <1>1, <1>4, <2>1, <2>5 DEF Loses, Lossless
  <2> QED
    BY <2>3, <2>6
<1> QED
  BY <1>3, <1>4

LEMMA AsksTokens ==
  ASSUME IInv, HandleInv, NEW c \in Conns, Asks(c)
  PROVE  \A d \in Conns : Shifts(d) \/ Loses(d)
<1>1. heap \in [Conns -> {"none", "live", "freed"}] /\ heap' = heap /\ heap[c] = "live"
  BY DEF IInv, TypeOK, TcpTypeOK, Asks
<1>2. CASE UNCHANGED sockVars
  BY <1>1, <1>2, OtherShifts DEF sockVars, OnChip, Asks
<1>3. CASE Pull(c, Pulled(c))
  <2>1. /\ buf'[c] = Pulled(c)
        /\ inbox'[c] \in Seq(Tokens)
        /\ Requests(Pulled(c)) \o Requests(inbox'[c]) = Held(c)
        /\ inbox'[c] = inbox[c] \/ inbox'[c] = <<>>
        /\ \A d \in Conns \ {c} : buf'[d] = buf[d] /\ inbox'[d] = inbox[d]
    BY <1>1, <1>3, PullTokens
  <2>2. \A d \in Conns : OnChip(d)' <=> OnChip(d)
    BY <1>3 DEF Pull, OnChip
  <2>3. \A d \in Conns \ {c} : Shifts(d)
    BY <1>1, <2>1, <2>2, OtherShifts DEF Asks
  <2>4. Held(c)' = Held(c)
    BY <2>1 DEF Held
  <2>5. Requests(buf[c]) = <<>> /\ Requests(inbox[c]) = <<>> =>
          Requests(buf[c])' = <<>> /\ Requests(inbox[c])' = <<>>
    BY <1>1, <2>1, PulledEmpty, RequestsEmpty
  <2>6. Lossless(c)' => Lossless(c)
    BY <1>1, <2>2 DEF Lossless, Asks, netVars
  <2> QED
    BY <2>3, <2>4, <2>5, <2>6 DEF Shifts
<1>4. CASE MustAsk(c) /\ Pulled(c) = <<>> /\ Stop(c) /\ buf' = buf
  <2>1. buf[c] = <<>> /\ isOpen(c)
    BY <1>4 DEF MustAsk
  <2>2. drops = 0 => inbox[c] = <<>>
    <3>1. SUFFICES ASSUME drops = 0 PROVE inbox[c] = <<>>
      OBVIOUS
    <3>2. wifi
      BY <3>1 DEF HandleInv
    <3>3. Pulled(c) = <<>> \o inbox[c]
      BY <1>1, <2>1, <3>2, OwnHandle DEF Pulled
    <3> QED
      BY <1>4, <3>3, LogTypes, ConcatEmptySeq
  <2>3. heap' = [heap EXCEPT ![c] = "live"]
    BY <1>1
  <2> QED
    BY <1>1, <1>4, <2>1, <2>2, <2>3, StopTokens DEF Asks
<1> QED
  BY <1>2, <1>3, <1>4 DEF Asks, ConnectedEffect

LEMMA DropsTokens ==
  ASSUME IInv, HandleInv, NEW c \in Conns, Drops(c)
  PROVE  \A d \in Conns : Shifts(d) \/ Loses(d)
<1>1. heap[c] = "live" /\ heap' = [heap EXCEPT ![c] = "freed"] /\ Stop(c)
  BY DisconnectSafe DEF Drops, Disconnect, IInv, MembersLive
<1>2. buf[c] = <<>> /\ ~Status(c) /\ (MustAsk(c) => Pulled(c) = <<>>)
  BY DEF Drops, Connected
<1>3. buf' = buf
  <2>1. buf \in [Conns -> Seq(Tokens)]
    BY DEF IInv, TypeOK, TcpTypeOK, SockTypeOK
  <2> QED
    BY <1>2, <2>1 DEF Drops, Disconnect
<1>4. isOpen(c) => (drops = 0 => inbox[c] = <<>>)
  <2>1. SUFFICES ASSUME isOpen(c), drops = 0 PROVE inbox[c] = <<>>
    OBVIOUS
  <2>2. wifi
    BY <2>1 DEF HandleInv
  <2>3. MustAsk(c)
    BY <1>2, <2>1, <2>2 DEF MustAsk, Status
  <2>4. Pulled(c) = <<>> \o inbox[c]
    BY <1>1, <1>2, <2>1, <2>2, OwnHandle DEF Pulled
  <2> QED
    BY <1>2, <2>3, <2>4, LogTypes, ConcatEmptySeq
<1> QED
  BY <1>1, <1>2, <1>3, <1>4, StopTokens DEF Drops

(* Header lines are read from a client that has sent no request yet. *)
LEMMA LineShifts ==
  ASSUME IInv, UpgradeInv, DeliveryInv, ReadLine \/ EndOfRequest
  PROVE  \A d \in Conns : Shifts(d)
<1>0. PICK c \in Conns : c = cur
  BY DEF ReadLine, EndOfRequest, IInv, TypeOK, ControlTypeOK
<1>1. heap[c] = "live" /\ ~upgraded[c] /\ UNCHANGED <<heap, netVars>>
  BY <1>0 DEF ReadLine, EndOfRequest, IInv, CurInv, UpgradeInv
<1>2. Requests(buf[c]) = <<>> /\ Requests(inbox[c]) = <<>>
  BY <1>0, <1>1 DEF DeliveryInv, Delivered
<1>3. Requests(Pulled(c)) = <<>> /\ Pulled(c) \in Seq(Tokens)
  BY <1>0, <1>1, <1>2, PulledEmpty, PulledType DEF IInv, TypeOK, TcpTypeOK
<1>4. \E rest \in Seq(Tokens) : Pull(c, rest) /\ Requests(rest) = <<>>
  <2>1. CASE ReadLine
    <3>1. /\ Pulled(c) # <<>>
          /\ Tail(Pulled(c)) \in Seq(Tokens)
          /\ Pull(c, Tail(Pulled(c)))
      BY <1>0, <1>3, <2>1, HeadTailProperties DEF ReadLine
    <3>2. Kept(<<>>, Head(Pulled(c))) \o Requests(Tail(Pulled(c))) = <<>>
      BY <1>3, <3>1, RequestsHead
    <3>3. Kept(<<>>, Head(Pulled(c))) \in Seq(Commands)
      BY EmptySeq, KeptType
    <3>4. Requests(Tail(Pulled(c))) = <<>>
      BY <3>1, <3>2, <3>3, RequestsType, ConcatEqualIffEmpty
    <3> QED
      BY <3>1, <3>4
  <2>2. CASE EndOfRequest
    BY <1>0, <2>2, EmptySeq, RequestsEmpty DEF EndOfRequest
  <2> QED
    BY <2>1, <2>2
<1>5. PICK rest \in Seq(Tokens) : Pull(c, rest) /\ Requests(rest) = <<>>
  BY <1>4
<1>6. /\ buf'[c] = rest
      /\ inbox'[c] = inbox[c] \/ inbox'[c] = <<>>
      /\ \A d \in Conns \ {c} : buf'[d] = buf[d] /\ inbox'[d] = inbox[d]
  BY <1>0, <1>1, <1>5, PullTokens
<1>7. \A d \in Conns : OnChip(d)' => OnChip(d)
  BY <1>5 DEF Pull, OnChip
<1>8. \A d \in Conns \ {c} : Shifts(d)
  BY <1>0, <1>1, <1>6, <1>7, OtherShifts
<1>9. Requests(buf[c])' = <<>> /\ Requests(inbox[c])' = <<>>
  BY <1>2, <1>5, <1>6, RequestsEmpty
<1>10. Held(c)' = Held(c)
  BY <1>2, <1>9 DEF Held
<1>11. Lossless(c)' => Lossless(c)
  BY <1>0, <1>1, <1>7 DEF Lossless, netVars
<1> QED
  BY <1>8, <1>9, <1>10, <1>11 DEF Shifts

(* A frame: its request moves from the head of the queue to the end of the *)
(* log.                                                                    *)
LEMMA ReadFrameEffect ==
  ASSUME IInv, ReadFrame, NEW c, c = cur
  PROVE  /\ c \in Conns /\ c \in Members /\ heap[c] = "live"
         /\ req' \in Commands
         /\ Executed(c)' = Append(Executed(c), req')
         /\ Held(c)' \in Seq(Commands)
         /\ Held(c) = <<req'>> \o Held(c)'
         /\ \A d \in Conns \ {c} : buf'[d] = buf[d] /\ inbox'[d] = inbox[d]
<1>1. c \in Conns /\ c \in Members /\ heap[c] = "live"
  BY InHand DEF ReadFrame
<1>2. Pulled(c) \in Seq(Tokens)
  BY <1>1, PulledType DEF IInv, TypeOK, TcpTypeOK
<1>3. /\ Pulled(c) # <<>> /\ Head(Pulled(c)) \in Commands
      /\ Pull(c, Tail(Pulled(c)))
      /\ req' = Head(Pulled(c)) /\ pc = "get" /\ pc' = "framed"
      /\ cur' = cur /\ handled' = handled
  BY DEF ReadFrame, FrameRest, ghostVars
<1>4. /\ buf'[c] = Tail(Pulled(c))
      /\ inbox'[c] \in Seq(Tokens)
      /\ Requests(Pulled(c)) \o Requests(inbox'[c]) = Held(c)
      /\ \A d \in Conns \ {c} : buf'[d] = buf[d] /\ inbox'[d] = inbox[d]
  BY <1>1, <1>3, PullTokens
<1>5. Executed(c)' = Append(Executed(c), req')
  <2>1. handled[c] \in Seq(Logged) /\ req' \in Logged
    BY <1>1, <1>3, LogTypes DEF Logged
  <2>2. req' # NoRequest
    BY <1>3 DEF Commands, NoRequest
  <2>3. Pending(c) = <<>> /\ Pending(c)' = <<req'>>
    BY <1>3, <2>2 DEF Pending
  <2>4. Executed(c) = handled[c]
    BY <2>1, <2>3, ConcatEmptySeq DEF Executed
  <2>5. Executed(c)' = handled[c] \o <<req'>>
    BY <1>3, <2>3 DEF Executed
  <2> QED
    BY <2>1, <2>4, <2>5, AppendIsConcat
<1>6. Held(c)' \in Seq(Commands) /\ Held(c) = <<req'>> \o Held(c)'
  <2>1. Tail(Pulled(c)) \in Seq(Tokens)
    BY <1>2, <1>3, HeadTailProperties
  <2>2. Kept(<<>>, req') = <<req'>>
    BY <1>3 DEF Kept
  <2>3. Requests(Pulled(c)) = <<req'>> \o Requests(Tail(Pulled(c)))
    BY <1>2, <1>3, <2>2, RequestsHead
  <2>4. /\ <<req'>> \in Seq(Commands)
        /\ Requests(Tail(Pulled(c))) \in Seq(Commands)
        /\ Requests(inbox'[c]) \in Seq(Commands)
    <3>1. <<req'>> \in Seq(Commands)
      BY <1>3
    <3>2. Requests(Tail(Pulled(c))) \in Seq(Commands)
      BY <2>1, RequestsType
    <3>3. Requests(inbox'[c]) \in Seq(Commands)
      BY <1>4, RequestsType
    <3> QED
      BY <3>1, <3>2, <3>3
  <2>5. Held(c) = <<req'>> \o (Requests(Tail(Pulled(c))) \o Requests(inbox'[c]))
    <3>1. Held(c) = (<<req'>> \o Requests(Tail(Pulled(c)))) \o Requests(inbox'[c])
      BY <1>4, <2>3
    <3>2. (<<req'>> \o Requests(Tail(Pulled(c)))) \o Requests(inbox'[c])
          = <<req'>> \o (Requests(Tail(Pulled(c))) \o Requests(inbox'[c]))
      BY <2>4, ConcatAssociative, SMTT(30)
    <3> QED
      BY <3>1, <3>2
  <2>6. Held(c)' = Requests(Tail(Pulled(c))) \o Requests(inbox'[c])
    BY <1>4 DEF Held
  <2> QED
    BY <2>4, <2>5, <2>6, ConcatProperties
<1> QED
  BY <1>1, <1>3, <1>4, <1>5, <1>6

LEMMA ReadFrameDelivers ==
  ASSUME IInv, UpgradeInv, DeliveryInv, ReadFrame
  PROVE  DeliveryInv'
<1>0. PICK c : c = cur
  OBVIOUS
<1>1. /\ c \in Conns /\ c \in Members /\ heap[c] = "live"
      /\ req' \in Commands
      /\ Executed(c)' = Append(Executed(c), req')
      /\ Held(c)' \in Seq(Commands)
      /\ Held(c) = <<req'>> \o Held(c)'
      /\ \A d \in Conns \ {c} : buf'[d] = buf[d] /\ inbox'[d] = inbox[d]
  BY <1>0, ReadFrameEffect
<1>2. UNCHANGED <<netVars, heap, upgraded, desync, chip>>
  BY DEF ReadFrame, Pull, ghostVars
<1>3. \A d \in Conns : /\ Lossless(d)' <=> Lossless(d)
                       /\ Sent(d)' = Sent(d)
                       /\ OnChip(d)' => OnChip(d)
  BY <1>2 DEF Lossless, OnChip, Sent, netVars
<1>4. ASSUME NEW d \in Conns \ {c}
      PROVE  Delivered(d)'
  <2>1. Shifts(d)
    BY <1>1, <1>2, <1>3, <1>4, OtherShifts
  <2>2. Executed(d)' = Executed(d)
    BY <1>0, <1>4, LogSteps DEF Next, DoIt
  <2> QED
    BY <1>2, <1>3, <1>4, <2>1, <2>2, CarriesOn DEF DeliveryInv
<1>5. Delivered(c)'
  <2>1. upgraded'[c]
    BY <1>1, <1>2 DEF UpgradeInv
  <2>2. ASSUME ~desync[c]
        PROVE  \E lost \in Seq(Commands) :
                 /\ Executed(c)' \o (Held(c)' \o lost) = Sent(c)'
                 /\ Lossless(c)' => lost = <<>>
    <3>1. PICK lost \in Seq(Commands) :
            /\ Executed(c) \o (Held(c) \o lost) = Sent(c)
            /\ Lossless(c) => lost = <<>>
      BY <1>1, <2>2 DEF DeliveryInv, Delivered
    <3>2. /\ Executed(c) \in Seq(Logged) /\ <<req'>> \in Seq(Logged)
          /\ Held(c)' \in Seq(Logged) /\ lost \in Seq(Logged)
      BY <1>1, <3>1, LogTypes, SeqMonotonic DEF Logged
    <3>3. Held(c)' \o lost \in Seq(Logged)
      BY <3>2, ConcatProperties
    <3>4. Held(c) \o lost = <<req'>> \o (Held(c)' \o lost)
      BY <1>1, <3>2, ConcatAssociative, SMTT(30)
    <3>5. Executed(c)' = Executed(c) \o <<req'>>
      BY <1>1, <3>2, AppendIsConcat DEF Logged
    <3>6. Executed(c)' \o (Held(c)' \o lost)
          = Executed(c) \o (<<req'>> \o (Held(c)' \o lost))
      BY <3>2, <3>3, <3>5, ConcatAssociative, SMTT(30)
    <3> QED
      BY <1>1, <1>3, <3>1, <3>4, <3>6
  <2> QED
    BY <1>2, <2>1, <2>2 DEF Delivered
<1> QED
  BY <1>4, <1>5 DEF DeliveryInv

(* A header line read as a frame: its client is out of step from then on.  *)
LEMMA ReadGarbageDelivers ==
  ASSUME IInv, UpgradeInv, DeliveryInv, ReadGarbage
  PROVE  DeliveryInv'
<1>1. cur \in Conns /\ cur \in Members /\ heap[cur] = "live"
  BY InHand DEF ReadGarbage
<1>2. /\ UNCHANGED <<netVars, heap, upgraded, chip>>
      /\ desync' = [desync EXCEPT ![cur] = TRUE]
      /\ \E rest : Pull(cur, rest)
  BY DEF ReadGarbage, Pull
<1>3. \A d \in Conns \ {cur} : buf'[d] = buf[d] /\ inbox'[d] = inbox[d]
  BY <1>1, <1>2, PullTokens
<1>4. \A d \in Conns : Sent(d)' = Sent(d) /\ (OnChip(d)' => OnChip(d))
  BY <1>2 DEF OnChip, Sent, netVars
<1>5. desync \in [Conns -> BOOLEAN]
  BY DEF IInv, TypeOK
<1>6. ASSUME NEW d \in Conns \ {cur}
      PROVE  Delivered(d)'
  <2>1. Shifts(d)
    BY <1>2, <1>3, <1>4, <1>6, OtherShifts
  <2>2. Executed(d)' = Executed(d) /\ desync'[d] = desync[d]
    BY <1>6, LogSteps DEF Next, DoIt
  <2> QED
    BY <1>2, <1>4, <1>6, <2>1, <2>2, CarriesOn DEF DeliveryInv
<1>7. upgraded'[cur] /\ desync'[cur]
  BY <1>1, <1>2, <1>5 DEF UpgradeInv
<1> QED
  BY <1>6, <1>7 DEF DeliveryInv, Delivered

LEMMA NetworkDelivers ==
  ASSUME IInv, SentInv, DeliveryInv, Environment
  PROVE  DeliveryInv'
<1>1. /\ UNCHANGED <<chip, heap, upgraded, script, buf, desync>>
  BY DEF Environment, Network, PeerConnects, PeerSends, PeerCloses, CloseWaitEvent,
         WifiDown, WifiUp, sockVars, ghostVars, netVars
<1>2. \A c \in Conns : Executed(c)' = Executed(c)
  BY DEF Environment, doItVars, ghostVars, Executed, Pending
<1>3. CASE UNCHANGED <<inbox, sent>>
  <2>1. drops \in Nat /\ (drops' = 0 => drops = 0)
    BY ScriptsAssumption
       DEF IInv, TypeOK, TcpTypeOK, Environment, Network, PeerConnects, PeerSends,
           PeerCloses, CloseWaitEvent, WifiDown, WifiUp, netVars
  <2>2. \A c \in Conns : Shifts(c) /\ Sent(c)' = Sent(c)
    BY <1>1, <1>3, <2>1 DEF Shifts, Held, Lossless, OnChip, Sent
  <2> QED
    BY <1>1, <1>2, <2>2, CarriesOn DEF DeliveryInv
<1>4. ASSUME NEW c \in Conns, PeerSends(c)
      PROVE  DeliveryInv'
  <2> DEFINE token == script[c][sent[c] + 1]
  <2>1. /\ script[c] \in Seq(Tokens) /\ sent \in [Conns -> Nat]
        /\ inbox \in [Conns -> Seq(Tokens)]
    BY ScriptsAssumption DEF IInv, TypeOK, TcpTypeOK, SockTypeOK
  <2>2. /\ sent[c] < Len(script[c]) /\ Lossless(c)
        /\ token \in Commands => upgraded[c]
        /\ inbox' = [inbox EXCEPT ![c] = Append(@, token)]
        /\ sent' = [sent EXCEPT ![c] = @ + 1]
        /\ UNCHANGED <<drops, script, chip, heap, buf, upgraded>>
    BY <1>4 DEF PeerSends, Lossless
  <2>3. /\ sent[c] \in Nat /\ Len(script[c]) \in Nat
        /\ sent[c] + 1 \in 1 .. Len(script[c])
        /\ (sent[c] + 1) - 1 = sent[c]
    <3>1. sent[c] \in Nat /\ Len(script[c]) \in Nat /\ sent[c] < Len(script[c])
      BY <2>1, <2>2, LenProperties
    <3> QED
      BY <3>1
  <2>4. token \in Tokens
    BY <2>1, <2>3, ElementOfSeq
  <2>5. ASSUME NEW d \in Conns, d # c
        PROVE  Delivered(d)'
    <3>1. Shifts(d) /\ Sent(d)' = Sent(d)
      BY <2>1, <2>2, <2>5 DEF Shifts, Held, Lossless, OnChip, Sent
    <3> QED
      BY <1>1, <1>2, <3>1, CarriesOn DEF DeliveryInv
  <2>6. Delivered(c)'
    <3>1. inbox'[c] = Append(inbox[c], token) /\ sent'[c] = sent[c] + 1
      BY <2>1, <2>2
    <3>2. Requests(inbox'[c]) = Kept(Requests(inbox[c]), token)
      BY <2>1, <2>4, <3>1, RequestsAppend
    <3>3. Sent(c)' = Kept(Sent(c), token)
      <4>1. SubSeq(script[c], 1, sent[c] + 1)
            = SubSeq(script[c], 1, sent[c]) \o <<token>>
        <5>1. 1 \in 1 .. Len(script[c]) /\ sent[c] + 1 \in 1 .. (sent[c] + 1)
          BY <2>3
        <5>2. sent[c] + 1 \in 1 .. Len(script[c])
          BY <2>3
        <5> QED
          BY <2>1, <2>3, <5>1, <5>2, SubSeqRecursiveSecond
      <4>2. SubSeq(script[c], 1, sent[c]) \in Seq(Tokens)
        BY <2>1, <2>3, ElementOfSeq, SubSeqProperties
      <4>3. SubSeq(script[c], 1, sent[c]) \o <<token>>
            = Append(SubSeq(script[c], 1, sent[c]), token)
        BY <2>4, <4>2, AppendIsConcat
      <4>4. Sent(c)' = Requests(SubSeq(script[c], 1, sent[c] + 1))
        BY <2>2, <3>1 DEF Sent
      <4>5. Sent(c) = Requests(SubSeq(script[c], 1, sent[c]))
        BY DEF Sent
      <4> HIDE DEF token
      <4> QED
        BY <2>4, <4>1, <4>2, <4>3, <4>4, <4>5, RequestsAppend
    <3>4. ~upgraded'[c] => Requests(buf'[c]) = <<>> /\ Requests(inbox'[c]) = <<>>
      BY <2>2, <3>2 DEF DeliveryInv, Delivered, Kept
    <3>5. ASSUME ~desync[c]
          PROVE  Executed(c)' \o (Held(c)' \o <<>>) = Sent(c)'
      <4>1. Executed(c) \o (Held(c) \o <<>>) = Sent(c)
        BY <2>2, <3>5 DEF DeliveryInv, Delivered
      <4>2. /\ Executed(c) \in Seq(Logged) /\ Held(c) \in Seq(Commands)
            /\ Requests(buf[c]) \in Seq(Commands)
            /\ Requests(inbox[c]) \in Seq(Commands)
        BY LogTypes
      <4>3. Held(c)' = Kept(Held(c), token)
        <5> HIDE DEF token
        <5>1. Held(c)' = Requests(buf[c]) \o Kept(Requests(inbox[c]), token)
          BY <2>2, <3>2 DEF Held
        <5> QED
          BY <4>2, <5>1, KeptConcat DEF Held
      <4>4. Kept(Held(c), token) \in Seq(Commands)
        BY <4>2, KeptType
      <4>5. Held(c) \o <<>> = Held(c) /\ Held(c)' \o <<>> = Held(c)'
        BY <4>2, <4>3, <4>4, ConcatEmptySeq
      <4>6. Executed(c) \o Kept(Held(c), token) = Kept(Executed(c) \o Held(c), token)
        <5>1. CASE token \in Commands
          <6>1. /\ Held(c) \in Seq(Logged) /\ <<token>> \in Seq(Logged)
                /\ token \in Logged
            BY <4>2, <5>1, SeqMonotonic DEF Logged
          <6>2. Append(Held(c), token) = Held(c) \o <<token>>
            BY <6>1, AppendIsConcat
          <6>3. Executed(c) \o Held(c) \in Seq(Logged)
            BY <4>2, <6>1, ConcatProperties
          <6>4. Append(Executed(c) \o Held(c), token)
                = (Executed(c) \o Held(c)) \o <<token>>
            BY <6>1, <6>3, AppendIsConcat
          <6>5. Executed(c) \o (Held(c) \o <<token>>)
                = (Executed(c) \o Held(c)) \o <<token>>
            BY <4>2, <6>1, ConcatAssociative, SMTT(30)
          <6> QED
            BY <5>1, <6>2, <6>4, <6>5 DEF Kept
        <5>2. CASE token \notin Commands
          BY <5>2 DEF Kept
        <5> QED
          BY <5>1, <5>2
      <4> QED
        BY <1>2, <3>3, <4>1, <4>3, <4>5, <4>6
    <3>6. <<>> \in Seq(Commands)
      BY EmptySeq
    <3> QED
      BY <1>1, <3>4, <3>5, <3>6 DEF Delivered
  <2> QED
    BY <2>5, <2>6 DEF DeliveryInv
<1> QED
  BY <1>3, <1>4 DEF Environment, Network, PeerConnects, PeerCloses,
                    CloseWaitEvent, WifiDown, WifiUp, sockVars, netVars

LEMMA AcceptDelivers ==
  ASSUME IInv, DeliveryInv, Accepts
  PROVE  DeliveryInv'
<1>1. UNCHANGED <<netVars, inbox, buf, upgraded>>
  BY DEF Accepts, NoAccept, Begin, Accept
<1>2. ASSUME NEW c \in Conns
      PROVE  Lossless(c)' => Lossless(c)
  <2>1. /\ heap \in [Conns -> {"none", "live", "freed"}]
        /\ chip \in [Sds -> Conns \cup {Free, Listener}]
    BY DEF IInv, TypeOK, TcpTypeOK, SockTypeOK
  <2>2. CASE NoAccept
    BY <2>2 DEF NoAccept, Lossless, OnChip, netVars
  <2>3. ASSUME NEW s \in Sds, Begin(s)
        PROVE  Lossless(c)' => Lossless(c)
    <3>1. OnChip(c)' => OnChip(c)
      BY <2>1, <2>3, NamesAssumption DEF Begin, OnChip
    <3> QED
      BY <2>3, <3>1 DEF Begin, Lossless, netVars
  <2>4. ASSUME NEW d \in Conns, NEW s \in Sds, Accept(d, s)
        PROVE  Lossless(c)' => Lossless(c)
    <3>1. CASE c = d
      BY <2>4, <3>1 DEF Accept, Lossless
    <3>2. CASE c # d
      <4>1. OnChip(c)' => OnChip(c)
        BY <2>1, <2>4, <3>2 DEF Accept, OnChip
      <4>2. heap'[c] = heap[c]
        BY <2>1, <2>4, <3>2 DEF Accept
      <4> QED
        BY <1>1, <4>1, <4>2 DEF Lossless, netVars
    <3> QED
      BY <3>1, <3>2
  <2> QED
    BY <2>2, <2>3, <2>4 DEF Accepts
<1>3. ASSUME NEW c \in Conns
      PROVE  Delivered(c)'
  <2>1. Shifts(c) /\ Sent(c)' = Sent(c)
    BY <1>1, <1>2 DEF Shifts, Held, Sent, netVars
  <2>2. Executed(c)' = Executed(c) /\ desync'[c] = desync[c]
    <3>1. [Next]_vars /\ ~(ReadFrame \/ ReadGarbage)
      BY DEF Accepts, NoAccept, Begin, Accept, ReadFrame, ReadGarbage, Next, DoIt
    <3> QED
      BY <3>1, LogSteps
  <2> QED
    BY <1>1, <1>3, <2>1, <2>2, CarriesOn DEF DeliveryInv
<1> QED
  BY <1>3 DEF DeliveryInv

LEMMA DeliveryNext ==
  ASSUME IInv, HandleInv, UpgradeInv, SentInv, DeliveryInv, [Next]_vars
  PROVE  DeliveryInv'
<1>1. CASE ReadFrame
  BY <1>1, ReadFrameDelivers
<1>2. CASE ReadGarbage
  BY <1>2, ReadGarbageDelivers
<1>3. CASE Environment
  BY <1>3, NetworkDelivers
<1>4. CASE Accepts
  BY <1>4, AcceptDelivers
<1>5. CASE ~(ReadFrame \/ ReadGarbage \/ Environment \/ Accepts)
  <2>1. UNCHANGED <<script, sent>>
    <3>1. UNCHANGED vars => UNCHANGED <<script, sent>>
      BY DEF vars, tcpVars, netVars
    <3>2. Quiet => UNCHANGED <<script, sent>>
      BY DEF Quiet, netVars
    <3>3. \A c \in Conns : Asks(c) \/ Reads(c) \/ Drops(c) => UNCHANGED <<script, sent>>
      BY DEF Asks, Reads, Drops, netVars
    <3> QED
      BY <1>5, <3>1, <3>2, <3>3, StepKinds DEF Next
  <2>2. \A c \in Conns : upgraded'[c] = upgraded[c] \/ upgraded'[c] = TRUE
    <3>1. upgraded \in [Conns -> BOOLEAN]
      BY DEF IInv, TypeOK, TcpTypeOK
    <3> QED
      BY <3>1, TableSteps DEF Establish, Accept
  <2>3. \A c \in Conns : Shifts(c) \/ Loses(c)
    <3>1. CASE ReadLine \/ EndOfRequest
      BY <3>1, LineShifts
    <3>2. CASE UNCHANGED vars \/ Quiet
      <4>1. UNCHANGED <<netVars, buf, inbox, chip, heap>>
        BY <3>2 DEF vars, tcpVars, sockVars, Quiet
      <4> QED
        BY <4>1, OtherShifts DEF OnChip
    <3>3. ASSUME NEW c \in Conns, Asks(c) \/ Drops(c)
          PROVE  \A d \in Conns : Shifts(d) \/ Loses(d)
      BY <3>3, AsksTokens, DropsTokens
    <3> QED
      BY <1>5, <3>1, <3>2, <3>3, StepKinds DEF Next, Reading
  <2>4. \A c \in Conns : Executed(c)' = Executed(c) /\ desync'[c] = desync[c]
    BY <1>5, LogSteps
  <2>5. \A c \in Conns : Sent(c)' = Sent(c)
    BY <2>1 DEF Sent
  <2> QED
    BY <2>2, <2>3, <2>4, <2>5, CarriesOn DEF DeliveryInv
<1> QED
  BY <1>1, <1>2, <1>3, <1>4, <1>5

LEMMA SentNext ==
  ASSUME IInv, SentInv, [Next]_vars
  PROVE  SentInv'
<1>1. /\ sent \in [Conns -> Nat] /\ script \in [Conns -> Scripts]
      /\ \A c \in Conns : Len(script[c]) \in Nat
  BY ScriptsAssumption, LenProperties DEF IInv, TypeOK, TcpTypeOK
<1>2. ASSUME NEW c \in Conns, PeerSends(c)
      PROVE  SentInv'
  BY <1>1, <1>2 DEF PeerSends, SentInv
<1>3. CASE UNCHANGED <<script, sent>>
  BY <1>3 DEF SentInv
<1>4. CASE DoIt
  <2>1. UNCHANGED <<script, sent>>
    BY <1>4, StepKinds DEF Quiet, Accepts, NoAccept, Begin, Accept, Asks, Reads,
                           Drops, netVars
  <2> QED
    BY <1>3, <2>1
<1>5. CASE Environment
  BY <1>2, <1>3, <1>5 DEF Environment, Network, PeerConnects, PeerCloses,
                          CloseWaitEvent, WifiDown, WifiUp, netVars
<1> QED
  BY <1>3, <1>4, <1>5 DEF Next, vars, tcpVars, netVars

(***************************************************************************)
(* The theorems.                                                           *)
(***************************************************************************)
LEMMA TableInit == Init => TableInv
<1> SUFFICES ASSUME Init PROVE TableInv
  OBVIOUS
<1>1. HandleInv
  BY NamesAssumption DEF Init, TcpInit, HandleInv, isOpen
<1>2. UpgradeInv
  BY DEF Init, TcpInit, UpgradeInv, Members, Slots
<1>3. SentInv
  BY ScriptsAssumption, LenProperties DEF Init, TcpInit, SentInv
<1>4. DeliveryInv
  <2> SUFFICES ASSUME NEW c \in Conns PROVE Delivered(c)
    BY DEF DeliveryInv
  <2>1. buf[c] = <<>> /\ inbox[c] = <<>>
    BY DEF Init, TcpInit
  <2>2. Executed(c) = <<>>
    BY EmptySeq, ConcatEmptySeq DEF Init, Executed, Pending
  <2>3. Sent(c) = <<>>
    <3>1. sent[c] = 0
      BY DEF Init, TcpInit
    <3>2. SubSeq(script[c], 1, 0) = <<>>
      BY SubSeqEmpty
    <3> QED
      BY <3>1, <3>2, RequestsEmpty DEF Sent
  <2>4. Held(c) = <<>>
    BY <2>1, RequestsEmpty, EmptySeq, ConcatEmptySeq DEF Held
  <2>5. Executed(c) \o (Held(c) \o <<>>) = Sent(c)
    BY <2>2, <2>3, <2>4, EmptySeq, ConcatEmptySeq
  <2>6. <<>> \in Seq(Commands)
    BY EmptySeq
  <2> QED
    BY <2>1, <2>5, <2>6, RequestsEmpty DEF Delivered
<1> QED
  BY <1>1, <1>2, <1>3, <1>4, InitInv DEF TableInv

LEMMA TableNext == TableInv /\ [Next]_vars => TableInv'
  BY NextInv, HandleNext, UpgradeNext, SentNext, DeliveryNext DEF TableInv

THEOREM TableInvariance == Spec => []TableInv
  BY TableInit, TableNext, PTL DEF Spec

(* A client leaves clients[] only when its peer has closed or the network  *)
(* has been away, and its slot is taken over only by a client of its key.  *)
THEOREM ClientsStay == Spec => StaysUntilGone
<1>1. ASSUME TableInv, [Next]_vars
      PROVE  \A i \in Slots : slots[i] # NoConn /\ slots'[i] # slots[i] =>
               IF slots'[i] = NoConn
               THEN peer[slots[i]] = "closed" \/ drops > 0
               ELSE Key[slots'[i]] = Key[slots[i]]
  BY <1>1, SlotKept DEF TableInv, Gone
<1> QED
  BY <1>1, TableInvariance, PTL DEF Spec, StaysUntilGone

(* A sequence is a prefix of what it is continued to. *)
LEMMA PrefixOfConcat ==
  ASSUME NEW S, NEW s \in Seq(S), NEW t \in Seq(S)
  PROVE  IsPrefix(s, s \o t)
<1>1. /\ s \o t \in Seq(S) /\ Len(s \o t) = Len(s) + Len(t)
      /\ Len(s) \in Nat /\ Len(t) \in Nat
      /\ \A i \in 1 .. Len(s) + Len(t) : (s \o t)[i] =
           IF i <= Len(s) THEN s[i] ELSE t[i - Len(s)]
  BY ConcatProperties, LenProperties
<1>2. SubSeq(s, 1, Len(s)) = SubSeq(s \o t, 1, Len(s))
  <2>1. \A i \in 1 .. Len(s) : i \in 1 .. Len(s) + Len(t) /\ (s \o t)[i] = s[i]
    BY <1>1
  <2> QED
    BY <1>1, <2>1
<1> QED
  BY <1>1, <1>2 DEF IsPrefix

(* Each request of a client reaches the callback once, in the order sent,  *)
(* and only an outage loses any: at every moment the requests executed,    *)
(* then those in the object's buffer, then those on the chip are what the  *)
(* peer has sent.                                                          *)
THEOREM RequestsExactlyOnce == Spec => []ExactlyOnce
<1>1. ASSUME TableInv
      PROVE  ExactlyOnce
  <2> SUFFICES ASSUME NEW c \in Conns, ~desync[c]
               PROVE  /\ IsPrefix(Executed(c), Sent(c))
                      /\ drops = 0 =>
                           Executed(c) \o Requests(buf[c]) \o Requests(inbox[c])
                           = Sent(c)
    BY DEF ExactlyOnce
  <2>1. PICK lost \in Seq(Commands) :
          /\ Executed(c) \o (Held(c) \o lost) = Sent(c)
          /\ Lossless(c) => lost = <<>>
    BY <1>1 DEF TableInv, DeliveryInv, Delivered
  <2>2. /\ Executed(c) \in Seq(Logged) /\ Held(c) \in Seq(Commands)
        /\ Requests(buf[c]) \in Seq(Commands)
        /\ Requests(inbox[c]) \in Seq(Commands)
    BY <1>1, LogTypes DEF TableInv
  <2>3. Held(c) \o lost \in Seq(Commands)
    BY <2>2, ConcatProperties
  <2>4. /\ Held(c) \o lost \in Seq(Logged)
        /\ Requests(buf[c]) \in Seq(Logged) /\ Requests(inbox[c]) \in Seq(Logged)
    BY <2>2, <2>3, SeqMonotonic DEF Logged
  <2>5. IsPrefix(Executed(c), Sent(c))
    BY <2>1, <2>2, <2>4, PrefixOfConcat
  <2>6. ASSUME drops = 0
        PROVE  (Executed(c) \o Requests(buf[c])) \o Requests(inbox[c]) = Sent(c)
    <3>1. Held(c) \o lost = Held(c)
      BY <2>1, <2>2, <2>6, ConcatEmptySeq DEF Lossless
    <3>2. Executed(c) \o Held(c) = Sent(c)
      BY <2>1, <3>1
    <3>3. (Executed(c) \o Requests(buf[c])) \o Requests(inbox[c])
          = Executed(c) \o (Requests(buf[c]) \o Requests(inbox[c]))
      <4> DEFINE e == Executed(c)
                 b == Requests(buf[c])
                 n == Requests(inbox[c])
      <4>1. e \in Seq(Logged) /\ b \in Seq(Logged) /\ n \in Seq(Logged)
        BY <2>2, <2>4
      <4> HIDE DEF e, b, n
      <4>2. (e \o b) \o n = e \o (b \o n)
        BY <4>1, ConcatAssociative, SMTT(30)
      <4> QED
        BY <4>2 DEF e, b, n
    <3> QED
      BY <3>2, <3>3 DEF Held
  <2> QED
    BY <2>5, <2>6
<1> QED
  BY <1>1, TableInvariance, PTL

(***************************************************************************)
(* The refinement: every step of the server is one of the table or none.   *)
(***************************************************************************)
LEMMA TableMembers ==
  ASSUME IInv
  PROVE  /\ Table!Members = Members /\ Members \subseteq Conns
         /\ \A c \in Conns : Phase(c) \in {"new", "member", "left"}
                             /\ (Phase(c) = "member" <=> c \in Members)
<1>1. Members \subseteq Conns
  BY DEF IInv, TypeOK, Members
<1>2. \A c \in Conns : Phase(c) \in {"new", "member", "left"}
                       /\ (Phase(c) = "member" <=> c \in Members)
  BY DEF Phase
<1> QED
  BY <1>1, <1>2 DEF Table!Members

(* The instance counts with a Cardinality of its own. *)
LEMMA SameCardinality == \A S : Table!Cardinality(S) = Cardinality(S)
  BY DEF Table!Cardinality, Cardinality, Table!IsFiniteSet, IsFiniteSet

(* While a slot is empty, clients[] has room for one more member. *)
LEMMA RoomForOne ==
  ASSUME IInv, NEW k \in Slots, slots[k] = NoConn
  PROVE  Cardinality(Members) < MaxClients
<1> DEFINE Occupied == {i \in Slots : slots[i] # NoConn}
           holder == [i \in Occupied |-> slots[i]]
<1>1. /\ IsFiniteSet(Slots) /\ Cardinality(Slots) = MaxClients
      /\ MaxClients \in Nat
  BY FS_Interval, MaxClientsAssumption DEF Slots
<1>2. /\ IsFiniteSet(Slots \ {k})
      /\ Cardinality(Slots \ {k}) = MaxClients - 1
  BY <1>1, FS_RemoveElement
<1>3. /\ IsFiniteSet(Occupied) /\ Cardinality(Occupied) <= MaxClients - 1
      /\ Cardinality(Occupied) \in Nat
  <2>1. Occupied \subseteq Slots \ {k}
    OBVIOUS
  <2> QED
    BY <1>2, <2>1, FS_Subset, FS_CardinalityType
<1>4. holder \in Surjection(Occupied, Members)
  BY DEF Surjection, Members
<1>5. /\ IsFiniteSet(Members) /\ Cardinality(Members) <= Cardinality(Occupied)
      /\ Cardinality(Members) \in Nat
  BY <1>3, <1>4, FS_Surjection, FS_CardinalityType
<1> QED
  BY <1>1, <1>3, <1>5

(* What Phase() says of each client after a change of clients[]. *)
LEMMA EstablishRefines ==
  ASSUME IInv, UpgradeInv, Establish, \A c \in Conns : Executed(c)' = Executed(c)
  PROVE  Table!Next
<1>0. PICK c : c = cur
  OBVIOUS
<1>1. /\ c \in Conns /\ c \notin Members
      /\ ~upgraded[c] /\ upgraded' = [upgraded EXCEPT ![c] = TRUE]
  BY <1>0, EstablishEffect
<1>2. PICK k \in Slots :
        /\ slots' = [slots EXCEPT ![k] = c]
        /\ \/ k \in SameKey(c)
           \/ SameKey(c) = {} /\ slots[k] = NoConn
  BY <1>0, EstablishEffect
<1>3. /\ slots \in [Slots -> Conns \cup {NoConn}] /\ SlotsDistinct
      /\ upgraded \in [Conns -> BOOLEAN] /\ NoConn \notin Conns
  BY NamesAssumption DEF IInv, TypeOK, TcpTypeOK
<1>4. Members' = (Members \ {slots[k]}) \cup {c}
  <2>1. \A i \in Slots \ {k} : slots[i] # NoConn => slots[i] # slots[k]
    BY <1>3 DEF SlotsDistinct
  <2>2. /\ \A i \in Slots : slots'[i] = IF i = k THEN c ELSE slots[i]
        /\ slots[k] = NoConn => \A i \in Slots : slots[i] # NoConn => slots[i] # slots[k]
    BY <1>2, <1>3
  <2>3. Members' \subseteq (Members \ {slots[k]}) \cup {c}
    BY <2>1, <2>2 DEF Members, Slots
  <2>4. Members \ {slots[k]} \subseteq Members'
    <3> SUFFICES ASSUME NEW d \in Members, d # slots[k]
                 PROVE  d \in Members'
      OBVIOUS
    <3>1. PICK i \in Slots : slots[i] = d
      BY DEF Members
    <3>2. slots'[i] = d /\ d # NoConn
      BY <2>2, <3>1 DEF Members
    <3> QED
      BY <3>2 DEF Members, Slots
  <2>5. c \in Members'
    BY <1>1, <1>3, <2>2 DEF Members, Slots
  <2> QED
    BY <2>3, <2>4, <2>5
<1>5. \A d \in Conns : Phase(d)' = IF d = c THEN "member"
                                   ELSE IF d = slots[k] THEN "left" ELSE Phase(d)
  <2> SUFFICES ASSUME NEW d \in Conns
               PROVE  Phase(d)' = IF d = c THEN "member"
                                  ELSE IF d = slots[k] THEN "left" ELSE Phase(d)
    OBVIOUS
  <2>1. slots[k] # NoConn => slots[k] \in Members
    BY DEF Members
  <2>2. d = slots[k] => upgraded[d]
    BY <1>3, <2>1 DEF UpgradeInv
  <2>3. d # c => upgraded'[d] = upgraded[d]
    BY <1>1, <1>3
  <2> QED
    BY <1>4, <2>2, <2>3 DEF Phase
<1>6. Phase(c) = "new"
  BY <1>1 DEF Phase
<1>7. CASE k \in SameKey(c)
  <2>1. /\ slots[k] \in Members /\ slots[k] \in Conns /\ slots[k] # c
        /\ Key[slots[k]] = Key[c]
    BY <1>1, <1>3, <1>7 DEF SameKey, Members
  <2>2. Table!Replace(c, slots[k])
    BY <1>1, <1>5, <1>6, <2>1, TableMembers DEF Table!Replace
  <2> QED
    BY <1>1, <2>1, <2>2 DEF Table!Next
<1>8. CASE SameKey(c) = {} /\ slots[k] = NoConn
  <2>1. \A d \in Members : Key[d] # Key[c]
    BY <1>8 DEF SameKey, Members
  <2>2. Cardinality(Members) < MaxClients
    BY <1>8, RoomForOne
  <2>3. \A d \in Conns : Phase(d)' = IF d = c THEN "member" ELSE Phase(d)
    BY <1>3, <1>5, <1>8
  <2>4. Table!Members = Members
    BY TableMembers
  <2>5. Table!Join(c)
    <3>1. [d \in Conns |-> Phase(d)]' = [[d \in Conns |-> Phase(d)] EXCEPT ![c] = "member"]
      BY <1>1, <2>3
    <3>2. [d \in Conns |-> Executed(d)]' = [d \in Conns |-> Executed(d)]
      OBVIOUS
    <3>3. [d \in Conns |-> Phase(d)][c] = "new"
      BY <1>1, <1>6
    <3>4. \A d \in Table!Members : Key[d] # Key[c]
      BY <2>1, <2>4
    <3>5. Table!Cardinality(Table!Members) < MaxClients
      BY <2>2, <2>4, SameCardinality
    <3> QED
      BY <3>1, <3>2, <3>3, <3>4, <3>5 DEF Table!Join
  <2> QED
    BY <1>1, <2>5 DEF Table!Next
<1> QED
  BY <1>2, <1>7, <1>8

LEMMA DropsRefines ==
  ASSUME IInv, UpgradeInv, NEW c \in Conns, Drops(c), UNCHANGED upgraded,
         \A d \in Conns : Executed(d)' = Executed(d)
  PROVE  Table!Next
<1>1. c \in Members
  BY DEF Drops
<1>2. PICK k \in Slots : slots[k] = c /\ slots' = [slots EXCEPT ![k] = NoConn]
  BY DisconnectSafe DEF Drops
<1>3. /\ slots \in [Slots -> Conns \cup {NoConn}] /\ SlotsDistinct
      /\ NoConn \notin Conns
  BY NamesAssumption DEF IInv, TypeOK
<1>4. Members' = Members \ {c}
  <2>1. \A i \in Slots \ {k} : slots[i] # c
    BY <1>2, <1>3 DEF SlotsDistinct
  <2>2. \A i \in Slots : slots'[i] = IF i = k THEN NoConn ELSE slots[i]
    BY <1>2, <1>3
  <2>3. Members' \subseteq Members \ {c}
    BY <2>1, <2>2 DEF Members, Slots
  <2>4. ASSUME NEW d \in Members, d # c
        PROVE  d \in Members'
    <3>1. PICK i \in Slots : slots[i] = d
      BY DEF Members
    <3>2. slots'[i] = d /\ d # NoConn
      BY <1>2, <2>2, <2>4, <3>1 DEF Members
    <3> QED
      BY <3>2 DEF Members, Slots
  <2> QED
    BY <2>3, <2>4
<1>5. \A d \in Conns : Phase(d)' = IF d = c THEN "left" ELSE Phase(d)
  BY <1>1, <1>4 DEF Phase, UpgradeInv
<1>6. Table!Leave(c)
  BY <1>1, <1>5, TableMembers DEF Table!Leave
<1> QED
  BY <1>6 DEF Table!Next

(* A frame, or what is taken for one, is a request executed or nothing. *)
LEMMA ReadFrameRefines ==
  ASSUME IInv, ReadFrame
  PROVE  Table!Next
<1>0. PICK c : c = cur
  OBVIOUS
<1>1. /\ c \in Conns /\ c \in Members /\ req' \in Commands
      /\ Executed(c)' = Append(Executed(c), req')
  BY <1>0, ReadFrameEffect
<1>2. UNCHANGED <<slots, upgraded>>
  BY DEF ReadFrame
<1>3. \A d \in Conns : Phase(d)' = Phase(d)
  BY <1>2 DEF Phase, Members, Slots
<1>4. \A d \in Conns : Executed(d)' = IF d = c THEN Append(Executed(c), req')
                                      ELSE Executed(d)
  BY <1>0, <1>1, LogSteps DEF Next, DoIt
<1>5. Table!Execute(c, req')
  BY <1>1, <1>3, <1>4, TableMembers DEF Table!Execute
<1> QED
  BY <1>1, <1>5 DEF Table!Next

LEMMA ReadGarbageRefines ==
  ASSUME IInv, ReadGarbage
  PROVE  [Table!Next]_(Table!vars)
<1>0. PICK c : c = cur
  OBVIOUS
<1>1. /\ c \in Conns /\ c \in Members
      /\ req' \in {NoRequest, Garbage} /\ pc = "get" /\ pc' = "framed"
      /\ UNCHANGED <<slots, upgraded, cur, handled>>
  BY <1>0, InHand DEF ReadGarbage
<1>2. handled[c] \in Seq(Logged)
  BY <1>1, LogTypes
<1>3. \A d \in Conns : Phase(d)' = Phase(d)
  BY <1>1 DEF Phase, Members, Slots
<1>4. Executed(c) = handled[c]
  BY <1>1, <1>2, ConcatEmptySeq DEF Executed, Pending
<1>5. \A d \in Conns \ {c} : Executed(d)' = Executed(d)
  BY <1>0, LogSteps DEF Next, DoIt
<1>6. CASE req' = NoRequest
  <2>1. Pending(c)' = <<>>
    BY <1>6 DEF Pending
  <2>2. Executed(c)' = Executed(c)
    BY <1>1, <1>2, <1>4, <2>1, ConcatEmptySeq DEF Executed
  <2> QED
    BY <1>3, <1>5, <2>2 DEF Table!vars
<1>7. CASE req' = Garbage
  <2>1. Pending(c)' = <<Garbage>>
    BY <1>0, <1>1, <1>7 DEF Pending, Garbage, NoRequest
  <2>2. Executed(c)' = Append(Executed(c), Garbage)
    BY <1>1, <1>2, <1>4, <2>1, AppendIsConcat DEF Executed, Logged
  <2>3. \A d \in Conns : Executed(d)' = IF d = c THEN Append(Executed(c), Garbage)
                                        ELSE Executed(d)
    BY <1>5, <2>2
  <2>4. Table!Execute(c, Garbage)
    BY <1>1, <1>3, <2>3, TableMembers DEF Table!Execute
  <2> QED
    BY <1>1, <2>4 DEF Table!Next
<1> QED
  BY <1>1, <1>6, <1>7

LEMMA TableRefines ==
  ASSUME TableInv, [Next]_vars
  PROVE  [Table!Next]_(Table!vars)
<1>0. IInv /\ UpgradeInv
  BY DEF TableInv
<1>1. CASE ReadFrame
  BY <1>0, <1>1, ReadFrameRefines
<1>2. CASE ReadGarbage
  BY <1>0, <1>2, ReadGarbageRefines
<1>3. CASE ~(ReadFrame \/ ReadGarbage)
  <2>1. \A c \in Conns : Executed(c)' = Executed(c)
    BY <1>0, <1>3, LogSteps
  <2>2. CASE Establish
    BY <1>0, <2>1, <2>2, EstablishRefines
  <2>3. ASSUME NEW c \in Conns, Drops(c), UNCHANGED upgraded
        PROVE  Table!Next
    BY <1>0, <2>1, <2>3, DropsRefines
  <2>4. CASE UNCHANGED <<slots, upgraded>>
    <3>1. \A c \in Conns : Phase(c)' = Phase(c)
      BY <2>4 DEF Phase, Members, Slots
    <3> QED
      BY <2>1, <3>1 DEF Table!vars
  <2>5. ASSUME NEW c \in Conns, NEW s \in Sds, Accept(c, s)
        PROVE  UNCHANGED <<slots, upgraded>>
    BY <2>5 DEF Accept
  <2> QED
    BY <1>0, <2>2, <2>3, <2>4, <2>5, TableSteps
<1> QED
  BY <1>1, <1>2, <1>3

LEMMA TableStart == Init => Table!Init
<1> SUFFICES ASSUME Init PROVE Table!Init
  OBVIOUS
<1>1. \A c \in Conns : c \notin Members /\ ~upgraded[c]
  BY NamesAssumption DEF Init, TcpInit, Members
<1>2. \A c \in Conns : Executed(c) = <<>>
  BY EmptySeq, ConcatEmptySeq DEF Init, Executed, Pending
<1> QED
  BY <1>1, <1>2 DEF Table!Init, Phase

(* The server is the table of clients it promises to be: clients join      *)
(* while there is room or take over an equal's place, have their requests  *)
(* executed while they are members, and leave for good.                    *)
THEOREM ServerIsATable == Spec => ImplementsTable
<1>1. Init => Table!Init
  BY TableStart
<1>2. TableInv /\ [Next]_vars => [Table!Next]_(Table!vars)
  BY TableRefines
<1> QED
  BY <1>1, <1>2, TableInvariance, PTL DEF Spec, ImplementsTable, Table!Spec

(***************************************************************************)
(* A pass of doIt() comes to its end, whatever the peers do meanwhile: it  *)
(* takes one connection at most, reads one request at most of each client, *)
(* and only the header lines of the new one as they come.                  *)
(***************************************************************************)

(* The part of the pass doIt() is in; what it has still to go through in   *)
(* that part, header lines or slots; and what it does about one slot.      *)
PassPart ==
  IF pc = "accept" THEN (IF lsock = NoSock THEN 6 ELSE 5)
  ELSE IF pc = "new" THEN 4 ELSE IF pc = "headers" THEN 3
  ELSE IF pc = "verdict" THEN 2 ELSE IF pc = "dfu" THEN 0 ELSE 1

TokensLeft(c) == (Len(script[c]) - sent[c]) + Len(inbox[c]) + Len(buf[c])

PartLeft ==
  IF pc = "headers" THEN TokensLeft(cur)
  ELSE IF PassPart = 1 THEN MaxClients + 1 - idx ELSE 0

SlotLeft ==
  IF pc = "scan" THEN MaxClients + 7 ELSE IF pc = "recheck" THEN MaxClients + 6
  ELSE IF pc = "get" THEN MaxClients + 5 ELSE IF pc = "framed" THEN MaxClients + 4
  ELSE IF pc = "dfuscan" THEN 3 + (MaxClients + 1 - scanned)
  ELSE IF pc = "call" THEN 2 ELSE IF pc \in {"send", "empty"} THEN 1 ELSE 0

NearerEnd ==
  \/ PassPart' < PassPart
  \/ PassPart' = PassPart /\ PartLeft' < PartLeft
  \/ PassPart' = PassPart /\ PartLeft' = PartLeft /\ SlotLeft' < SlotLeft

(* Every step of doIt() but the last of a pass brings its end nearer, and  *)
(* no event of a peer, the chip or the network puts it off: a client that  *)
(* sends without a pause cannot keep the server from the others.           *)
PassesEnd ==
  /\ [](PartLeft \in Nat /\ SlotLeft \in Nat)
  /\ [][/\ DoIt => EndPass \/ NearerEnd
        /\ Environment => UNCHANGED <<PassPart, PartLeft, SlotLeft>>]_vars

LEMMA TokensLeftType ==
  ASSUME IInv, SentInv, NEW c \in Conns
  PROVE  TokensLeft(c) \in Nat
<1>1. /\ script[c] \in Seq(Tokens) /\ sent[c] \in Nat /\ sent[c] <= Len(script[c])
      /\ inbox[c] \in Seq(Tokens) /\ buf[c] \in Seq(Tokens)
  BY ScriptsAssumption DEF IInv, TypeOK, TcpTypeOK, SockTypeOK, SentInv
<1>2. Len(script[c]) \in Nat /\ Len(inbox[c]) \in Nat /\ Len(buf[c]) \in Nat
  BY <1>1, LenProperties
<1> QED
  BY <1>1, <1>2 DEF TokensLeft

LEMMA PassTypes ==
  ASSUME TableInv
  PROVE  PartLeft \in Nat /\ SlotLeft \in Nat
<1>1. ControlTypeOK /\ MaxClients \in Nat
  BY MaxClientsAssumption DEF TableInv, IInv, TypeOK
<1>2. PartLeft \in Nat
  <2>1. CASE pc = "headers"
    <3>1. cur \in Conns
      BY <1>1, <2>1 DEF ControlTypeOK
    <3> QED
      BY <2>1, <3>1, TokensLeftType DEF TableInv, PartLeft
  <2>2. CASE pc # "headers"
    <3>1. MaxClients + 1 - idx \in Nat
      BY <1>1 DEF ControlTypeOK
    <3> QED
      BY <2>2, <3>1 DEF PartLeft
  <2> QED
    BY <2>1, <2>2
<1>3. SlotLeft \in Nat
  <2>1. MaxClients + 1 - scanned \in Nat
    BY <1>1 DEF ControlTypeOK
  <2> QED
    BY <1>1, <2>1 DEF SlotLeft
<1> QED
  BY <1>2, <1>3

(* A header line that is read is one token less.                           *)
LEMMA LineRead ==
  ASSUME TableInv, ReadLine
  PROVE  PassPart' = PassPart /\ PartLeft' < PartLeft
<1>1. /\ pc = "headers" /\ pc' = "headers" /\ cur' = cur /\ Pulled(cur) # <<>>
      /\ Pull(cur, Tail(Pulled(cur))) /\ UNCHANGED <<script, sent>>
  BY DEF ReadLine, netVars
<1>2. cur \in Conns /\ heap[cur] = "live"
  BY <1>1 DEF TableInv, IInv, TypeOK, ControlTypeOK, CurInv
<1>3. /\ buf \in [Conns -> Seq(Tokens)] /\ inbox \in [Conns -> Seq(Tokens)]
  BY DEF TableInv, IInv, TypeOK, TcpTypeOK, SockTypeOK
<1>4. Pulled(cur) \in Seq(Tokens)
  BY <1>2, PulledType DEF TableInv, IInv, TypeOK, TcpTypeOK
<1>5. /\ buf'[cur] = Tail(Pulled(cur)) /\ Len(Tail(Pulled(cur))) = Len(Pulled(cur)) - 1
      /\ Len(Pulled(cur)) \in Nat /\ Len(inbox[cur]) \in Nat /\ Len(buf[cur]) \in Nat
  BY <1>1, <1>2, <1>3, <1>4, HeadTailProperties, LenProperties DEF Pull
<1>6. Len(Pulled(cur)) + Len(inbox'[cur]) = Len(buf[cur]) + Len(inbox[cur])
  <2>1. CASE wifi /\ isOpen(cur)
    <3>1. inbox' = [inbox EXCEPT ![cur] = <<>>] /\ Pulled(cur) = buf[cur] \o inbox[cur]
      BY <1>1, <1>2, <2>1, OwnHandle DEF TableInv, Pull, Pulled
    <3>2. Len(inbox'[cur]) = 0
      BY <1>2, <1>3, <3>1, EmptySeq
    <3>3. Len(buf[cur] \o inbox[cur]) = Len(buf[cur]) + Len(inbox[cur])
      BY <1>2, <1>3, ConcatProperties
    <3>4. Len(Pulled(cur)) = Len(buf[cur]) + Len(inbox[cur])
      BY <3>1, <3>3
    <3> DEFINE left == Len(inbox'[cur])
               read == Len(Pulled(cur))
    <3>5. left = 0 /\ read \in Nat /\ read = Len(buf[cur]) + Len(inbox[cur])
      BY <1>5, <3>2, <3>4
    <3>6. read + left = Len(buf[cur]) + Len(inbox[cur])
      <4> HIDE DEF left, read
      <4> QED
        BY <3>5
    <3> QED
      BY <3>6
  <2>2. CASE ~(wifi /\ isOpen(cur))
    <3>1. inbox' = inbox /\ Pulled(cur) = buf[cur]
      BY <1>1, <2>2 DEF Pull, Pulled, InboxTaken
    <3> QED
      BY <3>1
  <2> QED
    BY <2>1, <2>2
<1>7. TokensLeft(cur) \in Nat
  BY <1>2, TokensLeftType DEF TableInv
<1>8. TokensLeft(cur)' = TokensLeft(cur) - 1
  <2> DEFINE unsent == Len(script[cur]) - sent[cur]
             queued == Len(inbox[cur])
             left == Len(inbox'[cur])
             held == Len(buf[cur])
             kept == Len(buf'[cur])
             read == Len(Pulled(cur))
  <2>1. unsent \in Int /\ left \in Int
    <3>1. Len(script[cur]) \in Nat /\ sent[cur] \in Nat
      BY <1>2, ScriptsAssumption, LenProperties DEF TableInv, IInv, TypeOK, TcpTypeOK
    <3>2. inbox'[cur] \in Seq(Tokens)
      BY <1>1, <1>2, PullTokens DEF TableInv
    <3> QED
      BY <3>1, <3>2, LenProperties
  <2>2. /\ TokensLeft(cur) = (unsent + queued) + held
        /\ TokensLeft(cur)' = (unsent + left) + kept
    BY <1>1 DEF TokensLeft
  <2>3. /\ queued \in Int /\ held \in Int /\ kept \in Int /\ read \in Int
        /\ kept = read - 1 /\ read + left = held + queued
    <3>1. Len(buf'[cur]) = Len(Tail(Pulled(cur)))
      BY <1>5
    <3>2. Len(buf'[cur]) = Len(Pulled(cur)) - 1
      BY <1>5, <3>1
    <3>3. Len(buf'[cur]) \in Int
      BY <1>5, <3>2
    <3>4. queued \in Int /\ held \in Int /\ kept \in Int /\ read \in Int
      BY <1>5, <3>3
    <3>5. kept = read - 1
      BY <3>2
    <3>6. read + left = held + queued
      BY <1>6
    <3> QED
      BY <3>4, <3>5, <3>6
  <2> HIDE DEF unsent, queued, left, held, kept, read
  <2>4. (unsent + left) + kept = ((unsent + queued) + held) - 1
    BY <2>1, <2>3
  <2> QED
    BY <2>2, <2>4
<1>9. PartLeft = TokensLeft(cur) /\ PartLeft' = TokensLeft(cur)'
  BY <1>1 DEF PartLeft
<1>10. PartLeft' < PartLeft
  BY <1>7, <1>8, <1>9
<1> QED
  BY <1>1, <1>10 DEF PassPart

LEMMA PassSteps ==
  ASSUME TableInv, DoIt
  PROVE  EndPass \/ NearerEnd
<1>0. /\ ControlTypeOK /\ MaxClients \in Nat /\ lsock \in Sds \cup {NoSock}
  BY MaxClientsAssumption DEF TableInv, IInv, TypeOK, TcpTypeOK
<1>1. CASE \E s \in Sds : Begin(s)
  <2>1. PICK s \in Sds : Begin(s)
    BY <1>1
  <2>2. pc = "accept" /\ lsock = NoSock
    BY <2>1 DEF Begin
  <2>3. CASE lsock' = s /\ Goto("accept")
    <3>1. lsock' # NoSock /\ pc' = "accept"
      BY <2>3, NamesAssumption DEF Goto
    <3> QED
      BY <2>2, <3>1 DEF NearerEnd, PassPart
  <2>4. CASE StartScan
    <3>1. pc' = "scan"
      BY <2>4 DEF StartScan
    <3> QED
      BY <2>2, <3>1 DEF NearerEnd, PassPart
  <2>5. (lsock' = s /\ Goto("accept")) \/ StartScan
    BY <2>1 DEF Begin
  <2> QED
    BY <2>3, <2>4, <2>5
<1>2. CASE (\E c \in Conns, s \in Sds : Accept(c, s)) \/ NoAccept
  <2>1. pc = "accept" /\ pc' \in {"new", "scan"}
    BY <1>2 DEF Accept, NoAccept, StartScan
  <2> QED
    BY <2>1 DEF NearerEnd, PassPart
<1>3. CASE NewClient \/ IgnoreClient \/ EndOfRequest \/ Establish \/ Refuse
  <2>1. \/ pc = "new" /\ pc' \in {"headers", "scan"}
        \/ pc = "headers" /\ pc' = "verdict"
        \/ pc = "verdict" /\ pc' = "scan"
    BY <1>3 DEF NewClient, IgnoreClient, EndOfRequest, Establish, Refuse, StartScan, Goto
  <2> QED
    BY <2>1 DEF NearerEnd, PassPart
<1>4. CASE ReadLine
  BY <1>4, LineRead DEF NearerEnd
<1>5. ASSUME pc \in {"scan", "recheck", "empty", "send"}, pc' = "scan", idx' = idx + 1
      PROVE  NearerEnd
  <2>1. PassPart = 1 /\ PassPart' = 1
    BY <1>5 DEF PassPart
  <2>2. PartLeft = MaxClients + 1 - idx /\ PartLeft' = MaxClients + 1 - (idx + 1)
    BY <1>5, <2>1 DEF PartLeft
  <2>3. MaxClients + 1 - (idx + 1) < MaxClients + 1 - idx
    BY <1>0 DEF ControlTypeOK
  <2> QED
    BY <2>1, <2>2, <2>3 DEF NearerEnd
<1>6. ASSUME pc \in PCs \ {"accept", "new", "headers", "verdict", "dfu"},
             pc' \in PCs \ {"accept", "new", "headers", "verdict", "dfu"}, idx' = idx,
             SlotLeft' < SlotLeft
      PROVE  NearerEnd
  <2>1. PassPart = 1 /\ PassPart' = 1
    BY <1>6 DEF PassPart, PCs
  <2>2. PartLeft' = PartLeft
    BY <1>6, <2>1 DEF PartLeft, PCs
  <2> QED
    BY <1>6, <2>1, <2>2 DEF NearerEnd
<1>7. CASE SkipSlot \/ DropClient \/ Heartbeat \/ SendResult
  <2>1. pc \in {"scan", "empty", "send"} /\ pc' = "scan" /\ idx' = idx + 1
    BY <1>7 DEF SkipSlot, DropClient, Heartbeat, SendResult, NextSlot
  <2> QED
    BY <1>5, <2>1
<1>8. CASE CheckClient
  <2>1. pc = "scan" /\ pc' = "recheck" /\ idx' = idx
    BY <1>8 DEF CheckClient
  <2> QED
    BY <1>0, <1>6, <2>1 DEF SlotLeft, PCs
<1>9. CASE RecheckClient
  <2>1. /\ pc = "recheck"
        /\ (pc' = "get" /\ idx' = idx) \/ (pc' = "scan" /\ idx' = idx + 1)
    BY <1>9 DEF RecheckClient, NextSlot, Goto
  <2>2. CASE pc' = "get" /\ idx' = idx
    BY <1>0, <1>6, <2>1, <2>2 DEF SlotLeft, PCs
  <2> QED
    BY <1>5, <2>1, <2>2
<1>10. CASE ReadFrame \/ ReadGarbage \/ ReadNothing
  <2>1. pc = "get" /\ pc' \in {"framed", "empty"} /\ idx' = idx
    BY <1>10 DEF ReadFrame, ReadGarbage, ReadNothing, Goto
  <2>2. SlotLeft = MaxClients + 5 /\ SlotLeft' \in {MaxClients + 4, 1}
    BY <2>1 DEF SlotLeft
  <2>3. SlotLeft' < SlotLeft
    BY <1>0, <2>2
  <2> QED
    BY <1>6, <2>1, <2>3 DEF PCs
<1>11. CASE FrameDone
  <2>1. /\ pc = "framed" /\ pc' \in {"empty", "dfuscan", "call"} /\ idx' = idx
        /\ scanned' = 1
    BY <1>11 DEF FrameDone, AfterFrame
  <2>2. SlotLeft = MaxClients + 4 /\ SlotLeft' \in {3 + (MaxClients + 1 - 1), 2, 1}
    BY <2>1 DEF SlotLeft
  <2>3. SlotLeft' < SlotLeft
    BY <1>0, <2>2
  <2> QED
    BY <1>6, <2>1, <2>3 DEF PCs
<1>12. CASE DfuScan
  <2>1. /\ pc = "dfuscan" /\ pc' = "dfuscan" /\ idx' = idx /\ scanned' = scanned + 1
    BY <1>12 DEF DfuScan
  <2>2. /\ SlotLeft = 3 + (MaxClients + 1 - scanned)
        /\ SlotLeft' = 3 + (MaxClients + 1 - (scanned + 1))
    BY <2>1 DEF SlotLeft
  <2>3. SlotLeft' < SlotLeft
    BY <1>0, <2>2 DEF ControlTypeOK
  <2> QED
    BY <1>6, <2>1, <2>3 DEF PCs
<1>13. CASE DfuScanned
  <2>1. pc = "dfuscan" /\ pc' = "call" /\ idx' = idx
    BY <1>13 DEF DfuScanned, Goto
  <2>2. SlotLeft = 3 + (MaxClients + 1 - scanned) /\ SlotLeft' = 2
    BY <2>1 DEF SlotLeft
  <2>3. SlotLeft' < SlotLeft
    BY <1>0, <2>2 DEF ControlTypeOK
  <2> QED
    BY <1>6, <2>1, <2>3 DEF PCs
<1>14. CASE CallBack
  <2>1. pc = "call" /\ pc' \in {"dfu", "send"} /\ idx' = idx
    BY <1>14 DEF CallBack, AfterCall, Goto
  <2>2. CASE pc' = "dfu"
    BY <2>1, <2>2 DEF NearerEnd, PassPart
  <2>3. CASE pc' = "send"
    BY <1>6, <2>1, <2>3 DEF SlotLeft, PCs
  <2> QED
    BY <2>1, <2>2, <2>3
<1> QED
  BY <1>1, <1>2, <1>3, <1>4, <1>7, <1>8, <1>9, <1>10, <1>11, <1>12, <1>13, <1>14 DEF DoIt

LEMMA NetworkPutsNothingOff ==
  ASSUME TableInv, Environment
  PROVE  UNCHANGED <<PassPart, PartLeft, SlotLeft>>
<1>1. UNCHANGED <<pc, idx, cur, scanned>> /\ lsock' = lsock
  BY DEF Environment, doItVars, Network, PeerConnects, PeerSends, PeerCloses,
         CloseWaitEvent, WifiDown, WifiUp
<1>2. PassPart' = PassPart /\ SlotLeft' = SlotLeft
  BY <1>1 DEF PassPart, SlotLeft
<1>3. ASSUME pc = "headers"
      PROVE  TokensLeft(cur)' = TokensLeft(cur)
  <2>0. cur \in Conns
    BY <1>3 DEF TableInv, IInv, TypeOK, ControlTypeOK
  <2>1. CASE UNCHANGED <<script, sent, inbox, buf>>
    BY <1>1, <2>1 DEF TokensLeft
  <2>2. ASSUME NEW c \in Conns, PeerSends(c)
        PROVE  TokensLeft(cur)' = TokensLeft(cur)
    <3>1. /\ sent' = [sent EXCEPT ![c] = @ + 1] /\ UNCHANGED <<script, buf>>
          /\ inbox' = [inbox EXCEPT ![c] = Append(@, script[c][sent[c] + 1])]
      BY <2>2 DEF PeerSends
    <3>2. /\ inbox \in [Conns -> Seq(Tokens)] /\ sent \in [Conns -> Nat]
          /\ script[cur] \in Seq(Tokens) /\ buf[cur] \in Seq(Tokens)
      BY <2>0, ScriptsAssumption DEF TableInv, IInv, TypeOK, TcpTypeOK, SockTypeOK
    <3>3. CASE c # cur
      BY <1>1, <2>0, <3>1, <3>2, <3>3 DEF TokensLeft
    <3>4. CASE c = cur
      <4>1. sent'[cur] = sent[cur] + 1
        BY <3>1, <3>2, <3>4
      <4>2. Len(inbox'[cur]) = Len(inbox[cur]) + 1
        <5>1. sent[cur] < Len(script[cur]) /\ sent[cur] \in Nat
          BY <2>0, <2>2, <3>2, <3>4 DEF PeerSends
        <5>2. script[cur][sent[cur] + 1] \in Tokens
          BY <3>2, <5>1, LenProperties
        <5>3. inbox'[cur] = Append(inbox[cur], script[cur][sent[cur] + 1])
          BY <3>1, <3>2, <3>4
        <5> QED
          BY <2>0, <3>2, <5>2, <5>3, AppendProperties
      <4>3. Len(script[cur]) \in Nat /\ Len(inbox[cur]) \in Nat /\ Len(buf[cur]) \in Nat
            /\ sent[cur] \in Nat
        BY <2>0, <3>2, LenProperties
      <4> QED
        BY <1>1, <3>1, <4>1, <4>2, <4>3 DEF TokensLeft
    <3> QED
      BY <3>3, <3>4
  <2>3. ASSUME NEW c \in Conns, PeerConnects(c) \/ PeerCloses(c)
        PROVE  UNCHANGED <<script, sent, inbox, buf>>
    BY <2>3 DEF PeerConnects, PeerCloses, sockVars
  <2>4. ASSUME NEW s \in Sds, CloseWaitEvent(s)
        PROVE  UNCHANGED <<script, sent, inbox, buf>>
    BY <2>4 DEF CloseWaitEvent, netVars
  <2>5. ASSUME WifiDown \/ WifiUp
        PROVE  UNCHANGED <<script, sent, inbox, buf>>
    BY <2>5 DEF WifiDown, WifiUp, sockVars
  <2> QED
    BY <2>1, <2>2, <2>3, <2>4, <2>5 DEF Environment, Network
<1> QED
  BY <1>1, <1>2, <1>3 DEF PartLeft

(* doIt() never stays in a pass: for every number of slots and peers, each *)
(* of its steps leaves less to do before loop() calls it again, and no     *)
(* peer, event or outage adds to that.                                     *)
THEOREM PassComesToAnEnd == Spec => PassesEnd
<1>1. TableInv => PartLeft \in Nat /\ SlotLeft \in Nat
  BY PassTypes
<1>2. TableInv /\ [Next]_vars =>
        [/\ DoIt => EndPass \/ NearerEnd
         /\ Environment => UNCHANGED <<PassPart, PartLeft, SlotLeft>>]_vars
  BY PassSteps, NetworkPutsNothingOff
<1> QED
  BY <1>1, <1>2, TableInvariance, PTL DEF Spec, PassesEnd

(* When no two peers have the same key, which the repository's README takes *)
(* for granted, no client that is there is put out by another's handshake:  *)
(* ClientsCoexist fails for equal keys only.                                *)
THEOREM CoexistWhenKeysDiffer ==
  ASSUME \A c, d \in Conns : Key[c] = Key[d] => c = d
  PROVE  Spec => ClientsCoexist
<1>1. ASSUME TableInv, [Next]_vars
      PROVE  \A i \in Slots : slots[i] # NoConn /\ peer[slots[i]] = "open" =>
               slots'[i] \in {slots[i], NoConn}
  <2> SUFFICES ASSUME NEW i \in Slots, slots[i] # NoConn, slots'[i] # slots[i],
                      slots'[i] # NoConn
               PROVE  FALSE
    OBVIOUS
  <2>1. Key[slots'[i]] = Key[slots[i]]
    BY <1>1, SlotKept DEF TableInv
  <2>2. slots[i] \in Conns /\ slots'[i] \in Conns
    BY <1>1, TableNext DEF TableInv, IInv, TypeOK
  <2> QED
    BY <2>1, <2>2
<1> QED
  BY <1>1, TableInvariance, PTL DEF Spec, ClientsCoexist
=============================================================================
