----------------------------- MODULE ByteStream -----------------------------
(***************************************************************************)
(* What a TCPClient promises its reader: the bytes of the peer, each once, *)
(* in order.  Some of the tail may be lost when the connection ends.       *)
(***************************************************************************)
EXTENDS Sequences

CONSTANT Bytes

VARIABLES queue,   \* bytes sent and not read
          got      \* bytes read

vars == <<queue, got>>

Init == queue = <<>> /\ got = <<>>

Put(b) == queue' = Append(queue, b) /\ UNCHANGED got

Get ==
  /\ queue # <<>>
  /\ got' = Append(got, Head(queue))
  /\ queue' = Tail(queue)

Next == (\E b \in Bytes : Put(b)) \/ Get

Spec == Init /\ [][Next]_vars
=============================================================================
