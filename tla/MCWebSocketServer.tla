------------------------- MODULE MCWebSocketServer -------------------------
(***************************************************************************)
(* Instances of WebSocketServer for TLC: what the peers send, which peers  *)
(* have equal keys, and how many there are.                                *)
(***************************************************************************)
EXTENDS WebSocketServer, TLC

CONSTANTS c1, c2

TwoConns == {c1, c2}

DistinctKeys == [c \in Conns |-> c]
OneKey == [c \in Conns |-> c1]

\* Requests, a restart into the bootloader, and a client of a hixie draft.
MixedScripts ==
  {<<"upgrade", "key", "read", "write">>, <<"upgrade", "key", "dfu">>,
   <<"hixie">>}
\* Header lines behind the last one the server needs; another protocol.
LateScripts == {<<"upgrade", "key", "other", "read">>, <<"other">>}
\* A client of the final protocol, and one of a hixie draft.
PlainScripts == {<<"upgrade", "key", "read">>}
HixieScripts == PlainScripts \cup {<<"hixie">>}

SdSymmetry == Permutations(Sds)
=============================================================================
