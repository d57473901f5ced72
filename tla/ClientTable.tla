---------------------------- MODULE ClientTable ----------------------------
(***************************************************************************)
(* What the WebSocket server promises, without sockets: clients join,      *)
(* have their requests executed while they are members, and leave for      *)
(* good.  A joining client takes over the place of a member with its key.  *)
(***************************************************************************)
EXTENDS Naturals, Sequences, FiniteSets

CONSTANTS Conns, Key, MaxClients, Requested

VARIABLES phase,   \* "new", "member" or "left"
          log      \* the requests executed for each client

vars == <<phase, log>>

Members == {c \in Conns : phase[c] = "member"}

Init ==
  /\ phase = [c \in Conns |-> "new"]
  /\ log = [c \in Conns |-> <<>>]

Join(c) ==
  /\ phase[c] = "new"
  /\ Cardinality(Members) < MaxClients
  /\ \A d \in Members : Key[d] # Key[c]
  /\ phase' = [phase EXCEPT ![c] = "member"]
  /\ UNCHANGED log

Replace(c, d) ==
  /\ phase[c] = "new" /\ d \in Members /\ Key[d] = Key[c]
  /\ phase' = [phase EXCEPT ![c] = "member", ![d] = "left"]
  /\ UNCHANGED log

Leave(c) ==
  /\ c \in Members
  /\ phase' = [phase EXCEPT ![c] = "left"]
  /\ UNCHANGED log

Execute(c, r) ==
  /\ c \in Members
  /\ log' = [log EXCEPT ![c] = Append(@, r)]
  /\ UNCHANGED phase

Next ==
  \E c \in Conns :
    \/ Join(c) \/ Leave(c)
    \/ \E d \in Conns : Replace(c, d)
    \/ \E r \in Requested : Execute(c, r)

Spec == Init /\ [][Next]_vars
=============================================================================
