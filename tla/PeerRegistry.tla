---------------------------- MODULE PeerRegistry ----------------------------
(***************************************************************************)
(* What CONNECT and DISCONNECT promise a user who issues one command at a  *)
(* time: a table of connections with one entry per address, each with a    *)
(* descriptor of its own, changed atomically.                              *)
(***************************************************************************)
CONSTANTS Addr, Fd

VARIABLES
  table,  \* the connections, pairs <<address, descriptor>>
  up      \* btide is running

Init == table = {} /\ up = TRUE

Connect(a, f) ==
  /\ up
  /\ \A c \in table : c[1] # a /\ c[2] # f
  /\ table' = table \cup {<<a, f>>}
  /\ UNCHANGED up

Disconnect(a) ==
  /\ up
  /\ \E f \in Fd : <<a, f>> \in table /\ table' = table \ {<<a, f>>}
  /\ UNCHANGED up

Stop ==
  /\ up
  /\ table' = {}
  /\ up' = FALSE

Next ==
  \/ \E a \in Addr, f \in Fd : Connect(a, f)
  \/ \E a \in Addr : Disconnect(a)
  \/ Stop

Spec == Init /\ [][Next]_<<table, up>>
=============================================================================
