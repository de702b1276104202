------------------------------ MODULE PeersInv ------------------------------
(***************************************************************************)
(* The inductive invariant of Peers.  Reachability from the sentinel is    *)
(* not inductive, so everything is said locally: which nodes a pointer may *)
(* lead to, who may point to the node DISCONNECT is taking out, and in     *)
(* which order nodes were appended.                                        *)
(***************************************************************************)
EXTENDS Peers

Linked(n) == n = Head \/ (n \in Peer /\ pc[n] = "linked")

Live(n) == mem[n] = "live"

\* Only nodes that add_peer has linked are ever pointed to, by the list, by
\* a client thread or by the CLI, and nothing points to the sentinel.
PointersLinked ==
  /\ \A n \in Node : next[n] # Null => next[n] # Head /\ Linked(next[n])
  /\ \A p \in Peer : pc[p] # "linked" => next[p] = Null
  /\ \A p \in Peer : temp[p] # Null => Linked(temp[p])
  /\ cur # Null => Linked(cur)
  /\ prev # Null => Linked(prev)
  /\ succ # Null => succ # Head /\ Linked(succ)

\* A node belongs to the CLI until its thread starts, then to the thread
\* until it is linked.
NodesOwned ==
  /\ \A p \in Peer : Live(p) \/ pc[p] \notin {"connect", "test", "step",
                                              "write"}
  /\ \A p \in Peer : pc[p] = "socket" /\ process = "running" => Live(p)
  /\ \A p \in Peer : mem[p] = "unallocated" => pc[p] = "none"
  /\ cli \in {"c_lock", "c_find", "c_find_again", "c_create"} =>
       node # Null /\ Live(node) /\ pc[node] = "none"

\* Pointers lead from older to younger nodes, in the list and between the
\* registers of DISCONNECT.
AgesOrdered ==
  /\ \A n \in Node : born[n] <= clock
  /\ NextIsYounger
  /\ cli \in {"d_walk", "d_unlink"} /\ prev # Null => born[prev] < born[cur]
  /\ cli \in {"d_unlink", "q_free"} /\ succ # Null =>
       born[cur] < born[succ]

\* DISCONNECT has unlinked this node and is about to free it.
Doomed(n) == cli \in {"d_close", "d_free"} /\ n = cur

\* Apart from the doomed node, two nodes in memory never share a successor;
\* only prev may point to the node DISCONNECT looks at, nobody points to
\* the node about to be freed, and only current points to the successor
\* that DISCONNECT or free_peers has read.
OnePredecessor ==
  /\ \A m, n \in Node :
       Live(m) /\ Live(n) /\ next[m] # Null /\ next[m] = next[n]
       => m = n \/ Doomed(m) \/ Doomed(n)
  /\ \A n \in Node : Live(n) /\ next[n] # Null =>
       /\ cli \in {"d_walk", "d_unlink"} /\ next[n] = cur => n = prev
       /\ cli \in {"d_close", "d_free", "q_next", "q_free"} => next[n] # cur
       /\ cli \in {"d_unlink", "q_free"} /\ next[n] = succ => n = cur

\* CliCursorLive, without the reason for the one pointer that is NULL.
CursorLive ==
  cli \in Walking =>
    \/ cur # Null /\ Live(cur)
    \/ cur = Null /\ process = "null_deref" /\ cli = "c_find_again"

\* What the CLI holds is in memory.
RegistersLive ==
  /\ CursorLive
  /\ cli = "p_lock" /\ cur # Null => Live(cur)
  /\ cli \in {"d_walk", "d_unlink"} /\ prev # Null => Live(prev)
  /\ cli \in {"d_unlink", "q_free"} /\ succ # Null => Live(succ)
  /\ cli \notin {"d_walk", "d_unlink", "d_close", "d_free"} => prev = Null

\* The sentinel has no address a command can name, so only QUIT frees it.
SentinelStays ==
  /\ cli \notin Leaving => Live(Head)
  /\ addr[Head] = NoAddr
  /\ cli \in {"d_lock", "d_walk"} => target # NoAddr
  /\ cli \in {"c_lock", "c_find", "c_find_again"} => addr[node] # NoAddr
  /\ cli \in {"d_unlink", "d_close", "d_free"} => cur # Head

\* Which descriptor connect_client's local and the node hold, by how far
\* the thread has come.
DescriptorsByStage ==
  \A p \in Peer :
    /\ pc[p] \in {"none", "socket", "dropped"} => sock[p] = 0 /\ fd[p] = 0
    /\ pc[p] = "connect" => sock[p] # 0 /\ fd[p] = 0
    /\ pc[p] \in {"test", "step", "write", "linked"} =>
         sock[p] = 0 /\ fd[p] # 0

\* The CLI holds peers_mutex exactly while it walks or changes the list for
\* a command; at the prompt it may have leaked it.
MutexHeld ==
  /\ cli \in Walking \ Leaving => lock
  /\ cli = "c_create" \/ cli \in Leaving => ~lock

Closed(f, S) == \A m \in S : f[m] = Null \/ f[m] \in S

\* The nodes a walk along f from c reaches.
From(f, c) ==
  {n \in Node : \A S \in SUBSET Node : c \in S /\ Closed(f, S) => n \in S}

\* The peer that CONNECT's first get_peer has found is off the list or still
\* before the second one's cursor.
Found ==
  cli = "c_find_again" =>
    \E p \in Peer :
      /\ pc[p] = "linked" /\ Live(p) /\ addr[p] = addr[node]
      /\ p \in Listed => cur # Null /\ p \in From(next, cur)

\* A node off the list that DISCONNECT cannot put back, which writes
\* current->next into prev.
Gone(p) ==
  /\ p \notin Listed
  /\ cli = "d_walk" => p \notin From(next, cur)
  /\ cli = "d_unlink" /\ succ # Null => p \notin From(next, succ)

\* Appended when CONNECT's search for q began, and with the same address.
OlderTwin(p, q) ==
  p \in Peer /\ pc[p] = "linked" /\ addr[p] = addr[q] /\ born[p] <= asked[q]

\* An older twin is on the list only before the cursor of the search for q,
\* and not at all when the search has found none.
SearchSound ==
  /\ \A q \in Peer : asked[q] <= clock
  /\ cli = "c_find" =>
       \A p \in Listed : OlderTwin(p, node) => p \in From(next, cur)
  /\ cli \notin Leaving =>
       \A q \in Peer : pc[q] # "none" \/ (cli = "c_create" /\ q = node) =>
         \A p \in Peer : OlderTwin(p, q) => Gone(p)

\* All that does not speak of the descriptor table.
ListInv ==
  /\ TypeOK
  /\ PointersLinked
  /\ NodesOwned
  /\ AgesOrdered
  /\ OnePredecessor
  /\ NoDanglingNext
  /\ RegistersLive
  /\ SentinelStays
  /\ DescriptorsByStage
  /\ MutexHeld
  /\ Found
  /\ SearchSound

\* The peers in memory that hold descriptor f.
Holders(f) ==
  {p \in Peer : Live(p) /\ Held(p) = f /\ ~(cli = "d_free" /\ cur = p)}

\* DescriptorsMatchPeers, said of one descriptor.
Matched(f) ==
  cli \notin Leaving =>
    /\ f \in open <=> Holders(f) # {}
    /\ \A p, q \in Holders(f) : p = q

\* The socket that connect_client waits for is open and its own, also while
\* QUIT frees the list.
SocketsOwn ==
  \A p \in Peer : sock[p] # 0 =>
    /\ sock[p] \in open
    /\ \A q \in Peer : sock[q] = sock[p] => q = p

Inv ==
  /\ ListInv
  /\ \A f \in Fd : Matched(f)
  /\ SocketsOwn
=============================================================================
