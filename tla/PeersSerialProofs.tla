------------------------- MODULE PeersSerialProofs -------------------------
(***************************************************************************)
(* The peer list of a user who waits for each CONNECT's thread             *)
(* (OneAtATime): it loses no peer, no thread touches freed memory, and     *)
(* CONNECT and DISCONNECT implement the atomic table of PeerRegistry.      *)
(*                                                                         *)
(* Here reachability can be spoken of, since at any time only one thread   *)
(* changes the list.                                                       *)
(***************************************************************************)
EXTENDS PeersProofs

-----------------------------------------------------------------------------
(* How appending and unlinking change what a walk reaches.                 *)

\* A node written behind the last one is reached, and no other.
LEMMA FromAppend ==
  ASSUME NEW f \in [Node -> Node \cup {Null}], NEW c \in Node,
         NEW t \in From(f, c), NEW p \in Node,
         f[t] = Null, f[p] = Null, p # t,
         NEW g, g[t] = p, \A n \in Node : n # t => g[n] = f[n]
  PROVE  From(g, c) = From(f, c) \cup {p}
<1> DEFINE R == From(f, c)
<1>1. R \in SUBSET Node /\ Closed(f, R) /\ c \in R
  BY FromClosed, FromStart
<1>2. t \in Node /\ g[t] = p /\ \A m \in Node : m # t => g[m] = f[m]
  BY <1>1
<1>3. From(g, c) \subseteq R \cup {p}
  <2>1. R \cup {p} \in SUBSET Node /\ Closed(g, R \cup {p})
    BY <1>1, <1>2 DEF Closed
  <2>. QED BY <1>1, <2>1, FromLeast
<1>4. ASSUME NEW S \in SUBSET Node, c \in S, Closed(g, S)
      PROVE  R \cup {p} \subseteq S
  <2>1. Closed(f, S)
    BY <1>2, <1>4 DEF Closed
  <2>2. R \subseteq S
    BY <1>4, <2>1, FromLeast
  <2>3. g[t] = Null \/ g[t] \in S
    BY <1>4, <2>2 DEF Closed
  <2>4. p # Null
    BY PeersAssumption DEF Node
  <2>. QED BY <1>2, <2>2, <2>3, <2>4
<1>5. R \cup {p} \subseteq From(g, c)
  BY <1>1, <1>4 DEF From
<1>. QED BY <1>3, <1>5

\* A node taken out from behind its only predecessor is no longer reached,
\* and every other one still is.
LEMMA FromUnlink ==
  ASSUME NEW f \in [Node -> Node \cup {Null}], NEW c \in Node,
         NEW m \in From(f, c), NEW u \in Node, NEW v, u # c,
         f[m] = u, f[u] = v, u # v,
         \A n \in From(f, c) : f[n] = u => n = m,
         NEW g, g[m] = v, \A n \in Node : n # m => g[n] = f[n]
  PROVE  From(g, c) = From(f, c) \ {u}
<1> DEFINE R == From(f, c)
<1>1. R \in SUBSET Node /\ Closed(f, R) /\ c \in R
  BY FromClosed, FromStart
<1>2. /\ m \in Node /\ m # u
      /\ g[m] = v /\ \A n \in Node : n # m => g[n] = f[n]
  BY <1>1
<1>3. u \in R /\ u # Null
  BY <1>1, PeersAssumption DEF Closed, Node
<1>4. From(g, c) \subseteq R \ {u}
  <2>1. R \ {u} \in SUBSET Node /\ Closed(g, R \ {u})
    BY <1>1, <1>2, <1>3 DEF Closed
  <2>. QED BY <1>1, <2>1, FromLeast
<1>5. ASSUME NEW S \in SUBSET Node, c \in S, Closed(g, S)
      PROVE  R \ {u} \subseteq S
  <2>1. m \in S
    <3> SUFFICES ASSUME m \notin S PROVE FALSE
      OBVIOUS
    <3>1. Closed(f, S)
      BY <1>2, <1>5 DEF Closed
    <3>. QED BY <1>5, <3>1, FromLeast
  <2>2. f[u] = Null \/ f[u] \in S
    BY <1>2, <1>5, <2>1 DEF Closed
  <2>3. S \cup {u} \in SUBSET Node /\ Closed(f, S \cup {u})
    BY <1>2, <1>5, <2>2 DEF Closed
  <2>. QED BY <1>5, <2>3, FromLeast
<1>6. R \ {u} \subseteq From(g, c)
  BY <1>1, <1>5 DEF From
<1>. QED BY <1>4, <1>6

-----------------------------------------------------------------------------
(* The invariant of serial use, until the process ends or QUIT starts.     *)

Busy(p) == ~Settled(p)

\* One thread at a time: a client thread runs only while the CLI waits at
\* the prompt, and only one does.
Alone ==
  /\ cli # "prompt" => \A p \in Peer : Settled(p)
  /\ \A p, q \in Peer : Busy(p) /\ Busy(q) => p = q

\* Every peer object has an address that the user named.
Addressed == \A p \in Peer : mem[p] # "unallocated" => addr[p] # NoAddr

\* ListTracksEveryPeer, without its premise.
Tracked ==
  \A p \in Peer :
    /\ pc[p] = "linked" /\ Live(p)
    /\ ~(cli \in {"d_close", "d_free"} /\ cur = p)
    => p \in Listed

\* add_peer walks nodes of the list, and what it read of temp->next still
\* holds when it uses it.
Appending ==
  \A p \in Peer :
    /\ pc[p] \in {"test", "step", "write"} => temp[p] \in Listed
    /\ pc[p] = "step" => next[temp[p]] # Null
    /\ pc[p] = "write" => next[temp[p]] = Null

\* get_peer: a node with the address is not behind the cursor; once it has
\* looked at all of them, no listed node has the new peer's address.
Searched ==
  /\ cli = "c_find" =>
       /\ cur \in Listed
       /\ \A n \in Listed : addr[n] = addr[node] => n \in From(next, cur)
  /\ cli = "c_find_again" =>
       \E n \in From(next, cur) : addr[n] = addr[node]
  /\ cli = "c_create" => \A n \in Listed : addr[n] # addr[node]
  /\ \A p \in Peer : Busy(p) => \A n \in Listed : addr[n] # addr[p]

\* DISCONNECT: current is listed, prev is the node before it, and next_node
\* the one behind it.
Unlinking ==
  /\ cli \in {"d_walk", "d_unlink"} =>
       /\ cur \in Listed
       /\ prev = Null => cur = Head
       /\ prev # Null => prev \in Listed /\ next[prev] = cur
  /\ cli = "d_unlink" => succ = next[cur] /\ addr[cur] = target

SerialInv ==
  /\ process = "running" => Alone
  /\ ~Quitting =>
       Addressed /\ Tracked /\ Appending /\ Searched /\ Unlinking

-----------------------------------------------------------------------------
(* The list and the steps that change it.                                  *)

\* What is listed is in memory and was linked by add_peer.
LEMMA ListedFacts ==
  ASSUME Inv, ~Quitting
  PROVE  /\ Listed \in SUBSET Node /\ Head \in Listed /\ Closed(next, Listed)
         /\ \A n \in Listed : Live(n) /\ Linked(n)
  BY ListedLinked DEF Inv, Quitting

\* Once the process ends or QUIT frees the list, that is for good.
LEMMA QuittingStays ==
  ASSUME Quitting, [Next]_vars
  PROVE  Quitting'
<1> USE DEF Quitting, Leaving
<1>1. CASE process # "running"
  BY <1>1 DEF Next, UserInput, CliStep, ClientStep, Connect, ConnectLock,
     FindPeer, FindPeerAgain, CreateThread, Disconnect, DisconnectLock,
     DisconnectWalk, DisconnectUnlink, DisconnectClose, DisconnectFree,
     ListPeers, ListLock, ListWalk, Quit, QuitNext, QuitFree, QuitExit, Eof,
     OpenSocket, SocketFails, ConnectFails, ConnectSucceeds, TestNext,
     StepNext, WriteNext, BadAccess, Prompt, At, ThreadAt, vars
<1>2. CASE process = "running" /\ cli \in Leaving
  <2>1. ASSUME UserInput PROVE Quitting'
    BY <1>2, <2>1 DEF UserInput, Connect, Disconnect, ListPeers, Quit, Eof,
       Prompt
  <2>2. ASSUME CliStep PROVE Quitting'
    BY <1>2, <2>2 DEF CliStep, ConnectLock, FindPeer, FindPeerAgain,
       CreateThread, DisconnectLock, DisconnectWalk, DisconnectUnlink,
       DisconnectClose, DisconnectFree, ListLock, ListWalk, QuitNext,
       QuitFree, QuitExit, At
  <2>3. ASSUME NEW p \in Peer, ClientStep(p) PROVE Quitting'
    BY <1>2, <2>3 DEF ClientStep, OpenSocket, SocketFails, ConnectFails,
       ConnectSucceeds, TestNext, StepNext, WriteNext, BadAccess, Die
  <2>. QED BY <1>2, <2>1, <2>2, <2>3 DEF Next, vars
<1>. QED BY <1>1, <1>2

LEMMA ListedAppend ==
  ASSUME Inv, SerialInv, ~Quitting, NEW p \in Peer, WriteNext(p)
  PROVE  Listed' = Listed \cup {p} /\ p \notin Listed
<1>1. /\ next \in [Node -> Node \cup {Null}] /\ Head \in Node
      /\ p \in Node /\ p # Head
  BY PeersAssumption DEF Inv, ListInv, TypeOK, Node
<1>2. pc[p] = "write" /\ next' = [next EXCEPT ![temp[p]] = p]
  BY DEF WriteNext, ThreadAt
<1>3. p \notin Listed
  BY <1>1, <1>2, ListedFacts DEF Linked
<1>4. temp[p] \in Listed /\ next[temp[p]] = Null /\ next[p] = Null
  BY <1>2 DEF Inv, ListInv, SerialInv, Appending, PointersLinked
<1>5. temp[p] \in From(next, Head) /\ p # temp[p]
  BY <1>3, <1>4, ListedFrom
<1>6. From(next', Head) = From(next, Head) \cup {p}
  <2>1. next'[temp[p]] = p /\ \A n \in Node : n # temp[p] => next'[n] = next[n]
    BY <1>1, <1>2, <1>4, ListedFacts
  <2>. QED BY <1>1, <1>4, <1>5, <2>1, FromAppend
<1>. QED BY <1>2, <1>3, <1>6, ListedFrom

LEMMA ListedUnlink ==
  ASSUME Inv, SerialInv, ~Quitting, DisconnectUnlink
  PROVE  /\ Listed' = Listed \ {cur}
         /\ cur \in Listed /\ cur # Head /\ cur \in Peer
<1>1. /\ next \in [Node -> Node \cup {Null}] /\ Head \in Node
      /\ born \in [Node -> Nat]
  BY DEF Inv, ListInv, TypeOK, Node
<1>2. cli = "d_unlink" /\ cur # Head
  BY DEF DisconnectUnlink, At, Inv, ListInv, SentinelStays
<1>3. /\ cur \in Listed /\ prev \in Listed /\ prev # Null
      /\ next[prev] = cur /\ succ = next[cur]
  BY <1>2 DEF SerialInv, Unlinking
<1>4. next' = [next EXCEPT ![prev] = succ]
  BY <1>3 DEF DisconnectUnlink
<1>5. cur \in Node /\ cur \in Peer /\ cur # Null
  BY <1>2, <1>3, ListedFacts, PeersAssumption DEF Node
<1>6. next[cur] # cur
  BY <1>1, <1>5 DEF Inv, ListInv, AgesOrdered, NextIsYounger
<1>7. \A n \in Listed : next[n] = cur => n = prev
  BY <1>2, <1>5, ListedFacts DEF Inv, ListInv, OnePredecessor
<1>8. From(next', Head) = From(next, Head) \ {cur}
  <2>1. prev \in From(next, Head)
    BY <1>3, ListedFrom
  <2>2. \A n \in From(next, Head) : next[n] = cur => n = prev
    BY <1>7, ListedFrom
  <2>3. next'[prev] = succ /\ \A n \in Node : n # prev => next'[n] = next[n]
    BY <1>1, <1>3, <1>4, ListedFacts
  <2>. QED BY <1>1, <1>2, <1>3, <1>5, <1>6, <2>1, <2>2, <2>3, FromUnlink
<1>. QED BY <1>2, <1>3, <1>4, <1>5, <1>8, ListedFrom

-----------------------------------------------------------------------------
(* The invariant survives every step: one lemma per conjunct.              *)

\* Whose turn it is.
LEMMA Turns ==
  ASSUME OneAtATime, Inv, SerialInv, process = "running" \/ ~Quitting
  PROVE  /\ UserInput \/ CliStep => \A p \in Peer : Settled(p)
         /\ \A p \in Peer : ClientStep(p) =>
              /\ cli = "prompt" /\ Busy(p)
              /\ \A q \in Peer : q # p => Settled(q)
<1>1. Alone
  BY DEF SerialInv, Quitting
<1>2. ASSUME UserInput PROVE \A p \in Peer : Settled(p)
  BY <1>2 DEF UserInput, Connect, Disconnect, ListPeers, Quit, Eof, Prompt
<1>3. ASSUME CliStep PROVE \A p \in Peer : Settled(p)
  <2>1. cli # "prompt"
    BY <1>3 DEF CliStep, ConnectLock, FindPeer, FindPeerAgain, CreateThread,
       DisconnectLock, DisconnectWalk, DisconnectUnlink, DisconnectClose,
       DisconnectFree, ListLock, ListWalk, QuitNext, QuitFree, QuitExit, At
  <2>. QED BY <1>1, <2>1 DEF Alone
<1>4. ASSUME NEW p \in Peer, ClientStep(p)
      PROVE  cli = "prompt" /\ Busy(p) /\ \A q \in Peer : q # p => Settled(q)
  <2>1. Busy(p)
    BY <1>4 DEF ClientStep, OpenSocket, SocketFails, ConnectFails,
       ConnectSucceeds, TestNext, StepNext, WriteNext, BadAccess, ThreadAt,
       Busy, Settled
  <2>. QED BY <1>1, <2>1 DEF Alone, Busy
<1>. QED BY <1>2, <1>3, <1>4

LEMMA AloneStep ==
  ASSUME OneAtATime, Inv, SerialInv, process = "running", Next
  PROVE  Alone'
<1>1. pc \in [Peer -> ThreadStates]
  BY DEF Inv, ListInv, TypeOK
<1>2. CASE UserInput
  <2>1. pc' = pc
    BY <1>2 DEF UserInput, Connect, Disconnect, ListPeers, Quit, Eof, threads
  <2>. QED BY <1>2, <2>1, Turns DEF Alone, Busy, Settled
<1>3. CASE CreateThread
  <2>1. \A p \in Peer : Settled(p)
    BY <1>3, Turns DEF CliStep
  <2>2. cli' = "prompt" /\ \A p \in Peer : p # node => pc'[p] = pc[p]
    BY <1>1, <1>3 DEF CreateThread, Return
  <2>. QED BY <2>1, <2>2 DEF Alone, Busy, Settled
<1>4. CASE CliStep /\ ~CreateThread
  <2>1. pc' = pc
    BY <1>4 DEF CliStep, ConnectLock, FindPeer, FindPeerAgain,
       DisconnectLock, DisconnectWalk, DisconnectUnlink, DisconnectClose,
       DisconnectFree, ListLock, ListWalk, QuitNext, QuitFree, QuitExit,
       threads
  <2>. QED BY <1>4, <2>1, Turns DEF Alone, Busy, Settled
<1>5. ASSUME NEW p \in Peer, ClientStep(p) PROVE Alone'
  <2>1. cli' = cli /\ \A q \in Peer : q # p => pc'[q] = pc[q]
    BY <1>1, <1>5 DEF ClientStep, OpenSocket, SocketFails, ConnectFails,
       ConnectSucceeds, TestNext, StepNext, WriteNext, BadAccess, Die,
       threads
  <2>. QED BY <1>5, <2>1, Turns DEF Alone, Busy, Settled
<1>. QED BY <1>2, <1>3, <1>4, <1>5 DEF Next

LEMMA AddressedStep ==
  ASSUME Inv, SerialInv, ~Quitting, Next
  PROVE  Addressed'
<1> USE PeersAssumption DEF Addressed, Node
<1>1. /\ Addressed
      /\ addr \in [Node -> Addr \cup {NoAddr}]
      /\ mem \in [Node -> {"unallocated", "live", "freed"}]
  BY DEF Inv, ListInv, TypeOK, SerialInv
<1>2. ASSUME NEW q \in Peer, NEW a \in Addr, Connect(q, a) PROVE Addressed'
  BY <1>1, <1>2 DEF Connect
\* A node that is freed was in memory.
<1>3. ASSUME NEW n \in Node, mem[n] = "live", addr' = addr,
             mem' = mem \/ mem' = [mem EXCEPT ![n] = "freed"]
      PROVE  Addressed'
  BY <1>1, <1>3
<1>4. mem[Head] = "live"
  BY DEF Inv, ListInv, SentinelStays, Live, Quitting
<1>5. CASE FindPeerAgain \/ CreateThread
  <2>1. node \in Peer /\ mem[node] = "live"
    BY <1>5 DEF FindPeerAgain, CreateThread, At, Inv, ListInv, NodesOwned, Live,
       TypeOK
  <2>2. addr' = addr /\ (mem' = mem \/ mem' = [mem EXCEPT ![node] = "freed"])
    BY <1>5 DEF FindPeerAgain, CreateThread
  <2>. QED BY <1>3, <2>1, <2>2
<1>6. CASE DisconnectFree \/ QuitFree
  <2>1. cur \in Node /\ mem[cur] = "live"
    BY <1>6, CursorRunning DEF DisconnectFree, QuitFree, At, Inv, Walking,
       Live
  <2>2. addr' = addr /\ mem' = [mem EXCEPT ![cur] = "freed"]
    BY <1>6 DEF DisconnectFree, QuitFree
  <2>. QED BY <1>3, <2>1, <2>2
<1>7. CASE \/ ConnectLock \/ FindPeer \/ DisconnectLock \/ DisconnectWalk
           \/ DisconnectUnlink \/ DisconnectClose \/ ListLock \/ ListWalk
           \/ QuitNext \/ QuitExit \/ ListPeers \/ Quit \/ Eof
           \/ \E a \in Addr : Disconnect(a)
  <2>1. addr' = addr /\ mem' = mem
    BY <1>7 DEF ConnectLock, FindPeer, DisconnectLock, DisconnectWalk,
       DisconnectUnlink, DisconnectClose, ListLock, ListWalk, QuitNext,
       QuitExit, ListPeers, Quit, Eof, Disconnect, heap
  <2>. QED BY <1>3, <1>4, <2>1
<1>8. ASSUME NEW p \in Peer, ClientStep(p) PROVE Addressed'
  <2>1. /\ addr' = addr
        /\ mem' = mem \/ (mem' = [mem EXCEPT ![p] = "freed"]
                          /\ pc[p] \in {"socket", "connect"}
                          /\ process = "running")
    BY <1>8 DEF ClientStep, OpenSocket, SocketFails, ConnectFails,
       ConnectSucceeds, TestNext, StepNext, WriteNext, BadAccess, ThreadAt,
       heap
  <2>2. pc[p] \in {"socket", "connect"} /\ process = "running"
          => mem[p] = "live"
    BY DEF Inv, ListInv, NodesOwned, Live
  <2>. QED BY <1>3, <1>4, <2>1, <2>2
<1>. QED
  BY <1>2, <1>5, <1>6, <1>7, <1>8 DEF Next, UserInput, CliStep

LEMMA TrackedStep ==
  ASSUME OneAtATime, Inv, SerialInv, ~Quitting, Next
  PROVE  Tracked'
<1>1. /\ pc \in [Peer -> ThreadStates]
      /\ mem \in [Node -> {"unallocated", "live", "freed"}]
      /\ \A p \in Peer : p \in Node
      /\ Tracked
  BY DEF Inv, ListInv, TypeOK, SerialInv, Node
<1>2. ASSUME NEW p \in Peer, WriteNext(p) PROVE Tracked'
  <2>1. /\ \A q \in Peer : q # p => pc'[q] = pc[q]
        /\ mem' = mem /\ cli' = cli /\ cur' = cur
    BY <1>1, <1>2 DEF WriteNext, registers
  <2>2. Listed' = Listed \cup {p}
    BY <1>2, ListedAppend
  <2>. QED BY <1>1, <2>1, <2>2 DEF Tracked, Live
<1>3. CASE DisconnectUnlink
  <2>1. /\ pc' = pc /\ mem' = mem /\ cur' = cur
        /\ cli = "d_unlink" /\ cli' = "d_close"
    BY <1>3 DEF DisconnectUnlink, At, threads
  <2>2. Listed' = Listed \ {cur}
    BY <1>3, ListedUnlink
  <2>. QED BY <1>1, <2>1, <2>2 DEF Tracked, Live
\* The other steps leave the list alone and link nothing.
<1>4. ASSUME ~DisconnectUnlink, \A p \in Peer : ~WriteNext(p)
      PROVE  Tracked'
  <2>1. Listed' = Listed
    BY <1>4, NextKept
  <2> SUFFICES ASSUME NEW p \in Peer, pc'[p] = "linked", Live(p)',
                      ~(cli' \in {"d_close", "d_free"} /\ cur' = p)
               PROVE  p \in Listed
    BY <2>1 DEF Tracked
  <2>2. CASE UserInput
    <3>1. /\ pc' = pc
          /\ mem' = mem \/ \E q \in Peer : /\ mem[q] = "unallocated"
                                           /\ mem' = [mem EXCEPT ![q] = "live"]
      BY <2>2 DEF UserInput, Connect, Disconnect, ListPeers, Quit, Eof,
         threads, heap
    <3>2. mem[p] # "unallocated"
      BY <3>1 DEF Inv, ListInv, NodesOwned
    <3>3. Live(p)
      BY <1>1, <3>1, <3>2 DEF Live
    <3>4. cli = "prompt"
      BY <2>2 DEF UserInput, Connect, Disconnect, ListPeers, Quit, Eof,
         Prompt
    <3>. QED BY <1>1, <3>1, <3>3, <3>4 DEF Tracked
  <2>3. CASE CliStep
    <3>1. pc[p] = "linked"
      BY <1>1, <1>4, <2>3 DEF CliStep, ConnectLock, FindPeer, FindPeerAgain,
         CreateThread, DisconnectLock, DisconnectWalk, DisconnectClose,
         DisconnectFree, ListLock, ListWalk, QuitNext, QuitFree, QuitExit,
         threads
    <3>2. Live(p)
      BY <1>1, <1>4, <2>3 DEF CliStep, ConnectLock, FindPeer, FindPeerAgain,
         CreateThread, DisconnectLock, DisconnectWalk, DisconnectClose,
         DisconnectFree, ListLock, ListWalk, QuitNext, QuitFree, QuitExit,
         heap, Live
    <3>3. ~(cli \in {"d_close", "d_free"} /\ cur = p)
      <4>1. CASE DisconnectClose
        BY <4>1 DEF DisconnectClose, registers
      <4>2. CASE DisconnectFree
        BY <1>1, <4>2 DEF DisconnectFree, Live
      <4>3. CASE ~DisconnectClose /\ ~DisconnectFree
        BY <1>4, <2>3, <4>3 DEF CliStep, ConnectLock, FindPeer,
           FindPeerAgain, CreateThread, DisconnectLock, DisconnectWalk,
           ListLock, ListWalk, QuitNext, QuitFree, QuitExit, At
      <4>. QED BY <4>1, <4>2, <4>3
    <3>. QED BY <1>1, <3>1, <3>2, <3>3 DEF Tracked
  <2>4. ASSUME NEW q \in Peer, ClientStep(q) PROVE p \in Listed
    <3>1. pc[p] = "linked"
      BY <1>1, <1>4, <2>4 DEF ClientStep, OpenSocket, SocketFails,
         ConnectFails, ConnectSucceeds, TestNext, StepNext, BadAccess, Die,
         threads
    <3>2. Live(p) /\ cli' = cli /\ cur' = cur
      BY <1>1, <1>4, <2>4 DEF ClientStep, OpenSocket, SocketFails,
         ConnectFails, ConnectSucceeds, TestNext, StepNext, BadAccess, Die,
         heap, Live, registers
    <3>. QED BY <1>1, <3>1, <3>2 DEF Tracked
  <2>. QED BY <2>2, <2>3, <2>4 DEF Next
<1>. QED BY <1>2, <1>3, <1>4

LEMMA AppendingStep ==
  ASSUME OneAtATime, Inv, SerialInv, ~Quitting, Next
  PROVE  Appending'
<1>1. /\ pc \in [Peer -> ThreadStates] /\ Appending
      /\ temp \in [Peer -> Node \cup {Null}]
      /\ next \in [Node -> Node \cup {Null}]
  BY DEF Inv, ListInv, TypeOK, SerialInv
\* While the user or the CLI acts no thread runs, or one has just started.
<1>2. CASE UserInput \/ CliStep
  <2>1. pc' = pc \/ (node \in Peer /\ pc' = [pc EXCEPT ![node] = "socket"])
    BY <1>2 DEF UserInput, Connect, Disconnect, ListPeers, Quit, Eof,
       CliStep, ConnectLock, FindPeer, FindPeerAgain, CreateThread,
       DisconnectLock, DisconnectWalk, DisconnectUnlink, DisconnectClose,
       DisconnectFree, ListLock, ListWalk, QuitNext, QuitFree, QuitExit,
       threads, Inv, ListInv, NodesOwned, TypeOK, At
  <2>2. \A p \in Peer : pc'[p] \notin {"test", "step", "write"}
    BY <1>1, <1>2, <2>1, Turns DEF Settled
  <2>. QED BY <2>2 DEF Appending
<1>3. ASSUME NEW p \in Peer, ClientStep(p) PROVE Appending'
  <2>1. \A q \in Peer : q # p =>
          pc'[q] = pc[q] /\ pc[q] \notin {"test", "step", "write"}
    BY <1>1, <1>3, Turns DEF Settled, ClientStep, OpenSocket, SocketFails,
       ConnectFails, ConnectSucceeds, TestNext, StepNext, WriteNext,
       BadAccess, Die, threads
  <2>2. CASE pc'[p] \notin {"test", "step", "write"}
    BY <2>1, <2>2 DEF Appending
  <2>3. CASE ConnectSucceeds(p)
    <3>1. Listed' = Listed /\ Head \in Listed
      <4>1. next' = next
        BY <2>3 DEF ConnectSucceeds
      <4>. QED BY <4>1, ListedFrom, ListedFacts
    <3>2. pc'[p] = "test" /\ temp'[p] = Head
      BY <1>1, <2>3 DEF ConnectSucceeds
    <3>. QED BY <2>1, <3>1, <3>2 DEF Appending
  <2>4. CASE TestNext(p)
    <3>1. next' = next /\ temp' = temp /\ pc[p] = "test"
      BY <2>4 DEF TestNext, ThreadAt, heap
    <3>2. Listed' = Listed
      BY <3>1, ListedFrom
    <3>3. pc'[p] = IF next[temp[p]] = Null THEN "write" ELSE "step"
      BY <1>1, <2>4 DEF TestNext
    <3>. QED BY <1>1, <2>1, <3>1, <3>2, <3>3 DEF Appending
  <2>5. CASE StepNext(p)
    <3>1. next' = next /\ pc[p] = "step"
      BY <2>5 DEF StepNext, ThreadAt, heap
    <3>2. Listed' = Listed
      BY <3>1, ListedFrom
    <3>3. pc'[p] = "test" /\ temp'[p] = next[temp[p]]
      BY <1>1, <2>5 DEF StepNext
    <3>4. next[temp[p]] \in Listed
      BY <1>1, <3>1, ListedFacts DEF Appending, Closed
    <3>. QED BY <2>1, <3>2, <3>3, <3>4 DEF Appending
  <2>6. CASE BadAccess(p)
    <3>1. next' = next /\ temp' = temp /\ pc' = pc
      BY <2>6 DEF BadAccess, Die, heap, threads
    <3>2. Listed' = Listed
      BY <3>1, ListedFrom
    <3>. QED BY <1>1, <3>1, <3>2 DEF Appending
  <2>7. CASE OpenSocket(p) \/ SocketFails(p) \/ ConnectFails(p) \/ WriteNext(p)
    <3>1. pc'[p] \notin {"test", "step", "write"}
      BY <1>1, <2>7 DEF OpenSocket, SocketFails, ConnectFails, WriteNext,
         ThreadAt, Die, threads
    <3>. QED BY <2>2, <3>1
  <2>. QED BY <1>3, <2>3, <2>4, <2>5, <2>6, <2>7 DEF ClientStep
<1>. QED BY <1>2, <1>3 DEF Next

\* The peer of a CONNECT in progress is in memory, so it has a named address,
\* which is not the sentinel's; every other listed node holds a descriptor.
LEMMA NodeAddressed ==
  ASSUME Inv, SerialInv, ~Quitting,
         cli \in {"c_lock", "c_find", "c_find_again", "c_create"}
  PROVE  /\ node \in Peer /\ addr[node] # NoAddr
         /\ \A n \in Node : /\ Linked(n) /\ addr[n] = addr[node]
                            => n \in Peer /\ fd[n] > 0
<1>1. node \in Peer /\ Live(node)
  BY DEF Inv, ListInv, NodesOwned, TypeOK
<1>2. addr[node] # NoAddr
  BY <1>1 DEF SerialInv, Addressed, Live
<1>3. ASSUME NEW n \in Node, Linked(n), addr[n] = addr[node]
      PROVE  n \in Peer /\ fd[n] > 0
  <2>1. n # Head
    BY <1>2, <1>3 DEF Inv, ListInv, SentinelStays
  <2>2. n \in Peer /\ pc[n] = "linked"
    BY <1>3, <2>1 DEF Linked
  <2>3. fd[n] \in Fd \cup {0} /\ fd[n] # 0
    BY <1>3, <2>2 DEF Inv, ListInv, DescriptorsByStage, TypeOK
  <2>4. fd[n] \in Nat \ {0}
    BY <2>3, PeersAssumption
  <2>. QED BY <2>2, <2>4
<1>. QED BY <1>1, <1>2, <1>3

LEMMA SearchedStep ==
  ASSUME OneAtATime, Inv, SerialInv, ~Quitting, Next
  PROVE  Searched'
<1>1. /\ pc \in [Peer -> ThreadStates]
      /\ next \in [Node -> Node \cup {Null}]
      /\ addr \in [Node -> Addr \cup {NoAddr}]
      /\ Searched /\ Head \in Node
  BY DEF Inv, ListInv, TypeOK, SerialInv, Node
<1>2. Listed \in SUBSET Node /\ Head \in Listed /\ Closed(next, Listed)
  BY ListedFacts
<1>3. \A p \in Peer : pc[p] # "linked" => p \notin Listed
  BY ListedFacts, PeersAssumption DEF Linked
\* Steps away from the search that start no thread: no thread is busy.
<1>4. ASSUME pc' = pc, \A p \in Peer : Settled(p),
             cli' \notin {"c_find", "c_find_again", "c_create"}
      PROVE  Searched'
  BY <1>4 DEF Searched, Busy, Settled
<1>5. CASE UserInput
  <2>1. pc' = pc /\ cli' \notin {"c_find", "c_find_again", "c_create"}
    BY <1>5 DEF UserInput, Connect, Disconnect, ListPeers, Quit, Eof, Prompt,
       threads
  <2>. QED BY <1>4, <1>5, <2>1, Turns
<1>6. CASE \/ DisconnectLock \/ DisconnectWalk \/ DisconnectUnlink
           \/ DisconnectClose \/ DisconnectFree \/ ListLock \/ ListWalk
           \/ QuitNext \/ QuitFree \/ QuitExit
  <2>1. pc' = pc /\ cli' \notin {"c_find", "c_find_again", "c_create"}
    BY <1>6 DEF DisconnectLock, DisconnectWalk, DisconnectUnlink,
       DisconnectClose, DisconnectFree, ListLock, ListWalk, QuitNext,
       QuitFree, QuitExit, At, Return, threads
  <2>2. \A p \in Peer : Settled(p)
    BY <1>6, Turns DEF CliStep
  <2>. QED BY <1>4, <2>1, <2>2
\* The search itself.
<1>7. CASE ConnectLock \/ FindPeer \/ FindPeerAgain
  <2>1. next' = next /\ addr' = addr /\ pc' = pc /\ Listed' = Listed
    <3>1. next' = next /\ addr' = addr /\ pc' = pc
      BY <1>7 DEF ConnectLock, FindPeer, FindPeerAgain, heap, threads
    <3>. QED BY <3>1, ListedFrom
  <2>2. \A p \in Peer : Settled(p) /\ Settled(p)'
    BY <1>7, <2>1, Turns DEF CliStep, Settled
  <2>3. CASE ConnectLock
    <3>1. cli' = "c_find" /\ cur' = Head
      BY <2>3 DEF ConnectLock
    <3>. QED BY <1>2, <2>1, <2>2, <3>1, ListedFrom DEF Searched, Busy
  <2>4. CASE FindPeer
    <3>1. /\ cli = "c_find" /\ node' = node /\ cur \in Listed
          /\ \A n \in Listed : addr[n] = addr[node] => n \in From(next, cur)
      BY <1>1, <2>4 DEF FindPeer, At, Searched, args
    <3>2. CASE addr[cur] = addr[node] /\ cur' = Head /\ cli' = "c_find_again"
      <4>1. cur \in From(next, Head)
        BY <3>1, ListedFrom
      <4>2. \E n \in From(next', cur') : addr'[n] = addr'[node']
        BY <2>1, <3>1, <3>2, <4>1
      <4>. QED BY <2>2, <3>2, <4>2 DEF Searched, Busy
    <3>3. CASE addr[cur] # addr[node] /\ next[cur] # Null /\ cur' = next[cur]
               /\ cli' = cli
      <4>1. cur' \in Listed
        BY <1>2, <3>1, <3>3 DEF Closed
      <4>2. ASSUME NEW n \in Listed, addr[n] = addr[node]
            PROVE  n \in From(next, cur')
        BY <1>1, <1>2, <3>1, <3>3, <4>2, FromNext
      <4>. QED BY <2>1, <2>2, <3>1, <3>3, <4>1, <4>2 DEF Searched, Busy
    <3>4. CASE addr[cur] # addr[node] /\ next[cur] = Null /\ cli' = "c_create"
      <4>1. ASSUME NEW n \in Listed, addr[n] = addr[node] PROVE FALSE
        BY <1>1, <1>2, <3>1, <3>4, <4>1, FromNext
      <4>. QED BY <2>1, <2>2, <3>1, <3>4, <4>1 DEF Searched, Busy
    <3>. QED BY <2>4, <3>2, <3>3, <3>4 DEF FindPeer
  <2>5. CASE FindPeerAgain
    <3>1. /\ cli = "c_find_again" /\ cur \in Node /\ Linked(cur)
          /\ \E n \in From(next, cur) : addr[n] = addr[node]
      <4>1. cli = "c_find_again" /\ process = "running"
        BY <2>5 DEF FindPeerAgain, At
      <4>2. cur \in Node
        BY <4>1, CursorRunning DEF Inv, Walking
      <4>3. Linked(cur)
        BY <4>2, PeersAssumption DEF Inv, ListInv, PointersLinked, Node
      <4>. QED BY <1>1, <4>1, <4>2, <4>3 DEF Searched
    <3>2. CASE addr[cur] # addr[node] /\ next[cur] # Null /\ cur' = next[cur]
               /\ cli' = cli /\ node' = node
      <4>1. \E n \in From(next, cur') : addr[n] = addr[node]
        BY <1>1, <3>1, <3>2, FromNext
      <4>. QED BY <2>1, <2>2, <3>1, <3>2, <4>1 DEF Searched, Busy
    <3>3. CASE addr[cur] # addr[node] /\ next[cur] = Null
      <4>1. FALSE
        BY <1>1, <3>1, <3>3, FromNext
      <4>. QED BY <4>1
    <3>4. CASE addr[cur] = addr[node]
      <4>1. fd[cur] > 0
        BY <3>1, <3>4, NodeAddressed
      <4>2. cli' = "prompt"
        BY <2>5, <3>4, <4>1 DEF FindPeerAgain, Return
      <4>. QED BY <2>2, <4>2 DEF Searched, Busy
    <3>. QED BY <2>5, <3>2, <3>3, <3>4 DEF FindPeerAgain, args
  <2>. QED BY <1>7, <2>3, <2>4, <2>5
\* The thread of a new peer starts with what the search has shown.
<1>8. CASE CreateThread
  <2>1. next' = next /\ addr' = addr /\ cli' = "prompt" /\ cli = "c_create"
    BY <1>8 DEF CreateThread, At, Return
  <2>2. Listed' = Listed
    BY <2>1, ListedFrom
  <2>3. \A p \in Peer : p # node => Settled(p)'
    BY <1>1, <1>8, Turns DEF CreateThread, CliStep, Settled
  <2>4. \A n \in Listed : addr[n] # addr[node]
    BY <1>1, <2>1 DEF Searched
  <2>. QED BY <2>1, <2>2, <2>3, <2>4 DEF Searched, Busy
<1>9. ASSUME NEW p \in Peer, ClientStep(p) PROVE Searched'
  <2>1. /\ addr' = addr /\ cli' = cli /\ cli = "prompt"
        /\ \A q \in Peer : q # p => Settled(q)'
    BY <1>1, <1>9, Turns DEF ClientStep, OpenSocket, SocketFails,
       ConnectFails, ConnectSucceeds, TestNext, StepNext, WriteNext,
       BadAccess, Die, heap, threads, Settled
  <2>2. \A n \in Listed : addr[n] # addr[p]
    BY <1>1, <1>9, Turns DEF Searched
  <2>3. CASE WriteNext(p)
    <3>1. Settled(p)'
      BY <1>1, <2>3 DEF WriteNext, Settled
    <3>. QED BY <2>1, <3>1 DEF Searched, Busy
  <2>4. CASE ~WriteNext(p)
    <3>1. next' = next
      BY <1>9, <2>4 DEF ClientStep, OpenSocket, SocketFails, ConnectFails,
         ConnectSucceeds, TestNext, StepNext, BadAccess, heap
    <3>2. Listed' = Listed
      BY <3>1, ListedFrom
    <3>. QED BY <2>1, <2>2, <3>2 DEF Searched, Busy
  <2>. QED BY <2>3, <2>4
<1>. QED BY <1>5, <1>6, <1>7, <1>8, <1>9 DEF Next, CliStep

LEMMA UnlinkingStep ==
  ASSUME OneAtATime, Inv, SerialInv, ~Quitting, Next
  PROVE  Unlinking'
<1>1. Unlinking
  BY DEF SerialInv
<1>2. Listed \in SUBSET Node /\ Head \in Listed /\ Closed(next, Listed)
  BY ListedFacts
<1>3. CASE cli' \notin {"d_walk", "d_unlink"}
  BY <1>3 DEF Unlinking
<1>4. CASE DisconnectLock
  <2>1. cli' = "d_walk" /\ cur' = Head /\ prev' = prev /\ next' = next
    BY <1>4 DEF DisconnectLock, heap
  <2>2. prev = Null
    BY <1>4 DEF DisconnectLock, At, Inv, ListInv, RegistersLive
  <2>3. Listed' = Listed
    BY <2>1, ListedFrom
  <2>. QED BY <1>2, <2>1, <2>2, <2>3 DEF Unlinking
<1>5. CASE DisconnectWalk
  <2>1. next' = next /\ addr' = addr /\ cli = "d_walk"
    BY <1>5 DEF DisconnectWalk, At, heap
  <2>2. Listed' = Listed
    BY <2>1, ListedFrom
  <2>3. CASE /\ addr[cur] = target /\ succ' = next[cur] /\ cli' = "d_unlink"
             /\ UNCHANGED <<args, cur, prev, lock>>
    BY <1>1, <2>1, <2>2, <2>3 DEF Unlinking, args
  <2>4. CASE /\ addr[cur] # target /\ next[cur] # Null
             /\ prev' = cur /\ cur' = next[cur]
             /\ UNCHANGED <<cli, args, succ, lock>>
    <3>1. cur \in Listed /\ next[cur] \in Listed
      BY <1>1, <1>2, <2>1, <2>4 DEF Unlinking, Closed
    <3>2. cur # Null
      BY <2>1 DEF Inv, ListInv, RegistersLive, CursorLive, Walking
    <3>. QED BY <2>1, <2>2, <2>4, <3>1, <3>2 DEF Unlinking
  <2>5. CASE addr[cur] # target /\ next[cur] = Null /\ lock' = FALSE /\ Return
    BY <1>3, <2>5 DEF Return
  <2>. QED BY <1>5, <2>3, <2>4, <2>5 DEF DisconnectWalk
<1>6. CASE UserInput \/ (CliStep /\ ~DisconnectLock /\ ~DisconnectWalk)
  <2>1. cli' \notin {"d_walk", "d_unlink"}
    BY <1>6 DEF UserInput, Connect, Disconnect, ListPeers, Quit, Eof, Prompt,
       CliStep, ConnectLock, FindPeer, FindPeerAgain, CreateThread,
       DisconnectUnlink, DisconnectClose, DisconnectFree, ListLock, ListWalk,
       QuitNext, QuitFree, QuitExit, At, Return, Die
  <2>. QED BY <1>3, <2>1
<1>7. ASSUME NEW p \in Peer, ClientStep(p) PROVE Unlinking'
  <2>1. cli' = cli
    BY <1>7 DEF ClientStep, OpenSocket, SocketFails, ConnectFails,
       ConnectSucceeds, TestNext, StepNext, WriteNext, BadAccess, Die
  <2>. QED BY <1>3, <1>7, <2>1, Turns
<1>. QED BY <1>4, <1>5, <1>6, <1>7 DEF Next

LEMMA SerialInit == Init => SerialInv
<1> SUFFICES ASSUME Init PROVE SerialInv
  OBVIOUS
<1> USE DEF Init, Node
<1>1. Alone /\ Addressed /\ Tracked /\ Appending /\ Unlinking
  BY PeersAssumption
     DEF Alone, Addressed, Tracked, Appending, Unlinking, Busy, Settled
<1>2. Searched
  BY DEF Searched, Busy, Settled
<1>. QED BY <1>1, <1>2 DEF SerialInv

LEMMA SerialStep ==
  ASSUME OneAtATime, Inv, SerialInv, [Next]_vars
  PROVE  SerialInv'
<1>1. (process = "running" => Alone)'
  <2>1. CASE Next /\ process = "running"
    BY <2>1, AloneStep
  <2>2. CASE Next /\ process # "running"
    <3>1. FALSE
      BY <2>2 DEF Next, UserInput, CliStep, ClientStep, Connect, ConnectLock,
         FindPeer, FindPeerAgain, CreateThread, Disconnect, DisconnectLock,
         DisconnectWalk, DisconnectUnlink, DisconnectClose, DisconnectFree,
         ListPeers, ListLock, ListWalk, Quit, QuitNext, QuitFree, QuitExit,
         Eof, OpenSocket, SocketFails, ConnectFails, ConnectSucceeds,
         TestNext, StepNext, WriteNext, BadAccess, Prompt, At, ThreadAt
    <3>. QED BY <3>1
  <2>3. CASE UNCHANGED vars
    BY <2>3 DEF SerialInv, vars, threads, Alone, Busy, Settled
  <2>. QED BY <2>1, <2>2, <2>3
<1>2. CASE Quitting'
  BY <1>1, <1>2 DEF SerialInv
<1>3. CASE UNCHANGED vars /\ ~Quitting'
  <2>1. Listed' = Listed /\ From(next', cur') = From(next, cur)
    <3>1. next' = next /\ cur' = cur
      BY <1>3 DEF vars, heap, registers
    <3>. QED BY <3>1, ListedFrom
  <2>2. Addressed' /\ Tracked' /\ Appending' /\ Unlinking'
    BY <1>3, <2>1 DEF SerialInv, vars, registers, args, threads, heap,
       history, Quitting, Addressed, Tracked, Appending, Unlinking, Live
  <2>3. Searched'
    BY <1>3, <2>1 DEF SerialInv, vars, registers, args, threads, heap,
       history, Quitting, Searched, Busy, Settled
  <2>. QED BY <1>1, <2>2, <2>3 DEF SerialInv
<1>4. CASE Next /\ ~Quitting'
  <2>1. ~Quitting
    BY <1>4, QuittingStays
  <2>. QED BY <1>1, <1>4, <2>1, AddressedStep, TrackedStep, AppendingStep,
            SearchedStep, UnlinkingStep DEF SerialInv
<1>. QED BY <1>2, <1>3, <1>4

-----------------------------------------------------------------------------
(* Theorems.                                                               *)

\* For a user who waits for each CONNECT, the list and all that reads it are
\* as SerialInv says.
THEOREM SerialInvAlways == OneAtATime => (Spec => []SerialInv)
<1> SUFFICES ASSUME OneAtATime PROVE Spec => []SerialInv
  OBVIOUS
<1>1. Inv /\ SerialInv /\ [Next]_vars => SerialInv'
  BY SerialStep
<1>. QED BY <1>1, SerialInit, InvAlways, PTL DEF Spec

\* A peer that add_peer has linked is found by every later walk until
\* DISCONNECT takes it out: no append is lost.
THEOREM NoPeerLost == OneAtATime => (Spec => []ListTracksEveryPeer)
<1> SUFFICES ASSUME OneAtATime PROVE Spec => []ListTracksEveryPeer
  OBVIOUS
<1>1. SerialInv => ListTracksEveryPeer
  BY DEF SerialInv, Tracked, ListTracksEveryPeer, Live
<1>. QED BY <1>1, SerialInvAlways, PTL

\* Neither the CLI nor a client thread follows a pointer to freed memory or
\* NULL, also where get_peer's result is dereferenced unchecked.
THEOREM SerialUseIsMemorySafe == OneAtATime => (Spec => []MemorySafe)
<1> SUFFICES ASSUME OneAtATime PROVE Spec => []MemorySafe
  OBVIOUS
<1>1. Init => MemorySafe
  BY DEF Init, MemorySafe
<1>2. ASSUME Inv, SerialInv, MemorySafe, [Next]_vars PROVE MemorySafe'
  <2>1. CASE FindPeerAgain
    <3>1. /\ cli = "c_find_again" /\ process = "running"
          /\ cur # Null /\ cur \in Node
          /\ next \in [Node -> Node \cup {Null}]
      BY <1>2, <2>1 DEF FindPeerAgain, At, Inv, ListInv, TypeOK, RegistersLive,
         CursorLive, Walking
    <3>2. ~Quitting
      BY <3>1 DEF Quitting, Leaving
    <3>3. \E n \in From(next, cur) : addr[n] = addr[node]
      BY <1>2, <3>1, <3>2 DEF SerialInv, Searched
    <3>4. addr[cur] = addr[node] \/ next[cur] # Null
      BY <3>1, <3>3, FromNext
    <3>. QED BY <1>2, <2>1, <3>4 DEF FindPeerAgain, MemorySafe
  <2>2. ASSUME NEW p \in Peer, BadAccess(p) PROVE FALSE
    <3>1. ~Quitting
      BY <1>2, <2>2, Turns DEF BadAccess, ClientStep, Quitting, Leaving
    <3>2. temp[p] \in Listed
      BY <1>2, <2>2, <3>1 DEF BadAccess, SerialInv, Appending
    <3>3. Live(temp[p]) /\ temp[p] \in Node
      BY <1>2, <3>1, <3>2, ListedFacts
    <3>. QED BY <2>2, <3>3, PeersAssumption
             DEF BadAccess, Readable, Live, Node
  <2>3. CASE ~FindPeerAgain /\ \A p \in Peer : ~BadAccess(p)
    BY <1>2, <2>3 DEF Next, UserInput, CliStep, ClientStep, Connect,
       ConnectLock, FindPeer, CreateThread, Disconnect, DisconnectLock,
       DisconnectWalk, DisconnectUnlink, DisconnectClose, DisconnectFree,
       ListPeers, ListLock, ListWalk, Quit, QuitNext, QuitFree, QuitExit,
       Eof, OpenSocket, SocketFails, ConnectFails, ConnectSucceeds, TestNext,
       StepNext, WriteNext, Die, vars, MemorySafe
  <2>. QED BY <2>1, <2>2, <2>3
<1>3. Inv /\ SerialInv /\ MemorySafe /\ [Next]_vars => MemorySafe'
  BY <1>2
<1>. QED BY <1>1, <1>3, InvAlways, SerialInvAlways, PTL DEF Spec

-----------------------------------------------------------------------------
(* Refinement: the table of PeerRegistry.                                  *)

\* The refinement mapping of Registry while btide runs.
Connections == {<<addr[p], fd[p]>> : p \in Listed \ {Head}}

\* No step changes what a listed node says of its peer.
LEMMA EntriesKept ==
  ASSUME Inv, ~Quitting, [Next]_vars
  PROVE  \A n \in Listed \ {Head} : addr'[n] = addr[n] /\ fd'[n] = fd[n]
<1>1. \A n \in Listed \ {Head} : n \in Peer /\ Live(n) /\ pc[n] = "linked"
  BY ListedFacts DEF Linked
<1>2. addr \in [Node -> Addr \cup {NoAddr}] /\ fd \in [Node -> Fd \cup {0}]
  BY DEF Inv, ListInv, TypeOK
<1>3. ASSUME NEW p \in Peer, NEW a \in Addr, Connect(p, a),
             NEW n \in Listed \ {Head}
      PROVE  addr'[n] = addr[n] /\ fd'[n] = fd[n]
  BY <1>1, <1>2, <1>3 DEF Connect, Live, Node
<1>4. ASSUME NEW p \in Peer, ConnectSucceeds(p), NEW n \in Listed \ {Head}
      PROVE  addr'[n] = addr[n] /\ fd'[n] = fd[n]
  BY <1>1, <1>2, <1>4 DEF ConnectSucceeds, ThreadAt, Node
<1>5. ASSUME UNCHANGED <<addr, fd>>, NEW n \in Listed \ {Head}
      PROVE  addr'[n] = addr[n] /\ fd'[n] = fd[n]
  BY <1>5
<1>6. \/ \E p \in Peer, a \in Addr : Connect(p, a)
      \/ \E p \in Peer : ConnectSucceeds(p)
      \/ UNCHANGED <<addr, fd>>
  BY DEF Next, UserInput, CliStep, ClientStep, ConnectLock, FindPeer,
     FindPeerAgain, CreateThread, Disconnect, DisconnectLock, DisconnectWalk,
     DisconnectUnlink, DisconnectClose, DisconnectFree, ListPeers, ListLock,
     ListWalk, Quit, QuitNext, QuitFree, QuitExit, Eof, OpenSocket,
     SocketFails, ConnectFails, TestNext, StepNext, WriteNext, BadAccess,
     vars, heap
<1>. QED BY <1>3, <1>4, <1>5, <1>6

\* No two listed nodes have one descriptor, nor has one the descriptor of a
\* peer that is about to be listed.
LEMMA DescriptorsDiffer ==
  ASSUME Inv, ~Quitting, cli # "d_free", NEW p \in Peer, NEW q \in Peer,
         Live(p), Live(q), fd[p] = fd[q],
         pc[p] \in {"write", "linked"}, pc[q] \in {"write", "linked"}
  PROVE  p = q
<1>1. sock[p] = 0 /\ sock[q] = 0 /\ fd[p] # 0 /\ fd[q] # 0
  BY DEF Inv, ListInv, DescriptorsByStage
<1>2. Held(p) = fd[p] /\ Held(q) = fd[q]
  BY <1>1 DEF Held
<1>3. fd[p] \in Fd
  BY <1>1 DEF Inv, ListInv, TypeOK, Node
<1>. QED BY <1>1, <1>2, <1>3 DEF Inv, Matched, Holders, Quitting

\* add_peer's last step adds one entry, for an address and with a descriptor
\* that the table does not have.
LEMMA AppendConnects ==
  ASSUME OneAtATime, Inv, SerialInv, ~Quitting, NEW p \in Peer, WriteNext(p)
  PROVE  /\ addr[p] \in Addr /\ fd[p] \in Fd
         /\ \A c \in Connections : c[1] # addr[p] /\ c[2] # fd[p]
         /\ Connections' = Connections \cup {<<addr[p], fd[p]>>}
<1>1. pc[p] = "write" /\ p \in Node /\ p # Head
  BY PeersAssumption DEF WriteNext, ThreadAt, Node
<1>2. Live(p)
  BY <1>1 DEF Inv, ListInv, NodesOwned
<1>3. addr[p] \in Addr
  BY <1>1, <1>2 DEF Inv, ListInv, TypeOK, SerialInv, Addressed, Live
<1>4. fd[p] \in Fd
  BY <1>1 DEF Inv, ListInv, TypeOK, DescriptorsByStage
<1>5. cli = "prompt"
  BY Turns DEF ClientStep
<1>6. ASSUME NEW n \in Listed \ {Head}
      PROVE  addr[n] # addr[p] /\ fd[n] # fd[p]
  <2>1. n \in Peer /\ Live(n) /\ pc[n] = "linked"
    BY ListedFacts DEF Linked
  <2>2. fd[n] # fd[p]
    BY <1>1, <1>2, <1>5, <2>1, DescriptorsDiffer
  <2>. QED BY <1>1, <2>2 DEF SerialInv, Searched, Busy, Settled
<1>7. Listed' = Listed \cup {p} /\ p \notin Listed
  BY ListedAppend
<1>8. addr' = addr /\ fd' = fd
  BY DEF WriteNext
<1>. QED BY <1>1, <1>3, <1>4, <1>6, <1>7, <1>8 DEF Connections

\* DISCONNECT's unlinking removes the entry of its address and no other.
LEMMA UnlinkDisconnects ==
  ASSUME Inv, SerialInv, ~Quitting, DisconnectUnlink
  PROVE  /\ target \in Addr /\ fd[cur] \in Fd
         /\ <<target, fd[cur]>> \in Connections
         /\ Connections' = Connections \ {<<target, fd[cur]>>}
<1>1. /\ Listed' = Listed \ {cur}
      /\ cur \in Listed /\ cur # Head /\ cur \in Peer
  BY ListedUnlink
<1>2. cli = "d_unlink" /\ addr' = addr /\ fd' = fd
  BY DEF DisconnectUnlink, At
<1>3. addr[cur] = target
  BY <1>2 DEF SerialInv, Unlinking
<1>4. Live(cur) /\ pc[cur] = "linked" /\ cur \in Node
  BY <1>1, ListedFacts DEF Linked
<1>5. target \in Addr
  BY <1>1, <1>3, <1>4 DEF Inv, ListInv, TypeOK, SerialInv, Addressed, Live
<1>6. fd[cur] \in Fd
  BY <1>1, <1>4 DEF Inv, ListInv, TypeOK, DescriptorsByStage
<1>7. \A n \in Listed \ {Head} : fd[n] = fd[cur] => n = cur
  BY <1>1, <1>2, <1>4, ListedFacts, DescriptorsDiffer DEF Linked
<1>. QED BY <1>1, <1>2, <1>3, <1>5, <1>6, <1>7 DEF Connections

\* Used one command at a time, CONNECT, DISCONNECT and QUIT implement the
\* atomic table: CONNECT takes effect where add_peer writes temp->next,
\* DISCONNECT where it unlinks the node, everything else is unseen.
THEOREM SerialUseIsARegistry == OneAtATime => (Spec => ImplementsRegistry)
<1> SUFFICES ASSUME OneAtATime PROVE Spec => ImplementsRegistry
  OBVIOUS
<1>1. Init => Registry!Init
  <2> SUFFICES ASSUME Init PROVE Registry!Init
    OBVIOUS
  <2>1. ~Quitting /\ next \in [Node -> {Null}]
    BY DEF Init, Quitting, Leaving
  <2>2. {Head} \in SUBSET Node /\ Closed(next, {Head})
    BY <2>1 DEF Closed, Node
  <2>3. Listed \subseteq {Head}
    BY <2>2, ListedFrom, FromLeast
  <2>. QED BY <2>1, <2>3 DEF Registry!Init
<1>2. ASSUME Inv, SerialInv, [Next]_vars
      PROVE  [Registry!Next]_<<IF Quitting THEN {} ELSE Connections, ~Quitting>>
  <2>1. CASE Quitting
    BY <1>2, <2>1, QuittingStays
  <2>2. CASE ~Quitting /\ Quitting'
    BY <2>2 DEF Registry!Next, Registry!Stop, Connections
  <2>3. CASE ~Quitting /\ ~Quitting'
    <3>1. ASSUME NEW p \in Peer, WriteNext(p) PROVE Registry!Next
      <4>1. PICK a \in Addr, f \in Fd : a = addr[p] /\ f = fd[p]
        BY <1>2, <2>3, <3>1, AppendConnects
      <4>2. Registry!Connect(a, f)
        BY <1>2, <2>3, <3>1, <4>1, AppendConnects
           DEF Registry!Connect, Connections
      <4>. QED BY <4>2 DEF Registry!Next
    <3>2. ASSUME DisconnectUnlink PROVE Registry!Next
      <4>1. PICK a \in Addr : a = target
        BY <1>2, <2>3, <3>2, UnlinkDisconnects
      <4>2. Registry!Disconnect(a)
        BY <1>2, <2>3, <3>2, <4>1, UnlinkDisconnects
           DEF Registry!Disconnect, Connections
      <4>. QED BY <4>2 DEF Registry!Next
    <3>3. CASE ~DisconnectUnlink /\ \A p \in Peer : ~WriteNext(p)
      <4>1. Listed' = Listed
        BY <1>2, <3>3, NextKept
      <4>2. \A n \in Listed \ {Head} : addr'[n] = addr[n] /\ fd'[n] = fd[n]
        BY <1>2, <2>3, EntriesKept
      <4>3. Connections' = Connections
        BY <4>1, <4>2 DEF Connections
      <4>. QED BY <2>3, <4>3
    <3>. QED BY <3>1, <3>2, <3>3
  <2>. QED BY <2>1, <2>2, <2>3
<1>3. Inv /\ SerialInv /\ [Next]_vars
        => [Registry!Next]_<<IF Quitting THEN {}
                            ELSE {<<addr[p], fd[p]>> : p \in Listed \ {Head}},
                            ~Quitting>>
  BY <1>2 DEF Connections
<1>. QED BY <1>1, <1>3, InvAlways, SerialInvAlways, PTL
         DEF Spec, ImplementsRegistry, Registry!Spec
=============================================================================
