---------------------------- MODULE PeersProofs ----------------------------
(***************************************************************************)
(* Proofs about Peers, for any number of peers, addresses and descriptors, *)
(* with overlapping CONNECTs (OneAtATime FALSE) and without.  Each lemma   *)
(* shows that one conjunct of Inv survives every step, one proof step per  *)
(* action; the theorems at the end read the properties off Inv.            *)
(***************************************************************************)
EXTENDS PeersInv, TLAPS

\* While the process runs, a walk's cursor is a node in memory.
LEMMA CursorRunning ==
  ASSUME ListInv, process = "running", cli \in Walking
  PROVE  cur \in Node /\ Live(cur)
  BY DEF ListInv, TypeOK, RegistersLive, CursorLive

\* Types.  A walk reads next[cur] only while cur is a node (CursorRunning),
\* so the registers stay nodes or NULL.
LEMMA TypeStep == ListInv /\ [Next]_vars => TypeOK'
  <1> SUFFICES ASSUME ListInv, [Next]_vars PROVE TypeOK'
    OBVIOUS
  <1>0. /\ TypeOK
        /\ process = "running" /\ cli \in Walking => cur \in Node
        /\ cli \in {"c_lock", "c_find", "c_find_again", "c_create"} =>
             node \in Peer
    BY CursorRunning DEF ListInv, NodesOwned, TypeOK
  <1> USE PeersAssumption, <1>0 DEF Walking, TypeOK, CliStates,
        ThreadStates, ProcessStates, args, registers, threads, heap, history,
        Node
  <1>1. ASSUME NEW p \in Peer, NEW a \in Addr, Connect(p, a) PROVE TypeOK'
    BY <1>1 DEF Connect, Prompt
  <1>2. CASE ConnectLock
    BY <1>2 DEF ConnectLock, At, Acquire
  <1>3. CASE FindPeer
    <2>1. UNCHANGED <<process, args, prev, succ, threads, heap, open, history>>
      BY <1>3 DEF FindPeer
    <2>2. cli' \in CliStates /\ lock' \in BOOLEAN
      BY <1>3 DEF FindPeer, At
    <2>3. cur \in Node /\ cur' \in {Head, next[cur], Null}
      BY <1>3 DEF FindPeer, At
    <2> QED
      BY <2>1, <2>2, <2>3
  <1>4. CASE FindPeerAgain
    BY <1>4 DEF FindPeerAgain, At, Die, Return
  <1>5. CASE CreateThread
    BY <1>5 DEF CreateThread, At, Return
  <1>6. ASSUME NEW a \in Addr, Disconnect(a) PROVE TypeOK'
    BY <1>6 DEF Disconnect, Prompt
  <1>7. CASE DisconnectLock
    BY <1>7 DEF DisconnectLock, At, Acquire
  <1>8. CASE DisconnectWalk
    <2>1. UNCHANGED <<process, threads, heap, open, history>>
      BY <1>8 DEF DisconnectWalk
    <2>2. cur \in Node /\ cur' \in {cur, next[cur], Null}
      BY <1>8 DEF DisconnectWalk, At, Return
    <2>3. prev' \in {prev, cur, Null} /\ succ' \in {succ, next[cur], Null}
      BY <1>8 DEF DisconnectWalk, At, Return
    <2>4. /\ node' \in {node, Null} /\ target' \in {target, NoAddr}
          /\ lock' \in {lock, FALSE} /\ cli' \in {cli, "d_unlink", "prompt"}
      BY <1>8 DEF DisconnectWalk, Return
    <2>5. /\ cur' \in Node \cup {Null} /\ prev' \in Node \cup {Null}
          /\ succ' \in Node \cup {Null}
      BY <2>2, <2>3
    <2>6. /\ node' \in Peer \cup {Null} /\ target' \in Addr \cup {NoAddr}
          /\ lock' \in BOOLEAN /\ cli' \in CliStates
      BY <2>4
    <2> QED
      BY <2>1, <2>5, <2>6
  <1>9. CASE DisconnectUnlink
    BY <1>9 DEF DisconnectUnlink, At
  <1>10. CASE DisconnectClose
    BY <1>10 DEF DisconnectClose, At
  <1>11. CASE DisconnectFree
    BY <1>11 DEF DisconnectFree, At, Return
  <1>12. CASE ListPeers
    BY <1>12 DEF ListPeers, Prompt
  <1>13. CASE ListLock
    BY <1>13 DEF ListLock, At, Acquire
  <1>14. CASE ListWalk
    BY <1>14 DEF ListWalk, At
  <1>15. CASE Quit
    BY <1>15 DEF Quit, Prompt
  <1>16. CASE QuitNext
    BY <1>16 DEF QuitNext, At
  <1>17. CASE QuitFree
    BY <1>17 DEF QuitFree, At
  <1>18. CASE QuitExit
    BY <1>18 DEF QuitExit, At
  <1>19. CASE Eof
    BY <1>19 DEF Eof, Prompt
  <1>20. ASSUME NEW p \in Peer, OpenSocket(p) PROVE TypeOK'
    BY <1>20 DEF OpenSocket, ThreadAt
  <1>21. ASSUME NEW p \in Peer, SocketFails(p) PROVE TypeOK'
    BY <1>21 DEF SocketFails, ThreadAt, Die
  <1>22. ASSUME NEW p \in Peer, ConnectFails(p) PROVE TypeOK'
    <2>1. UNCHANGED <<process, cli, registers, lock, temp, addr, next, fd,
                      history>>
      BY <1>22 DEF ConnectFails
    <2>2. /\ open' \subseteq Fd /\ sock' \in [Peer -> Fd \cup {0}]
          /\ mem' \in [Node -> {"unallocated", "live", "freed"}]
          /\ pc' \in [Peer -> ThreadStates]
      BY <1>22 DEF ConnectFails
    <2> QED
      BY <2>1, <2>2
  <1>23. ASSUME NEW p \in Peer, ConnectSucceeds(p) PROVE TypeOK'
    BY <1>23 DEF ConnectSucceeds, ThreadAt
  <1>24. ASSUME NEW p \in Peer, TestNext(p) PROVE TypeOK'
    BY <1>24 DEF TestNext, ThreadAt, Readable
  <1>25. ASSUME NEW p \in Peer, StepNext(p) PROVE TypeOK'
    BY <1>25 DEF StepNext, ThreadAt, Readable
  <1>26. ASSUME NEW p \in Peer, WriteNext(p) PROVE TypeOK'
    BY <1>26 DEF WriteNext, ThreadAt, Readable
  <1>27. ASSUME NEW p \in Peer, BadAccess(p) PROVE TypeOK'
    BY <1>27 DEF BadAccess, Die, Readable
  <1>28. CASE UNCHANGED vars
    BY <1>28 DEF vars
  <1> QED
    BY <1>1, <1>2, <1>3, <1>4, <1>5, <1>6, <1>7, <1>8, <1>9, <1>10, <1>11,
       <1>12, <1>13, <1>14, <1>15, <1>16, <1>17, <1>18, <1>19, <1>20, <1>21,
       <1>22, <1>23, <1>24, <1>25, <1>26, <1>27, <1>28 DEF Next, UserInput,
       CliStep, ClientStep

\* Only linked nodes are pointed to.  WriteNext is the step that stores a
\* new pointer, and it makes its target linked; DisconnectUnlink stores
\* succ, which came from a linked node.
LEMMA PointersStep == ListInv /\ [Next]_vars => PointersLinked'
  <1> SUFFICES ASSUME ListInv, [Next]_vars PROVE PointersLinked'
    OBVIOUS
  <1> USE PeersAssumption DEF ListInv, RegistersLive, CursorLive, Walking, Live,
        NodesOwned, PointersLinked, Linked, TypeOK, args, registers,
        threads, heap, history, Node
  <1>1. ASSUME NEW p \in Peer, NEW a \in Addr, Connect(p, a) PROVE PointersLinked'
    BY <1>1 DEF Connect, Prompt
  <1>2. CASE ConnectLock
    BY <1>2 DEF ConnectLock, At, Acquire
  <1>3. CASE FindPeer
    BY <1>3 DEF FindPeer, At
  <1>4. CASE FindPeerAgain
    BY <1>4 DEF FindPeerAgain, At, Die, Return
  <1>5. CASE CreateThread
    BY <1>5 DEF CreateThread, At, Return
  <1>6. ASSUME NEW a \in Addr, Disconnect(a) PROVE PointersLinked'
    BY <1>6 DEF Disconnect, Prompt
  <1>7. CASE DisconnectLock
    BY <1>7 DEF DisconnectLock, At, Acquire
  <1>8. CASE DisconnectWalk
    BY <1>8 DEF DisconnectWalk, At, Return
  <1>9. CASE DisconnectUnlink
    BY <1>9 DEF DisconnectUnlink, At
  <1>10. CASE DisconnectClose
    BY <1>10 DEF DisconnectClose, At
  <1>11. CASE DisconnectFree
    BY <1>11 DEF DisconnectFree, At, Return
  <1>12. CASE ListPeers
    BY <1>12 DEF ListPeers, Prompt
  <1>13. CASE ListLock
    BY <1>13 DEF ListLock, At, Acquire
  <1>14. CASE ListWalk
    BY <1>14 DEF ListWalk, At
  <1>15. CASE Quit
    BY <1>15 DEF Quit, Prompt
  <1>16. CASE QuitNext
    BY <1>16 DEF QuitNext, At
  <1>17. CASE QuitFree
    BY <1>17 DEF QuitFree, At
  <1>18. CASE QuitExit
    BY <1>18 DEF QuitExit, At
  <1>19. CASE Eof
    BY <1>19 DEF Eof, Prompt
  <1>20. ASSUME NEW p \in Peer, OpenSocket(p) PROVE PointersLinked'
    BY <1>20 DEF OpenSocket, ThreadAt
  <1>21. ASSUME NEW p \in Peer, SocketFails(p) PROVE PointersLinked'
    BY <1>21 DEF SocketFails, ThreadAt, Die
  <1>22. ASSUME NEW p \in Peer, ConnectFails(p) PROVE PointersLinked'
    BY <1>22 DEF ConnectFails, ThreadAt
  <1>23. ASSUME NEW p \in Peer, ConnectSucceeds(p) PROVE PointersLinked'
    BY <1>23 DEF ConnectSucceeds, ThreadAt
  <1>24. ASSUME NEW p \in Peer, TestNext(p) PROVE PointersLinked'
    BY <1>24 DEF TestNext, ThreadAt, Readable
  <1>25. ASSUME NEW p \in Peer, StepNext(p) PROVE PointersLinked'
    BY <1>25 DEF StepNext, ThreadAt, Readable
  <1>26. ASSUME NEW p \in Peer, WriteNext(p) PROVE PointersLinked'
    BY <1>26 DEF WriteNext, ThreadAt, Readable
  <1>27. ASSUME NEW p \in Peer, BadAccess(p) PROVE PointersLinked'
    BY <1>27 DEF BadAccess, Die, Readable
  <1>28. CASE UNCHANGED vars
    BY <1>28 DEF vars
  <1> QED
    BY <1>1, <1>2, <1>3, <1>4, <1>5, <1>6, <1>7, <1>8, <1>9, <1>10, <1>11,
       <1>12, <1>13, <1>14, <1>15, <1>16, <1>17, <1>18, <1>19, <1>20, <1>21,
       <1>22, <1>23, <1>24, <1>25, <1>26, <1>27, <1>28 DEF Next, UserInput,
       CliStep, ClientStep

\* Ownership.  DISCONNECT and QUIT free only what the list led them to,
\* hence linked nodes, never one that a client thread still works on.
LEMMA OwnedStep == ListInv /\ [Next]_vars => NodesOwned'
  <1> SUFFICES ASSUME ListInv, [Next]_vars PROVE NodesOwned'
    OBVIOUS
  <1> USE PeersAssumption DEF ListInv, RegistersLive, CursorLive, Walking,
        NodesOwned, PointersLinked, Linked, Live, TypeOK, args, registers,
        threads, heap, history, Node
  <1>1. ASSUME NEW p \in Peer, NEW a \in Addr, Connect(p, a) PROVE NodesOwned'
    BY <1>1 DEF Connect, Prompt
  <1>2. CASE ConnectLock
    BY <1>2 DEF ConnectLock, At, Acquire
  <1>3. CASE FindPeer
    BY <1>3 DEF FindPeer, At
  <1>4. CASE FindPeerAgain
    BY <1>4 DEF FindPeerAgain, At, Die, Return
  <1>5. CASE CreateThread
    BY <1>5 DEF CreateThread, At, Return
  <1>6. ASSUME NEW a \in Addr, Disconnect(a) PROVE NodesOwned'
    BY <1>6 DEF Disconnect, Prompt
  <1>7. CASE DisconnectLock
    BY <1>7 DEF DisconnectLock, At, Acquire
  <1>8. CASE DisconnectWalk
    BY <1>8 DEF DisconnectWalk, At, Return
  <1>9. CASE DisconnectUnlink
    BY <1>9 DEF DisconnectUnlink, At
  <1>10. CASE DisconnectClose
    BY <1>10 DEF DisconnectClose, At
  <1>11. CASE DisconnectFree
    BY <1>11 DEF DisconnectFree, At, Return
  <1>12. CASE ListPeers
    BY <1>12 DEF ListPeers, Prompt
  <1>13. CASE ListLock
    BY <1>13 DEF ListLock, At, Acquire
  <1>14. CASE ListWalk
    BY <1>14 DEF ListWalk, At
  <1>15. CASE Quit
    BY <1>15 DEF Quit, Prompt
  <1>16. CASE QuitNext
    BY <1>16 DEF QuitNext, At
  <1>17. CASE QuitFree
    BY <1>17 DEF QuitFree, At
  <1>18. CASE QuitExit
    BY <1>18 DEF QuitExit, At
  <1>19. CASE Eof
    BY <1>19 DEF Eof, Prompt
  <1>20. ASSUME NEW p \in Peer, OpenSocket(p) PROVE NodesOwned'
    BY <1>20 DEF OpenSocket, ThreadAt
  <1>21. ASSUME NEW p \in Peer, SocketFails(p) PROVE NodesOwned'
    BY <1>21 DEF SocketFails, ThreadAt, Die
  <1>22. ASSUME NEW p \in Peer, ConnectFails(p) PROVE NodesOwned'
    BY <1>22 DEF ConnectFails, ThreadAt
  <1>23. ASSUME NEW p \in Peer, ConnectSucceeds(p) PROVE NodesOwned'
    BY <1>23 DEF ConnectSucceeds, ThreadAt
  <1>24. ASSUME NEW p \in Peer, TestNext(p) PROVE NodesOwned'
    BY <1>24 DEF TestNext, ThreadAt, Readable
  <1>25. ASSUME NEW p \in Peer, StepNext(p) PROVE NodesOwned'
    BY <1>25 DEF StepNext, ThreadAt, Readable
  <1>26. ASSUME NEW p \in Peer, WriteNext(p) PROVE NodesOwned'
    BY <1>26 DEF WriteNext, ThreadAt, Readable
  <1>27. ASSUME NEW p \in Peer, BadAccess(p) PROVE NodesOwned'
    BY <1>27 DEF BadAccess, Die, Readable
  <1>28. CASE UNCHANGED vars
    BY <1>28 DEF vars
  <1> QED
    BY <1>1, <1>2, <1>3, <1>4, <1>5, <1>6, <1>7, <1>8, <1>9, <1>10, <1>11,
       <1>12, <1>13, <1>14, <1>15, <1>16, <1>17, <1>18, <1>19, <1>20, <1>21,
       <1>22, <1>23, <1>24, <1>25, <1>26, <1>27, <1>28 DEF Next, UserInput,
       CliStep, ClientStep

\* Pointers lead to younger nodes.  WriteNext appends the youngest node of
\* all, even when it overwrites another append; DisconnectUnlink joins prev
\* to succ, with cur between them in age.
LEMMA AgesStep == ListInv /\ [Next]_vars => AgesOrdered'
  <1> SUFFICES ASSUME ListInv, [Next]_vars PROVE AgesOrdered'
    OBVIOUS
  <1> USE PeersAssumption DEF ListInv, AgesOrdered, NextIsYounger,
        PointersLinked, Linked, RegistersLive, CursorLive, Walking, Live,
        TypeOK, args, registers, threads, heap, history, Node
  <1>1. ASSUME NEW p \in Peer, NEW a \in Addr, Connect(p, a) PROVE AgesOrdered'
    BY <1>1 DEF Connect, Prompt
  <1>2. CASE ConnectLock
    BY <1>2 DEF ConnectLock, At, Acquire
  <1>3. CASE FindPeer
    BY <1>3 DEF FindPeer, At
  <1>4. CASE FindPeerAgain
    BY <1>4 DEF FindPeerAgain, At, Die, Return
  <1>5. CASE CreateThread
    BY <1>5 DEF CreateThread, At, Return
  <1>6. ASSUME NEW a \in Addr, Disconnect(a) PROVE AgesOrdered'
    BY <1>6 DEF Disconnect, Prompt
  <1>7. CASE DisconnectLock
    BY <1>7 DEF DisconnectLock, At, Acquire
  <1>8. CASE DisconnectWalk
    BY <1>8 DEF DisconnectWalk, At, Return
  <1>9. CASE DisconnectUnlink
    BY <1>9 DEF DisconnectUnlink, At
  <1>10. CASE DisconnectClose
    BY <1>10 DEF DisconnectClose, At
  <1>11. CASE DisconnectFree
    BY <1>11 DEF DisconnectFree, At, Return
  <1>12. CASE ListPeers
    BY <1>12 DEF ListPeers, Prompt
  <1>13. CASE ListLock
    BY <1>13 DEF ListLock, At, Acquire
  <1>14. CASE ListWalk
    BY <1>14 DEF ListWalk, At
  <1>15. CASE Quit
    BY <1>15 DEF Quit, Prompt
  <1>16. CASE QuitNext
    BY <1>16 DEF QuitNext, At
  <1>17. CASE QuitFree
    BY <1>17 DEF QuitFree, At
  <1>18. CASE QuitExit
    BY <1>18 DEF QuitExit, At
  <1>19. CASE Eof
    BY <1>19 DEF Eof, Prompt
  <1>20. ASSUME NEW p \in Peer, OpenSocket(p) PROVE AgesOrdered'
    BY <1>20 DEF OpenSocket, ThreadAt
  <1>21. ASSUME NEW p \in Peer, SocketFails(p) PROVE AgesOrdered'
    BY <1>21 DEF SocketFails, ThreadAt, Die
  <1>22. ASSUME NEW p \in Peer, ConnectFails(p) PROVE AgesOrdered'
    BY <1>22 DEF ConnectFails, ThreadAt
  <1>23. ASSUME NEW p \in Peer, ConnectSucceeds(p) PROVE AgesOrdered'
    BY <1>23 DEF ConnectSucceeds, ThreadAt
  <1>24. ASSUME NEW p \in Peer, TestNext(p) PROVE AgesOrdered'
    BY <1>24 DEF TestNext, ThreadAt, Readable
  <1>25. ASSUME NEW p \in Peer, StepNext(p) PROVE AgesOrdered'
    BY <1>25 DEF StepNext, ThreadAt, Readable
  <1>26. ASSUME NEW p \in Peer, WriteNext(p) PROVE AgesOrdered'
    BY <1>26 DEF WriteNext, ThreadAt, Readable
  <1>27. ASSUME NEW p \in Peer, BadAccess(p) PROVE AgesOrdered'
    BY <1>27 DEF BadAccess, Die, Readable
  <1>28. CASE UNCHANGED vars
    BY <1>28 DEF vars
  <1> QED
    BY <1>1, <1>2, <1>3, <1>4, <1>5, <1>6, <1>7, <1>8, <1>9, <1>10, <1>11,
       <1>12, <1>13, <1>14, <1>15, <1>16, <1>17, <1>18, <1>19, <1>20, <1>21,
       <1>22, <1>23, <1>24, <1>25, <1>26, <1>27, <1>28 DEF Next, UserInput,
       CliStep, ClientStep

\* No two nodes share a successor.  Between DisconnectUnlink and
\* DisconnectFree prev and cur do, which is why the doomed node is
\* excepted; the node a thread links had no predecessor, because nothing
\* points to an unlinked node.
LEMMA PredecessorStep == ListInv /\ [Next]_vars => OnePredecessor'
  <1> SUFFICES ASSUME ListInv, [Next]_vars PROVE OnePredecessor'
    OBVIOUS
  <1> USE PeersAssumption DEF ListInv, OnePredecessor, Doomed, NodesOwned,
        AgesOrdered, NextIsYounger, PointersLinked, RegistersLive,
        CursorLive, Walking, Linked, Live, TypeOK, args, registers,
        threads, heap, history, Node
  <1>1. ASSUME NEW p \in Peer, NEW a \in Addr, Connect(p, a) PROVE OnePredecessor'
    BY <1>1 DEF Connect, Prompt
  <1>2. CASE ConnectLock
    BY <1>2 DEF ConnectLock, At, Acquire
  <1>3. CASE FindPeer
    BY <1>3 DEF FindPeer, At
  <1>4. CASE FindPeerAgain
    BY <1>4 DEF FindPeerAgain, At, Die, Return
  <1>5. CASE CreateThread
    BY <1>5 DEF CreateThread, At, Return
  <1>6. ASSUME NEW a \in Addr, Disconnect(a) PROVE OnePredecessor'
    BY <1>6 DEF Disconnect, Prompt
  <1>7. CASE DisconnectLock
    BY <1>7 DEF DisconnectLock, At, Acquire
  <1>8. CASE DisconnectWalk
    BY <1>8 DEF DisconnectWalk, At, Return
  <1>9. CASE DisconnectUnlink
    BY <1>9 DEF DisconnectUnlink, At
  <1>10. CASE DisconnectClose
    BY <1>10 DEF DisconnectClose, At
  <1>11. CASE DisconnectFree
    BY <1>11 DEF DisconnectFree, At, Return
  <1>12. CASE ListPeers
    BY <1>12 DEF ListPeers, Prompt
  <1>13. CASE ListLock
    BY <1>13 DEF ListLock, At, Acquire
  <1>14. CASE ListWalk
    BY <1>14 DEF ListWalk, At
  <1>15. CASE Quit
    BY <1>15 DEF Quit, Prompt
  <1>16. CASE QuitNext
    BY <1>16 DEF QuitNext, At
  <1>17. CASE QuitFree
    BY <1>17 DEF QuitFree, At
  <1>18. CASE QuitExit
    BY <1>18 DEF QuitExit, At
  <1>19. CASE Eof
    BY <1>19 DEF Eof, Prompt
  <1>20. ASSUME NEW p \in Peer, OpenSocket(p) PROVE OnePredecessor'
    BY <1>20 DEF OpenSocket, ThreadAt
  <1>21. ASSUME NEW p \in Peer, SocketFails(p) PROVE OnePredecessor'
    BY <1>21 DEF SocketFails, ThreadAt, Die
  <1>22. ASSUME NEW p \in Peer, ConnectFails(p) PROVE OnePredecessor'
    BY <1>22 DEF ConnectFails, ThreadAt
  <1>23. ASSUME NEW p \in Peer, ConnectSucceeds(p) PROVE OnePredecessor'
    BY <1>23 DEF ConnectSucceeds, ThreadAt
  <1>24. ASSUME NEW p \in Peer, TestNext(p) PROVE OnePredecessor'
    BY <1>24 DEF TestNext, ThreadAt, Readable
  <1>25. ASSUME NEW p \in Peer, StepNext(p) PROVE OnePredecessor'
    BY <1>25 DEF StepNext, ThreadAt, Readable
  <1>26. ASSUME NEW p \in Peer, WriteNext(p) PROVE OnePredecessor'
    BY <1>26 DEF WriteNext, ThreadAt, Readable
  <1>27. ASSUME NEW p \in Peer, BadAccess(p) PROVE OnePredecessor'
    BY <1>27 DEF BadAccess, Die, Readable
  <1>28. CASE UNCHANGED vars
    BY <1>28 DEF vars
  <1> QED
    BY <1>1, <1>2, <1>3, <1>4, <1>5, <1>6, <1>7, <1>8, <1>9, <1>10, <1>11,
       <1>12, <1>13, <1>14, <1>15, <1>16, <1>17, <1>18, <1>19, <1>20, <1>21,
       <1>22, <1>23, <1>24, <1>25, <1>26, <1>27, <1>28 DEF Next, UserInput,
       CliStep, ClientStep

\* No pointer into freed memory.  DisconnectFree and QuitFree free cur, to
\* which no live node points; ConnectFails, CreateThread and FindPeerAgain
\* free a node that was never linked.
LEMMA DanglingStep == ListInv /\ [Next]_vars => NoDanglingNext'
  <1> SUFFICES ASSUME ListInv, [Next]_vars PROVE NoDanglingNext'
    OBVIOUS
  <1> USE PeersAssumption DEF ListInv, NoDanglingNext, OnePredecessor, Doomed,
        NodesOwned, RegistersLive, PointersLinked, Linked, Live, TypeOK,
        args, registers, threads, heap, history, Node
  <1>1. ASSUME NEW p \in Peer, NEW a \in Addr, Connect(p, a) PROVE NoDanglingNext'
    BY <1>1 DEF Connect, Prompt
  <1>2. CASE ConnectLock
    BY <1>2 DEF ConnectLock, At, Acquire
  <1>3. CASE FindPeer
    BY <1>3 DEF FindPeer, At
  <1>4. CASE FindPeerAgain
    BY <1>4 DEF FindPeerAgain, At, Die, Return
  <1>5. CASE CreateThread
    BY <1>5 DEF CreateThread, At, Return
  <1>6. ASSUME NEW a \in Addr, Disconnect(a) PROVE NoDanglingNext'
    BY <1>6 DEF Disconnect, Prompt
  <1>7. CASE DisconnectLock
    BY <1>7 DEF DisconnectLock, At, Acquire
  <1>8. CASE DisconnectWalk
    BY <1>8 DEF DisconnectWalk, At, Return
  <1>9. CASE DisconnectUnlink
    BY <1>9 DEF DisconnectUnlink, At
  <1>10. CASE DisconnectClose
    BY <1>10 DEF DisconnectClose, At
  <1>11. CASE DisconnectFree
    BY <1>11 DEF DisconnectFree, At, Return
  <1>12. CASE ListPeers
    BY <1>12 DEF ListPeers, Prompt
  <1>13. CASE ListLock
    BY <1>13 DEF ListLock, At, Acquire
  <1>14. CASE ListWalk
    BY <1>14 DEF ListWalk, At
  <1>15. CASE Quit
    BY <1>15 DEF Quit, Prompt
  <1>16. CASE QuitNext
    BY <1>16 DEF QuitNext, At
  <1>17. CASE QuitFree
    BY <1>17 DEF QuitFree, At
  <1>18. CASE QuitExit
    BY <1>18 DEF QuitExit, At
  <1>19. CASE Eof
    BY <1>19 DEF Eof, Prompt
  <1>20. ASSUME NEW p \in Peer, OpenSocket(p) PROVE NoDanglingNext'
    BY <1>20 DEF OpenSocket, ThreadAt
  <1>21. ASSUME NEW p \in Peer, SocketFails(p) PROVE NoDanglingNext'
    BY <1>21 DEF SocketFails, ThreadAt, Die
  <1>22. ASSUME NEW p \in Peer, ConnectFails(p) PROVE NoDanglingNext'
    BY <1>22 DEF ConnectFails, ThreadAt
  <1>23. ASSUME NEW p \in Peer, ConnectSucceeds(p) PROVE NoDanglingNext'
    BY <1>23 DEF ConnectSucceeds, ThreadAt
  <1>24. ASSUME NEW p \in Peer, TestNext(p) PROVE NoDanglingNext'
    BY <1>24 DEF TestNext, ThreadAt, Readable
  <1>25. ASSUME NEW p \in Peer, StepNext(p) PROVE NoDanglingNext'
    BY <1>25 DEF StepNext, ThreadAt, Readable
  <1>26. ASSUME NEW p \in Peer, WriteNext(p) PROVE NoDanglingNext'
    BY <1>26 DEF WriteNext, ThreadAt, Readable
  <1>27. ASSUME NEW p \in Peer, BadAccess(p) PROVE NoDanglingNext'
    BY <1>27 DEF BadAccess, Die, Readable
  <1>28. CASE UNCHANGED vars
    BY <1>28 DEF vars
  <1> QED
    BY <1>1, <1>2, <1>3, <1>4, <1>5, <1>6, <1>7, <1>8, <1>9, <1>10, <1>11,
       <1>12, <1>13, <1>14, <1>15, <1>16, <1>17, <1>18, <1>19, <1>20, <1>21,
       <1>22, <1>23, <1>24, <1>25, <1>26, <1>27, <1>28 DEF Next, UserInput,
       CliStep, ClientStep

\* What the CLI holds is in memory: the walks start at the live sentinel
\* and follow pointers of live nodes, and QuitFree frees a node only after
\* nothing live points to it but what the walk leaves behind.
LEMMA RegistersStep == ListInv /\ [Next]_vars => RegistersLive'
  <1> SUFFICES ASSUME ListInv, [Next]_vars PROVE RegistersLive'
    OBVIOUS
  <1> USE PeersAssumption DEF ListInv, RegistersLive, CursorLive, Walking,
        NoDanglingNext, OnePredecessor, Doomed, SentinelStays, Leaving,
        AgesOrdered, NodesOwned, PointersLinked, Linked, Live, TypeOK, args,
        registers, threads, heap, history, Node
  <1>1. ASSUME NEW p \in Peer, NEW a \in Addr, Connect(p, a) PROVE RegistersLive'
    BY <1>1 DEF Connect, Prompt
  <1>2. CASE ConnectLock
    BY <1>2 DEF ConnectLock, At, Acquire
  <1>3. CASE FindPeer
    BY <1>3 DEF FindPeer, At
  <1>4. CASE FindPeerAgain
    BY <1>4 DEF FindPeerAgain, At, Die, Return
  <1>5. CASE CreateThread
    BY <1>5 DEF CreateThread, At, Return
  <1>6. ASSUME NEW a \in Addr, Disconnect(a) PROVE RegistersLive'
    BY <1>6 DEF Disconnect, Prompt
  <1>7. CASE DisconnectLock
    BY <1>7 DEF DisconnectLock, At, Acquire
  <1>8. CASE DisconnectWalk
    BY <1>8 DEF DisconnectWalk, At, Return
  <1>9. CASE DisconnectUnlink
    BY <1>9 DEF DisconnectUnlink, At
  <1>10. CASE DisconnectClose
    BY <1>10 DEF DisconnectClose, At
  <1>11. CASE DisconnectFree
    BY <1>11 DEF DisconnectFree, At, Return
  <1>12. CASE ListPeers
    BY <1>12 DEF ListPeers, Prompt
  <1>13. CASE ListLock
    BY <1>13 DEF ListLock, At, Acquire
  <1>14. CASE ListWalk
    BY <1>14 DEF ListWalk, At
  <1>15. CASE Quit
    BY <1>15 DEF Quit, Prompt
  <1>16. CASE QuitNext
    BY <1>16 DEF QuitNext, At
  <1>17. CASE QuitFree
    BY <1>17 DEF QuitFree, At
  <1>18. CASE QuitExit
    BY <1>18 DEF QuitExit, At
  <1>19. CASE Eof
    BY <1>19 DEF Eof, Prompt
  <1>20. ASSUME NEW p \in Peer, OpenSocket(p) PROVE RegistersLive'
    BY <1>20 DEF OpenSocket, ThreadAt
  <1>21. ASSUME NEW p \in Peer, SocketFails(p) PROVE RegistersLive'
    BY <1>21 DEF SocketFails, ThreadAt, Die
  <1>22. ASSUME NEW p \in Peer, ConnectFails(p) PROVE RegistersLive'
    BY <1>22 DEF ConnectFails, ThreadAt
  <1>23. ASSUME NEW p \in Peer, ConnectSucceeds(p) PROVE RegistersLive'
    BY <1>23 DEF ConnectSucceeds, ThreadAt
  <1>24. ASSUME NEW p \in Peer, TestNext(p) PROVE RegistersLive'
    BY <1>24 DEF TestNext, ThreadAt, Readable
  <1>25. ASSUME NEW p \in Peer, StepNext(p) PROVE RegistersLive'
    BY <1>25 DEF StepNext, ThreadAt, Readable
  <1>26. ASSUME NEW p \in Peer, WriteNext(p) PROVE RegistersLive'
    BY <1>26 DEF WriteNext, ThreadAt, Readable
  <1>27. ASSUME NEW p \in Peer, BadAccess(p) PROVE RegistersLive'
    BY <1>27 DEF BadAccess, Die, Readable
  <1>28. CASE UNCHANGED vars
    BY <1>28 DEF vars
  <1> QED
    BY <1>1, <1>2, <1>3, <1>4, <1>5, <1>6, <1>7, <1>8, <1>9, <1>10, <1>11,
       <1>12, <1>13, <1>14, <1>15, <1>16, <1>17, <1>18, <1>19, <1>20, <1>21,
       <1>22, <1>23, <1>24, <1>25, <1>26, <1>27, <1>28 DEF Next, UserInput,
       CliStep, ClientStep

\* DISCONNECT never takes the sentinel out: its address equals no target.
LEMMA SentinelStep == ListInv /\ [Next]_vars => SentinelStays'
  <1> SUFFICES ASSUME ListInv, [Next]_vars PROVE SentinelStays'
    OBVIOUS
  <1> USE PeersAssumption DEF ListInv, SentinelStays, Leaving, RegistersLive,
        CursorLive, Walking, NodesOwned, Live, TypeOK, args, registers,
        threads, heap, history, Node
  <1>1. ASSUME NEW p \in Peer, NEW a \in Addr, Connect(p, a) PROVE SentinelStays'
    BY <1>1 DEF Connect, Prompt
  <1>2. CASE ConnectLock
    BY <1>2 DEF ConnectLock, At, Acquire
  <1>3. CASE FindPeer
    BY <1>3 DEF FindPeer, At
  <1>4. CASE FindPeerAgain
    BY <1>4 DEF FindPeerAgain, At, Die, Return
  <1>5. CASE CreateThread
    BY <1>5 DEF CreateThread, At, Return
  <1>6. ASSUME NEW a \in Addr, Disconnect(a) PROVE SentinelStays'
    BY <1>6 DEF Disconnect, Prompt
  <1>7. CASE DisconnectLock
    BY <1>7 DEF DisconnectLock, At, Acquire
  <1>8. CASE DisconnectWalk
    BY <1>8 DEF DisconnectWalk, At, Return
  <1>9. CASE DisconnectUnlink
    BY <1>9 DEF DisconnectUnlink, At
  <1>10. CASE DisconnectClose
    BY <1>10 DEF DisconnectClose, At
  <1>11. CASE DisconnectFree
    BY <1>11 DEF DisconnectFree, At, Return
  <1>12. CASE ListPeers
    BY <1>12 DEF ListPeers, Prompt
  <1>13. CASE ListLock
    BY <1>13 DEF ListLock, At, Acquire
  <1>14. CASE ListWalk
    BY <1>14 DEF ListWalk, At
  <1>15. CASE Quit
    BY <1>15 DEF Quit, Prompt
  <1>16. CASE QuitNext
    BY <1>16 DEF QuitNext, At
  <1>17. CASE QuitFree
    BY <1>17 DEF QuitFree, At
  <1>18. CASE QuitExit
    BY <1>18 DEF QuitExit, At
  <1>19. CASE Eof
    BY <1>19 DEF Eof, Prompt
  <1>20. ASSUME NEW p \in Peer, OpenSocket(p) PROVE SentinelStays'
    BY <1>20 DEF OpenSocket, ThreadAt
  <1>21. ASSUME NEW p \in Peer, SocketFails(p) PROVE SentinelStays'
    BY <1>21 DEF SocketFails, ThreadAt, Die
  <1>22. ASSUME NEW p \in Peer, ConnectFails(p) PROVE SentinelStays'
    BY <1>22 DEF ConnectFails, ThreadAt
  <1>23. ASSUME NEW p \in Peer, ConnectSucceeds(p) PROVE SentinelStays'
    BY <1>23 DEF ConnectSucceeds, ThreadAt
  <1>24. ASSUME NEW p \in Peer, TestNext(p) PROVE SentinelStays'
    BY <1>24 DEF TestNext, ThreadAt, Readable
  <1>25. ASSUME NEW p \in Peer, StepNext(p) PROVE SentinelStays'
    BY <1>25 DEF StepNext, ThreadAt, Readable
  <1>26. ASSUME NEW p \in Peer, WriteNext(p) PROVE SentinelStays'
    BY <1>26 DEF WriteNext, ThreadAt, Readable
  <1>27. ASSUME NEW p \in Peer, BadAccess(p) PROVE SentinelStays'
    BY <1>27 DEF BadAccess, Die, Readable
  <1>28. CASE UNCHANGED vars
    BY <1>28 DEF vars
  <1> QED
    BY <1>1, <1>2, <1>3, <1>4, <1>5, <1>6, <1>7, <1>8, <1>9, <1>10, <1>11,
       <1>12, <1>13, <1>14, <1>15, <1>16, <1>17, <1>18, <1>19, <1>20, <1>21,
       <1>22, <1>23, <1>24, <1>25, <1>26, <1>27, <1>28 DEF Next, UserInput,
       CliStep, ClientStep

\* A thread's stage tells which descriptor it and its node hold.
LEMMA StageStep == ListInv /\ [Next]_vars => DescriptorsByStage'
  <1> SUFFICES ASSUME ListInv, [Next]_vars PROVE DescriptorsByStage'
    OBVIOUS
  <1> USE PeersAssumption DEF ListInv, DescriptorsByStage, NodesOwned, Live,
        TypeOK, args, registers, threads, heap, history, Node
  <1>1. ASSUME NEW p \in Peer, NEW a \in Addr, Connect(p, a) PROVE DescriptorsByStage'
    BY <1>1 DEF Connect, Prompt
  <1>2. CASE ConnectLock
    BY <1>2 DEF ConnectLock, At, Acquire
  <1>3. CASE FindPeer
    BY <1>3 DEF FindPeer, At
  <1>4. CASE FindPeerAgain
    BY <1>4 DEF FindPeerAgain, At, Die, Return
  <1>5. CASE CreateThread
    BY <1>5 DEF CreateThread, At, Return
  <1>6. ASSUME NEW a \in Addr, Disconnect(a) PROVE DescriptorsByStage'
    BY <1>6 DEF Disconnect, Prompt
  <1>7. CASE DisconnectLock
    BY <1>7 DEF DisconnectLock, At, Acquire
  <1>8. CASE DisconnectWalk
    BY <1>8 DEF DisconnectWalk, At, Return
  <1>9. CASE DisconnectUnlink
    BY <1>9 DEF DisconnectUnlink, At
  <1>10. CASE DisconnectClose
    BY <1>10 DEF DisconnectClose, At
  <1>11. CASE DisconnectFree
    BY <1>11 DEF DisconnectFree, At, Return
  <1>12. CASE ListPeers
    BY <1>12 DEF ListPeers, Prompt
  <1>13. CASE ListLock
    BY <1>13 DEF ListLock, At, Acquire
  <1>14. CASE ListWalk
    BY <1>14 DEF ListWalk, At
  <1>15. CASE Quit
    BY <1>15 DEF Quit, Prompt
  <1>16. CASE QuitNext
    BY <1>16 DEF QuitNext, At
  <1>17. CASE QuitFree
    BY <1>17 DEF QuitFree, At
  <1>18. CASE QuitExit
    BY <1>18 DEF QuitExit, At
  <1>19. CASE Eof
    BY <1>19 DEF Eof, Prompt
  <1>20. ASSUME NEW p \in Peer, OpenSocket(p) PROVE DescriptorsByStage'
    BY <1>20 DEF OpenSocket, ThreadAt
  <1>21. ASSUME NEW p \in Peer, SocketFails(p) PROVE DescriptorsByStage'
    BY <1>21 DEF SocketFails, ThreadAt, Die
  <1>22. ASSUME NEW p \in Peer, ConnectFails(p) PROVE DescriptorsByStage'
    BY <1>22 DEF ConnectFails, ThreadAt
  <1>23. ASSUME NEW p \in Peer, ConnectSucceeds(p) PROVE DescriptorsByStage'
    BY <1>23 DEF ConnectSucceeds, ThreadAt
  <1>24. ASSUME NEW p \in Peer, TestNext(p) PROVE DescriptorsByStage'
    BY <1>24 DEF TestNext, ThreadAt, Readable
  <1>25. ASSUME NEW p \in Peer, StepNext(p) PROVE DescriptorsByStage'
    BY <1>25 DEF StepNext, ThreadAt, Readable
  <1>26. ASSUME NEW p \in Peer, WriteNext(p) PROVE DescriptorsByStage'
    BY <1>26 DEF WriteNext, ThreadAt, Readable
  <1>27. ASSUME NEW p \in Peer, BadAccess(p) PROVE DescriptorsByStage'
    BY <1>27 DEF BadAccess, Die, Readable
  <1>28. CASE UNCHANGED vars
    BY <1>28 DEF vars
  <1> QED
    BY <1>1, <1>2, <1>3, <1>4, <1>5, <1>6, <1>7, <1>8, <1>9, <1>10, <1>11,
       <1>12, <1>13, <1>14, <1>15, <1>16, <1>17, <1>18, <1>19, <1>20, <1>21,
       <1>22, <1>23, <1>24, <1>25, <1>26, <1>27, <1>28 DEF Next, UserInput,
       CliStep, ClientStep

\* The mutex: every way out of a walk unlocks it, except the one of
\* ListLock, which ends at the prompt.
LEMMA MutexStep == ListInv /\ [Next]_vars => MutexHeld'
  <1> SUFFICES ASSUME ListInv, [Next]_vars PROVE MutexHeld'
    OBVIOUS
  <1> USE PeersAssumption DEF ListInv, MutexHeld, Walking, Leaving, TypeOK,
        args, registers, threads, heap, history, Node
  <1>1. ASSUME NEW p \in Peer, NEW a \in Addr, Connect(p, a) PROVE MutexHeld'
    BY <1>1 DEF Connect, Prompt
  <1>2. CASE ConnectLock
    BY <1>2 DEF ConnectLock, At, Acquire
  <1>3. CASE FindPeer
    BY <1>3 DEF FindPeer, At
  <1>4. CASE FindPeerAgain
    BY <1>4 DEF FindPeerAgain, At, Die, Return
  <1>5. CASE CreateThread
    BY <1>5 DEF CreateThread, At, Return
  <1>6. ASSUME NEW a \in Addr, Disconnect(a) PROVE MutexHeld'
    BY <1>6 DEF Disconnect, Prompt
  <1>7. CASE DisconnectLock
    BY <1>7 DEF DisconnectLock, At, Acquire
  <1>8. CASE DisconnectWalk
    BY <1>8 DEF DisconnectWalk, At, Return
  <1>9. CASE DisconnectUnlink
    BY <1>9 DEF DisconnectUnlink, At
  <1>10. CASE DisconnectClose
    BY <1>10 DEF DisconnectClose, At
  <1>11. CASE DisconnectFree
    BY <1>11 DEF DisconnectFree, At, Return
  <1>12. CASE ListPeers
    BY <1>12 DEF ListPeers, Prompt
  <1>13. CASE ListLock
    BY <1>13 DEF ListLock, At, Acquire
  <1>14. CASE ListWalk
    BY <1>14 DEF ListWalk, At
  <1>15. CASE Quit
    BY <1>15 DEF Quit, Prompt
  <1>16. CASE QuitNext
    BY <1>16 DEF QuitNext, At
  <1>17. CASE QuitFree
    BY <1>17 DEF QuitFree, At
  <1>18. CASE QuitExit
    BY <1>18 DEF QuitExit, At
  <1>19. CASE Eof
    BY <1>19 DEF Eof, Prompt
  <1>20. ASSUME NEW p \in Peer, OpenSocket(p) PROVE MutexHeld'
    BY <1>20 DEF OpenSocket, ThreadAt
  <1>21. ASSUME NEW p \in Peer, SocketFails(p) PROVE MutexHeld'
    BY <1>21 DEF SocketFails, ThreadAt, Die
  <1>22. ASSUME NEW p \in Peer, ConnectFails(p) PROVE MutexHeld'
    BY <1>22 DEF ConnectFails, ThreadAt
  <1>23. ASSUME NEW p \in Peer, ConnectSucceeds(p) PROVE MutexHeld'
    BY <1>23 DEF ConnectSucceeds, ThreadAt
  <1>24. ASSUME NEW p \in Peer, TestNext(p) PROVE MutexHeld'
    BY <1>24 DEF TestNext, ThreadAt, Readable
  <1>25. ASSUME NEW p \in Peer, StepNext(p) PROVE MutexHeld'
    BY <1>25 DEF StepNext, ThreadAt, Readable
  <1>26. ASSUME NEW p \in Peer, WriteNext(p) PROVE MutexHeld'
    BY <1>26 DEF WriteNext, ThreadAt, Readable
  <1>27. ASSUME NEW p \in Peer, BadAccess(p) PROVE MutexHeld'
    BY <1>27 DEF BadAccess, Die, Readable
  <1>28. CASE UNCHANGED vars
    BY <1>28 DEF vars
  <1> QED
    BY <1>1, <1>2, <1>3, <1>4, <1>5, <1>6, <1>7, <1>8, <1>9, <1>10, <1>11,
       <1>12, <1>13, <1>14, <1>15, <1>16, <1>17, <1>18, <1>19, <1>20, <1>21,
       <1>22, <1>23, <1>24, <1>25, <1>26, <1>27, <1>28 DEF Next, UserInput,
       CliStep, ClientStep

\* Descriptors.  OpenSocket takes a descriptor that is not open, hence not
\* held; DisconnectClose closes the one held by cur, and cur leaves the set
\* with it; ConnectFails closes its own.
LEMMA MatchedStep ==
  ASSUME ListInv, NEW f \in Fd, Matched(f), [Next]_vars
  PROVE  Matched(f)'
  <1> USE PeersAssumption DEF ListInv, Matched, Holders, Held,
        DescriptorsByStage, NodesOwned, PointersLinked, Linked,
        SentinelStays, Leaving, RegistersLive, CursorLive, Walking, Live,
        TypeOK, args, registers, threads, heap, history, Node
  <1>1. ASSUME NEW p \in Peer, NEW a \in Addr, Connect(p, a) PROVE Matched(f)'
    BY <1>1 DEF Connect, Prompt
  <1>2. CASE ConnectLock
    BY <1>2 DEF ConnectLock, At, Acquire
  <1>3. CASE FindPeer
    BY <1>3 DEF FindPeer, At
  <1>4. CASE FindPeerAgain
    BY <1>4 DEF FindPeerAgain, At, Die, Return
  <1>5. CASE CreateThread
    BY <1>5 DEF CreateThread, At, Return
  <1>6. ASSUME NEW a \in Addr, Disconnect(a) PROVE Matched(f)'
    BY <1>6 DEF Disconnect, Prompt
  <1>7. CASE DisconnectLock
    BY <1>7 DEF DisconnectLock, At, Acquire
  <1>8. CASE DisconnectWalk
    BY <1>8 DEF DisconnectWalk, At, Return
  <1>9. CASE DisconnectUnlink
    BY <1>9 DEF DisconnectUnlink, At
  <1>10. CASE DisconnectClose
    BY <1>10 DEF DisconnectClose, At
  <1>11. CASE DisconnectFree
    BY <1>11 DEF DisconnectFree, At, Return
  <1>12. CASE ListPeers
    BY <1>12 DEF ListPeers, Prompt
  <1>13. CASE ListLock
    BY <1>13 DEF ListLock, At, Acquire
  <1>14. CASE ListWalk
    BY <1>14 DEF ListWalk, At
  <1>15. CASE Quit
    BY <1>15 DEF Quit, Prompt
  <1>16. CASE QuitNext
    BY <1>16 DEF QuitNext, At
  <1>17. CASE QuitFree
    BY <1>17 DEF QuitFree, At
  <1>18. CASE QuitExit
    BY <1>18 DEF QuitExit, At
  <1>19. CASE Eof
    BY <1>19 DEF Eof, Prompt
  <1>20. ASSUME NEW p \in Peer, OpenSocket(p) PROVE Matched(f)'
    BY <1>20 DEF OpenSocket, ThreadAt
  <1>21. ASSUME NEW p \in Peer, SocketFails(p) PROVE Matched(f)'
    BY <1>21 DEF SocketFails, ThreadAt, Die
  <1>22. ASSUME NEW p \in Peer, ConnectFails(p) PROVE Matched(f)'
    BY <1>22 DEF ConnectFails, ThreadAt
  <1>23. ASSUME NEW p \in Peer, ConnectSucceeds(p) PROVE Matched(f)'
    BY <1>23 DEF ConnectSucceeds, ThreadAt
  <1>24. ASSUME NEW p \in Peer, TestNext(p) PROVE Matched(f)'
    BY <1>24 DEF TestNext, ThreadAt, Readable
  <1>25. ASSUME NEW p \in Peer, StepNext(p) PROVE Matched(f)'
    BY <1>25 DEF StepNext, ThreadAt, Readable
  <1>26. ASSUME NEW p \in Peer, WriteNext(p) PROVE Matched(f)'
    BY <1>26 DEF WriteNext, ThreadAt, Readable
  <1>27. ASSUME NEW p \in Peer, BadAccess(p) PROVE Matched(f)'
    BY <1>27 DEF BadAccess, Die, Readable
  <1>28. CASE UNCHANGED vars
    BY <1>28 DEF vars
  <1> QED
    BY <1>1, <1>2, <1>3, <1>4, <1>5, <1>6, <1>7, <1>8, <1>9, <1>10, <1>11,
       <1>12, <1>13, <1>14, <1>15, <1>16, <1>17, <1>18, <1>19, <1>20, <1>21,
       <1>22, <1>23, <1>24, <1>25, <1>26, <1>27, <1>28 DEF Next, UserInput,
       CliStep, ClientStep

-----------------------------------------------------------------------------
(* Reachability over any successor function.                               *)

LEMMA ListedFrom ==
  /\ Listed = From(next, Head)
  /\ Listed' = From(next', Head)
  BY DEF Listed, From, Closed

LEMMA FromStart ==
  ASSUME NEW f, NEW c \in Node
  PROVE  c \in From(f, c)
  BY DEF From

LEMMA FromLeast ==
  ASSUME NEW f, NEW c, NEW S \in SUBSET Node, c \in S, Closed(f, S)
  PROVE  From(f, c) \subseteq S
  BY DEF From

LEMMA FromClosed ==
  ASSUME NEW f \in [Node -> Node \cup {Null}], NEW c
  PROVE  From(f, c) \in SUBSET Node /\ Closed(f, From(f, c))
<1>1. ASSUME NEW m \in From(f, c), f[m] # Null
      PROVE  f[m] \in From(f, c)
  <2>1. m \in Node /\ f[m] \in Node
    BY <1>1 DEF From
  <2>2. ASSUME NEW S \in SUBSET Node, c \in S, Closed(f, S)
        PROVE  f[m] \in S
    BY <1>1, <2>2 DEF From, Closed
  <2>. QED BY <2>1, <2>2 DEF From
<1>. QED BY <1>1 DEF From, Closed

\* A walk that is not at n yet goes on to it.
LEMMA FromNext ==
  ASSUME NEW f \in [Node -> Node \cup {Null}], NEW c \in Node,
         NEW n \in From(f, c), n # c
  PROVE  f[c] # Null /\ n \in From(f, f[c])
<1>1. f[c] # Null
  <2> SUFFICES ASSUME f[c] = Null PROVE FALSE
    OBVIOUS
  <2>1. {c} \in SUBSET Node /\ Closed(f, {c})
    BY DEF Closed
  <2>. QED BY <2>1, FromLeast
<1>2. f[c] \in Node
  BY <1>1
<1> DEFINE R == From(f, f[c])
<1>3. R \in SUBSET Node /\ Closed(f, R) /\ f[c] \in R
  BY <1>2, FromClosed, FromStart
<1>4. {c} \cup R \in SUBSET Node /\ Closed(f, {c} \cup R)
  BY <1>3 DEF Closed
<1>5. From(f, c) \subseteq {c} \cup R
  BY <1>4, FromLeast
<1>. QED BY <1>1, <1>5

\* An append that overwrites a link takes what followed it off the list, and
\* off every other walk at most that: what is still on the list afterwards
\* was not behind the overwritten link.
LEMMA OverwriteKeepsWalks ==
  ASSUME ListInv, cli \in {"c_find", "c_find_again"},
         NEW q \in Peer, WriteNext(q),
         NEW p \in From(next', Head), p # q,
         p \in From(next, Head) => p \in From(next, cur)
  PROVE  p \in From(next', cur)
<1>f. /\ next \in [Node -> Node \cup {Null}]
      /\ Head \in Node /\ Head \notin Peer /\ Null \notin Node
      /\ temp \in [Peer -> Node \cup {Null}]
      /\ pc[q] = "write" /\ process = "running"
      /\ temp[q] # Null /\ Live(temp[q])
      /\ next' = [next EXCEPT ![temp[q]] = q]
  BY PeersAssumption
     DEF ListInv, TypeOK, Node, WriteNext, ThreadAt, Readable, Live
<1>c. cur \in Node
  BY <1>f, CursorRunning DEF Walking
<1>q. /\ temp[q] \in Node /\ q \in Node /\ q # temp[q]
      /\ next[q] = Null /\ Live(q)
  BY <1>f DEF ListInv, PointersLinked, Linked, Node, NodesOwned
<1>n. /\ next' \in [Node -> Node \cup {Null}]
      /\ next'[temp[q]] = q
      /\ \A n \in Node : n # temp[q] => next'[n] = next[n]
  BY <1>f, <1>q
<1>p. \A m \in Node : next[m] # Head /\ next[m] # q
  BY <1>f, PeersAssumption DEF ListInv, PointersLinked, Linked, Node
<1> DEFINE L == {n \in Node : Live(n)}
<1>l. /\ L \in SUBSET Node /\ Head \in L /\ temp[q] \in L /\ q \in L
      /\ Closed(next, L)
  BY <1>f, <1>q
     DEF ListInv, SentinelStays, Leaving, NoDanglingNext, Closed, Live
<1>o. \A m, n \in L : next[m] # Null /\ next[m] = next[n] => m = n
  BY DEF ListInv, OnePredecessor, Doomed
<1> HIDE DEF L
<1> USE <1>f, <1>c, <1>q, <1>n, <1>p, <1>l, <1>o
<1> DEFINE F == From(next, Head)
           G == From(next', Head)
           S == From(next', cur)
           R == IF next[temp[q]] = Null THEN {} ELSE From(next, next[temp[q]])
<1>1. /\ F \in SUBSET Node /\ Closed(next, F) /\ Head \in F
      /\ G \in SUBSET Node /\ Closed(next', G) /\ Head \in G /\ p \in G
      /\ S \in SUBSET Node /\ Closed(next', S) /\ cur \in S
      /\ R \in SUBSET Node /\ Closed(next, R)
      /\ next[temp[q]] # Null => next[temp[q]] \in R
  <2>1. /\ R \in SUBSET Node /\ Closed(next, R)
        /\ next[temp[q]] # Null => next[temp[q]] \in R
    <3>1. CASE next[temp[q]] = Null
      BY <3>1 DEF Closed
    <3>2. CASE next[temp[q]] # Null
      BY <3>2, FromClosed, FromStart
    <3>. QED BY <3>1, <3>2
  <2>. QED BY <2>1, FromClosed, FromStart
<1> HIDE DEF F, G, S, R
<1>2. p \in F
  <2>1. F \cup {q} \in SUBSET Node /\ Closed(next', F \cup {q})
    BY <1>1 DEF Closed
  <2>. QED BY <1>1, <2>1, FromLeast DEF G
<1>3. p \in From(next, cur)
  BY <1>2 DEF F
<1>4. CASE temp[q] \notin S
  <2>1. Closed(next, S)
    BY <1>1, <1>4 DEF Closed
  <2>. QED BY <1>1, <1>3, <2>1, FromLeast DEF S
<1>5. CASE temp[q] \in S /\ p \notin R
  <2>1. Closed(next, S \cup R)
    <3> SUFFICES ASSUME NEW m \in S \cup R, next[m] # Null
                 PROVE  next[m] \in S \cup R
      BY DEF Closed
    <3>1. CASE m \in R
      BY <1>1, <3>1 DEF Closed
    <3>2. CASE m = temp[q]
      BY <3>2, FromStart DEF R
    <3>3. CASE m \in S /\ m # temp[q]
      BY <1>1, <3>3 DEF Closed
    <3>. QED BY <3>1, <3>2, <3>3
  <2>2. S \cup R \in SUBSET Node /\ cur \in S \cup R
    BY <1>1
  <2>3. p \in S \cup R
    BY <1>3, <2>1, <2>2, FromLeast
  <2>. QED BY <1>5, <2>3 DEF S
<1>6. CASE p \in R
  <2>1. next[temp[q]] # Null /\ R = From(next, next[temp[q]])
    BY <1>6 DEF R
  <2>2. next[temp[q]] \in L
    BY <2>1 DEF Closed
  <2>3. R \subseteq (L \cap R) \ {Head, q}
    <3>1. (L \cap R) \ {Head, q} \in SUBSET Node
      OBVIOUS
    <3>2. next[temp[q]] \in (L \cap R) \ {Head, q}
      BY <1>1, <2>1, <2>2
    <3>3. Closed(next, (L \cap R) \ {Head, q})
      BY <1>1 DEF Closed
    <3>. QED BY <2>1, <3>1, <3>2, <3>3, FromLeast
\* A node behind the overwritten link, other than the first, has its only
\* predecessor there.
  <2>4. ASSUME NEW m \in L, m # temp[q], next[m] \in R
        PROVE  m \in R
    <3> SUFFICES ASSUME m \notin R PROVE FALSE
      OBVIOUS
    <3>1. next[m] # Null /\ next[m] # next[temp[q]]
      <4>1. next[m] \in Node
        BY <1>1, <2>4
      <4>. QED BY <2>4, <4>1, PeersAssumption DEF Node
    <3>2. R \ {next[m]} \in SUBSET Node /\ next[temp[q]] \in R \ {next[m]}
      BY <1>1, <2>1, <3>1
    <3>3. Closed(next, R \ {next[m]})
      BY <1>1, <2>3, <2>4, <3>1 DEF Closed
    <3>4. R \subseteq R \ {next[m]}
      BY <2>1, <3>2, <3>3, FromLeast
    <3>. QED BY <2>4, <3>4
  <2>5. G \subseteq L
    <3>1. Closed(next', L)
      BY DEF Closed
    <3>. QED BY <3>1, FromLeast DEF G
  <2>6. G \ R \in SUBSET Node /\ Head \in G \ R
    <3>1. Head \in G /\ Head \notin R
      BY <1>1, <2>3
    <3>. QED BY <1>1, <3>1
  <2>7. Closed(next', G \ R)
    <3> SUFFICES ASSUME NEW m \in G \ R, next'[m] # Null
                 PROVE  next'[m] \notin R
      BY <1>1 DEF Closed
    <3>1. CASE m = temp[q]
      BY <2>3, <3>1
    <3>2. CASE m # temp[q]
      BY <1>1, <2>4, <2>5, <3>2
    <3>. QED BY <3>1, <3>2
  <2>8. G \subseteq G \ R
    <3>1. From(next', Head) \subseteq G \ R
      BY <2>6, <2>7, FromLeast
    <3>. QED BY <3>1 DEF G
  <2>. QED BY <1>1, <1>6, <2>8
<1>. QED BY <1>4, <1>5, <1>6

\* The peer that the first get_peer found stays before the cursor of the
\* second one unless an append takes it off the list.
LEMMA FoundStep == ListInv /\ [Next]_vars => Found'
<1> SUFFICES ASSUME ListInv, [Next]_vars, cli' = "c_find_again" PROVE Found'
  BY DEF Found
<1>1. /\ next \in [Node -> Node \cup {Null}] /\ addr \in [Node -> Addr \cup {NoAddr}]
      /\ born \in [Node -> Nat] /\ temp \in [Peer -> Node \cup {Null}]
      /\ pc \in [Peer -> ThreadStates]
      /\ Head \in Node /\ Head \notin Peer /\ Null \notin Node
      /\ cur \in Node \cup {Null}
  BY PeersAssumption DEF ListInv, TypeOK, Node
<1>2. CASE cli # "c_find_again"
  <2>1. FindPeer /\ addr[cur] = addr[node]
    BY <1>2 DEF Next, UserInput, CliStep, ClientStep, Connect, ConnectLock,
       FindPeer, FindPeerAgain, CreateThread, Disconnect, DisconnectLock,
       DisconnectWalk, DisconnectUnlink, DisconnectClose, DisconnectFree,
       ListPeers, ListLock, ListWalk, Quit, QuitNext, QuitFree, QuitExit,
       Eof, OpenSocket, SocketFails, ConnectFails, ConnectSucceeds, TestNext,
       StepNext, WriteNext, BadAccess, Die, Return, At, vars, registers
  <2>2. /\ cli = "c_find" /\ process = "running" /\ cur' = Head
        /\ next' = next /\ pc' = pc /\ mem' = mem /\ addr' = addr
        /\ node' = node
    BY <2>1 DEF FindPeer, At, threads, heap, args
  <2>3. cur # Null /\ Live(cur) /\ Linked(cur)
    BY <2>2 DEF ListInv, RegistersLive, CursorLive, Walking, PointersLinked
  <2>4. cur \in Peer /\ pc[cur] = "linked"
    BY <2>1, <2>2, <2>3 DEF ListInv, SentinelStays, Linked
  <2>5. Listed' = From(next, Head)
    BY <2>2, ListedFrom
  <2>. QED BY <1>1, <2>1, <2>2, <2>3, <2>4, <2>5 DEF Found, Live
<1>3. CASE cli = "c_find_again"
  <2>1. PICK p \in Peer :
          /\ pc[p] = "linked" /\ Live(p) /\ addr[p] = addr[node]
          /\ p \in Listed => cur # Null /\ p \in From(next, cur)
    BY <1>3 DEF ListInv, Found
  <2>2. Listed = From(next, Head) /\ Listed' = From(next', Head)
    BY ListedFrom
  <2>3. CASE FindPeerAgain
    <3>1. /\ next' = next /\ pc' = pc /\ mem' = mem /\ addr' = addr
          /\ node' = node /\ addr[cur] # addr[node] /\ cur' = next[cur]
          /\ process = "running"
      BY <1>3, <2>3 DEF FindPeerAgain, Return, threads, args, At
    <3>2. cur \in Node
      BY <1>1, <1>3, <3>1 DEF ListInv, RegistersLive, CursorLive, Walking
    <3>3. p \in Listed => cur' # Null /\ p \in From(next', cur')
      BY <1>1, <2>1, <3>1, <3>2, FromNext
    <3>. QED BY <2>1, <2>2, <3>1, <3>3 DEF Found, Live
  <2>4. ASSUME NEW q \in Peer, WriteNext(q) PROVE Found'
    <3>1. /\ pc[q] = "write" /\ process = "running"
          /\ temp[q] # Null /\ Live(temp[q])
          /\ next' = [next EXCEPT ![temp[q]] = q]
          /\ pc' = [pc EXCEPT ![q] = "linked"]
          /\ mem' = mem /\ addr' = addr /\ node' = node /\ cur' = cur
      BY <2>4 DEF WriteNext, ThreadAt, Readable, Live, registers, args
    <3>2. cur \in Node /\ p # q
      BY <1>1, <1>3, <2>1, <3>1, CursorRunning DEF Walking
    <3>3. p \in From(next', Head) => p \in From(next', cur)
      BY <1>3, <2>1, <2>2, <2>4, <3>2, OverwriteKeepsWalks
    <3>4. cur' # Null
      BY <1>1, <3>1, <3>2
    <3>5. pc'[p] = "linked"
      BY <1>1, <2>1, <3>1, <3>2
    <3>. QED BY <2>1, <2>2, <3>1, <3>3, <3>4, <3>5 DEF Found, Live
  <2>5. CASE ~FindPeerAgain /\ \A q \in Peer : ~WriteNext(q)
    <3>1. (\E q \in Peer : ClientStep(q) /\ ~WriteNext(q)) \/ UNCHANGED vars
      BY <1>3, <2>5 DEF Next, UserInput, CliStep, Connect, ConnectLock,
         FindPeer, CreateThread, Disconnect, DisconnectLock, DisconnectWalk,
         DisconnectUnlink, DisconnectClose, DisconnectFree, ListPeers,
         ListLock, ListWalk, Quit, QuitNext, QuitFree, QuitExit, Eof, Prompt,
         At
    <3>2. /\ next' = next /\ addr' = addr /\ node' = node /\ cur' = cur
          /\ pc'[p] = pc[p] /\ mem'[p] = mem[p]
      <4>1. CASE UNCHANGED vars
        BY <4>1 DEF vars, registers, args, threads, heap
      <4>2. ASSUME NEW q \in Peer, ClientStep(q), ~WriteNext(q)
            PROVE  /\ next' = next /\ addr' = addr /\ node' = node
                   /\ cur' = cur /\ pc'[p] = pc[p] /\ mem'[p] = mem[p]
        <5>1. /\ next' = next /\ addr' = addr /\ node' = node /\ cur' = cur
              /\ \/ pc' = pc
                 \/ \E s \in ThreadStates : pc' = [pc EXCEPT ![q] = s]
              /\ mem' = mem \/ mem' = [mem EXCEPT ![q] = "freed"]
              /\ pc[q] # "linked"
          BY <4>2 DEF ClientStep, OpenSocket, SocketFails, ConnectFails,
             ConnectSucceeds, TestNext, StepNext, BadAccess, Die, ThreadAt,
             heap, registers, args, threads, ThreadStates
        <5>2. p # q /\ p \in Node /\ mem \in [Node -> {"unallocated", "live", "freed"}]
          BY <2>1, <5>1 DEF Node, ListInv, TypeOK
        <5>. QED BY <1>1, <5>1, <5>2
      <4>. QED BY <3>1, <4>1, <4>2
    <3>. QED BY <2>1, <2>2, <3>2 DEF Found, Live
  <2>. QED BY <2>3, <2>4, <2>5
<1>. QED BY <1>2, <1>3

\* Only add_peer's last step and DISCONNECT's unlinking write a next pointer.
LEMMA NextKept ==
  ASSUME [Next]_vars, ~DisconnectUnlink, \A p \in Peer : ~WriteNext(p)
  PROVE  next' = next /\ Listed' = Listed
<1>1. next' = next
  <2>1. ASSUME UserInput PROVE next' = next
    BY <2>1 DEF UserInput, Connect, Disconnect, ListPeers, Quit, Eof, heap
  <2>2. ASSUME CliStep PROVE next' = next
    BY <2>2 DEF CliStep, ConnectLock, FindPeer, FindPeerAgain,
       CreateThread, DisconnectLock, DisconnectWalk, DisconnectClose,
       DisconnectFree, ListLock, ListWalk, QuitNext, QuitFree, QuitExit, heap
  <2>3. ASSUME NEW p \in Peer, ClientStep(p) PROVE next' = next
    BY <2>3 DEF ClientStep, OpenSocket, SocketFails, ConnectFails,
       ConnectSucceeds, TestNext, StepNext, BadAccess, heap
  <2>. QED BY <2>1, <2>2, <2>3 DEF Next, vars, heap
<1>. QED BY <1>1, ListedFrom

\* What is on the list is in memory and was linked by add_peer.
LEMMA ListedLinked ==
  ASSUME ListInv, cli \notin Leaving
  PROVE  /\ Listed \in SUBSET Node /\ Head \in Listed /\ Closed(next, Listed)
         /\ \A n \in Listed : Live(n) /\ Linked(n)
<1> USE DEF ListInv
<1>1. next \in [Node -> Node \cup {Null}] /\ Head \in Node
  BY DEF TypeOK, Node
<1>2. /\ Listed \in SUBSET Node /\ Head \in Listed
      /\ Closed(next, Listed)
  BY <1>1, ListedFrom, FromClosed, FromStart
<1> DEFINE S == {n \in Node : Live(n) /\ Linked(n)}
<1>3. S \in SUBSET Node
  OBVIOUS
<1>4. Head \in S
  BY <1>1 DEF SentinelStays, Linked
<1>5. Closed(next, S)
  BY <1>1 DEF Closed, NoDanglingNext, PointersLinked, Live
<1>6. Listed \subseteq S
  BY <1>3, <1>4, <1>5, ListedFrom, FromLeast
<1>. QED BY <1>2, <1>6

\* What is reached from the successor is reached.
LEMMA FromTail ==
  ASSUME NEW f \in [Node -> Node \cup {Null}], NEW c \in Node, f[c] # Null
  PROVE  From(f, f[c]) \subseteq From(f, c)
<1>1. From(f, c) \in SUBSET Node /\ Closed(f, From(f, c)) /\ c \in From(f, c)
  BY FromClosed, FromStart
<1>2. f[c] \in From(f, c)
  BY <1>1 DEF Closed
<1>. QED BY <1>1, <1>2, FromLeast

\* An append makes nothing reachable but the node it appends.
LEMMA FromWrite ==
  ASSUME NEW f \in [Node -> Node \cup {Null}], NEW c \in Node,
         NEW t \in Node, NEW q \in Node, f[q] = Null
  PROVE  From([f EXCEPT ![t] = q], c) \subseteq From(f, c) \cup {q}
<1> DEFINE g == [f EXCEPT ![t] = q]
           F == From(f, c) \cup {q}
<1>1. F \in SUBSET Node /\ c \in F /\ Closed(f, From(f, c))
  BY FromClosed, FromStart
<1>2. Closed(g, F)
  <2> SUFFICES ASSUME NEW m \in F, g[m] # Null PROVE g[m] \in F
    BY DEF Closed
  <2>1. m \in Node
    BY <1>1
  <2>2. CASE m = t
    BY <2>2
  <2>3. CASE m # t /\ m = q
    BY <2>3
  <2>4. CASE m # t /\ m # q
    BY <1>1, <2>4 DEF Closed
  <2>. QED BY <2>2, <2>3, <2>4
<1>. QED BY <1>1, <1>2, FromLeast

\* A node that is gone stays gone, whatever is appended or unlinked.
LEMMA GoneStep ==
  ASSUME ListInv, [Next]_vars, cli' \notin Leaving,
         NEW p \in Peer, pc[p] = "linked", Gone(p)
  PROVE  Gone(p)'
<1>1. /\ next \in [Node -> Node \cup {Null}] /\ Head \in Node /\ Null \notin Node
      /\ temp \in [Peer -> Node \cup {Null}] /\ succ \in Node \cup {Null}
      /\ prev \in Node \cup {Null} /\ cur \in Node \cup {Null}
  BY PeersAssumption DEF ListInv, TypeOK, Node
<1>2. Listed = From(next, Head) /\ Listed' = From(next', Head)
  BY ListedFrom
<1>3. ASSUME NEW q \in Peer, WriteNext(q) PROVE Gone(p)'
  <2>1. /\ pc[q] = "write" /\ temp[q] \in Node /\ process = "running"
        /\ next' = [next EXCEPT ![temp[q]] = q]
        /\ cli' = cli /\ cur' = cur /\ succ' = succ
    BY <1>1, <1>3 DEF WriteNext, ThreadAt, Readable, registers
  <2>2. q \in Node /\ next[q] = Null /\ p # q
    BY <2>1 DEF ListInv, PointersLinked, Node
  <2>3. ASSUME NEW c \in Node
        PROVE  From(next', c) \subseteq From(next, c) \cup {q}
    BY <1>1, <2>1, <2>2, FromWrite
  <2>4. cli = "d_walk" => cur \in Node
    BY <2>1, CursorRunning DEF Walking
  <2>. QED BY <1>1, <1>2, <2>1, <2>2, <2>3, <2>4 DEF Gone
<1>4. CASE DisconnectUnlink
  <2>1. /\ cli = "d_unlink" /\ cli' = "d_close"
        /\ next' = IF prev = Null THEN next ELSE [next EXCEPT ![prev] = succ]
    BY <1>4 DEF DisconnectUnlink, At
  <2>2. p \notin From(next', Head)
    <3>1. CASE prev = Null
      BY <1>2, <2>1, <3>1 DEF Gone
    <3> DEFINE T == IF succ = Null THEN {} ELSE From(next, succ)
    <3>2. CASE prev # Null
      <4>1. /\ T \in SUBSET Node /\ Closed(next, T)
            /\ succ = Null \/ succ \in T
            /\ p \notin T
        <5>1. CASE succ = Null
          BY <5>1 DEF Closed
        <5>2. CASE succ # Null
          BY <1>1, <2>1, <5>2, FromClosed, FromStart DEF Gone
        <5>. QED BY <5>1, <5>2
      <4>2. Listed \in SUBSET Node /\ Head \in Listed /\ Closed(next, Listed)
        BY <1>1, <1>2, FromClosed, FromStart
      <4>3. Closed(next', Listed \cup T)
        <5> SUFFICES ASSUME NEW m \in Listed \cup T, next'[m] # Null
                     PROVE  next'[m] \in Listed \cup T
          BY DEF Closed
        <5>1. m \in Node
          BY <4>1, <4>2
        <5> HIDE DEF T
        <5>2. CASE m = prev
          BY <1>1, <2>1, <3>2, <4>1, <5>2
        <5>3. CASE m # prev
          BY <1>1, <2>1, <3>2, <4>1, <4>2, <5>1, <5>3 DEF Closed
        <5>. QED BY <5>2, <5>3
      <4>4. From(next', Head) \subseteq Listed \cup T
        BY <4>1, <4>2, <4>3, FromLeast
      <4>. QED BY <4>1, <4>4 DEF Gone
    <3>. QED BY <3>1, <3>2
  <2>. QED BY <1>2, <2>1, <2>2 DEF Gone
<1>5. CASE ~DisconnectUnlink /\ \A q \in Peer : ~WriteNext(q)
  <2>1. next' = next /\ Listed' = Listed
    BY <1>5, NextKept
  <2>2. CASE cli' \notin {"d_walk", "d_unlink"}
    BY <2>1, <2>2 DEF Gone
  <2>3. CASE DisconnectLock
    <3>1. cli' = "d_walk" /\ cur' = Head
      BY <2>3 DEF DisconnectLock
    <3>. QED BY <1>2, <2>1, <3>1 DEF Gone
  <2>4. CASE DisconnectWalk
    <3>1. cli = "d_walk" /\ process = "running"
      BY <2>4 DEF DisconnectWalk, At
    <3>2. cur \in Node
      BY <3>1, CursorRunning DEF Walking
    <3>3. p \notin From(next, cur)
      BY <3>1 DEF Gone
    <3>4. next[cur] # Null => p \notin From(next, next[cur])
      BY <1>1, <3>2, <3>3, FromTail
    <3>5. \/ cli' = "d_unlink" /\ succ' = next[cur]
          \/ cli' = "d_walk" /\ next[cur] # Null /\ cur' = next[cur]
          \/ cli' = "prompt"
      BY <2>4, <3>1 DEF DisconnectWalk, Return
    <3>. QED BY <2>1, <3>4, <3>5 DEF Gone
  <2>5. CASE ~DisconnectLock /\ ~DisconnectWalk
             /\ cli' \in {"d_walk", "d_unlink"}
    <3>1. cli' = cli /\ cur' = cur /\ succ' = succ
      BY <1>5, <2>5 DEF Next, UserInput, CliStep, ClientStep, Connect,
         ConnectLock, FindPeer, FindPeerAgain, CreateThread, Disconnect,
         DisconnectClose, DisconnectFree, ListPeers, ListLock, ListWalk,
         Quit, QuitNext, QuitFree, QuitExit, Eof, OpenSocket, SocketFails,
         ConnectFails, ConnectSucceeds, TestNext, StepNext, BadAccess, Die,
         Return, At, Prompt, vars, registers
    <3>. QED BY <2>1, <3>1 DEF Gone
  <2>. QED BY <2>2, <2>3, <2>4, <2>5
<1>. QED BY <1>3, <1>4, <1>5

\* Only CONNECT gives out addresses, and to no node that has one; only
\* add_peer links, and stamps the node with the next tick of the clock.
LEMMA StampsStep ==
  ASSUME ListInv, [Next]_vars
  PROVE  /\ \A p \in Peer : mem[p] # "unallocated" => addr'[p] = addr[p]
         /\ \/ pc' = pc /\ born' = born /\ clock' = clock
            \/ \E q \in Peer, s \in ThreadStates \ {"none", "linked"} :
                 /\ pc' = [pc EXCEPT ![q] = s]
                 /\ born' = born /\ clock' = clock
            \/ \E q \in Peer : /\ WriteNext(q)
                               /\ pc' = [pc EXCEPT ![q] = "linked"]
                               /\ clock' = clock + 1
                               /\ born' = [born EXCEPT ![q] = clock + 1]
         /\ \/ asked' = asked
            \/ ConnectLock /\ asked' = [asked EXCEPT ![node] = clock]
<1>1. addr \in [Node -> Addr \cup {NoAddr}] /\ Peer \subseteq Node
  BY DEF ListInv, TypeOK, Node
<1>2. CASE UNCHANGED vars
  BY <1>2 DEF vars, heap, threads, history
<1>3. CASE UserInput
  BY <1>1, <1>3 DEF UserInput, Connect, Disconnect, ListPeers, Quit, Eof,
     heap, threads, history
<1>4. CASE CliStep /\ ~CreateThread
  BY <1>4 DEF CliStep, ConnectLock, FindPeer, FindPeerAgain, DisconnectLock,
     DisconnectWalk, DisconnectUnlink, DisconnectClose, DisconnectFree,
     ListLock, ListWalk, QuitNext, QuitFree, QuitExit, heap, threads, history
<1>5. CASE CreateThread
  <2>1. node \in Peer
    BY <1>5 DEF CreateThread, At, ListInv, NodesOwned, TypeOK
  <2>2. pc' = pc \/ pc' = [pc EXCEPT ![node] = "socket"]
    BY <1>5 DEF CreateThread
  <2>3. addr' = addr /\ UNCHANGED history
    BY <1>5 DEF CreateThread
  <2>. QED BY <2>1, <2>2, <2>3 DEF history, ThreadStates
<1>6. ASSUME NEW q \in Peer, ClientStep(q), ~WriteNext(q)
      PROVE  /\ addr' = addr /\ UNCHANGED history
             /\ \/ pc' = pc
                \/ \E s \in ThreadStates \ {"none", "linked"} :
                     pc' = [pc EXCEPT ![q] = s]
  BY <1>6 DEF ClientStep, OpenSocket, SocketFails, ConnectFails,
     ConnectSucceeds, TestNext, StepNext, BadAccess, Die, heap, threads,
     ThreadStates
<1>7. ASSUME NEW q \in Peer, WriteNext(q)
      PROVE  /\ addr' = addr /\ asked' = asked
             /\ pc' = [pc EXCEPT ![q] = "linked"] /\ clock' = clock + 1
             /\ born' = [born EXCEPT ![q] = clock + 1]
  BY <1>7 DEF WriteNext
<1>. QED BY <1>2, <1>3, <1>4, <1>5, <1>6, <1>7 DEF Next, history

\* No step makes a node an older twin: what is appended from now on is
\* younger than every search that has begun.
LEMMA TwinKept ==
  ASSUME ListInv, [Next]_vars, NEW p \in Peer, NEW q \in Peer,
         OlderTwin(p, q)', mem[q] # "unallocated", ~ConnectLock \/ q # node
  PROVE  OlderTwin(p, q)
<1>1. /\ born \in [Node -> Nat] /\ asked \in [Peer -> Nat] /\ clock \in Nat
      /\ pc \in [Peer -> ThreadStates] /\ p \in Node /\ asked[q] <= clock
  BY DEF ListInv, TypeOK, Node, SearchSound
<1>2. asked'[q] = asked[q]
  BY <1>1, StampsStep
<1>3. pc'[p] = "linked" /\ born'[p] <= asked[q] /\ addr'[p] = addr'[q]
  BY <1>2 DEF OlderTwin
<1>4. pc[p] = "linked" /\ born'[p] = born[p]
  <2>1. CASE pc' = pc /\ born' = born
    BY <1>3, <2>1
  <2>2. CASE \E r \in Peer, s \in ThreadStates \ {"none", "linked"} :
               pc' = [pc EXCEPT ![r] = s] /\ born' = born
    BY <1>1, <1>3, <2>2
  <2>3. ASSUME NEW r \in Peer, pc' = [pc EXCEPT ![r] = "linked"],
               born' = [born EXCEPT ![r] = clock + 1]
        PROVE  pc[p] = "linked" /\ born'[p] = born[p]
    <3>1. p # r
      BY <1>1, <1>3, <2>3
    <3>. QED BY <1>1, <1>3, <2>3, <3>1
  <2>. QED BY <2>1, <2>2, <2>3, StampsStep
<1>5. mem[p] # "unallocated"
  BY <1>4 DEF ListInv, NodesOwned
<1>. QED BY <1>2, <1>3, <1>4, <1>5, StampsStep DEF OlderTwin

\* Once QUIT frees the list, that is for good.
LEMMA LeavingStays ==
  ASSUME cli \in Leaving, [Next]_vars
  PROVE  cli' \in Leaving
<1> USE DEF Leaving
<1>1. ASSUME UserInput PROVE FALSE
  BY <1>1 DEF UserInput, Connect, Disconnect, ListPeers, Quit, Eof, Prompt
<1>2. ASSUME CliStep PROVE cli' \in Leaving
  BY <1>2 DEF CliStep, ConnectLock, FindPeer, FindPeerAgain, CreateThread,
     DisconnectLock, DisconnectWalk, DisconnectUnlink, DisconnectClose,
     DisconnectFree, ListLock, ListWalk, QuitNext, QuitFree, QuitExit, At
<1>3. ASSUME NEW p \in Peer, ClientStep(p) PROVE cli' \in Leaving
  BY <1>3 DEF ClientStep, OpenSocket, SocketFails, ConnectFails,
     ConnectSucceeds, TestNext, StepNext, WriteNext, BadAccess, Die
<1>. QED BY <1>1, <1>2, <1>3 DEF Next, vars

\* The search: its result still holds when the new node is appended, for all
\* that was appended before it began.
LEMMA SearchStep == ListInv /\ [Next]_vars => SearchSound'
<1> SUFFICES ASSUME ListInv, [Next]_vars PROVE SearchSound'
  OBVIOUS
<1>1. /\ next \in [Node -> Node \cup {Null}] /\ asked \in [Peer -> Nat]
      /\ clock \in Nat /\ Peer \subseteq Node
      /\ Head \in Node /\ Head \notin Peer /\ Null \notin Node
  BY PeersAssumption DEF ListInv, TypeOK, Node
<1>2. Listed = From(next, Head) /\ Listed' = From(next', Head)
  BY ListedFrom
<1>3. /\ \A q \in Peer : asked[q] <= clock
      /\ cli = "c_find" =>
           \A p \in Listed : OlderTwin(p, node) => p \in From(next, cur)
      /\ cli \notin Leaving =>
           \A q \in Peer : pc[q] # "none" \/ (cli = "c_create" /\ q = node) =>
             \A p \in Peer : OlderTwin(p, q) => Gone(p)
  BY DEF ListInv, SearchSound
<1>4. \A q \in Peer : asked'[q] <= clock'
  <2>1. clock' \in {clock, clock + 1}
    BY StampsStep
  <2>2. asked' = asked \/ asked' = [asked EXCEPT ![node] = clock]
    BY StampsStep
  <2>. QED BY <1>1, <1>3, <2>1, <2>2
<1>5. cli \in {"c_lock", "c_find", "c_find_again", "c_create"} =>
        node \in Peer /\ Live(node) /\ pc[node] = "none"
  BY DEF ListInv, NodesOwned, TypeOK
\* During the search.
<1>6. ASSUME cli' = "c_find", NEW p \in Listed', OlderTwin(p, node)'
      PROVE  p \in From(next', cur')
  <2>1. CASE cli # "c_find"
    <3>1. ConnectLock
      BY <1>6, <2>1 DEF Next, UserInput, CliStep, ClientStep, Connect,
         FindPeer, FindPeerAgain, CreateThread, Disconnect, DisconnectLock,
         DisconnectWalk, DisconnectUnlink, DisconnectClose, DisconnectFree,
         ListPeers, ListLock, ListWalk, Quit, QuitNext, QuitFree, QuitExit,
         Eof, OpenSocket, SocketFails, ConnectFails, ConnectSucceeds,
         TestNext, StepNext, WriteNext, BadAccess, Die, Return, At, vars,
         registers
    <3>2. cur' = Head
      BY <3>1 DEF ConnectLock
    <3>. QED BY <1>2, <1>6, <3>2
  <2>2. CASE cli = "c_find"
    <3>1. \/ FindPeer
          \/ \E q \in Peer : WriteNext(q)
          \/ (\E q \in Peer : ClientStep(q) /\ ~WriteNext(q)) \/ UNCHANGED vars
      BY <1>6, <2>2 DEF Next, UserInput, CliStep, Connect, ConnectLock,
         FindPeerAgain, CreateThread, Disconnect, DisconnectLock,
         DisconnectWalk, DisconnectUnlink, DisconnectClose, DisconnectFree,
         ListPeers, ListLock, ListWalk, Quit, QuitNext, QuitFree, QuitExit,
         Eof, Prompt, At
    <3>2. node' = node /\ ~ConnectLock
      <4>1. CASE FindPeer
        BY <2>2, <4>1 DEF FindPeer, args, ConnectLock, At
      <4>2. ASSUME NEW q \in Peer, ClientStep(q) PROVE node' = node
        BY <4>2 DEF ClientStep, OpenSocket, SocketFails, ConnectFails,
           ConnectSucceeds, TestNext, StepNext, WriteNext, BadAccess, Die,
           registers, args
      <4>3. CASE UNCHANGED vars
        BY <2>2, <4>3 DEF vars, registers, args, ConnectLock, At
      <4>4. ~ConnectLock
        BY <2>2 DEF ConnectLock, At
      <4>. QED BY <3>1, <4>1, <4>2, <4>3, <4>4 DEF ClientStep
    <3>3. p \in Peer /\ OlderTwin(p, node)'
      BY <1>6 DEF OlderTwin
    <3>4. OlderTwin(p, node)
      <4>1. OlderTwin(p, node)' <=> (/\ p \in Peer /\ pc'[p] = "linked"
                                     /\ addr'[p] = addr'[node]
                                     /\ born'[p] <= asked'[node])
        BY <3>2 DEF OlderTwin
      <4>. QED BY <1>5, <2>2, <3>2, <3>3, TwinKept DEF Live
    <3>5. p \in Listed => p \in From(next, cur)
      BY <1>3, <2>2, <3>4
    <3>6. CASE FindPeer
      <4>1. /\ process = "running" /\ next' = next
            /\ addr[cur] # addr[node] /\ cur' = next[cur]
        BY <1>6, <3>6 DEF FindPeer, At, heap
      <4>2. cur \in Node
        BY <2>2, <4>1, CursorRunning DEF Walking
      <4>3. p \in From(next, cur) /\ p # cur
        BY <1>2, <1>6, <3>4, <3>5, <4>1 DEF OlderTwin
      <4>. QED BY <1>1, <4>1, <4>2, <4>3, FromNext
    <3>7. ASSUME NEW q \in Peer, WriteNext(q) PROVE p \in From(next', cur')
      <4>1. p # q /\ cur' = cur
        BY <3>4, <3>7 DEF OlderTwin, WriteNext, ThreadAt, registers
      <4>. QED BY <1>2, <1>6, <2>2, <3>5, <3>7, <4>1, OverwriteKeepsWalks
    <3>8. CASE (\E q \in Peer : ClientStep(q) /\ ~WriteNext(q))
               \/ UNCHANGED vars
      <4>1. next' = next /\ cur' = cur
        BY <3>8 DEF ClientStep, OpenSocket, SocketFails, ConnectFails,
           ConnectSucceeds, TestNext, StepNext, BadAccess, Die, heap,
           registers, vars
      <4>. QED BY <1>2, <1>6, <3>5, <4>1
    <3>. QED BY <3>1, <3>6, <3>7, <3>8
  <2>. QED BY <2>1, <2>2
\* After the search.
<1>7. ASSUME cli' \notin Leaving, NEW q \in Peer,
             pc'[q] # "none" \/ (cli' = "c_create" /\ q = node'),
             NEW p \in Peer, OlderTwin(p, q)'
      PROVE  Gone(p)'
  <2>1. cli \notin Leaving
    BY <1>7, LeavingStays
  <2>2. CASE pc[q] # "none" \/ (cli = "c_create" /\ q = node)
    <3>1. mem[q] # "unallocated"
      BY <1>5, <2>2 DEF ListInv, NodesOwned, Live
    <3>2. ~ConnectLock \/ q # node
      BY <1>5, <2>2 DEF ConnectLock, At
    <3>3. OlderTwin(p, q)
      BY <1>7, <3>1, <3>2, TwinKept
    <3>4. Gone(p) /\ pc[p] = "linked"
      BY <1>3, <2>1, <2>2, <3>3 DEF OlderTwin
    <3>. QED BY <1>7, <3>4, GoneStep
  <2>3. CASE pc[q] = "none" /\ ~(cli = "c_create" /\ q = node)
    <3>1. cli' = "c_create" /\ node' = q /\ (FindPeer \/ FindPeerAgain)
      <4>1. ~UserInput /\ ~UNCHANGED vars
        BY <1>7, <2>3 DEF UserInput, Connect, Disconnect, ListPeers, Quit,
           Eof, threads, vars, registers, args
      <4>2. ASSUME NEW r \in Peer, ClientStep(r) PROVE FALSE
        <5>1. /\ cli' = cli /\ node' = node
              /\ pc[r] # "none" /\ (pc' = pc \/ \E s : pc' = [pc EXCEPT ![r] = s])
          BY <4>2 DEF ClientStep, OpenSocket, SocketFails, ConnectFails,
             ConnectSucceeds, TestNext, StepNext, WriteNext, BadAccess, Die,
             ThreadAt, registers, args, threads
        <5>. QED BY <1>7, <2>3, <5>1 DEF ListInv, TypeOK
      <4>3. CliStep
        BY <4>1, <4>2 DEF Next
      <4>. QED BY <1>7, <2>3, <4>3 DEF CliStep, ConnectLock, FindPeer,
               FindPeerAgain, CreateThread, DisconnectLock, DisconnectWalk,
               DisconnectUnlink, DisconnectClose, DisconnectFree, ListLock,
               ListWalk, QuitNext, QuitFree, QuitExit, Return, At, threads,
               args, registers, ListInv, TypeOK
    <3>2. /\ process = "running" /\ node = q /\ ~ConnectLock
          /\ next' = next /\ cli \in {"c_find", "c_find_again"}
      BY <3>1 DEF FindPeer, FindPeerAgain, At, args, heap, Return, ConnectLock
    <3>3. cur \in Node /\ Linked(cur)
      BY <1>1, <3>2, CursorRunning DEF Walking, ListInv, PointersLinked
    <3>4. OlderTwin(p, q)
      BY <1>5, <1>7, <3>2, TwinKept DEF Live
    <3>5. ~FindPeerAgain
      <4> SUFFICES ASSUME FindPeerAgain PROVE FALSE
        OBVIOUS
      <4>2. cli = "c_find_again"
        BY DEF FindPeerAgain, At
      <4>1. addr[cur] = addr[node] /\ ~(fd[cur] > 0)
        BY <3>1, <4>2 DEF FindPeerAgain, Return
      <4>3. cur \in Peer /\ pc[cur] = "linked"
        BY <3>3, <4>1, <4>2 DEF Linked, ListInv, SentinelStays
      <4>4. fd[cur] # 0 /\ fd[cur] \in Fd \cup {0}
        BY <1>1, <4>3 DEF ListInv, DescriptorsByStage, TypeOK
      <4>5. fd[cur] \in Nat \ {0}
        BY <4>4, PeersAssumption
      <4>. QED BY <4>1, <4>5
    <3>6. addr[cur] # addr[node] /\ next[cur] = Null /\ cli = "c_find"
      BY <3>1, <3>5 DEF FindPeer, At
    <3>7. p \notin Listed
      <4>1. p # cur
        BY <3>2, <3>4, <3>6 DEF OlderTwin
      <4>2. p \notin From(next, cur)
        BY <1>1, <3>3, <3>6, <4>1, FromNext
      <4>. QED BY <1>3, <3>2, <3>4, <3>6, <4>2
    <3>. QED BY <1>2, <3>1, <3>2, <3>7 DEF Gone
  <2>. QED BY <2>2, <2>3
<1>. QED BY <1>4, <1>6, <1>7 DEF SearchSound

-----------------------------------------------------------------------------
\* Sockets of the threads.  A new one was not open; the one that DISCONNECT
\* closes belongs to a node that is linked, so to no thread.
LEMMA SocketsStep == Inv /\ [Next]_vars => SocketsOwn'
  <1> SUFFICES ASSUME Inv, [Next]_vars PROVE SocketsOwn'
    OBVIOUS
  <1>1. /\ sock \in [Peer -> Fd \cup {0}] /\ SocketsOwn
        /\ fd \in [Node -> Fd \cup {0}]
    BY DEF Inv, ListInv, TypeOK
  <1>2. CASE UNCHANGED <<sock, open>>
    BY <1>1, <1>2 DEF SocketsOwn
  <1>3. ASSUME NEW p \in Peer, OpenSocket(p) PROVE SocketsOwn'
    <2>1. PICK f \in Fd \ open : /\ open' = open \cup {f}
                                 /\ sock' = [sock EXCEPT ![p] = f]
      BY <1>3 DEF OpenSocket
    <2>2. sock[p] = 0
      BY <1>3 DEF OpenSocket, ThreadAt, Inv, ListInv, DescriptorsByStage
    <2> QED
      BY <1>1, <2>1, <2>2 DEF SocketsOwn
  <1>4. ASSUME NEW p \in Peer, ConnectFails(p) \/ ConnectSucceeds(p)
        PROVE  SocketsOwn'
    <2>1. /\ sock' = [sock EXCEPT ![p] = 0]
          /\ open' = open \/ open' = open \ {sock[p]}
      BY <1>4 DEF ConnectFails, ConnectSucceeds
    <2> QED
      BY <1>1, <2>1 DEF SocketsOwn
  <1>5. CASE DisconnectClose
    <2>1. /\ cli = "d_close" /\ sock' = sock /\ open' = open \ {fd[cur]}
      BY <1>5 DEF DisconnectClose, At, threads
    <2>2. /\ cur \in Peer /\ Live(cur) /\ sock[cur] = 0 /\ fd[cur] # 0
      BY <1>5, <2>1 DEF Inv, ListInv, RegistersLive, CursorLive, Walking,
         PointersLinked, Linked, SentinelStays, DescriptorsByStage, Live
    <2>3. ASSUME NEW q \in Peer, sock[q] # 0 PROVE sock[q] # fd[cur]
      <3>1. Live(q) /\ q # cur
        BY <1>1, <2>2, <2>3 DEF Inv, ListInv, DescriptorsByStage, NodesOwned, TypeOK,
           ThreadStates
      <3>2. Held(q) = sock[q] /\ Held(cur) = fd[cur]
        BY <2>2, <2>3 DEF Held
      <3> QED
        BY <1>1, <2>1, <2>2, <2>3, <3>1, <3>2
           DEF Inv, Matched, Holders, Leaving
    <2> QED
      BY <1>1, <2>1, <2>3 DEF SocketsOwn
  <1>6. \/ \E p \in Peer : OpenSocket(p)
        \/ \E p \in Peer : ConnectFails(p) \/ ConnectSucceeds(p)
        \/ DisconnectClose \/ UNCHANGED <<sock, open>>
    BY DEF Next, UserInput, CliStep, ClientStep, Connect, ConnectLock,
       FindPeer, FindPeerAgain, CreateThread, Disconnect, DisconnectLock,
       DisconnectWalk, DisconnectUnlink, DisconnectFree, ListPeers, ListLock,
       ListWalk, Quit, QuitNext, QuitFree, QuitExit, Eof, SocketFails,
       TestNext, StepNext, WriteNext, BadAccess, Die, vars, threads
  <1> QED
    BY <1>2, <1>3, <1>4, <1>5, <1>6

\* The invariant holds before the first command: only the sentinel is in
\* memory, and nothing points anywhere.
LEMMA InvInit == Init => Inv
  <1> SUFFICES ASSUME Init PROVE Inv
    OBVIOUS
  <1> USE PeersAssumption DEF Init, Node
  <1>1. TypeOK
    BY DEF TypeOK, ProcessStates, CliStates, ThreadStates
  <1>2. PointersLinked /\ NodesOwned /\ AgesOrdered
    BY DEF PointersLinked, NodesOwned, AgesOrdered, NextIsYounger, Linked,
           Live
  <1>3. OnePredecessor /\ NoDanglingNext
    BY DEF OnePredecessor, NoDanglingNext
  <1>4. RegistersLive /\ SentinelStays
    BY DEF RegistersLive, CursorLive, Walking, Leaving, SentinelStays, Live
  <1>5. DescriptorsByStage /\ MutexHeld /\ Found
    BY DEF DescriptorsByStage, MutexHeld, Walking, Leaving, Found
  <1>7. SearchSound
    BY DEF SearchSound, Leaving
  <1>6. (\A f \in Fd : Matched(f)) /\ SocketsOwn
    BY DEF Matched, Holders, Held, SocketsOwn
  <1> QED
    BY <1>1, <1>2, <1>3, <1>4, <1>5, <1>6, <1>7 DEF Inv, ListInv

\* The part of Inv that does not speak of descriptors is inductive on its
\* own, whoever closes what.
LEMMA ListInvStep == ListInv /\ [Next]_vars => ListInv'
  BY TypeStep, PointersStep, OwnedStep, AgesStep, PredecessorStep,
     DanglingStep, RegistersStep, SentinelStep, StageStep, MutexStep,
     FoundStep, SearchStep
     DEF ListInv

\* Inv is inductive.
LEMMA InvStep == Inv /\ [Next]_vars => Inv'
  BY ListInvStep, MatchedStep, SocketsStep DEF Inv

\* In every reachable state, with any interleaving of the CLI and the client
\* threads, all conjuncts of Inv hold.
THEOREM InvAlways == Spec => []Inv
  BY InvInit, InvStep, PTL DEF Spec

\* Every variable keeps its type: in particular the walks of the CLI never
\* take the successor of NULL.
THEOREM TypeCorrect == Spec => []TypeOK
  <1>1. Inv => TypeOK
    BY DEF Inv, ListInv
  <1> QED
    BY <1>1, InvAlways, PTL

\* The list in memory never points to freed memory, although add_peer holds
\* no lock that excludes DISCONNECT and free_peers.
THEOREM ListNeverDangles == Spec => []NoDanglingNext
  <1>1. Inv => NoDanglingNext
    BY DEF Inv, ListInv
  <1> QED
    BY <1>1, InvAlways, PTL

\* The list never has a cycle, so get_peer, add_peer, print_all_peers and
\* free_peers always reach its end.
THEOREM ListNeverCycles == Spec => []NextIsYounger
  <1>1. Inv => NextIsYounger
    BY DEF Inv, ListInv, AgesOrdered
  <1> QED
    BY <1>1, InvAlways, PTL

\* The CLI never touches freed memory, so only client threads can; and it
\* dereferences NULL only after a lost append has hidden from the second
\* get_peer what the first one found.
THEOREM CliNeverTouchesFreed == Spec => []CliCursorLive
  <1>1. ASSUME Inv PROVE CliCursorLive
    <2>1. CASE cur = Null /\ process = "null_deref" /\ cli = "c_find_again"
      BY <1>1, <2>1 DEF Inv, ListInv, Found, AppendLost, Live, CliCursorLive
    <2>. QED BY <1>1, <2>1 DEF Inv, ListInv, RegistersLive, CursorLive, Live,
             CliCursorLive
  <1> QED
    BY <1>1, InvAlways, PTL

\* Two entries of one address need two CONNECTs that overlapped, whatever
\* was lost or unlinked before, between or after.
THEOREM DuplicatesNeedOverlap == Spec => []DuplicatesOverlap
  <1>1. ASSUME Inv PROVE DuplicatesOverlap
    <2> SUFFICES ASSUME cli \notin Leaving, NEW p \in Listed \ {Head},
                        NEW q \in Listed \ {Head}, p # q,
                        addr[p] = addr[q], ~(asked[p] < born[q])
                 PROVE  FALSE
      BY DEF DuplicatesOverlap
    <2>1. /\ p \in Peer /\ pc[p] = "linked"
          /\ q \in Peer /\ pc[q] = "linked"
      BY <1>1, ListedLinked DEF Inv, Linked
    <2>2. born[q] <= asked[p]
      BY <1>1, <2>1 DEF Inv, ListInv, TypeOK, Node
    <2>3. Gone(q)
      BY <1>1, <2>1, <2>2 DEF Inv, ListInv, SearchSound, OlderTwin
    <2>. QED BY <2>3 DEF Gone
  <1> QED
    BY <1>1, InvAlways, PTL

\* No descriptor leaks, is closed twice or is shared while commands run,
\* even when an append is lost.
THEOREM DescriptorsNeverLeak == Spec => []DescriptorsMatchPeers
  <1>1. ASSUME Inv PROVE DescriptorsMatchPeers
    <2>1. /\ open \subseteq Fd /\ fd \in [Node -> Fd \cup {0}]
          /\ sock \in [Peer -> Fd \cup {0}] /\ 0 \notin Fd
          /\ \A p \in Peer : p \in Node /\ Held(p) \in Fd \cup {0}
      BY <1>1, PeersAssumption DEF Inv, ListInv, TypeOK, Node, Held
    <2>. QED BY <1>1, <2>1 DEF Inv, Matched, Holders, Live,
             DescriptorsMatchPeers
  <1> QED
    BY <1>1, InvAlways, PTL

\* The only way a command leaves peers_mutex locked behind it is PEERS on an
\* empty list.
THEOREM LockLeaksOnce == Spec => OnlyAnEmptyListLeaks
  <1>1. ASSUME Inv, [Next]_vars,
               lock', cli # "prompt", cli' = "prompt"
        PROVE  cli = "p_lock" /\ cur = Null
    <2> USE <1>1 DEF Inv, ListInv, MutexHeld, Walking, Leaving, registers, args
    <2>1. ASSUME UserInput PROVE FALSE
      BY <2>1 DEF UserInput, Connect, Disconnect, ListPeers, Quit, Eof, Prompt
    <2>2. ASSUME NEW p \in Peer, ClientStep(p) PROVE FALSE
      BY <2>2 DEF ClientStep, OpenSocket, SocketFails, ConnectFails,
                  ConnectSucceeds, TestNext, StepNext, WriteNext, BadAccess,
                  Die
    <2>3. CASE ConnectLock \/ FindPeer \/ FindPeerAgain \/ CreateThread
      BY <2>3 DEF ConnectLock, FindPeer, FindPeerAgain, CreateThread, At,
                  Acquire, Return, Die
    <2>4. CASE DisconnectLock \/ DisconnectWalk \/ DisconnectUnlink
      BY <2>4 DEF DisconnectLock, DisconnectWalk, DisconnectUnlink, At,
                  Acquire, Return
    <2>5. CASE DisconnectClose \/ DisconnectFree
      BY <2>5 DEF DisconnectClose, DisconnectFree, At, Return
    <2>6. CASE ListLock \/ ListWalk
      BY <2>6 DEF ListLock, ListWalk, At, Acquire
    <2>7. CASE QuitNext \/ QuitFree \/ QuitExit
      BY <2>7 DEF QuitNext, QuitFree, QuitExit, At
    <2>8. CASE UNCHANGED vars
      BY <2>8 DEF vars
    <2> QED
      BY <2>1, <2>2, <2>3, <2>4, <2>5, <2>6, <2>7, <2>8 DEF Next, CliStep
  <1>2. Inv /\ [Next]_vars =>
          [lock' /\ cli # "prompt" /\ cli' = "prompt"
             => cli = "p_lock" /\ cur = Null]_vars
    BY <1>1
  <1> QED
    BY <1>2, InvAlways, PTL DEF Spec, OnlyAnEmptyListLeaks
=============================================================================
