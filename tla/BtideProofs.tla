----------------------------- MODULE BtideProofs -----------------------------
(***************************************************************************)
(* Proofs about the whole process (Btide), for any number of peers,        *)
(* descriptors, configuration lines and any backlog: what the server       *)
(* thread binds, when the process can crash on its configuration, how      *)
(* many remote peers it can ever hold, and that server and peers share the *)
(* descriptor table.  The last one rests on the invariant of the peer      *)
(* list, taken over from PeersProofs through the refinement mapping of     *)
(* Threads.                                                                *)
(***************************************************************************)
EXTENDS Btide, TLAPS

\* The peer list inside the process, with its proofs.
P == INSTANCE PeersProofs WITH
  open <- open \ Listening,
  process <- IF process \in ProcessStates THEN process ELSE "running"

-----------------------------------------------------------------------------
(* The inductive invariant.                                                *)

\* The port in config is the last one given, a configuration is complete
\* when main goes on, and the server thread has read it.
PortRead ==
  /\ given # Wild => port = given % PORTS
  /\ "port" \in keys => given # Wild
  /\ main # "parse" => keys = Keys
  /\ server # "none" => main = "run"
  /\ server \notin {"none", "start"} => argument = port

\* While the process runs, only QUIT has freed the config.
FreedAtTheEnd == config = "freed" /\ process = "running" => cli = "q_exit"

\* Every remote peer that ever connected is still in the kernel's queue,
\* unless the listening socket is gone.
NobodyAccepts ==
  /\ arrived \in Nat /\ arrived <= BACKLOG + 1
  /\ server \in {"epoll", "close", "wait"} => arrived = queue
  /\ server \notin {"epoll", "close", "wait", "close again", "deaf"} =>
       arrived = 0 /\ queue = 0

\* The listening socket is open, and the peer list is as sound as it is
\* without a server thread: all of it until the second close of that socket,
\* and but for its number afterwards.
Shared ==
  /\ P!ListInv
  /\ Listening \subseteq open
  /\ \A f \in Fd \ Stray : P!Matched(f)
  /\ server # "deaf" => P!SocketsOwn

BtideInv ==
  /\ BtideTypeOK
  /\ PortRead
  /\ FreedAtTheEnd
  /\ OnlyAnEarlyQuitCrashes
  /\ NobodyAccepts
  /\ Shared

-----------------------------------------------------------------------------
(* The steps of main and the server thread, and those of the peer list.    *)

PeersStep == UserInput \/ CliStep \/ \E p \in Peer : ClientStep(p)

\* A step of the CLI or of a client thread leaves all else alone, and if it
\* ends the process, in a way that Peers knows.
LEMMA PeersAlone ==
  ASSUME BtideNext
  PROVE  \/ /\ PeersStep /\ main = "run"
            /\ UNCHANGED <<mainVars, serverVars>>
            /\ process = "running" /\ process' \in ProcessStates
         \/ /\ \/ \E key \in Keys, number \in Numbers : ParseLine(key, number)
               \/ ParseFails \/ ParseEnd \/ CreateServer \/ FreeConfig
               \/ Server \/ RemoteConnects
            /\ process = "running"
<1>1. ASSUME PeersStep
      PROVE  process = "running" /\ process' \in ProcessStates
  BY <1>1 DEF PeersStep, UserInput, CliStep, ClientStep, Connect,
     ConnectLock, FindPeer, FindPeerAgain, CreateThread, Disconnect,
     DisconnectLock, DisconnectWalk, DisconnectUnlink, DisconnectClose,
     DisconnectFree, ListPeers, ListLock, ListWalk, Quit, QuitNext, QuitFree,
     QuitExit, Eof, OpenSocket, SocketFails, ConnectFails, ConnectSucceeds,
     TestNext, StepNext, WriteNext, BadAccess, Prompt, At, ThreadAt, Die,
     ProcessStates
<1>2. ASSUME \/ \E key \in Keys, number \in Numbers : ParseLine(key, number)
             \/ ParseFails \/ ParseEnd \/ CreateServer \/ FreeConfig
             \/ Server \/ RemoteConnects
      PROVE  process = "running"
  BY <1>2 DEF ParseLine, ParseFails, ParseEnd, CreateServer, FreeConfig,
     Server, RemoteConnects, Parsing, At, ServerAt, ReadPort, ServerSocket,
     Bind, Listen, ServerFails, Watch, CloseListener, CloseListenerAgain,
     EpollWait
<1>. QED BY <1>1, <1>2 DEF BtideNext, Together, Cli, Clients, PeersStep

-----------------------------------------------------------------------------
(* The invariant survives every step: one lemma per conjunct.              *)

\* The bounded counters: the lines parsed and the kernel's queue.
LEMMA CountersStep ==
  ASSUME BtideTypeOK, [BtideNext]_allVars
  PROVE  lines' \in 0 .. MaxLines /\ queue' \in 0 .. BACKLOG + 1
<1> USE BtideAssumption
<1>1. lines \in 0 .. MaxLines /\ queue \in 0 .. BACKLOG + 1
  BY DEF BtideTypeOK
<1>2. \/ lines' = lines \/ lines' = 0 \/ (lines < MaxLines /\ lines' = lines + 1)
  BY PeersAlone DEF mainVars, ParseLine, ParseFails, ParseEnd, CreateServer,
     FreeConfig, Server, ReadPort, ServerSocket, Bind, Listen, ServerFails,
     Watch, CloseListener, CloseListenerAgain, EpollWait, RemoteConnects,
     allVars
<1>3. \/ queue' = queue \/ queue' = 0 \/ (queue <= BACKLOG /\ queue' = queue + 1)
  BY PeersAlone DEF serverVars, ParseLine, ParseFails, ParseEnd,
     CreateServer, FreeConfig, Server, ReadPort, ServerSocket, Bind, Listen,
     ServerFails, Watch, CloseListener, CloseListenerAgain, EpollWait,
     RemoteConnects, allVars
<1>4. lines' \in 0 .. MaxLines
  BY <1>1, <1>2
<1>5. queue' \in 0 .. BACKLOG + 1
  BY <1>1, <1>3
<1>. QED BY <1>4, <1>5

\* ParseLine is the only step that writes the port, and it cuts it to 16 bits.
LEMMA PortsStep ==
  ASSUME BtideTypeOK, [BtideNext]_allVars
  PROVE  /\ port' \in {Wild} \cup 0 .. PORTS - 1
         /\ argument' \in {Wild} \cup 0 .. PORTS - 1
<1>1. /\ port \in {Wild} \cup 0 .. PORTS - 1
      /\ argument \in {Wild} \cup 0 .. PORTS - 1
  BY DEF BtideTypeOK
<1>2. ASSUME NEW n \in Numbers PROVE n % PORTS \in 0 .. PORTS - 1
  BY BtideAssumption
<1>3. port' = port \/ \E n \in Numbers : port' = n % PORTS
  BY PeersAlone DEF mainVars, ParseLine, ParseFails, ParseEnd, CreateServer,
     FreeConfig, Server, ReadPort, ServerSocket, Bind, Listen, ServerFails,
     Watch, CloseListener, CloseListenerAgain, EpollWait, RemoteConnects,
     allVars
<1>4. argument' = argument \/ argument' = port
  BY PeersAlone DEF serverVars, ParseLine, ParseFails, ParseEnd,
     CreateServer, FreeConfig, Server, ReadPort, ServerSocket, Bind, Listen,
     ServerFails, Watch, CloseListener, CloseListenerAgain, EpollWait,
     RemoteConnects, allVars
<1>. QED BY <1>1, <1>2, <1>3, <1>4

LEMMA BtideTypeStep ==
  ASSUME BtideTypeOK, [BtideNext]_allVars
  PROVE  BtideTypeOK'
<1>1. /\ lines' \in 0 .. MaxLines /\ queue' \in 0 .. BACKLOG + 1
      /\ port' \in {Wild} \cup 0 .. PORTS - 1
      /\ argument' \in {Wild} \cup 0 .. PORTS - 1
  BY CountersStep, PortsStep
<1>2. /\ main' \in {"parse", "create", "run"} /\ keys' \subseteq Keys
      /\ config' \in {"live", "freed"}
      /\ server' \in {"none", "start", "socket", "bind", "listen", "epoll",
                      "close", "close again", "deaf", "wait"}
      /\ listener' \in Fd \cup {0} /\ event' \in BOOLEAN
  BY PeersAlone DEF BtideTypeOK, mainVars, serverVars, ParseLine, ParseFails,
     ParseEnd, CreateServer, FreeConfig, Server, ReadPort, ServerSocket, Bind,
     Listen, ServerFails, Watch, CloseListener, CloseListenerAgain, EpollWait,
     RemoteConnects, allVars
<1>3. process' \in ProcessStates \cup {"exit 2", "exit failure",
                                       "config_after_free"}
  BY PeersAlone DEF BtideTypeOK, ProcessStates, ParseLine, ParseFails,
     ParseEnd, CreateServer, FreeConfig, Server, ReadPort, ServerSocket, Bind,
     Listen, ServerFails, Watch, CloseListener, CloseListenerAgain, EpollWait,
     RemoteConnects, End, allVars, vars
<1>. QED BY <1>1, <1>2, <1>3 DEF BtideTypeOK

\* ReadPort is the only step that reads the config, in a process whose
\* configuration is complete.
LEMMA PortReadStep ==
  ASSUME BtideTypeOK, PortRead, [BtideNext]_allVars
  PROVE  PortRead'
<1> USE BtideAssumption DEF PortRead, mainVars, serverVars
<1>1. CASE PeersStep /\ UNCHANGED <<mainVars, serverVars>>
  BY <1>1
<1>2. ASSUME NEW key \in Keys, NEW number \in Numbers, ParseLine(key, number)
      PROVE  PortRead'
  <2>1. number # Wild
    OBVIOUS
  <2>. QED BY <1>2, <2>1 DEF ParseLine, Parsing
<1>3. CASE ParseFails \/ ParseEnd \/ CreateServer \/ FreeConfig
  BY <1>3 DEF ParseFails, ParseEnd, CreateServer, FreeConfig, Parsing
<1>4. CASE Server \/ RemoteConnects
  BY <1>4 DEF Server, RemoteConnects, ReadPort, ServerSocket, Bind, Listen,
     ServerFails, Watch, CloseListener, CloseListenerAgain, EpollWait,
     ServerAt
<1>5. CASE UNCHANGED allVars
  BY <1>5 DEF allVars
<1>. QED BY <1>1, <1>2, <1>3, <1>4, <1>5, PeersAlone

\* Once the CLI has come to the end of QUIT it can only return from main.
LEMMA FreedStep ==
  ASSUME BtideTypeOK, FreedAtTheEnd, OnlyAnEarlyQuitCrashes,
         [BtideNext]_allVars
  PROVE  FreedAtTheEnd' /\ OnlyAnEarlyQuitCrashes'
<1> USE DEF FreedAtTheEnd, OnlyAnEarlyQuitCrashes, mainVars, serverVars
<1>1. CASE PeersStep /\ UNCHANGED <<mainVars, serverVars>>
           /\ process = "running" /\ process' \in ProcessStates
  <2>1. process' # "config_after_free"
    BY <1>1 DEF ProcessStates
  <2>2. cli = "q_exit" => cli' = "q_exit" \/ process' # "running"
    BY <1>1 DEF PeersStep, UserInput, CliStep, ClientStep, Connect,
       ConnectLock, FindPeer, FindPeerAgain, CreateThread, Disconnect,
       DisconnectLock, DisconnectWalk, DisconnectUnlink, DisconnectClose,
       DisconnectFree, ListPeers, ListLock, ListWalk, Quit, QuitNext,
       QuitFree, QuitExit, Eof, OpenSocket, SocketFails, ConnectFails,
       ConnectSucceeds, TestNext, StepNext, WriteNext, BadAccess, Prompt, At,
       Die
  <2>. QED BY <1>1, <2>1, <2>2
<1>2. CASE \/ \E key \in Keys, number \in Numbers : ParseLine(key, number)
           \/ ParseFails \/ ParseEnd \/ CreateServer \/ FreeConfig
  BY <1>2 DEF ParseLine, ParseFails, ParseEnd, CreateServer, FreeConfig,
     Parsing, At, End, vars
<1>3. CASE ReadPort
  <2>1. config = "live" \/ (config = "freed" /\ cli = "q_exit")
    BY <1>3 DEF ReadPort, ServerAt, BtideTypeOK
  <2>. QED BY <1>3, <2>1 DEF ReadPort, ServerAt, End, vars
<1>4. CASE (Server /\ ~ReadPort) \/ RemoteConnects
  BY <1>4 DEF Server, RemoteConnects, ServerSocket, Bind, Listen,
     ServerFails, Watch, CloseListener, CloseListenerAgain, EpollWait,
     ServerAt, End, vars
<1>5. CASE UNCHANGED allVars
  BY <1>5 DEF allVars, vars
<1>. QED BY <1>1, <1>2, <1>3, <1>4, <1>5, PeersAlone

LEMMA SuccLeq == \A a, b \in Nat : a <= b => a + 1 \in Nat /\ a + 1 <= b + 1
  OBVIOUS

\* Connections come in but none is taken out, so the queue fills up once.
LEMMA NobodyAcceptsStep ==
  ASSUME BtideTypeOK, NobodyAccepts, PortRead, [BtideNext]_allVars
  PROVE  NobodyAccepts'
<1> USE DEF NobodyAccepts, mainVars, serverVars
<1>1. CASE PeersStep /\ UNCHANGED <<mainVars, serverVars>>
  BY <1>1
<1>2. CASE \/ \E key \in Keys, number \in Numbers : ParseLine(key, number)
           \/ ParseFails \/ ParseEnd \/ FreeConfig
  BY <1>2 DEF ParseLine, ParseFails, ParseEnd, FreeConfig
<1>3. CASE CreateServer
  BY <1>3 DEF CreateServer, PortRead
<1>4. CASE Server
  BY <1>4 DEF Server, ReadPort, ServerSocket, Bind, Listen, ServerFails,
     Watch, CloseListener, CloseListenerAgain, EpollWait, ServerAt
<1>5. CASE RemoteConnects
  <2>1. /\ arrived = queue /\ queue <= BACKLOG /\ server' = server
        /\ server \in {"epoll", "close", "wait"}
        /\ arrived' = arrived + 1 /\ queue' = queue + 1
    BY <1>5 DEF RemoteConnects
  <2>2. arrived \in Nat
    OBVIOUS
  <2>3. arrived' \in Nat /\ arrived' <= BACKLOG + 1
    BY <2>1, <2>2, SuccLeq, BtideAssumption
  <2>. QED BY <2>1, <2>3
<1>6. CASE UNCHANGED allVars
  BY <1>6 DEF allVars
<1>. QED BY <1>1, <1>2, <1>3, <1>4, <1>5, <1>6, PeersAlone

\* The peer list does not notice the listening socket: a step of the CLI or
\* of a client thread is one that it could take without it.
LEMMA PeersStepMaps ==
  ASSUME PeersStep, UNCHANGED serverVars, process = "running",
         process' \in ProcessStates, Listening \subseteq open
  PROVE  P!Next
<1>1. Listening' = Listening
  BY DEF serverVars, Listening
<1> DEFINE rest == open \ Listening
<1>2. (open \ Listening)' = open' \ Listening
  BY <1>1
<1>3. "running" \in ProcessStates
  BY DEF ProcessStates
<1> USE <1>2, <1>3
<1>4. CASE UserInput
  <2>1. open' = open
    BY <1>4 DEF UserInput, Connect, Disconnect, ListPeers, Quit, Eof
  <2>2. P!UserInput
    BY <1>4, <2>1 DEF UserInput, Connect, Disconnect, ListPeers, Quit, Eof,
       Prompt, P!UserInput, P!Connect, P!Disconnect, P!ListPeers, P!Quit,
       P!Eof, P!Prompt, Settled, P!Settled, args, P!args, registers,
       P!registers, threads, P!threads, heap, P!heap, history, P!history
  <2>. QED BY <2>2 DEF P!Next
\* What is given out is not the listening socket, and what is closed is gone
\* whether the listening socket is counted or not.
<1>5. CASE CliStep
  <2>1. open' = open \/ (DisconnectClose /\ open' = open \ {fd[cur]})
    BY <1>5 DEF CliStep, ConnectLock, FindPeer, FindPeerAgain, CreateThread,
       DisconnectLock, DisconnectWalk, DisconnectUnlink, DisconnectClose,
       DisconnectFree, ListLock, ListWalk, QuitNext, QuitFree, QuitExit, Die
  <2>2. CASE DisconnectClose
    <3>1. (open \ Listening)' = (open \ Listening) \ {fd[cur]}
      BY <2>2 DEF DisconnectClose
    <3>2. P!DisconnectClose
      BY <2>2, <3>1 DEF DisconnectClose, At, P!DisconnectClose, P!At, args,
         P!args, registers, P!registers, threads, P!threads, heap, P!heap,
         history, P!history
    <3>. QED BY <3>2 DEF P!Next, P!CliStep
  <2>3. CASE ~DisconnectClose
    <3>1. open' = open
      BY <2>1, <2>3
    <3>2. P!CliStep
      BY <1>5, <2>3, <3>1 DEF CliStep, ConnectLock, FindPeer, FindPeerAgain,
         CreateThread, DisconnectLock, DisconnectWalk, DisconnectUnlink,
         DisconnectFree, ListLock, ListWalk, QuitNext, QuitFree, QuitExit,
         Die, At, Acquire, Return, P!CliStep, P!ConnectLock, P!FindPeer,
         P!FindPeerAgain, P!CreateThread, P!DisconnectLock,
         P!DisconnectWalk, P!DisconnectUnlink, P!DisconnectFree, P!ListLock,
         P!ListWalk, P!QuitNext, P!QuitFree, P!QuitExit, P!Die, P!At,
         P!Acquire, P!Return, args, P!args, registers, P!registers, threads,
         P!threads, heap, P!heap, history, P!history
    <3>. QED BY <3>2 DEF P!Next
  <2>. QED BY <2>2, <2>3
<1>6. ASSUME NEW p \in Peer, ClientStep(p) PROVE P!Next
  <2>1. CASE OpenSocket(p)
    <3>1. PICK f \in Fd \ open : /\ open' = open \cup {f}
                                 /\ sock' = [sock EXCEPT ![p] = f]
      BY <2>1 DEF OpenSocket
    <3>2. (open \ Listening)' = (open \ Listening) \cup {f}
      BY <3>1
    <3>3. P!OpenSocket(p)
      BY <2>1, <3>1, <3>2 DEF OpenSocket, ThreadAt, P!OpenSocket,
         P!ThreadAt, args, P!args, registers, P!registers, heap, P!heap,
         history, P!history
    <3>. QED BY <3>3 DEF P!Next, P!ClientStep
  <2>2. CASE ConnectFails(p)
    <3>1. (open \ Listening)' = (open \ Listening) \ {sock[p]}
      BY <2>2 DEF ConnectFails
    <3>2. P!ConnectFails(p)
      BY <2>2, <3>1 DEF ConnectFails, ThreadAt, P!ConnectFails, P!ThreadAt,
         args, P!args, registers, P!registers, history, P!history
    <3>. QED BY <3>2 DEF P!Next, P!ClientStep
  <2>3. CASE SocketFails(p) \/ ConnectSucceeds(p) \/ TestNext(p)
             \/ StepNext(p) \/ WriteNext(p) \/ BadAccess(p)
    <3>1. open' = open
      BY <2>3 DEF SocketFails, ConnectSucceeds, TestNext, StepNext,
         WriteNext, BadAccess, Die
    <3>2. P!ClientStep(p)
      BY <2>3, <3>1 DEF SocketFails, ConnectSucceeds, TestNext, StepNext,
         WriteNext, BadAccess, Die, ThreadAt, Readable, P!ClientStep,
         P!SocketFails, P!ConnectSucceeds, P!TestNext, P!StepNext,
         P!WriteNext, P!BadAccess, P!Die, P!ThreadAt, P!Readable, args,
         P!args, registers, P!registers, threads, P!threads, heap, P!heap,
         history, P!history
    <3>. QED BY <3>2 DEF P!Next
  <2>. QED BY <1>6, <2>1, <2>2, <2>3 DEF ClientStep
<1>. QED BY <1>4, <1>5, <1>6 DEF PeersStep

\* Every other step but the second close is unseen: the socket the server
\* thread opens or closes is the one that is not counted.
LEMMA ServerStepStutters ==
  ASSUME \/ \E key \in Keys, number \in Numbers : ParseLine(key, number)
         \/ ParseFails \/ ParseEnd \/ CreateServer \/ FreeConfig
         \/ Server \/ RemoteConnects,
         process = "running", ~CloseListenerAgain, Listening \subseteq open,
         PortRead
  PROVE  UNCHANGED P!vars /\ (Listening \subseteq open)'
<1>1. /\ (IF process \in ProcessStates THEN process ELSE "running") = "running"
      /\ (IF process \in ProcessStates THEN process ELSE "running")' = "running"
  BY DEF ProcessStates, ParseLine, ParseFails, ParseEnd, CreateServer,
     FreeConfig, Server, RemoteConnects, ReadPort, ServerSocket, Bind, Listen,
     ServerFails, Watch, CloseListener, EpollWait, End, vars
<1>2. UNCHANGED <<cli, registers, lock, threads, heap, history>>
  BY DEF ParseLine, ParseFails, ParseEnd, CreateServer, FreeConfig, Server,
     RemoteConnects, ReadPort, ServerSocket, Bind, Listen, ServerFails, Watch,
     CloseListener, EpollWait, End, vars
<1>3. CASE ServerSocket
  <2>1. PICK f \in Fd \ open : listener' = f /\ open' = open \cup {f}
    BY <1>3 DEF ServerSocket
  <2>2. Listening = {} /\ Listening' = {f}
    BY <1>3, <2>1 DEF ServerSocket, ServerAt, Listening
  <2>3. (open \ Listening)' = open \ Listening /\ (Listening \subseteq open)'
    BY <2>1, <2>2
  <2>. QED BY <1>1, <1>2, <2>3 DEF P!vars, registers, P!registers, threads,
           P!threads, heap, P!heap, history, P!history, args, P!args
<1>4. CASE CloseListener
  <2>1. Listening = {listener} /\ Listening' = {} /\ open' = open \ {listener}
    BY <1>4 DEF CloseListener, ServerAt, Listening
  <2>2. (open \ Listening)' = open \ Listening /\ (Listening \subseteq open)'
    BY <2>1
  <2>. QED BY <1>1, <1>2, <2>2 DEF P!vars, registers, P!registers, threads,
           P!threads, heap, P!heap, history, P!history, args, P!args
<1>5. CASE ~ServerSocket /\ ~CloseListener
  <2>1. open' = open /\ Listening' = Listening
    BY <1>5 DEF ParseLine, ParseFails, ParseEnd, CreateServer, FreeConfig,
       Server, RemoteConnects, ReadPort, Bind, Listen, ServerFails, Watch,
       EpollWait, ServerAt, End, vars, serverVars, PortRead, Listening
  <2>. QED BY <1>1, <1>2, <2>1 DEF P!vars, registers, P!registers, threads,
           P!threads, heap, P!heap, history, P!history, args, P!args
<1>. QED BY <1>3, <1>4, <1>5

\* Every step of the process but the second close is a step of the peer
\* list, or one it does not see.
LEMMA StepMaps ==
  ASSUME PortRead, ~CloseListenerAgain, Listening \subseteq open,
         [BtideNext]_allVars
  PROVE  [P!Next]_P!vars
<1>1. CASE BtideNext
  BY <1>1, PeersAlone, PeersStepMaps, ServerStepStutters
<1>2. CASE UNCHANGED allVars
  BY <1>2 DEF allVars, vars, serverVars, Listening, P!vars, registers,
     P!registers, threads, P!threads, heap, P!heap, history, P!history,
     args, P!args
<1>. QED BY <1>1, <1>2

\* The second close is the only way to "deaf", from where no step leads.
LEMMA DeafStep ==
  ASSUME PortRead, [BtideNext]_allVars, ~CloseListenerAgain
  PROVE  /\ server' = "deaf" <=> server = "deaf"
         /\ server = "deaf" => listener' = listener
  BY PeersAlone DEF serverVars, allVars, ParseLine, ParseFails, ParseEnd,
     CreateServer, FreeConfig, Server, RemoteConnects, ReadPort,
     ServerSocket, Bind, Listen, ServerFails, Watch, CloseListener,
     EpollWait, ServerAt, PortRead

\* The peer list never gives back the socket the server thread listens on.
LEMMA ListeningStays ==
  ASSUME PortRead, Shared, ~CloseListenerAgain, [BtideNext]_allVars
  PROVE  (Listening \subseteq open)'
<1>1. P!ListInv /\ Listening \subseteq open
  BY DEF Shared
<1>2. Listening # {} => P!SocketsOwn /\ \A f \in Fd : P!Matched(f)
  BY DEF Shared, Listening, Stray
<1>3. CASE PeersStep /\ UNCHANGED <<mainVars, serverVars>>
  <2>1. Listening' = Listening
    BY <1>3 DEF serverVars, Listening
  <2>2. \/ open \subseteq open'
        \/ \E p \in Peer : ConnectFails(p)
        \/ DisconnectClose
    BY <1>3 DEF PeersStep, UserInput, CliStep, ClientStep, Connect,
       ConnectLock, FindPeer, FindPeerAgain, CreateThread, Disconnect,
       DisconnectLock, DisconnectWalk, DisconnectUnlink, DisconnectFree,
       ListPeers, ListLock, ListWalk, Quit, QuitNext, QuitFree, QuitExit,
       Eof, OpenSocket, SocketFails, ConnectSucceeds, TestNext, StepNext,
       WriteNext, BadAccess, Die
  <2>3. ASSUME NEW p \in Peer, ConnectFails(p)
        PROVE  Listening' \subseteq open'
    <3>1. open' = open \ {sock[p]} /\ sock[p] # 0
      BY <1>1, <2>3 DEF ConnectFails, ThreadAt, P!ListInv,
         P!DescriptorsByStage
    <3>2. sock[p] \notin Listening
      BY <1>2, <3>1 DEF P!SocketsOwn
    <3>. QED BY <1>1, <2>1, <3>1, <3>2
  <2>4. CASE DisconnectClose
    <3>1. cli = "d_close" /\ process = "running" /\ open' = open \ {fd[cur]}
      BY <2>4 DEF DisconnectClose, At
    <3>2. /\ cur \in Peer /\ mem[cur] = "live"
          /\ sock[cur] = 0 /\ fd[cur] # 0 /\ fd[cur] \in Fd
      BY <1>1, <3>1 DEF P!ListInv, P!TypeOK, P!RegistersLive, P!CursorLive,
         P!Walking, P!PointersLinked, P!Linked, P!SentinelStays,
         P!DescriptorsByStage, P!Node, P!Live, ProcessStates
    <3>3. cur \in P!Holders(fd[cur])
      BY <3>1, <3>2 DEF P!Holders, P!Held, P!Live
    <3>4. fd[cur] \notin Listening
      BY <1>2, <3>1, <3>2, <3>3 DEF P!Matched, P!Leaving
    <3>. QED BY <1>1, <2>1, <3>1, <3>4
  <2>. QED BY <1>1, <2>1, <2>2, <2>3, <2>4
<1>4. CASE UNCHANGED allVars
  BY <1>1, <1>4 DEF allVars, vars, serverVars, Listening
<1>. QED BY <1>1, <1>3, <1>4, PeersAlone, ServerStepStutters

\* The second close leaves the peer list alone, and of the descriptors it
\* touches one.
LEMMA SecondClose ==
  ASSUME Shared, CloseListenerAgain
  PROVE  Shared'
<1>1. /\ server = "close again" /\ server' = "deaf" /\ listener' = listener
      /\ open' = open \ {listener} /\ process' = process
      /\ UNCHANGED <<cli, registers, lock, threads, heap, history>>
  BY DEF CloseListenerAgain, ServerAt
<1>2. Listening = {} /\ Listening' = {} /\ Stray = {} /\ Stray' = {listener}
  BY <1>1 DEF Listening, Stray
<1>3. P!ListInv'
  <2>1. /\ UNCHANGED <<process, cli, node, target, cur, prev, succ, lock>>
        /\ UNCHANGED <<pc, temp, sock, addr, next, fd, mem>>
        /\ UNCHANGED <<clock, born, asked>>
    BY <1>1 DEF registers, args, threads, heap, history
  <2>2. P!TypeOK'
    <3>1. (open \ Listening)' \subseteq Fd
      BY <1>1, <1>2 DEF Shared, P!ListInv, P!TypeOK
    <3>. QED BY <2>1, <3>1 DEF Shared, P!ListInv, P!TypeOK, P!Node,
             P!ProcessStates, P!CliStates, P!ThreadStates
  <2>3. (P!PointersLinked /\ P!NodesOwned /\ P!AgesOrdered)'
    BY <2>1 DEF Shared, P!ListInv, P!PointersLinked, P!NodesOwned,
       P!AgesOrdered, P!NextIsYounger, P!Linked, P!Live, P!Node
  <2>4. (P!OnePredecessor /\ P!NoDanglingNext /\ P!RegistersLive)'
    BY <2>1 DEF Shared, P!ListInv, P!OnePredecessor, P!Doomed,
       P!NoDanglingNext, P!RegistersLive, P!CursorLive, P!Live, P!Node
  <2>5. (P!SentinelStays /\ P!DescriptorsByStage /\ P!MutexHeld)'
    BY <2>1 DEF Shared, P!ListInv, P!SentinelStays, P!DescriptorsByStage,
       P!MutexHeld, P!Live
  <2>6. P!Listed' = P!Listed
    BY <2>1 DEF P!Listed, P!Node
  <2>7. P!Found'
    BY <2>1, <2>6 DEF Shared, P!ListInv, P!Found, P!From, P!Closed, P!Live,
       P!Node
  <2>8. P!SearchSound'
    BY <2>1, <2>6 DEF Shared, P!ListInv, P!SearchSound, P!OlderTwin, P!Gone,
       P!From, P!Closed, P!Node
  <2>. QED BY <2>2, <2>3, <2>4, <2>5, <2>7, <2>8 DEF P!ListInv
<1>4. ASSUME NEW f \in Fd \ {listener} PROVE P!Matched(f)'
  <2>1. P!Matched(f) /\ (f \in open' <=> f \in open)
    BY <1>1, <1>2, <1>4 DEF Shared
  <2>2. P!Holders(f)' = P!Holders(f)
    BY <1>1 DEF P!Holders, P!Live, P!Held, registers, threads, heap
  <2>. QED BY <1>1, <1>2, <2>1, <2>2 DEF P!Matched
<1>. QED BY <1>1, <1>2, <1>3, <1>4 DEF Shared

\* Neither the server thread nor the peer list disturbs the other.
LEMMA SharedStep ==
  ASSUME PortRead, Shared, [BtideNext]_allVars
  PROVE  Shared'
<1> SUFFICES ASSUME ~CloseListenerAgain PROVE Shared'
  BY SecondClose
<1>1. P!ListInv /\ Listening \subseteq open
  BY DEF Shared
<1>2. [P!Next]_P!vars
  BY <1>1, StepMaps
<1>3. P!ListInv'
  BY <1>1, <1>2, P!ListInvStep, PeersAssumption
<1>4. Stray' = Stray
  BY DeafStep DEF Stray
<1>5. ASSUME NEW f \in Fd \ Stray PROVE P!Matched(f)'
  BY <1>1, <1>2, <1>5, P!MatchedStep, PeersAssumption DEF Shared
<1>6. CASE server' # "deaf"
  <2>1. server # "deaf"
    BY <1>6, DeafStep
  <2>2. P!Inv
    BY <2>1 DEF Shared, Stray, P!Inv
  <2>3. P!SocketsOwn'
    BY <1>2, <2>2, P!SocketsStep, PeersAssumption
  <2>. QED BY <1>3, <1>4, <1>5, <2>3, ListeningStays DEF Shared
<1>7. CASE server' = "deaf"
  BY <1>3, <1>4, <1>5, <1>7, ListeningStays DEF Shared
<1>. QED BY <1>6, <1>7

LEMMA BtideInvInit == BtideInit => BtideInv
<1> SUFFICES ASSUME BtideInit PROVE BtideInv
  OBVIOUS
<1>1. BtideTypeOK
  <2>1. 0 \in 0 .. MaxLines /\ 0 \in 0 .. BACKLOG + 1
    BY BtideAssumption
  <2>. QED BY <2>1 DEF BtideInit, BtideTypeOK, Init, ProcessStates, Keys
<1>2. PortRead /\ FreedAtTheEnd /\ OnlyAnEarlyQuitCrashes
  BY DEF BtideInit, PortRead, FreedAtTheEnd, OnlyAnEarlyQuitCrashes, Init
<1>3. NobodyAccepts
  BY BtideAssumption DEF BtideInit, NobodyAccepts
<1>4. Listening = {}
  BY DEF BtideInit, Listening
<1>5. P!Init
  BY <1>4 DEF BtideInit, Init, P!Init, P!Node, Node, ProcessStates
<1>6. Shared
  BY <1>4, <1>5, P!InvInit, PeersAssumption DEF Shared, P!Inv
<1>. QED BY <1>1, <1>2, <1>3, <1>6 DEF BtideInv

LEMMA BtideInvStep == BtideInv /\ [BtideNext]_allVars => BtideInv'
  BY BtideTypeStep, PortReadStep, FreedStep, NobodyAcceptsStep, SharedStep
     DEF BtideInv

-----------------------------------------------------------------------------
(* Theorems.                                                               *)

\* In every reachable state, whatever main, the CLI, the client threads, the
\* server thread and the remote peers do in which order.
THEOREM BtideInvAlways == BtideSpec => []BtideInv
  BY BtideInvInit, BtideInvStep, PTL DEF BtideSpec

\* Every variable keeps its type; in particular the port is always a number
\* of 16 bits once it is stored.
THEOREM BtideTypeCorrect == BtideSpec => []BtideTypeOK
<1>1. BtideInv => BtideTypeOK
  BY DEF BtideInv
<1>. QED BY <1>1, BtideInvAlways, PTL

\* The server thread binds the last port of the file, cut to 16 bits,
\* although it reads it through a pointer when main has long gone on.
THEOREM GivenPortIsBound == BtideSpec => []BindsGivenPort
<1>1. BtideInv => BindsGivenPort
  BY DEF BtideInv, PortRead, BindsGivenPort, Keys
<1>. QED BY <1>1, BtideInvAlways, PTL

\* The process touches the freed configuration only when the user has quit
\* before the server thread ran.
THEOREM CrashNeedsEarlyQuit == BtideSpec => []OnlyAnEarlyQuitCrashes
<1>1. BtideInv => OnlyAnEarlyQuitCrashes
  BY DEF BtideInv
<1>. QED BY <1>1, BtideInvAlways, PTL

\* No more than BACKLOG + 1 remote peers can connect in the whole life of
\* the process.
THEOREM InboundBounded == BtideSpec => []InboundEverBounded
<1>1. BtideInv => InboundEverBounded
  BY DEF BtideInv, NobodyAccepts, InboundEverBounded
<1>. QED BY <1>1, BtideInvAlways, PTL

\* No thread leaks a descriptor or closes another's, in any order of the
\* steps and failures; and once the second close has hit a socket it was not
\* meant for, that is so of every other descriptor for ever.
THEOREM DescriptorsShared == BtideSpec => []DescriptorsAccounted
<1>1. ASSUME BtideInv PROVE DescriptorsAccounted
  <2> SUFFICES ASSUME cli \notin Leaving, NEW f \in Fd \ Stray
               PROVE  LET Of == {p \in Peer : /\ mem[p] = "live"
                                              /\ Held(p) = f
                                              /\ ~(cli = "d_free" /\ cur = p)}
                      IN  /\ f \in open <=> f \in Listening \/ Of # {}
                          /\ \A p, q \in Of : p = q
                          /\ f \in Listening => Of = {}
    BY DEF DescriptorsAccounted
  <2>1. P!Matched(f) /\ Listening \subseteq open
    BY <1>1 DEF BtideInv, Shared
  <2>2. P!Holders(f) = {p \in Peer : /\ mem[p] = "live" /\ Held(p) = f
                                     /\ ~(cli = "d_free" /\ cur = p)}
    BY DEF P!Holders, P!Held, P!Live, Held
  <2>3. /\ f \in open \ Listening <=> P!Holders(f) # {}
        /\ \A p, q \in P!Holders(f) : p = q
    BY <2>1 DEF P!Matched, P!Leaving, Leaving
  <2>. QED BY <2>1, <2>2, <2>3
<1>. QED BY <1>1, BtideInvAlways, PTL

\* Threads and P are instances of the same module with the same mapping.
LEMMA ThreadsIsP ==
  /\ Threads!Init <=> P!Init
  /\ [Threads!Next]_Threads!vars <=> [P!Next]_P!vars
<1>1. Threads!Init <=> P!Init
  BY DEF Threads!Init, P!Init, Threads!Node, P!Node
<1>2. [Threads!Next]_Threads!vars <=> [P!Next]_P!vars
  BY DEF Threads!Connect, P!Connect, Threads!ConnectLock, P!ConnectLock,
     Threads!FindPeer, P!FindPeer, Threads!FindPeerAgain,
     P!FindPeerAgain, Threads!CreateThread, P!CreateThread,
     Threads!Disconnect, P!Disconnect, Threads!DisconnectLock,
     P!DisconnectLock, Threads!DisconnectWalk, P!DisconnectWalk,
     Threads!DisconnectUnlink, P!DisconnectUnlink,
     Threads!DisconnectClose, P!DisconnectClose, Threads!DisconnectFree,
     P!DisconnectFree, Threads!ListPeers, P!ListPeers, Threads!ListLock,
     P!ListLock, Threads!ListWalk, P!ListWalk, Threads!Quit, P!Quit,
     Threads!QuitNext, P!QuitNext, Threads!QuitFree, P!QuitFree,
     Threads!QuitExit, P!QuitExit, Threads!Eof, P!Eof,
     Threads!OpenSocket, P!OpenSocket, Threads!SocketFails,
     P!SocketFails, Threads!ConnectFails, P!ConnectFails,
     Threads!ConnectSucceeds, P!ConnectSucceeds, Threads!TestNext,
     P!TestNext, Threads!StepNext, P!StepNext, Threads!WriteNext,
     P!WriteNext, Threads!BadAccess, P!BadAccess, Threads!Prompt,
     P!Prompt, Threads!At, P!At, Threads!ThreadAt, P!ThreadAt,
     Threads!Die, P!Die, Threads!Return, P!Return, Threads!Acquire,
     P!Acquire, Threads!Readable, P!Readable, Threads!Settled,
     P!Settled, Threads!args, P!args, Threads!registers, P!registers,
     Threads!threads, P!threads, Threads!heap, P!heap, Threads!history,
     P!history, Threads!vars, P!vars, Threads!UserInput, P!UserInput,
     Threads!CliStep, P!CliStep, Threads!ClientStep, P!ClientStep,
     Threads!Next, P!Next, Threads!Node, P!Node
<1>. QED BY <1>1, <1>2

\* But for that second close the process implements Peers: whatever main and
\* the server thread do is a step of the peer list or is not seen by it,
\* before the second close and after it.
THEOREM ProcessImplementsPeers == BtideSpec => PeersAmongTheRest
<1>1. BtideInit => Threads!Init
  <2> SUFFICES ASSUME BtideInit PROVE Threads!Init
    OBVIOUS
  <2>1. Listening = {}
    BY DEF BtideInit, Listening
  <2>2. P!Init
    BY <2>1 DEF BtideInit, Init, P!Init, P!Node, Node, ProcessStates
  <2>. QED BY <2>2, ThreadsIsP
<1>2. ASSUME BtideInv, [BtideNext]_allVars
      PROVE  [\/ Threads!Next
              \/ server = "close again" /\ server' = "deaf"]_Threads!vars
  <2>1. CASE CloseListenerAgain
    BY <2>1 DEF CloseListenerAgain, ServerAt
  <2>2. CASE ~CloseListenerAgain
    <3>1. PortRead /\ Listening \subseteq open
      BY <1>2 DEF BtideInv, Shared
    <3>. QED BY <1>2, <2>2, <3>1, StepMaps, ThreadsIsP
  <2>. QED BY <2>1, <2>2
<1>3. BtideInv /\ [BtideNext]_allVars
        => [\/ Threads!Next
            \/ server = "close again" /\ server' = "deaf"]_Threads!vars
  BY <1>2
<1>. QED BY <1>1, <1>3, BtideInvAlways, PTL DEF BtideSpec, PeersAmongTheRest
=============================================================================
