------------------------------- MODULE Btide -------------------------------
(***************************************************************************)
(* The whole btide process: main parses the configuration, starts the      *)
(* server thread with a pointer into it and then runs the CLI of Peers;    *)
(* all threads share the descriptor table, and one exit ends them all.     *)
(*                                                                         *)
(* The server thread reads its port, listens, and waits on an edge-        *)
(* triggered epoll for ever: no code accepts a connection, and no code     *)
(* calls the validate functions or reads max_peers.  The kernel completes  *)
(* the connections of remote peers as long as its queue has room (Linux    *)
(* takes BACKLOG + 1) and keeps them there when the remote peer leaves.    *)
(* The epoll descriptor is left out of Fd.                                 *)
(***************************************************************************)
EXTENDS Peers

CONSTANTS
  PORTS,     \* 2^16, the numbers a uint16_t can hold
  Numbers,   \* what atoi can find after "port:"
  Wild,      \* a number that was not stored
  BACKLOG,   \* the second argument of listen
  MaxLines   \* bound on the lines of a configuration file

ASSUME BtideAssumption ==
  /\ PORTS \in Nat \ {0}
  /\ Numbers \subseteq Int
  /\ Wild \notin Int
  /\ BACKLOG \in Nat /\ MaxLines \in Nat

VARIABLES
  main,      \* "parse", "create" or "run": the prompt and what follows
  keys,      \* directory_set, max_peers_set and port_set
  lines,     \* how many lines were parsed
  config,    \* the config_file: "live" or "freed"
  port,      \* config->port
  server,    \* where the server thread is
  argument,  \* the port the server thread has read
  listener,  \* socket_num of the server thread, 0 before there is one
  queue,     \* connections in the kernel's queue that nobody has accepted
  event,     \* epoll has something to report
  given,     \* history: the number in the last port line
  arrived    \* history: how many remote peers have ever connected

mainVars == <<main, keys, lines, config, port, given>>
serverVars == <<server, argument, listener, queue, event, arrived>>
allVars == <<vars, mainVars, serverVars>>

Keys == {"directory", "max_peers", "port"}

BtideInit ==
  /\ Init
  /\ main = "parse" /\ keys = {} /\ lines = 0
  /\ config = "live" /\ port = Wild /\ given = Wild
  /\ server = "none" /\ argument = Wild /\ listener = 0
  /\ queue = 0 /\ event = FALSE /\ arrived = 0

-----------------------------------------------------------------------------
(* main: the configuration and the server thread.                          *)

Parsing == process = "running" /\ main = "parse"

End(status) ==
  /\ process' = status
  /\ UNCHANGED <<cli, registers, lock, threads, heap, open, history>>

\* Faulty form of ParseLine: the port is not cut to 16 bits.
ParseLineUncut(key, number) ==
  /\ Parsing
  /\ lines < MaxLines
  /\ lines' = lines + 1
  /\ keys' = keys \cup {key}
  /\ IF key = "port" THEN port' = number /\ given' = number
                     ELSE UNCHANGED <<port, given>>
  /\ UNCHANGED <<vars, main, config, serverVars>>

\* "key:value"; a key may come twice, and the last value counts.
ParseLine(key, number) ==
  /\ Parsing
  /\ lines < MaxLines
  /\ lines' = lines + 1
  /\ keys' = keys \cup {key}
  /\ IF key = "port" THEN port' = number % PORTS /\ given' = number
                     ELSE UNCHANGED <<port, given>>
  /\ UNCHANGED <<vars, main, config, serverVars>>

\* The file cannot be opened, or a line has an unknown key or no value.
ParseFails ==
  /\ Parsing
  /\ End("exit 2")
  /\ config' = "freed"
  /\ UNCHANGED <<main, keys, lines, port, given, serverVars>>

\* Faulty form of ParseEnd: a port is not missed.
ParseEndNoPort ==
  /\ Parsing
  /\ IF Keys \ {"port"} \subseteq keys
     THEN main' = "create" /\ UNCHANGED <<vars, config>>
     ELSE End("exit 2") /\ config' = "freed" /\ UNCHANGED main
  /\ lines' = 0
  /\ UNCHANGED <<keys, port, given, serverVars>>

\* The end of the file: "Missing required config fields", or the config.
ParseEnd ==
  /\ Parsing
  /\ IF keys = Keys
     THEN main' = "create" /\ UNCHANGED <<vars, config>>
     ELSE End("exit 2") /\ config' = "freed" /\ UNCHANGED main
  /\ lines' = 0
  /\ UNCHANGED <<keys, port, given, serverVars>>

\* pthread_create, whose result is not looked at.
CreateServer ==
  /\ process = "running" /\ main = "create"
  /\ server' \in {"none", "start"}
  /\ main' = "run"
  /\ UNCHANGED <<vars, keys, lines, config, port, given, argument, listener,
                 queue, event, arrived>>

\* The CLI and the client threads; main frees the config before it returns.
Cli == main = "run" /\ (cli = "q_exit" => config = "freed") /\ CliStep

Clients(p) == main = "run" /\ ClientStep(p)

FreeConfig ==
  /\ At("q_exit")
  /\ config = "live"
  /\ config' = "freed"
  /\ UNCHANGED <<vars, main, keys, lines, port, given, serverVars>>

-----------------------------------------------------------------------------
(* The server thread.                                                      *)

ServerAt(s) == process = "running" /\ server = s

\* The port is read through the pointer into config: with the padding behind
\* it, which htons cuts off again.
ReadPort ==
  /\ ServerAt("start")
  /\ IF config = "live"
     THEN argument' = port /\ server' = "socket" /\ UNCHANGED vars
     ELSE End("config_after_free") /\ UNCHANGED <<argument, server>>
  /\ UNCHANGED <<mainVars, listener, queue, event, arrived>>

ServerSocket ==
  /\ ServerAt("socket")
  /\ \E f \in Fd \ open : listener' = f /\ open' = open \cup {f}
  /\ server' = "bind"
  /\ UNCHANGED <<process, cli, registers, lock, threads, heap, history,
                 mainVars, argument, queue, event, arrived>>

\* Faulty form of Bind: the port is read from the config here.
BindReadsConfig ==
  /\ ServerAt("bind")
  /\ IF config = "live"
     THEN argument' = port /\ server' = "listen" /\ UNCHANGED vars
     ELSE End("config_after_free") /\ UNCHANGED <<argument, server>>
  /\ UNCHANGED <<mainVars, listener, queue, event, arrived>>

Bind ==
  /\ ServerAt("bind")
  /\ server' = "listen"
  /\ UNCHANGED <<vars, mainVars, argument, listener, queue, event, arrived>>

Listen ==
  /\ ServerAt("listen")
  /\ server' = "epoll"
  /\ UNCHANGED <<vars, mainVars, argument, listener, queue, event, arrived>>

\* socket, set_nonblock, bind, listen or epoll_create1 fails: the server
\* thread ends the process, whatever the others are doing.
ServerFails ==
  /\ process = "running"
  /\ server \in {"socket", "bind", "listen", "epoll"}
  /\ End("exit failure")
  /\ UNCHANGED <<mainVars, serverVars>>

\* Faulty form of Watch: the socket is closed once epoll has it.
WatchCloses ==
  /\ ServerAt("epoll")
  /\ open' = open \ {listener}
  /\ server' = "wait"
  /\ UNCHANGED <<process, cli, registers, lock, threads, heap, history,
                 mainVars, argument, listener, queue, event, arrived>>

\* epoll_ctl; when it fails the thread closes its socket, twice, and goes on.
Watch ==
  /\ ServerAt("epoll")
  /\ server' \in {"wait", "close"}
  /\ UNCHANGED <<vars, mainVars, argument, listener, queue, event, arrived>>

CloseListener ==
  /\ ServerAt("close")
  /\ open' = open \ {listener}
  /\ server' = "close again"
  /\ queue' = 0 /\ event' = FALSE
  /\ UNCHANGED <<process, cli, registers, lock, threads, heap, history,
                 mainVars, argument, listener, arrived>>

CloseListenerAgain ==
  /\ ServerAt("close again")
  /\ open' = open \ {listener}
  /\ server' = "deaf"
  /\ UNCHANGED <<process, cli, registers, lock, threads, heap, history,
                 mainVars, argument, listener, queue, event, arrived>>

\* Faulty form of EpollWait: the connection is taken and closed.
EpollWaitCloses ==
  /\ ServerAt("wait")
  /\ event
  /\ event' = FALSE
  /\ queue' = queue - 1
  /\ UNCHANGED <<vars, mainVars, server, argument, listener, arrived>>

\* The event is collected, and that is all.
EpollWait ==
  /\ ServerAt("wait")
  /\ event
  /\ event' = FALSE
  /\ UNCHANGED <<vars, mainVars, server, argument, listener, queue, arrived>>

Server ==
  \/ ReadPort \/ ServerSocket \/ Bind \/ Listen \/ ServerFails \/ Watch
  \/ CloseListener \/ CloseListenerAgain \/ EpollWait

\* A remote peer connects.
RemoteConnects ==
  /\ process = "running"
  /\ server \in {"epoll", "close", "wait"}
  /\ queue <= BACKLOG
  /\ queue' = queue + 1
  /\ event' = TRUE
  /\ arrived' = arrived + 1
  /\ UNCHANGED <<vars, mainVars, server, argument, listener>>

-----------------------------------------------------------------------------

Together(step) == step /\ UNCHANGED <<mainVars, serverVars>>

BtideNext ==
  \/ \E key \in Keys, number \in Numbers : ParseLine(key, number)
  \/ ParseFails \/ ParseEnd \/ CreateServer
  \/ Together(main = "run" /\ UserInput)
  \/ Together(Cli)
  \/ \E p \in Peer : Together(Clients(p))
  \/ FreeConfig
  \/ Server
  \/ RemoteConnects

BtideSpec == BtideInit /\ [][BtideNext]_allVars

\* The kernel schedules main and the client threads, and connect(2) returns.
\* The user may stop typing, and nothing is assumed of the server thread or
\* of remote peers.
BtideFairSpec ==
  /\ BtideSpec
  /\ WF_allVars(Together(Cli) \/ FreeConfig)
  /\ \A p \in Peer : WF_allVars(Together(Clients(p)))

-----------------------------------------------------------------------------
(* Properties.                                                             *)

\* Every variable keeps its type.
BtideTypeOK ==
  /\ process \in ProcessStates \cup {"exit 2", "exit failure",
                                     "config_after_free"}
  /\ main \in {"parse", "create", "run"}
  /\ keys \subseteq Keys /\ lines \in 0 .. MaxLines
  /\ config \in {"live", "freed"}
  /\ port \in {Wild} \cup 0 .. PORTS - 1
  /\ server \in {"none", "start", "socket", "bind", "listen", "epoll",
                 "close", "close again", "deaf", "wait"}
  /\ argument \in {Wild} \cup 0 .. PORTS - 1
  /\ listener \in Fd \cup {0}
  /\ queue \in 0 .. BACKLOG + 1 /\ event \in BOOLEAN

\* parse_config and create_server_thread: the port that is bound is the
\* last one the file gives, cut to 16 bits, never what malloc left in config
\* or what free did.
BindsGivenPort ==
  server \notin {"none", "start"} =>
    given # Wild /\ argument = given % PORTS

\* The config is freed under a thread that reads it only when the user quits
\* before the server thread has run at all.
OnlyAnEarlyQuitCrashes ==
  process = "config_after_free" => server = "start" /\ cli = "q_exit"

Listening ==
  IF server \in {"bind", "listen", "epoll", "close", "wait"} THEN {listener}
                                                           ELSE {}

\* The descriptors that the second close of the listening socket may have
\* taken from the client thread that had just been given them: one, no more.
Stray == IF server = "deaf" THEN {listener} ELSE {}

\* The threads share the descriptor table without taking a descriptor from
\* one another: each is open exactly while the server thread listens on it
\* or one peer holds it, never two, whoever failed in which order.  Once
\* epoll_ctl has failed, close_connection's second close can break this for
\* the number it was given, and the damage never spreads to another one.
DescriptorsAccounted ==
  LET Of(f) == {p \in Peer : /\ mem[p] = "live" /\ Held(p) = f
                             /\ ~(cli = "d_free" /\ cur = p)}
  IN process = "running" /\ cli \notin Leaving =>
       \A f \in Fd \ Stray :
         /\ f \in open <=> f \in Listening \/ Of(f) # {}
         /\ \A p, q \in Of(f) : p = q
         /\ f \in Listening => Of(f) = {}

\* What the server thread and main do besides is nothing to the peer list:
\* but for that second close, every step of the process is a step of a Peers
\* process, whose threads may all stop at any time, before it and after it.
Threads == INSTANCE Peers WITH
  open <- open \ Listening,
  process <- IF process \in ProcessStates THEN process ELSE "running"

PeersAmongTheRest ==
  /\ Threads!Init
  /\ [][\/ Threads!Next
        \/ server = "close again" /\ server' = "deaf"]_Threads!vars

\* Since nothing accepts, a process can be connected to BACKLOG + 1 times in
\* its life, however many peers max_peers allows and however many leave.
InboundEverBounded == arrived <= BACKLOG + 1
=============================================================================
