------------------------------- MODULE Peers -------------------------------
(***************************************************************************)
(* The peer list of btide: the linked list of connected peers that the     *)
(* CLI thread (main, process_input) searches, prints and unlinks from      *)
(* under peers_mutex, and to which every CONNECT's detached client thread  *)
(* appends (create_client_thread, connect_client, add_peer).               *)
(*                                                                         *)
(* A client thread holds no lock that excludes the CLI: peer_package       *)
(* carries a COPY of peers_mutex, taken after the CLI has released the     *)
(* original, which the thread unlocks before add_peer and locks after it.  *)
(* The copy is private to the thread and never held by anyone else, so it  *)
(* has no state here.  Every read or write of a shared next pointer is     *)
(* a step of its own.                                                      *)
(*                                                                         *)
(* The Makefile builds btide with -fsanitize=address, so touching freed    *)
(* memory ends the process; freed nodes stay in the sanitizer's            *)
(* quarantine, so a node's memory is never handed out twice.  Bounds:      *)
(* Peer (one node per CONNECT) and Fd (the descriptor table).              *)
(***************************************************************************)
EXTENDS Integers

CONSTANTS
  Peer,        \* the peer objects CONNECT can allocate, one per command
  Addr,        \* the ip:port pairs the user names
  Fd,          \* socket descriptors
  Head,        \* the sentinel node main allocates: ip "", port -1, fd 0
  Null,        \* the NULL pointer
  NoAddr,      \* the address of the sentinel: no uint16_t port equals -1
  OneAtATime   \* TRUE: the user waits for a CONNECT's thread to finish

ASSUME PeersAssumption ==
  /\ Head \notin Peer
  /\ Null \notin Peer \cup {Head}
  /\ NoAddr \notin Addr
  /\ Fd \subseteq Nat \ {0}
  /\ OneAtATime \in BOOLEAN

VARIABLES
  process,  \* "running", or how the process ended
  cli,      \* where the CLI thread is
  node,     \* CONNECT: the peer it has allocated
  target,   \* DISCONNECT: the ip:port it looks for
  cur,      \* the CLI's list cursor (temp in get_peer, current elsewhere)
  prev,     \* DISCONNECT: the node before cur
  succ,     \* DISCONNECT: the value of current->next it has read
  lock,     \* peers_mutex is held; only the CLI ever locks it
  pc,       \* where the client thread of each peer is
  temp,     \* add_peer's temp, per client thread
  sock,     \* connect_client's socket_num, per client thread (0: none)
  addr,     \* peer_object.ip and .port
  next,     \* peer_object.next
  fd,       \* peer_object.fd (0: not written yet)
  mem,      \* "unallocated", "live" or "freed"
  open,     \* the descriptors open in the kernel
  clock,    \* history: how many peers have been appended
  born,     \* history: when a node was appended, the sentinel at 0
  asked     \* history: how many had been when CONNECT began to search for it

args      == <<node, target>>
registers == <<args, cur, prev, succ>>
threads   == <<pc, temp, sock>>
heap      == <<addr, next, fd, mem>>
history   == <<clock, born, asked>>
vars      == <<process, cli, registers, lock, threads, heap, open, history>>

Node == Peer \cup {Head}

CliStates ==
  {"prompt", "c_lock", "c_find", "c_find_again", "c_create",
   "d_lock", "d_walk", "d_unlink", "d_close", "d_free",
   "p_lock", "p_walk", "q_next", "q_free", "q_exit"}

ThreadStates ==
  {"none", "socket", "connect", "test", "step", "write", "linked", "dropped"}

ProcessStates ==
  {"running", "exited", "double_free", "bad_detach", "use_after_free",
   "null_deref"}

\* Every variable keeps its type.
TypeOK ==
  /\ process \in ProcessStates
  /\ cli \in CliStates
  /\ node \in Peer \cup {Null}
  /\ target \in Addr \cup {NoAddr}
  /\ cur \in Node \cup {Null}
  /\ prev \in Node \cup {Null}
  /\ succ \in Node \cup {Null}
  /\ lock \in BOOLEAN
  /\ pc \in [Peer -> ThreadStates]
  /\ temp \in [Peer -> Node \cup {Null}]
  /\ sock \in [Peer -> Fd \cup {0}]
  /\ addr \in [Node -> Addr \cup {NoAddr}]
  /\ next \in [Node -> Node \cup {Null}]
  /\ fd \in [Node -> Fd \cup {0}]
  /\ mem \in [Node -> {"unallocated", "live", "freed"}]
  /\ open \subseteq Fd
  /\ clock \in Nat
  /\ born \in [Node -> Nat]
  /\ asked \in [Peer -> Nat]

Init ==
  /\ process = "running"
  /\ cli = "prompt"
  /\ node = Null /\ target = NoAddr
  /\ cur = Null /\ prev = Null /\ succ = Null
  /\ lock = FALSE
  /\ pc = [p \in Peer |-> "none"]
  /\ temp = [p \in Peer |-> Null]
  /\ sock = [p \in Peer |-> 0]
  /\ addr = [n \in Node |-> NoAddr]
  /\ next = [n \in Node |-> Null]
  /\ fd = [n \in Node |-> 0]
  /\ mem = [n \in Node |-> IF n = Head THEN "live" ELSE "unallocated"]
  /\ open = {}
  /\ clock = 0
  /\ born = [n \in Node |-> 0]
  /\ asked = [p \in Peer |-> 0]

-----------------------------------------------------------------------------
(* The CLI thread.                                                         *)

Settled(p) == pc[p] \in {"none", "linked", "dropped"}

\* The CLI is at fgets and the user types a command.
Prompt ==
  /\ process = "running"
  /\ cli = "prompt"
  /\ OneAtATime => \A p \in Peer : Settled(p)

At(step) == process = "running" /\ cli = step

\* Back to fgets; the locals of process_input are out of scope.
Return ==
  /\ cli' = "prompt"
  /\ node' = Null /\ target' = NoAddr
  /\ cur' = Null /\ prev' = Null /\ succ' = Null

\* The process ends here, every thread with it.
Die(how) ==
  /\ process' = how
  /\ UNCHANGED <<cli, registers, lock, threads, open, history>>

\* pthread_mutex_lock(&peers_mutex): a default mutex, so the thread that
\* already holds it waits for ever.
Acquire == lock = FALSE /\ lock' = TRUE

ThreadAt(p, step) == process = "running" /\ pc[p] = step

Readable(n) == n # Null /\ mem[n] = "live"

-----------------------------------------------------------------------------
(* Faulty forms of the actions below, one slip each, that Spec does not    *)
(* use: put in place of the correct action, each breaks a property.        *)

\* The search compares nothing, so no connection is found a duplicate.
FindPeerBlind ==
  /\ At("c_find")
  /\ cur' = next[cur]
  /\ IF next[cur] = Null
     THEN cli' = "c_create" /\ lock' = FALSE
     ELSE UNCHANGED <<cli, lock>>
  /\ UNCHANGED <<process, args, prev, succ, threads, heap, open, history>>

\* DISCONNECT forgets to advance prev.
DisconnectWalkNoPrev ==
  /\ At("d_walk")
  /\ IF addr[cur] = target
     THEN succ' = next[cur] /\ cli' = "d_unlink" /\ UNCHANGED <<cur, lock>>
     ELSE /\ cur' = next[cur]
          /\ UNCHANGED succ
          /\ IF next[cur] = Null
             THEN cli' = "prompt" /\ lock' = FALSE
             ELSE UNCHANGED <<cli, lock>>
  /\ UNCHANGED <<process, args, prev, threads, heap, open, history>>

\* "Peer not found" returns before the unlock.
DisconnectWalkLocked ==
  /\ At("d_walk")
  /\ \/ /\ addr[cur] = target
        /\ succ' = next[cur]
        /\ cli' = "d_unlink"
        /\ UNCHANGED <<args, cur, prev>>
     \/ /\ addr[cur] # target /\ next[cur] # Null
        /\ prev' = cur
        /\ cur' = next[cur]
        /\ UNCHANGED <<cli, args, succ>>
     \/ addr[cur] # target /\ next[cur] = Null /\ Return
  /\ UNCHANGED <<process, lock, threads, heap, open, history>>

UnlinkedAs(successors, memory) ==
  /\ At("d_unlink")
  /\ next' = successors
  /\ mem' = memory
  /\ succ' = Null
  /\ cli' = "d_close"
  /\ UNCHANGED <<process, args, cur, prev, lock, threads, addr, fd, open,
                 history>>

\* DISCONNECT frees the node but leaves it in the list.
DisconnectUnlinkSkipped == UnlinkedAs(next, mem)

\* DISCONNECT cuts the list after prev.
DisconnectUnlinkTail ==
  UnlinkedAs(IF prev = Null THEN next ELSE [next EXCEPT ![prev] = Null], mem)

\* DISCONNECT frees the node before it closes the node's descriptor.
DisconnectUnlinkFrees ==
  UnlinkedAs(IF prev = Null THEN next ELSE [next EXCEPT ![prev] = succ],
             [mem EXCEPT ![cur] = "freed"])

\* A failed connect leaves the socket open.
ConnectFailsOpen(p) ==
  /\ ThreadAt(p, "connect")
  /\ sock' = [sock EXCEPT ![p] = 0]
  /\ mem' = [mem EXCEPT ![p] = "freed"]
  /\ pc' = [pc EXCEPT ![p] = "dropped"]
  /\ UNCHANGED <<process, cli, registers, lock, temp, addr, next, fd, open,
                 history>>

WrittenAs(p, successors) ==
  /\ ThreadAt(p, "write")
  /\ Readable(temp[p])
  /\ next' = successors
  /\ temp' = [temp EXCEPT ![p] = Null]
  /\ pc' = [pc EXCEPT ![p] = "linked"]
  /\ clock' = clock + 1
  /\ born' = [born EXCEPT ![p] = clock + 1]
  /\ UNCHANGED <<process, cli, registers, lock, sock, addr, fd, mem, open,
                 asked>>

\* add_peer assigns peer->next = temp.
WriteNextReversed(p) == WrittenAs(p, [next EXCEPT ![p] = temp[p]])

\* add_peer makes the list a ring.
WriteNextRing(p) ==
  WrittenAs(p, [next EXCEPT ![temp[p]] = p, ![p] = Head])

-----------------------------------------------------------------------------
(* The commands of the CLI thread.                                         *)

\* CONNECT a.  When the arguments do not parse the code prints a message
\* and goes on with whatever ip and port hold, so a is any address.
Connect(p, a) ==
  /\ Prompt
  /\ mem[p] = "unallocated"
  /\ mem' = [mem EXCEPT ![p] = "live"]
  /\ addr' = [addr EXCEPT ![p] = a]
  /\ node' = p
  /\ cli' = "c_lock"
  /\ UNCHANGED <<process, target, cur, prev, succ, lock, threads, next, fd,
                 open, history>>

ConnectLock ==
  /\ At("c_lock")
  /\ Acquire
  /\ cur' = Head
  /\ asked' = [asked EXCEPT ![node] = clock]
  /\ cli' = "c_find"
  /\ UNCHANGED <<process, args, prev, succ, threads, heap, open, clock, born>>

\* The first get_peer call: does the list hold the address already?
FindPeer ==
  /\ At("c_find")
  /\ \/ /\ addr[cur] = addr[node]
        /\ cur' = Head
        /\ cli' = "c_find_again"
        /\ UNCHANGED lock
     \/ /\ addr[cur] # addr[node]
        /\ next[cur] # Null
        /\ cur' = next[cur]
        /\ UNCHANGED <<cli, lock>>
     \/ /\ addr[cur] # addr[node]
        /\ next[cur] = Null
        /\ cur' = Null
        /\ lock' = FALSE
        /\ cli' = "c_create"
  /\ UNCHANGED <<process, args, prev, succ, threads, heap, open, history>>

\* The second get_peer call, whose result is dereferenced unchecked.
FindPeerAgain ==
  /\ At("c_find_again")
  /\ \/ /\ addr[cur] # addr[node]
        /\ next[cur] # Null
        /\ cur' = next[cur]
        /\ UNCHANGED <<process, cli, args, prev, succ, lock, mem>>
     \/ /\ addr[cur] # addr[node]
        /\ next[cur] = Null
        /\ cur' = Null
        /\ process' = "null_deref"
        /\ UNCHANGED <<cli, args, prev, succ, lock, mem>>
     \/ /\ addr[cur] = addr[node]
        /\ lock' = FALSE
        /\ UNCHANGED process
        /\ IF fd[cur] > 0
           THEN mem' = [mem EXCEPT ![node] = "freed"] /\ Return
           ELSE /\ cur' = Null
                /\ cli' = "c_create"
                /\ UNCHANGED <<args, prev, succ, mem>>
  /\ UNCHANGED <<threads, addr, next, fd, open, history>>

\* pthread_create.  When it fails the node is freed and pthread_detach gets
\* an uninitialised thread id.
CreateThread ==
  /\ At("c_create")
  /\ \/ /\ pc' = [pc EXCEPT ![node] = "socket"]
        /\ UNCHANGED <<process, mem>>
     \/ /\ mem' = [mem EXCEPT ![node] = "freed"]
        /\ process' \in {"running", "bad_detach"}
        /\ UNCHANGED pc
  /\ Return
  /\ UNCHANGED <<lock, temp, sock, addr, next, fd, open, history>>

\* DISCONNECT a.
Disconnect(a) ==
  /\ Prompt
  /\ target' = a
  /\ cli' = "d_lock"
  /\ UNCHANGED <<process, node, cur, prev, succ, lock, threads, heap, open,
                 history>>

DisconnectLock ==
  /\ At("d_lock")
  /\ Acquire
  /\ cur' = Head
  /\ cli' = "d_walk"
  /\ UNCHANGED <<process, args, prev, succ, threads, heap, open, history>>

DisconnectWalk ==
  /\ At("d_walk")
  /\ \/ /\ addr[cur] = target
        /\ succ' = next[cur]
        /\ cli' = "d_unlink"
        /\ UNCHANGED <<args, cur, prev, lock>>
     \/ /\ addr[cur] # target
        /\ next[cur] # Null
        /\ prev' = cur
        /\ cur' = next[cur]
        /\ UNCHANGED <<cli, args, succ, lock>>
     \/ /\ addr[cur] # target
        /\ next[cur] = Null
        /\ lock' = FALSE
        /\ Return
  /\ UNCHANGED <<process, threads, heap, open, history>>

\* prev->next = current->next; with no prev only the parameter peer_head
\* of process_input changes.
DisconnectUnlink ==
  /\ At("d_unlink")
  /\ next' = IF prev = Null THEN next ELSE [next EXCEPT ![prev] = succ]
  /\ succ' = Null
  /\ cli' = "d_close"
  /\ UNCHANGED <<process, args, cur, prev, lock, threads, addr, fd, mem,
                 open, history>>

DisconnectClose ==
  /\ At("d_close")
  /\ open' = open \ {fd[cur]}
  /\ cli' = "d_free"
  /\ UNCHANGED <<process, registers, lock, threads, heap, history>>

DisconnectFree ==
  /\ At("d_free")
  /\ mem' = [mem EXCEPT ![cur] = "freed"]
  /\ lock' = FALSE
  /\ Return
  /\ UNCHANGED <<process, threads, addr, next, fd, open, history>>

\* PEERS: the argument peer_head->next is read before the lock is taken.
ListPeers ==
  /\ Prompt
  /\ cur' = next[Head]
  /\ cli' = "p_lock"
  /\ UNCHANGED <<process, args, prev, succ, lock, threads, heap, open,
                 history>>

\* An empty list makes print_all_peers return with the mutex held.
ListLock ==
  /\ At("p_lock")
  /\ Acquire
  /\ cli' = IF cur = Null THEN "prompt" ELSE "p_walk"
  /\ UNCHANGED <<process, registers, threads, heap, open, history>>

ListWalk ==
  /\ At("p_walk")
  /\ cur' = next[cur]
  /\ IF next[cur] = Null
     THEN cli' = "prompt" /\ lock' = FALSE
     ELSE UNCHANGED <<cli, lock>>
  /\ UNCHANGED <<process, args, prev, succ, threads, heap, open, history>>

\* QUIT: the mutex is unlocked whatever its state, then free_peers.
Quit ==
  /\ Prompt
  /\ lock' = FALSE
  /\ cur' = Head
  /\ cli' = "q_next"
  /\ UNCHANGED <<process, args, prev, succ, threads, heap, open, history>>

QuitNext ==
  /\ At("q_next")
  /\ succ' = next[cur]
  /\ cli' = "q_free"
  /\ UNCHANGED <<process, args, cur, prev, lock, threads, heap, open, history>>

QuitFree ==
  /\ At("q_free")
  /\ mem' = [mem EXCEPT ![cur] = "freed"]
  /\ cur' = succ
  /\ succ' = Null
  /\ cli' = IF succ = Null THEN "q_exit" ELSE "q_next"
  /\ UNCHANGED <<process, args, prev, lock, threads, addr, next, fd, open,
                 history>>

QuitExit ==
  /\ At("q_exit")
  /\ process' = "exited"
  /\ UNCHANGED <<cli, registers, lock, threads, heap, open, history>>

\* End of input: main returns 1 and frees nothing.
Eof ==
  /\ Prompt
  /\ process' = "exited"
  /\ UNCHANGED <<cli, registers, lock, threads, heap, open, history>>

UserInput ==
  \/ \E p \in Peer, a \in Addr : Connect(p, a)
  \/ \E a \in Addr : Disconnect(a)
  \/ ListPeers \/ Quit \/ Eof

CliStep ==
  \/ ConnectLock \/ FindPeer \/ FindPeerAgain \/ CreateThread
  \/ DisconnectLock \/ DisconnectWalk \/ DisconnectUnlink
  \/ DisconnectClose \/ DisconnectFree
  \/ ListLock \/ ListWalk
  \/ QuitNext \/ QuitFree \/ QuitExit

-----------------------------------------------------------------------------
(* The client thread of peer p.                                            *)

OpenSocket(p) ==
  /\ ThreadAt(p, "socket")
  /\ \E f \in Fd \ open :
       /\ open' = open \cup {f}
       /\ sock' = [sock EXCEPT ![p] = f]
  /\ pc' = [pc EXCEPT ![p] = "connect"]
  /\ UNCHANGED <<process, cli, registers, lock, temp, heap, history>>

\* connect_client frees the node and its caller frees it again.
SocketFails(p) ==
  /\ ThreadAt(p, "socket")
  /\ mem' = [mem EXCEPT ![p] = "freed"]
  /\ Die("double_free")
  /\ UNCHANGED <<addr, next, fd>>

\* inet_pton or connect fails.
ConnectFails(p) ==
  /\ ThreadAt(p, "connect")
  /\ open' = open \ {sock[p]}
  /\ sock' = [sock EXCEPT ![p] = 0]
  /\ mem' = [mem EXCEPT ![p] = "freed"]
  /\ pc' = [pc EXCEPT ![p] = "dropped"]
  /\ UNCHANGED <<process, cli, registers, lock, temp, addr, next, fd,
                 history>>

\* connect returns, and add_peer starts at the sentinel.
ConnectSucceeds(p) ==
  /\ ThreadAt(p, "connect")
  /\ fd' = [fd EXCEPT ![p] = sock[p]]
  /\ sock' = [sock EXCEPT ![p] = 0]
  /\ temp' = [temp EXCEPT ![p] = Head]
  /\ pc' = [pc EXCEPT ![p] = "test"]
  /\ UNCHANGED <<process, cli, registers, lock, addr, next, mem, open,
                 history>>

\* while (temp->next != NULL): the test and the assignment that follows
\* read temp->next separately.
TestNext(p) ==
  /\ ThreadAt(p, "test")
  /\ Readable(temp[p])
  /\ pc' = [pc EXCEPT ![p] = IF next[temp[p]] = Null THEN "write"
                                                     ELSE "step"]
  /\ UNCHANGED <<process, cli, registers, lock, temp, sock, heap, open,
                 history>>

StepNext(p) ==
  /\ ThreadAt(p, "step")
  /\ Readable(temp[p])
  /\ temp' = [temp EXCEPT ![p] = next[temp[p]]]
  /\ pc' = [pc EXCEPT ![p] = "test"]
  /\ UNCHANGED <<process, cli, registers, lock, sock, heap, open, history>>

\* temp->next = peer, and the thread is done.
WriteNext(p) ==
  /\ ThreadAt(p, "write")
  /\ Readable(temp[p])
  /\ next' = [next EXCEPT ![temp[p]] = p]
  /\ temp' = [temp EXCEPT ![p] = Null]
  /\ pc' = [pc EXCEPT ![p] = "linked"]
  /\ clock' = clock + 1
  /\ born' = [born EXCEPT ![p] = clock + 1]
  /\ UNCHANGED <<process, cli, registers, lock, sock, addr, fd, mem, open,
                 asked>>

\* The thread follows a pointer to a freed node, or NULL.
BadAccess(p) ==
  /\ process = "running"
  /\ pc[p] \in {"test", "step", "write"}
  /\ ~Readable(temp[p])
  /\ Die(IF temp[p] = Null THEN "null_deref" ELSE "use_after_free")
  /\ UNCHANGED heap

ClientStep(p) ==
  \/ OpenSocket(p) \/ SocketFails(p)
  \/ ConnectFails(p) \/ ConnectSucceeds(p)
  \/ TestNext(p) \/ StepNext(p) \/ WriteNext(p) \/ BadAccess(p)

-----------------------------------------------------------------------------

Next == UserInput \/ CliStep \/ \E p \in Peer : ClientStep(p)

Spec == Init /\ [][Next]_vars

\* The kernel schedules both kinds of thread and connect(2) returns; the
\* user may stop typing.
FairSpec ==
  /\ Spec
  /\ WF_vars(CliStep)
  /\ \A p \in Peer : WF_vars(ClientStep(p))

-----------------------------------------------------------------------------
(* Properties.                                                             *)

Walking == {"c_find", "c_find_again", "d_walk", "d_unlink", "d_close",
            "d_free", "p_walk", "q_next", "q_free"}

Leaving == {"q_next", "q_free", "q_exit"}

\* No node in memory points to freed memory: DISCONNECT always removes the
\* last pointer to the node it frees, and neither a lost append nor a
\* pointer restored by current->next brings a freed node back.
NoDanglingNext ==
  \A n \in Node : mem[n] = "live" /\ next[n] # Null => mem[next[n]] = "live"

\* A next pointer always leads to a node appended later, whatever appends
\* and unlinks overlapped: the list has no cycle and every walk of
\* get_peer, add_peer and print_all_peers ends.
NextIsYounger == \A n \in Node : next[n] # Null => born[n] < born[next[n]]

\* The nodes a walk from the sentinel reaches: the least set that holds the
\* sentinel and is closed under next.
Listed ==
  {n \in Node : \A S \in SUBSET Node :
     /\ Head \in S
     /\ \A m \in S : next[m] = Null \/ next[m] \in S
     => n \in S}

\* Another client thread's append has taken a linked peer with the address
\* of the new one off the list.
AppendLost ==
  \E p \in Peer : /\ pc[p] = "linked" /\ mem[p] = "live"
                  /\ addr[p] = addr[node] /\ p \notin Listed

\* The CLI thread never follows a pointer to freed memory while it searches,
\* prints, unlinks or frees (get_peer, DISCONNECT, PEERS, QUIT).  It follows
\* NULL in one place only: when CONNECT's second get_peer no longer finds
\* what the first one has found, because an append was lost in between.
CliCursorLive ==
  cli \in Walking =>
    \/ cur # Null /\ mem[cur] = "live"
    \/ /\ cur = Null /\ process = "null_deref"
       /\ cli = "c_find_again" /\ AppendLost

\* CONNECT adds no second entry for an address on the list, and brings none
\* back: two entries of one address are there only when each CONNECT was
\* searching before the other one's thread had appended its node.
DuplicatesOverlap ==
  cli \notin Leaving =>
    \A p, q \in Listed \ {Head} :
      p # q /\ addr[p] = addr[q] => asked[p] < born[q]

\* The descriptor a peer holds, in connect_client's local or in its node.
Held(p) == IF sock[p] = 0 THEN fd[p] ELSE sock[p]

\* Descriptors and peers match one to one: nothing is open without a node
\* in memory that still knows it, no live peer holds a descriptor that
\* DISCONNECT closed for another one, and no two hold the same.
DescriptorsMatchPeers ==
  LET live == {p \in Peer : /\ mem[p] = "live"
                            /\ Held(p) # 0
                            /\ ~(cli = "d_free" /\ cur = p)}
  IN cli \notin Leaving =>
       /\ open = {Held(p) : p \in live}
       /\ \A p, q \in live : Held(p) = Held(q) => p = q

Quitting == process # "running" \/ cli \in Leaving

\* Used one command at a time, the list implements the atomic table: a
\* CONNECT adds one entry for an address that has none, a DISCONNECT
\* removes exactly that address, nothing else changes the table.
Registry == INSTANCE PeerRegistry WITH
  table <- IF Quitting THEN {}
           ELSE {<<addr[p], fd[p]>> : p \in Listed \ {Head}},
  up <- ~Quitting

ImplementsRegistry == Registry!Spec

\* A peer that add_peer linked stays reachable until DISCONNECT unlinks it.
ListTracksEveryPeer ==
  ~Quitting =>
    \A p \in Peer :
      /\ pc[p] = "linked"
      /\ mem[p] = "live"
      /\ ~(cli \in {"d_close", "d_free"} /\ cur = p)
      => p \in Listed

\* Used one command at a time, no thread touches freed memory or follows
\* NULL.  When commands overlap a client thread can do both (BadAccess), and
\* the CLI follows NULL where CliCursorLive says.
MemorySafe == process \notin {"use_after_free", "null_deref"}

\* Every command comes back to the prompt, or the process ends.
EveryCommandReturns ==
  cli # "prompt" ~> cli = "prompt" \/ process # "running"

SelfLocked == lock /\ cli \in {"c_lock", "d_lock", "p_lock"}

\* The mutex is given back by every way out of a command but one: PEERS on
\* an empty list comes back to the prompt with peers_mutex held.
OnlyAnEmptyListLeaks ==
  [][lock' /\ cli # "prompt" /\ cli' = "prompt"
       => cli = "p_lock" /\ cur = Null]_vars

\* A command that never comes back waits for the mutex that an earlier
\* PEERS on an empty list left locked; nothing else stops the CLI, neither
\* the client threads nor a list that changes under the walk.
OnlyTheLeakedLockStops ==
  cli # "prompt" ~> cli = "prompt" \/ process # "running" \/ SelfLocked

\* Every client thread ends: its node is linked or given back.
EveryThreadEnds ==
  \A p \in Peer :
    ~Settled(p) ~> pc[p] \in {"linked", "dropped"} \/ process # "running"
=============================================================================
