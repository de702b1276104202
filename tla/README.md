# btide and pkgmain in TLA+

Specifications, model checks and proofs for the P2P file transfer system in `src/`: the
BitTorrent-like client `btide` (`src/src/btide.c` and what it calls) and the package checker
`pkgmain` (`src/src/pkgmain.c`). Paths below leave out the leading `src/` of the repository
copy: `btide.c:57` is `src/src/btide.c`, line 57.

## 1. The system

| Part | Code | State it keeps | Operations |
| --- | --- | --- | --- |
| CLI thread | `btide.c` main, process_input | the locals of one command | CONNECT, DISCONNECT, PEERS, ADDPACKAGE, REMPACKAGE, PACKAGES, QUIT, end of input; FETCH is an empty branch |
| Client threads | `connection.c:20-73` | one node and one socket each | one detached thread per CONNECT: connect, then append to the list |
| Peer list | `peer.c` | a singly linked list with a sentinel, `peers_mutex` | get_peer, add_peer, the unlinking in process_input, free_peers |
| Package list | `package.c` | a list with a sentinel, `packages_mutex`, the data files on disk | add_package, remove_package, free_packages, print_all_packages, file_checker |
| Package object | `chk/pkgchk.c` | `bpkg_obj`: hashes, chunks, tree | bpkg_load, bpkg_obj_destroy |
| Merkle tree | `tree/merkletree.c` | an array of nodes in level order | initilise_tree over the data file |
| Queries | `chk/pkgchk.c:115-395` | a result of at most nchunks + nhashes strings, a queue | all_hashes, chunk_check, min_hashes, hashes_of, file_check |
| SHA-256 | `crypt/sha256.c` | a 64-byte buffer and eight words | init, update, finalize |
| Chunk loop | `tree/merkletree.c:107-194` | the mapped data file, one chunk, its leaf | hash every chunk in pieces of 1024 bytes |
| Configuration | `config.c` | directory, max_peers, port | parse_config; three validate functions that nobody calls |
| Server thread | `connection.c:35-39, 74-119` | a listening socket and an epoll descriptor | bind, listen, then wait for ever |
| Packet format | `include/net/packet.h` | none | included by no source file |

**How they interact.** The CLI thread runs one command at a time. CONNECT searches the peer list under
`peers_mutex`, gives the mutex back, and starts a thread that gets the list's sentinel, the new node
and *a copy* of the mutex (`btide.c:111-113`). That thread connects and appends its node, holding
nothing that the CLI ever waits for. So one list is searched, printed and unlinked from by the CLI
and appended to by any number of threads. The package commands run in the CLI thread alone; they
share files on disk between packages, since every package names its data file freely. `pkgmain` is
sequential: load, build the tree, answer one query, destroy.

main parses the configuration, hands a pointer *into* it to the server thread and runs the CLI; QUIT frees the configuration and ends
all threads, and so does any failure of the server thread. CLI, client threads and server thread share one descriptor table. initilise_tree
calls `sha256.c` for every chunk, with pieces of the mapped file.

**What is hard here.**

- Interleavings of client threads with each other and with each step of DISCONNECT, CONNECT, PEERS and QUIT
  on shared `next` pointers.
- A mutex that an early return leaves locked, and copies of mutexes.
- Failures half-way: socket, connect, pthread_create, a data file that cannot be opened or ends early, a
  `.bpkg` file whose fields stop parsing.
- What is stale when used: the duplicate check of CONNECT, the status of a package, a `current->next` read before
  it is stored.
- A pointer into the configuration that one thread frees, exits that end everybody, a socket that is closed twice.
- The 64-byte buffer of the hash under pieces of any size, padding at the end of a block, 32-bit sums of offsets and sizes.
- Index arithmetic of an array tree: off-by-one loops and buffers sized by other counts than those that fill them.

**What makes each part correct.** Peers: no dangling pointer, no cycle, every connected peer listed, one entry per
address, descriptors neither leaked nor shared, every command returns. Packages: the status tells the truth, everything
allocated is reachable and freed, a data file is damaged only by resizing. Tree and queries: each query answers
exactly the chunks its documentation promises, within its buffer. Loading: a good file is served, a bad file is
reported, nothing that was not stored is used. Hashing: what is compressed is the padded message, however it was cut; each leaf holds the hash of its
chunk; no read leaves the file. The process: the port that is bound is the one that was given, the server thread takes nothing from the peer list.

The hazards, one by one and at their lines, are in `PROJECT.json`.

## 2. Modules

| Module | What it is |
| --- | --- |
| `Peers` | the peer list, the CLI thread and the client threads; every read or write of a shared pointer is a step |
| `PeerRegistry` | what the list promises a user who waits for each command: an atomic table of connections |
| `PeersInv` | the inductive invariant of `Peers` |
| `PeersProofs` | its proof and the theorems that follow |
| `PeersSerialProofs` | serial use of the list: nothing is lost, memory is safe, and `PeerRegistry` is implemented |
| `Packages` | the package list, its allocations, its mutex and the data files |
| `PackagesProofs` | the theorems about `Packages` |
| `MerkleTree` | initilise_tree and the queries over it |
| `MerkleTreeProofs` | the theorems about `MerkleTree`, for trees of any depth |
| `BpkgLoad` | bpkg_load, initilise_tree's result, the query and bpkg_obj_destroy, by what is stored when |
| `BpkgLoadProofs` | theorems about `BpkgLoad` |
| `Sha256` | sha256_compute_data and the functions of `sha256.c`, with a caller that feeds any pieces |
| `Sha256Proofs` | the theorems about `Sha256` |
| `HashChunks` | the chunk loop of initilise_tree; extends `Sha256`, whose functions do the hashing |
| `HashChunksProofs` | the theorems about `HashChunks`; extends `Sha256Proofs`, whose invariant it keeps |
| `Btide` | the whole process: configuration, server thread, main and QUIT; extends `Peers`, whose threads run inside it |
| `BtideProofs` | the theorems about `Btide`; takes over `PeersProofs` under the refinement mapping |
| `MCPeers`, `MCPackages`, `MCMerkleTree`, `MCHashChunks`, `MCBtide` | the values that the runs give to constants, and symmetry |

Each module also holds a few *faulty forms*: an action or operator with one plausible slip, named after the
one it would replace. No specification uses them. Each property has one that it catches, which shows that the property
depends on the code.

### Peers

State: the CLI's position and its registers (`node`, `target`, `cur`, `prev`, `succ`: the locals of
process_input, get_peer, print_all_peers and free_peers), `lock` for peers_mutex, each thread's position `pc` with
`temp` and `sock`, the fields of every node (`addr`, `next`, `fd`) with its memory state `mem`, and the kernel's
open descriptors. `clock`, `born` and `asked` are history: in which order nodes were appended, and how many had been
when CONNECT began to search for each one's address.

| Code | Actions |
| --- | --- |
| CONNECT, `btide.c:69-123` | Connect, ConnectLock, FindPeer (first get_peer), FindPeerAgain (second, dereferenced), CreateThread |
| DISCONNECT, `btide.c:124-158` | Disconnect, DisconnectLock, DisconnectWalk, DisconnectUnlink, DisconnectClose, DisconnectFree |
| PEERS, `btide.c:47-64, 242` | ListPeers, ListLock, ListWalk |
| QUIT and end of input, `btide.c:301-316`, `peer.c:60-68` | Quit, QuitNext, QuitFree, QuitExit, Eof |
| connect_client, `connection.c:41-73` | OpenSocket, SocketFails, ConnectFails, ConnectSucceeds |
| add_peer, `peer.c:48-58` | TestNext, StepNext (the loop reads `temp->next` twice), WriteNext, BadAccess |

Unlinking reads `current->next` when DISCONNECT finds the node and writes `prev->next` in a later step, because an append can
fall between the two. The Makefile builds with `-fsanitize=address`, so a thread that touches a freed node ends the process
(BadAccess), and memory is not handed out twice. A CONNECT whose arguments do not parse carries on with whatever
its locals hold (`btide.c:74-76`): Connect takes any address.

FindPeerAgain can end the process with a NULL dereference (`btide.c:93`): nothing unlinks a node between the two calls of get_peer, but a thread
that had walked to the same tail may overwrite the link to it. CliCursorLive says that this is the only place and a lost append the only reason;
everywhere else the CLI's cursor is in memory. DuplicatesOverlap says what the stale duplicate check (`btide.c:92`) can still be relied on for: two entries of one address
mean that each CONNECT was searching before the other's thread had appended.

### Packages

State: the list as a sequence of objects, each with its path, what its tree was built from and which of its two trees it
holds; the allocations behind each object; the contents of the data files; packages_mutex. `checked` and `rebuilt` are history: which object file_checker last
resized each path for, and which objects got a second tree. ADDPACKAGE is four steps:

| Code | Action |
| --- | --- |
| bpkg_load, `btide.c:209` | AddLoad: the object, and a first tree over the file named in the package, relative to the working directory, if initilise_tree can map it |
| file_checker, `btide.c:217-221`, `pkgchk.c:415-433` | AddResize: the path in the configured directory; open and ftruncate create or resize the file, or one of them fails and is ignored |
| initilise_tree, `btide.c:222` | AddBuild: a second tree over that file, or none when open, fstat or mmap fails, whatever file_checker did |
| add_package, `package.c:19-50` | AddAppend: compares the root hashes of whatever tree the object has, and appends; without a tree it follows a pointer that was never stored |

So a package may be listed with the status of its data file, of that file in a size it should not have, or, when no second tree could be built, of another file
altogether. `Compared` names the file that a package was compared with, and StatusOfLastCheck says that the status is that of this file, for every mix of failures. It
does not say that the data file is there: a package can be COMPLETED after a copy in the working directory although its data file could not be created.

`file_path` and `data_file` are appended to before they are initialised (`btide.c:200, 217`):
the path is the right one, or one of a stray name, or the process ends (Stop). File contents are sequences of blocks, one per
chunk; ftruncate pads with zeros or cuts.

### MerkleTree

A package describes data `truth`; the file holds any blocks, fewer or more. The tree is the array of the code with its index
arithmetic: rows from concatenateNodes, joined in level order, children at 2k + 1 and 2k + 2, leaves at nhashes + i. Rows, the traversal
(Inorder) and the loop over the chunks (Picked) are recursive functions. Hashes are symbolic and do not collide. The queue loop of -min_hashes is one step per turn; the other queries are one step. Leaves past the end of
a short file are never written: they hold blank hashes and no leaf flag, or, as strcpy may find no terminator, the
process ends. In the default build the sanitizer fills only the first 4096 bytes of an allocation, so both happen.

### BpkgLoad

arg_select picks the query (ArgSelect) or ends the run (ArgMissing). The counts and numbers of lines of a `.bpkg` file are free, up to MaxHashes and MaxChunks. The model follows which
fields of the object have been stored: the reads of bpkg_load consume words of the file (two for a chunk line, whose hash fills the width of `%64s`), so a wrong nhashes makes `nchunks:%u`
fail, and every early return destroys an object whose later fields hold what malloc left. The outcomes
of counts that disagree were also observed in the program: nhashes below nchunks - 1 overruns the tree
(`merkletree.c:211`), above nchunks the chunks (`merkletree.c:225`), and nhashes = nchunks is loaded and answered, wrongly
for -chunk_check and with a crash for -hashes_of. -file_check (FileCheck) creates a data file that is not there, or closes NULL when it cannot.

### Sha256

State: the fields of sha256_compute_data (`data_size`, `last_chunk`, `chunk_size`, and `hcomps` as the sequence of blocks compressed so far), the input left to
sha256_update (`ptr`, `size`), the position `step`; `start` and `fed` are history: the message is the `fed` bytes from address `start`. A byte of a message is its address, so that a byte
compressed twice, skipped or taken from a stale buffer shows.

| Code | Actions |
| --- | --- |
| sha256_compute_data_init, `sha256.c:47-60` | ComputeDataInit; last_chunk keeps what it held |
| sha256_update, `sha256.c:134-162` | Update (the call), FillChunk (tmp_chunk), WholeChunk (one turn of the loop), KeepTail (the rest waits) |
| sha256_finalize, `sha256.c:166-193` | FinalizeMark (end mark, zeros, perhaps a block), FinalizeLength (length and last block) |
| sha256_output_hex, `sha256.c:196-224` | Output |

BLOCK is 64 in the code and LEN is 8. The reference is Padded, the padding of FIPS 180-4 written without a buffer.

### HashChunks

One action per stage of the loop: OpenData, StopAtChunk ("Chunk offset and size exceed file size"), StartChunk, ReadPiece, FinishChunk, Hashing (the functions of Sha256 run),
StoreLeaf with the break behind the last chunk. `End(k)` is the 32-bit sum of offset and size. A read past the end of the mapping may crash or may
find other memory (Touch).

### Btide

`Btide` extends `Peers`: its actions are those of Peers, run only once main has started (`main = "run"`), next to its own.

| Code | Actions |
| --- | --- |
| parse_config, `config.c:20-74` | ParseLine (key and number), ParseFails (no file, a bad line, an unknown key), ParseEnd (all three keys, or exit) |
| main, `btide.c:258-274, 315` | CreateServer (its pthread_create may fail unnoticed), FreeConfig before QuitExit |
| create_server_thread, `connection.c:35-39` | ReadPort, through the pointer into config |
| server, `connection.c:74-119` | ServerSocket, Bind, Listen, Watch, CloseListener, CloseListenerAgain, EpollWait, ServerFails (every failure that exits) |
| the kernel (external) | RemoteConnects: a connection joins the queue of the listening socket |

`PeersAmongTheRest` is a refinement: with the listening socket taken out of `open`, and a process that the other parts ended seen as one whose threads do not run any more, every
step of the whole process is a step of Peers or leaves Peers alone, with one exception that the
property names: after epoll_ctl has failed the socket is closed twice (`connection.c:112-113`), and the second close can hit a
descriptor that a client thread was given in between. Before and after that close the process goes on as Peers. DescriptorsAccounted says how far the damage goes: from then on
the table may be wrong for that one descriptor (`Stray`), and for no other, ever. `Wild` is a port that nobody stored; the numbers that atoi returns may be negative and are cut to 16 bits like the others.

## 3. Runs

| Run | Question | Instance |
| --- | --- | --- |
| `peers` | What stays true of the list although add_peer takes no lock the CLI takes: NoDanglingNext, NextIsYounger, CliCursorLive, DuplicatesOverlap, DescriptorsMatchPeers, the whole inductive invariant (TypeOK is a part of it), and OnlyAnEmptyListLeaks | 3 overlapping CONNECTs, 2 addresses, 3 descriptors; 1.64 million states |
| `peers_serial` | With a user who waits for each CONNECT to finish: nothing is lost, memory is safe, and the list implements PeerRegistry | 4 CONNECTs, 2 addresses, 2 descriptors; 81 thousand states |
| `packages` | StatusOfLastCheck, EveryPartAccounted, OnlyResizingDamages; and every command returns, or waits for the leaked mutex (OnlyTheLeakedLockStops) | 2 packages of 1 and 2 chunks that name one file, idents with a common prefix, three additions, any initial file; 980 thousand states |
| `merkle` | What each query answers, exactly, that it fits its buffer and that it ends (OutputFits, LoopCovers, MinHashesExact, ChunkCheckExact, HashesOfExact, QueriesEnd) | 4 chunks, 2 block values, files of 1 to 5 blocks; 17.7 thousand states |
| `bpkg_load` | Loading, querying and destroying any file, with any arguments: TypeOK, GoodPackageServed, and what the exit status tells of bad files (OnlyLoadedServed) | counts up to 3 and 4, every mix of lines, data and query; 146 thousand states |
| `sha256` | That no piece overflows a buffer (BufferFits), that every byte is compressed or waits, once and in its place (StreamExact), and that the digest is that of the padded message (DigestExact) | blocks of 8 bytes, length field of 2, messages of 0 to 34 bytes at two addresses, every way to cut them; 439 thousand states |
| `hash_chunks` | What a leaf holds (LeavesExact), which leaves are written (TiledLeavesWritten), which reads leave the file (OnlyWrappedSumsEscape) | two chunks with any of 36 offsets and sizes, four chunks that follow one another, two that do so past the 32 bits, files of 0 to 9 and of 17 bytes or none, numbers of 4 bits; 162 thousand states |
| `btide` | The port (BindsGivenPort), the freed config (OnlyAnEarlyQuitCrashes), the descriptor table (DescriptorsAccounted), the queue of connections (InboundEverBounded), that btide refines Peers (PeersAmongTheRest); and every command returns or waits for the leaked mutex (OnlyTheLeakedLockStops), and every client thread ends (EveryThreadEnds) | 2 CONNECTs to one address, 2 descriptors, 4 config lines, a port of more than 16 bits (here 3) and a negative one, backlog 0; 304 thousand states |

**Why the bounds are enough.** Three peers are the fewest with a head, a middle and a tail, so that DISCONNECT unlinks each kind of
node while two appends are under way; the properties of `peers` are also proved without bounds. `peers_serial` sees no overlapping commands by construction: what overlap can do is in `peers`, `peers_lost` and `btide`. Four serial CONNECTs
let a list of two be refilled after removals. Two descriptors for three or four peers make sockets run out. Packages of two sizes that share
a file are what resizing needs, a third addition comes after both, and a common prefix is what the search needs; with one file name the part of OnlyResizingDamages that is about names holds at once, and the theorem covers several. A tree of depth two has a root, inner nodes and leaves; two block values
give packages with equal chunks and equal subtrees; files reach from one block to one too many. Counts to 3 and 4 contain every power of two up to 4,
zero, and every way for the two counts to disagree. A block of 8 bytes with a length field of 2 has every boundary of 64 and 8: the mark fits, just fits or does not, and
pieces are empty, end a block or pass several; nothing in the code depends on the numbers but through `BLOCK - LEN`. Numbers of 4 bits wrap as numbers of 32 do, and pieces of 4 bytes are one, two or none per chunk.
Two descriptors are the fewest that the server's socket and a client's can be exchanged in; four lines hold every order of three keys and one that comes twice. A backlog of 0 fills up at the first connection.

**Symmetry** is used for peers and addresses, and for blocks in `merkle_partial`, in safety runs only.

**Fairness.** `Peers!FairSpec` and `Btide!BtideFairSpec` ask weak fairness of the CLI thread after a command was typed and of each client thread: the kernel
schedules them, and connect(2) returns with success or an error. Nothing is asked of the server thread, whose epoll_wait may wait for ever, or of main's start-up. Nothing obliges the user to type. `Packages!FairSpec` is the same for
the CLI. `MerkleTree!FairSpec` says that a started program runs on. Deadlock checking is off where the system may stop: a user
types nothing more, the process has ended, or the CLI waits for its own mutex.

### Disagreements with the documents

Each is a run that TLC ends with a counterexample; the quotations are in `PROJECT.json`.

| Run | What the counterexample shows |
| --- | --- |
| `peers_hang` | PEERS with an empty list returns with peers_mutex locked (`btide.c:51-54`); the next CONNECT, DISCONNECT or PEERS never returns |
| `peers_lost` | Two client threads append at the same tail (`peer.c:57`): a connected peer is in no list |
| `merkle_partial` | A short data file: -min_hashes answers a blank hash for a chunk that is not there |
| `merkle_half` | A file complete up to its middle: -min_hashes answers the one hash of that half, as `pkgchk.c:224` says it should, where `pkgchk.h:94-96` promises N_CHUNKS/2 + 1 |

`merkle_partial` was reproduced with the program, built as the Makefile says. The models show
more of the same kind, for which there is no run of their own:

- Two CONNECTs to one address both pass the check (`btide.c:92`, "Already connected to peer") before either is linked; the model allows it, DuplicatesOverlap shows that only such an overlap does it, and ImplementsRegistry that a user who waits is safe.
- A lost append between the two get_peer calls of CONNECT ends in a NULL dereference (`btide.c:93`, FindPeerAgain); CliCursorLive shows that nothing else does.
- A package whose data file could not be created or resized is listed all the same, with the status of whatever tree it has (`btide.c:221-222`, `pkgchk.c:426-432`); StatusOfLastCheck names the file that status is about.
- The second close of a failed epoll set-up (`connection.c:113`) can take a client thread's descriptor; DescriptorsAccounted shows that it takes no more than that one.
- ADDPACKAGE builds a second tree over the only pointer to the first (`merkletree.c:193`), although `pkgchk.h:128-129` asks for complete deallocation; EveryPartAccounted names that tree as the one part that nothing reaches.
- A file that does not parse aborts in bpkg_obj_destroy before main can print "Unable to load pkg and tree" (`testing/test_report.md:34`): Destroy in BpkgLoad, reproduced with the program.
- A chunk whose offset and size wrap around 32 bits passes the check at `merkletree.c:137`; OnlyWrappedSumsEscape shows that no other chunk leads past the end of the file.
- QUIT frees the config under a server thread that has not yet read its port (`btide.c:315`, `connection.c:36`); OnlyAnEarlyQuitCrashes shows that this is the only way.
- Nothing accepts connections, so a btide can be connected to `backlog + 1` times in its life (InboundEverBounded), although `max_peers` is asked for in its configuration.
- PACKAGES with an empty list keeps packages_mutex (`btide.c:34`), the twin of `peers_hang`; OnlyTheLeakedLockStops names it as the one way a package command stops.
- When socket fails, connect_client frees the node (`connection.c:48`) and its caller frees it again (SocketFails).
- bpkg_load never compares nchunks with nhashes (`pkgchk.c:79`), although `testing/test_report.md:63` expects files that disagree to be refused.
- Over a short data file -hashes_of with the root's hash leaves out the chunks past the end, although `pkgchk.h:107` says all are answered (128 of 256 in a run of the program).

## 4. Proofs

`tlapm` checks every theorem from named facts; nothing is assumed but the ASSUMEs of the modules.

**Peers** (`PeersInv`, `PeersProofs`; assumption PeersAssumption: the sentinel, NULL and the sentinel's address are distinct from what the user and malloc
give, descriptors are positive). For any sets of peers, addresses and descriptors and any interleaving:

- `TypeCorrect`, `ListNeverDangles` (NoDanglingNext), `ListNeverCycles` (NextIsYounger), `CliNeverTouchesFreed`
  (CliCursorLive), `DuplicatesNeedOverlap` (DuplicatesOverlap), `DescriptorsNeverLeak` (DescriptorsMatchPeers), `LockLeaksOnce` (the action property OnlyAnEmptyListLeaks); all from `InvAlways`.

None of these is inductive. The natural argument, "DISCONNECT removes the only path to the node", speaks of reachability, which two
overlapping appends destroy, and which is not a local fact. `Inv` replaces it by local ones. *OnePredecessor*: two nodes in memory never share a successor, except
the node about to be freed; so the write of `prev->next` removes the last pointer to `current`. This survives a lost append, because the append overwrites a pointer to another young node and
never duplicates one, and an append behind a node about to be freed dies with it. *AgesOrdered*: pointers lead from older to younger nodes, where a node's age is the moment it was appended; so there
is no cycle, and `prev` is not reached again. *PointersLinked* and *NodesOwned*: before its append a node is known to its thread alone, so WriteNext makes the first pointer to it. *RegistersLive* and
*SentinelStays*: only the CLI frees linked nodes, so its own registers stay valid; the sentinel's address cannot be named, so DISCONNECT never frees it. *DescriptorsByStage* and
*Matched*: who knows which descriptor, said of one at a time, so that Btide can keep it for all but one. *MutexHeld*: where the lock is held. *Found*: the peer that the first get_peer found is ahead of the second one's cursor or lost. *SearchSound*: a peer that was appended before CONNECT began to search is
behind the cursor of the search, and once the search has found none it is off the list for good (*Gone*), also where DISCONNECT is about to write a successor it read earlier. The proof has one lemma per conjunct, with one step per action, and `InvStep` combines them.

**Loading** (`BpkgLoadProofs`; assumption: the bounds are natural numbers). For any counts: `LoadTypeCorrect` (ReadHashes stops one element after the last word),
`ExitTellsOfLoading` (OnlyLoadedServed) and `GoodPackagesAreServed` (GoodPackageServed). The invariant `LoadInv` adds to the types what has been stored at each field (*Stages*), that
a well-formed package never leaves the good path (*GoodStages*), and that the tree, stored last and only built for counts that agree, decides what can be destroyed (*Ends*).

**SHA-256** (`Sha256Proofs`; assumption Sha256Assumption: LEN < BLOCK, natural numbers). For every size of a block and of its length field, every length of a message and every cut of it,
with no bound on MaxSize: `ShaTypeCorrect`, `BuffersNeverOverflow` (BufferFits), `StreamsAreExact` (StreamExact) and `DigestsAreExact` (DigestExact); all from `ShaInvAlways`. StreamExact speaks
only of the moments between two calls and DigestExact only of the last, so `ShaInv` says what holds on the way: *Counted* (what is compressed, what waits and what is left of the input make up the bytes
that were fed, and `ptr` is behind the first two), *Compressed* and *Waiting* (the bytes themselves) while a message is fed, and *PaddedToLength* between the mark and the length. The arithmetic
is in `BlocksOf` (how many blocks a message of n whole blocks and c bytes is padded to) and `BlockInside`; `MarkStep` has the two cases of sha256_finalize, `LengthStep` the last block.

**Serial use of the list** (`PeersSerialProofs`; the theorems read `OneAtATime => (Spec => ...)`: the user waits for each CONNECT's thread). `NoPeerLost` (ListTracksEveryPeer),
`SerialUseIsMemorySafe` (MemorySafe) and `SerialUseIsARegistry` (ImplementsRegistry), all from `SerialInvAlways`. Here reachability can be spoken of. `From(f, c)`, the nodes a walk along f from c reaches, is a
least closed set, so no recursion is needed; FromAppend and FromUnlink say what one write of a pointer does to it. `SerialInv` adds to `Inv` who is at work (*Alone*), that add_peer's
cursor is in the list and what it read of `temp->next` still holds (*Appending*), what get_peer has looked at already (*Searched*), and that DISCONNECT's `prev`, `current` and `next_node` still
stand one behind the other (*Unlinking*); from these every connected peer stays listed (*Tracked*). The refinement maps the list to the set of its (address, descriptor) pairs (`Connections`): WriteNext is the registry's connect,
unlinking the node in DISCONNECT its disconnect, and every other step stutters.

**The whole process** (`BtideProofs`; assumption BtideAssumption). For any configuration, backlog and number of peers: `BtideTypeCorrect`, `GivenPortIsBound` (BindsGivenPort), `CrashNeedsEarlyQuit` (OnlyAnEarlyQuitCrashes),
`InboundBounded` (InboundEverBounded), `DescriptorsShared` (DescriptorsAccounted) and `ProcessImplementsPeers` (PeersAmongTheRest), from `BtideInvAlways`. `PeersProofs` is instantiated with
the listening socket taken out of `open`; the conjunct *Shared* is its invariant under that mapping: all of `Inv` until a failed epoll set-up closes the socket a second time, and from then on
what does not speak of descriptors (`ListInv`) with *Matched* for every descriptor but the stray one. A step of the CLI
or of a client thread is a step of Peers that gets its descriptor from what the listener left; a step of main or of the server thread changes nothing that Peers sees. The other conjuncts follow
the port from the last line that gives it to bind (*PortRead*), say that only QUIT frees the config (*FreedAtTheEnd*), and that what connected is still in the queue (*NobodyAccepts*).
That no node the list still names shares a descriptor with the listener had to be said in `Inv` (*SocketsOwn*): during QUIT the nodes go before their descriptors do.

**The package list** (`PackagesProofs`; assumptions PackagesAssumption and NoPackageAssumption: a NULL pointer is no object). For any packages, files, queries and any number of additions:
`PackagesTypeCorrect`, `StatusIsOfTheFile` (StatusOfLastCheck), `OnlyFirstTreesLeak` (EveryPartAccounted) and `OnlyAddPackageDamages` (the action property OnlyResizingDamages), from `PackagesInvAlways`.
StatusOfLastCheck is about listed packages, but goes wrong where one is added: *Numbered* (objects are numbered as they are made, so nothing listed was made after the one being added), *BuiltTree* (whichever tree the new object has
is complete just when the file it was built over begins with the data, TreeComplete) and *Building* (who owns the parts of an object that is not listed yet) carry it over the four steps of ADDPACKAGE; *PartsListed* and *PartsReached* are the two directions
of EveryPartAccounted: what is listed is allocated, and what is allocated is listed, being built or the first tree of an object that got a second one.

**The chunk loop** (`HashChunksProofs`; assumptions HashChunksAssumption and Sha256Assumption). For any table of chunks, any file, any read size and any width of numbers: `LeavesAreExact` (LeavesExact), `ReadsStayInFile` (OnlyWrappedSumsEscape) and `LeavesOfFileWritten`
(TiledLeavesWritten), from `LoopInvAlways`. `LoopInv` contains the invariant of Sha256: its steps are stated in `Sha256Proofs` for any caller, so the loop's Hashing needs no second proof. *Reading* says that what was fed and what remains make up the chunk, *Storing* that
at the end all of it was fed, *CrashedInWrap* that only a wrapped sum gets past the check, *WrittenBehind* which leaves the loop has left behind. The lemma TiledOrder (of chunks that follow one another each ends where or before the next begins) is an induction over the table. The proof showed that
TiledLeavesWritten as first stated was wrong for tables whose sums pass the width of a number; Tiled now says that they do not, and the instance has such a table.

**The tree and its queries** (`MerkleTreeProofs`; assumption MerkleTreeAssumption: Depth and MaxFile are natural numbers, an empty string is no hash, NULL is no node). For trees of any depth, any package and any data file: `MerkleTypeCorrect`, `OutputAlwaysFits` (OutputFits),
`LoopAlwaysCovers` (LoopCovers) and `MinHashesAreExact` (MinHashesExact), both for files that reach the last chunk (`Whole`), `ChunkCheckIsExact` (ChunkCheckExact), all from `MerkleInvAlways`, and `HashesOfIsExact` (HashesOfExact, for such files too) from NoPairIsABlock: no chunk's hash is that of two concatenated hashes, which is
the part of "SHA-256 does not collide" that the constants do not say by themselves. The proof has three layers.

- *Index arithmetic.* Powers of two from the number of subsets of a set (PowerStep), the row of an index (NodeRow, RowIs), division by the width of a row (DivDouble). What is left of it is about a node and its children: all chunks are below the root (BelowRoot),
  those below a node are shared out between 2k + 1 and 2k + 2 (BelowInner), one is below each leaf (BelowLeaf), and of two nodes over one chunk one is above the parent of the other (Laminar).
- *Recursion.* That the rows, the traversal and the picked chunks exist and satisfy their equations (LevelsAre, InorderIs, PickedIs), then by induction over the tree (Upwards) that a node has the hash expected just when its chunks are complete (MatchingIsComplete), and that the traversal answers the chunks below, in order (InorderRun), which
  are the same for nodes of the same hash (SameHashSameLeaves).
- *The loop.* `MerkleInv` says that no chunk is below two nodes that are answered or queued (*Apart*), that every completed chunk is below one (*Covered*), that only nodes whose parent is incomplete get there (*Topmost*), and that one hash is answered for each node (*Counted*). Apart holds over short files
  too, where NULL gets into the queue, and bounds the answer: each answered node has a chunk of its own (FoundFew).

**Induction.** The provers cannot instantiate the library's induction rules, whose parameter is an operator. `HashChunksProofs` and `MerkleTreeProofs` therefore say it with sets: a set of numbers that is not empty has a least element (Least, from the well-founded order of the library), so one that holds 0 and each successor holds them all (Induct).
The existence of a recursive function is proved the same way.

**Only model-checked.** Liveness under fairness is out of the prover's reach: OnlyTheLeakedLockStops, EveryThreadEnds and QueriesEnd. Every other property of a passing run is a theorem.

## 5. What is abstracted

- malloc never fails; perror, printf and prompts are left out.
- Peers: reading or writing one pointer or one field is atomic. Printing an address (PEERS) reads fields no one writes after linking.
- Packages: `made` counts loads up to MaxAdds. A `.bpkg` file in the list is well formed; one that is not ends the process or changes nothing, and BpkgLoad has the detail.
- MerkleTree: chunks are whole blocks in order, and the hash of a block is the block: HashChunks shows what leaves such chunks get. SHA-256 does not collide.
- BpkgLoad: ident and filename are as long as their fields allow, and their contents are left out.
- Sha256: the rounds of a block are symbolic. Sizes stay within 32 bits, as both callers pass at most 1024 bytes at a time.
- HashChunks: the order of the leaves' rows and the tree above them is MerkleTree's.
- Btide: the epoll descriptor takes no descriptor from the others. Lines of the configuration are shorter than 256 characters. The wrong number of arguments ends main before anything starts.

## 6. Not modelled

- The three validate functions of `config.c` are called by nobody; `include/net/packet.h` is included by nobody and does not compile; FETCH is an empty branch (`btide.c:243`). There is no behaviour to model.
- The arithmetic of a SHA-256 block (`sha256.c:64-130`) is one symbolic step: bit operations on 32-bit words are a matter for test vectors.
- `resources/getting_started` holds example programs that no target builds into btide or pkgmain; tests, scripts and the Makefile hold no state.

## 7. Plan

1. What of the liveness properties is a safety property can be proved: that a turn of the -min_hashes loop decreases a measure, for QueriesEnd; that packages_mutex and peers_mutex are held only at the positions where a step of the CLI is enabled, for OnlyTheLeakedLockStops.
2. `MerkleTree` and `HashChunks` meet in what a leaf holds. A module that takes the leaves of MerkleTree from the loop of HashChunks could be shown to implement MerkleTree's InitiliseTree.
