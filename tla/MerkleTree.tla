----------------------------- MODULE MerkleTree -----------------------------
(***************************************************************************)
(* The tree that initilise_tree builds over a data file, and the queries   *)
(* pkgmain answers from it.                                                *)
(*                                                                         *)
(* A package is consistent: its hashes are those of the data "truth", one  *)
(* block per chunk, nchunks a power of two and nhashes one less.  The data *)
(* file holds any blocks, fewer or more than the package describes.        *)
(* SHA-256 is taken not to collide: the hash of a block is the block, the  *)
(* hash of two concatenated hashes is the pair.                            *)
(***************************************************************************)
EXTENDS Integers, Sequences, FiniteSets

CONSTANTS
  Depth,    \* log2(nchunks)
  Block,    \* what a chunk's bytes may be
  MaxFile,  \* bound on the data file, in chunks
  Blank,    \* the hash field of a leaf nobody wrote: an empty string
  Null,     \* the NULL pointer
  NoHash    \* no query, or a hash no package has

nchunks == 2 ^ Depth
nhashes == nchunks - 1
Chunk == 0 .. nchunks - 1
Node == 0 .. nchunks + nhashes - 1  \* the tree array, in level order

ASSUME MerkleTreeAssumption ==
  /\ Depth \in Nat
  /\ MaxFile \in Nat
  /\ Blank \notin Block /\ NoHash \notin Block
  /\ Null \notin Node

VARIABLES
  process,   \* "running" or "crashed"
  step,      \* "load", "ready", "min", "done"
  truth,     \* the data the package describes
  file,      \* the data file
  computed,  \* merkle_tree_node.computed_hash
  queue,     \* the breadth-first queue of bpkg_get_min_completed_hashes
  out,       \* qry.hashes
  found,     \* history: the nodes behind out
  asked      \* the query that was answered

inputs == <<truth, file>>
vars == <<process, step, inputs, computed, queue, out, found, asked>>

-----------------------------------------------------------------------------
(* The tree.                                                               *)

Hash(left, right) == <<left, right>>

\* Faulty form of Levels: a hash of the left child's hash alone, twice.
LevelsLeftTwice(leaves) ==
  LET row[i \in 0 .. Depth] ==
        IF i = Depth THEN leaves
        ELSE [j \in 0 .. 2 ^ i - 1 |->
                Hash(row[i + 1][2 * j], row[i + 1][2 * j])]
  IN row

\* concatenateNodes: row i of "levels" from row i + 1, the last row given.
Levels(leaves) ==
  LET row[i \in 0 .. Depth] ==
        IF i = Depth THEN leaves
        ELSE [j \in 0 .. 2 ^ i - 1 |->
                Hash(row[i + 1][2 * j], row[i + 1][2 * j + 1])]
  IN row

RowOf(k) == CHOOSE i \in 0 .. Depth : 2 ^ i - 1 <= k /\ k < 2 ^ (i + 1) - 1

\* join_merkle_tree_node_arrays: the rows one after the other.
Joined(levels) ==
  [k \in Node |-> levels[RowOf(k)][k - (2 ^ RowOf(k) - 1)]]

left(k) == 2 * k + 1
right(k) == 2 * k + 2

\* The chunk loop of initilise_tree stops at the end of the file.
Written(i) == i < Len(file)

LeafHashes == [i \in Chunk |-> IF Written(i) THEN file[i + 1] ELSE Blank]

\* join copies nhashes hashes to the inner nodes and nhashes chunk hashes to
\* the leaves, so the last leaf keeps what the chunk loop gave it.
expected_hash ==
  LET described == Joined(Levels(truth)) IN
  [k \in Node |-> IF k = nhashes + nchunks - 1 /\ ~Written(nchunks - 1)
                  THEN Blank ELSE described[k]]

IsLeaf(k) == k >= nhashes /\ Written(k - nhashes)

Matching(k) == computed[k] = expected_hash[k]

\* Faulty form of Inorder: the right child first.
InorderReversed ==
  LET visit[k \in Node] ==
        IF k >= nhashes
        THEN IF IsLeaf(k) THEN <<expected_hash[k]>> ELSE <<>>
        ELSE visit[right(k)] \o visit[left(k)]
  IN visit

\* inorder_traversal_tree below node k: a leaf nobody wrote is no leaf.
Inorder ==
  LET visit[k \in Node] ==
        IF k >= nhashes
        THEN IF IsLeaf(k) THEN <<expected_hash[k]>> ELSE <<>>
        ELSE visit[left(k)] \o visit[right(k)]
  IN visit

-----------------------------------------------------------------------------

Init ==
  /\ process = "running"
  /\ step = "load"
  /\ truth \in [Chunk -> Block]
  /\ file \in UNION {[1 .. n -> Block] : n \in 1 .. MaxFile}
  /\ computed = [k \in Node |-> Blank]
  /\ queue = <<>> /\ out = <<>> /\ found = {}
  /\ asked = <<"nothing", NoHash>>

At(s) == process = "running" /\ step = s

\* initilise_tree.  Over leaves nobody wrote, strcpy copies what malloc left
\* there: it runs off its buffer, or finds an empty string.
InitiliseTree ==
  /\ At("load")
  /\ computed' = Joined(Levels(LeafHashes))
  /\ process' \in IF Written(nchunks - 1) THEN {"running"}
                                          ELSE {"running", "crashed"}
  /\ step' = "ready"
  /\ UNCHANGED <<inputs, queue, out, found, asked>>

Answer(query, hashes) ==
  /\ At("ready")
  /\ out' = hashes
  /\ asked' = query
  /\ step' = "done"
  /\ UNCHANGED <<process, inputs, computed, queue, found>>

\* The hashes of the chunks that pass, in one loop over the chunks.
Picked(test) ==
  LET upto[n \in 0 .. nchunks] ==
        IF n = 0 THEN <<>>
        ELSE IF test[n - 1] THEN Append(upto[n - 1], truth[n - 1])
        ELSE upto[n - 1]
  IN upto[nchunks]

\* -all_hashes: bpkg_get_all_hashes, the hashes and then the chunks.
AllHashes ==
  Answer(<<"all_hashes", NoHash>>,
         [n \in 1 .. nhashes + nchunks |-> Joined(Levels(truth))[n - 1]])

\* Faulty form of ChunkCheck: the leaves are taken to start one node early.
ChunkCheckEarly ==
  Answer(<<"chunk_check", NoHash>>,
         Picked([i \in Chunk |-> truth[i] = computed[nhashes + i - 1]]))

\* -chunk_check: bpkg_get_completed_chunks.
ChunkCheck ==
  Answer(<<"chunk_check", NoHash>>,
         Picked([i \in Chunk |-> truth[i] = computed[nhashes + i]]))

\* -hashes_of h: the leaves below the first node in the array that is
\* expected to have that hash.
HashesOf(h) ==
  LET matches == {k \in Node : expected_hash[k] = h}
      first == CHOOSE k \in matches : \A m \in matches : k <= m
  IN Answer(<<"hashes_of", h>>, IF matches = {} THEN <<>> ELSE Inorder[first])

\* The queue of -min_hashes, a linked list whose tail enqueue looks for.
enqueue(q, k) == Append(q, k)
dequeue(q) == Tail(q)

\* -min_hashes: bpkg_get_min_completed_hashes.
MinStart ==
  /\ At("ready")
  /\ queue' = enqueue(<<>>, 0)
  /\ asked' = <<"min_hashes", NoHash>>
  /\ step' = "min"
  /\ UNCHANGED <<process, inputs, computed, out, found>>

\* Faulty forms of MinVisit: it goes below leaves; it goes below nodes it has
\* answered; it forgets the right child; it leaves a leaf in the queue.
VisitedAs(rest(_)) ==
  /\ At("min")
  /\ queue # <<>> /\ Head(queue) # Null
  /\ queue' = rest(Head(queue))
  /\ IF Matching(Head(queue))
     THEN /\ out' = Append(out, expected_hash[Head(queue)])
          /\ found' = found \cup {Head(queue)}
     ELSE UNCHANGED <<out, found>>
  /\ UNCHANGED <<process, step, inputs, computed, asked>>

MinVisitBelowLeaves ==
  LET rest(k) == Tail(queue) \o (IF Matching(k) THEN <<>>
                                 ELSE <<left(k), right(k)>>)
  IN VisitedAs(rest)

MinVisitBelowAnswers ==
  LET rest(k) == Tail(queue) \o (IF k >= nhashes THEN <<>>
                                 ELSE <<left(k), right(k)>>)
  IN VisitedAs(rest)

MinVisitLeftOnly ==
  LET rest(k) == Tail(queue) \o (IF k >= nhashes \/ Matching(k) THEN <<>>
                                 ELSE <<left(k)>>)
  IN VisitedAs(rest)

MinVisitKeepsLeaf ==
  LET rest(k) == IF Matching(k) THEN Tail(queue)
                 ELSE IF k >= nhashes THEN queue
                 ELSE Tail(queue) \o <<left(k), right(k)>>
  IN VisitedAs(rest)

\* One turn of the loop; a leaf nobody wrote passes for an inner node whose
\* children are NULL.
MinVisit ==
  /\ At("min")
  /\ queue # <<>> /\ Head(queue) # Null
  /\ LET k == Head(queue)
         rest == dequeue(queue)
         child(c) == IF k < nhashes THEN c ELSE Null
     IN \/ /\ Matching(k)
           /\ out' = Append(out, expected_hash[k])
           /\ found' = found \cup {k}
           /\ queue' = rest
        \/ /\ ~Matching(k) /\ IsLeaf(k)
           /\ queue' = rest
           /\ UNCHANGED <<out, found>>
        \/ /\ ~Matching(k) /\ ~IsLeaf(k)
           /\ queue' = enqueue(enqueue(rest, child(left(k))), child(right(k)))
           /\ UNCHANGED <<out, found>>
  /\ UNCHANGED <<process, step, inputs, computed, asked>>

MinFollowsNull ==
  /\ At("min")
  /\ queue # <<>> /\ Head(queue) = Null
  /\ process' = "crashed"
  /\ UNCHANGED <<step, inputs, computed, queue, out, found, asked>>

MinReturn ==
  /\ At("min")
  /\ queue = <<>>
  /\ step' = "done"
  /\ UNCHANGED <<process, inputs, computed, queue, out, found, asked>>

Query ==
  \/ AllHashes
  \/ ChunkCheck
  \/ \E k \in Node : HashesOf(Joined(Levels(truth))[k])
  \/ HashesOf(NoHash)
  \/ MinStart

Loop == MinVisit \/ MinFollowsNull \/ MinReturn

Next == InitiliseTree \/ Query \/ Loop

Spec == Init /\ [][Next]_vars

\* A program that was started runs on.
FairSpec == Spec /\ WF_vars(Next)

-----------------------------------------------------------------------------
(* Properties.                                                             *)

Described == Joined(Levels(truth))
Whole == Written(nchunks - 1)

\* The chunks below node k, and whether the file holds the data of all.
Below(k) ==
  LET row == RowOf(k)
  IN {i \in Chunk : i \div 2 ^ (Depth - row) = k - (2 ^ row - 1)}

Complete(k) == \A i \in Below(k) : Written(i) /\ file[i + 1] = truth[i]

Done(query) == step = "done" /\ asked[1] = query

\* Every variable keeps its type.
TypeOK ==
  /\ process \in {"running", "crashed"}
  /\ step \in {"load", "ready", "min", "done"}
  /\ truth \in [Chunk -> Block]
  /\ Len(file) \in 1 .. MaxFile
  /\ DOMAIN computed = Node
  /\ queue \in Seq(Node \cup {Null})
  /\ found \subseteq Node
  /\ asked[1] \in {"nothing", "all_hashes", "chunk_check", "hashes_of",
                   "min_hashes"}

\* No query writes past the entries it has allocated, nchunks of them
\* (nhashes more for -all_hashes), whatever the data file holds.
OutputFits ==
  Len(out) <= IF asked[1] = "all_hashes" THEN nhashes + nchunks ELSE nchunks

\* Over a data file that reaches the last chunk (Whole), whatever its data:
\* in every turn of the loop each completed chunk is below exactly one node
\* that was answered or is still queued, and only completed nodes are
\* answered.
LoopCovers ==
  Whole /\ asked[1] = "min_hashes" =>
    /\ \A i \in Chunk : Complete(nhashes + i) =>
         Cardinality({k \in Node : i \in Below(k) /\ k \in found}) +
         Cardinality({n \in DOMAIN queue : i \in Below(queue[n])}) = 1
    /\ \A k \in found : Complete(k)

\* Over a data file that reaches the last chunk, whatever its data:
\* -min_hashes answers the topmost completed nodes, each once, which is the
\* smallest set of completed branches that holds every completed chunk
\* (pkgchk.c:224; pkgchk.h:93 says otherwise, see HalfFileInChunks).
MinHashesExact ==
  Whole /\ Done("min_hashes") =>
    /\ found = {k \in Node : Complete(k) /\ (k = 0 \/ ~Complete((k - 1) \div 2))}
    /\ Len(out) = Cardinality(found)

\* -chunk_check answers the chunks whose data the file holds, in order and
\* also when the file ends early.
ChunkCheckExact ==
  Done("chunk_check") =>
    out = Picked([i \in Chunk |-> Complete(nhashes + i)])

\* Over a data file that reaches the last chunk, whatever its data:
\* -hashes_of answers the chunks below the node asked for, also when equal
\* data give several nodes that hash.
HashesOfExact ==
  Whole /\ Done("hashes_of") =>
    \A k \in Node : Described[k] = asked[2] =>
      out = Picked([i \in Chunk |-> i \in Below(k)])

\* Every query ends.
QueriesEnd == <>(step = "done" \/ process = "crashed")

\* Whatever -min_hashes answers is the hash of a completed branch, also for
\* a file that is not all there yet.
OnlyCompletedAnswered ==
  Done("min_hashes") => \A k \in found : Complete(k)

\* For a data file complete up to its middle and no further -min_hashes
\* answers one hash per chunk of that half and one more: the example that the
\* comment on bpkg_get_min_completed_hashes gives in pkgchk.h.
HalfFileInChunks ==
  /\ Whole /\ Done("min_hashes")
  /\ \A i \in Chunk : Complete(nhashes + i) <=> i < nchunks \div 2
  => Len(out) = nchunks \div 2 + 1
=============================================================================
