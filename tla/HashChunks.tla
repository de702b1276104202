----------------------------- MODULE HashChunks -----------------------------
(***************************************************************************)
(* The chunk loop of initilise_tree: the data file is mapped, and every    *)
(* chunk of the package is hashed, SHA256_BFLEN bytes at a time, into its  *)
(* leaf of the tree.  The hash is Sha256, whose addresses are here the     *)
(* positions in the mapping.                                               *)
(*                                                                         *)
(* The chunks are those of any package that bpkg_load takes: offset and    *)
(* size are whatever "%i" read into a uint32_t.  Their sum is a 32-bit     *)
(* sum, compared with a 64-bit file size.                                  *)
(***************************************************************************)
EXTENDS Sha256

CONSTANTS
  BFLEN,  \* SHA256_BFLEN
  WIDTH,  \* 2^32, the numbers a uint32_t can hold
  Tables, \* the chunk tables of packages: sequences of offsets and sizes
  Files   \* the sizes a data file can have, NoFile when there is none

NoFile == -1

ASSUME HashChunksAssumption ==
  /\ BFLEN \in Nat \ {0} /\ WIDTH \in Nat \ {0}
  /\ Tables \subseteq Seq([offset : 0 .. WIDTH - 1, size : 0 .. WIDTH - 1])
  /\ <<>> \notin Tables
  /\ Files \subseteq Nat \cup {NoFile}

VARIABLES
  chunks,          \* obj->chunks, numbered from 1
  st_size,         \* the size of the data file
  process,         \* "running" or "crashed"
  loop,            \* where initilise_tree is
  i,               \* the chunk it is at
  remaining_size,  \* what is left of that chunk
  offset,          \* where its next piece starts
  leaf             \* the computed hashes of the leaves, <<>> until written

inputs == <<chunks, st_size>>
loopVars == <<process, loop, i, remaining_size, offset, leaf>>
vars == <<shaVars, inputs, loopVars>>

Init ==
  /\ ShaInit
  /\ chunks \in Tables /\ st_size \in Files
  /\ process = "running" /\ loop = "open"
  /\ i = 1 /\ remaining_size = 0 /\ offset = 0
  /\ leaf = [k \in DOMAIN chunks |-> <<>>]

At(l) == process = "running" /\ loop = l

\* ch->offset + ch->size
End(k) == (chunks[k].offset + chunks[k].size) % WIDTH

-----------------------------------------------------------------------------

\* Without a data file, or with an empty one that mmap refuses, there is no
\* tree.
OpenData ==
  /\ At("open")
  /\ loop' = IF st_size \in {NoFile, 0} THEN "no tree" ELSE "check"
  /\ UNCHANGED <<shaVars, inputs, process, i, remaining_size, offset, leaf>>

\* "Chunk offset and size exceed file size. Stopping."
StopAtChunk ==
  /\ At("check")
  /\ End(i) > st_size
  /\ loop' = "built"
  /\ UNCHANGED <<shaVars, inputs, process, i, remaining_size, offset, leaf>>

\* Faulty form of StartChunk: the size of the file is not looked at.
StartChunkUnchecked ==
  /\ At("check")
  /\ ComputeDataInit(chunks[i].offset)
  /\ remaining_size' = chunks[i].size
  /\ offset' = chunks[i].offset
  /\ loop' = "read"
  /\ UNCHANGED <<inputs, process, i, leaf>>

StartChunk ==
  /\ At("check")
  /\ End(i) <= st_size
  /\ ComputeDataInit(chunks[i].offset)
  /\ remaining_size' = chunks[i].size
  /\ offset' = chunks[i].offset
  /\ loop' = "read"
  /\ UNCHANGED <<inputs, process, i, leaf>>

\* Beyond the end of the mapping there may be nothing, or other memory.
Touch(from, n) ==
  process' \in IF from + n > st_size THEN {"running", "crashed"}
                                     ELSE {"running"}

\* Faulty form of ReadPiece: every piece starts where the chunk does.
ReadPieceAgain ==
  /\ At("read")
  /\ remaining_size > 0
  /\ LET n == IF remaining_size < BFLEN THEN remaining_size ELSE BFLEN IN
       /\ Update(chunks[i].offset, n)
       /\ Touch(chunks[i].offset, n)
       /\ offset' = offset + n
       /\ remaining_size' = remaining_size - n
  /\ UNCHANGED <<inputs, loop, i, leaf>>

ReadPiece ==
  /\ At("read")
  /\ remaining_size > 0
  /\ LET n == IF remaining_size < BFLEN THEN remaining_size ELSE BFLEN IN
       /\ Update(offset, n)
       /\ Touch(offset, n)
       /\ offset' = offset + n
       /\ remaining_size' = remaining_size - n
  /\ UNCHANGED <<inputs, loop, i, leaf>>

FinishChunk ==
  /\ At("read")
  /\ remaining_size = 0
  /\ FinalizeMark
  /\ loop' = "store"
  /\ UNCHANGED <<inputs, process, i, remaining_size, offset, leaf>>

\* The functions of sha256.c, while the loop waits for them.
Hashing ==
  /\ process = "running"
  /\ Work
  /\ UNCHANGED <<inputs, loopVars>>

\* Faulty form of StoreLeaf: a chunk that ends one byte before the end of
\* the file passes for the last.
StoreLeafStopsEarly ==
  /\ At("store")
  /\ step = "done"
  /\ leaf' = [leaf EXCEPT ![i] = hash]
  /\ i' = i + 1
  /\ loop' = IF End(i) + 1 >= st_size \/ i = Len(chunks)
             THEN "built" ELSE "check"
  /\ UNCHANGED <<shaVars, inputs, process, remaining_size, offset>>

\* The loop also ends behind a chunk that reaches the end of the file.
StoreLeaf ==
  /\ At("store")
  /\ step = "done"
  /\ leaf' = [leaf EXCEPT ![i] = hash]
  /\ i' = i + 1
  /\ loop' = IF End(i) >= st_size \/ i = Len(chunks) THEN "built" ELSE "check"
  /\ UNCHANGED <<shaVars, inputs, process, remaining_size, offset>>

Next ==
  \/ OpenData \/ StopAtChunk \/ StartChunk \/ ReadPiece \/ FinishChunk
  \/ Hashing \/ StoreLeaf

Spec == Init /\ [][Next]_vars

-----------------------------------------------------------------------------
(* Properties.                                                             *)

\* Whatever the table and the file, a leaf that is written holds the hash of
\* its chunk's bytes, no fewer and no more, and of no other chunk's.
LeavesExact ==
  \A k \in DOMAIN chunks :
    leaf[k] # <<>> => leaf[k] = Padded(chunks[k].offset, chunks[k].size)

\* Only a chunk whose 32-bit sum wraps lets the loop read past the end of the
\* data file.
OnlyWrappedSumsEscape ==
  process = "crashed" \/ (At("read") /\ offset > st_size) =>
    chunks[i].offset + chunks[i].size >= WIDTH

Tiled ==
  /\ chunks[1].offset = 0
  /\ \A k \in DOMAIN chunks :
       chunks[k].size > 0 /\ chunks[k].offset + chunks[k].size < WIDTH
  /\ \A k \in 2 .. Len(chunks) :
       chunks[k].offset = chunks[k - 1].offset + chunks[k - 1].size

\* For chunks that follow one another from the start of the file, as a
\* package's do, and whose sums do not wrap, exactly those that are in the
\* file get their leaf.
TiledLeavesWritten ==
  Tiled /\ At("built") =>
    \A k \in DOMAIN chunks :
      leaf[k] # <<>> <=> chunks[k].offset + chunks[k].size <= st_size
=============================================================================
