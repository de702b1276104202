-------------------------- MODULE HashChunksProofs --------------------------
(***************************************************************************)
(* The chunk loop of initilise_tree gives every leaf the hash of its chunk *)
(* and of nothing else, for every table of a package, every data file, and *)
(* every size of a read, of a block and of an integer; and what is hashed  *)
(* is the padded bytes of the chunk by the invariant of Sha256Proofs.      *)
(***************************************************************************)
EXTENDS HashChunks, Sha256Proofs, WellFoundedInduction

LoopTypeOK ==
  /\ chunks \in Tables /\ st_size \in Files
  /\ process \in {"running", "crashed"}
  /\ loop \in {"open", "no tree", "check", "read", "store", "built"}
  /\ i \in 1 .. Len(chunks) + 1
  /\ remaining_size \in Nat /\ offset \in Nat
  /\ leaf \in [DOMAIN chunks -> Seq(Chunk)]

\* While the loop turns it is at a chunk and there is a file; outside of a
\* chunk no hash is under way.
Located ==
  /\ loop \in {"check", "read", "store"} => i \in DOMAIN chunks
  /\ loop = "open" => i = 1
  /\ loop \notin {"open", "no tree"} => st_size \in Nat
  /\ loop \notin {"read", "store"} => step = "done"

\* What was fed of the chunk and what remains of it are the chunk.
Reading ==
  loop = "read" =>
    /\ step \in {"ready", "fill", "blocks"}
    /\ start = chunks[i].offset /\ offset = start + fed
    /\ fed + remaining_size = chunks[i].size
    /\ End(i) <= st_size

Storing ==
  loop = "store" =>
    /\ step \in {"length", "output", "done"}
    /\ start = chunks[i].offset /\ fed = chunks[i].size
    /\ step = "done" => hash = Padded(start, fed)
    /\ End(i) <= st_size

Unwritten == \A k \in DOMAIN chunks : k >= i => leaf[k] = <<>>

CrashedInWrap ==
  process = "crashed" =>
    loop = "read" /\ chunks[i].offset + chunks[i].size >= WIDTH

\* Of chunks that follow one another the loop has left behind those that are
\* in the file, and it stops before the first that is not.
WrittenBehind ==
  Tiled =>
    /\ \A k \in DOMAIN chunks :
         k < i => /\ leaf[k] # <<>>
                  /\ chunks[k].offset + chunks[k].size <= st_size
    /\ loop = "built" =>
         \A k \in DOMAIN chunks :
           k >= i => chunks[k].offset + chunks[k].size > st_size

LoopInv ==
  /\ ShaInv /\ LoopTypeOK
  /\ Located /\ Reading /\ Storing
  /\ Unwritten /\ LeavesExact
  /\ CrashedInWrap /\ WrittenBehind

-----------------------------------------------------------------------------
(* Natural numbers.                                                        *)

Less == {ss \in Nat \X Nat : ss[1] < ss[2]}

LEMMA Least ==
  ASSUME NEW T \in SUBSET Nat, T # {}
  PROVE  \E x \in T : \A y \in T : x <= y
<1>1. IsWellFoundedOn(Less, Nat)
  BY NatLessThanWellFounded DEF OpToRel, Less
<1>2. PICK x \in T : \A y \in T : <<y, x>> \notin Less
  BY <1>1, WFMin
<1>3. \A y \in T : ~(y < x)
  BY <1>2 DEF Less
<1>. QED BY <1>3

\* Induction over a set of natural numbers.
LEMMA Induct ==
  ASSUME NEW T, 0 \in T, \A n \in Nat : n \in T => n + 1 \in T
  PROVE  Nat \subseteq T
<1> SUFFICES ASSUME Nat \ T # {} PROVE FALSE
  OBVIOUS
<1>1. PICK x \in Nat \ T : \A y \in Nat \ T : x <= y
  BY Least
<1>2. x - 1 \in Nat
  BY <1>1
<1>3. x - 1 \in T
  BY <1>1, <1>2
<1>. QED BY <1>1, <1>2, <1>3

-----------------------------------------------------------------------------
(* Tables and blocks.                                                      *)

LEMMA Sizes == BFLEN \in Nat \ {0} /\ WIDTH \in Nat \ {0}
  BY HashChunksAssumption

LEMMA ElementIn ==
  ASSUME NEW S, NEW s \in Seq(S)
  PROVE  /\ Len(s) \in Nat /\ DOMAIN s = 1 .. Len(s)
         /\ s # <<>> => Len(s) >= 1
         /\ \A k \in DOMAIN s : s[k] \in S
  OBVIOUS

LEMMA TableFacts ==
  ASSUME chunks \in Tables
  PROVE  /\ Len(chunks) \in Nat /\ Len(chunks) >= 1
         /\ DOMAIN chunks = 1 .. Len(chunks)
         /\ \A k \in DOMAIN chunks :
              chunks[k].offset \in Nat /\ chunks[k].size \in Nat
<1>1. chunks \in Seq([offset : 0 .. WIDTH - 1, size : 0 .. WIDTH - 1])
  BY HashChunksAssumption
<1>2. chunks # <<>>
  BY HashChunksAssumption
<1>3. \A k \in DOMAIN chunks :
        chunks[k] \in [offset : 0 .. WIDTH - 1, size : 0 .. WIDTH - 1]
  BY <1>1, ElementIn
<1>4. Len(chunks) \in Nat /\ DOMAIN chunks = 1 .. Len(chunks)
  BY <1>1, ElementIn
<1>5. Len(chunks) >= 1
  BY <1>1, <1>2, ElementIn
<1>6. ASSUME NEW k \in DOMAIN chunks
      PROVE  chunks[k].offset \in Nat /\ chunks[k].size \in Nat
  BY <1>3, Sizes
<1>. QED BY <1>4, <1>5, <1>6

LEMMA Indices ==
  ASSUME chunks \in Tables
  PROVE  /\ 1 \in DOMAIN chunks
         /\ \A k \in DOMAIN chunks :
              /\ k \in Nat /\ k + 1 \in 1 .. Len(chunks) + 1
              /\ k # Len(chunks) => k + 1 \in DOMAIN chunks
<1>1. ASSUME NEW m \in Nat, m >= 1
      PROVE  /\ 1 \in 1 .. m
             /\ \A k \in 1 .. m : /\ k \in Nat /\ k + 1 \in 1 .. m + 1
                                  /\ k # m => k + 1 \in 1 .. m
  BY <1>1
<1>. QED BY <1>1, TableFacts

LEMMA LoopIndex ==
  ASSUME LoopTypeOK
  PROVE  chunks \in Tables /\ i \in Nat
<1>1. chunks \in Tables /\ i \in 1 .. Len(chunks) + 1
  BY DEF LoopTypeOK
<1>2. Len(chunks) \in Nat
  BY <1>1, TableFacts
<1>. QED BY <1>1, <1>2

\* A sum within the 32 bits is the sum.
LEMMA NoWrap ==
  ASSUME NEW a \in Nat, NEW w \in Nat \ {0}, a < w
  PROVE  a % w = a
  OBVIOUS

LEMMA EndOf ==
  ASSUME chunks \in Tables, NEW k \in DOMAIN chunks,
         chunks[k].offset + chunks[k].size < WIDTH
  PROVE  End(k) = chunks[k].offset + chunks[k].size
<1>1. chunks[k].offset + chunks[k].size \in Nat
  BY TableFacts
<1>. QED BY <1>1, NoWrap, Sizes DEF End

LEMMA EndInt ==
  ASSUME chunks \in Tables, NEW k \in DOMAIN chunks
  PROVE  End(k) \in Nat
<1>1. chunks[k].offset + chunks[k].size \in Nat
  BY TableFacts
<1>2. \A a \in Nat, w \in Nat \ {0} : a % w \in Nat
  OBVIOUS
<1>. QED BY <1>1, <1>2, Sizes DEF End

\* Even an empty message has a block.
LEMMA PaddedIsWritten ==
  ASSUME NEW a \in Nat, NEW n \in Nat
  PROVE  Padded(a, n) # <<>>
<1>1. (n + LEN) \div BLOCK \in Nat
  BY BlockPositive
<1>2. 1 \in 1 .. Blocks(n)
  BY <1>1 DEF Blocks
<1>3. 1 \in DOMAIN Padded(a, n)
  BY <1>2 DEF Padded
<1>. QED BY <1>3

\* Chunks that follow one another are in the order of their bytes.
LEMMA TiledOrder ==
  ASSUME chunks \in Tables, Tiled
  PROVE  \A j, k \in DOMAIN chunks :
           j < k => chunks[j].offset + chunks[j].size <= chunks[k].offset
<1> DEFINE Sum(j) == chunks[j].offset + chunks[j].size
           T == {n \in Nat : \A j, k \in DOMAIN chunks :
                               k = j + 1 + n => Sum(j) <= chunks[k].offset}
<1>1. /\ Len(chunks) \in Nat /\ DOMAIN chunks = 1 .. Len(chunks)
      /\ \A k \in DOMAIN chunks :
           chunks[k].offset \in Nat /\ chunks[k].size \in Nat
  BY TableFacts
<1>2. \A k \in 2 .. Len(chunks) : chunks[k].offset = Sum(k - 1)
  BY DEF Tiled
<1>3. 0 \in T
  <2> SUFFICES ASSUME NEW j \in DOMAIN chunks, NEW k \in DOMAIN chunks,
                      k = j + 1 + 0
               PROVE  Sum(j) <= chunks[k].offset
    OBVIOUS
  <2>1. k \in 2 .. Len(chunks) /\ k - 1 = j
    BY <1>1
  <2>. QED BY <1>1, <1>2, <2>1
<1>4. ASSUME NEW n \in Nat, n \in T PROVE n + 1 \in T
  <2> SUFFICES ASSUME NEW j \in DOMAIN chunks, NEW k \in DOMAIN chunks,
                      k = j + 1 + (n + 1)
               PROVE  Sum(j) <= chunks[k].offset
    OBVIOUS
  <2>1. /\ k \in 2 .. Len(chunks) /\ k - 1 \in DOMAIN chunks
        /\ k - 1 = j + 1 + n
    BY <1>1
  <2>2. Sum(j) <= chunks[k - 1].offset
    BY <1>4, <2>1
  <2>3. chunks[k].offset = chunks[k - 1].offset + chunks[k - 1].size
    BY <1>2, <2>1
  <2>4. chunks[k - 1].offset \in Nat /\ chunks[k - 1].size \in Nat
    BY <1>1, <2>1
  <2>5. Sum(j) \in Nat
    BY <1>1
  <2> HIDE DEF Sum
  <2>. QED BY <2>2, <2>3, <2>4, <2>5
<1>5. Nat \subseteq T
  <2>1. \A n \in Nat : n \in T => n + 1 \in T
    BY <1>4
  <2> HIDE DEF T
  <2>. QED BY <1>3, <2>1, Induct
<1>. SUFFICES ASSUME NEW j \in DOMAIN chunks, NEW k \in DOMAIN chunks, j < k
              PROVE  Sum(j) <= chunks[k].offset
  OBVIOUS
<1>6. k - j - 1 \in Nat /\ k = j + 1 + (k - j - 1)
  BY <1>1
<1>. QED BY <1>5, <1>6

-----------------------------------------------------------------------------
(* Steps.                                                                  *)

\* What a function of sha256.c leaves to its caller, and where it can return.
LEMMA WorkKeeps ==
  ASSUME Work
  PROVE  /\ start' = start /\ fed' = fed
         /\ step \in {"fill", "blocks"} => step' \in {"blocks", "ready"}
         /\ step \in {"length", "output"} =>
              /\ step' \in {"output", "done"}
              /\ step' = "done" => step = "output" /\ hash' = hcomps
         /\ step \in {"fill", "blocks", "length", "output"}
  BY DEF Work, FillChunk, WholeChunk, KeepTail, FinalizeLength, Output, message

\* The piece that is read next is a part of what remains.
LEMMA PieceFits ==
  ASSUME NEW r \in Nat, r > 0
  PROVE  LET n == IF r < BFLEN THEN r ELSE BFLEN IN
         n \in Nat /\ n <= r /\ r - n \in Nat
  BY Sizes

LEMMA InputsKept == [Next]_vars => chunks' = chunks /\ st_size' = st_size
  BY DEF Next, vars, inputs, OpenData, StopAtChunk, StartChunk, ReadPiece,
         FinishChunk, Hashing, StoreLeaf

\* The chunk loop calls the functions of sha256.c as any caller may.
LEMMA ShaPart ==
  ASSUME LoopInv, [Next]_vars
  PROVE  [AnyStep]_shaVars
<1>1. CASE StartChunk
  <2>1. i \in DOMAIN chunks /\ chunks \in Tables
    BY <1>1 DEF StartChunk, At, LoopInv, Located, LoopTypeOK
  <2>2. chunks[i].offset \in Nat
    BY <2>1, TableFacts
  <2>. QED BY <1>1, <2>2 DEF StartChunk, AnyStep, AnyCall
<1>2. CASE ReadPiece
  <2>1. offset = start + fed /\ remaining_size \in Nat /\ remaining_size > 0
    BY <1>2 DEF ReadPiece, At, LoopInv, Reading, LoopTypeOK
  <2>2. PICK n \in Nat : Update(offset, n)
    BY <1>2, <2>1, PieceFits DEF ReadPiece
  <2>. QED BY <2>1, <2>2 DEF AnyStep, AnyCall
<1>3. CASE FinishChunk
  BY <1>3 DEF FinishChunk, AnyStep, AnyCall
<1>4. CASE Hashing
  BY <1>4 DEF Hashing, AnyStep
<1>5. CASE OpenData \/ StopAtChunk \/ StoreLeaf
  BY <1>5 DEF OpenData, StopAtChunk, StoreLeaf
<1>6. CASE UNCHANGED vars
  BY <1>6 DEF vars
<1>. QED BY <1>1, <1>2, <1>3, <1>4, <1>5, <1>6 DEF Next

LEMMA LoopTypeStep ==
  ASSUME LoopInv, [Next]_vars
  PROVE  LoopTypeOK'
<1>1. LoopTypeOK /\ chunks' = chunks /\ st_size' = st_size
  BY InputsKept DEF LoopInv
<1> USE DEF LoopTypeOK, inputs, loopVars, At
<1>2. CASE OpenData
  BY <1>1, <1>2 DEF OpenData
<1>3. CASE StopAtChunk
  BY <1>1, <1>3 DEF StopAtChunk
<1>4. CASE StartChunk
  <2>1. i \in DOMAIN chunks
    BY <1>4 DEF StartChunk, LoopInv, Located
  <2>. QED BY <1>1, <1>4, <2>1, TableFacts DEF StartChunk
<1>5. CASE ReadPiece
  <2>1. remaining_size \in Nat /\ remaining_size > 0 /\ offset \in Nat
    BY <1>1, <1>5 DEF ReadPiece
  <2>2. remaining_size' \in Nat /\ offset' \in Nat
    BY <1>5, <2>1, PieceFits DEF ReadPiece
  <2>3. process' \in {"running", "crashed"}
    BY <1>5 DEF ReadPiece, Touch
  <2>. QED BY <1>1, <1>5, <2>2, <2>3 DEF ReadPiece
<1>6. CASE FinishChunk
  BY <1>1, <1>6 DEF FinishChunk
<1>7. CASE Hashing
  BY <1>1, <1>7 DEF Hashing
<1>8. CASE StoreLeaf
  <2>1. i \in DOMAIN chunks /\ hash \in Seq(Chunk)
    BY <1>8 DEF StoreLeaf, LoopInv, Located, ShaInv, ShaTypeOK
  <2>2. i + 1 \in 1 .. Len(chunks) + 1
    BY <1>1, <2>1, Indices
  <2>3. leaf' \in [DOMAIN chunks -> Seq(Chunk)]
    BY <1>1, <1>8, <2>1 DEF StoreLeaf
  <2>. QED BY <1>1, <1>8, <2>2, <2>3 DEF StoreLeaf
<1>9. CASE UNCHANGED vars
  BY <1>1, <1>9 DEF vars
<1>. QED BY <1>2, <1>3, <1>4, <1>5, <1>6, <1>7, <1>8, <1>9 DEF Next

LEMMA LocatedStep ==
  ASSUME LoopInv, [Next]_vars
  PROVE  Located'
<1>1. LoopTypeOK /\ chunks' = chunks /\ st_size' = st_size /\ Located
  BY InputsKept DEF LoopInv
<1> USE DEF Located, inputs, loopVars, At
<1>2. CASE OpenData
  <2>1. 1 \in DOMAIN chunks
    BY <1>1, Indices DEF LoopTypeOK
  <2>2. st_size \in Nat \cup {NoFile}
    BY <1>1, HashChunksAssumption DEF LoopTypeOK
  <2>. QED BY <1>1, <1>2, <2>1, <2>2
           DEF OpenData, shaVars, cdata, message
<1>3. CASE StopAtChunk
  BY <1>1, <1>3 DEF StopAtChunk, shaVars
<1>4. CASE StartChunk
  BY <1>1, <1>4 DEF StartChunk, ComputeDataInit
<1>5. CASE ReadPiece
  BY <1>1, <1>5 DEF ReadPiece
<1>6. CASE FinishChunk
  BY <1>1, <1>6 DEF FinishChunk
<1>7. CASE Hashing
  <2>1. step # "done"
    BY <1>7, WorkKeeps DEF Hashing
  <2>. QED BY <1>1, <1>7, <2>1 DEF Hashing
<1>8. CASE StoreLeaf
  <2>1. i # Len(chunks) => i + 1 \in DOMAIN chunks
    BY <1>1, <1>8, Indices DEF StoreLeaf, LoopTypeOK
  <2>. QED BY <1>1, <1>8, <2>1 DEF StoreLeaf, shaVars
<1>9. CASE UNCHANGED vars
  BY <1>1, <1>9 DEF vars, shaVars
<1>. QED BY <1>2, <1>3, <1>4, <1>5, <1>6, <1>7, <1>8, <1>9 DEF Next

\* Every piece that is read follows the one before it, until the chunk is
\* read to its end.
LEMMA ReadingStep ==
  ASSUME LoopInv, [Next]_vars
  PROVE  Reading'
<1>1. /\ LoopTypeOK /\ chunks' = chunks /\ st_size' = st_size
      /\ Located /\ Reading
  BY InputsKept DEF LoopInv
<1> USE DEF Reading, inputs, loopVars, At
<1>2. CASE StartChunk
  <2>1. chunks[i].offset \in Nat /\ chunks[i].size \in Nat
    BY <1>1, <1>2, TableFacts DEF StartChunk, Located, LoopTypeOK
  <2>2. /\ step' = "ready" /\ start' = chunks[i].offset /\ fed' = 0
        /\ offset' = chunks[i].offset /\ remaining_size' = chunks[i].size
        /\ i' = i /\ End(i) <= st_size
    BY <1>2 DEF StartChunk, ComputeDataInit
  <2>. QED BY <1>1, <2>1, <2>2 DEF End
<1>3. CASE ReadPiece
  <2>1. remaining_size \in Nat /\ remaining_size > 0 /\ offset \in Nat
    BY <1>1, <1>3 DEF ReadPiece, LoopTypeOK
  <2>2. PICK n \in Nat : /\ Update(offset, n) /\ n <= remaining_size
                         /\ offset' = offset + n
                         /\ remaining_size' = remaining_size - n
    BY <1>3, <2>1, PieceFits DEF ReadPiece
  <2>3. /\ start = chunks[i].offset /\ offset = start + fed
        /\ fed + remaining_size = chunks[i].size /\ End(i) <= st_size
    BY <1>1, <1>3 DEF ReadPiece
  <2>4. start \in Nat /\ fed \in Nat
    BY DEF LoopInv, ShaInv, ShaTypeOK
  <2>5. /\ step' \in {"fill", "blocks"} /\ start' = start /\ fed' = fed + n
        /\ i' = i
    BY <1>3, <2>2 DEF ReadPiece, Update
  <2>6. /\ offset' = start' + fed'
        /\ fed' + remaining_size' = fed + remaining_size
    BY <2>1, <2>2, <2>3, <2>4, <2>5
  <2>. QED BY <1>1, <2>3, <2>5, <2>6 DEF End
<1>4. CASE Hashing
  BY <1>1, <1>4, WorkKeeps DEF Hashing, End
<1>5. CASE OpenData \/ StopAtChunk \/ FinishChunk \/ StoreLeaf
  BY <1>5 DEF OpenData, StopAtChunk, FinishChunk, StoreLeaf
<1>6. CASE UNCHANGED vars
  BY <1>1, <1>6 DEF vars, shaVars, message, End
<1>. QED BY <1>2, <1>3, <1>4, <1>5, <1>6 DEF Next

\* The digest that is stored is the one sha256_output_hex has made of the
\* blocks of this chunk.
LEMMA StoringStep ==
  ASSUME LoopInv, [Next]_vars
  PROVE  Storing'
<1>1. /\ LoopTypeOK /\ chunks' = chunks /\ st_size' = st_size
      /\ Located /\ Reading /\ Storing
  BY InputsKept DEF LoopInv
<1> USE DEF Storing, inputs, loopVars, At
<1>2. CASE FinishChunk
  <2>1. /\ step' = "length" /\ start' = start /\ fed' = fed /\ i' = i
    BY <1>2 DEF FinishChunk, FinalizeMark, message
  <2>2. /\ start = chunks[i].offset /\ End(i) <= st_size
        /\ fed + 0 = chunks[i].size /\ fed \in Nat
    BY <1>1, <1>2 DEF FinishChunk, Reading, LoopInv, ShaInv, ShaTypeOK
  <2>. QED BY <1>1, <2>1, <2>2 DEF End
<1>3. CASE Hashing
  <2> SUFFICES ASSUME loop = "store" PROVE Storing'
    BY <1>3 DEF Hashing
  <2>1. /\ start' = start /\ fed' = fed /\ i' = i
        /\ step' \in {"output", "done"}
        /\ step' = "done" => step = "output" /\ hash' = hcomps
    BY <1>1, <1>3, WorkKeeps DEF Hashing
  <2>2. step = "output" => hcomps = Padded(start, fed)
    BY DEF LoopInv, ShaInv, DigestExact
  <2>. QED BY <1>1, <2>1, <2>2 DEF End, Padded, PaddedByte
<1>4. CASE OpenData \/ StopAtChunk \/ StartChunk \/ ReadPiece \/ StoreLeaf
  BY <1>4 DEF OpenData, StopAtChunk, StartChunk, ReadPiece, StoreLeaf
<1>5. CASE UNCHANGED vars
  BY <1>1, <1>5 DEF vars, shaVars, message, End, Padded, PaddedByte
<1>. QED BY <1>2, <1>3, <1>4, <1>5 DEF Next

\* Storing writes the leaf of the loop's chunk, and what it writes is the hash
\* of that chunk.
LEMMA StoredLeaf ==
  ASSUME LoopInv, StoreLeaf
  PROVE  /\ i \in DOMAIN chunks /\ i' = i + 1 /\ End(i) <= st_size
         /\ leaf'[i] = Padded(chunks[i].offset, chunks[i].size)
         /\ leaf'[i] # <<>>
         /\ \A k \in DOMAIN chunks : k # i => leaf'[k] = leaf[k]
<1>1. /\ i \in DOMAIN chunks /\ i' = i + 1 /\ End(i) <= st_size
      /\ hash = Padded(chunks[i].offset, chunks[i].size)
  BY DEF LoopInv, StoreLeaf, At, Located, Storing
<1>2. /\ leaf' = [leaf EXCEPT ![i] = hash]
      /\ leaf \in [DOMAIN chunks -> Seq(Chunk)]
  BY DEF LoopInv, LoopTypeOK, StoreLeaf
<1>3. Padded(chunks[i].offset, chunks[i].size) # <<>>
  BY <1>1, TableFacts, PaddedIsWritten DEF LoopInv, LoopTypeOK
<1>. QED BY <1>1, <1>2, <1>3

LEMMA LeafStep ==
  ASSUME LoopInv, [Next]_vars
  PROVE  Unwritten' /\ LeavesExact'
<1>1. /\ chunks' = chunks /\ chunks \in Tables
      /\ i \in Nat
      /\ Unwritten /\ LeavesExact
  BY InputsKept, LoopIndex DEF LoopInv
<1>2. CASE StoreLeaf
  <2>1. ASSUME NEW k \in DOMAIN chunks, k >= i'
        PROVE  leaf'[k] = <<>>
    <3>1. k \in Nat /\ i' = i + 1
      BY <1>1, <1>2, StoredLeaf, Indices
    <3>2. k # i /\ k >= i
      BY <1>1, <2>1, <3>1
    <3>. QED BY <1>1, <1>2, <3>2, StoredLeaf DEF Unwritten
  <2>2. ASSUME NEW k \in DOMAIN chunks, leaf'[k] # <<>>
        PROVE  leaf'[k] = Padded(chunks[k].offset, chunks[k].size)
    <3>1. CASE k = i
      BY <1>2, <3>1, StoredLeaf
    <3>2. CASE k # i
      BY <1>1, <1>2, <2>2, <3>2, StoredLeaf DEF LeavesExact
    <3>. QED BY <3>1, <3>2
  <2>. QED BY <1>1, <2>1, <2>2 DEF Unwritten, LeavesExact, Padded, PaddedByte
<1>3. CASE ~StoreLeaf
  <2>1. leaf' = leaf /\ i' = i
    BY <1>3 DEF Next, vars, loopVars, OpenData, StopAtChunk, StartChunk,
                ReadPiece, FinishChunk, Hashing
  <2>. QED BY <1>1, <2>1 DEF Unwritten, LeavesExact, Padded, PaddedByte
<1>. QED BY <1>2, <1>3

\* A sum that does not wrap is the end of the chunk, and no piece passes it.
LEMMA CrashStep ==
  ASSUME LoopInv, [Next]_vars
  PROVE  CrashedInWrap'
<1>1. /\ chunks' = chunks /\ chunks \in Tables
      /\ CrashedInWrap
  BY InputsKept DEF LoopInv, LoopTypeOK
<1>2. CASE ReadPiece
  <2>1. /\ process = "running" /\ i \in DOMAIN chunks /\ st_size \in Nat
        /\ remaining_size \in Nat /\ remaining_size > 0
        /\ loop = "read" /\ loop' = "read" /\ i' = i
    BY <1>2 DEF ReadPiece, At, inputs, LoopInv, Located, LoopTypeOK
  <2>2. PICK n \in Nat : n <= remaining_size /\ Touch(offset, n)
    BY <1>2, <2>1, PieceFits DEF ReadPiece
  <2>3. /\ offset = chunks[i].offset + fed /\ fed \in Nat
        /\ fed + remaining_size = chunks[i].size /\ End(i) <= st_size
        /\ chunks[i].offset \in Nat /\ chunks[i].size \in Nat
    BY <1>1, <2>1, TableFacts DEF LoopInv, Reading, ShaInv, ShaTypeOK
  <2>4. offset + n <= chunks[i].offset + chunks[i].size
    BY <2>1, <2>2, <2>3
  <2>5. ASSUME chunks[i].offset + chunks[i].size < WIDTH
        PROVE  process' = "running"
    <3>1. End(i) = chunks[i].offset + chunks[i].size
      BY <1>1, <2>1, <2>5, EndOf
    <3>2. offset + n <= st_size
      BY <2>1, <2>2, <2>3, <2>4, <3>1
    <3>3. ~(offset + n > st_size)
      BY <2>1, <2>2, <2>3, <3>2
    <3>. QED BY <2>2, <3>3 DEF Touch
  <2>. QED BY <1>1, <2>1, <2>3, <2>5, Sizes DEF CrashedInWrap
<1>3. CASE ~ReadPiece
  <2>1. UNCHANGED <<process, loop, i>> \/ (process' = process /\ process = "running")
    BY <1>3 DEF Next, vars, loopVars, At, OpenData, StopAtChunk, StartChunk,
                FinishChunk, Hashing, StoreLeaf
  <2>. QED BY <1>1, <2>1 DEF CrashedInWrap
<1>. QED BY <1>2, <1>3

\* Chunks behind the first that is not in the file are not in it either.
LEMMA TiledStep ==
  ASSUME LoopInv, [Next]_vars
  PROVE  WrittenBehind'
<1>1. /\ chunks' = chunks /\ st_size' = st_size /\ chunks \in Tables
      /\ i \in Nat
      /\ WrittenBehind
  BY InputsKept, LoopIndex DEF LoopInv
<1>2. CASE StoreLeaf \/ StopAtChunk
  <2> SUFFICES ASSUME Tiled PROVE WrittenBehind'
    BY <1>1 DEF WrittenBehind, Tiled
  <2>1. /\ i \in DOMAIN chunks /\ st_size \in Nat
        /\ \A k \in DOMAIN chunks :
             /\ chunks[k].offset \in Nat /\ chunks[k].size \in Nat
             /\ k \in Nat /\ chunks[k].size > 0
             /\ End(k) = chunks[k].offset + chunks[k].size
        /\ \A k \in DOMAIN chunks :
             i < k => chunks[i].offset + chunks[i].size <= chunks[k].offset
    <3>1. /\ i \in DOMAIN chunks /\ st_size \in Nat
      BY <1>2 DEF LoopInv, Located, At, StoreLeaf, StopAtChunk
    <3>. QED BY <1>1, <3>1, TableFacts, Indices, EndOf, TiledOrder DEF Tiled
  <2>2. \A k \in DOMAIN chunks :
          k < i => /\ leaf[k] # <<>>
                   /\ chunks[k].offset + chunks[k].size <= st_size
    BY <1>1 DEF WrittenBehind
  <2>3. CASE StoreLeaf
    <3>1. ASSUME NEW k \in DOMAIN chunks, k < i'
          PROVE  /\ leaf'[k] # <<>>
                 /\ chunks[k].offset + chunks[k].size <= st_size
      <4>1. k < i \/ k = i
        BY <1>1, <2>1, <2>3, <3>1, StoredLeaf
      <4>2. CASE k < i
        <5>1. k # i
          BY <1>1, <4>2
        <5>. QED BY <2>2, <2>3, <4>2, <5>1, StoredLeaf
      <4>3. CASE k = i
        BY <2>1, <2>3, <4>3, StoredLeaf
      <4>. QED BY <4>1, <4>2, <4>3
    <3>2. ASSUME loop' = "built", NEW k \in DOMAIN chunks, k >= i'
          PROVE  chunks[k].offset + chunks[k].size > st_size
      <4>1. i' = i + 1 /\ i < k
        BY <1>1, <2>1, <2>3, <3>2, StoredLeaf
      <4>2. End(i) >= st_size \/ i = Len(chunks)
        BY <2>3, <3>2 DEF StoreLeaf
      <4>3. k <= Len(chunks) /\ Len(chunks) \in Nat
        BY <1>1, TableFacts
      <4>4. End(i) >= st_size
        BY <1>1, <2>1, <4>1, <4>2, <4>3
      <4>. QED BY <2>1, <4>1, <4>4
    <3>. QED BY <1>1, <3>1, <3>2 DEF WrittenBehind
  <2>4. CASE StopAtChunk
    <3>1. i' = i /\ leaf' = leaf /\ End(i) > st_size
      BY <2>4 DEF StopAtChunk
    <3>2. ASSUME NEW k \in DOMAIN chunks, k >= i
          PROVE  chunks[k].offset + chunks[k].size > st_size
      <4>1. k = i \/ i < k
        BY <1>1, <2>1, <3>2
      <4>. QED BY <2>1, <3>1, <4>1
    <3>. QED BY <1>1, <2>2, <3>1, <3>2 DEF WrittenBehind
  <2>. QED BY <1>2, <2>3, <2>4
<1>3. CASE ~(StoreLeaf \/ StopAtChunk)
  <2>1. leaf' = leaf /\ i' = i /\ (loop' = "built" => loop = "built")
    BY <1>3 DEF Next, vars, loopVars, OpenData, StartChunk, ReadPiece,
                FinishChunk, Hashing
  <2>. QED BY <1>1, <2>1 DEF WrittenBehind, Tiled
<1>. QED BY <1>2, <1>3

-----------------------------------------------------------------------------
(* Theorems.                                                               *)

LEMMA LoopInvInit == Init => LoopInv
<1> SUFFICES ASSUME Init PROVE LoopInv
  OBVIOUS
<1>1. ShaInv
  BY ShaInitInv DEF Init
<1>2. chunks \in Tables /\ st_size \in Files /\ i = 1 /\ loop = "open"
  BY DEF Init
<1>3. /\ Len(chunks) \in Nat /\ 1 \in DOMAIN chunks
      /\ \A k \in DOMAIN chunks : k \in Nat /\ ~(k < 1)
  BY <1>2, TableFacts, Indices
<1>4. \A k \in DOMAIN chunks : leaf[k] = <<>>
  BY DEF Init
<1>5. LoopTypeOK
  BY <1>2, <1>3 DEF Init, LoopTypeOK
<1>6. Located /\ Reading /\ Storing /\ CrashedInWrap
  BY DEF Init, ShaInit, Located, Reading, Storing, CrashedInWrap
<1>7. Unwritten /\ LeavesExact /\ WrittenBehind
  BY <1>2, <1>3, <1>4 DEF Unwritten, LeavesExact, WrittenBehind
<1>. QED BY <1>1, <1>5, <1>6, <1>7 DEF LoopInv

LEMMA LoopInvStep == LoopInv /\ [Next]_vars => LoopInv'
<1> SUFFICES ASSUME LoopInv, [Next]_vars PROVE LoopInv'
  OBVIOUS
<1>1. ShaInv'
  BY ShaPart, ShaInvStep DEF LoopInv
<1>. QED BY <1>1, LoopTypeStep, LocatedStep, ReadingStep, StoringStep,
            LeafStep, CrashStep, TiledStep DEF LoopInv

\* What initilise_tree keeps from one chunk to the next: where it reads, what
\* it has fed to the hash, and what the leaves behind it hold.
THEOREM LoopInvAlways == Spec => []LoopInv
BY LoopInvInit, LoopInvStep, PTL DEF Spec

\* A leaf that initilise_tree writes holds the hash of its chunk's bytes,
\* whatever the table, the file and the size of a read.
THEOREM LeavesAreExact == Spec => []LeavesExact
<1>1. LoopInv => LeavesExact
  BY DEF LoopInv
<1>. QED BY <1>1, LoopInvAlways, PTL

\* A chunk whose 32-bit sum does not wrap never makes initilise_tree read past
\* the end of the data file.
THEOREM ReadsStayInFile == Spec => []OnlyWrappedSumsEscape
<1>1. LoopInv => OnlyWrappedSumsEscape
  <2> SUFFICES ASSUME LoopInv, process = "running", loop = "read",
                      offset > st_size
               PROVE  chunks[i].offset + chunks[i].size >= WIDTH
    BY DEF OnlyWrappedSumsEscape, At, LoopInv, CrashedInWrap
  <2>1. /\ chunks \in Tables /\ i \in DOMAIN chunks /\ st_size \in Nat
        /\ remaining_size \in Nat
    BY DEF LoopInv, LoopTypeOK, Located
  <2>2. /\ offset = chunks[i].offset + fed /\ fed \in Nat
        /\ fed + remaining_size = chunks[i].size /\ End(i) <= st_size
        /\ chunks[i].offset \in Nat /\ chunks[i].size \in Nat
    BY <2>1, TableFacts DEF LoopInv, Reading, ShaInv, ShaTypeOK
  <2>3. chunks[i].offset + chunks[i].size > st_size
    BY <2>1, <2>2
  <2>4. ~(chunks[i].offset + chunks[i].size < WIDTH)
    BY <2>1, <2>2, <2>3, EndOf
  <2>. QED BY <2>2, <2>4, Sizes
<1>. QED BY <1>1, LoopInvAlways, PTL

\* Of chunks that follow one another and do not wrap, initilise_tree writes
\* the leaves of exactly those that end within the data file.
THEOREM LeavesOfFileWritten == Spec => []TiledLeavesWritten
<1>1. LoopInv => TiledLeavesWritten
  <2> SUFFICES ASSUME LoopInv, Tiled, loop = "built", NEW k \in DOMAIN chunks
               PROVE  leaf[k] # <<>> <=>
                        chunks[k].offset + chunks[k].size <= st_size
    BY DEF TiledLeavesWritten, At
  <2>1. /\ k \in Nat /\ i \in Nat /\ st_size \in Nat
        /\ chunks[k].offset \in Nat /\ chunks[k].size \in Nat
    BY LoopIndex, TableFacts, Indices DEF LoopInv, Located
  <2>2. CASE k < i
    BY <2>2 DEF LoopInv, WrittenBehind
  <2>3. CASE k >= i
    <3>1. leaf[k] = <<>> /\ chunks[k].offset + chunks[k].size > st_size
      BY <2>3 DEF LoopInv, Unwritten, WrittenBehind
    <3>. QED BY <2>1, <3>1
  <2>. QED BY <2>1, <2>2, <2>3
<1>. QED BY <1>1, LoopInvAlways, PTL
=============================================================================
